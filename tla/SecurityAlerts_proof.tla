------------------------ MODULE SecurityAlerts_proof ------------------------
(***************************************************************************)
(* For every set of threads, users and rules, every threshold, window and  *)
(* calendar: alerts are spaced by their window, a denial that reaches the  *)
(* threshold leaves the account frozen, and no burst goes unnoticed.  Inv  *)
(* is the inductive invariant of SecurityAlerts; each action preserves its *)
(* parts.                                                                  *)
(***************************************************************************)
EXTENDS SecurityAlerts, FiniteSetTheorems, SequenceTheorems, TLAPS

\* The locals of a thread between two requests are well typed.
LEMMA NoRequestType == NoRequest \in Request /\ NoRequest.at = 0 /\ NoRequest.now = 0
                       /\ ~NoRequest.over
  BY SetsAssumption, BoundsAssumption DEF NoRequest, NewRequest, Request, Time

\* Assigning a local variable of one thread keeps the locals well typed and
\* changes that local only.
LEMMA AssignAt ==
  ASSUME NEW t \in Threads, NEW v \in Time, req \in [Threads -> Request], Assign(t, "at", v)
  PROVE  /\ req' \in [Threads -> Request]
         /\ \A s \in Threads : s # t => req'[s] = req[s]
         /\ req'[t].at = v /\ req'[t].now = req[t].now
         /\ req'[t].event = req[t].event /\ req'[t].over = req[t].over
  BY DEF Assign, Request

LEMMA AssignNow ==
  ASSUME NEW t \in Threads, NEW v \in Time, req \in [Threads -> Request], Assign(t, "now", v)
  PROVE  /\ req' \in [Threads -> Request]
         /\ \A s \in Threads : s # t => req'[s] = req[s]
         /\ req'[t].at = req[t].at /\ req'[t].now = v
         /\ req'[t].event = req[t].event /\ req'[t].over = req[t].over
  BY DEF Assign, Request

LEMMA AssignOver ==
  ASSUME NEW t \in Threads, req \in [Threads -> Request], Assign(t, "over", TRUE)
  PROVE  /\ req' \in [Threads -> Request]
         /\ \A s \in Threads : s # t => req'[s] = req[s]
         /\ req'[t].at = req[t].at /\ req'[t].now = req[t].now
         /\ req'[t].event = req[t].event /\ req'[t].over
  BY DEF Assign, Request

LEMMA AssignRecorded ==
  ASSUME NEW t \in Threads, NEW v \in Nat, req \in [Threads -> Request],
         req' = [req EXCEPT ![t]["event"] = v, ![t]["at"] = 0]
  PROVE  /\ req' \in [Threads -> Request]
         /\ \A s \in Threads : s # t => req'[s] = req[s]
         /\ req'[t].at = 0 /\ req'[t].now = req[t].now
         /\ req'[t].event = v /\ req'[t].over = req[t].over
  BY BoundsAssumption DEF Request, Time

LEMMA AssignNew ==
  ASSUME NEW t \in Threads, NEW u \in Users, NEW r \in Rules, NEW n \in Nat,
         req \in [Threads -> Request], req' = [req EXCEPT ![t] = NewRequest(u, r, n)]
  PROVE  /\ req' \in [Threads -> Request]
         /\ \A s \in Threads : s # t => req'[s] = req[s]
         /\ req'[t].at = 0 /\ req'[t].now = 0 /\ ~req'[t].over
  BY BoundsAssumption DEF NewRequest, Request, Time

\* The expiry a denial's freeze is given, and what _upsert_freeze makes of it.
LEMMA FreezeUntil ==
  ASSUME TypeOK, NEW t \in Threads
  PROVE  LET until == Extended(freeze[req[t].user], req[t].now + FreezeFor)
         IN /\ req[t].user \in Users
            /\ until \in Nat
            /\ until >= freeze[req[t].user] /\ until >= req[t].now + FreezeFor
  <1>1. req[t].user \in Users /\ req[t].now \in Nat
    BY BoundsAssumption DEF TypeOK, Request, Time
  <1>2. freeze[req[t].user] \in Nat /\ FreezeFor \in Nat
    BY <1>1, BoundsAssumption DEF TypeOK
  <1>3. QED
    BY <1>1, <1>2 DEF Extended

\* Windows begin no later than the instant they are seen from, and a later
\* instant sees a window that begins no earlier.
LEMMA SinceMonotone ==
  ASSUME NEW r \in Rules, NEW m \in Time, NEW n \in Time, m <= n
  PROVE  Since(r, m) \in Int /\ Since(r, m) <= m /\ Since(r, m) <= Since(r, n)
  <1>1. CASE r = DailyExport
    BY <1>1, DayStartAssumption DEF Since, Time
  <1>2. CASE r # DailyExport
    <2>1. Window[r] \in Nat
      BY BoundsAssumption
    <2>2. QED
      BY <1>2, <2>1 DEF Since, Time
  <1>3. QED
    BY <1>1, <1>2


LEMMA InitInv == Init => Inv
  <1> SUFFICES ASSUME Init PROVE Inv
    OBVIOUS
  <1> USE DEF Init
  <1>1. TypeOK
    BY NoRequestType, BoundsAssumption DEF TypeOK, Time, Stage
  <1>2. LockHeld /\ Deduplicated
    BY NoThreadAssumption DEF LockHeld, Locked, Deduplicated
  <1>3. RequestOK
    BY NoRequestType DEF RequestOK, Locked
  <1>4. FreezeBacked /\ AlertsSpaced
    BY DEF FreezeBacked, AlertsSpaced
  <1>5. QED
    BY <1>1, <1>2, <1>3, <1>4 DEF Inv

\* What the return paths of an evaluation do to the history of evaluations.
LEMMA FinishType ==
  ASSUME Inv, NEW t \in Threads, Finish(t), pc[t] \in Locked
  PROVE  judged' \in Seq(Time \cup {NoTime}) /\ Len(judged') = Len(events)
  <1>1. req[t].event \in 1..Len(judged) /\ req[t].now \in Time
    BY DEF Inv, TypeOK, RequestOK, Request
  <1>2. judged \in Seq(Time \cup {NoTime}) /\ Len(judged) = Len(events)
    BY DEF Inv, TypeOK
  <1>3. QED
    BY <1>1, <1>2, ExceptSeq DEF Finish

LEMMA TypeStep == Inv /\ [Next]_vars => TypeOK'
  <1> SUFFICES ASSUME Inv, [Next]_vars PROVE TypeOK'
    OBVIOUS
  <1> USE DEF TypeOK, Goto, Stage
  <1>1. TypeOK /\ RequestOK
    BY DEF Inv
  <1>2. ASSUME NEW t \in Threads, NEW u \in Users, NEW r \in Rules, NEW n \in Rows,
               Admit(t, u, r, n)
        PROVE  TypeOK'
    <2>1. req' \in [Threads -> Request]
      BY <1>1, <1>2, BoundsAssumption, AssignNew DEF Admit
    <2>2. QED
      BY <1>1, <1>2, <2>1 DEF Admit
  <1>3. ASSUME NEW t \in Threads, Stamp(t) PROVE TypeOK'
    <2>1. req' \in [Threads -> Request]
      BY <1>1, <1>3, AssignAt DEF Stamp
    <2>2. QED
      BY <1>1, <1>3, <2>1 DEF Stamp
  <1>4. ASSUME NEW t \in Threads, Record(t) PROVE TypeOK'
    <2>1. events' \in Seq(Event) /\ Len(events') = Len(events) + 1
      BY <1>1, <1>4 DEF Record, Event, Request
    <2>2. judged' \in Seq(Time \cup {NoTime}) /\ Len(judged') = Len(judged) + 1
      BY <1>1, <1>4 DEF Record
    <2>3. req' \in [Threads -> Request]
      <3>1. Len(events) + 1 \in Nat
        BY <1>1
      <3>2. req' = [req EXCEPT ![t]["event"] = Len(events) + 1, ![t]["at"] = 0]
        BY <1>4 DEF Record
      <3>3. QED
        BY <1>1, <3>1, <3>2, AssignRecorded
    <2>4. QED
      BY <1>1, <1>4, <2>1, <2>2, <2>3 DEF Record
  <1>5. ASSUME NEW t \in Threads, ReadNow(t) PROVE TypeOK'
    <2>1. req' \in [Threads -> Request]
      BY <1>1, <1>5, AssignNow DEF ReadNow
    <2>2. QED
      BY <1>1, <1>5, <2>1 DEF ReadNow
  <1>6. ASSUME NEW t \in Threads, Acquire(t) PROVE TypeOK'
    <2>1. (IF req[t].rule = AccessDenied THEN req[t].now ELSE clock) \in Time
      BY <1>1 DEF Request
    <2>2. req' \in [Threads -> Request]
      BY <1>1, <1>6, <2>1, AssignNow DEF Acquire
    <2>3. QED
      BY <1>1, <1>6, <2>2 DEF Acquire, Locked
  <1>7. ASSUME NEW t \in Threads, Count(t) PROVE TypeOK'
    <2>1. CASE Reached(t)
      <3>1. req' \in [Threads -> Request]
        BY <1>1, <1>7, <2>1, AssignOver DEF Count
      <3>2. QED
        BY <1>1, <1>7, <2>1, <3>1 DEF Count, Locked
    <2>2. CASE ~Reached(t)
      <3>1. judged' \in Seq(Time \cup {NoTime}) /\ Len(judged') = Len(events)
        BY <1>7, <2>2, FinishType DEF Count, Locked
      <3>2. QED
        BY <1>1, <1>7, <2>2, <3>1 DEF Count, Finish
    <2>3. QED
      BY <2>1, <2>2
  <1>8. ASSUME NEW t \in Threads, Check(t) PROVE TypeOK'
    <2>1. judged' \in Seq(Time \cup {NoTime}) /\ Len(judged') = Len(events)
      BY <1>1, <1>8, FinishType DEF Check, Locked
    <2>2. QED
      BY <1>1, <1>8, <2>1 DEF Check, Finish, Locked
  <1>9. ASSUME NEW t \in Threads, Raise(t) PROVE TypeOK'
    <2>1. judged' \in Seq(Time \cup {NoTime}) /\ Len(judged') = Len(events)
      BY <1>9, FinishType DEF Raise, Locked
    <2>2. alerts' \subseteq Alert
      BY <1>1, <1>9 DEF Raise, Alert, RequestOK, Request, Locked
    <2>3. freeze' \in [Users -> Nat]
      <3>1. /\ req[t].user \in Users
            /\ Extended(freeze[req[t].user], req[t].now + FreezeFor) \in Nat
        BY <1>1, FreezeUntil
      <3>2. QED
        BY <1>1, <1>9, <3>1 DEF Raise
    <2>4. QED
      BY <1>1, <1>9, <2>1, <2>2, <2>3 DEF Raise, Finish
  <1>10. ASSUME NEW t \in Threads, Respond(t) \/ StoreError(t) PROVE TypeOK'
    BY <1>1, <1>10, NoRequestType DEF Respond, StoreError
  <1>11. ASSUME NEW u \in Users, Unfreeze(u) PROVE TypeOK'
    BY <1>1, <1>11 DEF Unfreeze
  <1>12. CASE Restart
    BY <1>1, <1>12, NoRequestType DEF Restart
  <1>13. CASE Tick
    BY <1>1, <1>13, BoundsAssumption DEF Tick, Time
  <1>14. CASE UNCHANGED vars
    BY <1>1, <1>14 DEF vars
  <1>15. QED
    BY <1>2, <1>3, <1>4, <1>5, <1>6, <1>7, <1>8, <1>9, <1>10, <1>11, <1>12, <1>13, <1>14
       DEF Next, Evaluate

LEMMA LockStep == Inv /\ [Next]_vars => LockHeld'
  <1> SUFFICES ASSUME Inv, [Next]_vars PROVE LockHeld'
    OBVIOUS
  <1> USE NoThreadAssumption DEF Inv, TypeOK, LockHeld, Locked, Goto, Stage
  <1>1. ASSUME NEW t \in Threads, Acquire(t) PROVE LockHeld'
    BY <1>1 DEF Acquire
  <1>2. ASSUME NEW t \in Threads, Evaluate(t) PROVE LockHeld'
    <2>1. /\ pc[t] \in Locked
          /\ \/ pc'[t] \in Locked /\ lock' = lock
             \/ pc'[t] = "done" /\ lock' = NoThread
          /\ \A s \in Threads : s # t => pc'[s] = pc[s]
      <3>1. CASE Count(t) /\ Reached(t)
        BY <3>1 DEF Count
      <3>2. CASE Count(t) /\ ~Reached(t)
        BY <3>2 DEF Count, Finish
      <3>3. CASE Check(t)
        BY <3>3 DEF Check, Finish
      <3>4. CASE Raise(t)
        BY <3>4 DEF Raise, Finish
      <3>5. QED
        BY <1>2, <3>1, <3>2, <3>3, <3>4 DEF Evaluate
    <2>2. QED
      BY <2>1
  <1>3. ASSUME NEW t \in Threads, StoreError(t) PROVE LockHeld'
    BY <1>3 DEF StoreError
  <1>4. ASSUME NEW t \in Threads,
               \/ \E u \in Users, r \in Rules, n \in Rows : Admit(t, u, r, n)
               \/ Stamp(t) \/ Record(t) \/ ReadNow(t) \/ Respond(t)
        PROVE  LockHeld'
    BY <1>4 DEF Admit, Stamp, Record, ReadNow, Respond
  <1>5. CASE Restart
    BY <1>5 DEF Restart
  <1>6. CASE Tick \/ (\E u \in Users : Unfreeze(u)) \/ UNCHANGED vars
    BY <1>6 DEF Tick, Unfreeze, vars
  <1>7. QED
    BY <1>1, <1>2, <1>3, <1>4, <1>5, <1>6 DEF Next

LEMMA RequestStep == Inv /\ [Next]_vars => RequestOK'
  <1> SUFFICES ASSUME Inv, [Next]_vars PROVE RequestOK'
    OBVIOUS
  <1> USE DEF RequestOK, Locked
  <1>1. /\ RequestOK
        /\ req \in [Threads -> Request] /\ pc \in [Threads -> Stage]
        /\ clock \in Time /\ Len(events) \in Nat
        /\ \A t \in Threads : req[t].at \in Int /\ req[t].now \in Int
    BY DEF Inv, TypeOK, Request, Time
  <1>2. ASSUME NEW t \in Threads, NEW u \in Users, NEW r \in Rules, NEW n \in Rows,
               Admit(t, u, r, n)
        PROVE  RequestOK'
    <2>1. /\ \A s \in Threads : s # t => req'[s] = req[s] /\ pc'[s] = pc[s]
          /\ req'[t].at = 0 /\ req'[t].now = 0 /\ ~req'[t].over /\ pc'[t] = "admitted"
      BY <1>1, <1>2, BoundsAssumption, AssignNew DEF Admit, Goto
    <2>2. clock' = clock /\ events' = events
      BY <1>2 DEF Admit
    <2>3. QED
      BY <1>1, <2>1, <2>2 DEF Time
  <1>3. ASSUME NEW t \in Threads, Stamp(t) PROVE RequestOK'
    <2>1. /\ \A s \in Threads : s # t => req'[s] = req[s] /\ pc'[s] = pc[s]
          /\ req'[t].at = clock /\ req'[t].now = req[t].now /\ req'[t].over = req[t].over
          /\ pc[t] = "admitted" /\ pc'[t] = "stamped"
      BY <1>1, <1>3, AssignAt DEF Stamp, Goto
    <2>2. clock' = clock /\ events' = events
      BY <1>3 DEF Stamp
    <2>3. QED
      BY <1>1, <2>1, <2>2 DEF Time
  <1>4. ASSUME NEW t \in Threads, Record(t) PROVE RequestOK'
    <2>1. /\ \A s \in Threads : s # t => req'[s] = req[s] /\ pc'[s] = pc[s]
          /\ req'[t].at = 0 /\ req'[t].now = req[t].now /\ req'[t].event = Len(events) + 1
          /\ req'[t].over = req[t].over
          /\ pc[t] = "stamped" /\ pc'[t] \in {"recorded", "waiting"}
      <3>1. Len(events) + 1 \in Nat
        BY <1>1
      <3>2. req' = [req EXCEPT ![t]["event"] = Len(events) + 1, ![t]["at"] = 0]
        BY <1>4 DEF Record
      <3>3. /\ \A s \in Threads : s # t => pc'[s] = pc[s]
            /\ pc[t] = "stamped" /\ pc'[t] \in {"recorded", "waiting"}
        BY <1>1, <1>4 DEF Record, Goto
      <3>4. QED
        BY <1>1, <3>1, <3>2, <3>3, AssignRecorded
    <2>2. Len(events') = Len(events) + 1 /\ clock' = clock
      BY <1>4 DEF Record, Inv, TypeOK
    <2>3. QED
      BY <1>1, <2>1, <2>2 DEF Time
  <1>5. ASSUME NEW t \in Threads, ReadNow(t) \/ Acquire(t) PROVE RequestOK'
    <2>1. /\ \A s \in Threads : s # t => req'[s] = req[s] /\ pc'[s] = pc[s]
          /\ req'[t].at = req[t].at /\ req'[t].now \in {clock, req[t].now}
          /\ req'[t].event = req[t].event /\ req'[t].over = req[t].over
          /\ pc[t] \in {"recorded", "waiting"} /\ pc'[t] \in {"waiting", "counting"}
      <3>1. CASE ReadNow(t)
        BY <1>1, <3>1, AssignNow DEF ReadNow, Goto
      <3>2. CASE Acquire(t)
        <4>1. (IF req[t].rule = AccessDenied THEN req[t].now ELSE clock) \in Time
          BY <1>1 DEF Request
        <4>2. QED
          BY <1>1, <3>2, <4>1, AssignNow DEF Acquire, Goto
      <3>3. QED
        BY <1>5, <3>1, <3>2
    <2>2. clock' = clock /\ events' = events
      BY <1>5 DEF ReadNow, Acquire
    <2>3. QED
      BY <1>1, <2>1, <2>2 DEF Time
  <1>6. ASSUME NEW t \in Threads, Evaluate(t) PROVE RequestOK'
    <2>1. /\ \A s \in Threads : s # t => req'[s] = req[s] /\ pc'[s] = pc[s]
          /\ req'[t].at = req[t].at /\ req'[t].now = req[t].now
          /\ req'[t].event = req[t].event
          /\ pc[t] \in Locked /\ pc'[t] \in {"checking", "raising", "done"}
      <3>1. CASE Count(t) /\ Reached(t)
        BY <1>1, <3>1, AssignOver DEF Count, Goto
      <3>2. CASE Count(t) /\ ~Reached(t)
        BY <1>1, <3>2 DEF Count, Goto
      <3>3. CASE Check(t) \/ Raise(t)
        BY <1>1, <3>3 DEF Check, Raise, Goto
      <3>4. QED
        BY <1>6, <3>1, <3>2, <3>3 DEF Evaluate
    <2>2. clock' = clock /\ events' = events
      BY <1>6 DEF Evaluate, Count, Check, Raise
    <2>3. QED
      BY <1>1, <2>1, <2>2
  <1>7. ASSUME NEW t \in Threads, Respond(t) \/ StoreError(t) PROVE RequestOK'
    <2>1. /\ \A s \in Threads : s # t => req'[s] = req[s] /\ pc'[s] = pc[s]
          /\ req'[t].at = 0 /\ req'[t].now = 0 /\ ~req'[t].over /\ pc'[t] = "idle"
      BY <1>1, <1>7, NoRequestType DEF Respond, StoreError, Goto
    <2>2. clock' = clock /\ events' = events
      BY <1>7 DEF Respond, StoreError
    <2>3. QED
      BY <1>1, <2>1, <2>2 DEF Time
  <1>8. CASE Restart
    BY <1>1, <1>8, NoRequestType DEF Restart, Time
  <1>9. CASE Tick
    BY <1>1, <1>9 DEF Tick, Time
  <1>10. CASE UNCHANGED <<clock, events, pc, req>>
    BY <1>1, <1>10
  <1>11. QED
    BY <1>2, <1>3, <1>4, <1>5, <1>6, <1>7, <1>8, <1>9, <1>10 DEF Next, Unfreeze, vars

\* The alert a thread inserts: the window of its evaluation held none, and the
\* alert carries an instant at or after the evaluation's.
LEMMA RaisedAlert ==
  ASSUME Inv, NEW t \in Threads, Raise(t)
  PROVE  \E a \in Alert :
            /\ alerts' = alerts \cup {a}
            /\ a.user = req[t].user /\ a.rule = req[t].rule
            /\ req[t].now <= a.at /\ a.at <= clock
            /\ a.rule = AccessDenied => a.at = req[t].now
            /\ \A b \in alerts : (b.user = a.user /\ b.rule = a.rule) =>
                   b.at < Since(a.rule, a.at)
  <1> DEFINE r == req[t].rule
             a == [user |-> req[t].user, rule |-> r,
                   at |-> IF r = AccessDenied THEN req[t].now ELSE clock,
                   event |-> req[t].event]
  <1>1. pc[t] = "raising" /\ alerts' = alerts \cup {a}
    BY DEF Raise, Goto
  <1>2. req[t] \in Request /\ clock \in Time /\ req[t].now <= clock
        /\ req[t].event \in 1..Len(events) /\ events \in Seq(Event)
    BY <1>1 DEF Inv, TypeOK, RequestOK, Locked
  <1>3. a \in Alert /\ a.at \in Time /\ req[t].now <= a.at /\ a.at <= clock
    BY <1>2 DEF Alert, Request, Time
  <1>4. r \in Rules /\ req[t].now \in Time
    BY <1>2 DEF Request
  <1>5. Since(r, req[t].now) <= Since(r, a.at) /\ Since(r, req[t].now) \in Int
        /\ Since(r, a.at) \in Int
    BY <1>3, <1>4, SinceMonotone DEF Time
  <1>6. ASSUME NEW b \in alerts, b.user = a.user, b.rule = a.rule
        PROVE  b.at < Since(a.rule, a.at)
    <2>1. ~(b.at >= Since(r, req[t].now))
      BY <1>1, <1>6 DEF Inv, Deduplicated, RecentAlert
    <2>2. b.at \in Int
      BY DEF Inv, TypeOK, Alert, Time
    <2>3. QED
      BY <1>5, <2>1, <2>2
  <1>7. QED
    BY <1>1, <1>3, <1>6

LEMMA SpacedStep == Inv /\ [Next]_vars => AlertsSpaced'
  <1> SUFFICES ASSUME Inv, [Next]_vars PROVE AlertsSpaced'
    OBVIOUS
  <1>1. ASSUME NEW t \in Threads, Raise(t) PROVE AlertsSpaced'
    BY <1>1, RaisedAlert DEF Inv, AlertsSpaced
  <1>2. CASE alerts' = alerts
    BY <1>2 DEF Inv, AlertsSpaced
  <1>3. QED
    BY <1>1, <1>2 DEF Next, Evaluate, Admit, Stamp, Record, ReadNow, Acquire, Count, Check,
       Respond, StoreError, Unfreeze, Restart, Tick, vars

LEMMA FreezeStep == Inv /\ [Next]_vars => FreezeBacked'
  <1> SUFFICES ASSUME Inv, [Next]_vars PROVE FreezeBacked'
    OBVIOUS
  <1> USE DEF Inv, TypeOK, FreezeBacked, Alert, Time
  <1>1. ASSUME NEW t \in Threads, Raise(t) PROVE FreezeBacked'
    <2>1. PICK a \in Alert : /\ alerts' = alerts \cup {a}
                             /\ a.user = req[t].user /\ a.rule = req[t].rule
                             /\ a.at <= clock
                             /\ a.rule = AccessDenied => a.at = req[t].now
      BY <1>1, RaisedAlert
    <2>2. clock' = clock /\ lifted' = lifted
      BY <1>1 DEF Raise
    <2> DEFINE until == Extended(freeze[req[t].user], req[t].now + FreezeFor)
    <2>3. /\ req[t].user \in Users
          /\ until >= freeze[req[t].user] /\ until >= req[t].now + FreezeFor
      BY FreezeUntil DEF Inv
    <2>4. freeze' = IF req[t].rule = AccessDenied
                    THEN [freeze EXCEPT ![req[t].user] = until] ELSE freeze
      BY <1>1 DEF Raise
    <2> HIDE DEF until
    <2>5. freeze' \in [Users -> Nat]
      BY TypeStep
    <2>6. \A u \in Users : freeze[u] \in Nat /\ freeze'[u] \in Nat /\ freeze'[u] >= freeze[u]
      BY <2>3, <2>4, <2>5
    <2>7. ASSUME NEW b \in alerts'
          PROVE  /\ b.at <= clock'
                 /\ b.rule = AccessDenied =>
                       freeze'[b.user] >= b.at + FreezeFor \/ lifted'[b.user] >= b.at
      <3>1. CASE b \in alerts
        BY <2>2, <2>6, <3>1, BoundsAssumption
      <3>2. CASE b = a
        <4>1. b.at <= clock'
          BY <2>1, <2>2, <3>2
        <4>2. b.rule = AccessDenied => freeze'[b.user] >= b.at + FreezeFor
          BY <2>1, <2>3, <2>4, <3>2
        <4>3. QED
          BY <4>1, <4>2
      <3>3. QED
        BY <2>1, <3>1, <3>2
    <2>8. QED
      BY <2>7
  <1>2. ASSUME NEW u \in Users, Unfreeze(u) PROVE FreezeBacked'
    BY <1>2, BoundsAssumption DEF Unfreeze
  <1>3. CASE Tick
    BY <1>3 DEF Tick
  <1>4. CASE UNCHANGED <<clock, alerts, freeze, lifted>>
    BY <1>4
  <1>5. QED
    BY <1>1, <1>2, <1>3, <1>4 DEF Next, Evaluate, Admit, Stamp, Record, ReadNow, Acquire,
       Count, Check, Respond, StoreError, Restart, vars

LEMMA DeduplicatedStep == Inv /\ [Next]_vars => Deduplicated'
  <1> DEFINE Recent(q) == RecentAlert(q.user, q.rule, Since(q.rule, q.now))
             Good(s) == /\ pc[s] = "raising" => ~Recent(req[s])
                        /\ (pc[s] = "done" /\ req[s].over) => Recent(req[s])
  <1> SUFFICES ASSUME Inv, [Next]_vars, NEW s \in Threads PROVE Good(s)'
    BY DEF Deduplicated
  <1>1. /\ Good(s) /\ LockHeld /\ RequestOK
        /\ req \in [Threads -> Request] /\ pc \in [Threads -> Stage]
    BY DEF Inv, TypeOK, Deduplicated
  <1>2. ASSUME UNCHANGED alerts, req'[s] = req[s], pc'[s] = pc[s] PROVE Good(s)'
    BY <1>1, <1>2 DEF RecentAlert
  <1>3. ASSUME pc'[s] \notin {"raising", "done"} PROVE Good(s)'
    BY <1>3
  <1>4. ASSUME NEW t \in Threads, Raise(t) PROVE Good(s)'
    <2>1. PICK a \in Alert : /\ alerts' = alerts \cup {a}
                             /\ a.user = req[t].user /\ a.rule = req[t].rule
                             /\ req[t].now <= a.at
      BY <1>4, RaisedAlert
    <2>2. req' = req /\ pc[t] = "raising" /\ pc'[t] = "done"
          /\ (s # t => pc'[s] = pc[s])
      BY <1>1, <1>4 DEF Raise, Goto
    <2>3. Recent(req[s]) => Recent(req[s])'
      BY <2>1, <2>2 DEF RecentAlert
    <2>4. CASE s = t
      <3>1. Since(req[t].rule, req[t].now) \in Int
            /\ Since(req[t].rule, req[t].now) <= req[t].now
        BY <1>1, SinceMonotone DEF Request, Time
      <3>2. req[t].now \in Int /\ a.at \in Int
        BY <1>1 DEF Request, Alert, Time
      <3>3. a.at >= Since(req[t].rule, req[t].now)
        BY <2>1, <3>1, <3>2
      <3>4. Recent(req[s])'
        BY <2>1, <2>2, <2>4, <3>3 DEF RecentAlert
      <3>5. QED
        BY <2>2, <2>4, <3>4
    <2>5. CASE s # t
      <3>1. pc[s] # "raising"
        BY <1>1, <2>2, <2>5 DEF LockHeld, Locked
      <3>2. QED
        BY <1>1, <2>2, <2>3, <2>5, <3>1
    <2>6. QED
      BY <2>4, <2>5
  <1>5. ASSUME NEW t \in Threads, Check(t) PROVE Good(s)'
    <2>1. CASE s # t
      BY <1>1, <1>2, <1>5, <2>1 DEF Check, Goto
    <2>2. CASE s = t
      BY <1>1, <1>5, <2>2 DEF Check, Goto, RecentAlert
    <2>3. QED
      BY <2>1, <2>2
  <1>6. ASSUME NEW t \in Threads, Count(t) PROVE Good(s)'
    <2>1. CASE Reached(t)
      <3>1. (s = t => pc'[s] = "checking") /\ (s # t => pc'[s] = pc[s]) /\ UNCHANGED alerts
        BY <1>1, <1>6, <2>1 DEF Count, Goto
      <3>2. s # t => req'[s] = req[s]
        BY <1>1, <1>6, <2>1 DEF Count, Assign
      <3>3. QED
        BY <1>2, <1>3, <3>1, <3>2
    <2>2. CASE ~Reached(t)
      <3>1. (s = t => pc[s] = "counting" /\ pc'[s] = "done") /\ (s # t => pc'[s] = pc[s])
            /\ UNCHANGED <<alerts, req>>
        BY <1>1, <1>6, <2>2 DEF Count, Goto
      <3>2. s = t => ~req[s].over
        BY <1>1, <3>1 DEF RequestOK
      <3>3. QED
        BY <1>2, <3>1, <3>2
    <2>3. QED
      BY <2>1, <2>2
  <1>7. ASSUME NEW t \in Threads,
               \/ \E u \in Users, r \in Rules, n \in Rows : Admit(t, u, r, n)
               \/ Stamp(t) \/ Record(t) \/ ReadNow(t) \/ Acquire(t)
               \/ Respond(t) \/ StoreError(t)
        PROVE  Good(s)'
    <2>1. UNCHANGED alerts /\ (s # t => pc'[s] = pc[s])
          /\ (s = t => pc'[s] \notin {"raising", "done"})
      BY <1>1, <1>7 DEF Admit, Stamp, Record, ReadNow, Acquire, Respond, StoreError, Goto
    <2>2. s # t => req'[s] = req[s]
      BY <1>1, <1>7 DEF Admit, Stamp, Record, ReadNow, Acquire, Respond, StoreError, Assign
    <2>3. QED
      BY <1>2, <1>3, <2>1, <2>2
  <1>8. CASE Restart
    BY <1>3, <1>8 DEF Restart
  <1>9. CASE Tick \/ (\E u \in Users : Unfreeze(u)) \/ UNCHANGED vars
    BY <1>2, <1>9 DEF Tick, Unfreeze, vars
  <1>10. QED
    BY <1>4, <1>5, <1>6, <1>7, <1>8, <1>9 DEF Next, Evaluate

\* The inductive invariant holds of every behaviour of the threads.
THEOREM Inductive == Spec => []Inv
  <1>1. Init => Inv
    BY InitInv
  <1>2. Inv /\ [Next]_vars => Inv'
    BY TypeStep, LockStep, RequestStep, DeduplicatedStep, FreezeStep, SpacedStep DEF Inv
  <1>3. QED
    BY <1>1, <1>2, PTL DEF Spec

\* Alerts of one rule for one user are never closer than the rule's window.
THEOREM Spacing == Spec => []AlertsSpaced
  <1>1. Inv => AlertsSpaced
    BY DEF Inv
  <1>2. QED
    BY <1>1, Inductive, PTL

\* A denial that reaches the threshold leaves the account frozen: the merged
\* alert is at most one window old, and its freeze outlasts the window.
THEOREM Freezing == Spec => []ThirdDenialFrozen
  <1>1. Inv => ThirdDenialFrozen
    <2>1. SUFFICES ASSUME Inv, NEW t \in Threads, pc[t] = "done",
                          req[t].rule = AccessDenied, req[t].over
                   PROVE  \/ freeze[req[t].user] > req[t].now
                          \/ /\ lifted[req[t].user] # NoTime
                             /\ lifted[req[t].user] >= Since(AccessDenied, req[t].now)
      BY DEF ThirdDenialFrozen
    <2>2. PICK a \in alerts : /\ a.user = req[t].user /\ a.rule = AccessDenied
                              /\ a.at >= Since(AccessDenied, req[t].now)
      BY <2>1 DEF Inv, Deduplicated, RecentAlert
    <2>3. /\ req[t].rule \in Rules /\ req[t].user \in Users /\ req[t].now \in Nat
          /\ a.at \in Nat
      BY <2>1 DEF Inv, TypeOK, Request, Alert, Time
    <2>4. /\ Since(AccessDenied, req[t].now) = req[t].now - Window[AccessDenied]
          /\ Window[AccessDenied] \in Nat /\ FreezeFor \in Nat
          /\ Window[AccessDenied] < FreezeFor
      BY <2>1, <2>3, BoundsAssumption, FreezeAssumption DEF Since, AccessDenied, DailyExport
    <2>5. freeze[req[t].user] \in Nat /\ lifted[req[t].user] \in Int
      BY <2>1, <2>3 DEF Inv, TypeOK, Time, NoTime
    <2>6. CASE freeze[a.user] >= a.at + FreezeFor
      BY <2>2, <2>3, <2>4, <2>5, <2>6
    <2>7. CASE lifted[a.user] >= a.at
      BY <2>2, <2>3, <2>4, <2>5, <2>7 DEF NoTime
    <2>8. QED
      BY <2>1, <2>2, <2>6, <2>7 DEF Inv, FreezeBacked
  <1>2. QED
    BY <1>1, Inductive, PTL

-----------------------------------------------------------------------------
\* Bursts.  An evaluation counts the events of its own event's user and rule.
OwnEvent ==
    \A t \in Threads :
        pc[t] \in {"recorded", "waiting", "done"} \cup Locked =>
            /\ events[req[t].event].user = req[t].user
            /\ events[req[t].event].rule = req[t].rule

\* What a step does to events, alerts and the instants of the evaluations.
Quiet == events' = events /\ judged' = judged /\ alerts' = alerts

Recorded ==
    /\ \E e \in Event : events' = Append(events, e)
    /\ judged' = Append(judged, NoTime) /\ alerts' = alerts

Evaluated ==
    /\ events' = events /\ alerts \subseteq alerts'
    /\ \E t \in Threads :
        /\ pc[t] \in Locked
        /\ judged' = [judged EXCEPT ![req[t].event] = req[t].now]
        /\ ~Reached(t) \/ \E a \in alerts' : /\ a.user = req[t].user /\ a.rule = req[t].rule
                                              /\ a.at >= Since(req[t].rule, req[t].now)

LEMMA OwnStep == Inv /\ OwnEvent /\ [Next]_vars => OwnEvent'
  <1> SUFFICES ASSUME Inv, OwnEvent, [Next]_vars PROVE OwnEvent'
    OBVIOUS
  <1> USE DEF OwnEvent, Locked
  <1>1. /\ TypeOK /\ RequestOK /\ req \in [Threads -> Request] /\ pc \in [Threads -> Stage]
        /\ events \in Seq(Event) /\ Len(events) \in Nat
    BY DEF Inv, TypeOK
  <1>2. ASSUME NEW t \in Threads, NEW u \in Users, NEW r \in Rules, NEW n \in Rows,
               Admit(t, u, r, n)
        PROVE  OwnEvent'
    BY <1>1, <1>2 DEF Admit, Goto
  <1>3. ASSUME NEW t \in Threads, Stamp(t) PROVE OwnEvent'
    BY <1>1, <1>3 DEF Stamp, Goto, Assign
  <1>4. ASSUME NEW t \in Threads, Record(t) PROVE OwnEvent'
    <2> DEFINE e == [user |-> req[t].user, rule |-> req[t].rule,
                     at |-> req[t].at, rows |-> req[t].rows]
               n == Len(events) + 1
    <2>1. e \in Event
      BY <1>1 DEF Request, Event
    <2>2. /\ events' = Append(events, e) /\ pc[t] = "stamped"
          /\ \A s \in Threads : s # t => pc'[s] = pc[s]
      BY <1>1, <1>4 DEF Record, Goto
    <2> HIDE DEF e
    <2>3. \A i \in 1..Len(events) : events'[i] = events[i]
      BY <1>1, <2>1, <2>2, AppendProperties
    <2>4. events'[n] = e
      BY <1>1, <2>1, <2>2, AppendProperties
    <2>5. /\ \A s \in Threads : s # t => req'[s] = req[s]
          /\ req'[t].event = n /\ req'[t].user = req[t].user /\ req'[t].rule = req[t].rule
      BY <1>1, <1>4 DEF Record, Request
    <2>6. ASSUME NEW s \in Threads, s # t, pc[s] \in {"recorded", "waiting", "done"} \cup Locked
          PROVE  req[s].event \in 1..Len(events)
      BY <2>6 DEF Inv, RequestOK
    <2>7. e.user = req[t].user /\ e.rule = req[t].rule
      BY DEF e
    <2> QED
      BY <2>2, <2>3, <2>4, <2>5, <2>6, <2>7
  <1>5. ASSUME NEW t \in Threads, ReadNow(t) PROVE OwnEvent'
    BY <1>1, <1>5 DEF ReadNow, Goto, Assign, Request
  <1>6. ASSUME NEW t \in Threads, Acquire(t) PROVE OwnEvent'
    BY <1>1, <1>6 DEF Acquire, Goto, Assign, Request
  <1>7. ASSUME NEW t \in Threads, Count(t) PROVE OwnEvent'
    BY <1>1, <1>7 DEF Count, Goto, Assign, Request
  <1>8. ASSUME NEW t \in Threads, Check(t) \/ Raise(t) PROVE OwnEvent'
    BY <1>1, <1>8 DEF Check, Raise, Goto
  <1>9. ASSUME NEW t \in Threads, Respond(t) \/ StoreError(t) PROVE OwnEvent'
    BY <1>1, <1>9 DEF Respond, StoreError, Goto
  <1>10. CASE Restart
    BY <1>10 DEF Restart
  <1>11. CASE UNCHANGED <<events, pc, req>>
    BY <1>11
  <1> QED
    BY <1>2, <1>3, <1>4, <1>5, <1>6, <1>7, <1>8, <1>9, <1>10, <1>11
       DEF Next, Evaluate, Unfreeze, Tick, vars

LEMMA StepsOfBursts == Inv /\ [Next]_vars => Quiet \/ Recorded \/ Evaluated
  <1> SUFFICES ASSUME Inv, [Next]_vars PROVE Quiet \/ Recorded \/ Evaluated
    OBVIOUS
  <1>1. ASSUME NEW t \in Threads, Record(t) PROVE Recorded
    <2>1. [user |-> req[t].user, rule |-> req[t].rule, at |-> req[t].at,
           rows |-> req[t].rows] \in Event
      BY DEF Inv, TypeOK, Request, Event
    <2> QED
      BY <1>1, <2>1 DEF Record, Recorded
  <1>2. ASSUME NEW t \in Threads, Count(t) PROVE Quiet \/ Evaluated
    BY <1>2 DEF Count, Goto, Finish, Quiet, Evaluated, Locked
  <1>3. ASSUME NEW t \in Threads, Check(t) PROVE Quiet \/ Evaluated
    BY <1>3 DEF Check, Goto, Finish, Quiet, Evaluated, Locked, RecentAlert
  <1>4. ASSUME NEW t \in Threads, Raise(t) PROVE Evaluated
    <2>1. PICK a \in Alert : /\ alerts' = alerts \cup {a}
                             /\ a.user = req[t].user /\ a.rule = req[t].rule
                             /\ req[t].now <= a.at
      BY <1>4, RaisedAlert
    <2>2. req[t].rule \in Rules /\ req[t].now \in Time /\ a.at \in Int
      BY DEF Inv, TypeOK, Request, Alert, Time
    <2>3. Since(req[t].rule, req[t].now) \in Int /\ Since(req[t].rule, req[t].now) <= req[t].now
      <3>1. req[t].now <= req[t].now
        BY <2>2 DEF Time
      <3> QED
        BY <2>2, <3>1, SinceMonotone
    <2>4. a.at >= Since(req[t].rule, req[t].now)
      BY <2>1, <2>2, <2>3 DEF Time
    <2>5. /\ events' = events /\ pc[t] = "raising"
          /\ judged' = [judged EXCEPT ![req[t].event] = req[t].now]
      BY <1>4 DEF Raise, Goto, Finish
    <2> QED
      BY <2>1, <2>4, <2>5 DEF Evaluated, Locked
  <1>5. CASE UNCHANGED <<events, judged, alerts>>
    BY <1>5 DEF Quiet
  <1> QED
    BY <1>1, <1>2, <1>3, <1>4, <1>5 DEF Next, Evaluate, Admit, Stamp, ReadNow, Acquire,
       Respond, StoreError, Unfreeze, Restart, Tick, vars

\* As many events as the threshold of a user and a rule, evaluated and in one window.
Burst(u, r, S) ==
    /\ S \in SUBSET (1..Len(events)) /\ Cardinality(S) = Threshold[r] /\ S # {}
    /\ \A i \in S : /\ events[i].user = u /\ events[i].rule = r /\ events[i].at >= 0
                   /\ judged[i] # NoTime
    /\ \A i, j \in S : events[i].at >= Since(r, judged[j])

Alerted(u, r, S) ==
    \E a \in alerts : a.user = u /\ a.rule = r /\ \E i \in S : a.at >= Since(r, judged[i])

Bursts == \A u \in Users, r \in Rules \ {DailyExport} :
            \A S \in SUBSET (1..Len(events)) : Burst(u, r, S) => Alerted(u, r, S)

LEMMA BurstsAre == TypeOK => (Bursts <=> BurstAlerted)
  <1> SUFFICES ASSUME TypeOK PROVE Bursts <=> BurstAlerted
    OBVIOUS
  <1>1. DOMAIN events = 1..Len(events)
    BY DEF TypeOK
  <1>2. ASSUME NEW u \in Users, NEW r \in Rules, NEW S
        PROVE  Burst(u, r, S) <=>
                 /\ S \in kSubset(Threshold[r],
                                  {i \in Counted(events, u, r, 0) : judged[i] # NoTime})
                 /\ S # {} /\ \A i, j \in S : events[i].at >= Since(r, judged[j])
    BY <1>1 DEF Burst, kSubset, Counted
  <1>3. ASSUME NEW u, NEW r, NEW S, Burst(u, r, S) PROVE S \in SUBSET (1..Len(events))
    BY <1>3 DEF Burst
  <1>4. ASSUME Bursts PROVE BurstAlerted
    <2> SUFFICES ASSUME NEW u \in Users, NEW r \in Rules \ {DailyExport},
                        NEW S \in kSubset(Threshold[r],
                                         {i \in Counted(events, u, r, 0) : judged[i] # NoTime}),
                        S # {}, \A i, j \in S : events[i].at >= Since(r, judged[j])
                 PROVE  \E a \in alerts : /\ a.user = u /\ a.rule = r
                                        /\ \E i \in S : a.at >= Since(r, judged[i])
      BY DEF BurstAlerted
    <2>1. Burst(u, r, S)
      BY <1>2
    <2>2. Alerted(u, r, S)
      BY <1>3, <1>4, <2>1 DEF Bursts
    <2> QED
      BY <2>2 DEF Alerted
  <1>5. ASSUME BurstAlerted PROVE Bursts
    <2> SUFFICES ASSUME NEW u \in Users, NEW r \in Rules \ {DailyExport}, NEW S, Burst(u, r, S)
                 PROVE  Alerted(u, r, S)
      BY DEF Bursts
    <2>1. /\ S \in kSubset(Threshold[r], {i \in Counted(events, u, r, 0) : judged[i] # NoTime})
          /\ S # {} /\ \A i, j \in S : events[i].at >= Since(r, judged[j])
      BY <1>2
    <2> QED
      BY <1>5, <2>1 DEF BurstAlerted, Alerted
  <1> QED
    BY <1>4, <1>5

\* A step that leaves a burst as it is leaves its alert.
LEMMA BurstKept ==
  ASSUME Bursts, NEW u \in Users, NEW r \in Rules \ {DailyExport}, NEW S, Burst(u, r, S)',
         alerts \subseteq alerts', S \in SUBSET (1..Len(events)),
         \A i \in S : events'[i] = events[i] /\ judged'[i] = judged[i]
  PROVE  Alerted(u, r, S)'
  <1>1. Burst(u, r, S)
    BY DEF Burst
  <1>2. Alerted(u, r, S)
    BY <1>1 DEF Bursts
  <1> QED
    BY <1>2 DEF Alerted

LEMMA BurstStep == Inv /\ OwnEvent /\ Bursts /\ [Next]_vars => Bursts'
  <1> SUFFICES ASSUME Inv, OwnEvent, Bursts, [Next]_vars,
                      NEW u \in Users, NEW r \in Rules \ {DailyExport}, NEW S, Burst(u, r, S)'
               PROVE  Alerted(u, r, S)'
    BY DEF Bursts
  <1>1. /\ events \in Seq(Event) /\ judged \in Seq(Time \cup {NoTime})
        /\ Len(judged) = Len(events) /\ Len(events) \in Nat
    BY DEF Inv, TypeOK
  <1>2. CASE Quiet
    <2>1. S \in SUBSET (1..Len(events))
      BY <1>2 DEF Quiet, Burst
    <2> QED
      BY <1>2, <2>1, BurstKept DEF Quiet
  <1>3. CASE Recorded
    <2>1. PICK e \in Event : events' = Append(events, e)
      BY <1>3 DEF Recorded
    <2>2. Len(events') = Len(events) + 1 /\ \A i \in 1..Len(events) : events'[i] = events[i]
      BY <1>1, <2>1, AppendProperties
    <2>3. NoTime \in Time \cup {NoTime} /\ judged' = Append(judged, NoTime)
      BY <1>3 DEF Recorded
    <2>4. /\ judged'[Len(events) + 1] = NoTime
          /\ \A i \in 1..Len(events) : judged'[i] = judged[i]
      BY <1>1, <2>3, AppendProperties
    <2>5. S \in SUBSET (1..Len(events) + 1) /\ \A i \in S : judged'[i] # NoTime
      BY <2>2 DEF Burst
    <2>6. S \in SUBSET (1..Len(events))
      BY <1>1, <2>4, <2>5
    <2> QED
      BY <1>3, <2>2, <2>4, <2>6, BurstKept DEF Recorded
  <1>4. CASE Evaluated
    <2>1. PICK t \in Threads :
            /\ pc[t] \in Locked
            /\ judged' = [judged EXCEPT ![req[t].event] = req[t].now]
            /\ ~Reached(t) \/ \E a \in alerts' : /\ a.user = req[t].user /\ a.rule = req[t].rule
                                                 /\ a.at >= Since(req[t].rule, req[t].now)
      BY <1>4 DEF Evaluated
    <2>2. events' = events /\ alerts \subseteq alerts' /\ S \in SUBSET (1..Len(events))
      BY <1>4 DEF Evaluated, Burst
    <2>3. PICK k : k = req[t].event
      OBVIOUS
    <2>4. /\ k \in 1..Len(events) /\ req[t].now \in Time
          /\ events[k].user = req[t].user /\ events[k].rule = req[t].rule
      BY <2>1, <2>3 DEF Inv, TypeOK, RequestOK, OwnEvent, Request
    <2>5. judged'[k] = req[t].now /\ \A i \in 1..Len(events) : i # k => judged'[i] = judged[i]
      BY <1>1, <2>1, <2>3, <2>4
    <2>6. CASE k \notin S
      BY <2>2, <2>5, <2>6, BurstKept
    <2>7. CASE k \in S
      <3>1. req[t].user = u /\ req[t].rule = r
        BY <2>2, <2>4, <2>7 DEF Burst
      <3>2. \A i \in S : events[i].at >= Since(r, req[t].now)
        BY <2>2, <2>5, <2>7 DEF Burst
      <3>3. Reached(t)
        <4> DEFINE C == Counted(events, u, r, Since(r, req[t].now))
        <4>1. S \subseteq C
          BY <1>1, <2>2, <3>2 DEF Burst, Counted
        <4>2. IsFiniteSet(C)
          <5>1. C \subseteq 1..Len(events)
            BY <1>1 DEF Counted
          <5>2. IsFiniteSet(1..Len(events))
            BY <1>1, FS_Interval
          <5> QED
            BY <5>1, <5>2, FS_Subset
        <4> HIDE DEF C
        <4>3. Cardinality(S) <= Cardinality(C) /\ Cardinality(C) \in Nat /\ Cardinality(S) \in Nat
          BY <4>1, <4>2, FS_Subset, FS_CardinalityType
        <4>4. /\ Cardinality(S) = Threshold[r]
              /\ Measure(events, u, r, Since(r, req[t].now)) = Cardinality(C)
          BY DEF Burst, Measure, C
        <4>5. Measure(events, req[t].user, req[t].rule, Since(req[t].rule, req[t].now))
                >= Threshold[req[t].rule]
          BY <3>1, <4>3, <4>4
        <4> QED
          BY <4>5 DEF Reached, Due
      <3>4. PICK a \in alerts' : /\ a.user = req[t].user /\ a.rule = req[t].rule
                                 /\ a.at >= Since(req[t].rule, req[t].now)
        BY <2>1, <3>3
      <3> QED
        BY <2>5, <2>7, <3>1, <3>4 DEF Alerted
    <2> QED
      BY <2>6, <2>7
  <1> QED
    BY <1>2, <1>3, <1>4, StepsOfBursts

LEMMA InitBursts == Init => OwnEvent /\ Bursts
  <1> SUFFICES ASSUME Init PROVE OwnEvent /\ Bursts
    OBVIOUS
  <1>1. OwnEvent
    BY DEF Init, OwnEvent, Locked
  <1>2. 1..Len(events) = {}
    BY DEF Init
  <1>3. Bursts
    BY <1>2 DEF Bursts, Burst
  <1> QED
    BY <1>1, <1>3

\* No burst goes unnoticed: whichever evaluation of a burst is the last to finish has
\* counted all of its events, since every request records its event before it evaluates.
THEOREM Bursting == Spec => []BurstAlerted
  <1>1. Init => OwnEvent /\ Bursts
    BY InitBursts
  <1>2. Inv /\ OwnEvent /\ Bursts /\ [Next]_vars => OwnEvent' /\ Bursts'
    BY OwnStep, BurstStep
  <1>3. Inv /\ Bursts => BurstAlerted
    BY BurstsAre DEF Inv
  <1>4. QED
    BY <1>1, <1>2, <1>3, Inductive, PTL DEF Spec

-----------------------------------------------------------------------------
\* The lock

\* The statements that an evaluation has left.
Left == [s \in Locked |-> CASE s = "counting" -> 3 [] s = "checking" -> 2 [] s = "raising" -> 1]

\* A thread that holds the lock keeps it until it gives it back, and each of its own
\* steps is one of the statements that it has left.
HolderStep ==
    \A t \in Threads :
        lock = t => \/ lock' = NoThread
                    \/ lock' = t /\ pc'[t] = pc[t] /\ ~Evaluate(t)
                    \/ lock' = t /\ pc'[t] \in Locked /\ Left[pc'[t]] < Left[pc[t]]

LEMMA HolderSteps == ASSUME Inv, [Next]_vars PROVE HolderStep
  <1> SUFFICES ASSUME NEW t \in Threads, lock = t
               PROVE  \/ lock' = NoThread
                      \/ lock' = t /\ pc'[t] = pc[t] /\ ~Evaluate(t)
                      \/ lock' = t /\ pc'[t] \in Locked /\ Left[pc'[t]] < Left[pc[t]]
    BY DEF HolderStep
  <1>1. pc \in [Threads -> Stage] /\ pc[t] \in Locked /\ lock # NoThread
        /\ \A s \in Threads \ {t} : pc[s] \notin Locked
    BY NoThreadAssumption DEF Inv, TypeOK, LockHeld
  <1>2. Left["counting"] = 3 /\ Left["checking"] = 2 /\ Left["raising"] = 1
    BY DEF Left, Locked
  <1>3. ASSUME Evaluate(t)
        PROVE  \/ lock' = NoThread
               \/ lock' = t /\ pc'[t] \in Locked /\ Left[pc'[t]] < Left[pc[t]]
    <2>1. CASE Count(t)
      <3>1. CASE Reached(t)
        BY <1>1, <1>2, <2>1, <3>1 DEF Count, Goto, Locked
      <3>2. CASE ~Reached(t)
        BY <2>1, <3>2 DEF Count, Finish
      <3> QED
        BY <3>1, <3>2
    <2>2. CASE Check(t)
      BY <1>1, <1>2, <2>2 DEF Check, Goto, Finish, Locked
    <2>3. CASE Raise(t)
      BY <2>3 DEF Raise, Finish
    <2> QED
      BY <1>3, <2>1, <2>2, <2>3 DEF Evaluate
  <1>4. CASE \E s \in Threads : StoreError(s)
    BY <1>1, <1>4, <1>3 DEF StoreError
  <1>5. CASE Restart
    BY <1>5 DEF Restart
  <1>6. CASE Tick \/ (\E u \in Users : Unfreeze(u)) \/ UNCHANGED vars
    BY <1>3, <1>6 DEF Tick, Unfreeze, vars
  <1>7. ASSUME NEW s \in Threads,
               \/ \E u \in Users, r \in Rules, n \in Rows : Admit(s, u, r, n)
               \/ Stamp(s) \/ Record(s) \/ ReadNow(s) \/ Respond(s)
        PROVE  lock' = t /\ pc'[t] = pc[t]
    <2>1. pc[s] \notin Locked /\ lock' = lock /\ \A q \in Threads \ {s} : pc'[q] = pc[q]
      BY <1>1, <1>7 DEF Admit, Stamp, Record, ReadNow, Respond, Goto, Locked
    <2> QED
      BY <1>1, <2>1
  <1>8. ASSUME NEW s \in Threads, Acquire(s) PROVE FALSE
    BY <1>1, <1>8 DEF Acquire
  <1>9. ASSUME NEW s \in Threads, Evaluate(s), s # t PROVE FALSE
    <2>1. pc[s] \in Locked
      BY <1>9 DEF Evaluate, Count, Check, Raise, Goto, Locked
    <2> QED
      BY <1>1, <1>9, <2>1
  <1> QED
    BY <1>3, <1>4, <1>5, <1>6, <1>7, <1>8, <1>9 DEF Next

\* with self._security_lock: nobody takes the lock from its holder, and the holder comes
\* to the end of the block in at most three steps of its own.  With the fairness of
\* FairSpec this is LockReleased.
THEOREM HolderGoesOn == Spec => [][HolderStep]_vars
  <1>1. Inv /\ [Next]_vars => [HolderStep]_vars
    BY HolderSteps
  <1>2. QED
    BY <1>1, Inductive, PTL DEF Spec

-----------------------------------------------------------------------------
\* One event judged at a time

\* The stages between the event and the end of its evaluation.
Judging == {"recorded", "waiting"} \cup Locked

\* What a request knows of its event: it waits to be judged, it lies before the instant
\* of the evaluation, and what was counted was counted in a log that had it.
KnowsEvent(t) ==
    LET i == req[t].event
    IN  pc[t] \in Judging =>
        /\ judged[i] = NoTime
        /\ (pc[t] \in Locked \/ (pc[t] = "waiting" /\ req[t].rule = AccessDenied)) =>
               events[i].at <= req[t].now
        /\ pc[t] \in {"checking", "raising"} =>
               \E k \in i..Len(events) :
                   Due(SubSeq(events, 1, k), req[t].user, req[t].rule, req[t].now)

EventsPassed == \A i \in 1..Len(events) : events[i].at <= clock

OwnEventAlone ==
    \A s, t \in Threads : (/\ s # t /\ pc[s] \in Judging /\ pc[t] \in Judging) =>
                             req[s].event # req[t].event

JudgingInv == EventsPassed /\ OwnEventAlone /\ \A t \in Threads : KnowsEvent(t)

\* What is read of an event, and of the log that was counted, is not changed by later events.
LEMMA LaterEvent ==
  ASSUME NEW log \in Seq(Event), NEW e \in Event, NEW k \in 0..Len(log)
  PROVE  /\ Append(log, e) \in Seq(Event) /\ Len(Append(log, e)) = Len(log) + 1
         /\ \A i \in 1..Len(log) : Append(log, e)[i] = log[i]
         /\ Append(log, e)[Len(log) + 1] = e
         /\ SubSeq(Append(log, e), 1, k) = SubSeq(log, 1, k)
  <1>1. /\ Append(log, e) \in Seq(Event) /\ Len(Append(log, e)) = Len(log) + 1
        /\ \A i \in 1..Len(log) : Append(log, e)[i] = log[i]
        /\ Append(log, e)[Len(log) + 1] = e
    BY AppendProperties
  <1>2. \A i \in 1..k : Append(log, e)[i] = log[i]
    BY <1>1, LenProperties
  <1>3. SubSeq(Append(log, e), 1, k) = SubSeq(log, 1, k)
    BY <1>1, <1>2
  <1> QED
    BY <1>1, <1>3

\* A step in which request t stands still keeps what it knows, unless its event is judged.
LEMMA KnownKept ==
  ASSUME Inv, NEW t \in Threads, KnowsEvent(t), pc'[t] = pc[t], req'[t] = req[t],
         events' = events \/ \E e \in Event : events' = Append(events, e),
         pc[t] \in Judging => judged'[req[t].event] = judged[req[t].event]
  PROVE  KnowsEvent(t)'
  <1> SUFFICES ASSUME pc[t] \in Judging PROVE KnowsEvent(t)'
    BY DEF KnowsEvent
  <1>1. /\ events \in Seq(Event) /\ Len(events) \in Nat
        /\ req[t].event \in 1..Len(events)
    BY LenProperties DEF Inv, TypeOK, RequestOK, Judging
  <1>2. CASE events' = events
    BY <1>2 DEF KnowsEvent
  <1>3. ASSUME NEW e \in Event, events' = Append(events, e) PROVE KnowsEvent(t)'
    <2>1. events'[req[t].event] = events[req[t].event] /\ Len(events') = Len(events) + 1
      BY <1>1, <1>3, LaterEvent
    <2>2. ASSUME NEW k \in req[t].event..Len(events),
                 Due(SubSeq(events, 1, k), req[t].user, req[t].rule, req[t].now)
          PROVE  \E j \in req'[t].event..Len(events') :
                     Due(SubSeq(events', 1, j), req'[t].user, req'[t].rule, req'[t].now)
      <3>1. k \in 0..Len(events) /\ k \in req'[t].event..Len(events')
        BY <1>1, <2>1
      <3>2. SubSeq(events', 1, k) = SubSeq(events, 1, k)
        BY <1>1, <1>3, <3>1, LaterEvent
      <3> QED
        BY <2>2, <3>1, <3>2
    <2>3. pc[t] \in {"checking", "raising"} =>
              \E j \in req'[t].event..Len(events') :
                  Due(SubSeq(events', 1, j), req'[t].user, req'[t].rule, req'[t].now)
      BY <2>2 DEF KnowsEvent
    <2>4. /\ judged'[req'[t].event] = NoTime
          /\ (pc'[t] \in Locked \/ (pc'[t] = "waiting" /\ req'[t].rule = AccessDenied)) =>
                 events'[req'[t].event].at <= req'[t].now
      BY <2>1 DEF KnowsEvent
    <2> QED
      BY <2>3, <2>4 DEF KnowsEvent
  <1> QED
    BY <1>2, <1>3

\* The steps of a request before its event and after its evaluation, and all others.
LEMMA AsideStep ==
  ASSUME Inv, JudgingInv, events' = events, judged' = judged, clock' \in Time, clock <= clock',
         NEW S \in SUBSET Threads,
         \A s \in S : pc'[s] \notin Judging,
         \A s \in Threads \ S : pc'[s] = pc[s] /\ req'[s] = req[s]
  PROVE  JudgingInv'
  <1>1. EventsPassed'
    <2>1. clock \in Int /\ clock' \in Int /\ events \in Seq(Event)
      BY DEF Inv, TypeOK, Time
    <2>2. ASSUME NEW i \in 1..Len(events) PROVE events[i].at \in Int
      <3>1. events[i] \in Event
        BY <2>1, ElementOfSeq
      <3> QED
        BY <3>1 DEF Event, Time
    <2> QED
      BY <2>1, <2>2 DEF JudgingInv, EventsPassed
  <1>2. OwnEventAlone'
    BY DEF JudgingInv, OwnEventAlone
  <1>3. ASSUME NEW t \in Threads PROVE KnowsEvent(t)'
    <2>1. CASE t \in S
      BY <2>1 DEF KnowsEvent
    <2>2. CASE t \notin S
      BY <2>2, KnownKept DEF JudgingInv
    <2> QED
      BY <2>1, <2>2
  <1> QED
    BY <1>1, <1>2, <1>3 DEF JudgingInv

LEMMA RecordJudging ==
  ASSUME Inv, JudgingInv, NEW t \in Threads, Record(t)
  PROVE  /\ JudgingInv'
         /\ \E e \in Event : e.at <= clock /\ events' = Append(events, e)
  <1> DEFINE e == [user |-> req[t].user, rule |-> req[t].rule,
                   at |-> req[t].at, rows |-> req[t].rows]
             n == Len(events) + 1
  <1>1. /\ events \in Seq(Event) /\ Len(events) \in Nat /\ judged \in Seq(Time \cup {NoTime})
        /\ Len(judged) = Len(events) /\ req \in [Threads -> Request] /\ clock \in Time
        /\ pc \in [Threads -> Stage]
    BY LenProperties DEF Inv, TypeOK
  <1>2. e \in Event /\ e.at <= clock
    BY <1>1 DEF Inv, RequestOK, Request, Event
  <1>3. /\ events' = Append(events, e) /\ judged' = Append(judged, NoTime) /\ clock' = clock
        /\ pc'[t] = IF req[t].rule = AccessDenied THEN "recorded" ELSE "waiting"
        /\ \A s \in Threads : s # t => pc'[s] = pc[s] /\ req'[s] = req[s]
    BY <1>1 DEF Record, Goto
  <1>4. req'[t].event = n /\ req'[t].rule = req[t].rule
    BY <1>1 DEF Record, Request
  <1> HIDE DEF e
  <1>5. /\ Len(events') = n /\ \A i \in 1..Len(events) : events'[i] = events[i]
        /\ events'[n] = e
    BY <1>1, <1>2, <1>3, LaterEvent
  <1>6. judged'[n] = NoTime /\ \A i \in 1..Len(events) : judged'[i] = judged[i]
    BY <1>1, <1>3, AppendProperties
  <1>7. \A s \in Threads : pc[s] \in Judging => req[s].event \in 1..Len(events)
    BY DEF Inv, RequestOK, Judging
  <1>8. EventsPassed'
    BY <1>1, <1>2, <1>3, <1>5 DEF JudgingInv, EventsPassed
  <1>9. OwnEventAlone'
    BY <1>1, <1>3, <1>4, <1>7 DEF JudgingInv, OwnEventAlone
  <1>10. KnowsEvent(t)'
    BY <1>3, <1>4, <1>6 DEF KnowsEvent, Locked
  <1>11. ASSUME NEW s \in Threads, s # t PROVE KnowsEvent(s)'
    BY <1>2, <1>3, <1>6, <1>7, <1>11, KnownKept DEF JudgingInv
  <1> QED
    BY <1>2, <1>3, <1>8, <1>9, <1>10, <1>11 DEF JudgingInv

\* The steps of an evaluation that do not end it.
LEMMA OnwardJudging ==
  ASSUME Inv, JudgingInv, NEW t \in Threads, pc[t] \in Judging, pc'[t] \in Judging,
         UNCHANGED <<clock, events, judged>>,
         \A s \in Threads : s # t => pc'[s] = pc[s] /\ req'[s] = req[s],
         req'[t].event = req[t].event, KnowsEvent(t)'
  PROVE  JudgingInv'
  <1>1. EventsPassed'
    BY DEF JudgingInv, EventsPassed
  <1>2. OwnEventAlone'
    BY DEF JudgingInv, OwnEventAlone
  <1>3. ASSUME NEW s \in Threads, s # t PROVE KnowsEvent(s)'
    BY <1>3, KnownKept DEF JudgingInv
  <1> QED
    BY <1>1, <1>2, <1>3 DEF JudgingInv

LEMMA ClockJudging ==
  ASSUME Inv, JudgingInv, NEW t \in Threads, ReadNow(t) \/ Acquire(t) PROVE JudgingInv'
  <1>1. /\ req \in [Threads -> Request] /\ pc \in [Threads -> Stage] /\ clock \in Time
        /\ req[t].now \in Time
    BY DEF Inv, TypeOK, Request
  <1>2. /\ UNCHANGED <<clock, events, judged>>
        /\ pc[t] \in {"recorded", "waiting"}
        /\ pc'[t] \in {"waiting", "counting"}
        /\ \A s \in Threads : s # t => pc'[s] = pc[s] /\ req'[s] = req[s]
    BY <1>1 DEF ReadNow, Acquire, Goto, Assign
  <1>3. /\ req'[t].event = req[t].event /\ req'[t].rule = req[t].rule
        /\ \/ req'[t].now = clock
           \/ pc[t] = "waiting" /\ req[t].rule = AccessDenied /\ req'[t].now = req[t].now
    <2>1. CASE ReadNow(t)
      BY <1>1, <2>1 DEF ReadNow, Assign, Request
    <2>2. CASE Acquire(t) /\ req[t].rule = AccessDenied
      BY <1>1, <2>2 DEF Acquire, Goto, Assign, Request
    <2>3. CASE Acquire(t) /\ req[t].rule # AccessDenied
      BY <1>1, <2>3 DEF Acquire, Assign, Request
    <2> QED
      BY <2>1, <2>2, <2>3
  <1>4. req[t].event \in 1..Len(events) /\ pc[t] \in Judging /\ pc'[t] \in Judging
    BY <1>2 DEF Inv, RequestOK, Judging, Locked
  <1>5. events[req[t].event].at <= req'[t].now
    BY <1>3, <1>4 DEF JudgingInv, EventsPassed, KnowsEvent
  <1>6. KnowsEvent(t)'
    BY <1>2, <1>3, <1>4, <1>5 DEF JudgingInv, KnowsEvent
  <1> QED
    BY <1>2, <1>3, <1>4, <1>6, OnwardJudging

LEMMA CountedJudging ==
  ASSUME Inv, JudgingInv, NEW t \in Threads, Count(t), Reached(t) PROVE JudgingInv'
  <1>1. /\ req \in [Threads -> Request] /\ pc \in [Threads -> Stage]
        /\ events \in Seq(Event) /\ Len(events) \in Nat
    BY LenProperties DEF Inv, TypeOK
  <1>2. /\ UNCHANGED <<clock, events, judged>> /\ pc[t] = "counting" /\ pc'[t] = "checking"
        /\ \A s \in Threads : s # t => pc'[s] = pc[s] /\ req'[s] = req[s]
        /\ req'[t].event = req[t].event /\ req'[t].rule = req[t].rule
        /\ req'[t].user = req[t].user /\ req'[t].now = req[t].now
    BY <1>1 DEF Count, Goto, Assign, Request
  <1>3. req[t].event \in 1..Len(events) /\ pc[t] \in Judging /\ pc'[t] \in Judging
    BY <1>2 DEF Inv, RequestOK, Judging, Locked
  <1>4. SubSeq(events, 1, Len(events)) = events /\ Len(events) \in req[t].event..Len(events)
    BY <1>1, <1>3
  <1>5. Due(SubSeq(events, 1, Len(events)), req[t].user, req[t].rule, req[t].now)
    BY <1>4 DEF Reached
  <1>6. KnowsEvent(t)'
    BY <1>2, <1>3, <1>4, <1>5 DEF JudgingInv, KnowsEvent, Locked
  <1> QED
    BY <1>2, <1>3, <1>6, OnwardJudging

LEMMA CheckedJudging ==
  ASSUME Inv, JudgingInv, NEW t \in Threads, Check(t),
         ~RecentAlert(req[t].user, req[t].rule, Since(req[t].rule, req[t].now))
  PROVE  JudgingInv'
  <1>1. /\ UNCHANGED <<clock, events, judged>> /\ pc[t] = "checking" /\ pc'[t] = "raising"
        /\ \A s \in Threads : s # t => pc'[s] = pc[s] /\ req'[s] = req[s]
        /\ req'[t] = req[t]
    BY DEF Check, Goto, Inv, TypeOK
  <1>2. pc[t] \in Judging /\ pc'[t] \in Judging
    BY <1>1 DEF Judging, Locked
  <1>3. KnowsEvent(t)'
    BY <1>1, <1>2 DEF JudgingInv, KnowsEvent, Locked
  <1> QED
    BY <1>1, <1>2, <1>3, OnwardJudging

\* The end of an evaluation, which judges its event.
LEMMA JudgedJudging ==
  ASSUME Inv, JudgingInv, NEW t \in Threads, pc[t] \in Locked, pc'[t] = "done", Finish(t),
         UNCHANGED <<clock, events, req>>, \A s \in Threads : s # t => pc'[s] = pc[s]
  PROVE  JudgingInv'
  <1>1. EventsPassed'
    BY DEF JudgingInv, EventsPassed
  <1>2. pc'[t] \notin Judging /\ pc[t] \in Judging
    BY DEF Judging, Locked
  <1>3. OwnEventAlone'
    BY <1>2 DEF JudgingInv, OwnEventAlone
  <1>4. ASSUME NEW s \in Threads, s # t PROVE KnowsEvent(s)'
    <2>1. ASSUME pc[s] \in Judging PROVE judged'[req[s].event] = judged[req[s].event]
      <3>1. req[s].event # req[t].event
        BY <1>2, <1>4, <2>1 DEF JudgingInv, OwnEventAlone
      <3>2. req[s].event \in DOMAIN judged
        BY <2>1, LenProperties DEF Inv, TypeOK, RequestOK, Judging
      <3> QED
        BY <3>1, <3>2 DEF Finish, Inv, TypeOK
    <2> QED
      BY <1>4, <2>1, KnownKept DEF JudgingInv
  <1>5. KnowsEvent(t)'
    BY <1>2 DEF KnowsEvent
  <1> QED
    BY <1>1, <1>3, <1>4, <1>5 DEF JudgingInv

\* An evaluation goes on, or ends and judges its event.
LEMMA EvaluateCases ==
  ASSUME Inv, NEW t \in Threads, Evaluate(t)
  PROVE  \/ Count(t) /\ Reached(t)
         \/ Check(t) /\ ~RecentAlert(req[t].user, req[t].rule, Since(req[t].rule, req[t].now))
         \/ /\ pc[t] \in Locked /\ pc'[t] = "done" /\ Finish(t)
            /\ UNCHANGED <<clock, events, req>>
            /\ \A s \in Threads : s # t => pc'[s] = pc[s]
  BY DEF Evaluate, Count, Check, Raise, Goto, Locked, Inv, TypeOK

LEMMA JudgingStep == ASSUME Inv, JudgingInv, [Next]_vars PROVE JudgingInv'
  <1>1. /\ clock \in Time /\ pc \in [Threads -> Stage] /\ req \in [Threads -> Request]
        /\ clock <= clock
    BY DEF Inv, TypeOK, Time
  <1>2. ASSUME NEW t \in Threads,
               \/ \E u \in Users, r \in Rules, n \in Rows : Admit(t, u, r, n)
               \/ Stamp(t) \/ Respond(t) \/ StoreError(t)
        PROVE  JudgingInv'
    <2>1. /\ events' = events /\ judged' = judged /\ clock' \in Time /\ clock <= clock'
          /\ \A s \in Threads \ {t} : pc'[s] = pc[s] /\ req'[s] = req[s]
          /\ pc'[t] \notin Judging
      BY <1>1, <1>2
         DEF Admit, Stamp, Respond, StoreError, Goto, Assign, Judging, Locked
    <2>2. {t} \in SUBSET Threads /\ \A s \in {t} : pc'[s] \notin Judging
      BY <2>1
    <2> QED
      BY <2>1, <2>2, AsideStep
  <1>3. CASE Restart
    <2>1. /\ events' = events /\ judged' = judged /\ clock' \in Time /\ clock <= clock'
          /\ \A s \in Threads : pc'[s] \notin Judging
      BY <1>1, <1>3 DEF Restart, Judging, Locked
    <2>2. \A s \in Threads \ Threads : pc'[s] = pc[s] /\ req'[s] = req[s]
      OBVIOUS
    <2>3. Threads \in SUBSET Threads
      OBVIOUS
    <2> QED
      BY <2>1, <2>2, <2>3, AsideStep
  <1>4. CASE Tick \/ UNCHANGED <<clock, events, judged, pc, req>>
    <2>1. /\ events' = events /\ judged' = judged /\ clock' \in Time /\ clock <= clock'
          /\ \A s \in Threads \ {} : pc'[s] = pc[s] /\ req'[s] = req[s]
      BY <1>1, <1>4, BoundsAssumption DEF Tick, Time
    <2>2. {} \in SUBSET Threads /\ \A s \in {} : pc'[s] \notin Judging
      OBVIOUS
    <2> QED
      BY <2>1, <2>2, AsideStep
  <1>5. ASSUME NEW t \in Threads, Evaluate(t) PROVE JudgingInv'
    BY <1>5, EvaluateCases, CountedJudging, CheckedJudging, JudgedJudging
  <1>6. ASSUME NEW t \in Threads, Record(t) \/ ReadNow(t) \/ Acquire(t) PROVE JudgingInv'
    BY <1>6, RecordJudging, ClockJudging
  <1> QED
    BY <1>2, <1>3, <1>4, <1>5, <1>6 DEF Next, Unfreeze, vars

\* The mapping: events, alerts, freezes and the instants of the evaluations are taken as
\* they are.  An evaluation maps to a step where it ends.
AbstractInv == Inv /\ OwnEvent /\ JudgingInv

LEMMA AlwaysAbstractInv == Spec => []AbstractInv
  <1>1. Init => OwnEvent /\ JudgingInv
    <2>1. Init => JudgingInv
      BY DEF Init, JudgingInv, EventsPassed, OwnEventAlone, KnowsEvent, Judging, Locked
    <2> QED
      BY <2>1, InitBursts
  <1>2. QED
    BY <1>1, OwnStep, JudgingStep, Inductive, PTL DEF Spec, AbstractInv

LEMMA RecordRefines ==
  ASSUME AbstractInv, NEW t \in Threads, Record(t) PROVE Abstract!Log
  <1>1. PICK e \in Event : e.at <= clock /\ events' = Append(events, e)
    BY RecordJudging DEF AbstractInv
  <1>2. events \in Seq(Event)
    BY DEF AbstractInv, Inv, TypeOK
  <1>3. Len(events') = Len(events) + 1 /\ events'[Len(events')] = e
    BY <1>1, <1>2, AppendProperties
  <1>4. /\ Len(events) < MaxEvents /\ judged' = Append(judged, NoTime)
        /\ UNCHANGED <<clock, alerts, freeze>>
    BY DEF Record
  <1> QED
    BY <1>1, <1>3, <1>4 DEF Abstract!Log

\* What every evaluation brings to its last step.
LEMMA Judged ==
  ASSUME AbstractInv, NEW t \in Threads, pc[t] \in Locked, Finish(t)
  PROVE  /\ req[t].event \in 1..Len(events) /\ req[t].event \in Abstract!Unjudged
         /\ events[req[t].event].user = req[t].user /\ events[req[t].event].rule = req[t].rule
         /\ judged' = [judged EXCEPT ![req[t].event] = req[t].now]
         /\ events[req[t].event].at <= req[t].now /\ req[t].now <= clock
         /\ req[t].now \in Time
  <1>1. pc[t] \in Judging /\ req[t].event \in 1..Len(events)
    BY DEF AbstractInv, Inv, RequestOK, Judging
  <1>2. judged[req[t].event] = NoTime /\ events[req[t].event].at <= req[t].now
    BY <1>1 DEF AbstractInv, JudgingInv, KnowsEvent
  <1>3. events[req[t].event].user = req[t].user /\ events[req[t].event].rule = req[t].rule
    BY DEF AbstractInv, OwnEvent
  <1>4. req[t].now <= clock /\ req[t].now \in Time
    BY DEF AbstractInv, Inv, RequestOK, TypeOK, Request
  <1> QED
    BY <1>1, <1>2, <1>3, <1>4 DEF Finish, Abstract!Unjudged

\* The two early returns: the log does not reach the threshold, or the window has an alert.
LEMMA ReturnRefines ==
  ASSUME AbstractInv, NEW t \in Threads,
         \/ Count(t) /\ ~Reached(t)
         \/ Check(t) /\ RecentAlert(req[t].user, req[t].rule, Since(req[t].rule, req[t].now))
  PROVE  Abstract!Next
  <1> DEFINE i == req[t].event
             n == req[t].now
  <1>1. /\ pc[t] \in Locked /\ Finish(t) /\ UNCHANGED <<clock, events, alerts, freeze>>
    BY DEF Count, Check, Goto, Locked
  <1>2. /\ i \in 1..Len(events) /\ i \in Abstract!Unjudged
        /\ events[i].user = req[t].user /\ events[i].rule = req[t].rule
        /\ judged' = [judged EXCEPT ![i] = n]
        /\ events[i].at <= n /\ n <= clock /\ n \in Time
    BY <1>1, Judged
  <1>3. /\ Len(events) \in i..Len(events) /\ SubSeq(events, 1, Len(events)) = events
    BY <1>2, LenProperties DEF AbstractInv, Inv, TypeOK
  <1>4. \/ ~Due(SubSeq(events, 1, Len(events)), events[i].user, events[i].rule, n)
        \/ Abstract!RecentAlert(events[i].user, events[i].rule, Since(events[i].rule, n))
    BY <1>2, <1>3 DEF Reached, RecentAlert, Abstract!RecentAlert
  <1> HIDE DEF i, n
  <1>5. Abstract!Judge(i, n)
    BY <1>1, <1>2, <1>3, <1>4 DEF Abstract!Judge
  <1> QED
    BY <1>2, <1>5 DEF Abstract!Next

LEMMA RaiseRefines ==
  ASSUME AbstractInv, NEW t \in Threads, Raise(t) PROVE Abstract!Next
  <1> DEFINE i == req[t].event
             n == req[t].now
             u == req[t].user
             r == req[t].rule
  <1>1. /\ pc[t] = "raising" /\ pc[t] \in Locked /\ Finish(t) /\ UNCHANGED <<clock, events>>
        /\ alerts' = alerts \cup {[user |-> u, rule |-> r,
                                  at |-> IF r = AccessDenied THEN n ELSE clock, event |-> i]}
        /\ freeze' = IF r = AccessDenied
                     THEN [freeze EXCEPT ![u] = Extended(freeze[u], n + FreezeFor)] ELSE freeze
    BY DEF Raise, Goto, Locked
  <1>2. /\ i \in 1..Len(events) /\ i \in Abstract!Unjudged
        /\ events[i].user = u /\ events[i].rule = r
        /\ judged' = [judged EXCEPT ![i] = n]
        /\ events[i].at <= n /\ n <= clock /\ n \in Time
    BY <1>1, Judged
  <1>3. PICK k \in i..Len(events) : Due(SubSeq(events, 1, k), u, r, n)
    BY <1>1 DEF AbstractInv, JudgingInv, KnowsEvent, Judging
  <1>4. ~Abstract!RecentAlert(u, r, Since(r, n))
    BY <1>1 DEF AbstractInv, Inv, Deduplicated, RecentAlert, Abstract!RecentAlert
  <1>5. freeze' = IF r = AccessDenied /\ n + FreezeFor > freeze[u]
                  THEN [freeze EXCEPT ![u] = n + FreezeFor] ELSE freeze
    <2>1. freeze \in [Users -> Nat] /\ u \in Users
      BY DEF AbstractInv, Inv, TypeOK, Request
    <2> QED
      BY <1>1, <2>1 DEF Extended
  <1> HIDE DEF i, n, u, r
  <1>6. Abstract!Raise(i, n)
    BY <1>1, <1>2, <1>5 DEF Abstract!Raise
  <1>7. Abstract!Judge(i, n)
    BY <1>1, <1>2, <1>3, <1>4, <1>6 DEF Abstract!Judge
  <1> QED
    BY <1>2, <1>7 DEF Abstract!Next

LEMMA StepRefines ==
  ASSUME AbstractInv, [Next]_vars PROVE [Abstract!Next]_(Abstract!vars)
  <1>1. ASSUME NEW t \in Threads, Evaluate(t) PROVE [Abstract!Next]_(Abstract!vars)
    <2>1. CASE \/ Count(t) /\ ~Reached(t)
               \/ Check(t)
                  /\ RecentAlert(req[t].user, req[t].rule, Since(req[t].rule, req[t].now))
      BY <2>1, ReturnRefines
    <2>2. CASE Raise(t)
      BY <2>2, RaiseRefines
    <2>3. CASE \/ Count(t) /\ Reached(t)
               \/ Check(t)
                  /\ ~RecentAlert(req[t].user, req[t].rule, Since(req[t].rule, req[t].now))
      BY <2>3 DEF Count, Check, Abstract!vars
    <2> QED
      BY <1>1, <2>1, <2>2, <2>3 DEF Evaluate
  <1>2. ASSUME NEW t \in Threads, Record(t) PROVE Abstract!Next
    BY <1>2, RecordRefines DEF Abstract!Next
  <1>3. ASSUME NEW u \in Users, Unfreeze(u) PROVE Abstract!Next
    BY <1>3 DEF Unfreeze, Frozen, Abstract!Unfreeze, Abstract!Next
  <1>4. CASE Tick
    <2>1. clock' = clock + 1 /\ clock' \in Time
      BY <1>4, BoundsAssumption DEF Tick, Time, AbstractInv, Inv, TypeOK
    <2> QED
      BY <1>4, <2>1 DEF Tick, Abstract!Tick, Abstract!Next
  <1>5. ASSUME NEW t \in Threads,
               \/ \E u \in Users, r \in Rules, n \in Rows : Admit(t, u, r, n)
               \/ Stamp(t) \/ ReadNow(t) \/ Acquire(t) \/ Respond(t) \/ StoreError(t)
        PROVE  UNCHANGED Abstract!vars
    BY <1>5 DEF Admit, Stamp, ReadNow, Acquire, Respond, StoreError, Abstract!vars
  <1>6. CASE Restart \/ UNCHANGED vars
    BY <1>6 DEF Restart, vars, Abstract!vars
  <1> QED
    BY <1>1, <1>2, <1>3, <1>4, <1>5, <1>6 DEF Next

\* with self._security_lock makes one step of an evaluation: although events are appended
\* outside it, instants are read before it and freezes are lifted without it, what the
\* tables hold could have come from judging one event after the other, each at one moment.
THEOREM Refinement == Spec => Implements
  <1>1. Init => Abstract!Init
    BY DEF Init, Abstract!Init
  <1>2. AbstractInv /\ [Next]_vars => [Abstract!Next]_(Abstract!vars)
    BY StepRefines
  <1>3. QED
    BY <1>1, <1>2, AlwaysAbstractInv, PTL DEF Spec, Implements, Abstract!Spec
=============================================================================
