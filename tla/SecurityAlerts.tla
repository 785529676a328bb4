--------------------------- MODULE SecurityAlerts ---------------------------
(***************************************************************************)
(* The anomaly rules of ProductQueryService that count audit events in a   *)
(* time window: repeated access denials (which freeze the account), share  *)
(* links, S3 queries and the daily export volume.                          *)
(*                                                                         *)
(* A FastAPI request runs in a worker thread.  It passes the freeze check, *)
(* does its work, appends its audit event OUTSIDE _security_lock, and then *)
(* evaluates the rule of that event under the lock: one SELECT counts the  *)
(* events, a second looks for a recent alert, and a transaction inserts    *)
(* the alert (and, for denials, the freeze).  Every SELECT and transaction *)
(* is a step here, because other threads append events, administrators     *)
(* unfreeze accounts and the clock advances between any two of them.       *)
(***************************************************************************)
EXTENDS Integers, Sequences, FiniteSets, FiniteSetsExt

CONSTANTS
    Threads,    \* worker threads of the one server process
    Users,      \* accounts
    Rules,      \* the counting rules in play
    Rows,       \* row counts an export may have
    Threshold,  \* rule -> smallest measure that raises its alert
    Window,     \* rule -> length of the rule's sliding window
    DayStart,   \* instant -> local midnight before it
    FreezeFor,  \* how long a freeze lasts
    MaxTime,    \* bound: the clock stops here
    MaxEvents,  \* bound: audit events a behaviour appends
    NoThread    \* the value of a free lock

\* The rules' codes in product_service.py.
AccessDenied == "REPEATED_ACCESS_DENIED"
ShareFrequency == "SHARE_LINK_FREQUENCY"
S3Frequency == "S3_QUERY_FREQUENCY"
DailyExport == "DAILY_EXPORT_VOLUME"

Time == 0..MaxTime
NoTime == -1    \* before every instant: "never"

ASSUME SetsAssumption ==
    /\ Users # {}
    /\ Rules # {}
    /\ Rules \subseteq {AccessDenied, ShareFrequency, S3Frequency, DailyExport}
ASSUME BoundsAssumption ==
    /\ MaxTime \in Nat
    /\ MaxEvents \in Nat
    /\ FreezeFor \in Nat
    /\ Rows \subseteq Nat
    /\ Threshold \in [Rules -> Nat]
    /\ Window \in [Rules -> Nat]
\* Shanghai has no daylight saving: midnight never moves back as time passes.
ASSUME DayStartAssumption ==
    /\ DayStart \in [Time -> Int]
    /\ \A m, n \in Time : DayStart[m] <= m /\ (m <= n => DayStart[m] <= DayStart[n])
\* Fifteen minutes of freeze outlast the ten minutes in which alerts are merged.
ASSUME FreezeAssumption ==
    AccessDenied \in Rules => Window[AccessDenied] < FreezeFor
ASSUME NoThreadAssumption == NoThread \notin Threads

VARIABLES
    clock,   \* wall clock
    events,  \* audit_events in commit order: who, which rule counts it, when
    alerts,  \* security_alerts
    freeze,  \* user -> user_freezes.frozen_until, 0 when there is no row
    lock,    \* holder of _security_lock
    pc,      \* thread -> where its request stands
    req,     \* thread -> the request's local variables
    lifted,  \* history: user -> instant of the last unfreeze
    judged   \* history: event -> the "now" its completed evaluation used

vars == <<clock, events, alerts, freeze, lock, pc, req, lifted, judged>>

Event == [user : Users, rule : Rules, at : Time, rows : Nat]
Alert == [user : Users, rule : Rules, at : Time, event : Nat \ {0}]
Request == [user : Users, rule : Rules, rows : Nat, at : Time, event : Nat,
            now : Time, over : BOOLEAN]
Locked == {"counting", "checking", "raising"}
Stage == {"idle", "admitted", "stamped", "recorded", "waiting", "done"} \cup Locked
NewRequest(u, r, n) ==
    [user |-> u, rule |-> r, rows |-> n, at |-> 0, event |-> 0, now |-> 0, over |-> FALSE]
NoRequest == NewRequest(CHOOSE u \in Users : TRUE, CHOOSE r \in Rules : TRUE, 0)

\* Start of the window a rule looks at, as seen at instant n.
Since(r, n) == IF r = DailyExport THEN DayStart[n] ELSE n - Window[r]

Counted(log, u, r, from) ==
    {i \in DOMAIN log : log[i].user = u /\ log[i].rule = r /\ log[i].at >= from}

\* sum_exported_rows for the daily volume, count_audit_events for the other rules.
Measure(log, u, r, from) ==
    LET add(i, n) == n + log[i].rows
    IN IF r = DailyExport THEN FoldSet(add, 0, Counted(log, u, r, from))
       ELSE Cardinality(Counted(log, u, r, from))

\* Whether the window that ends at instant n reaches the rule's threshold.
Due(log, u, r, n) == Measure(log, u, r, Since(r, n)) >= Threshold[r]

RecentAlert(u, r, from) ==
    \E a \in alerts : a.user = u /\ a.rule = r /\ a.at >= from

Frozen(u) == freeze[u] > clock

Init ==
    /\ clock = 0
    /\ events = <<>>
    /\ alerts = {}
    /\ freeze = [u \in Users |-> 0]
    /\ lock = NoThread
    /\ pc = [t \in Threads |-> "idle"]
    /\ req = [t \in Threads |-> NoRequest]
    /\ lifted = [u \in Users |-> NoTime]
    /\ judged = <<>>

\* Assignment to a local variable of a request.
Assign(t, local, value) == req' = [req EXCEPT ![t][local] = value]

Goto(t, from, to) == pc[t] = from /\ pc' = [pc EXCEPT ![t] = to]

\* _ensure_not_frozen, and the work that leads to the event.  Only exports
\* carry a row count; the other rules count events.
Admit(t, u, r, n) ==
    /\ Goto(t, "idle", "admitted")
    /\ ~Frozen(u)
    /\ r # DailyExport => n = 1
    /\ req' = [req EXCEPT ![t] = NewRequest(u, r, n)]
    /\ UNCHANGED <<clock, events, alerts, freeze, lock, lifted, judged>>

\* _audit evaluates created_at before add_audit opens its transaction.
Stamp(t) ==
    /\ Goto(t, "admitted", "stamped")
    /\ Assign(t, "at", clock)
    /\ UNCHANGED <<clock, events, alerts, freeze, lock, lifted, judged>>

\* add_audit commits.
Record(t) ==
    /\ Len(events) < MaxEvents
    /\ Goto(t, "stamped", IF req[t].rule = AccessDenied THEN "recorded" ELSE "waiting")
    /\ events' = Append(events, [user |-> req[t].user, rule |-> req[t].rule,
                                 at |-> req[t].at, rows |-> req[t].rows])
    /\ judged' = Append(judged, NoTime)
    /\ req' = [req EXCEPT ![t]["event"] = Len(events) + 1, ![t]["at"] = 0]    \* at is spent
    /\ UNCHANGED <<clock, alerts, freeze, lock, lifted>>

\* _record_access_denied reads the clock before it asks for the lock.
ReadNow(t) ==
    /\ Goto(t, "recorded", "waiting")
    /\ Assign(t, "now", clock)
    /\ UNCHANGED <<clock, events, alerts, freeze, lock, lifted, judged>>

MutantAcquire(t) ==    \* no lock: evaluations overlap
    /\ Goto(t, "waiting", "counting")
    /\ lock' = t
    /\ Assign(t, "now", IF req[t].rule = AccessDenied THEN req[t].now ELSE clock)
    /\ UNCHANGED <<clock, events, alerts, freeze, lifted, judged>>

\* with self._security_lock: the other evaluations read the clock inside it.
Acquire(t) ==
    /\ lock = NoThread
    /\ Goto(t, "waiting", "counting")
    /\ lock' = t
    /\ Assign(t, "now", IF req[t].rule = AccessDenied THEN req[t].now ELSE clock)
    /\ UNCHANGED <<clock, events, alerts, freeze, lifted, judged>>

Finish(t) ==
    /\ lock' = NoThread
    /\ judged' = [judged EXCEPT ![req[t].event] = req[t].now]

MutantReached(t) ==    \* one event too many is needed
    Measure(events, req[t].user, req[t].rule, Since(req[t].rule, req[t].now))
        > Threshold[req[t].rule]

Reached(t) == Due(events, req[t].user, req[t].rule, req[t].now)

MutantCount(t) ==    \* the early return keeps the lock
    /\ IF Reached(t)
       THEN /\ Goto(t, "counting", "checking")
            /\ Assign(t, "over", TRUE)
       ELSE Goto(t, "counting", "done") /\ UNCHANGED req
    /\ UNCHANGED <<clock, events, alerts, freeze, lock, lifted, judged>>

\* First SELECT: measure the window; below the threshold the evaluation ends.
Count(t) ==
    /\ IF Reached(t)
       THEN /\ Goto(t, "counting", "checking")
            /\ Assign(t, "over", TRUE)
            /\ UNCHANGED <<lock, judged>>
       ELSE /\ Goto(t, "counting", "done")
            /\ Finish(t)
            /\ UNCHANGED req
    /\ UNCHANGED <<clock, events, alerts, freeze, lifted>>

MutantCheck(t) ==    \* has_recent_alert is never asked
    /\ Goto(t, "checking", "raising")
    /\ UNCHANGED <<clock, events, alerts, freeze, lock, req, lifted, judged>>

\* Second SELECT: an alert already raised in the window is not repeated.
Check(t) ==
    /\ IF RecentAlert(req[t].user, req[t].rule, Since(req[t].rule, req[t].now))
       THEN Goto(t, "checking", "done") /\ Finish(t)
       ELSE Goto(t, "checking", "raising") /\ UNCHANGED <<lock, judged>>
    /\ UNCHANGED <<clock, events, alerts, freeze, req, lifted>>

\* _upsert_freeze keeps the later of the two expiries.
Extended(until, new) == IF new > until THEN new ELSE until

MutantRaise(t) ==    \* the alert is stored, its freeze is not
    /\ Goto(t, "raising", "done")
    /\ Finish(t)
    /\ alerts' = alerts \cup {[user |-> req[t].user, rule |-> req[t].rule,
                               at |-> IF req[t].rule = AccessDenied THEN req[t].now ELSE clock,
                               event |-> req[t].event]}
    /\ UNCHANGED <<clock, events, freeze, req, lifted>>

\* add_alert: one transaction inserts the alert and, for denials, the freeze.
\* The denial alert carries the "now" of the evaluation, the others a new one.
Raise(t) ==
    /\ Goto(t, "raising", "done")
    /\ Finish(t)
    /\ alerts' = alerts \cup {[user |-> req[t].user, rule |-> req[t].rule,
                               at |-> IF req[t].rule = AccessDenied THEN req[t].now ELSE clock,
                               event |-> req[t].event]}
    /\ freeze' = IF req[t].rule = AccessDenied
                 THEN [freeze EXCEPT ![req[t].user] = Extended(@, req[t].now + FreezeFor)]
                 ELSE freeze
    /\ UNCHANGED <<clock, events, req, lifted>>

\* The response, or the PermissionError, leaves the handler.
Respond(t) ==
    /\ Goto(t, "done", "idle")
    /\ req' = [req EXCEPT ![t] = NoRequest]
    /\ UNCHANGED <<clock, events, alerts, freeze, lock, lifted, judged>>

\* A statement fails (SQLite gives up after its ten second timeout): the
\* exception leaves the with block, and the caller gets an error.
StoreError(t) ==
    /\ pc[t] \in {"stamped"} \cup Locked
    /\ pc' = [pc EXCEPT ![t] = "idle"]
    /\ req' = [req EXCEPT ![t] = NoRequest]
    /\ lock' = IF pc[t] \in Locked THEN NoThread ELSE lock
    /\ UNCHANGED <<clock, events, alerts, freeze, lifted, judged>>

\* unfreeze_user by an administrator: deletes the row only while it is active,
\* and takes no lock.
Unfreeze(u) ==
    /\ Frozen(u)
    /\ freeze' = [freeze EXCEPT ![u] = 0]
    /\ lifted' = [lifted EXCEPT ![u] = clock]
    /\ UNCHANGED <<clock, events, alerts, lock, pc, req, judged>>

\* The process dies and starts again: the database survives, threads and the
\* lock do not.
Restart ==
    /\ \E t \in Threads : pc[t] # "idle"
    /\ pc' = [t \in Threads |-> "idle"]
    /\ req' = [t \in Threads |-> NoRequest]
    /\ lock' = NoThread
    /\ UNCHANGED <<clock, events, alerts, freeze, lifted, judged>>

Tick ==
    /\ clock < MaxTime
    /\ clock' = clock + 1
    /\ UNCHANGED <<events, alerts, freeze, lock, pc, req, lifted, judged>>

Evaluate(t) == Count(t) \/ Check(t) \/ Raise(t)

Next ==
    \/ \E t \in Threads :
        \/ \E u \in Users, r \in Rules, n \in Rows : Admit(t, u, r, n)
        \/ Stamp(t)
        \/ Record(t)
        \/ ReadNow(t)
        \/ Acquire(t)
        \/ Evaluate(t)
        \/ Respond(t)
        \/ StoreError(t)
    \/ \E u \in Users : Unfreeze(u)
    \/ Restart
    \/ Tick

Spec == Init /\ [][Next]_vars

\* A thread that holds the lock keeps running: no step of an evaluation waits
\* for anything but the database, whose wait is bounded by a timeout.
FairSpec == Spec /\ \A t \in Threads : WF_vars(Evaluate(t))
-----------------------------------------------------------------------------
TypeOK ==
    /\ clock \in Time
    /\ events \in Seq(Event)
    /\ alerts \subseteq Alert
    /\ freeze \in [Users -> Nat]
    /\ lock \in Threads \cup {NoThread}
    /\ pc \in [Threads -> Stage]
    /\ req \in [Threads -> Request]
    /\ lifted \in [Users -> Time \cup {NoTime}]
    /\ judged \in Seq(Time \cup {NoTime})
    /\ Len(judged) = Len(events)

\* The promise of the merging windows (README: the lock makes merging
\* consistent within one process): of two alerts of one rule for one user the
\* earlier lies before the window of the later, however the evaluations of
\* concurrent requests interleave and however late a thread gets the lock.
AlertsSpaced ==
    \A a, b \in alerts :
        (a # b /\ a.user = b.user /\ a.rule = b.rule) =>
            \/ a.at < Since(a.rule, b.at)
            \/ b.at < Since(a.rule, a.at)

\* "Three denials in ten minutes freeze the account for fifteen": a denial
\* evaluated at or over the threshold leaves the user frozen beyond the instant
\* of the evaluation, also when an alert already raised is what stops it, unless
\* an administrator has unfrozen the user since that window began.
ThirdDenialFrozen ==
    \A t \in Threads :
        (/\ pc[t] = "done"
         /\ req[t].rule = AccessDenied
         /\ req[t].over) =>
            \/ freeze[req[t].user] > req[t].now
            \/ /\ lifted[req[t].user] # NoTime
               /\ lifted[req[t].user] >= Since(AccessDenied, req[t].now)

\* Why the two properties above hold, as one inductive invariant: exactly the
\* evaluations hold the lock; every instant in use has passed; a request knows
\* its own event; nobody inserts an alert that the window already holds; and
\* each denial alert is backed by its freeze until an administrator lifts it.
LockHeld == \A t \in Threads : lock = t <=> pc[t] \in Locked

RequestOK ==
    \A t \in Threads :
        /\ req[t].at <= clock
        /\ req[t].now <= clock
        /\ pc[t] \in {"recorded", "waiting", "done"} \cup Locked =>
               req[t].event \in 1..Len(events)
        /\ req[t].over => pc[t] \in {"checking", "raising", "done"}

Deduplicated ==
    \A t \in Threads :
        LET recent == RecentAlert(req[t].user, req[t].rule, Since(req[t].rule, req[t].now))
        IN (pc[t] = "raising" => ~recent) /\ ((pc[t] = "done" /\ req[t].over) => recent)

FreezeBacked ==
    \A a \in alerts :
        /\ a.at <= clock
        /\ a.rule = AccessDenied =>
               \/ freeze[a.user] >= a.at + FreezeFor
               \/ lifted[a.user] >= a.at

Inv == TypeOK /\ LockHeld /\ RequestOK /\ Deduplicated /\ FreezeBacked /\ AlertsSpaced

\* No burst goes unnoticed: when as many events as the threshold lie in one
\* window and the evaluation of each has completed, an alert exists, although
\* no evaluation need have seen the events in the order they were stamped and
\* although other evaluations failed or died with the process.
BurstAlerted ==
    \A u \in Users, r \in Rules \ {DailyExport} :
        LET finished == {i \in Counted(events, u, r, 0) : judged[i] # NoTime}
        IN \A S \in kSubset(Threshold[r], finished) :
            (S # {} /\ \A i, j \in S : events[i].at >= Since(r, judged[j])) =>
                \E a \in alerts : /\ a.user = u
                                  /\ a.rule = r
                                  /\ \E i \in S : a.at >= Since(r, judged[i])

\* _security_lock is always released, whichever return or exception ends the
\* evaluation: no thread keeps it forever and blocks every later request.
LockReleased == \A t \in Threads : (lock = t) ~> (lock # t)

Abstract == INSTANCE AlertRules WITH Freezing <- AccessDenied

\* An evaluation under the lock is as good as a single step: threads, statements, failures
\* and restarts leave nothing in the tables that judging one event at a time would not.
Implements == Abstract!Spec
=============================================================================
