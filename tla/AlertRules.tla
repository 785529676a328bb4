----------------------------- MODULE AlertRules -----------------------------
(***************************************************************************)
(* What the counting rules promise, as if there were no threads: each      *)
(* logged event is judged at most once and at one instant, by the log as   *)
(* it was at some moment after the event; an alert is raised exactly if    *)
(* the rule is due in that log and the window holds no alert, and a denial *)
(* alert comes with its freeze.                                            *)
(***************************************************************************)
EXTENDS Integers, Sequences

CONSTANTS
    Users,          \* accounts
    Event,          \* events that may be logged: who, which rule counts it, when
    Time,           \* instants
    NoTime,         \* not judged yet
    Freezing,       \* the rule whose alert freezes the account
    FreezeFor,      \* how long a freeze lasts
    MaxEvents,      \* bound: events a behaviour logs
    Since(_, _),    \* rule, instant: where the rule's window begins
    Due(_, _, _, _) \* log, user, rule, instant: whether the log reaches the threshold

VARIABLES clock, events, alerts, freeze, judged

vars == <<clock, events, alerts, freeze, judged>>

Init ==
    /\ clock = 0
    /\ events = <<>>
    /\ alerts = {}
    /\ freeze = [u \in Users |-> 0]
    /\ judged = <<>>

\* Some event that has happened; Event may be infinite.
Log ==
    /\ Len(events) < MaxEvents
    /\ Len(events') = Len(events) + 1
    /\ LET e == events'[Len(events')]
       IN  e \in Event /\ e.at <= clock /\ events' = Append(events, e)
    /\ judged' = Append(judged, NoTime)
    /\ UNCHANGED <<clock, alerts, freeze>>

RecentAlert(u, r, from) ==
    \E a \in alerts : a.user = u /\ a.rule = r /\ a.at >= from

Raise(i, n) ==
    LET u == events[i].user
        denied == events[i].rule = Freezing
        until == n + FreezeFor
    IN  /\ alerts' = alerts \cup {[user |-> u, rule |-> events[i].rule,
                                   at |-> IF denied THEN n ELSE clock, event |-> i]}
        /\ freeze' = IF denied /\ until > freeze[u]
                     THEN [freeze EXCEPT ![u] = until] ELSE freeze

Unjudged == {i \in 1..Len(events) : judged[i] = NoTime}

\* The event at i is judged as of instant n, by the log as it was when it had k events.
Judge(i, n) ==
    LET u == events[i].user
        r == events[i].rule
    IN  /\ judged' = [judged EXCEPT ![i] = n]
        /\ events[i].at <= n /\ n <= clock
        /\ \E k \in i..Len(events) :
            IF Due(SubSeq(events, 1, k), u, r, n) /\ ~RecentAlert(u, r, Since(r, n))
            THEN Raise(i, n)
            ELSE UNCHANGED <<alerts, freeze>>
        /\ UNCHANGED <<clock, events>>

Unfreeze(u) ==
    /\ freeze[u] > clock
    /\ freeze' = [freeze EXCEPT ![u] = 0]
    /\ UNCHANGED <<clock, events, alerts, judged>>

Tick ==
    /\ clock' = clock + 1
    /\ clock' \in Time
    /\ UNCHANGED <<events, alerts, freeze, judged>>

Next ==
    \/ Log
    \/ \E i \in Unjudged, n \in Time : Judge(i, n)
    \/ \E u \in Users : Unfreeze(u)
    \/ Tick

Spec == Init /\ [][Next]_vars
=============================================================================
