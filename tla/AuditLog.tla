------------------------------ MODULE AuditLog ------------------------------
(***************************************************************************)
(* What an auditor may rely on, as if every event were kept twice: as it   *)
(* was written, out of everybody's reach, and as it is stored.  A          *)
(* verification compares the two and answers whether they were equal when  *)
(* it looked and nothing has been written since.  Nothing is written while *)
(* stored events are missing.                                              *)
(***************************************************************************)
EXTENDS Integers, Sequences

CONSTANTS
    Bodies,     \* contents of events
    Verifiers,  \* verifications that may be under way at once
    MaxEvents   \* bound: length of the log

VARIABLES
    written,    \* the events that were written
    stored,     \* the events that are stored
    calls       \* verifier -> its verification

vars == <<written, stored, calls>>

NoCall == [stage |-> "idle", equal |-> FALSE, length |-> 0, verdict |-> FALSE]

Init ==
    /\ written = <<>>
    /\ stored = <<>>
    /\ calls = [v \in Verifiers |-> NoCall]

Write(b) ==
    /\ Len(written) < MaxEvents
    /\ Len(stored) = Len(written)
    /\ written' = Append(written, b)
    /\ stored' = Append(stored, b)
    /\ UNCHANGED calls

Look(v) ==
    /\ calls[v] = NoCall
    /\ calls' = [calls EXCEPT ![v] = [stage |-> "read", equal |-> stored = written,
                                      length |-> Len(written), verdict |-> FALSE]]
    /\ UNCHANGED <<written, stored>>

Answer(v) ==
    /\ calls[v].stage = "read"
    /\ calls' = [calls EXCEPT ![v] =
                    [stage |-> "answered", equal |-> calls[v].equal, length |-> calls[v].length,
                     verdict |-> calls[v].equal /\ calls[v].length = Len(written)]]
    /\ UNCHANGED <<written, stored>>

Done(v) ==
    /\ calls[v].stage = "answered"
    /\ calls' = [calls EXCEPT ![v] = NoCall]
    /\ UNCHANGED <<written, stored>>

\* Somebody edits or deletes what is stored.
Tamper ==
    /\ stored' \in Seq(Bodies)
    /\ Len(stored') <= Len(stored)
    /\ UNCHANGED <<written, calls>>

Next ==
    \/ \E b \in Bodies : Write(b)
    \/ \E v \in Verifiers : Look(v) \/ Answer(v) \/ Done(v)
    \/ Tamper

Spec == Init /\ [][Next]_vars
=============================================================================
