----------------------------- MODULE AuditChain -----------------------------
(***************************************************************************)
(* The tamper-evident audit log of ProductStore: add_audit appends an      *)
(* event and moves the anchor in one write transaction, and                *)
(* verify_audit_chain reads the events and then the anchor, in two         *)
(* statements that are not one transaction.                                *)
(*                                                                         *)
(* An event is its body (every column the hash covers) with the hash of    *)
(* its predecessor and its own.  Somebody with access to the database file *)
(* may edit bodies or delete rows, as in tests/test_security_store.py; the *)
(* hashes and the anchor are what the log relies on.                       *)
(***************************************************************************)
EXTENDS Integers, Sequences, SequencesExt

CONSTANTS
    Bodies,      \* contents of events
    Hashes,      \* hash values
    H(_, _),     \* hash of a body under the hash of the previous event
    Genesis,     \* AUDIT_GENESIS_HASH
    Verifiers,   \* threads that call verify_audit_chain
    MaxEvents    \* bound: length of the log

\* SHA-256 is collision free, as far as this model is concerned.
ASSUME HashAssumption ==
    /\ Genesis \in Hashes
    /\ \A p \in Hashes, b \in Bodies : H(p, b) \in Hashes
    /\ \A p \in Hashes, b, c \in Bodies : H(p, b) = H(p, c) => b = c
ASSUME BoundAssumption == MaxEvents \in Nat

VARIABLES
    rows,     \* audit_events by rowid
    anchor,   \* the row of audit_chain_state: event_count, last_event_hash
    honest,   \* history: the events add_audit has appended
    pc,       \* verifier -> where its call stands
    seen,     \* verifier -> the rows it has read
    began,    \* history: verifier -> length of the honest log at its first read
    ended,    \* history: verifier -> length of the honest log at its second read
    verdict   \* verifier -> what the call returns

vars == <<rows, anchor, honest, pc, seen, began, ended, verdict>>
verification == <<pc, seen, began, ended, verdict>>

Row == [body : Bodies, prev : Hashes, hash : Hashes]

Init ==
    /\ rows = <<>>
    /\ anchor = [count |-> 0, last |-> Genesis]
    /\ honest = <<>>
    /\ pc = [v \in Verifiers |-> "idle"]
    /\ seen = [v \in Verifiers |-> <<>>]
    /\ began = [v \in Verifiers |-> 0]
    /\ ended = [v \in Verifiers |-> 0]
    /\ verdict = [v \in Verifiers |-> FALSE]

LastHash(log) == IF log = <<>> THEN Genesis ELSE log[Len(log)].hash

\* What add_audit demands of the stored state before it appends.
MutantConsistent == anchor.last = LastHash(rows)    \* the count is not compared
Consistent ==
    /\ anchor.count = Len(rows)
    /\ anchor.last = LastHash(rows)

MutantAddAudit(b) ==    \* the anchor is left to a later transaction
    LET new == [body |-> b, prev |-> LastHash(rows), hash |-> H(LastHash(rows), b)]
    IN  /\ Len(honest) < MaxEvents
        /\ Consistent
        /\ rows' = Append(rows, new)
        /\ honest' = Append(honest, new)
        /\ anchor' = [anchor EXCEPT !["last"] = new.hash]
        /\ UNCHANGED verification

\* BEGIN IMMEDIATE ... COMMIT.  When the stored state is inconsistent the call
\* raises RuntimeError and stores nothing.
AddAudit(b) ==
    LET new == [body |-> b, prev |-> LastHash(rows), hash |-> H(LastHash(rows), b)]
    IN  /\ Len(honest) < MaxEvents
        /\ Consistent
        /\ rows' = Append(rows, new)
        /\ honest' = Append(honest, new)
        /\ anchor' = [count |-> Len(rows) + 1, last |-> new.hash]
        /\ UNCHANGED verification

\* An edit of the database file, outside the program.
EditRow(i, b) ==
    /\ rows' = [rows EXCEPT ![i]["body"] = b]
    /\ UNCHANGED <<anchor, honest, verification>>

DeleteRow(i) ==
    /\ rows' = RemoveAt(rows, i)
    /\ UNCHANGED <<anchor, honest, verification>>

MutantLinked(log) ==    \* a row's own hash is not recomputed
    \A i \in 1..Len(log) :
        log[i].prev = IF i = 1 THEN Genesis ELSE log[i - 1].hash

\* The loop of verify_audit_chain: each row follows the one before it, and its
\* hash is the hash of its columns.
Linked(log) ==
    \A i \in 1..Len(log) :
        /\ log[i].prev = IF i = 1 THEN Genesis ELSE log[i - 1].hash
        /\ log[i].hash = H(log[i].prev, log[i].body)

\* First SELECT.
VerifyRows(v) ==
    /\ pc[v] = "idle"
    /\ pc' = [pc EXCEPT ![v] = "read"]
    /\ seen' = [seen EXCEPT ![v] = rows]
    /\ began' = [began EXCEPT ![v] = Len(honest)]
    /\ UNCHANGED <<rows, anchor, honest, ended, verdict>>

\* Second SELECT, and the answer computed from both.
VerifyAnchor(v) ==
    /\ pc[v] = "read"
    /\ pc' = [pc EXCEPT ![v] = "answered"]
    /\ ended' = [ended EXCEPT ![v] = Len(honest)]
    /\ verdict' = [verdict EXCEPT ![v] = /\ anchor.count = Len(seen[v])
                                         /\ Linked(seen[v])
                                         /\ anchor.last = LastHash(seen[v])]
    /\ UNCHANGED <<rows, anchor, honest, seen, began>>

\* The answer is used (admin_overview), and the thread is free again.
VerifyDone(v) ==
    /\ pc[v] = "answered"
    /\ pc' = [pc EXCEPT ![v] = "idle"]
    /\ seen' = [seen EXCEPT ![v] = <<>>]
    /\ began' = [began EXCEPT ![v] = 0]
    /\ ended' = [ended EXCEPT ![v] = 0]
    /\ verdict' = [verdict EXCEPT ![v] = FALSE]
    /\ UNCHANGED <<rows, anchor, honest>>

Serve ==
    \/ \E b \in Bodies : AddAudit(b)
    \/ \E v \in Verifiers : VerifyRows(v) \/ VerifyAnchor(v) \/ VerifyDone(v)

Tamper ==
    \/ \E i \in 1..Len(rows), b \in Bodies : EditRow(i, b)
    \/ \E i \in 1..Len(rows) : DeleteRow(i)

Next == Serve \/ Tamper

Spec == Init /\ [][Next]_vars
\* The system as it runs when nobody touches its file.
UntouchedSpec == Init /\ [][Serve]_vars
-----------------------------------------------------------------------------
TypeOK ==
    /\ rows \in Seq(Row)
    /\ anchor \in [count : Nat, last : Hashes]
    /\ honest \in Seq(Row)
    /\ pc \in [Verifiers -> {"idle", "read", "answered"}]
    /\ seen \in [Verifiers -> Seq(Row)]
    /\ began \in [Verifiers -> Nat]
    /\ ended \in [Verifiers -> Nat]
    /\ verdict \in [Verifiers -> BOOLEAN]

\* A log of the honest length that differs from the honest log only in bodies:
\* what editing can produce.  A deletion leaves fewer rows, and stays short.
EditOf(log, n) ==
    /\ Len(log) <= n
    /\ Len(log) = n => \A i \in 1..n : /\ log[i].prev = honest[i].prev
                                       /\ log[i].hash = honest[i].hash

\* The inductive invariant: the honest log is linked, the anchor describes it,
\* and the stored rows and every copy of them are edits of it or too short.
Inv ==
    /\ TypeOK
    /\ Linked(honest)
    /\ anchor = [count |-> Len(honest), last |-> LastHash(honest)]
    /\ EditOf(rows, Len(honest))
    /\ \A v \in Verifiers :
        /\ began[v] <= Len(honest) /\ ended[v] <= Len(honest)
        /\ pc[v] # "idle" => EditOf(seen[v], began[v])
        /\ pc[v] = "answered" => began[v] <= ended[v]
        /\ verdict[v] => /\ pc[v] = "answered"
                         /\ Len(seen[v]) = ended[v]
                         /\ Linked(seen[v])

\* A verification that answers TRUE has read exactly the events that were
\* logged, none altered, none missing, although it reads rows and anchor in two
\* statements between which events may be appended, edited and deleted.
TrueMeansHonest ==
    \A v \in Verifiers :
        verdict[v] => /\ Len(seen[v]) = ended[v]
                      /\ \A i \in 1..ended[v] : seen[v][i] = honest[i]

\* After rows were deleted nothing is appended: a later event would take the
\* place of a deleted one and bring the count of rows back to the anchor's.
DeletionStopsLog == [][Len(rows) < Len(honest) => honest' = honest]_vars

\* A FALSE has a cause: a verification that has read the log as it was written,
\* between whose two reads nothing is appended, answers TRUE, also when the file
\* was edited and repaired before it or is edited behind its back.
QuietAnswerTrue ==
    \A v \in Verifiers :
        (/\ pc[v] = "answered"
         /\ began[v] = ended[v]
         /\ seen[v] = SubSeq(honest, 1, began[v])) => verdict[v]

\* The log that the hashes and the anchor stand for, and the log that is stored.
BodiesOf(log) == [i \in DOMAIN log |-> log[i].body]
Calls ==
    [v \in Verifiers |->
        [stage |-> pc[v],
         equal |-> pc[v] # "idle" /\ seen[v] = SubSeq(honest, 1, began[v]),
         length |-> began[v],
         verdict |-> verdict[v]]]
Abstract == INSTANCE AuditLog
            WITH written <- BodiesOf(honest), stored <- BodiesOf(rows), calls <- Calls

\* Hashes and anchor are as good as a second copy of the log that nobody can reach: a
\* verification answers what comparing the two would answer, and events are appended only
\* while no stored event is missing.
Implements == Abstract!Spec
=============================================================================
