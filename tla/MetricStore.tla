---------------------------- MODULE MetricStore ----------------------------
(***************************************************************************)
(* What administrators and readers may rely on: the metric values are one  *)
(* table that is there or not.  It changes in two ways only.  A requested  *)
(* publication merges its whole batch at one instant, and only when it     *)
(* replaces no value or the administrator has confirmed that it may.  Or   *)
(* the table is taken away and comes back as the rows of the workbook.     *)
(***************************************************************************)
CONSTANTS
    Importers,  \* publications that may be under way at once
    Keys,       \* (date, metric, organization)
    Values,     \* metric values
    Sources,    \* tables that a version of the workbook gives
    NoValue,    \* a key without a row
    NoStore,    \* the table is not there
    NoRequest   \* no publication is under way

VARIABLES
    store,     \* the table
    requests   \* importer -> what it is asked to publish

vars == <<store, requests>>

Content == [Keys -> Values \cup {NoValue}]
Batch == UNION {[K -> Values] : K \in SUBSET Keys \ {{}}}
Request == [batch : Batch, confirmed : BOOLEAN]

\* The keys whose value a batch replaces, and the table after a batch.
Overwritten(content, batch) ==
    {k \in DOMAIN batch : content[k] \notin {NoValue, batch[k]}}
Merged(content, batch) ==
    [k \in Keys |-> IF k \in DOMAIN batch THEN batch[k] ELSE content[k]]

Init ==
    /\ store = NoStore
    /\ requests = [i \in Importers |-> NoRequest]

Ask(i) ==
    /\ requests[i] = NoRequest
    /\ requests'[i] \in Request
    /\ requests' = [requests EXCEPT ![i] = requests'[i]]
    /\ UNCHANGED store

Publish(i) ==
    /\ requests[i] # NoRequest
    /\ store # NoStore
    /\ \/ requests[i].confirmed
       \/ Overwritten(store, requests[i].batch) = {}
    /\ store' = Merged(store, requests[i].batch)
    /\ requests' = [requests EXCEPT ![i] = NoRequest]

\* Publications that are refused, fail or die with the process change nothing.
Drop(I) ==
    /\ requests' = [i \in Importers |-> IF i \in I THEN NoRequest ELSE requests[i]]
    /\ UNCHANGED store

TakeAway ==
    /\ store' = NoStore
    /\ UNCHANGED requests

Rebuild ==
    /\ store' \in Sources
    /\ UNCHANGED requests

Next ==
    \/ \E i \in Importers : Ask(i) \/ Publish(i)
    \/ \E I \in SUBSET Importers : Drop(I)
    \/ TakeAway
    \/ Rebuild

Spec == Init /\ [][Next]_vars
=============================================================================
