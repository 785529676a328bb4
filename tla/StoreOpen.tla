------------------------------ MODULE StoreOpen ------------------------------
(***************************************************************************)
(* How ProductStore opens its SQLite file: create the tables, add the      *)
(* columns an older file lacks, link the events of such a file into the    *)
(* hash chain, and create the anchor of the chain.  Every statement before *)
(* the first INSERT or UPDATE commits by itself, so the process may die,   *)
(* or a statement fail, between any two of them; and because lru_cache     *)
(* does not serialise calls of its function, the first requests of a       *)
(* server may open the file at the same time.                              *)
(***************************************************************************)
EXTENDS Integers, Sequences

CONSTANTS
    Openers,      \* threads whose request needs the store
    LegacyRows,   \* numbers of events a file without hashes may hold
    MaxEvents     \* bound: length of the log

ASSUME BoundAssumption == MaxEvents \in Nat /\ LegacyRows \subseteq 0..MaxEvents

\* A hash is the number of events it covers: the event's own and those it is
\* linked to.
Genesis == 0
NoHash == -1
NoAnchor == [count |-> -1, last |-> NoHash]

\* The columns that _initialize adds to a table without them, in this order.
Added == <<"target", "ip_address", "previous_hash", "event_hash">>
HashColumns == {"previous_hash", "event_hash"}
AllColumns == {Added[i] : i \in DOMAIN Added}

VARIABLES
    table,    \* audit_events exists
    columns,  \* those of AllColumns that it has
    rows,     \* event_hash of each event, by rowid
    anchor,   \* the row of audit_chain_state
    dropped,  \* history: somebody has dropped the anchor
    overlapped, \* history: two openers have initialised at the same time
    pc,       \* opener -> where its _initialize stands
    local     \* opener -> its local variables

vars == <<table, columns, rows, anchor, dropped, overlapped, pc, local>>
file == <<table, columns, rows, anchor>>
history == <<dropped, overlapped>>

NoLocal == [existed |-> FALSE, legacy |-> FALSE, known |-> {}, count |-> 0, last |-> Genesis]

Init ==
    /\ \/ /\ table = FALSE /\ rows = <<>>
       \/ /\ table = TRUE
          /\ \E n \in LegacyRows : rows = [i \in 1..n |-> NoHash]
    /\ columns = {}
    /\ anchor = NoAnchor
    /\ dropped = FALSE
    /\ overlapped = FALSE
    /\ pc = [o \in Openers |-> "closed"]
    /\ local = [o \in Openers |-> NoLocal]

Goto(o, from, to) == pc[o] = from /\ pc' = [pc EXCEPT ![o] = to]

\* "ORDER BY rowid DESC LIMIT 1": no event, or one without a hash, reads as the
\* genesis hash.
LastHash ==
    IF rows = <<>> \/ rows[Len(rows)] = NoHash THEN Genesis ELSE rows[Len(rows)]

Consistent == anchor.count = Len(rows) /\ anchor.last = LastHash

Initialising(o) == pc[o] \notin {"closed", "open", "refused", "failed"}

\* The schema before the tables are created.
ReadSchema(o) ==
    /\ Goto(o, "closed", "create")
    /\ local' = [local EXCEPT ![o] =
                    [NoLocal EXCEPT !.existed = table,
                                    !.legacy = table /\ columns \cap HashColumns = {}]]
    /\ overlapped' = (overlapped \/ \E p \in Openers : Initialising(p))
    /\ UNCHANGED <<file, dropped>>

\* executescript: CREATE TABLE IF NOT EXISTS, with every column.
CreateTables(o) ==
    /\ Goto(o, "create", "columns")
    /\ table' = TRUE
    /\ columns' = IF table THEN columns ELSE AllColumns
    /\ UNCHANGED <<rows, anchor, history, local>>

ReadColumns(o) ==
    /\ Goto(o, "columns", "alter")
    /\ local' = [local EXCEPT ![o].known = columns]
    /\ UNCHANGED <<file, history>>

\* The next column the opener believes to be missing.  When another opener has
\* added it in between, ALTER TABLE fails and the request with it.
AddColumn(o) ==
    \E i \in DOMAIN Added :
        /\ Added[i] \notin local[o].known
        /\ \A j \in 1..(i - 1) : Added[j] \in local[o].known
        /\ IF Added[i] \in columns
           THEN Goto(o, "alter", "failed") /\ UNCHANGED <<columns, local>>
           ELSE /\ Goto(o, "alter", "alter")
                /\ columns' = columns \cup {Added[i]}
                /\ local' = [local EXCEPT ![o].known = @ \cup {Added[i]}]
        /\ UNCHANGED <<table, rows, anchor, history>>

MutantColumnsDone(o) ==    \* the events of an older file are not linked
    /\ AllColumns \subseteq local[o].known
    /\ Goto(o, "alter", "anchor")
    /\ UNCHANGED <<file, history, local>>

\* The loop has ended.  An older file has its events read for the backfill.
ColumnsDone(o) ==
    /\ AllColumns \subseteq local[o].known
    /\ Goto(o, "alter", IF local[o].legacy /\ rows # <<>> THEN "migrate" ELSE "anchor")
    /\ local' = [local EXCEPT ![o].count = IF local[o].legacy THEN Len(rows) ELSE 0]
    /\ UNCHANGED <<file, history>>

MutantMigrate(o) ==    \* the anchor describes the events before they were linked
    /\ Goto(o, "migrate", "open")
    /\ rows' = [i \in DOMAIN rows |-> IF i <= local[o].count THEN i ELSE rows[i]]
    /\ anchor' = IF anchor = NoAnchor
                 THEN [count |-> Len(rows), last |-> LastHash]
                 ELSE anchor
    /\ UNCHANGED <<table, columns, history, local>>

\* _backfill_audit_chain and the anchor.  The first UPDATE opens a transaction
\* that the end of _initialize commits, so this is one step.
Migrate(o) ==
    /\ Goto(o, "migrate", "open")
    /\ rows' = [i \in DOMAIN rows |-> IF i <= local[o].count THEN i ELSE rows[i]]
    /\ anchor' = IF anchor = NoAnchor
                 THEN [count |-> Len(rows), last |-> LastHash']
                 ELSE anchor
    /\ UNCHANGED <<table, columns, history, local>>

MutantCheckAnchor(o) ==    \* a missing anchor is always built anew
    /\ Goto(o, "anchor", IF anchor # NoAnchor THEN "open" ELSE "count")
    /\ UNCHANGED <<file, history, local>>

\* Without an anchor the file must be new, or too old to have had one.
CheckAnchor(o) ==
    /\ Goto(o, "anchor",
            IF anchor # NoAnchor THEN "open"
            ELSE IF local[o].existed /\ ~local[o].legacy THEN "refused"
            ELSE "count")
    /\ UNCHANGED <<file, history, local>>

\* _sync_audit_chain_state: two SELECTs and an upsert, not one transaction.
SyncCount(o) ==
    /\ Goto(o, "count", "last")
    /\ local' = [local EXCEPT ![o].count = Len(rows)]
    /\ UNCHANGED <<file, history>>

SyncLast(o) ==
    /\ Goto(o, "last", "sync")
    /\ local' = [local EXCEPT ![o].last = LastHash]
    /\ UNCHANGED <<file, history>>

SyncWrite(o) ==
    /\ Goto(o, "sync", "open")
    /\ anchor' = [count |-> local[o].count, last |-> local[o].last]
    /\ UNCHANGED <<table, columns, rows, history, local>>

\* add_audit on an open store; it raises when the state is inconsistent.
AddAudit(o) ==
    /\ pc[o] = "open"
    /\ Len(rows) < MaxEvents
    /\ Consistent
    /\ rows' = Append(rows, LastHash + 1)
    /\ anchor' = [count |-> Len(rows) + 1, last |-> LastHash + 1]
    /\ UNCHANGED <<table, columns, history, pc, local>>

\* A statement fails (the file is locked for ten seconds, the disk is full) or
\* the process dies: nothing uncommitted survives, nothing committed is undone.
Interrupt(o) ==
    /\ pc[o] # "closed"
    /\ pc' = [pc EXCEPT ![o] = "closed"]
    /\ local' = [local EXCEPT ![o] = NoLocal]
    /\ UNCHANGED <<file, history>>

\* The anchor is removed outside the program, with all or some of the events
\* or none, as tests/test_security_store.py does.
DropAnchor ==
    /\ anchor # NoAnchor
    /\ anchor' = NoAnchor
    /\ dropped' = TRUE
    /\ \E n \in 0..Len(rows) : rows' = SubSeq(rows, 1, n)
    /\ UNCHANGED <<table, columns, overlapped, pc, local>>

Open(o) ==
    \/ ReadSchema(o)
    \/ CreateTables(o)
    \/ ReadColumns(o)
    \/ AddColumn(o)
    \/ ColumnsDone(o)
    \/ Migrate(o)
    \/ CheckAnchor(o)
    \/ SyncCount(o)
    \/ SyncLast(o)
    \/ SyncWrite(o)

Next ==
    \/ \E o \in Openers : Open(o) \/ AddAudit(o) \/ Interrupt(o)
    \/ DropAnchor

Spec == Init /\ [][Next]_vars
-----------------------------------------------------------------------------
TypeOK ==
    /\ table \in BOOLEAN
    /\ columns \subseteq AllColumns
    /\ rows \in Seq({NoHash} \cup 1..MaxEvents)
    /\ anchor \in [count : -1..MaxEvents, last : -1..MaxEvents]
    /\ dropped \in BOOLEAN
    /\ overlapped \in BOOLEAN
    /\ pc \in [Openers -> {"closed", "create", "columns", "alter", "migrate", "anchor",
                           "count", "last", "sync", "open", "refused", "failed"}]
    /\ local \in [Openers -> [existed : BOOLEAN, legacy : BOOLEAN,
                              known : SUBSET AllColumns,
                              count : 0..MaxEvents, last : 0..MaxEvents]]

\* A store that is open accepts events (tests/test_security_store.py:36 and
\* :96, an event added right after opening): its anchor describes its log, so
\* that add_audit does not raise, whatever earlier attempts left behind and
\* however many threads share the store.  Two threads that initialise at the same
\* time do break it: the slower one upserts an anchor that it computed before the
\* events of the faster one.
OpenAccepts ==
    ((\E o \in Openers : pc[o] = "open") /\ ~dropped /\ ~overlapped) => Consistent

\* The events of an older file are linked as a whole: from the moment there is
\* an anchor, every event carries the hash of its place in the chain, although
\* openers may migrate the file, fail and append in any order.
LinkedWhole == anchor # NoAnchor => \A i \in DOMAIN rows : rows[i] = i

Inv == TypeOK /\ LinkedWhole

\* A lost anchor is not built anew (tests/test_security_store.py:124 and :137):
\* once it is removed and nobody is in the middle of opening, the file never
\* opens again, however often it is tried, alone or by several openers.
LostStaysRefused ==
    []((dropped /\ anchor = NoAnchor /\ \A o \in Openers : pc[o] = "closed") =>
            [](\A o \in Openers : pc[o] # "open"))
=============================================================================
