--------------------------- MODULE StoreOpen_proof ---------------------------
(***************************************************************************)
(* Opening the store, for any number of openers, any older file and any    *)
(* length of the log: an older file is linked as a whole or not at all, a  *)
(* store that is open accepts events unless two openers initialised at the *)
(* same time, and a file whose anchor was removed is never opened again.   *)
(***************************************************************************)
EXTENDS StoreOpen, SequenceTheorems, TLAPS

\* Every event carries the hash of its place.
Linked == \A i \in DOMAIN rows : rows[i] = i

\* The statements of _initialize after the columns are known to be there.
Later == {"migrate", "anchor", "count", "last", "sync", "open"}

Size == Len(rows) <= MaxEvents

\* Columns are only added.  What an opener knows of them is true, an opener that has
\* left the loop has them all, and so has a file with an anchor or one that had it.
Schema ==
    /\ \A o \in Openers :
        /\ local[o].known \subseteq columns
        /\ pc[o] \in {"columns", "alter"} \cup Later => table
        /\ pc[o] \in Later => AllColumns \subseteq columns
    /\ anchor # NoAnchor \/ dropped => table /\ AllColumns \subseteq columns

\* An event without a hash is one of an older file that nobody has touched: there is
\* no anchor, every opener has seen the table, and the one that is about to link
\* the events has read all of them.
OldFile ==
    ~Linked =>
        /\ table /\ anchor = NoAnchor
        /\ \A o \in Openers :
            /\ pc[o] \notin {"count", "last", "sync", "open"}
            /\ pc[o] \in {"create", "columns", "alter", "migrate", "anchor"} => local[o].existed
            /\ pc[o] = "anchor" => ~local[o].legacy
            /\ pc[o] = "migrate" => local[o].count = Len(rows)

\* Only one opener initialises unless two have done so at the same time.
Alone ==
    ~overlapped => \A o, p \in Openers : Initialising(o) /\ Initialising(p) => o = p

\* Then the anchor describes the log from the moment it is there, an open store has
\* one, and what the opener that builds it has read of the log still holds.
Described ==
    ~dropped /\ ~overlapped =>
        /\ anchor # NoAnchor => Consistent
        /\ \A o \in Openers :
            /\ pc[o] = "open" => anchor # NoAnchor
            /\ pc[o] \in {"count", "last", "sync"} => anchor = NoAnchor
            /\ pc[o] \in {"last", "sync"} => local[o].count = Len(rows)
            /\ pc[o] = "sync" => local[o].last = LastHash

IInv == TypeOK /\ Size /\ Schema /\ OldFile /\ Alone /\ Described

\* A lost anchor: the file is not new and not an older one, and every opener under
\* way has seen that.
Lost ==
    /\ dropped /\ anchor = NoAnchor
    /\ \A o \in Openers :
        /\ pc[o] \notin {"migrate", "count", "last", "sync", "open"}
        /\ pc[o] \in {"create", "columns", "alter", "anchor"} =>
              local[o].existed /\ ~local[o].legacy

-----------------------------------------------------------------------------
\* The log

\* The bound is a number, and so are the values in the range of a count.
LEMMA Numbers == MaxEvents \in Nat /\ LegacyRows \subseteq 0..MaxEvents
  BY BoundAssumption

Hashes == {NoHash} \cup 1..MaxEvents

LEMMA MakeSeq ==
  ASSUME NEW S, NEW n \in Nat, NEW f \in [1..n -> S]
  PROVE  f \in Seq(S) /\ Len(f) = n /\ DOMAIN f = 1..n
BY SeqDef

\* What the log is, and what its last event reads as.
LEMMA LogFacts ==
  ASSUME TypeOK, Size
  PROVE  /\ Len(rows) \in 0..MaxEvents /\ DOMAIN rows = 1..Len(rows) /\ rows \in Seq(Hashes)
         /\ rows \in [1..Len(rows) -> Hashes]
         /\ LastHash \in 0..MaxEvents
         /\ Linked => LastHash = Len(rows)
<1>1. rows \in Seq(Hashes)
  BY DEF TypeOK, Hashes
<1>2. Len(rows) \in Nat /\ DOMAIN rows = 1..Len(rows) /\ rows \in [1..Len(rows) -> Hashes]
  BY <1>1, LenProperties
<1>3. Len(rows) \in 0..MaxEvents
  BY <1>2, Numbers DEF Size
<1>4. CASE rows = <<>>
  <2>1. Len(rows) = 0 /\ LastHash = 0
    BY <1>4, EmptySeq DEF LastHash, Genesis
  <2> QED
    BY <1>1, <1>2, <1>3, <2>1, Numbers
<1>5. CASE rows # <<>>
  <2>1. Len(rows) \in Nat \ {0}
    BY <1>1, <1>5, EmptySeq
  <2>2. Len(rows) \in DOMAIN rows
    BY <1>2, <2>1
  <2>3. rows[Len(rows)] \in Hashes
    BY <1>2, <2>2
  <2>4. LastHash \in 0..MaxEvents
    BY <1>5, <2>3, Numbers DEF LastHash, Hashes, Genesis, NoHash
  <2>5. ASSUME Linked PROVE LastHash = Len(rows)
    <3>1. rows[Len(rows)] = Len(rows)
      BY <2>2, <2>5 DEF Linked
    <3>2. rows[Len(rows)] # NoHash
      BY <2>1, <3>1 DEF NoHash
    <3> QED
      BY <1>5, <3>1, <3>2 DEF LastHash
  <2> QED
    BY <1>1, <1>2, <1>3, <2>4, <2>5
<1> QED
  BY <1>4, <1>5

\* An opener that links the events leaves all of them linked: it has read all, or
\* another one has linked them since.
LEMMA MigrateLog ==
  ASSUME TypeOK, Size, OldFile, NEW o \in Openers, Migrate(o)
  PROVE  /\ rows' \in Seq(Hashes) /\ Len(rows') = Len(rows)
         /\ Linked' /\ LastHash' = Len(rows) /\ (Linked => rows' = rows)
         /\ anchor' \in [count : 0..MaxEvents, last : 0..MaxEvents] \cup {anchor}
         /\ anchor = NoAnchor => anchor' = [count |-> Len(rows), last |-> Len(rows)]
         /\ anchor # NoAnchor => anchor' = anchor
<1> DEFINE n == Len(rows)
           new == [i \in 1..n |-> IF i <= local[o].count THEN i ELSE rows[i]]
<1>1. /\ n \in 0..MaxEvents /\ n \in Nat /\ DOMAIN rows = 1..n /\ \A i \in 1..n : rows[i] \in Hashes
  <2>1. rows \in [1..n -> Hashes] /\ n \in 0..MaxEvents /\ DOMAIN rows = 1..n
    BY LogFacts
  <2> QED
    BY <2>1, Numbers
<1>2. rows' = new /\ pc[o] = "migrate"
  BY <1>1 DEF Migrate, Goto
<1>3. new \in [1..n -> Hashes]
  BY <1>1, Numbers DEF Hashes
<1>4. rows' \in Seq(Hashes) /\ Len(rows') = n /\ DOMAIN rows' = 1..n
  BY <1>1, <1>2, <1>3, MakeSeq
<1>5. \A i \in 1..n : rows'[i] = i
  <2>1. CASE Linked
    BY <1>1, <1>2, <2>1 DEF Linked
  <2>2. CASE ~Linked
    <3>1. local[o].count = n
      BY <1>2, <2>2 DEF OldFile
    <3> QED
      BY <1>1, <1>2, <3>1
  <2> QED
    BY <2>1, <2>2
<1>6. Linked'
  BY <1>4, <1>5 DEF Linked
<1>7. ASSUME Linked PROVE rows' = rows
  <2>1. \A i \in 1..n : rows[i] = rows'[i]
    BY <1>1, <1>5, <1>7 DEF Linked
  <2> QED
    BY <1>1, <1>4, <2>1, SeqEqual, LogFacts
<1>8. LastHash' = n
  <2>1. CASE n = 0
    <3>1. rows' = <<>>
      BY <1>4, <2>1, EmptySeq
    <3> QED
      BY <2>1, <3>1 DEF LastHash, Genesis
  <2>2. CASE n # 0
    <3>1. rows' # <<>>
      BY <1>4, <2>2, EmptySeq
    <3>2. rows'[Len(rows')] = n /\ n # NoHash
      BY <1>1, <1>4, <1>5, <2>2 DEF NoHash
    <3> QED
      BY <1>4, <3>1, <3>2 DEF LastHash
  <2> QED
    BY <2>1, <2>2
<1>9. anchor' = IF anchor = NoAnchor THEN [count |-> n, last |-> n] ELSE anchor
  BY <1>8 DEF Migrate
<1> QED
  BY <1>1, <1>4, <1>6, <1>7, <1>8, <1>9

\* An event is added to a log that is linked, and is linked itself.
LEMMA AddLog ==
  ASSUME TypeOK, Size, OldFile, NEW o \in Openers, AddAudit(o)
  PROVE  /\ rows' \in Seq(Hashes) /\ Len(rows') = Len(rows) + 1 /\ Len(rows') \in 1..MaxEvents
         /\ Linked /\ Linked' /\ LastHash' = Len(rows') /\ anchor # NoAnchor
         /\ anchor' = [count |-> Len(rows'), last |-> Len(rows')]
<1> DEFINE n == Len(rows)
<1>1. /\ n \in 0..MaxEvents /\ n \in Nat /\ n + 1 \in 1..MaxEvents
      /\ rows \in Seq(Hashes) /\ DOMAIN rows = 1..n
  BY LogFacts, Numbers DEF AddAudit
<1>2. anchor.count = n
  BY DEF AddAudit, Consistent
<1>3. anchor # NoAnchor
  BY <1>1, <1>2 DEF NoAnchor
<1>4. Linked
  BY <1>3 DEF OldFile
<1>5. LastHash = n
  BY <1>4, LogFacts
<1>6. rows' = Append(rows, n + 1) /\ anchor' = [count |-> n + 1, last |-> n + 1]
  BY <1>5 DEF AddAudit
<1>7. n + 1 \in Hashes /\ n + 1 # NoHash
  BY <1>1 DEF Hashes, NoHash
<1>8. /\ rows' \in Seq(Hashes) /\ Len(rows') = n + 1 /\ rows'[n + 1] = n + 1
      /\ \A i \in 1..n : rows'[i] = rows[i]
  BY <1>1, <1>6, <1>7, AppendProperties
<1>9. DOMAIN rows' = 1..(n + 1)
  BY <1>8, LenProperties
<1>10. \A i \in 1..(n + 1) : rows'[i] = i
  BY <1>1, <1>4, <1>8 DEF Linked
<1>11. Linked'
  BY <1>9, <1>10 DEF Linked
<1>12. rows' # <<>>
  BY <1>1, <1>8, EmptySeq
<1>13. LastHash' = n + 1
  BY <1>7, <1>8, <1>12 DEF LastHash
<1> QED
  BY <1>1, <1>3, <1>4, <1>6, <1>8, <1>11, <1>13

\* Who removes the anchor finds a linked log and leaves one.
LEMMA DropLog ==
  ASSUME TypeOK, Size, OldFile, DropAnchor
  PROVE  /\ rows' \in Seq(Hashes) /\ Len(rows') <= MaxEvents /\ Linked' /\ anchor # NoAnchor
<1>1. anchor # NoAnchor /\ Linked
  BY DEF DropAnchor, OldFile
<1>2. /\ Len(rows) \in 0..MaxEvents /\ Len(rows) \in Nat /\ rows \in Seq(Hashes)
      /\ DOMAIN rows = 1..Len(rows) /\ \A i \in 1..Len(rows) : rows[i] \in Hashes
  <2>1. rows \in [1..Len(rows) -> Hashes]
    BY LogFacts
  <2> QED
    BY <2>1, LogFacts, Numbers
<1>3. PICK n \in 0..Len(rows) : rows' = SubSeq(rows, 1, n)
  BY DEF DropAnchor
<1>4. n \in Nat /\ n <= Len(rows) /\ n <= MaxEvents /\ \A i \in 1..n : rows[i] \in Hashes
  BY <1>2, Numbers
<1>5. /\ rows' \in Seq(Hashes) /\ Len(rows') = IF 1 <= n THEN n - 1 + 1 ELSE 0
      /\ \A i \in 1..(n - 1 + 1) : rows'[i] = rows[1 + i - 1]
  BY <1>3, <1>4, SubSeqProperties
<1>6. Len(rows') = n /\ \A i \in 1..n : rows'[i] = rows[i]
  BY <1>4, <1>5
<1>7. DOMAIN rows' = 1..n
  BY <1>5, <1>6, LenProperties
<1>8. Linked'
  <2>1. \A i \in 1..n : rows'[i] = i
    BY <1>1, <1>2, <1>4, <1>6 DEF Linked
  <2> QED
    BY <1>7, <2>1 DEF Linked
<1> QED
  BY <1>1, <1>4, <1>5, <1>6, <1>8

\* The loop over the missing columns adds the next one, or fails on one that is there.
LEMMA ColumnStep ==
  ASSUME TypeOK, NEW o \in Openers, AddColumn(o)
  PROVE  /\ pc[o] = "alter" /\ UNCHANGED <<table, rows, anchor, history>>
         /\ \/ /\ pc' = [pc EXCEPT ![o] = "failed"] /\ UNCHANGED <<columns, local>>
            \/ /\ pc' = pc
               /\ \E c \in AllColumns :
                    /\ columns' = columns \cup {c}
                    /\ local' = [local EXCEPT ![o].known = @ \cup {c}]
<1>1. PICK i \in DOMAIN Added :
        /\ IF Added[i] \in columns
           THEN Goto(o, "alter", "failed") /\ UNCHANGED <<columns, local>>
           ELSE /\ Goto(o, "alter", "alter")
                /\ columns' = columns \cup {Added[i]}
                /\ local' = [local EXCEPT ![o].known = @ \cup {Added[i]}]
        /\ UNCHANGED <<table, rows, anchor, history>>
  BY DEF AddColumn
<1>2. Added[i] \in AllColumns
  BY DEF AllColumns
<1>3. pc[o] = "alter" => [pc EXCEPT ![o] = "alter"] = pc
  BY DEF TypeOK
<1> QED
  BY <1>1, <1>2, <1>3 DEF Goto

-----------------------------------------------------------------------------
\* The invariant

LEMMA Booleans ==
  ASSUME TypeOK
  PROVE  table \in BOOLEAN /\ dropped \in BOOLEAN /\ overlapped \in BOOLEAN
  BY DEF TypeOK

LEMMA HashSet == Hashes = {NoHash} \cup 1..MaxEvents /\ NoAnchor \in [count : -1..MaxEvents, last : -1..MaxEvents]
  BY Numbers DEF Hashes, NoAnchor, NoHash

Locals == [existed : BOOLEAN, legacy : BOOLEAN, known : SUBSET AllColumns,
           count : 0..MaxEvents, last : 0..MaxEvents]

LEMMA NoLocalTyped == NoLocal \in Locals
  BY Numbers DEF Locals, NoLocal, Genesis

LEMMA SameLog == rows' = rows => LastHash' = LastHash
  BY DEF LastHash

LEMMA LocalFields ==
  ASSUME local \in [Openers -> Locals], NEW o \in Openers
  PROVE  /\ \A k \in SUBSET AllColumns : [local EXCEPT ![o].known = k] \in [Openers -> Locals]
         /\ \A n \in 0..MaxEvents : [local EXCEPT ![o].count = n] \in [Openers -> Locals]
         /\ \A n \in 0..MaxEvents : [local EXCEPT ![o].last = n] \in [Openers -> Locals]
         /\ [local EXCEPT ![o] = NoLocal] \in [Openers -> Locals]
         /\ \A e, b \in BOOLEAN :
                [local EXCEPT ![o] = [NoLocal EXCEPT !.existed = e, !.legacy = b]] \in [Openers -> Locals]
         /\ local[o].known \in SUBSET AllColumns
<1>1. /\ \A k \in SUBSET AllColumns : [local[o] EXCEPT !.known = k] \in Locals
      /\ local[o].known \in SUBSET AllColumns
  BY DEF Locals
<1>2. \A n \in 0..MaxEvents : [local[o] EXCEPT !.count = n] \in Locals
  BY DEF Locals
<1>3. \A n \in 0..MaxEvents : [local[o] EXCEPT !.last = n] \in Locals
  BY DEF Locals
<1>4. NoLocal \in Locals
  BY Numbers DEF Locals, NoLocal, Genesis
<1>5. \A e, b \in BOOLEAN : [NoLocal EXCEPT !.existed = e, !.legacy = b] \in Locals
  BY NoLocalTyped DEF Locals
<1> QED
  BY <1>1, <1>2, <1>3, <1>4, <1>5

LEMMA InitIInv == Init => IInv
<1> SUFFICES ASSUME Init
             PROVE  IInv
  OBVIOUS
<1>1. local \in [Openers -> Locals]
  BY NoLocalTyped DEF Init
<1>2. Size /\ TypeOK /\ (rows = <<>> \/ table)
  <2>1. CASE rows = <<>>
    <3>1. rows \in Seq(Hashes) /\ Len(rows) = 0
      BY <2>1, EmptySeq
    <3>2. Size /\ rows \in Seq({NoHash} \cup 1..MaxEvents)
      BY <3>1, Numbers, HashSet DEF Size
    <3>3. table \in BOOLEAN
      BY DEF Init
    <3> QED
      BY <2>1, <3>2, <3>3, <1>1, HashSet DEF Init, TypeOK, Locals
  <2>2. CASE rows # <<>>
    <3>1. PICK n \in LegacyRows : rows = [i \in 1..n |-> NoHash]
      BY <2>2 DEF Init
    <3>2. n \in Nat /\ n <= MaxEvents
      BY Numbers
    <3>3. rows \in [1..n -> Hashes]
      BY <3>1 DEF Hashes
    <3>4. rows \in Seq(Hashes) /\ Len(rows) = n
      BY <3>2, <3>3, MakeSeq
    <3> QED
      BY <2>2, <3>2, <3>4, <1>1, Numbers, HashSet DEF Init, TypeOK, Size, Locals
  <2> QED
    BY <2>1, <2>2
<1>3. Schema
  BY DEF Init, Schema, NoLocal, Later
<1>4. OldFile
  <2>1. rows = <<>> => Linked
    BY DEF Linked
  <2> QED
    BY <1>2, <2>1 DEF Init, OldFile
<1>5. Alone /\ Described
  BY DEF Init, Alone, Described, Initialising, NoLocal
<1> QED
  BY <1>2, <1>3, <1>4, <1>5 DEF IInv

\* Columns, hashes, places and what openers remember stay in their sets.
LEMMA NextTypeOK ==
  ASSUME TypeOK, Size, OldFile, [Next]_vars
  PROVE  TypeOK'
<1> USE DEF vars, file, history, TypeOK, Goto, NoLocal, Genesis
<1>1. ASSUME NEW o \in Openers, Open(o)
      PROVE  TypeOK'
  <2>1. CASE ReadSchema(o)
    <3> DEFINE old == table /\ columns \cap HashColumns = {}
    <3>1. table \in BOOLEAN /\ old \in BOOLEAN
      OBVIOUS
    <3> HIDE DEF old
    <3>2. local' \in [Openers -> Locals]
      <4>1. local' = [local EXCEPT ![o] = [NoLocal EXCEPT !.existed = table, !.legacy = old]]
        BY <2>1 DEF ReadSchema, old
      <4>2. local \in [Openers -> Locals]
        BY DEF Locals
      <4> QED
        BY <3>1, <4>1, <4>2, LocalFields
    <3> QED
      BY <3>2, <2>1 DEF ReadSchema, Locals
  <2>2. CASE CreateTables(o)
    BY <2>2 DEF CreateTables
  <2>3. CASE ReadColumns(o)
    BY LocalFields, <2>3 DEF ReadColumns, Locals
  <2>4. CASE AddColumn(o)
    <3>1. CASE pc' = pc
      <4>1. PICK c \in AllColumns : columns' = columns \cup {c} /\ local' = [local EXCEPT ![o].known = @ \cup {c}]
        BY <3>1, <2>4, ColumnStep
      <4>2. local[o].known \cup {c} \in SUBSET AllColumns
        BY LocalFields DEF Locals
      <4>3. local' \in [Openers -> Locals]
        BY <4>1, <4>2, LocalFields DEF Locals
      <4> QED
        BY <3>1, <4>1, <4>3, <2>4, ColumnStep DEF Locals
    <3>2. CASE pc' # pc
      BY <3>2, <2>4, ColumnStep
    <3> QED
      BY <3>1, <3>2
  <2>5. CASE ColumnsDone(o)
    <3>1. PICK n \in 0..MaxEvents : local' = [local EXCEPT ![o].count = n]
      <4>1. Len(rows) \in 0..MaxEvents /\ 0 \in 0..MaxEvents
        BY LogFacts, Numbers
      <4> QED
        BY <4>1, <2>5 DEF ColumnsDone
    <3>2. local' \in [Openers -> Locals]
      BY <3>1, LocalFields DEF Locals
    <3> QED
      BY <3>2, <2>5 DEF ColumnsDone, Locals
  <2>6. CASE Migrate(o)
    <3>1. anchor' \in [count : -1..MaxEvents, last : -1..MaxEvents]
      BY <2>6, MigrateLog, Numbers
    <3>2. rows' \in Seq({NoHash} \cup 1..MaxEvents)
      BY <2>6, MigrateLog DEF Hashes
    <3> QED
      BY <3>1, <3>2, <2>6 DEF Migrate
  <2>7. CASE CheckAnchor(o)
    BY <2>7 DEF CheckAnchor
  <2>8. CASE SyncCount(o)
    BY LogFacts, LocalFields, <2>8 DEF SyncCount, Locals
  <2>9. CASE SyncLast(o)
    BY LogFacts, LocalFields, <2>9 DEF SyncLast, Locals
  <2>10. CASE SyncWrite(o)
    BY Numbers, <2>10 DEF SyncWrite
  <2> QED
    BY <1>1, <2>1, <2>2, <2>3, <2>4, <2>5, <2>6, <2>7, <2>8, <2>9, <2>10 DEF Open
<1>2. ASSUME NEW o \in Openers, AddAudit(o)
      PROVE  TypeOK'
  BY AddLog, Numbers, <1>2 DEF AddAudit, Hashes
<1>3. ASSUME NEW o \in Openers, Interrupt(o)
      PROVE  TypeOK'
  BY LocalFields, <1>3 DEF Interrupt, Locals
<1>4. CASE DropAnchor
  <2>1. rows' \in Seq({NoHash} \cup 1..MaxEvents)
    BY <1>4, DropLog DEF Hashes
  <2> QED
    BY <2>1, <1>4, HashSet DEF DropAnchor
<1>5. CASE UNCHANGED vars
  BY <1>5 DEF vars
<1> QED
  BY <1>1, <1>2, <1>3, <1>4, <1>5 DEF Next

\* The log stays within its bound.
LEMMA NextSize ==
  ASSUME TypeOK, Size, OldFile, [Next]_vars
  PROVE  Size'
<1> USE DEF vars, file, history, Size
<1>1. ASSUME NEW o \in Openers, Open(o)
      PROVE  Size'
  <2>1. CASE ReadSchema(o)
    BY <2>1 DEF ReadSchema
  <2>2. CASE CreateTables(o)
    BY <2>2 DEF CreateTables
  <2>3. CASE ReadColumns(o)
    BY <2>3 DEF ReadColumns
  <2>4. CASE AddColumn(o)
    BY ColumnStep, <2>4
  <2>5. CASE ColumnsDone(o)
    BY <2>5 DEF ColumnsDone
  <2>6. CASE Migrate(o)
    BY MigrateLog, <2>6 DEF Migrate
  <2>7. CASE CheckAnchor(o)
    BY <2>7 DEF CheckAnchor
  <2>8. CASE SyncCount(o)
    BY <2>8 DEF SyncCount
  <2>9. CASE SyncLast(o)
    BY <2>9 DEF SyncLast
  <2>10. CASE SyncWrite(o)
    BY <2>10 DEF SyncWrite
  <2> QED
    BY <1>1, <2>1, <2>2, <2>3, <2>4, <2>5, <2>6, <2>7, <2>8, <2>9, <2>10 DEF Open
<1>2. ASSUME NEW o \in Openers, AddAudit(o)
      PROVE  Size'
  BY AddLog, Numbers, <1>2 DEF AddAudit
<1>3. ASSUME NEW o \in Openers, Interrupt(o)
      PROVE  Size'
  BY <1>3 DEF Interrupt
<1>4. CASE DropAnchor
  BY DropLog, <1>4 DEF DropAnchor
<1>5. CASE UNCHANGED vars
  BY <1>5 DEF vars
<1> QED
  BY <1>1, <1>2, <1>3, <1>4, <1>5 DEF Next

\* An opener adds what it knows to be missing and goes on when it knows all.
LEMMA NextSchema ==
  ASSUME TypeOK, Schema, [Next]_vars
  PROVE  Schema'
<1> USE DEF vars, file, history, TypeOK, Schema, Later, Goto
<1>1. ASSUME NEW o \in Openers, Open(o)
      PROVE  Schema'
  <2>1. CASE ReadSchema(o)
    BY <2>1 DEF ReadSchema, NoLocal
  <2>2. CASE CreateTables(o)
    BY <2>2 DEF CreateTables
  <2>3. CASE ReadColumns(o)
    BY <2>3 DEF ReadColumns
  <2>4. CASE AddColumn(o)
    <3>1. CASE pc' = pc
      <4>1. PICK c \in AllColumns : columns' = columns \cup {c} /\ local' = [local EXCEPT ![o].known = @ \cup {c}]
        BY <3>1, <2>4, ColumnStep
      <4>2. \A p \in Openers : local'[p].known \subseteq columns'
        BY <4>1
      <4> QED
        BY <3>1, <4>1, <4>2, <2>4, ColumnStep
    <3>2. CASE pc' # pc
      <4>1. pc' = [pc EXCEPT ![o] = "failed"] /\ UNCHANGED <<columns, local>>
        BY <3>2, <2>4, ColumnStep
      <4> QED
        BY <4>1, <2>4, ColumnStep
    <3> QED
      BY <3>1, <3>2
  <2>5. CASE ColumnsDone(o)
    BY <2>5 DEF ColumnsDone
  <2>6. CASE Migrate(o)
    BY <2>6 DEF Migrate
  <2>7. CASE CheckAnchor(o)
    BY <2>7 DEF CheckAnchor
  <2>8. CASE SyncCount(o)
    BY <2>8 DEF SyncCount
  <2>9. CASE SyncLast(o)
    BY <2>9 DEF SyncLast
  <2>10. CASE SyncWrite(o)
    BY <2>10 DEF SyncWrite
  <2> QED
    BY <1>1, <2>1, <2>2, <2>3, <2>4, <2>5, <2>6, <2>7, <2>8, <2>9, <2>10 DEF Open
<1>2. ASSUME NEW o \in Openers, AddAudit(o)
      PROVE  Schema'
  BY <1>2 DEF AddAudit
<1>3. ASSUME NEW o \in Openers, Interrupt(o)
      PROVE  Schema'
  BY <1>3 DEF Interrupt, NoLocal
<1>4. CASE DropAnchor
  BY <1>4 DEF DropAnchor
<1>5. CASE UNCHANGED vars
  BY <1>5 DEF vars
<1> QED
  BY <1>1, <1>2, <1>3, <1>4, <1>5 DEF Next

\* The events of an older file are linked in one step, and nobody builds an anchor
\* for them before.
LEMMA NextOldFile ==
  ASSUME TypeOK, Size, Schema, OldFile, [Next]_vars
  PROVE  OldFile'
<1> USE DEF vars, file, history, TypeOK, OldFile, Linked, Goto
<1>1. ASSUME NEW o \in Openers, Open(o)
      PROVE  OldFile'
  <2>1. CASE ReadSchema(o)
    BY <2>1 DEF ReadSchema
  <2>2. CASE CreateTables(o)
    BY <2>2 DEF CreateTables
  <2>3. CASE ReadColumns(o)
    BY <2>3 DEF ReadColumns
  <2>4. CASE AddColumn(o)
    <3>1. pc[o] = "alter" /\ UNCHANGED <<table, rows, anchor, history>>
      BY <2>4, ColumnStep
    <3>2. CASE pc' = pc
      <4>1. PICK c \in AllColumns : local' = [local EXCEPT ![o].known = @ \cup {c}]
        BY <3>2, <2>4, ColumnStep
      <4> QED
        BY <3>1, <3>2, <4>1
    <3>3. CASE pc' # pc
      <4>1. pc' = [pc EXCEPT ![o] = "failed"] /\ UNCHANGED <<columns, local>>
        BY <3>3, <2>4, ColumnStep
      <4> QED
        BY <3>1, <4>1
    <3> QED
      BY <3>2, <3>3
  <2>5. CASE ColumnsDone(o)
    BY <2>5 DEF ColumnsDone
  <2>6. CASE Migrate(o)
    BY MigrateLog, <2>6 DEF Migrate
  <2>7. CASE CheckAnchor(o)
    BY <2>7 DEF CheckAnchor
  <2>8. CASE SyncCount(o)
    BY <2>8 DEF SyncCount
  <2>9. CASE SyncLast(o)
    BY <2>9 DEF SyncLast
  <2>10. CASE SyncWrite(o)
    BY <2>10 DEF SyncWrite
  <2> QED
    BY <1>1, <2>1, <2>2, <2>3, <2>4, <2>5, <2>6, <2>7, <2>8, <2>9, <2>10 DEF Open
<1>2. ASSUME NEW o \in Openers, AddAudit(o)
      PROVE  OldFile'
  BY AddLog, <1>2 DEF AddAudit
<1>3. ASSUME NEW o \in Openers, Interrupt(o)
      PROVE  OldFile'
  BY <1>3 DEF Interrupt
<1>4. CASE DropAnchor
  BY DropLog, <1>4 DEF DropAnchor
<1>5. CASE UNCHANGED vars
  BY <1>5 DEF vars
<1> QED
  BY <1>1, <1>2, <1>3, <1>4, <1>5 DEF Next

\* A second opener that begins is noticed.
LEMMA NextAlone ==
  ASSUME TypeOK, Alone, [Next]_vars
  PROVE  Alone'
<1> USE DEF vars, file, history, TypeOK, Alone, Initialising, Goto
<1>1. ASSUME NEW o \in Openers, Open(o)
      PROVE  Alone'
  <2>1. CASE ReadSchema(o)
    BY <2>1 DEF ReadSchema
  <2>2. CASE CreateTables(o)
    BY <2>2 DEF CreateTables
  <2>3. CASE ReadColumns(o)
    BY <2>3 DEF ReadColumns
  <2>4. CASE AddColumn(o)
    BY ColumnStep, <2>4
  <2>5. CASE ColumnsDone(o)
    BY <2>5 DEF ColumnsDone
  <2>6. CASE Migrate(o)
    BY <2>6 DEF Migrate
  <2>7. CASE CheckAnchor(o)
    BY <2>7 DEF CheckAnchor
  <2>8. CASE SyncCount(o)
    BY <2>8 DEF SyncCount
  <2>9. CASE SyncLast(o)
    BY <2>9 DEF SyncLast
  <2>10. CASE SyncWrite(o)
    BY <2>10 DEF SyncWrite
  <2> QED
    BY <1>1, <2>1, <2>2, <2>3, <2>4, <2>5, <2>6, <2>7, <2>8, <2>9, <2>10 DEF Open
<1>2. ASSUME NEW o \in Openers, AddAudit(o)
      PROVE  Alone'
  BY <1>2 DEF AddAudit
<1>3. ASSUME NEW o \in Openers, Interrupt(o)
      PROVE  Alone'
  BY <1>3 DEF Interrupt
<1>4. CASE DropAnchor
  BY <1>4 DEF DropAnchor
<1>5. CASE UNCHANGED vars
  BY <1>5 DEF vars
<1> QED
  BY <1>1, <1>2, <1>3, <1>4, <1>5 DEF Next

\* The one opener that builds the anchor finds the log as it read it.
LEMMA NextDescribed ==
  ASSUME TypeOK, Size, OldFile, Alone, Described, [Next]_vars
  PROVE  Described'
<1> USE DEF vars, file, history, TypeOK, Described, Consistent, Initialising, Alone, Goto
<1>1. ASSUME NEW o \in Openers, Open(o)
      PROVE  Described'
  <2>1. CASE ReadSchema(o)
    BY SameLog, <2>1 DEF ReadSchema
  <2>2. CASE CreateTables(o)
    BY SameLog, <2>2 DEF CreateTables
  <2>3. CASE ReadColumns(o)
    BY SameLog, <2>3 DEF ReadColumns
  <2>4. CASE AddColumn(o)
    BY SameLog, ColumnStep, <2>4
  <2>5. CASE ColumnsDone(o)
    BY SameLog, <2>5 DEF ColumnsDone
  <2>6. CASE Migrate(o)
    <3>1. pc[o] = "migrate" /\ Len(rows') = Len(rows) /\ LastHash' = Len(rows) /\ Linked'
      BY <2>6, MigrateLog DEF Migrate
    <3>2. pc' = [pc EXCEPT ![o] = "open"] /\ UNCHANGED <<local, history>>
      BY <2>6 DEF Migrate
    <3>3. CASE anchor = NoAnchor
      <4>1. anchor' = [count |-> Len(rows), last |-> Len(rows)]
        BY <3>3, <2>6, MigrateLog
      <4>2. anchor' # NoAnchor
        <5>1. Len(rows) \in Nat
          BY LogFacts, Numbers
        <5> QED
          BY <4>1, <5>1 DEF NoAnchor, NoHash
      <4>3. Consistent'
        BY <3>1, <4>1
      <4> QED
        BY <3>1, <3>2, <4>2, <4>3
    <3>4. CASE anchor # NoAnchor
      <4>1. Linked
        BY <3>4 DEF OldFile
      <4>2. rows' = rows /\ anchor' = anchor
        BY <3>4, <4>1, <2>6, MigrateLog
      <4> QED
        BY <3>1, <3>2, <3>4, <4>2, SameLog
    <3> QED
      BY <3>3, <3>4
  <2>7. CASE CheckAnchor(o)
    BY SameLog, <2>7 DEF CheckAnchor
  <2>8. CASE SyncCount(o)
    BY SameLog, <2>8 DEF SyncCount
  <2>9. CASE SyncLast(o)
    BY SameLog, <2>9 DEF SyncLast
  <2>10. CASE SyncWrite(o)
    <3>1. UNCHANGED <<rows, history, local>> /\ LastHash' = LastHash /\ pc[o] = "sync"
      BY <2>10, SameLog DEF SyncWrite
    <3>2. pc' = [pc EXCEPT ![o] = "open"]
      BY <2>10 DEF SyncWrite
    <3>3. anchor' = [count |-> local[o].count, last |-> local[o].last]
      BY <2>10 DEF SyncWrite
    <3>4. anchor' # NoAnchor
      <4>1. local[o].count \in Nat
        BY Numbers
      <4> QED
        BY <3>3, <4>1 DEF NoAnchor, NoHash
    <3> QED
      BY <3>1, <3>2, <3>3, <3>4
  <2> QED
    BY <1>1, <2>1, <2>2, <2>3, <2>4, <2>5, <2>6, <2>7, <2>8, <2>9, <2>10 DEF Open
<1>2. ASSUME NEW o \in Openers, AddAudit(o)
      PROVE  Described'
  <2>1. UNCHANGED <<pc, local, history>> /\ anchor # NoAnchor
    BY <1>2, AddLog DEF AddAudit
  <2>2. anchor' = [count |-> Len(rows'), last |-> Len(rows')] /\ LastHash' = Len(rows')
    BY <1>2, AddLog
  <2>3. anchor' # NoAnchor
    <3>1. Len(rows') \in Nat
      BY <1>2, AddLog, Numbers
    <3> QED
      BY <2>2, <3>1 DEF NoAnchor, NoHash
  <2> QED
    BY <2>1, <2>2, <2>3
<1>3. ASSUME NEW o \in Openers, Interrupt(o)
      PROVE  Described'
  BY SameLog, <1>3 DEF Interrupt
<1>4. CASE DropAnchor
  BY SameLog, DropLog, <1>4 DEF DropAnchor
<1>5. CASE UNCHANGED vars
  BY SameLog, <1>5 DEF vars
<1> QED
  BY <1>1, <1>2, <1>3, <1>4, <1>5 DEF Next

LEMMA NextIInv == IInv /\ [Next]_vars => IInv'
<1> SUFFICES ASSUME IInv, [Next]_vars
             PROVE  IInv'
  OBVIOUS
<1>1. TypeOK /\ Size /\ Schema /\ OldFile /\ Alone /\ Described
  BY DEF IInv
<1>2. TypeOK' /\ Size' /\ Schema'
  BY <1>1, NextTypeOK, NextSize, NextSchema
<1>3. OldFile' /\ Alone' /\ Described'
  BY <1>1, NextOldFile, NextAlone, NextDescribed
<1> QED
  BY <1>2, <1>3 DEF IInv

THEOREM Invariance == Spec => []IInv
<1>1. Init => IInv
  BY InitIInv
<1>2. IInv /\ [Next]_vars => IInv'
  BY NextIInv
<1> QED
  BY <1>1, <1>2, PTL DEF Spec

\* The types hold, and from the moment an older file has an anchor every event of it
\* carries the hash of its place (_backfill_audit_chain), whatever failed before.
THEOREM WholeMigration == Spec => []Inv
<1>1. IInv => Inv
  <2> SUFFICES ASSUME IInv
               PROVE  Inv
    OBVIOUS
  <2>1. TypeOK /\ OldFile
    BY DEF IInv
  <2>2. LinkedWhole
    BY <2>1 DEF OldFile, LinkedWhole, Linked
  <2> QED
    BY <2>1, <2>2 DEF Inv
<1> QED
  BY <1>1, Invariance, PTL

\* add_audit does not raise on a store that opened, unless two openers initialised
\* it at the same time or its anchor was removed.
THEOREM OpenIsUsable == Spec => []OpenAccepts
<1>1. IInv => OpenAccepts
  BY DEF IInv, Described, OpenAccepts
<1> QED
  BY <1>1, Invariance, PTL

-----------------------------------------------------------------------------
\* A lost anchor

\* No step leads out of the state of a lost anchor.
LEMMA LostForever ==
  ASSUME IInv, Lost, [Next]_vars
  PROVE  Lost'
<1> USE DEF vars, file, history, Lost, Goto
<1>1. ASSUME NEW o \in Openers, Open(o)
      PROVE  Lost'
  <2>1. CASE ReadSchema(o)
    <3>1. dropped /\ table /\ columns \cap HashColumns # {}
      <4>1. "event_hash" \in AllColumns
        BY DEF AllColumns, Added
      <4> QED
        BY <4>1 DEF IInv, Schema, HashColumns
    <3> QED
      BY <3>1, <2>1 DEF ReadSchema, NoLocal, IInv, TypeOK
  <2>2. CASE CreateTables(o)
    BY <2>2 DEF CreateTables, IInv, TypeOK
  <2>3. CASE ReadColumns(o)
    BY <2>3 DEF ReadColumns, IInv, TypeOK
  <2>4. CASE AddColumn(o)
    <3>1. pc[o] = "alter" /\ UNCHANGED <<table, rows, anchor, history>> /\ TypeOK
      BY <2>4, ColumnStep DEF IInv
    <3>2. CASE pc' = pc
      <4>1. PICK c \in AllColumns : local' = [local EXCEPT ![o].known = @ \cup {c}]
        BY <3>1, <3>2, <2>4, ColumnStep DEF TypeOK
      <4> QED
        BY <3>1, <3>2, <4>1 DEF TypeOK
    <3>3. CASE pc' # pc
      <4>1. pc' = [pc EXCEPT ![o] = "failed"] /\ UNCHANGED <<columns, local>>
        BY <3>1, <3>3, <2>4, ColumnStep
      <4> QED
        BY <3>1, <4>1 DEF TypeOK
    <3> QED
      BY <3>2, <3>3
  <2>5. CASE ColumnsDone(o)
    BY <2>5 DEF ColumnsDone, IInv, TypeOK
  <2>6. CASE Migrate(o)
    BY <2>6 DEF Migrate, IInv, TypeOK
  <2>7. CASE CheckAnchor(o)
    BY <2>7 DEF CheckAnchor, IInv, TypeOK
  <2>8. CASE SyncCount(o)
    BY <2>8 DEF SyncCount, IInv, TypeOK
  <2>9. CASE SyncLast(o)
    BY <2>9 DEF SyncLast, IInv, TypeOK
  <2>10. CASE SyncWrite(o)
    BY <2>10 DEF SyncWrite, IInv, TypeOK
  <2> QED
    BY <1>1, <2>1, <2>2, <2>3, <2>4, <2>5, <2>6, <2>7, <2>8, <2>9, <2>10 DEF Open
<1>2. ASSUME NEW o \in Openers, AddAudit(o)
      PROVE  Lost'
  BY <1>2 DEF AddAudit, IInv, TypeOK
<1>3. ASSUME NEW o \in Openers, Interrupt(o)
      PROVE  Lost'
  BY <1>3 DEF Interrupt, IInv, TypeOK
<1>4. CASE DropAnchor
  BY <1>4 DEF DropAnchor
<1>5. CASE UNCHANGED vars
  BY <1>5 DEF vars
<1> QED
  BY <1>1, <1>2, <1>3, <1>4, <1>5 DEF Next

\* Once the anchor is removed and nobody is in the middle of opening, the file never
\* opens again: ProductStore refuses to build an anchor for a file that had one.
THEOREM LostIsRefused == Spec => LostStaysRefused
<1> DEFINE Closed == dropped /\ anchor = NoAnchor /\ \A o \in Openers : pc[o] = "closed"
           Shut == \A o \in Openers : pc[o] # "open"
<1>1. Closed => Lost
  BY DEF Lost
<1>2. Lost => Shut
  BY DEF Lost
<1>3. IInv /\ Lost /\ [Next]_vars => Lost'
  BY LostForever
<1> HIDE DEF Closed, Shut
<1>4. []IInv /\ [][Next]_vars => [](Closed => []Shut)
  BY <1>1, <1>2, <1>3, PTL
<1>5. Spec => [](Closed => []Shut)
  BY <1>4, Invariance, PTL DEF Spec
<1> QED
  BY <1>5 DEF LostStaysRefused, Closed, Shut
=============================================================================
