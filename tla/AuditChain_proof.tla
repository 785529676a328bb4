-------------------------- MODULE AuditChain_proof --------------------------
(***************************************************************************)
(* For every set of bodies and every collision-free hash: a verification   *)
(* that answers TRUE has read exactly the logged events, whatever is       *)
(* appended, edited or deleted while it runs.  No induction along the log  *)
(* is needed: an edit is caught at its own row, because that row's stored  *)
(* hash is still the honest one, and a deletion is caught by the anchor's  *)
(* count, because nothing is appended after it.                            *)
(***************************************************************************)
EXTENDS AuditChain, SequenceTheorems, TLAPS

\* Deleting a row leaves a shorter log.
LEMMA RemoveAtType ==
  ASSUME NEW S, NEW s \in Seq(S), NEW i \in 1..Len(s)
  PROVE  RemoveAt(s, i) \in Seq(S) /\ Len(RemoveAt(s, i)) = Len(s) - 1
  <1> DEFINE front == SubSeq(s, 1, i - 1)
             back == SubSeq(s, i + 1, Len(s))
  <1>1. front \in Seq(S) /\ Len(front) = i - 1
    BY SubSeqProperties
  <1>2. back \in Seq(S) /\ Len(back) = Len(s) - i
    BY SubSeqProperties
  <1>3. RemoveAt(s, i) = front \o back
    BY DEF RemoveAt
  <1> HIDE DEF front, back
  <1>4. front \o back \in Seq(S) /\ Len(front \o back) = Len(front) + Len(back)
    BY <1>1, <1>2, ConcatProperties
  <1>5. QED
    BY <1>1, <1>2, <1>3, <1>4, LenProperties

\* An edit keeps the two hashes of a row.
LEMMA EditedRow ==
  ASSUME NEW r \in Row, NEW b \in Bodies
  PROVE  LET edited == [r EXCEPT !["body"] = b]
         IN  edited \in Row /\ edited.prev = r.prev /\ edited.hash = r.hash
  BY DEF Row

LEMMA LastHashType ==
  ASSUME NEW log \in Seq(Row)
  PROVE  LastHash(log) \in Hashes
  <1>1. CASE log = <<>>
    BY <1>1, HashAssumption DEF LastHash
  <1>2. CASE log # <<>>
    <2>1. Len(log) \in 1..Len(log)
      BY <1>2, EmptySeq, LenProperties
    <2>2. log[Len(log)] \in Row
      BY <2>1, ElementOfSeq
    <2>3. QED
      BY <1>2, <2>2 DEF LastHash, Row
  <1>3. QED
    BY <1>1, <1>2

\* What appending an event does to a linked log.
LEMMA AppendLinked ==
  ASSUME NEW log \in Seq(Row), Linked(log), NEW b \in Bodies,
         NEW new, new = [body |-> b, prev |-> LastHash(log), hash |-> H(LastHash(log), b)]
  PROVE  /\ new \in Row
         /\ Append(log, new) \in Seq(Row)
         /\ Len(Append(log, new)) = Len(log) + 1
         /\ \A i \in 1..Len(log) : Append(log, new)[i] = log[i]
         /\ LastHash(Append(log, new)) = new.hash
         /\ Linked(Append(log, new))
  <1>1. new \in Row
    BY LastHashType, HashAssumption DEF Row
  <1>2. /\ Append(log, new) \in Seq(Row)
        /\ Len(Append(log, new)) = Len(log) + 1
        /\ \A i \in 1..Len(log) : Append(log, new)[i] = log[i]
        /\ Append(log, new)[Len(log) + 1] = new
        /\ Append(log, new) # <<>>
    BY <1>1, AppendProperties
  <1>3. LastHash(Append(log, new)) = new.hash
    BY <1>2 DEF LastHash
  <1>4. Linked(Append(log, new))
    <2>1. SUFFICES ASSUME NEW i \in 1..(Len(log) + 1)
                   PROVE  /\ Append(log, new)[i].prev =
                                IF i = 1 THEN Genesis ELSE Append(log, new)[i - 1].hash
                          /\ Append(log, new)[i].hash =
                                H(Append(log, new)[i].prev, Append(log, new)[i].body)
      BY <1>2 DEF Linked
    <2>2. CASE i \in 1..Len(log)
      BY <1>2, <2>2 DEF Linked
    <2>3. CASE i = Len(log) + 1
      BY <1>2, <2>3 DEF LastHash
    <2>4. QED
      BY <2>2, <2>3
  <1>5. QED
    BY <1>1, <1>2, <1>3, <1>4

\* A linked copy of the honest length is the honest log: the row at i hashes to
\* the honest hash under the honest predecessor, so its body is the honest one.
LEMMA LinkedEditIsHonest ==
  ASSUME honest \in Seq(Row), Linked(honest), NEW log \in Seq(Row), Linked(log),
         NEW n \in 0..Len(honest), Len(log) = n, EditOf(log, n), NEW i \in 1..n
  PROVE  log[i] = honest[i]
  <1>1. log[i] \in Row /\ honest[i] \in Row
    OBVIOUS
  <1>2. log[i].prev = honest[i].prev /\ log[i].hash = honest[i].hash
    BY DEF EditOf
  <1>3. H(honest[i].prev, log[i].body) = H(honest[i].prev, honest[i].body)
    BY <1>2 DEF Linked
  <1>4. log[i].body = honest[i].body
    BY <1>1, <1>3, HashAssumption DEF Row
  <1>5. QED
    BY <1>1, <1>2, <1>4 DEF Row

LEMMA InitInv == Init => Inv
  BY HashAssumption DEF Init, Inv, TypeOK, Linked, EditOf, LastHash

\* The part of the invariant a verifier's own steps disturb, for the others.
LEMMA LogStep ==
  ASSUME Inv, NEW b \in Bodies, AddAudit(b) PROVE Inv'
  <1> DEFINE new == [body |-> b, prev |-> LastHash(rows), hash |-> H(LastHash(rows), b)]
  <1>1. /\ rows \in Seq(Row) /\ honest \in Seq(Row) /\ Linked(honest)
        /\ anchor = [count |-> Len(honest), last |-> LastHash(honest)]
        /\ EditOf(rows, Len(honest))
    BY DEF Inv, TypeOK
  <1>2. /\ Len(rows) = Len(honest) /\ LastHash(rows) = LastHash(honest)
        /\ rows' = Append(rows, new) /\ honest' = Append(honest, new)
        /\ anchor' = [count |-> Len(rows) + 1, last |-> new.hash]
        /\ UNCHANGED verification
    BY <1>1 DEF AddAudit, Consistent
  <1>3. /\ new \in Row
        /\ honest' \in Seq(Row) /\ Len(honest') = Len(honest) + 1
        /\ \A i \in 1..Len(honest) : honest'[i] = honest[i]
        /\ LastHash(honest)' = new.hash /\ Linked(honest)'
    <2>1. new = [body |-> b, prev |-> LastHash(honest), hash |-> H(LastHash(honest), b)]
      BY <1>2
    <2> HIDE DEF new
    <2>2. /\ new \in Row
          /\ Append(honest, new) \in Seq(Row) /\ Len(Append(honest, new)) = Len(honest) + 1
          /\ \A i \in 1..Len(honest) : Append(honest, new)[i] = honest[i]
          /\ LastHash(Append(honest, new)) = new.hash /\ Linked(Append(honest, new))
      BY <1>1, <2>1, AppendLinked
    <2>3. honest' = Append(honest, new)
      BY <1>2
    <2>4. LastHash(honest)' = new.hash
      BY <2>2, <2>3 DEF LastHash
    <2>5. Linked(honest)'
      BY <2>2, <2>3 DEF Linked
    <2>6. QED
      BY <2>2, <2>3, <2>4, <2>5
  <1> HIDE DEF new
  <1>4. /\ rows' \in Seq(Row) /\ Len(rows') = Len(rows) + 1
        /\ \A i \in 1..Len(rows) : rows'[i] = rows[i]
        /\ rows'[Len(rows) + 1] = new /\ honest'[Len(honest) + 1] = new
    BY <1>1, <1>2, <1>3, AppendProperties
  <1>5. Len(honest) \in Nat /\ Len(rows) \in Nat
    BY <1>1, LenProperties
  <1>6. EditOf(rows, Len(honest))'
    BY <1>1, <1>2, <1>3, <1>4, <1>5 DEF EditOf
  <1>7. ASSUME NEW log \in Seq(Row), NEW n \in Nat, n <= Len(honest), EditOf(log, n)
        PROVE  /\ Len(log) <= n
               /\ Len(log) = n => \A i \in 1..n : /\ log[i].prev = honest'[i].prev
                                                  /\ log[i].hash = honest'[i].hash
    BY <1>3, <1>5, <1>7 DEF EditOf
  <1>8. ASSUME NEW v \in Verifiers
        PROVE  (/\ began[v] <= Len(honest) /\ ended[v] <= Len(honest)
                /\ pc[v] # "idle" => EditOf(seen[v], began[v])
                /\ pc[v] = "answered" => began[v] <= ended[v]
                /\ verdict[v] => /\ pc[v] = "answered"
                                 /\ Len(seen[v]) = ended[v]
                                 /\ Linked(seen[v]))'
    <2>1. UNCHANGED <<pc, seen, began, ended, verdict>>
      BY <1>2 DEF verification
    <2>2. seen[v] \in Seq(Row) /\ began[v] \in Nat /\ ended[v] \in Nat
      BY DEF Inv, TypeOK
    <2>3. pc[v] # "idle" => EditOf(seen[v], began[v])'
      BY <1>7, <2>1, <2>2 DEF Inv, EditOf
    <2>4. /\ began[v] <= Len(honest) /\ ended[v] <= Len(honest)
          /\ pc[v] = "answered" => began[v] <= ended[v]
          /\ verdict[v] => /\ pc[v] = "answered"
                           /\ Len(seen[v]) = ended[v]
                           /\ Linked(seen[v])
      BY DEF Inv
    <2>5. Len(honest') = Len(honest) + 1
      BY <1>3
    <2>6. began[v] <= Len(honest') /\ ended[v] <= Len(honest')
      BY <1>5, <2>2, <2>4, <2>5
    <2>7. QED
      BY <2>1, <2>3, <2>4, <2>6 DEF Linked
  <1>9. TypeOK'
    <2>1. anchor' \in [count : Nat, last : Hashes]
      BY <1>2, <1>3, <1>5 DEF Row
    <2>2. QED
      BY <1>2, <1>3, <1>4, <2>1 DEF Inv, TypeOK, verification
  <1>10. anchor' = [count |-> Len(honest'), last |-> LastHash(honest)']
    BY <1>2, <1>3
  <1>11. QED
    BY <1>3, <1>6, <1>8, <1>9, <1>10 DEF Inv, LastHash

LEMMA TamperStep == ASSUME Inv, Tamper PROVE Inv'
  <1>1. /\ rows \in Seq(Row) /\ honest \in Seq(Row) /\ Len(honest) \in Nat
        /\ Len(rows) \in Nat /\ EditOf(rows, Len(honest))
    BY LenProperties DEF Inv, TypeOK
  <1>2. UNCHANGED <<anchor, honest, verification>>
    BY DEF Tamper, EditRow, DeleteRow
  <1>3. rows' \in Seq(Row) /\ EditOf(rows', Len(honest))
    <2>1. ASSUME NEW i \in 1..Len(rows), NEW b \in Bodies, EditRow(i, b)
          PROVE  rows' \in Seq(Row) /\ EditOf(rows', Len(honest))
      <3>1. [rows[i] EXCEPT !["body"] = b] \in Row
            /\ [rows[i] EXCEPT !["body"] = b].prev = rows[i].prev
            /\ [rows[i] EXCEPT !["body"] = b].hash = rows[i].hash
        BY <1>1, ElementOfSeq, EditedRow
      <3>2. rows' = [rows EXCEPT ![i] = [rows[i] EXCEPT !["body"] = b]]
        BY <2>1 DEF EditRow
      <3>3. /\ rows' \in Seq(Row) /\ Len(rows') = Len(rows)
            /\ \A j \in 1..Len(rows) :
                   rows'[j] = IF j = i THEN [rows[i] EXCEPT !["body"] = b] ELSE rows[j]
        BY <1>1, <3>1, <3>2, ExceptSeq
      <3>4. QED
        BY <1>1, <3>1, <3>3 DEF EditOf
    <2>2. ASSUME NEW i \in 1..Len(rows), DeleteRow(i)
          PROVE  rows' \in Seq(Row) /\ EditOf(rows', Len(honest))
      <3>1. rows' \in Seq(Row) /\ Len(rows') = Len(rows) - 1
        BY <1>1, <2>2, RemoveAtType DEF DeleteRow
      <3>2. Len(rows') < Len(honest)
        BY <1>1, <3>1 DEF EditOf
      <3>3. QED
        BY <1>1, <3>1, <3>2 DEF EditOf
    <2>3. QED
      BY <2>1, <2>2 DEF Tamper
  <1>4. QED
    BY <1>2, <1>3 DEF Inv, TypeOK, verification, EditOf, Linked, LastHash

LEMMA VerifierStep ==
  ASSUME Inv, NEW w \in Verifiers, VerifyRows(w) \/ VerifyAnchor(w) \/ VerifyDone(w)
  PROVE  Inv'
  <1>1. UNCHANGED <<rows, anchor, honest>>
    BY DEF VerifyRows, VerifyAnchor, VerifyDone
  <1>2. Len(honest) \in Nat
    BY LenProperties DEF Inv, TypeOK
  <1>3. TypeOK'
    <2>1. CASE VerifyRows(w)
      BY <1>2, <2>1 DEF VerifyRows, Inv, TypeOK
    <2>2. CASE VerifyAnchor(w)
      <3> DEFINE answer == /\ anchor.count = Len(seen[w])
                           /\ Linked(seen[w])
                           /\ anchor.last = LastHash(seen[w])
      <3>1. verdict' = [verdict EXCEPT ![w] = answer] /\ answer \in BOOLEAN
        BY <2>2 DEF VerifyAnchor
      <3> HIDE DEF answer
      <3>2. verdict' \in [Verifiers -> BOOLEAN]
        BY <3>1 DEF Inv, TypeOK
      <3>3. QED
        BY <1>2, <2>2, <3>2 DEF VerifyAnchor, Inv, TypeOK
    <2>3. CASE VerifyDone(w)
      <3>1. <<>> \in Seq(Row)
        OBVIOUS
      <3>2. QED
        BY <2>3, <3>1 DEF VerifyDone, Inv, TypeOK
    <2>4. QED
      BY <2>1, <2>2, <2>3
  <1>4. ASSUME NEW v \in Verifiers
        PROVE  (/\ began[v] <= Len(honest) /\ ended[v] <= Len(honest)
                /\ pc[v] # "idle" => EditOf(seen[v], began[v])
                /\ pc[v] = "answered" => began[v] <= ended[v]
                /\ verdict[v] => /\ pc[v] = "answered"
                                 /\ Len(seen[v]) = ended[v]
                                 /\ Linked(seen[v]))'
    <2>1. /\ began[v] <= Len(honest) /\ ended[v] <= Len(honest)
          /\ pc[v] # "idle" => EditOf(seen[v], began[v])
          /\ pc[v] = "answered" => began[v] <= ended[v]
          /\ verdict[v] => /\ pc[v] = "answered" /\ Len(seen[v]) = ended[v]
                           /\ Linked(seen[v])
          /\ EditOf(rows, Len(honest)) /\ anchor.count = Len(honest)
      BY DEF Inv
    <2>2. CASE v # w
      <3>1. /\ pc'[v] = pc[v] /\ seen'[v] = seen[v] /\ began'[v] = began[v]
            /\ ended'[v] = ended[v] /\ verdict'[v] = verdict[v]
        BY <2>2 DEF VerifyRows, VerifyAnchor, VerifyDone, Inv, TypeOK
      <3>2. QED
        BY <1>1, <2>1, <3>1 DEF EditOf, Linked
    <2>3. CASE v = w /\ VerifyRows(w)
      <3>1. /\ pc'[v] = "read" /\ seen'[v] = rows /\ began'[v] = Len(honest)
            /\ ended'[v] = ended[v] /\ verdict'[v] = verdict[v] /\ pc[v] = "idle"
        BY <2>3 DEF VerifyRows, Inv, TypeOK
      <3>2. QED
        BY <1>1, <1>2, <2>1, <3>1 DEF EditOf
    <2>4. CASE v = w /\ VerifyAnchor(w)
      <3>1. /\ pc'[v] = "answered" /\ seen'[v] = seen[v] /\ began'[v] = began[v]
            /\ ended'[v] = Len(honest) /\ pc[v] = "read"
            /\ verdict'[v] => anchor.count = Len(seen[v]) /\ Linked(seen[v])
        BY <2>4 DEF VerifyAnchor, Inv, TypeOK
      <3>2. QED
        BY <1>1, <1>2, <2>1, <3>1 DEF EditOf, Linked
    <2>5. CASE v = w /\ VerifyDone(w)
      <3>1. /\ pc'[v] = "idle" /\ began'[v] = 0 /\ ended'[v] = 0 /\ ~verdict'[v]
        BY <2>5 DEF VerifyDone, Inv, TypeOK
      <3>2. QED
        BY <1>1, <1>2, <3>1
    <2>6. QED
      BY <2>2, <2>3, <2>4, <2>5
  <1>5. /\ Linked(honest)' /\ EditOf(rows, Len(honest))'
        /\ (anchor = [count |-> Len(honest), last |-> LastHash(honest)])'
    BY <1>1 DEF Inv, Linked, EditOf, LastHash
  <1>6. QED
    BY <1>3, <1>4, <1>5 DEF Inv

\* The honest log is linked, the anchor describes it, and the stored rows are
\* an edit of it or too short, in every state.
THEOREM Inductive == Spec => []Inv
  <1>1. Init => Inv
    BY InitInv
  <1>2. Inv /\ [Next]_vars => Inv'
    <2>1. CASE UNCHANGED vars
      BY <2>1 DEF vars, Inv, TypeOK, Linked, EditOf, LastHash
    <2>2. QED
      BY <2>1, LogStep, VerifierStep, TamperStep DEF Next, Serve
  <1>3. QED
    BY <1>1, <1>2, PTL DEF Spec

\* What verify_audit_chain is for: TRUE means that exactly the logged events
\* were read.
THEOREM Soundness == Spec => []TrueMeansHonest
  <1>1. Inv => TrueMeansHonest
    <2>1. SUFFICES ASSUME Inv, NEW v \in Verifiers, verdict[v]
                   PROVE  /\ Len(seen[v]) = ended[v]
                          /\ \A i \in 1..ended[v] : seen[v][i] = honest[i]
      BY DEF TrueMeansHonest
    <2>2. /\ pc[v] = "answered" /\ Len(seen[v]) = ended[v] /\ Linked(seen[v])
          /\ EditOf(seen[v], began[v]) /\ began[v] <= ended[v] /\ ended[v] <= Len(honest)
          /\ seen[v] \in Seq(Row) /\ honest \in Seq(Row) /\ Linked(honest)
          /\ began[v] \in Nat /\ ended[v] \in Nat /\ Len(honest) \in Nat
      BY <2>1, LenProperties DEF Inv, TypeOK
    <2>3. began[v] = ended[v] /\ began[v] \in 0..Len(honest) /\ Len(seen[v]) = began[v]
      BY <2>2 DEF EditOf
    <2>4. \A i \in 1..began[v] : seen[v][i] = honest[i]
      BY <2>2, <2>3, LinkedEditIsHonest
    <2>5. QED
      BY <2>2, <2>3, <2>4
  <1>2. QED
    BY <1>1, Inductive, PTL

\* A deletion ends the log: it cannot be covered up by later events.
THEOREM DeletionIsFinal == Spec => DeletionStopsLog
  <1>1. Inv /\ [Next]_vars => [Len(rows) < Len(honest) => honest' = honest]_vars
    <2>1. SUFFICES ASSUME Inv, Next, Len(rows) < Len(honest) PROVE honest' = honest
      OBVIOUS
    <2>2. ASSUME NEW b \in Bodies PROVE ~AddAudit(b)
      <3>1. anchor.count = Len(honest) /\ Len(rows) \in Nat /\ Len(honest) \in Nat
        BY <2>1, LenProperties DEF Inv, TypeOK
      <3>2. QED
        BY <2>1, <3>1 DEF AddAudit, Consistent
    <2>3. QED
      BY <2>1, <2>2 DEF Next, Serve, Tamper, VerifyRows, VerifyAnchor, VerifyDone, EditRow,
         DeleteRow
  <1>2. QED
    BY <1>1, Inductive, PTL DEF Spec, DeletionStopsLog

\* A FALSE has a cause: the rows read were not the log as written, or an event
\* was appended between the two reads.
THEOREM FalseHasACause == Spec => []QuietAnswerTrue
  <1>1. Init => QuietAnswerTrue
    BY DEF Init, QuietAnswerTrue
  <1>2. Inv /\ QuietAnswerTrue /\ [Next]_vars => QuietAnswerTrue'
    <2>1. SUFFICES ASSUME Inv, QuietAnswerTrue, [Next]_vars, NEW v \in Verifiers,
                          pc'[v] = "answered", began'[v] = ended'[v],
                          seen'[v] = SubSeq(honest', 1, began'[v])
                   PROVE  verdict'[v]
      BY DEF QuietAnswerTrue
    <2>2. honest \in Seq(Row) /\ Len(honest) \in Nat /\ began[v] \in Nat
          /\ began[v] <= Len(honest)
      BY <2>1, LenProperties DEF Inv, TypeOK
    <2>3. CASE verification' = verification
      <3>1. pc[v] = "answered" /\ began[v] = ended[v] /\ verdict'[v] = verdict[v]
            /\ seen[v] = SubSeq(honest', 1, began[v])
        BY <2>1, <2>3 DEF verification
      <3>2. SubSeq(honest', 1, began[v]) = SubSeq(honest, 1, began[v])
        <4>1. CASE honest' = honest
          BY <4>1
        <4>2. CASE \E b \in Bodies : AddAudit(b)
          <5>1. PICK b \in Bodies : AddAudit(b)
            BY <4>2
          <5>2. DEFINE new == [body |-> b, prev |-> LastHash(rows), hash |-> H(LastHash(rows), b)]
          <5>3. honest' = Append(honest, new) /\ new \in Row
            BY <2>1, <5>1, HashAssumption, LastHashType DEF AddAudit, Inv, TypeOK, Row
          <5>4. \A i \in 1..began[v] : Append(honest, new)[i] = honest[i]
            BY <2>2
          <5>5. QED
            BY <2>2, <5>3, <5>4
        <4>3. QED
          BY <2>1, <2>3, <4>1, <4>2
          DEF Next, Serve, Tamper, VerifyRows, VerifyAnchor, VerifyDone, EditRow, DeleteRow, vars
      <3>3. QED
        BY <2>1, <3>1, <3>2 DEF QuietAnswerTrue
    <2>4. CASE verification' # verification
      <3>1. PICK w \in Verifiers : VerifyRows(w) \/ VerifyAnchor(w) \/ VerifyDone(w)
        BY <2>1, <2>4 DEF Next, Serve, Tamper, AddAudit, EditRow, DeleteRow, vars, verification
      <3>2. honest' = honest
        BY <3>1 DEF VerifyRows, VerifyAnchor, VerifyDone
      <3>3. CASE w # v \/ ~VerifyAnchor(w)
        <4>1. /\ pc[v] = "answered" /\ seen'[v] = seen[v] /\ began'[v] = began[v]
              /\ ended'[v] = ended[v] /\ verdict'[v] = verdict[v]
          BY <2>1, <3>1, <3>3 DEF VerifyRows, VerifyAnchor, VerifyDone, Inv, TypeOK
        <4>2. QED
          BY <2>1, <3>2, <4>1 DEF QuietAnswerTrue
      <3>4. CASE w = v /\ VerifyAnchor(w)
        <4>1. /\ seen'[v] = seen[v] /\ began'[v] = began[v] /\ ended'[v] = Len(honest)
              /\ verdict'[v] = (/\ anchor.count = Len(seen[v])
                               /\ Linked(seen[v])
                               /\ anchor.last = LastHash(seen[v]))
          BY <2>1, <3>4 DEF VerifyAnchor, Inv, TypeOK
        <4>2. seen[v] = honest
          <5>1. seen[v] = SubSeq(honest, 1, Len(honest))
            BY <2>1, <3>2, <4>1
          <5>2. QED
            BY <2>2, <5>1
        <4>3. QED
          BY <2>1, <4>1, <4>2 DEF Inv
      <3>5. QED
        BY <3>3, <3>4
    <2>5. QED
      BY <2>3, <2>4
  <1>3. QED
    BY <1>1, <1>2, Inductive, PTL DEF Spec
-----------------------------------------------------------------------------
\* The log of a file that nobody touches

\* The stored log is the log as written, and verifiers have read what was there.
AsWritten ==
    /\ rows = honest
    /\ \A v \in Verifiers : pc[v] # "idle" => seen[v] = SubSeq(honest, 1, began[v])

\* The answer tells whether an event was appended between the two reads, and no more.
VerdictExact ==
    \A v \in Verifiers : pc[v] = "answered" => (verdict[v] <=> began[v] = ended[v])

LEMMA UntouchedIsSpec == UntouchedSpec => Spec
  <1>1. [Serve]_vars => [Next]_vars
    BY DEF Next
  <1>2. QED
    BY <1>1, PTL DEF UntouchedSpec, Spec

LEMMA AppendKeepsPrefix ==
  ASSUME NEW log \in Seq(Row), NEW new \in Row, NEW n \in 0..Len(log)
  PROVE  SubSeq(Append(log, new), 1, n) = SubSeq(log, 1, n)
  <1>1. \A i \in 1..n : Append(log, new)[i] = log[i]
    OBVIOUS
  <1>2. QED
    BY <1>1

LEMMA ServeAsWritten == ASSUME Inv, AsWritten, [Serve]_vars PROVE AsWritten'
  <1>1. honest \in Seq(Row) /\ Len(honest) \in Nat /\ SubSeq(honest, 1, Len(honest)) = honest
    BY LenProperties DEF Inv, TypeOK
  <1>2. CASE UNCHANGED vars
    BY <1>2 DEF vars, AsWritten
  <1>3. ASSUME NEW b \in Bodies, AddAudit(b) PROVE AsWritten'
    <2> DEFINE new == [body |-> b, prev |-> LastHash(rows), hash |-> H(LastHash(rows), b)]
    <2>1. /\ rows' = Append(rows, new) /\ honest' = Append(honest, new)
          /\ UNCHANGED verification
      BY <1>3 DEF AddAudit
    <2>2. new \in Row
      BY HashAssumption, LastHashType DEF Inv, TypeOK, Row
    <2> HIDE DEF new
    <2>3. ASSUME NEW v \in Verifiers, pc[v] # "idle"
          PROVE  seen[v] = SubSeq(honest', 1, began[v])
      <3>1. began[v] \in 0..Len(honest)
        BY <1>1 DEF Inv, TypeOK
      <3>2. SubSeq(Append(honest, new), 1, began[v]) = SubSeq(honest, 1, began[v])
        BY <1>1, <2>2, <3>1, AppendKeepsPrefix
      <3>3. QED
        BY <2>1, <2>3, <3>2 DEF AsWritten
    <2>4. QED
      BY <2>1, <2>3 DEF AsWritten, verification
  <1>4. ASSUME NEW w \in Verifiers, VerifyRows(w) \/ VerifyAnchor(w) \/ VerifyDone(w)
        PROVE  AsWritten'
    BY <1>1, <1>4 DEF AsWritten, Inv, TypeOK, VerifyRows, VerifyAnchor, VerifyDone
  <1>5. QED
    BY <1>2, <1>3, <1>4 DEF Serve

LEMMA AlwaysAsWritten == UntouchedSpec => []AsWritten
  <1>1. Init => AsWritten
    BY DEF Init, AsWritten
  <1>2. QED
    BY <1>1, ServeAsWritten, UntouchedIsSpec, Inductive, PTL DEF UntouchedSpec

\* add_audit's check of the stored state never refuses an event of the program itself:
\* the RuntimeError it raises means that the file was touched.
THEOREM NeverRefused == UntouchedSpec => []Consistent
  <1>1. Inv /\ AsWritten => Consistent
    BY DEF Inv, AsWritten, Consistent
  <1>2. QED
    BY <1>1, AlwaysAsWritten, UntouchedIsSpec, Inductive, PTL

\* On a file that nobody touches verify_audit_chain answers FALSE exactly when an event
\* was appended between its two SELECTs.
THEOREM FalseIsAnAppend == UntouchedSpec => []VerdictExact
  <1>1. Inv /\ AsWritten /\ TrueMeansHonest /\ QuietAnswerTrue => VerdictExact
    <2>1. SUFFICES ASSUME Inv, AsWritten, TrueMeansHonest, QuietAnswerTrue,
                          NEW v \in Verifiers, pc[v] = "answered"
                   PROVE  verdict[v] <=> began[v] = ended[v]
      BY DEF VerdictExact
    <2>2. seen[v] = SubSeq(honest, 1, began[v])
      BY <2>1 DEF AsWritten
    <2>3. Len(seen[v]) = began[v]
      <3>1. honest \in Seq(Row) /\ began[v] \in 0..Len(honest)
        BY <2>1, LenProperties DEF Inv, TypeOK
      <3>2. QED
        BY <2>2, <3>1
    <2>4. ASSUME verdict[v] PROVE began[v] = ended[v]
      BY <2>1, <2>3, <2>4 DEF TrueMeansHonest
    <2>5. ASSUME began[v] = ended[v] PROVE verdict[v]
      BY <2>1, <2>2, <2>5 DEF QuietAnswerTrue
    <2>6. QED
      BY <2>4, <2>5, Zenon DEF Inv, TypeOK
  <1>2. QED
    BY <1>1, AlwaysAsWritten, Soundness, FalseHasACause, UntouchedIsSpec, Inductive, PTL

-----------------------------------------------------------------------------
\* The log that nobody can reach

LEMMA BodiesType ==
  ASSUME NEW log \in Seq(Row)
  PROVE  /\ BodiesOf(log) \in Seq(Bodies) /\ Len(BodiesOf(log)) = Len(log)
         /\ \A i \in 1..Len(log) : BodiesOf(log)[i] = log[i].body
  <1>1. ASSUME NEW i \in 1..Len(log) PROVE log[i].body \in Bodies
    <2>1. log[i] \in Row
      BY ElementOfSeq
    <2>2. QED
      BY <2>1 DEF Row
  <1>2. DOMAIN log = 1..Len(log) /\ Len(log) \in Nat
    BY LenProperties
  <1>3. BodiesOf(log) = [i \in 1..Len(log) |-> log[i].body]
    BY <1>2 DEF BodiesOf
  <1>4. QED
    BY <1>1, <1>2, <1>3

LEMMA BodiesAppend ==
  ASSUME NEW log \in Seq(Row), NEW r \in Row
  PROVE  BodiesOf(Append(log, r)) = Append(BodiesOf(log), r.body)
  <1>1. /\ Append(log, r) \in Seq(Row) /\ Len(Append(log, r)) = Len(log) + 1
        /\ \A i \in 1..Len(log) : Append(log, r)[i] = log[i]
        /\ Append(log, r)[Len(log) + 1] = r
    BY AppendProperties
  <1>2. BodiesOf(log) \in Seq(Bodies) /\ r.body \in Bodies /\ Len(log) \in Nat
    BY BodiesType, LenProperties DEF Row
  <1>3. /\ BodiesOf(Append(log, r)) \in Seq(Bodies)
        /\ Len(BodiesOf(Append(log, r))) = Len(log) + 1
        /\ \A i \in 1..(Len(log) + 1) : BodiesOf(Append(log, r))[i] = Append(log, r)[i].body
    BY <1>1, BodiesType
  <1>4. /\ Append(BodiesOf(log), r.body) \in Seq(Bodies)
        /\ Len(Append(BodiesOf(log), r.body)) = Len(log) + 1
        /\ \A i \in 1..Len(log) : Append(BodiesOf(log), r.body)[i] = log[i].body
        /\ Append(BodiesOf(log), r.body)[Len(log) + 1] = r.body
    BY <1>2, AppendProperties, BodiesType
  <1>5. \A i \in 1..(Len(log) + 1) : BodiesOf(Append(log, r))[i] = Append(BodiesOf(log), r.body)[i]
    BY <1>1, <1>2, <1>3, <1>4
  <1>6. QED
    BY <1>2, <1>3, <1>4, <1>5, SeqEqual

\* An edit of the log that has its bodies is the log.
LEMMA SameBodies ==
  ASSUME Inv, BodiesOf(rows) = BodiesOf(honest)
  PROVE  rows = honest
  <1>1. /\ rows \in Seq(Row) /\ honest \in Seq(Row) /\ EditOf(rows, Len(honest))
        /\ Len(honest) \in Nat
    BY LenProperties DEF Inv, TypeOK
  <1>2. Len(rows) = Len(honest)
    BY <1>1, BodiesType
  <1>3. ASSUME NEW i \in 1..Len(honest) PROVE rows[i] = honest[i]
    <2>1. rows[i] \in Row /\ honest[i] \in Row
      BY <1>1, <1>2, ElementOfSeq
    <2>2. rows[i].body = honest[i].body
      BY <1>1, <1>2, BodiesType
    <2>3. rows[i].prev = honest[i].prev /\ rows[i].hash = honest[i].hash
      BY <1>1, <1>2 DEF EditOf
    <2>4. QED
      BY <2>1, <2>2, <2>3 DEF Row
  <1>4. QED
    BY <1>1, <1>2, <1>3, SeqEqual


\* A verifier without a call has read nothing.
IdleCalls == \A v \in Verifiers : pc[v] = "idle" => began[v] = 0

\* What the refinement needs to know of a state.
AbstractInv == Inv /\ IdleCalls /\ TrueMeansHonest /\ QuietAnswerTrue

LEMMA IdleCallsStep == ASSUME Inv, IdleCalls, [Next]_vars PROVE IdleCalls'
  <1>1. CASE UNCHANGED <<pc, began>>
    BY <1>1 DEF IdleCalls
  <1>2. ASSUME NEW v \in Verifiers, VerifyRows(v) \/ VerifyAnchor(v) \/ VerifyDone(v)
        PROVE  IdleCalls'
    BY <1>2 DEF IdleCalls, Inv, TypeOK, VerifyRows, VerifyAnchor, VerifyDone
  <1>3. QED
    BY <1>1, <1>2 DEF Next, Serve, Tamper, AddAudit, EditRow, DeleteRow, vars, verification

LEMMA AlwaysAbstractInv == Spec => []AbstractInv
  <1>1. Init => IdleCalls
    BY DEF Init, IdleCalls
  <1>2. Spec => []IdleCalls
    BY <1>1, IdleCallsStep, Inductive, PTL DEF Spec
  <1>3. QED
    BY <1>2, Inductive, Soundness, FalseHasACause, PTL DEF AbstractInv

\* What the mapping makes of a verification.
LEMMA CallOf ==
  ASSUME NEW v \in Verifiers
  PROVE  Calls[v] = [stage |-> pc[v],
                     equal |-> pc[v] # "idle" /\ seen[v] = SubSeq(honest, 1, began[v]),
                     length |-> began[v], verdict |-> verdict[v]]
  BY DEF Calls

LEMMA HonestLength ==
  ASSUME Inv
  PROVE  /\ honest \in Seq(Row) /\ Len(honest) \in Nat
         /\ SubSeq(honest, 1, Len(honest)) = honest
         /\ Len(BodiesOf(honest)) = Len(honest)
         /\ \A n \in 0..Len(honest) : Len(SubSeq(honest, 1, n)) = n
  <1>1. honest \in Seq(Row) /\ Len(honest) \in Nat
    BY LenProperties DEF Inv, TypeOK
  <1>2. QED
    BY <1>1, BodiesType

LEMMA AppendRefines ==
  ASSUME AbstractInv, NEW b \in Bodies, AddAudit(b) PROVE Abstract!Write(b)
  <1> DEFINE new == [body |-> b, prev |-> LastHash(rows), hash |-> H(LastHash(rows), b)]
  <1>1. /\ rows \in Seq(Row) /\ honest \in Seq(Row) /\ Len(honest) \in Nat
        /\ Len(rows) = Len(honest) /\ Len(honest) < MaxEvents
        /\ rows' = Append(rows, new) /\ honest' = Append(honest, new)
        /\ UNCHANGED verification
    BY HonestLength DEF AbstractInv, Inv, TypeOK, AddAudit, Consistent
  <1>2. new \in Row /\ new.body = b
    BY <1>1, HashAssumption, LastHashType DEF Row
  <1> HIDE DEF new
  <1>3. /\ BodiesOf(rows)' = Append(BodiesOf(rows), b)
        /\ BodiesOf(honest)' = Append(BodiesOf(honest), b)
    <2>1. BodiesOf(rows') = Append(BodiesOf(rows), b)
      BY <1>1, <1>2, BodiesAppend
    <2>2. BodiesOf(honest') = Append(BodiesOf(honest), b)
      BY <1>1, <1>2, BodiesAppend
    <2>3. QED
      BY <2>1, <2>2 DEF BodiesOf
  <1>4. Len(BodiesOf(rows)) = Len(BodiesOf(honest)) /\ Len(BodiesOf(honest)) < MaxEvents
    BY <1>1, BodiesType
  <1>5. Calls' = Calls
    <2>1. ASSUME NEW v \in Verifiers
          PROVE  SubSeq(honest', 1, began[v]) = SubSeq(honest, 1, began[v])
      <3>1. began[v] \in 0..Len(honest)
        BY <1>1 DEF AbstractInv, Inv, TypeOK
      <3>2. QED
        BY <1>1, <1>2, <3>1, AppendKeepsPrefix
    <2>2. QED
      BY <1>1, <2>1 DEF Calls, verification
  <1>6. QED
    BY <1>3, <1>4, <1>5 DEF Abstract!Write

LEMMA TamperRefines ==
  ASSUME AbstractInv, Inv', Tamper PROVE Abstract!Tamper
  <1>1. UNCHANGED <<anchor, honest, verification>>
    BY DEF Tamper, EditRow, DeleteRow
  <1>2. rows \in Seq(Row) /\ rows' \in Seq(Row) /\ Len(rows) \in Nat
    BY LenProperties DEF AbstractInv, Inv, TypeOK
  <1>3. Len(rows') <= Len(rows)
    <2>1. ASSUME NEW i \in 1..Len(rows), DeleteRow(i) PROVE Len(rows') <= Len(rows)
      BY <1>2, <2>1, RemoveAtType DEF DeleteRow
    <2>2. ASSUME NEW i \in 1..Len(rows), NEW b \in Bodies, EditRow(i, b)
          PROVE  Len(rows') <= Len(rows)
      BY <1>2, <2>2 DEF EditRow
    <2>3. QED
      BY <2>1, <2>2 DEF Tamper
  <1>4. BodiesOf(rows') \in Seq(Bodies) /\ Len(BodiesOf(rows')) <= Len(BodiesOf(rows))
    BY <1>2, <1>3, BodiesType
  <1>5. BodiesOf(rows)' = BodiesOf(rows') /\ BodiesOf(honest)' = BodiesOf(honest)
    BY <1>1 DEF BodiesOf
  <1>6. Calls' = Calls
    BY <1>1 DEF Calls, verification
  <1>7. QED
    BY <1>4, <1>5, <1>6 DEF Abstract!Tamper

\* At the first SELECT the stored bodies are the written ones exactly when the rows are
\* the honest rows: nobody can change a hash so that nothing shows.
LEMMA LookRefines ==
  ASSUME AbstractInv, NEW v \in Verifiers, VerifyRows(v) PROVE Abstract!Look(v)
  <1>1. /\ pc[v] = "idle" /\ pc' = [pc EXCEPT ![v] = "read"]
        /\ seen' = [seen EXCEPT ![v] = rows] /\ began' = [began EXCEPT ![v] = Len(honest)]
        /\ rows' = rows /\ honest' = honest /\ verdict' = verdict
    BY DEF VerifyRows
  <1>2. began[v] = 0 /\ verdict[v] = FALSE
    BY <1>1 DEF AbstractInv, IdleCalls, Inv, TypeOK
  <1>3. Calls[v] = Abstract!NoCall
    BY <1>1, <1>2 DEF Calls, Abstract!NoCall
  <1>4. rows = honest <=> BodiesOf(rows) = BodiesOf(honest)
    BY SameBodies DEF AbstractInv
  <1>5. SubSeq(honest, 1, Len(honest)) = honest /\ Len(BodiesOf(honest)) = Len(honest)
    BY HonestLength DEF AbstractInv
  <1>6. /\ pc'[v] = "read" /\ seen'[v] = rows /\ began'[v] = Len(honest)
        /\ \A w \in Verifiers \ {v} : /\ pc'[w] = pc[w] /\ seen'[w] = seen[w]
                                     /\ began'[w] = began[w]
    BY <1>1 DEF AbstractInv, Inv, TypeOK
  <1>7. (rows = SubSeq(honest, 1, Len(honest))) = (BodiesOf(rows) = BodiesOf(honest))
    BY <1>4, <1>5
  <1>8. Calls' = [Calls EXCEPT ![v] =
                    [stage |-> "read", equal |-> BodiesOf(rows) = BodiesOf(honest),
                     length |-> Len(BodiesOf(honest)), verdict |-> FALSE]]
    <2>1. (pc'[v] # "idle" /\ seen'[v] = SubSeq(honest', 1, began'[v]))
            = (BodiesOf(rows) = BodiesOf(honest))
      BY <1>1, <1>6, <1>7
    <2>2. Calls'[v] = [stage |-> "read", equal |-> BodiesOf(rows) = BodiesOf(honest),
                       length |-> Len(BodiesOf(honest)), verdict |-> FALSE]
      <3>1. Calls'[v] = [stage |-> pc'[v],
                         equal |-> pc'[v] # "idle" /\ seen'[v] = SubSeq(honest', 1, began'[v]),
                         length |-> began'[v], verdict |-> verdict'[v]]
        BY DEF Calls
      <3>2. /\ pc'[v] = "read" /\ began'[v] = Len(BodiesOf(honest)) /\ verdict'[v] = FALSE
        BY <1>1, <1>2, <1>5, <1>6
      <3>3. QED
        BY <2>1, <3>1, <3>2
    <2>3. \A w \in Verifiers \ {v} : Calls'[w] = Calls[w]
      BY <1>1, <1>6 DEF Calls
    <2>4. Calls' = [w \in Verifiers |-> Calls'[w]] /\ Calls = [w \in Verifiers |-> Calls[w]]
      BY DEF Calls
    <2>5. QED
      BY <2>2, <2>3, <2>4
  <1>9. BodiesOf(rows)' = BodiesOf(rows) /\ BodiesOf(honest)' = BodiesOf(honest)
    BY <1>1 DEF BodiesOf
  <1>10. QED
    BY <1>3, <1>8, <1>9 DEF Abstract!Look

\* At the second SELECT the chain and the anchor tell what the comparison would tell.
LEMMA AnswerRefines ==
  ASSUME AbstractInv, AbstractInv', NEW v \in Verifiers, VerifyAnchor(v)
  PROVE  Abstract!Answer(v)
  <1>1. /\ pc[v] = "read" /\ pc' = [pc EXCEPT ![v] = "answered"]
        /\ ended' = [ended EXCEPT ![v] = Len(honest)]
        /\ rows' = rows /\ honest' = honest /\ seen' = seen /\ began' = began
        /\ verdict' = [verdict EXCEPT ![v] = verdict'[v]]
    BY DEF VerifyAnchor, AbstractInv, Inv, TypeOK
  <1>2. /\ pc'[v] = "answered" /\ ended'[v] = Len(honest) /\ verdict'[v] \in BOOLEAN
        /\ \A w \in Verifiers \ {v} : pc'[w] = pc[w] /\ verdict'[w] = verdict[w]
    BY <1>1 DEF AbstractInv, Inv, TypeOK
  <1>3. /\ honest \in Seq(Row) /\ Len(honest) \in Nat
        /\ SubSeq(honest, 1, Len(honest)) = honest /\ Len(BodiesOf(honest)) = Len(honest)
    BY HonestLength DEF AbstractInv
  <1>4. /\ seen[v] \in Seq(Row) /\ Len(seen[v]) \in Nat /\ began[v] \in 0..Len(honest)
        /\ Len(seen[v]) <= began[v]
    BY <1>1, <1>3, LenProperties DEF AbstractInv, Inv, TypeOK, EditOf
  <1> DEFINE same == seen[v] = SubSeq(honest, 1, began[v])
  <1>5. ASSUME verdict'[v] PROVE same /\ began[v] = Len(honest)
    <2>1. Len(seen[v]) = Len(honest) /\ \A i \in 1..Len(honest) : seen[v][i] = honest[i]
      BY <1>1, <1>2, <1>5 DEF AbstractInv, TrueMeansHonest
    <2>2. began[v] = Len(honest)
      BY <1>3, <1>4, <2>1
    <2>3. seen[v] = honest
      BY <1>3, <1>4, <2>1, SeqEqual
    <2>4. QED
      BY <1>3, <2>2, <2>3
  <1>6. ASSUME same, began[v] = Len(honest) PROVE verdict'[v]
    <2>1. /\ pc'[v] = "answered" /\ began'[v] = ended'[v]
          /\ seen'[v] = SubSeq(honest', 1, began'[v])
      BY <1>1, <1>2, <1>6
    <2>2. QED
      BY <2>1 DEF AbstractInv, QuietAnswerTrue
  <1>7. verdict'[v] = (same /\ began[v] = Len(BodiesOf(honest)))
    BY <1>2, <1>3, <1>5, <1>6
  <1>8. /\ Calls[v].stage = "read" /\ Calls[v].equal = same /\ Calls[v].length = began[v]
    BY <1>1 DEF Calls
  <1>9. Calls' = [Calls EXCEPT ![v] =
                    [stage |-> "answered", equal |-> same, length |-> began[v],
                     verdict |-> verdict'[v]]]
    BY <1>1, <1>2 DEF Calls
  <1>10. BodiesOf(rows)' = BodiesOf(rows) /\ BodiesOf(honest)' = BodiesOf(honest)
    BY <1>1 DEF BodiesOf
  <1> HIDE DEF same
  <1>11. QED
    BY <1>7, <1>8, <1>9, <1>10 DEF Abstract!Answer

LEMMA DoneRefines ==
  ASSUME AbstractInv, NEW v \in Verifiers, VerifyDone(v) PROVE Abstract!Done(v)
  <1>1. /\ pc[v] = "answered" /\ rows' = rows /\ honest' = honest
        /\ pc'[v] = "idle" /\ began'[v] = 0 /\ verdict'[v] = FALSE
        /\ \A w \in Verifiers \ {v} : /\ pc'[w] = pc[w] /\ seen'[w] = seen[w]
                                     /\ began'[w] = began[w] /\ verdict'[w] = verdict[w]
    BY DEF VerifyDone, AbstractInv, Inv, TypeOK
  <1>2. Calls[v].stage = "answered"
    BY <1>1 DEF Calls
  <1>3. Calls' = [Calls EXCEPT ![v] = Abstract!NoCall]
    BY <1>1 DEF Calls, Abstract!NoCall
  <1>4. BodiesOf(rows)' = BodiesOf(rows) /\ BodiesOf(honest)' = BodiesOf(honest)
    BY <1>1 DEF BodiesOf
  <1>5. QED
    BY <1>2, <1>3, <1>4 DEF Abstract!Done

LEMMA StepRefines ==
  ASSUME AbstractInv, AbstractInv', [Next]_vars
  PROVE  [Abstract!Next]_(Abstract!vars)
  <1>1. CASE UNCHANGED vars
    BY <1>1 DEF vars, BodiesOf, Calls, Abstract!vars
  <1>2. CASE Tamper
    BY <1>2, TamperRefines DEF AbstractInv, Abstract!Next
  <1>3. ASSUME NEW b \in Bodies, AddAudit(b) PROVE Abstract!Next
    BY <1>3, AppendRefines DEF Abstract!Next
  <1>4. ASSUME NEW v \in Verifiers, VerifyRows(v) \/ VerifyAnchor(v) \/ VerifyDone(v)
        PROVE  Abstract!Next
    BY <1>4, LookRefines, AnswerRefines, DoneRefines DEF Abstract!Next
  <1>5. QED
    BY <1>1, <1>2, <1>3, <1>4 DEF Next, Serve

\* The hashes and the anchor of add_audit and verify_audit_chain do what a second copy of
\* the log, out of everybody's reach, would do: whatever is appended, edited and deleted
\* while verifications run, each answers what comparing the copies would answer.
THEOREM Refinement == Spec => Implements
  <1>1. Init => Abstract!Init
    <2>1. ASSUME Init PROVE BodiesOf(honest) = <<>> /\ BodiesOf(rows) = <<>>
      BY <2>1 DEF Init, BodiesOf
    <2>2. ASSUME Init PROVE Calls = [v \in Verifiers |-> Abstract!NoCall]
      BY <2>2 DEF Init, Calls, Abstract!NoCall
    <2>3. QED
      BY <2>1, <2>2 DEF Abstract!Init
  <1>2. AbstractInv /\ AbstractInv' /\ [Next]_vars => [Abstract!Next]_(Abstract!vars)
    BY StepRefines
  <1>3. QED
    BY <1>1, <1>2, AlwaysAbstractInv, PTL DEF Spec, Implements, Abstract!Spec
=============================================================================
