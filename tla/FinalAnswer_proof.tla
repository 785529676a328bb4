-------------------------- MODULE FinalAnswer_proof --------------------------
(***************************************************************************)
(* The final answer of a stored query, for any number of generators, any   *)
(* texts of the model and any run of failures, departures and restarts:    *)
(* the record agrees with itself, the answer of the core formatter is      *)
(* never lost, and without two generators at the same time what was        *)
(* delivered is what is kept.                                              *)
(***************************************************************************)
EXTENDS FinalAnswer, TLAPS

Active(s) == pc[s] # "idle"

\* What is about to be stored, or was stored and is about to be sent, is a text.
Filled ==
    \A s \in Streamers :
        /\ pc[s] \in {"store", "audit"} => chunks[s] # Empty
        /\ pc[s] = "auditfallback" => fallback[s] # Empty

\* Every generator at work can put the answer back that the query was saved with,
\* when it was saved with one.
NetBelow == original # Empty => \A s \in Streamers : Active(s) => fallback[s] # Empty

\* Two generators at work have been seen together.
Alone ==
    ~overlapped => \A s, other \in Streamers : Active(s) /\ Active(other) => s = other

\* A generator alone has the answer the query was saved with to fall back on, and so
\* has the record until it is completed, which it is not before the generator has
\* come to its UPDATE.
Untouched ==
    ~overlapped =>
        /\ record.status # "completed" => record.answer = original
        /\ \A s \in Streamers : Active(s) => fallback[s] = original
        /\ \A s \in Streamers : pc[s] \in {"begin", "stream", "store"} => record.status # "completed"

\* Between its UPDATE and answer_done the record holds what it is going to send.
Written ==
    (~overlapped /\ record.exists) =>
        \A s \in Streamers :
            /\ pc[s] = "audit" => record.status = "completed" /\ record.answer = chunks[s]
            /\ pc[s] = "auditfallback" =>
                    record.status = "completed" /\ record.answer = fallback[s]

\* After an answer was delivered no generator is left that writes.
Settled ==
    (delivered # Empty /\ record.exists /\ ~overlapped) =>
        /\ record.status = "completed" /\ record.answer = delivered
        /\ \A s \in Streamers : pc[s] \in {"idle", "sent"}

\* Nor is there one after a record was given the warning.
Warned ==
    (record.warned /\ ~overlapped) =>
        /\ record.status = "completed" /\ record.answer = original
        /\ \A s \in Streamers : pc[s] \in {"idle", "auditfallback", "sent"}

\* The inductive invariant.
IInv ==
    /\ TypeOK /\ RecordAgrees /\ Filled
    /\ NetHolds /\ NetBelow
    /\ Alone /\ Untouched /\ Written /\ Settled /\ Warned
-----------------------------------------------------------------------------

LEMMA InitIInv == Init => IInv
<1> SUFFICES ASSUME Init
             PROVE  IInv
  OBVIOUS
<1>1. TypeOK
  BY DEF Init, TypeOK, Answers, Status, NoInsight
<1>2. RecordAgrees /\ NetHolds /\ Untouched
  BY DEF Init, RecordAgrees, NetHolds, Untouched, Active
<1>3. Filled /\ NetBelow /\ Alone /\ Written
  BY DEF Init, Filled, NetBelow, Alone, Written, Active
<1>4. Settled /\ Warned
  BY DEF Init, Settled, Warned
<1> QED
  BY <1>1, <1>2, <1>3, <1>4 DEF IInv

\* Every field, place and text stays in its set.
LEMMA NextTypeOK ==
  ASSUME TypeOK, [Next]_vars
  PROVE  TypeOK'
<1> USE DEF Goto, Updated, vars, TypeOK, Answers, Status, NoInsight
<1>1. ASSUME NEW s \in Streamers, Stream(s)
      PROVE  TypeOK'
  <2>1. CASE Start(s)
    BY <2>1 DEF Start
  <2>2. CASE Begin(s)
    BY <2>2 DEF Begin
  <2>3. CASE Chunk(s)
    BY <2>3 DEF Chunk
  <2>4. CASE ModelEnds(s)
    BY <2>4 DEF ModelEnds
  <2>5. CASE Store(s)
    BY <2>5 DEF Store
  <2>6. CASE Audit(s)
    BY <2>6 DEF Audit
  <2>7. CASE FallBack(s)
    BY <2>7 DEF FallBack
  <2>8. CASE AuditFallBack(s)
    BY <2>8 DEF AuditFallBack
  <2>9. CASE UpdateFails(s)
    BY <2>9 DEF UpdateFails
  <2>10. CASE Leave(s)
    BY <2>10 DEF Leave
  <2> QED
    BY <1>1, <2>1, <2>2, <2>3, <2>4, <2>5, <2>6, <2>7, <2>8, <2>9, <2>10 DEF Stream
<1>2. CASE Delete
  BY <1>2 DEF Delete
<1>3. CASE Restart
  BY <1>3 DEF Restart
<1>4. CASE UNCHANGED vars
  BY <1>4
<1> QED
  BY <1>1, <1>2, <1>3, <1>4 DEF Next

\* A generator goes on to store, or to send its fallback, only with a text.
LEMMA NextFilled ==
  ASSUME TypeOK, Filled, [Next]_vars
  PROVE  Filled'
<1> USE DEF Goto, Updated, vars, TypeOK, Filled
<1>1. ASSUME NEW s \in Streamers, Stream(s)
      PROVE  Filled'
  <2>1. CASE Start(s)
    BY <2>1 DEF Start
  <2>2. CASE Begin(s)
    BY <2>2 DEF Begin
  <2>3. CASE Chunk(s)
    BY <2>3 DEF Chunk
  <2>4. CASE ModelEnds(s)
    BY <2>4 DEF ModelEnds
  <2>5. CASE Store(s)
    BY <2>5 DEF Store
  <2>6. CASE Audit(s)
    BY <2>6 DEF Audit
  <2>7. CASE FallBack(s)
    BY <2>7 DEF FallBack
  <2>8. CASE AuditFallBack(s)
    BY <2>8 DEF AuditFallBack
  <2>9. CASE UpdateFails(s)
    BY <2>9 DEF UpdateFails
  <2>10. CASE Leave(s)
    BY <2>10 DEF Leave
  <2> QED
    BY <1>1, <2>1, <2>2, <2>3, <2>4, <2>5, <2>6, <2>7, <2>8, <2>9, <2>10 DEF Stream
<1>2. CASE Delete
  BY <1>2 DEF Delete
<1>3. CASE Restart
  BY <1>3 DEF Restart
<1>4. CASE UNCHANGED vars
  BY <1>4
<1> QED
  BY <1>1, <1>2, <1>3, <1>4 DEF Next

\* No UPDATE leaves the columns in disagreement.
LEMMA NextRecordAgrees ==
  ASSUME TypeOK, Filled, RecordAgrees, [Next]_vars
  PROVE  RecordAgrees'
<1> USE DEF Goto, Updated, vars, TypeOK, Filled, RecordAgrees, NoInsight
<1>1. ASSUME NEW s \in Streamers, Stream(s)
      PROVE  RecordAgrees'
  <2>1. CASE Start(s)
    BY <2>1 DEF Start
  <2>2. CASE Begin(s)
    BY <2>2 DEF Begin
  <2>3. CASE Chunk(s)
    BY <2>3 DEF Chunk
  <2>4. CASE ModelEnds(s)
    BY <2>4 DEF ModelEnds
  <2>5. CASE Store(s)
    BY <2>5 DEF Store
  <2>6. CASE Audit(s)
    BY <2>6 DEF Audit
  <2>7. CASE FallBack(s)
    BY <2>7 DEF FallBack
  <2>8. CASE AuditFallBack(s)
    BY <2>8 DEF AuditFallBack
  <2>9. CASE UpdateFails(s)
    BY <2>9 DEF UpdateFails
  <2>10. CASE Leave(s)
    BY <2>10 DEF Leave
  <2> QED
    BY <1>1, <2>1, <2>2, <2>3, <2>4, <2>5, <2>6, <2>7, <2>8, <2>9, <2>10 DEF Stream
<1>2. CASE Delete
  BY <1>2 DEF Delete
<1>3. CASE Restart
  BY <1>3 DEF Restart
<1>4. CASE UNCHANGED vars
  BY <1>4
<1> QED
  BY <1>1, <1>2, <1>3, <1>4 DEF Next

\* The record keeps an answer, and so does what the generators fall back on.
LEMMA NextNet ==
  ASSUME TypeOK, Filled, NetHolds, NetBelow, [Next]_vars
  PROVE  NetHolds' /\ NetBelow'
<1> USE DEF Goto, Updated, vars, TypeOK, Filled, NetHolds, NetBelow, Active
<1>1. ASSUME NEW s \in Streamers, Stream(s)
      PROVE  NetHolds' /\ NetBelow'
  <2>1. CASE Start(s)
    BY <2>1 DEF Start
  <2>2. CASE Begin(s)
    BY <2>2 DEF Begin
  <2>3. CASE Chunk(s)
    BY <2>3 DEF Chunk
  <2>4. CASE ModelEnds(s)
    BY <2>4 DEF ModelEnds
  <2>5. CASE Store(s)
    BY <2>5 DEF Store
  <2>6. CASE Audit(s)
    BY <2>6 DEF Audit
  <2>7. CASE FallBack(s)
    BY <2>7 DEF FallBack
  <2>8. CASE AuditFallBack(s)
    BY <2>8 DEF AuditFallBack
  <2>9. CASE UpdateFails(s)
    BY <2>9 DEF UpdateFails
  <2>10. CASE Leave(s)
    BY <2>10 DEF Leave
  <2> QED
    BY <1>1, <2>1, <2>2, <2>3, <2>4, <2>5, <2>6, <2>7, <2>8, <2>9, <2>10 DEF Stream
<1>2. CASE Delete
  BY <1>2 DEF Delete
<1>3. CASE Restart
  BY <1>3 DEF Restart
<1>4. CASE UNCHANGED vars
  BY <1>4
<1> QED
  BY <1>1, <1>2, <1>3, <1>4 DEF Next

\* Only Start sets a generator to work, and it looks for others.
LEMMA NextAlone ==
  ASSUME TypeOK, Alone, [Next]_vars
  PROVE  Alone'
<1> USE DEF Goto, Updated, vars, TypeOK, Alone, Active
<1>1. ASSUME NEW s \in Streamers, Stream(s)
      PROVE  Alone'
  <2>1. CASE Start(s)
    BY <2>1 DEF Start
  <2>2. CASE Begin(s)
    BY <2>2 DEF Begin
  <2>3. CASE Chunk(s)
    BY <2>3 DEF Chunk
  <2>4. CASE ModelEnds(s)
    BY <2>4 DEF ModelEnds
  <2>5. CASE Store(s)
    BY <2>5 DEF Store
  <2>6. CASE Audit(s)
    BY <2>6 DEF Audit
  <2>7. CASE FallBack(s)
    BY <2>7 DEF FallBack
  <2>8. CASE AuditFallBack(s)
    BY <2>8 DEF AuditFallBack
  <2>9. CASE UpdateFails(s)
    BY <2>9 DEF UpdateFails
  <2>10. CASE Leave(s)
    BY <2>10 DEF Leave
  <2> QED
    BY <1>1, <2>1, <2>2, <2>3, <2>4, <2>5, <2>6, <2>7, <2>8, <2>9, <2>10 DEF Stream
<1>2. CASE Delete
  BY <1>2 DEF Delete
<1>3. CASE Restart
  BY <1>3 DEF Restart
<1>4. CASE UNCHANGED vars
  BY <1>4
<1> QED
  BY <1>1, <1>2, <1>3, <1>4 DEF Next

\* A generator alone finds and puts back the answer saved with the query.
LEMMA NextUntouched ==
  ASSUME TypeOK, Alone, Untouched, [Next]_vars
  PROVE  Untouched'
<1> USE DEF Goto, Updated, vars, TypeOK, Alone, Untouched, Active
<1>1. ASSUME NEW s \in Streamers, Stream(s)
      PROVE  Untouched'
  <2>1. CASE Start(s)
    BY <2>1 DEF Start
  <2>2. CASE Begin(s)
    BY <2>2 DEF Begin
  <2>3. CASE Chunk(s)
    BY <2>3 DEF Chunk
  <2>4. CASE ModelEnds(s)
    BY <2>4 DEF ModelEnds
  <2>5. CASE Store(s)
    BY <2>5 DEF Store
  <2>6. CASE Audit(s)
    BY <2>6 DEF Audit
  <2>7. CASE FallBack(s)
    BY <2>7 DEF FallBack
  <2>8. CASE AuditFallBack(s)
    BY <2>8 DEF AuditFallBack
  <2>9. CASE UpdateFails(s)
    BY <2>9 DEF UpdateFails
  <2>10. CASE Leave(s)
    BY <2>10 DEF Leave
  <2> QED
    BY <1>1, <2>1, <2>2, <2>3, <2>4, <2>5, <2>6, <2>7, <2>8, <2>9, <2>10 DEF Stream
<1>2. CASE Delete
  BY <1>2 DEF Delete
<1>3. CASE Restart
  BY <1>3 DEF Restart
<1>4. CASE UNCHANGED vars
  BY <1>4
<1> QED
  BY <1>1, <1>2, <1>3, <1>4 DEF Next

\* Nobody writes between the UPDATE of a generator alone and its answer_done.
LEMMA NextWritten ==
  ASSUME TypeOK, Alone, Untouched, Written, [Next]_vars
  PROVE  Written'
<1> USE DEF Goto, Updated, vars, TypeOK, Alone, Untouched, Written, Active
<1>1. ASSUME NEW s \in Streamers, Stream(s)
      PROVE  Written'
  <2>1. CASE Start(s)
    BY <2>1 DEF Start
  <2>2. CASE Begin(s)
    BY <2>2 DEF Begin
  <2>3. CASE Chunk(s)
    BY <2>3 DEF Chunk
  <2>4. CASE ModelEnds(s)
    BY <2>4 DEF ModelEnds
  <2>5. CASE Store(s)
    BY <2>5 DEF Store
  <2>6. CASE Audit(s)
    BY <2>6 DEF Audit
  <2>7. CASE FallBack(s)
    BY <2>7 DEF FallBack
  <2>8. CASE AuditFallBack(s)
    BY <2>8 DEF AuditFallBack
  <2>9. CASE UpdateFails(s)
    BY <2>9 DEF UpdateFails
  <2>10. CASE Leave(s)
    BY <2>10 DEF Leave
  <2> QED
    BY <1>1, <2>1, <2>2, <2>3, <2>4, <2>5, <2>6, <2>7, <2>8, <2>9, <2>10 DEF Stream
<1>2. CASE Delete
  BY <1>2 DEF Delete
<1>3. CASE Restart
  BY <1>3 DEF Restart
<1>4. CASE UNCHANGED vars
  BY <1>4
<1> QED
  BY <1>1, <1>2, <1>3, <1>4 DEF Next

\* A completed answer is not generated again.
LEMMA NextSettled ==
  ASSUME TypeOK, Alone, Written, Settled, [Next]_vars
  PROVE  Settled'
<1> USE DEF Goto, Updated, vars, TypeOK, Alone, Written, Settled, Active
<1>1. ASSUME NEW s \in Streamers, Stream(s)
      PROVE  Settled'
  <2>1. CASE Start(s)
    BY <2>1 DEF Start
  <2>2. CASE Begin(s)
    BY <2>2 DEF Begin
  <2>3. CASE Chunk(s)
    BY <2>3 DEF Chunk
  <2>4. CASE ModelEnds(s)
    BY <2>4 DEF ModelEnds
  <2>5. CASE Store(s)
    BY <2>5 DEF Store
  <2>6. CASE Audit(s)
    BY <2>6 DEF Audit
  <2>7. CASE FallBack(s)
    BY <2>7 DEF FallBack
  <2>8. CASE AuditFallBack(s)
    BY <2>8 DEF AuditFallBack
  <2>9. CASE UpdateFails(s)
    BY <2>9 DEF UpdateFails
  <2>10. CASE Leave(s)
    BY <2>10 DEF Leave
  <2> QED
    BY <1>1, <2>1, <2>2, <2>3, <2>4, <2>5, <2>6, <2>7, <2>8, <2>9, <2>10 DEF Stream
<1>2. CASE Delete
  BY <1>2 DEF Delete
<1>3. CASE Restart
  BY <1>3 DEF Restart
<1>4. CASE UNCHANGED vars
  BY <1>4
<1> QED
  BY <1>1, <1>2, <1>3, <1>4 DEF Next

\* The warning comes with the answer of the core formatter, and nothing after it.
LEMMA NextWarned ==
  ASSUME TypeOK, Alone, Untouched, Warned, [Next]_vars
  PROVE  Warned'
<1> USE DEF Goto, Updated, vars, TypeOK, Alone, Untouched, Warned, Active
<1>1. ASSUME NEW s \in Streamers, Stream(s)
      PROVE  Warned'
  <2>1. CASE Start(s)
    BY <2>1 DEF Start
  <2>2. CASE Begin(s)
    BY <2>2 DEF Begin
  <2>3. CASE Chunk(s)
    BY <2>3 DEF Chunk
  <2>4. CASE ModelEnds(s)
    BY <2>4 DEF ModelEnds
  <2>5. CASE Store(s)
    BY <2>5 DEF Store
  <2>6. CASE Audit(s)
    BY <2>6 DEF Audit
  <2>7. CASE FallBack(s)
    BY <2>7 DEF FallBack
  <2>8. CASE AuditFallBack(s)
    BY <2>8 DEF AuditFallBack
  <2>9. CASE UpdateFails(s)
    BY <2>9 DEF UpdateFails
  <2>10. CASE Leave(s)
    BY <2>10 DEF Leave
  <2> QED
    BY <1>1, <2>1, <2>2, <2>3, <2>4, <2>5, <2>6, <2>7, <2>8, <2>9, <2>10 DEF Stream
<1>2. CASE Delete
  BY <1>2 DEF Delete
<1>3. CASE Restart
  BY <1>3 DEF Restart
<1>4. CASE UNCHANGED vars
  BY <1>4
<1> QED
  BY <1>1, <1>2, <1>3, <1>4 DEF Next

LEMMA NextIInv == IInv /\ [Next]_vars => IInv'
  BY NextTypeOK, NextFilled, NextRecordAgrees, NextNet, NextAlone, NextUntouched,
     NextWritten, NextSettled, NextWarned DEF IInv

LEMMA SpecIInv == Spec => []IInv
  BY InitIInv, NextIInv, PTL DEF Spec

\* The columns of the record agree, whichever of any number of generators wrote last:
\* stream_final_answer, update_query_record.
THEOREM Agreement == Spec => []Inv
<1>1. IInv => Inv
  BY DEF IInv, Inv
<1> QED
  BY <1>1, SpecIInv, PTL

\* A query saved with the core formatter's answer is never left without one: every
\* path out of stream_final_answer, and every way of dying in it.
THEOREM NetNeverLost == Spec => []NetHolds
<1>1. IInv => NetHolds
  BY DEF IInv
<1> QED
  BY <1>1, SpecIInv, PTL

\* What was delivered is what the record holds, unless generators ran together.
THEOREM DeliveredIsKept == Spec => []DeliveredKept
<1>1. IInv => DeliveredKept
  BY DEF IInv, Settled, DeliveredKept
<1> QED
  BY <1>1, SpecIInv, PTL

\* The warning never stands beside an answer of the model, under the same condition.
THEOREM WarningIsTrue == Spec => []WarningTrue
<1>1. IInv => WarningTrue
  BY DEF IInv, Warned, WarningTrue
<1> QED
  BY <1>1, SpecIInv, PTL
=============================================================================
