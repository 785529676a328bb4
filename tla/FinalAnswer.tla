----------------------------- MODULE FinalAnswer -----------------------------
(***************************************************************************)
(* The final answer of one stored query whose answer_mode is "llm".  A     *)
(* client asks for the answer stream; stream_final_answer is a generator   *)
(* that reads the record, marks it as streaming, forwards the chunks of    *)
(* the model, and at the end stores the text or, when anything fails, the  *)
(* answer that the core formatter had given (the fallback).  The generator *)
(* stands still at every yield: there the client may leave, which closes   *)
(* it without running its exception handler, and meanwhile other clients   *)
(* (another tab, an administrator, a reload) run generators of their own.  *)
(***************************************************************************)
EXTENDS Integers

CONSTANTS
    Streamers,  \* threads running a generator of the query
    Texts,      \* what the model may answer
    Core,       \* the answer of the core formatter
    Empty       \* no text

ASSUME TextsAssumption == Core \notin Texts /\ Empty \notin Texts /\ Core # Empty

VARIABLES
    record,     \* the row of query_history
    pc,         \* streamer -> where its generator stands
    fallback,   \* streamer -> fallback_answer, read at the start
    chunks,     \* streamer -> the text received from the model
    original,   \* history: the answer saved with the query
    delivered,  \* history: the text of the last answer_done after a run
    overlapped  \* history: two generators have run at the same time

vars == <<record, pc, fallback, chunks, original, delivered, overlapped>>

NoInsight == Empty    \* an insight is told by its summary, None by no text
Status == {"pending", "streaming", "completed", "failed"}

Init ==
    /\ original \in {Core, Empty}
    /\ record = [exists |-> TRUE, answer |-> original, insight |-> NoInsight,
                 status |-> "pending", warned |-> FALSE]
    /\ pc = [s \in Streamers |-> "idle"]
    /\ fallback = [s \in Streamers |-> Empty]
    /\ chunks = [s \in Streamers |-> Empty]
    /\ delivered = Empty
    /\ overlapped = FALSE

Goto(s, from, to) == pc[s] = from /\ pc' = [pc EXCEPT ![s] = to]

\* The record as one UPDATE leaves it: nothing when the row is gone.
Updated(answer, insight, status, warn) ==
    [record EXCEPT !.answer = answer, !.insight = insight, !.status = status,
                   !.warned = @ \/ warn]

MutantStart(s) ==    \* a completed answer is generated again
    /\ record.exists
    /\ Goto(s, "idle", "begin")
    /\ fallback' = [fallback EXCEPT ![s] = record.answer]
    /\ overlapped' = (overlapped \/ \E other \in Streamers : pc[other] # "idle")
    /\ UNCHANGED <<record, chunks, original, delivered>>

\* _owned_query, then the first yield (answer_start).  A completed answer is
\* sent as it is and the generator ends; an unknown query is an error.
Start(s) ==
    /\ record.exists
    /\ record.status # "completed"
    /\ Goto(s, "idle", "begin")
    /\ fallback' = [fallback EXCEPT ![s] = record.answer]
    /\ overlapped' = (overlapped \/ \E other \in Streamers : pc[other] # "idle")
    /\ UNCHANGED <<record, chunks, original, delivered>>

MutantBegin(s) ==    \* the answer is emptied when streaming starts
    /\ Goto(s, "begin", IF record.exists THEN "stream" ELSE "idle")
    /\ record' = IF record.exists THEN Updated(Empty, NoInsight, "streaming", FALSE) ELSE record
    /\ chunks' = [chunks EXCEPT ![s] = Empty]
    /\ UNCHANGED <<fallback, original, delivered, overlapped>>

\* The client has pulled again: status "streaming", the insight is dropped.
\* When the query has been deleted meanwhile, ValueError reaches the client.
Begin(s) ==
    /\ Goto(s, "begin", IF record.exists THEN "stream" ELSE "idle")
    /\ record' = IF record.exists
                 THEN Updated(fallback[s], NoInsight, "streaming", FALSE)
                 ELSE record
    /\ chunks' = [chunks EXCEPT ![s] = Empty]
    /\ UNCHANGED <<fallback, original, delivered, overlapped>>

\* answer_delta.
Chunk(s) ==
    /\ chunks[s] = Empty
    /\ Goto(s, "stream", "stream")
    /\ \E text \in Texts : chunks' = [chunks EXCEPT ![s] = text]
    /\ UNCHANGED <<record, fallback, original, delivered, overlapped>>

\* The model's stream ends, with or without text, or breaks off.
ModelEnds(s) ==
    /\ \/ chunks[s] # Empty /\ Goto(s, "stream", "store")
       \/ Goto(s, "stream", "fallback")
    /\ UNCHANGED <<record, fallback, chunks, original, delivered, overlapped>>

Store(s) ==
    /\ Goto(s, "store", IF record.exists THEN "audit" ELSE "fallback")
    /\ record' = IF record.exists
                 THEN Updated(chunks[s], chunks[s], "completed", FALSE)
                 ELSE record
    /\ UNCHANGED <<fallback, chunks, original, delivered, overlapped>>

\* answer.completed is logged and answer_done is sent; when the audit fails the
\* handler replaces the answer just stored.
Audit(s) ==
    /\ \/ Goto(s, "audit", "sent") /\ delivered' = chunks[s]
       \/ Goto(s, "audit", "fallback") /\ UNCHANGED delivered
    /\ UNCHANGED <<record, fallback, chunks, original, overlapped>>

MutantFallBack(s) ==    \* the insight is left out
    /\ Goto(s, "fallback",
            IF record.exists /\ fallback[s] # Empty THEN "auditfallback" ELSE "idle")
    /\ record' = IF ~record.exists THEN record
                 ELSE IF fallback[s] # Empty
                 THEN Updated(fallback[s], NoInsight, "completed", TRUE)
                 ELSE Updated(Empty, NoInsight, "failed", FALSE)
    /\ UNCHANGED <<fallback, chunks, original, delivered, overlapped>>

\* except Exception.  Without a fallback the call ends with the error, as it
\* does when the record is gone.
FallBack(s) ==
    /\ Goto(s, "fallback",
            IF record.exists /\ fallback[s] # Empty THEN "auditfallback" ELSE "idle")
    /\ record' = IF ~record.exists THEN record
                 ELSE IF fallback[s] # Empty
                 THEN Updated(fallback[s], fallback[s], "completed", TRUE)
                 ELSE Updated(Empty, NoInsight, "failed", FALSE)
    /\ UNCHANGED <<fallback, chunks, original, delivered, overlapped>>

AuditFallBack(s) ==
    /\ \/ Goto(s, "auditfallback", "sent") /\ delivered' = fallback[s]
       \/ Goto(s, "auditfallback", "idle") /\ UNCHANGED delivered
    /\ UNCHANGED <<record, fallback, chunks, original, overlapped>>

\* An UPDATE fails: in the try block the handler takes over, in the handler the
\* call ends with the error.
UpdateFails(s) ==
    /\ Goto(s, "store", "fallback") \/ Goto(s, "fallback", "idle")
    /\ UNCHANGED <<record, fallback, chunks, original, delivered, overlapped>>

\* The generator ends, or its client leaves at a yield: GeneratorExit is not an
\* Exception, so nothing is written.  Also the first UPDATE failing.
Leave(s) ==
    /\ pc[s] \in {"begin", "stream", "sent"}
    /\ pc' = [pc EXCEPT ![s] = "idle"]
    /\ chunks' = [chunks EXCEPT ![s] = Empty]
    /\ fallback' = [fallback EXCEPT ![s] = Empty]
    /\ UNCHANGED <<record, original, delivered, overlapped>>

\* clear_session with delete_history.
Delete ==
    /\ record.exists
    /\ record' = [record EXCEPT !.exists = FALSE]
    /\ UNCHANGED <<pc, fallback, chunks, original, delivered, overlapped>>

\* The process dies and starts again.
Restart ==
    /\ \E s \in Streamers : pc[s] # "idle"
    /\ pc' = [s \in Streamers |-> "idle"]
    /\ fallback' = [s \in Streamers |-> Empty]
    /\ chunks' = [s \in Streamers |-> Empty]
    /\ UNCHANGED <<record, original, delivered, overlapped>>

Stream(s) ==
    \/ Start(s)
    \/ Begin(s)
    \/ Chunk(s)
    \/ ModelEnds(s)
    \/ Store(s)
    \/ Audit(s)
    \/ FallBack(s)
    \/ AuditFallBack(s)
    \/ UpdateFails(s)
    \/ Leave(s)

Next ==
    \/ \E s \in Streamers : Stream(s)
    \/ Delete
    \/ Restart

Spec == Init /\ [][Next]_vars
-----------------------------------------------------------------------------
Answers == Texts \cup {Core, Empty}

TypeOK ==
    /\ record \in [exists : BOOLEAN, answer : Answers, insight : Answers,
                   status : Status, warned : BOOLEAN]
    /\ pc \in [Streamers -> {"idle", "begin", "stream", "store", "audit", "fallback",
                             "auditfallback", "sent"}]
    /\ fallback \in [Streamers -> Answers]
    /\ chunks \in [Streamers -> Texts \cup {Empty}]
    /\ original \in {Core, Empty}
    /\ delivered \in Answers
    /\ overlapped \in BOOLEAN

\* The columns of the record agree, although several generators write them in
\* any order: a completed record has an answer and the insight that says the
\* same, an unfinished or failed one has no insight.
RecordAgrees ==
    IF record.status = "completed"
    THEN record.answer # Empty /\ record.insight = record.answer
    ELSE record.insight = NoInsight

Inv == TypeOK /\ RecordAgrees

\* The answer of the core formatter is the safety net: a query that was saved
\* with one is never left without an answer, nor marked as failed, whichever
\* generators break off, overtake one another or die.
NetHolds == original # Empty => record.answer # Empty /\ record.status # "failed"

\* What a client was given as the final answer is what the record holds from
\* then on, for export, sharing and looking up, whatever failed in between, as
\* long as no two generators of the query have run at the same time.
DeliveredKept ==
    (delivered # Empty /\ record.exists /\ ~overlapped) =>
        record.status = "completed" /\ record.answer = delivered

\* The warning that the answer is the core formatter's, which no later UPDATE
\* removes, never stands beside an answer of the model, under the same condition.
WarningTrue ==
    (record.status = "completed" /\ record.warned /\ ~overlapped) =>
        record.answer = original
=============================================================================
