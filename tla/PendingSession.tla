--------------------------- MODULE PendingSession ---------------------------
(***************************************************************************)
(* The incomplete query ("pending query") of one session.  A question that *)
(* lacks an organization, a metric or a date is kept, the user is asked to *)
(* supply what is missing, and the following messages are read as answers. *)
(* The working copy lives in InMemorySessionStore; each request loads it   *)
(* from SQLite when memory has none and writes it back when it ends in an  *)
(* exception, so that a restarted server goes on where the old one was.    *)
(* Memory and SQLite are read and written in separate steps.               *)
(***************************************************************************)
EXTENDS Integers, FiniteSets

CONSTANTS
    Threads,     \* worker threads serving requests of the session
    Questions,   \* identities of incomplete or complete questions
    NoPending    \* no pending query

ASSUME QuestionsAssumption == Questions # {}

Slots == {"organization", "metric", "date"}
MaxClarifications == 3
Pending == [question : Questions, missing : (SUBSET Slots) \ {{}},
            clarification_count : 0..MaxClarifications - 1]

ASSUME NoPendingAssumption == NoPending \notin Pending

\* A message as pending_query.py sees it: a question (it has query intent), a
\* reply, or a cancellation, and the slots that can be recognised in it.
Message == [kind : {"question", "reply"}, question : Questions, supplied : SUBSET Slots]
               \cup [kind : {"cancel"}, question : Questions, supplied : {{}}]

VARIABLES
    memory,   \* SessionState.pending_query in InMemorySessionStore
    durable,  \* the row of pending_sessions
    pc,       \* thread -> where its request stands
    msg,      \* thread -> the message it serves
    seen,     \* thread -> the pending query it has read last
    outcome,  \* history: thread -> how its request ends
    told,     \* history: the pending query the user is in the middle of
    lost,     \* history: a request ends unserved before it has restored the session
    asked     \* history: unhelpful messages answered in a row by asking again

sessionVars == <<memory, durable, pc, msg, seen, outcome, told, lost, asked>>
history == <<told, lost, asked>>

NoMessage == CHOOSE m \in Message : m.kind = "cancel"

SessionInit ==
    /\ memory = NoPending
    /\ durable = NoPending
    /\ pc = [t \in Threads |-> "idle"]
    /\ msg = [t \in Threads |-> NoMessage]
    /\ seen = [t \in Threads |-> NoPending]
    /\ outcome = [t \in Threads |-> "failed"]
    /\ told = NoPending
    /\ lost = FALSE
    /\ asked = 0

Goto(t, from, to) == pc[t] = from /\ pc' = [pc EXCEPT ![t] = to]

\* A request ends in an exception, after which the pending query is persisted.
Ends(t, how) == outcome' = [outcome EXCEPT ![t] = how]

\* query() accepts the message, or denies it before it looks at the session
\* (no query permission, or an organization outside the user's).
Begin(t, m) ==
    /\ Goto(t, "idle", "restore")
    /\ msg' = [msg EXCEPT ![t] = m]
    /\ UNCHANGED <<memory, durable, seen, outcome, history>>

BeginDenied(t) ==
    /\ Goto(t, "idle", "persist")
    /\ Ends(t, "failed")
    /\ lost' = (lost \/ (memory = NoPending /\ durable # NoPending))
    /\ UNCHANGED <<memory, durable, msg, seen, told, asked>>

\* _restore_pending_session: memory first, then SQLite, then memory is set.
RestoreMemory(t) ==
    /\ Goto(t, "restore", IF memory # NoPending THEN "ask" ELSE "load")
    /\ UNCHANGED <<memory, durable, msg, seen, outcome, history>>

RestoreLoad(t) ==
    /\ Goto(t, "load", IF durable # NoPending THEN "install" ELSE "ask")
    /\ seen' = [seen EXCEPT ![t] = durable]
    /\ UNCHANGED <<memory, durable, msg, outcome, history>>

MutantRestoreInstall(t) ==    \* the count of clarifications is not restored
    /\ Goto(t, "install", "ask")
    /\ memory' = [seen[t] EXCEPT !.clarification_count = 0]
    /\ UNCHANGED <<durable, msg, seen, outcome, history>>

RestoreInstall(t) ==
    /\ Goto(t, "install", "ask")
    /\ memory' = seen[t]
    /\ UNCHANGED <<durable, msg, seen, outcome, history>>

\* _ask takes its copy of the session state.
Ask(t) ==
    /\ Goto(t, "ask", IF memory = NoPending THEN "plan" ELSE "resolve")
    /\ seen' = [seen EXCEPT ![t] = memory]
    /\ UNCHANGED <<memory, durable, msg, outcome, history>>

\* PendingQueryResolver.resolve: is the message a query of its own?
NewQuestion(m, p) ==
    /\ m.kind = "question"
    /\ \/ m.supplied = Slots
       \/ Cardinality(m.supplied) >= 2 /\ m.supplied \cap p.missing = {}

GivesUp(m, p) ==
    \/ m.kind = "cancel"
    \/ m.supplied = {} /\ p.clarification_count + 1 >= MaxClarifications

\* The pending query after a message that neither replaces nor cancels it.
Merged(m, p) ==
    IF m.supplied = {}
    THEN [p EXCEPT !.clarification_count = @ + 1]
    ELSE [p EXCEPT !.clarification_count = 0, !.missing = @ \ m.supplied]

ResolveNewQuestion(t) ==
    /\ Goto(t, "resolve", "plan")
    /\ NewQuestion(msg[t], seen[t])
    /\ memory' = NoPending
    /\ Ends(t, "replaced")
    /\ asked' = 0
    /\ UNCHANGED <<durable, msg, seen, told, lost>>

ResolveCancelled(t) ==
    /\ Goto(t, "resolve", "persist")
    /\ ~NewQuestion(msg[t], seen[t]) /\ GivesUp(msg[t], seen[t])
    /\ memory' = NoPending
    /\ Ends(t, "cancelled")
    /\ asked' = 0
    /\ UNCHANGED <<durable, msg, seen, told, lost>>

ResolveClarify(t) ==
    LET merged == Merged(msg[t], seen[t])
    IN  /\ Goto(t, "resolve", "persist")
        /\ ~NewQuestion(msg[t], seen[t]) /\ ~GivesUp(msg[t], seen[t])
        /\ merged.missing # {}
        /\ memory' = merged
        /\ Ends(t, "clarified")
        /\ asked' = IF msg[t].supplied = {} THEN asked ELSE 0
        /\ UNCHANGED <<durable, msg, seen, told, lost>>

\* Nothing is missing any more: the completed question is run.  The merged
\* query is not stored, so a failure leaves the old one in memory.
ResolveReady(t) ==
    /\ Goto(t, "resolve", "run")
    /\ ~NewQuestion(msg[t], seen[t]) /\ ~GivesUp(msg[t], seen[t])
    /\ Merged(msg[t], seen[t]).missing = {}
    /\ UNCHANGED <<memory, durable, msg, seen, outcome, history>>

\* Rules, model, authorization and execution may all fail or succeed.
\* InMemorySessionStore.update drops the pending query with the old focus.
Succeed(t) ==
    /\ pc[t] \in {"plan", "run"}
    /\ pc' = [pc EXCEPT ![t] = "clear"]
    /\ memory' = NoPending
    /\ Ends(t, "answered")
    /\ UNCHANGED <<durable, msg, seen, history>>

Fail(t) ==
    /\ pc[t] \in {"plan", "run"}
    /\ pc' = [pc EXCEPT ![t] = "persist"]
    /\ UNCHANGED <<memory, durable, msg, seen, outcome, history>>

\* should_start_pending: query intent, something recognised, something missing.
StartPending(t) ==
    /\ msg[t].kind = "question" /\ msg[t].supplied \notin {{}, Slots}
    /\ Goto(t, "plan", "persist")
    /\ memory' = [question |-> msg[t].question, missing |-> Slots \ msg[t].supplied,
                  clarification_count |-> 0]
    /\ Ends(t, "clarified")
    /\ asked' = 0
    /\ UNCHANGED <<durable, msg, seen, told, lost>>

MutantClearDurable(t) ==    \* the answered query stays in SQLite
    /\ Goto(t, "clear", "done")
    /\ told' = NoPending /\ lost' = FALSE /\ asked' = 0
    /\ UNCHANGED <<memory, durable, msg, seen, outcome>>

\* clear_pending_session after an answer.
ClearDurable(t) ==
    /\ Goto(t, "clear", "done")
    /\ durable' = NoPending
    /\ told' = NoPending /\ lost' = FALSE /\ asked' = 0
    /\ UNCHANGED <<memory, msg, seen, outcome>>

\* _persist_pending_session: reads memory, then writes SQLite.
PersistRead(t) ==
    /\ Goto(t, "persist", "write")
    /\ seen' = [seen EXCEPT ![t] = memory]
    /\ UNCHANGED <<memory, durable, msg, outcome, history>>

\* What a request that was not served writes, the user was told before or is
\* shown by the next answer; that nothing is written is not something told.
PersistWrite(t) ==
    /\ Goto(t, "write", "done")
    /\ durable' = seen[t]
    /\ IF outcome[t] = "failed"
       THEN /\ told' = IF seen[t] = NoPending THEN told ELSE seen[t]
            /\ UNCHANGED <<lost, asked>>
       ELSE /\ told' = seen[t]
            /\ lost' = FALSE
            /\ asked' = IF outcome[t] = "clarified" /\ msg[t].supplied = {}
                        THEN asked + 1 ELSE asked
    /\ UNCHANGED <<memory, msg, seen, outcome>>

Respond(t) ==
    /\ Goto(t, "done", "idle")
    /\ msg' = [msg EXCEPT ![t] = NoMessage]
    /\ seen' = [seen EXCEPT ![t] = NoPending]
    /\ outcome' = [outcome EXCEPT ![t] = "failed"]
    /\ UNCHANGED <<memory, durable, history>>

\* clear_session: memory first, then SQLite.
ClearMemory(t) ==
    /\ Goto(t, "idle", "wipe")
    /\ memory' = NoPending
    /\ UNCHANGED <<durable, msg, seen, outcome, history>>

Wipe(t) ==
    /\ Goto(t, "wipe", "done")
    /\ durable' = NoPending
    /\ told' = NoPending /\ lost' = FALSE /\ asked' = 0
    /\ UNCHANGED <<memory, msg, seen, outcome>>

\* A statement fails.  In the body of query() the exception is handled by
\* persisting what memory holds; in the handler itself it replaces the one
\* being handled, and in clear_session it reaches the caller.
StoreError(t) ==
    /\ pc[t] \in {"load", "clear", "write", "wipe"}
    /\ pc' = [pc EXCEPT ![t] = IF pc[t] \in {"load", "clear"} THEN "persist" ELSE "done"]
    /\ lost' = (lost \/ (pc[t] = "load" /\ durable # NoPending))
    /\ UNCHANGED <<memory, durable, msg, seen, outcome, told, asked>>

\* The process dies and starts again.
Restart ==
    /\ memory' = NoPending
    /\ pc' = [t \in Threads |-> "idle"]
    /\ msg' = [t \in Threads |-> NoMessage]
    /\ seen' = [t \in Threads |-> NoPending]
    /\ outcome' = [t \in Threads |-> "failed"]
    /\ UNCHANGED <<durable, history>>

Resolve(t) ==
    \/ ResolveNewQuestion(t)
    \/ ResolveCancelled(t)
    \/ ResolveClarify(t)
    \/ ResolveReady(t)

Request(t) ==
    \/ \E m \in Message : Begin(t, m)
    \/ BeginDenied(t)
    \/ RestoreMemory(t)
    \/ RestoreLoad(t)
    \/ RestoreInstall(t)
    \/ Ask(t)
    \/ Resolve(t)
    \/ Succeed(t)
    \/ Fail(t)
    \/ StartPending(t)
    \/ ClearDurable(t)
    \/ PersistRead(t)
    \/ PersistWrite(t)
    \/ Respond(t)
    \/ ClearMemory(t)
    \/ Wipe(t)
    \/ StoreError(t)

SessionNext ==
    \/ \E t \in Threads : Request(t)
    \/ Restart

SessionSpec == SessionInit /\ [][SessionNext]_sessionVars
-----------------------------------------------------------------------------
SessionTypeOK ==
    /\ memory \in Pending \cup {NoPending}
    /\ durable \in Pending \cup {NoPending}
    /\ pc \in [Threads -> {"idle", "restore", "load", "install", "ask", "resolve", "plan",
                           "run", "clear", "persist", "write", "wipe", "done"}]
    /\ msg \in [Threads -> Message]
    /\ seen \in [Threads -> Pending \cup {NoPending}]
    /\ outcome \in [Threads -> {"failed", "replaced", "cancelled", "clarified", "answered"}]
    /\ told \in Pending \cup {NoPending}
    /\ lost \in BOOLEAN
    /\ asked \in Nat

Quiet == \A t \in Threads : pc[t] = "idle"

\* The front end sends no request of a session before the last one has been answered.
OneAtATime == \A s, t \in Threads : pc[s] # "idle" /\ pc[t] # "idle" => s = t

\* The third message in a row that helps nothing cancels the pending query, and
\* a restart does not start the count anew: a user is asked again twice at most.
AskedTwiceAtMost == asked < MaxClarifications

Inv == SessionTypeOK /\ AskedTwiceAtMost

\* Between requests SQLite holds the pending query that the user is in the
\* middle of, and none after an answer, a cancellation or a clearing, whatever
\* failed and whenever the process died; the exception is the one that
\* RestartResumes is about, a request that ends before it restores the session.
ResumesWhereTold == (Quiet /\ ~lost) => durable = told

\* docs/BankInsight_NL2SQL (section 4.2, line 87): the pending query is written
\* to SQLite and "can still be continued after the backend restarts".
RestartResumes == Quiet => durable = told
=============================================================================
