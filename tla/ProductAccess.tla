--------------------------- MODULE ProductAccess ---------------------------
(***************************************************************************)
(* ProductQueryService between the accounts and what is kept of the        *)
(* answers: questions and drills add records, the history, exports and     *)
(* shares hand them out again, an administrator clears sessions.  Rights   *)
(* are configured in the environment of the process and copied into the    *)
(* tokens it hands out; records and shares outlive it.  An account has one *)
(* session here.  Any request may end at any step, or not be made: this    *)
(* stands for a frozen account (SecurityAlerts), a statement that fails, a *)
(* token that is logged out, and a token or a share that has expired.      *)
(***************************************************************************)
EXTENDS PlanChecks

CONSTANTS
    Requests,       \* the requests that may be served at the same time
    Accounts, QueryIds, ShareIds,
    Environments,   \* the configurations: account -> [role, orgs, metrics, restricted]
    Plans,          \* the plans of the answers to questions
    Sensitive       \* SENSITIVE_METRICS

ASSUME PlansAssumption ==
    Plans \subseteq [op : STRING, scope : STRING, orgs : Seq(Organizations),
                     metrics : Seq(Metrics), flags : SUBSET STRING]

VARIABLES
    env,            \* the configuration of this process
    tokens,         \* ProductAuthService._tokens: account -> its rights at login
    context,        \* InMemorySessionStore: the accounts whose session has a focus
    records,        \* query_history: id -> [state, owner, plan]
    shares,         \* shared_queries: id -> [state, query]
    requests        \* where each request stands

vars == <<env, tokens, context, records, shares, requests>>
login == <<env, tokens>>

NoRights == [role |-> "none", orgs |-> {}, metrics |-> {}, restricted |-> TRUE]
NoPlan == [op |-> None]
NoRecord == [state |-> "free", owner |-> "nobody", plan |-> NoPlan]

\* queries: what it is about, plan: of the record it will save, out: what it hands out.
\* History: audited, its event is written; raced, the account of the session that is
\* cleared worked on it meanwhile.
Idle == [pc |-> "idle", how |-> "none", who |-> "nobody", rights |-> NoRights,
         queries |-> {}, session |-> "nobody", plan |-> NoPlan, out |-> {},
         audited |-> FALSE, raced |-> FALSE]

Init ==
    /\ env \in Environments
    /\ tokens = [a \in Accounts |-> NoRights]
    /\ context = {}
    /\ records = [q \in QueryIds |-> NoRecord]
    /\ shares = [s \in ShareIds |-> [state |-> "free", query |-> "none"]]
    /\ requests = [r \in Requests |-> Idle]

-----------------------------------------------------------------------------
\* Rights (UserContext)

CanQueryData(u) == u.role = "analyst" /\ u.metrics # {}
IsAdmin(u) == u.role = "admin"

\* _authorize_plan
Allowed(p, u) == (u.role = "viewer" \/ CanQueryData(u)) /\ Authorized(p, u)

\* _should_mask_values
Masked(p, u) == IsAdmin(u) \/ (u.role = "viewer" /\ Range(p.metrics) \cap Sensitive # {})

Kept == {q \in QueryIds : records[q].state = "kept"}
KeptOf(a) == {q \in Kept : records[q].owner = a}

\* _owned_query; the mutant gives an owner what the present rights no longer allow.
MutantOwned(q, a, u) == q \in Kept /\ (IsAdmin(u) \/ records[q].owner = a)

Owned(q, a, u) ==
    /\ q \in Kept
    /\ IsAdmin(u) \/ (records[q].owner = a /\ Allowed(records[q].plan, u))

\* _visible_history_records
Visible(queries, u) == {q \in queries : IsAdmin(u) \/ Allowed(records[q].plan, u)}

\* _response_from_record, _sanitize_record_for_user
Shown(queries, u) ==
    { [owner |-> records[q].owner, plan |-> records[q].plan,
       masked |-> Masked(records[q].plan, u)] : q \in queries }

-----------------------------------------------------------------------------
\* Requests

\* The steps of a request that will give its session a focus or a record.
Works == {"ask", "save"}

At(r, pc) == requests[r].pc = pc
Goto(r, pc) == requests' = [requests EXCEPT ![r].pc = pc]

\* user_context: a request carries the rights of its token.
Begun(a, how, pc) ==
    [Idle EXCEPT !.pc = pc, !.how = how, !.who = a, !.rights = tokens[a]]

Start(r, request) ==
    /\ At(r, "idle") /\ tokens[request.who] # NoRights
    /\ requests' = [x \in Requests |->
         IF x = r THEN request
         ELSE [requests[x] EXCEPT !.raced =
                 @ \/ (request.pc \in Works /\ requests[x].session = request.who)]]

\* The event of the request is written; then what it has is handed out.
Audit(r) ==
    /\ At(r, "audit")
    /\ requests' = [requests EXCEPT ![r].pc = "respond", ![r].audited = TRUE]
    /\ UNCHANGED <<login, context, records, shares>>

\* The response is sent, or the request is refused or fails.
End(r) ==
    /\ ~At(r, "idle")
    /\ requests' = [requests EXCEPT ![r] = Idle]
    /\ UNCHANGED <<login, context, records, shares>>

\* query: the question is audited, answered in its session, and saved.
AskQuestion(r, a) ==
    /\ Start(r, Begun(a, "query", "ask"))
    /\ UNCHANGED <<login, context, records, shares>>

Answer(r, p) ==
    /\ At(r, "ask")
    /\ CanQueryData(requests[r].rights) /\ Allowed(p, requests[r].rights)
    /\ context' = context \cup {requests[r].who}
    /\ requests' = [requests EXCEPT ![r].pc = "save", ![r].plan = p]
    /\ UNCHANGED <<login, records, shares>>

\* time_drill: one metric of one organization of a record.
DrillPlan(p) == [p EXCEPT !.op = "time_drill", !.scope = "selected", !.flags = {}]

TimeDrill(r, a, q) ==
    /\ CanQueryData(tokens[a]) /\ Owned(q, a, tokens[a])
    /\ Len(records[q].plan.metrics) = 1 /\ Len(records[q].plan.orgs) = 1
    /\ Start(r, [Begun(a, "drill", "save") EXCEPT !.plan = DrillPlan(records[q].plan)])
    /\ UNCHANGED <<login, context, records, shares>>

\* save_query, and the response made of the same record.
SaveQuery(r, q) ==
    /\ At(r, "save") /\ records[q].state = "free"
    /\ records' = [records EXCEPT ![q] = [state |-> "kept", owner |-> requests[r].who,
                                          plan |-> requests[r].plan]]
    /\ requests' = [requests EXCEPT ![r].pc = "audit", ![r].out =
         {[owner |-> requests[r].who, plan |-> requests[r].plan,
           masked |-> Masked(requests[r].plan, requests[r].rights)]}]
    /\ UNCHANGED <<login, context, shares>>

\* get_query and session_history are not audited, history is.
GetQuery(r, a, q) ==
    /\ Owned(q, a, tokens[a])
    /\ Start(r, [Begun(a, "view", "respond") EXCEPT !.out = Shown({q}, tokens[a])])
    /\ UNCHANGED <<login, context, records, shares>>

History(r, a, how) ==
    LET listed == IF IsAdmin(tokens[a]) THEN Kept ELSE KeptOf(a)
    IN /\ Start(r, [Begun(a, how, IF how = "history" THEN "audit" ELSE "respond") EXCEPT
                     !.out = Shown(Visible(listed, tokens[a]), tokens[a])])
       /\ UNCHANGED <<login, context, records, shares>>

ExportRecord(r, a, q) ==
    /\ CanQueryData(tokens[a]) /\ Owned(q, a, tokens[a])
    /\ Start(r, [Begun(a, "export", "audit") EXCEPT !.out = Shown({q}, tokens[a])])
    /\ UNCHANGED <<login, context, records, shares>>

\* batch_export_records: everything, or nothing when one record is out of reach.
BatchExport(r, a) ==
    /\ CanQueryData(tokens[a])
    /\ \A q \in KeptOf(a) : Allowed(records[q].plan, tokens[a])
    /\ Start(r, [Begun(a, "export", "audit") EXCEPT !.out = Shown(KeptOf(a), tokens[a])])
    /\ UNCHANGED <<login, context, records, shares>>

\* create_share: the row refers to a record that must still be there.
CheckShare(r, a, q) ==
    /\ CanQueryData(tokens[a]) /\ Owned(q, a, tokens[a])
    /\ Start(r, [Begun(a, "share", "insert") EXCEPT !.queries = {q}])
    /\ UNCHANGED <<login, context, records, shares>>

\* The mutant is without FOREIGN KEY(query_id) or PRAGMA foreign_keys=ON.
MutantInsertShare(r, s) ==
    /\ At(r, "insert") /\ shares[s].state = "free"
    /\ \E q \in requests[r].queries :
         shares' = [shares EXCEPT ![s] = [state |-> "live", query |-> q]]
    /\ Goto(r, "audit")
    /\ UNCHANGED <<login, context, records>>

InsertShare(r, s) ==
    /\ At(r, "insert") /\ shares[s].state = "free"
    /\ requests[r].queries \subseteq Kept
    /\ \E q \in requests[r].queries :
         shares' = [shares EXCEPT ![s] = [state |-> "live", query |-> q]]
    /\ Goto(r, "audit")
    /\ UNCHANGED <<login, context, records>>

\* resolve_share: the share is read, then its record, for the one who looks.
OpenShare(r, a, s) ==
    /\ shares[s].state = "live"
    /\ Start(r, [Begun(a, "shared", "load") EXCEPT !.queries = {shares[s].query}])
    /\ UNCHANGED <<login, context, records, shares>>

LoadShared(r) ==
    /\ At(r, "load")
    /\ \A q \in requests[r].queries : q \in Kept /\ Allowed(records[q].plan, requests[r].rights)
    /\ requests' = [requests EXCEPT ![r].pc = "audit",
                                    ![r].out = Shown(requests[r].queries, requests[r].rights)]
    /\ UNCHANGED <<login, context, records, shares>>

-----------------------------------------------------------------------------
(* clear_session: the focus is dropped, then one transaction deletes the   *)
(* shares of the queries it has read and every query of the session; a     *)
(* share made in between of a query saved in between forbids it.           *)

Working(b) == \E r \in Requests : requests[r].who = b /\ requests[r].pc \in Works

\* The ways of an administrator, with the records of the session or without.
Clearings == {"clear", "delete"}

Cleared(a, delete_history) ==
    IF delete_history THEN Begun(a, "delete", "select") ELSE Begun(a, "clear", "respond")

\* The mutant takes the session of the administrator: _internal_session_id.
MutantClearMemory(r, a, b, delete_history) ==
    /\ IsAdmin(tokens[a])
    /\ Start(r, [Cleared(a, delete_history) EXCEPT !.session = b, !.raced = Working(b)])
    /\ context' = context \ {a}
    /\ UNCHANGED <<login, records, shares>>

ClearMemory(r, a, b, delete_history) ==
    /\ IsAdmin(tokens[a])
    /\ Start(r, [Cleared(a, delete_history) EXCEPT !.session = b, !.raced = Working(b)])
    /\ context' = context \ {b}
    /\ UNCHANGED <<login, records, shares>>

SelectQueries(r) ==
    /\ At(r, "select")
    /\ requests' = [requests EXCEPT ![r].pc = "delete", ![r].queries = KeptOf(requests[r].session)]
    /\ UNCHANGED <<login, context, records, shares>>

\* The mutant tells the administrator and writes no event.
MutantDeleteSession(r) ==
    LET gone == KeptOf(requests[r].session)
        cut == {s \in ShareIds : shares[s].query \in requests[r].queries}
    IN /\ At(r, "delete")
       /\ \A s \in ShareIds \ cut : shares[s].query \notin gone
       /\ records' = [q \in QueryIds |-> IF q \in gone THEN [NoRecord EXCEPT !.state = "gone"]
                                         ELSE records[q]]
       /\ shares' = [s \in ShareIds |-> IF s \in cut THEN [state |-> "gone", query |-> "none"]
                                        ELSE shares[s]]
       /\ Goto(r, "respond")
       /\ UNCHANGED <<login, context>>

DeleteSession(r) ==
    LET gone == KeptOf(requests[r].session)
        cut == {s \in ShareIds : shares[s].query \in requests[r].queries}
    IN /\ At(r, "delete")
       /\ \A s \in ShareIds \ cut : shares[s].query \notin gone
       /\ records' = [q \in QueryIds |-> IF q \in gone THEN [NoRecord EXCEPT !.state = "gone"]
                                         ELSE records[q]]
       /\ shares' = [s \in ShareIds |-> IF s \in cut THEN [state |-> "gone", query |-> "none"]
                                        ELSE shares[s]]
       /\ Goto(r, "audit")
       /\ UNCHANGED <<login, context>>

-----------------------------------------------------------------------------
\* Logins and restarts

Login(a) ==
    /\ tokens[a] = NoRights
    /\ tokens' = [tokens EXCEPT ![a] = env[a]]
    /\ UNCHANGED <<env, context, records, shares, requests>>

\* The mutant keeps the tokens over a restart.
MutantRestart(e) ==
    /\ env' = e
    /\ context' = {}
    /\ requests' = [r \in Requests |-> Idle]
    /\ UNCHANGED <<tokens, records, shares>>

\* The process ends, and another one starts with its configuration.
Restart(e) ==
    /\ env' = e
    /\ tokens' = [a \in Accounts |-> NoRights]
    /\ context' = {}
    /\ requests' = [r \in Requests |-> Idle]
    /\ UNCHANGED <<records, shares>>

Next ==
    \/ \E r \in Requests, a \in Accounts :
        \/ AskQuestion(r, a)
        \/ \E how \in {"history", "view"} : History(r, a, how)
        \/ BatchExport(r, a)
        \/ \E q \in QueryIds :
            TimeDrill(r, a, q) \/ GetQuery(r, a, q) \/ ExportRecord(r, a, q) \/ CheckShare(r, a, q)
        \/ \E s \in ShareIds : OpenShare(r, a, s)
        \/ \E b \in Accounts, delete_history \in BOOLEAN : ClearMemory(r, a, b, delete_history)
    \/ \E r \in Requests :
        \/ \E p \in Plans : Answer(r, p)
        \/ \E q \in QueryIds : SaveQuery(r, q)
        \/ \E s \in ShareIds : InsertShare(r, s)
        \/ LoadShared(r) \/ SelectQueries(r) \/ DeleteSession(r) \/ Audit(r) \/ End(r)
    \/ \E a \in Accounts : Login(a)
    \/ \E e \in Environments : Restart(e)

Spec == Init /\ [][Next]_vars

-----------------------------------------------------------------------------
\* Properties

Answers == {DrillPlan(p) : p \in Plans} \cup Plans
Handed == [owner : Accounts, plan : Answers, masked : BOOLEAN]

\* What is kept are records of accounts, and a share has a query unless it is no more.
TypeOK ==
    /\ env \in Environments
    /\ \A a \in Accounts : tokens[a] \in {NoRights, env[a]}
    /\ context \subseteq Accounts
    /\ \A q \in QueryIds :
        \/ records[q] \in [state : {"kept"}, owner : Accounts, plan : Answers]
        \/ records[q] \in [state : {"free", "gone"}, owner : {"nobody"}, plan : {NoPlan}]
    /\ \A s \in ShareIds :
        \/ shares[s] \in [state : {"live"}, query : QueryIds]
        \/ shares[s] \in [state : {"free", "gone"}, query : {"none"}]
    /\ \A r \in Requests : requests[r].out \subseteq Handed /\ requests[r].queries \subseteq QueryIds

\* Under whatever rights a record was made, shared or listed: what is about to be handed
\* out with its values is within the rights that the present configuration gives the
\* one who asks, of sensitive metrics nothing to a viewer, and another's only by a share.
WithinRights ==
    \A r \in Requests : At(r, "respond") =>
        LET a == requests[r].who
        IN \A x \in requests[r].out :
            \/ x.masked
            \/ /\ Allowed(x.plan, env[a])
               /\ env[a].role = "viewer" => Range(x.plan.metrics) \cap Sensitive = {}
               /\ x.owner = a \/ requests[r].how = "shared"

\* A share refers to a record that is there, whatever is cleared while it is made.
NoOrphanShare ==
    \A s \in ShareIds : shares[s].state = "live" => shares[s].query \in Kept

\* The ways to an answer or to a deletion that the audit covers.
Recorded == {"query", "drill", "history", "export", "share", "shared", "delete"}

\* docs (permission layers, "audit and alerts"): nothing is asked, drilled, listed,
\* exported or shared, and no session's records are deleted, without its event before
\* the response.  A single record or a session's records are handed out without one, and
\* the focus of a session is dropped without one.
Accounted ==
    \A r \in Requests :
        At(r, "respond") /\ requests[r].how \in Recorded => requests[r].audited

\* A cleared session is forgotten when the administrator is told so, unless its account
\* was at work on it meanwhile: the focus first, the records once they are deleted.
ClearedForgets ==
    \A r \in Requests :
        LET b == requests[r].session
        IN requests[r].how \in Clearings /\ At(r, "respond") /\ ~requests[r].raced =>
            /\ b \notin context
            /\ requests[r].how = "delete" => KeptOf(b) = {}
=============================================================================
