--------------------------- MODULE QueryPipeline ---------------------------
(***************************************************************************)
(* Text2SQLService.ask under ProductQueryService.query: a question is      *)
(* classified against the memory of its session, planned by the rules,     *)
(* rewritten by the model when it leans on the dialogue, planned by the    *)
(* model when the rules give up, and every plan passes the checks of       *)
(* PlanChecks before its answer enters the memory.  One session and one    *)
(* user; what two requests of a session do to each other is in             *)
(* PendingSession.                                                         *)
(***************************************************************************)
EXTENDS PlanChecks

CONSTANTS
    Users,          \* what a user may see: [orgs, metrics, restricted]
    Reports,        \* the sets of organizations that may have reported
    Openings,       \* the questions that may open a dialogue
    FollowUps,      \* the questions asked when something was answered
    Supplies,       \* the organizations and the metrics a reply may name: [orgs, metrics]
    Rewordings(_),  \* the rewritings the model may give of a question
    Replies,        \* the plans with SQL the model may give: [formula, plan, sql]
    ModelKnows,     \* the questions for which the model gives a plan at all
    LlmRetries,     \* settings.llm_retries
    MaxTurns        \* bound: questions answered in a dialogue

\* Questions name organizations of the catalog, and a plan of the model has the fields of
\* one of the rules and says that it is the model's.
ASSUME DialogueAssumption ==
    /\ \A q \in Openings \cup FollowUps : q.orgs \in Seq(Organizations)
    /\ \A reply \in Replies : DOMAIN reply.plan = PlanFields /\ reply.plan.src = "llm"

ASSUME PipelineAssumption ==
    /\ LlmRetries \in Nat /\ MaxTurns \in Nat
    /\ \A u \in Users :
        /\ u.orgs \subseteq Organizations /\ u.metrics \subseteq Metrics
        /\ u.restricted \/ u.orgs = Organizations
    /\ \A r \in Reports : r \subseteq Organizations

VARIABLES
    user, reported, \* who asks, and what there is
    memory,         \* SessionState: the focus left by the last answer
    pending,        \* the question kept until its slots are supplied, or NoQuestion
    turns,          \* answers so far
    stage,          \* where the request is
    question,       \* what was asked (response_question)
    planning,       \* what is planned (planning_question): a rewriting, at times
    origin,         \* how planning came about
    attempts,       \* the model's attempts in this stage
    answer          \* the last answer: its plan, SQL, scope and cells

vars == <<user, reported, memory, pending, turns, stage, question, planning, origin, attempts,
          answer>>
request == <<question, planning, origin>>
world == <<user, reported>>

NoQuestion == Question(<<>>, <<>>, "none", {})
NoAnswer == [op |-> None]

Ends == {"answered", "denied", "clarified", "failed", "crashed"}
Stages == {"idle", "rules", "context_rules", "rewrite", "model"} \cup Ends

Init ==
    /\ user \in Users /\ reported \in Reports
    /\ memory = NoMemory /\ pending = NoQuestion /\ turns = 0
    /\ stage = "idle" /\ question = NoQuestion /\ planning = NoQuestion
    /\ origin = "asked" /\ attempts = 0 /\ answer = NoAnswer

-----------------------------------------------------------------------------
\* A request

NewQuestion(q) ==
    /\ question' = q /\ planning' = q
    /\ UNCHANGED <<world, memory, turns, attempts, answer>>

Classified(q) ==
    LET context == Classify(q, memory)
    IN IF context.dependency = "self_contained" THEN "rules"
       ELSE IF context.allow_context_rule THEN "context_rules" ELSE "rewrite"

Missing(q) == MissingSlots(Plan(q, NoMemory, FALSE).candidates)

\* PendingQueryResolver.resolve: a question of its own is no reply to the pending one.
StandsAlone(q) ==
    \/ Plan(q, NoMemory, FALSE).kind = "plan"
    \/ /\ QueryIntent(q)
       /\ LET supplied == { s \in {"organization", "metric", "date"} :
                              CASE s = "organization" -> q.orgs # <<>>
                                [] s = "metric" -> q.metrics # <<>>
                                [] s = "date" -> ResolvedDate(q) # None }
          IN Cardinality(supplied) >= 2 /\ supplied \cap Missing(pending) = {}

\* The questions of a dialogue at this point.
Questionable == IF memory.turn \/ pending # NoQuestion THEN FollowUps ELSE Openings

\* query: _authorize_question, then ask.
Ask(q) ==
    /\ IF ~QuestionAllowed(q, user) THEN stage' = "denied" /\ UNCHANGED pending
       ELSE /\ pending # NoQuestion => StandsAlone(q)
            /\ stage' = Classified(q) /\ pending' = NoQuestion
    /\ origin' = "asked"
    /\ NewQuestion(q)

\* A reply that supplies all that the pending question misses makes it whole.
Supply(orgs, metrics) ==
    /\ pending # NoQuestion
    /\ LET missing == Missing(pending)
           whole == [pending EXCEPT !.orgs = IF "organization" \in missing THEN orgs ELSE @,
                                    !.metrics = IF "metric" \in missing THEN metrics ELSE @,
                                    !.date = IF "date" \in missing THEN "day" ELSE @]
       IN /\ stage' = IF "organization" \in missing /\ ~QuestionAllowed(whole, user)
                      THEN "denied" ELSE "rules"
          /\ NewQuestion(whole)
    /\ origin' = "resumed"
    /\ UNCHANGED pending

Request ==
    /\ stage = "idle" /\ turns < MaxTurns
    /\ \/ \E q \in Questionable : Ask(q)
       \/ \E orgs \in Supplies.orgs, metrics \in Supplies.metrics : Supply(orgs, metrics)

\* The caller has the outcome; nothing of the request is left but the session.
Return ==
    /\ stage \in Ends
    /\ stage' = "idle" /\ question' = NoQuestion /\ planning' = NoQuestion
    /\ origin' = "asked" /\ attempts' = 0 /\ answer' = NoAnswer
    /\ UNCHANGED <<world, memory, pending, turns>>

\* clear_session, and the restart that loses the memory.
ClearSession ==
    /\ stage = "idle"
    /\ memory' = NoMemory /\ pending' = NoQuestion /\ turns' = 0
    /\ UNCHANGED <<world, stage, request, attempts, answer>>

-----------------------------------------------------------------------------
\* The checks and the execution of a plan

End(outcome) ==
    /\ stage' = outcome
    /\ UNCHANGED <<world, memory, pending, turns, request, attempts, answer>>

ListOperations == {"count_condition", "condition_members", "multi_metric_province_compare"}

\* session_store.update: of the plan, what a later question may need; and the
\* organizations of the rows shown.
Remember(p, sql, cells) ==
    memory' = [turn |-> TRUE,
               plan |-> IF p.op \in ListOperations THEN p
                        ELSE [p EXCEPT !.cmp = None, !.start = None, !.end = None, !.sort = None,
                                       !.filters = None, !.limit = 0, !.shape = "multi_row",
                                       !.allow_empty = FALSE, !.flags = {}],
               result |-> IF "org_id" \in sql.columns
                          THEN SetToSeq({ c[1] : c \in cells }) ELSE <<>>]

\* A condition on values picks some of the organizations.
Chosen(sql, cells) ==
    IF sql.chosen
    THEN { { c \in cells : c[1] \in shown } : shown \in SUBSET { c[1] : c \in cells } }
    ELSE {cells}

(* _validated_execute and _response; Rejected is what follows a            *)
(* Text2SQLError.  A PermissionError is none and ends the request.         *)
Attempt(p, sql, Rejected) ==
    IF ~ValidPlan(p) THEN Rejected
    ELSE IF ~Authorized(p, user) THEN End("denied")
    ELSE IF ~(Guarded(sql) /\ Aligned(p, sql) /\ Executable(sql)) THEN Rejected
    ELSE LET scope == AccessScope(p, user)
         IN \E cells \in Chosen(sql, Cells(sql, scope, reported)) :
              IF ResultAccepted(p, sql, cells, scope, reported)
              THEN /\ stage' = "answered" /\ turns' = turns + 1 /\ pending' = NoQuestion
                   /\ answer' = [op |-> p.op, plan |-> p, sql |-> sql, scope |-> scope,
                                 cells |-> cells]
                   /\ Remember(p, sql, cells)
                   /\ UNCHANGED <<world, request, attempts>>
              ELSE Rejected

-----------------------------------------------------------------------------
\* The rules

\* A mutant: a rewriting that the rules have no plan for is rewritten again.
MutantToModel ==
    /\ stage' = IF stage = "context_rules" \/ origin = "rewritten" THEN "rewrite" ELSE "model"
    /\ attempts' = 0
    /\ UNCHANGED <<world, memory, pending, turns, request, answer>>

ToModel ==
    /\ stage' = IF stage = "context_rules" THEN "rewrite" ELSE "model"
    /\ attempts' = 0
    /\ UNCHANGED <<world, memory, pending, turns, request, answer>>

\* A question of this request that the rules have no plan for.
Unplanned(candidates) ==
    IF stage = "rules" /\ origin = "asked" /\ ShouldStartPending(question, candidates)
    THEN /\ pending' = question /\ stage' = "clarified"
         /\ UNCHANGED <<world, memory, turns, request, attempts, answer>>
    ELSE IF stage = "rules" /\ origin = "asked" /\ IsSlotOnlyReply(question)
    THEN End("clarified")
    ELSE ToModel

RuleAttempt ==
    /\ stage \in {"rules", "context_rules"}
    /\ LET context == stage = "context_rules"
           d == Plan(planning, IF context THEN memory ELSE NoMemory, context)
       IN \/ d.kind = "error" /\ End("crashed")
          \/ d.kind = "llm" /\ Unplanned(d.candidates)
          \/ /\ d.kind = "plan"
             /\ IF ~Covers(question, d.plan) THEN ToModel
                ELSE IF CompileFails(d.plan) THEN End("crashed")
                ELSE Attempt(d.plan, RuleSql(d.plan), ToModel)

-----------------------------------------------------------------------------
\* The model

\* A mutant: one attempt too many.
MutantRetry ==
    /\ stage' = IF attempts <= LlmRetries THEN stage ELSE "failed"
    /\ attempts' = attempts + 1
    /\ UNCHANGED <<world, memory, pending, turns, request, answer>>

\* The retry loops: one more attempt, or the last error.
Retry ==
    /\ stage' = IF attempts < LlmRetries THEN stage ELSE "failed"
    /\ attempts' = attempts + 1
    /\ UNCHANGED <<world, memory, pending, turns, request, answer>>

\* A transport error, an answer that is no JSON, a field of the wrong kind.
ModelFails == stage \in {"rewrite", "model"} /\ Retry

\* choices[0] of an empty list, int() of a limit that is no number: no error of errors.py.
ModelBreaks == stage \in {"rewrite", "model"} /\ End("crashed")

ModelUnsure == stage = "rewrite" /\ End("clarified")

\* _target_metrics: with several named, those the planner would take.
TargetMetrics(q) ==
    IF Len(q.metrics) <= 1 \/ "both" \in q.says THEN Range(q.metrics)
    ELSE LET planned == Range(Plan(q, NoMemory, FALSE).candidates.metrics)
         IN IF planned \cap Metrics # {} THEN planned \cap Metrics ELSE Range(q.metrics)

\* _validate_context_rewrite
KeepsOrganizations(q, r) == Range(q.orgs) \subseteq Range(r.orgs)
KeepsMetrics(q, r) == TargetMetrics(q) \subseteq TargetMetrics(r)
\* A mutant: any date will do.
MutantKeepsDate(q, r) == ResolvedDate(q) # None => ResolvedDate(r) # None

KeepsDate(q, r) == ResolvedDate(q) # None => ResolvedDate(r) = ResolvedDate(q)
KeepsDuties(q, r) == Obligations(q) \subseteq Obligations(r)
RewriteValid(q, r) ==
    /\ KeepsOrganizations(q, r) /\ KeepsMetrics(q, r) /\ KeepsDate(q, r) /\ KeepsDuties(q, r)
    /\ Classify(r, NoMemory).dependency = "self_contained"

Rewrite ==
    /\ stage = "rewrite"
    /\ \E r \in Rewordings(question) :
         IF RewriteValid(question, r)
         THEN /\ planning' = r /\ origin' = "rewritten" /\ stage' = "rules" /\ attempts' = 0
              /\ UNCHANGED <<world, memory, pending, turns, question, answer>>
         ELSE Retry

\* parse_llm_plan: the operation that a reply's operation is taken for.
ParsedOperation(reply) ==
    LET p == reply.plan
    IN CASE p.op = "value" /\ reply.formula /\ Len(p.metrics) = 2 -> "ratio"
         [] p.op = "ratio" /\ ~reply.formula -> "multi_condition"
         [] p.op \in {"difference", "growth"} /\ (p.cmp = None \/ reply.formula)
              -> "multi_condition"
         [] p.op = "rank" /\ Len(p.metrics) > 1 -> "multi_condition"
         [] OTHER -> p.op

\* _augment_llm_plan: duties that the question's words add to the model's plan.
Augmented(q, reply) ==
    [reply.plan EXCEPT
        !.op = ParsedOperation(reply),
        !.flags = @ \cup (IF "rank_change" \in q.says THEN {"rank_population_all"} ELSE {})
                    \cup (IF /\ Says(q, {"which_orgs", "performance"})
                             /\ Says(q, {"how_many", "how_many_orgs"})
                          THEN {"require_organization_list"} ELSE {})]

SaysComparison(q) == Says(q, Range(ComparisonKinds))
ComparisonAgrees(q, p) ==
    p.cur # None /\ SaysComparison(q) => p.cmp = ComparisonDate(q, p.cur, None)

\* Ranks of selected organizations are compiled anew, whatever SQL the model wrote.
ModelSql(p, written) ==
    IF "rank_population_all" \in p.flags /\ p.scope = "selected" /\ p.orgs # <<>> /\ p.cur # None
    THEN GlobalRankSql(p) ELSE written

ModelAttempt ==
    /\ stage = "model" /\ planning \in ModelKnows
    /\ \E reply \in Replies :
         LET p == Augmented(planning, reply)
         IN \* date.fromisoformat of the model's date, before any check of the plan
            IF p.cur = Malformed /\ SaysComparison(planning) THEN End("crashed")
            ELSE IF ~ComparisonAgrees(planning, p) \/ ~Covers(question, p) THEN Retry
            ELSE Attempt(p, ModelSql(p, reply.sql), Retry)

-----------------------------------------------------------------------------
Serve ==
    \/ RuleAttempt \/ Rewrite \/ ModelAttempt
    \/ ModelFails \/ ModelBreaks \/ ModelUnsure

Next ==
    \/ Request \/ Return \/ ClearSession
    \/ Serve

Spec == Init /\ [][Next]_vars

-----------------------------------------------------------------------------
TypeOK ==
    /\ user \in Users /\ reported \in Reports
    /\ memory.turn \in BOOLEAN /\ turns \in 0..MaxTurns
    /\ stage \in Stages /\ attempts \in 0..LlmRetries + 1
    /\ origin \in {"asked", "resumed", "rewritten"}

Answered == stage = "answered"
RuleAnswered == Answered /\ answer.plan.src = "rule"
Duties == Obligations(question)
AnswerPopulation == Population(answer.sql, answer.scope, reported)

\* What an answer shows or computes with lies within the organizations and the
\* metrics of who asks, whoever planned it and whatever SQL the model wrote
\* (_authorize_plan, SQLGuard, _apply_scope).
Confined ==
    Answered =>
        /\ answer.cells \subseteq user.orgs \X user.metrics
        /\ AnswerPopulation \subseteq user.orgs

\* A question about a rank or an average of the province is never answered with
\* one taken over the part of it that the execution was confined to
\* (CROSS_ORGANIZATION_OPERATIONS against the operations that compute them).
PopulationWhole ==
    Answered /\ Duties \cap {"rank", "province_average"} # {}
        => AnswerPopulation = answer.sql.over \cap reported

\* The columns in which a duty is met.  Where a condition on values picks the rows, the
\* organizations left are those that meet it, and as many as meet it.
ServingColumns(duty) ==
    LET picked == IF answer.sql.chosen THEN {"org_id"} ELSE {}
    IN
    CASE duty = "rank" -> {"metric_rank", "current_rank", "result_rank"}
      [] duty = "threshold" -> {"threshold_met", "matching_organizations"} \cup picked
      [] duty = "profile" -> {"metric_rank", "current_rank"}
      [] duty = "province_average" -> {"province_average", "matching_percentage",
                                       "matching_organizations", "rank_type"}
      [] duty = "growth" -> {"growth_rate", "result_value"}
      [] duty = "difference" -> {"change_value", "growth_rate", "difference_value",
                                 "difference_from_average", "mom_change", "rank_change",
                                 "result_value"}
                                \cup (IF "pairwise_difference" \in answer.plan.flags
                                      THEN {"metric_value"} ELSE {})
      [] duty = "count" -> {"matching_organizations", "matching_days"} \cup picked
      [] duty = "organization_list" -> {"org_id", "org_name"}
      [] duty = "extrema" -> {"maximum_value", "extrema_type", "rank_type", "data_date"}
      [] duty = "trend" -> {"data_date"}
      [] duty = "sum" -> {"total_value", "component_sum", "denominator_value"}

\* What the coverage takes for done of a plan whose SQL does not do it.  For four duties
\* it goes by a word of the question that the rules noted in the plan, whatever the
\* operation; for a sum also by a reconciliation, of which that of a rate shows none.
Overlooked(duty, p) ==
    \/ duty = "rank" /\ "rank_population_all" \in p.flags /\ p.op \notin RankOperations
    \/ duty = "threshold" /\ "regulatory_check" \in p.flags /\ p.op \notin ThresholdOperations
    \/ duty = "profile" /\ "needs_summary" \in p.flags
         /\ p.op \notin {"profile", "three_dimension_profile"}
    \/ duty = "extrema" /\ "include_extrema" \in p.flags
         /\ p.op \notin {"daily_average", "quarterly_trend", "period_extrema",
                         "period_rank_extremes"}
    \/ duty = "sum" /\ p.op = "reconcile" /\ "npl_reconciliation" \in p.flags

\* A rule answer holds a column for each duty of the question, what is overlooked
\* excepted: what the coverage takes an operation to do, its SQL does.  The difference
\* of two organizations is told from the values of both.
DutiesServed ==
    RuleAnswered => \A duty \in Duties :
        Overlooked(duty, answer.plan) \/ ServingColumns(duty) \cap answer.sql.columns # {}

\* A rule answer is about every organization the question names, at the date it
\* names, also when it was planned from a rewriting or with the dialogue's focus.
AboutWhatWasNamed ==
    RuleAnswered =>
        /\ answer.plan.scope = "all" \/ Range(question.orgs) \subseteq Range(answer.plan.orgs)
        /\ ResolvedDate(question) # None => answer.plan.cur = ResolvedDate(question)

\* _ask: no fallback leads back to what has already failed, and the model has as many
\* attempts at each of its two tasks as are configured: each step of a request that has
\* no outcome leads to a later stage or is one more attempt, so every request ends.
Place == [s \in Stages |->
            CASE s = "context_rules" -> 4 [] s = "rewrite" -> 3 [] s = "rules" -> 2
              [] s = "model" -> 1 [] OTHER -> 0]

LeadsOn ==
    [][ stage \notin Ends \cup {"idle"} =>
            \/ Place[stage'] < Place[stage]
            \/ stage' = stage /\ attempts < LlmRetries /\ attempts' = attempts + 1 ]_vars
=============================================================================
