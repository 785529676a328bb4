----------------------------- MODULE PlanChecks -----------------------------
(***************************************************************************)
(* What stands between a plan and its answer: coverage of the duties, the  *)
(* plan, the viewer's rights, the statement, its agreement with the plan,  *)
(* its execution inside the viewer's scope, and the result.                *)
(* A plan of the model has the fields of a plan of the rules.              *)
(***************************************************************************)
EXTENDS RuleSql

CONSTANTS Metrics,              \* the catalog's metrics
          MaxLimit              \* the largest number of rows a plan may ask for

\* QueryPlan
PlanFields == {"src", "op", "orgs", "scope", "metrics", "cur", "cmp", "start", "end", "filters",
               "sort", "limit", "shape", "allow_empty", "flags"}

\* A date that is no date (only a model writes one).
Malformed == "malformed"

-----------------------------------------------------------------------------
\* AnswerCoverageValidator

RankOperations == {"rank", "period_change_rank", "multi_rank", "multi_rank_change",
                   "period_rank_extremes", "profile", "three_dimension_profile", "rank_threshold"}
AverageOperations == {"province_average_compare", "count_vs_average",
                      "multi_metric_province_compare"}
DifferenceOperations == {"difference", "growth", "province_average_compare", "cross_difference",
                         "mom_yoy", "multi_period_change", "period_change_rank",
                         "multi_rank_change"}
ThresholdOperations == {"threshold", "count_condition", "condition_members",
                        "multi_metric_province_compare", "rank_threshold"}

Supported(p) ==
    { d \in {"rank", "province_average", "growth", "difference", "threshold", "count",
             "organization_list", "profile", "extrema", "trend", "sum"} :
        \/ p.op = "multi_condition"
        \/ CASE d = "rank" -> p.op \in RankOperations \/ "rank_population_all" \in p.flags
             [] d = "province_average" -> p.op \in AverageOperations
             [] d = "growth" -> p.op \in {"growth", "period_change_rank"}
             [] d = "difference" ->
                  p.op \in DifferenceOperations \/ "pairwise_difference" \in p.flags
             [] d = "threshold" ->
                  p.op \in ThresholdOperations \/ "regulatory_check" \in p.flags
             [] d = "count" ->
                  \/ p.op \in {"count_condition", "count_vs_average",
                               "multi_metric_province_compare"}
                  \/ "require_organization_count" \in p.flags
             [] d = "organization_list" ->
                  \/ p.op = "condition_members" \/ p.op \in RankOperations
                  \/ "require_organization_list" \in p.flags
             [] d = "profile" ->
                  p.op \in {"profile", "three_dimension_profile"} \/ "needs_summary" \in p.flags
             [] d = "extrema" ->
                  \/ p.op \in {"extrema", "period_extrema", "period_rank_extremes"}
                  \/ "include_extrema" \in p.flags
             [] d = "trend" -> p.op = "quarterly_trend"
             [] d = "sum" -> p.op \in {"sum", "reconcile", "composition"} }

Covers(q, p) == Obligations(q) \subseteq Supported(p)

-----------------------------------------------------------------------------
\* PlanValidator

NeedsCurrentDate ==
    {"value", "rank", "ratio", "province_average_compare", "threshold", "rank_threshold",
     "period_values", "condition_members", "sum", "composition", "profile", "cross_difference",
     "multi_rank", "multi_rank_change", "three_dimension_profile", "reconcile",
     "multi_metric_province_compare"}
NeedsComparisonDate ==
    {"difference", "growth", "period_values", "mom_yoy", "multi_period_change",
     "period_change_rank", "multi_rank_change"}
NeedsPeriod == {"daily_average", "quarterly_trend", "period_rank_extremes", "period_extrema"}
AllowedOperations ==
    NeedsCurrentDate \cup NeedsComparisonDate \cup NeedsPeriod
    \cup {"multi_condition", "extrema", "count_condition", "count_vs_average"}

ValidPlan(p) ==
    LET period == p.start # None /\ p.end # None
    IN /\ p.op \in AllowedOperations
       /\ p.metrics # <<>> /\ Range(p.metrics) \subseteq Metrics
       /\ p.scope = "selected" => p.orgs # <<>> /\ Range(p.orgs) \subseteq Organizations
       /\ Malformed \notin {p.cur, p.cmp, p.start, p.end}
       /\ p.op \in NeedsCurrentDate \cup NeedsComparisonDate => p.cur # None
       /\ p.op \in NeedsComparisonDate => p.cmp # None
       /\ p.op \in NeedsPeriod => period
       /\ p.op = "count_vs_average" => (p.cur # None \/ period) /\ p.filters = "average"
       /\ p.op = "growth" => Range(p.metrics) \cap RatioMetrics = {}
       /\ p.op = "ratio" => Len(p.metrics) = 2
       /\ p.op = "composition" => Len(p.metrics) >= 3
       /\ p.op \in {"multi_rank", "multi_rank_change", "three_dimension_profile"}
            => p.scope = "selected"
       /\ p.op = "multi_metric_province_compare"
            => p.scope = "all" /\ Len(p.metrics) >= 2 /\ p.filters = "joint"
       /\ p.op \in {"rank", "rank_threshold"}
            => Len(p.metrics) = 1 /\ p.sort = SortDirection(Head(p.metrics))
       /\ p.limit \in 0..MaxLimit

-----------------------------------------------------------------------------
(* _authorize_plan.  A user has the organizations and metrics of its role; *)
(* restricted says that the organizations are not simply all of them.      *)

\* A mutant: an operation on an average of the province is forgotten.
MutantCrossOrganizationOperations ==
    {"rank", "rank_threshold", "province_average_compare", "multi_condition",
     "profile", "period_rank_extremes", "period_change_rank", "multi_rank", "multi_rank_change",
     "three_dimension_profile", "multi_metric_province_compare", "condition_members"}

CrossOrganizationOperations ==
    {"rank", "rank_threshold", "province_average_compare", "multi_condition", "count_vs_average",
     "profile", "period_rank_extremes", "period_change_rank", "multi_rank", "multi_rank_change",
     "three_dimension_profile", "multi_metric_province_compare", "condition_members"}

SpansProvince(p) ==
    p.op \in CrossOrganizationOperations \/ "rank_population_all" \in p.flags

Authorized(p, user) ==
    /\ Range(p.metrics) # {} /\ Range(p.metrics) \subseteq user.metrics
    /\ p.scope = "selected" => p.orgs # <<>>
    /\ Range(p.orgs) \subseteq Organizations
    /\ user.restricted => /\ p.scope = "selected"
                          /\ Range(p.orgs) \subseteq user.orgs
                          /\ ~SpansProvince(p)

\* The part of the data that the plan may see.
AccessScope(p, user) ==
    LET narrow == user.restricted \/ (p.scope = "selected" /\ ~SpansProvince(p))
    IN [metrics |-> Range(p.metrics), narrow |-> narrow,
        orgs |-> IF narrow THEN Range(p.orgs) ELSE Organizations]

\* _authorize_question: the organizations a question names.
QuestionAllowed(q, user) == user.restricted => Range(q.orgs) \subseteq user.orgs

-----------------------------------------------------------------------------
\* SQLGuard: one statement that only reads, of the approved tables by their bare names.

ApprovedTables == {"organizations", "metrics", "derived_rules", "metric_values"}
\* A mutant: a table may be named with its schema.
MutantGuarded(sql) == sql.form = "select"

Guarded(sql) == sql.form = "select" /\ sql.tables \subseteq ApprovedTables

\* AlignmentValidator
RequiredDates(p) ==
    ({p.cur}
     \cup (IF p.op \in {"difference", "growth", "period_values", "multi_condition", "mom_yoy",
                        "profile", "multi_period_change", "period_change_rank",
                        "multi_rank_change"}
           THEN {p.cmp} ELSE {})
     \cup (IF \/ p.op \in {"daily_average", "quarterly_trend", "extrema", "count_vs_average",
                           "period_rank_extremes", "period_extrema"}
              \/ p.cur = None
           THEN {p.start, p.end} ELSE {})) \ {None}

Aligned(p, sql) ==
    /\ Range(p.metrics) \subseteq sql.metrics \/ Range(p.metrics) = Metrics
    /\ p.scope = "selected" => Range(p.orgs) \subseteq sql.names
    /\ RequiredDates(p) \subseteq sql.dates
    /\ p.op \in {"rank", "rank_threshold"} =>
         /\ "RANK" \in sql.uses
         /\ (IF p.sort = "desc" THEN "desc" ELSE "asc") \in sql.order
         /\ p.limit > 0 => \/ "top_n" \in sql.uses
                           \/ "bottom_n" \in sql.uses /\ "select_bottom_rank" \in p.flags
    /\ p.op \in {"province_average_compare", "multi_metric_province_compare"} => "AVG" \in sql.uses
    /\ p.op \in {"growth", "ratio"} => "safe_division" \in sql.uses

-----------------------------------------------------------------------------
(* Execution in the scope: metric_values is a view of what the scope       *)
(* contains.  reported: the organizations that have reported their values  *)
(* (an increment may bring a day before all of them have).                 *)

Executable(sql) == sql.shows # {}

Readable(sql, scope, reported) ==
    IF "main.metric_values" \in sql.tables
    THEN reported \X Metrics
    ELSE (reported \cap scope.orgs) \X scope.metrics

\* The cells (organization, metric) that the rows can speak of.
Cells(sql, scope, reported) ==
    { c \in Readable(sql, scope, reported) : c[1] \in sql.shows /\ c[2] \in sql.metrics }

\* The organizations that the ranks and averages were in fact taken over.
Population(sql, scope, reported) ==
    { c[1] : c \in { c \in Readable(sql, scope, reported) : c[1] \in sql.over } }

Rows(sql, cells) ==
    CASE sql.row = "one" -> 1
      [] sql.row = "org" -> Cardinality({ c[1] : c \in cells })
      [] OTHER -> Cardinality(cells)

-----------------------------------------------------------------------------
\* ResultValidator

ResultColumns(p) ==
    CASE p.op \in {"rank"} -> {"metric_rank"}
      [] p.op = "ratio" -> {"derived_value"}
      [] p.op = "province_average_compare" -> {"province_average"}
      [] p.op = "sum" -> {"metric_value", "total_value"}
      [] p.op = "composition" -> {"metric_id", "derived_value"}
      [] p.op = "mom_yoy" -> {"current_value", "mom_change", "yoy_change"}
      [] p.op = "count_vs_average" ->
           IF p.start # None THEN {"matching_days", "total_days", "matching_percentage"}
           ELSE {"matching_organizations", "total_organizations"}
      [] p.op = "profile" -> {"metric_id", "metric_value", "metric_rank"} \cup
           (IF "performance_profile" \in p.flags THEN {"performance_label"} ELSE {})
      [] p.op = "cross_difference" -> {"metric_id", "metric_value", "difference_value"}
      [] p.op = "period_rank_extremes" -> {"average_value", "rank_type", "metric_rank"}
      [] p.op = "period_extrema" -> {"data_date", "metric_value", "extrema_type"}
      [] p.op = "multi_period_change" ->
           {"metric_id", "comparison_value", "current_value", "change_value"}
      [] p.op = "period_change_rank" -> {"result_value", "result_rank"}
      [] p.op \in {"multi_rank", "three_dimension_profile"} ->
           {"metric_id", "metric_value", "metric_rank"}
      [] p.op = "multi_rank_change" -> {"metric_id", "previous_rank", "current_rank", "rank_change"}
      [] p.op = "reconcile" ->
           IF "npl_reconciliation" \in p.flags
           THEN {"npl_rate", "npl_balance", "loan_balance", "calculated_rate",
                 "difference_value", "is_equal"}
           ELSE {"corporate_value", "personal_value", "total_value", "difference_value", "is_equal"}
      [] p.op = "rank_threshold" -> {"metric_value", "metric_rank", "threshold_met"}
      [] p.op = "period_values" -> {"data_date", "metric_value"}
      [] p.op = "condition_members" -> {"org_id", "org_name", "metric_value"}
      [] p.op = "multi_metric_province_compare" ->
           {"org_name", "metric_id", "metric_value", "province_average"}
      [] OTHER -> {}

ValidResult(p, sql, cells) ==
    /\ Rows(sql, cells) > 0 \/ p.allow_empty
    /\ p.shape = "single_row" => Rows(sql, cells) = 1
    /\ p.src = "rule" => ResultColumns(p) \subseteq sql.columns
    /\ "metric_id" \in sql.columns => { c[2] : c \in cells } \subseteq Range(p.metrics)
    /\ p.scope = "selected" /\ "org_id" \in sql.columns
         => { c[1] : c \in cells } \subseteq Range(p.orgs)
    /\ "require_organization_list" \in p.flags => sql.columns \cap OrgColumns # {}
    /\ "performance_label" \in sql.columns => "metric_rank" \in sql.columns

\* _validate_rank_semantics: a model's ranks are compared with ranks of all organizations.
TrueRanks(p, sql, cells, scope) ==
    p.src = "llm" /\ "rank_population_all" \in p.flags =>
        /\ ~scope.narrow
        /\ "metric_id" \in sql.columns
        /\ sql.columns \cap {"current_rank", "metric_rank", "rank"} # {}
        /\ p.cur # None /\ cells # {} => sql.over = Organizations

\* _validate_province_average_semantics: every average shown is that of all organizations.
TrueAverages(p, sql, cells, scope, reported) ==
    p.cur # None /\ "province_average" \in sql.columns =>
        /\ ~scope.narrow
        /\ "metric_id" \in sql.columns \/ Len(p.metrics) = 1
        /\ cells # {} => reported = Organizations /\ sql.over = Organizations

ResultAccepted(p, sql, cells, scope, reported) ==
    /\ ValidResult(p, sql, cells)
    /\ TrueRanks(p, sql, cells, scope)
    /\ TrueAverages(p, sql, cells, scope, reported)
=============================================================================
