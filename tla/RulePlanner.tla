---------------------------- MODULE RulePlanner ----------------------------
(***************************************************************************)
(* RulePlanner.plan: the plan the rules make of a question, or the reason  *)
(* to leave it to the model.  What the code finds out with regular         *)
(* expressions is said with the phrases of Questions; the order in which   *)
(* the cases are tried is the order of the table in Operation.             *)
(***************************************************************************)
EXTENDS Questions

RatioMetrics == {"ZB012", "ZB013", "ZB015", "ZB016", "ZB017"}
LowerIsBetter == {"ZB012", "ZB013", "ZB017"}
SortDirection(metric) == IF metric \in LowerIsBetter THEN "asc" ELSE "desc"

\* The metrics a phrase stands for, the first phrase of the code's order first.
MetricGroups == <<
    [says |-> "shares", metrics |-> <<"ZB003", "ZB004", "ZB001">>],
    [says |-> "ratio", metrics |-> <<"ZB002", "ZB001">>],
    [says |-> "profitability", metrics |-> <<"ZB011", "ZB012", "ZB008", "ZB007">>],
    [says |-> "three_dims", metrics |-> <<"ZB001", "ZB002", "ZB013", "ZB011">>],
    [says |-> "operations", metrics |-> <<"ZB001", "ZB002", "ZB013", "ZB015", "ZB016", "ZB017",
                                          "ZB011", "ZB012">>],
    [says |-> "performance", metrics |-> <<"ZB013", "ZB015", "ZB016", "ZB011", "ZB012">>],
    [says |-> "risk", metrics |-> <<"ZB013", "ZB015", "ZB016">>]>>

\* A name that holds an alias of another metric: the alias starts later in it.
AliasInName(metric, name) ==
    \/ metric = "ZB001" /\ name \in {"ZB003", "ZB004"}
    \/ metric = "ZB002" /\ name \in {"ZB005", "ZB006", "ZB013", "ZB014", "ZB017"}

\* _focus_metric_for_rank: one rank asked of several metrics is of the last one.
FocusMetricForRank(q) ==
    IF /\ Len(q.metrics) > 1
       /\ Says(q, {"ordinal", "highest", "lowest", "top3", "bottom3"})
       /\ "how_much_each" \notin q.says
    THEN <<Last(q.metrics)>> ELSE q.metrics

\* _focus_metric_for_threshold: the metric whose alias starts last before the number.
FocusMetricForThreshold(q, metrics) ==
    LET Starts(x) == { i \in DOMAIN q.metrics : x = q.metrics[i] \/ AliasInName(x, q.metrics[i]) }
        named == { x \in Range(metrics) : Starts(x) # {} }
        Later(x, y) == \/ Max(Starts(x)) > Max(Starts(y))
                       \/ (Max(Starts(x)) = Max(Starts(y)) /\ y = q.metrics[Max(Starts(y))])
    IN IF named = {} THEN metrics
       ELSE <<CHOOSE x \in named : \A y \in named : x = y \/ Later(x, y)>>

PlannedMetrics(q, m, use_context) ==
    LET explicit == FocusMetricForRank(q)
        said == SelectSeq(MetricGroups, LAMBDA g :
                    /\ g.says \in q.says
                    /\ g.says = "performance" => explicit = <<>> /\ "operations" \notin q.says)
        metrics == IF said # <<>> THEN said[1].metrics
                   ELSE IF explicit = <<>> /\ use_context THEN m.plan.metrics ELSE explicit
    IN IF "over10" \in q.says /\ Len(metrics) > 1 /\ "risk" \notin q.says
       THEN FocusMetricForThreshold(q, metrics) ELSE metrics

-----------------------------------------------------------------------------
\* What the question asks, as the planner reads it.

AsksPopulation(q) ==
    Says(q, {"which_org", "which_orgs", "performance", "how_many_orgs", "top3", "bottom3"})
AsksCount(q) == Says(q, {"how_many_orgs", "how_many", "how_many_days"})
AsksProfile(q) ==
    Says(q, {"risk", "profitability", "operations", "three_dims", "performance", "overall"})
SaysRanking(q) == Says(q, {"position", "rank_change", "operations"})
TopN(q) == IF Says(q, {"top3", "bottom3"}) THEN 3 ELSE IF "which_org" \in q.says THEN 1 ELSE 0
IsPerformanceProfile(q) == "performance" \in q.says /\ "operations" \notin q.says
AsksReconciliation(q, metrics) ==
    "equals" \in q.says /\ {"ZB001", "ZB003", "ZB004"} \subseteq Range(metrics)
AsksNplReconciliation(q, metrics) ==
    "equals" \in q.says /\ {"ZB002", "ZB013", "ZB014"} \subseteq Range(metrics)
AsksPairwise(q, orgs, metrics) ==
    /\ Len(orgs) = 2 /\ Len(metrics) = 1
    /\ \/ "who_higher" \in q.says
       \/ "which_org" \in q.says /\ Says(q, {"highest", "lowest"})

\* _joint_province_average_filters: the metrics the question compares one by
\* one with the average; it does so when it says both and average.
JointAverageFields(q) ==
    IF {"both", "average"} \subseteq q.says THEN Range(q.metrics) ELSE {}

\* "it and B": a reference joined with organizations the question names.
Linked(q) == q.orgs # <<>> /\ "it" \in q.says /\ (Len(q.orgs) > 1 \/ Says(q, {"shares", "profitability"}))

\* The named ones follow the focus in an order that nothing depends on.
PlannedOrganizations(q, m, use_context) ==
    LET focus == IF m.plan.orgs # <<>> THEN m.plan.orgs ELSE m.result
    IN IF use_context /\ Linked(q) /\ Len(focus) = 1
       THEN <<focus[1]>> \o SetToSeq(Range(q.orgs) \ {focus[1]})
       ELSE IF q.orgs # <<>> \/ ~use_context THEN q.orgs
       ELSE IF m.result # <<>> THEN m.result ELSE m.plan.orgs

OrganizationScope(q, m, use_context) ==
    LET orgs == PlannedOrganizations(q, m, use_context)
        bounded == /\ Len(orgs) >= 2
                   /\ \/ q.orgs # <<>>
                      \/ "the_two" \in q.says
                      \/ m.plan.scope = "selected" /\ Len(m.plan.orgs) >= 2
    IN IF \/ (AsksPopulation(q) /\ ~bounded)
          \/ Says(q, {"province", "average"}) /\ orgs = <<>>
       THEN "all" ELSE "selected"

\* What the rules recognise, whether or not they make a plan of it.
Candidates(q, m, use_context) ==
    LET reference == IF use_context THEN m.plan.cur ELSE None
        current == IF ResolvedDate(q) # None THEN ResolvedDate(q) ELSE reference
    IN [orgs |-> PlannedOrganizations(q, m, use_context),
        scope |-> OrganizationScope(q, m, use_context),
        metrics |-> PlannedMetrics(q, m, use_context),
        cur |-> current,
        cmp |-> ComparisonDate(q, current, reference),
        start |-> PeriodRange(q)[1],
        end |-> PeriodRange(q)[2]]

-----------------------------------------------------------------------------
(* The operation of a question with candidates c: the first row whose      *)
(* condition holds.  "llm" leaves the question to the model; "error" is an *)
(* exception that is none of the program's own (errors.py).                *)

FirstRow(rows) == SelectSeq(rows, LAMBDA row : row[1])[1][2]

ProfileRows(q, c) == <<
    <<c.metrics = <<>>, "llm">>,
    <<c.cur = None /\ c.end = None, "llm">>,
    <<c.scope = "selected" /\ c.orgs = <<>>, "llm">>,
    <<"risk" \in q.says, "profile">>,
    \* year_beginning(None) is a TypeError
    <<"profitability" \in q.says, IF c.cur = None THEN "error" ELSE "profile">>,
    <<"operations" \in q.says, IF c.cur = None THEN "error" ELSE "profile">>,
    <<"three_dims" \in q.says, "three_dimension_profile">>,
    <<IsPerformanceProfile(q), "profile">>,
    <<AsksProfile(q) /\ Len(c.metrics) > 1 /\ SaysRanking(q), "multi_rank">>,
    <<AsksProfile(q) /\ c.cmp = None /\ ~SaysRanking(q)
        /\ ~Says(q, {"ratio", "over10", "ordinal"}), "llm">> >>

PeriodRows(q, c) ==
    LET period == c.start # None
        one == Len(c.metrics) = 1
    IN <<
    <<"both" \in q.says,
      IF "average" \in q.says /\ Len(c.metrics) >= 2
           /\ JointAverageFields(q) = Range(c.metrics)
      THEN "multi_metric_province_compare" ELSE "llm">>,
    <<"trend" \in q.says, IF one /\ period THEN "quarterly_trend" ELSE "llm">>,
    <<period /\ {"average", "top3", "bottom3"} \subseteq q.says /\ one /\ c.scope = "all",
      "period_rank_extremes">>,
    <<Extremes(q) /\ period /\ c.scope = "all", "period_extrema">>,
    <<"daily" \in q.says, IF one /\ period /\ ~AsksCount(q) THEN "daily_average" ELSE "llm">>,
    <<period /\ one /\ Len(c.orgs) = 1 /\ AsksCount(q) /\ "average" \in q.says,
      "count_vs_average">>,
    <<period /\ c.cur = None, "llm">> >>

FormulaRows(q, c) == <<
    <<"shares" \in q.says, "composition">>,
    <<AsksReconciliation(q, c.metrics) \/ AsksNplReconciliation(q, c.metrics), "reconcile">>,
    <<"ratio" \in q.says,
      IF Len(c.orgs) # 1 \/ ("how_different" \in q.says /\ c.start # None)
      THEN "llm" ELSE "ratio">>,
    <<"average" \in q.says,
      IF AsksCount(q) THEN "count_vs_average" ELSE "province_average_compare">> >>

ComparisonRows(q, c) ==
    LET compared == c.cmp # None
        one == Len(c.metrics) = 1
    IN <<
    <<compared /\ "how_much_each" \in q.says
        /\ ~Says(q, {"changed", "growth", "direction", "year_start", "rank_change"}),
      "period_values">>,
    <<compared /\ "rank_change" \in q.says /\ c.scope = "selected", "multi_rank_change">>,
    <<compared /\ ~one,
      IF SaysRanking(q) /\ Says(q, {"changed", "direction", "rank_change"})
      THEN "multi_rank_change"
      ELSE IF "direction" \in q.says THEN "multi_period_change" ELSE "llm">>,
    <<compared /\ {"mom", "yoy"} \subseteq q.says, "mom_yoy">>,
    <<compared /\ (TopN(q) > 0 \/ SaysRanking(q)), "period_change_rank">>,
    <<compared /\ "growth" \in q.says,
      IF Range(c.metrics) \subseteq RatioMetrics THEN "llm" ELSE "growth">>,
    <<compared, "difference">> >>

PointRows(q, c) ==
    LET one == Len(c.metrics) = 1
        threshold == "over10" \in q.says
    IN <<
    <<threshold /\ c.orgs # <<>> /\ "ordinal" \in q.says, IF one THEN "rank_threshold" ELSE "llm">>,
    <<threshold /\ ~one, "llm">>,
    <<threshold /\ AsksCount(q),
      IF "which_orgs" \in q.says THEN "condition_members" ELSE "count_condition">>,
    <<threshold, "threshold">>,
    <<AsksPairwise(q, c.orgs, c.metrics), "value">>,
    <<"how_different" \in q.says /\ ((Len(c.orgs) = 2 /\ one) \/ (Len(c.orgs) = 1 /\ Len(c.metrics) = 2)),
      "cross_difference">>,
    <<~one /\ SaysRanking(q) /\ c.scope = "selected", "multi_rank">>,
    <<TopN(q) > 0 \/ SaysRanking(q) \/ Says(q, {"ordinal", "who_higher", "highest", "lowest"}),
      IF one THEN "rank" ELSE "llm">>,
    <<"sum" \in q.says /\ (~one \/ Len(c.orgs) > 1)
        /\ ~(\E a, b \in Range(c.metrics) : a \in RatioMetrics /\ b \notin RatioMetrics), "sum">>,
    <<Says(q, {"sum", "how_different", "shares"}), "llm">>,
    <<TRUE, "value">> >>

Operation(q, c) ==
    FirstRow(ProfileRows(q, c) \o PeriodRows(q, c) \o FormulaRows(q, c)
             \o ComparisonRows(q, c) \o PointRows(q, c))

-----------------------------------------------------------------------------
\* The plan of an operation.

PlannedComparison(q, c) ==
    IF "risk" \in q.says \/ ~Says(q, {"profitability", "operations"}) THEN c.cmp
    ELSE IF "profitability" \in q.says /\ c.cmp # None THEN c.cmp ELSE "year_start"

PlannedLimit(q, c, op) ==
    CASE op = "period_rank_extremes" -> 3
      [] op = "rank" -> IF TopN(q) > 0 THEN TopN(q) ELSE IF c.scope = "all" THEN 1 ELSE 0
      [] op = "period_change_rank" -> IF TopN(q) > 0 THEN TopN(q) ELSE IF c.scope = "all" THEN 3 ELSE 0
      [] OTHER -> 0

ExpectedShape(q, c, op) ==
    LET one == IF Len(c.orgs) = 1 THEN "single_row" ELSE "multi_row"
    IN CASE op \in {"count_vs_average", "count_condition", "mom_yoy"} -> "single_row"
         [] op = "quarterly_trend" -> "time_series"
         [] op = "value" ->
              IF AsksPairwise(q, c.orgs, c.metrics) \/ Len(c.metrics) > 1 THEN "multi_row" ELSE one
         [] op = "province_average_compare" -> IF Len(c.metrics) = 1 THEN one ELSE "multi_row"
         [] op = "rank" ->
              IF c.scope = "selected" /\ PlannedLimit(q, c, op) = 1 THEN "single_row" ELSE "multi_row"
         [] op \in {"difference", "growth", "ratio", "threshold", "daily_average", "reconcile"} -> one
         [] OTHER -> "multi_row"

Assumptions(q, c, op) ==
    { f \in {"rank_population_all", "include_extrema", "profitability_profile",
             "major_operating_profile", "performance_profile", "risk_profile",
             "select_highest_value", "select_lowest_value", "select_bottom_rank",
             "needs_summary", "regulatory_check", "require_organization_count",
             "require_organization_list", "npl_reconciliation", "pairwise_difference"} :
        CASE f = "rank_population_all" ->
               \/ "ordinal" \in q.says /\ c.scope = "selected"
               \/ op = "rank" /\ c.scope = "selected" /\ Len(c.orgs) = 1
               \/ op \in {"multi_rank", "multi_rank_change", "rank_threshold"}
          [] f = "include_extrema" -> Extremes(q) /\ Says(q, {"trend", "daily"})
          [] f = "profitability_profile" -> "profitability" \in q.says
          [] f = "major_operating_profile" -> "operations" \in q.says
          [] f = "performance_profile" -> IsPerformanceProfile(q) \/ "risk" \in q.says
          [] f = "risk_profile" -> "risk" \in q.says
          [] f = "select_highest_value" -> op = "rank" /\ "highest" \in q.says
          [] f = "select_lowest_value" -> op = "rank" /\ "lowest" \in q.says
          [] f = "select_bottom_rank" -> op = "rank" /\ Says(q, {"bottom3", "performance"})
          [] f = "needs_summary" -> AsksProfile(q)
          [] f = "regulatory_check" -> "standard" \in q.says
          [] f = "require_organization_count" ->
               AsksCount(q) /\ op \in {"multi_metric_province_compare", "condition_members"}
          [] f = "require_organization_list" -> "which_orgs" \in q.says
          [] f = "npl_reconciliation" -> AsksNplReconciliation(q, c.metrics)
          [] f = "pairwise_difference" ->
               op = "value" /\ AsksPairwise(q, c.orgs, c.metrics) /\ "how_different" \in q.says }

PeriodOperations ==
    {"daily_average", "quarterly_trend", "count_vs_average", "period_rank_extremes",
     "period_extrema"}

BuiltPlan(q, c, op) ==
    LET keep == op \in PeriodOperations
    IN [src |-> "rule", op |-> op, orgs |-> c.orgs, scope |-> c.scope, metrics |-> c.metrics,
        cur |-> IF op \in {"quarterly_trend", "daily_average"} THEN c.end ELSE c.cur,
        cmp |-> PlannedComparison(q, c),
        start |-> IF keep THEN c.start ELSE None, end |-> IF keep THEN c.end ELSE None,
        filters |-> IF op = "multi_metric_province_compare" THEN "joint"
                    ELSE IF op = "count_vs_average" THEN "average"
                    ELSE IF "over10" \in q.says THEN "threshold" ELSE None,
        sort |-> IF op \in {"rank", "rank_threshold", "period_rank_extremes"}
                 THEN SortDirection(Head(c.metrics))
                 ELSE IF op = "period_change_rank" THEN "desc" ELSE None,
        limit |-> PlannedLimit(q, c, op),
        shape |-> ExpectedShape(q, c, op),
        allow_empty |-> op = "condition_members",
        flags |-> Assumptions(q, c, op)]

\* A bare "which ones?" after a counting question repeats its plan as a list.
ListPlan(plan) ==
    [plan EXCEPT !.op = IF @ = "count_condition" THEN "condition_members" ELSE @,
                 !.shape = "multi_row", !.allow_empty = TRUE,
                 !.flags = (@ \ {"require_organization_count"})
                           \cup {"organization_list_only", "require_organization_list"}]

Plan(q, m, use_context) ==
    LET c == Candidates(q, m, use_context)
        op == Operation(q, c)
    IN IF /\ use_context /\ ListFollowUp(q) /\ m.turn /\ m.plan.src = "rule"
          /\ m.plan.op \in {"count_condition", "condition_members",
                            "multi_metric_province_compare"}
       THEN [kind |-> "plan", candidates |-> c, plan |-> ListPlan(m.plan)]
       ELSE IF op \in {"llm", "error"}
            THEN [kind |-> op, candidates |-> c]
            ELSE [kind |-> "plan", candidates |-> c, plan |-> BuiltPlan(q, c, op)]
=============================================================================
