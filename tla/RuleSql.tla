------------------------------ MODULE RuleSql ------------------------------
(***************************************************************************)
(* sql_compiler.py: the query compiled for a plan of the rules.  A query   *)
(* is what the later checks and the answer can tell of it:                 *)
(*   over    the organizations its ranks and averages are taken over,      *)
(*           {} when it takes none                                         *)
(*   shows   the organizations its rows may be about                       *)
(*   names, metrics, dates   what its text names                           *)
(*   uses    RANK, AVG, a top-n condition, a division safe of zero         *)
(*   order   the directions of its orderings                               *)
(*   columns of the result, and what each row stands for                   *)
(*   chosen  whether a condition on values picks among the rows            *)
(*   form, tables   what kind of statement it is and what it reads         *)
(***************************************************************************)
EXTENDS RulePlanner

CONSTANT Organizations      \* all organizations of the province

Selected(p) == Range(p.orgs)

\* _organization_filter: no condition when the plan is about all of them.
Filtered(p) == IF p.scope = "all" THEN Organizations ELSE Selected(p)

OrgColumns == {"org_id", "org_name"}
LabelColumns == OrgColumns \cup {"metric_name", "unit"}

Select(p, shows, columns) ==
    [over |-> {}, shows |-> shows, names |-> IF shows = Organizations THEN {} ELSE shows,
     metrics |-> {Head(p.metrics)}, dates |-> {p.cur}, uses |-> {}, order |-> {"asc"},
     columns |-> columns, row |-> "org", chosen |-> FALSE,
     form |-> "select", tables |-> {"metric_values"}]

\* A query without a condition on organizations.
SelectAll(p, columns) == Select(p, Organizations, columns)

\* Ranks or averages of the whole province, of which some rows are shown.
RankAll(p, columns) ==
    [Select(p, Selected(p), columns) EXCEPT
        !.over = Organizations, !.uses = {"RANK"}, !.order = {"asc", "desc"}]

EachMetric(sql, p) == [sql EXCEPT !.metrics = Range(p.metrics), !.row = "org_metric"]

Both(sql, p) == [sql EXCEPT !.dates = {p.cur, p.cmp}]

InPeriod(sql, p) == [sql EXCEPT !.dates = {p.start, p.end}]

-----------------------------------------------------------------------------
PointSql(p) == EachMetric(Select(p, Filtered(p), LabelColumns \cup {"metric_value"}), p)

RankingSql(p) ==
    LET whole == "rank_population_all" \in p.flags
        top == IF p.limit = 0 THEN {}
               ELSE IF "select_bottom_rank" \in p.flags THEN {"bottom_n"} ELSE {"top_n"}
        shows == IF whole THEN Selected(p) ELSE Filtered(p)
    IN [Select(p, shows, LabelColumns \cup {"metric_value", "metric_rank"}) EXCEPT
            !.over = IF whole THEN Organizations ELSE Filtered(p),
            !.uses = {"RANK"} \cup top,
            !.order = {"asc", p.sort} \cup (IF "select_lowest_value" \in p.flags THEN {} ELSE {"desc"}),
            !.chosen = p.limit > 0]

MultiMetricProvinceCompareSql(p) ==
    [EachMetric(SelectAll(p, LabelColumns \cup {"metric_id", "metric_value", "province_average"}), p)
        EXCEPT !.over = Organizations, !.uses = {"AVG"}, !.chosen = TRUE]

PeriodSql(p) ==
    LET result == IF p.op = "growth" THEN "growth_rate" ELSE "change_value"
    IN [Both(Select(p, Filtered(p),
                LabelColumns \cup {"current_value", "comparison_value", result}), p)
            EXCEPT !.uses = IF p.op = "growth" THEN {"safe_division"} ELSE {}]

RatioSql(p) ==
    [Select(p, Filtered(p), OrgColumns \cup {"numerator", "denominator", "derived_value"}) EXCEPT
        !.metrics = Range(p.metrics), !.uses = {"safe_division"}]

\* The operations compile_rule_sql knows.
CompiledOperations ==
    {"rank", "difference", "growth", "ratio", "province_average_compare",
     "multi_metric_province_compare", "threshold", "rank_threshold", "count_condition",
     "condition_members", "period_values", "daily_average", "sum", "composition", "mom_yoy",
     "count_vs_average", "profile", "cross_difference", "period_rank_extremes", "period_extrema",
     "multi_period_change", "period_change_rank", "multi_rank", "multi_rank_change",
     "three_dimension_profile", "reconcile", "quarterly_trend", "value"}

\* numerator, denominator = plan.metrics fails when the plan names another number of
\* metrics, an unknown operation or profile is a ValueError: no error of errors.py.
CompileFails(p) ==
    \/ p.op \notin CompiledOperations
    \/ p.op = "ratio" /\ Len(p.metrics) # 2
    \/ /\ p.op = "profile"
       /\ p.flags \cap {"major_operating_profile", "profitability_profile",
                        "performance_profile", "risk_profile"} = {}

ProvinceAverageSql(p) ==
    [EachMetric(Select(p, Filtered(p), LabelColumns \cup
        {"metric_id", "metric_value", "province_average", "difference_from_average",
         "metric_rank"}), p) EXCEPT
        !.over = Organizations, !.uses = {"AVG", "RANK"}, !.order = {"asc", "desc"}]

\* A mutant: the values are shown, and not whether they meet the condition.
MutantThresholdSql(p) == Select(p, Filtered(p), LabelColumns \cup {"metric_value"})

ThresholdSql(p) == Select(p, Filtered(p), LabelColumns \cup {"metric_value", "threshold_met"})

RankThresholdSql(p) ==
    [RankAll(p, LabelColumns \cup {"metric_value", "metric_rank", "threshold_met"})
        EXCEPT !.order = {"asc", p.sort}]

ThresholdCountSql(p) ==
    [SelectAll(p, {"matching_organizations", "total_organizations"}) EXCEPT !.row = "one"]

ConditionMembersSql(p) ==
    [SelectAll(p, LabelColumns \cup {"metric_value"}) EXCEPT !.chosen = TRUE]

PeriodValuesSql(p) ==
    [Both(Select(p, Filtered(p), LabelColumns \cup {"data_date", "metric_value"}), p)
        EXCEPT !.row = "org_date"]

DailyAverageSql(p) ==
    InPeriod(Select(p, Filtered(p), LabelColumns \cup {"average_value"} \cup
        (IF "include_extrema" \in p.flags
         THEN {"maximum_value", "maximum_date", "minimum_value", "minimum_date"} ELSE {})), p)

SumSql(p) ==
    EachMetric(Select(p, Filtered(p),
        LabelColumns \cup {"metric_id", "metric_value", "total_value"}), p)

CompositionSql(p) ==
    [Select(p, Filtered(p), LabelColumns \cup
        {"metric_id", "component_value", "denominator_value", "derived_value"}) EXCEPT
        !.metrics = {"ZB003", "ZB004", "ZB001"}, !.row = "org_metric"]

MomYoySql(p) ==
    [Select(p, Filtered(p), LabelColumns \cup
        {"current_value", "mom_value", "yoy_value", "mom_change", "yoy_change"})
        EXCEPT !.dates = {p.cur, p.cmp, "yoy"}]

CountVsAverageSql(p) ==
    IF p.start # None
    THEN [InPeriod(RankAll(p, OrgColumns \cup
             {"metric_name", "matching_days", "total_days", "matching_percentage"}), p)
             EXCEPT !.uses = {"AVG"}]
    ELSE [SelectAll(p, {"matching_organizations", "total_organizations"})
             EXCEPT !.over = Organizations, !.uses = {"AVG"}, !.row = "one"]

CrossDifferenceSql(p) ==
    EachMetric(Select(p, Filtered(p),
        LabelColumns \cup {"metric_id", "metric_value", "difference_value"}), p)

ReconcileSql(p) ==
    LET npl == "npl_reconciliation" \in p.flags
    IN [Select(p, Filtered(p), OrgColumns \cup {"difference_value", "is_equal"} \cup
            (IF npl THEN {"npl_rate", "npl_balance", "loan_balance", "calculated_rate"}
             ELSE {"unit", "corporate_value", "personal_value", "total_value", "component_sum"}))
            EXCEPT !.metrics = IF npl THEN {"ZB002", "ZB013", "ZB014"} ELSE {"ZB001", "ZB003", "ZB004"}]

PeriodRankExtremesSql(p) ==
    [InPeriod(SelectAll(p, LabelColumns \cup {"average_value", "rank_type", "metric_rank"}), p)
        EXCEPT !.over = Organizations, !.uses = {"RANK", "AVG", "top_n"}, !.chosen = TRUE]

PeriodExtremaSql(p) ==
    [InPeriod(SelectAll(p, LabelColumns \cup {"data_date", "metric_value", "extrema_type"}), p)
        EXCEPT !.over = Organizations, !.uses = {"RANK"}, !.chosen = TRUE]

MultiPeriodChangeSql(p) ==
    EachMetric(Both(Select(p, Filtered(p), LabelColumns \cup
        {"metric_id", "comparison_value", "current_value", "change_value"}), p), p)

PeriodChangeRankSql(p) ==
    [Both(Select(p, Filtered(p), LabelColumns \cup
        {"comparison_value", "current_value", "result_value", "result_rank"}), p) EXCEPT
        !.over = Organizations, !.uses = {"RANK", "safe_division"}, !.order = {"asc", "desc"},
        !.chosen = p.scope = "all"]

ProfitabilityProfileSql(p) ==
    EachMetric(Both(RankAll(p, LabelColumns \cup
        {"metric_id", "metric_value", "metric_rank", "comparison_value", "change_value"}), p), p)

PerformanceProfileSql(p) ==
    [EachMetric(RankAll(p, LabelColumns \cup {"metric_id", "metric_value", "province_average",
        "metric_rank", "performance_label"}), p) EXCEPT !.uses = {"RANK", "AVG"}]

MajorOperatingProfileSql(p) ==
    [EachMetric(Both(RankAll(p, LabelColumns \cup
        {"metric_id", "metric_value", "province_average", "metric_rank", "comparison_value",
         "change_value", "performance_label"}), p), p) EXCEPT !.uses = {"RANK", "AVG"}]

TrendSql(p) ==
    [InPeriod(Select(p, Filtered(p), LabelColumns \cup {"data_date", "metric_value"}), p)
        EXCEPT !.row = "org_date"]

\* compile_global_rank_sql: with a comparison date, ranks of two days and no metric_rank.
GlobalRankSql(p) ==
    IF p.cmp = None
    THEN EachMetric(RankAll(p, LabelColumns \cup {"metric_id", "metric_value", "metric_rank"}), p)
    ELSE EachMetric(Both(RankAll(p, LabelColumns \cup {"metric_id", "comparison_value",
             "current_value", "previous_rank", "current_rank", "rank_change"}), p), p)

RuleSql(p) ==
    CASE p.op = "rank" -> RankingSql(p)
      [] p.op \in {"difference", "growth"} -> PeriodSql(p)
      [] p.op = "ratio" -> RatioSql(p)
      [] p.op = "province_average_compare" -> ProvinceAverageSql(p)
      [] p.op = "multi_metric_province_compare" -> MultiMetricProvinceCompareSql(p)
      [] p.op = "threshold" -> ThresholdSql(p)
      [] p.op = "rank_threshold" -> RankThresholdSql(p)
      [] p.op = "count_condition" -> ThresholdCountSql(p)
      [] p.op = "condition_members" -> ConditionMembersSql(p)
      [] p.op = "period_values" -> PeriodValuesSql(p)
      [] p.op = "daily_average" -> DailyAverageSql(p)
      [] p.op = "sum" -> SumSql(p)
      [] p.op = "composition" -> CompositionSql(p)
      [] p.op = "mom_yoy" -> MomYoySql(p)
      [] p.op = "count_vs_average" -> CountVsAverageSql(p)
      [] p.op = "profile" ->
           IF "major_operating_profile" \in p.flags THEN MajorOperatingProfileSql(p)
           ELSE IF "profitability_profile" \in p.flags THEN ProfitabilityProfileSql(p)
           ELSE PerformanceProfileSql(p)
      [] p.op = "cross_difference" -> CrossDifferenceSql(p)
      [] p.op = "period_rank_extremes" -> PeriodRankExtremesSql(p)
      [] p.op = "period_extrema" -> PeriodExtremaSql(p)
      [] p.op = "multi_period_change" -> MultiPeriodChangeSql(p)
      [] p.op = "period_change_rank" -> PeriodChangeRankSql(p)
      [] p.op \in {"multi_rank", "multi_rank_change", "three_dimension_profile"} -> GlobalRankSql(p)
      [] p.op = "reconcile" -> ReconcileSql(p)
      [] p.op = "quarterly_trend" -> TrendSql(p)
      [] p.op = "value" -> PointSql(p)
=============================================================================
