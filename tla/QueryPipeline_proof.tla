------------------------ MODULE QueryPipeline_proof ------------------------
(***************************************************************************)
(* Whoever plans an answer, rules or model, it is confined to the rights   *)
(* of who asks, and ranks and averages of the province are taken over all  *)
(* of it.  Nothing is assumed of what the model writes but that it parses  *)
(* as a plan, and of the rules' plans and SQL nothing is used: these       *)
(* theorems rest on the checks between a plan and its answer.  An answer   *)
(* of the rules moreover serves the duties of the question and is about    *)
(* what it names; this follows the plan from the words of the question to  *)
(* the columns of its query.                                               *)
(***************************************************************************)
EXTENDS QueryPipeline, FiniteSetTheorems, TLAPS

\* The flags by which the coverage takes a duty for done stand for what the operation does.
Flagged(p) ==
    /\ "pairwise_difference" \in p.flags => p.op = "value"
    /\ "require_organization_count" \in p.flags
         => p.op \in {"condition_members", "multi_metric_province_compare"}

WellMade(p) == DOMAIN p = PlanFields /\ (p.src = "rule" => Flagged(p))

\* A plan is about what a question names.
About(p, q) ==
    /\ Range(q.orgs) \subseteq Range(p.orgs)
    /\ ResolvedDate(q) # None => p.cur = ResolvedDate(q)

\* What is known of a plan of the rules and its query.
Ruled(p, sql) ==
    /\ sql = RuleSql(p) /\ p.op \in CompiledOperations /\ ValidPlan(p)
    /\ "require_organization_list" \in p.flags => sql.columns \cap OrgColumns # {}
    /\ About(p, question)

\* What is known of an answer when it is delivered.
Delivered(p, sql) ==
    /\ Covers(question, p) /\ Authorized(p, user) /\ Guarded(sql)
    /\ WellMade(p) /\ (p.src = "rule" => Ruled(p, sql))
    /\ stage' = "answered" /\ turns' = turns + 1
    /\ memory'.turn = TRUE /\ WellMade(memory'.plan)
    /\ UNCHANGED <<world, request, attempts>>
    /\ \E cells \in SUBSET Cells(sql, AccessScope(p, user), reported) :
         answer' = [op |-> p.op, plan |-> p, sql |-> sql, scope |-> AccessScope(p, user),
                    cells |-> cells]

\* Between the request and its outcome there is room for one more turn, and the
\* attempts that led to an error are counted.
Counted ==
    /\ user \in Users /\ reported \in Reports /\ memory.turn \in BOOLEAN
    /\ stage \in Stages /\ origin \in {"asked", "resumed", "rewritten"}
    /\ turns \in 0..MaxTurns /\ (stage \notin Ends \cup {"idle"} => turns < MaxTurns)
    /\ attempts \in 0..LlmRetries + 1
    /\ stage \in {"idle", "rewrite", "model"} => attempts <= LlmRetries

\* What is planned names the organizations and the date of what was asked; and what is
\* remembered is a plan of one of the planners.
Related ==
    /\ memory.turn => WellMade(memory.plan)
    /\ stage \in {"rules", "context_rules", "rewrite", "model"}
         => KeepsOrganizations(question, planning) /\ KeepsDate(question, planning)
    /\ stage \in {"context_rules", "rewrite"} =>
         planning = question /\ question.orgs \in Seq(Organizations)

IInv == Counted /\ Related /\ Confined /\ PopulationWhole /\ DutiesServed /\ AboutWhatWasNamed

-----------------------------------------------------------------------------
\* The checks

\* A statement that passed the guard reads the view of its scope.
LEMMA ViewOnly ==
  ASSUME NEW sql, NEW scope, NEW there, Guarded(sql)
  PROVE  Readable(sql, scope, there) = (there \cap scope.orgs) \X scope.metrics
<1>1. "main.metric_values" \notin sql.tables
  BY DEF Guarded, ApprovedTables
<1> QED
  BY <1>1 DEF Readable

\* The scope of an authorized plan is within the rights of the user.
LEMMA ScopeWithin ==
  ASSUME NEW u \in Users, NEW p, Authorized(p, u)
  PROVE  /\ AccessScope(p, u).orgs \subseteq u.orgs
         /\ AccessScope(p, u).metrics \subseteq u.metrics /\ AccessScope(p, u).metrics # {}
<1>1. CASE u.restricted
  <2>1. Range(p.orgs) \subseteq u.orgs
    BY <1>1 DEF Authorized
  <2> QED
    BY <1>1, <2>1 DEF AccessScope, Authorized
<1>2. CASE ~u.restricted
  <2>1. u.orgs = Organizations
    BY <1>2, PipelineAssumption
  <2> QED
    BY <1>2, <2>1 DEF AccessScope, Authorized
<1> QED
  BY <1>1, <1>2

\* A plan that covers a rank or an average of the province spans it.
LEMMA CoveredSpans ==
  ASSUME NEW q, NEW p, Covers(q, p), Obligations(q) \cap {"rank", "province_average"} # {}
  PROVE  SpansProvince(p)
<1>1. PICK duty \in {"rank", "province_average"} : duty \in Supported(p)
  BY DEF Covers
<1>2. CASE duty = "rank"
  <2>1. p.op \in RankOperations \cup {"multi_condition"} \/ "rank_population_all" \in p.flags
    BY <1>1, <1>2 DEF Supported
  <2> QED
    BY <2>1 DEF RankOperations, SpansProvince, CrossOrganizationOperations
<1>3. CASE duty = "province_average"
  <2>1. p.op \in AverageOperations \cup {"multi_condition"}
    BY <1>1, <1>3 DEF Supported
  <2> QED
    BY <2>1 DEF AverageOperations, SpansProvince, CrossOrganizationOperations
<1> QED
  BY <1>2, <1>3

\* Nobody but a user of the whole province has a plan that spans it authorized.
LEMMA SpanningScope ==
  ASSUME NEW u, NEW p, Authorized(p, u), SpansProvince(p)
  PROVE  AccessScope(p, u).orgs = Organizations
  BY DEF AccessScope, Authorized

\* With a metric there is a cell for every organization.
LEMMA OfPairs ==
  ASSUME NEW S, NEW T, NEW W, T # {}
  PROVE  { c[1] : c \in { c \in S \X T : c[1] \in W } } = S \cap W
<1> DEFINE pairs == { c \in S \X T : c[1] \in W }
<1>1. { c[1] : c \in pairs } \subseteq S \cap W
  OBVIOUS
<1>2. ASSUME NEW x \in S \cap W PROVE x \in { c[1] : c \in pairs }
  <2>1. PICK t \in T : TRUE
    OBVIOUS
  <2>2. <<x, t>> \in pairs /\ <<x, t>>[1] = x
    BY <2>1
  <2> QED
    BY <2>2
<1> QED
  BY <1>1, <1>2

\* A delivered answer is confined, and its population whole where it must be.
LEMMA DeliveredFits ==
  ASSUME Counted, NEW p, NEW sql, Delivered(p, sql)
  PROVE  Confined' /\ PopulationWhole'
<1> DEFINE scope == AccessScope(p, user)
<1>1. user \in Users /\ reported \subseteq Organizations
  BY PipelineAssumption DEF Counted
<1>2. user' = user /\ reported' = reported /\ question' = question
  BY DEF Delivered, world, request
<1>3. /\ scope.orgs \subseteq user.orgs
      /\ scope.metrics \subseteq user.metrics /\ scope.metrics # {}
  BY <1>1, ScopeWithin DEF Delivered
<1>4. PICK cells \in SUBSET Cells(sql, scope, reported) :
        answer'.cells = cells /\ answer'.sql = sql /\ answer'.scope = scope
  BY DEF Delivered
<1>5. Readable(sql, scope, reported) = (reported \cap scope.orgs) \X scope.metrics
  BY ViewOnly DEF Delivered
<1>6. Population(sql, scope, reported) = reported \cap scope.orgs \cap sql.over
  <2>1. Population(sql, scope, reported) =
          { c[1] : c \in { c \in (reported \cap scope.orgs) \X scope.metrics : c[1] \in sql.over } }
    BY <1>5 DEF Population
  <2> QED
    BY <1>3, <2>1, OfPairs
<1>7. cells \subseteq user.orgs \X user.metrics
  BY <1>3, <1>4, <1>5 DEF Cells
<1>8. AnswerPopulation' = Population(sql, scope, reported)
  BY <1>2, <1>4 DEF AnswerPopulation
<1>9. Confined'
  BY <1>2, <1>3, <1>4, <1>6, <1>7, <1>8 DEF Confined
<1>10. Obligations(question) \cap {"rank", "province_average"} # {} => scope.orgs = Organizations
  BY CoveredSpans, SpanningScope DEF Delivered
<1>11. PopulationWhole'
  BY <1>1, <1>2, <1>4, <1>6, <1>8, <1>10 DEF PopulationWhole, Duties
<1> QED
  BY <1>9, <1>11

-----------------------------------------------------------------------------
\* The duties and the columns

LEMMA Labels ==
  /\ LabelColumns = {"org_id", "org_name", "metric_name", "unit"}
  /\ OrgColumns = {"org_id", "org_name"}
  BY DEF LabelColumns, OrgColumns

\* The columns that the duties are met in, as the operations of the rules have them.
Holds(p, columns) ==
  /\ columns # {}
  /\ p.op \notin {"count_condition", "count_vs_average"} => "org_id" \in columns
  /\ p.op \in {"difference", "multi_period_change"} => "change_value" \in columns
  /\ p.op = "growth" => "growth_rate" \in columns
  /\ p.op \in {"province_average_compare", "multi_metric_province_compare"}
       => "province_average" \in columns
  /\ p.op = "province_average_compare" => "difference_from_average" \in columns
  /\ p.op = "cross_difference" => "difference_value" \in columns
  /\ p.op = "mom_yoy" => "mom_change" \in columns
  /\ p.op = "period_change_rank" => "result_value" \in columns
  /\ p.op = "multi_rank_change" /\ p.cmp # None => "rank_change" \in columns
  /\ p.op = "value" => "metric_value" \in columns
  /\ p.op = "count_condition" => "matching_organizations" \in columns
  /\ p.op = "count_vs_average"
       => \/ {"matching_days", "matching_percentage"} \subseteq columns
          \/ "matching_organizations" \in columns
  /\ p.op = "period_extrema" => "extrema_type" \in columns
  /\ p.op = "period_rank_extremes" => "rank_type" \in columns
  /\ p.op = "daily_average" /\ "include_extrema" \in p.flags => "maximum_value" \in columns
  /\ p.op = "quarterly_trend" => "data_date" \in columns
  /\ p.op = "sum" => "total_value" \in columns
  /\ p.op = "composition" => "denominator_value" \in columns
  /\ p.op = "reconcile" /\ "npl_reconciliation" \notin p.flags => "component_sum" \in columns
  /\ p.op \in {"threshold", "rank_threshold"} => "threshold_met" \in columns
  /\ p.op \in {"rank", "rank_threshold", "period_rank_extremes", "profile"}
       => "metric_rank" \in columns
  /\ p.op = "period_change_rank" => "result_rank" \in columns
  /\ p.op \in {"multi_rank", "multi_rank_change", "three_dimension_profile"}
       => "metric_rank" \in columns \/ "current_rank" \in columns

LEMMA Columns ==
  ASSUME NEW p, p.op \in CompiledOperations
  PROVE  Holds(p, RuleSql(p).columns)
<1>1. CASE p.op \in {"rank"}
  <2>1. RuleSql(p) = RankingSql(p)
    BY <1>1 DEF RuleSql
  <2>2. RankingSql(p).columns = LabelColumns \cup {"metric_value", "metric_rank"}
    BY DEF RankingSql, Select
  <2> QED
    BY <1>1, <2>1, <2>2, Labels DEF Holds
<1>2. CASE p.op \in {"difference", "growth"}
  <2>1. RuleSql(p) = PeriodSql(p)
    BY <1>2 DEF RuleSql
  <2>2. PeriodSql(p).columns = LabelColumns \cup {"current_value", "comparison_value",
          IF p.op = "growth" THEN "growth_rate" ELSE "change_value"}
    BY DEF PeriodSql, Select, Both
  <2> QED
    BY <1>2, <2>1, <2>2, Labels DEF Holds
<1>3. CASE p.op \in {"ratio"}
  <2>1. RuleSql(p) = RatioSql(p)
    BY <1>3 DEF RuleSql
  <2>2. RatioSql(p).columns = OrgColumns \cup {"numerator", "denominator", "derived_value"}
    BY DEF RatioSql, Select
  <2> QED
    BY <1>3, <2>1, <2>2, Labels DEF Holds
<1>4. CASE p.op \in {"province_average_compare"}
  <2>1. RuleSql(p) = ProvinceAverageSql(p)
    BY <1>4 DEF RuleSql
  <2>2. ProvinceAverageSql(p).columns = LabelColumns \cup {"metric_id", "metric_value",
          "province_average", "difference_from_average", "metric_rank"}
    BY DEF ProvinceAverageSql, Select, EachMetric
  <2> QED
    BY <1>4, <2>1, <2>2, Labels DEF Holds
<1>5. CASE p.op \in {"multi_metric_province_compare"}
  <2>1. RuleSql(p) = MultiMetricProvinceCompareSql(p)
    BY <1>5 DEF RuleSql
  <2>2. MultiMetricProvinceCompareSql(p).columns =
          LabelColumns \cup {"metric_id", "metric_value", "province_average"}
    BY DEF MultiMetricProvinceCompareSql, SelectAll, Select, EachMetric
  <2> QED
    BY <1>5, <2>1, <2>2, Labels DEF Holds
<1>6. CASE p.op \in {"threshold"}
  <2>1. RuleSql(p) = ThresholdSql(p)
    BY <1>6 DEF RuleSql
  <2>2. ThresholdSql(p).columns = LabelColumns \cup {"metric_value", "threshold_met"}
    BY DEF ThresholdSql, Select
  <2> QED
    BY <1>6, <2>1, <2>2, Labels DEF Holds
<1>7. CASE p.op \in {"rank_threshold"}
  <2>1. RuleSql(p) = RankThresholdSql(p)
    BY <1>7 DEF RuleSql
  <2>2. RankThresholdSql(p).columns =
          LabelColumns \cup {"metric_value", "metric_rank", "threshold_met"}
    BY DEF RankThresholdSql, RankAll, Select
  <2> QED
    BY <1>7, <2>1, <2>2, Labels DEF Holds
<1>8. CASE p.op \in {"count_condition"}
  <2>1. RuleSql(p) = ThresholdCountSql(p)
    BY <1>8 DEF RuleSql
  <2>2. ThresholdCountSql(p).columns = {"matching_organizations", "total_organizations"}
    BY DEF ThresholdCountSql, SelectAll, Select
  <2> QED
    BY <1>8, <2>1, <2>2, Labels DEF Holds
<1>9. CASE p.op \in {"condition_members"}
  <2>1. RuleSql(p) = ConditionMembersSql(p)
    BY <1>9 DEF RuleSql
  <2>2. ConditionMembersSql(p).columns = LabelColumns \cup {"metric_value"}
    BY DEF ConditionMembersSql, SelectAll, Select
  <2> QED
    BY <1>9, <2>1, <2>2, Labels DEF Holds
<1>10. CASE p.op \in {"period_values"}
  <2>1. RuleSql(p) = PeriodValuesSql(p)
    BY <1>10 DEF RuleSql
  <2>2. PeriodValuesSql(p).columns = LabelColumns \cup {"data_date", "metric_value"}
    BY DEF PeriodValuesSql, Select, Both
  <2> QED
    BY <1>10, <2>1, <2>2, Labels DEF Holds
<1>11. CASE p.op \in {"daily_average"}
  <2>1. RuleSql(p) = DailyAverageSql(p)
    BY <1>11 DEF RuleSql
  <2>2. DailyAverageSql(p).columns = LabelColumns \cup {"average_value"} \cup
          (IF "include_extrema" \in p.flags
           THEN {"maximum_value", "maximum_date", "minimum_value", "minimum_date"} ELSE {})
    BY DEF DailyAverageSql, Select, InPeriod
  <2> QED
    BY <1>11, <2>1, <2>2, Labels DEF Holds
<1>12. CASE p.op \in {"sum"}
  <2>1. RuleSql(p) = SumSql(p)
    BY <1>12 DEF RuleSql
  <2>2. SumSql(p).columns = LabelColumns \cup {"metric_id", "metric_value", "total_value"}
    BY DEF SumSql, Select, EachMetric
  <2> QED
    BY <1>12, <2>1, <2>2, Labels DEF Holds
<1>13. CASE p.op \in {"composition"}
  <2>1. RuleSql(p) = CompositionSql(p)
    BY <1>13 DEF RuleSql
  <2>2. CompositionSql(p).columns =
          LabelColumns \cup {"metric_id", "component_value", "denominator_value",
          "derived_value"}
    BY DEF CompositionSql, Select
  <2> QED
    BY <1>13, <2>1, <2>2, Labels DEF Holds
<1>14. CASE p.op \in {"mom_yoy"}
  <2>1. RuleSql(p) = MomYoySql(p)
    BY <1>14 DEF RuleSql
  <2>2. MomYoySql(p).columns =
          LabelColumns \cup {"current_value", "mom_value", "yoy_value", "mom_change",
          "yoy_change"}
    BY DEF MomYoySql, Select
  <2> QED
    BY <1>14, <2>1, <2>2, Labels DEF Holds
<1>15. CASE p.op \in {"cross_difference"}
  <2>1. RuleSql(p) = CrossDifferenceSql(p)
    BY <1>15 DEF RuleSql
  <2>2. CrossDifferenceSql(p).columns =
          LabelColumns \cup {"metric_id", "metric_value", "difference_value"}
    BY DEF CrossDifferenceSql, Select, EachMetric
  <2> QED
    BY <1>15, <2>1, <2>2, Labels DEF Holds
<1>16. CASE p.op \in {"period_rank_extremes"}
  <2>1. RuleSql(p) = PeriodRankExtremesSql(p)
    BY <1>16 DEF RuleSql
  <2>2. PeriodRankExtremesSql(p).columns =
          LabelColumns \cup {"average_value", "rank_type", "metric_rank"}
    BY DEF PeriodRankExtremesSql, SelectAll, Select, InPeriod
  <2> QED
    BY <1>16, <2>1, <2>2, Labels DEF Holds
<1>17. CASE p.op \in {"period_extrema"}
  <2>1. RuleSql(p) = PeriodExtremaSql(p)
    BY <1>17 DEF RuleSql
  <2>2. PeriodExtremaSql(p).columns =
          LabelColumns \cup {"data_date", "metric_value", "extrema_type"}
    BY DEF PeriodExtremaSql, SelectAll, Select, InPeriod
  <2> QED
    BY <1>17, <2>1, <2>2, Labels DEF Holds
<1>18. CASE p.op \in {"multi_period_change"}
  <2>1. RuleSql(p) = MultiPeriodChangeSql(p)
    BY <1>18 DEF RuleSql
  <2>2. MultiPeriodChangeSql(p).columns =
          LabelColumns \cup {"metric_id", "comparison_value", "current_value",
          "change_value"}
    BY DEF MultiPeriodChangeSql, Select, EachMetric, Both
  <2> QED
    BY <1>18, <2>1, <2>2, Labels DEF Holds
<1>19. CASE p.op \in {"period_change_rank"}
  <2>1. RuleSql(p) = PeriodChangeRankSql(p)
    BY <1>19 DEF RuleSql
  <2>2. PeriodChangeRankSql(p).columns =
          LabelColumns \cup {"comparison_value", "current_value", "result_value",
          "result_rank"}
    BY DEF PeriodChangeRankSql, Select, Both
  <2> QED
    BY <1>19, <2>1, <2>2, Labels DEF Holds
<1>20. CASE p.op \in {"quarterly_trend"}
  <2>1. RuleSql(p) = TrendSql(p)
    BY <1>20 DEF RuleSql
  <2>2. TrendSql(p).columns = LabelColumns \cup {"data_date", "metric_value"}
    BY DEF TrendSql, Select, InPeriod
  <2> QED
    BY <1>20, <2>1, <2>2, Labels DEF Holds
<1>21. CASE p.op \in {"value"}
  <2>1. RuleSql(p) = PointSql(p)
    BY <1>21 DEF RuleSql
  <2>2. PointSql(p).columns = LabelColumns \cup {"metric_value"}
    BY DEF PointSql, Select, EachMetric
  <2> QED
    BY <1>21, <2>1, <2>2, Labels DEF Holds
<1>22. CASE p.op = "count_vs_average"
  <2>1. RuleSql(p) = CountVsAverageSql(p)
    BY <1>22 DEF RuleSql
  <2>2. CountVsAverageSql(p).columns =
          IF p.start # None
          THEN OrgColumns \cup {"metric_name", "matching_days", "total_days", "matching_percentage"}
          ELSE {"matching_organizations", "total_organizations"}
    BY DEF CountVsAverageSql, SelectAll, RankAll, Select, InPeriod
  <2> QED
    BY <1>22, <2>1, <2>2, Labels DEF Holds
<1>23. CASE p.op = "profile"
  <2>1. RuleSql(p) \in {MajorOperatingProfileSql(p), ProfitabilityProfileSql(p),
                       PerformanceProfileSql(p)}
    BY <1>23 DEF RuleSql
  <2>2. {"org_id", "metric_rank"} \subseteq MajorOperatingProfileSql(p).columns
    BY Labels DEF MajorOperatingProfileSql, RankAll, Select, EachMetric, Both
  <2>3. {"org_id", "metric_rank"} \subseteq ProfitabilityProfileSql(p).columns
    BY Labels DEF ProfitabilityProfileSql, RankAll, Select, EachMetric, Both
  <2>4. {"org_id", "metric_rank"} \subseteq PerformanceProfileSql(p).columns
    BY Labels DEF PerformanceProfileSql, RankAll, Select, EachMetric
  <2> QED
    BY <1>23, <2>1, <2>2, <2>3, <2>4 DEF Holds
<1>24. CASE p.op \in {"multi_rank", "multi_rank_change", "three_dimension_profile"}
  <2>1. RuleSql(p) = GlobalRankSql(p)
    BY <1>24 DEF RuleSql
  <2>2. GlobalRankSql(p).columns = LabelColumns \cup
          (IF p.cmp = None THEN {"metric_id", "metric_value", "metric_rank"}
           ELSE {"metric_id", "comparison_value", "current_value", "previous_rank",
                 "current_rank", "rank_change"})
    BY DEF GlobalRankSql, RankAll, Select, EachMetric, Both
  <2> QED
    BY <1>24, <2>1, <2>2, Labels DEF Holds
<1>25. CASE p.op = "reconcile"
  <2>1. RuleSql(p) = ReconcileSql(p)
    BY <1>25 DEF RuleSql
  <2>2. /\ OrgColumns \subseteq ReconcileSql(p).columns
        /\ "npl_reconciliation" \notin p.flags => "component_sum" \in ReconcileSql(p).columns
    BY DEF ReconcileSql, Select
  <2> QED
    BY <1>25, <2>1, <2>2, Labels DEF Holds
<1> QED
  BY <1>1, <1>2, <1>3, <1>4, <1>5, <1>6, <1>7, <1>8, <1>9, <1>10, <1>11, <1>12,
     <1>13, <1>14, <1>15, <1>16, <1>17, <1>18, <1>19, <1>20, <1>21, <1>22, <1>23, <1>24,
     <1>25 DEF CompiledOperations

\* The joint conditions pick the organizations that meet them.
LEMMA Picking ==
  ASSUME NEW p, p.op \in {"condition_members", "multi_metric_province_compare"}
  PROVE  RuleSql(p).chosen
<1>1. CASE p.op = "condition_members"
  <2>1. RuleSql(p) = ConditionMembersSql(p)
    BY <1>1 DEF RuleSql
  <2>2. ConditionMembersSql(p).chosen
    BY DEF ConditionMembersSql, SelectAll, Select
  <2> QED
    BY <2>1, <2>2
<1>2. CASE p.op = "multi_metric_province_compare"
  <2>1. RuleSql(p) = MultiMetricProvinceCompareSql(p)
    BY <1>2 DEF RuleSql
  <2>2. MultiMetricProvinceCompareSql(p).chosen
    BY DEF MultiMetricProvinceCompareSql, SelectAll, Select, EachMetric
  <2> QED
    BY <2>1, <2>2
<1> QED
  BY <1>1, <1>2

\* The columns a duty is met in, by a plan and its query.
Serving(duty, p, sql) ==
    LET picked == IF sql.chosen THEN {"org_id"} ELSE {}
    IN
    CASE duty = "rank" -> {"metric_rank", "current_rank", "result_rank"}
      [] duty = "threshold" -> {"threshold_met", "matching_organizations"} \cup picked
      [] duty = "profile" -> {"metric_rank", "current_rank"}
      [] duty = "province_average" -> {"province_average", "matching_percentage",
                                       "matching_organizations", "rank_type"}
      [] duty = "growth" -> {"growth_rate", "result_value"}
      [] duty = "difference" -> {"change_value", "growth_rate", "difference_value",
                                 "difference_from_average", "mom_change", "rank_change",
                                 "result_value"}
                                \cup (IF "pairwise_difference" \in p.flags
                                      THEN {"metric_value"} ELSE {})
      [] duty = "count" -> {"matching_organizations", "matching_days"} \cup picked
      [] duty = "organization_list" -> {"org_id", "org_name"}
      [] duty = "extrema" -> {"maximum_value", "extrema_type", "rank_type", "data_date"}
      [] duty = "trend" -> {"data_date"}
      [] duty = "sum" -> {"total_value", "component_sum", "denominator_value"}

\* A plan of the rules serves every duty it is taken to cover.
LEMMA Served ==
  ASSUME NEW p, NEW sql, NEW duty \in Supported(p), p.op \in CompiledOperations,
         Holds(p, sql.columns), Flagged(p), p.op = "multi_rank_change" => p.cmp # None,
         p.op \in {"condition_members", "multi_metric_province_compare"} => sql.chosen,
         "require_organization_list" \in p.flags => sql.columns \cap OrgColumns # {}
  PROVE  Overlooked(duty, p) \/ Serving(duty, p, sql) \cap sql.columns # {}
<1>1. p.op # "multi_condition" /\ p.op # "extrema"
  BY DEF CompiledOperations
<1>2. CASE duty = "rank"
  <2>1. p.op \in RankOperations \/ "rank_population_all" \in p.flags
    BY <1>1, <1>2 DEF Supported
  <2>2. CASE p.op \in RankOperations
    BY <1>2, <2>2 DEF Serving, Holds, RankOperations
  <2> QED
    BY <1>2, <2>1, <2>2 DEF Overlooked
<1>11. CASE duty = "threshold"
  <2>1. p.op \in ThresholdOperations \/ "regulatory_check" \in p.flags
    BY <1>1, <1>11 DEF Supported
  <2>2. CASE p.op \in ThresholdOperations
    BY <1>11, <2>2 DEF Serving, Holds, ThresholdOperations
  <2> QED
    BY <1>11, <2>1, <2>2 DEF Overlooked
<1>12. CASE duty = "profile"
  <2>1. p.op \in {"profile", "three_dimension_profile"} \/ "needs_summary" \in p.flags
    BY <1>1, <1>12 DEF Supported
  <2>2. CASE p.op \in {"profile", "three_dimension_profile"}
    BY <1>12, <2>2 DEF Serving, Holds
  <2> QED
    BY <1>12, <2>1, <2>2 DEF Overlooked
<1>3. CASE duty = "province_average"
  <2>1. p.op \in {"province_average_compare", "count_vs_average",
                  "multi_metric_province_compare"}
    BY <1>1, <1>3 DEF Supported, AverageOperations
  <2> QED
    BY <1>3, <2>1 DEF Serving, Holds
<1>4. CASE duty = "growth"
  <2>1. p.op \in {"growth", "period_change_rank"}
    BY <1>1, <1>4 DEF Supported
  <2> QED
    BY <1>4, <2>1 DEF Serving, Holds
<1>5. CASE duty = "difference"
  <2>1. p.op \in DifferenceOperations \/ ("pairwise_difference" \in p.flags /\ p.op = "value")
    BY <1>1, <1>5 DEF Supported, Flagged
  <2>2. CASE p.op \in DifferenceOperations
    BY <1>5, <2>2 DEF Serving, Holds, DifferenceOperations
  <2>3. CASE "pairwise_difference" \in p.flags /\ p.op = "value"
    BY <1>5, <2>3 DEF Serving, Holds
  <2> QED
    BY <2>1, <2>2, <2>3
<1>6. CASE duty = "count"
  <2>1. p.op \in {"count_condition", "count_vs_average", "multi_metric_province_compare",
                  "condition_members"}
    BY <1>1, <1>6 DEF Supported, Flagged
  <2> QED
    BY <1>6, <2>1 DEF Serving, Holds
<1>7. CASE duty = "organization_list"
  <2>1. p.op \in RankOperations \cup {"condition_members"}
        \/ "require_organization_list" \in p.flags
    BY <1>1, <1>7 DEF Supported
  <2> QED
    BY <1>7, <2>1, Labels DEF Serving, Holds, RankOperations
<1>8. CASE duty = "extrema"
  <2>1. p.op \in {"period_extrema", "period_rank_extremes"} \/ "include_extrema" \in p.flags
    BY <1>1, <1>8 DEF Supported
  <2> QED
    BY <1>8, <2>1 DEF Serving, Holds, Overlooked
<1>9. CASE duty = "trend"
  <2>1. p.op = "quarterly_trend"
    BY <1>1, <1>9 DEF Supported
  <2> QED
    BY <1>9, <2>1 DEF Serving, Holds
<1>10. CASE duty = "sum"
  <2>1. p.op \in {"sum", "reconcile", "composition"}
    BY <1>1, <1>10 DEF Supported
  <2> QED
    BY <1>10, <2>1 DEF Serving, Holds, Overlooked
<1> QED
  BY <1>2, <1>3, <1>4, <1>5, <1>6, <1>7, <1>8, <1>9, <1>10, <1>11, <1>12
     DEF Supported

\* What a delivered answer of the rules shows, and what it is about.
LEMMA DeliveredAnswers ==
  ASSUME NEW p, NEW sql, Delivered(p, sql)
  PROVE  DutiesServed' /\ AboutWhatWasNamed'
<1>1. answer'.plan = p /\ answer'.sql = sql /\ question' = question
  BY DEF Delivered, request
<1>2. CASE p.src # "rule"
  BY <1>1, <1>2 DEF DutiesServed, AboutWhatWasNamed, RuleAnswered
<1>3. CASE p.src = "rule"
  <2>1. Ruled(p, sql) /\ Flagged(p) /\ Covers(question, p)
    BY <1>3 DEF Delivered, WellMade
  <2>2. Holds(p, sql.columns)
    BY <2>1, Columns DEF Ruled
  <2>3. p.op = "multi_rank_change" => p.cmp # None
    BY <2>1 DEF Ruled, ValidPlan, NeedsComparisonDate
  <2>4. ASSUME NEW duty \in Obligations(question)
        PROVE  Overlooked(duty, p) \/ Serving(duty, p, sql) \cap sql.columns # {}
    <3>1. duty \in Supported(p)
      BY <2>1 DEF Covers
    <3> QED
      BY <2>1, <2>2, <2>3, <3>1, Served, Picking DEF Ruled
  <2>5. ASSUME NEW duty PROVE ServingColumns(duty)' = Serving(duty, p, sql)
    BY <1>1 DEF ServingColumns, Serving
  <2>6. DutiesServed'
    BY <1>1, <2>4, <2>5 DEF DutiesServed, Duties
  <2>7. AboutWhatWasNamed'
    BY <1>1, <2>1 DEF AboutWhatWasNamed, Ruled, About
  <2> QED
    BY <2>6, <2>7
<1> QED
  BY <1>2, <1>3

-----------------------------------------------------------------------------
\* The plans of the rules

\* A finite set is the range of the sequence made of it.
LEMMA SequenceOfSet ==
  ASSUME NEW S, IsFiniteSet(S)
  PROVE  SetToSeq(S) \in Seq(S) /\ Range(SetToSeq(S)) = S
<1>1. PICK n \in Nat : n = Cardinality(S)
  BY FS_CardinalityType
<1>2. \E f \in [1..n -> S] : IsInjective(f)
  <2>1. ExistsBijection(1..n, S)
    BY <1>1, FS_CardinalityType
  <2>2. PICK f : f \in Bijection(1..n, S)
    BY <2>1 DEF ExistsBijection
  <2> QED
    BY <2>2 DEF Bijection, Injection, IsInjective
<1>3. SetToSeq(S) \in [1..n -> S] /\ IsInjective(SetToSeq(S))
  BY <1>1, <1>2 DEF SetToSeq
<1>4. SetToSeq(S) \in Surjection(1..n, S)
  <2>1. SetToSeq(S) \in Injection(1..n, S)
    BY <1>3 DEF Injection, IsInjective
  <2>2. IsFiniteSet(1..n) /\ Cardinality(1..n) = n
    BY FS_Interval
  <2> QED
    BY <1>1, <2>1, <2>2, FS_Injection
<1> QED
  BY <1>1, <1>3, <1>4 DEF Surjection, Range

\* The range of a sequence is finite.
LEMMA FiniteRange ==
  ASSUME NEW S, NEW s \in Seq(S)
  PROVE  IsFiniteSet(Range(s))
<1>1. IsFiniteSet(1..Len(s)) /\ DOMAIN s = 1..Len(s)
  BY FS_Interval
<1>2. s \in Surjection(1..Len(s), Range(s))
  BY <1>1 DEF Range, Surjection
<1> QED
  BY <1>1, <1>2, FS_Surjection

\* An element before a sequence.
LEMMA RangeAfter ==
  ASSUME NEW S, NEW t \in Seq(S), NEW x
  PROVE  Range(<<x>> \o t) = {x} \cup Range(t)
<1>1. /\ Len(t) \in Nat /\ DOMAIN t = 1..Len(t)
      /\ DOMAIN (<<x>> \o t) = 1..Len(t) + 1
      /\ (<<x>> \o t)[1] = x /\ \A i \in 1..Len(t) : (<<x>> \o t)[i + 1] = t[i]
  OBVIOUS
<1>2. PICK u : u = <<x>> \o t
  OBVIOUS
<1>3. ASSUME NEW y \in Range(u) PROVE y \in {x} \cup Range(t)
  <2>1. PICK k \in 1..Len(t) + 1 : y = u[k]
    BY <1>1, <1>2 DEF Range
  <2>2. CASE k = 1
    BY <1>1, <1>2, <2>1, <2>2
  <2>3. CASE k # 1
    <3>1. k - 1 \in 1..Len(t) /\ (k - 1) + 1 = k
      BY <1>1, <2>3
    <3>2. y = t[k - 1]
      BY <1>1, <1>2, <2>1, <3>1
    <3> QED
      BY <1>1, <3>1, <3>2 DEF Range
  <2> QED
    BY <2>2, <2>3
<1>4. x \in Range(u)
  BY <1>1, <1>2 DEF Range
<1>5. ASSUME NEW y \in Range(t) PROVE y \in Range(u)
  <2>1. PICK k \in 1..Len(t) : y = t[k]
    BY <1>1 DEF Range
  <2>2. k + 1 \in 1..Len(t) + 1 /\ u[k + 1] = y
    BY <1>1, <1>2, <2>1
  <2> QED
    BY <1>1, <1>2, <2>2 DEF Range
<1> QED
  BY <1>2, <1>3, <1>4, <1>5

\* The organizations of a plan are at least those the question names.
LEMMA NamedPlanned ==
  ASSUME NEW q, NEW m, NEW use \in BOOLEAN, use => q.orgs \in Seq(Organizations)
  PROVE  Range(q.orgs) \subseteq Range(PlannedOrganizations(q, m, use))
<1> DEFINE focus == IF m.plan.orgs # <<>> THEN m.plan.orgs ELSE m.result
<1>1. CASE use /\ Linked(q) /\ Len(focus) = 1
  <2>1. PICK others : others = Range(q.orgs) \ {focus[1]}
    OBVIOUS
  <2>2. IsFiniteSet(Range(q.orgs))
    BY <1>1, FiniteRange
  <2>3. IsFiniteSet(others)
    BY <2>1, <2>2, FS_Subset
  <2>4. SetToSeq(others) \in Seq(others) /\ Range(SetToSeq(others)) = others
    BY <2>3, SequenceOfSet
  <2>5. PlannedOrganizations(q, m, use) = <<focus[1]>> \o SetToSeq(others)
    BY <1>1, <2>1 DEF PlannedOrganizations
  <2>6. Range(<<focus[1]>> \o SetToSeq(others)) = {focus[1]} \cup Range(SetToSeq(others))
    BY <2>4, RangeAfter
  <2> QED
    BY <2>1, <2>4, <2>5, <2>6
<1>2. CASE ~(use /\ Linked(q) /\ Len(focus) = 1) /\ (q.orgs # <<>> \/ ~use)
  BY <1>2 DEF PlannedOrganizations
<1>3. CASE q.orgs = <<>>
  BY <1>3 DEF Range
<1> QED
  BY <1>1, <1>2, <1>3

\* A plan is made with consistent flags and about what the question names.
LEMMA Planned ==
  ASSUME NEW q, NEW m, NEW use \in BOOLEAN, use => q.orgs \in Seq(Organizations),
         m.turn => WellMade(m.plan), Plan(q, m, use).kind = "plan",
         NEW p, p = Plan(q, m, use).plan
  PROVE  p.src = "rule" /\ WellMade(p) /\ (ValidPlan(p) => About(p, q))
<1> DEFINE c == Candidates(q, m, use)
           op == Operation(q, c)
           again == /\ use /\ ListFollowUp(q) /\ m.turn /\ m.plan.src = "rule"
                    /\ m.plan.op \in {"count_condition", "condition_members",
                                      "multi_metric_province_compare"}
<1>1. CASE again
  <2>1. p = ListPlan(m.plan)
    BY <1>1 DEF Plan
  <2>2. DOMAIN m.plan = PlanFields /\ Flagged(m.plan)
    BY <1>1 DEF WellMade
  <2>3. /\ DOMAIN p = PlanFields /\ p.src = "rule"
        /\ p.op \in {"condition_members", "multi_metric_province_compare"}
        /\ p.flags = (m.plan.flags \ {"require_organization_count"})
                       \cup {"organization_list_only", "require_organization_list"}
    BY <1>1, <2>1, <2>2 DEF ListPlan, PlanFields
  <2>4. Flagged(p)
    BY <1>1, <2>2, <2>3 DEF Flagged
  <2>5. Range(q.orgs) = {} /\ ResolvedDate(q) = None
    BY <1>1 DEF ListFollowUp, ResolvedDate, Range, None
  <2> QED
    BY <2>3, <2>4, <2>5 DEF WellMade, About
<1>2. CASE ~again
  <2>1. p = BuiltPlan(q, c, op)
    BY <1>2 DEF Plan
  <2> HIDE DEF c, op
  <2>2. /\ DOMAIN p = PlanFields /\ p.src = "rule" /\ p.op = op /\ p.orgs = c.orgs
        /\ p.flags = Assumptions(q, c, op)
        /\ p.cur = IF op \in {"quarterly_trend", "daily_average"} THEN c.end ELSE c.cur
        /\ p.start = IF op \in PeriodOperations THEN c.start ELSE None
    BY <2>1 DEF BuiltPlan, PlanFields
  <2>3. Flagged(p)
    BY <2>2 DEF Flagged, Assumptions
  <2>4. c.orgs = PlannedOrganizations(q, m, use)
    BY DEF c, Candidates
  <2>5. ASSUME ValidPlan(p), ResolvedDate(q) # None PROVE p.cur = ResolvedDate(q)
    <3>1. c.cur = ResolvedDate(q) /\ c.start = PeriodRange(q)[1] /\ c.end = PeriodRange(q)[2]
      BY <2>5 DEF c, Candidates
    <3>2. CASE op \in {"quarterly_trend", "daily_average"}
      <4>1. c.start # None
        BY <2>2, <2>5, <3>2 DEF ValidPlan, NeedsPeriod, PeriodOperations
      <4>2. q.date = "quarter"
        BY <2>5, <3>1, <4>1 DEF PeriodRange, ResolvedDate, None
      <4> QED
        BY <2>2, <3>1, <3>2, <4>2 DEF PeriodRange, ResolvedDate
    <3> QED
      BY <2>2, <3>1, <3>2
  <2> QED
    BY <2>2, <2>3, <2>4, <2>5, NamedPlanned DEF WellMade, About
<1> QED
  BY <1>1, <1>2

-----------------------------------------------------------------------------
\* The steps

\* What is remembered is a turn, and what is chosen are cells.
LEMMA Accepted ==
  ASSUME NEW p, NEW sql, Covers(question, p), Authorized(p, user), Guarded(sql),
         WellMade(p), p.src = "rule" => Ruled(p, sql),
         NEW cells \in Chosen(sql, Cells(sql, AccessScope(p, user), reported)),
         stage' = "answered", turns' = turns + 1, Remember(p, sql, cells),
         answer' = [op |-> p.op, plan |-> p, sql |-> sql, scope |-> AccessScope(p, user),
                    cells |-> cells],
         UNCHANGED <<world, request, attempts>>
  PROVE  Delivered(p, sql)
<1>1. cells \in SUBSET Cells(sql, AccessScope(p, user), reported)
  BY DEF Chosen
<1>2. memory'.turn = TRUE
  BY DEF Remember
<1>3. WellMade(memory'.plan)
  <2>1. CASE p.op \in ListOperations
    BY <2>1 DEF Remember
  <2>2. CASE p.op \notin ListOperations
    <3>1. memory'.plan =
            [p EXCEPT !.cmp = None, !.start = None, !.end = None, !.sort = None,
                      !.filters = None, !.limit = 0, !.shape = "multi_row",
                      !.allow_empty = FALSE, !.flags = {}]
      BY <2>2 DEF Remember
    <3>2. DOMAIN memory'.plan = PlanFields /\ memory'.plan.flags = {}
      BY <3>1 DEF WellMade, PlanFields
    <3> QED
      BY <3>2 DEF WellMade, Flagged
  <2> QED
    BY <2>1, <2>2
<1> QED
  BY <1>1, <1>2, <1>3 DEF Delivered

\* An attempt with a plan ends as its rejection, as a denial, or with its answer.
LEMMA Attempted ==
  ASSUME NEW p, NEW sql, NEW rejected, Covers(question, p), WellMade(p),
         p.src = "rule" => /\ sql = RuleSql(p) /\ p.op \in CompiledOperations
                           /\ ValidPlan(p) => About(p, question),
         Attempt(p, sql, rejected)
  PROVE  Delivered(p, sql) \/ End("denied") \/ rejected
<1> SUFFICES ASSUME ~End("denied"), ~rejected PROVE Delivered(p, sql)
  OBVIOUS
<1>1. ValidPlan(p) /\ Authorized(p, user) /\ Guarded(sql)
  BY DEF Attempt
<1>2. PICK cells \in Chosen(sql, Cells(sql, AccessScope(p, user), reported)) :
        /\ ResultAccepted(p, sql, cells, AccessScope(p, user), reported)
        /\ stage' = "answered" /\ turns' = turns + 1 /\ Remember(p, sql, cells)
        /\ answer' = [op |-> p.op, plan |-> p, sql |-> sql,
                      scope |-> AccessScope(p, user), cells |-> cells]
        /\ UNCHANGED <<world, request, attempts>>
  BY DEF Attempt
<1>3. "require_organization_list" \in p.flags => sql.columns \cap OrgColumns # {}
  BY <1>2 DEF ResultAccepted, ValidResult
<1>4. p.src = "rule" => Ruled(p, sql)
  BY <1>1, <1>3 DEF Ruled
<1> QED
  BY <1>1, <1>2, <1>4, Accepted

\* Where an attempt of the rules may end.
LEMMA RuleOutcomes ==
  ASSUME Related, RuleAttempt
  PROVE  \/ \E p, sql : Delivered(p, sql)
         \/ \E outcome \in Ends \ {"answered"} : End(outcome)
         \/ ToModel
         \/ stage' = "clarified" /\ UNCHANGED <<world, memory, turns, request, attempts, answer>>
<1> DEFINE context == stage = "context_rules"
           m == IF context THEN memory ELSE NoMemory
           d == Plan(planning, m, context)
<1>1. \/ d.kind = "error" /\ End("crashed")
      \/ d.kind = "llm" /\ Unplanned(d.candidates)
      \/ /\ d.kind = "plan"
         /\ IF ~Covers(question, d.plan) THEN ToModel
            ELSE IF CompileFails(d.plan) THEN End("crashed")
            ELSE Attempt(d.plan, RuleSql(d.plan), ToModel)
  BY DEF RuleAttempt
<1>2. CASE d.kind = "error" /\ End("crashed")
  BY <1>2 DEF Ends
<1>3. CASE d.kind = "llm" /\ Unplanned(d.candidates)
  BY <1>3 DEF Unplanned, Ends
<1>4. CASE /\ d.kind = "plan"
           /\ IF ~Covers(question, d.plan) THEN ToModel
              ELSE IF CompileFails(d.plan) THEN End("crashed")
              ELSE Attempt(d.plan, RuleSql(d.plan), ToModel)
  <2>1. /\ stage \in {"rules", "context_rules"}
        /\ KeepsOrganizations(question, planning) /\ KeepsDate(question, planning)
        /\ context => planning.orgs \in Seq(Organizations)
    BY DEF RuleAttempt, Related
  <2>2. context \in BOOLEAN /\ (m.turn => WellMade(m.plan))
    BY DEF Related, NoMemory
  <2>3. PICK p, sql : p = d.plan /\ sql = RuleSql(d.plan)
    OBVIOUS
  <2>4. p.src = "rule" /\ WellMade(p) /\ (ValidPlan(p) => About(p, planning))
    <3> HIDE DEF context, m
    <3> QED
      BY <1>4, <2>1, <2>2, <2>3, Planned
  <2>5. ValidPlan(p) => About(p, question)
    BY <2>1, <2>4 DEF About, KeepsOrganizations, KeepsDate
  <2>6. CASE Covers(question, p) /\ ~CompileFails(p) /\ Attempt(p, sql, ToModel)
    <3>1. p.op \in CompiledOperations
      BY <2>6 DEF CompileFails
    <3>2. Delivered(p, sql) \/ End("denied") \/ ToModel
      BY <2>3, <2>4, <2>5, <2>6, <3>1, Attempted
    <3> QED
      BY <3>2 DEF Ends
  <2> QED
    BY <1>4, <2>3, <2>6 DEF Ends
<1> QED
  BY <1>1, <1>2, <1>3, <1>4

LEMMA ModelOutcomes ==
  ASSUME ModelAttempt
  PROVE  \/ \E p, sql : Delivered(p, sql)
         \/ \E outcome \in Ends \ {"answered"} : End(outcome)
         \/ Retry
<1>1. PICK reply \in Replies : \E p, sql :
        /\ p = Augmented(planning, reply)
        /\ \/ End("crashed") \/ Retry
           \/ Covers(question, p) /\ Attempt(p, sql, Retry)
  BY DEF ModelAttempt
<1>2. PICK p, sql :
        /\ p = Augmented(planning, reply)
        /\ \/ End("crashed") \/ Retry
           \/ Covers(question, p) /\ Attempt(p, sql, Retry)
  BY <1>1
<1>3. WellMade(p) /\ p.src # "rule"
  <2>1. DOMAIN reply.plan = PlanFields /\ reply.plan.src = "llm"
    BY DialogueAssumption
  <2>2. DOMAIN p = PlanFields /\ p.src = "llm"
    BY <1>2, <2>1 DEF Augmented, PlanFields
  <2> QED
    BY <2>2 DEF WellMade
<1>4. CASE Covers(question, p) /\ Attempt(p, sql, Retry)
  <2>1. Delivered(p, sql) \/ End("denied") \/ Retry
    BY <1>3, <1>4, Attempted
  <2> QED
    BY <2>1 DEF Ends
<1> QED
  BY <1>2, <1>4 DEF Ends

\* Without an answer there is nothing to confine.
LEMMA Unanswered ==
  ASSUME stage' # "answered"
  PROVE  Confined' /\ PopulationWhole' /\ DutiesServed' /\ AboutWhatWasNamed'
  BY DEF Confined, PopulationWhole, DutiesServed, AboutWhatWasNamed, RuleAnswered, Answered

\* What is planned is as it was where the request has not changed.
LEMMA RelatedKept ==
  ASSUME Related, stage \in Stages \ (Ends \cup {"idle"}), UNCHANGED request,
         stage' \in {stage, "rewrite", "model"} \cup Ends,
         stage' = "rewrite" => stage \in {"rewrite", "context_rules"},
         memory'.turn => WellMade(memory'.plan)
  PROVE  Related'
  BY DEF Related, request, Stages, Ends, KeepsOrganizations, KeepsDate

LEMMA EndStep ==
  ASSUME IInv, stage \notin Ends \cup {"idle"}, NEW outcome \in Ends \ {"answered"}, End(outcome)
  PROVE  IInv'
<1>1. Counted'
  BY DEF End, IInv, Counted, Stages, Ends, world, request
<1>2. Related'
  <2>1. /\ stage \in Stages \ (Ends \cup {"idle"}) /\ Related
    BY DEF IInv, Counted
  <2>2. /\ stage' \in Ends /\ stage' # "rewrite" /\ memory' = memory
        /\ UNCHANGED request
    BY DEF End, request, Ends
  <2>3. memory'.turn => WellMade(memory'.plan)
    BY <2>1, <2>2 DEF Related
  <2> QED
    BY <2>1, <2>2, <2>3, RelatedKept
<1> QED
  BY <1>1, <1>2, Unanswered DEF End, IInv

LEMMA DeliveredStep ==
  ASSUME IInv, stage \notin Ends \cup {"idle"}, NEW p, NEW sql, Delivered(p, sql)
  PROVE  IInv'
<1>1. Counted'
  <2>1. /\ stage' = "answered" /\ turns' = turns + 1 /\ memory'.turn = TRUE
        /\ UNCHANGED <<world, request, attempts>>
    BY DEF Delivered
  <2>2. turns < MaxTurns /\ turns \in 0..MaxTurns /\ MaxTurns \in Nat
    BY PipelineAssumption DEF IInv, Counted
  <2>3. turns' \in 0..MaxTurns
    BY <2>1, <2>2
  <2> QED
    BY <2>1, <2>3 DEF IInv, Counted, Stages, Ends, world, request
<1>2. Related'
  BY RelatedKept DEF Delivered, IInv, Counted, Ends
<1> QED
  BY <1>1, <1>2, DeliveredFits, DeliveredAnswers DEF IInv

LEMMA RuleStep == ASSUME IInv, RuleAttempt PROVE IInv'
<1>1. stage \notin Ends \cup {"idle"} /\ stage # "model"
  BY DEF RuleAttempt, Ends
<1>2. ASSUME ToModel PROVE IInv'
  <2>1. Counted'
    BY <1>1, <1>2, PipelineAssumption DEF ToModel, IInv, Counted, Stages, Ends, world, request
  <2>2. Related'
    BY <1>1, <1>2, RelatedKept DEF RuleAttempt, ToModel, IInv, Counted, Related
  <2> QED
    BY <1>2, <2>1, <2>2, Unanswered DEF ToModel, IInv
<1>3. ASSUME stage' = "clarified", UNCHANGED <<world, memory, turns, request, attempts, answer>>
      PROVE  IInv'
  <2>1. Counted'
    BY <1>3 DEF IInv, Counted, Stages, Ends, world, request
  <2>2. Related'
    BY <1>1, <1>3, RelatedKept DEF IInv, Counted, Related, Ends
  <2> QED
    BY <1>3, <2>1, <2>2, Unanswered DEF IInv
<1>4. Related
  BY DEF IInv
<1> QED
  BY <1>1, <1>2, <1>3, <1>4, RuleOutcomes, DeliveredStep, EndStep

LEMMA RetryStep == ASSUME IInv, stage \in {"rewrite", "model"}, Retry PROVE IInv'
<1>1. Counted'
  BY PipelineAssumption DEF Retry, IInv, Counted, Stages, Ends, world, request
<1>2. stage' # "answered"
  BY DEF Retry
<1>3. Related'
  BY RelatedKept DEF Retry, IInv, Counted, Related, Ends
<1> QED
  BY <1>1, <1>2, <1>3, Unanswered DEF IInv

LEMMA ModelStep == ASSUME IInv, ModelAttempt PROVE IInv'
<1>1. stage = "model" /\ stage \notin Ends \cup {"idle"}
  BY DEF ModelAttempt, Ends
<1> QED
  BY <1>1, ModelOutcomes, DeliveredStep, EndStep, RetryStep

LEMMA RewriteStep == ASSUME IInv, Rewrite PROVE IInv'
<1>1. stage = "rewrite" /\ stage \notin Ends \cup {"idle"}
  BY DEF Rewrite, Ends
<1>2. CASE Retry
  BY <1>1, <1>2, RetryStep
<1>3. CASE /\ RewriteValid(question, planning')
           /\ stage' = "rules" /\ origin' = "rewritten" /\ attempts' = 0
           /\ UNCHANGED <<world, memory, pending, turns, question, answer>>
  <2>1. Counted'
    BY <1>1, <1>3, PipelineAssumption DEF IInv, Counted, Stages, Ends, world
  <2>2. Related'
    BY <1>3 DEF RewriteValid, IInv, Related, KeepsOrganizations, KeepsDate
  <2> QED
    BY <1>3, <2>1, <2>2, Unanswered DEF IInv
<1> QED
  BY <1>2, <1>3 DEF Rewrite

LEMMA FailStep ==
  ASSUME IInv, ModelFails \/ ModelBreaks \/ ModelUnsure
  PROVE  IInv'
<1>1. CASE ModelFails
  BY <1>1, RetryStep DEF ModelFails
<1>2. CASE ModelBreaks \/ ModelUnsure
  <2>1. stage \notin Ends \cup {"idle"}
    BY <1>2 DEF ModelBreaks, ModelUnsure, Ends
  <2>2. \E outcome \in Ends \ {"answered"} : End(outcome)
    BY <1>2 DEF ModelBreaks, ModelUnsure, Ends
  <2> QED
    BY <2>1, <2>2, EndStep
<1> QED
  BY <1>1, <1>2

LEMMA RequestStep == ASSUME IInv, Request PROVE IInv'
<1>1. /\ stage = "idle" /\ turns < MaxTurns
      /\ stage' \in {"denied", "rules", "context_rules", "rewrite"}
      /\ origin' \in {"asked", "resumed"} /\ planning' = question'
      /\ stage' \in {"context_rules", "rewrite"} => question' \in Openings \cup FollowUps
      /\ UNCHANGED <<world, memory, turns, attempts, answer>>
  <2>1. ASSUME NEW q, Ask(q)
        PROVE  /\ stage' \in {"denied", "rules", "context_rules", "rewrite"} /\ origin' = "asked"
               /\ planning' = question' /\ question' = q
               /\ UNCHANGED <<world, memory, turns, attempts, answer>>
    BY <2>1 DEF Ask, NewQuestion, Classified
  <2>2. ASSUME NEW orgs, NEW metrics, Supply(orgs, metrics)
        PROVE  /\ stage' \in {"denied", "rules"} /\ origin' = "resumed"
               /\ planning' = question'
               /\ UNCHANGED <<world, memory, turns, attempts, answer>>
    BY <2>2 DEF Supply, NewQuestion
  <2> QED
    BY <2>1, <2>2 DEF Request, Questionable
<1>2. Counted'
  BY <1>1 DEF IInv, Counted, Stages, Ends, world
<1>3. Related'
  BY <1>1, DialogueAssumption DEF IInv, Related, KeepsOrganizations, KeepsDate
<1> QED
  BY <1>1, <1>2, <1>3, Unanswered DEF IInv

LEMMA QuietStep == ASSUME IInv, Return \/ ClearSession PROVE IInv'
<1>1. Counted'
  <2>1. CASE Return
    BY <2>1, PipelineAssumption DEF Return, IInv, Counted, Stages, Ends, world
  <2>2. CASE ClearSession
    <3>1. memory'.turn \in BOOLEAN
      BY <2>2 DEF ClearSession, NoMemory
    <3>2. /\ stage = "idle" /\ turns' = 0
          /\ UNCHANGED <<world, stage, request, attempts>>
      BY <2>2 DEF ClearSession
    <3> QED
      BY <3>1, <3>2, PipelineAssumption DEF IInv, Counted, Stages, Ends, world, request
  <2> QED
    BY <2>1, <2>2
<1>2. stage' = "idle"
  BY DEF Return, ClearSession
<1>3. Related'
  BY <1>2 DEF Return, ClearSession, NoMemory, IInv, Related
<1> QED
  BY <1>1, <1>2, <1>3, Unanswered DEF IInv

LEMMA StutterStep == ASSUME IInv, UNCHANGED vars PROVE IInv'
<1>1. Counted' /\ Confined' /\ PopulationWhole'
  BY DEF IInv, vars, Counted, Confined, PopulationWhole, Answered, AnswerPopulation, Duties
<1>2. Related'
  BY DEF IInv, vars, Related
<1>3. DutiesServed' /\ AboutWhatWasNamed'
  BY DEF IInv, vars, DutiesServed, AboutWhatWasNamed, RuleAnswered, Answered, Duties, ServingColumns
<1> QED
  BY <1>1, <1>2, <1>3 DEF IInv

LEMMA InitIInv == Init => IInv
<1> SUFFICES ASSUME Init PROVE IInv
  OBVIOUS
<1>1. Counted
  BY PipelineAssumption DEF Init, Counted, Stages, Ends, NoMemory
<1>2. Related
  BY DEF Init, Related, NoMemory
<1> QED
  BY <1>1, <1>2 DEF Init, IInv, Confined, PopulationWhole, DutiesServed, AboutWhatWasNamed,
     RuleAnswered, Answered

LEMMA NextIInv == IInv /\ [Next]_vars => IInv'
  BY RequestStep, QuietStep, RuleStep, RewriteStep, ModelStep, FailStep, StutterStep DEF Next, Serve

-----------------------------------------------------------------------------
\* The inductive invariant holds always.
THEOREM Inductive == Spec => []IInv
  BY InitIInv, NextIInv, PTL DEF Spec

\* The request's stage, its attempts and the turns of the dialogue stay in their
\* bounds: never more than LlmRetries further attempts of the model (_ask).
THEOREM TypeCorrect == Spec => []TypeOK
<1>1. IInv => TypeOK
  BY DEF IInv, Counted, TypeOK
<1> QED
  BY <1>1, Inductive, PTL

\* What an answer shows or computes with lies within the organizations and the
\* metrics of who asks, whatever the rules plan or the model writes
\* (_authorize_plan, SQLGuard, _apply_scope).
THEOREM Confinement == Spec => []Confined
<1>1. IInv => Confined
  BY DEF IInv
<1> QED
  BY <1>1, Inductive, PTL

\* An answer to a question about a rank or an average of the province ranks and
\* averages over every organization that reported, as far as its SQL does.
THEOREM Unconfined == Spec => []PopulationWhole
<1>1. IInv => PopulationWhole
  BY DEF IInv
<1> QED
  BY <1>1, Inductive, PTL

\* An answer of the rules holds a column for each duty of the question, except where the
\* coverage goes by a flag and not by the operation (Overlooked), whatever phrases meet
\* in it and whether it was planned from the question, from a rewriting or with the
\* dialogue's focus (AnswerCoverageValidator against compile_rule_sql).
THEOREM Dutiful == Spec => []DutiesServed
<1>1. IInv => DutiesServed
  BY DEF IInv
<1> QED
  BY <1>1, Inductive, PTL

\* An answer of the rules is about every organization and the date the question names
\* (RulePlanner.plan, _validate_context_rewrite).
THEOREM Named == Spec => []AboutWhatWasNamed
<1>1. IInv => AboutWhatWasNamed
  BY DEF IInv
<1> QED
  BY <1>1, Inductive, PTL

-----------------------------------------------------------------------------
\* Progress

LEMMA Places ==
  /\ Place["context_rules"] = 4 /\ Place["rewrite"] = 3 /\ Place["rules"] = 2 /\ Place["model"] = 1
  /\ \A outcome \in Ends : Place[outcome] = 0
  BY DEF Place, Stages, Ends

LEMMA RetryLeadsOn ==
  ASSUME IInv, stage \in {"rewrite", "model"}, Retry
  PROVE  \/ Place[stage'] < Place[stage]
         \/ stage' = stage /\ attempts < LlmRetries /\ attempts' = attempts + 1
<1>1. CASE attempts < LlmRetries
  BY <1>1 DEF Retry
<1>2. CASE ~(attempts < LlmRetries)
  BY <1>2, Places DEF Retry, Ends
<1> QED
  BY <1>1, <1>2

LEMMA RuleLeadsOn == ASSUME IInv, RuleAttempt PROVE Place[stage'] < Place[stage]
<1>1. stage \in {"rules", "context_rules"}
  BY DEF RuleAttempt
<1>2. \/ stage' \in Ends
      \/ stage' = "rewrite" /\ stage = "context_rules"
      \/ stage' = "model" /\ stage = "rules"
  BY <1>1, RuleOutcomes DEF IInv, Delivered, End, ToModel, Ends
<1> QED
  BY <1>1, <1>2, Places

\* Every step of a request leads to a later stage or is one more attempt within the
\* retries: with a thread that takes its next step, every question has an outcome.
THEOREM Progress == Spec => LeadsOn
<1> DEFINE Step == stage \notin Ends \cup {"idle"} =>
                     \/ Place[stage'] < Place[stage]
                     \/ stage' = stage /\ attempts < LlmRetries /\ attempts' = attempts + 1
<1>1. IInv /\ [Next]_vars => [Step]_vars
  <2> SUFFICES ASSUME IInv, Next, stage \notin Ends \cup {"idle"} PROVE Step
    OBVIOUS
  <2>1. CASE Request \/ Return \/ ClearSession
    BY <2>1 DEF Request, Return, ClearSession
  <2>2. CASE RuleAttempt
    BY <2>2, RuleLeadsOn
  <2>3. CASE Rewrite
    <3>1. stage = "rewrite"
      BY <2>3 DEF Rewrite
    <3>2. CASE Retry
      BY <3>1, <3>2, RetryLeadsOn
    <3>3. CASE stage' = "rules"
      BY <3>1, <3>3, Places
    <3> QED
      BY <2>3, <3>2, <3>3 DEF Rewrite
  <2>4. CASE ModelAttempt
    <3>1. stage = "model"
      BY <2>4 DEF ModelAttempt
    <3>2. stage' \in Ends \/ Retry
      BY <2>4, ModelOutcomes DEF Delivered, End, Ends
    <3>3. CASE stage' \in Ends
      BY <3>1, <3>3, Places
    <3> QED
      BY <3>1, <3>2, <3>3, RetryLeadsOn
  <2>5. CASE ModelFails
    BY <2>5, RetryLeadsOn DEF ModelFails
  <2>6. CASE ModelBreaks \/ ModelUnsure
    <3>1. stage \in {"rewrite", "model"} /\ stage' \in Ends
      BY <2>6 DEF ModelBreaks, ModelUnsure, End, Ends
    <3> QED
      BY <3>1, Places
  <2> QED
    BY <2>1, <2>2, <2>3, <2>4, <2>5, <2>6 DEF Next, Serve
<1> QED
  BY <1>1, Inductive, PTL DEF LeadsOn, Spec

\* How many steps a request in progress may still take.
Effort ==
    IF stage \in Ends \cup {"idle"} THEN 0
    ELSE Place[stage] * (LlmRetries + 2) + (LlmRetries + 1 - attempts)

LEMMA EffortBound ==
  ASSUME IInv
  PROVE  /\ Effort \in 0..(5 * LlmRetries + 9)
         /\ stage \notin Ends \cup {"idle"} =>
              Effort = Place[stage] * (LlmRetries + 2) + (LlmRetries + 1 - attempts)
<1>1. /\ stage \in Stages /\ attempts \in 0..LlmRetries + 1 /\ LlmRetries \in Nat
  BY PipelineAssumption DEF IInv, Counted
<1>2. stage \in Ends \cup {"idle"} \/ Place[stage] \in {1, 2, 3, 4}
  BY <1>1, Places DEF Stages
<1>3. \A place \in {1, 2, 3, 4}, a \in 0..LlmRetries + 1 :
        place * (LlmRetries + 2) + (LlmRetries + 1 - a) \in 0..(5 * LlmRetries + 9)
  BY <1>1
<1> QED
  BY <1>1, <1>2, <1>3 DEF Effort

LEMMA EffortFalls ==
  ASSUME IInv, IInv', stage \notin Ends \cup {"idle"},
         \/ Place[stage'] < Place[stage]
         \/ stage' = stage /\ attempts < LlmRetries /\ attempts' = attempts + 1
  PROVE  Effort' < Effort
<1>1. /\ LlmRetries \in Nat /\ attempts \in 0..LlmRetries + 1 /\ attempts' \in 0..LlmRetries + 1
      /\ stage \in Stages /\ stage' \in Stages
  BY PipelineAssumption DEF IInv, Counted
<1>2. Place[stage] \in 1..4 /\ Place[stage'] \in 0..4
  BY <1>1, Places DEF Stages, Place
<1>3. Effort = Place[stage] * (LlmRetries + 2) + (LlmRetries + 1 - attempts)
  BY EffortBound
<1>4. \/ stage' \in Ends \cup {"idle"} /\ Effort' = 0
      \/ Effort' = Place[stage'] * (LlmRetries + 2) + (LlmRetries + 1 - attempts')
  BY DEF Effort
<1>5. \A k \in 1..4 : k * (LlmRetries + 2) >= LlmRetries + 2
  BY <1>1
<1>6. \A k \in 1..4, j \in 0..4 :
        j < k => j * (LlmRetries + 2) + LlmRetries + 2 <= k * (LlmRetries + 2)
  BY <1>1
<1>7. CASE stage' \in Ends \cup {"idle"} /\ Effort' = 0
  <2>1. Place[stage] * (LlmRetries + 2) >= LlmRetries + 2
    BY <1>2, <1>5
  <2>2. Place[stage] * (LlmRetries + 2) \in Int
    BY <1>1, <1>2
  <2> QED
    BY <1>1, <1>3, <1>7, <2>1, <2>2
<1>8. CASE Effort' = Place[stage'] * (LlmRetries + 2) + (LlmRetries + 1 - attempts')
  <2>1. /\ Place[stage] * (LlmRetries + 2) \in Int
        /\ Place[stage'] * (LlmRetries + 2) \in Int
    BY <1>1, <1>2
  <2>2. CASE Place[stage'] < Place[stage]
    <3>1. Place[stage'] * (LlmRetries + 2) + LlmRetries + 2 <= Place[stage] * (LlmRetries + 2)
      BY <1>2, <1>6, <2>2
    <3> QED
      BY <1>1, <1>3, <1>8, <2>1, <3>1
  <2>3. CASE stage' = stage /\ attempts' = attempts + 1
    BY <1>1, <1>3, <1>8, <2>1, <2>3
  <2> QED
    BY <2>2, <2>3
<1> QED
  BY <1>4, <1>7, <1>8

\* A request has its outcome after at most 5 * LlmRetries + 9 steps, whatever the rules
\* and the model do (_ask, _rewrite_context, _llm_attempts): each step takes one away.
THEOREM BoundedEffort ==
  Spec => /\ [](Effort \in 0..(5 * LlmRetries + 9))
          /\ [][stage \notin Ends \cup {"idle"} => Effort' < Effort]_vars
<1>1. IInv => Effort \in 0..(5 * LlmRetries + 9)
  BY EffortBound
<1> DEFINE Step == stage \notin Ends \cup {"idle"} =>
                     \/ Place[stage'] < Place[stage]
                     \/ stage' = stage /\ attempts < LlmRetries /\ attempts' = attempts + 1
<1>2. IInv /\ IInv' /\ [Step]_vars => [stage \notin Ends \cup {"idle"} => Effort' < Effort]_vars
  BY EffortFalls
<1>3. Spec => [][Step]_vars
  BY Progress DEF LeadsOn
<1> QED
  BY <1>1, <1>2, <1>3, Inductive, PTL

-----------------------------------------------------------------------------
\* What a request has passed

\* What is asked and what is kept of a question names organizations of the user only.
QuestionPermitted ==
    /\ stage \notin {"idle", "denied"} => QuestionAllowed(question, user)
    /\ pending # NoQuestion => QuestionAllowed(pending, user)

\* The plan, the SQL and the rows of an answer.
Passed(a) ==
    /\ Covers(question, a.plan) /\ ValidPlan(a.plan) /\ Authorized(a.plan, user)
    /\ Guarded(a.sql) /\ Aligned(a.plan, a.sql) /\ Executable(a.sql)
    /\ a.scope = AccessScope(a.plan, user)
    /\ ResultAccepted(a.plan, a.sql, a.cells, a.scope, reported)

AnswerPassed == Answered => Passed(answer)

\* An attempt answers with what has passed every check.
LEMMA AttemptPassed ==
  ASSUME NEW p, NEW sql, NEW rejected, Covers(question, p), Attempt(p, sql, rejected)
  PROVE  \/ rejected \/ End("denied")
         \/ /\ Passed(answer)' /\ pending' = NoQuestion /\ stage' = "answered"
            /\ UNCHANGED <<world, request>>
<1> SUFFICES ASSUME ~rejected, ~End("denied")
             PROVE  /\ Passed(answer)' /\ pending' = NoQuestion /\ stage' = "answered"
                    /\ UNCHANGED <<world, request>>
  OBVIOUS
<1>1. /\ ValidPlan(p) /\ Authorized(p, user)
      /\ Guarded(sql) /\ Aligned(p, sql) /\ Executable(sql)
  BY DEF Attempt
<1>2. PICK cells \in Chosen(sql, Cells(sql, AccessScope(p, user), reported)) :
        /\ ResultAccepted(p, sql, cells, AccessScope(p, user), reported)
        /\ stage' = "answered" /\ pending' = NoQuestion
        /\ answer' = [op |-> p.op, plan |-> p, sql |-> sql,
                      scope |-> AccessScope(p, user), cells |-> cells]
        /\ UNCHANGED <<world, request, attempts>>
  BY DEF Attempt
<1>3. /\ answer'.plan = p /\ answer'.sql = sql /\ answer'.cells = cells
      /\ answer'.scope = AccessScope(p, user)
      /\ question' = question /\ user' = user /\ reported' = reported
  BY <1>2 DEF world, request
<1> QED
  BY <1>1, <1>2, <1>3 DEF Passed

\* What the steps of a request do to it, besides answering.
Continues ==
    /\ stage' # "answered" /\ UNCHANGED <<world, question>>
    /\ pending' = pending \/ pending' = question \/ pending' = NoQuestion

LEMMA ServePassed ==
  ASSUME Serve
  PROVE  /\ stage \notin Ends \cup {"idle"}
         /\ \/ Continues
            \/ /\ Passed(answer)' /\ pending' = NoQuestion /\ stage' = "answered"
               /\ UNCHANGED <<world, request>>
<1> DEFINE Passes == /\ Passed(answer)' /\ pending' = NoQuestion /\ stage' = "answered"
                     /\ UNCHANGED <<world, request>>
<1>1. ASSUME NEW outcome \in Ends \ {"answered"}, End(outcome) PROVE Continues
  BY <1>1 DEF End, Continues, world, request, Ends
<1>2. End("denied") \/ End("crashed") \/ End("clarified") => Continues
  BY <1>1 DEF Ends
<1>3. ToModel => Continues
  BY DEF ToModel, Continues, world, request
<1>4. ASSUME stage \in {"rewrite", "model"}, Retry PROVE Continues
  BY <1>4 DEF Retry, Continues, world, request
<1>5. CASE RuleAttempt
  <2>1. stage \in {"rules", "context_rules"}
    BY <1>5 DEF RuleAttempt
  <2>2. PICK d :
          \/ d.kind = "error" /\ End("crashed")
          \/ d.kind = "llm" /\ Unplanned(d.candidates)
          \/ /\ d.kind = "plan"
             /\ IF ~Covers(question, d.plan) THEN ToModel
                ELSE IF CompileFails(d.plan) THEN End("crashed")
                ELSE Attempt(d.plan, RuleSql(d.plan), ToModel)
    BY <1>5 DEF RuleAttempt
  <2>3. Unplanned(d.candidates) => Continues
    BY <1>2, <1>3 DEF Unplanned, Continues, world, request
  <2>4. CASE Covers(question, d.plan) /\ Attempt(d.plan, RuleSql(d.plan), ToModel)
    <3>1. ToModel \/ End("denied") \/ Passes
      BY <2>4, AttemptPassed
    <3> QED
      BY <1>2, <1>3, <2>1, <3>1 DEF Ends
  <2> QED
    BY <1>2, <1>3, <2>1, <2>2, <2>3, <2>4 DEF Ends
<1>6. CASE ModelAttempt
  <2>1. stage = "model"
    BY <1>6 DEF ModelAttempt
  <2>2. PICK p, sql :
          \/ End("crashed") \/ Retry
          \/ Covers(question, p) /\ Attempt(p, sql, Retry)
    BY <1>6 DEF ModelAttempt
  <2>3. CASE Covers(question, p) /\ Attempt(p, sql, Retry)
    <3>1. Retry \/ End("denied") \/ Passes
      BY <2>3, AttemptPassed
    <3> QED
      BY <1>2, <1>4, <2>1, <3>1 DEF Ends
  <2> QED
    BY <1>2, <1>4, <2>1, <2>2, <2>3 DEF Ends
<1>7. CASE Rewrite
  BY <1>4, <1>7 DEF Rewrite, Continues, world, Ends
<1>8. CASE ModelFails \/ ModelBreaks \/ ModelUnsure
  BY <1>2, <1>4, <1>8 DEF ModelFails, ModelBreaks, ModelUnsure, Ends
<1> QED
  BY <1>5, <1>6, <1>7, <1>8 DEF Serve

LEMMA RequestPermitted ==
  ASSUME Request, QuestionPermitted
  PROVE  QuestionPermitted' /\ stage' # "answered"
<1>1. ASSUME NEW q, Ask(q) PROVE QuestionPermitted' /\ stage' # "answered"
  <2>1. /\ question' = q /\ user' = user
        /\ \/ stage' = "denied" /\ pending' = pending
           \/ /\ QuestionAllowed(q, user) /\ pending' = NoQuestion
              /\ stage' \in {"rules", "context_rules", "rewrite"}
    BY <1>1 DEF Ask, NewQuestion, Classified, world
  <2> QED
    BY <2>1 DEF QuestionPermitted, QuestionAllowed
<1>2. ASSUME NEW orgs, NEW metrics, Supply(orgs, metrics)
      PROVE  QuestionPermitted' /\ stage' # "answered"
  <2>1. PICK whole :
          /\ "organization" \notin Missing(pending) => whole.orgs = pending.orgs
          /\ stage' = IF "organization" \in Missing(pending) /\ ~QuestionAllowed(whole, user)
                      THEN "denied" ELSE "rules"
          /\ question' = whole /\ user' = user
    <3> DEFINE missing == Missing(pending)
               full == [pending EXCEPT !.orgs = IF "organization" \in missing THEN orgs ELSE @,
                                       !.metrics = IF "metric" \in missing THEN metrics ELSE @,
                                       !.date = IF "date" \in missing THEN "day" ELSE @]
    <3>1. /\ stage' = IF "organization" \in missing /\ ~QuestionAllowed(full, user)
                      THEN "denied" ELSE "rules"
          /\ question' = full /\ user' = user
      BY <1>2 DEF Supply, NewQuestion, world
    <3>2. "organization" \notin missing => full.orgs = pending.orgs
      OBVIOUS
    <3> QED
      BY <3>1, <3>2
  <2>2. pending' = pending /\ pending # NoQuestion
    BY <1>2 DEF Supply
  <2>3. "organization" \notin Missing(pending) => QuestionAllowed(whole, user)
    BY <2>1, <2>2 DEF QuestionPermitted, QuestionAllowed
  <2> QED
    BY <2>1, <2>2, <2>3 DEF QuestionPermitted, QuestionAllowed
<1> QED
  BY <1>1, <1>2 DEF Request

LEMMA PassedStep ==
  ASSUME QuestionPermitted, AnswerPassed, [Next]_vars
  PROVE  QuestionPermitted' /\ AnswerPassed'
<1>1. CASE UNCHANGED vars
  BY <1>1 DEF vars, QuestionPermitted, AnswerPassed, Answered, Passed
<1>2. CASE Request
  BY <1>2, RequestPermitted DEF AnswerPassed, Answered
<1>3. CASE Return \/ ClearSession
  <2>1. stage' = "idle" /\ user' = user /\ (pending' = pending \/ pending' = NoQuestion)
    BY <1>3 DEF Return, ClearSession, world
  <2> QED
    BY <2>1 DEF QuestionPermitted, AnswerPassed, Answered
<1>4. CASE Serve
  <2>1. QuestionAllowed(question, user)
    BY <1>4, ServePassed DEF QuestionPermitted, Ends
  <2>2. CASE Continues
    BY <2>1, <2>2 DEF Continues, QuestionPermitted, AnswerPassed, Answered, world
  <2>3. CASE /\ Passed(answer)' /\ pending' = NoQuestion /\ stage' = "answered"
             /\ UNCHANGED <<world, request>>
    BY <2>1, <2>3 DEF QuestionPermitted, AnswerPassed, Answered, world, request
  <2> QED
    BY <1>4, <2>2, <2>3, ServePassed
<1> QED
  BY <1>1, <1>2, <1>3, <1>4 DEF Next

\* No way through _ask leads past a check: what is answered, by the rules, by the model,
\* from a rewriting or at the last attempt, is covered, valid, authorized, guarded, aligned,
\* executed in the scope of its plan, and its rows were accepted.
THEOREM NothingUnchecked == Spec => []AnswerPassed
<1>1. Init => QuestionPermitted /\ AnswerPassed
  BY DEF Init, QuestionPermitted, AnswerPassed, Answered
<1> QED
  BY <1>1, PassedStep, PTL DEF Spec

\* _authorize_question looks at a new question and at the organizations of a reply; so a
\* question put together from both, over several requests, is within the user's rights.
THEOREM AskedWithinRights == Spec => []QuestionPermitted
<1>1. Init => QuestionPermitted /\ AnswerPassed
  BY DEF Init, QuestionPermitted, AnswerPassed, Answered
<1> QED
  BY <1>1, PassedStep, PTL DEF Spec
=============================================================================
