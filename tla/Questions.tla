----------------------------- MODULE Questions -----------------------------
(***************************************************************************)
(* What the planners see of a question.  A question names organizations,   *)
(* metrics and a date, and says some phrases; each regular expression of   *)
(* the code is the set of the phrases that match it.  Phrases stand in a   *)
(* question in the order of Phrases, after what it names.  ZB012 is left    *)
(* out: its name ends in 比, which several patterns take for a comparison.  *)
(* The module also holds what is decided from the words alone: the duties  *)
(* of an answer, whether history is needed, which slots are missing.       *)
(***************************************************************************)
EXTENDS Integers, Sequences, FiniteSets, SequencesExt

\* The vocabulary, with the Chinese words meant.
Phrases == {
    "the_two",        \* 两家
    "it",             \* 它的
    "at_first",       \* 一开始
    "province",       \* 全省
    "average",        \* 全省均值
    "which_org",      \* 哪家
    "which_orgs",     \* 哪些机构
    "how_many_orgs",  \* 多少家
    "how_many",       \* 有几家
    "how_many_days",  \* 多少天
    "top3",           \* 前三
    "bottom3",        \* 后三
    "highest",        \* 最高
    "lowest",         \* 最低
    "who_higher",     \* 谁更高
    "ordinal",        \* 第几
    "position",       \* 排名
    "rank_change",    \* 排名变化
    "over10",         \* 超过10%
    "both",           \* 同时满足
    "equals",         \* 是否等于
    "standard",       \* 达标
    "daily",          \* 日均
    "trend",          \* 趋势
    "sum",            \* 合计
    "how_different",  \* 差多少
    "changed",        \* 变化了多少
    "growth",         \* 增幅
    "direction",      \* 变动方向
    "how_much_each",  \* 分别是多少
    "risk",           \* 整体风险画像
    "profitability",  \* 盈利能力和收入结构
    "operations",     \* 主要经营指标排名
    "three_dims",     \* 规模、资产质量、盈利能力
    "performance",    \* 哪些表现较好，哪些表现较差
    "overall",        \* 综合评价
    "shares",         \* 对公和个人的存款占比
    "ratio",          \* 存贷比
    "year_start",     \* 较年初
    "mom",            \* 环比
    "yoy"}            \* 同比

\* A date of a plan; None is the absence of a date.
None == "none"

(* A question.  date is what it says of time: a day, a quarter (a period   *)
(* whose last day is also its date), a whole year (a period and no date).  *)
Question(orgs, metrics, date, says) ==
    [orgs |-> orgs, metrics |-> metrics, date |-> date, says |-> says]

Says(q, phrases) == q.says \cap phrases # {}

\* SessionState: the plan of the last answered question and the organizations
\* of its result; turn is FALSE when nothing was answered yet.
NoMemory == [turn |-> FALSE, result |-> <<>>,
             plan |-> [orgs |-> <<>>, scope |-> None, metrics |-> <<>>, cur |-> None, op |-> None]]

HasHistory(m) == m.turn

-----------------------------------------------------------------------------
\* Dates

\* resolve_date, _period_range: the date and the period a question states.
ResolvedDate(q) ==
    CASE q.date = "day" -> "day" [] q.date = "quarter" -> "period_end" [] OTHER -> None

PeriodRange(q) ==
    IF q.date \in {"quarter", "year"} THEN <<"period_start", "period_end">> ELSE <<None, None>>

\* comparison_date: the first comparison a question makes, in the order of the tests.
ComparisonKinds == <<"year_start", "mom", "yoy">>
ComparisonDate(q, current, reference) ==
    IF current = None THEN None
    ELSE IF Says(q, Range(ComparisonKinds))
         THEN SelectSeq(ComparisonKinds, LAMBDA k : k \in q.says)[1]
         ELSE IF reference # None /\ Says(q, {"rank_change"}) THEN reference ELSE None

-----------------------------------------------------------------------------
\* answer_obligations: the duties of an answer that the words state surely.

RankWords == {"ordinal", "position", "rank_change", "operations", "top3", "bottom3"}

Extremes(q) == {"highest", "lowest"} \subseteq q.says

Obligations(q) ==
    { d \in {"rank", "province_average", "growth", "difference", "threshold", "count",
             "organization_list", "profile", "extrema", "trend", "sum"} :
        CASE d = "rank" ->
               \/ Says(q, RankWords)
               \/ ("which_org" \in q.says /\ Says(q, {"highest", "lowest"}) /\ ~Extremes(q))
          [] d = "province_average" -> Says(q, {"average"})
          [] d = "growth" -> Says(q, {"growth"})
          [] d = "difference" -> Says(q, {"how_different", "changed"})
          [] d = "threshold" -> Says(q, {"standard"})
          [] d = "count" -> Says(q, {"how_many_orgs", "how_many", "how_many_days"})
          [] d = "organization_list" -> Says(q, {"which_orgs"})
          [] d = "profile" -> Says(q, {"risk", "overall"})
          [] d = "extrema" -> Extremes(q)
          [] d = "trend" -> Says(q, {"trend"})
          [] d = "sum" -> Says(q, {"sum"}) }

-----------------------------------------------------------------------------
\* ContextRouter.classify

HasPeriod(q) == q.date \in {"quarter", "year"}

\* Words that ask about all organizations, as the router reads them.
PopulationIntent(q) ==
    \/ Says(q, {"which_org", "which_orgs", "performance", "how_many_orgs", "how_many", "top3",
                "bottom3", "highest", "lowest"})
    \/ "province" \in q.says /\ "average" \notin q.says

NamesMetrics(q) ==
    q.metrics # <<>> \/ Says(q, {"ratio", "shares", "profitability", "operations", "three_dims",
                                 "performance", "risk"})

NamesOperation(q) ==
    Says(q, Phrases \ {"the_two", "it", "at_first", "province", "which_org", "how_many", "top3",
                       "bottom3", "who_higher", "over10", "profitability", "three_dims",
                       "year_start"})

ListFollowUp(q) ==
    q.says = {"which_orgs"} /\ q.orgs = <<>> /\ q.metrics = <<>> /\ q.date = None

ComparisonNeedsFocus(q) ==
    /\ ResolvedDate(q) # None
    /\ "rank_change" \in q.says
    /\ ComparisonDate(q, ResolvedDate(q), None) = None

MissesAnchor(q) ==
    \/ q.orgs = <<>> /\ ~PopulationIntent(q)
    \/ ResolvedDate(q) = None /\ ~HasPeriod(q)

Refers(q) == Says(q, {"it", "the_two", "at_first"})

NeedsContext(q, m) ==
    \/ Refers(q)
    \/ ListFollowUp(q)
    \/ ComparisonNeedsFocus(q)
    \/ /\ HasHistory(m)
       /\ \/ NamesMetrics(q) /\ MissesAnchor(q)
          \/ NamesOperation(q) /\ (~NamesMetrics(q) \/ MissesAnchor(q))

\* A reference in a question that is complete without it, a profile excepted.
RedundantReference(q) ==
    /\ Refers(q)
    /\ NamesMetrics(q) /\ ~MissesAnchor(q)
    /\ ~ComparisonNeedsFocus(q)
    /\ ~Says(q, {"risk", "overall"})

\* What the rules may take over from the focus of the dialogue: each part that
\* the question leaves out is one thing there.
CanInheritUniquely(q, m) ==
    /\ "at_first" \notin q.says
    /\ IF ListFollowUp(q)
       THEN m.turn /\ m.plan.op \in {"count_condition", "condition_members",
                                "multi_metric_province_compare"}
       ELSE /\ NamesMetrics(q) \/ Len(m.plan.metrics) = 1
            /\ \/ q.orgs # <<>> \/ PopulationIntent(q)
               \/ LET plural == IF m.result # <<>> THEN m.result ELSE m.plan.orgs
                      single == IF m.plan.orgs # <<>> THEN m.plan.orgs ELSE m.result
                  IN IF "the_two" \in q.says THEN Len(plural) = 2 ELSE Len(single) = 1
            /\ ResolvedDate(q) # None \/ HasPeriod(q) \/ m.plan.cur # None
            /\ NamesOperation(q) \/ m.plan.op \in {None, "value"}

Classify(q, m) ==
    IF RedundantReference(q) \/ ~NeedsContext(q, m)
    THEN [dependency |-> "self_contained", allow_context_rule |-> FALSE]
    ELSE IF HasHistory(m) /\ CanInheritUniquely(q, m)
         THEN [dependency |-> "context_required", allow_context_rule |-> TRUE]
         ELSE [dependency |-> "uncertain", allow_context_rule |-> FALSE]

-----------------------------------------------------------------------------
\* pending_query.py: whether an unplanned question becomes a pending one.

QueryIntent(q) ==
    Says(q, Phrases \ {"top3", "bottom3", "province", "how_many", "over10", "daily", "sum",
                       "profitability", "three_dims", "who_higher", "it", "the_two", "at_first",
                       "year_start"})

\* candidates: what the rules had recognised when they gave up.
MissingSlots(candidates) ==
    { s \in {"organization", "metric", "date"} :
        CASE s = "organization" -> candidates.scope = "selected" /\ candidates.orgs = <<>>
          [] s = "metric" -> candidates.metrics = <<>>
          [] s = "date" -> candidates.cur = None /\ candidates.start = None }

ShouldStartPending(q, candidates) ==
    /\ MissingSlots(candidates) # {}
    /\ QueryIntent(q)
    /\ \/ candidates.orgs # <<>> \/ candidates.metrics # <<>>
       \/ candidates.cur # None \/ candidates.start # None

IsSlotOnlyReply(q) ==
    ~QueryIntent(q) /\ (q.orgs # <<>> \/ q.metrics # <<>> \/ ResolvedDate(q) # None)
=============================================================================
