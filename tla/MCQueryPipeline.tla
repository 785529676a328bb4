-------------------------- MODULE MCQueryPipeline --------------------------
EXTENDS QueryPipeline

MCOrganizations == {"A", "B", "C"}
MCMetrics == {"ZB001", "ZB002", "ZB003", "ZB004", "ZB007", "ZB008", "ZB011", "ZB012", "ZB013",
              "ZB014", "ZB015", "ZB016", "ZB017"}

\* The head office, and a branch of organization A whose role has not every metric.
MCUsers == { [orgs |-> MCOrganizations, metrics |-> MCMetrics, restricted |-> FALSE],
             [orgs |-> {"A"}, metrics |-> MCMetrics \ {"ZB003"}, restricted |-> TRUE] }
MCReports == { MCOrganizations, {"A", "B"} }

\* Every phrase alone with all that a question may name, every two of them with less.
Named == { <<<<>>, <<>>>>, <<<<>>, <<"ZB001">>>>, <<<<"A">>, <<>>>>, <<<<"A">>, <<"ZB001">>>>,
           <<<<"A", "B">>, <<"ZB001">>>>, <<<<"A">>, <<"ZB001", "ZB013">>>>,
           <<<<"B">>, <<"ZB001", "ZB003", "ZB004">>>> }
Alone == { Question(n[1], n[2], d, w) :
             n \in Named, d \in {"none", "day", "quarter", "year"},
             w \in { {} } \cup { {a} : a \in Phrases } }
Paired == { Question(n[1], n[2], d, w) :
             n \in { <<<<>>, <<"ZB001">>>>, <<<<"A">>, <<"ZB001">>>>,
                     <<<<"A">>, <<"ZB001", "ZB013">>>> },
             d \in {"day", "quarter"},
             w \in { {a, b} : a, b \in Phrases } \cup { {"average", "top3", "bottom3"} } }
\* Duties that meet in one plan.
Met == { Question(<<"A", "B">>, <<"ZB001">>, "day", {"who_higher", "how_different"}),
         Question(<<"A", "B">>, <<"ZB001">>, "day", {"which_org", "highest", "how_different"}),
         Question(<<"A">>, <<>>, "day", {"risk", "daily", "highest", "lowest"}),
         Question(<<"A">>, <<"ZB002", "ZB013", "ZB014">>, "day", {"equals", "sum"}),
         Question(<<>>, <<"ZB001">>, "quarter", {"daily", "highest", "lowest"}),
         Question(<<"A">>, <<"ZB001">>, "quarter", {"daily", "highest", "lowest"}),
         Question(<<"A">>, <<"ZB001">>, "quarter", {"trend", "highest", "lowest"}) }
MCOpenings == Alone \cup Paired \cup Met

MCFollowUps ==
    { Question(o, <<>>, "none", w) : o \in {<<>>, <<"B">>},
        w \in { {}, {"it"}, {"the_two"}, {"at_first"}, {"which_orgs"}, {"rank_change"},
                {"shares"} } }
    \cup { Question(<<>>, <<"ZB001">>, "none", w) : w \in { {}, {"it"}, {"ordinal"} } }

MCSupplies == [orgs |-> {<<"A">>, <<"B">>}, metrics |-> {<<"ZB001">>}]

References == {"it", "the_two", "at_first"}
MCRewordings(q) ==
    { Question(o, m, d, w) : o \in {q.orgs, <<"A">>}, m \in {q.metrics, <<"ZB001">>},
        d \in {"none", "day"}, w \in {{}, q.says, q.says \ References} }

ModelPlan(op, orgs, scope, cur, cmp, flags) ==
    [src |-> "llm", op |-> op, orgs |-> orgs, scope |-> scope, metrics |-> <<"ZB001">>,
     cur |-> cur, cmp |-> cmp, start |-> None, end |-> None, filters |-> None,
     sort |-> SortDirection("ZB001"), limit |-> 0, shape |-> "multi_row", allow_empty |-> FALSE,
     flags |-> flags]

Full == LabelColumns \cup {"metric_id", "metric_value", "metric_rank", "province_average"}
Written(orgs, over, columns, tables, form) ==
    [over |-> over, shows |-> orgs, names |-> orgs, metrics |-> {"ZB001"}, dates |-> {"day"},
     uses |-> {"RANK", "AVG"}, order |-> {"asc", "desc"},
     columns |-> columns,
     row |-> "org", chosen |-> FALSE, form |-> form, tables |-> tables]

MCReplies ==
    { [formula |-> p.op = "ratio", plan |-> p, sql |-> s] :
        p \in { ModelPlan(x[1], x[2], x[3], x[4], x[5], x[6]) :
                x \in { <<"value", <<"A">>, "selected", "day", None, {}>>,
                        <<"value", <<"B">>, "selected", "day", None, {}>>,
                        <<"rank", <<"A">>, "selected", "day", None, {}>>,
                        <<"rank", <<>>, "all", "day", None, {}>>,
                        <<"value", <<"A">>, "selected", "day", None, {"rank_population_all"}>>,
                        <<"ratio", <<"A">>, "selected", "day", None, {}>>,
                        <<"difference", <<"A">>, "selected", "day", "yoy", {}>>,
                        <<"value", <<"A">>, "selected", Malformed, None, {}>> } },
        s \in { Written({"A"}, {}, Full, {"metric_values"}, "select"),
                Written({"A"}, MCOrganizations, Full, {"metric_values"}, "select"),
                Written(MCOrganizations, MCOrganizations, Full,
                        {"metric_values", "organizations"}, "select"),
                Written(MCOrganizations, {}, {"org_name", "metric_value"},
                        {"main.metric_values"}, "select"),
                Written({"A"}, {}, Full, {"metric_values"}, "write") } }

MCModelKnows ==
    { Question(o, <<"ZB001">>, "day", w) : o \in {<<>>, <<"A">>, <<"B">>},
        w \in { {}, {"standard"}, {"growth"}, {"rank_change"}, {"yoy"}, {"sum"}, {"ordinal"},
                {"position"}, {"average"} } }
    \cup { Question(<<"A">>, <<>>, "none", {w}) : w \in {"sum", "trend", "position"} }
============================================================================
