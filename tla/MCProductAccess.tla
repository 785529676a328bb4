-------------------------- MODULE MCProductAccess --------------------------
(* The staff works for the head office or, after a change of the            *)
(* configuration, for a branch; the reader is a viewer or works elsewhere.  *)
EXTENDS ProductAccess, TLC

MCOrganizations == {"A", "B"}
MCMetrics == {"ZB001", "ZB013"}
MCSensitive == {"ZB013"}

Role(role, orgs, metrics) ==
    [role |-> role, orgs |-> orgs, metrics |-> metrics, restricted |-> orgs # MCOrganizations]
Branch(org) == Role("analyst", {org}, {"ZB001"})
Admin == [Role("admin", {}, {}) EXCEPT !.restricted = FALSE]

MCEnvironments ==
    { [staff |-> Role("analyst", MCOrganizations, MCMetrics),
       reader |-> Role("viewer", MCOrganizations, MCMetrics), admin |-> Admin],
      [staff |-> Branch("A"), reader |-> Branch("B"), admin |-> Admin] }

StoredPlan(op, scope, orgs, metrics) ==
    [op |-> op, scope |-> scope, orgs |-> orgs, metrics |-> metrics, flags |-> {}]

MCPlans ==
    { StoredPlan("rank", "all", <<>>, <<"ZB013">>),
      StoredPlan("value", "selected", <<"A">>, <<"ZB001">>) }

Symmetric == Permutations(Requests) \cup Permutations(QueryIds)
=============================================================================
