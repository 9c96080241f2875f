--------------------------- MODULE MCAccessControl ---------------------------
(* A small organization: two projects, three environments, one secret each. *)
EXTENDS AccessControl, TLC

CONSTANTS owner, lead, dev, bot, p, q, prod, stag, other, s1, s2, s3

RoleMap == (owner :> "OWNER") @@ (lead :> "DEVELOPER") @@ (dev :> "VIEWER")
EndMap  == (owner :> Horizon + 1) @@ (lead :> Horizon + 1) @@ (dev :> 1)
EnvMap  == (prod :> p) @@ (stag :> p) @@ (other :> q)
HomeMap == (s1 :> prod) @@ (s2 :> stag) @@ (s3 :> other)

OfferOf(s, e, x, caps, ends) ==
  [subject |-> s, environment |-> e, secret |-> x, capabilities |-> caps, expires |-> ends]

\* Whole-project management, the same on one environment, a value to read.
Delegations == {OfferOf(lead, Nil, Nil, {"MANAGE_ACCESS"}, Horizon + 1),
                OfferOf(lead, prod, Nil, {"MANAGE_ACCESS"}, Horizon + 1),
                OfferOf(dev, stag, s2, {"READ_SECRET"}, 1)}

\* Grants to a machine and to members who may be removed.
Workload == {OfferOf(bot, stag, Nil, {"USE_SECRET"}, 1),
             OfferOf(bot, prod, s1, SecretPlane, Horizon + 1),
             OfferOf(dev, Nil, Nil, {"MANAGE_ACCESS", "USE_SECRET"}, Horizon + 1)}

Symmetry == Permutations(Requests)
=============================================================================
