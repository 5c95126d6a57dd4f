----------------------- MODULE MCTenantRegistration ------------------------
(* Model values for TenantRegistration; the configurations give the bounds. *)
EXTENDS TenantRegistration, TLC

CONSTANTS q1, q2, e1, s1, s2, c1, c2, c3, c4, c5

\* Two requests of one address; both ask for one slug.
SameEmail == q1 :> e1 @@ q2 :> e1
SameSlug == q1 :> s1 @@ q2 :> s1

\* Two that verify, two that onboard, and whoever else may reach the tenant.
CallKinds ==
  c1 :> {"verify"} @@ c2 :> {"verify"} @@ c3 :> {"onboard"}
    @@ c4 :> {"onboard", "workflow"} @@ c5 :> {"create", "activate", "suspend", "archive"}
=============================================================================
