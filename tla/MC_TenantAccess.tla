-------------------------- MODULE MC_TenantAccess --------------------------
(* Instances of TenantAccess for TLC. *)
EXTENDS TenantAccess, TLC

CONSTANTS free, pro, r1, r2, l1, l2

\* One seat and two.
SmallTeams == (free :> 1) @@ (pro :> 2)
SameLoop == (r1 :> l1) @@ (r2 :> l1)
OneRequest == r1 :> l1
UserSymmetry == Permutations(Users) \cup Permutations(Tenants \ Buyers)
=============================================================================
