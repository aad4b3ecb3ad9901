---------------------------- MODULE MC_McpGateway ----------------------------
(* Instances of McpGateway, with RunMetering and ApiKeys in it, for TLC. *)
EXTENDS McpGateway, TLC

CONSTANTS free, starter

\* Two tiers, far smaller than the real ones.
SmallCaps == (free :> 1) @@ (starter :> 3)
ThreadSymmetry == Permutations(Pool) \cup Permutations(Minters)
=============================================================================
