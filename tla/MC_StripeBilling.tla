-------------------------- MODULE MC_StripeBilling --------------------------
(* Instances of StripeBilling for TLC. *)
EXTENDS StripeBilling, TLC

CONSTANTS s1, s2, free, starter, pro

\* A tenant that moves between two tiers.
TwoTiers == (s1 :> starter) @@ (s2 :> pro)
=============================================================================
