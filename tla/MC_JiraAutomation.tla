-------------------------- MODULE MC_JiraAutomation --------------------------
(* Instances of JiraAutomation for TLC. *)
EXTENDS JiraAutomation, TLC

KeySymmetry == Permutations(Keys)
=============================================================================
