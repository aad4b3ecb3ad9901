------------------------ MODULE MC_DocumentPipeline ------------------------
EXTENDS DocumentPipeline, TLC

CONSTANTS r1, r2, r3, l1, l2, free, starter, pro

MC_LoopOf == r1 :> l1 @@ r2 :> l1 @@ r3 :> l2
MC_DocsPerMonth == starter :> 1

Symmetry == Permutations({r1, r2}) \cup Permutations(Contents)
=============================================================================
