---------------------------- MODULE MC_GapEngine ----------------------------
(* Instances of GapEngine for TLC. *)
EXTENDS GapEngine, TLC

CONSTANTS hipaaD, isoA517, isoRest, pci82, hipaa, iso, pci, policy, sop

\* The "Authentication" entry of CROSS_FRAMEWORK_MAP with one control of each
\* framework, and a control of no entry.
Authentication == [c \in Controls |-> IF c = hipaaD THEN {isoA517, pci82} ELSE {}]
Standards == (hipaaD :> hipaa) @@ (isoA517 :> iso) @@ (isoRest :> iso) @@ (pci82 :> pci)
Expected == (hipaaD :> {policy}) @@ (isoA517 :> {policy, sop})
            @@ (isoRest :> {policy}) @@ (pci82 :> {sop})
=============================================================================
