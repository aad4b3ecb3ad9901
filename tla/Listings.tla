------------------------------- MODULE Listings -------------------------------
(***************************************************************************)
(* Lines of a text that are divided into parts, as the questions of a      *)
(* questionnaire and the sections of a document are.                       *)
(***************************************************************************)
EXTENDS Integers, SequencesExt

Increasing(lines) == \A i, j \in DOMAIN lines : i < j => lines[i] < lines[j]

\* Read one after the other, the parts are the lines, each once and in order.
ListsInOrder(parts, lines) ==
  /\ UNION {ToSet(parts[k]) : k \in DOMAIN parts} = lines
  /\ \A k \in DOMAIN parts : Increasing(parts[k])
  /\ \A k, m \in DOMAIN parts :
       k < m => \A x \in ToSet(parts[k]), y \in ToSet(parts[m]) : x < y
=============================================================================
