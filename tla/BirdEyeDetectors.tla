--------------------------- MODULE BirdEyeDetectors ---------------------------
(***************************************************************************)
(* The detectors of Bird Eye (backend/bird_eye/detectors.py), as operators *)
(* of the library of one tenant: what a detector that reads it now finds.  *)
(* Of a finding only what it is about and the documents it names matter;   *)
(* severities, wording and evidence are left out.                          *)
(***************************************************************************)
EXTENDS FiniteSets, FiniteSetsExt, Integers, SequencesExt

CONSTANTS
  Ids,          \* bound: ids documents get
  Numbers,      \* policy numbers
  Texts,        \* what files say
  Content,      \* Content[t]: what became of text t, see TextsAssumption
  Sections,
  Passage,      \* Passage[s]: section s, see SectionsAssumption
  Likeness,     \* Likeness[s][u]: cosine of their vectors, in percent
  LockoutKeys,  \* LOCKOUT_KEYS
  NistCsf,      \* the framework an acceptable use policy has to be tagged for
  Nothing,      \* "no number", "no document", "never inserted"
  Deleted

\* Of a document: its title is that of an acceptable use policy or of an
\* artifact, or of neither; it is tagged for frameworks; its title and its body
\* mention frameworks and call for artifacts.
ASSUME TextsAssumption ==
  \A t \in Texts :
    /\ Content[t].number \in Numbers \cup {Nothing}
    /\ Content[t].sections \subseteq Sections /\ Content[t].sections # {}
    /\ Content[t].policy \in BOOLEAN /\ Content[t].owned \in BOOLEAN
    /\ Content[t].review \in {"fine", "overdue", "old"}
    /\ Content[t].version \in {"fine", "none", "active draft"}
\* A section is compared with others unless it is short or its heading is
\* structural, and requires numbers: pairs of a key and a value.
ASSUME SectionsAssumption ==
  /\ IsFiniteSet(Sections)
  /\ Likeness \in [Sections -> [Sections -> 0..100]]
  /\ \A s \in Sections : Passage[s].compared \in BOOLEAN
\* A library has finitely many documents, and each says finitely many things.
ASSUME FinitenessAssumption ==
  /\ IsFiniteSet(Ids)
  /\ \A t \in Texts : \A words \in {Content[t].mentions, Content[t].callsFor} :
       IsFiniteSet(words.title) /\ IsFiniteSet(words.body)
  /\ \A s \in Sections : IsFiniteSet(Passage[s].requires)
ASSUME NothingAssumption ==
  /\ {Nothing, Deleted} \cap (Numbers \cup Ids \cup Texts) = {}
  /\ Nothing # Deleted

VARIABLES
  policies,  \* rows of policies: Nothing, the text, or Deleted
  chunks     \* chunks[i]: rows of policy_sections of i: "none", "bare" or
             \* "embedded"; they are inserted in one call

Live == {i \in Ids : policies[i] \in Texts}
Document(i) == Content[policies[i]]
Read == {i \in Live : chunks[i] # "none"}

Finding(kind, about, primary, related) ==
  [kind |-> kind, about |-> about, primary |-> primary, related |-> related]
-----------------------------------------------------------------------------
(* detect_duplicates *)

DuplicateMedium == 78

Compared ==
  {c \in UNION {{i} \X Document(i).sections : i \in Read} :
     chunks[c[1]] = "embedded" /\ Passage[c[2]].compared}

Alike(a, b) == Likeness[a[2]][b[2]]
TwinsAbove(c) ==
  {d \in Compared : d[1] # c[1] /\ Alike(c, d) > DuplicateMedium}
Twins(c) == {d \in Compared : d[1] # c[1] /\ Alike(c, d) >= DuplicateMedium}

\* The first of the best, in the order the rows came in.
Best(rows, c) ==
  LET best == {d \in Twins(c) : \A e \in Twins(c) : Alike(c, e) <= Alike(c, d)}
  IN rows[Min({k \in DOMAIN rows : rows[k] \in best})]

\* A pair is reported once, by the chunk that comes first.
Duplicates(rows) ==
  LET Pair(k) == {rows[k], Best(rows, rows[k])}
      twinned == {k \in DOMAIN rows : Twins(rows[k]) # {}}
  IN {Finding("duplicate", Pair(k), rows[k][1], Best(rows, rows[k])[1]) :
        k \in {k \in twinned : \A j \in twinned : j < k => Pair(j) # Pair(k)}}
-----------------------------------------------------------------------------
(* detect_conflicts *)

Requires(i) == UNION {Passage[s].requires : s \in Document(i).sections}
Keys == {r[1] : r \in UNION {Requires(i) : i \in Read}}
Values(key) == {r[2] : r \in {r \in UNION {Requires(i) : i \in Read} : r[1] = key}}
Says(key, value) == {i \in Read : <<key, value>> \in Requires(i)}
InConflict == {key \in Keys : Cardinality(Values(key)) >= 2}

\* Which documents a finding may name.  The pair of values to name is one
\* that not the same documents state, if there is any, and of those one that
\* most documents state.
Rank(key, v, w) ==
  <<Says(key, v) # Says(key, w), Cardinality(Says(key, v)) + Cardinality(Says(key, w))>>
RanksAbove(m, n) == (m[1] /\ ~n[1]) \/ (m[1] = n[1] /\ m[2] > n[2])

Pick(these, others) == IF these \ others = {} THEN these ELSE these \ others

NamedPairs(key) ==
  LET pairs == {p \in Values(key) \X Values(key) : p[1] # p[2]}
      top == {p \in pairs : \A q \in pairs :
                ~RanksAbove(Rank(key, q[1], q[2]), Rank(key, p[1], p[2]))}
  IN UNION {Pick(Says(key, p[1]), Says(key, p[2])) \X
            Pick(Says(key, p[2]), Says(key, p[1])) : p \in top}

\* The keys about a lockout are one finding, which names two of the documents
\* that state the first of these keys in conflict.
NamedForLockout(key) ==
  LET stating == {i \in Read : \E r \in Requires(i) : r[1] = key}
  IN IF Cardinality(stating) = 1 THEN stating \X {Nothing}
     ELSE {p \in stating \X stating : p[1] # p[2]}

\* What a run may report: one finding for each of the conflicts.
Conflicts ==
  LET plain == InConflict \ LockoutKeys
      lockout == InConflict \cap LockoutKeys
      Of(key) == {Finding("conflict", key, n[1], n[2]) : n \in NamedPairs(key)}
      family == {Finding("conflict", "lockout", n[1], n[2]) :
                   n \in UNION {NamedForLockout(key) : key \in lockout}}
      choices == {Of(key) : key \in plain} \cup (IF lockout = {} THEN {} ELSE {family})
  IN {found \in SUBSET UNION choices :
        \A choice \in choices : Cardinality(found \cap choice) = 1}
-----------------------------------------------------------------------------
(* detect_stale_governance, detect_framework_gaps and detect_orphans *)

StaleFields(t) ==
  (IF t.owned THEN {} ELSE {"owner"})
  \cup (CASE t.review = "overdue" -> {"next_review_at"}
          [] t.review = "old" -> {"last_reviewed_at"}
          [] OTHER -> {})
  \cup (IF t.version = "fine" THEN {} ELSE {"version"})

Stale ==
  UNION {{Finding("stale", f, i, Nothing) : f \in StaleFields(Document(i))} : i \in Live}

\* What is looked at is the title and the body, which is that of the chunks.
InText(i, words) == words.title \cup (IF i \in Read THEN words.body ELSE {})

Untagged(i) ==
  (InText(i, Document(i).mentions)
     \cup (IF "acceptable use" \in Document(i).title THEN {NistCsf} ELSE {}))
  \ Document(i).tags

FrameworkGaps ==
  UNION {{Finding("framework_gap", f, i, Nothing) : f \in Untagged(i)} : i \in Live}

\* Any title will do, that of the document itself included.
Titles == UNION {Document(i).title : i \in Live}
Missing(i) ==
  IF Document(i).policy THEN InText(i, Document(i).callsFor) \ Titles ELSE {}

Orphans == UNION {{Finding("orphan", a, i, Nothing) : a \in Missing(i)} : i \in Live}

\* What the detector of a name may find, with the rows in any order.
Detectors == <<"duplicates", "conflicts", "stale", "frameworks", "orphans">>

Found(detector) ==
  CASE detector = "duplicates" -> {Duplicates(rows) : rows \in SetToSeqs(Compared)}
    [] detector = "conflicts" -> Conflicts
    [] detector = "stale" -> {Stale}
    [] detector = "frameworks" -> {FrameworkGaps}
    [] detector = "orphans" -> {Orphans}
=============================================================================
