--------------------------- MODULE Workspace_proofs ---------------------------
(***************************************************************************)
(* What the parts of a workspace that have no variable in common promise,  *)
(* for any number of processes, hosts, loops, threads, documents and rows: *)
(* the gap engine's reports, Bird Eye's ingests and reviews, the answers   *)
(* to questionnaires, work requests, the rate limiter and the generation   *)
(* of a document.  Each part has its own inductive invariant, named after  *)
(* it, and a section of its own.                                           *)
(***************************************************************************)
EXTENDS GapEngine, BirdEye, Questionnaires, WorkRequests, RateLimiter,
        DraftGeneration, FiniteSetTheorems, SequenceTheorems, WellFoundedInduction, TLAPS

-----------------------------------------------------------------------------
(***************************************************************************)
(* The gap engine.  What its reports owe each other and the library, for   *)
(* every registry and every cross-framework map: the members a report      *)
(* misses, the evidence it counts, and the shares it rounds.               *)
(***************************************************************************)
\* The library and the frameworks keep their types.
THEOREM TypeCorrect == Spec => []TypeOK
<1>1. Init => TypeOK
  BY DEF Init, TypeOK
<1>2. TypeOK /\ [Next]_vars => TypeOK'
  <2> SUFFICES ASSUME TypeOK, [Next]_vars
               PROVE  TypeOK'
    OBVIOUS
  <2> USE DEF TypeOK
  <2>1. ASSUME NEW d \in Names, NEW controls \in SUBSET Controls,
               AddDocument(d, controls)
        PROVE  TypeOK'
    BY <2>1 DEF AddDocument
  <2>2. ASSUME NEW d \in Names, RemoveDocument(d) PROVE TypeOK'
    BY <2>2 DEF RemoveDocument
  <2>3. ASSUME NEW d \in Names, NEW c \in Controls, CoverControl(d, c)
        PROVE  TypeOK'
    <3>1. covered[d] \cup {c} \in SUBSET Controls
      OBVIOUS
    <3>2. QED
      BY <2>3, <3>1 DEF CoverControl
  <2>4. CASE UNCHANGED vars
    BY <2>4 DEF vars
  <2>5. QED
    BY <2>1, <2>2, <2>3, <2>4 DEF Next
<1>3. QED
  BY <1>1, <1>2, PTL DEF Spec

-----------------------------------------------------------------------------
\* get_equivalent_controls finds at least what the key itself maps to.
LEMMA MappedAreEquivalent == \A c \in Controls : Mapped[c] \subseteq Equivalents(c)
  BY DEF Equivalents

(***************************************************************************)
(* The program analysis reports every required control that nothing        *)
(* covers, and none that a document covers.                                *)
(***************************************************************************)
THEOREM NoMissedGapAlways == Spec => []NoMissedGap
<1>1. NoMissedGap
  <2>1. ASSUME NEW c \in AllRequired, ~IsCovered(c, AllCovered)
        PROVE  c \in ProgramGaps
    <3>1. c \in Controls
      BY DEF AllRequired, Required
    <3>2. c \notin AllCovered /\ Equivalents(c) \cap AllCovered = {}
      BY <2>1 DEF IsCovered
    <3>3. Mapped[c] \cap AllCovered = {}
      BY <3>1, <3>2, MappedAreEquivalent
    <3>4. QED
      BY <3>2, <3>3 DEF ProgramGaps
  <2>2. ProgramGaps \cap AllCovered = {}
    BY DEF ProgramGaps
  <2>3. QED
    BY <2>1, <2>2 DEF NoMissedGap
<1>2. QED
  BY <1>1, PTL

(***************************************************************************)
(* The only covered controls the program analysis reports are members of a *)
(* group another control is the key of, for every registry and every map.  *)
(***************************************************************************)
THEOREM OnlyMembersAreSpuriousAlways == Spec => []OnlyMembersAreSpurious
<1>1. OnlyMembersAreSpurious
  <2> SUFFICES ASSUME NEW c \in ProgramGaps, IsCovered(c, AllCovered)
               PROVE  \E p \in Controls : c \in Mapped[p]
    BY DEF OnlyMembersAreSpurious
  <2>1. c \notin AllCovered /\ Mapped[c] \cap AllCovered = {}
    BY DEF ProgramGaps
  <2>2. PICK e \in AllCovered : e \in Equivalents(c) /\ e \notin Mapped[c]
    BY <2>1 DEF IsCovered
  <2>3. QED
    BY <2>2 DEF Equivalents
<1>2. QED
  BY <1>1, PTL

(***************************************************************************)
(* Coverage goes by the groups of CROSS_FRAMEWORK_MAP, and not by which    *)
(* member of a group is its key.                                           *)
(***************************************************************************)
THEOREM CoverageGoesByGroupAlways == Spec => []CoverageGoesByGroup
<1>1. CoverageGoesByGroup
  <2> SUFFICES ASSUME NEW c \in Controls
               PROVE  IsCovered(c, AllCovered) <=>
                        \/ c \in AllCovered
                        \/ \E group \in Groups :
                             c \in group /\ group \cap AllCovered # {}
    BY DEF CoverageGoesByGroup
  <2>1. ASSUME NEW e \in AllCovered, e \in Equivalents(c)
        PROVE  \E group \in Groups : c \in group /\ group \cap AllCovered # {}
    <3>1. CASE e \in Mapped[c]
      <4>1. {c} \cup Mapped[c] \in Groups
        BY <3>1 DEF Groups
      <4>2. QED
        BY <4>1, <3>1
    <3>2. CASE e \notin Mapped[c]
      <4>1. PICK p \in Controls : c \in Mapped[p] /\ e \in {p} \cup Mapped[p]
        BY <2>1, <3>2 DEF Equivalents
      <4>2. {p} \cup Mapped[p] \in Groups
        BY <4>1 DEF Groups
      <4>3. QED
        BY <4>1, <4>2
    <3>3. QED
      BY <3>1, <3>2
  <2>2. ASSUME NEW group \in Groups, c \in group, group \cap AllCovered # {},
               c \notin AllCovered
        PROVE  Equivalents(c) \cap AllCovered # {}
    <3>1. PICK p \in Controls : group = {p} \cup Mapped[p]
      BY DEF Groups
    <3>2. PICK e \in AllCovered : e \in {p} \cup Mapped[p]
      BY <2>2, <3>1
    <3>3. e # c
      BY <2>2
    <3>4. CASE c = p
      BY <3>2, <3>3, <3>4, MappedAreEquivalent
    <3>5. CASE c \in Mapped[p]
      BY <3>2, <3>3, <3>5 DEF Equivalents
    <3>6. QED
      BY <2>2, <3>1, <3>4, <3>5
  <2>3. QED
    BY <2>1, <2>2 DEF IsCovered
<1>2. QED
  BY <1>1, PTL

-----------------------------------------------------------------------------
\* What was covered stays covered when more is.
LEMMA CoveredGrows ==
  ASSUME NEW c, NEW S, NEW T, S \subseteq T, IsCovered(c, S)
  PROVE  IsCovered(c, T)
  BY DEF IsCovered

(***************************************************************************)
(* Evidence opens no gap: as long as the library keeps its documents, a    *)
(* step only ever closes gaps, in the documents and in the program.        *)
(***************************************************************************)
THEOREM EvidenceOpensNoGapAlways == Spec => EvidenceOpensNoGap
<1>1. TypeOK /\ [Next]_vars => [OpensNoGap]_vars
  <2> SUFFICES ASSUME TypeOK, Next, library' = library, covered' # covered
               PROVE  /\ ProgramGaps' \subseteq ProgramGaps
                      /\ \A d \in library : DocumentGaps(d)' \subseteq DocumentGaps(d)
    BY DEF OpensNoGap
  <2>1. PICK d \in Names, c \in Controls : CoverControl(d, c)
    BY DEF Next, AddDocument, RemoveDocument
  <2>2. /\ typeOf' = typeOf /\ frameworks' = frameworks
        /\ covered' = [covered EXCEPT ![d] = @ \cup {c}]
    BY <2>1 DEF CoverControl
  <2>3. \A e \in Names : covered[e] \subseteq covered'[e]
    BY <2>2 DEF TypeOK
  <2>4. \A e \in library : Required(typeOf[e])' = Required(typeOf[e])
    BY <2>2 DEF Required
  <2>5. AllCovered \subseteq AllCovered' /\ AllRequired' = AllRequired
    BY <2>2, <2>3, <2>4 DEF AllCovered, AllRequired, TypeOK
  <2>6. ProgramGaps' \subseteq ProgramGaps
    BY <2>5 DEF ProgramGaps
  <2>7. ASSUME NEW e \in library PROVE DocumentGaps(e)' \subseteq DocumentGaps(e)
    <3> SUFFICES ASSUME NEW g, g \in DocumentGaps(e)'
                 PROVE  g \in DocumentGaps(e)
      OBVIOUS
    <3>1. g \in Required(typeOf[e]) /\ ~IsCovered(g, covered'[e])
      BY <2>4 DEF DocumentGaps, IsCovered, Equivalents
    <3>2. covered[e] \subseteq covered'[e]
      BY <2>3 DEF TypeOK
    <3>3. ~IsCovered(g, covered[e])
      BY <3>1, <3>2, CoveredGrows
    <3>4. QED
      BY <3>1, <3>3 DEF DocumentGaps
  <2>8. QED
    BY <2>6, <2>7
<1>2. QED
  BY <1>1, TypeCorrect, PTL DEF Spec, EvidenceOpensNoGap


\* Rounding moves a share by half a unit at most.
LEMMA RoundedIsNear ==
  ASSUME NEW scale \in Nat, NEW n \in Nat, NEW d \in Nat \ {0}
  PROVE  /\ Rounded(scale, n, d) \in Nat
         /\ 2 * (Rounded(scale, n, d) * d) - 2 * (scale * n) \in (-d)..d
<1> DEFINE m == scale * n
           whole == m \div d
           rest == m % d
<1>1. m \in Nat
  OBVIOUS
<1> HIDE DEF m
<1>2. whole \in Nat /\ rest \in 0..(d - 1) /\ m = d * whole + rest
  BY <1>1
<1> HIDE DEF whole, rest
<1>3. Rounded(scale, n, d) = IF 2 * rest < d \/ (2 * rest = d /\ whole % 2 = 0)
                             THEN whole ELSE whole + 1
  BY DEF Rounded, m, whole, rest
<1>4. whole * d = d * whole /\ (whole + 1) * d = d * whole + d /\ d * whole \in Nat
  BY <1>2
<1>5. CASE Rounded(scale, n, d) = whole /\ 2 * rest <= d
  BY <1>2, <1>4, <1>5 DEF m
<1>6. CASE Rounded(scale, n, d) = whole + 1 /\ 2 * rest >= d
  BY <1>2, <1>4, <1>6 DEF m
<1>7. QED
  BY <1>2, <1>3, <1>5, <1>6

LEMMA WithinIsSmall ==
  ASSUME NEW x \in Int, NEW bound \in Nat, NEW d \in Nat \ {0},
         x * d <= bound * d, -(bound * d) <= x * d
  PROVE  x <= bound /\ -bound <= x
<1>1. ASSUME x >= bound + 1 PROVE FALSE
  <2>1. x * d >= (bound + 1) * d
    BY <1>1
  <2>2. (bound + 1) * d = bound * d + d
    OBVIOUS
  <2>3. QED
    BY <2>1, <2>2
<1>2. ASSUME -x >= bound + 1 PROVE FALSE
  <2>1. (-x) * d >= (bound + 1) * d
    BY <1>2
  <2>2. (bound + 1) * d = bound * d + d /\ (-x) * d = -(x * d)
    OBVIOUS
  <2>3. QED
    BY <2>1, <2>2
<1>3. QED
  BY <1>1, <1>2

\* Of fewer than 200 controls, all are covered when 100 % are: 99.5 % would be
\* rounded up.
LEMMA HundredIsAll ==
  ASSUME NEW d \in 1..199, NEW n \in 0..d
  PROVE  Percent(n, d) = 100 <=> n = d
<1> DEFINE r == Rounded(100, n, d)
<1>1. r \in Nat /\ 2 * (r * d) - 2 * (100 * n) \in (-d)..d
  <2>1. 100 \in Nat /\ n \in Nat /\ d \in Nat \ {0}
    OBVIOUS
  <2>2. QED
    BY <2>1, RoundedIsNear
<1> HIDE DEF r
<1>2. ASSUME n = d PROVE r = 100
  <2>1. (2 * r - 200) * d = 2 * (r * d) - 200 * d
    BY <1>1
  <2>2. (2 * r - 200) * d <= 1 * d /\ -(1 * d) <= (2 * r - 200) * d
    BY <1>1, <1>2, <2>1
  <2>3. 2 * r - 200 <= 1 /\ -1 <= 2 * r - 200
    <3>1. 2 * r - 200 \in Int
      BY <1>1
    <3>2. QED
      BY <2>2, <3>1, WithinIsSmall
  <2>4. QED
    BY <1>1, <2>3
<1>3. ASSUME n # d PROVE r # 100
  BY <1>1, <1>3
<1>4. QED
  BY <1>2, <1>3 DEF r, Percent

\* A percentage, and the same share in tenths of a percent.
LEMMA SharesAgree ==
  ASSUME NEW d \in Nat \ {0}, NEW n \in Nat
  PROVE  Rounded(1000, n, d) - 10 * Percent(n, d) \in -5..5
<1> DEFINE r == Rounded(100, n, d)
           s == Rounded(1000, n, d)
<1>1. r \in Nat /\ 2 * (r * d) - 2 * (100 * n) \in (-d)..d
  BY RoundedIsNear
<1>2. s \in Nat /\ 2 * (s * d) - 2 * (1000 * n) \in (-d)..d
  BY RoundedIsNear
<1> HIDE DEF r, s
<1> DEFINE x == 2 * s - 20 * r
<1>3. x \in Int /\ x * d = 2 * (s * d) - 20 * (r * d)
  BY <1>1, <1>2
<1>4. r * d \in Int /\ s * d \in Int
  BY <1>1, <1>2
<1>5. x * d <= 11 * d /\ -(11 * d) <= x * d
  BY <1>1, <1>2, <1>3, <1>4
<1>6. x <= 11 /\ -11 <= x
  <2> HIDE DEF x
  <2>1. QED
    BY <1>3, <1>5, WithinIsSmall
<1>7. s - 10 * r \in -5..5
  BY <1>1, <1>2, <1>6
<1>8. QED
  BY <1>7 DEF r, s, Percent

\* A document covers a framework to 100 % when it has no gap of it.
LEMMA HundredLeavesNone ==
  ASSUME Cardinality(Controls) < 200, NEW controls \in SUBSET Controls, NEW by
  PROVE  CoverageOf(controls, by) = 100 <=> \A c \in controls : IsCovered(c, by)
<1> DEFINE met == {c \in controls : IsCovered(c, by)}
<1>1. CASE controls = {}
  BY <1>1 DEF CoverageOf
<1>2. CASE controls # {}
  <2>1. IsFiniteSet(controls) /\ Cardinality(controls) <= Cardinality(Controls)
    BY RegistryAssumption, FS_Subset
  <2>2. /\ IsFiniteSet(met) /\ Cardinality(met) <= Cardinality(controls)
        /\ Cardinality(met) = Cardinality(controls) => met = controls
    BY <2>1, FS_Subset
  <2>3. Cardinality(controls) \in Nat /\ Cardinality(met) \in Nat
        /\ Cardinality(Controls) \in Nat
    BY <2>1, <2>2, RegistryAssumption, FS_CardinalityType
  <2>4. Cardinality(controls) # 0
    BY <1>2, <2>1, FS_EmptySet
  <2>5. Percent(Cardinality(met), Cardinality(controls)) = 100
          <=> Cardinality(met) = Cardinality(controls)
    <3> HIDE DEF met
    <3>1. Cardinality(controls) \in 1..199 /\ Cardinality(met) \in 0..Cardinality(controls)
      BY <2>1, <2>2, <2>3, <2>4
    <3>2. QED
      BY <3>1, HundredIsAll
  <2>6. CoverageOf(controls, by) = Percent(Cardinality(met), Cardinality(controls))
    BY <1>2 DEF CoverageOf
  <2>7. met = controls => \A c \in controls : IsCovered(c, by)
    OBVIOUS
  <2>8. (\A c \in controls : IsCovered(c, by)) => met = controls
    OBVIOUS
  <2>9. QED
    BY <2>2, <2>5, <2>6, <2>7, <2>8
<1>3. QED
  BY <1>1, <1>2

(***************************************************************************)
(* With fewer than 200 controls in the registry (there are 186), a         *)
(* framework that a document's report checked is 100 % covered exactly     *)
(* when the report lists no gap of it, and the corpus index shows the      *)
(* coverage of the program report: no rounding of theirs comes between     *)
(* (gap_engine.py, compute_gaps; corpus.py, build_corpus_index).           *)
(***************************************************************************)
THEOREM ReportsAgreeAlways ==
  ASSUME Cardinality(Controls) < 200
  PROVE  Spec => []ReportsAgree
<1>1. DocumentReportAgrees
  <2> SUFFICES ASSUME NEW d \in library, NEW f \in frameworks
               PROVE  DocumentCoverage(d, f) = 100
                        <=> \A c \in DocumentGaps(d) : FrameworkOf[c] # f
    BY DEF DocumentReportAgrees
  <2> DEFINE asked == {c \in Required(typeOf[d]) : FrameworkOf[c] = f}
  <2>1. asked \subseteq Controls
    BY DEF Required
  <2>2. DocumentCoverage(d, f) = 100 <=> \A c \in asked : IsCovered(c, covered[d])
    BY <2>1, HundredLeavesNone DEF DocumentCoverage
  <2>3. QED
    BY <2>2 DEF DocumentGaps
<1>2. IndexAgrees
  <2> SUFFICES ASSUME NEW c \in Controls
               PROVE  Indexed(FrameworkOf[c]) - 10 * ProgramCoverage(FrameworkOf[c]) \in -5..5
    BY DEF IndexAgrees
  <2> DEFINE f == FrameworkOf[c]
             all == {k \in Controls : FrameworkOf[k] = f}
             met == {k \in all : IsCovered(k, AllCovered)}
  <2>1. all # {}
    OBVIOUS
  <2>2. IsFiniteSet(all) /\ IsFiniteSet(met)
    <3>1. IsFiniteSet(all)
      BY RegistryAssumption, FS_Subset
    <3>2. QED
      BY <3>1, FS_Subset
  <2>3. Cardinality(all) \in Nat \ {0} /\ Cardinality(met) \in Nat
    BY <2>1, <2>2, FS_CardinalityType, FS_EmptySet
  <2>4. Rounded(1000, Cardinality(met), Cardinality(all))
          - 10 * Percent(Cardinality(met), Cardinality(all)) \in -5..5
    BY <2>3, SharesAgree
  <2>5. /\ Indexed(f) = Rounded(1000, Cardinality(met), Cardinality(all))
        /\ ProgramCoverage(f) = Percent(Cardinality(met), Cardinality(all))
    BY <2>1 DEF Indexed, ProgramCoverage, CoverageOf
  <2>6. QED
    BY <2>4, <2>5
<1>3. QED
  BY <1>1, <1>2, PTL DEF ReportsAgree

-----------------------------------------------------------------------------
(***************************************************************************)
(* Bird Eye.  IngestInv says what every handler of an ingest knows of the  *)
(* library at its next call, and that each row of a number was inserted by *)
(* a process of its own; RunsInv that the findings of a run are counted by *)
(* the only handler that has it; FreshInv that the detectors that have run *)
(* while the library stayed as it was are reported on.                     *)
(***************************************************************************)
Ingests == {"purge", "purge row", "document", "chunks"}
Reviews == {"documents", "detect", "record", "fail"}

HasFields(k) ==
  k = [text |-> k.text, id |-> k.id, rows |-> k.rows, run |-> k.run,
       left |-> k.left, found |-> k.found, total |-> k.total]

IsTask(k) ==
  /\ HasFields(k)
  /\ k.text \in Texts \cup {Nothing} /\ k.id \in Ids \cup {Nothing}
  /\ k.rows \in SUBSET Ids /\ k.run \in RunIds \cup {Nothing}

EyeTyped ==
  /\ policies \in [Ids -> Texts \cup {Nothing, Deleted}]
  /\ chunks \in [Ids -> {"none", "bare", "embedded"}]
  /\ at \in [Processes -> {"idle", "start"} \cup Ingests \cup Reviews]
  /\ task = [p \in Processes |-> task[p]] /\ \A p \in Processes : IsTask(task[p])
  /\ kept \subseteq Numbers

\* A row that was inserted for number n, and may be deleted by now.
WasOf(i, n) ==
  policies[i] = Deleted \/ (policies[i] \in Texts /\ Content[policies[i]].number = n)

\* What the handler of a process knows of the library at its next call.
HandlerHolds(p) ==
  LET k == task[p] IN
  /\ at[p] \in {"idle", "start"} => k.text = Nothing /\ k.run = Nothing
  /\ at[p] \in Reviews => k.text = Nothing /\ k.run \in RunIds
  /\ at[p] \in Ingests => k.text \in Texts /\ k.run = Nothing
  /\ at[p] \in {"purge", "purge row"} =>
       \A i \in k.rows : WasOf(i, Content[k.text].number)
  /\ at[p] = "purge row" => k.id \in k.rows
  /\ at[p] = "chunks" => k.id \in Ids /\ policies[k.id] \in {k.text, Deleted}

HandlersHold == \A p \in Processes : HandlerHolds(p)

KeptIsThere == \A n \in kept : Ingesting(n) = {} => \E i \in Numbered(n) : chunks[i] # "none"

\* A row that process p inserted for number n it is still to purge, if it is
\* ingesting that number again, unless it has just inserted it.
StillFits(n, p, i) ==
  p \in Ingesting(n) =>
    /\ at[p] \in {"purge", "purge row"} => i \in task[p].rows
    /\ at[p] # "document"
    /\ at[p] = "chunks" => i = task[p].id

IsOwner(owner, n) ==
  /\ \A i, j \in Numbered(n) : owner[i] = owner[j] => i = j
  /\ \A i \in Numbered(n) : StillFits(n, owner[i], i)

\* Each row was inserted by a process of its own.
RowsAreOwned == \A n \in Numbers : \E owner \in [Numbered(n) -> Processes] : IsOwner(owner, n)

IngestInv == EyeTyped /\ HandlersHold /\ KeptIsThere /\ RowsAreOwned

\* The findings of a run are counted by the only handler that has it.
ReviewHolds(p) ==
  LET k == task[p] IN
  /\ runs[k.run] # Nothing /\ runs[k.run].status = "running"
  /\ \A q \in Processes \ {p} : task[q].run # k.run
  /\ k.left \in Seq(ToSet(Detectors)) /\ (at[p] = "record" => k.left # <<>>)
  /\ IsFiniteSet(k.found) /\ k.total \in Nat
  /\ Cardinality(OfRun(k.run)) <= k.total \/ (at[p] = "fail" /\ EyeFault("timeout"))

ReviewsHold == \A p \in Processes : at[p] \in Reviews => ReviewHolds(p)

RunsTyped ==
  /\ runs \in [RunIds -> {Nothing} \cup RunRows]
  /\ IsFiniteSet(findings)
  /\ \A f \in findings : f[1] \in RunIds /\ runs[f[1]] # Nothing

RunsInv == RunsTyped /\ ReviewsHold /\ RunRowsAreTrue

Labels == {"idle", "start"} \cup Ingests \cup Reviews
Others(p) == \A q \in Processes \ {p} : at'[q] = at[q] /\ task'[q] = task[q]

\* Rows go from not there to a text, and from a text to deleted.
Forward == \A i \in Ids : policies'[i] \in {policies[i], Deleted} \/ policies[i] = Nothing

LEMMA Turn ==
  ASSUME EyeTyped, NEW p \in Processes, NEW k, NEW l \in Labels, IsTask(k),
         task' = [task EXCEPT ![p] = k], at' = [at EXCEPT ![p] = l]
  PROVE  /\ at' \in [Processes -> Labels]
         /\ task' = [q \in Processes |-> task'[q]]
         /\ \A q \in Processes : IsTask(task'[q])
         /\ task'[p] = k /\ at'[p] = l
         /\ Others(p)
<1>1. at \in [Processes -> Labels] /\ task = [q \in Processes |-> task[q]]
      /\ \A q \in Processes : IsTask(task[q])
  BY DEF EyeTyped, Labels
<1>2. at' \in [Processes -> Labels] /\ at'[p] = l
  BY <1>1
<1>3. task' = [q \in Processes |-> task'[q]]
  BY <1>1
<1>4. task'[p] = k /\ Others(p)
  BY <1>1 DEF Others
<1>5. \A q \in Processes : IsTask(task'[q])
  BY <1>1, <1>4 DEF Others
<1>6. QED
  BY <1>2, <1>3, <1>4, <1>5

\* What the other handlers know stays true.
LEMMA OthersHold ==
  ASSUME EyeTyped, HandlersHold, Forward, NEW p \in Processes, Others(p), HandlerHolds(p)'
  PROVE  HandlersHold'
<1>1. SUFFICES ASSUME NEW q \in Processes \ {p} PROVE HandlerHolds(q)'
  BY DEF HandlersHold
<1>2. at'[q] = at[q] /\ task'[q] = task[q] /\ IsTask(task[q]) /\ HandlerHolds(q)
  BY <1>1 DEF Others, HandlersHold, EyeTyped
<1> DEFINE k == task[q]
<1>3. /\ at[q] \in {"idle", "start"} => k.text = Nothing /\ k.run = Nothing
      /\ at[q] \in Reviews => k.text = Nothing /\ k.run \in RunIds
      /\ at[q] \in Ingests => k.text \in Texts /\ k.run = Nothing
      /\ at[q] = "purge row" => k.id \in k.rows
  BY <1>2 DEF HandlerHolds
<1>4. at[q] \in {"purge", "purge row"} =>
        \A i \in k.rows : \/ policies'[i] = Deleted
                         \/ /\ policies'[i] \in Texts
                            /\ Content[policies'[i]].number = Content[k.text].number
  <2>1. SUFFICES ASSUME at[q] \in {"purge", "purge row"}, NEW i \in k.rows
                 PROVE  \/ policies'[i] = Deleted
                        \/ /\ policies'[i] \in Texts
                           /\ Content[policies'[i]].number = Content[k.text].number
    OBVIOUS
  <2> DEFINE n == Content[k.text].number
  <2>2. i \in Ids /\ WasOf(i, n)
    BY <1>2, <2>1 DEF HandlerHolds, IsTask
  <2> HIDE DEF n
  <2>4. policies[i] # Nothing
    BY <2>2, NothingAssumption DEF WasOf
  <2>5. QED
    BY <2>2, <2>4 DEF WasOf, Forward, n
<1>5. at[q] = "chunks" => k.id \in Ids /\ policies'[k.id] \in {k.text, Deleted}
  <2> SUFFICES ASSUME at[q] = "chunks"
               PROVE  k.id \in Ids /\ policies'[k.id] \in {k.text, Deleted}
    OBVIOUS
  <2>1. k.id \in Ids /\ policies[k.id] \in {k.text, Deleted} /\ k.text \in Texts
    BY <1>2, <1>3 DEF HandlerHolds, Ingests
  <2>2. policies[k.id] # Nothing
    BY <2>1, NothingAssumption
  <2>3. QED
    BY <2>1, <2>2 DEF Forward
<1>6. QED
  <2>1. task'[q] = k
    BY <1>2
  <2> HIDE DEF k
  <2>2. HandlerHolds(q)' <=>
          /\ at'[q] \in {"idle", "start"} => task'[q].text = Nothing /\ task'[q].run = Nothing
          /\ at'[q] \in Reviews => task'[q].text = Nothing /\ task'[q].run \in RunIds
          /\ at'[q] \in Ingests => task'[q].text \in Texts /\ task'[q].run = Nothing
          /\ at'[q] \in {"purge", "purge row"} =>
               \A i \in task'[q].rows :
                 \/ policies'[i] = Deleted
                 \/ /\ policies'[i] \in Texts
                    /\ Content[policies'[i]].number = Content[task'[q].text].number
          /\ at'[q] = "purge row" => task'[q].id \in task'[q].rows
          /\ at'[q] = "chunks" =>
               task'[q].id \in Ids /\ policies'[task'[q].id] \in {task'[q].text, Deleted}
    BY DEF HandlerHolds, WasOf
  <2>3. at'[q] = at[q]
    BY <1>2
  <2>4. QED
    BY <1>3, <1>4, <1>5, <2>1, <2>2, <2>3

LEMMA KeptStays ==
  ASSUME KeptIsThere, NEW p \in Processes, Others(p),
         \A n \in kept' : n \in kept \/ p \in Ingesting(n),
         \A n \in kept' : p \in Ingesting(n) /\ p \notin Ingesting(n)'
                            => \E i \in Numbered(n)' : chunks'[i] # "none",
         \A n \in kept : p \notin Ingesting(n) =>
           \A i \in Numbered(n) : chunks[i] # "none" => i \in Numbered(n)' /\ chunks'[i] # "none"
  PROVE  KeptIsThere'
<1>1. SUFFICES ASSUME NEW n \in kept', Ingesting(n)' = {}
               PROVE  \E i \in Numbered(n)' : chunks'[i] # "none"
  BY DEF KeptIsThere
<1>2. p \notin Ingesting(n)'
  BY <1>1
<1>3. CASE p \in Ingesting(n)
  BY <1>2, <1>3
<1>4. CASE p \notin Ingesting(n)
  <2>1. n \in kept
    BY <1>4
  <2>2. ASSUME NEW q \in Ingesting(n) PROVE FALSE
    <3>1. q \in Processes \ {p}
      BY <1>4, <2>2 DEF Ingesting
    <3>2. task'[q] = task[q]
      BY <3>1 DEF Others
    <3>3. q \in Ingesting(n)'
      BY <3>1, <3>2, <2>2 DEF Ingesting
    <3>4. QED
      BY <1>1, <3>3
  <2>3. PICK i \in Numbered(n) : chunks[i] # "none"
    BY <2>1, <2>2 DEF KeptIsThere
  <2>4. QED
    BY <1>4, <2>1, <2>3
<1>5. QED
  BY <1>3, <1>4

\* Of a process that has no turn.
LEMMA FitsStays ==
  ASSUME NEW p \in Processes, Others(p), NEW q \in Processes \ {p}, NEW n, NEW i,
         StillFits(n, q, i)
  PROVE  StillFits(n, q, i)'
<1>1. at'[q] = at[q] /\ task'[q] = task[q]
  BY DEF Others
<1>2. q \in Ingesting(n)' <=> q \in Ingesting(n)
  BY <1>1 DEF Ingesting
<1>3. QED
  BY <1>1, <1>2 DEF StillFits

\* No row is inserted, and those of the process that has its turn fit.
LEMMA OwnersStay ==
  ASSUME RowsAreOwned, NEW p \in Processes, Others(p),
         \A n \in Numbers : Numbered(n)' \subseteq Numbered(n),
         \A n \in Numbers : \A i \in Numbered(n)' : StillFits(n, p, i) => StillFits(n, p, i)'
  PROVE  RowsAreOwned'
<1>1. SUFFICES ASSUME NEW n \in Numbers
               PROVE  \E owner \in [Numbered(n)' -> Processes] : IsOwner(owner, n)'
  BY DEF RowsAreOwned
<1>2. PICK owner \in [Numbered(n) -> Processes] : IsOwner(owner, n)
  BY DEF RowsAreOwned
<1>3. PICK heir \in [Numbered(n)' -> Processes] : \A i \in Numbered(n)' : heir[i] = owner[i]
  <2>1. [i \in Numbered(n)' |-> owner[i]] \in [Numbered(n)' -> Processes]
    BY <1>2
  <2>2. QED
    BY <2>1
<1>4. \A i \in Numbered(n)' : heir[i] = owner[i] /\ i \in Numbered(n) /\ owner[i] \in Processes
  BY <1>2, <1>3
<1>5. \A i, j \in Numbered(n)' : heir[i] = heir[j] => i = j
  BY <1>2, <1>4 DEF IsOwner
<1>6. ASSUME NEW i \in Numbered(n)' PROVE StillFits(n, owner[i], i)'
  <2>1. StillFits(n, owner[i], i) /\ owner[i] \in Processes
    BY <1>2, <1>4 DEF IsOwner
  <2>2. CASE owner[i] = p
    <3>1. StillFits(n, p, i)
      BY <2>1, <2>2
    <3>2. StillFits(n, p, i)'
      BY <3>1
    <3>3. QED
      BY <2>2, <3>2 DEF StillFits, Ingesting
  <2>3. CASE owner[i] # p
    <3> DEFINE q == owner[i]
    <3>1. q \in Processes \ {p} /\ StillFits(n, q, i)
      BY <2>1, <2>3
    <3> HIDE DEF q
    <3>2. StillFits(n, q, i)'
      BY <3>1, FitsStays
    <3>3. QED
      BY <3>2 DEF q, StillFits, Ingesting
  <2>4. QED
    BY <2>2, <2>3
<1>7. IsOwner(heir, n)'
  <2>1. ASSUME NEW i \in Numbered(n)' PROVE StillFits(n, heir[i], i)'
    BY <1>4, <1>6 DEF StillFits, Ingesting
  <2>2. QED
    BY <1>5, <2>1 DEF IsOwner
<1>8. QED
  BY <1>3, <1>7

LEMMA NumberedAre ==
  \A n : Numbered(n) = {i \in Ids : policies[i] \in Texts /\ Content[policies[i]].number = n}
  BY DEF Numbered, Live, Document

LEMMA NoTaskIsOne == IsTask(NoTask) /\ NoTask.text = Nothing /\ NoTask.run = Nothing
  BY DEF NoTask, IsTask, HasFields

\* A process that ingests a number: its handler is in an ingest.
LEMMA IngestingAre ==
  ASSUME EyeTyped, HandlersHold, NEW p \in Processes
  PROVE  /\ task[p].text # Nothing <=> at[p] \in Ingests
         /\ \A n : p \in Ingesting(n) <=> at[p] \in Ingests /\ Content[task[p].text].number = n
<1>1. at[p] \in Labels /\ HandlerHolds(p)
  BY DEF EyeTyped, HandlersHold, Labels
<1>2. task[p].text # Nothing <=> at[p] \in Ingests
  BY <1>1, NothingAssumption DEF HandlerHolds, Labels, Ingests, Reviews
<1>3. QED
  BY <1>2 DEF Ingesting

LEMMA IngestFailsKeeps ==
  ASSUME IngestInv, NEW p \in Processes, at[p] \in Ingests, IngestFails(p), policies' = policies,
         chunks' = chunks
           \/ (at[p] = "purge row" /\ chunks' = [chunks EXCEPT ![task[p].id] = "none"])
  PROVE  IngestInv'
<1>1. EyeTyped /\ HandlersHold /\ KeptIsThere /\ RowsAreOwned
  BY DEF IngestInv
<1>2. /\ task' = [task EXCEPT ![p] = NoTask] /\ at' = [at EXCEPT ![p] = "idle"]
      /\ kept' = kept \ {Content[task[p].text].number}
  BY DEF IngestFails, Respond, GoOn, Hold
<1>3. /\ at' \in [Processes -> Labels] /\ task' = [q \in Processes |-> task'[q]]
      /\ \A q \in Processes : IsTask(task'[q])
      /\ task'[p] = NoTask /\ at'[p] = "idle" /\ Others(p)
  BY <1>1, <1>2, NoTaskIsOne, Turn DEF Labels
<1>4. HandlerHolds(p)
  BY <1>1 DEF HandlersHold
<1>5. EyeTyped'
  <2>1. chunks' \in [Ids -> {"none", "bare", "embedded"}]
    BY <1>1 DEF EyeTyped
  <2>2. QED
    BY <1>1, <1>2, <1>3, <2>1 DEF EyeTyped, Labels
<1>6. Forward
  BY DEF Forward
<1>7. HandlerHolds(p)'
  BY <1>3, NoTaskIsOne DEF HandlerHolds, Ingests, Reviews
<1>8. HandlersHold'
  BY <1>1, <1>3, <1>6, <1>7, OthersHold
<1>9. \A n : Numbered(n)' = Numbered(n)
  BY DEF Numbered, Live, Document
<1>10. \A n : p \in Ingesting(n) <=> Content[task[p].text].number = n
  BY <1>1, IngestingAre
<1>11. p \notin UNION {Ingesting(n)' : n \in Numbers}
  BY <1>3, NoTaskIsOne DEF Ingesting
<1>12. KeptIsThere'
  <2>1. \A n \in kept' : n \in kept /\ p \notin Ingesting(n)
    BY <1>2, <1>10
  <2>2. ASSUME NEW n \in kept, p \notin Ingesting(n), NEW i \in Numbered(n), chunks[i] # "none"
        PROVE  i \in Numbered(n)' /\ chunks'[i] # "none"
    <3>1. i \in Numbered(n)'
      BY <1>9
    <3>2. i \in Ids /\ policies[i] \in Texts /\ Content[policies[i]].number = n
      BY NumberedAre
    <3>3. CASE at[p] = "purge row" /\ i = task[p].id
      <4>1. WasOf(i, Content[task[p].text].number)
        BY <1>4, <3>3 DEF HandlerHolds
      <4>2. Content[task[p].text].number = n
        BY <3>2, <4>1, NothingAssumption DEF WasOf
      <4>3. QED
        BY <1>10, <2>2, <4>2
    <3>4. CASE ~(at[p] = "purge row" /\ i = task[p].id)
      BY <1>1, <2>2, <3>1, <3>2, <3>4 DEF EyeTyped
    <3>5. QED
      BY <3>3, <3>4
  <2>3. QED
    BY <1>1, <1>3, <2>1, <2>2, KeptStays
<1>13. RowsAreOwned'
  <2>1. ASSUME NEW n \in Numbers, NEW i \in Numbered(n)' PROVE StillFits(n, p, i)'
    BY <1>11 DEF StillFits
  <2>2. QED
    BY <1>1, <1>3, <1>9, <2>1, OwnersStay
<1>14. QED
  BY <1>5, <1>8, <1>12, <1>13 DEF IngestInv

\* What happens to a run, or between two requests, is nothing to the library.
LEMMA ElsewhereKeeps ==
  ASSUME IngestInv, NEW p \in Processes, at[p] \notin Ingests, UNCHANGED <<texts, kept>>,
         NEW l \in Labels \ Ingests, NEW k, IsTask(k), k.text = Nothing,
         l \in {"idle", "start"} => k.run = Nothing,
         l \in Reviews => k.run \in RunIds,
         task' = [task EXCEPT ![p] = k], at' = [at EXCEPT ![p] = l]
  PROVE  IngestInv'
<1>1. EyeTyped /\ HandlersHold /\ KeptIsThere /\ RowsAreOwned
  BY DEF IngestInv
<1>2. policies' = policies /\ chunks' = chunks /\ kept' = kept
  BY DEF texts
<1>3. /\ at' \in [Processes -> Labels] /\ task' = [q \in Processes |-> task'[q]]
      /\ \A q \in Processes : IsTask(task'[q])
      /\ task'[p] = k /\ at'[p] = l /\ Others(p)
  BY <1>1, Turn
<1>4. EyeTyped'
  BY <1>1, <1>2, <1>3 DEF EyeTyped, Labels
<1>5. Forward
  BY <1>2 DEF Forward
<1>6. HandlerHolds(p)'
  BY <1>3 DEF HandlerHolds, Ingests
<1>7. HandlersHold'
  BY <1>1, <1>3, <1>5, <1>6, OthersHold
<1>8. \A n : Numbered(n)' = Numbered(n)
  BY <1>2 DEF Numbered, Live, Document
<1>9. \A n : p \notin Ingesting(n)
  BY <1>1, IngestingAre
<1>10. \A n : p \notin Ingesting(n)'
  BY <1>3 DEF Ingesting
<1>11. KeptIsThere'
  <2>1. \A n \in kept : \A i \in Numbered(n) :
          chunks[i] # "none" => i \in Numbered(n)' /\ chunks'[i] # "none"
    BY <1>2, <1>8
  <2>2. QED
    BY <1>1, <1>2, <1>3, <1>9, <2>1, KeptStays
<1>12. RowsAreOwned'
  <2>1. ASSUME NEW n \in Numbers, NEW i \in Numbered(n)' PROVE StillFits(n, p, i)'
    BY <1>10 DEF StillFits
  <2>2. QED
    BY <1>1, <1>3, <1>8, <2>1, OwnersStay
<1>13. QED
  BY <1>4, <1>7, <1>11, <1>12 DEF IngestInv

\* What a handler holds, with some of it replaced.
LEMMA RowIsTaken ==
  ASSUME NEW k, HasFields(k), NEW i
  PROVE  [k EXCEPT !.id = i] = [text |-> k.text, id |-> i, rows |-> k.rows, run |-> k.run,
                                left |-> k.left, found |-> k.found, total |-> k.total]
  BY DEF HasFields

LEMMA RowsAreTaken ==
  ASSUME NEW k, HasFields(k), NEW rows
  PROVE  [k EXCEPT !.rows = rows] = [text |-> k.text, id |-> k.id, rows |-> rows, run |-> k.run,
                                     left |-> k.left, found |-> k.found, total |-> k.total]
  BY DEF HasFields

LEMMA RowIsDone ==
  ASSUME NEW k, HasFields(k), NEW i, NEW rows
  PROVE  [k EXCEPT !.id = i, !.rows = rows]
           = [text |-> k.text, id |-> i, rows |-> rows, run |-> k.run,
              left |-> k.left, found |-> k.found, total |-> k.total]
<1> DEFINE m == [k EXCEPT !.id = i]
<1>1. m = [text |-> k.text, id |-> i, rows |-> k.rows, run |-> k.run,
           left |-> k.left, found |-> k.found, total |-> k.total]
  BY RowIsTaken
<1>2. [k EXCEPT !.id = i, !.rows = rows] = [m EXCEPT !.rows = rows]
  BY DEF HasFields
<1> HIDE DEF m
<1>3. HasFields(m)
  BY <1>1 DEF HasFields
<1>4. [m EXCEPT !.rows = rows] = [text |-> m.text, id |-> m.id, rows |-> rows, run |-> m.run,
                                  left |-> m.left, found |-> m.found, total |-> m.total]
  BY <1>3, RowsAreTaken
<1>5. QED
  BY <1>1, <1>2, <1>4

LEMMA TextIsTaken ==
  ASSUME NEW t, NEW rows
  PROVE  [NoTask EXCEPT !.text = t, !.rows = rows]
           = [text |-> t, id |-> Nothing, rows |-> rows, run |-> Nothing, left |-> <<>>,
              found |-> {}, total |-> 0]
<1> DEFINE m == [NoTask EXCEPT !.text = t]
<1>1. m = [text |-> t, id |-> Nothing, rows |-> {}, run |-> Nothing, left |-> <<>>,
           found |-> {}, total |-> 0]
  <2> DEFINE none == NoTask
  <2>1. none = [text |-> Nothing, id |-> Nothing, rows |-> {}, run |-> Nothing, left |-> <<>>,
                found |-> {}, total |-> 0]
    BY DEF NoTask
  <2> HIDE DEF none
  <2>2. none.text = Nothing /\ none.id = Nothing /\ none.rows = {} /\ none.run = Nothing
        /\ none.left = <<>> /\ none.found = {} /\ none.total = 0
    BY <2>1
  <2>3. HasFields(none)
    BY <2>1, <2>2 DEF HasFields
  <2>4. [none EXCEPT !.text = t]
          = [text |-> t, id |-> none.id, rows |-> none.rows, run |-> none.run,
             left |-> none.left, found |-> none.found, total |-> none.total]
    BY <2>3 DEF HasFields
  <2>5. QED
    BY <2>2, <2>4 DEF none
<1>2. [NoTask EXCEPT !.text = t, !.rows = rows] = [m EXCEPT !.rows = rows]
  <2> DEFINE none == NoTask
  <2>1. HasFields(none)
    BY DEF NoTask, HasFields
  <2> HIDE DEF none
  <2>2. [none EXCEPT !.text = t, !.rows = rows] = [[none EXCEPT !.text = t] EXCEPT !.rows = rows]
    BY <2>1 DEF HasFields
  <2>3. QED
    BY <2>2 DEF none
<1> HIDE DEF m
<1>3. HasFields(m)
  BY <1>1 DEF HasFields
<1>4. [m EXCEPT !.rows = rows] = [text |-> m.text, id |-> m.id, rows |-> rows, run |-> m.run,
                                  left |-> m.left, found |-> m.found, total |-> m.total]
  BY <1>3, RowsAreTaken
<1>5. QED
  BY <1>1, <1>2, <1>4

LEMMA IngestBegins ==
  ASSUME IngestInv, NEW p \in Processes, NEW t \in Texts, IngestBegin(p, t)
  PROVE  IngestInv'
<1> DEFINE rows == IF Content[t].number = Nothing THEN {} ELSE Numbered(Content[t].number)
           k == [NoTask EXCEPT !.text = t, !.rows = rows]
           l == IF rows = {} THEN "document" ELSE "purge"
<1>1. EyeTyped /\ HandlersHold /\ KeptIsThere /\ RowsAreOwned
  BY DEF IngestInv
<1>2. /\ at[p] = "idle" /\ policies' = policies /\ chunks' = chunks /\ kept' = kept
      /\ task' = [task EXCEPT ![p] = k] /\ at' = [at EXCEPT ![p] = l]
  BY DEF IngestBegin, Hold, GoOn, texts
<1>3. rows \subseteq Ids /\ \A i \in rows : WasOf(i, Content[t].number)
  BY NumberedAre DEF WasOf
<1>4. rows = {} => l = "document"
  OBVIOUS
<1>5. rows # {} => l = "purge"
  OBVIOUS
<1>6. Content[t].number # Nothing => rows = Numbered(Content[t].number)
  OBVIOUS
<1>7. k = [text |-> t, id |-> Nothing, rows |-> rows, run |-> Nothing, left |-> <<>>,
           found |-> {}, total |-> 0]
  <2> HIDE DEF rows
  <2>1. QED
    BY TextIsTaken
<1> HIDE DEF rows, l, k
<1>8. IsTask(k) /\ k.text = t /\ k.rows = rows /\ k.run = Nothing
  BY <1>3, <1>7 DEF IsTask, HasFields
<1>9. l \in {"document", "purge"} /\ l \in Labels
  BY <1>4, <1>5 DEF Labels, Ingests
<1>10. /\ at' \in [Processes -> Labels] /\ task' = [q \in Processes |-> task'[q]]
       /\ \A q \in Processes : IsTask(task'[q])
       /\ task'[p] = k /\ at'[p] = l /\ Others(p)
  BY <1>1, <1>2, <1>8, <1>9, Turn
<1>11. EyeTyped'
  BY <1>1, <1>2, <1>10 DEF EyeTyped, Labels
<1>12. Forward
  BY <1>2 DEF Forward
<1>13. HandlerHolds(p)'
  BY <1>2, <1>3, <1>8, <1>9, <1>10 DEF HandlerHolds, Ingests, Reviews, WasOf
<1>14. HandlersHold'
  BY <1>1, <1>10, <1>12, <1>13, OthersHold
<1>15. \A n : Numbered(n)' = Numbered(n)
  BY <1>2 DEF Numbered, Live, Document
<1>16. \A n : p \notin Ingesting(n)
  BY <1>1, <1>2, IngestingAre DEF Ingests
<1>17. \A n : p \in Ingesting(n)' => n = Content[t].number
  BY <1>8, <1>10 DEF Ingesting
<1>18. KeptIsThere'
  <2>1. \A n \in kept : \A i \in Numbered(n) :
          chunks[i] # "none" => i \in Numbered(n)' /\ chunks'[i] # "none"
    BY <1>2, <1>15
  <2>2. QED
    BY <1>1, <1>2, <1>10, <1>16, <2>1, KeptStays
<1>19. RowsAreOwned'
  <2>1. ASSUME NEW n \in Numbers, NEW i \in Numbered(n)' PROVE StillFits(n, p, i)'
    <3>1. SUFFICES ASSUME n = Content[t].number PROVE StillFits(n, p, i)'
      BY <1>17 DEF StillFits
    <3>2. i \in rows
      BY <1>6, <1>15, <3>1, NothingAssumption
    <3>3. l = "purge"
      BY <1>5, <3>2
    <3>4. QED
      BY <1>8, <1>10, <3>2, <3>3 DEF StillFits
  <2>2. QED
    BY <1>1, <1>10, <1>15, <2>1, OwnersStay
<1>20. QED
  BY <1>11, <1>14, <1>18, <1>19 DEF IngestInv

LEMMA PurgeGoesOn ==
  ASSUME IngestInv, NEW p \in Processes, at[p] = "purge", NEW i \in task[p].rows,
         UNCHANGED <<policies, chunks, kept>>,
         Hold(p, [task[p] EXCEPT !.id = i]), GoOn(p, "purge row")
  PROVE  IngestInv'
<1> DEFINE k == [task[p] EXCEPT !.id = i]
<1>1. EyeTyped /\ HandlersHold /\ KeptIsThere /\ RowsAreOwned
  BY DEF IngestInv
<1>2. task' = [task EXCEPT ![p] = k] /\ at' = [at EXCEPT ![p] = "purge row"]
  BY DEF Hold, GoOn
<1>3. IsTask(task[p]) /\ HandlerHolds(p)
  BY <1>1 DEF EyeTyped, HandlersHold
<1>4. IsTask(k) /\ k.text = task[p].text /\ k.rows = task[p].rows /\ k.run = task[p].run /\ k.id = i
  <2> DEFINE held == task[p]
  <2>1. IsTask(held) /\ HasFields(held) /\ i \in Ids
    BY <1>3 DEF IsTask
  <2>2. k = [text |-> held.text, id |-> i, rows |-> held.rows, run |-> held.run,
             left |-> held.left, found |-> held.found, total |-> held.total]
    <3> HIDE DEF held
    <3>1. QED
      BY <2>1, RowIsTaken DEF held
  <2> HIDE DEF k
  <2>3. QED
    BY <2>1, <2>2 DEF IsTask, HasFields
<1> HIDE DEF k
<1>5. /\ at' \in [Processes -> Labels] /\ task' = [q \in Processes |-> task'[q]]
      /\ \A q \in Processes : IsTask(task'[q])
      /\ task'[p] = k /\ at'[p] = "purge row" /\ Others(p)
  BY <1>1, <1>2, <1>4, Turn DEF Labels, Ingests
<1>6. EyeTyped'
  BY <1>1, <1>5 DEF EyeTyped, Labels
<1>7. Forward
  BY DEF Forward
<1>8. HandlerHolds(p)'
  BY <1>3, <1>4, <1>5 DEF HandlerHolds, Ingests, Reviews, WasOf
<1>9. HandlersHold'
  BY <1>1, <1>5, <1>7, <1>8, OthersHold
<1>10. \A n : Numbered(n)' = Numbered(n)
  BY DEF Numbered, Live, Document
<1>11. \A n : p \in Ingesting(n)' <=> p \in Ingesting(n)
  BY <1>4, <1>5 DEF Ingesting
<1>12. KeptIsThere'
  <2>1. \A n \in kept : \A j \in Numbered(n) :
          chunks[j] # "none" => j \in Numbered(n)' /\ chunks'[j] # "none"
    BY <1>10
  <2>2. QED
    BY <1>1, <1>5, <1>11, <2>1, KeptStays
<1>13. RowsAreOwned'
  <2>1. ASSUME NEW n \in Numbers, NEW j \in Numbered(n)', StillFits(n, p, j)
        PROVE  StillFits(n, p, j)'
    BY <1>4, <1>5, <1>11, <2>1 DEF StillFits
  <2>2. QED
    BY <1>1, <1>5, <1>10, <2>1, OwnersStay
<1>14. QED
  BY <1>6, <1>9, <1>12, <1>13 DEF IngestInv

LEMMA RowIsPurged ==
  ASSUME IngestInv, NEW p \in Processes, at[p] = "purge row", kept' = kept,
         policies' = [policies EXCEPT ![task[p].id] = Deleted],
         chunks' = [chunks EXCEPT ![task[p].id] = "none"],
         Hold(p, [task[p] EXCEPT !.id = Nothing, !.rows = task[p].rows \ {task[p].id}]),
         GoOn(p, IF task[p].rows \ {task[p].id} = {} THEN "document" ELSE "purge")
  PROVE  IngestInv'
<1> DEFINE row == task[p].id
           rows == task[p].rows \ {row}
           k == [task[p] EXCEPT !.id = Nothing, !.rows = rows]
           l == IF rows = {} THEN "document" ELSE "purge"
<1>1. EyeTyped /\ HandlersHold /\ KeptIsThere /\ RowsAreOwned
  BY DEF IngestInv
<1>2. task' = [task EXCEPT ![p] = k] /\ at' = [at EXCEPT ![p] = l]
  BY DEF Hold, GoOn
<1>3. IsTask(task[p]) /\ HandlerHolds(p)
  BY <1>1 DEF EyeTyped, HandlersHold
<1>4. IsTask(k) /\ k.text = task[p].text /\ k.rows = rows /\ k.run = task[p].run
  <2> DEFINE held == task[p]
  <2>1. IsTask(held) /\ HasFields(held) /\ rows \in SUBSET Ids
    BY <1>3 DEF IsTask
  <2>2. k = [text |-> held.text, id |-> Nothing, rows |-> rows, run |-> held.run,
             left |-> held.left, found |-> held.found, total |-> held.total]
    <3> HIDE DEF held, rows
    <3>1. QED
      BY <2>1, RowIsDone DEF held
  <2> HIDE DEF k, rows
  <2>3. QED
    BY <2>1, <2>2 DEF IsTask, HasFields
<1>5. l \in {"document", "purge"} /\ l \in Labels /\ (l = "document" => rows = {})
  BY DEF Labels, Ingests
<1>6. row \in task[p].rows /\ row \in Ids /\ WasOf(row, Content[task[p].text].number)
  BY <1>3 DEF HandlerHolds, IsTask
<1>7. task[p].text \in Texts /\ task[p].run = Nothing
      /\ \A i \in task[p].rows : WasOf(i, Content[task[p].text].number)
  BY <1>3 DEF HandlerHolds, Ingests
<1>8. policies' = [policies EXCEPT ![row] = Deleted] /\ chunks' = [chunks EXCEPT ![row] = "none"]
  OBVIOUS
<1>9. \A i \in task[p].rows : i \in rows \/ i = row
  OBVIOUS
<1>10. rows \subseteq task[p].rows /\ rows \subseteq Ids
  BY <1>3 DEF IsTask
<1> HIDE DEF k, l, rows, row
<1>11. /\ at' \in [Processes -> Labels] /\ task' = [q \in Processes |-> task'[q]]
       /\ \A q \in Processes : IsTask(task'[q])
       /\ task'[p] = k /\ at'[p] = l /\ Others(p)
  BY <1>1, <1>2, <1>4, <1>5, Turn
<1>12. \A i \in Ids : /\ policies'[i] = IF i = row THEN Deleted ELSE policies[i]
                      /\ i # row => chunks'[i] = chunks[i]
  BY <1>1, <1>8 DEF EyeTyped
<1>13. EyeTyped'
  <2>1. /\ policies' \in [Ids -> Texts \cup {Nothing, Deleted}]
        /\ chunks' \in [Ids -> {"none", "bare", "embedded"}]
    BY <1>1, <1>8 DEF EyeTyped
  <2>2. QED
    BY <1>1, <1>11, <2>1 DEF EyeTyped, Labels
<1>14. Forward
  BY <1>12 DEF Forward
<1>15. HandlerHolds(p)'
  <2>1. ASSUME NEW i \in rows
        PROVE  \/ policies'[i] = Deleted
               \/ policies'[i] \in Texts
                    /\ Content[policies'[i]].number = Content[task[p].text].number
    <3>1. i \in Ids /\ (policies[i] = Deleted
                        \/ (policies[i] \in Texts
                              /\ Content[policies[i]].number = Content[task[p].text].number))
      BY <1>7, <1>10, <2>1 DEF WasOf
    <3>2. policies'[i] = Deleted \/ policies'[i] = policies[i]
      BY <1>12, <3>1
    <3>3. QED
      BY <3>1, <3>2
  <2>2. QED
    BY <1>4, <1>5, <1>7, <1>11, <2>1 DEF HandlerHolds, Ingests, Reviews, WasOf
<1>16. HandlersHold'
  BY <1>1, <1>11, <1>14, <1>15, OthersHold
<1>17. ASSUME NEW n
       PROVE  Numbered(n)' = Numbered(n) \ {row}
  <2>1. Numbered(n)' = {i \in Ids : policies'[i] \in Texts /\ Content[policies'[i]].number = n}
    BY DEF Numbered, Live, Document
  <2>2. Numbered(n) = {i \in Ids : policies[i] \in Texts /\ Content[policies[i]].number = n}
    BY NumberedAre
  <2>3. ASSUME NEW i \in Ids
        PROVE  /\ policies'[i] \in Texts /\ Content[policies'[i]].number = n
                  => i # row /\ policies[i] \in Texts /\ Content[policies[i]].number = n
               /\ i # row => policies'[i] = policies[i]
    BY <1>12, NothingAssumption
  <2>4. \A i \in Ids : i \in Numbered(n)' <=> i \in Numbered(n) \ {row}
    BY <2>1, <2>2, <2>3
  <2>5. Numbered(n)' \subseteq Ids /\ Numbered(n) \subseteq Ids
    BY <2>1, <2>2
  <2>6. QED
    BY <2>4, <2>5
<1>18. \A n : p \in Ingesting(n)' <=> p \in Ingesting(n)
  BY <1>4, <1>11 DEF Ingesting
<1>19. \A n : row \in Numbered(n) => p \in Ingesting(n)
  BY <1>1, <1>6, NumberedAre, IngestingAre, NothingAssumption DEF WasOf, Ingests
<1>20. KeptIsThere'
  <2>1. ASSUME NEW n \in kept, p \notin Ingesting(n), NEW i \in Numbered(n), chunks[i] # "none"
        PROVE  i \in Numbered(n)' /\ chunks'[i] # "none"
    BY <1>12, <1>17, <1>19, <2>1, NumberedAre
  <2>2. QED
    BY <1>1, <1>11, <1>18, <2>1, KeptStays
<1>21. RowsAreOwned'
  <2>1. ASSUME NEW n \in Numbers, NEW i \in Numbered(n)', StillFits(n, p, i)
        PROVE  StillFits(n, p, i)'
    <3>1. SUFFICES ASSUME p \in Ingesting(n) PROVE i \in rows
      BY <1>4, <1>5, <1>11, <1>18 DEF StillFits
    <3>2. i \in task[p].rows /\ i # row
      BY <1>17, <2>1, <3>1 DEF StillFits
    <3>3. QED
      BY <1>9, <3>2
  <2>2. QED
    BY <1>1, <1>11, <1>17, <2>1, OwnersStay
<1>22. QED
  BY <1>13, <1>16, <1>20, <1>21 DEF IngestInv

LEMMA DocumentIsInserted ==
  ASSUME IngestInv, NEW p \in Processes, at[p] = "document", NEW i \in Ids,
         policies[i] = Nothing, policies' = [policies EXCEPT ![i] = task[p].text],
         UNCHANGED <<chunks, kept>>, Hold(p, [task[p] EXCEPT !.id = i]), GoOn(p, "chunks")
  PROVE  IngestInv'
<1> DEFINE k == [task[p] EXCEPT !.id = i]
           t == task[p].text
<1>1. EyeTyped /\ HandlersHold /\ KeptIsThere /\ RowsAreOwned
  BY DEF IngestInv
<1>2. task' = [task EXCEPT ![p] = k] /\ at' = [at EXCEPT ![p] = "chunks"]
  BY DEF Hold, GoOn
<1>3. IsTask(task[p]) /\ HandlerHolds(p)
  BY <1>1 DEF EyeTyped, HandlersHold
<1>4. IsTask(k) /\ k.text = t /\ k.run = task[p].run /\ k.id = i
  <2> DEFINE held == task[p]
  <2>1. IsTask(held) /\ HasFields(held)
    BY <1>3 DEF IsTask
  <2>2. k = [text |-> held.text, id |-> i, rows |-> held.rows, run |-> held.run,
             left |-> held.left, found |-> held.found, total |-> held.total]
    <3> HIDE DEF held
    <3>1. QED
      BY <2>1, RowIsTaken DEF held
  <2> HIDE DEF k
  <2>3. QED
    BY <2>1, <2>2 DEF IsTask, HasFields
<1>5. t \in Texts /\ task[p].run = Nothing
  BY <1>3 DEF HandlerHolds, Ingests
<1>6. policies' = [policies EXCEPT ![i] = t]
  OBVIOUS
<1> HIDE DEF k, t
<1>7. /\ at' \in [Processes -> Labels] /\ task' = [q \in Processes |-> task'[q]]
      /\ \A q \in Processes : IsTask(task'[q])
      /\ task'[p] = k /\ at'[p] = "chunks" /\ Others(p)
  BY <1>1, <1>2, <1>4, Turn DEF Labels, Ingests
<1>8. \A j \in Ids : policies'[j] = IF j = i THEN t ELSE policies[j]
  BY <1>1, <1>6 DEF EyeTyped
<1>9. EyeTyped'
  <2>1. policies' \in [Ids -> Texts \cup {Nothing, Deleted}]
    BY <1>1, <1>5, <1>6 DEF EyeTyped
  <2>2. QED
    BY <1>1, <1>7, <2>1 DEF EyeTyped, Labels
<1>10. Forward
  BY <1>8 DEF Forward
<1>11. HandlerHolds(p)'
  BY <1>4, <1>5, <1>7, <1>8 DEF HandlerHolds, Ingests, Reviews
<1>12. HandlersHold'
  BY <1>1, <1>7, <1>10, <1>11, OthersHold
<1>13. \A n : i \notin Numbered(n)
  BY NumberedAre, NothingAssumption
<1>14. \A n : Numbered(n)' = IF Content[t].number = n THEN Numbered(n) \cup {i} ELSE Numbered(n)
  <2>1. \A n : Numbered(n)'
              = {j \in Ids : policies'[j] \in Texts /\ Content[policies'[j]].number = n}
    BY DEF Numbered, Live, Document
  <2>2. ASSUME NEW n, NEW j \in Ids
        PROVE  j \in Numbered(n)' <=> j \in Numbered(n) \/ (j = i /\ Content[t].number = n)
    BY <1>5, <1>8, <1>13, <2>1, NumberedAre
  <2>3. \A n : Numbered(n) \subseteq Ids /\ Numbered(n)' \subseteq Ids
    BY <2>1, NumberedAre
  <2>4. QED
    BY <2>2, <2>3
<1>15. \A n : /\ p \in Ingesting(n)' <=> p \in Ingesting(n)
              /\ p \in Ingesting(n) <=> Content[t].number = n
  <2>1. \A n : p \in Ingesting(n) <=> Content[t].number = n
    BY <1>1, IngestingAre DEF t, Ingests
  <2>2. \A n : p \in Ingesting(n)' <=> Content[t].number = n
    BY <1>4, <1>5, <1>7, NothingAssumption DEF Ingesting
  <2>3. QED
    BY <2>1, <2>2
<1>16. KeptIsThere'
  <2>1. \A n \in kept : \A j \in Numbered(n) :
          chunks[j] # "none" => j \in Numbered(n)' /\ chunks'[j] # "none"
    BY <1>14
  <2>2. QED
    BY <1>1, <1>7, <1>15, <2>1, KeptStays
<1>17. RowsAreOwned'
  <2>1. SUFFICES ASSUME NEW n \in Numbers
                 PROVE  \E owner \in [Numbered(n)' -> Processes] : IsOwner(owner, n)'
    BY DEF RowsAreOwned
  <2>2. PICK owner \in [Numbered(n) -> Processes] : IsOwner(owner, n)
    BY <1>1 DEF RowsAreOwned
  \* Until now the process had no row of that number.
  <2>3. ASSUME NEW j \in Numbered(n), owner[j] = p PROVE p \notin Ingesting(n)
    BY <2>2, <2>3 DEF IsOwner, StillFits
  <2>4. PICK heir \in [Numbered(n)' -> Processes] :
          \A j \in Numbered(n)' : heir[j] = IF j = i THEN p ELSE owner[j]
    <3>1. \A j \in Numbered(n)' : j # i => j \in Numbered(n)
      BY <1>14
    <3>2. [j \in Numbered(n)' |-> IF j = i THEN p ELSE owner[j]] \in [Numbered(n)' -> Processes]
      BY <2>2, <3>1
    <3>3. QED
      BY <3>2
  <2>5. ASSUME NEW j \in Numbered(n)', NEW m \in Numbered(n)', heir[j] = heir[m] PROVE j = m
    <3>1. CASE i \notin Numbered(n)'
      BY <1>14, <2>2, <2>4, <2>5, <3>1 DEF IsOwner
    <3>2. CASE i \in Numbered(n)'
      <4>1. Content[t].number = n /\ p \in Ingesting(n)
        BY <1>13, <1>14, <1>15, <3>2
      <4>2. \A x \in Numbered(n)' : x = i \/ (x \in Numbered(n) /\ owner[x] # p)
        BY <1>14, <2>3, <4>1
      <4>3. QED
        BY <2>2, <2>4, <2>5, <4>2 DEF IsOwner
    <3>3. QED
      BY <3>1, <3>2
  <2>6. ASSUME NEW j \in Numbered(n)' PROVE StillFits(n, heir[j], j)'
    <3>1. CASE j = i
      <4>1. StillFits(n, p, i)'
        BY <1>4, <1>7 DEF StillFits
      <4>2. heir[j] = p
        BY <2>4, <3>1
      <4>3. QED
        BY <3>1, <4>1, <4>2
    <3>2. CASE j # i
      <4> DEFINE q == owner[j]
      <4>1. j \in Numbered(n) /\ heir[j] = q /\ q \in Processes /\ StillFits(n, q, j)
        BY <1>14, <2>2, <2>4, <3>2 DEF IsOwner
      <4>2. CASE q = p
        <5>1. p \notin Ingesting(n)'
          BY <1>15, <2>3, <4>1, <4>2
        <5>2. StillFits(n, p, j)'
          BY <5>1 DEF StillFits
        <5>3. heir[j] = p
          BY <4>1, <4>2
        <5>4. QED
          BY <5>2, <5>3
      <4>3. CASE q # p
        <5> HIDE DEF q
        <5>1. StillFits(n, q, j)'
          BY <1>7, <4>1, <4>3, FitsStays
        <5>2. heir[j] = q
          BY <4>1
        <5>3. QED
          BY <5>1, <5>2
      <4>4. QED
        BY <4>2, <4>3
    <3>3. QED
      BY <3>1, <3>2
  <2>7. IsOwner(heir, n)'
    BY <2>5, <2>6 DEF IsOwner
  <2>8. QED
    BY <2>7
<1>18. QED
  BY <1>9, <1>12, <1>16, <1>17 DEF IngestInv

LEMMA ChunksAreInserted ==
  ASSUME IngestInv, NEW p \in Processes, at[p] = "chunks", task[p].id \in Live,
         NEW how \in {"bare", "embedded"}, chunks' = [chunks EXCEPT ![task[p].id] = how],
         kept' = IF Content[task[p].text].number = Nothing THEN kept
                 ELSE kept \cup {Content[task[p].text].number},
         policies' = policies, NEW l \in {"idle", "start"}, GoOn(p, l), Hold(p, NoTask)
  PROVE  IngestInv'
<1> DEFINE i == task[p].id
           t == task[p].text
<1>1. EyeTyped /\ HandlersHold /\ KeptIsThere /\ RowsAreOwned
  BY DEF IngestInv
<1>2. task' = [task EXCEPT ![p] = NoTask] /\ at' = [at EXCEPT ![p] = l] /\ l \in Labels
  BY DEF Hold, GoOn, Labels
<1>3. HandlerHolds(p)
  BY <1>1 DEF HandlersHold
<1>4. i \in Ids /\ t \in Texts /\ policies[i] = t
  BY <1>3, NothingAssumption DEF HandlerHolds, Ingests, Live
<1>5. /\ chunks' = [chunks EXCEPT ![i] = how]
      /\ kept' = IF Content[t].number = Nothing THEN kept ELSE kept \cup {Content[t].number}
  OBVIOUS
<1> HIDE DEF i, t
<1>6. /\ at' \in [Processes -> Labels] /\ task' = [q \in Processes |-> task'[q]]
      /\ \A q \in Processes : IsTask(task'[q])
      /\ task'[p] = NoTask /\ at'[p] = l /\ Others(p)
  BY <1>1, <1>2, NoTaskIsOne, Turn
<1>7. \A j \in Ids : chunks'[j] = IF j = i THEN how ELSE chunks[j]
  BY <1>1, <1>5 DEF EyeTyped
<1>8. EyeTyped'
  <2>1. chunks' \in [Ids -> {"none", "bare", "embedded"}]
    BY <1>1, <1>5 DEF EyeTyped
  <2>2. kept' \subseteq Numbers
    BY <1>1, <1>4, <1>5, TextsAssumption DEF EyeTyped
  <2>3. QED
    BY <1>1, <1>6, <2>1, <2>2 DEF EyeTyped, Labels
<1>9. Forward
  BY DEF Forward
<1>10. HandlerHolds(p)'
  BY <1>6, NoTaskIsOne DEF HandlerHolds, Ingests, Reviews
<1>11. HandlersHold'
  BY <1>1, <1>6, <1>9, <1>10, OthersHold
<1>12. \A n : Numbered(n)' = Numbered(n)
  BY DEF Numbered, Live, Document
<1>13. \A n : p \in Ingesting(n) <=> Content[t].number = n
  BY <1>1, IngestingAre DEF t, Ingests
<1>14. KeptIsThere'
  <2>1. \A n \in kept' : n \in kept \/ p \in Ingesting(n)
    BY <1>5, <1>13
  <2>2. ASSUME NEW n \in kept', p \in Ingesting(n)
        PROVE  \E j \in Numbered(n)' : chunks'[j] # "none"
    <3>1. i \in Numbered(n)
      BY <1>4, <1>13, <2>2, NumberedAre
    <3>2. chunks'[i] # "none"
      BY <1>4, <1>7
    <3>3. QED
      BY <1>12, <3>1, <3>2
  <2>3. ASSUME NEW n \in kept, NEW j \in Numbered(n), chunks[j] # "none"
        PROVE  j \in Numbered(n)' /\ chunks'[j] # "none"
    BY <1>7, <1>12, <2>3, NumberedAre
  <2>4. QED
    BY <1>1, <1>6, <2>1, <2>2, <2>3, KeptStays
<1>15. RowsAreOwned'
  <2>1. \A n : p \notin Ingesting(n)'
    BY <1>6, NoTaskIsOne DEF Ingesting
  <2>2. ASSUME NEW n \in Numbers, NEW j \in Numbered(n)' PROVE StillFits(n, p, j)'
    BY <2>1 DEF StillFits
  <2>3. QED
    BY <1>1, <1>6, <1>12, <2>2, OwnersStay
<1>16. QED
  BY <1>8, <1>11, <1>14, <1>15 DEF IngestInv

LEMMA RunIsTaken ==
  ASSUME NEW k, HasFields(k), NEW r
  PROVE  [k EXCEPT !.run = r] = [text |-> k.text, id |-> k.id, rows |-> k.rows, run |-> r,
                                 left |-> k.left, found |-> k.found, total |-> k.total]
  BY DEF HasFields

LEMMA LeftIsTaken ==
  ASSUME NEW k, HasFields(k), NEW left
  PROVE  [k EXCEPT !.left = left] = [text |-> k.text, id |-> k.id, rows |-> k.rows, run |-> k.run,
                                     left |-> left, found |-> k.found, total |-> k.total]
  BY DEF HasFields

LEMMA FoundIsTaken ==
  ASSUME NEW k, HasFields(k), NEW found
  PROVE  [k EXCEPT !.found = found]
           = [text |-> k.text, id |-> k.id, rows |-> k.rows, run |-> k.run,
              left |-> k.left, found |-> found, total |-> k.total]
  BY DEF HasFields

LEMMA TotalIsTaken ==
  ASSUME NEW k, HasFields(k), NEW total
  PROVE  [k EXCEPT !.total = total]
           = [text |-> k.text, id |-> k.id, rows |-> k.rows, run |-> k.run,
              left |-> k.left, found |-> k.found, total |-> total]
  BY DEF HasFields

LEMMA FindingsAreTaken ==
  ASSUME NEW k, HasFields(k), NEW left, NEW found, NEW total
  PROVE  [k EXCEPT !.left = left, !.found = found, !.total = total]
           = [text |-> k.text, id |-> k.id, rows |-> k.rows, run |-> k.run,
              left |-> left, found |-> found, total |-> total]
<1> DEFINE m == [k EXCEPT !.left = left]
           n == [m EXCEPT !.found = found]
<1>1. m = [text |-> k.text, id |-> k.id, rows |-> k.rows, run |-> k.run,
           left |-> left, found |-> k.found, total |-> k.total]
  BY LeftIsTaken
<1>2. [k EXCEPT !.left = left, !.found = found, !.total = total] = [n EXCEPT !.total = total]
  BY DEF HasFields
<1> HIDE DEF m
<1>3. HasFields(m)
  BY <1>1 DEF HasFields
<1>4. n = [text |-> m.text, id |-> m.id, rows |-> m.rows, run |-> m.run,
           left |-> m.left, found |-> found, total |-> m.total]
  BY <1>3, FoundIsTaken
<1> HIDE DEF n
<1>5. HasFields(n)
  BY <1>4 DEF HasFields
<1>6. [n EXCEPT !.total = total] = [text |-> n.text, id |-> n.id, rows |-> n.rows, run |-> n.run,
                                    left |-> n.left, found |-> n.found, total |-> total]
  BY <1>5, TotalIsTaken
<1>7. QED
  BY <1>1, <1>2, <1>4, <1>6

\* What a step of a review leaves of what its handler holds.
LEMMA ReviewGoesOn ==
  ASSUME EyeTyped, HandlersHold, NEW p \in Processes, at[p] \in Reviews, NEW k,
         \/ k = task[p]
         \/ \E left : k = [task[p] EXCEPT !.left = left]
         \/ \E found : k = [task[p] EXCEPT !.found = found]
         \/ \E left, found, total :
              k = [task[p] EXCEPT !.left = left, !.found = found, !.total = total]
  PROVE  IsTask(k) /\ k.text = Nothing /\ k.run = task[p].run /\ k.run \in RunIds
<1> DEFINE held == task[p]
<1>1. IsTask(held) /\ HasFields(held) /\ held.text = Nothing /\ held.run \in RunIds
  BY DEF EyeTyped, HandlersHold, HandlerHolds, IsTask
<1>2. \/ k = held
      \/ \E left : k = [held EXCEPT !.left = left]
      \/ \E found : k = [held EXCEPT !.found = found]
      \/ \E left, found, total : k = [held EXCEPT !.left = left, !.found = found, !.total = total]
  OBVIOUS
<1> HIDE DEF held
<1>3. CASE k = held
  BY <1>1, <1>3 DEF held
<1>4. ASSUME NEW left, NEW found, NEW total,
             k = [text |-> held.text, id |-> held.id, rows |-> held.rows, run |-> held.run,
                  left |-> left, found |-> found, total |-> total]
      PROVE  IsTask(k) /\ k.text = Nothing /\ k.run = held.run /\ k.run \in RunIds
  BY <1>1, <1>4 DEF IsTask, HasFields
<1> DEFINE goal == IsTask(k) /\ k.text = Nothing /\ k.run = held.run /\ k.run \in RunIds
<1>5. ASSUME NEW left, k = [held EXCEPT !.left = left] PROVE goal
  <2>1. k = [text |-> held.text, id |-> held.id, rows |-> held.rows, run |-> held.run,
             left |-> left, found |-> held.found, total |-> held.total]
    BY <1>1, <1>5, LeftIsTaken
  <2>2. QED
    BY <1>4, <2>1
<1>6. ASSUME NEW found, k = [held EXCEPT !.found = found] PROVE goal
  <2>1. k = [text |-> held.text, id |-> held.id, rows |-> held.rows, run |-> held.run,
             left |-> held.left, found |-> found, total |-> held.total]
    BY <1>1, <1>6, FoundIsTaken
  <2>2. QED
    BY <1>4, <2>1
<1>7. ASSUME NEW left, NEW found, NEW total,
             k = [held EXCEPT !.left = left, !.found = found, !.total = total]
      PROVE  goal
  <2>1. k = [text |-> held.text, id |-> held.id, rows |-> held.rows, run |-> held.run,
             left |-> left, found |-> found, total |-> total]
    BY <1>1, <1>7, FindingsAreTaken
  <2>2. QED
    BY <1>4, <2>1
<1>8. QED
  BY <1>2, <1>3, <1>5, <1>6, <1>7 DEF held

\* A step of a review, as far as the library is concerned.
LEMMA ReviewKeeps ==
  ASSUME IngestInv, NEW p \in Processes,
         \/ \E r \in RunIds : CreateRun(p, r)
         \/ CountDocuments(p) \/ Look(p) \/ Record(p) \/ Complete(p) \/ FailRun(p)
  PROVE  IngestInv'
<1>1. EyeTyped /\ HandlersHold
  BY DEF IngestInv
<1>2. UNCHANGED <<texts, kept>>
  BY DEF CreateRun, CountDocuments, Look, Record, Complete, FailRun
<1>3. at \in [Processes -> Labels] /\ task = [q \in Processes |-> task[q]]
  BY <1>1 DEF EyeTyped, Labels
<1>4. ASSUME at[p] \notin Ingests, Respond(p) PROVE IngestInv'
  <2>1. task' = [task EXCEPT ![p] = NoTask] /\ at' = [at EXCEPT ![p] = "idle"]
    BY <1>4 DEF Respond, GoOn, Hold
  <2>2. "idle" \in Labels \ Ingests /\ "idle" \notin Reviews
    BY DEF Labels, Ingests, Reviews
  <2>3. QED
    BY <1>2, <1>4, <2>1, <2>2, NoTaskIsOne, ElsewhereKeeps
<1>5. ASSUME at[p] \in Reviews, NEW k, NEW l \in Reviews,
             IsTask(k) /\ k.text = Nothing /\ k.run \in RunIds,
             task' = [task EXCEPT ![p] = k], at' = [at EXCEPT ![p] = l]
      PROVE  IngestInv'
  <2>1. l \in Labels \ Ingests /\ l \notin {"idle", "start"} /\ at[p] \notin Ingests
    BY <1>5 DEF Labels, Ingests, Reviews
  <2>2. QED
    BY <1>2, <1>5, <2>1, ElsewhereKeeps
<1>6. ASSUME NEW r \in RunIds, CreateRun(p, r) PROVE IngestInv'
  <2>1. at[p] \notin Ingests
    BY <1>6 DEF CreateRun, Ingests
  <2>2. CASE Respond(p)
    BY <1>4, <2>1, <2>2
  <2>3. CASE Hold(p, [NoTask EXCEPT !.run = r]) /\ GoOn(p, "documents")
    <3> DEFINE none == NoTask
               k == [none EXCEPT !.run = r]
    <3>1. task' = [task EXCEPT ![p] = k] /\ at' = [at EXCEPT ![p] = "documents"]
      BY <2>3 DEF Hold, GoOn
    <3>2. IsTask(none) /\ HasFields(none) /\ none.text = Nothing
      BY NoTaskIsOne DEF IsTask
    <3> HIDE DEF none
    <3>3. k = [text |-> none.text, id |-> none.id, rows |-> none.rows, run |-> r,
               left |-> none.left, found |-> none.found, total |-> none.total]
      BY <3>2, RunIsTaken
    <3> HIDE DEF k
    <3>4. IsTask(k) /\ k.text = Nothing /\ k.run = r
      BY <3>2, <3>3 DEF IsTask, HasFields
    <3>5. "documents" \in Labels \ Ingests /\ "documents" \notin {"idle", "start"}
      BY DEF Labels, Ingests, Reviews
    <3>6. QED
      BY <1>2, <2>1, <3>1, <3>4, <3>5, ElsewhereKeeps
  <2>4. QED
    BY <1>6, <2>2, <2>3 DEF CreateRun
<1>7. ASSUME at[p] \in Reviews, NEW l \in Reviews, GoOn(p, l), UNCHANGED task PROVE IngestInv'
  <2>1. task' = [task EXCEPT ![p] = task[p]]
    BY <1>3, <1>7
  <2>2. IsTask(task[p]) /\ task[p].text = Nothing /\ task[p].run \in RunIds
    BY <1>1, <1>7 DEF EyeTyped, HandlersHold, HandlerHolds
  <2>3. QED
    BY <1>5, <1>7, <2>1, <2>2 DEF GoOn
<1>8. ASSUME at[p] \in Reviews, NEW l \in Reviews, NEW left,
             Hold(p, [task[p] EXCEPT !.left = left]), GoOn(p, l)
      PROVE  IngestInv'
  <2> DEFINE k == [task[p] EXCEPT !.left = left]
  <2>1. IsTask(k) /\ k.text = Nothing /\ k.run \in RunIds
    BY <1>1, <1>8, ReviewGoesOn
  <2>2. task' = [task EXCEPT ![p] = k] /\ at' = [at EXCEPT ![p] = l]
    BY <1>8 DEF Hold, GoOn
  <2> HIDE DEF k
  <2>3. QED
    BY <1>5, <1>8, <2>1, <2>2
<1>9. ASSUME CountDocuments(p) PROVE IngestInv'
  <2>1. at[p] \in Reviews /\ at[p] \notin Ingests /\ "detect" \in Reviews
    BY <1>9 DEF CountDocuments, Reviews, Ingests
  <2>2. CASE Respond(p)
    BY <1>4, <2>1, <2>2
  <2>3. CASE Hold(p, [task[p] EXCEPT !.left = Detectors]) /\ GoOn(p, "detect")
    BY <1>8, <2>1, <2>3
  <2>4. QED
    BY <1>9, <2>2, <2>3 DEF CountDocuments
<1>10. ASSUME Look(p) PROVE IngestInv'
  <2>1. at[p] = "detect" /\ {"detect", "record", "fail"} \subseteq Reviews
    BY <1>10 DEF Look, Reviews
  <2>2. CASE GoOn(p, "fail") /\ UNCHANGED task
    BY <1>7, <2>1, <2>2
  <2>3. CASE Hold(p, [task[p] EXCEPT !.left = Tail(@)]) /\ UNCHANGED at
    <3>1. at' = [at EXCEPT ![p] = "detect"]
      BY <1>3, <2>1, <2>3
    <3>2. GoOn(p, "detect") /\ Hold(p, [task[p] EXCEPT !.left = Tail(task[p].left)])
      BY <2>3, <3>1 DEF GoOn
    <3>3. QED
      BY <1>8, <2>1, <3>2
  <2>4. ASSUME NEW found, Hold(p, [task[p] EXCEPT !.found = found]), GoOn(p, "record")
        PROVE  IngestInv'
    <3> DEFINE k == [task[p] EXCEPT !.found = found]
    <3>1. IsTask(k) /\ k.text = Nothing /\ k.run \in RunIds
      BY <1>1, <2>1, ReviewGoesOn
    <3>2. task' = [task EXCEPT ![p] = k] /\ at' = [at EXCEPT ![p] = "record"]
      BY <2>4 DEF Hold, GoOn
    <3> HIDE DEF k
    <3>3. QED
      BY <1>5, <2>1, <3>1, <3>2
  <2>5. QED
    BY <1>10, <2>2, <2>3, <2>4 DEF Look
<1>11. ASSUME Record(p) PROVE IngestInv'
  <2> DEFINE new == {<<task[p].run, f>> : f \in task[p].found}
             k == [task[p] EXCEPT !.left = Tail(task[p].left), !.found = {},
                                  !.total = task[p].total + Cardinality(new)]
  <2>1. at[p] = "record" /\ {"detect", "fail"} \subseteq Reviews /\ at[p] \in Reviews
    BY <1>11 DEF Record, Reviews
  <2>2. CASE GoOn(p, "fail") /\ UNCHANGED task
    BY <1>7, <2>1, <2>2
  <2>3. CASE Hold(p, k) /\ GoOn(p, "detect")
    <3>1. IsTask(k) /\ k.text = Nothing /\ k.run \in RunIds
      <4> HIDE DEF new
      <4>1. QED
        BY <1>1, <2>1, ReviewGoesOn
    <3>2. task' = [task EXCEPT ![p] = k] /\ at' = [at EXCEPT ![p] = "detect"]
      BY <2>3 DEF Hold, GoOn
    <3> HIDE DEF k
    <3>3. QED
      BY <1>5, <2>1, <3>1, <3>2
  <2>4. (Hold(p, k) /\ GoOn(p, "detect")) \/ (GoOn(p, "fail") /\ UNCHANGED task)
    BY <1>11 DEF Record
  <2>5. QED
    BY <2>2, <2>3, <2>4
<1>12. ASSUME Complete(p) \/ FailRun(p) PROVE IngestInv'
  <2>1. at[p] \in Reviews /\ at[p] \notin Ingests /\ "fail" \in Reviews
    BY <1>12 DEF Complete, FailRun, Reviews, Ingests
  <2>2. Respond(p) \/ (GoOn(p, "fail") /\ UNCHANGED task)
    BY <1>12 DEF Complete, FailRun
  <2>3. QED
    BY <1>4, <1>7, <2>1, <2>2
<1>13. QED
  BY <1>6, <1>9, <1>10, <1>11, <1>12

LEMMA IngestKeeps ==
  ASSUME IngestInv, NEW p \in Processes,
         \/ \E t \in Texts : IngestBegin(p, t)
         \/ \E i \in Ids : PurgeFindings(p, i) \/ InsertDocument(p, i)
         \/ PurgeRow(p) \/ InsertChunks(p) \/ Stop(p)
  PROVE  IngestInv'
<1>1. EyeTyped /\ HandlersHold
  BY DEF IngestInv
<1>2. ASSUME NEW i \in Ids, PurgeFindings(p, i) PROVE IngestInv'
  <2>1. at[p] = "purge" /\ at[p] \in Ingests /\ i \in task[p].rows
        /\ policies' = policies /\ chunks' = chunks
    BY <1>2 DEF PurgeFindings, Ingests, texts
  <2>2. CASE IngestFails(p)
    BY <2>1, <2>2, IngestFailsKeeps
  <2>3. CASE Hold(p, [task[p] EXCEPT !.id = i]) /\ GoOn(p, "purge row") /\ UNCHANGED kept
    BY <2>1, <2>3, PurgeGoesOn
  <2>4. QED
    BY <1>2, <2>2, <2>3 DEF PurgeFindings
<1>3. ASSUME NEW i \in Ids, InsertDocument(p, i) PROVE IngestInv'
  <2>1. at[p] = "document" /\ at[p] \in Ingests /\ policies[i] = Nothing /\ chunks' = chunks
    BY <1>3 DEF InsertDocument, Ingests
  <2>2. CASE IngestFails(p) /\ UNCHANGED policies
    BY <2>1, <2>2, IngestFailsKeeps
  <2>3. CASE /\ policies' = [policies EXCEPT ![i] = task[p].text]
             /\ Hold(p, [task[p] EXCEPT !.id = i]) /\ GoOn(p, "chunks") /\ UNCHANGED kept
    BY <2>1, <2>3, DocumentIsInserted
  <2>4. QED
    BY <1>3, <2>2, <2>3 DEF InsertDocument
<1>4. ASSUME PurgeRow(p) PROVE IngestInv'
  <2>1. at[p] = "purge row" /\ at[p] \in Ingests
    BY <1>4 DEF PurgeRow, Ingests
  <2>2. CASE /\ IngestFails(p) /\ UNCHANGED policies
             /\ chunks' \in {chunks, [chunks EXCEPT ![task[p].id] = "none"]}
    BY <2>1, <2>2, IngestFailsKeeps
  <2>3. CASE /\ policies' = [policies EXCEPT ![task[p].id] = Deleted]
             /\ chunks' = [chunks EXCEPT ![task[p].id] = "none"]
             /\ Hold(p, [task[p] EXCEPT !.id = Nothing, !.rows = task[p].rows \ {task[p].id}])
             /\ GoOn(p, IF task[p].rows \ {task[p].id} = {} THEN "document" ELSE "purge")
             /\ UNCHANGED kept
    BY <2>1, <2>3, RowIsPurged
  <2>4. QED
    BY <1>4, <2>2, <2>3 DEF PurgeRow
<1>5. ASSUME InsertChunks(p) PROVE IngestInv'
  <2>1. at[p] = "chunks" /\ at[p] \in Ingests /\ policies' = policies
    BY <1>5 DEF InsertChunks, Ingests
  <2>2. CASE IngestFails(p) /\ UNCHANGED chunks
    BY <2>1, <2>2, IngestFailsKeeps
  <2>3. ASSUME task[p].id \in Live, NEW how \in {"bare", "embedded"},
               chunks' = [chunks EXCEPT ![task[p].id] = how],
               kept' = IF Content[task[p].text].number = Nothing THEN kept
                       ELSE kept \cup {Content[task[p].text].number},
               NEW l \in {"idle", "start"}, GoOn(p, l), Hold(p, NoTask)
        PROVE  IngestInv'
    BY <2>1, <2>3, ChunksAreInserted
  <2>4. QED
    BY <1>5, <2>2, <2>3 DEF InsertChunks, Respond
<1>6. ASSUME Stop(p) PROVE IngestInv'
  <2>1. Respond(p) /\ policies' = policies /\ chunks' = chunks /\ UNCHANGED texts
    BY <1>6 DEF Stop, texts
  <2>2. CASE at[p] \in Ingests
    <3>1. IngestFails(p)
      BY <1>6, <2>1, <2>2 DEF Stop, IngestFails, Ingests
    <3>2. QED
      BY <2>1, <2>2, <3>1, IngestFailsKeeps
  <2>3. CASE at[p] \notin Ingests
    <3>1. kept' = kept
      BY <1>6, <2>3 DEF Stop, Ingests
    <3>2. task' = [task EXCEPT ![p] = NoTask] /\ at' = [at EXCEPT ![p] = "idle"]
      BY <2>1 DEF Respond, GoOn, Hold
    <3>3. "idle" \in Labels \ Ingests /\ "idle" \notin Reviews
      BY DEF Labels, Ingests, Reviews
    <3>4. QED
      BY <2>1, <2>3, <3>1, <3>2, <3>3, NoTaskIsOne, ElsewhereKeeps
  <2>4. QED
    BY <2>2, <2>3
<1>7. QED
  BY <1>2, <1>3, <1>4, <1>5, <1>6, IngestBegins

LEMMA IngestInitially == EyeInit => IngestInv
<1> SUFFICES ASSUME EyeInit PROVE IngestInv
  OBVIOUS
<1>1. EyeTyped
  BY NoTaskIsOne DEF EyeInit, EyeTyped
<1>2. \A p \in Processes : at[p] = "idle" /\ task[p] = NoTask
  BY DEF EyeInit
<1>3. HandlersHold
  BY <1>2, NoTaskIsOne DEF HandlersHold, HandlerHolds, Ingests, Reviews
<1>4. KeptIsThere
  BY DEF EyeInit, KeptIsThere
<1>5. \A n : Numbered(n) = {}
  BY NumberedAre, NothingAssumption DEF EyeInit
<1>6. RowsAreOwned
  <2>1. SUFFICES ASSUME NEW n \in Numbers
                 PROVE  \E owner \in [Numbered(n) -> Processes] : IsOwner(owner, n)
    BY DEF RowsAreOwned
  <2>2. PICK owner : owner \in [{} -> Processes]
    <3>1. [x \in {} |-> x] \in [{} -> Processes]
      OBVIOUS
    <3>2. QED
      BY <3>1
  <2>3. owner \in [Numbered(n) -> Processes] /\ IsOwner(owner, n)
    BY <1>5, <2>2 DEF IsOwner
  <2>4. QED
    BY <2>3
<1>7. QED
  BY <1>1, <1>3, <1>4, <1>6 DEF IngestInv

LEMMA IngestStep == IngestInv /\ [EyeNext]_eyeVars => IngestInv'
<1> SUFFICES ASSUME IngestInv, [EyeNext]_eyeVars PROVE IngestInv'
  OBVIOUS
<1>1. CASE UNCHANGED eyeVars
  <2>1. UNCHANGED <<policies, chunks, at, task, kept>>
    BY <1>1 DEF eyeVars, texts, handlers
  <2>2. EyeTyped' /\ HandlersHold'
    BY <2>1 DEF IngestInv, EyeTyped, HandlersHold, HandlerHolds, WasOf
  <2>3. \A n : Numbered(n)' = Numbered(n) /\ Ingesting(n)' = Ingesting(n)
    BY <2>1 DEF Numbered, Live, Document, Ingesting
  <2>4. KeptIsThere'
    BY <2>1, <2>3 DEF IngestInv, KeptIsThere
  <2>5. RowsAreOwned'
    <3>1. \A n, q, i : StillFits(n, q, i)' <=> StillFits(n, q, i)
      BY <2>1, <2>3 DEF StillFits
    <3>2. ASSUME NEW n \in Numbers
          PROVE  \E owner \in [Numbered(n)' -> Processes] : IsOwner(owner, n)'
      <4>1. PICK owner \in [Numbered(n) -> Processes] : IsOwner(owner, n)
        BY DEF IngestInv, RowsAreOwned
      <4>2. IsOwner(owner, n)'
        <5>1. \A i, j \in Numbered(n)' : owner[i] = owner[j] => i = j
          BY <2>3, <4>1 DEF IsOwner
        <5>2. \A i \in Numbered(n)' : StillFits(n, owner[i], i)'
          BY <2>3, <3>1, <4>1 DEF IsOwner
        <5>3. QED
          BY <5>1, <5>2 DEF IsOwner
      <4>3. QED
        BY <2>3, <4>1, <4>2
    <3>3. QED
      BY <3>2 DEF RowsAreOwned
  <2>6. QED
    BY <2>2, <2>4, <2>5 DEF IngestInv
<1>2. ASSUME NEW p \in Processes, Handler(p) PROVE IngestInv'
  BY <1>2, IngestKeeps, ReviewKeeps DEF Handler
<1>3. QED
  BY <1>1, <1>2 DEF EyeNext

LEMMA IngestAlways == EyeSpec => []IngestInv
  BY IngestInitially, IngestStep, PTL DEF EyeSpec

(***************************************************************************)
(* Uploads replace, for any number of processes, texts and failures: after *)
(* an ingest of a number that was the last to end and succeeded there is a *)
(* document of that number with its chunks, and there are never more of a  *)
(* number than processes (ingestion.py, ingest_document).                  *)
(***************************************************************************)
THEOREM ReingestKeepsDocumentAlways == EyeSpec => []ReingestKeepsDocument
<1>1. IngestInv => ReingestKeepsDocument
  <2> SUFFICES ASSUME IngestInv PROVE ReingestKeepsDocument
    OBVIOUS
  <2>1. ASSUME NEW n \in Numbers PROVE Cardinality(Numbered(n)) <= Cardinality(Processes)
    <3>1. PICK owner \in [Numbered(n) -> Processes] : IsOwner(owner, n)
      BY DEF IngestInv, RowsAreOwned
    <3>2. owner \in Injection(Numbered(n), Processes)
      BY <3>1 DEF IsOwner, Injection, IsInjective
    <3>3. IsFiniteSet(Processes)
      BY ProcessesAssumption
    <3>4. QED
      BY <3>2, <3>3, FS_Injection
  <2>2. QED
    BY <2>1 DEF IngestInv, KeptIsThere, ReingestKeepsDocument
<1>2. QED
  BY <1>1, IngestAlways, PTL

LEMMA ImageIsFinite ==
  ASSUME NEW S, IsFiniteSet(S), NEW f
  PROVE  IsFiniteSet({f[x] : x \in S})
<1> DEFINE T == {f[x] : x \in S}
           g == [x \in S |-> f[x]]
<1>1. g \in Surjection(S, T)
  BY DEF Surjection
<1>2. QED
  BY <1>1, FS_Surjection

LEMMA UnionIsFinite ==
  ASSUME NEW S, IsFiniteSet(S), NEW f, \A x \in S : IsFiniteSet(f[x])
  PROVE  IsFiniteSet(UNION {f[x] : x \in S})
<1> DEFINE T == {f[x] : x \in S}
<1>1. IsFiniteSet(T)
  BY ImageIsFinite
<1>2. \A part \in T : IsFiniteSet(part)
  OBVIOUS
<1>3. QED
  BY <1>1, <1>2, FS_UNION

LEMMA LibraryIsFinite == IsFiniteSet(Live) /\ IsFiniteSet(Read)
<1>1. Live \subseteq Ids /\ Read \subseteq Ids
  BY DEF Live, Read
<1>2. QED
  BY <1>1, FinitenessAssumption, FS_Subset

LEMMA ComparedIsFinite == IsFiniteSet(Compared)
<1>1. Compared \subseteq Ids \X Sections
  <2>1. \A i \in Read : i \in Ids /\ Document(i).sections \subseteq Sections
    BY TextsAssumption DEF Read, Live, Document
  <2>2. QED
    BY <2>1 DEF Compared
<1>2. IsFiniteSet(Ids \X Sections)
  BY FinitenessAssumption, SectionsAssumption, FS_Product
<1>3. QED
  BY <1>1, <1>2, FS_Subset

LEMMA DuplicatesAreFinite ==
  ASSUME NEW rows \in SetToSeqs(Compared)
  PROVE  IsFiniteSet(Duplicates(rows))
<1>1. IsFiniteSet(Compared)
  BY ComparedIsFinite
<1>2. IsFiniteSet(DOMAIN rows)
  <2>1. Cardinality(Compared) \in Nat
    BY <1>1, FS_CardinalityType
  <2>2. DOMAIN rows = 1..Cardinality(Compared)
    BY DEF SetToSeqs
  <2>3. QED
    BY <2>1, <2>2, FS_Interval
<1> DEFINE Pair(k) == {rows[k], Best(rows, rows[k])}
           twinned == {k \in DOMAIN rows : Twins(rows[k]) # {}}
           first == {k \in twinned : \A j \in twinned : j < k => Pair(j) # Pair(k)}
           f == [k \in first |-> Finding("duplicate", Pair(k), rows[k][1], Best(rows, rows[k])[1])]
<1>3. IsFiniteSet(first)
  BY <1>2, FS_Subset
<1>4. Duplicates(rows) = {f[k] : k \in first}
  BY DEF Duplicates
<1> HIDE DEF first, f
<1>5. IsFiniteSet({f[k] : k \in first})
  BY <1>3, ImageIsFinite
<1>6. QED
  BY <1>4, <1>5

\* Findings of one detector about the documents there are.
LEMMA OneByOneIsFinite ==
  ASSUME NEW kind, NEW about, \A i \in Live : IsFiniteSet(about[i])
  PROVE  IsFiniteSet(UNION {{Finding(kind, a, i, Nothing) : a \in about[i]} : i \in Live})
<1> DEFINE f == [i \in Live |-> {Finding(kind, a, i, Nothing) : a \in about[i]}]
<1>1. ASSUME NEW i \in Live PROVE IsFiniteSet(f[i])
  <2> DEFINE g == [a \in about[i] |-> Finding(kind, a, i, Nothing)]
  <2>1. f[i] = {g[a] : a \in about[i]}
    OBVIOUS
  <2>2. IsFiniteSet(about[i])
    OBVIOUS
  <2> HIDE DEF f, g
  <2>3. IsFiniteSet({g[a] : a \in about[i]})
    BY <2>2, ImageIsFinite
  <2>4. QED
    BY <2>1, <2>3
<1>2. UNION {{Finding(kind, a, i, Nothing) : a \in about[i]} : i \in Live}
        = UNION {f[i] : i \in Live}
  OBVIOUS
<1> HIDE DEF f
<1>3. IsFiniteSet(UNION {f[i] : i \in Live})
  BY <1>1, LibraryIsFinite, UnionIsFinite
<1>4. QED
  BY <1>2, <1>3

LEMMA StaleIsFinite == IsFiniteSet(Stale)
<1> DEFINE about == [i \in Live |-> StaleFields(Document(i))]
<1>1. ASSUME NEW i \in Live PROVE IsFiniteSet(about[i])
  <2>1. about[i] \subseteq {"owner", "next_review_at"} \cup {"last_reviewed_at", "version"}
    BY DEF StaleFields
  <2>2. IsFiniteSet({"owner"}) /\ IsFiniteSet({"next_review_at"})
        /\ IsFiniteSet({"last_reviewed_at"}) /\ IsFiniteSet({"version"})
    BY FS_Singleton
  <2>3. IsFiniteSet({"owner"} \cup {"next_review_at"})
        /\ IsFiniteSet({"last_reviewed_at"} \cup {"version"})
    BY <2>2, FS_Union
  <2>4. IsFiniteSet(({"owner"} \cup {"next_review_at"})
                      \cup ({"last_reviewed_at"} \cup {"version"}))
    BY <2>3, FS_Union
  <2>5. about[i] \subseteq ({"owner"} \cup {"next_review_at"})
                            \cup ({"last_reviewed_at"} \cup {"version"})
    BY <2>1
  <2> HIDE DEF about
  <2>6. QED
    BY <2>4, <2>5, FS_Subset
<1>2. Stale = UNION {{Finding("stale", a, i, Nothing) : a \in about[i]} : i \in Live}
  BY DEF Stale
<1> HIDE DEF about
<1>3. QED
  BY <1>1, <1>2, OneByOneIsFinite

\* What the title and the body of a document say is finite.
LEMMA TextIsFinite ==
  ASSUME NEW i \in Live, NEW words \in {Document(i).mentions, Document(i).callsFor}
  PROVE  IsFiniteSet(InText(i, words))
<1>1. IsFiniteSet(words.title) /\ IsFiniteSet(words.body)
  BY FinitenessAssumption DEF Live, Document
<1>2. IsFiniteSet(words.title \cup words.body)
  BY <1>1, FS_Union
<1>3. InText(i, words) \subseteq words.title \cup words.body
  BY DEF InText
<1>4. QED
  BY <1>2, <1>3, FS_Subset

LEMMA FrameworkGapsAreFinite == IsFiniteSet(FrameworkGaps)
<1> DEFINE about == [i \in Live |-> Untagged(i)]
<1>1. ASSUME NEW i \in Live PROVE IsFiniteSet(about[i])
  <2>1. IsFiniteSet(InText(i, Document(i).mentions)) /\ IsFiniteSet({NistCsf})
    BY TextIsFinite, FS_Singleton
  <2>2. IsFiniteSet(InText(i, Document(i).mentions) \cup {NistCsf})
    BY <2>1, FS_Union
  <2>3. about[i] \subseteq InText(i, Document(i).mentions) \cup {NistCsf}
    BY DEF Untagged
  <2> HIDE DEF about
  <2>4. QED
    BY <2>2, <2>3, FS_Subset
<1>2. FrameworkGaps =
        UNION {{Finding("framework_gap", a, i, Nothing) : a \in about[i]} : i \in Live}
  BY DEF FrameworkGaps
<1> HIDE DEF about
<1>3. QED
  BY <1>1, <1>2, OneByOneIsFinite

LEMMA OrphansAreFinite == IsFiniteSet(Orphans)
<1> DEFINE about == [i \in Live |-> Missing(i)]
<1>1. ASSUME NEW i \in Live PROVE IsFiniteSet(about[i])
  <2>1. IsFiniteSet(InText(i, Document(i).callsFor))
    BY TextIsFinite
  <2>2. about[i] \subseteq InText(i, Document(i).callsFor)
    BY DEF Missing
  <2> HIDE DEF about
  <2>3. QED
    BY <2>1, <2>2, FS_Subset
<1>2. Orphans = UNION {{Finding("orphan", a, i, Nothing) : a \in about[i]} : i \in Live}
  BY DEF Orphans
<1> HIDE DEF about
<1>3. QED
  BY <1>1, <1>2, OneByOneIsFinite

LEMMA RequirementsAreFinite == IsFiniteSet(UNION {Requires(i) : i \in Read})
<1>1. ASSUME NEW i \in Read PROVE IsFiniteSet(Requires(i))
  <2> DEFINE f == [s \in Document(i).sections |-> Passage[s].requires]
  <2>1. Document(i).sections \subseteq Sections
    BY TextsAssumption DEF Read, Live, Document
  <2>2. IsFiniteSet(Document(i).sections)
    BY <2>1, SectionsAssumption, FS_Subset
  <2>3. \A s \in Document(i).sections : IsFiniteSet(f[s])
    BY <2>1, FinitenessAssumption
  <2>4. Requires(i) = UNION {f[s] : s \in Document(i).sections}
    BY DEF Requires
  <2> HIDE DEF f
  <2>5. QED
    BY <2>2, <2>3, <2>4, UnionIsFinite
<1> DEFINE g == [i \in Read |-> Requires(i)]
           all == UNION {g[i] : i \in Read}
<1>2. \A i \in Read : IsFiniteSet(g[i])
  BY <1>1
<1>3. all = UNION {Requires(i) : i \in Read}
  OBVIOUS
<1>4. IsFiniteSet(all)
  <2> HIDE DEF g
  <2>1. QED
    BY <1>2, LibraryIsFinite, UnionIsFinite
<1>5. QED
  BY <1>3, <1>4

LEMMA KeysAreFinite == IsFiniteSet(Keys)
<1> DEFINE all == UNION {Requires(i) : i \in Read}
           h == [r \in all |-> r[1]]
<1>1. Keys = {h[r] : r \in all}
  BY DEF Keys
<1>2. IsFiniteSet(all)
  BY RequirementsAreFinite
<1> HIDE DEF all, h
<1>3. QED
  BY <1>1, <1>2, ImageIsFinite

LEMMA ValuesAreFinite ==
  ASSUME NEW key
  PROVE  IsFiniteSet(Values(key))
<1> DEFINE all == {r \in UNION {Requires(i) : i \in Read} : r[1] = key}
           h == [r \in all |-> r[2]]
<1>1. Values(key) = {h[r] : r \in all}
  BY DEF Values
<1>2. IsFiniteSet(all)
  BY RequirementsAreFinite, FS_Subset
<1> HIDE DEF all, h
<1>3. QED
  BY <1>1, <1>2, ImageIsFinite

LEMMA NamedPairsAreFinite ==
  ASSUME NEW key
  PROVE  IsFiniteSet(NamedPairs(key)) /\ IsFiniteSet(NamedForLockout(key))
<1>1. IsFiniteSet(Read) /\ IsFiniteSet({Nothing})
  BY LibraryIsFinite, FS_Singleton
<1>2. IsFiniteSet(Read \cup {Nothing})
  BY <1>1, FS_Union
<1>3. IsFiniteSet(Read \X Read) /\ IsFiniteSet(Read \X (Read \cup {Nothing}))
  BY <1>1, <1>2, FS_Product
<1>4. NamedPairs(key) \subseteq Read \X Read
  <2>1. \A v : Says(key, v) \subseteq Read
    BY DEF Says
  <2>2. \A v, w : Pick(Says(key, v), Says(key, w)) \subseteq Read
    BY <2>1 DEF Pick
  <2>3. QED
    BY <2>2 DEF NamedPairs
<1>5. NamedForLockout(key) \subseteq Read \X (Read \cup {Nothing})
  BY DEF NamedForLockout
<1>6. QED
  BY <1>3, <1>4, <1>5, FS_Subset

LEMMA ConflictsAreFinite ==
  ASSUME NEW found \in Conflicts
  PROVE  IsFiniteSet(found)
<1> DEFINE plain == InConflict \ LockoutKeys
           lockout == InConflict \cap LockoutKeys
           Of(key) == {Finding("conflict", key, n[1], n[2]) : n \in NamedPairs(key)}
           named == UNION {NamedForLockout(key) : key \in lockout}
           family == {Finding("conflict", "lockout", n[1], n[2]) : n \in named}
           choices == {Of(key) : key \in plain} \cup (IF lockout = {} THEN {} ELSE {family})
           f == [key \in plain |-> Of(key)]
           plainly == UNION {f[key] : key \in plain}
<1>1. found \subseteq UNION choices
  BY DEF Conflicts
<1>2. UNION choices \subseteq (UNION {f[key] : key \in plain}) \cup family
  <2>1. ASSUME NEW x, NEW choice \in choices, x \in choice
        PROVE  x \in (UNION {f[key] : key \in plain}) \cup family
    <3>1. choice = family \/ \E key \in plain : choice = f[key]
      BY <2>1
    <3> HIDE DEF family, f, plain, choices
    <3>2. CASE choice = family
      BY <2>1, <3>2
    <3>3. ASSUME NEW key \in plain, choice = f[key]
          PROVE  x \in UNION {f[k] : k \in plain}
      BY <2>1, <3>3
    <3>4. QED
      BY <3>1, <3>2, <3>3
  <2> HIDE DEF family, f, plain, choices
  <2>2. QED
    BY <2>1
<1>3. IsFiniteSet(plain) /\ IsFiniteSet(lockout)
  <2>1. plain \subseteq Keys /\ lockout \subseteq Keys
    BY DEF InConflict
  <2> HIDE DEF plain, lockout
  <2>2. QED
    BY <2>1, KeysAreFinite, FS_Subset
<1>4. ASSUME NEW key \in plain PROVE IsFiniteSet(f[key])
  <2> DEFINE g == [n \in NamedPairs(key) |-> Finding("conflict", key, n[1], n[2])]
  <2>1. f[key] = {g[n] : n \in NamedPairs(key)}
    OBVIOUS
  <2> HIDE DEF f, g
  <2>2. QED
    BY <2>1, NamedPairsAreFinite, ImageIsFinite
<1>5. IsFiniteSet(UNION {f[key] : key \in plain})
  <2> HIDE DEF f, plain
  <2>1. QED
    BY <1>3, <1>4, UnionIsFinite
<1>6. IsFiniteSet(named)
  <2> DEFINE g == [key \in lockout |-> NamedForLockout(key)]
  <2>1. \A key \in lockout : IsFiniteSet(g[key])
    BY NamedPairsAreFinite
  <2>2. named = UNION {g[key] : key \in lockout}
    OBVIOUS
  <2> HIDE DEF g, lockout, named
  <2>3. QED
    BY <1>3, <2>1, <2>2, UnionIsFinite
<1>7. IsFiniteSet(family)
  <2> DEFINE g == [n \in named |-> Finding("conflict", "lockout", n[1], n[2])]
  <2>1. family = {g[n] : n \in named}
    OBVIOUS
  <2> HIDE DEF g, named, family
  <2>2. QED
    BY <1>6, <2>1, ImageIsFinite
<1>8. found \subseteq plainly \cup family
  <2>1. UNION choices \subseteq plainly \cup family
    BY <1>2
  <2> HIDE DEF choices, plainly, family
  <2>2. QED
    BY <1>1, <2>1
<1> HIDE DEF family, f, plain, choices, plainly
<1>9. IsFiniteSet(plainly \cup family)
  <2>1. IsFiniteSet(plainly)
    BY <1>5 DEF plainly
  <2>2. QED
    BY <2>1, <1>7, FS_Union
<1>10. QED
  BY <1>8, <1>9, FS_Subset

\* What a detector finds can be counted.
LEMMA FoundIsFinite ==
  ASSUME NEW detector \in ToSet(Detectors), NEW found \in Found(detector)
  PROVE  IsFiniteSet(found)
<1>1. detector \in {"duplicates", "conflicts", "stale", "frameworks", "orphans"}
  BY DEF Detectors, ToSet
<1>2. CASE detector = "duplicates"
  BY <1>2, DuplicatesAreFinite DEF Found
<1>3. CASE detector = "conflicts"
  BY <1>3, ConflictsAreFinite DEF Found
<1>4. CASE detector = "stale"
  BY <1>4, StaleIsFinite DEF Found
<1>5. CASE detector = "frameworks"
  BY <1>5, FrameworkGapsAreFinite DEF Found
<1>6. CASE detector = "orphans"
  BY <1>6, OrphansAreFinite DEF Found
<1>7. QED
  BY <1>1, <1>2, <1>3, <1>4, <1>5, <1>6

LEMMA OfRunIsFinite ==
  ASSUME RunsTyped, NEW r
  PROVE  /\ IsFiniteSet(OfRun(r)) /\ Cardinality(OfRun(r)) \in Nat
         /\ \A part \in SUBSET OfRun(r) :
              /\ IsFiniteSet(part) /\ Cardinality(part) \in Nat
              /\ Cardinality(part) <= Cardinality(OfRun(r))
<1>1. IsFiniteSet(OfRun(r))
  <2>1. OfRun(r) \subseteq findings
    BY DEF OfRun
  <2>2. QED
    BY <2>1, FS_Subset DEF RunsTyped
<1>2. QED
  BY <1>1, FS_Subset, FS_CardinalityType

\* Other reviews are of other runs.
LEMMA ReviewsStay ==
  ASSUME EyeTyped, HandlersHold, RunsTyped, ReviewsHold, NEW p \in Processes, Others(p),
         \A r \in RunIds : runs[r] # Nothing /\ task[p].run # r =>
           runs'[r] = runs[r] /\ OfRun(r)' \subseteq OfRun(r),
         task'[p].run \in {task[p].run, Nothing} \/ runs[task'[p].run] = Nothing,
         at'[p] \in Reviews => ReviewHolds(p)'
  PROVE  ReviewsHold'
<1>1. SUFFICES ASSUME NEW q \in Processes \ {p}, at'[q] \in Reviews PROVE ReviewHolds(q)'
  BY DEF ReviewsHold
<1>2. at'[q] = at[q] /\ task'[q] = task[q]
  BY DEF Others
<1> DEFINE k == task[q]
<1>3. PICK r \in RunIds : ReviewHolds(q) /\ r = k.run
  BY <1>1, <1>2 DEF ReviewsHold, HandlersHold, HandlerHolds
<1>4. /\ runs[r] # Nothing /\ runs[r].status = "running"
      /\ \A o \in Processes \ {q} : task[o].run # r
      /\ k.left \in Seq(ToSet(Detectors)) /\ (at[q] = "record" => k.left # <<>>)
      /\ IsFiniteSet(k.found) /\ k.total \in Nat
      /\ Cardinality(OfRun(r)) <= k.total \/ (at[q] = "fail" /\ EyeFault("timeout"))
  BY <1>3 DEF ReviewHolds
<1>5. task[p].run # r
  BY <1>4
<1>6. runs'[r] = runs[r] /\ OfRun(r)' \subseteq OfRun(r)
  BY <1>3, <1>4, <1>5
<1>7. /\ Cardinality(OfRun(r)) \in Nat /\ Cardinality(OfRun(r)') \in Nat
      /\ Cardinality(OfRun(r)') <= Cardinality(OfRun(r))
  BY <1>6, OfRunIsFinite
<1>8. Cardinality(OfRun(r)') <= k.total \/ (at[q] = "fail" /\ EyeFault("timeout"))
  BY <1>4, <1>7
<1>9. \A o \in Processes \ {q} : task'[o].run # r
  <2>1. task'[p].run # r
    BY <1>3, <1>4, <1>5, ProcessesAssumption
  <2>2. QED
    BY <1>4, <2>1 DEF Others
<1>10. OfRun(r)' = {f \in findings' : f[1] = r}
  BY DEF OfRun
<1>11. QED
  <2>1. \/ Cardinality({f \in findings' : f[1] = r}) <= k.total
        \/ at[q] = "fail" /\ EyeFault("timeout")
    BY <1>8, <1>10
  <2>2. task'[q].run = r /\ task'[q] = k /\ at'[q] = at[q]
    BY <1>2, <1>3
  <2> HIDE DEF k
  <2>3. ReviewHolds(q)' <=>
          /\ runs'[task'[q].run] # Nothing /\ runs'[task'[q].run].status = "running"
          /\ \A o \in Processes \ {q} : task'[o].run # task'[q].run
          /\ task'[q].left \in Seq(ToSet(Detectors))
          /\ (at'[q] = "record" => task'[q].left # <<>>)
          /\ IsFiniteSet(task'[q].found) /\ task'[q].total \in Nat
          /\ \/ Cardinality({f \in findings' : f[1] = task'[q].run}) <= task'[q].total
             \/ at'[q] = "fail" /\ EyeFault("timeout")
    BY DEF ReviewHolds, OfRun, EyeFault
  <2>4. QED
    BY <1>4, <1>6, <1>9, <2>1, <2>2, <2>3

LEMMA RunningStays ==
  ASSUME RunningIsAtWork, NEW p \in Processes, Others(p), lost \subseteq lost',
         \A r \in RunIds \ lost' : runs'[r] # Nothing /\ runs'[r].status = "running" =>
           \/ runs'[r] = runs[r] /\ (task[p].run = r => task'[p].run = r)
           \/ task'[p].run = r
  PROVE  RunningIsAtWork'
<1>1. SUFFICES ASSUME NEW r \in RunIds \ lost', runs'[r] # Nothing, runs'[r].status = "running"
               PROVE  \E q \in Processes : task'[q].run = r
  BY DEF RunningIsAtWork
<1>2. CASE task'[p].run = r
  BY <1>2
<1>3. CASE runs'[r] = runs[r] /\ (task[p].run = r => task'[p].run = r)
  <2>1. PICK q \in Processes : task[q].run = r
    BY <1>1, <1>3 DEF RunningIsAtWork
  <2>2. CASE q = p
    BY <1>3, <2>1, <2>2
  <2>3. CASE q # p
    BY <2>1, <2>3 DEF Others
  <2>4. QED
    BY <2>2, <2>3
<1>4. QED
  BY <1>1, <1>2, <1>3

LEMMA CountedStays ==
  ASSUME RunsTyped, FindingsAreCounted,
         \A r \in RunIds : runs'[r] # Nothing /\ runs'[r].status # "running" =>
           \/ runs'[r] = runs[r] /\ OfRun(r)' \subseteq OfRun(r)
           \/ runs'[r].status = "failed" /\ EyeFault("timeout")
           \/ Cardinality(OfRun(r)') <= runs'[r].count
  PROVE  FindingsAreCounted'
<1>1. SUFFICES ASSUME NEW r \in RunIds, runs'[r] # Nothing, runs'[r].status # "running",
                      ~(runs'[r].status = "failed" /\ EyeFault("timeout"))
               PROVE  Cardinality(OfRun(r)') <= runs'[r].count
  BY DEF FindingsAreCounted, EyeFault
<1>2. CASE runs'[r] = runs[r] /\ OfRun(r)' \subseteq OfRun(r)
  <2>1. Cardinality(OfRun(r)) <= runs[r].count /\ runs[r].count \in Nat
    BY <1>1, <1>2 DEF FindingsAreCounted, RunsTyped, RunRows
  <2>2. /\ Cardinality(OfRun(r)) \in Nat /\ Cardinality(OfRun(r)') \in Nat
        /\ Cardinality(OfRun(r)') <= Cardinality(OfRun(r))
    BY <1>2, OfRunIsFinite
  <2>3. QED
    BY <1>2, <2>1, <2>2
<1>3. QED
  BY <1>1, <1>2

\* Findings are deleted, and no run changes.
LEMMA RunsStay ==
  ASSUME EyeTyped, HandlersHold, RunsInv, NEW p \in Processes, Others(p), runs' = runs,
         findings' \subseteq findings, lost \subseteq lost',
         task'[p].run \in {task[p].run, Nothing},
         task'[p].run = task[p].run \/ task[p].run \in lost' \/ task[p].run = Nothing,
         at'[p] \in Reviews => ReviewHolds(p)'
  PROVE  RunsInv'
<1>1. RunsTyped /\ ReviewsHold /\ RunningIsAtWork /\ FindingsAreCounted
  BY DEF RunsInv, RunRowsAreTrue
<1>2. RunsTyped'
  BY <1>1, FS_Subset DEF RunsTyped
<1>3. \A r : OfRun(r)' \subseteq OfRun(r)
  BY DEF OfRun
<1>4. ReviewsHold'
  BY <1>1, <1>3, ReviewsStay
<1>5. RunningIsAtWork'
  <2>1. \A r \in RunIds \ lost' : task[p].run = r => task'[p].run = r
    BY ProcessesAssumption
  <2>2. QED
    BY <1>1, <2>1, RunningStays
<1>6. FindingsAreCounted'
  BY <1>1, <1>3, CountedStays
<1>7. QED
  BY <1>2, <1>4, <1>5, <1>6 DEF RunsInv, RunRowsAreTrue

LEMMA TurnIs ==
  ASSUME EyeTyped, NEW p \in Processes, NEW k, NEW l, Hold(p, k) \/ (k = task[p] /\ UNCHANGED task),
         GoOn(p, l) \/ (l = at[p] /\ UNCHANGED at)
  PROVE  Others(p) /\ task'[p] = k /\ at'[p] = l
<1>1. task = [q \in Processes |-> task[q]] /\ at = [q \in Processes |-> at[q]]
  BY DEF EyeTyped
<1>2. at'[p] = l /\ \A q \in Processes \ {p} : at'[q] = at[q]
  BY <1>1 DEF GoOn
<1>3. task'[p] = k /\ \A q \in Processes \ {p} : task'[q] = task[q]
  BY <1>1 DEF Hold
<1>4. QED
  BY <1>2, <1>3 DEF Others

\* An ingest is nothing to the runs, but that it deletes findings.
LEMMA IngestMoves ==
  ASSUME IngestInv, NEW p \in Processes,
         \/ \E t \in Texts : IngestBegin(p, t)
         \/ \E i \in Ids : PurgeFindings(p, i) \/ InsertDocument(p, i)
         \/ PurgeRow(p) \/ InsertChunks(p)
  PROVE  /\ Others(p) /\ {at[p], at'[p]} \cap Reviews = {}
         /\ runs' = runs /\ findings' \subseteq findings /\ lost' = lost
         /\ \/ fresh' = {}
            \/ /\ fresh' = fresh /\ findings' = findings
               /\ policies' = policies /\ chunks' = chunks
<1>1. EyeTyped
  BY DEF IngestInv
<1> DEFINE moves == \E k, l : /\ Hold(p, k) /\ GoOn(p, l) /\ l \notin Reviews
           quiet == at[p] \notin Reviews /\ runs' = runs /\ findings' \subseteq findings
                      /\ lost' = lost
<1>2. ASSUME NEW t, IngestBegin(p, t) PROVE quiet /\ moves
  <2> DEFINE rows == IF Content[t].number = Nothing THEN {} ELSE Numbered(Content[t].number)
             k == [NoTask EXCEPT !.text = t, !.rows = rows]
             l == IF rows = {} THEN "document" ELSE "purge"
  <2>1. quiet
    BY <1>2 DEF IngestBegin, Reviews, reviews
  <2>2. Hold(p, k) /\ GoOn(p, l)
    BY <1>2 DEF IngestBegin
  <2>3. l \notin Reviews
    BY DEF Reviews
  <2> HIDE DEF k, l
  <2>4. QED
    BY <2>1, <2>2, <2>3
<1>3. ASSUME IngestFails(p) PROVE moves
  BY <1>3 DEF IngestFails, Respond, Reviews
<1>4. ASSUME NEW i, PurgeFindings(p, i) PROVE quiet /\ moves
  <2>1. quiet
    BY <1>4 DEF PurgeFindings, Reviews
  <2>2. CASE IngestFails(p)
    BY <1>3, <2>1, <2>2
  <2>3. CASE Hold(p, [task[p] EXCEPT !.id = i]) /\ GoOn(p, "purge row")
    <3> DEFINE k == [task[p] EXCEPT !.id = i]
    <3>1. Hold(p, k) /\ GoOn(p, "purge row") /\ "purge row" \notin Reviews
      BY <2>3 DEF Reviews
    <3> HIDE DEF k
    <3>2. QED
      BY <2>1, <3>1
  <2>4. QED
    BY <1>4, <2>2, <2>3 DEF PurgeFindings
<1>5. ASSUME NEW i, InsertDocument(p, i) PROVE quiet /\ moves
  BY <1>3, <1>5 DEF InsertDocument, Reviews, reviews
<1>6. ASSUME PurgeRow(p) PROVE quiet /\ moves
  <2> DEFINE rows == task[p].rows \ {task[p].id}
             k == [task[p] EXCEPT !.id = Nothing, !.rows = rows]
             l == IF rows = {} THEN "document" ELSE "purge"
  <2>1. quiet
    BY <1>6 DEF PurgeRow, Reviews, reviews
  <2>2. CASE IngestFails(p)
    BY <1>3, <2>1, <2>2
  <2>3. CASE Hold(p, k) /\ GoOn(p, l)
    <3>1. l \notin Reviews
      BY DEF Reviews
    <3> HIDE DEF k, l
    <3>2. QED
      BY <2>1, <2>3, <3>1
  <2>4. IngestFails(p) \/ (Hold(p, k) /\ GoOn(p, l))
    BY <1>6 DEF PurgeRow
  <2>5. QED
    BY <2>2, <2>3, <2>4
<1>7. ASSUME InsertChunks(p) PROVE quiet /\ moves
  <2>1. quiet
    BY <1>7 DEF InsertChunks, Reviews, reviews
  <2>2. moves
    BY <1>3, <1>7 DEF InsertChunks, Respond, Reviews
  <2>3. QED
    BY <2>1, <2>2
<1>8. quiet /\ moves
  <2> HIDE DEF quiet, moves
  <2>1. QED
    BY <1>2, <1>4, <1>5, <1>6, <1>7
<1>9. PICK k, l : Hold(p, k) /\ GoOn(p, l) /\ l \notin Reviews
  BY <1>8
<1>10. Others(p) /\ at'[p] \notin Reviews
  BY <1>1, <1>9, TurnIs
<1>11. \/ fresh' = {}
       \/ /\ fresh' = fresh /\ findings' = findings
          /\ policies' = policies /\ chunks' = chunks
  BY DEF IngestBegin, PurgeFindings, InsertDocument, PurgeRow, InsertChunks, texts, reviews
<1>12. QED
  BY <1>8, <1>10, <1>11

LEMMA IngestLeavesRuns ==
  ASSUME IngestInv, IngestInv', RunsInv, NEW p \in Processes,
         \/ \E t \in Texts : IngestBegin(p, t)
         \/ \E i \in Ids : PurgeFindings(p, i) \/ InsertDocument(p, i)
         \/ PurgeRow(p) \/ InsertChunks(p)
  PROVE  RunsInv'
<1>1. EyeTyped /\ HandlersHold /\ EyeTyped' /\ HandlersHold'
  BY DEF IngestInv
<1>2. /\ Others(p) /\ at[p] \notin Reviews /\ at'[p] \notin Reviews
      /\ runs' = runs /\ findings' \subseteq findings /\ lost' = lost
  BY IngestMoves
<1>3. task[p].run = Nothing /\ task'[p].run = Nothing
  <2>1. at[p] \in {"idle", "start"} \cup Ingests /\ at'[p] \in {"idle", "start"} \cup Ingests
    BY <1>1, <1>2 DEF EyeTyped
  <2>2. QED
    BY <1>1, <2>1 DEF HandlersHold, HandlerHolds
<1>4. QED
  BY <1>1, <1>2, <1>3, RunsStay

LEMMA StopLeavesRuns ==
  ASSUME IngestInv, RunsInv, NEW p \in Processes, Stop(p)
  PROVE  RunsInv'
<1>1. EyeTyped /\ HandlersHold
  BY DEF IngestInv
<1>2. /\ runs' = runs /\ findings' = findings
      /\ lost' = lost \cup ({task[p].run} \ {Nothing})
  BY DEF Stop
<1>3. Others(p) /\ task'[p] = NoTask /\ at'[p] = "idle"
  BY <1>1, TurnIs DEF Stop, Respond
<1>4. task'[p].run = Nothing /\ at'[p] \notin Reviews
  BY <1>3, NoTaskIsOne DEF Reviews
<1>5. QED
  BY <1>1, <1>2, <1>3, <1>4, RunsStay

LEMMA RunIsCreated ==
  ASSUME IngestInv, RunsInv, NEW p \in Processes, NEW r \in RunIds, CreateRun(p, r)
  PROVE  RunsInv'
<1>1. EyeTyped /\ HandlersHold
  BY DEF IngestInv
<1>2. RunsTyped /\ ReviewsHold /\ RunningIsAtWork /\ FindingsAreCounted
  BY DEF RunsInv, RunRowsAreTrue
<1>3. /\ task[p].run = Nothing /\ runs[r] = Nothing
      /\ findings' = findings /\ lost' = lost
  BY <1>1 DEF CreateRun, HandlersHold, HandlerHolds
<1>4. ASSUME Respond(p), runs' = runs PROVE RunsInv'
  <2>1. Others(p) /\ task'[p] = NoTask /\ at'[p] = "idle"
    BY <1>1, <1>4, TurnIs DEF Respond
  <2>2. task'[p].run = Nothing /\ at'[p] \notin Reviews
    BY <2>1, NoTaskIsOne DEF Reviews
  <2>3. QED
    BY <1>1, <1>3, <1>4, <2>1, <2>2, RunsStay
<1>5. ASSUME runs' = [runs EXCEPT ![r] = [status |-> "running", count |-> 0]],
             Hold(p, [NoTask EXCEPT !.run = r]), GoOn(p, "documents")
      PROVE  RunsInv'
  <2> DEFINE none == NoTask
             k == [none EXCEPT !.run = r]
             row == [status |-> "running", count |-> 0]
  <2>1. Others(p) /\ task'[p] = k /\ at'[p] = "documents"
    BY <1>1, <1>5, TurnIs
  <2>2. row \in RunRows /\ row.status = "running" /\ row # Nothing
    BY ProcessesAssumption DEF RunRows
  <2>3. IsTask(none) /\ HasFields(none) /\ none.left = <<>> /\ none.found = {} /\ none.total = 0
    BY NoTaskIsOne DEF IsTask, NoTask
  <2>4. runs' = [runs EXCEPT ![r] = row]
    BY <1>5
  <2> HIDE DEF none, row
  <2>5. k = [text |-> none.text, id |-> none.id, rows |-> none.rows, run |-> r,
             left |-> none.left, found |-> none.found, total |-> none.total]
    BY <2>3, RunIsTaken
  <2> HIDE DEF k
  <2>6. k.run = r /\ k.left = <<>> /\ k.found = {} /\ k.total = 0
    BY <2>3, <2>5
  <2>7. \A o \in RunIds : runs'[o] = IF o = r THEN row ELSE runs[o]
    BY <1>2, <2>4 DEF RunsTyped
  <2>8. RunsTyped'
    <3>1. runs' \in [RunIds -> {Nothing} \cup RunRows]
      BY <1>2, <2>2, <2>4 DEF RunsTyped
    <3>2. QED
      BY <1>2, <1>3, <2>2, <2>7, <3>1 DEF RunsTyped
  <2>9. OfRun(r) = {}
    BY <1>2, <1>3 DEF OfRun, RunsTyped
  <2>10. \A o : OfRun(o)' = OfRun(o)
    BY <1>3 DEF OfRun
  <2>11. ReviewHolds(p)'
    <3>1. \A q \in Processes \ {p} : task'[q].run # r
      <4>1. ASSUME NEW q \in Processes \ {p}, task[q].run = r PROVE FALSE
        <5>1. at[q] \in Reviews
          BY <1>1, <4>1, ProcessesAssumption DEF EyeTyped, HandlersHold, HandlerHolds
        <5>2. runs[r] # Nothing
          BY <1>2, <4>1, <5>1 DEF ReviewsHold, ReviewHolds
        <5>3. QED
          BY <1>3, <5>2
      <4>2. QED
        BY <2>1, <4>1 DEF Others
    <3>2. task'[p].run = r /\ task'[p].left = <<>> /\ task'[p].found = {} /\ task'[p].total = 0
      BY <2>1, <2>6
    <3>3. {f \in findings' : f[1] = r} = {}
      BY <2>9, <2>10 DEF OfRun
    <3>4. runs'[r] # Nothing /\ runs'[r].status = "running"
      BY <2>2, <2>7
    <3>5. Cardinality({}) = 0 /\ IsFiniteSet({})
      BY FS_EmptySet
    <3>6. <<>> \in Seq(ToSet(Detectors))
      OBVIOUS
    <3>7. Cardinality({f \in findings' : f[1] = r}) <= 0
      BY <3>3, <3>5
    <3>8. ReviewHolds(p)' <=>
            /\ runs'[task'[p].run] # Nothing /\ runs'[task'[p].run].status = "running"
            /\ \A o \in Processes \ {p} : task'[o].run # task'[p].run
            /\ task'[p].left \in Seq(ToSet(Detectors))
            /\ (at'[p] = "record" => task'[p].left # <<>>)
            /\ IsFiniteSet(task'[p].found) /\ task'[p].total \in Nat
            /\ \/ Cardinality({f \in findings' : f[1] = task'[p].run}) <= task'[p].total
               \/ at'[p] = "fail" /\ EyeFault("timeout")
      BY DEF ReviewHolds, OfRun, EyeFault
    <3>9. QED
      BY <2>1, <3>1, <3>2, <3>4, <3>5, <3>6, <3>7, <3>8
  <2>12. ReviewsHold'
    <3>1. \A o \in RunIds : runs[o] # Nothing /\ task[p].run # o =>
            runs'[o] = runs[o] /\ OfRun(o)' \subseteq OfRun(o)
      BY <1>3, <2>7, <2>10
    <3>2. runs[task'[p].run] = Nothing
      BY <1>3, <2>1, <2>6
    <3>3. QED
      BY <1>1, <1>2, <2>1, <2>11, <3>1, <3>2, ReviewsStay
  <2>13. RunningIsAtWork'
    <3>1. \A o \in RunIds \ lost' : runs'[o] # Nothing /\ runs'[o].status = "running" =>
            \/ runs'[o] = runs[o] /\ (task[p].run = o => task'[p].run = o)
            \/ task'[p].run = o
      BY <1>3, <2>1, <2>6, <2>7, ProcessesAssumption
    <3>2. QED
      BY <1>2, <1>3, <2>1, <3>1, RunningStays
  <2>14. FindingsAreCounted'
    <3>1. \A o \in RunIds : runs'[o] # Nothing /\ runs'[o].status # "running" =>
            runs'[o] = runs[o] /\ OfRun(o)' \subseteq OfRun(o)
      BY <2>2, <2>7, <2>10
    <3>2. QED
      BY <1>2, <3>1, CountedStays
  <2>15. QED
    BY <2>8, <2>12, <2>13, <2>14 DEF RunsInv, RunRowsAreTrue
<1>6. QED
  BY <1>4, <1>5 DEF CreateRun

\* What the handler of a run knows at its next call.
LEMMA ReviewIs ==
  ASSUME NEW p \in Processes
  PROVE  /\ ReviewHolds(p) <=>
              /\ runs[task[p].run] # Nothing /\ runs[task[p].run].status = "running"
              /\ \A o \in Processes \ {p} : task[o].run # task[p].run
              /\ task[p].left \in Seq(ToSet(Detectors))
              /\ (at[p] = "record" => task[p].left # <<>>)
              /\ IsFiniteSet(task[p].found) /\ task[p].total \in Nat
              /\ \/ Cardinality({f \in findings : f[1] = task[p].run}) <= task[p].total
                 \/ at[p] = "fail" /\ EyeFault("timeout")
         /\ ReviewHolds(p)' <=>
              /\ runs'[task'[p].run] # Nothing /\ runs'[task'[p].run].status = "running"
              /\ \A o \in Processes \ {p} : task'[o].run # task'[p].run
              /\ task'[p].left \in Seq(ToSet(Detectors))
              /\ (at'[p] = "record" => task'[p].left # <<>>)
              /\ IsFiniteSet(task'[p].found) /\ task'[p].total \in Nat
              /\ \/ Cardinality({f \in findings' : f[1] = task'[p].run}) <= task'[p].total
                 \/ at'[p] = "fail" /\ EyeFault("timeout")
  BY DEF ReviewHolds, OfRun, EyeFault

\* A step of a review that neither records nor ends.
LEMMA ReviewLooks ==
  ASSUME EyeTyped, HandlersHold, RunsInv, NEW p \in Processes, at[p] \in Reviews \ {"fail"},
         NEW k, NEW l \in Reviews, Others(p), task'[p] = k, at'[p] = l,
         k.run = task[p].run, k.total = task[p].total,
         k.left \in Seq(ToSet(Detectors)), l = "record" => k.left # <<>>, IsFiniteSet(k.found),
         runs' = runs, findings' = findings, lost' = lost
  PROVE  RunsInv'
<1>1. ReviewHolds(p)
  BY DEF RunsInv, ReviewsHold
<1> DEFINE r == task[p].run
           n == task[p].total
<1>2. /\ runs[r] # Nothing /\ runs[r].status = "running"
      /\ \A o \in Processes \ {p} : task[o].run # r
      /\ n \in Nat /\ Cardinality({f \in findings : f[1] = r}) <= n
  BY <1>1, ReviewIs
<1>3. \A o \in Processes \ {p} : task'[o].run # r
  BY <1>2 DEF Others
<1>4. task'[p].run = r /\ task'[p].total = n
  OBVIOUS
<1> HIDE DEF r, n
<1>5. ReviewHolds(p)'
  BY <1>2, <1>3, <1>4, ReviewIs
<1>6. QED
  BY <1>5, RunsStay

LEMMA DocumentsAreCounted ==
  ASSUME EyeTyped, HandlersHold, RunsInv, NEW p \in Processes, CountDocuments(p)
  PROVE  RunsInv'
<1>1. ReviewHolds(p) /\ at[p] \in Reviews \ {"fail"}
  BY DEF RunsInv, ReviewsHold, CountDocuments, Reviews
<1>2. runs' = runs /\ findings' = findings
  BY DEF CountDocuments
<1>3. CASE Respond(p) /\ lost' = lost \cup {task[p].run}
  <2>1. Others(p) /\ task'[p] = NoTask /\ at'[p] = "idle"
    BY <1>3, TurnIs DEF Respond
  <2>2. task'[p].run = Nothing /\ at'[p] \notin Reviews
    BY <2>1, NoTaskIsOne DEF Reviews
  <2>3. QED
    BY <1>2, <1>3, <2>1, <2>2, RunsStay
<1>4. CASE Hold(p, [task[p] EXCEPT !.left = Detectors]) /\ GoOn(p, "detect") /\ lost' = lost
  <2> DEFINE held == task[p]
             k == [held EXCEPT !.left = Detectors]
  <2>1. Others(p) /\ task'[p] = k /\ at'[p] = "detect"
    BY <1>4, TurnIs
  <2>2. HasFields(held) /\ IsFiniteSet(held.found)
    BY <1>1, ReviewIs DEF EyeTyped, IsTask
  <2> HIDE DEF held
  <2>3. k = [text |-> held.text, id |-> held.id, rows |-> held.rows, run |-> held.run,
             left |-> Detectors, found |-> held.found, total |-> held.total]
    BY <2>2, LeftIsTaken
  <2> HIDE DEF k
  <2>4. /\ k.run = task[p].run /\ k.total = task[p].total /\ k.left = Detectors
        /\ IsFiniteSet(k.found)
    BY <2>2, <2>3 DEF held
  <2>5. Detectors \in Seq(ToSet(Detectors)) /\ "detect" \in Reviews
    BY DEF Detectors, ToSet, Reviews
  <2>6. QED
    BY <1>1, <1>2, <1>4, <2>1, <2>4, <2>5, ReviewLooks
<1>5. QED
  BY <1>3, <1>4 DEF CountDocuments

LEMMA DetectorsLeft ==
  ASSUME NEW left \in Seq(ToSet(Detectors)), left # <<>>
  PROVE  Head(left) \in ToSet(Detectors) /\ Tail(left) \in Seq(ToSet(Detectors))
  OBVIOUS

LEMMA DetectorLooks ==
  ASSUME EyeTyped, HandlersHold, RunsInv, NEW p \in Processes, Look(p)
  PROVE  RunsInv'
<1>1. ReviewHolds(p) /\ at[p] \in Reviews \ {"fail"} /\ at[p] = "detect"
      /\ {"detect", "record", "fail"} \subseteq Reviews
  BY DEF RunsInv, ReviewsHold, Look, Reviews
<1>2. runs' = runs /\ findings' = findings /\ lost' = lost
  BY DEF Look, reviews
<1> DEFINE held == task[p]
<1>3. /\ HasFields(held) /\ IsFiniteSet(held.found) /\ held.left \in Seq(ToSet(Detectors))
      /\ Head(held.left) \in ToSet(Detectors) /\ Tail(held.left) \in Seq(ToSet(Detectors))
  BY <1>1, ReviewIs, DetectorsLeft DEF EyeTyped, IsTask, Look
<1>4. CASE GoOn(p, "fail") /\ UNCHANGED task
  <2>1. Others(p) /\ task'[p] = held /\ at'[p] = "fail"
    BY <1>4, TurnIs
  <2>2. QED
    BY <1>1, <1>2, <1>3, <2>1, ReviewLooks
<1>5. CASE Hold(p, [task[p] EXCEPT !.left = Tail(@)]) /\ UNCHANGED at
  <2> DEFINE k == [held EXCEPT !.left = Tail(held.left)]
  <2>1. Others(p) /\ task'[p] = k /\ at'[p] = "detect"
    BY <1>1, <1>5, TurnIs
  <2> HIDE DEF held
  <2>2. k = [text |-> held.text, id |-> held.id, rows |-> held.rows, run |-> held.run,
             left |-> Tail(held.left), found |-> held.found, total |-> held.total]
    BY <1>3, LeftIsTaken
  <2> HIDE DEF k
  <2>3. /\ k.run = task[p].run /\ k.total = task[p].total /\ k.left = Tail(held.left)
        /\ IsFiniteSet(k.found)
    BY <1>3, <2>2 DEF held
  <2>4. QED
    BY <1>1, <1>2, <1>3, <2>1, <2>3, ReviewLooks
<1>6. ASSUME NEW found \in Found(Head(task[p].left)),
             Hold(p, [task[p] EXCEPT !.found = found]), GoOn(p, "record")
      PROVE  RunsInv'
  <2> DEFINE k == [held EXCEPT !.found = found]
  <2>6. held.left # <<>>
    BY DEF Look
  <2>1. Others(p) /\ task'[p] = k /\ at'[p] = "record"
    BY <1>6, TurnIs
  <2>2. IsFiniteSet(found)
    BY <1>3, FoundIsFinite
  <2> HIDE DEF held
  <2>3. k = [text |-> held.text, id |-> held.id, rows |-> held.rows, run |-> held.run,
             left |-> held.left, found |-> found, total |-> held.total]
    BY <1>3, FoundIsTaken
  <2> HIDE DEF k
  <2>4. /\ k.run = task[p].run /\ k.total = task[p].total /\ k.left = held.left
        /\ k.found = found
    BY <2>3 DEF held
  <2>5. QED
    BY <1>1, <1>2, <1>3, <2>1, <2>2, <2>4, <2>6, ReviewLooks
<1>7. QED
  BY <1>4, <1>5, <1>6 DEF Look

\* Findings of a run are inserted by the handler that has it.
LEMMA FindingsArrive ==
  ASSUME EyeTyped, HandlersHold, RunsInv, NEW p \in Processes, at[p] \in Reviews,
         NEW new, IsFiniteSet(new), \A f \in new : f[1] = task[p].run,
         findings' = findings \cup new, runs' = runs, lost' = lost,
         Others(p), task'[p].run = task[p].run, ReviewHolds(p)'
  PROVE  RunsInv'
<1>1. RunsTyped /\ ReviewsHold /\ RunningIsAtWork /\ FindingsAreCounted
  BY DEF RunsInv, RunRowsAreTrue
<1>2. PICK r \in RunIds : r = task[p].run
  BY DEF HandlersHold, HandlerHolds
<1>3. runs[r] # Nothing /\ runs[r].status = "running"
  BY <1>1, <1>2 DEF ReviewsHold, ReviewHolds
<1>4. RunsTyped'
  <2>1. IsFiniteSet(findings')
    BY <1>1, FS_Union DEF RunsTyped
  <2>2. \A f \in findings' : f[1] \in RunIds /\ runs[f[1]] # Nothing
    BY <1>1, <1>2, <1>3 DEF RunsTyped
  <2>3. QED
    BY <1>1, <2>1, <2>2 DEF RunsTyped
<1>5. \A o \in RunIds : o # r => OfRun(o)' \subseteq OfRun(o)
  BY <1>2 DEF OfRun
<1>6. ReviewsHold'
  BY <1>1, <1>2, <1>5, ReviewsStay
<1>7. RunningIsAtWork'
  BY <1>1, RunningStays
<1>8. FindingsAreCounted'
  <2>1. \A o \in RunIds : runs'[o] # Nothing /\ runs'[o].status # "running" =>
          runs'[o] = runs[o] /\ OfRun(o)' \subseteq OfRun(o)
    BY <1>3, <1>5
  <2>2. QED
    BY <1>1, <2>1, CountedStays
<1>9. QED
  BY <1>4, <1>6, <1>7, <1>8 DEF RunsInv, RunRowsAreTrue

LEMMA FindingsAreRecorded ==
  ASSUME EyeTyped, HandlersHold, RunsInv, NEW p \in Processes, Record(p)
  PROVE  RunsInv'
<1> DEFINE new == {<<task[p].run, f>> : f \in task[p].found}
           k == [task[p] EXCEPT !.left = Tail(task[p].left), !.found = {},
                                !.total = task[p].total + Cardinality(new)]
<1>1. ReviewHolds(p) /\ at[p] \in Reviews \ {"fail"} /\ {"detect", "fail"} \subseteq Reviews
  BY DEF RunsInv, ReviewsHold, Record, Reviews
<1>2. runs' = runs /\ lost' = lost
  BY DEF Record
<1>3. \/ findings' = findings \cup new /\ Hold(p, k) /\ GoOn(p, "detect")
      \/ /\ \/ findings' = findings
            \/ EyeFault("timeout") /\ findings' = findings \cup new
         /\ GoOn(p, "fail") /\ UNCHANGED task
  BY DEF Record
<1>4. PICK r \in RunIds : r = task[p].run
  BY <1>1 DEF HandlersHold, HandlerHolds
<1>5. /\ runs[r] # Nothing /\ runs[r].status = "running"
      /\ \A o \in Processes \ {p} : task[o].run # r
      /\ task[p].left \in Seq(ToSet(Detectors)) /\ task[p].left # <<>>
      /\ IsFiniteSet(task[p].found) /\ task[p].total \in Nat
  BY <1>1, <1>4, ReviewIs DEF Record
<1>6. Cardinality(OfRun(r)) <= task[p].total
  BY <1>1, <1>4 DEF ReviewHolds
<1>7. IsFiniteSet(new) /\ \A f \in new : f[1] = r
  <2> DEFINE g == [f \in task[p].found |-> <<task[p].run, f>>]
  <2>1. new = {g[f] : f \in task[p].found}
    OBVIOUS
  <2>2. \A f \in new : f[1] = r
    BY <1>4
  <2> HIDE DEF new, g
  <2>3. QED
    BY <1>5, <2>1, <2>2, ImageIsFinite
<1> HIDE DEF new
<1>8. CASE GoOn(p, "fail") /\ UNCHANGED task /\ findings' = findings
  <2> DEFINE held == task[p]
  <2>1. Others(p) /\ task'[p] = held /\ at'[p] = "fail"
    BY <1>8, TurnIs
  <2>2. QED
    BY <1>1, <1>2, <1>5, <1>8, <2>1, ReviewLooks
<1>9. CASE GoOn(p, "fail") /\ UNCHANGED task /\ EyeFault("timeout") /\ findings' = findings \cup new
  <2>1. Others(p) /\ task'[p] = task[p] /\ at'[p] = "fail"
    BY <1>9, TurnIs
  <2>2. \A o \in Processes \ {p} : task'[o].run # r
    BY <1>5, <2>1 DEF Others
  <2>3. ReviewHolds(p)'
    <3>1. task'[p].run = r /\ runs'[r] # Nothing /\ runs'[r].status = "running"
          /\ task'[p].left \in Seq(ToSet(Detectors)) /\ IsFiniteSet(task'[p].found)
          /\ task'[p].total \in Nat
      BY <1>2, <1>4, <1>5, <2>1
    <3>2. at'[p] = "fail" /\ EyeFault("timeout")
      BY <1>9, <2>1
    <3>3. QED
      BY <2>2, <3>1, <3>2, ReviewIs
  <2>4. QED
    BY <1>1, <1>2, <1>4, <1>7, <1>9, <2>1, <2>3, FindingsArrive
<1>10. CASE findings' = findings \cup new /\ Hold(p, k) /\ GoOn(p, "detect")
  <2> DEFINE held == task[p]
             sum == held.total + Cardinality(new)
  <2>1. Others(p) /\ task'[p] = k /\ at'[p] = "detect"
    BY <1>10, TurnIs
  <2>2. k = [held EXCEPT !.left = Tail(held.left), !.found = {}, !.total = sum]
    OBVIOUS
  <2>3. HasFields(held) /\ held.run = r
    BY <1>4 DEF EyeTyped, IsTask
  <2>4. Tail(held.left) \in Seq(ToSet(Detectors))
    BY <1>5, DetectorsLeft
  <2>5. sum \in Nat /\ sum = task[p].total + Cardinality(new)
    BY <1>5, <1>7, FS_CardinalityType
  <2> HIDE DEF held, sum, k
  <2>6. k = [text |-> held.text, id |-> held.id, rows |-> held.rows, run |-> held.run,
             left |-> Tail(held.left), found |-> {}, total |-> sum]
    BY <2>2, <2>3, FindingsAreTaken
  <2>7. k.run = r /\ k.left \in Seq(ToSet(Detectors)) /\ k.found = {} /\ k.total = sum
    BY <2>3, <2>4, <2>6
  <2>8. \A o \in Processes \ {p} : task'[o].run # r
    BY <1>5, <2>1 DEF Others
  <2>9. Cardinality({f \in findings' : f[1] = r}) <= sum
    <3>1. {f \in findings' : f[1] = r} = OfRun(r) \cup new
      BY <1>7, <1>10 DEF OfRun
    <3>2. IsFiniteSet(OfRun(r)) /\ Cardinality(OfRun(r)) \in Nat
      BY OfRunIsFinite DEF RunsInv
    <3>3. /\ IsFiniteSet(OfRun(r) \cap new) /\ IsFiniteSet(OfRun(r) \cup new)
          /\ Cardinality(OfRun(r) \cup new)
               = Cardinality(OfRun(r)) + Cardinality(new) - Cardinality(OfRun(r) \cap new)
      <4>1. IsFiniteSet(OfRun(r) \cap new)
        BY <1>7, FS_Subset
      <4>2. QED
        BY <1>7, <3>2, <4>1, FS_Union
    <3>4. Cardinality(OfRun(r) \cap new) \in Nat /\ Cardinality(new) \in Nat
      BY <1>7, <3>3, FS_CardinalityType
    <3>5. Cardinality(OfRun(r) \cup new) <= sum
      BY <1>5, <1>6, <2>5, <3>2, <3>3, <3>4
    <3>6. QED
      BY <3>1, <3>5
  <2>10. ReviewHolds(p)'
    <3>1. /\ task'[p].run = r /\ runs'[r] # Nothing /\ runs'[r].status = "running"
          /\ task'[p].left \in Seq(ToSet(Detectors)) /\ IsFiniteSet(task'[p].found)
          /\ task'[p].total = sum
      BY <1>2, <1>5, <2>1, <2>7, FS_EmptySet
    <3>2. QED
      BY <2>1, <2>5, <2>8, <2>9, <3>1, ReviewIs
  <2>11. QED
    BY <1>1, <1>2, <1>4, <1>7, <1>10, <2>1, <2>7, <2>10, FindingsArrive
<1>11. QED
  BY <1>3, <1>8, <1>9, <1>10

\* finalize_run is told of a run by the only handler that has it, whose count
\* is at least what the run has recorded.
LEMMA RunEnds ==
  ASSUME EyeTyped, HandlersHold, RunsInv, NEW p \in Processes, at[p] \in Reviews,
         NEW status \in {"complete", "failed"}, status = "complete" => at[p] = "detect",
         Finalize(p, status), Respond(p), findings' = findings, lost' = lost
  PROVE  RunsInv'
<1>1. RunsTyped /\ ReviewsHold /\ RunningIsAtWork /\ FindingsAreCounted /\ ReviewHolds(p)
  BY DEF RunsInv, RunRowsAreTrue, ReviewsHold
<1>2. PICK r \in RunIds : r = task[p].run
  BY DEF HandlersHold, HandlerHolds
<1> DEFINE row == [status |-> status, count |-> task[p].total]
<1>3. /\ runs[r] # Nothing /\ \A o \in Processes \ {p} : task[o].run # r
      /\ task[p].total \in Nat
      /\ Cardinality(OfRun(r)) <= task[p].total \/ (at[p] = "fail" /\ EyeFault("timeout"))
  BY <1>1, <1>2 DEF ReviewHolds
<1>4. row \in RunRows /\ row # Nothing /\ row.status # "running"
  BY <1>3, ProcessesAssumption DEF RunRows
<1>5. \A o \in RunIds : runs'[o] = IF o = r THEN row ELSE runs[o]
  BY <1>1, <1>2 DEF Finalize, RunsTyped
<1>6. Others(p) /\ task'[p] = NoTask /\ at'[p] = "idle"
  BY TurnIs DEF Respond
<1>7. task'[p].run = Nothing /\ at'[p] \notin Reviews
  BY <1>6, NoTaskIsOne DEF Reviews
<1>8. \A o : OfRun(o)' = OfRun(o)
  BY DEF OfRun
<1>9. row.status = status /\ row.count = task[p].total
  OBVIOUS
<1>10. runs' = [runs EXCEPT ![r] = row]
  BY <1>2 DEF Finalize
<1> HIDE DEF row
<1>11. RunsTyped'
  <2>1. runs' \in [RunIds -> {Nothing} \cup RunRows]
    BY <1>1, <1>4, <1>10 DEF RunsTyped
  <2>2. QED
    BY <1>1, <1>4, <1>5, <2>1 DEF RunsTyped
<1>12. ReviewsHold'
  <2>1. \A o \in RunIds : runs[o] # Nothing /\ task[p].run # o =>
          runs'[o] = runs[o] /\ OfRun(o)' \subseteq OfRun(o)
    BY <1>2, <1>5, <1>8
  <2>2. QED
    BY <1>1, <1>6, <1>7, <2>1, ReviewsStay
<1>13. RunningIsAtWork'
  <2>1. \A o \in RunIds \ lost' : runs'[o] # Nothing /\ runs'[o].status = "running" =>
          runs'[o] = runs[o] /\ task[p].run # o
    BY <1>2, <1>4, <1>5
  <2>2. QED
    BY <1>1, <1>6, <2>1, RunningStays
<1>14. FindingsAreCounted'
  <2>1. \/ Cardinality(OfRun(r)') <= row.count
        \/ row.status = "failed" /\ EyeFault("timeout")
    BY <1>3, <1>8, <1>9
  <2>2. \A o \in RunIds : runs'[o] # Nothing /\ runs'[o].status # "running" =>
          \/ runs'[o] = runs[o] /\ OfRun(o)' \subseteq OfRun(o)
          \/ runs'[o].status = "failed" /\ EyeFault("timeout")
          \/ Cardinality(OfRun(o)') <= runs'[o].count
    BY <1>5, <1>8, <2>1
  <2>3. QED
    BY <1>1, <2>2, CountedStays
<1>15. QED
  BY <1>11, <1>12, <1>13, <1>14 DEF RunsInv, RunRowsAreTrue

LEMMA RunIsFinished ==
  ASSUME EyeTyped, HandlersHold, RunsInv, NEW p \in Processes, Complete(p) \/ FailRun(p)
  PROVE  RunsInv'
<1>1. ReviewHolds(p) /\ at[p] \in {"detect", "fail"} /\ at[p] \in Reviews
  BY DEF RunsInv, ReviewsHold, Complete, FailRun, Reviews
<1>2. findings' = findings
  BY DEF Complete, FailRun
<1>3. CASE at[p] = "detect" /\ Finalize(p, "complete") /\ Respond(p) /\ lost' = lost
  BY <1>1, <1>2, <1>3, RunEnds
<1>4. CASE at[p] = "detect" /\ GoOn(p, "fail") /\ UNCHANGED <<runs, task>> /\ lost' = lost
  <2> DEFINE held == task[p]
  <2>1. Others(p) /\ task'[p] = held /\ at'[p] = "fail"
    BY <1>4, TurnIs
  <2>2. held.left \in Seq(ToSet(Detectors)) /\ IsFiniteSet(held.found) /\ "fail" \in Reviews
    BY <1>1, ReviewIs DEF Reviews
  <2>3. QED
    BY <1>1, <1>2, <1>4, <2>1, <2>2, ReviewLooks
<1>5. CASE Finalize(p, "failed") /\ lost' = lost /\ Respond(p)
  BY <1>1, <1>2, <1>5, RunEnds
<1>6. CASE lost' = lost \cup {task[p].run} /\ runs' = runs /\ Respond(p)
  <2>1. Others(p) /\ task'[p] = NoTask /\ at'[p] = "idle"
    BY <1>6, TurnIs DEF Respond
  <2>2. task'[p].run = Nothing /\ at'[p] \notin Reviews
    BY <2>1, NoTaskIsOne DEF Reviews
  <2>3. QED
    BY <1>2, <1>6, <2>1, <2>2, RunsStay
<1>7. QED
  BY <1>3, <1>4, <1>5, <1>6 DEF Complete, FailRun

LEMMA RunsInitially == EyeInit => RunsInv
<1> SUFFICES ASSUME EyeInit PROVE RunsInv
  OBVIOUS
<1>1. /\ runs = [r \in RunIds |-> Nothing] /\ findings = {}
      /\ at = [p \in Processes |-> "idle"]
  BY DEF EyeInit
<1>2. RunsTyped
  BY <1>1, FS_EmptySet DEF RunsTyped
<1>3. ReviewsHold /\ RunRowsAreTrue
  BY <1>1 DEF ReviewsHold, Reviews, RunRowsAreTrue, RunningIsAtWork, FindingsAreCounted
<1>4. QED
  BY <1>2, <1>3 DEF RunsInv

LEMMA RunsStep == IngestInv /\ IngestInv' /\ RunsInv /\ [EyeNext]_eyeVars => RunsInv'
<1> SUFFICES ASSUME IngestInv, IngestInv', RunsInv, [EyeNext]_eyeVars PROVE RunsInv'
  OBVIOUS
<1>1. EyeTyped /\ HandlersHold
  BY DEF IngestInv
<1>2. CASE UNCHANGED eyeVars
  <2>1. runs' = runs /\ findings' = findings /\ lost' = lost /\ at' = at /\ task' = task
    BY <1>2 DEF eyeVars, reviews, handlers
  <2>2. \A r : OfRun(r)' = OfRun(r)
    BY <2>1 DEF OfRun
  <2>3. RunsTyped' /\ RunRowsAreTrue'
    BY <2>1, <2>2 DEF RunsInv, RunsTyped, RunRowsAreTrue, RunningIsAtWork, FindingsAreCounted
  <2>4. ASSUME NEW p \in Processes, at'[p] \in Reviews PROVE ReviewHolds(p)'
    BY <2>1, <2>4, ReviewIs DEF RunsInv, ReviewsHold
  <2>5. QED
    BY <2>3, <2>4 DEF RunsInv, ReviewsHold
<1>3. ASSUME NEW p \in Processes, Handler(p) PROVE RunsInv'
  <2>1. CASE \/ \E t \in Texts : IngestBegin(p, t)
             \/ \E i \in Ids : PurgeFindings(p, i) \/ InsertDocument(p, i)
             \/ PurgeRow(p) \/ InsertChunks(p)
    BY <2>1, IngestLeavesRuns
  <2>2. CASE \E r \in RunIds : CreateRun(p, r)
    BY <2>2, RunIsCreated
  <2>3. CASE CountDocuments(p)
    BY <1>1, <2>3, DocumentsAreCounted
  <2>4. CASE Look(p)
    BY <1>1, <2>4, DetectorLooks
  <2>5. CASE Record(p)
    BY <1>1, <2>5, FindingsAreRecorded
  <2>6. CASE Complete(p) \/ FailRun(p)
    BY <1>1, <2>6, RunIsFinished
  <2>7. CASE Stop(p)
    BY <2>7, StopLeavesRuns
  <2>8. QED
    BY <1>3, <2>1, <2>2, <2>3, <2>4, <2>5, <2>6, <2>7 DEF Handler
<1>4. QED
  BY <1>2, <1>3 DEF EyeNext

LEMMA RunsAlways == EyeSpec => []RunsInv
  BY RunsInitially, RunsStep, IngestAlways, PTL DEF EyeSpec

(***************************************************************************)
(* What the status and the count of a run say is so, for any number of     *)
(* processes, runs and findings, whatever fails: a run that says "running" *)
(* has a handler, unless it was left to itself; and one that ended has no  *)
(* more findings than it says, unless an insert was reported as failed     *)
(* (orchestrator.py, run_bird_eye).                                        *)
(***************************************************************************)
THEOREM RunRowsAreTrueAlways == EyeSpec => []RunRowsAreTrue
<1>1. RunsInv => RunRowsAreTrue
  BY DEF RunsInv
<1>2. QED
  BY <1>1, RunsAlways, PTL

\* What a run has reported of the library, when the library stayed as it was
\* since the run began: FreshInv says that the detectors that have run are
\* reported on, so that nothing is missed when all of them have.
TwinsAreReported(found) ==
  \A c \in Compared : HasTwin(c) => \E f \in found : f.kind = "duplicate" /\ c \in f.about

ConflictsAreReported(found) ==
  \A i, j \in Read, key \in Keys :
    i # j /\ Disagree(i, j, key) =>
      \E f \in found :
        /\ f.kind = "conflict"
        /\ f.about = IF key \in LockoutKeys THEN "lockout" ELSE key
        /\ key \in LockoutKeys \/ f.primary # f.related

Reported(r) == {f[2] : f \in OfRun(r)}

\* The detectors before the k-th have run and what they found is recorded.
HasRun(p, k) ==
  LET r == task[p].run IN
  /\ task[p].left = SubSeq(Detectors, k, Len(Detectors))
  /\ k > 1 => TwinsAreReported(Reported(r))
  /\ k > 2 => ConflictsAreReported(Reported(r))
  /\ at[p] = "record" => /\ k <= Len(Detectors)
                         /\ k = 1 => TwinsAreReported(task[p].found)
                         /\ k = 2 => ConflictsAreReported(task[p].found)

FreshInv ==
  /\ fresh \subseteq RunIds
  /\ \A r \in fresh :
       /\ runs[r] # Nothing
       /\ runs[r].status = "complete" =>
            TwinsAreReported(Reported(r)) /\ ConflictsAreReported(Reported(r))
  /\ \A p \in Processes :
       task[p].run \in fresh /\ at[p] \in {"detect", "record"} =>
         \E k \in 1..(Len(Detectors) + 1) : HasRun(p, k)

\* A set of naturals has a least member.
LEMMA SetsHaveLeast ==
  ASSUME NEW S, S \subseteq Nat, S # {}
  PROVE  \E k \in S : \A j \in S : k <= j
<1>1. \E k \in S : \A j \in S : ~(<<j, k>> \in OpToRel(<, Nat))
  BY NatLessThanWellFounded, WFMin
<1>2. PICK k \in S : \A j \in S : ~(<<j, k>> \in OpToRel(<, Nat))
  BY <1>1
<1>3. ASSUME NEW j \in S PROVE k <= j
  <2>1. <<j, k>> \in Nat \X Nat
    OBVIOUS
  <2>2. ~(j < k)
    BY <1>2, <2>1 DEF OpToRel
  <2>3. QED
    BY <2>2
<1>4. QED
  BY <1>3

\* All chunks that are compared are among the rows, in any order.
LEMMA RowsAreCompared ==
  ASSUME NEW rows \in SetToSeqs(Compared), NEW c \in Compared
  PROVE  /\ DOMAIN rows \subseteq Nat
         /\ \E k \in DOMAIN rows : rows[k] = c
<1> DEFINE places == 1..Cardinality(Compared)
<1>1. IsFiniteSet(Compared) /\ Cardinality(Compared) \in Nat
  BY ComparedIsFinite, FS_CardinalityType
<1>2. rows \in [places -> Compared] /\ \A i, j \in places : i # j => rows[i] # rows[j]
  BY DEF SetToSeqs
<1>3. rows \in Injection(places, Compared)
  BY <1>2 DEF Injection, IsInjective
<1>4. IsFiniteSet(places) /\ Cardinality(places) = Cardinality(Compared)
  BY <1>1, FS_Interval
<1>5. places \subseteq Nat
  BY <1>1
<1> HIDE DEF places
<1>6. rows \in Surjection(places, Compared)
  BY <1>1, <1>3, <1>4, FS_Injection
<1>7. QED
  BY <1>2, <1>5, <1>6 DEF Surjection

\* A chunk with a twin is in the first pair that its pair equals.
LEMMA DuplicatesReportTwins ==
  ASSUME NEW rows \in SetToSeqs(Compared)
  PROVE  TwinsAreReported(Duplicates(rows))
<1> SUFFICES ASSUME NEW c \in Compared, HasTwin(c)
             PROVE  \E f \in Duplicates(rows) : f.kind = "duplicate" /\ c \in f.about
  BY DEF TwinsAreReported
<1> DEFINE Pair(k) == {rows[k], Best(rows, rows[k])}
           twinned == {k \in DOMAIN rows : Twins(rows[k]) # {}}
           first == {k \in twinned : \A j \in twinned : j < k => Pair(j) # Pair(k)}
<1>1. PICK k \in DOMAIN rows : rows[k] = c
  BY RowsAreCompared
<1>2. k \in twinned
  BY <1>1 DEF HasTwin, Twins, Alike
<1> DEFINE same == {j \in twinned : Pair(j) = Pair(k)}
<1>3. same \subseteq Nat /\ same # {}
  BY <1>2, RowsAreCompared
<1>4. PICK m \in same : \A j \in same : m <= j
  BY <1>3, SetsHaveLeast
<1>5. m \in first
  <2>1. ASSUME NEW j \in twinned, j < m PROVE Pair(j) # Pair(m)
    <3>1. j \in Nat /\ m \in Nat
      BY <1>3, <2>1, RowsAreCompared
    <3>2. j \notin same
      BY <1>4, <2>1, <3>1
    <3>3. QED
      BY <2>1, <3>2
  <2>2. QED
    BY <2>1
<1> DEFINE f == Finding("duplicate", Pair(m), rows[m][1], Best(rows, rows[m])[1])
<1>6. f \in Duplicates(rows)
  BY <1>5 DEF Duplicates
<1>7. f.kind = "duplicate" /\ f.about = Pair(m)
  BY DEF Finding
<1>8. c \in Pair(m)
  BY <1>1, <1>4
<1>9. QED
  BY <1>6, <1>7, <1>8

\* Of a conflict is named what two documents are at odds about.
LEMMA NamedAreAtOdds ==
  ASSUME NEW key, NEW v \in Values(key), NEW w \in Values(key), v # w,
         Says(key, v) # Says(key, w), NEW n \in NamedPairs(key)
  PROVE  n[1] # n[2]
<1> DEFINE pairs == {p \in Values(key) \X Values(key) : p[1] # p[2]}
           top == {p \in pairs : \A q \in pairs :
                     ~RanksAbove(Rank(key, q[1], q[2]), Rank(key, p[1], p[2]))}
<1>1. PICK p \in top : n \in Pick(Says(key, p[1]), Says(key, p[2])) \X
                             Pick(Says(key, p[2]), Says(key, p[1]))
  BY DEF NamedPairs
<1>2. Says(key, p[1]) # Says(key, p[2])
  <2>1. <<v, w>> \in pairs
    OBVIOUS
  <2>2. ~RanksAbove(Rank(key, v, w), Rank(key, p[1], p[2]))
    BY <2>1
  <2>3. QED
    BY <2>2 DEF RanksAbove, Rank
<1>3. \A S, T : S # T => Pick(S, T) \cap Pick(T, S) = {}
  BY DEF Pick
<1>4. QED
  BY <1>1, <1>2, <1>3

LEMMA DisagreementIsConflict ==
  ASSUME NEW i \in Read, NEW j \in Read, NEW key \in Keys, Disagree(i, j, key)
  PROVE  /\ key \in InConflict
         /\ \E v, w \in Values(key) : v # w /\ Says(key, v) # Says(key, w)
<1>1. PICK r \in Requires(i), s \in Requires(j) :
        r[1] = key /\ s[1] = key /\ r[2] # s[2] /\ Says(key, r[2]) # Says(key, s[2])
  BY DEF Disagree
<1>2. r[2] \in Values(key) /\ s[2] \in Values(key)
  BY <1>1 DEF Values
<1>3. Cardinality({r[2], s[2]}) = 2
  <2>1. Cardinality({r[2]}) = 1 /\ IsFiniteSet({r[2]})
    BY FS_Singleton
  <2>2. Cardinality({r[2]} \cup {s[2]}) = 2
    BY <1>1, <2>1, FS_AddElement
  <2>3. {r[2]} \cup {s[2]} = {r[2], s[2]}
    OBVIOUS
  <2>4. QED
    BY <2>2, <2>3
<1>4. IsFiniteSet(Values(key)) /\ Cardinality(Values(key)) \in Nat
  BY ValuesAreFinite, FS_CardinalityType
<1>5. Cardinality(Values(key)) >= 2
  <2>1. {r[2], s[2]} \subseteq Values(key)
    BY <1>2
  <2>2. Cardinality({r[2], s[2]}) <= Cardinality(Values(key))
    BY <1>4, <2>1, FS_Subset
  <2>3. QED
    BY <1>3, <1>4, <2>2
<1>6. QED
  BY <1>1, <1>2, <1>5 DEF InConflict

LEMMA OneIsInBoth ==
  ASSUME NEW S, NEW T, Cardinality(S \cap T) = 1
  PROVE  \E x \in S : x \in T
<1>1. CASE S \cap T = {}
  BY <1>1, FS_EmptySet
<1>2. CASE S \cap T # {}
  BY <1>2
<1>3. QED
  BY <1>1, <1>2

LEMMA ConflictsReportDisagreements ==
  ASSUME NEW found \in Conflicts
  PROVE  ConflictsAreReported(found)
<1> SUFFICES ASSUME NEW i \in Read, NEW j \in Read, NEW key \in Keys, Disagree(i, j, key)
             PROVE  \E f \in found :
                      /\ f.kind = "conflict"
                      /\ f.about = IF key \in LockoutKeys THEN "lockout" ELSE key
                      /\ key \in LockoutKeys \/ f.primary # f.related
  BY DEF ConflictsAreReported
<1> DEFINE plain == InConflict \ LockoutKeys
           lockout == InConflict \cap LockoutKeys
           Of(k) == {Finding("conflict", k, n[1], n[2]) : n \in NamedPairs(k)}
           family == {Finding("conflict", "lockout", n[1], n[2]) :
                        n \in UNION {NamedForLockout(k) : k \in lockout}}
           choices == {Of(k) : k \in plain} \cup (IF lockout = {} THEN {} ELSE {family})
<1>1. \A choice \in choices : Cardinality(found \cap choice) = 1
  BY DEF Conflicts
<1>2. key \in InConflict /\ \E v, w \in Values(key) : v # w /\ Says(key, v) # Says(key, w)
  BY DisagreementIsConflict
<1>3. ASSUME NEW choice \in choices PROVE \E f \in found : f \in choice
  BY <1>1, OneIsInBoth
<1>4. CASE key \in LockoutKeys
  <2>1. family \in choices
    BY <1>2, <1>4
  <2>2. PICK f \in found : f \in family
    BY <1>3, <2>1
  <2>3. f.kind = "conflict" /\ f.about = "lockout"
    BY <2>2 DEF Finding
  <2>4. QED
    BY <1>4, <2>3
<1>5. CASE key \notin LockoutKeys
  <2>1. Of(key) \in choices
    BY <1>2, <1>5
  <2>2. PICK f \in found : f \in Of(key)
    BY <1>3, <2>1
  <2>3. PICK n \in NamedPairs(key) : f = Finding("conflict", key, n[1], n[2])
    BY <2>2
  <2>4. n[1] # n[2]
    BY <1>2, NamedAreAtOdds
  <2>5. f.kind = "conflict" /\ f.about = key /\ f.primary = n[1] /\ f.related = n[2]
    BY <2>3 DEF Finding
  <2>6. QED
    BY <1>5, <2>4, <2>5
<1>6. QED
  BY <1>4, <1>5

LEMMA FoundTellsAll ==
  ASSUME NEW k, NEW found \in Found(Detectors[k])
  PROVE  (k = 1 => TwinsAreReported(found)) /\ (k = 2 => ConflictsAreReported(found))
<1>1. CASE k = 1
  <2>1. Detectors[k] = "duplicates"
    BY <1>1 DEF Detectors
  <2>2. PICK rows \in SetToSeqs(Compared) : found = Duplicates(rows)
    BY <2>1 DEF Found
  <2>3. QED
    BY <1>1, <2>2, DuplicatesReportTwins
<1>2. CASE k = 2
  <2>1. Detectors[k] = "conflicts"
    BY <1>2 DEF Detectors
  <2>2. found \in Conflicts
    BY <2>1 DEF Found
  <2>3. QED
    BY <1>2, <2>2, ConflictsReportDisagreements
<1>3. QED
  BY <1>1, <1>2

\* What a library says is said while it stays.
LEMMA LibraryStays ==
  ASSUME policies' = policies, chunks' = chunks
  PROVE  /\ Compared' = Compared /\ Read' = Read /\ Keys' = Keys
         /\ \A c : HasTwin(c)' <=> HasTwin(c)
         /\ \A i, j, key : Disagree(i, j, key)' <=> Disagree(i, j, key)
<1>1. Live' = Live /\ \A i : Document(i)' = Document(i)
  BY DEF Live, Document
<1>2. Read' = Read /\ \A i : Requires(i)' = Requires(i)
  BY <1>1 DEF Read, Requires
<1>3. Compared' = Compared /\ Keys' = Keys
  BY <1>1, <1>2 DEF Compared, Keys
<1>4. \A key, value : Says(key, value)' = Says(key, value)
  BY <1>2 DEF Says
<1>5. QED
  BY <1>2, <1>3, <1>4 DEF HasTwin, Disagree

LEMMA ReportsStay ==
  ASSUME policies' = policies, chunks' = chunks, NEW r, NEW found, found \subseteq Reported(r)'
  PROVE  /\ TwinsAreReported(found) => TwinsAreReported(Reported(r))'
         /\ ConflictsAreReported(found) => ConflictsAreReported(Reported(r))'
<1>1. /\ Compared' = Compared /\ Read' = Read /\ Keys' = Keys
      /\ \A c : HasTwin(c)' <=> HasTwin(c)
      /\ \A i, j, key : Disagree(i, j, key)' <=> Disagree(i, j, key)
  BY LibraryStays
<1>2. TwinsAreReported(found) => TwinsAreReported(Reported(r))'
  BY <1>1 DEF TwinsAreReported
<1>3. ConflictsAreReported(found) => ConflictsAreReported(Reported(r))'
  BY <1>1 DEF ConflictsAreReported
<1>4. QED
  BY <1>2, <1>3

LEMMA FoundStays ==
  ASSUME policies' = policies, chunks' = chunks, NEW p, NEW found, task'[p].found = found
  PROVE  /\ TwinsAreReported(found) => TwinsAreReported(task[p].found)'
         /\ ConflictsAreReported(found) => ConflictsAreReported(task[p].found)'
<1>1. /\ Compared' = Compared /\ Read' = Read /\ Keys' = Keys
      /\ \A c : HasTwin(c)' <=> HasTwin(c)
      /\ \A i, j, key : Disagree(i, j, key)' <=> Disagree(i, j, key)
  BY LibraryStays
<1>2. TwinsAreReported(found) => TwinsAreReported(task[p].found)'
  BY <1>1 DEF TwinsAreReported
<1>3. ConflictsAreReported(found) => ConflictsAreReported(task[p].found)'
  BY <1>1 DEF ConflictsAreReported
<1>4. QED
  BY <1>2, <1>3

LEMMA DetectorsGoOn ==
  ASSUME NEW k \in 1..(Len(Detectors) + 1), NEW left,
         left = SubSeq(Detectors, k, Len(Detectors))
  PROVE  /\ Len(Detectors) = 5
         /\ left # <<>> => /\ k <= 5 /\ Head(left) = Detectors[k]
                          /\ Tail(left) = SubSeq(Detectors, k + 1, Len(Detectors))
         /\ left = <<>> => k = 6
         /\ SubSeq(Detectors, 1, Len(Detectors)) = Detectors
<1>1. Len(Detectors) = 5 /\ Detectors \in Seq(ToSet(Detectors))
  BY DEF Detectors, ToSet
<1>2. SubSeq(Detectors, 1, Len(Detectors)) = Detectors
  BY <1>1, SubSeqFull
<1>3. Len(left) = 6 - k
  BY <1>1
<1>4. CASE k = 6
  BY <1>1, <1>2, <1>3, <1>4
<1>5. CASE k \in 1..5
  <2>1. left # <<>> /\ Head(left) = Detectors[k]
    BY <1>1, <1>3, <1>5
  <2>2. Tail(left) = SubSeq(Detectors, k + 1, Len(Detectors))
    BY <1>1, <1>3, <1>5
  <2>3. QED
    BY <1>1, <1>2, <1>5, <2>1, <2>2
<1>6. QED
  BY <1>1, <1>4, <1>5

LEMMA HasRunIs ==
  ASSUME NEW p, NEW k, NEW r, task'[p].run = r, task[p].run = r
  PROVE  /\ HasRun(p, k) <=>
              /\ task[p].left = SubSeq(Detectors, k, Len(Detectors))
              /\ k > 1 => TwinsAreReported(Reported(r))
              /\ k > 2 => ConflictsAreReported(Reported(r))
              /\ at[p] = "record" => /\ k <= Len(Detectors)
                                     /\ k = 1 => TwinsAreReported(task[p].found)
                                     /\ k = 2 => ConflictsAreReported(task[p].found)
         /\ HasRun(p, k)' <=>
              /\ task'[p].left = SubSeq(Detectors, k, Len(Detectors))
              /\ k > 1 => TwinsAreReported(Reported(r))'
              /\ k > 2 => ConflictsAreReported(Reported(r))'
              /\ at'[p] = "record" => /\ k <= Len(Detectors)
                                      /\ k = 1 => TwinsAreReported(task[p].found)'
                                      /\ k = 2 => ConflictsAreReported(task[p].found)'
<1>1. Detectors' = Detectors
  BY DEF Detectors
<1>2. QED
  BY <1>1 DEF HasRun, TwinsAreReported, ConflictsAreReported, Reported, OfRun

LEMMA HasRunStays ==
  ASSUME policies' = policies, chunks' = chunks, \A r : Reported(r) \subseteq Reported(r)',
         NEW q, at'[q] = at[q], task'[q] = task[q],
         NEW k \in 1..(Len(Detectors) + 1), HasRun(q, k)
  PROVE  HasRun(q, k)'
<1>1. PICK r : r = task[q].run
  OBVIOUS
<1>2. PICK found : found = task[q].found
  OBVIOUS
<1>3. /\ TwinsAreReported(Reported(r)) => TwinsAreReported(Reported(r))'
      /\ ConflictsAreReported(Reported(r)) => ConflictsAreReported(Reported(r))'
  BY ReportsStay
<1>4. /\ TwinsAreReported(found) => TwinsAreReported(task[q].found)'
      /\ ConflictsAreReported(found) => ConflictsAreReported(task[q].found)'
  BY <1>2, FoundStays
<1>5. QED
  BY <1>1, <1>2, <1>3, <1>4, HasRunIs

\* A run that completed is reported on while the library stays, and so is one
\* that another handler is at.
LEMMA FreshStays ==
  ASSUME FreshInv, NEW p \in Processes, Others(p), policies' = policies, chunks' = chunks,
         findings \subseteq findings', fresh' \subseteq RunIds,
         \A r \in fresh' :
           /\ runs'[r] # Nothing
           /\ runs'[r].status = "complete" =>
                \/ r \in fresh /\ runs'[r] = runs[r]
                \/ TwinsAreReported(Reported(r)) /\ ConflictsAreReported(Reported(r)),
         \A q \in Processes \ {p} :
           at[q] \in {"detect", "record"} /\ task[q].run \in fresh' => task[q].run \in fresh,
         at'[p] \in {"detect", "record"} /\ task'[p].run \in fresh' =>
           \E k \in 1..(Len(Detectors) + 1) : HasRun(p, k)'
  PROVE  FreshInv'
<1>1. \A r : Reported(r) \subseteq Reported(r)'
  BY DEF Reported, OfRun
<1>2. ASSUME NEW r \in fresh', runs'[r].status = "complete"
      PROVE  TwinsAreReported(Reported(r))' /\ ConflictsAreReported(Reported(r))'
  <2>1. TwinsAreReported(Reported(r)) /\ ConflictsAreReported(Reported(r))
    BY <1>2 DEF FreshInv
  <2>2. QED
    BY <1>1, <2>1, ReportsStay
<1>3. ASSUME NEW q \in Processes, at'[q] \in {"detect", "record"}, task'[q].run \in fresh'
      PROVE  \E k \in 1..(Len(Detectors) + 1) : HasRun(q, k)'
  <2>1. CASE q = p
    BY <1>3, <2>1
  <2>2. CASE q # p
    <3>1. at'[q] = at[q] /\ task'[q] = task[q]
      BY <2>2 DEF Others
    <3>2. PICK k \in 1..(Len(Detectors) + 1) : HasRun(q, k)
      BY <1>3, <2>2, <3>1 DEF FreshInv
    <3>3. HasRun(q, k)'
      BY <1>1, <3>1, <3>2, HasRunStays
    <3>4. QED
      BY <3>3
  <2>3. QED
    BY <2>1, <2>2
<1>4. QED
  BY <1>2, <1>3 DEF FreshInv

\* A step at which the library may change makes no claim.
LEMMA NothingIsFresh ==
  ASSUME fresh' = {}
  PROVE  FreshInv'
  BY DEF FreshInv

\* A step of an ingest, or the end of a handler.
LEMMA NoReview ==
  ASSUME FreshInv, NEW p \in Processes, Others(p), policies' = policies, chunks' = chunks,
         findings' = findings, runs' = runs, fresh' = fresh, at'[p] \notin {"detect", "record"}
  PROVE  FreshInv'
  BY FreshStays DEF FreshInv
\* When the k-th detector has run, and what it found is recorded.
LEMMA DetectorHasRun ==
  ASSUME policies' = policies, chunks' = chunks, NEW k \in 1..5, NEW r, NEW found,
         Reported(r) \cup found \subseteq Reported(r)',
         k > 1 => TwinsAreReported(Reported(r)), k > 2 => ConflictsAreReported(Reported(r)),
         k = 1 => TwinsAreReported(found), k = 2 => ConflictsAreReported(found)
  PROVE  /\ TwinsAreReported(Reported(r))'
         /\ k + 1 > 2 => ConflictsAreReported(Reported(r))'
<1>1. PICK before : before = Reported(r)
  OBVIOUS
<1>2. /\ TwinsAreReported(before) => TwinsAreReported(Reported(r))'
      /\ ConflictsAreReported(before) => ConflictsAreReported(Reported(r))'
  BY <1>1, ReportsStay
<1>3. /\ TwinsAreReported(found) => TwinsAreReported(Reported(r))'
      /\ ConflictsAreReported(found) => ConflictsAreReported(Reported(r))'
  BY ReportsStay
<1>4. k = 1 \/ k = 2 \/ k > 2
  OBVIOUS
<1>5. k > 2 => k > 1
  OBVIOUS
<1>6. k = 1 => ~(k + 1 > 2)
  OBVIOUS
<1>7. k = 2 => k > 1
  OBVIOUS
<1>8. QED
  BY <1>1, <1>2, <1>3, <1>4, <1>5, <1>6, <1>7

LEMMA FreshRunIsCreated ==
  ASSUME IngestInv, RunsInv, FreshInv, NEW p \in Processes, NEW r \in RunIds, CreateRun(p, r)
  PROVE  FreshInv'
<1>1. EyeTyped /\ RunsTyped /\ ReviewsHold
  BY DEF IngestInv, RunsInv
<1>2. runs[r] = Nothing /\ findings' = findings /\ policies' = policies /\ chunks' = chunks
  BY DEF CreateRun, texts
<1>3. CASE Respond(p) /\ runs' = runs /\ fresh' = fresh
  <2>1. Others(p) /\ at'[p] = "idle"
    BY <1>1, <1>3, TurnIs DEF Respond
  <2>2. QED
    BY <1>2, <1>3, <2>1, NoReview
<1>4. CASE /\ runs' = [runs EXCEPT ![r] = [status |-> "running", count |-> 0]]
           /\ fresh' = fresh \cup {r} /\ Hold(p, [NoTask EXCEPT !.run = r])
           /\ GoOn(p, "documents")
  <2> DEFINE k == [NoTask EXCEPT !.run = r]
             row == [status |-> "running", count |-> 0]
  <2>1. Others(p) /\ at'[p] = "documents"
    BY <1>1, <1>4, TurnIs
  <2>2. row \in RunRows /\ row.status = "running" /\ row # Nothing
    BY ProcessesAssumption DEF RunRows
  <2>3. runs' = [runs EXCEPT ![r] = row]
    BY <1>4
  <2> HIDE DEF row
  <2>4. \A o \in RunIds : runs'[o] = IF o = r THEN row ELSE runs[o]
    BY <1>1, <2>3 DEF RunsTyped
  <2>5. fresh \subseteq RunIds /\ \A o \in fresh : runs[o] # Nothing
    BY DEF FreshInv
  <2>6. ASSUME NEW q \in Processes \ {p}, at[q] \in {"detect", "record"}, task[q].run \in fresh'
        PROVE  task[q].run \in fresh
    <3>1. ReviewHolds(q)
      BY <1>1, <2>6 DEF ReviewsHold, Reviews
    <3>2. runs[task[q].run] # Nothing
      BY <3>1 DEF ReviewHolds
    <3>3. QED
      BY <1>2, <1>4, <2>6, <3>2
  <2>7. ASSUME NEW o \in fresh'
        PROVE  /\ runs'[o] # Nothing
               /\ runs'[o].status = "complete" => o \in fresh /\ runs'[o] = runs[o]
    BY <1>4, <2>2, <2>4, <2>5, <2>7
  <2>8. fresh' \subseteq RunIds
    BY <1>4, <2>5
  <2>9. QED
    BY <1>2, <2>1, <2>6, <2>7, <2>8, FreshStays
<1>5. QED
  BY <1>3, <1>4 DEF CreateRun

LEMMA FreshReviewBegins ==
  ASSUME EyeTyped, FreshInv, NEW p \in Processes, CountDocuments(p)
  PROVE  FreshInv'
<1>1. /\ runs' = runs /\ findings' = findings /\ fresh' = fresh
      /\ policies' = policies /\ chunks' = chunks
  BY DEF CountDocuments, texts
<1>2. CASE Respond(p)
  <2>1. Others(p) /\ at'[p] = "idle"
    BY <1>2, TurnIs DEF Respond
  <2>2. QED
    BY <1>1, <2>1, NoReview
<1>3. CASE Hold(p, [task[p] EXCEPT !.left = Detectors]) /\ GoOn(p, "detect")
  <2> DEFINE held == task[p]
             k == [held EXCEPT !.left = Detectors]
  <2>1. Others(p) /\ task'[p] = k /\ at'[p] = "detect"
    BY <1>3, TurnIs
  <2>2. HasFields(held)
    BY DEF EyeTyped, IsTask
  <2>3. k.left = Detectors
    BY <2>2, LeftIsTaken
  <2> HIDE DEF held, k
  <2>4. task'[p].left = SubSeq(Detectors, 1, Len(Detectors)) /\ 1 \in 1..(Len(Detectors) + 1)
    <3>1. Len(Detectors) = 5
      BY DEF Detectors
    <3>2. Detectors \in Seq(ToSet(Detectors))
      BY DEF Detectors, ToSet
    <3>3. QED
      BY <2>1, <2>3, <3>1, <3>2, SubSeqFull
  <2>5. HasRun(p, 1)'
    <3>1. Detectors' = Detectors /\ ~(1 > 1) /\ ~(1 > 2) /\ at'[p] # "record"
      BY <2>1 DEF Detectors
    <3>2. QED
      BY <2>4, <3>1 DEF HasRun
  <2>6. QED
    BY <1>1, <2>1, <2>4, <2>5, FreshStays DEF FreshInv
<1>4. QED
  BY <1>2, <1>3 DEF CountDocuments

LEMMA FreshDetectorLooks ==
  ASSUME EyeTyped, FreshInv, NEW p \in Processes, Look(p)
  PROVE  FreshInv'
<1>1. /\ runs' = runs /\ findings' = findings /\ fresh' = fresh
      /\ policies' = policies /\ chunks' = chunks /\ at[p] = "detect" /\ task[p].left # <<>>
  BY DEF Look, texts, reviews
<1> DEFINE held == task[p]
<1>2. HasFields(held)
  BY DEF EyeTyped, IsTask
<1>3. PICK r : r = task[p].run
  OBVIOUS
<1>4. Reported(r)' = Reported(r)
  BY <1>1 DEF Reported, OfRun
<1>5. ASSUME NEW k \in 1..(Len(Detectors) + 1), HasRun(p, k)
      PROVE  /\ k \in 1..5 /\ k + 1 \in 1..(Len(Detectors) + 1)
             /\ Head(task[p].left) = Detectors[k]
             /\ Tail(task[p].left) = SubSeq(Detectors, k + 1, Len(Detectors))
             /\ task[p].left = SubSeq(Detectors, k, Len(Detectors)) /\ Len(Detectors) = 5
             /\ k > 1 => TwinsAreReported(Reported(r))
             /\ k > 2 => ConflictsAreReported(Reported(r))
  <2>1. /\ task[p].left = SubSeq(Detectors, k, Len(Detectors))
        /\ k > 1 => TwinsAreReported(Reported(r))
        /\ k > 2 => ConflictsAreReported(Reported(r))
    BY <1>3, <1>5 DEF HasRun
  <2>2. /\ Len(Detectors) = 5 /\ k <= 5 /\ Head(task[p].left) = Detectors[k]
        /\ Tail(task[p].left) = SubSeq(Detectors, k + 1, Len(Detectors))
    BY <1>1, <1>5, <2>1, DetectorsGoOn
  <2>3. k \in 1..5 /\ k + 1 \in 1..(Len(Detectors) + 1)
    BY <2>2
  <2>4. QED
    BY <2>1, <2>2, <2>3
<1>6. CASE GoOn(p, "fail") /\ UNCHANGED task
  <2>1. Others(p) /\ at'[p] = "fail"
    BY <1>6, TurnIs
  <2>2. QED
    BY <1>1, <2>1, NoReview
<1>7. CASE /\ {} \in Found(Head(task[p].left))
           /\ Hold(p, [task[p] EXCEPT !.left = Tail(@)]) /\ UNCHANGED at
  <2> DEFINE l == [held EXCEPT !.left = Tail(held.left)]
  <2>1. Others(p) /\ task'[p] = l /\ at'[p] = "detect"
    BY <1>1, <1>7, TurnIs
  <2>2. l.left = Tail(held.left) /\ l.run = held.run
    BY <1>2, LeftIsTaken
  <2>3. task'[p].left = Tail(task[p].left) /\ task'[p].run = r
    BY <1>3, <2>1, <2>2
  <2> HIDE DEF held, l
  <2>4. ASSUME r \in fresh
        PROVE  \E k \in 1..(Len(Detectors) + 1) : HasRun(p, k)'
    <3>1. PICK k \in 1..(Len(Detectors) + 1) : HasRun(p, k)
      BY <1>1, <1>3, <2>4 DEF FreshInv
    <3>2. /\ k \in 1..5 /\ k + 1 \in 1..(Len(Detectors) + 1) /\ Head(task[p].left) = Detectors[k]
          /\ Tail(task[p].left) = SubSeq(Detectors, k + 1, Len(Detectors))
          /\ k > 1 => TwinsAreReported(Reported(r))
          /\ k > 2 => ConflictsAreReported(Reported(r))
      BY <1>5, <3>1
    <3>3. (k = 1 => TwinsAreReported({})) /\ (k = 2 => ConflictsAreReported({}))
      BY <1>7, <3>2, FoundTellsAll
    <3>4. /\ TwinsAreReported(Reported(r))'
          /\ k + 1 > 2 => ConflictsAreReported(Reported(r))'
      BY <1>1, <1>4, <3>2, <3>3, DetectorHasRun
    <3>5. HasRun(p, k + 1)'
      BY <1>3, <2>1, <2>3, <3>2, <3>4, HasRunIs
    <3>6. QED
      BY <3>2, <3>5
  <2>5. QED
    BY <1>1, <2>1, <2>3, <2>4, FreshStays DEF FreshInv
<1>8. ASSUME NEW found \in Found(Head(task[p].left)),
             Hold(p, [task[p] EXCEPT !.found = found]), GoOn(p, "record")
      PROVE  FreshInv'
  <2> DEFINE l == [held EXCEPT !.found = found]
  <2>1. Others(p) /\ task'[p] = l /\ at'[p] = "record"
    BY <1>8, TurnIs
  <2>2. l.left = held.left /\ l.run = held.run /\ l.found = found
    BY <1>2, FoundIsTaken
  <2>3. task'[p].left = task[p].left /\ task'[p].run = r /\ task'[p].found = found
    BY <1>3, <2>1, <2>2
  <2> HIDE DEF held, l
  <2>4. ASSUME r \in fresh
        PROVE  \E k \in 1..(Len(Detectors) + 1) : HasRun(p, k)'
    <3>1. PICK k \in 1..(Len(Detectors) + 1) : HasRun(p, k)
      BY <1>1, <1>3, <2>4 DEF FreshInv
    <3>2. /\ k \in 1..5 /\ Head(task[p].left) = Detectors[k] /\ Len(Detectors) = 5
          /\ task[p].left = SubSeq(Detectors, k, Len(Detectors))
          /\ k > 1 => TwinsAreReported(Reported(r))
          /\ k > 2 => ConflictsAreReported(Reported(r))
      BY <1>5, <3>1
    <3>3. (k = 1 => TwinsAreReported(found)) /\ (k = 2 => ConflictsAreReported(found))
      BY <1>8, <3>2, FoundTellsAll
    <3>4. /\ k = 1 => TwinsAreReported(task[p].found)'
          /\ k = 2 => ConflictsAreReported(task[p].found)'
      BY <1>1, <2>3, <3>3, FoundStays
    <3>5. PICK before : before = Reported(r)
      OBVIOUS
    <3>6. /\ k > 1 => TwinsAreReported(Reported(r))'
          /\ k > 2 => ConflictsAreReported(Reported(r))'
      BY <1>1, <1>4, <3>2, <3>5, ReportsStay
    <3>7. k <= Len(Detectors)
      BY <3>2
    <3>8. HasRun(p, k)'
      BY <1>3, <2>1, <2>3, <3>2, <3>4, <3>6, <3>7, HasRunIs
    <3>9. QED
      BY <3>1, <3>8
  <2>5. QED
    BY <1>1, <2>1, <2>3, <2>4, FreshStays DEF FreshInv
<1>9. QED
  BY <1>6, <1>7, <1>8 DEF Look

LEMMA FreshFindingsAreRecorded ==
  ASSUME EyeTyped, ReviewsHold, FreshInv, NEW p \in Processes, Record(p)
  PROVE  FreshInv'
<1> DEFINE new == {<<task[p].run, f>> : f \in task[p].found}
           l == [task[p] EXCEPT !.left = Tail(task[p].left), !.found = {},
                                !.total = task[p].total + Cardinality(new)]
<1>1. /\ runs' = runs /\ fresh' = fresh /\ policies' = policies /\ chunks' = chunks
      /\ at[p] = "record" /\ findings \subseteq findings'
  BY DEF Record, texts
<1>2. /\ task[p].left # <<>>
      /\ \/ GoOn(p, "fail") /\ UNCHANGED task
         \/ findings' = findings \cup new /\ Hold(p, l) /\ GoOn(p, "detect")
  <2>1. ReviewHolds(p)
    BY <1>1 DEF ReviewsHold, Reviews
  <2>2. task[p].left # <<>>
    BY <1>1, <2>1 DEF ReviewHolds
  <2>3. QED
    BY <2>2 DEF Record
<1>3. PICK r : r = task[p].run
  OBVIOUS
<1>4. PICK found : found = task[p].found
  OBVIOUS
<1>5. CASE GoOn(p, "fail") /\ UNCHANGED task
  <2>1. Others(p) /\ at'[p] = "fail"
    BY <1>5, TurnIs
  <2>2. QED
    BY <1>1, <2>1, FreshStays DEF FreshInv
<1>6. CASE findings' = findings \cup new /\ Hold(p, l) /\ GoOn(p, "detect")
  <2> DEFINE held == task[p]
             total == task[p].total + Cardinality(new)
  <2>1. Others(p) /\ task'[p] = l /\ at'[p] = "detect"
    BY <1>6, TurnIs
  <2>2. l = [held EXCEPT !.left = Tail(held.left), !.found = {}, !.total = total]
    OBVIOUS
  <2>3. HasFields(held)
    BY DEF EyeTyped, IsTask
  <2>4. Reported(r) \cup found \subseteq Reported(r)'
    <3>1. Reported(r) \subseteq Reported(r)'
      BY <1>1 DEF Reported, OfRun
    <3>2. ASSUME NEW f \in found PROVE f \in Reported(r)'
      <4>1. <<r, f>> \in findings'
        BY <1>3, <1>4, <1>6
      <4>2. \E g \in findings' : g[1] = r /\ g[2] = f
        BY <4>1
      <4>3. QED
        BY <4>2 DEF Reported, OfRun
    <3>3. QED
      BY <3>1, <3>2
  <2>5. held = task[p]
    OBVIOUS
  <2> HIDE DEF held, total, l
  <2>6. l.left = Tail(held.left) /\ l.run = held.run
    BY <2>2, <2>3, FindingsAreTaken
  <2>7. task'[p].left = Tail(task[p].left) /\ task'[p].run = r
    BY <1>3, <2>1, <2>5, <2>6
  <2>8. ASSUME r \in fresh
        PROVE  \E k \in 1..(Len(Detectors) + 1) : HasRun(p, k)'
    <3>1. PICK k \in 1..(Len(Detectors) + 1) : HasRun(p, k)
      BY <1>1, <1>3, <2>8 DEF FreshInv
    <3>2. /\ task[p].left = SubSeq(Detectors, k, Len(Detectors))
          /\ k > 1 => TwinsAreReported(Reported(r))
          /\ k > 2 => ConflictsAreReported(Reported(r))
          /\ k = 1 => TwinsAreReported(found)
          /\ k = 2 => ConflictsAreReported(found)
      BY <1>1, <1>3, <1>4, <3>1 DEF HasRun
    <3>3. /\ Len(Detectors) = 5 /\ k <= 5
          /\ Tail(task[p].left) = SubSeq(Detectors, k + 1, Len(Detectors))
      BY <1>2, <3>2, DetectorsGoOn
    <3>4. k \in 1..5 /\ k + 1 \in 1..(Len(Detectors) + 1) /\ k + 1 > 1
      BY <3>3
    <3>5. /\ TwinsAreReported(Reported(r))'
          /\ k + 1 > 2 => ConflictsAreReported(Reported(r))'
      BY <1>1, <2>4, <3>2, <3>4, DetectorHasRun
    <3>6. HasRun(p, k + 1)'
      BY <1>3, <2>1, <2>7, <3>3, <3>5, HasRunIs
    <3>7. QED
      BY <3>4, <3>6
  <2>9. QED
    BY <1>1, <2>1, <2>7, <2>8, FreshStays DEF FreshInv
<1>7. QED
  BY <1>2, <1>5, <1>6

LEMMA FreshRunIsFinished ==
  ASSUME EyeTyped, HandlersHold, RunsTyped, ReviewsHold, FreshInv, NEW p \in Processes,
         Complete(p) \/ FailRun(p)
  PROVE  FreshInv'
<1>1. /\ findings' = findings /\ fresh' = fresh /\ policies' = policies /\ chunks' = chunks
      /\ at[p] \in {"detect", "fail"} /\ at[p] \in Reviews
  BY DEF Complete, FailRun, texts, Reviews
<1>2. PICK r \in RunIds : r = task[p].run
  BY <1>1 DEF HandlersHold, HandlerHolds
<1>3. ASSUME NEW status \in {"complete", "failed"}, Finalize(p, status), Respond(p),
             status = "complete" => at[p] = "detect" /\ task[p].left = <<>>
      PROVE  FreshInv'
  <2> DEFINE row == [status |-> status, count |-> task[p].total]
  <2>1. Others(p) /\ at'[p] = "idle"
    BY <1>3, TurnIs DEF Respond
  <2>2. row.status = status /\ runs' = [runs EXCEPT ![r] = row]
    BY <1>2, <1>3 DEF Finalize
  <2>3. row # Nothing
    <3>1. task[p].total \in Nat
      BY <1>1 DEF ReviewsHold, ReviewHolds
    <3>2. row \in RunRows
      BY <3>1 DEF RunRows
    <3>3. QED
      BY <3>2, ProcessesAssumption
  <2> HIDE DEF row
  <2>4. \A o \in RunIds : runs'[o] = IF o = r THEN row ELSE runs[o]
    BY <1>2, <2>2 DEF RunsTyped
  <2>5. ASSUME r \in fresh, status = "complete"
        PROVE  TwinsAreReported(Reported(r)) /\ ConflictsAreReported(Reported(r))
    <3>1. PICK k \in 1..(Len(Detectors) + 1) : HasRun(p, k)
      BY <1>2, <1>3, <2>5 DEF FreshInv
    <3>2. /\ task[p].left = SubSeq(Detectors, k, Len(Detectors)) /\ task[p].left = <<>>
          /\ k > 1 => TwinsAreReported(Reported(r))
          /\ k > 2 => ConflictsAreReported(Reported(r))
      BY <1>2, <1>3, <2>5, <3>1 DEF HasRun
    <3>3. k = 6
      BY <3>2, DetectorsGoOn
    <3>4. k > 1 /\ k > 2
      BY <3>3
    <3>5. QED
      BY <3>2, <3>4
  <2>6. fresh \subseteq RunIds /\ \A o \in fresh : runs[o] # Nothing
    BY DEF FreshInv
  <2>7. ASSUME NEW o \in fresh
        PROVE  /\ runs'[o] # Nothing
               /\ runs'[o].status = "complete" =>
                    \/ o \in fresh /\ runs'[o] = runs[o]
                    \/ TwinsAreReported(Reported(o)) /\ ConflictsAreReported(Reported(o))
    <3>1. CASE o = r
      BY <2>2, <2>3, <2>4, <2>5, <2>7, <3>1
    <3>2. CASE o # r
      BY <2>4, <2>6, <2>7, <3>2
    <3>3. QED
      BY <3>1, <3>2
  <2>8. QED
    BY <1>1, <2>1, <2>6, <2>7, FreshStays
<1>4. CASE GoOn(p, "fail") /\ UNCHANGED <<runs, task>>
  <2>1. Others(p) /\ at'[p] = "fail"
    BY <1>4, TurnIs
  <2>2. QED
    BY <1>1, <1>4, <2>1, NoReview
<1>5. CASE runs' = runs /\ Respond(p)
  <2>1. Others(p) /\ at'[p] = "idle"
    BY <1>5, TurnIs DEF Respond
  <2>2. QED
    BY <1>1, <1>5, <2>1, NoReview
<1>6. QED
  BY <1>3, <1>4, <1>5 DEF Complete, FailRun

LEMMA FreshStep ==
  IngestInv /\ RunsInv /\ FreshInv /\ [EyeNext]_eyeVars => FreshInv'
<1> SUFFICES ASSUME IngestInv, RunsInv, FreshInv, [EyeNext]_eyeVars PROVE FreshInv'
  OBVIOUS
<1>1. EyeTyped /\ HandlersHold /\ RunsTyped /\ ReviewsHold
  BY DEF IngestInv, RunsInv
<1>2. CASE UNCHANGED eyeVars
  <2>1. /\ policies' = policies /\ chunks' = chunks /\ runs' = runs /\ findings' = findings
        /\ at' = at /\ task' = task /\ fresh' = fresh
    BY <1>2 DEF eyeVars, texts, reviews, handlers
  <2>2. \A r : Reported(r) \subseteq Reported(r)'
    BY <2>1 DEF Reported, OfRun
  <2>3. ASSUME NEW p \in Processes, task'[p].run \in fresh', at'[p] \in {"detect", "record"}
        PROVE  \E k \in 1..(Len(Detectors) + 1) : HasRun(p, k)'
    <3>1. PICK k \in 1..(Len(Detectors) + 1) : HasRun(p, k)
      BY <2>1, <2>3 DEF FreshInv
    <3>2. QED
      BY <2>1, <2>2, <3>1, HasRunStays
  <2>4. ASSUME NEW r \in fresh', runs'[r].status = "complete"
        PROVE  TwinsAreReported(Reported(r))' /\ ConflictsAreReported(Reported(r))'
    <3>1. TwinsAreReported(Reported(r)) /\ ConflictsAreReported(Reported(r))
      BY <2>1, <2>4 DEF FreshInv
    <3>2. QED
      BY <2>1, <2>2, <3>1, ReportsStay
  <2>5. QED
    BY <2>1, <2>3, <2>4 DEF FreshInv
<1>3. ASSUME NEW p \in Processes, Handler(p) PROVE FreshInv'
  <2>1. CASE \/ \E t \in Texts : IngestBegin(p, t)
             \/ \E i \in Ids : PurgeFindings(p, i) \/ InsertDocument(p, i)
             \/ PurgeRow(p) \/ InsertChunks(p)
    <3>1. /\ Others(p) /\ at'[p] \notin {"detect", "record"} /\ runs' = runs
          /\ \/ fresh' = {}
             \/ /\ fresh' = fresh /\ findings' = findings
                /\ policies' = policies /\ chunks' = chunks
      BY <2>1, IngestMoves DEF Reviews
    <3>2. QED
      BY <3>1, NothingIsFresh, NoReview
  <2>2. CASE \E r \in RunIds : CreateRun(p, r)
    BY <2>2, FreshRunIsCreated
  <2>3. CASE CountDocuments(p)
    BY <1>1, <2>3, FreshReviewBegins
  <2>4. CASE Look(p)
    BY <1>1, <2>4, FreshDetectorLooks
  <2>5. CASE Record(p)
    BY <1>1, <2>5, FreshFindingsAreRecorded
  <2>6. CASE Complete(p) \/ FailRun(p)
    BY <1>1, <2>6, FreshRunIsFinished
  <2>7. CASE Stop(p)
    <3>1. /\ runs' = runs /\ findings' = findings /\ fresh' = fresh
          /\ policies' = policies /\ chunks' = chunks
      BY <2>7 DEF Stop, texts
    <3>2. Others(p) /\ at'[p] = "idle"
      BY <1>1, <2>7, TurnIs DEF Stop, Respond
    <3>3. QED
      BY <3>1, <3>2, NoReview
  <2>8. QED
    BY <1>3, <2>1, <2>2, <2>3, <2>4, <2>5, <2>6, <2>7 DEF Handler
<1>4. QED
  BY <1>2, <1>3 DEF EyeNext

(***************************************************************************)
(* A run that completed while the library stayed as it was missed none of  *)
(* the near-duplicates and none of the disagreements, for any library and  *)
(* any order of its rows, whichever documents a conflict is reported       *)
(* between, and whatever other ingests and runs overlap and fail           *)
(* (detectors.py, detect_duplicates and detect_conflicts).                 *)
(***************************************************************************)
THEOREM CompleteRunMissesNothingAlways == EyeSpec => []CompleteRunMissesNothing
<1>1. EyeInit => FreshInv
  BY DEF EyeInit, FreshInv
<1>2. FreshInv => CompleteRunMissesNothing
  <2> SUFFICES ASSUME FreshInv, NEW r \in fresh, runs[r].status = "complete"
               PROVE
                 /\ \A c \in Compared :
                      HasTwin(c) =>
                        \E f \in OfRun(r) : f[2].kind = "duplicate" /\ c \in f[2].about
                 /\ \A i, j \in Read, key \in Keys :
                      i # j /\ Disagree(i, j, key) =>
                        \E f \in OfRun(r) :
                          /\ f[2].kind = "conflict"
                          /\ f[2].about = IF key \in LockoutKeys THEN "lockout" ELSE key
                          /\ key \in LockoutKeys \/ f[2].primary # f[2].related
    BY DEF CompleteRunMissesNothing
  <2>1. TwinsAreReported(Reported(r)) /\ ConflictsAreReported(Reported(r))
    BY DEF FreshInv
  <2>2. \A f \in Reported(r) : \E g \in OfRun(r) : f = g[2]
    BY DEF Reported
  <2>3. ASSUME NEW c \in Compared, HasTwin(c)
        PROVE  \E f \in OfRun(r) : f[2].kind = "duplicate" /\ c \in f[2].about
    BY <2>1, <2>2, <2>3 DEF TwinsAreReported
  <2>4. ASSUME NEW i \in Read, NEW j \in Read, NEW key \in Keys, i # j, Disagree(i, j, key)
        PROVE  \E f \in OfRun(r) :
                 /\ f[2].kind = "conflict"
                 /\ f[2].about = IF key \in LockoutKeys THEN "lockout" ELSE key
                 /\ key \in LockoutKeys \/ f[2].primary # f[2].related
    BY <2>1, <2>2, <2>4 DEF ConflictsAreReported
  <2>5. QED
    BY <2>3, <2>4
<1>3. QED
  BY <1>1, <1>2, FreshStep, IngestAlways, RunsAlways, PTL DEF EyeSpec

-----------------------------------------------------------------------------
(***************************************************************************)
(* Questionnaires.  The model's citations are kept by their position, at   *)
(* most MaxCitations of the verbatim ones, earlier before later.           *)
(***************************************************************************)
\* Of a finite set of positions at most MaxCitations are kept: the kept ones
\* come before one another.
LEMMA FewAreKept ==
  ASSUME NEW positions \in SUBSET Nat, IsFiniteSet(positions)
  PROVE  /\ Kept(positions) \subseteq positions
         /\ Cardinality(Kept(positions)) <= MaxCitations
         /\ Cardinality(Kept(positions)) \in Nat
<1> DEFINE rank == [k \in Kept(positions) |-> Cardinality(Earlier(k, positions))]
<1>1. Kept(positions) \subseteq positions
  BY DEF Kept
<1>2. \A k \in positions : IsFiniteSet(Earlier(k, positions))
  <2>1. \A k \in positions : Earlier(k, positions) \subseteq positions
    BY DEF Earlier
  <2>2. QED
    BY <2>1, FS_Subset
<1>3. \A k \in positions : Cardinality(Earlier(k, positions)) \in Nat
  BY <1>2, FS_CardinalityType
<1>4. rank \in Injection(Kept(positions), 0 .. MaxCitations - 1)
  <2>1. rank \in [Kept(positions) -> 0 .. MaxCitations - 1]
    <3>1. \A k \in Kept(positions) : Cardinality(Earlier(k, positions)) < MaxCitations
      BY DEF Kept
    <3>2. MaxCitations \in Nat
      BY AnswersAssumption
    <3>3. \A k \in Kept(positions) : Cardinality(Earlier(k, positions)) \in 0 .. MaxCitations - 1
      <4>1. ASSUME NEW n \in Nat, n < MaxCitations PROVE n \in 0 .. MaxCitations - 1
        BY <3>2, <4>1
      <4>2. QED
        BY <1>1, <1>3, <3>1, <4>1
    <3>4. QED
      BY <3>3
  <2>2. ASSUME NEW j \in positions, NEW k \in positions, j < k
        PROVE  Cardinality(Earlier(j, positions)) < Cardinality(Earlier(k, positions))
    <3>1. Earlier(j, positions) \subseteq Earlier(k, positions)
      <4>1. \A i \in positions : i < j => i < k
        BY <2>2
      <4>2. QED
        BY <4>1 DEF Earlier
    <3>2. j \in Earlier(k, positions) /\ j \notin Earlier(j, positions)
      <4>1. j \in Nat
        OBVIOUS
      <4>2. ~(j < j)
        BY <4>1
      <4>3. QED
        BY <2>2, <4>2 DEF Earlier
    <3>3. Earlier(j, positions) # Earlier(k, positions)
      BY <3>2
    <3>4. Cardinality(Earlier(j, positions)) <= Cardinality(Earlier(k, positions))
      BY <3>1, <1>2, FS_Subset
    <3>5. Cardinality(Earlier(j, positions)) # Cardinality(Earlier(k, positions))
      BY <3>1, <3>3, <1>2, FS_Subset
    <3>6. QED
      BY <3>4, <3>5, <1>3
  <2>3. ASSUME NEW j \in Kept(positions), NEW k \in Kept(positions), rank[j] = rank[k]
        PROVE  j = k
    <3>1. j \in positions /\ k \in positions /\ j \in Nat /\ k \in Nat
      BY <1>1
    <3>2. Cardinality(Earlier(j, positions)) = Cardinality(Earlier(k, positions))
      BY <2>3
    <3>3. ~(j < k) /\ ~(k < j)
      BY <2>2, <3>1, <3>2, <1>3
    <3>4. QED
      BY <3>1, <3>3
  <2>4. IsInjective(rank)
    BY <2>3 DEF IsInjective
  <2>5. QED
    BY <2>1, <2>4 DEF Injection, IsInjective
<1>5. IsFiniteSet(0 .. MaxCitations - 1) /\ Cardinality(0 .. MaxCitations - 1) = MaxCitations
  BY AnswersAssumption, FS_Interval
<1>6. QED
  BY <1>1, <1>4, <1>5, FS_Injection, FS_CardinalityType, FS_Subset
-----------------------------------------------------------------------------
AnswerIsCited(a, sections) ==
  /\ a.status \in Coverage => DOMAIN a.citations # {}
  /\ \A c \in DOMAIN a.citations :
       /\ a.citations[c].section \in sections
       /\ a.citations[c].quote \in QuotesOf[a.citations[c].section]
  /\ a.controls \subseteq CandidatesAmong(sections)
  /\ Cardinality(DOMAIN a.citations) <= MaxCitations

\* What _insufficient returns claims nothing and cites nothing.
LEMMA InsufficientIsCited ==
  ASSUME NEW question, NEW provenance, NEW sections
  PROVE  AnswerIsCited(Insufficient(question, provenance), sections)
<1> DEFINE a == Insufficient(question, provenance)
<1>1. a.status \notin Coverage /\ a.citations = <<>> /\ a.controls = {}
  BY DEF Insufficient, Coverage
<1>2. DOMAIN a.citations = {}
  BY <1>1
<1>3. Cardinality(DOMAIN a.citations) = 0
  BY <1>2, FS_EmptySet
<1>4. 0 <= MaxCitations
  BY AnswersAssumption
<1>5. QED
  BY <1>1, <1>2, <1>3, <1>4 DEF AnswerIsCited

\* What _validate_answer lets through is cited from the sections retrieved,
\* whatever the verdict.
LEMMA ValidatedIsCited ==
  ASSUME NEW v \in Verdicts, NEW retrieved, NEW question
  PROVE  AnswerIsCited(Validated(v, retrieved, question), retrieved)
<1> DEFINE a    == Validated(v, retrieved, question)
           good == Good(v, retrieved)
<1>1. CASE ~v.wellFormed \/ (v.status \in Coverage /\ Kept(good) = {})
  <2>1. a = Insufficient(question, "ai_assisted")
    BY <1>1 DEF Validated
  <2>2. QED
    BY <2>1, InsufficientIsCited
<1>2. CASE ~(~v.wellFormed \/ (v.status \in Coverage /\ Kept(good) = {}))
  <2>1. /\ a.status = v.status
        /\ a.citations = [k \in Kept(good) |-> v.citations[k]]
        /\ a.controls = v.controls \cap CandidatesAmong(retrieved)
    BY <1>2 DEF Validated
  <2>2. good \in SUBSET Nat /\ IsFiniteSet(good)
    <3>1. Len(v.citations) \in Nat /\ DOMAIN v.citations = 1 .. Len(v.citations)
      BY VerdictsAssumption
    <3>2. good \subseteq 1 .. Len(v.citations)
      BY <3>1 DEF Good, Considered
    <3>3. IsFiniteSet(1 .. Len(v.citations)) /\ 1 .. Len(v.citations) \subseteq Nat
      BY <3>1, FS_Interval
    <3>4. QED
      BY <3>2, <3>3, FS_Subset
  <2>3. Kept(good) \subseteq good /\ Cardinality(Kept(good)) <= MaxCitations
    BY <2>2, FewAreKept
  <2>4. \A k \in Kept(good) : Verbatim(v.citations[k], retrieved)
    BY <2>3 DEF Good
  <2>5. DOMAIN a.citations = Kept(good)
    BY <2>1
  <2>6. \A k \in Kept(good) : a.citations[k] = v.citations[k]
    BY <2>1
  <2>7. a.controls \subseteq CandidatesAmong(retrieved)
    BY <2>1
  <2>8. a.status \in Coverage => DOMAIN a.citations # {}
    BY <1>2, <2>1, <2>5
  <2>9. QED
    BY <2>3, <2>4, <2>5, <2>6, <2>7, <2>8 DEF AnswerIsCited, Verbatim
<1>3. QED
  BY <1>1, <1>2

LEMMA CitedFromMore ==
  ASSUME NEW a, NEW some, NEW more, some \subseteq more, AnswerIsCited(a, some)
  PROVE  AnswerIsCited(a, more)
<1>1. CandidatesAmong(some) \subseteq CandidatesAmong(more)
  BY DEF CandidatesAmong
<1>2. QED
  BY <1>1 DEF AnswerIsCited

\* The sections are loaded before the first answer, and not again.
CitedInv ==
  /\ answers \in Seq(ToSet(answers))
  /\ step \in {"paste", "load", "embed"} => answers = <<>>
  /\ \A k \in DOMAIN answers : AnswerIsCited(answers[k], loaded)

LEMMA AnAnswerMoreIsCited ==
  ASSUME CitedInv, NEW a, AnswerIsCited(a, loaded), answers' = Append(answers, a),
         step = "answer", UNCHANGED <<loaded, step>>
  PROVE  CitedInv'
<1> DEFINE S == ToSet(answers) \cup {a}
<1>1. answers \in Seq(S) /\ a \in S
  BY DEF CitedInv
<1>2. Len(answers) \in Nat /\ DOMAIN answers = 1 .. Len(answers)
  BY <1>1
<1>3. /\ answers' \in Seq(S) /\ Len(answers') = Len(answers) + 1
      /\ DOMAIN answers' = 1 .. Len(answers')
      /\ \A k \in 1 .. Len(answers) : answers'[k] = answers[k]
      /\ answers'[Len(answers) + 1] = a
  BY <1>1, AppendProperties
<1>4. \A k \in DOMAIN answers' : k \in DOMAIN answers \/ k = Len(answers) + 1
  BY <1>2, <1>3
<1>5. \A k \in DOMAIN answers' : AnswerIsCited(answers'[k], loaded')
  BY <1>2, <1>3, <1>4 DEF CitedInv
<1>6. ToSet(answers') = {answers'[k] : k \in DOMAIN answers'}
  BY DEF ToSet
<1>7. answers' \in Seq({answers'[k] : k \in DOMAIN answers'})
  BY <1>3
<1>8. QED
  BY <1>5, <1>6, <1>7 DEF CitedInv

\* "every answer cites real evidence", whatever the model says: an answer that
\* claims coverage has a citation that is verbatim in the library, and never more
\* than MaxCitations (corpus.py, _validate_answer).
THEOREM CoverageIsCitedAlways == AnswersSpec => []CoverageIsCited
<1>1. AnswersInit => CitedInv
  BY DEF AnswersInit, CitedInv, ToSet
<1>2. CitedInv /\ [AnswersNext]_answerVars => CitedInv'
  <2> SUFFICES ASSUME CitedInv, [AnswersNext]_answerVars
               PROVE  CitedInv'
    OBVIOUS
  <2>1. ASSUME answers' = answers, loaded' = loaded,
               step' \in {"paste", "load", "embed"} => step \in {"paste", "load", "embed"}
        PROVE  CitedInv'
    BY <2>1 DEF CitedInv, ToSet
  <2>2. ASSUME NEW kind \in Marks, WriteLine(kind) PROVE CitedInv'
    BY <2>1, <2>2 DEF WriteLine
  <2>3. CASE Submit
    BY <2>1, <2>3 DEF Submit
  <2>4. ASSUME NEW sections \in SUBSET Evidence, LoadSections(sections)
        PROVE  CitedInv'
    BY <2>4 DEF LoadSections, CitedInv, ToSet
  <2>5. CASE EmbedQuestions
    BY <2>1, <2>5 DEF EmbedQuestions
  <2>6. ASSUME NEW retrieved \in SUBSET Evidence, NEW v \in Verdicts,
               AnswerQuestion(retrieved, v)
        PROVE  CitedInv'
    <3> DEFINE a == IF retrieved = {} THEN Insufficient(NextQuestion, "deterministic")
                    ELSE Validated(v, retrieved, NextQuestion)
    <3>1. AnswerIsCited(a, retrieved)
      BY InsufficientIsCited, ValidatedIsCited
    <3>2. AnswerIsCited(a, loaded)
      BY <2>6, <3>1, CitedFromMore DEF AnswerQuestion
    <3>3. QED
      BY <2>6, <3>2, AnAnswerMoreIsCited DEF AnswerQuestion
  <2>7. CASE FailQuestion
    BY <2>7, InsufficientIsCited, AnAnswerMoreIsCited DEF FailQuestion
  <2>8. CASE StoreRun
    BY <2>1, <2>8 DEF StoreRun
  <2>9. CASE StoreAnswers
    BY <2>1, <2>9 DEF StoreAnswers
  <2>10. CASE UNCHANGED answerVars
    BY <2>1, <2>10 DEF answerVars
  <2>11. QED
    BY <2>2, <2>3, <2>4, <2>5, <2>6, <2>7, <2>8, <2>9, <2>10 DEF AnswersNext
<1>3. CitedInv => CoverageIsCited
  BY DEF CitedInv, CoverageIsCited, AnswerIsCited
<1>4. QED
  BY <1>1, <1>2, <1>3, PTL DEF AnswersSpec

-----------------------------------------------------------------------------
(***************************************************************************)
(* Work requests.  WorkInv says that a handler has a row, alone unless the *)
(* request is disputed, and what of the row it read holds until it writes. *)
(***************************************************************************)
WorkItems == [step : {"idle", "update", "tell", "delete"}, request : RequestIds \cup {Nobody},
              status : {Nobody} \cup DOMAIN Transitions, assigns : BOOLEAN,
              assignee : People \cup {Nobody}, creator : BOOLEAN]

WorkTyped ==
  /\ requests \in [RequestIds -> RequestRows \cup {Nobody, Gone}]
  /\ doing \in [Servers -> WorkItems]
  /\ toldWork \in [RequestIds -> SUBSET (People \cup {Nobody})]

\* A handler that is at work has a request that was filed.
Busy(s) == doing[s].step # "idle"

HandlersHaveRows ==
  \A s \in Servers : Busy(s) => /\ doing[s].request \in RequestIds
                                /\ requests[doing[s].request] # Nobody

\* What it read of the row holds until it writes: who created it always does,
\* the rest where no other handler has the row.
StillHolds(work) ==
  work.step = "update" =>
    /\ work.request \in Existing => work.creator = requests[work.request].creator
    /\ work.request \in disputed
         \/ (work.request \in Existing /\ MayBecome(work.request, work.status))

OneHandlerEach ==
  \A s, t \in Servers :
    s # t /\ Busy(s) /\ Busy(t) /\ doing[s].request = doing[t].request =>
      doing[s].request \in disputed

WorkInv ==
  /\ WorkTyped /\ HandlersHaveRows /\ OneHandlerEach
  /\ \A s \in Servers : StillHolds(doing[s])

LEMMA StatusesOfWork == DOMAIN Transitions = {"open", "in_review", "complete"}
  BY DEF Transitions

LEMMA MovesAreStatuses ==
  \A status \in DOMAIN Transitions : Transitions[status] \subseteq DOMAIN Transitions
  BY DEF Transitions

LEMMA NoWorkIsWork == NoWork \in WorkItems
  BY DEF NoWork, WorkItems

\* Another step than a write leaves what the other handlers know as it was.
LEMMA NewWork ==
  ASSUME WorkInv, NEW s \in Servers, NEW work \in WorkItems, Do(s, work),
         UNCHANGED <<requests, toldWork>>, disputed \subseteq disputed',
         work.step # "idle" => /\ work.request \in RequestIds
                               /\ requests[work.request] # Nobody
                               /\ \A t \in Servers \ {s} :
                                    Busy(t) /\ doing[t].request = work.request =>
                                      work.request \in disputed',
         StillHolds(work)
  PROVE  WorkInv'
<1>1. /\ doing' \in [Servers -> WorkItems] /\ doing'[s] = work
      /\ \A t \in Servers \ {s} : doing'[t] = doing[t]
  BY DEF WorkInv, WorkTyped, Do
<1>2. WorkTyped'
  BY <1>1 DEF WorkInv, WorkTyped
<1>3. HandlersHaveRows'
  BY <1>1 DEF WorkInv, HandlersHaveRows, Busy
<1>4. OneHandlerEach'
  BY <1>1 DEF WorkInv, OneHandlerEach, Busy
<1>5. \A t \in Servers : StillHolds(doing[t])'
  BY <1>1 DEF WorkInv, StillHolds, Existing, MayBecome
<1>6. QED
  BY <1>2, <1>3, <1>4, <1>5 DEF WorkInv

\* A write of a row that was filed leaves the row's creator, or deletes it.
LEMMA NewRow ==
  ASSUME WorkInv, NEW s \in Servers, NEW work \in WorkItems, Do(s, work),
         NEW r \in RequestIds, NEW row \in RequestRows \cup {Nobody, Gone}, row # Nobody,
         requests' = [requests EXCEPT ![r] = row],
         requests[r] = Nobody \/ (Busy(s) /\ doing[s].request = r),
         r \in Existing /\ row # Gone => row.creator = requests[r].creator,
         requests[r] = Gone => row = Gone,
         toldWork' \in [RequestIds -> SUBSET (People \cup {Nobody})],
         UNCHANGED disputed,
         work.step \in {"idle", "tell"}, work.step = "tell" => work.request = r
  PROVE  WorkInv'
<1>1. /\ doing' \in [Servers -> WorkItems] /\ doing'[s] = work
      /\ \A t \in Servers \ {s} : doing'[t] = doing[t]
  BY DEF WorkInv, WorkTyped, Do
<1>2. /\ requests' \in [RequestIds -> RequestRows \cup {Nobody, Gone}] /\ requests'[r] = row
      /\ \A q \in RequestIds \ {r} : requests'[q] = requests[q]
  BY DEF WorkInv, WorkTyped
<1>3. WorkTyped'
  BY <1>1, <1>2 DEF WorkInv, WorkTyped
<1>4. HandlersHaveRows'
  BY <1>1, <1>2 DEF WorkInv, HandlersHaveRows, Busy
<1>5. \A t \in Servers \ {s} :
        Busy(t) /\ doing[t].request = r => r \in disputed /\ requests[r] # Nobody
  BY DEF WorkInv, HandlersHaveRows, OneHandlerEach
<1>6. OneHandlerEach'
  BY <1>1, <1>5 DEF WorkInv, OneHandlerEach, Busy
<1>7. \A t \in Servers : StillHolds(doing[t])'
  <2> SUFFICES ASSUME NEW t \in Servers PROVE StillHolds(doing[t])'
    OBVIOUS
  <2>1. CASE t = s
    BY <1>1, <2>1 DEF StillHolds
  <2>2. CASE t # s /\ doing[t].step = "update"
    <3>1. doing'[t] = doing[t] /\ StillHolds(doing[t]) /\ Busy(t) /\ doing[t].request \in RequestIds
      BY <1>1, <2>2 DEF WorkInv, HandlersHaveRows, Busy
    <3>2. CASE doing[t].request = r
      <4>1. r \in disputed' /\ requests[r] # Nobody
        BY <1>5, <2>2, <3>1, <3>2
      <4>2. r \in Existing' => r \in Existing /\ row # Gone
        BY <1>2, <4>1 DEF Existing
      <4>3. r \in Existing' => doing[t].creator = requests'[r].creator
        BY <4>2, <3>1, <3>2, <2>2, <1>2 DEF StillHolds
      <4>4. QED
        BY <3>1, <3>2, <4>1, <4>3 DEF StillHolds
    <3>3. CASE doing[t].request # r
      BY <3>1, <3>3, <1>2 DEF StillHolds, Existing, MayBecome
    <3>4. QED
      BY <3>2, <3>3
  <2>3. CASE t # s /\ doing[t].step # "update"
    BY <1>1, <2>3 DEF StillHolds
  <2>4. QED
    BY <2>1, <2>2, <2>3
<1>8. QED
  BY <1>3, <1>4, <1>6, <1>7 DEF WorkInv

LEMMA PatchedRow ==
  ASSUME NEW row \in RequestRows, NEW work \in WorkItems
  PROVE  /\ UpdatedRow(row, work) \in RequestRows
         /\ UpdatedRow(row, work).creator = row.creator
         /\ UpdatedRow(row, work).status = IF work.status = Nobody THEN row.status ELSE work.status
         /\ UpdatedRow(row, work).assignee = IF work.assigns THEN work.assignee ELSE row.assignee
<1>1. work.status \in {Nobody} \cup DOMAIN Transitions
  BY DEF WorkItems
<1>2. work.assignee \in People \cup {Nobody}
  BY DEF WorkItems
<1>3. (IF work.status = Nobody THEN row.status ELSE work.status) \in DOMAIN Transitions
  BY <1>1 DEF RequestRows
<1>4. (IF work.assigns THEN work.assignee ELSE row.assignee) \in People \cup {Nobody}
  BY <1>2 DEF RequestRows
<1>5. QED
  BY <1>3, <1>4 DEF UpdatedRow, RequestRows

LEMMA WorkInvKept == WorkInv /\ [WorkNext]_workVars => WorkInv'
<1> SUFFICES ASSUME WorkInv, [WorkNext]_workVars
             PROVE  WorkInv'
  OBVIOUS
<1> USE WorkAssumption
<1>typed. WorkTyped
  BY DEF WorkInv
<1>idle. NoWork \in WorkItems /\ NoWork.step = "idle" /\ StillHolds(NoWork)
  BY NoWorkIsWork DEF NoWork, StillHolds
<1>1. ASSUME NEW s \in Servers, NEW r \in RequestIds, NEW assignee \in People \cup {Nobody},
             CreateRequest(s, r, assignee)
      PROVE  WorkInv'
  <2> DEFINE row  == [status |-> "open", assignee |-> assignee, creator |-> TRUE]
             work == [NoWork EXCEPT !.step = "tell", !.request = r,
                                    !.assigns = TRUE, !.assignee = assignee]
  <2>1. row \in RequestRows
    BY StatusesOfWork DEF RequestRows
  <2>2. work \in WorkItems /\ work.step = "tell" /\ work.request = r
    BY NoWorkIsWork DEF NoWork, WorkItems
  <2>3. /\ requests[r] = Nobody /\ requests' = [requests EXCEPT ![r] = row]
        /\ doing[s].step = "idle"
        /\ UNCHANGED <<toldWork, disputed>>
    BY <1>1 DEF CreateRequest
  <2>4. /\ row \in RequestRows \cup {Nobody, Gone} /\ row # Nobody
        /\ r \notin Existing /\ requests[r] # Gone
    BY <2>1, <2>3 DEF Existing
  <2>5. CASE assignee = Nobody
    <3>1. doing' = [doing EXCEPT ![s] = doing[s]]
      BY <1>1, <2>5, <1>typed DEF CreateRequest, WorkTyped
    <3>2. doing[s] \in WorkItems
      BY <1>typed DEF WorkTyped
    <3> HIDE DEF row
    <3>3. QED
      BY <1>typed, <2>3, <2>4, <3>1, <3>2, NewRow DEF Do, WorkTyped
  <2>6. CASE assignee # Nobody
    <3>1. Do(s, work)
      BY <1>1, <2>6 DEF CreateRequest
    <3> HIDE DEF row, work
    <3>2. QED
      BY <1>typed, <2>2, <2>3, <2>4, <3>1, NewRow DEF WorkTyped
  <2>7. QED
    BY <2>5, <2>6
<1>2. ASSUME NEW s \in Servers, NEW r \in RequestIds, AssignToReviewer(s, r)
      PROVE  WorkInv'
  <2> DEFINE row == [status |-> "open", assignee |-> Nobody, creator |-> FALSE]
  <2>1. row \in RequestRows
    BY StatusesOfWork DEF RequestRows
  <2>2. /\ requests[r] = Nobody /\ requests' = [requests EXCEPT ![r] = row]
        /\ doing[s].step = "idle"
        /\ UNCHANGED <<toldWork, disputed, doing>>
    BY <1>2 DEF AssignToReviewer
  <2>3. /\ row \in RequestRows \cup {Nobody, Gone} /\ row # Nobody
        /\ r \notin Existing /\ requests[r] # Gone
    BY <2>1, <2>2 DEF Existing
  <2>4. doing[s] \in WorkItems /\ doing' = [doing EXCEPT ![s] = doing[s]]
    BY <2>2, <1>typed DEF WorkTyped
  <2> HIDE DEF row
  <2>5. QED
    BY <1>typed, <2>2, <2>3, <2>4, NewRow DEF Do, WorkTyped
<1>3. ASSUME NEW s \in Servers, NEW r \in RequestIds, NEW work \in WorkItems,
             Take(s, r, work), work.step # "idle",
             work.step = "update" => MayBecome(r, work.status)
      PROVE  WorkInv'
  <2> DEFINE taken == [work EXCEPT !.request = r, !.creator = requests[r].creator]
  <2>1. r \in Existing /\ requests[r] \in RequestRows /\ requests[r].creator \in BOOLEAN
    BY <1>3, <1>typed DEF Take, Existing, WorkTyped, RequestRows
  <2>2. /\ taken \in WorkItems /\ taken.step = work.step /\ taken.request = r
        /\ taken.creator = requests[r].creator /\ taken.status = work.status
    BY <2>1 DEF WorkItems
  <2>3. /\ Do(s, taken) /\ UNCHANGED <<requests, toldWork>>
        /\ disputed' = disputed \cup {q \in {r} : \E t \in Servers : doing[t].request = q}
        /\ doing[s].step = "idle"
    BY <1>3 DEF Take
  <2>4. \A t \in Servers \ {s} : Busy(t) /\ doing[t].request = r => r \in disputed'
    BY <2>3
  <2>5. requests[r] # Nobody
    BY <2>1 DEF Existing
  <2>6. StillHolds(taken)
    BY <1>3, <2>1, <2>2 DEF StillHolds
  <2> HIDE DEF taken
  <2>7. QED
    BY <2>2, <2>3, <2>4, <2>5, <2>6, NewWork
<1>4. ASSUME NEW s \in Servers, NEW r \in RequestIds, NEW assignee \in People \cup {Nobody},
             NEW status \in {Nobody} \cup DOMAIN Transitions,
             BeginUpdate(s, r, status, assignee)
      PROVE  WorkInv'
  <2> DEFINE assigns == assignee # requests[r].assignee
             work == [NoWork EXCEPT !.step = "update", !.status = status, !.assigns = assigns,
                                    !.assignee = IF assigns THEN assignee ELSE Nobody]
  <2>1. assigns \in BOOLEAN
    OBVIOUS
  <2>2. (IF assigns THEN assignee ELSE Nobody) \in People \cup {Nobody}
    OBVIOUS
  <2>3. work \in WorkItems /\ work.step = "update" /\ work.status = status
    <3> HIDE DEF assigns
    <3>1. QED
      BY <2>1, <2>2, NoWorkIsWork DEF WorkItems, NoWork
  <2>4. Take(s, r, work) /\ MayBecome(r, status)
    BY <1>4 DEF BeginUpdate
  <2> HIDE DEF work
  <2>5. QED
    BY <2>3, <2>4, <1>3
<1>5. ASSUME NEW s \in Servers, NEW r \in RequestIds, BeginDelete(s, r)
      PROVE  WorkInv'
  <2> DEFINE work == [NoWork EXCEPT !.step = "delete"]
  <2>1. work \in WorkItems /\ work.step = "delete"
    BY NoWorkIsWork DEF WorkItems, NoWork
  <2>2. Take(s, r, work)
    BY <1>5 DEF BeginDelete
  <2> HIDE DEF work
  <2>3. QED
    BY <2>1, <2>2, <1>3
<1>6. ASSUME NEW s \in Servers, Rest(s), UNCHANGED <<requests, disputed>>,
             toldWork' \in [RequestIds -> SUBSET (People \cup {Nobody})]
      PROVE  WorkInv'
  <2>1. /\ doing' \in [Servers -> WorkItems] /\ doing'[s] = NoWork
        /\ \A t \in Servers \ {s} : doing'[t] = doing[t]
    BY <1>6, <1>typed, <1>idle DEF WorkTyped, Rest, Do
  <2>2. WorkTyped'
    BY <2>1, <1>6, <1>typed DEF WorkTyped
  <2>3. HandlersHaveRows' /\ OneHandlerEach'
    BY <2>1, <1>6, <1>idle DEF WorkInv, HandlersHaveRows, OneHandlerEach, Busy
  <2>4. \A t \in Servers : StillHolds(doing[t])'
    BY <2>1, <1>6, <1>idle DEF WorkInv, StillHolds, Existing, MayBecome
  <2>5. QED
    BY <2>2, <2>3, <2>4 DEF WorkInv
<1>7. ASSUME NEW s \in Servers, Update(s) PROVE WorkInv'
  <2> DEFINE work == doing[s]
             r    == doing[s].request
             tell == [work EXCEPT !.step = "tell"]
  <2>1. /\ work \in WorkItems /\ work.step = "update" /\ UNCHANGED disputed
        /\ r \in RequestIds /\ requests[r] # Nobody /\ Busy(s)
    BY <1>7 DEF Update, WorkInv, WorkTyped, HandlersHaveRows, Busy
  <2>2. tell \in WorkItems /\ tell.step = "tell" /\ tell.request = r /\ StillHolds(tell)
    BY <2>1 DEF WorkItems, StillHolds
  <2>3. CASE WorkFault("database") /\ Rest(s) /\ UNCHANGED <<requests, toldDone, toldWork>>
    BY <2>1, <2>3, <1>typed, <1>6 DEF WorkTyped
  <2>4. CASE /\ requests' = IF r \in Existing
                            THEN [requests EXCEPT ![r] = UpdatedRow(@, work)] ELSE requests
             /\ toldWork' = IF work.assigns THEN [toldWork EXCEPT ![r] = {}] ELSE toldWork
             /\ IF Tells(work) # {} THEN Do(s, tell) ELSE Rest(s)
    <3>1. toldWork' \in [RequestIds -> SUBSET (People \cup {Nobody})]
      <4>1. toldWork \in [RequestIds -> SUBSET (People \cup {Nobody})]
        BY <1>typed DEF WorkTyped
      <4>2. [toldWork EXCEPT ![r] = {}] \in [RequestIds -> SUBSET (People \cup {Nobody})]
        BY <4>1, <2>1
      <4>3. QED
        BY <2>4, <4>1, <4>2
    <3>2. PICK next \in WorkItems :
             /\ Do(s, next) /\ next.step \in {"idle", "tell"}
             /\ next.step = "tell" => next.request = r
             /\ StillHolds(next)
      <4>1. CASE Tells(work) # {}
        BY <2>2, <2>4, <4>1
      <4>2. CASE Tells(work) = {}
        <5>1. Do(s, NoWork)
          BY <2>4, <4>2 DEF Rest
        <5>2. QED
          BY <1>idle, <5>1
      <4>3. QED
        BY <4>1, <4>2
    <3>3. CASE r \in Existing
      <4> DEFINE row == UpdatedRow(requests[r], work)
      <4>1. requests[r] \in RequestRows
        BY <3>3, <1>typed DEF WorkTyped, Existing
      <4>2. /\ row \in RequestRows /\ row.creator = requests[r].creator
        BY <4>1, <2>1, PatchedRow
      <4>3. row \in RequestRows \cup {Nobody, Gone} /\ row # Nobody
        BY <4>2
      <4>4. requests' = [requests EXCEPT ![r] = row] /\ requests[r] # Gone
        BY <2>4, <3>3 DEF Existing
      <4> HIDE DEF row
      <4>5. QED
        BY <2>1, <3>1, <3>2, <4>2, <4>3, <4>4, NewRow
    <3>4. CASE r \notin Existing
      <4> DEFINE row == requests[r]
      <4>1. requests' = [requests EXCEPT ![r] = row]
        BY <2>4, <3>4, <1>typed DEF WorkTyped
      <4>2. row \in RequestRows \cup {Nobody, Gone}
        BY <2>1, <1>typed DEF WorkTyped
      <4>3. row # Nobody /\ row = Gone
        BY <2>1, <3>4 DEF Existing
      <4>4. QED
        BY <2>1, <3>1, <3>2, <3>4, <4>1, <4>2, <4>3, NewRow
    <3>5. QED
      BY <3>3, <3>4
  <2>5. QED
    BY <1>7, <2>3, <2>4 DEF Update
<1>8. ASSUME NEW s \in Servers, Tell(s) PROVE WorkInv'
  <2>1. doing[s] \in WorkItems /\ doing[s].request \in RequestIds
    BY <1>8 DEF Tell, WorkInv, WorkTyped, HandlersHaveRows, Busy
  <2>2. doing[s].assignee \in People \cup {Nobody}
    BY <2>1 DEF WorkItems
  <2>3. toldWork \in [RequestIds -> SUBSET (People \cup {Nobody})]
    BY <1>typed DEF WorkTyped
  <2>4. [toldWork EXCEPT ![doing[s].request] = @ \cup {doing[s].assignee}]
          \in [RequestIds -> SUBSET (People \cup {Nobody})]
    BY <2>1, <2>2, <2>3
  <2>5. toldWork' \in [RequestIds -> SUBSET (People \cup {Nobody})]
    BY <1>8, <2>3, <2>4 DEF Tell
  <2>6. QED
    BY <1>8, <2>5, <1>6 DEF Tell
<1>9. ASSUME NEW s \in Servers, Delete(s) PROVE WorkInv'
  <2>1. /\ doing[s].request \in RequestIds /\ requests[doing[s].request] # Nobody
        /\ Busy(s) /\ Do(s, NoWork) /\ UNCHANGED <<toldWork, disputed>>
    BY <1>9 DEF Delete, WorkInv, WorkTyped, HandlersHaveRows, Busy, Rest
  <2>2. CASE requests' = [requests EXCEPT ![doing[s].request] = Gone]
    <3>1. Gone \in RequestRows \cup {Nobody, Gone} /\ Gone # Nobody
      OBVIOUS
    <3>2. QED
      BY <2>1, <2>2, <3>1, <1>typed, <1>idle, NewRow DEF WorkTyped
  <2>3. CASE UNCHANGED requests
    BY <2>1, <2>3, <1>typed, <1>6 DEF WorkTyped, Rest
  <2>4. QED
    BY <1>9, <2>2, <2>3 DEF Delete
<1>10. ASSUME NEW s \in Servers, StopServer(s) PROVE WorkInv'
  BY <1>10, <1>6, <1>typed DEF StopServer, WorkTyped
<1>11. CASE UNCHANGED workVars
  BY <1>11 DEF workVars, WorkInv, WorkTyped, HandlersHaveRows, OneHandlerEach, StillHolds,
               Busy, Existing, MayBecome
<1>12. QED
  BY <1>1, <1>2, <1>4, <1>5, <1>7, <1>8, <1>9, <1>10, <1>11 DEF WorkNext

LEMMA WorkInvStarts == WorkInit => WorkInv
<1> SUFFICES ASSUME WorkInit PROVE WorkInv
  OBVIOUS
<1> USE WorkAssumption
<1>1. \A s \in Servers : doing[s] = NoWork /\ ~Busy(s)
  BY DEF WorkInit, Busy, NoWork
<1>2. WorkTyped
  BY NoWorkIsWork DEF WorkInit, WorkTyped
<1>3. HandlersHaveRows /\ OneHandlerEach
  BY <1>1 DEF HandlersHaveRows, OneHandlerEach
<1>4. \A s \in Servers : StillHolds(doing[s])
  BY <1>1 DEF StillHolds, NoWork
<1>5. QED
  BY <1>2, <1>3, <1>4 DEF WorkInv

LEMMA WorkInvAlways == WorkSpec => []WorkInv
<1>1. QED
  BY WorkInvStarts, WorkInvKept, PTL DEF WorkSpec

-----------------------------------------------------------------------------
\* Whatever handlers overlap, an undisputed request moves along _TRANSITIONS.
LEMMA WorkStepsMove ==
  ASSUME WorkInv, [WorkNext]_workVars, NEW q \in RequestIds
  PROVE  Moves(q)
<1> USE WorkAssumption
<1>typed. WorkTyped
  BY DEF WorkInv
<1>0. requests'[q] = requests[q] => Moves(q)
  BY DEF Moves
<1>1. ASSUME UNCHANGED requests PROVE Moves(q)
  BY <1>0, <1>1
<1>2. ASSUME NEW r \in RequestIds, NEW row, requests[r] = Nobody,
             requests' = [requests EXCEPT ![r] = row]
      PROVE  Moves(q)
  BY <1>2, <1>typed DEF Moves, WorkTyped
<1>3. ASSUME NEW s \in Servers, Update(s) PROVE Moves(q)
  <2> DEFINE work == doing[s]
             r    == doing[s].request
  <2>1. /\ work \in WorkItems /\ work.step = "update" /\ StillHolds(work) /\ r \in RequestIds
    BY <1>3 DEF Update, WorkInv, WorkTyped, HandlersHaveRows, Busy
  <2>2. CASE q = r /\ r \in Existing /\ requests' = [requests EXCEPT ![r] = UpdatedRow(@, work)]
    <3>1. requests[r] \in RequestRows
      BY <2>1, <2>2, <1>typed DEF WorkTyped, Existing
    <3>2. requests'[q] = UpdatedRow(requests[r], work)
      BY <2>1, <2>2, <1>typed DEF WorkTyped
    <3>3. requests'[q].status = IF work.status = Nobody THEN requests[r].status ELSE work.status
      BY <2>1, <3>1, <3>2, PatchedRow
    <3>4. CASE r \in disputed
      BY <2>2, <3>4 DEF Moves
    <3>5. CASE MayBecome(r, work.status)
      <4>1. requests'[q].status \in {requests[q].status} \cup Transitions[requests[q].status]
        BY <2>2, <3>3, <3>5 DEF MayBecome
      <4>2. QED
        BY <2>2, <4>1 DEF Moves
    <3>6. QED
      BY <2>1, <3>4, <3>5 DEF StillHolds
  <2>3. CASE q # r /\ requests' = [requests EXCEPT ![r] = UpdatedRow(@, work)]
    BY <1>0, <2>3, <1>typed DEF WorkTyped
  <2>4. CASE UNCHANGED requests
    BY <2>4, <1>1
  <2>5. QED
    BY <1>3, <2>2, <2>3, <2>4 DEF Update
<1>4. ASSUME NEW s \in Servers, Delete(s) PROVE Moves(q)
  <2>1. CASE requests' = [requests EXCEPT ![doing[s].request] = Gone]
    BY <2>1, <1>typed DEF Moves, WorkTyped
  <2>2. QED
    BY <1>4, <1>1, <2>1 DEF Delete
<1>5. QED
  BY <1>1, <1>2, <1>3, <1>4 DEF WorkNext, CreateRequest, AssignToReviewer, BeginUpdate,
     BeginDelete, Take, Tell, StopServer, workVars

\* For any number of event loops, and whatever fails: the status of a request that
\* no two handlers had at a time moves by _TRANSITIONS only (pm.py, update_request).
THEOREM StatusFollowsTransitionsAlways == WorkSpec => StatusFollowsTransitions
<1>1. WorkInv /\ [WorkNext]_workVars => [\A r \in RequestIds : Moves(r)]_workVars
  BY WorkStepsMove
<1>2. QED
  BY <1>1, WorkInvAlways, PTL DEF WorkSpec, StatusFollowsTransitions

-----------------------------------------------------------------------------
DoneIsTold(r) ==
  requests[r].status = "complete" /\ requests[r].creator =>
    r \in toldDone \/ <<r, "done">> \in untold \/ Telling(r, "done") # {}

WorkIsTold(r) ==
  requests[r].assignee # Nobody =>
    \/ requests[r].assignee \in toldWork[r] \/ <<r, "work">> \in untold
    \/ \E s \in Telling(r, "work") : doing[s].assignee = requests[r].assignee

LEMMA ForgottenParts ==
  NobodyIsForgotten <=> \A r \in Existing : DoneIsTold(r) /\ WorkIsTold(r)
BY DEF NobodyIsForgotten, DoneIsTold, WorkIsTold

\* Who is being told of r is so as long as the handler is, and what was told
\* or lost stays so, as long as the row is the same.
LEMMA RowAsBefore ==
  ASSUME WorkInv, NEW s \in Servers, doing[s].step # "tell",
         NEW work, Do(s, work), NEW r \in Existing,
         requests'[r] = requests[r], toldDone \cap {r} \subseteq toldDone',
         toldWork[r] \subseteq toldWork'[r], untold \subseteq untold',
         DoneIsTold(r), WorkIsTold(r)
  PROVE  DoneIsTold(r)' /\ WorkIsTold(r)'
<1>1. \A t \in Servers \ {s} : doing'[t] = doing[t]
  BY DEF WorkInv, WorkTyped, Do
<1>2. \A about, t : t \in Telling(r, about) => t \in Telling(r, about)' /\ doing'[t] = doing[t]
  BY <1>1 DEF Telling, Tells, Completes, Assigns
<1>3. DoneIsTold(r)'
  BY <1>2 DEF DoneIsTold
<1>4. WorkIsTold(r)'
  BY <1>2 DEF WorkIsTold
<1>5. QED
  BY <1>3, <1>4
\* Where a handler ends what it was telling, what was not told counts as lost.
LEMMA ToldOrLost ==
  ASSUME WorkInv, NEW s \in Servers, doing[s].step = "tell", Rest(s), UNCHANGED requests,
         NEW r \in Existing, toldDone \subseteq toldDone', untold \subseteq untold',
         \A q \in RequestIds : toldWork[q] \subseteq toldWork'[q],
         "done" \in Tells(doing[s]) =>
           \/ doing[s].request \in toldDone' \/ <<doing[s].request, "done">> \in untold',
         "work" \in Tells(doing[s]) =>
           \/ doing[s].assignee \in toldWork'[doing[s].request]
           \/ <<doing[s].request, "work">> \in untold',
         DoneIsTold(r), WorkIsTold(r)
  PROVE  DoneIsTold(r)' /\ WorkIsTold(r)'
<1>1. \A t \in Servers \ {s} : doing'[t] = doing[t]
  BY DEF WorkInv, WorkTyped, Rest, Do
<1>2. \A about : \A t \in Telling(r, about) \ {s} :
        t \in Telling(r, about)' /\ doing'[t] = doing[t]
  BY <1>1 DEF Telling, Tells, Completes, Assigns
<1>3. \A about : s \in Telling(r, about) => about \in Tells(doing[s]) /\ doing[s].request = r
  BY DEF Telling
<1>4. r \in RequestIds
  BY DEF Existing
<1>5. DoneIsTold(r)'
  <2>1. CASE s \in Telling(r, "done")
    <3>1. r \in toldDone' \/ <<r, "done">> \in untold'
      BY <1>3, <2>1
    <3>2. QED
      BY <3>1 DEF DoneIsTold
  <2>2. CASE s \notin Telling(r, "done")
    BY <1>2, <2>2 DEF DoneIsTold
  <2>3. QED
    BY <2>1, <2>2
<1>6. WorkIsTold(r)'
  <2>1. CASE s \in Telling(r, "work") /\ doing[s].assignee = requests[r].assignee
    <3>1. requests[r].assignee \in toldWork'[r] \/ <<r, "work">> \in untold'
      BY <1>3, <2>1
    <3>2. QED
      BY <3>1 DEF WorkIsTold
  <2>2. CASE ~(s \in Telling(r, "work") /\ doing[s].assignee = requests[r].assignee)
    BY <1>2, <1>4, <2>2 DEF WorkIsTold
  <2>3. QED
    BY <2>1, <2>2
<1>7. QED
  BY <1>5, <1>6

LEMMA ToldKept ==
  ASSUME WorkInv, [WorkNext]_workVars, NobodyIsForgotten, NEW r \in Existing'
  PROVE  DoneIsTold(r)' /\ WorkIsTold(r)'
<1> USE WorkAssumption
<1>typed. WorkTyped
  BY DEF WorkInv
<1>r. r \in RequestIds
  BY DEF Existing
<1>was. r \in Existing => DoneIsTold(r) /\ WorkIsTold(r)
  BY ForgottenParts
<1>0. ASSUME requests'[r] = requests[r] PROVE r \in Existing
  BY <1>0 DEF Existing
<1>1. ASSUME NEW s \in Servers, NEW work, doing[s].step # "tell", Do(s, work),
             requests'[r] = requests[r],
             UNCHANGED <<toldDone, toldWork, untold>>
      PROVE  DoneIsTold(r)' /\ WorkIsTold(r)'
  BY <1>0, <1>1, <1>was, RowAsBefore
<1>2. ASSUME NEW s \in Servers, NEW q \in RequestIds, NEW assignee \in People \cup {Nobody},
             CreateRequest(s, q, assignee)
      PROVE  DoneIsTold(r)' /\ WorkIsTold(r)'
  <2> DEFINE work == [NoWork EXCEPT !.step = "tell", !.request = q,
                                    !.assigns = TRUE, !.assignee = assignee]
  <2>1. CASE q = r
    <3>1. /\ requests'[r].status = "open" /\ requests'[r].assignee = assignee
      BY <1>2, <2>1, <1>typed DEF CreateRequest, WorkTyped
    <3>2. DoneIsTold(r)'
      BY <3>1 DEF DoneIsTold
    <3>3. CASE assignee = Nobody
      BY <3>1, <3>2, <3>3 DEF WorkIsTold
    <3>4. CASE assignee # Nobody
      <4>1. doing'[s] = work
        BY <1>2, <3>4, <1>typed DEF CreateRequest, Do, WorkTyped
      <4>2. doing'[s].step = "tell" /\ doing'[s].request = r /\ doing'[s].assignee = assignee
            /\ doing'[s].assigns = TRUE
        BY <4>1, <2>1 DEF NoWork
      <4>3. Assigns(doing[s])'
        BY <4>2, <3>4 DEF Assigns
      <4>4. "work" \in Tells(doing[s])'
        BY <4>3 DEF Tells
      <4>5. s \in Telling(r, "work")'
        BY <4>2, <4>4 DEF Telling
      <4>6. QED
        BY <3>1, <3>2, <4>2, <4>5 DEF WorkIsTold
    <3>5. QED
      BY <3>3, <3>4
  <2>2. CASE q # r
    <3>1. /\ requests'[r] = requests[r] /\ doing[s].step # "tell"
          /\ UNCHANGED <<toldDone, toldWork, untold>>
      BY <1>2, <2>2, <1>typed, <1>r DEF CreateRequest, WorkTyped
    <3>2. \E next : Do(s, next)
      <4>1. doing = [doing EXCEPT ![s] = doing[s]]
        BY <1>typed DEF WorkTyped
      <4>2. QED
        BY <1>2, <4>1 DEF CreateRequest, Do
    <3>3. QED
      BY <1>1, <3>1, <3>2
  <2>3. QED
    BY <2>1, <2>2
<1>3. ASSUME NEW s \in Servers, NEW q \in RequestIds, AssignToReviewer(s, q)
      PROVE  DoneIsTold(r)' /\ WorkIsTold(r)'
  <2>1. CASE q = r
    <3>1. requests'[r].status = "open" /\ requests'[r].assignee = Nobody
      BY <1>3, <2>1, <1>typed DEF AssignToReviewer, WorkTyped
    <3>2. QED
      BY <3>1 DEF DoneIsTold, WorkIsTold
  <2>2. CASE q # r
    <3>1. /\ requests'[r] = requests[r] /\ doing[s].step # "tell"
          /\ UNCHANGED <<toldDone, toldWork, untold, doing>>
      BY <1>3, <2>2, <1>typed, <1>r DEF AssignToReviewer, WorkTyped
    <3>2. Do(s, doing[s])
      BY <3>1, <1>typed DEF WorkTyped, Do
    <3>3. QED
      BY <1>1, <3>1, <3>2
  <2>3. QED
    BY <2>1, <2>2
<1>4. ASSUME NEW s \in Servers, NEW q \in RequestIds, NEW work, Take(s, q, work)
      PROVE  DoneIsTold(r)' /\ WorkIsTold(r)'
  BY <1>4, <1>1 DEF Take
<1>5. ASSUME NEW s \in Servers, Update(s) PROVE DoneIsTold(r)' /\ WorkIsTold(r)'
  <2> DEFINE work == doing[s]
             q    == doing[s].request
             tell == [work EXCEPT !.step = "tell"]
  <2>1. work \in WorkItems /\ work.step = "update" /\ StillHolds(work) /\ q \in RequestIds
    BY <1>5 DEF Update, WorkInv, WorkTyped, HandlersHaveRows, Busy
  <2>2. untold' = untold
    BY <1>5 DEF Update
  <2>3. CASE WorkFault("database") /\ Rest(s) /\ UNCHANGED <<requests, toldDone, toldWork>>
    BY <2>1, <2>2, <2>3, <1>1 DEF Rest
  <2>4. CASE /\ requests' = IF q \in Existing
                            THEN [requests EXCEPT ![q] = UpdatedRow(@, work)] ELSE requests
             /\ toldDone' = IF work.status = Nobody THEN toldDone ELSE toldDone \ {q}
             /\ toldWork' = IF work.assigns THEN [toldWork EXCEPT ![q] = {}] ELSE toldWork
             /\ IF Tells(work) # {} THEN Do(s, tell) ELSE Rest(s)
    <3>1. \E next : Do(s, next)
      BY <2>4 DEF Rest
    <3>2. CASE q # r
      <4>1. requests'[r] = requests[r]
        BY <2>1, <2>4, <3>2, <1>typed, <1>r DEF WorkTyped
      <4>2. toldDone \cap {r} \subseteq toldDone'
        BY <2>4, <3>2
      <4>3. toldWork'[r] = toldWork[r]
        BY <2>4, <3>2, <1>typed, <1>r DEF WorkTyped
      <4>4. QED
        BY <1>0, <1>was, <2>1, <2>2, <3>1, <4>1, <4>2, <4>3, RowAsBefore
    <3>3. CASE q = r
      <4>1. r \in Existing
        <5>1. CASE q \in Existing
          BY <5>1, <3>3
        <5>2. CASE q \notin Existing
          BY <5>2, <2>4, <3>3, <1>0
        <5>3. QED
          BY <5>1, <5>2
      <4>2. requests[r] \in RequestRows
        BY <4>1, <1>typed DEF Existing, WorkTyped
      <4>3. requests'[r] = UpdatedRow(requests[r], work)
        BY <2>4, <3>3, <4>1, <1>typed, <1>r DEF WorkTyped
      <4>4. /\ requests'[r].creator = requests[r].creator
            /\ requests'[r].status =
                 IF work.status = Nobody THEN requests[r].status ELSE work.status
            /\ requests'[r].assignee = IF work.assigns THEN work.assignee ELSE requests[r].assignee
        BY <4>2, <4>3, <2>1, PatchedRow
      <4>5. work.creator = requests[r].creator
        BY <2>1, <3>3, <4>1 DEF StillHolds
      <4>6. ASSUME NEW about, about \in Tells(work)
            PROVE  s \in Telling(r, about)' /\ doing'[s].assignee = work.assignee
        <5>1. doing'[s] = tell
          BY <2>4, <4>6, <1>typed DEF Do, WorkTyped
        <5>2. /\ tell.step = "tell" /\ tell.request = r /\ tell.status = work.status
              /\ tell.creator = work.creator /\ tell.assigns = work.assigns
              /\ tell.assignee = work.assignee
          BY <2>1, <3>3 DEF WorkItems
        <5>3. about \in Tells(tell)
          BY <5>2, <4>6 DEF Tells, Completes, Assigns
        <5>4. (Tells(doing[s]))' = Tells(tell)
          BY <5>1 DEF Tells, Completes, Assigns
        <5> HIDE DEF tell
        <5>5. QED
          BY <5>1, <5>2, <5>3, <5>4 DEF Telling
      <4>7. \A about, t :
              t \in Telling(r, about) => t \in Telling(r, about)' /\ doing'[t] = doing[t]
        <5>1. \A t \in Servers \ {s} : doing'[t] = doing[t]
          BY <3>1, <1>typed DEF WorkTyped, Do
        <5>2. QED
          BY <5>1, <2>1 DEF Telling, Tells, Completes, Assigns
      <4>8. DoneIsTold(r)'
        <5>1. CASE work.status = Nobody
          <6>1. requests'[r].status = requests[r].status /\ toldDone' = toldDone
            BY <5>1, <4>4, <2>4
          <6>2. QED
            BY <6>1, <4>1, <4>4, <4>7, <1>was, <2>2 DEF DoneIsTold
        <5>2. CASE work.status # Nobody
          <6>1. SUFFICES ASSUME work.status = "complete", requests'[r].creator
                         PROVE  Telling(r, "done")' # {}
            BY <5>2, <4>4 DEF DoneIsTold
          <6>2. Completes(work)
            BY <6>1, <4>4, <4>5 DEF Completes
          <6>3. "done" \in Tells(work)
            BY <6>2 DEF Tells
          <6>4. QED
            BY <6>3, <4>6
        <5>3. QED
          BY <5>1, <5>2
      <4>9. WorkIsTold(r)'
        <5>1. CASE work.assigns
          <6>1. SUFFICES ASSUME work.assignee # Nobody
                         PROVE  \E t \in Telling(r, "work")' : doing'[t].assignee = work.assignee
            BY <5>1, <4>4 DEF WorkIsTold
          <6>2. Assigns(work)
            BY <5>1, <6>1 DEF Assigns
          <6>3. "work" \in Tells(work)
            BY <6>2 DEF Tells
          <6>4. QED
            BY <6>3, <4>6
        <5>2. CASE ~work.assigns
          <6>1. requests'[r].assignee = requests[r].assignee /\ toldWork' = toldWork
            BY <5>2, <4>4, <2>4
          <6>2. QED
            BY <6>1, <4>1, <4>7, <1>was, <2>2 DEF WorkIsTold
        <5>3. QED
          BY <5>1, <5>2
      <4>10. QED
        BY <4>8, <4>9
    <3>4. QED
      BY <3>2, <3>3
  <2>5. QED
    BY <1>5, <2>3, <2>4 DEF Update
<1>6. ASSUME NEW s \in Servers, Tell(s) PROVE DoneIsTold(r)' /\ WorkIsTold(r)'
  <2> DEFINE work == doing[s]
             q    == doing[s].request
  <2>1. work.step = "tell" /\ q \in RequestIds /\ Rest(s) /\ UNCHANGED requests
    BY <1>6 DEF Tell, WorkInv, HandlersHaveRows, Busy
  <2>2. PICK sent \in SUBSET Tells(work) :
          /\ toldDone' = IF "done" \in sent THEN toldDone \cup {q} ELSE toldDone
          /\ toldWork' = IF "work" \in sent
                         THEN [toldWork EXCEPT ![q] = @ \cup {work.assignee}] ELSE toldWork
          /\ untold' = untold \cup {<<q, about>> : about \in Tells(work) \ sent}
    BY <1>6 DEF Tell
  <2>3. \A p \in RequestIds : toldWork[p] \subseteq toldWork'[p]
    BY <2>1, <2>2, <1>typed DEF WorkTyped
  <2>4. "work" \in sent => work.assignee \in toldWork'[q]
    BY <2>1, <2>2, <1>typed DEF WorkTyped
  <2>5. toldDone \subseteq toldDone' /\ untold \subseteq untold'
    BY <2>2
  <2>6. \A about \in Tells(work) : about \in sent \/ <<q, about>> \in untold'
    BY <2>2
  <2>7. r \in Existing /\ DoneIsTold(r) /\ WorkIsTold(r)
    BY <2>1, <1>0, <1>was
  <2>8. "done" \in Tells(work) => q \in toldDone' \/ <<q, "done">> \in untold'
    BY <2>2, <2>6
  <2>9. "work" \in Tells(work) => work.assignee \in toldWork'[q] \/ <<q, "work">> \in untold'
    BY <2>4, <2>6
  <2>10. QED
    BY <2>1, <2>3, <2>5, <2>7, <2>8, <2>9, ToldOrLost
<1>7. ASSUME NEW s \in Servers, Delete(s) PROVE DoneIsTold(r)' /\ WorkIsTold(r)'
  <2>1. requests'[r] = requests[r]
    <3>1. CASE requests' = [requests EXCEPT ![doing[s].request] = Gone]
      <4>1. r # doing[s].request
        BY <3>1, <1>typed, <1>r DEF Existing, WorkTyped
      <4>2. QED
        BY <3>1, <4>1, <1>typed, <1>r DEF WorkTyped
    <3>2. QED
      BY <1>7, <3>1 DEF Delete
  <2>2. QED
    BY <1>7, <1>1, <2>1 DEF Delete, Rest
<1>8. ASSUME NEW s \in Servers, StopServer(s) PROVE DoneIsTold(r)' /\ WorkIsTold(r)'
  <2>1. Rest(s) /\ UNCHANGED <<requests, toldDone, toldWork>>
    BY <1>8 DEF StopServer
  <2>2. CASE doing[s].step # "tell"
    BY <2>1, <2>2, <1>8, <1>1 DEF StopServer, Rest
  <2>3. CASE doing[s].step = "tell"
    <3>1. untold' = untold \cup {<<doing[s].request, about>> : about \in Tells(doing[s])}
      BY <1>8, <2>3 DEF StopServer
    <3>2. \A about \in Tells(doing[s]) : <<doing[s].request, about>> \in untold'
      BY <3>1
    <3>3. QED
      BY <2>1, <2>3, <3>1, <3>2, <1>0, <1>was, ToldOrLost
  <2>4. QED
    BY <2>2, <2>3
<1>9. CASE UNCHANGED workVars
  BY <1>9, <1>0, <1>was DEF workVars, DoneIsTold, WorkIsTold, Telling, Tells, Completes, Assigns
<1>10. QED
  BY <1>2, <1>3, <1>4, <1>5, <1>6, <1>7, <1>8, <1>9 DEF WorkNext, BeginUpdate, BeginDelete

\* Whatever overlaps and fails, who is concerned is told, is being told, or his
\* mail was lost (pm.py, create_request and update_request).
THEOREM NobodyIsForgottenAlways == WorkSpec => []NobodyIsForgotten
<1>1. WorkInit => NobodyIsForgotten
  BY DEF WorkInit, NobodyIsForgotten, Existing
<1>2. WorkInv /\ NobodyIsForgotten /\ [WorkNext]_workVars => NobodyIsForgotten'
  <2> SUFFICES ASSUME WorkInv, NobodyIsForgotten, [WorkNext]_workVars
               PROVE  NobodyIsForgotten'
    OBVIOUS
  <2>1. \A r \in Existing' : DoneIsTold(r)' /\ WorkIsTold(r)'
    BY ToldKept
  <2>2. QED
    BY <2>1 DEF NobodyIsForgotten, DoneIsTold, WorkIsTold
<1>3. QED
  BY <1>1, <1>2, WorkInvAlways, PTL DEF WorkSpec

-----------------------------------------------------------------------------
(***************************************************************************)
(* The rate limiter.  LimiterInv says of every window that its hits are    *)
(* still in the queue, or that the clock has gone on and the threads that  *)
(* are late are among the few that may exceed the limit.                   *)
(***************************************************************************)
Times == 0..MaxTime
Span(t) == (t - Window)..t

\* The hits of a window that are in the queue, and the threads that may yet
\* bring one.
Queued(t) == {k \in DOMAIN hits : hits[k] \in Span(t)}
Late(t) == {c \in Callers : now[c] # -1 /\ now[c] \in Span(t)}

AllAreQueued(t) == HitsIn(Span(t)) <= Cardinality(Queued(t))
IsOvertaken(t) ==
  /\ clock > t
  /\ HitsIn(Span(t)) + Cardinality(Late(t)) <= MaxHits + Cardinality(Callers) - 1

LimiterTyped ==
  /\ clock \in Times
  /\ hits \in Seq(Times) /\ Len(hits) <= MaxHits
  /\ now \in [Callers -> Times \cup {-1}]
  /\ passed \in [Times -> Nat]
  /\ \A c \in Callers : now[c] <= clock
  /\ \A k \in DOMAIN hits : passed[hits[k]] > 0
  /\ hits # <<>> => Callers # {}
  /\ IsFiniteSet(Passed(Times))

LimiterInv == LimiterTyped /\ \A t \in Times : AllAreQueued(t) \/ IsOvertaken(t)

\* What is purged is the head of the queue, and older than the cutoff.
LEMMA PurgedHead ==
  ASSUME NEW S, NEW queue \in Seq(S), NEW cutoff
  PROVE  \E n \in 0..Len(queue) :
           LET rest == Purged(queue, cutoff) IN
           /\ rest \in Seq(S) /\ Len(rest) = Len(queue) - n
           /\ \A k \in 1..Len(rest) : rest[k] = queue[k + n] /\ k + n \in DOMAIN queue
           /\ \A k \in 1..n : ~(queue[k] >= cutoff)
<1> DEFINE keeps == {k \in DOMAIN queue : queue[k] >= cutoff}
<1>0. Len(queue) \in Nat /\ DOMAIN queue = 1..Len(queue)
  OBVIOUS
<1>1. CASE keeps = {}
  <2>1. Purged(queue, cutoff) = <<>>
    BY <1>1 DEF Purged
  <2>2. \A k \in 1..Len(queue) : ~(queue[k] >= cutoff)
    BY <1>0, <1>1
  <2>3. <<>> \in Seq(S) /\ Len(<<>>) = 0 /\ 1..0 = {}
    OBVIOUS
  <2>4. Len(queue) \in 0..Len(queue) /\ 0 = Len(queue) - Len(queue)
    BY <1>0
  <2> WITNESS Len(queue) \in 0..Len(queue)
  <2>5. QED
    BY <2>1, <2>2, <2>3, <2>4
<1>2. CASE keeps # {}
  <2> DEFINE first == CHOOSE k \in keeps : \A j \in keeps : k <= j
             rest == SubSeq(queue, first, Len(queue))
  <2>1. \E k \in keeps : \A j \in keeps : k <= j
    <3>1. keeps \subseteq Nat
      BY <1>0
    <3> HIDE DEF keeps
    <3>2. QED
      BY <1>2, <3>1, SetsHaveLeast
  <2>2. first \in keeps /\ \A j \in keeps : first <= j
    BY <2>1
  <2>3. Purged(queue, cutoff) = rest
    BY <1>2 DEF Purged
  <2> HIDE DEF first
  <2>4. first \in 1..Len(queue) /\ \A k \in 1..Len(queue) : queue[k] >= cutoff => first <= k
    BY <1>0, <2>2
  <2>5. \A k \in first..Len(queue) : queue[k] \in S
    BY <1>0, <2>4
  <2>6. /\ rest \in Seq(S)
        /\ Len(rest) = IF first <= Len(queue) THEN Len(queue) - first + 1 ELSE 0
        /\ \A k \in 1..(Len(queue) - first + 1) : rest[k] = queue[first + k - 1]
    BY <1>0, <2>4, <2>5, SubSeqProperties
  <2> HIDE DEF rest
  <2> DEFINE n == first - 1
  <2>7. n \in 0..Len(queue) /\ Len(rest) = Len(queue) - n
    BY <1>0, <2>4, <2>6
  <2>8. \A k \in 1..Len(rest) : rest[k] = queue[k + n] /\ k + n \in DOMAIN queue
    <3>1. \A k \in 1..Len(rest) : first + k - 1 = k + n /\ k + n \in 1..Len(queue)
          /\ k \in 1..(Len(queue) - first + 1)
      BY <1>0, <2>4, <2>6, <2>7
    <3>2. QED
      BY <1>0, <2>6, <3>1
  <2>9. \A k \in 1..n : ~(queue[k] >= cutoff)
    <3>1. \A k \in 1..n : k \in 1..Len(queue) /\ ~(first <= k)
      BY <1>0, <2>4
    <3>2. QED
      BY <2>4, <3>1
  <2>10. QED
    BY <2>3, <2>6, <2>7, <2>8, <2>9
<1>3. QED
  BY <1>1, <1>2

LEMMA HitsAreFinite ==
  ASSUME LimiterTyped, NEW times
  PROVE  /\ IsFiniteSet(Passed(times)) /\ HitsIn(times) \in Nat
         /\ \A t \in times \cap Times : passed[t] > 0 => HitsIn(times) > 0
<1>1. DOMAIN passed = Times
  BY DEF LimiterTyped
<1>2. Passed(times) \subseteq Passed(Times)
  BY <1>1 DEF Passed
<1>3. IsFiniteSet(Passed(times)) /\ HitsIn(times) \in Nat
  BY <1>2, FS_Subset, FS_CardinalityType DEF HitsIn, LimiterTyped
<1>4. ASSUME NEW t \in times \cap Times, passed[t] > 0 PROVE HitsIn(times) > 0
  <2>1. passed[t] \in Nat
    BY DEF LimiterTyped
  <2>2. 1 \in 1..passed[t]
    BY <1>4, <2>1
  <2>3. <<t, 1>> \in Passed(times)
    BY <1>1, <2>2 DEF Passed
  <2>4. HitsIn(times) # 0
    BY <1>3, <2>3, FS_EmptySet DEF HitsIn
  <2>5. QED
    BY <1>3, <2>4
<1>5. QED
  BY <1>3, <1>4

\* One hit more of a time.
LEMMA OneIsPassed ==
  ASSUME LimiterTyped, NEW u \in Times, passed' = [passed EXCEPT ![u] = @ + 1], NEW times
  PROVE  /\ IsFiniteSet(Passed(times)')
         /\ HitsIn(times)' = IF u \in times THEN HitsIn(times) + 1 ELSE HitsIn(times)
<1> DEFINE new == <<u, passed[u] + 1>>
<1>1. passed \in [Times -> Nat] /\ passed[u] \in Nat
  BY DEF LimiterTyped
<1>2. /\ DOMAIN passed = Times /\ DOMAIN passed' = Times
      /\ passed'[u] = passed[u] + 1 /\ \A t \in Times \ {u} : passed'[t] = passed[t]
  BY <1>1
<1>3. 1..passed'[u] = 1..passed[u] \cup {passed[u] + 1}
  BY <1>1, <1>2
<1>4. Passed(times)' = UNION {{t} \X (1..passed'[t]) : t \in times \cap Times}
  BY <1>2 DEF Passed
<1>5. Passed(times) = UNION {{t} \X (1..passed[t]) : t \in times \cap Times}
  BY <1>2 DEF Passed
<1>6. new \notin Passed(times)
  <2>1. passed[u] + 1 \notin 1..passed[u]
    BY <1>1
  <2>2. QED
    BY <1>5, <2>1
<1>7. IsFiniteSet(Passed(times)) /\ HitsIn(times) = Cardinality(Passed(times))
  BY HitsAreFinite DEF HitsIn
<1>8. HitsIn(times)' = Cardinality(Passed(times)')
  BY DEF HitsIn
<1>9. CASE u \in times
  <2>1. Passed(times)' = Passed(times) \cup {new}
    BY <1>2, <1>3, <1>4, <1>5, <1>9
  <2>2. QED
    BY <1>6, <1>7, <1>8, <1>9, <2>1, FS_AddElement
<1>10. CASE u \notin times
  <2>1. Passed(times)' = Passed(times)
    BY <1>2, <1>4, <1>5, <1>10
  <2>2. QED
    BY <1>7, <1>8, <1>10, <2>1
<1>11. QED
  BY <1>9, <1>10

LEMMA FewAreQueued ==
  ASSUME LimiterTyped, NEW t
  PROVE  /\ IsFiniteSet(Queued(t)) /\ Cardinality(Queued(t)) \in Nat
         /\ Cardinality(Queued(t)) <= Len(hits) /\ Len(hits) \in Nat
<1>1. Len(hits) \in Nat /\ DOMAIN hits = 1..Len(hits)
  BY DEF LimiterTyped
<1>2. IsFiniteSet(1..Len(hits)) /\ Cardinality(1..Len(hits)) = Len(hits)
  <2>1. /\ IsFiniteSet(1..Len(hits))
        /\ Cardinality(1..Len(hits)) = IF 1 > Len(hits) THEN 0 ELSE Len(hits) - 1 + 1
    BY <1>1, FS_Interval
  <2>2. QED
    BY <1>1, <2>1
<1>3. Queued(t) \subseteq 1..Len(hits)
  BY <1>1 DEF Queued
<1>4. QED
  BY <1>1, <1>2, <1>3, FS_Subset, FS_CardinalityType

LEMMA FewAreLate ==
  ASSUME NEW t
  PROVE  /\ IsFiniteSet(Late(t)) /\ Cardinality(Late(t)) \in Nat
         /\ IsFiniteSet(Callers) /\ Cardinality(Callers) \in Nat
         /\ Callers # {} => Cardinality(Callers) > 0
<1>1. IsFiniteSet(Callers) /\ Late(t) \subseteq Callers
  BY LimiterAssumption DEF Late
<1>2. Callers # {} => Cardinality(Callers) # 0
  BY <1>1, FS_EmptySet
<1>3. QED
  BY <1>1, <1>2, FS_Subset, FS_CardinalityType

\* What is left of the queue holds the hits of every window that does not end
\* before the time it was purged by.
LEMMA RestIsQueued ==
  ASSUME LimiterTyped, NEW u \in Times, NEW t \in Times, u <= t,
         NEW rest, rest = Purged(hits, u - Window)
  PROVE  LET left == {k \in 1..Len(rest) : rest[k] \in Span(t)} IN
         /\ IsFiniteSet(left) /\ Cardinality(left) \in Nat
         /\ Cardinality(Queued(t)) <= Cardinality(left)
<1> DEFINE left == {k \in 1..Len(rest) : rest[k] \in Span(t)}
<1>0. /\ hits \in Seq(Times) /\ DOMAIN hits = 1..Len(hits) /\ Len(hits) \in Nat
      /\ Window \in Nat /\ Times \subseteq Nat
  BY LimiterAssumption DEF LimiterTyped, Times
<1>1. PICK n \in 0..Len(hits) :
        /\ rest \in Seq(Times) /\ Len(rest) = Len(hits) - n
        /\ \A k \in 1..Len(rest) : rest[k] = hits[k + n] /\ k + n \in DOMAIN hits
        /\ \A k \in 1..n : ~(hits[k] >= u - Window)
  BY <1>0, PurgedHead
<1>2. Len(rest) \in Nat
  BY <1>0, <1>1
<1>3. left \subseteq 1..Len(rest) /\ IsFiniteSet(1..Len(rest))
  BY <1>2, FS_Interval
<1>4. IsFiniteSet(left) /\ Cardinality(left) \in Nat
  BY <1>3, FS_Subset, FS_CardinalityType
<1> DEFINE shift == [k \in Queued(t) |-> k - n]
<1>5. ASSUME NEW k \in Queued(t) PROVE k - n \in left /\ k \in Nat
  <2>1. k \in 1..Len(hits) /\ hits[k] \in Times /\ hits[k] \in Span(t)
    BY <1>0, <1>5 DEF Queued
  <2>2. hits[k] >= u - Window
    BY <1>0, <2>1 DEF Span
  <2>3. ~(k <= n)
    BY <1>0, <1>1, <2>1, <2>2
  <2>4. k - n \in 1..Len(rest) /\ (k - n) + n = k
    BY <1>0, <1>1, <2>1, <2>3
  <2>5. rest[k - n] = hits[k]
    BY <1>1, <2>4
  <2>6. QED
    BY <2>1, <2>4, <2>5
<1> HIDE DEF left
<1>6. shift \in Injection(Queued(t), left)
  <2>1. shift \in [Queued(t) -> left]
    BY <1>5
  <2>2. \A j, k \in Queued(t) : shift[j] = shift[k] => j = k
    BY <1>1, <1>5
  <2>3. QED
    BY <2>1, <2>2 DEF Injection, IsInjective
<1>7. Cardinality(Queued(t)) <= Cardinality(left)
  BY <1>4, <1>6, FS_Injection
<1>8. QED
  BY <1>4, <1>7 DEF left

LEMMA AllowKeepsTyped ==
  ASSUME LimiterTyped, NEW c \in Callers, Allow(c)
  PROVE  LimiterTyped'
<1> DEFINE u == now[c]
           rest == Purged(hits, u - Window)
<1>0. /\ hits \in Seq(Times) /\ DOMAIN hits = 1..Len(hits) /\ Len(hits) \in Nat
      /\ MaxHits \in Nat
  BY LimiterAssumption DEF LimiterTyped
<1>1. u \in Times /\ now' = [now EXCEPT ![c] = -1] /\ clock' = clock
      /\ IF Len(rest) >= MaxHits
         THEN hits' = rest /\ UNCHANGED passed
         ELSE /\ hits' = Append(rest, u)
              /\ passed' = [passed EXCEPT ![u] = @ + 1]
  BY DEF Allow, LimiterTyped
<1> HIDE DEF u, rest
<1>2. PICK n \in 0..Len(hits) :
        /\ rest \in Seq(Times) /\ Len(rest) = Len(hits) - n
        /\ \A k \in 1..Len(rest) : rest[k] = hits[k + n] /\ k + n \in DOMAIN hits
  BY <1>0, PurgedHead DEF rest
<1>3. Len(rest) \in Nat /\ Len(rest) <= Len(hits) /\ DOMAIN rest = 1..Len(rest)
  BY <1>0, <1>2
<1>4. \A k \in 1..Len(rest) : passed[rest[k]] > 0
  BY <1>2 DEF LimiterTyped
<1>5. now' \in [Callers -> Times \cup {-1}] /\ \A b \in Callers : now'[b] <= clock'
  <2>1. clock \in Nat /\ -1 <= clock
    BY LimiterAssumption DEF LimiterTyped, Times
  <2>2. QED
    BY <1>1, <2>1 DEF LimiterTyped
<1>6. CASE Len(rest) >= MaxHits
  <2>1. hits' = rest /\ passed' = passed
    BY <1>1, <1>6
  <2>2. Passed(Times)' = Passed(Times)
    BY <2>1 DEF Passed
  <2>3. /\ hits' \in Seq(Times) /\ Len(hits') <= MaxHits
        /\ \A k \in DOMAIN hits' : passed'[hits'[k]] > 0
    BY <1>2, <1>3, <1>4, <2>1, <1>0 DEF LimiterTyped
  <2>4. QED
    BY <1>1, <1>5, <2>1, <2>2, <2>3 DEF LimiterTyped
<1>7. CASE ~(Len(rest) >= MaxHits)
  <2>1. hits' = Append(rest, u) /\ passed' = [passed EXCEPT ![u] = @ + 1]
    BY <1>1, <1>7
  <2>2. /\ hits' \in Seq(Times) /\ Len(hits') = Len(rest) + 1
        /\ \A k \in 1..Len(rest) : hits'[k] = rest[k]
        /\ hits'[Len(rest) + 1] = u
    BY <1>1, <1>2, <2>1, AppendProperties
  <2>3. passed \in [Times -> Nat]
    BY DEF LimiterTyped
  <2>4. /\ passed' \in [Times -> Nat] /\ passed'[u] > 0
        /\ \A t \in Times : passed[t] > 0 => passed'[t] > 0
    BY <1>1, <2>1, <2>3
  <2>5. \A k \in DOMAIN hits' : passed'[hits'[k]] > 0
    <3>1. DOMAIN hits' = 1..Len(rest) \cup {Len(rest) + 1}
      BY <1>3, <2>2
    <3>2. \A k \in 1..Len(rest) : rest[k] \in Times
      BY <1>2
    <3>3. QED
      BY <1>4, <2>2, <2>4, <3>1, <3>2
  <2>6. IsFiniteSet(Passed(Times)')
    BY <1>1, <2>1, OneIsPassed
  <2>7. Len(hits') <= MaxHits
    BY <1>0, <1>3, <1>7, <2>2
  <2>8. clock' \in Times
    BY <1>1 DEF LimiterTyped
  <2>9. QED
    BY <1>5, <2>2, <2>4, <2>5, <2>6, <2>7, <2>8 DEF LimiterTyped
<1>8. QED
  BY <1>6, <1>7

LEMMA AllowKeepsWindow ==
  ASSUME LimiterInv, NEW c \in Callers, Allow(c), NEW t \in Times
  PROVE  AllAreQueued(t)' \/ IsOvertaken(t)'
<1> DEFINE u == now[c]
           rest == Purged(hits, u - Window)
           n == Cardinality(Callers)
           in == HitsIn(Span(t))
           held == Cardinality(Queued(t))
           late == Cardinality(Late(t))
<1>a. LimiterTyped /\ (AllAreQueued(t) \/ IsOvertaken(t))
  BY DEF LimiterInv
<1>0. /\ hits \in Seq(Times) /\ DOMAIN hits = 1..Len(hits) /\ Len(hits) \in Nat
      /\ MaxHits \in Nat /\ Times \subseteq Nat /\ clock \in Nat /\ t \in Nat
  BY <1>a, LimiterAssumption DEF LimiterTyped, Times
<1>1. /\ u \in Times /\ u # -1 /\ u <= clock
      /\ now' = [now EXCEPT ![c] = -1] /\ clock' = clock
      /\ IF Len(rest) >= MaxHits
         THEN hits' = rest /\ UNCHANGED passed
         ELSE /\ hits' = Append(rest, u)
              /\ passed' = [passed EXCEPT ![u] = @ + 1]
  BY <1>a DEF Allow, LimiterTyped
<1>2. in \in Nat /\ held \in Nat /\ held <= Len(hits) /\ Len(hits) <= MaxHits
      /\ late \in Nat /\ n \in Nat /\ n > 0
  BY <1>a, HitsAreFinite, FewAreQueued, FewAreLate DEF LimiterTyped
<1>3. HitsIn(Span(t))' = in \/ (u \in Span(t) /\ HitsIn(Span(t))' = in + 1)
  <2>1. CASE passed' = passed
    <3>1. Passed(Span(t))' = Passed(Span(t))
      BY <2>1 DEF Passed, Span
    <3>2. QED
      BY <3>1 DEF HitsIn
  <2>2. CASE passed' = [passed EXCEPT ![u] = @ + 1]
    <3>1. HitsIn(Span(t))' = IF u \in Span(t) THEN in + 1 ELSE in
      BY <1>a, <1>1, <2>2, OneIsPassed DEF Span
    <3>2. QED
      BY <3>1
  <2>3. QED
    BY <1>1, <2>1, <2>2
<1>4. /\ \A b \in Callers \ {c} : now'[b] = now[b]
      /\ now'[c] = -1
  BY <1>a, <1>1 DEF LimiterTyped
<1>5. Late(t)' = Late(t) \ {c}
  BY <1>4 DEF Late, Span
<1>6. CASE AllAreQueued(t) /\ u <= t
  <2> DEFINE left == {k \in 1..Len(rest) : rest[k] \in Span(t)}
  <2>1. IsFiniteSet(left) /\ Cardinality(left) \in Nat /\ held <= Cardinality(left)
    BY <1>a, <1>1, <1>6, RestIsQueued
  <2>2. PICK cut \in 0..Len(hits) : rest \in Seq(Times)
    BY <1>0, PurgedHead
  <2>3. DOMAIN rest = 1..Len(rest) /\ Len(rest) \in Nat
    BY <2>2
  <2>4. in <= held
    BY <1>6 DEF AllAreQueued
  <2>5. Queued(t)' = {k \in DOMAIN hits' : hits'[k] \in Span(t)}
    BY DEF Queued, Span
  <2>6. CASE Len(rest) >= MaxHits
    <3>1. hits' = rest /\ passed' = passed
      BY <1>1, <2>6
    <3>2. Queued(t)' = left
      BY <2>3, <2>5, <3>1
    <3>3. HitsIn(Span(t))' = in
      <4>1. Passed(Span(t))' = Passed(Span(t))
        BY <3>1 DEF Passed, Span
      <4>2. QED
        BY <4>1 DEF HitsIn
    <3> HIDE DEF in, held, left
    <3>4. in <= Cardinality(left)
      BY <1>2, <2>1, <2>4
    <3>5. QED
      BY <3>2, <3>3, <3>4 DEF AllAreQueued
  <2>7. CASE ~(Len(rest) >= MaxHits)
    <3>1. hits' = Append(rest, u)
      BY <1>1, <2>7
    <3>2. /\ Len(hits') = Len(rest) + 1 /\ DOMAIN hits' = 1..Len(hits')
          /\ \A k \in 1..Len(rest) : hits'[k] = rest[k]
          /\ hits'[Len(rest) + 1] = u
      BY <1>1, <2>2, <3>1, AppendProperties
    <3>3. 1..Len(hits') = 1..Len(rest) \cup {Len(rest) + 1} /\ Len(rest) + 1 \notin 1..Len(rest)
      BY <2>3, <3>2
    <3> HIDE DEF rest
    <3>4. CASE u \in Span(t)
      <4>1. Queued(t)' = left \cup {Len(rest) + 1} /\ Len(rest) + 1 \notin left
        BY <2>5, <3>2, <3>3, <3>4
      <4>2. Cardinality(Queued(t)') = Cardinality(left) + 1
        BY <2>1, <4>1, FS_AddElement
      <4>3. HitsIn(Span(t))' <= in + 1
        BY <1>2, <1>3
      <4>4. HitsIn(Span(t))' \in Nat
        BY <1>2, <1>3
      <4> HIDE DEF in, held, left
      <4>5. HitsIn(Span(t))' <= Cardinality(left) + 1
        BY <1>2, <2>1, <2>4, <4>3, <4>4
      <4>6. QED
        BY <4>2, <4>5 DEF AllAreQueued
    <3>5. CASE u \notin Span(t)
      <4>1. Queued(t)' = left
        BY <2>5, <3>2, <3>3, <3>5
      <4>2. HitsIn(Span(t))' = in
        BY <1>3, <3>5
      <4> HIDE DEF in, held, left
      <4>3. in <= Cardinality(left)
        BY <1>2, <2>1, <2>4
      <4>4. QED
        BY <4>1, <4>2, <4>3 DEF AllAreQueued
    <3>6. QED
      BY <3>4, <3>5
  <2>8. QED
    BY <2>6, <2>7
<1>7. CASE AllAreQueued(t) /\ ~(u <= t)
  <2>1. u \notin Span(t)
    BY <1>0, <1>1, <1>7, LimiterAssumption DEF Span
  <2>2. HitsIn(Span(t))' = in
    BY <1>3, <2>1
  <2>3. in <= MaxHits
    <3>1. in <= held
      BY <1>7 DEF AllAreQueued
    <3> HIDE DEF in, held
    <3>2. QED
      BY <1>0, <1>2, <3>1
  <2>4. Late(t)' \subseteq Callers \ {c}
    BY <1>5 DEF Late
  <2>5. Cardinality(Late(t)') \in Nat /\ Cardinality(Late(t)') <= n - 1
    <3>1. IsFiniteSet(Callers \ {c}) /\ Cardinality(Callers \ {c}) = n - 1
      BY FewAreLate, FS_RemoveElement
    <3>2. QED
      BY <2>4, <3>1, FS_Subset, FS_CardinalityType
  <2>6. clock' > t
    <3>1. u \in Nat
      BY <1>0, <1>1
    <3> HIDE DEF u
    <3>2. QED
      BY <1>0, <1>1, <1>7, <3>1
  <2> HIDE DEF in, n
  <2>7. in + Cardinality(Late(t)') <= MaxHits + n - 1
    BY <1>0, <1>2, <2>3, <2>5
  <2>8. QED
    BY <2>2, <2>6, <2>7 DEF IsOvertaken, n
<1>8. CASE IsOvertaken(t)
  <2>1. clock' > t /\ in + late <= MaxHits + n - 1
    BY <1>1, <1>8 DEF IsOvertaken
  <2>2. IsFiniteSet(Late(t))
    BY FewAreLate
  <2>3. CASE u \in Span(t)
    <3>1. c \in Late(t)
      BY <1>1, <2>3 DEF Late
    <3>2. Cardinality(Late(t)') = late - 1
      BY <1>5, <2>2, <3>1, FS_RemoveElement
    <3>3. HitsIn(Span(t))' \in Nat /\ HitsIn(Span(t))' <= in + 1
      BY <1>2, <1>3
    <3> HIDE DEF in, late, n
    <3>4. HitsIn(Span(t))' + (late - 1) <= MaxHits + n - 1
      BY <1>0, <1>2, <2>1, <3>3
    <3>5. QED
      BY <2>1, <3>2, <3>4 DEF IsOvertaken, n
  <2>4. CASE u \notin Span(t)
    <3>1. Late(t)' \subseteq Late(t)
      BY <1>5
    <3>2. Cardinality(Late(t)') \in Nat /\ Cardinality(Late(t)') <= late
      BY <2>2, <3>1, FS_Subset, FS_CardinalityType
    <3>3. HitsIn(Span(t))' = in
      BY <1>3, <2>4
    <3> HIDE DEF in, late, n
    <3>4. in + Cardinality(Late(t)') <= MaxHits + n - 1
      BY <1>0, <1>2, <2>1, <3>2
    <3>5. QED
      BY <2>1, <3>3, <3>4 DEF IsOvertaken, n
  <2>5. QED
    BY <2>3, <2>4
<1>9. QED
  BY <1>a, <1>6, <1>7, <1>8

LEMMA StaysLimited == LimiterInv /\ [LimiterNext]_limiterVars => LimiterInv'
<1> SUFFICES ASSUME LimiterInv, [LimiterNext]_limiterVars PROVE LimiterInv'
  OBVIOUS
<1>0. LimiterTyped
  BY DEF LimiterInv
<1>1. CASE UNCHANGED limiterVars
  <2>1. LimiterTyped'
    BY <1>0, <1>1 DEF LimiterTyped, Passed, limiterVars
  <2>2. ASSUME NEW t \in Times PROVE AllAreQueued(t)' \/ IsOvertaken(t)'
    <3>1. /\ HitsIn(Span(t))' = HitsIn(Span(t))
          /\ Cardinality(Queued(t))' = Cardinality(Queued(t))
          /\ Cardinality(Late(t))' = Cardinality(Late(t)) /\ clock' = clock
      BY <1>1 DEF limiterVars, HitsIn, Passed, Queued, Late, Span
    <3>2. QED
      BY <3>1 DEF LimiterInv, AllAreQueued, IsOvertaken
  <2>3. QED
    BY <2>1, <2>2 DEF LimiterInv
<1>2. CASE Tick
  <2>1. clock' \in Times /\ clock \in Nat /\ clock' = clock + 1
        /\ hits' = hits /\ now' = now /\ passed' = passed
    BY <1>0, <1>2, LimiterAssumption DEF Tick, LimiterTyped, Times
  <2>2. LimiterTyped'
    <3>1. \A c \in Callers : now'[c] <= clock'
      <4>1. \A c \in Callers : now[c] \in Int /\ now[c] <= clock
        BY <1>0, LimiterAssumption DEF LimiterTyped, Times
      <4>2. QED
        BY <2>1, <4>1
    <3>2. QED
      BY <1>0, <2>1, <3>1 DEF LimiterTyped, Passed
  <2>3. ASSUME NEW t \in Times PROVE AllAreQueued(t)' \/ IsOvertaken(t)'
    <3>1. /\ HitsIn(Span(t))' = HitsIn(Span(t))
          /\ Cardinality(Queued(t))' = Cardinality(Queued(t))
          /\ Cardinality(Late(t))' = Cardinality(Late(t))
      BY <2>1 DEF HitsIn, Passed, Queued, Late, Span
    <3>2. clock > t => clock' > t
      BY <2>1, LimiterAssumption DEF Times
    <3>3. QED
      BY <3>1, <3>2 DEF LimiterInv, AllAreQueued, IsOvertaken
  <2>4. QED
    BY <2>2, <2>3 DEF LimiterInv
<1>3. ASSUME NEW c \in Callers, ReadClock(c) PROVE LimiterInv'
  <2>1. clock' = clock /\ clock \in Nat /\ hits' = hits /\ passed' = passed
        /\ now' = [now EXCEPT ![c] = clock]
    BY <1>0, <1>3, LimiterAssumption DEF ReadClock, LimiterTyped, Times
  <2>2. LimiterTyped'
    BY <1>0, <2>1 DEF LimiterTyped, Passed
  <2>3. ASSUME NEW t \in Times PROVE AllAreQueued(t)' \/ IsOvertaken(t)'
    <3>1. /\ HitsIn(Span(t))' = HitsIn(Span(t))
          /\ Cardinality(Queued(t))' = Cardinality(Queued(t))
      BY <2>1 DEF HitsIn, Passed, Queued, Span
    <3>2. CASE AllAreQueued(t)
      BY <3>1, <3>2 DEF AllAreQueued
    <3>3. CASE IsOvertaken(t)
      <4>1. t \in Nat /\ clock > t
        BY <3>3, LimiterAssumption DEF IsOvertaken, Times
      <4>2. clock \notin Span(t)
        BY <2>1, <4>1, LimiterAssumption DEF Span
      <4>3. Late(t)' \subseteq Late(t)
        BY <1>0, <2>1, <4>2 DEF Late, Span, LimiterTyped
      <4>4. /\ Cardinality(Late(t)') \in Nat
            /\ Cardinality(Late(t)') <= Cardinality(Late(t))
        BY <4>3, FewAreLate, FS_Subset, FS_CardinalityType
      <4>5. HitsIn(Span(t)) \in Nat /\ Cardinality(Late(t)) \in Nat
            /\ Cardinality(Callers) \in Nat /\ MaxHits \in Nat
        BY <1>0, HitsAreFinite, FewAreLate, LimiterAssumption
      <4>6. HitsIn(Span(t)) + Cardinality(Late(t)') <= MaxHits + Cardinality(Callers) - 1
        BY <3>3, <4>4, <4>5 DEF IsOvertaken
      <4>7. QED
        BY <2>1, <3>1, <4>1, <4>6 DEF IsOvertaken
    <3>4. QED
      BY <3>2, <3>3 DEF LimiterInv
  <2>4. QED
    BY <2>2, <2>3 DEF LimiterInv
<1>4. ASSUME NEW c \in Callers, Allow(c) PROVE LimiterInv'
  BY <1>0, <1>4, AllowKeepsTyped, AllowKeepsWindow DEF LimiterInv
<1>5. QED
  BY <1>1, <1>2, <1>3, <1>4 DEF LimiterNext

LEMMA QuietKeys == LimiterTyped => QuietClears
<1> SUFFICES ASSUME LimiterTyped, NEW t \in Times, ~(HitsIn((t - Window)..MaxTime) > 0)
             PROVE  Purged(hits, t - Window) = <<>>
  BY DEF QuietClears, LimiterTyped
<1>1. \A u \in Times : u \in (t - Window)..MaxTime => ~(passed[u] > 0)
  <2> DEFINE times == (t - Window)..MaxTime
  <2>1. ~(HitsIn(times) > 0)
    OBVIOUS
  <2> HIDE DEF times
  <2>2. \A u \in times \cap Times : passed[u] > 0 => HitsIn(times) > 0
    BY HitsAreFinite
  <2>3. \A u \in Times : u \in times => ~(passed[u] > 0)
    BY <2>1, <2>2
  <2>4. QED
    BY <2>3 DEF times
<1>2. ASSUME NEW k \in DOMAIN hits PROVE ~(hits[k] >= t - Window)
  <2>1. hits[k] \in Times /\ passed[hits[k]] > 0
    BY DEF LimiterTyped
  <2>2. hits[k] \notin (t - Window)..MaxTime
    BY <1>1, <2>1
  <2>3. QED
    BY <2>1, <2>2, LimiterAssumption DEF Times
<1>3. {k \in DOMAIN hits : hits[k] >= t - Window} = {}
  BY <1>2
<1>4. QED
  BY <1>3 DEF Purged

LEMMA FewExceed == LimiterInv => FewExceedTheWindow
<1> SUFFICES ASSUME LimiterInv, NEW t \in Times
             PROVE  HitsIn(Span(t)) <= MaxHits + Cardinality(Callers) - 1
  BY DEF FewExceedTheWindow, Span, Times
<1> DEFINE n == Cardinality(Callers)
           in == HitsIn(Span(t))
           held == Cardinality(Queued(t))
           late == Cardinality(Late(t))
<1>0. LimiterTyped
  BY DEF LimiterInv
<1>1. /\ in \in Nat /\ held \in Nat /\ held <= Len(hits) /\ Len(hits) <= MaxHits
      /\ Len(hits) \in Nat /\ late \in Nat /\ n \in Nat /\ MaxHits \in Nat \ {0}
      /\ Len(hits) > 0 => n > 0
  BY <1>0, HitsAreFinite, FewAreQueued, FewAreLate, LimiterAssumption DEF LimiterTyped
<1>2. in <= held \/ in + late <= MaxHits + n - 1
  BY DEF LimiterInv, AllAreQueued, IsOvertaken
<1> HIDE DEF n, in, held, late
<1>3. in <= MaxHits + n - 1
  BY <1>1, <1>2
<1>4. QED
  BY <1>3 DEF n, in

(***************************************************************************)
(* For any number of threads and any window: no window lets through more   *)
(* hits than it is to, but one for each further thread, and whoever calls  *)
(* a window after the last hit is let in (ratelimit.py:14-33).             *)
(***************************************************************************)
THEOREM WindowIsKeptAlways == LimiterSpec => []WindowIsKept
<1>1. LimiterInit => LimiterInv
  <2> SUFFICES ASSUME LimiterInit PROVE LimiterInv
    OBVIOUS
  <2>1. \A times : Passed(times) = {} /\ HitsIn(times) = 0
    <3>1. \A times : Passed(times) = {}
      BY DEF LimiterInit, Passed
    <3>2. QED
      BY <3>1, FS_EmptySet DEF HitsIn
  <2>2. LimiterTyped
    <3>1. IsFiniteSet(Passed(Times))
      BY <2>1, FS_EmptySet
    <3>2. clock \in Times /\ \A c \in Callers : now[c] <= clock
      BY LimiterAssumption DEF LimiterInit, Times
    <3>3. hits = <<>> /\ Len(hits) <= MaxHits /\ hits \in Seq(Times) /\ DOMAIN hits = {}
      BY LimiterAssumption DEF LimiterInit
    <3>4. now \in [Callers -> Times \cup {-1}] /\ passed \in [Times -> Nat]
      BY DEF LimiterInit, Times
    <3>5. QED
      BY <3>1, <3>2, <3>3, <3>4 DEF LimiterTyped
  <2>3. \A t \in Times : AllAreQueued(t)
    BY <2>1, <2>2, FewAreQueued DEF AllAreQueued
  <2>4. QED
    BY <2>2, <2>3 DEF LimiterInv
<1>2. LimiterInv /\ [LimiterNext]_limiterVars => LimiterInv'
  BY StaysLimited
<1>3. LimiterInv => WindowIsKept
  BY QuietKeys, FewExceed DEF WindowIsKept, LimiterInv
<1>4. QED
  BY <1>1, <1>2, <1>3, PTL DEF LimiterSpec

-----------------------------------------------------------------------------
(***************************************************************************)
(* The generation of a document.  DraftInv relates what was generated and  *)
(* missed to the slots that were asked for, the draft to what was          *)
(* generated at each label, and the document to the draft and the edits.   *)
(***************************************************************************)
AskedSlots == {Slots[k] : k \in 1..Asked}

DraftPhases == {"metadata", "draft", "slot", "save", "insert", "preview", "document",
                "controls", "done", "failed", "unsaved"}

DraftTyped ==
  /\ generated \in Seq(SlotSet) /\ missed \in Seq(SlotSet)
  /\ Asked <= Len(Slots)
  /\ edited \in [SlotSet -> {"no"} \cup Edits]
  /\ mapped \subseteq Registered
  /\ phase \in DraftPhases

\* What was asked for is generated or missed, and none of it is skipped.
SlotsAreAsked ==
  /\ ToSet(generated) \cup ToSet(missed) = AskedSlots
  /\ ToSet(generated) \cap ToSet(missed) = {}
  /\ InSlotOrder(generated) /\ InSlotOrder(missed)
  /\ missed = <<>> => \A k \in 1..Len(generated) : generated[k] = Slots[k]

\* What the draft holds of what was generated, and, once there is a document,
\* of that.
DraftHolds ==
  /\ phase \in {"metadata", "draft"} => draft = NoDraft /\ generated = <<>> /\ missed = <<>>
  /\ phase \in {"slot", "preview"} => draft = generated
  /\ phase = "save" => generated # <<>> /\ draft = Front(generated)
  /\ phase \in {"insert", "document"} => draft = <<>>
  /\ phase \in {"controls", "done"} => draft = Slots
  /\ phase = "preview" => Asked = Len(Slots)
  /\ phase = "failed" => draft = generated \/ (draft = NoDraft /\ generated = <<>>)
  /\ phase = "unsaved" => \/ draft \in {<<>>, LastSaved, ToBeSaved}
                          \/ draft = NoDraft /\ generated = <<>>
  /\ phase \notin {"document", "controls", "done", "unsaved"} => written = <<>>

\* Fields are edited in the preview, and a document is made of them.
IsWhole ==
  /\ [k \in DOMAIN written |-> written[k][1]] = Slots
  /\ \A k \in DOMAIN Slots :
       /\ written[k][2] = "edited" <=> edited[Slots[k]] = "text"
       /\ Slots[k] \in ToSet(missed) => written[k][2] = "edited"

DocumentFollows ==
  /\ phase \in {"metadata", "draft", "slot", "save", "insert"} =>
       \A s \in SlotSet : edited[s] = "no"
  /\ phase \in {"document", "controls", "done"} => IsWhole

DraftInv == DraftTyped /\ SlotsAreAsked /\ DraftHolds /\ DocumentFollows

LEMMA SlotsAreASequence ==
  /\ Slots \in Seq(SlotSet) /\ Len(Slots) \in Nat \ {0} /\ DOMAIN Slots = 1..Len(Slots)
  /\ \A j, k \in DOMAIN Slots : Slots[j] = Slots[k] => j = k
  /\ \A k \in DOMAIN Slots : Slots[k] \in SlotSet /\ Place(Slots[k]) = k
<1>1. /\ Slots \in Seq(SlotSet) /\ Slots # <<>> /\ DOMAIN Slots = 1..Len(Slots)
      /\ \A j, k \in DOMAIN Slots : Slots[j] = Slots[k] => j = k
  BY DraftAssumption DEF SlotSet, IsInjective
<1>2. Len(Slots) \in Nat /\ Len(Slots) # 0
  BY <1>1, EmptySeq
<1>3. ASSUME NEW k \in DOMAIN Slots PROVE Slots[k] \in SlotSet /\ Place(Slots[k]) = k
  BY <1>1 DEF Place
<1>4. QED
  BY <1>1, <1>2, <1>3

LEMMA AskedIsCounted ==
  ASSUME generated \in Seq(SlotSet), missed \in Seq(SlotSet)
  PROVE  Asked \in Nat /\ Len(generated) \in Nat /\ Len(missed) \in Nat
  BY DEF Asked

\* The next slot comes after those of a part.
LEMMA NextComesLast ==
  ASSUME DraftTyped, Asked < Len(Slots), NEW part \in Seq(SlotSet),
         ToSet(part) \subseteq AskedSlots, InSlotOrder(part)
  PROVE  /\ NextSlot \in SlotSet /\ NextSlot \notin AskedSlots
         /\ Append(part, NextSlot) \in Seq(SlotSet)
         /\ Len(Append(part, NextSlot)) = Len(part) + 1
         /\ ToSet(Append(part, NextSlot)) = ToSet(part) \cup {NextSlot}
         /\ InSlotOrder(Append(part, NextSlot))
<1> DEFINE n == Asked + 1
           longer == Append(part, NextSlot)
<1>1. Asked \in Nat /\ n \in DOMAIN Slots /\ n \notin 1..Asked
  BY AskedIsCounted, SlotsAreASequence DEF DraftTyped
<1>2. \A k \in 1..Asked : k \in DOMAIN Slots /\ k < n
  BY <1>1, SlotsAreASequence DEF DraftTyped
<1>3. NextSlot = Slots[n] /\ NextSlot \in SlotSet /\ Place(NextSlot) = n
  BY <1>1, SlotsAreASequence DEF NextSlot
<1>4. \A s \in AskedSlots : Place(s) < n
  BY <1>2, SlotsAreASequence DEF AskedSlots
<1>5. NextSlot \notin AskedSlots
  BY <1>1, <1>3, <1>4
<1>6. /\ longer \in Seq(SlotSet) /\ Len(longer) = Len(part) + 1 /\ Len(part) \in Nat
      /\ \A k \in 1..Len(part) : longer[k] = part[k]
      /\ longer[Len(part) + 1] = NextSlot
  BY <1>3, AppendProperties
<1>7. DOMAIN part = 1..Len(part) /\ DOMAIN longer = 1..Len(part) \cup {Len(part) + 1}
      /\ Len(part) + 1 \notin 1..Len(part)
  BY <1>6
<1>8. ToSet(longer) = ToSet(part) \cup {NextSlot}
  BY <1>6, <1>7 DEF ToSet
<1>9. InSlotOrder(longer)
  <2> SUFFICES ASSUME NEW i \in DOMAIN longer, NEW j \in DOMAIN longer, i < j
               PROVE  Place(longer[i]) < Place(longer[j])
    BY DEF InSlotOrder
  <2> HIDE DEF longer
  <2>1. i \in 1..Len(part)
    BY <1>6, <1>7
  <2>2. CASE j \in 1..Len(part)
    BY <1>6, <1>7, <2>1, <2>2 DEF InSlotOrder
  <2>3. CASE j = Len(part) + 1
    <3>1. part[i] \in ToSet(part)
      BY <1>7, <2>1 DEF ToSet
    <3>2. Place(part[i]) < n
      BY <1>4, <3>1
    <3>3. QED
      BY <1>3, <1>6, <2>1, <2>3, <3>2
  <2>4. QED
    BY <1>7, <2>2, <2>3
<1>10. QED
  BY <1>3, <1>5, <1>6, <1>8, <1>9

\* The front of what was just appended to.
LEMMA FrontOfAppend ==
  ASSUME NEW S, NEW seq \in Seq(S), NEW s \in S
  PROVE  Append(seq, s) # <<>> /\ Front(Append(seq, s)) = seq
<1> DEFINE longer == Append(seq, s)
<1>1. /\ longer \in Seq(S) /\ Len(longer) = Len(seq) + 1 /\ Len(seq) \in Nat
      /\ \A k \in 1..Len(seq) : longer[k] = seq[k]
  BY AppendProperties
<1>2. longer # <<>>
  BY <1>1, EmptySeq
<1> HIDE DEF longer
<1>3. Front(longer) = SubSeq(longer, 1, Len(seq))
  BY <1>1 DEF Front
<1>4. /\ SubSeq(longer, 1, Len(seq)) \in Seq(S)
      /\ Len(SubSeq(longer, 1, Len(seq))) = Len(seq)
      /\ \A k \in 1..Len(seq) : SubSeq(longer, 1, Len(seq))[k] = longer[k]
  <2>1. 1..Len(seq) \subseteq DOMAIN longer
    BY <1>1
  <2>2. \A k \in 1..Len(seq) : longer[k] \in S
    BY <1>1, <2>1
  <2>3. QED
    BY <1>1, <2>2
<1>5. SubSeq(longer, 1, Len(seq)) = seq
  BY <1>1, <1>4
<1>6. QED
  BY <1>2, <1>3, <1>5 DEF longer

LEMMA DraftInitially == DraftInit => DraftInv
<1> SUFFICES ASSUME DraftInit PROVE DraftInv
  OBVIOUS
<1>1. generated = <<>> /\ missed = <<>> /\ Asked = 0
  BY DEF DraftInit, Asked
<1>2. DraftTyped
  BY <1>1, SlotsAreASequence DEF DraftInit, DraftTyped, DraftPhases, Edits
<1>3. ToSet(generated) = {} /\ ToSet(missed) = {} /\ AskedSlots = {}
  BY <1>1 DEF ToSet, AskedSlots
<1>4. SlotsAreAsked
  BY <1>1, <1>3 DEF SlotsAreAsked, InSlotOrder
<1>5. DraftHolds /\ DocumentFollows
  BY <1>1 DEF DraftInit, DraftHolds, DocumentFollows
<1>6. QED
  BY <1>2, <1>4, <1>5 DEF DraftInv

\* What was asked for stays what it is where no part changes.
LEMMA PartsKeep ==
  ASSUME UNCHANGED <<generated, missed>>
  PROVE  /\ Asked' = Asked
         /\ SlotsAreAsked => SlotsAreAsked'
  BY DEF Asked, AskedSlots, SlotsAreAsked, InSlotOrder

\* A section, or an error, is one slot more.
LEMMA AskedGrows ==
  ASSUME DraftTyped, SlotsAreAsked, Asked < Len(Slots),
         \/ generated' = Append(generated, NextSlot) /\ missed' = missed
         \/ missed' = Append(missed, NextSlot) /\ generated' = generated
  PROVE  /\ generated' \in Seq(SlotSet) /\ missed' \in Seq(SlotSet)
         /\ (Asked <= Len(Slots))'
         /\ SlotsAreAsked'
<1>1. generated \in Seq(SlotSet) /\ missed \in Seq(SlotSet)
  BY DEF DraftTyped
<1>2. /\ ToSet(generated) \subseteq AskedSlots /\ ToSet(missed) \subseteq AskedSlots
      /\ InSlotOrder(generated) /\ InSlotOrder(missed)
      /\ ToSet(generated) \cup ToSet(missed) = AskedSlots
      /\ ToSet(generated) \cap ToSet(missed) = {}
  BY DEF SlotsAreAsked
<1>3. Asked \in Nat /\ Len(generated) \in Nat /\ Len(missed) \in Nat
      /\ Asked = Len(generated) + Len(missed)
  BY <1>1, AskedIsCounted DEF Asked
<1>4. Len(Slots) \in Nat
  BY SlotsAreASequence
<1>5. ASSUME Asked' = Asked + 1 PROVE AskedSlots' = AskedSlots \cup {NextSlot}
  <2>1. 1..(Asked + 1) = 1..Asked \cup {Asked + 1}
    BY <1>3
  <2>2. AskedSlots' = {Slots[k] : k \in 1..(Asked + 1)}
    BY <1>5 DEF AskedSlots
  <2>3. QED
    BY <2>1, <2>2 DEF AskedSlots, NextSlot
<1>6. /\ NextSlot \in SlotSet /\ NextSlot \notin AskedSlots
      /\ Append(generated, NextSlot) \in Seq(SlotSet)
      /\ Len(Append(generated, NextSlot)) = Len(generated) + 1
      /\ ToSet(Append(generated, NextSlot)) = ToSet(generated) \cup {NextSlot}
      /\ InSlotOrder(Append(generated, NextSlot))
  BY <1>1, <1>2, NextComesLast
<1>7. /\ Append(missed, NextSlot) \in Seq(SlotSet)
      /\ Len(Append(missed, NextSlot)) = Len(missed) + 1
      /\ ToSet(Append(missed, NextSlot)) = ToSet(missed) \cup {NextSlot}
      /\ InSlotOrder(Append(missed, NextSlot))
  BY <1>1, <1>2, NextComesLast
<1> DEFINE next == NextSlot
           asked == AskedSlots
           upto == Asked
<1>8. CASE generated' = Append(generated, NextSlot) /\ missed' = missed
  <2>1. Asked' = Asked + 1
    <3>1. Asked' = Len(generated') + Len(missed')
      BY DEF Asked
    <3>2. Asked' = Len(generated) + 1 + Len(missed)
      BY <1>6, <1>8, <3>1
    <3>3. QED
      BY <1>3, <3>2
  <2>2. AskedSlots' = AskedSlots \cup {NextSlot}
    BY <1>5, <2>1
  <2>3. /\ ToSet(generated') = ToSet(generated) \cup {NextSlot}
        /\ ToSet(missed') = ToSet(missed)
    BY <1>6, <1>8
  <2>4. InSlotOrder(generated') /\ InSlotOrder(missed')
    BY <1>2, <1>6, <1>8
  <2>5. SlotsAreAsked'
    <3>1. ToSet(generated') \cup ToSet(missed') = AskedSlots'
      BY <1>2, <2>2, <2>3
    <3>2. ToSet(generated') \cap ToSet(missed') = {}
      BY <1>2, <1>6, <2>3
    <3>3. ASSUME missed' = <<>>, NEW k \in 1..Len(generated') PROVE generated'[k] = Slots'[k]
      <4>1. missed = <<>> /\ Asked = Len(generated)
        BY <1>3, <1>8, <3>3
      <4>2. \A i \in 1..Len(generated) : generated[i] = Slots[i]
        BY <4>1 DEF SlotsAreAsked
      <4>3. k \in 1..Len(generated) \/ k = Len(generated) + 1
        BY <1>3, <1>6, <1>8, <3>3
      <4>4. generated'[k] = IF k \in 1..Len(generated) THEN generated[k] ELSE NextSlot
        BY <1>1, <1>3, <1>6, <1>8, <4>3, AppendProperties
      <4>5. QED
        BY <1>3, <4>1, <4>2, <4>3, <4>4 DEF NextSlot
    <3>4. QED
      BY <2>4, <3>1, <3>2, <3>3 DEF SlotsAreAsked, InSlotOrder, Place
  <2>6. QED
    BY <1>1, <1>3, <1>4, <1>6, <1>8, <2>1, <2>5
<1>9. CASE missed' = Append(missed, NextSlot) /\ generated' = generated
  <2>1. Asked' = Asked + 1
    <3>1. Asked' = Len(generated') + Len(missed')
      BY DEF Asked
    <3>2. Asked' = Len(generated) + (Len(missed) + 1)
      BY <1>7, <1>9, <3>1
    <3>3. QED
      BY <1>3, <3>2
  <2>2. AskedSlots' = AskedSlots \cup {NextSlot}
    BY <1>5, <2>1
  <2>3. /\ ToSet(generated') = ToSet(generated)
        /\ ToSet(missed') = ToSet(missed) \cup {NextSlot}
    BY <1>7, <1>9
  <2>4. InSlotOrder(generated') /\ InSlotOrder(missed')
    BY <1>2, <1>7, <1>9
  <2>5. SlotsAreAsked'
    <3>1. ToSet(generated') \cup ToSet(missed') = AskedSlots'
      BY <1>2, <2>2, <2>3
    <3>2. ToSet(generated') \cap ToSet(missed') = {}
      BY <1>2, <1>6, <2>3
    <3>3. missed' # <<>>
      BY <1>3, <1>7, <1>9
    <3>4. QED
      BY <2>4, <3>1, <3>2, <3>3 DEF SlotsAreAsked, InSlotOrder, Place
  <2>6. QED
    BY <1>1, <1>3, <1>4, <1>7, <1>9, <2>1, <2>5
<1>10. QED
  BY <1>8, <1>9

\* Steps that ask for nothing keep the parts as they are.
LEMMA DraftTypedKeeps ==
  ASSUME DraftTyped, UNCHANGED <<generated, missed>>,
         edited' \in [SlotSet -> {"no"} \cup Edits], mapped' \subseteq Registered,
         phase' \in DraftPhases
  PROVE  DraftTyped'
  BY PartsKeep DEF DraftTyped

\* A document that does not change stays whole.
LEMMA WholeKeeps ==
  ASSUME IsWhole, UNCHANGED <<edited, missed, written>>
  PROVE  IsWhole'
  BY DEF IsWhole

LEMMA WholeIsWritten ==
  ASSUME IsWhole
  PROVE  written # <<>>
<1> SUFFICES ASSUME written = <<>> PROVE FALSE
  OBVIOUS
<1>1. DOMAIN written = DOMAIN Slots
  <2>1. [k \in DOMAIN written |-> written[k][1]] = Slots
    BY DEF IsWhole
  <2>2. QED
    BY <2>1
<1>2. DOMAIN written = {} /\ 1 \in DOMAIN Slots
  BY SlotsAreASequence
<1>3. QED
  BY <1>1, <1>2

LEMMA DraftAsks ==
  ASSUME DraftInv, NEW reply \in ReplyKinds, AskSection(reply)
  PROVE  DraftInv'
<1>1. /\ phase = "slot" /\ Asked < Len(Slots)
      /\ UNCHANGED <<draft, edited, written, mapped>>
  BY DEF AskSection
<1>2. DraftTyped /\ SlotsAreAsked /\ DraftHolds /\ DocumentFollows
  BY DEF DraftInv
<1>3. /\ draft = generated /\ written = <<>> /\ \A s \in SlotSet : edited[s] = "no"
  BY <1>1, <1>2 DEF DraftHolds, DocumentFollows
<1>4. /\ edited \in [SlotSet -> {"no"} \cup Edits] /\ mapped \subseteq Registered
      /\ generated \in Seq(SlotSet)
  BY <1>2 DEF DraftTyped
<1>5. ASSUME UNCHANGED <<generated, missed>>, phase' \in {"slot", "failed"}
      PROVE  DraftInv'
  <2>1. DraftTyped' /\ SlotsAreAsked'
    BY <1>1, <1>2, <1>4, <1>5, PartsKeep, DraftTypedKeeps DEF DraftPhases
  <2>2. DraftHolds' /\ DocumentFollows'
    BY <1>1, <1>3, <1>5 DEF DraftHolds, DocumentFollows
  <2>3. QED
    BY <2>1, <2>2 DEF DraftInv
<1>6. ASSUME generated' = Append(generated, NextSlot), missed' = missed, phase' = "save"
      PROVE  DraftInv'
  <2>1. /\ generated' \in Seq(SlotSet) /\ missed' \in Seq(SlotSet)
        /\ (Asked <= Len(Slots))' /\ SlotsAreAsked'
    BY <1>1, <1>2, <1>6, AskedGrows
  <2>2. DraftTyped'
    BY <1>1, <1>4, <1>6, <2>1 DEF DraftTyped, DraftPhases
  <2>3. NextSlot \in SlotSet
    BY <1>1, <1>2, <1>4, NextComesLast DEF SlotsAreAsked
  <2>4. generated' # <<>> /\ draft' = Front(generated')
    BY <1>1, <1>3, <1>4, <1>6, <2>3, FrontOfAppend
  <2>5. DraftHolds'
    BY <1>1, <1>3, <1>6, <2>4 DEF DraftHolds
  <2>6. DocumentFollows'
    BY <1>1, <1>3, <1>6 DEF DocumentFollows
  <2>7. QED
    BY <2>1, <2>2, <2>5, <2>6 DEF DraftInv
<1>7. ASSUME missed' = Append(missed, NextSlot), generated' = generated, phase' = "slot"
      PROVE  DraftInv'
  <2>1. /\ generated' \in Seq(SlotSet) /\ missed' \in Seq(SlotSet)
        /\ (Asked <= Len(Slots))' /\ SlotsAreAsked'
    BY <1>1, <1>2, <1>7, AskedGrows
  <2>2. DraftTyped'
    BY <1>1, <1>4, <1>7, <2>1 DEF DraftTyped, DraftPhases
  <2>3. DraftHolds' /\ DocumentFollows'
    BY <1>1, <1>3, <1>7 DEF DraftHolds, DocumentFollows
  <2>4. QED
    BY <2>1, <2>2, <2>3 DEF DraftInv
<1>8. QED
  BY <1>1, <1>5, <1>6, <1>7 DEF AskSection, AskAgain, Fails, To

LEMMA DraftStarts ==
  ASSUME DraftInv,
         (\E reply \in ReplyKinds : AskMetadata(reply)) \/ SaveDraft \/ SaveSections
  PROVE  DraftInv'
<1>1. DraftTyped /\ SlotsAreAsked /\ DraftHolds /\ DocumentFollows
  BY DEF DraftInv
<1>2. /\ phase \in {"metadata", "draft", "save", "insert"}
      /\ UNCHANGED <<generated, missed, edited, written, mapped>>
      /\ phase' \in {"metadata", "draft", "slot", "insert", "failed", "unsaved"}
  BY DEF AskMetadata, SaveDraft, SaveSections, Clears, Inserts, AskAgain, Fails, To
<1>3. DraftTyped' /\ SlotsAreAsked'
  BY <1>1, <1>2, PartsKeep, DraftTypedKeeps DEF DraftTyped, DraftPhases
<1>4. written = <<>> /\ \A s \in SlotSet : edited[s] = "no"
  BY <1>1, <1>2 DEF DraftHolds, DocumentFollows
<1>5. DraftHolds'
  <2>1. ASSUME NEW reply \in ReplyKinds, AskMetadata(reply) PROVE DraftHolds'
    BY <1>1, <1>2, <1>4, <2>1 DEF DraftHolds, AskMetadata, AskAgain, Fails, To
  <2>2. CASE SaveDraft
    BY <1>1, <1>2, <1>4, <2>2 DEF DraftHolds, SaveDraft, Clears, To
  <2>3. CASE SaveSections /\ phase = "save"
    BY <1>1, <1>2, <1>4, <2>3 DEF DraftHolds, SaveSections, Clears, To, LastSaved
  <2>4. CASE SaveSections /\ phase = "insert"
    BY <1>1, <1>2, <1>4, <2>4 DEF DraftHolds, SaveSections, Inserts, To, ToBeSaved
  <2>5. QED
    BY <2>1, <2>2, <2>3, <2>4 DEF SaveSections
<1>6. DocumentFollows'
  BY <1>2, <1>4 DEF DocumentFollows
<1>7. QED
  BY <1>1, <1>3, <1>5, <1>6 DEF DraftInv

\* All slots were asked for, and what is missed was not generated.
LEMMA AllWereAsked ==
  ASSUME DraftTyped, SlotsAreAsked, Asked = Len(Slots)
  PROVE  /\ ToSet(generated) \cup ToSet(missed) = SlotSet
         /\ ToSet(generated) \cap ToSet(missed) = {}
         /\ missed = <<>> => generated = Slots
<1>1. /\ ToSet(generated) \cup ToSet(missed) = SlotSet
      /\ ToSet(generated) \cap ToSet(missed) = {}
  BY SlotsAreASequence DEF SlotsAreAsked, AskedSlots, SlotSet, ToSet
<1>2. ASSUME missed = <<>> PROVE generated = Slots
  <2>1. generated \in Seq(SlotSet) /\ Len(generated) \in Nat
    BY DEF DraftTyped
  <2>2. Len(generated) = Len(Slots)
    BY <1>2, <2>1 DEF Asked
  <2>3. \A k \in 1..Len(Slots) : generated[k] = Slots[k]
    BY <1>2, <2>2 DEF SlotsAreAsked
  <2>4. QED
    BY <2>1, <2>2, <2>3, SlotsAreASequence
<1>3. QED
  BY <1>1, <1>2

LEMMA DraftPays ==
  ASSUME DraftInv, Payload
  PROVE  DraftInv'
<1>1. DraftTyped /\ SlotsAreAsked /\ DraftHolds /\ DocumentFollows
  BY DEF DraftInv
<1>2. /\ phase = "slot" /\ Asked = Len(Slots)
      /\ UNCHANGED <<attempt, roomy, generated, missed, draft, edited, mapped>>
  BY DEF Payload
<1>3. draft = generated /\ written = <<>> /\ \A s \in SlotSet : edited[s] = "no"
  BY <1>1, <1>2 DEF DraftHolds, DocumentFollows
<1>4. ASSUME phase' \in {"preview", "failed"}, UNCHANGED written
      PROVE  DraftInv'
  <2>1. DraftTyped' /\ SlotsAreAsked' /\ Asked' = Asked
    BY <1>1, <1>2, <1>4, PartsKeep, DraftTypedKeeps DEF DraftTyped, DraftPhases
  <2>2. DraftHolds' /\ DocumentFollows'
    BY <1>2, <1>3, <1>4, <2>1 DEF DraftHolds, DocumentFollows
  <2>3. QED
    BY <2>1, <2>2 DEF DraftInv
<1>5. ASSUME missed = <<>>, phase' = "done",
             written' = [k \in DOMAIN Slots |-> <<Slots[k], "generated">>]
      PROVE  DraftInv'
  <2>1. DraftTyped' /\ SlotsAreAsked'
    BY <1>1, <1>2, <1>5, PartsKeep, DraftTypedKeeps DEF DraftTyped, DraftPhases
  <2>2. DraftHolds'
    BY <1>1, <1>2, <1>3, <1>5, AllWereAsked DEF DraftHolds
  <2>3. ToSet(missed') = {}
    BY <1>2, <1>5 DEF ToSet
  <2>4. [k \in DOMAIN written' |-> written'[k][1]] = Slots
    BY <1>5, SlotsAreASequence
  <2>5. ASSUME NEW k \in DOMAIN Slots
        PROVE  /\ written'[k][2] = "edited" <=> edited'[Slots[k]] = "text"
               /\ Slots[k] \in ToSet(missed') => written'[k][2] = "edited"
    <3>1. written'[k][2] = "generated" /\ edited'[Slots[k]] = "no"
      BY <1>2, <1>3, <1>5, SlotsAreASequence
    <3>2. QED
      BY <2>3, <3>1
  <2>6. IsWhole'
    BY <2>4, <2>5 DEF IsWhole
  <2>7. QED
    BY <1>5, <2>1, <2>2, <2>6 DEF DraftInv, DocumentFollows
<1>6. QED
  BY <1>4, <1>5 DEF Payload, To

LEMMA DraftIsEdited ==
  ASSUME DraftInv, NEW s \in SlotSet, NEW kind \in Edits, Edit(s, kind)
  PROVE  DraftInv'
<1>1. DraftTyped /\ SlotsAreAsked /\ DraftHolds /\ DocumentFollows
  BY DEF DraftInv
<1>2. /\ phase = "preview" /\ edited' = [edited EXCEPT ![s] = kind]
      /\ UNCHANGED <<phase, generated, missed, draft, written, mapped>>
  BY DEF Edit
<1>3. DraftTyped' /\ SlotsAreAsked' /\ Asked' = Asked
  <2>1. edited' \in [SlotSet -> {"no"} \cup Edits]
    BY <1>1, <1>2 DEF DraftTyped
  <2>2. QED
    BY <1>1, <1>2, <2>1, PartsKeep, DraftTypedKeeps DEF DraftTyped
<1>4. DraftHolds' /\ DocumentFollows'
  BY <1>1, <1>2, <1>3 DEF DraftHolds, DocumentFollows
<1>5. QED
  BY <1>3, <1>4 DEF DraftInv

LEMMA DocumentIsCreated ==
  ASSUME DraftInv, CreateGenerate
  PROVE  DraftInv'
<1>1. DraftTyped /\ SlotsAreAsked /\ DraftHolds /\ DocumentFollows
  BY DEF DraftInv
<1>2. phase = "preview" /\ UNCHANGED <<generated, missed, edited, mapped>>
  BY DEF CreateGenerate
<1>3. draft = generated /\ written = <<>> /\ Asked = Len(Slots)
  BY <1>1, <1>2 DEF DraftHolds
<1>4. ASSUME phase' = "failed", UNCHANGED <<draft, written>>
      PROVE  DraftInv'
  <2>1. DraftTyped' /\ SlotsAreAsked'
    BY <1>1, <1>2, <1>4, PartsKeep, DraftTypedKeeps DEF DraftTyped, DraftPhases
  <2>2. DraftHolds' /\ DocumentFollows'
    BY <1>2, <1>3, <1>4 DEF DraftHolds, DocumentFollows
  <2>3. QED
    BY <2>1, <2>2 DEF DraftInv
<1>5. ASSUME \A s \in SlotSet : Merged(s) # "none", Clears("document"),
             written' = [k \in DOMAIN Slots |-> <<Slots[k], Merged(Slots[k])>>]
      PROVE  DraftInv'
  <2>1. DraftTyped' /\ SlotsAreAsked'
    BY <1>1, <1>2, <1>5, PartsKeep, DraftTypedKeeps
    DEF DraftTyped, DraftPhases, Clears, To
  <2>3. [k \in DOMAIN written' |-> written'[k][1]] = Slots
    BY <1>5, SlotsAreASequence
  <2>4. ToSet(generated) \cap ToSet(missed) = {}
    BY <1>1, <1>3, AllWereAsked
  <2>5. ASSUME NEW k \in DOMAIN Slots
        PROVE  /\ written'[k][2] = "edited" <=> edited'[Slots[k]] = "text"
               /\ Slots[k] \in ToSet(missed') => written'[k][2] = "edited"
    <3>1. Slots[k] \in SlotSet /\ written'[k][2] = Merged(Slots[k])
      BY <1>5, SlotsAreASequence
    <3>2. Merged(Slots[k]) = "edited" <=> edited[Slots[k]] = "text"
      BY DEF Merged
    <3>3. Slots[k] \in ToSet(missed) => Merged(Slots[k]) = "edited"
      BY <1>5, <2>4, <3>1 DEF Merged
    <3>4. QED
      BY <1>2, <3>1, <3>2, <3>3
  <2>6. IsWhole'
    BY <2>3, <2>5 DEF IsWhole
  <2>7. (written # <<>>)'
    BY <2>6, WholeIsWritten, PTL
  <2>8. DraftHolds'
    BY <1>2, <1>3, <1>5, <2>7 DEF DraftHolds, Clears, To, LastSaved
  <2>9. DocumentFollows'
    BY <1>5, <2>6 DEF DocumentFollows, Clears, To
  <2>10. QED
    BY <2>1, <2>8, <2>9 DEF DraftInv
<1>6. QED
  BY <1>4, <1>5 DEF CreateGenerate, To

LEMMA DocumentIsSaved ==
  ASSUME DraftInv, SaveDocument
  PROVE  DraftInv'
<1>1. DraftTyped /\ SlotsAreAsked /\ DraftHolds /\ DocumentFollows
  BY DEF DraftInv
<1>2. /\ phase = "document" /\ phase' \in {"controls", "unsaved"}
      /\ UNCHANGED <<generated, missed, edited, written, mapped>>
  BY DEF SaveDocument, Inserts, To
<1>3. DraftTyped' /\ SlotsAreAsked'
  BY <1>1, <1>2, PartsKeep, DraftTypedKeeps DEF DraftTyped, DraftPhases
<1>4. IsWhole /\ IsWhole' /\ written # <<>>
  BY <1>1, <1>2, WholeKeeps, WholeIsWritten DEF DocumentFollows
<1>5. DraftHolds'
  BY <1>1, <1>2, <1>4 DEF DraftHolds, SaveDocument, Inserts, To, ToBeSaved
<1>6. DocumentFollows'
  BY <1>2, <1>4 DEF DocumentFollows
<1>7. QED
  BY <1>3, <1>5, <1>6 DEF DraftInv

LEMMA ControlsAreMapped ==
  ASSUME DraftInv, NEW ids, MapControls(ids)
  PROVE  DraftInv'
<1>1. DraftTyped /\ SlotsAreAsked /\ DraftHolds /\ DocumentFollows
  BY DEF DraftInv
<1>2. /\ phase = "controls" /\ phase' = "done" /\ mapped' \subseteq Registered
      /\ UNCHANGED <<generated, missed, draft, edited, written>>
  BY DEF MapControls, To
<1>3. DraftTyped' /\ SlotsAreAsked'
  BY <1>1, <1>2, PartsKeep, DraftTypedKeeps DEF DraftTyped, DraftPhases
<1>4. IsWhole'
  BY <1>1, <1>2, WholeKeeps DEF DocumentFollows
<1>5. DraftHolds' /\ DocumentFollows'
  BY <1>1, <1>2, <1>4 DEF DraftHolds, DocumentFollows
<1>6. QED
  BY <1>3, <1>5 DEF DraftInv

LEMMA DraftStep == DraftInv /\ [DraftNext]_draftVars => DraftInv'
<1> SUFFICES ASSUME DraftInv, [DraftNext]_draftVars PROVE DraftInv'
  OBVIOUS
<1>1. CASE UNCHANGED draftVars
  <2>1. DraftTyped /\ SlotsAreAsked /\ DraftHolds /\ DocumentFollows
    BY DEF DraftInv
  <2>2. UNCHANGED <<phase, generated, missed, draft, edited, written, mapped>>
    BY <1>1 DEF draftVars
  <2>3. DraftTyped' /\ SlotsAreAsked' /\ Asked' = Asked
    BY <2>1, <2>2, PartsKeep, DraftTypedKeeps DEF DraftTyped
  <2>4. DraftHolds'
    BY <2>1, <2>2, <2>3 DEF DraftHolds, LastSaved, ToBeSaved
  <2>5. DocumentFollows'
    BY <2>1, <2>2, WholeKeeps DEF DocumentFollows
  <2>6. QED
    BY <2>3, <2>4, <2>5 DEF DraftInv
<1>2. CASE DraftNext
  BY <1>2, DraftStarts, DraftAsks, DraftPays, DraftIsEdited, DocumentIsCreated,
     DocumentIsSaved, ControlsAreMapped DEF DraftNext
<1>3. QED
  BY <1>1, <1>2

LEMMA DraftAlways == DraftSpec => []DraftInv
  BY DraftInitially, DraftStep, PTL DEF DraftSpec

(***************************************************************************)
(* Every slot asked for is a section or an error, in order, and the draft  *)
(* in the store has every section there is, but from where a save deletes  *)
(* them to where it has inserted them, and for good where it breaks off in *)
(* between: for any document type, whatever the model answers and          *)
(* whichever call fails (routes.py, _generate_policy_data and              *)
(* create_generate; file_store.py, save_policy_draft).                     *)
(***************************************************************************)
THEOREM DraftKeepsUpAlways == DraftSpec => []DraftKeepsUp
<1>1. DraftInv => DraftKeepsUp
  <2> SUFFICES ASSUME DraftInv PROVE DraftKeepsUp
    OBVIOUS
  <2>1. DraftTyped /\ SlotsAreAsked /\ DraftHolds /\ DocumentFollows
    BY DEF DraftInv
  <2>2. phase \in {"controls", "done"} => ToBeSaved = Slots
    BY <2>1, WholeIsWritten DEF DocumentFollows, ToBeSaved
  <2>3. phase \notin {"document", "controls", "done", "unsaved"} =>
          ToBeSaved = generated /\ LastSaved = Front(generated)
    BY <2>1 DEF DraftHolds, ToBeSaved, LastSaved
  <2>4. \/ draft = ToBeSaved
        \/ phase \in {"save", "unsaved"} /\ draft = LastSaved
        \/ phase \in {"insert", "document", "unsaved"} /\ draft = <<>>
        \/ draft = NoDraft /\ generated = <<>>
    BY <2>1, <2>2, <2>3 DEF DraftHolds, DraftTyped, DraftPhases
  <2>5. QED
    BY <2>1, <2>4 DEF DraftKeepsUp, SlotsAreAsked, AskedSlots
<1>2. QED
  BY <1>1, DraftAlways, PTL

(***************************************************************************)
(* A document that is made has every slot of its type, in order, with what *)
(* the user wrote last, and cites no control outside the registry, for any *)
(* document type and registry, whatever the model cites (routes.py,        *)
(* create_generate and _merge_sections_from_top_level).                    *)
(***************************************************************************)
THEOREM DocumentIsCompleteAlways == DraftSpec => []DocumentIsComplete
<1>1. DraftInv => DocumentIsComplete
  BY DEF DraftInv, DraftTyped, DocumentFollows, IsWhole, DocumentIsComplete
<1>2. QED
  BY <1>1, DraftAlways, PTL
=============================================================================
