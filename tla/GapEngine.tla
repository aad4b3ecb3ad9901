------------------------------ MODULE GapEngine ------------------------------
(***************************************************************************)
(* The gap engine (backend/core/gap_engine.py): which controls a tenant's  *)
(* documents leave uncovered.  The state is what the engine is asked about *)
(* while the library of a tenant grows and shrinks; the reports are        *)
(* operators of it, computed anew for every request.                       *)
(***************************************************************************)
EXTENDS FiniteSets, Integers

CONSTANTS
  Controls,
  Frameworks,
  DocTypes,
  FrameworkOf,  \* FrameworkOf[c]
  DocTypesOf,   \* DocTypesOf[c]: the types of document expected to cover c
  Mapped,       \* CROSS_FRAMEWORK_MAP: Mapped[c] is {} for what is not a key
  Names         \* names of documents

ASSUME RegistryAssumption ==
  /\ IsFiniteSet(Controls)
  /\ FrameworkOf \in [Controls -> Frameworks]
  /\ DocTypesOf \in [Controls -> SUBSET DocTypes]
  /\ Mapped \in [Controls -> SUBSET Controls]

VARIABLES
  library,     \* the documents analysed
  typeOf,      \* typeOf[d]: a document keeps its type
  covered,     \* covered[d]: the controls document d was found to address
  frameworks   \* the frameworks checked

vars == <<library, typeOf, covered, frameworks>>

Init ==
  /\ library = {}
  /\ typeOf \in [Names -> DocTypes]
  /\ covered = [d \in Names |-> {}]
  /\ frameworks \in SUBSET Frameworks

AddDocument(d, controls) ==
  /\ d \notin library
  /\ library' = library \cup {d}
  /\ covered' = [covered EXCEPT ![d] = controls]
  /\ UNCHANGED <<typeOf, frameworks>>

RemoveDocument(d) ==
  /\ d \in library
  /\ library' = library \ {d}
  /\ covered' = [covered EXCEPT ![d] = {}]
  /\ UNCHANGED <<typeOf, frameworks>>

\* A revised document addresses one control more.
CoverControl(d, c) ==
  /\ d \in library
  /\ covered' = [covered EXCEPT ![d] = @ \cup {c}]
  /\ UNCHANGED <<library, typeOf, frameworks>>

Next ==
  \/ \E d \in Names, controls \in SUBSET Controls : AddDocument(d, controls)
  \/ \E d \in Names : RemoveDocument(d)
  \/ \E d \in Names, c \in Controls : CoverControl(d, c)

Spec == Init /\ [][Next]_vars
-----------------------------------------------------------------------------
\* get_equivalent_controls.
EquivalentsOfKey(c) == Mapped[c]
Equivalents(c) ==
  Mapped[c] \cup UNION {({p} \cup Mapped[p]) \ {c} :
                        p \in {p \in Controls : c \in Mapped[p]}}

\* is_control_covered.
IsCovered(c, by) == c \in by \/ \E e \in by : e \in Equivalents(c)

\* get_required_controls.
Required(type) ==
  {c \in Controls : FrameworkOf[c] \in frameworks /\ type \in DocTypesOf[c]}

\* compute_gaps, for one document.
DocumentGaps(d) == {c \in Required(typeOf[d]) : ~IsCovered(c, covered[d])}

\* scale * n / d to the nearest integer, halves to the even one, as round does.
Rounded(scale, n, d) ==
  LET whole == (scale * n) \div d
      rest == 2 * ((scale * n) % d)
  IN IF rest < d \/ (rest = d /\ whole % 2 = 0) THEN whole ELSE whole + 1

Percent(n, d) == Rounded(100, n, d)

CoverageOf(controls, by) ==
  IF controls = {} THEN 100
  ELSE Percent(Cardinality({c \in controls : IsCovered(c, by)}),
               Cardinality(controls))

DocumentCoverage(d, f) ==
  CoverageOf({c \in Required(typeOf[d]) : FrameworkOf[c] = f}, covered[d])

\* run_program_gap_analysis, for the library.
AllCovered == UNION {covered[d] : d \in library}
AllRequired == UNION {Required(typeOf[d]) : d \in library}

GapsDespiteMap == {c \in AllRequired : c \notin AllCovered}

GapsIfUnmapped ==
  {c \in AllRequired : c \notin AllCovered /\ Mapped[c] = {}}

ProgramGaps ==
  {c \in AllRequired : c \notin AllCovered /\ Mapped[c] \cap AllCovered = {}}

ProgramCoverage(f) ==
  CoverageOf({c \in Controls : FrameworkOf[c] = f}, AllCovered)

\* build_corpus_index: the coverage_pct of a framework, in tenths of a percent.
IndexedByName(f) ==
  LET all == {c \in Controls : FrameworkOf[c] = f}
  IN IF all = {} THEN 0 ELSE Rounded(1000, Cardinality(all \cap AllCovered), Cardinality(all))

Indexed(f) ==
  LET all == {c \in Controls : FrameworkOf[c] = f}
  IN IF all = {} THEN 0
     ELSE Rounded(1000, Cardinality({c \in all : IsCovered(c, AllCovered)}), Cardinality(all))
-----------------------------------------------------------------------------
TypeOK ==
  /\ library \subseteq Names
  /\ typeOf \in [Names -> DocTypes]
  /\ covered \in [Names -> SUBSET Controls]
  /\ frameworks \subseteq Frameworks

(***************************************************************************)
(* The program analysis misses nothing: a control that a document type in  *)
(* the library requires and that no document covers, not even through an   *)
(* equivalent control, is reported; and nothing is that a document covers. *)
(***************************************************************************)
NoMissedGap ==
  /\ \A c \in AllRequired : ~IsCovered(c, AllCovered) => c \in ProgramGaps
  /\ ProgramGaps \cap AllCovered = {}

(***************************************************************************)
(* "A control covered in one framework satisfies its equivalents in the    *)
(* others" (gap_engine.py:159-160).  The program analysis honours that but *)
(* for one kind of control: what it reports although it is covered is a    *)
(* member of a group whose key is another control (gap_engine.py:308).     *)
(***************************************************************************)
OnlyMembersAreSpurious ==
  \A c \in ProgramGaps :
    IsCovered(c, AllCovered) => \E p \in Controls : c \in Mapped[p]

(***************************************************************************)
(* What a tenant is shown does not contradict itself: a framework that the *)
(* report of a document checked is 100% covered exactly when the report    *)
(* lists no gap of it; and of a framework that has controls the corpus     *)
(* index shows the coverage the program report shows, which other code     *)
(* computes (corpus.py:91-159, gap_engine.py:276-335), but for the decimal *)
(* that only the index has.                                                *)
(***************************************************************************)
DocumentReportAgrees ==
  \A d \in library, f \in frameworks :
    DocumentCoverage(d, f) = 100 <=> \A c \in DocumentGaps(d) : FrameworkOf[c] # f

IndexAgrees ==
  \A f \in {FrameworkOf[c] : c \in Controls} :
    Indexed(f) - 10 * ProgramCoverage(f) \in -5..5

ReportsAgree == DocumentReportAgrees /\ IndexAgrees

(***************************************************************************)
(* What get_equivalent_controls is for: the entries of CROSS_FRAMEWORK_MAP *)
(* are groups, a control is covered when a document covers it or another   *)
(* member of one of its groups, and which of them is the key is no matter. *)
(***************************************************************************)
Groups == {{p} \cup Mapped[p] : p \in {p \in Controls : Mapped[p] # {}}}

CoverageGoesByGroup ==
  \A c \in Controls :
    IsCovered(c, AllCovered) <=>
      \/ c \in AllCovered
      \/ \E group \in Groups : c \in group /\ group \cap AllCovered # {}

(***************************************************************************)
(* A revision that covers one control more never opens a gap, neither in   *)
(* the document nor in the program.                                        *)
(***************************************************************************)
OpensNoGap ==
  library' = library /\ covered' # covered =>
    /\ ProgramGaps' \subseteq ProgramGaps
    /\ \A d \in library : DocumentGaps(d)' \subseteq DocumentGaps(d)

EvidenceOpensNoGap == [][OpensNoGap]_vars
=============================================================================
