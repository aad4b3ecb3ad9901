------------------------------ MODULE SmartScan ------------------------------
(***************************************************************************)
(* The smart scan of a document (backend/core/smart_scan_engine.py and     *)
(* backend/api/smart_scan.py): the blocks of a .docx are gathered under    *)
(* its headings, a language model maps the text to sections, and what it   *)
(* says of the required ones is scored.                                    *)
(***************************************************************************)
EXTENDS FiniteSetsExt, Integers, SequencesExt

CONSTANTS
  ScanBlocks,     \* what documents are made of: [kind, level, key]
  MaxScanBlocks,  \* bound: blocks of a document
  Treatments      \* what the model may say of a section

\* The key of a heading is that of match_section_key, or its slug.
Preamble == "preamble"
ASSUME ScanBlocksAssumption ==
  \A b \in ScanBlocks : b.kind \in {"heading", "paragraph", "table"} /\ b.level \in Nat

\* A section is mapped to no words, to too few or to enough of them
\* (SECTION_MIN_WORDS), and may be listed as missing and as partial.
ASSUME TreatmentsAssumption ==
  Treatments \subseteq [mapped : {"no", "thin", "full"}, missing : BOOLEAN, partial : BOOLEAN]

VARIABLES
  scanned,  \* the blocks of the document, as they are read
  scanning, \* "document" or "reply"; with the model the text is gone
  replied   \* what the model said of the first required sections

scanVars == <<scanned, scanning, replied>>

ScanInit == scanned = <<>> /\ scanning = "document" /\ replied = <<>>

WriteBlock(b) ==
  /\ scanning = "document" /\ Len(scanned) < MaxScanBlocks
  /\ scanned' = Append(scanned, b)
  /\ UNCHANGED <<scanning, replied>>
-----------------------------------------------------------------------------
(* extract_docx_blocks and identify_sections *)

Splits(n) == scanned[n].kind = "heading" /\ scanned[n].level <= 2
ScanKeys == {Preamble} \cup {b.key : b \in ScanBlocks}

ReadBlockAfresh(read, n) ==
  IF Splits(n)
  THEN [current |-> scanned[n].key, parts |-> [read.parts EXCEPT ![scanned[n].key] = <<>>]]
  ELSE [read EXCEPT !.parts[read.current] = Append(@, n)]

\* A heading that comes again goes on with its section.
ReadBlock(read, n) ==
  IF Splits(n) THEN [read EXCEPT !.current = scanned[n].key]
  ELSE [read EXCEPT !.parts[read.current] = Append(@, n)]

IsTable(n) == scanned[n].kind = "table"
ScanParagraph(read, n) == IF IsTable(n) THEN read ELSE ReadBlock(read, n)
ScanTable(read, n) == IF IsTable(n) THEN ReadBlock(read, n) ELSE read

NothingRead == [current |-> Preamble, parts |-> [k \in ScanKeys |-> <<>>]]

\* All tables come after all paragraphs.
ParagraphsRead == FoldLeftDomain(ScanParagraph, NothingRead, scanned)
ScanSections == FoldLeftDomain(ScanTable, ParagraphsRead, scanned).parts

\* llm_map_sections: any answer, whatever the text.  The first object of it is
\* read; when there is none the request fails.
AskModel ==
  /\ scanning = "document"
  /\ scanning' = "reply"
  /\ scanned' = <<>>
  /\ UNCHANGED replied
-----------------------------------------------------------------------------
(* score_document *)

RequiredSections ==
  <<"purpose", "scope", "policy_statement", "procedures", "roles_responsibilities",
    "revision_history">>

ReplyOn(treatment) ==
  /\ scanning = "reply" /\ Len(replied) < Len(RequiredSections)
  /\ replied' = Append(replied, treatment)
  /\ UNCHANGED <<scanned, scanning>>

ScanNext ==
  \/ \E b \in ScanBlocks : WriteBlock(b)
  \/ AskModel
  \/ \E treatment \in Treatments : ReplyOn(treatment)

ScanSpec == ScanInit /\ [][ScanNext]_scanVars

WeightOf(k) == IF RequiredSections[k] \in {"policy_statement", "procedures"} THEN 15 ELSE 10

StatusOf(k) ==
  CASE replied[k].missing -> "missing"
    [] ~replied[k].missing /\ replied[k].partial -> "partial"
    [] OTHER -> CASE replied[k].mapped = "full" -> "complete"
                  [] replied[k].mapped = "thin" -> "partial"
                  [] replied[k].mapped = "no" -> "missing"

\* In tenths: half of the weight for what is listed as partial, two fifths for
\* what has too few words.
Earned(k) ==
  CASE StatusOf(k) = "complete" -> 10 * WeightOf(k)
    [] StatusOf(k) = "partial" -> (IF replied[k].partial THEN 5 ELSE 4) * WeightOf(k)
    [] StatusOf(k) = "missing" -> 0

Total == FoldLeftDomain(LAMBDA total, k : total + WeightOf(k), 0, RequiredSections)
Points == FoldLeftDomain(LAMBDA earned, k : earned + Earned(k), 0, RequiredSections)
Score == (100 * Points) \div (10 * Total)

Label ==
  CASE Score >= 80 -> "Strong"
    [] Score \in 55..79 -> "Moderate"
    [] Score \in 30..54 -> "Weak"
    [] Score < 30 -> "Critical"
-----------------------------------------------------------------------------
(***************************************************************************)
(* The sections, of which the model reads the first 12000 characters, hold *)
(* all of the document, once: a paragraph in the section of the last       *)
(* heading before it, with headings below the second level as text, and a  *)
(* table in that of the last heading there is (smart_scan_engine.py:134,   *)
(* 152, 202-216).                                                          *)
(***************************************************************************)
LastHeading(upTo) ==
  LET before == {m \in DOMAIN scanned : m <= upTo /\ Splits(m)}
  IN IF before = {} THEN Preamble ELSE scanned[Max(before)].key

TextIsWhole ==
  LET sections == ScanSections IN
  \A k \in ScanKeys :
    /\ ToSet(sections[k]) =
         {n \in DOMAIN scanned :
            /\ ~Splits(n)
            /\ LastHeading(IF IsTable(n) THEN Len(scanned) ELSE n) = k}
    /\ IsInjective(sections[k])

(***************************************************************************)
(* What the label of a document says: a strong one lacks one required      *)
(* section at most, and neither the policy statement nor the procedures,   *)
(* which a gap is critical for (smart_scan.py:45); only a document with    *)
(* everything in it scores 100, and one that has half of the required      *)
(* sections, complete, is not critical.                                    *)
(***************************************************************************)
With(status) == {k \in DOMAIN replied : StatusOf(k) = status}

LabelIsEarned ==
  Len(replied) = Len(RequiredSections) =>
    /\ Label = "Strong" =>
         /\ Cardinality(With("missing")) <= 1
         /\ \A k \in With("missing") :
              RequiredSections[k] \notin {"policy_statement", "procedures"}
    /\ Score = 100 <=> With("complete") = DOMAIN replied
    /\ 2 * Cardinality(With("complete")) >= Len(replied) => Label # "Critical"

ScanIsSound == TextIsWhole /\ LabelIsEarned
=============================================================================
