----------------------------- MODULE MC_Workspace -----------------------------
(* The parts of a workspace that have no variable in common, for TLC: it     *)
(* explores them one after another, because combining states of parts that   *)
(* do not touch each other adds nothing.                                     *)
EXTENDS MC_GapEngine, MC_SourceMapping, BirdEye, DocumentText, Questionnaires,
        DraftGeneration, SmartScan, Onboarding

CONSTANTS aup, notes, pol001, twelve, fourteen, nist, runbook,
          section1, section2, doc1, doc2, ctl, quote1, quote2, m1, m2

\* Bird Eye: two documents that are near-duplicates but for one number, the
\* first of which replaces those of its number; the second disagrees with
\* itself about the lockout.
Wording == (twelve :> [compared |-> TRUE, requires |-> {<<"length", 12>>}])
           @@ (fourteen :> [compared |-> TRUE,
                           requires |-> {<<"length", 14>>, <<"window", 15>>, <<"window", 30>>}])
NoWords == [title |-> {}, body |-> {}]
Note == [number |-> Nothing, policy |-> FALSE, owned |-> TRUE, review |-> "fine",
         version |-> "fine", title |-> {runbook}, tags |-> {}, sections |-> {fourteen},
         mentions |-> NoWords, callsFor |-> NoWords]
Aup == [Note EXCEPT !.number = pol001, !.sections = {twelve}, !.policy = TRUE,
                    !.title = {"acceptable use"},
                    !.callsFor.body = {runbook}]
Files == (aup :> Aup) @@ (notes :> Note)
Cosine == [a \in Sections |-> [b \in Sections |-> IF a = b THEN 100 ELSE 78]]
TheLockout == {"attempts", "window"}
EyeSymmetry == Permutations(Ids) \cup Permutations(Processes)

\* Files Bird Eye reads: a paragraph of each kind.
Paragraph(style, looks) == [style |-> style, looks |-> looks]
FileParagraphs ==
  { Paragraph("heading", "phrase"), Paragraph("number", "phrase") }
    \cup {Paragraph("plain", looks) :
            looks \in {"numbered", "caps", "column", "sentence", "blank"}}
ParagraphLength == [p \in FileParagraphs |-> IF p.looks = "sentence" THEN 2 ELSE 1]

\* Questionnaires: two sections of two documents, one of which covers a control.
SectionDocument == (section1 :> doc1) @@ (section2 :> doc2)
DocumentControls == (doc1 :> {ctl}) @@ (doc2 :> {})
SectionQuotes == (section1 :> {quote1}) @@ (section2 :> {quote2})
Cite(s, q) == [section |-> s, quote |-> q]
Verdict(status, citations) ==
  [wellFormed |-> TRUE, status |-> status, confidence |-> "high",
   citations |-> citations, controls |-> {ctl}]
ModelVerdicts ==
  { [Verdict("satisfied", <<Cite(section1, quote1)>>) EXCEPT !.wellFormed = FALSE],
    Verdict("satisfied", <<Cite(section1, quote1), Cite(section2, quote2)>>),
    Verdict("satisfied", <<Cite(section1, quote2), Cite(section2, quote1),
                           Cite(section1, quote1)>>),
    Verdict("partially_satisfied", <<Cite(section1, quote2), Cite(section2, quote2)>>),
    Verdict("not_satisfied", <<>>) }

\* The slots of a short document type.
DraftSlots == <<"purpose", "scope", "procedures">>

\* Smart scan: headings of each level, text, a table, and what a model makes of
\* a section.
ScanBlock(type, depth, key) == [kind |-> type, level |-> depth, key |-> key]
DocumentBlocks ==
  { ScanBlock("heading", 1, "purpose"), ScanBlock("heading", 2, "scope"),
    ScanBlock("heading", 3, "steps"), ScanBlock("paragraph", 0, ""), ScanBlock("table", 0, "") }
Treated(words, listedMissing, listedPartial) ==
  [mapped |-> words, missing |-> listedMissing, partial |-> listedPartial]
ModelTreatments ==
  { Treated("no", FALSE, FALSE), Treated("full", TRUE, FALSE), Treated("thin", FALSE, FALSE),
    Treated("thin", FALSE, TRUE), Treated("full", FALSE, FALSE) }

\* Onboarding: what is enabled, the last list by mistake twice.
EnabledModules == {<<m1>>, <<m2>>, <<m2, m2>>}
-----------------------------------------------------------------------------
VARIABLE part  \* the part of the workspace that is looked at

Parts == {"gaps", "eye", "text", "answers", "migration", "draft", "scan", "onboarding"}

gapVars == <<library, typeOf, covered, frameworks>>

\* The gap engine starts in more than one state, which matters to it only.
WorkspaceInit ==
  /\ part \in Parts
  /\ Init
  /\ part # "gaps" => frameworks = {} /\ typeOf = [d \in Names |-> policy]
  /\ EyeInit /\ TextInit /\ AnswersInit
  /\ MigrationInit /\ DraftInit /\ ScanInit /\ OnboardInit

Only(name) == part = name /\ UNCHANGED part

WorkspaceNext ==
  \/ /\ Only("gaps") /\ Next
     /\ UNCHANGED <<eyeVars, file, answerVars, migrationVars, draftVars, scanVars, onboardVars>>
  \/ /\ Only("eye") /\ EyeNext
     /\ UNCHANGED <<gapVars, file, answerVars, migrationVars, draftVars, scanVars, onboardVars>>
  \/ /\ Only("text") /\ TextNext
     /\ UNCHANGED <<gapVars, eyeVars, answerVars, migrationVars, draftVars, scanVars, onboardVars>>
  \/ /\ Only("answers") /\ AnswersNext
     /\ UNCHANGED <<gapVars, eyeVars, file, migrationVars, draftVars, scanVars, onboardVars>>
  \/ /\ Only("migration") /\ MigrationNext
     /\ UNCHANGED <<gapVars, eyeVars, file, answerVars, draftVars, scanVars, onboardVars>>
  \/ /\ Only("draft") /\ DraftNext
     /\ UNCHANGED <<gapVars, eyeVars, file, answerVars, migrationVars, scanVars, onboardVars>>
  \/ /\ Only("scan") /\ ScanNext
     /\ UNCHANGED <<gapVars, eyeVars, file, answerVars, migrationVars, draftVars, onboardVars>>
  \/ /\ Only("onboarding") /\ OnboardNext
     /\ UNCHANGED <<gapVars, eyeVars, file, answerVars, migrationVars, draftVars, scanVars>>

workspaceVars == <<part, gapVars, eyeVars, file, answerVars, migrationVars, draftVars, scanVars,
                   onboardVars>>

WorkspaceSpec == WorkspaceInit /\ [][WorkspaceNext]_workspaceVars
=============================================================================
