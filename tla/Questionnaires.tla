---------------------------- MODULE Questionnaires ----------------------------
(***************************************************************************)
(* A questionnaire and its answers (backend/core/corpus.py and             *)
(* backend/api/corpus.py): what is pasted is split into questions, each is *)
(* answered from sections of the tenant's documents by a language model    *)
(* whose verdict is validated, and the run is stored.  Which sections are  *)
(* near a question is up to their vectors, and what the model says is up   *)
(* to the model.  How runs are counted and charged is RunMetering's.       *)
(***************************************************************************)
EXTENDS FiniteSetsExt, Integers, Listings, SequencesExt

CONSTANTS
  MaxLines,      \* bound: lines of a questionnaire
  MaxQuestions,  \* MAX_QUESTIONS
  TopK,          \* TOP_K
  MaxCitations,  \* MAX_CITATIONS
  Evidence,      \* sections with a vector
  DocumentOf,    \* DocumentOf[s]: the document section s belongs to
  ControlsOf,    \* ControlsOf[d]: its covered_control_ids
  QuotesOf,      \* QuotesOf[s]: the quotes that are substrings of section s
  Verdicts,      \* what the model may answer
  AnswerFaults

AnswerFaultKinds ==
  { "vectors",  \* embedding the questions fails
    "model",    \* a call of the language model fails
    "run",      \* corpus_runs cannot be inserted
    "answers" } \* corpus_answers cannot be inserted

Statuses == {"satisfied", "partially_satisfied", "not_satisfied",
             "insufficient_evidence", "not_applicable"}
Coverage == {"satisfied", "partially_satisfied"}

\* A verdict that is not well-formed cannot be read as an object, has another
\* status, no text, or a control id or citation of a type that raises.  Any
\* other confidence is "low".
ASSUME VerdictsAssumption ==
  \A v \in Verdicts :
    /\ v.wellFormed \in BOOLEAN
    /\ v.status \in Statuses
    /\ v.confidence \in {"high", "medium", "low"}
    /\ Len(v.citations) \in Nat /\ DOMAIN v.citations = 1..Len(v.citations)
    /\ \A k \in DOMAIN v.citations : {"section", "quote"} = DOMAIN v.citations[k]
ASSUME AnswersAssumption ==
  /\ AnswerFaults \subseteq AnswerFaultKinds
  /\ MaxCitations \in Nat \ {0} /\ IsFiniteSet(Evidence)

\* A line begins with a marker or not, and is too short for a question or not;
\* two lines together are long enough.
Marks == {"marked", "plain", "short marked", "short plain", "blank"}

VARIABLES
  sheet,     \* the lines pasted
  loaded,    \* sections of the run under way
  vectors,   \* the questions were embedded in one call
  answers,   \* the answers so far
  step,      \* "paste", "load", "embed", "answer", "store", "store answers" or "end"
  listed,    \* the row of corpus_runs: counts by status, or none
  exported   \* the rows of corpus_answers

answerVars == <<sheet, loaded, vectors, answers, step, listed, exported>>

AnswerFault(kind) == kind \in AnswerFaults

AnswersInit ==
  /\ sheet = <<>> /\ loaded = {} /\ vectors = FALSE
  /\ answers = <<>> /\ step = "paste"
  /\ listed = <<>> /\ exported = <<>>
-----------------------------------------------------------------------------
(* split_questionnaire: of a question matter the lines it is made of. *)

Marked(n) == sheet[n] \in {"marked", "short marked"}
Empty(n) == sheet[n] = "blank"
HasMarkers == \E n \in DOMAIN sheet : Marked(n)

\* A line goes on with the question above it, unless it is marked, follows a
\* blank line, or nothing is marked.
Continues(n) == HasMarkers /\ ~Marked(n) /\ n > 1 /\ ~Empty(n - 1)

LongEnough(question) ==
  Len(question) > 1 \/ sheet[question[1]] \in {"marked", "plain"}

AddLineKeepingLast(questions, n) ==
  IF Empty(n) THEN questions
  ELSE IF Continues(n) THEN [questions EXCEPT ![Len(questions)] = <<n>>]
  ELSE Append(questions, <<n>>)

AddLine(questions, n) ==
  IF Empty(n) THEN questions
  ELSE IF Continues(n) THEN [questions EXCEPT ![Len(questions)] = Append(@, n)]
  ELSE Append(questions, <<n>>)

Grouped == FoldLeftDomain(AddLine, <<>>, sheet)

KeepLong(kept, question) ==
  IF LongEnough(question) THEN Append(kept, question) ELSE kept

Split == FoldLeft(KeepLong, <<>>, Grouped)

WriteLine(kind) ==
  /\ step = "paste" /\ Len(sheet) < MaxLines
  /\ sheet' = Append(sheet, kind)
  /\ UNCHANGED <<loaded, vectors, answers, step, listed, exported>>

\* 422 without questions, 413 with too many of them.
Submit ==
  /\ step = "paste" /\ Len(Split) \in 1..MaxQuestions
  /\ step' = "load"
  /\ UNCHANGED <<sheet, loaded, vectors, answers, listed, exported>>

\* load_corpus_sections; 409 without any.
LoadSections(sections) ==
  /\ step = "load" /\ sections # {}
  /\ loaded' = sections
  /\ step' = "embed"
  /\ UNCHANGED <<sheet, vectors, answers, listed, exported>>

\* Where one call for all questions fails there will be one for each.
EmbedQuestions ==
  /\ step = "embed"
  /\ vectors' = TRUE \/ (AnswerFault("vectors") /\ UNCHANGED vectors)
  /\ step' = "answer"
  /\ UNCHANGED <<sheet, loaded, answers, listed, exported>>
-----------------------------------------------------------------------------
(* answer_question, with retrieve_sections and _validate_answer *)

Lowered(confidence) == IF confidence = "high" THEN "medium" ELSE "low"

Insufficient(question, provenance) ==
  [question |-> question, status |-> "insufficient_evidence", citations |-> <<>>,
   controls |-> {}, confidence |-> "low", provenance |-> provenance]

CandidatesAmong(retrieved) == UNION {ControlsOf[DocumentOf[s]] : s \in retrieved}

\* Of the citations the first are looked at, and fewer are kept: here, their
\* positions in the verdict.
Considered(verdict) == {k \in DOMAIN verdict.citations : k <= 2 * MaxCitations}
Verbatim(citation, retrieved) ==
  citation.section \in retrieved /\ citation.quote \in QuotesOf[citation.section]
Good(verdict, retrieved) ==
  {k \in Considered(verdict) : Verbatim(verdict.citations[k], retrieved)}
Earlier(k, positions) == {j \in positions : j < k}
Kept(positions) == {k \in positions : Cardinality(Earlier(k, positions)) < MaxCitations}

ValidatedByStatus(verdict, retrieved, question) ==
  LET good == Good(verdict, retrieved)
  IN IF ~verdict.wellFormed \/ (verdict.status \in Coverage /\ verdict.citations = <<>>)
     THEN Insufficient(question, "ai_assisted")
     ELSE [question |-> question, status |-> verdict.status,
           citations |-> [k \in Kept(good) |-> verdict.citations[k]],
           controls |-> verdict.controls \cap CandidatesAmong(retrieved),
           confidence |-> verdict.confidence, provenance |-> "ai_assisted"]

Validated(verdict, retrieved, question) ==
  LET good == Good(verdict, retrieved)
  IN IF ~verdict.wellFormed \/ (verdict.status \in Coverage /\ Kept(good) = {})
     THEN Insufficient(question, "ai_assisted")
     ELSE [question |-> question, status |-> verdict.status,
           citations |-> [k \in Kept(good) |-> verdict.citations[k]],
           controls |-> verdict.controls \cap CandidatesAmong(retrieved),
           confidence |-> IF good = Considered(verdict) THEN verdict.confidence
                          ELSE Lowered(verdict.confidence),
           provenance |-> "ai_assisted"]

\* answer_batch: whatever fails, there is an answer.
NextQuestion == Split[Len(answers) + 1]

AnswerQuestion(retrieved, verdict) ==
  /\ step = "answer" /\ Len(answers) < Len(Split)
  /\ retrieved \subseteq loaded /\ Cardinality(retrieved) <= TopK
  /\ answers' = Append(answers,
       IF retrieved = {} THEN Insufficient(NextQuestion, "deterministic")
       ELSE Validated(verdict, retrieved, NextQuestion))
  /\ UNCHANGED <<sheet, loaded, vectors, step, listed, exported>>

FailQuestion ==
  /\ step = "answer" /\ Len(answers) < Len(Split)
  /\ AnswerFault("model") \/ (AnswerFault("vectors") /\ ~vectors)
  /\ answers' = Append(answers, Insufficient(NextQuestion, "deterministic"))
  /\ UNCHANGED <<sheet, loaded, vectors, step, listed, exported>>

Counts ==
  [status \in Statuses |->
     Cardinality({k \in DOMAIN answers : answers[k].status = status})]

StoreRun ==
  /\ step = "answer" /\ Len(answers) = Len(Split)
  /\ \/ listed' = <<Counts>> /\ step' = "store"
     \/ AnswerFault("run") /\ step' = "end" /\ UNCHANGED listed
  /\ UNCHANGED <<sheet, loaded, vectors, answers, exported>>

\* One call inserts all of them, or none.
StoreAnswers ==
  /\ step = "store"
  /\ exported' = answers \/ (AnswerFault("answers") /\ UNCHANGED exported)
  /\ step' = "end"
  /\ UNCHANGED <<sheet, loaded, vectors, answers, listed>>

AnswersNext ==
  \/ \E kind \in Marks : WriteLine(kind)
  \/ Submit
  \/ \E sections \in SUBSET Evidence : LoadSections(sections)
  \/ EmbedQuestions
  \/ \E retrieved \in SUBSET Evidence, v \in Verdicts : AnswerQuestion(retrieved, v)
  \/ FailQuestion \/ StoreRun \/ StoreAnswers

AnswersSpec == AnswersInit /\ [][AnswersNext]_answerVars
-----------------------------------------------------------------------------
(***************************************************************************)
(* Whatever fails, a run that was answered has for each question pasted    *)
(* one answer, in the order of the questionnaire; and what was pasted but  *)
(* for short questions is in one of them: lines that go on with a question *)
(* are not lost where it is split (corpus.py:177-212, 444-543).  The       *)
(* counts a stored run is listed with are those of its answers, and add up *)
(* to the questions, also where the answers could not be stored; answers   *)
(* are never stored without their run.                                     *)
(***************************************************************************)
Pasted == {n \in DOMAIN sheet : ~Empty(n)}
TooShort(n) ==
  /\ sheet[n] \in {"short marked", "short plain"}
  /\ ~Continues(n)
  /\ n + 1 \in Pasted => ~Continues(n + 1)

StoredRunsAddUp ==
  /\ listed # <<>> => MapThenSumSet(LAMBDA s : listed[1][s], Statuses) = Len(Split)
  /\ exported # <<>> =>
       /\ listed # <<>>
       /\ \A s \in Statuses :
            listed[1][s] = Cardinality({k \in DOMAIN exported : exported[k].status = s})

QuestionnaireIsAnswered ==
  /\ step \in {"store", "end"} =>
       ListsInOrder([k \in DOMAIN answers |-> answers[k].question],
                    {n \in Pasted : ~TooShort(n)})
  /\ StoredRunsAddUp

(***************************************************************************)
(* "every answer cites real evidence" (api/corpus.py:159): an answer that  *)
(* claims coverage has a citation, each citation is a quote from a section *)
(* the run loaded, and each control it names is covered by the document of *)
(* such a section, whatever the model said.                                *)
(***************************************************************************)
CoverageIsCited ==
  \A k \in DOMAIN answers :
    LET a == answers[k] IN
    /\ a.status \in Coverage => DOMAIN a.citations # {}
    /\ \A c \in DOMAIN a.citations :
         /\ a.citations[c].section \in loaded
         /\ a.citations[c].quote \in QuotesOf[a.citations[c].section]
    /\ a.controls \subseteq CandidatesAmong(loaded)
    /\ Cardinality(DOMAIN a.citations) <= MaxCitations
=============================================================================
