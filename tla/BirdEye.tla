------------------------------- MODULE BirdEye -------------------------------
(***************************************************************************)
(* Bird Eye (backend/bird_eye): documents are ingested, which replaces     *)
(* those of the same number, and reviewed by runs of the five detectors,   *)
(* which record findings.                                                  *)
(* The endpoints are coroutines that call the database synchronously, so a *)
(* process serves one at a time; during a deploy two processes overlap.    *)
(* One step is one call of the database.  The requests that only read, and *)
(* those that fail before they wrote anything, are left out.               *)
(***************************************************************************)
EXTENDS BirdEyeDetectors

CONSTANTS
  Processes,    \* processes that serve the API
  RunIds,       \* bound: ids runs get
  EyeFaults

EyeFaultKinds ==
  { "database",  \* a call of the database fails
    "timeout",   \* findings are inserted, and the answer is lost
    "vectors",   \* embed_chunks fails, in spite of its retries
    "leap day",  \* it is 29 February, which last year did not have
    "stop" }     \* a process stops

\* What matters of a run's row: its status and its findings_count.
RunRows == [status : {"running", "complete", "failed"}, count : Nat]

ASSUME ProcessesAssumption == IsFiniteSet(Processes) /\ Nothing \notin RunIds \cup RunRows
ASSUME EyeFaultsAssumption == EyeFaults \subseteq EyeFaultKinds

VARIABLES
  runs,      \* rows of policy_runs
  findings,  \* rows of policy_gaps: <<run, finding>>
  at,        \* at[p]: the next call of process p
  task,      \* task[p]: what its handler holds
  kept,      \* history: numbers of which the last ingest to end succeeded
  fresh,     \* history: runs since whose beginning the library did not change
  lost       \* history: runs that were left to themselves

texts == <<policies, chunks>>
reviews == <<runs, findings, lost>>
handlers == <<at, task>>
eyeVars == <<texts, reviews, handlers, kept, fresh>>

NoTask == [text |-> Nothing, id |-> Nothing, rows |-> {}, run |-> Nothing,
           left |-> <<>>, found |-> {}, total |-> 0]

EyeFault(kind) == kind \in EyeFaults
GoOn(p, label) == at' = [at EXCEPT ![p] = label]
Hold(p, held) == task' = [task EXCEPT ![p] = held]
Respond(p) == GoOn(p, "idle") /\ Hold(p, NoTask)
Numbered(n) == {i \in Live : Document(i).number = n}

EyeInit ==
  /\ policies = [i \in Ids |-> Nothing]
  /\ chunks = [i \in Ids |-> "none"]
  /\ runs = [r \in RunIds |-> Nothing]
  /\ findings = {}
  /\ at = [p \in Processes |-> "idle"]
  /\ task = [p \in Processes |-> NoTask]
  /\ kept = {} /\ fresh = {} /\ lost = {}
-----------------------------------------------------------------------------
(* ingest_document *)

\* The text and its metadata are there; the documents it replaces are read.
IngestBegin(p, t) ==
  /\ at[p] = "idle"
  /\ LET rows == IF Content[t].number = Nothing THEN {} ELSE Numbered(Content[t].number)
     IN /\ Hold(p, [NoTask EXCEPT !.text = t, !.rows = rows])
        /\ GoOn(p, IF rows = {} THEN "document" ELSE "purge")
  /\ UNCHANGED <<texts, reviews, kept, fresh>>

IngestFails(p) ==
  /\ Respond(p)
  /\ kept' = kept \ {Content[task[p].text].number}

\* The findings that name a row, two calls; a call that fails leaves what the
\* calls before it did.
PurgeFindings(p, i) ==
  /\ at[p] = "purge" /\ i \in task[p].rows
  /\ \/ /\ findings' = {f \in findings : i \notin {f[2].primary, f[2].related}}
        /\ Hold(p, [task[p] EXCEPT !.id = i])
        /\ GoOn(p, "purge row")
        /\ UNCHANGED kept
     \/ /\ EyeFault("database")
        /\ findings' \in {findings, {f \in findings : f[2].primary # i}}
        /\ IngestFails(p)
  /\ fresh' = {}
  /\ UNCHANGED <<texts, runs, lost>>

\* Its chunks and the row itself, two calls.
PurgeRow(p) ==
  LET i == task[p].id
      rows == task[p].rows \ {i} IN
  /\ at[p] = "purge row"
  /\ \/ /\ policies' = [policies EXCEPT ![i] = Deleted]
        /\ chunks' = [chunks EXCEPT ![i] = "none"]
        /\ Hold(p, [task[p] EXCEPT !.id = Nothing, !.rows = rows])
        /\ GoOn(p, IF rows = {} THEN "document" ELSE "purge")
        /\ UNCHANGED kept
     \/ /\ EyeFault("database")
        /\ chunks' \in {chunks, [chunks EXCEPT ![i] = "none"]}
        /\ IngestFails(p)
        /\ UNCHANGED policies
  /\ fresh' = {}
  /\ UNCHANGED reviews

InsertDocument(p, i) ==
  /\ at[p] = "document" /\ policies[i] = Nothing
  /\ \/ /\ policies' = [policies EXCEPT ![i] = task[p].text]
        /\ fresh' = {}
        /\ Hold(p, [task[p] EXCEPT !.id = i])
        /\ GoOn(p, "chunks")
        /\ UNCHANGED kept
     \/ EyeFault("database") /\ IngestFails(p) /\ UNCHANGED <<policies, fresh>>
  /\ UNCHANGED <<chunks, reviews>>

\* policy_sections.policy_id references policies: there is no row to insert
\* for a document that another ingest deleted.
InsertChunksAnyhow(p) ==
  LET t == task[p].text i == task[p].id IN
  /\ at[p] = "chunks"
  /\ chunks' = [chunks EXCEPT ![i] = "embedded"]
  /\ fresh' = {}
  /\ kept' = IF Content[t].number = Nothing THEN kept ELSE kept \cup {Content[t].number}
  /\ Respond(p)
  /\ UNCHANGED <<policies, reviews>>

InsertChunks(p) ==
  LET t == task[p].text i == task[p].id IN
  /\ at[p] = "chunks"
  /\ \/ /\ i \in Live
        /\ \/ chunks' = [chunks EXCEPT ![i] = "embedded"]
           \/ EyeFault("vectors") /\ chunks' = [chunks EXCEPT ![i] = "bare"]
        /\ fresh' = {}
        /\ kept' = IF Content[t].number = Nothing THEN kept ELSE kept \cup {Content[t].number}
        /\ \/ GoOn(p, "start") /\ Hold(p, NoTask)
           \/ Respond(p)
     \/ /\ i \notin Live \/ EyeFault("database")
        /\ IngestFails(p)
        /\ UNCHANGED <<chunks, fresh>>
  /\ UNCHANGED <<policies, reviews>>

-----------------------------------------------------------------------------
(* run_bird_eye *)

\* After an ingest, or by trigger_run.
CreateRun(p, r) ==
  /\ at[p] \in {"idle", "start"} /\ runs[r] = Nothing
  /\ \/ /\ runs' = [runs EXCEPT ![r] = [status |-> "running", count |-> 0]]
        /\ fresh' = fresh \cup {r}
        /\ Hold(p, [NoTask EXCEPT !.run = r])
        /\ GoOn(p, "documents")
     \/ EyeFault("database") /\ Respond(p) /\ UNCHANGED <<runs, fresh>>
  /\ UNCHANGED <<texts, findings, lost, kept>>

\* Outside the try: when it fails nothing finishes the run.
CountDocuments(p) ==
  /\ at[p] = "documents"
  /\ \/ /\ Hold(p, [task[p] EXCEPT !.left = Detectors])
        /\ GoOn(p, "detect")
        /\ UNCHANGED lost
     \/ EyeFault("database") /\ Respond(p) /\ lost' = lost \cup {task[p].run}
  /\ UNCHANGED <<texts, runs, findings, kept, fresh>>

\* The next detector reads and looks; one that finds nothing inserts nothing.
Look(p) ==
  LET detector == Head(task[p].left) IN
  /\ at[p] = "detect" /\ task[p].left # <<>>
  /\ \/ \E found \in Found(detector) :
          IF found = {}
          THEN Hold(p, [task[p] EXCEPT !.left = Tail(@)]) /\ UNCHANGED at
          ELSE Hold(p, [task[p] EXCEPT !.found = found]) /\ GoOn(p, "record")
     \/ /\ EyeFault("database") \/ (EyeFault("leap day") /\ detector = "stale")
        /\ GoOn(p, "fail")
        /\ UNCHANGED task
  /\ UNCHANGED <<texts, reviews, kept, fresh>>

\* Whether a finding may name a deleted document is up to the database.
RecordLastCount(p) ==
  LET new == {<<task[p].run, f>> : f \in task[p].found} IN
  /\ at[p] = "record"
  /\ findings' = findings \cup new
  /\ Hold(p, [task[p] EXCEPT !.left = Tail(@), !.found = {}, !.total = Cardinality(new)])
  /\ GoOn(p, "detect")
  /\ UNCHANGED <<texts, runs, lost, kept, fresh>>

Record(p) ==
  LET new == {<<task[p].run, f>> : f \in task[p].found}
      gone == \E f \in task[p].found : {f.primary, f.related} \ (Live \cup {Nothing}) # {}
  IN
  /\ at[p] = "record"
  /\ \/ /\ findings' = findings \cup new
        /\ Hold(p, [task[p] EXCEPT !.left = Tail(@), !.found = {},
                                   !.total = @ + Cardinality(new)])
        /\ GoOn(p, "detect")
     \/ /\ \/ gone /\ UNCHANGED findings
           \/ EyeFault("database") /\ UNCHANGED findings
           \/ EyeFault("timeout") /\ findings' = findings \cup new
        /\ GoOn(p, "fail")
        /\ UNCHANGED task
  /\ UNCHANGED <<texts, runs, lost, kept, fresh>>

\* finalize_run
Finalize(p, status) ==
  runs' = [runs EXCEPT ![task[p].run] =
             [status |-> status, count |-> task[p].total]]

Complete(p) ==
  /\ at[p] = "detect" /\ task[p].left = <<>>
  /\ \/ Finalize(p, "complete") /\ Respond(p)
     \/ EyeFault("database") /\ GoOn(p, "fail") /\ UNCHANGED <<runs, task>>
  /\ UNCHANGED <<texts, findings, lost, kept, fresh>>

FailRun(p) ==
  /\ at[p] = "fail"
  /\ \/ Finalize(p, "failed") /\ UNCHANGED lost
     \/ EyeFault("database") /\ lost' = lost \cup {task[p].run} /\ UNCHANGED runs
  /\ Respond(p)
  /\ UNCHANGED <<texts, findings, kept, fresh>>
-----------------------------------------------------------------------------
Stop(p) ==
  /\ EyeFault("stop") /\ at[p] # "idle"
  /\ lost' = lost \cup ({task[p].run} \ {Nothing})
  /\ kept' = IF at[p] \in {"purge", "purge row", "document", "chunks"}
             THEN kept \ {Content[task[p].text].number} ELSE kept
  /\ Respond(p)
  /\ UNCHANGED <<texts, runs, findings, fresh>>

Handler(p) ==
  \/ \E t \in Texts : IngestBegin(p, t)
  \/ \E i \in Ids : PurgeFindings(p, i) \/ InsertDocument(p, i)
  \/ PurgeRow(p) \/ InsertChunks(p)
  \/ (\E r \in RunIds : CreateRun(p, r))
  \/ CountDocuments(p) \/ Look(p) \/ Record(p) \/ Complete(p) \/ FailRun(p)
  \/ Stop(p)

EyeNext == \E p \in Processes : Handler(p)

EyeSpec == EyeInit /\ [][EyeNext]_eyeVars
-----------------------------------------------------------------------------
(***************************************************************************)
(* What a second upload of a document is for: the last ingest of a number  *)
(* to end having succeeded, and none being under way, there is a document  *)
(* of that number with all its chunks; although each ingest deletes before *)
(* it inserts, and another may delete what it inserted                     *)
(* (ingestion.py:449-525).  Uploads replace: there are never more of that  *)
(* number than processes, each of which replaces what it inserted itself.  *)
(***************************************************************************)
Ingesting(n) ==
  {p \in Processes : task[p].text # Nothing /\ Content[task[p].text].number = n}

ReingestKeepsDocument ==
  /\ \A n \in kept :
       Ingesting(n) = {} => \E i \in Numbered(n) : chunks[i] # "none"
  /\ \A n \in Numbers : Cardinality(Numbered(n)) <= Cardinality(Processes)

(***************************************************************************)
(* A run that says "running" is at work, unless it was left to itself: its *)
(* process stopped, the read of the documents failed, which is outside the *)
(* try (orchestrator.py:54-60), or the last update did.  The open findings *)
(* of the last run are shown next to its findings_count (bird_eye/api.py:  *)
(* 241-277): a run that completed never has more than it counted, nor has  *)
(* one that failed, unless an insert was reported as failed.               *)
(***************************************************************************)
OfRun(r) == {f \in findings : f[1] = r}

RunningIsAtWork ==
  \A r \in RunIds \ lost :
    runs[r] # Nothing /\ runs[r].status = "running" =>
      \E p \in Processes : task[p].run = r

FindingsAreCounted ==
  \A r \in RunIds :
    runs[r] # Nothing =>
      \/ runs[r].status = "running"
      \/ runs[r].status = "failed" /\ EyeFault("timeout")
      \/ Cardinality(OfRun(r)) <= runs[r].count

RunRowsAreTrue == RunningIsAtWork /\ FindingsAreCounted

(***************************************************************************)
(* A run that completed while the library stayed as it was has found every *)
(* chunk with a near-duplicate in another document, and every number two   *)
(* documents disagree about; and such a disagreement, unless it is about   *)
(* the lockout, is reported between two documents.                         *)
(***************************************************************************)
HasTwin(c) ==
  \E d \in Compared : d[1] # c[1] /\ Likeness[c[2]][d[2]] >= DuplicateMedium

Disagree(i, j, key) ==
  \E r \in Requires(i), s \in Requires(j) :
    r[1] = key /\ s[1] = key /\ r[2] # s[2] /\ Says(key, r[2]) # Says(key, s[2])

CompleteRunMissesNothing ==
  \A r \in fresh :
    runs[r].status = "complete" =>
      /\ \A c \in Compared :
           HasTwin(c) => \E f \in OfRun(r) : f[2].kind = "duplicate" /\ c \in f[2].about
      /\ \A i, j \in Read, key \in Keys :
           i # j /\ Disagree(i, j, key) =>
             \E f \in OfRun(r) :
               /\ f[2].kind = "conflict"
               /\ f[2].about = IF key \in LockoutKeys THEN "lockout" ELSE key
               /\ key \in LockoutKeys \/ f[2].primary # f[2].related
=============================================================================
