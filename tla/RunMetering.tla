---------------------------- MODULE RunMetering ----------------------------
(***************************************************************************)
(* How the questionnaire runs of one tenant are metered: corpus_answer     *)
(* (backend/api/corpus.py) on the request thread pool and the              *)
(* answer_questions tool (backend/api/mcp_gateway.py) on the event loop.   *)
(* Both count this month's "corpus_answered" events, answer the questions, *)
(* which takes minutes of model calls, and insert the event when done.     *)
(* A worker is a pool thread or an event loop: a loop serves one /mcp      *)
(* request at a time, because nothing in its tools awaits.                 *)
(* Requests turned away before the fence (422, 413, 429) change nothing.   *)
(***************************************************************************)
EXTENDS FiniteSets, Integers

CONSTANTS
  Pool,       \* pool threads serving POST /corpus/answer
  Loops,      \* event loops serving POST /mcp: one, or two during a deploy
  Plans,
  FreePlan,   \* what an unreadable plan resolves to
  RunsPerMonth,  \* RunsPerMonth[p]: PLAN_LIMITS[p]["corpus_runs_per_month"]
  Faults

Workers == Pool \cup Loops
Caps == {RunsPerMonth[p] : p \in Plans}

FaultKinds ==
  { "plan",   \* _plan_type's read fails
    "count",  \* counting the activity events fails
    "load",   \* loading the sections fails, or no model client can be made
    "event",  \* inserting the activity event fails
    "crash" } \* the process stops

ASSUME WorkersAssumption ==
  IsFiniteSet(Workers) /\ Workers # {} /\ Pool \cap Loops = {}
ASSUME PlansAssumption ==
  /\ RunsPerMonth \in [Plans -> Nat \ {0}]
  /\ FreePlan \in Plans
  /\ \A p \in Plans : RunsPerMonth[FreePlan] <= RunsPerMonth[p]
ASSUME FaultsAssumption == Faults \subseteq FaultKinds

VARIABLES
  plan,       \* tenants.plan_type, resolved
  events,     \* activity_log: "corpus_answered" events since the month began
  documents,  \* the tenant has embedded sections to answer from
  ceiling,    \* history: the largest cap a fence could go by this month
  pc,
  snap        \* the plan a worker goes by

vars == <<plan, events, documents, ceiling, pc, snap>>

Fault(kind) == kind \in Faults
Goto(w, label) == pc' = [pc EXCEPT ![w] = label]

Init ==
  /\ plan \in Plans
  /\ events = 0
  /\ documents \in BOOLEAN
  /\ ceiling = RunsPerMonth[plan]
  /\ pc = [w \in Workers |-> "idle"]
  /\ snap = [w \in Workers |-> FreePlan]

\* The plan travels with the request from verify_access; /mcp reads it anew.
Receive(w) ==
  /\ pc[w] = "idle"
  /\ \/ snap' = [snap EXCEPT ![w] = plan]
     \/ /\ w \in Loops
        /\ Fault("plan")
        /\ snap' = [snap EXCEPT ![w] = FreePlan]
  /\ Goto(w, "fence")
  /\ UNCHANGED <<plan, events, documents, ceiling>>

Remaining(w) == RunsPerMonth[snap[w]] - events

\* _enforce_corpus_fence and _run_allowance.  A count that fails is a 503 to
\* the one; to the other the remaining runs are unknown, which is not 0.
FenceAtMost(w) ==
  /\ pc[w] = "fence"
  /\ \/ Remaining(w) >= 0 /\ Goto(w, "load")
     \/ Remaining(w) < 0 /\ Goto(w, "idle")
     \/ Fault("count") /\ Goto(w, IF w \in Loops THEN "load" ELSE "idle")
  /\ UNCHANGED <<plan, events, documents, ceiling, snap>>

Fence(w) ==
  /\ pc[w] = "fence"
  /\ \/ Remaining(w) > 0 /\ Goto(w, "load")
     \/ Remaining(w) <= 0 /\ Goto(w, "idle")
     \/ Fault("count") /\ Goto(w, IF w \in Loops THEN "load" ELSE "idle")
  /\ UNCHANGED <<plan, events, documents, ceiling, snap>>

\* load_corpus_sections, and the model client.
Load(w) ==
  /\ pc[w] = "load"
  /\ \/ documents /\ Goto(w, "answer")
     \/ (~documents \/ Fault("load")) /\ Goto(w, "idle")
  /\ UNCHANGED <<plan, events, documents, ceiling, snap>>

\* answer_batch never fails mid-run: a question it cannot answer is answered
\* as insufficient evidence, a run it cannot persist is returned all the same.
Answer(w) ==
  /\ pc[w] = "answer"
  /\ Goto(w, "record")
  /\ UNCHANGED <<plan, events, documents, ceiling, snap>>

\* create_activity_event: accounting must not fail the run.
Record(w) ==
  /\ pc[w] = "record"
  /\ \/ events' = events + 1
     \/ Fault("event") /\ UNCHANGED events
  /\ Goto(w, "idle")
  /\ UNCHANGED <<plan, documents, ceiling, snap>>

-----------------------------------------------------------------------------
\* The billing webhook writes another plan.
PlanChanges(p) ==
  /\ plan' = p
  /\ ceiling' = IF RunsPerMonth[p] > ceiling THEN RunsPerMonth[p] ELSE ceiling
  /\ UNCHANGED <<events, documents, pc, snap>>

DocumentsChange ==
  /\ documents' = ~documents
  /\ UNCHANGED <<plan, events, ceiling, pc, snap>>

\* The month turns: the events counted so far are before month_start now.
PlansInForce == {plan} \cup {snap[w] : w \in {w \in Workers : pc[w] = "fence"}}

MonthBegins ==
  /\ events' = 0
  /\ ceiling' \in {RunsPerMonth[p] : p \in PlansInForce}
  /\ \A p \in PlansInForce : RunsPerMonth[p] <= ceiling'
  /\ UNCHANGED <<plan, documents, pc, snap>>

Crash ==
  /\ Fault("crash")
  /\ pc' = [w \in Workers |-> "idle"]
  /\ UNCHANGED <<plan, events, documents, ceiling, snap>>

WorkerStep(w) == Receive(w) \/ Fence(w) \/ Load(w) \/ Answer(w) \/ Record(w)

Next ==
  \/ \E w \in Workers : WorkerStep(w)
  \/ \E p \in Plans : PlanChanges(p)
  \/ DocumentsChange
  \/ MonthBegins
  \/ Crash

Spec == Init /\ [][Next]_vars
-----------------------------------------------------------------------------
TypeOK ==
  /\ plan \in Plans
  /\ events \in Nat
  /\ documents \in BOOLEAN
  /\ ceiling \in Caps
  /\ pc \in [Workers -> {"idle", "fence", "load", "answer", "record"}]
  /\ snap \in [Workers -> Plans]

\* Workers past the fence whose run is not in the activity log yet.
Admitted == {w \in Workers : pc[w] \in {"load", "answer", "record"}}

(***************************************************************************)
(* "Every tier carries a finite monthly cap" (billing_plans.py:20), with   *)
(* what the time between the count and the event allows on top of it.      *)
(***************************************************************************)
FiniteMonthlyCap ==
  events + Cardinality(Admitted) <= ceiling + Cardinality(Workers) - 1

(***************************************************************************)
(* The fences are an implementation of the abstract quota.                 *)
(***************************************************************************)
Q == INSTANCE Quota WITH
       Allowances <- Caps, Slots <- Cardinality(Workers),
       ceiling <- ceiling, used <- events, pending <- Cardinality(Admitted)

ImplementsQuota == Q!Spec
=============================================================================
