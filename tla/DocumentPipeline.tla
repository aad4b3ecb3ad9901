-------------------------- MODULE DocumentPipeline --------------------------
(***************************************************************************)
(* The documents of one tenant: the handlers of backend/api/routes.py that *)
(* draft a policy and make documents, with the draft and document store    *)
(* (backend/storage/file_store.py) they call.                              *)
(* A document is charged when it is stored, as a "generated" event, and    *)
(* the fence counts these events before the work begins.  The handlers     *)
(* run on the event loop; create_generate awaits the save of its draft on  *)
(* a worker thread, for as long as the embeddings take, and POST /migrate  *)
(* awaits its template.                                                    *)
(* Not modelled: the upload allowance and the number of frameworks, which  *)
(* only turn requests away, and the policies that documents without a      *)
(* draft get, which nothing saves to again.                                *)
(***************************************************************************)
EXTENDS FiniteSets, Integers

CONSTANTS
  Requests,      \* requests that can be under way
  Loops,         \* event loops: one, or two during a deploy
  LoopOf,        \* LoopOf[r]: the loop request r runs on
  Policies,      \* ids drafts can get
  Contents,      \* what the sections of a draft can say
  Plans,
  FreePlan,
  GenerationsTotal, \* PLAN_LIMITS["free"]["max_generations_total"]
  DocsPerMonth,  \* PLAN_LIMITS[p]["max_docs_per_month"] of the plans that
                 \* have one; the others are unlimited
  Faults,
  MaxDocuments,  \* bound: rows of documents
  None           \* "no policy", "nothing"

FaultKinds ==
  { "draft",     \* a call of save_policy_draft fails
    "coverage",  \* writing the covered controls fails
    "document",  \* rendering or storing the document fails
    "event",     \* inserting the activity event fails
    "crash" }    \* the processes stop

ASSUME RequestsAssumption ==
  /\ IsFiniteSet(Requests) /\ Requests # {}
  /\ LoopOf \in [Requests -> Loops]
ASSUME LimitsAssumption ==
  /\ GenerationsTotal \in Nat \ {0}
  /\ DOMAIN DocsPerMonth \subseteq Plans \ {FreePlan}
  /\ DocsPerMonth \in [DOMAIN DocsPerMonth -> Nat \ {0}]
  /\ FreePlan \in Plans
  /\ MaxDocuments \in Nat
ASSUME NoneAssumption == None \notin Policies \cup Contents
ASSUME FaultsAssumption == Faults \subseteq FaultKinds

VARIABLES
  plan,       \* tenants.plan_type, resolved
  past,       \* "generated" events before this month
  monthly,    \* and since it began
  documents,  \* how many rows documents has
  drafts,     \* policies that were drafted
  sections,   \* sections[p]: rows of policy_sections, as <<request, content>>
              \* for the rows one save inserted together
  covered,    \* policies.covered_control_ids: the content they are of
  inForce,    \* history: plans in force this month
  paid,       \* history: a plan other than FreePlan was ever in force
  disturbed,  \* history: drafts two saves overlapped on, or one broke off
  pc,
  job         \* the draft a request works on and what it will say

metering == <<plan, past, monthly, documents, inForce, paid>>
store == <<drafts, sections, covered, disturbed>>
requests == <<pc, job>>
vars == <<metering, store, requests>>

NoJob == [policy |-> None, content |-> None]

Fault(kind) == kind \in Faults
Goto(r, label) == pc' = [pc EXCEPT ![r] = label] /\ UNCHANGED job
Begin(r, label, p, c) ==
  /\ pc' = [pc EXCEPT ![r] = label]
  /\ job' = [job EXCEPT ![r] = [policy |-> p, content |-> c]]
Answer(r) ==
  pc' = [pc EXCEPT ![r] = "idle"] /\ job' = [job EXCEPT ![r] = NoJob]

\* A loop is busy from where nothing is awaited any more to the answer.
HasLoop(r) ==
  \A q \in Requests \ {r} : LoopOf[q] = LoopOf[r] => pc[q] \notin {"store", "charge"}

Init ==
  /\ plan \in Plans
  /\ past = 0 /\ monthly = 0 /\ documents = 0
  /\ drafts = {}
  /\ sections = [p \in Policies |-> {}]
  /\ covered = [p \in Policies |-> None]
  /\ inForce = {plan}
  /\ paid = (plan # FreePlan)
  /\ disturbed = {}
  /\ pc = [r \in Requests |-> "idle"]
  /\ job = [r \in Requests |-> NoJob]
-----------------------------------------------------------------------------
\* _enforce_plan_limits(generation=True), with the tenant read anew.
FenceAtMost ==
  /\ plan = FreePlan => past + monthly <= GenerationsTotal
  /\ plan \in DOMAIN DocsPerMonth => monthly <= DocsPerMonth[plan]

Fence ==
  /\ plan = FreePlan => past + monthly < GenerationsTotal
  /\ plan \in DOMAIN DocsPerMonth => monthly < DocsPerMonth[plan]

\* _enforce_export_allowed
ExportAllowed == plan # FreePlan

\* A request that is let through; one that is not changes nothing.
LetThrough(r) == pc[r] = "idle" /\ HasLoop(r) /\ Fence

\* _generate_policy_data: a new policy, and its sections saved again after
\* each slot, which nobody else knows yet.
Draft(r, p, c) ==
  /\ p \notin drafts
  /\ drafts' = drafts \cup {p}
  /\ \/ sections' = [sections EXCEPT ![p] = {<<r, c>>}]
     \/ Fault("draft") /\ UNCHANGED sections
  /\ UNCHANGED <<covered, disturbed>>

\* create_preview; drafting is not charged.
Preview(r, p, c) ==
  /\ LetThrough(r)
  /\ Draft(r, p, c)
  /\ UNCHANGED <<metering, requests>>

\* create_document: drafts, and makes a document of the draft at once, unless
\* a section is missing.
CreateDocument(r, p, c) ==
  /\ LetThrough(r) /\ ExportAllowed
  /\ Draft(r, p, c)
  /\ \/ sections' # sections /\ Begin(r, "store", p, c)
     \/ UNCHANGED requests
  /\ UNCHANGED metering

\* migrate_generate and create_grc_summary: a document without a draft.
OtherDocument(r) ==
  /\ LetThrough(r) /\ ExportAllowed
  /\ Begin(r, "store", None, None)
  /\ UNCHANGED <<metering, store>>

\* migrate_document
MigrateDocument(r) ==
  /\ LetThrough(r) /\ ExportAllowed
  /\ Begin(r, "template", None, None)
  /\ UNCHANGED <<metering, store>>

\* The template is there; extracting may fail.
Extract(r) ==
  /\ pc[r] = "template" /\ HasLoop(r)
  /\ Goto(r, "store") \/ Answer(r)
  /\ UNCHANGED <<metering, store>>

\* create_generate up to its await: the client sends back the draft of a
\* preview, which names its policy, with sections it may have edited.
\* Only a caller that wants the file itself needs ExportAllowed.
CreateGenerate(r, p, c) ==
  /\ LetThrough(r)
  /\ p \in drafts
  /\ Begin(r, "delete", p, c)
  /\ UNCHANGED <<metering, store>>
-----------------------------------------------------------------------------
\* save_policy_draft on the worker thread.  Past its deletion and before the
\* coverage is written, a request is at work on the sections of its policy.
AtWork(p) == {r \in Requests : job[r].policy = p /\ pc[r] \in {"insert", "cover"}}

KeepSections(r) ==
  /\ pc[r] = "delete"
  /\ disturbed' = IF AtWork(job[r].policy) = {} THEN disturbed
                  ELSE disturbed \cup {job[r].policy}
  /\ Goto(r, "insert")
  /\ UNCHANGED <<metering, drafts, sections, covered>>

DeleteSections(r) ==
  LET p == job[r].policy IN
  /\ pc[r] = "delete"
  /\ \/ /\ sections' = [sections EXCEPT ![p] = {}]
        /\ disturbed' = IF AtWork(p) = {} THEN disturbed ELSE disturbed \cup {p}
        /\ Goto(r, "insert")
     \/ Fault("draft") /\ Answer(r) /\ UNCHANGED <<sections, disturbed>>
  /\ UNCHANGED <<metering, drafts, covered>>

\* The embeddings took their time; that they fail does not matter.
InsertSections(r) ==
  LET p == job[r].policy IN
  /\ pc[r] = "insert"
  /\ \/ /\ sections' = [sections EXCEPT ![p] = @ \cup {<<r, job[r].content>>}]
        /\ Goto(r, "cover")
        /\ UNCHANGED disturbed
     \/ /\ Fault("draft")
        /\ disturbed' = disturbed \cup {p}
        /\ Answer(r)
        /\ UNCHANGED sections
  /\ UNCHANGED <<metering, drafts, covered>>

\* Back on the loop: _identify_covered_controls answers with nothing when the
\* model fails, and a failure to write its answer is ignored.
CoverIfAny(r) ==
  LET p == job[r].policy IN
  /\ pc[r] = "cover" /\ HasLoop(r)
  /\ \/ /\ covered' \in {covered, [covered EXCEPT ![p] = job[r].content]}
        /\ UNCHANGED disturbed
     \/ /\ Fault("coverage")
        /\ disturbed' = disturbed \cup {p}
        /\ UNCHANGED covered
  /\ Goto(r, "store")
  /\ UNCHANGED <<metering, drafts, sections>>

Cover(r) ==
  LET p == job[r].policy IN
  /\ pc[r] = "cover" /\ HasLoop(r)
  /\ \/ /\ \E c \in {job[r].content, None} : covered' = [covered EXCEPT ![p] = c]
        /\ UNCHANGED disturbed
     \/ /\ Fault("coverage")
        /\ disturbed' = disturbed \cup {p}
        /\ UNCHANGED covered
  /\ Goto(r, "store")
  /\ UNCHANGED <<metering, drafts, sections>>
-----------------------------------------------------------------------------
\* save_generated_document: the file and its row, then the event.
ChargeFirst(r) ==
  /\ pc[r] = "store"
  /\ monthly' = monthly + 1
  /\ \/ documents' = documents + 1
     \/ Fault("document") /\ UNCHANGED documents
  /\ Answer(r)
  /\ UNCHANGED <<plan, past, inForce, paid, store>>

StoreDocument(r) ==
  /\ pc[r] = "store"
  /\ \/ /\ documents < MaxDocuments
        /\ documents' = documents + 1
        /\ Goto(r, "charge")
     \/ Fault("document") /\ Answer(r) /\ UNCHANGED documents
  /\ UNCHANGED <<plan, past, monthly, inForce, paid, store>>

Charge(r) ==
  /\ pc[r] = "charge"
  /\ \/ monthly' = monthly + 1
     \/ Fault("event") /\ UNCHANGED monthly
  /\ Answer(r)
  /\ UNCHANGED <<plan, past, documents, inForce, paid, store>>
-----------------------------------------------------------------------------
\* The billing webhook writes another plan.
PlanChanges(p) ==
  /\ plan' = p
  /\ inForce' = inForce \cup {p}
  /\ paid' = (paid \/ p # FreePlan)
  /\ UNCHANGED <<past, monthly, documents, store, requests>>

MonthBegins ==
  /\ past' = past + monthly
  /\ monthly' = 0
  /\ inForce' = {plan}
  /\ UNCHANGED <<plan, documents, paid, store, requests>>

Crash ==
  /\ Fault("crash")
  /\ disturbed' = disturbed \cup {p \in Policies : AtWork(p) # {}}
  /\ pc' = [r \in Requests |-> "idle"]
  /\ job' = [r \in Requests |-> NoJob]
  /\ UNCHANGED <<metering, drafts, sections, covered>>

Next ==
  \/ \E r \in Requests, p \in Policies, c \in Contents :
       Preview(r, p, c) \/ CreateDocument(r, p, c) \/ CreateGenerate(r, p, c)
  \/ \E r \in Requests :
       \/ OtherDocument(r) \/ MigrateDocument(r) \/ Extract(r)
       \/ DeleteSections(r) \/ InsertSections(r) \/ Cover(r)
       \/ StoreDocument(r) \/ Charge(r)
  \/ \E p \in Plans : PlanChanges(p)
  \/ MonthBegins
  \/ Crash

Spec == Init /\ [][Next]_vars
-----------------------------------------------------------------------------
Labels == {"idle", "template", "delete", "insert", "cover", "store", "charge"}

TypeOK ==
  /\ plan \in Plans
  /\ past \in Nat /\ monthly \in Nat /\ documents \in Nat
  /\ drafts \subseteq Policies
  /\ sections \in [Policies -> SUBSET (Requests \X Contents)]
  /\ covered \in [Policies -> Contents \cup {None}]
  /\ inForce \subseteq Plans
  /\ paid \in BOOLEAN
  /\ disturbed \subseteq Policies
  /\ pc \in [Requests -> Labels]
  /\ job \in [Requests -> [policy : Policies \cup {None}, content : Contents \cup {None}]]
  /\ \A r \in Requests :
       pc[r] \in {"delete", "insert", "cover"} =>
         job[r].policy \in drafts /\ job[r].content \in Contents

\* Requests past the fence whose document is not charged yet.
Admitted == {r \in Requests : pc[r] # "idle"}

\* What a month under plan p admits.
IsLimited(p) == p = FreePlan \/ p \in DOMAIN DocsPerMonth
Allowance(p) == IF p = FreePlan THEN GenerationsTotal ELSE DocsPerMonth[p]

(***************************************************************************)
(* "starter $99 (one framework, 10 documents a month)"                     *)
(* (billing_plans.py:12), with what the minutes between the fence and the  *)
(* event allow on top of it: less than the requests under way at a time.   *)
(***************************************************************************)
MonthlyDocumentsCapped ==
  \E p \in inForce :
    IsLimited(p) =>
      monthly + Cardinality(Admitted) <= Allowance(p) + Cardinality(Requests) - 1

(***************************************************************************)
(* "free (1 watermarked generation, preview only)" (billing_plans.py:11):  *)
(* while nothing but the free plan was ever in force, the total for all    *)
(* time is bounded in the same way, whatever the month.                    *)
(***************************************************************************)
FreeTotalCapped ==
  paid \/ past + monthly + Cardinality(Admitted)
            <= GenerationsTotal + Cardinality(Requests) - 1

(***************************************************************************)
(* Nothing is charged that is not in the store: save_generated_document    *)
(* inserts the row before the event (file_store.py:458-472).               *)
(***************************************************************************)
ChargedIsStored ==
  past + monthly + Cardinality({r \in Requests : pc[r] = "charge"}) <= documents

(***************************************************************************)
(* Saves of a draft that overlap leave their sections side by side         *)
(* (file_store.py:319-336), but no more than there were saves at a time.   *)
(***************************************************************************)
Inserting(p) == {r \in Requests : job[r].policy = p /\ pc[r] = "insert"}

BoundedMixing ==
  \A p \in Policies :
    Cardinality(sections[p]) + Cardinality(Inserting(p)) <= Cardinality(Requests)

(***************************************************************************)
(* "False negatives (missed IDs) are safe. False positives are not"        *)
(* (routes.py:2013): the coverage the gap engine goes by is of sections    *)
(* that are there, unless saves of the draft overlapped or one broke off.  *)
(***************************************************************************)
CoverageIsBacked ==
  \A p \in Policies \ disturbed :
    AtWork(p) = {} =>
      covered[p] \in {None} \cup {s[2] : s \in sections[p]}
=============================================================================
