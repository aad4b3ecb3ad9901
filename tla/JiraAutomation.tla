--------------------------- MODULE JiraAutomation ---------------------------
(***************************************************************************)
(* The Jira automation of one tenant (backend/integrations/jira_sync.py,   *)
(* backend/core/scheduler.py and the handlers of backend/api/integrations.py).  *)
(* Every handler is a synchronous function running on a thread of its own: *)
(* the scheduler's pass through asyncio.to_thread, "Sync now" and          *)
(* "push-gap" on the request thread pool.  Nothing locks one against the   *)
(* other, so each call to Jira or to the database is a step, and the       *)
(* threads interleave between steps.                                       *)
(*                                                                         *)
(* A key names an issue of the tenant's Jira project.  A link row has the  *)
(* control of the issue it names, and (tenant_id, issue_key) is unique, so *)
(* a row is represented by its state alone.                                *)
(***************************************************************************)
EXTENDS FiniteSets, Integers

CONSTANTS
  Controls,     \* the controls a gap can be about
  Material,     \* those whose severity is critical or medium
  Keys,         \* issue keys Jira can hand out
  Schedulers,   \* scheduler threads: one, or two while a deploy overlaps
  Clickers,     \* request threads serving POST /sync
  Users,        \* request threads serving POST /push-gap
  Faults,       \* the failures this instance can meet, see FaultKinds
  None          \* "no key", "no control"

Automation == Schedulers \cup Clickers
Threads == Automation \cup Users

FaultKinds ==
  { "jira",     \* a Jira call is refused or unreachable: JiraError, no effect
    "timeout",  \* create_issue times out although Jira created the issue
    "body",     \* Jira did what it was asked for, and answers what does not
                \* parse: no JiraError
    "link",     \* the link row is not inserted (_record_link never looks)
    "db",       \* a database read or update raises
    "alert",    \* an alert reaches neither the feed nor the webhook
    "crash" }   \* the process stops; every thread is lost

ASSUME FaultsAssumption == Faults \subseteq FaultKinds
ASSUME MaterialAssumption == Material \subseteq Controls
ASSUME NoneAssumption == None \notin Controls \cup Keys \cup Threads
ASSUME ThreadsAssumption ==
  /\ Schedulers \cap Clickers = {}
  /\ Automation \cap Users = {}

VARIABLES
  \* Jira
  control,     \* control[k]: the control issue k was filed for, None: no issue
  by,          \* by[k]: the thread that filed issue k
  status,      \* status[k]: the issue's workflow state
  \* the database
  gap,         \* the controls that program gap analysis now reports
  link,        \* link[k]: the state of the jira_issue_links row of issue k
  enabled,     \* jira_integrations.enabled
  autoPush,    \* jira_integrations.auto_push
  due,         \* last_readiness_at is null or READINESS_INTERVAL_DAYS old
  \* the activity feed
  doneAlerts,  \* doneAlerts[k]: "jira_issue_done" alerts for issue k, up to 2
  announced,   \* issues named by a "jira_gaps_auto_pushed" alert
  snapshots,   \* readiness alerts since the interval elapsed, up to 2
  \* the threads' locals
  pc,
  cur,         \* the issue a thread is working on
  rows,        \* sync_back: open rows still to visit
  seen,        \* sync_back: status["done"] as read for cur
  newly,       \* sync_back: newly_done
  todo,        \* auto_push_gaps: gaps still to visit
  already,     \* auto_push_gaps: control ids taken as linked
  pushed       \* auto_push_gaps: issues to announce

jira     == <<control, by, status>>
settings == <<enabled, autoPush>>
feed     == <<doneAlerts, announced, snapshots>>
syncVars == <<rows, seen, newly>>
pushVars == <<todo, already, pushed>>
vars == <<jira, gap, link, settings, due, feed, pc, cur, syncVars, pushVars>>

Filed(k)  == control[k] # None
Linked(k) == link[k] # "none"
Fault(kind) == kind \in Faults
Goto(t, label) == pc' = [pc EXCEPT ![t] = label]
Saturate(n) == IF n < 2 THEN n + 1 ELSE n

(***************************************************************************)
(* detect_gaps restricted to MATERIAL_SEVERITIES, _linked_control_ids, and *)
(* the rows sync_back selects (resolved_at is null).                       *)
(***************************************************************************)
MaterialGaps == gap \cap Material
LinkedControlsIfOpen == {control[k] : k \in {k \in Keys : link[k] = "open"}}
LinkedControls == {control[k] : k \in {k \in Keys : Linked(k)}}
OpenRows == {k \in Keys : link[k] = "open"}

\* What follows sync_back; when it raises, run_tick catches the failure and
\* sync_now fails its request.
AfterSyncReady(t) == IF t \in Schedulers THEN "ready" ELSE "idle"
AfterSync(t) == IF t \in Schedulers THEN "choose" ELSE "gaps"
AfterFailedSync(t) == IF t \in Schedulers THEN "choose" ELSE "idle"
\* run_tick goes on to the readiness stage, sync_now returns.
AfterPush(t) == IF t \in Schedulers THEN "ready" ELSE "idle"

Init ==
  /\ control = [k \in Keys |-> None]
  /\ by = [k \in Keys |-> None]
  /\ status = [k \in Keys |-> "open"]
  /\ gap \in SUBSET Controls
  /\ link = [k \in Keys |-> "none"]
  /\ enabled = TRUE
  /\ autoPush \in BOOLEAN
  /\ due = TRUE
  /\ doneAlerts = [k \in Keys |-> 0]
  /\ announced = {}
  /\ snapshots = 0
  /\ pc = [t \in Threads |-> "idle"]
  /\ cur = [t \in Threads |-> None]
  /\ rows = [t \in Threads |-> {}]
  /\ seen = [t \in Threads |-> FALSE]
  /\ newly = [t \in Threads |-> {}]
  /\ todo = [t \in Threads |-> {}]
  /\ already = [t \in Threads |-> {}]
  /\ pushed = [t \in Threads |-> {}]

-----------------------------------------------------------------------------
(* Starting a pass: list_automation_tenants finds the tenant enabled; the   *)
(* "Sync now" request gets a client from _client.                           *)

StartPass(t) ==
  /\ pc[t] = "idle"
  /\ enabled
  /\ Goto(t, "sync")
  /\ UNCHANGED <<jira, gap, link, settings, due, feed, cur, syncVars, pushVars>>

-----------------------------------------------------------------------------
(* sync_back *)

SyncRead(t) ==
  /\ pc[t] = "sync"
  /\ \/ /\ ~enabled
        /\ Goto(t, AfterSync(t))
        /\ UNCHANGED rows
     \/ /\ enabled
        /\ rows' = [rows EXCEPT ![t] = OpenRows]
        /\ Goto(t, "status")
     \/ /\ Fault("db")
        /\ Goto(t, AfterFailedSync(t))
        /\ UNCHANGED rows
  /\ UNCHANGED <<jira, gap, link, settings, due, feed, cur, seen, newly, pushVars>>

\* An issue read as done joins newly_done before its row is updated.
NoteDoneNever(notes, k, done) == notes
NoteDone(notes, k, done) == IF done THEN notes \cup {k} ELSE notes

\* get_issue_status: a JiraError leaves the row for the next pass.  An answer
\* that does not parse leaves sync_back, and newly_done with it.
SyncStatus(t, k) ==
  /\ pc[t] = "status"
  /\ k \in rows[t]
  /\ \/ /\ Fault("jira")
        /\ rows' = [rows EXCEPT ![t] = @ \ {k}]
        /\ UNCHANGED <<pc, cur, seen, newly>>
     \/ /\ rows' = [rows EXCEPT ![t] = @ \ {k}]
        /\ cur' = [cur EXCEPT ![t] = k]
        /\ seen' = [seen EXCEPT ![t] = status[k] = "done"]
        /\ newly' = [newly EXCEPT ![t] = NoteDone(@, k, status[k] = "done")]
        /\ Goto(t, "patch")
     \/ /\ Fault("body")
        /\ rows' = [rows EXCEPT ![t] = {}]
        /\ newly' = [newly EXCEPT ![t] = {}]
        /\ Goto(t, AfterFailedSync(t))
        /\ UNCHANGED <<cur, seen>>
  /\ UNCHANGED <<jira, gap, link, settings, due, feed, pushVars>>

\* The patch carries resolved_at only when the issue was read as done.
PatchedBlindly(row, done) == "resolved"
PatchedClearing(row, done) == IF done THEN "resolved" ELSE "open"
PatchedStatusOnly(row, done) == row
Patched(row, done) == IF done THEN "resolved" ELSE row

SyncPatch(t) ==
  /\ pc[t] = "patch"
  /\ \/ link' = [link EXCEPT ![cur[t]] = Patched(@, seen[t])]
     \/ Fault("db") /\ UNCHANGED link
  /\ cur' = [cur EXCEPT ![t] = None]
  /\ seen' = [seen EXCEPT ![t] = FALSE]
  /\ Goto(t, "status")
  /\ UNCHANGED <<jira, gap, settings, due, feed, rows, newly, pushVars>>

\* One alert per newly done issue, once every row has been visited.
SyncAlert(t, k) ==
  /\ pc[t] = "status"
  /\ rows[t] = {}
  /\ k \in newly[t]
  /\ newly' = [newly EXCEPT ![t] = @ \ {k}]
  /\ \/ doneAlerts' = [doneAlerts EXCEPT ![k] = Saturate(@)]
     \/ Fault("alert") /\ UNCHANGED doneAlerts
  /\ UNCHANGED <<jira, gap, link, settings, due, announced, snapshots,
                 pc, cur, rows, seen, pushVars>>

SyncEnd(t) ==
  /\ pc[t] = "status"
  /\ rows[t] = {}
  /\ newly[t] = {}
  /\ Goto(t, AfterSync(t))
  /\ UNCHANGED <<jira, gap, link, settings, due, feed, cur, syncVars, pushVars>>

-----------------------------------------------------------------------------
(* run_tick's choice: load_settings answers {} when the read fails.         *)

Choose(t) ==
  /\ pc[t] = "choose"
  /\ \/ autoPush /\ Goto(t, "gaps")
     \/ (~autoPush \/ Fault("db")) /\ Goto(t, "ready")
  /\ UNCHANGED <<jira, gap, link, settings, due, feed, cur, syncVars, pushVars>>

-----------------------------------------------------------------------------
(* auto_push_gaps: the configuration and the gaps are read, then the        *)
(* already linked control ids, each once.                                   *)

PushGaps(t) ==
  /\ pc[t] = "gaps"
  /\ \/ /\ enabled
        /\ todo' = [todo EXCEPT ![t] = MaterialGaps]
        /\ Goto(t, "links")
     \/ /\ ~enabled \/ Fault("db")
        /\ Goto(t, AfterPush(t))
        /\ UNCHANGED todo
  /\ UNCHANGED <<jira, gap, link, settings, due, feed, cur, syncVars, already, pushed>>

PushLinks(t) ==
  /\ pc[t] = "links"
  /\ \/ /\ already' = [already EXCEPT ![t] = LinkedControls]
        /\ Goto(t, "file")
        /\ UNCHANGED todo
     \/ /\ Fault("db")
        /\ todo' = [todo EXCEPT ![t] = {}]
        /\ Goto(t, AfterPush(t))
        /\ UNCHANGED already
  /\ UNCHANGED <<jira, gap, link, settings, due, feed, cur, syncVars, pushed>>

\* Jira creates issue k for control c at the request of thread t.
Create(t, c, k) ==
  /\ ~Filed(k)
  /\ control' = [control EXCEPT ![k] = c]
  /\ by' = [by EXCEPT ![k] = t]
  /\ UNCHANGED status

FileGap(t, c, k) ==
  /\ pc[t] = "file"
  /\ c \in todo[t] \ already[t]
  /\ \/ /\ Create(t, c, k)
        /\ cur' = [cur EXCEPT ![t] = k]
        /\ Goto(t, "record")
        /\ UNCHANGED pushVars
     \/ /\ Fault("timeout")
        /\ Create(t, c, k)
        /\ todo' = [todo EXCEPT ![t] = @ \ {c}]
        /\ UNCHANGED <<pc, cur, already, pushed>>
     \/ /\ Fault("jira")
        /\ todo' = [todo EXCEPT ![t] = @ \ {c}]
        /\ UNCHANGED <<jira, pc, cur, already, pushed>>
     \/ /\ Fault("body")
        /\ Create(t, c, k)
        /\ todo' = [todo EXCEPT ![t] = {}]
        /\ already' = [already EXCEPT ![t] = {}]
        /\ pushed' = [pushed EXCEPT ![t] = {}]
        /\ Goto(t, AfterPush(t))
        /\ UNCHANGED cur
  /\ UNCHANGED <<gap, link, settings, due, feed, syncVars>>

RecordLinkUnannounced(t) ==
  /\ pc[t] = "record"
  /\ link' = [link EXCEPT ![cur[t]] = "open"]
  /\ todo' = [todo EXCEPT ![t] = @ \ {control[cur[t]]}]
  /\ already' = [already EXCEPT ![t] = @ \cup {control[cur[t]]}]
  /\ cur' = [cur EXCEPT ![t] = None]
  /\ Goto(t, "file")
  /\ UNCHANGED <<jira, gap, settings, due, feed, syncVars, pushed>>

\* _record_link swallows its failures: the gap counts as linked either way.
RecordLink(t) ==
  /\ pc[t] = "record"
  /\ \/ link' = [link EXCEPT ![cur[t]] = "open"]
     \/ Fault("link") /\ UNCHANGED link
  /\ todo' = [todo EXCEPT ![t] = @ \ {control[cur[t]]}]
  /\ already' = [already EXCEPT ![t] = @ \cup {control[cur[t]]}]
  /\ pushed' = [pushed EXCEPT ![t] = @ \cup {cur[t]}]
  /\ cur' = [cur EXCEPT ![t] = None]
  /\ Goto(t, "file")
  /\ UNCHANGED <<jira, gap, settings, due, feed, syncVars>>

\* The gaps left over are the linked ones; one alert names what was pushed.
PushEnd(t) ==
  /\ pc[t] = "file"
  /\ todo[t] \subseteq already[t]
  /\ \/ announced' = announced \cup pushed[t]
     \/ Fault("alert") /\ UNCHANGED announced
  /\ todo' = [todo EXCEPT ![t] = {}]
  /\ already' = [already EXCEPT ![t] = {}]
  /\ pushed' = [pushed EXCEPT ![t] = {}]
  /\ Goto(t, AfterPush(t))
  /\ UNCHANGED <<jira, gap, link, settings, due, doneAlerts, snapshots, cur, syncVars>>

-----------------------------------------------------------------------------
(* readiness_due and run_readiness_check: the alert precedes the stamp, and *)
(* a failed stamp is swallowed.                                             *)

ReadinessSkip(t) ==
  /\ pc[t] = "ready"
  /\ ~due \/ Fault("db")
  /\ Goto(t, "idle")
  /\ UNCHANGED <<jira, gap, link, settings, due, feed, cur, syncVars, pushVars>>

ReadinessAlert(t) ==
  /\ pc[t] = "ready"
  /\ due
  /\ \/ snapshots' = Saturate(snapshots)
     \/ Fault("alert") /\ UNCHANGED snapshots
  /\ Goto(t, "stamp")
  /\ UNCHANGED <<jira, gap, link, settings, due, doneAlerts, announced,
                 cur, syncVars, pushVars>>

ReadinessStamp(t) ==
  /\ pc[t] = "stamp"
  /\ \/ due' = FALSE
     \/ Fault("db") /\ UNCHANGED due
  /\ Goto(t, "idle")
  /\ UNCHANGED <<jira, gap, link, settings, feed, cur, syncVars, pushVars>>

-----------------------------------------------------------------------------
(* push_gap: any control, linked or not, material or not.                   *)

PushGap(u, c, k) ==
  /\ pc[u] = "idle"
  /\ enabled
  /\ Create(u, c, k)
  /\ \/ /\ cur' = [cur EXCEPT ![u] = k]
        /\ Goto(u, "insert")
     \/ Fault("timeout") /\ UNCHANGED <<pc, cur>>
  /\ UNCHANGED <<gap, link, settings, due, feed, syncVars, pushVars>>

InsertLink(u) ==
  /\ pc[u] = "insert"
  /\ \/ link' = [link EXCEPT ![cur[u]] = "open"]
     \/ Fault("link") /\ UNCHANGED link
  /\ cur' = [cur EXCEPT ![u] = None]
  /\ Goto(u, "idle")
  /\ UNCHANGED <<jira, gap, settings, due, feed, syncVars, pushVars>>

-----------------------------------------------------------------------------
(* The surroundings: evidence, Jira's users, the settings page, the         *)
(* calendar, and the process itself.                                        *)

\* Ingested evidence starts or stops covering a control.
EvidenceChanges(c) ==
  /\ gap' = IF c \in gap THEN gap \ {c} ELSE gap \cup {c}
  /\ UNCHANGED <<jira, link, settings, due, feed, pc, cur, syncVars, pushVars>>

\* Somebody moves an issue to a done category or out of it again.
IssueMoves(k) ==
  /\ Filed(k)
  /\ status' = [status EXCEPT ![k] = IF @ = "done" THEN "reopened" ELSE "done"]
  /\ UNCHANGED <<control, by, gap, link, settings, due, feed, pc, cur,
                 syncVars, pushVars>>

\* PUT /config with a token: both switches are written at once.
PutConfig ==
  /\ enabled' \in BOOLEAN
  /\ autoPush' \in BOOLEAN
  /\ UNCHANGED <<jira, gap, link, due, feed, pc, cur, syncVars, pushVars>>

\* Thirty days go by: far longer than any pass lasts.
IntervalElapses ==
  /\ ~due
  /\ \A t \in Threads : pc[t] = "idle"
  /\ due' = TRUE
  /\ snapshots' = 0
  /\ UNCHANGED <<jira, gap, link, settings, doneAlerts, announced, pc, cur,
                 syncVars, pushVars>>

Crash ==
  /\ Fault("crash")
  /\ pc' = [t \in Threads |-> "idle"]
  /\ cur' = [t \in Threads |-> None]
  /\ rows' = [t \in Threads |-> {}]
  /\ seen' = [t \in Threads |-> FALSE]
  /\ newly' = [t \in Threads |-> {}]
  /\ todo' = [t \in Threads |-> {}]
  /\ already' = [t \in Threads |-> {}]
  /\ pushed' = [t \in Threads |-> {}]
  /\ UNCHANGED <<jira, gap, link, settings, due, feed>>

-----------------------------------------------------------------------------
SyncStep(t) ==
  \/ SyncRead(t)
  \/ \E k \in Keys : SyncStatus(t, k) \/ SyncAlert(t, k)
  \/ SyncPatch(t)
  \/ SyncEnd(t)

PushStep(t) ==
  \/ PushGaps(t)
  \/ PushLinks(t)
  \/ \E c \in Controls, k \in Keys : FileGap(t, c, k)
  \/ RecordLink(t)
  \/ PushEnd(t)

ReadinessStep(t) ==
  \/ ReadinessSkip(t)
  \/ ReadinessAlert(t)
  \/ ReadinessStamp(t)

PassStep(t) == SyncStep(t) \/ Choose(t) \/ PushStep(t) \/ ReadinessStep(t)

UserStep(u) ==
  \/ \E c \in Controls, k \in Keys : PushGap(u, c, k)
  \/ InsertLink(u)

Surroundings ==
  \/ \E c \in Controls : EvidenceChanges(c)
  \/ \E k \in Keys : IssueMoves(k)
  \/ PutConfig
  \/ IntervalElapses
  \/ Crash

Next ==
  \/ \E t \in Automation : StartPass(t) \/ PassStep(t)
  \/ \E u \in Users : UserStep(u)
  \/ Surroundings

Spec == Init /\ [][Next]_vars

(***************************************************************************)
(* The scheduler's loop ticks for as long as the process lives and a       *)
(* thread that is running keeps running.  Jira is taken to answer          *)
(* eventually: a call tried again and again succeeds at last.              *)
(***************************************************************************)
JiraAnswers(t) ==
  /\ \A c \in Controls :
       SF_vars(\E k \in Keys : FileGap(t, c, k) /\ pc'[t] = "record")
  /\ \A k \in Keys : SF_vars(SyncStatus(t, k) /\ pc'[t] = "patch")

FairSpec ==
  /\ Spec
  /\ \A t \in Schedulers :
       WF_vars(StartPass(t)) /\ WF_vars(PassStep(t)) /\ JiraAnswers(t)
-----------------------------------------------------------------------------
TypeOK ==
  /\ control \in [Keys -> Controls \cup {None}]
  /\ by \in [Keys -> Threads \cup {None}]
  /\ status \in [Keys -> {"open", "done", "reopened"}]
  /\ gap \in SUBSET Controls
  /\ link \in [Keys -> {"none", "open", "resolved"}]
  /\ enabled \in BOOLEAN /\ autoPush \in BOOLEAN /\ due \in BOOLEAN
  /\ doneAlerts \in [Keys -> 0..2]
  /\ announced \in SUBSET Keys
  /\ snapshots \in 0..2
  /\ pc \in [Threads -> {"idle", "sync", "status", "patch", "choose", "gaps", "links",
                        "file", "record", "ready", "stamp", "insert"}]
  /\ cur \in [Threads -> Keys \cup {None}]
  /\ rows \in [Threads -> SUBSET Keys]
  /\ seen \in [Threads -> BOOLEAN]
  /\ newly \in [Threads -> SUBSET Keys]
  /\ todo \in [Threads -> SUBSET Controls]
  /\ already \in [Threads -> SUBSET (Controls \cup {None})]
  /\ pushed \in [Threads -> SUBSET Keys]

AutoFiled(k) == Filed(k) /\ by[k] \in Automation

(***************************************************************************)
(* What the dedupe by control_id is worth whatever fails and however many  *)
(* passes overlap: one thread never files two issues for a control and     *)
(* gets both links recorded, because it reads the links before it files    *)
(* and remembers what it filed (jira_sync.py:112, 123, 150).               *)
(***************************************************************************)
OneLinkPerThread ==
  \A j, k \in Keys :
    /\ Linked(j) /\ AutoFiled(j)
    /\ Linked(k) /\ AutoFiled(k)
    /\ control[j] = control[k]
    /\ by[j] = by[k]
    => j = k

(***************************************************************************)
(* Why it is so.  A thread about to record a link holds an issue of its    *)
(* own that has none yet; sync_back only visits linked issues; and a       *)
(* thread that is filing knows of every link it ever recorded.             *)
(***************************************************************************)
LinkedWereFiled == \A k \in Keys : Linked(k) => Filed(k)

HoldsOwnIssue ==
  \A t \in Threads : pc[t] \in {"record", "insert"} =>
    cur[t] \in Keys /\ Filed(cur[t]) /\ by[cur[t]] = t /\ ~Linked(cur[t])

VisitsLinked ==
  \A t \in Threads :
    /\ \A k \in rows[t] : Linked(k)
    /\ pc[t] = "patch" => cur[t] \in Keys /\ Linked(cur[t])
    /\ pc[t] = "patch" /\ seen[t] => status[cur[t]] # "open"

KnowsItsLinks ==
  \A t \in Automation :
    /\ pc[t] \in {"file", "record"} =>
         \A k \in Keys : Linked(k) /\ by[k] = t => control[k] \in already[t]
    /\ pc[t] = "record" => control[cur[t]] \notin already[t]

(***************************************************************************)
(* So the linked issues the automation files for one control are no more   *)
(* than the threads it runs on.                                            *)
(***************************************************************************)
BoundedDuplicates ==
  \A c \in Controls :
    Cardinality({k \in Keys : AutoFiled(k) /\ Linked(k) /\ control[k] = c})
      <= Cardinality(Automation)

(***************************************************************************)
(* jira_sync.py:6-8: "Dedupe is by control_id against jira_issue_links, so *)
(* re-running never double-files."                                         *)
(***************************************************************************)
NeverDoubleFiles ==
  \A j, k \in Keys :
    AutoFiled(j) /\ AutoFiled(k) /\ control[j] = control[k] => j = k

(***************************************************************************)
(* resolved_at is only stamped on an issue that has reached a done         *)
(* category, although the status was read steps before the stamp and may   *)
(* have changed since.                                                     *)
(***************************************************************************)
ResolvedWasDone ==
  \A k \in Keys : link[k] = "resolved" => Filed(k) /\ status[k] # "open"

(***************************************************************************)
(* "when Jira reaches a done category, stamp resolved_at and alert"        *)
(* (jira_sync.py:9-10): a stamped row has been alerted, or a thread still  *)
(* holds it in newly_done.  So it is whichever passes overlap and whichever *)
(* calls are refused or stamps fail, as rows are noted before they are     *)
(* stamped; what breaks the pass off between the stamps and the alerts     *)
(* loses them for good, because a stamped row is not visited again: an     *)
(* answer about another issue that does not parse (:206), or a crash.      *)
(***************************************************************************)
NoSilentResolve ==
  \A k \in Keys :
    link[k] = "resolved" => doneAlerts[k] > 0 \/ \E t \in Automation : k \in newly[t]

(***************************************************************************)
(* Every link the automation recorded is announced, or about to be         *)
(* (jira_sync.py:154), whichever passes overlap and whichever calls are    *)
(* refused, time out or are not recorded; an answer to a create that does  *)
(* not parse breaks the loop off and loses what was to be announced.       *)
(***************************************************************************)
NoSilentPush ==
  \A k \in Keys :
    AutoFiled(k) /\ Linked(k) => k \in announced \/ \E t \in Automation : k \in pushed[t]

\* One "is Done" alert for an issue, one readiness alert for an interval:
\* sync_back and run_readiness_check alert once while nothing fails and no
\* two passes overlap.
AlertedOnce == snapshots <= 1 /\ \A k \in Keys : doneAlerts[k] <= 1

(***************************************************************************)
(* No step of any handler takes a link row away or reopens a resolved one, *)
(* even when it writes a status it read before another thread's stamp.     *)
(***************************************************************************)
Advances ==
  \A k \in Keys :
    /\ Linked(k) => Linked(k)'
    /\ link[k] = "resolved" => link'[k] = "resolved"

LinksOnlyAdvance == [][Advances]_vars

(***************************************************************************)
(* A material gap that stays gets an issue, once auto-push stays on.       *)
(***************************************************************************)
PersistentGapIsFiled ==
  \A c \in Material :
    <>[](c \in gap /\ enabled /\ autoPush) => <>(c \in LinkedControls)

(***************************************************************************)
(* The completion of a linked issue is alerted, unless it is undone first. *)
(***************************************************************************)
DoneIsNoticed ==
  \A k \in Keys :
    <>[](Linked(k) /\ status[k] = "done" /\ enabled) => <>(doneAlerts[k] > 0)
=============================================================================
