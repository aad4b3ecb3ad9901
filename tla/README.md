# Midnight Core in TLA+

TLA+ models of the stateful parts of Midnight Core, a multi-tenant GRC backend
(`backend/`, Python, FastAPI): the modules translate the code, TLC checks them
on small instances, and TLAPS proves the properties that matter most for every
value of the constants. Paths below are relative to the repository.

## 1. The system

One uvicorn process serves the API; a rolling deploy may run the old and the new
one side by side for a while. State lives in Supabase (Postgres through
PostgREST), without transactions: every handler is a sequence of independent
HTTP calls. What runs concurrently, and how finely, follows from how a function
is declared:

| declared as | runs on | interleaves |
| --- | --- | --- |
| `async def` handler that awaits nothing after its body was read (`stripe_webhook`, `manual_join_beta_tester`, `accept_invite`, `mcp_endpoint`) | the event loop | not with the other handlers of its loop, but with pool threads, and with the loop of the other process |
| `async def` handler that awaits (`create_generate`, `migrate_preview`) | the event loop | at each await |
| `def` handler or dependency (`corpus_answer`, `sync_now`, `push_gap`, `create_key`, `verify_access`) | a pool thread | with everything, at each call |
| scheduler pass (`asyncio.to_thread`) | a worker thread | with everything, at each call |

### Components

| component | state | operations | hard because | correct when |
| --- | --- | --- | --- | --- |
| Jira automation (`integrations/jira_sync.py`, `core/scheduler.py`, `api/integrations.py`) | `jira_integrations`, `jira_issue_links`, the alert feed, Jira itself | `run_tick`: `sync_back`, `auto_push_gaps`, `run_readiness_check`; `sync_now`, `push_gap`, `put_config` | passes overlap, Jira calls fail, time out, or succeed unseen; steps of a pass are lost in a crash | no control is filed twice; a resolved link was done, is announced and stays resolved; open gaps get filed |
| Questionnaire metering (`api/corpus.py`, `api/mcp_gateway.py`, `billing_plans.py`) | `activity_log`, `tenants.plan_type` | two fences, two recorders | minutes pass between counting and charging; counting and charging fail | a month's runs stay within the plan's cap |
| Billing (`api/stripe_router.py`) | `tenants.plan_type`, `processed_stripe_events`, Stripe's events | checkout, webhook | at-least-once, unordered delivery; crash or failure between plan and ledger | the plan is what the subscriptions amount to |
| Membership and seats (`api/main.py`, `core/beta_access.py`, `api/pm.py`) | `profiles`, `tenants`, `invites` | signup, OAuth provisioning, `verify_access`, manual join, invites | seats and blockers are checked before the move | seats are kept, nobody is split from his team, paying tenants get in |
| Gap engine (`core/gap_engine.py`) | none of its own; reads `policies.covered_control_ids` | `compute_gaps`, `run_program_gap_analysis` | two notions of equivalence | no gap is missed; reports agree with themselves |
| API keys (`integrations/api_keys.py`, `api/api_keys_router.py`) | `api_keys` | mint, list, revoke, verify | count and insert on pool threads, counting on a page | at most `MAX_ACTIVE_KEYS` active |
| Document pipeline (`api/routes.py`) | `policies`, `policy_sections`, `documents`, `activity_log` | preview, generate, migrate, download | fence long before the charge; drafts saved by delete and insert | documents stay within the plan; a draft's sections are one save's |
| Drafts (`api/routes.py`) | the draft being written, slot by slot; the fields the editor changed | metadata, sections, retries, save, merge, render | every slot is kept twice; a slot can fail; every call can break off | what was written is in the store but during a save; a document has every slot as the user left it |
| Migration (`api/routes.py`) | none between two requests | source mapping, template reading, overlay, render | a line belongs to a heading many blocks before it | what is mapped is what the source says, and is rendered |
| Evidence corpus (`core/corpus.py`, `api/corpus.py`) | `corpus_runs`, `corpus_answers` | split, load, embed, answer, validate, store; index | model output of any shape; a run and its answers are two calls | no coverage is claimed without a citation; every question has its answer |
| Bird Eye (`bird_eye/`) | `policies`, `policy_sections`, `policy_runs`, `policy_gaps` | ingest, review with five detectors, record | ingesting again deletes first; runs die | a row says what became of its run; a complete run missed nothing |
| Work requests (`api/pm.py`) | `requests`, mails | file, assign, move, complete, delete | read, decide, write, mail | requests move as they may, and whom it concerns is told |
| First sign-in and onboarding (`api/main.py`, `api/routes.py`, `storage/file_store.py`) | `tenants`, `profiles`, `onboarding_sessions`, `enabled_modules` | sign in, start, update, activate | founding and replacing are several calls; two hosts | nobody loses a workspace or an answer; modules are those activated |
| Smart scan (`core/smart_scan_engine.py`, `api/smart_scan.py`) | none | read, cut, score, label | headings that come again, tables after text, thresholds | no text is lost; a label is earned |
| Rate limiter (`core/ratelimit.py`) | one queue of times per key | `allow` | the clock is read before the lock | few more than `max_hits` in a window; nobody is locked out |
| Everything else: agents, model providers, layout, renderers, dashboard, assessments, front end | mostly none | prompting, parsing, layout, views | - | - |

### How they interact

* `verify_access` (membership) guards every router but the Stripe webhook and
  `/mcp`. It reads the profile, the tenant's plan and the number of profiles on
  a pool thread; the plan it read travels with the request and is what the
  fences of metering and of manual joins go by, however old it is by then.
* Billing writes the plan all of them read. The checkout is one of the routers
  `verify_access` guards.
* Evidence that is ingested or generated writes `covered_control_ids`; the gap
  engine derives gaps from it; the Jira automation files and re-reads them. A
  Jira issue that is done does not close a gap, new evidence does.
* Metering counts what the activity log says, and the pipeline, the corpus and
  the MCP gateway write that log when their work is done. MCP also files work
  requests, which have no creator.
* A draft is admitted by the fence of the pipeline, written slot by slot, edited
  in the browser, and comes back as the data of a document; a migrated source
  takes the same way, with what was mapped put over what the model wrote.
* Bird Eye and the corpus read one store of documents. A review reads it again at
  each detector, while ingests go on.
* The onboarding decides which modules are enabled. The dashboard goes by the list
  in the session; only its own replacement reads `enabled_modules`.

## 2. Modules

| module | stands for | main variables |
| --- | --- | --- |
| `JiraAutomation` | one tenant's automation: scheduler threads, "Sync now" and "push-gap" requests, Jira and its users, settings, evidence, calendar, crashes | Jira: `control`, `by`, `status`; database: `gap`, `link`, `enabled`, `autoPush`, `due`; feed: `doneAlerts`, `announced`, `snapshots`; locals: `pc`, `cur`, `rows`, `seen`, `newly`, `todo`, `already`, `pushed` |
| `Quota` | what a metered plan promises: admit against a finite allowance, charge later | `ceiling`, `used`, `pending` |
| `RunMetering` | both fences of the questionnaire runs of one tenant; implements `Quota` | `plan`, `events`, `documents`, `pc`, `snap` |
| `StripeBilling` | one tenant's subscriptions, Stripe's deliveries, the webhook on one or two loops | `stripe`, `owed`; `plan`, `ledger`; `webhook`, `holds` |
| `TenantAccess` | several users and tenants: who is where, with which role, and who is let in | `tenantOf`, `role`, `founded`, `plan`, `stocked`, `invites`, `sessions`; `pc`, `req` |
| `GapEngine` | the library of a tenant and, as operators of it, the two reports | `library`, `typeOf`, `covered`, `frameworks` |
| `ApiKeys` | a tenant's keys and the threads that mint them | `keys`, `pc` |
| `McpGateway` | POST /mcp as a whole: composes `RunMetering` (extended) and `ApiKeys` (instantiated); a key opens a request, whose body may be a batch of runs | `keys`, `minting`, `awaiting`, `caller` |
| `DocumentPipeline` | one tenant's drafts and documents: the fence, the save of a draft on its worker thread, the coverage, the store, the charge | `plan`, `past`, `monthly`, `documents`; `drafts`, `sections`, `covered`; `pc`, `job` |
| `BirdEyeDetectors` | the five detectors as operators of a library of documents and chunks | `policies`, `chunks` |
| `BirdEye` | extends it: the ingests and reviews of a tenant on two processes, call by call | `runs`, `findings`; `at`, `task`; history `kept`, `fresh`, `lost` |
| `DocumentText` | what ingestion makes of a file: lines, headings, sections and their parts | `file` |
| `Questionnaires` | one questionnaire from paste to export, with the validation of verdicts | `sheet`, `loaded`, `vectors`, `answers`, `step`, `listed`, `exported` |
| `WorkRequests` | a tenant's requests, on two loops, with the mails | `requests`, `doing`, `toldDone`, `toldWork`; history `untold`, `disputed` |
| `RateLimiter` | the sliding window of one key | `clock`, `hits`, `now`; history `passed` |
| `SourceMapping` | the migration of a document: mapping, reconstruction, overlay, rendering | `source`, `stage`, `policyData`, `rendered` |
| `TemplateMapping` | extends it: the same file read as the template of a migration, as operators | - |
| `DraftGeneration` | how a policy is written slot by slot, saved (sections deleted, then inserted), edited and rendered | `phase`, `attempt`, `roomy`, `generated`, `missed`, `draft`, `edited`, `written`, `mapped` |
| `SmartScan` | the reading of a scanned file, and the scoring of what the model says of it | `scanned`, `scanning`, `replied` |
| `Listings` | lines divided into parts, in order and each once; extended by `DocumentText` and `Questionnaires` | - |
| `Onboarding` | first sign-ins, the onboarding session, the enabled modules, on two hosts | `workspaces`, `homeOf`, `sessions`, `enabled`, `serving`, `failures`; history `contested`, `said`, `activated` |
| `MC_*` | instances for TLC: constants, symmetry; `MC_Workspace` and `MC_FollowUp` put parts that share no variable into one instance | |
| `JiraAutomation_proofs`, `DocumentPipeline_proofs`, `TenantAccess_proofs` | theorems about the module of that name | |
| `McpGateway_proofs` | theorems about `RunMetering`, about `ApiKeys`, and about the gateway that has both | |
| `Accounts_proofs` | theorems about `StripeBilling` and `Onboarding` | |
| `Workspace_proofs` | theorems about parts of a workspace that share no variable: `GapEngine`, `BirdEye`, `Questionnaires`, `WorkRequests`, `RateLimiter`, `DraftGeneration` | |
| `Readers_proofs` | theorems about the readers of text, and what is done with what they read: `SmartScan`, `Questionnaires`, `DocumentText`, `TemplateMapping` | |

How the models read:

* **One step per call.** A handler on a pool thread takes one step for each call
  that reads or writes shared state; `pc` says between which two calls it is,
  the other locals what it remembers. A handler on a loop is as many steps as
  it makes writes that something else can see between, and `HasLoop` in
  `TenantAccess` keeps the handlers of one loop apart.
* **Failures** are alternatives of the step they strike, allowed by the constant
  `Faults` (`BillingFaults` and the like where modules meet in one instance), so that an instance says what it can meet. A failure that the code
  swallows lets the handler go on; one that it reports ends it.
* **What is abstracted.** Keys, controls, plans, users are model values; the
  text of issues, alerts and reports is not modelled; time is an action (a month
  begins, an interval elapses). A paragraph is a record of what its readers tell
  apart: blank, heading, field, row. What a model answers is any member of a set
  that has each shape the validation distinguishes, malformed ones included. The
  limiter is a module of its own, and left out of the handlers it delays. Two
  reads in a row that nothing is done between are one step.
  The two invited roles ("sme" and "analyst") are one. Handled alike are signup
  and OAuth provisioning.
* **History.** `by`, `ceiling` (both modules), `inForce`, `paid`, `disturbed`, the
  `due` field of an event and what the table calls history are in no table of
  the database; they record what a property compares with.
* **Mutants.** An operator such as `FenceAtMost` right above `Fence` is a slip
  the code could have had; no specification uses it. Each property has one that
  breaks it.

## 3. What TLC checks

All runs are instances of the specifications as they stand; bounds are named
constants, or the size of the sets.

| run | instance | shows |
| --- | --- | --- |
| `FollowUp` | a scheduler pass and "Sync now", 1 control, 2 keys, refused calls and link rows that are not inserted; beside it requests, the limiter and the webhook, below (1.3 M states) | `LinksOnlyAdvance`: a stale status never reopens or loses a link; `NoSilentResolve`, `NoSilentPush`: what was resolved or filed is announced, or a thread is about to |
| `JiraFaults` | a scheduler and a "push-gap" user, every fault and crashes (789 k) | `OneLinkPerThread` and `ResolvedWasDone` survive them |
| `JiraSerial` | a fair scheduler, 2 controls, refused calls (56 k) | without overlap `AlertedOnce`: one alert for an issue and one snapshot for an interval; with a scheduler that ticks on, `PersistentGapIsFiled`, `DoneIsNoticed` |
| `JiraRerun` | as `FollowUp`, without faults | **violates** `NeverDoubleFiles` |
| `GatewayOverlap` | 2 pool threads and a loop, caps 1 and 3, all faults but "count"; 2 minting threads, limit 1, page 2, 3 keys (1.5 M) | `FiniteMonthlyCap`: overrun by less than the workers; `ImplementsQuota`; `ListedKeysCapped`; `RevokedKeysStayOut`: a revoked key opens no request |
| `DocumentsOverlap` | 3 requests on 2 loops, a draft, 2 contents, a free, a metered and an unlimited plan, every fault (1.8 M) | `MonthlyDocumentsCapped`: overrun by less than the requests; `ChargedIsStored`; `BoundedMixing`; `CoverageIsBacked` |
| `StripeInTurn` | 2 loops, 2 subscriptions of different tiers, 3 events; duplicates, failing activations, crashes; fair (16 k) | `PlanFollowsStripe`, `EveryEventIsHandled` |
| `StripeLateRetry` | a loop, failing activations, reordering | **violates** `CancelledIsFree` |
| `SeatsOneLoop` | 3 users, 3 tenants, 2 requests on one loop, plans of 1 and 2 seats, crashes (1.3 M) | `TypeOK`, `JoinsKeepSeats`, `JoinsSplitNoTeam` |
| `SeatsLockout` | 2 users, 2 tenants, one request | **violates** `LockedOutCanUpgrade` |
| `Workspace` | the other parts below, one after another (612 k) | see the next table |
| `MigrateVerbatim` | sources of up to 4 blocks, 4 replies | **violates** `MappedIsRendered` |

`Workspace` explores eight parts that have no variable in common, and `FollowUp`
(`MC_FollowUp`) three beside the Jira automation. A part is chosen at the start and
the others stay in their first state: as nothing that one does is seen by another,
their combined states would add nothing. The parts stop at their bounds, so
`Workspace` does not check for deadlock, and `FollowUp` lets requests,
limiter and Stripe rest there; none of them waits for anything.

| part | instance | shows |
| --- | --- | --- |
| gaps (`GapEngine`) | 2 documents, 4 controls in 3 frameworks, one group | `NoMissedGap`, `OnlyMembersAreSpurious`, `CoverageGoesByGroup`; `ReportsAgree`: a framework a document covers to 100% has no gap, and the corpus index shows what the program report shows |
| eye (`BirdEye`) | 2 processes, 2 texts of which one has a number, 3 ids, 1 run, every failure but that of the embeddings, 29 February included | `ReingestKeepsDocument`: who uploads again has the new document in the end; `RunRowsAreTrue`: the row of a run says what became of it; `CompleteRunMissesNothing`: a run that completed on a library at rest has every near-duplicate and every disagreement |
| text (`DocumentText`) | files of up to 4 paragraphs | `TextIsKept`: each line is in the section of its heading, once |
| answers (`Questionnaires`) | 3 lines, 2 questions, 2 sections, verdicts of every shape, every failure | `QuestionnaireIsAnswered`, `CoverageIsCited` |
| migration (`TemplateMapping`) | sources of up to 4 blocks of 9 kinds | `MigrationIsMapped`: sections and fields are what the source says, and as a template it asks for those sections |
| draft (`DraftGeneration`) | 3 slots, every kind of reply and failure | `DraftKeepsUp`: what was skipped is an error, and what was written is in the store but where a save is under way or broke off; `DocumentIsComplete`: a document has every slot, as it was edited last |
| scan (`SmartScan`) | up to 5 blocks, every treatment of the required sections | `ScanIsSound`: no text is lost, and a label is earned |
| onboarding (`Onboarding`) | a newcomer, 2 hosts, 3 lists of modules, a failure | `OnboardingIsKept`: everybody gets a workspace, no answer is lost, and the enabled modules are those of an activation |
| work (`WorkRequests`), in `FollowUp` | 1 request, 2 people, 2 servers, every failure | `NobodyIsForgotten`: who is to be told is, or a handler is about to, or a mail was lost; `StatusFollowsTransitions` |
| limiter (`RateLimiter`), in `FollowUp` | 2 threads, 2 hits in a window of 2, 6 times | `WindowIsKept` |
| webhook (`StripeBilling`), in `FollowUp` | 2 loops, 2 subscriptions of one tier, 3 events in any order, every fault, the ledger's included | `SameTierIsHarmless`: a tenant that paid for one tier is on it from the first answered or recorded payment on |

Some invariants that hold for every value of the constants by the theorems below
(`TypeOK` but for the seats, `BoundedDuplicates`, `NeverDoubleFiles` without
overlap, `FreeTotalCapped`, `EvidenceOpensNoGap`) are in no run.

### Why the bounds are enough

* *Jira.* A double filing takes two threads, one control and two keys; so does a
  stale status, and a link row that is not inserted lets one thread file both.
  Alert and snapshot counters stop at 2, because the properties ask for at most
  one.
* *Metering.* Caps 1 and 3 with three workers have a cap below and one at the
  number of workers, so that overrun and upgrade both happen; events need no
  bound, since they stop at the cap plus the workers.
* *Stripe.* `MaxEvents` 3 fits checkout, cancellation and another checkout, or in
  `FollowUp` two checkouts and a change; each anomaly found takes at most three.
* *Seats.* A join needs an owner, a target and a competitor: three users, each
  of whom may own a tenant. `MaxInvites` and `Buyers` bound how many invites are
  open and which tenant buys; the free tenants play the other parts.
* *Keys.* A page larger than the limit and smaller than the keys ever minted. One
  loop is enough for `RevokedKeysStayOut`, which is about each loop by itself.
* *Documents.* Both allowances are 1, so that two documents are already too many,
  and three requests can admit more than two loops run at a time. Every property
  of sections and coverage is about one draft; two contents tell a stale coverage
  from a fresh one.
* *Bird Eye.* Ingests of one number overlap on two processes, and a third id lets
  both replace what was there; the other text is there to disagree with. A run
  finds what it finds by itself; a second would only read the same library. A
  failure of the embeddings stores chunks without vectors, which no detector
  compares; it doubles the states and is left to the theorems.
* *Text, migration, scan.* Every property relates a line to the headings before it.
  Three blocks are enough for a heading that comes again; the fourth and fifth
  let something stand between and after.
* *Answers.* `MaxQuestions` is one less than `MaxLines`, so that lines are cut off.
* *Work requests.* What goes wrong takes two handlers of one request and a person
  it is taken from.
* *Limiter.* The clock runs for two windows and a half, so that hits queued out
  of order are purged in order again.
* *Drafts.* Three slots are a first, a last and one between them to be missed.
* *Onboarding.* Two sign-ins of a newcomer overlap; `MaxFailures` bounds how many
  tenants there can be. A tenant two handlers were busy with is updated no
  further, because nothing is claimed of it.

### Deadlock and fairness

The `Seats*` instances, `StripeLateRetry`, `Workspace` and `MigrateVerbatim` do not
check for deadlock, because there the system really may stop: a tenant over its seats with nobody else
around has no next step, which is what `SeatsLockout` is about; `Workspace` and
`MigrateVerbatim` end at their bounds; and Stripe,
having emitted its last event of the bounded history and seen them all answered,
rests where nothing is duplicated and nothing crashes.

Fairness is assumed where the code schedules:
`JiraAutomation!FairSpec`: the scheduler's `_loop` runs a pass again and again
(weak fairness of `StartPass` and of a pass's steps) and a Jira call tried in
every pass succeeds at last (strong fairness of its success, because between two
tries it is not enabled). `FairBillingSpec`: Stripe redelivers what it has
no 200 for (strong fairness of `Deliver`), loops go on, the database does not
fail the same event for ever, and processes are not restarted for ever.
`TenantAccess!UpgradingSpec` assumes the most helpful members, who start a
checkout whenever they can and pay for the largest plan; that the property still
fails is the point of the run.

### Disagreements found

Each of these runs is meant to fail: it checks what the repository says.

1. *Double filing* (`JiraRerun`): "re-running never double-files"
   (`jira_sync.py:7-8`) fails when a pass overlaps a click: both read the links
   (`:112`) before either has recorded (`:148`).
2. *A late retry revives a cancelled plan* (`StripeLateRetry`): the activation that
   failed comes again after the cancellation, and nothing takes the tier away
   (`stripe_router.py:8-9`, `:174`).
3. *Locked out of the upgrade* (`SeatsLockout`): the 403 says "Upgrade to add more
   seats." (`main.py:431`) and guards the checkout too (`main.py:1140`).
4. *Mapped, and not rendered* (`MigrateVerbatim`): "copy content verbatim"
   (`routes.py:1848-1849`), but what was mapped is put over the fields of the policy
   (`:1011`), whose sections were made from the model's answer before that;
   `_build_docx` renders the sections whenever there are any. For the same reason
   what the editor changes in a migrated policy is not in its document.
Seen on the way, and described by what the passing runs have to leave out:

* "When Jira reaches a done category, stamp resolved_at and alert"
  (`jira_sync.py:9-10`) is two steps with all the other rows between them, and
  `sync_back` catches `JiraError` only (`:206`), while an answer is parsed outside
  any `except` (`jira_client.py:162`): one that does not parse leaves `sync_back`
  with `newly_done`, and a row that is stamped is not visited again. A crash
  between the stamps and the alerts does the same, as does a feed that fails.
  `JiraFaults` explores all three; `FollowUp`, `JiraSerial` and the theorem
  `NoSilentResolveAlways` exclude them.
* While counting the events fails, `answer_questions` lets every run through
  (`mcp_gateway.py:225` refuses `remaining == 0`, unknown is `None`); `corpus.py:65`
  answers 503 instead. `GatewayOverlap` and the theorem exclude the fault "count".
* The ledger is not as optional as `stripe_router.py:9-11` has it: without it, an
  old event that is delivered again after a newer one brings the old tier back.
  `PlanFollowsStripe` needs the ledger, `SameTierIsHarmless` is what is left, and
  `FollowUp` checks it where events are late, reordered and unrecorded.
* `docs/STRATEGY.md:626` calls SME seats free; `_load_user_membership` counts every
  profile, and `accept_invite` no seat at all. `JoinsKeepSeats` is about owners.
* The program analysis can call a framework 100% covered and list a gap in it,
  because `gap_engine.py:308` finds the equivalents of a group's key only.
  `OnlyMembersAreSpurious` says that this is the only way.
* `create_key` counts active keys on a page of 50 that revoked keys share; active
  ones pushed off it are not counted. `ListedKeysCapped` is about the page.
* "free (1 watermarked generation)" (`billing_plans.py:11`): generations that overlap
  while their sections are embedded all pass the fence. `FreeTotalCapped` says how
  many there can be.
* A generation that fails after `file_store.py:319` leaves a draft without sections
  whose `covered_control_ids` still close gaps, although `routes.py:2013-2015` calls
  false positives unsafe; overlapping generations can leave the coverage of one
  with the sections of another. `CoverageIsBacked` says that nothing else can.
* What the editor changes over several lines it sends as a list, and
  `_merge_sections_from_top_level` takes strings only: the change is lost.
  `DocumentIsComplete` is about edits that are one text.
* While a draft is written, a failing store or a policy that does not fit its schema
  is no `HTTPException` (`routes.py:2450`), so that the request fails instead of
  the slot. Each save deletes all sections before it inserts them
  (`file_store.py:319-336`): one that fails in between, or whose process stops,
  leaves a draft with none of what had been written. `DraftKeepsUp` says that
  nothing else does.
* `now.replace(year=now.year - 1)` (`detectors.py:416`) raises on 29 February, and the
  review of dates finds nothing that day. Of the lockout, a finding may name two
  documents that agree. Dismissed findings come back with the next run. A run
  whose documents cannot be read is "running" for ever (`orchestrator.py:54-60`).
* A request filed through MCP has no creator, so that nobody hears of its
  completion; one that was deleted in the meantime still mails, and completing
  a request again mails again.
* The limiter lets more than `max_hits` pass when times are queued late, one for each
  thread that read the clock before.
* A workspace is founded in three calls: sign-ins that overlap or break off leave
  tenants without anybody. An activation that names a module twice deletes what
  was enabled and is then refused. `create_org`'s way to a new tenant
  (`routes.py:3417-3438`) is out of reach, since `verify_access` answers 403 first.
* A section the smart scan's model neither maps nor lists as missing counts as
  missing, but nothing is said of it. Text beyond 12000 characters is not read.
* A table of a template with a single header field gives nothing else; in a text
  template "Purpose: ..." is a section of its own, named by the whole line.

## 4. What is proved

`tlapm` checks these for every value of the constants that satisfies the named
assumptions of the modules. Each part has its own inductive invariant, which TLC
checked on the run of that part before it was proved; what it adds to the property is what the
handlers rely on between two of their calls.

* **`JiraAutomation_proofs`.** `TypeCorrect`, `OneLinkPerThreadAlways`,
  `LinksOnlyAdvanceAlways`, `ResolvedWasDoneAlways` for any faults,
  `BoundedDuplicatesAlways` for finitely many automation threads,
  `NeverDoubleFilesAlone` for a single one and no faults that lose a link.
  `OneLinkPerThread` is not inductive: nothing in it says why a thread would not
  file again. The invariant adds that linked issues were filed, that a thread
  about to record holds an unlinked issue of its own (`HoldsOwnIssue`), that
  `sync_back` visits linked rows only (`VisitsLinked`), and that a thread that is
  filing has in `already` every control it ever linked (`KnowsItsLinks`), which
  `PushLinks` establishes and `RecordLink` keeps. `BoundedDuplicates` then is
  the pigeonhole principle: `by` maps the duplicates of a control injectively
  into the threads. For `NeverDoubleFilesAlone` every issue is linked or held by
  the thread that filed it (`EveryIssueHeld`). The alerts: `NoSilentResolveAlways`
  for any number of overlapping passes, calls that are refused and stamps that
  fail, because an issue is noted before its row is stamped (`NotedFirst`). It
  assumes away the three things that lose an alert: a feed that fails, an answer
  that does not parse, and a crash. `NoSilentPushAlways`, on the same
  assumptions; `AlertedOnceAlways` for a single thread, unless it crashes or the
  database fails, because what it alerted it finds resolved (`DoneOnce`) and the
  interval running (`SnapshotOnce`).
* **`Quota`.** `QuotaBounded`, from `QuotaAssumption` (finite allowances of at least
  one, at least one slot), which an implementation has to provide: `used + pending <= ceiling + Slots - 1` is inductive.
* **`McpGateway_proofs`.** `RunsImplementQuota` (unless counting fails): each step
  is a step of `Quota` or a stutter, with the workers past the fence as `pending`.
  It needs that the ceiling covers the plan every worker at the fence goes by,
  also over a month's end. `FiniteMonthlyCapAlways` is `QuotaBounded` under that
  refinement. Every step of the gateway is a step or a stutter of the metering
  and of the keys, so `GatewayRunsCapped` and `GatewayKeysCapped` carry their
  bounds over; `GatewayTypeCorrect`; `RevokedKeysStayOutAlways`. Of the keys by
  themselves `ListedKeysCappedAlways`, for any limit and page: a thread mints one
  key for each time it counted fewer than the limit.
* **`DocumentPipeline_proofs`.** `TypeCorrect`; `MonthlyDocumentsCappedAlways` and
  `FreeTotalCappedAlways`, with the invariant that the plan is among those of the
  month; `ChargedIsStoredAlways`; `BoundedMixingAlways` and `CoverageIsBackedAlways`,
  whose invariant (`Backing`) says that on an undisturbed draft at most one save is
  at work, and that it finds the sections it inserted. Under every fault.
* **`TenantAccess_proofs`.** `TypeCorrect` and `JoinsKeepSeatsAlways`, for any number of
  loops: the seats of a tenant are exceeded by less than the loops. `AccessInv`
  says that a loop runs one handler at a time, and that what a handler read of
  the plan was allowed once, however old it is. `JoinsSplitNoTeamOnOneLoop`: where
  all handlers are on one loop, who is about to be moved is still alone in his
  tenant (`MoversAreAlone`), so that no step of a join leaves a colleague behind.
* **`Accounts_proofs`.** Of `StripeBilling`: `TypeCorrect`; `PlanFollowsStripeAlways`
  unless events are reordered, time out or the ledger fails. The inductive
  invariant says that the unanswered events are the last ones, that a loop works
  on the first of them or on one in the ledger, and that the plan is due after
  the last answered event or, once it was activated, after the one in hand.
  `SameTierIsHarmlessAlways` under every fault and in any order of delivery: an
  activation that is answered, recorded, or about to be, is in force (`InForce`).
  Of `Onboarding`: `OnboardingIsKeptAlways` on any number of hosts, whatever breaks
  off. `OnboardInv` ties the rows of a tenant to what its only handler was told
  (one session, which holds what was said; the modules of the activation, or
  none while they are replaced), and counts: a deserted workspace uses up a failure
  or one of the sign-ins that were still to be made, of which there is one for
  each newcomer and host.
* **`Workspace_proofs`.**
  - *Gap engine*: `TypeCorrect`; `NoMissedGapAlways`, `OnlyMembersAreSpuriousAlways` and
    `CoverageGoesByGroupAlways` for every registry and map; `EvidenceOpensNoGapAlways`;
    `ReportsAgreeAlways` for a registry of fewer than 200 controls: there are 186,
    and 199 of 200 would already be rounded to 100 %.
  - *Bird Eye*: `ReingestKeepsDocumentAlways`, `RunRowsAreTrueAlways` and
    `CompleteRunMissesNothingAlways`, for any library, on any number of processes,
    whatever fails. `IngestInv` says what each handler knows of the rows it is about
    to delete or fill, and that each row of a number was inserted by a process
    of its own (`RowsAreOwned`): who inserted last has not purged his own. `RunsInv`
    says that a run has one handler, which counts at least what it recorded.
    `FreshInv` says that, while the library stays as it was, the detectors that have
    run are reported on; that they find every near-duplicate and every
    disagreement, in whatever order the rows come, are lemmas about the
    operators (`DuplicatesReportTwins`, `ConflictsReportDisagreements`), as is that
    they find finitely many things, so that there is a count to compare.
  - *Questionnaires*: `CoverageIsCitedAlways`, for every answer a model can give: each
    answer is cited among the sections that were loaded before it (`CitedInv`).
  - *Work requests*: `StatusFollowsTransitionsAlways` and `NobodyIsForgottenAlways`, for
    any number of loops. `WorkInv` says that what a handler read of a row still
    holds when it writes (`StillHolds`), unless two handlers had the row at a time.
  - *Rate limiter*: `WindowIsKeptAlways`, for any window, limit and number of threads.
    `LimiterInv` says of every window that its hits are all in the queue or, once
    the clock has passed it, that they and the threads still to come are no more
    than may exceed the limit. That is not obvious, because hits are queued out
    of order and purged from the head only (`PurgedHead`).
  - *Drafts*: `DraftKeepsUpAlways` and `DocumentIsCompleteAlways`, for any sequence of
    slots. `DraftInv` says that the slots asked for are the first ones, each either
    generated or missed, in their order, and relates the draft at each label of the handler
    to what was generated, or is in the document: it is behind by one save before
    that begins, empty between its delete and its insert, and any of these where
    a save broke off.
* **`Readers_proofs`.** The readers go through a text block by block and keep what
  they have read so far; they are folds, in the code's order. What a fold gives is
  the value of a function of the length of the prefix read (`FoldExists`, `PrefixesFold`),
  and each reader has a loop invariant over these prefixes, shown by one lemma for
  each kind of block. The texts have any length, and any members of the sets of blocks.
  - *Scan*: `ScanIsSoundAlways`. The sections cut, with the one being read, list all
    the text read so far (`BlockIsAdded`), also where a heading comes again; the
    points of a reply add up to what its weights are (`PointsAddUp`), so that a
    label is given by the thresholds to what earned it (`LabelsAreEarned`).
  - *Questionnaires*: `QuestionnaireIsAnsweredAlways`. Of each prefix of the lines
    the questions list the lines that were neither blank nor left out
    (`LineIsBegun`, `LineGoesOn`, `NothingIsLost`). The inductive `AnsweredInv` says that
    the answers are to the first questions, one for each, and that a run that is
    stored counts them as they are.
  - *Text*: `TextIsKeptAlways`. Of each prefix the sections list its lines, each below
    the last heading before it (`SectionsGrow`); the parts of a section that is cut
    list its stretches (`PartsAreWhole`).
  - *Migration*: `MigrationIsMappedAlways`. The lines of a source, rows of its tables
    included, are ordered by their places. `BlocksRead` says of a prefix which
    section was opened last, that each field has the first line naming it, and that
    each section has the lines that stand under it, in order. What is made of these in the end, a body
    without its blank lines and revisions without their column titles, keeps the
    lines and their order (`BodyIsJoined`, `RevisionsAreKept`), hence `SourceHolds`.
    As a template in any of the three formats the document asks for sections in the
    order in which they begin (`OrderIsThatOfLines`), and as a .docx for all that it
    would give (`TemplateHoldsAll`).

Assumptions on the constants: the sets that are counted are finite
(`FinitenessAssumption`, `RequestsAssumption`, `OnboardingAssumption`,
`LimiterAssumption`), there is a loop and a host, a plan has a seat, a policy has
slots that differ, a citation is a record in a list, a blank line names nothing,
a paragraph that is a section's heading names no field besides, a table has a row,
and the model values that stand for "none" are not among the values they are not.

Only model-checked:

* Liveness (`PersistentGapIsFiled`, `DoneIsNoticed`, `EveryEventIsHandled`): the prover
  handles neither fairness nor `ENABLED`.

Every other property of a passing run is stated by a theorem.

The induction theorems of the library take an operator as their parameter, which the
installed provers cannot instantiate. Where a proof needs an induction it goes by
the least counterexample in a set of numbers (`SetsHaveLeast`, `UpTo`). For the same
reason a fold is unfolded once for each step that is folded (`LinesFolded`,
`SourceFolded` and the like): the recursion that the community modules choose a
solution of has one (`FoldExists`), and on the prefixes it goes step by step
(`PrefixesFold`). No module uses recursive operators.

## 5. What is not modelled

* Token validation, cookies, sessions of users, mail: no state of their own, or
  Supabase's.
* The retries inside the HTTP clients.
* Prompting, layout, rendering, repairing the JSON a model wrote, the front end:
  data without a protocol.
* The dashboard, assessments, admin and agent operations: views and small forms over
  the tables the other modules write.
* Embeddings and metadata by a language model: the likeness of sections and the
  metadata of a text are parameters.
* In Bird Eye: dismissing a finding, mapping controls while ingesting, reading. In
  the pipeline: the upload allowance and the analysis of an upload. Of a template,
  what a model reads off a picture.
* Tenants side by side: apart from the limiter, the profiles of `TenantAccess` and
  the sign-ins of `Onboarding`, nothing is shared between them.
* `issue_status` refreshes `last_status`, a column nothing reads for a decision.
* Counting runs that fails (`mcp_gateway.py:181`) is a fault of `RunMetering` that no run
  allows: the cap does not hold then, and no line claims that it does.

## 6. Plan

In order of weight.

1. `DocumentPipeline` composed with `GapEngine`: `CoverageIsBacked` as what a report may
   rely on; `BirdEye` with it, so that the gaps `JiraAutomation` files are those of
   a library being rewritten.
2. `StripeBilling` composed with `TenantAccess`: the plan as the one the seats go by.
3. The upload allowance (`migrate_preview`, `analyze`), counted for ever, and the
   repair of truncated JSON (`core/json_parser.py`).
