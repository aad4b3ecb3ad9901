------------------------ MODULE JiraAutomation_proofs ------------------------
(***************************************************************************)
(* Proofs about JiraAutomation, for every set of controls, keys and        *)
(* threads and for every combination of failures.                          *)
(***************************************************************************)
EXTENDS JiraAutomation, FiniteSetTheorems, TLAPS

(***************************************************************************)
(* Type correctness, one lemma per stage of a pass.                        *)
(***************************************************************************)
LEMMA InitType == Init => TypeOK
  BY DEF Init, TypeOK

LEMMA SyncType ==
  ASSUME TypeOK, NEW t \in Automation, SyncStep(t)
  PROVE  TypeOK'
<1> USE DEF TypeOK, Goto, jira, settings, feed, syncVars, pushVars
<1>1. t \in Threads
  BY DEF Threads
<1>2. CASE SyncRead(t)
  <2>1. rows' \in [Threads -> SUBSET Keys]
    BY <1>1, <1>2 DEF SyncRead, OpenRows
  <2>2. pc' = [pc EXCEPT ![t] = AfterSync(t)] \/ pc' = [pc EXCEPT ![t] = "status"]
          \/ pc' = [pc EXCEPT ![t] = AfterFailedSync(t)]
    BY <1>2 DEF SyncRead
  <2>3. pc' \in [Threads -> {"idle", "sync", "status", "patch", "choose", "gaps", "links",
                              "file", "record", "ready", "stamp", "insert"}]
    BY <1>1, <2>2 DEF AfterSync, AfterFailedSync
  <2>4. QED
    BY <1>2, <2>1, <2>3 DEF SyncRead
<1>3. ASSUME NEW k \in Keys, SyncStatus(t, k) PROVE TypeOK'
  <2>1. rows' \in [Threads -> SUBSET Keys]
    BY <1>1, <1>3 DEF SyncStatus
  <2>2. /\ cur' \in [Threads -> Keys \cup {None}]
        /\ pc' \in [Threads -> {"idle", "sync", "status", "patch", "choose", "gaps", "links",
                               "file", "record", "ready", "stamp", "insert"}]
    BY <1>1, <1>3 DEF SyncStatus, AfterFailedSync
  <2>3. seen' \in [Threads -> BOOLEAN]
    BY <1>1, <1>3 DEF SyncStatus
  <2>4. newly' \in [Threads -> SUBSET Keys]
    BY <1>1, <1>3 DEF SyncStatus, NoteDone
  <2>5. UNCHANGED <<jira, gap, link, settings, due, feed, pushVars>>
    BY <1>3 DEF SyncStatus
  <2>6. QED
    BY <2>1, <2>2, <2>3, <2>4, <2>5
<1>4. ASSUME NEW k \in Keys, SyncAlert(t, k) PROVE TypeOK'
  BY <1>1, <1>4 DEF SyncAlert, Saturate
<1>5. CASE SyncPatch(t)
  BY <1>1, <1>5 DEF SyncPatch, Patched
<1>6. CASE SyncEnd(t)
  BY <1>1, <1>6 DEF SyncEnd, AfterSync
<1>7. QED
  BY <1>2, <1>3, <1>4, <1>5, <1>6 DEF SyncStep

LEMMA CreateType ==
  ASSUME TypeOK, NEW t \in Threads, NEW c \in Controls, NEW k \in Keys, Create(t, c, k)
  PROVE  /\ control' \in [Keys -> Controls \cup {None}]
         /\ by' \in [Keys -> Threads \cup {None}]
         /\ status' \in [Keys -> {"open", "done", "reopened"}]
  BY DEF TypeOK, Create

LEMMA PushType ==
  ASSUME TypeOK, HoldsOwnIssue, NEW t \in Automation, PushStep(t)
  PROVE  TypeOK'
<1> USE DEF TypeOK, Goto, jira, settings, feed, syncVars, pushVars
<1>1. t \in Threads /\ AfterPush(t) \in {"ready", "idle"}
  BY DEF Threads, AfterPush
<1>2. CASE PushGaps(t)
  <2>1. todo' \in [Threads -> SUBSET Controls]
    BY <1>1, <1>2 DEF PushGaps, MaterialGaps
  <2>2. pc' = [pc EXCEPT ![t] = AfterPush(t)] \/ pc' = [pc EXCEPT ![t] = "links"]
    BY <1>2 DEF PushGaps
  <2>3. QED
    BY <1>1, <1>2, <2>1, <2>2 DEF PushGaps
<1>3. CASE PushLinks(t)
  <2>1. LinkedControls \subseteq Controls \cup {None}
    BY DEF LinkedControls
  <2>2. QED
    BY <1>1, <1>3, <2>1 DEF PushLinks
<1>4. ASSUME NEW c \in Controls, NEW k \in Keys, FileGap(t, c, k) PROVE TypeOK'
  <2>1. /\ control' \in [Keys -> Controls \cup {None}]
        /\ by' \in [Keys -> Threads \cup {None}]
        /\ status' \in [Keys -> {"open", "done", "reopened"}]
    BY <1>1, <1>4, CreateType DEF FileGap
  <2>2. /\ pc' \in [Threads -> {"idle", "sync", "status", "patch", "choose", "gaps", "links",
                                 "file", "record", "ready", "stamp", "insert"}]
        /\ cur' \in [Threads -> Keys \cup {None}]
    BY <1>1, <1>4 DEF FileGap
  <2>3. /\ todo' \in [Threads -> SUBSET Controls]
        /\ already' \in [Threads -> SUBSET (Controls \cup {None})]
        /\ pushed' \in [Threads -> SUBSET Keys]
    BY <1>1, <1>4 DEF FileGap
  <2>4. QED
    BY <1>4, <2>1, <2>2, <2>3 DEF FileGap
<1>5. CASE RecordLink(t)
  <2>1. cur[t] \in Keys
    BY <1>1, <1>5 DEF RecordLink, HoldsOwnIssue
  <2>2. QED
    BY <1>1, <1>5, <2>1 DEF RecordLink
<1>6. CASE PushEnd(t)
  BY <1>1, <1>6 DEF PushEnd
<1>7. QED
  BY <1>2, <1>3, <1>4, <1>5, <1>6 DEF PushStep

LEMMA OtherPassType ==
  ASSUME TypeOK, NEW t \in Automation, StartPass(t) \/ Choose(t) \/ ReadinessStep(t)
  PROVE  TypeOK'
<1> USE DEF TypeOK, Goto, jira, settings, feed, syncVars, pushVars
<1>1. t \in Threads
  BY DEF Threads
<1>2. CASE StartPass(t)
  BY <1>1, <1>2 DEF StartPass
<1>3. CASE Choose(t)
  <2>1. pc' = [pc EXCEPT ![t] = "gaps"] \/ pc' = [pc EXCEPT ![t] = "ready"]
    BY <1>3 DEF Choose
  <2>2. QED
    BY <1>1, <1>3, <2>1 DEF Choose
<1>4. CASE ReadinessSkip(t)
  BY <1>1, <1>4 DEF ReadinessSkip
<1>5. CASE ReadinessAlert(t)
  BY <1>1, <1>5 DEF ReadinessAlert, Saturate
<1>6. CASE ReadinessStamp(t)
  <2>1. due' \in BOOLEAN
    BY <1>6 DEF ReadinessStamp
  <2>2. QED
    BY <1>1, <1>6, <2>1 DEF ReadinessStamp
<1>7. QED
  BY <1>2, <1>3, <1>4, <1>5, <1>6 DEF ReadinessStep

LEMMA UserType ==
  ASSUME TypeOK, NEW u \in Users, UserStep(u)
  PROVE  TypeOK'
<1> USE DEF TypeOK, Goto, jira, settings, feed, syncVars, pushVars
<1>1. u \in Threads
  BY DEF Threads
<1>2. ASSUME NEW c \in Controls, NEW k \in Keys, PushGap(u, c, k) PROVE TypeOK'
  <2>1. /\ control' \in [Keys -> Controls \cup {None}]
        /\ by' \in [Keys -> Threads \cup {None}]
        /\ status' \in [Keys -> {"open", "done", "reopened"}]
    BY <1>1, <1>2, CreateType DEF PushGap
  <2>2. QED
    BY <1>1, <1>2, <2>1 DEF PushGap
<1>3. CASE InsertLink(u)
  BY <1>1, <1>3 DEF InsertLink
<1>4. QED
  BY <1>2, <1>3 DEF UserStep

LEMMA SurroundingsType ==
  ASSUME TypeOK, Surroundings
  PROVE  TypeOK'
<1> USE DEF TypeOK, jira, settings, feed, syncVars, pushVars
<1>1. ASSUME NEW c \in Controls, EvidenceChanges(c) PROVE TypeOK'
  BY <1>1 DEF EvidenceChanges
<1>2. ASSUME NEW k \in Keys, IssueMoves(k) PROVE TypeOK'
  BY <1>2 DEF IssueMoves
<1>3. CASE PutConfig
  BY <1>3 DEF PutConfig
<1>4. CASE IntervalElapses
  BY <1>4 DEF IntervalElapses
<1>5. CASE Crash
  BY <1>5 DEF Crash
<1>6. QED
  BY <1>1, <1>2, <1>3, <1>4, <1>5 DEF Surroundings

LEMMA StepType ==
  ASSUME TypeOK, HoldsOwnIssue, [Next]_vars
  PROVE  TypeOK'
<1>1. ASSUME NEW t \in Automation, StartPass(t) \/ PassStep(t) PROVE TypeOK'
  BY <1>1, SyncType, PushType, OtherPassType DEF PassStep
<1>2. ASSUME NEW u \in Users, UserStep(u) PROVE TypeOK'
  BY <1>2, UserType
<1>3. CASE Surroundings
  BY <1>3, SurroundingsType
<1>4. CASE UNCHANGED vars
  BY <1>4 DEF vars, TypeOK, jira, settings, feed, syncVars, pushVars
<1>5. QED
  BY <1>1, <1>2, <1>3, <1>4 DEF Next

-----------------------------------------------------------------------------
(***************************************************************************)
(* The strengthening under which the dedupe invariant is inductive.        *)
(***************************************************************************)
Dedupe ==
  /\ LinkedWereFiled
  /\ HoldsOwnIssue
  /\ VisitsLinked
  /\ KnowsItsLinks
  /\ OneLinkPerThread

Inv == TypeOK /\ Dedupe

Watched == {"file", "record", "insert", "patch"}

LEMMA InitDedupe == Init => Dedupe
  BY DEF Init, Dedupe, LinkedWereFiled, HoldsOwnIssue, VisitsLinked, KnowsItsLinks,
         OneLinkPerThread, Linked, Filed, AutoFiled, Threads

\* A step that leaves the issues, the links and the locals alone and brings no
\* thread to a watched place keeps the invariant.
LEMMA QuietStep ==
  ASSUME Inv,
         UNCHANGED <<control, by, status, link, cur, rows, seen, already>>,
         \A t \in Threads : pc'[t] = pc[t] \/ pc'[t] \notin Watched
  PROVE  Dedupe'
<1> USE DEF Inv, Dedupe, Linked, Filed, AutoFiled, Watched, TypeOK
<1>1. LinkedWereFiled' /\ OneLinkPerThread'
  BY DEF LinkedWereFiled, OneLinkPerThread
<1>2. HoldsOwnIssue'
  BY DEF HoldsOwnIssue
<1>3. VisitsLinked'
  BY DEF VisitsLinked
<1>4. KnowsItsLinks'
  BY DEF KnowsItsLinks, Threads
<1>5. QED
  BY <1>1, <1>2, <1>3, <1>4

LEMMA PassPc ==
  ASSUME TypeOK, NEW t \in Automation, NEW label, Goto(t, label)
  PROVE  /\ pc'[t] = label
         /\ \A u \in Threads \ {t} : pc'[u] = pc[u]
  BY DEF TypeOK, Goto, Threads

LEMMA QuietPassSteps ==
  ASSUME Inv, NEW t \in Automation,
         \/ StartPass(t) \/ Choose(t) \/ ReadinessStep(t)
         \/ SyncEnd(t) \/ PushGaps(t)
         \/ \E k \in Keys : SyncAlert(t, k)
  PROVE  Dedupe'
<1> USE DEF Inv, Watched, jira, syncVars, pushVars
<1>1. UNCHANGED <<control, by, status, link, cur, rows, seen, already>>
  BY DEF StartPass, Choose, ReadinessStep, ReadinessSkip, ReadinessAlert,
         ReadinessStamp, SyncEnd, PushGaps, SyncAlert
<1>2. \/ UNCHANGED pc
      \/ \E label \in {"idle", "sync", "choose", "gaps", "links", "ready", "stamp"} :
           Goto(t, label)
  BY DEF StartPass, Choose, ReadinessStep, ReadinessSkip, ReadinessAlert, AfterPush,
         ReadinessStamp, SyncEnd, PushGaps, SyncAlert, AfterSync
<1>3. \A u \in Threads : pc'[u] = pc[u] \/ pc'[u] \notin Watched
  BY <1>2, PassPc
<1>4. QED
  BY <1>1, <1>3, QuietStep

LEMMA SyncReadDedupe ==
  ASSUME Inv, NEW t \in Automation, SyncRead(t)
  PROVE  Dedupe'
<1> USE DEF Inv, Dedupe, Linked, Filed, AutoFiled, jira, pushVars
<1>1. UNCHANGED <<control, by, status, link, cur, seen, already>>
  BY DEF SyncRead
<1>2. t \in Threads /\ \A u \in Threads : pc'[u] = pc[u] \/ pc'[u] \notin Watched
  BY PassPc DEF SyncRead, Threads, Watched, AfterSync, AfterFailedSync
<1>3. LinkedWereFiled' /\ OneLinkPerThread'
  BY <1>1 DEF LinkedWereFiled, OneLinkPerThread
<1>4. HoldsOwnIssue'
  BY <1>1, <1>2 DEF HoldsOwnIssue, Watched
<1>5. \A u \in Threads : \A k \in rows'[u] : Linked(k)'
  BY <1>1, <1>2 DEF SyncRead, VisitsLinked, OpenRows, TypeOK
<1>6. VisitsLinked'
  BY <1>1, <1>2, <1>5 DEF VisitsLinked, Watched
<1>7. KnowsItsLinks'
  BY <1>1, <1>2 DEF KnowsItsLinks, Watched, Threads
<1>8. QED
  BY <1>3, <1>4, <1>6, <1>7

LEMMA SyncStatusDedupe ==
  ASSUME Inv, NEW t \in Automation, NEW k \in Keys, SyncStatus(t, k)
  PROVE  Dedupe'
<1> USE DEF Inv, Dedupe, Linked, Filed, AutoFiled, jira, pushVars
<1>1. UNCHANGED <<control, by, status, link, already>>
  BY DEF SyncStatus
<1>2. t \in Threads /\ pc[t] = "status"
  BY DEF SyncStatus, Threads
<1>3. /\ \A u \in Threads \ {t} : pc'[u] = pc[u] /\ cur'[u] = cur[u] /\ seen'[u] = seen[u]
      /\ \A u \in Threads : rows'[u] \subseteq rows[u]
      /\ pc'[t] \in {"status", "patch", "choose", "idle"}
      /\ pc'[t] = "patch" => cur'[t] = k
  BY <1>2 DEF SyncStatus, AfterFailedSync, Goto, TypeOK
<1>4. pc'[t] = "patch" /\ seen'[t] => status[k] = "done"
  BY <1>2 DEF SyncStatus, AfterFailedSync, Goto, TypeOK
<1>5. Linked(k)
  BY <1>2 DEF SyncStatus, VisitsLinked
<1>6. LinkedWereFiled' /\ OneLinkPerThread'
  BY <1>1 DEF LinkedWereFiled, OneLinkPerThread
<1>7. HoldsOwnIssue'
  BY <1>1, <1>3 DEF HoldsOwnIssue
<1>8. VisitsLinked'
  BY <1>1, <1>3, <1>4, <1>5 DEF VisitsLinked
<1>9. KnowsItsLinks'
  BY <1>1, <1>3 DEF KnowsItsLinks, Threads
<1>10. QED
  BY <1>6, <1>7, <1>8, <1>9

\* Writing to a row that exists links nothing new.
LEMMA SyncPatchDedupe ==
  ASSUME Inv, NEW t \in Automation, SyncPatch(t)
  PROVE  Dedupe'
<1> USE DEF Inv, Dedupe, Filed, AutoFiled, jira, pushVars
<1>1. UNCHANGED <<control, by, status, rows, already>>
  BY DEF SyncPatch
<1>2. t \in Threads /\ cur[t] \in Keys /\ Linked(cur[t])
  BY DEF SyncPatch, VisitsLinked, Threads
<1>3. \A k \in Keys : Linked(k)' <=> Linked(k)
  BY <1>2 DEF SyncPatch, Patched, Linked, TypeOK
<1>4. /\ \A u \in Threads \ {t} : pc'[u] = pc[u] /\ cur'[u] = cur[u] /\ seen'[u] = seen[u]
      /\ pc'[t] = "status"
  BY <1>2 DEF SyncPatch, Goto, TypeOK
<1>5. LinkedWereFiled' /\ OneLinkPerThread'
  BY <1>1, <1>3 DEF LinkedWereFiled, OneLinkPerThread
<1>6. HoldsOwnIssue'
  BY <1>1, <1>3, <1>4 DEF HoldsOwnIssue
<1>7. VisitsLinked'
  BY <1>1, <1>3, <1>4 DEF VisitsLinked, TypeOK
<1>8. KnowsItsLinks'
  BY <1>1, <1>3, <1>4 DEF KnowsItsLinks, Threads
<1>9. QED
  BY <1>5, <1>6, <1>7, <1>8

LEMMA PushLinksDedupe ==
  ASSUME Inv, NEW t \in Automation, PushLinks(t)
  PROVE  Dedupe'
<1> USE DEF Inv, Dedupe, Linked, Filed, AutoFiled, jira, syncVars
<1>1. UNCHANGED <<control, by, status, link, cur, rows, seen>>
  BY DEF PushLinks
<1>2. t \in Threads
  BY DEF Threads
<1>3. /\ \A u \in Threads \ {t} : pc'[u] = pc[u] /\ already'[u] = already[u]
      /\ pc'[t] \in {"file", "ready", "idle"}
      /\ pc'[t] = "file" => already'[t] = LinkedControls
  BY <1>2 DEF PushLinks, Goto, TypeOK, AfterPush
<1>4. LinkedWereFiled' /\ OneLinkPerThread'
  BY <1>1 DEF LinkedWereFiled, OneLinkPerThread
<1>5. HoldsOwnIssue'
  BY <1>1, <1>3 DEF HoldsOwnIssue
<1>6. VisitsLinked'
  BY <1>1, <1>3 DEF VisitsLinked
<1>7. KnowsItsLinks'
  BY <1>1, <1>3 DEF KnowsItsLinks, Threads, LinkedControls
<1>8. QED
  BY <1>4, <1>5, <1>6, <1>7

\* A new issue has no link yet, so every linked key keeps its control and filer.
LEMMA CreateKeeps ==
  ASSUME Inv, NEW t \in Threads, NEW c \in Controls, NEW k \in Keys, Create(t, c, k)
  PROVE  /\ ~Linked(k)
         /\ control'[k] = c /\ by'[k] = t /\ status' = status
         /\ \A j \in Keys \ {k} : control'[j] = control[j] /\ by'[j] = by[j]
         /\ c # None
  BY NoneAssumption DEF Inv, TypeOK, Dedupe, Create, LinkedWereFiled

LEMMA NewIssueDedupe ==
  ASSUME Inv, NEW t \in Threads, NEW c \in Controls, NEW k \in Keys, Create(t, c, k),
         UNCHANGED <<link, rows, seen>>,
         \A u \in Threads \ {t} : pc'[u] = pc[u] /\ cur'[u] = cur[u] /\ already'[u] = already[u],
         pc[t] \in {"file", "idle"},
         \/ pc'[t] = "record" /\ t \in Automation /\ cur'[t] = k
            /\ already'[t] = already[t] /\ pc[t] = "file" /\ c \notin already[t]
         \/ pc'[t] = "insert" /\ t \in Users /\ cur'[t] = k
         \/ pc'[t] = "file" /\ already'[t] = already[t] /\ pc[t] = "file"
         \/ pc'[t] \in {"idle", "ready"}
  PROVE  Dedupe'
<1> USE DEF Inv, Dedupe
<1>1. /\ ~Linked(k)
      /\ control'[k] = c /\ by'[k] = t /\ status' = status /\ c # None
      /\ \A j \in Keys \ {k} : control'[j] = control[j] /\ by'[j] = by[j]
      /\ \A j \in Keys : Linked(j)' <=> Linked(j)
      /\ ~Filed(k)
  <2>1. /\ ~Linked(k)
        /\ control'[k] = c /\ by'[k] = t /\ status' = status /\ c # None
        /\ \A j \in Keys \ {k} : control'[j] = control[j] /\ by'[j] = by[j]
    BY CreateKeeps
  <2>2. ~Filed(k)
    BY DEF Create
  <2>3. \A j \in Keys : Linked(j)' <=> Linked(j)
    BY DEF Linked
  <2>4. QED
    BY <2>1, <2>2, <2>3
<1>2. LinkedWereFiled'
  BY <1>1 DEF LinkedWereFiled, Filed
<1>3. OneLinkPerThread'
  BY <1>1 DEF OneLinkPerThread, AutoFiled, Filed
<1>4. HoldsOwnIssue'
  BY <1>1 DEF HoldsOwnIssue, Filed
<1>5. VisitsLinked'
  BY <1>1 DEF VisitsLinked, Linked
<1>6. KnowsItsLinks'
  <2>1. \A j \in Keys : Linked(j)' => j # k
    BY <1>1
  <2>2. ASSUME NEW u \in Automation, pc'[u] \in {"file", "record"},
               NEW j \in Keys, Linked(j)', by'[j] = u
        PROVE  control'[j] \in already'[u]
    BY <1>1, <2>1, <2>2, ThreadsAssumption DEF KnowsItsLinks, Threads
  <2>3. ASSUME NEW u \in Automation, pc'[u] = "record"
        PROVE  control'[cur'[u]] \notin already'[u]
    <3>1. CASE u = t
      BY <1>1, <2>3, <3>1, ThreadsAssumption
    <3>2. CASE u # t
      <4>1. pc[u] = "record" /\ cur'[u] = cur[u] /\ already'[u] = already[u] /\ u \in Threads
        BY <2>3, <3>2 DEF Threads
      <4>2. cur[u] \in Keys /\ cur[u] # k
        BY <1>1, <4>1 DEF HoldsOwnIssue
      <4>3. QED
        BY <1>1, <4>1, <4>2 DEF KnowsItsLinks
    <3>3. QED
      BY <3>1, <3>2
  <2>4. QED
    BY <2>2, <2>3 DEF KnowsItsLinks
<1>7. QED
  BY <1>2, <1>3, <1>4, <1>5, <1>6

LEMMA FileGapDedupe ==
  ASSUME Inv, NEW t \in Automation, NEW c \in Controls, NEW k \in Keys, FileGap(t, c, k)
  PROVE  Dedupe'
<1> USE DEF jira, syncVars, pushVars
<1>1. t \in Threads /\ TypeOK /\ pc[t] = "file" /\ c \notin already[t]
  BY DEF FileGap, Inv, Threads
<1>2. UNCHANGED <<link, rows, seen>>
  BY DEF FileGap
<1>3. \A u \in Threads \ {t} :
        pc'[u] = pc[u] /\ cur'[u] = cur[u] /\ already'[u] = already[u]
  BY <1>1 DEF FileGap, Goto, TypeOK
<1>4. CASE Create(t, c, k)
  <2>1. \/ pc'[t] = "record" /\ cur'[t] = k /\ already'[t] = already[t]
        \/ pc'[t] = "file" /\ already'[t] = already[t]
        \/ pc'[t] \in {"idle", "ready"}
    BY <1>1, <1>4 DEF FileGap, Goto, TypeOK, AfterPush
  <2>2. QED
    BY <1>1, <1>2, <1>3, <1>4, <2>1, NewIssueDedupe
<1>5. CASE ~Create(t, c, k)
  <2>1. UNCHANGED <<control, by, status, link, cur, rows, seen, already, pc>>
    BY <1>2, <1>5 DEF FileGap
  <2>2. QED
    BY <2>1, QuietStep
<1>6. QED
  BY <1>4, <1>5

LEMMA PushGapDedupe ==
  ASSUME Inv, NEW u \in Users, NEW c \in Controls, NEW k \in Keys, PushGap(u, c, k)
  PROVE  Dedupe'
<1> USE DEF jira, syncVars, pushVars
<1>1. u \in Threads /\ TypeOK /\ pc[u] = "idle" /\ Create(u, c, k)
  BY DEF PushGap, Inv, Threads
<1>2. UNCHANGED <<link, rows, seen, already>>
  BY DEF PushGap
<1>3. \A t \in Threads \ {u} :
        pc'[t] = pc[t] /\ cur'[t] = cur[t] /\ already'[t] = already[t]
  BY <1>1, <1>2 DEF PushGap, Goto, TypeOK
<1>4. (pc'[u] = "insert" /\ cur'[u] = k) \/ pc'[u] = "idle"
  BY <1>1 DEF PushGap, Goto, TypeOK
<1>5. QED
  BY <1>1, <1>2, <1>3, <1>4, NewIssueDedupe

\* Recording a link: the issue is the thread's own, it had no link, and its
\* control was not among those the thread knew as linked.
LEMMA LinkDedupe ==
  ASSUME Inv, NEW t \in Threads,
         UNCHANGED <<control, by, status, rows, seen>>,
         pc[t] \in {"record", "insert"},
         link' = link \/ link' = [link EXCEPT ![cur[t]] = "open"],
         \A u \in Threads \ {t} :
           pc'[u] = pc[u] /\ cur'[u] = cur[u] /\ already'[u] = already[u],
         \/ /\ pc'[t] = "file" /\ already'[t] = already[t] \cup {control[cur[t]]}
            /\ pc[t] = "record" /\ t \in Automation
         \/ pc'[t] = "idle" /\ t \in Users
  PROVE  Dedupe'
<1> USE DEF Inv, Dedupe
<1>1. cur[t] \in Keys /\ Filed(cur[t]) /\ by[cur[t]] = t /\ ~Linked(cur[t])
  BY DEF HoldsOwnIssue
<1>2. /\ \A k \in Keys \ {cur[t]} : Linked(k)' <=> Linked(k)
      /\ \A k \in Keys : Linked(k) => Linked(k)'
  BY <1>1 DEF Linked, TypeOK
<1>3. LinkedWereFiled'
  BY <1>1, <1>2 DEF LinkedWereFiled, Filed
<1>4. HoldsOwnIssue'
  <2>1. ASSUME NEW u \in Threads, pc'[u] \in {"record", "insert"}
        PROVE  (cur[u] \in Keys /\ Filed(cur[u]) /\ by[cur[u]] = u /\ ~Linked(cur[u]))'
    <3>1. u # t /\ pc[u] \in {"record", "insert"} /\ cur'[u] = cur[u]
      BY <2>1
    <3>2. cur[u] \in Keys /\ Filed(cur[u]) /\ by[cur[u]] = u /\ ~Linked(cur[u])
      BY <3>1 DEF HoldsOwnIssue
    <3>3. QED
      BY <1>1, <1>2, <3>1, <3>2 DEF Filed, Linked
  <2>2. QED
    BY <2>1 DEF HoldsOwnIssue
<1>5. VisitsLinked'
  BY <1>2 DEF VisitsLinked, TypeOK
<1>6. KnowsItsLinks'
  <2>1. ASSUME NEW u \in Automation, pc'[u] \in {"file", "record"},
               NEW k \in Keys, Linked(k)', by[k] = u
        PROVE  control[k] \in already'[u]
    BY <1>1, <1>2, <2>1, ThreadsAssumption DEF KnowsItsLinks, Threads
  <2>2. ASSUME NEW u \in Automation, pc'[u] = "record"
        PROVE  control[cur'[u]] \notin already'[u]
    BY <2>2, ThreadsAssumption DEF KnowsItsLinks, Threads
  <2>3. QED
    BY <2>1, <2>2 DEF KnowsItsLinks
<1>7. OneLinkPerThread'
  <2>1. \A k \in Keys : Linked(k) /\ AutoFiled(k) /\ by[k] = t => control[k] # control[cur[t]]
    BY <1>1, ThreadsAssumption DEF KnowsItsLinks, AutoFiled, Threads
  <2>2. QED
    BY <1>1, <1>2, <2>1 DEF OneLinkPerThread, AutoFiled, Filed
<1>8. QED
  BY <1>3, <1>4, <1>5, <1>6, <1>7

LEMMA RecordDedupe ==
  ASSUME Inv, NEW t \in Automation, RecordLink(t)
  PROVE  Dedupe'
<1> USE DEF jira, syncVars
<1>1. t \in Threads /\ TypeOK /\ pc[t] = "record"
  BY DEF RecordLink, Inv, Threads
<1>2. /\ \A u \in Threads \ {t} :
           pc'[u] = pc[u] /\ cur'[u] = cur[u] /\ already'[u] = already[u]
      /\ pc'[t] = "file" /\ already'[t] = already[t] \cup {control[cur[t]]}
  BY <1>1 DEF RecordLink, Goto, TypeOK
<1>3. /\ UNCHANGED <<control, by, status, rows, seen>>
      /\ link' = link \/ link' = [link EXCEPT ![cur[t]] = "open"]
  BY DEF RecordLink
<1>4. QED
  BY <1>1, <1>2, <1>3, LinkDedupe

LEMMA InsertDedupe ==
  ASSUME Inv, NEW u \in Users, InsertLink(u)
  PROVE  Dedupe'
<1> USE DEF jira, syncVars, pushVars
<1>1. u \in Threads /\ TypeOK /\ pc[u] = "insert"
  BY DEF InsertLink, Inv, Threads
<1>2. /\ \A t \in Threads \ {u} :
           pc'[t] = pc[t] /\ cur'[t] = cur[t] /\ already'[t] = already[t]
      /\ pc'[u] = "idle"
  BY <1>1 DEF InsertLink, Goto, TypeOK
<1>3. /\ UNCHANGED <<control, by, status, rows, seen>>
      /\ link' = link \/ link' = [link EXCEPT ![cur[u]] = "open"]
  BY DEF InsertLink
<1>4. QED
  BY <1>1, <1>2, <1>3, LinkDedupe

LEMMA PushEndDedupe ==
  ASSUME Inv, NEW t \in Automation, PushEnd(t)
  PROVE  Dedupe'
<1> USE DEF Inv, Dedupe, Linked, Filed, AutoFiled, jira, syncVars
<1>1. UNCHANGED <<control, by, status, link, cur, rows, seen>>
  BY DEF PushEnd
<1>2. /\ \A u \in Threads \ {t} : pc'[u] = pc[u] /\ already'[u] = already[u]
      /\ pc'[t] \in {"idle", "ready"}
  BY DEF PushEnd, Goto, TypeOK, AfterPush, Threads
<1>3. LinkedWereFiled' /\ OneLinkPerThread'
  BY <1>1 DEF LinkedWereFiled, OneLinkPerThread
<1>4. HoldsOwnIssue' /\ VisitsLinked'
  BY <1>1, <1>2 DEF HoldsOwnIssue, VisitsLinked
<1>5. KnowsItsLinks'
  BY <1>1, <1>2 DEF KnowsItsLinks, Threads
<1>6. QED
  BY <1>3, <1>4, <1>5

LEMMA SurroundingsDedupe ==
  ASSUME Inv, Surroundings
  PROVE  Dedupe'
<1> USE DEF jira, syncVars, pushVars
<1>1. ASSUME NEW c \in Controls, EvidenceChanges(c) PROVE Dedupe'
  BY <1>1, QuietStep DEF EvidenceChanges
<1>2. ASSUME NEW k \in Keys, IssueMoves(k) PROVE Dedupe'
  <2> USE DEF Inv, Dedupe, Linked, Filed, AutoFiled
  <2>1. UNCHANGED <<control, by, link, pc, cur, rows, seen, already>>
    BY <1>2 DEF IssueMoves
  <2>2. \A j \in Keys : status[j] # "open" => status'[j] # "open"
    BY <1>2 DEF IssueMoves, TypeOK
  <2>3. LinkedWereFiled' /\ OneLinkPerThread' /\ HoldsOwnIssue' /\ KnowsItsLinks'
    BY <2>1 DEF LinkedWereFiled, OneLinkPerThread, HoldsOwnIssue, KnowsItsLinks
  <2>4. VisitsLinked'
    BY <2>1, <2>2 DEF VisitsLinked
  <2>5. QED
    BY <2>3, <2>4
<1>3. CASE PutConfig
  BY <1>3, QuietStep DEF PutConfig
<1>4. CASE IntervalElapses
  BY <1>4, QuietStep DEF IntervalElapses
<1>5. CASE Crash
  <2> USE DEF Inv, Dedupe, Linked, Filed, AutoFiled
  <2>1. /\ UNCHANGED <<control, by, status, link>>
        /\ \A t \in Threads : pc'[t] = "idle" /\ rows'[t] = {}
    BY <1>5 DEF Crash
  <2>2. LinkedWereFiled' /\ OneLinkPerThread'
    BY <2>1 DEF LinkedWereFiled, OneLinkPerThread
  <2>3. HoldsOwnIssue' /\ VisitsLinked' /\ KnowsItsLinks'
    BY <2>1 DEF HoldsOwnIssue, VisitsLinked, KnowsItsLinks, Threads
  <2>4. QED
    BY <2>2, <2>3
<1>6. QED
  BY <1>1, <1>2, <1>3, <1>4, <1>5 DEF Surroundings

LEMMA StepDedupe ==
  ASSUME Inv, [Next]_vars
  PROVE  Dedupe'
<1>1. ASSUME NEW t \in Automation, StartPass(t) \/ PassStep(t) PROVE Dedupe'
  <2>1. ASSUME SyncStep(t) PROVE Dedupe'
    BY <2>1, SyncReadDedupe, SyncStatusDedupe, SyncPatchDedupe, QuietPassSteps DEF SyncStep
  <2>2. ASSUME PushStep(t) PROVE Dedupe'
    BY <2>2, PushLinksDedupe, FileGapDedupe, RecordDedupe, PushEndDedupe, QuietPassSteps
    DEF PushStep
  <2>3. QED
    BY <1>1, <2>1, <2>2, QuietPassSteps DEF PassStep
<1>2. ASSUME NEW u \in Users, UserStep(u) PROVE Dedupe'
  BY <1>2, PushGapDedupe, InsertDedupe DEF UserStep
<1>3. CASE Surroundings
  BY <1>3, SurroundingsDedupe
<1>4. CASE UNCHANGED vars
  BY <1>4, QuietStep DEF vars, jira, syncVars, pushVars
<1>5. QED
  BY <1>1, <1>2, <1>3, <1>4 DEF Next

-----------------------------------------------------------------------------
(***************************************************************************)
(* In every behaviour and for every instance the variables keep their      *)
(* types, and what keeps a thread from filing a control twice holds.       *)
(***************************************************************************)
THEOREM Invariance == Spec => []Inv
<1>1. Init => Inv
  BY InitType, InitDedupe DEF Inv
<1>2. Inv /\ [Next]_vars => Inv'
  BY StepType, StepDedupe DEF Inv, Dedupe
<1>3. QED
  BY <1>1, <1>2, PTL DEF Spec

(***************************************************************************)
(* Whatever the threads, Jira, its users and the faults do, the variables  *)
(* keep their types.                                                       *)
(***************************************************************************)
THEOREM TypeCorrect == Spec => []TypeOK
  BY Invariance, PTL DEF Inv

(***************************************************************************)
(* jira_sync.auto_push_gaps: however many passes overlap and whatever      *)
(* fails, no thread files a control twice with both links recorded.        *)
(***************************************************************************)
THEOREM OneLinkPerThreadAlways == Spec => []OneLinkPerThread
  BY Invariance, PTL DEF Inv, Dedupe

(***************************************************************************)
(* So the linked duplicates of a control are bounded by the number of      *)
(* automation threads: filing thread by filing thread, they are distinct.  *)
(***************************************************************************)
THEOREM BoundedDuplicatesAlways ==
  ASSUME IsFiniteSet(Automation)
  PROVE  Spec => []BoundedDuplicates
<1>1. ASSUME OneLinkPerThread PROVE BoundedDuplicates
  <2>1. SUFFICES ASSUME NEW c \in Controls
                 PROVE  Cardinality({k \in Keys : AutoFiled(k) /\ Linked(k) /\ control[k] = c})
                          <= Cardinality(Automation)
    BY DEF BoundedDuplicates
  <2> DEFINE D == {k \in Keys : AutoFiled(k) /\ Linked(k) /\ control[k] = c}
             f == [k \in D |-> by[k]]
  <2>2. f \in Injection(D, Automation)
    <3>1. f \in [D -> Automation]
      BY DEF AutoFiled
    <3>2. \A j, k \in D : f[j] = f[k] => j = k
      BY <1>1 DEF OneLinkPerThread
    <3>3. QED
      BY <3>1, <3>2 DEF Injection, IsInjective
  <2>3. Cardinality(D) <= Cardinality(Automation)
    BY <2>2, FS_Injection
  <2>4. QED
    BY <2>3
<1>2. QED
  BY <1>1, OneLinkPerThreadAlways, PTL

(***************************************************************************)
(* jira_sync._record_link, sync_back and push_gap: the row of an issue is  *)
(* never dropped, and resolved_at once stamped stays.                      *)
(***************************************************************************)
LEMMA PatchAdvances ==
  ASSUME Inv, NEW t \in Automation, SyncPatch(t)
  PROVE  Advances
<1>1. cur[t] \in Keys /\ Linked(cur[t])
  BY DEF SyncPatch, Inv, Dedupe, VisitsLinked, Threads
<1>2. \/ link' = link
      \/ link' = [link EXCEPT ![cur[t]] = "resolved"]
      \/ link' = [link EXCEPT ![cur[t]] = link[cur[t]]]
  BY DEF SyncPatch, Patched
<1>3. link \in [Keys -> {"none", "open", "resolved"}]
  BY DEF Inv, TypeOK
<1>4. QED
  BY <1>1, <1>2, <1>3 DEF Advances, Linked

LEMMA InsertAdvances ==
  ASSUME Inv, NEW t \in Threads, RecordLink(t) \/ InsertLink(t)
  PROVE  Advances
<1>1. cur[t] \in Keys /\ ~Linked(cur[t])
  BY DEF RecordLink, InsertLink, Inv, Dedupe, HoldsOwnIssue
<1>2. link' = [link EXCEPT ![cur[t]] = "open"] \/ link' = link
  BY DEF RecordLink, InsertLink
<1>3. link \in [Keys -> {"none", "open", "resolved"}]
  BY DEF Inv, TypeOK
<1>4. QED
  BY <1>1, <1>2, <1>3 DEF Advances, Linked

(***************************************************************************)
(* jira_sync.sync_back and store: the row of a link never goes back, not   *)
(* even where a pass writes a status that it read long ago.                *)
(***************************************************************************)
THEOREM LinksOnlyAdvanceAlways == Spec => LinksOnlyAdvance
<1>1. ASSUME Inv, [Next]_vars PROVE [Advances]_vars
  <2>1. ASSUME link' = link PROVE Advances
    BY <2>1 DEF Advances, Linked
  <2>2. ASSUME NEW t \in Automation, StartPass(t) \/ PassStep(t) PROVE Advances
    <3>1. \/ link' = link \/ SyncPatch(t) \/ RecordLink(t)
      BY <2>2 DEF StartPass, PassStep, SyncStep, SyncRead, SyncStatus, SyncAlert, SyncEnd,
             Choose, PushStep, PushGaps, PushLinks, FileGap, PushEnd, ReadinessStep,
             ReadinessSkip, ReadinessAlert, ReadinessStamp
    <3>2. QED
      BY <1>1, <2>1, <3>1, PatchAdvances, InsertAdvances DEF Threads
  <2>3. ASSUME NEW u \in Users, UserStep(u) PROVE Advances
    BY <1>1, <2>1, <2>3, InsertAdvances DEF UserStep, PushGap, Threads
  <2>4. ASSUME Surroundings PROVE Advances
    BY <2>1, <2>4 DEF Surroundings, EvidenceChanges, IssueMoves, PutConfig,
       IntervalElapses, Crash
  <2>5. QED
    BY <1>1, <2>2, <2>3, <2>4 DEF Next
<1>2. QED
  BY <1>1, Invariance, PTL DEF Spec, LinksOnlyAdvance

-----------------------------------------------------------------------------
(***************************************************************************)
(* jira_sync.sync_back: resolved_at means the issue had been done, although*)
(* its status was read before the row was written.                         *)
(***************************************************************************)
ResolvedInv == Inv /\ ResolvedWasDone

LEMMA ResolvedStep ==
  ASSUME ResolvedInv, [Next]_vars
  PROVE  ResolvedWasDone'
<1> USE DEF ResolvedInv, ResolvedWasDone, Filed
<1>1. \A k \in Keys : status[k] # "open" => status'[k] # "open"
  <2>1. ASSUME NEW k \in Keys, IssueMoves(k)
        PROVE  \A j \in Keys : status[j] # "open" => status'[j] # "open"
    BY <2>1 DEF IssueMoves, Inv, TypeOK
  <2>2. ASSUME status' = status
        PROVE  \A j \in Keys : status[j] # "open" => status'[j] # "open"
    BY <2>2
  <2>3. status' = status \/ \E k \in Keys : IssueMoves(k)
    BY DEF Next, StartPass, PassStep, SyncStep, SyncRead, SyncStatus, SyncAlert, SyncEnd,
       SyncPatch, RecordLink, Choose, PushStep, PushGaps, PushLinks, FileGap, PushEnd,
       ReadinessStep, ReadinessSkip, ReadinessAlert, ReadinessStamp, UserStep, PushGap,
       InsertLink, Surroundings, EvidenceChanges, PutConfig, IntervalElapses, Crash,
       Create, jira, vars
  <2>4. QED
    BY <2>1, <2>2, <2>3
<1>2. \A k \in Keys : Filed(k) => Filed(k)'
  <2>1. ASSUME NEW u \in Threads, NEW c \in Controls, NEW j \in Keys, Create(u, c, j)
        PROVE  \A k \in Keys : Filed(k) => Filed(k)'
    BY <2>1 DEF Create, Inv, TypeOK
  <2>2. ASSUME control' = control PROVE \A k \in Keys : Filed(k) => Filed(k)'
    BY <2>2
  <2>3. \/ control' = control
        \/ \E u \in Threads, c \in Controls, j \in Keys : Create(u, c, j)
    BY DEF Next, StartPass, PassStep, SyncStep, SyncRead, SyncStatus, SyncAlert, SyncEnd,
       SyncPatch, RecordLink, Choose, PushStep, PushGaps, PushLinks, FileGap, PushEnd,
       ReadinessStep, ReadinessSkip, ReadinessAlert, ReadinessStamp, UserStep, PushGap,
       InsertLink, Surroundings, EvidenceChanges, IssueMoves, PutConfig, IntervalElapses,
       Crash, jira, vars, Threads
  <2>4. QED
    BY <2>1, <2>2, <2>3
<1>3. \A k \in Keys : link'[k] = "resolved" =>
        link[k] = "resolved" \/ (Filed(k) /\ status[k] # "open")
  <2> DEFINE Newly == \A k \in Keys : link'[k] = "resolved" =>
                        link[k] = "resolved" \/ (Filed(k) /\ status[k] # "open")
  <2>1. ASSUME link' = link PROVE Newly
    BY <2>1
  <2>2. ASSUME NEW t \in Automation, SyncPatch(t) PROVE Newly
    <3>1. cur[t] \in Keys /\ Filed(cur[t]) /\ (seen[t] => status[cur[t]] # "open")
      BY <2>2 DEF SyncPatch, Inv, Dedupe, VisitsLinked, LinkedWereFiled, Threads
    <3>2. \/ link' = link
          \/ seen[t] /\ link' = [link EXCEPT ![cur[t]] = "resolved"]
          \/ link' = [link EXCEPT ![cur[t]] = link[cur[t]]]
      BY <2>2 DEF SyncPatch, Patched
    <3>3. QED
      BY <3>1, <3>2 DEF Inv, TypeOK
  <2>3. ASSUME NEW t \in Threads, RecordLink(t) \/ InsertLink(t) PROVE Newly
    <3>1. link' = [link EXCEPT ![cur[t]] = "open"] \/ link' = link
      BY <2>3 DEF RecordLink, InsertLink
    <3>2. QED
      BY <3>1 DEF Inv, TypeOK
  <2>4. \/ link' = link
        \/ \E t \in Automation : SyncPatch(t)
        \/ \E t \in Threads : RecordLink(t) \/ InsertLink(t)
    BY DEF Next, StartPass, PassStep, SyncStep, SyncRead, SyncStatus, SyncAlert, SyncEnd,
       Choose, PushStep, PushGaps, PushLinks, FileGap, PushEnd,
       ReadinessStep, ReadinessSkip, ReadinessAlert, ReadinessStamp, UserStep, PushGap,
       Surroundings, EvidenceChanges, IssueMoves, PutConfig, IntervalElapses,
       Crash, vars, Threads
  <2>5. QED
    BY <2>1, <2>2, <2>3, <2>4
<1>4. QED
  BY <1>1, <1>2, <1>3

(***************************************************************************)
(* jira_sync.sync_back: what is resolved was done in Jira, whichever       *)
(* passes overlap and whatever fails.                                      *)
(***************************************************************************)
THEOREM ResolvedWasDoneAlways == Spec => []ResolvedWasDone
<1>1. Init => ResolvedWasDone
  BY DEF Init, ResolvedWasDone
<1>2. ResolvedInv /\ [Next]_vars => ResolvedWasDone'
  BY ResolvedStep
<1>3. QED
  BY <1>1, <1>2, Invariance, PTL DEF Spec, ResolvedInv

-----------------------------------------------------------------------------
(***************************************************************************)
(* When the header comment is right.  One automation thread, and a link    *)
(* recorded for every issue it creates: then no control is filed twice.    *)
(***************************************************************************)
EveryIssueHeld ==
  \A k \in Keys : AutoFiled(k) /\ ~Linked(k) =>
    \E t \in Automation : pc[t] = "record" /\ cur[t] = k

\* What a step may do without letting go of an issue.
LEMMA HeldQuiet ==
  ASSUME Inv, EveryIssueHeld, UNCHANGED <<control, by>>,
         Advances,
         \A t \in Automation : pc[t] = "record" => pc'[t] = "record" /\ cur'[t] = cur[t]
  PROVE  EveryIssueHeld'
<1>1. SUFFICES ASSUME NEW k \in Keys, AutoFiled(k)', ~Linked(k)'
               PROVE  \E t \in Automation : pc'[t] = "record" /\ cur'[t] = k
  BY DEF EveryIssueHeld
<1>2. AutoFiled(k)
  BY <1>1 DEF AutoFiled, Filed
<1>3. ~Linked(k)
  BY <1>1 DEF Advances
<1>4. QED
  BY <1>2, <1>3 DEF EveryIssueHeld

LEMMA HeldOtherSteps ==
  ASSUME Inv, EveryIssueHeld, NEW t \in Automation, StartPass(t) \/ PassStep(t)
  PROVE  \/ EveryIssueHeld'
         \/ RecordLink(t)
         \/ \E c \in Controls, k \in Keys : FileGap(t, c, k)
<1>1. ASSUME SyncPatch(t) PROVE EveryIssueHeld'
  <2>1. UNCHANGED <<control, by>>
    BY <1>1 DEF SyncPatch, jira
  <2>2. Advances
    BY <1>1, PatchAdvances
  <2>3. \A u \in Automation : pc[u] = "record" => pc'[u] = "record" /\ cur'[u] = cur[u]
    BY <1>1 DEF SyncPatch, Goto, Inv, TypeOK, Threads
  <2>4. QED
    BY <2>1, <2>2, <2>3, HeldQuiet
<1>2. ASSUME UNCHANGED <<control, by, link>>, pc[t] # "record",
             \A u \in Automation \ {t} : pc'[u] = pc[u] /\ cur'[u] = cur[u]
      PROVE  EveryIssueHeld'
  <2>1. Advances
    BY <1>2 DEF Advances, Linked
  <2>2. QED
    BY <1>2, <2>1, HeldQuiet
<1>3. ASSUME ~SyncPatch(t), ~RecordLink(t),
             ~\E c \in Controls, k \in Keys : FileGap(t, c, k)
      PROVE  EveryIssueHeld'
  <2>1. UNCHANGED <<control, by, link>> /\ pc[t] # "record"
    BY <1>3 DEF StartPass, PassStep, SyncStep, SyncRead, SyncStatus, SyncAlert, SyncEnd,
       Choose, PushStep, PushGaps, PushLinks, PushEnd, ReadinessStep, ReadinessSkip,
       ReadinessAlert, ReadinessStamp, jira
  <2>2. (\E label : Goto(t, label)) \/ UNCHANGED pc
    BY <1>3 DEF StartPass, PassStep, SyncStep, SyncRead, SyncStatus, SyncAlert, SyncEnd,
       Choose, PushStep, PushGaps, PushLinks, PushEnd, ReadinessStep, ReadinessSkip,
       ReadinessAlert, ReadinessStamp
  <2>3. (\E key : cur' = [cur EXCEPT ![t] = key]) \/ UNCHANGED cur
    BY <1>3 DEF StartPass, PassStep, SyncStep, SyncRead, SyncStatus, SyncAlert, SyncEnd,
       Choose, PushStep, PushGaps, PushLinks, PushEnd, ReadinessStep, ReadinessSkip,
       ReadinessAlert, ReadinessStamp
  <2>4. \A u \in Automation \ {t} : pc'[u] = pc[u] /\ cur'[u] = cur[u]
    BY <2>2, <2>3 DEF Goto, Inv, TypeOK, Threads
  <2>5. QED
    BY <1>2, <2>1, <2>4
<1>4. QED
  BY <1>1, <1>3

LEMMA HeldStep ==
  ASSUME Inv, EveryIssueHeld, [Next]_vars,
         Faults \cap {"link", "timeout", "body", "crash"} = {}
  PROVE  EveryIssueHeld'
<1>0. ~Fault("link") /\ ~Fault("timeout") /\ ~Fault("body") /\ ~Fault("crash")
  BY DEF Fault
<1>1. ASSUME NEW t \in Automation, RecordLink(t) PROVE EveryIssueHeld'
  <2>1. t \in Threads /\ cur[t] \in Keys
    BY <1>1 DEF RecordLink, Inv, Dedupe, HoldsOwnIssue, Threads
  <2>2. link' = [link EXCEPT ![cur[t]] = "open"] /\ UNCHANGED <<control, by>>
    BY <1>0, <1>1 DEF RecordLink, jira
  <2>3. \A u \in Automation \ {t} : pc'[u] = pc[u] /\ cur'[u] = cur[u]
    BY <1>1 DEF RecordLink, Goto, Inv, TypeOK, Threads
  <2>4. \A k \in Keys : Linked(k)' \/ (k # cur[t] /\ ~Linked(k))
    BY <2>1, <2>2 DEF Linked, Inv, TypeOK
  <2>5. QED
    BY <2>2, <2>3, <2>4 DEF EveryIssueHeld, AutoFiled, Filed
<1>2. ASSUME NEW t \in Automation, NEW c \in Controls, NEW k \in Keys, FileGap(t, c, k)
      PROVE  EveryIssueHeld'
  <2>1. t \in Threads /\ pc[t] = "file" /\ UNCHANGED link
    BY <1>2 DEF FileGap, Threads
  <2>2. ASSUME UNCHANGED <<control, by, pc, cur>> PROVE EveryIssueHeld'
    BY <2>1, <2>2 DEF EveryIssueHeld, AutoFiled, Filed, Linked
  <2>3. ASSUME Create(t, c, k), cur' = [cur EXCEPT ![t] = k], Goto(t, "record")
        PROVE  EveryIssueHeld'
    <3>1. /\ \A u \in Automation \ {t} : pc'[u] = pc[u] /\ cur'[u] = cur[u]
          /\ pc'[t] = "record" /\ cur'[t] = k
      BY <2>1, <2>3 DEF Goto, Inv, TypeOK, Threads
    <3>2. \A j \in Keys \ {k} : control'[j] = control[j] /\ by'[j] = by[j]
      BY <2>3 DEF Create, Inv, TypeOK
    <3>3. QED
      BY <2>1, <3>1, <3>2 DEF EveryIssueHeld, AutoFiled, Filed, Linked
  <2>4. \/ UNCHANGED <<control, by, pc, cur>>
        \/ Create(t, c, k) /\ cur' = [cur EXCEPT ![t] = k] /\ Goto(t, "record")
    BY <1>0, <1>2 DEF FileGap, jira
  <2>5. QED
    BY <2>2, <2>3, <2>4
<1>3. ASSUME NEW u \in Users, NEW c \in Controls, NEW k \in Keys, PushGap(u, c, k)
      PROVE  EveryIssueHeld'
  <2>1. u \in Threads /\ u \notin Automation
    BY ThreadsAssumption DEF Threads
  <2>2. /\ \A j \in Keys \ {k} : control'[j] = control[j] /\ by'[j] = by[j]
        /\ by'[k] = u /\ UNCHANGED link
    BY <1>3 DEF PushGap, Create, Inv, TypeOK
  <2>3. \A t \in Automation : pc'[t] = pc[t] /\ cur'[t] = cur[t]
    BY <1>3, <2>1 DEF PushGap, Goto, Inv, TypeOK, Threads
  <2>4. QED
    BY <2>1, <2>2, <2>3 DEF EveryIssueHeld, AutoFiled, Filed, Linked
<1>4. ASSUME NEW u \in Users, InsertLink(u) PROVE EveryIssueHeld'
  <2>1. u \in Threads /\ u \notin Automation
    BY ThreadsAssumption DEF Threads
  <2>2. UNCHANGED <<control, by>>
    BY <1>4 DEF InsertLink, jira
  <2>3. Advances
    BY <1>4, <2>1, InsertAdvances
  <2>4. \A t \in Automation : pc'[t] = pc[t] /\ cur'[t] = cur[t]
    BY <1>4, <2>1 DEF InsertLink, Goto, Inv, TypeOK, Threads
  <2>5. QED
    BY <2>2, <2>3, <2>4, HeldQuiet
<1>5. ASSUME Surroundings \/ UNCHANGED vars PROVE EveryIssueHeld'
  <2>1. UNCHANGED <<control, by, link, pc, cur>>
    BY <1>0, <1>5 DEF Surroundings, EvidenceChanges, IssueMoves, PutConfig, IntervalElapses,
       Crash, jira, vars
  <2>2. QED
    BY <2>1 DEF EveryIssueHeld, AutoFiled, Filed, Linked
<1>6. QED
  BY <1>1, <1>2, <1>3, <1>4, <1>5, HeldOtherSteps DEF Next, UserStep

(***************************************************************************)
(* jira_sync.py:6-8, "re-running never double-files", under the            *)
(* circumstances in which the code does keep it: a single automation       *)
(* thread that is never cut off between filing an issue and its row.       *)
(***************************************************************************)
THEOREM NeverDoubleFilesAlone ==
  ASSUME NEW t, Automation = {t},
         Faults \cap {"link", "timeout", "body", "crash"} = {}
  PROVE  Spec => []NeverDoubleFiles
<1>1. Init => EveryIssueHeld
  BY DEF Init, EveryIssueHeld, AutoFiled, Filed
<1>2. Inv /\ EveryIssueHeld /\ [Next]_vars => EveryIssueHeld'
  BY HeldStep
<1>3. Inv /\ EveryIssueHeld => NeverDoubleFiles
  <2>1. SUFFICES ASSUME Inv, EveryIssueHeld, NEW j \in Keys, NEW k \in Keys,
                        AutoFiled(j), AutoFiled(k), control[j] = control[k]
                 PROVE  j = k
    BY DEF NeverDoubleFiles
  <2>2. by[j] = t /\ by[k] = t /\ t \in Automation
    BY <2>1 DEF AutoFiled
  <2>3. CASE Linked(j) /\ Linked(k)
    BY <2>1, <2>2, <2>3 DEF Inv, Dedupe, OneLinkPerThread
  <2>4. CASE ~Linked(j) /\ ~Linked(k)
    BY <2>1, <2>4 DEF EveryIssueHeld
  <2>5. ASSUME NEW x \in Keys, NEW y \in Keys, ~Linked(x), Linked(y), AutoFiled(x),
               by[y] = t, control[x] = control[y]
        PROVE  FALSE
    <3>1. pc[t] = "record" /\ cur[t] = x
      BY <2>1, <2>5 DEF EveryIssueHeld
    <3>2. QED
      BY <2>1, <2>2, <2>5, <3>1 DEF Inv, Dedupe, KnowsItsLinks
  <2>6. QED
    BY <2>1, <2>2, <2>3, <2>4, <2>5
<1>4. QED
  BY <1>1, <1>2, <1>3, Invariance, PTL DEF Spec

-----------------------------------------------------------------------------
(***************************************************************************)
(* jira_sync.sync_back: an issue is noted before its row is stamped, and   *)
(* what is noted is alerted before the pass ends.  An alert that is lost   *)
(* and a process that stops are what it cannot make up for.                *)
(***************************************************************************)
NotedFirst == \A t \in Automation : pc[t] = "patch" /\ seen[t] => cur[t] \in newly[t]

LEMMA NotedQuiet ==
  ASSUME NotedFirst, NoSilentResolve, UNCHANGED <<newly, doneAlerts>>,
         \A k \in Keys : link'[k] = "resolved" => link[k] = "resolved",
         \A u \in Automation : pc'[u] = "patch" /\ seen'[u] =>
                                 pc[u] = "patch" /\ seen[u] /\ cur'[u] = cur[u]
  PROVE  NotedFirst' /\ NoSilentResolve'
BY DEF NotedFirst, NoSilentResolve

LEMMA NotedSync ==
  ASSUME Inv, NotedFirst, NoSilentResolve, NEW t \in Automation, SyncStep(t),
         ~Fault("alert"), ~Fault("body")
  PROVE  NotedFirst' /\ NoSilentResolve'
<1>t. t \in Threads
  BY DEF Threads
<1> USE DEF Inv
<1>1. CASE SyncRead(t)
  <2>1. UNCHANGED <<newly, doneAlerts, link, seen, cur>>
    BY <1>1 DEF SyncRead, feed
  <2>2. \A u \in Automation : pc'[u] = "patch" => pc[u] = "patch"
    BY <1>1, <1>t, PassPc DEF SyncRead, AfterSync, AfterFailedSync, Threads
  <2>3. QED
    BY <2>1, <2>2, NotedQuiet
<1>2. ASSUME NEW k \in Keys, SyncStatus(t, k) PROVE NotedFirst' /\ NoSilentResolve'
  <2>1. UNCHANGED <<doneAlerts, link>>
    BY <1>2 DEF SyncStatus, feed
  <2>2. CASE UNCHANGED <<pc, cur, seen, newly>>
    BY <2>1, <2>2, NotedQuiet
  <2>3. CASE /\ cur' = [cur EXCEPT ![t] = k]
             /\ seen' = [seen EXCEPT ![t] = status[k] = "done"]
             /\ newly' = [newly EXCEPT ![t] = NoteDone(@, k, status[k] = "done")]
             /\ Goto(t, "patch")
    <3>1. /\ cur'[t] = k
          /\ \A u \in Automation \ {t} : /\ pc'[u] = pc[u] /\ seen'[u] = seen[u]
                                         /\ cur'[u] = cur[u] /\ newly'[u] = newly[u]
      BY <2>3, <1>t DEF TypeOK, Goto, Threads
    <3>2. seen'[t] => status[k] = "done"
      BY <2>3, <1>t DEF TypeOK
    <3>3. newly'[t] = NoteDone(newly[t], k, status[k] = "done")
      BY <2>3, <1>t DEF TypeOK
    <3>4. newly[t] \subseteq newly'[t] /\ (status[k] = "done" => k \in newly'[t])
      BY <3>3 DEF NoteDone
    <3>5. NotedFirst'
      BY <3>1, <3>2, <3>4 DEF NotedFirst
    <3>6. NoSilentResolve'
      BY <2>1, <3>1, <3>4 DEF NoSilentResolve
    <3>7. QED
      BY <3>5, <3>6
  <2>4. QED
    BY <1>2, <2>2, <2>3 DEF SyncStatus, Fault
<1>3. CASE SyncPatch(t)
  <2>1. /\ UNCHANGED <<newly, doneAlerts>> /\ pc[t] = "patch" /\ cur[t] \in Keys
        /\ link \in [Keys -> {"none", "open", "resolved"}]
    BY <1>3, <1>t DEF SyncPatch, feed, Dedupe, VisitsLinked, TypeOK
  <2>2. \A u \in Automation : pc'[u] = "patch" => u # t
    BY <1>3, <1>t, PassPc DEF SyncPatch
  <2>3. \A u \in Automation \ {t} : /\ pc'[u] = pc[u] /\ seen'[u] = seen[u]
                                    /\ cur'[u] = cur[u]
    BY <1>3, <1>t DEF SyncPatch, TypeOK, Goto, Threads
  <2>4. NotedFirst'
    BY <2>1, <2>2, <2>3 DEF NotedFirst
  <2>5. CASE seen[t]
    <3>1. \A k \in Keys \ {cur[t]} : link'[k] = link[k]
      BY <1>3, <2>1 DEF SyncPatch
    <3>2. cur[t] \in newly[t]
      BY <2>1, <2>5 DEF NotedFirst
    <3>3. NoSilentResolve'
      BY <2>1, <3>1, <3>2 DEF NoSilentResolve
    <3>4. QED
      BY <2>4, <3>3
  <2>6. CASE ~seen[t]
    <3>1. link' = link
      BY <1>3, <2>1, <2>6 DEF SyncPatch, Patched
    <3>2. NoSilentResolve'
      BY <2>1, <3>1 DEF NoSilentResolve
    <3>3. QED
      BY <2>4, <3>2
  <2>7. QED
    BY <2>5, <2>6
<1>4. ASSUME NEW k \in Keys, SyncAlert(t, k) PROVE NotedFirst' /\ NoSilentResolve'
  <2>1. /\ pc[t] = "status" /\ UNCHANGED <<link, pc, cur, seen>>
        /\ newly' = [newly EXCEPT ![t] = @ \ {k}]
        /\ doneAlerts' = [doneAlerts EXCEPT ![k] = Saturate(@)]
    BY <1>4 DEF SyncAlert
  <2>2. /\ \A u \in Automation \ {t} : newly'[u] = newly[u]
        /\ \A j \in newly[t] : j = k \/ j \in newly'[t]
    BY <2>1, <1>t DEF TypeOK, Threads
  <2>3. /\ doneAlerts'[k] > 0
        /\ \A j \in Keys \ {k} : doneAlerts'[j] = doneAlerts[j]
    BY <2>1 DEF TypeOK, Saturate
  <2>4. NotedFirst'
    BY <2>1, <2>2 DEF NotedFirst
  <2>5. NoSilentResolve'
    BY <2>1, <2>2, <2>3 DEF NoSilentResolve
  <2>6. QED
    BY <2>4, <2>5
<1>5. CASE SyncEnd(t)
  <2>1. UNCHANGED <<newly, doneAlerts, link, seen, cur>>
    BY <1>5 DEF SyncEnd, feed, syncVars
  <2>2. \A u \in Automation : pc'[u] = "patch" => pc[u] = "patch"
    BY <1>5, <1>t, PassPc DEF SyncEnd, AfterSync, Threads
  <2>3. QED
    BY <2>1, <2>2, NotedQuiet
<1>6. QED
  BY <1>1, <1>2, <1>3, <1>4, <1>5 DEF SyncStep

LEMMA NotedStep ==
  ASSUME Inv, NotedFirst, NoSilentResolve, [Next]_vars,
         ~Fault("alert"), ~Fault("body"), ~Fault("crash")
  PROVE  NotedFirst' /\ NoSilentResolve'
<1> USE DEF Inv
<1>1. ASSUME NEW t \in Automation, StartPass(t) \/ Choose(t) \/ PushStep(t) \/ ReadinessStep(t)
      PROVE  NotedFirst' /\ NoSilentResolve'
  <2>1. UNCHANGED <<newly, doneAlerts, seen>>
    BY <1>1 DEF StartPass, Choose, PushStep, PushGaps, PushLinks, FileGap, RecordLink, PushEnd,
       ReadinessStep, ReadinessSkip, ReadinessAlert, ReadinessStamp, syncVars, feed
  <2>2. \A k \in Keys : link'[k] = "resolved" => link[k] = "resolved"
    <3>1. link' = link \/ link' = [link EXCEPT ![cur[t]] = "open"]
      BY <1>1 DEF StartPass, Choose, PushStep, PushGaps, PushLinks, FileGap, RecordLink, PushEnd,
         ReadinessStep, ReadinessSkip, ReadinessAlert, ReadinessStamp
    <3>2. QED
      BY <3>1 DEF TypeOK
  <2>3. pc[t] # "patch"
    BY <1>1 DEF StartPass, Choose, PushStep, PushGaps, PushLinks, FileGap, RecordLink, PushEnd,
       ReadinessStep, ReadinessSkip, ReadinessAlert, ReadinessStamp
  <2>4. UNCHANGED pc \/ \E label \in {"idle", "sync", "choose", "gaps", "links", "file", "record",
                                      "ready", "stamp"} : Goto(t, label)
    BY <1>1 DEF StartPass, Choose, PushStep, PushGaps, PushLinks, FileGap, RecordLink, PushEnd,
       ReadinessStep, ReadinessSkip, ReadinessAlert, ReadinessStamp, AfterPush
  <2>5. cur' = cur \/ \E key : cur' = [cur EXCEPT ![t] = key]
    BY <1>1 DEF StartPass, Choose, PushStep, PushGaps, PushLinks, FileGap, RecordLink, PushEnd,
       ReadinessStep, ReadinessSkip, ReadinessAlert, ReadinessStamp
  <2>6. \A u \in Automation : pc'[u] = "patch" => pc[u] = "patch" /\ cur'[u] = cur[u]
    <3>1. pc'[t] # "patch"
      BY <2>3, <2>4, PassPc
    <3>2. \A u \in Automation \ {t} : pc'[u] = pc[u] /\ cur'[u] = cur[u]
      BY <2>4, <2>5, PassPc DEF TypeOK, Threads
    <3>3. QED
      BY <3>1, <3>2
  <2>7. QED
    BY <2>1, <2>2, <2>6, NotedQuiet
<1>2. ASSUME NEW u \in Users, UserStep(u) PROVE NotedFirst' /\ NoSilentResolve'
  <2>1. u \in Threads /\ u \notin Automation
    BY ThreadsAssumption DEF Threads
  <2>2. UNCHANGED <<newly, doneAlerts, seen>>
    BY <1>2 DEF UserStep, PushGap, InsertLink, syncVars, feed
  <2>3. \A k \in Keys : link'[k] = "resolved" => link[k] = "resolved"
    <3>1. link' = link \/ link' = [link EXCEPT ![cur[u]] = "open"]
      BY <1>2 DEF UserStep, PushGap, InsertLink
    <3>2. QED
      BY <3>1 DEF TypeOK
  <2>4. \A t \in Automation : pc'[t] = pc[t] /\ cur'[t] = cur[t]
    BY <1>2, <2>1 DEF UserStep, PushGap, InsertLink, Goto, TypeOK, Threads
  <2>5. QED
    BY <2>2, <2>3, <2>4, NotedQuiet
<1>3. ASSUME Surroundings \/ UNCHANGED vars PROVE NotedFirst' /\ NoSilentResolve'
  <2>1. UNCHANGED <<link, newly, seen, doneAlerts, pc, cur>>
    BY <1>3 DEF Surroundings, EvidenceChanges, IssueMoves, PutConfig, IntervalElapses, Crash,
       vars, syncVars, feed
  <2>2. QED
    BY <2>1, NotedQuiet
<1>4. QED
  BY <1>1, <1>2, <1>3, NotedSync DEF Next, PassStep

(***************************************************************************)
(* jira_sync.sync_back: a link is not resolved without an alert given or   *)
(* about to be given, however many passes overlap, whichever status calls  *)
(* are refused, and whichever stamps and reads of the database fail.  What *)
(* is assumed away is each of the three things that lose an alert: a feed  *)
(* that does not take it, an answer of Jira's that does not parse, and the *)
(* end of the process.                                                     *)
(***************************************************************************)
THEOREM NoSilentResolveAlways ==
  ASSUME Faults \cap {"alert", "body", "crash"} = {}
  PROVE  Spec => []NoSilentResolve
<1>1. ~Fault("alert") /\ ~Fault("body") /\ ~Fault("crash")
  BY DEF Fault
<1>2. Init => NotedFirst /\ NoSilentResolve
  BY DEF Init, NotedFirst, NoSilentResolve, Threads
<1>3. Inv /\ NotedFirst /\ NoSilentResolve /\ [Next]_vars => NotedFirst' /\ NoSilentResolve'
  BY <1>1, NotedStep
<1>4. QED
  BY <1>2, <1>3, Invariance, PTL DEF Spec

-----------------------------------------------------------------------------
(***************************************************************************)
(* jira_sync.auto_push_gaps: a link that was recorded is announced when    *)
(* the pass ends, unless it is cut off before: by an answer of Jira that   *)
(* does not parse, a lost alert, or the end of the process.                *)
(***************************************************************************)
LEMMA PushedQuiet ==
  ASSUME NoSilentPush, \A k \in Keys : (AutoFiled(k) /\ Linked(k))' => AutoFiled(k) /\ Linked(k),
         announced \subseteq announced',
         \A t \in Automation : pushed[t] \subseteq pushed'[t]
  PROVE  NoSilentPush'
BY DEF NoSilentPush

LEMMA NoNewLink ==
  ASSUME UNCHANGED <<control, by, link>>
  PROVE  \A k \in Keys : (AutoFiled(k) /\ Linked(k))' => AutoFiled(k) /\ Linked(k)
BY DEF AutoFiled, Filed, Linked

\* A new issue is not linked yet.
LEMMA NewIssueIsQuiet ==
  ASSUME Inv, NEW t \in Threads, NEW c \in Controls, NEW j \in Keys, Create(t, c, j), link' = link
  PROVE  \A k \in Keys : (AutoFiled(k) /\ Linked(k))' => AutoFiled(k) /\ Linked(k)
<1>1. ~Linked(j)
  BY DEF Inv, Dedupe, LinkedWereFiled, Create
<1>2. \A k \in Keys \ {j} : control'[k] = control[k] /\ by'[k] = by[k]
  BY DEF Create, Inv, TypeOK
<1>3. QED
  BY <1>1, <1>2 DEF AutoFiled, Filed, Linked

LEMMA PushedStep ==
  ASSUME Inv, NoSilentPush, [Next]_vars, ~Fault("alert"), ~Fault("body"), ~Fault("crash")
  PROVE  NoSilentPush'
<1> USE DEF Inv
<1>0. ASSUME UNCHANGED <<control, by, link, announced, pushed>> PROVE NoSilentPush'
  BY <1>0, NoNewLink, PushedQuiet
<1>1. ASSUME NEW t \in Automation,
             StartPass(t) \/ SyncStep(t) \/ Choose(t) \/ PushGaps(t) \/ PushLinks(t)
               \/ ReadinessStep(t)
      PROVE  NoSilentPush'
  <2>1. CASE SyncPatch(t)
    <3>1. cur[t] \in Keys /\ Linked(cur[t])
      BY <2>1 DEF SyncPatch, Dedupe, VisitsLinked, Threads
    <3>2. /\ UNCHANGED <<control, by, announced, pushed>>
          /\ \A k \in Keys \ {cur[t]} : link'[k] = link[k]
      BY <2>1, <3>1 DEF SyncPatch, jira, feed, pushVars, TypeOK
    <3>3. \A k \in Keys : (AutoFiled(k) /\ Linked(k))' => AutoFiled(k) /\ Linked(k)
      BY <3>1, <3>2 DEF AutoFiled, Filed, Linked
    <3>4. QED
      BY <3>2, <3>3, PushedQuiet
  <2>2. CASE ~SyncPatch(t)
    <3>1. UNCHANGED <<control, by, link, announced, pushed>>
      BY <1>1, <2>2 DEF StartPass, SyncStep, SyncRead, SyncStatus, SyncAlert, SyncEnd, Choose,
         PushGaps, PushLinks, ReadinessStep, ReadinessSkip, ReadinessAlert, ReadinessStamp,
         jira, feed, pushVars
    <3>2. QED
      BY <1>0, <3>1
  <2>3. QED
    BY <2>1, <2>2
<1>2. ASSUME NEW t \in Automation, NEW c \in Controls, NEW k \in Keys, FileGap(t, c, k)
      PROVE  NoSilentPush'
  <2>1. t \in Threads /\ link' = link /\ announced' = announced /\ pushed' = pushed
    BY <1>2 DEF FileGap, feed, pushVars, Threads
  <2>2. Create(t, c, k) \/ UNCHANGED <<control, by>>
    BY <1>2 DEF FileGap, jira
  <2>3. \A j \in Keys : (AutoFiled(j) /\ Linked(j))' => AutoFiled(j) /\ Linked(j)
    BY <2>1, <2>2, NewIssueIsQuiet, NoNewLink
  <2>4. QED
    BY <2>1, <2>3, PushedQuiet
<1>3. ASSUME NEW t \in Automation, RecordLink(t) PROVE NoSilentPush'
  <2>1. /\ t \in Threads /\ cur[t] \in Keys
        /\ UNCHANGED <<control, by, announced>>
        /\ pushed' = [pushed EXCEPT ![t] = @ \cup {cur[t]}]
    BY <1>3 DEF RecordLink, Dedupe, HoldsOwnIssue, Threads, jira, feed
  <2>2. \A u \in Automation : pushed[u] \subseteq pushed'[u]
    BY <2>1 DEF TypeOK, Threads
  <2>3. cur[t] \in pushed'[t]
    BY <2>1 DEF TypeOK
  <2>4. \A k \in Keys \ {cur[t]} : link'[k] = link[k]
    BY <1>3, <2>1 DEF RecordLink, TypeOK
  <2>5. QED
    BY <2>1, <2>2, <2>3, <2>4 DEF NoSilentPush, AutoFiled, Filed, Linked
<1>4. ASSUME NEW t \in Automation, PushEnd(t) PROVE NoSilentPush'
  <2>1. /\ announced' = announced \cup pushed[t] /\ UNCHANGED <<control, by, link>>
        /\ \A u \in Automation \ {t} : pushed'[u] = pushed[u]
    BY <1>4 DEF PushEnd, jira, TypeOK, Threads
  <2>2. \A k \in Keys : (AutoFiled(k) /\ Linked(k))' => AutoFiled(k) /\ Linked(k)
    BY <2>1, NoNewLink
  <2>3. QED
    BY <2>1, <2>2 DEF NoSilentPush
<1>5. ASSUME NEW u \in Users, UserStep(u) PROVE NoSilentPush'
  <2>1. u \in Threads /\ u \notin Automation
    BY ThreadsAssumption DEF Threads
  <2>2. announced' = announced /\ pushed' = pushed
    BY <1>5 DEF UserStep, PushGap, InsertLink, feed, pushVars
  <2>3. CASE InsertLink(u)
    <3>1. cur[u] \in Keys /\ by[cur[u]] = u /\ UNCHANGED <<control, by>>
      BY <2>1, <2>3 DEF InsertLink, Dedupe, HoldsOwnIssue, jira
    <3>2. \A k \in Keys \ {cur[u]} : link'[k] = link[k]
      BY <2>3, <3>1 DEF InsertLink, TypeOK
    <3>3. \A k \in Keys : (AutoFiled(k) /\ Linked(k))' => AutoFiled(k) /\ Linked(k)
      BY <2>1, <3>1, <3>2 DEF AutoFiled, Filed, Linked
    <3>4. QED
      BY <2>2, <3>3, PushedQuiet
  <2>4. ASSUME NEW c \in Controls, NEW k \in Keys, PushGap(u, c, k) PROVE NoSilentPush'
    <3>1. Create(u, c, k) /\ link' = link
      BY <2>4 DEF PushGap
    <3>2. QED
      BY <2>1, <2>2, <3>1, NewIssueIsQuiet, PushedQuiet
  <2>5. QED
    BY <1>5, <2>3, <2>4 DEF UserStep
<1>6. ASSUME Surroundings \/ UNCHANGED vars PROVE NoSilentPush'
  <2>1. UNCHANGED <<control, by, link, announced, pushed>>
    BY <1>6 DEF Surroundings, EvidenceChanges, IssueMoves, PutConfig, IntervalElapses, Crash,
       vars, jira, feed, pushVars
  <2>2. QED
    BY <1>0, <2>1
<1>7. QED
  BY <1>1, <1>2, <1>3, <1>4, <1>5, <1>6 DEF Next, PassStep, PushStep

(***************************************************************************)
(* jira_sync.auto_push_gaps: while alerts get through, Jira's answers can  *)
(* be read and the process goes on, every link that the automation         *)
(* recorded is announced or about to be.                                   *)
(***************************************************************************)
THEOREM NoSilentPushAlways ==
  ASSUME Faults \cap {"alert", "body", "crash"} = {}
  PROVE  Spec => []NoSilentPush
<1>1. ~Fault("alert") /\ ~Fault("body") /\ ~Fault("crash")
  BY DEF Fault
<1>2. Init => NoSilentPush
  BY DEF Init, NoSilentPush, AutoFiled, Filed
<1>3. Inv /\ NoSilentPush /\ [Next]_vars => NoSilentPush'
  BY <1>1, PushedStep
<1>4. QED
  BY <1>2, <1>3, Invariance, PTL DEF Spec

-----------------------------------------------------------------------------
(***************************************************************************)
(* sync_back alerts an issue once: with a single thread and no write of    *)
(* the database failing, the row of what it alerted is resolved, and it    *)
(* visits open rows only, each once.  Two passes that overlap can read the *)
(* same open row, and alert it twice.                                      *)
(***************************************************************************)
DoneOnce ==
  /\ \A k \in Keys : doneAlerts[k] <= 1 /\ (doneAlerts[k] > 0 => link[k] = "resolved")
  /\ \A t \in Automation :
       /\ \A k \in newly[t] :
            /\ doneAlerts[k] = 0
            /\ link[k] = "resolved" \/ (pc[t] = "patch" /\ cur[t] = k /\ seen[t])
       /\ \A k \in rows[t] : link[k] = "open"
       /\ pc[t] = "patch" => link[cur[t]] = "open" /\ cur[t] \notin rows[t]

LEMMA DoneOnceQuiet ==
  ASSUME Inv, DoneOnce, UNCHANGED <<doneAlerts, newly, rows, seen>>,
         \A k \in Keys : Linked(k) => link'[k] = link[k],
         \A t \in Automation : /\ pc'[t] = "patch" <=> pc[t] = "patch"
                               /\ pc[t] = "patch" => cur'[t] = cur[t]
  PROVE  DoneOnce'
<1>1. \A k \in Keys : link[k] \in {"open", "resolved"} => link'[k] = link[k]
  BY DEF Linked
<1>2. \A t \in Automation : /\ newly[t] \subseteq Keys /\ rows[t] \subseteq Keys
                            /\ pc[t] = "patch" => cur[t] \in Keys
  BY DEF Inv, Dedupe, VisitsLinked, TypeOK, Threads
<1>3. QED
  BY <1>1, <1>2 DEF DoneOnce

LEMMA DoneOnceSync ==
  ASSUME Inv, DoneOnce, NEW t, Automation = {t}, SyncStep(t), ~Fault("db")
  PROVE  DoneOnce'
<1>t. /\ t \in Threads /\ t \in Automation
      /\ newly[t] \subseteq Keys /\ rows[t] \subseteq Keys
      /\ pc[t] = "patch" => cur[t] \in Keys
  BY DEF Inv, Dedupe, VisitsLinked, TypeOK, Threads
<1> USE DEF Inv
<1>1. CASE SyncRead(t)
  <2>1. /\ UNCHANGED <<doneAlerts, link, newly, seen>>
        /\ rows'[t] = rows[t] \/ rows'[t] = OpenRows
        /\ pc[t] = "sync"
    BY <1>1, <1>t DEF SyncRead, feed, TypeOK
  <2>2. pc'[t] # "patch"
    BY <1>1, <1>t, PassPc DEF SyncRead, AfterSync, AfterFailedSync
  <2>3. \A k \in rows'[t] : link[k] = "open"
    BY <2>1, <1>t DEF DoneOnce, OpenRows
  <2>4. QED
    BY <1>t, <2>1, <2>2, <2>3 DEF DoneOnce
<1>2. ASSUME NEW k \in Keys, SyncStatus(t, k) PROVE DoneOnce'
  <2>1. /\ UNCHANGED <<doneAlerts, link>> /\ pc[t] = "status" /\ k \in rows[t]
        /\ rows'[t] = rows[t] \ {k} \/ rows'[t] = {}
    BY <1>2, <1>t DEF SyncStatus, feed, TypeOK
  <2>2. CASE UNCHANGED <<pc, cur, seen, newly>>
    BY <1>t, <2>1, <2>2 DEF DoneOnce
  <2>3. CASE /\ rows' = [rows EXCEPT ![t] = @ \ {k}]
             /\ cur' = [cur EXCEPT ![t] = k]
             /\ seen' = [seen EXCEPT ![t] = status[k] = "done"]
             /\ newly' = [newly EXCEPT ![t] = NoteDone(@, k, status[k] = "done")]
             /\ Goto(t, "patch")
    <3>1. cur'[t] = k /\ pc'[t] = "patch" /\ rows'[t] = rows[t] \ {k}
      BY <2>3, <1>t, PassPc DEF TypeOK
    <3>2. newly'[t] = NoteDone(newly[t], k, status[k] = "done")
      BY <2>3, <1>t DEF TypeOK
    <3>3. seen'[t] <=> status[k] = "done"
      BY <2>3, <1>t DEF TypeOK
    <3>4. \A j \in newly'[t] : j \in newly[t] \/ (j = k /\ seen'[t])
      BY <3>2, <3>3 DEF NoteDone
    <3>5. link[k] = "open" /\ doneAlerts[k] = 0
      BY <1>t, <2>1 DEF DoneOnce, TypeOK
    <3>6. \A j \in newly[t] : link[j] = "resolved" /\ doneAlerts[j] = 0
      BY <1>t, <2>1 DEF DoneOnce
    <3>7. QED
      BY <1>t, <2>1, <3>1, <3>4, <3>5, <3>6 DEF DoneOnce
  <2>4. CASE /\ rows' = [rows EXCEPT ![t] = {}]
             /\ newly' = [newly EXCEPT ![t] = {}]
             /\ Goto(t, AfterFailedSync(t))
    <3>1. rows'[t] = {} /\ newly'[t] = {} /\ pc'[t] # "patch"
      BY <2>4, <1>t, PassPc DEF TypeOK, AfterFailedSync
    <3>2. QED
      BY <1>t, <2>1, <3>1 DEF DoneOnce
  <2>5. QED
    BY <1>2, <2>2, <2>3, <2>4 DEF SyncStatus
<1>3. CASE SyncPatch(t)
  <2>1. /\ UNCHANGED <<doneAlerts, newly, rows>> /\ pc[t] = "patch"
        /\ link' = [link EXCEPT ![cur[t]] = Patched(@, seen[t])]
    BY <1>3 DEF SyncPatch, feed, Fault
  <2>2. pc'[t] # "patch"
    BY <1>3, <1>t, PassPc DEF SyncPatch
  <2>3. /\ \A k \in Keys \ {cur[t]} : link'[k] = link[k]
        /\ link'[cur[t]] = Patched(link[cur[t]], seen[t])
    BY <1>t, <2>1 DEF TypeOK
  <2>4. link[cur[t]] = "open" /\ cur[t] \notin rows[t]
    BY <1>t, <2>1 DEF DoneOnce
  <2>5. \A k \in newly[t] : link'[k] = "resolved"
    <3> SUFFICES ASSUME NEW k \in newly[t] PROVE link'[k] = "resolved"
      OBVIOUS
    <3>1. k \in Keys /\ (link[k] = "resolved" \/ (cur[t] = k /\ seen[t]))
      BY <1>t DEF DoneOnce
    <3>2. CASE cur[t] = k /\ seen[t]
      BY <2>3, <3>2 DEF Patched
    <3>3. CASE link[k] = "resolved"
      BY <2>3, <2>4, <3>1, <3>3
    <3>4. QED
      BY <3>1, <3>2, <3>3
  <2>6. \A k \in Keys : doneAlerts[k] <= 1 /\ (doneAlerts[k] > 0 => link'[k] = "resolved")
    BY <2>3, <2>4 DEF DoneOnce
  <2>7. \A k \in rows[t] : link'[k] = "open"
    BY <1>t, <2>3, <2>4 DEF DoneOnce
  <2>8. QED
    BY <1>t, <2>1, <2>2, <2>5, <2>6, <2>7 DEF DoneOnce
<1>4. ASSUME NEW k \in Keys, SyncAlert(t, k) PROVE DoneOnce'
  <2>1. /\ pc[t] = "status" /\ k \in newly[t] /\ UNCHANGED <<link, pc, cur, seen, rows>>
        /\ newly'[t] = newly[t] \ {k}
    BY <1>4, <1>t DEF SyncAlert, TypeOK
  <2>2. link[k] = "resolved" /\ doneAlerts[k] = 0
    BY <1>t, <2>1 DEF DoneOnce
  <2>3. /\ \A j \in Keys \ {k} : doneAlerts'[j] = doneAlerts[j]
        /\ doneAlerts'[k] \in {0, 1}
    BY <1>4, <2>2 DEF SyncAlert, Saturate, TypeOK
  <2>4. \A j \in Keys : doneAlerts'[j] <= 1 /\ (doneAlerts'[j] > 0 => link[j] = "resolved")
    BY <2>2, <2>3 DEF DoneOnce
  <2>5. QED
    BY <1>t, <2>1, <2>3, <2>4 DEF DoneOnce
<1>5. CASE SyncEnd(t)
  <2>1. UNCHANGED <<doneAlerts, newly, rows, seen, link, cur>> /\ pc[t] # "patch"
    BY <1>5 DEF SyncEnd, feed, syncVars
  <2>2. pc'[t] # "patch"
    BY <1>5, <1>t, PassPc DEF SyncEnd, AfterSync
  <2>3. QED
    BY <2>1, <2>2, DoneOnceQuiet
<1>6. QED
  BY <1>1, <1>2, <1>3, <1>4, <1>5 DEF SyncStep

LEMMA DoneOnceStep ==
  ASSUME Inv, DoneOnce, NEW t, Automation = {t}, [Next]_vars, ~Fault("db"), ~Fault("crash")
  PROVE  DoneOnce'
<1>t. t \in Threads /\ t \in Automation
  BY DEF Threads
<1> USE DEF Inv
<1>1. ASSUME StartPass(t) \/ Choose(t) \/ PushStep(t) \/ ReadinessStep(t)
      PROVE  DoneOnce'
  <2>1. UNCHANGED <<doneAlerts, newly, rows, seen>>
    BY <1>1 DEF StartPass, Choose, PushStep, PushGaps, PushLinks, FileGap, RecordLink, PushEnd,
       ReadinessStep, ReadinessSkip, ReadinessAlert, ReadinessStamp, syncVars, feed
  <2>2. pc[t] # "patch"
    BY <1>1 DEF StartPass, Choose, PushStep, PushGaps, PushLinks, FileGap, RecordLink, PushEnd,
       ReadinessStep, ReadinessSkip, ReadinessAlert, ReadinessStamp
  <2>3. UNCHANGED pc \/ \E label \in {"idle", "sync", "choose", "gaps", "links", "file", "record",
                                      "ready", "stamp"} : Goto(t, label)
    BY <1>1 DEF StartPass, Choose, PushStep, PushGaps, PushLinks, FileGap, RecordLink, PushEnd,
       ReadinessStep, ReadinessSkip, ReadinessAlert, ReadinessStamp, AfterPush
  <2>4. pc'[t] # "patch"
    BY <2>2, <2>3, <1>t, PassPc
  <2>5. \A k \in Keys : Linked(k) => link'[k] = link[k]
    <3>1. link' = link \/ RecordLink(t)
      BY <1>1 DEF StartPass, Choose, PushStep, PushGaps, PushLinks, FileGap, PushEnd,
         ReadinessStep, ReadinessSkip, ReadinessAlert, ReadinessStamp
    <3>2. CASE RecordLink(t)
      <4>1. cur[t] \in Keys /\ ~Linked(cur[t])
        BY <3>2, <1>t DEF RecordLink, Dedupe, HoldsOwnIssue
      <4>2. link' = link \/ link' = [link EXCEPT ![cur[t]] = "open"]
        BY <3>2 DEF RecordLink
      <4>3. QED
        BY <4>1, <4>2 DEF TypeOK
    <3>3. QED
      BY <3>1, <3>2
  <2>6. QED
    BY <2>1, <2>2, <2>4, <2>5, DoneOnceQuiet
<1>2. ASSUME NEW u \in Users, UserStep(u) PROVE DoneOnce'
  <2>1. u \in Threads /\ u \notin Automation
    BY ThreadsAssumption DEF Threads
  <2>2. UNCHANGED <<doneAlerts, newly, rows, seen>>
    BY <1>2 DEF UserStep, PushGap, InsertLink, syncVars, feed
  <2>3. \A k \in Keys : Linked(k) => link'[k] = link[k]
    <3>1. CASE InsertLink(u)
      <4>1. cur[u] \in Keys /\ ~Linked(cur[u])
        BY <3>1, <2>1 DEF InsertLink, Dedupe, HoldsOwnIssue
      <4>2. link' = link \/ link' = [link EXCEPT ![cur[u]] = "open"]
        BY <3>1 DEF InsertLink
      <4>3. QED
        BY <4>1, <4>2 DEF TypeOK
    <3>2. QED
      BY <1>2, <3>1 DEF UserStep, PushGap
  <2>4. \A s \in Automation : pc'[s] = pc[s] /\ cur'[s] = cur[s]
    BY <1>2, <2>1 DEF UserStep, PushGap, InsertLink, Goto, TypeOK, Threads
  <2>5. QED
    BY <2>2, <2>3, <2>4, DoneOnceQuiet
<1>3. ASSUME Surroundings \/ UNCHANGED vars PROVE DoneOnce'
  <2>1. UNCHANGED <<link, newly, rows, seen, doneAlerts, pc, cur>>
    BY <1>3 DEF Surroundings, EvidenceChanges, IssueMoves, PutConfig, IntervalElapses, Crash,
       vars, syncVars, feed
  <2>2. QED
    BY <2>1, DoneOnceQuiet
<1>4. QED
  BY <1>1, <1>2, <1>3, DoneOnceSync DEF Next, PassStep

(***************************************************************************)
(* run_readiness_check alerts, then stamps: the next pass of the thread    *)
(* finds the interval running.                                             *)
(***************************************************************************)
SnapshotOnce ==
  /\ snapshots <= 1
  /\ snapshots > 0 => ~due \/ \E t \in Automation : pc[t] = "stamp"

LEMMA SnapshotOnceStep ==
  ASSUME Inv, SnapshotOnce, NEW t, Automation = {t}, [Next]_vars, ~Fault("db"), ~Fault("crash")
  PROVE  SnapshotOnce'
<1>t. t \in Threads /\ t \in Automation
  BY DEF Threads
<1> USE DEF Inv
<1>0. ASSUME UNCHANGED <<snapshots, due>>, pc[t] # "stamp" \/ pc'[t] = "stamp" PROVE SnapshotOnce'
  BY <1>0, <1>t DEF SnapshotOnce
<1>1. ASSUME StartPass(t) \/ SyncStep(t) \/ Choose(t) \/ PushStep(t) PROVE SnapshotOnce'
  BY <1>0, <1>1 DEF StartPass, SyncStep, SyncRead, SyncStatus, SyncAlert, SyncPatch, SyncEnd,
     Choose, PushStep, PushGaps, PushLinks, FileGap, RecordLink, PushEnd, feed
<1>2. CASE ReadinessSkip(t)
  BY <1>0, <1>2 DEF ReadinessSkip, feed
<1>3. CASE ReadinessAlert(t)
  <2>1. pc[t] = "ready" /\ due /\ due' = due
    BY <1>3 DEF ReadinessAlert
  <2>2. snapshots = 0
    BY <2>1, <1>t DEF SnapshotOnce, TypeOK
  <2>3. snapshots' \in {0, 1}
    BY <1>3, <2>2 DEF ReadinessAlert, Saturate
  <2>4. pc'[t] = "stamp"
    BY <1>3, <1>t, PassPc DEF ReadinessAlert
  <2>5. QED
    BY <1>t, <2>3, <2>4 DEF SnapshotOnce
<1>4. CASE ReadinessStamp(t)
  <2>1. due' = FALSE /\ snapshots' = snapshots
    BY <1>4 DEF ReadinessStamp, feed, Fault
  <2>2. QED
    BY <2>1 DEF SnapshotOnce
<1>5. ASSUME NEW u \in Users, UserStep(u) PROVE SnapshotOnce'
  <2>1. u \in Threads /\ u \notin Automation
    BY ThreadsAssumption DEF Threads
  <2>2. UNCHANGED <<snapshots, due>>
    BY <1>5 DEF UserStep, PushGap, InsertLink, feed
  <2>3. pc'[t] = pc[t]
    BY <1>5, <1>t, <2>1 DEF UserStep, PushGap, InsertLink, Goto, TypeOK
  <2>4. QED
    BY <1>0, <2>2, <2>3
<1>6. CASE IntervalElapses
  <2>1. snapshots' = 0
    BY <1>6 DEF IntervalElapses
  <2>2. QED
    BY <2>1 DEF SnapshotOnce
<1>7. ASSUME Surroundings \/ UNCHANGED vars, ~IntervalElapses PROVE SnapshotOnce'
  BY <1>0, <1>7 DEF Surroundings, EvidenceChanges, IssueMoves, PutConfig, Crash, vars, feed
<1>8. QED
  BY <1>1, <1>2, <1>3, <1>4, <1>5, <1>6, <1>7 DEF Next, PassStep, ReadinessStep

(***************************************************************************)
(* While one automation thread runs, the database writes and the process   *)
(* goes on, no alert is given twice, whatever Jira and the feed do.        *)
(***************************************************************************)
THEOREM AlertedOnceAlways ==
  ASSUME NEW t, Automation = {t}, Faults \cap {"db", "crash"} = {}
  PROVE  Spec => []AlertedOnce
<1>1. ~Fault("db") /\ ~Fault("crash")
  BY DEF Fault
<1>2. Init => DoneOnce /\ SnapshotOnce
  BY DEF Init, DoneOnce, SnapshotOnce, Threads
<1>3. Inv /\ DoneOnce /\ SnapshotOnce /\ [Next]_vars => DoneOnce' /\ SnapshotOnce'
  BY <1>1, DoneOnceStep, SnapshotOnceStep
<1>4. DoneOnce /\ SnapshotOnce => AlertedOnce
  BY DEF DoneOnce, SnapshotOnce, AlertedOnce
<1>5. QED
  BY <1>2, <1>3, <1>4, Invariance, PTL DEF Spec
=============================================================================
