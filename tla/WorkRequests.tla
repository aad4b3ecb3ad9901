----------------------------- MODULE WorkRequests -----------------------------
(***************************************************************************)
(* The work requests of one tenant (backend/api/pm.py): analysts, and      *)
(* assistants through MCP, file them, they are assigned, worked on and     *)
(* completed.  The handlers are coroutines that await nothing: those of a  *)
(* loop take turns, but during a deploy two loops overlap.  A handler      *)
(* reads the row, writes it, and then tells whom it concerns: the person   *)
(* newly assigned, and the creator of what is completed.                   *)
(***************************************************************************)
EXTENDS FiniteSets

CONSTANTS
  RequestIds,  \* bound: ids requests get
  People,      \* who may be assigned
  Servers,     \* event loops that serve the API
  Nobody,      \* no assignee, no request, no status
  Gone,        \* a request that was deleted
  WorkFaults

WorkFaultKinds ==
  { "mail",      \* a mail is not sent, which is logged
    "database",  \* a call of the database fails, which ends the handler
    "stop" }     \* the process stops

\* _TRANSITIONS
Transitions == [open |-> {"in_review", "complete"},
                in_review |-> {"open", "complete"},
                complete |-> {"in_review"}]

\* What matters of a row: its status, assignee, and whether it has a creator.
RequestRows == [status : DOMAIN Transitions, assignee : People \cup {Nobody}, creator : BOOLEAN]

ASSUME WorkAssumption ==
  /\ {Nobody, Gone} \cap (People \cup RequestIds \cup RequestRows) = {} /\ Nobody # Gone
  /\ IsFiniteSet(Servers)
  /\ WorkFaults \subseteq WorkFaultKinds

VARIABLES
  requests,  \* requests[r]: its row, Gone, or Nobody when it was never filed
  doing,     \* doing[s]: what the handler of server s is about to do
  toldDone,  \* requests of which the creator was told that they are complete,
             \* since their status was written
  toldWork,  \* toldWork[r]: who was told to work on r, since it was assigned
  untold,    \* history: <<r, "done">> or <<r, "work">> for a mail that was lost
  disputed   \* history: requests that two handlers had at a time

workVars == <<requests, doing, toldDone, toldWork, untold, disputed>>

WorkFault(kind) == kind \in WorkFaults
NoWork == [step |-> "idle", request |-> Nobody, status |-> Nobody,
           assigns |-> FALSE, assignee |-> Nobody, creator |-> FALSE]
Do(s, work) == doing' = [doing EXCEPT ![s] = work]
Rest(s) == Do(s, NoWork)
Existing == {r \in RequestIds : requests[r] \notin {Nobody, Gone}}

WorkInit ==
  /\ requests = [r \in RequestIds |-> Nobody]
  /\ doing = [s \in Servers |-> NoWork]
  /\ toldDone = {} /\ untold = {} /\ disputed = {}
  /\ toldWork = [r \in RequestIds |-> {}]
-----------------------------------------------------------------------------
(* create_request *)

CreateRequest(s, r, assignee) ==
  /\ doing[s].step = "idle" /\ requests[r] = Nobody
  /\ requests' = [requests EXCEPT ![r] =
       [status |-> "open", assignee |-> assignee, creator |-> TRUE]]
  /\ IF assignee = Nobody THEN UNCHANGED doing
     ELSE Do(s, [NoWork EXCEPT !.step = "tell", !.request = r,
                               !.assigns = TRUE, !.assignee = assignee])
  /\ UNCHANGED <<toldDone, toldWork, untold, disputed>>

\* assign_to_reviewer, which knows neither a creator nor an assignee.
AssignToReviewer(s, r) ==
  /\ doing[s].step = "idle" /\ requests[r] = Nobody
  /\ requests' = [requests EXCEPT ![r] =
       [status |-> "open", assignee |-> Nobody, creator |-> FALSE]]
  /\ UNCHANGED <<doing, toldDone, toldWork, untold, disputed>>
-----------------------------------------------------------------------------
(* update_request *)

\* The handler has read the row of r.
Take(s, r, work) ==
  /\ doing[s].step = "idle" /\ r \in Existing
  /\ Do(s, [work EXCEPT !.request = r, !.creator = requests[r].creator])
  /\ disputed' = disputed \cup {q \in {r} : \E t \in Servers : doing[t].request = q}
  /\ UNCHANGED <<requests, toldDone, toldWork, untold>>

\* A status that is there already is written again; an assignee who is, is not.
MayBecomeAny(r, status) == status \in {Nobody} \cup DOMAIN Transitions
MayBecome(r, status) ==
  status \in {Nobody, requests[r].status} \cup Transitions[requests[r].status]

BeginUpdate(s, r, status, assignee) ==
  LET assigns == assignee # requests[r].assignee IN
  /\ r \in Existing /\ MayBecome(r, status)
  /\ Take(s, r, [NoWork EXCEPT !.step = "update", !.status = status, !.assigns = assigns,
                               !.assignee = IF assigns THEN assignee ELSE Nobody])

UpdatedRow(row, work) ==
  [row EXCEPT !.status = IF work.status = Nobody THEN @ ELSE work.status,
              !.assignee = IF work.assigns THEN work.assignee ELSE @]

Completes(work) == work.status = "complete" /\ work.creator
Assigns(work) == work.assigns /\ work.assignee # Nobody

TellsOne(work) ==
  IF Completes(work) THEN {"done"} ELSE IF Assigns(work) THEN {"work"} ELSE {}

Tells(work) ==
  {about \in {"done", "work"} : IF about = "done" THEN Completes(work) ELSE Assigns(work)}

\* When the row was deleted in between, no row is updated, and mails are sent
\* all the same.
Update(s) ==
  LET work == doing[s] r == doing[s].request IN
  /\ work.step = "update"
  /\ \/ /\ requests' = IF r \in Existing
                       THEN [requests EXCEPT ![r] = UpdatedRow(@, work)] ELSE requests
        /\ toldDone' = IF work.status = Nobody THEN toldDone ELSE toldDone \ {r}
        /\ toldWork' = IF work.assigns THEN [toldWork EXCEPT ![r] = {}] ELSE toldWork
        /\ IF Tells(work) # {} THEN Do(s, [work EXCEPT !.step = "tell"]) ELSE Rest(s)
     \/ WorkFault("database") /\ Rest(s) /\ UNCHANGED <<requests, toldDone, toldWork>>
  /\ UNCHANGED <<untold, disputed>>

\* _notify_creator_complete and _notify_assignee: a mail each.
Tell(s) ==
  LET work == doing[s] r == doing[s].request IN
  /\ work.step = "tell" /\ Rest(s)
  /\ \E sent \in SUBSET Tells(work) :
       /\ sent # Tells(work) => WorkFault("mail")
       /\ toldDone' = IF "done" \in sent THEN toldDone \cup {r} ELSE toldDone
       /\ toldWork' = IF "work" \in sent
                      THEN [toldWork EXCEPT ![r] = @ \cup {work.assignee}] ELSE toldWork
       /\ untold' = untold \cup {<<r, about>> : about \in Tells(work) \ sent}
  /\ UNCHANGED <<requests, disputed>>
-----------------------------------------------------------------------------
(* delete_request *)

BeginDelete(s, r) == Take(s, r, [NoWork EXCEPT !.step = "delete"])

Delete(s) ==
  /\ doing[s].step = "delete" /\ Rest(s)
  /\ \/ requests' = [requests EXCEPT ![doing[s].request] = Gone]
     \/ WorkFault("database") /\ UNCHANGED requests
  /\ UNCHANGED <<toldDone, toldWork, untold, disputed>>

StopServer(s) ==
  /\ WorkFault("stop") /\ doing[s].step # "idle" /\ Rest(s)
  /\ untold' = IF doing[s].step # "tell" THEN untold
               ELSE untold \cup {<<doing[s].request, about>> : about \in Tells(doing[s])}
  /\ UNCHANGED <<requests, toldDone, toldWork, disputed>>

WorkNext ==
  \E s \in Servers :
    \/ \E r \in RequestIds :
         \/ \E assignee \in People \cup {Nobody} : CreateRequest(s, r, assignee)
         \/ AssignToReviewer(s, r)
         \/ \E assignee \in People \cup {Nobody}, status \in {Nobody} \cup DOMAIN Transitions :
              BeginUpdate(s, r, status, assignee)
         \/ BeginDelete(s, r)
    \/ Update(s) \/ Tell(s) \/ Delete(s) \/ StopServer(s)

WorkSpec == WorkInit /\ [][WorkNext]_workVars
-----------------------------------------------------------------------------
(***************************************************************************)
(* Whoever completes a request, and whatever overlaps, its creator, if it  *)
(* has one, is told after it was, or a handler is about to tell him, or    *)
(* the mail was lost; and so is whom it is assigned to (pm.py:225-236).    *)
(***************************************************************************)
Telling(r, about) ==
  {s \in Servers : /\ doing[s].step = "tell" /\ doing[s].request = r
                   /\ about \in Tells(doing[s])}

NobodyIsForgotten ==
  \A r \in Existing :
    /\ requests[r].status = "complete" /\ requests[r].creator =>
         r \in toldDone \/ <<r, "done">> \in untold \/ Telling(r, "done") # {}
    /\ requests[r].assignee # Nobody =>
         \/ requests[r].assignee \in toldWork[r] \/ <<r, "work">> \in untold
         \/ \E s \in Telling(r, "work") : doing[s].assignee = requests[r].assignee

(***************************************************************************)
(* A request moves along _TRANSITIONS and what is deleted stays deleted:   *)
(* what a handler checked, when it read the row, still holds when it       *)
(* writes, unless another had the row at the same time (pm.py:190-223).    *)
(***************************************************************************)
Moves(r) ==
  \/ r \in disputed \/ requests[r] = requests'[r] \/ requests[r] = Nobody
  \/ requests[r] # Gone /\ requests'[r] = Gone
  \/ /\ r \in Existing
     /\ requests'[r].status \in {requests[r].status} \cup Transitions[requests[r].status]

StatusFollowsTransitions == [][\A r \in RequestIds : Moves(r)]_workVars
=============================================================================
