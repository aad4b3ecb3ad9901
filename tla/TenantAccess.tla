---------------------------- MODULE TenantAccess ----------------------------
(***************************************************************************)
(* Who belongs to which tenant, and who gets in (backend/api/main.py,      *)
(* backend/core/beta_access.py, the invites of backend/api/pm.py and the   *)
(* checkout of backend/api/stripe_router.py).                              *)
(* verify_access is a plain function and runs on a pool thread; what it    *)
(* read travels with the request.  The handlers are coroutines that await  *)
(* nothing, so those of one event loop run one at a time; during a deploy  *)
(* two loops overlap.                                                      *)
(***************************************************************************)
EXTENDS FiniteSets, Integers

CONSTANTS
  Users,
  Tenants,   \* tenants that exist or can be founded
  Loops,
  Requests,  \* requests that can be under way
  LoopOf,    \* LoopOf[r]: the loop request r runs on
  Plans,
  FreePlan,
  MaxInvites, \* bound: invites open at a time
  Buyers,     \* bound: tenants that ever buy a plan
  MaxUsers,  \* MaxUsers[p]: PLAN_LIMITS[p]["max_users"]; unlimited is a
             \* number no tenant reaches
  Faults,
  None       \* "no tenant", "no user"

FaultKinds ==
  { "profile",  \* signup founded the tenant and failed to insert the profile
    "crash" }   \* a process stops between two writes of a handler

ASSUME RequestsAssumption ==
  /\ IsFiniteSet(Users) /\ IsFiniteSet(Requests) /\ IsFiniteSet(Loops) /\ Loops # {}
  /\ LoopOf \in [Requests -> Loops]
ASSUME PlansAssumption ==
  FreePlan \in Plans /\ MaxUsers \in [Plans -> Nat \ {0}]
ASSUME NoneAssumption == None \notin Tenants \cup Users
ASSUME FaultsAssumption == Faults \subseteq FaultKinds

VARIABLES
  tenantOf,  \* profiles.tenant_id; None: no profile
  role,      \* profiles.role
  founded,   \* rows of tenants
  plan,      \* tenants.plan_type, resolved
  stocked,   \* tenants with policies or documents
  invites,   \* rows of invites, neither accepted nor expired: <<tenant, user>>
  sessions,  \* tenants with a Stripe checkout session that is still open
  ceiling,   \* history: the most users a plan of the tenant ever allowed
  pc,
  req        \* what verify_access and the handler's reads left in a request

profiles == <<tenantOf, role>>
tenants == <<founded, plan, stocked, ceiling>>
requests == <<pc, req>>
vars == <<profiles, tenants, invites, sessions, requests>>

NoRequest == [tenant |-> None, plan |-> FreePlan, target |-> None]

Fault(kind) == kind \in Faults
Goto(r, label) == pc' = [pc EXCEPT ![r] = label] /\ UNCHANGED req
Answer(r) ==
  pc' = [pc EXCEPT ![r] = "idle"] /\ req' = [req EXCEPT ![r] = NoRequest]
Members(t) == {u \in Users : tenantOf[u] = t}
OverSeats(t) == Cardinality(Members(t)) > MaxUsers[plan[t]]
Larger(m, n) == IF m > n THEN m ELSE n

\* The handlers of a loop do not interleave.
Running(r) == pc[r] \in {"clear", "move", "accepted"}
HasLoop(r) == \A q \in Requests \ {r} : LoopOf[q] = LoopOf[r] => ~Running(q)

\* Every user that has a profile owns a tenant to begin with.
Init ==
  /\ tenantOf \in [Users -> Tenants \cup {None}]
  /\ \A u, v \in Users : tenantOf[u] = tenantOf[v] => u = v \/ tenantOf[u] = None
  /\ role = [u \in Users |-> "owner"]
  /\ founded = {tenantOf[u] : u \in Users} \ {None}
  /\ plan = [t \in Tenants |-> FreePlan]
  /\ stocked = {}
  /\ invites = {}
  /\ sessions = {}
  /\ ceiling = [t \in Tenants |-> MaxUsers[plan[t]]]
  /\ pc = [r \in Requests |-> "idle"]
  /\ req = [r \in Requests |-> NoRequest]
-----------------------------------------------------------------------------
\* signup and _provision_oauth_workspace: a new owner in a free tenant of his
\* own.  Nobody sees the tenant before its profile is there.
SignupUnfounded(u, t) ==
  /\ tenantOf[u] = None
  /\ t \notin founded
  /\ tenantOf' = [tenantOf EXCEPT ![u] = t]
  /\ role' = [role EXCEPT ![u] = "owner"]
  /\ \/ founded' = founded \cup {t}
     \/ Fault("profile") /\ UNCHANGED founded
  /\ UNCHANGED <<plan, stocked, ceiling, invites, sessions, requests>>

Signup(u, t) ==
  /\ tenantOf[u] = None
  /\ t \notin founded
  /\ founded' = founded \cup {t}
  /\ \/ /\ tenantOf' = [tenantOf EXCEPT ![u] = t]
        /\ role' = [role EXCEPT ![u] = "owner"]
     \/ Fault("profile") /\ UNCHANGED profiles
  /\ UNCHANGED <<plan, stocked, ceiling, invites, sessions, requests>>

\* _load_user_membership: nobody gets in while the tenant has more profiles
\* than its plan has seats.
MayEnter(u) == tenantOf[u] # None /\ ~OverSeats(tenantOf[u])

Verify(r, kind, u, request) ==
  /\ pc[r] = "idle"
  /\ MayEnter(u)
  /\ pc' = [pc EXCEPT ![r] = kind]
  /\ req' = [req EXCEPT ![r] = request]
  /\ UNCHANGED <<profiles, tenants, invites, sessions>>

\* verify_access and _require_admin_role; joining oneself is turned away later,
\* and comes to nothing whenever it is.
RequestJoin(r, u, target) ==
  /\ role[u] = "owner" /\ target # u
  /\ Verify(r, "join", u, [tenant |-> tenantOf[u], plan |-> plan[tenantOf[u]],
                           target |-> target])

\* Of the request to accept an invite only the user matters.
RequestAccept(r, u) == Verify(r, "accept", u, [NoRequest EXCEPT !.target = u])
-----------------------------------------------------------------------------
(* manual_join_beta_tester *)

HasSeatAtMost(r) ==
  Cardinality(Members(req[r].tenant)) <= MaxUsers[req[r].plan]

\* _ensure_seat_available_for_join.
HasSeat(r) == Cardinality(Members(req[r].tenant)) < MaxUsers[req[r].plan]

JoinCount(r) ==
  /\ pc[r] = "join"
  /\ HasLoop(r)
  /\ IF HasSeat(r) THEN Goto(r, "clear") ELSE Answer(r)
  /\ UNCHANGED <<profiles, tenants, invites, sessions>>

\* The target has an account, belongs to another tenant, and manual_join_blocker
\* finds nothing there to leave behind.
UnblockedByRecords(t) == t \notin stocked
Unblocked(t) == Cardinality(Members(t)) <= 1 /\ t \notin stocked

JoinClear(r) ==
  /\ pc[r] = "clear"
  /\ LET target == req[r].target
         allowed == /\ tenantOf[target] \notin {None, req[r].tenant}
                    /\ Unblocked(tenantOf[target])
     IN IF allowed THEN Goto(r, "move") ELSE Answer(r)
  /\ UNCHANGED <<profiles, tenants, invites, sessions>>

\* update_profile_membership leaves the role alone.
JoinMove(r) ==
  /\ pc[r] = "move"
  /\ tenantOf' = [tenantOf EXCEPT ![req[r].target] = req[r].tenant]
  /\ Answer(r)
  /\ UNCHANGED <<role, tenants, invites, sessions>>
-----------------------------------------------------------------------------
(* Invites *)

\* create_invite, for any member; nothing it read can be out of date.
Invite(u, v) ==
  /\ MayEnter(u)
  /\ Cardinality(invites) < MaxInvites
  /\ invites' = invites \cup {<<tenantOf[u], v>>}
  /\ UNCHANGED <<profiles, tenants, sessions, requests>>

InviteExpires(i) ==
  /\ invites' = invites \ {i}
  /\ UNCHANGED <<profiles, tenants, sessions, requests>>

\* accept_invite moves the user whatever he leaves behind, and counts no seats.
\* The invite's tenant is kept in the request.
Accept(r, t) ==
  /\ pc[r] = "accept"
  /\ HasLoop(r)
  /\ LET user == req[r].target IN
     \/ /\ <<t, user>> \in invites
        /\ tenantOf' = [tenantOf EXCEPT ![user] = t]
        /\ role' = [role EXCEPT ![user] = "sme"]
        /\ pc' = [pc EXCEPT ![r] = "accepted"]
        /\ req' = [req EXCEPT ![r].tenant = t]
     \/ /\ <<t, user>> \notin invites
        /\ Answer(r)
        /\ UNCHANGED profiles
  /\ UNCHANGED <<tenants, invites, sessions>>

AcceptClose(r) ==
  /\ pc[r] = "accepted"
  /\ invites' = invites \ {<<req[r].tenant, req[r].target>>}
  /\ Answer(r)
  /\ UNCHANGED <<profiles, tenants, sessions>>
-----------------------------------------------------------------------------
(* Plans and records *)

\* create_checkout_session, for any member.
Checkout(u) ==
  /\ MayEnter(u)
  /\ tenantOf[u] \in Buyers
  /\ sessions' = sessions \cup {tenantOf[u]}
  /\ UNCHANGED <<profiles, tenants, invites, requests>>

SetPlan(t, p) ==
  /\ plan' = [plan EXCEPT ![t] = p]
  /\ ceiling' = [ceiling EXCEPT ![t] = Larger(@, MaxUsers[p])]
  /\ UNCHANGED <<profiles, founded, stocked, invites, requests>>

\* The session is paid, and the webhook activates its tier.
Paid(t, p) ==
  /\ t \in sessions
  /\ p # FreePlan
  /\ SetPlan(t, p)
  /\ sessions' = sessions \ {t}

SessionExpires(t) ==
  /\ t \in sessions
  /\ sessions' = sessions \ {t}
  /\ UNCHANGED <<profiles, tenants, invites, requests>>

\* The subscription ends, and the webhook activates the free plan.
SubscriptionEnds(t) ==
  /\ plan[t] # FreePlan
  /\ SetPlan(t, FreePlan)
  /\ UNCHANGED sessions

\* A member files a first document.
Stock(u) ==
  /\ MayEnter(u)
  /\ stocked' = stocked \cup {tenantOf[u]}
  /\ UNCHANGED <<profiles, founded, plan, ceiling, invites, sessions, requests>>

Crash(l) ==
  /\ Fault("crash")
  /\ pc' = [r \in Requests |-> IF LoopOf[r] = l THEN "idle" ELSE pc[r]]
  /\ req' = [r \in Requests |-> IF LoopOf[r] = l THEN NoRequest ELSE req[r]]
  /\ UNCHANGED <<profiles, tenants, invites, sessions>>
-----------------------------------------------------------------------------
HandlerStep(r) ==
  \/ JoinCount(r) \/ JoinClear(r) \/ JoinMove(r)
  \/ \E t \in Tenants : Accept(r, t)
  \/ AcceptClose(r)

Next ==
  \/ \E u \in Users, t \in Tenants : Signup(u, t)
  \/ \E r \in Requests, u, v \in Users : RequestJoin(r, u, v)
  \/ \E r \in Requests, u \in Users : RequestAccept(r, u)
  \/ \E r \in Requests : HandlerStep(r)
  \/ \E u, v \in Users : Invite(u, v)
  \/ \E i \in invites : InviteExpires(i)
  \/ \E u \in Users : Checkout(u) \/ Stock(u)
  \/ \E t \in Tenants, p \in Plans : Paid(t, p)
  \/ \E t \in Tenants : SessionExpires(t) \/ SubscriptionEnds(t)
  \/ \E l \in Loops : Crash(l)

Spec == Init /\ [][Next]_vars

(***************************************************************************)
(* A tenant over its seats does what its 403 says: as often as a member    *)
(* can start a checkout, one does, and pays for the largest plan.          *)
(***************************************************************************)
Largest(p) == \A q \in Plans : MaxUsers[q] <= MaxUsers[p]

UpgradingSpec ==
  /\ Spec
  /\ \A r \in Requests : WF_vars(HandlerStep(r))
  /\ \A u \in Users : SF_vars(Checkout(u))
  /\ \A t \in Tenants, p \in Plans : SF_vars(Largest(p) /\ Paid(t, p))
-----------------------------------------------------------------------------
TypeOK ==
  /\ tenantOf \in [Users -> founded \cup {None}]
  /\ role \in [Users -> {"owner", "sme"}]
  /\ founded \subseteq Tenants
  /\ plan \in [Tenants -> Plans]
  /\ stocked \subseteq founded
  /\ invites \subseteq founded \X Users
  /\ sessions \subseteq founded
  /\ ceiling \in [Tenants -> Nat]
  /\ pc \in [Requests -> {"idle", "join", "clear", "move", "accept", "accepted"}]
  /\ req \in [Requests -> [tenant : founded \cup {None}, plan : Plans,
                           target : Users \cup {None}]]

(***************************************************************************)
(* Manual joins do not overbook a tenant: whatever invites do, and however *)
(* old the plan is that a request goes by, its owners are at most as many  *)
(* as a plan it was on ever allowed, plus one per further loop that joins  *)
(* at the same time.                                                       *)
(***************************************************************************)
Joining(t) ==
  {r \in Requests : pc[r] \in {"clear", "move"} /\ req[r].tenant = t}

JoinsKeepSeats ==
  \A t \in Tenants :
    Cardinality({u \in Members(t) : role[u] = "owner"}) + Cardinality(Joining(t))
      <= ceiling[t] + Cardinality(Loops) - 1

(***************************************************************************)
(* "Manual reassignment is blocked to avoid cross-tenant access"           *)
(* (beta_access.py:25): whoever is moved with his role, as only a manual   *)
(* join does, leaves no colleague behind.                                  *)
(***************************************************************************)
LeavesNobody ==
  \A u \in Users :
    /\ tenantOf[u] # None
    /\ tenantOf'[u] # tenantOf[u]
    /\ role'[u] = "owner"
    => Members(tenantOf[u]) = {u}

JoinsSplitNoTeam == [][LeavesNobody]_vars

(***************************************************************************)
(* "Upgrade to add more seats" (main.py:431): a tenant with more users     *)
(* than seats, whose members take every upgrade they can get, is let in    *)
(* again.                                                                  *)
(***************************************************************************)
LockedOutCanUpgrade == \A t \in Tenants : OverSeats(t) ~> ~OverSeats(t)
=============================================================================
