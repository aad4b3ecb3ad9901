------------------------- MODULE TenantAccess_proofs -------------------------
(***************************************************************************)
(* What manual joins do to a tenant, for any number of users, tenants and  *)
(* requests, whatever is bought, accepted or crashes.                      *)
(***************************************************************************)
EXTENDS TenantAccess, FiniteSetTheorems, TLAPS

\* What a plan of the tenant allows, and what a request to join goes by, was
\* allowed once.
CeilingsHold ==
  /\ \A t \in Tenants : MaxUsers[plan[t]] <= ceiling[t]
  /\ \A r \in Requests :
       pc[r] \in {"join", "clear", "move"} =>
         /\ req[r].tenant \in founded /\ req[r].target \in Users
         /\ MaxUsers[req[r].plan] <= ceiling[req[r].tenant]

\* Of the handlers of a loop at most one is between two of its steps.
OneRuns ==
  \A q, r \in Requests : Running(q) /\ Running(r) /\ LoopOf[q] = LoopOf[r] => q = r

AccessInv == TypeOK /\ CeilingsHold /\ OneRuns

Owners(t) == {u \in Members(t) : role[u] = "owner"}

LEMMA Limits ==
  /\ \A p \in Plans : MaxUsers[p] \in Nat /\ MaxUsers[p] >= 1
  /\ FreePlan \in Plans /\ None \notin Tenants /\ None \notin Users
  /\ \A r \in Requests : LoopOf[r] \in Loops
  /\ Cardinality(Loops) \in Nat /\ Cardinality(Loops) >= 1
<1>1. Cardinality(Loops) \in Nat /\ Cardinality(Loops) # 0
  BY RequestsAssumption, FS_CardinalityType, FS_EmptySet
<1>2. QED
  BY <1>1, PlansAssumption, NoneAssumption, RequestsAssumption

LEMMA AccessInvStarts == Init => AccessInv
<1> SUFFICES ASSUME Init PROVE AccessInv
  OBVIOUS
<1> USE Limits
<1>1. \A t \in Tenants : plan[t] = FreePlan /\ ceiling[t] = MaxUsers[FreePlan]
  BY DEF Init
<1>2. \A r \in Requests : pc[r] = "idle" /\ req[r] = NoRequest
  BY DEF Init
<1>3. TypeOK
  <2>1. tenantOf \in [Users -> founded \cup {None}] /\ founded \subseteq Tenants
    BY DEF Init
  <2>2. ceiling \in [Tenants -> Nat] /\ plan \in [Tenants -> Plans]
    BY DEF Init
  <2>3. NoRequest \in [tenant : founded \cup {None}, plan : Plans, target : Users \cup {None}]
    BY DEF NoRequest
  <2>4. QED
    BY <2>1, <2>2, <2>3 DEF Init, TypeOK
<1>4. CeilingsHold
  BY <1>1, <1>2 DEF CeilingsHold
<1>5. OneRuns
  BY <1>2 DEF OneRuns, Running
<1>6. QED
  BY <1>3, <1>4, <1>5 DEF AccessInv
-----------------------------------------------------------------------------
\* What a step owes the invariant, where requests stay as they are.
LEMMA RequestsRest ==
  ASSUME AccessInv, TypeOK', UNCHANGED requests, founded \subseteq founded',
         \A t \in Tenants : /\ MaxUsers[plan'[t]] <= ceiling'[t]
                            /\ ceiling[t] <= ceiling'[t]
  PROVE  AccessInv'
<1>1. \A r \in Requests : pc'[r] = pc[r] /\ req'[r] = req[r]
  BY DEF requests
<1>2. OneRuns'
  BY <1>1 DEF AccessInv, OneRuns, Running
<1>3. CeilingsHold'
  <2> SUFFICES ASSUME NEW r \in Requests, pc[r] \in {"join", "clear", "move"}
               PROVE  /\ req[r].tenant \in founded' /\ req[r].target \in Users
                      /\ MaxUsers[req[r].plan] <= ceiling'[req[r].tenant]
    BY <1>1 DEF CeilingsHold
  <2>1. /\ req[r].tenant \in founded /\ req[r].target \in Users
        /\ MaxUsers[req[r].plan] <= ceiling[req[r].tenant]
    BY DEF AccessInv, CeilingsHold
  <2>2. req[r].tenant \in Tenants /\ req[r].plan \in Plans
    BY <2>1 DEF AccessInv, TypeOK
  <2>3. /\ MaxUsers[req[r].plan] \in Nat /\ ceiling[req[r].tenant] \in Nat
        /\ ceiling'[req[r].tenant] \in Nat
    BY <2>2, Limits DEF AccessInv, TypeOK
  <2>4. QED
    BY <2>1, <2>2, <2>3
<1>4. QED
  BY <1>2, <1>3 DEF AccessInv

\* What it owes where one request goes on.
LEMMA RequestGoesOn ==
  ASSUME AccessInv, NEW r \in Requests,
         NEW label \in {"idle", "join", "clear", "move", "accept", "accepted"},
         NEW request \in [tenant : founded \cup {None}, plan : Plans, target : Users \cup {None}],
         pc' = [pc EXCEPT ![r] = label], req' = [req EXCEPT ![r] = request],
         label \in {"join", "clear", "move"} =>
           /\ request.tenant \in founded /\ request.target \in Users
           /\ MaxUsers[request.plan] <= ceiling[request.tenant],
         label \in {"clear", "move", "accepted"} => HasLoop(r) \/ Running(r),
         tenantOf' \in [Users -> founded \cup {None}], role' \in [Users -> {"owner", "sme"}],
         invites' \subseteq invites,
         UNCHANGED <<tenants, sessions>>
  PROVE  AccessInv'
<1>1. /\ pc'[r] = label /\ req'[r] = request
      /\ \A q \in Requests \ {r} : pc'[q] = pc[q] /\ req'[q] = req[q]
      /\ pc' \in [Requests -> {"idle", "join", "clear", "move", "accept", "accepted"}]
      /\ req' \in [Requests -> [tenant : founded \cup {None}, plan : Plans,
                                target : Users \cup {None}]]
  BY DEF AccessInv, TypeOK
<1>2. TypeOK'
  BY <1>1 DEF AccessInv, TypeOK, tenants
<1>3. CeilingsHold'
  BY <1>1 DEF AccessInv, CeilingsHold, tenants
<1>4. OneRuns'
  <2>1. \A q \in Requests \ {r} : Running(q)' <=> Running(q)
    BY <1>1 DEF Running
  <2>2. Running(r)' => HasLoop(r) \/ Running(r)
    BY <1>1 DEF Running
  <2>3. Running(r)' => \A q \in Requests \ {r} : LoopOf[q] = LoopOf[r] => ~Running(q)
    BY <2>2 DEF HasLoop, AccessInv, OneRuns
  <2>4. QED
    BY <2>1, <2>3 DEF AccessInv, OneRuns
<1>5. QED
  BY <1>2, <1>3, <1>4 DEF AccessInv
LEMMA AccessInvKept == AccessInv /\ [Next]_vars => AccessInv'
<1> SUFFICES ASSUME AccessInv, [Next]_vars
             PROVE  AccessInv'
  OBVIOUS
<1> USE Limits
<1>t. TypeOK /\ CeilingsHold
  BY DEF AccessInv
<1>same. ASSUME UNCHANGED tenants
         PROVE  \A t \in Tenants : /\ MaxUsers[plan'[t]] <= ceiling'[t]
                                   /\ ceiling[t] <= ceiling'[t]
  BY <1>same, <1>t DEF tenants, CeilingsHold, TypeOK
<1>none. NoRequest \in [tenant : founded \cup {None}, plan : Plans, target : Users \cup {None}]
  BY DEF NoRequest
<1>1. ASSUME NEW u \in Users, NEW t \in Tenants, Signup(u, t) PROVE AccessInv'
  <2>1. /\ founded' = founded \cup {t} /\ founded' \subseteq Tenants
        /\ UNCHANGED <<plan, stocked, ceiling, invites, sessions, requests>>
    BY <1>1, <1>t DEF Signup, TypeOK
  <2>2. tenantOf' \in [Users -> founded' \cup {None}] /\ role' \in [Users -> {"owner", "sme"}]
    BY <1>1, <2>1, <1>t DEF Signup, TypeOK, profiles
  <2>3. req' = req /\ pc' = pc
    BY <2>1 DEF requests
  <2>4. req' \in [Requests -> [tenant : founded' \cup {None}, plan : Plans,
                               target : Users \cup {None}]]
    <3>1. [tenant : founded \cup {None}, plan : Plans, target : Users \cup {None}]
            \subseteq [tenant : founded' \cup {None}, plan : Plans, target : Users \cup {None}]
      BY <2>1
    <3>2. QED
      BY <2>3, <3>1, <1>t DEF TypeOK
  <2>5. /\ stocked' \subseteq founded' /\ invites' \subseteq founded' \X Users
        /\ sessions' \subseteq founded'
    BY <2>1, <1>t DEF TypeOK
  <2>6. TypeOK'
    BY <2>1, <2>2, <2>3, <2>4, <2>5, <1>t DEF TypeOK
  <2>7. \A q \in Tenants : MaxUsers[plan'[q]] <= ceiling'[q] /\ ceiling[q] <= ceiling'[q]
    BY <2>1, <1>t DEF CeilingsHold, TypeOK
  <2>8. QED
    BY <2>1, <2>6, <2>7, RequestsRest
<1>2. ASSUME NEW r \in Requests, NEW u \in Users, NEW v \in Users, RequestJoin(r, u, v)
      PROVE  AccessInv'
  <2> DEFINE request == [tenant |-> tenantOf[u], plan |-> plan[tenantOf[u]], target |-> v]
  <2>1. /\ pc' = [pc EXCEPT ![r] = "join"] /\ req' = [req EXCEPT ![r] = request]
        /\ UNCHANGED <<profiles, tenants, invites, sessions>> /\ tenantOf[u] # None
    BY <1>2 DEF RequestJoin, Verify, MayEnter
  <2>2. tenantOf[u] \in founded /\ tenantOf[u] \in Tenants /\ plan[tenantOf[u]] \in Plans
    BY <2>1, <1>t DEF TypeOK
  <2>3. request \in [tenant : founded \cup {None}, plan : Plans, target : Users \cup {None}]
    BY <2>2
  <2>4. MaxUsers[request.plan] <= ceiling[request.tenant]
    BY <2>2, <1>t DEF CeilingsHold
  <2>5. tenantOf' \in [Users -> founded \cup {None}] /\ role' \in [Users -> {"owner", "sme"}]
    BY <2>1, <1>t DEF TypeOK, profiles
  <2>6. request.tenant \in founded /\ request.target \in Users
    BY <2>2
  <2> HIDE DEF request
  <2>7. QED
    BY <2>1, <2>3, <2>4, <2>5, <2>6, RequestGoesOn
<1>3. ASSUME NEW r \in Requests, NEW u \in Users, RequestAccept(r, u) PROVE AccessInv'
  <2> DEFINE request == [NoRequest EXCEPT !.target = u]
  <2>1. /\ pc' = [pc EXCEPT ![r] = "accept"] /\ req' = [req EXCEPT ![r] = request]
        /\ UNCHANGED <<profiles, tenants, invites, sessions>>
    BY <1>3 DEF RequestAccept, Verify
  <2>2. request \in [tenant : founded \cup {None}, plan : Plans, target : Users \cup {None}]
    BY DEF NoRequest
  <2>3. tenantOf' \in [Users -> founded \cup {None}] /\ role' \in [Users -> {"owner", "sme"}]
    BY <2>1, <1>t DEF TypeOK, profiles
  <2> HIDE DEF request
  <2>4. QED
    BY <2>1, <2>2, <2>3, RequestGoesOn
<1>4. ASSUME NEW r \in Requests, Answer(r), UNCHANGED <<tenants, sessions>>,
             invites' \subseteq invites,
             tenantOf' \in [Users -> founded \cup {None}], role' \in [Users -> {"owner", "sme"}]
      PROVE  AccessInv'
  BY <1>4, <1>none, RequestGoesOn DEF Answer
<1>5. ASSUME NEW r \in Requests, pc[r] \in {"join", "clear"}, HasLoop(r) \/ Running(r),
             NEW label \in {"clear", "move"}, Goto(r, label),
             UNCHANGED <<profiles, tenants, invites, sessions>>
      PROVE  AccessInv'
  <2>1. req' = [req EXCEPT ![r] = req[r]] /\ pc' = [pc EXCEPT ![r] = label]
    BY <1>5, <1>t DEF Goto, TypeOK
  <2>2. req[r] \in [tenant : founded \cup {None}, plan : Plans, target : Users \cup {None}]
    BY <1>t DEF TypeOK
  <2>3. /\ req[r].tenant \in founded /\ req[r].target \in Users
        /\ MaxUsers[req[r].plan] <= ceiling[req[r].tenant]
    BY <1>5, <1>t DEF CeilingsHold
  <2>4. tenantOf' \in [Users -> founded \cup {None}] /\ role' \in [Users -> {"owner", "sme"}]
    BY <1>5, <1>t DEF TypeOK, profiles
  <2>5. QED
    BY <1>5, <2>1, <2>2, <2>3, <2>4, RequestGoesOn
<1>6. ASSUME UNCHANGED profiles
      PROVE  tenantOf' \in [Users -> founded \cup {None}] /\ role' \in [Users -> {"owner", "sme"}]
  BY <1>6, <1>t DEF TypeOK, profiles
<1>7. ASSUME NEW r \in Requests, JoinCount(r) PROVE AccessInv'
  BY <1>7, <1>4, <1>5, <1>6 DEF JoinCount
<1>8. ASSUME NEW r \in Requests, JoinClear(r) PROVE AccessInv'
  BY <1>8, <1>4, <1>5, <1>6 DEF JoinClear, Running
<1>9. ASSUME NEW r \in Requests, JoinMove(r) PROVE AccessInv'
  <2>1. req[r].tenant \in founded
    BY <1>9, <1>t DEF JoinMove, CeilingsHold
  <2>2. tenantOf' \in [Users -> founded \cup {None}]
    BY <1>9, <2>1, <1>t DEF JoinMove, TypeOK
  <2>3. role' \in [Users -> {"owner", "sme"}]
    BY <1>9, <1>t DEF JoinMove, TypeOK
  <2>4. QED
    BY <1>9, <2>2, <2>3, <1>4 DEF JoinMove
<1>10. ASSUME NEW r \in Requests, NEW t \in Tenants, Accept(r, t) PROVE AccessInv'
  <2> DEFINE user    == req[r].target
             request == [req[r] EXCEPT !.tenant = t]
  <2>1. HasLoop(r) /\ UNCHANGED <<tenants, invites, sessions>>
    BY <1>10 DEF Accept
  <2>2. CASE <<t, user>> \notin invites /\ Answer(r) /\ UNCHANGED profiles
    BY <2>1, <2>2, <1>4, <1>6
  <2>3. CASE /\ <<t, user>> \in invites
             /\ tenantOf' = [tenantOf EXCEPT ![user] = t]
             /\ role' = [role EXCEPT ![user] = "sme"]
             /\ pc' = [pc EXCEPT ![r] = "accepted"]
             /\ req' = [req EXCEPT ![r].tenant = t]
    <3>1. t \in founded
      BY <2>3, <1>t DEF TypeOK
    <3>2. request \in [tenant : founded \cup {None}, plan : Plans, target : Users \cup {None}]
      BY <3>1, <1>t DEF TypeOK
    <3>3. req' = [req EXCEPT ![r] = request]
      BY <2>3
    <3>4. tenantOf' \in [Users -> founded \cup {None}] /\ role' \in [Users -> {"owner", "sme"}]
      BY <2>3, <3>1, <1>t DEF TypeOK
    <3> HIDE DEF request
    <3>5. QED
      BY <2>1, <2>3, <3>2, <3>3, <3>4, RequestGoesOn
  <2>4. QED
    BY <1>10, <2>2, <2>3 DEF Accept
<1>11. ASSUME NEW r \in Requests, AcceptClose(r) PROVE AccessInv'
  BY <1>11, <1>4, <1>6 DEF AcceptClose
<1>12. ASSUME UNCHANGED <<profiles, tenants, requests>>,
              invites' \subseteq founded \X Users, sessions' \subseteq founded
       PROVE  AccessInv'
  <2>1. TypeOK'
    BY <1>12, <1>t DEF TypeOK, profiles, tenants, requests
  <2>2. QED
    BY <1>12, <2>1, <1>same, RequestsRest DEF tenants
<1>13. ASSUME NEW u \in Users, MayEnter(u) PROVE tenantOf[u] \in founded
  BY <1>13, <1>t DEF MayEnter, TypeOK
<1>14. ASSUME NEW u \in Users, NEW v \in Users, Invite(u, v) PROVE AccessInv'
  <2>1. invites' \subseteq founded \X Users /\ sessions' = sessions
    BY <1>14, <1>13, <1>t DEF Invite, TypeOK
  <2>2. QED
    BY <1>14, <2>1, <1>12, <1>t DEF Invite, TypeOK
<1>15. ASSUME NEW i \in invites, InviteExpires(i) PROVE AccessInv'
  BY <1>15, <1>12, <1>t DEF InviteExpires, TypeOK
<1>16. ASSUME NEW u \in Users, Checkout(u) PROVE AccessInv'
  BY <1>16, <1>12, <1>13, <1>t DEF Checkout, TypeOK
<1>17. ASSUME NEW u \in Users, Stock(u) PROVE AccessInv'
  <2>1. tenantOf[u] \in founded
    BY <1>17, <1>13 DEF Stock
  <2>2. TypeOK'
    BY <1>17, <2>1, <1>t DEF Stock, TypeOK, profiles, requests
  <2>3. \A t \in Tenants : MaxUsers[plan'[t]] <= ceiling'[t] /\ ceiling[t] <= ceiling'[t]
    BY <1>17, <1>t DEF Stock, CeilingsHold, TypeOK
  <2>4. QED
    BY <1>17, <2>2, <2>3, RequestsRest DEF Stock
<1>18. ASSUME NEW t \in Tenants, NEW p \in Plans, SetPlan(t, p), sessions' \subseteq founded
       PROVE  AccessInv'
  <2>1. plan' = [plan EXCEPT ![t] = p] /\ ceiling' = [ceiling EXCEPT ![t] = Larger(@, MaxUsers[p])]
    BY <1>18 DEF SetPlan
  <2>2. ceiling[t] \in Nat /\ MaxUsers[p] \in Nat
    BY <1>t DEF TypeOK
  <2>3. /\ Larger(ceiling[t], MaxUsers[p]) \in Nat
        /\ ceiling[t] <= Larger(ceiling[t], MaxUsers[p])
        /\ MaxUsers[p] <= Larger(ceiling[t], MaxUsers[p])
    BY <2>2 DEF Larger
  <2>4. TypeOK'
    BY <1>18, <2>1, <2>3, <1>t DEF SetPlan, TypeOK, profiles, requests
  <2>5. \A q \in Tenants : MaxUsers[plan'[q]] <= ceiling'[q] /\ ceiling[q] <= ceiling'[q]
    <3>1. plan'[t] = p /\ ceiling'[t] = Larger(ceiling[t], MaxUsers[p])
      BY <2>1, <1>t DEF TypeOK
    <3>2. \A q \in Tenants \ {t} : plan'[q] = plan[q] /\ ceiling'[q] = ceiling[q]
      BY <2>1, <1>t DEF TypeOK
    <3>3. \A q \in Tenants : MaxUsers[plan[q]] <= ceiling[q] /\ ceiling[q] <= ceiling[q]
      BY <1>t DEF CeilingsHold, TypeOK
    <3>4. QED
      BY <3>1, <3>2, <3>3, <2>3
  <2>6. QED
    BY <1>18, <2>4, <2>5, RequestsRest DEF SetPlan
<1>19. ASSUME NEW t \in Tenants, NEW p \in Plans, Paid(t, p) PROVE AccessInv'
  BY <1>19, <1>18, <1>t DEF Paid, TypeOK
<1>20. ASSUME NEW t \in Tenants, SessionExpires(t) PROVE AccessInv'
  BY <1>20, <1>12, <1>t DEF SessionExpires, TypeOK
<1>21. ASSUME NEW t \in Tenants, SubscriptionEnds(t) PROVE AccessInv'
  BY <1>21, <1>18, <1>t DEF SubscriptionEnds, TypeOK
<1>22. ASSUME NEW l \in Loops, Crash(l) PROVE AccessInv'
  <2>1. \A r \in Requests : \/ pc'[r] = "idle" /\ req'[r] = NoRequest
                            \/ pc'[r] = pc[r] /\ req'[r] = req[r]
    BY <1>22 DEF Crash
  <2>2. TypeOK'
    BY <1>22, <1>t, <1>none DEF Crash, TypeOK, profiles, tenants
  <2>3. CeilingsHold'
    BY <1>22, <2>1, <1>t DEF Crash, CeilingsHold, tenants
  <2>4. OneRuns'
    BY <2>1 DEF AccessInv, OneRuns, Running
  <2>5. QED
    BY <2>2, <2>3, <2>4 DEF AccessInv
<1>23. CASE UNCHANGED vars
  BY <1>23, <1>12, <1>t DEF vars, TypeOK
<1>24. QED
  BY <1>1, <1>2, <1>3, <1>7, <1>8, <1>9, <1>10, <1>11, <1>14, <1>15, <1>16, <1>17, <1>19, <1>20,
     <1>21, <1>22, <1>23 DEF Next, HandlerStep

LEMMA AccessInvAlways == Spec => []AccessInv
BY AccessInvStarts, AccessInvKept, PTL DEF Spec

\* Profiles, tenants, plans, invites and requests keep their types: whatever
\* crashes, nobody belongs to a tenant that was never founded.
THEOREM TypeCorrect == Spec => []TypeOK
<1>1. AccessInv => TypeOK
  BY DEF AccessInv
<1>2. QED
  BY <1>1, AccessInvAlways, PTL
-----------------------------------------------------------------------------
SeatsOf(t) ==
  Cardinality(Owners(t)) + Cardinality(Joining(t)) <= ceiling[t] + Cardinality(Loops) - 1

LEMMA SeatsAreCounted == JoinsKeepSeats <=> \A t \in Tenants : SeatsOf(t)
BY DEF JoinsKeepSeats, SeatsOf, Owners

LEMMA FiniteSeats ==
  \A t : /\ IsFiniteSet(Owners(t)) /\ Cardinality(Owners(t)) \in Nat
         /\ IsFiniteSet(Members(t)) /\ Cardinality(Members(t)) \in Nat
         /\ Cardinality(Owners(t)) <= Cardinality(Members(t))
         /\ IsFiniteSet(Joining(t)) /\ Cardinality(Joining(t)) \in Nat
<1> TAKE t
<1>1. IsFiniteSet(Members(t))
  <2>1. Members(t) \subseteq Users
    BY DEF Members
  <2>2. QED
    BY <2>1, RequestsAssumption, FS_Subset
<1>2. Owners(t) \subseteq Members(t)
  BY DEF Owners
<1>3. IsFiniteSet(Owners(t)) /\ Cardinality(Owners(t)) <= Cardinality(Members(t))
  BY <1>1, <1>2, FS_Subset
<1>4. IsFiniteSet(Joining(t))
  <2>1. Joining(t) \subseteq Requests
    BY DEF Joining
  <2>2. QED
    BY <2>1, RequestsAssumption, FS_Subset
<1>5. QED
  BY <1>1, <1>3, <1>4, FS_CardinalityType

\* The same of a later state: primes stand only around what is not constant.
LEMMA FiniteSeatsLater ==
  \A t : /\ IsFiniteSet(Owners(t)') /\ Cardinality(Owners(t)') \in Nat
         /\ IsFiniteSet(Joining(t)') /\ Cardinality(Joining(t)') \in Nat
<1> TAKE t
<1>1. Owners(t)' \subseteq Users /\ Joining(t)' \subseteq Requests
  BY DEF Owners, Members, Joining
<1>2. IsFiniteSet(Owners(t)') /\ IsFiniteSet(Joining(t)')
  BY <1>1, RequestsAssumption, FS_Subset
<1>3. QED
  BY <1>2, FS_CardinalityType

\* Without new owners and new joins a tenant has the seats it had.
LEMMA NoMoreSeats ==
  ASSUME AccessInv, AccessInv', NEW t \in Tenants, SeatsOf(t),
         Owners(t)' \subseteq Owners(t), Joining(t)' \subseteq Joining(t),
         ceiling[t] <= ceiling'[t]
  PROVE  SeatsOf(t)'
<1>1. /\ Cardinality(Owners(t)') <= Cardinality(Owners(t))
      /\ Cardinality(Joining(t)') <= Cardinality(Joining(t))
  BY FiniteSeats, FS_Subset
<1>2. ceiling[t] \in Nat /\ ceiling'[t] \in Nat
  BY DEF AccessInv, TypeOK
<1>3. QED
  BY <1>1, <1>2, FiniteSeats, FiniteSeatsLater, Limits DEF SeatsOf

LEMMA SeatsKept ==
  ASSUME AccessInv, AccessInv', [Next]_vars, NEW t \in Tenants, SeatsOf(t)
  PROVE  SeatsOf(t)'
<1> USE Limits
<1>t. TypeOK /\ CeilingsHold /\ TypeOK'
  BY DEF AccessInv
<1>c. ceiling[t] \in Nat /\ ceiling'[t] \in Nat
  BY <1>t DEF TypeOK
<1>0. ASSUME UNCHANGED profiles, Joining(t)' \subseteq Joining(t), ceiling[t] <= ceiling'[t]
      PROVE  SeatsOf(t)'
  <2>1. Owners(t)' \subseteq Owners(t)
    BY <1>0 DEF profiles, Owners, Members
  <2>2. QED
    BY <1>0, <2>1, NoMoreSeats
<1>1. ASSUME UNCHANGED <<profiles, requests>>, ceiling[t] <= ceiling'[t] PROVE SeatsOf(t)'
  <2>1. Joining(t)' \subseteq Joining(t)
    BY <1>1 DEF requests, Joining
  <2>2. QED
    BY <1>0, <1>1, <2>1
<1>2. ASSUME NEW u \in Users, NEW n \in Tenants, Signup(u, n) PROVE SeatsOf(t)'
  <2>1. n \notin founded /\ UNCHANGED <<ceiling, requests>> /\ tenantOf[u] = None
    BY <1>2 DEF Signup
  <2>2. Joining(t)' \subseteq Joining(t)
    BY <2>1 DEF requests, Joining
  <2>3. CASE t # n
    <3>1. Owners(t)' \subseteq Owners(t)
      BY <1>2, <2>3, <1>t DEF Signup, profiles, Owners, Members, TypeOK
    <3>2. QED
      BY <2>1, <2>2, <3>1, <1>c, NoMoreSeats
  <2>4. CASE t = n
    <3>1. Joining(t) = {}
      BY <2>1, <2>4, <1>t DEF Joining, CeilingsHold
    <3>2. Owners(t)' \subseteq {u}
      BY <1>2, <2>1, <2>4, <1>t DEF Signup, profiles, Owners, Members, TypeOK
    <3>3. Cardinality(Owners(t)') <= 1
      <4>1. IsFiniteSet({u}) /\ Cardinality({u}) = 1
        BY FS_Singleton
      <4>2. QED
        BY <3>2, <4>1, FS_Subset
    <3>4. Cardinality(Joining(t)') = 0
      BY <2>2, <3>1, FS_EmptySet
    <3>5. MaxUsers[plan[t]] \in Nat /\ MaxUsers[plan[t]] >= 1 /\ MaxUsers[plan[t]] <= ceiling[t]
      BY <1>t DEF TypeOK, CeilingsHold
    <3>6. ceiling'[t] >= 1
      BY <2>1, <3>5, <1>c
    <3>7. QED
      BY <3>3, <3>4, <3>6, <1>c, FiniteSeatsLater DEF SeatsOf
  <2>5. QED
    BY <2>3, <2>4
<1>3. ASSUME NEW r \in Requests, pc'[r] \notin {"clear", "move"},
             \A q \in Requests \ {r} : pc'[q] = pc[q] /\ req'[q] = req[q]
      PROVE  Joining(t)' \subseteq Joining(t) \ {r}
  BY <1>3 DEF Joining
<1>4. ASSUME NEW r \in Requests, Answer(r)
      PROVE  Joining(t)' \subseteq Joining(t) \ {r}
  BY <1>3, <1>4, <1>t DEF Answer, TypeOK
<1>5. ASSUME NEW r \in Requests, Answer(r), UNCHANGED <<profiles, tenants>> PROVE SeatsOf(t)'
  BY <1>0, <1>4, <1>5, <1>c DEF tenants
<1>6. ASSUME NEW r \in Requests, NEW u \in Users, NEW kind \in {"join", "accept"}, NEW request,
             Verify(r, kind, u, request)
      PROVE  SeatsOf(t)'
  <2>1. Joining(t)' \subseteq Joining(t)
    BY <1>3, <1>6, <1>t DEF Verify, TypeOK
  <2>2. QED
    BY <1>0, <1>6, <2>1, <1>c DEF Verify, tenants
<1>7. ASSUME NEW r \in Requests, JoinCount(r) PROVE SeatsOf(t)'
  <2>1. CASE Answer(r)
    BY <1>5, <1>7, <2>1 DEF JoinCount
  <2>2. CASE HasSeat(r) /\ Goto(r, "clear") /\ req[r].tenant # t
    <3>1. Joining(t)' \subseteq Joining(t)
      BY <2>2, <1>t DEF Goto, Joining, TypeOK
    <3>2. QED
      BY <1>0, <1>7, <3>1, <1>c DEF JoinCount, tenants
  <2>3. CASE HasSeat(r) /\ Goto(r, "clear") /\ req[r].tenant = t
    <3>1. pc[r] = "join" /\ UNCHANGED <<profiles, tenants>>
      BY <1>7 DEF JoinCount
    <3>2. /\ Cardinality(Members(t)) < MaxUsers[req[r].plan]
          /\ MaxUsers[req[r].plan] <= ceiling[t] /\ MaxUsers[req[r].plan] \in Nat
      BY <2>3, <3>1, <1>t DEF HasSeat, CeilingsHold, TypeOK
    <3>3. Cardinality(Joining(t)') <= Cardinality(Loops)
      <4>1. \A q, p \in Requests : Running(q)' /\ Running(p)' /\ LoopOf[q] = LoopOf[p] => q = p
        BY DEF AccessInv, OneRuns
      <4> DEFINE loop == [q \in Joining(t)' |-> LoopOf[q]]
      <4>2. Joining(t)' \subseteq Requests
        BY DEF Joining
      <4>3. loop \in [Joining(t)' -> Loops]
        BY <4>2
      <4>4. \A q, p \in Joining(t)' : loop[q] = loop[p] => q = p
        BY <4>1, <4>2 DEF Joining, Running
      <4>5. loop \in Injection(Joining(t)', Loops)
        BY <4>3, <4>4 DEF Injection, IsInjective
      <4>6. QED
        BY <4>5, RequestsAssumption, FS_Injection
    <3>4. Owners(t)' = Owners(t) /\ ceiling' = ceiling
      BY <3>1 DEF profiles, tenants, Owners, Members
    <3>5. QED
      BY <3>2, <3>3, <3>4, <1>c, FiniteSeats, FiniteSeatsLater DEF SeatsOf
  <2>4. QED
    BY <1>7, <2>1, <2>2, <2>3 DEF JoinCount
<1>8. ASSUME NEW r \in Requests, JoinClear(r) PROVE SeatsOf(t)'
  <2>1. CASE Answer(r)
    BY <1>5, <1>8, <2>1 DEF JoinClear
  <2>2. CASE Goto(r, "move")
    <3>1. Joining(t)' \subseteq Joining(t)
      BY <1>8, <2>2, <1>t DEF JoinClear, Goto, Joining, TypeOK
    <3>2. QED
      BY <1>0, <1>8, <3>1, <1>c DEF JoinClear, tenants
  <2>3. QED
    BY <1>8, <2>1, <2>2 DEF JoinClear
<1>9. ASSUME NEW r \in Requests, JoinMove(r) PROVE SeatsOf(t)'
  <2> DEFINE target == req[r].target
  <2>1. /\ pc[r] = "move" /\ tenantOf' = [tenantOf EXCEPT ![target] = req[r].tenant]
        /\ Answer(r) /\ UNCHANGED <<role, tenants>>
    BY <1>9 DEF JoinMove
  <2>2. Joining(t)' \subseteq Joining(t) \ {r}
    BY <2>1, <1>4
  <2>3. CASE req[r].tenant # t
    <3>1. Owners(t)' \subseteq Owners(t)
      BY <2>1, <2>3, <1>t DEF Owners, Members, TypeOK
    <3>2. QED
      BY <2>1, <2>2, <3>1, <1>c, NoMoreSeats DEF tenants
  <2>4. CASE req[r].tenant = t
    <3>1. r \in Joining(t)
      BY <2>1, <2>4 DEF Joining
    <3>2. Cardinality(Joining(t) \ {r}) = Cardinality(Joining(t)) - 1
      BY <3>1, FiniteSeats, FS_RemoveElement
    <3>3. Cardinality(Joining(t)') <= Cardinality(Joining(t) \ {r})
      <4>1. IsFiniteSet(Joining(t) \ {r})
        BY FiniteSeats, FS_Subset
      <4>2. QED
        BY <2>2, <4>1, FS_Subset
    <3>4. Owners(t)' \subseteq Owners(t) \cup {target}
      BY <2>1, <1>t DEF Owners, Members, TypeOK
    <3>5. /\ IsFiniteSet(Owners(t) \cup {target})
          /\ Cardinality(Owners(t) \cup {target}) <= Cardinality(Owners(t)) + 1
          /\ Cardinality(Owners(t) \cup {target}) \in Nat
      <4>1. /\ IsFiniteSet(Owners(t) \cup {target})
            /\ \/ Cardinality(Owners(t) \cup {target}) = Cardinality(Owners(t))
               \/ Cardinality(Owners(t) \cup {target}) = Cardinality(Owners(t)) + 1
        BY FiniteSeats, FS_AddElement
      <4>2. QED
        BY <4>1, FiniteSeats
    <3>6. Cardinality(Owners(t)') <= Cardinality(Owners(t) \cup {target})
      BY <3>4, <3>5, FS_Subset
    <3>7. ceiling' = ceiling
      BY <2>1 DEF tenants
    <3>8. QED
      BY <3>2, <3>3, <3>5, <3>6, <3>7, <1>c, FiniteSeats, FiniteSeatsLater DEF SeatsOf
  <2>5. QED
    BY <2>3, <2>4
<1>10. ASSUME NEW r \in Requests, NEW n \in Tenants, Accept(r, n) PROVE SeatsOf(t)'
  <2>1. UNCHANGED tenants
    BY <1>10 DEF Accept
  <2>2. CASE Answer(r) /\ UNCHANGED profiles
    BY <1>5, <2>1, <2>2
  <2>3. CASE /\ tenantOf' = [tenantOf EXCEPT ![req[r].target] = n]
             /\ role' = [role EXCEPT ![req[r].target] = "sme"]
             /\ pc' = [pc EXCEPT ![r] = "accepted"]
             /\ req' = [req EXCEPT ![r].tenant = n]
    <3>1. Owners(t)' \subseteq Owners(t)
      BY <2>3, <1>t DEF Owners, Members, TypeOK
    <3>2. Joining(t)' \subseteq Joining(t)
      BY <1>3, <2>3, <1>t DEF TypeOK
    <3>3. QED
      BY <2>1, <3>1, <3>2, <1>c, NoMoreSeats DEF tenants
  <2>4. QED
    BY <1>10, <2>2, <2>3 DEF Accept
<1>11. ASSUME NEW r \in Requests, AcceptClose(r) PROVE SeatsOf(t)'
  BY <1>5, <1>11 DEF AcceptClose
<1>12. ASSUME NEW n \in Tenants, NEW p \in Plans, SetPlan(n, p) PROVE SeatsOf(t)'
  <2>1. ceiling[t] <= ceiling'[t]
    <3>1. MaxUsers[p] \in Nat
      OBVIOUS
    <3>2. ceiling' = [ceiling EXCEPT ![n] = Larger(@, MaxUsers[p])]
      BY <1>12 DEF SetPlan
    <3>3. ceiling'[t] = IF t = n THEN Larger(ceiling[t], MaxUsers[p]) ELSE ceiling[t]
      BY <3>2, <1>t DEF TypeOK
    <3>4. QED
      BY <3>1, <3>3, <1>c DEF Larger
  <2>2. QED
    BY <1>1, <1>12, <2>1 DEF SetPlan
<1>13. ASSUME UNCHANGED <<profiles, ceiling, requests>> PROVE SeatsOf(t)'
  BY <1>1, <1>13, <1>c
<1>14. ASSUME NEW l \in Loops, Crash(l) PROVE SeatsOf(t)'
  <2>1. Joining(t)' \subseteq Joining(t)
    BY <1>14 DEF Crash, Joining
  <2>2. QED
    BY <1>0, <1>14, <2>1, <1>c DEF Crash, tenants
<1>15. ASSUME NEW r \in Requests, NEW u \in Users, NEW v \in Users, RequestJoin(r, u, v)
       PROVE  SeatsOf(t)'
  BY <1>6, <1>15 DEF RequestJoin
<1>16. ASSUME NEW r \in Requests, NEW u \in Users, RequestAccept(r, u) PROVE SeatsOf(t)'
  BY <1>6, <1>16 DEF RequestAccept
<1>17. CASE UNCHANGED vars
  BY <1>13, <1>17 DEF vars, tenants
<1>18. ASSUME NEW u \in Users, NEW v \in Users, Invite(u, v) \/ Checkout(u) \/ Stock(u)
       PROVE  SeatsOf(t)'
  BY <1>13, <1>18 DEF Invite, Checkout, Stock, tenants
<1>19. ASSUME NEW i \in invites, InviteExpires(i) PROVE SeatsOf(t)'
  BY <1>13, <1>19 DEF InviteExpires, tenants
<1>20. ASSUME NEW n \in Tenants, SessionExpires(n) PROVE SeatsOf(t)'
  BY <1>13, <1>20 DEF SessionExpires, tenants
<1>21. QED
  BY <1>2, <1>7, <1>8, <1>9, <1>10, <1>11, <1>12, <1>14, <1>15, <1>16, <1>17, <1>18, <1>19,
     <1>20 DEF Next, HandlerStep, Paid, SubscriptionEnds

LEMMA SeatsToBeginWith == Init => \A t \in Tenants : SeatsOf(t)
<1> SUFFICES ASSUME Init, NEW t \in Tenants PROVE SeatsOf(t)
  OBVIOUS
<1> USE Limits
<1>1. Joining(t) = {}
  BY DEF Init, Joining
<1>2. Cardinality(Owners(t)) <= 1
  <2>1. \A u, v \in Owners(t) : u = v
    BY DEF Init, Owners, Members
  <2>2. CASE Owners(t) = {}
    BY <2>2, FS_EmptySet
  <2>3. CASE Owners(t) # {}
    <3>1. PICK u : Owners(t) = {u}
      BY <2>1, <2>3
    <3>2. Cardinality({u}) = 1
      BY FS_Singleton
    <3>3. QED
      BY <3>1, <3>2
  <2>4. QED
    BY <2>2, <2>3
<1>3. ceiling[t] \in Nat /\ ceiling[t] >= 1
  BY DEF Init
<1>4. Cardinality(Joining(t)) = 0
  BY <1>1, FS_EmptySet
<1>5. QED
  BY <1>2, <1>3, <1>4, FiniteSeats DEF SeatsOf

\* Manual joins overbook no tenant: its owners are at most as many as a plan it
\* was on ever allowed, plus one per further loop.
THEOREM JoinsKeepSeatsAlways == Spec => []JoinsKeepSeats
<1>1. Init => JoinsKeepSeats
  BY SeatsToBeginWith, SeatsAreCounted
<1>2. AccessInv /\ AccessInv' /\ JoinsKeepSeats /\ [Next]_vars => JoinsKeepSeats'
  <2> SUFFICES ASSUME AccessInv, AccessInv', JoinsKeepSeats, [Next]_vars
               PROVE  JoinsKeepSeats'
    OBVIOUS
  <2>1. \A t \in Tenants : SeatsOf(t)'
    BY SeatsKept, SeatsAreCounted
  <2>2. QED
    BY <2>1 DEF JoinsKeepSeats, SeatsOf, Owners
<1>3. QED
  BY <1>1, <1>2, AccessInvAlways, PTL DEF Spec
-----------------------------------------------------------------------------
(***************************************************************************)
(* Where all requests run on one loop, nothing comes between what a join   *)
(* checks of its target's team and the move.  With two loops the target's  *)
(* tenant can take somebody in meanwhile.                                  *)
(***************************************************************************)
OneLoop == \A q, r \in Requests : LoopOf[q] = LoopOf[r]

MoversAreAlone ==
  \A r \in Requests :
    pc[r] = "move" =>
      /\ tenantOf[req[r].target] # None
      /\ Members(tenantOf[req[r].target]) = {req[r].target}

LEMMA MoversStayAlone ==
  ASSUME OneLoop, AccessInv, AccessInv', MoversAreAlone, [Next]_vars
  PROVE  MoversAreAlone' /\ LeavesNobody
<1> USE Limits
<1>t. TypeOK /\ CeilingsHold /\ TypeOK'
  BY DEF AccessInv
<1>one. \A q, r \in Requests : Running(q) /\ Running(r) => q = r
  BY DEF OneLoop, AccessInv, OneRuns
<1>0. ASSUME UNCHANGED tenantOf,
             \A r \in Requests : pc'[r] = "move" => pc[r] = "move" /\ req'[r] = req[r]
      PROVE  MoversAreAlone' /\ LeavesNobody
  <2>1. \A t : Members(t)' = Members(t)
    BY <1>0 DEF Members
  <2>2. MoversAreAlone'
    BY <1>0, <2>1 DEF MoversAreAlone, Members
  <2>3. LeavesNobody
    BY <1>0 DEF LeavesNobody
  <2>4. QED
    BY <2>2, <2>3
<1>1. ASSUME UNCHANGED <<profiles, requests>> PROVE MoversAreAlone' /\ LeavesNobody
  BY <1>0, <1>1 DEF profiles, requests
<1>2. ASSUME NEW r \in Requests, NEW label, label # "move", UNCHANGED profiles,
             pc' = [pc EXCEPT ![r] = label],
             \A q \in Requests \ {r} : req'[q] = req[q]
      PROVE  MoversAreAlone' /\ LeavesNobody
  <2>1. \A q \in Requests : pc'[q] = "move" => q # r /\ pc[q] = "move"
    BY <1>2, <1>t DEF TypeOK
  <2>2. QED
    BY <1>0, <1>2, <2>1 DEF profiles
<1>3. ASSUME NEW r \in Requests, Answer(r), UNCHANGED profiles
      PROVE  MoversAreAlone' /\ LeavesNobody
  BY <1>2, <1>3, <1>t DEF Answer, TypeOK
<1>4. ASSUME NEW u \in Users, NEW n \in Tenants, Signup(u, n)
      PROVE  MoversAreAlone' /\ LeavesNobody
  <2>1. CASE UNCHANGED profiles
    BY <1>1, <1>4, <2>1 DEF Signup
  <2>2. CASE tenantOf' = [tenantOf EXCEPT ![u] = n]
    <3>1. tenantOf[u] = None /\ n \notin founded /\ UNCHANGED requests
      BY <1>4 DEF Signup
    <3>2. \A v \in Users : tenantOf[v] # None => tenantOf'[v] = tenantOf[v] /\ tenantOf[v] # n
      BY <2>2, <3>1, <1>t DEF TypeOK
    <3>3. \A t \in founded : Members(t)' = Members(t)
      <4>1. \A t \in founded : t # n /\ t # None
        BY <3>1, <1>t DEF TypeOK
      <4>2. \A v \in Users : tenantOf'[v] = tenantOf[v] \/ (v = u /\ tenantOf'[v] = n)
        BY <2>2, <1>t DEF TypeOK
      <4>3. QED
        BY <3>1, <4>1, <4>2 DEF Members
    <3>4. MoversAreAlone'
      <4> SUFFICES ASSUME NEW r \in Requests, pc'[r] = "move"
                   PROVE  /\ tenantOf'[req'[r].target] # None
                          /\ (Members(tenantOf[req[r].target]))' = {req'[r].target}
        BY DEF MoversAreAlone
      <4> DEFINE target == req[r].target
      <4>1. pc[r] = "move" /\ req' = req
        BY <3>1 DEF requests
      <4>2. target \in Users /\ tenantOf[target] # None /\ Members(tenantOf[target]) = {target}
        BY <4>1, <1>t DEF MoversAreAlone, CeilingsHold
      <4>3. tenantOf[target] \in founded /\ tenantOf'[target] = tenantOf[target]
        BY <4>2, <3>2, <1>t DEF TypeOK
      <4>4. Members(tenantOf[target])' = Members(tenantOf[target])
        BY <4>1, <4>3, <3>3 DEF Members
      <4>5. QED
        BY <4>1, <4>2, <4>3, <4>4 DEF Members
    <3>5. LeavesNobody
      BY <3>2 DEF LeavesNobody
    <3>6. QED
      BY <3>4, <3>5
  <2>3. QED
    BY <1>4, <2>1, <2>2 DEF Signup
<1>5. ASSUME NEW r \in Requests, NEW u \in Users, NEW kind \in {"join", "accept"}, NEW request,
             Verify(r, kind, u, request)
      PROVE  MoversAreAlone' /\ LeavesNobody
  BY <1>2, <1>5, <1>t DEF Verify, TypeOK
<1>6. ASSUME NEW r \in Requests, JoinCount(r) PROVE MoversAreAlone' /\ LeavesNobody
  <2>1. CASE Goto(r, "clear")
    BY <1>2, <1>6, <2>1 DEF JoinCount, Goto
  <2>2. CASE Answer(r)
    BY <1>3, <1>6, <2>2 DEF JoinCount
  <2>3. QED
    BY <1>6, <2>1, <2>2 DEF JoinCount
<1>7. ASSUME NEW r \in Requests, JoinClear(r) PROVE MoversAreAlone' /\ LeavesNobody
  <2> DEFINE target == req[r].target
  <2>1. CASE Answer(r)
    BY <1>3, <1>7, <2>1 DEF JoinClear
  <2>2. CASE Goto(r, "move") /\ tenantOf[target] # None /\ Unblocked(tenantOf[target])
    <3>1. target \in Users
      BY <1>7, <1>t DEF JoinClear, CeilingsHold
    <3>2. Members(tenantOf[target]) = {target}
      <4>1. target \in Members(tenantOf[target])
        BY <3>1 DEF Members
      <4>2. Cardinality(Members(tenantOf[target])) <= 1
        BY <2>2 DEF Unblocked
      <4>3. Cardinality(Members(tenantOf[target])) \in Nat /\ IsFiniteSet(Members(tenantOf[target]))
        BY FiniteSeats
      <4>4. Cardinality(Members(tenantOf[target])) # 0
        BY <4>1, <4>3, FS_EmptySet
      <4>5. Cardinality(Members(tenantOf[target])) = 1
        BY <4>2, <4>3, <4>4
      <4>6. PICK v : Members(tenantOf[target]) = {v}
        BY <4>3, <4>5, FS_Singleton
      <4>7. QED
        BY <4>1, <4>6
    <3>3. /\ UNCHANGED profiles /\ req' = req /\ pc'[r] = "move"
          /\ \A q \in Requests \ {r} : pc'[q] = pc[q]
      BY <1>7, <2>2, <1>t DEF JoinClear, Goto, TypeOK
    <3>4. tenantOf' = tenantOf
      BY <3>3 DEF profiles
    <3>5. MoversAreAlone'
      BY <2>2, <3>2, <3>3, <3>4 DEF MoversAreAlone, Members
    <3>6. LeavesNobody
      BY <3>4 DEF LeavesNobody
    <3>7. QED
      BY <3>5, <3>6
  <2>3. QED
    BY <1>7, <2>1, <2>2 DEF JoinClear
<1>8. ASSUME NEW r \in Requests, pc[r] = "move" \/ HasLoop(r),
             NEW label, label # "move", pc' = [pc EXCEPT ![r] = label]
      PROVE  MoversAreAlone'
  <2>1. \A q \in Requests \ {r} : pc[q] # "move"
    BY <1>8, <1>one DEF HasLoop, OneLoop, Running
  <2>2. \A q \in Requests : pc'[q] # "move"
    BY <1>8, <2>1, <1>t DEF TypeOK
  <2>3. QED
    BY <2>2 DEF MoversAreAlone
<1>9. ASSUME NEW r \in Requests, JoinMove(r) PROVE MoversAreAlone' /\ LeavesNobody
  <2>1. MoversAreAlone'
    BY <1>8, <1>9 DEF JoinMove, Answer
  <2>2. Members(tenantOf[req[r].target]) = {req[r].target}
    BY <1>9 DEF JoinMove, MoversAreAlone
  <2>3. \A u \in Users : tenantOf'[u] # tenantOf[u] => u = req[r].target
    BY <1>9, <1>t DEF JoinMove, TypeOK
  <2>4. LeavesNobody
    BY <2>2, <2>3 DEF LeavesNobody
  <2>5. QED
    BY <2>1, <2>4
<1>10. ASSUME NEW r \in Requests, NEW n \in Tenants, Accept(r, n)
       PROVE  MoversAreAlone' /\ LeavesNobody
  <2> DEFINE user == req[r].target
  <2>1. CASE Answer(r) /\ UNCHANGED profiles
    BY <1>3, <2>1
  <2>2. CASE /\ tenantOf' = [tenantOf EXCEPT ![user] = n]
             /\ role' = [role EXCEPT ![user] = "sme"]
             /\ pc' = [pc EXCEPT ![r] = "accepted"]
    <3>1. MoversAreAlone'
      BY <1>8, <1>10, <2>2 DEF Accept
    <3>2. \A u \in Users : tenantOf'[u] # tenantOf[u] => role'[u] = "sme"
      BY <2>2, <1>t DEF TypeOK
    <3>3. LeavesNobody
      BY <3>2 DEF LeavesNobody
    <3>4. QED
      BY <3>1, <3>3
  <2>3. QED
    BY <1>10, <2>1, <2>2 DEF Accept
<1>11. ASSUME NEW r \in Requests, AcceptClose(r) PROVE MoversAreAlone' /\ LeavesNobody
  BY <1>3, <1>11 DEF AcceptClose
<1>12. ASSUME NEW l \in Loops, Crash(l) PROVE MoversAreAlone' /\ LeavesNobody
  BY <1>0, <1>12 DEF Crash, profiles
<1>13. ASSUME NEW r \in Requests, NEW u \in Users, NEW v \in Users, RequestJoin(r, u, v)
       PROVE  MoversAreAlone' /\ LeavesNobody
  BY <1>5, <1>13 DEF RequestJoin
<1>14. ASSUME NEW r \in Requests, NEW u \in Users, RequestAccept(r, u)
       PROVE  MoversAreAlone' /\ LeavesNobody
  BY <1>5, <1>14 DEF RequestAccept
<1>15. CASE UNCHANGED vars
  BY <1>1, <1>15 DEF vars
<1>16. QED
  BY <1>1, <1>4, <1>6, <1>7, <1>9, <1>10, <1>11, <1>12, <1>13, <1>14, <1>15
     DEF Next, HandlerStep, Invite, InviteExpires, Checkout, Stock, Paid, SetPlan,
         SessionExpires, SubscriptionEnds

\* With one loop a manual join leaves no colleague behind.
THEOREM JoinsSplitNoTeamOnOneLoop ==
  ASSUME OneLoop
  PROVE  Spec => JoinsSplitNoTeam
<1>1. Init => MoversAreAlone
  BY DEF Init, MoversAreAlone
<1>2. MoversAreAlone /\ AccessInv /\ AccessInv' /\ [Next]_vars => MoversAreAlone'
  BY MoversStayAlone
<1>3. MoversAreAlone /\ AccessInv /\ AccessInv' /\ [Next]_vars => [LeavesNobody]_vars
  BY MoversStayAlone
<1>4. QED
  BY <1>1, <1>2, <1>3, AccessInvAlways, PTL DEF Spec, JoinsSplitNoTeam
=============================================================================
