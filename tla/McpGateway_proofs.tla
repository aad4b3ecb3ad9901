-------------------------- MODULE McpGateway_proofs --------------------------
(***************************************************************************)
(* What the metering of runs promises, for any number of loops, workers    *)
(* and calls; and that the gateway only restricts its parts: seen as a     *)
(* metering of runs it is RunMetering, seen as a set of keys it is         *)
(* ApiKeys.  So what is proved of the parts holds of the whole.            *)
(***************************************************************************)
EXTENDS McpGateway, FiniteSetTheorems, TLAPS

LEMMA InitType == Init => TypeOK
  BY PlansAssumption DEF Init, TypeOK, Caps

LEMMA StepType == TypeOK /\ [Next]_vars => TypeOK'
<1> SUFFICES ASSUME TypeOK, [Next]_vars PROVE TypeOK'
  OBVIOUS
<1> USE PlansAssumption DEF TypeOK, Caps, Goto
<1>1. ASSUME NEW w \in Workers, WorkerStep(w) PROVE TypeOK'
  <2>1. CASE Receive(w)
    BY <2>1 DEF Receive
  <2>2. CASE Fence(w)
    BY <2>2 DEF Fence
  <2>3. CASE Load(w)
    BY <2>3 DEF Load
  <2>4. CASE Answer(w)
    BY <2>4 DEF Answer
  <2>5. CASE Record(w)
    BY <2>5 DEF Record
  <2>6. QED
    BY <1>1, <2>1, <2>2, <2>3, <2>4, <2>5 DEF WorkerStep
<1>2. ASSUME NEW p \in Plans, PlanChanges(p) PROVE TypeOK'
  BY <1>2 DEF PlanChanges
<1>3. CASE DocumentsChange
  BY <1>3 DEF DocumentsChange
<1>4. CASE MonthBegins
  BY <1>4 DEF MonthBegins, PlansInForce
<1>5. CASE Crash
  BY <1>5 DEF Crash
<1>6. CASE UNCHANGED vars
  BY <1>6 DEF vars
<1>7. QED
  BY <1>1, <1>2, <1>3, <1>4, <1>5, <1>6 DEF Next

(***************************************************************************)
(* However calls overlap and fail, the metering keeps its types.           *)
(***************************************************************************)
THEOREM TypeCorrect == Spec => []TypeOK
  BY InitType, StepType, PTL DEF Spec

(***************************************************************************)
(* Whatever plan a fence goes by was in force this month: the ceiling      *)
(* covers it.                                                              *)
(***************************************************************************)
CeilingCovers == \A p \in PlansInForce : RunsPerMonth[p] <= ceiling

Inv == TypeOK /\ CeilingCovers

LEMMA InitCovers == Init => CeilingCovers
  BY PlansAssumption DEF Init, CeilingCovers, PlansInForce

LEMMA StepCovers ==
  ASSUME Inv, [Next]_vars
  PROVE  CeilingCovers'
<1> USE PlansAssumption DEF Inv, TypeOK, CeilingCovers, PlansInForce, Caps
<1>1. ASSUME ceiling' = ceiling, plan' = plan, snap' = snap,
             \A w \in Workers : pc'[w] = "fence" => pc[w] = "fence"
      PROVE  CeilingCovers'
  BY <1>1
<1>2. ASSUME NEW w \in Workers, Receive(w) PROVE CeilingCovers'
  <2>1. RunsPerMonth[FreePlan] <= ceiling /\ RunsPerMonth[plan] <= ceiling
    OBVIOUS
  <2>2. \A u \in Workers : pc'[u] = "fence" =>
          snap'[u] \in {plan, FreePlan} \/ (snap'[u] = snap[u] /\ pc[u] = "fence")
    BY <1>2 DEF Receive, Goto
  <2>3. QED
    BY <1>2, <2>1, <2>2 DEF Receive
<1>3. ASSUME NEW w \in Workers, Fence(w) \/ Load(w) \/ Answer(w) \/ Record(w)
      PROVE  CeilingCovers'
  <2>1. \E label \in {"idle", "load", "answer", "record"} : Goto(w, label)
    BY <1>3 DEF Fence, Load, Answer, Record
  <2>2. \A u \in Workers : pc'[u] = "fence" => pc[u] = "fence"
    BY <2>1 DEF Goto
  <2>3. ceiling' = ceiling /\ plan' = plan /\ snap' = snap
    BY <1>3 DEF Fence, Load, Answer, Record
  <2>4. QED
    BY <1>1, <2>2, <2>3
<1>4. ASSUME NEW p \in Plans, PlanChanges(p) PROVE CeilingCovers'
  BY <1>4 DEF PlanChanges
<1>5. CASE MonthBegins
  BY <1>5 DEF MonthBegins
<1>6. CASE DocumentsChange \/ Crash \/ UNCHANGED vars
  BY <1>1, <1>6 DEF DocumentsChange, Crash, vars
<1>7. QED
  BY <1>2, <1>3, <1>4, <1>5, <1>6 DEF Next, WorkerStep

LEMMA Invariance == Spec => []Inv
<1>1. Init => Inv
  BY InitType, InitCovers DEF Inv
<1>2. Inv /\ [Next]_vars => Inv'
  BY StepType, StepCovers DEF Inv
<1>3. QED
  BY <1>1, <1>2, PTL DEF Spec

-----------------------------------------------------------------------------
(***************************************************************************)
(* How a worker's move changes the number of admitted runs.                *)
(***************************************************************************)
Past == {"load", "answer", "record"}

LEMMA AdmittedFinite ==
  /\ IsFiniteSet(Admitted) /\ Cardinality(Admitted) \in 0..Cardinality(Workers)
  /\ Cardinality(Workers) \in Nat \ {0}
<1>1. Admitted \in SUBSET Workers
  BY DEF Admitted
<1>2. IsFiniteSet(Admitted) /\ Cardinality(Admitted) <= Cardinality(Workers)
  BY <1>1, WorkersAssumption, FS_Subset
<1>3. Cardinality(Admitted) \in Nat /\ Cardinality(Workers) \in Nat
  BY <1>2, WorkersAssumption, FS_CardinalityType
<1>4. Cardinality(Workers) # 0
  BY WorkersAssumption, FS_EmptySet
<1>5. QED
  BY <1>2, <1>3, <1>4

LEMMA Enters ==
  ASSUME TypeOK, NEW w \in Workers, pc[w] \notin Past, NEW label \in Past, Goto(w, label)
  PROVE  /\ Cardinality(Admitted)' = Cardinality(Admitted) + 1
         /\ Cardinality(Admitted) < Cardinality(Workers)
<1>1. Admitted' = Admitted \cup {w} /\ w \notin Admitted
  BY DEF Admitted, Goto, TypeOK, Past
<1>2. Cardinality(Admitted') = Cardinality(Admitted) + 1
  BY <1>1, AdmittedFinite, FS_AddElement
<1>3. Admitted' \in SUBSET Workers
  BY DEF Admitted
<1>4. Cardinality(Admitted') <= Cardinality(Workers)
  BY <1>3, WorkersAssumption, FS_Subset
<1>5. QED
  BY <1>2, <1>4, AdmittedFinite

LEMMA Leaves ==
  ASSUME TypeOK, NEW w \in Workers, pc[w] \in Past, Goto(w, "idle")
  PROVE  Cardinality(Admitted)' = Cardinality(Admitted) - 1
<1>1. Admitted' = Admitted \ {w} /\ w \in Admitted
  BY DEF Admitted, Goto, TypeOK, Past
<1>2. QED
  BY <1>1, AdmittedFinite, FS_RemoveElement

LEMMA Stays ==
  ASSUME TypeOK, NEW w \in Workers, NEW label, Goto(w, label),
         pc[w] \in Past <=> label \in Past
  PROVE  Cardinality(Admitted)' = Cardinality(Admitted)
<1>1. Admitted' = Admitted
  BY DEF Admitted, Goto, TypeOK, Past
<1>2. QED
  BY <1>1

-----------------------------------------------------------------------------
(***************************************************************************)
(* Every step of the fences is a step of the quota, or none.               *)
(***************************************************************************)
LEMMA Abandons ==
  ASSUME ceiling' = ceiling, events' = events, NEW n \in 0..Cardinality(Admitted),
         Cardinality(Admitted)' = n
  PROVE  Q!Abandon
  BY DEF Q!Abandon

LEMMA WorkerRefines ==
  ASSUME Inv, "count" \notin Faults, NEW w \in Workers, WorkerStep(w)
  PROVE  [Q!Next]_(Q!vars)
<1>1. TypeOK /\ pc[w] \in {"idle", "fence", "load", "answer", "record"}
  BY DEF Inv, TypeOK
<1>2. ASSUME Cardinality(Admitted)' = Cardinality(Admitted),
             ceiling' = ceiling, events' = events
      PROVE  [Q!Next]_(Q!vars)
  BY <1>2 DEF Q!vars
<1>3. ASSUME pc[w] \in Past, Goto(w, "idle"), ceiling' = ceiling, events' = events
      PROVE  Q!Next
  <2>1. Cardinality(Admitted)' = Cardinality(Admitted) - 1
    BY <1>1, <1>3, Leaves
  <2>2. w \in Admitted
    BY <1>3 DEF Admitted, Past
  <2>3. Cardinality(Admitted) # 0
    BY <2>2, AdmittedFinite, FS_EmptySet
  <2>4. Cardinality(Admitted) - 1 \in 0..Cardinality(Admitted)
    BY <2>3, AdmittedFinite
  <2>5. Q!Abandon
    BY <1>3, <2>1, <2>4, Abandons
  <2>6. QED
    BY <2>5 DEF Q!Next
<1>4. CASE Receive(w)
  <2>1. Cardinality(Admitted)' = Cardinality(Admitted)
    BY <1>1, <1>4, Stays DEF Receive, Past
  <2>2. QED
    BY <1>2, <1>4, <2>1 DEF Receive
<1>5. CASE Fence(w)
  <2>1. pc[w] = "fence" /\ ceiling' = ceiling /\ events' = events
    BY <1>5 DEF Fence
  <2>2. \/ Remaining(w) > 0 /\ Goto(w, "load")
        \/ Goto(w, "idle")
    BY <1>5 DEF Fence, Fault
  <2>3. CASE Remaining(w) > 0 /\ Goto(w, "load")
    <3>1. /\ Cardinality(Admitted)' = Cardinality(Admitted) + 1
          /\ Cardinality(Admitted) < Cardinality(Workers)
      BY <1>1, <2>1, <2>3, Enters DEF Past
    <3>2. RunsPerMonth[snap[w]] <= ceiling
      BY <2>1 DEF Inv, CeilingCovers, PlansInForce
    <3>3. RunsPerMonth[snap[w]] \in Nat /\ ceiling \in Nat /\ events \in Nat
      BY <1>1, PlansAssumption DEF TypeOK, Caps
    <3>4. events < ceiling
      BY <2>3, <3>2, <3>3 DEF Remaining
    <3>5. Q!Admit
      BY <2>1, <3>1, <3>4 DEF Q!Admit
    <3>6. QED
      BY <3>5 DEF Q!Next
  <2>4. CASE Goto(w, "idle")
    <3>1. Cardinality(Admitted)' = Cardinality(Admitted)
      BY <1>1, <2>1, <2>4, Stays DEF Past
    <3>2. QED
      BY <1>2, <2>1, <3>1
  <2>5. QED
    BY <2>2, <2>3, <2>4
<1>6. CASE Load(w) \/ Answer(w)
  <2>1. pc[w] \in Past /\ ceiling' = ceiling /\ events' = events
    BY <1>6 DEF Load, Answer, Past
  <2>2. Goto(w, "idle") \/ \E label \in Past : Goto(w, label)
    BY <1>6 DEF Load, Answer, Past
  <2>3. CASE Goto(w, "idle")
    BY <1>3, <2>1, <2>3
  <2>4. CASE \E label \in Past : Goto(w, label)
    <3>1. Cardinality(Admitted)' = Cardinality(Admitted)
      BY <1>1, <2>1, <2>4, Stays
    <3>2. QED
      BY <1>2, <2>1, <3>1
  <2>5. QED
    BY <2>2, <2>3, <2>4
<1>7. CASE Record(w)
  <2>1. pc[w] \in Past /\ ceiling' = ceiling /\ Goto(w, "idle")
    BY <1>7 DEF Record, Past
  <2>2. events' = events + 1 \/ events' = events
    BY <1>7 DEF Record
  <2>3. CASE events' = events
    BY <1>3, <2>1, <2>3
  <2>4. CASE events' = events + 1
    <3>1. Cardinality(Admitted)' = Cardinality(Admitted) - 1
      BY <1>1, <2>1, Leaves
    <3>2. w \in Admitted
      BY <2>1 DEF Admitted, Past
    <3>3. Cardinality(Admitted) # 0
      BY <3>2, AdmittedFinite, FS_EmptySet
    <3>4. Cardinality(Admitted) > 0
      BY <3>3, AdmittedFinite
    <3>5. Q!Charge
      BY <2>1, <2>4, <3>1, <3>4 DEF Q!Charge
    <3>6. QED
      BY <3>5 DEF Q!Next
  <2>5. QED
    BY <2>2, <2>3, <2>4
<1>8. QED
  BY <1>4, <1>5, <1>6, <1>7 DEF WorkerStep

LEMMA SurroundingsRefine ==
  ASSUME Inv,
         (\E p \in Plans : PlanChanges(p)) \/ DocumentsChange \/ MonthBegins
           \/ Crash \/ UNCHANGED vars
  PROVE  [Q!Next]_(Q!vars)
<1>1. ceiling \in Caps /\ Caps \subseteq Nat
  BY PlansAssumption DEF Inv, TypeOK, Caps
<1>2. ASSUME pc' = pc PROVE Cardinality(Admitted)' = Cardinality(Admitted)
  <2>1. Admitted' = Admitted
    BY <1>2 DEF Admitted
  <2>2. QED
    BY <2>1
<1>3. ASSUME NEW p \in Plans, PlanChanges(p) PROVE Q!Raise
  <2>1. RunsPerMonth[p] \in Caps /\ RunsPerMonth[p] \in Nat /\ ceiling \in Nat
    BY <1>1, PlansAssumption DEF Caps
  <2>2. PICK c \in Caps : c = ceiling' /\ c >= ceiling
    BY <1>1, <1>3, <2>1 DEF PlanChanges
  <2>3. QED
    BY <1>2, <1>3, <2>2 DEF PlanChanges, Q!Raise
<1>4. ASSUME MonthBegins PROVE Q!NewPeriod
  <2>1. ceiling' \in Caps
    BY <1>4 DEF MonthBegins, PlansInForce, Caps, Inv, TypeOK
  <2>2. QED
    BY <1>2, <1>4, <2>1 DEF MonthBegins, Q!NewPeriod
<1>5. ASSUME DocumentsChange \/ UNCHANGED vars PROVE UNCHANGED Q!vars
  BY <1>2, <1>5 DEF DocumentsChange, vars, Q!vars
<1>6. ASSUME Crash PROVE Q!Abandon
  <2>1. Admitted' = {}
    BY <1>6 DEF Crash, Admitted
  <2>2. Cardinality(Admitted)' = 0
    BY <2>1, FS_EmptySet
  <2>3. 0 \in 0..Cardinality(Admitted)
    BY AdmittedFinite
  <2>4. QED
    BY <1>6, <2>2, <2>3, Abandons DEF Crash
<1>7. QED
  BY <1>3, <1>4, <1>5, <1>6 DEF Q!Next

(***************************************************************************)
(* corpus.py and mcp_gateway.py implement Quota: both fences admit a run   *)
(* only below a cap some plan set this month, and charge it at most once.  *)
(***************************************************************************)
THEOREM RunsImplementQuota ==
  ASSUME "count" \notin Faults
  PROVE  Spec => ImplementsQuota
<1>1. Init => Q!Init
  <2>1. SUFFICES ASSUME Init PROVE Q!Init
    OBVIOUS
  <2>2. Admitted = {}
    BY <2>1 DEF Init, Admitted
  <2>3. Cardinality(Admitted) = 0
    BY <2>2, FS_EmptySet
  <2>4. ceiling \in Caps
    BY <2>1 DEF Init, Caps
  <2>5. QED
    BY <2>1, <2>3, <2>4 DEF Init, Q!Init
<1>2. Inv /\ [Next]_vars => [Q!Next]_(Q!vars)
  BY WorkerRefines, SurroundingsRefine, PlansAssumption DEF Next
<1>3. QED
  BY <1>1, <1>2, Invariance, PTL DEF Spec, ImplementsQuota, Q!Spec

(***************************************************************************)
(* billing_plans.py:20, "every tier carries a finite monthly cap": it is   *)
(* overrun by less than the number of workers, provided the count can be   *)
(* read.                                                                   *)
(***************************************************************************)
THEOREM FiniteMonthlyCapAlways ==
  ASSUME "count" \notin Faults
  PROVE  Spec => []FiniteMonthlyCap
<1>1. Caps \subseteq Nat \ {0} /\ Cardinality(Workers) \in Nat \ {0}
  BY PlansAssumption, AdmittedFinite DEF Caps
<1>2. Q!Spec => [](Q!TypeOK /\ Q!BoundedOverrun)
  BY <1>1, Q!QuotaBounded DEF Q!QuotaAssumption
<1>3. Q!BoundedOverrun => FiniteMonthlyCap
  BY DEF Q!BoundedOverrun, FiniteMonthlyCap
<1>4. QED
  BY <1>2, <1>3, RunsImplementQuota, PTL DEF ImplementsQuota

-----------------------------------------------------------------------------
LEMMA GatewayIsMetering == GatewaySpec => Spec
<1>1. GatewayInit => Init
  BY DEF GatewayInit
<1>2. [GatewayNext]_gatewayVars => [Next]_vars
  <2> SUFFICES ASSUME GatewayNext PROVE [Next]_vars
    BY DEF gatewayVars, vars
  <2>1. ASSUME NEW l \in Loops, CallTool(l) PROVE Next
    BY <2>1 DEF CallTool, Next, WorkerStep, Workers
  <2>2. ASSUME NEW l \in Loops,
               Reply(l) \/ \E i \in 1..Len(keys) : Post(l, i) \/ Serve(l, i)
        PROVE  UNCHANGED vars
    BY <2>2 DEF Reply, Post, Serve, vars
  <2>3. ASSUME NEW w \in Pool, PoolReceives(w) PROVE Next
    BY <2>3 DEF PoolReceives, Next, WorkerStep, Workers
  <2>4. ASSUME NEW w \in Workers, RunStep(w) PROVE Next
    BY <2>4 DEF RunStep, Next, WorkerStep
  <2>5. CASE KeysStep
    BY <2>5 DEF KeysStep, vars
  <2>6. CASE Surroundings
    BY <2>6 DEF Surroundings, Next
  <2>7. CASE GatewayCrash
    BY <2>7 DEF GatewayCrash, Next
  <2>8. QED
    BY <2>1, <2>2, <2>3, <2>4, <2>5, <2>6, <2>7 DEF GatewayNext
<1>3. QED
  BY <1>1, <1>2, PTL DEF GatewaySpec, Spec

-----------------------------------------------------------------------------
(***************************************************************************)
(* The keys of a tenant by themselves (ApiKeys), for any limit, any page   *)
(* and any number of threads.                                              *)
(***************************************************************************)
LEMMA CardinalitiesAgree ==
  /\ \A S : K!Cardinality(S) = Cardinality(S)
  /\ \A S : K!IsFiniteSet(S) <=> IsFiniteSet(S)
  BY Zenon DEF K!Cardinality, Cardinality, K!IsFiniteSet, IsFiniteSet

LEMMA KeyLimits ==
  /\ IsFiniteSet(Minters) /\ Minters # {}
  /\ MaxActiveKeys \in Nat \ {0} /\ PageSize \in Nat \ {0}
  BY KeysAssumption, CardinalitiesAgree DEF K!LimitsAssumption

\* What the page shows, and the threads that mint, are finitely many.
LEMMA PageFinite ==
  ASSUME K!TypeOK
  PROVE  /\ IsFiniteSet(K!ActiveAmong(K!Listed))
         /\ Cardinality(K!ActiveAmong(K!Listed)) \in Nat
         /\ Len(keys) \in Nat
<1>1. Len(keys) \in Nat
  BY DEF K!TypeOK
<1>2. IsFiniteSet(1..Len(keys))
  BY <1>1, FS_Interval
<1>3. K!ActiveAmong(K!Listed) \subseteq 1..Len(keys)
  BY DEF K!ActiveAmong, K!Listed
<1>4. QED
  BY <1>1, <1>2, <1>3, FS_Subset, FS_CardinalityType

LEMMA MintingFinite ==
  /\ IsFiniteSet(K!Minting) /\ Cardinality(K!Minting) \in Nat
  /\ Cardinality(Minters) \in Nat
  /\ Cardinality(K!Minting) <= Cardinality(Minters)
<1>1. K!Minting \subseteq Minters /\ IsFiniteSet(Minters)
  BY KeyLimits DEF K!Minting
<1>2. QED
  BY <1>1, FS_Subset, FS_CardinalityType

\* A key more, and the page moves on by a row.
LEMMA MintKeepsCap ==
  ASSUME K!TypeOK, K!ListedKeysCapped, NEW t \in Minters, K!MintKey(t),
         K!TypeOK'
  PROVE  K!ListedKeysCapped'
<1>1. /\ t \in K!Minting /\ K!Minting' = K!Minting \ {t}
  BY DEF K!MintKey, K!Minting, K!TypeOK
<1>2. Cardinality(K!Minting') = Cardinality(K!Minting) - 1
  BY <1>1, MintingFinite, FS_RemoveElement
<1>3. CASE UNCHANGED keys
  <2>1. K!ActiveAmong(K!Listed)' = K!ActiveAmong(K!Listed)
    BY <1>3 DEF K!ActiveAmong, K!Listed
  <2>2. Cardinality(K!ActiveAmong(K!Listed))' = Cardinality(K!ActiveAmong(K!Listed))
    BY <2>1
  <2>3. QED
    BY <1>2, <2>2, PageFinite, MintingFinite, KeyLimits, CardinalitiesAgree
        DEF K!ListedKeysCapped
<1>4. CASE keys' = Append(keys, "active")
  <2>1. K!ActiveAmong(K!Listed)' \subseteq K!ActiveAmong(K!Listed) \cup {Len(keys) + 1}
    BY <1>4, PageFinite, KeyLimits DEF K!ActiveAmong, K!Listed, K!TypeOK
  <2>2. Len(keys) + 1 \notin K!ActiveAmong(K!Listed)
    BY PageFinite DEF K!ActiveAmong, K!Listed
  <2>3. /\ IsFiniteSet(K!ActiveAmong(K!Listed) \cup {Len(keys) + 1})
        /\ Cardinality(K!ActiveAmong(K!Listed) \cup {Len(keys) + 1})
             = Cardinality(K!ActiveAmong(K!Listed)) + 1
    BY <2>2, PageFinite, FS_AddElement
  <2>4. Cardinality(K!ActiveAmong(K!Listed)') <= Cardinality(K!ActiveAmong(K!Listed)) + 1
    BY <2>1, <2>3, FS_Subset
  <2>5. Cardinality(K!ActiveAmong(K!Listed)') \in Nat
    BY <2>1, <2>3, FS_Subset, FS_CardinalityType
  <2>6. QED
    BY <1>2, <2>4, <2>5, PageFinite, MintingFinite, KeyLimits, CardinalitiesAgree
        DEF K!ListedKeysCapped
<1>5. QED
  BY <1>3, <1>4 DEF K!MintKey

(***************************************************************************)
(* create_key's limit, for any number of threads, any page and any number  *)
(* of keys: what the page shows never exceeds MAX_ACTIVE_KEYS by as much   *)
(* as the number of threads.                                               *)
(***************************************************************************)
THEOREM ListedKeysCappedAlways ==
  K!Spec => [](K!TypeOK /\ K!ListedKeysCapped)
<1>1. K!Init => K!TypeOK /\ K!ListedKeysCapped
  <2> SUFFICES ASSUME K!Init PROVE K!TypeOK /\ K!ListedKeysCapped
    OBVIOUS
  <2>1. K!TypeOK
    BY DEF K!Init, K!TypeOK
  <2>2. K!ActiveAmong(K!Listed) = {} /\ K!Minting = {}
    BY DEF K!Init, K!ActiveAmong, K!Listed, K!Minting
  <2>3. Cardinality(Minters) \in Nat /\ Cardinality(Minters) # 0
    BY KeyLimits, FS_EmptySet, FS_CardinalityType
  <2>4. QED
    BY <2>1, <2>2, <2>3, KeyLimits, CardinalitiesAgree, FS_EmptySet DEF K!ListedKeysCapped
<1>2. K!TypeOK /\ K!ListedKeysCapped /\ [K!Next]_(K!vars) => K!TypeOK' /\ K!ListedKeysCapped'
  <2> SUFFICES ASSUME K!TypeOK, K!ListedKeysCapped, [K!Next]_(K!vars)
               PROVE  K!TypeOK' /\ K!ListedKeysCapped'
    OBVIOUS
  <2>1. K!TypeOK'
    BY DEF K!TypeOK, K!Next, K!vars, K!Crash, K!CountKeys, K!MintKey, K!RevokeKey, K!ActiveAmong
  <2>2. ASSUME NEW t \in Minters, K!CountKeys(t) PROVE K!ListedKeysCapped'
    <3>1. K!ActiveAmong(K!Listed)' = K!ActiveAmong(K!Listed)
      BY <2>2 DEF K!CountKeys, K!ActiveAmong, K!Listed
    <3>2. Cardinality(K!ActiveAmong(K!Listed)) < MaxActiveKeys
      BY <2>2, CardinalitiesAgree DEF K!CountKeys, K!HasRoom
    <3>3. /\ K!Minting' \subseteq Minters /\ IsFiniteSet(Minters)
      BY KeyLimits DEF K!Minting
    <3>4. /\ Cardinality(K!Minting') \in Nat
          /\ Cardinality(K!Minting') <= Cardinality(Minters)
      BY <3>3, FS_Subset, FS_CardinalityType
    <3>5. Cardinality(K!ActiveAmong(K!Listed))' = Cardinality(K!ActiveAmong(K!Listed))
      BY <3>1
    <3>6. QED
      BY <3>2, <3>4, <3>5, PageFinite, MintingFinite, KeyLimits, CardinalitiesAgree
        DEF K!ListedKeysCapped
  <2>3. ASSUME NEW t \in Minters, K!MintKey(t) PROVE K!ListedKeysCapped'
    BY <2>1, <2>3, MintKeepsCap
  <2>4. ASSUME NEW i \in 1..Len(keys), K!RevokeKey(i) PROVE K!ListedKeysCapped'
    <3>1. K!ActiveAmong(K!Listed)' \subseteq K!ActiveAmong(K!Listed) /\ K!Minting' = K!Minting
      BY <2>4 DEF K!RevokeKey, K!ActiveAmong, K!Listed, K!Minting, K!TypeOK
    <3>2. /\ Cardinality(K!ActiveAmong(K!Listed)') <= Cardinality(K!ActiveAmong(K!Listed))
          /\ Cardinality(K!ActiveAmong(K!Listed)') \in Nat
      BY <3>1, PageFinite, FS_Subset, FS_CardinalityType
    <3>3. QED
      BY <3>1, <3>2, PageFinite, MintingFinite, KeyLimits, CardinalitiesAgree
        DEF K!ListedKeysCapped
  <2>5. ASSUME K!Crash PROVE K!ListedKeysCapped'
    <3>1. K!ActiveAmong(K!Listed)' = K!ActiveAmong(K!Listed) /\ K!Minting' = {}
      BY <2>5 DEF K!Crash, K!ActiveAmong, K!Listed, K!Minting
    <3>2. Cardinality(K!ActiveAmong(K!Listed))' = Cardinality(K!ActiveAmong(K!Listed))
      BY <3>1
    <3>3. Cardinality(K!Minting') = 0
      BY <3>1, FS_EmptySet
    <3>4. QED
      BY <3>2, <3>3, PageFinite, MintingFinite, KeyLimits, CardinalitiesAgree
        DEF K!ListedKeysCapped
  <2>6. ASSUME UNCHANGED K!vars PROVE K!ListedKeysCapped'
    BY <2>6 DEF K!vars, K!ListedKeysCapped, K!ActiveAmong, K!Listed, K!Minting
  <2>7. QED
    BY <2>1, <2>2, <2>3, <2>4, <2>5, <2>6 DEF K!Next
<1>3. QED
  BY <1>1, <1>2, PTL DEF K!Spec

LEMMA GatewayKeepsKeys == GatewaySpec => K!Spec
<1>1. GatewayInit => K!Init
  BY DEF GatewayInit
<1>2. [GatewayNext]_gatewayVars => [K!Next]_(K!vars)
  <2> SUFFICES ASSUME GatewayNext PROVE [K!Next]_(K!vars)
    BY DEF gatewayVars, keyVars, K!vars
  <2>1. CASE UNCHANGED keyVars
    BY <2>1 DEF keyVars, K!vars
  <2>2. CASE KeysStep
    BY <2>2 DEF KeysStep, K!Next
  <2>3. CASE GatewayCrash
    BY <2>3 DEF GatewayCrash, K!Next
  <2>4. ASSUME ~KeysStep, ~GatewayCrash PROVE UNCHANGED keyVars
    BY <2>4 DEF GatewayNext, CallTool, Reply, Post, Serve, PoolReceives, RunStep,
                Surroundings, keyVars
  <2>5. QED
    BY <2>1, <2>2, <2>3, <2>4
<1>3. QED
  BY <1>1, <1>2, PTL DEF GatewaySpec, K!Spec

(***************************************************************************)
(* "Every tier carries a finite monthly cap", with keys, batches and       *)
(* crashes of the gateway in play.                                         *)
(***************************************************************************)
THEOREM GatewayRunsCapped ==
  ASSUME "count" \notin Faults
  PROVE  GatewaySpec => []FiniteMonthlyCap
  BY GatewayIsMetering, FiniteMonthlyCapAlways, PTL

(***************************************************************************)
(* The limit of create_key holds on the page it counts.                    *)
(***************************************************************************)
THEOREM GatewayKeysCapped == GatewaySpec => []ListedKeysCapped
<1>1. K!ListedKeysCapped => ListedKeysCapped
  BY DEF ListedKeysCapped
<1>2. QED
  BY <1>1, ListedKeysCappedAlways, GatewayKeepsKeys, PTL
-----------------------------------------------------------------------------
(***************************************************************************)
(* The variables of the gateway and of its parts keep their types, and a   *)
(* loop at work serves a request that came with a key.                     *)
(***************************************************************************)
Callers ==
  /\ awaiting \in [Loops -> SUBSET (1..Len(keys))]
  /\ caller \in [Loops -> 0..Len(keys)]
  /\ \A l \in Loops : pc[l] # "idle" => caller[l] # 0

LEMMA CallersKept ==
  ASSUME TypeOK, K!TypeOK, K!TypeOK', Callers, [GatewayNext]_gatewayVars
  PROVE  Callers'
<1>1. /\ Len(keys) \in Nat /\ Len(keys') \in Nat
      /\ pc \in [Workers -> {"idle", "fence", "load", "answer", "record"}]
      /\ Loops \subseteq Workers /\ Pool \cap Loops = {}
  BY WorkersAssumption DEF TypeOK, K!TypeOK, Workers
<1>2. ASSUME NEW l \in Loops, CallTool(l) PROVE Callers'
  BY <1>1, <1>2 DEF CallTool, Callers, Receive, Goto, keyVars, requestVars
<1>3. ASSUME NEW l \in Loops, Reply(l) PROVE Callers'
  BY <1>1, <1>3 DEF Reply, Callers, vars, keyVars, requestVars
<1>4. ASSUME NEW l \in Loops, NEW i \in 1..Len(keys), Post(l, i) PROVE Callers'
  BY <1>1, <1>4 DEF Post, Callers, vars, keyVars, requestVars
<1>4a. ASSUME NEW l \in Loops, NEW i \in 1..Len(keys), Serve(l, i) PROVE Callers'
  BY <1>1, <1>4a DEF Serve, Callers, vars, keyVars
<1>5. ASSUME NEW w \in Pool, PoolReceives(w) PROVE Callers'
  BY <1>1, <1>5 DEF PoolReceives, Callers, Receive, Goto, keyVars, requestVars
<1>6. ASSUME NEW w \in Workers, RunStep(w) PROVE Callers'
  <2>1. pc[w] # "idle" /\ \A l \in Loops \ {w} : pc'[l] = pc[l]
    BY <1>1, <1>6 DEF RunStep, Fence, Load, Answer, Record, Goto
  <2>2. QED
    BY <1>6, <2>1 DEF RunStep, Callers, keyVars, requestVars
<1>7. ASSUME KeysStep PROVE Callers'
  <2>1. Len(keys) <= Len(keys')
    BY <1>1, <1>7 DEF KeysStep, K!CountKeys, K!MintKey, K!RevokeKey, K!TypeOK
  <2>2. 0..Len(keys) \subseteq 0..Len(keys')
    BY <1>1, <2>1
  <2>2a. 1..Len(keys) \subseteq 1..Len(keys')
    BY <1>1, <2>1
  <2>3. QED
    BY <1>7, <2>2, <2>2a DEF KeysStep, Callers, vars, requestVars
<1>8. ASSUME Surroundings PROVE Callers'
  BY <1>8 DEF Surroundings, PlanChanges, DocumentsChange, MonthBegins, Callers, keyVars, requestVars
<1>9. ASSUME GatewayCrash PROVE Callers'
  BY <1>1, <1>9 DEF GatewayCrash, Crash, K!Crash, Callers
<1>10. ASSUME UNCHANGED gatewayVars PROVE Callers'
  BY <1>10 DEF gatewayVars, vars, keyVars, requestVars, Callers
<1>11. QED
  BY <1>2, <1>3, <1>4, <1>4a, <1>5, <1>6, <1>7, <1>8, <1>9, <1>10 DEF GatewayNext

(***************************************************************************)
(* POST /mcp as a whole keeps its types, and each worker of a loop serves  *)
(* a caller with a key that was minted.                                    *)
(***************************************************************************)
THEOREM GatewayTypeCorrect == GatewaySpec => []GatewayTypeOK
<1>1. GatewaySpec => []TypeOK
  BY GatewayIsMetering, TypeCorrect, PTL
<1>2. GatewaySpec => []K!TypeOK
  BY ListedKeysCappedAlways, GatewayKeepsKeys, PTL
<1>3. GatewayInit => Callers
  BY DEF GatewayInit, Init, K!Init, Callers, Workers
<1>4. TypeOK /\ K!TypeOK /\ K!TypeOK' /\ Callers /\ [GatewayNext]_gatewayVars
        => Callers'
  BY CallersKept
<1>5. TypeOK /\ K!TypeOK /\ Callers => GatewayTypeOK
  BY DEF GatewayTypeOK, Callers
<1>6. QED
  BY <1>1, <1>2, <1>3, <1>4, <1>5, PTL DEF GatewaySpec

(***************************************************************************)
(* "Revoked keys never verify" (api_keys.py:53): from its revocation on, a *)
(* key opens no more requests, and no run begins without one.              *)
(***************************************************************************)
THEOREM RevokedKeysStayOutAlways == GatewaySpec => RevokedKeysStayOut
<1>1. GatewayTypeOK /\ GatewayNext => RunsDryUp
  <2> SUFFICES ASSUME GatewayTypeOK, GatewayNext PROVE RunsDryUp
    OBVIOUS
  <2>1. ASSUME NEW l \in Loops, NEW i \in 1..Len(keys), keys[i] = "revoked",
               i \in awaiting'[l] \/ i = caller'[l]
        PROVE  i \in awaiting[l] \/ i = caller[l]
    <3>1. /\ awaiting \in [Loops -> SUBSET (1..Len(keys))]
          /\ caller \in [Loops -> 0..Len(keys)] /\ i # 0
      BY DEF GatewayTypeOK
    <3>2. ASSUME NEW m \in Loops, NEW j \in 1..Len(keys), Post(m, j)
          PROVE  i \in awaiting[l] \/ i = caller[l]
      BY <2>1, <3>1, <3>2 DEF Post, K!ActiveAmong
    <3>3. ASSUME NEW m \in Loops, NEW j \in 1..Len(keys), Serve(m, j)
          PROVE  i \in awaiting[l] \/ i = caller[l]
      BY <2>1, <3>1, <3>3 DEF Serve
    <3>4. ASSUME NEW m \in Loops, Reply(m)
          PROVE  i \in awaiting[l] \/ i = caller[l]
      BY <2>1, <3>1, <3>4 DEF Reply
    <3>5. CASE GatewayCrash
      BY <2>1, <3>1, <3>5 DEF GatewayCrash
    <3>6. CASE UNCHANGED requestVars
      BY <2>1, <3>6 DEF requestVars
    <3>7. QED
      BY <3>2, <3>3, <3>4, <3>5, <3>6
      DEF GatewayNext, CallTool, PoolReceives, RunStep, KeysStep, Surroundings
  <2>2. ASSUME NEW l \in Loops, pc[l] = "idle", pc'[l] # "idle"
        PROVE  caller[l] # 0
    <3>1. /\ pc \in [Workers -> {"idle", "fence", "load", "answer", "record"}]
          /\ Loops \subseteq Workers /\ Pool \cap Loops = {}
      BY WorkersAssumption DEF GatewayTypeOK, TypeOK, Workers
    <3>2. ASSUME NEW m \in Loops, CallTool(m) PROVE caller[l] # 0
      BY <2>2, <3>1, <3>2 DEF CallTool, Receive, Goto
    <3>3. ASSUME NEW w \in Pool, PoolReceives(w) PROVE FALSE
      BY <2>2, <3>1, <3>3 DEF PoolReceives, Receive, Goto
    <3>4. ASSUME NEW w \in Workers, RunStep(w) PROVE FALSE
      BY <2>2, <3>1, <3>4 DEF RunStep, Fence, Load, Answer, Record, Goto
    <3>5. ASSUME GatewayCrash PROVE FALSE
      BY <2>2, <3>1, <3>5 DEF GatewayCrash, Crash
    <3>6. ASSUME pc' = pc PROVE FALSE
      BY <2>2, <3>6
    <3>7. QED
      BY <3>2, <3>3, <3>4, <3>5, <3>6
      DEF GatewayNext, Reply, Post, Serve, KeysStep, Surroundings, vars,
          PlanChanges, DocumentsChange, MonthBegins
  <2>3. QED
    BY <2>1, <2>2 DEF RunsDryUp, OpenAt
<1>2. QED
  BY <1>1, GatewayTypeCorrect, PTL DEF GatewaySpec, RevokedKeysStayOut
=============================================================================
