--------------------------- MODULE Accounts_proofs ---------------------------
(***************************************************************************)
(* What becomes of a tenant's account, for any number of hosts, users and  *)
(* subscriptions: the plan that Stripe's events leave it with, however     *)
(* they are repeated and delayed; and what onboarding keeps of it,         *)
(* whatever overlaps or breaks off.  The two have no variable in common.   *)
(***************************************************************************)
EXTENDS StripeBilling, Onboarding, FiniteSetTheorems, SequenceTheorems, TLAPS

LEMMA EventType ==
  ASSUME BillingTypeOK, NEW e \in 1..Len(stripe)
  PROVE  stripe[e] \in [sub : Subs, type : Types, due : Plans]
<1> DEFINE Events == [sub : Subs, type : Types, due : Plans]
<1>1. stripe \in Seq(Events)
  BY DEF BillingTypeOK
<1> HIDE DEF Events
<1>2. stripe[e] \in Events
  BY <1>1, ElementOfSeq
<1> QED BY <1>2 DEF Events

LEMMA HandledType ==
  ASSUME NEW type, NEW s \in Subs, NEW current \in Plans
  PROVE  Handled(type, s, current) \in Plans
BY SubsAssumption DEF Handled

LEMMA DueType ==
  ASSUME BillingTypeOK, NEW e \in 0..Len(stripe)
  PROVE  Due(e) \in Plans
<1>1. CASE e = 0
  BY <1>1, SubsAssumption DEF Due
<1>2. CASE e # 0
  <2>1. e \in 1..Len(stripe)
    BY <1>2
  <2>2. stripe[e] \in [sub : Subs, type : Types, due : Plans]
    BY <2>1, EventType
  <2> QED BY <1>2, <2>2 DEF Due
<1> QED BY <1>1, <1>2

(***************************************************************************)
(* What Stripe emits is one more event, due the plan it leads to.          *)
(***************************************************************************)
LEMMA Emission ==
  ASSUME BillingTypeOK, NEW s \in Subs, NEW type \in Types, Emit(s, type)
  PROVE  /\ stripe' \in Seq([sub : Subs, type : Types, due : Plans])
         /\ Len(stripe') = Len(stripe) + 1
         /\ \A e \in 1..Len(stripe) : stripe'[e] = stripe[e]
         /\ stripe'[Len(stripe) + 1].type = type
         /\ stripe'[Len(stripe) + 1].sub = s
         /\ stripe'[Len(stripe) + 1].due = Handled(type, s, Due(Len(stripe)))
         /\ owed' = owed \cup {Len(stripe) + 1}
<1> DEFINE event == [sub |-> s, type |-> type,
                     due |-> Handled(type, s, Due(Len(stripe)))]
<1>1. Len(stripe) \in Nat
  BY DEF BillingTypeOK
<1>2. Due(Len(stripe)) \in Plans
  BY <1>1, DueType
<1>3. event \in [sub : Subs, type : Types, due : Plans]
  BY <1>2, HandledType
<1>4. stripe' = Append(stripe, event) /\ owed' = owed \cup {Len(stripe) + 1}
  BY DEF Emit
<1>5. event.type = type /\ event.sub = s /\ event.due = Handled(type, s, Due(Len(stripe)))
  OBVIOUS
<1> HIDE DEF event
<1> QED BY <1>1, <1>3, <1>4, <1>5 DEF BillingTypeOK

(***************************************************************************)
(* Types                                                                   *)
(***************************************************************************)
LEMMA EmitType ==
  ASSUME BillingTypeOK, NEW s \in Subs, NEW type \in Types, Emit(s, type)
  PROVE  BillingTypeOK'
<1>1. UNCHANGED <<plan, ledger, webhook, holds>>
  BY DEF Emit
<1>2. Len(stripe) \in Nat
  BY DEF BillingTypeOK
<1>3. 1..Len(stripe) \subseteq 1..Len(stripe') /\ 0..Len(stripe) \subseteq 0..Len(stripe')
  BY <1>2, Emission
<1>4. Len(stripe) + 1 \in 1..Len(stripe')
  BY <1>2, Emission
<1>5. holds' \in [Loops -> 0..Len(stripe')]
  BY <1>1, <1>3 DEF BillingTypeOK
<1> QED BY <1>1, <1>3, <1>4, <1>5, Emission DEF BillingTypeOK, Emitted

LEMMA StepType ==
  ASSUME BillingTypeOK, [BillingNext]_billingVars
  PROVE  BillingTypeOK'
<1>1. ASSUME NEW s \in Subs, CheckoutCompletes(s) \/ SubscriptionChanges(s)
      PROVE  BillingTypeOK'
  BY <1>1, EmitType DEF CheckoutCompletes, SubscriptionChanges, Types, Activating
<1>2. ASSUME NEW l \in Loops, NEW e \in Emitted, Deliver(l, e)
      PROVE  BillingTypeOK'
  BY <1>2 DEF BillingTypeOK, Deliver, ToStep, external, Emitted
<1>3. ASSUME NEW l \in Loops, Lookup(l)
      PROVE  BillingTypeOK'
  BY <1>3 DEF BillingTypeOK, Lookup, ToStep, external, Emitted
<1>4. ASSUME NEW l \in Loops, Activate(l)
      PROVE  BillingTypeOK'
  <2>1. holds[l] \in 1..Len(stripe)
    BY <1>4 DEF BillingTypeOK, Activate
  <2>2. stripe[holds[l]] \in [sub : Subs, type : Types, due : Plans]
    BY <2>1, EventType
  <2>3. plan' \in Plans
    BY <1>4, <2>2, HandledType DEF BillingTypeOK, Activate
  <2> QED BY <1>4, <2>3 DEF BillingTypeOK, Activate, ToStep, external, Emitted
<1>5. ASSUME NEW l \in Loops, Mark(l)
      PROVE  BillingTypeOK'
  <2>1. holds[l] \in 1..Len(stripe)
    BY <1>5 DEF BillingTypeOK, Mark
  <2> QED BY <1>5, <2>1 DEF BillingTypeOK, Mark, ToStep, external, Emitted
<1>6. ASSUME NEW l \in Loops, Respond(l)
      PROVE  BillingTypeOK'
  BY <1>6 DEF BillingTypeOK, Respond, ToStep, external, Emitted
<1>7. CASE ServerStops
  BY <1>7 DEF BillingTypeOK, ServerStops, external, Emitted
<1>8. CASE UNCHANGED billingVars
  BY <1>8 DEF BillingTypeOK, billingVars, external, Emitted
<1> QED BY <1>1, <1>2, <1>3, <1>4, <1>5, <1>6, <1>7, <1>8 DEF BillingNext, WebhookStep

LEMMA InitType == BillingInit => BillingTypeOK
BY SubsAssumption DEF BillingInit, BillingTypeOK, Emitted

(***************************************************************************)
(* Whatever Stripe and the loops do, the state stays within its types: in  *)
(* particular no event is owed or recorded that was not emitted.           *)
(***************************************************************************)
THEOREM TypeCorrect == BillingSpec => []BillingTypeOK
<1>1. BillingTypeOK /\ [BillingNext]_billingVars => BillingTypeOK'
  BY StepType
<1> QED BY <1>1, InitType, PTL DEF BillingSpec
-----------------------------------------------------------------------------
(***************************************************************************)
(* What makes PlanFollowsStripe inductive when events come in turn and the *)
(* ledger works: the events owed are the last ones, only the first of them *)
(* is served, by one loop, and what is recorded is in force.               *)
(***************************************************************************)
FirstOwed(e) == e \in owed /\ \A d \in owed : e <= d

OwedAreLast == \A e \in owed : \A d \in Emitted : e <= d => d \in owed

AnsweredAreRecorded == \A e \in Emitted : e \in owed \/ e \in ledger

ServedInTurn(l) ==
  /\ webhook[l] = "lookup" => FirstOwed(holds[l]) \/ holds[l] \in ledger \ owed
  /\ webhook[l] \in {"activate", "mark"} => FirstOwed(holds[l])
  /\ webhook[l] = "respond" =>
       holds[l] \in ledger /\ (FirstOwed(holds[l]) \/ holds[l] \notin owed)

ServedOnce ==
  \A l, m \in Loops :
    webhook[l] # "idle" /\ webhook[m] # "idle" /\ holds[l] = holds[m] => l = m

DueIsHandled ==
  \A e \in Emitted :
    stripe[e].due = Handled(stripe[e].type, stripe[e].sub, Due(e - 1))

RecordedIsInForce ==
  /\ \A e \in owed \cap ledger : FirstOwed(e) /\ plan = Due(e)
  /\ \A l \in Loops : webhook[l] = "mark" => plan = Due(holds[l])

Inv ==
  /\ BillingTypeOK
  /\ OwedAreLast
  /\ AnsweredAreRecorded
  /\ \A l \in Loops : ServedInTurn(l)
  /\ ServedOnce
  /\ DueIsHandled
  /\ RecordedIsInForce
  /\ PlanFollowsStripe

LEMMA OneFirst ==
  ASSUME BillingTypeOK, NEW d, NEW e, FirstOwed(d), FirstOwed(e)
  PROVE  d = e
<1>1. d \in Int /\ e \in Int
  BY DEF BillingTypeOK, FirstOwed, Emitted
<1> QED BY <1>1 DEF FirstOwed

\* Around the first event owed there are two plans to be on.
LEMMA ReachedFirst ==
  ASSUME BillingTypeOK, OwedAreLast, NEW e, FirstOwed(e),
         NEW k \in 0..Len(stripe), Reached(k)
  PROVE  k = e - 1 \/ k = e
<1>1. e \in 1..Len(stripe) /\ k <= e
  BY DEF BillingTypeOK, FirstOwed, Emitted, Reached
<1>2. CASE e = 1
  BY <1>1, <1>2
<1>3. CASE e # 1
  <2>1. e - 1 \in Emitted \ owed
    BY <1>1, <1>3 DEF FirstOwed, Emitted
  <2>2. e - 1 <= k
    BY <2>1 DEF Reached
  <2> QED BY <1>1, <2>2
<1> QED BY <1>2, <1>3

LEMMA FirstReached ==
  ASSUME BillingTypeOK, OwedAreLast, NEW e, FirstOwed(e)
  PROVE  Reached(e) /\ e \in 0..Len(stripe)
<1>1. e \in Emitted /\ owed \subseteq Emitted /\ \A d \in owed : e <= d
  BY DEF BillingTypeOK, FirstOwed
<1>2. ASSUME NEW d \in Emitted \ owed
      PROVE  d <= e
  BY <1>1, <1>2 DEF OwedAreLast, FirstOwed, Emitted
<1> QED BY <1>1, <1>2 DEF Reached, Emitted

LEMMA EmitInv ==
  ASSUME Inv, NEW s \in Subs, NEW type \in Types, Emit(s, type)
  PROVE  Inv'
<1>0. PICK n \in Nat : n = Len(stripe)
  BY DEF Inv, BillingTypeOK
<1> USE <1>0
<1>1. BillingTypeOK /\ n \in Nat
  BY DEF Inv
<1>2. BillingTypeOK'
  BY <1>1, EmitType
<1>3. /\ Len(stripe') = n + 1
      /\ \A e \in 1..n : stripe'[e] = stripe[e]
      /\ stripe'[n + 1].type = type
      /\ stripe'[n + 1].sub = s
      /\ stripe'[n + 1].due = Handled(type, s, Due(n))
      /\ owed' = owed \cup {n + 1}
  BY <1>1, Emission
<1>4. plan' = plan /\ ledger' = ledger /\ webhook' = webhook /\ holds' = holds
  BY DEF Emit
<1>5. Emitted = 1..n /\ Emitted' = 1..(n + 1)
  BY <1>3 DEF Emitted
<1>6. owed \subseteq 1..n /\ ledger \subseteq 1..n
  BY <1>1, <1>5 DEF BillingTypeOK
<1>7. ASSUME NEW e \in 0..n
      PROVE  Due(e)' = Due(e)
  <2>1. CASE e = 0
    BY <2>1 DEF Due
  <2>2. CASE e # 0
    <3>1. e \in 1..n
      BY <2>2, <1>1
    <3>2. stripe'[e] = stripe[e]
      BY <3>1, <1>3
    <3> QED BY <2>2, <3>2 DEF Due
  <2> QED BY <2>1, <2>2
<1>8. ASSUME NEW e, FirstOwed(e)
      PROVE  FirstOwed(e)'
  <2>1. e \in 1..n /\ \A d \in owed : e <= d
    BY <1>6, <1>8 DEF FirstOwed
  <2>2. e \in owed' /\ \A d \in owed' : e <= d
    BY <1>1, <1>3, <1>8, <2>1 DEF FirstOwed
  <2> QED BY <2>2 DEF FirstOwed
<1>9. OwedAreLast'
  <2>1. ASSUME NEW e \in owed', NEW d \in 1..(n + 1), e <= d
        PROVE  d \in owed'
    <3>1. CASE d = n + 1
      BY <3>1, <1>3
    <3>2. CASE d # n + 1
      <4>1. d \in 1..n /\ e \in owed
        BY <1>1, <1>3, <1>6, <2>1, <3>2
      <4>2. d \in owed
        BY <4>1, <2>1, <1>5 DEF Inv, OwedAreLast
      <4> QED BY <4>2, <1>3
    <3> QED BY <3>1, <3>2
  <2> QED BY <2>1, <1>5 DEF OwedAreLast
<1>10. AnsweredAreRecorded'
  <2>1. \A e \in 1..(n + 1) : e \in 1..n \/ e = n + 1
    BY <1>1
  <2>2. \A e \in 1..n : e \in owed \/ e \in ledger
    BY <1>5 DEF Inv, AnsweredAreRecorded
  <2> QED BY <2>1, <2>2, <1>3, <1>4, <1>5 DEF AnsweredAreRecorded
<1>11. ASSUME NEW l \in Loops
       PROVE  ServedInTurn(l)'
  <2>1. ServedInTurn(l)
    BY DEF Inv
  <2>2. webhook[l] # "idle" => holds[l] \in 1..n
    BY <1>1 DEF BillingTypeOK
  <2>3. webhook[l] # "idle" /\ holds[l] \notin owed => holds[l] \notin owed'
    BY <2>2, <1>1, <1>3
  <2>4. FirstOwed(holds[l]) => (FirstOwed(holds[l]))'
    <3>1. SUFFICES ASSUME FirstOwed(holds[l]) PROVE FirstOwed(holds[l])'
      OBVIOUS
    <3>2. holds[l] \in 1..n /\ \A d \in owed : holds[l] <= d
      BY <1>6, <3>1 DEF FirstOwed
    <3>3. holds[l] \in owed' /\ \A d \in owed' : holds[l] <= d
      BY <1>1, <1>3, <3>1, <3>2 DEF FirstOwed
    <3> QED BY <1>4, <3>3 DEF FirstOwed
  <2> QED BY <1>4, <2>1, <2>3, <2>4 DEF ServedInTurn
<1>12. ServedOnce'
  BY <1>4 DEF Inv, ServedOnce
<1>13. DueIsHandled'
  <2>1. ASSUME NEW e \in 1..(n + 1)
        PROVE  (stripe[e].due = Handled(stripe[e].type, stripe[e].sub, Due(e - 1)))'
    <3>1. CASE e = n + 1
      <4>1. Due(n)' = Due(n)
        BY <1>1, <1>7
      <4>2. e - 1 = n
        BY <1>1, <3>1
      <4> QED BY <1>3, <3>1, <4>1, <4>2
    <3>2. CASE e # n + 1
      <4>1. e \in 1..n /\ e - 1 \in 0..n
        BY <1>1, <3>2
      <4>2. stripe'[e] = stripe[e] /\ Due(e - 1)' = Due(e - 1)
        BY <4>1, <1>3, <1>7
      <4>3. stripe[e].due = Handled(stripe[e].type, stripe[e].sub, Due(e - 1))
        BY <4>1, <1>5 DEF Inv, DueIsHandled
      <4> QED BY <4>2, <4>3 DEF Handled
    <3> QED BY <3>1, <3>2
  <2> QED BY <2>1, <1>5 DEF DueIsHandled
<1>14. RecordedIsInForce'
  <2>1. ASSUME NEW e \in owed' \cap ledger'
        PROVE  FirstOwed(e)' /\ plan' = Due(e)'
    <3>1. e \in owed \cap ledger /\ e \in 0..n
      <4>1. e \in ledger
        BY <1>4, <2>1
      <4>2. e \in 1..n
        BY <4>1, <1>6
      <4>3. e \in 0..n /\ e # n + 1
        BY <4>2, <1>1
      <4>4. e \in owed'
        BY <2>1
      <4> QED BY <4>1, <4>3, <4>4, <1>3
    <3>2. FirstOwed(e) /\ plan = Due(e)
      BY <3>1 DEF Inv, RecordedIsInForce
    <3> QED BY <3>1, <3>2, <1>4, <1>7, <1>8
  <2>2. ASSUME NEW l \in Loops, webhook'[l] = "mark"
        PROVE  plan' = (Due(holds[l]))'
    <3>1. holds[l] \in 1..n /\ webhook[l] = "mark"
      BY <1>1, <1>4, <2>2 DEF BillingTypeOK
    <3>2. plan = Due(holds[l])
      BY <3>1 DEF Inv, RecordedIsInForce
    <3>3. stripe'[holds[l]] = stripe[holds[l]] /\ holds[l] # 0
      BY <3>1, <1>3
    <3> QED BY <1>4, <3>2, <3>3 DEF Due
  <2> QED BY <2>1, <2>2 DEF RecordedIsInForce
<1>15. PlanFollowsStripe'
  <2>1. PICK k \in 0..n : Reached(k) /\ plan = Due(k)
    BY DEF Inv, PlanFollowsStripe
  <2>2. k \in 0..(n + 1) /\ k <= n + 1
    BY <1>1
  <2>3. \A d \in owed' : k <= d
    BY <2>1, <2>2, <1>3 DEF Reached
  <2>4. \A d \in Emitted' \ owed' : d \in Emitted \ owed
    BY <1>1, <1>3, <1>5
  <2>5. Reached(k)'
    BY <2>1, <2>3, <2>4 DEF Reached
  <2>6. plan' = Due(k)'
    BY <2>1, <1>4, <1>7
  <2> QED BY <2>2, <2>5, <2>6, <1>3 DEF PlanFollowsStripe
<1> QED BY <1>2, <1>9, <1>10, <1>11, <1>12, <1>13, <1>14, <1>15 DEF Inv

\* Serving an event leaves what Stripe has emitted alone.
LEMMA DuePersists ==
  ASSUME DueIsHandled, UNCHANGED stripe
  PROVE  DueIsHandled'
BY DEF DueIsHandled, Handled, Due, Emitted

\* So does the rest of the invariant, while Stripe waits and the database is
\* not written.
LEMMA WaitingInv ==
  ASSUME Inv, UNCHANGED <<stripe, owed, plan, ledger>>
  PROVE  /\ OwedAreLast' /\ AnsweredAreRecorded' /\ DueIsHandled'
         /\ PlanFollowsStripe'
         /\ \A e \in owed' \cap ledger' : FirstOwed(e)' /\ plan' = Due(e)'
         /\ \A e : FirstOwed(e)' <=> FirstOwed(e)
<1>1. DueIsHandled'
  BY DuePersists DEF Inv
<1>2. Emitted' = Emitted
  BY DEF Emitted
<1>3. OwedAreLast' /\ AnsweredAreRecorded'
  BY <1>2 DEF Inv, OwedAreLast, AnsweredAreRecorded
<1>4. \A e : FirstOwed(e)' <=> FirstOwed(e)
  BY DEF FirstOwed
<1>5. \A e : Due(e)' = Due(e)
  BY DEF Due
<1>6. PlanFollowsStripe'
  BY <1>2, <1>5 DEF Inv, PlanFollowsStripe, Reached
<1>7. \A e \in owed' \cap ledger' : FirstOwed(e)' /\ plan' = Due(e)'
  BY <1>4, <1>5 DEF Inv, RecordedIsInForce
<1> QED BY <1>1, <1>3, <1>4, <1>6, <1>7

LEMMA DeliverInv ==
  ASSUME BillingFaults \cap {"reorder", "timeout", "ledger"} = {},
         Inv, NEW l \in Loops, NEW e \in Emitted, Deliver(l, e)
  PROVE  Inv'
<1>1. /\ UNCHANGED <<stripe, owed, plan, ledger>>
      /\ webhook[l] = "idle" /\ ~InHand(e)
      /\ webhook' = [webhook EXCEPT ![l] = "lookup"] /\ holds' = [holds EXCEPT ![l] = e]
  BY DEF Deliver, external, ToStep, BillingFault
<1>2. BillingTypeOK'
  BY StepType DEF Inv, BillingNext
<1>3. OwedAreLast' /\ AnsweredAreRecorded' /\ DueIsHandled' /\ PlanFollowsStripe'
  BY <1>1, WaitingInv
<1>4. \A d : FirstOwed(d)' <=> FirstOwed(d)
  BY <1>1, WaitingInv
<1>5. FirstOwed(e) \/ e \in ledger \ owed
  BY DEF Deliver, InTurn, BillingFault, FirstOwed, Inv, AnsweredAreRecorded
<1>6. webhook'[l] = "lookup" /\ holds'[l] = e
  BY <1>1 DEF Inv, BillingTypeOK
<1>7. \A m \in Loops \ {l} : webhook'[m] = webhook[m] /\ holds'[m] = holds[m]
  BY <1>1 DEF Inv, BillingTypeOK
<1>8. ASSUME NEW m \in Loops
      PROVE  ServedInTurn(m)'
  <2>1. CASE m = l
    <3>1. FirstOwed(e)' \/ e \in ledger' \ owed'
      BY <1>1, <1>4, <1>5
    <3>2. FirstOwed(holds[m])' \/ holds'[m] \in ledger' \ owed'
      BY <3>1, <2>1, <1>6 DEF FirstOwed
    <3> QED BY <3>2, <2>1, <1>6 DEF ServedInTurn
  <2>2. CASE m # l
    <3>1. ServedInTurn(m)
      BY DEF Inv
    <3>2. FirstOwed(holds[m])' <=> FirstOwed(holds[m])
      BY <1>1, <1>7, <2>2 DEF FirstOwed
    <3> QED BY <3>1, <3>2, <2>2, <1>1, <1>7 DEF ServedInTurn
  <2> QED BY <2>1, <2>2
<1>9. ServedOnce'
  <2>1. \A m \in Loops \ {l} : webhook[m] # "idle" => holds[m] # e
    BY <1>1 DEF InHand
  <2> QED BY <2>1, <1>6, <1>7 DEF Inv, ServedOnce
<1>10. RecordedIsInForce'
  <2>1. \A m \in Loops : webhook'[m] = "mark" => plan' = Due(holds[m])'
    BY <1>1, <1>6, <1>7 DEF Inv, RecordedIsInForce, Due
  <2>2. \A d \in owed' \cap ledger' : FirstOwed(d)' /\ plan' = Due(d)'
    BY <1>1, WaitingInv
  <2> QED BY <2>1, <2>2 DEF RecordedIsInForce
<1> QED BY <1>2, <1>3, <1>8, <1>9, <1>10 DEF Inv

LEMMA LookupInv ==
  ASSUME BillingFaults \cap {"reorder", "timeout", "ledger"} = {},
         Inv, NEW l \in Loops, Lookup(l)
  PROVE  Inv'
<1>1. /\ UNCHANGED <<stripe, owed, plan, ledger, holds>>
      /\ webhook[l] = "lookup"
      /\ \/ holds[l] \in ledger /\ webhook' = [webhook EXCEPT ![l] = "respond"]
         \/ holds[l] \notin ledger /\ webhook' = [webhook EXCEPT ![l] = "activate"]
  BY DEF Lookup, external, ToStep, BillingFault
<1>2. BillingTypeOK'
  BY StepType DEF Inv, BillingNext, WebhookStep
<1>3. OwedAreLast' /\ AnsweredAreRecorded' /\ DueIsHandled' /\ PlanFollowsStripe'
  BY <1>1, WaitingInv
<1>4. ASSUME NEW m \in Loops
      PROVE  FirstOwed(holds[m])' <=> FirstOwed(holds[m])
  BY <1>1 DEF FirstOwed
<1>5. /\ webhook'[l] = "respond" => holds[l] \in ledger
      /\ webhook'[l] = "activate" => holds[l] \notin ledger
      /\ webhook'[l] \in {"respond", "activate"}
  BY <1>1 DEF Inv, BillingTypeOK
<1>6. \A m \in Loops \ {l} : webhook'[m] = webhook[m]
  BY <1>1 DEF Inv, BillingTypeOK
<1>7. ASSUME NEW m \in Loops
      PROVE  ServedInTurn(m)'
  <2>1. ServedInTurn(m)
    BY DEF Inv
  <2> QED BY <2>1, <1>1, <1>4, <1>5, <1>6 DEF ServedInTurn
<1>8. ServedOnce'
  BY <1>1, <1>5, <1>6 DEF Inv, ServedOnce
<1>9. RecordedIsInForce'
  <2>1. \A m \in Loops : webhook'[m] = "mark" => plan' = Due(holds[m])'
    BY <1>1, <1>5, <1>6 DEF Inv, RecordedIsInForce, Due
  <2>2. \A d \in owed' \cap ledger' : FirstOwed(d)' /\ plan' = Due(d)'
    BY <1>1, WaitingInv
  <2> QED BY <2>1, <2>2 DEF RecordedIsInForce
<1> QED BY <1>2, <1>3, <1>7, <1>8, <1>9 DEF Inv

LEMMA ActivateInv ==
  ASSUME Inv, NEW l \in Loops, Activate(l)
  PROVE  Inv'
<1> DEFINE e == holds[l]
<1>1. /\ UNCHANGED <<stripe, owed, ledger, holds>>
      /\ webhook[l] = "activate"
      /\ \/ /\ plan' = Handled(stripe[e].type, stripe[e].sub, plan)
            /\ webhook' = [webhook EXCEPT ![l] = "mark"]
         \/ plan' = plan /\ webhook' = [webhook EXCEPT ![l] = "idle"]
  BY DEF Activate, external, ToStep
<1>2. BillingTypeOK'
  BY StepType DEF Inv, BillingNext, WebhookStep
<1>3. \A m \in Loops \ {l} : webhook'[m] = webhook[m]
  BY <1>1 DEF Inv, BillingTypeOK
<1>4. webhook'[l] \in {"mark", "idle"}
  BY <1>1 DEF Inv, BillingTypeOK
<1>5. FirstOwed(holds[l]) /\ e \in 1..Len(stripe)
  BY <1>1 DEF Inv, ServedInTurn, FirstOwed, BillingTypeOK, Emitted
<1>6. DueIsHandled' /\ OwedAreLast' /\ AnsweredAreRecorded'
  <2>1. Emitted' = Emitted
    BY <1>1 DEF Emitted
  <2> QED BY <1>1, <2>1, DuePersists DEF Inv, OwedAreLast, AnsweredAreRecorded
<1>7. ASSUME NEW m \in Loops
      PROVE  ServedInTurn(m)'
  <2>1. ServedInTurn(m) /\ (FirstOwed(holds[m])' <=> FirstOwed(holds[m]))
    BY <1>1 DEF Inv, FirstOwed
  <2> QED BY <2>1, <1>1, <1>3, <1>4, <1>5 DEF ServedInTurn
<1>8. ServedOnce'
  BY <1>1, <1>3, <1>4 DEF Inv, ServedOnce
<1>9. webhook'[l] = "mark" => plan' = Due(e)
  <2>1. SUFFICES ASSUME webhook'[l] = "mark" PROVE plan' = Due(e)
    OBVIOUS
  <2>2. plan' = Handled(stripe[e].type, stripe[e].sub, plan)
    BY <2>1, <1>1 DEF Inv, BillingTypeOK
  <2>3. Due(e) = Handled(stripe[e].type, stripe[e].sub, Due(e - 1))
    BY <1>5 DEF Inv, DueIsHandled, Due, Emitted
  <2>4. PICK k \in 0..Len(stripe) : Reached(k) /\ plan = Due(k)
    BY DEF Inv, PlanFollowsStripe
  <2>5. k = e - 1 \/ k = e
    BY <1>5, <2>4, ReachedFirst DEF Inv
  <2> HIDE DEF e
  <2> QED BY <2>2, <2>3, <2>4, <2>5 DEF Handled
<1>10. webhook'[l] = "idle" => plan' = plan
  BY <1>1 DEF Inv, BillingTypeOK
<1>11. RecordedIsInForce'
  <2>1. ASSUME NEW d \in owed' \cap ledger'
        PROVE  FirstOwed(d)' /\ plan' = Due(d)'
    <3>1. FirstOwed(d) /\ plan = Due(d)
      BY <1>1, <2>1 DEF Inv, RecordedIsInForce
    <3>2. d = e
      BY <3>1, <1>5, OneFirst DEF Inv
    <3>3. plan' = Due(d)
      BY <3>1, <3>2, <1>4, <1>9, <1>10
    <3> QED BY <3>1, <3>3, <1>1 DEF FirstOwed, Due
  <2>2. ASSUME NEW m \in Loops, webhook'[m] = "mark"
        PROVE  plan' = Due(holds[m])'
    <3>1. CASE m = l
      BY <3>1, <2>2, <1>1, <1>9 DEF Due
    <3>2. CASE m # l
      <4>1. FirstOwed(holds[m]) /\ webhook[m] = "mark"
        BY <3>2, <2>2, <1>3 DEF Inv, ServedInTurn
      <4>2. holds[m] = holds[l]
        BY <4>1, <1>5, OneFirst DEF Inv
      <4> QED BY <4>1, <4>2, <3>2, <1>1 DEF Inv, ServedOnce
    <3> QED BY <3>1, <3>2
  <2> QED BY <2>1, <2>2 DEF RecordedIsInForce
<1>12. PlanFollowsStripe'
  <2>1. CASE webhook'[l] = "mark"
    <3>1. PICK k : k = e
      OBVIOUS
    <3>2. FirstOwed(k) /\ plan' = Due(k)
      BY <1>5, <1>9, <2>1, <3>1
    <3>3. Reached(k) /\ k \in 0..Len(stripe)
      BY <3>2, FirstReached DEF Inv
    <3>4. Reached(k)' /\ plan' = Due(k)' /\ k \in 0..Len(stripe')
      BY <3>2, <3>3, <1>1 DEF Reached, Due, Emitted
    <3> QED BY <3>4 DEF PlanFollowsStripe
  <2>2. CASE webhook'[l] = "idle"
    BY <2>2, <1>1, <1>10 DEF Inv, PlanFollowsStripe, Reached, Due, Emitted
  <2> QED BY <2>1, <2>2, <1>4
<1> QED BY <1>2, <1>6, <1>7, <1>8, <1>11, <1>12 DEF Inv

LEMMA MarkInv ==
  ASSUME BillingFaults \cap {"reorder", "timeout", "ledger"} = {},
         Inv, NEW l \in Loops, Mark(l)
  PROVE  Inv'
<1>1. /\ UNCHANGED <<stripe, owed, plan, holds>>
      /\ webhook[l] = "mark" /\ webhook' = [webhook EXCEPT ![l] = "respond"]
      /\ ledger' = ledger \cup {holds[l]}
  BY DEF Mark, external, ToStep, BillingFault
<1>2. BillingTypeOK'
  BY StepType DEF Inv, BillingNext, WebhookStep
<1>3. webhook'[l] = "respond" /\ \A m \in Loops \ {l} : webhook'[m] = webhook[m]
  BY <1>1 DEF Inv, BillingTypeOK
<1>4. FirstOwed(holds[l]) /\ plan = Due(holds[l])
  BY <1>1 DEF Inv, ServedInTurn, RecordedIsInForce
<1>5. DueIsHandled' /\ OwedAreLast' /\ AnsweredAreRecorded' /\ PlanFollowsStripe'
  <2>1. Emitted' = Emitted
    BY <1>1 DEF Emitted
  <2>2. PlanFollowsStripe'
    BY <1>1, <2>1 DEF Inv, PlanFollowsStripe, Reached, Due
  <2> QED BY <1>1, <2>1, <2>2, DuePersists DEF Inv, OwedAreLast, AnsweredAreRecorded
<1>6. ASSUME NEW m \in Loops
      PROVE  ServedInTurn(m)'
  <2>1. ServedInTurn(m) /\ (FirstOwed(holds[m])' <=> FirstOwed(holds[m]))
    BY <1>1 DEF Inv, FirstOwed
  <2> QED BY <2>1, <1>1, <1>3, <1>4 DEF ServedInTurn
<1>7. ServedOnce'
  BY <1>1, <1>3 DEF Inv, ServedOnce
<1>8. RecordedIsInForce'
  <2>1. ASSUME NEW d \in owed' \cap ledger'
        PROVE  FirstOwed(d)' /\ plan' = Due(d)'
    <3>1. FirstOwed(d) /\ plan = Due(d)
      <4>1. CASE d = holds[l]
        BY <4>1, <1>4
      <4>2. CASE d # holds[l]
        BY <4>2, <2>1, <1>1 DEF Inv, RecordedIsInForce
      <4> QED BY <4>1, <4>2
    <3> QED BY <3>1, <1>1 DEF FirstOwed, Due
  <2>2. \A m \in Loops : webhook'[m] = "mark" => plan' = Due(holds[m])'
    BY <1>1, <1>3 DEF Inv, RecordedIsInForce, Due
  <2> QED BY <2>1, <2>2 DEF RecordedIsInForce
<1> QED BY <1>2, <1>5, <1>6, <1>7, <1>8 DEF Inv

LEMMA RespondInv ==
  ASSUME Inv, NEW l \in Loops, Respond(l)
  PROVE  Inv'
<1>1. PICK e : e = holds[l]
  OBVIOUS
<1>2. /\ UNCHANGED <<stripe, plan, ledger, holds>>
      /\ webhook[l] = "respond" /\ webhook' = [webhook EXCEPT ![l] = "idle"]
      /\ owed' = owed \ {e}
  BY <1>1 DEF Respond, ToStep
<1>3. BillingTypeOK'
  BY StepType DEF Inv, BillingNext, WebhookStep
<1>4. webhook'[l] = "idle" /\ \A m \in Loops \ {l} : webhook'[m] = webhook[m]
  BY <1>2 DEF Inv, BillingTypeOK
<1>5. e \in ledger /\ (FirstOwed(e) \/ e \notin owed)
  BY <1>1, <1>2 DEF Inv, ServedInTurn
<1>6. Emitted' = Emitted /\ owed \subseteq Emitted /\ Emitted \subseteq Int
  BY <1>2 DEF Inv, BillingTypeOK, Emitted
<1>7. OwedAreLast'
  <2>1. ASSUME NEW c \in owed', NEW d \in Emitted, c <= d
        PROVE  d \in owed'
    <3>1. c \in owed /\ d \in owed /\ c # e
      BY <1>2, <2>1 DEF Inv, OwedAreLast
    <3>2. CASE FirstOwed(e)
      <4>1. e <= c /\ c \in Int /\ e \in Int /\ d \in Int
        BY <3>1, <3>2, <1>6 DEF FirstOwed
      <4> QED BY <4>1, <3>1, <2>1, <1>2
    <3>3. CASE e \notin owed
      BY <3>1, <3>3, <1>2
    <3> QED BY <3>2, <3>3, <1>5
  <2> QED BY <2>1, <1>6 DEF OwedAreLast
<1>8. AnsweredAreRecorded'
  BY <1>2, <1>5, <1>6 DEF Inv, AnsweredAreRecorded
<1>9. DueIsHandled'
  BY <1>2, DuePersists DEF Inv
\* Once the first event is answered, no other loop serves an owed one.
<1>10. ASSUME NEW m \in Loops, m # l, webhook[m] # "idle"
       PROVE  /\ holds[m] \notin owed \/ e \notin owed
              /\ holds[m] # e
  <2>1. holds[m] # e
    BY <1>1, <1>2, <1>10 DEF Inv, ServedOnce
  <2>2. ServedInTurn(m) /\ webhook[m] \in {"lookup", "activate", "mark", "respond"}
    BY <1>10 DEF Inv, BillingTypeOK
  <2>3. holds[m] \in owed => FirstOwed(holds[m])
    BY <2>2 DEF ServedInTurn
  <2>4. e \in owed => FirstOwed(e)
    BY <1>5
  <2> QED BY <2>1, <2>3, <2>4, OneFirst DEF Inv
<1>11. ASSUME NEW m \in Loops
       PROVE  ServedInTurn(m)'
  <2>1. CASE m = l
    BY <2>1, <1>4 DEF ServedInTurn
  <2>2. CASE m # l /\ webhook[m] = "idle"
    BY <2>2, <1>4 DEF ServedInTurn
  <2>3. CASE m # l /\ webhook[m] # "idle"
    <3>1. ServedInTurn(m) /\ webhook'[m] = webhook[m]
      BY <2>3, <1>4 DEF Inv
    <3>2. holds[m] \notin owed \/ owed' = owed
      BY <2>3, <1>2, <1>10
    <3>3. FirstOwed(holds[m]) => FirstOwed(holds[m])'
      BY <3>2, <1>2 DEF FirstOwed
    <3> QED BY <3>1, <3>2, <3>3, <1>2 DEF ServedInTurn
  <2> QED BY <2>1, <2>2, <2>3
<1>12. ServedOnce'
  BY <1>2, <1>4 DEF Inv, ServedOnce
<1>13. RecordedIsInForce'
  <2>1. ASSUME NEW d \in owed' \cap ledger'
        PROVE  FirstOwed(d)' /\ plan' = Due(d)'
    <3>1. FirstOwed(d) /\ plan = Due(d)
      BY <2>1, <1>2 DEF Inv, RecordedIsInForce
    <3> QED BY <2>1, <3>1, <1>2 DEF FirstOwed, Due
  <2>2. \A m \in Loops : webhook'[m] = "mark" => plan' = Due(holds[m])'
    BY <1>2, <1>4 DEF Inv, RecordedIsInForce, Due
  <2> QED BY <2>1, <2>2 DEF RecordedIsInForce
<1>14. PlanFollowsStripe'
  <2>1. CASE FirstOwed(e)
    <3>1. plan = Due(e)
      BY <2>1, <1>5 DEF Inv, RecordedIsInForce, FirstOwed
    <3>2. Reached(e) /\ e \in 0..Len(stripe)
      BY <2>1, FirstReached DEF Inv
    <3>3. e <= e
      BY <3>2
    <3>4. Reached(e)' /\ plan' = Due(e)' /\ e \in 0..Len(stripe')
      BY <3>1, <3>2, <3>3, <1>2, <1>6 DEF Reached, Due
    <3> QED BY <3>4 DEF PlanFollowsStripe
  <2>2. CASE e \notin owed
    <3>1. owed' = owed
      BY <2>2, <1>2
    <3> QED BY <3>1, <1>2, <1>6 DEF Inv, PlanFollowsStripe, Reached, Due
  <2> QED BY <2>1, <2>2, <1>5
<1> QED BY <1>3, <1>7, <1>8, <1>9, <1>11, <1>12, <1>13, <1>14 DEF Inv

LEMMA CrashInv ==
  ASSUME Inv, ServerStops
  PROVE  Inv'
<1>1. UNCHANGED <<stripe, owed, plan, ledger, holds>>
  BY DEF ServerStops, external
<1>2. \A l \in Loops : webhook'[l] = "idle"
  BY DEF ServerStops
<1>3. BillingTypeOK'
  BY StepType DEF Inv, BillingNext
<1>4. /\ OwedAreLast' /\ AnsweredAreRecorded' /\ DueIsHandled' /\ PlanFollowsStripe'
      /\ \A e \in owed' \cap ledger' : FirstOwed(e)' /\ plan' = Due(e)'
  BY <1>1, WaitingInv
<1> QED BY <1>2, <1>3, <1>4 DEF Inv, ServedInTurn, ServedOnce, RecordedIsInForce

LEMMA InitInv == BillingInit => Inv
<1> SUFFICES ASSUME BillingInit PROVE Inv
  OBVIOUS
<1>1. BillingTypeOK
  BY InitType
<1>2. Emitted = {} /\ Len(stripe) = 0
  BY DEF BillingInit, Emitted
<1>3. Reached(0) /\ plan = Due(0)
  BY <1>2 DEF BillingInit, Reached, Due
<1>4. PlanFollowsStripe
  BY <1>2, <1>3 DEF PlanFollowsStripe
<1> QED
  BY <1>1, <1>2, <1>4 DEF BillingInit, Inv, OwedAreLast, AnsweredAreRecorded,
     ServedInTurn, ServedOnce, DueIsHandled, RecordedIsInForce

(***************************************************************************)
(* When Stripe delivers in turn and gives the webhook its time, and the    *)
(* ledger can be read and written, then failed activations, duplicates and *)
(* crashes never bring back a plan that a later event replaced.            *)
(***************************************************************************)
THEOREM PlanFollowsStripeAlways ==
  ASSUME BillingFaults \cap {"reorder", "timeout", "ledger"} = {}
  PROVE  BillingSpec => []PlanFollowsStripe
<1>1. Inv /\ [BillingNext]_billingVars => Inv'
  <2> SUFFICES ASSUME Inv, [BillingNext]_billingVars PROVE Inv'
    OBVIOUS
  <2>1. ASSUME NEW s \in Subs, CheckoutCompletes(s) \/ SubscriptionChanges(s)
        PROVE  Inv'
    BY <2>1, EmitInv DEF CheckoutCompletes, SubscriptionChanges, Types, Activating
  <2>2. ASSUME NEW l \in Loops, NEW e \in Emitted, Deliver(l, e)
        PROVE  Inv'
    BY <2>2, DeliverInv
  <2>3. ASSUME NEW l \in Loops, WebhookStep(l)
        PROVE  Inv'
    BY <2>3, LookupInv, ActivateInv, MarkInv, RespondInv DEF WebhookStep
  <2>4. CASE ServerStops
    BY <2>4, CrashInv
  <2>5. CASE UNCHANGED billingVars
    <3>1. UNCHANGED <<stripe, owed, plan, ledger, webhook, holds>>
      BY <2>5 DEF billingVars, external
    <3>2. BillingTypeOK'
      BY StepType DEF Inv
    <3>3. /\ OwedAreLast' /\ AnsweredAreRecorded' /\ DueIsHandled' /\ PlanFollowsStripe'
          /\ \A e \in owed' \cap ledger' : FirstOwed(e)' /\ plan' = Due(e)'
      BY <3>1, WaitingInv
    <3>4. \A e : FirstOwed(e)' <=> FirstOwed(e)
      BY <3>1 DEF FirstOwed
    <3>5. ServedOnce' /\ RecordedIsInForce'
      BY <3>1, <3>3 DEF Inv, ServedOnce, RecordedIsInForce, Due
    <3>6. ASSUME NEW l \in Loops
          PROVE  ServedInTurn(l)'
      <4>1. ServedInTurn(l) /\ (FirstOwed(holds[l])' <=> FirstOwed(holds[l]))
        BY <3>1 DEF Inv, FirstOwed
      <4> QED BY <4>1, <3>1 DEF ServedInTurn
    <3> QED BY <3>2, <3>3, <3>5, <3>6 DEF Inv
  <2> QED BY <2>1, <2>2, <2>3, <2>4, <2>5 DEF BillingNext
<1>2. Inv => PlanFollowsStripe
  BY DEF Inv
<1> QED BY <1>1, <1>2, InitInv, PTL DEF BillingSpec
-----------------------------------------------------------------------------
(***************************************************************************)
(* What makes SameTierIsHarmless inductive, whatever fails: an activation  *)
(* that Stripe has its answer for, that is recorded, or that a loop is     *)
(* about to record or to answer, is in force.                              *)
(***************************************************************************)
Counted(e) ==
  \/ e \notin owed \/ e \in ledger
  \/ \E l \in Loops : holds[l] = e /\ webhook[l] \in {"mark", "respond"}

OneTier(p) ==
  \A e \in Emitted :
    stripe[e].type # "customer.subscription.deleted" /\ SoldAs[stripe[e].sub] = p

InForce(p) ==
  OneTier(p) =>
    /\ plan \in {FreePlan, p}
    /\ \A e \in Emitted : stripe[e].type \in Activating /\ Counted(e) => plan = p

TierInv == BillingTypeOK /\ \A p \in Plans : InForce(p)

\* What is not emitted and does not touch the plan may count no more events.
LEMMA NothingMoreCounted ==
  ASSUME TierInv, BillingTypeOK', UNCHANGED <<stripe, plan>>,
         \A e \in Emitted : Counted(e)' => Counted(e)
  PROVE  TierInv'
<1>1. Emitted' = Emitted
  BY DEF Emitted
<1>2. ASSUME NEW p \in Plans
      PROVE  InForce(p)'
  <2>1. InForce(p)
    BY DEF TierInv
  <2>2. OneTier(p)' <=> OneTier(p)
    BY <1>1 DEF OneTier
  <2> QED BY <1>1, <2>1, <2>2 DEF InForce
<1> QED BY <1>2 DEF TierInv

LEMMA EmitTier ==
  ASSUME TierInv, NEW s \in Subs, NEW type \in Types, Emit(s, type)
  PROVE  TierInv'
<1>0. PICK n \in Nat : n = Len(stripe)
  BY DEF TierInv, BillingTypeOK
<1> USE <1>0
<1>1. BillingTypeOK /\ n \in Nat
  BY DEF TierInv
<1>2. BillingTypeOK'
  BY <1>1, EmitType
<1>3. /\ Len(stripe') = n + 1
      /\ \A e \in 1..n : stripe'[e] = stripe[e]
      /\ stripe'[n + 1].type = type
      /\ owed' = owed \cup {n + 1}
  BY <1>1, Emission
<1>4. plan' = plan /\ ledger' = ledger /\ webhook' = webhook /\ holds' = holds
  BY DEF Emit
<1>5. Emitted = 1..n /\ Emitted' = 1..(n + 1)
  BY <1>3 DEF Emitted
<1>6. ASSUME NEW e \in 1..n
      PROVE  Counted(e)' => Counted(e)
  <2>1. e # n + 1
    BY <1>1
  <2> QED BY <2>1, <1>3, <1>4 DEF Counted
<1>7. ~Counted(n + 1)'
  <2>1. n + 1 \in owed'
    BY <1>3
  <2>2. n + 1 \notin ledger'
    BY <1>1, <1>4, <1>5 DEF BillingTypeOK
  <2>3. \A l \in Loops : holds'[l] # n + 1
    BY <1>1, <1>4 DEF BillingTypeOK
  <2> QED BY <2>1, <2>2, <2>3 DEF Counted
<1>8. ASSUME NEW p \in Plans, OneTier(p)'
      PROVE  /\ plan' \in {FreePlan, p}
             /\ \A e \in Emitted' : (stripe[e].type \in Activating /\ Counted(e))' => plan' = p
  <2>1. OneTier(p)
    BY <1>1, <1>3, <1>5, <1>8 DEF OneTier
  <2>2. /\ plan \in {FreePlan, p}
        /\ \A e \in 1..n : stripe[e].type \in Activating /\ Counted(e) => plan = p
    BY <2>1, <1>5 DEF TierInv, InForce
  <2>3. ASSUME NEW e \in 1..(n + 1), (stripe[e].type \in Activating)', Counted(e)'
        PROVE  plan' = p
    <3>1. e # n + 1
      BY <2>3, <1>7
    <3>2. e \in 1..n
      BY <3>1, <1>1
    <3>3. stripe[e].type \in Activating /\ Counted(e)
      BY <3>2, <2>3, <1>3, <1>6
    <3> QED BY <3>2, <3>3, <2>2, <1>4
  <2> QED BY <2>2, <2>3, <1>4, <1>5
<1> QED BY <1>2, <1>8 DEF TierInv, InForce

LEMMA ServeTier ==
  ASSUME TierInv, NEW l \in Loops, Lookup(l) \/ Mark(l) \/ Respond(l)
  PROVE  TierInv'
<1>1. BillingTypeOK'
  BY StepType DEF TierInv, BillingNext, WebhookStep
<1>2. UNCHANGED <<stripe, plan, holds>>
  BY DEF Lookup, Mark, Respond, external
<1>3. \A m \in Loops \ {l} : webhook'[m] = webhook[m]
  BY DEF TierInv, BillingTypeOK, Lookup, Mark, Respond, ToStep
<1>4. ASSUME NEW e \in Emitted, Counted(e)'
      PROVE  Counted(e)
  <2>1. CASE Lookup(l)
    <3>1. /\ owed' = owed /\ ledger' = ledger
          /\ webhook'[l] \in {"mark", "respond"} => holds[l] \in ledger
      BY <2>1 DEF Lookup, external, ToStep, TierInv, BillingTypeOK
    <3> QED BY <3>1, <1>2, <1>3, <1>4 DEF Counted
  <2>2. CASE Mark(l)
    <3>1. /\ owed' = owed /\ webhook[l] = "mark"
          /\ ledger' \subseteq ledger \cup {holds[l]}
      BY <2>2 DEF Mark, external
    <3> QED BY <3>1, <1>2, <1>3, <1>4 DEF Counted
  <2>3. CASE Respond(l)
    <3>1. /\ owed' = owed \ {holds[l]} /\ webhook[l] = "respond" /\ ledger' = ledger
      BY <2>3 DEF Respond
    <3>2. webhook'[l] = "idle"
      BY <2>3 DEF Respond, ToStep, TierInv, BillingTypeOK
    <3> QED BY <3>1, <3>2, <1>2, <1>3, <1>4 DEF Counted
  <2> QED BY <2>1, <2>2, <2>3
<1> QED BY <1>1, <1>2, <1>4, NothingMoreCounted

LEMMA ActivateTier ==
  ASSUME TierInv, NEW l \in Loops, Activate(l)
  PROVE  TierInv'
<1>1. BillingTypeOK /\ BillingTypeOK'
  BY StepType DEF TierInv, BillingNext, WebhookStep
<1>2. PICK d : d = holds[l]
  OBVIOUS
<1>3. d \in Emitted /\ stripe[d] \in [sub : Subs, type : Types, due : Plans]
  <2>1. d \in 1..Len(stripe)
    BY <1>1, <1>2 DEF BillingTypeOK, Activate
  <2> QED BY <2>1, <1>1, EventType DEF Emitted
<1>4. /\ UNCHANGED <<stripe, owed, ledger, holds>>
      /\ \/ plan' = Handled(stripe[d].type, stripe[d].sub, plan)
         \/ plan' = plan /\ webhook'[l] = "idle"
      /\ \A m \in Loops \ {l} : webhook'[m] = webhook[m]
  BY <1>1, <1>2 DEF Activate, external, ToStep, BillingTypeOK
<1>5. Emitted' = Emitted
  BY <1>4 DEF Emitted
<1>6. ASSUME NEW e \in Emitted, Counted(e)', e # d
      PROVE  Counted(e)
  BY <1>2, <1>4, <1>6 DEF Counted
<1>7. ASSUME NEW p \in Plans, OneTier(p)
      PROVE  /\ plan' \in {FreePlan, p}
             /\ \A e \in Emitted : stripe[e].type \in Activating /\ Counted(e)' => plan' = p
  <2>1. /\ plan \in {FreePlan, p}
        /\ \A e \in Emitted : stripe[e].type \in Activating /\ Counted(e) => plan = p
    BY <1>7 DEF TierInv, InForce
  <2>2. /\ stripe[d].type # "customer.subscription.deleted"
        /\ SoldAs[stripe[d].sub] = p
    BY <1>3, <1>7 DEF OneTier
  <2>3. plan' = plan \/ plan' = p
    BY <1>4, <2>2 DEF Handled
  <2>4. CASE plan' = p
    BY <2>4
  <2>5. CASE plan' = plan
    <3>1. stripe[d].type \in Activating /\ Counted(d)' => plan' = p
      <4>1. CASE plan' = Handled(stripe[d].type, stripe[d].sub, plan)
        BY <4>1, <2>2 DEF Handled
      <4>2. CASE webhook'[l] = "idle"
        <5>1. Counted(d)' => Counted(d)
          BY <4>2, <1>2, <1>4 DEF Counted
        <5> QED BY <5>1, <2>1, <2>5, <1>3
      <4> QED BY <4>1, <4>2, <1>4
    <3> QED BY <3>1, <2>1, <2>5, <1>6
  <2> QED BY <2>3, <2>4, <2>5
<1>8. ASSUME NEW p \in Plans
      PROVE  InForce(p)'
  <2>1. OneTier(p)' <=> OneTier(p)
    BY <1>4, <1>5 DEF OneTier
  <2> QED BY <2>1, <1>4, <1>5, <1>7 DEF InForce
<1> QED BY <1>1, <1>8 DEF TierInv

LEMMA TierStep ==
  ASSUME TierInv, [BillingNext]_billingVars
  PROVE  TierInv'
<1>1. BillingTypeOK /\ BillingTypeOK'
  BY StepType DEF TierInv
<1>2. ASSUME NEW s \in Subs, CheckoutCompletes(s) \/ SubscriptionChanges(s)
      PROVE  TierInv'
  BY <1>2, EmitTier DEF CheckoutCompletes, SubscriptionChanges, Types, Activating
<1>3. ASSUME NEW l \in Loops, NEW e \in Emitted, Deliver(l, e)
      PROVE  TierInv'
  <2>1. UNCHANGED <<stripe, owed, plan, ledger>>
    BY <1>3 DEF Deliver, external
  <2>2. /\ webhook'[l] = "lookup"
        /\ \A m \in Loops \ {l} : webhook'[m] = webhook[m] /\ holds'[m] = holds[m]
    BY <1>1, <1>3 DEF Deliver, ToStep, BillingTypeOK
  <2>3. \A d \in Emitted : Counted(d)' => Counted(d)
    BY <2>1, <2>2 DEF Counted
  <2> QED BY <2>1, <2>3, <1>1, NothingMoreCounted
<1>4. ASSUME NEW l \in Loops, WebhookStep(l)
      PROVE  TierInv'
  BY <1>4, ServeTier, ActivateTier DEF WebhookStep
<1>5. CASE ServerStops
  <2>1. UNCHANGED <<stripe, owed, plan, ledger>> /\ \A l \in Loops : webhook'[l] = "idle"
    BY <1>5 DEF ServerStops, external
  <2>2. \A d \in Emitted : Counted(d)' => Counted(d)
    BY <2>1 DEF Counted
  <2> QED BY <2>1, <2>2, <1>1, NothingMoreCounted
<1>6. CASE UNCHANGED billingVars
  <2>1. UNCHANGED <<stripe, owed, plan, ledger, webhook, holds>>
    BY <1>6 DEF billingVars, external
  <2>2. \A d \in Emitted : Counted(d)' => Counted(d)
    BY <2>1 DEF Counted
  <2> QED BY <2>1, <2>2, <1>1, NothingMoreCounted
<1> QED BY <1>2, <1>3, <1>4, <1>5, <1>6 DEF BillingNext

(***************************************************************************)
(* A tenant that was sold one tier and never cancelled is on that tier     *)
(* from the first payment on that is answered or recorded, under every     *)
(* fault, in whatever order, however often, and to whichever of the loops  *)
(* the events come.                                                        *)
(***************************************************************************)
THEOREM SameTierIsHarmlessAlways == BillingSpec => []SameTierIsHarmless
<1>1. BillingInit => TierInv
  <2> SUFFICES ASSUME BillingInit PROVE TierInv
    OBVIOUS
  <2>1. BillingTypeOK /\ Emitted = {} /\ plan = FreePlan
    BY InitType DEF BillingInit, Emitted
  <2> QED BY <2>1 DEF TierInv, InForce
<1>2. TierInv => SameTierIsHarmless
  BY DEF TierInv, InForce, OneTier, Counted, SameTierIsHarmless
<1> QED BY <1>1, <1>2, TierStep, PTL DEF BillingSpec

-----------------------------------------------------------------------------
(***************************************************************************)
(* Onboarding.  OnboardInv ties what each tenant's rows hold to what its   *)
(* handlers were told, while one handler at a time has the tenant, and     *)
(* counts the workspaces that nobody has.                                  *)
(***************************************************************************)
Sayings == [answers : Answers \cup {Keep}, modules : ModuleLists \cup {Keep}]
SessionRows == [tenant : Workspaces, holds : Sayings]
Tasks ==
  [step : {"idle", "tenant", "profile", "session", "create", "patch", "modules", "delete",
           "insert"},
   tenant : Workspaces \cup {0}, user : Newcomers \cup {Keep}, row : Nat, update : Sayings,
   activates : BOOLEAN]
Activations ==
  [modules : SUBSET UNION {ToSet(list) : list \in ModuleLists}, broken : BOOLEAN]

OnboardTyped ==
  /\ workspaces \subseteq Workspaces
  /\ homeOf \in [Newcomers -> Workspaces \cup {0}]
  /\ sessions \in Seq(SessionRows)
  /\ serving \in [Hosts -> Tasks]
  /\ failures \in Nat
  /\ said \in [Workspaces -> Sayings]
  /\ activated \in [Workspaces -> Activations]

TasksKnown ==
  \A h \in Hosts :
    LET task == serving[h] IN
    /\ task.step = "idle" => task.tenant = 0
    /\ task.step # "idle" => task.tenant \in Workspaces
    /\ task.step \in {"tenant", "profile"} => task.user \in Newcomers
    /\ task.step \notin {"idle", "tenant"} => task.tenant \in workspaces
    /\ task.activates \/ task.step \in {"modules", "delete", "insert"} =>
         task.update.modules \in ModuleLists
    /\ task.step = "patch" => /\ task.row \in 1..Len(sessions)
                              /\ sessions[task.row].tenant = task.tenant

SessionsOf(t) == {i \in 1..Len(sessions) : sessions[i].tenant = t}

\* Nothing is kept of a tenant yet.
Fresh(t) ==
  /\ \A u \in Newcomers : homeOf[u] # t
  /\ SessionsOf(t) = {} /\ said[t] = Unsaid
  /\ ModulesOf(t) = {} /\ activated[t] = NotActivated

NewAreFresh ==
  /\ \A t \in Workspaces \ workspaces : Fresh(t)
  /\ \A h \in Hosts : serving[h].step = "profile" => Fresh(serving[h].tenant)

\* The handler on h is at work on the rows of t.
BusyWith(h, t) == serving[h].step \notin {"idle", "tenant"} /\ serving[h].tenant = t

Alone ==
  \A g, h \in Hosts :
    \A t \in Workspaces :
      g # h /\ BusyWith(g, t) /\ BusyWith(h, t) => t \in contested /\ serving[h].step # "profile"

\* There is one session of a tenant, which holds what was said.
OneSession(t) ==
  /\ \/ SessionsOf(t) = {} /\ said[t] = Unsaid
     \/ \E i \in SessionsOf(t) : SessionsOf(t) = {i} /\ sessions[i].holds = said[t]
  /\ \A h \in Hosts :
       serving[h].step \in {"session", "create"} /\ serving[h].tenant = t => SessionsOf(t) = {}

ModulesAgree(t) ==
  LET modules == {row[2] : row \in ModulesOf(t)} IN
  /\ \/ modules = activated[t].modules /\ ~activated[t].broken
     \/ modules = {} /\ (activated[t].broken \/ Replacing(t))
  /\ Replacing(t) => ModulesOf(t) = {}

TenantsAreSetUp ==
  /\ OnboardTyped /\ TasksKnown /\ NewAreFresh /\ Alone
  /\ \A t \in Workspaces \ contested : OneSession(t) /\ ModulesAgree(t)

\* The sign-ins that may yet be made or lost, and the users who are in.
Pending ==
  {p \in Newcomers \X Hosts :
    \/ homeOf[p[1]] = 0
    \/ serving[p[2]].step \in {"tenant", "profile"} /\ serving[p[2]].user = p[1]}
Homed == {u \in Newcomers : homeOf[u] # 0}

DesertionIsCounted ==
  Cardinality(Deserted) + Cardinality(Pending) + Cardinality(Homed)
    <= failures + Cardinality(Newcomers) * Cardinality(Hosts)

OnboardInv == TenantsAreSetUp /\ DesertionIsCounted

LEMMA WorkspacesAreNumbers == Workspaces \subseteq Nat \ {0} /\ IsFiniteSet(Workspaces)
<1>1. Cardinality(Newcomers) \in Nat /\ Cardinality(Hosts) \in Nat /\ MaxFailures \in Nat
  BY OnboardingAssumption, FS_CardinalityType
<1>2. Cardinality(Newcomers) * Cardinality(Hosts) + MaxFailures \in Int
  BY <1>1
<1>3. QED
  BY <1>2, FS_Interval DEF Workspaces

LEMMA NoCallIsATask == NoCall \in Tasks /\ Unsaid \in Sayings /\ NotActivated \in Activations
  BY DEF NoCall, Tasks, Unsaid, Sayings, NotActivated, Activations

\* The task of one host changes.
LEMMA Served ==
  ASSUME OnboardTyped, NEW h \in Hosts, NEW task \in Tasks, Serve(h, task)
  PROVE  /\ serving' \in [Hosts -> Tasks] /\ serving'[h] = task
         /\ \A g \in Hosts \ {h} : serving'[g] = serving[g]
  BY DEF OnboardTyped, Serve

LEMMA NextStep ==
  ASSUME OnboardTyped, NEW h \in Hosts, NEW step, Then(h, step),
         step \in {"profile", "session", "modules", "delete", "insert"}
  PROVE  /\ serving' \in [Hosts -> Tasks]
         /\ serving'[h] = [serving[h] EXCEPT !.step = step]
         /\ serving'[h].step = step /\ serving'[h].tenant = serving[h].tenant
         /\ serving'[h].user = serving[h].user /\ serving'[h].update = serving[h].update
         /\ serving'[h].activates = serving[h].activates
         /\ \A g \in Hosts \ {h} : serving'[g] = serving[g]
<1>1. serving[h] \in Tasks
  BY DEF OnboardTyped
<1>2. [serving[h] EXCEPT !.step = step] \in Tasks
  BY <1>1 DEF Tasks
<1>3. QED
  BY <1>1, <1>2 DEF OnboardTyped, Then, Tasks

LEMMA AnsweredCall ==
  ASSUME OnboardTyped, NEW h \in Hosts, Answered(h)
  PROVE  /\ serving' \in [Hosts -> Tasks]
         /\ serving'[h].step = "idle" /\ serving'[h].tenant = 0 /\ ~serving'[h].activates
         /\ \A g \in Hosts \ {h} : serving'[g] = serving[g]
  BY NoCallIsATask, Served DEF Answered, NoCall

LEMMA ChangedIsSaid ==
  ASSUME NEW row \in Sayings, NEW update \in Sayings
  PROVE  Changed(row, update) \in Sayings
  BY DEF Changed, Sayings

LEMMA NewestSession ==
  ASSUME OnboardTyped, NEW t
  PROVE  /\ SessionsOf(t) = {} => Newest(t) = 0
         /\ \A i : SessionsOf(t) = {i} => Newest(t) = i /\ i \in Nat
<1>1. Newest(t) = IF SessionsOf(t) # {} THEN Max(SessionsOf(t)) ELSE 0
  BY DEF Newest, SelectLastInSeq, SessionsOf
<1>2. ASSUME NEW i, SessionsOf(t) = {i} PROVE Newest(t) = i /\ i \in Nat
  <2>1. i \in 1..Len(sessions) /\ Len(sessions) \in Nat
    BY <1>2 DEF SessionsOf, OnboardTyped
  <2>2. i >= i /\ i \in Nat
    BY <2>1
  <2>3. Max({i}) = i
    BY <2>2 DEF Max
  <2>4. QED
    BY <1>1, <1>2, <2>2, <2>3
<1>3. QED
  BY <1>1, <1>2

LEMMA OpenedSession ==
  ASSUME OnboardTyped, NEW t \in Workspaces, Opened(t)
  PROVE  /\ sessions' \in Seq(SessionRows) /\ Len(sessions') = Len(sessions) + 1
         /\ Len(sessions) \in Nat
         /\ \A i \in 1..Len(sessions) : sessions'[i] = sessions[i]
         /\ sessions'[Len(sessions) + 1] = [tenant |-> t, holds |-> Unsaid]
<1>1. [tenant |-> t, holds |-> Unsaid] \in SessionRows
  BY NoCallIsATask DEF SessionRows
<1>2. QED
  BY <1>1, AppendProperties DEF Opened, OnboardTyped

LEMMA PatchedSession ==
  ASSUME OnboardTyped, NEW i \in 1..Len(sessions), NEW update \in Sayings,
         sessions' = [sessions EXCEPT ![i].holds = Changed(@, update)]
  PROVE  /\ sessions' \in Seq(SessionRows) /\ Len(sessions') = Len(sessions)
         /\ \A j \in 1..Len(sessions) : sessions'[j].tenant = sessions[j].tenant
         /\ \A j \in 1..Len(sessions) \ {i} : sessions'[j] = sessions[j]
         /\ sessions'[i].holds = Changed(sessions[i].holds, update)
<1>1. /\ sessions \in Seq(SessionRows) /\ sessions[i] \in SessionRows
      /\ DOMAIN sessions = 1..Len(sessions) /\ Len(sessions) \in Nat
  BY DEF OnboardTyped
<1>2. Changed(sessions[i].holds, update) \in Sayings
  BY <1>1, ChangedIsSaid DEF SessionRows
<1> DEFINE row == [sessions[i] EXCEPT !.holds = Changed(@, update)]
<1>3. /\ row \in SessionRows /\ row.tenant = sessions[i].tenant
      /\ row.holds = Changed(sessions[i].holds, update)
  BY <1>1, <1>2 DEF SessionRows
<1>4. sessions' = [sessions EXCEPT ![i] = row]
  OBVIOUS
<1> HIDE DEF row
<1>5. QED
  BY <1>1, <1>3, <1>4

-----------------------------------------------------------------------------
\* The handlers on other hosts go on as they were.
LEMMA OthersStayKnown ==
  ASSUME OnboardTyped, TasksKnown, NEW h \in Hosts,
         \A g \in Hosts \ {h} : serving'[g] = serving[g],
         workspaces \subseteq workspaces', Len(sessions') \in Nat, Len(sessions) <= Len(sessions'),
         \A i \in 1..Len(sessions) : sessions'[i].tenant = sessions[i].tenant,
         LET task == serving'[h] IN
           /\ task.step = "idle" => task.tenant = 0
           /\ task.step # "idle" => task.tenant \in Workspaces
           /\ task.step \in {"tenant", "profile"} => task.user \in Newcomers
           /\ task.step \notin {"idle", "tenant"} => task.tenant \in workspaces'
           /\ task.activates \/ task.step \in {"modules", "delete", "insert"} =>
                task.update.modules \in ModuleLists
           /\ task.step = "patch" => /\ task.row \in 1..Len(sessions')
                                     /\ sessions'[task.row].tenant = task.tenant
  PROVE  TasksKnown'
<1>1. Len(sessions) \in Nat
  BY DEF OnboardTyped
<1>2. \A i \in 1..Len(sessions) : i \in 1..Len(sessions')
  BY <1>1
<1>3. QED
  BY <1>2 DEF TasksKnown

LEMMA SessionsAreCounted ==
  ASSUME OnboardTyped
  PROVE  Len(sessions) \in Nat /\ \A i \in 1..Len(sessions) : sessions[i] \in SessionRows
  BY DEF OnboardTyped

LEMMA StartedSignIn ==
  ASSUME OnboardTyped, TasksKnown, NEW h \in Hosts, NEW t \in Workspaces, NEW u \in Newcomers,
         Serve(h, [NoCall EXCEPT !.step = "tenant", !.tenant = t, !.user = u]),
         sessions' = sessions, workspaces' = workspaces
  PROVE  /\ serving' \in [Hosts -> Tasks] /\ TasksKnown'
         /\ serving'[h].step = "tenant" /\ serving'[h].tenant = t /\ serving'[h].user = u
         /\ \A g \in Hosts \ {h} : serving'[g] = serving[g]
<1> DEFINE task == [NoCall EXCEPT !.step = "tenant", !.tenant = t, !.user = u]
<1>1. /\ task \in Tasks /\ task.step = "tenant" /\ task.tenant = t /\ task.user = u
      /\ task.activates = FALSE
  BY NoCallIsATask DEF Tasks, NoCall
<1>2. Serve(h, task)
  OBVIOUS
<1> HIDE DEF task
<1>3. serving' \in [Hosts -> Tasks] /\ serving'[h] = task
      /\ \A g \in Hosts \ {h} : serving'[g] = serving[g]
  BY <1>1, <1>2, Served
<1>4. Len(sessions') \in Nat /\ Len(sessions) <= Len(sessions')
  BY SessionsAreCounted
<1>5. TasksKnown'
  BY <1>1, <1>3, <1>4, OthersStayKnown
<1>6. QED
  BY <1>1, <1>3, <1>5

LEMMA StartedUpdate ==
  ASSUME OnboardTyped, TasksKnown, NEW h \in Hosts, NEW t \in Workspaces,
         NEW update \in Sayings, NEW activates \in BOOLEAN,
         t \in workspaces, activates => update.modules \in ModuleLists,
         Newest(t) # 0 => Newest(t) \in 1..Len(sessions) /\ sessions[Newest(t)].tenant = t,
         Serve(h, [NoCall EXCEPT !.step = IF Newest(t) = 0 THEN "create" ELSE "patch",
                                 !.tenant = t, !.row = Newest(t), !.update = update,
                                 !.activates = activates]),
         sessions' = sessions, workspaces' = workspaces
  PROVE  /\ serving' \in [Hosts -> Tasks] /\ TasksKnown'
         /\ serving'[h].step = IF Newest(t) = 0 THEN "create" ELSE "patch"
         /\ serving'[h].tenant = t
         /\ \A g \in Hosts \ {h} : serving'[g] = serving[g]
<1> DEFINE step == IF Newest(t) = 0 THEN "create" ELSE "patch"
           task == [NoCall EXCEPT !.step = step, !.tenant = t, !.row = Newest(t),
                                  !.update = update, !.activates = activates]
<1>1. Newest(t) \in Nat /\ step \in {"create", "patch"}
  BY SessionsAreCounted
<1>2. /\ task \in Tasks /\ task.step = step /\ task.tenant = t /\ task.row = Newest(t)
      /\ task.update = update /\ task.activates = activates
  <2> HIDE DEF step
  <2>1. QED
    BY <1>1, NoCallIsATask DEF Tasks, NoCall
<1>3. Serve(h, task)
  OBVIOUS
<1> HIDE DEF task
<1>4. serving' \in [Hosts -> Tasks] /\ serving'[h] = task
      /\ \A g \in Hosts \ {h} : serving'[g] = serving[g]
  BY <1>2, <1>3, Served
<1>5. Len(sessions') \in Nat /\ Len(sessions) <= Len(sessions')
  BY SessionsAreCounted
<1>6. TasksKnown'
  BY <1>2, <1>4, <1>5, OthersStayKnown
<1>7. QED
  BY <1>2, <1>4, <1>6

\* The session that is read of a tenant no two handlers were busy with.
LEMMA NewestIsItsSession ==
  ASSUME TenantsAreSetUp, NEW t \in Workspaces, t \notin contested, Newest(t) # 0
  PROVE  Newest(t) \in 1..Len(sessions) /\ sessions[Newest(t)].tenant = t
<1>1. PICK i : SessionsOf(t) = {i}
  BY NewestSession DEF TenantsAreSetUp, OneSession
<1>2. Newest(t) = i
  BY <1>1, NewestSession DEF TenantsAreSetUp
<1>3. Newest(t) \in SessionsOf(t)
  BY <1>1, <1>2
<1>4. QED
  BY <1>3 DEF SessionsOf

\* What begins an update of a session is known to the actions of the others.
LEMMA UpdatesBegin ==
  ASSUME TenantsAreSetUp, NEW h \in Hosts, NEW t \in Workspaces, NEW update \in Sayings,
         NEW activates \in BOOLEAN, BeginSession(h, t, update, activates),
         activates => update.modules \in ModuleLists
  PROVE  /\ t \in workspaces /\ t \notin contested
         /\ serving[h].step = "idle"
         /\ serving' \in [Hosts -> Tasks] /\ TasksKnown'
         /\ serving'[h].step = IF Newest(t) = 0 THEN "create" ELSE "patch"
         /\ serving'[h].tenant = t
         /\ \A g \in Hosts \ {h} : serving'[g] = serving[g]
<1>1. t \in workspaces
  BY DEF TenantsAreSetUp, NewAreFresh, Fresh, BeginSession
<1>2. Newest(t) # 0 => Newest(t) \in 1..Len(sessions) /\ sessions[Newest(t)].tenant = t
  BY NewestIsItsSession DEF BeginSession
<1>3. /\ Serve(h, [NoCall EXCEPT !.step = IF Newest(t) = 0 THEN "create" ELSE "patch",
                                 !.tenant = t, !.row = Newest(t), !.update = update,
                                 !.activates = activates])
      /\ sessions' = sessions /\ workspaces' = workspaces
      /\ t \notin contested /\ serving[h].step = "idle"
  BY DEF BeginSession
<1>4. OnboardTyped /\ TasksKnown
  BY DEF TenantsAreSetUp
<1>5. QED
  BY <1>1, <1>2, <1>3, <1>4, StartedUpdate

\* The steps of a handler, told apart by what it is about to do.
StepOf(h) ==
  \/ \E u \in Newcomers : SignIn(h, u)
  \/ \E t \in Workspaces, update \in Sayings, activates \in BOOLEAN :
       /\ activates => update.modules \in ModuleLists
       /\ BeginSession(h, t, update, activates)
  \/ InsertTenant(h) \/ InsertProfile(h) \/ InsertSession(h) \/ CreateSession(h)
  \/ PatchSession(h) \/ ReadModules(h) \/ DeleteModules(h) \/ InsertModules(h)
  \/ BreakOff(h)

LEMMA HandlersSteps ==
  ASSUME OnboardNext
  PROVE  \E h \in Hosts : StepOf(h)
<1>1. PICK h \in Hosts :
        \/ \E u \in Newcomers : SignIn(h, u)
        \/ InsertTenant(h) \/ InsertProfile(h) \/ InsertSession(h)
        \/ \E t \in Workspaces :
             \/ \E answers \in Answers : BeginSession(h, t, Saying(answers, Keep), FALSE)
             \/ \E list \in ModuleLists, activates \in BOOLEAN :
                  BeginSession(h, t, Saying(Keep, list), activates)
        \/ CreateSession(h) \/ PatchSession(h)
        \/ ReadModules(h) \/ DeleteModules(h) \/ InsertModules(h) \/ BreakOff(h)
  BY DEF OnboardNext
<1>2. ASSUME NEW t \in Workspaces, NEW answers \in Answers,
             BeginSession(h, t, Saying(answers, Keep), FALSE)
      PROVE  \E update \in Sayings, activates \in BOOLEAN :
               /\ activates => update.modules \in ModuleLists
               /\ BeginSession(h, t, update, activates)
  <2>1. Saying(answers, Keep) \in Sayings
    BY DEF Saying, Sayings
  <2>2. QED
    BY <1>2, <2>1
<1>3. ASSUME NEW t \in Workspaces, NEW list \in ModuleLists, NEW activates \in BOOLEAN,
             BeginSession(h, t, Saying(Keep, list), activates)
      PROVE  \E update \in Sayings, doing \in BOOLEAN :
               /\ doing => update.modules \in ModuleLists
               /\ BeginSession(h, t, update, doing)
  <2>1. Saying(Keep, list) \in Sayings /\ Saying(Keep, list).modules \in ModuleLists
    BY DEF Saying, Sayings
  <2>2. QED
    BY <1>3, <2>1
<1>4. QED
  BY <1>1, <1>2, <1>3 DEF StepOf

LEMMA StaysTyped ==
  ASSUME TenantsAreSetUp, [OnboardNext]_onboardVars
  PROVE  OnboardTyped' /\ TasksKnown'
<1> DEFINE Goal == OnboardTyped' /\ TasksKnown'
<1>0. OnboardTyped /\ TasksKnown
  BY DEF TenantsAreSetUp
<1>1. CASE UNCHANGED onboardVars
  BY <1>0, <1>1 DEF onboardVars, OnboardTyped, TasksKnown
<1>2. ASSUME NEW h \in Hosts, NEW u \in Newcomers, SignIn(h, u) PROVE Goal
  <2>1. PICK n \in FreeSlugs :
          Serve(h, [NoCall EXCEPT !.step = "tenant", !.tenant = n, !.user = u])
    BY <1>2 DEF SignIn
  <2>2. n \in Workspaces
    BY DEF FreeSlugs
  <2>3. sessions' = sessions /\ workspaces' = workspaces /\ failures' = failures
        /\ homeOf' = homeOf /\ said' = said /\ activated' = activated
    BY <1>2 DEF SignIn, histories
  <2>4. serving' \in [Hosts -> Tasks] /\ TasksKnown'
    BY <1>0, <2>1, <2>2, <2>3, StartedSignIn
  <2>5. QED
    BY <1>0, <2>3, <2>4 DEF OnboardTyped
<1>3. ASSUME NEW h \in Hosts, NEW t \in Workspaces, NEW update \in Sayings,
             NEW activates \in BOOLEAN, activates => update.modules \in ModuleLists,
             BeginSession(h, t, update, activates)
      PROVE  Goal
  <2>1. serving' \in [Hosts -> Tasks] /\ TasksKnown'
    BY <1>3, UpdatesBegin
  <2>2. said' \in [Workspaces -> Sayings] /\ activated' \in [Workspaces -> Activations]
    BY <1>0, <1>3, NoCallIsATask DEF BeginSession, histories, OnboardTyped
  <2>3. sessions' = sessions /\ workspaces' = workspaces /\ failures' = failures
        /\ homeOf' = homeOf
    BY <1>3 DEF BeginSession
  <2>4. QED
    BY <1>0, <2>1, <2>2, <2>3 DEF OnboardTyped
<1>4. ASSUME NEW h \in Hosts, InsertTenant(h) PROVE Goal
  <2>1. /\ serving[h].step = "tenant" /\ workspaces' = workspaces \cup {serving[h].tenant}
        /\ sessions' = sessions /\ failures' = failures
        /\ homeOf' = homeOf /\ said' = said /\ activated' = activated
    BY <1>4 DEF InsertTenant, histories
  <2>2. serving[h].tenant \in Workspaces /\ serving[h].user \in Newcomers
        /\ (serving[h].activates => serving[h].update.modules \in ModuleLists)
    BY <1>0, <2>1 DEF TasksKnown
  <2>3. Len(sessions') \in Nat /\ Len(sessions) <= Len(sessions')
    BY <1>0, <2>1, SessionsAreCounted
  <2>4. CASE Answered(h)
    <3>1. serving' \in [Hosts -> Tasks] /\ TasksKnown'
      BY <1>0, <2>1, <2>3, <2>4, AnsweredCall, OthersStayKnown
    <3>2. QED
      BY <1>0, <2>1, <2>2, <3>1 DEF OnboardTyped
  <2>5. CASE Then(h, "profile")
    <3>1. serving' \in [Hosts -> Tasks] /\ TasksKnown'
      <4>1. /\ serving' \in [Hosts -> Tasks] /\ serving'[h].step = "profile"
            /\ serving'[h].tenant = serving[h].tenant /\ serving'[h].user = serving[h].user
            /\ serving'[h].activates = serving[h].activates
            /\ serving'[h].update = serving[h].update
            /\ \A g \in Hosts \ {h} : serving'[g] = serving[g]
        BY <1>0, <2>5, NextStep
      <4>2. QED
        BY <1>0, <2>1, <2>2, <2>3, <4>1, OthersStayKnown
    <3>2. QED
      BY <1>0, <2>1, <2>2, <3>1 DEF OnboardTyped
  <2>6. QED
    BY <1>4, <2>4, <2>5 DEF InsertTenant
<1>5. ASSUME NEW h \in Hosts, InsertProfile(h) PROVE Goal
  <2>1. /\ serving[h].step = "profile" /\ workspaces' = workspaces
        /\ sessions' = sessions /\ failures' = failures
        /\ said' = said /\ activated' = activated
    BY <1>5 DEF InsertProfile, histories
  <2>2. serving[h].tenant \in workspaces /\ serving[h].tenant \in Workspaces
        /\ (serving[h].activates => serving[h].update.modules \in ModuleLists)
    BY <1>0, <2>1 DEF TasksKnown
  <2>3. Len(sessions') \in Nat /\ Len(sessions) <= Len(sessions')
    BY <1>0, <2>1, SessionsAreCounted
  <2>4. CASE Answered(h) /\ UNCHANGED homeOf
    <3>1. serving' \in [Hosts -> Tasks] /\ TasksKnown'
      BY <1>0, <2>1, <2>3, <2>4, AnsweredCall, OthersStayKnown
    <3>2. QED
      BY <1>0, <2>1, <2>4, <3>1 DEF OnboardTyped
  <2>5. CASE /\ homeOf' = [homeOf EXCEPT ![serving[h].user] = serving[h].tenant]
             /\ Then(h, "session")
    <3>1. serving' \in [Hosts -> Tasks] /\ TasksKnown'
      <4>1. /\ serving' \in [Hosts -> Tasks] /\ serving'[h].step = "session"
            /\ serving'[h].tenant = serving[h].tenant /\ serving'[h].user = serving[h].user
            /\ serving'[h].activates = serving[h].activates
            /\ serving'[h].update = serving[h].update
            /\ \A g \in Hosts \ {h} : serving'[g] = serving[g]
        BY <1>0, <2>5, NextStep
      <4>2. QED
        BY <1>0, <2>1, <2>2, <2>3, <4>1, OthersStayKnown
    <3>2. homeOf' \in [Newcomers -> Workspaces \cup {0}]
      BY <1>0, <2>2, <2>5 DEF OnboardTyped
    <3>3. QED
      BY <1>0, <2>1, <3>1, <3>2 DEF OnboardTyped
  <2>6. QED
    BY <1>5, <2>4, <2>5 DEF InsertProfile
<1>6. ASSUME NEW h \in Hosts, InsertSession(h) PROVE Goal
  <2>1. /\ serving[h].step = "session" /\ workspaces' = workspaces /\ failures' = failures
        /\ homeOf' = homeOf /\ said' = said /\ activated' = activated
        /\ Opened(serving[h].tenant) /\ Answered(h)
    BY <1>6 DEF InsertSession, histories
  <2>2. serving[h].tenant \in Workspaces
    BY <1>0, <2>1 DEF TasksKnown
  <2>3. /\ sessions' \in Seq(SessionRows) /\ Len(sessions) \in Nat
        /\ Len(sessions') = Len(sessions) + 1
        /\ \A i \in 1..Len(sessions) : sessions'[i] = sessions[i]
    BY <1>0, <2>1, <2>2, OpenedSession
  <2>4. Len(sessions') \in Nat /\ Len(sessions) <= Len(sessions')
    BY <2>3
  <2>5. serving' \in [Hosts -> Tasks] /\ TasksKnown'
    BY <1>0, <2>1, <2>3, <2>4, AnsweredCall, OthersStayKnown
  <2>6. QED
    BY <1>0, <2>1, <2>3, <2>5 DEF OnboardTyped
<1>7. ASSUME NEW h \in Hosts, CreateSession(h) PROVE Goal
  <2>1. /\ serving[h].step = "create" /\ workspaces' = workspaces /\ failures' = failures
        /\ homeOf' = homeOf /\ said' = said /\ activated' = activated
        /\ Opened(serving[h].tenant)
        /\ Serve(h, [serving[h] EXCEPT !.step = "patch", !.row = Len(sessions) + 1])
    BY <1>7 DEF CreateSession, histories
  <2>2. serving[h].tenant \in Workspaces /\ serving[h].tenant \in workspaces
        /\ (serving[h].activates => serving[h].update.modules \in ModuleLists)
    BY <1>0, <2>1 DEF TasksKnown
  <2>3. /\ sessions' \in Seq(SessionRows) /\ Len(sessions) \in Nat
        /\ Len(sessions') = Len(sessions) + 1
        /\ \A i \in 1..Len(sessions) : sessions'[i] = sessions[i]
        /\ sessions'[Len(sessions) + 1] = [tenant |-> serving[h].tenant, holds |-> Unsaid]
    BY <1>0, <2>1, <2>2, OpenedSession
  <2>4. /\ Len(sessions') \in Nat /\ Len(sessions) <= Len(sessions')
        /\ Len(sessions) + 1 \in 1..Len(sessions')
    BY <2>3
  <2> DEFINE task == [serving[h] EXCEPT !.step = "patch", !.row = Len(sessions) + 1]
  <2>5. /\ task \in Tasks /\ task.step = "patch" /\ task.row = Len(sessions) + 1
        /\ task.tenant = serving[h].tenant /\ task.update = serving[h].update
        /\ task.activates = serving[h].activates
    <3>1. serving[h] \in Tasks /\ Len(sessions) + 1 \in Nat
      BY <1>0, <2>3 DEF OnboardTyped
    <3>2. QED
      BY <3>1 DEF Tasks
  <2>6. Serve(h, task)
    BY <2>1
  <2> HIDE DEF task
  <2>7. serving' \in [Hosts -> Tasks] /\ serving'[h] = task
        /\ \A g \in Hosts \ {h} : serving'[g] = serving[g]
    BY <1>0, <2>5, <2>6, Served
  <2>8. TasksKnown'
    BY <1>0, <2>1, <2>2, <2>3, <2>4, <2>5, <2>7, OthersStayKnown
  <2>9. QED
    BY <1>0, <2>1, <2>3, <2>7, <2>8 DEF OnboardTyped
<1>8. ASSUME NEW h \in Hosts, PatchSession(h) PROVE Goal
  <2> DEFINE t == serving[h].tenant
             update == serving[h].update
  <2>1. /\ serving[h].step = "patch" /\ workspaces' = workspaces /\ failures' = failures
        /\ homeOf' = homeOf /\ activated' = activated
        /\ sessions' = [sessions EXCEPT ![serving[h].row].holds = Changed(@, update)]
        /\ said' = IF t \in contested THEN said ELSE [said EXCEPT ![t] = Changed(@, update)]
    BY <1>8 DEF PatchSession
  <2>2. /\ t \in Workspaces /\ t \in workspaces /\ serving[h].row \in 1..Len(sessions)
        /\ (serving[h].activates => update.modules \in ModuleLists)
    BY <1>0, <2>1 DEF TasksKnown
  <2>3. update \in Sayings
    BY <1>0 DEF OnboardTyped, Tasks
  <2> HIDE DEF t, update
  <2>4. /\ sessions' \in Seq(SessionRows) /\ Len(sessions') = Len(sessions)
        /\ \A j \in 1..Len(sessions) : sessions'[j].tenant = sessions[j].tenant
    BY <1>0, <2>1, <2>2, <2>3, PatchedSession
  <2>5. Len(sessions') \in Nat /\ Len(sessions) <= Len(sessions')
    BY <1>0, <2>4, SessionsAreCounted
  <2>6. said' \in [Workspaces -> Sayings]
    <3>1. said \in [Workspaces -> Sayings] /\ Changed(said[t], update) \in Sayings
      BY <1>0, <2>2, <2>3, ChangedIsSaid DEF OnboardTyped
    <3>2. QED
      BY <2>1, <2>2, <3>1
  <2>7. serving' \in [Hosts -> Tasks] /\ TasksKnown'
    <3>1. CASE Answered(h)
      BY <1>0, <2>1, <2>4, <2>5, <3>1, AnsweredCall, OthersStayKnown
    <3>2. CASE serving[h].activates /\ Then(h, "modules")
      <4>1. /\ serving' \in [Hosts -> Tasks] /\ serving'[h].step = "modules"
            /\ serving'[h].tenant = t /\ serving'[h].update = update
            /\ \A g \in Hosts \ {h} : serving'[g] = serving[g]
        BY <1>0, <3>2, NextStep DEF t, update
      <4>2. QED
        BY <1>0, <2>1, <2>2, <2>4, <2>5, <3>2, <4>1, OthersStayKnown
    <3>3. QED
      BY <1>8, <3>1, <3>2 DEF PatchSession
  <2>8. QED
    BY <1>0, <2>1, <2>4, <2>6, <2>7 DEF OnboardTyped
<1>9. ASSUME NEW h \in Hosts, ReadModules(h) PROVE Goal
  <2>1. /\ serving[h].step = "modules" /\ workspaces' = workspaces
        /\ sessions' = sessions /\ failures' = failures /\ homeOf' = homeOf
        /\ said' = said /\ activated' = activated
        /\ (Then(h, "insert") \/ Then(h, "delete"))
    BY <1>9 DEF ReadModules, AfterReading, histories
  <2>2. serving[h].tenant \in workspaces /\ serving[h].tenant \in Workspaces
        /\ serving[h].update.modules \in ModuleLists
    BY <1>0, <2>1 DEF TasksKnown
  <2>3. Len(sessions') \in Nat /\ Len(sessions) <= Len(sessions')
    BY <1>0, <2>1, SessionsAreCounted
  <2>4. /\ serving' \in [Hosts -> Tasks] /\ serving'[h].step \in {"insert", "delete"}
        /\ serving'[h].tenant = serving[h].tenant /\ serving'[h].update = serving[h].update
        /\ \A g \in Hosts \ {h} : serving'[g] = serving[g]
    BY <1>0, <2>1, NextStep
  <2>5. TasksKnown'
    BY <1>0, <2>1, <2>2, <2>3, <2>4, OthersStayKnown
  <2>6. QED
    BY <1>0, <2>1, <2>4, <2>5 DEF OnboardTyped
<1>10. ASSUME NEW h \in Hosts, DeleteModules(h) PROVE Goal
  <2>1. /\ serving[h].step = "delete" /\ workspaces' = workspaces
        /\ sessions' = sessions /\ failures' = failures /\ homeOf' = homeOf
        /\ said' = said /\ activated' = activated /\ Then(h, "insert")
    BY <1>10 DEF DeleteModules, histories
  <2>2. serving[h].tenant \in workspaces /\ serving[h].tenant \in Workspaces
        /\ serving[h].update.modules \in ModuleLists
    BY <1>0, <2>1 DEF TasksKnown
  <2>3. Len(sessions') \in Nat /\ Len(sessions) <= Len(sessions')
    BY <1>0, <2>1, SessionsAreCounted
  <2>4. /\ serving' \in [Hosts -> Tasks] /\ serving'[h].step = "insert"
        /\ serving'[h].tenant = serving[h].tenant /\ serving'[h].update = serving[h].update
        /\ \A g \in Hosts \ {h} : serving'[g] = serving[g]
    BY <1>0, <2>1, NextStep
  <2>5. TasksKnown'
    BY <1>0, <2>1, <2>2, <2>3, <2>4, OthersStayKnown
  <2>6. QED
    BY <1>0, <2>1, <2>4, <2>5 DEF OnboardTyped
<1>11. ASSUME NEW h \in Hosts, InsertModules(h) PROVE Goal
  <2> DEFINE t == serving[h].tenant
             list == serving[h].update.modules
             inserts == IsInjective(list) /\ ({t} \X ToSet(list)) \cap enabled = {}
  <2>1. /\ serving[h].step = "insert" /\ workspaces' = workspaces
        /\ sessions' = sessions /\ failures' = failures /\ homeOf' = homeOf
        /\ said' = said /\ Answered(h)
        /\ activated' = IF t \in contested THEN activated
                        ELSE [activated EXCEPT ![t] =
                                [modules |-> IF inserts THEN ToSet(list) ELSE @.modules,
                                 broken |-> ~inserts]]
    BY <1>11 DEF InsertModules
  <2>2. t \in Workspaces /\ list \in ModuleLists
    BY <1>0, <2>1 DEF TasksKnown
  <2>3. Len(sessions') \in Nat /\ Len(sessions) <= Len(sessions')
    BY <1>0, <2>1, SessionsAreCounted
  <2>4. serving' \in [Hosts -> Tasks] /\ TasksKnown'
    BY <1>0, <2>1, <2>3, AnsweredCall, OthersStayKnown
  <2>5. activated' \in [Workspaces -> Activations]
    <3> HIDE DEF inserts, t, list
    <3>1. activated \in [Workspaces -> Activations] /\ activated[t] \in Activations
      BY <1>0, <2>2 DEF OnboardTyped
    <3>2. ToSet(list) \in SUBSET UNION {ToSet(l) : l \in ModuleLists} /\ (~inserts) \in BOOLEAN
      BY <2>2
    <3> DEFINE done == [modules |-> IF inserts THEN ToSet(list) ELSE activated[t].modules,
                        broken |-> ~inserts]
    <3>3. done \in Activations
      BY <3>1, <3>2 DEF Activations
    <3>4. activated' = IF t \in contested THEN activated ELSE [activated EXCEPT ![t] = done]
      BY <2>1
    <3> HIDE DEF done
    <3>5. QED
      BY <3>1, <3>3, <3>4
  <2>6. QED
    BY <1>0, <2>1, <2>4, <2>5 DEF OnboardTyped
<1>12. ASSUME NEW h \in Hosts, BreakOff(h) PROVE Goal
  <2>1. /\ serving[h].step # "idle" /\ workspaces' = workspaces
        /\ sessions' = sessions /\ failures' = failures + 1 /\ homeOf' = homeOf
        /\ said' = said /\ Answered(h)
        /\ \/ activated' = activated
           \/ activated' = [activated EXCEPT ![serving[h].tenant].broken = TRUE]
    BY <1>12 DEF BreakOff
  <2>2. serving[h].tenant \in Workspaces
    BY <1>0, <2>1 DEF TasksKnown
  <2>3. Len(sessions') \in Nat /\ Len(sessions) <= Len(sessions')
    BY <1>0, <2>1, SessionsAreCounted
  <2>4. serving' \in [Hosts -> Tasks] /\ TasksKnown'
    BY <1>0, <2>1, <2>3, AnsweredCall, OthersStayKnown
  <2>5. activated' \in [Workspaces -> Activations]
    BY <1>0, <2>1, <2>2 DEF OnboardTyped, Activations
  <2>6. failures' \in Nat
    BY <1>0, <2>1 DEF OnboardTyped
  <2>7. QED
    BY <1>0, <2>1, <2>4, <2>5, <2>6 DEF OnboardTyped
<1>13. QED
  <2>1. CASE OnboardNext
    BY <2>1, <1>2, <1>3, <1>4, <1>5, <1>6, <1>7, <1>8, <1>9, <1>10, <1>11, <1>12, HandlersSteps
       DEF StepOf
  <2>2. QED
    BY <1>1, <2>1

-----------------------------------------------------------------------------
(* What a step leaves as it was *)

RowsStay(t) ==
  /\ SessionsOf(t)' = SessionsOf(t)
  /\ \A i \in SessionsOf(t) : sessions'[i].holds = sessions[i].holds
  /\ ModulesOf(t)' = ModulesOf(t)
  /\ said'[t] = said[t] /\ activated'[t] = activated[t]
  /\ \A u \in Newcomers : homeOf'[u] = t <=> homeOf[u] = t

LEMMA OpenedForOne ==
  ASSUME OnboardTyped, NEW t \in Workspaces, Opened(t)
  PROVE  /\ SessionsOf(t)' = SessionsOf(t) \cup {Len(sessions) + 1}
         /\ Len(sessions) + 1 \in SessionsOf(t)'
         /\ sessions'[Len(sessions) + 1].holds = Unsaid
         /\ \A w \in Workspaces \ {t} :
              /\ SessionsOf(w)' = SessionsOf(w)
              /\ \A i \in SessionsOf(w) : sessions'[i].holds = sessions[i].holds
<1>1. /\ Len(sessions') = Len(sessions) + 1 /\ Len(sessions) \in Nat
      /\ \A i \in 1..Len(sessions) : sessions'[i] = sessions[i]
      /\ sessions'[Len(sessions) + 1] = [tenant |-> t, holds |-> Unsaid]
  BY OpenedSession
<1>2. 1..Len(sessions') = 1..Len(sessions) \cup {Len(sessions) + 1}
  BY <1>1
<1>3. Len(sessions) + 1 \notin 1..Len(sessions)
  BY <1>1
<1>4. \A w : SessionsOf(w)' = {i \in 1..Len(sessions') : sessions'[i].tenant = w}
  BY DEF SessionsOf
<1>5. SessionsOf(t)' = SessionsOf(t) \cup {Len(sessions) + 1}
  BY <1>1, <1>2, <1>3, <1>4 DEF SessionsOf
<1>6. ASSUME NEW w \in Workspaces \ {t}
      PROVE  /\ SessionsOf(w)' = SessionsOf(w)
             /\ \A i \in SessionsOf(w) : sessions'[i].holds = sessions[i].holds
  BY <1>1, <1>2, <1>3, <1>4 DEF SessionsOf
<1>7. QED
  BY <1>1, <1>5, <1>6

LEMMA PatchedForOne ==
  ASSUME OnboardTyped, NEW k \in 1..Len(sessions), NEW update \in Sayings,
         sessions' = [sessions EXCEPT ![k].holds = Changed(@, update)]
  PROVE  /\ \A w : SessionsOf(w)' = SessionsOf(w)
         /\ \A w : sessions[k].tenant # w =>
              \A i \in SessionsOf(w) : sessions'[i].holds = sessions[i].holds
         /\ sessions'[k].holds = Changed(sessions[k].holds, update)
<1>1. /\ Len(sessions') = Len(sessions)
      /\ \A j \in 1..Len(sessions) : sessions'[j].tenant = sessions[j].tenant
      /\ \A j \in 1..Len(sessions) \ {k} : sessions'[j] = sessions[j]
      /\ sessions'[k].holds = Changed(sessions[k].holds, update)
  BY PatchedSession
<1>2. \A w : SessionsOf(w)' = {i \in 1..Len(sessions') : sessions'[i].tenant = w}
  BY DEF SessionsOf
<1>3. QED
  BY <1>1, <1>2 DEF SessionsOf

LEMMA SessionsStay ==
  ASSUME sessions' = sessions, NEW w
  PROVE  /\ SessionsOf(w)' = SessionsOf(w)
         /\ \A i \in SessionsOf(w) : sessions'[i].holds = sessions[i].holds
  BY DEF SessionsOf

LEMMA ModulesStay ==
  ASSUME enabled' = enabled, NEW w
  PROVE  ModulesOf(w)' = ModulesOf(w)
  BY DEF ModulesOf

\* What a handler does is to the rows of the tenant it is at work on.
LEMMA RowsOfOthersStay ==
  ASSUME TenantsAreSetUp, NEW h \in Hosts, StepOf(h), NEW w \in Workspaces,
         w # serving[h].tenant \/ serving[h].step = "tenant",
         w # serving'[h].tenant \/ serving'[h].step \notin {"create", "patch"}
  PROVE  RowsStay(w)
<1>0. OnboardTyped /\ TasksKnown
  BY DEF TenantsAreSetUp
<1>a. ASSUME serving[h].step # "tenant" PROVE w # serving[h].tenant
  BY <1>a
<1>1. ASSUME NEW u \in Newcomers, SignIn(h, u) PROVE RowsStay(w)
  BY <1>1, SessionsStay, ModulesStay DEF SignIn, histories, RowsStay
<1>2. ASSUME NEW t \in Workspaces, NEW update \in Sayings,
             NEW activates \in BOOLEAN, activates => update.modules \in ModuleLists,
             BeginSession(h, t, update, activates)
      PROVE  RowsStay(w)
  <2>1. serving'[h].tenant = t /\ serving'[h].step \in {"create", "patch"}
    BY <1>2, UpdatesBegin
  <2>2. w # t
    BY <2>1
  <2>3. said'[w] = said[w] /\ activated'[w] = activated[w]
    BY <1>0, <1>2, <2>2 DEF BeginSession, histories, OnboardTyped
  <2>4. QED
    BY <1>2, <2>3, SessionsStay, ModulesStay DEF BeginSession, RowsStay
<1>3. CASE InsertTenant(h)
  BY <1>3, SessionsStay, ModulesStay DEF InsertTenant, histories, RowsStay
<1>4. CASE InsertProfile(h)
  <2>1. \A u \in Newcomers : homeOf'[u] = w <=> homeOf[u] = w
    <3>1. 0 \notin Workspaces
      BY WorkspacesAreNumbers
    <3>2. QED
      BY <1>0, <1>4, <1>a, <3>1 DEF InsertProfile, OnboardTyped
  <2>2. QED
    BY <1>4, <2>1, SessionsStay, ModulesStay DEF InsertProfile, histories, RowsStay
<1>5. CASE InsertSession(h) \/ CreateSession(h)
  <2>1. serving[h].tenant \in Workspaces /\ Opened(serving[h].tenant)
    BY <1>0, <1>5 DEF InsertSession, CreateSession, TasksKnown
  <2>2. /\ SessionsOf(w)' = SessionsOf(w)
        /\ \A i \in SessionsOf(w) : sessions'[i].holds = sessions[i].holds
    <3>1. w # serving[h].tenant
      BY <1>5, <1>a DEF InsertSession, CreateSession
    <3>2. QED
      BY <1>0, <2>1, <3>1, OpenedForOne
  <2>3. QED
    BY <1>5, <2>2, ModulesStay DEF InsertSession, CreateSession, histories, RowsStay
<1>6. CASE PatchSession(h)
  <2>1. /\ serving[h].row \in 1..Len(sessions)
        /\ sessions[serving[h].row].tenant = serving[h].tenant
        /\ serving[h].tenant \in Workspaces
    BY <1>0, <1>6 DEF PatchSession, TasksKnown
  <2>2. serving[h].update \in Sayings
    BY <1>0 DEF OnboardTyped, Tasks
  <2>3. sessions' = [sessions EXCEPT ![serving[h].row].holds = Changed(@, serving[h].update)]
    BY <1>6 DEF PatchSession
  <2>4. /\ SessionsOf(w)' = SessionsOf(w)
        /\ \A i \in SessionsOf(w) : sessions'[i].holds = sessions[i].holds
    <3>1. w # serving[h].tenant
      BY <1>6, <1>a DEF PatchSession
    <3>2. QED
      BY <1>0, <2>1, <2>2, <2>3, <3>1, PatchedForOne
  <2>5. said'[w] = said[w]
    BY <1>0, <1>6, <1>a, <2>1 DEF PatchSession, OnboardTyped
  <2>6. QED
    BY <1>6, <2>4, <2>5, ModulesStay DEF PatchSession, RowsStay
<1>7. CASE ReadModules(h)
  BY <1>7, SessionsStay, ModulesStay DEF ReadModules, histories, RowsStay
<1>8. CASE DeleteModules(h)
  <2>1. ModulesOf(w)' = ModulesOf(w)
    BY <1>8, <1>a DEF DeleteModules, ModulesOf
  <2>2. QED
    BY <1>8, <2>1, SessionsStay DEF DeleteModules, histories, RowsStay
<1>9. CASE InsertModules(h)
  <2>1. ModulesOf(w)' = ModulesOf(w)
    <3>1. enabled' = enabled \/
          enabled' = enabled \cup ({serving[h].tenant} \X ToSet(serving[h].update.modules))
      BY <1>9 DEF InsertModules
    <3>2. w # serving[h].tenant
      BY <1>9, <1>a DEF InsertModules
    <3>3. QED
      BY <3>1, <3>2 DEF ModulesOf
  <2>2. activated'[w] = activated[w]
    BY <1>0, <1>9, <1>a DEF InsertModules, OnboardTyped
  <2>3. QED
    BY <1>9, <2>1, <2>2, SessionsStay DEF InsertModules, RowsStay
<1>10. CASE BreakOff(h)
  <2>1. activated'[w] = activated[w]
    BY <1>0, <1>10, <1>a DEF BreakOff, OnboardTyped
  <2>2. QED
    BY <1>10, <2>1, SessionsStay, ModulesStay DEF BreakOff, RowsStay
<1>11. QED
  BY <1>1, <1>2, <1>3, <1>4, <1>5, <1>6, <1>7, <1>8, <1>9, <1>10 DEF StepOf

SignsIn(h) ==
  /\ serving[h].step = "idle" /\ serving'[h].step = "tenant"
  /\ serving'[h].tenant \in Workspaces /\ workspaces' = workspaces /\ contested' = contested
Begins(h) ==
  LET t == serving'[h].tenant IN
  /\ serving[h].step = "idle" /\ serving'[h].step \in {"create", "patch"}
  /\ t \in workspaces /\ t \in Workspaces /\ t \notin contested
  /\ \E u \in Newcomers : homeOf[u] = t
  /\ contested' = IF \E g \in Hosts : serving[g].tenant = t THEN contested \cup {t} ELSE contested
  /\ workspaces' = workspaces
Wins(h) ==
  /\ serving[h].step = "tenant" /\ serving'[h].step = "profile"
  /\ serving'[h].tenant = serving[h].tenant /\ serving[h].tenant \in Workspaces \ workspaces
  /\ workspaces' = workspaces \cup {serving[h].tenant} /\ contested' = contested
GoesOn(h) ==
  /\ serving[h].step \notin {"idle", "tenant"}
  /\ serving'[h].step \notin {"idle", "tenant", "profile"}
  /\ serving'[h].tenant = serving[h].tenant /\ serving[h].tenant \in workspaces
  /\ workspaces' = workspaces /\ contested' = contested
Stops(h) ==
  /\ serving[h].step # "idle" /\ serving'[h].step = "idle" /\ serving'[h].tenant = 0
  /\ workspaces' = workspaces /\ contested' = contested

LEMMA TaskMoves ==
  ASSUME TenantsAreSetUp, NEW h \in Hosts, StepOf(h)
  PROVE  /\ \A g \in Hosts \ {h} : serving'[g] = serving[g]
         /\ SignsIn(h) \/ Begins(h) \/ Wins(h) \/ GoesOn(h) \/ Stops(h)
<1> DEFINE Goal == /\ \A g \in Hosts \ {h} : serving'[g] = serving[g]
                   /\ SignsIn(h) \/ Begins(h) \/ Wins(h) \/ GoesOn(h) \/ Stops(h)
<1>0. OnboardTyped /\ TasksKnown
  BY DEF TenantsAreSetUp
<1>a. ASSUME serving[h].step # "idle", Answered(h), workspaces' = workspaces,
             contested' = contested
      PROVE  Goal
  BY <1>0, <1>a, AnsweredCall DEF Stops
<1>b. ASSUME serving[h].step \notin {"idle", "tenant"}, NEW step,
             step \in {"session", "modules", "delete", "insert"},
             Then(h, step), workspaces' = workspaces, contested' = contested
      PROVE  Goal
  <2>1. serving[h].tenant \in workspaces
    BY <1>0, <1>b DEF TasksKnown
  <2>2. /\ serving'[h].step = step /\ serving'[h].tenant = serving[h].tenant
        /\ \A g \in Hosts \ {h} : serving'[g] = serving[g]
    BY <1>0, <1>b, NextStep
  <2>3. QED
    BY <1>b, <2>1, <2>2 DEF GoesOn
<1>1. ASSUME NEW u \in Newcomers, SignIn(h, u) PROVE Goal
  <2>1. PICK n \in FreeSlugs :
          Serve(h, [NoCall EXCEPT !.step = "tenant", !.tenant = n, !.user = u])
    BY <1>1 DEF SignIn
  <2>2. n \in Workspaces
    BY DEF FreeSlugs
  <2>3. /\ serving[h].step = "idle" /\ sessions' = sessions
        /\ workspaces' = workspaces /\ contested' = contested
    BY <1>1 DEF SignIn, histories
  <2>4. QED
    BY <1>0, <2>1, <2>2, <2>3, StartedSignIn DEF SignsIn
<1>2. ASSUME NEW t \in Workspaces, NEW update \in Sayings,
             NEW activates \in BOOLEAN, activates => update.modules \in ModuleLists,
             BeginSession(h, t, update, activates)
      PROVE  Goal
  <2>1. /\ t \in workspaces /\ t \notin contested /\ serving[h].step = "idle"
        /\ serving'[h].step \in {"create", "patch"} /\ serving'[h].tenant = t
        /\ \A g \in Hosts \ {h} : serving'[g] = serving[g]
    BY <1>2, UpdatesBegin
  <2>2. /\ \E u \in Newcomers : homeOf[u] = t
        /\ workspaces' = workspaces
        /\ contested' = IF \E g \in Hosts : serving[g].tenant = t THEN contested \cup {t}
                        ELSE contested
    BY <1>2 DEF BeginSession, histories
  <2>3. Begins(h)
    BY <2>1, <2>2 DEF Begins
  <2>4. QED
    BY <2>1, <2>3
<1>3. CASE InsertTenant(h)
  <2>1. /\ serving[h].step = "tenant" /\ contested' = contested
        /\ workspaces' = workspaces \cup {serving[h].tenant}
        /\ serving[h].tenant \in Workspaces
    BY <1>0, <1>3 DEF InsertTenant, histories, TasksKnown
  <2>2. CASE serving[h].tenant \in workspaces
    BY <1>3, <1>a, <2>1, <2>2 DEF InsertTenant
  <2>3. CASE serving[h].tenant \notin workspaces
    BY <1>0, <1>3, <2>1, <2>3, NextStep DEF InsertTenant, Wins
  <2>4. QED
    BY <2>2, <2>3
<1>4. CASE InsertProfile(h)
  BY <1>4, <1>a, <1>b DEF InsertProfile, histories
<1>5. CASE InsertSession(h)
  BY <1>5, <1>a DEF InsertSession, histories
<1>6. CASE CreateSession(h)
  <2>1. /\ serving[h].step = "create" /\ workspaces' = workspaces /\ contested' = contested
        /\ serving' = [serving EXCEPT ![h] =
                         [serving[h] EXCEPT !.step = "patch", !.row = Len(sessions) + 1]]
    BY <1>6 DEF CreateSession, histories, Serve
  <2>2. serving[h].tenant \in workspaces
    BY <1>0, <2>1 DEF TasksKnown
  <2>3. serving[h] \in Tasks
    BY <1>0 DEF OnboardTyped
  <2> DEFINE task == [serving[h] EXCEPT !.step = "patch", !.row = Len(sessions) + 1]
  <2>4. task.step = "patch" /\ task.tenant = serving[h].tenant
    BY <2>3 DEF Tasks
  <2> HIDE DEF task
  <2>5. serving'[h] = task /\ \A g \in Hosts \ {h} : serving'[g] = serving[g]
    BY <1>0, <2>1 DEF OnboardTyped, task
  <2>6. GoesOn(h)
    BY <2>1, <2>2, <2>4, <2>5 DEF GoesOn
  <2>7. QED
    BY <2>5, <2>6
<1>7. CASE PatchSession(h)
  BY <1>7, <1>a, <1>b DEF PatchSession
<1>8. CASE ReadModules(h)
  BY <1>8, <1>b DEF ReadModules, AfterReading, histories
<1>9. CASE DeleteModules(h)
  BY <1>9, <1>b DEF DeleteModules, histories
<1>10. CASE InsertModules(h)
  BY <1>10, <1>a DEF InsertModules
<1>11. CASE BreakOff(h)
  BY <1>11, <1>a DEF BreakOff
<1>12. QED
  BY <1>1, <1>2, <1>3, <1>4, <1>5, <1>6, <1>7, <1>8, <1>9, <1>10, <1>11 DEF StepOf

LEMMA StaysAlone ==
  ASSUME TenantsAreSetUp, NEW h \in Hosts, StepOf(h)
  PROVE  Alone'
<1>0. TasksKnown /\ NewAreFresh /\ Alone
  BY DEF TenantsAreSetUp
<1>1. \A g \in Hosts \ {h} : serving'[g] = serving[g]
  BY TaskMoves
<1>2. CASE SignsIn(h) \/ Stops(h) \/ GoesOn(h)
  BY <1>0, <1>1, <1>2 DEF SignsIn, Stops, GoesOn, Alone, BusyWith
<1>3. CASE Wins(h)
  <2>1. \A g \in Hosts \ {h} : ~BusyWith(g, serving[h].tenant)
    BY <1>0, <1>3 DEF Wins, BusyWith, TasksKnown
  <2>2. QED
    BY <1>0, <1>1, <1>3, <2>1 DEF Wins, Alone, BusyWith
<1>4. CASE Begins(h)
  <2> DEFINE t == serving'[h].tenant
  <2>1. contested \subseteq contested'
        /\ ((\E g \in Hosts : serving[g].tenant = t) => t \in contested')
    BY <1>4 DEF Begins
  <2>2. \A g \in Hosts : serving[g].step = "profile" => serving[g].tenant # t
    BY <1>0, <1>4 DEF Begins, NewAreFresh, Fresh
  <2>3. serving'[h].step # "profile"
    BY <1>4 DEF Begins
  <2> HIDE DEF t
  <2>4. QED
    BY <1>0, <1>1, <2>1, <2>2, <2>3 DEF Alone, BusyWith, t
<1>5. QED
  BY <1>2, <1>3, <1>4, TaskMoves

LEMMA NewStayFresh ==
  ASSUME TenantsAreSetUp, NEW h \in Hosts, StepOf(h)
  PROVE  NewAreFresh'
<1>0. OnboardTyped /\ TasksKnown /\ NewAreFresh /\ Alone
  BY DEF TenantsAreSetUp
<1>1. \A g \in Hosts \ {h} : serving'[g] = serving[g]
  BY TaskMoves
<1>2. ASSUME NEW w \in Workspaces, Fresh(w),
             w # serving[h].tenant \/ serving[h].step = "tenant",
             w # serving'[h].tenant \/ serving'[h].step \notin {"create", "patch"}
      PROVE  Fresh(w)'
  BY <1>2, RowsOfOthersStay DEF RowsStay, Fresh
<1>3. ASSUME NEW w \in Workspaces, Fresh(w),
             serving[h].step \notin {"idle", "tenant"} => w # serving[h].tenant
      PROVE  Fresh(w)'
  <2>1. w # serving[h].tenant \/ serving[h].step = "tenant"
    <3>1. w # 0
      BY WorkspacesAreNumbers
    <3>2. QED
      BY <1>0, <1>3, <3>1 DEF TasksKnown
  <2>2. CASE Begins(h)
    <3>1. w # serving'[h].tenant
      BY <1>3, <2>2 DEF Begins, Fresh
    <3>2. QED
      BY <1>2, <1>3, <2>1, <3>1
  <2>3. CASE ~Begins(h)
    <3>1. w # serving'[h].tenant \/ serving'[h].step \notin {"create", "patch"}
      BY <1>3, <2>3, TaskMoves DEF SignsIn, Wins, GoesOn, Stops
    <3>2. QED
      BY <1>2, <1>3, <2>1, <3>1
  <2>4. QED
    BY <2>2, <2>3
<1>4. ASSUME NEW w \in Workspaces \ workspaces PROVE Fresh(w)'
  BY <1>0, <1>3, <1>4 DEF NewAreFresh, TasksKnown
<1>5. ASSUME NEW g \in Hosts, g # h, serving'[g].step = "profile"
      PROVE  Fresh(serving[g].tenant)'
  <2> DEFINE w == serving[g].tenant
  <2>1. serving'[g] = serving[g]
    BY <1>1, <1>5
  <2>2. w \in Workspaces /\ Fresh(w) /\ BusyWith(g, w)
    BY <1>0, <1>5, <2>1 DEF TasksKnown, NewAreFresh, BusyWith
  <2>3. serving[h].step \notin {"idle", "tenant"} => w # serving[h].tenant
    BY <1>0, <1>5, <2>1, <2>2 DEF Alone, BusyWith
  <2>4. \A x \in Workspaces :
          /\ Fresh(x) /\ (serving[h].step \notin {"idle", "tenant"} => x # serving[h].tenant)
          => Fresh(x)'
    BY <1>3
  <2>5. QED
    BY <2>1, <2>2, <2>3, <2>4 DEF Fresh, SessionsOf, ModulesOf
<1>6. ASSUME serving'[h].step = "profile" PROVE Fresh(serving[h].tenant)'
  <2>1. Wins(h)
    BY <1>6, TaskMoves DEF SignsIn, Begins, GoesOn, Stops
  <2>2. serving[h].tenant \in Workspaces \ workspaces
        /\ serving'[h].tenant = serving[h].tenant
    BY <2>1 DEF Wins
  <2>3. \A w \in Workspaces \ workspaces : Fresh(w)'
    BY <1>4
  <2>4. QED
    BY <2>2, <2>3 DEF Fresh, SessionsOf, ModulesOf
<1>7. workspaces \subseteq workspaces'
  BY TaskMoves DEF SignsIn, Begins, Wins, GoesOn, Stops
<1>8. \A t \in Workspaces \ workspaces' : Fresh(t)'
  BY <1>4, <1>7
<1>9. \A g \in Hosts : serving'[g].step = "profile" => Fresh(serving[g].tenant)'
  BY <1>5, <1>6
<1>10. QED
  BY <1>8, <1>9 DEF NewAreFresh

-----------------------------------------------------------------------------
(* The rows of a tenant agree with what was said of it *)

LEMMA SessionStaysOne ==
  ASSUME NEW w, OneSession(w), SessionsOf(w)' = SessionsOf(w), said'[w] = said[w],
         \A i \in SessionsOf(w) : sessions'[i].holds = sessions[i].holds,
         \A g \in Hosts : serving'[g].step \in {"session", "create"} /\ serving'[g].tenant = w
                          => SessionsOf(w) = {}
  PROVE  OneSession(w)'
  BY DEF OneSession

LEMMA ModulesStayAgreed ==
  ASSUME NEW w, ModulesAgree(w), ModulesOf(w)' = ModulesOf(w), activated'[w] = activated[w],
         Replacing(w)' <=> Replacing(w)
  PROVE  ModulesAgree(w)'
  BY DEF ModulesAgree

LEMMA OthersStaySetUp ==
  ASSUME TenantsAreSetUp, NEW h \in Hosts, StepOf(h), NEW w \in Workspaces,
         OneSession(w), ModulesAgree(w),
         w # serving[h].tenant \/ serving[h].step = "tenant",
         w # serving'[h].tenant \/ serving'[h].step \notin {"create", "patch"}
  PROVE  OneSession(w)' /\ ModulesAgree(w)'
<1>1. RowsStay(w)
  BY RowsOfOthersStay
<1>2. /\ \A g \in Hosts \ {h} : serving'[g] = serving[g]
      /\ serving'[h].step \in {"session", "create", "insert"} => serving'[h].tenant # w
      /\ serving[h].step = "insert" => serving[h].tenant # w
  BY TaskMoves DEF SignsIn, Begins, Wins, GoesOn, Stops
<1>3. \A g \in Hosts : serving'[g].step \in {"session", "create"} /\ serving'[g].tenant = w
                       => SessionsOf(w) = {}
  BY <1>2 DEF OneSession
<1>4. Replacing(w)' <=> Replacing(w)
  BY <1>2 DEF Replacing
<1>5. QED
  BY <1>1, <1>3, <1>4, SessionStaysOne, ModulesStayAgreed DEF RowsStay

\* An update begins with what its tenant holds, and is alone with it.
LEMMA BegunIsSetUp ==
  ASSUME TenantsAreSetUp, NEW h \in Hosts, NEW w \in Workspaces, NEW update \in Sayings,
         NEW activates \in BOOLEAN, activates => update.modules \in ModuleLists,
         BeginSession(h, w, update, activates), w \notin contested'
  PROVE  OneSession(w)' /\ ModulesAgree(w)'
<1>1. /\ w \in workspaces /\ w \notin contested
      /\ serving[h].step = "idle"
      /\ serving'[h].step = IF Newest(w) = 0 THEN "create" ELSE "patch"
      /\ serving'[h].tenant = w
      /\ \A g \in Hosts \ {h} : serving'[g] = serving[g]
  BY UpdatesBegin
<1>2. /\ \A g \in Hosts : serving[g].tenant # w
      /\ sessions' = sessions /\ enabled' = enabled /\ said' = said /\ activated' = activated
  BY DEF BeginSession, histories
<1>3. OneSession(w) /\ ModulesAgree(w)
  BY <1>1 DEF TenantsAreSetUp
<1>4. Newest(w) = 0 => SessionsOf(w) = {}
  <2>1. ASSUME NEW i, SessionsOf(w) = {i} PROVE Newest(w) # 0
    <3>1. Newest(w) = i
      BY <2>1, NewestSession DEF TenantsAreSetUp
    <3>2. i \in 1..Len(sessions) /\ Len(sessions) \in Nat
      BY <2>1, SessionsAreCounted DEF SessionsOf, TenantsAreSetUp
    <3>3. QED
      BY <3>1, <3>2
  <2>2. QED
    BY <1>3, <2>1 DEF OneSession
<1>5. \A g \in Hosts : serving'[g].step \in {"session", "create"} /\ serving'[g].tenant = w
                       => SessionsOf(w) = {}
  BY <1>1, <1>2, <1>4
<1>6. Replacing(w)' <=> Replacing(w)
  BY <1>1, <1>2 DEF Replacing
<1>7. QED
  BY <1>2, <1>3, <1>5, <1>6, SessionStaysOne, ModulesStayAgreed, SessionsStay, ModulesStay

\* So does a handler that goes on with its tenant, alone.
LEMMA OwnStaysSetUp ==
  ASSUME TenantsAreSetUp, NEW h \in Hosts, StepOf(h), NEW w \in Workspaces,
         w \notin contested, BusyWith(h, w)
  PROVE  OneSession(w)' /\ ModulesAgree(w)'
<1> DEFINE Goal == OneSession(w)' /\ ModulesAgree(w)'
<1>0. /\ OnboardTyped /\ TasksKnown /\ OneSession(w) /\ ModulesAgree(w)
      /\ serving[h].tenant = w /\ serving[h].step \notin {"idle", "tenant"}
  BY DEF TenantsAreSetUp, BusyWith
<1>1. /\ \A g \in Hosts \ {h} : serving'[g] = serving[g]
      /\ \A g \in Hosts \ {h} : ~BusyWith(g, w)
  BY TaskMoves DEF TenantsAreSetUp, Alone
<1>2. \A g \in Hosts \ {h} :
        serving'[g].step \in {"session", "create", "insert"} => serving'[g].tenant # w
  BY <1>1 DEF BusyWith
<1>3. /\ Replacing(w) <=> serving[h].step = "insert"
      /\ Replacing(w)' <=> serving'[h].step = "insert" /\ serving'[h].tenant = w
  BY <1>0, <1>1, <1>2 DEF Replacing, BusyWith
<1>a. ASSUME sessions' = sessions, said' = said,
             serving'[h].step \in {"session", "create"} => SessionsOf(w) = {}
      PROVE  OneSession(w)'
  BY <1>0, <1>2, <1>a, SessionStaysOne, SessionsStay
<1>b. ASSUME enabled' = enabled, activated' = activated,
             serving[h].step # "insert", serving'[h].step # "insert"
      PROVE  ModulesAgree(w)'
  BY <1>0, <1>3, <1>b, ModulesStayAgreed, ModulesStay
<1>1a. ASSUME NEW u \in Newcomers, SignIn(h, u) PROVE Goal
  BY <1>0, <1>1a DEF SignIn
<1>1b. ASSUME NEW t \in Workspaces, NEW update \in Sayings, NEW activates \in BOOLEAN,
              BeginSession(h, t, update, activates)
       PROVE  Goal
  BY <1>0, <1>1b DEF BeginSession
<1>4. CASE InsertTenant(h)
  BY <1>0, <1>4 DEF InsertTenant
<1>5. CASE InsertProfile(h)
  <2>1. SessionsOf(w) = {}
    BY <1>0, <1>5 DEF InsertProfile, TenantsAreSetUp, NewAreFresh, Fresh
  <2>2. serving[h].step = "profile" /\ serving'[h].step # "insert"
    <3>1. CASE Answered(h)
      BY <1>0, <1>5, <3>1, AnsweredCall DEF InsertProfile
    <3>2. CASE Then(h, "session")
      BY <1>0, <1>5, <3>2, NextStep DEF InsertProfile
    <3>3. QED
      BY <1>5, <3>1, <3>2 DEF InsertProfile
  <2>3. QED
    BY <1>5, <1>a, <1>b, <2>1, <2>2 DEF InsertProfile, histories
<1>6. CASE InsertSession(h) \/ CreateSession(h)
  <2>1. /\ SessionsOf(w) = {} /\ Opened(w) /\ said' = said
        /\ enabled' = enabled /\ activated' = activated
    BY <1>0, <1>6 DEF InsertSession, CreateSession, OneSession, histories
  <2>2. said[w] = Unsaid
    BY <1>0, <2>1 DEF OneSession
  <2>3. /\ SessionsOf(w)' = {Len(sessions) + 1}
        /\ sessions'[Len(sessions) + 1].holds = Unsaid
    BY <1>0, <2>1, OpenedForOne
  <2>4. /\ serving[h].step \in {"session", "create"}
        /\ serving'[h].step \in {"idle", "patch"}
    <3>1. CASE InsertSession(h)
      BY <1>0, <3>1, AnsweredCall DEF InsertSession
    <3>2. CASE CreateSession(h)
      BY <1>0, <3>2 DEF CreateSession, Serve, OnboardTyped, Tasks
    <3>3. QED
      BY <1>6, <3>1, <3>2
  <2>5. OneSession(w)'
    BY <1>2, <2>1, <2>2, <2>3, <2>4 DEF OneSession
  <2>6. QED
    BY <1>b, <2>1, <2>4, <2>5
<1>7. CASE PatchSession(h)
  <2> DEFINE k == serving[h].row
             update == serving[h].update
  <2>1. /\ serving[h].step = "patch" /\ enabled' = enabled /\ activated' = activated
        /\ sessions' = [sessions EXCEPT ![k].holds = Changed(@, update)]
        /\ said' = [said EXCEPT ![w] = Changed(@, update)]
    BY <1>0, <1>7 DEF PatchSession
  <2>2. k \in 1..Len(sessions) /\ sessions[k].tenant = w /\ update \in Sayings
    BY <1>0, <2>1 DEF TasksKnown, OnboardTyped, Tasks
  <2>3. serving'[h].step \in {"idle", "modules"}
    <3>1. CASE Answered(h)
      BY <1>0, <3>1, AnsweredCall
    <3>2. CASE Then(h, "modules")
      BY <1>0, <3>2, NextStep
    <3>3. QED
      BY <1>7, <3>1, <3>2 DEF PatchSession
  <2> HIDE DEF k, update
  <2>4. SessionsOf(w)' = SessionsOf(w) /\ sessions'[k].holds = Changed(sessions[k].holds, update)
    BY <1>0, <2>1, <2>2, PatchedForOne
  <2>5. SessionsOf(w) = {k} /\ sessions[k].holds = said[w]
    <3>1. k \in SessionsOf(w)
      BY <2>2 DEF SessionsOf
    <3>2. QED
      BY <1>0, <3>1 DEF OneSession
  <2>6. said'[w] = Changed(said[w], update)
    BY <1>0, <2>1 DEF OnboardTyped
  <2>7. OneSession(w)'
    BY <1>2, <2>3, <2>4, <2>5, <2>6 DEF OneSession
  <2>8. QED
    BY <1>b, <2>1, <2>3, <2>7
<1>8. CASE ReadModules(h)
  <2>1. /\ serving[h].step = "modules" /\ sessions' = sessions /\ said' = said
        /\ enabled' = enabled /\ activated' = activated
        /\ Then(h, AfterReading(w))
    BY <1>0, <1>8 DEF ReadModules, histories
  <2>2. /\ serving'[h].step = AfterReading(w) /\ serving'[h].tenant = w
        /\ AfterReading(w) \in {"insert", "delete"}
    BY <1>0, <2>1, NextStep DEF AfterReading
  <2>3. OneSession(w)'
    BY <1>a, <2>1, <2>2
  <2>4. ModulesOf(w)' = ModulesOf(w) /\ activated'[w] = activated[w]
    BY <2>1, ModulesStay
  <2>5. CASE ModulesOf(w) = {}
    <3>1. Replacing(w)'
      BY <1>3, <2>2, <2>5 DEF AfterReading
    <3>2. QED
      BY <2>3, <2>4, <2>5, <3>1 DEF ModulesAgree
  <2>6. CASE ModulesOf(w) # {}
    <3>1. ~Replacing(w)' /\ ~Replacing(w)
      BY <1>3, <2>1, <2>2, <2>6 DEF AfterReading
    <3>2. QED
      BY <1>0, <2>3, <2>4, <3>1, ModulesStayAgreed
  <2>7. QED
    BY <2>5, <2>6
<1>9. CASE DeleteModules(h)
  <2>1. /\ sessions' = sessions /\ said' = said /\ activated' = activated
        /\ enabled' = enabled \ ModulesOf(w) /\ Then(h, "insert")
    BY <1>0, <1>9 DEF DeleteModules, histories
  <2>2. serving'[h].step = "insert" /\ serving'[h].tenant = w
    BY <1>0, <2>1, NextStep
  <2>3. ModulesOf(w)' = {}
    BY <2>1 DEF ModulesOf
  <2>4. Replacing(w)'
    BY <1>3, <2>2
  <2>5. QED
    BY <1>a, <2>1, <2>2, <2>3, <2>4 DEF ModulesAgree
<1>10. CASE InsertModules(h)
  <2> DEFINE list == serving[h].update.modules
             rows == {w} \X ToSet(list)
             inserts == IsInjective(list) /\ rows \cap enabled = {}
  <2>1. /\ serving[h].step = "insert" /\ sessions' = sessions /\ said' = said /\ Answered(h)
        /\ enabled' = IF inserts THEN enabled \cup rows ELSE enabled
        /\ activated' = [activated EXCEPT ![w] =
                           [modules |-> IF inserts THEN ToSet(list) ELSE @.modules,
                            broken |-> ~inserts]]
    BY <1>0, <1>10 DEF InsertModules
  <2>2. serving'[h].step = "idle" /\ ~Replacing(w)' /\ ModulesOf(w) = {}
    BY <1>0, <1>3, <2>1, AnsweredCall DEF ModulesAgree
  <2>3. OneSession(w)'
    BY <1>a, <2>1, <2>2
  <2> HIDE DEF inserts, list
  <2>4. CASE inserts
    <3>1. ModulesOf(w)' = rows
      BY <2>1, <2>2, <2>4 DEF ModulesOf
    <3>2. {row[2] : row \in rows} = ToSet(list)
      <4>1. \A m \in ToSet(list) : <<w, m>> \in rows /\ <<w, m>>[2] = m
        OBVIOUS
      <4>2. \A row \in rows : row[2] \in ToSet(list)
        OBVIOUS
      <4>3. \A m \in ToSet(list) : m \in {row[2] : row \in rows}
        BY <4>1
      <4>4. QED
        BY <4>2, <4>3
    <3>3. activated'[w] = [modules |-> ToSet(list), broken |-> FALSE]
      BY <1>0, <2>1, <2>4 DEF OnboardTyped
    <3> HIDE DEF rows
    <3>4. QED
      BY <2>2, <2>3, <3>1, <3>2, <3>3 DEF ModulesAgree
  <2>5. CASE ~inserts
    <3>1. ModulesOf(w)' = {}
      BY <2>1, <2>2, <2>5, ModulesStay
    <3>2. activated'[w].broken
      BY <1>0, <2>1, <2>5 DEF OnboardTyped
    <3>3. QED
      BY <2>2, <2>3, <3>1, <3>2 DEF ModulesAgree
  <2>6. QED
    BY <2>4, <2>5
<1>11. CASE BreakOff(h)
  <2>1. /\ sessions' = sessions /\ said' = said /\ enabled' = enabled /\ Answered(h)
        /\ activated' = IF serving[h].step # "insert" THEN activated
                        ELSE [activated EXCEPT ![w].broken = TRUE]
    BY <1>0, <1>11 DEF BreakOff
  <2>2. serving'[h].step = "idle" /\ ~Replacing(w)'
    BY <1>0, <1>3, <2>1, AnsweredCall
  <2>3. OneSession(w)'
    BY <1>a, <2>1, <2>2
  <2>4. CASE serving[h].step # "insert"
    BY <1>b, <2>1, <2>2, <2>3, <2>4
  <2>5. CASE serving[h].step = "insert"
    <3>1. ModulesOf(w)' = {}
      BY <1>0, <1>3, <2>1, <2>5, ModulesStay DEF ModulesAgree
    <3>2. activated'[w].broken
      BY <1>0, <2>1, <2>5 DEF OnboardTyped, Activations
    <3>3. QED
      BY <2>2, <2>3, <3>1, <3>2 DEF ModulesAgree
  <2>6. QED
    BY <2>4, <2>5
<1>12. QED
  BY <1>1a, <1>1b, <1>4, <1>5, <1>6, <1>7, <1>8, <1>9, <1>10, <1>11 DEF StepOf

LEMMA StaySetUp ==
  ASSUME TenantsAreSetUp, [OnboardNext]_onboardVars
  PROVE  TenantsAreSetUp'
<1>1. OnboardTyped' /\ TasksKnown'
  BY StaysTyped
<1>2. CASE UNCHANGED onboardVars
  <2>1. NewAreFresh' /\ Alone'
    BY <1>2 DEF TenantsAreSetUp, NewAreFresh, Fresh, Alone, BusyWith, SessionsOf, ModulesOf,
                onboardVars
  <2>2. (\A t \in Workspaces \ contested : OneSession(t) /\ ModulesAgree(t))'
    BY <1>2 DEF TenantsAreSetUp, OneSession, ModulesAgree, Replacing, SessionsOf, ModulesOf,
                onboardVars
  <2>3. QED
    BY <1>1, <2>1, <2>2 DEF TenantsAreSetUp
<1>3. CASE OnboardNext
  <2>1. PICK h \in Hosts : StepOf(h)
    BY <1>3, HandlersSteps
  <2>2. NewAreFresh' /\ Alone'
    BY <2>1, StaysAlone, NewStayFresh
  <2>3. ASSUME NEW w \in Workspaces, w \notin contested'
        PROVE  OneSession(w)' /\ ModulesAgree(w)'
    <3>1. /\ w \notin contested
          /\ OneSession(w) /\ ModulesAgree(w) /\ TasksKnown
          /\ w # 0
      BY <2>1, <2>3, TaskMoves, WorkspacesAreNumbers
         DEF SignsIn, Begins, Wins, GoesOn, Stops, TenantsAreSetUp
    <3>2. CASE BusyWith(h, w)
      BY <2>1, <3>1, <3>2, OwnStaysSetUp
    <3>3. CASE ~BusyWith(h, w)
      <4>1. w # serving[h].tenant \/ serving[h].step = "tenant"
        BY <3>1, <3>3 DEF BusyWith, TasksKnown
      <4>2. CASE w # serving'[h].tenant \/ serving'[h].step \notin {"create", "patch"}
        BY <2>1, <3>1, <4>1, <4>2, OthersStaySetUp
      <4>3. CASE w = serving'[h].tenant /\ serving'[h].step \in {"create", "patch"}
        <5>1. Begins(h)
          BY <2>1, <3>3, <4>3, TaskMoves DEF SignsIn, Wins, GoesOn, Stops, BusyWith
        <5>2. PICK t \in Workspaces, update \in Sayings, activates \in BOOLEAN :
                /\ activates => update.modules \in ModuleLists
                /\ BeginSession(h, t, update, activates)
          <6>1. ASSUME NEW u \in Newcomers, SignIn(h, u) PROVE FALSE
            <7>1. PICK n \in FreeSlugs :
                    Serve(h, [NoCall EXCEPT !.step = "tenant", !.tenant = n, !.user = u])
              BY <6>1 DEF SignIn
            <7>2. n \in Workspaces /\ sessions' = sessions /\ workspaces' = workspaces
              BY <6>1 DEF FreeSlugs, SignIn
            <7>3. serving'[h].step = "tenant"
              BY <7>1, <7>2, StartedSignIn DEF TenantsAreSetUp
            <7>4. QED
              BY <5>1, <7>3 DEF Begins
          <6>2. QED
            BY <2>1, <5>1, <6>1
                 DEF StepOf, Begins, InsertTenant, InsertProfile, InsertSession, CreateSession,
                   PatchSession, ReadModules, DeleteModules, InsertModules, BreakOff
        <5>3. t = w
          BY <4>3, <5>2, UpdatesBegin
        <5>4. QED
          BY <2>3, <5>2, <5>3, BegunIsSetUp
      <4>4. QED
        BY <4>2, <4>3
    <3>4. QED
      BY <3>2, <3>3
  <2>4. QED
    BY <1>1, <2>2, <2>3 DEF TenantsAreSetUp
<1>4. QED
  BY <1>2, <1>3

-----------------------------------------------------------------------------
(* Desertion is counted *)

LEMMA CountsAreNumbers ==
  ASSUME OnboardTyped
  PROVE  /\ IsFiniteSet(Deserted) /\ Cardinality(Deserted) \in Nat
         /\ IsFiniteSet(Pending) /\ Cardinality(Pending) \in Nat
         /\ IsFiniteSet(Homed) /\ Cardinality(Homed) \in Nat
         /\ Cardinality(Newcomers) \in Nat /\ Cardinality(Hosts) \in Nat
         /\ Cardinality(Newcomers) * Cardinality(Hosts) \in Nat
         /\ failures \in Nat
<1>1. IsFiniteSet(Newcomers) /\ IsFiniteSet(Hosts)
  BY OnboardingAssumption
<1>2. Deserted \subseteq Workspaces /\ Homed \subseteq Newcomers
      /\ Pending \subseteq Newcomers \X Hosts
  BY DEF OnboardTyped, Deserted, Homed, Pending
<1>3. IsFiniteSet(Newcomers \X Hosts)
  BY <1>1, FS_Product
<1>4. IsFiniteSet(Deserted) /\ IsFiniteSet(Homed) /\ IsFiniteSet(Pending)
  BY <1>1, <1>2, <1>3, WorkspacesAreNumbers, FS_Subset
<1>5. Cardinality(Newcomers) \in Nat /\ Cardinality(Hosts) \in Nat
  BY <1>1, FS_CardinalityType
<1>6. Cardinality(Newcomers) * Cardinality(Hosts) \in Nat
  BY <1>5
<1>7. QED
  BY <1>4, <1>5, <1>6, FS_CardinalityType DEF OnboardTyped

\* A set that has at most one more element.
LEMMA OneMore ==
  ASSUME NEW S, NEW T, NEW x, IsFiniteSet(S), T \subseteq S \cup {x}
  PROVE  IsFiniteSet(T) /\ Cardinality(T) \in Nat /\ Cardinality(T) <= Cardinality(S) + 1
<1>1. IsFiniteSet(S \cup {x}) /\ Cardinality(S) \in Nat
  BY FS_AddElement, FS_CardinalityType
<1>2. Cardinality(S \cup {x}) = Cardinality(S) \/ Cardinality(S \cup {x}) = Cardinality(S) + 1
  BY FS_AddElement
<1>3. IsFiniteSet(T) /\ Cardinality(T) \in Nat /\ Cardinality(T) <= Cardinality(S \cup {x})
  BY <1>1, FS_Subset, FS_CardinalityType
<1>4. QED
  BY <1>1, <1>2, <1>3

\* A set that has lost an element.
LEMMA OneLess ==
  ASSUME NEW S, NEW T, NEW x \in S, IsFiniteSet(S), T \subseteq S \ {x}
  PROVE  Cardinality(T) \in Nat /\ Cardinality(T) + 1 <= Cardinality(S)
<1>1. IsFiniteSet(S \ {x}) /\ Cardinality(S \ {x}) = Cardinality(S) - 1
      /\ Cardinality(S) \in Nat
  BY FS_RemoveElement, FS_CardinalityType
<1>2. Cardinality(T) \in Nat /\ Cardinality(T) <= Cardinality(S \ {x})
  BY <1>1, FS_Subset, FS_CardinalityType
<1>3. QED
  BY <1>1, <1>2

LEMMA QuietCount ==
  ASSUME OnboardTyped, DesertionIsCounted, Deserted' \subseteq Deserted,
         Pending' \subseteq Pending, Homed' = Homed, failures' = failures
  PROVE  DesertionIsCounted'
<1> DEFINE d == Cardinality(Deserted)
           p == Cardinality(Pending)
           m == Cardinality(Homed)
           all == Cardinality(Newcomers) * Cardinality(Hosts)
<1>1. d \in Nat /\ p \in Nat /\ m \in Nat /\ all \in Nat /\ failures \in Nat
  BY CountsAreNumbers
<1>2. Cardinality(Deserted') \in Nat /\ Cardinality(Deserted') <= d
  BY CountsAreNumbers, FS_Subset, FS_CardinalityType
<1>3. Cardinality(Pending') \in Nat /\ Cardinality(Pending') <= p
  BY CountsAreNumbers, FS_Subset, FS_CardinalityType
<1>4. d + p + m <= failures + all
  BY DEF DesertionIsCounted
<1> HIDE DEF d, p, m, all
<1>5. Cardinality(Deserted') + Cardinality(Pending') + m <= failures + all
  BY <1>1, <1>2, <1>3, <1>4
<1>6. QED
  BY <1>5 DEF DesertionIsCounted, m, all

\* Nobody signs in, or waits for a tenant, by what a handler does to its own.
LEMMA QuietTasks ==
  ASSUME OnboardTyped, DesertionIsCounted, NEW h \in Hosts,
         \A g \in Hosts \ {h} : serving'[g] = serving[g],
         serving[h].step # "profile", serving'[h].step \notin {"tenant", "profile"},
         homeOf' = homeOf, workspaces' = workspaces, failures' = failures
  PROVE  DesertionIsCounted'
<1>1. Deserted' \subseteq Deserted
  BY DEF Deserted
<1>2. Pending' \subseteq Pending
  BY DEF Pending
<1>3. Homed' = Homed
  BY DEF Homed
<1>4. QED
  BY <1>1, <1>2, <1>3, QuietCount

LEMMA StaysCounted ==
  ASSUME OnboardInv, [OnboardNext]_onboardVars
  PROVE  DesertionIsCounted'
<1> DEFINE Goal == DesertionIsCounted'
<1>0. TenantsAreSetUp /\ OnboardTyped /\ TasksKnown /\ DesertionIsCounted
  BY DEF OnboardInv, TenantsAreSetUp
<1>1. CASE UNCHANGED onboardVars
  BY <1>0, <1>1 DEF onboardVars, DesertionIsCounted, Deserted, Pending, Homed
<1>2. ASSUME NEW h \in Hosts, StepOf(h) PROVE Goal
  <2>1. \A g \in Hosts \ {h} : serving'[g] = serving[g]
    BY <1>0, <1>2, TaskMoves
  <2>a. ASSUME Begins(h) \/ GoesOn(h) \/ Stops(h), serving[h].step # "profile",
               homeOf' = homeOf, failures' = failures
        PROVE  Goal
    BY <1>0, <2>1, <2>a, QuietTasks DEF Begins, GoesOn, Stops
  <2>2. ASSUME NEW u \in Newcomers, SignIn(h, u) PROVE Goal
    <3>1. PICK n \in FreeSlugs :
            Serve(h, [NoCall EXCEPT !.step = "tenant", !.tenant = n, !.user = u])
      BY <2>2 DEF SignIn
    <3>2. /\ n \in Workspaces /\ sessions' = sessions /\ workspaces' = workspaces
          /\ homeOf' = homeOf /\ failures' = failures /\ homeOf[u] = 0
          /\ serving[h].step = "idle"
      BY <2>2 DEF FreeSlugs, SignIn
    <3>3. serving'[h].step = "tenant" /\ serving'[h].user = u
      BY <1>0, <3>1, <3>2, StartedSignIn
    <3>4. Deserted' \subseteq Deserted
      BY <2>1, <3>2, <3>3 DEF Deserted
    <3>5. Pending' \subseteq Pending
      BY <2>1, <3>2, <3>3 DEF Pending
    <3>6. Homed' = Homed
      BY <3>2 DEF Homed
    <3>7. QED
      BY <1>0, <3>2, <3>4, <3>5, <3>6, QuietCount
  <2>3. ASSUME NEW t \in Workspaces, NEW update \in Sayings, NEW activates \in BOOLEAN,
               activates => update.modules \in ModuleLists,
               BeginSession(h, t, update, activates)
        PROVE  Goal
    <3>1. serving'[h].step \in {"create", "patch"} /\ serving[h].step = "idle"
      BY <1>0, <2>3, UpdatesBegin
    <3>2. homeOf' = homeOf /\ failures' = failures /\ workspaces' = workspaces
      BY <2>3 DEF BeginSession
    <3>3. QED
      BY <1>0, <2>1, <3>1, <3>2, QuietTasks
  <2>4. CASE InsertTenant(h)
    <3>1. serving[h].step = "tenant" /\ homeOf' = homeOf /\ failures' = failures
      BY <2>4 DEF InsertTenant
    <3>2. CASE Wins(h)
      <4>1. serving'[h].user = serving[h].user
        BY <1>0, <2>4, <3>2, NextStep DEF InsertTenant, Wins
      <4>2. Deserted' \subseteq Deserted
        BY <2>1, <3>1, <3>2 DEF Deserted, Wins
      <4>3. Pending' \subseteq Pending
        BY <2>1, <3>1, <3>2, <4>1 DEF Pending, Wins
      <4>4. Homed' = Homed
        BY <3>1 DEF Homed
      <4>5. QED
        BY <1>0, <3>1, <4>2, <4>3, <4>4, QuietCount
    <3>3. CASE ~Wins(h)
      <4>1. Stops(h)
        BY <1>0, <1>2, <3>1, <3>3, TaskMoves DEF SignsIn, Begins, GoesOn
      <4>2. QED
        BY <2>a, <3>1, <4>1
    <3>4. QED
      BY <3>2, <3>3
  <2>5. CASE InsertProfile(h)
    <3> DEFINE u == serving[h].user
               t == serving[h].tenant
               d == Cardinality(Deserted)
               p == Cardinality(Pending)
               m == Cardinality(Homed)
               all == Cardinality(Newcomers) * Cardinality(Hosts)
    <3>1. /\ d \in Nat /\ p \in Nat /\ m \in Nat /\ all \in Nat /\ failures \in Nat
          /\ IsFiniteSet(Deserted) /\ IsFiniteSet(Pending) /\ IsFiniteSet(Homed)
      BY <1>0, CountsAreNumbers
    <3>2. d + p + m <= failures + all
      BY <1>0 DEF DesertionIsCounted
    <3>3. /\ serving[h].step = "profile" /\ u \in Newcomers /\ t \in Workspaces
          /\ failures' = failures /\ workspaces' = workspaces
      BY <1>0, <2>5 DEF InsertProfile, TasksKnown
    <3>4. serving'[h].step \notin {"tenant", "profile"}
      BY <1>0, <1>2, <3>3, TaskMoves DEF SignsIn, Begins, Wins, GoesOn, Stops
    <3>5. <<u, h>> \in Pending
      BY <3>3 DEF Pending
    <3>6. CASE homeOf[u] = 0
      <4>1. homeOf' = [homeOf EXCEPT ![u] = t]
        BY <2>5, <3>6 DEF InsertProfile
      <4>2. t # 0 /\ homeOf'[u] = t /\ \A v \in Newcomers \ {u} : homeOf'[v] = homeOf[v]
        BY <1>0, <3>3, <4>1, WorkspacesAreNumbers DEF OnboardTyped
      <4>3. Deserted' \subseteq Deserted
        <5>1. \A n \in workspaces : n # 0
          BY <1>0, WorkspacesAreNumbers DEF OnboardTyped
        <5>2. ASSUME NEW n \in Deserted' PROVE n \in Deserted
          <6>1. n \in workspaces /\ n # t /\ \A v \in Newcomers : homeOf'[v] # n
            BY <3>3, <4>2, <5>2 DEF Deserted
          <6>2. \A v \in Newcomers : homeOf[v] # n
            BY <3>6, <4>2, <5>1, <6>1
          <6>3. \A g \in Hosts \ {h} : serving[g].step = "profile" => serving[g].tenant # n
            BY <2>1, <5>2 DEF Deserted
          <6>4. QED
            BY <6>1, <6>2, <6>3 DEF Deserted
        <5>3. QED
          BY <5>2
      <4>4. Pending' \subseteq Pending \ {<<u, h>>}
        BY <2>1, <3>4, <4>2 DEF Pending
      <4>5. Homed' \subseteq Homed \cup {u}
        BY <4>2 DEF Homed
      <4>6. Cardinality(Deserted') \in Nat /\ Cardinality(Deserted') <= d
        BY <3>1, <4>3, FS_Subset, FS_CardinalityType
      <4>7. Cardinality(Pending') \in Nat /\ Cardinality(Pending') + 1 <= p
        BY <3>1, <3>5, <4>4, OneLess
      <4>8. Cardinality(Homed') \in Nat /\ Cardinality(Homed') <= m + 1
        BY <3>1, <4>5, OneMore
      <4> HIDE DEF d, p, m, all
      <4>9. Cardinality(Deserted') + Cardinality(Pending') + Cardinality(Homed')
              <= failures + all
        BY <3>1, <3>2, <4>6, <4>7, <4>8
      <4>10. QED
        BY <3>3, <4>9 DEF DesertionIsCounted, all
    <3>7. CASE homeOf[u] # 0
      <4>1. homeOf' = homeOf
        BY <2>5, <3>7 DEF InsertProfile
      <4>2. Deserted' \subseteq Deserted \cup {t}
        BY <2>1, <3>3, <3>4, <4>1 DEF Deserted
      <4>3. Pending' \subseteq Pending \ {<<u, h>>}
        BY <2>1, <3>4, <3>7, <4>1 DEF Pending
      <4>4. Homed' = Homed
        BY <4>1 DEF Homed
      <4>5. Cardinality(Deserted') \in Nat /\ Cardinality(Deserted') <= d + 1
        BY <3>1, <4>2, OneMore
      <4>6. Cardinality(Pending') \in Nat /\ Cardinality(Pending') + 1 <= p
        BY <3>1, <3>5, <4>3, OneLess
      <4> HIDE DEF d, p, m, all
      <4>7. Cardinality(Deserted') + Cardinality(Pending') + m <= failures + all
        BY <3>1, <3>2, <4>5, <4>6
      <4>8. QED
        BY <3>3, <4>4, <4>7 DEF DesertionIsCounted, m, all
    <3>8. QED
      BY <3>6, <3>7
  <2>6. CASE \/ InsertSession(h) \/ CreateSession(h) \/ PatchSession(h) \/ ReadModules(h)
             \/ DeleteModules(h) \/ InsertModules(h)
    <3>1. /\ serving[h].step \notin {"idle", "tenant", "profile"}
          /\ homeOf' = homeOf /\ failures' = failures
      BY <2>6 DEF InsertSession, CreateSession, PatchSession, ReadModules, DeleteModules,
                  InsertModules
    <3>2. GoesOn(h) \/ Stops(h)
      BY <1>0, <1>2, <3>1, TaskMoves DEF SignsIn, Begins, Wins
    <3>3. QED
      BY <2>a, <3>1, <3>2
  <2>7. CASE BreakOff(h)
    <3> DEFINE u == serving[h].user
               t == serving[h].tenant
               d == Cardinality(Deserted)
               p == Cardinality(Pending)
               m == Cardinality(Homed)
               all == Cardinality(Newcomers) * Cardinality(Hosts)
    <3>1. /\ d \in Nat /\ p \in Nat /\ m \in Nat /\ all \in Nat /\ failures \in Nat
          /\ IsFiniteSet(Deserted) /\ IsFiniteSet(Pending) /\ IsFiniteSet(Homed)
      BY <1>0, CountsAreNumbers
    <3>2. d + p + m <= failures + all
      BY <1>0 DEF DesertionIsCounted
    <3>3. /\ serving[h].step # "idle" /\ homeOf' = homeOf /\ failures' = failures + 1
      BY <2>7 DEF BreakOff
    <3>4. serving'[h].step = "idle" /\ workspaces' = workspaces
      BY <1>0, <2>7, AnsweredCall DEF BreakOff
    <3>5. Deserted' \subseteq Deserted \cup {t}
      BY <2>1, <3>3, <3>4 DEF Deserted
    <3>6. Pending' \subseteq Pending
      BY <2>1, <3>3, <3>4 DEF Pending
    <3>7. Homed' = Homed
      BY <3>3 DEF Homed
    <3>8. Cardinality(Deserted') \in Nat /\ Cardinality(Deserted') <= d + 1
      BY <3>1, <3>5, OneMore
    <3>9. Cardinality(Pending') \in Nat /\ Cardinality(Pending') <= p
      BY <3>1, <3>6, FS_Subset, FS_CardinalityType
    <3> HIDE DEF d, p, m, all
    <3>10. Cardinality(Deserted') + Cardinality(Pending') + m <= (failures + 1) + all
      BY <3>1, <3>2, <3>8, <3>9
    <3>11. QED
      BY <3>3, <3>7, <3>10 DEF DesertionIsCounted, m, all
  <2>8. QED
    BY <1>2, <2>2, <2>3, <2>4, <2>5, <2>6, <2>7 DEF StepOf
<1>3. QED
  BY <1>1, <1>2, HandlersSteps

-----------------------------------------------------------------------------
\* Every newcomer is in, or has a sign-in to make with every host.
LEMMA NewcomersAreCounted ==
  ASSUME OnboardTyped
  PROVE  Cardinality(Newcomers) <= Cardinality(Pending) + Cardinality(Homed)
<1>1. PICK h \in Hosts : TRUE
  BY OnboardingAssumption
<1> DEFINE Away == Newcomers \ Homed
           f == [u \in Away |-> <<u, h>>]
<1>2. IsFiniteSet(Newcomers) /\ Homed \subseteq Newcomers
  BY OnboardingAssumption DEF Homed
<1>3. Newcomers \cap Homed = Homed
  BY <1>2
<1>4. Cardinality(Away) = Cardinality(Newcomers) - Cardinality(Homed)
  BY <1>2, <1>3, FS_Difference
<1>5. \A u \in Away : <<u, h>> \in Pending
  BY DEF Pending, Homed
<1>6. f \in Injection(Away, Pending)
  BY <1>5 DEF Injection, IsInjective
<1>7. IsFiniteSet(Pending) /\ Cardinality(Pending) \in Nat /\ Cardinality(Homed) \in Nat
      /\ Cardinality(Newcomers) \in Nat
  BY CountsAreNumbers
<1>8. Cardinality(Away) <= Cardinality(Pending)
  BY <1>6, <1>7, FS_Injection
<1>9. QED
  BY <1>4, <1>7, <1>8

LEMMA DesertedAreFew ==
  ASSUME OnboardInv
  PROVE  DesertionIsRare
<1> DEFINE d == Cardinality(Deserted)
           p == Cardinality(Pending)
           m == Cardinality(Homed)
           n == Cardinality(Newcomers)
           k == Cardinality(Hosts)
<1>1. OnboardTyped
  BY DEF OnboardInv, TenantsAreSetUp
<1>2. /\ d \in Nat /\ p \in Nat /\ m \in Nat /\ n \in Nat /\ k \in Nat /\ n * k \in Nat
      /\ failures \in Nat
  BY <1>1, CountsAreNumbers
<1>3. d + p + m <= failures + n * k
  BY DEF OnboardInv, DesertionIsCounted
<1>4. n <= p + m
  BY <1>1, NewcomersAreCounted
<1> HIDE DEF d, p, m, n, k
<1>5. n * (k - 1) = n * k - n
  BY <1>2
<1>6. d <= failures + n * (k - 1)
  <2> DEFINE all == n * k
  <2>1. all \in Nat /\ d + p + m <= failures + all /\ n * (k - 1) = all - n
    BY <1>2, <1>3, <1>5
  <2> HIDE DEF all
  <2>2. QED
    BY <1>2, <1>4, <2>1
<1>7. QED
  BY <1>6 DEF DesertionIsRare, d, n, k

LEMMA NothingIsLost ==
  ASSUME OnboardInv
  PROVE  NothingSaidIsLost
<1>1. SUFFICES ASSUME NEW t \in workspaces \ contested, said[t] # Unsaid
               PROVE  Newest(t) # 0 /\ sessions[Newest(t)].holds = said[t]
  BY DEF NothingSaidIsLost
<1>2. OnboardTyped /\ OneSession(t)
  BY DEF OnboardInv, TenantsAreSetUp, OnboardTyped
<1>3. PICK i \in SessionsOf(t) : SessionsOf(t) = {i} /\ sessions[i].holds = said[t]
  BY <1>1, <1>2 DEF OneSession
<1>4. Newest(t) = i
  BY <1>2, <1>3, NewestSession
<1>5. i # 0
  BY <1>2, SessionsAreCounted DEF SessionsOf
<1>6. QED
  BY <1>3, <1>4, <1>5

LEMMA OnboardInit_Inv ==
  ASSUME OnboardInit
  PROVE  OnboardInv
<1>1. \A h \in Hosts : serving[h] = NoCall
  BY DEF OnboardInit
<1>2. /\ NoCall.step = "idle" /\ NoCall.tenant = 0 /\ NoCall.activates = FALSE
      /\ NoCall \in Tasks /\ Unsaid \in Sayings /\ NotActivated \in Activations
      /\ NotActivated.modules = {} /\ NotActivated.broken = FALSE
  BY NoCallIsATask DEF NoCall, NotActivated
<1>3. Len(sessions) = 0 /\ sessions \in Seq(SessionRows)
  BY DEF OnboardInit
<1>4. \A t : SessionsOf(t) = {} /\ ModulesOf(t) = {}
  BY <1>3 DEF OnboardInit, SessionsOf, ModulesOf
<1>5. OnboardTyped
  BY <1>1, <1>2, <1>3 DEF OnboardInit, OnboardTyped
<1>6. TasksKnown
  BY <1>1, <1>2 DEF TasksKnown
<1>7. \A t \in Workspaces : Fresh(t)
  <2>1. 0 \notin Workspaces
    BY WorkspacesAreNumbers
  <2>2. QED
    BY <1>4, <2>1 DEF OnboardInit, Fresh
<1>8. NewAreFresh /\ Alone
  BY <1>1, <1>2, <1>7 DEF NewAreFresh, Alone, BusyWith
<1>9. ASSUME NEW t \in Workspaces PROVE OneSession(t) /\ ModulesAgree(t)
  <2>1. said[t] = Unsaid /\ activated[t] = NotActivated /\ ~Replacing(t)
    BY <1>1, <1>2 DEF OnboardInit, Replacing
  <2>2. OneSession(t)
    BY <1>1, <1>2, <1>4, <2>1 DEF OneSession
  <2>3. ModulesAgree(t)
    BY <1>2, <1>4, <2>1 DEF ModulesAgree
  <2>4. QED
    BY <2>2, <2>3
<1>10. DesertionIsCounted
  <2>1. Deserted = {} /\ Homed = {} /\ Pending = Newcomers \X Hosts /\ failures = 0
    BY DEF OnboardInit, Deserted, Homed, Pending
  <2>2. Cardinality(Newcomers \X Hosts) = Cardinality(Newcomers) * Cardinality(Hosts)
    BY OnboardingAssumption, FS_Product
  <2>3. Cardinality({}) = 0
    BY FS_EmptySet
  <2>4. Cardinality(Newcomers) * Cardinality(Hosts) \in Nat
    BY <1>5, CountsAreNumbers
  <2>5. QED
    BY <2>1, <2>2, <2>3, <2>4 DEF DesertionIsCounted
<1>11. QED
  BY <1>5, <1>6, <1>8, <1>9, <1>10 DEF OnboardInv, TenantsAreSetUp

(***************************************************************************)
(* However many sign in, on however many hosts, and whatever breaks off: a *)
(* workspace is deserted for a failure or a lost race only, and what was   *)
(* said of a workspace and what it activated is what its rows hold, unless *)
(* two handlers were busy with it at a time (main.py:777-796, file_store.  *)
(* py:794-832).                                                            *)
(***************************************************************************)
THEOREM OnboardingIsKeptAlways == OnboardSpec => []OnboardingIsKept
<1>1. OnboardInit => OnboardInv
  BY OnboardInit_Inv
<1>2. OnboardInv /\ [OnboardNext]_onboardVars => OnboardInv'
  BY StaySetUp, StaysCounted DEF OnboardInv
<1>3. OnboardInv => OnboardingIsKept
  <2>1. ASSUME OnboardInv PROVE EnabledAsActivated
    BY <2>1 DEF OnboardInv, TenantsAreSetUp, OnboardTyped, ModulesAgree, EnabledAsActivated
  <2>2. QED
    BY <2>1, DesertedAreFew, NothingIsLost DEF OnboardingIsKept
<1>4. QED
  BY <1>1, <1>2, <1>3, PTL DEF OnboardSpec
=============================================================================
