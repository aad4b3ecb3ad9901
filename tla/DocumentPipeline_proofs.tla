---------------------- MODULE DocumentPipeline_proofs ----------------------
(***************************************************************************)
(* The documents of a tenant are capped, charged after they are stored,    *)
(* and drafts keep to what their saves leave, for any number of requests,  *)
(* loops, drafts and plans, under every fault.                             *)
(***************************************************************************)
EXTENDS DocumentPipeline, FiniteSetTheorems, TLAPS

LEMMA InitType == Init => TypeOK
  BY LimitsAssumption DEF Init, TypeOK, Labels, NoJob

LEMMA BeginType ==
  ASSUME TypeOK, NEW r \in Requests, NEW p \in Policies \cup {None},
         NEW c \in Contents \cup {None}, NEW label \in Labels,
         label \in {"delete", "insert", "cover"} => p \in drafts' /\ c \in Contents,
         drafts \subseteq drafts',
         Begin(r, label, p, c)
  PROVE  /\ pc' \in [Requests -> Labels]
         /\ job' \in [Requests -> [policy : Policies \cup {None}, content : Contents \cup {None}]]
         /\ \A q \in Requests :
              pc'[q] \in {"delete", "insert", "cover"} =>
                job'[q].policy \in drafts' /\ job'[q].content \in Contents
<1>1. [policy |-> p, content |-> c]
        \in [policy : Policies \cup {None}, content : Contents \cup {None}]
  OBVIOUS
<1>2. pc' = [pc EXCEPT ![r] = label] /\ job' = [job EXCEPT ![r] = [policy |-> p, content |-> c]]
  BY DEF Begin
<1>3. /\ pc' \in [Requests -> Labels]
      /\ job' \in [Requests -> [policy : Policies \cup {None}, content : Contents \cup {None}]]
  BY <1>1, <1>2 DEF TypeOK
<1>4. ASSUME NEW q \in Requests, pc'[q] \in {"delete", "insert", "cover"}
      PROVE  job'[q].policy \in drafts' /\ job'[q].content \in Contents
  <2>1. CASE q = r
    <3>1. job'[q] = [policy |-> p, content |-> c] /\ pc'[q] = label
      BY <1>2, <2>1 DEF TypeOK
    <3>2. QED
      BY <3>1, <1>4
  <2>2. CASE q # r
    <3>1. job'[q] = job[q] /\ pc'[q] = pc[q]
      BY <1>2, <2>2 DEF TypeOK
    <3>2. QED
      BY <3>1, <1>4 DEF TypeOK
  <2>3. QED
    BY <2>1, <2>2
<1>5. QED
  BY <1>3, <1>4

LEMMA MoveType ==
  ASSUME TypeOK, NEW r \in Requests, NEW label \in Labels, Goto(r, label),
         label \in {"delete", "insert", "cover"} => pc[r] \in {"delete", "insert", "cover"},
         drafts' = drafts
  PROVE  /\ pc' \in [Requests -> Labels]
         /\ job' \in [Requests -> [policy : Policies \cup {None}, content : Contents \cup {None}]]
         /\ \A q \in Requests :
              pc'[q] \in {"delete", "insert", "cover"} =>
                job'[q].policy \in drafts' /\ job'[q].content \in Contents
  BY DEF Goto, TypeOK

LEMMA AnswerType ==
  ASSUME TypeOK, NEW r \in Requests, Answer(r), drafts' = drafts
  PROVE  /\ pc' \in [Requests -> Labels]
         /\ job' \in [Requests -> [policy : Policies \cup {None}, content : Contents \cup {None}]]
         /\ \A q \in Requests :
              pc'[q] \in {"delete", "insert", "cover"} =>
                job'[q].policy \in drafts' /\ job'[q].content \in Contents
<1>1. Begin(r, "idle", None, None)
  BY DEF Answer, Begin, NoJob
<1>2. QED
  BY <1>1, BeginType DEF Labels

LEMMA DraftType ==
  ASSUME TypeOK, NEW r \in Requests, NEW p \in Policies, NEW c \in Contents, Draft(r, p, c)
  PROVE  /\ drafts' \subseteq Policies /\ drafts \subseteq drafts'
         /\ sections' \in [Policies -> SUBSET (Requests \X Contents)]
         /\ covered' = covered /\ disturbed' = disturbed
  BY DEF Draft, TypeOK

LEMMA StepType == TypeOK /\ [Next]_vars => TypeOK'
<1> SUFFICES ASSUME TypeOK, [Next]_vars PROVE TypeOK'
  OBVIOUS
<1>a. ASSUME NEW r \in Requests, NEW p \in Policies, NEW c \in Contents,
             Preview(r, p, c) \/ CreateDocument(r, p, c) \/ CreateGenerate(r, p, c)
      PROVE  TypeOK'
  <2>1. CASE Preview(r, p, c)
    BY <2>1, DraftType DEF Preview, TypeOK, metering, requests
  <2>2. CASE CreateDocument(r, p, c)
    <3>1. CASE Begin(r, "store", p, c)
      BY <2>2, <3>1, DraftType, BeginType DEF CreateDocument, TypeOK, metering, Labels
    <3>2. CASE UNCHANGED requests
      BY <2>2, <3>2, DraftType DEF CreateDocument, TypeOK, metering, requests
    <3>3. QED
      BY <2>2, <3>1, <3>2 DEF CreateDocument
  <2>3. CASE CreateGenerate(r, p, c)
    BY <2>3, BeginType DEF CreateGenerate, TypeOK, metering, store, Labels
  <2>4. QED
    BY <1>a, <2>1, <2>2, <2>3
<1>b. ASSUME NEW r \in Requests,
             OtherDocument(r) \/ MigrateDocument(r) \/ Extract(r)
      PROVE  TypeOK'
  <2>1. CASE OtherDocument(r)
    BY <2>1, BeginType DEF OtherDocument, TypeOK, metering, store, Labels
  <2>2. CASE MigrateDocument(r)
    BY <2>2, BeginType DEF MigrateDocument, TypeOK, metering, store, Labels
  <2>3. CASE Extract(r)
    BY <2>3, MoveType, AnswerType DEF Extract, TypeOK, metering, store, Labels
  <2>4. QED
    BY <1>b, <2>1, <2>2, <2>3
<1>c. ASSUME NEW r \in Requests, DeleteSections(r) PROVE TypeOK'
  <2>1. job[r].policy \in Policies
    BY <1>c DEF DeleteSections, TypeOK
  <2>2. CASE Goto(r, "insert")
    BY <1>c, <2>1, <2>2, MoveType DEF DeleteSections, TypeOK, metering, Labels
  <2>3. CASE Answer(r)
    BY <1>c, <2>1, <2>3, AnswerType DEF DeleteSections, TypeOK, metering
  <2>4. QED
    BY <1>c, <2>2, <2>3 DEF DeleteSections
<1>d. ASSUME NEW r \in Requests, InsertSections(r) PROVE TypeOK'
  <2>1. job[r].policy \in Policies /\ job[r].content \in Contents
    BY <1>d DEF InsertSections, TypeOK
  <2>2. CASE Goto(r, "cover")
    <3>1. sections' \in [Policies -> SUBSET (Requests \X Contents)]
      BY <1>d, <2>1 DEF InsertSections, TypeOK
    <3>2. disturbed' \subseteq Policies
      BY <1>d, <2>1 DEF InsertSections, TypeOK
    <3>3. QED
      BY <1>d, <3>1, <3>2, <2>2, MoveType DEF InsertSections, TypeOK, metering, Labels
  <2>3. CASE Answer(r)
    <3>1. sections' \in [Policies -> SUBSET (Requests \X Contents)]
      BY <1>d, <2>1 DEF InsertSections, TypeOK
    <3>2. disturbed' \subseteq Policies
      BY <1>d, <2>1 DEF InsertSections, TypeOK
    <3>3. QED
      BY <1>d, <3>1, <3>2, <2>3, AnswerType DEF InsertSections, TypeOK, metering
  <2>4. QED
    BY <1>d, <2>2, <2>3 DEF InsertSections
<1>e. ASSUME NEW r \in Requests, Cover(r) PROVE TypeOK'
  <2>1. job[r].policy \in Policies /\ job[r].content \in Contents
    BY <1>e DEF Cover, TypeOK
  <2>2. covered' \in [Policies -> Contents \cup {None}] /\ disturbed' \subseteq Policies
    BY <1>e, <2>1 DEF Cover, TypeOK
  <2>3. QED
    BY <1>e, <2>2, MoveType DEF Cover, TypeOK, metering, Labels
<1>f. ASSUME NEW r \in Requests, StoreDocument(r) PROVE TypeOK'
  BY <1>f, MoveType, AnswerType DEF StoreDocument, TypeOK, store, Labels
<1>g. ASSUME NEW r \in Requests, Charge(r) PROVE TypeOK'
  BY <1>g, AnswerType DEF Charge, TypeOK, store
<1>h. ASSUME NEW p \in Plans, PlanChanges(p) PROVE TypeOK'
  BY <1>h DEF PlanChanges, TypeOK, store, requests
<1>i. CASE MonthBegins
  BY <1>i DEF MonthBegins, TypeOK, store, requests
<1>j. CASE Crash
  BY <1>j DEF Crash, TypeOK, metering, Labels, NoJob
<1>k. CASE UNCHANGED vars
  BY <1>k DEF vars, TypeOK, metering, store, requests
<1> QED
  BY <1>a, <1>b, <1>c, <1>d, <1>e, <1>f, <1>g, <1>h, <1>i, <1>j, <1>k DEF Next

(***************************************************************************)
(* The variables of the pipeline keep their types, and what a save is      *)
(* about is a draft.                                                       *)
(***************************************************************************)
THEOREM TypeCorrect == Spec => []TypeOK
  BY InitType, StepType, PTL DEF Spec
-----------------------------------------------------------------------------
(***************************************************************************)
(* Metering.  The plan in force is among those of the month, and it is the *)
(* free one as long as nothing was paid for.                               *)
(***************************************************************************)
N == Cardinality(Requests)

PlanKnown == plan \in inForce /\ (~paid => plan = FreePlan)

Metered == TypeOK /\ PlanKnown /\ MonthlyDocumentsCapped /\ FreeTotalCapped

LEMMA RequestsFinite == N \in Nat \ {0}
<1>1. N \in Nat
  BY RequestsAssumption, FS_CardinalityType DEF N
<1>2. N # 0
  BY RequestsAssumption, FS_EmptySet DEF N
<1>3. QED
  BY <1>1, <1>2

LEMMA SomeRequests ==
  ASSUME NEW S, S \subseteq Requests
  PROVE  IsFiniteSet(S) /\ Cardinality(S) \in 0..N
<1>1. IsFiniteSet(S) /\ Cardinality(S) <= N
  BY RequestsAssumption, FS_Subset DEF N
<1>2. QED
  BY <1>1, RequestsFinite, FS_CardinalityType

LEMMA FewerRequests ==
  ASSUME NEW S, NEW T, S \subseteq T, T \subseteq Requests
  PROVE  Cardinality(S) <= Cardinality(T)
  BY SomeRequests, FS_Subset

LEMMA AllowanceType ==
  ASSUME NEW p \in Plans, IsLimited(p)
  PROVE  Allowance(p) \in Nat \ {0}
  BY LimitsAssumption DEF IsLimited, Allowance

(***************************************************************************)
(* Four ways in which a step meets the two caps.                           *)
(***************************************************************************)
\* It admits nobody, charges nothing and forgets no plan.
Idles ==
  /\ Admitted' \subseteq Admitted
  /\ monthly' = monthly /\ past' = past
  /\ inForce \subseteq inForce' /\ (paid => paid')

LEMMA IdlingKeepsCaps ==
  ASSUME Metered, Idles
  PROVE  MonthlyDocumentsCapped' /\ FreeTotalCapped'
<1>1. Admitted \subseteq Requests
  BY DEF Admitted
<1>2. PICK m \in Nat : m = Cardinality(Admitted)
  BY <1>1, SomeRequests
<1>3. PICK n \in Nat : n = Cardinality(Admitted')
  BY <1>1, SomeRequests DEF Idles
<1>4. n <= m
  BY <1>1, <1>2, <1>3, FewerRequests DEF Idles
<1>5. monthly \in Nat /\ past \in Nat /\ N \in Nat /\ GenerationsTotal \in Nat
  BY RequestsFinite, LimitsAssumption DEF Metered, TypeOK
<1>6. MonthlyDocumentsCapped'
  <2>1. PICK p \in inForce : IsLimited(p) => monthly + m <= Allowance(p) + N - 1
    BY <1>2 DEF Metered, MonthlyDocumentsCapped, N
  <2>2. p \in Plans /\ p \in inForce'
    BY DEF Metered, TypeOK, Idles
  <2>3. IsLimited(p) => monthly + n <= Allowance(p) + N - 1
    BY <1>4, <1>5, <2>1, <2>2, AllowanceType
  <2>4. IsLimited(p) => monthly' + Cardinality(Admitted') <= Allowance(p) + N - 1
    BY <1>3, <2>3 DEF Idles
  <2>5. QED
    BY <2>2, <2>4 DEF MonthlyDocumentsCapped, IsLimited, Allowance, N
<1>7. FreeTotalCapped'
  <2>1. CASE paid
    BY <2>1 DEF Idles, FreeTotalCapped
  <2>2. CASE ~paid
    <3>1. past + monthly + m <= GenerationsTotal + N - 1
      BY <1>2, <2>2 DEF Metered, FreeTotalCapped, N
    <3>2. past + monthly + n <= GenerationsTotal + N - 1
      BY <1>4, <1>5, <3>1
    <3>3. past' + monthly' + Cardinality(Admitted') <= GenerationsTotal + N - 1
      BY <1>3, <3>2 DEF Idles
    <3>4. QED
      BY <3>3 DEF FreeTotalCapped, N
  <2>3. QED
    BY <2>1, <2>2
<1>8. QED
  BY <1>6, <1>7

\* The fence let a request through.
Admits == Fence /\ UNCHANGED metering

LEMMA AdmittingKeepsCaps ==
  ASSUME Metered, Admits
  PROVE  MonthlyDocumentsCapped' /\ FreeTotalCapped'
<1>1. PICK n \in Nat : n = Cardinality(Admitted') /\ n <= N
  <2>1. Admitted' \subseteq Requests
    BY DEF Admitted
  <2>2. QED
    BY <2>1, SomeRequests
<1>2. monthly \in Nat /\ past \in Nat /\ N \in Nat /\ GenerationsTotal \in Nat
  BY RequestsFinite, LimitsAssumption DEF Metered, TypeOK
<1>3. plan \in Plans /\ plan \in inForce /\ (~paid => plan = FreePlan)
  BY DEF Metered, TypeOK, PlanKnown
<1>4. plan' = plan /\ monthly' = monthly /\ past' = past /\ inForce' = inForce /\ (paid' <=> paid)
  BY DEF Admits, metering
<1>5. MonthlyDocumentsCapped'
  <2>1. IsLimited(plan) => monthly < Allowance(plan)
    BY <1>2, LimitsAssumption DEF Admits, Fence, IsLimited, Allowance
  <2>2. IsLimited(plan) => monthly + n <= Allowance(plan) + N - 1
    BY <1>1, <1>2, <1>3, <2>1, AllowanceType
  <2>3. IsLimited(plan) => monthly' + Cardinality(Admitted') <= Allowance(plan) + N - 1
    BY <1>1, <1>4, <2>2
  <2>4. QED
    BY <1>3, <1>4, <2>3 DEF MonthlyDocumentsCapped, IsLimited, Allowance, N
<1>6. FreeTotalCapped'
  <2>1. CASE paid
    BY <1>4, <2>1 DEF FreeTotalCapped
  <2>2. CASE ~paid
    <3>1. past + monthly < GenerationsTotal
      BY <1>3, <2>2 DEF Admits, Fence
    <3>2. past + monthly + n <= GenerationsTotal + N - 1
      BY <1>1, <1>2, <3>1
    <3>3. past' + monthly' + Cardinality(Admitted') <= GenerationsTotal + N - 1
      BY <1>1, <1>4, <3>2
    <3>4. QED
      BY <3>3 DEF FreeTotalCapped, N
  <2>3. QED
    BY <2>1, <2>2
<1>7. QED
  BY <1>5, <1>6

LEMMA ChargingKeepsCaps ==
  ASSUME Metered, NEW r \in Requests, Charge(r)
  PROVE  MonthlyDocumentsCapped' /\ FreeTotalCapped'
<1>1. r \in Admitted /\ Admitted' = Admitted \ {r}
  BY DEF Metered, TypeOK, Charge, Answer, Admitted
<1>2. CASE monthly' = monthly
  <2>1. Idles
    BY <1>1, <1>2 DEF Charge, Idles
  <2>2. QED
    BY <2>1, IdlingKeepsCaps
<1>3. CASE monthly' = monthly + 1
  <2>1. Admitted \subseteq Requests
    BY DEF Admitted
  <2>2. PICK m \in Nat : m = Cardinality(Admitted)
    BY <2>1, SomeRequests
  <2>3. Cardinality(Admitted') = m - 1
    BY <1>1, <2>1, <2>2, SomeRequests, FS_RemoveElement
  <2>4. monthly \in Nat /\ past \in Nat
    BY DEF Metered, TypeOK
  <2>5. monthly' + Cardinality(Admitted') = monthly + m
    BY <1>3, <2>2, <2>3, <2>4
  <2>6. past' = past /\ inForce' = inForce /\ (paid' <=> paid)
    BY DEF Charge
  <2>7. past' + monthly' + Cardinality(Admitted') = past + monthly + m
    BY <1>3, <2>2, <2>3, <2>4, <2>6
  <2>8. MonthlyDocumentsCapped'
    BY <2>2, <2>5, <2>6 DEF Metered, MonthlyDocumentsCapped, IsLimited, Allowance
  <2>9. FreeTotalCapped'
    BY <2>2, <2>6, <2>7 DEF Metered, FreeTotalCapped
  <2>10. QED
    BY <2>8, <2>9
<1>4. QED
  BY <1>2, <1>3 DEF Charge

LEMMA MonthKeepsCaps ==
  ASSUME Metered, MonthBegins
  PROVE  MonthlyDocumentsCapped' /\ FreeTotalCapped'
<1>1. Admitted' = Admitted /\ Admitted \subseteq Requests
  BY DEF MonthBegins, requests, Admitted
<1>2. PICK m \in Nat : m = Cardinality(Admitted) /\ m <= N
  BY <1>1, SomeRequests
<1>3. monthly \in Nat /\ past \in Nat /\ N \in Nat /\ plan \in Plans
  BY RequestsFinite DEF Metered, TypeOK
<1>4. MonthlyDocumentsCapped'
  <2>1. IsLimited(plan) => 0 + m <= Allowance(plan) + N - 1
    BY <1>2, <1>3, AllowanceType
  <2>2. monthly' = 0 /\ inForce' = {plan}
    BY DEF MonthBegins
  <2>3. QED
    BY <1>1, <1>2, <2>1, <2>2 DEF MonthlyDocumentsCapped, IsLimited, Allowance, N
<1>5. FreeTotalCapped'
  <2>1. past' + monthly' + m = past + monthly + m /\ (paid' <=> paid)
    BY <1>2, <1>3 DEF MonthBegins
  <2>2. QED
    BY <1>1, <1>2, <2>1 DEF Metered, FreeTotalCapped
<1>6. QED
  BY <1>4, <1>5

LEMMA InitMetered == Init => Metered
<1> SUFFICES ASSUME Init PROVE Metered
  OBVIOUS
<1>1. TypeOK
  BY InitType
<1>2. PlanKnown
  BY DEF Init, PlanKnown
<1>3. Cardinality(Admitted) = 0
  <2>1. Admitted = {}
    BY DEF Init, Admitted
  <2>2. QED
    BY <2>1, FS_EmptySet
<1>4. MonthlyDocumentsCapped
  <2>1. IsLimited(plan) => 0 + 0 <= Allowance(plan) + N - 1
    BY <1>1, AllowanceType, RequestsFinite DEF TypeOK
  <2>2. QED
    BY <1>3, <2>1 DEF Init, MonthlyDocumentsCapped, N
<1>5. FreeTotalCapped
  <2>1. 0 + 0 + 0 <= GenerationsTotal + N - 1
    BY LimitsAssumption, RequestsFinite
  <2>2. QED
    BY <1>3, <2>1 DEF Init, FreeTotalCapped, N
<1>6. QED
  BY <1>1, <1>2, <1>4, <1>5 DEF Metered

LEMMA StepMetered == Metered /\ [Next]_vars => Metered'
<1> SUFFICES ASSUME Metered, [Next]_vars PROVE Metered'
  OBVIOUS
<1>1. TypeOK'
  BY StepType DEF Metered
<1>2. PlanKnown'
  <2>1. CASE UNCHANGED <<plan, inForce, paid>>
    BY <2>1 DEF Metered, PlanKnown
  <2>2. ASSUME NEW p \in Plans, PlanChanges(p) PROVE PlanKnown'
    BY <2>2 DEF PlanChanges, PlanKnown
  <2>3. CASE MonthBegins
    BY <2>3 DEF Metered, MonthBegins, PlanKnown
  <2>4. QED
    BY <2>1, <2>2, <2>3 DEF Next, Preview, CreateDocument, CreateGenerate, OtherDocument,
      MigrateDocument, Extract, DeleteSections, InsertSections, Cover, StoreDocument,
      Charge, Crash, vars, metering
<1>3. MonthlyDocumentsCapped' /\ FreeTotalCapped'
  <2>1. ASSUME NEW r \in Requests, NEW p \in Policies, NEW c \in Contents,
               Preview(r, p, c) \/ CreateDocument(r, p, c) \/ CreateGenerate(r, p, c)
        PROVE  Admits
    BY <2>1 DEF Preview, CreateDocument, CreateGenerate, LetThrough, Admits
  <2>2. ASSUME NEW r \in Requests, OtherDocument(r) \/ MigrateDocument(r) PROVE Admits
    BY <2>2 DEF OtherDocument, MigrateDocument, LetThrough, Admits
  <2>3. ASSUME NEW r \in Requests,
               \/ Extract(r) \/ DeleteSections(r) \/ InsertSections(r)
               \/ Cover(r) \/ StoreDocument(r)
        PROVE  Idles
    <3>1. pc[r] # "idle" /\ (Answer(r) \/ \E label \in Labels : Goto(r, label))
      BY <2>3 DEF Extract, DeleteSections, InsertSections, Cover, StoreDocument, Labels
    <3>2. Admitted' \subseteq Admitted
      BY <3>1 DEF Metered, TypeOK, Answer, Goto, Admitted
    <3>3. UNCHANGED <<monthly, past, inForce, paid>>
      BY <2>3 DEF Extract, DeleteSections, InsertSections, Cover, StoreDocument, metering
    <3>4. QED
      BY <3>2, <3>3 DEF Idles
  <2>4. ASSUME NEW p \in Plans, PlanChanges(p) PROVE Idles
    BY <2>4 DEF PlanChanges, Idles, Admitted, requests
  <2>5. ASSUME Crash PROVE Idles
    <3>1. Admitted' \subseteq Admitted
      BY <2>5 DEF Crash, Admitted
    <3>2. UNCHANGED <<monthly, past, inForce, paid>>
      BY <2>5 DEF Crash, metering
    <3>3. QED
      BY <3>1, <3>2 DEF Idles
  <2>6. ASSUME UNCHANGED vars PROVE Idles
    <3>1. Admitted' \subseteq Admitted
      BY <2>6 DEF vars, Admitted, requests
    <3>2. UNCHANGED <<monthly, past, inForce, paid>>
      BY <2>6 DEF vars, metering
    <3>3. QED
      BY <3>1, <3>2 DEF Idles
  <2>7. QED
    BY <2>1, <2>2, <2>3, <2>4, <2>5, <2>6, IdlingKeepsCaps, AdmittingKeepsCaps,
      ChargingKeepsCaps, MonthKeepsCaps DEF Next
<1>4. QED
  BY <1>1, <1>2, <1>3 DEF Metered

(***************************************************************************)
(* The documents of a month exceed the plan's allowance by less than the   *)
(* requests that can be under way at a time, unless an unlimited plan was  *)
(* in force that month; and so does the one document of the free plan.     *)
(***************************************************************************)
THEOREM MonthlyDocumentsCappedAlways == Spec => []MonthlyDocumentsCapped
<1>1. Metered => MonthlyDocumentsCapped
  BY DEF Metered
<1>2. QED
  BY <1>1, InitMetered, StepMetered, PTL DEF Spec

\* Of all time, for a tenant that never paid (billing_plans.py:11).
THEOREM FreeTotalCappedAlways == Spec => []FreeTotalCapped
<1>1. Metered => FreeTotalCapped
  BY DEF Metered
<1>2. QED
  BY <1>1, InitMetered, StepMetered, PTL DEF Spec
-----------------------------------------------------------------------------
(***************************************************************************)
(* Nothing is charged that is not stored.                                  *)
(***************************************************************************)
Charging == {r \in Requests : pc[r] = "charge"}

Stocked == TypeOK /\ ChargedIsStored

LEMMA StepStocked ==
  ASSUME Stocked, [Next]_vars
  PROVE  ChargedIsStored'
<1>1. Charging \subseteq Requests
  BY DEF Charging
<1>2. PICK m \in Nat : m = Cardinality(Charging)
  BY <1>1, SomeRequests
<1>3. past \in Nat /\ monthly \in Nat /\ documents \in Nat /\ past + monthly + m <= documents
  BY <1>2 DEF Stocked, TypeOK, ChargedIsStored, Charging
<1>4. ASSUME Charging' \subseteq Charging, UNCHANGED <<past, monthly, documents>>
      PROVE  ChargedIsStored'
  <2>1. PICK n \in Nat : n = Cardinality(Charging') /\ n <= m
    BY <1>1, <1>2, <1>4, SomeRequests, FewerRequests
  <2>2. past + monthly + n <= documents
    BY <1>3, <2>1
  <2>3. past' + monthly' + Cardinality(Charging') <= documents'
    BY <1>4, <2>1, <2>2
  <2>4. QED
    BY <2>3 DEF ChargedIsStored, Charging
<1>5. ASSUME NEW r \in Requests, StoreDocument(r) PROVE ChargedIsStored'
  <2>1. CASE Answer(r) /\ documents' = documents
    <3>1. Charging' \subseteq Charging
      BY <2>1 DEF Answer, Charging, Stocked, TypeOK
    <3>2. QED
      BY <1>4, <1>5, <2>1, <3>1 DEF StoreDocument
  <2>2. CASE Goto(r, "charge") /\ documents' = documents + 1
    <3>1. Charging' = Charging \cup {r} /\ r \notin Charging
      BY <1>5, <2>2 DEF StoreDocument, Goto, Charging, Stocked, TypeOK
    <3>2. Cardinality(Charging') = m + 1
      BY <1>1, <1>2, <3>1, SomeRequests, FS_AddElement
    <3>3. past + monthly + (m + 1) <= documents + 1
      BY <1>2, <1>3
    <3>4. past' + monthly' + Cardinality(Charging') <= documents'
      BY <1>5, <2>2, <3>2, <3>3 DEF StoreDocument
    <3>5. QED
      BY <3>4 DEF ChargedIsStored, Charging
  <2>3. QED
    BY <1>5, <2>1, <2>2 DEF StoreDocument
<1>6. ASSUME NEW r \in Requests, Charge(r) PROVE ChargedIsStored'
  <2>1. Charging' = Charging \ {r} /\ r \in Charging
    BY <1>6 DEF Charge, Answer, Charging, Stocked, TypeOK
  <2>2. Cardinality(Charging') = m - 1
    BY <1>1, <1>2, <2>1, SomeRequests, FS_RemoveElement
  <2>3. PICK k \in {monthly, monthly + 1} : k = monthly'
    BY <1>6 DEF Charge
  <2>4. past + k + (m - 1) <= documents
    BY <1>2, <1>3, <2>3
  <2>5. past' + monthly' + Cardinality(Charging') <= documents'
    BY <1>6, <2>2, <2>3, <2>4 DEF Charge
  <2>6. QED
    BY <2>5 DEF ChargedIsStored, Charging
<1>7. ASSUME MonthBegins PROVE ChargedIsStored'
  <2>1. Charging' = Charging
    BY <1>7 DEF MonthBegins, requests, Charging
  <2>2. past' + monthly' + m <= documents'
    BY <1>2, <1>3, <1>7 DEF MonthBegins
  <2>3. QED
    BY <1>2, <2>1, <2>2 DEF ChargedIsStored, Charging
<1>8. ASSUME NEW r \in Requests, NEW p \in Policies, NEW c \in Contents,
             Preview(r, p, c) \/ CreateDocument(r, p, c) \/ CreateGenerate(r, p, c)
      PROVE  ChargedIsStored'
  <2>1. Charging' \subseteq Charging
    BY <1>8 DEF Preview, CreateDocument, CreateGenerate, Begin, Charging, requests,
      Stocked, TypeOK
  <2>2. QED
    BY <1>4, <1>8, <2>1 DEF Preview, CreateDocument, CreateGenerate, metering
<1>9. ASSUME NEW r \in Requests, OtherDocument(r) \/ MigrateDocument(r) PROVE ChargedIsStored'
  <2>1. Charging' \subseteq Charging
    BY <1>9 DEF OtherDocument, MigrateDocument, Begin, Charging, Stocked, TypeOK
  <2>2. QED
    BY <1>4, <1>9, <2>1 DEF OtherDocument, MigrateDocument, metering
<1>10. ASSUME NEW r \in Requests,
              Extract(r) \/ DeleteSections(r) \/ InsertSections(r) \/ Cover(r)
       PROVE  ChargedIsStored'
  <2>1. Answer(r) \/ \E label \in {"insert", "cover", "store"} : Goto(r, label)
    BY <1>10 DEF Extract, DeleteSections, InsertSections, Cover
  <2>2. Charging' \subseteq Charging
    BY <2>1 DEF Answer, Goto, Charging, Stocked, TypeOK
  <2>3. QED
    BY <1>4, <1>10, <2>2 DEF Extract, DeleteSections, InsertSections, Cover, metering
<1>11. ASSUME (\E p \in Plans : PlanChanges(p)) \/ Crash \/ UNCHANGED vars
       PROVE  ChargedIsStored'
  <2>1. Charging' \subseteq Charging
    BY <1>11 DEF PlanChanges, Crash, vars, requests, Charging
  <2>2. QED
    BY <1>4, <1>11, <2>1 DEF PlanChanges, Crash, vars, metering
<1>12. QED
  BY <1>5, <1>6, <1>7, <1>8, <1>9, <1>10, <1>11 DEF Next

(***************************************************************************)
(* Every event that was charged to the tenant, in this month or before,    *)
(* has its row among the documents, crashes and failures or not.           *)
(***************************************************************************)
THEOREM ChargedIsStoredAlways == Spec => []ChargedIsStored
<1>1. Init => Stocked
  <2> SUFFICES ASSUME Init PROVE Stocked
    OBVIOUS
  <2>1. Charging = {}
    BY DEF Init, Charging
  <2>2. Cardinality(Charging) = 0
    BY <2>1, FS_EmptySet
  <2>3. ChargedIsStored
    BY <2>2 DEF Init, ChargedIsStored, Charging
  <2>4. QED
    BY <2>3, InitType DEF Stocked
<1>2. Stocked /\ [Next]_vars => Stocked'
  BY StepStocked, StepType DEF Stocked
<1>3. Stocked => ChargedIsStored
  BY DEF Stocked
<1>4. QED
  BY <1>1, <1>2, <1>3, PTL DEF Spec
-----------------------------------------------------------------------------
(***************************************************************************)
(* Drafts.  What the invariants say of one draft p; a policy that was not  *)
(* drafted yet has neither sections nor coverage.                          *)
(***************************************************************************)
Mixing(p) ==
  /\ IsFiniteSet(sections[p])
  /\ Cardinality(sections[p]) + Cardinality(Inserting(p)) <= N

\* Nobody works beside another on an undisturbed draft, and whoever inserted
\* his sections finds them there.
Backing(p) ==
  /\ p \notin drafts => covered[p] = None
  /\ p \notin disturbed =>
       /\ \A q, r \in AtWork(p) : q = r
       /\ \A r \in AtWork(p) : pc[r] = "cover" => <<r, job[r].content>> \in sections[p]
       /\ AtWork(p) = {} => covered[p] \in {None} \cup {s[2] : s \in sections[p]}

Drafting == TypeOK /\ \A p \in Policies : Mixing(p) /\ Backing(p)

\* A step that leaves p alone: nobody takes up work on its sections.
LeavesAlone(p) ==
  /\ sections'[p] = sections[p] /\ covered'[p] = covered[p]
  /\ drafts \subseteq drafts' /\ disturbed \subseteq disturbed'
  /\ Inserting(p)' \subseteq Inserting(p)
  /\ AtWork(p)' \subseteq AtWork(p)
  /\ \A r \in AtWork(p)' : pc'[r] = pc[r] /\ job'[r] = job[r]
  /\ p \in disturbed' \/ AtWork(p)' = AtWork(p)

LEMMA LeftAlone ==
  ASSUME Drafting, NEW p \in Policies, LeavesAlone(p)
  PROVE  Mixing(p)' /\ Backing(p)'
<1>1. Mixing(p)'
  <2>1. Inserting(p) \subseteq Requests
    BY DEF Inserting
  <2>2. PICK m \in Nat : m = Cardinality(Inserting(p))
    BY <2>1, SomeRequests
  <2>3. PICK n \in Nat : n = Cardinality(Inserting(p)') /\ n <= m
    BY <2>1, <2>2, SomeRequests, FewerRequests DEF LeavesAlone
  <2>4. PICK k \in Nat : k = Cardinality(sections[p])
    BY FS_CardinalityType DEF Drafting, Mixing
  <2>5. k + m <= N
    BY <2>2, <2>4 DEF Drafting, Mixing
  <2>6. k + n <= N
    BY <2>3, <2>5, RequestsFinite
  <2>7. QED
    BY <2>3, <2>4, <2>6 DEF Mixing, LeavesAlone, Drafting, N
<1>2. Backing(p)'
  BY DEF Drafting, Backing, LeavesAlone
<1>3. QED
  BY <1>1, <1>2

\* A step that neither saves nor covers leaves every draft alone.
LEMMA OthersLeaveAlone ==
  ASSUME TypeOK, NEW p \in Policies, UNCHANGED store,
         NEW r \in Requests, pc[r] \notin {"insert", "cover"},
         Answer(r) \/ (\E label \in Labels \ {"insert", "cover"} : Goto(r, label))
           \/ (\E q \in Policies \cup {None}, c \in Contents \cup {None},
                  label \in Labels \ {"insert", "cover"} : Begin(r, label, q, c))
  PROVE  LeavesAlone(p)
<1>1. pc'[r] \notin {"insert", "cover"}
  BY DEF Answer, Goto, Begin, TypeOK
<1>2. \A q \in Requests \ {r} : pc'[q] = pc[q] /\ job'[q] = job[q]
  BY DEF Answer, Goto, Begin, TypeOK
<1>3. Inserting(p)' = Inserting(p)
  BY <1>1, <1>2 DEF Inserting
<1>4. AtWork(p)' = AtWork(p)
  BY <1>1, <1>2 DEF AtWork
<1>5. \A q \in AtWork(p)' : pc'[q] = pc[q] /\ job'[q] = job[q]
  BY <1>1, <1>2 DEF AtWork
<1>6. QED
  BY <1>3, <1>4, <1>5 DEF LeavesAlone, store

\* A new draft, alone or with a document of it.
LEMMA DraftKeeps ==
  ASSUME Drafting, NEW r \in Requests, NEW p \in Policies, NEW c \in Contents,
         Draft(r, p, c), pc[r] = "idle",
         (UNCHANGED requests) \/ Begin(r, "store", p, c),
         NEW q \in Policies
  PROVE  Mixing(q)' /\ Backing(q)'
<1>1. \A u \in Requests \ {r} : pc'[u] = pc[u] /\ job'[u] = job[u]
  BY DEF Begin, requests, Drafting, TypeOK
<1>2. pc'[r] \in {"idle", "store"}
  BY DEF Begin, requests, Drafting, TypeOK
<1>3. AtWork(q)' = AtWork(q) /\ Inserting(q)' = Inserting(q)
  BY <1>1, <1>2 DEF AtWork, Inserting
<1>4. CASE q # p
  <2>1. LeavesAlone(q)
    BY <1>1, <1>2, <1>3, <1>4 DEF LeavesAlone, Draft, Drafting, TypeOK, AtWork
  <2>2. QED
    BY <2>1, LeftAlone
<1>5. CASE q = p /\ sections' = sections
  <2>1. LeavesAlone(q)
    BY <1>1, <1>2, <1>3, <1>5 DEF LeavesAlone, Draft, Drafting, TypeOK, AtWork
  <2>2. QED
    BY <2>1, LeftAlone
<1>6. CASE q = p /\ sections' = [sections EXCEPT ![p] = {<<r, c>>}]
  <2>1. AtWork(p) = {} /\ Inserting(p) = {}
    BY DEF Draft, Drafting, TypeOK, AtWork, Inserting
  <2>2. sections'[q] = {<<r, c>>} /\ covered'[q] = None
    BY <1>6 DEF Draft, Drafting, TypeOK, Backing
  <2>3. Mixing(q)'
    <3>1. IsFiniteSet({<<r, c>>}) /\ Cardinality({<<r, c>>}) = 1
      BY FS_Singleton
    <3>2. Cardinality(Inserting(q)') = 0
      BY <1>3, <1>6, <2>1, FS_EmptySet
    <3>3. 1 + 0 <= N
      BY RequestsFinite
    <3>4. QED
      BY <2>2, <3>1, <3>2, <3>3 DEF Mixing, N
  <2>4. Backing(q)'
    BY <1>3, <1>6, <2>1, <2>2 DEF Backing
  <2>5. QED
    BY <2>3, <2>4
<1>7. QED
  BY <1>4, <1>5, <1>6 DEF Draft

LEMMA DeletionKeeps ==
  ASSUME Drafting, NEW r \in Requests, DeleteSections(r), NEW q \in Policies
  PROVE  Mixing(q)' /\ Backing(q)'
<1> DEFINE p == job[r].policy
<1>1. p \in drafts /\ p \in Policies
  BY DEF DeleteSections, Drafting, TypeOK
<1>2. CASE Answer(r) /\ UNCHANGED <<sections, disturbed>>
  <2>1. LeavesAlone(q)
    BY <1>2, OthersLeaveAlone DEF DeleteSections, store, Drafting
  <2>2. QED
    BY <2>1, LeftAlone
<1>3. CASE Goto(r, "insert") /\ sections' = [sections EXCEPT ![p] = {}]
  <2>1. /\ \A u \in Requests \ {r} : pc'[u] = pc[u] /\ job'[u] = job[u]
        /\ pc'[r] = "insert" /\ job'[r] = job[r]
    BY <1>3 DEF Goto, Drafting, TypeOK
  <2>2. covered' = covered /\ drafts' = drafts
    BY DEF DeleteSections
  <2>3. disturbed' = IF AtWork(p) = {} THEN disturbed ELSE disturbed \cup {p}
    BY <1>3 DEF DeleteSections, Goto, Answer, Drafting, TypeOK
  <2>4. CASE q # p
    <3>1. AtWork(q)' = AtWork(q) /\ Inserting(q)' = Inserting(q)
      BY <2>1, <2>4 DEF AtWork, Inserting, DeleteSections
    <3>2. r \notin AtWork(q)
      BY <2>4 DEF AtWork
    <3>3. LeavesAlone(q)
      BY <1>3, <2>1, <2>2, <2>3, <2>4, <3>1, <3>2 DEF LeavesAlone, Drafting, TypeOK, AtWork
    <3>4. QED
      BY <3>3, LeftAlone
  <2>5. CASE q = p
    <3>1. sections'[p] = {}
      BY <1>1, <1>3 DEF Drafting, TypeOK
    <3>2. Mixing(q)'
      <4>1. IsFiniteSet({}) /\ Cardinality({}) = 0
        BY FS_EmptySet
      <4>2. Inserting(q)' \subseteq Requests
        BY DEF Inserting
      <4>3. Cardinality(Inserting(q)') \in 0..N
        BY <4>2, SomeRequests
      <4>4. 0 + Cardinality(Inserting(q)') <= N
        BY <4>3
      <4>5. QED
        BY <2>5, <3>1, <4>1, <4>4 DEF Mixing, N
    <3>3. AtWork(q)' = AtWork(p) \cup {r}
      BY <2>1, <2>5 DEF AtWork
    <3>4. Backing(q)'
      BY <1>1, <2>1, <2>2, <2>3, <2>5, <3>3 DEF Backing, AtWork
    <3>5. QED
      BY <3>2, <3>4
  <2>6. QED
    BY <2>4, <2>5
<1>4. QED
  BY <1>2, <1>3 DEF DeleteSections

LEMMA InsertionKeeps ==
  ASSUME Drafting, NEW r \in Requests, InsertSections(r), NEW q \in Policies
  PROVE  Mixing(q)' /\ Backing(q)'
<1> DEFINE p == job[r].policy
           c == job[r].content
<1>1. p \in drafts /\ p \in Policies /\ c \in Contents /\ r \in AtWork(p) /\ r \in Inserting(p)
  BY DEF InsertSections, Drafting, TypeOK, AtWork, Inserting
<1>2. covered' = covered /\ drafts' = drafts
  BY DEF InsertSections
<1>3. CASE /\ Answer(r) /\ sections' = sections
           /\ disturbed' = disturbed \cup {p}
  <2>1. /\ \A u \in Requests \ {r} : pc'[u] = pc[u] /\ job'[u] = job[u]
        /\ pc'[r] = "idle"
    BY <1>3 DEF Answer, Drafting, TypeOK
  <2>2. AtWork(q)' = AtWork(q) \ {r} /\ Inserting(q)' = Inserting(q) \ {r}
    BY <2>1 DEF AtWork, Inserting
  <2>3. q # p => r \notin AtWork(q)
    BY DEF AtWork
  <2>4. LeavesAlone(q)
    BY <1>2, <1>3, <2>1, <2>2, <2>3 DEF LeavesAlone, AtWork
  <2>5. QED
    BY <2>4, LeftAlone
<1>4. CASE /\ Goto(r, "cover") /\ disturbed' = disturbed
           /\ sections' = [sections EXCEPT ![p] = @ \cup {<<r, c>>}]
  <2>1. /\ \A u \in Requests \ {r} : pc'[u] = pc[u] /\ job'[u] = job[u]
        /\ pc'[r] = "cover" /\ job'[r] = job[r]
    BY <1>4 DEF Goto, Drafting, TypeOK
  <2>2. AtWork(q)' = AtWork(q)
    BY <2>1 DEF AtWork, InsertSections
  <2>3. CASE q # p
    <3>1. r \notin AtWork(q) /\ r \notin Inserting(q)
      BY <2>3 DEF AtWork, Inserting
    <3>2. Inserting(q)' = Inserting(q)
      BY <2>1, <2>3 DEF Inserting
    <3>3. LeavesAlone(q)
      BY <1>2, <1>4, <2>1, <2>2, <2>3, <3>1, <3>2 DEF LeavesAlone, Drafting, TypeOK, AtWork
    <3>4. QED
      BY <3>3, LeftAlone
  <2>4. CASE q = p
    <3>1. sections'[p] = sections[p] \cup {<<r, c>>}
      BY <1>1, <1>4 DEF Drafting, TypeOK
    <3>2. Mixing(q)'
      <4>1. /\ Inserting(q)' = Inserting(q) \ {r} /\ Inserting(q) \subseteq Requests
            /\ r \in Inserting(q) /\ sections'[q] = sections[q] \cup {<<r, c>>}
        BY <1>1, <2>1, <2>4, <3>1 DEF Inserting
      <4>2. PICK m \in Nat : m = Cardinality(Inserting(q))
        BY <4>1, SomeRequests
      <4>3. Cardinality(Inserting(q)') = m - 1
        BY <4>1, <4>2, SomeRequests, FS_RemoveElement
      <4>4. IsFiniteSet(sections[q])
        BY DEF Drafting, Mixing
      <4>5. PICK k \in Nat : k = Cardinality(sections[q])
        BY <4>4, FS_CardinalityType
      <4>6. k + m <= N
        BY <4>2, <4>5 DEF Drafting, Mixing
      <4>7. IsFiniteSet(sections'[q])
        <5>1. IsFiniteSet(sections[q] \cup {<<r, c>>})
          BY <4>4, FS_AddElement
        <5>2. QED
          BY <4>1, <5>1
      <4>8. PICK n \in {k, k + 1} : n = Cardinality(sections'[q])
        BY <4>1, <4>4, <4>5, FS_AddElement
      <4>9. n + (m - 1) <= N
        BY <4>2, <4>5, <4>6, <4>8, RequestsFinite
      <4>10. QED
        BY <4>3, <4>7, <4>8, <4>9 DEF Mixing, N
    <3>3. Backing(q)'
      <4>1. ASSUME p \notin disturbed PROVE AtWork(p) = {r}
        BY <1>1, <4>1 DEF Drafting, Backing
      <4>2. <<r, c>> \in sections'[p]
        BY <3>1
      <4>3. QED
        BY <1>1, <1>2, <1>4, <2>1, <2>2, <2>4, <4>1, <4>2 DEF Backing
    <3>4. QED
      BY <3>2, <3>3
  <2>5. QED
    BY <2>3, <2>4
<1>5. QED
  BY <1>3, <1>4 DEF InsertSections

LEMMA CoveringKeeps ==
  ASSUME Drafting, NEW r \in Requests, Cover(r), NEW q \in Policies
  PROVE  Mixing(q)' /\ Backing(q)'
<1> DEFINE p == job[r].policy
           c == job[r].content
<1>1. p \in drafts /\ p \in Policies /\ c \in Contents /\ r \in AtWork(p)
  BY DEF Cover, Drafting, TypeOK, AtWork
<1>2. sections' = sections /\ drafts' = drafts
  BY DEF Cover
<1>3. /\ \A u \in Requests \ {r} : pc'[u] = pc[u] /\ job'[u] = job[u]
      /\ pc'[r] = "store" /\ job'[r] = job[r]
  BY DEF Cover, Goto, Drafting, TypeOK
<1>4. AtWork(q)' = AtWork(q) \ {r} /\ Inserting(q)' = Inserting(q)
  BY <1>3 DEF AtWork, Inserting, Cover
<1>5. CASE q # p
  <2>1. r \notin AtWork(q)
    BY <1>5 DEF AtWork
  <2>2. covered'[q] = covered[q] /\ disturbed \subseteq disturbed'
    BY <1>5 DEF Cover, Drafting, TypeOK
  <2>3. LeavesAlone(q)
    BY <1>2, <1>3, <1>4, <2>1, <2>2 DEF LeavesAlone, AtWork
  <2>4. QED
    BY <2>3, LeftAlone
<1>6. CASE q = p /\ covered' = covered /\ disturbed' = disturbed \cup {p}
  <2>1. LeavesAlone(q)
    BY <1>2, <1>3, <1>4, <1>6 DEF LeavesAlone, AtWork
  <2>2. QED
    BY <2>1, LeftAlone
<1>7. CASE /\ q = p /\ disturbed' = disturbed
           /\ \E k \in {c, None} : covered' = [covered EXCEPT ![p] = k]
  <2>1. covered'[p] \in {c, None}
    BY <1>1, <1>7 DEF Drafting, TypeOK
  <2>2. Mixing(q)'
    BY <1>2, <1>4, <1>7 DEF Mixing, Drafting, N
  <2>3. ASSUME p \notin disturbed
        PROVE  AtWork(p) = {r} /\ <<r, c>> \in sections[p]
    BY <1>1, <2>3 DEF Drafting, Backing, Cover
  <2>4. ASSUME p \notin disturbed
        PROVE  covered'[p] \in {None} \cup {s[2] : s \in sections[p]}
    <3>1. <<r, c>>[2] = c
      OBVIOUS
    <3>2. c \in {s[2] : s \in sections[p]}
      BY <2>3, <2>4, <3>1
    <3>3. QED
      BY <2>1, <3>2
  <2>5. Backing(q)'
    BY <1>1, <1>2, <1>4, <1>7, <2>3, <2>4 DEF Backing
  <2>6. QED
    BY <2>2, <2>5
<1>8. QED
  BY <1>5, <1>6, <1>7 DEF Cover

LEMMA StepDrafting == Drafting /\ [Next]_vars => Drafting'
<1> SUFFICES ASSUME Drafting, [Next]_vars PROVE Drafting'
  OBVIOUS
<1>1. TypeOK'
  BY StepType DEF Drafting
<1>2. ASSUME NEW q \in Policies PROVE Mixing(q)' /\ Backing(q)'
  <2>1. ASSUME NEW r \in Requests, NEW p \in Policies, NEW c \in Contents,
               Preview(r, p, c) \/ CreateDocument(r, p, c)
        PROVE  Mixing(q)' /\ Backing(q)'
    BY <2>1, DraftKeeps DEF Preview, CreateDocument, LetThrough
  <2>2. ASSUME NEW r \in Requests, NEW p \in Policies, NEW c \in Contents,
               CreateGenerate(r, p, c)
        PROVE  LeavesAlone(q)
    BY <2>2, OthersLeaveAlone DEF CreateGenerate, LetThrough, Drafting, Labels
  <2>3. ASSUME NEW r \in Requests, OtherDocument(r) \/ MigrateDocument(r)
        PROVE  LeavesAlone(q)
    BY <2>3, OthersLeaveAlone DEF OtherDocument, MigrateDocument, LetThrough, Drafting, Labels
  <2>4. ASSUME NEW r \in Requests, Extract(r) \/ StoreDocument(r) \/ Charge(r)
        PROVE  LeavesAlone(q)
    BY <2>4, OthersLeaveAlone DEF Extract, StoreDocument, Charge, Drafting, Labels
  <2>5. ASSUME (\E p \in Plans : PlanChanges(p)) \/ MonthBegins \/ UNCHANGED vars
        PROVE  LeavesAlone(q)
    BY <2>5 DEF PlanChanges, MonthBegins, vars, store, requests, LeavesAlone, AtWork, Inserting
  <2>6. ASSUME Crash PROVE LeavesAlone(q)
    <3>1. AtWork(q)' = {} /\ Inserting(q)' = {}
      BY <2>6 DEF Crash, AtWork, Inserting
    <3>2. q \in disturbed' \/ AtWork(q) = {}
      BY <2>6 DEF Crash
    <3>3. QED
      BY <2>6, <3>1, <3>2 DEF Crash, LeavesAlone
  <2>7. QED
    BY <2>1, <2>2, <2>3, <2>4, <2>5, <2>6, LeftAlone, DeletionKeeps, InsertionKeeps,
      CoveringKeeps DEF Next
<1>3. QED
  BY <1>1, <1>2 DEF Drafting

LEMMA InitDrafting == Init => Drafting
<1> SUFFICES ASSUME Init PROVE \A p \in Policies : Mixing(p) /\ Backing(p)
  BY InitType DEF Drafting
<1> TAKE p \in Policies
<1>1. AtWork(p) = {} /\ Inserting(p) = {} /\ sections[p] = {} /\ covered[p] = None
  BY DEF Init, AtWork, Inserting
<1>2. IsFiniteSet({}) /\ Cardinality({}) = 0 /\ 0 + 0 <= N
  BY FS_EmptySet, RequestsFinite
<1>3. QED
  BY <1>1, <1>2 DEF Mixing, Backing

(***************************************************************************)
(* However saves of a draft overlap, its sections are those of at most as  *)
(* many saves as requests can be under way.                                *)
(***************************************************************************)
THEOREM BoundedMixingAlways == Spec => []BoundedMixing
<1>1. Drafting => BoundedMixing
  BY DEF Drafting, Mixing, BoundedMixing, N
<1>2. QED
  BY <1>1, InitDrafting, StepDrafting, PTL DEF Spec

(***************************************************************************)
(* The coverage of a draft is that of sections it has, unless two saves    *)
(* overlapped on it, or one failed or was lost between its deletion and    *)
(* the coverage.                                                           *)
(***************************************************************************)
THEOREM CoverageIsBackedAlways == Spec => []CoverageIsBacked
<1>1. Drafting => CoverageIsBacked
  BY DEF Drafting, Backing, CoverageIsBacked
<1>2. QED
  BY <1>1, InitDrafting, StepDrafting, PTL DEF Spec
=============================================================================
