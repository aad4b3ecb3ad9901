------------------------------- MODULE Quota -------------------------------
(***************************************************************************)
(* What a metered plan promises (backend/billing_plans.py): in a period,   *)
(* work is admitted against a finite allowance and then charged to it.     *)
(* Counting and admitting are one step, charging is a later one, so the    *)
(* allowance can be overrun, by less than the number of workers.           *)
(***************************************************************************)
EXTENDS Integers, TLAPS

CONSTANTS
  Allowances,  \* the allowances a plan can set
  Slots        \* how many pieces of work can be under way at a time

\* What an implementation has to provide.
QuotaAssumption ==
  /\ Allowances \subseteq Nat \ {0}
  /\ Slots \in Nat \ {0}

VARIABLES
  ceiling,     \* the largest allowance in force in this period
  used,        \* charged in this period
  pending      \* admitted, not yet charged

vars == <<ceiling, used, pending>>

Init ==
  /\ ceiling \in Allowances
  /\ used = 0
  /\ pending = 0

Admit ==
  /\ used < ceiling
  /\ pending < Slots
  /\ pending' = pending + 1
  /\ UNCHANGED <<ceiling, used>>

Charge ==
  /\ pending > 0
  /\ pending' = pending - 1
  /\ used' = used + 1
  /\ UNCHANGED ceiling

\* Work that failed, or was lost with its process, is not charged.
Abandon ==
  /\ pending' \in 0..pending
  /\ UNCHANGED <<ceiling, used>>

Raise ==
  /\ ceiling' \in Allowances
  /\ ceiling' >= ceiling
  /\ UNCHANGED <<used, pending>>

NewPeriod ==
  /\ ceiling' \in Allowances
  /\ used' = 0
  /\ UNCHANGED pending

Next == Admit \/ Charge \/ Abandon \/ Raise \/ NewPeriod

Spec == Init /\ [][Next]_vars
-----------------------------------------------------------------------------
TypeOK ==
  /\ ceiling \in Allowances
  /\ used \in Nat
  /\ pending \in 0..Slots

\* The allowance is overrun by less than the number of slots.
BoundedOverrun == used + pending <= ceiling + Slots - 1

(***************************************************************************)
(* The bound is inductive: a slot is only taken while used < ceiling, and  *)
(* a new period starts with at most Slots pending and an allowance of at   *)
(* least one.                                                              *)
(***************************************************************************)
THEOREM QuotaBounded ==
  ASSUME QuotaAssumption
  PROVE  Spec => [](TypeOK /\ BoundedOverrun)
<1>1. Init => TypeOK /\ BoundedOverrun
  BY DEF QuotaAssumption, Init, TypeOK, BoundedOverrun
<1>2. TypeOK /\ BoundedOverrun /\ [Next]_vars => TypeOK' /\ BoundedOverrun'
  <2> SUFFICES ASSUME TypeOK, BoundedOverrun, [Next]_vars
               PROVE  TypeOK' /\ BoundedOverrun'
    OBVIOUS
  <2>1. /\ \A c \in Allowances : c \in Nat /\ c >= 1
        /\ ceiling \in Nat /\ used \in Nat /\ pending \in Nat /\ Slots \in Nat
        /\ pending <= Slots
        /\ used + pending <= ceiling + Slots - 1
    BY DEF QuotaAssumption, TypeOK, BoundedOverrun
  <2>2. TypeOK'
    BY <2>1 DEF TypeOK, Next, vars, Admit, Charge, Abandon, Raise, NewPeriod
  <2>3. ASSUME Admit PROVE BoundedOverrun'
    BY <2>1, <2>3 DEF Admit, BoundedOverrun
  <2>4. ASSUME Charge PROVE BoundedOverrun'
    BY <2>1, <2>4 DEF Charge, BoundedOverrun
  <2>5. ASSUME Abandon PROVE BoundedOverrun'
    <3>1. PICK n \in 0..pending : pending' = n
      BY <2>5 DEF Abandon
    <3>2. n \in Nat /\ n <= pending
      BY <2>1
    <3>3. used + n <= ceiling + Slots - 1
      BY <2>1, <3>2
    <3>4. QED
      BY <2>5, <3>1, <3>3 DEF Abandon, BoundedOverrun
  <2>6. ASSUME Raise PROVE BoundedOverrun'
    BY <2>1, <2>6 DEF Raise, BoundedOverrun
  <2>7. ASSUME NewPeriod PROVE BoundedOverrun'
    BY <2>1, <2>7 DEF NewPeriod, BoundedOverrun
  <2>8. ASSUME UNCHANGED vars PROVE BoundedOverrun'
    BY <2>8 DEF vars, BoundedOverrun
  <2>9. QED
    BY <2>2, <2>3, <2>4, <2>5, <2>6, <2>7, <2>8 DEF Next
<1>3. QED
  BY <1>1, <1>2, PTL DEF Spec
=============================================================================
