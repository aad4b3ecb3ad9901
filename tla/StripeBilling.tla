---------------------------- MODULE StripeBilling ----------------------------
(***************************************************************************)
(* How the plan of one tenant follows its Stripe subscriptions             *)
(* (backend/api/stripe_router.py).  Stripe keeps an event until the        *)
(* webhook has answered it with 200 and delivers it again otherwise.  The  *)
(* webhook awaits nothing once it has the body, so an event loop serves    *)
(* one delivery at a time; during a deploy two loops overlap.              *)
(* Deliveries that carry no valid signature change nothing.                *)
(***************************************************************************)
EXTENDS Integers, Sequences

CONSTANTS
  Loops,     \* event loops serving POST /billing/webhook
  Subs,      \* subscriptions the tenant can take out
  Plans,
  FreePlan,
  SoldAs,    \* SoldAs[s]: the tier in the metadata of subscription s
  MaxEvents, \* bound: events Stripe emits in a behaviour
  BillingFaults

BillingFaultKinds ==
  { "reorder",    \* Stripe delivers an event before an older one is answered
    "duplicate",  \* Stripe delivers an event it has had a 200 for
    "timeout",    \* Stripe delivers again what a loop is still working on
    "activate",   \* updating tenants.plan_type fails: 500
    "ledger",     \* reading or inserting processed_stripe_events fails
    "crash" }     \* the process stops

ASSUME SubsAssumption ==
  FreePlan \in Plans /\ SoldAs \in [Subs -> Plans \ {FreePlan}]
ASSUME BoundAssumption == MaxEvents \in Nat
ASSUME BillingFaultsAssumption == BillingFaults \subseteq BillingFaultKinds

VARIABLES
  stripe,   \* the events Stripe has emitted, each with the plan due after it
  owed,     \* those it has had no 200 for
  plan,     \* tenants.plan_type
  ledger,   \* processed_stripe_events
  webhook,
  holds     \* the event a loop is serving, 0 before the first

external == <<stripe, owed>>
billingVars == <<external, plan, ledger, webhook, holds>>

Activating == {"checkout.session.completed", "customer.subscription.updated"}
Types == Activating \cup {"customer.subscription.deleted", "invoice.paid"}

BillingFault(kind) == kind \in BillingFaults
ToStep(l, label) == webhook' = [webhook EXCEPT ![l] = label]
Emitted == 1..Len(stripe)
Told(s, type) == \E e \in Emitted : stripe[e].sub = s /\ stripe[e].type = type
Live(s) ==
  /\ Told(s, "checkout.session.completed")
  /\ ~Told(s, "customer.subscription.deleted")

\* _handle_stripe_event: the plan the tenant has once an event is handled.
Handled(type, s, current) ==
  IF type \in Activating THEN SoldAs[s]
  ELSE IF type = "customer.subscription.deleted" THEN FreePlan
  ELSE current

\* The plan the first e events amount to.
Due(e) == IF e = 0 THEN FreePlan ELSE stripe[e].due

BillingInit ==
  /\ stripe = <<>>
  /\ owed = {}
  /\ plan = FreePlan
  /\ ledger = {}
  /\ webhook = [l \in Loops |-> "idle"]
  /\ holds = [l \in Loops |-> 0]
-----------------------------------------------------------------------------
(* Stripe *)

Emit(s, type) ==
  /\ Len(stripe) < MaxEvents
  /\ stripe' = Append(stripe,
                      [sub |-> s, type |-> type,
                       due |-> Handled(type, s, Due(Len(stripe)))])
  /\ owed' = owed \cup {Len(stripe) + 1}
  /\ UNCHANGED <<plan, ledger, webhook, holds>>

\* The session create_checkout_session made is paid.  The tenant and the tier
\* travel on it and on the subscription, for good.
CheckoutCompletes(s) ==
  ~Told(s, "checkout.session.completed") /\ Emit(s, "checkout.session.completed")

SubscriptionChanges(s) ==
  \E type \in Types \ {"checkout.session.completed"} : Live(s) /\ Emit(s, type)

InTurn(e) == e \in owed /\ (BillingFault("reorder") \/ \A d \in owed : e <= d)
InHand(e) == \E l \in Loops : webhook[l] # "idle" /\ holds[l] = e

Deliver(l, e) ==
  /\ webhook[l] = "idle"
  /\ e \in Emitted
  /\ InTurn(e) \/ (e \notin owed /\ BillingFault("duplicate"))
  /\ InHand(e) => BillingFault("timeout")
  /\ holds' = [holds EXCEPT ![l] = e]
  /\ ToStep(l, "lookup")
  /\ UNCHANGED <<external, plan, ledger>>
-----------------------------------------------------------------------------
(* stripe_webhook *)

\* _already_processed: an event it cannot look up counts as new.
LookupFailsClosed(l) ==
  /\ webhook[l] = "lookup"
  /\ \/ (holds[l] \in ledger \/ BillingFault("ledger")) /\ ToStep(l, "respond")
     \/ holds[l] \notin ledger /\ ToStep(l, "activate")
  /\ UNCHANGED <<external, plan, ledger, holds>>

Lookup(l) ==
  /\ webhook[l] = "lookup"
  /\ \/ holds[l] \in ledger /\ ToStep(l, "respond")
     \/ (holds[l] \notin ledger \/ BillingFault("ledger")) /\ ToStep(l, "activate")
  /\ UNCHANGED <<external, plan, ledger, holds>>

\* _activate_plan, for the types that have a plan to set.
ActivateSwallowing(l) ==
  /\ webhook[l] = "activate"
  /\ LET event == stripe[holds[l]] IN
     \/ plan' = Handled(event.type, event.sub, plan) /\ ToStep(l, "mark")
     \/ /\ BillingFault("activate") /\ event.type # "invoice.paid"
        /\ ToStep(l, "respond")
        /\ UNCHANGED plan
  /\ UNCHANGED <<external, ledger, holds>>

Activate(l) ==
  /\ webhook[l] = "activate"
  /\ LET event == stripe[holds[l]] IN
     \/ plan' = Handled(event.type, event.sub, plan) /\ ToStep(l, "mark")
     \/ /\ BillingFault("activate") /\ event.type # "invoice.paid"
        /\ ToStep(l, "idle")
        /\ UNCHANGED plan
  /\ UNCHANGED <<external, ledger, holds>>

\* _mark_processed swallows its failure.
Mark(l) ==
  /\ webhook[l] = "mark"
  /\ \/ ledger' = ledger \cup {holds[l]}
     \/ BillingFault("ledger") /\ UNCHANGED ledger
  /\ ToStep(l, "respond")
  /\ UNCHANGED <<external, plan, holds>>

Respond(l) ==
  /\ webhook[l] = "respond"
  /\ owed' = owed \ {holds[l]}
  /\ ToStep(l, "idle")
  /\ UNCHANGED <<stripe, plan, ledger, holds>>

ServerStops ==
  /\ BillingFault("crash")
  /\ webhook' = [l \in Loops |-> "idle"]
  /\ UNCHANGED <<external, plan, ledger, holds>>
-----------------------------------------------------------------------------
WebhookStep(l) == Lookup(l) \/ Activate(l) \/ Mark(l) \/ Respond(l)

BillingNext ==
  \/ \E s \in Subs : CheckoutCompletes(s) \/ SubscriptionChanges(s)
  \/ \E l \in Loops : \E e \in Emitted : Deliver(l, e)
  \/ \E l \in Loops : WebhookStep(l)
  \/ ServerStops

BillingSpec == BillingInit /\ [][BillingNext]_billingVars

(***************************************************************************)
(* Stripe goes on delivering what it has no 200 for, the loops go on, the  *)
(* database does not fail an event for ever, and the processes are not     *)
(* restarted for ever.                                                     *)
(***************************************************************************)
FairBillingSpec ==
  /\ BillingSpec
  /\ <>[][~ServerStops]_billingVars
  /\ \A l \in Loops : WF_billingVars(WebhookStep(l))
  /\ \A e \in 1..MaxEvents :
       /\ SF_billingVars(\E l \in Loops : Deliver(l, e) /\ e \in owed)
       /\ SF_billingVars(\E l \in Loops : Activate(l) /\ holds[l] = e /\ webhook'[l] = "mark")
-----------------------------------------------------------------------------
BillingTypeOK ==
  /\ stripe \in Seq([sub : Subs, type : Types, due : Plans])
  /\ owed \subseteq Emitted
  /\ plan \in Plans
  /\ ledger \subseteq Emitted
  /\ webhook \in [Loops -> {"idle", "lookup", "activate", "mark", "respond"}]
  /\ holds \in [Loops -> 0..Len(stripe)]
  /\ \A l \in Loops : webhook[l] # "idle" => holds[l] # 0

Settled == owed = {} /\ \A l \in Loops : webhook[l] = "idle"

(***************************************************************************)
(* When events come in turn and the ledger works, the tenant is never on   *)
(* another plan than the one the answered events amount to, or those and   *)
(* the next: neither a crash between activating and recording, nor a       *)
(* failed activation, nor a duplicate brings an older plan back.           *)
(***************************************************************************)
Reached(k) ==
  /\ \A d \in owed : k <= d
  /\ \A d \in Emitted \ owed : d <= k

PlanFollowsStripe == \E k \in 0..Len(stripe) : Reached(k) /\ plan = Due(k)

(***************************************************************************)
(* "Setting the same plan twice is harmless" (stripe_router.py:10): a      *)
(* tenant that was sold one tier and never cancelled is on that tier from  *)
(* the first payment on that Stripe has its answer for, or that is         *)
(* recorded and so will not be handled again, in whatever order, however   *)
(* often, and to whichever loop the events come, also while a loop is at   *)
(* work on one, and although the ledger may fail (:98-125).                *)
(***************************************************************************)
SameTierIsHarmless ==
  \A p \in Plans :
    (\A e \in Emitted : /\ stripe[e].type # "customer.subscription.deleted"
                        /\ SoldAs[stripe[e].sub] = p)
    => \A e \in Emitted :
         stripe[e].type \in Activating /\ (e \notin owed \/ e \in ledger) => plan = p

(***************************************************************************)
(* No paid activation is dropped: every event Stripe emits is handled in   *)
(* the end (stripe_router.py:174).                                         *)
(***************************************************************************)
EveryEventIsHandled == \A e \in 1..MaxEvents : e \in owed ~> e \in ledger

(***************************************************************************)
(* The webhook "downgrades on subscription cancellation"                   *)
(* (stripe_router.py:8-9): a tenant without a live subscription is on the  *)
(* free plan once Stripe has all its answers.                              *)
(***************************************************************************)
CancelledIsFree == Settled /\ (\A s \in Subs : ~Live(s)) => plan = FreePlan
=============================================================================
