----------------------------- MODULE MC_FollowUp -----------------------------
(* The Jira automation of a tenant, the requests its people file, the        *)
(* limiter of a key, and the Stripe webhook, for TLC: they have no variable  *)
(* in common, so that it explores them one after another.                    *)
EXTENDS MC_JiraAutomation, WorkRequests, RateLimiter, StripeBilling

CONSTANTS free, pro

VARIABLE part  \* the part that is looked at

\* A tenant that takes out a second subscription of the tier it has.
SameTier == [s \in Subs |-> pro]

\* Jira starts in more than one state, which matters to it only.
FollowUpInit ==
  /\ part \in {"jira", "work", "limiter", "billing"}
  /\ Init /\ WorkInit /\ LimiterInit /\ BillingInit
  /\ part # "jira" => gap = {} /\ ~autoPush

Only(name) == part = name /\ UNCHANGED part

\* The requests, the limiter and Stripe rest at their bounds.
FollowUpNext ==
  \/ Only("jira") /\ Next /\ UNCHANGED <<workVars, limiterVars, billingVars>>
  \/ Only("work") /\ WorkNext /\ UNCHANGED <<vars, limiterVars, billingVars>>
  \/ Only("limiter") /\ LimiterNext /\ UNCHANGED <<vars, workVars, billingVars>>
  \/ Only("billing") /\ BillingNext /\ UNCHANGED <<vars, workVars, limiterVars>>
  \/ part # "jira" /\ UNCHANGED <<part, vars, workVars, limiterVars, billingVars>>

FollowUpSpec ==
  FollowUpInit /\ [][FollowUpNext]_<<part, vars, workVars, limiterVars, billingVars>>
=============================================================================
