------------------------------ MODULE Onboarding ------------------------------
(***************************************************************************)
(* How a workspace comes to be and is set up: the first sign-in founds a   *)
(* tenant for whoever has no profile (backend/api/main.py), the answers of *)
(* the onboarding go into its session, and activating it replaces its rows *)
(* of enabled_modules (backend/api/routes.py, backend/storage/file_store.  *)
(* py).  All handlers are coroutines that await nothing: one at a time on  *)
(* a host, and two hosts overlap during a deploy.                          *)
(***************************************************************************)
EXTENDS FiniteSets, Integers, SequencesExt

CONSTANTS
  Newcomers,   \* users without a profile, whose company has one slug
  Hosts,
  Answers,     \* what a session can say, besides the modules
  ModuleLists, \* lists of modules that are asked for
  Keep,        \* a field an update leaves as it is, or nobody filled in
  MaxFailures  \* bound: handlers that break off

ASSUME OnboardingAssumption ==
  /\ IsFiniteSet(Newcomers) /\ IsFiniteSet(Hosts) /\ Hosts # {} /\ MaxFailures \in Nat
  /\ Keep \notin Answers \cup ModuleLists

VARIABLES
  workspaces, \* tenants by their slugs: n is "<name>-<n>"
  homeOf,     \* homeOf[u]: profiles.tenant_id, 0 without a profile
  sessions,   \* rows of onboarding_sessions in the order of created_at
  enabled,    \* rows of enabled_modules: <<tenant, module>>
  serving,    \* serving[h]: what the handler on host h is about to do
  failures,   \* handlers that broke off
  contested,  \* history: tenants two handlers were busy with at a time
  said,       \* history: said[t]: what the updates of its session said
  activated   \* history: activated[t]: the modules of the last activation, and
              \* whether it broke off after it deleted those before; these two
              \* are not kept of what is contested

onboardVars ==
  <<workspaces, homeOf, sessions, enabled, serving, failures, contested, said, activated>>
histories == <<contested, said, activated>>

\* A failed or a lost sign-in leaves a tenant, so there are no more than these.
Workspaces == 1..(Cardinality(Newcomers) * Cardinality(Hosts) + MaxFailures)
Unsaid == [answers |-> Keep, modules |-> Keep]
Saying(answers, modules) == [answers |-> answers, modules |-> modules]
Changed(row, update) ==
  [row EXCEPT !.answers = IF update.answers = Keep THEN @ ELSE update.answers,
              !.modules = IF update.modules = Keep THEN @ ELSE update.modules]

NotActivated == [modules |-> {}, broken |-> FALSE]
NoCall == [step |-> "idle", tenant |-> 0, user |-> Keep, row |-> 0, update |-> Unsaid,
           activates |-> FALSE]
Serve(h, task) == serving' = [serving EXCEPT ![h] = task]
Then(h, step) == serving' = [serving EXCEPT ![h].step = step]
Answered(h) == Serve(h, NoCall)

\* The newest session of t, 0 when it has none.
Newest(t) == SelectLastInSeq(sessions, LAMBDA row : row.tenant = t)
ModulesOf(t) == {row \in enabled : row[1] = t}

OnboardInit ==
  /\ workspaces = {} /\ sessions = <<>> /\ enabled = {} /\ failures = 0
  /\ homeOf = [u \in Newcomers |-> 0]
  /\ serving = [h \in Hosts |-> NoCall]
  /\ contested = {}
  /\ said = [t \in Workspaces |-> Unsaid]
  /\ activated = [t \in Workspaces |-> NotActivated]
-----------------------------------------------------------------------------
(* exchange_token, _provision_oauth_workspace *)

\* _generate_unique_org_slug
FreeSlugs == {n \in Workspaces \ workspaces : 1..(n - 1) \subseteq workspaces}

\* Whoever has a profile is let in.
SignIn(h, u) ==
  /\ serving[h].step = "idle" /\ homeOf[u] = 0
  /\ \E n \in FreeSlugs :
       Serve(h, [NoCall EXCEPT !.step = "tenant", !.tenant = n, !.user = u])
  /\ UNCHANGED <<workspaces, homeOf, sessions, enabled, failures, histories>>

\* The slug is unique: the insert fails when another took it.
InsertTenant(h) ==
  /\ serving[h].step = "tenant"
  /\ workspaces' = workspaces \cup {serving[h].tenant}
  /\ IF serving[h].tenant \in workspaces THEN Answered(h) ELSE Then(h, "profile")
  /\ UNCHANGED <<homeOf, sessions, enabled, failures, histories>>

\* And so is the profile of a user.
InsertProfile(h) ==
  LET u == serving[h].user IN
  /\ serving[h].step = "profile"
  /\ IF homeOf[u] = 0
     THEN homeOf' = [homeOf EXCEPT ![u] = serving[h].tenant] /\ Then(h, "session")
     ELSE Answered(h) /\ UNCHANGED homeOf
  /\ UNCHANGED <<workspaces, sessions, enabled, failures, histories>>

Opened(t) == sessions' = Append(sessions, [tenant |-> t, holds |-> Unsaid])

InsertSession(h) ==
  /\ serving[h].step = "session"
  /\ Opened(serving[h].tenant) /\ Answered(h)
  /\ UNCHANGED <<workspaces, homeOf, enabled, failures, histories>>
-----------------------------------------------------------------------------
(* update_onboarding_session *)

\* save_current_onboarding_session, update_org_onboarding, activate_org: each
\* reads the newest session first.  Bound: nothing is claimed of a contested
\* tenant, which is not updated any more.
BeginSession(h, t, update, activates) ==
  /\ serving[h].step = "idle" /\ \E u \in Newcomers : homeOf[u] = t
  /\ t \notin contested
  /\ Serve(h, [NoCall EXCEPT !.step = IF Newest(t) = 0 THEN "create" ELSE "patch",
                             !.tenant = t, !.row = Newest(t), !.update = update,
                             !.activates = activates])
  /\ IF \E g \in Hosts : serving[g].tenant = t
     THEN /\ contested' = contested \cup {t}
          /\ said' = [said EXCEPT ![t] = Unsaid]
          /\ activated' = [activated EXCEPT ![t] = NotActivated]
     ELSE UNCHANGED histories
  /\ UNCHANGED <<workspaces, homeOf, sessions, enabled, failures>>

CreateSession(h) ==
  /\ serving[h].step = "create"
  /\ Opened(serving[h].tenant)
  /\ Serve(h, [serving[h] EXCEPT !.step = "patch", !.row = Len(sessions) + 1])
  /\ UNCHANGED <<workspaces, homeOf, enabled, failures, histories>>

PatchSession(h) ==
  LET task == serving[h] IN
  /\ task.step = "patch"
  /\ sessions' = [sessions EXCEPT ![task.row].holds = Changed(@, task.update)]
  /\ said' = IF task.tenant \in contested THEN said
             ELSE [said EXCEPT ![task.tenant] = Changed(@, task.update)]
  /\ IF task.activates THEN Then(h, "modules") ELSE Answered(h)
  /\ UNCHANGED <<workspaces, homeOf, enabled, failures, contested, activated>>
-----------------------------------------------------------------------------
(* replace_enabled_modules *)

AfterReadingAlone(t) == "insert"
AfterReading(t) == IF ModulesOf(t) = {} THEN "insert" ELSE "delete"

ReadModules(h) ==
  /\ serving[h].step = "modules"
  /\ Then(h, AfterReading(serving[h].tenant))
  /\ UNCHANGED <<workspaces, homeOf, sessions, enabled, failures, histories>>

DeleteModules(h) ==
  /\ serving[h].step = "delete"
  /\ enabled' = enabled \ ModulesOf(serving[h].tenant)
  /\ Then(h, "insert")
  /\ UNCHANGED <<workspaces, homeOf, sessions, failures, histories>>

\* A module is enabled once: of a list that names one twice, or one that is
\* enabled, no row is inserted.
InsertModules(h) ==
  LET t == serving[h].tenant
      list == serving[h].update.modules
      rows == {t} \X ToSet(list)
      inserts == IsInjective(list) /\ rows \cap enabled = {}
  IN
  /\ serving[h].step = "insert" /\ Answered(h)
  /\ enabled' = IF inserts THEN enabled \cup rows ELSE enabled
  /\ activated' = IF t \in contested THEN activated
                  ELSE [activated EXCEPT ![t] =
                          [modules |-> IF inserts THEN ToSet(list) ELSE @.modules,
                           broken |-> ~inserts]]
  /\ UNCHANGED <<workspaces, homeOf, sessions, failures, contested, said>>

\* A call fails, or its answer is lost, or the process stops: what the handler
\* has done until then stays.
BreakOff(h) ==
  LET task == serving[h] IN
  /\ task.step # "idle" /\ failures < MaxFailures
  /\ failures' = failures + 1 /\ Answered(h)
  /\ activated' = IF task.step # "insert" \/ task.tenant \in contested THEN activated
                  ELSE [activated EXCEPT ![task.tenant].broken = TRUE]
  /\ UNCHANGED <<workspaces, homeOf, sessions, enabled, contested, said>>

OnboardNext ==
  \E h \in Hosts :
    \/ \E u \in Newcomers : SignIn(h, u)
    \/ InsertTenant(h) \/ InsertProfile(h) \/ InsertSession(h)
    \/ \E t \in Workspaces :
         \/ \E answers \in Answers : BeginSession(h, t, Saying(answers, Keep), FALSE)
         \/ \E list \in ModuleLists, activates \in BOOLEAN :
              BeginSession(h, t, Saying(Keep, list), activates)
    \/ CreateSession(h) \/ PatchSession(h)
    \/ ReadModules(h) \/ DeleteModules(h) \/ InsertModules(h) \/ BreakOff(h)

OnboardSpec == OnboardInit /\ [][OnboardNext]_onboardVars
-----------------------------------------------------------------------------
(***************************************************************************)
(* A workspace nobody is in comes of a sign-in that broke off, or lost     *)
(* against another one of the same user (main.py:777-796).                 *)
(***************************************************************************)
Deserted ==
  {n \in workspaces : /\ \A u \in Newcomers : homeOf[u] # n
                      /\ \A h \in Hosts : serving[h].step = "profile" => serving[h].tenant # n}

DesertionIsRare ==
  Cardinality(Deserted) <= failures + Cardinality(Newcomers) * (Cardinality(Hosts) - 1)

(***************************************************************************)
(* The session that is read is the one that holds everything that was      *)
(* said, whichever handler created it and whatever broke off, unless two   *)
(* handlers were busy with the tenant at a time (file_store.py:794-809).   *)
(***************************************************************************)
NothingSaidIsLost ==
  \A t \in workspaces \ contested :
    said[t] # Unsaid => Newest(t) # 0 /\ sessions[Newest(t)].holds = said[t]

(***************************************************************************)
(* The modules that are enabled are those of the last activation that was  *)
(* carried out, all of them or, once they were deleted for another that    *)
(* broke off or was refused, none; another activation makes up for that    *)
(* (file_store.py:812-832).                                                *)
(***************************************************************************)
Replacing(t) ==
  \E h \in Hosts : serving[h].step = "insert" /\ serving[h].tenant = t

EnabledAsActivated ==
  \A t \in workspaces \ contested :
    LET modules == {row[2] : row \in ModulesOf(t)} IN
    \/ modules = activated[t].modules /\ ~activated[t].broken
    \/ modules = {} /\ (activated[t].broken \/ Replacing(t))

\* What becomes of a first sign-in and of what is set up after it.
OnboardingIsKept == DesertionIsRare /\ NothingSaidIsLost /\ EnabledAsActivated
=============================================================================
