----------------------------- MODULE RateLimiter -----------------------------
(***************************************************************************)
(* The limiter of the expensive surfaces (backend/core/ratelimit.py), for  *)
(* one key: a queue of the times of the hits it let through.  A thread     *)
(* reads the clock before it takes the lock, so that what it purges by and *)
(* appends may be older than what the queue holds already.                 *)
(***************************************************************************)
EXTENDS FiniteSets, Integers, Sequences

CONSTANTS
  Callers,    \* threads that call allow
  MaxHits,
  Window,     \* window_seconds
  MaxTime     \* bound: when the clock stops

ASSUME LimiterAssumption ==
  MaxHits \in Nat \ {0} /\ Window \in Nat /\ MaxTime \in Nat /\ IsFiniteSet(Callers)

VARIABLES
  clock,  \* time.monotonic()
  hits,   \* _hits[key]
  now,    \* now[c]: the time thread c has read, -1 when it is not in allow
  passed  \* history: how many hits of each time were let through

limiterVars == <<clock, hits, now, passed>>

LimiterInit ==
  /\ clock = 0 /\ hits = <<>>
  /\ now = [c \in Callers |-> -1]
  /\ passed = [t \in 0..MaxTime |-> 0]

Tick ==
  /\ clock < MaxTime
  /\ clock' = clock + 1
  /\ UNCHANGED <<hits, now, passed>>

ReadClock(c) ==
  /\ now[c] = -1
  /\ now' = [now EXCEPT ![c] = clock]
  /\ UNCHANGED <<clock, hits, passed>>

\* From the head, as long as it is older than the window.
Purged(queue, cutoff) ==
  LET keeps == {k \in DOMAIN queue : queue[k] >= cutoff}
      first == CHOOSE k \in keeps : \A j \in keeps : k <= j
  IN IF keeps = {} THEN <<>> ELSE SubSeq(queue, first, Len(queue))

\* What is done under the lock.
AllowCountingRefusals(c) ==
  LET queue == Purged(hits, now[c] - Window) IN
  /\ now[c] # -1
  /\ hits' = Append(queue, now[c])
  /\ passed' = IF Len(queue) >= MaxHits THEN passed
               ELSE [passed EXCEPT ![now[c]] = @ + 1]
  /\ now' = [now EXCEPT ![c] = -1]
  /\ UNCHANGED clock

Allow(c) ==
  LET queue == Purged(hits, now[c] - Window) IN
  /\ now[c] # -1
  /\ IF Len(queue) >= MaxHits
     THEN hits' = queue /\ UNCHANGED passed
     ELSE /\ hits' = Append(queue, now[c])
          /\ passed' = [passed EXCEPT ![now[c]] = @ + 1]
  /\ now' = [now EXCEPT ![c] = -1]
  /\ UNCHANGED clock

LimiterNext == Tick \/ \E c \in Callers : ReadClock(c) \/ Allow(c)

LimiterSpec == LimiterInit /\ [][LimiterNext]_limiterVars
-----------------------------------------------------------------------------
(***************************************************************************)
(* "False when it exceeded max_hits in window" (ratelimit.py:19): of the   *)
(* times in a window not many more hits are let through; a thread whose    *)
(* time is an old one by then may find the queue purged by a later one,    *)
(* and there are only so many threads.  Nor is a key locked out: hits are  *)
(* queued no later than their time, so that whoever calls a window after   *)
(* the last one finds the queue empty, in whatever order they were queued. *)
(***************************************************************************)
Passed(times) == UNION {{t} \X (1..passed[t]) : t \in times \cap DOMAIN passed}
HitsIn(times) == Cardinality(Passed(times))

FewExceedTheWindow ==
  \A t \in 0..MaxTime :
    HitsIn((t - Window)..t) <= MaxHits + Cardinality(Callers) - 1

QuietClears ==
  \A t \in DOMAIN passed :
    Purged(hits, t - Window) # <<>> => HitsIn((t - Window)..MaxTime) > 0

WindowIsKept == FewExceedTheWindow /\ QuietClears
=============================================================================
