------------------------------ MODULE ApiKeys ------------------------------
(***************************************************************************)
(* The API keys of one tenant (backend/api/api_keys_router.py and          *)
(* backend/integrations/api_keys.py).  Minting counts the active keys on   *)
(* the page that list_keys returns and then inserts a key; the handlers    *)
(* are plain functions, so several run at a time on the thread pool.  The  *)
(* limiter lets any number of keys be minted, given the hours for it.      *)
(***************************************************************************)
EXTENDS FiniteSets, Integers, Sequences

CONSTANTS
  Threads,
  MaxActiveKeys,  \* MAX_ACTIVE_KEYS
  PageSize,       \* the limit of list_keys
  MaxKeys         \* bound: keys minted in a behaviour

\* What the limits are to be.
LimitsAssumption ==
  /\ IsFiniteSet(Threads) /\ Threads # {}
  /\ MaxActiveKeys \in Nat \ {0}
  /\ PageSize \in Nat \ {0}
  /\ MaxKeys \in Nat

VARIABLES
  keys,  \* api_keys in the order of created_at: "active" or "revoked"
  pc

vars == <<keys, pc>>

Init ==
  /\ keys = <<>>
  /\ pc = [t \in Threads |-> "idle"]

\* list_keys: the newest rows, revoked or not.
Listed == {i \in 1..Len(keys) : i > Len(keys) - PageSize}
ActiveAmong(rows) == {i \in rows : keys[i] = "active"}

HasRoomAtMost == Cardinality(ActiveAmong(Listed)) <= MaxActiveKeys
HasRoom == Cardinality(ActiveAmong(Listed)) < MaxActiveKeys

\* create_key up to the insert; a 409 changes nothing.
CountKeys(t) ==
  /\ pc[t] = "idle"
  /\ HasRoom
  /\ pc' = [pc EXCEPT ![t] = "mint"]
  /\ UNCHANGED keys

\* mint_key; an insert that fails is a 503.
MintKeyUnset(t) ==
  /\ pc[t] = "mint"
  /\ \/ Len(keys) < MaxKeys /\ keys' = Append(keys, "unset")
     \/ UNCHANGED keys
  /\ pc' = [pc EXCEPT ![t] = "idle"]

MintKey(t) ==
  /\ pc[t] = "mint"
  /\ \/ Len(keys) < MaxKeys /\ keys' = Append(keys, "active")
     \/ UNCHANGED keys
  /\ pc' = [pc EXCEPT ![t] = "idle"]

\* revoke_key, of any key that is not revoked yet.
RevokeKey(i) ==
  /\ i \in ActiveAmong(1..Len(keys))
  /\ keys' = [keys EXCEPT ![i] = "revoked"]
  /\ UNCHANGED pc

Crash ==
  /\ pc' = [t \in Threads |-> "idle"]
  /\ UNCHANGED keys

Next ==
  \/ Crash
  \/ \E t \in Threads : CountKeys(t) \/ MintKey(t)
  \/ \E i \in 1..Len(keys) : RevokeKey(i)

Spec == Init /\ [][Next]_vars
-----------------------------------------------------------------------------
TypeOK ==
  /\ keys \in Seq({"active", "revoked"})
  /\ pc \in [Threads -> {"idle", "mint"}]

(***************************************************************************)
(* However many mints run at a time and whatever is revoked between them,  *)
(* the page shows at most MAX_ACTIVE_KEYS active keys, and one more for    *)
(* each further thread.                                                    *)
(***************************************************************************)
Minting == {t \in Threads : pc[t] = "mint"}

ListedKeysCapped ==
  Cardinality(ActiveAmong(Listed)) + Cardinality(Minting)
    <= MaxActiveKeys + Cardinality(Threads) - 1
=============================================================================
