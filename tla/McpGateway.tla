----------------------------- MODULE McpGateway -----------------------------
(***************************************************************************)
(* The gateway for AI connectors, POST /mcp (backend/api/mcp_gateway.py),  *)
(* composed of the tenant's keys (ApiKeys) and of the metering of its runs *)
(* (RunMetering).  A request is let in by a key; the key is looked up      *)
(* once, before the body is awaited, and the body may be a batch with any  *)
(* number of calls of answer_questions.  Keys are minted and revoked on    *)
(* the thread pool meanwhile, and the pool's own questionnaires need none. *)
(***************************************************************************)
EXTENDS RunMetering, Sequences

CONSTANTS
  Minters,        \* pool threads serving POST /api-keys
  MaxActiveKeys, PageSize, MaxKeys

VARIABLES
  keys, minting,  \* of ApiKeys
  awaiting,       \* keys whose requests were let in and wait for their bodies
  caller          \* the key of the request each loop serves, 0 for none

K == INSTANCE ApiKeys WITH Threads <- Minters, pc <- minting

ASSUME KeysAssumption == K!LimitsAssumption /\ Minters \cap Workers = {}

keyVars == <<keys, minting>>
requestVars == <<awaiting, caller>>
gatewayVars == <<vars, keyVars, requestVars>>

GatewayInit ==
  /\ Init
  /\ K!Init
  /\ awaiting = [l \in Loops |-> {}]
  /\ caller = [l \in Loops |-> 0]
-----------------------------------------------------------------------------
\* verify_key; the limiter only delays.
PostAnyKey(l, i) ==
  /\ caller[l] = 0
  /\ i \in 1..Len(keys)
  /\ awaiting' = [awaiting EXCEPT ![l] = @ \cup {i}]
  /\ UNCHANGED <<vars, keyVars, caller>>

Post(l, i) ==
  /\ caller[l] = 0
  /\ i \in K!ActiveAmong(1..Len(keys))
  /\ awaiting' = [awaiting EXCEPT ![l] = @ \cup {i}]
  /\ UNCHANGED <<vars, keyVars, caller>>

\* The body is there: from here on the loop serves nobody else.  One that
\* does not parse is answered at once.
Serve(l, i) ==
  /\ caller[l] = 0
  /\ i \in awaiting[l]
  /\ awaiting' = [awaiting EXCEPT ![l] = @ \ {i}]
  /\ caller' = [caller EXCEPT ![l] = i]
  /\ UNCHANGED <<vars, keyVars>>

\* The next message of the body is a call of answer_questions.
CallTool(l) ==
  /\ caller[l] # 0
  /\ Receive(l)
  /\ UNCHANGED <<keyVars, requestVars>>

\* The body has no more messages.
Reply(l) ==
  /\ caller[l] # 0 /\ pc[l] = "idle"
  /\ caller' = [caller EXCEPT ![l] = 0]
  /\ UNCHANGED <<vars, keyVars, awaiting>>

\* A request to the pool, and what goes on inside a run.
PoolReceives(w) == Receive(w) /\ UNCHANGED <<keyVars, requestVars>>

RunStep(w) ==
  /\ Fence(w) \/ Load(w) \/ Answer(w) \/ Record(w)
  /\ UNCHANGED <<keyVars, requestVars>>

KeysStep ==
  /\ \/ \E t \in Minters : K!CountKeys(t) \/ K!MintKey(t)
     \/ \E i \in 1..Len(keys) : K!RevokeKey(i)
  /\ UNCHANGED <<vars, requestVars>>

Surroundings ==
  /\ (\E p \in Plans : PlanChanges(p)) \/ DocumentsChange \/ MonthBegins
  /\ UNCHANGED <<keyVars, requestVars>>

\* A restart takes the requests for keys with it.
GatewayCrash ==
  /\ Crash
  /\ K!Crash
  /\ awaiting' = [l \in Loops |-> {}]
  /\ caller' = [l \in Loops |-> 0]

GatewayNext ==
  \/ \E l \in Loops, i \in 1..Len(keys) : Post(l, i) \/ Serve(l, i)
  \/ \E l \in Loops : CallTool(l) \/ Reply(l)
  \/ \E w \in Pool : PoolReceives(w)
  \/ \E w \in Workers : RunStep(w)
  \/ KeysStep
  \/ Surroundings
  \/ GatewayCrash

GatewaySpec == GatewayInit /\ [][GatewayNext]_gatewayVars
-----------------------------------------------------------------------------
GatewayTypeOK ==
  /\ TypeOK
  /\ K!TypeOK
  /\ awaiting \in [Loops -> SUBSET (1..Len(keys))]
  /\ caller \in [Loops -> 0..Len(keys)]
  /\ \A l \in Loops : pc[l] # "idle" => caller[l] # 0

ListedKeysCapped == K!ListedKeysCapped

(***************************************************************************)
(* "Revoked keys never verify" (api_keys.py:53).  A request may outlive    *)
(* its key, as nothing looks the key up again after its body was awaited   *)
(* or within a batch; but from the revocation on the key opens no more     *)
(* requests, and no run of the gateway begins without one.                 *)
(***************************************************************************)
OpenAt(l, i) == i \in awaiting[l] \/ i = caller[l]

RunsDryUp ==
  \A l \in Loops :
    /\ \A i \in 1..Len(keys) :
         keys[i] = "revoked" /\ OpenAt(l, i)' => OpenAt(l, i)
    /\ pc[l] = "idle" /\ pc'[l] # "idle" => caller[l] # 0

RevokedKeysStayOut == [][RunsDryUp]_gatewayVars
=============================================================================
