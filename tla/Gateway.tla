------------------------------ MODULE Gateway -------------------------------
(***************************************************************************)
(* The JSON-RPC handler served by the nodes that the health checks keep in *)
(* rotation, as main wires them together: the handler routes to a node     *)
(* whose flag is set at that moment, the health checks write the flags and *)
(* the head of the finality checker.  RpcHandler alone assumes that nodes  *)
(* are never more than Lag behind a head that never goes back; here rounds *)
(* are in progress while requests are served, and nodes are what they are. *)
(***************************************************************************)
EXTENDS RpcHandler

CONSTANT N      \* number of nodes in the pool

\* Validate refuses a configuration without upstreams.
ASSUME PoolAssumption == N \in Nat \ {0}

VARIABLES
    healthy, height, probe, pc, best, mark, outcome, ctxDone,   \* see HealthChecks
    real,       \* real[n]: the height up to which node n has the chain
    via,        \* via[c]: the node the fetch of c was routed to, NoNode if none
    calm        \* calm[c]: no health round was in progress since c asked (history)

HC == INSTANCE HealthChecks WITH LagThreshold <- Lag, Word <- MaxHeight + 1

rotation == <<healthy, height, probe, pc, best, mark, outcome, ctxDone>>
handler == <<tip, version, now, cache, neg, flight, call, failedAt, via>>
gatewayVars == <<vars, rotation, real, via, calm>>

Nodes == HC!Nodes
NoNode == -1

GatewayInit ==
    /\ Init
    /\ HC!Init
    /\ real = [n \in Nodes |-> 0]
    /\ via = [c \in Callers |-> NoNode]
    /\ calm = [c \in Callers |-> FALSE]

-----------------------------------------------------------------------------
Sending(c) == At(c, "fetch") \/ At(c, "direct")

\* Faulty variant: the flag is not looked at.
mayRouteAny(n) == TRUE

\* What Pool.NextWithCapability asks of a node of the capability in question.
mayRoute(n) == healthy[n]

\* Route returns a node, at the first try or after another node failed.
Route(c) ==
    /\ Sending(c)
    /\ \E n \in Nodes \ {via[c]} : mayRoute(n) /\ via' = [via EXCEPT ![c] = n]
    /\ UNCHANGED <<vars, rotation, real, calm>>

\* The heights c can be answered from: that of the node it was routed to, which
\* may have left the rotation in the meantime.
answering(c) == IF via[c] = NoNode THEN {} ELSE {real[via[c]]}

Serve(c) ==
    /\ ServeHTTP(c, answering(c))
    /\ via' = [via EXCEPT ![c] = NoNode]
    /\ calm' = IF At(c, "idle") THEN [calm EXCEPT ![c] = (pc = "idle")] ELSE calm
    /\ UNCHANGED <<rotation, real>>

\* The ticker fires: from now on the flags are in motion.
Tick ==
    /\ HC!Tick
    /\ calm' = [c \in Callers |-> FALSE]
    /\ UNCHANGED <<handler, real>>

\* The rest of a health round.  A node reports its own height.
Round ==
    /\ \/ \E n \in Nodes :
            \/ \E r \in HC!Replies :
                  (r.body = "block" => r.h = real[n]) /\ HC!ProbeReturns(n, r)
            \/ HC!StoreHealthy(n)
            \/ HC!StoreHeight(n)
       \/ HC!Marking
    /\ UNCHANGED <<handler, real, calm>>

\* Node n catches up with the chain, some of the way.
Sync(n) ==
    /\ real' \in {[real EXCEPT ![n] = h] : h \in real[n] + 1 .. tip}
    /\ UNCHANGED <<vars, rotation, via, calm>>

World ==
    /\ Grow \/ Reorg \/ Evict \/ Pass
    /\ UNCHANGED <<rotation, real, via, calm>>

GatewayNext ==
    \/ \E c \in Callers : Route(c) \/ Serve(c)
    \/ Tick \/ Round
    \/ \E n \in Nodes : Sync(n)
    \/ World

GatewaySpec == GatewayInit /\ [][GatewayNext]_gatewayVars

-----------------------------------------------------------------------------
\* What is kept for ever about a numbered block is never a block that the chain
\* has replaced or will replace, whichever node answered and whatever the head
\* did: at worst it is the null of a node that did not have the block.
KeptIsNeverReplaced ==
    \A r \in DOMAIN cache :
        Kept(r) /\ Fixed(r) => cache[r].val \in {Null, Answer(r, tip)}

\* Outside health rounds the lag filter does what the cache relies on: a request
\* classified, routed and answered between two rounds, and about to be kept for
\* ever, was answered by a node that has the block.
CalmAnswersAreFinal ==
    \A c \in Callers :
        (/\ At(c, "store") /\ calm[c]
         /\ call[c].layer = "immutable" /\ Fixed(call[c].req)
         /\ call[c].out.t = "result")
            => call[c].out.val = Answer(call[c].req, tip)
=============================================================================
