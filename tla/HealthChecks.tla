---------------------------- MODULE HealthChecks ----------------------------
(***************************************************************************)
(* The health-check goroutine of internal/upstream: StartHealthChecks,     *)
(* checkNode, probeNode and markLaggingNodes, together with the head that  *)
(* the callback registered in main hands to the finality checker.          *)
(*                                                                         *)
(* One probe goroutine runs per node and round.  The two stores checkNode  *)
(* makes (SetHealthy, then SetBlockHeight) take the node's lock separately *)
(* and are separate steps; so is each SetHealthy(false) of the lag pass,   *)
(* since requests are routed from the same nodes meanwhile.                *)
(***************************************************************************)
EXTENDS Integers

CONSTANTS
    N,              \* number of nodes in the pool
    LagThreshold,   \* lagThreshold, in blocks
    MaxHeight,      \* bound: the highest block number a node reports
    Word            \* size of the uint64 range

ASSUME NAssumption == N \in Nat \ {0}
ASSUME HeightAssumption ==
    /\ LagThreshold \in Nat
    /\ MaxHeight \in Nat
    /\ Word \in Nat
    /\ MaxHeight < Word

Nodes == 0 .. N-1
Heights == 0 .. MaxHeight

(***************************************************************************)
(* What the node answers to the probe.                                     *)
(***************************************************************************)
Replies ==
    [http : {"unreachable", "429", "non_200"}, body : {"none"}, h : {0}]
      \cup [http : {"200"}, body : {"unreadable", "invalid_json", "rpc_error",
                                    "empty_result", "not_hex"}, h : {0}]
      \cup [http : {"200"}, body : {"block"}, h : Heights]

VARIABLES
    healthy,    \* healthy[n]: node n is in rotation
    height,     \* height[n]: last block height stored for n
    probe,      \* probe[n]: the probe goroutine of n in this round
    pc,         \* the health-check goroutine
    best,       \* maxHeight of markLaggingNodes
    mark,       \* index of the lag pass
    head,       \* the head of the finality checker
    ctxDone,    \* the lifecycle context is cancelled
    outcome     \* what the latest probe of n returned (history)

vars == <<healthy, height, probe, pc, best, mark, head, ctxDone, outcome>>

NoProbe == [st |-> "none", ok |-> FALSE, h |-> 0]

TypeOK ==
    /\ healthy \in [Nodes -> BOOLEAN]
    /\ height \in [Nodes -> Heights]
    /\ probe \in [Nodes -> [st : {"none", "asked", "set_healthy", "set_height"},
                            ok : BOOLEAN, h : Heights]]
    /\ pc \in {"idle", "probing", "marking", "exited"}
    /\ best \in Heights
    /\ mark \in 0 .. N
    /\ head \in Heights
    /\ ctxDone \in BOOLEAN
    /\ outcome \in [Nodes -> {"unknown", "height", "busy", "failed"}]

(***************************************************************************)
(* NewUpstream: a node starts healthy, with height 0.                      *)
(***************************************************************************)
Init ==
    /\ healthy = [n \in Nodes |-> TRUE]
    /\ height = [n \in Nodes |-> 0]
    /\ probe = [n \in Nodes |-> NoProbe]
    /\ pc = "idle"
    /\ best = 0
    /\ mark = 0
    /\ head = 0
    /\ ctxDone = FALSE
    /\ outcome = [n \in Nodes |-> "unknown"]

-----------------------------------------------------------------------------
(***************************************************************************)
(* A probe's verdict: is the node available, and at which height (0 when   *)
(* no height was observed).                                                *)
(***************************************************************************)
validateRPCResponse(r) == r.body = "block"

probeNode(r) ==
    [ok |-> r.http = "429" \/ (r.http = "200" /\ validateRPCResponse(r)),
     h  |-> r.h]

(***************************************************************************)
(* The ticker fires: a probe goroutine is started for every node.  The     *)
(* select may still choose the tick after the context was cancelled.       *)
(***************************************************************************)
Tick ==
    /\ pc = "idle"
    /\ pc' = "probing"
    /\ probe' = [n \in Nodes |-> [st |-> "asked", ok |-> FALSE, h |-> 0]]
    /\ UNCHANGED <<healthy, height, best, mark, head, ctxDone, outcome>>

(***************************************************************************)
(* probeNode returns.  A cancelled context aborts the HTTP exchange, which *)
(* reads as an unreachable node; so does the probe timeout.                *)
(***************************************************************************)
ProbeReturns(n, r) ==
    /\ probe[n].st = "asked"
    /\ ctxDone => r.http = "unreachable"
    /\ probe' = [probe EXCEPT ![n] = [st |-> "set_healthy",
                                      ok |-> probeNode(r).ok,
                                      h  |-> probeNode(r).h]]
    /\ outcome' = [outcome EXCEPT ![n] =
                      IF ~probeNode(r).ok THEN "failed"
                      ELSE IF r.http = "429" THEN "busy" ELSE "height"]
    /\ UNCHANGED <<healthy, height, pc, best, mark, head, ctxDone>>

\* Faulty variant: a probe can take a node out of rotation but not back in.
StoreOnlyUnhealthy(n) ==
    /\ probe[n].st = "set_healthy"
    /\ healthy' = [healthy EXCEPT ![n] = healthy[n] /\ probe[n].ok]
    /\ probe' = [probe EXCEPT ![n].st = "set_height"]
    /\ UNCHANGED <<height, pc, best, mark, head, ctxDone, outcome>>

\* checkNode, first store.
StoreHealthy(n) ==
    /\ probe[n].st = "set_healthy"
    /\ healthy' = [healthy EXCEPT ![n] = probe[n].ok]
    /\ probe' = [probe EXCEPT ![n].st = "set_height"]
    /\ UNCHANGED <<height, pc, best, mark, head, ctxDone, outcome>>

\* checkNode, second store; a height of 0 keeps the old one.  wg.Done.
StoreHeight(n) ==
    /\ probe[n].st = "set_height"
    /\ height' = IF probe[n].h > 0 THEN [height EXCEPT ![n] = probe[n].h] ELSE height
    /\ probe' = [probe EXCEPT ![n] = NoProbe]
    /\ UNCHANGED <<healthy, pc, best, mark, head, ctxDone, outcome>>

-----------------------------------------------------------------------------
\* Faulty variant: the maximum over all nodes, healthy or not.
IsMaxHeightOfAll(b) ==
    /\ b = 0 \/ \E n \in Nodes : height[n] = b
    /\ \A n \in Nodes : height[n] <= b

\* maxHeight after the first loop of markLaggingNodes.
IsMaxHeight(b) ==
    /\ b = 0 \/ \E n \in Nodes : healthy[n] /\ height[n] = b
    /\ \A n \in Nodes : healthy[n] => height[n] <= b

waitForProbes == \A n \in Nodes : probe[n].st = "none"

(***************************************************************************)
(* wg.Wait returns; only this goroutine writes the nodes from here on, so  *)
(* the first loop of markLaggingNodes is one step.                         *)
(***************************************************************************)
StartMarking(b) ==
    /\ pc = "probing"
    /\ waitForProbes
    /\ IsMaxHeight(b)
    /\ best' = b
    /\ mark' = 0
    /\ pc' = "marking"
    /\ UNCHANGED <<healthy, height, probe, head, ctxDone, outcome>>

\* uint64 subtraction wraps; the first conjunct of lags is what guards it.
USub(a, b) == (a - b) % Word

\* Faulty variant: the subtraction is not guarded.
lagsUnguarded(n) == healthy[n] /\ height[n] < USub(best, LagThreshold)

\* Faulty variant: off by one block at the boundary.
lagsByTwo(n) ==
    /\ healthy[n]
    /\ best > LagThreshold + 1
    /\ height[n] < USub(best, LagThreshold + 1)

\* The condition of the second loop of markLaggingNodes.
lags(n) ==
    /\ healthy[n]
    /\ best > LagThreshold
    /\ height[n] < USub(best, LagThreshold)

\* One iteration of the second loop of markLaggingNodes.
MarkNode ==
    /\ pc = "marking"
    /\ mark < N
    /\ healthy' = [healthy EXCEPT ![mark] = healthy[mark] /\ ~lags(mark)]
    /\ mark' = mark + 1
    /\ UNCHANGED <<height, probe, pc, best, head, ctxDone, outcome>>

\* markLaggingNodes returns best and the callback calls SetHead with it.
PublishHead ==
    /\ pc = "marking"
    /\ mark = N
    /\ head' = best
    /\ pc' = "idle"
    /\ UNCHANGED <<healthy, height, probe, best, mark, ctxDone, outcome>>

\* SIGINT or SIGTERM cancels the lifecycle context.
Cancel ==
    /\ ~ctxDone
    /\ ctxDone' = TRUE
    /\ UNCHANGED <<healthy, height, probe, pc, best, mark, head, outcome>>

\* Faulty variant: the goroutine returns without waiting for the probes.
ExitAnywhere ==
    /\ pc # "exited"
    /\ ctxDone
    /\ pc' = "exited"
    /\ UNCHANGED <<healthy, height, probe, best, mark, head, ctxDone, outcome>>

\* Faulty variant: the select sees the cancellation only before the first round.
ExitIfFresh ==
    /\ pc = "idle"
    /\ ctxDone
    /\ \A n \in Nodes : outcome[n] = "unknown"
    /\ pc' = "exited"
    /\ UNCHANGED <<healthy, height, probe, best, mark, head, ctxDone, outcome>>

\* The select sees ctx.Done; close(done).
Exit ==
    /\ pc = "idle"
    /\ ctxDone
    /\ pc' = "exited"
    /\ UNCHANGED <<healthy, height, probe, best, mark, head, ctxDone, outcome>>

\* The done channel is closed and the goroutine gone.
Exited == pc = "exited" /\ UNCHANGED vars

Probing(n) ==
    \/ \E r \in Replies : ProbeReturns(n, r)
    \/ StoreHealthy(n)
    \/ StoreHeight(n)

Marking ==
    \/ \E b \in Heights : StartMarking(b)
    \/ MarkNode
    \/ PublishHead

Next ==
    \/ Tick
    \/ \E n \in Nodes : Probing(n)
    \/ Marking
    \/ Cancel
    \/ Exit
    \/ Exited

(***************************************************************************)
(* Fairness.  The ticker fires; every probe returns, because the request   *)
(* carries probeTimeout; the goroutines run.  Exit is strongly fair: the   *)
(* select chooses among its ready cases at random, and once the context is *)
(* cancelled ctx.Done is always one of them.                               *)
(***************************************************************************)
Fairness ==
    /\ WF_vars(Tick)
    /\ \A n \in Nodes : WF_vars(Probing(n))
    /\ WF_vars(Marking)
    /\ SF_vars(Exit)

Spec == Init /\ [][Next]_vars /\ Fairness

-----------------------------------------------------------------------------
(***************************************************************************)
(* Between two rounds every node in rotation is within LagThreshold blocks *)
(* of the head the finality checker uses (markLaggingNodes, SetHead).      *)
(***************************************************************************)
RoutableNodesAreFresh ==
    pc = "idle" => \A n \in Nodes : healthy[n] => height[n] + LagThreshold >= head

(***************************************************************************)
(* Between two rounds a non-zero head is the stored height of some node    *)
(* that is in rotation: finality is never judged against a block that no   *)
(* routable node has reported (markLaggingNodes, the SetHead callback).    *)
(***************************************************************************)
HeadIsHeldByRoutableNode ==
    (pc = "idle" /\ head > 0) => \E n \in Nodes : healthy[n] /\ height[n] = head

(***************************************************************************)
(* The lag pass never takes the last node out of rotation: if some probe   *)
(* of the round found its node available, then during the pass and after   *)
(* it some node is healthy (guard and subtraction of markLaggingNodes).    *)
(***************************************************************************)
LagPassSparesANode ==
    (pc \in {"marking", "idle"} /\ \E n \in Nodes : outcome[n] \in {"height", "busy"})
        => \E n \in Nodes : healthy[n]

(***************************************************************************)
(* Once the done channel is closed no probe goroutine is running and the   *)
(* goroutine touches neither the nodes nor the head again: what main       *)
(* relies on before it closes the cache store.                             *)
(***************************************************************************)
NothingAfterDone ==
    /\ [](pc = "exited" => waitForProbes)
    /\ [][pc = "exited" => UNCHANGED <<healthy, height, head>>]_vars

(***************************************************************************)
(* A cancelled context eventually closes the done channel, in-flight       *)
(* probes included: main cannot hang on it (StartHealthChecks, select).    *)
(***************************************************************************)
CancelClosesDone == ctxDone ~> pc = "exited"

(***************************************************************************)
(* A node that from some point on always answers with the highest block    *)
(* ends up in rotation for good, whatever the other nodes do.              *)
(***************************************************************************)
RecoveredNodeReturns ==
    \A n \in Nodes :
        ([]~ctxDone /\ <>[](probe[n].st \in {"set_healthy", "set_height"}
                               => probe[n].ok /\ probe[n].h = MaxHeight))
            => <>[]healthy[n]
=============================================================================
