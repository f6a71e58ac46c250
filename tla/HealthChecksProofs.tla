------------------------- MODULE HealthChecksProofs -------------------------
(***************************************************************************)
(* Proofs of the safety properties of HealthChecks, for every pool size,   *)
(* lag threshold and height bound.                                         *)
(***************************************************************************)
EXTENDS HealthChecks, TLAPS

Available(n) == outcome[n] \in {"height", "busy"}

\* Probe goroutines exist only during the probing phase of a round.
ProbesInRound == pc # "probing" => waitForProbes

\* What a probe stored, or is about to store, is what it found.
StoresMatchOutcome ==
    pc = "probing" =>
        \A n \in Nodes :
            /\ probe[n].st = "set_healthy" => (probe[n].ok <=> Available(n))
            /\ probe[n].st \in {"set_height", "none"} => (healthy[n] <=> Available(n))

\* The lag pass: best bounds the healthy nodes, is held by one of them unless
\* it is 0, and the nodes before mark have been filtered.
LagPass ==
    pc = "marking" =>
        /\ IsMaxHeight(best)
        /\ \A n \in Nodes : (n < mark /\ healthy[n]) => height[n] + LagThreshold >= best

IInv ==
    /\ TypeOK
    /\ ProbesInRound
    /\ StoresMatchOutcome
    /\ LagPass
    /\ RoutableNodesAreFresh
    /\ HeadIsHeldByRoutableNode
    /\ LagPassSparesANode

-----------------------------------------------------------------------------
(***************************************************************************)
(* The guard of lags makes the uint64 subtraction exact: it is reached     *)
(* only when the difference is positive and below the word size.           *)
(***************************************************************************)
LEMMA GuardedSubtraction ==
    ASSUME best \in Heights, best > LagThreshold
    PROVE  USub(best, LagThreshold) = best - LagThreshold
  <1>1. best - LagThreshold \in 0 .. Word - 1
    BY HeightAssumption DEF Heights
  <1>2. \A a \in 0 .. Word - 1 : a % Word = a
    BY HeightAssumption
  <1> QED BY <1>1, <1>2 DEF USub

(***************************************************************************)
(* NewUpstream leaves the pool in a state that satisfies the invariant.    *)
(***************************************************************************)
LEMMA InitIInv == Init => IInv
  <1> SUFFICES ASSUME Init PROVE IInv
    OBVIOUS
  <1>1. TypeOK
    <2>1. 0 \in Heights /\ 0 \in 0 .. N
      BY NAssumption, HeightAssumption DEF Heights
    <2>2. NoProbe \in [st : {"none", "asked", "set_healthy", "set_height"},
                      ok : BOOLEAN, h : Heights]
      BY <2>1 DEF NoProbe
    <2> QED BY <2>1, <2>2, Zenon DEF Init, TypeOK
  <1>2. ProbesInRound /\ StoresMatchOutcome /\ LagPass
    BY DEF Init, ProbesInRound, StoresMatchOutcome, LagPass, waitForProbes, NoProbe
  <1>3. RoutableNodesAreFresh /\ HeadIsHeldByRoutableNode /\ LagPassSparesANode
    BY NAssumption, HeightAssumption
       DEF Init, RoutableNodesAreFresh, HeadIsHeldByRoutableNode, LagPassSparesANode,
           Nodes, Heights
  <1> QED BY <1>1, <1>2, <1>3 DEF IInv

-----------------------------------------------------------------------------
(***************************************************************************)
(* Every step of the goroutine and its probes keeps the variables typed.   *)
(***************************************************************************)
LEMMA NextTypeOK == TypeOK /\ [Next]_vars => TypeOK'
  <1> SUFFICES ASSUME TypeOK, [Next]_vars PROVE TypeOK'
    OBVIOUS
  <1> USE NAssumption, HeightAssumption
  <1>1. CASE Tick
    BY <1>1 DEF TypeOK, Tick, Heights
  <1>2. ASSUME NEW n \in Nodes, NEW r \in Replies, ProbeReturns(n, r) PROVE TypeOK'
    <2>1. probeNode(r).ok \in BOOLEAN /\ probeNode(r).h \in Heights
      BY DEF probeNode, Replies, Heights, validateRPCResponse
    <2>2. probe' \in [Nodes -> [st : {"none", "asked", "set_healthy", "set_height"},
                              ok : BOOLEAN, h : Heights]]
      BY <1>2, <2>1 DEF TypeOK, ProbeReturns
    <2>3. outcome' \in [Nodes -> {"unknown", "height", "busy", "failed"}]
      BY <1>2 DEF TypeOK, ProbeReturns
    <2> QED BY <1>2, <2>2, <2>3 DEF TypeOK, ProbeReturns
  <1>3. ASSUME NEW n \in Nodes, StoreHealthy(n) PROVE TypeOK'
    BY <1>3 DEF TypeOK, StoreHealthy
  <1>4. ASSUME NEW n \in Nodes, StoreHeight(n) PROVE TypeOK'
    BY <1>4 DEF TypeOK, StoreHeight, NoProbe, Heights
  <1>5. ASSUME NEW b \in Heights, StartMarking(b) PROVE TypeOK'
    BY <1>5 DEF TypeOK, StartMarking
  <1>6. CASE MarkNode
    BY <1>6 DEF TypeOK, MarkNode, Nodes
  <1>7. CASE PublishHead
    BY <1>7 DEF TypeOK, PublishHead
  <1>8. CASE Cancel
    BY <1>8 DEF TypeOK, Cancel
  <1>9. CASE Exit
    BY <1>9 DEF TypeOK, Exit
  <1>10. CASE UNCHANGED vars
    BY <1>10 DEF TypeOK, vars
  <1> QED
    BY <1>1, <1>2, <1>3, <1>4, <1>5, <1>6, <1>7, <1>8, <1>9, <1>10
       DEF Next, Probing, Marking, Exited

(***************************************************************************)
(* The lag pass does not empty a rotation that is not empty: the node that *)
(* holds best is spared.                                                   *)
(***************************************************************************)
LEMMA MarkSparesOne ==
    ASSUME TypeOK, LagPass, MarkNode, \E n \in Nodes : healthy[n]
    PROVE  \E n \in Nodes : healthy'[n]
  <1> USE NAssumption, HeightAssumption
  <1>1. mark \in Nodes /\ best \in Heights
    BY DEF TypeOK, MarkNode, Nodes
  <1>2. \A n \in Nodes : healthy'[n] <=> (healthy[n] /\ ~(n = mark /\ lags(n)))
    BY <1>1, Zenon DEF MarkNode, TypeOK
  <1>3. \A n \in Nodes : lags(n) => best > LagThreshold /\ height[n] < best - LagThreshold
    BY <1>1, GuardedSubtraction DEF lags
  <1>4. CASE best > LagThreshold
    <2>1. PICK n \in Nodes : healthy[n] /\ height[n] = best
      BY <1>1, <1>4 DEF LagPass, MarkNode, IsMaxHeight, Heights
    <2> QED BY <1>1, <1>2, <1>3, <2>1 DEF Heights
  <1>5. CASE ~(best > LagThreshold)
    BY <1>2, <1>3, <1>5
  <1> QED BY <1>4, <1>5

(***************************************************************************)
(* One iteration of the lag pass: the node at mark is filtered, a node     *)
(* that holds best is spared, and best still bounds the healthy nodes.     *)
(***************************************************************************)
LEMMA MarkNodeIInv == IInv /\ MarkNode => IInv'
  <1> SUFFICES ASSUME IInv, MarkNode PROVE IInv'
    OBVIOUS
  <1> USE NAssumption, HeightAssumption
  <1>1. TypeOK /\ mark \in Nodes /\ best \in Heights
    BY DEF IInv, TypeOK, MarkNode, Nodes
  <1>2. TypeOK'
    BY NextTypeOK, <1>1 DEF Next, Marking
  <1>3. \A n \in Nodes : healthy'[n] <=> (healthy[n] /\ ~(n = mark /\ lags(n)))
    BY <1>1, Zenon DEF MarkNode, TypeOK
  <1>4. \A n \in Nodes : lags(n) => best > LagThreshold /\ height[n] < best - LagThreshold
    BY <1>1, GuardedSubtraction DEF lags
  <1>5. \A n \in Nodes : height[n] \in Nat /\ height'[n] = height[n]
    BY <1>1 DEF TypeOK, Heights, MarkNode
  <1>6. IsMaxHeight(best)
    BY DEF IInv, LagPass, MarkNode
  <1>7. \A n \in Nodes : healthy[n] /\ height[n] = best => healthy'[n]
    BY <1>1, <1>3, <1>4, <1>5 DEF Heights
  <1>8. IsMaxHeight(best)'
    BY <1>3, <1>5, <1>6, <1>7 DEF IsMaxHeight, MarkNode
  <1>9. LagPass'
    <2>1. ASSUME NEW n \in Nodes, n < mark', healthy'[n]
          PROVE  height'[n] + LagThreshold >= best
      <3>1. healthy[n]
        BY <1>3, <2>1
      <3>2. CASE n < mark
        BY <3>1, <3>2, <1>5 DEF IInv, LagPass, MarkNode
      <3>3. CASE n = mark
        <4>1. ~lags(n)
          BY <1>3, <2>1, <3>3
        <4>2. best > LagThreshold => ~(height[n] < best - LagThreshold)
          BY <4>1, <3>1, <1>1, GuardedSubtraction DEF lags
        <4> QED BY <4>2, <1>1, <1>5 DEF Heights
      <3> QED BY <2>1, <3>2, <3>3, <1>1 DEF MarkNode, Nodes
    <2> QED BY <2>1, <1>8 DEF LagPass, MarkNode
  <1>10. LagPassSparesANode'
    <2> SUFFICES ASSUME \E n \in Nodes : Available(n)
                 PROVE  \E n \in Nodes : healthy'[n]
      BY DEF LagPassSparesANode, MarkNode, Available
    <2>1. \E n \in Nodes : healthy[n]
      BY DEF IInv, LagPassSparesANode, MarkNode, Available
    <2> QED BY <1>1, <2>1, MarkSparesOne DEF IInv
  <1>11. /\ ProbesInRound' /\ StoresMatchOutcome'
         /\ RoutableNodesAreFresh' /\ HeadIsHeldByRoutableNode'
    BY DEF IInv, MarkNode, ProbesInRound, StoresMatchOutcome, waitForProbes,
           RoutableNodesAreFresh, HeadIsHeldByRoutableNode
  <1> QED BY <1>2, <1>9, <1>10, <1>11 DEF IInv

(***************************************************************************)
(* The strengthened invariant is preserved by every step.                  *)
(***************************************************************************)
LEMMA NextIInv == IInv /\ [Next]_vars => IInv'
  <1> SUFFICES ASSUME IInv, [Next]_vars PROVE IInv'
    OBVIOUS
  <1> USE NAssumption, HeightAssumption
  <1>t. TypeOK /\ TypeOK'
    BY NextTypeOK DEF IInv
  <1> DEFINE Rest == /\ ProbesInRound /\ StoresMatchOutcome /\ LagPass
                     /\ RoutableNodesAreFresh /\ HeadIsHeldByRoutableNode
                     /\ LagPassSparesANode
  <1>r. Rest
    BY DEF IInv
  <1>1. CASE Tick
    <2>1. pc' = "probing" /\ \A n \in Nodes : probe'[n].st = "asked"
      BY <1>1 DEF Tick
    <2> QED BY <2>1, <1>t DEF IInv, ProbesInRound, StoresMatchOutcome, LagPass,
               RoutableNodesAreFresh, HeadIsHeldByRoutableNode, LagPassSparesANode
  <1>2. ASSUME NEW n \in Nodes, NEW r \in Replies, ProbeReturns(n, r) PROVE Rest'
    <2>1. pc = "probing" /\ pc' = "probing"
      BY <1>2, <1>r, <1>t DEF ProbeReturns, ProbesInRound, waitForProbes
    <2>2. outcome'[n] \in {"height", "busy"} <=> probe'[n].ok
      BY <1>2, <1>t DEF ProbeReturns, TypeOK
    <2>3. probe'[n].st = "set_healthy"
      BY <1>2, <1>t DEF ProbeReturns, TypeOK
    <2>4. \A m \in Nodes \ {n} : probe'[m] = probe[m] /\ outcome'[m] = outcome[m]
      BY <1>2, <1>t DEF ProbeReturns, TypeOK
    <2>5. StoresMatchOutcome'
      BY <2>1, <2>2, <2>3, <2>4, <1>2, <1>r
         DEF StoresMatchOutcome, Available, ProbeReturns
    <2> QED BY <2>1, <2>5 DEF ProbesInRound, LagPass, RoutableNodesAreFresh,
               HeadIsHeldByRoutableNode, LagPassSparesANode
  <1>3. ASSUME NEW n \in Nodes, StoreHealthy(n) PROVE Rest'
    <2>1. pc = "probing" /\ pc' = "probing"
      BY <1>3, <1>r, <1>t DEF StoreHealthy, ProbesInRound, waitForProbes
    <2>2. healthy'[n] = probe[n].ok /\ probe'[n].st = "set_height"
      BY <1>3, <1>t DEF StoreHealthy, TypeOK
    <2>3. \A m \in Nodes \ {n} : probe'[m] = probe[m] /\ healthy'[m] = healthy[m]
      BY <1>3, <1>t DEF StoreHealthy, TypeOK
    <2>4. StoresMatchOutcome'
      BY <2>1, <2>2, <2>3, <1>3, <1>r DEF StoresMatchOutcome, Available, StoreHealthy
    <2> QED BY <2>1, <2>4 DEF ProbesInRound, LagPass, RoutableNodesAreFresh,
               HeadIsHeldByRoutableNode, LagPassSparesANode
  <1>4. ASSUME NEW n \in Nodes, StoreHeight(n) PROVE Rest'
    <2>1. pc = "probing" /\ pc' = "probing"
      BY <1>4, <1>r, <1>t DEF StoreHeight, ProbesInRound, waitForProbes
    <2>2. probe'[n].st = "none" /\ \A m \in Nodes \ {n} : probe'[m] = probe[m]
      BY <1>4, <1>t DEF StoreHeight, TypeOK, NoProbe
    <2>3. StoresMatchOutcome'
      BY <2>1, <2>2, <1>4, <1>r DEF StoresMatchOutcome, Available, StoreHeight
    <2> QED BY <2>1, <2>3 DEF ProbesInRound, LagPass, RoutableNodesAreFresh,
               HeadIsHeldByRoutableNode, LagPassSparesANode
  <1>5. ASSUME NEW b \in Heights, StartMarking(b) PROVE Rest'
    <2>1. LagPassSparesANode'
      BY <1>5, <1>r DEF StartMarking, LagPassSparesANode, StoresMatchOutcome,
         waitForProbes, Available
    <2>2. LagPass'
      BY <1>5 DEF StartMarking, LagPass, IsMaxHeight, Nodes
    <2> QED BY <1>5, <2>1, <2>2 DEF StartMarking, ProbesInRound, StoresMatchOutcome,
               waitForProbes, RoutableNodesAreFresh, HeadIsHeldByRoutableNode
  <1>6. CASE MarkNode
    BY <1>6, MarkNodeIInv
  <1>7. CASE PublishHead
    <2>1. RoutableNodesAreFresh'
      BY <1>7, <1>r DEF PublishHead, RoutableNodesAreFresh, LagPass, Nodes
    <2>2. HeadIsHeldByRoutableNode' /\ LagPassSparesANode'
      BY <1>7, <1>r, <1>t DEF PublishHead, HeadIsHeldByRoutableNode, LagPass, IsMaxHeight,
         LagPassSparesANode, TypeOK, Heights
    <2> QED BY <1>7, <1>t, <1>r, <2>1, <2>2 DEF IInv, PublishHead, ProbesInRound,
               StoresMatchOutcome, waitForProbes, LagPass
  <1>8. CASE Cancel
    BY <1>8, <1>t, <1>r DEF Cancel, IInv, ProbesInRound, StoresMatchOutcome, LagPass,
       RoutableNodesAreFresh, HeadIsHeldByRoutableNode, LagPassSparesANode,
       waitForProbes, IsMaxHeight, Available
  <1>9. CASE Exit
    BY <1>9, <1>t, <1>r DEF Exit, IInv, ProbesInRound, StoresMatchOutcome, LagPass,
       RoutableNodesAreFresh, HeadIsHeldByRoutableNode, LagPassSparesANode, waitForProbes
  <1>10. CASE UNCHANGED vars
    BY <1>10, <1>t, <1>r DEF vars, IInv, ProbesInRound, StoresMatchOutcome, LagPass,
       RoutableNodesAreFresh, HeadIsHeldByRoutableNode, LagPassSparesANode,
       waitForProbes, IsMaxHeight, Available
  <1> QED
    BY <1>t, <1>1, <1>2, <1>3, <1>4, <1>5, <1>6, <1>7, <1>8, <1>9, <1>10
       DEF IInv, Next, Probing, Marking, Exited

(***************************************************************************)
(* The strengthened invariant holds in every reachable state.              *)
(***************************************************************************)
LEMMA Invariance == Spec => []IInv
  BY InitIInv, NextIInv, PTL DEF Spec

(***************************************************************************)
(* The variables of the health checker keep their types.                   *)
(***************************************************************************)
THEOREM TypeCorrect == Spec => []TypeOK
  BY Invariance, PTL DEF IInv

(***************************************************************************)
(* Between two rounds the nodes in rotation are within LagThreshold blocks *)
(* of the head that StartHealthChecks published last.                      *)
(***************************************************************************)
THEOREM FreshRotation == Spec => []RoutableNodesAreFresh
  BY Invariance, PTL DEF IInv

(***************************************************************************)
(* Between two rounds a non-zero published head is the height of a node in *)
(* rotation: onHeadUpdate hears of no height only a filtered node has.     *)
(***************************************************************************)
THEOREM HeadIsHeld == Spec => []HeadIsHeldByRoutableNode
  BY Invariance, PTL DEF IInv

(***************************************************************************)
(* The lag pass of markLaggingNodes never empties the rotation.            *)
(***************************************************************************)
THEOREM LagPassIsSafe == Spec => []LagPassSparesANode
  BY Invariance, PTL DEF IInv

(***************************************************************************)
(* After close(done) no probe runs and nothing is written any more.        *)
(***************************************************************************)
THEOREM QuietAfterDone == Spec => NothingAfterDone
  <1>1. IInv => (pc = "exited" => waitForProbes)
    BY DEF IInv, ProbesInRound
  <1>2. IInv /\ [Next]_vars => [pc = "exited" => UNCHANGED <<healthy, height, head>>]_vars
    BY DEF IInv, ProbesInRound, waitForProbes, Next, Tick, Probing, ProbeReturns,
       StoreHealthy, StoreHeight, Marking, StartMarking, MarkNode, PublishHead, Cancel,
       Exit, Exited, vars
  <1> QED BY <1>1, <1>2, Invariance, PTL DEF Spec, NothingAfterDone
=============================================================================
