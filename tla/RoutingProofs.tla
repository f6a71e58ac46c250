--------------------------- MODULE RoutingProofs ----------------------------
(***************************************************************************)
(* Proofs about Routing, for every pool size, set of annotations and set   *)
(* of callers.                                                             *)
(***************************************************************************)
EXTENDS Routing, TLAPS

USE ZenonT(40)

\* What a scan is still known to find: a node in steadyScan is healthy, can
\* serve the call, and is not among the slots already looked at.
Ahead(c) ==
    /\ \A n \in steadyScan[c] : healthy[n]
    /\ call[c].pc = "scan" =>
          \A n \in steadyScan[c] : Has(n, call[c].kind, call[c].method)
    /\ (call[c].pc = "scan" /\ call[c].kind # "dial") =>
          \A j \in 0 .. N-1 :
              j < call[c].i => (call[c].start + j) % N \notin steadyScan[c]

SteadyNodesAreAhead == \A c \in Callers : Ahead(c)

\* A try that has begun is one of the N tries of its loop.
TriesLeft ==
    \A c \in Callers : call[c].pc \in {"scan", "send"} => call[c].try < N

ScanInv == TypeOK /\ TriesLeft /\ SteadyNodesAreAhead

-----------------------------------------------------------------------------
(***************************************************************************)
(* The residue of a sum of two slots, as the scan computes it.             *)
(***************************************************************************)
LEMMA SlotSum ==
    ASSUME NEW a \in Nodes, NEW b \in 0 .. N
    PROVE  (a + b) % N = IF a + b < N THEN a + b ELSE a + b - N
  <1>1. \A x \in 0 .. N - 1 : x % N = x
    BY NAssumption, SMT
  <1>2. \A x \in 0 .. N - 1 : (x + N) % N = x
    BY NAssumption, SMT
  <1>3. CASE a + b < N
    BY <1>1, <1>3, NAssumption, SMT DEF Nodes
  <1>4. CASE ~(a + b < N)
    <2>1. a + b - N \in 0 .. N - 1
      BY <1>4, NAssumption, SMT DEF Nodes
    <2>2. ((a + b - N) + N) % N = a + b - N
      BY <1>2, <2>1
    <2>3. (a + b - N) + N = a + b
      BY NAssumption, SMT DEF Nodes
    <2> QED BY <1>4, <2>2, <2>3
  <1> QED BY <1>3, <1>4

(***************************************************************************)
(* N consecutive slots visit every node.                                   *)
(***************************************************************************)
LEMMA SlotsCover ==
    ASSUME NEW s \in Nodes, NEW m \in Nodes
    PROVE  \E j \in 0 .. N-1 : (s + j) % N = m
  <1>1. ASSUME NEW j \in 0 .. N-1, s + j = m \/ s + j = m + N
        PROVE  (s + j) % N = m
    <2>1. (s + j) % N = IF s + j < N THEN s + j ELSE s + j - N
      BY SlotSum, NAssumption, SMT
    <2> QED BY <1>1, <2>1, NAssumption, SMT DEF Nodes
  <1>2. \E j \in 0 .. N-1 : s + j = m \/ s + j = m + N
    <2>1. CASE s <= m
      <3>1. m - s \in 0 .. N-1 /\ s + (m - s) = m
        BY <2>1, NAssumption, SMT DEF Nodes
      <3> QED BY <3>1
    <2>2. CASE m < s
      <3>1. m - s + N \in 0 .. N-1 /\ s + (m - s + N) = m + N
        BY <2>2, NAssumption, SMT DEF Nodes
      <3> QED BY <3>1
    <2> QED BY <2>1, <2>2, NAssumption, SMT DEF Nodes
  <1> QED BY <1>1, <1>2

(***************************************************************************)
(* Advancing the counter, and the index a scan looks at, stay in the pool. *)
(***************************************************************************)
LEMMA SlotsInPool ==
    /\ \A k \in Nodes : Advance(k) \in Nodes
    /\ TypeOK => \A c \in Callers : slot(c) \in Nodes
  <1>1. \A k \in Int : k % N \in Nodes
    BY NAssumption, SMT DEF Nodes
  <1>2. \A k \in Nodes : k + 1 \in Int
    BY NAssumption, SMT DEF Nodes
  <1>3. ASSUME TypeOK, NEW c \in Callers PROVE slot(c) \in Nodes
    <2>1. call[c].start + call[c].i \in Int /\ counter \in Nodes
      BY <1>3, NAssumption, SMT DEF TypeOK, Calls, Nodes
    <2> QED BY <1>1, <2>1 DEF slot
  <1> QED BY <1>1, <1>2, <1>3 DEF Advance

-----------------------------------------------------------------------------
(***************************************************************************)
(* The loops keep the variables typed.                                     *)
(***************************************************************************)
LEMMA NextTypeOK == TypeOK /\ TriesLeft /\ [Next]_vars => (TypeOK /\ TriesLeft)'
  <1> SUFFICES ASSUME TypeOK, TriesLeft, [Next]_vars PROVE (TypeOK /\ TriesLeft)'
    OBVIOUS
  <1> USE NAssumption
  <1>0. 0 \in Nodes /\ 0 \in 0 .. N /\ Idle \in Calls
    BY SMT DEF Nodes, Idle, Calls, AllKinds, AllPrefixes
  <1>a. ASSUME NEW c \in Callers, NEW r \in Calls, call' = [call EXCEPT ![c] = r],
               r.pc \in {"scan", "send"} => r.try < N
        PROVE  call' \in [Callers -> Calls] /\ TriesLeft'
    BY <1>a DEF TypeOK, TriesLeft
  <1>1. ASSUME NEW n \in Nodes, SetHealthy(n) PROVE (TypeOK /\ TriesLeft)'
    BY <1>1 DEF TypeOK, TriesLeft, SetHealthy
  <1>2. ASSUME NEW c \in Callers, NEW kind \in Kinds, NEW method \in Prefixes,
               Enter(c, kind, method)
        PROVE  (TypeOK /\ TriesLeft)'
    <2> DEFINE r == [Idle EXCEPT !.pc = "route", !.kind = kind, !.method = method]
    <2>1. r \in Calls /\ r.pc = "route"
      BY <1>0, CallerAssumption DEF Calls, Idle
    <2>2. call' = [call EXCEPT ![c] = r]
      BY <1>2 DEF Enter
    <2> HIDE DEF r
    <2> QED BY <1>a, <1>2, <2>1, <2>2 DEF TypeOK, Enter
  <1>3. ASSUME NEW c \in Callers, Route(c) PROVE (TypeOK /\ TriesLeft)'
    <2> DEFINE r == [call[c] EXCEPT !.pc = "scan", !.start = counter, !.i = 0]
    <2>1. r \in Calls /\ r.try < N
      BY <1>0, <1>3 DEF Calls, TypeOK, Route
    <2>2. call' = [call EXCEPT ![c] = r]
      BY <1>3, <2>1 DEF Route, TypeOK, Calls
    <2>3. counter' \in Nodes
      BY <1>3, SlotsInPool DEF Route, TypeOK
    <2>4. overtaken' \subseteq Callers
      BY <1>3 DEF Route, NoteMove, TypeOK
    <2>5. steadyScan' \in [Callers -> SUBSET Nodes]
      BY <1>3 DEF Route, TypeOK
    <2>6. call' \in [Callers -> Calls] /\ TriesLeft'
      <3> HIDE DEF r
      <3> QED BY <1>a, <2>1, <2>2
    <2> QED BY <1>3, <2>3, <2>4, <2>5, <2>6 DEF TypeOK, Route
  <1>4. ASSUME NEW c \in Callers, Inspect(c) PROVE (TypeOK /\ TriesLeft)'
    <2>1. slot(c) \in Nodes /\ counter' \in Nodes
      BY <1>4, SlotsInPool DEF Inspect, TypeOK
    <2>2. call[c] \in Calls /\ call[c].i + 1 \in 0 .. N /\ call[c].try < N
      BY <1>4, SMT DEF Inspect, TypeOK, Calls, TriesLeft
    <2>3. PICK r \in Calls : call' = [call EXCEPT ![c] = r] /\ r.try < N
      <3>1. CASE call' = [call EXCEPT ![c].pc = "send", ![c].start = 0, ![c].i = 0]
        <4> DEFINE r == [call[c] EXCEPT !.pc = "send", !.start = 0, !.i = 0]
        <4>1. r \in Calls /\ r.try < N
          BY <1>0, <2>2 DEF Calls
        <4>2. call' = [call EXCEPT ![c] = r]
          BY <3>1, <2>2
        <4> HIDE DEF r
        <4> QED BY <4>1, <4>2
      <3>2. CASE call' = [call EXCEPT ![c].i = @ + 1]
        <4> DEFINE r == [call[c] EXCEPT !.i = @ + 1]
        <4>1. r \in Calls /\ r.try < N
          BY <2>2 DEF Calls
        <4>2. call' = [call EXCEPT ![c] = r]
          BY <3>2, <2>2
        <4> HIDE DEF r
        <4> QED BY <4>1, <4>2
      <3> QED BY <1>4, <3>1, <3>2 DEF Inspect
    <2>4. tried' \in [Callers -> SUBSET Nodes] /\ steadyScan' \in [Callers -> SUBSET Nodes]
      BY <1>4, <2>1, SMT DEF TypeOK, Inspect
    <2>5. call' \in [Callers -> Calls] /\ TriesLeft'
      BY <1>a, <2>3
    <2>6. overtaken' \subseteq Callers
      BY <1>4 DEF Inspect, NoteMove, TypeOK
    <2> QED BY <1>4, <2>1, <2>4, <2>5, <2>6 DEF TypeOK, Inspect
  <1>5. ASSUME NEW c \in Callers, RouteNil(c) \/ GiveUp(c) PROVE (TypeOK /\ TriesLeft)'
    <2>1. finished("unavailable") \in Calls /\ finished("unavailable").pc = "done"
      BY <1>0 DEF finished, Idle, Calls
    <2>2. call' = [call EXCEPT ![c] = finished("unavailable")]
      BY <1>5 DEF RouteNil, GiveUp
    <2>3. steadyScan' \in [Callers -> SUBSET Nodes]
      BY <1>5 DEF RouteNil, GiveUp, TypeOK
    <2> QED BY <1>a, <1>5, <2>1, <2>2, <2>3 DEF TypeOK, RouteNil, GiveUp
  <1>6. ASSUME NEW c \in Callers, NEW o \in {"ok", "429", "failed"}, Reply(c, o)
        PROVE  (TypeOK /\ TriesLeft)'
    <2>1. call[c] \in Calls /\ call[c].try + 1 \in 0 .. N
      BY <1>6, SMT DEF Calls, TypeOK, TriesLeft, Reply
    <2>2. reply(c, o) \in Calls /\ reply(c, o).pc \in {"done", "route"}
      BY <1>0, <2>1 DEF reply, finished, Idle, Calls
    <2>3. call' = [call EXCEPT ![c] = reply(c, o)]
      BY <1>6 DEF Reply
    <2> QED BY <1>a, <1>6, <2>2, <2>3 DEF TypeOK, Reply
  <1>7. ASSUME NEW c \in Callers, Leave(c) PROVE (TypeOK /\ TriesLeft)'
    <2>1. Idle.pc = "idle"
      BY DEF Idle
    <2>2. call' = [call EXCEPT ![c] = Idle]
      BY <1>7 DEF Leave
    <2> QED BY <1>0, <1>a, <1>7, <2>1, <2>2 DEF TypeOK, Leave
  <1>8. CASE UNCHANGED vars
    BY <1>8 DEF TypeOK, TriesLeft, vars
  <1> QED
    BY <1>1, <1>2, <1>3, <1>4, <1>5, <1>6, <1>7, <1>8 DEF Next, Loop

(***************************************************************************)
(* A step of any actor keeps the steady nodes of every scan ahead of it.   *)
(***************************************************************************)
LEMMA NextScanInv == ScanInv /\ [Next]_vars => ScanInv'
  <1> SUFFICES ASSUME ScanInv, [Next]_vars PROVE SteadyNodesAreAhead'
    BY NextTypeOK DEF ScanInv
  <1> USE NAssumption
  <1>t. TypeOK /\ SteadyNodesAreAhead
    BY DEF ScanInv
  <1>a. ASSUME NEW c \in Callers, NEW r, call' = [call EXCEPT ![c] = r], r.pc # "scan",
               UNCHANGED healthy,
               \A d \in Callers : steadyScan'[d] \subseteq steadyScan[d]
        PROVE  SteadyNodesAreAhead'
    <2> SUFFICES ASSUME NEW d \in Callers PROVE Ahead(d)'
      BY DEF SteadyNodesAreAhead
    <2>1. call'[d] = IF d = c THEN r ELSE call[d]
      BY <1>a, <1>t DEF TypeOK
    <2> QED BY <1>a, <1>t, <2>1 DEF SteadyNodesAreAhead, Ahead, Has, MethodCapability,
               Capabilities
  <1>1. ASSUME NEW n \in Nodes, SetHealthy(n) PROVE SteadyNodesAreAhead'
    BY <1>1, <1>t DEF SetHealthy, SteadyNodesAreAhead, Ahead, TypeOK, Has, MethodCapability,
       Capabilities
  <1>2. ASSUME NEW c \in Callers, NEW kind \in Kinds, NEW method \in Prefixes,
               Enter(c, kind, method)
        PROVE  SteadyNodesAreAhead'
    <2> DEFINE r == [Idle EXCEPT !.pc = "route", !.kind = kind, !.method = method]
    <2>1. r.pc # "scan"
      BY DEF Idle
    <2>2. call' = [call EXCEPT ![c] = r] /\ UNCHANGED <<healthy, steadyScan>>
      BY <1>2 DEF Enter
    <2> HIDE DEF r
    <2> QED BY <1>a, <2>1, <2>2
  <1>3. ASSUME NEW c \in Callers, Route(c) PROVE SteadyNodesAreAhead'
    <2> SUFFICES ASSUME NEW d \in Callers PROVE Ahead(d)'
      BY DEF SteadyNodesAreAhead
    <2>1. CASE d # c
      BY <1>3, <1>t, <2>1 DEF Route, TypeOK, SteadyNodesAreAhead, Ahead, Has, MethodCapability,
           Capabilities
    <2>2. CASE d = c
      <3>1. call[c] \in Calls
        BY <1>t DEF TypeOK
      <3>2. call'[c].kind = call[c].kind /\ call'[c].method = call[c].method /\ call'[c].i = 0
        BY <1>3, <1>t, <3>1 DEF Route, TypeOK, Calls
      <3>3. steadyScan'[c] = {n \in Nodes : Serves(n, call[c].kind, call[c].method)}
        BY <1>3, <1>t DEF Route, TypeOK
      <3>4. \A n \in steadyScan'[c] : healthy'[n] /\ Has(n, call[c].kind, call[c].method)
        BY <1>3, <3>3 DEF Route, Serves
      <3>5. ~ \E j \in 0 .. N-1 : j < call'[c].i
        BY <3>2, SMT
      <3> QED BY <2>2, <3>2, <3>4, <3>5 DEF Ahead, Has, MethodCapability, Capabilities
    <2> QED BY <2>1, <2>2
  <1>4. ASSUME NEW c \in Callers, Inspect(c) PROVE SteadyNodesAreAhead'
    <2>1. CASE Serves(slot(c), call[c].kind, call[c].method)
      <3> DEFINE r == [call[c] EXCEPT !.pc = "send", !.start = 0, !.i = 0]
      <3>1. r.pc = "send"
        BY <1>t DEF TypeOK, Calls
      <3>2. call' = [call EXCEPT ![c] = r] /\ UNCHANGED healthy
        BY <1>4, <2>1 DEF Inspect
      <3>3. \A d \in Callers : steadyScan'[d] \subseteq steadyScan[d]
        BY <1>4, <1>t, <2>1 DEF Inspect, TypeOK
      <3> HIDE DEF r
      <3> QED BY <1>a, <3>1, <3>2, <3>3
    <2>2. CASE ~Serves(slot(c), call[c].kind, call[c].method)
      <3>1. call' = [call EXCEPT ![c].i = @ + 1] /\ UNCHANGED <<healthy, steadyScan>>
        BY <1>4, <2>2 DEF Inspect
      <3>2. call[c] \in Calls /\ call[c].pc = "scan"
        BY <1>4, <1>t DEF Inspect, TypeOK
      <3>3. /\ call'[c].pc = "scan" /\ call'[c].kind = call[c].kind
            /\ call'[c].method = call[c].method /\ call'[c].start = call[c].start
            /\ call'[c].i = call[c].i + 1
            /\ \A d \in Callers \ {c} : call'[d] = call[d]
        BY <3>1, <3>2, <1>t DEF TypeOK, Calls
      <3>4. slot(c) \notin steadyScan[c]
        BY <1>t, <2>2, <3>2 DEF SteadyNodesAreAhead, Ahead, Serves
      <3>5. ASSUME call[c].kind # "dial", NEW j \in 0 .. N-1, j < call[c].i + 1
            PROVE  (call[c].start + j) % N \notin steadyScan[c]
        <4>1. CASE j < call[c].i
          BY <1>t, <3>2, <3>5, <4>1 DEF SteadyNodesAreAhead, Ahead
        <4>2. CASE j = call[c].i
          BY <3>4, <3>5, <4>2 DEF slot
        <4> QED BY <3>5, <4>1, <4>2, <3>2, SMT DEF Calls
      <3>6. /\ \A n \in steadyScan[c] : healthy[n]
            /\ \A n \in steadyScan[c] : Has(n, call[c].kind, call[c].method)
        BY <1>t, <3>2 DEF SteadyNodesAreAhead, Ahead
      <3> SUFFICES ASSUME NEW d \in Callers PROVE Ahead(d)'
        BY DEF SteadyNodesAreAhead
      <3>7. CASE d = c
        BY <3>1, <3>3, <3>5, <3>6, <3>7 DEF Ahead, Has, MethodCapability, Capabilities
      <3>8. CASE d # c
        BY <1>t, <3>1, <3>3, <3>8 DEF SteadyNodesAreAhead, Ahead, Has, MethodCapability,
           Capabilities
      <3> QED BY <3>7, <3>8
    <2> QED BY <2>1, <2>2
  <1>5. ASSUME NEW c \in Callers, RouteNil(c) \/ GiveUp(c) PROVE SteadyNodesAreAhead'
    <2>1. finished("unavailable").pc # "scan"
      BY DEF finished, Idle
    <2>2. call' = [call EXCEPT ![c] = finished("unavailable")] /\ UNCHANGED healthy
      BY <1>5 DEF RouteNil, GiveUp
    <2>3. \A d \in Callers : steadyScan'[d] \subseteq steadyScan[d]
      BY <1>5, <1>t DEF RouteNil, GiveUp, TypeOK
    <2> QED BY <1>a, <2>1, <2>2, <2>3
  <1>6. ASSUME NEW c \in Callers, NEW o \in {"ok", "429", "failed"}, Reply(c, o)
        PROVE  SteadyNodesAreAhead'
    <2>1. reply(c, o).pc # "scan"
      BY <1>t, SMT DEF reply, finished, Idle, Calls, TypeOK
    <2>2. call' = [call EXCEPT ![c] = reply(c, o)] /\ UNCHANGED <<healthy, steadyScan>>
      BY <1>6 DEF Reply
    <2> QED BY <1>a, <2>1, <2>2
  <1>7. ASSUME NEW c \in Callers, Leave(c) PROVE SteadyNodesAreAhead'
    <2>1. Idle.pc # "scan"
      BY DEF Idle
    <2>2. call' = [call EXCEPT ![c] = Idle] /\ UNCHANGED <<healthy, steadyScan>>
      BY <1>7 DEF Leave
    <2> QED BY <1>a, <2>1, <2>2
  <1>8. CASE UNCHANGED vars
    BY <1>8, <1>t DEF SteadyNodesAreAhead, Ahead, vars, Has, MethodCapability, Capabilities
  <1> QED
    BY <1>1, <1>2, <1>3, <1>4, <1>5, <1>6, <1>7, <1>8 DEF Next, Loop

LEMMA InitScanInv == Init => ScanInv
  <1> SUFFICES ASSUME Init PROVE ScanInv
    OBVIOUS
  <1>1. 0 \in Nodes /\ 0 \in 0 .. N
    BY NAssumption, SMT DEF Nodes
  <1>2. Idle \in Calls /\ Idle.pc = "idle"
    BY <1>1 DEF Idle, Calls, AllKinds, AllPrefixes
  <1>3. TypeOK
    BY <1>1, <1>2 DEF Init, TypeOK
  <1>4. TriesLeft /\ SteadyNodesAreAhead
    BY <1>2 DEF Init, TriesLeft, SteadyNodesAreAhead, Ahead
  <1> QED BY <1>3, <1>4 DEF ScanInv

(***************************************************************************)
(* The scan invariant holds in every reachable state.                      *)
(***************************************************************************)
LEMMA ScanInvariance == Spec => []ScanInv
  BY InitScanInv, NextScanInv, PTL DEF Spec

(***************************************************************************)
(* The variables of the callers and the pool keep their types.             *)
(***************************************************************************)
THEOREM TypeCorrect == Spec => []TypeOK
  BY ScanInvariance, PTL DEF ScanInv

LEMMA ScanNil == ScanInv => RouteNilMeansNoneSteady
  <1> SUFFICES ASSUME ScanInv, NEW c \in Callers,
                      call[c].pc = "scan", call[c].i = N, call[c].kind # "dial"
               PROVE  steadyScan[c] = {}
    BY DEF RouteNilMeansNoneSteady
  <1>1. call[c].start \in Nodes /\ steadyScan[c] \subseteq Nodes
    BY DEF ScanInv, TypeOK, Calls
  <1>2. \A j \in 0 .. N-1 : (call[c].start + j) % N \notin steadyScan[c]
    BY NAssumption, SMT DEF ScanInv, SteadyNodesAreAhead, Ahead
  <1>3. \A m \in Nodes : \E j \in 0 .. N-1 : (call[c].start + j) % N = m
    BY <1>1, SlotsCover
  <1> QED BY <1>1, <1>2, <1>3, SMT

(***************************************************************************)
(* NextWithCapability answers nil only when no capable node was healthy    *)
(* during its whole scan, for any number of concurrent callers and any     *)
(* interleaving with the health checker.                                   *)
(***************************************************************************)
THEOREM NilIsHonest == Spec => []RouteNilMeansNoneSteady
  BY ScanNil, ScanInvariance, PTL

-----------------------------------------------------------------------------
(***************************************************************************)
(* What a call leaves behind when nobody else moves the counter.           *)
(***************************************************************************)
\* The slot j places before the counter.
Back(j) == (counter + (N - j)) % N

\* The call has no business with that slot any more.
Behind(c, j) == Back(j) \notin steady[c] \/ Back(j) \in tried[c]

\* A node that has been steady during the call has been so during the scan.
SteadyOK ==
    \A c \in Callers :
        /\ \A n \in steady[c] : healthy[n]
        /\ call[c].pc \in {"route", "scan", "send"} =>
              \A n \in steady[c] : Has(n, call[c].kind, call[c].method)
        /\ call[c].pc = "scan" => steady[c] \subseteq steadyScan[c]

\* Every try sweeps at least one slot.  Next moves the counter past each slot that
\* it looks at; NextWithCapability moves it past the first, before it looks.
Swept(c) ==
    /\ call[c].pc = "route" => \A j \in 1 .. N : j <= call[c].try => Behind(c, j)
    /\ call[c].pc = "send" => \A j \in 1 .. N : j <= call[c].try + 1 => Behind(c, j)
    /\ (call[c].pc = "scan" /\ call[c].kind = "dial") =>
          \A j \in 1 .. N : /\ j <= call[c].try + call[c].i => Behind(c, j)
                            /\ j <= call[c].i => Back(j) \notin steadyScan[c]
    /\ (call[c].pc = "scan" /\ call[c].kind # "dial") =>
          /\ call[c].start = Back(1)
          /\ call[c].i > 0 => Behind(c, 1)
          /\ \A j \in 2 .. N : j <= call[c].try + 1 => Behind(c, j)
    /\ (call[c].pc = "done" /\ call[c].result = "unavailable") => steady[c] \subseteq tried[c]

SweptOK == \A c \in Callers : c \notin overtaken => Swept(c)

SweepInv == ScanInv /\ SteadyOK /\ SweptOK

LEMMA BackSlot ==
    ASSUME NEW k \in Nodes, NEW j \in 1 .. N
    PROVE  /\ (k + (N - j)) % N = IF j <= k THEN k - j ELSE k - j + N
           /\ (k + (N - j)) % N \in Nodes
<1>1. N - j \in 0 .. N
  BY NAssumption, SMT
<1>2. (k + (N - j)) % N = IF k + (N - j) < N THEN k + (N - j) ELSE k + (N - j) - N
  BY <1>1, SlotSum
<1> QED
  BY <1>2, NAssumption, SMT DEF Nodes

\* Moving the counter moves every slot behind it one place further back.
LEMMA BackOfAdvance ==
    ASSUME TypeOK, counter' = Advance(counter)
    PROVE  /\ Back(1)' = counter
           /\ \A j \in 2 .. N : j - 1 \in 1 .. N /\ Back(j)' = Back(j - 1)
<1> DEFINE k == Advance(counter)
<1>1. counter \in Nodes /\ k \in Nodes
  BY SlotsInPool DEF TypeOK
<1>2. k = IF counter + 1 < N THEN counter + 1 ELSE counter + 1 - N
  <2>1. 1 \in 0 .. N
    BY NAssumption, SMT
  <2> QED
    BY <1>1, <2>1, SlotSum DEF Advance
<1> HIDE DEF k
<1>3. counter' = k
  BY DEF k
<1>4. (k + (N - 1)) % N = counter
  <2>1. 1 \in 1 .. N
    BY NAssumption, SMT
  <2>2. (k + (N - 1)) % N = IF 1 <= k THEN k - 1 ELSE k - 1 + N
    BY <1>1, <2>1, BackSlot
  <2> QED
    BY <1>1, <1>2, <2>2, NAssumption, SMT DEF Nodes
<1>5. ASSUME NEW j \in 2 .. N
      PROVE  j - 1 \in 1 .. N /\ (k + (N - j)) % N = (counter + (N - (j - 1))) % N
  <2>1. j \in 1 .. N /\ j - 1 \in 1 .. N
    BY NAssumption, SMT
  <2>2. (k + (N - j)) % N = IF j <= k THEN k - j ELSE k - j + N
    BY <1>1, <2>1, BackSlot
  <2>3. (counter + (N - (j - 1))) % N
          = IF j - 1 <= counter THEN counter - (j - 1) ELSE counter - (j - 1) + N
    BY <1>1, <2>1, BackSlot
  <2> QED
    BY <1>1, <1>2, <2>1, <2>2, <2>3, NAssumption, SMT DEF Nodes
<1> QED
  BY <1>3, <1>4, <1>5 DEF Back

\* The N slots behind the counter are all nodes.
LEMMA BackCovers ==
    ASSUME TypeOK, NEW m \in Nodes PROVE \E j \in 1 .. N : Back(j) = m
<1>1. counter \in Nodes
  BY DEF TypeOK
<1>2. PICK i \in 0 .. N-1 : (counter + i) % N = m
  BY <1>1, SlotsCover
<1>3. N - i \in 1 .. N /\ N - (N - i) = i
  BY NAssumption, SMT
<1>4. Back(N - i) = m
  BY <1>2, <1>3 DEF Back
<1> QED
  BY <1>3, <1>4

LEMMA SweptAll ==
    ASSUME TypeOK, NEW c \in Callers, \A j \in 1 .. N : Behind(c, j)
    PROVE  steady[c] \subseteq tried[c]
<1> SUFFICES ASSUME NEW m \in steady[c] PROVE m \in tried[c]
  OBVIOUS
<1>1. m \in Nodes
  BY DEF TypeOK
<1>2. PICK j \in 1 .. N : Back(j) = m
  BY <1>1, BackCovers
<1> QED
  BY <1>2 DEF Behind

\* Has depends on the constants alone.
LEMMA SteadyRest ==
    ASSUME TypeOK, SteadyOK, UNCHANGED <<healthy, steady>>, NEW c \in Callers, NEW r,
           call' = [call EXCEPT ![c] = r],
           r.pc \in {"route", "scan", "send"} =>
               /\ call[c].pc \in {"route", "scan", "send"}
               /\ r.kind = call[c].kind /\ r.method = call[c].method,
           r.pc = "scan" => steady[c] \subseteq steadyScan'[c],
           \A d \in Callers \ {c} : steadyScan'[d] = steadyScan[d]
    PROVE  SteadyOK'
<1> SUFFICES ASSUME NEW d \in Callers
             PROVE  /\ \A n \in steady'[d] : healthy'[n]
                    /\ call'[d].pc \in {"route", "scan", "send"} =>
                          \A n \in steady'[d] : Has(n, call[d].kind, call[d].method)'
                    /\ call'[d].pc = "scan" => steady'[d] \subseteq steadyScan'[d]
  BY DEF SteadyOK
<1>1. call'[d] = IF d = c THEN r ELSE call[d]
  BY DEF TypeOK
<1>2. CASE d = c
  BY <1>1, <1>2 DEF SteadyOK, Has
<1>3. CASE d # c
  BY <1>1, <1>3, SMT DEF SteadyOK, Has
<1> QED
  BY <1>2, <1>3

LEMMA NextSteadyOK == TypeOK /\ SteadyOK /\ [Next]_vars => SteadyOK'
<1> SUFFICES ASSUME TypeOK, SteadyOK, [Next]_vars PROVE SteadyOK'
  OBVIOUS
<1>1. ASSUME NEW n \in Nodes, SetHealthy(n) PROVE SteadyOK'
  BY <1>1 DEF SetHealthy, SteadyOK, TypeOK, Has
<1>2. ASSUME NEW c \in Callers, NEW kind \in Kinds, NEW method \in Prefixes,
             Enter(c, kind, method)
      PROVE  SteadyOK'
  <2> DEFINE r == [Idle EXCEPT !.pc = "route", !.kind = kind, !.method = method]
  <2>1. r.pc = "route" /\ r.kind = kind /\ r.method = method
    BY DEF Idle
  <2>2. /\ call' = [call EXCEPT ![c] = r]
        /\ steady' = [steady EXCEPT ![c] = {n \in Nodes : Serves(n, kind, method)}]
        /\ UNCHANGED <<healthy, steadyScan>>
    BY <1>2 DEF Enter
  <2> HIDE DEF r
  <2> SUFFICES ASSUME NEW d \in Callers
               PROVE  /\ \A n \in steady'[d] : healthy'[n]
                      /\ call'[d].pc \in {"route", "scan", "send"} =>
                            \A n \in steady'[d] : Has(n, call[d].kind, call[d].method)'
                      /\ call'[d].pc = "scan" => steady'[d] \subseteq steadyScan'[d]
    BY DEF SteadyOK
  <2>3. CASE d = c
    <3>1. call'[c] = r /\ steady'[c] = {n \in Nodes : Serves(n, kind, method)}
      BY <2>2 DEF TypeOK
    <3> QED
      BY <2>1, <2>2, <2>3, <3>1 DEF Serves, Has
  <2>4. CASE d # c
    <3>1. call'[d] = call[d] /\ steady'[d] = steady[d]
      BY <2>2, <2>4 DEF TypeOK
    <3> QED
      BY <2>2, <3>1 DEF SteadyOK, Has
  <2> QED
    BY <2>3, <2>4
<1>3. ASSUME NEW c \in Callers, Route(c) PROVE SteadyOK'
  <2> DEFINE r == [call[c] EXCEPT !.pc = "scan", !.start = counter, !.i = 0]
  <2>1. r.kind = call[c].kind /\ r.method = call[c].method /\ call[c].pc = "route"
    BY <1>3 DEF Route, TypeOK, Calls
  <2>2. call' = [call EXCEPT ![c] = r]
    BY <1>3 DEF Route, TypeOK, Calls
  <2>3. steadyScan'[c] = {n \in Nodes : Serves(n, call[c].kind, call[c].method)}
    BY <1>3 DEF Route, TypeOK
  <2>4. steady[c] \subseteq steadyScan'[c]
    BY <2>1, <2>3 DEF SteadyOK, Serves, TypeOK
  <2>5. /\ UNCHANGED <<healthy, steady>>
        /\ \A d \in Callers \ {c} : steadyScan'[d] = steadyScan[d]
    BY <1>3 DEF Route, TypeOK
  <2> HIDE DEF r
  <2> QED
    BY <2>1, <2>2, <2>4, <2>5, SteadyRest
<1>4. ASSUME NEW c \in Callers, Inspect(c) PROVE SteadyOK'
  <2>1. /\ UNCHANGED <<healthy, steady>> /\ call[c].pc = "scan" /\ call[c] \in Calls
        /\ \A d \in Callers \ {c} : steadyScan'[d] = steadyScan[d]
    BY <1>4 DEF Inspect, TypeOK
  <2>2. CASE Serves(slot(c), call[c].kind, call[c].method)
    <3> DEFINE r == [call[c] EXCEPT !.pc = "send", !.start = 0, !.i = 0]
    <3>1. r.kind = call[c].kind /\ r.method = call[c].method /\ r.pc = "send"
      BY <2>1 DEF Calls
    <3>2. call' = [call EXCEPT ![c] = r]
      BY <1>4, <2>2 DEF Inspect, TypeOK, Calls
    <3> HIDE DEF r
    <3> QED
      BY <2>1, <3>1, <3>2, SteadyRest
  <2>3. CASE ~Serves(slot(c), call[c].kind, call[c].method)
    <3> DEFINE r == [call[c] EXCEPT !.i = @ + 1]
    <3>1. r.kind = call[c].kind /\ r.method = call[c].method
      BY <2>1 DEF Calls
    <3>2. call' = [call EXCEPT ![c] = r] /\ steadyScan' = steadyScan
      BY <1>4, <2>3 DEF Inspect, TypeOK, Calls
    <3>3. steady[c] \subseteq steadyScan'[c]
      BY <2>1, <3>2 DEF SteadyOK
    <3> HIDE DEF r
    <3> QED
      BY <2>1, <3>1, <3>2, <3>3, SteadyRest
  <2> QED
    BY <2>2, <2>3
<1>5. ASSUME NEW c \in Callers, RouteNil(c) \/ GiveUp(c) PROVE SteadyOK'
  <2>1. finished("unavailable").pc = "done"
    BY DEF finished, Idle
  <2>2. /\ call' = [call EXCEPT ![c] = finished("unavailable")]
        /\ UNCHANGED <<healthy, steady>>
        /\ \A d \in Callers \ {c} : steadyScan'[d] = steadyScan[d]
    BY <1>5 DEF RouteNil, GiveUp, TypeOK
  <2> QED
    BY <2>1, <2>2, SteadyRest
<1>6. ASSUME NEW c \in Callers, NEW o \in {"ok", "429", "failed"}, Reply(c, o) PROVE SteadyOK'
  <2>1. \/ reply(c, o).pc = "done"
        \/ /\ reply(c, o).pc = "route"
           /\ reply(c, o).kind = call[c].kind /\ reply(c, o).method = call[c].method
    BY SMT DEF reply, finished, Idle, Calls, TypeOK
  <2>2. /\ call' = [call EXCEPT ![c] = reply(c, o)] /\ call[c].pc = "send"
        /\ UNCHANGED <<healthy, steady, steadyScan>>
    BY <1>6 DEF Reply
  <2> QED
    BY <2>1, <2>2, SteadyRest
<1>7. ASSUME NEW c \in Callers, Leave(c) PROVE SteadyOK'
  <2>1. Idle.pc = "idle"
    BY DEF Idle
  <2> QED
    BY <1>7, <2>1 DEF Leave, SteadyOK, TypeOK, Has
<1>8. CASE UNCHANGED vars
  BY <1>8 DEF SteadyOK, vars, Has
<1> QED
  BY <1>1, <1>2, <1>3, <1>4, <1>5, <1>6, <1>7, <1>8 DEF Next, Loop

\* A call is not disturbed by a step that is not its own and leaves the counter.
LEMMA SweptUndisturbed ==
    ASSUME NEW d \in Callers, Swept(d), call'[d] = call[d], tried'[d] = tried[d],
           steady'[d] \subseteq steady[d], steadyScan'[d] \subseteq steadyScan[d],
           call[d].pc = "idle" \/ counter' = counter
    PROVE  Swept(d)'
<1>1. CASE call[d].pc = "idle"
  BY <1>1 DEF Swept
<1>2. CASE counter' = counter
  <2>1. \A j \in Int : Back(j)' = Back(j)
    BY <1>2 DEF Back
  <2>2. \A j \in Int : Behind(d, j) => Behind(d, j)'
    BY <2>1 DEF Behind
  <2>3. CASE call[d].pc \in {"route", "send", "done"}
    BY <2>2, <2>3, SMT DEF Swept
  <2>4. CASE call[d].pc = "scan" /\ call[d].kind = "dial"
    BY <2>1, <2>2, <2>4, SMT DEF Swept
  <2>5. CASE call[d].pc = "scan" /\ call[d].kind # "dial"
    BY <2>1, <2>2, <2>5, SMT DEF Swept
  <2> QED
    BY <2>3, <2>4, <2>5 DEF Swept
<1> QED
  BY <1>1, <1>2

LEMMA EnterSwept ==
    ASSUME TypeOK, NEW c \in Callers, NEW kind \in Kinds, NEW method \in Prefixes,
           Enter(c, kind, method)
    PROVE  Swept(c)'
<1>1. call'[c].pc = "route" /\ call'[c].try = 0
  BY DEF Enter, TypeOK, Idle
<1>2. ~ \E j \in 1 .. N : j <= 0
  BY NAssumption, SMT
<1> QED
  BY <1>1, <1>2 DEF Swept

LEMMA RouteSwept ==
    ASSUME TypeOK, NEW c \in Callers, Swept(c), Route(c) PROVE Swept(c)'
<1>1. /\ call[c] \in Calls /\ call[c].try \in Nat
      /\ \A j \in 1 .. N : j <= call[c].try => Behind(c, j)
  BY NAssumption, SMT DEF TypeOK, Calls, Swept, Route
<1>2. /\ call'[c].pc = "scan" /\ call'[c].kind = call[c].kind /\ call'[c].try = call[c].try
      /\ call'[c].start = counter /\ call'[c].i = 0
  BY <1>1 DEF Route, TypeOK, Calls
<1>3. tried' = tried /\ steady' = steady
  BY DEF Route
<1>4. CASE call[c].kind = "dial"
  <2>1. \A j \in 1 .. N : Behind(c, j) => Behind(c, j)'
    BY <1>3, <1>4 DEF Route, Behind, Back
  <2>2. \A j \in 1 .. N : ~(j <= 0) /\ (j <= call[c].try + 0 => j <= call[c].try)
    BY <1>1, SMT
  <2> QED
    BY <1>1, <1>2, <1>4, <2>1, <2>2 DEF Swept
<1>5. CASE call[c].kind # "dial"
  <2>1. counter' = Advance(counter)
    BY <1>5 DEF Route
  <2>2. /\ Back(1)' = counter
        /\ \A j \in 2 .. N : j - 1 \in 1 .. N /\ Back(j)' = Back(j - 1)
    BY <2>1, BackOfAdvance
  <2>3. ASSUME NEW j \in 2 .. N, j <= call[c].try + 1 PROVE Behind(c, j)'
    <3>1. Behind(c, j - 1)
      BY <1>1, <2>2, <2>3, SMT
    <3> QED
      BY <1>3, <2>2, <3>1 DEF Behind
  <2> QED
    BY <1>2, <1>5, <2>2, <2>3, SMT DEF Swept
<1> QED
  BY <1>4, <1>5

\* The slot that a scan looks at is the counter or, first, the slot behind it.
LEMMA DialInspectSwept ==
    ASSUME ScanInv, SteadyOK, NEW c \in Callers, Swept(c), Inspect(c), call[c].kind = "dial"
    PROVE  Swept(c)'
<1>1. /\ TypeOK /\ call[c] \in Calls /\ call[c].pc = "scan"
      /\ call[c].try \in Nat /\ call[c].i \in Nat
  BY NAssumption, SMT DEF ScanInv, TypeOK, Calls, Inspect
<1>2. \A j \in 1 .. N : /\ j <= call[c].try + call[c].i => Behind(c, j)
                        /\ j <= call[c].i => Back(j) \notin steadyScan[c]
  BY <1>1 DEF Swept
<1>3. steady' = steady /\ counter' = Advance(counter) /\ slot(c) = counter
  BY DEF Inspect, slot
<1>4. /\ Back(1)' = counter
      /\ \A j \in 2 .. N : j - 1 \in 1 .. N /\ Back(j)' = Back(j - 1)
  BY <1>1, <1>3, BackOfAdvance
<1>5. \A j \in 1 .. N : j = 1 \/ j \in 2 .. N
  BY NAssumption, SMT
<1>6. CASE Serves(slot(c), call[c].kind, call[c].method)
  <2>1. /\ call'[c].pc = "send" /\ call'[c].try = call[c].try
        /\ tried'[c] = tried[c] \cup {counter}
    BY <1>1, <1>3, <1>6, SMT DEF Inspect, TypeOK, Calls
  <2>2. ASSUME NEW j \in 1 .. N, j <= call[c].try + 1 PROVE Behind(c, j)'
    <3>1. CASE j = 1
      BY <1>4, <2>1, <3>1 DEF Behind
    <3>2. CASE j \in 2 .. N
      <4>1. Behind(c, j - 1)
        BY <1>1, <1>2, <1>4, <2>2, <3>2, SMT
      <4> QED
        BY <1>3, <1>4, <2>1, <3>2, <4>1 DEF Behind
    <3> QED
      BY <1>5, <3>1, <3>2
  <2> QED
    BY <2>1, <2>2 DEF Swept
<1>7. CASE ~Serves(slot(c), call[c].kind, call[c].method)
  <2>1. /\ call'[c].pc = "scan" /\ call'[c].try = call[c].try /\ call'[c].kind = "dial"
        /\ call'[c].i = call[c].i + 1 /\ tried' = tried /\ steadyScan' = steadyScan
    BY <1>1, <1>7, SMT DEF Inspect, TypeOK, Calls
  <2>2. counter \notin steadyScan[c] /\ counter \notin steady[c]
    BY <1>1, <1>3, <1>7 DEF ScanInv, SteadyNodesAreAhead, Ahead, SteadyOK, Serves
  <2>3. ASSUME NEW j \in 1 .. N
        PROVE  /\ j <= call[c].try + (call[c].i + 1) => Behind(c, j)'
               /\ j <= call[c].i + 1 => Back(j)' \notin steadyScan[c]
    <3>1. CASE j = 1
      BY <1>3, <1>4, <2>2, <3>1 DEF Behind
    <3>2. CASE j \in 2 .. N
      <4>1. /\ j <= call[c].try + (call[c].i + 1) => Behind(c, j - 1)
            /\ j <= call[c].i + 1 => Back(j - 1) \notin steadyScan[c]
        BY <1>1, <1>2, <1>4, <3>2, SMT
      <4> QED
        BY <1>3, <1>4, <2>1, <3>2, <4>1 DEF Behind
    <3> QED
      BY <1>5, <3>1, <3>2
  <2> QED
    BY <2>1, <2>3 DEF Swept
<1> QED
  BY <1>6, <1>7

LEMMA RouteInspectSwept ==
    ASSUME ScanInv, SteadyOK, NEW c \in Callers, Swept(c), Inspect(c), call[c].kind # "dial"
    PROVE  Swept(c)'
<1>1. /\ TypeOK /\ call[c] \in Calls /\ call[c].pc = "scan" /\ call[c].start \in Nodes
      /\ call[c].try \in Nat /\ call[c].i \in Nat
  BY NAssumption, SMT DEF ScanInv, TypeOK, Calls, Inspect
<1>2. /\ call[c].start = Back(1)
      /\ call[c].i > 0 => Behind(c, 1)
      /\ \A j \in 2 .. N : j <= call[c].try + 1 => Behind(c, j)
  BY <1>1 DEF Swept
<1>3. steady' = steady /\ (\A j \in Int : Back(j)' = Back(j))
  BY DEF Inspect, Back
<1>4. call[c].i = 0 => slot(c) = Back(1)
  <2>1. 0 \in 0 .. N /\ call[c].start + 0 < N /\ call[c].start + 0 = call[c].start
    BY <1>1, NAssumption, SMT DEF Nodes
  <2>2. (call[c].start + 0) % N = call[c].start
    BY <1>1, <2>1, SlotSum
  <2> QED
    BY <1>2, <2>2 DEF slot
<1>5. CASE Serves(slot(c), call[c].kind, call[c].method)
  <2>1. /\ call'[c].pc = "send" /\ call'[c].try = call[c].try
        /\ tried'[c] = tried[c] \cup {slot(c)}
    BY <1>1, <1>5, SMT DEF Inspect, TypeOK, Calls
  <2>2. \A j \in Int : Behind(c, j) => Behind(c, j)'
    BY <1>3, <2>1 DEF Behind
  <2>3. Behind(c, 1)'
    <3>1. CASE call[c].i = 0
      BY <1>3, <1>4, <2>1, <3>1, SMT DEF Behind
    <3>2. CASE call[c].i > 0
      BY <1>2, <2>2, <3>2, SMT
    <3> QED
      BY <1>1, <3>1, <3>2, SMT
  <2>4. \A j \in 1 .. N : j <= call[c].try + 1 => Behind(c, j)'
    <3>1. \A j \in 1 .. N : j = 1 \/ j \in 2 .. N
      BY NAssumption, SMT
    <3> QED
      BY <1>2, <2>2, <2>3, <3>1, SMT
  <2> QED
    BY <2>1, <2>4 DEF Swept
<1>6. CASE ~Serves(slot(c), call[c].kind, call[c].method)
  <2>1. /\ call'[c].pc = "scan" /\ call'[c].try = call[c].try /\ call'[c].kind = call[c].kind
        /\ call'[c].start = call[c].start /\ call'[c].i = call[c].i + 1 /\ tried' = tried
    BY <1>1, <1>6, SMT DEF Inspect, TypeOK, Calls
  <2>2. \A j \in Int : Behind(c, j) => Behind(c, j)'
    BY <1>3, <2>1 DEF Behind
  <2>3. Behind(c, 1)
    <3>1. CASE call[c].i = 0
      BY <1>1, <1>4, <1>6, <3>1 DEF Behind, SteadyOK, Serves
    <3>2. CASE call[c].i > 0
      BY <1>2, <3>2
    <3> QED
      BY <1>1, <3>1, <3>2, SMT
  <2>4. call'[c].start = Back(1)' /\ Behind(c, 1)'
    BY <1>2, <1>3, <2>1, <2>2, <2>3, SMT
  <2>5. \A j \in 2 .. N : j <= call[c].try + 1 => Behind(c, j)'
    BY <1>2, <2>2, SMT
  <2> QED
    BY <2>1, <2>4, <2>5 DEF Swept
<1> QED
  BY <1>5, <1>6

LEMMA ReplySwept ==
    ASSUME TypeOK, NEW c \in Callers, NEW o \in {"ok", "429", "failed"}, Swept(c), Reply(c, o)
    PROVE  Swept(c)'
<1>1. call[c] \in Calls /\ call'[c] = reply(c, o) /\ call[c].pc = "send"
  BY DEF TypeOK, Reply
<1>2. \/ reply(c, o).pc = "done" /\ reply(c, o).result \in {"ok", "rate_limited"}
      \/ reply(c, o).pc = "route" /\ reply(c, o).try = call[c].try + 1
  BY <1>1 DEF reply, finished, Idle, Calls
<1>3. \A j \in 1 .. N : Behind(c, j)' <=> Behind(c, j)
  BY DEF Reply, Behind, Back
<1>4. \A j \in 1 .. N : j <= call[c].try + 1 => Behind(c, j)
  BY <1>1 DEF Swept
<1>5. CASE reply(c, o).pc = "done" /\ reply(c, o).result \in {"ok", "rate_limited"}
  BY <1>1, <1>5 DEF Swept
<1>6. CASE reply(c, o).pc = "route" /\ reply(c, o).try = call[c].try + 1
  BY <1>1, <1>3, <1>4, <1>6 DEF Swept
<1> QED
  BY <1>2, <1>5, <1>6

\* Both ways to end without an answer come after the N slots.
LEMMA UnavailableSwept ==
    ASSUME ScanInv, SteadyOK, NEW c \in Callers, Swept(c), RouteNil(c) \/ GiveUp(c)
    PROVE  Swept(c)'
<1>1. TypeOK /\ call[c] \in Calls /\ call[c].try \in Nat
  BY NAssumption, SMT DEF ScanInv, TypeOK, Calls
<1>2. /\ call'[c].pc = "done" /\ tried' = tried /\ steady' = steady
  BY <1>1 DEF RouteNil, GiveUp, TypeOK, finished, Idle
<1>3. steady[c] \subseteq tried[c]
  <2>1. CASE GiveUp(c)
    <3>1. call[c].pc = "route" /\ call[c].try >= N
      BY <2>1 DEF GiveUp, outOfTries
    <3>2. \A j \in 1 .. N : Behind(c, j)
      <4>1. \A j \in 1 .. N : j <= call[c].try
        BY <1>1, <3>1, NAssumption, SMT
      <4> QED
        BY <3>1, <4>1 DEF Swept
    <3> QED
      BY <1>1, <3>2, SweptAll
  <2>2. CASE RouteNil(c) /\ call[c].kind = "dial"
    <3>1. call[c].pc = "scan" /\ call[c].i = N
      BY <2>2 DEF RouteNil
    <3>2. \A j \in 1 .. N : Behind(c, j)
      <4>1. \A j \in 1 .. N : j <= call[c].try + N
        BY <1>1, NAssumption, SMT
      <4> QED
        BY <2>2, <3>1, <4>1 DEF Swept
    <3> QED
      BY <1>1, <3>2, SweptAll
  <2>3. CASE RouteNil(c) /\ call[c].kind # "dial"
    <3>1. call[c].pc = "scan" /\ call[c].i = N
      BY <2>3 DEF RouteNil
    <3>2. steadyScan[c] = {}
      BY <2>3, <3>1, ScanNil DEF RouteNilMeansNoneSteady
    <3> QED
      BY <3>1, <3>2 DEF SteadyOK
  <2> QED
    BY <2>1, <2>2, <2>3
<1> QED
  BY <1>2, <1>3 DEF Swept

\* A call that moved nobody's counter but its own, or none, keeps what it swept.
LEMMA NextSweptOK == SweepInv /\ [Next]_vars => SweptOK'
<1> SUFFICES ASSUME SweepInv, [Next]_vars, NEW d \in Callers, d \notin overtaken'
             PROVE  Swept(d)'
  BY DEF SweptOK
<1>1. ScanInv /\ SteadyOK /\ SweptOK /\ TypeOK
  BY DEF SweepInv, ScanInv
<1>2. ASSUME NEW n \in Nodes, SetHealthy(n) PROVE Swept(d)'
  <2>1. Swept(d)
    BY <1>1, <1>2 DEF SetHealthy, SweptOK
  <2> QED
    BY <1>1, <1>2, <2>1, SweptUndisturbed DEF SetHealthy, TypeOK
<1>3. CASE UNCHANGED vars
  <2>1. Swept(d)
    BY <1>1, <1>3 DEF vars, SweptOK
  <2> QED
    BY <1>3, <2>1, SweptUndisturbed DEF vars
<1>4. ASSUME NEW c \in Callers, NEW kind \in Kinds, NEW method \in Prefixes,
             Enter(c, kind, method)
      PROVE  Swept(d)'
  <2>1. CASE d = c
    BY <1>1, <1>4, <2>1, EnterSwept
  <2>2. CASE d # c
    <3>1. Swept(d)
      BY <1>1, <1>4 DEF Enter, SweptOK
    <3> QED
      BY <1>1, <1>4, <2>2, <3>1, SweptUndisturbed DEF Enter, TypeOK
  <2> QED
    BY <2>1, <2>2
<1>5. ASSUME NEW c \in Callers, Leave(c) PROVE Swept(d)'
  <2>1. CASE d = c
    <3>1. call'[d].pc = "idle"
      BY <1>1, <1>5, <2>1 DEF Leave, TypeOK, Idle
    <3> QED
      BY <3>1 DEF Swept
  <2>2. CASE d # c
    <3>1. Swept(d)
      BY <1>1, <1>5, <2>2 DEF Leave, SweptOK
    <3> QED
      BY <1>1, <1>5, <2>2, <3>1, SweptUndisturbed DEF Leave, TypeOK
  <2> QED
    BY <2>1, <2>2
<1>6. ASSUME NEW c \in Callers, Loop(c) PROVE Swept(d)'
  <2>1. d \notin overtaken
    BY <1>6 DEF Loop, Route, Inspect, RouteNil, Reply, GiveUp, NoteMove
  <2>2. Swept(d)
    BY <1>1, <2>1 DEF SweptOK
  <2>3. CASE d = c
    BY <1>1, <1>6, <2>2, <2>3, RouteSwept, DialInspectSwept, RouteInspectSwept, ReplySwept,
       UnavailableSwept DEF Loop
  <2>4. CASE d # c
    <3>1. call'[d] = call[d] /\ tried'[d] = tried[d] /\ steady' = steady
      BY <1>1, <1>6, <2>4 DEF Loop, Route, Inspect, RouteNil, Reply, GiveUp, TypeOK
    <3>2. steadyScan'[d] = steadyScan[d]
      BY <1>1, <1>6, <2>4 DEF Loop, Route, Inspect, RouteNil, Reply, GiveUp, TypeOK
    <3>3. call[d].pc = "idle" \/ counter' = counter
      BY <1>6, <2>4 DEF Loop, Route, Inspect, RouteNil, Reply, GiveUp, NoteMove
    <3> QED
      BY <2>2, <3>1, <3>2, <3>3, SweptUndisturbed
  <2> QED
    BY <2>3, <2>4
<1> QED
  BY <1>2, <1>3, <1>4, <1>5, <1>6 DEF Next

LEMMA SweepInvariance == Spec => []SweepInv
<1>1. Init => SweepInv
  <2> SUFFICES ASSUME Init PROVE SweepInv
    OBVIOUS
  <2>1. Idle.pc = "idle"
    BY DEF Idle
  <2>2. SteadyOK /\ SweptOK
    BY <2>1 DEF Init, SteadyOK, SweptOK, Swept
  <2> QED
    BY <2>2, InitScanInv DEF SweepInv
<1>2. SweepInv /\ [Next]_vars => SweepInv'
  BY NextScanInv, NextSteadyOK, NextSweptOK DEF SweepInv, ScanInv
<1> QED
  BY <1>1, <1>2, PTL DEF Spec

(***************************************************************************)
(* Next answers nil only when no node was healthy during its whole scan,   *)
(* as long as no concurrent caller moved Pool.counter meanwhile.           *)
(***************************************************************************)
THEOREM NextNilIsHonest == Spec => []NextNilMeansNoneSteady
<1>1. SweepInv => NextNilMeansNoneSteady
  <2> SUFFICES ASSUME SweepInv, NEW c \in Callers, call[c].pc = "scan", call[c].i = N,
                      call[c].kind = "dial", c \notin overtaken
               PROVE  steadyScan[c] = {}
    BY DEF NextNilMeansNoneSteady
  <2>1. TypeOK /\ Swept(c)
    BY DEF SweepInv, ScanInv, SweptOK
  <2>2. \A j \in 1 .. N : Back(j) \notin steadyScan[c]
    BY <2>1, NAssumption, SMT DEF Swept
  <2>3. steadyScan[c] \subseteq Nodes
    BY <2>1 DEF TypeOK
  <2> QED
    BY <2>1, <2>2, <2>3, BackCovers
<1> QED
  BY <1>1, SweepInvariance, PTL

(***************************************************************************)
(* The loops of proxyDirect, fetchFromUpstream and connectUpstream report  *)
(* that no node is available only after every node that could have served  *)
(* the call all along was tried, for every pool, as long as no concurrent  *)
(* caller moved Pool.counter meanwhile.                                    *)
(***************************************************************************)
THEOREM NoNodeIsPassedOver == Spec => []GivesUpAfterAll
<1>1. SweepInv => GivesUpAfterAll
  BY DEF SweepInv, SweptOK, Swept, GivesUpAfterAll
<1> QED
  BY <1>1, SweepInvariance, PTL
=============================================================================
