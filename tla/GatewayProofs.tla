--------------------------- MODULE GatewayProofs ----------------------------
(***************************************************************************)
(* Why what ServeHTTP keeps for ever about a numbered block stays right,   *)
(* and what of it survives when the nodes are those of HealthChecks and    *)
(* its rounds run while requests are served, for every pool, lag threshold *)
(* and depth.                                                              *)
(***************************************************************************)
EXTENDS Gateway, TLAPS

USE ZenonT(40)

-----------------------------------------------------------------------------
(***************************************************************************)
(* RpcHandler: the head is never ahead of a node in rotation by more than  *)
(* the lag threshold.                                                      *)
(***************************************************************************)
\* r asks for a block that can no longer be replaced, and every node in rotation
\* has it: Lag is at most Depth.
Settled(r) == Number(r) + Depth <= head

\* Caller c will keep for ever what it fetches, and asks for a numbered block.
KeepsForEver(c) ==
    /\ call[c] # Idle
    /\ Fixed(call[c].req)
    /\ call[c].layer # "mutable"

CallsOK ==
    \A c \in Callers :
        KeepsForEver(c) =>
            /\ Settled(call[c].req)
            /\ (At(c, "store") /\ call[c].out.t = "result") =>
                  call[c].out.val = version[Number(call[c].req)]

CacheOK ==
    \A r \in DOMAIN cache :
        Kept(r) /\ Fixed(r) => Settled(r) /\ cache[r].val = version[Number(r)]

IInv == TypeOK /\ CallsOK /\ CacheOK

-----------------------------------------------------------------------------
\* The number of a numbered request is a height, one of Blocks.
LEMMA NumberInBlocks ==
    ASSUME NEW r \in Requests, Fixed(r)
    PROVE  Number(r) \in Blocks /\ Number(r) \in Nat
<1>1. r.params \in Seq(Params) /\ blockIndex(r) \in 1 .. Len(r.params)
  BY RequestAssumption, SMT DEF Fixed, blockIndex
<1>2. r.params[blockIndex(r)] \in Params
  BY <1>1, SMT
<1>3. Number(r) \in Blocks
  BY <1>2 DEF Params, Number
<1>4. Number(r) \in 0 .. MaxHeight /\ MaxHeight \in Nat
  BY <1>3, LagAssumption DEF Heights
<1> QED
  BY <1>3, <1>4, SMT

\* A numbered request is kept for ever only when its block is settled.
LEMMA ClassifyIsCareful ==
    ASSUME NEW r \in Requests, Fixed(r), head \in Nat, Classify(r) # "mutable"
    PROVE  Settled(r)
<1>1. Number(r) \in Nat
  BY NumberInBlocks
<1>2. r.params \in Seq(Params)
  BY RequestAssumption
<1>3. Classify(r) = blockParamLayer(r.params[blockIndex(r)])
  BY <1>2, SMT DEF Classify, paramLayer, Fixed, blockIndex
<1>4. IsFinalized(Number(r))
  BY <1>3 DEF blockParamLayer, Fixed, Number
<1> QED
  BY <1>1, <1>4, LagAssumption, SMT DEF IsFinalized, Settled

\* What a node of height h answers to a numbered request.
LEMMA AnswerIsBlock ==
    ASSUME NEW r \in Requests, Fixed(r), NEW h \in Nat
    PROVE  Answer(r, h) = BlockAt(Number(r), h)
<1>1. r.params \in Seq(Params)
  BY RequestAssumption
<1> QED
  BY <1>1, SMT DEF Answer, ParamAnswer, Fixed, blockIndex, Number

\* Every node in rotation answers a settled request with the block.
LEMMA SettledAnswer ==
    ASSUME TypeOK, NEW r \in Requests, Fixed(r), Settled(r), NEW h \in Routable
    PROVE  Answer(r, h) = version[Number(r)]
<1>1. h \in Nat /\ h + Lag >= head
  BY LagAssumption, SMT DEF Routable, TypeOK, Heights
<1>2. Number(r) \in Nat
  BY NumberInBlocks
<1>3. Number(r) <= h
  BY <1>1, <1>2, LagAssumption, SMT DEF Settled, TypeOK, Heights
<1> QED
  BY <1>1, <1>3, AnswerIsBlock DEF BlockAt

-----------------------------------------------------------------------------
\* Nodes answer with results.
LEMMA AnswerType ==
    ASSUME TypeOK, NEW r \in Requests, NEW h \in Heights
    PROVE  Answer(r, h) \in Results
<1>1. h \in Heights
  OBVIOUS
<1>2. \A n \in Blocks : BlockAt(n, h) \in Results
  BY DEF TypeOK, BlockAt, Results
<1>3. r.params \in Seq(Params) /\ r.method \in Methods
  BY RequestAssumption
<1>4. ASSUME NEW idx \in {0, 1} PROVE ParamAnswer(r.params, idx, h) \in Results
  <2>1. CASE Len(r.params) <= idx
    BY <1>1, <2>1 DEF ParamAnswer, Results
  <2>2. CASE ~(Len(r.params) <= idx)
    <3>1. r.params[idx + 1] \in Params
      BY <1>3, <2>2, SMT
    <3>2. r.params[idx + 1].n \in Blocks
      BY <3>1 DEF Params
    <3>3. (IF h >= Depth THEN h - Depth ELSE 0) \in Heights
      BY <1>1, LagAssumption, SMT DEF Heights
    <3> QED
      BY <1>1, <1>2, <2>2, <3>2, <3>3 DEF ParamAnswer, Results
  <2> QED
    BY <2>1, <2>2
<1>5. TxHeight \in Blocks
  BY LagAssumption
<1> QED
  BY <1>1, <1>2, <1>4, <1>5 DEF Answer, Results

LEMMA InitTypeOK == Init => TypeOK
BY LagAssumption, SMT DEF Init, TypeOK, Heights, Empty

\* One step of ServeHTTP preserves the types, whichever nodes may answer.
LEMMA ServeTypeOK ==
    ASSUME TypeOK, NEW c \in Callers, NEW hs \in SUBSET Heights, ServeHTTP(c, hs)
    PROVE  TypeOK'
<1>1. ASSUME NEW r \in Requests, Receive(c, r) PROVE TypeOK'
  <2>1. Classify(r) \in Layers
    BY DEF Classify, Layers, paramLayer, blockParamLayer
  <2> QED
    BY <1>1, <2>1 DEF TypeOK, Receive, chain, Asking
<1>2. CASE ProxyDirect(c, hs)
  <2>1. call[c] \in Asking
    BY <1>2, SMT DEF TypeOK, ProxyDirect, At, Idle, Answered
  <2>2. \A h \in hs : Answer(call[c].req, h) \in Results
    BY <2>1, AnswerType DEF Asking
  <2> QED
    BY <1>2, <2>1, <2>2, SMT DEF TypeOK, ProxyDirect, chain, Finish, Asking, Answered, Outcomes, Failed, Result
<1>3. CASE GetNeg(c)
  <2>1. call[c] \in Asking
    BY <1>3, SMT DEF TypeOK, GetNeg, At, Idle, Answered
  <2> QED
    BY <1>3, <2>1, SMT DEF TypeOK, GetNeg, chain, Finish, Goto, Asking, Answered, Outcomes, Failed
<1>4. CASE GetKey(c)
  <2>1. call[c] \in Asking
    BY <1>4, SMT DEF TypeOK, GetKey, At, Idle, Answered
  <2> QED
    BY <1>4, <2>1, SMT DEF TypeOK, GetKey, chain, Finish, Goto, Asking, Answered, Outcomes, Result
<1>5. CASE Join(c)
  <2>1. call[c] \in Asking
    BY <1>5, SMT DEF TypeOK, Join, At, Idle, Answered
  <2> QED
    BY <1>5, <2>1 DEF TypeOK, Join, chain, Goto, Asking
<1>6. CASE Fetch(c, hs)
  <2>1. call[c] \in Asking
    BY <1>6, SMT DEF TypeOK, Fetch, At, Idle, Answered
  <2>2. \A h \in hs : Answer(call[c].req, h) \in Results
    BY <2>1, AnswerType DEF Asking
  <2> QED
    BY <1>6, <2>1, <2>2, SMT DEF TypeOK, Fetch, chain, Finish, Asking, Answered, Outcomes, Result
<1>7. CASE Keep(c)
  <2>1. call[c] \in Answered
    BY <1>7, SMT DEF TypeOK, Keep, At, Idle, Asking
  <2>2. call' \in [Callers -> {Idle} \cup Asking \cup Answered]
    BY <1>7, <2>1 DEF TypeOK, Keep, afterKeep, Goto, Answered
  <2> QED
    BY <1>7, <2>1, <2>2, LagAssumption, SMT
       DEF TypeOK, Keep, afterKeep, chain, Put, ttl, negExpiry, Answered, Outcomes
<1>8. CASE Deliver(c)
  <2>1. call[c] \in Answered
    BY <1>8, SMT DEF TypeOK, Deliver, At, Idle, Asking
  <2>2. \A d \in released(c) : call[d] \in Asking \cup Answered
    BY <2>1, SMT DEF TypeOK, released, Waiters, At, Idle
  <2>3. call' \in [Callers -> {Idle} \cup Asking \cup Answered]
    BY <1>8, <2>1, <2>2 DEF TypeOK, Deliver, Asking, Answered
  <2> QED
    BY <1>8, <2>1, <2>3, SMT DEF TypeOK, Deliver, chain, Answered
<1>9. CASE Reply(c)
  BY <1>9 DEF TypeOK, Reply, chain
<1> QED
  BY <1>1, <1>2, <1>3, <1>4, <1>5, <1>6, <1>7, <1>8, <1>9 DEF ServeHTTP

\* The nodes in rotation have the chain up to one of its heights.
LEMMA RoutableHeights == TypeOK => Routable \subseteq Heights
BY LagAssumption, SMT DEF TypeOK, Routable, Heights

\* So does a step of the environment.
LEMMA NextTypeOK == TypeOK /\ [Next]_vars => TypeOK'
<1> SUFFICES ASSUME TypeOK, [Next]_vars PROVE TypeOK'
  OBVIOUS
<1>1. CASE \E c \in Callers : ServeHTTP(c, Routable)
  BY <1>1, ServeTypeOK, RoutableHeights
<1>2. CASE Grow
  BY <1>2, LagAssumption, SMT DEF TypeOK, Grow, Heights
<1>3. CASE Reorg
  BY <1>3, SMT DEF TypeOK, Reorg
<1>4. CASE SetHead
  BY <1>4, SMT DEF TypeOK, SetHead, Heights
<1>5. CASE Evict
  BY <1>5 DEF TypeOK, Evict, chain, Restrict
<1>6. CASE Pass
  BY <1>6, LagAssumption, SMT DEF TypeOK, Pass, chain
<1>7. CASE UNCHANGED vars
  BY <1>7 DEF TypeOK, vars, chain
<1> QED
  BY <1>1, <1>2, <1>3, <1>4, <1>5, <1>6, <1>7 DEF Next

-----------------------------------------------------------------------------
LEMMA InitIInv == Init => IInv
<1> SUFFICES ASSUME Init PROVE IInv
  OBVIOUS
<1>1. TypeOK
  BY InitTypeOK
<1> QED
  BY <1>1 DEF Init, IInv, CallsOK, CacheOK, KeepsForEver, Empty

-----------------------------------------------------------------------------
(***************************************************************************)
(* What a step of ServeHTTP does to the calls and to what is kept.         *)
(***************************************************************************)
\* The state of a caller after a step of its own, in the forms the code writes it.
LEMMA GotoSets ==
    ASSUME TypeOK, NEW c \in Callers, call[c] # Idle, NEW st, Goto(c, st)
    PROVE  /\ call'[c].st = st /\ call'[c].req = call[c].req
           /\ call'[c].layer = call[c].layer /\ call'[c].start = call[c].start
           /\ \A d \in Callers \ {c} : call'[d] = call[d]
BY SMT DEF TypeOK, Goto, Asking, Answered

LEMMA FinishSets ==
    ASSUME TypeOK, NEW c \in Callers, NEW st, NEW out, Finish(c, st, out)
    PROVE  /\ call'[c].st = st /\ call'[c].req = call[c].req
           /\ call'[c].layer = call[c].layer /\ call'[c].start = call[c].start
           /\ call'[c].out = out
           /\ \A d \in Callers \ {c} : call'[d] = call[d]
BY DEF TypeOK, Finish

\* Caller d goes on with its request, if it has one, and is not about to store
\* anything it was not about to store before.
Carries(d) ==
    \/ call'[d] = Idle
    \/ /\ call[d] # Idle
       /\ call'[d].req = call[d].req /\ call'[d].layer = call[d].layer
       /\ At(d, "store")' => call'[d] = call[d]

\* Caller c takes up a request and chooses its layer.
Accepts(c) ==
    /\ call[c] = Idle
    /\ \E r \in Requests : call'[c].req = r /\ call'[c].layer = Classify(r)
    /\ call'[c].st \in {"direct", "neg"}

\* Caller c has the answer of a node, one of those with the heights hs, or none.
Fetches(c, hs) ==
    /\ call[c] # Idle
    /\ At(c, "fetch")
    /\ call'[c].req = call[c].req /\ call'[c].layer = call[c].layer
    /\ call'[c].out.t = "result" => \E h \in hs : call'[c].out.val = Answer(call[c].req, h)

\* Caller c stores the result it holds.
Stores(c) ==
    /\ At(c, "store") /\ call[c].out.t = "result"
    /\ \A r \in DOMAIN cache' \ {call[c].req} : r \in DOMAIN cache /\ cache'[r] = cache[r]
    /\ cache'[call[c].req].val = call[c].out.val
    /\ cache'[call[c].req].expiry = 0 => call[c].layer # "mutable"

\* Every step of ServeHTTP is one of these.
LEMMA ServeShape ==
    ASSUME TypeOK, NEW c \in Callers, NEW hs, ServeHTTP(c, hs)
    PROVE  /\ UNCHANGED chain
           /\ \A d \in Callers \ {c} : Carries(d)
           /\ \/ call[c] # Idle /\ Carries(c) /\ (UNCHANGED cache \/ Stores(c))
              \/ Accepts(c) /\ UNCHANGED cache
              \/ Fetches(c, hs) /\ UNCHANGED cache
<1>i. \A st : At(c, st) /\ st # "idle" => call[c] # Idle
  BY SMT DEF At, Idle
<1>o. ASSUME \A d \in Callers \ {c} : call'[d] = call[d]
      PROVE  \A d \in Callers \ {c} : Carries(d)
  BY <1>o DEF Carries
<1>1. ASSUME NEW r \in Requests, Receive(c, r)
      PROVE  UNCHANGED <<chain, cache>> /\ Accepts(c) /\ \A d \in Callers \ {c} : Carries(d)
  <2>1. /\ call'[c].req = r /\ call'[c].layer = Classify(r)
        /\ call'[c].st \in {"direct", "neg"}
        /\ \A d \in Callers \ {c} : call'[d] = call[d]
    BY <1>1 DEF Receive, TypeOK
  <2> QED
    BY <1>1, <1>o, <2>1 DEF Receive, Accepts
<1>2. ASSUME \/ \E out : Finish(c, "done", out)
             \/ \E st \in {"get", "join", "wait", "fetch", "deliver"} : Goto(c, st),
             call[c] # Idle
      PROVE  Carries(c) /\ \A d \in Callers \ {c} : Carries(d)
  BY <1>2, <1>o, FinishSets, GotoSets, SMT DEF Carries, At
<1>3. CASE ProxyDirect(c, hs)
  <2>1. \E out : Finish(c, "done", out)
    BY <1>3 DEF ProxyDirect
  <2> QED
    BY <1>2, <1>3, <1>i, <2>1 DEF ProxyDirect
<1>4. CASE GetNeg(c) \/ GetKey(c) \/ Join(c)
  <2>1. \/ \E out : Finish(c, "done", out)
        \/ \E st \in {"get", "join", "wait", "fetch", "deliver"} : Goto(c, st)
    BY <1>4 DEF GetNeg, GetKey, Join
  <2>2. call[c] # Idle /\ UNCHANGED <<chain, cache>>
    BY <1>4, <1>i DEF GetNeg, GetKey, Join
  <2> QED
    BY <1>2, <2>1, <2>2
<1>5. CASE Reply(c)
  <2>1. call'[c] = Idle /\ \A d \in Callers \ {c} : call'[d] = call[d]
    BY <1>5 DEF Reply, TypeOK
  <2> QED
    BY <1>5, <1>i, <1>o, <2>1 DEF Reply, Carries
<1>6. CASE Fetch(c, hs)
  <2>1. PICK out \in [t : {"failed", "uncached"}]
                        \cup {Result(Answer(call[c].req, h)) : h \in hs} :
           Finish(c, "store", out)
    BY <1>6 DEF Fetch
  <2>2. out.t = "result" => \E h \in hs : out.val = Answer(call[c].req, h)
    BY SMT DEF Result
  <2>3. Fetches(c, hs)
    BY <1>6, <1>i, <2>1, <2>2, FinishSets, SMT DEF Fetch, Fetches
  <2> QED
    BY <1>6, <1>o, <2>1, <2>3, FinishSets DEF Fetch
<1>7. CASE Keep(c)
  <2>1. call[c] \in Answered /\ call[c] # Idle /\ At(c, "store") /\ Goto(c, "deliver")
    BY <1>7, SMT DEF Keep, afterKeep, At, TypeOK, Idle, Asking
  <2>2. UNCHANGED cache \/ Stores(c)
    <3>1. CASE call[c].out.t # "result"
      BY <1>7, <3>1 DEF Keep
    <3>2. CASE call[c].out.t = "result"
      <4> DEFINE q == call[c].req
                 life == ttl(call[c].layer)
                 new == [val |-> call[c].out.val, expiry |-> IF life = 0 THEN 0 ELSE now + life]
      <4>1. cache' = Put(cache, q, new)
        BY <1>7, <3>2 DEF Keep
      <4>2. call[c].layer \in Layers /\ now \in Nat /\ now > 0
        BY <2>1, LagAssumption, SMT DEF TypeOK, Answered
      <4>3. new.expiry = 0 => call[c].layer # "mutable"
        BY <4>2, LagAssumption, SMT DEF ttl
      <4>4. cache'[q] = new /\ \A r \in DOMAIN cache' \ {q} : r \in DOMAIN cache /\ cache'[r] = cache[r]
        BY <4>1 DEF Put
      <4> QED
        BY <2>1, <3>2, <4>3, <4>4, SMT DEF Stores
    <3> QED
      BY <3>1, <3>2
  <2> QED
    BY <1>2, <1>7, <2>1, <2>2 DEF Keep, afterKeep
<1>8. CASE Deliver(c)
  <2>1. \A d \in Callers : d \in released(c) => call[d] # Idle
    BY <1>8, SMT DEF Deliver, released, Waiters, At, Idle
  <2>2. \A d \in Callers : IF d \in released(c)
                           THEN /\ call'[d].st = "done" /\ call'[d].req = call[d].req
                                /\ call'[d].layer = call[d].layer
                           ELSE call'[d] = call[d]
    BY <1>8 DEF Deliver
  <2>3. \A d \in Callers : Carries(d)
    BY <2>1, <2>2 DEF Carries, At
  <2> QED
    BY <1>8, <1>i, <2>3, SMT DEF Deliver
<1> QED
  BY <1>1, <1>3, <1>4, <1>5, <1>6, <1>7, <1>8 DEF ServeHTTP

LEMMA ServeIInv ==
    ASSUME IInv, NEW c \in Callers, ServeHTTP(c, Routable)
    PROVE  IInv'
<1>1. TypeOK /\ CallsOK /\ CacheOK
  BY DEF IInv
<1>2. TypeOK'
  BY <1>1, ServeTypeOK, RoutableHeights
<1>3. UNCHANGED chain /\ \A d \in Callers \ {c} : Carries(d)
  BY <1>1, ServeShape
<1>4. ASSUME NEW d \in Callers, Carries(d), KeepsForEver(d)'
      PROVE  /\ KeepsForEver(d) /\ Settled(call[d].req)'
             /\ At(d, "store")' => call'[d] = call[d]
  BY <1>1, <1>3, <1>4 DEF Carries, KeepsForEver, CallsOK, Settled, At, chain
<1>5. ASSUME UNCHANGED cache PROVE CacheOK'
  BY <1>1, <1>3, <1>5 DEF CacheOK, Kept, Settled, chain
<1>6. ASSUME KeepsForEver(c)' =>
                /\ Settled(call[c].req)'
                /\ (At(c, "store")' /\ call'[c].out.t = "result") =>
                      call'[c].out.val = version'[Number(call'[c].req)]
      PROVE  CallsOK'
  BY <1>1, <1>3, <1>4, <1>6 DEF CallsOK, At, chain
<1>7. CASE Carries(c) /\ (UNCHANGED cache \/ Stores(c))
  <2>1. CallsOK'
    BY <1>1, <1>3, <1>4, <1>6, <1>7 DEF CallsOK, At, chain
  <2>2. ASSUME Stores(c), call[c] # Idle PROVE CacheOK'
    <3> DEFINE q == call[c].req
    <3>1. Fixed(q) /\ cache'[q].expiry = 0 => Settled(q) /\ cache'[q].val = version[Number(q)]
      BY <1>1, <2>2 DEF CallsOK, KeepsForEver, Stores
    <3>2. \A r \in DOMAIN cache' \ {q} : r \in DOMAIN cache /\ cache'[r] = cache[r]
      BY <2>2 DEF Stores
    <3> HIDE DEF q
    <3> QED
      BY <1>1, <1>3, <3>1, <3>2 DEF CacheOK, Kept, Settled, chain
  <2>3. Stores(c) => call[c] # Idle
    BY SMT DEF Stores, At, Idle
  <2> QED
    BY <1>2, <1>5, <1>7, <2>1, <2>2, <2>3 DEF IInv
<1>8. CASE Accepts(c) /\ UNCHANGED cache
  <2>1. PICK r \in Requests : call'[c].req = r /\ call'[c].layer = Classify(r)
    BY <1>8 DEF Accepts
  <2>2. Fixed(r) /\ Classify(r) # "mutable" => Settled(r)
    BY <1>1, ClassifyIsCareful, SMT DEF TypeOK, Heights
  <2>3. CallsOK'
    BY <1>3, <1>6, <1>8, <2>1, <2>2 DEF KeepsForEver, Accepts, At, Settled, chain
  <2> QED
    BY <1>2, <1>5, <1>8, <2>3 DEF IInv
<1>9. CASE Fetches(c, Routable) /\ UNCHANGED cache
  <2>1. call[c].req \in Requests
    BY <1>1, <1>9 DEF Fetches, TypeOK, Asking, Answered
  <2>2. KeepsForEver(c) =>
           /\ Settled(call[c].req)
           /\ \A h \in Routable : Answer(call[c].req, h) = version[Number(call[c].req)]
    BY <1>1, <2>1, SettledAnswer DEF CallsOK, KeepsForEver
  <2>3. CallsOK'
    BY <1>3, <1>6, <1>9, <2>2 DEF KeepsForEver, Fetches, Settled, chain
  <2> QED
    BY <1>2, <1>5, <1>9, <2>3, SMT DEF IInv
<1> QED
  BY <1>1, <1>7, <1>8, <1>9, ServeShape

LEMMA NextIInv == IInv /\ [Next]_vars => IInv'
<1> SUFFICES ASSUME IInv, [Next]_vars PROVE IInv'
  OBVIOUS
<1>1. CASE \E c \in Callers : ServeHTTP(c, Routable)
  BY <1>1, ServeIInv
<1>2. TypeOK' /\ TypeOK /\ CallsOK /\ CacheOK
  BY NextTypeOK DEF IInv
<1>3. CASE Grow
  BY <1>2, <1>3 DEF Grow, IInv, CallsOK, CacheOK, KeepsForEver, Settled, At, Kept
<1>4. CASE Reorg
  <2>1. UNCHANGED <<tip, head, cache, call>>
    BY <1>4 DEF Reorg
  <2>2. ASSUME NEW r \in Requests, Fixed(r), Settled(r)
        PROVE  version'[Number(r)] = version[Number(r)]
    <3>1. Number(r) \in Blocks /\ Number(r) \in Nat
      BY <2>2, NumberInBlocks
    <3>2. tip \in Nat /\ head \in Nat /\ head <= tip
      BY <1>2, LagAssumption, SMT DEF TypeOK, Heights
    <3>3. PICK b \in 1 .. tip :
             /\ b + Depth > tip
             /\ version' = [n \in Blocks |-> IF n \in b .. tip THEN 1 - version[n] ELSE version[n]]
      BY <1>4 DEF Reorg
    <3>4. Number(r) < b
      BY <2>2, <3>1, <3>2, <3>3, LagAssumption, SMT DEF Settled
    <3> QED
      BY <3>1, <3>2, <3>3, <3>4, SMT
  <2>3. \A c \in Callers : call[c] # Idle => call[c].req \in Requests
    BY <1>2 DEF TypeOK, Asking, Answered
  <2>4. CallsOK'
    BY <1>2, <2>1, <2>2, <2>3 DEF CallsOK, KeepsForEver, Settled, At
  <2>5. CacheOK'
    BY <1>2, <2>1, <2>2 DEF CacheOK, Kept, Settled, TypeOK
  <2> QED
    BY <1>2, <2>4, <2>5 DEF IInv
<1>5. CASE SetHead
  <2>1. UNCHANGED <<version, cache, call>> /\ head' \in Nat /\ head \in Nat /\ head' >= head
    BY <1>2, <1>5, LagAssumption, SMT DEF SetHead, TypeOK, Heights
  <2>2. ASSUME NEW r \in Requests, Fixed(r), Settled(r) PROVE Settled(r)'
    BY <2>1, <2>2, NumberInBlocks, LagAssumption, SMT DEF Settled
  <2>3. \A c \in Callers : call[c] # Idle => call[c].req \in Requests
    BY <1>2 DEF TypeOK, Asking, Answered
  <2>4. CallsOK'
    BY <1>2, <2>1, <2>2, <2>3 DEF CallsOK, KeepsForEver, At, Settled
  <2>5. CacheOK'
    BY <1>2, <2>1, <2>2 DEF CacheOK, Kept, TypeOK, Settled
  <2> QED
    BY <1>2, <2>4, <2>5 DEF IInv
<1>6. CASE Evict
  <2>1. DOMAIN cache' \subseteq DOMAIN cache /\ \A r \in DOMAIN cache' : cache'[r] = cache[r]
    BY <1>6 DEF Evict, Restrict
  <2>2. UNCHANGED <<chain, call>>
    BY <1>6 DEF Evict
  <2> QED
    BY <1>2, <2>1, <2>2 DEF IInv, CallsOK, CacheOK, KeepsForEver, Settled, At, Kept, chain
<1>7. CASE Pass
  BY <1>2, <1>7 DEF Pass, chain, IInv, CallsOK, CacheOK, KeepsForEver, Settled, At, Kept
<1>8. CASE UNCHANGED vars
  BY <1>2, <1>8 DEF vars, chain, IInv, CallsOK, CacheOK, KeepsForEver, Settled, At, Kept
<1> QED
  BY <1>1, <1>3, <1>4, <1>5, <1>6, <1>7, <1>8, SMT DEF Next

LEMMA Invariance == Spec => []IInv
<1>1. Init => IInv
  BY InitIInv
<1>2. IInv /\ [Next]_vars => IInv'
  BY NextIInv
<1> QED
  BY <1>1, <1>2, PTL DEF Spec

-----------------------------------------------------------------------------
(***************************************************************************)
(* The negative cache.                                                     *)
(***************************************************************************)
\* A negative entry ends NegTTL after a failure that is on record, no call began
\* in the future, and what is not cached does not take the caching path.
FailuresOK ==
    /\ \A r \in Requests : failedAt[r] <= now
    /\ \A r \in DOMAIN neg : failedAt[r] # 0 /\ neg[r] <= failedAt[r] + NegTTL
    /\ \A c \in Callers : call[c] # Idle => call[c].start <= now
    /\ \A c \in Callers : At(c, "direct") => call[c].layer = "uncacheable"
    /\ ErrorsAreRecent

\* Caller d is told nothing new, or nothing bad.
NoNewError(d) ==
    \/ call'[d] = call[d]
    \/ call'[d] = Idle
    \/ /\ call[d] # Idle /\ call'[d].start = call[d].start
       /\ call'[d].st # "direct"
       /\ call'[d].st = "done" => call'[d].out # Failed \/ call'[d].layer = "uncacheable"

\* Such a step leaves the record of the failures in order.
LEMMA NoErrorKept ==
    ASSUME TypeOK, FailuresOK, UNCHANGED <<now, neg, failedAt>>,
           \A d \in Callers : NoNewError(d)
    PROVE  FailuresOK'
<1>1. \A d \in Callers : call'[d] = Idle => ~At(d, "done")' /\ ~At(d, "direct")'
  BY SMT DEF Idle, At
<1> QED
  BY <1>1 DEF FailuresOK, ErrorsAreRecent, NoNewError, At

\* Recording a failure of q at this moment only helps whoever was told of one.
LEMMA FailureRecorded ==
    ASSUME TypeOK, FailuresOK, NEW q \in Requests,
           now' = now, failedAt' = [failedAt EXCEPT ![q] = now]
    PROVE  /\ now \in Nat \ {0}
           /\ \A r \in Requests :
                 /\ failedAt[r] \in Nat /\ failedAt'[r] \in Nat
                 /\ failedAt'[r] = IF r = q THEN now ELSE failedAt[r]
                 /\ failedAt[r] <= failedAt'[r] /\ failedAt'[r] <= now
BY LagAssumption, SMT DEF TypeOK, FailuresOK

LEMMA ServeFailures ==
    ASSUME TypeOK, FailuresOK, NEW c \in Callers, NEW hs, ServeHTTP(c, hs)
    PROVE  FailuresOK'
<1>i. \A st : At(c, st) /\ st # "idle" => call[c] # Idle
  BY SMT DEF At, Idle
<1>n. now \in Nat \ {0} /\ NegTTL \in Nat \ {0}
  BY LagAssumption, SMT DEF TypeOK
<1>d. \A d \in Callers : call[d] # Idle => call[d].req \in Requests /\ call[d].start \in Nat
  BY SMT DEF TypeOK, Asking, Answered
<1>1. ASSUME NEW r \in Requests, Receive(c, r) PROVE FailuresOK'
  <2>1. /\ call'[c].start = now /\ call'[c].layer = Classify(r)
        /\ call'[c].st = IF Classify(r) = "uncacheable" THEN "direct" ELSE "neg"
        /\ \A d \in Callers \ {c} : call'[d] = call[d]
    BY <1>1 DEF Receive, TypeOK
  <2>2. UNCHANGED <<now, neg, failedAt>>
    BY <1>1 DEF Receive
  <2> QED
    BY <1>n, <2>1, <2>2, SMT DEF FailuresOK, ErrorsAreRecent, At
<1>2. CASE ProxyDirect(c, hs)
  <2>1. PICK out : Finish(c, "done", out)
    BY <1>2 DEF ProxyDirect
  <2>2. call[c] # Idle /\ call[c].layer = "uncacheable"
    BY <1>2, <1>i DEF ProxyDirect, FailuresOK
  <2>3. \A d \in Callers : NoNewError(d)
    BY <2>1, <2>2, FinishSets, SMT DEF NoNewError
  <2> QED
    BY <1>2, <2>3, NoErrorKept DEF ProxyDirect
<1>3. CASE GetNeg(c)
  <2> DEFINE r == call[c].req
  <2>1. call[c] # Idle /\ r \in Requests /\ call[c].start \in Nat /\ call[c].start <= now
    BY <1>3, <1>i, <1>d DEF GetNeg, FailuresOK
  <2>2. UNCHANGED <<now, neg, failedAt>>
    BY <1>3 DEF GetNeg
  <2>3. CASE r \in DOMAIN neg /\ neg[r] >= now
    <3>1. failedAt[r] # 0 /\ failedAt[r] + NegTTL >= call[c].start
      <4>1. failedAt[r] # 0 /\ neg[r] <= failedAt[r] + NegTTL
        BY <2>3 DEF FailuresOK
      <4>2. neg[r] \in Nat /\ failedAt[r] \in Nat
        BY <2>1, <2>3, SMT DEF TypeOK
      <4> QED
        BY <1>n, <2>1, <2>3, <4>1, <4>2, SMT
    <3>2. Finish(c, "done", Failed)
      BY <1>3, <2>3 DEF GetNeg
    <3>3. /\ call'[c].st = "done" /\ call'[c].req = r /\ call'[c].start = call[c].start
          /\ \A d \in Callers \ {c} : call'[d] = call[d]
      BY <3>2, FinishSets
    <3> QED
      BY <2>1, <2>2, <3>1, <3>3, SMT DEF FailuresOK, ErrorsAreRecent, At
  <2>4. CASE ~(r \in DOMAIN neg /\ neg[r] >= now)
    <3>1. Goto(c, "get")
      BY <1>3, <2>4 DEF GetNeg
    <3>2. \A d \in Callers : NoNewError(d)
      BY <2>1, <3>1, GotoSets, SMT DEF NoNewError
    <3> QED
      BY <2>2, <3>2, NoErrorKept
  <2> QED
    BY <2>3, <2>4
<1>4. CASE GetKey(c)
  <2>1. (\E v : Finish(c, "done", Result(v))) \/ Goto(c, "join")
    BY <1>4 DEF GetKey
  <2>2. \A v : Result(v) # Failed
    <3>1. \A v : Result(v).t = "result" /\ Failed.t = "failed"
      BY DEF Result, Failed
    <3> QED
      BY <3>1
  <2>3. \A d \in Callers : NoNewError(d)
    BY <1>4, <1>i, <2>1, <2>2, FinishSets, GotoSets, SMT DEF NoNewError, GetKey
  <2> QED
    BY <1>4, <2>3, NoErrorKept DEF GetKey
<1>5. CASE Join(c)
  <2>1. \A d \in Callers : NoNewError(d)
    BY <1>5, <1>i, GotoSets, SMT DEF NoNewError, Join
  <2> QED
    BY <1>5, <2>1, NoErrorKept DEF Join
<1>6. CASE Fetch(c, hs)
  <2>1. PICK out : Finish(c, "store", out)
    BY <1>6 DEF Fetch
  <2>2. \A d \in Callers : NoNewError(d)
    BY <1>6, <1>i, <2>1, FinishSets, SMT DEF NoNewError, Fetch
  <2> QED
    BY <1>6, <2>2, NoErrorKept DEF Fetch
<1>7. CASE Keep(c)
  <2> DEFINE r == call[c].req
  <2>1. call[c] # Idle /\ r \in Requests
    BY <1>7, <1>i, <1>d DEF Keep
  <2>2. \A d \in Callers : NoNewError(d)
    BY <1>7, <2>1, GotoSets, SMT DEF NoNewError, Keep, afterKeep
  <2>3. CASE call[c].out.t # "failed"
    BY <1>7, <2>2, <2>3, NoErrorKept DEF Keep
  <2>4. CASE call[c].out.t = "failed"
    <3>1. /\ neg' = Put(neg, r, negExpiry) /\ failedAt' = [failedAt EXCEPT ![r] = now]
          /\ now' = now
      BY <1>7, <2>4 DEF Keep
    <3>2. /\ neg'[r] = now + NegTTL
          /\ \A q \in DOMAIN neg' \ {r} : q \in DOMAIN neg /\ neg'[q] = neg[q]
      BY <3>1 DEF Put, negExpiry
    <3>3. \A q \in Requests :
             /\ failedAt[q] \in Nat /\ failedAt'[q] \in Nat
             /\ failedAt'[q] = IF q = r THEN now ELSE failedAt[q]
             /\ failedAt[q] <= failedAt'[q] /\ failedAt'[q] <= now
      BY <2>1, <3>1, FailureRecorded
    <3>4. \A q \in DOMAIN neg' : failedAt'[q] # 0 /\ neg'[q] <= failedAt'[q] + NegTTL
      BY <1>n, <2>1, <3>2, <3>3, SMT DEF FailuresOK, TypeOK
    <3>5. /\ call'[c].st = "deliver" /\ call'[c].start = call[c].start
          /\ \A d \in Callers \ {c} : call'[d] = call[d]
      BY <1>7, <2>1, GotoSets DEF Keep, afterKeep
    <3>6. ErrorsAreRecent'
      <4> SUFFICES ASSUME NEW d \in Callers, At(d, "done")', call'[d].out = Failed,
                          call'[d].layer # "uncacheable"
                   PROVE  /\ failedAt'[call'[d].req] # 0
                          /\ failedAt'[call'[d].req] + NegTTL >= call'[d].start
        BY DEF ErrorsAreRecent
      <4>1. d # c /\ call'[d] = call[d]
        BY <3>5 DEF At
      <4>2. /\ At(d, "done") /\ call[d] # Idle
            /\ failedAt[call[d].req] # 0
            /\ failedAt[call[d].req] + NegTTL >= call[d].start
        BY <4>1, SMT DEF FailuresOK, ErrorsAreRecent, At, Idle
      <4> QED
        BY <1>d, <1>n, <3>3, <4>1, <4>2, SMT
    <3> QED
      BY <3>1, <3>3, <3>4, <3>5, <3>6, <2>1, SMT DEF FailuresOK, At
  <2> QED
    BY <2>3, <2>4
<1>8. CASE Deliver(c)
  <2> DEFINE r == call[c].req
  <2>1. call[c] # Idle /\ r \in Requests
    BY <1>8, <1>i, <1>d DEF Deliver
  <2>2. UNCHANGED <<now, neg>>
    BY <1>8 DEF Deliver
  <2>3. \A d \in Callers : IF d \in released(c)
                           THEN /\ call'[d].st = "done" /\ call'[d].req = call[d].req
                                /\ call'[d].layer = call[d].layer
                                /\ call'[d].start = call[d].start
                                /\ call'[d].out = call[c].out
                           ELSE call'[d] = call[d]
    BY <1>8 DEF Deliver
  <2>4. \A d \in released(c) : d \in Callers /\ call[d] # Idle /\ call[d].req = r
    BY <2>1, SMT DEF released, Waiters, At, Idle
  <2>5. CASE call[c].out # Failed
    <3>1. failedAt' = failedAt
      BY <1>8, <2>5 DEF Deliver
    <3>2. \A d \in Callers : NoNewError(d)
      BY <2>3, <2>4, <2>5 DEF NoNewError
    <3> QED
      BY <2>2, <3>1, <3>2, NoErrorKept
  <2>6. CASE call[c].out = Failed
    <3>1. failedAt' = [failedAt EXCEPT ![r] = now]
      BY <1>8, <2>6 DEF Deliver
    <3>2. \A q \in Requests :
             /\ failedAt[q] \in Nat /\ failedAt'[q] \in Nat
             /\ failedAt'[q] = IF q = r THEN now ELSE failedAt[q]
             /\ failedAt[q] <= failedAt'[q] /\ failedAt'[q] <= now
      BY <2>1, <2>2, <3>1, FailureRecorded
    <3>3. \A q \in DOMAIN neg : failedAt'[q] # 0 /\ neg[q] <= failedAt'[q] + NegTTL
      BY <1>n, <3>2, SMT DEF FailuresOK, TypeOK
    <3>4. ErrorsAreRecent'
      <4> SUFFICES ASSUME NEW d \in Callers, At(d, "done")', call'[d].out = Failed,
                          call'[d].layer # "uncacheable"
                   PROVE  /\ failedAt'[call'[d].req] # 0
                          /\ failedAt'[call'[d].req] + NegTTL >= call'[d].start
        BY DEF ErrorsAreRecent
      <4>1. CASE d \in released(c)
        <5>1. call'[d].req = r /\ call'[d].start = call[d].start /\ call[d].start \in Nat
          BY <1>d, <2>3, <2>4, <4>1
        <5>2. call[d].start <= now
          BY <2>4, <4>1 DEF FailuresOK
        <5> QED
          BY <1>n, <2>1, <3>2, <5>1, <5>2, SMT
      <4>2. CASE d \notin released(c)
        <5>1. call'[d] = call[d]
          BY <2>3, <4>2
        <5>2. /\ call[d] # Idle /\ failedAt[call[d].req] # 0
              /\ failedAt[call[d].req] + NegTTL >= call[d].start
          BY <5>1, SMT DEF FailuresOK, ErrorsAreRecent, At, Idle
        <5> QED
          BY <1>d, <1>n, <3>2, <5>1, <5>2, SMT
      <4> QED
        BY <4>1, <4>2
    <3>5. \A d \in Callers : call'[d] # Idle => call'[d].start <= now
      BY <2>3, <2>4 DEF FailuresOK
    <3>6. \A d \in Callers : At(d, "direct")' => call'[d].layer = "uncacheable"
      BY <2>3 DEF FailuresOK, At
    <3> QED
      BY <2>2, <3>2, <3>3, <3>4, <3>5, <3>6 DEF FailuresOK
  <2> QED
    BY <2>5, <2>6
<1>9. CASE Reply(c)
  <2>1. \A d \in Callers : NoNewError(d)
    BY <1>9 DEF NoNewError, Reply, TypeOK
  <2> QED
    BY <1>9, <2>1, NoErrorKept DEF Reply
<1> QED
  BY <1>1, <1>2, <1>3, <1>4, <1>5, <1>6, <1>7, <1>8, <1>9 DEF ServeHTTP

\* The chain, the store and the clock leave it so.
LEMMA WorldKeeps ==
    ASSUME TypeOK, FailuresOK,
           Grow \/ Reorg \/ SetHead \/ Evict \/ Pass \/ UNCHANGED vars
    PROVE  FailuresOK'
<1>1. UNCHANGED <<call, failedAt>>
  BY DEF Grow, Reorg, SetHead, Evict, Pass, vars
<1>2. DOMAIN neg' \subseteq DOMAIN neg /\ \A r \in DOMAIN neg' : neg'[r] = neg[r]
  BY DEF Grow, Reorg, SetHead, Evict, Pass, vars, Restrict
<1>3. now \in Nat /\ now' \in Nat /\ now <= now'
  BY LagAssumption, SMT DEF TypeOK, Grow, Reorg, SetHead, Evict, Pass, vars
<1>5. \A r \in Requests : failedAt[r] \in Nat
  BY SMT DEF TypeOK
<1>6. \A c \in Callers : call[c] # Idle => call[c].start \in Nat
  BY SMT DEF TypeOK, Asking, Answered
<1> QED
  BY <1>1, <1>2, <1>3, <1>5, <1>6, SMT DEF FailuresOK, ErrorsAreRecent, At

LEMMA FailuresInvariance == Spec => []FailuresOK
<1>1. Init => FailuresOK
  <2> SUFFICES ASSUME Init PROVE FailuresOK
    OBVIOUS
  <2>1. \A c \in Callers : call[c] = Idle /\ call[c].st = "idle"
    BY DEF Init, Idle
  <2> QED
    BY <2>1, LagAssumption, SMT DEF Init, At, FailuresOK, ErrorsAreRecent, Empty
<1>2. TypeOK /\ FailuresOK /\ [Next]_vars => FailuresOK'
  BY ServeFailures, WorldKeeps DEF Next
<1>3. IInv => TypeOK
  BY DEF IInv
<1> QED
  BY <1>1, <1>2, <1>3, Invariance, PTL DEF Spec

-----------------------------------------------------------------------------
\* Every reachable state of the handler is well typed, for any set of callers and
\* requests: what ServeHTTP stores, hands to its waiters and replies has its form.
THEOREM TypeCorrect == Spec => []TypeOK
<1>1. IInv => TypeOK
  BY DEF IInv
<1> QED
  BY <1>1, Invariance, PTL

\* What ServeHTTP keeps for ever about a numbered block is what the chain says, for
\* any depth, any lag threshold up to it, and any callers, however the chain is
\* reorganised between the classification, the fetch and the store.
THEOREM FinalityIsSound == Spec => []FinalAnswersAreRight
<1>1. IInv => FinalAnswersAreRight
  <2> SUFFICES ASSUME IInv, NEW r \in DOMAIN cache, Kept(r), Fixed(r)
               PROVE  cache[r].val = Answer(r, tip)
    BY DEF FinalAnswersAreRight
  <2>1. r \in Requests /\ tip \in Nat /\ head \in Nat /\ head <= tip
    BY LagAssumption, SMT DEF IInv, TypeOK, Heights
  <2>2. Settled(r) /\ cache[r].val = version[Number(r)]
    BY DEF IInv, CacheOK
  <2>3. tip \in Routable
    BY <2>1, LagAssumption, SMT DEF Routable
  <2> QED
    BY <2>1, <2>2, <2>3, SettledAnswer DEF IInv
<1> QED
  BY <1>1, Invariance, PTL

\* An upstream error is told only while it is news: a flight of the key failed
\* during the call or at most NegTTL before it, although the negative entry is
\* written in one step, read in others, and evicted at any time.
THEOREM ErrorsAreNotRemembered == Spec => []ErrorsAreRecent
<1>1. FailuresOK => ErrorsAreRecent
  BY DEF FailuresOK
<1> QED
  BY <1>1, FailuresInvariance, PTL

-----------------------------------------------------------------------------
(***************************************************************************)
(* Gateway: the rounds of HealthChecks decide who is in rotation.          *)
(***************************************************************************)
HCP == INSTANCE HealthChecksProofs WITH LagThreshold <- Lag, Word <- MaxHeight + 1

\* No height that the pool knows of is beyond the node that reported it, and no
\* node is beyond the chain.
NodesOK ==
    /\ real \in [Nodes -> Heights]
    /\ via \in [Callers -> Nodes \cup {NoNode}]
    /\ calm \in [Callers -> BOOLEAN]
    /\ \A n \in Nodes : /\ real[n] <= tip
                        /\ height[n] <= real[n]
                        /\ probe[n].h <= real[n]
    /\ best <= tip

\* The head may go back, the chain does not.
Buried(r) == Number(r) + Depth <= tip

\* Whatever is or will be kept for ever is about a buried block, and is its
\* content or the null of a node that did not have it.
KeptOK ==
    /\ \A c \in Callers :
          KeepsForEver(c) =>
            /\ Buried(call[c].req)
            /\ (At(c, "store") /\ call[c].out.t = "result") =>
                  call[c].out.val \in {Null, version[Number(call[c].req)]}
    /\ \A r \in DOMAIN cache :
          Kept(r) /\ Fixed(r) => Buried(r) /\ cache[r].val \in {Null, version[Number(r)]}

\* A call that no round disturbed: its layer was chosen from the head of now, and
\* the node it was routed to is still in rotation.
CalmOK ==
    \A c \in Callers :
        calm[c] =>
            /\ pc = "idle"
            /\ via[c] # NoNode => healthy[via[c]]
            /\ KeepsForEver(c) =>
                  /\ Settled(call[c].req)
                  /\ (At(c, "store") /\ call[c].out.t = "result") =>
                        call[c].out.val = version[Number(call[c].req)]

GatewayIInv == TypeOK /\ HCP!IInv /\ NodesOK /\ KeptOK /\ CalmOK

-----------------------------------------------------------------------------
(***************************************************************************)
(* The health checks, seen from the gateway.                               *)
(***************************************************************************)
LEMMA HealthAssumptions == HCP!NAssumption /\ HCP!HeightAssumption
BY LagAssumption, PoolAssumption, SMT DEF HCP!NAssumption, HCP!HeightAssumption

LEMMA SameNames ==
    /\ Nodes = 0 .. N - 1 /\ HCP!Nodes = Nodes /\ HC!Nodes = Nodes
    /\ HCP!Heights = Heights /\ HC!Heights = Heights
    /\ HCP!Replies = HC!Replies
BY DEF Nodes, HC!Nodes, HCP!Nodes, Heights, HC!Heights, HCP!Heights, HC!Replies, HCP!Replies

\* The rounds of the gateway are rounds of the health checks.
LEMMA TickIsStep == HC!Tick => HCP!Next
BY SameNames DEF HC!Tick, HCP!Tick, HCP!Next

LEMMA ProbeIsStep ==
    ASSUME NEW n \in Nodes, NEW r \in HC!Replies, HC!ProbeReturns(n, r)
    PROVE  HCP!Next
<1>1. HCP!ProbeReturns(n, r)
  BY DEF HC!ProbeReturns, HCP!ProbeReturns, HC!probeNode, HCP!probeNode,
     HC!validateRPCResponse, HCP!validateRPCResponse
<1> QED
  BY <1>1, SameNames DEF HCP!Next, HCP!Probing

LEMMA StoreIsStep ==
    ASSUME NEW n \in Nodes, HC!StoreHealthy(n) \/ HC!StoreHeight(n)
    PROVE  HCP!Next
<1>1. HCP!StoreHealthy(n) \/ HCP!StoreHeight(n)
  BY DEF HC!StoreHealthy, HCP!StoreHealthy, HC!StoreHeight, HCP!StoreHeight,
     HC!NoProbe, HCP!NoProbe
<1> QED
  BY <1>1, SameNames DEF HCP!Next, HCP!Probing

LEMMA MarkingIsStep == HC!Marking => HCP!Next
<1> SUFFICES ASSUME HC!Marking PROVE HCP!Marking
  BY DEF HCP!Next
<1>1. ASSUME NEW b \in Heights, HC!StartMarking(b) PROVE HCP!StartMarking(b)
  BY <1>1, SameNames DEF HC!StartMarking, HCP!StartMarking, HC!waitForProbes,
     HCP!waitForProbes, HC!IsMaxHeight, HCP!IsMaxHeight
<1>2. HC!MarkNode => HCP!MarkNode
  BY DEF HC!MarkNode, HCP!MarkNode, HC!lags, HCP!lags, HC!USub, HCP!USub
<1>3. HC!PublishHead => HCP!PublishHead
  BY DEF HC!PublishHead, HCP!PublishHead
<1> QED
  BY <1>1, <1>2, <1>3, SameNames DEF HC!Marking, HCP!Marking

\* Every step of the gateway is a step of the health checks or leaves them alone.
LEMMA GatewayImplementsRounds == [GatewayNext]_gatewayVars => [HCP!Next]_(HCP!vars)
<1> SUFFICES ASSUME [GatewayNext]_gatewayVars PROVE HCP!Next \/ UNCHANGED HCP!vars
  OBVIOUS
<1>1. ASSUME UNCHANGED <<rotation, head>> PROVE UNCHANGED HCP!vars
  BY <1>1 DEF rotation, HCP!vars
<1>2. ASSUME NEW c \in Callers, Route(c) PROVE UNCHANGED HCP!vars
  BY <1>1, <1>2 DEF Route, vars, chain
<1>3. ASSUME NEW c \in Callers, Serve(c) PROVE UNCHANGED HCP!vars
  <2>1. UNCHANGED chain
    BY <1>3 DEF Serve, ServeHTTP, Receive, ProxyDirect, GetNeg, GetKey, Join, Fetch,
       Keep, Deliver, Reply
  <2> QED
    BY <1>1, <1>3, <2>1 DEF Serve, chain
<1>4. CASE Tick
  BY <1>4, TickIsStep DEF Tick
<1>5. CASE Round
  BY <1>5, ProbeIsStep, StoreIsStep, MarkingIsStep DEF Round
<1>6. ASSUME NEW n \in Nodes, Sync(n) PROVE UNCHANGED HCP!vars
  BY <1>1, <1>6 DEF Sync, vars, chain
<1>7. CASE World
  BY <1>1, <1>7 DEF World, Grow, Reorg, Evict, Pass, chain
<1>8. CASE UNCHANGED gatewayVars
  BY <1>1, <1>8 DEF gatewayVars, vars, chain
<1> QED
  BY <1>2, <1>3, <1>4, <1>5, <1>6, <1>7, <1>8 DEF GatewayNext

\* What the handler relies on: the types of the rotation, the probes that run only
\* in a round, and the freshness between two rounds.
LEMMA FromHealth ==
    ASSUME HCP!IInv
    PROVE  /\ healthy \in [Nodes -> BOOLEAN]
           /\ height \in [Nodes -> Heights]
           /\ probe \in [Nodes -> [st : {"none", "asked", "set_healthy", "set_height"},
                                   ok : BOOLEAN, h : Heights]]
           /\ best \in Heights /\ head \in Heights
           /\ pc # "probing" => \A n \in Nodes : probe[n].st = "none"
           /\ pc = "idle" => \A n \in Nodes : healthy[n] => height[n] + Lag >= head
BY SameNames DEF HCP!IInv, HCP!TypeOK, HCP!ProbesInRound, HCP!waitForProbes,
   HCP!RoutableNodesAreFresh

-----------------------------------------------------------------------------
(***************************************************************************)
(* The steps of the health checks.                                         *)
(***************************************************************************)
LEMMA ProbeNodes ==
    ASSUME GatewayIInv, NEW n \in Nodes, NEW r \in HC!Replies,
           r.body = "block" => r.h = real[n], HC!ProbeReturns(n, r),
           UNCHANGED <<handler, real, calm>>
    PROVE  NodesOK'
<1>1. TypeOK /\ NodesOK /\ HCP!IInv
  BY DEF GatewayIInv
<1>2. real[n] \in Nat
  BY <1>1, LagAssumption, SMT DEF NodesOK, Heights
<1>3. r.h <= real[n]
  BY <1>2, LagAssumption, SMT DEF HC!Replies, HC!Heights
<1>4. probe'[n].h = r.h /\ \A m \in Nodes \ {n} : probe'[m] = probe[m]
  BY <1>1, FromHealth DEF HC!ProbeReturns, HC!probeNode
<1> QED
  BY <1>1, <1>3, <1>4 DEF NodesOK, HC!ProbeReturns, handler

LEMMA StoreNodes ==
    ASSUME GatewayIInv, NEW n \in Nodes, HC!StoreHealthy(n) \/ HC!StoreHeight(n),
           UNCHANGED <<handler, real, calm>>
    PROVE  NodesOK'
<1>1. TypeOK /\ NodesOK /\ HCP!IInv
  BY DEF GatewayIInv
<1>2. \A m \in Nodes : real[m] \in Nat /\ height[m] \in Nat /\ probe[m].h \in Nat
  BY <1>1, FromHealth, LagAssumption, SMT DEF NodesOK, Heights
<1>3. CASE HC!StoreHealthy(n)
  <2>1. \A m \in Nodes : probe'[m].h = probe[m].h
    BY <1>1, <1>3, FromHealth DEF HC!StoreHealthy
  <2> QED
    BY <1>1, <1>3, <2>1 DEF NodesOK, HC!StoreHealthy, handler
<1>4. CASE HC!StoreHeight(n)
  <2>1. probe'[n].h = 0 /\ \A m \in Nodes \ {n} : probe'[m] = probe[m]
    BY <1>1, <1>4, FromHealth DEF HC!StoreHeight, HC!NoProbe
  <2>2. height'[n] \in {height[n], probe[n].h} /\ \A m \in Nodes \ {n} : height'[m] = height[m]
    BY <1>1, <1>4, FromHealth DEF HC!StoreHeight
  <2> QED
    BY <1>1, <1>2, <1>4, <2>1, <2>2, SMT DEF NodesOK, HC!StoreHeight, handler
<1> QED
  BY <1>3, <1>4

LEMMA MarkingNodes ==
    ASSUME GatewayIInv, HC!Marking, UNCHANGED <<handler, real, calm>>
    PROVE  NodesOK' /\ head' \in {head, best}
<1>1. TypeOK /\ NodesOK /\ HCP!IInv
  BY DEF GatewayIInv
<1>2. \A m \in Nodes : real[m] \in Nat /\ height[m] \in Nat
  BY <1>1, FromHealth, LagAssumption, SMT DEF NodesOK, Heights
<1>3. tip \in Nat
  BY <1>1, LagAssumption, SMT DEF TypeOK, Heights
<1>4. ASSUME NEW b \in Heights, HC!StartMarking(b) PROVE NodesOK' /\ head' = head
  <2>1. b <= tip
    BY <1>1, <1>2, <1>3, <1>4, SameNames, SMT DEF HC!StartMarking, HC!IsMaxHeight, NodesOK
  <2> QED
    BY <1>1, <1>4, <2>1 DEF HC!StartMarking, NodesOK, handler
<1>5. CASE HC!MarkNode
  BY <1>1, <1>5 DEF HC!MarkNode, NodesOK, handler
<1>6. CASE HC!PublishHead
  BY <1>1, <1>6 DEF HC!PublishHead, NodesOK, handler
<1> QED
  BY <1>4, <1>5, <1>6, SameNames DEF HC!Marking

\* A round moves the flags, the heights and the head, and ends every calm.
LEMMA RoundKeeps ==
    ASSUME GatewayIInv, Tick \/ Round
    PROVE  TypeOK' /\ NodesOK' /\ KeptOK' /\ CalmOK'
<1>1. TypeOK /\ NodesOK /\ KeptOK /\ CalmOK /\ HCP!IInv
  BY DEF GatewayIInv
<1>2. UNCHANGED handler
  BY DEF Tick, Round
<1>3. KeptOK'
  BY <1>1, <1>2 DEF KeptOK, KeepsForEver, Buried, At, Kept, handler
<1>4. CASE Tick
  <2>1. \A n \in Nodes : probe'[n].h = 0 /\ real[n] \in Nat
    BY <1>1, <1>4, SameNames, LagAssumption, SMT DEF Tick, HC!Tick, NodesOK, Heights
  <2>2. /\ UNCHANGED <<real, height, best, head>>
        /\ calm' = [c \in Callers |-> FALSE]
    BY <1>4 DEF Tick, HC!Tick
  <2>3. NodesOK'
    BY <1>1, <1>2, <2>1, <2>2, SMT DEF NodesOK, handler
  <2>4. CalmOK'
    BY <2>2 DEF CalmOK
  <2>5. TypeOK'
    BY <1>1, <1>2, <2>2 DEF TypeOK, handler
  <2> QED
    BY <1>3, <2>3, <2>4, <2>5
<1>5. CASE Round
  <2>1. UNCHANGED <<real, calm>>
    BY <1>5 DEF Round
  <2>2. NodesOK' /\ head' \in {head, best} /\ pc # "idle"
    <3>1. ASSUME NEW n \in Nodes, NEW r \in HC!Replies,
                 r.body = "block" => r.h = real[n], HC!ProbeReturns(n, r)
          PROVE  NodesOK' /\ head' = head /\ pc # "idle"
      BY <1>1, <1>2, <2>1, <3>1, ProbeNodes, FromHealth DEF HC!ProbeReturns
    <3>2. ASSUME NEW n \in Nodes, HC!StoreHealthy(n) \/ HC!StoreHeight(n)
          PROVE  NodesOK' /\ head' = head /\ pc # "idle"
      BY <1>1, <1>2, <2>1, <3>2, StoreNodes, FromHealth, SMT DEF HC!StoreHealthy, HC!StoreHeight
    <3>3. CASE HC!Marking
      <4>1. pc # "idle"
        BY <3>3 DEF HC!Marking, HC!StartMarking, HC!MarkNode, HC!PublishHead
      <4> QED
        BY <1>2, <2>1, <3>3, <4>1, MarkingNodes
    <3> QED
      BY <1>5, <3>1, <3>2, <3>3 DEF Round
  <2>3. CalmOK'
    BY <1>1, <2>1, <2>2 DEF CalmOK
  <2>4. head' \in 0 .. tip
    BY <1>1, <2>2, FromHealth, LagAssumption, SMT DEF TypeOK, NodesOK, Heights
  <2>5. TypeOK'
    BY <1>1, <1>2, <2>4 DEF TypeOK, handler
  <2> QED
    BY <1>3, <2>2, <2>3, <2>5
<1> QED
  BY <1>4, <1>5

-----------------------------------------------------------------------------
(***************************************************************************)
(* The steps of a request.                                                 *)
(***************************************************************************)
\* A settled block is buried, whatever the head does later.
LEMMA SettledIsBuried ==
    ASSUME TypeOK, NEW r \in Requests, Fixed(r), Settled(r)
    PROVE  Buried(r)
<1>1. Number(r) \in Nat /\ tip \in Nat /\ head \in Nat /\ head <= tip /\ Depth \in Nat
  BY NumberInBlocks, LagAssumption, SMT DEF TypeOK, Heights
<1> QED
  BY <1>1, SMT DEF Settled, Buried

\* The node a calm call was routed to has every settled block.
LEMMA CalmNodeHasBlock ==
    ASSUME GatewayIInv, NEW c \in Callers, calm[c], NEW r \in Requests, Fixed(r), Settled(r),
           NEW h \in answering(c)
    PROVE  Answer(r, h) = version[Number(r)]
<1>1. TypeOK /\ NodesOK /\ CalmOK /\ HCP!IInv
  BY DEF GatewayIInv
<1>2. via[c] \in Nodes /\ h = real[via[c]]
  BY <1>1 DEF answering, NodesOK
<1>3. healthy[via[c]] /\ pc = "idle" /\ via[c] # NoNode
  BY <1>1, <1>2 DEF CalmOK, answering
<1>4. height[via[c]] + Lag >= head /\ height[via[c]] \in Nat /\ head \in Nat
  BY <1>1, <1>2, <1>3, FromHealth, LagAssumption, SMT DEF Heights
<1>5. h \in Nat /\ height[via[c]] <= h
  BY <1>1, <1>2, LagAssumption, SMT DEF NodesOK, Heights
<1>6. Number(r) \in Nat /\ Number(r) + Depth <= head
  BY NumberInBlocks DEF Settled
<1>7. Number(r) <= h
  BY <1>4, <1>5, <1>6, LagAssumption, SMT
<1> QED
  BY <1>5, <1>7, AnswerIsBlock DEF BlockAt

LEMMA ServeKeeps ==
    ASSUME GatewayIInv, NEW c \in Callers, Serve(c)
    PROVE  TypeOK' /\ NodesOK' /\ KeptOK' /\ CalmOK'
<1> DEFINE hs == answering(c)
<1>1. TypeOK /\ NodesOK /\ KeptOK /\ CalmOK /\ HCP!IInv
  BY DEF GatewayIInv
<1>2. ServeHTTP(c, hs) /\ UNCHANGED <<rotation, real>>
  BY DEF Serve
<1>3. hs \in SUBSET Heights
  BY <1>1, SMT DEF answering, NodesOK
<1> HIDE DEF hs
<1>4. TypeOK'
  BY <1>1, <1>2, <1>3, ServeTypeOK
<1>5. UNCHANGED chain /\ \A d \in Callers \ {c} : Carries(d)
  BY <1>1, <1>2, ServeShape
<1>6. UNCHANGED <<tip, version, head, pc, healthy, height, probe, best>>
  BY <1>2, <1>5 DEF chain, rotation
<1>7. /\ via' = [via EXCEPT ![c] = NoNode]
      /\ calm' = IF At(c, "idle") THEN [calm EXCEPT ![c] = (pc = "idle")] ELSE calm
  BY DEF Serve
<1>8. NodesOK'
  <2>1. via' \in [Callers -> Nodes \cup {NoNode}]
    BY <1>1, <1>7 DEF NodesOK
  <2>2. calm' \in [Callers -> BOOLEAN]
    BY <1>1, <1>7 DEF NodesOK
  <2> QED
    BY <1>1, <1>2, <1>6, <2>1, <2>2 DEF NodesOK
<1>9. call[c] # Idle => calm' = calm
  BY <1>1, <1>7 DEF At, TypeOK, Idle, Asking, Answered
<1>10. \A d \in Callers \ {c} : via'[d] = via[d] /\ calm'[d] = calm[d]
  BY <1>1, <1>7 DEF NodesOK
<1>11. via'[c] = NoNode
  BY <1>1, <1>7 DEF NodesOK
\* What a caller that goes on had to say of its request, it still has.
<1>12. ASSUME NEW d \in Callers, Carries(d), KeepsForEver(d)'
       PROVE  /\ KeepsForEver(d)
              /\ call'[d].req = call[d].req
              /\ At(d, "store")' => call'[d] = call[d] /\ At(d, "store")
  BY <1>12 DEF Carries, KeepsForEver, At
<1> DEFINE CallKept(d) == KeepsForEver(d) =>
              /\ Buried(call[d].req)
              /\ (At(d, "store") /\ call[d].out.t = "result") =>
                    call[d].out.val \in {Null, version[Number(call[d].req)]}
           CallCalm(d) == calm[d] =>
              /\ pc = "idle"
              /\ via[d] # NoNode => healthy[via[d]]
              /\ KeepsForEver(d) =>
                    /\ Settled(call[d].req)
                    /\ (At(d, "store") /\ call[d].out.t = "result") =>
                          call[d].out.val = version[Number(call[d].req)]
<1>13. ASSUME NEW d \in Callers, Carries(d), calm'[d] = calm[d],
              d = c \/ via'[d] = via[d]
       PROVE  CallKept(d)' /\ CallCalm(d)'
  <2>1. CallKept(d) /\ CallCalm(d)
    BY <1>1 DEF KeptOK, CalmOK
  <2>2. CallKept(d)'
    BY <1>6, <1>12, <1>13, <2>1 DEF Buried
  <2>3. CallCalm(d)'
    BY <1>6, <1>11, <1>12, <1>13, <2>1, SMT DEF Settled
  <2> QED
    BY <2>2, <2>3
<1>14. ASSUME UNCHANGED cache
       PROVE  \A r \in DOMAIN cache' : Kept(r)' /\ Fixed(r) =>
                 Buried(r)' /\ cache'[r].val \in {Null, version'[Number(r)]}
  BY <1>1, <1>6, <1>14 DEF KeptOK, Kept, Buried
<1>15. CASE call[c] # Idle /\ Carries(c) /\ (UNCHANGED cache \/ Stores(c))
  <2>1. \A d \in Callers : CallKept(d)' /\ CallCalm(d)'
    BY <1>5, <1>9, <1>10, <1>13, <1>15
  <2>2. ASSUME Stores(c)
        PROVE  \A r \in DOMAIN cache' : Kept(r)' /\ Fixed(r) =>
                  Buried(r)' /\ cache'[r].val \in {Null, version'[Number(r)]}
    <3> DEFINE q == call[c].req
    <3>1. Fixed(q) /\ cache'[q].expiry = 0 =>
             Buried(q) /\ cache'[q].val \in {Null, version[Number(q)]}
      BY <1>1, <1>15, <2>2 DEF KeptOK, KeepsForEver, Stores
    <3>2. \A r \in DOMAIN cache' \ {q} : r \in DOMAIN cache /\ cache'[r] = cache[r]
      BY <2>2 DEF Stores
    <3> HIDE DEF q
    <3> QED
      BY <1>1, <1>6, <3>1, <3>2, SMT DEF KeptOK, Kept, Buried
  <2>3. KeptOK'
    BY <1>14, <1>15, <2>1, <2>2 DEF KeptOK
  <2>4. CalmOK'
    BY <2>1 DEF CalmOK
  <2> QED
    BY <1>4, <1>8, <2>3, <2>4
<1>16. CASE Accepts(c) /\ UNCHANGED cache
  <2>1. PICK r \in Requests : call'[c].req = r /\ call'[c].layer = Classify(r)
    BY <1>16 DEF Accepts
  <2>2. Fixed(r) /\ Classify(r) # "mutable" => Settled(r) /\ Buried(r)
    <3>1. head \in 0 .. tip
      BY <1>1 DEF TypeOK
    <3>2. head \in Nat
      BY <3>1, SMT
    <3> QED
      BY <1>1, <3>2, ClassifyIsCareful, SettledIsBuried
  <2>3. ~At(c, "store")' /\ calm'[c] = (pc = "idle")
    BY <1>1, <1>7, <1>16, SMT DEF Accepts, At, Idle, NodesOK
  <2>4. KeepsForEver(c)' => Settled(call[c].req)' /\ Buried(call[c].req)'
    BY <1>6, <2>1, <2>2 DEF KeepsForEver, Settled, Buried
  <2>5. CallKept(c)' /\ CallCalm(c)'
    BY <1>6, <1>11, <2>3, <2>4
  <2>6. \A d \in Callers : CallKept(d)' /\ CallCalm(d)'
    BY <1>5, <1>10, <1>13, <2>5
  <2>7. KeptOK' /\ CalmOK'
    BY <1>14, <1>16, <2>6 DEF KeptOK, CalmOK
  <2> QED
    BY <1>4, <1>8, <2>7
<1>17. CASE Fetches(c, hs) /\ UNCHANGED cache
  <2>1. call[c] # Idle /\ call[c].req \in Requests
    BY <1>1, <1>17 DEF Fetches, TypeOK, Asking, Answered
  <2>2. KeepsForEver(c)' => KeepsForEver(c) /\ call'[c].req = call[c].req
    BY <1>17 DEF KeepsForEver, Fetches
  <2>3. ASSUME KeepsForEver(c), NEW h \in hs
        PROVE  Answer(call[c].req, h) \in {Null, version[Number(call[c].req)]}
    <3>1. h \in Nat
      BY <1>3, LagAssumption, SMT DEF Heights
    <3> QED
      BY <2>1, <2>3, <3>1, AnswerIsBlock DEF KeepsForEver, BlockAt
  <2>4. ASSUME KeepsForEver(c), calm[c], NEW h \in hs
        PROVE  Answer(call[c].req, h) = version[Number(call[c].req)]
    <3>1. Settled(call[c].req) /\ Fixed(call[c].req)
      BY <1>1, <2>4 DEF CalmOK, KeepsForEver
    <3> QED
      BY <2>1, <2>4, <3>1, CalmNodeHasBlock DEF hs
  <2>5. call'[c].out.t = "result" => \E h \in hs : call'[c].out.val = Answer(call[c].req, h)
    BY <1>17 DEF Fetches
  <2>6. CallKept(c)'
    BY <1>1, <1>6, <2>2, <2>3, <2>5 DEF KeptOK, Buried
  <2>7. CallCalm(c)'
    BY <1>1, <1>6, <1>9, <1>11, <2>1, <2>2, <2>4, <2>5 DEF CalmOK, Settled
  <2>8. \A d \in Callers : CallKept(d)' /\ CallCalm(d)'
    BY <1>5, <1>10, <1>13, <2>6, <2>7
  <2>9. KeptOK' /\ CalmOK'
    BY <1>14, <1>17, <2>8 DEF KeptOK, CalmOK
  <2> QED
    BY <1>4, <1>8, <2>9
<1> QED
  BY <1>1, <1>2, <1>15, <1>16, <1>17, ServeShape, SMT

\* Routing picks a node of the rotation of that moment.
LEMMA RouteKeeps ==
    ASSUME GatewayIInv, NEW c \in Callers, Route(c)
    PROVE  TypeOK' /\ NodesOK' /\ KeptOK' /\ CalmOK'
<1>1. TypeOK /\ NodesOK /\ KeptOK /\ CalmOK
  BY DEF GatewayIInv
<1>2. PICK n \in Nodes : healthy[n] /\ via' = [via EXCEPT ![c] = n]
  BY DEF Route, mayRoute
<1>3. UNCHANGED <<tip, version, head, now, cache, neg, flight, call, failedAt>>
  BY DEF Route, vars, chain
<1>4. UNCHANGED <<healthy, height, probe, pc, best, real, calm>>
  BY DEF Route, rotation
<1>5. TypeOK'
  BY <1>1, <1>3 DEF TypeOK
<1>6. NodesOK'
  BY <1>1, <1>2, <1>3, <1>4 DEF NodesOK
<1>7. KeptOK'
  BY <1>1, <1>3 DEF KeptOK, KeepsForEver, Buried, At, Kept
<1>8. \A d \in Callers : via'[d] = IF d = c THEN n ELSE via[d]
  BY <1>1, <1>2 DEF NodesOK
<1>9. CalmOK'
  BY <1>1, <1>2, <1>3, <1>4, <1>8, SMT DEF CalmOK, KeepsForEver, Settled, At
<1> QED
  BY <1>5, <1>6, <1>7, <1>9

LEMMA SyncKeeps ==
    ASSUME GatewayIInv, NEW n \in Nodes, Sync(n)
    PROVE  TypeOK' /\ NodesOK' /\ KeptOK' /\ CalmOK'
<1>1. TypeOK /\ NodesOK /\ KeptOK /\ CalmOK /\ HCP!IInv
  BY DEF GatewayIInv
<1>2. PICK h \in real[n] + 1 .. tip : real' = [real EXCEPT ![n] = h]
  BY DEF Sync
<1>3. UNCHANGED <<tip, version, head, now, cache, neg, flight, call, failedAt>>
  BY DEF Sync, vars, chain
<1>4. UNCHANGED <<healthy, height, probe, pc, best, via, calm>>
  BY DEF Sync, rotation
<1>5. tip \in Heights /\ \A m \in Nodes : real[m] \in Heights /\ height[m] \in Heights /\ probe[m].h \in Heights
  BY <1>1, FromHealth DEF TypeOK, NodesOK
<1>6. h \in Heights /\ h <= tip /\ real[n] <= h
  BY <1>5, LagAssumption, SMT DEF Heights
<1>7. \A m \in Nodes : real'[m] = IF m = n THEN h ELSE real[m]
  BY <1>1, <1>2 DEF NodesOK
<1>8. real' \in [Nodes -> Heights]
  BY <1>1, <1>2, <1>6 DEF NodesOK
<1>9. \A m \in Nodes : real'[m] <= tip /\ height[m] <= real'[m] /\ probe[m].h <= real'[m]
  BY <1>1, <1>5, <1>6, <1>7, LagAssumption, SMT DEF NodesOK, Heights
<1>10. NodesOK'
  BY <1>1, <1>3, <1>4, <1>8, <1>9 DEF NodesOK
<1> QED
  BY <1>1, <1>3, <1>4, <1>10
     DEF TypeOK, KeptOK, CalmOK, KeepsForEver, Buried, Settled, At, Kept

\* The chain grows above what is kept, and replaces nothing that is buried.
LEMMA GatewayWorldKeeps ==
    ASSUME GatewayIInv, World
    PROVE  TypeOK' /\ NodesOK' /\ KeptOK' /\ CalmOK'
<1>1. TypeOK /\ NodesOK /\ KeptOK /\ CalmOK /\ HCP!IInv
  BY DEF GatewayIInv
<1>2. TypeOK'
  BY <1>1, NextTypeOK DEF World, Next
<1>3. UNCHANGED <<healthy, height, probe, pc, best, real, via, calm>>
  BY DEF World, rotation
<1>4. UNCHANGED <<head, call>>
  BY DEF World, Grow, Reorg, Evict, Pass, chain
<1>5. tip \in Nat /\ tip' \in Nat /\ tip <= tip'
  <2>1. tip' \in {tip, tip + 1}
    BY DEF World, Grow, Reorg, Evict, Pass, chain
  <2>2. tip \in Heights
    BY <1>1 DEF TypeOK
  <2>3. tip \in Nat
    BY <2>2, LagAssumption, SMT DEF Heights
  <2> QED
    BY <2>1, <2>3, SMT
<1>6. NodesOK'
  <2>1. best \in Nat /\ \A n \in Nodes : real[n] \in Nat
    BY <1>1, FromHealth, LagAssumption, SMT DEF NodesOK, Heights
  <2> QED
    BY <1>1, <1>3, <1>5, <2>1, SMT DEF NodesOK
<1>7. ASSUME NEW r \in Requests, Fixed(r), Buried(r)
      PROVE  Buried(r)' /\ version'[Number(r)] = version[Number(r)]
  <2>1. Number(r) \in Blocks /\ Number(r) \in Nat
    BY <1>7, NumberInBlocks
  <2>2. Buried(r)'
    BY <1>5, <1>7, <2>1, LagAssumption, SMT DEF Buried
  <2>3. CASE Reorg
    <3>1. PICK b \in 1 .. tip :
             /\ b + Depth > tip
             /\ version' = [n \in Blocks |-> IF n \in b .. tip THEN 1 - version[n] ELSE version[n]]
      BY <2>3 DEF Reorg
    <3>2. Number(r) < b
      BY <1>5, <1>7, <2>1, <3>1, LagAssumption, SMT DEF Buried
    <3> QED
      BY <1>5, <2>1, <2>2, <3>1, <3>2, SMT
  <2>4. CASE ~Reorg
    BY <2>2, <2>4 DEF World, Grow, Evict, Pass, chain
  <2> QED
    BY <2>3, <2>4
<1>8. \A c \in Callers : call[c] # Idle => call[c].req \in Requests
  BY <1>1 DEF TypeOK, Asking, Answered
<1>9. DOMAIN cache' \subseteq DOMAIN cache /\ \A r \in DOMAIN cache' : cache'[r] = cache[r]
  BY DEF World, Grow, Reorg, Evict, Pass, Restrict
<1>10. DOMAIN cache \subseteq Requests
  BY <1>1 DEF TypeOK
<1>11. \A c \in Callers : KeepsForEver(c) =>
          Buried(call[c].req)' /\ version'[Number(call[c].req)] = version[Number(call[c].req)]
  BY <1>1, <1>4, <1>7, <1>8 DEF KeptOK, KeepsForEver, Buried
<1>12. KeptOK'
  BY <1>1, <1>4, <1>7, <1>9, <1>10, <1>11 DEF KeptOK, KeepsForEver, At, Kept, Buried
<1>13. CalmOK'
  BY <1>1, <1>3, <1>4, <1>11 DEF CalmOK, KeepsForEver, At, Settled
<1> QED
  BY <1>2, <1>6, <1>12, <1>13

-----------------------------------------------------------------------------
LEMMA GatewayInitIInv == GatewayInit => GatewayIInv
<1> SUFFICES ASSUME GatewayInit PROVE GatewayIInv
  OBVIOUS
<1>1. TypeOK
  BY InitTypeOK DEF GatewayInit
<1>2. HCP!IInv
  <2>1. HCP!Init
    BY SameNames DEF GatewayInit, HC!Init, HCP!Init, HC!NoProbe, HCP!NoProbe
  <2> QED
    BY <2>1, HCP!InitIInv, HealthAssumptions
<1>3. NodesOK
  BY SameNames, LagAssumption, SMT DEF GatewayInit, Init, HC!Init, HC!NoProbe, NodesOK, Heights
<1>4. KeptOK /\ CalmOK
  BY DEF GatewayInit, Init, KeptOK, CalmOK, KeepsForEver, Empty
<1> QED
  BY <1>1, <1>2, <1>3, <1>4 DEF GatewayIInv

LEMMA GatewayNextIInv == GatewayIInv /\ [GatewayNext]_gatewayVars => GatewayIInv'
<1> SUFFICES ASSUME GatewayIInv, [GatewayNext]_gatewayVars PROVE GatewayIInv'
  OBVIOUS
<1>1. HCP!IInv'
  BY HCP!NextIInv, HealthAssumptions, GatewayImplementsRounds DEF GatewayIInv
<1>2. CASE UNCHANGED gatewayVars
  <2>1. TypeOK /\ NodesOK /\ KeptOK /\ CalmOK
    BY DEF GatewayIInv
  <2>2. UNCHANGED <<tip, version, head, now, cache, neg, flight, call, failedAt,
                    healthy, height, probe, pc, best, real, via, calm>>
    BY <1>2 DEF gatewayVars, vars, chain, rotation
  <2>3. TypeOK'
    BY <2>1, <2>2 DEF TypeOK
  <2>4. NodesOK' /\ KeptOK' /\ CalmOK'
    BY <2>1, <2>2 DEF NodesOK, KeptOK, CalmOK, KeepsForEver, Buried, Settled, At, Kept
  <2> QED
    BY <1>1, <2>3, <2>4 DEF GatewayIInv
<1>3. CASE GatewayNext
  <2>1. TypeOK' /\ NodesOK' /\ KeptOK' /\ CalmOK'
    BY <1>3, RouteKeeps, ServeKeeps, RoundKeeps, SyncKeeps, GatewayWorldKeeps DEF GatewayNext
  <2> QED
    BY <1>1, <2>1 DEF GatewayIInv
<1> QED
  BY <1>2, <1>3

LEMMA GatewayInvariance == GatewaySpec => []GatewayIInv
<1>1. GatewayInit => GatewayIInv
  BY GatewayInitIInv
<1>2. GatewayIInv /\ [GatewayNext]_gatewayVars => GatewayIInv'
  BY GatewayNextIInv
<1> QED
  BY <1>1, <1>2, PTL DEF GatewaySpec

\* The answer of the chain about a buried block.
LEMMA BuriedAnswer ==
    ASSUME TypeOK, NEW r \in Requests, Fixed(r), Buried(r)
    PROVE  Answer(r, tip) = version[Number(r)]
<1>1. Number(r) \in Nat /\ tip \in Nat /\ Number(r) <= tip
  BY NumberInBlocks, LagAssumption, SMT DEF TypeOK, Heights, Buried
<1> QED
  BY <1>1, AnswerIsBlock DEF BlockAt

-----------------------------------------------------------------------------
\* What ServeHTTP keeps for ever about a numbered block is never a replaced block,
\* although nodes lag, the head goes back and health rounds run between the
\* classification, the routing, the answer and the store.
THEOREM KeptIsSound == GatewaySpec => []KeptIsNeverReplaced
<1>1. GatewayIInv => KeptIsNeverReplaced
  <2> SUFFICES ASSUME GatewayIInv, NEW r \in DOMAIN cache, Kept(r), Fixed(r)
               PROVE  cache[r].val \in {Null, Answer(r, tip)}
    BY DEF KeptIsNeverReplaced
  <2>1. r \in Requests /\ Buried(r) /\ cache[r].val \in {Null, version[Number(r)]}
    BY DEF GatewayIInv, TypeOK, KeptOK
  <2> QED
    BY <2>1, BuriedAnswer DEF GatewayIInv
<1> QED
  BY <1>1, GatewayInvariance, PTL

\* Between two health rounds the lag filter of markLaggingNodes is what the cache
\* needs: what a calm request is about to keep for ever is the block itself.
THEOREM CalmIsFinal == GatewaySpec => []CalmAnswersAreFinal
<1>1. GatewayIInv => CalmAnswersAreFinal
  <2> SUFFICES ASSUME GatewayIInv, NEW c \in Callers, At(c, "store"), calm[c],
                      call[c].layer = "immutable", Fixed(call[c].req),
                      call[c].out.t = "result"
               PROVE  call[c].out.val = Answer(call[c].req, tip)
    BY DEF CalmAnswersAreFinal
  <2>1. call[c] # Idle
    BY SMT DEF At, Idle
  <2>2. KeepsForEver(c) /\ call[c].req \in Requests
    BY <2>1 DEF KeepsForEver, GatewayIInv, TypeOK, Asking, Answered
  <2>3. call[c].out.val = version[Number(call[c].req)] /\ Buried(call[c].req)
    BY <2>2 DEF GatewayIInv, CalmOK, KeptOK
  <2> QED
    BY <2>2, <2>3, BuriedAnswer DEF GatewayIInv
<1> QED
  BY <1>1, GatewayInvariance, PTL
=============================================================================
