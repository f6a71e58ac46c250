----------------------------- MODULE RpcHandler -----------------------------
(***************************************************************************)
(* ServeHTTP of internal/proxy/handler.go: the finality layers, the        *)
(* negative and the positive cache, and the singleflight group that lets   *)
(* one caller fetch for all callers of a key.  The store is the one that   *)
(* Store promises; the retry loop inside fetchFromUpstream is in Routing.  *)
(*                                                                         *)
(* The chain behind the nodes is the environment: it grows, and it may     *)
(* replace its last Depth blocks.  A node in rotation follows it and is at *)
(* most Lag blocks behind the published head, which is what HealthChecks   *)
(* guarantees between two rounds.                                          *)
(***************************************************************************)
EXTENDS Integers, Sequences, FiniteSets, Functions

CONSTANTS
    Callers,        \* request goroutines
    Requests,       \* what they ask: a method and its params
    Depth,          \* FinalityChecker.depth
    Lag,            \* the lag threshold of the health checks
    Blocks,         \* heights of the blocks whose content is asked for
    TxHeight,       \* the block that holds the transaction asked for by hash
    MutableTTL,     \* mutableTTL
    NegTTL,         \* the lifetime of a negative entry, one second
    MaxHeight,      \* bound: the chain
    MaxTime         \* bound: the clock

Heights == 0 .. MaxHeight
\* A block parameter; the number is of interest when the tag is "hex".
Params == [t : {"latest", "finalized", "earliest", "hex", "other"}, n : Blocks]
Methods == {"byHash", "getBlockByNumber", "getBalance", "blockNumber", "other"}

ASSUME RequestAssumption == Requests \subseteq [method : Methods, params : Seq(Params)]

\* Validate demands positive lifetimes.  The defaults of Lag and Depth are 10 and
\* 12; that Lag is the smaller one is not enforced.
ASSUME LagAssumption ==
    /\ Depth \in Nat /\ Lag \in 0 .. Depth
    /\ MaxHeight \in Nat /\ MaxTime \in Nat \ {0}
    /\ Blocks \subseteq Heights /\ TxHeight \in Blocks
    /\ MutableTTL \in Nat \ {0} /\ NegTTL \in Nat \ {0}

VARIABLES
    tip,        \* height of the chain
    version,    \* version[n]: which of two rival blocks stands at height n
    head,       \* FinalityChecker.head
    now,        \* the clock
    cache,      \* key -> [val, expiry], the expiry 0 for never
    neg,        \* key -> expiry of the entry under "neg::"+key
    flight,     \* keys with a call in the singleflight group
    call,       \* call[c]: where caller c is in ServeHTTP
    failedAt    \* failedAt[r]: when a flight of r last stored or reported a failure,
                \* 0 if never (history)

chain == <<tip, version, head>>
vars == <<chain, now, cache, neg, flight, call, failedAt>>

Null == -1      \* the JSON value null, as a result
Results == {Null} \cup Heights \cup {0, 1}     \* a height, or the version of a block
Outcomes == [t : {"result"}, val : Results] \cup [t : {"failed", "uncached"}]
Layers == {"immutable", "mutable", "uncacheable"}

Idle == [st |-> "idle"]
Asking == [st : {"neg", "get", "join", "direct", "fetch", "wait"},
           req : Requests, layer : Layers, start : 1 .. MaxTime]
Answered == [st : {"store", "deliver", "done"},
             req : Requests, layer : Layers, start : 1 .. MaxTime, out : Outcomes]

TypeOK ==
    /\ tip \in Heights /\ head \in 0 .. tip
    /\ version \in [Blocks -> {0, 1}]
    /\ now \in 1 .. MaxTime
    /\ DOMAIN cache \subseteq Requests
    /\ \A r \in DOMAIN cache : cache[r] \in [val : Results, expiry : 0 .. MaxTime + MutableTTL]
    /\ DOMAIN neg \subseteq Requests
    /\ \A r \in DOMAIN neg : neg[r] \in Nat
    /\ flight \subseteq Requests
    /\ call \in [Callers -> {Idle} \cup Asking \cup Answered]
    /\ failedAt \in [Requests -> 0 .. MaxTime]

Empty == [x \in {} |-> x]
Put(f, x, v) == [y \in DOMAIN f \cup {x} |-> IF y = x THEN v ELSE f[y]]

Init ==
    /\ tip = 0 /\ head = 0
    /\ version = [n \in Blocks |-> 0]
    /\ now = 1
    /\ cache = Empty /\ neg = Empty /\ flight = {}
    /\ call = [c \in Callers |-> Idle]
    /\ failedAt = [r \in Requests |-> 0]

-----------------------------------------------------------------------------
(***************************************************************************)
(* The layers (internal/cache/finality.go).                                *)
(***************************************************************************)
\* Faulty variant: one confirmation too few.
IsFinalizedEarly(n) == head >= n /\ head - n >= Depth - 1

IsFinalized(n) == head >= n /\ head - n >= Depth

blockParamLayer(p) ==
    IF p.t \in {"earliest", "finalized"} \/ (p.t = "hex" /\ IsFinalized(p.n))
    THEN "immutable" ELSE "mutable"

\* The layer of the block parameter at index idx (from 0), if there is one.
paramLayer(params, idx) ==
    IF Len(params) <= idx THEN "mutable" ELSE blockParamLayer(params[idx + 1])

Classify(r) ==
    CASE r.method = "byHash" -> "immutable"
      [] r.method = "getBlockByNumber" -> paramLayer(r.params, 0)
      [] r.method = "getBalance" -> paramLayer(r.params, 1)
      [] r.method = "blockNumber" -> "mutable"
      [] OTHER -> "uncacheable"

-----------------------------------------------------------------------------
(***************************************************************************)
(* What a node answers that has the chain up to height h.                  *)
(***************************************************************************)
BlockAt(n, h) == IF n <= h THEN version[n] ELSE Null

ParamAnswer(params, idx, h) ==
    IF Len(params) <= idx THEN h
    ELSE CASE params[idx + 1].t = "hex" -> BlockAt(params[idx + 1].n, h)
           [] params[idx + 1].t = "earliest" -> 0       \* genesis is never replaced
           [] params[idx + 1].t = "finalized" -> IF h >= Depth THEN h - Depth ELSE 0
           [] OTHER -> h

Answer(r, h) ==
    CASE r.method = "byHash" -> BlockAt(TxHeight, h)
      [] r.method = "getBlockByNumber" -> ParamAnswer(r.params, 0, h)
      [] r.method = "getBalance" -> ParamAnswer(r.params, 1, h)
      [] OTHER -> h

\* Heights of the nodes in rotation.
Routable == {h \in 0 .. tip : h + Lag >= head}

-----------------------------------------------------------------------------
(***************************************************************************)
(* ServeHTTP, executed by caller c.                                        *)
(***************************************************************************)
At(c, st) == call[c].st = st
Goto(c, st) == call' = [call EXCEPT ![c].st = st]
Finish(c, st, out) ==
    call' = [call EXCEPT ![c] = [st |-> st, req |-> call[c].req, layer |-> call[c].layer,
                                 start |-> call[c].start, out |-> out]]
Failed == [t |-> "failed"]
Result(v) == [t |-> "result", val |-> v]

Receive(c, r) ==
    /\ call[c] = Idle
    /\ call' = [call EXCEPT ![c] =
          [st |-> IF Classify(r) = "uncacheable" THEN "direct" ELSE "neg",
           req |-> r, layer |-> Classify(r), start |-> now]]
    /\ UNCHANGED <<chain, now, cache, neg, flight, failedAt>>

\* proxyDirect: nothing is looked up and nothing is kept.  Here and in Fetch, hs
\* holds the heights of the nodes that may answer.
ProxyDirect(c, hs) ==
    /\ At(c, "direct")
    /\ \E out \in {Failed} \cup {Result(Answer(call[c].req, h)) : h \in hs} :
          Finish(c, "done", out)
    /\ UNCHANGED <<chain, now, cache, neg, flight, failedAt>>

\* h.cache.Get("neg::" + key).
GetNeg(c) ==
    /\ At(c, "neg")
    /\ LET r == call[c].req IN
          IF r \in DOMAIN neg /\ neg[r] >= now THEN Finish(c, "done", Failed)
                                               ELSE Goto(c, "get")
    /\ UNCHANGED <<chain, now, cache, neg, flight, failedAt>>

\* h.cache.Get(key).
GetKey(c) ==
    /\ At(c, "get")
    /\ LET r == call[c].req IN
          IF r \in DOMAIN cache /\ (cache[r].expiry = 0 \/ cache[r].expiry >= now)
          THEN Finish(c, "done", Result(cache[r].val))
          ELSE Goto(c, "join")
    /\ UNCHANGED <<chain, now, cache, neg, flight, failedAt>>

\* h.sf.Do: the first caller of a key fetches, the others wait for it.
Join(c) ==
    /\ At(c, "join")
    /\ Goto(c, IF call[c].req \in flight THEN "wait" ELSE "fetch")
    /\ flight' = flight \cup {call[c].req}
    /\ UNCHANGED <<chain, now, cache, neg, failedAt>>

\* fetchFromUpstream returns: a result, which may be null; an error; or a 429, an
\* RPC error or a body without a result, which are passed on uncached.  When the
\* body breaks off, ReverseProxy panics and the callers of the flight are cut off;
\* nothing is kept then either.
Fetch(c, hs) ==
    /\ At(c, "fetch")
    /\ \E out \in [t : {"failed", "uncached"}]
                    \cup {Result(Answer(call[c].req, h)) : h \in hs} :
          Finish(c, "store", out)
    /\ UNCHANGED <<chain, now, cache, neg, flight, failedAt>>

\* 0 stands for never.
ttl(layer) == IF layer = "mutable" THEN MutableTTL ELSE 0

\* Faulty variant: the negative entry gets the lifetime of a mutable one.
negExpiryLong == now + NegTTL + MutableTTL

negExpiry == now + NegTTL

\* Faulty variant: a flight whose answer is not kept, as when the node is rate
\* limited, is fetched again.
afterKeepRetry(c) == IF call[c].out.t = "uncached" THEN "fetch" ELSE "deliver"

\* The callback returns, whatever came of the fetch.
afterKeep(c) == "deliver"

\* The callback of Do keeps what may be kept.
Keep(c) ==
    /\ At(c, "store")
    /\ LET r == call[c].req
           out == call[c].out
           life == ttl(call[c].layer)
       IN  /\ cache' = IF out.t = "result"
                       THEN Put(cache, r, [val |-> out.val,
                                           expiry |-> IF life = 0 THEN 0 ELSE now + life])
                       ELSE cache
           /\ IF out.t = "failed"
              THEN neg' = Put(neg, r, negExpiry) /\ failedAt' = [failedAt EXCEPT ![r] = now]
              ELSE UNCHANGED <<neg, failedAt>>
    /\ Goto(c, afterKeep(c))
    /\ UNCHANGED <<chain, now, flight>>

Waiters(r) == {c \in Callers : At(c, "wait") /\ call[c].req = r}

\* Who gets the outcome of the flight that c led.
released(c) == {c} \cup Waiters(call[c].req)

\* Do returns to the leader and to everyone who waited.
Deliver(c) ==
    /\ At(c, "deliver")
    /\ call' = [d \in Callers |->
          IF d \in released(c)
          THEN [st |-> "done", req |-> call[d].req, layer |-> call[d].layer,
                start |-> call[d].start, out |-> call[c].out]
          ELSE call[d]]
    /\ flight' = flight \ {call[c].req}
    /\ failedAt' = IF call[c].out = Failed THEN [failedAt EXCEPT ![call[c].req] = now]
                                           ELSE failedAt
    /\ UNCHANGED <<chain, now, cache, neg>>

\* The response is written with the caller's own id.
Reply(c) ==
    /\ At(c, "done")
    /\ call' = [call EXCEPT ![c] = Idle]
    /\ UNCHANGED <<chain, now, cache, neg, flight, failedAt>>

-----------------------------------------------------------------------------
(***************************************************************************)
(* The environment: the chain, the health checks, the store and the clock. *)
(***************************************************************************)
Grow ==
    /\ tip < MaxHeight
    /\ tip' = tip + 1
    /\ UNCHANGED <<version, head, now, cache, neg, flight, call, failedAt>>

\* The blocks from b on are replaced; none of them has Depth blocks on top.
Reorg ==
    /\ \E b \in 1 .. tip :
          /\ b + Depth > tip
          /\ version' = [n \in Blocks |-> IF n \in b .. tip THEN 1 - version[n] ELSE version[n]]
    /\ UNCHANGED <<tip, head, now, cache, neg, flight, call, failedAt>>

\* The callback of the health checks.  That the head goes back is left out.
SetHead ==
    /\ head' \in head + 1 .. tip
    /\ UNCHANGED <<tip, version, now, cache, neg, flight, call, failedAt>>

\* The store evicts an entry.
Evict ==
    /\ \/ \E r \in DOMAIN cache : cache' = Restrict(cache, DOMAIN cache \ {r}) /\ UNCHANGED neg
       \/ \E r \in DOMAIN neg : neg' = Restrict(neg, DOMAIN neg \ {r}) /\ UNCHANGED cache
    /\ UNCHANGED <<chain, now, flight, call, failedAt>>

Pass ==
    /\ now < MaxTime
    /\ now' = now + 1
    /\ UNCHANGED <<chain, cache, neg, flight, call, failedAt>>

ServeHTTP(c, hs) ==
    \/ \E r \in Requests : Receive(c, r)
    \/ ProxyDirect(c, hs) \/ GetNeg(c) \/ GetKey(c) \/ Join(c)
    \/ Fetch(c, hs) \/ Keep(c) \/ Deliver(c) \/ Reply(c)

Next ==
    \/ \E c \in Callers : ServeHTTP(c, Routable)
    \/ Grow \/ Reorg \/ SetHead \/ Evict \/ Pass

\* What the goroutine of a request does without an upstream or its client.
Handling(c) == GetNeg(c) \/ GetKey(c) \/ Join(c) \/ Keep(c) \/ Deliver(c)

\* Goroutines run; that an upstream answers is not assumed, as no request to it has
\* a deadline.
Spec == Init /\ [][Next]_vars /\ \A c \in Callers : WF_vars(Handling(c))

-----------------------------------------------------------------------------
(***************************************************************************)
(* Properties.                                                             *)
(***************************************************************************)
\* The block parameter of r, where its method has one.
blockIndex(r) == IF r.method = "getBlockByNumber" THEN 1 ELSE 2
Number(r) == r.params[blockIndex(r)].n

\* r asks for a block by its number.
Fixed(r) ==
    /\ r.method \in {"getBlockByNumber", "getBalance"}
    /\ Len(r.params) >= blockIndex(r)
    /\ r.params[blockIndex(r)].t = "hex"

Kept(r) == r \in DOMAIN cache /\ cache[r].expiry = 0

\* What the handler keeps for ever about a numbered block is what the chain says,
\* and stays so: a reorganisation never contradicts it, and it is never the null
\* of a node that had not seen the block, although the layer was chosen from a
\* head that was older than the answer.
FinalAnswersAreRight ==
    \A r \in DOMAIN cache : Kept(r) /\ Fixed(r) => cache[r].val = Answer(r, tip)

\* A failure is not remembered for longer than the second of its negative entry:
\* a caller is told "upstream error" only if a flight of the same key failed while
\* it waited or at most NegTTL before it came.
ErrorsAreRecent ==
    \A c \in Callers :
        (At(c, "done") /\ call[c].out = Failed /\ call[c].layer # "uncacheable") =>
            /\ failedAt[call[c].req] # 0
            /\ failedAt[call[c].req] + NegTTL >= call[c].start

\* c waits for an upstream: for its own request to one, or for the request of the
\* flight it has joined.
AwaitsUpstream(c) ==
    \/ At(c, "direct")
    \/ \E d \in Callers :
          At(d, "fetch") /\ (d = c \/ (At(c, "wait") /\ call[c].req = call[d].req))

\* Nobody is left behind in a flight: a request is answered however its flight ends,
\* and when it comes while the flight is ending, unless the one upstream that the
\* flight asked never answers.
CallersAreAnswered ==
    \A c \in Callers : call[c] # Idle ~> (At(c, "done") \/ []AwaitsUpstream(c))

\* "Hash-addressed: content-unique, re-org-proof": what is kept for ever about a
\* transaction is what the chain says.
HashAnswersAreFinal ==
    \A r \in DOMAIN cache : Kept(r) /\ r.method = "byHash" => cache[r].val = Answer(r, tip)
=============================================================================
