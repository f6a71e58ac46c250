------------------------------ MODULE Routing -------------------------------
(***************************************************************************)
(* Choosing an upstream node and retrying over the pool: Pool.Next,        *)
(* Pool.NextWithCapability, Router.Route, and the three loops built on     *)
(* them, Handler.proxyDirect, Handler.fetchFromUpstream and                *)
(* wsSession.connectUpstream.                                              *)
(*                                                                         *)
(* Callers run concurrently and share the pool's atomic counter.  The      *)
(* health checker (module HealthChecks) appears as an environment that may *)
(* change the health of any node at any moment.  Only the residue of the   *)
(* counter modulo the pool size is kept; 2^64 calls are out of reach.      *)
(***************************************************************************)
EXTENDS Integers

CONSTANTS
    N,              \* number of nodes in the pool
    Annotation,     \* Annotation[n]: capabilities in the brackets of node n's URL
    Callers,        \* concurrent requests and sessions
    Kinds,          \* the loops they run: subset of AllKinds
    Prefixes        \* method prefixes they ask for: subset of AllPrefixes

AllKinds == {"direct", "fetch", "dial"}
AllPrefixes == {"debug_", "trace_", "other"}
Nodes == 0 .. N-1
Capability == {"basic", "historical", "debug", "trace"}

ASSUME NAssumption == N \in Nat \ {0}
ASSUME CallerAssumption ==
    /\ Annotation \in [Nodes -> SUBSET Capability]
    /\ Kinds \subseteq AllKinds
    /\ Prefixes \subseteq AllPrefixes

VARIABLES
    healthy,    \* healthy[n]: node n is in rotation
    counter,    \* Pool.counter modulo N
    call,       \* call[c]: the loop caller c is running
    tried,      \* nodes the call of c was sent to (history)
    steady,     \* nodes that could serve c ever since its call began (history)
    steadyScan, \* nodes that could serve c ever since its current scan began (history)
    overtaken   \* callers whose counter another one moved during their call (history)

vars == <<healthy, counter, call, tried, steady, steadyScan, overtaken>>

Idle == [pc |-> "idle", kind |-> "direct", method |-> "other",
         try |-> 0, start |-> 0, i |-> 0, result |-> "none"]

Calls == [pc : {"idle", "route", "scan", "send", "done"},
          kind : AllKinds, method : AllPrefixes,
          try : 0 .. N, start : Nodes, i : 0 .. N,
          result : {"none", "ok", "rate_limited", "unavailable"}]

TypeOK ==
    /\ healthy \in [Nodes -> BOOLEAN]
    /\ counter \in Nodes
    /\ call \in [Callers -> Calls]
    /\ tried \in [Callers -> SUBSET Nodes]
    /\ steady \in [Callers -> SUBSET Nodes]
    /\ steadyScan \in [Callers -> SUBSET Nodes]
    /\ overtaken \subseteq Callers

Init ==
    /\ healthy = [n \in Nodes |-> TRUE]
    /\ counter = 0
    /\ call = [c \in Callers |-> Idle]
    /\ tried = [c \in Callers |-> {}]
    /\ steady = [c \in Callers |-> {}]
    /\ steadyScan = [c \in Callers |-> {}]
    /\ overtaken = {}

-----------------------------------------------------------------------------
\* ParseAnnotatedURL and NewUpstream: basic is always there.
Capabilities(n) == {"basic"} \cup Annotation[n]

MethodCapability(method) ==
    CASE method = "debug_" -> "debug"
      [] method = "trace_" -> "trace"
      [] method = "other"  -> "basic"

\* Has, for the one capability a method requires; Next asks for none.
Has(n, kind, method) ==
    \/ kind = "dial"
    \/ MethodCapability(method) \in Capabilities(n)

\* The call is over; what its loop counted is dropped.
finished(result) == [Idle EXCEPT !.pc = "done", !.result = result]

\* Node n is one the scan may return.
Serves(n, kind, method) == healthy[n] /\ Has(n, kind, method)

\* Faulty variant: the counter does not move.
AdvanceStuck(k) == k

Advance(k) == (k + 1) % N

\* A move of the counter by c is noted for the calls of the others.
NoteMove(c, moves) ==
    overtaken' = overtaken \cup {d \in Callers \ {c} : moves /\ call[d].pc # "idle"}

\* The health checker stores a new verdict for n.
SetHealthy(n) ==
    /\ healthy' = [healthy EXCEPT ![n] = ~healthy[n]]
    /\ steady' = [c \in Callers |-> steady[c] \ {n}]
    /\ steadyScan' = [c \in Callers |-> steadyScan[c] \ {n}]
    /\ UNCHANGED <<counter, call, tried, overtaken>>

\* A request, or a session that needs an upstream, enters its retry loop;
\* the session has no method to route by.
Enter(c, kind, method) ==
    /\ call[c].pc = "idle"
    /\ kind = "dial" => method = "other"
    /\ call' = [call EXCEPT ![c] = [Idle EXCEPT !.pc = "route", !.kind = kind,
                                                !.method = method]]
    /\ steady' = [steady EXCEPT ![c] = {n \in Nodes : Serves(n, kind, method)}]
    /\ UNCHANGED <<healthy, counter, tried, steadyScan, overtaken>>

(***************************************************************************)
(* One iteration of the retry loop asks the pool for a node.               *)
(* NextWithCapability reserves its start slot here; Next takes a slot per  *)
(* node it looks at.                                                       *)
(***************************************************************************)
Route(c) ==
    /\ call[c].pc = "route"
    /\ call[c].try < N
    /\ call' = [call EXCEPT ![c].pc = "scan", ![c].start = counter, ![c].i = 0]
    /\ counter' = IF call[c].kind = "dial" THEN counter ELSE Advance(counter)
    /\ steadyScan' = [steadyScan EXCEPT ![c] = {n \in Nodes : Serves(n, call[c].kind, call[c].method)}]
    /\ NoteMove(c, call[c].kind # "dial")
    /\ UNCHANGED <<healthy, tried, steady>>

\* Faulty variant: the scan does not wrap around.
slotNoWrap(c) ==
    IF call[c].kind = "dial" THEN counter
    ELSE IF call[c].start + call[c].i < N THEN call[c].start + call[c].i ELSE N - 1

\* The index the scan of c looks at next.
slot(c) ==
    IF call[c].kind = "dial" THEN counter ELSE (call[c].start + call[c].i) % N

\* One iteration of the scan in NextWithCapability or Next.
Inspect(c) ==
    /\ call[c].pc = "scan"
    /\ call[c].i < N
    /\ counter' = IF call[c].kind = "dial" THEN Advance(counter) ELSE counter
    /\ \/ /\ Serves(slot(c), call[c].kind, call[c].method)
          /\ call' = [call EXCEPT ![c].pc = "send", ![c].start = 0, ![c].i = 0]
          /\ tried' = [tried EXCEPT ![c] = @ \cup {slot(c)}]
          /\ steadyScan' = [steadyScan EXCEPT ![c] = {}]
       \/ /\ ~Serves(slot(c), call[c].kind, call[c].method)
          /\ call' = [call EXCEPT ![c].i = @ + 1]
          /\ UNCHANGED <<tried, steadyScan>>
    /\ NoteMove(c, call[c].kind = "dial")
    /\ UNCHANGED <<healthy, steady>>

\* The scan returns nil: the loop breaks and the call fails.
RouteNil(c) ==
    /\ call[c].pc = "scan"
    /\ call[c].i = N
    /\ call' = [call EXCEPT ![c] = finished("unavailable")]
    /\ steadyScan' = [steadyScan EXCEPT ![c] = {}]
    /\ UNCHANGED <<healthy, counter, tried, steady, overtaken>>

\* Faulty variant: the loop goes on to the next node without counting the try.
replyUncounted(c, o) ==
    CASE o = "ok" -> finished("ok")
      [] o = "429" /\ call[c].kind = "fetch"
                  -> finished("rate_limited")
      [] OTHER    -> [call[c] EXCEPT !.pc = "route"]

(***************************************************************************)
(* The node's answer, or a failed dial.  fetchFromUpstream gives a 429     *)
(* back to the caller at once; every other bad status, and a 429 in        *)
(* proxyDirect, moves on to the next try.  "ok" also stands for a body     *)
(* that breaks off: ReverseProxy then panics, which ends the loop as well. *)
(***************************************************************************)
reply(c, o) ==
    CASE o = "ok" -> finished("ok")
      [] o = "429" /\ call[c].kind = "fetch"
                  -> finished("rate_limited")
      [] OTHER    -> [call[c] EXCEPT !.pc = "route", !.try = @ + 1]

Reply(c, o) ==
    /\ call[c].pc = "send"
    /\ call[c].kind = "dial" => o # "429"
    /\ call' = [call EXCEPT ![c] = reply(c, o)]
    /\ UNCHANGED <<healthy, counter, tried, steady, steadyScan, overtaken>>

\* Faulty variant: one try too few.
outOfTriesEarly(c) == call[c].try >= N - 1

\* The loop condition of the three retry loops.
outOfTries(c) == call[c].try >= N

\* The loop is over without an answer.
GiveUp(c) ==
    /\ call[c].pc = "route"
    /\ outOfTries(c)
    /\ call' = [call EXCEPT ![c] = finished("unavailable")]
    /\ UNCHANGED <<healthy, counter, tried, steady, steadyScan, overtaken>>

\* The caller is served or told off; it may call again.
Leave(c) ==
    /\ call[c].pc = "done"
    /\ call' = [call EXCEPT ![c] = Idle]
    /\ tried' = [tried EXCEPT ![c] = {}]
    /\ steady' = [steady EXCEPT ![c] = {}]
    /\ overtaken' = overtaken \ {c}
    /\ UNCHANGED <<healthy, counter, steadyScan>>

Loop(c) ==
    \/ Route(c)
    \/ Inspect(c)
    \/ RouteNil(c)
    \/ \E o \in {"ok", "429", "failed"} : Reply(c, o)
    \/ GiveUp(c)

Next ==
    \/ \E n \in Nodes : SetHealthy(n)
    \/ \E c \in Callers :
          \/ \E kind \in Kinds, method \in Prefixes : Enter(c, kind, method)
          \/ Loop(c)
          \/ Leave(c)

\* The loop of c is waiting for the answer to a request.  Neither the handler nor the
\* reverse proxy sets a deadline; a dial ends at the HandshakeTimeout of its dialer.
AwaitsAnswer(c) == call[c].pc = "send" /\ call[c].kind # "dial"

\* The goroutine of a call runs, except that an answer may never come.
Spec == Init /\ [][Next]_vars /\ \A c \in Callers : WF_vars(~AwaitsAnswer(c) /\ Loop(c))

-----------------------------------------------------------------------------
(***************************************************************************)
(* NextWithCapability returns nil only if no capable node stayed healthy   *)
(* during the whole scan, whatever the health checker and the other        *)
(* callers did meanwhile.                                                  *)
(***************************************************************************)
RouteNilMeansNoneSteady ==
    \A c \in Callers :
        (call[c].pc = "scan" /\ call[c].i = N /\ call[c].kind # "dial")
            => steadyScan[c] = {}

(***************************************************************************)
(* Next returns nil only if no node stayed healthy during the whole scan   *)
(* (its comment: "or nil if none available"), unless another caller moved  *)
(* the counter during the call: Next takes its slots one by one, so two    *)
(* interleaved calls can each see the same unhealthy node twice.           *)
(***************************************************************************)
NextNilMeansNoneSteady ==
    \A c \in Callers :
        (/\ call[c].pc = "scan" /\ call[c].i = N /\ call[c].kind = "dial"
         /\ c \notin overtaken)
            => steadyScan[c] = {}

(***************************************************************************)
(* A retry loop gives up only after it has tried every node that could     *)
(* have served it all along (the comments of proxyDirect,                  *)
(* fetchFromUpstream and connectUpstream), unless another caller moved the *)
(* counter between its tries.                                              *)
(***************************************************************************)
GivesUpAfterAll ==
    \A c \in Callers :
        (call[c].pc = "done" /\ call[c].result = "unavailable" /\ c \notin overtaken)
            => steady[c] \subseteq tried[c]

(***************************************************************************)
(* Every call ends, however the nodes flap and however many other callers  *)
(* move the shared counter, unless one node never answers it: the loops    *)
(* are bounded by the pool size and wait for nothing else.                 *)
(***************************************************************************)
CallsEnd ==
    \A c \in Callers :
        call[c].pc = "route" ~> (call[c].pc = "done" \/ []AwaitsAnswer(c))
=============================================================================
