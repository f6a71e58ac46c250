----------------------------- MODULE WSSession ------------------------------
(***************************************************************************)
(* One virtual WebSocket session of internal/proxy/ws.go: the goroutine    *)
(* that executes run (connect, replay, flush, pump), the goroutine that    *)
(* reads the client, and one goroutine per upstream connection that reads  *)
(* that upstream and forwards to the client.                               *)
(*                                                                         *)
(* Goroutine 0 is run's; goroutine e > 0 is the reader that pump started   *)
(* for the e-th connection.  forwardToClient takes the session's lock up   *)
(* to twice before it writes, so it is up to three steps of the goroutine  *)
(* that calls it.  The upstream side and the client are the environment.   *)
(***************************************************************************)
EXTENDS Naturals, Sequences, FiniteSets, Functions

CONSTANTS
    MaxConns,       \* bound: upstream connections of the session
    MaxOps,         \* bound: requests the client sends
    MaxNotes,       \* bound: notifications the upstreams push
    ClientOps,      \* what the client sends: subset of {"sub", "unsub", "call"}
    ClientFaults,   \* what becomes of the client: subset of {"stalled", "left"}
    ChanCap,        \* capacity of fromClient
    PendingCap,     \* maxPendingSubscribes
    ReplayCap,      \* replayPendingCap
    WriteErrors,    \* a write to a dead upstream may fail at once
    NoVal,          \* an error, or a result that is not a subscription id
    SubId(_, _)     \* SubId(e, k): what the e-th upstream calls subscription k

Conns == 1 .. MaxConns
Ops == 1 .. MaxOps      \* the client's k-th request: its raw id and its params
SubIds == {SubId(e, k) : e \in Conns, k \in Ops}

\* Ids are unique over all upstreams of a session.  The code relies on it: it
\* keys one table by the ids of all of them.
ASSUME UniqueIds ==
    \A d, e \in Conns : \A j, k \in Ops : SubId(d, j) = SubId(e, k) => d = e /\ j = k

ASSUME SessionAssumption ==
    /\ MaxConns \in Nat /\ MaxOps \in Nat /\ MaxNotes \in Nat
    /\ ChanCap \in Nat /\ PendingCap \in Nat /\ ReplayCap \in Nat
    /\ ClientOps \subseteq {"sub", "unsub", "call"}
    /\ ClientFaults \subseteq {"stalled", "left"}
    /\ NoVal \notin SubIds

VARIABLES
    pc,         \* where run is
    cur,        \* number of the latest connection, 0 before the first
    subs,       \* client id -> [params, up]
    upToClient, \* upstream id -> client id
    pending,    \* raw request id -> params, both the number of the request
    waiting,    \* client ids in pendingReplay
    buf,        \* pendingFrames
    reader,     \* reader[e]: the reader goroutine of connection e
    fwd,        \* fwd[g]: the forwardToClient call goroutine g is executing
    conn,       \* conn[e]: connection e and the upstream behind it
    client,     \* the client, its connection and its reader goroutine
    fromClient, \* the channel between the client reader and pump
    ctxDone,    \* the request context is cancelled
    stuck,      \* pump is inside up.WriteMessage, which does not return
    notes,      \* notifications pushed so far
    cancelled,  \* params of the subscriptions the client cancelled (history)
    orphaned    \* pump has gone back to run without its reader (history)

session == <<subs, upToClient, pending>>
replay == <<waiting, buf>>
user == <<client, fromClient, ctxDone>>
log == <<stuck, notes, cancelled, orphaned>>
vars == <<pc, cur, session, replay, reader, fwd, conn, user, log>>

\* Frames an upstream sends.  A "replayed" frame answers a replay request; its
\* id is the client id that follows the prefix "replay:".
Note(sid, k) == [t |-> "note", sid |-> sid, k |-> k]
Resp(id, val) == [t |-> "resp", id |-> id, val |-> val]

Frames ==
    [t : {"note"}, sid : SubIds, k : Ops]
      \cup [t : {"resp"}, id : Ops, val : SubIds \cup {NoVal}]
      \cup [t : {"replayed"}, id : SubIds, val : SubIds \cup {NoVal}]
\* What an upstream was asked: k is the subscription, 0 for a plain call.
Requests == [t : {"resp"}, id : Ops, k : Ops \cup {0}]
              \cup [t : {"replayed"}, id : SubIds, k : Ops]
ClientFrames == [op : {"sub", "call"}, id : Ops] \cup [op : {"unsub"}, sid : SubIds]

Free == [st |-> "free"]
Forwarding == {Free} \cup [st : {"register"}, f : Frames, k : Ops]
                     \cup [st : {"write"}, f : Frames]

TypeOK ==
    /\ pc \in {"connect", "replay", "read_replay", "flush", "pump", "wait_done",
               "over", "returned"}
    /\ cur \in 0 .. MaxConns
    /\ DOMAIN subs \subseteq SubIds
    /\ \A c \in DOMAIN subs : subs[c] \in [k : Ops, up : SubIds]
    /\ DOMAIN upToClient \subseteq SubIds
    /\ \A x \in DOMAIN upToClient : upToClient[x] \in SubIds
    /\ DOMAIN pending \subseteq Ops
    /\ \A r \in DOMAIN pending : pending[r] \in Ops
    /\ waiting \subseteq DOMAIN subs
    /\ buf \in Seq(Frames)
    /\ reader \in [Conns -> {"none", "running", "done"}]
    /\ fwd \in [{0} \cup Conns -> Forwarding]
    /\ conn \in [Conns -> [link : {"none", "up", "silent", "down"}, closed : BOOLEAN,
                           down : Seq(Frames), asked : SUBSET Requests,
                           active : SUBSET Ops]]
    /\ client \in [state : {"open", "stalled", "left"}, reader : {"reading", "gone"},
                   held : Seq(ClientFrames), broken : BOOLEAN, sent : 0 .. MaxOps,
                   known : SUBSET SubIds]
    /\ fromClient \in Seq(ClientFrames)
    /\ ctxDone \in BOOLEAN
    /\ stuck \in BOOLEAN
    /\ notes \in 0 .. MaxNotes
    /\ cancelled \subseteq Ops
    /\ orphaned \in BOOLEAN

Empty == [x \in {} |-> x]
Put(f, x, v) == [y \in DOMAIN f \cup {x} |-> IF y = x THEN v ELSE f[y]]
Drop(f, x) == Restrict(f, DOMAIN f \ {x})

NoConn == [link |-> "none", closed |-> FALSE, down |-> <<>>, asked |-> {}, active |-> {}]

Init ==
    /\ pc = "connect" /\ cur = 0
    /\ subs = Empty /\ upToClient = Empty /\ pending = Empty
    /\ waiting = {} /\ buf = <<>>
    /\ reader = [e \in Conns |-> "none"]
    /\ fwd = [g \in {0} \cup Conns |-> Free]
    /\ conn = [e \in Conns |-> NoConn]
    /\ client = [state |-> "open", reader |-> "reading", held |-> <<>>,
                 broken |-> FALSE, sent |-> 0, known |-> {}]
    /\ fromClient = <<>>
    /\ ctxDone = FALSE
    /\ stuck = FALSE
    /\ notes = 0
    /\ cancelled = {}
    /\ orphaned = FALSE

-----------------------------------------------------------------------------
(***************************************************************************)
(* run: connect, replay, flush.                                            *)
(***************************************************************************)
\* up.Close(): the upstream is cut off; frames already received stay readable.
Close(e) == [conn EXCEPT ![e].link = "down", ![e].closed = TRUE]

ConnectUpstream ==
    /\ pc = "connect"
    /\ cur < MaxConns
    /\ cur' = cur + 1
    /\ conn' = [conn EXCEPT ![cur + 1].link = "up"]
    /\ pc' = "replay"
    /\ UNCHANGED <<session, replay, reader, fwd, user, log>>

\* connectUpstream returns an error: a close frame is tried and run returns.
NoUpstream ==
    /\ pc = "connect"
    /\ pc' = "over"
    /\ UNCHANGED <<cur, session, replay, reader, fwd, conn, user, log>>

\* pump arms the read deadline and starts the reader of the connection.
StartPump ==
    /\ pc' = "pump"
    /\ reader' = [reader EXCEPT ![cur] = "running"]

\* replaySubscriptions has nothing to replay.
NothingToReplay ==
    /\ pc = "replay"
    /\ DOMAIN subs = {}
    /\ StartPump
    /\ UNCHANGED <<cur, session, replay, fwd, conn, user, log>>

\* replaySubscriptions takes its snapshot and sends every request.  The writes have
\* no deadline: with an upstream that takes nothing the step may never be taken.
SendReplay ==
    /\ pc = "replay"
    /\ DOMAIN subs # {}
    /\ waiting' = DOMAIN subs
    /\ buf' = <<>>
    /\ conn' = IF conn[cur].link = "up"
               THEN [conn EXCEPT ![cur].asked =
                        {[t |-> "replayed", id |-> c, k |-> subs[c].k] : c \in DOMAIN subs}]
               ELSE conn
    /\ pc' = "read_replay"
    /\ UNCHANGED <<cur, session, reader, fwd, user, log>>

\* replaySubscriptions returns an error: the connection and the buffered frames
\* are given up and run dials again.
FailReplay ==
    /\ conn' = Close(cur)
    /\ waiting' = {}
    /\ buf' = <<>>
    /\ pc' = "connect"
    /\ UNCHANGED <<cur, session, reader, fwd, user, log>>

\* A replay request cannot be written.
ReplayWriteFails ==
    /\ pc = "replay"
    /\ DOMAIN subs # {}
    /\ conn[cur].link = "down"
    /\ FailReplay

\* The connection drops, or the 30 s read deadline passes.
ReplayReadFails ==
    /\ pc = "read_replay"
    /\ FailReplay

\* Faulty variant: the old upstream id stays mapped.
remapKeepOld(c, val) == Put(upToClient, val, c)

\* Faulty variant: every answer is filed under one and the same subscription.
remapOne(c, val) == Put(Drop(upToClient, subs[c].up), val, CHOOSE d \in DOMAIN subs : TRUE)

\* The route table after the replay of client id c was answered with val.
remap(c, val) == Put(Drop(upToClient, subs[c].up), val, c)

\* Faulty variant: the table is keyed by the id of the current upstream.
renameRekeyed(c, val) == Put(Drop(subs, c), val, [k |-> subs[c].k, up |-> val])

\* The table after the replay of client id c was answered with val.
rename(c, val) == [subs EXCEPT ![c].up = val]

\* Faulty variant: the buffer has no cap.
stashUncapped(f) == Append(buf, f)

\* A frame that arrives during a replay is held, or dropped once the buffer is full.
stash(f) == IF Len(buf) >= ReplayCap THEN buf ELSE Append(buf, f)

isReplayAnswer(f) == f.t = "replayed" /\ f.id \in waiting

\* Faulty variant: an error answer is taken for an id.
acceptedAny(f) == TRUE

accepted(f) == f.val # NoVal

\* One turn of the read loop of replaySubscriptions.
ReadReplay ==
    /\ pc = "read_replay"
    /\ conn[cur].down # <<>>
    /\ LET f == Head(conn[cur].down)
           popped == [conn EXCEPT ![cur].down = Tail(@)]
       IN  \/ /\ ~isReplayAnswer(f)
              /\ buf' = stash(f)
              /\ conn' = popped
              /\ UNCHANGED <<pc, cur, session, waiting, reader, fwd, user, log>>
           \/ /\ isReplayAnswer(f)
              /\ ~accepted(f)
              /\ FailReplay
           \/ /\ isReplayAnswer(f)
              /\ accepted(f)
              /\ upToClient' = remap(f.id, f.val)
              /\ subs' = rename(f.id, f.val)
              /\ waiting' = waiting \ {f.id}
              /\ pc' = IF waiting' = {} THEN "flush" ELSE pc
              /\ conn' = popped
              /\ UNCHANGED <<cur, pending, buf, reader, fwd, user, log>>

-----------------------------------------------------------------------------
(***************************************************************************)
(* forwardToClient, called by goroutine g.                                 *)
(***************************************************************************)
\* Faulty variant: a notification is passed on with the upstream's id.
clientIDRaw(sid) == sid

\* The id a notification carries to the client.
clientID(sid) == IF sid \in DOMAIN upToClient THEN upToClient[sid] ELSE sid

\* The first critical section: look up the route of a notification, or claim
\* the pending subscribe that a response answers.
BeginForward(g, f) ==
    \/ /\ f.t = "note"
       /\ fwd' = [fwd EXCEPT ![g] = [st |-> "write", f |-> Note(clientID(f.sid), f.k)]]
       /\ UNCHANGED pending
    \/ /\ f.t = "resp"
       /\ f.id \in DOMAIN pending
       /\ pending' = Drop(pending, f.id)
       /\ fwd' = [fwd EXCEPT ![g] =
                     IF f.val # NoVal
                     THEN [st |-> "register", f |-> f, k |-> pending[f.id]]
                     ELSE [st |-> "write", f |-> f]]
    \/ /\ f.t = "replayed" \/ (f.t = "resp" /\ f.id \notin DOMAIN pending)
       /\ fwd' = [fwd EXCEPT ![g] = [st |-> "write", f |-> f]]
       /\ UNCHANGED pending

\* The second critical section: a subscribe was answered with a string.
Register(g) ==
    /\ fwd[g].st = "register"
    /\ LET id == fwd[g].f.val IN
          /\ subs' = Put(subs, id, [k |-> fwd[g].k, up |-> id])
          /\ upToClient' = Put(upToClient, id, id)
    /\ fwd' = [fwd EXCEPT ![g] = [st |-> "write", f |-> fwd[g].f]]
    /\ UNCHANGED <<pc, cur, pending, replay, reader, conn, user, log>>

\* If pump returns in this step, it leaves its reader running.
NoteOrphan == orphaned' = (orphaned \/ (pc = "pump" /\ pc' = "connect" /\ reader[cur] = "running"))

\* writeToClient succeeds; a client that has left may not have been noticed yet.
WriteToClient(g) ==
    /\ fwd[g].st = "write"
    /\ client.state # "stalled" /\ ~client.broken /\ pc # "returned"
    /\ fwd' = [fwd EXCEPT ![g] = Free]
    /\ client' = IF fwd[g].f.t = "resp" /\ fwd[g].f.val \in SubIds
                 THEN [client EXCEPT !.known = @ \cup {fwd[g].f.val}]
                 ELSE client
    /\ UNCHANGED <<pc, cur, session, replay, reader, conn, fromClient, ctxDone, log>>

\* writeToClient fails: the deadline passed or the connection is gone.  A failed
\* write leaves the connection unusable for further writes.
WriteToClientFails(g) ==
    /\ fwd[g].st = "write"
    /\ client.state # "open" \/ client.broken \/ pc = "returned"
    /\ fwd' = [fwd EXCEPT ![g] = Free]
    /\ client' = [client EXCEPT !.broken = TRUE]
    /\ IF g = 0
       THEN /\ conn' = Close(cur)
            /\ pc' = IF pc = "flush" THEN "over" ELSE "connect"
            /\ UNCHANGED reader
       ELSE /\ reader' = [reader EXCEPT ![g] = "done"]
            /\ UNCHANGED <<pc, conn>>
    /\ NoteOrphan
    /\ UNCHANGED <<cur, session, replay, fromClient, ctxDone, stuck, notes, cancelled>>

\* run flushes the frames that replaySubscriptions buffered.
Flush ==
    /\ pc = "flush" /\ fwd[0].st = "free"
    /\ \/ /\ buf # <<>>
          /\ BeginForward(0, Head(buf))
          /\ buf' = Tail(buf)
          /\ UNCHANGED <<pc, reader>>
       \/ /\ buf = <<>>
          /\ StartPump
          /\ UNCHANGED <<buf, fwd, pending>>
    /\ UNCHANGED <<cur, subs, upToClient, waiting, conn, user, log>>

\* The reader of connection e gets a frame.  After Close it may still get those
\* that were received before.
ReadUpstream(e) ==
    /\ reader[e] = "running" /\ fwd[e].st = "free"
    /\ conn[e].down # <<>>
    /\ BeginForward(e, Head(conn[e].down))
    /\ conn' = [conn EXCEPT ![e].down = Tail(@)]
    /\ UNCHANGED <<pc, cur, subs, upToClient, replay, reader, user, log>>

\* Faulty variant: no read deadline, a silent upstream is never noticed.
upstreamGoneNoDeadline(e) == conn[e].closed \/ (conn[e].link = "down" /\ conn[e].down = <<>>)

\* ReadMessage fails: closed by run, dropped by the peer, or no Pong in time.
upstreamGone(e) ==
    \/ conn[e].closed
    \/ conn[e].link \in {"down", "silent"} /\ conn[e].down = <<>>

ReadUpstreamFails(e) ==
    /\ reader[e] = "running" /\ fwd[e].st = "free"
    /\ upstreamGone(e)
    /\ reader' = [reader EXCEPT ![e] = "done"]
    /\ UNCHANGED <<pc, cur, session, replay, fwd, conn, user, log>>

-----------------------------------------------------------------------------
(***************************************************************************)
(* pump, and the handlers of the frames the client sends.                  *)
(***************************************************************************)
\* pump is at its select.
Pumping == pc = "pump" /\ fwd[0].st = "free" /\ ~stuck

\* pump returns false and run dials again.
Failover ==
    /\ conn' = Close(cur)
    /\ pc' = "connect"

\* upDone is closed.
PumpUpstreamDone ==
    /\ Pumping
    /\ reader[cur] = "done"
    /\ Failover
    /\ UNCHANGED <<cur, session, replay, reader, fwd, user, log>>

\* Faulty variant: clientGone is not watched.
clientLeftNoticedLate == ctxDone

clientLeft == client.reader = "gone" \/ ctxDone

\* clientGone is closed or the context is done: pump returns true, run returns.
PumpEnds ==
    /\ Pumping
    /\ clientLeft
    /\ conn' = Close(cur)
    /\ pc' = "over"
    /\ UNCHANGED <<cur, session, replay, reader, fwd, user, log>>

\* Faulty variant: the reader is not waited for.
afterPingNoWait == "connect"

afterPing == "wait_done"

\* The Ping cannot be written: close, then wait for the reader.
PingFails ==
    /\ Pumping
    /\ conn[cur].link \in {"down", "silent"}
    /\ conn' = Close(cur)
    /\ pc' = afterPing
    /\ UNCHANGED <<cur, session, replay, reader, fwd, user, log>>

WaitDone ==
    /\ pc = "wait_done"
    /\ reader[cur] = "done"
    /\ pc' = "connect"
    /\ UNCHANGED <<cur, session, replay, reader, fwd, conn, user, log>>

\* up.WriteMessage: delivered (the upstream then holds the state new), lost with
\* a dead connection, or refused, in which case pump returns false.  The write has
\* no deadline: it blocks while the peer is silent and its window is full.
WriteUpstream(new) ==
    \/ /\ conn[cur].link = "up"
       /\ conn' = [conn EXCEPT ![cur] = new]
       /\ UNCHANGED <<pc, stuck>>
    \/ /\ conn[cur].link # "up"
       /\ UNCHANGED <<conn, pc, stuck>>
    \/ /\ conn[cur].link = "silent"
       /\ stuck' = TRUE
       /\ UNCHANGED <<conn, pc>>
    \/ /\ WriteErrors /\ conn[cur].link = "down"
       /\ Failover
       /\ UNCHANGED stuck

\* The blocked write returns: taken by a peer that stays silent, or broken off
\* because the connection dropped, and pump returns false.
StuckWrite ==
    /\ pc = "pump" /\ fwd[0].st = "free" /\ stuck
    /\ stuck' = FALSE
    /\ \/ conn[cur].link = "silent" /\ UNCHANGED <<conn, pc>>
       \/ conn[cur].link = "down" /\ Failover
    /\ NoteOrphan
    /\ UNCHANGED <<cur, session, replay, reader, fwd, user, notes, cancelled>>

tooManyPending == Cardinality(DOMAIN pending) >= PendingCap

\* Faulty variant: the request is tracked and not sent on.
AskNothing(id, k) == conn[cur]

Ask(id, k) ==
    [conn[cur] EXCEPT !.asked = @ \cup {[t |-> "resp", id |-> id, k |-> k]}]

ForwardSubscribe(id) ==
    IF tooManyPending
    THEN /\ fwd' = [fwd EXCEPT ![0] = [st |-> "write", f |-> Resp(id, NoVal)]]
         /\ UNCHANGED <<pc, conn, session, stuck, cancelled>>
    ELSE /\ pending' = Put(pending, id, id)
         /\ WriteUpstream(Ask(id, id))
         /\ UNCHANGED <<subs, upToClient, fwd, cancelled>>

\* rewriteUnsubscribe: forget the subscription, and name it as the upstream does.
ForwardUnsubscribe(c) ==
    /\ IF c \in DOMAIN subs
       THEN /\ upToClient' = Drop(upToClient, subs[c].up)
            /\ subs' = Drop(subs, c)
            /\ cancelled' = cancelled \cup {subs[c].k}
       ELSE UNCHANGED <<subs, upToClient, cancelled>>
    /\ LET up == IF c \in DOMAIN subs THEN subs[c].up ELSE c
       IN  WriteUpstream([conn[cur] EXCEPT !.active = {k \in @ : SubId(cur, k) # up}])
    /\ UNCHANGED <<pending, fwd>>

ForwardCall(id) ==
    /\ WriteUpstream(Ask(id, 0))
    /\ UNCHANGED <<session, fwd, cancelled>>

\* pump receives a frame and calls forwardToUpstream.
PumpRequest ==
    /\ Pumping
    /\ fromClient # <<>>
    /\ fromClient' = Tail(fromClient)
    /\ LET r == Head(fromClient) IN
          \/ r.op = "sub" /\ ForwardSubscribe(r.id)
          \/ r.op = "unsub" /\ ForwardUnsubscribe(r.sid)
          \/ r.op = "call" /\ ForwardCall(r.id)
    /\ NoteOrphan
    /\ UNCHANGED <<cur, replay, reader, client, ctxDone, notes>>

\* run has returned: ServeWS closes the client connection and net/http cancels
\* the request's context.
Return ==
    /\ pc = "over"
    /\ pc' = "returned"
    /\ ctxDone' = TRUE
    /\ UNCHANGED <<cur, session, replay, reader, fwd, conn, client, fromClient, log>>

-----------------------------------------------------------------------------
(***************************************************************************)
(* The goroutine that reads the client.                                    *)
(***************************************************************************)
run == <<pc, cur, session, replay, reader, fwd, conn, log>>

\* ReadMessage returns a frame.
ReadClient ==
    /\ client.state = "open" /\ client.reader = "reading" /\ client.held = <<>>
    /\ pc # "returned"
    /\ client.sent < MaxOps
    /\ \E op \in ClientOps : \E sid \in IF op = "unsub" THEN client.known ELSE {NoVal} :
          client' = [client EXCEPT
                        !.sent = @ + 1,
                        !.held = IF op = "unsub" THEN <<[op |-> op, sid |-> sid]>>
                                 ELSE <<[op |-> op, id |-> client.sent + 1]>>]
    /\ UNCHANGED <<run, fromClient, ctxDone>>

\* The frame goes into the channel, or the context is done.
EnqueueClient ==
    /\ client.reader = "reading" /\ client.held # <<>>
    /\ Len(fromClient) < ChanCap
    /\ fromClient' = fromClient \o client.held
    /\ client' = [client EXCEPT !.held = <<>>]
    /\ UNCHANGED <<run, ctxDone>>

\* Faulty variant: the send does not watch the context.
AbandonClientNever == FALSE /\ UNCHANGED vars

AbandonClient ==
    /\ client.reader = "reading" /\ client.held # <<>>
    /\ ctxDone
    /\ client' = [client EXCEPT !.held = <<>>, !.reader = "gone"]
    /\ UNCHANGED <<run, fromClient, ctxDone>>

\* ReadMessage fails: the client left, or ServeWS closed the connection.
ReadClientFails ==
    /\ client.reader = "reading" /\ client.held = <<>>
    /\ client.state = "left" \/ pc = "returned"
    /\ client' = [client EXCEPT !.reader = "gone"]
    /\ UNCHANGED <<run, fromClient, ctxDone>>

-----------------------------------------------------------------------------
(***************************************************************************)
(* The environment: the client, the request's context and the upstreams.   *)
(***************************************************************************)
\* The client's TCP window fills up, or the client leaves.
ClientTurns ==
    /\ \E s \in ClientFaults :
          /\ client.state = "open" \/ (client.state = "stalled" /\ s = "left")
          /\ client' = [client EXCEPT !.state = s]
    /\ UNCHANGED <<run, fromClient, ctxDone>>

\* The context of the request is cancelled while the session runs.
CancelContext ==
    /\ ~ctxDone
    /\ ctxDone' = TRUE
    /\ UNCHANGED <<run, client, fromClient>>

upstreams == <<pc, cur, session, replay, reader, fwd, user, stuck, cancelled, orphaned>>

\* Upstream e answers r, a subscribe or its replay with an id or with an error.
\* A subscription it has notified of is not refused.
UpAnswer(e) ==
    /\ conn[e].link = "up"
    /\ \E r \in conn[e].asked :
          \E ok \in IF r.k = 0 THEN {FALSE} ELSE {TRUE, r.k \in conn[e].active} :
             conn' = [conn EXCEPT
                        ![e].asked = @ \ {r},
                        ![e].active = IF ok THEN @ \cup {r.k} ELSE @,
                        ![e].down = Append(@, [t |-> r.t, id |-> r.id,
                                               val |-> IF ok THEN SubId(e, r.k) ELSE NoVal])]
    /\ UNCHANGED <<upstreams, notes>>

\* Upstream e pushes a notification, at the earliest before it answers.
UpNotify(e) ==
    /\ conn[e].link = "up"
    /\ notes < MaxNotes
    /\ \E k \in conn[e].active \cup ({r.k : r \in conn[e].asked} \ {0}) :
          conn' = [conn EXCEPT ![e].active = @ \cup {k},
                               ![e].down = Append(@, Note(SubId(e, k), k))]
    /\ notes' = notes + 1
    /\ UNCHANGED upstreams

\* The connection drops, or the upstream falls silent without closing it.
UpFails(e) ==
    /\ conn[e].link \in {"up", "silent"}
    /\ \E l \in {"down", "silent"} \ {conn[e].link} : conn' = [conn EXCEPT ![e].link = l]
    /\ UNCHANGED <<upstreams, notes>>

-----------------------------------------------------------------------------
\* Every step of run's goroutine but the failing Ping, whose time is the peer's.
\* Goroutine 0 never registers: no subscribe is sent on a connection before pump.
RunStep ==
    \/ ConnectUpstream \/ NoUpstream
    \/ NothingToReplay \/ SendReplay \/ ReplayWriteFails \/ ReadReplay \/ ReplayReadFails
    \/ Flush
    \/ PumpUpstreamDone \/ PumpEnds \/ WaitDone \/ PumpRequest \/ StuckWrite
    \/ WriteToClient(0) \/ WriteToClientFails(0)
    \/ Return

ReaderStep(e) ==
    \/ ReadUpstream(e) \/ ReadUpstreamFails(e)
    \/ Register(e) \/ WriteToClient(e) \/ WriteToClientFails(e)

ClientReaderStep == EnqueueClient \/ AbandonClient \/ ReadClientFails

Finished ==
    /\ pc = "returned" /\ client.reader = "gone"
    /\ \A e \in Conns : reader[e] # "running"
    /\ UNCHANGED vars

Next ==
    \/ RunStep \/ PingFails
    \/ \E e \in Conns : ReaderStep(e)
    \/ ReadClient \/ ClientReaderStep
    \/ ClientTurns \/ CancelContext
    \/ \E e \in Conns : UpAnswer(e) \/ UpNotify(e) \/ UpFails(e)
    \/ Finished

\* run's goroutine is in a write to an upstream that takes nothing: the handlers'
\* and the replay's writes have no deadline, and no other goroutine breaks them off.
InUpstreamWrite ==
    /\ cur > 0 /\ conn[cur].link = "silent"
    /\ (pc = "pump" /\ stuck) \/ (pc = "replay" /\ DOMAIN subs # {})

\* A runnable goroutine runs: the Go scheduler is fair, ReadMessage returns once
\* its deadline passes and a write to the client fails after clientWriteTimeout.
\* Nothing is assumed of a write to an upstream that takes nothing.
Fairness ==
    /\ WF_vars(~InUpstreamWrite /\ RunStep)
    /\ \A e \in Conns : WF_vars(ReaderStep(e))
    /\ WF_vars(ClientReaderStep)

Spec == Init /\ [][Next]_vars /\ Fairness

-----------------------------------------------------------------------------
(***************************************************************************)
(* Properties.                                                             *)
(***************************************************************************)
\* subs and upToClient are inverse to each other at every step: every tracked
\* subscription is reachable from its current upstream id and no route is left
\* behind by remapping, unsubscribing or registering.
RoutesAgree ==
    /\ \A c \in DOMAIN subs :
          subs[c].up \in DOMAIN upToClient /\ upToClient[subs[c].up] = c
    /\ \A u \in DOMAIN upToClient :
          upToClient[u] \in DOMAIN subs /\ subs[upToClient[u]].up = u

Writing(g) == fwd[g].st = "write"
WritingNote(g) == Writing(g) /\ fwd[g].f.t = "note"

\* The id a notification carries when forwardToClient writes it is one that some
\* upstream gave to the very subscription the notification is about, and not the
\* client's id of another one, whatever failed over in between.
NotesReachTheirSubscription ==
    \A g \in DOMAIN fwd :
        WritingNote(g) =>
            LET n == fwd[g].f IN
            /\ \E e \in Conns : n.sid = SubId(e, n.k)
            /\ n.sid \in DOMAIN subs => subs[n.sid].k = n.k

\* The client can place every notification it is sent: it is for a tracked client
\* id, or for a subscribe still to be answered, or for one the client cancelled;
\* provided that no reader outlived its pump.
NotesAreRecognised ==
    ~orphaned => \A g \in DOMAIN fwd :
        WritingNote(g) => \/ fwd[g].f.sid \in DOMAIN subs
                          \/ fwd[g].f.k \in DOMAIN pending \cup cancelled

\* The client connection, which allows one writer, has one: run flushes before pump
\* starts a reader and no reader is left by a failing Ping.  The exceptions are the
\* rejection of a subscribe beyond the cap, which pump writes beside its reader,
\* and a reader that outlived its pump.
WritersMeetAtRejections ==
    \A g, h \in DOMAIN fwd :
        (g # h /\ Writing(g) /\ Writing(h) /\ ~orphaned)
            => 0 \in {g, h} /\ fwd[0].f.t = "resp" /\ fwd[0].f.val = NoVal

\* Every subscription id the client was given stays tracked, through every
\* failover and failed replay, until the client itself unsubscribes.
GivenIdsStayTracked ==
    \A c \in client.known :
        c \in DOMAIN subs \/ \E e \in Conns, k \in cancelled : c = SubId(e, k)

\* While pump runs, every tracked subscription is known under the id that the
\* current upstream gave it, and a connected upstream is serving it.
ReplayIsComplete ==
    pc = "pump" => \A c \in DOMAIN subs :
                      /\ subs[c].up = SubId(cur, subs[c].k)
                      /\ conn[cur].link = "up" => subs[c].k \in conn[cur].active

\* The same, provided that no reader outlived its pump.
PumpedSubsAreLive == ~orphaned => ReplayIsComplete

\* The frames held for a replay, the subscribes in flight and the frames waiting
\* for pump stay within replayPendingCap, maxPendingSubscribes and the channel.
BuffersBounded ==
    /\ Len(buf) <= ReplayCap
    /\ Cardinality(DOMAIN pending) <= PendingCap
    /\ Len(fromClient) <= ChanCap

\* Once the client is gone or the context is done, run returns, unless it blocks
\* for ever in a write to its upstream, where it watches neither.
SessionEnds == (client.reader = "gone" \/ ctxDone) ~> (pc = "returned" \/ []InUpstreamWrite)

\* An upstream that falls silent while pump uses it is left: the read deadline
\* that Pongs no longer extend makes pump return, unless pump blocks for ever in
\* a write to that upstream.
SilentUpstreamIsLeft ==
    \A e \in Conns :
        (pc = "pump" /\ cur = e /\ conn[e].link = "silent")
            ~> (cur # e \/ pc = "returned" \/ []InUpstreamWrite)

\* Request k is with the e-th upstream, or its answer is on the way to the reader.
Awaited(e, k) ==
    \/ \E r \in conn[e].asked : r.t = "resp" /\ r.id = k
    \/ \E i \in DOMAIN conn[e].down : conn[e].down[i].t = "resp" /\ conn[e].down[i].id = k

\* A subscribe is lost only with its upstream: if upstreams answer what they are
\* asked, a tracked subscribe is answered and claimed unless a connection failed or
\* was given up and no connected upstream has the request.  One that is lost is not
\* sent again and stays in pending.
SubscribesAreLostWithUpstreams ==
    (\A e \in Conns : WF_vars(UpAnswer(e))) =>
        \A k \in Ops :
            (k \in DOMAIN pending)
                ~> \/ k \notin DOMAIN pending
                   \/ /\ \E e \in 1 .. cur : conn[e].link # "up"
                      /\ \A e \in 1 .. cur : conn[e].link = "up" => ~Awaited(e, k)

\* No goroutine of the session outlives it: the reader of every connection and
\* the reader of the client end after run has returned.
GoroutinesEnd ==
    (pc = "returned") ~> /\ client.reader = "gone"
                         /\ \A e \in Conns : reader[e] # "running"
=============================================================================
