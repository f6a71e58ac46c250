---------------------------- MODULE WSSessionInv ----------------------------
(***************************************************************************)
(* The invariant of WSSession, in layers, and what its actions do, in the  *)
(* words the layers are stated in.  Shape is what the code relies on for   *)
(* its types; Wire says which ids are on which connection; Tokens that a   *)
(* request of the client is in one place only.  NotedOK, Given and Writers *)
(* are what the notifications, the ids the client was given and the        *)
(* writers of its connection add.  Live says what the current upstream     *)
(* serves, Heard what it may notify of.                                    *)
(***************************************************************************)
EXTENDS WSSession

Goroutines == {0} \cup Conns

\* What run is doing where.
Shape ==
    /\ TypeOK
    /\ pc # "read_replay" => waiting = {}
    /\ pc \in {"replay", "read_replay", "flush", "pump", "wait_done"} => cur # 0
    /\ pc \in {"connect", "replay", "pump", "wait_done"} => buf = <<>>
    /\ fwd[0].st # "free" => pc \in {"flush", "pump"}
    /\ \A g \in Goroutines : fwd[g].st = "register" => fwd[g].f.t = "resp" /\ fwd[g].f.val \in SubIds
    /\ Len(client.held) <= 1

\* A request on a connection, and a frame that answers one on connection e.
AskOK(r) ==
    /\ r.t = "resp" => r.k \in {0, r.id}
    /\ r.t = "replayed" => \E d \in Conns : r.id = SubId(d, r.k)
SentOK(e, f) ==
    /\ f.t = "note" => f.sid = SubId(e, f.k)
    /\ f.t = "resp" /\ f.val # NoVal => f.val = SubId(e, f.id)
    /\ f.t = "replayed" /\ f.val # NoVal =>
          \E d \in Conns, k \in Ops : f.id = SubId(d, k) /\ f.val = SubId(e, k)

Fresh(e) == conn[e].asked = {} /\ conn[e].down = <<>> /\ conn[e].active = {}

\* No request of the client has been sent on connection e.
Unasked(e) ==
    /\ \A r \in conn[e].asked : r.t # "resp"
    /\ \A i \in 1 .. Len(conn[e].down) : conn[e].down[i].t # "resp"

WireOK(e) ==
    /\ \A r \in conn[e].asked : AskOK(r)
    /\ \A i \in 1 .. Len(conn[e].down) : SentOK(e, conn[e].down[i])
    /\ e > cur => Fresh(e) /\ reader[e] = "none"
    /\ e = cur /\ pc = "replay" => Fresh(e)
    /\ e = cur /\ pc \in {"replay", "read_replay", "flush"} => Unasked(e) /\ reader[e] = "none"
    /\ fwd[e].st # "free" => reader[e] = "running"

BufOK == \A i \in 1 .. Len(buf) : buf[i].t # "resp" /\ SentOK(cur, buf[i])

ClaimOK(g) ==
    fwd[g].st = "register" =>
        g # 0 /\ fwd[g].f.val = SubId(g, fwd[g].k) /\ fwd[g].f.id = fwd[g].k

NamedOK(c) ==
    /\ \E d \in Conns : c = SubId(d, subs[c].k)
    /\ \E d \in Conns : subs[c].up = SubId(d, subs[c].k)

Wire ==
    /\ \A e \in Conns : WireOK(e)
    /\ BufOK
    /\ \A g \in Goroutines : ClaimOK(g)
    /\ \A r \in DOMAIN pending : pending[r] = r
    /\ \A c \in DOMAIN subs : NamedOK(c)

\* Where request k of the client may be.
Asks(e, k) == \E r \in conn[e].asked : r.t = "resp" /\ r.id = k
ToldAt(e, i, k) == conn[e].down[i].t = "resp" /\ conn[e].down[i].id = k
Told(e, k) == \E i \in 1 .. Len(conn[e].down) : ToldAt(e, i, k)
Claimed(g, k) == fwd[g].st = "register" /\ fwd[g].k = k
Tracked(k) == \E c \in DOMAIN subs : subs[c].k = k
Kept(k) == Tracked(k) \/ k \in cancelled

InFlight(k) == \/ \E e \in Conns : Asks(e, k) \/ Told(e, k)
               \/ \E g \in Goroutines : Claimed(g, k)

Used(k) == InFlight(k) \/ Kept(k) \/ k \in DOMAIN pending

\* The frames of the client that pump has not seen.
Queue == fromClient \o client.held

Numbered(i) == Queue[i].op # "unsub"

QueueOK ==
    /\ \A i \in 1 .. Len(Queue) : Numbered(i) => Queue[i].id <= client.sent
    /\ \A i, j \in 1 .. Len(Queue) : i < j /\ Numbered(i) /\ Numbered(j) => Queue[i].id < Queue[j].id
    /\ \A k \in Ops : Used(k) =>
          /\ k <= client.sent
          /\ \A i \in 1 .. Len(Queue) : Numbered(i) => k < Queue[i].id
    /\ \A i \in 1 .. Len(Queue) : ~Numbered(i) => Queue[i].sid \in client.known

\* A request is in one place: asked of one upstream, answered in one frame on
\* its way to the session, or claimed by one goroutine.
OneAsk ==
    \A d, e \in Conns : \A r \in conn[d].asked, s \in conn[e].asked :
        r.t = "resp" /\ s.t = "resp" /\ r.id = s.id => d = e /\ r = s

AskedOrTold == \A d, e \in Conns : \A k \in Ops : ~(Asks(d, k) /\ Told(e, k))

OneTold ==
    \A d, e \in Conns : \A i \in 1 .. Len(conn[d].down), j \in 1 .. Len(conn[e].down) : \A k \in Ops :
        ToldAt(d, i, k) /\ ToldAt(e, j, k) => d = e /\ i = j

ClaimedOnly == \A g \in Goroutines, e \in Conns : \A k \in Ops : Claimed(g, k) => ~Asks(e, k) /\ ~Told(e, k)

OneClaim == \A g, h \in Goroutines : \A k \in Ops : Claimed(g, k) /\ Claimed(h, k) => g = h

PlaceOK == OneAsk /\ AskedOrTold /\ OneTold /\ ClaimedOnly /\ OneClaim

KeptOK ==
    /\ \A k \in Ops : ~(Kept(k) /\ InFlight(k))
    /\ \A k \in Ops : ~(Tracked(k) /\ k \in cancelled)
    /\ \A c, d \in DOMAIN subs : subs[c].k = subs[d].k => c = d
    /\ \A e \in Conns : \A r \in conn[e].asked : r.t = "replayed" => Kept(r.k)

PendingOK ==
    /\ \A e \in Conns : \A r \in conn[e].asked : r.t = "resp" /\ r.k # 0 => r.id \in DOMAIN pending
    /\ \A e \in Conns : \A i \in 1 .. Len(conn[e].down) :
          conn[e].down[i].t = "resp" /\ conn[e].down[i].val # NoVal => conn[e].down[i].id \in DOMAIN pending

Tokens == QueueOK /\ PlaceOK /\ KeptOK /\ PendingOK

\* A notification in hand is about a subscription.
NotedOK == \A g \in Goroutines : WritingNote(g) => \E e \in Conns : fwd[g].f.sid = SubId(e, fwd[g].f.k)

\* The client may come to know v.
Honoured(v) == v \in DOMAIN subs \/ \E e \in Conns, k \in cancelled : v = SubId(e, k)

Given ==
    /\ \A c \in client.known : Honoured(c)
    /\ \A g \in Goroutines : Writing(g) /\ fwd[g].f.t = "resp" /\ fwd[g].f.val # NoVal => Honoured(fwd[g].f.val)

Writers ==
    /\ ~orphaned => \A e \in Conns : reader[e] = "running" =>
                       e = cur /\ pc \in {"pump", "wait_done", "over", "returned"}
    /\ pc = "pump" /\ fwd[0].st # "free" => Writing(0) /\ fwd[0].f.t = "resp" /\ fwd[0].f.val = NoVal

\* Connection e serves the tracked subscription c.
Serves(e, c) == subs[c].up = SubId(e, subs[c].k) /\ subs[c].k \in conn[e].active

\* The current connection serves what is tracked, answered or claimed.
LiveOK(e) ==
    /\ pc \in {"flush", "pump"} \/ reader[e] = "running" => \A c \in DOMAIN subs : Serves(e, c)
    /\ pc = "read_replay" =>
          /\ \A c \in DOMAIN subs \ waiting : Serves(e, c)
          /\ \A i \in 1 .. Len(conn[e].down) : \A k \in Ops :
                conn[e].down[i].t = "replayed" /\ conn[e].down[i].val = SubId(e, k) => k \in conn[e].active
    /\ \A i \in 1 .. Len(conn[e].down) :
          conn[e].down[i].t = "resp" /\ conn[e].down[i].val # NoVal => conn[e].down[i].id \in conn[e].active
    /\ \A k \in Ops : Claimed(e, k) => k \in conn[e].active

Live == ~orphaned => \A e \in Conns : e = cur => LiveOK(e)

\* The session has not forgotten subscribe k.
Known(k) == Kept(k) \/ k \in DOMAIN pending \/ \E g \in Goroutines : Claimed(g, k)

\* What an upstream may notify of.
Refused == \A e \in Conns : \A i \in 1 .. Len(conn[e].down) :
    conn[e].down[i].t = "resp" /\ conn[e].down[i].val = NoVal /\ conn[e].down[i].id \in DOMAIN pending
        => conn[e].down[i].id \notin conn[e].active

Unpromised == \A e \in Conns : \A r \in conn[e].asked : r.t = "resp" /\ r.k = 0 => r.id \notin DOMAIN pending

HeardOK(e) ==
    /\ \A k \in conn[e].active : Known(k)
    /\ \A r \in conn[e].asked : r.k # 0 => Known(r.k)
    /\ \A i \in 1 .. Len(conn[e].down) :
          conn[e].down[i].t = "note" => conn[e].down[i].k \in conn[e].active \cup cancelled
    /\ \A i \in 1 .. Len(buf) : buf[i].t = "note" => buf[i].k \in conn[e].active \cup cancelled

Heard ==
    /\ Refused /\ Unpromised
    /\ ~orphaned => \A e \in Conns : e = cur => HeardOK(e)

-----------------------------------------------------------------------------
(***************************************************************************)
(* What the actions do.                                                    *)
(***************************************************************************)

ConnRec == [link : {"none", "up", "silent", "down"}, closed : BOOLEAN,
            down : Seq(Frames), asked : SUBSET Requests, active : SUBSET Ops]

\* Only whether the connections work has changed.
SameTraffic ==
    /\ conn' \in [Conns -> ConnRec]
    /\ \A d \in Conns : /\ conn'[d].asked = conn[d].asked
                        /\ conn'[d].down = conn[d].down
                        /\ conn'[d].active = conn[d].active

\* Connection e has been read from.
Popped(e) ==
    /\ conn' \in [Conns -> ConnRec]
    /\ conn[e].down # <<>> /\ conn'[e].down = Tail(conn[e].down)
    /\ conn'[e].asked = conn[e].asked /\ conn'[e].active = conn[e].active
    /\ \A d \in Conns \ {e} : conn'[d] = conn[d]

\* Connection e has been written to, or an upstream has acted.
Becomes(e, asked, active, down) ==
    /\ conn' \in [Conns -> ConnRec]
    /\ conn'[e].asked = asked /\ conn'[e].active = active /\ conn'[e].down = down
    /\ \A d \in Conns \ {e} : conn'[d] = conn[d]

\* The frame that forwardToClient has in hand after its first critical section.
Forwards(g, f) ==
    /\ fwd' \in [Goroutines -> Forwarding]
    /\ \A h \in Goroutines \ {g} : fwd'[h] = fwd[h]
    /\ \/ /\ f.t = "note" /\ pending' = pending
          /\ fwd'[g] = [st |-> "write", f |-> Note(clientID(f.sid), f.k)]
       \/ /\ f.t = "resp" /\ f.id \in DOMAIN pending /\ f.val \in SubIds
          /\ pending' = Drop(pending, f.id)
          /\ fwd'[g] = [st |-> "register", f |-> f, k |-> pending[f.id]]
       \/ /\ f.t = "resp" /\ f.id \in DOMAIN pending /\ f.val = NoVal
          /\ pending' = Drop(pending, f.id)
          /\ fwd'[g] = [st |-> "write", f |-> f]
       \/ /\ f.t = "replayed" \/ (f.t = "resp" /\ f.id \notin DOMAIN pending)
          /\ pending' = pending
          /\ fwd'[g] = [st |-> "write", f |-> f]

\* The parts of TypeOK, by the goroutine that owns the variables.
TablesType ==
    /\ DOMAIN subs \subseteq SubIds
    /\ \A c \in DOMAIN subs : subs[c] \in [k : Ops, up : SubIds]
    /\ DOMAIN upToClient \subseteq SubIds
    /\ \A x \in DOMAIN upToClient : upToClient[x] \in SubIds

PendingType == DOMAIN pending \subseteq Ops /\ \A r \in DOMAIN pending : pending[r] \in Ops

RunType ==
    /\ pc \in {"connect", "replay", "read_replay", "flush", "pump", "wait_done", "over", "returned"}
    /\ cur \in 0 .. MaxConns
    /\ waiting \subseteq DOMAIN subs
    /\ buf \in Seq(Frames)
    /\ pc # "read_replay" => waiting = {}
    /\ pc \in {"replay", "read_replay", "flush", "pump", "wait_done"} => cur # 0
    /\ pc \in {"connect", "replay", "pump", "wait_done"} => buf = <<>>
    /\ fwd[0].st # "free" => pc \in {"flush", "pump"}

FwdType ==
    /\ reader \in [Conns -> {"none", "running", "done"}]
    /\ fwd \in [Goroutines -> Forwarding]
    /\ \A g \in Goroutines : fwd[g].st = "register" => fwd[g].f.t = "resp" /\ fwd[g].f.val \in SubIds

ClientRec ==
    [state : {"open", "stalled", "left"}, reader : {"reading", "gone"},
     held : Seq(ClientFrames), broken : BOOLEAN, sent : 0 .. MaxOps, known : SUBSET SubIds]

UserType == client \in ClientRec /\ fromClient \in Seq(ClientFrames) /\ ctxDone \in BOOLEAN /\ Len(client.held) <= 1

LogType == notes \in 0 .. MaxNotes /\ cancelled \subseteq Ops /\ orphaned \in BOOLEAN

Walks == \/ ConnectUpstream \/ NoUpstream \/ NothingToReplay \/ PumpUpstreamDone \/ PumpEnds
         \/ PingFails \/ WaitDone \/ StuckWrite \/ Return

\* The answer to the replay of a subscription is taken.
Remaps(f) ==
    /\ pc = "read_replay" /\ conn[cur].down # <<>> /\ f = Head(conn[cur].down)
    /\ isReplayAnswer(f) /\ accepted(f)
    /\ upToClient' = remap(f.id, f.val)
    /\ subs' = rename(f.id, f.val)
    /\ waiting' = waiting \ {f.id}
    /\ pc' = IF waiting' = {} THEN "flush" ELSE pc
    /\ conn' = [conn EXCEPT ![cur].down = Tail(@)]
    /\ UNCHANGED <<cur, pending, buf, reader, fwd, user, log>>

\* A frame is held until the replay is complete.
Stashes(f) ==
    /\ pc = "read_replay" /\ conn[cur].down # <<>> /\ f = Head(conn[cur].down)
    /\ ~isReplayAnswer(f)
    /\ buf' = stash(f)
    /\ conn' = [conn EXCEPT ![cur].down = Tail(@)]
    /\ UNCHANGED <<pc, cur, session, waiting, reader, fwd, user, log>>

\* What the second critical section of forwardToClient does.
Registers(g, id, k) ==
    /\ id = fwd[g].f.val /\ k = fwd[g].k /\ id \in SubIds /\ k \in Ops
    /\ subs' = Put(subs, id, [k |-> k, up |-> id])
    /\ upToClient' = Put(upToClient, id, id)
    /\ fwd' \in [Goroutines -> Forwarding]
    /\ fwd'[g] = [st |-> "write", f |-> fwd[g].f]
    /\ \A h \in Goroutines \ {g} : fwd'[h] = fwd[h]

\* What forwardToUpstream does with a frame of the client.
Delivers(asked, active) ==
    \/ SameTraffic /\ pc' \in {pc, "connect"}
    \/ Becomes(cur, asked, active, conn[cur].down) /\ pc' = pc

Rejects(id) ==
    /\ SameTraffic /\ pc' = pc
    /\ fwd' \in [Goroutines -> Forwarding]
    /\ fwd'[0] = [st |-> "write", f |-> Resp(id, NoVal)] /\ \A g \in Conns : fwd'[g] = fwd[g]
    /\ UNCHANGED <<subs, upToClient, pending, cancelled>>

Subscribes(id) ==
    /\ ~tooManyPending
    /\ pending' = Put(pending, id, id)
    /\ Delivers(conn[cur].asked \cup {[t |-> "resp", id |-> id, k |-> id]}, conn[cur].active)
    /\ UNCHANGED <<subs, upToClient, fwd, cancelled>>

Unsubscribes(c) ==
    /\ \/ /\ c \in DOMAIN subs
          /\ upToClient' = Drop(upToClient, subs[c].up) /\ subs' = Drop(subs, c)
          /\ cancelled' = cancelled \cup {subs[c].k}
          /\ Delivers(conn[cur].asked, {k \in conn[cur].active : SubId(cur, k) # subs[c].up})
       \/ /\ c \notin DOMAIN subs
          /\ UNCHANGED <<subs, upToClient, cancelled>>
          /\ Delivers(conn[cur].asked, {k \in conn[cur].active : SubId(cur, k) # c})
    /\ UNCHANGED <<pending, fwd>>

Calls(id) ==
    /\ Delivers(conn[cur].asked \cup {[t |-> "resp", id |-> id, k |-> 0]}, conn[cur].active)
    /\ UNCHANGED <<subs, upToClient, pending, fwd, cancelled>>

Handles(r) ==
    \/ r.op = "sub" /\ r.id \in Ops /\ (Rejects(r.id) \/ Subscribes(r.id))
    \/ r.op = "unsub" /\ r.sid \in SubIds /\ Unsubscribes(r.sid)
    \/ r.op = "call" /\ r.id \in Ops /\ Calls(r.id)

\* Steps of the goroutine that reads the client, and of the client.
ClientSide == ReadClient \/ ClientReaderStep \/ ClientTurns \/ CancelContext

Upstream(e) == UpAnswer(e) \/ UpNotify(e) \/ UpFails(e)

\* What an upstream answers to r.
Answer(e, r, ok) == [t |-> r.t, id |-> r.id, val |-> IF ok THEN SubId(e, r.k) ELSE NoVal]

\* No request of the client appears on a connection; frames keep their order.
Drifts(n) ==
    \A d \in Conns :
        /\ \A r \in conn'[d].asked : r \in conn[d].asked \/ (r.t = "replayed" /\ Tracked(r.k))
        /\ \A i \in 1 .. Len(conn'[d].down) :
              \/ conn'[d].down[i].t # "resp"
              \/ i + n[d] \in 1 .. Len(conn[d].down) /\ conn'[d].down[i] = conn[d].down[i + n[d]]

SameTracked == DOMAIN subs' = DOMAIN subs /\ \A c \in DOMAIN subs : subs'[c].k = subs[c].k
FewerClaims == \A g \in Goroutines : fwd'[g] = fwd[g] \/ fwd'[g].st # "register"

\* Goroutine g begins to forward notification f of connection e.
BeginsNote(g, e, f) ==
    /\ \/ ReadUpstream(e) /\ g = e /\ 1 \in 1 .. Len(conn[e].down) /\ f = conn[e].down[1]
       \/ Flush /\ g = 0 /\ e = cur /\ 1 \in 1 .. Len(buf) /\ f = buf[1]
    /\ f.t = "note" /\ f.k \in Ops /\ f.sid = SubId(e, f.k) /\ pending' = pending
    /\ fwd'[g].f.sid = clientID(f.sid) /\ fwd'[g].f.k = f.k

\* At most the reader of the current connection runs, and only beside pump.
OneReader == \A e \in Conns : reader[e] = "running" => e = cur /\ pc \in {"pump", "wait_done", "over", "returned"}

\* A positive answer f on connection e is about a subscription e serves.
Vouched(e, f) ==
    /\ f.t = "resp" /\ f.val # NoVal => f.id \in conn[e].active
    /\ f.t = "replayed" => \A k \in Ops : f.val = SubId(e, k) => k \in conn[e].active

\* No more is asked of connection e than before.
Coasts(e) ==
    /\ pc' \in {"flush", "pump"} \/ reader'[e] = "running" => pc \in {"flush", "pump"} \/ reader[e] = "running"
    /\ pc' = "read_replay" => pc = "read_replay" /\ waiting' = waiting
    /\ subs' = subs

\* No connection gains a request of the client, a subscription or a frame.
Settles ==
    \A d \in Conns :
        /\ \A r \in conn'[d].asked : r \in conn[d].asked \/ r.t = "replayed"
        /\ conn'[d].active \subseteq conn[d].active
        /\ \A i \in 1 .. Len(conn'[d].down) : \E j \in 1 .. Len(conn[d].down) : conn'[d].down[i] = conn[d].down[j]

\* The upstream of connection e refuses the subscribe k here.
Dismisses(e, k) ==
    /\ ReadUpstream(e) /\ k \in DOMAIN pending
    /\ conn[e].down[1].t = "resp" /\ conn[e].down[1].val = NoVal /\ conn[e].down[1].id = k /\ 1 \in 1 .. Len(conn[e].down)

\* The current connection e gains nothing unknown and loses only what was cancelled.
Feeds(e) ==
    /\ \A k \in conn'[e].active : k \in conn[e].active \/ Known(k)'
    /\ \A k \in conn[e].active : k \in conn'[e].active \/ k \in cancelled'
    /\ \A r \in conn'[e].asked : r \in conn[e].asked \/ r.k = 0 \/ Known(r.k)'
    /\ \A i \in 1 .. Len(conn'[e].down) :
          \/ conn'[e].down[i].t # "note" \/ conn'[e].down[i].k \in conn'[e].active
          \/ \E j \in 1 .. Len(conn[e].down) : conn'[e].down[i] = conn[e].down[j]
    /\ \A i \in 1 .. Len(buf') :
          \/ \E j \in 1 .. Len(buf) : buf'[i] = buf[j]
          \/ \E j \in 1 .. Len(conn[e].down) : buf'[i] = conn[e].down[j]

\* A notification about k, which the client sees as sid, can be placed.
Placed(sid, k) == sid \in DOMAIN subs \/ k \in DOMAIN pending \cup cancelled
=============================================================================
