-------------------------- MODULE WSSessionProofs ---------------------------
(***************************************************************************)
(* The session keeps its bounds and its promises to the client through     *)
(* every failover: the buffers, and the upper layers of the invariant of   *)
(* WSSessionInv.  Live says what the current upstream serves, Heard what it *)
(* may notify of; both rest on the layers of WSSessionSteps.               *)
(***************************************************************************)
EXTENDS WSSessionSteps, FiniteSetTheorems, TLAPS

USE ZenonT(40)

-----------------------------------------------------------------------------
(***************************************************************************)
(* Buffers.                                                                *)
(***************************************************************************)

LEMMA NextBounded == Shape /\ BuffersBounded /\ [Next]_vars => BuffersBounded'
<1>PendingFinite. Shape => IsFiniteSet(DOMAIN pending) /\ Cardinality(DOMAIN pending) \in Nat
  <2> SUFFICES ASSUME Shape PROVE IsFiniteSet(DOMAIN pending) /\ Cardinality(DOMAIN pending) \in Nat
    OBVIOUS
  <2>1. IsFiniteSet(Ops)
    BY FS_Interval, SessionAssumption, SMT DEF Ops, SessionAssumption
  <2>2. DOMAIN pending \in SUBSET Ops
    BY DEF Shape, TypeOK
  <2>3. IsFiniteSet(DOMAIN pending)
    BY <2>1, <2>2, FS_Subset
  <2> QED
    BY <2>3, FS_CardinalityType
<1>PendingShrinks.
    ASSUME Shape, Cardinality(DOMAIN pending) <= PendingCap, DOMAIN pending' \subseteq DOMAIN pending
    PROVE  Cardinality(DOMAIN pending') <= PendingCap
  <2> USE <1>PendingShrinks
  <2>1. IsFiniteSet(DOMAIN pending) /\ Cardinality(DOMAIN pending) \in Nat /\ PendingCap \in Nat
    BY <1>PendingFinite, SessionAssumption DEF SessionAssumption
  <2>2. DOMAIN pending' \in SUBSET (DOMAIN pending)
    OBVIOUS
  <2>3. IsFiniteSet(DOMAIN pending') /\ Cardinality(DOMAIN pending') <= Cardinality(DOMAIN pending)
    BY <2>1, <2>2, FS_Subset
  <2>4. Cardinality(DOMAIN pending') \in Nat
    BY <2>3, FS_CardinalityType
  <2> QED
    BY <2>1, <2>3, <2>4, SMT
<1>PendingGrows.
    ASSUME Shape, ~tooManyPending, NEW id, pending' = Put(pending, id, id)
    PROVE  Cardinality(DOMAIN pending') <= PendingCap
  <2> USE <1>PendingGrows
  <2>1. IsFiniteSet(DOMAIN pending) /\ Cardinality(DOMAIN pending) \in Nat /\ PendingCap \in Nat
    BY <1>PendingFinite, SessionAssumption DEF SessionAssumption
  <2>2. DOMAIN pending' = DOMAIN pending \cup {id}
    BY DEF Put
  <2>3. Cardinality(DOMAIN pending') \in {Cardinality(DOMAIN pending), Cardinality(DOMAIN pending) + 1}
    BY <2>1, <2>2, FS_AddElement
  <2>4. Cardinality(DOMAIN pending) < PendingCap
    BY <2>1, SMT DEF tooManyPending
  <2> QED
    BY <2>1, <2>3, <2>4, SMT
<1> SUFFICES ASSUME Shape, BuffersBounded, [Next]_vars PROVE BuffersBounded'
  OBVIOUS
<1>1. ReplayCap \in Nat /\ ChanCap \in Nat /\ buf \in Seq(Frames) /\ fromClient \in Seq(ClientFrames)
      /\ client.held \in Seq(ClientFrames) /\ Len(client.held) <= 1
  BY ShapeParts, SessionAssumption DEF SessionAssumption, RunType, UserType, ClientRec
<1>2. Len(buf) <= ReplayCap /\ Cardinality(DOMAIN pending) <= PendingCap /\ Len(fromClient) <= ChanCap
  BY DEF BuffersBounded
<1>3. \/ UNCHANGED buf \/ buf' = <<>> \/ (buf # <<>> /\ buf' = Tail(buf)) \/ \E f \in Frames : buf' = stash(f)
  <2>1. CASE ReadReplay
    BY <2>1, ReadReplayDoes DEF FailReplay, Stashes, Remaps
  <2>2. CASE Flush
    BY <2>2 DEF Flush
  <2>3. CASE Walks
    BY <2>3, WalksDo
  <2>4. CASE PumpRequest
    BY <2>4, PumpRequestDoes
  <2>5. CASE SendReplay \/ ReplayWriteFails \/ ReplayReadFails
    BY <2>5 DEF SendReplay, ReplayWriteFails, ReplayReadFails, FailReplay
  <2>6. ASSUME NEW e \in Conns, ReadUpstream(e) \/ ReadUpstreamFails(e) \/ Register(e) \/ Upstream(e) PROVE buf' = buf
    BY <2>6 DEF ReadUpstream, ReadUpstreamFails, Register, Upstream, UpAnswer, UpNotify, UpFails, upstreams, replay
  <2>7. ASSUME NEW g \in Goroutines, WriteToClient(g) \/ WriteToClientFails(g) PROVE buf' = buf
    BY <2>7 DEF WriteToClient, WriteToClientFails, replay
  <2>8. CASE ClientSide
    BY <2>8 DEF ClientSide, ReadClient, ClientReaderStep, EnqueueClient, AbandonClient, ReadClientFails, ClientTurns,
                CancelContext, run, replay
  <2> QED
    BY <2>1, <2>2, <2>3, <2>4, <2>5, <2>6, <2>7, <2>8, Steps DEF vars, replay
<1>4. Len(buf') <= ReplayCap
  <2>1. CASE buf' = <<>>
    BY <1>1, <2>1, SMT
  <2>2. CASE buf # <<>> /\ buf' = Tail(buf)
    BY <1>1, <1>2, <2>2, SMT
  <2>3. ASSUME NEW f \in Frames, buf' = stash(f) PROVE Len(buf') <= ReplayCap
    <3>1. CASE Len(buf) >= ReplayCap
      BY <1>2, <2>3, <3>1 DEF stash
    <3>2. CASE ~(Len(buf) >= ReplayCap)
      <4>1. buf' = Append(buf, f)
        BY <2>3, <3>2 DEF stash
      <4> QED
        BY <1>1, <3>2, <4>1, SMT
    <3> QED
      BY <3>1, <3>2
  <2> QED
    BY <1>2, <1>3, <2>1, <2>2, <2>3
<1>5. Cardinality(DOMAIN pending') <= PendingCap
  <2>1. CASE Flush
    <3>1. CASE pending' = pending
      BY <1>2, <3>1
    <3>2. CASE BeginForward(0, Head(buf)) /\ buf # <<>>
      <4>1. Forwards(0, Head(buf)) /\ 0 \in Goroutines /\ Head(buf) \in Frames
        BY <2>1, <3>2, FlushDoes, BeginForwardDoes
      <4>2. \A r \in DOMAIN pending' : r \in DOMAIN pending
        BY <4>1, BeginForwardShape
      <4> QED
        BY <1>2, <4>2, <1>PendingShrinks
    <3> QED
      BY <2>1, <3>1, <3>2 DEF Flush
  <2>2. ASSUME NEW e \in Conns, ReadUpstream(e) PROVE Cardinality(DOMAIN pending') <= PendingCap
    <3>1. Forwards(e, Head(conn[e].down)) /\ e \in Goroutines /\ Head(conn[e].down) \in Frames
      BY <2>2, ReadUpstreamDoes
    <3>2. \A r \in DOMAIN pending' : r \in DOMAIN pending
      BY <3>1, BeginForwardShape
    <3> QED
      BY <1>2, <3>2, <1>PendingShrinks
  <2>3. CASE PumpRequest
    <3>1. Handles(Head(fromClient))
      BY <2>3, PumpRequestDoes
    <3>2. CASE pending' = pending
      BY <1>2, <3>2
    <3>3. ASSUME NEW id, Subscribes(id) PROVE Cardinality(DOMAIN pending') <= PendingCap
      BY <3>3, <1>PendingGrows DEF Subscribes
    <3> QED
      BY <3>1, <3>2, <3>3 DEF Handles, Rejects, Unsubscribes, Calls
  <2>4. CASE pending' = pending
    BY <1>2, <2>4
  <2>5. CASE Walks
    BY <1>2, <2>5, WalksDo
  <2>6. CASE ReadReplay
    BY <2>4, <2>6, ReadReplayDoes DEF FailReplay, Stashes, Remaps, session
  <2>7. CASE SendReplay \/ ReplayWriteFails \/ ReplayReadFails
    BY <2>4, <2>7 DEF SendReplay, ReplayWriteFails, ReplayReadFails, FailReplay, session
  <2>8. ASSUME NEW e \in Conns, ReadUpstreamFails(e) \/ Register(e) \/ Upstream(e) PROVE pending' = pending
    BY <2>8 DEF ReadUpstreamFails, Register, Upstream, UpAnswer, UpNotify, UpFails, upstreams, session
  <2>9. ASSUME NEW g \in Goroutines, WriteToClient(g) \/ WriteToClientFails(g) PROVE pending' = pending
    BY <2>9 DEF WriteToClient, WriteToClientFails, session
  <2>10. CASE ClientSide
    BY <2>4, <2>10 DEF ClientSide, ReadClient, ClientReaderStep, EnqueueClient, AbandonClient, ReadClientFails, ClientTurns,
                CancelContext, run, session
  <2> QED
    BY <2>1, <2>2, <2>3, <2>4, <2>5, <2>6, <2>7, <2>8, <2>9, <2>10, Steps DEF vars, session
<1>6. Len(fromClient') <= ChanCap
  <2>1. \/ UNCHANGED fromClient \/ (fromClient # <<>> /\ fromClient' = Tail(fromClient)) \/ EnqueueClient
    <3>1. CASE ClientSide
      BY <3>1 DEF ClientSide, ReadClient, ClientReaderStep, AbandonClient, ReadClientFails, ClientTurns, CancelContext
    <3>2. CASE PumpRequest
      BY <3>2, PumpRequestDoes
    <3>3. CASE Walks
      BY <3>3, WalksDo
    <3>4. CASE ReadReplay
      BY <3>4, ReadReplayDoes DEF FailReplay, Stashes, Remaps, user
    <3>5. CASE SendReplay \/ ReplayWriteFails \/ ReplayReadFails \/ Flush
      BY <3>5 DEF SendReplay, ReplayWriteFails, ReplayReadFails, FailReplay, Flush, user
    <3>6. ASSUME NEW e \in Conns, ReadUpstream(e) \/ ReadUpstreamFails(e) \/ Register(e) \/ Upstream(e)
          PROVE  fromClient' = fromClient
      BY <3>6 DEF ReadUpstream, ReadUpstreamFails, Register, Upstream, UpAnswer, UpNotify, UpFails, upstreams, user
    <3>7. ASSUME NEW g \in Goroutines, WriteToClient(g) \/ WriteToClientFails(g) PROVE fromClient' = fromClient
      BY <3>7 DEF WriteToClient, WriteToClientFails
    <3> QED
      BY <3>1, <3>2, <3>3, <3>4, <3>5, <3>6, <3>7, Steps DEF vars, user
  <2>2. CASE EnqueueClient
    <3>1. fromClient' = fromClient \o client.held /\ Len(fromClient) < ChanCap
      BY <2>2 DEF EnqueueClient
    <3>2. Len(fromClient') = Len(fromClient) + Len(client.held)
      BY <1>1, <3>1, SMT
    <3> QED
      BY <1>1, <3>1, <3>2, SMT
  <2>3. CASE fromClient # <<>> /\ fromClient' = Tail(fromClient)
    BY <1>1, <1>2, <2>3, SMT
  <2> QED
    BY <1>2, <2>1, <2>2, <2>3
<1> QED
  BY <1>4, <1>5, <1>6 DEF BuffersBounded

\* replayPendingCap, maxPendingSubscribes and the capacity of fromClient hold,
\* whatever the client sends and however often the upstream fails.
THEOREM BuffersStayBounded == Spec => []BuffersBounded
<1>1. Init => BuffersBounded
  <2> SUFFICES ASSUME Init PROVE BuffersBounded
    OBVIOUS
  <2>1. buf = <<>> /\ fromClient = <<>> /\ pending = Empty
    BY DEF Init
  <2>2. Cardinality(DOMAIN pending) = 0
    BY <2>1, FS_EmptySet DEF Empty
  <2> QED
    BY <2>1, <2>2, SessionAssumption, SMT DEF BuffersBounded, SessionAssumption
<1> QED
  BY <1>1, NextBounded, ShapeInvariance, PTL DEF Spec

-----------------------------------------------------------------------------
(***************************************************************************)
(* What the current connection serves.                                     *)
(***************************************************************************)
LEMMA Course ==
    ASSUME Shape, [Next]_vars
    PROVE  (~orphaned' => ~orphaned) /\ (ConnectUpstream \/ cur' = cur)
<1> USE DEF log
<1>1. CASE Walks
  BY <1>1, WalksDo, SMT
<1>2. CASE ReadReplay
  BY <1>2, ReadReplayDoes, SMT DEF FailReplay, Stashes, Remaps
<1>3. CASE SendReplay \/ ReplayWriteFails \/ ReplayReadFails \/ Flush
  BY <1>3, SMT DEF SendReplay, ReplayWriteFails, ReplayReadFails, FailReplay, Flush
<1>4. CASE PumpRequest
  BY <1>4, OrphanStep DEF PumpRequest
<1>5. ASSUME NEW e \in Conns, ReadUpstream(e) \/ ReadUpstreamFails(e) \/ Register(e) \/ Upstream(e)
      PROVE  UNCHANGED <<cur, orphaned>>
  BY <1>5 DEF ReadUpstream, ReadUpstreamFails, Register, Upstream, UpAnswer, UpNotify, UpFails, upstreams
<1>6. ASSUME NEW g \in Goroutines, WriteToClient(g) \/ WriteToClientFails(g)
      PROVE  (~orphaned' => ~orphaned) /\ cur' = cur
  BY <1>6, OrphanStep, SMT DEF WriteToClient, WriteToClientFails
<1>7. CASE ClientSide
  <2>1. UNCHANGED <<cur, orphaned>>
    BY <1>7 DEF ClientSide, ReadClient, ClientReaderStep, EnqueueClient, AbandonClient, ReadClientFails, ClientTurns,
                CancelContext, run
  <2> QED
    BY <2>1
<1>8. CASE UNCHANGED vars
  BY <1>8 DEF vars
<1> QED
  BY <1>1, <1>2, <1>3, <1>4, <1>5, <1>6, <1>7, <1>8, Steps

\* What an upstream no longer serves, the client has cancelled.
LEMMA ShedIsCancelled ==
    ASSUME Shape, Wire, Given, Tokens, PumpRequest, cur \in Conns, LiveOK(cur), NEW c, c = Head(fromClient).sid,
           Head(fromClient).op = "unsub", Unsubscribes(c), NEW k \in conn[cur].active, k \notin conn'[cur].active
    PROVE  k \in cancelled'
<1>1. k \in Ops /\ pc = "pump" /\ fromClient # <<>>
  BY PumpRequestDoes, ConnType DEF Shape, ConnRec
<1>2. CASE c \in DOMAIN subs
  <2>1. PICK j \in Ops : j = subs[c].k
    BY <1>2 DEF Shape, TypeOK
  <2>2. subs[c].up = SubId(cur, j)
    BY <1>1, <1>2, <2>1 DEF LiveOK, Serves
  <2>3. SubId(cur, k) = SubId(cur, j)
    BY <1>2, <2>2 DEF Unsubscribes, Delivers, SameTraffic, Becomes
  <2>4. k = j
    BY <1>1, <2>3, SameName
  <2> QED
    BY <1>2, <2>1, <2>4 DEF Unsubscribes
<1>3. CASE c \notin DOMAIN subs
  <2>1. c \in client.known
    BY <1>1, QueueHead DEF Tokens, Numbered
  <2>2. PICK d \in Conns, j \in cancelled : c = SubId(d, j)
    BY <1>3, <2>1 DEF Given, Honoured
  <2>3. j \in Ops
    BY <2>2 DEF Shape, TypeOK
  <2>4. SubId(cur, k) = SubId(d, j)
    BY <1>3, <2>2 DEF Unsubscribes, Delivers, SameTraffic, Becomes
  <2>5. k = j
    BY <1>1, <2>3, <2>4, SameName, SMT
  <2> QED
    BY <1>3, <2>2, <2>5 DEF Unsubscribes
<1> QED
  BY <1>2, <1>3

LEMMA DeliversRun ==
    ASSUME Shape, cur \in Conns, NEW asked, NEW active, Delivers(asked, active)
    PROVE  /\ pc' \in {pc, "connect"} /\ conn'[cur].down = conn[cur].down
           /\ conn'[cur].active \in {conn[cur].active, active}
BY DEF Delivers, SameTraffic, Becomes

LEMMA NextLive == Shape /\ Wire /\ Tokens /\ Tokens' /\ Given /\ Writers /\ Live /\ [Next]_vars => Live'
<1>LiveStays.
    ASSUME NEW e \in Conns, LiveOK(e), Coasts(e), conn[e].active \subseteq conn'[e].active,
           \A i \in 1 .. Len(conn'[e].down) :
              Vouched(e, conn[e].down[i])' \/ \E j \in 1 .. Len(conn[e].down) : conn'[e].down[i] = conn[e].down[j],
           \A k \in Ops : Claimed(e, k)' => k \in conn[e].active
    PROVE  LiveOK(e)'
  <2> USE <1>LiveStays
  <2>1. ASSUME pc' \in {"flush", "pump"} \/ reader'[e] = "running", NEW c \in DOMAIN subs' PROVE Serves(e, c)'
    BY <2>1 DEF LiveOK, Coasts, Serves
  <2>2. ASSUME pc' = "read_replay", NEW c \in DOMAIN subs' \ waiting' PROVE Serves(e, c)'
    BY <2>2 DEF LiveOK, Coasts, Serves
  <2>3. ASSUME pc' = "read_replay", NEW i \in 1 .. Len(conn'[e].down), NEW k \in Ops,
               conn'[e].down[i].t = "replayed", conn'[e].down[i].val = SubId(e, k)
        PROVE  k \in conn'[e].active
    BY <2>3 DEF LiveOK, Coasts, Vouched
  <2>4. ASSUME NEW i \in 1 .. Len(conn'[e].down), conn'[e].down[i].t = "resp", conn'[e].down[i].val # NoVal
        PROVE  conn'[e].down[i].id \in conn'[e].active
    BY <2>4 DEF LiveOK, Vouched
  <2> QED
    BY <2>1, <2>2, <2>3, <2>4 DEF LiveOK
<1>LiveQuiet.
    ASSUME NEW e \in Conns, LiveOK(e), Coasts(e), conn'[e].active = conn[e].active,
           conn'[e].down = conn[e].down, fwd'[e] = fwd[e] \/ fwd'[e].st # "register"
    PROVE  LiveOK(e)'
  <2> USE <1>LiveQuiet
  <2>1. \A k \in Ops : Claimed(e, k)' => k \in conn[e].active
    BY DEF Claimed, LiveOK
  <2> QED
    BY <2>1, <1>LiveStays
<1>WalksLive.
    ASSUME Shape, Wire, Walks, NEW e \in Conns, e = cur', cur' = cur => LiveOK(e) PROVE LiveOK(e)'
  <2> USE <1>WalksLive
  <2>1. /\ conn'[e].active = conn[e].active /\ conn'[e].down = conn[e].down /\ fwd' = fwd /\ subs' = subs
    BY WalksDo DEF SameTraffic
  <2>2. CASE ConnectUpstream
    <3>1. e = cur + 1 /\ cur \in Nat /\ pc' = "replay" /\ reader' = reader
      BY <2>2, WalksDo, SMT DEF ConnectUpstream, Shape, TypeOK
    <3>2. Fresh(e) /\ reader[e] = "none" /\ fwd[e].st = "free"
      <4>1. e > cur
        BY <3>1, NextNumber
      <4>2. WireOK(e)
        BY DEF Wire
      <4> QED
        BY <4>1, <4>2 DEF WireOK
    <3>3. Len(conn'[e].down) = 0
      BY <2>1, <3>2, NoPosition DEF Fresh
    <3> QED
      BY <2>1, <3>1, <3>2, <3>3, NoPosition DEF LiveOK, Claimed
  <2>3. CASE ~ConnectUpstream
    <3>1. cur' = cur /\ LiveOK(e)
      BY <2>3, WalksDo
    <3>2. CASE NothingToReplay /\ pc' = "pump"
      <4>1. DOMAIN subs' = {}
        BY <2>1, <3>2 DEF NothingToReplay
      <4> QED
        BY <2>1, <3>1, <3>2, <4>1 DEF LiveOK, Claimed
    <3>3. CASE pc' \in {"connect", "over", "wait_done", "returned"} /\ reader' = reader
      BY <2>1, <3>1, <3>3, <1>LiveQuiet DEF Coasts
    <3>4. CASE pc = "pump" /\ UNCHANGED <<pc, reader>>
      <4>1. waiting' = waiting
        BY WalksDo
      <4> QED
        BY <2>1, <3>1, <3>4, <4>1, <1>LiveQuiet DEF Coasts
    <3> QED
      BY <2>3, <3>2, <3>3, <3>4, WalksReader
  <2> QED
    BY <2>2, <2>3
<1>SendReplayLive.
    ASSUME Shape, Wire, SendReplay, cur \in Conns, LiveOK(cur) PROVE LiveOK(cur)'
  <2> USE <1>SendReplayLive
  <2>1. /\ pc = "replay" /\ pc' = "read_replay" /\ waiting' = DOMAIN subs /\ UNCHANGED <<cur, subs, reader, fwd>>
    BY DEF SendReplay, session
  <2>2. conn'[cur].active = conn[cur].active /\ conn'[cur].down = conn[cur].down
    BY SendReplayDoes DEF SameTraffic, Becomes
  <2>3. Fresh(cur) /\ reader[cur] = "none"
    BY <2>1 DEF Wire, WireOK
  <2>4. Len(conn'[cur].down) = 0
    BY <2>2, <2>3, NoPosition DEF Fresh
  <2> QED
    BY <2>1, <2>2, <2>3, <2>4, NoPosition DEF LiveOK, Claimed
<1>ReadReplayLive.
    ASSUME Shape, Wire, ReadReplay, cur \in Conns, LiveOK(cur) PROVE LiveOK(cur)'
  <2> USE <1>ReadReplayLive
  <2>1. CASE pc = "read_replay" /\ FailReplay
    <3>1. UNCHANGED <<cur, reader, fwd, subs>> /\ pc' = "connect" /\ SameTraffic
      BY <2>1, FailReplayDoes DEF FailReplay, session
    <3> QED
      BY <3>1, <1>LiveQuiet DEF Coasts, SameTraffic
  <2>2. ASSUME Popped(cur), UNCHANGED <<cur, fwd>>
        PROVE  /\ conn'[cur].active = conn[cur].active
               /\ \A i \in 1 .. Len(conn'[cur].down) : \E j \in 1 .. Len(conn[cur].down) : conn'[cur].down[i] = conn[cur].down[j]
               /\ \A k \in Ops : Claimed(cur, k)' => k \in conn[cur].active
    BY <2>2, PoppedDown DEF Claimed, LiveOK
  <2>3. ASSUME NEW f \in Frames, Popped(cur), Stashes(f) PROVE LiveOK(cur)'
    <3>1. UNCHANGED <<pc, cur, subs, waiting, reader, fwd>>
      BY <2>3 DEF Stashes, session
    <3> QED
      BY <2>2, <2>3, <3>1, <1>LiveStays DEF Coasts
  <2>4. ASSUME NEW f \in Frames, Popped(cur), Remaps(f) PROVE LiveOK(cur)'
    <3>1. /\ pc = "read_replay" /\ f = Head(conn[cur].down) /\ f.val # NoVal /\ waiting' = waiting \ {f.id}
          /\ pc' = IF waiting' = {} THEN "flush" ELSE pc
          /\ UNCHANGED <<cur, reader, fwd>>
      BY <2>4 DEF Remaps, accepted
    <3>2. PICK k : k = subs[f.id].k
      OBVIOUS
    <3>3. f.id \in DOMAIN subs /\ f.t = "replayed" /\ k \in Ops
      BY <2>4, <3>2, RemapsTables DEF Shape, TypeOK
    <3>4. f.val = SubId(cur, k)
      BY <2>4, <3>2, RemapName
    <3>5. k \in conn[cur].active
      <4>1. 1 \in 1 .. Len(conn[cur].down) /\ f = conn[cur].down[1]
        BY <2>4, <3>1, PoppedDown
      <4> QED
        BY <3>1, <3>3, <3>4, <4>1 DEF LiveOK
    <3>6. ASSUME NEW c \in DOMAIN subs' \ waiting' PROVE Serves(cur, c)'
      <4>1. c \in DOMAIN subs /\ subs'[c].k = subs[c].k /\ subs'[c].up = IF c = f.id THEN f.val ELSE subs[c].up
        BY <2>4, <3>6, RemapsTables, SMT
      <4>2. conn'[cur].active = conn[cur].active
        BY <2>2, <2>4, <3>1
      <4>3. CASE c = f.id
        BY <3>1, <3>2, <3>4, <3>5, <4>1, <4>2, <4>3 DEF Serves
      <4>4. CASE c # f.id
        <5>1. Serves(cur, c)
          BY <3>1, <3>6, <4>1, <4>4 DEF LiveOK
        <5> QED
          BY <3>1, <4>1, <4>2, <4>4, <5>1 DEF Serves
      <4> QED
        BY <4>3, <4>4
    <3>7. reader'[cur] # "running"
      BY <3>1 DEF Wire, WireOK
    <3>8. pc' = "flush" => waiting' = {}
      BY <3>1
    <3>9. pc' \in {"read_replay", "flush"}
      BY <3>1
    <3>10. \A i \in 1 .. Len(conn'[cur].down) :
             /\ conn'[cur].down[i].t = "resp" /\ conn'[cur].down[i].val # NoVal
                   => conn'[cur].down[i].id \in conn'[cur].active
             /\ \A m \in Ops : conn'[cur].down[i].t = "replayed" /\ conn'[cur].down[i].val = SubId(cur, m)
                   => m \in conn'[cur].active
      BY <2>2, <2>4, <3>1 DEF LiveOK
    <3>11. \A m \in Ops : Claimed(cur, m)' => m \in conn'[cur].active
      BY <2>2, <2>4, <3>1
    <3> QED
      BY <3>1, <3>6, <3>7, <3>8, <3>9, <3>10, <3>11 DEF LiveOK
  <2> QED
    BY <2>1, <2>3, <2>4, ReadReplayDoes
\* A request of the client that is claimed here was answered by this upstream.
<1>ForwardsClaim.
    ASSUME Shape, Wire, NEW g \in Goroutines, NEW f \in Frames, Forwards(g, f), NEW k \in Ops, Claimed(g, k)'
    PROVE  f.t = "resp" /\ f.val # NoVal /\ f.id = k /\ k \in DOMAIN pending
  <2> USE <1>ForwardsClaim
  <2>1. fwd'[g].st = "register" /\ fwd'[g].k = k
    BY DEF Claimed
  <2>2. f.t = "resp" /\ f.id \in DOMAIN pending /\ f.val \in SubIds /\ fwd'[g] = [st |-> "register", f |-> f, k |-> pending[f.id]]
    BY <2>1, SMT DEF Forwards
  <2>3. k = pending[f.id] /\ pending[f.id] = f.id
    BY <2>1, <2>2, SMT DEF Wire
  <2> QED
    BY <2>2, <2>3, SessionAssumption DEF SessionAssumption
<1>ReadUpstreamLive.
    ASSUME Shape, Wire, NEW d \in Conns, ReadUpstream(d), NEW e \in Conns, LiveOK(e) PROVE LiveOK(e)'
  <2> USE <1>ReadUpstreamLive
  <2>1. Popped(d) /\ d \in Goroutines /\ Coasts(e)
    BY ReadUpstreamDoes DEF ReadUpstream, Coasts, replay
  <2>2. PICK f \in Frames : f = Head(conn[d].down) /\ Forwards(d, f)
    BY ReadUpstreamDoes
  <2>3. /\ conn'[e].active = conn[e].active
        /\ \A i \in 1 .. Len(conn'[e].down) : \E j \in 1 .. Len(conn[e].down) : conn'[e].down[i] = conn[e].down[j]
        /\ 1 \in 1 .. Len(conn[d].down) /\ f = conn[d].down[1]
    BY <2>1, <2>2, PoppedDown
  <2>4. ASSUME NEW k \in Ops, Claimed(e, k)' PROVE k \in conn[e].active
    <3>1. CASE d = e
      <4>1. f.t = "resp" /\ f.val # NoVal /\ f.id = k
        BY <2>1, <2>2, <2>4, <3>1, <1>ForwardsClaim
      <4> QED
        BY <2>3, <3>1, <4>1 DEF LiveOK
    <3>2. CASE d # e
      <4>1. fwd'[e] = fwd[e]
        BY <2>2, <3>2 DEF Forwards, Goroutines
      <4> QED
        BY <2>4, <4>1 DEF LiveOK, Claimed
    <3> QED
      BY <3>1, <3>2
  <2> QED
    BY <2>1, <2>3, <2>4, <1>LiveStays
<1>FlushLive.
    ASSUME Shape, Wire, Flush, NEW e \in Conns, e = cur, LiveOK(e) PROVE LiveOK(e)'
  <2> USE <1>FlushLive
  <2>1. pc = "flush" /\ pc' # "read_replay" /\ UNCHANGED <<subs, conn>>
    BY DEF Flush, StartPump
  <2>2. fwd'[e] = fwd[e]
    <3>1. 0 \in Goroutines /\ e \in Goroutines /\ e # 0
      BY SMT DEF Goroutines, Conns
    <3> QED
      BY <3>1, FlushDoes, BeginForwardDoes DEF Forwards
  <2> QED
    BY <2>1, <2>2, <1>LiveQuiet DEF Coasts
<1>RegisterLive.
    ASSUME Shape, Wire, Writers, ~orphaned, NEW d \in Conns, Register(d), NEW e \in Conns, e = cur, LiveOK(e)
    PROVE  LiveOK(e)'
  <2> USE <1>RegisterLive
  <2>1. d \in Goroutines /\ fwd[d].st = "register" /\ UNCHANGED <<pc, reader, conn>>
    BY DEF Register, Goroutines
  <2>2. d = e /\ pc # "read_replay" /\ reader[e] = "running"
    BY <2>1 DEF Wire, WireOK, Writers
  <2>3. PICK id \in SubIds, k \in Ops : Registers(d, id, k)
    BY <2>1, RegisterDoes DEF Registers
  <2>4. id = SubId(d, k) /\ Claimed(d, k)
    BY <2>1, <2>3 DEF Registers, Wire, ClaimOK, Claimed
  <2>5. k \in conn[e].active
    BY <2>2, <2>4 DEF LiveOK
  <2>6. ASSUME NEW c \in DOMAIN subs' PROVE Serves(e, c)'
    <3>1. CASE c = id
      <4>1. subs'[c] = [k |-> k, up |-> id]
        BY <2>3, <3>1 DEF Registers, Put
      <4>2. subs'[c].k = k /\ subs'[c].up = id
        BY <4>1, SMT
      <4> QED
        BY <2>1, <2>2, <2>4, <2>5, <4>2 DEF Serves
    <3>2. CASE c # id
      <4>1. c \in DOMAIN subs /\ subs'[c] = subs[c]
        BY <2>3, <3>2 DEF Registers, Put
      <4>2. Serves(e, c)
        BY <2>2, <4>1 DEF LiveOK
      <4> QED
        BY <2>1, <4>1, <4>2 DEF Serves
    <3> QED
      BY <3>1, <3>2
  <2>7. \A j \in Ops : ~Claimed(e, j)'
    BY <2>2, <2>3, SMT DEF Registers, Claimed
  <2> QED
    BY <2>1, <2>2, <2>6, <2>7 DEF LiveOK
<1>UnsubscribeLive.
    ASSUME Shape, Wire, Given, Tokens, Tokens', PumpRequest, cur \in Conns, LiveOK(cur), NEW c, c = Head(fromClient).sid,
           Head(fromClient).op = "unsub", Unsubscribes(c)
    PROVE  LiveOK(cur)'
  <2> USE <1>UnsubscribeLive
  <2>1. pc = "pump" /\ UNCHANGED <<cur, reader, fwd>>
    BY PumpRequestDoes DEF Unsubscribes
  <2>2. pc' \in {"pump", "connect"} /\ conn'[cur].down = conn[cur].down
    BY <2>1, DeliversRun DEF Unsubscribes
  <2>3. ASSUME NEW k \in conn[cur].active, Tracked(k)' \/ InFlight(k)' PROVE k \in conn'[cur].active
    <3>1. k \in Ops
      BY ConnType DEF Shape, ConnRec
    <3>2. k \in cancelled' => Kept(k)'
      BY DEF Kept
    <3>3. ~(Kept(k)' /\ InFlight(k)') /\ ~(Tracked(k)' /\ k \in cancelled')
      BY <3>1 DEF Tokens, KeptOK
    <3> QED
      BY <2>3, <3>2, <3>3, ShedIsCancelled
  <2>4. ASSUME NEW x \in DOMAIN subs' PROVE Serves(cur, x)'
    <3>1. x \in DOMAIN subs /\ subs'[x] = subs[x]
      <4>1. subs' = subs \/ subs' = Drop(subs, c)
        BY DEF Unsubscribes
      <4>2. CASE subs' = Drop(subs, c)
        <5>1. DOMAIN subs' = DOMAIN subs \ {c} /\ \A y \in DOMAIN subs \ {c} : subs'[y] = subs[y]
          BY <4>2 DEF Drop, Restrict
        <5> QED
          BY <2>4, <5>1
      <4> QED
        BY <2>4, <4>1, <4>2
    <3>2. Serves(cur, x)
      BY <2>1, <3>1 DEF LiveOK
    <3>3. PICK k : k = subs[x].k
      OBVIOUS
    <3>4. Tracked(k)'
      BY <2>4, <3>1, <3>3 DEF Tracked
    <3>5. k \in conn'[cur].active
      BY <2>3, <3>2, <3>3, <3>4 DEF Serves
    <3> QED
      BY <2>1, <3>1, <3>2, <3>3, <3>5 DEF Serves
  <2>5. ASSUME NEW i \in 1 .. Len(conn'[cur].down), conn'[cur].down[i].t = "resp", conn'[cur].down[i].val # NoVal
        PROVE  conn'[cur].down[i].id \in conn'[cur].active
    <3>1. PICK k : k = conn'[cur].down[i].id
      OBVIOUS
    <3>2. k \in conn[cur].active
      BY <2>2, <2>5, <3>1 DEF LiveOK
    <3>3. Told(cur, k)'
      BY <2>1, <2>5, <3>1 DEF Told, ToldAt
    <3>4. InFlight(k)'
      BY <2>1, <3>3 DEF InFlight
    <3> QED
      BY <2>3, <3>1, <3>2, <3>4
  <2>6. ASSUME NEW k \in Ops, Claimed(cur, k)' PROVE k \in conn'[cur].active
    <3>1. k \in conn[cur].active
      BY <2>1, <2>6 DEF LiveOK, Claimed
    <3>2. cur \in Goroutines
      BY DEF Goroutines
    <3>3. InFlight(k)'
      BY <2>1, <2>6, <3>2 DEF InFlight
    <3> QED
      BY <2>3, <3>1, <3>3
  <2> QED
    BY <2>1, <2>2, <2>4, <2>5, <2>6 DEF LiveOK
<1>PumpRequestLive.
    ASSUME Shape, Wire, Given, Tokens, Tokens', PumpRequest, NEW e \in Conns, e = cur, LiveOK(e) PROVE LiveOK(e)'
  <2> USE <1>PumpRequestLive
  <2>1. pc = "pump" /\ UNCHANGED <<cur, reader, waiting>>
    BY PumpRequestDoes
  <2>2. PICK r \in ClientFrames : r = Head(fromClient) /\ Handles(r)
    BY PumpRequestDoes
  <2>3. CASE r.op = "unsub" /\ Unsubscribes(r.sid)
    BY <2>1, <2>2, <2>3, <1>UnsubscribeLive
  <2>4. CASE Rejects(r.id) \/ Subscribes(r.id) \/ Calls(r.id)
    <3>1. conn'[e].active = conn[e].active /\ conn'[e].down = conn[e].down /\ pc' \in {pc, "connect"}
      BY <2>4, DeliversRun DEF Rejects, Subscribes, Calls, SameTraffic
    <3>2. subs' = subs /\ fwd'[e] = fwd[e]
      BY <2>4 DEF Rejects, Subscribes, Calls
    <3> QED
      BY <2>1, <3>1, <3>2, <1>LiveQuiet DEF Coasts
  <2> QED
    BY <2>2, <2>3, <2>4 DEF Handles
<1>UpstreamLive.
    ASSUME Shape, Wire, NEW d \in Conns, Upstream(d), NEW e \in Conns, LiveOK(e) PROVE LiveOK(e)'
  <2> USE <1>UpstreamLive
  <2>1. UNCHANGED <<pc, waiting, subs, reader, fwd>>
    BY DEF Upstream, UpAnswer, UpNotify, UpFails, upstreams, session, replay
  <2>2. Coasts(e) /\ \A k \in Ops : Claimed(e, k)' => k \in conn[e].active
    BY <2>1 DEF Coasts, Claimed, LiveOK
  <2>3. CASE d # e /\ conn'[e] = conn[e]
    BY <2>1, <2>2, <2>3, <1>LiveQuiet
  <2>4. CASE d = e /\ UpAnswer(e)
    <3>1. PICK r \in conn[e].asked, ok \in BOOLEAN :
                /\ ok => r.k # 0
                /\ Becomes(e, conn[e].asked \ {r}, IF ok THEN conn[e].active \cup {r.k} ELSE conn[e].active,
                           Append(conn[e].down, Answer(e, r, ok)))
      BY <2>4, UpAnswerDoes DEF Answer
    <3>2. PICK f \in Frames : f = Answer(e, r, ok)
      BY <3>1, AnswerSent
    <3>3. /\ SentOK(e, f) /\ f.t = r.t /\ f.id = r.id /\ f.val = IF ok THEN SubId(e, r.k) ELSE NoVal
          /\ ok => r.k \in Ops
      BY <3>1, <3>2, AnswerSent
    <3>4. /\ Becomes(e, conn[e].asked \ {r}, conn'[e].active, Append(conn[e].down, f))
          /\ conn[e].active \subseteq conn'[e].active /\ (ok => r.k \in conn'[e].active)
      BY <3>1, <3>2 DEF Becomes
    <3>5. ASSUME NEW i \in 1 .. Len(conn'[e].down), conn'[e].down[i] = f PROVE Vouched(e, conn[e].down[i])'
      <4>1. ASSUME f.t = "resp", f.val # NoVal PROVE f.id \in conn'[e].active
        <5>1. ok /\ AskOK(r)
          BY <3>3, <4>1 DEF Wire, WireOK
        <5> QED
          BY <3>1, <3>3, <3>4, <4>1, <5>1 DEF AskOK
      <4>2. ASSUME f.t = "replayed", NEW k \in Ops, f.val = SubId(e, k) PROVE k \in conn'[e].active
        <5>1. ok
          <6>1. SubId(e, k) \in SubIds
            BY SMT DEF SubIds
          <6> QED
            BY <3>3, <4>2, <6>1, SessionAssumption DEF SessionAssumption
        <5>2. r.k \in Ops /\ SubId(e, r.k) = SubId(e, k)
          BY <3>3, <4>2, <5>1
        <5>3. r.k = k
          BY <5>2, SameName
        <5> QED
          BY <3>4, <5>1, <5>3
      <4> QED
        BY <3>5, <4>1, <4>2 DEF Vouched
    <3> QED
      BY <2>2, <3>4, <3>5, AppendedFrames, <1>LiveStays
  <2>5. CASE d = e /\ UpNotify(e)
    <3>1. PICK k \in Ops :
                Becomes(e, conn[e].asked, conn[e].active \cup {k}, Append(conn[e].down, Note(SubId(e, k), k)))
      BY <2>5, UpNotifyDoes
    <3>2. PICK f \in Frames : f = Note(SubId(e, k), k)
      <4>1. SubId(e, k) \in SubIds
        BY SMT DEF SubIds
      <4>2. Note(SubId(e, k), k) \in Frames
        BY <4>1 DEF Note, Frames
      <4> QED
        BY <4>2
    <3>3. f.t = "note"
      BY <3>2 DEF Note
    <3>4. Becomes(e, conn[e].asked, conn'[e].active, Append(conn[e].down, f)) /\ conn[e].active \subseteq conn'[e].active
      BY <3>1, <3>2 DEF Becomes
    <3>5. ASSUME NEW i \in 1 .. Len(conn'[e].down), conn'[e].down[i] = f PROVE Vouched(e, conn[e].down[i])'
      BY <3>3, <3>5 DEF Vouched
    <3> QED
      BY <2>2, <3>4, <3>5, AppendedFrames, <1>LiveStays
  <2>6. CASE UpFails(d)
    <3>1. SameTraffic
      BY <2>6, UpFailsDoes
    <3> QED
      BY <2>1, <2>2, <3>1, <1>LiveQuiet DEF SameTraffic
  <2>7. CASE d # e /\ (UpAnswer(d) \/ UpNotify(d))
    BY <2>3, <2>7, UpAnswerDoes, UpNotifyDoes DEF Becomes
  <2> QED
    BY <2>4, <2>5, <2>6, <2>7 DEF Upstream
<1> SUFFICES ASSUME Shape, Wire, Tokens, Tokens', Given, Writers, Live, [Next]_vars, ~orphaned', NEW e \in Conns, e = cur'
             PROVE  LiveOK(e)'
  BY DEF Live
<1>1. ~orphaned /\ (ConnectUpstream \/ cur' = cur) /\ (cur' = cur => LiveOK(e))
  BY Course DEF Live
<1>2. CASE Walks
  BY <1>1, <1>2, <1>WalksLive
<1> SUFFICES ASSUME cur' = cur PROVE LiveOK(e)'
  BY <1>1, <1>2 DEF Walks
<1>3. e = cur /\ LiveOK(e)
  BY <1>1
<1>4. CASE SendReplay
  BY <1>3, <1>4, <1>SendReplayLive
<1>5. CASE ReadReplay
  BY <1>3, <1>5, <1>ReadReplayLive
<1>6. CASE ReplayWriteFails \/ ReplayReadFails
  <2>1. UNCHANGED <<cur, reader, fwd, subs>> /\ pc' = "connect" /\ SameTraffic
    BY <1>6, FailReplayDoes DEF ReplayWriteFails, ReplayReadFails, FailReplay, session
  <2> QED
    BY <1>3, <2>1, <1>LiveQuiet DEF Coasts, SameTraffic
<1>7. ASSUME NEW g \in Goroutines, WriteToClient(g) PROVE LiveOK(e)'
  <2>1. UNCHANGED <<pc, reader, conn, subs, waiting>> /\ fwd' = [fwd EXCEPT ![g] = Free]
    BY <1>7 DEF WriteToClient, session, replay
  <2>2. fwd'[e] = fwd[e] \/ fwd'[e].st # "register"
    BY <2>1, ShapeParts DEF FwdType, Free, Goroutines
  <2> QED
    BY <1>3, <2>1, <2>2, <1>LiveQuiet DEF Coasts
<1>8. ASSUME NEW g \in Goroutines, WriteToClientFails(g) PROVE LiveOK(e)'
  <2>1. /\ UNCHANGED <<subs, waiting>> /\ fwd' = [fwd EXCEPT ![g] = Free] /\ SameTraffic
        /\ g = 0 => reader' = reader /\ pc' \in {"over", "connect"}
        /\ g # 0 => pc' = pc /\ reader' = [reader EXCEPT ![g] = "done"]
    BY <1>8, WriteToClientFailsDoes
  <2>2. fwd'[e] = fwd[e] \/ fwd'[e].st # "register"
    BY <2>1, ShapeParts DEF FwdType, Free, Goroutines
  <2>3. Coasts(e)
    BY <2>1, ShapeParts DEF FwdType, Coasts
  <2> QED
    BY <1>3, <2>1, <2>2, <2>3, <1>LiveQuiet DEF SameTraffic
<1>9. ASSUME NEW d \in Conns, ReadUpstreamFails(d) PROVE LiveOK(e)'
  <2>1. UNCHANGED <<pc, conn, subs, waiting, fwd>> /\ reader' = [reader EXCEPT ![d] = "done"]
    BY <1>9 DEF ReadUpstreamFails, session, replay
  <2>2. Coasts(e)
    BY <2>1, ShapeParts DEF FwdType, Coasts
  <2> QED
    BY <1>3, <2>1, <2>2, <1>LiveQuiet
<1>10. CASE ClientSide \/ UNCHANGED vars
  <2>1. UNCHANGED <<pc, conn, subs, waiting, reader, fwd>>
    BY <1>10 DEF ClientSide, ReadClient, ClientReaderStep, EnqueueClient, AbandonClient, ReadClientFails, ClientTurns,
                 CancelContext, run, vars, session, replay
  <2> QED
    BY <1>3, <2>1, <1>LiveQuiet DEF Coasts
<1> QED
  BY <1>1, <1>2, <1>3, <1>4, <1>5, <1>6, <1>7, <1>8, <1>9, <1>10, Steps, <1>FlushLive, <1>ReadUpstreamLive, <1>RegisterLive,
     <1>PumpRequestLive, <1>UpstreamLive

LEMMA LiveInvariance == Spec => []Live
<1>1. Init => Live
  BY SMT DEF Init, Live, Conns
<1> QED
  BY <1>1, NextLive, ShapeInvariance, WireInvariance, TokensInvariance, GivenInvariance, WritersInvariance, PTL DEF Spec

\* While pump runs and no reader outlived an earlier one, every subscription is known
\* under the id the current upstream gave it, and that upstream serves it.
THEOREM SubscriptionsAreLive == Spec => []PumpedSubsAreLive
<1>1. Shape /\ Live => PumpedSubsAreLive
  <2> SUFFICES ASSUME Shape, Live, ~orphaned, pc = "pump", NEW c \in DOMAIN subs
               PROVE  subs[c].up = SubId(cur, subs[c].k) /\ subs[c].k \in conn[cur].active
    BY DEF PumpedSubsAreLive, ReplayIsComplete
  <2>1. cur \in Conns
    BY SMT DEF Shape, TypeOK, Conns
  <2>2. LiveOK(cur)
    BY <2>1 DEF Live
  <2> QED
    BY <2>2 DEF LiveOK, Serves
<1> QED
  BY <1>1, ShapeInvariance, LiveInvariance, PTL

-----------------------------------------------------------------------------
(***************************************************************************)
(* What the current upstream may notify of.                                *)
(***************************************************************************)

\* A subscription the upstream was asked for has not been refused.
LEMMA AskedIsOpen ==
    ASSUME Shape, Wire, Tokens, NEW e \in Conns, NEW r \in conn[e].asked, NEW k \in Ops, r.k = k
    PROVE  ~Told(e, k)
<1>1. AskOK(r) /\ r \in Requests /\ k # 0
  BY ConnType, SMT DEF Wire, WireOK, Shape, ConnRec, Ops
<1>2. CASE r.t = "resp"
  <2>1. Asks(e, k)
    BY <1>1, <1>2 DEF AskOK, Asks
  <2> QED
    BY <2>1 DEF Tokens, PlaceOK, AskedOrTold
<1>3. CASE r.t = "replayed"
  <2>1. Kept(k)
    BY <1>3 DEF Tokens, KeptOK
  <2> QED
    BY <2>1 DEF Tokens, KeptOK, InFlight
<1> QED
  BY <1>1, <1>2, <1>3 DEF Requests

\* The steps that give up a subscribe.
LEMMA PendingSteps ==
    ASSUME Shape, Wire, [Next]_vars
    PROVE  \/ PumpRequest
           \/ \E e \in Conns : ReadUpstream(e)
           \/ pending' = pending
<1> USE DEF session
<1>1. CASE Walks
  BY <1>1, WalksDo
<1>2. CASE ReadReplay
  BY <1>2, ReadReplayDoes DEF FailReplay, Stashes, Remaps
<1>3. CASE SendReplay \/ ReplayWriteFails \/ ReplayReadFails
  BY <1>3 DEF SendReplay, ReplayWriteFails, ReplayReadFails, FailReplay
<1>4. CASE Flush
  <2>1. CASE UNCHANGED pending
    BY <2>1
  <2>2. CASE buf # <<>> /\ Head(buf) \in Frames /\ BeginForward(0, Head(buf))
    <3>1. PICK f \in Frames : f = Head(buf)
      BY <2>2
    <3>2. f = buf[1] /\ 1 \in 1 .. Len(buf)
      BY <2>2, <3>1, TailAt DEF Shape, TypeOK
    <3>3. f.t # "resp"
      BY <3>2 DEF Wire, BufOK
    <3> QED
      BY <2>2, <3>1, <3>3 DEF BeginForward
  <2> QED
    BY <1>4, <2>1, <2>2, FlushDoes
<1>5. ASSUME NEW e \in Conns, ReadUpstreamFails(e) \/ Register(e) \/ Upstream(e) PROVE pending' = pending
  BY <1>5 DEF ReadUpstreamFails, Register, Upstream, UpAnswer, UpNotify, UpFails, upstreams
<1>6. ASSUME NEW g \in Goroutines, WriteToClient(g) \/ WriteToClientFails(g) PROVE pending' = pending
  BY <1>6 DEF WriteToClient, WriteToClientFails
<1>7. CASE ClientSide
  <2>1. UNCHANGED pending
    BY <1>7 DEF ClientSide, ReadClient, ClientReaderStep, EnqueueClient, AbandonClient, ReadClientFails, ClientTurns,
                CancelContext, run
  <2> QED
    BY <2>1
<1>8. CASE UNCHANGED vars
  BY <1>8 DEF vars
<1> QED
  BY <1>1, <1>2, <1>3, <1>4, <1>5, <1>6, <1>7, <1>8, Steps

LEMMA NextRefused ==
    Shape /\ Wire /\ Tokens /\ Refused /\ Unpromised /\ [Next]_vars => Refused' /\ Unpromised'
<1>SettlesRefused.
    ASSUME Refused, Unpromised, Settles, DOMAIN pending' \subseteq DOMAIN pending PROVE Refused' /\ Unpromised'
  <2> USE <1>SettlesRefused
  <2>1. ASSUME NEW e \in Conns, NEW i \in 1 .. Len(conn'[e].down), conn'[e].down[i].t = "resp",
               conn'[e].down[i].val = NoVal, conn'[e].down[i].id \in DOMAIN pending'
        PROVE  conn'[e].down[i].id \notin conn'[e].active
    <3>1. PICK j \in 1 .. Len(conn[e].down) : conn'[e].down[i] = conn[e].down[j]
      BY DEF Settles
    <3>2. conn[e].down[j].id \notin conn[e].active
      BY <2>1, <3>1 DEF Refused
    <3> QED
      BY <3>1, <3>2 DEF Settles
  <2>2. Unpromised'
    BY DEF Unpromised, Settles
  <2> QED
    BY <2>1, <2>2 DEF Refused
<1>SameSettles. SameTraffic => Settles
  BY DEF SameTraffic, Settles
<1>PoppedSettles. ASSUME Shape, NEW e \in Conns, Popped(e) PROVE Settles
  BY <1>PoppedSettles, PoppedDown DEF Settles
\* Request k is new on the connections.
<1>AskRefused.
    ASSUME Shape, Refused, Unpromised, cur \in Conns, NEW id \in Ops, NEW k \in {0, id}, ~Used(id),
           Delivers(conn[cur].asked \cup {[t |-> "resp", id |-> id, k |-> k]}, conn[cur].active),
           DOMAIN pending' \subseteq IF k = 0 THEN DOMAIN pending ELSE DOMAIN pending \cup {id}
    PROVE  Refused' /\ Unpromised'
  <2> USE <1>AskRefused
  <2> DEFINE new == [t |-> "resp", id |-> id, k |-> k]
  <2>1. new.t = "resp" /\ new.id = id /\ new.k = k
    OBVIOUS
  <2>2. ASSUME NEW e \in Conns
        PROVE  /\ conn'[e].asked \subseteq conn[e].asked \cup {new} /\ conn'[e].active = conn[e].active
               /\ conn'[e].down = conn[e].down
    <3> HIDE DEF new
    <3>1. Delivers(conn[cur].asked \cup {new}, conn[cur].active)
      BY DEF new
    <3> QED
      BY <3>1 DEF Delivers, SameTraffic, Becomes
  <2>3. \A e \in Conns : ~Asks(e, id) /\ ~Told(e, id)
    BY DEF Used, InFlight
  <2>4. id \notin DOMAIN pending
    BY DEF Used
  <2> HIDE DEF new
  <2>5. Refused'
    <3> SUFFICES ASSUME NEW e \in Conns, NEW i \in 1 .. Len(conn'[e].down), conn'[e].down[i].t = "resp",
                        conn'[e].down[i].val = NoVal, conn'[e].down[i].id \in DOMAIN pending'
                 PROVE  conn'[e].down[i].id \notin conn'[e].active
      BY DEF Refused
    <3>1. conn'[e].active = conn[e].active /\ conn'[e].down = conn[e].down
      BY <2>2
    <3>2. conn[e].down[i].id # id
      BY <2>3, <3>1 DEF Told, ToldAt
    <3>3. conn[e].down[i].id \in DOMAIN pending
      BY <3>1, <3>2
    <3> QED
      BY <3>1, <3>3 DEF Refused
  <2>6. ASSUME NEW e \in Conns, NEW r \in conn'[e].asked, r.t = "resp", r.k = 0 PROVE r.id \notin DOMAIN pending'
    <3>1. CASE r = new
      BY <2>1, <2>4, <2>6, <3>1
    <3>2. CASE r \in conn[e].asked
      <4>1. r.id # id
        BY <2>3, <2>6, <3>2 DEF Asks
      <4> QED
        BY <2>6, <3>2, <4>1 DEF Unpromised
    <3> QED
      BY <2>2, <2>6, <3>1, <3>2
  <2> QED
    BY <2>5, <2>6 DEF Unpromised
<1>UpstreamRefused.
    ASSUME Shape, Wire, Tokens, Refused, Unpromised, NEW e \in Conns, Upstream(e) PROVE Refused' /\ Unpromised'
  <2> USE <1>UpstreamRefused
  <2>1. pending' = pending
    BY DEF Upstream, UpAnswer, UpNotify, UpFails, upstreams, session
  <2>2. CASE UpFails(e)
    BY <2>1, <2>2, UpFailsDoes, <1>SameSettles, <1>SettlesRefused
  <2>3. ASSUME NEW asked, asked \subseteq conn[e].asked, NEW active, NEW f \in Frames,
               Becomes(e, asked, active, Append(conn[e].down, f)),
               \A k \in active : k \in conn[e].active \/ (k \in Ops /\ \E r \in conn[e].asked : r.k = k),
               f.t = "resp" /\ f.val = NoVal /\ f.id \in DOMAIN pending => f.id \notin active
        PROVE  Refused' /\ Unpromised'
    <3>1. Unpromised'
      BY <2>1, <2>3 DEF Unpromised, Becomes
    <3>2. \A i \in 1 .. Len(conn'[e].down) :
             conn'[e].down[i] = f \/ \E j \in 1 .. Len(conn[e].down) : conn'[e].down[i] = conn[e].down[j]
      BY <2>3, AppendedFrames
    <3>3. ASSUME NEW d \in Conns, NEW i \in 1 .. Len(conn'[d].down), conn'[d].down[i].t = "resp",
                 conn'[d].down[i].val = NoVal, conn'[d].down[i].id \in DOMAIN pending
          PROVE  conn'[d].down[i].id \notin conn'[d].active
      <4>1. CASE d # e
        BY <2>3, <3>3, <4>1 DEF Refused, Becomes
      <4>2. CASE d = e /\ conn'[d].down[i] = f
        BY <2>3, <3>3, <4>2 DEF Becomes
      <4>3. ASSUME d = e, NEW j \in 1 .. Len(conn[e].down), conn'[d].down[i] = conn[e].down[j]
            PROVE  conn'[d].down[i].id \notin conn'[d].active
        <5>1. PICK k : k = conn[e].down[j].id
          OBVIOUS
        <5>2. Told(e, k) /\ k \notin conn[e].active
          BY <3>3, <4>3, <5>1 DEF Told, ToldAt, Refused
        <5>3. k \notin active
          BY <2>3, <5>2, AskedIsOpen
        <5> QED
          BY <2>3, <4>3, <5>1, <5>3 DEF Becomes
      <4> QED
        BY <3>2, <3>3, <4>1, <4>2, <4>3
    <3> QED
      BY <2>1, <3>1, <3>3 DEF Refused
  <2>4. CASE UpAnswer(e)
    <3>1. PICK r \in conn[e].asked, ok \in BOOLEAN :
                /\ ok => r.k # 0
                /\ r.k \in conn[e].active => r.k = 0 \/ ok
                /\ Becomes(e, conn[e].asked \ {r}, IF ok THEN conn[e].active \cup {r.k} ELSE conn[e].active,
                           Append(conn[e].down, Answer(e, r, ok)))
      BY <2>4, UpAnswerDoes DEF Answer
    <3>2. PICK f \in Frames : f = Answer(e, r, ok)
      BY <3>1, AnswerSent
    <3>3. /\ f.t = r.t /\ f.id = r.id /\ (ok => f.val # NoVal /\ r.k \in Ops)
      BY <3>1, <3>2, AnswerSent
    <3>4. PICK active : active = IF ok THEN conn[e].active \cup {r.k} ELSE conn[e].active
      OBVIOUS
    <3>5. ASSUME f.t = "resp", f.val = NoVal, f.id \in DOMAIN pending PROVE f.id \notin active
      <4>1. ~ok /\ active = conn[e].active
        BY <3>3, <3>4, <3>5
      <4>2. AskOK(r) /\ r.t = "resp" /\ r.id = f.id
        BY <3>3, <3>5 DEF Wire, WireOK
      <4>3. r.k # 0
        BY <3>5, <4>2 DEF Unpromised
      <4>4. r.k = f.id
        BY <4>2, <4>3 DEF AskOK
      <4> QED
        BY <3>1, <4>1, <4>3, <4>4
    <3>6. Becomes(e, conn[e].asked \ {r}, active, Append(conn[e].down, f))
      BY <3>1, <3>2, <3>4
    <3>7. \A k \in active : k \in conn[e].active \/ (k \in Ops /\ \E s \in conn[e].asked : s.k = k)
      BY <3>3, <3>4
    <3> QED
      BY <2>3, <3>5, <3>6, <3>7
  <2>5. CASE UpNotify(e)
    <3>1. PICK k \in Ops :
                /\ k \in conn[e].active \/ \E r \in conn[e].asked : r.k = k
                /\ Becomes(e, conn[e].asked, conn[e].active \cup {k}, Append(conn[e].down, Note(SubId(e, k), k)))
      BY <2>5, UpNotifyDoes
    <3>2. Note(SubId(e, k), k) \in Frames /\ Note(SubId(e, k), k).t = "note"
      BY SMT DEF Note, Frames, SubIds
    <3> QED
      BY <2>3, <3>1, <3>2
  <2> QED
    BY <2>2, <2>4, <2>5 DEF Upstream
<1>PumpRequestRefused.
    ASSUME Shape, Wire, Tokens, Refused, Unpromised, PumpRequest PROVE Refused' /\ Unpromised'
  <2> USE <1>PumpRequestRefused
  <2>1. cur \in Conns /\ fromClient # <<>>
    BY PumpRequestDoes
  <2>2. PICK r \in ClientFrames : r = Head(fromClient) /\ Handles(r)
    BY PumpRequestDoes
  <2>3. r.op # "unsub" /\ r.id \in Ops => ~Used(r.id)
    BY <2>1, <2>2, QueueHead DEF Tokens, Numbered
  <2>4. CASE r.op = "sub" /\ r.id \in Ops /\ Subscribes(r.id)
    <3>1. DOMAIN pending' \subseteq DOMAIN pending \cup {r.id}
      BY <2>4 DEF Subscribes, Put
    <3>2. r.id # 0
      BY <2>4, SMT DEF Ops
    <3>3. Delivers(conn[cur].asked \cup {[t |-> "resp", id |-> r.id, k |-> r.id]}, conn[cur].active)
      BY <2>4 DEF Subscribes
    <3> QED
      BY <2>1, <2>3, <2>4, <3>1, <3>2, <3>3, <1>AskRefused
  <2>5. CASE r.op = "call" /\ r.id \in Ops /\ Calls(r.id)
    <3>1. Delivers(conn[cur].asked \cup {[t |-> "resp", id |-> r.id, k |-> 0]}, conn[cur].active) /\ pending' = pending
      BY <2>5 DEF Calls
    <3> QED
      BY <2>1, <2>3, <2>5, <3>1, <1>AskRefused
  <2>6. CASE Rejects(r.id)
    BY <2>6, <1>SameSettles, <1>SettlesRefused DEF Rejects
  <2>7. CASE Unsubscribes(r.sid)
    <3>1. PICK up : Delivers(conn[cur].asked, {k \in conn[cur].active : SubId(cur, k) # up})
      BY <2>7 DEF Unsubscribes
    <3>2. Settles
      <4>1. CASE SameTraffic
        BY <4>1, <1>SameSettles
      <4>2. CASE Becomes(cur, conn[cur].asked, {k \in conn[cur].active : SubId(cur, k) # up}, conn[cur].down)
        BY <4>2 DEF Becomes, Settles
      <4> QED
        BY <3>1, <4>1, <4>2 DEF Delivers
    <3> QED
      BY <2>7, <3>2, <1>SettlesRefused DEF Unsubscribes
  <2> QED
    BY <2>2, <2>4, <2>5, <2>6, <2>7 DEF Handles
<1>PendingDrops. \A id : DOMAIN Drop(pending, id) \subseteq DOMAIN pending
  BY DEF Drop, Restrict
<1> SUFFICES ASSUME Shape, Wire, Tokens, Refused, Unpromised, [Next]_vars PROVE Refused' /\ Unpromised'
  OBVIOUS
<1>1. TypeOK
  BY DEF Shape
<1>2. ASSUME pending' = pending, Settles PROVE Refused' /\ Unpromised'
  BY <1>2, <1>SettlesRefused
<1>3. CASE Walks
  BY <1>2, <1>3, WalksDo, <1>SameSettles
<1>4. CASE SendReplay
  <2>1. Settles
    <3> DEFINE A == {[t |-> "replayed", id |-> c, k |-> subs[c].k] : c \in DOMAIN subs}
    <3>1. \A r \in A : r.t = "replayed"
      BY SMT
    <3> HIDE DEF A
    <3>2. SameTraffic \/ Becomes(cur, A, conn[cur].active, conn[cur].down)
      BY <1>4, SendReplayDoes DEF A
    <3>3. CASE Becomes(cur, A, conn[cur].active, conn[cur].down)
      BY <3>1, <3>3 DEF Becomes, Settles
    <3> QED
      BY <3>2, <3>3, <1>SameSettles
  <2> QED
    BY <1>2, <1>4, <2>1 DEF SendReplay, session
<1>5. CASE ReplayWriteFails \/ ReplayReadFails
  BY <1>2, <1>5, FailReplayDoes, <1>SameSettles DEF ReplayWriteFails, ReplayReadFails, FailReplay, session
<1>6. CASE ReadReplay
  <2>1. pending' = pending
    BY <1>6, ReadReplayDoes DEF FailReplay, Stashes, Remaps, session
  <2>2. cur \in Conns /\ (Popped(cur) \/ SameTraffic)
    BY <1>6, ReadReplayDoes, FailReplayDoes
  <2> QED
    BY <1>2, <2>1, <2>2, <1>SameSettles, <1>PoppedSettles
<1>7. CASE Flush \/ ClientSide \/ UNCHANGED vars
  <2>1. conn' = conn
    BY <1>7 DEF Flush, ClientSide, ReadClient, ClientReaderStep, EnqueueClient, AbandonClient, ReadClientFails, ClientTurns,
                CancelContext, run, vars
  <2>2. DOMAIN pending' \subseteq DOMAIN pending
    <3>1. CASE Flush
      BY <3>1, <1>PendingDrops DEF Flush, BeginForward
    <3>2. CASE ClientSide \/ UNCHANGED vars
      BY <3>2 DEF ClientSide, ReadClient, ClientReaderStep, EnqueueClient, AbandonClient, ReadClientFails, ClientTurns,
                  CancelContext, run, vars, session
    <3> QED
      BY <1>7, <3>1, <3>2
  <2> QED
    BY <1>1, <2>1, <2>2, UnchangedIsSame, <1>SameSettles, <1>SettlesRefused
<1>8. ASSUME NEW e \in Conns, ReadUpstream(e) PROVE Refused' /\ Unpromised'
  <2>1. Settles
    BY <1>8, ReadUpstreamDoes, <1>PoppedSettles
  <2>2. DOMAIN pending' \subseteq DOMAIN pending
    BY <1>8, ReadUpstreamDoes, <1>PendingDrops DEF Forwards
  <2> QED
    BY <2>1, <2>2, <1>SettlesRefused
<1>9. ASSUME NEW e \in Conns, ReadUpstreamFails(e) \/ Register(e) PROVE Refused' /\ Unpromised'
  <2>1. conn' = conn /\ pending' = pending
    BY <1>9 DEF ReadUpstreamFails, Register, session
  <2> QED
    BY <1>1, <1>2, <2>1, UnchangedIsSame, <1>SameSettles
<1>10. ASSUME NEW g \in Goroutines, WriteToClient(g) PROVE Refused' /\ Unpromised'
  <2>1. conn' = conn /\ pending' = pending
    BY <1>10 DEF WriteToClient, session
  <2> QED
    BY <1>1, <1>2, <2>1, UnchangedIsSame, <1>SameSettles
<1>11. ASSUME NEW g \in Goroutines, WriteToClientFails(g) PROVE Refused' /\ Unpromised'
  BY <1>2, <1>11, WriteToClientFailsDoes, <1>SameSettles
<1> QED
  BY <1>3, <1>4, <1>5, <1>6, <1>7, <1>8, <1>9, <1>10, <1>11, Steps, <1>PumpRequestRefused, <1>UpstreamRefused

LEMMA KeptStays ==
    ASSUME Shape, Wire, Tokens, [Next]_vars
    PROVE  cancelled \subseteq cancelled' /\ \A k \in Ops : Kept(k) => Kept(k)'
<1>1. CASE UNCHANGED <<subs, upToClient, cancelled>>
  BY <1>1 DEF Kept, Tracked
<1>2. ASSUME ReadReplay, NEW f \in Frames, Remaps(f) PROVE SameTracked /\ cancelled' = cancelled
  BY <1>2, RemapsTables DEF Remaps, log, SameTracked
<1>3. ASSUME NEW e \in Conns, Register(e) PROVE cancelled' = cancelled /\ \A k \in Ops : Kept(k) => Kept(k)'
  <2>1. cancelled' = cancelled /\ DOMAIN subs \subseteq DOMAIN subs'
    BY <1>3 DEF Register, Put, log
  <2>2. e \in Goroutines
    BY DEF Goroutines
  <2>3. PICK id \in SubIds, k \in Ops : Registers(e, id, k)
    BY <1>3, <2>2, RegisterDoes DEF Registers
  <2>4. id \notin DOMAIN subs
    BY <1>3, <2>3, RegisterTokens DEF Registers
  <2>5. \A c \in DOMAIN subs : subs'[c] = subs[c]
    BY <2>3, <2>4 DEF Registers, Put
  <2> QED
    BY <2>1, <2>5 DEF Kept, Tracked
<1>4. ASSUME NEW c \in DOMAIN subs, Unsubscribes(c)
      PROVE  cancelled \subseteq cancelled' /\ \A k \in Ops : Kept(k) => Kept(k)'
  <2>1. subs' = Drop(subs, c) /\ cancelled' = cancelled \cup {subs[c].k}
    BY <1>4 DEF Unsubscribes
  <2>2. DOMAIN subs' = DOMAIN subs \ {c} /\ \A y \in DOMAIN subs \ {c} : subs'[y] = subs[y]
    BY <2>1 DEF Drop, Restrict
  <2>3. ASSUME NEW k \in Ops, NEW x \in DOMAIN subs, subs[x].k = k PROVE Kept(k)'
    <3>1. CASE x = c
      BY <2>1, <2>3, <3>1 DEF Kept
    <3>2. CASE x # c
      BY <2>2, <2>3, <3>2 DEF Kept, Tracked
    <3> QED
      BY <3>1, <3>2
  <2> QED
    BY <2>1, <2>3 DEF Kept, Tracked
<1> QED
  BY <1>1, <1>2, <1>3, <1>4, TablesChange, TrackedStays

LEMMA NextHeard ==
    Shape /\ Wire /\ Tokens /\ Given /\ Writers /\ Live /\ Heard /\ [Next]_vars => Heard'
\* A subscription stays known unless its subscribe is refused.
<1>KnownStays.
    ASSUME Shape, Wire, Tokens, [Next]_vars, NEW k \in Ops, Known(k)
    PROVE  Known(k)' \/ \E e \in Conns : Dismisses(e, k)
  <2> USE <1>KnownStays
  <2>1. CASE Kept(k)
    BY <2>1, KeptStays DEF Known
  <2>2. ASSUME NEW g \in Goroutines, Claimed(g, k) PROVE Known(k)'
    <3>1. fwd[g].st = "register" /\ fwd[g].k = k
      BY <2>2 DEF Claimed
    <3>2. CASE fwd'[g] = fwd[g]
      BY <2>2, <3>2 DEF Known, Claimed
    <3>3. CASE Register(g)
      <4>1. Registers(g, fwd[g].f.val, k)
        BY <3>1, <3>3, RegisterDoes
      <4>2. PICK id : id = fwd[g].f.val /\ subs' = Put(subs, id, [k |-> k, up |-> id])
        BY <4>1 DEF Registers
      <4>3. id \in DOMAIN subs' /\ subs'[id] = [k |-> k, up |-> id]
        BY <4>2 DEF Put
      <4>4. subs'[id].k = k
        BY <4>3, SMT
      <4> QED
        BY <4>3, <4>4 DEF Known, Kept, Tracked
    <3>4. ASSUME NEW e \in Conns, NEW f, ReadUpstream(e), Forwards(e, f) PROVE fwd'[g] = fwd[g]
      BY <3>1, <3>4 DEF ReadUpstream, Forwards
    <3>5. ASSUME NEW f, Flush, Forwards(0, f) PROVE fwd'[g] = fwd[g]
      BY <3>1, <3>5 DEF Flush, Forwards
    <3>6. g # 0
      BY <3>1 DEF Wire, ClaimOK
    <3> QED
      BY <3>1, <3>2, <3>3, <3>4, <3>5, <3>6, ForwardSteps
  <2>3. CASE k \in DOMAIN pending
    <3>1. CASE pending' = pending
      BY <2>3, <3>1 DEF Known
    <3>2. CASE PumpRequest
      <4>1. PICK r \in ClientFrames : Handles(r)
        BY <3>2, PumpRequestDoes
      <4>2. DOMAIN pending \subseteq DOMAIN pending'
        BY <4>1 DEF Handles, Rejects, Subscribes, Unsubscribes, Calls, Put
      <4> QED
        BY <2>3, <4>2 DEF Known
    <3>3. ASSUME NEW e \in Conns, ReadUpstream(e) PROVE Known(k)' \/ Dismisses(e, k)
      <4>1. PICK f \in Frames : f = Head(conn[e].down) /\ Forwards(e, f)
        BY <3>3, ReadUpstreamDoes
      <4>2. e \in Goroutines /\ 1 \in 1 .. Len(conn[e].down) /\ f = conn[e].down[1]
        BY <3>3, <4>1, ReadUpstreamDoes, PoppedDown
      <4>3. CASE pending' = pending
        BY <2>3, <4>3 DEF Known
      <4>4. CASE f.id # k /\ pending' = Drop(pending, f.id)
        <5>1. k \in DOMAIN pending'
          BY <2>3, <4>4 DEF Drop, Restrict
        <5> QED
          BY <5>1 DEF Known
      <4>5. CASE f.id = k /\ f.t = "resp" /\ f.val = NoVal
        BY <2>3, <3>3, <4>2, <4>5 DEF Dismisses
      <4>6. CASE f.id = k /\ fwd'[e] = [st |-> "register", f |-> f, k |-> pending[f.id]]
        <5>1. pending[k] = k
          BY <2>3 DEF Wire
        <5>2. fwd'[e].st = "register" /\ fwd'[e].k = k
          BY <4>6, <5>1, SMT
        <5> QED
          BY <4>2, <5>2 DEF Known, Claimed
      <4> QED
        BY <4>1, <4>3, <4>4, <4>5, <4>6 DEF Forwards
    <3> QED
      BY <3>1, <3>2, <3>3, PendingSteps
  <2> QED
    BY <2>1, <2>2, <2>3 DEF Known
\* What the current upstream serves or was asked for stays known.
<1>KnownHere.
    ASSUME Shape, Wire, Tokens, Writers, Refused, ~orphaned, [Next]_vars, NEW e \in Conns, e = cur, HeardOK(e)
    PROVE  /\ \A k \in conn[e].active : Known(k)'
           /\ \A r \in conn[e].asked : r.k # 0 => Known(r.k)'
  <2> USE <1>KnownHere
  <2>1. ASSUME NEW k \in Ops, NEW d \in Conns, Dismisses(d, k) PROVE k \notin conn[e].active /\ \A r \in conn[e].asked : r.k # k
    <3>1. d = e
      BY <2>1 DEF Dismisses, ReadUpstream, Writers
    <3>2. Told(e, k) /\ k \notin conn[e].active
      BY <2>1, <3>1 DEF Dismisses, Refused, Told, ToldAt
    <3> QED
      BY <3>2, AskedIsOpen
  <2>2. ASSUME NEW k \in conn[e].active PROVE Known(k)'
    <3>1. k \in Ops /\ Known(k)
      BY ConnType DEF Shape, ConnRec, HeardOK
    <3> QED
      BY <2>1, <3>1, <1>KnownStays
  <2>3. ASSUME NEW r \in conn[e].asked, r.k # 0 PROVE Known(r.k)'
    <3>1. PICK k : k = r.k
      OBVIOUS
    <3>2. r \in Requests
      BY ConnType DEF Shape, ConnRec
    <3>3. k \in Ops
      BY <2>3, <3>1, <3>2 DEF Requests
    <3>4. Known(k)
      BY <2>3, <3>1 DEF HeardOK
    <3>5. Known(k)'
      BY <2>1, <3>1, <3>3, <3>4, <1>KnownStays
    <3> QED
      BY <3>1, <3>5
  <2> QED
    BY <2>2, <2>3
<1>FeedsHeard.
    ASSUME NEW e \in Conns, HeardOK(e), Feeds(e), cancelled \subseteq cancelled', \A k \in conn[e].active : Known(k)',
           \A r \in conn[e].asked : r.k # 0 => Known(r.k)'
    PROVE  HeardOK(e)'
  <2> USE <1>FeedsHeard
  <2>1. \A k \in conn'[e].active : Known(k)'
    BY DEF Feeds
  <2>2. \A r \in conn'[e].asked : r.k # 0 => Known(r.k)'
    BY DEF Feeds
  <2>3. ASSUME NEW k \in conn[e].active \cup cancelled PROVE k \in conn'[e].active \cup cancelled'
    BY <2>3 DEF Feeds
  <2>4. ASSUME NEW i \in 1 .. Len(conn'[e].down), conn'[e].down[i].t = "note"
        PROVE  conn'[e].down[i].k \in conn'[e].active \cup cancelled'
    <3>1. ASSUME NEW j \in 1 .. Len(conn[e].down), conn'[e].down[i] = conn[e].down[j]
          PROVE  conn'[e].down[i].k \in conn[e].active \cup cancelled
      BY <2>4, <3>1 DEF HeardOK
    <3> QED
      BY <2>3, <2>4, <3>1 DEF Feeds
  <2>5. ASSUME NEW i \in 1 .. Len(buf'), buf'[i].t = "note" PROVE buf'[i].k \in conn'[e].active \cup cancelled'
    <3>1. ASSUME NEW j \in 1 .. Len(conn[e].down), buf'[i] = conn[e].down[j]
          PROVE  buf'[i].k \in conn[e].active \cup cancelled
      BY <2>5, <3>1 DEF HeardOK
    <3>2. ASSUME NEW j \in 1 .. Len(buf), buf'[i] = buf[j]
          PROVE  buf'[i].k \in conn[e].active \cup cancelled
      BY <2>5, <3>2 DEF HeardOK
    <3> QED
      BY <2>3, <3>1, <3>2 DEF Feeds
  <2> QED
    BY <2>1, <2>2, <2>4, <2>5 DEF HeardOK
<1>SameFeeds.
    ASSUME Shape, NEW e \in Conns, conn'[e].asked = conn[e].asked, conn'[e].active = conn[e].active,
           conn'[e].down = conn[e].down, buf' = buf \/ buf' = <<>> \/ (buf # <<>> /\ buf' = Tail(buf))
    PROVE  Feeds(e)
  <2> USE <1>SameFeeds
  <2>1. \A i \in 1 .. Len(buf') : \E j \in 1 .. Len(buf) : buf'[i] = buf[j]
    <3>1. buf \in Seq(Frames)
      BY DEF Shape, TypeOK
    <3>2. CASE buf' = buf \/ buf' = <<>>
      BY <3>2, NoPosition
    <3>3. CASE buf # <<>> /\ buf' = Tail(buf)
      <4>1. ASSUME NEW i \in 1 .. Len(buf') PROVE i + 1 \in 1 .. Len(buf) /\ buf'[i] = buf[i + 1]
        BY <3>1, <3>3, <4>1, TailAt
      <4> QED
        BY <4>1
    <3> QED
      BY <3>2, <3>3
  <2> QED
    BY <2>1 DEF Feeds
<1>PoppedFeeds.
    ASSUME Shape, NEW d \in Conns, Popped(d), NEW e \in Conns,
           \A i \in 1 .. Len(buf') : (\E j \in 1 .. Len(buf) : buf'[i] = buf[j])
                                     \/ \E j \in 1 .. Len(conn[e].down) : buf'[i] = conn[e].down[j]
    PROVE  Feeds(e)
  <2> USE <1>PoppedFeeds
  <2>1. /\ conn'[e].asked = conn[e].asked /\ conn'[e].active = conn[e].active
        /\ \A i \in 1 .. Len(conn'[e].down) : \E j \in 1 .. Len(conn[e].down) : conn'[e].down[i] = conn[e].down[j]
    BY PoppedDown
  <2> QED
    BY <2>1 DEF Feeds
<1>SendReplayFeeds. ASSUME Shape, SendReplay, NEW e \in Conns, e = cur PROVE Feeds(e)
  <2> USE <1>SendReplayFeeds
  <2> DEFINE A == {[t |-> "replayed", id |-> c, k |-> subs[c].k] : c \in DOMAIN subs}
  <2>1. buf' = <<>> /\ subs' = subs /\ cancelled' = cancelled
    BY DEF SendReplay, session, log
  <2>2. ASSUME NEW r \in A PROVE Known(r.k)'
    <3>1. PICK c \in DOMAIN subs : r = [t |-> "replayed", id |-> c, k |-> subs[c].k]
      OBVIOUS
    <3>2. r.k = subs[c].k
      BY <3>1
    <3>3. Tracked(r.k)'
      BY <2>1, <3>2 DEF Tracked
    <3> QED
      BY <3>3 DEF Known, Kept
  <2> HIDE DEF A
  <2>3. SameTraffic \/ Becomes(cur, A, conn[cur].active, conn[cur].down)
    BY SendReplayDoes DEF A
  <2>4. CASE SameTraffic
    BY <2>1, <2>4, <1>SameFeeds DEF SameTraffic
  <2>5. CASE Becomes(cur, A, conn[cur].active, conn[cur].down)
    <3>1. conn'[e].asked = A /\ conn'[e].active = conn[e].active /\ conn'[e].down = conn[e].down /\ Len(buf') = 0
      BY <2>1, <2>5 DEF Becomes
    <3> QED
      BY <2>2, <3>1, NoPosition DEF Feeds
  <2> QED
    BY <2>3, <2>4, <2>5
<1>ReadReplayFeeds. ASSUME Shape, ReadReplay, NEW e \in Conns, e = cur PROVE Feeds(e)
  <2> USE <1>ReadReplayFeeds
  <2>1. CASE pc = "read_replay" /\ FailReplay
    BY <2>1, FailReplayDoes, <1>SameFeeds DEF FailReplay, SameTraffic
  <2>2. ASSUME NEW f \in Frames, Popped(cur), Remaps(f) PROVE Feeds(e)
    BY <2>2, <1>PoppedFeeds DEF Remaps
  <2>3. ASSUME NEW f \in Frames, Popped(cur), Stashes(f) PROVE Feeds(e)
    <3>1. buf \in Seq(Frames) /\ 1 \in 1 .. Len(conn[e].down) /\ f = conn[e].down[1]
      BY <2>3, PoppedDown DEF Shape, TypeOK, Stashes
    <3>2. buf' = buf \/ buf' = Append(buf, f)
      BY <2>3 DEF Stashes, stash
    <3>3. ASSUME NEW i \in 1 .. Len(buf') PROVE (\E j \in 1 .. Len(buf) : buf'[i] = buf[j]) \/ buf'[i] = f
      <4>1. \A j \in 1 .. Len(Append(buf, f)) : (j \in 1 .. Len(buf) /\ Append(buf, f)[j] = buf[j]) \/ Append(buf, f)[j] = f
        BY <3>1, AppendAt
      <4>2. CASE buf' = buf
        BY <3>3, <4>2
      <4>3. CASE buf' = Append(buf, f)
        BY <3>3, <4>1, <4>3
      <4> QED
        BY <3>2, <4>2, <4>3
    <3> QED
      BY <2>3, <3>1, <3>3, <1>PoppedFeeds
  <2> QED
    BY <2>1, <2>2, <2>3, ReadReplayDoes
<1>PumpRequestFeeds.
    ASSUME Shape, Wire, Given, Tokens, PumpRequest, NEW e \in Conns, e = cur, LiveOK(e) PROVE Feeds(e)
  <2> USE <1>PumpRequestFeeds
  <2>1. buf' = buf
    BY PumpRequestDoes
  <2>2. PICK r \in ClientFrames : r = Head(fromClient) /\ Handles(r)
    BY PumpRequestDoes
  <2>3. CASE Rejects(r.id)
    BY <2>1, <2>3, <1>SameFeeds DEF Rejects, SameTraffic
  <2>4. ASSUME NEW asked, NEW active, Delivers(asked, active), active \subseteq conn[e].active,
               \A s \in asked : s \in conn[e].asked \/ s.k = 0 \/ Known(s.k)',
               \A k \in conn[e].active : k \in conn'[e].active \/ k \in cancelled'
        PROVE  Feeds(e)
    <3>1. CASE SameTraffic
      BY <2>1, <3>1, <1>SameFeeds DEF SameTraffic
    <3>2. CASE Becomes(cur, asked, active, conn[cur].down)
      BY <2>1, <2>4, <3>2 DEF Becomes, Feeds
    <3> QED
      BY <2>4, <3>1, <3>2 DEF Delivers
  <2>5. ASSUME NEW id \in Ops, NEW k \in Ops \cup {0}, k = 0 \/ k \in DOMAIN pending',
               Delivers(conn[cur].asked \cup {[t |-> "resp", id |-> id, k |-> k]}, conn[cur].active)
        PROVE  Feeds(e)
    <3> DEFINE new == [t |-> "resp", id |-> id, k |-> k]
    <3>1. new.k = k
      OBVIOUS
    <3> HIDE DEF new
    <3>2. Delivers(conn[cur].asked \cup {new}, conn[cur].active)
      BY <2>5 DEF new
    <3>3. new.k = 0 \/ Known(new.k)'
      BY <2>5, <3>1 DEF Known
    <3>4. conn'[e].active = conn[e].active
      BY <3>2, DeliversRun
    <3>5. \A s \in conn[e].asked \cup {new} : s \in conn[e].asked \/ s.k = 0 \/ Known(s.k)'
      BY <3>3
    <3> QED
      BY <2>4, <3>2, <3>4, <3>5
  <2>6. CASE r.op = "sub" /\ r.id \in Ops /\ Subscribes(r.id)
    BY <2>5, <2>6 DEF Subscribes, Put
  <2>7. CASE r.op = "call" /\ r.id \in Ops /\ Calls(r.id)
    BY <2>5, <2>7 DEF Calls
  <2>8. CASE r.op = "unsub" /\ Unsubscribes(r.sid)
    <3>1. PICK up : Delivers(conn[cur].asked, {k \in conn[cur].active : SubId(cur, k) # up})
      BY <2>8 DEF Unsubscribes
    <3>2. \A k \in conn[e].active : k \in conn'[e].active \/ k \in cancelled'
      BY <2>2, <2>8, ShedIsCancelled
    <3> QED
      BY <2>4, <3>1, <3>2
  <2> QED
    BY <2>2, <2>3, <2>6, <2>7, <2>8 DEF Handles
<1>UpstreamFeeds.
    ASSUME Shape, Wire, NEW d \in Conns, Upstream(d), NEW e \in Conns,
           \A k \in conn[e].active : Known(k)', \A r \in conn[e].asked : r.k # 0 => Known(r.k)'
    PROVE  Feeds(e)
  <2> USE <1>UpstreamFeeds
  <2>1. buf' = buf
    BY DEF Upstream, UpAnswer, UpNotify, UpFails, upstreams, replay
  <2>2. CASE UpFails(d)
    BY <2>1, <2>2, UpFailsDoes, <1>SameFeeds DEF SameTraffic
  <2>3. CASE d # e /\ (UpAnswer(d) \/ UpNotify(d))
    <3>1. conn'[e] = conn[e]
      BY <2>3, UpAnswerDoes, UpNotifyDoes DEF Becomes
    <3> QED
      BY <2>1, <3>1, <1>SameFeeds
  <2>4. ASSUME NEW asked, asked \subseteq conn[e].asked, NEW k \in Ops, NEW active, NEW f \in Frames,
               active = conn[e].active \/ (active = conn[e].active \cup {k} /\ Known(k)'),
               Becomes(e, asked, active, Append(conn[e].down, f)), f.t # "note" \/ f.k \in active
        PROVE  Feeds(e)
    <3>1. \A i \in 1 .. Len(conn'[e].down) :
             conn'[e].down[i] = f \/ \E j \in 1 .. Len(conn[e].down) : conn'[e].down[i] = conn[e].down[j]
      BY <2>4, AppendedFrames
    <3>2. conn'[e].asked = asked /\ conn'[e].active = active
      BY <2>4 DEF Becomes
    <3>3. \A j \in conn'[e].active : j \in conn[e].active \/ Known(j)'
      BY <2>4, <3>2
    <3> QED
      BY <2>1, <2>4, <3>1, <3>2, <3>3 DEF Feeds
  <2>5. CASE d = e /\ UpAnswer(e)
    <3>1. PICK r \in conn[e].asked, ok \in BOOLEAN :
                /\ ok => r.k # 0
                /\ Becomes(e, conn[e].asked \ {r}, IF ok THEN conn[e].active \cup {r.k} ELSE conn[e].active,
                           Append(conn[e].down, Answer(e, r, ok)))
      BY <2>5, UpAnswerDoes DEF Answer
    <3>2. PICK f \in Frames : f = Answer(e, r, ok)
      BY <3>1, AnswerSent
    <3>3. f.t = r.t /\ r \in Requests /\ (ok => r.k \in Ops)
      BY <3>1, <3>2, AnswerSent
    <3>4. f.t # "note"
      BY <3>3 DEF Requests
    <3>5. CASE ok
      BY <2>4, <3>1, <3>2, <3>3, <3>4, <3>5
    <3>6. CASE ~ok
      <4>1. Becomes(e, conn[e].asked \ {r}, conn[e].active, Append(conn[e].down, f))
        BY <3>1, <3>2, <3>6
      <4>2. \E k \in Ops : TRUE
        BY <3>3, SMT DEF Requests, SubIds
      <4> QED
        BY <2>4, <3>4, <4>1, <4>2
    <3> QED
      BY <3>5, <3>6
  <2>6. CASE d = e /\ UpNotify(e)
    <3>1. PICK k \in Ops :
                /\ k \in conn[e].active \/ \E r \in conn[e].asked : r.k = k
                /\ Becomes(e, conn[e].asked, conn[e].active \cup {k}, Append(conn[e].down, Note(SubId(e, k), k)))
      BY <2>6, UpNotifyDoes
    <3>2. Note(SubId(e, k), k) \in Frames /\ Note(SubId(e, k), k).k = k
      BY SMT DEF Note, Frames, SubIds
    <3>3. Known(k)'
      BY <3>1, SMT DEF Ops
    <3> QED
      BY <2>4, <3>1, <3>2, <3>3, SMT
  <2> QED
    BY <2>2, <2>3, <2>5, <2>6 DEF Upstream
<1> SUFFICES ASSUME Shape, Wire, Tokens, Given, Writers, Live, Heard, [Next]_vars PROVE Heard'
  OBVIOUS
<1>1. Refused' /\ Unpromised'
  BY NextRefused DEF Heard
<1> SUFFICES ASSUME ~orphaned', NEW e \in Conns, e = cur' PROVE HeardOK(e)'
  BY <1>1 DEF Heard
<1>2. ~orphaned /\ (ConnectUpstream \/ cur' = cur)
  BY Course
<1>3. CASE ConnectUpstream
  <2>1. Walks /\ e = cur + 1 /\ cur \in Nat /\ buf' = buf /\ pc = "connect"
    <3>1. cur \in Nat
      BY ShapeParts, SMT DEF RunType
    <3>2. cur' = cur + 1 /\ UNCHANGED replay /\ pc = "connect"
      BY <1>3 DEF ConnectUpstream
    <3> QED
      BY <1>3, <3>1, <3>2 DEF Walks, replay
  <2>2. Fresh(e) /\ buf = <<>>
    <3>1. e > cur
      BY <2>1, NextNumber
    <3> QED
      BY <2>1, <3>1 DEF Wire, WireOK, Shape
  <2>3. conn'[e].asked = {} /\ conn'[e].active = {} /\ Len(conn'[e].down) = 0 /\ Len(buf') = 0
    <3>1. conn'[e].asked = conn[e].asked /\ conn'[e].active = conn[e].active /\ conn'[e].down = conn[e].down
      BY <2>1, WalksDo DEF SameTraffic
    <3> QED
      BY <2>1, <2>2, <3>1, NoPosition DEF Fresh
  <2> QED
    BY <2>3, NoPosition DEF HeardOK
<1> SUFFICES ASSUME ~ConnectUpstream, cur' = cur PROVE HeardOK(e)'
  BY <1>2, <1>3
<1>4. e = cur /\ HeardOK(e) /\ LiveOK(e)
  BY <1>2 DEF Heard, Live
<1>5. (\A k \in conn[e].active : Known(k)') /\ \A r \in conn[e].asked : r.k # 0 => Known(r.k)'
  BY <1>2, <1>4, <1>KnownHere DEF Heard
<1> SUFFICES Feeds(e)
  BY <1>4, <1>5, <1>FeedsHeard, KeptStays
<1>6. CASE Walks
  BY <1>6, WalksDo, <1>SameFeeds DEF SameTraffic
<1>7. CASE ReplayWriteFails \/ ReplayReadFails
  BY <1>7, FailReplayDoes, <1>SameFeeds DEF ReplayWriteFails, ReplayReadFails, FailReplay, SameTraffic
<1>8. CASE Flush
  <2>1. conn' = conn
    BY <1>8 DEF Flush
  <2> QED
    BY <1>8, <2>1, FlushDoes, <1>SameFeeds
<1>9. ASSUME NEW d \in Conns, ReadUpstream(d) PROVE Feeds(e)
  <2>1. Popped(d) /\ buf' = buf
    BY <1>9, ReadUpstreamDoes DEF ReadUpstream, replay
  <2> QED
    BY <2>1, <1>PoppedFeeds
<1>10. ASSUME NEW d \in Conns, ReadUpstreamFails(d) \/ Register(d) PROVE Feeds(e)
  <2>1. conn' = conn /\ buf' = buf
    BY <1>10 DEF ReadUpstreamFails, Register, replay
  <2> QED
    BY <2>1, <1>SameFeeds
<1>11. ASSUME NEW g \in Goroutines, WriteToClient(g) PROVE Feeds(e)
  <2>1. conn' = conn /\ buf' = buf
    BY <1>11 DEF WriteToClient, replay
  <2> QED
    BY <2>1, <1>SameFeeds
<1>12. ASSUME NEW g \in Goroutines, WriteToClientFails(g) PROVE Feeds(e)
  BY <1>12, WriteToClientFailsDoes, <1>SameFeeds DEF SameTraffic
<1>13. CASE ClientSide \/ UNCHANGED vars
  <2>1. conn' = conn /\ buf' = buf
    BY <1>13 DEF ClientSide, ReadClient, ClientReaderStep, EnqueueClient, AbandonClient, ReadClientFails, ClientTurns,
                 CancelContext, run, vars, replay
  <2> QED
    BY <2>1, <1>SameFeeds
<1>14. ASSUME NEW d \in Conns, Upstream(d) PROVE Feeds(e)
  BY <1>5, <1>14, <1>UpstreamFeeds
<1> QED
  BY <1>4, <1>6, <1>7, <1>8, <1>9, <1>10, <1>11, <1>12, <1>13, <1>14, Steps, <1>SendReplayFeeds, <1>ReadReplayFeeds,
     <1>PumpRequestFeeds

LEMMA HeardInvariance == Spec => []Heard
<1>1. Init => Heard
  <2> SUFFICES ASSUME Init PROVE Heard
    OBVIOUS
  <2>1. \A e \in Conns : conn[e].down = <<>> /\ conn[e].asked = {}
    BY DEF Init, NoConn
  <2>2. \A e \in Conns : Len(conn[e].down) = 0
    BY <2>1, NoPosition
  <2>3. Refused /\ Unpromised
    BY <2>1, <2>2, NoPosition DEF Refused, Unpromised
  <2>4. \A e \in Conns : e # cur
    BY SMT DEF Init, Conns
  <2> QED
    BY <2>3, <2>4 DEF Heard
<1> QED
  BY <1>1, NextHeard, ShapeInvariance, WireInvariance, TokensInvariance, GivenInvariance, WritersInvariance,
     LiveInvariance, PTL DEF Spec

\* The client can place every notification it is sent, provided that no reader
\* outlived its pump: it is for an id the client has, for a subscribe still to be
\* answered, or for a subscription the client cancelled.
THEOREM NotificationsAreRecognised == Spec => []NotesAreRecognised
\* A notification that forwardToClient begins with can be placed.
<1>BegunIsPlaced.
    ASSUME Shape, Wire, RoutesAgree, NEW e \in Conns, \A g \in Goroutines, j \in Ops : ~Claimed(g, j),
           \A c \in DOMAIN subs : Serves(e, c), HeardOK(e), NEW k \in Ops, k \in conn[e].active \cup cancelled
    PROVE  Placed(clientID(SubId(e, k)), k)
  <2> USE <1>BegunIsPlaced
  <2>1. CASE k \in cancelled \cup DOMAIN pending
    BY <2>1 DEF Placed
  <2>2. CASE Tracked(k)
    <3>1. PICK c \in DOMAIN subs : subs[c].k = k
      BY <2>2 DEF Tracked
    <3>2. PICK u : u = SubId(e, k)
      OBVIOUS
    <3>3. subs[c].up = u
      BY <3>1, <3>2 DEF Serves
    <3>4. u \in DOMAIN upToClient /\ upToClient[u] = c
      BY <3>1, <3>3 DEF RoutesAgree
    <3>5. clientID(u) = c
      BY <3>4 DEF clientID
    <3> QED
      BY <3>1, <3>2, <3>5 DEF Placed
  <2>3. CASE k \in conn[e].active
    BY <2>1, <2>2, <2>3 DEF HeardOK, Known, Kept
  <2> QED
    BY <2>1, <2>3
\* While goroutine g writes a notification, nothing takes its place in the tables away.
<1>PlacedStays.
    ASSUME Shape, Wire, Tokens, Writers, NotedOK, ~orphaned, [Next]_vars, NEW g \in Goroutines, WritingNote(g),
           Placed(fwd[g].f.sid, fwd[g].f.k), fwd'[g] = fwd[g]
    PROVE  Placed(fwd[g].f.sid, fwd[g].f.k)'
  <2> USE <1>PlacedStays
  <2>1. PICK sid, k : sid = fwd[g].f.sid /\ k = fwd[g].f.k
    OBVIOUS
  <2>2. k \in Ops
    <3>1. fwd[g] \in Forwarding
      BY ShapeParts DEF FwdType
    <3>2. fwd[g].f \in Frames /\ fwd[g].f.t = "note"
      BY <3>1, SMT DEF Forwarding, WritingNote, Writing, Free
    <3> QED
      BY <2>1, <3>2 DEF Frames
  <2>3. CASE sid \in DOMAIN subs
    <3>1. Honoured(sid)'
      BY <2>3, HonouredStays DEF Honoured
    <3>2. CASE sid \in DOMAIN subs'
      BY <2>1, <3>2 DEF Placed
    <3>3. ASSUME NEW d \in Conns, NEW j \in cancelled', sid = SubId(d, j) PROVE j = k
      <4>1. PICK e \in Conns : sid = SubId(e, k)
        BY <2>1 DEF NotedOK
      <4>2. j \in Ops
        BY NextShape DEF Shape, TypeOK
      <4>3. SubId(d, j) = SubId(e, k)
        BY <3>3, <4>1
      <4> QED
        BY <2>2, <4>2, <4>3, SameName, SMT
    <3> QED
      BY <2>1, <3>1, <3>2, <3>3 DEF Honoured, Placed
  <2>4. CASE k \in cancelled
    BY <2>1, <2>4, KeptStays DEF Placed
  <2>5. CASE k \in DOMAIN pending
    <3>1. CASE pending' = pending
      BY <2>1, <2>5, <3>1 DEF Placed
    <3>2. CASE PumpRequest
      <4>1. PICK r \in ClientFrames : Handles(r)
        BY <3>2, PumpRequestDoes
      <4>2. DOMAIN pending \subseteq DOMAIN pending'
        BY <4>1 DEF Handles, Rejects, Subscribes, Unsubscribes, Calls, Put
      <4> QED
        BY <2>1, <2>5, <4>2 DEF Placed
    <3>3. ASSUME NEW d \in Conns, ReadUpstream(d) PROVE FALSE
      <4>1. d = cur /\ fwd[d].st = "free" /\ pc \in {"pump", "wait_done", "over", "returned"}
        BY <3>3 DEF ReadUpstream, Writers
      <4>2. fwd[g].st = "write" /\ fwd[g].f.t = "note"
        BY DEF WritingNote, Writing
      <4>3. CASE g = 0
        BY <4>1, <4>2, <4>3 DEF Shape, Writers
      <4>4. CASE g # 0
        <5>1. g \in Conns /\ reader[g] = "running"
          BY <4>2, <4>4 DEF Goroutines, Wire, WireOK
        <5> QED
          BY <4>1, <4>2, <5>1 DEF Writers
      <4> QED
        BY <4>3, <4>4
    <3> QED
      BY <3>1, <3>2, <3>3, PendingSteps
  <2> QED
    BY <2>1, <2>3, <2>4, <2>5 DEF Placed
\* The note that goroutine g begins to forward can be placed.
<1>BegunNote.
    ASSUME Shape, Wire, RoutesAgree, Writers, Live, Heard, ~orphaned, [Next]_vars,
           NEW g \in Goroutines, NEW e \in Conns, NEW f \in Frames, BeginsNote(g, e, f)
    PROVE  Placed(fwd[g].f.sid, fwd[g].f.k)'
  <2> USE <1>BegunNote
  <2>1. /\ f.t = "note" /\ f.k \in Ops /\ f.sid = SubId(e, f.k) /\ pending' = pending
        /\ fwd'[g].f.sid = clientID(f.sid) /\ fwd'[g].f.k = f.k
    BY DEF BeginsNote
  <2>2. UNCHANGED <<subs, cancelled>>
    BY DEF BeginsNote, ReadUpstream, Flush, log
  <2>3. e = cur /\ (pc = "flush" \/ reader[e] = "running")
    BY DEF BeginsNote, ReadUpstream, Flush, Writers
  <2>4. HeardOK(e) /\ \A c \in DOMAIN subs : Serves(e, c)
    BY <2>3 DEF Heard, Live, LiveOK
  <2>5. f.k \in conn[e].active \cup cancelled
    BY <2>1, <2>4 DEF BeginsNote, HeardOK
  <2>6. ASSUME NEW h \in Goroutines, NEW j \in Ops, Claimed(h, j) PROVE FALSE
    <3>1. h \in Conns /\ fwd[h].st = "register"
      BY <2>6 DEF Claimed, Wire, ClaimOK, Goroutines
    <3>2. reader[h] = "running"
      BY <3>1 DEF Wire, WireOK
    <3>3. h = cur /\ pc # "flush"
      BY <3>1, <3>2 DEF Writers
    <3> QED
      BY <2>3, <3>1, <3>3 DEF BeginsNote, ReadUpstream, Flush
  <2>7. Placed(clientID(f.sid), f.k)
    BY <2>1, <2>4, <2>5, <2>6, <1>BegunIsPlaced
  <2> QED
    BY <2>1, <2>2, <2>7 DEF Placed
<1> DEFINE Layers == Shape /\ Wire /\ Tokens /\ RoutesAgree /\ NotedOK /\ Writers /\ Live /\ Heard
<1>1. Init => NotesAreRecognised
  BY SMT DEF Init, NotesAreRecognised, WritingNote, Writing, Free
<1>2. Layers /\ NotesAreRecognised /\ [Next]_vars => NotesAreRecognised'
  <2> SUFFICES ASSUME Layers, NotesAreRecognised, [Next]_vars, ~orphaned', NEW g \in DOMAIN fwd', WritingNote(g)'
               PROVE  Placed(fwd[g].f.sid, fwd[g].f.k)'
    BY DEF NotesAreRecognised, Placed
  <2>1. ~orphaned
    BY Course
  <2>2. DOMAIN fwd = Goroutines /\ DOMAIN fwd' = Goroutines /\ g \in Goroutines
    BY NextShape, ShapeParts DEF FwdType, Shape, TypeOK, Goroutines
  <2>3. CASE fwd'[g] = fwd[g]
    <3>1. WritingNote(g)
      BY <2>3 DEF WritingNote, Writing
    <3>2. Placed(fwd[g].f.sid, fwd[g].f.k)
      BY <2>1, <2>2, <3>1 DEF NotesAreRecognised, Placed
    <3> QED
      BY <2>1, <2>2, <2>3, <3>1, <3>2, <1>PlacedStays
  <2>4. ASSUME NEW e \in Conns, NEW f \in Frames, BeginsNote(g, e, f) PROVE Placed(fwd[g].f.sid, fwd[g].f.k)'
    BY <2>1, <2>2, <2>4, <1>BegunNote
  <2> QED
    BY <2>2, <2>3, <2>4, NewNotes
<1> QED
  BY <1>1, <1>2, ShapeInvariance, WireInvariance, TokensInvariance, TablesAgree, NotedInvariance, WritersInvariance,
     LiveInvariance, HeardInvariance, PTL DEF Spec
=============================================================================
