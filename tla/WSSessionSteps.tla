--------------------------- MODULE WSSessionSteps ---------------------------
(***************************************************************************)
(* The session keeps its tables and its routes through every failover, for *)
(* any numbers of connections, requests and notifications.                 *)
(*                                                                         *)
(* The lower layers of the invariant of WSSessionInv, each preserved with  *)
(* the help of those before it: Shape, Wire, Tokens, then RoutesAgree,     *)
(* NotedOK, Given and Writers, which rest on these three.  First come what *)
(* each action does to the variables, which the layers all use.            *)
(*                                                                         *)
(* Most steps are first-order; those that count cite SMT.                  *)
(***************************************************************************)
EXTENDS WSSessionInv, TLAPS

USE ZenonT(40)

-----------------------------------------------------------------------------
(***************************************************************************)
(* Positions in a queue, and the records the goroutines hold.              *)
(***************************************************************************)

LEMMA NoPosition == Len(<<>>) = 0 /\ \A i : i \notin 1 .. 0
BY SMT

LEMMA PositionsAreInts == \A n : \A i \in 1 .. n : i \in Int
BY SMT

LEMMA BeforeTheLast == \A n \in Nat : \A i, j \in 1 .. n + 1 : i < j => i # n + 1
BY SMT

LEMMA SameShift == \A i, j \in Int, n \in Nat : i + n = j + n => i = j
BY SMT

LEMMA NextNumber == \A a, b \in Nat : (a <= b => a <= b + 1 /\ a < b + 1) /\ b + 1 <= b + 1 /\ b + 1 > b
BY SMT

LEMMA TailAt ==
    ASSUME NEW S, NEW q \in Seq(S), q # <<>>
    PROVE  /\ 1 \in 1 .. Len(q) /\ Head(q) = q[1]
           /\ \A i \in 1 .. Len(Tail(q)) : i + 1 \in 1 .. Len(q) /\ Tail(q)[i] = q[i + 1]
BY SMT

LEMMA AppendAt ==
    ASSUME NEW S, NEW q \in Seq(S), NEW x \in S
    PROVE  /\ Len(Append(q, x)) = Len(q) + 1 /\ Len(q) \in Nat
           /\ \A i \in 1 .. Len(Append(q, x)) :
                 \/ i \in 1 .. Len(q) /\ Append(q, x)[i] = q[i]
                 \/ i = Len(q) + 1 /\ Append(q, x)[i] = x
BY SMT

LEMMA TailOfQueue ==
    ASSUME NEW S, NEW q \in Seq(S), NEW h \in Seq(S), q # <<>>
    PROVE  q \o h # <<>> /\ Tail(q) \o h = Tail(q \o h)
<1>1. Len(q \o h) = Len(q) + Len(h) /\ Len(q) > 0 /\ Len(Tail(q)) = Len(q) - 1 /\ Tail(q) \in Seq(S) /\ q \o h \in Seq(S)
  BY SMT
<1>2. q \o h # <<>>
  BY <1>1, SMT
<1>3. Len(Tail(q) \o h) = Len(Tail(q \o h))
  BY <1>1, <1>2, SMT
<1>4. ASSUME NEW i \in 1 .. Len(Tail(q) \o h) PROVE (Tail(q) \o h)[i] = Tail(q \o h)[i]
  BY <1>1, <1>2, <1>4, SMT
<1> QED
  BY <1>1, <1>2, <1>3, <1>4, SMT

LEMMA WriteRec == \A w, f : w = [st |-> "write", f |-> f] => w.st = "write" /\ w.f = f
BY SMT

LEMMA RegisterRec == \A w, f, k : w = [st |-> "register", f |-> f, k |-> k] => w.st = "register" /\ w.f = f /\ w.k = k
BY SMT

LEMMA RespRec == \A m, id, v : m = Resp(id, v) => m.t = "resp" /\ m.id = id /\ m.val = v
BY SMT DEF Resp

LEMMA NoteRec == \A m, sid, k : m = Note(sid, k) => m.t = "note" /\ m.sid = sid /\ m.k = k
BY SMT DEF Note

-----------------------------------------------------------------------------
(***************************************************************************)
(* Connections.                                                            *)
(***************************************************************************)

LEMMA ConnType == TypeOK => conn \in [Conns -> ConnRec]
BY DEF TypeOK, ConnRec

LEMMA CloseIsSame ==
    ASSUME TypeOK, NEW e \in Conns, conn' = Close(e) PROVE SameTraffic
<1>1. conn \in [Conns -> ConnRec]
  BY ConnType
<1> QED
  BY <1>1 DEF Close, SameTraffic, ConnRec

LEMMA LinkIsSame ==
    ASSUME TypeOK, NEW e \in Conns, NEW l \in {"up", "silent", "down"},
           conn' = [conn EXCEPT ![e].link = l]
    PROVE  SameTraffic
<1>1. conn \in [Conns -> ConnRec]
  BY ConnType
<1> QED
  BY <1>1 DEF SameTraffic, ConnRec

LEMMA UnchangedIsSame == TypeOK /\ UNCHANGED conn => SameTraffic
BY ConnType DEF SameTraffic

LEMMA PopIsPopped ==
    ASSUME TypeOK, NEW e \in Conns, conn[e].down # <<>>,
           conn' = [conn EXCEPT ![e].down = Tail(@)]
    PROVE  Popped(e)
<1>1. conn \in [Conns -> ConnRec]
  BY ConnType
<1>2. conn[e].down \in Seq(Frames) /\ conn[e].down # <<>>
  BY <1>1 DEF ConnRec
<1>3. Tail(conn[e].down) \in Seq(Frames)
  BY <1>2, SMT
<1> QED
  BY <1>1, <1>3 DEF Popped, ConnRec

-----------------------------------------------------------------------------
(***************************************************************************)
(* What the steps that write to a connection do to it.                     *)
(***************************************************************************)
LEMMA SendReplayDoes ==
    ASSUME Shape, SendReplay
    PROVE  \/ SameTraffic
           \/ Becomes(cur, {[t |-> "replayed", id |-> c, k |-> subs[c].k] : c \in DOMAIN subs},
                      conn[cur].active, conn[cur].down)
<1> DEFINE A == {[t |-> "replayed", id |-> c, k |-> subs[c].k] : c \in DOMAIN subs}
<1>1. TypeOK /\ cur \in Conns
  BY SMT DEF Shape, SendReplay, TypeOK, Conns
<1>2. CASE conn[cur].link = "up"
  <2>1. conn' = [conn EXCEPT ![cur].asked = A]
    BY <1>2 DEF SendReplay
  <2>2. A \in SUBSET Requests
    <3>1. ASSUME NEW c \in DOMAIN subs
          PROVE  [t |-> "replayed", id |-> c, k |-> subs[c].k] \in Requests
      <4>1. c \in SubIds /\ subs[c].k \in Ops
        BY <1>1 DEF TypeOK
      <4> QED
        BY <4>1 DEF Requests
    <3> QED
      BY <3>1
  <2>3. conn \in [Conns -> ConnRec]
    BY <1>1, ConnType
  <2> HIDE DEF A
  <2> QED
    BY <1>1, <2>1, <2>2, <2>3 DEF Becomes, ConnRec, A
<1>3. CASE conn[cur].link # "up"
  BY <1>1, <1>3, UnchangedIsSame DEF SendReplay
<1> QED
  BY <1>2, <1>3

LEMMA UpAnswerDoes ==
    ASSUME Shape, NEW e \in Conns, UpAnswer(e)
    PROVE  \E r \in conn[e].asked, ok \in BOOLEAN :
              /\ ok => r.k # 0
              /\ r.k \in conn[e].active => r.k = 0 \/ ok
              /\ Becomes(e, conn[e].asked \ {r}, IF ok THEN conn[e].active \cup {r.k} ELSE conn[e].active,
                         Append(conn[e].down, [t |-> r.t, id |-> r.id, val |-> IF ok THEN SubId(e, r.k) ELSE NoVal]))
<1>1. conn \in [Conns -> ConnRec]
  BY ConnType DEF Shape
<1>a. PICK r \in conn[e].asked : \E ok \in IF r.k = 0 THEN {FALSE} ELSE {TRUE, r.k \in conn[e].active} :
         conn' = [conn EXCEPT
                    ![e].asked = @ \ {r},
                    ![e].active = IF ok THEN @ \cup {r.k} ELSE @,
                    ![e].down = Append(@, [t |-> r.t, id |-> r.id,
                                           val |-> IF ok THEN SubId(e, r.k) ELSE NoVal])]
  BY DEF UpAnswer
<1>2. PICK ok \in IF r.k = 0 THEN {FALSE} ELSE {TRUE, r.k \in conn[e].active} :
         conn' = [conn EXCEPT
                    ![e].asked = @ \ {r},
                    ![e].active = IF ok THEN @ \cup {r.k} ELSE @,
                    ![e].down = Append(@, [t |-> r.t, id |-> r.id,
                                           val |-> IF ok THEN SubId(e, r.k) ELSE NoVal])]
  BY <1>a
<1>3. ok \in BOOLEAN /\ (ok => r.k # 0) /\ (r.k \in conn[e].active => r.k = 0 \/ ok)
  <2>1. CASE r.k = 0
    BY <1>2, <2>1
  <2>2. CASE r.k # 0
    <3>1. ok \in {TRUE, r.k \in conn[e].active}
      <4>1. (IF r.k = 0 THEN {FALSE} ELSE {TRUE, r.k \in conn[e].active}) = {TRUE, r.k \in conn[e].active}
        BY <2>2
      <4> QED
        BY <4>1
    <3>2. r.k \in conn[e].active => ok = TRUE
      BY <3>1
    <3>3. ok \in BOOLEAN
      <4>1. ASSUME NEW P \in BOOLEAN, ok \in {TRUE, P} PROVE ok \in BOOLEAN
        BY <4>1
      <4>2. (r.k \in conn[e].active) \in BOOLEAN
        BY SMT
      <4> QED
        BY <3>1, <4>1, <4>2
    <3> QED
      BY <2>2, <3>2, <3>3
  <2> QED
    BY <2>1, <2>2
<1>4. r \in Requests
  BY <1>1 DEF ConnRec
<1>5. ok => r.k \in Ops
  BY <1>3, <1>4 DEF Requests
<1> DEFINE active == IF ok THEN conn[e].active \cup {r.k} ELSE conn[e].active
           f == [t |-> r.t, id |-> r.id, val |-> IF ok THEN SubId(e, r.k) ELSE NoVal]
<1>6. active \in SUBSET Ops
  BY <1>1, <1>5 DEF ConnRec
<1>7. (IF ok THEN SubId(e, r.k) ELSE NoVal) \in SubIds \cup {NoVal}
  BY <1>5, SMT DEF SubIds
<1>8. f \in Frames
  BY <1>4, <1>7 DEF Frames, Requests
<1>9. conn' = [conn EXCEPT ![e].asked = @ \ {r}, ![e].active = active, ![e].down = Append(@, f)]
  BY <1>1, <1>2
<1>10. conn[e].asked \ {r} \in SUBSET Requests /\ Append(conn[e].down, f) \in Seq(Frames)
  BY <1>1, <1>8, SMT DEF ConnRec
<1>11. Becomes(e, conn[e].asked \ {r}, active, Append(conn[e].down, f))
  <2> HIDE DEF active, f
  <2> QED
    BY <1>1, <1>6, <1>9, <1>10, SMT DEF Becomes, ConnRec
<1> QED
  BY <1>3, <1>11

LEMMA UpNotifyDoes ==
    ASSUME Shape, NEW e \in Conns, UpNotify(e)
    PROVE  \E k \in Ops :
              /\ k \in conn[e].active \/ \E r \in conn[e].asked : r.k = k
              /\ Becomes(e, conn[e].asked, conn[e].active \cup {k}, Append(conn[e].down, Note(SubId(e, k), k)))
<1>1. conn \in [Conns -> ConnRec]
  BY ConnType DEF Shape
<1>2. PICK k \in conn[e].active \cup ({r.k : r \in conn[e].asked} \ {0}) :
         conn' = [conn EXCEPT ![e].active = @ \cup {k}, ![e].down = Append(@, Note(SubId(e, k), k))]
  BY DEF UpNotify
<1>3. k \in Ops
  BY <1>1, SMT DEF ConnRec, Requests
<1>4. Note(SubId(e, k), k) \in Frames
  BY <1>3, SMT DEF Note, Frames, SubIds
<1>5. conn[e].active \cup {k} \in SUBSET Ops /\ Append(conn[e].down, Note(SubId(e, k), k)) \in Seq(Frames)
  BY <1>1, <1>3, <1>4, SMT DEF ConnRec
<1>6. Becomes(e, conn[e].asked, conn[e].active \cup {k}, Append(conn[e].down, Note(SubId(e, k), k)))
  BY <1>1, <1>2, <1>5, SMT DEF Becomes, ConnRec
<1> QED
  BY <1>2, <1>3, <1>6

-----------------------------------------------------------------------------
(***************************************************************************)
(* Types.                                                                  *)
(***************************************************************************)
LEMMA DropHas ==
    ASSUME NEW f, NEW x
    PROVE  /\ DOMAIN Drop(f, x) = DOMAIN f \ {x}
           /\ \A y \in DOMAIN f \ {x} : Drop(f, x)[y] = f[y]
BY DEF Drop, Restrict

LEMMA RerouteType ==
    ASSUME NEW S, NEW f, DOMAIN f \subseteq S, \A y \in DOMAIN f : f[y] \in S, NEW x, NEW z \in S, NEW v \in S
    PROVE  /\ DOMAIN Put(Drop(f, x), z, v) \subseteq S
           /\ \A y \in DOMAIN Put(Drop(f, x), z, v) : Put(Drop(f, x), z, v)[y] \in S
<1> DEFINE u == Drop(f, x)
<1>1. DOMAIN u \subseteq S /\ \A y \in DOMAIN u : u[y] \in S
  BY DEF Drop, Restrict
<1> HIDE DEF u
<1>2. DOMAIN Put(u, z, v) \subseteq S /\ \A y \in DOMAIN Put(u, z, v) : Put(u, z, v)[y] \in S
  BY <1>1 DEF Put
<1> QED
  BY <1>2 DEF u

LEMMA BeginForwardDoes ==
    ASSUME Shape, NEW g \in Goroutines, NEW f \in Frames, BeginForward(g, f)
    PROVE  Forwards(g, f)
<1>1. fwd \in [Goroutines -> Forwarding] /\ TypeOK
  BY DEF Shape, TypeOK, Goroutines
<1>2. ASSUME NEW v \in Forwarding, fwd' = [fwd EXCEPT ![g] = v]
      PROVE  /\ fwd' \in [Goroutines -> Forwarding]
             /\ \A h \in Goroutines \ {g} : fwd'[h] = fwd[h]
             /\ fwd'[g] = v
  BY <1>1, <1>2
<1>3. [st |-> "write", f |-> f] \in Forwarding
  BY DEF Forwarding
<1>4. CASE f.t = "note" /\ UNCHANGED pending
           /\ fwd' = [fwd EXCEPT ![g] = [st |-> "write", f |-> Note(clientID(f.sid), f.k)]]
  <2>1. f.sid \in SubIds /\ f.k \in Ops
    BY <1>4 DEF Frames
  <2>2. clientID(f.sid) \in SubIds
    BY <1>1, <2>1 DEF clientID, TypeOK
  <2>3. [st |-> "write", f |-> Note(clientID(f.sid), f.k)] \in Forwarding
    BY <2>1, <2>2 DEF Forwarding, Note, Frames
  <2> QED
    BY <1>2, <1>4, <2>3 DEF Forwards
<1>5. CASE f.t = "resp" /\ f.id \in DOMAIN pending /\ pending' = Drop(pending, f.id)
           /\ fwd' = [fwd EXCEPT ![g] = IF f.val # NoVal
                                        THEN [st |-> "register", f |-> f, k |-> pending[f.id]]
                                        ELSE [st |-> "write", f |-> f]]
  <2>1. f.val \in SubIds \cup {NoVal} /\ pending[f.id] \in Ops
    BY <1>1, <1>5 DEF Frames, TypeOK
  <2>2. [st |-> "register", f |-> f, k |-> pending[f.id]] \in Forwarding
    BY <2>1 DEF Forwarding
  <2>3. CASE f.val # NoVal
    BY <1>2, <1>5, <2>1, <2>2, <2>3 DEF Forwards
  <2>4. CASE f.val = NoVal
    BY <1>2, <1>3, <1>5, <2>4 DEF Forwards
  <2> QED
    BY <2>3, <2>4
<1>6. CASE (f.t = "replayed" \/ (f.t = "resp" /\ f.id \notin DOMAIN pending)) /\ UNCHANGED pending
           /\ fwd' = [fwd EXCEPT ![g] = [st |-> "write", f |-> f]]
  BY <1>2, <1>3, <1>6 DEF Forwards
<1> QED
  BY <1>4, <1>5, <1>6 DEF BeginForward

LEMMA BeginForwardShape ==
    ASSUME Shape, NEW g \in Goroutines, NEW f \in Frames, Forwards(g, f)
    PROVE  /\ DOMAIN pending' \subseteq Ops
           /\ \A r \in DOMAIN pending' : r \in DOMAIN pending /\ pending'[r] = pending[r] /\ pending'[r] \in Ops
           /\ \A h \in Goroutines : fwd'[h].st = "register" => fwd'[h].f.t = "resp" /\ fwd'[h].f.val \in SubIds
<1>1. \A r \in DOMAIN pending' : r \in DOMAIN pending /\ pending'[r] = pending[r]
  <2>1. CASE pending' = pending
    BY <2>1
  <2>2. CASE pending' = Drop(pending, f.id)
    BY <2>2, DropHas
  <2> QED
    BY <2>1, <2>2 DEF Forwards
<1>2. ASSUME NEW h \in Goroutines, fwd'[h].st = "register"
      PROVE  fwd'[h].f.t = "resp" /\ fwd'[h].f.val \in SubIds
  <2>1. CASE h # g
    <3>1. fwd'[h] = fwd[h]
      BY <2>1 DEF Forwards
    <3> QED
      BY <1>2, <3>1 DEF Shape
  <2>2. CASE h = g
    BY <1>2, <2>2, SMT DEF Forwards
  <2> QED
    BY <2>1, <2>2
<1> QED
  BY <1>1, <1>2 DEF Shape, TypeOK

LEMMA ShapeParts ==
    Shape <=> /\ TablesType /\ PendingType /\ RunType /\ FwdType /\ UserType /\ LogType
              /\ conn \in [Conns -> ConnRec] /\ stuck \in BOOLEAN
BY DEF Shape, TypeOK, TablesType, PendingType, RunType, FwdType, UserType, LogType, ConnRec, ClientRec, Goroutines

LEMMA PartsStay ==
    /\ TablesType /\ UNCHANGED <<subs, upToClient>> => TablesType'
    /\ PendingType /\ UNCHANGED pending => PendingType'
    /\ FwdType /\ UNCHANGED <<fwd, reader>> => FwdType'
    /\ UserType /\ UNCHANGED <<client, fromClient, ctxDone>> => UserType'
    /\ LogType /\ UNCHANGED <<notes, cancelled>> /\ orphaned' \in BOOLEAN => LogType'
BY DEF TablesType, PendingType, FwdType, UserType, LogType

\* Steps of run outside forwardToClient and forwardToUpstream.
LEMMA FailReplayDoes ==
    ASSUME Shape, pc \in {"replay", "read_replay"}, FailReplay PROVE SameTraffic
<1>1. cur \in Conns
  BY SMT DEF Shape, TypeOK, Conns
<1> QED
  BY <1>1, CloseIsSame DEF FailReplay, Shape

LEMMA WalksDo ==
    ASSUME Shape, Walks
    PROVE  /\ SameTraffic
           /\ UNCHANGED <<subs, upToClient, pending, waiting, buf, fwd, client, fromClient, notes, cancelled>>
           /\ orphaned' \in BOOLEAN /\ (orphaned => orphaned') /\ (orphaned' = orphaned \/ NoteOrphan)
           /\ ConnectUpstream => cur' = cur + 1 /\ cur' \in Conns
           /\ ~ConnectUpstream => cur' = cur
<1> USE DEF session, replay, user, log
<1>1. cur \in Nat /\ MaxConns \in Nat /\ (cur # 0 => cur \in Conns) /\ TypeOK /\ orphaned \in BOOLEAN
  BY SessionAssumption, SMT DEF Shape, TypeOK, Conns, SessionAssumption
<1>2. CASE ConnectUpstream
  <2>1. cur' = cur + 1 /\ cur' \in Conns
    BY <1>1, <1>2, SMT DEF ConnectUpstream, Conns
  <2>2. conn' = [conn EXCEPT ![cur + 1].link = "up"] /\ cur + 1 \in Conns
    BY <1>2, <2>1 DEF ConnectUpstream
  <2>3. SameTraffic
    BY <1>1, <2>2, LinkIsSame
  <2> QED
    BY <1>1, <1>2, <2>1, <2>3 DEF ConnectUpstream
<1>3. CASE NoUpstream
  BY <1>1, <1>3, UnchangedIsSame DEF NoUpstream, ConnectUpstream
<1>4. CASE NothingToReplay
  BY <1>1, <1>4, UnchangedIsSame DEF NothingToReplay, StartPump, ConnectUpstream
<1>5. CASE PumpUpstreamDone \/ PumpEnds \/ PingFails
  <2>1. cur \in Conns /\ conn' = Close(cur)
    BY <1>1, <1>5 DEF PumpUpstreamDone, PumpEnds, PingFails, Pumping, Failover, Shape
  <2>2. SameTraffic
    BY <1>1, <2>1, CloseIsSame
  <2> QED
    BY <1>1, <1>5, <2>2 DEF PumpUpstreamDone, PumpEnds, PingFails, Pumping, ConnectUpstream
<1>6. CASE WaitDone \/ Return
  BY <1>1, <1>6, UnchangedIsSame DEF WaitDone, Return, ConnectUpstream
<1>7. CASE StuckWrite
  <2>1. cur \in Conns /\ (conn' = conn \/ conn' = Close(cur))
    BY <1>1, <1>7 DEF StuckWrite, Failover, Shape
  <2>2. SameTraffic
    BY <1>1, <2>1, UnchangedIsSame, CloseIsSame
  <2>3. orphaned' \in BOOLEAN /\ (orphaned => orphaned')
    BY <1>1, <1>7 DEF StuckWrite, NoteOrphan
  <2> QED
    BY <1>7, <2>2, <2>3 DEF StuckWrite, ConnectUpstream
<1> QED
  BY <1>2, <1>3, <1>4, <1>5, <1>6, <1>7 DEF Walks

LEMMA ReadReplayDoes ==
    ASSUME Shape, ReadReplay
    PROVE  /\ cur \in Conns /\ Head(conn[cur].down) \in Frames
           /\ \/ Popped(cur) /\ Stashes(Head(conn[cur].down))
              \/ Popped(cur) /\ Remaps(Head(conn[cur].down))
              \/ pc = "read_replay" /\ FailReplay
<1>1. cur \in Conns /\ TypeOK
  BY SMT DEF ReadReplay, Shape, TypeOK, Conns
<1>2. conn[cur].down \in Seq(Frames) /\ conn[cur].down # <<>>
  BY <1>1, ConnType DEF ConnRec, ReadReplay
<1>3. Head(conn[cur].down) \in Frames
  BY <1>2, SMT
<1>4. conn' = [conn EXCEPT ![cur].down = Tail(@)] => Popped(cur)
  BY <1>1, <1>2, PopIsPopped
<1> QED
  BY <1>1, <1>2, <1>3, <1>4 DEF ReadReplay, Stashes, Remaps

LEMMA RemapsTables ==
    ASSUME Shape, NEW f \in Frames, Remaps(f)
    PROVE  /\ f.t = "replayed" /\ f.id \in DOMAIN subs /\ f.val \in SubIds
           /\ DOMAIN subs' = DOMAIN subs
           /\ \A c \in DOMAIN subs : /\ subs'[c].k = subs[c].k
                                     /\ subs'[c].up = IF c = f.id THEN f.val ELSE subs[c].up
                                     /\ c # f.id => subs'[c] = subs[c]
           /\ TablesType'
<1>1. f.t = "replayed" /\ f.id \in waiting /\ f.val # NoVal
  BY DEF Remaps, isReplayAnswer, accepted
<1>2. f.id \in DOMAIN subs /\ f.val \in SubIds
  BY <1>1 DEF Shape, TypeOK, Frames
<1>3. subs' = [subs EXCEPT ![f.id].up = f.val]
  BY DEF Remaps, rename
<1>4. \A c \in DOMAIN subs : subs[c] \in [k : Ops, up : SubIds]
  BY DEF Shape, TypeOK
<1>5. /\ DOMAIN subs' = DOMAIN subs
      /\ \A c \in DOMAIN subs : /\ subs'[c].k = subs[c].k
                                /\ subs'[c].up = IF c = f.id THEN f.val ELSE subs[c].up
                                /\ c # f.id => subs'[c] = subs[c]
                                /\ subs'[c] \in [k : Ops, up : SubIds]
  BY <1>2, <1>3, <1>4
<1>6. /\ DOMAIN upToClient' \subseteq SubIds
      /\ \A x \in DOMAIN upToClient' : upToClient'[x] \in SubIds
  <2>1. upToClient' = Put(Drop(upToClient, subs[f.id].up), f.val, f.id)
    BY DEF Remaps, remap
  <2>2. f.id \in SubIds /\ DOMAIN upToClient \subseteq SubIds /\ \A x \in DOMAIN upToClient : upToClient[x] \in SubIds
    BY <1>2 DEF Shape, TypeOK
  <2> QED
    BY <1>2, <2>1, <2>2, RerouteType
<1>7. TablesType'
  BY <1>5, <1>6 DEF TablesType, Shape, TypeOK
<1> QED
  BY <1>1, <1>2, <1>5, <1>7

LEMMA FlushDoes ==
    ASSUME Shape, Flush
    PROVE  /\ cur \in Conns /\ 0 \in Goroutines
           /\ \/ /\ buf # <<>> /\ Head(buf) \in Frames /\ BeginForward(0, Head(buf)) /\ buf' = Tail(buf)
                 /\ UNCHANGED <<pc, reader>>
              \/ buf = <<>> /\ StartPump /\ UNCHANGED <<buf, fwd, pending>>
<1>1. buf \in Seq(Frames) /\ cur \in Conns
  BY SMT DEF Flush, Shape, TypeOK, Conns
<1>2. buf # <<>> => Head(buf) \in Frames
  BY <1>1, SMT
<1> QED
  BY <1>1, <1>2 DEF Flush, Goroutines

LEMMA ReadUpstreamDoes ==
    ASSUME Shape, NEW e \in Conns, ReadUpstream(e)
    PROVE  /\ e \in Goroutines /\ Head(conn[e].down) \in Frames
           /\ Popped(e) /\ Forwards(e, Head(conn[e].down))
<1>1. TypeOK /\ e \in Goroutines
  BY DEF Shape, Goroutines
<1>2. conn[e].down \in Seq(Frames) /\ conn[e].down # <<>>
  BY <1>1, ConnType DEF ConnRec, ReadUpstream
<1>3. Head(conn[e].down) \in Frames
  BY <1>2, SMT
<1>4. Popped(e)
  BY <1>1, <1>2, PopIsPopped DEF ReadUpstream
<1>5. Forwards(e, Head(conn[e].down))
  BY <1>1, <1>3, BeginForwardDoes DEF ReadUpstream
<1> QED
  BY <1>1, <1>3, <1>4, <1>5

LEMMA RegisterDoes ==
    ASSUME Shape, NEW g \in Goroutines, Register(g)
    PROVE  fwd[g].f.t = "resp" /\ fwd[g].f \in Frames /\ Registers(g, fwd[g].f.val, fwd[g].k)
<1>1. fwd \in [Goroutines -> Forwarding]
  BY ShapeParts DEF FwdType
<1>2. fwd[g].st = "register" /\ fwd[g].f.t = "resp" /\ fwd[g].f.val \in SubIds
  BY DEF Shape, Register
<1>3. fwd[g].f \in Frames /\ fwd[g].k \in Ops
  BY <1>1, <1>2, SMT DEF Forwarding, Free
<1>4. [st |-> "write", f |-> fwd[g].f] \in Forwarding
  BY <1>3 DEF Forwarding
<1> QED
  BY <1>1, <1>2, <1>3, <1>4 DEF Registers, Register

LEMMA WriteToClientFailsDoes ==
    ASSUME Shape, NEW g \in Goroutines, WriteToClientFails(g)
    PROVE  /\ SameTraffic
           /\ fwd' = [fwd EXCEPT ![g] = Free] /\ Free.st = "free" /\ Free \in Forwarding
           /\ UNCHANGED <<cur, subs, upToClient, pending, waiting, buf, fromClient, ctxDone, notes, cancelled>>
           /\ client' = [client EXCEPT !.broken = TRUE]
           /\ orphaned' \in BOOLEAN /\ (orphaned => orphaned')
           /\ g = 0 => pc \in {"flush", "pump"} /\ reader' = reader /\ pc' = IF pc = "flush" THEN "over" ELSE "connect"
           /\ g # 0 => g \in Conns /\ pc' = pc /\ reader' = [reader EXCEPT ![g] = "done"]
<1>1. TypeOK /\ orphaned \in BOOLEAN
  BY DEF Shape, TypeOK
<1>2. g = 0 => pc \in {"flush", "pump"} /\ cur \in Conns
  BY SMT DEF WriteToClientFails, Shape, TypeOK, Conns
<1>3. SameTraffic
  <2>1. CASE g = 0
    BY <1>1, <1>2, <2>1, CloseIsSame DEF WriteToClientFails
  <2>2. CASE g # 0
    BY <1>1, <2>2, UnchangedIsSame DEF WriteToClientFails
  <2> QED
    BY <2>1, <2>2
<1>4. orphaned' \in BOOLEAN /\ (orphaned => orphaned')
  BY <1>1 DEF WriteToClientFails, NoteOrphan
<1>5. Free.st = "free" /\ Free \in Forwarding
  BY DEF Free, Forwarding
<1> QED
  BY <1>2, <1>3, <1>4, <1>5 DEF WriteToClientFails, session, replay, Goroutines

LEMMA PumpRequestDoes ==
    ASSUME Shape, PumpRequest
    PROVE  /\ pc = "pump" /\ fwd[0].st = "free" /\ cur \in Conns
           /\ fromClient # <<>> /\ Head(fromClient) \in ClientFrames /\ fromClient' = Tail(fromClient)
           /\ Handles(Head(fromClient))
           /\ UNCHANGED <<cur, waiting, buf, reader, client, ctxDone, notes>>
           /\ orphaned' \in BOOLEAN /\ (orphaned => orphaned')
\* up.WriteMessage is delivered, or it changes no traffic.
<1>WriteUpstreamDoes.
    ASSUME Shape, cur \in Conns, NEW asked \in SUBSET Requests, NEW active \in SUBSET Ops, NEW new,
           new = [conn[cur] EXCEPT !.asked = asked, !.active = active],
           WriteUpstream(new)
    PROVE  \/ SameTraffic /\ pc' \in {pc, "connect"}
           \/ Becomes(cur, asked, active, conn[cur].down) /\ pc' = pc
  <2> USE <1>WriteUpstreamDoes
  <2>1. TypeOK /\ conn \in [Conns -> ConnRec]
    BY ConnType DEF Shape
  <2>2. CASE conn' = [conn EXCEPT ![cur] = new] /\ pc' = pc
    BY <2>1, <2>2 DEF Becomes, ConnRec
  <2>3. CASE UNCHANGED <<conn, pc>>
    BY <2>1, <2>3, UnchangedIsSame
  <2>4. CASE conn' = Close(cur) /\ pc' = "connect"
    BY <2>1, <2>4, CloseIsSame
  <2> QED
    BY <2>2, <2>3, <2>4 DEF WriteUpstream, Failover
<1>AskDoes.
    ASSUME Shape, cur \in Conns, NEW id \in Ops, NEW k \in Ops \cup {0}, WriteUpstream(Ask(id, k))
    PROVE  Delivers(conn[cur].asked \cup {[t |-> "resp", id |-> id, k |-> k]}, conn[cur].active)
  <2> USE <1>AskDoes
  <2> DEFINE r == [t |-> "resp", id |-> id, k |-> k]
  <2>1. conn[cur] \in ConnRec
    BY ConnType DEF Shape
  <2>2. r \in Requests
    BY DEF Requests
  <2> HIDE DEF r
  <2>3. conn[cur].asked \cup {r} \in SUBSET Requests /\ conn[cur].active \in SUBSET Ops
    BY <2>1, <2>2 DEF ConnRec
  <2>4. Ask(id, k) = [conn[cur] EXCEPT !.asked = conn[cur].asked \cup {r}, !.active = conn[cur].active]
    BY <2>1 DEF Ask, ConnRec, r
  <2> QED
    BY <2>3, <2>4, <1>WriteUpstreamDoes DEF Delivers, r
<1>UnaskDoes.
    ASSUME Shape, cur \in Conns, NEW up, WriteUpstream([conn[cur] EXCEPT !.active = {k \in @ : SubId(cur, k) # up}])
    PROVE  Delivers(conn[cur].asked, {k \in conn[cur].active : SubId(cur, k) # up})
  <2> USE <1>UnaskDoes
  <2> DEFINE A == {k \in conn[cur].active : SubId(cur, k) # up}
             new == [conn[cur] EXCEPT !.active = {k \in @ : SubId(cur, k) # up}]
  <2>1. conn[cur] \in ConnRec
    BY ConnType DEF Shape
  <2>2. conn[cur].asked \in SUBSET Requests /\ A \in SUBSET Ops
    BY <2>1 DEF ConnRec
  <2>3. new = [conn[cur] EXCEPT !.asked = conn[cur].asked, !.active = A]
    BY <2>1 DEF ConnRec
  <2>4. WriteUpstream(new)
    OBVIOUS
  <2> HIDE DEF A, new
  <2>5. Delivers(conn[cur].asked, A)
    BY <2>2, <2>3, <2>4, <1>WriteUpstreamDoes DEF Delivers
  <2> QED
    BY <2>5 DEF A
<1> DEFINE r == Head(fromClient)
<1>1. pc = "pump" /\ fwd[0].st = "free" /\ cur \in Conns /\ TypeOK
  BY SMT DEF PumpRequest, Pumping, Shape, TypeOK, Conns
<1>2. fromClient \in Seq(ClientFrames) /\ fromClient # <<>> /\ orphaned \in BOOLEAN
  BY <1>1 DEF PumpRequest, TypeOK
<1>3. r \in ClientFrames
  BY <1>2, SMT
<1>4. UNCHANGED <<cur, waiting, buf, reader, client, ctxDone, notes>> /\ fromClient' = Tail(fromClient)
  BY DEF PumpRequest, replay
<1>5. orphaned' \in BOOLEAN /\ (orphaned => orphaned')
  BY <1>2 DEF PumpRequest, NoteOrphan
<1>6. Handles(r)
  <2> HIDE DEF r
  <2>1. CASE r.op = "sub" /\ ForwardSubscribe(r.id)
    <3>1. r.id \in Ops
      BY <1>3, <2>1 DEF ClientFrames
    <3>2. CASE tooManyPending
      <4>1. [st |-> "write", f |-> Resp(r.id, NoVal)] \in Forwarding
        BY <3>1 DEF Forwarding, Resp, Frames
      <4>2. fwd' = [fwd EXCEPT ![0] = [st |-> "write", f |-> Resp(r.id, NoVal)]]
            /\ UNCHANGED <<pc, conn, subs, upToClient, pending, cancelled>>
        BY <2>1, <3>2 DEF ForwardSubscribe, session
      <4>3. fwd \in [Goroutines -> Forwarding] /\ 0 \in Goroutines
        BY ShapeParts DEF FwdType, Goroutines
      <4>4. SameTraffic
        BY <1>1, <4>2, UnchangedIsSame
      <4>5. \A g \in Conns : g \in Goroutines /\ g # 0
        BY SMT DEF Goroutines, Conns
      <4> QED
        BY <2>1, <3>1, <4>1, <4>2, <4>3, <4>4, <4>5 DEF Handles, Rejects
    <3>3. CASE ~tooManyPending
      <4>1. WriteUpstream(Ask(r.id, r.id)) /\ pending' = Put(pending, r.id, r.id)
            /\ UNCHANGED <<subs, upToClient, fwd, cancelled>>
        BY <2>1, <3>3 DEF ForwardSubscribe
      <4>2. Delivers(conn[cur].asked \cup {[t |-> "resp", id |-> r.id, k |-> r.id]}, conn[cur].active)
        BY <1>1, <3>1, <4>1, <1>AskDoes
      <4> QED
        BY <2>1, <3>1, <3>3, <4>1, <4>2 DEF Handles, Subscribes
    <3> QED
      BY <3>2, <3>3
  <2>2. CASE r.op = "unsub" /\ ForwardUnsubscribe(r.sid)
    <3>1. r.sid \in SubIds
      BY <1>3, <2>2 DEF ClientFrames
    <3>2. CASE r.sid \in DOMAIN subs
      <4>1. /\ upToClient' = Drop(upToClient, subs[r.sid].up) /\ subs' = Drop(subs, r.sid)
            /\ cancelled' = cancelled \cup {subs[r.sid].k}
            /\ WriteUpstream([conn[cur] EXCEPT !.active = {k \in @ : SubId(cur, k) # subs[r.sid].up}])
            /\ UNCHANGED <<pending, fwd>>
        BY <2>2, <3>2 DEF ForwardUnsubscribe
      <4>2. Delivers(conn[cur].asked, {k \in conn[cur].active : SubId(cur, k) # subs[r.sid].up})
        BY <1>1, <4>1, <1>UnaskDoes
      <4> QED
        BY <2>2, <3>1, <3>2, <4>1, <4>2 DEF Handles, Unsubscribes
    <3>3. CASE r.sid \notin DOMAIN subs
      <4>1. /\ UNCHANGED <<subs, upToClient, cancelled>> /\ UNCHANGED <<pending, fwd>>
            /\ WriteUpstream([conn[cur] EXCEPT !.active = {k \in @ : SubId(cur, k) # r.sid}])
        BY <2>2, <3>3 DEF ForwardUnsubscribe
      <4>2. Delivers(conn[cur].asked, {k \in conn[cur].active : SubId(cur, k) # r.sid})
        BY <1>1, <4>1, <1>UnaskDoes
      <4> QED
        BY <2>2, <3>1, <3>3, <4>1, <4>2 DEF Handles, Unsubscribes
    <3> QED
      BY <3>2, <3>3
  <2>3. CASE r.op = "call" /\ ForwardCall(r.id)
    <3>1. r.id \in Ops
      BY <1>3, <2>3 DEF ClientFrames
    <3>2. WriteUpstream(Ask(r.id, 0)) /\ UNCHANGED <<subs, upToClient, pending, fwd, cancelled>>
      BY <2>3 DEF ForwardCall, session
    <3>3. Delivers(conn[cur].asked \cup {[t |-> "resp", id |-> r.id, k |-> 0]}, conn[cur].active)
      BY <1>1, <3>1, <3>2, <1>AskDoes
    <3> QED
      BY <2>3, <3>1, <3>2, <3>3 DEF Handles, Calls
  <2> QED
    BY <2>1, <2>2, <2>3 DEF PumpRequest, r
<1> QED
  BY <1>1, <1>2, <1>3, <1>4, <1>5, <1>6

LEMMA DeliversShape ==
    ASSUME Shape, NEW asked, NEW active, Delivers(asked, active)
    PROVE  pc' \in {pc, "connect"} /\ conn' \in [Conns -> ConnRec]
BY DEF Delivers, SameTraffic, Becomes

\* The parts of a step of pump that handles a frame.
LEMMA HandlesShape ==
    ASSUME Shape, NEW r \in ClientFrames, Handles(r)
    PROVE  /\ pc' \in {pc, "connect"} /\ conn' \in [Conns -> ConnRec]
           /\ TablesType' /\ PendingType' /\ cancelled' \subseteq Ops
           /\ fwd' \in [Goroutines -> Forwarding]
           /\ \A g \in Goroutines : fwd'[g].st = "register" => fwd'[g] = fwd[g]
           /\ fwd' = fwd \/ pc' = pc
<1>1. TablesType /\ PendingType /\ fwd \in [Goroutines -> Forwarding] /\ cancelled \subseteq Ops
  BY ShapeParts DEF FwdType, LogType
<1>2. CASE r.op = "sub" /\ r.id \in Ops /\ Rejects(r.id)
  <2>1. \A g \in Goroutines : fwd'[g].st = "register" => fwd'[g] = fwd[g]
    BY <1>2, SMT DEF Rejects, Goroutines
  <2> QED
    BY <1>1, <1>2, <2>1, PartsStay DEF Rejects, SameTraffic
<1>3. CASE r.op = "sub" /\ r.id \in Ops /\ Subscribes(r.id)
  <2>1. pc' \in {pc, "connect"} /\ conn' \in [Conns -> ConnRec] /\ fwd' = fwd
    BY <1>3, DeliversShape DEF Subscribes
  <2>2. PendingType'
    BY <1>1, <1>3 DEF Subscribes, PendingType, Put
  <2> QED
    BY <1>1, <1>3, <2>1, <2>2, PartsStay DEF Subscribes
<1>4. CASE r.op = "unsub" /\ r.sid \in SubIds /\ Unsubscribes(r.sid)
  <2>1. pc' \in {pc, "connect"} /\ conn' \in [Conns -> ConnRec] /\ fwd' = fwd /\ pending' = pending
    BY <1>4, DeliversShape DEF Unsubscribes
  <2>2. CASE r.sid \in DOMAIN subs
    <3>1. upToClient' = Drop(upToClient, subs[r.sid].up) /\ subs' = Drop(subs, r.sid)
          /\ cancelled' = cancelled \cup {subs[r.sid].k}
      BY <1>4, <2>2 DEF Unsubscribes
    <3>2. TablesType'
      BY <1>1, <3>1 DEF TablesType, Drop, Restrict
    <3>3. cancelled' \subseteq Ops
      BY <1>1, <2>2, <3>1 DEF TablesType
    <3> QED
      BY <1>1, <2>1, <3>2, <3>3, PartsStay
  <2>3. CASE r.sid \notin DOMAIN subs
    BY <1>1, <1>4, <2>1, <2>3, PartsStay DEF Unsubscribes
  <2> QED
    BY <2>2, <2>3
<1>5. CASE r.op = "call" /\ r.id \in Ops /\ Calls(r.id)
  <2>1. pc' \in {pc, "connect"} /\ conn' \in [Conns -> ConnRec] /\ fwd' = fwd
    BY <1>5, DeliversShape DEF Calls
  <2> QED
    BY <1>1, <1>5, <2>1, PartsStay DEF Calls
<1> QED
  BY <1>2, <1>3, <1>4, <1>5 DEF Handles

LEMMA ReadClientDoes ==
    ASSUME Shape, ReadClient
    PROVE  /\ client.held = <<>> /\ client.sent \in Nat
           /\ \E r \in ClientFrames :
                /\ client' = [client EXCEPT !.sent = client.sent + 1, !.held = <<r>>]
                /\ client' \in ClientRec
                /\ r.op # "unsub" => r.id = client.sent + 1
                /\ r.op = "unsub" => r.sid \in client.known
<1>1. client \in ClientRec /\ client.sent + 1 \in Ops /\ client.sent + 1 \in 0 .. MaxOps /\ client.sent \in Nat
  BY ShapeParts, SessionAssumption, SMT DEF UserType, ClientRec, ReadClient, Ops, SessionAssumption
<1>2. ASSUME NEW r \in ClientFrames, client' = [client EXCEPT !.sent = @ + 1, !.held = <<r>>]
      PROVE  client' = [client EXCEPT !.sent = client.sent + 1, !.held = <<r>>] /\ client' \in ClientRec
  <2>1. <<r>> \in Seq(ClientFrames)
    BY SMT
  <2> QED
    BY <1>1, <1>2, <2>1 DEF ClientRec
<1>3. PICK op \in ClientOps : \E sid \in IF op = "unsub" THEN client.known ELSE {NoVal} :
          client' = [client EXCEPT
                        !.sent = @ + 1,
                        !.held = IF op = "unsub" THEN <<[op |-> op, sid |-> sid]>>
                                 ELSE <<[op |-> op, id |-> client.sent + 1]>>]
  BY DEF ReadClient
<1>4. CASE op = "unsub"
  <2>1. PICK sid \in client.known : client' = [client EXCEPT !.sent = @ + 1, !.held = <<[op |-> op, sid |-> sid]>>]
    BY <1>3, <1>4
  <2> DEFINE r == [op |-> op, sid |-> sid]
  <2>2. r \in ClientFrames /\ r.op = "unsub" /\ r.sid \in client.known
    BY <1>1, <1>4 DEF ClientFrames, ClientRec
  <2> HIDE DEF r
  <2>3. client' = [client EXCEPT !.sent = @ + 1, !.held = <<r>>]
    BY <2>1 DEF r
  <2> QED
    BY <1>1, <1>2, <2>2, <2>3 DEF ReadClient
<1>5. CASE op # "unsub"
  <2>1. client' = [client EXCEPT !.sent = @ + 1, !.held = <<[op |-> op, id |-> client.sent + 1]>>]
    BY <1>3, <1>5
  <2> DEFINE r == [op |-> op, id |-> client.sent + 1]
  <2>2. r \in ClientFrames /\ r.op # "unsub" /\ r.id = client.sent + 1
    <3>1. op \in {"sub", "call"}
      BY <1>5, SessionAssumption DEF SessionAssumption
    <3> QED
      BY <1>1, <3>1 DEF ClientFrames
  <2> HIDE DEF r
  <2>3. client' = [client EXCEPT !.sent = @ + 1, !.held = <<r>>]
    BY <2>1 DEF r
  <2> QED
    BY <1>1, <1>2, <2>2, <2>3 DEF ReadClient
<1> QED
  BY <1>4, <1>5

LEMMA UpFailsDoes == ASSUME Shape, NEW e \in Conns, UpFails(e) PROVE SameTraffic
<1>1. PICK l \in {"down", "silent"} : conn' = [conn EXCEPT ![e].link = l]
  BY DEF UpFails
<1> QED
  BY <1>1, LinkIsSame DEF Shape

\* The kinds of steps, as the proofs below tell them apart.
LEMMA Steps ==
    ASSUME [Next]_vars
    PROVE  \/ Walks \/ SendReplay \/ ReplayWriteFails \/ ReplayReadFails \/ ReadReplay \/ Flush \/ PumpRequest
           \/ \E e \in Conns : ReadUpstream(e) \/ ReadUpstreamFails(e) \/ Register(e)
           \/ \E g \in Goroutines : WriteToClient(g) \/ WriteToClientFails(g)
           \/ ClientSide
           \/ \E e \in Conns : Upstream(e)
           \/ UNCHANGED vars
BY DEF Next, RunStep, ReaderStep, Walks, ClientSide, Upstream, Finished, Goroutines

LEMMA StuckType == ASSUME Shape, [Next]_vars PROVE stuck' \in BOOLEAN
<1> USE DEF log
<1>1. stuck \in BOOLEAN
  BY ShapeParts
<1>2. ASSUME UNCHANGED stuck PROVE stuck' \in BOOLEAN
  BY <1>1, <1>2
<1>3. CASE Walks
  BY <1>2, <1>3 DEF Walks, ConnectUpstream, NoUpstream, NothingToReplay, PumpUpstreamDone, PumpEnds, PingFails, WaitDone,
                    StuckWrite, Return
<1>4. CASE SendReplay \/ ReplayWriteFails \/ ReplayReadFails \/ ReadReplay \/ Flush
  BY <1>2, <1>4 DEF SendReplay, ReplayWriteFails, ReplayReadFails, FailReplay, ReadReplay, Flush
<1>5. CASE PumpRequest
  <2>1. ASSUME NEW new, WriteUpstream(new) PROVE stuck' \in BOOLEAN
    BY <1>2, <2>1 DEF WriteUpstream
  <2> QED
    BY <1>2, <1>5, <2>1 DEF PumpRequest, ForwardSubscribe, ForwardUnsubscribe, ForwardCall
<1>6. ASSUME NEW e \in Conns, ReadUpstream(e) \/ ReadUpstreamFails(e) \/ Register(e) \/ Upstream(e) PROVE stuck' \in BOOLEAN
  BY <1>2, <1>6 DEF ReadUpstream, ReadUpstreamFails, Register, Upstream, UpAnswer, UpNotify, UpFails, upstreams
<1>7. ASSUME NEW g \in Goroutines, WriteToClient(g) \/ WriteToClientFails(g) PROVE stuck' \in BOOLEAN
  BY <1>2, <1>7 DEF WriteToClient, WriteToClientFails
<1>8. CASE ClientSide \/ UNCHANGED vars
  BY <1>2, <1>8 DEF ClientSide, ReadClient, ClientReaderStep, EnqueueClient, AbandonClient, ReadClientFails, ClientTurns,
                    CancelContext, run, vars
<1> QED
  BY <1>3, <1>4, <1>5, <1>6, <1>7, <1>8, Steps

LEMMA NextShape == Shape /\ [Next]_vars => Shape'
<1>ShapeNext.
    ASSUME TablesType', PendingType', RunType', FwdType', UserType', LogType', conn' \in [Conns -> ConnRec]
    PROVE  stuck' \in BOOLEAN => Shape'
  BY <1>ShapeNext DEF Shape, TypeOK, TablesType, PendingType, RunType, FwdType, UserType, LogType, ConnRec, ClientRec, Goroutines
<1>FailReplayShape.
    ASSUME Shape, pc \in {"replay", "read_replay"}, FailReplay PROVE stuck' \in BOOLEAN => Shape'
  <2> USE <1>FailReplayShape
  <2>3. RunType'
    BY ShapeParts, SMT DEF FailReplay, RunType, session
  <2>4. UNCHANGED <<subs, upToClient, pending, reader, fwd, client, fromClient, ctxDone, notes, cancelled, orphaned>>
    BY DEF FailReplay, session, user, log
  <2>5. conn' \in [Conns -> ConnRec]
    BY FailReplayDoes DEF SameTraffic
  <2>6. orphaned' \in BOOLEAN
    BY <2>4, ShapeParts DEF LogType
  <2> QED
    BY <2>3, <2>4, <2>5, <2>6, ShapeParts, <1>ShapeNext, PartsStay
<1>WalksShape. ASSUME Shape, Walks PROVE stuck' \in BOOLEAN => Shape'
  <2> USE <1>WalksShape
  <2> USE DEF session, replay, user, log
  <2>1. /\ UNCHANGED <<subs, upToClient, pending, waiting, buf, fwd, client, fromClient, notes, cancelled>>
        /\ orphaned' \in BOOLEAN /\ conn' \in [Conns -> ConnRec]
        /\ cur' = cur \/ cur' \in Conns
    BY WalksDo DEF SameTraffic
  <2>2. /\ TablesType /\ PendingType /\ RunType /\ FwdType /\ UserType /\ LogType
    BY ShapeParts
  <2>3. cur' \in 0 .. MaxConns /\ (cur # 0 => cur' # 0) /\ (ConnectUpstream => cur' # 0)
    <3>1. CASE ConnectUpstream
      BY <3>1, WalksDo, SMT DEF Conns
    <3>2. CASE ~ConnectUpstream
      BY <2>2, <3>2, WalksDo DEF RunType
    <3> QED
      BY <3>1, <3>2
  <2>4. RunType'
    <3>1. CASE ConnectUpstream
      BY <2>1, <2>2, <2>3, <3>1 DEF ConnectUpstream, RunType
    <3>2. CASE NoUpstream \/ Return
      BY <2>1, <2>2, <2>3, <3>2 DEF NoUpstream, Return, RunType
    <3>3. CASE NothingToReplay \/ PumpUpstreamDone \/ PumpEnds
      BY <2>1, <2>2, <2>3, <3>3 DEF NothingToReplay, StartPump, PumpUpstreamDone, PumpEnds, Pumping, Failover, RunType
    <3>5. CASE StuckWrite
      <4>1. pc = "pump" /\ fwd[0].st = "free" /\ (pc' = "pump" \/ pc' = "connect") /\ cur' = cur
        BY <3>5 DEF StuckWrite, Failover
      <4> QED
        BY <2>1, <2>2, <4>1 DEF RunType
    <3>4. CASE PingFails \/ WaitDone
      BY <2>1, <2>2, <2>3, <3>4 DEF PingFails, afterPing, WaitDone, Pumping, RunType
    <3> QED
      BY <3>1, <3>2, <3>3, <3>4, <3>5 DEF Walks
  <2>5. reader' \in [Conns -> {"none", "running", "done"}]
    BY <2>2 DEF Walks, ConnectUpstream, NoUpstream, NothingToReplay, StartPump, PumpUpstreamDone, PumpEnds, PingFails, WaitDone, StuckWrite, Return, FwdType
  <2>6. FwdType'
    BY <2>1, <2>2, <2>5 DEF FwdType
  <2>7. ctxDone' \in BOOLEAN
    BY <2>2 DEF Walks, ConnectUpstream, NoUpstream, NothingToReplay, StartPump, PumpUpstreamDone, PumpEnds, PingFails, WaitDone, StuckWrite, Return, UserType
  <2>8. UserType'
    BY <2>1, <2>2, <2>7 DEF UserType
  <2>9. LogType'
    BY <2>1, <2>2 DEF LogType
  <2> QED
    BY <2>1, <2>2, <2>4, <2>6, <2>8, <2>9, <1>ShapeNext, PartsStay
<1>SendReplayShape. ASSUME Shape, SendReplay PROVE stuck' \in BOOLEAN => Shape'
  <2> USE <1>SendReplayShape
  <2> USE DEF session, replay, user, log
  <2>1. TablesType /\ PendingType /\ RunType /\ FwdType /\ UserType /\ LogType
    BY ShapeParts
  <2>2. conn' \in [Conns -> ConnRec]
    BY SendReplayDoes DEF SameTraffic, Becomes
  <2>3. RunType'
    BY <2>1 DEF SendReplay, RunType
  <2>4. UNCHANGED <<subs, upToClient, pending, reader, fwd, client, fromClient, ctxDone, notes, cancelled, orphaned>>
    BY DEF SendReplay
  <2>5. orphaned' \in BOOLEAN
    BY <2>1, <2>4 DEF LogType
  <2> QED
    BY <2>1, <2>2, <2>3, <2>4, <2>5, <1>ShapeNext, PartsStay
<1>ReadReplayShape. ASSUME Shape, ReadReplay PROVE stuck' \in BOOLEAN => Shape'
  <2> USE <1>ReadReplayShape
  <2> USE DEF session, replay, user, log
  <2> DEFINE f == Head(conn[cur].down)
  <2>0. f \in Frames
    BY ReadReplayDoes
  <2>1. TablesType /\ PendingType /\ RunType /\ FwdType /\ UserType /\ LogType /\ orphaned \in BOOLEAN
    BY ShapeParts DEF LogType
  <2> HIDE DEF f
  <2>2. CASE Popped(cur) /\ Stashes(f)
    <3>1. buf' \in Seq(Frames)
      BY <2>0, <2>1, <2>2, SMT DEF Stashes, stash, RunType
    <3>2. RunType'
      BY <2>1, <2>2, <3>1 DEF Stashes, RunType
    <3> QED
      BY <2>1, <2>2, <3>2, <1>ShapeNext, PartsStay DEF Stashes, Popped
  <2>3. CASE Popped(cur) /\ Remaps(f)
    <3>1. TablesType' /\ DOMAIN subs' = DOMAIN subs
      BY <2>0, <2>3, RemapsTables
    <3>2. RunType'
      BY <2>1, <2>3, <3>1 DEF Remaps, RunType
    <3> QED
      BY <2>1, <2>3, <3>1, <3>2, <1>ShapeNext, PartsStay DEF Remaps, Popped
  <2>4. CASE pc = "read_replay" /\ FailReplay
    BY <2>4, <1>FailReplayShape
  <2> QED
    BY <2>2, <2>3, <2>4, ReadReplayDoes DEF f
<1>FlushShape. ASSUME Shape, Flush PROVE stuck' \in BOOLEAN => Shape'
  <2> USE <1>FlushShape
  <2> USE DEF session, replay, user, log
  <2>1. TablesType /\ PendingType /\ RunType /\ FwdType /\ UserType /\ LogType /\ orphaned \in BOOLEAN
        /\ conn \in [Conns -> ConnRec]
    BY ShapeParts DEF LogType
  <2>2. UNCHANGED <<cur, subs, upToClient, waiting, conn, client, fromClient, ctxDone, notes, cancelled, orphaned>>
        /\ pc = "flush" /\ fwd[0].st = "free"
    BY DEF Flush
  <2>3. CASE buf # <<>> /\ BeginForward(0, Head(buf)) /\ buf' = Tail(buf) /\ UNCHANGED <<pc, reader>>
    <3>0. Head(buf) \in Frames /\ 0 \in Goroutines /\ Forwards(0, Head(buf))
      BY <2>3, FlushDoes, BeginForwardDoes
    <3>1. /\ fwd' \in [Goroutines -> Forwarding] /\ PendingType'
          /\ \A h \in Goroutines : fwd'[h].st = "register" => fwd'[h].f.t = "resp" /\ fwd'[h].f.val \in SubIds
      BY <3>0, BeginForwardShape DEF Forwards, PendingType
    <3>2. FwdType'
      BY <2>1, <2>3, <3>1 DEF FwdType
    <3>3. buf' \in Seq(Frames)
      BY <2>1, <2>3, SMT DEF RunType
    <3>4. RunType'
      BY <2>1, <2>2, <2>3, <3>3 DEF RunType
    <3> QED
      BY <2>1, <2>2, <3>1, <3>2, <3>4, <1>ShapeNext, PartsStay
  <2>4. CASE buf = <<>> /\ StartPump /\ UNCHANGED <<buf, fwd, pending>>
    <3>1. FwdType'
      BY <2>1, <2>4 DEF FwdType, StartPump
    <3>2. RunType'
      BY <2>1, <2>2, <2>4 DEF RunType, StartPump
    <3> QED
      BY <2>1, <2>2, <2>4, <3>1, <3>2, <1>ShapeNext, PartsStay
  <2> QED
    BY <2>3, <2>4, FlushDoes
<1>ReadUpstreamShape. ASSUME Shape, NEW e \in Conns, ReadUpstream(e) PROVE stuck' \in BOOLEAN => Shape'
  <2> USE <1>ReadUpstreamShape
  <2> USE DEF session, replay, user, log
  <2> DEFINE f == Head(conn[e].down)
  <2>1. TablesType /\ PendingType /\ RunType /\ FwdType /\ UserType /\ LogType /\ orphaned \in BOOLEAN
    BY ShapeParts DEF LogType
  <2>2. UNCHANGED <<pc, cur, subs, upToClient, waiting, buf, reader, client, fromClient, ctxDone, notes, cancelled, orphaned>>
    BY DEF ReadUpstream
  <2>3. e \in Goroutines /\ f \in Frames /\ Popped(e) /\ Forwards(e, f)
    BY ReadUpstreamDoes
  <2> HIDE DEF f
  <2>4. PendingType' /\ \A h \in Goroutines : fwd'[h].st = "register" => fwd'[h].f.t = "resp" /\ fwd'[h].f.val \in SubIds
    BY <2>3, BeginForwardShape DEF PendingType
  <2>5. FwdType'
    BY <2>1, <2>2, <2>3, <2>4 DEF FwdType, Forwards
  <2>6. fwd'[0] = fwd[0]
    BY <2>3, SMT DEF Forwards, Goroutines, Conns
  <2>7. RunType'
    BY <2>1, <2>2, <2>6 DEF RunType
  <2>8. conn' \in [Conns -> ConnRec]
    BY <2>3 DEF Popped
  <2> QED
    BY <2>1, <2>2, <2>4, <2>5, <2>7, <2>8, <1>ShapeNext, PartsStay
<1>ReadUpstreamFailsShape. ASSUME Shape, NEW e \in Conns, ReadUpstreamFails(e) PROVE stuck' \in BOOLEAN => Shape'
  <2> USE <1>ReadUpstreamFailsShape
  <2> USE DEF session, replay, user, log
  <2>1. TablesType /\ PendingType /\ RunType /\ FwdType /\ UserType /\ LogType /\ orphaned \in BOOLEAN
        /\ conn \in [Conns -> ConnRec]
    BY ShapeParts DEF LogType
  <2>2. FwdType'
    BY <2>1 DEF ReadUpstreamFails, FwdType
  <2>3. RunType'
    BY <2>1 DEF ReadUpstreamFails, RunType
  <2> QED
    BY <2>1, <2>2, <2>3, <1>ShapeNext, PartsStay DEF ReadUpstreamFails
<1>RegisterShape. ASSUME Shape, NEW e \in Conns, Register(e) PROVE stuck' \in BOOLEAN => Shape'
  <2> USE <1>RegisterShape
  <2> USE DEF session, replay, user, log
  <2> DEFINE id == fwd[e].f.val
             k == fwd[e].k
  <2>1. TablesType /\ PendingType /\ RunType /\ FwdType /\ UserType /\ LogType /\ orphaned \in BOOLEAN
        /\ conn \in [Conns -> ConnRec]
    BY ShapeParts DEF LogType
  <2>2. e \in Goroutines /\ Registers(e, id, k)
    BY RegisterDoes DEF Goroutines
  <2>3. UNCHANGED <<pc, cur, pending, waiting, buf, reader, conn, client, fromClient, ctxDone, notes, cancelled, orphaned>>
    BY DEF Register
  <2> HIDE DEF id, k
  <2>4. TablesType'
    <3>1. id \in SubIds /\ [k |-> k, up |-> id] \in [k : Ops, up : SubIds]
      BY <2>2 DEF Registers
    <3> QED
      BY <2>1, <2>2, <3>1 DEF Registers, TablesType, Put
  <2>5. DOMAIN subs \subseteq DOMAIN subs'
    BY <2>2 DEF Registers, Put
  <2>6. fwd'[0] = fwd[0]
    BY <2>2, SMT DEF Registers, Goroutines, Conns
  <2>7. RunType'
    BY <2>1, <2>3, <2>5, <2>6 DEF RunType
  <2>8. \A h \in Goroutines : fwd'[h].st = "register" => fwd'[h] = fwd[h]
    BY <2>2, SMT DEF Registers
  <2>9. FwdType'
    BY <2>1, <2>2, <2>3, <2>8 DEF FwdType, Registers
  <2> QED
    BY <2>1, <2>3, <2>4, <2>7, <2>9, <1>ShapeNext, PartsStay
<1>WriteToClientShape. ASSUME Shape, NEW g \in Goroutines, WriteToClient(g) PROVE stuck' \in BOOLEAN => Shape'
  <2> USE <1>WriteToClientShape
  <2> USE DEF session, replay, user, log
  <2>1. TablesType /\ PendingType /\ RunType /\ FwdType /\ UserType /\ LogType /\ orphaned \in BOOLEAN
        /\ conn \in [Conns -> ConnRec]
    BY ShapeParts DEF LogType
  <2>2. fwd' = [fwd EXCEPT ![g] = Free] /\ Free \in Forwarding /\ Free.st = "free"
    BY DEF WriteToClient, Forwarding, Free
  <2>3. FwdType'
    BY <2>1, <2>2 DEF FwdType, WriteToClient
  <2>4. RunType'
    BY <2>1, <2>2 DEF FwdType, RunType, WriteToClient, Goroutines
  <2>5. UserType'
    BY <2>1 DEF UserType, WriteToClient, ClientRec
  <2> QED
    BY <2>1, <2>3, <2>4, <2>5, <1>ShapeNext, PartsStay DEF WriteToClient
<1>WriteToClientFailsShape. ASSUME Shape, NEW g \in Goroutines, WriteToClientFails(g) PROVE stuck' \in BOOLEAN => Shape'
  <2> USE <1>WriteToClientFailsShape
  <2>1. TablesType /\ PendingType /\ RunType /\ FwdType /\ UserType /\ LogType
    BY ShapeParts
  <2>2. /\ UNCHANGED <<cur, subs, upToClient, pending, waiting, buf, fromClient, ctxDone, notes, cancelled>>
        /\ client' = [client EXCEPT !.broken = TRUE] /\ orphaned' \in BOOLEAN
        /\ fwd' = [fwd EXCEPT ![g] = Free] /\ Free.st = "free" /\ Free \in Forwarding
        /\ conn' \in [Conns -> ConnRec]
    BY WriteToClientFailsDoes DEF SameTraffic
  <2>3. /\ g = 0 => pc \in {"flush", "pump"} /\ reader' = reader /\ pc' = IF pc = "flush" THEN "over" ELSE "connect"
        /\ g # 0 => g \in Conns /\ pc' = pc /\ reader' = [reader EXCEPT ![g] = "done"]
    BY WriteToClientFailsDoes
  <2>4. FwdType'
    BY <2>1, <2>2, <2>3 DEF FwdType
  <2>5. RunType'
    <3>1. CASE g = 0
      <4>1. fwd'[0].st = "free"
        BY <2>1, <2>2, <3>1 DEF FwdType
      <4> QED
        BY <2>1, <2>2, <2>3, <3>1, <4>1 DEF RunType
    <3>2. CASE g # 0
      <4>1. fwd'[0] = fwd[0]
        BY <2>1, <2>2, <3>2 DEF FwdType, Goroutines
      <4> QED
        BY <2>1, <2>2, <2>3, <3>2, <4>1 DEF RunType
    <3> QED
      BY <3>1, <3>2
  <2>6. UserType'
    BY <2>1, <2>2 DEF UserType, ClientRec
  <2> QED
    BY <2>1, <2>2, <2>4, <2>5, <2>6, <1>ShapeNext, PartsStay
<1>PumpRequestShape. ASSUME Shape, PumpRequest PROVE stuck' \in BOOLEAN => Shape'
  <2> USE <1>PumpRequestShape
  <2> DEFINE r == Head(fromClient)
  <2>1. TablesType /\ PendingType /\ RunType /\ FwdType /\ UserType /\ LogType
    BY ShapeParts
  <2>2. /\ pc = "pump" /\ fwd[0].st = "free" /\ cur \in Conns
        /\ fromClient # <<>> /\ r \in ClientFrames /\ fromClient' = Tail(fromClient) /\ Handles(r)
        /\ UNCHANGED <<cur, waiting, buf, reader, client, ctxDone, notes>> /\ orphaned' \in BOOLEAN
    BY PumpRequestDoes
  <2> HIDE DEF r
  <2>3. /\ pc' \in {pc, "connect"} /\ conn' \in [Conns -> ConnRec]
        /\ TablesType' /\ PendingType' /\ cancelled' \subseteq Ops
        /\ fwd' \in [Goroutines -> Forwarding]
        /\ \A g \in Goroutines : fwd'[g].st = "register" => fwd'[g] = fwd[g]
        /\ fwd' = fwd \/ pc' = pc
    BY <2>2, HandlesShape
  <2>4. waiting' = {} /\ waiting' \subseteq DOMAIN subs'
    BY <2>1, <2>2 DEF RunType
  <2>5. RunType'
    BY <2>1, <2>2, <2>3, <2>4 DEF RunType
  <2>6. FwdType'
    BY <2>1, <2>2, <2>3 DEF FwdType
  <2>7. fromClient' \in Seq(ClientFrames)
    BY <2>1, <2>2, SMT DEF UserType
  <2>8. UserType'
    BY <2>1, <2>2, <2>7 DEF UserType
  <2>9. LogType'
    BY <2>1, <2>2, <2>3 DEF LogType
  <2> QED
    BY <2>3, <2>5, <2>6, <2>8, <2>9, <1>ShapeNext
<1>EmptyHand.
    ASSUME NEW c \in ClientRec PROVE [c EXCEPT !.held = <<>>] \in ClientRec /\ Len([c EXCEPT !.held = <<>>].held) <= 1
  <2> USE <1>EmptyHand
  <2>1. <<>> \in Seq(ClientFrames) /\ Len(<<>>) <= 1
    BY SMT
  <2> DEFINE x == <<>>
  <2>2. x \in Seq(ClientFrames) /\ Len(x) <= 1
    BY <2>1
  <2> HIDE DEF x
  <2>3. [c EXCEPT !.held = x] \in ClientRec /\ [c EXCEPT !.held = x].held = x
    BY <2>2 DEF ClientRec
  <2> QED
    BY <2>2, <2>3 DEF x
<1>ClientSideShape. ASSUME Shape, ClientSide PROVE stuck' \in BOOLEAN => Shape'
  <2> USE <1>ClientSideShape
  <2> USE DEF run, session, replay, log
  <2>1. TablesType /\ PendingType /\ RunType /\ FwdType /\ UserType /\ LogType /\ orphaned \in BOOLEAN
        /\ conn \in [Conns -> ConnRec]
    BY ShapeParts DEF LogType
  <2>2. UNCHANGED <<pc, cur, subs, upToClient, pending, waiting, buf, reader, fwd, conn, notes, cancelled, orphaned>>
    BY DEF ClientSide, ReadClient, ClientReaderStep, EnqueueClient, AbandonClient, ReadClientFails, ClientTurns, CancelContext
  <2>3. UserType'
    <3>1. CASE ReadClient
      <4>1. PICK r \in ClientFrames : client' = [client EXCEPT !.sent = client.sent + 1, !.held = <<r>>] /\ client' \in ClientRec
        BY <3>1, ReadClientDoes
      <4>2. Len(client'.held) <= 1
        BY <2>1, <4>1, SMT DEF UserType, ClientRec
      <4> QED
        BY <2>1, <3>1, <4>1, <4>2 DEF UserType, ReadClient
    <3>2. CASE EnqueueClient
      <4>1. client.held \in Seq(ClientFrames) /\ fromClient \in Seq(ClientFrames)
        BY <2>1 DEF UserType, ClientRec
      <4>2. fromClient' \in Seq(ClientFrames)
        BY <3>2, <4>1, SMT DEF EnqueueClient
      <4>3. client' = [client EXCEPT !.held = <<>>] /\ client \in ClientRec /\ <<>> \in Seq(ClientFrames)
        BY <2>1, <3>2, SMT DEF UserType, EnqueueClient
      <4>4. client' \in ClientRec /\ Len(client'.held) <= 1
        BY <4>3, <1>EmptyHand
      <4> QED
        BY <2>1, <3>2, <4>2, <4>4 DEF UserType, EnqueueClient
    <3>3. CASE AbandonClient \/ ReadClientFails
      <4>1. client' \in ClientRec /\ Len(client'.held) <= 1
        <5>1. client \in ClientRec /\ <<>> \in Seq(ClientFrames) /\ Len(client.held) <= 1
          BY <2>1, SMT DEF UserType
        <5>2. CASE client' = [client EXCEPT !.held = <<>>, !.reader = "gone"]
          <6>1. [client EXCEPT !.reader = "gone"] \in ClientRec
            BY <5>1 DEF ClientRec
          <6>2. client' = [[client EXCEPT !.reader = "gone"] EXCEPT !.held = <<>>]
            BY <5>1, <5>2 DEF ClientRec
          <6> QED
            BY <6>1, <6>2, <1>EmptyHand
        <5>3. CASE client' = [client EXCEPT !.reader = "gone"]
          BY <5>1, <5>3 DEF ClientRec
        <5> QED
          BY <3>3, <5>2, <5>3 DEF AbandonClient, ReadClientFails
      <4> QED
        BY <2>1, <3>3, <4>1 DEF UserType, AbandonClient, ReadClientFails
    <3>4. CASE ClientTurns
      <4>1. PICK f \in ClientFaults : client' = [client EXCEPT !.state = f]
        BY <3>4 DEF ClientTurns
      <4>2. f \in {"stalled", "left"}
        BY SessionAssumption DEF SessionAssumption
      <4>3. client' \in ClientRec /\ Len(client'.held) <= 1
        BY <2>1, <4>1, <4>2 DEF UserType, ClientRec
      <4> QED
        BY <2>1, <3>4, <4>3 DEF UserType, ClientTurns
    <3>5. CASE CancelContext
      BY <2>1, <3>5 DEF UserType, CancelContext
    <3> QED
      BY <3>1, <3>2, <3>3, <3>4, <3>5 DEF ClientSide, ClientReaderStep
  <2>4. RunType'
    BY <2>1, <2>2 DEF RunType
  <2> QED
    BY <2>1, <2>2, <2>3, <2>4, <1>ShapeNext, PartsStay
<1>UpstreamShape. ASSUME Shape, NEW e \in Conns, Upstream(e) PROVE stuck' \in BOOLEAN => Shape'
  <2> USE <1>UpstreamShape
  <2> USE DEF upstreams, session, replay, user
  <2>1. TablesType /\ PendingType /\ RunType /\ FwdType /\ UserType /\ LogType
    BY ShapeParts
  <2>2. UNCHANGED <<pc, cur, subs, upToClient, pending, waiting, buf, reader, fwd, client, fromClient, ctxDone, cancelled, orphaned>>
    BY DEF Upstream, UpAnswer, UpNotify, UpFails
  <2>3. conn' \in [Conns -> ConnRec]
    BY UpAnswerDoes, UpNotifyDoes, UpFailsDoes DEF Upstream, Becomes, SameTraffic
  <2>4. notes' \in 0 .. MaxNotes
    <3>1. notes' = notes \/ (notes < MaxNotes /\ notes' = notes + 1)
      BY DEF Upstream, UpAnswer, UpNotify, UpFails
    <3> QED
      BY <2>1, <3>1, SessionAssumption, SMT DEF LogType, SessionAssumption
  <2>5. LogType'
    BY <2>1, <2>2, <2>4 DEF LogType
  <2>6. RunType'
    BY <2>1, <2>2 DEF RunType
  <2> QED
    BY <2>1, <2>2, <2>3, <2>5, <2>6, <1>ShapeNext, PartsStay
<1> SUFFICES ASSUME Shape, [Next]_vars PROVE Shape'
  OBVIOUS
<1>3. stuck' \in BOOLEAN
  BY StuckType
<1>1. CASE ReplayWriteFails \/ ReplayReadFails
  BY <1>1, <1>3, <1>FailReplayShape DEF ReplayWriteFails, ReplayReadFails
<1>2. CASE UNCHANGED vars
  BY <1>2, SMT DEF vars, session, replay, user, log, Shape, TypeOK
<1> QED
  BY <1>1, <1>2, <1>3, Steps, <1>WalksShape, <1>SendReplayShape, <1>ReadReplayShape, <1>FlushShape, <1>PumpRequestShape,
     <1>ReadUpstreamShape, <1>ReadUpstreamFailsShape, <1>RegisterShape, <1>WriteToClientShape, <1>WriteToClientFailsShape,
     <1>ClientSideShape, <1>UpstreamShape

LEMMA ShapeInvariance == Spec => []Shape
<1>InitShape. Init => Shape
  <2> SUFFICES ASSUME Init PROVE Shape
    OBVIOUS
  <2>1. TablesType /\ PendingType
    BY DEF Init, Empty, TablesType, PendingType
  <2>2. FwdType
    BY DEF Init, FwdType, Forwarding, Goroutines, Free
  <2>3. RunType
    BY SessionAssumption, SMT DEF Init, Empty, RunType, Goroutines, Free, SessionAssumption
  <2>4. UserType
    <3> DEFINE c == [state |-> "open", reader |-> "reading", held |-> <<>>,
                     broken |-> FALSE, sent |-> 0, known |-> {}]
    <3>1. c \in ClientRec /\ Len(c.held) <= 1
      BY SessionAssumption, SMT DEF ClientRec, SessionAssumption
    <3>2. client = c /\ fromClient = <<>> /\ ctxDone = FALSE
      BY DEF Init
    <3> HIDE DEF c
    <3>3. client \in ClientRec /\ fromClient \in Seq(ClientFrames) /\ Len(client.held) <= 1
      BY <3>1, <3>2, SMT
    <3>4. ctxDone \in BOOLEAN
      BY <3>2
    <3> QED
      BY <3>3, <3>4 DEF UserType
  <2>7. stuck \in BOOLEAN
    BY DEF Init
  <2>5. LogType
    <3>1. notes = 0 /\ cancelled = {} /\ orphaned = FALSE
      BY DEF Init
    <3>2. notes \in 0 .. MaxNotes /\ cancelled \subseteq Ops
      BY <3>1, SessionAssumption, SMT DEF SessionAssumption
    <3>3. orphaned \in BOOLEAN
      BY <3>1
    <3> QED
      BY <3>2, <3>3 DEF LogType
  <2>6. conn \in [Conns -> ConnRec]
    <3>1. NoConn \in ConnRec
      BY SMT DEF NoConn, ConnRec
    <3> QED
      BY <3>1 DEF Init
  <2> QED
    BY <2>1, <2>2, <2>3, <2>4, <2>5, <2>6, <2>7, ShapeParts
<1> QED
  BY <1>InitShape, NextShape, PTL DEF Spec

\* The variables of the session keep their types.
THEOREM TypeCorrect == Spec => []TypeOK
BY ShapeInvariance, PTL DEF Shape

-----------------------------------------------------------------------------
(***************************************************************************)
(* Which ids are on which connection.                                      *)
(***************************************************************************)
LEMMA PoppedDown ==
    ASSUME Shape, NEW e \in Conns, Popped(e), NEW d \in Conns
    PROVE  /\ conn'[d].asked = conn[d].asked /\ conn'[d].active = conn[d].active
           /\ d # e => conn'[d].down = conn[d].down
           /\ d = e => \A i \in 1 .. Len(conn'[e].down) :
                          i + 1 \in 1 .. Len(conn[e].down) /\ conn'[e].down[i] = conn[e].down[i + 1]
           /\ \A i \in 1 .. Len(conn'[d].down) :
                 \E j \in 1 .. Len(conn[d].down) : conn'[d].down[i] = conn[d].down[j]
           /\ 1 \in 1 .. Len(conn[e].down) /\ Head(conn[e].down) = conn[e].down[1]
<1>1. conn[e].down \in Seq(Frames) /\ conn[e].down # <<>> /\ conn'[e].down = Tail(conn[e].down)
  BY ConnType DEF Shape, Popped, ConnRec
<1>2. /\ conn'[d].asked = conn[d].asked /\ conn'[d].active = conn[d].active
      /\ d # e => conn'[d].down = conn[d].down
  BY DEF Popped
<1>3. \A i \in 1 .. Len(conn'[e].down) :
         i + 1 \in 1 .. Len(conn[e].down) /\ conn'[e].down[i] = conn[e].down[i + 1]
  BY <1>1, SMT
<1>4. 1 \in 1 .. Len(conn[e].down) /\ Head(conn[e].down) = conn[e].down[1]
  BY <1>1, SMT
<1>5. \A i \in 1 .. Len(conn'[d].down) : \E j \in 1 .. Len(conn[d].down) : conn'[d].down[i] = conn[d].down[j]
  BY <1>2, <1>3
<1> QED
  BY <1>2, <1>3, <1>4, <1>5

LEMMA AppendedDown ==
    ASSUME Shape, NEW e \in Conns, NEW asked, NEW active, NEW f \in Frames,
           Becomes(e, asked, active, Append(conn[e].down, f))
    PROVE  /\ Len(conn[e].down) \in Nat /\ Len(conn'[e].down) = Len(conn[e].down) + 1
           /\ conn'[e].down[Len(conn[e].down) + 1] = f
           /\ \A i \in 1 .. Len(conn'[e].down) :
                 i = Len(conn[e].down) + 1 \/ (i \in 1 .. Len(conn[e].down) /\ conn'[e].down[i] = conn[e].down[i])
<1>1. conn[e].down \in Seq(Frames) /\ conn'[e].down = Append(conn[e].down, f)
  BY ConnType DEF Shape, Becomes, ConnRec
<1> QED
  BY <1>1, SMT

\* The frames of a queue come from it or are f.
LEMMA AppendedFrames ==
    ASSUME Shape, NEW e \in Conns, NEW asked, NEW active, NEW f \in Frames,
           Becomes(e, asked, active, Append(conn[e].down, f)), NEW i \in 1 .. Len(conn'[e].down)
    PROVE  conn'[e].down[i] = f \/ \E j \in 1 .. Len(conn[e].down) : conn'[e].down[i] = conn[e].down[j]
BY AppendedDown

LEMMA WalksReader ==
    ASSUME Shape, Walks
    PROVE  /\ \/ ConnectUpstream /\ pc = "connect" /\ pc' = "replay" /\ reader' = reader
              \/ /\ ~ConnectUpstream /\ NothingToReplay /\ pc = "replay" /\ pc' = "pump" /\ cur \in Conns
                 /\ reader' = [reader EXCEPT ![cur] = "running"]
              \/ ~ConnectUpstream /\ pc' \in {"connect", "over", "wait_done", "returned"} /\ reader' = reader
              \/ ~ConnectUpstream /\ pc = "pump" /\ UNCHANGED <<pc, reader>>
           /\ MaxConns \in Nat /\ cur \in 0 .. MaxConns
<1>1. MaxConns \in Nat /\ cur \in 0 .. MaxConns /\ (pc = "replay" => cur \in Conns)
  BY SessionAssumption, SMT DEF Shape, TypeOK, Conns, SessionAssumption
<1> QED
  BY <1>1 DEF Walks, ConnectUpstream, NoUpstream, NothingToReplay, StartPump, PumpUpstreamDone, PumpEnds, Failover,
         Pumping, PingFails, afterPing, WaitDone, StuckWrite, Return

\* The id of an answer names the subscription that was replayed.
LEMMA RemapName ==
    ASSUME Shape, Wire, cur \in Conns, NEW f \in Frames, Popped(cur), Remaps(f)
    PROVE  f.val = SubId(cur, subs[f.id].k)
<1>1. f.t = "replayed" /\ f.id \in DOMAIN subs /\ f.val # NoVal /\ f = Head(conn[cur].down)
  BY RemapsTables DEF Remaps, accepted
<1>2. 1 \in 1 .. Len(conn[cur].down) /\ f = conn[cur].down[1]
  BY <1>1, PoppedDown
<1>3. SentOK(cur, f)
  BY <1>2 DEF Wire, WireOK
<1>4. PICK d \in Conns : \E k \in Ops : f.id = SubId(d, k) /\ f.val = SubId(cur, k)
  BY <1>1, <1>3 DEF SentOK
<1>5. PICK k \in Ops : f.id = SubId(d, k) /\ f.val = SubId(cur, k)
  BY <1>4
<1>6. PICK h \in Conns : f.id = SubId(h, subs[f.id].k)
  BY <1>1 DEF Wire, NamedOK
<1>7. subs[f.id].k \in Ops
  BY <1>1 DEF Shape, TypeOK
<1>8. k = subs[f.id].k
  BY <1>5, <1>6, <1>7, UniqueIds, SMT
<1> QED
  BY <1>5, <1>8

LEMMA AnswerSent ==
    ASSUME Shape, Wire, NEW e \in Conns, NEW r \in conn[e].asked, NEW ok \in BOOLEAN, ok => r.k # 0
    PROVE  /\ r \in Requests /\ Answer(e, r, ok) \in Frames /\ SentOK(e, Answer(e, r, ok))
           /\ Answer(e, r, ok).t = r.t /\ Answer(e, r, ok).id = r.id
           /\ Answer(e, r, ok).val = IF ok THEN SubId(e, r.k) ELSE NoVal
           /\ ok => Answer(e, r, ok).val # NoVal /\ r.k \in Ops
<1>1. r \in Requests
  BY ConnType DEF Shape, ConnRec
<1>2. ok => r.k \in Ops /\ SubId(e, r.k) \in SubIds
  BY <1>1, SMT DEF Requests, SubIds
<1>3. AskOK(r)
  BY DEF Wire, WireOK
<1>4. Answer(e, r, ok).t = r.t /\ Answer(e, r, ok).id = r.id /\ Answer(e, r, ok).val = IF ok THEN SubId(e, r.k) ELSE NoVal
  BY DEF Answer
<1>5. (IF ok THEN SubId(e, r.k) ELSE NoVal) \in SubIds \cup {NoVal}
  BY <1>2
<1>6. Answer(e, r, ok) \in Frames
  BY <1>1, <1>5 DEF Answer, Frames, Requests
<1>7. SentOK(e, Answer(e, r, ok))
  <2>1. CASE r.t = "resp"
    BY <1>2, <1>3, <1>4, <2>1 DEF SentOK, AskOK
  <2>2. CASE r.t = "replayed"
    <3>1. PICK d \in Conns : r.id = SubId(d, r.k)
      BY <1>3, <2>2 DEF AskOK
    <3>2. r.k \in Ops
      BY <1>1, <2>2 DEF Requests
    <3> QED
      BY <1>4, <2>2, <3>1, <3>2 DEF SentOK
  <2> QED
    BY <1>1, <2>1, <2>2 DEF Requests
<1>8. ok => Answer(e, r, ok).val # NoVal
  BY <1>2, <1>4, SessionAssumption DEF SessionAssumption
<1> QED
  BY <1>1, <1>2, <1>4, <1>6, <1>7, <1>8

LEMMA NextWire == Shape /\ Wire /\ [Next]_vars => Wire'
<1>WireNext.
    ASSUME \A e \in Conns : WireOK(e)', BufOK', \A g \in Goroutines : ClaimOK(g)',
           \A r \in DOMAIN pending' : pending'[r] = r, \A c \in DOMAIN subs' : NamedOK(c)'
    PROVE  Wire'
  BY <1>WireNext DEF Wire
<1>SameWire.
    ASSUME SameTraffic, Wire, NEW e \in Conns
    PROVE  /\ \A r \in conn'[e].asked : AskOK(r)
           /\ \A i \in 1 .. Len(conn'[e].down) : SentOK(e, conn'[e].down[i])
           /\ Fresh(e) => Fresh(e)'
           /\ Unasked(e) => Unasked(e)'
  BY <1>SameWire DEF SameTraffic, Wire, WireOK, Fresh, Unasked
<1>WalksWire. ASSUME Shape, Wire, Walks PROVE Wire'
  <2> USE <1>WalksWire
  <2>1. /\ SameTraffic
        /\ UNCHANGED <<subs, pending, buf, fwd>>
        /\ ConnectUpstream => cur' = cur + 1 /\ cur' \in Conns
        /\ ~ConnectUpstream => cur' = cur
    BY WalksDo
  <2>2. reader \in [Conns -> {"none", "running", "done"}]
    BY DEF Shape, TypeOK
  <2>3. ASSUME NEW e \in Conns PROVE WireOK(e)'
    <3>1. /\ \A r \in conn'[e].asked : AskOK(r)
          /\ \A i \in 1 .. Len(conn'[e].down) : SentOK(e, conn'[e].down[i])
          /\ Fresh(e) => Fresh(e)'
          /\ Unasked(e) => Unasked(e)'
      BY <2>1, <1>SameWire
    <3>2. WireOK(e) /\ e \in Nat
      BY SMT DEF Wire, Conns
    <3>3. Fresh(e) => Unasked(e)
      BY SMT DEF Fresh, Unasked
    <3>4. CASE ConnectUpstream
      <4>1. pc' = "replay" /\ reader' = reader /\ cur' = cur + 1 /\ cur \in Nat
        BY <2>1, <3>4, WalksReader, SMT
      <4>2. e > cur' \/ e = cur' => e > cur
        BY <3>2, <4>1, SMT
      <4> QED
        BY <2>1, <3>1, <3>2, <3>3, <4>1, <4>2 DEF WireOK
    <3>5. CASE NothingToReplay /\ ~ConnectUpstream
      <4>1. pc' = "pump" /\ reader' = [reader EXCEPT ![cur] = "running"] /\ cur' = cur /\ cur \in Conns
        BY <2>1, <3>5, WalksReader DEF NothingToReplay, StartPump
      <4>2. e # cur => reader'[e] = reader[e]
        BY <2>2, <4>1
      <4>3. e = cur => ~(e > cur)
        BY <3>2, SMT
      <4>4. reader'[cur] = "running"
        BY <2>2, <4>1
      <4> QED
        BY <2>1, <3>1, <3>2, <4>1, <4>2, <4>3, <4>4 DEF WireOK
    <3>6. CASE ~ConnectUpstream /\ pc' \in {"connect", "over", "wait_done", "returned"} /\ reader' = reader
      BY <2>1, <3>1, <3>2, <3>6 DEF WireOK
    <3>7. CASE ~ConnectUpstream /\ pc = "pump" /\ UNCHANGED <<pc, reader>>
      BY <2>1, <3>1, <3>2, <3>7 DEF WireOK
    <3> QED
      BY <3>4, <3>5, <3>6, <3>7, WalksReader
  <2>4. BufOK'
    <3>1. CASE ConnectUpstream
      <4>1. buf' = <<>>
        BY <2>1, <3>1 DEF ConnectUpstream, Shape
      <4> QED
        BY <4>1, SMT DEF BufOK
    <3>2. CASE ~ConnectUpstream
      BY <2>1, <3>2 DEF BufOK, Wire
    <3> QED
      BY <3>1, <3>2
  <2> QED
    BY <2>1, <2>3, <2>4, <1>WireNext DEF Wire, ClaimOK, NamedOK
\* Steps that move nothing on a connection and start no reader.
<1>QuietWire.
    ASSUME Wire, SameTraffic, UNCHANGED <<cur, subs, pending, reader>>,
           pc' = pc \/ pc' \notin {"replay", "read_replay", "flush"}, buf' = buf \/ buf' = <<>>,
           \A g \in Goroutines : \/ fwd'[g] = fwd[g]
                                 \/ fwd'[g].st # "register" /\ (g \in Conns => fwd'[g].st = "free")
    PROVE  Wire'
  <2> USE <1>QuietWire
  <2>1. ASSUME NEW e \in Conns PROVE WireOK(e)'
    <3>1. /\ \A r \in conn'[e].asked : AskOK(r)
          /\ \A i \in 1 .. Len(conn'[e].down) : SentOK(e, conn'[e].down[i])
          /\ Fresh(e) => Fresh(e)'
          /\ Unasked(e) => Unasked(e)'
      BY <1>SameWire
    <3>2. WireOK(e) /\ e \in Goroutines
      BY DEF Wire, Goroutines
    <3> QED
      BY <3>1, <3>2 DEF WireOK
  <2>2. BufOK'
    <3>1. CASE buf' = <<>>
      BY <3>1, SMT DEF BufOK
    <3>2. CASE buf' = buf
      BY <3>2 DEF BufOK, Wire
    <3> QED
      BY <3>1, <3>2
  <2>3. \A g \in Goroutines : ClaimOK(g)'
    BY DEF ClaimOK, Wire
  <2> QED
    BY <2>1, <2>2, <2>3, <1>WireNext DEF Wire, NamedOK
\* The reader of connection e ends.
<1>ReaderEndsWire.
    ASSUME Shape, Wire, SameTraffic, UNCHANGED <<cur, subs, pending, pc, buf>>,
           NEW e \in Conns, reader[e] = "running", reader' = [reader EXCEPT ![e] = "done"],
           fwd'[e].st = "free", \A g \in Goroutines \ {e} : fwd'[g] = fwd[g]
    PROVE  Wire'
  <2> USE <1>ReaderEndsWire
  <2>1. reader \in [Conns -> {"none", "running", "done"}]
    BY DEF Shape, TypeOK
  <2>2. ASSUME NEW d \in Conns PROVE WireOK(d)'
    <3>1. /\ \A r \in conn'[d].asked : AskOK(r)
          /\ \A i \in 1 .. Len(conn'[d].down) : SentOK(d, conn'[d].down[i])
          /\ Fresh(d) => Fresh(d)'
          /\ Unasked(d) => Unasked(d)'
      BY <1>SameWire
    <3>2. WireOK(d) /\ d \in Goroutines
      BY DEF Wire, Goroutines
    <3>3. d # e => reader'[d] = reader[d]
      BY <2>1
    <3>4. d = e => ~(d > cur) /\ ~(d = cur /\ pc \in {"replay", "read_replay", "flush"})
      BY <3>2 DEF WireOK
    <3> QED
      BY <3>1, <3>2, <3>3, <3>4 DEF WireOK
  <2>3. \A g \in Goroutines : ClaimOK(g)'
    BY DEF ClaimOK, Wire
  <2> QED
    BY <2>2, <2>3, <1>WireNext DEF Wire, NamedOK, BufOK
<1>SendReplayWire. ASSUME Shape, Wire, SendReplay PROVE Wire'
  <2> USE <1>SendReplayWire
  <2> DEFINE A == {[t |-> "replayed", id |-> c, k |-> subs[c].k] : c \in DOMAIN subs}
  <2>1. /\ pc = "replay" /\ pc' = "read_replay" /\ buf' = <<>>
        /\ UNCHANGED <<cur, subs, pending, reader, fwd>>
    BY DEF SendReplay, session
  <2>2. ASSUME NEW r \in A PROVE AskOK(r) /\ r.t # "resp"
    <3>1. PICK c \in DOMAIN subs : r = [t |-> "replayed", id |-> c, k |-> subs[c].k]
      OBVIOUS
    <3>2. \E d \in Conns : c = SubId(d, subs[c].k)
      BY DEF Wire, NamedOK
    <3> QED
      BY <3>1, <3>2 DEF AskOK
  <2> HIDE DEF A
  <2>3. ASSUME NEW e \in Conns PROVE WireOK(e)'
    <3>1. WireOK(e)
      BY DEF Wire
    <3>2. CASE SameTraffic
      <4>1. /\ \A r \in conn'[e].asked : AskOK(r)
            /\ \A i \in 1 .. Len(conn'[e].down) : SentOK(e, conn'[e].down[i])
            /\ Fresh(e) => Fresh(e)'
            /\ Unasked(e) => Unasked(e)'
        BY <3>2, <1>SameWire
      <4> QED
        BY <2>1, <3>1, <4>1 DEF WireOK
    <3>3. CASE Becomes(cur, A, conn[cur].active, conn[cur].down) /\ e # cur
      <4>1. conn'[e] = conn[e]
        BY <3>3 DEF Becomes
      <4> QED
        BY <2>1, <3>1, <3>3, <4>1 DEF WireOK, Fresh, Unasked
    <3>4. CASE Becomes(cur, A, conn[cur].active, conn[cur].down) /\ e = cur
      <4>1. conn'[e].asked = A /\ conn'[e].down = conn[e].down
        BY <3>4 DEF Becomes
      <4>2. ~(e > cur)
        BY <3>4, SMT DEF Conns
      <4> QED
        BY <2>1, <2>2, <3>1, <3>4, <4>1, <4>2 DEF WireOK, Unasked
    <3> QED
      BY <3>2, <3>3, <3>4, SendReplayDoes DEF A
  <2>4. BufOK'
    BY <2>1, SMT DEF BufOK
  <2> QED
    BY <2>1, <2>3, <2>4, <1>WireNext DEF Wire, NamedOK, ClaimOK
\* A frame is taken from connection e, by its reader or by replaySubscriptions.
<1>PoppedWire.
    ASSUME Shape, Wire, NEW e \in Conns, Popped(e), UNCHANGED <<cur, reader>>,
           pc' = pc \/ (pc = "read_replay" /\ pc' = "flush"),
           \A d \in Conns : fwd'[d].st = "free" \/ fwd'[d] = fwd[d] \/ reader[d] = "running",
           NEW d \in Conns
    PROVE  WireOK(d)'
  <2> USE <1>PoppedWire
  <2>1. /\ conn'[d].asked = conn[d].asked /\ conn'[d].active = conn[d].active
        /\ \A i \in 1 .. Len(conn'[d].down) : \E j \in 1 .. Len(conn[d].down) : conn'[d].down[i] = conn[d].down[j]
    BY PoppedDown
  <2>2. WireOK(d)
    BY DEF Wire
  <2>3. Fresh(d) => Fresh(d)'
    <3>1. SUFFICES ASSUME Fresh(d) PROVE Fresh(d)'
      OBVIOUS
    <3>2. d # e
      BY <3>1 DEF Fresh, Popped
    <3> QED
      BY <3>1, <3>2 DEF Popped, Fresh
  <2>4. Unasked(d) => Unasked(d)'
    BY <2>1 DEF Unasked
  <2>5. \A i \in 1 .. Len(conn'[d].down) : SentOK(d, conn'[d].down[i])
    BY <2>1, <2>2 DEF WireOK
  <2> QED
    BY <2>1, <2>2, <2>3, <2>4, <2>5 DEF WireOK
<1>StashWire.
    ASSUME Shape, Wire, cur \in Conns, NEW f \in Frames, Popped(cur), Stashes(f) PROVE Wire'
  <2> USE <1>StashWire
  <2>1. /\ pc = "read_replay" /\ f = Head(conn[cur].down) /\ buf' = stash(f)
        /\ UNCHANGED <<pc, cur, subs, pending, reader, fwd>>
    BY DEF Stashes, session
  <2>2. f.t # "resp" /\ SentOK(cur, f)
    <3>1. 1 \in 1 .. Len(conn[cur].down) /\ f = conn[cur].down[1]
      BY <2>1, PoppedDown
    <3> QED
      BY <2>1, <3>1 DEF Wire, WireOK, Unasked
  <2>3. BufOK'
    <3>1. buf \in Seq(Frames)
      BY DEF Shape, TypeOK
    <3>2. CASE buf' = buf
      BY <2>1, <3>2 DEF BufOK, Wire
    <3>3. CASE buf' = Append(buf, f)
      <4>1. \A i \in 1 .. Len(buf') : buf'[i] = f \/ (i \in 1 .. Len(buf) /\ buf'[i] = buf[i])
        BY <3>1, <3>3, SMT
      <4> QED
        BY <2>1, <2>2, <4>1 DEF BufOK, Wire
    <3> QED
      BY <2>1, <3>2, <3>3 DEF stash
  <2>4. \A d \in Conns : WireOK(d)'
    BY <2>1, <1>PoppedWire
  <2> QED
    BY <2>1, <2>3, <2>4, <1>WireNext DEF Wire, NamedOK, ClaimOK
<1>RemapWire.
    ASSUME Shape, Wire, cur \in Conns, NEW f \in Frames, Popped(cur), Remaps(f) PROVE Wire'
  <2> USE <1>RemapWire
  <2>1. /\ pc = "read_replay" /\ pc' \in {pc, "flush"}
        /\ UNCHANGED <<cur, pending, buf, reader, fwd>>
    BY DEF Remaps
  <2>2. \A d \in Conns : WireOK(d)'
    BY <2>1, <1>PoppedWire
  <2>3. f.val = SubId(cur, subs[f.id].k)
    BY RemapName
  <2>4. ASSUME NEW c \in DOMAIN subs' PROVE NamedOK(c)'
    <3>1. c \in DOMAIN subs /\ subs'[c].k = subs[c].k /\ subs'[c].up = IF c = f.id THEN f.val ELSE subs[c].up
      BY RemapsTables, SMT
    <3>2. NamedOK(c)
      BY <3>1 DEF Wire
    <3> QED
      BY <2>3, <3>1, <3>2 DEF NamedOK
  <2> QED
    BY <2>1, <2>2, <2>4, <1>WireNext DEF Wire, BufOK, ClaimOK
\* A frame that forwardToClient claims is a subscribe that connection g answered.
<1>ForwardsWire.
    ASSUME Shape, Wire, NEW g \in Goroutines, NEW f \in Frames, Forwards(g, f), f.t = "resp" => g \in Conns /\ SentOK(g, f)
    PROVE  /\ \A h \in Goroutines : ClaimOK(h)'
           /\ \A r \in DOMAIN pending' : pending'[r] = r
  <2> USE <1>ForwardsWire
  <2>1. \A r \in DOMAIN pending' : r \in DOMAIN pending /\ pending'[r] = pending[r]
    BY BeginForwardShape
  <2>2. ASSUME NEW h \in Goroutines PROVE ClaimOK(h)'
    <3>1. CASE h # g
      <4>1. fwd'[h] = fwd[h]
        BY <3>1 DEF Forwards
      <4> QED
        BY <4>1 DEF ClaimOK, Wire
    <3>2. CASE h = g /\ fwd'[g].st = "register"
      <4>1. f.t = "resp" /\ f.id \in DOMAIN pending /\ f.val \in SubIds
            /\ fwd'[g] = [st |-> "register", f |-> f, k |-> pending[f.id]]
        BY <3>2, SMT DEF Forwards
      <4>2. f.val # NoVal
        BY <4>1, SessionAssumption DEF SessionAssumption
      <4>3. f.val = SubId(g, f.id) /\ pending[f.id] = f.id /\ g # 0
        BY <4>1, <4>2, SMT DEF SentOK, Wire, Conns
      <4> QED
        BY <3>2, <4>1, <4>3, SMT DEF ClaimOK
    <3> QED
      BY <3>1, <3>2 DEF ClaimOK
  <2> QED
    BY <2>1, <2>2 DEF Wire
<1>ReadUpstreamWire. ASSUME Shape, Wire, NEW e \in Conns, ReadUpstream(e) PROVE Wire'
  <2> USE <1>ReadUpstreamWire
  <2> DEFINE f == Head(conn[e].down)
  <2>1. e \in Goroutines /\ f \in Frames /\ Popped(e) /\ Forwards(e, f)
    BY ReadUpstreamDoes
  <2>2. UNCHANGED <<pc, cur, subs, buf, reader>> /\ reader[e] = "running"
    BY DEF ReadUpstream, replay
  <2>3. 1 \in 1 .. Len(conn[e].down) /\ f = conn[e].down[1]
    BY <2>1, PoppedDown
  <2>4. SentOK(e, f)
    BY <2>3 DEF Wire, WireOK
  <2> HIDE DEF f
  <2>5. /\ \A h \in Goroutines : ClaimOK(h)'
        /\ \A r \in DOMAIN pending' : pending'[r] = r
    BY <2>1, <2>4, <1>ForwardsWire
  <2>6. \A d \in Conns : fwd'[d] = fwd[d] \/ reader[d] = "running"
    BY <2>1, <2>2 DEF Forwards, Goroutines
  <2>7. \A d \in Conns : WireOK(d)'
    BY <2>1, <2>2, <2>6, <1>PoppedWire
  <2> QED
    BY <2>2, <2>5, <2>7, <1>WireNext DEF Wire, BufOK, NamedOK
<1>FlushWire. ASSUME Shape, Wire, Flush PROVE Wire'
  <2> USE <1>FlushWire
  <2>1. /\ pc = "flush" /\ UNCHANGED <<cur, subs, conn>>
        /\ cur \in Conns /\ 0 \in Goroutines /\ buf \in Seq(Frames)
    BY FlushDoes DEF Flush, Shape, TypeOK
  <2>2. SameTraffic
    BY <2>1, UnchangedIsSame DEF Shape
  <2>3. CASE buf # <<>> /\ Head(buf) \in Frames /\ BeginForward(0, Head(buf)) /\ buf' = Tail(buf) /\ UNCHANGED <<pc, reader>>
    <3> DEFINE f == Head(buf)
    <3>1. f \in Frames /\ Forwards(0, f)
      BY <2>1, <2>3, BeginForwardDoes
    <3>2. f.t # "resp"
      BY <2>1, <2>3, SMT DEF Wire, BufOK
    <3> HIDE DEF f
    <3>3. /\ \A h \in Goroutines : ClaimOK(h)'
          /\ \A r \in DOMAIN pending' : pending'[r] = r
      BY <2>1, <3>1, <3>2, <1>ForwardsWire
    <3>4. \A i \in 1 .. Len(buf') : i + 1 \in 1 .. Len(buf) /\ buf'[i] = buf[i + 1]
      BY <2>1, <2>3, SMT
    <3>5. BufOK'
      BY <2>1, <3>4 DEF Wire, BufOK
    <3>6. ASSUME NEW e \in Conns PROVE WireOK(e)'
      <4>1. fwd'[e] = fwd[e]
        BY <3>1, SMT DEF Forwards, Goroutines, Conns
      <4> QED
        BY <2>1, <2>3, <4>1 DEF Wire, WireOK, Fresh, Unasked
    <3> QED
      BY <2>1, <3>3, <3>5, <3>6, <1>WireNext DEF Wire, NamedOK
  <2>4. CASE StartPump /\ UNCHANGED <<buf, fwd, pending>>
    <3>1. reader \in [Conns -> {"none", "running", "done"}] /\ reader' = [reader EXCEPT ![cur] = "running"] /\ pc' = "pump"
      BY <2>4 DEF Shape, TypeOK, StartPump
    <3>2. ASSUME NEW e \in Conns PROVE WireOK(e)'
      <4>1. e # cur => reader'[e] = reader[e]
        BY <3>1
      <4>2. e = cur => ~(e > cur) /\ reader'[e] = "running"
        BY <3>1, SMT DEF Conns
      <4> QED
        BY <2>1, <2>4, <3>1, <4>1, <4>2 DEF Wire, WireOK, Fresh
    <3> QED
      BY <2>1, <2>4, <3>2, <1>WireNext DEF Wire, NamedOK, BufOK, ClaimOK
  <2> QED
    BY <2>3, <2>4, FlushDoes
<1>RegisterWire. ASSUME Shape, Wire, NEW e \in Conns, Register(e) PROVE Wire'
  <2> USE <1>RegisterWire
  <2>1. /\ e \in Goroutines /\ UNCHANGED <<pc, cur, pending, buf, reader, conn>> /\ fwd[e].st = "register"
    BY DEF Register, replay, Goroutines
  <2>2. PICK id, k : id = fwd[e].f.val /\ k = fwd[e].k
    OBVIOUS
  <2>3. Registers(e, id, k)
    BY <2>1, <2>2, RegisterDoes
  <2>4. id = SubId(e, k)
    BY <2>1, <2>2 DEF Wire, ClaimOK
  <2>5. ASSUME NEW c \in DOMAIN subs' PROVE NamedOK(c)'
    <3>1. CASE c = id
      <4>1. subs'[c].k = k /\ subs'[c].up = id
        BY <2>3, <3>1 DEF Registers, Put
      <4> QED
        BY <2>4, <3>1, <4>1 DEF NamedOK
    <3>2. CASE c # id
      <4>1. c \in DOMAIN subs /\ subs'[c] = subs[c]
        BY <2>3, <3>2 DEF Registers, Put
      <4> QED
        BY <4>1 DEF NamedOK, Wire
    <3> QED
      BY <3>1, <3>2
  <2>6. \A g \in Goroutines : fwd'[g] = fwd[g] \/ (g = e /\ fwd'[g].st = "write")
    BY <2>3, SMT DEF Registers
  <2>7. \A g \in Goroutines : ClaimOK(g)'
    BY <2>6 DEF ClaimOK, Wire
  <2>8. ASSUME NEW d \in Conns PROVE WireOK(d)'
    <3>1. d \in Goroutines
      BY DEF Goroutines
    <3> QED
      BY <2>1, <2>6, <3>1 DEF Wire, WireOK, Fresh, Unasked
  <2> QED
    BY <2>1, <2>5, <2>7, <2>8, <1>WireNext DEF Wire, BufOK
\* pump writes to the current upstream.
<1>DeliversWire.
    ASSUME Shape, Wire, pc = "pump", cur \in Conns, NEW asked, NEW active, Delivers(asked, active),
           \A r \in asked : AskOK(r), UNCHANGED <<cur, reader>>, NEW e \in Conns, fwd'[e] = fwd[e]
    PROVE  WireOK(e)'
  <2> USE <1>DeliversWire
  <2>1. WireOK(e) /\ pc' \in {"pump", "connect"}
    BY DeliversShape DEF Wire
  <2>2. CASE SameTraffic
    BY <2>1, <2>2, <1>SameWire DEF WireOK
  <2>3. CASE Becomes(cur, asked, active, conn[cur].down) /\ e # cur
    <3>1. conn'[e] = conn[e]
      BY <2>3 DEF Becomes
    <3> QED
      BY <2>1, <2>3, <3>1 DEF WireOK, Fresh
  <2>4. CASE Becomes(cur, asked, active, conn[cur].down) /\ e = cur
    <3>1. conn'[e].asked = asked /\ conn'[e].down = conn[e].down
      BY <2>4 DEF Becomes
    <3>2. ~(e > cur)
      BY <2>4, SMT DEF Conns
    <3> QED
      BY <2>1, <2>4, <3>1, <3>2 DEF WireOK
  <2> QED
    BY <2>2, <2>3, <2>4 DEF Delivers
<1>PumpRequestWire. ASSUME Shape, Wire, PumpRequest PROVE Wire'
  <2> USE <1>PumpRequestWire
  <2> DEFINE r == Head(fromClient)
  <2>1. /\ pc = "pump" /\ cur \in Conns /\ r \in ClientFrames /\ Handles(r)
        /\ UNCHANGED <<cur, buf, reader>>
    BY PumpRequestDoes
  <2> HIDE DEF r
  <2>2. \A q \in conn[cur].asked : AskOK(q)
    BY <2>1 DEF Wire, WireOK
  <2>3. \A e \in Conns : e \in Goroutines
    BY DEF Goroutines
  <2>4. CASE r.id \in Ops /\ Rejects(r.id)
    BY <2>1, <2>4, <1>QuietWire, SMT DEF Rejects, Goroutines
  <2>5. CASE r.id \in Ops /\ Subscribes(r.id)
    <3>1. UNCHANGED <<subs, fwd>> /\ pending' = Put(pending, r.id, r.id)
          /\ Delivers(conn[cur].asked \cup {[t |-> "resp", id |-> r.id, k |-> r.id]}, conn[cur].active)
      BY <2>5 DEF Subscribes
    <3>2. AskOK([t |-> "resp", id |-> r.id, k |-> r.id])
      BY DEF AskOK
    <3>3. \A e \in Conns : WireOK(e)'
      BY <2>1, <2>2, <3>1, <3>2, <1>DeliversWire
    <3>4. \A q \in DOMAIN pending' : pending'[q] = q
      BY <3>1 DEF Put, Wire
    <3> QED
      BY <2>1, <3>1, <3>3, <3>4, <1>WireNext DEF Wire, BufOK, ClaimOK, NamedOK
  <2>6. CASE r.sid \in SubIds /\ Unsubscribes(r.sid)
    <3>1. UNCHANGED <<pending, fwd>> /\ \E active : Delivers(conn[cur].asked, active)
      BY <2>6 DEF Unsubscribes
    <3>2. \A e \in Conns : WireOK(e)'
      BY <2>1, <2>2, <3>1, <1>DeliversWire
    <3>3. \A c \in DOMAIN subs' : c \in DOMAIN subs /\ subs'[c] = subs[c]
      BY <2>6 DEF Unsubscribes, Drop, Restrict
    <3> QED
      BY <2>1, <3>1, <3>2, <3>3, <1>WireNext DEF Wire, BufOK, ClaimOK, NamedOK
  <2>7. CASE r.id \in Ops /\ Calls(r.id)
    <3>1. UNCHANGED <<subs, fwd, pending>>
          /\ Delivers(conn[cur].asked \cup {[t |-> "resp", id |-> r.id, k |-> 0]}, conn[cur].active)
      BY <2>7 DEF Calls
    <3>2. AskOK([t |-> "resp", id |-> r.id, k |-> 0])
      BY DEF AskOK
    <3>3. \A e \in Conns : WireOK(e)'
      BY <2>1, <2>2, <3>1, <3>2, <1>DeliversWire
    <3> QED
      BY <2>1, <3>1, <3>3, <1>WireNext DEF Wire, BufOK, ClaimOK, NamedOK
  <2> QED
    BY <2>1, <2>4, <2>5, <2>6, <2>7 DEF Handles
\* The upstream of connection e sends a frame.
<1>SendsWire.
    ASSUME Shape, Wire, NEW e \in Conns, NEW asked, NEW active, NEW f \in Frames,
           Becomes(e, asked, active, Append(conn[e].down, f)), asked \subseteq conn[e].asked,
           SentOK(e, f), ~Fresh(e), f.t = "resp" => ~Unasked(e),
           UNCHANGED <<pc, cur, subs, pending, buf, reader, fwd>>
    PROVE  Wire'
  <2> USE <1>SendsWire
  <2>1. ASSUME NEW d \in Conns PROVE WireOK(d)'
    <3>1. CASE d # e
      <4>1. conn'[d] = conn[d]
        BY <3>1 DEF Becomes
      <4> QED
        BY <4>1 DEF Wire, WireOK, Fresh, Unasked
    <3>2. CASE d = e
      <4>1. conn'[e].asked = asked /\ WireOK(e)
        BY DEF Becomes, Wire
      <4>2. \A i \in 1 .. Len(conn'[e].down) :
               conn'[e].down[i] = f \/ \E j \in 1 .. Len(conn[e].down) : conn'[e].down[i] = conn[e].down[j]
        BY AppendedFrames
      <4>3. \A i \in 1 .. Len(conn'[e].down) : SentOK(e, conn'[e].down[i])
        BY <4>1, <4>2 DEF WireOK
      <4>4. Unasked(e) => Unasked(e)'
        BY <4>1, <4>2 DEF Unasked
      <4> QED
        BY <3>2, <4>1, <4>3, <4>4 DEF WireOK
    <3> QED
      BY <3>1, <3>2
  <2> QED
    BY <2>1, <1>WireNext DEF Wire, BufOK, ClaimOK, NamedOK
<1>UpstreamWire. ASSUME Shape, Wire, NEW e \in Conns, Upstream(e) PROVE Wire'
  <2> USE <1>UpstreamWire
  <2>1. UNCHANGED <<pc, cur, subs, pending, buf, reader, fwd>>
    BY DEF Upstream, UpAnswer, UpNotify, UpFails, upstreams, session, replay
  <2>2. CASE UpAnswer(e)
    <3>1. PICK r \in conn[e].asked, ok \in BOOLEAN :
                /\ ok => r.k # 0
                /\ Becomes(e, conn[e].asked \ {r}, IF ok THEN conn[e].active \cup {r.k} ELSE conn[e].active,
                           Append(conn[e].down, Answer(e, r, ok)))
      BY <2>2, UpAnswerDoes DEF Answer
    <3>2. /\ Answer(e, r, ok) \in Frames /\ SentOK(e, Answer(e, r, ok)) /\ Answer(e, r, ok).t = r.t
      BY <3>1, AnswerSent
    <3>3. ~Fresh(e) /\ (r.t = "resp" => ~Unasked(e))
      BY DEF Fresh, Unasked
    <3> QED
      BY <2>1, <3>1, <3>2, <3>3, <1>SendsWire
  <2>3. CASE UpNotify(e)
    <3>1. PICK k \in Ops :
                /\ k \in conn[e].active \/ \E r \in conn[e].asked : r.k = k
                /\ Becomes(e, conn[e].asked, conn[e].active \cup {k}, Append(conn[e].down, Note(SubId(e, k), k)))
      BY <2>3, UpNotifyDoes
    <3>2. Note(SubId(e, k), k) \in Frames /\ SentOK(e, Note(SubId(e, k), k)) /\ Note(SubId(e, k), k).t = "note"
      BY SMT DEF Note, Frames, SubIds, SentOK
    <3>3. ~Fresh(e)
      BY <3>1 DEF Fresh
    <3> QED
      BY <2>1, <3>1, <3>2, <3>3, <1>SendsWire
  <2>4. CASE UpFails(e)
    BY <2>1, <2>4, UpFailsDoes, <1>QuietWire
  <2> QED
    BY <2>2, <2>3, <2>4 DEF Upstream
<1> SUFFICES ASSUME Shape, Wire, [Next]_vars PROVE Wire'
  OBVIOUS
<1>1. ASSUME pc \in {"replay", "read_replay"}, FailReplay PROVE Wire'
  <2>1. SameTraffic
    BY <1>1, FailReplayDoes
  <2> QED
    BY <1>1, <2>1, <1>QuietWire DEF FailReplay, session
<1>2. CASE ReplayWriteFails \/ ReplayReadFails
  BY <1>1, <1>2 DEF ReplayWriteFails, ReplayReadFails
<1>3. CASE ReadReplay
  BY <1>1, <1>3, ReadReplayDoes, <1>StashWire, <1>RemapWire
<1>4. ASSUME NEW e \in Conns, ReadUpstreamFails(e) PROVE Wire'
  <2>1. UNCHANGED <<pc, cur, subs, pending, buf, fwd, conn>> /\ fwd[e].st = "free" /\ reader[e] = "running"
        /\ reader' = [reader EXCEPT ![e] = "done"]
    BY <1>4 DEF ReadUpstreamFails, session, replay
  <2>2. SameTraffic
    BY <2>1, UnchangedIsSame DEF Shape
  <2> QED
    BY <2>1, <2>2, <1>ReaderEndsWire
<1>5. ASSUME NEW g \in Goroutines, WriteToClient(g) PROVE Wire'
  <2>1. UNCHANGED <<pc, cur, subs, pending, buf, reader, conn>> /\ fwd' = [fwd EXCEPT ![g] = Free]
    BY <1>5 DEF WriteToClient, session, replay
  <2>2. SameTraffic
    BY <2>1, UnchangedIsSame DEF Shape
  <2>3. \A h \in Goroutines : fwd'[h] = fwd[h] \/ fwd'[h].st = "free"
    BY <2>1, ShapeParts DEF FwdType, Free
  <2> QED
    BY <2>1, <2>2, <2>3, <1>QuietWire
<1>6. ASSUME NEW g \in Goroutines, WriteToClientFails(g) PROVE Wire'
  <2>1. /\ SameTraffic
        /\ fwd' = [fwd EXCEPT ![g] = Free] /\ Free.st = "free"
        /\ UNCHANGED <<cur, subs, pending, buf>>
        /\ g = 0 => reader' = reader /\ pc' \in {"over", "connect"}
        /\ g # 0 => g \in Conns /\ pc' = pc /\ reader' = [reader EXCEPT ![g] = "done"]
    BY <1>6, WriteToClientFailsDoes
  <2>2. fwd'[g].st = "free" /\ \A h \in Goroutines \ {g} : fwd'[h] = fwd[h]
    BY <2>1, ShapeParts DEF FwdType
  <2>3. CASE g = 0
    BY <2>1, <2>2, <2>3, <1>QuietWire
  <2>4. CASE g # 0
    <3>1. reader[g] = "running" /\ g \in Conns
      BY <1>6, <2>1, <2>4 DEF Wire, WireOK, WriteToClientFails
    <3> QED
      BY <2>1, <2>2, <2>4, <3>1, <1>ReaderEndsWire
  <2> QED
    BY <2>3, <2>4
<1>7. CASE ClientSide \/ UNCHANGED vars
  <2>1. UNCHANGED <<pc, cur, subs, pending, buf, reader, fwd, conn>>
    BY <1>7 DEF ClientSide, ReadClient, ClientReaderStep, EnqueueClient, AbandonClient, ReadClientFails, ClientTurns,
                CancelContext, run, vars, session, replay
  <2>2. SameTraffic
    BY <2>1, UnchangedIsSame DEF Shape
  <2> QED
    BY <2>1, <2>2, <1>QuietWire
<1> QED
  BY <1>2, <1>3, <1>4, <1>5, <1>6, <1>7, Steps, <1>WalksWire, <1>SendReplayWire, <1>FlushWire, <1>PumpRequestWire,
     <1>ReadUpstreamWire, <1>RegisterWire, <1>UpstreamWire

LEMMA WireInvariance == Spec => []Wire
<1>InitWire. Init => Wire
  <2> SUFFICES ASSUME Init PROVE Wire
    OBVIOUS
  <2>1. /\ conn = [e \in Conns |-> NoConn] /\ fwd = [g \in {0} \cup Conns |-> Free] /\ reader = [e \in Conns |-> "none"]
        /\ buf = <<>> /\ pending = Empty /\ subs = Empty /\ pc = "connect" /\ cur = 0
    BY DEF Init
  <2>2. \A e \in Conns : conn[e].asked = {} /\ conn[e].down = <<>> /\ conn[e].active = {} /\ Len(conn[e].down) = 0
    BY <2>1 DEF NoConn
  <2>3. \A g \in Goroutines : fwd[g].st = "free"
    BY <2>1 DEF Goroutines, Free
  <2>4. \A e \in Conns : WireOK(e)
    BY <2>1, <2>2, <2>3, SMT DEF WireOK, Fresh, Unasked, Goroutines
  <2>5. BufOK
    BY <2>1, SMT DEF BufOK
  <2>6. \A g \in Goroutines : ClaimOK(g)
    BY <2>3 DEF ClaimOK
  <2>7. DOMAIN pending = {} /\ DOMAIN subs = {}
    BY <2>1 DEF Empty
  <2> QED
    BY <2>4, <2>5, <2>6, <2>7 DEF Wire
<1> QED
  BY <1>InitWire, NextWire, ShapeInvariance, PTL DEF Spec

-----------------------------------------------------------------------------
(***************************************************************************)
(* Where the requests of the client are.                                   *)
(***************************************************************************)

LEMMA TrackedStays ==
    SameTracked /\ UNCHANGED cancelled => \A k \in Ops : (Tracked(k)' <=> Tracked(k)) /\ (Kept(k)' <=> Kept(k))
BY DEF SameTracked, Tracked, Kept

LEMMA RegisterTokens ==
    ASSUME Shape, Wire, Tokens, NEW e \in Conns, Register(e)
    PROVE  /\ PlaceOK' /\ KeptOK' /\ PendingOK' /\ \A k \in Ops : Used(k)' => Used(k)
           /\ fwd[e].f.val \notin DOMAIN subs /\ \A c \in DOMAIN subs : subs[c].k # fwd[e].k
<1>1. e \in Goroutines /\ UNCHANGED <<pending, conn, cancelled>> /\ fwd[e].st = "register"
  BY DEF Register, log, Goroutines
<1>2. PICK id, k : id = fwd[e].f.val /\ k = fwd[e].k
  OBVIOUS
<1>3. Registers(e, id, k) /\ k \in Ops
  BY <1>1, <1>2, RegisterDoes DEF Registers
<1>4. Claimed(e, k)
  BY <1>1, <1>2 DEF Claimed
<1>5. InFlight(k) /\ ~Kept(k)
  BY <1>1, <1>3, <1>4 DEF InFlight, Tokens, KeptOK
<1>6. \A c \in DOMAIN subs : subs[c].k # k
  BY <1>5 DEF Kept, Tracked
<1>7. id \notin DOMAIN subs
  <2>1. id = SubId(e, k)
    BY <1>1, <1>2 DEF Wire, ClaimOK
  <2>2. SUFFICES ASSUME id \in DOMAIN subs PROVE FALSE
    OBVIOUS
  <2>3. PICK d \in Conns : id = SubId(d, subs[id].k)
    BY <2>2 DEF Wire, NamedOK
  <2>4. subs[id].k \in Ops
    BY <2>2 DEF Shape, TypeOK
  <2> QED
    BY <1>3, <1>6, <2>1, <2>2, <2>3, <2>4, UniqueIds, SMT
<1>8. /\ DOMAIN subs' = DOMAIN subs \cup {id} /\ subs'[id].k = k
      /\ \A c \in DOMAIN subs : subs'[c] = subs[c]
  BY <1>3, <1>7 DEF Registers, Put
<1>9. \A j : (Tracked(j)' => Tracked(j) \/ j = k) /\ (Kept(j)' => Kept(j) \/ j = k) /\ (Kept(j) => Kept(j)')
  BY <1>1, <1>8 DEF Tracked, Kept
<1>10. \A g \in Goroutines, j \in Ops : Claimed(g, j)' => Claimed(g, j) /\ g # e
  BY <1>3, SMT DEF Registers, Claimed
<1>11. /\ \A d \in Conns, j \in Ops : (Asks(d, j)' <=> Asks(d, j)) /\ (Told(d, j)' <=> Told(d, j))
  BY <1>1 DEF Asks, Told, ToldAt
<1>12. PlaceOK'
  <2>1. OneAsk'
    BY <1>1 DEF Tokens, PlaceOK, OneAsk
  <2>2. ASSUME NEW d \in Conns, NEW b \in Conns, NEW i \in 1 .. Len(conn'[d].down), NEW j \in 1 .. Len(conn'[b].down),
               NEW m \in Ops, ToldAt(d, i, m)', ToldAt(b, j, m)'
        PROVE  d = b /\ i = j
    <3>1. /\ i \in 1 .. Len(conn[d].down) /\ ToldAt(d, i, m)
          /\ j \in 1 .. Len(conn[b].down) /\ ToldAt(b, j, m)
      BY <1>1, <2>2 DEF ToldAt
    <3> QED
      BY <3>1 DEF Tokens, PlaceOK, OneTold
  <2>3. AskedOrTold'
    BY <1>11 DEF Tokens, PlaceOK, AskedOrTold
  <2>4. ClaimedOnly'
    BY <1>10, <1>11 DEF Tokens, PlaceOK, ClaimedOnly
  <2>5. OneClaim'
    BY <1>10 DEF Tokens, PlaceOK, OneClaim
  <2>6. OneTold'
    BY <2>2 DEF OneTold
  <2> QED
    BY <2>1, <2>3, <2>4, <2>5, <2>6 DEF PlaceOK
<1>13. \A j \in Ops : InFlight(j)' => InFlight(j) /\ j # k
  <2>1. SUFFICES ASSUME NEW j \in Ops, InFlight(j)' PROVE InFlight(j) /\ j # k
    OBVIOUS
  <2>2. CASE \E d \in Conns : Asks(d, j)' \/ Told(d, j)'
    BY <1>1, <1>3, <1>4, <1>11, <2>2 DEF InFlight, Tokens, PlaceOK, ClaimedOnly
  <2>3. CASE \E g \in Goroutines : Claimed(g, j)'
    BY <1>1, <1>3, <1>4, <1>10, <2>3 DEF InFlight, Tokens, PlaceOK, OneClaim
  <2> QED
    BY <2>1, <2>2, <2>3 DEF InFlight
<1>14. KeptOK'
  <2>1. \A j \in Ops : ~(Kept(j)' /\ InFlight(j)')
    BY <1>9, <1>13 DEF Tokens, KeptOK
  <2>2. \A j \in Ops : ~(Tracked(j)' /\ j \in cancelled')
    BY <1>1, <1>5, <1>9 DEF Tokens, KeptOK, Kept
  <2>3. \A c, d \in DOMAIN subs' : subs'[c].k = subs'[d].k => c = d
    BY <1>6, <1>8 DEF Tokens, KeptOK
  <2>4. \A b \in Conns : \A r \in conn'[b].asked : r.t = "replayed" => Kept(r.k)'
    BY <1>1, <1>9 DEF Tokens, KeptOK
  <2> QED
    BY <2>1, <2>2, <2>3, <2>4 DEF KeptOK
<1>15. PendingOK'
  BY <1>1 DEF Tokens, PendingOK
<1>16. Used(k)
  BY <1>5 DEF Used
<1>17. \A j \in Ops : Used(j)' => Used(j)
  BY <1>1, <1>9, <1>13, <1>16 DEF Used
<1> QED
  BY <1>2, <1>6, <1>7, <1>12, <1>14, <1>15, <1>17

\* The frames of the client on their way to pump.
LEMMA QueueType ==
    Shape => /\ Queue \in Seq(ClientFrames) /\ Len(Queue) = Len(fromClient) + Len(client.held)
             /\ \A i \in 1 .. Len(Queue) : Queue[i] \in ClientFrames /\ (Numbered(i) => Queue[i].id \in Nat)
             /\ client.sent \in Nat /\ client.held \in Seq(ClientFrames) /\ fromClient \in Seq(ClientFrames)
<1> SUFFICES ASSUME Shape
             PROVE  /\ Queue \in Seq(ClientFrames) /\ Len(Queue) = Len(fromClient) + Len(client.held)
                    /\ \A i \in 1 .. Len(Queue) : Queue[i] \in ClientFrames /\ (Numbered(i) => Queue[i].id \in Nat)
                    /\ client.sent \in Nat /\ client.held \in Seq(ClientFrames) /\ fromClient \in Seq(ClientFrames)
  OBVIOUS
<1>1. client.held \in Seq(ClientFrames) /\ fromClient \in Seq(ClientFrames) /\ client.sent \in Nat
  BY ShapeParts, SessionAssumption, SMT DEF UserType, ClientRec, SessionAssumption
<1>2. Queue \in Seq(ClientFrames) /\ Len(Queue) = Len(fromClient) + Len(client.held)
  BY <1>1, SMT DEF Queue
<1>3. \A r \in ClientFrames : r.op # "unsub" => r.id \in Nat
  BY SMT DEF ClientFrames, Ops
<1>4. \A i \in 1 .. Len(Queue) : Queue[i] \in ClientFrames
  BY <1>2, SMT
<1> QED
  BY <1>1, <1>2, <1>3, <1>4 DEF Numbered

LEMMA QueueHead ==
    ASSUME Shape, QueueOK, fromClient # <<>>
    PROVE  /\ Queue[1] = Head(fromClient) /\ 1 \in 1 .. Len(Queue)
           /\ Numbered(1) => \A k \in Ops : Used(k) => k # Head(fromClient).id
           /\ ~Numbered(1) => Head(fromClient).sid \in client.known
<1>1. /\ Queue \in Seq(ClientFrames) /\ Len(Queue) = Len(fromClient) + Len(client.held)
      /\ \A i \in 1 .. Len(Queue) : Queue[i] \in ClientFrames /\ (Numbered(i) => Queue[i].id \in Nat)
      /\ client.sent \in Nat /\ client.held \in Seq(ClientFrames) /\ fromClient \in Seq(ClientFrames)
  BY QueueType
<1>2. Queue[1] = Head(fromClient) /\ 1 \in 1 .. Len(Queue)
  BY <1>1, SMT DEF Queue
<1>3. \A k \in Ops : k \in Nat
  BY SMT DEF Ops
<1> QED
  BY <1>1, <1>2, <1>3, SMT DEF QueueOK

LEMMA NextTokens == Shape /\ Wire /\ Tokens /\ [Next]_vars => Tokens'
<1>DriftsMoves.
    ASSUME NEW n \in [Conns -> Nat], Drifts(n)
    PROVE  /\ \A d \in Conns : \A r \in conn'[d].asked : r.t = "resp" => r \in conn[d].asked
           /\ \A d \in Conns, k \in Ops : Asks(d, k)' => Asks(d, k)
           /\ \A d \in Conns, k \in Ops : \A i \in 1 .. Len(conn'[d].down) :
                 ToldAt(d, i, k)' => i + n[d] \in 1 .. Len(conn[d].down) /\ ToldAt(d, i + n[d], k)
           /\ \A d \in Conns, k \in Ops : Told(d, k)' => Told(d, k)
  <2> USE <1>DriftsMoves
  <2>1. \A d \in Conns : \A r \in conn'[d].asked : r.t = "resp" => r \in conn[d].asked
    BY DEF Drifts
  <2>2. \A d \in Conns, k \in Ops : Asks(d, k)' => Asks(d, k)
    BY <2>1 DEF Asks
  <2>3. \A d \in Conns, k \in Ops : \A i \in 1 .. Len(conn'[d].down) :
           ToldAt(d, i, k)' => i + n[d] \in 1 .. Len(conn[d].down) /\ ToldAt(d, i + n[d], k)
    BY DEF Drifts, ToldAt
  <2>4. \A d \in Conns, k \in Ops : Told(d, k)' => Told(d, k)
    BY <2>3 DEF Told
  <2> QED
    BY <2>1, <2>2, <2>3, <2>4
<1>ClaimsMove.
    FewerClaims => \A g \in Goroutines, k \in Ops : Claimed(g, k)' => Claimed(g, k)
  BY DEF FewerClaims, Claimed
<1>DriftTold.
    ASSUME OneTold, NEW n \in [Conns -> Nat], Drifts(n)
    PROVE  OneTold'
  <2> SUFFICES ASSUME NEW d \in Conns, NEW e \in Conns, NEW i \in 1 .. Len(conn'[d].down), NEW j \in 1 .. Len(conn'[e].down),
                      NEW k \in Ops, ToldAt(d, i, k)', ToldAt(e, j, k)'
               PROVE  d = e /\ i = j
    BY DEF OneTold
  <2>1. /\ i + n[d] \in 1 .. Len(conn[d].down) /\ ToldAt(d, i + n[d], k)
        /\ j + n[e] \in 1 .. Len(conn[e].down) /\ ToldAt(e, j + n[e], k)
    BY <1>DriftTold, <1>DriftsMoves
  <2>2. d = e /\ i + n[d] = j + n[e]
    BY <1>DriftTold, <2>1 DEF OneTold
  <2>3. i \in Int /\ j \in Int /\ n[d] \in Nat
    BY PositionsAreInts
  <2> QED
    BY <2>2, <2>3, SameShift
<1>DriftPlaces.
    ASSUME PlaceOK, NEW n \in [Conns -> Nat], Drifts(n), FewerClaims
    PROVE  PlaceOK'
  <2> USE <1>DriftPlaces
  <2>1. /\ \A d \in Conns : \A r \in conn'[d].asked : r.t = "resp" => r \in conn[d].asked
        /\ \A d \in Conns, k \in Ops : Asks(d, k)' => Asks(d, k)
        /\ \A d \in Conns, k \in Ops : Told(d, k)' => Told(d, k)
    BY <1>DriftsMoves
  <2>2. \A g \in Goroutines, k \in Ops : Claimed(g, k)' => Claimed(g, k)
    BY <1>ClaimsMove
  <2>3. OneAsk'
    BY <2>1, SMT DEF PlaceOK, OneAsk
  <2>4. AskedOrTold'
    BY <2>1 DEF PlaceOK, AskedOrTold
  <2>6. ClaimedOnly'
    BY <2>1, <2>2 DEF PlaceOK, ClaimedOnly
  <2>7. OneClaim'
    BY <2>2 DEF PlaceOK, OneClaim
  <2>8. OneTold'
    BY <1>DriftTold DEF PlaceOK
  <2> QED
    BY <2>3, <2>4, <2>6, <2>7, <2>8 DEF PlaceOK
<1>DriftTokens.
    ASSUME Tokens, NEW n \in [Conns -> Nat], Drifts(n), SameTracked, FewerClaims, UNCHANGED <<pending, cancelled>>,
           Shape
    PROVE  PlaceOK' /\ KeptOK' /\ PendingOK' /\ \A k \in Ops : Used(k)' => Used(k)
  <2> USE <1>DriftTokens
  <2>1. /\ \A d \in Conns : \A r \in conn'[d].asked : r.t = "resp" => r \in conn[d].asked
        /\ \A d \in Conns, k \in Ops : Asks(d, k)' => Asks(d, k)
        /\ \A d \in Conns, k \in Ops : Told(d, k)' => Told(d, k)
    BY <1>DriftsMoves
  <2>2. \A g \in Goroutines, k \in Ops : Claimed(g, k)' => Claimed(g, k)
    BY <1>ClaimsMove
  <2>3. \A k \in Ops : (Tracked(k)' <=> Tracked(k)) /\ (Kept(k)' <=> Kept(k))
    BY TrackedStays
  <2>4. \A k \in Ops : InFlight(k)' => InFlight(k)
    BY <2>1, <2>2 DEF InFlight
  <2>5. KeptOK'
    <3>1. \A k \in Ops : ~(Kept(k)' /\ InFlight(k)') /\ ~(Tracked(k)' /\ k \in cancelled')
      BY <2>3, <2>4 DEF Tokens, KeptOK
    <3>2. \A c, d \in DOMAIN subs' : subs'[c].k = subs'[d].k => c = d
      BY DEF SameTracked, Tokens, KeptOK
    <3>3. ASSUME NEW e \in Conns, NEW r \in conn'[e].asked, r.t = "replayed" PROVE Kept(r.k)'
      <4>1. r \in conn[e].asked \/ Tracked(r.k)
        BY <3>3 DEF Drifts
      <4>2. Kept(r.k)
        BY <3>3, <4>1 DEF Tokens, KeptOK, Kept
      <4> QED
        BY <4>2 DEF Kept, Tracked, SameTracked
    <3> QED
      BY <3>1, <3>2, <3>3 DEF KeptOK
  <2>6. PendingOK'
    <3>1. \A e \in Conns : \A r \in conn'[e].asked : r.t = "resp" /\ r.k # 0 => r.id \in DOMAIN pending'
      BY <2>1 DEF Tokens, PendingOK
    <3>2. \A e \in Conns : \A i \in 1 .. Len(conn'[e].down) :
            conn'[e].down[i].t = "resp" /\ conn'[e].down[i].val # NoVal => conn'[e].down[i].id \in DOMAIN pending'
      <4> SUFFICES ASSUME NEW e \in Conns, NEW i \in 1 .. Len(conn'[e].down),
                          conn'[e].down[i].t = "resp", conn'[e].down[i].val # NoVal
                   PROVE  conn'[e].down[i].id \in DOMAIN pending
        OBVIOUS
      <4>1. PICK j \in 1 .. Len(conn[e].down) : conn'[e].down[i] = conn[e].down[j]
        BY DEF Drifts
      <4> QED
        BY <4>1 DEF Tokens, PendingOK
    <3> QED
      BY <3>1, <3>2 DEF PendingOK
  <2>7. \A k \in Ops : Used(k)' => Used(k)
    BY <2>3, <2>4 DEF Used
  <2> QED
    BY <2>5, <2>6, <2>7, <1>DriftPlaces DEF Tokens
<1>SameDrifts. SameTraffic => [d \in Conns |-> 0] \in [Conns -> Nat] /\ Drifts([d \in Conns |-> 0])
  <2> DEFINE n == [d \in Conns |-> 0]
  <2> SUFFICES ASSUME SameTraffic PROVE n \in [Conns -> Nat] /\ Drifts(n)
    OBVIOUS
  <2>1. n \in [Conns -> Nat] /\ \A d \in Conns : n[d] = 0
    OBVIOUS
  <2> HIDE DEF n
  <2>2. \A d \in Conns : conn'[d].asked = conn[d].asked /\ conn'[d].down = conn[d].down
    BY DEF SameTraffic
  <2> QED
    BY <2>1, <2>2, SMT DEF Drifts
<1>PoppedDrifts.
    ASSUME Shape, NEW e \in Conns, Popped(e)
    PROVE  \E n \in [Conns -> Nat] : Drifts(n) /\ n[e] = 1
  <2> USE <1>PoppedDrifts
  <2> DEFINE n == [d \in Conns |-> IF d = e THEN 1 ELSE 0]
  <2>1. n \in [Conns -> Nat] /\ n[e] = 1 /\ \A d \in Conns : d # e => n[d] = 0
    OBVIOUS
  <2> HIDE DEF n
  <2>2. ASSUME NEW d \in Conns
        PROVE  /\ conn'[d].asked = conn[d].asked
               /\ \A i \in 1 .. Len(conn'[d].down) :
                    i + n[d] \in 1 .. Len(conn[d].down) /\ conn'[d].down[i] = conn[d].down[i + n[d]]
    <3>1. conn'[d].asked = conn[d].asked
      BY PoppedDown
    <3>2. CASE d = e
      <4>1. \A i \in 1 .. Len(conn'[e].down) : i + 1 \in 1 .. Len(conn[e].down) /\ conn'[e].down[i] = conn[e].down[i + 1]
        BY PoppedDown
      <4> QED
        BY <2>1, <3>1, <3>2, <4>1
    <3>3. CASE d # e
      <4>1. conn'[d].down = conn[d].down /\ n[d] = 0
        BY <2>1, <3>3, PoppedDown
      <4>2. \A i \in 1 .. Len(conn[d].down) : i + 0 = i
        BY SMT
      <4> QED
        BY <3>1, <4>1, <4>2
    <3> QED
      BY <3>2, <3>3
  <2>3. Drifts(n)
    BY <2>2 DEF Drifts
  <2> QED
    BY <2>1, <2>3
\* pump sends a request that is nowhere yet.
<1>AskTokens.
    ASSUME Shape, Tokens, cur \in Conns, NEW id \in Ops, NEW k \in {0, id}, ~Used(id),
           Delivers(conn[cur].asked \cup {[t |-> "resp", id |-> id, k |-> k]}, conn[cur].active),
           UNCHANGED <<subs, fwd, cancelled>>,
           DOMAIN pending \subseteq DOMAIN pending', DOMAIN pending' \subseteq DOMAIN pending \cup {id},
           k # 0 => id \in DOMAIN pending'
    PROVE  PlaceOK' /\ KeptOK' /\ PendingOK' /\ \A j \in Ops : Used(j)' => Used(j) \/ j = id
  <2> USE <1>AskTokens
  <2> DEFINE new == [t |-> "resp", id |-> id, k |-> k]
  <2>1. new.t = "resp" /\ new.id = id /\ new.k = k
    OBVIOUS
  <2>2. /\ \A d \in Conns : \A r \in conn'[d].asked : r \in conn[d].asked \/ (d = cur /\ r = new)
        /\ \A d \in Conns : conn'[d].down = conn[d].down
    BY DEF Delivers, SameTraffic, Becomes
  <2> HIDE DEF new
  <2>3. \A d \in Conns, j \in Ops : Asks(d, j)' => Asks(d, j) \/ (d = cur /\ j = id)
    BY <2>1, <2>2 DEF Asks
  <2>4. \A d \in Conns, j \in Ops : Told(d, j)' <=> Told(d, j)
    BY <2>2 DEF Told, ToldAt
  <2>5. \A g \in Goroutines, j \in Ops : Claimed(g, j)' <=> Claimed(g, j)
    BY DEF Claimed
  <2>6. \A j \in Ops : (Tracked(j)' <=> Tracked(j)) /\ (Kept(j)' <=> Kept(j))
    BY DEF Tracked, Kept
  <2>7. /\ \A d \in Conns : ~Asks(d, id) /\ ~Told(d, id)
        /\ \A g \in Goroutines : ~Claimed(g, id)
        /\ ~Kept(id)
    BY DEF Used, InFlight
  <2>8. PlaceOK'
    <3>1. ASSUME NEW d \in Conns, NEW e \in Conns, NEW r \in conn'[d].asked, NEW s \in conn'[e].asked,
                 r.t = "resp", s.t = "resp", r.id = s.id
          PROVE  d = e /\ r = s
      <4>1. CASE r \in conn[d].asked /\ s \in conn[e].asked
        BY <3>1, <4>1, SMT DEF Tokens, PlaceOK, OneAsk
      <4>2. CASE d = cur /\ r = new /\ s \in conn[e].asked
        BY <2>1, <2>7, <3>1, <4>2 DEF Asks
      <4>3. CASE r \in conn[d].asked /\ e = cur /\ s = new
        BY <2>1, <2>7, <3>1, <4>3 DEF Asks
      <4> QED
        BY <2>2, <4>1, <4>2, <4>3
    <3>2. AskedOrTold'
      BY <2>3, <2>4, <2>7 DEF Tokens, PlaceOK, AskedOrTold
    <3>3. ASSUME NEW d \in Conns, NEW e \in Conns, NEW i \in 1 .. Len(conn'[d].down), NEW j \in 1 .. Len(conn'[e].down),
                 NEW m \in Ops, ToldAt(d, i, m)', ToldAt(e, j, m)'
          PROVE  d = e /\ i = j
      <4>1. /\ i \in 1 .. Len(conn[d].down) /\ ToldAt(d, i, m)
            /\ j \in 1 .. Len(conn[e].down) /\ ToldAt(e, j, m)
        BY <2>2, <3>3 DEF ToldAt
      <4> QED
        BY <4>1 DEF Tokens, PlaceOK, OneTold
    <3>4. ClaimedOnly'
      BY <2>3, <2>4, <2>5, <2>7 DEF Tokens, PlaceOK, ClaimedOnly
    <3>5. OneClaim'
      BY <2>5 DEF Tokens, PlaceOK, OneClaim
    <3>6. OneAsk'
      BY <3>1, SMT DEF OneAsk
    <3>7. OneTold'
      BY <3>3 DEF OneTold
    <3> QED
      BY <3>2, <3>4, <3>5, <3>6, <3>7 DEF PlaceOK
  <2>9. \A j \in Ops : InFlight(j)' => InFlight(j) \/ j = id
    BY <2>3, <2>4, <2>5 DEF InFlight
  <2>10. KeptOK'
    <3>1. \A j \in Ops : ~(Kept(j)' /\ InFlight(j)')
      BY <2>6, <2>7, <2>9 DEF Tokens, KeptOK
    <3>2. /\ \A j \in Ops : ~(Tracked(j)' /\ j \in cancelled')
          /\ \A c, d \in DOMAIN subs' : subs'[c].k = subs'[d].k => c = d
      BY <2>6 DEF Tokens, KeptOK
    <3>3. \A e \in Conns : \A r \in conn'[e].asked : r.t = "replayed" => Kept(r.k)'
      BY <2>1, <2>2 DEF Tokens, KeptOK, Kept, Tracked
    <3> QED
      BY <3>1, <3>2, <3>3 DEF KeptOK
  <2>11. PendingOK'
    <3>1. \A e \in Conns : \A r \in conn'[e].asked : r.t = "resp" /\ r.k # 0 => r.id \in DOMAIN pending'
      BY <2>1, <2>2 DEF Tokens, PendingOK
    <3>2. \A e \in Conns : \A i \in 1 .. Len(conn'[e].down) :
            conn'[e].down[i].t = "resp" /\ conn'[e].down[i].val # NoVal => conn'[e].down[i].id \in DOMAIN pending'
      BY <2>2 DEF Tokens, PendingOK
    <3> QED
      BY <3>1, <3>2 DEF PendingOK
  <2> QED
    BY <2>6, <2>8, <2>9, <2>10, <2>11 DEF Used
\* rewriteUnsubscribe forgets c.
<1>UnsubTokens.
    ASSUME Shape, Tokens, NEW n \in [Conns -> Nat], Drifts(n), FewerClaims, UNCHANGED pending,
           NEW c \in DOMAIN subs, subs' = Drop(subs, c), cancelled' = cancelled \cup {subs[c].k}
    PROVE  PlaceOK' /\ KeptOK' /\ PendingOK' /\ \A k \in Ops : Used(k)' => Used(k)
  <2> USE <1>UnsubTokens
  <2>1. /\ \A d \in Conns : \A r \in conn'[d].asked : r.t = "resp" => r \in conn[d].asked
        /\ \A d \in Conns, k \in Ops : Asks(d, k)' => Asks(d, k)
        /\ \A d \in Conns, k \in Ops : Told(d, k)' => Told(d, k)
    BY <1>DriftsMoves
  <2>2. \A g \in Goroutines, k \in Ops : Claimed(g, k)' => Claimed(g, k)
    BY <1>ClaimsMove
  <2>3. DOMAIN subs' = DOMAIN subs \ {c} /\ \A d \in DOMAIN subs \ {c} : subs'[d] = subs[d]
    BY DropHas
  <2>4. \A d \in DOMAIN subs \ {c} : subs[d].k # subs[c].k
    BY DEF Tokens, KeptOK
  <2>5. \A k : Tracked(k)' => Tracked(k) /\ k # subs[c].k
    BY <2>3, <2>4 DEF Tracked
  <2>6. \A k : Kept(k)' <=> Kept(k)
    <3>1. \A k : Tracked(k) => Tracked(k)' \/ k = subs[c].k
      BY <2>3 DEF Tracked
    <3>2. Tracked(subs[c].k)
      BY DEF Tracked
    <3> QED
      BY <2>5, <3>1, <3>2 DEF Kept
  <2>7. \A k \in Ops : InFlight(k)' => InFlight(k)
    BY <2>1, <2>2 DEF InFlight
  <2>8. KeptOK'
    <3>1. \A k \in Ops : ~(Kept(k)' /\ InFlight(k)') /\ ~(Tracked(k)' /\ k \in cancelled')
      BY <2>5, <2>6, <2>7 DEF Tokens, KeptOK
    <3>2. \A a, b \in DOMAIN subs' : subs'[a].k = subs'[b].k => a = b
      BY <2>3, SMT DEF Tokens, KeptOK
    <3>3. \A e \in Conns : \A r \in conn'[e].asked : r.t = "replayed" => Kept(r.k)'
      BY <2>6 DEF Drifts, Tokens, KeptOK, Kept
    <3> QED
      BY <3>1, <3>2, <3>3 DEF KeptOK
  <2>9. PendingOK'
    <3>1. \A e \in Conns : \A r \in conn'[e].asked : r.t = "resp" /\ r.k # 0 => r.id \in DOMAIN pending'
      BY <2>1 DEF Tokens, PendingOK
    <3>2. ASSUME NEW e \in Conns, NEW i \in 1 .. Len(conn'[e].down),
                 conn'[e].down[i].t = "resp", conn'[e].down[i].val # NoVal
          PROVE  conn'[e].down[i].id \in DOMAIN pending
      <4>1. PICK j \in 1 .. Len(conn[e].down) : conn'[e].down[i] = conn[e].down[j]
        BY <3>2 DEF Drifts
      <4> QED
        BY <3>2, <4>1 DEF Tokens, PendingOK
    <3> QED
      BY <3>1, <3>2 DEF PendingOK
  <2> QED
    BY <2>6, <2>7, <2>8, <2>9, <1>DriftPlaces DEF Tokens, Used
\* The reader of connection e takes the answer to a request of the client.
<1>TakeTokens.
    ASSUME Shape, Wire, Tokens, NEW e \in Conns, e \in Goroutines, NEW f \in Frames, f = Head(conn[e].down), f.t = "resp",
           Popped(e), Forwards(e, f), UNCHANGED <<subs, cancelled>>
    PROVE  PlaceOK' /\ KeptOK' /\ PendingOK' /\ \A k \in Ops : Used(k)' => Used(k)
  <2> USE <1>TakeTokens
  <2>1. PICK n \in [Conns -> Nat] : Drifts(n) /\ n[e] = 1
    BY <1>PoppedDrifts
  <2>2. /\ \A d \in Conns : \A r \in conn'[d].asked : r.t = "resp" => r \in conn[d].asked
        /\ \A d \in Conns, k \in Ops : Asks(d, k)' => Asks(d, k)
        /\ \A d \in Conns, k \in Ops : \A i \in 1 .. Len(conn'[d].down) :
              ToldAt(d, i, k)' => i + n[d] \in 1 .. Len(conn[d].down) /\ ToldAt(d, i + n[d], k)
        /\ \A d \in Conns, k \in Ops : Told(d, k)' => Told(d, k)
    BY <2>1, <1>DriftsMoves
  <2>3. f.id \in Ops
    BY DEF Frames
  <2>4. 1 \in 1 .. Len(conn[e].down) /\ f = conn[e].down[1]
    BY PoppedDown
  <2>5. ToldAt(e, 1, f.id) /\ Told(e, f.id)
    BY <2>4 DEF ToldAt, Told
  <2>6. \A d \in Conns : ~Told(d, f.id)'
    <3>1. SUFFICES ASSUME NEW d \in Conns, NEW i \in 1 .. Len(conn'[d].down), ToldAt(d, i, f.id)' PROVE FALSE
      BY DEF Told, ToldAt
    <3>2. i + n[d] \in 1 .. Len(conn[d].down) /\ ToldAt(d, i + n[d], f.id)
      BY <2>2, <2>3, <3>1
    <3>3. d = e /\ i + n[d] = 1
      BY <2>3, <2>4, <2>5, <3>2 DEF Tokens, PlaceOK, OneTold
    <3> QED
      BY <2>1, <3>3, SMT
  <2>7. \A d \in Conns : ~Asks(d, f.id) /\ ~Asks(d, f.id)'
    BY <2>2, <2>3, <2>5 DEF Tokens, PlaceOK, AskedOrTold
  <2>8. \A g \in Goroutines : ~Claimed(g, f.id)
    BY <2>3, <2>5 DEF Tokens, PlaceOK, ClaimedOnly
  <2>9. \A g \in Goroutines, k \in Ops : Claimed(g, k)' => Claimed(g, k) \/ (g = e /\ k = f.id)
    <3>1. SUFFICES ASSUME NEW g \in Goroutines, NEW k \in Ops, Claimed(g, k)' PROVE Claimed(g, k) \/ (g = e /\ k = f.id)
      OBVIOUS
    <3>2. CASE g # e
      BY <3>1, <3>2 DEF Forwards, Claimed
    <3>3. CASE g = e
      BY <3>1, <3>3, SMT DEF Forwards, Claimed, Wire
    <3> QED
      BY <3>2, <3>3
  <2>10. \A r \in DOMAIN pending' : r \in DOMAIN pending
    BY BeginForwardShape
  <2>11. \A r \in DOMAIN pending : r # f.id => r \in DOMAIN pending'
    BY DEF Forwards, Drop, Restrict
  <2>12. PlaceOK'
    <3>1. OneAsk'
      BY <2>2, SMT DEF Tokens, PlaceOK, OneAsk
    <3>2. AskedOrTold'
      BY <2>2 DEF Tokens, PlaceOK, AskedOrTold
    <3>3. OneTold'
      BY <2>1, <1>DriftTold DEF Tokens, PlaceOK
    <3>4. ClaimedOnly'
      BY <2>2, <2>6, <2>7, <2>9, SMT DEF Tokens, PlaceOK, ClaimedOnly
    <3>5. OneClaim'
      BY <2>8, <2>9 DEF Tokens, PlaceOK, OneClaim
    <3> QED
      BY <3>1, <3>2, <3>3, <3>4, <3>5 DEF PlaceOK
  <2>13. \A k \in Ops : InFlight(k)' => InFlight(k)
    BY <2>2, <2>5, <2>9 DEF InFlight
  <2>14. \A k : (Tracked(k)' <=> Tracked(k)) /\ (Kept(k)' <=> Kept(k))
    BY DEF Tracked, Kept
  <2>15. KeptOK'
    <3>1. \A k \in Ops : ~(Kept(k)' /\ InFlight(k)') /\ ~(Tracked(k)' /\ k \in cancelled')
      BY <2>13, <2>14 DEF Tokens, KeptOK
    <3>2. \A c, d \in DOMAIN subs' : subs'[c].k = subs'[d].k => c = d
      BY DEF Tokens, KeptOK
    <3>3. \A d \in Conns : \A r \in conn'[d].asked : r.t = "replayed" => Kept(r.k)'
      BY <2>1, <2>14 DEF Drifts, Tokens, KeptOK, Kept
    <3> QED
      BY <3>1, <3>2, <3>3 DEF KeptOK
  <2>16. PendingOK'
    <3>1. ASSUME NEW d \in Conns, NEW r \in conn'[d].asked, r.t = "resp", r.k # 0 PROVE r.id \in DOMAIN pending'
      <4>1. r \in conn[d].asked /\ r.id \in DOMAIN pending
        BY <2>2, <3>1 DEF Tokens, PendingOK
      <4>2. r.id # f.id
        BY <2>7, <3>1, <4>1 DEF Asks
      <4> QED
        BY <2>11, <4>1, <4>2
    <3>2. ASSUME NEW d \in Conns, NEW i \in 1 .. Len(conn'[d].down),
                 conn'[d].down[i].t = "resp", conn'[d].down[i].val # NoVal
          PROVE  conn'[d].down[i].id \in DOMAIN pending'
      <4>1. PICK j \in 1 .. Len(conn[d].down) : conn'[d].down[i] = conn[d].down[j]
        BY <2>1, <3>2 DEF Drifts
      <4>2. conn'[d].down[i].id \in DOMAIN pending
        BY <3>2, <4>1 DEF Tokens, PendingOK
      <4>3. conn'[d].down[i].id # f.id
        BY <2>6, <3>2 DEF Told, ToldAt
      <4> QED
        BY <2>11, <4>2, <4>3
    <3> QED
      BY <3>1, <3>2 DEF PendingOK
  <2> QED
    BY <2>10, <2>12, <2>13, <2>14, <2>15, <2>16 DEF Used
<1>ReadUpstreamTokens.
    ASSUME Shape, Wire, Tokens, NEW e \in Conns, ReadUpstream(e)
    PROVE  PlaceOK' /\ KeptOK' /\ PendingOK' /\ \A k \in Ops : Used(k)' => Used(k)
  <2> USE <1>ReadUpstreamTokens
  <2>1. PICK f \in Frames : f = Head(conn[e].down) /\ Forwards(e, f)
    BY ReadUpstreamDoes
  <2>2. e \in Goroutines /\ Popped(e)
    BY ReadUpstreamDoes
  <2>3. UNCHANGED <<subs, cancelled>>
    BY DEF ReadUpstream, log
  <2>4. CASE f.t = "resp"
    BY <2>1, <2>2, <2>3, <2>4, <1>TakeTokens
  <2>5. CASE f.t # "resp"
    <3>1. pending' = pending /\ FewerClaims
      BY <2>1, <2>5, SMT DEF Forwards, FewerClaims
    <3>2. PICK n \in [Conns -> Nat] : Drifts(n)
      BY <2>2, <1>PoppedDrifts
    <3> QED
      BY <2>3, <3>1, <3>2, <1>DriftTokens DEF SameTracked
  <2> QED
    BY <2>4, <2>5
\* An upstream answers a request of the client.
<1>AnswerTokens.
    ASSUME Shape, Wire, Tokens, NEW e \in Conns, NEW r \in conn[e].asked, NEW ok \in BOOLEAN, ok => r.k # 0, NEW active,
           Becomes(e, conn[e].asked \ {r}, active, Append(conn[e].down, Answer(e, r, ok))), r.t = "resp",
           UNCHANGED <<subs, cancelled, pending, fwd>>
    PROVE  PlaceOK' /\ KeptOK' /\ PendingOK' /\ \A k \in Ops : Used(k)' => Used(k)
  <2> USE <1>AnswerTokens
  <2>1. PICK f : f = Answer(e, r, ok)
    OBVIOUS
  <2>2. f \in Frames /\ r \in Requests /\ f.t = "resp" /\ f.id = r.id /\ (~ok => f.val = NoVal) /\ r.id \in Ops
    BY <2>1, AnswerSent DEF Requests
  <2>3. /\ Len(conn[e].down) \in Nat /\ Len(conn'[e].down) = Len(conn[e].down) + 1
        /\ conn'[e].down[Len(conn[e].down) + 1] = f
        /\ \A i \in 1 .. Len(conn'[e].down) :
              i = Len(conn[e].down) + 1 \/ (i \in 1 .. Len(conn[e].down) /\ conn'[e].down[i] = conn[e].down[i])
    BY <2>1, <2>2, AppendedDown
  <2>4. /\ conn'[e].asked = conn[e].asked \ {r}
        /\ \A d \in Conns \ {e} : conn'[d] = conn[d]
    BY DEF Becomes
  <2>5. Asks(e, r.id)
    BY DEF Asks
  <2>6. /\ \A d \in Conns : ~Told(d, r.id)
        /\ \A g \in Goroutines : ~Claimed(g, r.id)
    BY <2>2, <2>5 DEF Tokens, PlaceOK, AskedOrTold, ClaimedOnly
  <2>7. \A d \in Conns : \A q \in conn'[d].asked : q \in conn[d].asked
    BY <2>4
  <2>8. \A d \in Conns, k \in Ops : Asks(d, k)' => Asks(d, k) /\ k # r.id
    <3>1. SUFFICES ASSUME NEW d \in Conns, NEW q \in conn'[d].asked, q.t = "resp" PROVE q.id # r.id
      BY <2>7 DEF Asks
    <3>2. SUFFICES ASSUME q.id = r.id PROVE FALSE
      OBVIOUS
    <3>3. d = e /\ q = r
      BY <2>7, <3>1, <3>2, SMT DEF Tokens, PlaceOK, OneAsk
    <3> QED
      BY <2>4, <3>3
  <2>9. ASSUME NEW d \in Conns, NEW k \in Ops, NEW i \in 1 .. Len(conn'[d].down), ToldAt(d, i, k)'
        PROVE  \/ i \in 1 .. Len(conn[d].down) /\ ToldAt(d, i, k) /\ conn'[d].down[i] = conn[d].down[i]
               \/ d = e /\ i = Len(conn[e].down) + 1 /\ k = r.id
    <3>1. CASE d # e
      BY <2>4, <2>9, <3>1 DEF ToldAt
    <3>2. CASE d = e
      BY <2>2, <2>3, <2>9, <3>2 DEF ToldAt
    <3> QED
      BY <3>1, <3>2
  <2>10. \A d \in Conns, k \in Ops : Told(d, k)' => Told(d, k) \/ (d = e /\ k = r.id)
    BY <2>9 DEF Told, ToldAt
  <2>11. \A g \in Goroutines, k \in Ops : Claimed(g, k)' <=> Claimed(g, k)
    BY DEF Claimed
  <2>12. PlaceOK'
    <3>1. OneAsk'
      BY <2>7, SMT DEF Tokens, PlaceOK, OneAsk
    <3>2. AskedOrTold'
      BY <2>6, <2>8, <2>10 DEF Tokens, PlaceOK, AskedOrTold
    <3>3. ASSUME NEW d \in Conns, NEW b \in Conns, NEW i \in 1 .. Len(conn'[d].down), NEW j \in 1 .. Len(conn'[b].down),
                 NEW k \in Ops, ToldAt(d, i, k)', ToldAt(b, j, k)'
          PROVE  d = b /\ i = j
      <4>1. \/ i \in 1 .. Len(conn[d].down) /\ ToldAt(d, i, k) /\ Told(d, k)
            \/ d = e /\ i = Len(conn[e].down) + 1 /\ k = r.id
        BY <2>9, <3>3 DEF Told
      <4>2. \/ j \in 1 .. Len(conn[b].down) /\ ToldAt(b, j, k) /\ Told(b, k)
            \/ b = e /\ j = Len(conn[e].down) + 1 /\ k = r.id
        BY <2>9, <3>3 DEF Told
      <4>3. CASE k = r.id
        BY <2>6, <4>1, <4>2, <4>3
      <4>4. CASE k # r.id
        BY <4>1, <4>2, <4>4 DEF Tokens, PlaceOK, OneTold
      <4> QED
        BY <4>3, <4>4
    <3>4. ClaimedOnly'
      BY <2>6, <2>8, <2>10, <2>11, SMT DEF Tokens, PlaceOK, ClaimedOnly
    <3>5. OneClaim'
      BY <2>11 DEF Tokens, PlaceOK, OneClaim
    <3>6. OneTold'
      BY <3>3 DEF OneTold
    <3> QED
      BY <3>1, <3>2, <3>4, <3>5, <3>6 DEF PlaceOK
  <2>13. \A k \in Ops : InFlight(k)' => InFlight(k)
    BY <2>5, <2>8, <2>10, <2>11 DEF InFlight
  <2>14. \A k : (Tracked(k)' <=> Tracked(k)) /\ (Kept(k)' <=> Kept(k))
    BY DEF Tracked, Kept
  <2>15. KeptOK'
    <3>1. \A k \in Ops : ~(Kept(k)' /\ InFlight(k)') /\ ~(Tracked(k)' /\ k \in cancelled')
      BY <2>13, <2>14 DEF Tokens, KeptOK
    <3>2. \A c, d \in DOMAIN subs' : subs'[c].k = subs'[d].k => c = d
      BY DEF Tokens, KeptOK
    <3>3. \A d \in Conns : \A q \in conn'[d].asked : q.t = "replayed" => Kept(q.k)'
      BY <2>7, <2>14 DEF Tokens, KeptOK
    <3> QED
      BY <3>1, <3>2, <3>3 DEF KeptOK
  <2>16. PendingOK'
    <3>1. \A d \in Conns : \A q \in conn'[d].asked : q.t = "resp" /\ q.k # 0 => q.id \in DOMAIN pending'
      BY <2>7 DEF Tokens, PendingOK
    <3>2. ASSUME NEW d \in Conns, NEW i \in 1 .. Len(conn'[d].down),
                 conn'[d].down[i].t = "resp", conn'[d].down[i].val # NoVal
          PROVE  conn'[d].down[i].id \in DOMAIN pending
      <4>1. CASE d # e
        BY <2>4, <3>2, <4>1 DEF Tokens, PendingOK
      <4>2. CASE d = e /\ i \in 1 .. Len(conn[e].down) /\ conn'[e].down[i] = conn[e].down[i]
        BY <3>2, <4>2 DEF Tokens, PendingOK
      <4>3. CASE d = e /\ i = Len(conn[e].down) + 1
        <5>1. ok /\ conn'[d].down[i].id = r.id
          BY <2>2, <2>3, <3>2, <4>3
        <5> QED
          BY <5>1 DEF Tokens, PendingOK
      <4> QED
        BY <2>3, <4>1, <4>2, <4>3
    <3> QED
      BY <3>1, <3>2 DEF PendingOK
  <2> QED
    BY <2>12, <2>13, <2>14, <2>15, <2>16 DEF Used
<1>UpstreamTokens.
    ASSUME Shape, Wire, Tokens, NEW e \in Conns, Upstream(e)
    PROVE  PlaceOK' /\ KeptOK' /\ PendingOK' /\ \A k \in Ops : Used(k)' => Used(k)
  <2> USE <1>UpstreamTokens
  <2>1. UNCHANGED <<subs, pending, fwd, cancelled>>
    BY DEF Upstream, UpAnswer, UpNotify, UpFails, upstreams, session
  <2>2. SameTracked /\ FewerClaims
    BY <2>1 DEF SameTracked, FewerClaims
  <2>3. ASSUME NEW asked, NEW active, NEW f \in Frames, f.t # "resp", asked \subseteq conn[e].asked,
               Becomes(e, asked, active, Append(conn[e].down, f))
        PROVE  PlaceOK' /\ KeptOK' /\ PendingOK' /\ \A k \in Ops : Used(k)' => Used(k)
    <3> DEFINE n == [d \in Conns |-> 0]
    <3>1. n \in [Conns -> Nat] /\ \A d \in Conns : n[d] = 0
      OBVIOUS
    <3> HIDE DEF n
    <3>2. ASSUME NEW d \in Conns
          PROVE  /\ \A r \in conn'[d].asked : r \in conn[d].asked
                 /\ \A i \in 1 .. Len(conn'[d].down) :
                      \/ conn'[d].down[i].t # "resp"
                      \/ i + n[d] \in 1 .. Len(conn[d].down) /\ conn'[d].down[i] = conn[d].down[i + n[d]]
      <4>1. CASE d # e
        <5>1. conn'[d] = conn[d]
          BY <2>3, <4>1 DEF Becomes
        <5> QED
          BY <3>1, <5>1, SMT
      <4>2. CASE d = e
        <5>1. conn'[e].asked = asked
          BY <2>3 DEF Becomes
        <5>2. /\ Len(conn[e].down) \in Nat /\ Len(conn'[e].down) = Len(conn[e].down) + 1
              /\ conn'[e].down[Len(conn[e].down) + 1] = f
              /\ \A i \in 1 .. Len(conn'[e].down) :
                    i = Len(conn[e].down) + 1 \/ (i \in 1 .. Len(conn[e].down) /\ conn'[e].down[i] = conn[e].down[i])
          BY <2>3, AppendedDown
        <5> QED
          BY <2>3, <3>1, <4>2, <5>1, <5>2, SMT
      <4> QED
        BY <4>1, <4>2
    <3>3. Drifts(n)
      BY <3>2 DEF Drifts
    <3> QED
      BY <2>1, <2>2, <3>1, <3>3, <1>DriftTokens
  <2>4. CASE UpAnswer(e)
    <3>1. PICK r \in conn[e].asked, ok \in BOOLEAN :
                /\ ok => r.k # 0
                /\ Becomes(e, conn[e].asked \ {r}, IF ok THEN conn[e].active \cup {r.k} ELSE conn[e].active,
                           Append(conn[e].down, Answer(e, r, ok)))
      BY <2>4, UpAnswerDoes DEF Answer
    <3>2. Answer(e, r, ok) \in Frames /\ Answer(e, r, ok).t = r.t
      BY <3>1, AnswerSent
    <3>3. CASE r.t = "resp"
      BY <2>1, <3>1, <3>3, <1>AnswerTokens
    <3>4. CASE r.t # "resp"
      BY <2>3, <3>1, <3>2, <3>4
    <3> QED
      BY <3>3, <3>4
  <2>5. CASE UpNotify(e)
    <3>1. PICK k \in Ops :
                Becomes(e, conn[e].asked, conn[e].active \cup {k}, Append(conn[e].down, Note(SubId(e, k), k)))
      BY <2>5, UpNotifyDoes
    <3>2. Note(SubId(e, k), k) \in Frames /\ Note(SubId(e, k), k).t # "resp"
      BY SMT DEF Note, Frames, SubIds
    <3> QED
      BY <2>3, <3>1, <3>2
  <2>6. CASE UpFails(e)
    BY <2>1, <2>2, <2>6, UpFailsDoes, <1>SameDrifts, <1>DriftTokens
  <2> QED
    BY <2>4, <2>5, <2>6 DEF Upstream
<1>QueueStays.
    ASSUME QueueOK, UNCHANGED Queue, client'.sent = client.sent, client.known \subseteq client'.known,
           \A k \in Ops : Used(k)' => Used(k)
    PROVE  QueueOK'
  BY <1>QueueStays DEF QueueOK, Numbered
<1>QueuePop.
    ASSUME Shape, QueueOK, fromClient # <<>>, fromClient' = Tail(fromClient), client' = client,
           \A k \in Ops : Used(k)' => Used(k) \/ (Numbered(1) /\ k = Head(fromClient).id)
    PROVE  QueueOK'
  <2> USE <1>QueuePop
  <2>1. /\ Queue \in Seq(ClientFrames) /\ Len(Queue) = Len(fromClient) + Len(client.held)
        /\ \A i \in 1 .. Len(Queue) : Queue[i] \in ClientFrames /\ (Numbered(i) => Queue[i].id \in Nat)
        /\ client.sent \in Nat /\ client.held \in Seq(ClientFrames) /\ fromClient \in Seq(ClientFrames)
    BY QueueType
  <2>2. Queue[1] = Head(fromClient) /\ 1 \in 1 .. Len(Queue)
    BY QueueHead
  <2>3. \A i \in 1 .. Len(Queue') : i + 1 \in 1 .. Len(Queue) /\ Queue'[i] = Queue[i + 1] /\ (Numbered(i)' <=> Numbered(i + 1))
    <3>1. Queue' = Tail(fromClient) \o client.held
      BY DEF Queue
    <3>2. Queue # <<>> /\ Queue' = Tail(Queue)
      BY <2>1, <3>1, TailOfQueue DEF Queue
    <3>3. \A i \in 1 .. Len(Queue') : i + 1 \in 1 .. Len(Queue) /\ Queue'[i] = Queue[i + 1]
      BY <2>1, <3>2, TailAt
    <3> QED
      BY <3>3 DEF Numbered
  <2>4. \A i \in 1 .. Len(Queue') : Numbered(i)' => Queue'[i].id <= client.sent
    BY <2>3 DEF QueueOK
  <2>5. \A i, j \in 1 .. Len(Queue') : i < j /\ Numbered(i)' /\ Numbered(j)' => Queue'[i].id < Queue'[j].id
    BY <2>3, SMT DEF QueueOK
  <2>6. \A i \in 1 .. Len(Queue') : ~Numbered(i)' => Queue'[i].sid \in client.known
    BY <2>3 DEF QueueOK
  <2>7. ASSUME NEW k \in Ops, Used(k)'
        PROVE  k <= client.sent /\ \A i \in 1 .. Len(Queue') : Numbered(i)' => k < Queue'[i].id
    <3>1. CASE Used(k)
      BY <2>3, <3>1 DEF QueueOK
    <3>2. CASE Numbered(1) /\ k = Queue[1].id
      <4>1. k <= client.sent
        BY <2>2, <3>2 DEF QueueOK
      <4>2. ASSUME NEW i \in 1 .. Len(Queue'), Numbered(i)' PROVE k < Queue'[i].id
        <5>1. 1 < i + 1
          BY SMT
        <5> QED
          BY <2>2, <2>3, <3>2, <4>2, <5>1 DEF QueueOK
      <4> QED
        BY <4>1, <4>2
    <3> QED
      BY <2>2, <2>7, <3>1, <3>2
  <2> QED
    BY <2>4, <2>5, <2>6, <2>7 DEF QueueOK
<1>ClientSideQueue.
    ASSUME Shape, QueueOK, ClientSide, \A k \in Ops : Used(k)' => Used(k) PROVE QueueOK'
  <2> USE <1>ClientSideQueue
  <2>1. /\ Queue \in Seq(ClientFrames) /\ Len(Queue) = Len(fromClient) + Len(client.held)
        /\ \A i \in 1 .. Len(Queue) : Queue[i] \in ClientFrames /\ (Numbered(i) => Queue[i].id \in Nat)
        /\ client.sent \in Nat /\ client.held \in Seq(ClientFrames) /\ fromClient \in Seq(ClientFrames)
    BY QueueType
  <2>2. client \in ClientRec
    BY ShapeParts DEF UserType
  <2>3. \A k \in Ops : k \in Nat
    BY SMT DEF Ops
  <2>4. CASE ReadClient
    <3>1. client.held = <<>> /\ fromClient' = fromClient
      BY <2>4 DEF ReadClient
    <3>2. PICK r \in ClientFrames :
            /\ client' = [client EXCEPT !.sent = client.sent + 1, !.held = <<r>>]
            /\ r.op # "unsub" => r.id = client.sent + 1
            /\ r.op = "unsub" => r.sid \in client.known
      BY <2>4, ReadClientDoes
    <3>3. client'.sent = client.sent + 1 /\ client'.held = <<r>> /\ client'.known = client.known
      BY <2>2, <3>2 DEF ClientRec
    <3>4. Queue = fromClient /\ Queue' = Append(Queue, r)
      BY <2>1, <3>1, <3>3, SMT DEF Queue
    <3>5. \A i \in 1 .. Len(Queue') :
             \/ i \in 1 .. Len(Queue) /\ Queue'[i] = Queue[i] /\ (Numbered(i)' <=> Numbered(i))
             \/ i = Len(Queue) + 1 /\ Queue'[i] = r /\ (Numbered(i)' <=> r.op # "unsub")
      BY <2>1, <3>4, SMT DEF Numbered
    <3>6. \A i \in 1 .. Len(Queue') : Numbered(i)' => Queue'[i].id <= client'.sent
      <4>1. \A i \in 1 .. Len(Queue) : Numbered(i) => Queue[i].id <= client'.sent
        BY <2>1, <3>3, NextNumber DEF QueueOK
      <4>2. client.sent + 1 <= client.sent + 1
        BY <2>1, NextNumber
      <4> QED
        BY <3>2, <3>3, <3>5, <4>1, <4>2
    <3>7. ASSUME NEW i \in 1 .. Len(Queue'), NEW j \in 1 .. Len(Queue'), i < j, Numbered(i)', Numbered(j)'
          PROVE  Queue'[i].id < Queue'[j].id
      <4>1. i \in 1 .. Len(Queue) /\ Queue'[i] = Queue[i] /\ Numbered(i)
        <5>1. Len(Queue') = Len(Queue) + 1 /\ Len(Queue) \in Nat
          BY <2>1, <3>4, AppendAt
        <5>2. i # Len(Queue) + 1
          BY <3>7, <5>1, BeforeTheLast
        <5> QED
          BY <3>5, <3>7, <5>2
      <4>2. CASE j \in 1 .. Len(Queue) /\ Queue'[j] = Queue[j] /\ Numbered(j)
        BY <3>7, <4>1, <4>2 DEF QueueOK
      <4>3. CASE Queue'[j] = r /\ r.op # "unsub"
        <5>1. Queue[i].id <= client.sent /\ Queue[i].id \in Nat
          BY <2>1, <4>1 DEF QueueOK
        <5> QED
          BY <2>1, <3>2, <4>1, <4>3, <5>1, NextNumber
      <4> QED
        BY <3>5, <3>7, <4>2, <4>3
    <3>8. \A k \in Ops : Used(k)' =>
            k <= client'.sent /\ \A i \in 1 .. Len(Queue') : Numbered(i)' => k < Queue'[i].id
      <4>1. SUFFICES ASSUME NEW k \in Ops, Used(k)'
                     PROVE  k <= client'.sent /\ \A i \in 1 .. Len(Queue') : Numbered(i)' => k < Queue'[i].id
        OBVIOUS
      <4>2. k <= client.sent /\ \A i \in 1 .. Len(Queue) : Numbered(i) => k < Queue[i].id
        BY <4>1 DEF QueueOK
      <4>3. k <= client'.sent /\ k < client.sent + 1
        BY <2>1, <2>3, <3>3, <4>2, NextNumber
      <4> QED
        BY <3>2, <3>5, <4>2, <4>3
    <3>9. \A i \in 1 .. Len(Queue') : ~Numbered(i)' => Queue'[i].sid \in client'.known
      BY <3>2, <3>3, <3>5 DEF QueueOK
    <3> QED
      BY <3>6, <3>7, <3>8, <3>9 DEF QueueOK
  <2>5. CASE EnqueueClient
    <3>1. client'.held = <<>> /\ client'.sent = client.sent /\ client'.known = client.known /\ fromClient' = fromClient \o client.held
      BY <2>2, <2>5 DEF EnqueueClient, ClientRec
    <3>2. Queue' = Queue
      <4>1. Queue' = (fromClient \o client.held) \o <<>>
        BY <3>1 DEF Queue
      <4> QED
        BY <2>1, <4>1, SMT DEF Queue
    <3> QED
      BY <3>1, <3>2, <1>QueueStays
  <2>6. CASE AbandonClient
    <3>1. client'.held = <<>> /\ client'.sent = client.sent /\ client'.known = client.known /\ fromClient' = fromClient
      BY <2>2, <2>6 DEF AbandonClient, ClientRec
    <3>2. Queue' = fromClient
      <4>1. Queue' = fromClient \o <<>>
        BY <3>1 DEF Queue
      <4> QED
        BY <2>1, <4>1, SMT
    <3>3. \A i \in 1 .. Len(Queue') : i \in 1 .. Len(Queue) /\ Queue'[i] = Queue[i] /\ (Numbered(i)' <=> Numbered(i))
      BY <2>1, <3>2, SMT DEF Queue, Numbered
    <3> QED
      BY <3>1, <3>3 DEF QueueOK
  <2>7. CASE ReadClientFails \/ ClientTurns \/ CancelContext
    <3>1. client'.held = client.held /\ client'.sent = client.sent /\ client'.known = client.known /\ fromClient' = fromClient
      BY <2>2, <2>7 DEF ReadClientFails, ClientTurns, CancelContext, ClientRec
    <3>2. Queue' = Queue
      BY <3>1 DEF Queue
    <3> QED
      BY <3>1, <3>2, <1>QueueStays
  <2> QED
    BY <2>4, <2>5, <2>6, <2>7 DEF ClientSide, ClientReaderStep
\* Steps of run that leave the client's requests where they are.
<1>DriftStep.
    ASSUME Shape, Tokens, NEW n \in [Conns -> Nat], Drifts(n), SameTracked, FewerClaims, UNCHANGED <<pending, cancelled, fromClient>>,
           client'.held = client.held, client'.sent = client.sent, client.known \subseteq client'.known
    PROVE  Tokens'
  <2> USE <1>DriftStep
  <2>1. PlaceOK' /\ KeptOK' /\ PendingOK' /\ \A k \in Ops : Used(k)' => Used(k)
    BY <1>DriftTokens
  <2>2. Queue' = Queue
    BY DEF Queue
  <2> QED
    BY <2>1, <2>2, <1>QueueStays DEF Tokens
<1>SameStep.
    ASSUME Shape, Tokens, SameTraffic, SameTracked, FewerClaims, UNCHANGED <<pending, cancelled, fromClient>>,
           client'.held = client.held, client'.sent = client.sent, client.known \subseteq client'.known
    PROVE  Tokens'
  BY <1>SameStep, <1>SameDrifts, <1>DriftStep
<1>SendReplayTokens. ASSUME Shape, Tokens, SendReplay PROVE Tokens'
  <2> USE <1>SendReplayTokens
  <2> DEFINE A == {[t |-> "replayed", id |-> c, k |-> subs[c].k] : c \in DOMAIN subs}
             n == [d \in Conns |-> 0]
  <2>1. UNCHANGED <<subs, pending, fwd, cancelled, fromClient, client>>
    BY DEF SendReplay, session, user, log
  <2>2. SameTracked /\ FewerClaims
    BY <2>1 DEF SameTracked, FewerClaims
  <2>3. CASE SameTraffic
    BY <2>1, <2>2, <2>3, <1>SameStep
  <2>4. CASE Becomes(cur, A, conn[cur].active, conn[cur].down)
    <3>1. n \in [Conns -> Nat] /\ \A d \in Conns : n[d] = 0
      OBVIOUS
    <3>2. \A r \in A : r.t = "replayed" /\ Tracked(r.k)
      BY SMT DEF Tracked
    <3> HIDE DEF n, A
    <3>3. ASSUME NEW d \in Conns
          PROVE  /\ conn'[d].down = conn[d].down
                 /\ conn'[d].asked = conn[d].asked \/ conn'[d].asked = A
      BY <2>4 DEF Becomes
    <3>4. Drifts(n)
      BY <3>1, <3>2, <3>3, SMT DEF Drifts
    <3> QED
      BY <2>1, <2>2, <3>1, <3>4, <1>DriftStep
  <2> QED
    BY <2>3, <2>4, SendReplayDoes
<1>ReadReplayTokens. ASSUME Shape, Tokens, ReadReplay PROVE Tokens'
  <2> USE <1>ReadReplayTokens
  <2>1. CASE pc = "read_replay" /\ FailReplay
    <3>1. SameTraffic
      BY <2>1, FailReplayDoes
    <3> QED
      BY <2>1, <3>1, <1>SameStep DEF FailReplay, session, user, log, SameTracked, FewerClaims
  <2>2. ASSUME cur \in Conns, Popped(cur), SameTracked, UNCHANGED <<pending, fwd, client, fromClient, cancelled>> PROVE Tokens'
    <3>1. PICK n \in [Conns -> Nat] : Drifts(n)
      BY <2>2, <1>PoppedDrifts
    <3> QED
      BY <2>2, <3>1, <1>DriftStep DEF FewerClaims
  <2>3. ASSUME NEW f \in Frames, cur \in Conns, Popped(cur), Stashes(f) PROVE Tokens'
    BY <2>2, <2>3 DEF Stashes, session, user, log, SameTracked
  <2>4. ASSUME NEW f \in Frames, cur \in Conns, Popped(cur), Remaps(f) PROVE Tokens'
    <3>1. SameTracked
      BY <2>4, RemapsTables DEF SameTracked
    <3> QED
      BY <2>2, <2>4, <3>1 DEF Remaps, user, log
  <2> QED
    BY <2>1, <2>3, <2>4, ReadReplayDoes
<1>FlushTokens. ASSUME Shape, Wire, Tokens, Flush PROVE Tokens'
  <2> USE <1>FlushTokens
  <2>1. UNCHANGED <<cur, subs, conn, client, fromClient, cancelled>> /\ buf \in Seq(Frames)
    BY DEF Flush, user, log, Shape, TypeOK
  <2>2. SameTraffic
    BY <2>1, UnchangedIsSame DEF Shape
  <2>3. pending' = pending /\ FewerClaims
    <3>1. CASE UNCHANGED <<buf, fwd, pending>>
      BY <3>1 DEF FewerClaims
    <3>2. CASE buf # <<>> /\ Head(buf) \in Frames /\ BeginForward(0, Head(buf)) /\ 0 \in Goroutines
      <4>1. Forwards(0, Head(buf))
        BY <3>2, BeginForwardDoes
      <4>2. Head(buf).t # "resp"
        BY <2>1, <3>2, SMT DEF Wire, BufOK
      <4> QED
        BY <4>1, <4>2, SMT DEF Forwards, FewerClaims
    <3> QED
      BY <3>1, <3>2, FlushDoes
  <2> QED
    BY <2>1, <2>2, <2>3, <1>SameStep DEF SameTracked
<1>PumpRequestTokens. ASSUME Shape, Wire, Tokens, PumpRequest PROVE Tokens'
  <2> USE <1>PumpRequestTokens
  <2>1. /\ cur \in Conns /\ fromClient # <<>> /\ fromClient' = Tail(fromClient) /\ client' = client
    BY PumpRequestDoes
  <2>2. PICK r \in ClientFrames : r = Head(fromClient) /\ Handles(r)
    BY PumpRequestDoes
  <2>3. /\ Queue[1] = r
        /\ Numbered(1) => \A k \in Ops : Used(k) => k # r.id
    BY <2>1, <2>2, QueueHead DEF Tokens
  <2>4. Numbered(1) <=> r.op # "unsub"
    BY <2>3 DEF Numbered
  <2>5. ASSUME PlaceOK' /\ KeptOK' /\ PendingOK',
               \A k \in Ops : Used(k)' => Used(k) \/ (Numbered(1) /\ k = r.id)
        PROVE  Tokens'
    BY <2>1, <2>2, <2>5, <1>QueuePop DEF Tokens
  <2>6. ASSUME NEW asked, NEW active, Delivers(asked, active), cur \in Conns, asked = conn[cur].asked
        PROVE  Drifts([d \in Conns |-> 0])
    <3> DEFINE n == [d \in Conns |-> 0]
    <3>1. \A d \in Conns : n[d] = 0
      OBVIOUS
    <3> HIDE DEF n
    <3>2. \A d \in Conns : conn'[d].asked = conn[d].asked /\ conn'[d].down = conn[d].down
      BY <2>6 DEF Delivers, SameTraffic, Becomes
    <3>3. Drifts(n)
      BY <3>1, <3>2, SMT DEF Drifts
    <3> QED
      BY <3>3 DEF n
  <2>7. CASE r.op = "sub" /\ r.id \in Ops /\ Rejects(r.id)
    <3>1. SameTraffic /\ SameTracked /\ FewerClaims /\ UNCHANGED <<pending, cancelled>>
      BY <2>7, SMT DEF Rejects, SameTracked, FewerClaims, Goroutines
    <3>2. PlaceOK' /\ KeptOK' /\ PendingOK' /\ \A k \in Ops : Used(k)' => Used(k)
      BY <3>1, <1>SameDrifts, <1>DriftTokens
    <3> QED
      BY <2>5, <3>2
  <2>8. CASE r.op = "sub" /\ r.id \in Ops /\ Subscribes(r.id)
    <3>1. /\ pending' = Put(pending, r.id, r.id) /\ UNCHANGED <<subs, fwd, cancelled>>
          /\ Delivers(conn[cur].asked \cup {[t |-> "resp", id |-> r.id, k |-> r.id]}, conn[cur].active)
      BY <2>8 DEF Subscribes
    <3>2. DOMAIN pending' = DOMAIN pending \cup {r.id}
      BY <3>1 DEF Put
    <3>3. ~Used(r.id) /\ r.id \in {0, r.id}
      BY <2>3, <2>4, <2>8
    <3>4. PlaceOK' /\ KeptOK' /\ PendingOK' /\ \A j \in Ops : Used(j)' => Used(j) \/ j = r.id
      BY <2>1, <2>8, <3>1, <3>2, <3>3, <1>AskTokens
    <3> QED
      BY <2>4, <2>5, <2>8, <3>4
  <2>9. CASE r.op = "call" /\ r.id \in Ops /\ Calls(r.id)
    <3>1. /\ UNCHANGED <<subs, fwd, cancelled, pending>>
          /\ Delivers(conn[cur].asked \cup {[t |-> "resp", id |-> r.id, k |-> 0]}, conn[cur].active)
      BY <2>9 DEF Calls
    <3>2. ~Used(r.id)
      BY <2>3, <2>4, <2>9
    <3>3. PlaceOK' /\ KeptOK' /\ PendingOK' /\ \A j \in Ops : Used(j)' => Used(j) \/ j = r.id
      <4>1. PICK k \in {0, r.id} : k = 0
        OBVIOUS
      <4>2. DOMAIN pending \subseteq DOMAIN pending' /\ DOMAIN pending' \subseteq DOMAIN pending \cup {r.id}
        BY <3>1
      <4> QED
        BY <2>1, <2>9, <3>1, <3>2, <4>1, <4>2, <1>AskTokens
    <3> QED
      BY <2>4, <2>5, <2>9, <3>3
  <2>10. CASE r.op = "unsub" /\ r.sid \in SubIds /\ Unsubscribes(r.sid)
    <3>1. UNCHANGED <<pending, fwd>> /\ FewerClaims
      BY <2>10 DEF Unsubscribes, FewerClaims
    <3>2. [d \in Conns |-> 0] \in [Conns -> Nat] /\ Drifts([d \in Conns |-> 0])
      <4>1. \E active : Delivers(conn[cur].asked, active)
        BY <2>10 DEF Unsubscribes
      <4> QED
        BY <2>1, <2>6, <4>1
    <3>3. PICK n \in [Conns -> Nat] : Drifts(n)
      BY <3>2
    <3>4. CASE r.sid \in DOMAIN subs
      <4>1. subs' = Drop(subs, r.sid) /\ cancelled' = cancelled \cup {subs[r.sid].k}
        BY <2>10, <3>4 DEF Unsubscribes
      <4>2. PlaceOK' /\ KeptOK' /\ PendingOK' /\ \A k \in Ops : Used(k)' => Used(k)
        BY <3>1, <3>3, <3>4, <4>1, <1>UnsubTokens
      <4> QED
        BY <2>5, <4>2
    <3>5. CASE r.sid \notin DOMAIN subs
      <4>1. SameTracked /\ cancelled' = cancelled
        BY <2>10, <3>5 DEF Unsubscribes, SameTracked
      <4>2. PlaceOK' /\ KeptOK' /\ PendingOK' /\ \A k \in Ops : Used(k)' => Used(k)
        BY <3>1, <3>3, <4>1, <1>DriftTokens
      <4> QED
        BY <2>5, <4>2
    <3> QED
      BY <3>4, <3>5
  <2> QED
    BY <2>2, <2>7, <2>8, <2>9, <2>10 DEF Handles
<1> SUFFICES ASSUME Shape, Wire, Tokens, [Next]_vars PROVE Tokens'
  OBVIOUS
<1>1. client \in ClientRec /\ TypeOK
  BY ShapeParts DEF UserType, Shape
<1>2. CASE Walks
  BY <1>2, WalksDo, <1>SameStep DEF SameTracked, FewerClaims
<1>3. CASE ReplayWriteFails \/ ReplayReadFails
  <2>1. SameTraffic
    BY <1>3, FailReplayDoes DEF ReplayWriteFails, ReplayReadFails
  <2> QED
    BY <1>3, <2>1, <1>SameStep DEF ReplayWriteFails, ReplayReadFails, FailReplay, session, user, log, SameTracked, FewerClaims
<1>4. ASSUME NEW e \in Conns, ReadUpstreamFails(e) PROVE Tokens'
  <2>1. SameTraffic /\ UNCHANGED <<subs, pending, fwd, client, fromClient, cancelled>>
    BY <1>1, <1>4, UnchangedIsSame DEF ReadUpstreamFails, session, user, log
  <2> QED
    BY <2>1, <1>SameStep DEF SameTracked, FewerClaims
<1>5. ASSUME PlaceOK' /\ KeptOK' /\ PendingOK', \A k \in Ops : Used(k)' => Used(k), UNCHANGED <<client, fromClient>>
      PROVE  Tokens'
  <2>1. Queue' = Queue
    BY <1>5 DEF Queue
  <2> QED
    BY <1>5, <2>1, <1>QueueStays DEF Tokens
<1>6. ASSUME NEW e \in Conns, ReadUpstream(e) PROVE Tokens'
  BY <1>5, <1>6, <1>ReadUpstreamTokens DEF ReadUpstream, user
<1>7. ASSUME NEW e \in Conns, Register(e) PROVE Tokens'
  BY <1>5, <1>7, RegisterTokens DEF Register, user
<1>8. ASSUME NEW e \in Conns, Upstream(e) PROVE Tokens'
  BY <1>5, <1>8, <1>UpstreamTokens DEF Upstream, UpAnswer, UpNotify, UpFails, upstreams, user
<1>9. ASSUME NEW g \in Goroutines, WriteToClient(g) PROVE Tokens'
  <2>1. SameTraffic /\ UNCHANGED <<subs, pending, fromClient, cancelled>> /\ fwd' = [fwd EXCEPT ![g] = Free]
    BY <1>1, <1>9, UnchangedIsSame DEF WriteToClient, session, log
  <2>2. FewerClaims
    BY <2>1, ShapeParts DEF FwdType, FewerClaims, Free
  <2>3. client'.held = client.held /\ client'.sent = client.sent /\ client.known \subseteq client'.known
    BY <1>1, <1>9 DEF WriteToClient, ClientRec
  <2> QED
    BY <2>1, <2>2, <2>3, <1>SameStep DEF SameTracked
<1>10. ASSUME NEW g \in Goroutines, WriteToClientFails(g) PROVE Tokens'
  <2>1. SameTraffic /\ UNCHANGED <<subs, pending, fromClient, cancelled>> /\ fwd' = [fwd EXCEPT ![g] = Free]
        /\ client' = [client EXCEPT !.broken = TRUE]
    BY <1>10, WriteToClientFailsDoes
  <2>2. FewerClaims
    BY <2>1, ShapeParts DEF FwdType, FewerClaims, Free
  <2>3. client'.held = client.held /\ client'.sent = client.sent /\ client'.known = client.known
    BY <1>1, <2>1 DEF ClientRec
  <2> QED
    BY <2>1, <2>2, <2>3, <1>SameStep DEF SameTracked
<1>11. CASE ClientSide
  <2>1. UNCHANGED <<subs, pending, fwd, conn, cancelled>>
    BY <1>11 DEF ClientSide, ReadClient, ClientReaderStep, EnqueueClient, AbandonClient, ReadClientFails, ClientTurns,
                 CancelContext, run, session, log
  <2>2. SameTraffic /\ SameTracked /\ FewerClaims
    BY <1>1, <2>1, UnchangedIsSame DEF SameTracked, FewerClaims
  <2>3. PlaceOK' /\ KeptOK' /\ PendingOK' /\ \A k \in Ops : Used(k)' => Used(k)
    BY <2>1, <2>2, <1>SameDrifts, <1>DriftTokens
  <2> QED
    BY <1>11, <2>3, <1>ClientSideQueue DEF Tokens
<1>12. CASE UNCHANGED vars
  <2>1. SameTraffic /\ UNCHANGED <<subs, pending, fwd, client, fromClient, cancelled>>
    BY <1>1, <1>12, UnchangedIsSame DEF vars, session, user, log
  <2> QED
    BY <2>1, <1>SameStep DEF SameTracked, FewerClaims
<1> QED
  BY <1>2, <1>3, <1>4, <1>6, <1>7, <1>8, <1>9, <1>10, <1>11, <1>12, Steps, <1>SendReplayTokens, <1>ReadReplayTokens,
     <1>FlushTokens, <1>PumpRequestTokens

LEMMA TokensInvariance == Spec => []Tokens
<1>InitTokens. Init => Tokens
  <2> SUFFICES ASSUME Init PROVE Tokens
    OBVIOUS
  <2>1. /\ conn = [e \in Conns |-> NoConn] /\ fwd = [g \in {0} \cup Conns |-> Free]
        /\ pending = Empty /\ subs = Empty /\ cancelled = {} /\ fromClient = <<>>
        /\ client = [state |-> "open", reader |-> "reading", held |-> <<>>, broken |-> FALSE, sent |-> 0, known |-> {}]
    BY DEF Init
  <2>2. \A e \in Conns : conn[e].asked = {} /\ Len(conn[e].down) = 0
    BY <2>1 DEF NoConn
  <2>3. \A g \in Goroutines : fwd[g].st = "free"
    BY <2>1 DEF Goroutines, Free
  <2>4. DOMAIN pending = {} /\ DOMAIN subs = {}
    BY <2>1 DEF Empty
  <2>5. /\ \A e \in Conns : \A k \in Ops : ~Asks(e, k) /\ ~Told(e, k)
        /\ \A g \in Goroutines : \A k \in Ops : ~Claimed(g, k)
        /\ \A k \in Ops : ~Tracked(k) /\ ~Kept(k)
    BY <2>1, <2>2, <2>3, <2>4, NoPosition DEF Asks, Told, Claimed, Tracked, Kept
  <2>6. \A k \in Ops : ~InFlight(k) /\ ~Used(k)
    BY <2>4, <2>5 DEF InFlight, Used
  <2>7. Len(Queue) = 0
    BY <2>1, SMT DEF Queue
  <2>8. QueueOK
    BY <2>6, <2>7, NoPosition DEF QueueOK
  <2>9. PlaceOK
    BY <2>2, <2>5, NoPosition DEF PlaceOK, OneAsk, AskedOrTold, OneTold, ClaimedOnly, OneClaim
  <2>10. KeptOK
    BY <2>2, <2>4, <2>5 DEF KeptOK
  <2>11. PendingOK
    BY <2>2, NoPosition DEF PendingOK
  <2> QED
    BY <2>8, <2>9, <2>10, <2>11 DEF Tokens
<1> QED
  BY <1>InitTokens, NextTokens, ShapeInvariance, WireInvariance, PTL DEF Spec

-----------------------------------------------------------------------------
(***************************************************************************)
(* The two tables of routes.                                               *)
(***************************************************************************)
\* The steps that change the tables.
LEMMA TablesChange ==
    ASSUME Shape, [Next]_vars
    PROVE  \/ UNCHANGED <<subs, upToClient, cancelled>>
           \/ ReadReplay /\ cur \in Conns /\ \E f \in Frames : Popped(cur) /\ Remaps(f)
           \/ \E e \in Conns : Register(e)
           \/ PumpRequest /\ cur \in Conns /\ \E c \in DOMAIN subs : Unsubscribes(c) /\ c = Head(fromClient).sid
<1> USE DEF session, log
<1>1. CASE Walks
  BY <1>1, WalksDo
<1>2. CASE ReadReplay
  BY <1>2, ReadReplayDoes DEF FailReplay, Stashes
<1>3. CASE SendReplay \/ ReplayWriteFails \/ ReplayReadFails \/ Flush
  BY <1>3 DEF SendReplay, ReplayWriteFails, ReplayReadFails, FailReplay, Flush
<1>4. CASE PumpRequest
  <2>1. cur \in Conns /\ Handles(Head(fromClient))
    BY <1>4, PumpRequestDoes
  <2> QED
    BY <1>4, <2>1 DEF Handles, Rejects, Subscribes, Calls, Unsubscribes
<1>5. ASSUME NEW e \in Conns, ReadUpstream(e) \/ ReadUpstreamFails(e) \/ Upstream(e)
      PROVE  UNCHANGED <<subs, upToClient, cancelled>>
  BY <1>5 DEF ReadUpstream, ReadUpstreamFails, Upstream, UpAnswer, UpNotify, UpFails, upstreams
<1>6. ASSUME NEW g \in Goroutines, WriteToClient(g) \/ WriteToClientFails(g) PROVE UNCHANGED <<subs, upToClient, cancelled>>
  BY <1>6 DEF WriteToClient, WriteToClientFails
<1>7. CASE ClientSide
  BY <1>7 DEF ClientSide, ReadClient, ClientReaderStep, EnqueueClient, AbandonClient, ReadClientFails, ClientTurns,
              CancelContext, run
<1>8. CASE UNCHANGED vars
  BY <1>8 DEF vars
<1> QED
  BY <1>1, <1>2, <1>3, <1>4, <1>5, <1>6, <1>7, <1>8, Steps

LEMMA SameName ==
    ASSUME NEW d \in Conns, NEW e \in Conns, NEW j \in Ops, NEW k \in Ops, SubId(d, j) = SubId(e, k) PROVE d = e /\ j = k
BY UniqueIds, SMT

LEMMA NextRoutes == Shape /\ Wire /\ Tokens /\ RoutesAgree /\ [Next]_vars => RoutesAgree'
<1>RemapRoutes.
    ASSUME Shape, Wire, Tokens, RoutesAgree, cur \in Conns, NEW f \in Frames, Popped(cur), Remaps(f)
    PROVE  RoutesAgree'
  <2> USE <1>RemapRoutes
  <2>1. /\ f.id \in DOMAIN subs /\ DOMAIN subs' = DOMAIN subs
        /\ \A c \in DOMAIN subs : subs'[c].up = IF c = f.id THEN f.val ELSE subs[c].up
    BY RemapsTables
  <2>2. PICK c, val, old : c = f.id /\ val = f.val /\ old = subs[c].up
    OBVIOUS
  <2>3. val = SubId(cur, subs[c].k) /\ c \in DOMAIN subs
    BY <2>1, <2>2, RemapName
  <2>4. /\ DOMAIN upToClient' = (DOMAIN upToClient \ {old}) \cup {val} /\ upToClient'[val] = c
        /\ \A u \in DOMAIN upToClient' : u # val => upToClient'[u] = upToClient[u]
    <3>1. upToClient' = Put(Drop(upToClient, old), val, c)
      BY <2>2 DEF Remaps, remap
    <3>2. PICK t : t = Drop(upToClient, old)
      OBVIOUS
    <3>3. DOMAIN t = DOMAIN upToClient \ {old} /\ \A u \in DOMAIN t : t[u] = upToClient[u]
      BY <3>2, DropHas
    <3>4. DOMAIN upToClient' = DOMAIN t \cup {val} /\ upToClient'[val] = c
          /\ \A u \in DOMAIN t \ {val} : upToClient'[u] = t[u]
      BY <3>1, <3>2 DEF Put
    <3> QED
      BY <3>3, <3>4
  <2>5. \A d \in DOMAIN subs : d # c => subs[d].up # val
    <3>1. SUFFICES ASSUME NEW d \in DOMAIN subs, d # c, subs[d].up = val PROVE FALSE
      OBVIOUS
    <3>2. PICK x \in Conns : subs[d].up = SubId(x, subs[d].k)
      BY DEF Wire, NamedOK
    <3>3. subs[d].k \in Ops /\ subs[c].k \in Ops /\ subs[d].k # subs[c].k
      BY <2>3, <3>1 DEF Shape, TypeOK, Tokens, KeptOK
    <3> QED
      <4>1. SubId(x, subs[d].k) = SubId(cur, subs[c].k)
        BY <2>3, <3>1, <3>2
      <4> QED
        BY <3>3, <4>1, SameName, SMT
  <2>6. ASSUME NEW d \in DOMAIN subs' PROVE subs'[d].up \in DOMAIN upToClient' /\ upToClient'[subs'[d].up] = d
    <3>1. CASE d = c
      BY <2>1, <2>2, <2>4, <3>1
    <3>2. CASE d # c
      <4>1. d \in DOMAIN subs /\ subs'[d].up = subs[d].up /\ subs[d].up # val
        BY <2>1, <2>2, <2>5, <3>2
      <4>2. subs[d].up \in DOMAIN upToClient /\ upToClient[subs[d].up] = d /\ upToClient[old] = c
        BY <2>2, <2>3, <4>1 DEF RoutesAgree
      <4> QED
        BY <2>4, <3>2, <4>1, <4>2
    <3> QED
      BY <3>1, <3>2
  <2>7. ASSUME NEW u \in DOMAIN upToClient' PROVE upToClient'[u] \in DOMAIN subs' /\ subs'[upToClient'[u]].up = u
    <3>1. CASE u = val
      BY <2>1, <2>2, <2>3, <2>4, <3>1
    <3>2. CASE u # val
      <4>1. u \in DOMAIN upToClient /\ u # old /\ upToClient'[u] = upToClient[u]
        BY <2>4, <3>2
      <4>2. upToClient[u] \in DOMAIN subs /\ subs[upToClient[u]].up = u
        BY <4>1 DEF RoutesAgree
      <4>3. upToClient[u] # c
        BY <2>2, <4>1, <4>2
      <4> QED
        BY <2>1, <2>2, <4>1, <4>2, <4>3
    <3> QED
      BY <3>1, <3>2
  <2> QED
    BY <2>6, <2>7 DEF RoutesAgree
<1>RegisterRoutes.
    ASSUME Shape, Wire, Tokens, RoutesAgree, NEW e \in Conns, Register(e) PROVE RoutesAgree'
  <2> USE <1>RegisterRoutes
  <2>1. e \in Goroutines /\ fwd[e].st = "register"
    BY DEF Register, Goroutines
  <2>2. PICK id, k : id = fwd[e].f.val /\ k = fwd[e].k
    OBVIOUS
  <2>3. Registers(e, id, k) /\ k \in Ops /\ id = SubId(e, k)
    BY <2>1, <2>2, RegisterDoes DEF Registers, Wire, ClaimOK
  <2>4. id \notin DOMAIN subs /\ \A c \in DOMAIN subs : subs[c].k # k
    BY <2>2, RegisterTokens
  <2>5. \A c \in DOMAIN subs : subs[c].up # id
    <3>1. SUFFICES ASSUME NEW c \in DOMAIN subs, subs[c].up = id PROVE FALSE
      OBVIOUS
    <3>2. PICK x \in Conns : subs[c].up = SubId(x, subs[c].k)
      BY DEF Wire, NamedOK
    <3>3. subs[c].k \in Ops
      BY DEF Shape, TypeOK
    <3> QED
      <4>1. SubId(x, subs[c].k) = SubId(e, k)
        BY <2>3, <3>1, <3>2
      <4> QED
        BY <2>3, <2>4, <3>3, <4>1, SameName, SMT
  <2>6. id \notin DOMAIN upToClient
    BY <2>5 DEF RoutesAgree
  <2>7. /\ DOMAIN subs' = DOMAIN subs \cup {id} /\ subs'[id].up = id
        /\ \A c \in DOMAIN subs : subs'[c] = subs[c]
    BY <2>3, <2>4 DEF Registers, Put
  <2>8. /\ DOMAIN upToClient' = DOMAIN upToClient \cup {id} /\ upToClient'[id] = id
        /\ \A u \in DOMAIN upToClient : upToClient'[u] = upToClient[u]
    BY <2>3, <2>6 DEF Registers, Put
  <2> QED
    BY <2>7, <2>8, SMT DEF RoutesAgree
<1>UnsubRoutes.
    ASSUME RoutesAgree, NEW c \in DOMAIN subs, Unsubscribes(c) PROVE RoutesAgree'
  <2> USE <1>UnsubRoutes
  <2>1. upToClient' = Drop(upToClient, subs[c].up) /\ subs' = Drop(subs, c)
    BY DEF Unsubscribes
  <2>2. DOMAIN subs' = DOMAIN subs \ {c} /\ \A d \in DOMAIN subs \ {c} : subs'[d] = subs[d]
    BY <2>1, DropHas
  <2>3. PICK old : old = subs[c].up
    OBVIOUS
  <2>4. DOMAIN upToClient' = DOMAIN upToClient \ {old} /\ \A u \in DOMAIN upToClient \ {old} : upToClient'[u] = upToClient[u]
    BY <2>1, <2>3, DropHas
  <2>5. \A d \in DOMAIN subs : d # c => subs[d].up # old
    BY <2>3 DEF RoutesAgree
  <2> QED
    BY <2>2, <2>3, <2>4, <2>5, SMT DEF RoutesAgree
<1> SUFFICES ASSUME Shape, Wire, Tokens, RoutesAgree, [Next]_vars PROVE RoutesAgree'
  OBVIOUS
<1>1. CASE UNCHANGED <<subs, upToClient, cancelled>>
  BY <1>1 DEF RoutesAgree
<1> QED
  BY <1>1, TablesChange, <1>RemapRoutes, <1>RegisterRoutes, <1>UnsubRoutes

\* subs and upToClient stay inverse to each other through every registration,
\* remapping and cancellation, whatever failover runs in between: replaySubscriptions
\* drops the route of the id it replaces, and no two subscriptions share one.
THEOREM TablesAgree == Spec => []RoutesAgree
<1>1. Init => RoutesAgree
  BY DEF Init, Empty, RoutesAgree
<1> QED
  BY <1>1, NextRoutes, ShapeInvariance, WireInvariance, TokensInvariance, PTL DEF Spec

\* The steps in which forwardToClient begins.
LEMMA ForwardSteps ==
    ASSUME Shape, Wire, [Next]_vars
    PROVE  \/ \A g \in Goroutines : \/ fwd'[g] = fwd[g] \/ (fwd[g].st = "write" /\ fwd'[g].st = "free")
                                    \/ fwd[g].st = "register" /\ Register(g) /\ fwd'[g] = [st |-> "write", f |-> fwd[g].f]
                                    \/ g = 0 /\ PumpRequest /\ \E id \in Ops : fwd'[0] = [st |-> "write", f |-> Resp(id, NoVal)]
           \/ \E e \in Conns : \E f \in Frames :
                 ReadUpstream(e) /\ Popped(e) /\ f = Head(conn[e].down) /\ Forwards(e, f) /\ SentOK(e, f)
           \/ Flush /\ cur \in Conns /\ pending' = pending
              /\ \E f \in Frames : buf # <<>> /\ f = buf[1] /\ buf' = Tail(buf) /\ Forwards(0, f) /\ SentOK(cur, f) /\ f.t # "resp"
<1>1. CASE Walks
  BY <1>1, WalksDo
<1>2. CASE ReadReplay
  BY <1>2, ReadReplayDoes DEF FailReplay, Stashes, Remaps
<1>3. CASE SendReplay \/ ReplayWriteFails \/ ReplayReadFails
  BY <1>3 DEF SendReplay, ReplayWriteFails, ReplayReadFails, FailReplay
<1>4. CASE Flush
  <2>1. cur \in Conns /\ buf \in Seq(Frames) /\ 0 \in Goroutines
    BY <1>4, FlushDoes DEF Shape, TypeOK
  <2>2. CASE UNCHANGED <<buf, fwd, pending>>
    BY <2>2
  <2>3. CASE buf # <<>> /\ Head(buf) \in Frames /\ BeginForward(0, Head(buf)) /\ buf' = Tail(buf)
    <3>1. PICK f \in Frames : f = Head(buf)
      BY <2>3
    <3>2. Forwards(0, f)
      BY <2>1, <2>3, <3>1, BeginForwardDoes
    <3>3. f = buf[1] /\ 1 \in 1 .. Len(buf)
      BY <2>1, <2>3, <3>1, SMT
    <3>4. SentOK(cur, f) /\ f.t # "resp"
      BY <3>3 DEF Wire, BufOK
    <3>5. pending' = pending
      BY <3>2, <3>4 DEF Forwards
    <3> QED
      BY <1>4, <2>1, <2>3, <3>2, <3>3, <3>4, <3>5
  <2> QED
    BY <1>4, <2>2, <2>3, FlushDoes
<1>5. CASE PumpRequest
  <2>1. PICK r \in ClientFrames : Handles(r)
    BY <1>5, PumpRequestDoes
  <2>2. CASE r.id \in Ops /\ Rejects(r.id)
    BY <1>5, <2>2 DEF Rejects, Goroutines
  <2>3. CASE fwd' = fwd
    BY <2>3
  <2> QED
    BY <2>1, <2>2, <2>3 DEF Handles, Subscribes, Unsubscribes, Calls
<1>6. ASSUME NEW e \in Conns, ReadUpstream(e)
      PROVE  \E f \in Frames : Popped(e) /\ f = Head(conn[e].down) /\ Forwards(e, f) /\ SentOK(e, f)
  <2>1. PICK f \in Frames : f = Head(conn[e].down) /\ Forwards(e, f)
    BY <1>6, ReadUpstreamDoes
  <2>2. Popped(e)
    BY <1>6, ReadUpstreamDoes
  <2>3. 1 \in 1 .. Len(conn[e].down) /\ f = conn[e].down[1]
    BY <2>1, <2>2, PoppedDown
  <2>4. SentOK(e, f)
    BY <2>3 DEF Wire, WireOK
  <2> QED
    BY <2>1, <2>2, <2>4
<1>7. ASSUME NEW e \in Conns, ReadUpstreamFails(e) \/ Upstream(e) PROVE fwd' = fwd
  BY <1>7 DEF ReadUpstreamFails, Upstream, UpAnswer, UpNotify, UpFails, upstreams
<1>8. ASSUME NEW e \in Conns, Register(e)
      PROVE  /\ e \in Goroutines /\ fwd[e].st = "register" /\ fwd'[e] = [st |-> "write", f |-> fwd[e].f]
             /\ \A g \in Goroutines \ {e} : fwd'[g] = fwd[g]
  <2>1. e \in Goroutines
    BY DEF Goroutines
  <2>2. Registers(e, fwd[e].f.val, fwd[e].k)
    BY <1>8, <2>1, RegisterDoes
  <2> QED
    BY <1>8, <2>1, <2>2 DEF Register, Registers
<1>9. ASSUME NEW g \in Goroutines, WriteToClient(g) \/ WriteToClientFails(g)
      PROVE  fwd[g].st = "write" /\ fwd'[g].st = "free" /\ \A h \in Goroutines \ {g} : fwd'[h] = fwd[h]
  <2>1. fwd[g].st = "write" /\ fwd' = [fwd EXCEPT ![g] = Free]
    BY <1>9 DEF WriteToClient, WriteToClientFails
  <2> QED
    BY <2>1, ShapeParts DEF FwdType, Free
<1>10. CASE ClientSide
  BY <1>10 DEF ClientSide, ReadClient, ClientReaderStep, EnqueueClient, AbandonClient, ReadClientFails, ClientTurns,
              CancelContext, run
<1>11. CASE UNCHANGED vars
  BY <1>11 DEF vars
<1> QED
  BY <1>1, <1>2, <1>3, <1>4, <1>5, <1>6, <1>7, <1>8, <1>9, <1>10, <1>11, Steps

LEMMA NewNotes ==
    ASSUME Shape, Wire, [Next]_vars, NEW g \in Goroutines, WritingNote(g)'
    PROVE  fwd'[g] = fwd[g] \/ \E e \in Conns, f \in Frames : BeginsNote(g, e, f)
<1>1. fwd'[g].st = "write" /\ fwd'[g].f.t = "note"
  BY DEF WritingNote, Writing
<1>2. CASE fwd[g].st = "register" /\ fwd'[g] = [st |-> "write", f |-> fwd[g].f]
  <2>1. fwd[g].f.t = "resp"
    BY <1>2 DEF Shape
  <2> QED
    BY <1>1, <1>2, <2>1, WriteRec
<1>3. ASSUME NEW id \in Ops, fwd'[g] = [st |-> "write", f |-> Resp(id, NoVal)] PROVE FALSE
  <2>1. fwd'[g].f = Resp(id, NoVal)
    BY <1>3, WriteRec
  <2> QED
    BY <1>1, <2>1, RespRec
<1>4. ASSUME NEW e \in Conns, NEW f \in Frames, Forwards(g, f), SentOK(e, f)
      PROVE  /\ f.t = "note" /\ f.k \in Ops /\ f.sid = SubId(e, f.k) /\ pending' = pending
             /\ fwd'[g].f.sid = clientID(f.sid) /\ fwd'[g].f.k = f.k
  <2>1. f.t = "note" /\ pending' = pending /\ fwd'[g] = [st |-> "write", f |-> Note(clientID(f.sid), f.k)]
    <3>1. fwd'[g] # [st |-> "register", f |-> f, k |-> pending[f.id]]
      BY <1>1, RegisterRec
    <3>2. f.t # "note" => fwd'[g] # [st |-> "write", f |-> f]
      BY <1>1, WriteRec
    <3> QED
      BY <1>4, <3>1, <3>2 DEF Forwards
  <2>2. fwd'[g].f.sid = clientID(f.sid) /\ fwd'[g].f.k = f.k
    <3>1. fwd'[g].f = Note(clientID(f.sid), f.k)
      BY <2>1, WriteRec
    <3> QED
      BY <3>1, NoteRec, SMT
  <2>3. f.k \in Ops /\ f.sid = SubId(e, f.k)
    BY <1>4, <2>1 DEF SentOK, Frames
  <2> QED
    BY <2>1, <2>2, <2>3
<1>5. ASSUME NEW e \in Conns, NEW f \in Frames, ReadUpstream(e), Popped(e), f = Head(conn[e].down), Forwards(e, f),
             SentOK(e, f)
      PROVE  fwd'[g] = fwd[g] \/ BeginsNote(g, e, f)
  <2>1. CASE g # e
    BY <1>5, <2>1 DEF Forwards
  <2>2. CASE g = e
    <3>1. 1 \in 1 .. Len(conn[e].down) /\ f = conn[e].down[1]
      BY <1>5, PoppedDown
    <3> QED
      BY <1>4, <1>5, <2>2, <3>1 DEF BeginsNote
  <2> QED
    BY <2>1, <2>2
<1>6. ASSUME NEW f \in Frames, Flush, cur \in Conns, buf # <<>>, f = buf[1], Forwards(0, f), SentOK(cur, f)
      PROVE  fwd'[g] = fwd[g] \/ BeginsNote(g, cur, f)
  <2>1. CASE g # 0
    BY <1>6, <2>1 DEF Forwards
  <2>2. CASE g = 0
    <3>1. 1 \in 1 .. Len(buf)
      BY <1>6, SMT DEF Shape, TypeOK
    <3> QED
      BY <1>4, <1>6, <2>2, <3>1 DEF BeginsNote
  <2> QED
    BY <2>1, <2>2
<1> QED
  BY <1>1, <1>2, <1>3, <1>5, <1>6, ForwardSteps

LEMMA NextNoted == Shape /\ Wire /\ RoutesAgree /\ NotedOK /\ [Next]_vars => NotedOK'
\* A notification keeps its subscription through the lookup.
<1>LookupNames.
    ASSUME Shape, Wire, RoutesAgree, NEW e \in Conns, NEW k \in Ops
    PROVE  \E d \in Conns : clientID(SubId(e, k)) = SubId(d, k)
  <2> USE <1>LookupNames
  <2>1. PICK u : u = SubId(e, k)
    OBVIOUS
  <2>2. CASE u \in DOMAIN upToClient
    <3>1. PICK c \in DOMAIN subs : c = upToClient[u] /\ subs[c].up = u
      BY <2>2 DEF RoutesAgree
    <3>2. PICK d \in Conns : c = SubId(d, subs[c].k)
      BY DEF Wire, NamedOK
    <3>3. PICK x \in Conns : u = SubId(x, subs[c].k)
      BY <3>1 DEF Wire, NamedOK
    <3>4. subs[c].k \in Ops
      BY DEF Shape, TypeOK
    <3>5. subs[c].k = k
      <4>1. SubId(e, k) = SubId(x, subs[c].k)
        BY <2>1, <3>3
      <4> QED
        BY <3>4, <4>1, SameName, SMT
    <3> QED
      BY <2>1, <2>2, <3>1, <3>2, <3>5 DEF clientID
  <2>3. CASE u \notin DOMAIN upToClient
    BY <2>1, <2>3 DEF clientID
  <2> QED
    BY <2>2, <2>3
<1> SUFFICES ASSUME Shape, Wire, RoutesAgree, NotedOK, [Next]_vars, NEW g \in Goroutines, WritingNote(g)'
             PROVE  \E d \in Conns : fwd'[g].f.sid = SubId(d, fwd'[g].f.k)
  BY DEF NotedOK
<1>1. CASE fwd'[g] = fwd[g]
  BY <1>1 DEF NotedOK, WritingNote, Writing
<1>2. ASSUME NEW e \in Conns, NEW f \in Frames, BeginsNote(g, e, f)
      PROVE  \E d \in Conns : fwd'[g].f.sid = SubId(d, fwd'[g].f.k)
  <2>1. f.k \in Ops /\ f.sid = SubId(e, f.k) /\ fwd'[g].f.sid = clientID(f.sid) /\ fwd'[g].f.k = f.k
    BY <1>2 DEF BeginsNote
  <2>2. \E d \in Conns : clientID(f.sid) = SubId(d, f.k)
    BY <2>1, <1>LookupNames, SMT
  <2> QED
    BY <2>1, <2>2
<1> QED
  BY <1>1, <1>2, NewNotes

LEMMA NotedInvariance == Spec => []NotedOK
<1>1. Init => NotedOK
  BY SMT DEF Init, Free, NotedOK, WritingNote, Writing, Goroutines
<1> QED
  BY <1>1, NextNoted, ShapeInvariance, WireInvariance, TablesAgree, PTL DEF Spec

\* A notification that forwardToClient writes carries an id some upstream gave to
\* the very subscription it is about, and never the client's id of another one.
THEOREM NotesStayWithTheirSubscription == Spec => []NotesReachTheirSubscription
<1>1. Shape /\ Wire /\ NotedOK => NotesReachTheirSubscription
  <2> SUFFICES ASSUME Shape, Wire, NotedOK, NEW g \in DOMAIN fwd, WritingNote(g)
               PROVE  /\ \E e \in Conns : fwd[g].f.sid = SubId(e, fwd[g].f.k)
                      /\ fwd[g].f.sid \in DOMAIN subs => subs[fwd[g].f.sid].k = fwd[g].f.k
    BY DEF NotesReachTheirSubscription
  <2>1. g \in Goroutines /\ fwd[g] \in Forwarding
    BY ShapeParts DEF FwdType
  <2>2. PICK e \in Conns : fwd[g].f.sid = SubId(e, fwd[g].f.k)
    BY <2>1 DEF NotedOK
  <2>3. fwd[g].f.k \in Ops
    <3>1. fwd[g].f \in Frames /\ fwd[g].f.t = "note"
      BY <2>1, SMT DEF Forwarding, WritingNote, Writing, Free
    <3> QED
      BY <3>1 DEF Frames
  <2>4. ASSUME fwd[g].f.sid \in DOMAIN subs PROVE subs[fwd[g].f.sid].k = fwd[g].f.k
    <3>1. PICK c \in DOMAIN subs : c = fwd[g].f.sid
      BY <2>4
    <3>2. PICK d \in Conns : c = SubId(d, subs[c].k)
      BY DEF Wire, NamedOK
    <3>3. subs[c].k \in Ops
      BY DEF Shape, TypeOK
    <3> QED
      BY <2>2, <2>3, <3>1, <3>2, <3>3, UniqueIds, SMT
  <2> QED
    BY <2>2, <2>4
<1> QED
  BY <1>1, ShapeInvariance, WireInvariance, NotedInvariance, PTL

-----------------------------------------------------------------------------
(***************************************************************************)
(* The ids the client was given.                                           *)
(***************************************************************************)
LEMMA HonouredStays ==
    ASSUME Shape, Wire, [Next]_vars, NEW v, Honoured(v) PROVE Honoured(v)'
<1>1. CASE UNCHANGED <<subs, upToClient, cancelled>>
  BY <1>1 DEF Honoured
<1>2. ASSUME ReadReplay, NEW f \in Frames, Remaps(f) PROVE Honoured(v)'
  <2>1. DOMAIN subs' = DOMAIN subs /\ cancelled' = cancelled
    BY <1>2, RemapsTables DEF Remaps, log
  <2> QED
    BY <2>1 DEF Honoured
<1>3. ASSUME NEW e \in Conns, Register(e) PROVE Honoured(v)'
  <2>1. DOMAIN subs \subseteq DOMAIN subs' /\ cancelled' = cancelled
    BY <1>3 DEF Register, Put, log
  <2> QED
    BY <2>1 DEF Honoured
<1>4. ASSUME NEW c \in DOMAIN subs, Unsubscribes(c) PROVE Honoured(v)'
  <2>1. DOMAIN subs' = DOMAIN subs \ {c} /\ cancelled' = cancelled \cup {subs[c].k}
    BY <1>4, DropHas DEF Unsubscribes
  <2>2. \E d \in Conns : c = SubId(d, subs[c].k)
    BY DEF Wire, NamedOK
  <2> QED
    BY <2>1, <2>2 DEF Honoured
<1> QED
  BY <1>1, <1>2, <1>3, <1>4, TablesChange

LEMMA NextGiven == Shape /\ Wire /\ Tokens /\ Given /\ [Next]_vars => Given'
\* Only writeToClient tells the client an id.
<1>KnownSteps.
    ASSUME Shape, [Next]_vars, NEW v \in client'.known
    PROVE  \/ v \in client.known
           \/ \E g \in Goroutines : fwd[g].st = "write" /\ fwd[g].f.t = "resp" /\ fwd[g].f.val = v /\ v \in SubIds
  <2> USE <1>KnownSteps
  <2>1. client \in ClientRec
    BY ShapeParts DEF UserType
  <2>2. ASSUME client'.known = client.known PROVE v \in client.known
    BY <2>2
  <2>3. CASE client' = client
    BY <2>2, <2>3
  <2>4. ASSUME NEW g \in Goroutines, WriteToClient(g)
        PROVE  v \in client.known \/ (fwd[g].st = "write" /\ fwd[g].f.t = "resp" /\ fwd[g].f.val = v /\ v \in SubIds)
    <3>1. CASE client' = client
      BY <3>1
    <3>2. CASE fwd[g].f.t = "resp" /\ fwd[g].f.val \in SubIds /\ client' = [client EXCEPT !.known = @ \cup {fwd[g].f.val}]
      <4>1. client'.known = client.known \cup {fwd[g].f.val}
        BY <2>1, <3>2 DEF ClientRec
      <4> QED
        BY <2>4, <3>2, <4>1 DEF WriteToClient
    <3> QED
      BY <2>4, <3>1, <3>2 DEF WriteToClient
  <2>5. ASSUME NEW g \in Goroutines, WriteToClientFails(g) PROVE v \in client.known
    <3>1. client'.known = client.known
      BY <2>1, <2>5, WriteToClientFailsDoes DEF ClientRec
    <3> QED
      BY <3>1
  <2>6. CASE ClientSide
    <3>1. client'.known = client.known
      BY <2>1, <2>6 DEF ClientSide, ReadClient, ClientReaderStep, EnqueueClient, AbandonClient, ReadClientFails, ClientTurns,
                        CancelContext, ClientRec
    <3> QED
      BY <3>1
  <2>7. CASE Walks \/ PumpRequest
    BY <2>3, <2>7, WalksDo, PumpRequestDoes
  <2>8. CASE ReadReplay
    BY <2>3, <2>8, ReadReplayDoes DEF FailReplay, Stashes, Remaps, user
  <2>9. CASE SendReplay \/ ReplayWriteFails \/ ReplayReadFails \/ Flush
    BY <2>3, <2>9 DEF SendReplay, ReplayWriteFails, ReplayReadFails, FailReplay, Flush, user
  <2>10. ASSUME NEW e \in Conns, ReadUpstream(e) \/ ReadUpstreamFails(e) \/ Register(e) \/ Upstream(e) PROVE v \in client.known
    BY <2>3, <2>10 DEF ReadUpstream, ReadUpstreamFails, Register, Upstream, UpAnswer, UpNotify, UpFails, upstreams, user
  <2>11. CASE UNCHANGED vars
    BY <2>3, <2>11 DEF vars, user
  <2> QED
    BY <2>4, <2>5, <2>6, <2>7, <2>8, <2>9, <2>10, <2>11, Steps
\* An id that is about to be written is tracked.
<1>WrittenIds.
    ASSUME Shape, Wire, Tokens, Given, [Next]_vars,
           NEW g \in Goroutines, Writing(g)', fwd'[g].f.t = "resp", fwd'[g].f.val # NoVal
    PROVE  Honoured(fwd[g].f.val)'
  <2> USE <1>WrittenIds
  <2>1. PICK v : v = fwd'[g].f.val
    OBVIOUS
  <2>2. fwd'[g].st = "write"
    BY DEF Writing
  <2>3. CASE fwd'[g] = fwd[g]
    <3>1. Honoured(v)
      BY <2>1, <2>2, <2>3 DEF Given, Writing
    <3>2. Honoured(v)'
      BY <3>1, HonouredStays
    <3> QED
      BY <2>1, <3>2 DEF Honoured
  <2>4. CASE fwd[g].st = "register" /\ Register(g) /\ fwd'[g] = [st |-> "write", f |-> fwd[g].f]
    <3>1. v = fwd[g].f.val
      BY <2>1, <2>4, SMT
    <3>2. v \in DOMAIN subs'
      BY <2>4, <3>1 DEF Register, Put
    <3> QED
      BY <2>1, <3>2 DEF Honoured
  <2>5. ASSUME NEW id \in Ops, fwd'[g] = [st |-> "write", f |-> Resp(id, NoVal)] PROVE FALSE
    <3>1. fwd'[g].f = Resp(id, NoVal)
      BY <2>5, WriteRec
    <3> QED
      BY <3>1, RespRec
  <2>6. ASSUME NEW e \in Conns, NEW f \in Frames, Popped(e), f = Head(conn[e].down), Forwards(e, f), g = e PROVE FALSE
    <3>1. f.t = "resp" /\ fwd'[g] = [st |-> "write", f |-> f] /\ (f.val = NoVal \/ f.id \notin DOMAIN pending)
      <4>1. fwd'[g] = [st |-> "write", f |-> Note(clientID(f.sid), f.k)] => fwd'[g].f.t = "note"
        BY SMT DEF Note
      <4>2. /\ fwd'[g] = [st |-> "register", f |-> f, k |-> pending[f.id]] => fwd'[g].st # "write"
            /\ fwd'[g] = [st |-> "write", f |-> f] => fwd'[g].f = f
        BY WriteRec, RegisterRec
      <4> QED
        BY <2>2, <2>6, <4>1, <4>2 DEF Forwards
    <3>2. f.val # NoVal /\ f.id \notin DOMAIN pending
      BY <3>1, SMT
    <3>3. 1 \in 1 .. Len(conn[e].down) /\ f = conn[e].down[1]
      BY <2>6, PoppedDown
    <3> QED
      BY <3>1, <3>2, <3>3 DEF Tokens, PendingOK
  <2>7. ASSUME NEW f \in Frames, Forwards(0, f), f.t # "resp", g = 0 PROVE FALSE
    <3>1. fwd'[g].f.t # "resp"
      <4>1. fwd'[g] = [st |-> "write", f |-> Note(clientID(f.sid), f.k)] => fwd'[g].f.t = "note"
        BY SMT DEF Note
      <4>2. fwd'[g] = [st |-> "write", f |-> f] => fwd'[g].f = f
        BY WriteRec
      <4> QED
        BY <2>2, <2>7, <4>1, <4>2 DEF Forwards
    <3> QED
      BY <3>1
  <2>8. ASSUME NEW h \in Goroutines, NEW f, Forwards(h, f), g # h PROVE fwd'[g] = fwd[g]
    BY <2>8 DEF Forwards
  <2>9. 0 \in Goroutines /\ \A e \in Conns : e \in Goroutines
    BY DEF Goroutines
  <2>10. CASE \/ fwd'[g] = fwd[g] \/ fwd'[g].st = "free"
              \/ fwd[g].st = "register" /\ Register(g) /\ fwd'[g] = [st |-> "write", f |-> fwd[g].f]
              \/ \E id \in Ops : fwd'[g] = [st |-> "write", f |-> Resp(id, NoVal)]
    BY <2>2, <2>3, <2>4, <2>5, <2>10
  <2>11. CASE \E e \in Conns : \E f \in Frames : Popped(e) /\ f = Head(conn[e].down) /\ Forwards(e, f)
    BY <2>3, <2>6, <2>8, <2>9, <2>11
  <2>12. CASE \E f \in Frames : Forwards(0, f) /\ f.t # "resp"
    BY <2>3, <2>7, <2>8, <2>9, <2>12
  <2> QED
    BY <2>10, <2>11, <2>12, ForwardSteps
<1> SUFFICES ASSUME Shape, Wire, Tokens, Given, [Next]_vars PROVE Given'
  OBVIOUS
<1>1. ASSUME NEW v \in client'.known PROVE Honoured(v)'
  <2>1. Honoured(v)
    <3>1. CASE v \in client.known
      BY <3>1 DEF Given
    <3>2. CASE \E g \in Goroutines : fwd[g].st = "write" /\ fwd[g].f.t = "resp" /\ fwd[g].f.val = v /\ v \in SubIds
      BY <3>2, SessionAssumption DEF Given, Writing, SessionAssumption
    <3> QED
      BY <3>1, <3>2, <1>KnownSteps
  <2> QED
    BY <2>1, HonouredStays
<1>2. \A g \in Goroutines : Writing(g)' /\ fwd'[g].f.t = "resp" /\ fwd'[g].f.val # NoVal => Honoured(fwd[g].f.val)'
  BY <1>WrittenIds
<1> QED
  BY <1>1, <1>2 DEF Given

LEMMA GivenInvariance == Spec => []Given
<1>1. Init => Given
  <2> SUFFICES ASSUME Init PROVE Given
    OBVIOUS
  <2>1. client.known = {}
    BY DEF Init
  <2>2. \A g \in Goroutines : ~Writing(g)
    BY DEF Init, Goroutines, Writing, Free
  <2> QED
    BY <2>1, <2>2 DEF Given
<1> QED
  BY <1>1, NextGiven, ShapeInvariance, WireInvariance, TokensInvariance, PTL DEF Spec

\* The client never holds an id the session has forgotten: an id is written only
\* after it was registered, and only the client's own unsubscribe removes it.
THEOREM GivenIdsAreKept == Spec => []GivenIdsStayTracked
<1>1. Given => GivenIdsStayTracked
  BY DEF Given, Honoured, GivenIdsStayTracked
<1> QED
  BY <1>1, GivenInvariance, PTL

-----------------------------------------------------------------------------
(***************************************************************************)
(* Who writes to the client.                                               *)
(***************************************************************************)
LEMMA OrphanStep ==
    ASSUME NoteOrphan, ~orphaned'
    PROVE  ~orphaned /\ ~(pc = "pump" /\ pc' = "connect" /\ reader[cur] = "running")
BY DEF NoteOrphan

LEMMA NextWriters == Shape /\ Wire /\ Writers /\ [Next]_vars => Writers'
<1>WritersNext.
    ASSUME ~orphaned' => OneReader',
           pc' = "pump" => \/ fwd'[0].st = "free"
                           \/ fwd'[0].st = "write" /\ fwd'[0].f.t = "resp" /\ fwd'[0].f.val = NoVal
    PROVE  Writers'
  BY <1>WritersNext DEF Writers, OneReader, Writing
<1>QuietWriters.
    ASSUME Writers, UNCHANGED <<cur, pc>>, ~orphaned' => ~orphaned,
           \A e \in Conns : reader'[e] = "running" => reader[e] = "running", fwd'[0] = fwd[0] \/ fwd'[0].st = "free"
    PROVE  Writers'
  BY <1>QuietWriters DEF Writers, Writing
\* run itself moves on.
<1>RunWriters.
    ASSUME Shape, Writers, ~StuckWrite,
           Walks \/ SendReplay \/ ReplayWriteFails \/ ReplayReadFails \/ ReadReplay \/ Flush
    PROVE  Writers'
  <2> USE <1>RunWriters
  <2>1. /\ reader \in [Conns -> {"none", "running", "done"}] /\ orphaned' = orphaned
        /\ pc \in {"connect", "replay", "read_replay", "flush", "pump", "wait_done", "over", "returned"}
        /\ fwd[0].st # "free" => pc \in {"flush", "pump"}
        /\ pc \in {"replay", "flush", "pump", "wait_done"} => cur \in Conns
    <3>1. orphaned' = orphaned
      BY ReadReplayDoes
         DEF Walks, ConnectUpstream, NoUpstream, NothingToReplay, PumpUpstreamDone, PumpEnds, PingFails, WaitDone, Return,
             SendReplay, ReplayWriteFails, ReplayReadFails, FailReplay, Flush, Stashes, Remaps, log
    <3> QED
      BY <3>1, SMT DEF Shape, TypeOK, Conns
  <2>2. CASE SendReplay \/ ReplayWriteFails \/ ReplayReadFails
    <3>1. pc \in {"replay", "read_replay"} /\ pc' \in {"read_replay", "connect"} /\ UNCHANGED <<cur, reader>>
      BY <2>2 DEF SendReplay, ReplayWriteFails, ReplayReadFails, FailReplay
    <3> QED
      BY <2>1, <3>1, <1>WritersNext DEF Writers, OneReader
  <2>3. CASE ReadReplay
    <3>1. pc = "read_replay" /\ pc' \in {"read_replay", "flush", "connect"} /\ UNCHANGED <<cur, reader>>
      BY <2>3, ReadReplayDoes DEF FailReplay, Stashes, Remaps
    <3> QED
      BY <2>1, <3>1, <1>WritersNext DEF Writers, OneReader
  <2>4. ASSUME pc \in {"replay", "flush"}, StartPump, UNCHANGED <<cur, fwd>>, fwd[0].st = "free" PROVE Writers'
    <3>1. pc' = "pump" /\ reader' = [reader EXCEPT ![cur] = "running"] /\ cur \in Conns
      BY <2>1, <2>4 DEF StartPump
    <3>2. \A e \in Conns : e # cur => reader'[e] = reader[e]
      BY <2>1, <3>1
    <3> QED
      BY <2>1, <2>4, <3>1, <3>2, <1>WritersNext DEF Writers, OneReader
  <2>5. CASE Flush
    <3>1. CASE StartPump /\ UNCHANGED fwd
      BY <2>4, <2>5, <3>1 DEF Flush
    <3>2. CASE UNCHANGED <<pc, reader>>
      BY <2>1, <2>5, <3>2, <1>WritersNext DEF Flush, Writers, OneReader
    <3> QED
      BY <2>5, <3>1, <3>2 DEF Flush
  <2>6. CASE NothingToReplay
    BY <2>1, <2>4, <2>6 DEF NothingToReplay
  <2>7. CASE ConnectUpstream \/ NoUpstream
    <3>1. pc = "connect" /\ pc' \in {"replay", "over"} /\ reader' = reader
      BY <2>7 DEF ConnectUpstream, NoUpstream
    <3> QED
      BY <2>1, <3>1, <1>WritersNext DEF Writers, OneReader
  <2>8. CASE PumpUpstreamDone \/ WaitDone
    <3>1. pc' = "connect" /\ UNCHANGED <<cur, reader>> /\ reader[cur] = "done"
      BY <2>8 DEF PumpUpstreamDone, WaitDone, Failover
    <3> QED
      BY <2>1, <3>1, <1>WritersNext DEF Writers, OneReader
  <2>9. CASE PumpEnds \/ PingFails \/ Return
    <3>1. pc \in {"pump", "over"} /\ pc' \in {"over", "wait_done", "returned"} /\ UNCHANGED <<cur, reader>>
      BY <2>9 DEF PumpEnds, PingFails, Return, Pumping, afterPing
    <3> QED
      BY <2>1, <3>1, <1>WritersNext DEF Writers, OneReader
  <2> QED
    BY <2>2, <2>3, <2>5, <2>6, <2>7, <2>8, <2>9 DEF Walks
<1>StuckWriteWriters. ASSUME Shape, Writers, StuckWrite PROVE Writers'
  <2> USE <1>StuckWriteWriters
  <2>1. pc = "pump" /\ pc' \in {"pump", "connect"} /\ UNCHANGED <<cur, reader, fwd>> /\ NoteOrphan
    BY DEF StuckWrite, Failover
  <2>2. ~orphaned' => OneReader'
    BY <2>1, OrphanStep DEF Writers, OneReader
  <2> QED
    BY <2>1, <2>2, <1>WritersNext DEF Writers, Writing
<1>PumpRequestWriters. ASSUME Shape, Writers, PumpRequest PROVE Writers'
  <2> USE <1>PumpRequestWriters
  <2>1. /\ pc = "pump" /\ fwd[0].st = "free" /\ UNCHANGED <<cur, reader>> /\ NoteOrphan
    BY PumpRequestDoes DEF PumpRequest
  <2>2. PICK r \in ClientFrames : Handles(r)
    BY PumpRequestDoes
  <2>3. pc' \in {"pump", "connect"}
    BY <2>1, <2>2, HandlesShape
  <2>4. fwd' = fwd \/ \E id \in Ops : fwd'[0] = [st |-> "write", f |-> Resp(id, NoVal)]
    BY <2>2 DEF Handles, Rejects, Subscribes, Unsubscribes, Calls
  <2>5. ASSUME NEW id \in Ops, fwd'[0] = [st |-> "write", f |-> Resp(id, NoVal)]
        PROVE  fwd'[0].st = "write" /\ fwd'[0].f.t = "resp" /\ fwd'[0].f.val = NoVal
    <3>1. fwd'[0].st = "write" /\ fwd'[0].f = Resp(id, NoVal)
      BY <2>5, SMT
    <3> QED
      BY <3>1, SMT DEF Resp
  <2>6. ~orphaned' => OneReader'
    BY <2>1, <2>3, OrphanStep DEF Writers, OneReader
  <2> QED
    BY <2>1, <2>4, <2>5, <2>6, <1>WritersNext
<1> SUFFICES ASSUME Shape, Wire, Writers, [Next]_vars PROVE Writers'
  OBVIOUS
<1>1. /\ reader \in [Conns -> {"none", "running", "done"}] /\ fwd \in [Goroutines -> Forwarding]
      /\ fwd[0].st # "free" => pc \in {"flush", "pump"}
  BY ShapeParts DEF FwdType, RunType
<1>2. \A e \in Conns : e # 0 /\ 0 \in Goroutines
  BY SMT DEF Conns, Goroutines
<1>3. ASSUME NEW e \in Conns, ReadUpstream(e) PROVE Writers'
  <2>1. UNCHANGED <<cur, pc, reader, orphaned>>
    BY <1>3 DEF ReadUpstream, log
  <2>2. fwd'[0] = fwd[0]
    BY <1>2, <1>3, ReadUpstreamDoes DEF Forwards
  <2> QED
    BY <2>1, <2>2, <1>QuietWriters
<1>4. ASSUME NEW e \in Conns, ReadUpstreamFails(e) PROVE Writers'
  <2>1. UNCHANGED <<cur, pc, orphaned, fwd>> /\ reader' = [reader EXCEPT ![e] = "done"]
    BY <1>4 DEF ReadUpstreamFails, log
  <2>2. \A d \in Conns : reader'[d] = "running" => reader[d] = "running"
    BY <1>1, <2>1
  <2> QED
    BY <2>1, <2>2, <1>QuietWriters
<1>5. ASSUME NEW e \in Conns, Register(e) PROVE Writers'
  <2>1. UNCHANGED <<cur, pc, reader, orphaned>> /\ fwd' = [fwd EXCEPT ![e] = [st |-> "write", f |-> fwd[e].f]]
    BY <1>5 DEF Register, log
  <2>2. fwd'[0] = fwd[0]
    BY <1>1, <1>2, <2>1
  <2> QED
    BY <2>1, <2>2, <1>QuietWriters
<1>6. ASSUME NEW g \in Goroutines, fwd' = [fwd EXCEPT ![g] = Free] PROVE fwd'[0] = fwd[0] \/ fwd'[0].st = "free"
  BY <1>1, <1>2, <1>6 DEF Free, Goroutines
<1>7. ASSUME NEW g \in Goroutines, WriteToClient(g) PROVE Writers'
  BY <1>6, <1>7, <1>QuietWriters DEF WriteToClient, log
<1>8. ASSUME NEW g \in Goroutines, WriteToClientFails(g) PROVE Writers'
  <2>1. /\ fwd' = [fwd EXCEPT ![g] = Free] /\ UNCHANGED cur /\ NoteOrphan
        /\ g = 0 => pc \in {"flush", "pump"} /\ reader' = reader /\ pc' = IF pc = "flush" THEN "over" ELSE "connect"
        /\ g # 0 => g \in Conns /\ pc' = pc /\ reader' = [reader EXCEPT ![g] = "done"]
    BY <1>8, WriteToClientFailsDoes DEF WriteToClientFails
  <2>2. CASE g = 0
    <3>1. ~orphaned' => OneReader'
      BY <2>1, <2>2, OrphanStep DEF Writers, OneReader
    <3>2. pc' # "pump"
      BY <2>1, <2>2
    <3> QED
      BY <3>1, <3>2, <1>WritersNext
  <2>3. CASE g # 0
    <3>1. \A d \in Conns : reader'[d] = "running" => reader[d] = "running"
      BY <1>1, <2>1, <2>3
    <3> QED
      BY <1>6, <2>1, <2>3, <3>1, OrphanStep, <1>QuietWriters
  <2> QED
    BY <2>2, <2>3
<1>9. CASE ClientSide \/ UNCHANGED vars
  <2>1. UNCHANGED <<cur, pc, reader, fwd, orphaned>>
    BY <1>9 DEF ClientSide, ReadClient, ClientReaderStep, EnqueueClient, AbandonClient, ReadClientFails, ClientTurns,
                CancelContext, run, vars, log
  <2> QED
    BY <2>1, <1>QuietWriters
<1>10. ASSUME NEW e \in Conns, Upstream(e) PROVE Writers'
  <2>1. UNCHANGED <<cur, pc, reader, fwd, orphaned>>
    BY <1>10 DEF Upstream, UpAnswer, UpNotify, UpFails, upstreams
  <2> QED
    BY <2>1, <1>QuietWriters
<1> QED
  BY <1>3, <1>4, <1>5, <1>7, <1>8, <1>9, <1>10, Steps, <1>RunWriters, <1>StuckWriteWriters, <1>PumpRequestWriters

LEMMA WritersInvariance == Spec => []Writers
<1>1. Init => Writers
  BY DEF Init, Writers, Writing, Free, Goroutines
<1> QED
  BY <1>1, NextWriters, ShapeInvariance, WireInvariance, PTL DEF Spec

\* Two goroutines write to the client connection at once only where pump rejects a
\* subscribe beside its reader, or where a reader outlived its pump.
THEOREM WritersMeetOnlyThere == Spec => []WritersMeetAtRejections
<1>1. Shape /\ Wire /\ Writers => WritersMeetAtRejections
  <2> SUFFICES ASSUME Shape, Wire, Writers, NEW g \in DOMAIN fwd, NEW h \in DOMAIN fwd,
                      g # h, Writing(g), Writing(h), ~orphaned
               PROVE  0 \in {g, h} /\ fwd[0].f.t = "resp" /\ fwd[0].f.val = NoVal
    BY DEF WritersMeetAtRejections
  <2>1. g \in Goroutines /\ h \in Goroutines
    BY ShapeParts DEF FwdType
  <2>2. ASSUME NEW e \in Goroutines, e # 0, Writing(e)
        PROVE  e = cur /\ pc \in {"pump", "wait_done", "over", "returned"}
    <3>1. e \in Conns /\ reader[e] = "running"
      BY <2>2 DEF Goroutines, Wire, WireOK, Writing
    <3> QED
      BY <3>1 DEF Writers
  <2>3. 0 \in {g, h}
    BY <2>1, <2>2
  <2>4. pc \in {"pump", "wait_done", "over", "returned"} /\ Writing(0)
    BY <2>1, <2>2, <2>3
  <2>5. pc = "pump"
    BY <2>4 DEF Shape, Writing
  <2> QED
    BY <2>3, <2>4, <2>5 DEF Writers, Writing
<1> QED
  BY <1>1, ShapeInvariance, WireInvariance, WritersInvariance, PTL

=============================================================================
