----------------------------- MODULE MainProofs -----------------------------
(***************************************************************************)
(* Proofs about the life of the process, for every set of configurations,  *)
(* clients and nodes.                                                      *)
(***************************************************************************)
EXTENDS Main, TLAPS

USE ZenonT(40)

HCP == INSTANCE HealthChecksProofs WITH Word <- MaxHeight + 1

\* Until it is used up the configuration is what Parse makes of its sources.
SetupOK ==
    /\ main \in {"early", "parse", "parsed"} => input \in Inputs
    /\ main \in {"parse", "parsed"} => logger = setupLoggerFromEarly(input)
    /\ main = "parsed" => cfg = Layered(input) /\ Accepts(input)

\* Each stage of the teardown leaves behind what the next one relies on.
TeardownOK ==
    /\ req \in [Clients -> {"idle", "lookup", "fetch", "keep"}]
    /\ main \in {"drain", "health", "close", "return", "exited"} => listener = "closed"
    /\ main \in {"health", "close", "return", "exited"} => drained \/ "drain" \in overdue
    /\ main \in {"close", "return", "exited"} => pc = "exited" \/ "health" \in overdue
    /\ store = "closed" => main \in {"return", "exited"}

\* Only an aborted probe fails, and without one the rotation is never empty.
ProbesOK ==
    /\ \A n \in HC!Nodes : outcome[n] = "failed" => ctxDone
    /\ \A n \in HC!Nodes : probe[n].st = "set_healthy" /\ ~probe[n].ok
                              => outcome[n] = "failed"
    /\ \E n \in HC!Nodes : healthy[n] \/ outcome[n] = "failed"

RotationOK == HCP!IInv /\ ProbesOK

-----------------------------------------------------------------------------
(***************************************************************************)
(* The layers of the configuration.                                        *)
(***************************************************************************)
\* What the last layer to speak leaves in a field.
LEMMA LayerByLayer ==
    ASSUME NEW in, NEW f \in Fields
    PROVE  LET file == IF cfgPath(in) # "" /\ yamlSets(f, in.yaml[f])
                       THEN ValueOf(f, in.yaml[f]) ELSE Default[f]
               var  == IF envSets(f, in.env[f]) THEN ValueOf(f, in.env[f]) ELSE file
               arg  == IF in.flag[f] = <<>> THEN var ELSE ValueOf(f, Last(in.flag[f]))
           IN  Layered(in)[f] = IF f \in Words \ {"redisURL"} THEN Exact(arg.w) ELSE arg
<1>1. f \in {"cacheBackend", "logLevel", "logFormat"} <=> f \in Words \ {"redisURL"}
  BY DEF Words
<1> QED
  BY <1>1 DEF Layered, normalise, VisitFlags, ApplyEnv, LoadFile

\* The defaults are spelled as normalise spells them.
LEMMA DefaultIsNormal ==
    ASSUME NEW f \in Words \ {"redisURL"} PROVE Exact(Default[f].w) = Default[f]
<1>1. f \in {"cacheBackend", "logLevel", "logFormat"}
  BY DEF Words
<1>2. /\ Default["cacheBackend"] = Exact("memory") /\ Default["logLevel"] = Exact("info")
      /\ Default["logFormat"] = Exact("text")
  BY SMT DEF Default
<1>3. \A w : Exact(Exact(w).w) = Exact(w)
  BY DEF Exact
<1> QED
  BY <1>1, <1>2, <1>3, SMT

\* A source says nothing, an empty string, something malformed or a value.
LEMMA FourWays ==
    ASSUME NEW f, NEW raw \in Raws(f)
    PROVE  /\ raw.t \in {"absent", "empty", "malformed", "value"}
           /\ raw.t = "absent" <=> raw = Absent
           /\ raw.t = "empty" <=> raw = Empty
           /\ raw.t = "malformed" <=> raw = Malformed
BY SMT DEF Raws, Absent, Empty, Malformed

\* What the file leaves in a field that it is accepted with.
LEMMA FileSpeaks ==
    ASSUME NEW in \in Inputs, ~LoadFileFails(in), NEW f \in Fields
    PROVE  LET sets == cfgPath(in) # "" /\ yamlSets(f, in.yaml[f])
               said == cfgPath(in) # "" /\ in.yaml[f] \notin {Absent, Empty}
           IN  /\ said => sets /\ ValueOf(f, in.yaml[f]) = in.yaml[f].v
               /\ ~said /\ sets => ValueOf(f, in.yaml[f]) = Default[f]
<1>1. in.yaml[f] \in Raws(f)
  BY InputAssumption
<1>2. cfgPath(in) # "" => in.yaml[f] # Malformed
  BY DEF LoadFileFails
<1>3. ASSUME cfgPath(in) # "", in.yaml[f] \notin {Absent, Empty}
      PROVE  in.yaml[f].t = "value"
  BY <1>1, <1>2, <1>3, FourWays
<1>4. ASSUME in.yaml[f] \in {Absent, Empty}, yamlSets(f, in.yaml[f])
      PROVE  in.yaml[f] = Empty /\ f = "wsAllowedOrigins"
  <2>1. Absent.t = "absent" /\ Empty.t = "empty"
    BY DEF Absent, Empty
  <2> QED
    BY <1>4, <2>1 DEF yamlSets
<1>5. ValueOf("wsAllowedOrigins", Empty) = Default["wsAllowedOrigins"]
  BY DEF ValueOf, Empty, Lists, Default
<1>6. in.yaml[f].t = "value" => yamlSets(f, in.yaml[f]) /\ ValueOf(f, in.yaml[f]) = in.yaml[f].v
  BY DEF yamlSets, ValueOf
<1> QED
  BY <1>3, <1>4, <1>5, <1>6

LEMMA SetupIsStrongest == SetupOK => StrongestSourceWins
<1> SUFFICES ASSUME SetupOK, main = "parsed" PROVE StrongestSourceWins
  BY DEF StrongestSourceWins
<1>1. input \in Inputs /\ cfg = Layered(input) /\ ~LoadFileFails(input)
  BY DEF SetupOK, Accepts
<1> SUFFICES ASSUME NEW f \in Fields
             PROVE  LET is(v) == cfg[f] = IF f \in Words \ {"redisURL"} THEN Exact(v.w) ELSE v
                    IN  /\ byFlag(f) => is(ValueOf(f, Last(input.flag[f])))
                        /\ ~byFlag(f) /\ byEnv(f) => is(input.env[f].v)
                        /\ ~byFlag(f) /\ ~byEnv(f) /\ byFile(f) => is(input.yaml[f].v)
                        /\ ~byFlag(f) /\ ~byEnv(f) /\ ~byFile(f) => cfg[f] = Default[f]
  BY DEF StrongestSourceWins
<1>2. input.env[f].t = "value" => ValueOf(f, input.env[f]) = input.env[f].v
  BY DEF ValueOf
<1>3. CASE byFlag(f)
  BY <1>1, <1>3, LayerByLayer DEF byFlag
<1>4. CASE ~byFlag(f) /\ byEnv(f)
  BY <1>1, <1>2, <1>4, LayerByLayer DEF byFlag, byEnv, envSets
<1>5. CASE ~byFlag(f) /\ ~byEnv(f) /\ byFile(f)
  BY <1>1, <1>5, LayerByLayer, FileSpeaks DEF byFlag, byEnv, byFile, envSets
<1>6. CASE ~byFlag(f) /\ ~byEnv(f) /\ ~byFile(f)
  <2>1. cfg[f] = IF f \in Words \ {"redisURL"} THEN Exact(Default[f].w) ELSE Default[f]
    BY <1>1, <1>6, LayerByLayer, FileSpeaks DEF byFlag, byEnv, byFile, envSets
  <2> QED
    BY <1>6, <2>1, DefaultIsNormal
<1> QED
  BY <1>3, <1>4, <1>5, <1>6

LEMMA ValidWords ==
    ASSUME NEW c, Validate(c), NEW f \in LogWords PROVE c[f].w # ""
<1>1. c.logLevel.w \in {"debug", "info", "warn", "error"}
  BY SMT DEF Validate
<1>2. c.logFormat.w \in {"text", "json"}
  BY SMT DEF Validate
<1> QED
  BY <1>1, <1>2 DEF LogWords

\* For a field of the logger, setupLoggerFromEarly finds the word of the Config.
LEMMA EarlyWord ==
    ASSUME NEW f \in LogWords, SetupOK, main = "parsed",
           settled(f)
    PROVE  early(input, f).w = cfg[f].w
<1>1. /\ input \in Inputs /\ cfg = Layered(input)
      /\ ~FlagsFail(input) /\ Validate(cfg)
  BY DEF SetupOK, Accepts
<1>2. f \in Fields /\ f \in Words \ {"redisURL"} /\ f \notin Lists
  BY DEF Fields, Words, Lists, LogWords
<1>3. StrongestSourceWins
  BY SetupIsStrongest
<1>4. \A w : Exact(w).w = w
  BY DEF Exact
<1>5. CASE byFlag(f)
  <2> DEFINE raw == Last(input.flag[f])
  <2>1. input.flag[f] \in Seq(Raws(f)) /\ input.flag[f] # <<>>
    BY <1>1, <1>2, <1>5, InputAssumption DEF byFlag
  <2>2. Head(input.flag[f]) = raw /\ raw \in Raws(f) /\ raw \in Range(input.flag[f])
    BY <2>1, SMT DEF Last, Range, settled
  <2>3. raw.t # "malformed"
    BY <1>1, <1>2, <2>2, FourWays DEF FlagsFail
  <2>4. cfg[f].w = ValueOf(f, raw).w
    BY <1>2, <1>3, <1>4, <1>5 DEF StrongestSourceWins
  <2>5. cfg[f].w # ""
    BY <1>1, ValidWords
  <2>6. raw.t # "value" => ValueOf(f, raw).w = ""
    BY <1>2, <1>4 DEF ValueOf, NoWord
  <2>7. raw.t = "value"
    BY <2>4, <2>5, <2>6
  <2>8. peekFlag(input, f) = raw
    BY <2>1, <2>2 DEF peekFlag, settled
  <2> QED
    BY <2>4, <2>7, <2>8 DEF early, ValueOf
<1>6. ~byFlag(f) => peekFlag(input, f).t # "value"
  BY SMT DEF peekFlag, settled, byFlag, Absent
<1>7. CASE ~byFlag(f) /\ byEnv(f)
  BY <1>2, <1>3, <1>4, <1>6, <1>7, SMT DEF StrongestSourceWins, early, byEnv
<1>8. CASE ~byFlag(f) /\ ~byEnv(f)
  BY <1>2, <1>3, <1>6, <1>8 DEF StrongestSourceWins, early, settled, byEnv
<1> QED
  BY <1>5, <1>7, <1>8

LEMMA SetupAgrees == SetupOK => EarlyLoggerAgrees
<1> SUFFICES ASSUME SetupOK, main = "parsed",
                    \A f \in LogWords : settled(f)
             PROVE  logger = setupLogger(cfg.logLevel, cfg.logFormat)
  BY DEF EarlyLoggerAgrees
<1>1. /\ early(input, "logLevel").w = cfg.logLevel.w
      /\ early(input, "logFormat").w = cfg.logFormat.w
  BY EarlyWord DEF LogWords
<1>2. logger = setupLoggerFromEarly(input)
  BY DEF SetupOK
<1> QED
  BY <1>1, <1>2 DEF setupLoggerFromEarly, setupLogger

LEMMA SetupKept == SetupOK /\ [Next]_vars => SetupOK'
<1> SUFFICES ASSUME SetupOK, [Next]_vars PROVE SetupOK'
  OBVIOUS
<1>1. ASSUME UNCHANGED setup, main' = main \/ main' \notin {"early", "parse", "parsed"}
      PROVE  SetupOK'
  BY <1>1 DEF SetupOK, setup
<1>2. CASE SetupEarly
  BY <1>2 DEF SetupEarly, SetupOK
<1>3. CASE Parse
  BY <1>3 DEF Parse, SetupOK
<1>4. CASE StartUp \/ Build
  BY <1>4 DEF StartUp, Build, SetupOK
<1>5. CASE Listen
  BY <1>1, <1>5 DEF Listen
<1>6. CASE Stopping
  BY <1>1, <1>6 DEF Stopping, Shutdown, CloseListener, Drained, HealthDone, CloseStore,
     Return, Stage
<1>7. ASSUME NEW c \in Clients, Serve(c) PROVE SetupOK'
  BY <1>1, <1>7 DEF Serve, Accept, Lookup, Fetch, Keep, Goto
<1>8. CASE Health \/ Signal
  BY <1>1, <1>8 DEF Health, Signal, process
<1>9. CASE Gone \/ UNCHANGED vars
  BY <1>1, <1>9 DEF Gone, vars, process
<1> QED
  BY <1>2, <1>3, <1>4, <1>5, <1>6, <1>7, <1>8, <1>9 DEF Next, Starting

-----------------------------------------------------------------------------
(***************************************************************************)
(* The teardown.                                                           *)
(***************************************************************************)
\* The health checks do not come back.
LEMMA DoneStays == pc = "exited" /\ [Next]_vars => pc' = "exited"
<1> SUFFICES ASSUME pc = "exited", [Next]_vars PROVE pc' = "exited"
  OBVIOUS
<1>1. ASSUME UNCHANGED health PROVE pc' = "exited"
  BY <1>1 DEF health
<1>2. CASE Health
  BY <1>2 DEF Health, HealthStep, HC!Tick, HC!Marking, HC!StartMarking, HC!MarkNode,
     HC!PublishHead, HC!Exit, HC!ProbeReturns, HC!StoreHealthy, HC!StoreHeight
<1>3. CASE Signal
  BY <1>3 DEF Signal, HC!Cancel
<1>4. CASE Starting \/ Listen \/ Stopping \/ Gone \/ UNCHANGED vars
  BY <1>1, <1>4 DEF Starting, SetupEarly, Parse, StartUp, Build, Listen, Stopping, Shutdown,
     CloseListener, Drained, HealthDone, CloseStore, Return, Gone, vars
<1>5. ASSUME NEW c \in Clients, Serve(c) PROVE UNCHANGED health
  BY <1>5 DEF Serve, Accept, Lookup, Fetch, Keep, Goto
<1> QED
  BY <1>1, <1>2, <1>3, <1>4, <1>5 DEF Next

\* No request begins once the listener is closed.
LEMMA ServeKeepsTeardown ==
    ASSUME TeardownOK, NEW c \in Clients, Serve(c) PROVE TeardownOK'
<1>1. UNCHANGED <<main, listener, store, overdue, pc>>
  BY DEF Serve, Accept, Lookup, Fetch, Keep, Goto, health
<1>2. req' \in [Clients -> {"idle", "lookup", "fetch", "keep"}]
  BY DEF TeardownOK, Serve, Accept, Lookup, Fetch, Keep, Goto
<1>3. listener = "closed" /\ drained => FALSE
  BY DEF drained, Serve, Accept, Lookup, Fetch, Keep
<1> QED
  BY <1>1, <1>2, <1>3 DEF TeardownOK

LEMMA TeardownKept == TeardownOK /\ [Next]_vars => TeardownOK'
<1> SUFFICES ASSUME TeardownOK, [Next]_vars PROVE TeardownOK'
  OBVIOUS
<1>1. pc = "exited" => pc' = "exited"
  BY DoneStays
<1>2. CASE Starting
  BY <1>2 DEF Starting, SetupEarly, Parse, StartUp, Build, TeardownOK, buildCacheStore
<1>3. CASE Listen
  BY <1>3 DEF Listen, TeardownOK, Running
<1>4. CASE Shutdown \/ CloseListener
  BY <1>4 DEF Shutdown, CloseListener, Stage, TeardownOK
<1>5. CASE Drained
  <2>1. drained' <=> drained
    BY <1>5 DEF Drained, drained
  <2> QED
    BY <1>5, <2>1 DEF Drained, Stage, TeardownOK
<1>6. CASE HealthDone \/ CloseStore \/ Return
  <2>1. UNCHANGED <<req, listener>> /\ (drained' <=> drained) /\ overdue \subseteq overdue'
    BY <1>6 DEF HealthDone, CloseStore, Return, drained
  <2> QED
    BY <1>1, <1>6, <2>1 DEF HealthDone, CloseStore, Return, Stage, TeardownOK
<1>7. ASSUME NEW c \in Clients, Serve(c) PROVE TeardownOK'
  BY <1>7, ServeKeepsTeardown
<1>8. CASE Health \/ Signal \/ Gone \/ UNCHANGED vars
  <2>1. UNCHANGED process
    BY <1>8 DEF Health, Signal, Gone, vars
  <2>2. drained' <=> drained
    BY <2>1 DEF process, drained
  <2> QED
    BY <1>1, <2>1, <2>2 DEF process, TeardownOK
<1> QED
  BY <1>2, <1>3, <1>4, <1>5, <1>6, <1>7, <1>8 DEF Next, Stopping

-----------------------------------------------------------------------------
(***************************************************************************)
(* The rotation.                                                           *)
(***************************************************************************)
LEMMA HealthAssumptions == HCP!NAssumption /\ HCP!HeightAssumption
BY PoolAssumption, SMT DEF HCP!NAssumption, HCP!HeightAssumption

LEMMA SameNames ==
    /\ HC!Nodes = 0 .. N - 1 /\ HCP!Nodes = HC!Nodes /\ 0 \in HC!Nodes
    /\ HCP!Heights = HC!Heights /\ HCP!Replies = HC!Replies
BY PoolAssumption, SMT DEF HC!Nodes, HCP!Nodes, HC!Heights, HCP!Heights, HC!Replies, HCP!Replies

LEMMA MarkIsMark == HC!MarkNode => HCP!MarkNode
BY DEF HC!MarkNode, HCP!MarkNode, HC!lags, HCP!lags, HC!USub, HCP!USub

\* Every step of the process is a step of the health checks or leaves them alone.
LEMMA HealthIsStep == HealthStep => HCP!Next
<1> SUFFICES ASSUME HealthStep PROVE HCP!Next
  OBVIOUS
<1>1. CASE HC!Tick
  BY <1>1, SameNames DEF HC!Tick, HCP!Tick, HCP!Next
<1>2. CASE HC!Exit
  BY <1>2 DEF HC!Exit, HCP!Exit, HCP!Next
<1>3. CASE HC!Marking
  <2>1. ASSUME NEW b \in HC!Heights, HC!StartMarking(b) PROVE HCP!StartMarking(b)
    BY <2>1, SameNames DEF HC!StartMarking, HCP!StartMarking, HC!waitForProbes,
       HCP!waitForProbes, HC!IsMaxHeight, HCP!IsMaxHeight
  <2>2. HC!PublishHead => HCP!PublishHead
    BY DEF HC!PublishHead, HCP!PublishHead
  <2> QED
    BY <1>3, <2>1, <2>2, MarkIsMark, SameNames DEF HC!Marking, HCP!Marking, HCP!Next
<1>4. ASSUME NEW n \in HC!Nodes, NEW r \in HC!Replies, HC!ProbeReturns(n, r) PROVE HCP!Next
  <2>1. HCP!ProbeReturns(n, r)
    BY <1>4 DEF HC!ProbeReturns, HCP!ProbeReturns, HC!probeNode, HCP!probeNode,
       HC!validateRPCResponse, HCP!validateRPCResponse
  <2> QED
    BY <2>1, SameNames DEF HCP!Next, HCP!Probing
<1>5. ASSUME NEW n \in HC!Nodes, HC!StoreHealthy(n) \/ HC!StoreHeight(n) PROVE HCP!Next
  <2>1. HCP!StoreHealthy(n) \/ HCP!StoreHeight(n)
    BY <1>5 DEF HC!StoreHealthy, HCP!StoreHealthy, HC!StoreHeight, HCP!StoreHeight,
       HC!NoProbe, HCP!NoProbe
  <2> QED
    BY <2>1, SameNames DEF HCP!Next, HCP!Probing
<1> QED
  BY <1>1, <1>2, <1>3, <1>4, <1>5 DEF HealthStep

LEMMA FromHealth ==
    ASSUME HCP!IInv
    PROVE  /\ healthy \in [HC!Nodes -> BOOLEAN]
           /\ probe \in [HC!Nodes -> [st : {"none", "asked", "set_healthy", "set_height"},
                                      ok : BOOLEAN, h : HC!Heights]]
           /\ outcome \in [HC!Nodes -> {"unknown", "height", "busy", "failed"}]
BY SameNames DEF HCP!IInv, HCP!TypeOK

\* A probe that returns fails only when the context is cancelled, and then it does.
LEMMA ReturnKeepsProbes ==
    ASSUME HCP!IInv, ProbesOK, NEW n \in HC!Nodes, NEW r \in HC!Replies,
           (r.http = "200" /\ r.body = "block") \/ ctxDone, HC!ProbeReturns(n, r)
    PROVE  /\ ProbesOK'
           /\ \A k \in HC!Nodes : outcome[k] = "failed" => outcome'[k] = "failed"
<1>1. UNCHANGED <<healthy, ctxDone>>
  BY DEF HC!ProbeReturns
<1>2. ctxDone => outcome'[n] = "failed"
  <2>1. ctxDone => r.http = "unreachable"
    BY DEF HC!ProbeReturns
  <2> QED
    BY <2>1, FromHealth DEF HC!ProbeReturns, HC!probeNode
<1>3. ~ctxDone => outcome'[n] = "height" /\ probe'[n].ok
  BY FromHealth DEF HC!ProbeReturns, HC!probeNode, HC!validateRPCResponse
<1>4. \A k \in HC!Nodes \ {n} : outcome'[k] = outcome[k] /\ probe'[k] = probe[k]
  BY FromHealth DEF HC!ProbeReturns
<1> QED
  BY <1>1, <1>2, <1>3, <1>4 DEF ProbesOK

LEMMA StoreKeepsProbes ==
    ASSUME HCP!IInv, ProbesOK, NEW n \in HC!Nodes, HC!StoreHealthy(n) \/ HC!StoreHeight(n)
    PROVE  ProbesOK' /\ UNCHANGED outcome
<1>1. UNCHANGED <<outcome, ctxDone>>
  BY DEF HC!StoreHealthy, HC!StoreHeight
<1>2. \A k \in HC!Nodes : probe'[k].st = "set_healthy" => probe'[k] = probe[k]
  BY FromHealth, SMT DEF HC!StoreHealthy, HC!StoreHeight, HC!NoProbe
<1>3. \A k \in HC!Nodes : healthy[k] => healthy'[k] \/ outcome[k] = "failed"
  BY FromHealth DEF HC!StoreHealthy, HC!StoreHeight, ProbesOK
<1> QED
  BY <1>1, <1>2, <1>3 DEF ProbesOK

LEMMA MarkKeepsProbes ==
    ASSUME HCP!IInv, ProbesOK, HC!MarkNode PROVE ProbesOK' /\ UNCHANGED outcome
<1>1. UNCHANGED <<outcome, ctxDone, probe>>
  BY DEF HC!MarkNode
<1>2. (\E n \in HC!Nodes : healthy[n]) => \E n \in HC!Nodes : healthy'[n]
  BY MarkIsMark, SameNames, HealthAssumptions, HCP!MarkSparesOne DEF HCP!IInv
<1> QED
  BY <1>1, <1>2 DEF ProbesOK

LEMMA HealthKeepsProbes ==
    ASSUME HCP!IInv, ProbesOK, HealthStep
    PROVE  /\ ProbesOK' /\ ctxDone' = ctxDone
           /\ \A n \in HC!Nodes : outcome[n] = "failed" => outcome'[n] = "failed"
<1>1. ctxDone' = ctxDone
  BY DEF HealthStep, HC!Tick, HC!Marking, HC!StartMarking, HC!MarkNode, HC!PublishHead,
     HC!Exit, HC!ProbeReturns, HC!StoreHealthy, HC!StoreHeight
<1>2. CASE HC!Tick
  BY <1>2 DEF HC!Tick, ProbesOK
<1>3. ASSUME UNCHANGED <<healthy, probe, outcome>>
      PROVE  ProbesOK' /\ UNCHANGED outcome
  BY <1>1, <1>3 DEF ProbesOK
<1>4. CASE HC!Exit
  BY <1>1, <1>3, <1>4 DEF HC!Exit
<1>5. CASE HC!Marking
  <2>1. CASE HC!MarkNode
    BY <1>1, <2>1, MarkKeepsProbes
  <2>2. CASE ~HC!MarkNode
    BY <1>1, <1>3, <1>5, <2>2 DEF HC!Marking, HC!StartMarking, HC!PublishHead
  <2> QED
    BY <2>1, <2>2
<1> QED
  BY <1>1, <1>2, <1>4, <1>5, ReturnKeepsProbes, StoreKeepsProbes DEF HealthStep

LEMMA RotationKept == RotationOK /\ [Next]_vars => RotationOK'
<1> SUFFICES ASSUME RotationOK, [Next]_vars PROVE RotationOK'
  OBVIOUS
<1>1. ASSUME UNCHANGED health PROVE RotationOK'
  <2>1. UNCHANGED HCP!vars /\ ProbesOK'
    BY <1>1 DEF health, HCP!vars, RotationOK, ProbesOK
  <2> QED
    BY <2>1, HealthAssumptions, HCP!NextIInv DEF RotationOK
<1>2. CASE Starting \/ Listen \/ Stopping \/ Gone \/ UNCHANGED vars
  BY <1>1, <1>2 DEF Starting, SetupEarly, Parse, StartUp, Build, Listen, Stopping, Shutdown,
     CloseListener, Drained, HealthDone, CloseStore, Return, Gone, vars
<1>3. ASSUME NEW c \in Clients, Serve(c) PROVE RotationOK'
  BY <1>1, <1>3 DEF Serve, Accept, Lookup, Fetch, Keep, Goto
<1>4. CASE Health
  <2>1. HCP!IInv'
    BY <1>4, HealthIsStep, HealthAssumptions, HCP!NextIInv DEF Health, RotationOK
  <2> QED
    BY <1>4, <2>1, HealthKeepsProbes DEF Health, RotationOK
<1>5. CASE Signal
  <2>1. HCP!Cancel
    BY <1>5 DEF Signal, HC!Cancel, HCP!Cancel
  <2>2. HCP!IInv'
    BY <2>1, HealthAssumptions, HCP!NextIInv DEF HCP!Next, RotationOK
  <2>3. ctxDone' = TRUE /\ UNCHANGED <<outcome, probe, healthy>>
    BY <1>5 DEF Signal, HC!Cancel
  <2> QED
    BY <2>2, <2>3 DEF RotationOK, ProbesOK
<1> QED
  BY <1>2, <1>3, <1>4, <1>5 DEF Next

-----------------------------------------------------------------------------
MainIInv == SetupOK /\ TeardownOK /\ RotationOK

LEMMA InitMainIInv == Init => MainIInv
<1> SUFFICES ASSUME Init PROVE MainIInv
  OBVIOUS
<1>1. SetupOK /\ TeardownOK
  BY DEF Init, SetupOK, TeardownOK
<1>2. HCP!IInv
  <2>1. HCP!Init
    BY SameNames DEF Init, HC!Init, HCP!Init, HC!NoProbe, HCP!NoProbe
  <2> QED
    BY <2>1, HealthAssumptions, HCP!InitIInv
<1>3. ProbesOK
  BY SameNames DEF Init, HC!Init, HC!NoProbe, ProbesOK
<1> QED
  BY <1>1, <1>2, <1>3 DEF MainIInv, RotationOK

LEMMA MainInvariance == Spec => []MainIInv
<1>1. MainIInv /\ [Next]_vars => MainIInv'
  BY SetupKept, TeardownKept, RotationKept DEF MainIInv
<1> QED
  BY <1>1, InitMainIInv, PTL DEF Spec

(***************************************************************************)
(* Flags over variables over file over defaults: whatever the sources say, *)
(* Parse gives a field of an accepted Config the value of its strongest    *)
(* source, in the spelling that buildCacheStore compares.                  *)
(***************************************************************************)
THEOREM SourcesAreOrdered == Spec => []StrongestSourceWins
<1>1. MainIInv => StrongestSourceWins
  BY SetupIsStrongest DEF MainIInv
<1> QED
  BY <1>1, MainInvariance, PTL

(***************************************************************************)
(* setupLoggerFromEarly and setupLogger choose the same level and format   *)
(* from any sources that settle them, although the first walks os.Args and *)
(* knows neither the other flags nor where they end.                       *)
(***************************************************************************)
THEOREM LoggersAgree == Spec => []EarlyLoggerAgrees
<1>1. MainIInv => EarlyLoggerAgrees
  BY SetupAgrees DEF MainIInv
<1> QED
  BY <1>1, MainInvariance, PTL

(***************************************************************************)
(* The deferred Close of the store comes after the last request and the    *)
(* last probe, unless the deadline of main for them passed.                *)
(***************************************************************************)
THEOREM StoreClosesLast == Spec => []StoreOutlivesItsUsers
<1>1. MainIInv => StoreOutlivesItsUsers
  BY DEF MainIInv, TeardownOK, StoreOutlivesItsUsers, drained
<1> QED
  BY <1>1, MainInvariance, PTL

(***************************************************************************)
(* While the nodes answer, no health round leaves the rotation empty, at   *)
(* any of its steps, unless the signal aborted a probe of it and checkNode *)
(* took that for a failure of the node; for any number of nodes and any    *)
(* heights that they report.                                               *)
(***************************************************************************)
THEOREM RotationIsKept == Spec => []EmptyRotationNeedsAbortedProbe
<1>1. MainIInv => EmptyRotationNeedsAbortedProbe
  BY DEF MainIInv, RotationOK, ProbesOK, EmptyRotationNeedsAbortedProbe
<1> QED
  BY <1>1, MainInvariance, PTL
=============================================================================
