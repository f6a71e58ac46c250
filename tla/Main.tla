-------------------------------- MODULE Main --------------------------------
(***************************************************************************)
(* The life of the process: cmd/aegis-rpc/main.go with the server of       *)
(* internal/httpapi and the health checks, from the sources of the         *)
(* configuration to the teardown after the signal.  Requests are reduced   *)
(* to what they use of the process: the cache store, a node, and the store *)
(* again; how a node is found is the subject of Routing.                   *)
(* WebSocket sessions are hijacked from the server, which does not wait    *)
(* for them; they use no store and end with the process.                   *)
(***************************************************************************)
EXTENDS Config

CONSTANTS
    Inputs,         \* what file, environment and command line say
    Clients,        \* connections that send requests
    N, LagThreshold, MaxHeight     \* see HealthChecks

\* Validate refuses a configuration without upstreams.
ASSUME PoolAssumption == N \in Nat \ {0} /\ LagThreshold \in Nat /\ MaxHeight \in Nat

\* A source says of every field one of the things a source can say.
ASSUME InputAssumption ==
    \A in \in Inputs :
        /\ \A f \in Fields :
              /\ in.yaml[f] \in Raws(f) /\ in.env[f] \in Raws(f)
              /\ in.flag[f] \in Seq(Raws(f))
        /\ \A f \in LogWords : in.stray[f] \in [before : Raws(f), after : Raws(f)]

VARIABLES
    input,      \* the sources of the configuration, until they are used up
    cfg,        \* the Config, once parsed
    logger,     \* the default logger
    main,       \* where main is
    listener,   \* the server goroutine: "none", "starting", "open" or "closed"
    draining,   \* Server.draining
    store,      \* the cache store: "none", "memory", "redis" or "closed"
    req,        \* req[c]: the request of c
    overdue,    \* which of main's two deadlines have passed (history)
    healthy, height, probe, pc, best, mark, head, ctxDone, outcome    \* see HealthChecks

HC == INSTANCE HealthChecks WITH Word <- MaxHeight + 1

setup == <<input, cfg, logger>>
health == <<healthy, height, probe, pc, best, mark, head, ctxDone, outcome>>
process == <<setup, main, listener, draining, store, req, overdue>>
vars == <<process, health>>

Running == main \notin {"exited", "failed"}

Nothing == [x \in {} |-> x]

Init ==
    /\ HC!Init
    /\ input \in Inputs
    /\ cfg = Nothing /\ logger = Nothing
    /\ main = "early"
    /\ listener = "none" /\ draining = FALSE
    /\ store = "none"
    /\ req = [c \in Clients |-> "idle"]
    /\ overdue = {}

-----------------------------------------------------------------------------
(***************************************************************************)
(* Starting.                                                               *)
(***************************************************************************)
SetupEarly ==
    /\ main = "early"
    /\ logger' = setupLoggerFromEarly(input)
    /\ main' = "parse"
    /\ UNCHANGED <<input, cfg, listener, draining, store, req, overdue, health>>

Parse ==
    /\ main = "parse"
    /\ IF Accepts(input)
       THEN cfg' = Layered(input) /\ main' = "parsed"
       ELSE UNCHANGED cfg /\ main' = "failed"
    /\ UNCHANGED <<input, logger, listener, draining, store, req, overdue, health>>

\* setupLogger, NewPool, which may reject a URL, and StartHealthChecks.  What is
\* read of the Config later is the backend.
StartUp ==
    /\ main = "parsed"
    /\ logger' = setupLogger(cfg.logLevel, cfg.logFormat)
    /\ main' \in {"build", "failed"}
    /\ input' = Nothing
    /\ cfg' = [cacheBackend |-> cfg.cacheBackend]
    /\ UNCHANGED <<listener, draining, store, req, overdue, health>>

\* buildCacheStore, which reaches Redis within the lifecycle context or fails;
\* then the server goroutine starts.
Build ==
    /\ main = "build"
    /\ logger' = Nothing
    /\ \/ /\ buildCacheStore(cfg) = "memory" \/ ~ctxDone
          /\ store' = buildCacheStore(cfg)
          /\ main' = "serve" /\ listener' = "starting"
       \/ /\ buildCacheStore(cfg) = "redis"
          /\ main' = "failed"
          /\ UNCHANGED <<store, listener>>
    /\ UNCHANGED <<input, cfg, draining, req, overdue, health>>

\* ListenAndServe opens the port, or fails and ends the process; after Shutdown it
\* returns ErrServerClosed.
Listen ==
    /\ Running /\ listener = "starting"
    /\ \/ listener' = "open" /\ UNCHANGED main
       \/ main' = "failed" /\ UNCHANGED listener
    /\ UNCHANGED <<setup, draining, store, req, overdue, health>>

-----------------------------------------------------------------------------
(***************************************************************************)
(* Requests.                                                               *)
(***************************************************************************)
Goto(c, st) ==
    /\ req' = [req EXCEPT ![c] = st]
    /\ UNCHANGED <<setup, main, listener, draining, store, overdue, health>>

Accept(c) == listener = "open" /\ req[c] = "idle" /\ Goto(c, "lookup")
Lookup(c) == req[c] = "lookup" /\ \E st \in {"idle", "fetch"} : Goto(c, st)

\* The upstream answers, or every try fails; an answer or a failure is kept, an
\* uncacheable one is not.
Fetch(c) == req[c] = "fetch" /\ \E st \in {"idle", "keep"} : Goto(c, st)
Keep(c) == req[c] = "keep" /\ Goto(c, "idle")

Serve(c) == Running /\ (Accept(c) \/ Lookup(c) \/ Fetch(c) \/ Keep(c))

-----------------------------------------------------------------------------
(***************************************************************************)
(* Health checks, on nodes that answer every probe the process lets finish.*)
(***************************************************************************)
HealthStep ==
    \/ HC!Tick \/ HC!Marking \/ HC!Exit
    \/ \E n \in HC!Nodes :
          \/ \E r \in HC!Replies :
                ((r.http = "200" /\ r.body = "block") \/ ctxDone) /\ HC!ProbeReturns(n, r)
          \/ HC!StoreHealthy(n)
          \/ HC!StoreHeight(n)

Health ==
    /\ Running /\ main \notin {"early", "parse", "parsed"}
    /\ HealthStep
    /\ UNCHANGED process

-----------------------------------------------------------------------------
(***************************************************************************)
(* The signal, and what main does after it.                                *)
(***************************************************************************)
Signal ==
    /\ Running /\ main \notin {"early", "parse", "parsed"}
    /\ HC!Cancel
    /\ UNCHANGED process

Stage(from, to) == main = from /\ main' = to

\* main leaves <-ctx.Done and Shutdown sets the flag.
Shutdown ==
    /\ Stage("serve", "shutdown")
    /\ ctxDone
    /\ draining' = TRUE
    /\ UNCHANGED <<setup, listener, store, req, overdue, health>>

\* http.Server.Shutdown closes the listener and begins to wait.
CloseListener ==
    /\ Stage("shutdown", "drain")
    /\ listener' = "closed"
    /\ UNCHANGED <<setup, draining, store, req, overdue, health>>

\* Faulty variant: Shutdown does not wait.
drainedAtOnce == TRUE

drained == \A c \in Clients : req[c] = "idle"

\* Shutdown returns: every request is answered, or the 15 seconds are over.
Drained ==
    /\ Stage("drain", "health")
    /\ overdue' = IF drained THEN overdue ELSE overdue \cup {"drain"}
    /\ UNCHANGED <<setup, listener, draining, store, req, health>>

\* Faulty variant: main waits for done without a deadline.
HealthDoneOnly ==
    /\ Stage("health", "close")
    /\ pc = "exited"
    /\ UNCHANGED <<setup, listener, draining, store, req, overdue, health>>

\* The select on healthDone and the deadline of ProbeTimeout plus a second.
HealthDone ==
    /\ Stage("health", "close")
    /\ overdue' = IF pc = "exited" THEN overdue ELSE overdue \cup {"health"}
    /\ UNCHANGED <<setup, listener, draining, store, req, health>>

\* The deferred Close.
CloseStore ==
    /\ Stage("close", "return")
    /\ store' = "closed"
    /\ UNCHANGED <<setup, listener, draining, req, overdue, health>>

Return ==
    /\ Stage("return", "exited")
    /\ UNCHANGED <<setup, listener, draining, store, req, overdue, health>>

Starting == SetupEarly \/ Parse \/ StartUp \/ Build
Stopping == Shutdown \/ CloseListener \/ Drained \/ HealthDone \/ CloseStore \/ Return
Gone == ~Running /\ UNCHANGED vars

Next ==
    \/ Starting \/ Listen \/ Stopping
    \/ \E c \in Clients : Serve(c)
    \/ Health \/ Signal
    \/ Gone

\* main runs, and both of its waits have a deadline.
Spec == Init /\ [][Next]_vars /\ WF_vars(Starting) /\ WF_vars(Stopping)

-----------------------------------------------------------------------------
byFlag(f) == input.flag[f] # <<>>
byEnv(f) == input.env[f].t = "value"
byFile(f) == cfgPath(input) # "" /\ input.yaml[f] \notin {Absent, Empty}

\* "CLI flags > ENV variables > YAML config file > built-in defaults": a field of an
\* accepted Config is what its strongest source says, a malformed or empty variable
\* being no source and an explicit flag being one even when it is empty.  Words that
\* Validate tolerates in any spelling are in the one that buildCacheStore compares.
StrongestSourceWins ==
    main = "parsed" => \A f \in Fields :
        LET is(v) == cfg[f] = IF f \in Words \ {"redisURL"} THEN Exact(v.w) ELSE v
        IN  /\ byFlag(f) => is(ValueOf(f, Last(input.flag[f])))
            /\ ~byFlag(f) /\ byEnv(f) => is(input.env[f].v)
            /\ ~byFlag(f) /\ ~byEnv(f) /\ byFile(f) => is(input.yaml[f].v)
            /\ ~byFlag(f) /\ ~byEnv(f) /\ ~byFile(f) => cfg[f] = Default[f]

\* The command line and the environment settle f: the flag is there at most once,
\* nothing else that peekFlag meets first looks like it, and the file is not alone
\* in naming the field.
settled(f) ==
    /\ Len(input.flag[f]) <= 1
    /\ input.stray[f].before = Absent
    /\ byFlag(f) \/ input.stray[f].after = Absent
    /\ byFile(f) => byFlag(f) \/ byEnv(f)

\* The lines that Parse itself logs have the level and the format of all later ones,
\* unless the choice is made in the YAML file alone, a flag is given twice, or text
\* that is no flag to flag.Parse looks like one: setupLoggerFromEarly finds by itself
\* what Parse will find.
EarlyLoggerAgrees ==
    (main = "parsed" /\ \A f \in LogWords : settled(f))
        => logger = setupLogger(cfg.logLevel, cfg.logFormat)

\* No request and no probe is left to meet a closed store, unless main's deadline
\* for it has passed.
StoreOutlivesItsUsers ==
    store = "closed" =>
        /\ (\A c \in Clients : req[c] = "idle") \/ "drain" \in overdue
        /\ pc = "exited" \/ "health" \in overdue

\* While its nodes answer, the rotation is never empty, neither while the gateway
\* serves nor while it drains, except after the signal cut a health round short and
\* checkNode took the aborted probes for failures of the nodes.
EmptyRotationNeedsAbortedProbe ==
    (\A n \in HC!Nodes : ~healthy[n])
        => ctxDone /\ \E n \in HC!Nodes : outcome[n] = "failed"

\* The signal ends the process, whatever requests, nodes and probes do.
SignalEndsProcess == ctxDone ~> ~Running
=============================================================================
