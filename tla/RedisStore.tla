----------------------------- MODULE RedisStore -----------------------------
(***************************************************************************)
(* The shared store of internal/cache/redis.go.  A command goes to a       *)
(* server that may execute it, lose its reply, execute it again for a      *)
(* retry of the client library, or execute it after the caller has given   *)
(* up; every command ends by a reply, an error or the deadline of its      *)
(* context, which the signal cancels.  The goroutines share one degraded   *)
(* flag: compare-and-swap first, log line afterwards.                      *)
(***************************************************************************)
EXTENDS Integers, FiniteSets, Functions

CONSTANTS
    Keys,
    Writes,         \* what callers set: a value and a lifetime, 0 for ever
    Callers,        \* request goroutines
    MaxLate,        \* bound: commands given up that may still be executed
    MaxTime         \* bound: the clock

\* Validate refuses negative lifetimes; goroutines are finitely many.
ASSUME StoreAssumption ==
    /\ \A w \in Writes : w.ttl \in Nat
    /\ IsFiniteSet(Callers)
    /\ MaxTime \in Nat \ {0}

Values == {w.value : w \in Writes}
Expiries == {0} \cup {t + w.ttl : t \in 1 .. MaxTime, w \in {u \in Writes : u.ttl > 0}}
Entries == [value : Values, expiry : Expiries]
Updates == [op : {"del"}, key : Keys] \cup [op : {"set"}, key : Keys, write : Writes]
Commands == [op : {"get"}, key : Keys] \cup Updates
NoGet == [op |-> "none"]
Hit(k, v) == [op |-> "hit", key |-> k, value |-> v]
Miss(k) == [op |-> "miss", key |-> k]

VARIABLES
    server,     \* what the Redis server holds: key -> [value, expiry]
    late,       \* updates given up by their callers that may still be executed
    call,       \* call[c]: the operation of caller c
    degraded,   \* the flag
    lines,      \* warnings minus recoveries in the log
    ctxDone,    \* the lifecycle context is cancelled
    now,        \* the clock
    got         \* what the latest Get was told, if the latest step told one (history)

vars == <<server, late, call, degraded, lines, ctxDone, now, got>>

Idle == [st |-> "idle"]

\* NewRedisStore has reached the server once.
Init ==
    /\ server = [k \in {} |-> k]
    /\ late = {}
    /\ call = [c \in Callers |-> Idle]
    /\ degraded = FALSE /\ lines = 0
    /\ ctxDone = FALSE
    /\ now = 1
    /\ got = NoGet

-----------------------------------------------------------------------------
At(c, st) == call[c].st = st
Enter(c, next) == call' = [call EXCEPT ![c] = next]
Ends(c, ok) == Enter(c, [st |-> "mark", ok |-> ok])

\* Get, Set or Delete starts its command.  A context that is done already fails it.
Begin(c, cmd) ==
    /\ At(c, "idle")
    /\ IF ctxDone
       THEN Ends(c, FALSE) /\ got' = IF cmd.op = "get" THEN Miss(cmd.key) ELSE NoGet
       ELSE Enter(c, [st |-> "sent", cmd |-> cmd]) /\ got' = NoGet
    /\ UNCHANGED <<server, late, degraded, lines, ctxDone, now>>

Live(k) == k \in DOMAIN server /\ (server[k].expiry = 0 \/ server[k].expiry >= now)

\* "ttl=0 means no expiry".
expiry(ttl) == IF ttl = 0 THEN 0 ELSE now + ttl

\* The server executes a command; an expired key goes when it is looked at.
Execute(cmd) ==
    CASE cmd.op = "set" ->
           /\ server' = [k \in DOMAIN server \cup {cmd.key} |->
                 IF k # cmd.key THEN server[k]
                 ELSE [value |-> cmd.write.value, expiry |-> expiry(cmd.write.ttl)]]
           /\ got' = NoGet
      [] cmd.op = "get" /\ Live(cmd.key) ->
           got' = Hit(cmd.key, server[cmd.key].value) /\ UNCHANGED server
      [] cmd.op = "get" /\ ~Live(cmd.key) ->
           got' = Miss(cmd.key) /\ server' = Restrict(server, DOMAIN server \ {cmd.key})
      [] cmd.op = "del" ->
           server' = Restrict(server, DOMAIN server \ {cmd.key}) /\ got' = NoGet

Serve(c) ==
    /\ At(c, "sent")
    /\ Execute(call[c].cmd)
    /\ call' = [call EXCEPT ![c].st = "replied"]
    /\ UNCHANGED <<late, degraded, lines, ctxDone, now>>

\* The reply is lost with its connection and the client library tries again.
LoseReply(c) ==
    /\ At(c, "replied")
    /\ call' = [call EXCEPT ![c].st = "sent"]
    /\ got' = NoGet
    /\ UNCHANGED <<server, late, degraded, lines, ctxDone, now>>

ServeLate ==
    /\ \E cmd \in late : Execute(cmd) /\ late' = late \ {cmd}
    /\ UNCHANGED <<call, degraded, lines, ctxDone, now>>

-----------------------------------------------------------------------------
\* Faulty variant: a key that is not there is taken for a failure.
succeedsUnlessNil(c) == ~(call[c].cmd.op = "get" /\ ~Live(call[c].cmd.key))

\* A reply is a success, redis.Nil included.
succeeds(c) == TRUE

\* The reply arrives: Get has a value or redis.Nil.
Reply(c) ==
    /\ At(c, "replied")
    /\ Ends(c, succeeds(c))
    /\ got' = NoGet
    /\ UNCHANGED <<server, late, degraded, lines, ctxDone, now>>

\* Faulty variant: the error of a Get is not looked at.
toldOnErrorHit(cmd) == IF cmd.op = "get" THEN Hit(cmd.key, CHOOSE v \in Values : TRUE) ELSE NoGet

\* What a caller is told when its command failed: a Get says that it missed.
toldOnError(cmd) == IF cmd.op = "get" THEN Miss(cmd.key) ELSE NoGet

\* Faulty variant: the context has no timeout of its own.
FailOnCancel(c) ==
    /\ ctxDone
    /\ At(c, "sent") \/ At(c, "replied")
    /\ Ends(c, FALSE)
    /\ got' = toldOnError(call[c].cmd)
    /\ UNCHANGED <<server, late, degraded, lines, ctxDone, now>>

\* The command fails, reaches redisOpTimeout or is cancelled; the server may have
\* executed it, may do so later, or never.
Fail(c) ==
    /\ At(c, "sent") \/ At(c, "replied")
    /\ Ends(c, FALSE)
    /\ got' = toldOnError(call[c].cmd)
    /\ late' \in {late} \cup
          IF At(c, "sent") /\ call[c].cmd \in Updates /\ Cardinality(late) < MaxLate
          THEN {late \cup {call[c].cmd}} ELSE {}
    /\ UNCHANGED <<server, degraded, lines, ctxDone, now>>

\* Faulty variant: the flag is stored, not compared and swapped.
swapsAlways(ok) == TRUE

\* CompareAndSwap succeeds.
swaps(ok) == degraded = ok

\* markHealthy and markDegraded, first half.
Mark(c) ==
    /\ At(c, "mark")
    /\ LET ok == call[c].ok IN
          /\ degraded' = ~ok
          /\ Enter(c, IF swaps(ok)
                      THEN [st |-> "log", line |-> IF ok THEN "recovered" ELSE "failed"]
                      ELSE Idle)
    /\ got' = NoGet
    /\ UNCHANGED <<server, late, lines, ctxDone, now>>

\* Second half.
Log(c) ==
    /\ At(c, "log")
    /\ lines' = lines + IF call[c].line = "failed" THEN 1 ELSE -1
    /\ Enter(c, Idle)
    /\ got' = NoGet
    /\ UNCHANGED <<server, late, degraded, ctxDone, now>>

\* The signal.
Cancel ==
    /\ ~ctxDone
    /\ ctxDone' = TRUE
    /\ got' = NoGet
    /\ UNCHANGED <<server, late, call, degraded, lines, now>>

Pass ==
    /\ now < MaxTime
    /\ now' = now + 1
    /\ got' = NoGet
    /\ UNCHANGED <<server, late, call, degraded, lines, ctxDone>>

Operation(c) == Serve(c) \/ Reply(c) \/ Fail(c)

Next ==
    \/ \E c \in Callers :
          \/ \E cmd \in Commands : Begin(c, cmd)
          \/ Operation(c) \/ LoseReply(c) \/ Mark(c) \/ Log(c)
    \/ ServeLate \/ Cancel \/ Pass

(***************************************************************************)
(* Goroutines run.  Every command ends: strongly fair, since retries may   *)
(* go on until the deadline but not beyond it.                             *)
(***************************************************************************)
Spec ==
    /\ Init /\ [][Next]_vars
    /\ \A c \in Callers :
          /\ SF_vars(Reply(c) \/ Fail(c))
          /\ WF_vars(Mark(c)) /\ WF_vars(Log(c))

-----------------------------------------------------------------------------
Logging(line) == Cardinality({c \in Callers : At(c, "log") /\ call[c].line = line})

\* "each transition emits exactly one log line": counting the lines that their
\* goroutines have yet to write, warnings and recoveries in the log add up to the
\* flag, however many commands fail and succeed at once.
LinesAddUp ==
    lines + Logging("failed") - Logging("recovered") = IF degraded THEN 1 ELSE 0

\* The Redis store does what a store promises that may be out of reach: a hit
\* carries the value of the latest Set that was executed, unexpired; retried and
\* late commands are Sets of their own, failures are misses.
Promise == INSTANCE Store WITH
    Remote <- TRUE, MaxEntries <- 0, store <- server

\* Every behaviour of the Redis store is one of the abstract store.
ImplementsStore == Promise!Spec

\* A Redis outage delays a request by its commands and no more: no caller stays in
\* Get, Set or Delete, whether the server is silent, loses replies or the process
\* is shutting down.
CommandsEnd == \A c \in Callers : ~At(c, "idle") ~> At(c, "idle")

\* Once commands no longer fail, the first one that gets a reply clears the flag
\* for good, even if it finds nothing (redis.Nil).
RecoveryIsNoticed ==
    (/\ <>[][~\E c \in Callers : Fail(c) \/ (ctxDone /\ \E cmd \in Commands : Begin(c, cmd))]_vars
     /\ []<>(\E c \in Callers : At(c, "replied")))
        => <>[]~degraded
=============================================================================
