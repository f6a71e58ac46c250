-------------------------- MODULE RedisStoreProofs --------------------------
(***************************************************************************)
(* The Redis store does what Store promises, and its log lines add up, for *)
(* any callers, keys and writes.                                           *)
(***************************************************************************)
EXTENDS RedisStore, FiniteSetTheorems, TLAPS

USE ZenonT(40)

Calls ==
    {Idle} \cup [st : {"sent", "replied"}, cmd : Commands]
           \cup [st : {"mark"}, ok : BOOLEAN]
           \cup [st : {"log"}, line : {"failed", "recovered"}]

TypeOK ==
    /\ DOMAIN server \subseteq Keys
    /\ server \in [DOMAIN server -> Entries]
    /\ late \subseteq Updates
    /\ call \in [Callers -> Calls]
    /\ degraded \in BOOLEAN
    /\ lines \in Int
    /\ now \in 1 .. MaxTime

-----------------------------------------------------------------------------
\* The expiry Set computes is the expiry of an entry.
LEMMA ExpiryType ==
    ASSUME now \in 1 .. MaxTime, NEW w \in Writes
    PROVE  expiry(w.ttl) \in Expiries
<1>1. w.ttl \in Nat
  BY StoreAssumption
<1>2. CASE w.ttl = 0
  BY <1>2, SMT DEF expiry, Expiries
<1>3. CASE w.ttl # 0
  BY <1>1, <1>3, SMT DEF expiry, Expiries
<1> QED
  BY <1>2, <1>3

\* A command leaves the server with entries for keys.
LEMMA ExecuteType ==
    ASSUME TypeOK, NEW cmd \in Commands, Execute(cmd)
    PROVE  DOMAIN server' \subseteq Keys /\ server' \in [DOMAIN server' -> Entries]
<1>1. cmd.key \in Keys /\ cmd.op \in {"get", "set", "del"}
  BY DEF Commands, Updates
<1>2. CASE cmd.op = "set"
  <2> DEFINE new == [value |-> cmd.write.value, expiry |-> expiry(cmd.write.ttl)]
  <2>1. cmd.write \in Writes
    BY <1>2 DEF Commands, Updates
  <2>2. new \in Entries
    BY <2>1, ExpiryType DEF Entries, Values, TypeOK
  <2>3. server' = [k \in DOMAIN server \cup {cmd.key} |-> IF k # cmd.key THEN server[k] ELSE new]
    BY <1>2 DEF Execute
  <2> HIDE DEF new
  <2> QED
    BY <1>1, <2>2, <2>3 DEF TypeOK
<1>3. CASE cmd.op # "set"
  <2>1. server' \in {server, Restrict(server, DOMAIN server \ {cmd.key})}
    BY <1>1, <1>3 DEF Execute
  <2> QED
    BY <2>1 DEF TypeOK, Restrict
<1> QED
  BY <1>2, <1>3

LEMMA InitTypeOK == Init => TypeOK
<1> SUFFICES ASSUME Init PROVE TypeOK
  OBVIOUS
<1>1. DOMAIN server \subseteq Keys /\ server \in [DOMAIN server -> Entries]
  BY DEF Init
<1>3. now \in 1 .. MaxTime /\ late \subseteq Updates /\ lines \in Int
  BY StoreAssumption, SMT DEF Init
<1>4. degraded \in BOOLEAN
  BY DEF Init
<1>2. call \in [Callers -> Calls]
  BY DEF Init, Calls
<1> QED
  BY <1>1, <1>2, <1>3, <1>4 DEF TypeOK

LEMMA NextTypeOK == TypeOK /\ [Next]_vars => TypeOK'
<1> SUFFICES ASSUME TypeOK, [Next]_vars PROVE TypeOK'
  OBVIOUS
<1>1. ASSUME NEW c \in Callers, NEW cmd \in Commands, Begin(c, cmd) PROVE TypeOK'
  <2> DEFINE next == IF ctxDone THEN [st |-> "mark", ok |-> FALSE] ELSE [st |-> "sent", cmd |-> cmd]
  <2>1. next \in Calls
    BY DEF Calls
  <2>2. call' = [call EXCEPT ![c] = next]
    BY <1>1 DEF Begin, Ends, Enter
  <2> HIDE DEF next
  <2>3. call' \in [Callers -> Calls]
    BY <2>1, <2>2 DEF TypeOK
  <2> QED
    BY <1>1, <2>3 DEF TypeOK, Begin
<1>2. ASSUME NEW c \in Callers, Serve(c) PROVE TypeOK'
  <2>1. call[c] \in [st : {"sent", "replied"}, cmd : Commands]
    BY <1>2, SMT DEF TypeOK, Serve, At, Calls, Idle
  <2>2. call' \in [Callers -> Calls]
    BY <1>2, <2>1 DEF TypeOK, Serve, Calls
  <2>3. DOMAIN server' \subseteq Keys /\ server' \in [DOMAIN server' -> Entries]
    BY <1>2, <2>1, ExecuteType DEF Serve
  <2> QED
    BY <1>2, <2>2, <2>3 DEF TypeOK, Serve
<1>3. ASSUME NEW c \in Callers, LoseReply(c) PROVE TypeOK'
  <2>1. call[c] \in [st : {"sent", "replied"}, cmd : Commands]
    BY <1>3, SMT DEF TypeOK, LoseReply, At, Calls, Idle
  <2>2. call' \in [Callers -> Calls]
    BY <1>3, <2>1 DEF TypeOK, LoseReply, Calls
  <2> QED
    BY <1>3, <2>2 DEF TypeOK, LoseReply
<1>4. ASSUME NEW c \in Callers, Reply(c) PROVE TypeOK'
  <2>1. call' \in [Callers -> Calls]
    BY <1>4 DEF TypeOK, Reply, Ends, Enter, succeeds, Calls
  <2> QED
    BY <1>4, <2>1 DEF TypeOK, Reply
<1>5. ASSUME NEW c \in Callers, Fail(c) PROVE TypeOK'
  <2>1. call' \in [Callers -> Calls]
    BY <1>5 DEF TypeOK, Fail, Ends, Enter, Calls
  <2>2. late' \subseteq Updates
    BY <1>5 DEF TypeOK, Fail
  <2> QED
    BY <1>5, <2>1, <2>2 DEF TypeOK, Fail
<1>6. ASSUME NEW c \in Callers, Mark(c) PROVE TypeOK'
  <2>1. call[c] \in [st : {"mark"}, ok : BOOLEAN]
    BY <1>6, SMT DEF TypeOK, Mark, At, Calls, Idle
  <2>2. call' \in [Callers -> Calls]
    BY <1>6 DEF TypeOK, Mark, Enter, Calls
  <2>3. degraded' \in BOOLEAN
    BY <1>6, <2>1 DEF Mark
  <2> QED
    BY <1>6, <2>2, <2>3 DEF TypeOK, Mark
<1>7. ASSUME NEW c \in Callers, Log(c) PROVE TypeOK'
  <2>1. call' \in [Callers -> Calls] /\ lines' \in Int
    BY <1>7, SMT DEF TypeOK, Log, Enter, Calls
  <2> QED
    BY <1>7, <2>1 DEF TypeOK, Log
<1>8. CASE ServeLate
  <2>1. PICK cmd \in late : Execute(cmd) /\ late' = late \ {cmd}
    BY <1>8 DEF ServeLate
  <2>2. DOMAIN server' \subseteq Keys /\ server' \in [DOMAIN server' -> Entries]
    BY <2>1, ExecuteType DEF TypeOK, Commands
  <2> QED
    BY <1>8, <2>1, <2>2 DEF TypeOK, ServeLate
<1>9. CASE Cancel
  BY <1>9 DEF TypeOK, Cancel
<1>10. CASE Pass
  BY <1>10, StoreAssumption, SMT DEF TypeOK, Pass
<1>11. CASE UNCHANGED vars
  BY <1>11 DEF TypeOK, vars
<1> QED
  BY <1>1, <1>2, <1>3, <1>4, <1>5, <1>6, <1>7, <1>8, <1>9, <1>10, <1>11 DEF Next, Operation

\* Commands, entries and the flag keep their form, whatever is retried or late.
THEOREM TypeCorrect == Spec => []TypeOK
<1>1. Init => TypeOK
  BY InitTypeOK
<1>2. TypeOK /\ [Next]_vars => TypeOK'
  BY NextTypeOK
<1> QED
  BY <1>1, <1>2, PTL DEF Spec

-----------------------------------------------------------------------------
(***************************************************************************)
(* The log lines.                                                          *)
(***************************************************************************)
\* Callers that have swapped the flag and not yet written their line.
Loggers(line) == {c \in Callers : At(c, "log") /\ call[c].line = line}

LEMMA LoggersFinite ==
    ASSUME NEW line
    PROVE  /\ IsFiniteSet(Loggers(line)) /\ Cardinality(Loggers(line)) \in Nat
           /\ Logging(line) = Cardinality(Loggers(line))
<1>1. Loggers(line) \subseteq Callers
  BY DEF Loggers
<1>2. IsFiniteSet(Loggers(line))
  BY <1>1, StoreAssumption, FS_Subset
<1> QED
  BY <1>2, FS_CardinalityType DEF Logging, Loggers

\* A step that makes nobody log or stop logging, and leaves flag and log alone.
LEMMA NoLineKept ==
    ASSUME LinesAddUp, UNCHANGED <<degraded, lines>>, NEW c \in Callers,
           ~At(c, "log"), ~At(c, "log")', \A d \in Callers \ {c} : call'[d] = call[d]
    PROVE  LinesAddUp'
<1>1. \A line : Loggers(line)' = Loggers(line)
  BY DEF Loggers, At
<1>2. \A line : Logging(line)' = Logging(line)
  BY <1>1 DEF Logging, Loggers
<1> QED
  BY <1>2 DEF LinesAddUp

Lines == {"failed", "recovered"}

\* A caller takes up line l, or has written it; the count of the other line o stays.
LEMMA LineTaken ==
    ASSUME NEW c \in Callers, NEW CONSTANT l \in Lines, NEW CONSTANT o \in Lines \ {l},
           ~At(c, "log"), call'[c] = [st |-> "log", line |-> l],
           \A d \in Callers \ {c} : call'[d] = call[d]
    PROVE  Logging(l)' = Logging(l) + 1 /\ Logging(o)' = Logging(o)
<1>1. Loggers(l)' = Loggers(l) \cup {c} /\ c \notin Loggers(l)
  BY SMT DEF Loggers, At
<1>2. Loggers(o)' = Loggers(o)
  BY SMT DEF Loggers, At, Lines
<1>3. Cardinality(Loggers(l) \cup {c}) = Cardinality(Loggers(l)) + 1
  BY <1>1, LoggersFinite, FS_AddElement
<1> QED
  BY <1>1, <1>2, <1>3 DEF Logging, Loggers

LEMMA LineWritten ==
    ASSUME NEW c \in Callers, NEW CONSTANT l \in Lines, NEW CONSTANT o \in Lines \ {l},
           At(c, "log"), call[c].line = l, call'[c] = Idle,
           \A d \in Callers \ {c} : call'[d] = call[d]
    PROVE  Logging(l)' = Logging(l) - 1 /\ Logging(o)' = Logging(o)
<1>1. Loggers(l)' = Loggers(l) \ {c} /\ c \in Loggers(l)
  BY SMT DEF Loggers, At, Idle
<1>2. Loggers(o)' = Loggers(o)
  BY SMT DEF Loggers, At, Lines, Idle
<1>3. Cardinality(Loggers(l) \ {c}) = Cardinality(Loggers(l)) - 1
  BY <1>1, LoggersFinite, FS_RemoveElement
<1> QED
  BY <1>1, <1>2, <1>3 DEF Logging, Loggers

\* The flag and the line that announces its new value change together.
LEMMA MarkLines ==
    ASSUME TypeOK, LinesAddUp, NEW c \in Callers, Mark(c)
    PROVE  LinesAddUp'
<1> DEFINE ok == call[c].ok
<1>1. ok \in BOOLEAN /\ ~At(c, "log")
  BY SMT DEF TypeOK, Mark, At, Calls, Idle
<1>2. degraded' = ~ok /\ lines' = lines /\ degraded \in BOOLEAN /\ lines \in Int
  BY DEF Mark, TypeOK
<1>3. \A d \in Callers \ {c} : call'[d] = call[d]
  BY DEF Mark, Enter, TypeOK
<1>4. Logging("failed") \in Nat /\ Logging("recovered") \in Nat
  BY LoggersFinite
<1>5. CASE degraded # ok
  <2>1. call'[c] = Idle
    BY <1>5 DEF Mark, Enter, swaps, TypeOK
  <2>2. ~At(c, "log")' /\ degraded' = degraded
    BY <1>1, <1>2, <1>5, <2>1, SMT DEF At, Idle
  <2> QED
    BY <1>1, <1>2, <1>3, <2>2, NoLineKept
<1>6. CASE degraded = ok /\ ok
  <2>1. call'[c] = [st |-> "log", line |-> "recovered"]
    BY <1>6 DEF Mark, Enter, swaps, TypeOK
  <2>2. Logging("recovered")' = Logging("recovered") + 1 /\ Logging("failed")' = Logging("failed")
    BY <1>1, <1>3, <2>1, LineTaken DEF Lines
  <2>3. degraded /\ ~degraded'
    BY <1>2, <1>6
  <2> QED
    BY <1>2, <1>4, <2>2, <2>3, SMT DEF LinesAddUp
<1>7. CASE degraded = ok /\ ~ok
  <2>1. call'[c] = [st |-> "log", line |-> "failed"]
    BY <1>7 DEF Mark, Enter, swaps, TypeOK
  <2>2. Logging("failed")' = Logging("failed") + 1 /\ Logging("recovered")' = Logging("recovered")
    BY <1>1, <1>3, <2>1, LineTaken DEF Lines
  <2>3. ~degraded /\ degraded'
    BY <1>2, <1>7
  <2> QED
    BY <1>2, <1>4, <2>2, <2>3, SMT DEF LinesAddUp
<1> QED
  BY <1>5, <1>6, <1>7

LEMMA LogLines ==
    ASSUME TypeOK, LinesAddUp, NEW c \in Callers, Log(c)
    PROVE  LinesAddUp'
<1>1. At(c, "log") /\ call[c].line \in Lines
  BY SMT DEF TypeOK, Log, At, Calls, Idle, Lines
<1>2. /\ lines' = lines + (IF call[c].line = "failed" THEN 1 ELSE -1)
      /\ lines \in Int /\ degraded' = degraded
  BY DEF Log, TypeOK
<1>3. /\ call'[c] = Idle
      /\ \A d \in Callers \ {c} : call'[d] = call[d]
  BY DEF Log, Enter, TypeOK
<1>4. Logging("failed") \in Nat /\ Logging("recovered") \in Nat
  BY LoggersFinite
<1>5. CASE call[c].line = "failed"
  <2>1. Logging("failed")' = Logging("failed") - 1 /\ Logging("recovered")' = Logging("recovered")
    BY <1>1, <1>3, <1>5, LineWritten DEF Lines
  <2> QED
    BY <1>2, <1>4, <1>5, <2>1, SMT DEF LinesAddUp
<1>6. CASE call[c].line = "recovered"
  <2>1. Logging("recovered")' = Logging("recovered") - 1 /\ Logging("failed")' = Logging("failed")
    BY <1>1, <1>3, <1>6, LineWritten DEF Lines
  <2> QED
    BY <1>2, <1>4, <1>6, <2>1, SMT DEF LinesAddUp
<1> QED
  BY <1>1, <1>5, <1>6 DEF Lines

LEMMA InitLines == Init => LinesAddUp
<1> SUFFICES ASSUME Init PROVE LinesAddUp
  OBVIOUS
<1>1. \A line : Loggers(line) = {}
  BY DEF Init, Loggers, At, Idle
<1>2. Logging("failed") = 0 /\ Logging("recovered") = 0
  BY <1>1, FS_EmptySet DEF Logging, Loggers
<1> QED
  BY <1>2, SMT DEF Init, LinesAddUp

LEMMA NextLines == TypeOK /\ LinesAddUp /\ [Next]_vars => LinesAddUp'
<1> SUFFICES ASSUME TypeOK, LinesAddUp, [Next]_vars PROVE LinesAddUp'
  OBVIOUS
<1>1. ASSUME NEW c \in Callers, NEW cmd \in Commands, Begin(c, cmd) PROVE LinesAddUp'
  <2>1. ~At(c, "log") /\ ~At(c, "log")' /\ \A d \in Callers \ {c} : call'[d] = call[d]
    BY <1>1, SMT DEF Begin, Ends, Enter, At, TypeOK
  <2> QED
    BY <1>1, <2>1, NoLineKept DEF Begin
<1>2. ASSUME NEW c \in Callers, Serve(c) \/ LoseReply(c) PROVE LinesAddUp'
  <2>1. call[c] \in [st : {"sent", "replied"}, cmd : Commands]
    BY <1>2, SMT DEF TypeOK, Serve, LoseReply, At, Calls, Idle
  <2>2. ~At(c, "log") /\ ~At(c, "log")' /\ \A d \in Callers \ {c} : call'[d] = call[d]
    BY <1>2, <2>1 DEF Serve, LoseReply, At, TypeOK
  <2> QED
    BY <1>2, <2>2, NoLineKept DEF Serve, LoseReply
<1>3. ASSUME NEW c \in Callers, Reply(c) \/ Fail(c) PROVE LinesAddUp'
  <2>1. ~At(c, "log") /\ ~At(c, "log")' /\ \A d \in Callers \ {c} : call'[d] = call[d]
    BY <1>3, SMT DEF Reply, Fail, Ends, Enter, At, TypeOK
  <2> QED
    BY <1>3, <2>1, NoLineKept DEF Reply, Fail
<1>4. ASSUME NEW c \in Callers, Mark(c) \/ Log(c) PROVE LinesAddUp'
  BY <1>4, MarkLines, LogLines
<1>5. CASE ServeLate \/ Cancel \/ Pass \/ UNCHANGED vars
  <2>1. UNCHANGED <<call, degraded, lines>>
    BY <1>5 DEF ServeLate, Cancel, Pass, vars
  <2> QED
    BY <2>1 DEF LinesAddUp, Logging, At
<1> QED
  BY <1>1, <1>2, <1>3, <1>4, <1>5 DEF Next, Operation

\* Each change of the degraded flag has exactly one line in the log or on its way
\* there, for any number of goroutines that fail and recover at once: what
\* markDegraded and markHealthy get from CompareAndSwap.
THEOREM OneLinePerTransition == Spec => []LinesAddUp
<1>1. Init => LinesAddUp
  BY InitLines
<1>2. TypeOK /\ LinesAddUp /\ [Next]_vars => LinesAddUp'
  BY NextLines
<1> QED
  BY <1>1, <1>2, TypeCorrect, PTL DEF Spec

-----------------------------------------------------------------------------
(***************************************************************************)
(* The refinement.                                                         *)
(***************************************************************************)
\* What the server does with a command is a step of the abstract store.
LEMMA ExecuteIsStep ==
    ASSUME TypeOK, NEW cmd \in Commands, Execute(cmd), now' = now
    PROVE  Promise!Next
<1>1. cmd.key \in Keys /\ cmd.op \in {"get", "set", "del"}
  BY DEF Commands, Updates
<1>2. CASE cmd.op = "set"
  <2> DEFINE new == [value |-> cmd.write.value, expiry |-> expiry(cmd.write.ttl)]
  <2>1. cmd.write \in Writes
    BY <1>2 DEF Commands, Updates
  <2>2. new \in Entries
    BY <2>1, ExpiryType DEF Entries, Values, TypeOK
  <2>3. /\ server' = [k \in DOMAIN server \cup {cmd.key} |-> IF k # cmd.key THEN server[k] ELSE new]
        /\ got' = NoGet
    BY <1>2 DEF Execute
  <2> HIDE DEF new
  <2>4. Promise!Set(cmd.key)
    BY <2>2, <2>3 DEF Promise!Set, Promise!Fits, Promise!NoGet, NoGet
  <2> QED
    BY <1>1, <2>4 DEF Promise!Next
<1>3. CASE cmd.op = "get"
  <2>1. \/ Live(cmd.key) /\ got' = Hit(cmd.key, server[cmd.key].value) /\ UNCHANGED server
        \/ /\ ~Live(cmd.key) /\ got' = Miss(cmd.key)
           /\ server' = Restrict(server, DOMAIN server \ {cmd.key})
    BY <1>3 DEF Execute
  <2>2. Promise!Get(cmd.key)
    BY <2>1 DEF Promise!Get, Promise!Live, Live, Promise!Hit, Hit, Promise!Miss, Miss,
       Promise!Restrict, Restrict
  <2> QED
    BY <1>1, <2>2 DEF Promise!Next
<1>4. CASE cmd.op = "del"
  <2>1. server' = Restrict(server, DOMAIN server \ {cmd.key}) /\ got' = NoGet
    BY <1>4 DEF Execute
  <2>2. Promise!Forget
    BY <2>1 DEF Promise!Forget, Promise!Restrict, Restrict, Promise!NoGet, NoGet
  <2> QED
    BY <2>2 DEF Promise!Next
<1> QED
  BY <1>1, <1>2, <1>3, <1>4

\* A step that leaves the server alone and returns from no Get.
LEMMA SilentIsStep ==
    ASSUME TypeOK, UNCHANGED <<server, now>>, got' = NoGet
    PROVE  Promise!Next
<1>1. server' = Promise!Restrict(server, DOMAIN server')
  BY DEF TypeOK, Promise!Restrict
<1> QED
  BY <1>1 DEF Promise!Next, Promise!Forget, Promise!NoGet, NoGet

\* A Get that is told it missed, whatever the server holds.
LEMMA MissIsStep ==
    ASSUME NEW k \in Keys, UNCHANGED <<server, now>>, got' = Miss(k)
    PROVE  Promise!Next
BY DEF Promise!Next, Promise!Get, Promise!Miss, Miss

LEMMA StepRefines == TypeOK /\ [Next]_vars => [Promise!Next]_(Promise!vars)
<1> SUFFICES ASSUME TypeOK, [Next]_vars PROVE Promise!Next \/ UNCHANGED Promise!vars
  OBVIOUS
<1>1. ASSUME NEW c \in Callers, NEW cmd \in Commands, Begin(c, cmd) PROVE Promise!Next
  <2>1. cmd.key \in Keys
    BY DEF Commands, Updates
  <2> QED
    BY <1>1, <2>1, SilentIsStep, MissIsStep DEF Begin
<1>2. ASSUME NEW c \in Callers, Serve(c) PROVE Promise!Next
  <2>1. call[c].cmd \in Commands
    BY <1>2, SMT DEF TypeOK, Serve, At, Calls, Idle
  <2> QED
    BY <1>2, <2>1, ExecuteIsStep DEF Serve
<1>3. ASSUME NEW c \in Callers, Fail(c) PROVE Promise!Next
  <2>1. call[c].cmd \in Commands
    BY <1>3, SMT DEF TypeOK, Fail, At, Calls, Idle
  <2>2. call[c].cmd.key \in Keys
    BY <2>1 DEF Commands, Updates
  <2>3. got' \in {NoGet, Miss(call[c].cmd.key)} /\ UNCHANGED <<server, now>>
    BY <1>3 DEF Fail, toldOnError
  <2> QED
    BY <2>2, <2>3, SilentIsStep, MissIsStep
<1>4. ASSUME NEW c \in Callers, LoseReply(c) \/ Reply(c) \/ Mark(c) \/ Log(c) PROVE Promise!Next
  BY <1>4, SilentIsStep DEF LoseReply, Reply, Mark, Log
<1>5. CASE ServeLate
  BY <1>5, ExecuteIsStep DEF ServeLate, TypeOK, Commands
<1>6. CASE Cancel
  BY <1>6, SilentIsStep DEF Cancel
<1>7. CASE Pass
  BY <1>7 DEF Pass, Promise!Next, Promise!Pass, Promise!NoGet, NoGet
<1>8. CASE UNCHANGED vars
  BY <1>8 DEF vars, Promise!vars
<1> QED
  BY <1>1, <1>2, <1>3, <1>4, <1>5, <1>6, <1>7, <1>8 DEF Next, Operation

\* The Redis store implements the abstract one: whatever is lost, retried, late or
\* cancelled, a hit is the value of the latest executed Set, unexpired.
THEOREM RedisRefinesStore == Spec => ImplementsStore
<1>1. Init => Promise!Init
  BY DEF Init, Promise!Init, NoGet, Promise!NoGet
<1>2. TypeOK /\ [Next]_vars => [Promise!Next]_(Promise!vars)
  BY StepRefines
<1> QED
  BY <1>1, <1>2, TypeCorrect, PTL DEF Spec, ImplementsStore, Promise!Spec
=============================================================================
