------------------------------- MODULE Config -------------------------------
(***************************************************************************)
(* internal/config: how defaults, the YAML file, AEGIS_* variables and     *)
(* flags become one Config, and what Validate accepts.  What a source says *)
(* about a field is absent, empty, malformed or a value; fields of a kind  *)
(* are treated alike.  Durations are in seconds.                           *)
(***************************************************************************)
EXTENDS Integers, Sequences, FiniteSets, Functions

Numbers == {"port", "maxCacheEntries", "finalityDepth", "lagThreshold", "wsReplayPendingCap"}
Durations == {"mutableTTL", "healthInterval", "probeTimeout", "writeTimeout"}
Words == {"cacheBackend", "redisURL", "logLevel", "logFormat"}
Lists == {"upstreams", "wsAllowedOrigins"}
LogWords == {"logLevel", "logFormat"}
Fields == Numbers \cup Durations \cup Words \cup Lists

\* A word in its exact form, or with capitals or spaces around it.
Exact(w) == [w |-> w, exact |-> TRUE]
Loose(w) == [w |-> w, exact |-> FALSE]
NoWord == Exact("")

Default ==
    [port |-> 8080, upstreams |-> {"llamarpc"}, mutableTTL |-> 12,
     maxCacheEntries |-> 10000, finalityDepth |-> 12, healthInterval |-> 15,
     probeTimeout |-> 5, lagThreshold |-> 10, cacheBackend |-> Exact("memory"),
     redisURL |-> NoWord, logLevel |-> Exact("info"), logFormat |-> Exact("text"),
     writeTimeout |-> 30, wsReplayPendingCap |-> 1024, wsAllowedOrigins |-> {}]

\* What one source says about one field.  An empty list has no entry but blanks.
Absent == [t |-> "absent"]
Empty == [t |-> "empty"]
Malformed == [t |-> "malformed"]
Says(v) == [t |-> "value", v |-> v]

\* The values of a field, and everything that a source can say about it.
Meanings(f) ==
    CASE f \in Words -> [w : STRING, exact : BOOLEAN]
      [] f \in Lists -> SUBSET STRING
      [] OTHER -> Int
Raws(f) == {Absent, Empty, Malformed} \cup [t : {"value"}, v : Meanings(f)]

\* The value of a field that its source leaves empty.
ValueOf(f, raw) ==
    CASE raw.t = "value" -> raw.v
      [] raw.t = "empty" /\ f \in Lists -> {}
      [] OTHER -> NoWord

-----------------------------------------------------------------------------
(***************************************************************************)
(* The layers.  in.yaml is what the file "config.yaml" says, in.env what   *)
(* the variables say, in.flag[f] lists the occurrences of a flag as        *)
(* flag.Parse finds them; in.stray[f] is text of the same look that is not *)
(* one: before the flags found, inside the value of another flag, or after *)
(* them, behind the first argument that ends the flags.  in.path holds the *)
(* path of the file as a flag and as a variable give it, if they do.       *)
(***************************************************************************)
\* Here, and only here, an empty flag does not override the variable.
cfgPath(in) == IF in.path.flag # "" THEN in.path.flag ELSE in.path.env

yamlSets(f, raw) == raw.t = "value" \/ (raw.t = "empty" /\ f = "wsAllowedOrigins")

\* A path other than "config.yaml" leads to no file, or to one with no document in
\* it, for which Decode returns io.EOF.
LoadFileFails(in) ==
    /\ cfgPath(in) # ""
    /\ cfgPath(in) # "config.yaml" \/ \E f \in Fields : in.yaml[f] = Malformed

LoadFile(in, cfg) ==
    [f \in Fields |-> IF cfgPath(in) # "" /\ yamlSets(f, in.yaml[f])
                      THEN ValueOf(f, in.yaml[f]) ELSE cfg[f]]

\* Faulty variant: a variable that is set but empty counts.
envSetsEmpty(f, raw) == raw.t = "value" \/ (raw.t = "empty" /\ f \in Words)

\* envInt, envUint64, envDuration, envString, envStringSlice.
envSets(f, raw) == raw.t = "value"

ApplyEnv(in, cfg) ==
    [f \in Fields |-> IF envSets(f, in.env[f]) THEN ValueOf(f, in.env[f]) ELSE cfg[f]]

\* flag.Parse ends the program at a value that it cannot parse.
FlagsFail(in) ==
    \E f \in Fields : \E raw \in Range(in.flag[f]) :
        raw = Malformed \/ (raw = Empty /\ f \in Numbers \cup Durations)

\* A flag given more than once has the value given last.
Last(s) == s[Len(s)]

VisitFlags(in, cfg) ==
    [f \in Fields |-> IF in.flag[f] = <<>> THEN cfg[f] ELSE ValueOf(f, Last(in.flag[f]))]

\* ToLower and TrimSpace, at the end of Parse.
normalise(cfg) ==
    [f \in Fields |-> IF f \in {"cacheBackend", "logLevel", "logFormat"}
                      THEN Exact(cfg[f].w) ELSE cfg[f]]

Validate(cfg) ==
    /\ cfg.upstreams # {}
    /\ 1 <= cfg.port /\ cfg.port <= 65535
    /\ cfg.mutableTTL > 0 /\ cfg.writeTimeout > 0
    /\ 0 < cfg.probeTimeout /\ cfg.probeTimeout < cfg.healthInterval
    /\ cfg.cacheBackend.w \in {"memory", "redis"}
    /\ cfg.cacheBackend.w = "redis" => cfg.redisURL # NoWord
    /\ cfg.logLevel.w \in {"debug", "info", "warn", "error"}
    /\ cfg.logFormat.w \in {"text", "json"}
    /\ cfg.wsReplayPendingCap > 0

Layered(in) == normalise(VisitFlags(in, ApplyEnv(in, LoadFile(in, Default))))

Accepts(in) == ~FlagsFail(in) /\ ~LoadFileFails(in) /\ Validate(Layered(in))

-----------------------------------------------------------------------------
(***************************************************************************)
(* The logger of main: set up before Parse from what it can see without    *)
(* parsing, and again from the Config.                                     *)
(***************************************************************************)
setupLogger(level, format) ==
    [level |-> IF level.w \in {"debug", "warn", "error"} THEN level.w ELSE "info",
     json |-> format.w = "json"]

\* peekFlag walks all of os.Args and takes the first argument that looks like the
\* flag, whatever flag.Parse will make of it.
peekFlag(in, f) ==
    IF in.stray[f].before # Absent THEN in.stray[f].before
    ELSE IF in.flag[f] # <<>> THEN Head(in.flag[f])
    ELSE in.stray[f].after

\* Faulty variant: the variable wins over the flag.
earlyEnvFirst(in, f) ==
    IF in.env[f].t = "value" THEN in.env[f].v
    ELSE IF peekFlag(in, f).t = "value" THEN peekFlag(in, f).v
    ELSE Default[f]

\* An empty flag counts as none, and so does an empty variable.
early(in, f) ==
    IF peekFlag(in, f).t = "value" THEN peekFlag(in, f).v
    ELSE IF in.env[f].t = "value" THEN in.env[f].v
    ELSE Default[f]

setupLoggerFromEarly(in) == setupLogger(early(in, "logLevel"), early(in, "logFormat"))

\* The switch of buildCacheStore compares the exact word.
buildCacheStore(cfg) == IF cfg.cacheBackend = Exact("redis") THEN "redis" ELSE "memory"
=============================================================================
