------------------------------- MODULE MCMain -------------------------------
(***************************************************************************)
(* Inputs for Main: each field by itself in all its sources, the two pairs *)
(* of fields that Validate relates, the ways to name the file, and text    *)
(* that looks like a flag of the logger and is none.                       *)
(***************************************************************************)
EXTENDS Main

Blank ==
    [yaml |-> [f \in Fields |-> Absent], env |-> [f \in Fields |-> Absent],
     flag |-> [f \in Fields |-> <<>>],
     stray |-> [f \in LogWords |-> [before |-> Absent, after |-> Absent]], path |-> [flag |-> "", env |-> "config.yaml"]]

Tried(f) ==
    CASE f = "port" -> {0, 65535, 65536}
      [] f = "cacheBackend" -> {Exact("redis"), Loose("redis"), Loose("memory"), Exact("other")}
      [] f = "redisURL" -> {Exact("url"), Loose("url")}
      [] f = "logLevel" -> {Exact("debug"), Loose("warn"), Exact("other")}
      [] f = "logFormat" -> {Exact("json"), Loose("json"), Loose("text")}
      [] f \in Lists -> {{"a"}, {"a", "b"}}
      [] f \in {"probeTimeout", "healthInterval"} -> {0, 5, 6}
      [] OTHER -> {0, 1}

Says_(f) == {Says(v) : v \in Tried(f)}
Typos(f) == IF f \in Numbers \cup Durations THEN {Malformed} ELSE {}
InYaml(f) == {Absent} \cup Says_(f) \cup Typos(f) \cup IF f \in Numbers THEN {} ELSE {Empty}
InEnv(f) == {Absent, Empty} \cup Says_(f) \cup Typos(f)
Occurrences(f) == {Empty} \cup Says_(f) \cup Typos(f)
InFlag(f) ==
    {<<>>} \cup {<<a>> : a \in Occurrences(f)}
           \cup {<<a, b>> : a, b \in IF f \in Words THEN Occurrences(f) ELSE {}}

Put(in, f, y, e, g) ==
    [in EXCEPT !.yaml[f] = y, !.env[f] = e, !.flag[f] = g]

OneField(f) == {Put(Blank, f, y, e, g) : y \in InYaml(f), e \in InEnv(f), g \in InFlag(f)}
TwoFields(f, h) ==
    {Put(Put(Blank, f, Absent, e, <<>>), h, y, Absent, g) :
        e \in InEnv(f), y \in InYaml(h), g \in {<<>>} \cup {<<a>> : a \in Occurrences(h)}}
Paths ==
    {[Blank EXCEPT !.yaml["port"] = Says(65535), !.path = [flag |-> a, env |-> b]] :
        a, b \in {"", "config.yaml", "missing"}}

\* Before the flags it is the value of redisURL, after them an argument.
Strays(f) ==
    LET text == {Absent} \cup Occurrences(f) IN
    {[Put(Blank, f, y, e, g) EXCEPT
        !.stray[f] = [before |-> a, after |-> b],
        !.flag["redisURL"] = IF a = Absent THEN <<>> ELSE <<Says(Exact("text"))>>] :
        y \in {Absent, Says(Exact("other"))}, e \in InEnv(f),
        g \in {<<>>} \cup {<<o>> : o \in Occurrences(f)}, a \in text, b \in text}

Tries ==
    UNION {OneField(f) : f \in Fields}
        \cup TwoFields("redisURL", "cacheBackend") \cup TwoFields("probeTimeout", "healthInterval")
        \cup Paths \cup UNION {Strays(f) : f \in LogWords}
=============================================================================
