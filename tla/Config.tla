--------------------------------- MODULE Config ---------------------------------
(***************************************************************************)
(* internal/config and the flags of cmd/agentgpu/server.go: how a setting  *)
(* is resolved from its flag, its environment variable and its default.    *)
(*                                                                         *)
(* A value is abstracted to what the resolvers tell apart.  A flag is      *)
(* "unset", "zero" (the empty or zero value, given), "neg" or "value"; a   *)
(* variable is "unset", "empty", "bad" (does not parse), "zero", "neg" or  *)
(* "value".  A resolved setting is <<where it came from, what it is>>.     *)
(* "home" says whether the host tells its home directory and its name.     *)
(***************************************************************************)
EXTENDS Integers, Sequences

VARIABLE conf    \* the flag and the variable given to every setting, and the result

FlagKinds == {"unset", "zero", "neg", "value"}
EnvKinds == {"unset", "empty", "bad", "zero", "neg", "value"}

Default == <<"default", "value">>
NoText == <<"default", "empty">>
Unlimited == <<"default", "zero">>
Env(e) == <<"env", e>>
Flag(f) == <<"flag", f>>

-----------------------------------------------------------------------------
(* The environment: a variable that does not parse is passed over in silence *)

envOr(e, fallback) == IF e \in {"unset", "empty"} THEN fallback ELSE Env(e)
durationEnvOr(e, fallback) == IF e = "value" THEN Env(e) ELSE fallback
uintEnvOr(e, fallback) == IF e \in {"zero", "value"} THEN Env(e) ELSE fallback
intEnvOr(e, fallback) == IF e \in {"zero", "value"} THEN Env(e) ELSE fallback
boolEnvOr(e, fallback) == IF e \in {"zero", "value"} THEN Env(e) ELSE fallback

-----------------------------------------------------------------------------
(* The resolvers.  A flag counts when it is positive, or not empty. *)

GivenText(f) == f \notin {"unset", "zero"}
GivenNumber(f) == f = "value"

\* What runServerCmd makes of an explicit "off".
metricsListenOff(f, e) == f = "zero" \/ (f = "unset" /\ e = "empty")
Disabled == <<"flag", "off">>

ListenOf(f, e) == IF GivenText(f) THEN Flag(f) ELSE envOr(e, Default)
ResolveServer(f, e) ==
    [listen |-> ListenOf(f, e), httpListen |-> ListenOf(f, e),
     metricsListen |-> IF metricsListenOff(f, e) THEN Disabled ELSE ListenOf(f, e)]
MetricsListenAddr(resolved) == IF resolved = Disabled THEN <<>> ELSE resolved

ResolveHeartbeatInterval(f, e) == IF GivenNumber(f) THEN Flag(f) ELSE durationEnvOr(e, Default)
ResolveHeartbeatTimeout(f, e) == IF GivenNumber(f) THEN Flag(f) ELSE durationEnvOr(e, Default)
ResolveOllamaURL(f, e) == IF GivenText(f) THEN Flag(f) ELSE envOr(e, Default)
ResolveHTTPAddr(f, e) == IF GivenText(f) THEN Flag(f) ELSE envOr(e, Default)
ResolveToken(f, e) == IF GivenText(f) THEN Flag(f) ELSE envOr(e, NoText)
ResolveGPUDetect(f, e) == IF f # "unset" THEN Flag(f) ELSE boolEnvOr(e, Default)
ResolveGPUType(f, e) == IF GivenText(f) THEN Flag(f) ELSE envOr(e, NoText)
ResolveTotalVRAM(f, e) == IF GivenNumber(f) THEN Flag(f) ELSE uintEnvOr(e, Unlimited)

\* The default paths are under the home directory, or relative without one.
DefaultPath(file, home) == <<"default", IF home THEN "home" ELSE "relative", file>>
ResolveStorePath(f, e, home) == IF GivenText(f) THEN Flag(f) ELSE envOr(e, DefaultPath("keys", home))
ResolveQuotaPath(f, e, home) == IF GivenText(f) THEN Flag(f) ELSE envOr(e, DefaultPath("quota", home))
ResolveSessionPath(f, e, home) == IF GivenText(f) THEN Flag(f) ELSE envOr(e, DefaultPath("sessions", home))

\* The per-key defaults have no variable; the global limits have.
ResolveQuota(f, e, home) ==
    LET global == IF GivenNumber(f) THEN Flag(f) ELSE uintEnvOr(e, Unlimited) IN
    [path |-> ResolveQuotaPath(f, e, home), globalRPM |-> global, globalTPM |-> global]

ResolveSessionTTL(f, e) == IF GivenNumber(f) THEN Flag(f) ELSE durationEnvOr(e, Default)
ResolveModelWarmMax(f, e) == IF GivenNumber(f) THEN Flag(f) ELSE durationEnvOr(e, Default)
ResolveSessionMaxTurns(f, e) == IF GivenNumber(f) THEN Flag(f) ELSE intEnvOr(e, Default)
ResolveMaxSessionsPerKey(f, e) == IF GivenNumber(f) THEN Flag(f) ELSE intEnvOr(e, Unlimited)
ResolveSessionMaxContextTokens(f, e) == IF GivenNumber(f) THEN Flag(f) ELSE intEnvOr(e, Unlimited)
ResolveSessionOverflowPolicy(f, e) == IF GivenText(f) THEN Flag(f) ELSE envOr(e, Default)

ResolveSession(f, e, home) ==
    [path |-> ResolveSessionPath(f, e, home), ttl |-> ResolveSessionTTL(f, e),
     warmMax |-> ResolveModelWarmMax(f, e), maxTurns |-> ResolveSessionMaxTurns(f, e),
     maxBytes |-> IF GivenNumber(f) THEN Flag(f) ELSE Default,
     maxContextTokens |-> ResolveSessionMaxContextTokens(f, e),
     maxSessionsPerKey |-> ResolveMaxSessionsPerKey(f, e),
     overflow |-> ResolveSessionOverflowPolicy(f, e)]

\* A policy that is not one of the two falls back to trimming.
ParseOverflowPolicy(p) == IF p[1] = "default" \/ p[2] # "value" THEN "trim" ELSE "reject"

ResolveLog(f, e) == [level |-> ListenOf(f, e), format |-> ListenOf(f, e), output |-> ListenOf(f, e)]

\* The worker's id falls back to the host name.
ResolveWorker(f, e, host) ==
    LET id == IF GivenText(f) THEN Flag(f) ELSE envOr(e, NoText) IN
    [server |-> IF GivenText(f) THEN Flag(f) ELSE envOr(e, NoText),
     id |-> IF id = NoText /\ host THEN <<"host", "value">> ELSE id]

-----------------------------------------------------------------------------
(* A command of each kind starts from the same flags and variables *)

ConfigInit ==
    conf \in [flag : FlagKinds, env : EnvKinds, home : BOOLEAN, done : {{}}, refused : {{}},
              server : {<<>>}, session : {<<>>}, quota : {<<>>}, log : {<<>>}, worker : {<<>>}, client : {<<>>}]

runServerCmd ==
    LET f == conf.flag  e == conf.env IN
    /\ "server" \notin conf.done
    /\ conf' = [conf EXCEPT !.done = @ \cup {"server"},
                  !.server = [cfg |-> ResolveServer(f, e), store |-> ResolveStorePath(f, e, conf.home),
                               heartbeat |-> ResolveHeartbeatTimeout(f, e)],
                  !.session = ResolveSession(f, e, conf.home), !.quota = ResolveQuota(f, e, conf.home),
                  !.log = ResolveLog("unset", e)]
\* A worker needs a server to connect to.
runWorkerCmd ==
    LET f == conf.flag
        e == conf.env
        cfg == ResolveWorker(f, e, conf.home)
    IN /\ "worker" \notin conf.done
       /\ conf' = IF cfg.server = NoText
                    THEN [conf EXCEPT !.done = @ \cup {"worker"}, !.refused = @ \cup {"worker"}]
                    ELSE [conf EXCEPT !.done = @ \cup {"worker"},
                            !.worker = [cfg |-> cfg, heartbeat |-> ResolveHeartbeatInterval(f, e),
                                        ollama |-> ResolveOllamaURL(f, e), detect |-> ResolveGPUDetect(f, e),
                                        type |-> ResolveGPUType(f, e), vram |-> ResolveTotalVRAM(f, e)]]
\* A command that talks to a server over HTTP needs a token.
client ==
    LET token == ResolveToken(conf.flag, conf.env) IN
    /\ "client" \notin conf.done
    /\ conf' = IF token = NoText
                 THEN [conf EXCEPT !.done = @ \cup {"client"}, !.refused = @ \cup {"client"}]
                 ELSE [conf EXCEPT !.done = @ \cup {"client"},
                         !.client = [addr |-> ResolveHTTPAddr(conf.flag, conf.env), token |-> token]]

ConfigNext == runServerCmd \/ runWorkerCmd \/ client

-----------------------------------------------------------------------------
(* Properties *)

\* The settings of the commands that run.
Started(command) == command \in conf.done \ conf.refused
Texts ==
    (IF Started("server") THEN {conf.server.cfg.listen, conf.server.cfg.httpListen, conf.server.store,
                                conf.session.path, conf.quota.path} ELSE {}) \cup
    (IF Started("worker") THEN {conf.worker.cfg.server, conf.worker.ollama} ELSE {}) \cup
    (IF Started("client") THEN {conf.client.addr, conf.client.token} ELSE {})
Durations ==
    (IF Started("server") THEN {conf.session.ttl, conf.session.warmMax, conf.server.heartbeat} ELSE {}) \cup
    (IF Started("worker") THEN {conf.worker.heartbeat} ELSE {})
Limits ==
    IF Started("server") THEN {conf.session.maxTurns, conf.session.maxContextTokens, conf.session.maxSessionsPerKey,
                               conf.quota.globalRPM, conf.quota.globalTPM} ELSE {}
Others ==
    IF Started("worker") THEN {conf.worker.detect, conf.worker.type, conf.worker.vram} ELSE {}

\* Whatever is given, a command that starts has values it can run with: no
\* empty address, path or token, every duration positive, a zero limit only
\* where zero means "no limit", and one of the two overflow policies.  It is
\* refused only when nothing names the server, or the token, it needs.
UsableSettings ==
    /\ \A v \in Texts : v[2] \notin {"unset", "empty"}
    /\ \A v \in Durations : v[2] = "value"
    /\ \A v \in Limits : v[2] \in {"zero", "value"}
    /\ Started("server") =>
          /\ ParseOverflowPolicy(conf.session.overflow) \in {"trim", "reject"}
          /\ conf.session.maxBytes[2] = "value"
    /\ conf.refused # {} => conf.flag \in {"unset", "zero"} /\ conf.env \in {"unset", "empty"}

\* A usable flag wins over a usable variable, which wins over the default; and
\* the metrics listener is off when the operator said so, by an empty flag or
\* an empty variable that no flag overrides, and only then.
FlagOverEnv ==
    LET All == Texts \cup Durations \cup Limits \cup Others IN
    /\ conf.flag = "value" => \A v \in All : v[1] = "flag"
    /\ conf.flag = "unset" /\ conf.env = "value" => \A v \in All : v[1] = "env"
    /\ conf.flag = "unset" /\ conf.env \in {"unset", "empty"} => \A v \in All : v[1] = "default"
    /\ Started("server") =>
          (MetricsListenAddr(conf.server.cfg.metricsListen) = <<>>) =
             (conf.flag = "zero" \/ (conf.flag = "unset" /\ conf.env = "empty"))
=============================================================================
