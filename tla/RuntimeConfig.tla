--------------------------- MODULE RuntimeConfig ---------------------------
(***************************************************************************)
(* The runtime settings of internal/httpapi (admin_config.go,              *)
(* admin_config_checkpoint.go, webui_settings.go) and the appliers that    *)
(* cmd/agentgpu wires to them: the values the holder reports, the values   *)
(* the subsystems run with, the fields an operator has overridden and the  *)
(* file they are checkpointed to.                                          *)
(*                                                                         *)
(* A value is a number.  Of a duration the positive ones are valid, of a   *)
(* count the non-negative ones, of an enumeration 1 and 2; Blank is an     *)
(* input left empty in the settings form.                                  *)
(***************************************************************************)
EXTENDS Integers, FiniteSets

CONSTANTS
    Boot,        \* the settings flags, environment and defaults resolve to
    Blank

VARIABLES
    cur,         \* runtimeConfig.cur, what GET reports
    live,        \* what the subsystems run with
    persisted,   \* runtimeConfig.persisted
    confFile,    \* the override checkpoint, a partial function
    writeMu      \* the request that holds the lock, or Blank

confVars == <<cur, live, persisted, confFile, writeMu>>

-----------------------------------------------------------------------------
(* Fields and appliers *)

\* The appliers in the order apply calls them, and the fields each pushes.
ConfigAppliers ==
    << {"log_level"},
       {"quota_default_rpm", "quota_default_tpm", "quota_default_daily_tokens",
        "quota_default_monthly_tokens"},
       {"quota_global_rpm", "quota_global_tpm"},
       {"session_ttl"},
       {"session_max_turns", "session_max_bytes", "session_max_context_tokens",
        "session_max_sessions_per_key", "session_overflow_policy"},
       {"model_warm_max"},
       {"heartbeat_timeout"} >>
Appliers == 1 .. 7

tunableFields == UNION {ConfigAppliers[i] : i \in Appliers}
readOnlyFields ==
    {"server_listen", "server_http_listen", "server_metrics_listen",
     "quota_path", "session_path", "log_format", "log_output"}
isTunableField(f) == f \in tunableFields
isReadOnlyField(f) == f \in readOnlyFields

Durations == {"session_ttl", "model_warm_max", "heartbeat_timeout"}
Enums == {"log_level", "session_overflow_policy"}
numericConfigField(f) == f \in tunableFields \ (Durations \cup Enums)

ConfigSettings == [tunableFields -> Int]

\* serveControlPlane resolves the policy to one of the two before it hands
\* the settings on; the log level it hands on as it was given.
ASSUME ConfigConstants ==
    Boot \in ConfigSettings /\ Boot["session_overflow_policy"] \in {1, 2}

-----------------------------------------------------------------------------
(* Validation *)

\* decodeString, decodeUint, decodeNonNegInt, decodeDuration and the range
\* checks applyConfigPatch makes of each field.
validValue(f, v) ==
    CASE f \in Durations -> v > 0
      [] f \in Enums -> v \in {1, 2}
      [] OTHER -> v >= 0

\* What the subsystem itself accepts: a level or a policy it cannot parse is
\* an error, a duration that is not positive is ignored.
applierRejects(i, next) ==
    \/ i = 1 /\ next["log_level"] \notin {1, 2}
    \/ i = 5 /\ next["session_overflow_policy"] \notin {1, 2}
applierIgnores(f, next) == f \in Durations /\ next[f] <= 0

\* applyConfigPatch: every present field is checked before any is applied.
applyConfigPatch(settings, raw) ==
    IF \A f \in DOMAIN raw : validValue(f, raw[f])
    THEN [ok |-> TRUE, changed |-> DOMAIN raw,
          next |-> [f \in tunableFields |-> IF f \in DOMAIN raw THEN raw[f] ELSE settings[f]]]
    ELSE [ok |-> FALSE, changed |-> {}, next |-> settings]
Patches == [ok : BOOLEAN, changed : SUBSET tunableFields, next : ConfigSettings]

\* The JSON body of PUT /v1/admin/config: a field that cannot be tuned
\* refuses the whole update.
BodyPatch(body) ==
    IF \E f \in DOMAIN body : isReadOnlyField(f) \/ ~ isTunableField(f)
    THEN [ok |-> FALSE, raw |-> <<>>]
    ELSE [ok |-> TRUE, raw |-> body]

\* The form of PUT /admin/config: blanks and unknown inputs are dropped.
settingsFormToPatch(form) ==
    LET present == {f \in DOMAIN form : isTunableField(f) /\ form[f] # Blank} IN
    IF \/ \E f \in DOMAIN form : isReadOnlyField(f)
       \/ \E f \in present : numericConfigField(f) /\ form[f] < 0
    THEN [ok |-> FALSE, raw |-> <<>>]
    ELSE [ok |-> TRUE, raw |-> [f \in present |-> form[f]]]

-----------------------------------------------------------------------------
(* Applying and checkpointing *)

\* The appliers that have a changed field, up to the first that rejects.
Touched(changed) == {i \in Appliers : ConfigAppliers[i] \cap changed # {}}
Rejecting(next, changed) == {i \in Touched(changed) : applierRejects(i, next)}
Pushed(next, changed) ==
    {i \in Touched(changed) : \A j \in Rejecting(next, changed) : i < j}

pushLive(next, changed) ==
    [f \in tunableFields |->
        IF /\ \E i \in Pushed(next, changed) : f \in ConfigAppliers[i]
           /\ ~ applierIgnores(f, next)
        THEN next[f] ELSE live[f]]

\* apply: push, and only when every applier took its values, commit.
apply(next, changed) ==
    /\ live' = pushLive(next, changed)
    /\ IF Rejecting(next, changed) = {}
       THEN cur' = next /\ persisted' = persisted \cup changed
       ELSE UNCHANGED <<cur, persisted>>

\* checkpoint: the overridden fields, through a temporary file and a rename.
checkpoint(io) ==
    confFile' = IF io = "ok" THEN [f \in persisted |-> cur[f]] ELSE confFile

\* LoadConfigCheckpoint at boot, on top of the resolved settings: fields
\* that cannot be tuned are dropped, then the rest is applied as a PUT is,
\* or not at all when one value is invalid.
LoadConfigCheckpoint ==
    LET raw == [f \in DOMAIN confFile \cap tunableFields |-> confFile[f]]
        patch == applyConfigPatch(Boot, raw) IN
    IF patch.ok
    THEN /\ cur' = patch.next
         /\ live' = patch.next
         /\ persisted' = patch.changed
    ELSE /\ cur' = Boot
         /\ live' = Boot
         /\ persisted' = {}

=============================================================================
