------------------------------ MODULE MCAdmin ------------------------------
(* Admin on small instances: each scenario opens one part of the surface.  *)
EXTENDS Admin, TLC

MCBoot == [f \in tunableFields |-> 1]

Perms(roles, scopes, allow, deny) ==
    [roles |-> roles, scopes |-> scopes, allow |-> allow, deny |-> deny]
AdminPerms == Perms({"admin"}, {}, {}, {"m1"})
Operator == Perms({"user"}, {<<"keys", "write">>, <<"keys", "read">>}, {"m1"}, {})
Reader == Perms({"user", "readonly"}, {<<"keys", "read">>}, {"m1"}, {})

Base == [boot |-> <<AdminPerms, Operator>>, fronts |-> {"api"}, ops |-> {}, requests |-> 2,
         callers |-> {1, 2}, strangers |-> {}, perms |-> {Reader}, patches |-> {},
         forms |-> {}, pairs |-> {}, limits |-> {<<>>}, idems |-> {None}, expiries |-> {None},
         targets |-> {2}, faults |-> 0, crashes |-> 0, ticks |-> 0, local |-> 0,
         signedIn |-> FALSE, edits |-> {}]

\* Two writes on keys, with a failure of the disk and a crash.
KeyFaults ==
    [Base EXCEPT !.ops = {"create", "revoke", "rotate", "perms"}, !.faults = 1, !.crashes = 1,
                 !.callers = {1}]
\* Three requests racing for one key.
KeyRaces == [Base EXCEPT !.ops = {"revoke", "rotate"}, !.requests = 3]
\* Revocations of one key, of which the flush of one fails, and a crash.
RevokeFaults == [Base EXCEPT !.ops = {"revoke"}, !.requests = 3, !.faults = 1, !.crashes = 1,
                           !.callers = {2}]
\* A creation whose flush fails, and a rotation of the key it has left.
CreateFaults ==
    [Base EXCEPT !.ops = {"create", "rotate"}, !.requests = 3, !.faults = 1, !.perms = {AdminPerms},
                 !.targets = {3}, !.callers = {1, 3}]
GrantRaces == [Base EXCEPT !.ops = {"perms"}, !.requests = 3, !.perms = {Reader, Operator},
                         !.callers = {2}]
\* Rotations with an Idempotency-Key, from two callers, as time passes.
Retries == [Base EXCEPT !.ops = {"rotate"}, !.requests = 3, !.idems = {"i1"}, !.ticks = 1]
\* Three concurrent updates of the settings, one of them invalid.
Settings ==
    [Base EXCEPT !.ops = {"config"}, !.requests = 3, !.boot = <<AdminPerms>>, !.callers = {1},
        !.patches = {"log_level" :> 2, "session_ttl" :> 2,
                     ("session_ttl" :> 3) @@ ("session_overflow_policy" :> 7)}]
\* Updates with a failing checkpoint, a crash and a file edited badly.
SettingsEdit ==
    [Settings EXCEPT !.requests = 2, !.crashes = 1, !.faults = 1, !.edits = {"log_level"},
        !.patches = {"log_level" :> 2, "session_ttl" :> 2}]
\* One update with any body, form or command line, and a failing checkpoint.
SettingsFronts ==
    [Settings EXCEPT !.fronts = {"api", "ui", "cli"}, !.requests = 1, !.signedIn = TRUE, !.faults = 1,
        !.patches = {<<>>, "session_ttl" :> 2, "server_listen" :> 1, "color" :> 1},
        !.forms = {("session_ttl" :> 3) @@ ("log_level" :> Blank) @@ ("color" :> 1),
                   "log_format" :> 1, "quota_global_rpm" :> -1},
        !.pairs = {<<>>, <<<<"log_level", 2>>>>, <<<<"log_level", 1>>, <<"log_level", 2>>>>}]
SettingsCrash ==
    [SettingsFronts EXCEPT !.fronts = {"api", "cli"}, !.requests = 2, !.crashes = 1, !.faults = 0]
Console ==
    [Base EXCEPT !.fronts = {"ui"}, !.signedIn = TRUE, !.faults = 1,
        !.ops = {"create", "revoke", "rotate", "perms", "page", "index", "loginpage", "login",
                 "logout"}, !.perms = {Reader, Malformed}, !.targets = {1, 2, 4}]
SignIn == [Console EXCEPT !.signedIn = FALSE, !.ops = {"loginpage", "login", "index", "page"},
                          !.requests = 3, !.faults = 0, !.boot = <<AdminPerms, Reader>>]
Fleet == [Base EXCEPT !.callers = {1}, !.ops = {"drain", "evict", "pull", "unload"}]
FleetFronts == [Fleet EXCEPT !.fronts = {"ui", "cli"}, !.signedIn = TRUE, !.requests = 1]
Commands ==
    [Base EXCEPT !.fronts = {"cli", "api"}, !.ops = {"create", "perms", "quota", "read"},
                 !.targets = {2, 4}, !.strangers = {None}, !.callers = {1}, !.ticks = 1,
                 !.limits = {[rpm |-> 1]}, !.expiries = {0, 1}]
\* --local commands beside a server, on an empty store and on one with keys.
Bootstrap ==
    [Base EXCEPT !.boot = <<>>, !.local = 2, !.crashes = 1, !.perms = {AdminPerms}, !.targets = {1},
                 !.ops = {"create", "rotate", "revoke"}, !.callers = {1}]
LiveStore == [Bootstrap EXCEPT !.boot = <<AdminPerms>>, !.perms = {Operator}]

MCScenarios == {KeyFaults, KeyRaces, RevokeFaults, CreateFaults, GrantRaces, Retries, Settings,
                SettingsEdit, SettingsFronts, SettingsCrash, Console, SignIn, Fleet, FleetFronts, Commands,
                Bootstrap, LiveStore}
=============================================================================
