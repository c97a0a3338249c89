----------------------------- MODULE KeyService -----------------------------
(***************************************************************************)
(* API keys: the record of internal/store, the keyset a server process     *)
(* holds in memory and the keys file it rewrites on every change, the      *)
(* operations of auth.Service on them, and the decisions of                *)
(* internal/authz.                                                         *)
(*                                                                         *)
(* Every operation of auth.Service holds the service's mutex from its read *)
(* to its flush, so each is one step: an operator here gives the outcome   *)
(* of the call and the record it puts, and Commit applies it.  A secret is *)
(* a number, fresh at each mint; a token names the key and the secret.     *)
(* What authenticating writes is the usage count; the time it also writes  *)
(* is left out.                                                            *)
(***************************************************************************)
EXTENDS Integers, FiniteSets

CONSTANTS
    KeyIds,      \* bound: ids mint() can hand out, numbered from 1
    Models,      \* model names
    MaxClock,    \* bound: the last instant
    None         \* nil, or absent

ASSUME KeyConstants ==
    /\ KeyIds \subseteq Nat /\ IsFiniteSet(KeyIds) /\ KeyIds # {} /\ KeyIds = 1 .. Cardinality(KeyIds)
    /\ MaxClock \in Nat

VARIABLES
    keys,        \* File.keys, the keyset in the server's memory
    disk,        \* the keys file
    clock,       \* time
    minted       \* how many secrets have been minted

keyVars == <<keys, disk, clock, minted>>

-----------------------------------------------------------------------------
(* Roles, scopes and the precedence ladder of internal/authz *)

Actions == {"pull", "load", "infer"}

\* allRoles: the actions each role grants, as the role editor shows them.
allRoles == [admin |-> Actions, user |-> Actions, readonly |-> {"infer"}]
AllRoles == DOMAIN allRoles
ValidRole(role) == role \in AllRoles

allScopes ==
    {"config", "workers", "models", "keys", "logs", "telemetry", "audit"}
        \X {"read", "write"}
ValidScope(scope) == scope \in allScopes

HasScope(key, scope) == "admin" \in key.roles \/ scope \in key.scopes

decide(key, model, action) ==
    /\ model \notin key.deny
    /\ \/ "admin" \in key.roles
       \/ /\ ~ ("readonly" \in key.roles /\ action \in {"pull", "load"})
          /\ model \in key.allow
          /\ {"user", "readonly"} \cap key.roles # {}

Authorize(key, model, action) ==
    IF decide(key, model, action) THEN "granted" ELSE "denied"

-----------------------------------------------------------------------------
(* The key record and the file behind the keyset *)

Permissions ==
    [roles : SUBSET AllRoles, scopes : SUBSET allScopes,
     allow : SUBSET Models, deny : SUBSET Models]

\* What a request body can carry: it may also name a role that does not
\* exist.
UnknownRole == "root"
Malformed == [roles |-> {UnknownRole}, scopes |-> {}, allow |-> {}, deny |-> {}]

hashSecret(salt, secret) == <<salt, secret>>
formatToken(id, secret) == [id |-> id, secret |-> secret]

limitFields == {"rpm", "tpm", "daily_tokens", "monthly_tokens"}
Limits == [limitFields -> Nat]

APIKey ==
    [salt : Nat, hash : Nat \X Nat, roles : SUBSET (AllRoles \cup {UnknownRole}),
     scopes : SUBSET allScopes, allow : SUBSET Models, deny : SUBSET Models,
     revoked : BOOLEAN, expires : Nat \cup {None},
     limits : Limits \cup {None}, usage : Nat, by : KeyIds \cup {None}]

Keyset == [KeyIds -> APIKey \cup {None}]
EmptyStore == [id \in KeyIds |-> None]
Token == [id : KeyIds, secret : Nat]

ASSUME NoneDistinct == None \notin Nat \cup APIKey \cup Limits \cup Token

Expired(key) == key.expires # None /\ clock > key.expires
ListAPIKeys == {id \in KeyIds : keys[id] # None}
GetAPIKey(id) == keys[id]

\* Memory first, then the file through a temporary file and a rename; a
\* flush that fails leaves the old file and the new memory.
PutAPIKey(id, key, io) ==
    /\ keys' = [keys EXCEPT ![id] = key]
    /\ disk' = IF io = "ok" THEN keys' ELSE disk

\* NewFile: a process that starts reads the whole file.
load == keys' = disk

-----------------------------------------------------------------------------
(* auth.Service: outcomes, and the record put or None *)

Refused(res) == [res |-> res, key |-> None, token |-> None]
Puts(key) == [res |-> "ok", key |-> key, token |-> None]
Reveals(key, token) == [res |-> "ok", key |-> key, token |-> token]

\* How the call ends: "disk" is a flush that failed, "entropy" a random
\* source that did.
Outcomes == {"ok", "disk", "entropy"}
Result(call, io) ==
    IF call.res = "ok" /\ call.key # None /\ io # "ok" THEN "error" ELSE call.res

Commit(id, call, io) ==
    IF call.key = None THEN UNCHANGED <<keys, disk>> ELSE PutAPIKey(id, call.key, io)

mintSecret == minted + 1
FreshId == CHOOSE id \in KeyIds : keys[id] = None

CreateWithPermissions(perms, expires, by, io) ==
    IF io = "entropy" THEN Refused("error") ELSE
    Reveals([salt |-> mintSecret, hash |-> hashSecret(mintSecret, mintSecret),
             roles |-> perms.roles, scopes |-> perms.scopes,
             allow |-> perms.allow, deny |-> perms.deny, revoked |-> FALSE,
             expires |-> expires, limits |-> None, usage |-> 0, by |-> by],
            formatToken(FreshId, mintSecret))

Revoke(id) ==
    CASE GetAPIKey(id) = None -> Refused("notfound")
      [] GetAPIKey(id) # None /\ keys[id].revoked -> Refused("ok")
      [] OTHER -> Puts([keys[id] EXCEPT !.revoked = TRUE])

\* A bug in SetPermissions: it builds the record anew.
PermissionsRebuild(id, perms) ==
    IF keys[id] = None THEN Refused("notfound")
    ELSE Puts([keys[id] EXCEPT !.roles = perms.roles, !.scopes = perms.scopes,
                               !.allow = perms.allow, !.deny = perms.deny,
                               !.revoked = FALSE])

\* A bug in SetPermissions: new admin scopes are added to the old ones.
PermissionsMerge(id, perms) ==
    IF keys[id] = None THEN Refused("notfound")
    ELSE Puts([keys[id] EXCEPT !.roles = perms.roles, !.scopes = @ \cup perms.scopes,
                               !.allow = perms.allow, !.deny = perms.deny])

SetPermissions(id, perms) ==
    IF GetAPIKey(id) = None THEN Refused("notfound")
    ELSE Puts([keys[id] EXCEPT !.roles = perms.roles, !.scopes = perms.scopes,
                               !.allow = perms.allow, !.deny = perms.deny])

SetLimits(id, limits) ==
    IF GetAPIKey(id) = None THEN Refused("notfound")
    ELSE Puts([keys[id] EXCEPT !.limits = limits])

\* A bug in Rotate: the secret is new and the stored hash is not.
RotateKeepsHash(id, io) ==
    CASE keys[id] = None -> Refused("notfound")
      [] keys[id] # None /\ keys[id].revoked -> Refused("unauthenticated")
      [] keys[id] # None /\ ~ keys[id].revoked /\ io = "entropy" -> Refused("error")
      [] OTHER -> Reveals(keys[id], formatToken(id, mintSecret))

Rotate(id, io) ==
    CASE GetAPIKey(id) = None -> Refused("notfound")
      [] GetAPIKey(id) # None /\ keys[id].revoked -> Refused("unauthenticated")
      [] GetAPIKey(id) # None /\ ~ keys[id].revoked /\ io = "entropy" -> Refused("error")
      [] OTHER -> Reveals([keys[id] EXCEPT !.salt = mintSecret,
                                           !.hash = hashSecret(mintSecret, mintSecret)],
                          formatToken(id, mintSecret))

Authenticate(token) ==
    IF \/ token = None
       \/ keys[token.id] = None
       \/ hashSecret(keys[token.id].salt, token.secret) # keys[token.id].hash
       \/ keys[token.id].revoked
       \/ Expired(keys[token.id])
    THEN Refused("unauthenticated")
    ELSE Puts([keys[token.id] EXCEPT !.usage = @ + 1])

=============================================================================
