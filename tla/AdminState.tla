----------------------------- MODULE AdminState -----------------------------
(***************************************************************************)
(* The state of the management surface (internal/httpapi and the commands  *)
(* of cmd/agentgpu): the requests, the idempotency cache and the audit log *)
(* with the operations on them, the browser and the --local process, and   *)
(* what must hold of it all.  AdminAPI, AdminConsole, AdminCLI and Admin   *)
(* give the steps.                                                         *)
(***************************************************************************)
EXTENDS KeyService, RuntimeConfig, Sequences

CONSTANTS
    Requests,     \* requests, numbered in the order they arrive
    IdemKeys,     \* values of the Idempotency-Key header
    IdemTTL,      \* defaultIdempotencyTTL
    IdemMax,      \* idempotencyCacheMax
    AuditMax,     \* auditLogCapacity
    Workers,      \* worker ids
    Scenarios     \* which requests and faults a behaviour has

ASSUME AdminConstants ==
    /\ Requests \subseteq Nat /\ IsFiniteSet(Requests)
    /\ Blank \notin Requests /\ None \notin Patches
    /\ IdemTTL \in Nat /\ IdemMax \in Nat \ {0} /\ AuditMax \in Nat \ {0}

\* What a scenario is made of: the keys at the start and the values requests,
\* commands and forms carry, well formed or not, and how often things fail.
ASSUME ScenarioConstants ==
    \A s \in Scenarios :
      /\ DOMAIN s.boot \subseteq KeyIds
      /\ \A id \in DOMAIN s.boot : s.boot[id] \in Permissions \cup {Malformed}
      /\ s.perms \subseteq Permissions \cup {Malformed}
      /\ s.targets \subseteq KeyIds
      /\ s.strangers \subseteq Token \cup {None}
      /\ s.expiries \subseteq Nat \cup {None}
      /\ \A body \in s.limits : \A f \in DOMAIN body : body[f] \in Nat
      /\ \A body \in s.patches : \A f \in DOMAIN body : body[f] \in Int
      /\ \A form \in s.forms : \A f \in DOMAIN form : form[f] \in Int \cup {Blank}
      /\ \A pairs \in s.pairs : \A i \in DOMAIN pairs : pairs[i][2] \in Int
      /\ s.faults \in Nat /\ s.crashes \in Nat /\ s.ticks \in Nat /\ s.local \in Nat
      /\ s.signedIn => 1 \in DOMAIN s.boot

VARIABLES
    sc,           \* the scenario
    up,           \* whether the server process runs
    req,          \* the requests
    idem,         \* idempotencyCache.entries
    audit,        \* audit.MemoryStore.entries
    auditDisk,    \* its checkpoint
    issued,       \* tokens somebody was given
    connected,    \* Server.workers
    draining,     \* workers told to drain
    faults,       \* I/O failures left
    browser,      \* [session, csrf, form, next]: cookies, rendered value, counter
    cli,          \* [pc, mem, id, token, left]: the --local process
    crashes,      \* crashes left
    ticks         \* clock ticks left

adminVars == <<idem, audit, auditDisk, issued, connected, draining, faults>>

vars == <<keyVars, confVars, sc, up, req, adminVars, browser, cli>>
allVars == <<vars, crashes, ticks>>

KeyWrites == {"create", "revoke", "rotate", "perms", "quota"}
WorkerWrites == {"drain", "evict", "pull", "unload"}
Writes == KeyWrites \cup WorkerWrites \cup {"config"}

\* The scope each route is registered with.
registerAdminRoutes ==
    [op \in Writes \cup {"read"} |->
        CASE op \in KeyWrites -> <<"keys", "write">>
          [] op \in {"drain", "evict"} -> <<"workers", "write">>
          [] op \in {"pull", "unload"} -> <<"models", "write">>
          [] op = "config" -> <<"config", "write">>
          [] op = "read" -> <<"keys", "read">>]

Pages == {"index", "page"}
LoginOps == {"loginpage", "login", "logout"}
Ops == Writes \cup Pages \cup LoginOps \cup {"read"}

\* Everything a request can be.
Idle == [pc |-> "idle", front |-> "api", op |-> "index", target |-> None, arg |-> None,
         expires |-> None, token |-> None, idem |-> None, csrf |-> FALSE, actor |-> None,
         cookie |-> 0, cli |-> FALSE, exit |-> None, id |-> None, before |-> None,
         after |-> None, patch |-> None, res |-> "none", out |-> None, status |-> 0,
         executed |-> FALSE, replay |-> None, earlier |-> {}]

Ok(status) == status \in 200 .. 299

-----------------------------------------------------------------------------
(* The idempotency cache *)

\* A bug in idemKey: the bare header value.
IdemKeyBare(r) == <<req[r].idem>>

\* The composite of actor, method and path, and header value.
idemKey(r) == <<req[r].actor, req[r].op, req[r].target, req[r].idem>>

Cached(r) == req[r].front = "api" /\ req[r].op \in Writes /\ req[r].idem # None

idemGet(key) == {e \in idem : e.key = key /\ clock < e.expires}

\* put: at the cap the expired entries go, and if that is not enough, all.
idemPut(e) ==
    LET fresh == {x \in idem : clock < x.expires}
        kept == IF Cardinality(idem) < IdemMax THEN idem
                ELSE IF Cardinality(fresh) < IdemMax THEN fresh ELSE {} IN
    idem' = {x \in kept : x.key # e.key} \cup {e}

-----------------------------------------------------------------------------
(* The audit log *)

\* The part of a key an entry shows.
auditKeyValues(key) ==
    IF key = None THEN None
    ELSE [roles |-> key.roles, scopes |-> key.scopes, revoked |-> key.revoked,
          limits |-> key.limits]

\* Append: the oldest entries go once the capacity is reached.
recordAudit(r, after) ==
    LET e == [by |-> r, actor |-> req[r].actor, op |-> req[r].op,
              id |-> req[r].id,
              outcome |-> IF req[r].res = "ok" THEN "success" ELSE "failure",
              before |-> auditKeyValues(req[r].before), after |-> after]
        all == Append(audit, e) IN
    audit' = SubSeq(all, Len(all) - (IF Len(all) > AuditMax THEN AuditMax ELSE Len(all)) + 1,
                    Len(all))

-----------------------------------------------------------------------------
(* Properties *)

Pcs == {"idle", "auth", "lookup", "handler", "op", "apply", "audit", "checkpoint", "put",
        "done", "lost"}

TypeOK ==
    /\ keys \in Keyset /\ disk \in Keyset
    /\ clock \in 0 .. MaxClock /\ minted \in Nat
    /\ cur \in ConfigSettings /\ live \in ConfigSettings
    /\ persisted \subseteq tunableFields
    /\ writeMu \in Requests \cup {Blank}
    /\ \A r \in Requests : /\ req[r].pc \in Pcs
                           /\ req[r].out \in Token \cup {None}
                           /\ req[r].earlier \subseteq Requests
                           /\ req[r].executed /\ req[r].op \in {"create", "perms"} => req[r].arg \in Permissions
    /\ Len(audit) <= AuditMax /\ Cardinality(idem) <= IdemMax
    /\ issued \subseteq Token
    /\ connected \subseteq Workers /\ draining \subseteq connected
    /\ faults \in Nat

\* A change that was answered with success, and one that is under way.
Acked(r) == req[r].pc = "done" /\ req[r].executed /\ Ok(req[r].status)
Sound == faults = sc.faults

\* A revocation that reached the file: it flushed the key itself, or found it
\* revoked already when no flush had failed.
InFile(r) == Sound \/ req[r].after # None

\* A key whose revocation was acknowledged is revoked in the memory of the
\* server from then on, whatever other writes, commands, crashes and restarts
\* follow, and in the file too; only one that found the key revoked by a write
\* whose flush had failed lasts no longer than the process.
RevokeIsFinal ==
    \A r \in Requests : Acked(r) /\ req[r].op = "revoke" =>
        /\ up /\ (InFile(r) \/ crashes = sc.crashes) => keys[req[r].id].revoked
        /\ InFile(r) => disk[req[r].id] # None /\ disk[req[r].id].revoked

\* A request sent after a rotation was acknowledged never gets in with a
\* token of that key from before the rotation.
RotatedTokenIsDead ==
    \A q \in Requests, r \in Requests :
        /\ r \in req[q].earlier /\ Acked(r) /\ req[r].op = "rotate"
        /\ req[q].actor = req[r].id /\ req[q].op # "login"
        => req[q].token.secret >= req[r].out.secret

\* A request sent after a revocation was acknowledged never gets in with a
\* token of that key, by the API or by a console session that is still open,
\* with the exception RevokeIsFinal makes for a crash after a failed flush.
RevokedTokenIsDead ==
    \A q \in Requests, r \in Requests :
        /\ r \in req[q].earlier /\ Acked(r) /\ req[r].op = "revoke"
        /\ InFile(r) \/ crashes = sc.crashes
        => req[q].actor # req[r].id

\* The grants a key can hold when q is served: a grant that an acknowledged
\* replacement followed before q was sent no longer counts.  A creation whose
\* flush failed is answered with an error and leaves its key in memory, where
\* a rotation makes it usable.
Granting(id) ==
    {r \in Requests : /\ req[r].executed /\ req[r].op \in {"create", "perms"}
                      /\ req[r].op = "create" => req[r].out = None \/ req[r].out.id = id
                      /\ req[r].op = "perms" => req[r].target = id}
Superseded(g, q, id) ==
    \E p \in Granting(id) : /\ req[p].op = "perms" /\ Acked(p) /\ p \in req[q].earlier
                            /\ g = None \/ g \in req[p].earlier

\* What a served request was allowed to do comes from grants in force: a
\* narrower set of scopes binds every request sent after it was acknowledged.
GrantsGovern ==
    \A q \in Requests : req[q].actor # None /\ req[q].op \in Writes /\ crashes = sc.crashes =>
        LET id == req[q].actor
            sources == {g \in Granting(id) \cup {None} : ~ Superseded(g, q, id)} IN
        \E g \in sources :
          LET perms == IF g = None
                       THEN IF id \in DOMAIN sc.boot THEN sc.boot[id] ELSE Malformed
                       ELSE req[g].arg IN
          HasScope(perms, registerAdminRoutes[req[q].op])

\* What the precedence ladder grants is what the role table promises: a deny
\* always wins, an admin key gets the rest, any other key an allowed model
\* for the actions all its roles have.
GrantsMatchRoles ==
    \A id \in ListAPIKeys, m \in Models, a \in Actions :
        LET key == keys[id]
            held == key.roles \cap AllRoles IN
        Authorize(key, m, a) = "granted" <=>
            /\ m \notin key.deny
            /\ \/ "admin" \in held
               \/ /\ m \in key.allow /\ held # {}
                  /\ \A role \in held : a \in allRoles[role]

\* One aspect of one key changes at a time: a step that changes the secret
\* keeps the grants, the limits and the revocation, and so on; and no step
\* of the server takes back a revocation or lets go of a key.
Aspects(k) ==
    <<<<k.salt, k.hash>>, <<k.roles, k.scopes, k.allow, k.deny>>, k.limits, k.revoked, k.usage,
      <<k.expires, k.by>>>>
OneAspectPerStep ==
    [][up /\ up' =>
        /\ Cardinality({id \in KeyIds : keys'[id] # keys[id]}) = 1
        /\ \A id \in KeyIds : keys[id] # None =>
             /\ keys'[id] # None
             /\ Cardinality({i \in 1 .. 6 : Aspects(keys'[id])[i] # Aspects(keys[id])[i]}) <= 1
             /\ keys[id].revoked => keys'[id].revoked]_keys

\* Once a write is answered the log has exactly one entry for it, with its
\* outcome, as long as the log is neither full nor lost in a crash.
AuditMatchesWrites ==
    \A r \in Requests :
        /\ req[r].pc = "done" /\ req[r].executed
        /\ crashes = sc.crashes /\ Cardinality(Requests) <= AuditMax
        => \E i \in DOMAIN audit :
             /\ audit[i].by = r
             /\ audit[i].outcome = (IF Ok(req[r].status) THEN "success" ELSE "failure")
             /\ \A j \in DOMAIN audit : audit[j].by = r => j = i

\* An answer is replayed only to the key that got it, for the same route.
ReplayIsolated ==
    \A q \in Requests : req[q].replay # None =>
        LET r == req[q].replay IN
        /\ req[r].actor = req[q].actor /\ req[r].op = req[q].op /\ req[r].target = req[q].target
        /\ req[r].idem = req[q].idem /\ Ok(req[q].status)

\* A retry with the same Idempotency-Key, sent after the first attempt was
\* acknowledged, does not do the work again, as long as the entry is neither
\* expired nor dropped at the cap nor lost in a crash.
RetryOnce ==
    \A q \in Requests, r \in Requests :
        /\ r \in req[q].earlier /\ Acked(r) /\ req[r].idem # None /\ req[q].actor # None
        /\ idemKey(q) = idemKey(r)
        /\ clock < IdemTTL /\ crashes = sc.crashes
        /\ Cardinality({p \in Requests : req[p].idem # None}) <= IdemMax
        => ~ req[q].executed

-----------------------------------------------------------------------------
(* Properties of the settings *)

Updates == {r \in Requests : req[r].op = "config" /\ req[r].patch # None}
Applied == {r \in Updates : req[r].executed}
Refuses(r) == req[r].op = "config" /\ req[r].pc = "done" /\ ~ Ok(req[r].status)

\* Every setting an acknowledged update named is what the subsystems run
\* with, or has been replaced by an update that had not ended when this one
\* was sent; across restarts too while the file is intact.
ConfigInEffect ==
    \A r \in Updates : Acked(r) /\ up /\ Sound /\ sc.edits = {} =>
        \A f \in req[r].patch.changed :
            \E q \in Applied : /\ f \in req[q].patch.changed /\ live[f] = req[q].patch.next[f]
                               /\ q \notin req[r].earlier

\* An update that was refused leaves nothing behind: every setting in force
\* is the boot value or comes from an update that was not refused.
ConfigAllOrNothing ==
    \A f \in tunableFields :
        \/ live[f] = Boot[f]
        \/ \E q \in Applied : /\ ~ Refuses(q) /\ f \in req[q].patch.changed
                              /\ live[f] = req[q].patch.next[f]

\* What GET reports is what the subsystems run with, whenever no update
\* holds the lock.
ConfigReported == up /\ writeMu = Blank => cur = live

-----------------------------------------------------------------------------
(* Properties of the command line and of the lock *)

\* The token a --local bootstrap printed is good for the file as long as no
\* later write of the server changed its key: neither the running server nor
\* a later --local command loses it.
LocalBootstrapSurvives ==
    cli.token # None => LET id == cli.token.id IN
        /\ disk[id] # None
        /\ \/ disk[id].hash = hashSecret(disk[id].salt, cli.token.secret)
           \/ \E r \in Requests : req[r].executed /\ req[r].op = "rotate" /\ req[r].target = id

\* The lock of the settings is held by an update that is still on its way to
\* release it: whatever way an update ends, and if the server dies with it,
\* the next one gets in.
SettingsLockFreed ==
    writeMu # Blank => up /\ req[writeMu].pc \in {"apply", "audit", "checkpoint"}

-----------------------------------------------------------------------------
(* What the properties above say together *)

\* A credential lives exactly as long as it was promised to: revoked and
\* rotated ones are dead from the acknowledgement on, a printed one works.
CredentialsSound ==
    TypeOK /\ RevokeIsFinal /\ RotatedTokenIsDead /\ RevokedTokenIsDead /\ LocalBootstrapSurvives

\* Nobody acts on a grant that was replaced, or beyond what its roles give.
GrantsBind == GrantsGovern /\ GrantsMatchRoles

\* A retry repeats the answer, to the key that got it, and not the work.
RetriesSafe == ReplayIsolated /\ RetryOnce

\* Acknowledged settings are in effect, refused ones leave no trace, what is
\* reported is what runs, and the lock is always freed.
SettingsSound == ConfigInEffect /\ ConfigAllOrNothing /\ ConfigReported /\ SettingsLockFreed
=============================================================================
