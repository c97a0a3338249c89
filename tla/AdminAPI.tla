------------------------------ MODULE AdminAPI ------------------------------
(***************************************************************************)
(* The management API of internal/httpapi: authentication and scope        *)
(* middleware, the idempotency cache, the key, worker and settings         *)
(* handlers, and the audit log they write.  A request is a goroutine: each *)
(* of its steps is one access to shared state under one lock (the key      *)
(* service's mutex, the cache's, the settings holder's writeMu, the audit  *)
(* store's), and steps of several requests interleave.                     *)
(*                                                                         *)
(* A response is its status and the token it reveals; the request that     *)
(* produced a cached response stands for the cached body.  Listing and     *)
(* other reads change nothing beyond authenticating and are one request    *)
(* kind, "read".  executed, before and after are kept for every request    *)
(* after it has ended, as history.                                         *)
(***************************************************************************)
EXTENDS AdminState

At(r, pc) == up /\ req[r].pc = pc

\* Every fault is one of a bounded number.
Fault(io) == /\ io = "ok" \/ faults > 0
             /\ faults' = IF io = "ok" THEN faults ELSE faults - 1

-----------------------------------------------------------------------------
(* Responses and the idempotency cache *)

\* A 2xx answer of a write that carries the header is cached before the
\* request ends.
Responded(r, rec, status) ==
    [rec EXCEPT !.status = status,
                !.pc = IF Cached(r) /\ Ok(status) THEN "put" ELSE "done"]
Respond(r, status) == req' = [req EXCEPT ![r] = Responded(r, @, status)]

idempotent(r) ==
    /\ At(r, "lookup")
    /\ IF idemGet(idemKey(r)) # {}
       THEN \E e \in idemGet(idemKey(r)) :
              /\ req' = [req EXCEPT ![r].pc = "done", ![r].replay = e.by,
                                    ![r].status = req[e.by].status,
                                    ![r].out = req[e.by].out]
              /\ UNCHANGED idem
       ELSE /\ req' = [req EXCEPT ![r].pc = "handler"]
            /\ idem' = {e \in idem : e.key # idemKey(r)}
    /\ UNCHANGED <<keyVars, confVars, sc, up, audit, auditDisk, issued, connected, draining, faults>>

idemStore(r) ==
    /\ At(r, "put")
    /\ idemPut([key |-> idemKey(r), by |-> r, expires |-> clock + IdemTTL])
    /\ req' = [req EXCEPT ![r].pc = "done"]
    /\ UNCHANGED <<keyVars, confVars, sc, up, audit, auditDisk, issued, connected, draining, faults>>

-----------------------------------------------------------------------------
(* Middleware *)

scopeMiddleware(key, op) == HasScope(key, registerAdminRoutes[op])

authMiddleware(r) ==
    /\ At(r, "auth") /\ req[r].front = "api"
    /\ \E io \in {"ok", "disk"} :
         LET call == Authenticate(req[r].token)
             res == Result(call, io) IN
         /\ Fault(io)
         /\ call.key # None \/ io = "ok"
         /\ IF call.key = None THEN UNCHANGED <<keys, disk>>
            ELSE PutAPIKey(req[r].token.id, call.key, io)
         /\ CASE res = "unauthenticated" -> Respond(r, 401)
              [] res = "error" -> Respond(r, 500)
              [] res = "ok" /\ ~ scopeMiddleware(call.key, req[r].op) -> Respond(r, 403)
              [] OTHER -> req' = [req EXCEPT ![r].actor = req[r].token.id,
                                   ![r].pc = IF Cached(r) THEN "lookup" ELSE "handler"]
    /\ UNCHANGED <<clock, minted, confVars, sc, up, idem, audit, auditDisk, issued,
                   connected, draining>>

-----------------------------------------------------------------------------
(* The audit log *)

\* A bug in auditHandler: a failure is answered without an entry.
AuditSuccessOnly(r, status) ==
    /\ At(r, "audit") /\ req[r].op # "config"
    /\ IF req[r].res = "ok" THEN recordAudit(r, None) ELSE UNCHANGED audit
    /\ Respond(r, status)
    /\ issued' = IF req[r].out = None THEN issued ELSE issued \cup {req[r].out}
    /\ UNCHANGED <<keyVars, confVars, sc, up, idem, auditDisk, connected, draining, faults>>

\* The end of every handler but the settings': the entry, then the answer.
\* A revocation reads the key again for its entry.
auditHandler(r, status) ==
    /\ At(r, "audit") /\ req[r].op # "config"
    /\ recordAudit(r, auditKeyValues(IF req[r].res = "ok" /\ req[r].op = "revoke"
                                     THEN keys[req[r].id] ELSE req[r].after))
    /\ Respond(r, status)
    /\ issued' = IF req[r].out = None THEN issued ELSE issued \cup {req[r].out}
    /\ UNCHANGED <<keyVars, confVars, sc, up, idem, auditDisk, connected, draining, faults>>

-----------------------------------------------------------------------------
(* Key handlers *)

validateRoles(roles) == \A role \in roles : ValidRole(role)
validateScopes(scopes) == \A s \in scopes : ValidScope(s)
validPerms(p) == validateRoles(p.roles) /\ validateScopes(p.scopes)

parseExpiresAt(e) == e # None => e > clock

\* The answer to each failure of the key service.
writeAdminKeyError(res) == IF res = "notfound" THEN 404 ELSE 500

Refuse(r, status) ==
    /\ Respond(r, status)
    /\ UNCHANGED <<keyVars, confVars, sc, up, adminVars>>

\* The key as it was just before, for the audit entry.
readBefore(r) ==
    /\ At(r, "handler")
    /\ req' = [req EXCEPT ![r].pc = "op", ![r].before = keys[req[r].target]]
    /\ UNCHANGED <<keyVars, confVars, sc, up, adminVars>>

\* The call into the key service.
keyWrite(r, pc, id, call, io) ==
    /\ At(r, pc)
    /\ Fault(io)
    /\ Commit(id, call, io)
    /\ minted' = IF call.token = None THEN minted ELSE minted + 1
    /\ LET res == Result(call, io) IN
       req' = [req EXCEPT ![r].pc = "audit", ![r].res = res, ![r].executed = TRUE,
                          ![r].id = IF req[r].op # "create" \/ res = "ok" THEN id ELSE None,
                          ![r].after = IF res = "ok" /\ req[r].op # "rotate" THEN call.key ELSE None,
                          ![r].out = IF res = "ok" THEN call.token ELSE None]
    /\ UNCHANGED <<clock, confVars, sc, up, idem, audit, auditDisk, issued, connected, draining>>

createKey(r) ==
    \/ /\ At(r, "handler") /\ ~ (validPerms(req[r].arg) /\ parseExpiresAt(req[r].expires))
       /\ Refuse(r, 400)
    \/ /\ At(r, "handler") /\ validPerms(req[r].arg) /\ parseExpiresAt(req[r].expires)
       /\ ListAPIKeys # KeyIds
       /\ \E io \in Outcomes :
            keyWrite(r, "handler", FreshId,
                     CreateWithPermissions(req[r].arg, req[r].expires, req[r].actor, io), io)

revokeKey(r) ==
    \/ readBefore(r)
    \/ \E io \in {"ok", "disk"} : keyWrite(r, "op", req[r].target, Revoke(req[r].target), io)

rotateKey(r) ==
    \E io \in Outcomes : keyWrite(r, "handler", req[r].target, Rotate(req[r].target, io), io)

setPermissions(r) ==
    \/ At(r, "handler") /\ ~ validPerms(req[r].arg) /\ Refuse(r, 400)
    \/ validPerms(req[r].arg) /\ readBefore(r)
    \/ \E io \in {"ok", "disk"} :
         keyWrite(r, "op", req[r].target, SetPermissions(req[r].target, req[r].arg), io)

\* The limits of a body: absent ones are 0 once any is given, and none at
\* all clears the override.
bodyLimits(body) ==
    IF DOMAIN body = {} THEN None
    ELSE [f \in limitFields |-> IF f \in DOMAIN body THEN body[f] ELSE 0]

setQuota(r) ==
    \/ readBefore(r)
    \/ \E io \in {"ok", "disk"} :
         keyWrite(r, "op", req[r].target, SetLimits(req[r].target, bodyLimits(req[r].arg)), io)

Serves(r, front, op) == req[r].front = front /\ req[r].op = op
adminStatus(r, ok) == IF req[r].res = "ok" THEN ok ELSE writeAdminKeyError(req[r].res)

handleAdminCreateKey(r) ==
    Serves(r, "api", "create") /\ (createKey(r) \/ auditHandler(r, adminStatus(r, 201)))
handleAdminRevokeKey(r) ==
    Serves(r, "api", "revoke") /\ (revokeKey(r) \/ auditHandler(r, adminStatus(r, 204)))
handleAdminRotateKey(r) ==
    Serves(r, "api", "rotate") /\ (rotateKey(r) \/ auditHandler(r, adminStatus(r, 200)))
handleAdminSetPermissions(r) ==
    Serves(r, "api", "perms") /\ (setPermissions(r) \/ auditHandler(r, adminStatus(r, 200)))
handleAdminSetQuota(r) ==
    Serves(r, "api", "quota") /\ (setQuota(r) \/ auditHandler(r, adminStatus(r, 200)))

\* Get, list, roles, usage and statistics: an answer and no change.
handleAdminGetKey(r) ==
    /\ Serves(r, "api", "read") /\ At(r, "handler")
    /\ Refuse(r, IF keys[req[r].target] = None THEN 404 ELSE 200)

-----------------------------------------------------------------------------
(* Worker handlers *)

\* The fleet call: the worker must be connected; the command of a pull or
\* an unload waits for room in its queue until the caller goes away.
fleetCall(r, canceled) ==
    /\ At(r, "handler")
    /\ draining' = IF req[r].target \in connected /\ req[r].op \in {"drain", "evict"}
                   THEN draining \cup {req[r].target} ELSE draining
    /\ req' = [req EXCEPT ![r].pc = "audit", ![r].executed = TRUE, ![r].id = req[r].target,
                          ![r].res = IF req[r].target \notin connected THEN "notfound"
                                     ELSE IF canceled /\ req[r].op \in {"pull", "unload"} THEN "error"
                                     ELSE "ok"]
    /\ UNCHANGED <<keyVars, confVars, sc, up, idem, audit, auditDisk, issued, connected, faults>>

workerCall(r) ==
    \/ At(r, "handler") /\ req[r].arg = "bad" /\ Refuse(r, 400)
    \/ req[r].arg # "bad" /\ \E canceled \in BOOLEAN : fleetCall(r, canceled)

handleAdminDrainWorker(r) ==
    Serves(r, "api", "drain") /\ (workerCall(r) \/ auditHandler(r, adminStatus(r, 204)))
handleAdminPullModel(r) ==
    Serves(r, "api", "pull") /\ (workerCall(r) \/ auditHandler(r, adminStatus(r, 202)))
handleAdminUnloadModel(r) ==
    Serves(r, "api", "unload") /\ (workerCall(r) \/ auditHandler(r, adminStatus(r, 204)))

-----------------------------------------------------------------------------
(* The settings handler: writeMu is held from the snapshot to the answer *)

\* A bug in configLock: the update is prepared before the lock is taken.
ConfigLockLate(r, raw) ==
    /\ At(r, "handler")
    /\ LET patch == applyConfigPatch(cur, raw) IN
         CASE ~ patch.ok -> Refuse(r, 400)
           [] patch.ok /\ patch.changed = {} -> Refuse(r, 200)
           [] OTHER -> /\ req' = [req EXCEPT ![r].pc = "apply", ![r].patch = patch]
                       /\ UNCHANGED <<keyVars, confVars, sc, up, adminVars>>

configLock(r, raw) ==
    /\ At(r, "handler") /\ writeMu = Blank
    /\ LET patch == applyConfigPatch(cur, raw) IN
         CASE ~ patch.ok -> Refuse(r, 400)
           [] patch.ok /\ patch.changed = {} -> Refuse(r, 200)
           [] OTHER -> /\ writeMu' = r
                       /\ req' = [req EXCEPT ![r].pc = "apply", ![r].patch = patch]
                       /\ UNCHANGED <<keyVars, cur, live, persisted, confFile, sc, up, adminVars>>

configApply(r) ==
    /\ At(r, "apply")
    /\ apply(req[r].patch.next, req[r].patch.changed)
    /\ req' = [req EXCEPT ![r].pc = "audit", ![r].executed = TRUE,
                  ![r].res = IF Rejecting(req[r].patch.next, req[r].patch.changed) = {}
                             THEN "ok" ELSE "error"]
    /\ UNCHANGED <<keyVars, confFile, writeMu, sc, up, adminVars>>

configAudit(r) ==
    /\ At(r, "audit") /\ req[r].op = "config"
    /\ recordAudit(r, None)
    /\ IF req[r].res = "ok" THEN /\ req' = [req EXCEPT ![r].pc = "checkpoint"]
                                 /\ UNCHANGED writeMu
                            ELSE Respond(r, 400) /\ writeMu' = Blank
    /\ UNCHANGED <<keyVars, cur, live, persisted, confFile, sc, up, idem, auditDisk, issued,
                   connected, draining, faults>>

\* A checkpoint that fails is only logged.
configCheckpoint(r) ==
    /\ At(r, "checkpoint")
    /\ \E io \in {"ok", "disk"} : Fault(io) /\ checkpoint(io)
    /\ writeMu' = Blank
    /\ Respond(r, 200)
    /\ UNCHANGED <<keyVars, cur, live, persisted, sc, up, idem, audit, auditDisk, issued,
                   connected, draining>>

\* From the parsed update, or its refusal, to the answer.
putConfig(r, patch) ==
    \/ At(r, "handler") /\ ~ patch.ok /\ Refuse(r, 400)
    \/ patch.ok /\ configLock(r, patch.raw)
    \/ configApply(r)
    \/ configAudit(r)
    \/ configCheckpoint(r)

handleAdminPutConfig(r) == Serves(r, "api", "config") /\ putConfig(r, BodyPatch(req[r].arg))

=============================================================================
