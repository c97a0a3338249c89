-------------------------------- MODULE Admin --------------------------------
(***************************************************************************)
(* The composition of the management surface: requests arrive at the API   *)
(* and the console, an operator runs --local commands on the keys file,    *)
(* workers come and go, the disk fails, and the server crashes and starts  *)
(* again.                                                                  *)
(*                                                                         *)
(* A scenario bounds a behaviour: the operations its requests may be, how  *)
(* many there are, the grants and settings they carry, and the faults,     *)
(* crashes, clock ticks and --local commands it may see.                   *)
(***************************************************************************)
EXTENDS AdminCLI

Grant(perms, id) ==
    [salt |-> id, hash |-> hashSecret(id, id), roles |-> perms.roles,
     scopes |-> perms.scopes, allow |-> perms.allow, deny |-> perms.deny,
     revoked |-> FALSE, expires |-> None, limits |-> None, usage |-> 0, by |-> None]

\* The server is up with the keys of the scenario, and their tokens are out.
Init ==
    /\ sc \in Scenarios
    /\ keys = [id \in KeyIds |-> IF id \in DOMAIN sc.boot THEN Grant(sc.boot[id], id) ELSE None]
    /\ disk = keys
    /\ clock = 0 /\ minted = Cardinality(KeyIds)
    /\ cur = Boot /\ live = Boot /\ persisted = {} /\ confFile = <<>> /\ writeMu = Blank
    /\ up = TRUE
    /\ req = [r \in Requests |-> Idle]
    /\ idem = {} /\ audit = <<>> /\ auditDisk = <<>>
    /\ issued = {formatToken(id, id) : id \in DOMAIN sc.boot}
    /\ connected = Workers /\ draining = {}
    /\ faults = sc.faults
    /\ browser = [session |-> IF sc.signedIn THEN formatToken(1, 1) ELSE None,
                  csrf |-> IF sc.signedIn THEN 1 ELSE 0, form |-> IF sc.signedIn THEN 1 ELSE 0,
                  next |-> 2]
    /\ cli = [pc |-> "idle", mem |-> EmptyStore, id |-> None, token |-> None, left |-> sc.local]
    /\ crashes = sc.crashes /\ ticks = sc.ticks

-----------------------------------------------------------------------------
(* Requests *)

TargetsOf(op) ==
    CASE op \in (KeyWrites \ {"create"}) \cup {"read"} -> sc.targets
      [] op \in WorkerWrites -> Workers
      [] OTHER -> {None}

\* What the body or the form of a request can carry.
BodiesOf(front, op) ==
    CASE op \in {"create", "perms"} -> sc.perms
      [] op = "quota" -> sc.limits
      [] op = "config" -> IF front = "ui" THEN sc.forms ELSE sc.patches
      [] op = "pull" -> {"model", "bad"}
      [] op = "drain" /\ front = "api" -> {None, "deadline", "bad"}
      [] op = "login" -> issued \cup {None}
      [] OTHER -> {None}

OpsOf(front) ==
    sc.ops \cap (IF front = "ui" THEN Ops \ {"quota", "read"} ELSE (Writes \ {"evict"}) \cup {"read"})

\* The next request to come in, and its arrival.
Unsent(r) ==
    /\ up /\ req[r].pc = "idle" /\ r <= sc.requests
    /\ \A p \in Requests : p < r => req[p].pc # "idle"
Arrive(r, op, rec) ==
    /\ \E target \in TargetsOf(op) :
         req' = [req EXCEPT ![r] = [rec EXCEPT !.pc = "auth", !.op = op, !.target = target,
                    !.earlier = {p \in Requests : req[p].pc = "done"}]]
    /\ UNCHANGED <<keyVars, confVars, sc, up, adminVars, browser, cli>>

\* A client of the API sends a request, by hand or by a command.
Call(r) ==
    /\ Unsent(r)
    /\ \E op \in OpsOf("api"), token \in {t \in issued : t.id \in sc.callers} \cup sc.strangers :
        \/ /\ "api" \in sc.fronts
           /\ \E arg \in BodiesOf("api", op), expires \in IF op = "create" THEN sc.expiries ELSE {None},
                 ik \in IF op \in Writes THEN sc.idems ELSE {None} :
                Arrive(r, op, [Idle EXCEPT !.arg = arg, !.expires = expires, !.token = token,
                                           !.idem = ik])
        \/ /\ "cli" \in sc.fronts /\ client(token)
           /\ \E arg \in commandBodies(op) :
                Arrive(r, op, [Idle EXCEPT !.arg = arg, !.token = token, !.cli = TRUE])

\* The browser sends one, with its cookies and the CSRF value of its page;
\* or another site makes it send one.
Browse(r) ==
    /\ Unsent(r) /\ "ui" \in sc.fronts
    /\ \E op \in OpsOf("ui"), crossSite \in BOOLEAN :
       \E arg \in BodiesOf("ui", op) :
         /\ crossSite => op \in Writes
         /\ Arrive(r, op, [Idle EXCEPT !.front = "ui", !.arg = arg, !.token = browser.session,
                             !.cookie = browser.csrf,
                             !.csrf = ~ crossSite /\ browser.csrf # 0 /\ browser.form = browser.csrf])

JSONStep(r) ==
    /\ \/ authMiddleware(r) \/ idempotent(r) \/ idemStore(r)
       \/ handleAdminCreateKey(r) \/ handleAdminRevokeKey(r) \/ handleAdminRotateKey(r)
       \/ handleAdminSetPermissions(r) \/ handleAdminSetQuota(r) \/ handleAdminGetKey(r)
       \/ handleAdminDrainWorker(r) \/ handleAdminPullModel(r) \/ handleAdminUnloadModel(r)
       \/ handleAdminPutConfig(r)
    /\ UNCHANGED <<browser, cli>>

UIWriteStep(r) ==
    /\ \/ handleUIKeyCreate(r) \/ handleUIKeyRotate(r) \/ handleUIKeyRevoke(r)
       \/ handleUIKeyPermissions(r) \/ handleUIWorkerDrain(r) \/ handleUIWorkerEvict(r)
       \/ handleUIWorkerPull(r) \/ handleUIWorkerUnload(r) \/ handleUIConfigUpdate(r)
    /\ UNCHANGED <<browser, cli>>

UIPageStep(r) ==
    \/ uiScopeAuth(r) \/ handleUIIndex(r) \/ handleUIPage(r)
    \/ handleUILoginPage(r) \/ handleUILoginSubmit(r) \/ handleUILogout(r)

\* The server goes on with a request.
Step(r) ==
    /\ up /\ req[r].pc \notin {"idle", "done", "lost"}
    /\ JSONStep(r) \/ UIWriteStep(r) \/ UIPageStep(r)

-----------------------------------------------------------------------------
(* The process and its surroundings *)

\* The periodic checkpoint of the audit log.
auditCheckpoint ==
    /\ up /\ auditDisk # audit /\ sc.crashes > 0
    /\ auditDisk' = audit
    /\ UNCHANGED <<keyVars, confVars, sc, up, req, idem, audit, issued, connected, draining,
                   faults, browser, cli>>

\* The process dies, and with it the requests it was serving.
Crash ==
    /\ up /\ crashes > 0
    /\ up' = FALSE
    /\ req' = [r \in Requests |-> IF req[r].pc \in {"idle", "done"} THEN req[r]
                                  ELSE [req[r] EXCEPT !.pc = "lost"]]
    /\ writeMu' = Blank
    /\ UNCHANGED <<keyVars, cur, live, persisted, confFile, sc, adminVars, browser, cli>>

\* An operator edits the override file while the server is down.
HandEdit ==
    /\ ~ up /\ sc.edits # {} /\ confFile # <<>>
    /\ \E f \in sc.edits :
         confFile' = [g \in DOMAIN confFile \cup {f} |-> IF g = f THEN -1 ELSE confFile[g]]
    /\ UNCHANGED <<keyVars, cur, live, persisted, writeMu, sc, up, req, adminVars, browser, cli>>

\* serveControlPlane: keys, audit log and overrides are read back.
Restart ==
    /\ ~ up
    /\ up' = TRUE
    /\ load
    /\ LoadConfigCheckpoint
    /\ audit' = auditDisk
    /\ idem' = {}
    /\ UNCHANGED <<disk, clock, minted, confFile, writeMu, sc, req, auditDisk, issued, connected,
                   draining, faults, browser, cli>>

Tick ==
    /\ ticks > 0 /\ clock < MaxClock
    /\ clock' = clock + 1
    /\ UNCHANGED <<keys, disk, minted, confVars, sc, up, req, adminVars, browser, cli>>

Disconnect ==
    /\ up /\ sc.ops \cap WorkerWrites # {}
    /\ \E w \in connected : connected' = connected \ {w} /\ draining' = draining \ {w}
    /\ UNCHANGED <<keyVars, confVars, sc, up, req, idem, audit, auditDisk, issued, faults, browser, cli>>

Next ==
    \/ \E r \in Requests : (Call(r) \/ Browse(r) \/ Step(r) \/ commandEnds(r))
                             /\ UNCHANGED <<crashes, ticks>>
    \/ (Local \/ auditCheckpoint \/ HandEdit \/ Restart \/ Disconnect) /\ UNCHANGED <<crashes, ticks>>
    \/ Crash /\ crashes' = crashes - 1 /\ UNCHANGED ticks
    \/ Tick /\ ticks' = ticks - 1 /\ UNCHANGED crashes

Spec == Init /\ [][Next]_allVars

==============================================================================
