------------------------------ MODULE AdminCLI ------------------------------
(***************************************************************************)
(* The command line of cmd/agentgpu: the requests its management commands  *)
(* make through internal/apiclient, the exit code each ends with, and the  *)
(* --local commands, which work on the keys file themselves while a server *)
(* may be running on it.                                                   *)
(*                                                                         *)
(* A command of the HTTP mode is a request with the field cli set; the     *)
(* operators here give the body it sends, or None when the command line is *)
(* refused.  A --local command is a process: it loads the file, and later  *)
(* writes the whole keyset it has loaded and changed.                      *)
(***************************************************************************)
EXTENDS AdminConsole

\* The key service over the keyset a --local process has loaded.
Offline == INSTANCE KeyService WITH keys <- cli.mem

-----------------------------------------------------------------------------
(* HTTP mode: the body a command sends *)

\* clientFlags.client: without a token the command line is refused.
client(token) == token # None

\* --role, --allow-model and --deny-model; no flag names an admin scope.
runKeyCreateHTTP(flags) == [flags EXCEPT !.scopes = {}]
runKeyPermsHTTP(flags) == [flags EXCEPT !.scopes = {}]

\* runQuotaSet: limits or --clear, and not both.
runQuotaSet(set, clear) == IF clear <=> DOMAIN set # {} THEN None ELSE set

\* Each field once, and no negative count.
parseConfigPairs(pairs) ==
    LET fields == {pairs[i][1] : i \in DOMAIN pairs} IN
    IF \/ pairs = <<>> \/ Cardinality(fields) # Len(pairs)
       \/ \E i \in DOMAIN pairs : numericConfigField(pairs[i][1]) /\ pairs[i][2] < 0
    THEN None
    ELSE [f \in fields |-> LET i == CHOOSE k \in DOMAIN pairs : pairs[k][1] = f IN pairs[i][2]]

\* runWorkersDrain: a deadline that is not positive asks for the soft drain.
runWorkersDrain(deadline) == IF deadline > 0 THEN "deadline" ELSE None

\* The bodies each command can send, from the flags of the scenario.
commandBodies(op) ==
    CASE op = "create" -> {runKeyCreateHTTP(p) : p \in sc.perms}
      [] op = "perms" -> {runKeyPermsHTTP(p) : p \in sc.perms}
      [] op = "quota" -> {runQuotaSet(l, c) : l \in sc.limits, c \in BOOLEAN} \ {None}
      [] op = "config" -> {parseConfigPairs(p) : p \in sc.pairs} \ {None}
      [] op = "drain" -> {runWorkersDrain(d) : d \in {-1, 0, 1}}
      [] op = "pull" -> {"model", "bad"}
      [] OTHER -> {None}

-----------------------------------------------------------------------------
(* HTTP mode: the answer *)

classify(status) ==
    CASE status = 401 -> "unauthorized"
      [] status = 403 -> "forbidden"
      [] status = 404 -> "not found"
      [] status = 429 -> "rate limited"
      [] status >= 500 -> "server"
      [] OTHER -> "other"

\* exitCode of what do returned; no answer at all is a network failure.
exitCode(status) ==
    CASE status = 0 -> 5
      [] Ok(status) -> 0
      [] status # 0 /\ classify(status) \in {"unauthorized", "forbidden"} -> 3
      [] status # 0 /\ classify(status) = "not found" -> 4
      [] OTHER -> 1

\* The command ends with its answer, or before it: the client's timeout is
\* over or the server is gone, and whatever the request does it does unseen.
commandEnds(r) ==
    /\ req[r].cli /\ req[r].exit = None
    /\ \/ req[r].pc = "done" /\ req' = [req EXCEPT ![r].exit = exitCode(req[r].status)]
       \/ req[r].pc \notin {"idle", "done"} /\ req' = [req EXCEPT ![r].exit = exitCode(0)]
    /\ UNCHANGED <<keyVars, confVars, sc, up, adminVars, browser, cli>>

-----------------------------------------------------------------------------
(* --local *)

LocalOps == {"create", "revoke", "rotate", "perms", "quota"}

\* Only an empty store may be changed.
localBootstrapService(mem) == mem = EmptyStore

\* The process loads the file, and ends there when it may not change it.
openStore(op, id) ==
    /\ cli.pc = "idle" /\ cli.left > 0
    /\ cli' = IF localBootstrapService(disk)
              THEN [cli EXCEPT !.pc = op, !.id = id, !.mem = disk]
              ELSE [cli EXCEPT !.left = @ - 1]
    /\ UNCHANGED <<keyVars, confVars, sc, up, req, adminVars, browser>>

\* The call into the key service and its flush.
localCall(op, id, call) ==
    /\ cli.pc = op
    /\ disk' = IF call.key = None THEN disk ELSE [cli.mem EXCEPT ![id] = call.key]
    /\ cli' = [cli EXCEPT !.pc = "idle", !.left = @ - 1,
                 !.token = IF call.token = None THEN @ ELSE call.token]
    /\ minted' = IF call.token = None THEN minted ELSE minted + 1
    /\ issued' = IF call.token = None THEN issued ELSE issued \cup {call.token}
    /\ UNCHANGED <<keys, clock, confVars, sc, up, req, idem, audit, auditDisk, connected,
                   draining, faults, browser>>

\* The roles of a --local command are not checked.
runKeyCreateLocal ==
    \E perms \in sc.perms :
      localCall("create", Offline!FreshId,
                Offline!CreateWithPermissions([perms EXCEPT !.scopes = {}], None, None, "ok"))
runKeyRevokeLocal == localCall("revoke", cli.id, Offline!Revoke(cli.id))
runKeyRotateLocal == localCall("rotate", cli.id, Offline!Rotate(cli.id, "ok"))
runKeyPermsLocal ==
    \E perms \in sc.perms :
      localCall("perms", cli.id, Offline!SetPermissions(cli.id, [perms EXCEPT !.scopes = {}]))
runQuotaSetLocal ==
    \E clear \in BOOLEAN :
      localCall("quota", cli.id,
                Offline!SetLimits(cli.id, IF clear THEN None ELSE [f \in limitFields |-> 1]))

Local ==
    \/ \E op \in LocalOps, id \in sc.targets : openStore(op, id)
    \/ runKeyCreateLocal \/ runKeyRevokeLocal \/ runKeyRotateLocal
    \/ runKeyPermsLocal \/ runQuotaSetLocal

=============================================================================
