-------------------------------- MODULE Service --------------------------------
(***************************************************************************)
(* The server as its users meet it: the settings it starts from (Config),  *)
(* the process around it (Process), the public HTTP surface (Gateway),     *)
(* where a turn is placed (Scheduler), what an operator reads (Reports)    *)
(* and the load generator they measure it with (Loadtest).                 *)
(*                                                                         *)
(* The parts share no variable; each behaviour exercises the one that is   *)
(* chosen at the start.                                                    *)
(***************************************************************************)
EXTENDS Gateway, Process, Config, Reports, Scheduler, Loadtest

CONSTANTS
    Plans,     \* what clients may ask for, and under which limits
    Scopes,    \* sets of checkpoint files that see traffic
    Parts      \* the parts to exercise

\* Requests are the ones there are, a limit is a count, and a session starts with
\* a history that its cap has room for.
ASSUME ServiceConstants ==
    /\ Plans # {}
    /\ \A p \in Plans :
         /\ DOMAIN p.asks \subseteq Requests
         /\ p.global \in Nat /\ p.quota \in Nat /\ p.cap \in Nat
         /\ p.sessions = [s \in Sids |-> p.sessions[s]]
         /\ \A s \in Sids : LET x == p.sessions[s] IN
              /\ x = [state |-> x.state, owner |-> x.owner, log |-> x.log, from |-> x.from, worker |-> x.worker]
              /\ x.log \in Seq([by : Requests, role : {"user", "assistant"}])
              /\ x.from \in 0 .. Len(x.log) /\ Len(x.log) - x.from <= p.cap

VARIABLE part

serviceVars == <<part, gatewayVars, processVars, conf, reportsVars, pool, loadVars>>

\* A part that is not exercised stays in one initial state.
Init ==
    /\ part \in Parts
    /\ plan \in IF part = "gateway" THEN Plans ELSE {CHOOSE p \in Plans : TRUE}
    /\ scope \in IF part = "process" THEN Scopes ELSE {{}}
    /\ GatewayInit /\ ProcessInit
    /\ ConfigInit /\ (part # "config" => conf.flag = "unset" /\ conf.env = "unset" /\ conf.home)
    /\ LogsInit /\ SeriesInit /\ StatsInit /\ GaugeInit
    /\ WalkInit /\ (part # "lists" => walk.items = {} /\ walk.limit = 0)
    /\ PoolInit
    /\ LoadInit /\ (part # "loadtest" => load.cfg = CHOOSE f \in LoadPlans : TRUE)

Next ==
    /\ UNCHANGED part
    /\ \/ part = "gateway" /\ GatewayNext /\ UNCHANGED <<processVars, conf, reportsVars, pool, loadVars>>
       \/ part = "process" /\ ProcessNext /\ UNCHANGED <<gatewayVars, conf, reportsVars, pool, loadVars>>
       \/ part = "config" /\ ConfigNext /\ UNCHANGED <<gatewayVars, processVars, reportsVars, pool, loadVars>>
       \/ part = "logs" /\ LogsNext /\ UNCHANGED <<gatewayVars, processVars, conf, pool, loadVars>>
       \/ part = "lists" /\ WalkNext /\ UNCHANGED <<gatewayVars, processVars, conf, pool, loadVars>>
       \/ part = "usage" /\ SeriesNext /\ UNCHANGED <<gatewayVars, processVars, conf, pool, loadVars>>
       \/ part = "telemetry" /\ StatsNext /\ UNCHANGED <<gatewayVars, processVars, conf, pool, loadVars>>
       \/ part = "capacity" /\ GaugeNext /\ UNCHANGED <<gatewayVars, processVars, conf, pool, loadVars>>
       \/ part = "placement" /\ PoolNext /\ UNCHANGED <<gatewayVars, processVars, conf, reportsVars, loadVars>>
       \/ part = "loadtest" /\ LoadNext /\ UNCHANGED <<gatewayVars, processVars, conf, reportsVars, pool>>

\* A handler that can go on does; so do the process's main goroutine, and the
\* load generator (whose client gives up on a request after a minute) with its
\* clock and a poller that is to stop.  Each takes finitely many steps.
Progress ==
    \/ part = "gateway" /\ (\E r \in DOMAIN plan.asks : Step(r)) /\ UNCHANGED <<processVars, conf, reportsVars, pool, loadVars>>
    \/ part = "process" /\ MainStep /\ UNCHANGED <<gatewayVars, conf, reportsVars, pool, loadVars>>
    \/ /\ part = "loadtest" /\ (Driving \/ Elapse \/ (PollStopped /\ PollerRun))
       /\ UNCHANGED <<gatewayVars, processVars, conf, reportsVars, pool>>

Spec == Init /\ [][Next]_serviceVars /\ WF_serviceVars(UNCHANGED part /\ Progress)

\* The state of every part is well formed.
TypeOK ==
    /\ GatewayTypeOK
    /\ \A w \in Tickers \cup {"main"} : Len(proc.writers[w].hold) <= 1
    /\ proc.mem.sessions \subseteq Chats /\ disk.torn \subseteq Files
    /\ logs.ring.next \in 0 .. RingCap - 1 /\ walk.items \subseteq Items
    /\ Len(gauge) <= 3 /\ pool.bound \in Machines \cup {NoWorker}
    /\ load.next >= Cardinality(load.results) + Cardinality(load.open)

\* A process that starts has settings it can run with and a state it can trust,
\* whatever the last one left, and one that stops leaves its state behind.
RestartSafe == TypeOK /\ UsableSettings /\ FlagOverEnv /\ BootNeverWedged /\ HistoryOwned /\ GracefulExitSaves

\* What was given is not taken back: a status once sent, a count once saved, a
\* warm worker that can still serve its conversation.
NothingTakenBack == StatusFinal /\ DiskMonotone /\ StaysWarm

\* Nobody is left waiting: not the handler of a client that went away, not a
\* shutdown that no worker holds up, not a load test.
NobodyWaits == GoneClientReleased /\ ShutdownEnds /\ RunEnds
=============================================================================
