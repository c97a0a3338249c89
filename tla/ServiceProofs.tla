---------------------------- MODULE ServiceProofs ----------------------------
(***************************************************************************)
(* Proofs about the server that Service composes, from what ProcessProofs  *)
(* and GatewayProofs show of its parts: every step of the server is a step *)
(* of a part or leaves it alone, and RestartInv, which is inductive, is    *)
(* the invariants of the parts together.                                   *)
(***************************************************************************)
EXTENDS Service, ProcessProofs, GatewayProofs, TLAPS

-----------------------------------------------------------------------------
(* The steps of the parts *)

\* A step of the server is a step of the scheduler's pool or leaves it alone.
LEMMA PoolOfService == [Next]_serviceVars => PoolNext \/ UNCHANGED pool
<1>1. ASSUME UNCHANGED serviceVars PROVE UNCHANGED pool
  BY <1>1, Zenon DEF serviceVars
<1>2. ASSUME Next PROVE PoolNext \/ UNCHANGED pool
  BY <1>2, Zenon DEF Next
<1> QED BY <1>1, <1>2, Zenon

LEMMA PoolStarts == Init => PoolOK
<1> SUFFICES ASSUME Init PROVE PoolOK
  BY Zenon
<1>1. pool = [fleet |-> <<>>, bound |-> NoWorker, turn |-> "m1"]
  BY Zenon DEF Init, PoolInit
<1>2. <<>> \in [{} -> Snapshots]
  OBVIOUS
<1>3. <<>> \in UNION {[D -> Snapshots] : D \in SUBSET Machines}
  BY <1>2, Zenon
<1> QED BY <1>1, <1>3, SMTT(30) DEF PoolOK, TurnModels

\* PickPreferring and Pick return the first worker in the order the package
\* documents, whatever the fleet reports within the ranges the weights are made
\* for, however many workers there are: no sum of lower terms inverts it.
THEOREM PicksTheBest == Spec => []PickIsBest
<1>1. Init => PoolOK
  BY PoolStarts
<1>2. PoolOK /\ [Next]_serviceVars => PoolOK'
  BY PoolStep, PoolOfService, Zenon
<1>3. PoolOK => PickIsBest
  BY PoolPicks, Zenon
<1> QED BY <1>1, <1>2, <1>3, PTL DEF Spec

LEMMA GatewayOfService == [Next]_serviceVars => GatewayNext \/ UNCHANGED gatewayVars
<1>1. ASSUME UNCHANGED serviceVars PROVE UNCHANGED gatewayVars
  BY <1>1, Zenon DEF serviceVars
<1>2. ASSUME Next PROVE GatewayNext \/ UNCHANGED gatewayVars
  BY <1>2, ZenonT(40) DEF Next
<1> QED BY <1>1, <1>2, Zenon

LEMMA ProcessOfService == [Next]_serviceVars => ProcessNext \/ UNCHANGED processVars
<1>1. ASSUME UNCHANGED serviceVars PROVE UNCHANGED processVars
  BY <1>1, Zenon DEF serviceVars
<1>2. ASSUME Next PROVE ProcessNext \/ UNCHANGED processVars
  BY <1>2, Zenon DEF Next
<1> QED BY <1>1, <1>2, Zenon

ServiceInv == PoolOK /\ CallOK /\ plan \in Plans /\ ProcInv

LEMMA ServiceStarts == Init => ServiceInv
<1> SUFFICES ASSUME Init PROVE ServiceInv
  OBVIOUS
<1>1. CallOK
  <2>1. call = [q \in Requests |-> Fresh]
    BY Zenon DEF Init, GatewayInit
  <2>2. IsCall(Fresh) /\ Fresh.pc = "new" /\ Fresh.code = 0
    BY Zenon DEF Fresh, IsCall
  <2>3. "new" \in Pcs
    BY Zenon DEF Pcs
  <2>4. \A q \in Requests : call[q] = Fresh
    BY <2>1, Zenon
  <2>5. call = [q \in Requests |-> call[q]]
    BY <2>1, Zenon
  <2> QED BY <2>2, <2>3, <2>4, <2>5, SMTT(30) DEF CallOK, IsCalls
<1>2. plan \in Plans
  <2>1. (CHOOSE p \in Plans : TRUE) \in Plans
    BY ServiceConstants, Zenon
  <2> QED BY <2>1, Zenon DEF Init
<1>3. ProcInv
  <2>1. ProcessInit
    BY Zenon DEF Init
  <2>2. ProcShape /\ WriterShape
    BY <2>1, ProcStarts, Zenon
  <2>3. /\ proc.pc = "down" /\ proc.mem = Empty /\ disk.data = Empty /\ proc.writers = IdleWriters
    BY <2>1, Zenon DEF ProcessInit, Stopped
  <2>4. Loading
    BY <2>3, SMTT(30) DEF Loading
  <2>5. HistoryKept
    BY <2>3, EmptyStores, SMTT(30) DEF HistoryKept
  <2>6. QuotaAhead
    BY <2>3, EmptyStores, IdleShape, SMTT(30) DEF QuotaAhead
  <2>7. Saved
    BY <2>3, Zenon DEF Saved
  <2> QED BY <2>2, <2>4, <2>5, <2>6, <2>7, ZenonT(40) DEF ProcInv
<1> QED BY <1>1, <1>2, <1>3, PoolStarts, ZenonT(40) DEF ServiceInv

LEMMA ServiceStep ==
    ASSUME ServiceInv, [Next]_serviceVars
    PROVE  /\ ServiceInv' /\ StatusKept
           /\ proc.pc = "serving" => disk'.data["quota"] >= disk.data["quota"]
<1>1. PoolOK'
  BY PoolStep, PoolOfService, ZenonT(40) DEF ServiceInv
<1>2. DOMAIN plan.asks \subseteq Requests
  BY ServiceConstants, Zenon DEF ServiceInv
<1>3. CallOK' /\ StatusKept
  BY <1>2, GatewayStep, GatewayOfService, ZenonT(40) DEF ServiceInv
<1>4. (plan \in Plans)'
  <2>1. plan' = plan
    BY PlanStays, GatewayOfService, ZenonT(40) DEF gatewayVars
  <2> QED BY <2>1, SMTT(30) DEF ServiceInv
<1>5. ProcInv' /\ (proc.pc = "serving" => disk'.data["quota"] >= disk.data["quota"])
  BY ProcStep, ProcessOfService, Zenon DEF ServiceInv
<1> QED BY <1>1, <1>3, <1>4, <1>5, ZenonT(40) DEF ServiceInv

\* What was given is not taken back: a status that a handler has written stays
\* (the middleware that recovers a panic included), the quota file of a running
\* server never goes back to an older count although snapshots are written
\* outside the lock, and a conversation leaves a worker that can run its turn
\* only for one with the model loaded where the bound one has not.
THEOREM NothingIsTakenBack == Spec => NothingTakenBack
<1>1. Init => ServiceInv
  BY ServiceStarts
<1>2. ServiceInv /\ [Next]_serviceVars => ServiceInv'
  BY ServiceStep, Zenon
<1>3. ServiceInv /\ [Next]_serviceVars
        => [\A r \in Requests : call[r].code # 0 => call'[r].code = call[r].code]_gatewayVars
  BY ServiceStep, Zenon DEF StatusKept
<1>4. ServiceInv /\ [Next]_serviceVars
        => [proc.pc = "serving" => disk'.data.quota >= disk.data.quota]_processVars
  BY ServiceStep, Zenon
<1>5. ServiceInv /\ [Next]_serviceVars
        => [pool'.bound # pool.bound /\ pool.bound \in Candidates(pool.fleet, pool.turn) =>
               /\ ~hasModel(pool.fleet[pool.bound], pool.turn)
               /\ hasModel(pool.fleet[pool'.bound], pool.turn)]_pool
  BY BoundStays, PoolOfService, ZenonT(40) DEF ServiceInv
<1> QED BY <1>1, <1>2, <1>3, <1>4, <1>5, PTL DEF Spec, NothingTakenBack, StatusFinal, DiskMonotone, StaysWarm

-----------------------------------------------------------------------------
(* Everything together *)

LEMMA PartsOfService ==
    ASSUME [Next]_serviceVars
    PROVE  /\ LogsNext \/ UNCHANGED logs
           /\ WalkNext \/ UNCHANGED walk
           /\ GaugeNext \/ UNCHANGED gauge
           /\ LoadNext \/ UNCHANGED load
           /\ ConfigNext \/ UNCHANGED conf
<1>1. CASE UNCHANGED serviceVars
  BY <1>1, Zenon DEF serviceVars, reportsVars, loadVars
<1>2. ASSUME UNCHANGED reportsVars PROVE UNCHANGED logs /\ UNCHANGED walk /\ UNCHANGED gauge
  BY <1>2, SMTT(30) DEF reportsVars
<1>3. ASSUME UNCHANGED loadVars PROVE UNCHANGED load
  BY <1>3, Zenon DEF loadVars
<1>4. ASSUME LogsNext PROVE UNCHANGED walk /\ UNCHANGED gauge
  BY <1>4, ZenonT(40) DEF LogsNext, Log, SetLevel, handleAdminLogsStream, emitNewLogs, TailCloses
<1>5. ASSUME WalkNext PROVE UNCHANGED logs /\ UNCHANGED gauge
  BY <1>5, ZenonT(40) DEF WalkNext, Page, ItemAdded, ItemDeleted
<1>6. ASSUME SeriesNext PROVE UNCHANGED logs /\ UNCHANGED walk /\ UNCHANGED gauge
  BY <1>6, Zenon DEF SeriesNext, Use, Midnight, LoadSeries, ReadUsage, StampUsage, StoreUsage
<1>7. ASSUME StatsNext PROVE UNCHANGED logs /\ UNCHANGED walk /\ UNCHANGED gauge
  BY <1>7, ZenonT(40) DEF StatsNext, recordCount, recordSum, recordLoad, recordSwap, recordBuckets
<1>8. ASSUME GaugeNext PROVE UNCHANGED logs /\ UNCHANGED walk
  BY <1>8, Zenon DEF GaugeNext, Report, Leave
<1>9. CASE Next
  BY <1>2, <1>3, <1>4, <1>5, <1>6, <1>7, <1>8, <1>9, ZenonT(40) DEF Next
<1> QED BY <1>1, <1>9, ZenonT(40)

\* The inductive invariant of the whole service.
RestartInv == ServiceInv /\ HubOK /\ LogsOK /\ WalkOK /\ GaugeOK /\ LoadOK /\ ConfOK

LEMMA PlanLimits ==
    ASSUME plan \in Plans
    PROVE  /\ DOMAIN plan.asks \subseteq Requests /\ plan.global \in Nat /\ plan.quota \in Nat /\ plan.cap \in Nat
           /\ SessionsOK(plan.sessions, plan.cap)
<1>1. /\ DOMAIN plan.asks \subseteq Requests /\ plan.global \in Nat /\ plan.quota \in Nat /\ plan.cap \in Nat
      /\ plan.sessions = [s \in Sids |-> plan.sessions[s]]
  BY ServiceConstants, Zenon
<1>2. \A s \in Sids : SessionOK(plan.sessions[s], plan.cap)
  BY ServiceConstants, Zenon DEF SessionOK
<1> QED BY <1>1, <1>2, ZenonT(40) DEF SessionsOK

LEMMA RestartStarts == Init => RestartInv
<1> SUFFICES ASSUME Init PROVE RestartInv
  OBVIOUS
<1>1. ServiceInv
  BY ServiceStarts, SMTT(30)
<1>2. HubOK
  <2>1. plan \in Plans
    BY <1>1, Zenon DEF ServiceInv
  <2>2. PICK codes, thr, tokens :
          hub = [keys |-> plan.keys, global |-> plan.global, quota |-> plan.quota, sessions |-> plan.sessions,
                 fleet |-> plan.fleet, jobs |-> {}, unloads |-> {}, throttled |-> thr, codes |-> codes, tokens |-> tokens]
    BY ZenonT(40) DEF Init, GatewayInit
  <2>3. IsHub(hub) /\ hub.global = plan.global /\ hub.quota = plan.quota /\ hub.sessions = plan.sessions
    BY <2>2, Zenon DEF IsHub
  <2>4. SessionsOK(hub.sessions, plan.cap)
    BY <2>1, <2>3, PlanLimits, Zenon
  <2>5. plan.global \in 0 .. plan.global /\ plan.quota \in 0 .. plan.quota
    BY <2>1, PlanLimits, SMTT(30)
  <2>6. hub.global \in 0 .. plan.global /\ hub.quota \in 0 .. plan.quota
    BY <2>3, <2>5, ZenonT(40)
  <2> QED BY <2>3, <2>4, <2>6, ZenonT(40) DEF HubOK
<1>3. LogsOK
  <2>1. PICK all, tail, polls : logs = [ring |-> newLogRing, level |-> "info", all |-> all, tail |-> tail, polls |-> polls]
    BY Zenon DEF Init, LogsInit
  <2>2. newLogRing.next = 0
    BY Zenon DEF newLogRing
  <2>3. 0 \in 0 .. RingCap - 1
    BY ReportsConstants, SMTT(30)
  <2> QED BY <2>1, <2>2, <2>3, SMTT(30) DEF LogsOK
<1>4. WalkOK
  <2>1. WalkInit
    BY Zenon DEF Init
  <2> QED BY <2>1, SMTT(30) DEF WalkInit, WalkOK
<1>5. GaugeOK
  BY DEF Init, GaugeInit, GaugeOK
<1>6. LoadOK
  <2>1. LoadInit
    BY ZenonT(40) DEF Init
  <2>2. IsLoad(load) /\ load.next = 0 /\ load.open = {} /\ load.results = {}
    BY <2>1, SMTT(30) DEF LoadInit, IsLoad
  <2>3. IsFiniteSet({}) /\ Cardinality({}) = 0
    BY FS_EmptySet, ZenonT(40)
  <2>4. load.next \in Nat /\ load.next >= Cardinality({}) + Cardinality({})
    BY <2>2, <2>3, SMTT(30)
  <2> QED BY <2>2, <2>3, <2>4, ZenonT(40) DEF LoadOK
<1>7. ConfOK
  <2>1. ConfigInit
    BY Zenon DEF Init
  <2>2. IsConf(conf) /\ conf.flag \in FlagKinds /\ conf.env \in EnvKinds /\ conf.done = {} /\ conf.refused = {}
    BY <2>1, SMTT(30) DEF ConfigInit, IsConf
  <2>3. \A c : ~ Started(c)
    BY <2>2, SMTT(30) DEF Started
  <2> QED BY <2>2, <2>3, ZenonT(40) DEF ConfOK
<1> QED BY <1>1, <1>2, <1>3, <1>4, <1>5, <1>6, <1>7, ZenonT(40) DEF RestartInv

LEMMA RestartStep == ASSUME RestartInv, [Next]_serviceVars PROVE RestartInv'
<1>1. ServiceInv'
  BY ServiceStep, Zenon DEF RestartInv
<1>2. HubOK'
  <2>1. plan \in Plans
    BY Zenon DEF RestartInv, ServiceInv
  <2>2. CASE GatewayNext
    BY <2>1, <2>2, PlanLimits, PlanStays, HubStep, ZenonT(40) DEF RestartInv
  <2>3. CASE UNCHANGED gatewayVars
    <3>1. UNCHANGED hub /\ UNCHANGED plan
      BY <2>3, SMTT(30) DEF gatewayVars
    <3> QED BY <3>1, Zenon DEF RestartInv, HubOK
  <2> QED BY <2>2, <2>3, GatewayOfService, ZenonT(40)
<1>3. LogsOK' /\ WalkOK' /\ GaugeOK'
  BY PartsOfService, LogsStep, WalkStep, GaugeStep, ZenonT(40) DEF RestartInv
<1>4. LoadOK' /\ ConfOK'
  BY PartsOfService, LoadStep, ConfStep, ZenonT(40) DEF RestartInv
<1> QED BY <1>1, <1>2, <1>3, <1>4, ZenonT(40) DEF RestartInv

LEMMA RestartImplies == RestartInv => RestartSafe
<1> SUFFICES ASSUME RestartInv PROVE RestartSafe
  OBVIOUS
<1>1. GatewayTypeOK
  <2>1. \A r \in Requests : call[r].pc \in Busy \cup {"new", "out", "gone"} /\ call[r].code \in Codes \cup {0}
    BY Zenon DEF RestartInv, ServiceInv, CallOK, Pcs
  <2>2. plan \in Plans
    BY Zenon DEF RestartInv, ServiceInv
  <2>3. ASSUME NEW s \in Sids PROVE plan.cap >= Len(Visible(s))
    <3> DEFINE x == hub.sessions[s]
    <3>1. SessionOK(x, plan.cap) /\ plan.cap \in Nat
      BY <2>2, PlanLimits, ZenonT(40) DEF RestartInv, HubOK, SessionsOK
    <3> HIDE DEF x
    <3> DEFINE M == [by : Requests, role : {"user", "assistant"}]
               log == x.log
               from == x.from
    <3>2. log \in Seq(M) /\ from \in 0 .. Len(log) /\ Len(log) - from <= plan.cap
      BY <3>1, ZenonT(40) DEF SessionOK
    <3> HIDE DEF M, log, from
    <3>3. Len(log) \in Nat
      BY <3>2, SMTT(30)
    <3>4. Len(SubSeq(log, from + 1, Len(log))) = Len(log) - from
      <4>1. CASE from = Len(log)
        BY <3>2, <3>3, <4>1, SMTT(30)
      <4>2. CASE from < Len(log)
        BY <3>2, <3>3, <4>2, SMTT(30)
      <4> QED BY <3>2, <3>3, <4>1, <4>2, SMTT(30)
    <3>5. Visible(s) = SubSeq(log, from + 1, Len(log))
      BY Zenon DEF Visible, log, from, x
    <3> QED BY <3>1, <3>2, <3>3, <3>4, <3>5, SMTT(30)
  <2> QED BY <2>1, <2>3, ZenonT(40) DEF GatewayTypeOK, RestartInv, HubOK
<1>2. /\ \A w \in Tickers \cup {"main"} : Len(proc.writers[w].hold) <= 1
      /\ proc.mem.sessions \subseteq Chats /\ disk.torn \subseteq Files
  <2>1. ProcShape /\ WriterShape
    BY Zenon DEF RestartInv, ServiceInv, ProcInv
  <2>2. ASSUME NEW w \in Tickers \cup {"main"} PROVE Len(proc.writers[w].hold) <= 1
    <3> DEFINE h == proc.writers[w].hold
    <3>1. h = <<>> \/ h = <<h[1]>>
      BY <2>1, ZenonT(40) DEF WriterShape, Writers
    <3> HIDE DEF h
    <3>2. Len(h) <= 1
      BY <3>1, SMTT(30)
    <3> QED BY <3>2, SMTT(30) DEF h
  <2>3. disk.torn = {}
    BY <2>1, SMTT(30) DEF ProcShape
  <2> QED BY <2>1, <2>2, <2>3, SMTT(30) DEF ProcShape
<1>3. pool.bound \in Machines \cup {NoWorker}
  BY DEF RestartInv, ServiceInv, PoolOK
<1>4. TypeOK
  BY <1>1, <1>2, <1>3, ZenonT(40) DEF TypeOK, RestartInv, LogsOK, WalkOK, GaugeOK, LoadOK
<1>5. UsableSettings /\ FlagOverEnv
  BY SettingsSound, ZenonT(40) DEF RestartInv
<1>6. BootNeverWedged
  <2>1. proc.pc \in {"down", "boot", "failed", "serving", "drain", "grpc", "final", "exited"}
    BY Zenon DEF RestartInv, ServiceInv, ProcInv, ProcShape
  <2> QED BY <2>1, SMTT(30) DEF BootNeverWedged
<1>7. HistoryOwned
  BY Zenon DEF RestartInv, ServiceInv, ProcInv, HistoryKept, HistoryOwned, Mem
<1>8. GracefulExitSaves
  BY Zenon DEF RestartInv, ServiceInv, ProcInv, Saved, GracefulExitSaves
<1> QED BY <1>4, <1>5, <1>6, <1>7, <1>8, ZenonT(40) DEF RestartSafe

\* A process that starts has settings it can run with and a state it can trust,
\* whatever the crash of the last one left of its files: no checkpoint wedges
\* the boot, no history comes back without its session, and an exit that no
\* failed write or late request disturbed has saved everything.
THEOREM RestartIsSafe == Spec => []RestartSafe
<1>1. Init => RestartInv
  BY RestartStarts
<1>2. RestartInv /\ [Next]_serviceVars => RestartInv'
  BY RestartStep, SMTT(30)
<1>3. RestartInv => RestartSafe
  BY RestartImplies
<1> QED BY <1>1, <1>2, <1>3, PTL DEF Spec
=============================================================================
