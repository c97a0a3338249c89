-------------------------------- MODULE Loadtest --------------------------------
(***************************************************************************)
(* internal/loadtest and cmd/agentgpu/loadtest.go: the load generator, the *)
(* poller that watches the server meanwhile, and the report of both.       *)
(*                                                                         *)
(* Time is counted in intervals of the open loop's ticker.  An interval    *)
(* may see any number of answers; an answer may take any time.             *)
(***************************************************************************)
EXTENDS Integers, Sequences, FiniteSets, FiniteSetsExt, TLC

CONSTANTS
    LoadPlans,     \* command lines, how the server answers, and where the clock stops
    MaxSent,       \* bound on the requests of a run that is bounded by time
    MaxWaits       \* bound on the jobs the server takes from its queue

VARIABLES
    load,    \* the command, the clock, the driver, its requests and results
    poll,    \* the poller and what it has seen
    site     \* the server's queue depth and time in queue

loadVars == <<load, poll, site>>

-----------------------------------------------------------------------------
(* The mix.  A spec is a sequence of <<name, weight>>. *)

Endpoints == <<"chat", "completions", "models">>
ValidEndpoint(ep) == ep \in Range(Endpoints)
SingleEndpointMix(ep) == ep :> 1
NoMix == <<>>

\* Empty parts are passed over; anything else malformed fails the whole spec.
ParseMix(spec) ==
    LET parts == SelectSeq(spec, LAMBDA p : p # <<>>)
        Good(k) == /\ ValidEndpoint(parts[k][1]) /\ parts[k][2] > 0
                   /\ \A j \in 1 .. k - 1 : parts[j][1] # parts[k][1]
    IN  IF \E k \in DOMAIN parts : ~Good(k) THEN NoMix
        ELSE [ep \in {parts[k][1] : k \in DOMAIN parts} |->
                 (CHOOSE p \in Range(parts) : p[1] = ep)[2]]

MixTotal(mix) == MapThenSumSet(LAMBDA ep : mix[ep], DOMAIN mix)
\* The weight of the endpoints before ep, by name.
Before(mix, ep) ==
    LET k == CHOOSE n \in DOMAIN Endpoints : Endpoints[n] = ep
    IN  MapThenSumSet(LAMBDA e : mix[e], DOMAIN mix \cap {Endpoints[n] : n \in 1 .. k - 1})
PickEndpoint(mix, i) ==
    LET slot == i % MixTotal(mix)
    IN  CHOOSE ep \in DOMAIN mix : Before(mix, ep) <= slot /\ slot < Before(mix, ep) + mix[ep]

-----------------------------------------------------------------------------
(* The command line *)

DefaultRequests == 2
parseLoadtestFlags(f) ==
    IF f.duration = 0 /\ f.requests = 0 THEN [f EXCEPT !.requests = DefaultRequests] ELSE f

\* The default endpoint gives way to a mix; any other one conflicts with it.
resolveMix(f) ==
    IF f.mix # <<>> THEN IF f.endpoint # "chat" THEN NoMix ELSE ParseMix(f.mix)
    ELSE IF ValidEndpoint(f.endpoint) THEN SingleEndpointMix(f.endpoint) ELSE NoMix

validate(cfg) ==
    /\ cfg.concurrency >= 1 /\ cfg.rate >= 0 /\ cfg.mix # NoMix
    /\ (cfg.duration > 0) # (cfg.requests > 0)
    /\ DOMAIN cfg.mix \cap {"chat", "completions"} # {} => cfg.model

-----------------------------------------------------------------------------
(* The driver *)

Budgeted == load.cfg.requests > 0
OpenLoop == load.cfg.rate > 0
Spent == Budgeted /\ load.next >= load.cfg.requests
CapFree == Budgeted \/ load.next < MaxSent

LoadInit ==
    /\ \E f \in LoadPlans : load =
           [pc |-> "starting", cfg |-> f, now |-> 0, done |-> FALSE, signal |-> FALSE, next |-> 0,
            loops |-> 0, at |-> "off", tick |-> FALSE, open |-> {}, results |-> {}, ended |-> <<0, 0>>]
    /\ poll = [pc |-> "off", peak |-> 0, count |-> 0, mean |-> 0, max |-> 0, final |-> FALSE]
    /\ site = [depth |-> 0, count |-> 0, sum |-> 0, max |-> 0, past |-> {<<0, 0>>}]

\* runLoadtestCmd up to driver.Run; an in-process stack may not come up.
Launch ==
    LET flags == parseLoadtestFlags(load.cfg)
        cfg == [flags EXCEPT !.mix = resolveMix(flags), !.model = @ \/ flags.inproc]
        usable == (cfg.inproc \/ cfg.token) /\ validate(cfg)
    IN  /\ load.pc = "starting"
        /\ \/ /\ cfg.inproc /\ load' = [load EXCEPT !.pc = "failed"] /\ UNCHANGED poll
           \/ /\ ~usable /\ load' = [load EXCEPT !.pc = "usage"] /\ UNCHANGED poll
           \/ /\ usable
              /\ load' = [load EXCEPT !.pc = "running", !.cfg = cfg,
                             !.loops = IF cfg.rate > 0 THEN 0 ELSE cfg.concurrency,
                             !.at = IF cfg.rate > 0 THEN "tick" ELSE "off"]
              /\ poll' = [poll EXCEPT !.pc = IF cfg.inproc \/ cfg.admin THEN "first" ELSE "off"]
        /\ UNCHANGED site

\* A request of the run: its index, when it was due and when it was sent.
Sent(due) == [i |-> load.next, due |-> due, sent |-> load.now]

\* claim and the loop around it: a worker of the closed loop leaves when the run
\* is over or its budget is spent, and else sends the next request.
claim ==
    /\ load.pc = "running" /\ load.loops > 0
    /\ IF load.done \/ Spent
       THEN load' = [load EXCEPT !.loops = @ - 1]
       ELSE CapFree /\ load' = [load EXCEPT !.loops = @ - 1, !.next = @ + 1, !.open = @ \cup {Sent(load.now)}]
    /\ UNCHANGED <<poll, site>>

\* The open loop waits for the ticker, which keeps one tick, or for the end.
awaitTick ==
    /\ load.at = "tick"
    /\ \/ Spent /\ load' = [load EXCEPT !.at = "off"]
       \/ ~Spent /\ load.done /\ load' = [load EXCEPT !.at = "off"]
       \/ ~Spent /\ CapFree /\ load.tick /\ load' = [load EXCEPT !.at = "slot", !.tick = FALSE]
    /\ UNCHANGED <<poll, site>>

\* Then for a free slot; request i was due i intervals after the start.
\* A bug: a request is due when it gets its slot.
acquireSlotNow ==
    /\ load.at = "slot"
    /\ \/ load.done /\ load' = [load EXCEPT !.at = "off"]
       \/ /\ Cardinality(load.open) < load.cfg.concurrency
          /\ load' = [load EXCEPT !.at = "tick", !.next = @ + 1, !.open = @ \cup {Sent(load.now)}]
    /\ UNCHANGED <<poll, site>>
acquireSlot ==
    /\ load.at = "slot"
    /\ \/ load.done /\ load' = [load EXCEPT !.at = "off"]
       \/ /\ Cardinality(load.open) < load.cfg.concurrency
          /\ load' = [load EXCEPT !.at = "tick", !.next = @ + 1, !.open = @ \cup {Sent(load.next)}]
    /\ UNCHANGED <<poll, site>>

-----------------------------------------------------------------------------
(* One request *)

AnswerTokens == 2

\* Its result is added to the collector, and its worker or slot is free.
Collect(r, found) ==
    load' = [load EXCEPT !.open = @ \ {r}, !.results = @ \cup found,
                         !.loops = IF OpenLoop THEN @ ELSE @ + 1]
Result(r, status, tokens) ==
    [i |-> r.i, ep |-> PickEndpoint(load.cfg.mix, r.i), status |-> status, tokens |-> tokens,
     latency |-> load.now - r.due, at |-> load.now, sent |-> r.sent]

\* What the body reports; one that the end of the run cuts short reports nothing.
readTokens(status, ep) ==
    IF status # 200 \/ ep = "models" THEN {0} ELSE {AnswerTokens} \cup (IF load.done THEN {0} ELSE {})

\* issue: an answer counts whatever it is, and an error counts unless the run is over.
issue(r) ==
    /\ \/ \E status \in load.cfg.answers : \E tokens \in readTokens(status, PickEndpoint(load.cfg.mix, r.i)) :
              Collect(r, {Result(r, status, tokens)})
       \/ load.done /\ Collect(r, {})
       \/ ~load.done /\ Collect(r, {Result(r, 0, 0)})
    /\ UNCHANGED <<poll, site>>

\* Every goroutine is done: the driver returns and the poller is told to stop.
Return ==
    /\ load.pc = "running" /\ load.loops = 0 /\ load.at = "off" /\ load.open = {}
    /\ load' = [load EXCEPT !.pc = "returned", !.ended = <<site.count, site.max>>]
    /\ UNCHANGED <<poll, site>>

\* Time passes: the ticker fires, and a duration ends the run.
Elapse ==
    /\ load.pc = "running"
    /\ LET now == IF load.now < load.cfg.clock THEN load.now + 1 ELSE load.now IN
       load' = [load EXCEPT !.now = now, !.tick = OpenLoop,
                   !.done = @ \/ (load.cfg.duration > 0 /\ now >= load.cfg.duration)]
    /\ UNCHANGED <<poll, site>>
\* SIGINT.
Interrupt ==
    /\ load.pc = "running" /\ load.cfg.signal
    /\ load' = [load EXCEPT !.done = TRUE, !.signal = TRUE]
    /\ UNCHANGED <<poll, site>>

-----------------------------------------------------------------------------
(* The server's side: a queue whose jobs are placed after a wait *)

Enqueue ==
    /\ load.pc = "running" /\ poll.pc # "off" /\ site.depth + site.count < MaxWaits
    /\ site' = [site EXCEPT !.depth = @ + 1]
    /\ UNCHANGED <<load, poll>>

MeanOf(sum, count) == IF count = 0 THEN 0 ELSE sum \div count
recordWait(ms) ==
    /\ load.pc \in {"running", "returned"} /\ site.depth > 0
    /\ site' = [depth |-> site.depth - 1, count |-> site.count + 1, sum |-> site.sum + ms,
                max |-> IF ms > site.max THEN ms ELSE site.max,
                past |-> site.past \cup {<<site.count + 1, MeanOf(site.sum + ms, site.count + 1)>>}]
    /\ UNCHANGED <<load, poll>>

\* QueueStats and WaitTimeStats, as the admin API or the accessors show them.  They
\* are read one after the other; the poller never relates the one to the other.
StatsSnapshot == [depth |-> site.depth, count |-> site.count, max |-> site.max, mean |-> MeanOf(site.sum, site.count)]

fold(p, snap) ==
    [p EXCEPT !.peak = IF snap.depth > @ THEN snap.depth ELSE @,
              !.count = IF snap.count >= @ THEN snap.count ELSE @,
              !.mean = IF snap.count >= p.count THEN snap.mean ELSE @,
              !.max = IF snap.max > @ THEN snap.max ELSE @]

\* The poller's context ends with the driver, or with the command's.
PollStopped == load.pc = "returned" \/ load.signal

\* A sample; one that fails is passed over.  Only the in-process source answers
\* on a context that is over.
Sample(pc) ==
    \/ poll' = [poll EXCEPT !.pc = pc]
    \/ /\ PollStopped /\ pc # "stopped" => load.cfg.inproc
       /\ poll' = [fold(poll, StatsSnapshot) EXCEPT !.pc = pc, !.final = pc = "stopped"]

PollerRun ==
    /\ \/ poll.pc \in {"first", "loop"} /\ Sample("loop")
       \/ poll.pc = "loop" /\ PollStopped /\ Sample("stopped")
    /\ UNCHANGED <<load, site>>

\* runWithPoller's Wait, then the report.
emitReport ==
    /\ load.pc = "returned" /\ poll.pc \in {"off", "stopped"}
    /\ load' = [load EXCEPT !.pc = "reported"]
    /\ UNCHANGED <<poll, site>>

Driving == Launch \/ claim \/ awaitTick \/ acquireSlot \/ (\E r \in load.open : issue(r)) \/ Return \/ emitReport

LoadNext ==
    \/ Driving
    \/ Elapse
    \/ Interrupt
    \/ Enqueue
    \/ \E ms \in {1, 4} : recordWait(ms)
    \/ PollerRun

-----------------------------------------------------------------------------
(* The report *)

bucketFor(status) ==
    CASE status >= 200 /\ status < 300 -> "ok" [] status = 429 -> "throttled"
      [] status = 503 -> "unavailable" [] OTHER -> "error"

\* Quantiles in thousandths, over latencies in order.
percentile(sorted, q) == sorted[(2 * q * (Len(sorted) - 1) + 1000) \div 2000 + 1]
Quantiles == <<0, 500, 900, 950, 990, 999, 1000>>
computePercentiles(results) ==
    LET Faster(r) == {x \in results : x.latency < r.latency \/ (x.latency = r.latency /\ x.i < r.i)}
        sorted == [k \in 1 .. Cardinality(results) |->
                      (CHOOSE r \in results : Cardinality(Faster(r)) = k - 1).latency]
    IN  [k \in DOMAIN Quantiles |-> IF sorted = <<>> THEN 0 ELSE percentile(sorted, Quantiles[k])]

Summarize(results) ==
    LET In(bucket) == {r \in results : bucketFor(r.status) = bucket} IN
    [total |-> Cardinality(results), success |-> Cardinality(In("ok")), throttled |-> Cardinality(In("throttled")),
     unavailable |-> Cardinality(In("unavailable")), errors |-> Cardinality(In("error")),
     totalTokens |-> MapThenSumSet(LAMBDA r : r.tokens, In("ok")),
     latency |-> computePercentiles(results), successLatency |-> computePercentiles(In("ok"))]

-----------------------------------------------------------------------------

\* No more requests than the budget are ever sent, and at most Concurrency at a
\* time.  Each has one result, unless the end of the run cut it off: a budget that
\* is not interrupted is answered to the last request (claim, the semaphore).
ResultsAccounted ==
    LET found == {r.i : r \in load.results} IN
    /\ Cardinality(load.open) <= Max({0, load.cfg.concurrency})
    /\ Cardinality(found) = Cardinality(load.results)
    /\ load.pc \in {"running", "returned", "reported"} =>
          /\ Budgeted => load.next <= load.cfg.requests
          /\ ~load.done => found \cup {r.i : r \in load.open} = 0 .. load.next - 1
          /\ load.pc # "running" /\ ~load.done => Budgeted /\ found = 0 .. load.cfg.requests - 1

\* Latencies of an open loop run from the schedule, whatever kept the request
\* from being sent: a stall of the server shows in every request it delays.
LatencyFromSchedule ==
    \A r \in load.results :
        r.latency = r.at - (IF OpenLoop THEN r.i ELSE r.sent) /\ r.latency >= r.at - r.sent

\* However the workers share the indices, a budget of whole cycles of the mix
\* sends every endpoint as often as its weight asks.
MixExact ==
    load.pc = "reported" /\ ~load.done /\ load.cfg.requests % MixTotal(load.cfg.mix) = 0 =>
        \A ep \in DOMAIN load.cfg.mix :
            Cardinality({r \in load.results : r.ep = ep})
                = load.cfg.mix[ep] * (load.cfg.requests \div MixTotal(load.cfg.mix))

\* The buckets add up, and each quantile is a latency whose rank is the nearest
\* to the one asked for, so that they never decrease.
SummaryExact ==
    load.pc = "reported" =>
        LET s == Summarize(load.results)
            n == s.total
            NearRank(v, q) ==
                LET below == Cardinality({r \in load.results : r.latency < v})
                    upTo == Cardinality({r \in load.results : r.latency <= v})
                IN  \E k \in below .. upTo - 1 : 1000 * k - q * (n - 1) \in -500 .. 500
        IN  /\ n = s.success + s.throttled + s.unavailable + s.errors
            /\ \A k \in DOMAIN Quantiles : n > 0 => NearRank(s.latency[k], Quantiles[k])
            /\ \A k \in 2 .. Len(Quantiles) : s.latency[k - 1] <= s.latency[k] /\ s.successLatency[k - 1] <= s.successLatency[k]

\* The poller's count and mean are of one moment of the server, and its last
\* sample is of the end of a run that was not interrupted.
ObservationTrue ==
    /\ <<poll.count, poll.mean>> \in site.past
    /\ load.pc = "reported" /\ poll.final /\ ~load.signal =>
          poll.count >= load.ended[1] /\ poll.max >= load.ended[2]

\* A run that was accepted ends with its report, however the server behaves: it
\* has a budget or a deadline, a request ends, and the poller is waited for once.
RunEnds == load.pc = "running" ~> load.pc = "reported"

\* The report of a load test is true of the run.
LoadReportTrue ==
    ResultsAccounted /\ LatencyFromSchedule /\ MixExact /\ SummaryExact /\ ObservationTrue
=============================================================================
