-------------------------------- MODULE Quota --------------------------------
(***************************************************************************)
(* The quota engine of internal/quota: fixed-window counters per key and   *)
(* for the whole server, reserved against before a job is dispatched,      *)
(* charged with its tokens afterwards, and checkpointed to a file.         *)
(*                                                                         *)
(* A request reads the limits and the clock first and takes the counter    *)
(* store's mutex later, so the clock may move in between: those are        *)
(* separate steps here, as are the snapshot and the rename of a            *)
(* checkpoint.  Limits and clock are read in one step; a limit changed     *)
(* between the two reads is one changed just after them.  The unit of time *)
(* is the minute window.  Days and months are given by their boundaries,   *)
(* so months may differ in length.  The job itself is module Dispatch; it  *)
(* yields some number of tokens here, 0 when it failed.                    *)
(*                                                                         *)
(* used and lossy are history variables: used holds what was reserved and  *)
(* charged in each window over all time, lossy the windows of which the    *)
(* store may have forgotten something.                                     *)
(***************************************************************************)
EXTENDS Integers, FiniteSets

CONSTANTS
    Keys,          \* API keys
    Global,        \* globalKeyID, the counter of the whole server
    Requests,      \* inference requests
    KeyOf,         \* [Requests -> Keys]
    OwnLimits,     \* APIKey.Limits: [Keys -> limits or None]
    LimitChoices,  \* limits an administrator may set as defaults
    GlobalChoices, \* limits an administrator may set server-wide
    DayOf,         \* the first minute of the day of each minute
    MonthOf,       \* the first minute of the month of each minute
    MaxTime,       \* bound: the last minute
    MaxTokens,     \* bound: tokens of one job
    Scenarios,     \* bounds and boot configurations, one of which a behaviour has
    None

Times == 0 .. MaxTime
Zero == -1  \* the zero time.Time, before every window
Windows == {"minute", "day", "month"}
Scopes == Keys \cup {Global}
Limits == [rpm : Nat, tpm : Nat, daily : Nat, monthly : Nat]
Counter == [start : Times \cup {Zero}, reqs : Nat, toks : Nat]
Amount == [reqs : Nat, toks : Nat]
Scenario ==
    [defaults : LimitChoices, global : GlobalChoices,  \* the limits at boot
     requests : Nat, sets : Nat, crashes : Nat]        \* how many there may be

ASSUME KeyTypes ==
    /\ Global \notin Keys
    /\ KeyOf \in [Requests -> Keys]
    /\ OwnLimits \in [Keys -> Limits \cup {None}]
    /\ None \notin Limits
ASSUME LimitTypes ==
    /\ LimitChoices \subseteq Limits
    /\ GlobalChoices \subseteq {l \in Limits : l.daily = 0 /\ l.monthly = 0}
ASSUME Bounds == MaxTime \in Nat /\ MaxTokens \in Nat /\ Scenarios \subseteq Scenario
ASSUME Calendar ==
    /\ DayOf \in [Times -> Times]
    /\ MonthOf \in [Times -> Times]
    /\ \A t \in Times : DayOf[t] <= t /\ MonthOf[t] <= t
    /\ \A t, u \in Times : DayOf[t] = DayOf[u] => MonthOf[t] = MonthOf[u]
    /\ \A t, u \in Times : t <= u => DayOf[t] <= DayOf[u] /\ MonthOf[t] <= MonthOf[u]

VARIABLES
    clock,     \* the engine's clock, in minutes
    defaults,  \* e.defaults
    global,    \* e.global
    counters,  \* m.counters; a missing key is one whose starts are Zero
    pc,        \* where each request stands
    at,        \* the clock as the request read it
    lim,       \* the limits as the request read them
    toks,      \* the tokens its job produced
    snap,      \* the snapshot a running Checkpoint is writing, or None
    disk,      \* the checkpoint file
    used,      \* history: what happened in each window
    lossy,     \* history: windows of which counts may be lost
    sets,      \* changes of the limits left
    crashes    \* crashes left

limitVars == <<defaults, global, sets>>
reqVars == <<pc, at, lim, toks>>
fileVars == <<snap, disk>>
history == <<used, lossy>>
vars == <<clock, limitVars, counters, reqVars, fileVars, history, crashes>>

ZeroCounters == [w \in Windows |-> [start |-> Zero, reqs |-> 0, toks |-> 0]]
Unused == [w \in Windows |-> [t \in Times |-> [reqs |-> 0, toks |-> 0]]]

Init ==
    /\ clock = 0
    /\ \E sc \in Scenarios, idle \in SUBSET Requests :
          /\ Cardinality(idle) = sc.requests
          /\ defaults = sc.defaults
          /\ global = sc.global
          /\ pc = [r \in Requests |-> IF r \in idle THEN "idle" ELSE "done"]
          /\ sets = sc.sets
          /\ crashes = sc.crashes
    /\ counters = [s \in Scopes |-> ZeroCounters]
    /\ at = [r \in Requests |-> 0]
    /\ lim = [r \in Requests |-> None]
    /\ toks = [r \in Requests |-> 0]
    /\ snap = None
    /\ disk = [s \in Scopes |-> ZeroCounters]
    /\ used = [s \in Scopes |-> Unused]
    /\ lossy = [s \in Scopes |-> [w \in Windows |-> {}]]

-----------------------------------------------------------------------------
(* Windows and counters *)

windowStart(w, t) ==
    CASE w = "minute" -> t
      [] w = "day" -> DayOf[t]
      [] w = "month" -> MonthOf[t]

\* WindowReset: the first minute of the next window, or the first minute
\* past the bound.
WindowReset(w, t) ==
    CHOOSE u \in t + 1 .. MaxTime + 1 :
        /\ u \in Times => windowStart(w, u) # windowStart(w, t)
        /\ \A v \in t + 1 .. u - 1 : windowStart(w, v) = windowStart(w, t)

\* A bug in roll: a new minute resets the requests and not the tokens.
RollKeepsTokens(c, now) ==
    [w \in Windows |->
        IF c[w].start = windowStart(w, now)
        THEN c[w]
        ELSE [start |-> windowStart(w, now), reqs |-> 0,
              toks |-> IF w = "minute" THEN c[w].toks ELSE 0]]

\* Counters.roll: a window that is not the one of now restarts from zero,
\* whether now is after it or before it.
roll(c, now) ==
    [w \in Windows |->
        IF c[w].start = windowStart(w, now)
        THEN c[w]
        ELSE [start |-> windowStart(w, now), reqs |-> 0, toks |-> 0]]

\* The limits the counters have reached, each with its window; 0 is no limit.
Exhausted(c, l) ==
    { d \in {<<"rpm", "minute">>, <<"tpm", "minute">>,
             <<"daily", "day">>, <<"monthly", "month">>} :
        /\ l[d[1]] # 0
        /\ (IF d[1] = "rpm" THEN c[d[2]].reqs ELSE c[d[2]].toks) >= l[d[1]] }

\* A bug in RetryAfter: an exhausted day or month hints at the next minute.
RetryAfterMinute(c, l, now) == WindowReset("minute", now)

\* Snapshot.RetryAfter: the soonest reset among the exhausted dimensions,
\* among all windows when none is exhausted.
RetryAfter(c, l, now) ==
    LET considered == IF Exhausted(c, l) # {} THEN {d[2] : d \in Exhausted(c, l)}
                                              ELSE Windows
        resets == {WindowReset(w, now) : w \in considered}
    IN  CHOOSE u \in resets : \A v \in resets : u <= v

\* What the history remembers of a store operation at time now: counting goes
\* on in a window the store had left, or leaves one it will come back to.
Forgets(s, now) ==
    [w \in Windows |->
        lossy[s][w] \cup {t \in Times : windowStart(w, now) < counters[s][w].start
                                        /\ t \in windowStart(w, now) .. counters[s][w].start}]

\* The usage after dr requests and dt tokens; requests have a minute limit only.
Share(w, dr) == IF w = "minute" THEN dr ELSE 0
Charge(s, now, dr, dt) ==
    [used EXCEPT ![s] = [w \in Windows |-> [t \in Times |->
        IF t = windowStart(w, now)
        THEN [reqs |-> used[s][w][t].reqs + Share(w, dr), toks |-> used[s][w][t].toks + dt]
        ELSE used[s][w][t]]]]

-----------------------------------------------------------------------------
(* The CounterStore: each operation holds m.mu throughout *)

\* A bug in Admits: the request that reaches the limit and one more get in.
AdmitsOneMore(c, l) == \A d \in Exhausted(c, l) : d[1] = "rpm" /\ c["minute"].reqs <= l.rpm

\* The check CheckAndReserve passes to Reserve.
Admits(c, l) == Exhausted(c, l) = {}

\* A bug in Reserve: the request is counted before it is checked.
ReserveThenCheck(s, now, ok) ==
    LET c == roll(counters[s], now)
    IN  /\ counters' = [counters EXCEPT ![s] = [c EXCEPT !["minute"].reqs = @ + 1]]
        /\ used' = IF ok THEN Charge(s, now, 1, 0) ELSE used
        /\ lossy' = [lossy EXCEPT ![s] = Forgets(s, now)]

\* Reserve: the rolled counters are kept on a denial too; ok is the verdict.
Reserve(s, now, ok) ==
    LET c == roll(counters[s], now)
    IN  /\ counters' = [counters EXCEPT ![s] =
                IF ok THEN [c EXCEPT !["minute"].reqs = @ + 1] ELSE c]
        /\ used' = IF ok THEN Charge(s, now, 1, 0) ELSE used
        /\ lossy' = [lossy EXCEPT ![s] = Forgets(s, now)]

AddTokens(s, now, n) ==
    LET c == roll(counters[s], now)
    IN  /\ counters' = [counters EXCEPT ![s] =
                [w \in Windows |-> [c[w] EXCEPT !.toks = @ + n]]]
        /\ used' = Charge(s, now, 0, n)
        /\ lossy' = [lossy EXCEPT ![s] = Forgets(s, now)]

\* Get, as Engine.Usage calls it for the CLI, the admin API, the usage
\* sampler and the Retry-After hint of a denied request.
Get(s) ==
    /\ counters' = [counters EXCEPT ![s] = roll(@, clock)]
    /\ lossy' = [lossy EXCEPT ![s] = Forgets(s, clock)]
    /\ UNCHANGED <<clock, limitVars, reqVars, fileVars, used, crashes>>

-----------------------------------------------------------------------------
(* A request: the global reservation of rateLimitMiddleware, the key's own *)
(* in SubmitAuthorizedJob, the job, and the two charges                    *)

goto(r, l) == pc' = [pc EXCEPT ![r] = l]

\* The request reads the clock, and the limits l; it is done with both.
read(r, l) == at' = [at EXCEPT ![r] = clock] /\ lim' = [lim EXCEPT ![r] = l]
forget(r) == at' = [at EXCEPT ![r] = 0] /\ lim' = [lim EXCEPT ![r] = None]

Disabled(l) == l.rpm = 0 /\ l.tpm = 0

\* CheckAndReserveGlobal up to the mutex.
ReadGlobal(r) ==
    /\ pc[r] = "idle"
    /\ IF Disabled(global)
       THEN goto(r, "key") /\ UNCHANGED <<at, lim>>
       ELSE goto(r, "global") /\ read(r, global)
    /\ UNCHANGED <<clock, limitVars, counters, toks, fileVars, history, crashes>>

\* The rest of it; a denial answers 429 and touches nothing else.
CheckAndReserveGlobal(r) ==
    LET ok == Admits(roll(counters[Global], at[r]), lim[r])
    IN  /\ pc[r] = "global"
        /\ Reserve(Global, at[r], ok)
        /\ goto(r, IF ok THEN "key" ELSE "denied")
        /\ forget(r)
        /\ UNCHANGED <<clock, limitVars, toks, fileVars, crashes>>

effectiveLimits(k) == IF OwnLimits[k] # None THEN OwnLimits[k] ELSE defaults

\* CheckAndReserve up to the mutex.
ReadLimits(r) ==
    /\ pc[r] = "key"
    /\ goto(r, "reserve")
    /\ read(r, effectiveLimits(KeyOf[r]))
    /\ UNCHANGED <<clock, limitVars, counters, toks, fileVars, history, crashes>>

CheckAndReserve(r) ==
    LET k == KeyOf[r]
        ok == Admits(roll(counters[k], at[r]), lim[r])
    IN  /\ pc[r] = "reserve"
        /\ Reserve(k, at[r], ok)
        /\ goto(r, IF ok THEN "run" ELSE "denied")
        /\ forget(r)
        /\ UNCHANGED <<clock, limitVars, toks, fileVars, crashes>>

\* The job returns, and RecordTokens reads the clock; n = 0 records nothing.
Finish(r, n) ==
    /\ pc[r] = "run"
    /\ IF n = 0
       THEN goto(r, "done") /\ UNCHANGED <<at, lim>>
       ELSE goto(r, "charge") /\ read(r, None)
    /\ toks' = [toks EXCEPT ![r] = n]
    /\ UNCHANGED <<clock, limitVars, counters, fileVars, history, crashes>>

RecordTokens(r) ==
    /\ pc[r] = "charge"
    /\ AddTokens(KeyOf[r], at[r], toks[r])
    /\ goto(r, "charged")
    /\ forget(r)
    /\ UNCHANGED <<clock, limitVars, toks, fileVars, crashes>>

\* RecordGlobalTokens up to the mutex.
ReadGlobalAgain(r) ==
    /\ pc[r] = "charged"
    /\ IF Disabled(global)
       THEN goto(r, "done") /\ toks' = [toks EXCEPT ![r] = 0] /\ UNCHANGED <<at, lim>>
       ELSE goto(r, "tally") /\ read(r, None) /\ UNCHANGED toks
    /\ UNCHANGED <<clock, limitVars, counters, fileVars, history, crashes>>

RecordGlobalTokens(r) ==
    /\ pc[r] = "tally"
    /\ AddTokens(Global, at[r], toks[r])
    /\ goto(r, "done")
    /\ forget(r)
    /\ toks' = [toks EXCEPT ![r] = 0]
    /\ UNCHANGED <<clock, limitVars, fileVars, crashes>>

-----------------------------------------------------------------------------
(* Administration, checkpoints, crashes, time *)

SetDefaults(l) ==
    /\ sets > 0
    /\ defaults' = l
    /\ sets' = sets - 1
    /\ UNCHANGED <<clock, global, counters, reqVars, fileVars, history, crashes>>

SetGlobalLimits(l) ==
    /\ sets > 0
    /\ global' = l
    /\ sets' = sets - 1
    /\ UNCHANGED <<clock, defaults, counters, reqVars, fileVars, history, crashes>>

\* Checkpoint, under the mutex: every key that has counters is rolled.
\* Bound: once no crash is left the file would not be read again.
Checkpoint ==
    LET rolled == [s \in Scopes |-> IF counters[s] = ZeroCounters
                                    THEN ZeroCounters ELSE roll(counters[s], clock)]
    IN  /\ snap = None /\ crashes > 0
        /\ counters' = rolled
        /\ snap' = rolled
        /\ lossy' = [s \in Scopes |-> Forgets(s, clock)]
        /\ UNCHANGED <<clock, limitVars, reqVars, disk, used, crashes>>

\* ... and the rename that makes it the file; a write that fails is logged.
Rename ==
    /\ snap # None
    /\ disk' \in {snap, disk}
    /\ snap' = None
    /\ UNCHANGED <<clock, limitVars, counters, reqVars, history, crashes>>

Between(a, b) == {t \in Times : (a <= t /\ t <= b) \/ (b <= t /\ t <= a)}

\* The process dies and a new one loads the checkpoint (LoadCheckpoint).
Restart ==
    /\ crashes > 0
    /\ crashes' = crashes - 1
    /\ counters' = disk
    /\ snap' = None
    /\ pc' = [r \in Requests |-> IF pc[r] \in {"idle", "denied"} THEN pc[r] ELSE "done"]
    /\ at' = [r \in Requests |-> 0]
    /\ lim' = [r \in Requests |-> None]
    /\ toks' = [r \in Requests |-> 0]
    /\ lossy' = [s \in Scopes |-> [w \in Windows |->
            IF disk[s][w] = counters[s][w]
            THEN lossy[s][w]
            ELSE lossy[s][w] \cup Between(disk[s][w].start, counters[s][w].start)]]
    /\ UNCHANGED <<clock, limitVars, disk, used>>

Tick ==
    /\ clock < MaxTime
    /\ clock' = clock + 1
    /\ UNCHANGED <<limitVars, counters, reqVars, fileVars, history, crashes>>

Next ==
    \/ \E r \in Requests :
          \/ ReadGlobal(r) \/ CheckAndReserveGlobal(r)
          \/ ReadLimits(r) \/ CheckAndReserve(r)
          \/ \E n \in 0 .. MaxTokens : Finish(r, n)
          \/ RecordTokens(r) \/ ReadGlobalAgain(r) \/ RecordGlobalTokens(r)
    \/ \E s \in Keys : Get(s)
    \/ \E l \in LimitChoices : SetDefaults(l)
    \/ \E l \in GlobalChoices : SetGlobalLimits(l)
    \/ Checkpoint \/ Rename \/ Restart \/ Tick

Spec == Init /\ [][Next]_vars

-----------------------------------------------------------------------------
(* Properties *)

PCs == {"idle", "global", "key", "reserve", "run", "charge", "charged", "tally",
        "denied", "done"}
CounterMap == [Scopes -> [Windows -> Counter]]

\* Every variable keeps its type.
TypeOK ==
    /\ clock \in Times
    /\ defaults \in LimitChoices /\ global \in GlobalChoices
    /\ counters \in CounterMap
    /\ pc \in [Requests -> PCs]
    /\ at \in [Requests -> Times]
    /\ lim \in [Requests -> Limits \cup {None}]
    /\ toks \in [Requests -> 0 .. MaxTokens]
    /\ snap \in CounterMap \cup {None}
    /\ disk \in CounterMap
    /\ used \in [Scopes -> [Windows -> [Times -> Amount]]]
    /\ lossy \in [Scopes -> [Windows -> SUBSET Times]]
    /\ sets \in Nat /\ crashes \in Nat

Nested(c) ==
    /\ \/ \A w \in Windows : c[w].start = Zero
       \/ /\ c["minute"].start \in Times
          /\ \A w \in Windows : c[w].start = windowStart(w, c["minute"].start)
    /\ c["minute"].toks <= c["day"].toks
    /\ c["day"].toks <= c["month"].toks

\* The three windows of a counter always belong to one instant, aligned to
\* their boundaries, and a longer window has charged at least what the shorter
\* one inside it has.  roll resets each window on its own and AddTokens adds to
\* all three, so this must survive every order of stale clock readings,
\* checkpoints and restarts.
WindowsNested ==
    \A s \in Scopes : Nested(counters[s]) /\ Nested(disk[s])

AtMost(c, u) ==
    \A w \in Windows : c[w].start # Zero =>
        c[w].reqs <= u[w][c[w].start].reqs /\ c[w].toks <= u[w][c[w].start].toks

\* No key is charged, in memory or in the checkpoint, with more than it really
\* used in the counter's window: a roll carries nothing over, and neither a
\* restart nor a late request revives an old window's counts.
NoOvercount ==
    \A s \in Scopes : AtMost(counters[s], used[s]) /\ AtMost(disk[s], used[s])

\* The counters are exact for every window of which nothing was lost, where
\* counts are lost only to a restart from an older checkpoint and to a request
\* that read the clock in an earlier window than the store had reached.
ExactUnlessLossy ==
    \A s \in Scopes, w \in Windows :
        LET c == counters[s][w]
        IN  /\ c.start # Zero /\ c.start \notin lossy[s][w] =>
                  used[s][w][c.start] = [reqs |-> c.reqs, toks |-> c.toks]
            /\ \A t \in Times \ lossy[s][w] :
                  t > c.start => used[s][w][t] = [reqs |-> 0, toks |-> 0]

\* What scope s used in the windows of minute t, shaped like its counters.
Consumed(s, t) == [w \in Windows |-> used[s][w][windowStart(w, t)]]

\* The scope whose counters a request is about to be checked against.
Asked(r) == IF pc[r] = "global" THEN Global ELSE KeyOf[r]
Asking(r) == pc[r] \in {"global", "reserve"}
Admitted(r) == Asking(r) /\ pc'[r] \in {"key", "run"}
Denied(r) == Asking(r) /\ pc'[r] = "denied"

\* CheckAndReserve and CheckAndReserveGlobal admit a request only while none
\* of its limits is reached by the real usage of the window, save in a window
\* whose counts were lost.
AdmitsWithinLimits ==
    [][\A r \in Requests : Admitted(r) =>
          \A d \in Exhausted(Consumed(Asked(r), at[r]), lim[r]) :
              windowStart(d[2], at[r]) \in lossy'[Asked(r)][d[2]]]_vars

\* A request is denied only when the real usage of one of its windows had
\* reached the limit it read: no 429 for usage of another window, of a crashed
\* process or of denied requests.
DeniedOnlyWhenExhausted ==
    [][\A r \in Requests : Denied(r) =>
          Exhausted(Consumed(Asked(r), at[r]), lim[r]) # {}]_vars

\* The Retry-After hint of a denied key is the first moment at which one of
\* the exhausted limits clears: nothing changes before it, something does then.
HintTight ==
    \A k \in Keys, l \in LimitChoices :
        LET c == roll(counters[k], clock)
            u == RetryAfter(c, l, clock)
        IN  Exhausted(c, l) # {} =>
                /\ \A t \in clock .. u - 1 : Exhausted(roll(c, t), l) = Exhausted(c, l)
                /\ u \in Times => Exhausted(roll(c, u), l) # Exhausted(c, l)

\* The counters in memory and in the checkpoint are well formed, nested in
\* time, and never above the real usage.
CountersSound == TypeOK /\ WindowsNested /\ NoOvercount

\* The verdict on a request is just both ways, up to the counts that were lost.
VerdictsJust == AdmitsWithinLimits /\ DeniedOnlyWhenExhausted
=============================================================================
