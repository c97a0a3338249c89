-------------------------------- MODULE Reports --------------------------------
(***************************************************************************)
(* What an operator reads: the log ring with its query and its live tail,  *)
(* the paged lists, the usage series with its forecast, and the request    *)
(* telemetry.  Each is read while it is being written.                     *)
(***************************************************************************)
EXTENDS Integers, Sequences, FiniteSets, FiniteSetsExt, TLC

CONSTANTS
    Nil,
    RingCap,     \* capacity of the log ring
    MaxLines,    \* bound on the lines logged
    Items,       \* what a paged list can hold, in its order
    PageSize,    \* the largest page
    MaxDays,     \* days a usage series keeps
    Horizon,     \* bound on the days that pass
    DayTokens,   \* bound on the tokens of a day
    Recorders,   \* requests whose latency is recorded
    Latency,     \* and how long each took
    Cards        \* the workers' reports: type, memory, load, status

VARIABLES
    logs,    \* the ring, the level in force, one tail
    walk,    \* a list, and a client that pages through it
    series,  \* the clock, a key's tokens of the day, its series, the samplers
    stats,   \* the telemetry counters, and the requests updating them
    gauge    \* the workers a capacity report or a scrape reads

reportsVars == <<logs, walk, series, stats, gauge>>

\* The server's ring has room: logRingCapacity.
ASSUME ReportsConstants == RingCap \in Nat \ {0}

-----------------------------------------------------------------------------
(* The log ring *)

newLogRing == [buf |-> [i \in 0 .. RingCap - 1 |-> Nil], next |-> 0, full |-> FALSE, count |-> 0]

append(ring, rec) ==
    LET next == (ring.next + 1) % RingCap IN
    [buf |-> [ring.buf EXCEPT ![ring.next] = rec], next |-> next,
     full |-> ring.full \/ next = 0, count |-> ring.count + 1]

\* Oldest first.
snapshotLocked(ring) ==
    IF ring.full THEN [i \in 1 .. RingCap |-> ring.buf[(ring.next + i - 1) % RingCap]]
    ELSE [i \in 1 .. ring.next |-> ring.buf[i - 1]]

SnapshotCount(ring) == [lines |-> snapshotLocked(ring), count |-> ring.count]

LevelRank(level) == IF level = "error" THEN 8 ELSE 0

LogsInit == logs = [ring |-> newLogRing, level |-> "info", all |-> <<>>,
                    tail |-> [open |-> FALSE, from |-> 0, last |-> 0, min |-> "info", got |-> <<>>],
                    polls |-> {}]

\* A line below the level in force reaches neither the output nor the ring.
Enabled(level) == LevelRank(level) >= LevelRank(logs.level)
Log(level) ==
    /\ logs.ring.count < MaxLines /\ Enabled(level)
    /\ LET rec == [id |-> logs.ring.count + 1, level |-> level] IN
       logs' = [logs EXCEPT !.ring = append(@, rec), !.all = Append(@, rec)]
    /\ UNCHANGED <<walk, series, stats, gauge>>

SetLevel(level) == logs.level # level /\ logs' = [logs EXCEPT !.level = level] /\ UNCHANGED <<walk, series, stats, gauge>>

matches(min, rec) == LevelRank(rec.level) >= LevelRank(min)

\* GET /v1/admin/logs, newest first.
handleAdminLogs(min) ==
    LET shown == SelectSeq(snapshotLocked(logs.ring), LAMBDA rec : matches(min, rec)) IN
    [i \in DOMAIN shown |-> shown[Len(shown) - i + 1]]

\* The tail starts at the lines still to come.
handleAdminLogsStream(min) ==
    /\ ~ logs.tail.open
    /\ logs' = [logs EXCEPT !.polls = {}, !.tail =
          [open |-> TRUE, from |-> logs.ring.count, last |-> logs.ring.count, min |-> min, got |-> <<>>]]
    /\ UNCHANGED <<walk, series, stats, gauge>>

\* A poll forwards what is new since the last one.
\* A bug: the lines that scrolled off are not allowed for.
emitUnclamped ==
    /\ logs.tail.open /\ logs.ring.count > logs.tail.last
    /\ LET snap == SnapshotCount(logs.ring)
           first == Len(snap.lines) - (snap.count - logs.tail.last) + 1
           fresh == SubSeq(snap.lines, IF first < 1 THEN 2 ELSE first, Len(snap.lines)) IN
       logs' = [logs EXCEPT !.polls = @ \cup {snap.count}, !.tail.last = snap.count,
                   !.tail.got = @ \o SelectSeq(fresh, LAMBDA rec : matches(logs.tail.min, rec))]
    /\ UNCHANGED <<walk, series, stats, gauge>>
emitNewLogs ==
    /\ logs.tail.open /\ logs.ring.count > logs.tail.last
    /\ LET snap == SnapshotCount(logs.ring)
           newN == Min({snap.count - logs.tail.last, Len(snap.lines)})
           fresh == SubSeq(snap.lines, Len(snap.lines) - newN + 1, Len(snap.lines)) IN
       logs' = [logs EXCEPT !.polls = @ \cup {snap.count}, !.tail.last = snap.count,
                   !.tail.got = @ \o SelectSeq(fresh, LAMBDA rec : matches(logs.tail.min, rec))]
    /\ UNCHANGED <<walk, series, stats, gauge>>

TailCloses == logs.tail.open /\ logs' = [logs EXCEPT !.tail.open = FALSE] /\ UNCHANGED <<walk, series, stats, gauge>>

LogsNext ==
    \/ \E level \in {"info", "error"} : Log(level) \/ SetLevel(level) \/ handleAdminLogsStream(level)
    \/ emitNewLogs \/ TailCloses

-----------------------------------------------------------------------------
(* Paged lists *)

\* An unusable limit is the default, here the largest page.
parsePageParams(limit) == IF limit \in 1 .. PageSize THEN limit ELSE PageSize

\* The cursor is the offset; what is no cursor is the start.
encodeCursor(offset) == <<offset>>
decodeCursor(cursor) == IF Len(cursor) = 1 /\ cursor[1] >= 0 THEN cursor[1] ELSE 0

paginate(items, limit, offset) ==
    IF offset >= Len(items) THEN [page |-> <<>>, next |-> <<>>]
    ELSE LET end == Min({offset + limit, Len(items)}) IN
         [page |-> SubSeq(items, offset + 1, end),
          next |-> IF end < Len(items) THEN encodeCursor(end) ELSE <<>>]

\* The members of a set of numbers, in order.
Sorted(set) == [k \in 1 .. Cardinality(set) |-> CHOOSE x \in set : Cardinality({y \in set : y < x}) = k - 1]

WalkInit == \E items \in SUBSET Items, limit \in 0 .. PageSize + 1 :
    walk = [items |-> items, limit |-> limit, cursor |-> <<>>, got |-> <<>>, pc |-> "walking",
            start |-> items, added |-> {}, gone |-> {}]

\* The client asks for the next page until there is none.
Page ==
    /\ walk.pc = "walking"
    /\ LET p == paginate(Sorted(walk.items), parsePageParams(walk.limit), decodeCursor(walk.cursor)) IN
       walk' = [walk EXCEPT !.got = @ \o p.page, !.cursor = p.next,
                            !.pc = IF p.next = <<>> THEN "done" ELSE "walking"]
    /\ UNCHANGED <<logs, series, stats, gauge>>

ItemAdded(x) ==
    /\ walk.pc = "walking" /\ x \notin walk.items \cup walk.gone
    /\ walk' = [walk EXCEPT !.items = @ \cup {x}, !.added = @ \cup {x}]
    /\ UNCHANGED <<logs, series, stats, gauge>>
ItemDeleted(x) ==
    /\ walk.pc = "walking" /\ x \in walk.items
    /\ walk' = [walk EXCEPT !.items = @ \ {x}, !.gone = @ \cup {x}]
    /\ UNCHANGED <<logs, series, stats, gauge>>

WalkNext == Page \/ \E x \in Items : ItemAdded(x) \/ ItemDeleted(x)

-----------------------------------------------------------------------------
(* The usage series *)

\* The sampling goroutine, and the sample taken on the way out.
Samplers == {"ticker", "exit"}

SeriesInit == series = [day |-> 1, today |-> 0, kept |-> <<>>, overlap |-> FALSE, max |-> 0,
                        sampler |-> [x \in Samplers |-> [pc |-> "idle", tokens |-> 0, day |-> 0]]]

Use ==
    /\ series.today < DayTokens
    /\ series' = [series EXCEPT !.today = @ + 1, !.max = Max({@, series.today + 1})]
    /\ UNCHANGED <<logs, walk, stats, gauge>>

\* Midnight: the daily counter starts again.
Midnight ==
    /\ series.day < Horizon
    /\ series' = [series EXCEPT !.day = @ + 1, !.today = 0]
    /\ UNCHANGED <<logs, walk, stats, gauge>>

\* UsageForKey; then the time is taken; then the sample is stored.
ReadUsage(x) ==
    /\ series.sampler[x].pc = "idle" /\ (x = "ticker" => series.sampler["exit"].pc # "gone")
    /\ series' = [series EXCEPT !.sampler[x] = [pc |-> "read", tokens |-> series.today, day |-> 0],
                    !.overlap = @ \/ \E y \in Samplers \ {x} : series.sampler[y].pc \in {"read", "stamped"}]
    /\ UNCHANGED <<logs, walk, stats, gauge>>
StampUsage(x) ==
    /\ series.sampler[x].pc = "read"
    /\ series' = [series EXCEPT !.sampler[x].pc = "stamped", !.sampler[x].day = series.day]
    /\ UNCHANGED <<logs, walk, stats, gauge>>

\* The day's sample is replaced, or a new day appended and the oldest dropped.
Record(kept, s) ==
    IF kept # <<>> /\ kept[Len(kept)].day = s.day THEN [kept EXCEPT ![Len(kept)] = s]
    ELSE LET all == Append(kept, s) IN
         IF Len(all) > MaxDays THEN SubSeq(all, Len(all) - MaxDays + 1, Len(all)) ELSE all
StoreUsage(x) ==
    /\ series.sampler[x].pc = "stamped"
    /\ LET s == series.sampler[x] IN
       series' = [series EXCEPT !.kept = Record(@, [day |-> s.day, tokens |-> s.tokens]),
                                !.sampler[x] = [pc |-> IF x = "exit" THEN "gone" ELSE "idle", tokens |-> 0, day |-> 0]]
    /\ UNCHANGED <<logs, walk, stats, gauge>>

\* The process ends, and the next one reads the series back, sorted by day
\* and trimmed.
LoadSeries ==
    /\ series.sampler["exit"].pc = "gone"
    /\ series' = [series EXCEPT !.sampler = [x \in Samplers |-> [pc |-> "idle", tokens |-> 0, day |-> 0]], !.kept =
          LET byDay == SortSeq(@, LAMBDA a, b : a.day < b.day) IN
          SubSeq(byDay, Max({1, Len(byDay) - MaxDays + 1}), Len(byDay))]
    /\ UNCHANGED <<logs, walk, stats, gauge>>

SeriesNext ==
    \/ Use \/ Midnight \/ LoadSeries
    \/ \E x \in Samplers : ReadUsage(x) \/ StampUsage(x) \/ StoreUsage(x)

\* Tokens per day over the days spanned, as a fraction; Nil when there is none.
dailyBurnRate(kept) ==
    LET days == kept[Len(kept)].day - kept[1].day
        total == MapThenSumSet(LAMBDA i : kept[i].tokens, 2 .. Len(kept)) IN
    IF Len(kept) < 2 THEN Nil
    ELSE IF days < 1 \/ total = 0 THEN Nil
    ELSE [tokens |-> total, days |-> days]

\* When a budget runs out, in days from now as a fraction; Nil for no estimate.
\* A daily estimate after the next reset is left out.
Project(kept, limit, used, left) ==
    LET rate == dailyBurnRate(kept) IN
    IF rate = Nil \/ limit = 0 \/ used >= limit THEN Nil
    ELSE LET at == [num |-> (limit - used) * rate.days, den |-> rate.tokens] IN
         IF at.num > left * at.den THEN Nil ELSE at

-----------------------------------------------------------------------------
(* Request telemetry *)

Bounds == <<1, 2>>    \* bucket bounds

StatsInit == stats = [count |-> 0, sum |-> 0, max |-> 0, buckets |-> [i \in DOMAIN Bounds |-> 0],
                      rec |-> [r \in Recorders |-> [pc |-> "new", seen |-> 0]]]

recAt(r, pc) == stats.rec[r].pc = pc

\* record: atomic updates, one after the other.
recordCount(r) ==
    /\ recAt(r, "new")
    /\ stats' = [stats EXCEPT !.count = @ + 1, !.rec[r].pc = "sum"]
    /\ UNCHANGED <<logs, walk, series, gauge>>
recordSum(r) ==
    /\ recAt(r, "sum")
    /\ stats' = [stats EXCEPT !.sum = @ + Latency[r], !.rec[r].pc = "load"]
    /\ UNCHANGED <<logs, walk, series, gauge>>
recordLoad(r) ==
    /\ recAt(r, "load")
    /\ stats' = [stats EXCEPT !.rec[r] = [pc |-> IF Latency[r] <= stats.max THEN "buckets" ELSE "swap",
                                          seen |-> stats.max]]
    /\ UNCHANGED <<logs, walk, series, gauge>>
\* The swap is retried when another request was faster.
recordSwap(r) ==
    /\ recAt(r, "swap")
    /\ stats' = IF stats.max = stats.rec[r].seen
                THEN [stats EXCEPT !.max = Latency[r], !.rec[r].pc = "buckets"]
                ELSE [stats EXCEPT !.rec[r].pc = "load"]
    /\ UNCHANGED <<logs, walk, series, gauge>>
recordBuckets(r) ==
    /\ recAt(r, "buckets")
    /\ stats' = [stats EXCEPT !.rec[r].pc = "done", !.buckets =
                    [i \in DOMAIN Bounds |-> @[i] + IF Latency[r] <= Bounds[i] THEN 1 ELSE 0]]
    /\ UNCHANGED <<logs, walk, series, gauge>>

StatsNext == \E r \in Recorders : recordCount(r) \/ recordSum(r) \/ recordLoad(r)
                                  \/ recordSwap(r) \/ recordBuckets(r)

-----------------------------------------------------------------------------
(* Capacity *)

GaugeInit == gauge = <<>>

\* A worker joins, or reports anew; one leaves.
Report(card) == Len(gauge) < 3 /\ gauge' = Append(gauge, card) /\ UNCHANGED <<logs, walk, series, stats>>
Leave(i) == gauge' = SubSeq(gauge, 1, i - 1) \o SubSeq(gauge, i + 1, Len(gauge)) /\ UNCHANGED <<logs, walk, series, stats>>
GaugeNext == (\E card \in Cards : Report(card)) \/ \E i \in DOMAIN gauge : Leave(i)

Total(fleet, f(_)) == MapThenSumSet(LAMBDA i : f(fleet[i]), DOMAIN fleet)
TypesOf(fleet) == {w.type : w \in Range(fleet)}

\* GET /v1/admin/gpus: the totals, and a row for each type.
aggregateGPUs(fleet) ==
    [vram |-> Total(fleet, LAMBDA w : w.vram), free |-> Total(fleet, LAMBDA w : w.free),
     mean |-> IF fleet = <<>> THEN 0 ELSE Total(fleet, LAMBDA w : w.load) \div Len(fleet),
     max |-> Max({w.load : w \in Range(fleet)} \cup {0}),
     byType |-> [t \in TypesOf(fleet) |->
        LET mine == SelectSeq(fleet, LAMBDA w : w.type = t) IN
        [count |-> Len(mine), vram |-> Total(mine, LAMBDA w : w.vram), free |-> Total(mine, LAMBDA w : w.free)]]]

\* The scrape's worker counts, from the same kind of snapshot.
collectFleet(fleet) == [s \in {"online", "draining", "offline"} |->
                           Len(SelectSeq(fleet, LAMBDA w : w.status = s))]

-----------------------------------------------------------------------------
(* Properties *)

\* The query shows the newest lines there are, newest first.
RingHoldsNewest ==
    LET n == Len(logs.all) IN
    handleAdminLogs("info") = [i \in 1 .. Min({n, RingCap}) |-> logs.all[n - i + 1]]

\* A tail forwards every line logged since it opened that passes its filter,
\* once and in order.  It misses exactly those that had scrolled off the ring
\* by the first poll after them.
TailExact ==
    LET t == logs.tail
        Poll(x) == Min({p \in logs.polls : p >= x})
        due == {x \in t.from + 1 .. t.last : matches(t.min, logs.all[x]) /\ Poll(x) - x < RingCap}
    IN [i \in DOMAIN t.got |-> t.got[i].id] = Sorted(due)

\* A client that walks a list to its end sees, in order and once, exactly what
\* it holds, if nothing changed.  Otherwise an item that was there throughout
\* is missed only when one before it was removed, and seen twice only when one
\* before it was inserted.
WalkExact == walk.pc = "done" =>
    /\ walk.added \cup walk.gone = {} => walk.got = Sorted(walk.items)
    /\ \A x \in walk.start \ walk.gone :
          /\ x \in Range(walk.got) \/ \E y \in walk.gone : y < x
          /\ Cardinality({i \in DOMAIN walk.got : walk.got[i] = x}) > 1 =>
                \E y \in walk.added : y < x

\* The series is in the order of its days, one sample for each, none in the
\* future, as long as no two samplers ran at once.
SeriesByDay ==
    /\ Len(series.kept) <= MaxDays
    /\ ~ series.overlap => \A i, j \in DOMAIN series.kept :
          series.kept[i].day <= series.day /\ (i < j => series.kept[i].day < series.kept[j].day)

\* The forecast does not overstate: the rate it projects is at most what the
\* key ever used in a day, and a daily estimate is never past the reset.
ForecastSane ==
    LET rate == dailyBurnRate(series.kept)
        at == Project(series.kept, DayTokens, series.today, 1) IN
    /\ rate # Nil /\ ~ series.overlap => rate.tokens <= series.max * rate.days
    /\ at # Nil => at.num > 0 /\ at.num <= at.den

\* When no request is being recorded, count, sum, maximum and buckets are
\* those of the requests recorded: no concurrent update is lost.
StatsExact ==
    LET done == {r \in Recorders : recAt(r, "done")} IN
    (\A r \in Recorders : recAt(r, "new") \/ recAt(r, "done")) =>
        /\ stats.count = Cardinality(done)
        /\ stats.sum = MapThenSumSet(LAMBDA r : Latency[r], done)
        /\ stats.max = IF done = {} THEN 0 ELSE Max({Latency[r] : r \in done})
        /\ \A i \in DOMAIN Bounds : stats.buckets[i] = Cardinality({r \in done : Latency[r] <= Bounds[i]})

\* The capacity report adds up: the rows by type make the fleet's totals, the
\* statuses of a scrape make its workers, and the mean load is the loads'
\* share, between none and the largest, also when the fleet is empty.
TotalsAgree ==
    LET r == aggregateGPUs(gauge)
        Row(f(_)) == MapThenSumSet(LAMBDA t : f(r.byType[t]), DOMAIN r.byType)
        by == collectFleet(gauge)
    IN /\ Row(LAMBDA x : x.count) = Len(gauge) /\ by["online"] + by["draining"] + by["offline"] = Len(gauge)
       /\ Row(LAMBDA x : x.vram) = r.vram /\ Row(LAMBDA x : x.free) = r.free /\ r.free <= r.vram
       /\ LET loads == Total(gauge, LAMBDA w : w.load) IN
          r.mean <= r.max /\ r.mean * Len(gauge) <= loads /\ (gauge # <<>> => loads < (r.mean + 1) * Len(gauge))

\* Every reading an operator takes is true of the system it was taken from.
ReadingsTrue ==
    RingHoldsNewest /\ TailExact /\ WalkExact /\ SeriesByDay /\ ForecastSane /\ StatsExact /\ TotalsAgree
=============================================================================
