------------------------------- MODULE Scheduler -------------------------------
(***************************************************************************)
(* internal/scheduler: where a job is placed.                               *)
(*                                                                         *)
(* The scheduler is pure; the module runs it over fleets that change       *)
(* between the turns of a conversation, which binds itself to the worker   *)
(* of its last turn.  Worker ids are integers, whose order is that of the  *)
(* strings, and memory is counted in quarters of a GiB.                    *)
(***************************************************************************)
EXTENDS Integers, Sequences, FiniteSets

CONSTANTS
    Machines,     \* the workers' ids
    Snapshots     \* what a worker may report: status, models, memory, load, jobs

\* The ranges the weights are made for: the load is a percentage, a worker runs
\* one job and queues a few, and no host has 10,000 GiB of free memory.
ASSUME SchedulerConstants ==
    /\ Machines \subseteq Nat \ {0}
    /\ \A w \in Snapshots : /\ w.freeVRAM \in Nat /\ w.freeVRAM < 40000
                            /\ w.load \in Nat /\ w.load <= 100
                            /\ w.activeJobs \in Nat /\ w.activeJobs < 50

VARIABLE pool     \* the fleet, the model of the turn, the bound worker

NoWorker == 0
TurnModels == {"m1", "m2"}

weightModelLoaded == 1000000000
freeVRAMUnit == 4
weightFreeVRAMPerGiB == 10000
\* A bug: a loaded worker loses more than a GiB counts for.
weightLoadHeavy == 500
weightLoadPenalty == 50
weightActiveJobPenalty == 1
weightBoundWorkerBonus == 100000000

hasModel(w, model) == model \in w.models
runnable(w, model) == w.status = "online" /\ (hasModel(w, model) \/ w.freeVRAM > 0)

Score(w, model) ==
    (IF hasModel(w, model) THEN weightModelLoaded ELSE 0)
    + (w.freeVRAM \div freeVRAMUnit) * weightFreeVRAMPerGiB
    - w.load * weightLoadPenalty - w.activeJobs * weightActiveJobPenalty

Candidates(fleet, model) == {id \in DOMAIN fleet : runnable(fleet[id], model)}

\* The best score, and the smallest id among equals.
PickPreferring(fleet, model, preferred) ==
    LET ids == Candidates(fleet, model)
        scoreFor(id) == Score(fleet[id], model) + (IF id = preferred THEN weightBoundWorkerBonus ELSE 0)
    IN  IF ids = {} THEN NoWorker
        ELSE CHOOSE id \in ids : \A other \in ids \ {id} :
                 \/ scoreFor(other) < scoreFor(id)
                 \/ scoreFor(other) = scoreFor(id) /\ id < other
Pick(fleet, model) == PickPreferring(fleet, model, NoWorker)

-----------------------------------------------------------------------------

PoolInit == pool = [fleet |-> <<>>, bound |-> NoWorker, turn |-> "m1"]

\* A worker connects or reports.
Reported(id, w) ==
    pool' = [pool EXCEPT !.fleet =
                [i \in DOMAIN @ \cup {id} |-> IF i = id THEN w ELSE pool.fleet[i]]]
Departed(id) ==
    /\ id \in DOMAIN pool.fleet
    /\ pool' = [pool EXCEPT !.fleet = [i \in DOMAIN @ \ {id} |-> pool.fleet[i]]]

\* A turn that is placed binds its conversation; one that is not waits.
PlaceTurn ==
    LET id == PickPreferring(pool.fleet, pool.turn, pool.bound) IN
    id # NoWorker /\ pool' = [pool EXCEPT !.bound = id]
\* The conversation goes on with another model.
OtherModel == \E m \in TurnModels \ {pool.turn} : pool' = [pool EXCEPT !.turn = m]

PoolNext ==
    \/ \E id \in Machines, w \in Snapshots : Reported(id, w)
    \/ \E id \in Machines : Departed(id)
    \/ PlaceTurn
    \/ OtherModel

-----------------------------------------------------------------------------

\* The order the package documents, term by term.
Merits(id, preferred) ==
    LET w == pool.fleet[id] IN
    <<IF hasModel(w, pool.turn) THEN 1 ELSE 0, IF id = preferred THEN 1 ELSE 0,
      w.freeVRAM \div freeVRAMUnit, 0 - w.load, 0 - w.activeJobs, 0 - id>>
Below(s, t) == \E k \in DOMAIN s : s[k] < t[k] /\ \A j \in 1 .. k - 1 : s[j] = t[j]

\* The worker picked is the first by locality, then affinity, then free memory,
\* then load, then jobs, then id, each term deciding only where all before it
\* tie: the sum of the weights is that order as long as reports stay within
\* SchedulerConstants.  None is picked only if none can run.
PickIsBest ==
    LET able == Candidates(pool.fleet, pool.turn)
        First(id, preferred) ==
            IF able = {} THEN id = NoWorker
            ELSE id \in able /\ \A other \in able \ {id} : Below(Merits(other, preferred), Merits(id, preferred))
    IN  /\ First(PickPreferring(pool.fleet, pool.turn, pool.bound), pool.bound)
        /\ First(Pick(pool.fleet, pool.turn), NoWorker)

\* A conversation stays on its worker while that worker can run the turn, unless
\* the turn's model is loaded elsewhere and not there (weightBoundWorkerBonus).
StaysWarm ==
    [][pool'.bound # pool.bound /\ pool.bound \in Candidates(pool.fleet, pool.turn) =>
          /\ ~hasModel(pool.fleet[pool.bound], pool.turn)
          /\ hasModel(pool.fleet[pool'.bound], pool.turn)]_pool
=============================================================================
