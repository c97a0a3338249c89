---------------------------- MODULE ProcessProofs ----------------------------
(***************************************************************************)
(* Proofs about the scheduler, the server process and the settings, each   *)
(* by itself; ServiceProofs puts them together.                            *)
(*                                                                         *)
(* Placement: the sum of weighted terms that Score computes orders workers *)
(* as the six terms do one after the other (AheadIsBetter), so the worker  *)
(* PickPreferring chooses, which exists whenever one can run the model     *)
(* (PickAhead), is the first in the documented order.                      *)
(*                                                                         *)
(* The process: a clean exit means that every file holds what the process  *)
(* held.  ProcInv says how far the last checkpoint has come (Saved): the   *)
(* files before the one being written hold the final values, and nothing   *)
(* writes to memory any more once every server has stopped.                *)
(*                                                                         *)
(* The settings: a command that has started holds what its resolvers gave  *)
(* it (ConfOK), and what they give is usable whatever flags and variables  *)
(* hold (SettingsSound).                                                   *)
(***************************************************************************)
EXTENDS Process, Scheduler, Config, WellFoundedInduction, TLAPS

(* Sequences: their members, and the ones of what Append, Tail, \o and     *)
(* SubSeq give.                                                            *)
LEMMA SeqLen ==
    ASSUME NEW S, NEW q \in Seq(S)
    PROVE  /\ Len(q) \in Nat /\ DOMAIN q = 1 .. Len(q) /\ q \in [1 .. Len(q) -> S]
           /\ \A i \in 1 .. Len(q) : q[i] \in S
OBVIOUS

LEMMA SeqTail ==
    ASSUME NEW S, NEW q \in Seq(S), q # <<>>
    PROVE  /\ Head(q) \in S /\ Tail(q) \in Seq(S) /\ Len(Tail(q)) = Len(q) - 1
           /\ \A i \in 1 .. Len(Tail(q)) : Tail(q)[i] = q[i + 1]
OBVIOUS

LEMMA SeqSame ==
    ASSUME NEW S, NEW q \in Seq(S), NEW t \in Seq(S), Len(q) = Len(t), \A i \in 1 .. Len(q) : q[i] = t[i]
    PROVE  q = t
<1>1. q \in [1 .. Len(q) -> S] /\ t \in [1 .. Len(q) -> S]
  BY SeqLen
<1> QED BY <1>1

-----------------------------------------------------------------------------
(* Placement *)

\* The fleet is made of reports, by worker.
PoolOK ==
    /\ pool \in [fleet : UNION {[D -> Snapshots] : D \in SUBSET Machines},
                 bound : Machines \cup {NoWorker}, turn : TurnModels]

(* A set of naturals that is not empty has a least member.                 *)
LEMMA LeastOfNat ==
    ASSUME NEW S \in SUBSET Nat, S # {} PROVE \E x \in S : \A y \in S : x <= y
<1> DEFINE Lt == {ss \in Nat \X Nat : ss[1] < ss[2]}
<1>1. OpToRel(<, Nat) = Lt
  BY Zenon DEF OpToRel
<1>2. IsWellFoundedOn(Lt, Nat)
  BY <1>1, NatLessThanWellFounded, Zenon
<1>3. PICK x \in S : \A y \in S : ~(<<y, x>> \in Lt)
  <2> HIDE DEF Lt
  <2> QED BY <1>2, WFMin, Zenon
<1>4. ASSUME NEW y \in S PROVE x <= y
  <2>1. <<y, x>> \in Nat \X Nat /\ <<y, x>>[1] = y /\ <<y, x>>[2] = x
    BY Zenon
  <2>2. ~(y < x)
    BY <1>3, <2>1, Zenon
  <2> QED BY <2>2
<1> QED BY <1>4, Zenon

\* The score of a worker, with the bonus of the one its session is bound to.
Worth(fleet, model, preferred, id) ==
    Score(fleet[id], model) + (IF id = preferred THEN weightBoundWorkerBonus ELSE 0)

Loaded(w, model) == IF hasModel(w, model) THEN 1 ELSE 0
Bonus(id, preferred) == IF id = preferred THEN 1 ELSE 0
WholeGiB(w) == w.freeVRAM \div freeVRAMUnit

\* A total is made of the five terms, each in its range.
LEMMA TotalParts ==
    ASSUME NEW fleet, NEW id, NEW model, NEW preferred, fleet[id] \in Snapshots
    PROVE  LET w == fleet[id] IN
           /\ Loaded(w, model) \in Int /\ 0 <= Loaded(w, model) /\ Loaded(w, model) <= 1
           /\ Bonus(id, preferred) \in Int /\ 0 <= Bonus(id, preferred) /\ Bonus(id, preferred) <= 1
           /\ WholeGiB(w) \in Int /\ 0 <= WholeGiB(w) /\ WholeGiB(w) <= 9999
           /\ w.load \in Int /\ 0 <= w.load /\ w.load <= 100
           /\ w.activeJobs \in Int /\ 0 <= w.activeJobs /\ w.activeJobs <= 49
           /\ Worth(fleet, model, preferred, id) =
                Loaded(w, model) * weightModelLoaded + Bonus(id, preferred) * weightBoundWorkerBonus
                + WholeGiB(w) * weightFreeVRAMPerGiB - w.load * weightLoadPenalty
                - w.activeJobs * weightActiveJobPenalty
<1> DEFINE w == fleet[id]
<1>0. /\ w.freeVRAM \in Int /\ 0 <= w.freeVRAM /\ w.freeVRAM <= 39999
      /\ w.load \in Int /\ 0 <= w.load /\ w.load <= 100
      /\ w.activeJobs \in Int /\ 0 <= w.activeJobs /\ w.activeJobs <= 49
  BY SchedulerConstants, SMT
<1>1. Loaded(w, model) \in Int /\ 0 <= Loaded(w, model) /\ Loaded(w, model) <= 1
  BY DEF Loaded
<1>2. Bonus(id, preferred) \in Int /\ 0 <= Bonus(id, preferred) /\ Bonus(id, preferred) <= 1
  BY DEF Bonus
<1>3. WholeGiB(w) \in Int /\ 0 <= WholeGiB(w) /\ WholeGiB(w) <= 9999
  BY <1>0, SMT DEF WholeGiB, freeVRAMUnit
<1>4. Worth(fleet, model, preferred, id) =
        (IF hasModel(w, model) THEN weightModelLoaded ELSE 0) + WholeGiB(w) * weightFreeVRAMPerGiB
        - w.load * weightLoadPenalty - w.activeJobs * weightActiveJobPenalty
        + (IF id = preferred THEN weightBoundWorkerBonus ELSE 0)
  BY Zenon DEF Worth, Score, WholeGiB
<1>5. (IF hasModel(w, model) THEN weightModelLoaded ELSE 0) = Loaded(w, model) * weightModelLoaded
  BY SMT DEF Loaded, weightModelLoaded
<1>6. (IF id = preferred THEN weightBoundWorkerBonus ELSE 0) = Bonus(id, preferred) * weightBoundWorkerBonus
  BY SMT DEF Bonus, weightBoundWorkerBonus
<1>7. Worth(fleet, model, preferred, id) =
        Loaded(w, model) * weightModelLoaded + Bonus(id, preferred) * weightBoundWorkerBonus
        + WholeGiB(w) * weightFreeVRAMPerGiB - w.load * weightLoadPenalty
        - w.activeJobs * weightActiveJobPenalty
  <2> HIDE DEF w
  <2> QED BY <1>0, <1>1, <1>2, <1>3, <1>4, <1>5, <1>6, SMTT(30) DEF weightModelLoaded,
          weightBoundWorkerBonus, weightFreeVRAMPerGiB, weightLoadPenalty, weightActiveJobPenalty
<1> QED BY <1>0, <1>1, <1>2, <1>3, <1>7, SMT

LEMMA MachineIds == Machines \subseteq Nat /\ NoWorker \notin Machines
  BY SchedulerConstants, SMT DEF NoWorker

\* The second worker is ahead of the first: a better total, or the same and a
\* smaller id.
Ahead(fleet, model, preferred, other, id) ==
    \/ Worth(fleet, model, preferred, other) < Worth(fleet, model, preferred, id)
    \/ /\ Worth(fleet, model, preferred, other) = Worth(fleet, model, preferred, id)
       /\ id < other

\* Above every total.
ScoreMax == 2000000000

\* A fleet of reports.
FleetOK(fleet) == DOMAIN fleet \subseteq Machines /\ \A i \in DOMAIN fleet : fleet[i] \in Snapshots

\* Among workers that can run the model there is one ahead of all others, and
\* it is the one picked.
LEMMA PickAhead ==
    ASSUME NEW fleet, NEW model, NEW preferred, FleetOK(fleet), Candidates(fleet, model) # {}
    PROVE  /\ PickPreferring(fleet, model, preferred) \in Candidates(fleet, model)
           /\ \A other \in Candidates(fleet, model) \ {PickPreferring(fleet, model, preferred)} :
                 Ahead(fleet, model, preferred, other, PickPreferring(fleet, model, preferred))
<1> DEFINE ids == Candidates(fleet, model)
           T(id) == Worth(fleet, model, preferred, id)
           Lack(id) == ScoreMax - T(id)
<1>1. ids \subseteq Nat /\ ids # {} /\ \A id \in ids : fleet[id] \in Snapshots
  <2>1. ids \subseteq DOMAIN fleet
    BY Zenon DEF Candidates
  <2>2. ids \subseteq Nat
    BY <2>1, MachineIds, Zenon DEF FleetOK
  <2>3. \A id \in ids : fleet[id] \in Snapshots
    BY <2>1, Zenon DEF FleetOK
  <2> QED BY <2>2, <2>3
<1>2. ASSUME NEW id \in ids PROVE T(id) \in Int /\ Lack(id) \in Nat
  <2>1. fleet[id] \in Snapshots
    BY <1>1
  <2> QED BY <2>1, TotalParts, SMT DEF ScoreMax, weightModelLoaded, weightBoundWorkerBonus, weightFreeVRAMPerGiB,
             weightLoadPenalty, weightActiveJobPenalty
<1>3. PICK m \in {Lack(id) : id \in ids} : \A n \in {Lack(id) : id \in ids} : m <= n
  <2> HIDE DEF Lack, ids
  <2>1. {Lack(id) : id \in ids} \in SUBSET Nat /\ {Lack(id) : id \in ids} # {}
    BY <1>1, <1>2, Zenon
  <2> QED BY <2>1, LeastOfNat, Zenon
<1> DEFINE best == {id \in ids : Lack(id) = m}
<1>4. PICK b \in best : \A c \in best : b <= c
  <2> HIDE DEF Lack, ids
  <2>1. best \in SUBSET Nat /\ best # {}
    BY <1>1, <1>3
  <2> QED BY <2>1, LeastOfNat, Zenon
<1>5. b \in ids /\ \A other \in ids \ {b} : Ahead(fleet, model, preferred, other, b)
  <2>1. b \in ids /\ Lack(b) = m
    BY <1>4
  <2>2. ASSUME NEW other \in ids \ {b} PROVE Ahead(fleet, model, preferred, other, b)
    <3>1. /\ T(other) \in Int /\ T(b) \in Int /\ other \in Nat /\ b \in Nat /\ other # b
      BY <1>1, <1>2, <2>1
    <3>2. Lack(b) <= Lack(other)
      BY <1>3, <2>1
    <3>3. Lack(b) = Lack(other) => b <= other
      BY <1>4, <2>1
    <3> HIDE DEF ids, T
    <3>4. T(other) < T(b) \/ (T(other) = T(b) /\ b < other)
      BY <3>1, <3>2, <3>3, SMT DEF ScoreMax
    <3> QED BY <3>4 DEF Ahead, T
  <2> QED BY <2>1, <2>2
<1> HIDE DEF ids
<1>6. PickPreferring(fleet, model, preferred)
        = CHOOSE id \in ids : \A other \in ids \ {id} : Ahead(fleet, model, preferred, other, id)
  BY <1>1, Zenon DEF PickPreferring, Ahead, Worth, ids
<1> QED BY <1>5, <1>6, Zenon DEF ids

\* The worker ahead by its total is the better one, term by term: a lower term
\* of the score never outweighs a higher.
LEMMA AheadIsBetter ==
    ASSUME FleetOK(pool.fleet), NEW preferred,
           NEW id \in Candidates(pool.fleet, pool.turn), NEW other \in Candidates(pool.fleet, pool.turn) \ {id},
           Ahead(pool.fleet, pool.turn, preferred, other, id)
    PROVE  Below(Merits(other, preferred), Merits(id, preferred))
<1> DEFINE w1 == pool.fleet[other]
           w2 == pool.fleet[id]
           a1 == Loaded(w1, pool.turn)
           a2 == Loaded(w2, pool.turn)
           b1 == Bonus(other, preferred)
           b2 == Bonus(id, preferred)
           v1 == WholeGiB(w1)
           v2 == WholeGiB(w2)
<1>1. w1 \in Snapshots /\ w2 \in Snapshots /\ other \in DOMAIN pool.fleet /\ id \in DOMAIN pool.fleet
  BY Zenon DEF Candidates, FleetOK
<1>2. other \in Int /\ id \in Int
  <2>1. other \in Machines /\ id \in Machines
    BY <1>1, Zenon DEF FleetOK
  <2> QED BY <2>1, MachineIds
<1>3. /\ a1 \in Int /\ 0 <= a1 /\ a1 <= 1 /\ b1 \in Int /\ 0 <= b1 /\ b1 <= 1
      /\ v1 \in Int /\ 0 <= v1 /\ v1 <= 9999 /\ w1.load \in Int /\ 0 <= w1.load /\ w1.load <= 100
      /\ w1.activeJobs \in Int /\ 0 <= w1.activeJobs /\ w1.activeJobs <= 49
      /\ Worth(pool.fleet, pool.turn, preferred, other) =
           a1 * weightModelLoaded + b1 * weightBoundWorkerBonus + v1 * weightFreeVRAMPerGiB
           - w1.load * weightLoadPenalty - w1.activeJobs * weightActiveJobPenalty
  BY <1>1, TotalParts, SMT
<1>4. /\ a2 \in Int /\ 0 <= a2 /\ a2 <= 1 /\ b2 \in Int /\ 0 <= b2 /\ b2 <= 1
      /\ v2 \in Int /\ 0 <= v2 /\ v2 <= 9999 /\ w2.load \in Int /\ 0 <= w2.load /\ w2.load <= 100
      /\ w2.activeJobs \in Int /\ 0 <= w2.activeJobs /\ w2.activeJobs <= 49
      /\ Worth(pool.fleet, pool.turn, preferred, id) =
           a2 * weightModelLoaded + b2 * weightBoundWorkerBonus + v2 * weightFreeVRAMPerGiB
           - w2.load * weightLoadPenalty - w2.activeJobs * weightActiveJobPenalty
  BY <1>1, TotalParts, SMT
<1>5. Merits(other, preferred) = <<a1, b1, v1, 0 - w1.load, 0 - w1.activeJobs, 0 - other>>
  BY Zenon DEF Merits, Loaded, Bonus, WholeGiB
<1>6. Merits(id, preferred) = <<a2, b2, v2, 0 - w2.load, 0 - w2.activeJobs, 0 - id>>
  BY Zenon DEF Merits, Loaded, Bonus, WholeGiB
<1> HIDE DEF w1, w2, a1, a2, b1, b2, v1, v2
<1>7. \/ a1 < a2
      \/ a1 = a2 /\ b1 < b2
      \/ a1 = a2 /\ b1 = b2 /\ v1 < v2
      \/ a1 = a2 /\ b1 = b2 /\ v1 = v2 /\ 0 - w1.load < 0 - w2.load
      \/ a1 = a2 /\ b1 = b2 /\ v1 = v2 /\ w1.load = w2.load /\ 0 - w1.activeJobs < 0 - w2.activeJobs
      \/ /\ a1 = a2 /\ b1 = b2 /\ v1 = v2 /\ w1.load = w2.load /\ w1.activeJobs = w2.activeJobs
         /\ 0 - other < 0 - id
  <2> DEFINE t1 == Worth(pool.fleet, pool.turn, preferred, other)
             t2 == Worth(pool.fleet, pool.turn, preferred, id)
  <2>1. t1 \in Int /\ t2 \in Int
    BY <1>3, <1>4, SMT DEF weightModelLoaded, weightBoundWorkerBonus, weightFreeVRAMPerGiB,
        weightLoadPenalty, weightActiveJobPenalty
  <2>2. t1 <= t2 /\ (t1 = t2 => id < other)
    <3> HIDE DEF t1, t2
    <3>1. t1 < t2 \/ (t1 = t2 /\ id < other)
      BY Zenon DEF Ahead, t1, t2
    <3> QED BY <1>2, <2>1, <3>1, SMT
  <2>3. \/ a1 < a2
        \/ a1 = a2 /\ b1 < b2
        \/ a1 = a2 /\ b1 = b2 /\ v1 < v2
        \/ a1 = a2 /\ b1 = b2 /\ v1 = v2 /\ w1.load > w2.load
        \/ a1 = a2 /\ b1 = b2 /\ v1 = v2 /\ w1.load = w2.load /\ w1.activeJobs >= w2.activeJobs
    <3> DEFINE l1 == w1.load
               l2 == w2.load
               j1 == w1.activeJobs
               j2 == w2.activeJobs
    <3>1. /\ l1 \in Int /\ 0 <= l1 /\ l1 <= 100 /\ l2 \in Int /\ 0 <= l2 /\ l2 <= 100
          /\ j1 \in Int /\ 0 <= j1 /\ j1 <= 49 /\ j2 \in Int /\ 0 <= j2 /\ j2 <= 49
      BY <1>3, <1>4, SMT
    <3>2. a1 * weightModelLoaded + b1 * weightBoundWorkerBonus + v1 * weightFreeVRAMPerGiB
            - l1 * weightLoadPenalty - j1 * weightActiveJobPenalty
          <= a2 * weightModelLoaded + b2 * weightBoundWorkerBonus + v2 * weightFreeVRAMPerGiB
            - l2 * weightLoadPenalty - j2 * weightActiveJobPenalty
      BY <1>3, <1>4, <2>2, SMT
    <3> HIDE DEF l1, l2, j1, j2, t1, t2
    <3> USE DEF weightModelLoaded, weightBoundWorkerBonus, weightFreeVRAMPerGiB, weightLoadPenalty,
                weightActiveJobPenalty
    <3>3. a1 <= a2
      BY <1>3, <1>4, <3>1, <3>2, SMT
    <3>4. a1 = a2 => b1 <= b2
      BY <1>3, <1>4, <3>1, <3>2, SMT
    <3>5. a1 = a2 /\ b1 = b2 => v1 <= v2
      BY <1>3, <1>4, <3>1, <3>2, SMT
    <3>6. a1 = a2 /\ b1 = b2 /\ v1 = v2 => l1 >= l2
      BY <1>3, <1>4, <3>1, <3>2, SMT
    <3>7. a1 = a2 /\ b1 = b2 /\ v1 = v2 /\ l1 = l2 => j1 >= j2
      BY <1>3, <1>4, <3>1, <3>2, SMT
    <3> HIDE DEF weightModelLoaded, weightBoundWorkerBonus, weightFreeVRAMPerGiB, weightLoadPenalty,
                 weightActiveJobPenalty
    <3> QED BY <1>3, <1>4, <3>1, <3>3, <3>4, <3>5, <3>6, <3>7, SMTT(30) DEF l1, l2, j1, j2
  <2>4. a1 = a2 /\ b1 = b2 /\ v1 = v2 /\ w1.load = w2.load /\ w1.activeJobs = w2.activeJobs => id < other
    BY <1>3, <1>4, <2>2, SMT
  <2> HIDE DEF t1, t2
  <2> QED BY <1>2, <1>3, <1>4, <2>3, <2>4, SMT
<1> DEFINE s == Merits(other, preferred)
           t == Merits(id, preferred)
<1>8. /\ DOMAIN s = 1 .. 6 /\ s[1] = a1 /\ s[2] = b1 /\ s[3] = v1 /\ s[4] = 0 - w1.load
      /\ s[5] = 0 - w1.activeJobs /\ s[6] = 0 - other
      /\ t[1] = a2 /\ t[2] = b2 /\ t[3] = v2 /\ t[4] = 0 - w2.load
      /\ t[5] = 0 - w2.activeJobs /\ t[6] = 0 - id
  BY <1>5, <1>6, SMT
<1> HIDE DEF s, t
<1>9. \E k \in 1 .. 6 : s[k] < t[k] /\ \A j \in 1 .. k - 1 : s[j] = t[j]
  <2>1. CASE a1 < a2
    BY <1>8, <2>1, SMT
  <2>2. CASE a1 = a2 /\ b1 < b2
    BY <1>8, <2>2, SMT
  <2>3. CASE a1 = a2 /\ b1 = b2 /\ v1 < v2
    BY <1>8, <2>3, SMT
  <2>4. CASE a1 = a2 /\ b1 = b2 /\ v1 = v2 /\ 0 - w1.load < 0 - w2.load
    BY <1>8, <2>4, SMT
  <2>5. CASE a1 = a2 /\ b1 = b2 /\ v1 = v2 /\ w1.load = w2.load /\ 0 - w1.activeJobs < 0 - w2.activeJobs
    BY <1>8, <2>5, SMT
  <2>6. CASE /\ a1 = a2 /\ b1 = b2 /\ v1 = v2 /\ w1.load = w2.load /\ w1.activeJobs = w2.activeJobs
             /\ 0 - other < 0 - id
    BY <1>8, <2>6, SMT
  <2> QED BY <1>7, <2>1, <2>2, <2>3, <2>4, <2>5, <2>6, Zenon
<1> QED BY <1>8, <1>9, Zenon DEF Below, s, t

\* A report replaces or adds one entry of the fleet.
LEMMA PoolStep ==
    ASSUME PoolOK, PoolNext \/ UNCHANGED pool PROVE PoolOK'
<1> DEFINE Fleets == UNION {[D -> Snapshots] : D \in SUBSET Machines}
<1>1. /\ pool = [fleet |-> pool.fleet, bound |-> pool.bound, turn |-> pool.turn]
      /\ pool.fleet \in Fleets /\ pool.bound \in Machines \cup {NoWorker} /\ pool.turn \in TurnModels
  BY Zenon DEF PoolOK
<1>2. PICK D \in SUBSET Machines : pool.fleet \in [D -> Snapshots]
  BY <1>1, Zenon
<1>3. DOMAIN pool.fleet = D
  BY <1>2, Zenon
<1>4. ASSUME NEW id \in Machines, NEW w \in Snapshots, Reported(id, w) PROVE PoolOK'
  <2> DEFINE F == [i \in DOMAIN pool.fleet \cup {id} |-> IF i = id THEN w ELSE pool.fleet[i]]
  <2>1. F \in [D \cup {id} -> Snapshots]
    BY <1>2, <1>3, Zenon
  <2>2. F \in Fleets
    BY <2>1, Zenon
  <2>3. pool' = [fleet |-> F, bound |-> pool.bound, turn |-> pool.turn]
    BY <1>1, <1>4, Zenon DEF Reported
  <2> HIDE DEF F, Fleets
  <2>4. pool' \in [fleet : Fleets, bound : Machines \cup {NoWorker}, turn : TurnModels]
    BY <1>1, <2>2, <2>3, Zenon
  <2> QED BY <2>4, Zenon DEF PoolOK, Fleets
<1>5. ASSUME NEW id \in Machines, Departed(id) PROVE PoolOK'
  <2> DEFINE F == [i \in DOMAIN pool.fleet \ {id} |-> pool.fleet[i]]
  <2>1. F \in [D \ {id} -> Snapshots]
    BY <1>2, <1>3, Zenon
  <2>2. F \in Fleets
    BY <2>1, Zenon
  <2>3. pool' = [fleet |-> F, bound |-> pool.bound, turn |-> pool.turn]
    BY <1>1, <1>5, Zenon DEF Departed
  <2> HIDE DEF F, Fleets
  <2>4. pool' \in [fleet : Fleets, bound : Machines \cup {NoWorker}, turn : TurnModels]
    BY <1>1, <2>2, <2>3, Zenon
  <2> QED BY <2>4, Zenon DEF PoolOK, Fleets
<1>6. ASSUME PlaceTurn PROVE PoolOK'
  <2> DEFINE id == PickPreferring(pool.fleet, pool.turn, pool.bound)
  <2>1. id # NoWorker /\ pool' = [pool EXCEPT !.bound = id]
    BY <1>6, Zenon DEF PlaceTurn
  <2>2. Candidates(pool.fleet, pool.turn) # {}
    BY <2>1, Zenon DEF PickPreferring
  <2>3. FleetOK(pool.fleet)
    BY <1>2, <1>3, Zenon DEF FleetOK
  <2>4. id \in Candidates(pool.fleet, pool.turn)
    BY <2>2, <2>3, PickAhead, Zenon
  <2>5. id \in Machines
    BY <1>3, <2>4, Zenon DEF Candidates
  <2> HIDE DEF id, Fleets
  <2>6. pool' = [fleet |-> pool.fleet, bound |-> id, turn |-> pool.turn]
    BY <1>1, <2>1, Zenon
  <2>7. pool' \in [fleet : Fleets, bound : Machines \cup {NoWorker}, turn : TurnModels]
    BY <1>1, <2>5, <2>6, Zenon
  <2> QED BY <2>7, Zenon DEF PoolOK, Fleets
<1>7. ASSUME OtherModel PROVE PoolOK'
  <2>1. PICK m \in TurnModels : pool' = [pool EXCEPT !.turn = m]
    BY <1>7, Zenon DEF OtherModel
  <2> HIDE DEF Fleets
  <2>2. pool' \in [fleet : Fleets, bound : Machines \cup {NoWorker}, turn : TurnModels]
    BY <1>1, <2>1, Zenon
  <2> QED BY <2>2, Zenon DEF PoolOK, Fleets
<1>8. ASSUME UNCHANGED pool PROVE PoolOK'
  BY <1>8, Zenon DEF PoolOK
<1> QED BY <1>4, <1>5, <1>6, <1>7, <1>8, Zenon DEF PoolNext

\* What the fleet is made of gives the first worker, for any binding.
LEMMA PoolPicks ==
    ASSUME PoolOK PROVE PickIsBest
<1>1. PICK D \in SUBSET Machines : pool.fleet \in [D -> Snapshots]
  BY Zenon DEF PoolOK
<1>2. FleetOK(pool.fleet)
  BY <1>1, Zenon DEF FleetOK
<1> DEFINE able == Candidates(pool.fleet, pool.turn)
           First(id, preferred) ==
             IF able = {} THEN id = NoWorker
             ELSE id \in able /\ \A other \in able \ {id} : Below(Merits(other, preferred), Merits(id, preferred))
<1>3. ASSUME NEW preferred PROVE First(PickPreferring(pool.fleet, pool.turn, preferred), preferred)
  <2>1. CASE able = {}
    BY <2>1, Zenon DEF PickPreferring
  <2>2. CASE able # {}
    <3>1. /\ PickPreferring(pool.fleet, pool.turn, preferred) \in able
          /\ \A other \in able \ {PickPreferring(pool.fleet, pool.turn, preferred)} :
               Ahead(pool.fleet, pool.turn, preferred, other, PickPreferring(pool.fleet, pool.turn, preferred))
      BY <1>2, <2>2, PickAhead, Zenon
    <3> QED BY <1>2, <2>2, <3>1, AheadIsBetter, Zenon
  <2> QED BY <2>1, <2>2, Zenon
<1> QED BY <1>3, Zenon DEF PickIsBest, Pick

\* A placement moves a conversation away from a worker that can run the turn
\* only for one that has the model loaded where the bound one has not.
LEMMA BoundStays ==
    ASSUME PoolOK, PoolNext, pool'.bound # pool.bound,
           pool.bound \in Candidates(pool.fleet, pool.turn)
    PROVE  /\ ~hasModel(pool.fleet[pool.bound], pool.turn)
           /\ hasModel(pool.fleet[pool'.bound], pool.turn)
<1> DEFINE id == PickPreferring(pool.fleet, pool.turn, pool.bound)
           b == pool.bound
<1>0. pool = [fleet |-> pool.fleet, bound |-> pool.bound, turn |-> pool.turn]
  BY Zenon DEF PoolOK
<1>1. id # NoWorker /\ pool' = [pool EXCEPT !.bound = id]
  <2>1. ASSUME NEW i \in Machines, NEW w \in Snapshots, Reported(i, w) PROVE FALSE
    BY <1>0, <2>1, Zenon DEF Reported
  <2>2. ASSUME NEW i \in Machines, Departed(i) PROVE FALSE
    BY <1>0, <2>2, Zenon DEF Departed
  <2>3. ASSUME OtherModel PROVE FALSE
    BY <1>0, <2>3, Zenon DEF OtherModel
  <2>4. PlaceTurn
    BY <2>1, <2>2, <2>3, Zenon DEF PoolNext
  <2> QED BY <2>4, Zenon DEF PlaceTurn
<1>2. PICK D \in SUBSET Machines : pool.fleet \in [D -> Snapshots]
  BY Zenon DEF PoolOK
<1>3. FleetOK(pool.fleet)
  BY <1>2, Zenon DEF FleetOK
<1> HIDE DEF id, b
<1>4. pool'.bound = id /\ id # b
  BY <1>0, <1>1, Zenon DEF b
<1>5. /\ id \in Candidates(pool.fleet, pool.turn) /\ b \in Candidates(pool.fleet, pool.turn) \ {id}
      /\ Ahead(pool.fleet, pool.turn, b, b, id)
  BY <1>3, <1>4, PickAhead, Zenon DEF id, b
<1>6. pool.fleet[id] \in Snapshots /\ pool.fleet[b] \in Snapshots
  BY <1>3, <1>5, Zenon DEF FleetOK, Candidates
<1> DEFINE w1 == pool.fleet[b]
           w2 == pool.fleet[id]
           a1 == Loaded(w1, pool.turn)
           a2 == Loaded(w2, pool.turn)
           v1 == WholeGiB(w1)
           v2 == WholeGiB(w2)
           t1 == Worth(pool.fleet, pool.turn, b, b)
           t2 == Worth(pool.fleet, pool.turn, b, id)
<1>7. /\ a1 \in Int /\ 0 <= a1 /\ a1 <= 1
      /\ v1 \in Int /\ 0 <= v1 /\ v1 <= 9999 /\ w1.load \in Int /\ 0 <= w1.load /\ w1.load <= 100
      /\ w1.activeJobs \in Int /\ 0 <= w1.activeJobs /\ w1.activeJobs <= 49
      /\ t1 = a1 * weightModelLoaded + Bonus(b, b) * weightBoundWorkerBonus + v1 * weightFreeVRAMPerGiB
              - w1.load * weightLoadPenalty - w1.activeJobs * weightActiveJobPenalty
  BY <1>6, TotalParts, SMT
<1>8. /\ a2 \in Int /\ 0 <= a2 /\ a2 <= 1
      /\ v2 \in Int /\ 0 <= v2 /\ v2 <= 9999 /\ w2.load \in Int /\ 0 <= w2.load /\ w2.load <= 100
      /\ w2.activeJobs \in Int /\ 0 <= w2.activeJobs /\ w2.activeJobs <= 49
      /\ t2 = a2 * weightModelLoaded + Bonus(id, b) * weightBoundWorkerBonus + v2 * weightFreeVRAMPerGiB
              - w2.load * weightLoadPenalty - w2.activeJobs * weightActiveJobPenalty
  BY <1>6, TotalParts, SMT
<1>9. Bonus(b, b) = 1 /\ Bonus(id, b) = 0
  BY <1>4, Zenon DEF Bonus
<1> HIDE DEF w1, w2, a1, a2, v1, v2, t1, t2
<1>10. t1 < t2 \/ t1 = t2
  BY <1>5, Zenon DEF Ahead, t1, t2
<1>11. /\ t1 = a1 * 1000000000 + 100000000 + v1 * 10000 - w1.load * 50 - w1.activeJobs
       /\ t2 = a2 * 1000000000 + v2 * 10000 - w2.load * 50 - w2.activeJobs
  BY <1>7, <1>8, <1>9, SMT DEF weightModelLoaded, weightBoundWorkerBonus, weightFreeVRAMPerGiB, weightLoadPenalty,
      weightActiveJobPenalty
<1>12. a1 = 0 /\ a2 = 1
  <2> DEFINE l1 == w1.load
             l2 == w2.load
             j1 == w1.activeJobs
             j2 == w2.activeJobs
  <2> HIDE DEF l1, l2, j1, j2
  <2>1. /\ l1 \in Int /\ 0 <= l1 /\ l1 <= 100 /\ j1 \in Int /\ 0 <= j1 /\ j1 <= 49
        /\ l2 \in Int /\ 0 <= l2 /\ l2 <= 100 /\ j2 \in Int /\ 0 <= j2 /\ j2 <= 49
        /\ t1 = a1 * 1000000000 + 100000000 + v1 * 10000 - l1 * 50 - j1
        /\ t2 = a2 * 1000000000 + v2 * 10000 - l2 * 50 - j2
    BY <1>7, <1>8, <1>11, SMT DEF l1, l2, j1, j2
  <2>2. /\ a1 \in Int /\ 0 <= a1 /\ a1 <= 1 /\ v1 \in Int /\ 0 <= v1 /\ v1 <= 9999
        /\ a2 \in Int /\ 0 <= a2 /\ a2 <= 1 /\ v2 \in Int /\ 0 <= v2 /\ v2 <= 9999
    BY <1>7, <1>8, SMT
  <2> QED BY <2>1, <2>2, <1>10, SMT
<1>13. ~hasModel(w1, pool.turn) /\ hasModel(w2, pool.turn)
  BY <1>12, SMT DEF a1, a2, Loaded
<1> QED BY <1>4, <1>13, Zenon DEF w1, w2, b

-----------------------------------------------------------------------------
(* The process and its files *)

Writers == Tickers \cup {"main"}

\* What is left to load, or to write at the end, from the i-th file on.
Left(i) == [k \in 1 .. 6 - i |-> BootOrder[k + i - 1]]

\* What a ticker may have before it.
Todos(w) == CASE w = "session" -> {<<>>, <<"history">>, <<"sessions", "history">>}
              [] w = "main" -> {Left(i) : i \in 1 .. 6}
              [] OTHER -> {<<>>, <<w>>}

LEMMA LeftParts ==
    ASSUME NEW i \in 1 .. 5
    PROVE  /\ Left(i) # <<>> /\ Head(Left(i)) = BootOrder[i] /\ Tail(Left(i)) = Left(i + 1)
           /\ BootOrder[i] \in Files
<1>1. BootOrder \in Seq(Files) /\ Len(BootOrder) = 5
  BY DEF BootOrder, Files
<1>2. \A k \in 1 .. 5 : BootOrder[k] \in Files
  BY <1>1, SeqLen, Zenon
<1>3. ASSUME NEW j \in 1 .. 6 PROVE Left(j) \in Seq(Files) /\ Len(Left(j)) = 6 - j
  <2> HIDE DEF BootOrder
  <2>1. \A k \in 1 .. 6 - j : BootOrder[k + j - 1] \in Files
    BY <1>2
  <2> QED BY <2>1 DEF Left
<1>4. Left(i) # <<>> /\ Head(Left(i)) = BootOrder[i]
  <2> HIDE DEF BootOrder
  <2>1. Left(i) \in Seq(Files) /\ Len(Left(i)) = 6 - i /\ Left(i)[1] = BootOrder[i]
    BY <1>3, SMTT(30) DEF Left
  <2> QED BY <2>1
<1>5. Tail(Left(i)) = Left(i + 1)
  <2> HIDE DEF BootOrder
  <2>1. Left(i) \in Seq(Files) /\ Len(Left(i)) = 6 - i
    BY <1>3, SMTT(30)
  <2>2. /\ Tail(Left(i)) \in Seq(Files) /\ Len(Tail(Left(i))) = 5 - i
        /\ \A k \in 1 .. 5 - i : Tail(Left(i))[k] = Left(i)[k + 1]
    BY <2>1, SeqTail
  <2>3. /\ Left(i + 1) \in Seq(Files) /\ Len(Left(i + 1)) = 5 - i
        /\ \A k \in 1 .. 5 - i : Left(i + 1)[k] = Left(i)[k + 1]
    BY <1>3 DEF Left
  <2> QED BY <2>2, <2>3, SeqSame, Zenon
<1> QED BY <1>2, <1>4, <1>5, Zenon

LEMMA LeftEnds == Left(6) = <<>> /\ Left(1) = BootOrder /\ FilesOf("main") = Left(1)
  BY DEF Left, BootOrder, FilesOf

LEMMA FileIndex ==
    /\ BootOrder[1] = "quota" /\ BootOrder[2] = "sessions" /\ BootOrder[3] = "history"
    /\ BootOrder[4] = "audit" /\ BootOrder[5] = "usage"
  BY Zenon DEF BootOrder

\* A store per file.
IsStore(m) == m = [f \in Files |-> m[f]]

\* The process is a record, its memory and the data on disk have a store per
\* file, and a writer holds a snapshot of the next file it is to write.
ProcShape ==
    /\ proc = [pc |-> proc.pc, load |-> proc.load, mem |-> proc.mem, writers |-> proc.writers,
               http |-> proc.http, links |-> proc.links, used |-> proc.used, clean |-> proc.clean,
               boots |-> proc.boots]
    /\ disk = [data |-> disk.data, torn |-> {}]
    /\ IsStore(proc.mem) /\ IsStore(disk.data)
    /\ proc.mem["sessions"] \subseteq Chats
    /\ proc.mem["history"] = [s \in Chats |-> proc.mem["history"][s]]
    /\ proc.clean \in BOOLEAN
    /\ proc.pc \in {"down", "boot", "failed", "serving", "drain", "grpc", "final", "exited"}

WriterShape ==
    /\ proc.writers = [w \in Writers |-> [todo |-> proc.writers[w].todo, hold |-> proc.writers[w].hold]]
    /\ \A w \in Writers :
          /\ proc.writers[w].todo \in Todos(w)
          /\ \/ proc.writers[w].hold = <<>>
             \/ proc.writers[w].todo # <<>> /\ proc.writers[w].hold = <<proc.writers[w].hold[1]>>

LEMMA EmptyStores ==
    /\ IsStore(Empty) /\ Empty["sessions"] = {} /\ Empty["history"] = [s \in Chats |-> 0] /\ Empty["quota"] = 0
    /\ \A s \in Chats : Empty["history"][s] = 0
  BY Zenon DEF IsStore, Empty, Files

LEMMA EmptyTodo == \A w \in Writers : <<>> \in Todos(w)
<1>1. <<>> \in Todos("main")
  <2>1. <<>> = Left(6) /\ 6 \in 1 .. 6
    BY LeftEnds
  <2> QED BY <2>1, Zenon DEF Todos
<1>2. \A w \in Tickers : <<>> \in Todos(w)
  BY Zenon DEF Todos, Tickers
<1> QED BY <1>1, <1>2, Zenon DEF Writers

LEMMA IdleShape ==
    /\ IdleWriters = [w \in Writers |-> [todo |-> IdleWriters[w].todo, hold |-> IdleWriters[w].hold]]
    /\ \A w \in Writers : IdleWriters[w].todo = <<>> /\ IdleWriters[w].hold = <<>>
  BY Zenon DEF IdleWriters, Writers

LEMMA ProcStarts == ProcessInit => ProcShape /\ WriterShape
<1> SUFFICES ASSUME ProcessInit PROVE ProcShape /\ WriterShape
  BY Zenon
<1>1. /\ proc.pc = "down" /\ proc.load = <<>> /\ proc.mem = Empty /\ proc.writers = IdleWriters
      /\ proc.http = {} /\ proc.links = {} /\ proc.used = {} /\ proc.clean = TRUE /\ proc.boots = 0
      /\ disk.data = Empty /\ disk.torn = {}
  BY Zenon DEF ProcessInit, Stopped
<1>2. ProcShape
  <2>1. /\ proc = [pc |-> proc.pc, load |-> proc.load, mem |-> proc.mem, writers |-> proc.writers,
                   http |-> proc.http, links |-> proc.links, used |-> proc.used, clean |-> proc.clean,
                   boots |-> proc.boots]
        /\ disk = [data |-> disk.data, torn |-> {}]
    BY Zenon DEF ProcessInit, Stopped
  <2> QED BY <1>1, <2>1, EmptyStores, Zenon DEF ProcShape
<1>3. WriterShape
  BY <1>1, EmptyTodo, IdleShape, Zenon DEF WriterShape
<1> QED BY <1>2, <1>3, Zenon

\* While the process boots nothing is written.  What has been loaded of the
\* quota is what is on disk, and no history is there before its sessions.
Loading ==
    proc.pc = "boot" =>
        /\ \A w \in Writers : proc.writers[w].todo = <<>>
        /\ \E i \in 1 .. 6 : /\ proc.load = Left(i)
                             /\ i <= 3 => \A s \in Chats : proc.mem["history"][s] = 0
                             /\ i > 1 => proc.mem["quota"] = disk.data["quota"]

HistoryKept == \A s \in Chats : proc.mem["history"][s] > 0 => s \in proc.mem["sessions"]

\* Up to the final checkpoints only the ticker writes the quota file, and what
\* it holds is between the file and the memory.
QuotaAhead ==
    /\ proc.mem["quota"] \in Nat /\ disk.data["quota"] \in Nat
    /\ \A w \in Writers : proc.writers[w].hold # <<>> /\ Head(proc.writers[w].todo) = "quota"
                             => proc.writers[w].hold[1] \in Nat
    /\ proc.pc \in {"serving", "drain", "grpc"} =>
         /\ proc.writers["main"].todo = <<>>
         /\ disk.data["quota"] <= proc.mem["quota"]
         /\ proc.writers["quota"].hold # <<>> =>
               /\ disk.data["quota"] <= proc.writers["quota"].hold[1]
               /\ proc.writers["quota"].hold[1] <= proc.mem["quota"]

\* A clean shutdown has written the files before the one it is at.
Saved ==
    /\ proc.pc \in {"grpc", "final"} /\ proc.clean => proc.http = {}
    /\ proc.pc = "final" /\ proc.clean =>
         /\ \A w \in Tickers : proc.writers[w].todo = <<>>
         /\ \E i \in 1 .. 6 :
              LET x == proc.writers["main"] IN
              /\ x.todo = Left(i)
              /\ \A k \in 1 .. i - 1 : disk.data[BootOrder[k]] = proc.mem[BootOrder[k]]
              /\ x.hold # <<>> => x.hold[1] = proc.mem[BootOrder[i]]
              /\ i = 6 \/ (i = 5 /\ x.hold # <<>>) => proc.mem["usage"] = proc.mem["quota"]
    /\ proc.pc = "exited" /\ proc.clean => disk.data = proc.mem

ProcInv == ProcShape /\ WriterShape /\ Loading /\ HistoryKept /\ QuotaAhead /\ Saved

Phases == {"down", "boot", "failed", "serving", "drain", "grpc", "final", "exited"}

\* The next state of the process is a record again.
ProcRecord(p) ==
    /\ p = [pc |-> p.pc, load |-> p.load, mem |-> p.mem, writers |-> p.writers, http |-> p.http,
            links |-> p.links, used |-> p.used, clean |-> p.clean, boots |-> p.boots]
    /\ p.clean \in BOOLEAN /\ p.pc \in Phases

\* A step that leaves memory, writers and files alone.
LEMMA ProcCarries ==
    ASSUME ProcInv, ProcRecord(proc'), proc'.mem = proc.mem, proc'.writers = proc.writers, disk' = disk
    PROVE  /\ ProcShape' /\ WriterShape' /\ HistoryKept'
           /\ \/ proc'.pc \notin {"serving", "drain", "grpc"}
              \/ proc.pc \in {"serving", "drain", "grpc"}
              => QuotaAhead'
<1>1. ProcShape'
  BY Zenon DEF ProcInv, ProcShape, ProcRecord, Phases, IsStore
<1>2. WriterShape'
  BY Zenon DEF ProcInv, WriterShape
<1>3. HistoryKept'
  BY Zenon DEF ProcInv, HistoryKept
<1>4. ASSUME proc'.pc \notin {"serving", "drain", "grpc"} \/ proc.pc \in {"serving", "drain", "grpc"}
      PROVE  QuotaAhead'
  BY <1>4, Zenon DEF ProcInv, QuotaAhead
<1> QED BY <1>1, <1>2, <1>3, <1>4, Zenon

\* Requests and workers that come and go.
LEMMA ProcComings ==
    ASSUME ProcInv,
           \/ \E c \in Clients : Arrive(c)
           \/ \E l \in Links : Link(l) \/ Unlink(l)
    PROVE  ProcInv'
<1>1. /\ ProcRecord(proc') /\ proc'.mem = proc.mem /\ proc'.writers = proc.writers /\ disk' = disk
      /\ proc'.pc = proc.pc /\ proc.pc \in Up /\ proc'.clean = proc.clean
      /\ proc.pc # "serving" => proc'.http = proc.http
  <2>1. ASSUME NEW c \in Clients, Arrive(c) PROVE <1>1!:
    BY <2>1, Zenon DEF Arrive, ProcInv, ProcShape, ProcRecord, Phases, Up
  <2>2. ASSUME NEW l \in Links, Link(l) PROVE <1>1!:
    BY <2>2, Zenon DEF Link, ProcInv, ProcShape, ProcRecord, Phases, Up
  <2>3. ASSUME NEW l \in Links, Unlink(l) PROVE <1>1!:
    BY <2>3, Zenon DEF Unlink, ProcInv, ProcShape, ProcRecord, Phases, Up
  <2> QED BY <2>1, <2>2, <2>3, Zenon
<1>2. ProcShape' /\ WriterShape' /\ HistoryKept' /\ QuotaAhead'
  BY <1>1, ProcCarries, Zenon
<1>3. Loading' /\ Saved'
  <2>1. Loading'
    BY <1>1, Zenon DEF Loading, Up
  <2>2. Saved'
    BY <1>1, ZenonT(40) DEF Saved, ProcInv, Up
  <2> QED BY <2>1, <2>2, Zenon
<1> QED BY <1>2, <1>3, Zenon DEF ProcInv

\* The process stops, or its listener fails, or SIGTERM arrives, or the drain ends.
LEMMA ProcPhases ==
    ASSUME ProcInv, Signal \/ Shutdown \/ Exit \/ ListenerFails \/ Crash PROVE ProcInv'
<1>1. /\ ProcRecord(proc') /\ proc'.mem = proc.mem /\ proc'.writers = proc.writers /\ disk' = disk
      /\ proc'.http = proc.http /\ proc'.pc # "boot"
      /\ \/ proc'.pc \notin {"serving", "drain", "grpc"}
         \/ proc.pc \in {"serving", "drain", "grpc"}
      /\ proc'.pc # "final"
      /\ proc'.pc = "grpc" /\ proc'.clean => proc.http = {}
      /\ proc'.pc = "exited" => proc'.clean = proc.clean /\ proc.pc = "final" /\ proc.writers["main"].todo = <<>>
  <2>1. CASE Signal
    BY <2>1, Zenon DEF Signal, ProcInv, ProcShape, ProcRecord, Phases
  <2>2. CASE Shutdown
    BY <2>2, Zenon DEF Shutdown, ProcInv, ProcShape, ProcRecord, Phases
  <2>3. CASE Exit
    BY <2>3, Zenon DEF Exit, ProcInv, ProcShape, ProcRecord, Phases
  <2>4. CASE ListenerFails
    BY <2>4, Zenon DEF ListenerFails, ProcInv, ProcShape, ProcRecord, Phases
  <2>5. CASE Crash
    BY <2>5, Zenon DEF Crash, ProcInv, ProcShape, ProcRecord, Phases
  <2> QED BY <2>1, <2>2, <2>3, <2>4, <2>5, Zenon
<1>2. ProcShape' /\ WriterShape' /\ HistoryKept' /\ QuotaAhead'
  BY <1>1, ProcCarries, Zenon
<1>3. Loading'
  BY <1>1, Zenon DEF Loading
<1>4. ASSUME proc'.pc = "exited", proc'.clean PROVE disk'.data = proc'.mem
  <2>1. proc.pc = "final" /\ proc.clean /\ proc.writers["main"].todo = <<>>
    BY <1>1, <1>4, Zenon
  <2>2. PICK i \in 1 .. 6 :
          /\ proc.writers["main"].todo = Left(i)
          /\ \A k \in 1 .. i - 1 : disk.data[BootOrder[k]] = proc.mem[BootOrder[k]]
    BY <2>1, Zenon DEF ProcInv, Saved
  <2>3. i = 6
    BY <2>1, <2>2, LeftParts, SMTT(30)
  <2>4. \A f \in Files : disk.data[f] = proc.mem[f]
    BY <2>2, <2>3, FileIndex DEF Files
  <2>5. IsStore(disk.data) /\ IsStore(proc.mem)
    BY Zenon DEF ProcInv, ProcShape
  <2>6. disk.data = proc.mem
    BY <2>4, <2>5, Zenon DEF IsStore
  <2> QED BY <1>1, <2>6, Zenon
<1>5. Saved'
  BY <1>1, <1>4, Zenon DEF Saved
<1> QED BY <1>2, <1>3, <1>5, Zenon DEF ProcInv

LEMMA ProcBegins == ASSUME ProcInv, Start PROVE ProcInv'
<1>1. /\ ProcRecord(proc') /\ proc'.mem = Empty /\ proc'.writers = IdleWriters /\ disk' = disk
      /\ proc'.load = Left(1) /\ proc'.pc \in {"boot", "failed"}
  BY LeftEnds, Zenon DEF Start, Stopped, ProcRecord, Phases
<1>2. ProcShape'
  BY <1>1, EmptyStores, Zenon DEF ProcInv, ProcShape, ProcRecord, Phases, IsStore
<1>3. WriterShape'
  BY <1>1, EmptyTodo, IdleShape, Zenon DEF WriterShape
<1>4. HistoryKept'
  BY <1>1, EmptyStores DEF HistoryKept
<1>5. Loading'
  BY <1>1, EmptyStores, IdleShape, SMTT(30) DEF Loading
<1>6. QuotaAhead'
  BY <1>1, EmptyStores, IdleShape, SMTT(30) DEF QuotaAhead, ProcInv, Writers, Tickers
<1>7. Saved'
  BY <1>1, Zenon DEF Saved
<1> QED BY <1>2, <1>3, <1>4, <1>5, <1>6, <1>7, Zenon DEF ProcInv

\* The servers start once everything is loaded: the quota in memory is the one
\* on disk.
LEMMA ProcServes == ASSUME ProcInv, serve PROVE ProcInv'
<1>1. /\ ProcRecord(proc') /\ proc'.mem = [proc.mem EXCEPT !["usage"] = proc.mem["quota"]]
      /\ proc'.writers = proc.writers /\ disk' = disk
      /\ proc'.pc = "serving" /\ proc.pc = "boot" /\ proc.load = <<>>
  BY Zenon DEF serve, Mem, ProcInv, ProcShape, ProcRecord, Phases
<1>2. /\ IsStore(proc'.mem) /\ proc'.mem["sessions"] = proc.mem["sessions"]
      /\ proc'.mem["history"] = proc.mem["history"] /\ proc'.mem["quota"] = proc.mem["quota"]
  BY <1>1, Zenon DEF ProcInv, ProcShape, IsStore, Files
<1>3. ProcShape'
  BY <1>1, <1>2, Zenon DEF ProcInv, ProcShape, ProcRecord, Phases, IsStore
<1>4. WriterShape' /\ HistoryKept'
  BY <1>1, <1>2, Zenon DEF ProcInv, WriterShape, HistoryKept
<1>5. Loading' /\ Saved'
  BY <1>1, Zenon DEF Loading, Saved
<1>6. QuotaAhead'
  <2>1. \A w \in Writers : proc.writers[w].todo = <<>> /\ proc.writers[w].hold = <<>>
    BY <1>1, Zenon DEF ProcInv, Loading, WriterShape
  <2>2. proc.mem["quota"] = disk.data["quota"]
    <3>1. PICK i \in 1 .. 6 : proc.load = Left(i) /\ (i > 1 => proc.mem["quota"] = disk.data["quota"])
      BY <1>1, Zenon DEF ProcInv, Loading
    <3>2. i = 6
      BY <1>1, <3>1, LeftParts, SMTT(30)
    <3> QED BY <3>1, <3>2
  <2>3. "main" \in Writers /\ "quota" \in Writers
    BY Zenon DEF Writers, Tickers
  <2> QED BY <1>1, <1>2, <2>1, <2>2, <2>3 DEF ProcInv, QuotaAhead
<1> QED BY <1>3, <1>4, <1>5, <1>6, Zenon DEF ProcInv

\* A store that is given one new file.
LEMMA StorePut ==
    ASSUME NEW m, IsStore(m), NEW f \in Files, NEW v
    PROVE  /\ IsStore([m EXCEPT ![f] = v]) /\ [m EXCEPT ![f] = v][f] = v
           /\ \A g \in Files : g # f => [m EXCEPT ![f] = v][g] = m[g]
<1>1. DOMAIN m = Files
  BY Zenon DEF IsStore
<1> QED BY <1>1, Zenon DEF IsStore

\* Boot loads the files in order: the sessions before their history.
LEMMA ProcLoads == ASSUME ProcInv, NEW live \in SUBSET Chats, Load(live) PROVE ProcInv'
<1>1. PICK i \in 1 .. 6 : /\ proc.load = Left(i)
                          /\ i <= 3 => \A s \in Chats : proc.mem["history"][s] = 0
                          /\ i > 1 => proc.mem["quota"] = disk.data["quota"]
  BY Zenon DEF ProcInv, Loading, Load
<1>2. i \in 1 .. 5
  BY <1>1, LeftEnds DEF Load
<1>3. Head(proc.load) = BootOrder[i] /\ Tail(proc.load) = Left(i + 1) /\ BootOrder[i] \in Files
  BY <1>1, <1>2, LeftParts, Zenon
<1> DEFINE f == Head(proc.load)
           v == CASE f = "sessions" -> sessionsLoadCheckpoint(live)
                  [] f = "history" -> historyLoadCheckpoint(sessionKeepSet)
                  [] f = "audit" -> auditLoadCheckpoint
                  [] OTHER -> disk.data[f]
<1>4. proc' = [proc EXCEPT !.load = Tail(@), !.mem[f] = v] /\ disk' = disk /\ proc.pc = "boot"
  <2>1. disk.torn = {}
    BY DEF ProcInv, ProcShape
  <2>2. f \notin disk.torn
    BY <2>1, Zenon
  <2> QED BY <2>2, Zenon DEF Load
<1>4a. f = BootOrder[i] /\ f \in Files
  BY <1>3, Zenon
<1> HIDE DEF f
<1>4b. /\ f = "sessions" => v = sessionsLoadCheckpoint(live)
       /\ f = "history" => v = historyLoadCheckpoint(sessionKeepSet)
       /\ f = "quota" => v = disk.data[f]
  BY Zenon
<1> HIDE DEF v
<1>5. /\ ProcRecord(proc') /\ proc'.mem = [proc.mem EXCEPT ![f] = v] /\ proc'.writers = proc.writers
      /\ proc'.pc = "boot" /\ proc'.load = Left(i + 1)
  BY <1>3, <1>4, Zenon DEF ProcInv, ProcShape, ProcRecord, Phases
<1>6. /\ f \in Files /\ IsStore(proc'.mem) /\ proc'.mem[f] = v
      /\ \A g \in Files : g # f => proc'.mem[g] = proc.mem[g]
  BY <1>4a, <1>5, StorePut, SMTT(30) DEF ProcInv, ProcShape
<1>7. {"quota", "sessions", "history"} \subseteq Files
  BY Zenon DEF Files
<1>8. /\ proc'.mem["sessions"] \subseteq Chats
      /\ proc'.mem["history"] = [s \in Chats |-> proc'.mem["history"][s]]
      /\ HistoryKept'
      /\ i + 1 <= 3 => \A s \in Chats : proc'.mem["history"][s] = 0
      /\ proc'.mem["quota"] = disk.data["quota"]
  <2>1. CASE i = 1
    <3>1. f = "quota" /\ v = disk.data["quota"]
      BY <1>4a, <1>4b, <2>1, FileIndex, Zenon
    <3> QED BY <1>1, <1>6, <1>7, <2>1, <3>1, SMTT(30) DEF ProcInv, ProcShape, HistoryKept
  <2>2. CASE i = 2
    <3>1. f = "sessions" /\ v = disk.data.sessions \cap live
      BY <1>4a, <1>4b, <2>2, FileIndex, Zenon DEF sessionsLoadCheckpoint
    <3> QED BY <1>1, <1>6, <1>7, <2>2, <3>1, SMTT(30) DEF ProcInv, ProcShape, HistoryKept
  <2>3. CASE i = 3
    <3>1. f = "history"
      BY <1>4a, <2>3, FileIndex, Zenon
    <3>2. v = [s \in Chats |-> IF s \in proc.mem["sessions"] THEN disk.data.history[s] ELSE 0]
      BY <1>4b, <3>1, Zenon DEF historyLoadCheckpoint, sessionKeepSet, Mem
    <3>3. /\ proc'.mem["history"] = [s \in Chats |-> proc'.mem["history"][s]]
          /\ \A s \in Chats : s \notin proc.mem["sessions"] => proc'.mem["history"][s] = 0
      BY <1>6, <3>1, <3>2, Zenon
    <3>4. proc'.mem["sessions"] = proc.mem["sessions"] /\ proc'.mem["quota"] = proc.mem["quota"]
      BY <1>6, <1>7, <3>1, Zenon
    <3> QED BY <1>1, <2>3, <3>3, <3>4 DEF ProcInv, ProcShape, HistoryKept
  <2>4. CASE i > 3
    <3>1. f \notin {"quota", "sessions", "history"}
      BY <1>4a, <1>2, <2>4, FileIndex, SMTT(30)
    <3> QED BY <1>1, <1>2, <1>6, <1>7, <2>4, <3>1, SMTT(30) DEF ProcInv, ProcShape, HistoryKept
  <2> QED BY <1>2, <2>1, <2>2, <2>3, <2>4, SMTT(30)
<1>9. ProcShape'
  BY <1>4, <1>5, <1>6, <1>8, Zenon DEF ProcInv, ProcShape, ProcRecord, Phases
<1>10. WriterShape'
  BY <1>5, Zenon DEF ProcInv, WriterShape
<1>11. Loading'
  <2>1. \A w \in Writers : proc.writers[w].todo = <<>>
    BY <1>4, Zenon DEF ProcInv, Loading
  <2>2. i + 1 \in 1 .. 6
    BY <1>2
  <2> QED BY <1>4, <1>5, <1>8, <2>1, <2>2, Zenon DEF Loading
<1>12. QuotaAhead'
  BY <1>4, <1>5, <1>8, Zenon DEF ProcInv, QuotaAhead
<1>13. Saved'
  BY <1>5, Zenon DEF Saved
<1> QED BY <1>8, <1>9, <1>10, <1>11, <1>12, <1>13, Zenon DEF ProcInv

\* A step of a running process that leaves writers and files alone, and under
\* which the quota does not fall.
LEMMA ProcRewrites ==
    ASSUME ProcInv, ProcRecord(proc'), proc'.writers = proc.writers, disk' = disk,
           proc'.pc = proc.pc, proc.pc \in Up, IsStore(proc'.mem),
           proc'.mem["sessions"] \subseteq Chats,
           proc'.mem["history"] = [s \in Chats |-> proc'.mem["history"][s]],
           proc'.mem["quota"] \in Nat, proc'.mem["quota"] >= proc.mem["quota"]
    PROVE  ProcShape' /\ WriterShape' /\ Loading' /\ QuotaAhead'
<1>1. ProcShape'
  BY Zenon DEF ProcInv, ProcShape, ProcRecord, Phases
<1>2. WriterShape'
  BY Zenon DEF ProcInv, WriterShape
<1>3. Loading'
  BY Zenon DEF Loading, Up
<1>4. QuotaAhead'
  <2>1. proc.mem["quota"] \in Nat /\ disk.data["quota"] \in Nat
    BY Zenon DEF ProcInv, QuotaAhead
  <2>2. \A w \in Writers : proc.writers[w].hold # <<>> /\ Head(proc.writers[w].todo) = "quota"
                             => proc.writers[w].hold[1] \in Nat
    BY Zenon DEF ProcInv, QuotaAhead
  <2>3. ASSUME proc.pc \in {"serving", "drain", "grpc"}
        PROVE  /\ proc.writers["main"].todo = <<>>
               /\ disk.data["quota"] <= proc'.mem["quota"]
               /\ proc.writers["quota"].hold # <<>> =>
                     /\ disk.data["quota"] <= proc.writers["quota"].hold[1]
                     /\ proc.writers["quota"].hold[1] <= proc'.mem["quota"]
    <3>1. /\ proc.writers["main"].todo = <<>> /\ disk.data["quota"] <= proc.mem["quota"]
          /\ proc.writers["quota"].hold # <<>> =>
                /\ disk.data["quota"] <= proc.writers["quota"].hold[1]
                /\ proc.writers["quota"].hold[1] <= proc.mem["quota"]
      BY <2>3, Zenon DEF ProcInv, QuotaAhead
    <3>2. proc.writers["quota"].hold # <<>> => proc.writers["quota"].hold[1] \in Nat
      <4>1. "quota" \in Writers /\ proc.writers["quota"].todo \in Todos("quota")
        BY Zenon DEF ProcInv, WriterShape, Writers, Tickers
      <4>2. Todos("quota") = {<<>>, <<"quota">>}
        BY Zenon DEF Todos
      <4>3. proc.writers["quota"].hold # <<>> => Head(proc.writers["quota"].todo) = "quota"
        BY <4>1, <4>2 DEF ProcInv, WriterShape
      <4> QED BY <2>2, <4>1, <4>3, Zenon
    <3> QED BY <2>1, <3>1, <3>2
  <2> QED BY <2>1, <2>2, <2>3, Zenon DEF QuotaAhead
<1> QED BY <1>1, <1>2, <1>3, <1>4, Zenon

\* The usage snapshotter: under a final checkpoint that is past the usage file
\* it finds nothing to change.
LEMMA ProcSamples == ASSUME ProcInv, sampleUsage PROVE ProcInv'
<1>1. /\ ProcRecord(proc') /\ proc'.mem = [proc.mem EXCEPT !["usage"] = proc.mem["quota"]]
      /\ proc'.writers = proc.writers /\ disk' = disk /\ proc'.http = proc.http /\ proc'.clean = proc.clean
      /\ proc'.pc = proc.pc /\ proc.pc \in Up /\ proc.mem["usage"] # proc.mem["quota"]
  BY Zenon DEF sampleUsage, Mem, ProcInv, ProcShape, ProcRecord, Phases
<1>2. IsStore(proc'.mem) /\ \A g \in Files : g # "usage" => proc'.mem[g] = proc.mem[g]
  BY <1>1, StorePut DEF ProcInv, ProcShape, Files
<1>3. /\ proc'.mem["sessions"] = proc.mem["sessions"] /\ proc'.mem["quota"] = proc.mem["quota"]
      /\ proc'.mem["history"] = proc.mem["history"]
  BY <1>2, Zenon DEF Files
<1>4. proc.mem["quota"] \in Nat
  BY Zenon DEF ProcInv, QuotaAhead
<1>5. ProcShape' /\ WriterShape' /\ Loading' /\ QuotaAhead'
  BY <1>1, <1>2, <1>3, <1>4, ProcRewrites, SMTT(30) DEF ProcInv, ProcShape
<1>6. HistoryKept'
  BY <1>3, Zenon DEF ProcInv, HistoryKept
<1>7. Saved'
  <2>1. ASSUME proc.pc = "final", proc.clean
        PROVE  /\ \A w \in Tickers : proc.writers[w].todo = <<>>
               /\ \E i \in 1 .. 6 :
                    /\ proc.writers["main"].todo = Left(i)
                    /\ \A k \in 1 .. i - 1 : disk.data[BootOrder[k]] = proc'.mem[BootOrder[k]]
                    /\ proc.writers["main"].hold # <<>> => proc.writers["main"].hold[1] = proc'.mem[BootOrder[i]]
                    /\ i = 6 \/ (i = 5 /\ proc.writers["main"].hold # <<>>)
                         => proc'.mem["usage"] = proc'.mem["quota"]
    <3>1. PICK i \in 1 .. 6 :
            /\ proc.writers["main"].todo = Left(i)
            /\ \A k \in 1 .. i - 1 : disk.data[BootOrder[k]] = proc.mem[BootOrder[k]]
            /\ proc.writers["main"].hold # <<>> => proc.writers["main"].hold[1] = proc.mem[BootOrder[i]]
            /\ i = 6 \/ (i = 5 /\ proc.writers["main"].hold # <<>>) => proc.mem["usage"] = proc.mem["quota"]
      BY <2>1, Zenon DEF ProcInv, Saved
    <3>2. i # 6 /\ ~(i = 5 /\ proc.writers["main"].hold # <<>>)
      BY <1>1, <3>1, Zenon
    <3>3. \A k \in 1 .. 4 : proc'.mem[BootOrder[k]] = proc.mem[BootOrder[k]]
      BY <1>2, FileIndex DEF Files
    <3>4. \A k \in 1 .. i - 1 : proc'.mem[BootOrder[k]] = proc.mem[BootOrder[k]]
      BY <3>2, <3>3
    <3>5. proc.writers["main"].hold # <<>> => proc'.mem[BootOrder[i]] = proc.mem[BootOrder[i]]
      BY <3>2, <3>3
    <3>6. \A w \in Tickers : proc.writers[w].todo = <<>>
      BY <2>1, Zenon DEF ProcInv, Saved
    <3> QED BY <3>1, <3>2, <3>4, <3>5, <3>6, Zenon
  <2>2. proc'.pc \in {"grpc", "final"} /\ proc'.clean => proc'.http = {}
    BY <1>1, Zenon DEF ProcInv, Saved
  <2>3. proc'.pc # "exited"
    BY <1>1, Zenon DEF Up
  <2> QED BY <1>1, <2>1, <2>2, <2>3, ZenonT(40) DEF Saved
<1> QED BY <1>5, <1>6, <1>7, Zenon DEF ProcInv

\* A request that changes a store.  None is left once the drain has ended
\* cleanly, so no clean shutdown sees one.
LEMMA ProcHandles ==
    ASSUME ProcInv, NEW c \in Clients, NEW f, NEW mem, Handle(c, f, mem), IsStore(mem),
           mem["sessions"] \subseteq Chats,
           mem["history"] = [s \in Chats |-> mem["history"][s]],
           \A s \in Chats : mem["history"][s] > 0 => s \in mem["sessions"],
           mem["quota"] \in Nat, mem["quota"] >= proc.mem["quota"]
    PROVE  ProcInv'
<1>1. /\ ProcRecord(proc') /\ proc'.mem = mem /\ proc'.writers = proc.writers /\ disk' = disk
      /\ proc'.pc = proc.pc /\ proc.pc \in Up /\ proc'.clean = proc.clean /\ c \in proc.http
  BY Zenon DEF Handle, ProcInv, ProcShape, ProcRecord, Phases
<1>2. ProcShape' /\ WriterShape' /\ Loading' /\ QuotaAhead'
  BY <1>1, ProcRewrites, Zenon
<1>3. HistoryKept'
  BY <1>1, Zenon DEF HistoryKept
<1>4. Saved'
  <2>1. ~(proc.pc \in {"grpc", "final"} /\ proc.clean)
    BY <1>1, Zenon DEF ProcInv, Saved
  <2> QED BY <1>1, <2>1, Zenon DEF Saved, Up
<1> QED BY <1>2, <1>3, <1>4, Zenon DEF ProcInv

LEMMA ProcInfers == ASSUME ProcInv, NEW c \in Clients, Infer(c) PROVE ProcInv'
<1> DEFINE mem == [proc.mem EXCEPT !["quota"] = proc.mem["quota"] + 1]
<1>1. Handle(c, "quota", mem)
  BY Zenon DEF Infer
<1>2. /\ IsStore(mem) /\ mem["quota"] = proc.mem["quota"] + 1
      /\ mem["sessions"] = proc.mem["sessions"] /\ mem["history"] = proc.mem["history"]
  BY StorePut, SMTT(30) DEF ProcInv, ProcShape, Files
<1> HIDE DEF mem
<1>3. mem["quota"] \in Nat /\ mem["quota"] >= proc.mem["quota"]
  BY <1>2 DEF ProcInv, QuotaAhead
<1>4. /\ mem["sessions"] \subseteq Chats /\ mem["history"] = [s \in Chats |-> mem["history"][s]]
      /\ \A s \in Chats : mem["history"][s] > 0 => s \in mem["sessions"]
  BY <1>2, Zenon DEF ProcInv, ProcShape, HistoryKept
<1> QED BY <1>1, <1>2, <1>3, <1>4, ProcHandles, Zenon

LEMMA ProcAdministers == ASSUME ProcInv, NEW c \in Clients, Administer(c) PROVE ProcInv'
<1>1. PICK log : Handle(c, "audit", [proc.mem EXCEPT !["audit"] = log])
  BY Zenon DEF Administer
<1> DEFINE mem == [proc.mem EXCEPT !["audit"] = log]
<1>2. Handle(c, "audit", mem)
  BY <1>1, Zenon
<1>3. /\ IsStore(mem) /\ mem["quota"] = proc.mem["quota"]
      /\ mem["sessions"] = proc.mem["sessions"] /\ mem["history"] = proc.mem["history"]
  BY StorePut, SMTT(30) DEF ProcInv, ProcShape, Files
<1> HIDE DEF mem
<1>4. mem["quota"] \in Nat /\ mem["quota"] >= proc.mem["quota"]
  BY <1>3 DEF ProcInv, QuotaAhead
<1>5. /\ mem["sessions"] \subseteq Chats /\ mem["history"] = [s \in Chats |-> mem["history"][s]]
      /\ \A s \in Chats : mem["history"][s] > 0 => s \in mem["sessions"]
  BY <1>3, Zenon DEF ProcInv, ProcShape, HistoryKept
<1> QED BY <1>2, <1>3, <1>4, <1>5, ProcHandles, Zenon

\* Sessions: created, spoken to and ended, history and all.
LEMMA ProcTalks ==
    ASSUME ProcInv, NEW c \in Clients, NEW s \in Chats,
           CreateSession(c, s) \/ Say(c, s) \/ EndSession(c, s)
    PROVE  ProcInv'
<1>1. IsStore(proc.mem) /\ DOMAIN proc.mem = Files /\ {"quota", "sessions", "history"} \subseteq Files
  BY Zenon DEF ProcInv, ProcShape, IsStore, Files
<1>2. /\ proc.mem["sessions"] \subseteq Chats
      /\ proc.mem["history"] = [t \in Chats |-> proc.mem["history"][t]]
      /\ \A t \in Chats : proc.mem["history"][t] > 0 => t \in proc.mem["sessions"]
  BY Zenon DEF ProcInv, ProcShape, HistoryKept
<1>3. proc.mem["quota"] \in Nat
  BY Zenon DEF ProcInv, QuotaAhead
<1>4. CASE CreateSession(c, s)
  <2> DEFINE mem == [proc.mem EXCEPT !["sessions"] = proc.mem["sessions"] \cup {s}]
  <2>1. Handle(c, "sessions", mem)
    BY <1>4, Zenon DEF CreateSession
  <2>2. /\ IsStore(mem) /\ mem["sessions"] = proc.mem["sessions"] \cup {s}
        /\ mem["quota"] = proc.mem["quota"] /\ mem["history"] = proc.mem["history"]
    BY <1>1, StorePut, Zenon
  <2> HIDE DEF mem
  <2>3. mem["sessions"] \subseteq Chats
    BY <1>2, <2>2, Zenon
  <2>4. \A t \in Chats : mem["history"][t] > 0 => t \in mem["sessions"]
    BY <1>2, <2>2, Zenon
  <2>5. mem["history"] = [t \in Chats |-> mem["history"][t]]
    BY <1>2, <2>2, Zenon
  <2>6. mem["quota"] \in Nat /\ mem["quota"] >= proc.mem["quota"]
    BY <1>3, <2>2, SMTT(30)
  <2> QED BY <2>1, <2>2, <2>3, <2>4, <2>5, <2>6, ProcHandles, Zenon
<1>5. CASE Say(c, s)
  <2> DEFINE mem == [proc.mem EXCEPT !["history"][s] = proc.mem["history"][s] + 1]
  <2>1. Handle(c, "history", mem) /\ s \in proc.mem["sessions"]
    BY <1>5, Zenon DEF Say, Mem
  <2>2. /\ IsStore(mem) /\ mem["sessions"] = proc.mem["sessions"] /\ mem["quota"] = proc.mem["quota"]
        /\ mem["history"] = [proc.mem["history"] EXCEPT ![s] = proc.mem["history"][s] + 1]
    BY <1>1, Zenon DEF IsStore
  <2> HIDE DEF mem
  <2>3. mem["history"] = [t \in Chats |-> mem["history"][t]]
    BY <1>2, <2>2, Zenon
  <2>4. \A t \in Chats : mem["history"][t] > 0 => t \in mem["sessions"]
    BY <1>2, <2>1, <2>2, Zenon
  <2>5. mem["quota"] \in Nat /\ mem["quota"] >= proc.mem["quota"] /\ mem["sessions"] \subseteq Chats
    BY <1>2, <1>3, <2>2, SMTT(30)
  <2> QED BY <2>1, <2>2, <2>3, <2>4, <2>5, ProcHandles, Zenon
<1>6. CASE EndSession(c, s)
  <2> DEFINE mem == [proc.mem EXCEPT !["sessions"] = proc.mem["sessions"] \ {s}, !["history"][s] = 0]
  <2>1. Handle(c, "sessions", mem)
    BY <1>6, Zenon DEF EndSession
  <2>2. /\ IsStore(mem) /\ mem["sessions"] = proc.mem["sessions"] \ {s} /\ mem["quota"] = proc.mem["quota"]
        /\ mem["history"] = [proc.mem["history"] EXCEPT ![s] = 0]
    BY <1>1, Zenon DEF IsStore
  <2> HIDE DEF mem
  <2>3. mem["history"] = [t \in Chats |-> mem["history"][t]] /\ mem["history"][s] = 0
    BY <1>2, <2>2, Zenon
  <2>4. \A t \in Chats : mem["history"][t] > 0 => t \in mem["sessions"]
    BY <1>2, <2>2, <2>3, SMTT(30)
  <2>5. mem["quota"] \in Nat /\ mem["quota"] >= proc.mem["quota"] /\ mem["sessions"] \subseteq Chats
    BY <1>2, <1>3, <2>2
  <2> QED BY <2>1, <2>2, <2>3, <2>4, <2>5, ProcHandles, Zenon
<1> QED BY <1>4, <1>5, <1>6, Zenon

\* One writer moves on.
LEMMA WriterPut ==
    ASSUME WriterShape, NEW w \in Writers, NEW t \in Todos(w), NEW h,
           h = <<>> \/ (t # <<>> /\ h = <<h[1]>>),
           proc'.writers = [proc.writers EXCEPT ![w] = [todo |-> t, hold |-> h]]
    PROVE  /\ WriterShape' /\ proc'.writers[w].todo = t /\ proc'.writers[w].hold = h
           /\ \A v \in Writers : v # w => proc'.writers[v] = proc.writers[v]
<1>1. DOMAIN proc.writers = Writers
  BY Zenon DEF WriterShape
<1>2. /\ proc'.writers[w] = [todo |-> t, hold |-> h]
      /\ \A v \in Writers : v # w => proc'.writers[v] = proc.writers[v]
      /\ proc'.writers = [v \in Writers |-> proc'.writers[v]]
  BY <1>1, Zenon
<1>3. proc'.writers[w].todo = t /\ proc'.writers[w].hold = h
  BY <1>2
<1>4. \A v \in Writers : proc.writers[v] = [todo |-> proc.writers[v].todo, hold |-> proc.writers[v].hold]
  BY Zenon DEF WriterShape
<1>5. \A v \in Writers : proc'.writers[v] = [todo |-> proc'.writers[v].todo, hold |-> proc'.writers[v].hold]
  <2> TAKE v \in Writers
  <2>1. CASE v = w
    BY <1>2, <1>3, <2>1, Zenon
  <2>2. CASE v # w
    BY <1>2, <1>4, <2>2, Zenon
  <2> QED BY <2>1, <2>2, Zenon
<1>6. proc'.writers = [v \in Writers |-> [todo |-> proc'.writers[v].todo, hold |-> proc'.writers[v].hold]]
  BY <1>2, <1>5, Zenon
<1>7. ASSUME NEW v \in Writers
      PROVE  /\ proc'.writers[v].todo \in Todos(v)
             /\ \/ proc'.writers[v].hold = <<>>
                \/ proc'.writers[v].todo # <<>> /\ proc'.writers[v].hold = <<proc'.writers[v].hold[1]>>
  <2>1. CASE v = w
    BY <1>3, <2>1, Zenon
  <2>2. CASE v # w
    BY <1>2, <2>2, Zenon DEF WriterShape
  <2> QED BY <2>1, <2>2, Zenon
<1> QED BY <1>2, <1>3, <1>6, <1>7, Zenon DEF WriterShape

LEMMA WriterNames ==
    /\ Tickers \subseteq Writers /\ "main" \in Writers /\ "main" \notin Tickers
    /\ \A w \in Writers : w # "main" => w \in Tickers
  BY Zenon DEF Writers, Tickers

\* What a writer may have before it, and what it has left after its first file.
LEMMA TodoParts ==
    ASSUME NEW w \in Writers, NEW t \in Todos(w)
    PROVE  t # <<>> => /\ Tail(t) \in Todos(w) /\ Head(t) \in Files
                       /\ w \notin {"main", "quota"} => Head(t) # "quota"
                       /\ w = "quota" => Head(t) = "quota"
<1>1. CASE w = "main"
  <2>1. PICK i \in 1 .. 6 : t = Left(i)
    BY <1>1, Zenon DEF Todos
  <2>2. t # <<>> => i \in 1 .. 5 /\ i + 1 \in 1 .. 6
    BY <2>1, LeftEnds
  <2>3. t # <<>> => Tail(t) = Left(i + 1) /\ Head(t) \in Files
    BY <2>1, <2>2, LeftParts, Zenon
  <2>4. \A j \in 1 .. 6 : Left(j) \in Todos(w)
    BY <1>1, Zenon DEF Todos
  <2> QED BY <1>1, <2>2, <2>3, <2>4, Zenon
<1>2. CASE w = "session"
  <2>1. t \in {<<>>, <<"history">>, <<"sessions", "history">>} /\ Todos(w) = {<<>>, <<"history">>, <<"sessions", "history">>}
    BY <1>2, Zenon DEF Todos
  <2>2. Tail(<<"history">>) = <<>> /\ Head(<<"history">>) = "history"
    OBVIOUS
  <2>3. Tail(<<"sessions", "history">>) = <<"history">> /\ Head(<<"sessions", "history">>) = "sessions"
    OBVIOUS
  <2>4. "history" \in Files /\ "sessions" \in Files /\ "history" # "quota" /\ "sessions" # "quota" /\ w # "quota"
    BY <1>2, Zenon DEF Files
  <2> QED BY <2>1, <2>2, <2>3, <2>4, Zenon
<1>3. CASE w \in {"quota", "audit", "usage"}
  <2>1. t \in {<<>>, <<w>>} /\ Todos(w) = {<<>>, <<w>>}
    BY <1>3, Zenon DEF Todos
  <2>2. Tail(<<w>>) = <<>> /\ Head(<<w>>) = w
    OBVIOUS
  <2>3. w \in Files
    BY <1>3, Zenon DEF Files
  <2> QED BY <2>1, <2>2, <2>3, Zenon
<1> QED BY <1>1, <1>2, <1>3, Zenon DEF Writers, Tickers

LEMMA TickerTodo == \A w \in Tickers : FilesOf(w) \in Todos(w) /\ FilesOf(w) # <<>>
  BY Zenon DEF Tickers, FilesOf, Todos

LEMMA OrderDistinct == \A i, k \in 1 .. 5 : i # k => BootOrder[i] # BootOrder[k]
  BY FileIndex

\* A ticker fires: it has not yet read anything.
LEMMA ProcTicks == ASSUME ProcInv, NEW w \in Tickers, Tick(w) PROVE ProcInv'
<1>1. w \in Writers /\ w # "main" /\ FilesOf(w) \in Todos(w)
  BY WriterNames, TickerTodo, Zenon
<1>2. /\ proc.writers = [v \in Writers |-> proc.writers[v]] /\ proc.writers[w].todo = <<>>
      /\ proc.writers[w] = [todo |-> proc.writers[w].todo, hold |-> proc.writers[w].hold]
      /\ proc.writers[w].hold = <<>>
  BY <1>1, Zenon DEF ProcInv, WriterShape, Tick
<1>3. /\ ProcRecord(proc') /\ proc'.mem = proc.mem /\ disk' = disk /\ proc'.http = proc.http
      /\ proc'.pc = proc.pc /\ proc.pc \in Up /\ (proc'.clean => proc.clean /\ proc.pc # "final")
      /\ proc'.writers = [proc.writers EXCEPT ![w].todo = FilesOf(w)]
  BY Zenon DEF Tick, ProcInv, ProcShape, ProcRecord, Phases
<1>4. proc'.writers = [proc.writers EXCEPT ![w] = [todo |-> FilesOf(w), hold |-> <<>>]]
  BY <1>1, <1>2, <1>3, Zenon
<1>5. /\ WriterShape' /\ proc'.writers[w].hold = <<>>
      /\ \A v \in Writers : v # w => proc'.writers[v] = proc.writers[v]
  BY <1>1, <1>4, WriterPut, SMTT(30) DEF ProcInv
<1>6. ProcShape' /\ HistoryKept'
  BY <1>3, Zenon DEF ProcInv, ProcShape, ProcRecord, Phases, HistoryKept
<1>7. Loading' /\ Saved'
  BY <1>3, Zenon DEF ProcInv, Loading, Saved, Up
<1>8. QuotaAhead'
  <2>1. \A v \in Writers : proc'.writers[v].hold # <<>> => proc'.writers[v] = proc.writers[v]
    BY <1>5, Zenon
  <2>2. "quota" \in Writers /\ proc'.writers["main"] = proc.writers["main"]
    BY <1>1, <1>5, WriterNames, Zenon DEF Writers, Tickers
  <2> QED BY <1>3, <2>1, <2>2, Zenon DEF ProcInv, QuotaAhead
<1> QED BY <1>5, <1>6, <1>7, <1>8, Zenon DEF ProcInv

\* The drain is over and the workers are gone: the final checkpoints are next.
LEMMA ProcStops == ASSUME ProcInv, GracefulStop PROVE ProcInv'
<1>1. "main" \in Writers /\ FilesOf("main") = Left(1) /\ Left(1) \in Todos("main")
  BY WriterNames, LeftEnds, SMTT(30) DEF Todos
<1>2. proc.writers["main"].todo = <<>> /\ proc.writers["main"].hold = <<>>
  BY <1>1, Zenon DEF ProcInv, WriterShape, QuotaAhead, GracefulStop
<1>3. /\ proc.writers = [v \in Writers |-> proc.writers[v]]
      /\ proc.writers["main"] = [todo |-> proc.writers["main"].todo, hold |-> proc.writers["main"].hold]
  BY <1>1, Zenon DEF ProcInv, WriterShape
<1>4. /\ ProcRecord(proc') /\ proc'.mem = proc.mem /\ disk' = disk /\ proc'.http = proc.http
      /\ proc'.pc = "final" /\ proc.pc = "grpc"
      /\ proc'.clean => proc.clean /\ \A w \in Tickers : proc.writers[w].todo = <<>>
      /\ proc'.writers = [proc.writers EXCEPT !["main"].todo = FilesOf("main")]
  BY Zenon DEF GracefulStop, ProcInv, ProcShape, ProcRecord, Phases
<1>5. proc'.writers = [proc.writers EXCEPT !["main"] = [todo |-> Left(1), hold |-> <<>>]]
  BY <1>1, <1>2, <1>3, <1>4, Zenon
<1>6. /\ WriterShape' /\ proc'.writers["main"].todo = Left(1) /\ proc'.writers["main"].hold = <<>>
      /\ \A v \in Writers : v # "main" => proc'.writers[v] = proc.writers[v]
  BY <1>1, <1>5, WriterPut, SMTT(30) DEF ProcInv
<1>7. ProcShape' /\ HistoryKept'
  BY <1>4, Zenon DEF ProcInv, ProcShape, ProcRecord, Phases, HistoryKept
<1>8. Loading'
  BY <1>4, Zenon DEF Loading
<1>9. QuotaAhead'
  <2>1. \A v \in Writers : proc'.writers[v].hold # <<>> => proc'.writers[v] = proc.writers[v]
    BY <1>6, Zenon
  <2>2. proc'.pc \notin {"serving", "drain", "grpc"}
    BY <1>4, Zenon
  <2> QED BY <1>4, <2>1, <2>2, Zenon DEF ProcInv, QuotaAhead
<1>10. Saved'
  <2>1. \A w \in Tickers : proc'.writers[w] = proc.writers[w]
    BY <1>6, WriterNames, Zenon
  <2>2. 1 \in 1 .. 6 /\ (\A k \in 1 .. 1 - 1 : FALSE) /\ 1 # 5 /\ 1 # 6
    OBVIOUS
  <2>3. proc'.clean => proc'.http = {}
    BY <1>4, Zenon DEF ProcInv, Saved
  <2>4. proc'.pc # "exited"
    BY <1>4, Zenon
  <2> QED BY <1>4, <1>6, <2>1, <2>2, <2>3, <2>4, Zenon DEF Saved
<1> QED BY <1>6, <1>7, <1>8, <1>9, <1>10, Zenon DEF ProcInv

\* A writer takes a snapshot.  The shutdown path samples the usage before its
\* last one.
LEMMA ProcSnapshots == ASSUME ProcInv, NEW w \in Writers, Snapshot(w) PROVE ProcInv'
<1> DEFINE f == Head(proc.writers[w].todo)
           mem == IF w = "main" /\ f = "usage" THEN [proc.mem EXCEPT !["usage"] = proc.mem["quota"]] ELSE proc.mem
           h == <<mem[f]>>
<1>1. /\ proc.writers = [v \in Writers |-> proc.writers[v]] /\ proc.writers[w].todo \in Todos(w)
      /\ proc.writers[w] = [todo |-> proc.writers[w].todo, hold |-> proc.writers[w].hold]
  BY Zenon DEF ProcInv, WriterShape
<1>2. proc.pc \in Up /\ proc.writers[w].todo # <<>> /\ disk' = disk
  BY Zenon DEF Snapshot
<1>3. /\ f \in Files /\ (w \notin {"main", "quota"} => f # "quota") /\ (w = "quota" => f = "quota")
  BY <1>1, <1>2, TodoParts, Zenon
<1>4. proc' = [proc EXCEPT !.writers[w].hold = h, !.mem = mem]
  BY Zenon DEF Snapshot, Mem
<1>5. /\ IsStore(mem) /\ \A g \in Files : g # "usage" => mem[g] = proc.mem[g]
      /\ ~(w = "main" /\ f = "usage") => mem = proc.mem
      /\ w = "main" /\ f = "usage" => mem["usage"] = proc.mem["quota"]
  <2>1. IsStore(proc.mem) /\ "usage" \in Files
    BY Zenon DEF ProcInv, ProcShape, Files
  <2> QED BY <2>1, StorePut, SMTT(30)
<1> HIDE DEF mem, f
<1>6. h = <<h[1]>> /\ h # <<>> /\ h[1] = mem[f]
  BY Zenon
<1> HIDE DEF h
<1>7. /\ ProcRecord(proc') /\ proc'.mem = mem /\ proc'.http = proc.http
      /\ proc'.pc = proc.pc /\ proc'.clean = proc.clean
      /\ proc'.writers = [proc.writers EXCEPT ![w].hold = h]
  BY <1>4, Zenon DEF ProcInv, ProcShape, ProcRecord, Phases
<1>8. proc'.writers = [proc.writers EXCEPT ![w] = [todo |-> proc.writers[w].todo, hold |-> h]]
  BY <1>1, <1>7, Zenon
<1>9. /\ WriterShape' /\ proc'.writers[w].todo = proc.writers[w].todo /\ proc'.writers[w].hold = h
      /\ \A v \in Writers : v # w => proc'.writers[v] = proc.writers[v]
  BY <1>1, <1>2, <1>6, <1>8, WriterPut, SMTT(30) DEF ProcInv
<1>10. mem["sessions"] = proc.mem["sessions"] /\ mem["history"] = proc.mem["history"] /\ mem["quota"] = proc.mem["quota"]
  BY <1>5, Zenon DEF Files
<1>11. ProcShape'
  BY <1>2, <1>5, <1>7, <1>10, Zenon DEF ProcInv, ProcShape, ProcRecord, Phases
<1>12. HistoryKept'
  BY <1>7, <1>10, Zenon DEF ProcInv, HistoryKept
<1>13. Loading'
  BY <1>2, <1>7, Zenon DEF Loading, Up
<1>14. QuotaAhead'
  <2>1. proc.mem["quota"] \in Nat /\ disk.data["quota"] \in Nat
    BY Zenon DEF ProcInv, QuotaAhead
  <2>2. f = "quota" => h[1] = proc.mem["quota"]
    BY <1>6, <1>10, Zenon
  <2>3. ASSUME NEW v \in Writers, proc'.writers[v].hold # <<>>, Head(proc'.writers[v].todo) = "quota"
        PROVE  proc'.writers[v].hold[1] \in Nat
    <3>1. CASE v = w
      BY <1>9, <2>1, <2>2, <2>3, <3>1, Zenon DEF f
    <3>2. CASE v # w
      BY <1>9, <2>3, <3>2, Zenon DEF ProcInv, QuotaAhead
    <3> QED BY <3>1, <3>2, Zenon
  <2>4. ASSUME proc.pc \in {"serving", "drain", "grpc"}
        PROVE  /\ proc'.writers["main"].todo = <<>>
               /\ disk.data["quota"] <= proc.mem["quota"]
               /\ proc'.writers["quota"].hold # <<>> =>
                     /\ disk.data["quota"] <= proc'.writers["quota"].hold[1]
                     /\ proc'.writers["quota"].hold[1] <= proc.mem["quota"]
    <3>1. /\ proc.writers["main"].todo = <<>> /\ disk.data["quota"] <= proc.mem["quota"]
          /\ proc.writers["quota"].hold # <<>> =>
                /\ disk.data["quota"] <= proc.writers["quota"].hold[1]
                /\ proc.writers["quota"].hold[1] <= proc.mem["quota"]
      BY <2>4, Zenon DEF ProcInv, QuotaAhead
    <3>2. w # "main" /\ proc'.writers["main"] = proc.writers["main"] /\ "quota" \in Writers
      BY <1>2, <1>9, <3>1, WriterNames, Zenon DEF Writers, Tickers
    <3>3. CASE w = "quota"
      <4>1. proc'.writers["quota"].hold[1] = proc.mem["quota"]
        BY <1>3, <1>9, <2>2, <3>3, Zenon
      <4> QED BY <2>1, <3>1, <3>2, <4>1
    <3>4. CASE w # "quota"
      <4>1. proc'.writers["quota"] = proc.writers["quota"]
        BY <1>9, <3>2, <3>4, Zenon
      <4> QED BY <3>1, <3>2, <4>1, Zenon
    <3> QED BY <3>3, <3>4, Zenon
  <2> QED BY <1>2, <1>7, <1>10, <2>1, <2>3, <2>4, Zenon DEF QuotaAhead
<1>15. Saved'
  <2>1. ASSUME proc.pc = "final", proc.clean
        PROVE  /\ \A v \in Tickers : proc'.writers[v].todo = <<>>
               /\ \E i \in 1 .. 6 :
                    /\ proc'.writers["main"].todo = Left(i)
                    /\ \A k \in 1 .. i - 1 : disk.data[BootOrder[k]] = proc'.mem[BootOrder[k]]
                    /\ proc'.writers["main"].hold # <<>> => proc'.writers["main"].hold[1] = proc'.mem[BootOrder[i]]
                    /\ i = 6 \/ (i = 5 /\ proc'.writers["main"].hold # <<>>)
                         => proc'.mem["usage"] = proc'.mem["quota"]
    <3>1. \A v \in Tickers : proc.writers[v].todo = <<>>
      BY <2>1, Zenon DEF ProcInv, Saved
    <3>2. w = "main"
      BY <1>2, <3>1, WriterNames, Zenon
    <3>3. PICK i \in 1 .. 6 :
            /\ proc.writers["main"].todo = Left(i)
            /\ \A k \in 1 .. i - 1 : disk.data[BootOrder[k]] = proc.mem[BootOrder[k]]
      BY <2>1, Zenon DEF ProcInv, Saved
    <3>4. i \in 1 .. 5 /\ f = BootOrder[i]
      <4>1. i # 6
        BY <1>2, <3>2, <3>3, LeftEnds, Zenon
      <4>2. i \in 1 .. 5
        BY <4>1, SMTT(30)
      <4> QED BY <3>2, <3>3, <4>2, LeftParts, Zenon DEF f
    <3>5. \A k \in 1 .. 4 : mem[BootOrder[k]] = proc.mem[BootOrder[k]]
      BY <1>5, FileIndex, SMTT(30) DEF Files
    <3>6. \A k \in 1 .. i - 1 : mem[BootOrder[k]] = proc.mem[BootOrder[k]]
      BY <3>4, <3>5
    <3>7. i = 5 => mem["usage"] = mem["quota"]
      BY <1>5, <1>10, <3>2, <3>4, FileIndex, Zenon
    <3>8. \A v \in Tickers : proc'.writers[v].todo = <<>>
      BY <1>9, <3>1, <3>2, WriterNames, Zenon
    <3>9. i # 6
      BY <3>4
    <3>10. proc'.writers["main"].todo = Left(i) /\ proc'.writers["main"].hold[1] = proc'.mem[BootOrder[i]]
      BY <1>6, <1>7, <1>9, <3>2, <3>3, <3>4, Zenon
    <3>11. \A k \in 1 .. i - 1 : disk.data[BootOrder[k]] = proc'.mem[BootOrder[k]]
      <4>1. proc'.mem = mem
        BY <1>7, Zenon
      <4> QED BY <3>3, <3>6, <4>1
    <3>12. i = 5 => proc'.mem["usage"] = proc'.mem["quota"]
      BY <1>7, <3>7, Zenon
    <3> QED BY <3>8, <3>9, <3>10, <3>11, <3>12, Zenon
  <2>2. proc'.pc \in {"grpc", "final"} /\ proc'.clean => proc'.http = {}
    BY <1>7, Zenon DEF ProcInv, Saved
  <2>3. proc'.pc # "exited"
    BY <1>2, <1>7, Zenon DEF Up
  <2> QED BY <1>2, <1>7, <2>1, <2>2, <2>3, Zenon DEF Saved
<1> QED BY <1>9, <1>11, <1>12, <1>13, <1>14, <1>15, Zenon DEF ProcInv

\* A checkpoint is written, or is not.  A final one that is not is no clean exit.
LEMMA ProcWrites ==
    ASSUME ProcInv, NEW w \in Writers, writeCheckpoint(w)
    PROVE  ProcInv' /\ (proc.pc = "serving" => disk'.data["quota"] >= disk.data["quota"])
<1> DEFINE x == proc.writers[w]
           f == Head(proc.writers[w].todo)
           v == proc.writers[w].hold[1]
<1>1. /\ proc.writers = [u \in Writers |-> proc.writers[u]] /\ x.todo \in Todos(w)
      /\ x = [todo |-> x.todo, hold |-> x.hold]
      /\ proc.pc \in Up /\ x.hold # <<>> /\ x.todo # <<>>
  BY Zenon DEF ProcInv, WriterShape, writeCheckpoint
<1>2. /\ f \in Files /\ (w \notin {"main", "quota"} => f # "quota") /\ (w = "quota" => f = "quota")
      /\ Tail(x.todo) \in Todos(w)
  BY <1>1, TodoParts, Zenon
<1>3. PICK ok \in BOOLEAN :
        /\ disk' = IF ok THEN [disk EXCEPT !.data[f] = v] ELSE disk
        /\ proc' = [proc EXCEPT !.writers[w] = [todo |-> Tail(x.todo), hold |-> <<>>],
                                !.clean = proc.clean /\ (ok \/ w # "main")]
  BY Zenon DEF writeCheckpoint
<1>4. /\ ProcRecord(proc') /\ proc'.mem = proc.mem /\ proc'.http = proc.http /\ proc'.pc = proc.pc
      /\ proc'.clean => proc.clean /\ (ok \/ w # "main")
      /\ proc'.writers = [proc.writers EXCEPT ![w] = [todo |-> Tail(x.todo), hold |-> <<>>]]
  <2> HIDE DEF f, v
  <2> QED BY <1>3, Zenon DEF ProcInv, ProcShape, ProcRecord, Phases
<1>5. /\ WriterShape' /\ proc'.writers[w].todo = Tail(x.todo) /\ proc'.writers[w].hold = <<>>
      /\ \A u \in Writers : u # w => proc'.writers[u] = proc.writers[u]
  BY <1>2, <1>4, WriterPut, Zenon DEF ProcInv
<1> HIDE DEF f, v
<1>6. /\ IsStore(disk.data) /\ disk = [data |-> disk.data, torn |-> {}]
  BY Zenon DEF ProcInv, ProcShape
<1>7. /\ IsStore(disk'.data) /\ disk' = [data |-> disk'.data, torn |-> {}]
      /\ \A g \in Files : g # f => disk'.data[g] = disk.data[g]
      /\ disk'.data[f] = IF ok THEN v ELSE disk.data[f]
  <2>1. CASE ok
    <3>1. disk' = [data |-> [disk.data EXCEPT ![f] = v], torn |-> {}]
      BY <1>3, <1>6, <2>1, SMTT(30)
    <3>2. disk'.data = [disk.data EXCEPT ![f] = v] /\ disk' = [data |-> disk'.data, torn |-> {}]
      BY <3>1, Zenon
    <3> QED BY <1>2, <1>6, <2>1, <3>2, StorePut, SMTT(30)
  <2>2. CASE ~ok
    BY <1>3, <1>6, <2>2, Zenon
  <2> QED BY <2>1, <2>2, Zenon
<1>8. ProcShape'
  BY <1>1, <1>4, <1>7, Zenon DEF ProcInv, ProcShape, ProcRecord, Phases
<1>9. HistoryKept'
  BY <1>4, Zenon DEF ProcInv, HistoryKept
<1>10. Loading'
  BY <1>1, <1>4, Zenon DEF Loading, Up
<1>11. QuotaAhead' /\ (proc.pc = "serving" => disk'.data["quota"] >= disk.data["quota"])
  <2>1. proc.mem["quota"] \in Nat /\ disk.data["quota"] \in Nat /\ "quota" \in Files /\ "quota" \in Writers
    BY Zenon DEF ProcInv, QuotaAhead, Files, Writers, Tickers
  <2>2. f = "quota" => v \in Nat
    BY <1>1, Zenon DEF ProcInv, QuotaAhead, f, v
  <2>3. disk'.data["quota"] \in Nat
    BY <1>7, <2>1, <2>2, Zenon
  <2>4. \A u \in Writers : proc'.writers[u].hold # <<>> => proc'.writers[u] = proc.writers[u]
    BY <1>5, Zenon
  <2>5. ASSUME proc.pc \in {"serving", "drain", "grpc"}
        PROVE  /\ proc'.writers["main"].todo = <<>>
               /\ disk'.data["quota"] <= proc.mem["quota"] /\ disk'.data["quota"] >= disk.data["quota"]
               /\ proc'.writers["quota"].hold # <<>> =>
                     /\ disk'.data["quota"] <= proc'.writers["quota"].hold[1]
                     /\ proc'.writers["quota"].hold[1] <= proc.mem["quota"]
    <3>1. /\ proc.writers["main"].todo = <<>> /\ disk.data["quota"] <= proc.mem["quota"]
          /\ proc.writers["quota"].hold # <<>> =>
                /\ disk.data["quota"] <= proc.writers["quota"].hold[1]
                /\ proc.writers["quota"].hold[1] <= proc.mem["quota"]
      BY <2>5, Zenon DEF ProcInv, QuotaAhead
    <3>2. w # "main" /\ proc'.writers["main"] = proc.writers["main"]
      BY <1>1, <1>5, <3>1, WriterNames, Zenon
    <3>3. CASE w = "quota"
      <4>1. f = "quota" /\ v \in Nat /\ disk.data["quota"] <= v /\ v <= proc.mem["quota"]
        BY <1>1, <1>2, <2>2, <3>1, <3>3, Zenon DEF v
      <4>2. proc'.writers["quota"].hold = <<>>
        BY <1>5, <3>3, Zenon
      <4> QED BY <1>7, <2>1, <3>1, <3>2, <4>1, <4>2, SMTT(30)
    <3>4. CASE w # "quota"
      <4>1. proc'.writers["quota"] = proc.writers["quota"] /\ f # "quota"
        BY <1>2, <1>5, <2>1, <3>2, <3>4, Zenon
      <4>2. disk'.data["quota"] = disk.data["quota"]
        BY <1>7, <2>1, <4>1, Zenon
      <4> QED BY <2>1, <3>1, <3>2, <4>1, <4>2, SMTT(30)
    <3> QED BY <3>3, <3>4, Zenon
  <2>6. QuotaAhead'
    BY <1>4, <2>1, <2>3, <2>4, <2>5, Zenon DEF QuotaAhead, ProcInv
  <2> QED BY <2>5, <2>6, Zenon
<1>12. Saved'
  <2>1. ASSUME proc.pc = "final", proc'.clean
        PROVE  /\ \A u \in Tickers : proc'.writers[u].todo = <<>>
               /\ \E i \in 1 .. 6 :
                    /\ proc'.writers["main"].todo = Left(i)
                    /\ \A k \in 1 .. i - 1 : disk'.data[BootOrder[k]] = proc'.mem[BootOrder[k]]
                    /\ proc'.writers["main"].hold # <<>> => proc'.writers["main"].hold[1] = proc'.mem[BootOrder[i]]
                    /\ i = 6 \/ (i = 5 /\ proc'.writers["main"].hold # <<>>)
                         => proc'.mem["usage"] = proc'.mem["quota"]
    <3>1. \A u \in Tickers : proc.writers[u].todo = <<>>
      BY <1>4, <2>1, Zenon DEF ProcInv, Saved
    <3>2. w = "main" /\ ok
      BY <1>1, <1>4, <2>1, <3>1, WriterNames, Zenon
    <3>3. PICK i \in 1 .. 6 :
            /\ proc.writers["main"].todo = Left(i)
            /\ \A k \in 1 .. i - 1 : disk.data[BootOrder[k]] = proc.mem[BootOrder[k]]
            /\ proc.writers["main"].hold # <<>> => proc.writers["main"].hold[1] = proc.mem[BootOrder[i]]
            /\ i = 6 \/ (i = 5 /\ proc.writers["main"].hold # <<>>) => proc.mem["usage"] = proc.mem["quota"]
      BY <1>4, <2>1, Zenon DEF ProcInv, Saved
    <3>4. i \in 1 .. 5
      <4>1. i # 6
        BY <1>1, <3>2, <3>3, LeftEnds, Zenon
      <4> QED BY <4>1, SMTT(30)
    <3>5. f = BootOrder[i] /\ Tail(x.todo) = Left(i + 1)
      BY <3>2, <3>3, <3>4, LeftParts, Zenon DEF f
    <3>6. proc'.writers["main"].todo = Left(i + 1) /\ i + 1 \in 1 .. 6 /\ proc'.writers["main"].hold = <<>>
      BY <1>5, <3>2, <3>4, <3>5, SMTT(30)
    <3>7. \A k \in 1 .. i : disk'.data[BootOrder[k]] = proc'.mem[BootOrder[k]]
      <4> TAKE k \in 1 .. i
      <4>1. k \in 1 .. 5
        BY <3>4
      <4>2. BootOrder[k] \in Files
        BY <4>1, LeftParts, Zenon
      <4>3. CASE k = i
        BY <1>1, <1>4, <1>7, <3>2, <3>3, <3>5, <4>3, Zenon DEF v
      <4>4. CASE k # i
        <5>1. k \in 1 .. i - 1 /\ BootOrder[k] # f
          BY <3>4, <3>5, <4>1, <4>4, OrderDistinct, SMTT(30)
        <5> QED BY <1>4, <1>7, <3>3, <4>2, <5>1, Zenon
      <4> QED BY <4>3, <4>4, Zenon
    <3>8. \A k \in 1 .. (i + 1) - 1 : disk'.data[BootOrder[k]] = proc'.mem[BootOrder[k]]
      BY <3>7, SMTT(30)
    <3>9. i + 1 = 6 => proc'.mem["usage"] = proc'.mem["quota"]
      BY <1>1, <1>4, <3>2, <3>3, SMTT(30)
    <3>10. \A u \in Tickers : proc'.writers[u].todo = <<>>
      BY <1>5, <3>1, <3>2, WriterNames, Zenon
    <3> QED BY <3>6, <3>8, <3>9, <3>10, Zenon
  <2>2. proc'.pc \in {"grpc", "final"} /\ proc'.clean => proc'.http = {}
    BY <1>4, Zenon DEF ProcInv, Saved
  <2>3. proc'.pc # "exited"
    BY <1>1, <1>4, Zenon DEF Up
  <2> QED BY <1>4, <2>1, <2>2, <2>3, Zenon DEF Saved
<1> QED BY <1>5, <1>8, <1>9, <1>10, <1>11, <1>12, Zenon DEF ProcInv

\* The process takes a step, and its quota file does not run backwards.
LEMMA ProcStep ==
    ASSUME ProcInv, ProcessNext \/ UNCHANGED processVars
    PROVE  ProcInv' /\ (proc.pc = "serving" => disk'.data["quota"] >= disk.data["quota"])
<1> DEFINE Goal == ProcInv' /\ (proc.pc = "serving" => disk'.data["quota"] >= disk.data["quota"])
<1>1. ASSUME ProcInv', UNCHANGED disk PROVE Goal
  <2>1. disk.data["quota"] \in Nat
    BY Zenon DEF ProcInv, QuotaAhead
  <2> QED BY <1>1, <2>1, SMTT(30)
<1>2. ASSUME NEW w \in Writers, writeCheckpoint(w) PROVE Goal
  BY <1>2, ProcWrites, Zenon
<1>3. ASSUME NEW w \in Writers, Snapshot(w) PROVE Goal
  BY <1>1, <1>3, ProcSnapshots, Zenon DEF Snapshot
<1>4. CASE Signal \/ Shutdown \/ Exit \/ ListenerFails \/ Crash
  BY <1>1, <1>4, ProcPhases, Zenon DEF Signal, Shutdown, Exit, ListenerFails, Crash
<1>5. CASE serve \/ GracefulStop \/ Start \/ sampleUsage
  BY <1>1, <1>5, ProcServes, ProcStops, ProcBegins, ProcSamples, Zenon DEF serve, GracefulStop, Start, sampleUsage
<1>6. ASSUME NEW live \in SUBSET Chats, Load(live) PROVE Goal
  BY <1>1, <1>6, ProcLoads, Zenon DEF Load
<1>7. ASSUME NEW w \in Tickers, Tick(w) PROVE Goal
  BY <1>1, <1>7, ProcTicks, Zenon DEF Tick
<1>8. CASE \/ \E c \in Clients : Arrive(c)
           \/ \E l \in Links : Link(l) \/ Unlink(l)
  <2>1. UNCHANGED disk
    BY <1>8, Zenon DEF Arrive, Link, Unlink
  <2> QED BY <1>1, <1>8, <2>1, ProcComings, Zenon
<1>9. ASSUME NEW c \in Clients, Infer(c) \/ Administer(c) PROVE Goal
  <2>1. UNCHANGED disk
    BY <1>9, Zenon DEF Infer, Administer, Handle
  <2> QED BY <1>1, <1>9, <2>1, ProcInfers, ProcAdministers, Zenon
<1>10. ASSUME NEW c \in Clients, NEW s \in Chats, CreateSession(c, s) \/ Say(c, s) \/ EndSession(c, s) PROVE Goal
  <2>1. UNCHANGED disk
    BY <1>10, Zenon DEF CreateSession, Say, EndSession, Handle
  <2> QED BY <1>1, <1>10, <2>1, ProcTalks, Zenon
<1>11. CASE UNCHANGED processVars
  <2>1. proc' = proc /\ disk' = disk
    BY <1>11, Zenon DEF processVars
  <2>2. ProcInv'
    BY <2>1, Zenon DEF ProcInv, ProcShape, WriterShape, Loading, HistoryKept, QuotaAhead, Saved
  <2> QED BY <1>1, <2>1, <2>2, Zenon
<1>12. CASE MainStep
  BY <1>2, <1>3, <1>4, <1>5, <1>12, WriterNames, Zenon DEF MainStep
<1>13. ASSUME NEW w \in Tickers, Tick(w) \/ Snapshot(w) \/ writeCheckpoint(w) PROVE Goal
  <2>1. w \in Writers
    BY WriterNames, Zenon
  <2> QED BY <1>2, <1>3, <1>7, <1>13, <2>1, Zenon
<1>14. CASE ProcessNext
  BY <1>4, <1>5, <1>6, <1>8, <1>9, <1>10, <1>12, <1>13, <1>14, Zenon DEF ProcessNext
<1> QED BY <1>11, <1>14, Zenon

-----------------------------------------------------------------------------
(* The settings *)

IsConf(c) == c = [flag |-> c.flag, env |-> c.env, home |-> c.home, done |-> c.done, refused |-> c.refused,
                  server |-> c.server, session |-> c.session, quota |-> c.quota, log |-> c.log, worker |-> c.worker,
                  client |-> c.client]

\* A command that started has what its resolvers gave it, and one is refused
\* only when nothing names what it needs.
ConfOK ==
    LET f == conf.flag  e == conf.env  host == conf.home IN
    /\ IsConf(conf) /\ f \in FlagKinds /\ e \in EnvKinds
    /\ Started("server") =>
         /\ conf.server = [cfg |-> ResolveServer(f, e), store |-> ResolveStorePath(f, e, host),
                           heartbeat |-> ResolveHeartbeatTimeout(f, e)]
         /\ conf.session = ResolveSession(f, e, host) /\ conf.quota = ResolveQuota(f, e, host)
    /\ Started("worker") =>
         /\ ResolveWorker(f, e, host).server # NoText
         /\ conf.worker = [cfg |-> ResolveWorker(f, e, host), heartbeat |-> ResolveHeartbeatInterval(f, e),
                           ollama |-> ResolveOllamaURL(f, e), detect |-> ResolveGPUDetect(f, e),
                           type |-> ResolveGPUType(f, e), vram |-> ResolveTotalVRAM(f, e)]
    /\ Started("client") =>
         /\ ResolveToken(f, e) # NoText
         /\ conf.client = [addr |-> ResolveHTTPAddr(f, e), token |-> ResolveToken(f, e)]
    /\ conf.refused # {} => f \in {"unset", "zero"} /\ e \in {"unset", "empty"}

\* Nothing names a server, or a token.
LEMMA NothingGiven ==
    ASSUME NEW f \in FlagKinds, NEW e \in EnvKinds, NEW host,
           ResolveWorker(f, e, host).server = NoText \/ ResolveToken(f, e) = NoText
    PROVE  f \in {"unset", "zero"} /\ e \in {"unset", "empty"}
<1>1. (IF GivenText(f) THEN Flag(f) ELSE envOr(e, NoText)) = NoText
  BY Zenon DEF ResolveWorker, ResolveToken
<1> QED BY <1>1, SMTT(30) DEF GivenText, envOr, Flag, Env, NoText, FlagKinds, EnvKinds

LEMMA ConfStep == ASSUME ConfOK, ConfigNext \/ UNCHANGED conf PROVE ConfOK'
<1> DEFINE f == conf.flag  e == conf.env  host == conf.home
           srv == [cfg |-> ResolveServer(f, e), store |-> ResolveStorePath(f, e, host),
                   heartbeat |-> ResolveHeartbeatTimeout(f, e)]
           ses == ResolveSession(f, e, host)
           quo == ResolveQuota(f, e, host)
           wkr == [cfg |-> ResolveWorker(f, e, host), heartbeat |-> ResolveHeartbeatInterval(f, e),
                   ollama |-> ResolveOllamaURL(f, e), detect |-> ResolveGPUDetect(f, e),
                   type |-> ResolveGPUType(f, e), vram |-> ResolveTotalVRAM(f, e)]
           named == ResolveWorker(f, e, host).server # NoText
           token == ResolveToken(f, e)
           cli == [addr |-> ResolveHTTPAddr(f, e), token |-> token]
           log == ResolveLog("unset", e)
           bare == f \in {"unset", "zero"} /\ e \in {"unset", "empty"}
<1>1. /\ IsConf(conf) /\ f \in FlagKinds /\ e \in EnvKinds
      /\ Started("server") => conf.server = srv /\ conf.session = ses /\ conf.quota = quo
      /\ Started("worker") => named /\ conf.worker = wkr
      /\ Started("client") => token # NoText /\ conf.client = cli
      /\ conf.refused # {} => bare
  BY Zenon DEF ConfOK
<1>2. ASSUME IsConf(conf'), conf'.flag = f, conf'.env = e, conf'.home = host,
             Started("server")' => conf'.server = srv /\ conf'.session = ses /\ conf'.quota = quo,
             Started("worker")' => named /\ conf'.worker = wkr,
             Started("client")' => token # NoText /\ conf'.client = cli,
             conf'.refused # {} => bare
      PROVE  ConfOK'
  BY <1>1, <1>2, Zenon DEF ConfOK
<1>3. ~ named => bare
  BY <1>1, NothingGiven, Zenon
<1>4. token = NoText => bare
  BY <1>1, NothingGiven, Zenon
<1>5. CASE runServerCmd
  <2>1. conf' = [conf EXCEPT !.done = conf.done \cup {"server"}, !.server = srv, !.session = ses, !.quota = quo,
                             !.log = log]
    BY <1>5 DEF runServerCmd
  <2> HIDE DEF srv, ses, quo, wkr, named, token, cli, bare, log
  <2>2. /\ IsConf(conf') /\ conf'.flag = f /\ conf'.env = e /\ conf'.home = host /\ conf'.server = srv
        /\ conf'.session = ses /\ conf'.quota = quo /\ conf'.worker = conf.worker /\ conf'.client = conf.client
        /\ conf'.refused = conf.refused /\ conf'.done = conf.done \cup {"server"}
    BY <1>1, <2>1, Zenon DEF IsConf
  <2>3. (Started("worker")' => Started("worker")) /\ (Started("client")' => Started("client"))
    BY <2>2 DEF Started
  <2> QED BY <1>1, <1>2, <2>2, <2>3, Zenon
<1>6. CASE runWorkerCmd
  <2>1. \/ ~ named /\ conf' = [conf EXCEPT !.done = conf.done \cup {"worker"}, !.refused = conf.refused \cup {"worker"}]
        \/ named /\ conf' = [conf EXCEPT !.done = conf.done \cup {"worker"}, !.worker = wkr]
    BY <1>6 DEF runWorkerCmd
  <2> HIDE DEF srv, ses, quo, wkr, named, token, cli, bare, log
  <2>2. /\ IsConf(conf') /\ conf'.flag = f /\ conf'.env = e /\ conf'.home = host /\ conf'.server = conf.server
        /\ conf'.session = conf.session /\ conf'.quota = conf.quota /\ conf'.client = conf.client
        /\ conf'.done = conf.done \cup {"worker"}
        /\ \/ ~ named /\ conf'.refused = conf.refused \cup {"worker"}
           \/ named /\ conf'.refused = conf.refused /\ conf'.worker = wkr
    BY <1>1, <2>1, Zenon DEF IsConf
  <2>3. (Started("server")' => Started("server")) /\ (Started("client")' => Started("client"))
    BY <2>2 DEF Started
  <2>4. Started("worker")' => named
    BY <2>2 DEF Started
  <2> QED BY <1>1, <1>2, <1>3, <2>2, <2>3, <2>4, Zenon
<1>7. CASE client
  <2>1. \/ token = NoText /\ conf' = [conf EXCEPT !.done = conf.done \cup {"client"}, !.refused = conf.refused \cup {"client"}]
        \/ token # NoText /\ conf' = [conf EXCEPT !.done = conf.done \cup {"client"}, !.client = cli]
    BY <1>7 DEF client
  <2> HIDE DEF srv, ses, quo, wkr, named, token, cli, bare, log
  <2>2. /\ IsConf(conf') /\ conf'.flag = f /\ conf'.env = e /\ conf'.home = host /\ conf'.server = conf.server
        /\ conf'.session = conf.session /\ conf'.quota = conf.quota /\ conf'.worker = conf.worker
        /\ conf'.done = conf.done \cup {"client"}
        /\ \/ token = NoText /\ conf'.refused = conf.refused \cup {"client"}
           \/ token # NoText /\ conf'.refused = conf.refused /\ conf'.client = cli
    BY <1>1, <2>1, Zenon DEF IsConf
  <2>3. (Started("server")' => Started("server")) /\ (Started("worker")' => Started("worker"))
    BY <2>2 DEF Started
  <2>4. Started("client")' => token # NoText
    BY <2>2 DEF Started
  <2> QED BY <1>1, <1>2, <1>4, <2>2, <2>3, <2>4, Zenon
<1>8. CASE UNCHANGED conf
  BY <1>8, Zenon DEF ConfOK, Started
<1> QED BY <1>5, <1>6, <1>7, <1>8, Zenon DEF ConfigNext

\* Where a resolved value comes from, and what the resolvers of a kind give.
Ranked(v, f, e) ==
    /\ f = "value" => v[1] = "flag"
    /\ f = "unset" /\ e = "value" => v[1] = "env"
    /\ f = "unset" /\ e \in {"unset", "empty"} => v[1] = "default"

LEMMA TextsResolve ==
    ASSUME NEW f \in FlagKinds, NEW e \in EnvKinds, NEW d, d[1] = "default"
    PROVE  LET v == IF GivenText(f) THEN Flag(f) ELSE envOr(e, d) IN
           Ranked(v, f, e) /\ (v = d \/ v[2] \notin {"unset", "empty"})
  BY Zenon DEF GivenText, envOr, Flag, Env, FlagKinds, EnvKinds, Ranked

LEMMA NumbersResolve ==
    ASSUME NEW f \in FlagKinds, NEW e \in EnvKinds, NEW d, d[1] = "default"
    PROVE  /\ LET v == IF GivenNumber(f) THEN Flag(f) ELSE durationEnvOr(e, d) IN
              Ranked(v, f, e) /\ (v = d \/ v[2] = "value")
           /\ LET v == IF GivenNumber(f) THEN Flag(f) ELSE intEnvOr(e, d) IN
              Ranked(v, f, e) /\ (v = d \/ v[2] \in {"zero", "value"})
           /\ LET v == IF GivenNumber(f) THEN Flag(f) ELSE uintEnvOr(e, d) IN
              Ranked(v, f, e) /\ (v = d \/ v[2] \in {"zero", "value"})
  BY Zenon DEF GivenNumber, durationEnvOr, intEnvOr, uintEnvOr, Flag, Env, FlagKinds, EnvKinds, Ranked

LEMMA Fallbacks ==
    /\ Default[1] = "default" /\ Default[2] = "value" /\ NoText[1] = "default"
    /\ Unlimited[1] = "default" /\ Unlimited[2] = "zero"
    /\ \A file, home : DefaultPath(file, home)[1] = "default" /\ DefaultPath(file, home)[2] \in {"home", "relative"}
  BY Zenon DEF Default, NoText, Unlimited, DefaultPath

\* The values of each kind.
LEMMA ServerValues ==
    ASSUME NEW f \in FlagKinds, NEW e \in EnvKinds, NEW home
    PROVE  /\ \A v \in {ListenOf(f, e), ResolveStorePath(f, e, home), ResolveQuotaPath(f, e, home),
                        ResolveSessionPath(f, e, home), ResolveOllamaURL(f, e), ResolveHTTPAddr(f, e)} :
                Ranked(v, f, e) /\ v[2] \notin {"unset", "empty"}
           /\ \A v \in {ResolveSessionTTL(f, e), ResolveModelWarmMax(f, e), ResolveHeartbeatTimeout(f, e),
                        ResolveHeartbeatInterval(f, e)} :
                Ranked(v, f, e) /\ v[2] = "value"
           /\ \A v \in {ResolveSessionMaxTurns(f, e), ResolveMaxSessionsPerKey(f, e), ResolveTotalVRAM(f, e),
                        ResolveSessionMaxContextTokens(f, e), ResolveQuota(f, e, home).globalRPM,
                        ResolveQuota(f, e, home).globalTPM} :
                Ranked(v, f, e) /\ v[2] \in {"zero", "value"}
           /\ Ranked(ResolveGPUDetect(f, e), f, e) /\ Ranked(ResolveGPUType(f, e), f, e)
           /\ Ranked(ResolveToken(f, e), f, e)
<1> DEFINE text(d) == IF GivenText(f) THEN Flag(f) ELSE envOr(e, d)
           dur(d) == IF GivenNumber(f) THEN Flag(f) ELSE durationEnvOr(e, d)
           int(d) == IF GivenNumber(f) THEN Flag(f) ELSE intEnvOr(e, d)
           uint(d) == IF GivenNumber(f) THEN Flag(f) ELSE uintEnvOr(e, d)
<1>1. ASSUME NEW d, d[1] = "default" PROVE Ranked(text(d), f, e) /\ (text(d) = d \/ text(d)[2] \notin {"unset", "empty"})
  BY <1>1, TextsResolve, Zenon
<1>2. ASSUME NEW d, d[1] = "default" PROVE Ranked(dur(d), f, e) /\ (dur(d) = d \/ dur(d)[2] = "value")
  BY <1>2, NumbersResolve, Zenon
<1>3. ASSUME NEW d, d[1] = "default"
      PROVE  /\ Ranked(int(d), f, e) /\ (int(d) = d \/ int(d)[2] \in {"zero", "value"})
             /\ Ranked(uint(d), f, e) /\ (uint(d) = d \/ uint(d)[2] \in {"zero", "value"})
  BY <1>3, NumbersResolve, Zenon
<1>4. /\ ListenOf(f, e) = text(Default) /\ ResolveOllamaURL(f, e) = text(Default) /\ ResolveHTTPAddr(f, e) = text(Default)
      /\ ResolveStorePath(f, e, home) = text(DefaultPath("keys", home))
      /\ ResolveQuotaPath(f, e, home) = text(DefaultPath("quota", home))
      /\ ResolveSessionPath(f, e, home) = text(DefaultPath("sessions", home))
      /\ ResolveGPUType(f, e) = text(NoText) /\ ResolveToken(f, e) = text(NoText)
  BY Zenon DEF ListenOf, ResolveOllamaURL, ResolveHTTPAddr, ResolveStorePath, ResolveQuotaPath, ResolveSessionPath,
     ResolveGPUType, ResolveToken
<1>5. /\ ResolveSessionTTL(f, e) = dur(Default) /\ ResolveModelWarmMax(f, e) = dur(Default)
      /\ ResolveHeartbeatTimeout(f, e) = dur(Default) /\ ResolveHeartbeatInterval(f, e) = dur(Default)
  BY Zenon DEF ResolveSessionTTL, ResolveModelWarmMax, ResolveHeartbeatTimeout, ResolveHeartbeatInterval
<1>6. /\ ResolveSessionMaxTurns(f, e) = int(Default) /\ ResolveMaxSessionsPerKey(f, e) = int(Unlimited)
      /\ ResolveSessionMaxContextTokens(f, e) = int(Unlimited) /\ ResolveTotalVRAM(f, e) = uint(Unlimited)
  BY Zenon DEF ResolveSessionMaxTurns, ResolveMaxSessionsPerKey, ResolveSessionMaxContextTokens, ResolveTotalVRAM
<1>7. ResolveQuota(f, e, home).globalRPM = uint(Unlimited) /\ ResolveQuota(f, e, home).globalTPM = uint(Unlimited)
  BY Zenon DEF ResolveQuota
<1>8. Ranked(ResolveGPUDetect(f, e), f, e)
  BY Zenon DEF ResolveGPUDetect, boolEnvOr, Ranked, Flag, Env, Default, FlagKinds, EnvKinds
<1> HIDE DEF text, dur, int, uint
<1>9. ASSUME NEW d, d[1] = "default", d[2] \notin {"unset", "empty"}
      PROVE  Ranked(text(d), f, e) /\ text(d)[2] \notin {"unset", "empty"}
  BY <1>1, <1>9, Zenon
<1>10. \A d \in {Default, DefaultPath("keys", home), DefaultPath("quota", home), DefaultPath("sessions", home)} :
         d[1] = "default" /\ d[2] \notin {"unset", "empty"}
  BY Fallbacks
<1>11. /\ Ranked(text(NoText), f, e) /\ Ranked(dur(Default), f, e) /\ dur(Default)[2] = "value"
       /\ Ranked(int(Default), f, e) /\ int(Default)[2] \in {"zero", "value"}
       /\ Ranked(int(Unlimited), f, e) /\ int(Unlimited)[2] \in {"zero", "value"}
       /\ Ranked(uint(Unlimited), f, e) /\ uint(Unlimited)[2] \in {"zero", "value"}
  BY <1>1, <1>2, <1>3, Fallbacks, Zenon
<1> QED BY <1>4, <1>5, <1>6, <1>7, <1>8, <1>9, <1>10, <1>11, Zenon

\* What started has settings it can run with, from where they should come.
LEMMA SettingsSound == ASSUME ConfOK PROVE UsableSettings /\ FlagOverEnv
<1> DEFINE f == conf.flag  e == conf.env  home == conf.home
<1>0. /\ f \in FlagKinds /\ e \in EnvKinds
      /\ conf.refused # {} => f \in {"unset", "zero"} /\ e \in {"unset", "empty"}
  BY Zenon DEF ConfOK
<1>1. ASSUME Started("server")
      PROVE  /\ conf.server.cfg.listen = ListenOf(f, e) /\ conf.server.cfg.httpListen = ListenOf(f, e)
             /\ conf.server.cfg.metricsListen = IF metricsListenOff(f, e) THEN Disabled ELSE ListenOf(f, e)
             /\ conf.server.store = ResolveStorePath(f, e, home)
             /\ conf.server.heartbeat = ResolveHeartbeatTimeout(f, e)
             /\ conf.session.path = ResolveSessionPath(f, e, home) /\ conf.session.ttl = ResolveSessionTTL(f, e)
             /\ conf.session.warmMax = ResolveModelWarmMax(f, e)
             /\ conf.session.maxTurns = ResolveSessionMaxTurns(f, e)
             /\ conf.session.maxContextTokens = ResolveSessionMaxContextTokens(f, e)
             /\ conf.session.maxSessionsPerKey = ResolveMaxSessionsPerKey(f, e)
             /\ conf.session.maxBytes = IF GivenNumber(f) THEN Flag(f) ELSE Default
             /\ conf.quota.path = ResolveQuotaPath(f, e, home)
             /\ conf.quota.globalRPM = ResolveQuota(f, e, home).globalRPM
             /\ conf.quota.globalTPM = ResolveQuota(f, e, home).globalTPM
  <2>1. /\ conf.server = [cfg |-> ResolveServer(f, e), store |-> ResolveStorePath(f, e, home),
                          heartbeat |-> ResolveHeartbeatTimeout(f, e)]
        /\ conf.session = ResolveSession(f, e, home) /\ conf.quota = ResolveQuota(f, e, home)
    BY <1>1, Zenon DEF ConfOK
  <2>2. ResolveQuota(f, e, home).path = ResolveQuotaPath(f, e, home)
    BY Zenon DEF ResolveQuota
  <2>3. /\ ResolveServer(f, e).listen = ListenOf(f, e) /\ ResolveServer(f, e).httpListen = ListenOf(f, e)
        /\ ResolveServer(f, e).metricsListen = IF metricsListenOff(f, e) THEN Disabled ELSE ListenOf(f, e)
    BY Zenon DEF ResolveServer
  <2>4. LET s == ResolveSession(f, e, home) IN
        /\ s.path = ResolveSessionPath(f, e, home) /\ s.ttl = ResolveSessionTTL(f, e)
        /\ s.warmMax = ResolveModelWarmMax(f, e) /\ s.maxTurns = ResolveSessionMaxTurns(f, e)
        /\ s.maxContextTokens = ResolveSessionMaxContextTokens(f, e)
        /\ s.maxSessionsPerKey = ResolveMaxSessionsPerKey(f, e)
        /\ s.maxBytes = IF GivenNumber(f) THEN Flag(f) ELSE Default
    BY Zenon DEF ResolveSession
  <2>5. /\ conf.server.cfg = ResolveServer(f, e) /\ conf.server.store = ResolveStorePath(f, e, home)
        /\ conf.server.heartbeat = ResolveHeartbeatTimeout(f, e)
    BY <2>1, SMTT(30)
  <2> QED BY <2>1, <2>2, <2>3, <2>4, <2>5, Zenon
<1>2. ASSUME Started("worker")
      PROVE  /\ conf.worker.cfg.server = IF GivenText(f) THEN Flag(f) ELSE envOr(e, NoText)
             /\ conf.worker.cfg.server # NoText
             /\ conf.worker.heartbeat = ResolveHeartbeatInterval(f, e) /\ conf.worker.ollama = ResolveOllamaURL(f, e)
             /\ conf.worker.detect = ResolveGPUDetect(f, e) /\ conf.worker.type = ResolveGPUType(f, e)
             /\ conf.worker.vram = ResolveTotalVRAM(f, e)
  <2>1. /\ ResolveWorker(f, e, home).server # NoText
        /\ conf.worker = [cfg |-> ResolveWorker(f, e, home), heartbeat |-> ResolveHeartbeatInterval(f, e),
                          ollama |-> ResolveOllamaURL(f, e), detect |-> ResolveGPUDetect(f, e),
                          type |-> ResolveGPUType(f, e), vram |-> ResolveTotalVRAM(f, e)]
    BY <1>2, Zenon DEF ConfOK
  <2>2. ResolveWorker(f, e, home).server = IF GivenText(f) THEN Flag(f) ELSE envOr(e, NoText)
    BY Zenon DEF ResolveWorker
  <2>3. /\ conf.worker.cfg = ResolveWorker(f, e, home) /\ conf.worker.heartbeat = ResolveHeartbeatInterval(f, e)
        /\ conf.worker.ollama = ResolveOllamaURL(f, e) /\ conf.worker.detect = ResolveGPUDetect(f, e)
        /\ conf.worker.type = ResolveGPUType(f, e) /\ conf.worker.vram = ResolveTotalVRAM(f, e)
    BY <2>1, SMTT(30)
  <2> QED BY <2>1, <2>2, <2>3, Zenon
<1>3. ASSUME Started("client")
      PROVE  /\ conf.client.addr = ResolveHTTPAddr(f, e) /\ conf.client.token = ResolveToken(f, e)
             /\ conf.client.token # NoText
  <2>1. ResolveToken(f, e) # NoText /\ conf.client = [addr |-> ResolveHTTPAddr(f, e), token |-> ResolveToken(f, e)]
    BY <1>3, Zenon DEF ConfOK
  <2>2. conf.client.addr = ResolveHTTPAddr(f, e) /\ conf.client.token = ResolveToken(f, e)
    BY <2>1, SMTT(30)
  <2> QED BY <2>1, <2>2, Zenon
<1> HIDE DEF f, e, home
<1> DEFINE named == IF GivenText(f) THEN Flag(f) ELSE envOr(e, NoText)
<1>4. Ranked(named, f, e) /\ (named = NoText \/ named[2] \notin {"unset", "empty"})
  BY <1>0, TextsResolve, Fallbacks, Zenon
<1>5. \A v \in Texts : Ranked(v, f, e) /\ v[2] \notin {"unset", "empty"}
  <2> DEFINE Good(v) == Ranked(v, f, e) /\ v[2] \notin {"unset", "empty"}
  <2>1. /\ Good(ListenOf(f, e)) /\ Good(ResolveStorePath(f, e, home)) /\ Good(ResolveSessionPath(f, e, home))
        /\ Good(ResolveQuotaPath(f, e, home)) /\ Good(ResolveOllamaURL(f, e)) /\ Good(ResolveHTTPAddr(f, e))
    BY <1>0, ServerValues, Zenon
  <2>2. Started("worker") => Good(conf.worker.cfg.server)
    BY <1>2, <1>4, Zenon
  <2>3. ResolveToken(f, e) = named
    BY Zenon DEF ResolveToken
  <2>4. Started("client") => Good(conf.client.token)
    BY <1>3, <1>4, <2>3, Zenon
  <2> HIDE DEF Good
  <2>5. Started("server") =>
          /\ Good(conf.server.cfg.listen) /\ Good(conf.server.cfg.httpListen) /\ Good(conf.server.store)
          /\ Good(conf.session.path) /\ Good(conf.quota.path)
    BY <1>1, <2>1, Zenon
  <2>6. (Started("worker") => Good(conf.worker.ollama)) /\ (Started("client") => Good(conf.client.addr))
    BY <1>2, <1>3, <2>1, Zenon
  <2>7. \A v \in Texts : Good(v)
    BY <2>2, <2>4, <2>5, <2>6, Zenon DEF Texts
  <2> QED BY <2>7, Zenon DEF Good
<1>6. \A v \in Durations : Ranked(v, f, e) /\ v[2] = "value"
  <2> DEFINE Good(v) == Ranked(v, f, e) /\ v[2] = "value"
  <2>1. /\ Good(ResolveSessionTTL(f, e)) /\ Good(ResolveModelWarmMax(f, e)) /\ Good(ResolveHeartbeatTimeout(f, e))
        /\ Good(ResolveHeartbeatInterval(f, e))
    BY <1>0, ServerValues, Zenon
  <2> HIDE DEF Good
  <2>2. /\ Started("server") => Good(conf.session.ttl) /\ Good(conf.session.warmMax) /\ Good(conf.server.heartbeat)
        /\ Started("worker") => Good(conf.worker.heartbeat)
    BY <1>1, <1>2, <2>1, Zenon
  <2>3. \A v \in Durations : Good(v)
    BY <2>2 DEF Durations
  <2> QED BY <2>3, Zenon DEF Good
<1>7. \A v \in Limits : Ranked(v, f, e) /\ v[2] \in {"zero", "value"}
  <2> DEFINE Good(v) == Ranked(v, f, e) /\ v[2] \in {"zero", "value"}
  <2>1. /\ Good(ResolveSessionMaxTurns(f, e)) /\ Good(ResolveSessionMaxContextTokens(f, e))
        /\ Good(ResolveMaxSessionsPerKey(f, e)) /\ Good(ResolveQuota(f, e, home).globalRPM)
        /\ Good(ResolveQuota(f, e, home).globalTPM)
    BY <1>0, ServerValues, Zenon
  <2> HIDE DEF Good
  <2>2. Started("server") =>
          /\ Good(conf.session.maxTurns) /\ Good(conf.session.maxContextTokens) /\ Good(conf.session.maxSessionsPerKey)
          /\ Good(conf.quota.globalRPM) /\ Good(conf.quota.globalTPM)
    BY <1>1, <2>1, Zenon
  <2>3. \A v \in Limits : Good(v)
    BY <2>2, Zenon DEF Limits
  <2> QED BY <2>3, Zenon DEF Good
<1>8. \A v \in Others : Ranked(v, f, e)
  BY <1>0, <1>2, ServerValues, ZenonT(40) DEF Others
<1>9. UsableSettings
  <2>1. Started("server") => conf.session.maxBytes[2] = "value"
    BY <1>1, SMTT(30) DEF GivenNumber, Flag, Default
  <2>2. ParseOverflowPolicy(conf.session.overflow) \in {"trim", "reject"}
    BY Zenon DEF ParseOverflowPolicy
  <2> QED BY <1>0, <1>5, <1>6, <1>7, <2>1, <2>2, Zenon DEF UsableSettings, f, e
<1>10. FlagOverEnv
  <2>1. ASSUME Started("server")
        PROVE  (MetricsListenAddr(conf.server.cfg.metricsListen) = <<>>) = (f = "zero" \/ (f = "unset" /\ e = "empty"))
    <3>1. ListenOf(f, e) # Disabled /\ ListenOf(f, e) # <<>>
      BY <1>0 DEF ListenOf, Disabled, GivenText, Flag, envOr, Env, Default, FlagKinds, EnvKinds
    <3>2. conf.server.cfg.metricsListen = IF metricsListenOff(f, e) THEN Disabled ELSE ListenOf(f, e)
      BY <1>1, <2>1, Zenon
    <3> QED BY <3>1, <3>2, SMTT(30) DEF MetricsListenAddr, metricsListenOff
  <2> QED BY <1>5, <1>6, <1>7, <1>8, <2>1, Zenon DEF FlagOverEnv, Ranked, f, e
<1> QED BY <1>9, <1>10
=============================================================================
