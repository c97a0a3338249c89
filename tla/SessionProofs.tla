---------------------------- MODULE SessionProofs ---------------------------
(***************************************************************************)
(* Proofs about sessions for any ids, owners, calls, caps and clock.       *)
(*                                                                         *)
(* TallyExact is not inductive alone.  A release must find the slot it     *)
(* gives back counted, which needs the mutex (LockExact); the slot it      *)
(* gives back must be its owner's, which needs the owner of every row,     *)
(* copy and checkpointed row to be the one the id was minted for           *)
(* (OwnersAgree); and the row Create stores must be new (FreshRows), or    *)
(* one session would hold two slots.                                       *)
(***************************************************************************)
EXTENDS Session, FiniteSetTheorems, SequenceTheorems, WellFoundedInduction, TLAPS

(* The positions the sweeper, and only the sweeper, may be in.             *)
Places ==
    /\ pc[Sweeper] \in {"idle", "sweep", "delete", "purge"}
    /\ \A p \in Calls : pc[p] # "sweep"

(* Every row, stored, copied or checkpointed, belongs to the owner its id  *)
(* was minted for.                                                         *)
OwnersAgree ==
    /\ \A i \in Ids :
          /\ sessions[i] # None => sessions[i].owner = mintedBy[i]
          /\ disk.sessions[i] # None => disk.sessions[i].owner = mintedBy[i]
    /\ \A q \in Procs :
          /\ pc[q] \in {"store", "history", "infer", "append", "put", "delete", "purge"} =>
                id[q] \in minted
          /\ pc[q] \in {"store", "append", "put", "purge"} =>
                copy[q] \in Row /\ copy[q].owner = mintedBy[id[q]]
    /\ listed \subseteq minted /\ revived \subseteq minted

(* countMu is held across steps exactly by the removal that is purging.    *)
LockExact == \A q \in Procs : pc[q] = "purge" <=> countMu = q

(* A row about to be stored by Create is its caller's, and nobody else     *)
(* knows its id.                                                           *)
FreshRows ==
    \A p \in Calls : pc[p] = "store" =>
        /\ copy[p].owner = OwnerOf[p]
        /\ sessions[id[p]] = None
        /\ ends[id[p]] = 0
        /\ \A q \in Procs \ {p} :
              pc[q] \in {"store", "append", "put", "purge"} => id[q] # id[p]

(* A session that was never put back is gone once its end is reported.     *)
EndsExact ==
    \A i \in Ids \ revived :
        /\ ends[i] > 0 => ends[i] = 1 /\ sessions[i] = None /\ i \in minted
        /\ \A q \in Procs : pc[q] = "purge" /\ id[q] = i => sessions[i] = None /\ ends[i] = 0

(* The most sessions an owner can have: the cap, or what was booted with.  *)
Allowed == IF Cardinality(scenario.boot) > scenario.cap THEN Cardinality(scenario.boot)
                                                        ELSE scenario.cap
StoredOf(rows, o) == {i \in Ids : rows[i] # None /\ rows[i].owner = o}

(* The cap in force is at most the booted one, and neither a tally nor the *)
(* checkpoint a restart would reconcile it with exceeds it.                *)
CapExact ==
    scenario.cap > 0 =>
        /\ maxPerKey \in 1 .. scenario.cap
        /\ \A o \in Undisturbed :
              counts[o] <= Allowed /\ Cardinality(StoredOf(disk.sessions, o)) <= Allowed

(* The tally, and that the creates it counts are finitely many.            *)
TallyInv == TallyExact /\ \A o \in Owners : IsFiniteSet(Creating(o))

RowsInv == TypeOK /\ Places /\ OwnersAgree /\ LockExact
SlotsInv == RowsInv /\ FreshRows /\ EndsExact /\ TallyInv /\ CapExact

-----------------------------------------------------------------------------
(* A non-empty set of naturals has a least element, which Min returns.     *)
LEMMA MinOfNat ==
    ASSUME NEW S \in SUBSET Nat, S # {}
    PROVE  Min(S) \in S /\ \A y \in S : Min(S) <= y
<1> DEFINE Lt == {ss \in Nat \X Nat : ss[1] < ss[2]}
<1>1. OpToRel(<, Nat) = Lt
  BY Zenon DEF OpToRel
<1>2. IsWellFoundedOn(Lt, Nat)
  BY <1>1, NatLessThanWellFounded, Zenon
<1>3. PICK x \in S : \A y \in S : ~(<<y, x>> \in Lt)
  <2> HIDE DEF Lt
  <2> QED BY <1>2, WFMin, Zenon
<1>4. ASSUME NEW y \in S PROVE x <= y
  <2>1. <<y, x>> \in Nat \X Nat /\ <<y, x>>[1] = y /\ <<y, x>>[2] = x
    BY Zenon
  <2>2. ~(y < x)
    BY <1>3, <2>1, Zenon
  <2> QED BY <2>2
<1> QED BY <1>4, Zenon DEF Min

(* trim keeps a suffix that fits, or the newest message alone, and all of  *)
(* a history that fits.                                                    *)
LEMMA TrimIsSuffix ==
    ASSUME NEW h \in Seq(Message), h # <<>>
    PROVE  \E n \in 1 .. Len(h) :
              /\ trim(h) = SubSeq(h, n, Len(h))
              /\ n = Len(h) \/ Fits(SubSeq(h, n, Len(h)))
              /\ Fits(h) => n = 1
<1> DEFINE from == {n \in 1 .. Len(h) : n = Len(h) \/ Fits(SubSeq(h, n, Len(h)))}
<1>1. Len(h) \in Nat /\ Len(h) \in 1 .. Len(h)
  BY EmptySeq, LenProperties
<1>2. from \in SUBSET Nat /\ Len(h) \in from
  BY <1>1
<1>3. Min(from) \in from /\ \A y \in from : Min(from) <= y
  BY <1>2, MinOfNat, Zenon
<1>4. Fits(h) => Min(from) = 1
  <2>1. SubSeq(h, 1, Len(h)) = h
    BY SubSeqFull, Zenon
  <2>2. 1 \in 1 .. Len(h)
    BY <1>1
  <2>3. Fits(h) => 1 \in from
    BY <2>1, <2>2, Zenon
  <2> QED BY <1>3, <2>3
<1>5. trim(h) = SubSeq(h, Min(from), Len(h))
  BY Zenon DEF trim
<1> QED BY <1>3, <1>4, <1>5, Zenon

(* What trim keeps of a history is a history.                              *)
LEMMA TrimType == \A h \in Seq(Message) : trim(h) \in Seq(Message)
<1> SUFFICES ASSUME NEW h \in Seq(Message) PROVE trim(h) \in Seq(Message)
  BY Zenon
<1>1. CASE h = <<>>
  BY <1>1, Zenon DEF trim
<1>2. CASE h # <<>>
  <2>1. PICK n \in 1 .. Len(h) : trim(h) = SubSeq(h, n, Len(h))
    BY <1>2, TrimIsSuffix, Zenon
  <2>2. \A i \in n .. Len(h) : h[i] \in Message
    BY ElementOfSeq
  <2> QED BY <2>1, <2>2, SubSeqProperties
<1> QED BY <1>1, <1>2, Zenon

(* A process that has just booted has the right types.                     *)
LEMMA InitType == Init => TypeOK
<1> SUFFICES ASSUME Init PROVE TypeOK
  BY Zenon
<1>1. scenario \in Scenario /\ scenario \in Scenarios
  BY ScenarioTypes, Zenon DEF Init
<1>2. mintedBy \in [Ids -> Owners \cup {None}]
  BY Zenon DEF Init
<1>3. sessions \in [Ids -> Row \cup {None}]
  <2>1. PICK o \in Owners : mintedBy = [i \in Ids |-> IF i \in scenario.boot THEN o ELSE None]
    BY Zenon DEF Init
  <2> QED BY <1>1, <2>1, ScenarioTypes DEF Init, Row, Scenario
<1>4. history \in [Ids -> Seq(Message)]
  BY DEF Init
<1>5. counts \in [Owners -> Nat]
  <2>1. ASSUME NEW o \in Owners
        PROVE  Cardinality({i \in Ids : sessions[i] # None /\ sessions[i].owner = o}) \in Nat
    BY IdsFinite, FS_Subset, FS_CardinalityType, Zenon
  <2> QED BY <2>1, Zenon DEF Init, reconcileCounts
<1>6. maxPerKey \in Nat /\ crashes \in Nat /\ clock \in 0 .. MaxTime
  BY <1>1, ScenarioTypes DEF Init, Scenario
<1>7. disk \in [sessions : [Ids -> Row \cup {None}], history : [Ids -> Seq(Message)]]
  BY <1>3, <1>4, Zenon DEF Init
<1> QED BY <1>1, <1>2, <1>3, <1>4, <1>5, <1>6, <1>7, Zenon DEF Init, TypeOK

(* A row whose timestamp, or timestamp and worker, moved is still a row of *)
(* the same owner.                                                         *)
LEMMA TouchedRow ==
    ASSUME NEW row \in Row, NEW t \in 0 .. MaxTime
    PROVE  /\ [row EXCEPT !.last = t] \in Row
           /\ [row EXCEPT !.last = t].owner = row.owner
           /\ \A w \in Workers : /\ [row EXCEPT !.last = t, !.bound = w] \in Row
                               /\ [row EXCEPT !.last = t, !.bound = w].owner = row.owner
BY Zenon DEF Row

(* Every step keeps the types.                                             *)
LEMMA TypeStep == TypeOK /\ OwnersAgree /\ Next => TypeOK'
<1> SUFFICES ASSUME TypeOK, OwnersAgree, Next PROVE TypeOK'
  BY Zenon
<1> USE DEF goto, storeVars, countVars, callVars, diskVars, histVars
<1>0. scenario \in Scenario /\ \A p \in Calls : p \in Procs /\ OwnerOf[p] \in Owners
  BY ScenarioTypes, CallTypes, Zenon DEF TypeOK, Procs
<1>1. ASSUME NEW p \in Calls, ReserveSlot(p) PROVE TypeOK'
  <2>1. counts' \in [Owners -> Nat]
    <3>1. counts \in [Owners -> Nat]
      BY Zenon DEF TypeOK
    <3>2. counts' = counts \/ counts' = [counts EXCEPT ![OwnerOf[p]] = @ + 1]
      BY <1>1, Zenon DEF ReserveSlot
    <3> QED BY <1>0, <3>1, <3>2
  <2>2. pc' = [pc EXCEPT ![p] = "done"] \/ pc' = [pc EXCEPT ![p] = "mint"]
    BY <1>1, Zenon DEF ReserveSlot
  <2> QED BY <1>0, <1>1, <2>1, <2>2, Zenon DEF TypeOK, ReserveSlot
<1>2. ASSUME NEW p \in Calls, NewID(p) PROVE TypeOK'
  <2>1. [owner |-> OwnerOf[p], last |-> clock, ttl |-> scenario.ttl, bound |-> None] \in Row
    BY <1>0, Zenon DEF TypeOK, Row, Scenario
  <2> QED BY <1>0, <1>2, <2>1, SMTT(30) DEF TypeOK, NewID
<1>3. ASSUME NEW p \in Calls, NewIDFails(p) PROVE TypeOK'
  BY <1>0, <1>3 DEF TypeOK, NewIDFails, release
<1>4. ASSUME NEW p \in Calls, PutNew(p) PROVE TypeOK'
  BY <1>0, <1>4, Zenon DEF TypeOK, PutNew
<1>5. ASSUME NEW p \in Calls, NEW i \in Ids, NEW row, NEW next \in {"put", "append"},
             readCopy(p, i, row, next), ownedActive(p, i) => row \in Row,
             UNCHANGED <<clock, scenario, storeVars, countVars, listed, diskVars, histVars>>
      PROVE  TypeOK'
  <2>1. copy' \in [Procs -> Row \cup {None}]
    BY <1>0, <1>5, Zenon DEF TypeOK, readCopy
  <2>2. pc' = [pc EXCEPT ![p] = "done"] \/ pc' = [pc EXCEPT ![p] = next]
    BY <1>5, Zenon DEF readCopy
  <2>3. id' = [id EXCEPT ![p] = i]
    BY <1>5, Zenon DEF readCopy
  <2> QED BY <1>0, <1>5, <2>1, <2>2, <2>3, Zenon DEF TypeOK
<1>20. \A p \in Calls, i \in Ids : ownedActive(p, i) =>
          /\ [sessions[i] EXCEPT !.last = clock] \in Row
          /\ \A w \in Workers : [sessions[i] EXCEPT !.last = clock, !.bound = w] \in Row
  <2> SUFFICES ASSUME NEW p \in Calls, NEW i \in Ids, ownedActive(p, i)
               PROVE  /\ [sessions[i] EXCEPT !.last = clock] \in Row
                      /\ \A w \in Workers : [sessions[i] EXCEPT !.last = clock, !.bound = w] \in Row
    BY Zenon
  <2>1. sessions[i] \in Row /\ clock \in 0 .. MaxTime
    BY Zenon DEF TypeOK, ownedActive
  <2> QED BY <2>1, TouchedRow, Zenon
<1>6. ASSUME NEW p \in Calls, Resume(p) PROVE TypeOK'
  <2>1. PICK i \in minted : readCopy(p, i, [sessions[i] EXCEPT !.last = clock], "put")
    BY <1>6, Zenon DEF Resume
  <2>2. i \in Ids
    BY Zenon DEF minted
  <2> QED BY <1>5, <1>6, <1>20, <2>1, <2>2, Zenon DEF Resume
<1>7. ASSUME NEW p \in Calls, Bind(p) PROVE TypeOK'
  <2>1. PICK i \in minted, w \in Workers :
            readCopy(p, i, [sessions[i] EXCEPT !.last = clock, !.bound = w], "put")
    BY <1>7, Zenon DEF Bind
  <2>2. i \in Ids
    BY Zenon DEF minted
  <2> QED BY <1>5, <1>7, <1>20, <2>1, <2>2, Zenon DEF Bind
<1>8. ASSUME NEW p \in Calls, CheckAppendable(p) PROVE TypeOK'
  BY <1>0, <1>8 DEF TypeOK, CheckAppendable, minted
<1>9. ASSUME NEW p \in Calls, ReadHistory(p) \/ InferenceFails(p) PROVE TypeOK'
  BY <1>0, <1>9, Zenon DEF TypeOK, ReadHistory, InferenceFails
<1>10. ASSUME NEW p \in Calls, AppendTurns(p) PROVE TypeOK'
  <2>1. id[p] \in Ids
    BY <1>0, <1>10 DEF TypeOK, AppendTurns, OwnersAgree, minted
  <2> QED BY <1>5, <1>10, <1>20, <2>1, Zenon DEF AppendTurns
<1>11. ASSUME NEW p \in Calls, AppendBatch(p) PROVE TypeOK'
  <2> DEFINE h == history[id[p]] \o messages(p)
  <2>1. id[p] \in Ids
    BY <1>0, <1>11 DEF TypeOK, AppendBatch, OwnersAgree, minted
  <2>2. messages(p) \in Seq(Message)
    BY DEF messages, Message
  <2>3. trim(h) \in Seq(Message)
    <3>1. history[id[p]] \in Seq(Message)
      BY <2>1 DEF TypeOK
    <3>2. h \in Seq(Message)
      BY <2>2, <3>1, ConcatProperties, Zenon
    <3> QED BY <3>2, TrimType, Zenon
  <2>4. history' = history \/ history' = [history EXCEPT ![id[p]] = trim(h)]
    BY <1>11 DEF AppendBatch
  <2>5. history' \in [Ids -> Seq(Message)]
    <3> HIDE DEF h
    <3> QED BY <2>3, <2>4, Zenon DEF TypeOK
  <2>6. pc' = [pc EXCEPT ![p] = "done"] \/ pc' = [pc EXCEPT ![p] = "put"]
    BY <1>11, Zenon DEF AppendBatch
  <2> QED BY <1>0, <1>11, <2>5, <2>6, ZenonT(40) DEF TypeOK, AppendBatch
<1>12. ASSUME NEW p \in Calls, Put(p) PROVE TypeOK'
  <2>1. id[p] \in Ids
    BY <1>0, <1>12, SMTT(30) DEF TypeOK, Put, OwnersAgree, minted
  <2> QED BY <1>0, <1>12, <2>1, SMTT(30) DEF TypeOK, Put
<1>13. ASSUME NEW p \in Calls, Delete(p) PROVE TypeOK'
  BY <1>0, <1>13 DEF TypeOK, Delete, minted
<1>14. ASSUME NEW q \in Procs, DeleteRow(q) PROVE TypeOK'
  <2>1. id[q] \in Ids
    BY <1>14 DEF TypeOK, DeleteRow, OwnersAgree, minted
  <2> QED BY <1>14, <2>1, ZenonT(40) DEF TypeOK, DeleteRow, leave
<1>15. ASSUME NEW q \in Procs, Purge(q) PROVE TypeOK'
  <2>1. counts' \in [Owners -> Nat] /\ ends' \in [Ids -> Nat] /\ history' \in [Ids -> Seq(Message)]
    <3>1. /\ counts \in [Owners -> Nat] /\ ends \in [Ids -> Nat]
          /\ history \in [Ids -> Seq(Message)] /\ <<>> \in Seq(Message)
          /\ id[q] \in Ids /\ copy[q].owner \in Owners
      BY <1>15, EmptySeq, Zenon DEF TypeOK, Purge, OwnersAgree, minted, Row
    <3>2. counts' \in [Owners -> Nat]
      <4>1. counts' = [counts EXCEPT ![copy[q].owner] = IF @ > 1 THEN @ - 1 ELSE 0]
        BY <1>15, Zenon DEF Purge, release
      <4> QED BY <3>1, <4>1
    <3>3. ends' \in [Ids -> Nat]
      <4>1. ends' = [ends EXCEPT ![id[q]] = @ + 1]
        BY <1>15, Zenon DEF Purge
      <4> QED BY <3>1, <4>1
    <3>4. history' \in [Ids -> Seq(Message)]
      BY <1>15, <3>1, Zenon DEF Purge
    <3> QED BY <3>2, <3>3, <3>4
  <2>2. pc' = [pc EXCEPT ![q] = "sweep"] \/ pc' = [pc EXCEPT ![q] = "done"]
    BY <1>15, Zenon DEF Purge, leave
  <2> QED BY <1>15, <2>1, <2>2, Zenon DEF TypeOK, Purge
<1>16. ASSUME SweepList \/ SweepNext PROVE TypeOK'
  BY <1>16, SMTT(30) DEF TypeOK, SweepList, SweepNext, Live, Procs
<1>17. ASSUME SetMaxSessionsPerKey \/ Tick PROVE TypeOK'
  BY <1>0, <1>17, ScenarioTypes, SMTT(30) DEF TypeOK, SetMaxSessionsPerKey, Tick, Scenario
<1>18. ASSUME CheckpointSessions \/ CheckpointHistory PROVE TypeOK'
  BY <1>18, ZenonT(40) DEF TypeOK, CheckpointSessions, CheckpointHistory
<1>19. ASSUME Restart PROVE TypeOK'
  <2>1. PICK now \in clock .. MaxTime : clock' = now /\ sessions' = LoadSessions(now)
    BY <1>19, Zenon DEF Restart
  <2>2. sessions' \in [Ids -> Row \cup {None}]
    BY <2>1, Zenon DEF TypeOK, LoadSessions
  <2>3. history' \in [Ids -> Seq(Message)]
    BY <1>19, TrimType, SMTT(30) DEF TypeOK, Restart, LoadHistory
  <2>4. ASSUME NEW o \in Owners
        PROVE  Cardinality({i \in Ids : sessions'[i] # None /\ sessions'[i].owner = o}) \in Nat
    BY IdsFinite, FS_Subset, FS_CardinalityType, Zenon
  <2>5. counts' \in [Owners -> Nat]
    BY <1>19, <2>4, Zenon DEF Restart, reconcileCounts
  <2> QED BY <1>0, <1>19, <2>1, <2>2, <2>3, <2>5, ScenarioTypes DEF TypeOK, Restart, Scenario
<1> QED BY <1>1, <1>2, <1>3, <1>4, <1>6, <1>7, <1>8, <1>9, <1>10, <1>11, <1>12, <1>13, <1>14,
           <1>15, <1>16, <1>17, <1>18, <1>19, Zenon DEF Next, Create, Turn, Removal

(* Each process stays where it belongs, and holds countMu while it purges. *)
LEMMA LockStep == TypeOK /\ Places /\ LockExact /\ Next => Places' /\ LockExact'
<1> SUFFICES ASSUME TypeOK, Places, LockExact, Next PROVE Places' /\ LockExact'
  BY Zenon
<1> USE DEF Places, LockExact, goto, storeVars, countVars, callVars, diskVars, histVars
<1>0. /\ pc \in [Procs -> {"idle", "mint", "store", "history", "infer", "append", "put", "delete",
                           "purge", "sweep", "done"}]
      /\ Sweeper \in Procs /\ \A p \in Calls : p \in Procs /\ p # Sweeper
      /\ \A q \in Procs : q # None
  BY CallTypes, NoneDistinct DEF TypeOK, Procs
<1>1. ASSUME NEW p \in Calls, NEW l \in {"mint", "store", "history", "infer", "append", "put",
                                        "delete", "done"},
             pc[p] # "purge", pc' = [pc EXCEPT ![p] = l], countMu' = countMu
      PROVE  Places' /\ LockExact'
  BY <1>0, <1>1, Zenon
<1>2. ASSUME NEW p \in Calls, Create(p) PROVE Places' /\ LockExact'
  <2>1. CASE ReserveSlot(p)
    BY <1>1, <2>1, Zenon DEF ReserveSlot
  <2>2. CASE NewID(p)
    BY <1>1, <2>2, Zenon DEF NewID
  <2>3. CASE NewIDFails(p)
    BY <1>1, <2>3, Zenon DEF NewIDFails
  <2>4. CASE PutNew(p)
    BY <1>1, <2>4, Zenon DEF PutNew
  <2> QED BY <1>2, <2>1, <2>2, <2>3, <2>4, Zenon DEF Create
<1>3. ASSUME NEW p \in Calls, Resume(p) \/ Bind(p) PROVE Places' /\ LockExact'
  BY <1>1, <1>3, Zenon DEF Resume, Bind, readCopy
<1>4. ASSUME NEW p \in Calls, Turn(p) PROVE Places' /\ LockExact'
  <2>1. CASE CheckAppendable(p)
    BY <1>1, <2>1, Zenon DEF CheckAppendable
  <2>2. CASE ReadHistory(p) \/ InferenceFails(p)
    BY <1>1, <2>2, Zenon DEF ReadHistory, InferenceFails
  <2>3. CASE AppendTurns(p)
    BY <1>1, <2>3, Zenon DEF AppendTurns, readCopy
  <2>4. CASE AppendBatch(p)
    BY <1>1, <2>4, Zenon DEF AppendBatch
  <2> QED BY <1>4, <2>1, <2>2, <2>3, <2>4 DEF Turn
<1>5. ASSUME NEW p \in Calls, Put(p) \/ Delete(p) PROVE Places' /\ LockExact'
  BY <1>1, <1>5 DEF Put, Delete
<1>6. ASSUME NEW q \in Procs, DeleteRow(q) PROVE Places' /\ LockExact'
  <2>1. CASE pc' = [pc EXCEPT ![q] = "purge"] /\ countMu' = q /\ countMu = None
    BY <1>0, <2>1, Zenon DEF Procs
  <2>2. CASE pc' = [pc EXCEPT ![q] = IF q = Sweeper THEN "sweep" ELSE "done"]
             /\ countMu' = countMu /\ pc[q] = "delete"
    BY <1>0, <2>2, Zenon DEF Procs
  <2> QED BY <1>6, <2>1, <2>2, Zenon DEF DeleteRow, leave
<1>7. ASSUME NEW q \in Procs, Purge(q) PROVE Places' /\ LockExact'
  BY <1>0, <1>7, Zenon DEF Purge, leave, Procs
<1>8. ASSUME SweepList \/ SweepNext PROVE Places' /\ LockExact'
  BY <1>0, <1>8 DEF SweepList, SweepNext
<1>9. ASSUME SetMaxSessionsPerKey \/ Tick \/ CheckpointSessions \/ CheckpointHistory
      PROVE  Places' /\ LockExact'
  BY <1>9, Zenon DEF SetMaxSessionsPerKey, Tick, CheckpointSessions, CheckpointHistory
<1>10. ASSUME Restart PROVE Places' /\ LockExact'
  BY <1>0, <1>10, Zenon DEF Restart
<1> QED BY <1>2, <1>3, <1>4, <1>5, <1>6, <1>7, <1>8, <1>9, <1>10, Zenon DEF Next, Removal

(* Rows keep the owner their id was minted for, through copies, timestamps *)
(* and checkpoints.                                                        *)
LEMMA OwnersStep == TypeOK /\ OwnersAgree /\ Next => OwnersAgree'
<1> SUFFICES ASSUME TypeOK, OwnersAgree, Next PROVE OwnersAgree'
  BY Zenon
<1> USE DEF goto, storeVars, countVars, callVars, diskVars, histVars, minted
<1>0. /\ pc \in [Procs -> {"idle", "mint", "store", "history", "infer", "append", "put", "delete",
                           "purge", "sweep", "done"}]
      /\ id \in [Procs -> Ids \cup {None}] /\ copy \in [Procs -> Row \cup {None}]
      /\ sessions \in [Ids -> Row \cup {None}] /\ mintedBy \in [Ids -> Owners \cup {None}]
      /\ Sweeper \in Procs /\ \A p \in Calls : p \in Procs /\ OwnerOf[p] \in Owners
  BY CallTypes, Zenon DEF TypeOK, Procs
<1>1. ASSUME NEW p \in Calls, NewID(p) PROVE OwnersAgree'
  <2>1. PICK i \in Ids \ minted : /\ id' = [id EXCEPT ![p] = i]
                                  /\ mintedBy' = [mintedBy EXCEPT ![i] = OwnerOf[p]]
    BY <1>1, Zenon DEF NewID
  <2>2. \A k \in minted : k \in minted' /\ mintedBy'[k] = mintedBy[k]
    BY <2>1
  <2>3. i \in minted' /\ mintedBy'[i] = OwnerOf[p]
    BY <1>0, <2>1, NoneDistinct, Zenon
  <2>4. copy'[p] \in Row /\ copy'[p].owner = OwnerOf[p]
    BY <1>0, <1>1, ScenarioTypes, Zenon DEF NewID, TypeOK, Row, Scenario
  <2>5. \A k \in Ids : (sessions[k] # None \/ disk.sessions[k] # None) => k \in minted
    BY NoneDistinct DEF OwnersAgree, TypeOK, Row
  <2>6. \A q \in Procs \ {p} : pc'[q] = pc[q] /\ id'[q] = id[q] /\ copy'[q] = copy[q]
    BY <1>0, <1>1, <2>1, Zenon DEF NewID
  <2>7. pc'[p] = "store" /\ id'[p] = i
    BY <1>0, <1>1, <2>1, Zenon DEF NewID
  <2>8. \A k \in Ids : /\ sessions'[k] # None => sessions'[k].owner = mintedBy'[k]
                       /\ disk'.sessions[k] # None => disk'.sessions[k].owner = mintedBy'[k]
    BY <1>1, <2>2, <2>5, SMTT(30) DEF OwnersAgree, NewID
  <2>9. listed' \subseteq minted' /\ revived' \subseteq minted'
    BY <1>1, <2>2, SMTT(30) DEF OwnersAgree, NewID
  <2>10. ASSUME NEW q \in Procs
         PROVE  /\ pc'[q] \in {"store", "history", "infer", "append", "put", "delete", "purge"} =>
                      id'[q] \in minted'
                /\ pc'[q] \in {"store", "append", "put", "purge"} =>
                      copy'[q] \in Row /\ copy'[q].owner = mintedBy'[id'[q]]
    BY <2>2, <2>3, <2>4, <2>6, <2>7, SMTT(30) DEF OwnersAgree
  <2> QED BY <2>8, <2>9, <2>10, Zenon DEF OwnersAgree
<1>2. ASSUME NEW q \in Procs, NEW l, mintedBy' = mintedBy, pc' = [pc EXCEPT ![q] = l],
             l \in {"store", "history", "infer", "append", "put", "delete", "purge"} =>
                id'[q] \in minted,
             l \in {"store", "append", "put", "purge"} =>
                copy'[q] \in Row /\ copy'[q].owner = mintedBy[id'[q]],
             \A r \in Procs \ {q} : id'[r] = id[r] /\ copy'[r] = copy[r],
             \A i \in Ids : sessions'[i] \in {sessions[i], None}
                            \/ (sessions'[i] \in Row /\ sessions'[i].owner = mintedBy[i]),
             disk' = disk, listed' \subseteq minted, revived' \subseteq minted
      PROVE  OwnersAgree'
  <2>1. minted' = minted
    BY <1>2, Zenon
  <2>2. \A r \in Procs \ {q} : pc'[r] = pc[r]
    BY <1>0, <1>2, Zenon
  <2>3. pc'[q] = l
    BY <1>0, <1>2, Zenon
  <2>4. \A i \in Ids : /\ sessions'[i] # None => sessions'[i].owner = mintedBy'[i]
                       /\ disk'.sessions[i] # None => disk'.sessions[i].owner = mintedBy'[i]
    BY <1>2, Zenon DEF OwnersAgree
  <2>5. ASSUME NEW r \in Procs
        PROVE  /\ pc'[r] \in {"store", "history", "infer", "append", "put", "delete", "purge"} =>
                     id'[r] \in minted'
               /\ pc'[r] \in {"store", "append", "put", "purge"} =>
                     copy'[r] \in Row /\ copy'[r].owner = mintedBy'[id'[r]]
    BY <1>2, <2>1, <2>2, <2>3 DEF OwnersAgree
  <2> QED BY <1>2, <2>1, <2>4, <2>5, Zenon DEF OwnersAgree
<1>3. listed \subseteq minted /\ revived \subseteq minted
  BY Zenon DEF OwnersAgree

<1>4. ASSUME NEW p \in Calls, ReserveSlot(p) \/ NewIDFails(p) \/ InferenceFails(p)
      PROVE  OwnersAgree'
  <2>1. \E l \in {"done", "mint"} : pc' = [pc EXCEPT ![p] = l]
    BY <1>4, Zenon DEF ReserveSlot, NewIDFails, InferenceFails
  <2>2. UNCHANGED <<mintedBy, sessions, disk, id, copy, listed, revived>>
    BY <1>4, Zenon DEF ReserveSlot, NewIDFails, InferenceFails
  <2> QED BY <1>0, <1>2, <1>3, <2>1, <2>2, Zenon
<1>5. ASSUME NEW p \in Calls, PutNew(p) \/ Put(p) PROVE OwnersAgree'
  <2>1. id[p] \in minted /\ copy[p] \in Row /\ copy[p].owner = mintedBy[id[p]]
    BY <1>0, <1>5, SMTT(30) DEF PutNew, Put, OwnersAgree
  <2>2. sessions' = [sessions EXCEPT ![id[p]] = copy[p]] /\ pc' = [pc EXCEPT ![p] = "done"]
    BY <1>5, Zenon DEF PutNew, Put
  <2>3. \A i \in Ids : sessions'[i] \in {sessions[i], None}
                       \/ (sessions'[i] \in Row /\ sessions'[i].owner = mintedBy[i])
    BY <1>0, <2>1, <2>2, SMTT(30)
  <2>4. UNCHANGED <<mintedBy, disk, id, copy, listed>> /\ revived' \subseteq minted
    BY <1>3, <1>5, <2>1 DEF PutNew, Put
  <2> QED BY <1>0, <1>2, <1>3, <2>2, <2>3, <2>4, ZenonT(40)
<1>6. ASSUME NEW p \in Calls, NEW i \in minted, NEW row, NEW l \in {"put", "append"},
             readCopy(p, i, row, l), ownedActive(p, i) => row \in Row /\ row.owner = mintedBy[i],
             UNCHANGED <<sessions, disk, listed, mintedBy, revived>>
      PROVE  OwnersAgree'
  <2>1. id' = [id EXCEPT ![p] = i]
    BY <1>6, Zenon DEF readCopy
  <2>2. CASE ownedActive(p, i)
    <3>1. copy' = [copy EXCEPT ![p] = row] /\ pc' = [pc EXCEPT ![p] = l]
      BY <1>6, <2>2, Zenon DEF readCopy
    <3> QED BY <1>0, <1>2, <1>3, <1>6, <2>1, <2>2, <3>1, Zenon
  <2>3. CASE ~ownedActive(p, i)
    <3>1. copy' = copy /\ pc' = [pc EXCEPT ![p] = "done"]
      BY <1>6, <2>3, Zenon DEF readCopy
    <3> QED BY <1>0, <1>2, <1>3, <1>6, <2>1, <3>1, Zenon
  <2> QED BY <2>2, <2>3
<1>7. ASSUME NEW p \in Calls, NEW i \in minted, ownedActive(p, i)
      PROVE  /\ [sessions[i] EXCEPT !.last = clock] \in Row
             /\ [sessions[i] EXCEPT !.last = clock].owner = mintedBy[i]
             /\ \A w \in Workers :
                  /\ [sessions[i] EXCEPT !.last = clock, !.bound = w] \in Row
                  /\ [sessions[i] EXCEPT !.last = clock, !.bound = w].owner = mintedBy[i]
  <2>1. sessions[i] \in Row /\ clock \in 0 .. MaxTime /\ sessions[i].owner = mintedBy[i]
    BY <1>7 DEF ownedActive, OwnersAgree, TypeOK
  <2> QED BY <2>1, TouchedRow, Zenon
<1>8. ASSUME NEW p \in Calls, Resume(p) PROVE OwnersAgree'
  <2>1. PICK i \in minted : readCopy(p, i, [sessions[i] EXCEPT !.last = clock], "put")
    BY <1>8, Zenon DEF Resume
  <2>2. UNCHANGED <<sessions, disk, listed, mintedBy, revived>>
    BY <1>8, Zenon DEF Resume
  <2> QED BY <1>6, <1>7, <2>1, <2>2, Zenon
<1>9. ASSUME NEW p \in Calls, Bind(p) PROVE OwnersAgree'
  <2>1. PICK i \in minted, w \in Workers :
            readCopy(p, i, [sessions[i] EXCEPT !.last = clock, !.bound = w], "put")
    BY <1>9, Zenon DEF Bind
  <2>2. UNCHANGED <<sessions, disk, listed, mintedBy, revived>>
    BY <1>9, Zenon DEF Bind
  <2> QED BY <1>6, <1>7, <2>1, <2>2, Zenon
<1>10. ASSUME NEW p \in Calls, AppendTurns(p) PROVE OwnersAgree'
  <2>1. id[p] \in minted
    BY <1>0, <1>10, Zenon DEF AppendTurns, OwnersAgree
  <2>2. readCopy(p, id[p], [sessions[id[p]] EXCEPT !.last = clock], "append")
    BY <1>10, Zenon DEF AppendTurns
  <2>3. UNCHANGED <<sessions, disk, listed, mintedBy, revived>>
    BY <1>10, Zenon DEF AppendTurns
  <2> QED BY <1>6, <1>7, <2>1, <2>2, <2>3, Zenon
<1>11. ASSUME NEW p \in Calls, CheckAppendable(p) \/ Delete(p) PROVE OwnersAgree'
  <2>1. PICK i \in minted : id' = [id EXCEPT ![p] = i]
    BY <1>11, Zenon DEF CheckAppendable, Delete
  <2>2. \E l \in {"history", "delete", "done"} : pc' = [pc EXCEPT ![p] = l]
    BY <1>11, Zenon DEF CheckAppendable, Delete
  <2>3. UNCHANGED <<mintedBy, sessions, disk, copy, listed, revived>>
    BY <1>11, Zenon DEF CheckAppendable, Delete
  <2> QED BY <1>0, <1>2, <1>3, <2>1, <2>2, <2>3, Zenon
<1>12. ASSUME NEW p \in Calls, ReadHistory(p) \/ AppendBatch(p) PROVE OwnersAgree'
  <2>1. id[p] \in minted
    BY <1>0, <1>12, Zenon DEF ReadHistory, AppendBatch, OwnersAgree
  <2>2. UNCHANGED <<mintedBy, sessions, disk, id, copy, listed, revived>>
    BY <1>12, Zenon DEF ReadHistory, AppendBatch
  <2>3. CASE ReadHistory(p)
    <3>1. \E l \in {"infer", "done"} : pc' = [pc EXCEPT ![p] = l]
      BY <2>3, Zenon DEF ReadHistory
    <3> QED BY <1>0, <1>2, <1>3, <2>1, <2>2, <3>1, Zenon
  <2>4. CASE AppendBatch(p)
    <3>1. \E l \in {"put", "done"} : pc' = [pc EXCEPT ![p] = l]
      BY <2>4, Zenon DEF AppendBatch
    <3>2. copy[p] \in Row /\ copy[p].owner = mintedBy[id[p]]
      BY <1>0, <2>4, Zenon DEF AppendBatch, OwnersAgree
    <3> QED BY <1>0, <1>2, <1>3, <2>1, <2>2, <3>1, <3>2, Zenon
  <2> QED BY <1>12, <2>3, <2>4, Zenon
<1>13. ASSUME NEW q \in Procs, DeleteRow(q) PROVE OwnersAgree'
  <2>1. id[q] \in minted
    BY <1>0, <1>13, Zenon DEF DeleteRow, OwnersAgree
  <2>2. UNCHANGED <<mintedBy, disk, id, listed, revived>>
    BY <1>13, Zenon DEF DeleteRow
  <2>3. CASE sessions[id[q]] = None
    <3>1. /\ \E l \in {"sweep", "done"} : pc' = [pc EXCEPT ![q] = l]
          /\ UNCHANGED <<sessions, copy>>
      BY <1>13, <2>3, Zenon DEF DeleteRow, leave
    <3> QED BY <1>0, <1>2, <1>3, <2>1, <2>2, <3>1, Zenon
  <2>4. CASE sessions[id[q]] # None
    <3>1. /\ pc' = [pc EXCEPT ![q] = "purge"]
          /\ sessions' = [sessions EXCEPT ![id[q]] = None]
          /\ copy' = [copy EXCEPT ![q] = sessions[id[q]]]
      BY <1>13, <2>4, Zenon DEF DeleteRow
    <3>2. sessions[id[q]] \in Row /\ sessions[id[q]].owner = mintedBy[id[q]]
      BY <1>0, <2>1, <2>4, SMTT(30) DEF OwnersAgree
    <3>3. \A i \in Ids : sessions'[i] \in {sessions[i], None}
      BY <1>0, <3>1, Zenon
    <3> QED BY <1>0, <1>2, <1>3, <2>1, <2>2, <3>1, <3>2, <3>3, Zenon
  <2> QED BY <2>3, <2>4, Zenon
<1>14. ASSUME NEW q \in Procs, Purge(q) PROVE OwnersAgree'
  <2>1. /\ \E l \in {"sweep", "done"} : pc' = [pc EXCEPT ![q] = l]
        /\ UNCHANGED <<mintedBy, sessions, disk, id, copy, listed, revived>>
    BY <1>14, Zenon DEF Purge, leave
  <2> QED BY <1>0, <1>2, <1>3, <2>1, Zenon
<1>15. ASSUME SweepList PROVE OwnersAgree'
  <2>1. listed' \subseteq minted
    BY <1>0, <1>15, NoneDistinct DEF SweepList, Live, OwnersAgree, Row
  <2>2. pc' = [pc EXCEPT ![Sweeper] = "sweep"]
        /\ UNCHANGED <<mintedBy, sessions, disk, id, copy, revived>>
    BY <1>15, Zenon DEF SweepList
  <2> QED BY <1>0, <1>2, <1>3, <2>1, <2>2, ZenonT(40)
<1>16. ASSUME SweepNext PROVE OwnersAgree'
  <2>1. UNCHANGED <<mintedBy, sessions, disk, copy, revived>>
    BY <1>16, Zenon DEF SweepNext
  <2>2. CASE listed = {}
    <3>1. pc' = [pc EXCEPT ![Sweeper] = "idle"] /\ UNCHANGED <<id, listed>>
      BY <1>16, <2>2, Zenon DEF SweepNext
    <3> QED BY <1>0, <1>2, <1>3, <2>1, <3>1, Zenon
  <2>3. CASE listed # {}
    <3>1. PICK i \in listed : /\ id' = [id EXCEPT ![Sweeper] = i]
                              /\ listed' = listed \ {i}
                              /\ pc' = [pc EXCEPT ![Sweeper] = "delete"]
      BY <1>16, <2>3, Zenon DEF SweepNext
    <3> QED BY <1>0, <1>2, <1>3, <2>1, <3>1, Zenon
  <2> QED BY <2>2, <2>3, Zenon
<1>17. ASSUME SetMaxSessionsPerKey \/ Tick \/ CheckpointSessions \/ CheckpointHistory
       PROVE  OwnersAgree'
  <2>1. UNCHANGED <<sessions, mintedBy, pc, id, copy, listed, revived>>
    BY <1>17, Zenon DEF SetMaxSessionsPerKey, Tick, CheckpointSessions, CheckpointHistory
  <2>2. disk'.sessions = disk.sessions \/ disk'.sessions = sessions
    BY <1>17, Zenon DEF SetMaxSessionsPerKey, Tick, CheckpointSessions, CheckpointHistory, TypeOK
  <2> QED BY <2>1, <2>2, Zenon DEF OwnersAgree
<1>18. ASSUME Restart PROVE OwnersAgree'
  <2>1. \A i \in Ids : sessions'[i] # None => sessions'[i] = disk.sessions[i]
    BY <1>18, Zenon DEF Restart, LoadSessions
  <2>2. UNCHANGED <<mintedBy, disk, revived>> /\ listed' = {}
    BY <1>18, Zenon DEF Restart
  <2>3. \A q \in Procs : pc'[q] \in {"idle", "done"}
    BY <1>18, Zenon DEF Restart
  <2> QED BY <2>1, <2>2, <2>3, Zenon DEF OwnersAgree
<1> QED BY <1>1, <1>4, <1>5, <1>8, <1>9, <1>10, <1>11, <1>12, <1>13, <1>14, <1>15, <1>16,
           <1>17, <1>18, ZenonT(40) DEF Next, Create, Turn, Removal

(* An id nobody else knows stays so until its row is stored.               *)
LEMMA FreshStep == RowsInv /\ FreshRows /\ EndsExact /\ Next => FreshRows'
<1> SUFFICES ASSUME RowsInv, FreshRows, EndsExact, Next PROVE FreshRows'
  BY Zenon
<1> USE DEF goto, storeVars, countVars, callVars, diskVars, histVars
<1>0. /\ pc \in [Procs -> {"idle", "mint", "store", "history", "infer", "append", "put", "delete",
                           "purge", "sweep", "done"}]
      /\ id \in [Procs -> Ids \cup {None}] /\ copy \in [Procs -> Row \cup {None}]
      /\ sessions \in [Ids -> Row \cup {None}] /\ ends \in [Ids -> Nat]
      /\ Sweeper \in Procs /\ \A p \in Calls : p \in Procs
  BY Zenon DEF RowsInv, TypeOK, Procs
<1>1. ASSUME NEW p \in Calls, NewID(p) PROVE FreshRows'
  <2>1. PICK i \in Ids \ minted : id' = [id EXCEPT ![p] = i]
    BY <1>1, Zenon DEF NewID
  <2>2. pc' = [pc EXCEPT ![p] = "store"] /\ UNCHANGED <<sessions, ends>>
    BY <1>1, Zenon DEF NewID
  <2>3. copy'[p].owner = OwnerOf[p] /\ \A q \in Procs \ {p} : copy'[q] = copy[q]
    BY <1>0, <1>1, Zenon DEF NewID
  <2>4. sessions[i] = None
    BY <2>1, NoneDistinct, SMTT(30) DEF RowsInv, TypeOK, OwnersAgree, minted, Row
  <2>5. ends[i] = 0
    BY <1>0, <2>1 DEF EndsExact, RowsInv, OwnersAgree
  <2>6. \A q \in Procs : pc[q] \in {"store", "append", "put", "purge"} => id[q] # i
    BY <2>1, Zenon DEF RowsInv, OwnersAgree
  <2>7. \A q \in Procs \ {p} : pc'[q] = pc[q] /\ id'[q] = id[q]
    BY <1>0, <2>1, <2>2, Zenon
  <2>8. id'[p] = i
    BY <1>0, <2>1, Zenon
  <2>9. ASSUME NEW r \in Calls \ {p}, pc'[r] = "store"
        PROVE  /\ copy'[r].owner = OwnerOf[r] /\ sessions'[id'[r]] = None /\ ends'[id'[r]] = 0
               /\ \A q \in Procs \ {r} :
                     pc'[q] \in {"store", "append", "put", "purge"} => id'[q] # id'[r]
    BY <1>0, <2>2, <2>3, <2>6, <2>7, <2>8, <2>9, SMTT(30) DEF FreshRows
  <2>10. /\ copy'[p].owner = OwnerOf[p] /\ sessions'[id'[p]] = None /\ ends'[id'[p]] = 0
         /\ \A q \in Procs \ {p} :
               pc'[q] \in {"store", "append", "put", "purge"} => id'[q] # id'[p]
    BY <2>2, <2>3, <2>4, <2>5, <2>6, <2>7, <2>8, Zenon
  <2> QED BY <2>9, <2>10, Zenon DEF FreshRows
<1>2. ASSUME NEW q \in Procs, NEW l, pc' = [pc EXCEPT ![q] = l], l # "store",
             l \in {"append", "put", "purge"} =>
                \/ pc[q] \in {"append", "put", "purge"} /\ id'[q] = id[q]
                \/ id'[q] \in Ids /\ sessions[id'[q]] # None,
             \A r \in Procs \ {q} : id'[r] = id[r] /\ copy'[r] = copy[r],
             \A i \in Ids : sessions'[i] # None =>
                sessions[i] # None \/ (pc[q] \in {"store", "put"} /\ id[q] = i),
             \A i \in Ids : ends'[i] # ends[i] => pc[q] = "purge" /\ id[q] = i
      PROVE  FreshRows'
  <2> SUFFICES ASSUME NEW p \in Calls, pc'[p] = "store"
               PROVE  /\ copy'[p].owner = OwnerOf[p] /\ sessions'[id'[p]] = None /\ ends'[id'[p]] = 0
                      /\ \A r \in Procs \ {p} :
                            pc'[r] \in {"store", "append", "put", "purge"} => id'[r] # id'[p]
    BY Zenon DEF FreshRows
  <2>1. p # q /\ pc[p] = "store" /\ id'[p] = id[p] /\ copy'[p] = copy[p]
    BY <1>0, <1>2, Zenon
  <2>2. id[p] \in Ids
    BY <1>0, <2>1, Zenon DEF RowsInv, OwnersAgree, minted
  <2>3. sessions'[id[p]] = None /\ ends'[id[p]] = 0
    BY <1>0, <1>2, <2>1, <2>2 DEF FreshRows
  <2>4. ASSUME NEW r \in Procs \ {p}, pc'[r] \in {"store", "append", "put", "purge"}
        PROVE  id'[r] # id[p]
    <3>1. CASE r = q
      BY <1>0, <1>2, <2>1, <2>4, <3>1, SMTT(30) DEF FreshRows
    <3>2. CASE r # q
      BY <1>0, <1>2, <2>1, <2>4, <3>2 DEF FreshRows
    <3> QED BY <3>1, <3>2, Zenon
  <2> QED BY <2>1, <2>3, <2>4, Zenon DEF FreshRows
<1>3. ASSUME NEW p \in Calls, ReserveSlot(p) \/ NewIDFails(p) \/ InferenceFails(p) \/ ReadHistory(p)
      PROVE  FreshRows'
  <2>1. \E l \in {"done", "mint", "infer"} : pc' = [pc EXCEPT ![p] = l]
    BY <1>3, Zenon DEF ReserveSlot, NewIDFails, InferenceFails, ReadHistory
  <2>2. UNCHANGED <<sessions, id, copy, ends>>
    BY <1>3, Zenon DEF ReserveSlot, NewIDFails, InferenceFails, ReadHistory
  <2> QED BY <1>0, <1>2, <2>1, <2>2, Zenon
<1>4. ASSUME NEW p \in Calls, PutNew(p) \/ Put(p) PROVE FreshRows'
  <2>1. /\ sessions' = [sessions EXCEPT ![id[p]] = copy[p]] /\ pc' = [pc EXCEPT ![p] = "done"]
        /\ UNCHANGED <<id, copy, ends>> /\ pc[p] \in {"store", "put"}
    BY <1>4, Zenon DEF PutNew, Put
  <2>2. \A i \in Ids : sessions'[i] # None => sessions[i] # None \/ id[p] = i
    BY <1>0, <2>1, Zenon
  <2> QED BY <1>0, <1>2, <2>1, <2>2, Zenon
<1>5. ASSUME NEW p \in Calls, NEW i \in Ids, NEW row, NEW l \in {"put", "append"},
             readCopy(p, i, row, l), UNCHANGED <<sessions, ends>>
      PROVE  FreshRows'
  <2>1. id' = [id EXCEPT ![p] = i] /\ \A r \in Procs \ {p} : copy'[r] = copy[r]
    BY <1>0, <1>5, Zenon DEF readCopy
  <2>2. CASE ownedActive(p, i)
    <3>1. sessions[i] # None /\ pc' = [pc EXCEPT ![p] = l]
      BY <1>5, <2>2, Zenon DEF readCopy, ownedActive
    <3> QED BY <1>0, <1>2, <1>5, <2>1, <3>1, Zenon
  <2>3. CASE ~ownedActive(p, i)
    <3>1. pc' = [pc EXCEPT ![p] = "done"]
      BY <1>5, <2>3, Zenon DEF readCopy
    <3> QED BY <1>0, <1>2, <1>5, <2>1, <3>1, Zenon
  <2> QED BY <2>2, <2>3, Zenon
<1>6. ASSUME NEW p \in Calls, Resume(p) \/ Bind(p) \/ AppendTurns(p) PROVE FreshRows'
  <2>1. UNCHANGED <<sessions, ends>>
    BY <1>6, Zenon DEF Resume, Bind, AppendTurns
  <2>2. pc[p] = "infer" => id[p] \in Ids
    BY <1>0, Zenon DEF RowsInv, OwnersAgree, minted
  <2>3. CASE Resume(p)
    <3>1. PICK i \in Ids : readCopy(p, i, [sessions[i] EXCEPT !.last = clock], "put")
      BY <2>3, Zenon DEF Resume, minted
    <3> QED BY <1>5, <2>1, <3>1, Zenon
  <2>4. CASE Bind(p)
    <3>1. PICK i \in Ids, w \in Workers :
              readCopy(p, i, [sessions[i] EXCEPT !.last = clock, !.bound = w], "put")
      BY <2>4, Zenon DEF Bind, minted
    <3> QED BY <1>5, <2>1, <3>1, Zenon
  <2>5. CASE AppendTurns(p)
    <3>1. id[p] \in Ids /\ readCopy(p, id[p], [sessions[id[p]] EXCEPT !.last = clock], "append")
      BY <2>2, <2>5, Zenon DEF AppendTurns
    <3> QED BY <1>5, <2>1, <3>1, Zenon
  <2> QED BY <1>6, <2>3, <2>4, <2>5, Zenon
<1>7. ASSUME NEW p \in Calls, CheckAppendable(p) \/ Delete(p) PROVE FreshRows'
  <2>1. /\ \E i \in Ids : id' = [id EXCEPT ![p] = i]
        /\ \E l \in {"history", "delete", "done"} : pc' = [pc EXCEPT ![p] = l]
        /\ UNCHANGED <<sessions, copy, ends>>
    BY <1>7, Zenon DEF CheckAppendable, Delete, minted
  <2> QED BY <1>0, <1>2, <2>1, Zenon
<1>8. ASSUME NEW p \in Calls, AppendBatch(p) PROVE FreshRows'
  <2>1. /\ \E l \in {"put", "done"} : pc' = [pc EXCEPT ![p] = l]
        /\ UNCHANGED <<sessions, id, copy, ends>> /\ pc[p] = "append"
    BY <1>8, Zenon DEF AppendBatch
  <2> QED BY <1>0, <1>2, <2>1, Zenon
<1>9. ASSUME NEW q \in Procs, DeleteRow(q) PROVE FreshRows'
  <2>1. UNCHANGED <<id, ends>> /\ id[q] \in Ids
    BY <1>9, Zenon DEF DeleteRow, RowsInv, OwnersAgree, minted
  <2>2. CASE sessions[id[q]] = None
    <3>1. /\ \E l \in {"sweep", "done"} : pc' = [pc EXCEPT ![q] = l]
          /\ UNCHANGED <<sessions, copy>>
      BY <1>9, <2>2, Zenon DEF DeleteRow, leave
    <3> QED BY <1>0, <1>2, <2>1, <3>1, Zenon
  <2>3. CASE sessions[id[q]] # None
    <3>1. /\ pc' = [pc EXCEPT ![q] = "purge"]
          /\ sessions' = [sessions EXCEPT ![id[q]] = None]
          /\ copy' = [copy EXCEPT ![q] = sessions[id[q]]]
      BY <1>9, <2>3, Zenon DEF DeleteRow
    <3>2. \A i \in Ids : sessions'[i] # None => sessions[i] # None
      BY <1>0, <3>1, Zenon
    <3> QED BY <1>0, <1>2, <2>1, <2>3, <3>1, <3>2, Zenon
  <2> QED BY <2>2, <2>3, Zenon
<1>10. ASSUME NEW q \in Procs, Purge(q) PROVE FreshRows'
  <2>1. UNCHANGED <<sessions, id, copy>> /\ pc[q] = "purge"
    BY <1>10, Zenon DEF Purge
  <2>2. \A i \in Ids : ends'[i] # ends[i] => id[q] = i
    BY <1>0, <1>10, Zenon DEF Purge
  <2>3. PICK l \in {"sweep", "done"} : pc' = [pc EXCEPT ![q] = l]
    BY <1>10, Zenon DEF Purge, leave
  <2> QED BY <1>0, <1>2, <2>1, <2>2, <2>3, Zenon
<1>11. ASSUME SweepList \/ SweepNext PROVE FreshRows'
  <2>1. UNCHANGED <<sessions, copy, ends>> /\ \A r \in Procs \ {Sweeper} : id'[r] = id[r]
    BY <1>0, <1>11, Zenon DEF SweepList, SweepNext
  <2>2. \E l \in {"sweep", "idle", "delete"} : pc' = [pc EXCEPT ![Sweeper] = l]
    BY <1>11, Zenon DEF SweepList, SweepNext
  <2> QED BY <1>0, <1>2, <2>1, <2>2, ZenonT(40)
<1>12. ASSUME SetMaxSessionsPerKey \/ Tick \/ CheckpointSessions \/ CheckpointHistory
       PROVE  FreshRows'
  <2>1. UNCHANGED <<sessions, pc, id, copy, ends>>
    BY <1>12, Zenon DEF SetMaxSessionsPerKey, Tick, CheckpointSessions, CheckpointHistory
  <2> QED BY <2>1, Zenon DEF FreshRows
<1>13. ASSUME Restart PROVE FreshRows'
  BY <1>0, <1>13, Zenon DEF Restart, FreshRows
<1> QED BY <1>1, <1>3, <1>4, <1>6, <1>7, <1>8, <1>9, <1>10, <1>11, <1>12, <1>13, ZenonT(40)
        DEF Next, Create, Turn, Removal

(* The end of a session that is not put back is reported once.             *)
LEMMA EndsStep == RowsInv /\ FreshRows /\ EndsExact /\ Next => EndsExact'
<1> SUFFICES ASSUME RowsInv, FreshRows, EndsExact, Next PROVE EndsExact'
  BY Zenon
<1> USE DEF goto, storeVars, countVars, callVars, diskVars, histVars
<1>0. /\ pc \in [Procs -> {"idle", "mint", "store", "history", "infer", "append", "put", "delete",
                           "purge", "sweep", "done"}]
      /\ id \in [Procs -> Ids \cup {None}] /\ copy \in [Procs -> Row \cup {None}]
      /\ sessions \in [Ids -> Row \cup {None}] /\ ends \in [Ids -> Nat]
      /\ mintedBy \in [Ids -> Owners \cup {None}]
      /\ Sweeper \in Procs /\ \A p \in Calls : p \in Procs /\ OwnerOf[p] \in Owners
  BY CallTypes, Zenon DEF RowsInv, TypeOK, Procs
<1>1. ASSUME ends' = ends, revived \subseteq revived', minted \subseteq minted',
             \A i \in Ids \ revived' : sessions'[i] = None <=> sessions[i] = None,
             \A q \in Procs : pc'[q] = "purge" => pc[q] = "purge" /\ id'[q] = id[q]
      PROVE  EndsExact'
  BY <1>1 DEF EndsExact
<1>2. ASSUME NEW p \in Calls, NEW l, l # "purge", pc' = [pc EXCEPT ![p] = l],
             \A r \in Procs \ {p} : id'[r] = id[r],
             UNCHANGED <<sessions, ends, revived>>, minted \subseteq minted'
      PROVE  EndsExact'
  BY <1>0, <1>1, <1>2, Zenon
<1>3. ASSUME NEW p \in Calls, ReserveSlot(p) \/ NewIDFails(p) \/ InferenceFails(p)
                              \/ ReadHistory(p) \/ AppendBatch(p)
      PROVE  EndsExact'
  <2>1. PICK l \in {"done", "mint", "infer", "put"} : pc' = [pc EXCEPT ![p] = l]
    BY <1>3, Zenon DEF ReserveSlot, NewIDFails, InferenceFails, ReadHistory, AppendBatch
  <2>2. UNCHANGED <<sessions, id, ends, revived, mintedBy>>
    BY <1>3, Zenon DEF ReserveSlot, NewIDFails, InferenceFails, ReadHistory, AppendBatch
  <2> QED BY <1>2, <2>1, <2>2, Zenon DEF minted
<1>4. ASSUME NEW p \in Calls, NewID(p) PROVE EndsExact'
  <2>1. minted \subseteq minted'
    BY <1>0, <1>4, NoneDistinct, Zenon DEF NewID, minted
  <2> QED BY <1>0, <1>2, <1>4, <2>1, Zenon DEF NewID
<1>5. ASSUME NEW p \in Calls, PutNew(p) PROVE EndsExact'
  <2>1. /\ sessions' = [sessions EXCEPT ![id[p]] = copy[p]] /\ pc' = [pc EXCEPT ![p] = "done"]
        /\ UNCHANGED <<id, ends, revived, mintedBy>> /\ pc[p] = "store"
    BY <1>5, Zenon DEF PutNew
  <2>2. id[p] \in Ids /\ ends[id[p]] = 0
    BY <1>0, <2>1, Zenon DEF RowsInv, OwnersAgree, minted, FreshRows
  <2>3. \A q \in Procs : pc'[q] = "purge" => pc[q] = "purge" /\ id[q] # id[p]
    BY <1>0, <2>1, Zenon DEF FreshRows
  <2>4. \A i \in Ids \ {id[p]} : sessions'[i] = sessions[i]
    BY <1>0, <2>1, Zenon
  <2>5. minted' = minted
    BY <2>1, Zenon DEF minted
  <2> QED BY <1>0, <2>1, <2>2, <2>3, <2>4, <2>5, SMTT(30) DEF EndsExact
<1>6. ASSUME NEW p \in Calls, Put(p) PROVE EndsExact'
  <2>1. id[p] \in Ids /\ copy[p] # None
    BY <1>0, <1>6, NoneDistinct, SMTT(30) DEF Put, RowsInv, OwnersAgree, minted
  <2>2. \A i \in Ids \ revived' : sessions'[i] = None <=> sessions[i] = None
    BY <1>0, <1>6, <2>1, Zenon DEF Put
  <2>3. \A q \in Procs : pc'[q] = "purge" => pc[q] = "purge" /\ id'[q] = id[q]
    BY <1>0, <1>6, Zenon DEF Put
  <2>4. ends' = ends /\ revived \subseteq revived' /\ minted \subseteq minted'
    BY <1>6, Zenon DEF Put, minted
  <2> QED BY <1>1, <2>2, <2>3, <2>4, Zenon
<1>7. ASSUME NEW p \in Calls, Resume(p) \/ Bind(p) \/ AppendTurns(p) \/ CheckAppendable(p) \/ Delete(p)
      PROVE  EndsExact'
  <2>1. UNCHANGED <<sessions, ends, revived, mintedBy>>
    BY <1>7, Zenon DEF Resume, Bind, AppendTurns, CheckAppendable, Delete
  <2>2. \E l \in {"put", "append", "history", "delete", "done"} : pc' = [pc EXCEPT ![p] = l]
    BY <1>7, Zenon DEF Resume, Bind, AppendTurns, CheckAppendable, Delete, readCopy
  <2>3. \A r \in Procs \ {p} : id'[r] = id[r]
    BY <1>0, <1>7, Zenon DEF Resume, Bind, AppendTurns, CheckAppendable, Delete, readCopy
  <2> QED BY <1>2, <2>1, <2>2, <2>3, Zenon DEF minted
<1>8. ASSUME NEW q \in Procs, DeleteRow(q) PROVE EndsExact'
  <2>1. UNCHANGED <<id, ends, revived, mintedBy>> /\ id[q] \in Ids
    BY <1>8, Zenon DEF DeleteRow, RowsInv, OwnersAgree, minted
  <2>2. CASE sessions[id[q]] = None
    <3>1. sessions' = sessions /\ \A r \in Procs : pc'[r] = "purge" => pc[r] = "purge"
      BY <1>0, <1>8, <2>2, Zenon DEF DeleteRow, leave
    <3> QED BY <1>1, <2>1, <3>1, Zenon DEF minted
  <2>3. CASE sessions[id[q]] # None
    <3>1. /\ pc' = [pc EXCEPT ![q] = "purge"]
          /\ sessions' = [sessions EXCEPT ![id[q]] = None]
          /\ countMu = None
      BY <1>8, <2>3, Zenon DEF DeleteRow
    <3>2. \A r \in Procs : pc'[r] = "purge" => r = q
      BY <1>0, <3>1, CallTypes, NoneDistinct, Zenon DEF RowsInv, LockExact, Procs
    <3>3. id[q] \notin revived => ends[id[q]] = 0
      BY <1>0, <2>1, <2>3, SMTT(30) DEF EndsExact
    <3>4. \A i \in Ids \ {id[q]} : sessions'[i] = sessions[i]
      BY <1>0, <3>1, Zenon
    <3>5. sessions'[id[q]] = None /\ minted' = minted
      BY <1>0, <2>1, <3>1, Zenon DEF minted
    <3> QED BY <1>0, <2>1, <3>2, <3>3, <3>4, <3>5, Zenon DEF EndsExact
  <2> QED BY <2>2, <2>3, Zenon
<1>9. ASSUME NEW q \in Procs, Purge(q) PROVE EndsExact'
  <2>1. UNCHANGED <<sessions, id, revived, mintedBy>> /\ pc[q] = "purge"
    BY <1>9, Zenon DEF Purge
  <2>2. id[q] \in Ids /\ id[q] \in minted
    BY <2>1, Zenon DEF RowsInv, OwnersAgree, minted
  <2>3. \A r \in Procs : pc'[r] # "purge"
    BY <1>0, <1>9, Zenon DEF Purge, leave, RowsInv, LockExact
  <2>4. \A i \in Ids : ends'[i] = IF i = id[q] THEN ends[i] + 1 ELSE ends[i]
    BY <1>0, <1>9, Zenon DEF Purge
  <2>5. id[q] \notin revived => sessions[id[q]] = None /\ ends[id[q]] = 0
    BY <2>1, <2>2, Zenon DEF EndsExact
  <2>6. minted' = minted
    BY <2>1, Zenon DEF minted
  <2> QED BY <1>0, <2>1, <2>2, <2>3, <2>4, <2>5, <2>6, SMTT(30) DEF EndsExact
<1>10. ASSUME SweepList \/ SweepNext PROVE EndsExact'
  <2>1. UNCHANGED <<sessions, ends, revived, mintedBy>>
        /\ \A r \in Procs : pc'[r] = "purge" => pc[r] = "purge" /\ id'[r] = id[r]
    BY <1>0, <1>10, Zenon DEF SweepList, SweepNext
  <2> QED BY <1>1, <2>1, Zenon DEF minted
<1>11. ASSUME SetMaxSessionsPerKey \/ Tick \/ CheckpointSessions \/ CheckpointHistory
       PROVE  EndsExact'
  <2>1. UNCHANGED <<sessions, pc, id, ends, revived, mintedBy>>
    BY <1>11, Zenon DEF SetMaxSessionsPerKey, Tick, CheckpointSessions, CheckpointHistory
  <2> QED BY <2>1, Zenon DEF EndsExact, minted
<1>12. ASSUME Restart PROVE EndsExact'
  BY <1>0, <1>12, SMTT(30) DEF Restart, EndsExact
<1> QED BY <1>3, <1>4, <1>5, <1>6, <1>7, <1>8, <1>9, <1>10, <1>11, <1>12, ZenonT(40)
        DEF Next, Create, Turn, Removal

(* An owner, once disturbed, stays so.                                     *)
LEMMA UndisturbedShrinks == RowsInv /\ Next => Undisturbed' \subseteq Undisturbed
<1> SUFFICES ASSUME RowsInv, Next PROVE Undisturbed' \subseteq Undisturbed
  BY Zenon
<1> USE DEF storeVars, countVars, callVars, diskVars, histVars
<1>1. ASSUME NEW p \in Calls, NewID(p) PROVE Undisturbed' \subseteq Undisturbed
  <2>1. \A i \in revived : mintedBy'[i] = mintedBy[i]
    BY <1>1, ZenonT(40) DEF NewID, RowsInv, OwnersAgree, minted, TypeOK
  <2> QED BY <1>1, <2>1, ZenonT(40) DEF Undisturbed, NewID
<1>2. ASSUME mintedBy' = mintedBy, revived \subseteq revived' PROVE Undisturbed' \subseteq Undisturbed
  BY <1>2, Zenon DEF Undisturbed
<1>3. (\E p \in Calls : NewID(p)) \/ (mintedBy' = mintedBy /\ revived \subseteq revived')
  <2>1. ASSUME NEW p \in Calls, ReserveSlot(p) \/ NewIDFails(p) \/ PutNew(p) \/ Resume(p) \/ Bind(p)
                                \/ Turn(p) \/ Put(p) \/ Delete(p)
        PROVE  mintedBy' = mintedBy /\ revived \subseteq revived'
    BY <2>1, Zenon DEF ReserveSlot, NewIDFails, PutNew, Resume, Bind, Put, Delete, Turn, CheckAppendable,
                ReadHistory, InferenceFails, AppendTurns, AppendBatch
  <2>2. ASSUME NEW q \in Procs, Removal(q) PROVE mintedBy' = mintedBy /\ revived \subseteq revived'
    BY <2>2, Zenon DEF Removal, DeleteRow, Purge
  <2>3. ASSUME SweepList \/ SweepNext \/ SetMaxSessionsPerKey \/ Tick \/ CheckpointSessions
               \/ CheckpointHistory \/ Restart
        PROVE  mintedBy' = mintedBy /\ revived \subseteq revived'
    BY <2>3, Zenon DEF SweepList, SweepNext, SetMaxSessionsPerKey, Tick, CheckpointSessions,
                CheckpointHistory, Restart
  <2> QED BY <2>1, <2>2, <2>3, Zenon DEF Next, Create
<1> QED BY <1>1, <1>2, <1>3, Zenon

(* The sets the tally counts are finite, and a removal has its section to  *)
(* itself.                                                                 *)
LEMMA TallySets ==
    ASSUME RowsInv, TallyInv, NEW o \in Owners
    PROVE  /\ IsFiniteSet(Of(o)) /\ Cardinality(Of(o)) \in Nat
           /\ IsFiniteSet(Creating(o)) /\ Cardinality(Creating(o)) \in Nat
           /\ IsFiniteSet(Removing(o)) /\ Cardinality(Removing(o)) \in Nat
           /\ counts[o] \in Nat
<1>1. IsFiniteSet(Of(o))
  BY IdsFinite, FS_Subset, Zenon DEF Of, Live
<1>2. IsFiniteSet(Removing(o))
  <2>1. Removing(o) \in SUBSET {countMu}
    BY Zenon DEF RowsInv, LockExact, Removing
  <2>2. IsFiniteSet({countMu})
    BY FS_Singleton, Zenon
  <2> QED BY <2>1, <2>2, FS_Subset, Zenon
<1>3. IsFiniteSet(Creating(o))
  BY Zenon DEF TallyInv
<1> QED BY <1>1, <1>2, <1>3, FS_CardinalityType, Zenon DEF RowsInv, TypeOK

(* Every step moves a slot between the sets the tally counts, or moves the *)
(* tally with them.                                                        *)
LEMMA TallyStep == RowsInv /\ FreshRows /\ TallyInv /\ Next => TallyInv'
<1> SUFFICES ASSUME RowsInv, FreshRows, TallyInv, Next PROVE TallyInv'
  OBVIOUS
<1> USE DEF goto, storeVars, countVars, callVars, diskVars, histVars
<1>0. /\ pc \in [Procs -> {"idle", "mint", "store", "history", "infer", "append", "put", "delete",
                           "purge", "sweep", "done"}]
      /\ id \in [Procs -> Ids \cup {None}] /\ copy \in [Procs -> Row \cup {None}]
      /\ sessions \in [Ids -> Row \cup {None}] /\ counts \in [Owners -> Nat]
      /\ mintedBy \in [Ids -> Owners \cup {None}]
      /\ Sweeper \in Procs /\ \A p \in Calls : p \in Procs /\ p # Sweeper /\ OwnerOf[p] \in Owners
  BY CallTypes, Zenon DEF RowsInv, TypeOK, Procs
<1>1. Undisturbed' \subseteq Undisturbed /\ Undisturbed \subseteq Owners
  BY UndisturbedShrinks, Zenon DEF Undisturbed
<1>2. \A o \in Undisturbed :
         counts[o] = Cardinality(Of(o)) + Cardinality(Creating(o)) + Cardinality(Removing(o))
  BY Zenon DEF TallyInv, TallyExact
<1>3. ASSUME \A o \in Undisturbed' : counts'[o] = counts[o] /\ Of(o)' = Of(o),
             \A o \in Owners : Creating(o)' = Creating(o) /\ Removing(o)' = Removing(o)
      PROVE  TallyInv'
  BY <1>1, <1>2, <1>3, Zenon DEF TallyInv, TallyExact
<1>4. ASSUME NEW p \in Calls, NEW l, l \notin {"mint", "store", "purge"},
             pc[p] \notin {"mint", "store", "purge"}, pc' = [pc EXCEPT ![p] = l],
             \A q \in Procs \ {p} : copy'[q] = copy[q], UNCHANGED <<sessions, counts>>
      PROVE  TallyInv'
  <2>1. ASSUME NEW o \in Owners
        PROVE  Creating(o)' = Creating(o) /\ Removing(o)' = Removing(o) /\ Of(o)' = Of(o)
    BY <1>0, <1>4, Zenon DEF Creating, Removing, Of, Live
  <2> QED BY <1>1, <1>3, <1>4, <2>1, Zenon
<1>5. ASSUME NEW p \in Calls, ReserveSlot(p) PROVE TallyInv'
  <2>1. UNCHANGED <<sessions, copy>> /\ pc[p] = "idle"
    BY <1>5, Zenon DEF ReserveSlot
  <2>2. CASE pc' = [pc EXCEPT ![p] = "done"] /\ counts' = counts
    BY <1>4, <2>1, <2>2, Zenon
  <2>3. CASE pc' = [pc EXCEPT ![p] = "mint"] /\ counts' = [counts EXCEPT ![OwnerOf[p]] = @ + 1]
    <3> DEFINE ow == OwnerOf[p]
    <3>1. \A o \in Owners : Of(o)' = Of(o) /\ Removing(o)' = Removing(o)
      BY <1>0, <2>1, <2>3, Zenon DEF Of, Live, Removing
    <3>2. \A o \in Owners \ {ow} : Creating(o)' = Creating(o) /\ counts'[o] = counts[o]
      BY <1>0, <2>3, Zenon DEF Creating
    <3>3. Creating(ow)' = Creating(ow) \cup {p} /\ p \notin Creating(ow)
      BY <1>0, <2>1, <2>3, Zenon DEF Creating
    <3>4. counts'[ow] = counts[ow] + 1
      BY <1>0, <2>3, Zenon
    <3>5. IsFiniteSet(Creating(ow)') /\ Cardinality(Creating(ow)') = Cardinality(Creating(ow)) + 1
      BY <1>0, <3>3, TallySets, FS_AddElement, SMTT(30)
    <3>6. ASSUME NEW o \in Undisturbed'
          PROVE  counts'[o] = Cardinality(Of(o)') + Cardinality(Creating(o)') + Cardinality(Removing(o)')
      <4>1. o \in Owners /\ o \in Undisturbed
        BY <1>1, Zenon
      <4>2. CASE o # ow
        BY <1>2, <3>1, <3>2, <4>1, <4>2, ZenonT(40)
      <4>3. CASE o = ow
        BY <1>2, <3>1, <3>4, <3>5, <4>1, <4>3, TallySets, SMTT(30)
      <4> QED BY <4>2, <4>3, Zenon
    <3>7. ASSUME NEW o \in Owners PROVE IsFiniteSet(Creating(o)')
      BY <3>2, <3>5, Zenon DEF TallyInv
    <3> QED BY <3>6, <3>7, Zenon DEF TallyInv, TallyExact
  <2> QED BY <1>5, <2>2, <2>3, Zenon DEF ReserveSlot
<1>6. ASSUME NEW p \in Calls, NewID(p) PROVE TallyInv'
  <2>1. /\ pc' = [pc EXCEPT ![p] = "store"] /\ pc[p] = "mint" /\ UNCHANGED <<sessions, counts>>
        /\ \A q \in Procs \ {p} : copy'[q] = copy[q]
    BY <1>0, <1>6, Zenon DEF NewID
  <2>2. ASSUME NEW o \in Owners
        PROVE  Creating(o)' = Creating(o) /\ Removing(o)' = Removing(o) /\ Of(o)' = Of(o)
    BY <1>0, <2>1, Zenon DEF Creating, Removing, Of, Live
  <2> QED BY <1>1, <1>3, <2>1, <2>2, Zenon
<1>7. ASSUME NEW p \in Calls, NewIDFails(p) PROVE TallyInv'
  <2> DEFINE ow == OwnerOf[p]
  <2>1. /\ pc' = [pc EXCEPT ![p] = "done"] /\ pc[p] = "mint" /\ UNCHANGED <<sessions, copy>>
        /\ counts' = [counts EXCEPT ![ow] = IF @ > 1 THEN @ - 1 ELSE 0]
    BY <1>7, Zenon DEF NewIDFails, release
  <2>2. \A o \in Owners : Of(o)' = Of(o) /\ Removing(o)' = Removing(o)
    BY <1>0, <2>1, Zenon DEF Of, Live, Removing
  <2>3. \A o \in Owners \ {ow} : Creating(o)' = Creating(o) /\ counts'[o] = counts[o]
    BY <1>0, <2>1, Zenon DEF Creating
  <2>4. Creating(ow)' = Creating(ow) \ {p} /\ p \in Creating(ow)
    BY <1>0, <2>1, Zenon DEF Creating
  <2>5. counts'[ow] = IF counts[ow] > 1 THEN counts[ow] - 1 ELSE 0
    BY <1>0, <2>1, Zenon
  <2>6. IsFiniteSet(Creating(ow)') /\ Cardinality(Creating(ow)') = Cardinality(Creating(ow)) - 1
    BY <1>0, <2>4, TallySets, FS_RemoveElement, SMTT(30)
  <2>7. Cardinality(Creating(ow)) >= 1
    BY <1>0, <2>6, <2>4, TallySets, FS_CardinalityType, SMTT(30)
  <2>8. ASSUME NEW o \in Undisturbed'
        PROVE  counts'[o] = Cardinality(Of(o)') + Cardinality(Creating(o)') + Cardinality(Removing(o)')
    <3>1. o \in Owners /\ o \in Undisturbed
      BY <1>1, Zenon
    <3>2. CASE o # ow
      BY <1>2, <2>2, <2>3, <3>1, <3>2, Zenon
    <3>3. CASE o = ow
      BY <1>2, <2>2, <2>5, <2>6, <2>7, <3>1, <3>3, TallySets, SMTT(30)
    <3> QED BY <3>2, <3>3, Zenon
  <2>9. ASSUME NEW o \in Owners PROVE IsFiniteSet(Creating(o)')
    BY <2>3, <2>6, Zenon DEF TallyInv
  <2> QED BY <2>8, <2>9, Zenon DEF TallyInv, TallyExact
<1>8. ASSUME NEW p \in Calls, PutNew(p) PROVE TallyInv'
  <2> DEFINE ow == OwnerOf[p]
  <2>1. /\ pc' = [pc EXCEPT ![p] = "done"] /\ pc[p] = "store" /\ UNCHANGED <<copy, counts>>
        /\ sessions' = [sessions EXCEPT ![id[p]] = copy[p]]
    BY <1>8, Zenon DEF PutNew
  <2>2. /\ id[p] \in Ids /\ sessions[id[p]] = None
        /\ copy[p] # None /\ copy[p].owner = ow
    BY <1>0, <2>1, NoneDistinct, SMTT(30) DEF FreshRows, RowsInv, OwnersAgree, minted
  <2>3. \A o \in Owners : Removing(o)' = Removing(o)
    BY <1>0, <2>1, Zenon DEF Removing
  <2>4. \A o \in Owners \ {ow} : Creating(o)' = Creating(o) /\ Of(o)' = Of(o)
    BY <1>0, <2>1, <2>2, Zenon DEF Creating, Of, Live
  <2>5. Creating(ow)' = Creating(ow) \ {p} /\ p \in Creating(ow)
    BY <1>0, <2>1, Zenon DEF Creating
  <2>6. Of(ow)' = Of(ow) \cup {id[p]} /\ id[p] \notin Of(ow)
    BY <1>0, <2>1, <2>2, Zenon DEF Of, Live
  <2>7. IsFiniteSet(Creating(ow)') /\ Cardinality(Creating(ow)') = Cardinality(Creating(ow)) - 1
    BY <1>0, <2>5, TallySets, FS_RemoveElement
  <2>8. Cardinality(Of(ow)') = Cardinality(Of(ow)) + 1
    BY <1>0, <2>6, TallySets, FS_AddElement, Zenon
  <2>9. ASSUME NEW o \in Undisturbed'
        PROVE  counts'[o] = Cardinality(Of(o)') + Cardinality(Creating(o)') + Cardinality(Removing(o)')
    <3>1. o \in Owners /\ o \in Undisturbed
      BY <1>1
    <3>2. CASE o # ow
      BY <1>2, <2>1, <2>3, <2>4, <3>1, <3>2, ZenonT(40)
    <3>3. CASE o = ow
      BY <1>2, <2>1, <2>3, <2>7, <2>8, <3>1, <3>3, TallySets, SMTT(30)
    <3> QED BY <3>2, <3>3
  <2>10. ASSUME NEW o \in Owners PROVE IsFiniteSet(Creating(o)')
    BY <2>4, <2>7, Zenon DEF TallyInv
  <2> QED BY <2>9, <2>10 DEF TallyInv, TallyExact
<1>9. ASSUME NEW p \in Calls, Put(p) PROVE TallyInv'
  <2>1. /\ pc' = [pc EXCEPT ![p] = "done"] /\ pc[p] = "put" /\ UNCHANGED <<copy, counts, mintedBy>>
        /\ sessions' = [sessions EXCEPT ![id[p]] = copy[p]]
        /\ sessions[id[p]] = None => id[p] \in revived'
    BY <1>9, Zenon DEF Put
  <2>2. /\ id[p] \in Ids /\ copy[p] # None /\ copy[p].owner = mintedBy[id[p]]
        /\ sessions[id[p]] # None => sessions[id[p]].owner = mintedBy[id[p]]
    BY <1>0, <2>1, NoneDistinct, SMTT(30) DEF RowsInv, OwnersAgree, minted
  <2>3. \A o \in Owners : Removing(o)' = Removing(o) /\ Creating(o)' = Creating(o)
    BY <1>0, <2>1, Zenon DEF Removing, Creating
  <2>4. ASSUME NEW o \in Undisturbed' PROVE Of(o)' = Of(o)
    <3>1. sessions[id[p]] = None => o # mintedBy[id[p]]
      BY <2>1, Zenon DEF Undisturbed
    <3> QED BY <1>0, <2>1, <2>2, <3>1, Zenon DEF Of, Live
  <2> QED BY <1>3, <2>1, <2>3, <2>4, Zenon
<1>10. ASSUME NEW p \in Calls, Resume(p) \/ Bind(p) \/ Delete(p) PROVE TallyInv'
  <2>1. /\ UNCHANGED <<sessions, counts>> /\ pc[p] = "idle"
        /\ \A q \in Procs \ {p} : copy'[q] = copy[q]
    BY <1>0, <1>10, ZenonT(40) DEF Resume, Bind, Delete, readCopy
  <2>2. \E l \in {"put", "delete", "done"} : pc' = [pc EXCEPT ![p] = l]
    BY <1>10, Zenon DEF Resume, Bind, Delete, readCopy
  <2> QED BY <1>4, <2>1, <2>2, Zenon
<1>11. ASSUME NEW p \in Calls, Turn(p) PROVE TallyInv'
  <2>1. /\ UNCHANGED <<sessions, counts>> /\ pc[p] \in {"idle", "history", "infer", "append"}
        /\ \A q \in Procs \ {p} : copy'[q] = copy[q]
    BY <1>0, <1>11 DEF Turn, CheckAppendable, ReadHistory, InferenceFails, AppendTurns, AppendBatch,
                       readCopy
  <2>2. \E l \in {"history", "infer", "append", "put", "done"} : pc' = [pc EXCEPT ![p] = l]
    BY <1>11, Zenon DEF Turn, CheckAppendable, ReadHistory, InferenceFails, AppendTurns, AppendBatch, readCopy
  <2> QED BY <1>4, <2>1, <2>2, Zenon
<1>12. ASSUME NEW q \in Procs, DeleteRow(q) PROVE TallyInv'
  <2>1. id[q] \in Ids /\ pc[q] = "delete" /\ counts' = counts
    BY <1>12, Zenon DEF DeleteRow, RowsInv, OwnersAgree, minted
  <2>2. CASE sessions[id[q]] = None
    <3>1. UNCHANGED <<sessions, copy>> /\ \E l \in {"sweep", "done"} : pc' = [pc EXCEPT ![q] = l]
      BY <1>12, <2>2, Zenon DEF DeleteRow, leave
    <3>2. ASSUME NEW o \in Owners
          PROVE  Creating(o)' = Creating(o) /\ Removing(o)' = Removing(o) /\ Of(o)' = Of(o)
      BY <1>0, <2>1, <3>1, ZenonT(40) DEF Creating, Removing, Of, Live
    <3> QED BY <1>1, <1>3, <2>1, <3>2, Zenon
  <2>3. CASE sessions[id[q]] # None
    <3>1. /\ pc' = [pc EXCEPT ![q] = "purge"]
          /\ sessions' = [sessions EXCEPT ![id[q]] = None]
          /\ copy' = [copy EXCEPT ![q] = sessions[id[q]]]
      BY <1>12, <2>3, Zenon DEF DeleteRow
    <3>2. PICK ow \in Owners : sessions[id[q]].owner = ow
      BY <1>0, <2>1, <2>3, Zenon DEF Row
    <3>3. \A o \in Owners : Creating(o)' = Creating(o)
      BY <1>0, <2>1, <3>1, Zenon DEF Creating
    <3>4. \A o \in Owners \ {ow} : Of(o)' = Of(o) /\ Removing(o)' = Removing(o)
      BY <1>0, <2>1, <2>3, <3>1, <3>2, Zenon DEF Of, Live, Removing
    <3>5. Of(ow)' = Of(ow) \ {id[q]} /\ id[q] \in Of(ow)
      BY <1>0, <2>1, <2>3, <3>1, <3>2, Zenon DEF Of, Live
    <3>6. Removing(ow)' = Removing(ow) \cup {q} /\ q \notin Removing(ow)
      BY <1>0, <2>1, <3>1, <3>2, Zenon DEF Removing
    <3>7. Cardinality(Of(ow)') = Cardinality(Of(ow)) - 1
      BY <3>2, <3>5, TallySets, FS_RemoveElement, ZenonT(40)
    <3>8. Cardinality(Removing(ow)') = Cardinality(Removing(ow)) + 1
      BY <3>2, <3>6, TallySets, FS_AddElement, Zenon
    <3>9. ASSUME NEW o \in Undisturbed'
          PROVE  counts'[o] = Cardinality(Of(o)') + Cardinality(Creating(o)') + Cardinality(Removing(o)')
      <4>1. o \in Owners /\ o \in Undisturbed
        BY <1>1, Zenon
      <4>2. CASE o # ow
        BY <1>2, <2>1, <3>3, <3>4, <4>1, <4>2, ZenonT(40)
      <4>3. CASE o = ow
        BY <1>2, <2>1, <3>3, <3>7, <3>8, <4>1, <4>3, TallySets, SMTT(30)
      <4> QED BY <4>2, <4>3, Zenon
    <3>10. ASSUME NEW o \in Owners PROVE IsFiniteSet(Creating(o)')
      BY <3>3, Zenon DEF TallyInv
    <3> QED BY <3>9, <3>10, Zenon DEF TallyInv, TallyExact
  <2> QED BY <2>2, <2>3, Zenon
<1>13. ASSUME NEW q \in Procs, Purge(q) PROVE TallyInv'
  <2>0. PICK ow \in Owners : copy[q].owner = ow
    BY <1>0, <1>13, Zenon DEF Purge, RowsInv, OwnersAgree, Row
  <2>1. /\ \E l \in {"sweep", "done"} : pc' = [pc EXCEPT ![q] = l]
        /\ pc[q] = "purge" /\ UNCHANGED <<sessions, copy>>
        /\ counts' = [counts EXCEPT ![ow] = IF @ > 1 THEN @ - 1 ELSE 0]
    BY <1>13, <2>0, Zenon DEF Purge, leave, release
  <2>3. \A o \in Owners : Of(o)' = Of(o) /\ Creating(o)' = Creating(o)
    BY <1>0, <2>1, Zenon DEF Of, Live, Creating
  <2>4. \A o \in Owners \ {ow} : Removing(o)' = Removing(o) /\ counts'[o] = counts[o]
    BY <1>0, <2>1, <2>0, SMTT(30) DEF Removing
  <2>5. Removing(ow)' = Removing(ow) \ {q} /\ q \in Removing(ow)
    BY <1>0, <2>1, <2>0, Zenon DEF Removing
  <2>6. counts'[ow] = IF counts[ow] > 1 THEN counts[ow] - 1 ELSE 0
    BY <1>0, <2>1, <2>0, Zenon
  <2>7. Cardinality(Removing(ow)') = Cardinality(Removing(ow)) - 1
    BY <2>0, <2>5, TallySets, FS_RemoveElement, ZenonT(40)
  <2>8. Cardinality(Removing(ow)) >= 1
    <3>1. IsFiniteSet(Removing(ow) \ {q})
      BY <2>0, TallySets, FS_RemoveElement, Zenon
    <3> QED BY <2>0, <2>5, <2>7, <3>1, TallySets, FS_CardinalityType
  <2>9. ASSUME NEW o \in Undisturbed'
        PROVE  counts'[o] = Cardinality(Of(o)') + Cardinality(Creating(o)') + Cardinality(Removing(o)')
    <3>1. o \in Owners /\ o \in Undisturbed
      BY <1>1
    <3>2. CASE o # ow
      BY <1>2, <2>3, <2>4, <3>1, <3>2, Zenon
    <3>3. CASE o = ow
      BY <1>2, <2>3, <2>6, <2>7, <2>8, <3>1, <3>3, TallySets, SMTT(30)
    <3> QED BY <3>2, <3>3
  <2>10. ASSUME NEW o \in Owners PROVE IsFiniteSet(Creating(o)')
    BY <2>3, Zenon DEF TallyInv
  <2> QED BY <2>9, <2>10 DEF TallyInv, TallyExact
<1>14. ASSUME SweepList \/ SweepNext PROVE TallyInv'
  <2>1. UNCHANGED <<sessions, counts, copy>>
        /\ \E l \in {"sweep", "idle", "delete"} : pc' = [pc EXCEPT ![Sweeper] = l]
        /\ pc[Sweeper] \in {"idle", "sweep"}
    BY <1>14, Zenon DEF SweepList, SweepNext
  <2>2. ASSUME NEW o \in Owners
        PROVE  Creating(o)' = Creating(o) /\ Removing(o)' = Removing(o) /\ Of(o)' = Of(o)
    BY <1>0, <2>1, Zenon DEF Creating, Removing, Of, Live
  <2> QED BY <1>1, <1>3, <2>1, <2>2, Zenon
<1>15. ASSUME SetMaxSessionsPerKey \/ Tick \/ CheckpointSessions \/ CheckpointHistory
       PROVE  TallyInv'
  <2>1. UNCHANGED <<sessions, counts, copy, pc>>
    BY <1>15, Zenon DEF SetMaxSessionsPerKey, Tick, CheckpointSessions, CheckpointHistory
  <2>2. ASSUME NEW o \in Owners
        PROVE  Creating(o)' = Creating(o) /\ Removing(o)' = Removing(o) /\ Of(o)' = Of(o)
    BY <2>1, Zenon DEF Creating, Removing, Of, Live
  <2> QED BY <1>1, <1>3, <2>1, <2>2, Zenon
<1>16. ASSUME Restart PROVE TallyInv'
  <2>1. ASSUME NEW o \in Owners
        PROVE  /\ counts'[o] = Cardinality(Of(o)') /\ Of(o)' \subseteq Ids
               /\ Creating(o)' = {} /\ Removing(o)' = {}
    <3>1. Creating(o)' = {} /\ Removing(o)' = {}
      BY <1>0, <1>16, Zenon DEF Restart, Creating, Removing
    <3>2. Of(o)' = {i \in Ids : sessions'[i] # None /\ sessions'[i].owner = o}
      BY Zenon DEF Of, Live
    <3>3. counts'[o] = Cardinality({i \in Ids : sessions'[i] # None /\ sessions'[i].owner = o})
      BY <1>16, Zenon DEF Restart, reconcileCounts
    <3> QED BY <3>1, <3>2, <3>3, Zenon
  <2>2. ASSUME NEW o \in Owners PROVE Cardinality(Of(o)') \in Nat
    BY <2>1, IdsFinite, FS_Subset, FS_CardinalityType, Zenon
  <2>3. IsFiniteSet({}) /\ Cardinality({}) = 0
    BY FS_EmptySet, Zenon
  <2> QED BY <1>1, <2>1, <2>2, <2>3, SMTT(30) DEF TallyInv, TallyExact
<1> QED BY <1>5, <1>6, <1>7, <1>8, <1>9, <1>10, <1>11, <1>12, <1>13, <1>14, <1>15, <1>16, ZenonT(40)
        DEF Next, Create, Removal

(* The most an owner can have is a number that no step changes.            *)
LEMMA AllowedType == TypeOK => Allowed \in Nat /\ scenario.cap \in Nat /\ scenario.cap <= Allowed
<1> SUFFICES ASSUME TypeOK PROVE Allowed \in Nat /\ scenario.cap \in Nat /\ scenario.cap <= Allowed
  BY Zenon
<1>1. scenario.cap \in Nat /\ scenario.boot \in SUBSET Ids
  BY ScenarioTypes, Zenon DEF TypeOK, Scenario
<1>2. Cardinality(scenario.boot) \in Nat
  BY <1>1, IdsFinite, FS_Subset, FS_CardinalityType, Zenon
<1> QED BY <1>1, <1>2 DEF Allowed

(* Only a create within the cap raises a tally.                            *)
LEMMA CapStep == RowsInv /\ TallyInv /\ CapExact /\ Next => CapExact'
<1> SUFFICES ASSUME RowsInv, TallyInv, CapExact, Next PROVE CapExact'
  BY Zenon
<1> USE DEF storeVars, countVars, callVars, diskVars, histVars
<1>0. /\ sessions \in [Ids -> Row \cup {None}] /\ counts \in [Owners -> Nat]
      /\ \A p \in Calls : OwnerOf[p] \in Owners
      /\ disk \in [sessions : [Ids -> Row \cup {None}], history : [Ids -> Seq(Message)]]
  BY CallTypes, Zenon DEF RowsInv, TypeOK
<1>1. Undisturbed' \subseteq Undisturbed /\ Undisturbed \subseteq Owners
  BY UndisturbedShrinks, Zenon DEF Undisturbed
<1>2. Allowed \in Nat /\ scenario.cap \in Nat /\ scenario.cap <= Allowed
  BY AllowedType, Zenon DEF RowsInv
<1>3. ASSUME scenario' = scenario, maxPerKey' = maxPerKey, disk'.sessions = disk.sessions,
             \A o \in Undisturbed' : counts'[o] <= counts[o] \/ counts'[o] <= maxPerKey,
             counts' \in [Owners -> Nat]
      PROVE  CapExact'
  <2> SUFFICES ASSUME scenario.cap > 0
               PROVE  /\ maxPerKey' \in 1 .. scenario'.cap
                      /\ \A o \in Undisturbed' :
                            /\ counts'[o] <= Allowed'
                            /\ Cardinality(StoredOf(disk.sessions, o)') <= Allowed'
    BY <1>3, Zenon DEF CapExact
  <2>1. Allowed' = Allowed /\ maxPerKey' \in 1 .. scenario'.cap
    BY <1>3, Zenon DEF Allowed, CapExact
  <2>2. \A o \in Undisturbed' : StoredOf(disk.sessions, o)' = StoredOf(disk.sessions, o)
    BY <1>3, Zenon DEF StoredOf
  <2>3. ASSUME NEW o \in Undisturbed' PROVE counts'[o] <= Allowed
    <3>1. /\ counts[o] \in Nat /\ counts'[o] \in Nat /\ counts[o] <= Allowed
          /\ maxPerKey \in 1 .. scenario.cap
      BY <1>0, <1>1, <1>3, Zenon DEF CapExact
    <3> QED BY <1>2, <1>3, <3>1, SMTT(30)
  <2>4. \A o \in Undisturbed' : Cardinality(StoredOf(disk.sessions, o)) <= Allowed
    BY <1>1, Zenon DEF CapExact
  <2> QED BY <2>1, <2>2, <2>3, <2>4, Zenon
<1>4. ASSUME NEW p \in Calls, ReserveSlot(p) PROVE CapExact'
  <2>1. UNCHANGED <<scenario, maxPerKey, disk>>
    BY <1>4, Zenon DEF ReserveSlot
  <2>2. CASE counts' = counts
    BY <1>0, <1>1, <1>3, <2>1, <2>2, SMTT(30)
  <2>3. CASE ~(maxPerKey > 0 /\ counts[OwnerOf[p]] >= maxPerKey)
             /\ counts' = [counts EXCEPT ![OwnerOf[p]] = @ + 1]
    <3>1. CASE scenario.cap > 0
      <4>1. maxPerKey \in 1 .. scenario.cap
        BY <3>1, Zenon DEF CapExact
      <4>2. \A o \in Owners : counts'[o] <= counts[o] \/ counts'[o] <= maxPerKey
        BY <1>0, <1>2, <2>3, <4>1, SMTT(30)
      <4>3. counts' \in [Owners -> Nat]
        BY <1>0, <2>3, SMTT(30)
      <4> QED BY <1>1, <1>3, <2>1, <4>2, <4>3, Zenon
    <3>2. CASE ~(scenario.cap > 0)
      BY <2>1, <3>2, Zenon DEF CapExact
    <3> QED BY <3>1, <3>2, Zenon
  <2> QED BY <1>4, <2>2, <2>3, Zenon DEF ReserveSlot
<1>5. ASSUME NEW o \in Owners, counts' = release(o), UNCHANGED <<scenario, maxPerKey, disk>>
      PROVE  CapExact'
  <2>1. counts' \in [Owners -> Nat] /\ \A x \in Owners : counts'[x] <= counts[x]
    BY <1>0, <1>5, SMTT(30) DEF release
  <2> QED BY <1>1, <1>3, <1>5, <2>1, Zenon
<1>6. ASSUME NEW p \in Calls, NewIDFails(p) PROVE CapExact'
  BY <1>0, <1>5, <1>6, Zenon DEF NewIDFails
<1>7. ASSUME NEW q \in Procs, Purge(q) PROVE CapExact'
  <2>1. copy[q].owner \in Owners
    BY <1>7, Zenon DEF Purge, RowsInv, OwnersAgree, Row
  <2> QED BY <1>5, <1>7, <2>1, Zenon DEF Purge
<1>8. ASSUME UNCHANGED <<scenario, maxPerKey, counts, disk>> PROVE CapExact'
  BY <1>0, <1>1, <1>3, <1>8
<1>9. ASSUME NEW p \in Calls, NewID(p) \/ PutNew(p) \/ Resume(p) \/ Bind(p) \/ Turn(p) \/ Put(p)
                              \/ Delete(p)
      PROVE  CapExact'
  <2>1. UNCHANGED <<scenario, maxPerKey, counts, disk>>
    BY <1>9, Zenon DEF NewID, PutNew, Resume, Bind, Turn, CheckAppendable, ReadHistory, InferenceFails,
                AppendTurns, AppendBatch, Put, Delete
  <2> QED BY <1>8, <2>1, Zenon
<1>10. ASSUME NEW q \in Procs, DeleteRow(q) PROVE CapExact'
  BY <1>8, <1>10, Zenon DEF DeleteRow
<1>11. ASSUME SweepList \/ SweepNext \/ Tick PROVE CapExact'
  <2>1. UNCHANGED <<scenario, maxPerKey, counts, disk>>
    BY <1>11, Zenon DEF SweepList, SweepNext, Tick
  <2> QED BY <1>8, <2>1, Zenon
<1>12. ASSUME SetMaxSessionsPerKey PROVE CapExact'
  <2>1. UNCHANGED <<scenario, counts, disk>> /\ maxPerKey' \in 1 .. scenario.cap
    BY <1>12, Zenon DEF SetMaxSessionsPerKey
  <2> QED BY <1>1, <2>1, Zenon DEF CapExact, Allowed, StoredOf
<1>13. ASSUME CheckpointSessions \/ CheckpointHistory PROVE CapExact'
  <2>1. UNCHANGED <<scenario, maxPerKey, counts>>
    BY <1>13, Zenon DEF CheckpointSessions, CheckpointHistory
  <2>2. disk'.sessions = disk.sessions \/ disk'.sessions = sessions
    BY <1>0, <1>13, Zenon DEF CheckpointSessions, CheckpointHistory
  <2>3. CASE disk'.sessions = disk.sessions
    BY <1>0, <1>1, <1>3, <2>1, <2>3, SMTT(30)
  <2>4. CASE disk'.sessions = sessions
    <3> SUFFICES ASSUME scenario.cap > 0, NEW o \in Undisturbed'
                 PROVE  Cardinality(StoredOf(disk.sessions, o)') <= Allowed
      BY <1>1, <2>1, Zenon DEF CapExact, Allowed
    <3>1. StoredOf(disk.sessions, o)' = Of(o)
      BY <2>4, Zenon DEF StoredOf, Of, Live
    <3>2. o \in Owners /\ o \in Undisturbed
      BY <1>1, Zenon
    <3>3. Cardinality(Of(o)) <= counts[o]
      BY <3>2, TallySets DEF TallyInv, TallyExact
    <3>4. counts[o] <= Allowed
      BY <3>2, Zenon DEF CapExact
    <3> QED BY <1>2, <3>1, <3>2, <3>3, <3>4, TallySets, SMTT(30)
  <2> QED BY <2>2, <2>3, <2>4, Zenon
<1>14. ASSUME Restart PROVE CapExact'
  <2>1. UNCHANGED <<scenario, disk>> /\ maxPerKey' = scenario.cap
    BY <1>14, Zenon DEF Restart
  <2> SUFFICES ASSUME scenario.cap > 0, NEW o \in Undisturbed'
               PROVE  counts'[o] <= Allowed /\ Cardinality(StoredOf(disk.sessions, o)) <= Allowed
    BY <1>2, <2>1, SMTT(30) DEF CapExact, Allowed, StoredOf
  <2>2. o \in Owners /\ o \in Undisturbed
    BY <1>1
  <2>3. Cardinality(StoredOf(disk.sessions, o)) <= Allowed
    BY <2>2, Zenon DEF CapExact
  <2>4. counts'[o] = Cardinality(StoredOf(sessions', o))
    BY <1>14, <2>2, Zenon DEF Restart, reconcileCounts, StoredOf
  <2>5. StoredOf(sessions', o) \in SUBSET StoredOf(disk.sessions, o)
    BY <1>14, Zenon DEF Restart, LoadSessions, StoredOf
  <2>6. IsFiniteSet(StoredOf(disk.sessions, o))
    BY IdsFinite, FS_Subset, Zenon DEF StoredOf
  <2>7. Cardinality(StoredOf(sessions', o)) <= Cardinality(StoredOf(disk.sessions, o))
    BY <2>5, <2>6, FS_Subset, Zenon
  <2>8. Cardinality(StoredOf(sessions', o)) \in Nat /\ Cardinality(StoredOf(disk.sessions, o)) \in Nat
    BY <2>5, <2>6, FS_Subset, FS_CardinalityType, Zenon
  <2> QED BY <1>2, <2>3, <2>4, <2>7, <2>8, SMTT(30)
<1> QED BY <1>4, <1>6, <1>7, <1>9, <1>10, <1>11, <1>12, <1>13, <1>14, ZenonT(40)
        DEF Next, Create, Removal

(* A booted process has the invariant, whatever its checkpoint held.       *)
LEMMA InitSlots == Init => SlotsInv
<1> SUFFICES ASSUME Init PROVE SlotsInv
  BY Zenon
<1>1. TypeOK
  BY InitType, Zenon
<1>2. /\ pc = [q \in Procs |-> "idle"] /\ countMu = None /\ revived = {} /\ listed = {}
      /\ ends = [i \in Ids |-> 0] /\ disk.sessions = sessions /\ maxPerKey = scenario.cap
      /\ counts = reconcileCounts(sessions)
  BY Zenon DEF Init
<1>3. sessions = [i \in Ids |-> IF i \in scenario.boot
                    THEN [owner |-> mintedBy[i], last |-> 0, ttl |-> scenario.ttl, bound |-> None]
                    ELSE None]
  BY Zenon DEF Init
<1>4. Calls \subseteq Procs /\ Sweeper \in Procs /\ None \notin Procs
  BY NoneDistinct, Zenon DEF Procs
<1>5. Places /\ LockExact
  BY <1>2, <1>4, Zenon DEF Places, LockExact
<1>6. OwnersAgree
  <2>1. \A i \in Ids : sessions[i] # None => sessions[i].owner = mintedBy[i]
    BY <1>3, Zenon
  <2> QED BY <1>2, <2>1, Zenon DEF OwnersAgree
<1>7. FreshRows /\ EndsExact
  BY <1>2, <1>4, SMTT(30) DEF FreshRows, EndsExact
<1>8. \A o \in Owners : Creating(o) = {} /\ Removing(o) = {}
  BY <1>2, <1>4, Zenon DEF Creating, Removing
<1>9. \A o \in Owners : counts[o] = Cardinality(Of(o)) /\ StoredOf(disk.sessions, o) = Of(o)
  <2>1. \A o \in Owners : Of(o) = {i \in Ids : sessions[i] # None /\ sessions[i].owner = o}
    BY Zenon DEF Of, Live
  <2>2. \A o \in Owners : counts[o] = Cardinality({i \in Ids : sessions[i] # None /\ sessions[i].owner = o})
    BY <1>2, Zenon DEF reconcileCounts
  <2> QED BY <1>2, <2>1, <2>2, Zenon DEF StoredOf
<1>10. \A o \in Owners : IsFiniteSet(Of(o)) /\ Cardinality(Of(o)) \in Nat
  BY IdsFinite, FS_Subset, FS_CardinalityType, Zenon DEF Of, Live
<1>11. TallyInv
  <2>1. \A o \in Owners : Cardinality(Creating(o)) = 0 /\ Cardinality(Removing(o)) = 0
                          /\ IsFiniteSet(Creating(o))
    BY <1>8, FS_EmptySet, Zenon
  <2>2. Undisturbed \subseteq Owners
    BY ZenonT(40) DEF Undisturbed
  <2> QED BY <1>9, <1>10, <2>1, <2>2 DEF TallyInv, TallyExact
<1>12. CapExact
  <2> SUFFICES ASSUME scenario.cap > 0, NEW o \in Owners
               PROVE  counts[o] <= Allowed /\ Cardinality(StoredOf(disk.sessions, o)) <= Allowed
    <3>1. scenario.cap > 0 => maxPerKey \in 1 .. scenario.cap
      BY <1>1, <1>2, ScenarioTypes, SMTT(30) DEF TypeOK, Scenario
    <3> QED BY <3>1, Zenon DEF CapExact, Undisturbed
  <2>1. scenario.cap \in Nat /\ scenario.boot \in SUBSET Ids
    BY <1>1, ScenarioTypes, Zenon DEF TypeOK, Scenario
  <2>2. IsFiniteSet(scenario.boot) /\ Cardinality(scenario.boot) \in Nat
    BY <2>1, IdsFinite, FS_Subset, FS_CardinalityType, Zenon
  <2>3. Of(o) \in SUBSET scenario.boot
    BY <1>3, Zenon DEF Of, Live
  <2>4. Cardinality(Of(o)) <= Cardinality(scenario.boot)
    BY <2>2, <2>3, FS_Subset, Zenon
  <2> QED BY <1>2, <1>9, <1>10, <2>1, <2>2, <2>4, SMTT(30) DEF Allowed
<1> QED BY <1>1, <1>5, <1>6, <1>7, <1>11, <1>12, Zenon DEF SlotsInv, RowsInv

(* Every step keeps it.                                                    *)
LEMMA SlotsStep == SlotsInv /\ [Next]_vars => SlotsInv'
<1> SUFFICES ASSUME SlotsInv, [Next]_vars PROVE SlotsInv'
  BY Zenon
<1>1. CASE Next
  <2>1. RowsInv'
    BY <1>1, TypeStep, LockStep, OwnersStep, Zenon DEF SlotsInv, RowsInv
  <2>2. FreshRows' /\ EndsExact' /\ TallyInv' /\ CapExact'
    BY <1>1, FreshStep, EndsStep, TallyStep, CapStep, Zenon DEF SlotsInv
  <2> QED BY <2>1, <2>2, Zenon DEF SlotsInv
<1>2. CASE UNCHANGED vars
  <2> USE <1>2 DEF vars, storeVars, countVars, callVars, diskVars, histVars
  <2>1. TypeOK'
    BY Zenon DEF SlotsInv, RowsInv, TypeOK
  <2>2. Places' /\ LockExact' /\ FreshRows'
    BY Zenon DEF SlotsInv, RowsInv, Places, LockExact, FreshRows
  <2>3. OwnersAgree' /\ EndsExact'
    BY Zenon DEF SlotsInv, RowsInv, OwnersAgree, EndsExact, minted
  <2>4. Undisturbed' = Undisturbed
    BY Zenon DEF Undisturbed
  <2>5. TallyInv'
    BY <2>4, Zenon DEF SlotsInv, TallyInv, TallyExact, Of, Live, Creating, Removing
  <2>6. CapExact'
    BY <2>4, Zenon DEF SlotsInv, CapExact, Allowed, StoredOf
  <2> QED BY <2>1, <2>2, <2>3, <2>5, <2>6, Zenon DEF SlotsInv, RowsInv
<1> QED BY <1>1, <1>2, Zenon

(* The invariant of the slots holds in every behaviour.                    *)
THEOREM SlotsInvariant == Spec => []SlotsInv
<1> QED BY InitSlots, SlotsStep, PTL DEF Spec

(* The slots of an owner are accounted for exactly: reserveSlot, the       *)
(* release of a failed create, deleteSession and reconcileCounts keep the  *)
(* tally equal to what is stored, being created and being removed, within  *)
(* the cap, and a session is reported as ended once; for any number of     *)
(* callers, sessions and restarts.                                         *)
THEOREM SlotsAreExact == Spec => []SlotsExact
<1>1. ASSUME SlotsInv PROVE SlotsExact
  <2>1. TypeOK /\ TallyExact
    BY <1>1, Zenon DEF SlotsInv, RowsInv, TallyInv
  <2>2. EndedOnce
    <3>1. ends \in [Ids -> Nat]
      BY <2>1, Zenon DEF TypeOK
    <3> QED BY <1>1, <3>1 DEF SlotsInv, EndsExact, EndedOnce
  <2>3. ConcurrentCap
    <3> SUFFICES ASSUME scenario.cap > 0, NEW o \in Undisturbed
                 PROVE  \/ Cardinality(Of(o)) <= scenario.cap
                        \/ Cardinality(Of(o)) <= Cardinality(scenario.boot)
      BY Zenon DEF ConcurrentCap
    <3>1. o \in Owners /\ counts[o] <= Allowed
      BY <1>1, Zenon DEF SlotsInv, CapExact, Undisturbed
    <3>2. /\ Cardinality(Of(o)) \in Nat /\ Cardinality(Creating(o)) \in Nat
          /\ Cardinality(Removing(o)) \in Nat
      BY <1>1, <3>1, TallySets, Zenon DEF SlotsInv
    <3>3. Cardinality(Of(o)) <= counts[o] /\ counts[o] \in Nat
      BY <2>1, <3>2 DEF TallyExact
    <3>4. Allowed \in Nat
      BY <2>1, AllowedType, Zenon
    <3>5. Cardinality(Of(o)) <= Allowed
      BY <3>1, <3>2, <3>3, <3>4, SMTT(30)
    <3> QED BY <3>5, Zenon DEF Allowed
  <2> QED BY <2>1, <2>2, <2>3, Zenon DEF SlotsExact
<1> QED BY <1>1, SlotsInvariant, PTL

(* A step that leaves a row or a history behind is in the middle of a      *)
(* removal or of an append.                                                *)
LEMMA OrphanStep == RowsInv /\ NoLastingOrphan /\ Next => NoLastingOrphan'
<1> SUFFICES ASSUME RowsInv, NoLastingOrphan, Next PROVE NoLastingOrphan'
  BY Zenon
<1> USE DEF storeVars, countVars, callVars, diskVars, histVars, goto
<1>0. /\ pc \in [Procs -> {"idle", "mint", "store", "history", "infer", "append", "put", "delete",
                           "purge", "sweep", "done"}]
      /\ id \in [Procs -> Ids \cup {None}] /\ sessions \in [Ids -> Row \cup {None}]
      /\ history \in [Ids -> Seq(Message)] /\ None \notin Row
      /\ Calls \subseteq Procs /\ Sweeper \in Procs
  BY NoneDistinct, Zenon DEF RowsInv, TypeOK, Procs
<1>1. ASSUME NEW p \in Procs, pc[p] \notin {"purge", "put"}, history' = history,
             \A i \in Ids : sessions'[i] = None => sessions[i] = None,
             \A q \in Procs \ {p} : pc'[q] = pc[q] /\ id'[q] = id[q]
      PROVE  NoLastingOrphan'
  <2> SUFFICES ASSUME NEW i \in Ids, history'[i] # <<>>, sessions'[i] = None
               PROVE  \E q \in Procs : id'[q] = i /\ pc'[q] \in {"purge", "put"}
    BY Zenon DEF NoLastingOrphan
  <2>1. PICK q \in Procs : id[q] = i /\ pc[q] \in {"purge", "put"}
    BY <1>1, Zenon DEF NoLastingOrphan
  <2> QED BY <1>1, <2>1, Zenon
<1>2. ASSUME NEW p \in Calls, ReserveSlot(p) \/ NewID(p) \/ NewIDFails(p) \/ Delete(p)
                              \/ Resume(p) \/ Bind(p) \/ CheckAppendable(p) \/ ReadHistory(p)
                              \/ InferenceFails(p) \/ AppendTurns(p)
      PROVE  NoLastingOrphan'
  <2>1. pc[p] \notin {"purge", "put"} /\ UNCHANGED <<history, sessions>>
    BY <1>2, Zenon DEF ReserveSlot, NewID, NewIDFails, Delete, Resume, Bind, CheckAppendable, ReadHistory,
                InferenceFails, AppendTurns
  <2>2. \A q \in Procs \ {p} : pc'[q] = pc[q]
    BY <1>0, <1>2, Zenon DEF ReserveSlot, NewID, NewIDFails, Delete, Resume, Bind, CheckAppendable,
                      ReadHistory, InferenceFails, AppendTurns, readCopy
  <2>3. \A q \in Procs \ {p} : id'[q] = id[q]
    BY <1>0, <1>2, Zenon DEF ReserveSlot, NewID, NewIDFails, Delete, Resume, Bind, CheckAppendable,
                      ReadHistory, InferenceFails, AppendTurns, readCopy
  <2> QED BY <1>0, <1>1, <2>1, <2>2, <2>3, ZenonT(40)
<1>3. ASSUME NEW p \in Calls, PutNew(p) PROVE NoLastingOrphan'
  <2>1. pc[p] = "store" /\ history' = history /\ \A q \in Procs \ {p} : pc'[q] = pc[q] /\ id'[q] = id[q]
    BY <1>0, <1>3, Zenon DEF PutNew
  <2>2. id[p] \in Ids /\ copy[p] \in Row
    BY <1>0, <2>1, Zenon DEF RowsInv, OwnersAgree, minted
  <2>3. \A i \in Ids : sessions'[i] = None => sessions[i] = None
    BY <1>0, <1>3, <2>2, Zenon DEF PutNew
  <2> QED BY <1>0, <1>1, <2>1, <2>3, Zenon
<1>4. ASSUME NEW p \in Calls, AppendBatch(p) PROVE NoLastingOrphan'
  <2>1. pc[p] = "append" /\ UNCHANGED <<sessions, id>> /\ \A q \in Procs \ {p} : pc'[q] = pc[q]
    BY <1>0, <1>4, Zenon DEF AppendBatch
  <2>2. CASE history' = history
    BY <1>0, <1>1, <2>1, <2>2, Zenon
  <2>3. CASE /\ pc' = [pc EXCEPT ![p] = "put"]
             /\ history' = [history EXCEPT ![id[p]] = trim(history[id[p]] \o messages(p))]
    <3> SUFFICES ASSUME NEW i \in Ids, history'[i] # <<>>, sessions'[i] = None
                 PROVE  \E q \in Procs : id'[q] = i /\ pc'[q] \in {"purge", "put"}
      BY Zenon DEF NoLastingOrphan
    <3>1. CASE i = id[p]
      BY <1>0, <2>1, <2>3, <3>1, Zenon
    <3>2. CASE i # id[p]
      <4>1. history'[i] = history[i]
        BY <1>0, <2>3, <3>2, Zenon
      <4>2. PICK q \in Procs : id[q] = i /\ pc[q] \in {"purge", "put"}
        BY <2>1, <4>1, Zenon DEF NoLastingOrphan
      <4> QED BY <2>1, <4>2, Zenon
    <3> QED BY <3>1, <3>2, Zenon
  <2> QED BY <1>4, <2>2, <2>3, Zenon DEF AppendBatch
<1>5. ASSUME NEW p \in Calls, Put(p) PROVE NoLastingOrphan'
  <2>1. /\ pc[p] = "put" /\ history' = history /\ id' = id
        /\ sessions' = [sessions EXCEPT ![id[p]] = copy[p]]
        /\ \A q \in Procs \ {p} : pc'[q] = pc[q]
    BY <1>0, <1>5, Zenon DEF Put
  <2>2. id[p] \in Ids /\ copy[p] # None
    BY <1>0, <2>1, Zenon DEF RowsInv, OwnersAgree, minted
  <2> SUFFICES ASSUME NEW i \in Ids, history'[i] # <<>>, sessions'[i] = None
               PROVE  \E q \in Procs : id'[q] = i /\ pc'[q] \in {"purge", "put"}
    BY Zenon DEF NoLastingOrphan
  <2>3. i # id[p] /\ sessions[i] = None
    BY <1>0, <2>1, <2>2, Zenon
  <2>4. PICK q \in Procs : id[q] = i /\ pc[q] \in {"purge", "put"}
    BY <2>1, <2>3, Zenon DEF NoLastingOrphan
  <2> QED BY <2>1, <2>3, <2>4, Zenon
<1>6. ASSUME NEW p \in Procs, DeleteRow(p) PROVE NoLastingOrphan'
  <2>1. /\ pc[p] = "delete" /\ UNCHANGED <<history, id>>
        /\ \A q \in Procs \ {p} : pc'[q] = pc[q]
    BY <1>0, <1>6, Zenon DEF DeleteRow, leave
  <2>2. CASE sessions' = sessions
    BY <1>0, <1>1, <2>1, <2>2, Zenon
  <2>3. CASE sessions' = [sessions EXCEPT ![id[p]] = None] /\ pc' = [pc EXCEPT ![p] = "purge"]
    <3> SUFFICES ASSUME NEW i \in Ids, history'[i] # <<>>, sessions'[i] = None
                 PROVE  \E q \in Procs : id'[q] = i /\ pc'[q] \in {"purge", "put"}
      BY Zenon DEF NoLastingOrphan
    <3>1. CASE i = id[p]
      BY <1>0, <2>1, <2>3, <3>1, Zenon
    <3>2. CASE i # id[p]
      <4>1. PICK q \in Procs : id[q] = i /\ pc[q] \in {"purge", "put"}
        BY <1>0, <2>1, <2>3, <3>2, ZenonT(40) DEF NoLastingOrphan
      <4> QED BY <2>1, <4>1, Zenon
    <3> QED BY <3>1, <3>2, Zenon
  <2> QED BY <1>6, <2>2, <2>3, Zenon DEF DeleteRow
<1>7. ASSUME NEW p \in Procs, Purge(p) PROVE NoLastingOrphan'
  <2>1. /\ pc[p] = "purge" /\ UNCHANGED <<sessions, id>>
        /\ history' = [history EXCEPT ![id[p]] = <<>>]
        /\ \A q \in Procs \ {p} : pc'[q] = pc[q]
    BY <1>0, <1>7, Zenon DEF Purge, leave
  <2> SUFFICES ASSUME NEW i \in Ids, history'[i] # <<>>, sessions'[i] = None
               PROVE  \E q \in Procs : id'[q] = i /\ pc'[q] \in {"purge", "put"}
    BY DEF NoLastingOrphan
  <2>2. i # id[p] /\ history[i] # <<>>
    BY <1>0, <2>1, Zenon
  <2>3. PICK q \in Procs : id[q] = i /\ pc[q] \in {"purge", "put"}
    BY <2>1, <2>2, Zenon DEF NoLastingOrphan
  <2> QED BY <2>1, <2>2, <2>3, Zenon
<1>8. ASSUME SweepList \/ SweepNext PROVE NoLastingOrphan'
  <2>1. pc[Sweeper] \notin {"purge", "put"} /\ UNCHANGED <<history, sessions>>
    BY <1>8, Zenon DEF SweepList, SweepNext
  <2>2. \A q \in Procs \ {Sweeper} : pc'[q] = pc[q] /\ id'[q] = id[q]
    BY <1>0, <1>8, Zenon DEF SweepList, SweepNext
  <2> QED BY <1>0, <1>1, <2>1, <2>2, Zenon
<1>9. ASSUME SetMaxSessionsPerKey \/ Tick \/ CheckpointSessions \/ CheckpointHistory
      PROVE  NoLastingOrphan'
  <2>1. UNCHANGED <<history, sessions, pc, id>>
    BY <1>9, Zenon DEF SetMaxSessionsPerKey, Tick, CheckpointSessions, CheckpointHistory
  <2> QED BY <2>1, Zenon DEF NoLastingOrphan
<1>10. ASSUME Restart PROVE NoLastingOrphan'
  <2>1. history' = LoadHistory({i \in Ids : sessions'[i] # None})
    BY <1>10, Zenon DEF Restart
  <2>2. \A i \in Ids : sessions'[i] = None => history'[i] = <<>>
    BY <2>1, Zenon DEF LoadHistory
  <2> QED BY <2>2, Zenon DEF NoLastingOrphan
<1> QED BY <1>2, <1>3, <1>4, <1>5, <1>6, <1>7, <1>8, <1>9, <1>10, ZenonT(40)
        DEF Next, Create, Turn, Removal

(* No session's history outlives it: removals, appends that race them and  *)
(* boots from checkpoints of different ages leave none behind.             *)
THEOREM OrphansPass == Spec => []NoLastingOrphan
<1>1. Init => NoLastingOrphan
  BY Zenon DEF Init, NoLastingOrphan
<1>2. SlotsInv /\ NoLastingOrphan /\ [Next]_vars => NoLastingOrphan'
  <2>1. SlotsInv /\ NoLastingOrphan /\ Next => NoLastingOrphan'
    BY OrphanStep, Zenon DEF SlotsInv
  <2>2. NoLastingOrphan /\ UNCHANGED vars => NoLastingOrphan'
    BY DEF NoLastingOrphan, vars, storeVars, callVars
  <2> QED BY <2>1, <2>2, Zenon
<1> QED BY <1>1, <1>2, SlotsInvariant, PTL DEF Spec

(* A history of whole turns.                                               *)
WholeSeq(h) ==
    /\ Len(h) % 2 = 0
    /\ \A n \in 1 .. Len(h) : n % 2 = 1 => SubSeq(h, n, n + 1) = messages(h[n].by)

(* A history within the caps c, the way a store keeps it.                  *)
Kept(c, h) ==
    /\ c.policy = "reject" => WholeSeq(h)
    /\ \/ /\ c.turns > 0 => Len(h) <= c.turns
          /\ c.size > 0 => Size(h) <= c.size
       \/ c.policy = "trim" /\ Len(h) = 1

(* What is stored is kept that way, and so is what a restart would load.   *)
HistoryInv == \A i \in Ids : Kept(scenario, history[i]) /\ Kept(scenario, disk.history[i])

(* The invariant is the property, and the same of the checkpoint.          *)
LEMMA HistoryInvImplies == HistoryInv => HistoryWhole
  BY Zenon DEF HistoryInv, Kept, WholeSeq, HistoryWhole, WholeTurns, HistoryWithinCaps, Fits

(* A step that keeps both histories keeps the invariant.                   *)
LEMMA HistoryFrame ==
    ASSUME HistoryInv, scenario' = scenario,
           \A i \in Ids : Kept(scenario, history'[i]) /\ Kept(scenario, disk'.history[i])
    PROVE  HistoryInv'
  BY Zenon DEF HistoryInv

(* The empty history fits any caps.                                        *)
LEMMA EmptyKept == TypeOK => Kept(scenario, <<>>)
<1> SUFFICES ASSUME TypeOK PROVE Kept(scenario, <<>>)
  BY Zenon
<1>1. scenario.turns \in Nat /\ scenario.size \in Nat
  BY ScenarioTypes, Zenon DEF TypeOK, Scenario
<1>2. Size(<<>>) = 0
  <2>1. \A r : {n \in DOMAIN <<>> : <<>>[n].role = r} = {}
    OBVIOUS
  <2>2. Sizes["user"] \in Nat /\ Sizes["assistant"] \in Nat
    BY SizeTypes, Zenon
  <2> QED BY <2>1, <2>2, FS_EmptySet DEF Size
<1>3. WholeSeq(<<>>)
  BY DEF WholeSeq
<1> QED BY <1>1, <1>2, <1>3 DEF Kept

(* trim returns a history that is kept, given one that was not rejected.   *)
LEMMA TrimKept ==
    ASSUME TypeOK, NEW h \in Seq(Message), ~rejects(h), scenario.policy = "reject" => WholeSeq(h)
    PROVE  Kept(scenario, trim(h))
<1>1. scenario.policy \in {"trim", "reject"}
  BY ScenarioTypes, Zenon DEF TypeOK, Scenario
<1>2. CASE h = <<>>
  BY <1>2, EmptyKept, Zenon DEF trim
<1>3. CASE h # <<>>
  <2>1. PICK n \in 1 .. Len(h) :
            /\ trim(h) = SubSeq(h, n, Len(h))
            /\ n = Len(h) \/ Fits(SubSeq(h, n, Len(h)))
            /\ Fits(h) => n = 1
    BY <1>3, TrimIsSuffix, Zenon
  <2>2. CASE scenario.policy = "reject"
    <3>1. Fits(h)
      BY <2>2, Zenon DEF rejects
    <3>2. trim(h) = h
      BY <2>1, <3>1, SubSeqFull, Zenon
    <3> QED BY <2>2, <3>1, <3>2, Zenon DEF Kept, Fits
  <2>3. CASE scenario.policy = "trim"
    <3>1. n = Len(h) => Len(trim(h)) = 1
      BY <2>1, SubSeqProperties, LenProperties
    <3>2. Fits(trim(h)) \/ Len(trim(h)) = 1
      BY <2>1, <3>1, Zenon
    <3> QED BY <2>3, <3>2, Zenon DEF Kept, Fits
  <2> QED BY <1>1, <2>2, <2>3, Zenon
<1> QED BY <1>2, <1>3, Zenon

(* Two consecutive messages of a history.                                  *)
LEMMA PairOf ==
    ASSUME NEW h \in Seq(Message), NEW n \in 1 .. Len(h), n + 1 \in 1 .. Len(h)
    PROVE  SubSeq(h, n, n + 1) = <<h[n], h[n + 1]>>
<1>1. h[n] \in Message /\ h[n + 1] \in Message /\ n \in Int /\ n + 1 \in Int
  BY ElementOfSeq, LenProperties
<1>2. \A i \in n .. n + 1 : h[i] \in Message
  BY <1>1
<1>3. /\ SubSeq(h, n, n + 1) \in Seq(Message) /\ Len(SubSeq(h, n, n + 1)) = 2
      /\ \A i \in 1 .. 2 : SubSeq(h, n, n + 1)[i] = h[n + i - 1]
  <2>1. n <= n + 1 /\ (n + 1) - n + 1 = 2
    BY <1>1
  <2> QED BY <1>1, <1>2, <2>1, SubSeqProperties, SMTT(30)
<1>4. SubSeq(h, n, n + 1)[1] = h[n] /\ SubSeq(h, n, n + 1)[2] = h[n + 1]
  BY <1>1, <1>3
<1>5. <<h[n], h[n + 1]>> \in Seq(Message) /\ Len(<<h[n], h[n + 1]>>) = 2
  BY <1>1
<1>6. \A i \in 1 .. 2 : SubSeq(h, n, n + 1)[i] = <<h[n], h[n + 1]>>[i]
  BY <1>4, SMTT(30)
<1> QED BY <1>3, <1>5, <1>6, SeqEqual, Zenon

(* A turn appended to whole turns makes whole turns.                       *)
LEMMA TurnAppended ==
    ASSUME NEW h \in Seq(Message), NEW p \in Calls
    PROVE  /\ h \o messages(p) \in Seq(Message)
           /\ WholeSeq(h) => WholeSeq(h \o messages(p))
<1> DEFINE k == h \o messages(p)
<1>1. /\ messages(p) \in Seq(Message) /\ Len(messages(p)) = 2
      /\ messages(p)[1] = [by |-> p, role |-> "user"]
      /\ messages(p)[2] = [by |-> p, role |-> "assistant"]
  BY DEF messages, Message
<1>2. /\ k \in Seq(Message) /\ Len(k) = Len(h) + 2 /\ Len(h) \in Nat
      /\ \A n \in 1 .. Len(h) : k[n] = h[n]
      /\ k[Len(h) + 1] = messages(p)[1] /\ k[Len(h) + 2] = messages(p)[2]
  <2>1. Len(h) \in Nat
    BY LenProperties, Zenon
  <2>2. /\ k \in Seq(Message) /\ Len(k) = Len(h) + 2
        /\ \A n \in 1 .. Len(h) + 2 : k[n] = IF n <= Len(h) THEN h[n] ELSE messages(p)[n - Len(h)]
    <3>1. /\ k \in Seq(Message) /\ Len(k) = Len(h) + Len(messages(p))
          /\ \A n \in 1 .. Len(h) + Len(messages(p)) :
                k[n] = IF n <= Len(h) THEN h[n] ELSE messages(p)[n - Len(h)]
      BY <1>1, ConcatProperties, Zenon
    <3> QED BY <1>1, <3>1, Zenon
  <2> HIDE DEF k
  <2>3. (Len(h) + 1) - Len(h) = 1 /\ (Len(h) + 2) - Len(h) = 2
    BY <2>1
  <2> QED BY <2>1, <2>2, <2>3
<1> HIDE DEF k
<1>3. ASSUME WholeSeq(h) PROVE WholeSeq(k)
  <2>1. Len(h) % 2 = 0 /\ Len(k) % 2 = 0
    BY <1>2, <1>3 DEF WholeSeq
  <2>2. ASSUME NEW n \in 1 .. Len(k), n % 2 = 1
        PROVE  SubSeq(k, n, n + 1) = messages(k[n].by)
    <3>1. /\ n + 1 \in 1 .. Len(k) /\ n \in 1 .. Len(k)
          /\ \/ n = Len(h) + 1
             \/ n \in 1 .. Len(h) /\ n + 1 \in 1 .. Len(h)
      BY <1>2, <2>1, <2>2, SMTT(30)
    <3>2. SubSeq(k, n, n + 1) = <<k[n], k[n + 1]>>
      BY <1>2, <3>1, PairOf, Zenon
    <3>3. CASE n = Len(h) + 1
      <4>1. k[n] = messages(p)[1] /\ k[n + 1] = messages(p)[2]
        BY <1>2, <3>3
      <4> QED BY <1>1, <3>2, <4>1, SMTT(30) DEF messages
    <3>4. CASE n \in 1 .. Len(h) /\ n + 1 \in 1 .. Len(h)
      <4>1. SubSeq(h, n, n + 1) = <<h[n], h[n + 1]>>
        BY <1>2, <3>4, PairOf, Zenon
      <4>2. SubSeq(h, n, n + 1) = messages(h[n].by)
        BY <1>3, <2>2, <3>4, Zenon DEF WholeSeq
      <4> QED BY <1>2, <3>2, <3>4, <4>1, <4>2, Zenon
    <3> QED BY <3>1, <3>3, <3>4, Zenon
  <2> QED BY <2>1, <2>2, Zenon DEF WholeSeq
<1> QED BY <1>2, <1>3, Zenon DEF k

(* Only an append, a removal, a checkpoint or a boot touches a history.    *)
LEMMA HistoryStep == RowsInv /\ HistoryInv /\ Next => HistoryInv'
<1> SUFFICES ASSUME RowsInv, HistoryInv, Next PROVE HistoryInv'
  BY Zenon
<1> USE DEF storeVars, countVars, callVars, diskVars, histVars
<1>0. /\ TypeOK /\ history \in [Ids -> Seq(Message)]
      /\ disk \in [sessions : [Ids -> Row \cup {None}], history : [Ids -> Seq(Message)]]
  BY Zenon DEF RowsInv, TypeOK
<1>1. ASSUME UNCHANGED <<scenario, history>>, disk'.history = disk.history PROVE HistoryInv'
  BY <1>1, HistoryFrame, Zenon DEF HistoryInv
<1>2. ASSUME NEW p \in Calls, Create(p) \/ Resume(p) \/ Bind(p) \/ Put(p) \/ Delete(p)
                              \/ CheckAppendable(p) \/ ReadHistory(p) \/ InferenceFails(p)
                              \/ AppendTurns(p)
      PROVE  HistoryInv'
  <2>1. UNCHANGED <<scenario, history, disk>>
    BY <1>2, Zenon DEF Create, ReserveSlot, NewID, NewIDFails, PutNew, Resume, Bind, Put, Delete,
                CheckAppendable, ReadHistory, InferenceFails, AppendTurns
  <2> QED BY <1>1, <2>1, Zenon
<1>3. ASSUME NEW p \in Calls, AppendBatch(p) PROVE HistoryInv'
  <2>1. UNCHANGED <<scenario, disk>> /\ pc[p] = "append"
    BY <1>3, Zenon DEF AppendBatch
  <2>2. CASE history' = history
    BY <1>1, <2>1, <2>2, Zenon
  <2>3. CASE /\ ~rejects(history[id[p]] \o messages(p))
             /\ history' = [history EXCEPT ![id[p]] = trim(history[id[p]] \o messages(p))]
    <3>1. id[p] \in Ids
      BY <2>1, Zenon DEF RowsInv, OwnersAgree, minted, Procs
    <3>2. history[id[p]] \in Seq(Message) /\ Kept(scenario, history[id[p]])
      BY <1>0, <3>1, Zenon DEF HistoryInv
    <3>3. /\ history[id[p]] \o messages(p) \in Seq(Message)
          /\ WholeSeq(history[id[p]]) => WholeSeq(history[id[p]] \o messages(p))
      BY <3>2, TurnAppended, Zenon
    <3>4. scenario.policy = "reject" => WholeSeq(history[id[p]] \o messages(p))
      BY <3>2, <3>3, Zenon DEF Kept
    <3>5. Kept(scenario, trim(history[id[p]] \o messages(p)))
      BY <1>0, <2>3, <3>3, <3>4, TrimKept, Zenon
    <3>6. \A i \in Ids : Kept(scenario, history'[i])
      BY <1>0, <2>3, <3>5, Zenon DEF HistoryInv
    <3> QED BY <2>1, <3>6, HistoryFrame, Zenon DEF HistoryInv
  <2> QED BY <1>3, <2>2, <2>3, Zenon DEF AppendBatch
<1>4. ASSUME NEW q \in Procs, Removal(q) PROVE HistoryInv'
  <2>1. UNCHANGED <<scenario, disk>>
    BY <1>4, Zenon DEF Removal, DeleteRow, Purge
  <2>2. history' = history \/ history' = [history EXCEPT ![id[q]] = <<>>]
    BY <1>4, Zenon DEF Removal, DeleteRow, Purge
  <2>3. \A i \in Ids : Kept(scenario, history'[i])
    BY <1>0, <2>2, EmptyKept, Zenon DEF HistoryInv
  <2> QED BY <2>1, <2>3, HistoryFrame, Zenon DEF HistoryInv
<1>5. ASSUME SweepList \/ SweepNext \/ SetMaxSessionsPerKey \/ Tick PROVE HistoryInv'
  <2>1. UNCHANGED <<scenario, history, disk>>
    BY <1>5, Zenon DEF SweepList, SweepNext, SetMaxSessionsPerKey, Tick
  <2> QED BY <1>1, <2>1, Zenon
<1>6. ASSUME CheckpointSessions \/ CheckpointHistory PROVE HistoryInv'
  <2>1. UNCHANGED <<scenario, history>>
    BY <1>6, Zenon DEF CheckpointSessions, CheckpointHistory
  <2>2. disk'.history = disk.history \/ disk'.history = history
    BY <1>0, <1>6, Zenon DEF CheckpointSessions, CheckpointHistory
  <2> QED BY <2>1, <2>2, HistoryFrame, Zenon DEF HistoryInv
<1>7. ASSUME Restart PROVE HistoryInv'
  <2>1. UNCHANGED <<scenario, disk>> /\ history' = LoadHistory({i \in Ids : sessions'[i] # None})
    BY <1>7, Zenon DEF Restart
  <2>2. ASSUME NEW i \in Ids PROVE Kept(scenario, trim(disk.history[i]))
    <3>1. disk.history[i] \in Seq(Message) /\ Kept(scenario, disk.history[i])
      BY <1>0, Zenon DEF HistoryInv
    <3>2. ~rejects(disk.history[i]) /\ (scenario.policy = "reject" => WholeSeq(disk.history[i]))
      BY <3>1, Zenon DEF rejects, Kept, Fits
    <3> QED BY <1>0, <3>1, <3>2, TrimKept, Zenon
  <2>3. \A i \in Ids : history'[i] = trim(disk.history[i]) \/ history'[i] = <<>>
    BY <2>1, Zenon DEF LoadHistory
  <2>4. \A i \in Ids : Kept(scenario, history'[i])
    BY <1>0, <2>2, <2>3, EmptyKept, Zenon
  <2> QED BY <2>1, <2>4, HistoryFrame, Zenon DEF HistoryInv
<1> QED BY <1>2, <1>3, <1>4, <1>5, <1>6, <1>7, ZenonT(40) DEF Next, Turn

(* Under OverflowReject a stored history is whole turns, and under either  *)
(* policy it fits the caps: appends that race each other and removals, and *)
(* boots from an older checkpoint, keep it so for any caps and sizes.      *)
THEOREM HistoryStaysWhole == Spec => []HistoryWhole
<1>1. Init => HistoryInv
  <2> SUFFICES ASSUME Init PROVE HistoryInv
    BY Zenon
  <2>1. \A i \in Ids : history[i] = <<>> /\ disk.history[i] = <<>>
    BY Zenon DEF Init
  <2> QED BY <2>1, InitType, EmptyKept, Zenon DEF HistoryInv
<1>2. SlotsInv /\ HistoryInv /\ [Next]_vars => HistoryInv'
  <2>1. SlotsInv /\ HistoryInv /\ Next => HistoryInv'
    BY HistoryStep, Zenon DEF SlotsInv
  <2>2. HistoryInv /\ UNCHANGED vars => HistoryInv'
    BY Zenon DEF HistoryInv, vars, storeVars, diskVars
  <2> QED BY <2>1, <2>2, Zenon
<1> QED BY <1>1, <1>2, SlotsInvariant, HistoryInvImplies, PTL DEF Spec
=============================================================================
