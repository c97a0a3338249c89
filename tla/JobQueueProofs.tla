--------------------------- MODULE JobQueueProofs ---------------------------
(***************************************************************************)
(* Proofs about the job queue for any callers, priorities and depth.       *)
(*                                                                         *)
(* NoLostWakeup is not inductive alone.  When Enqueue signals, the caller  *)
(* it takes off the notify list must not have been counted as woken        *)
(* before, and when a caller parks the heap must be empty; both come from  *)
(* NotifyListExact, which is inductive with TypeOK.                        *)
(***************************************************************************)
EXTENDS JobQueue, FiniteSetTheorems, SequenceTheorems, TLAPS

(* The notify list and the mutex, with what they need of the heap.         *)
WakeupInv == TypeOK /\ NotifyListExact /\ IsFiniteSet(items) /\ NoLostWakeup

(* The history of pops against what is still queued: an item that would    *)
(* have come before a served one was enqueued after it.                    *)
Before(a, b) == a.prio > b.prio \/ (a.prio = b.prio /\ a.seq < b.seq)

OrderInv ==
    /\ TypeOK
    /\ ServedInOrder
    /\ \A i \in DOMAIN served :
        /\ served[i].at <= seq
        /\ \A it \in items : Before(it, served[i].item) => it.seq >= served[i].at

-----------------------------------------------------------------------------
(* The queue New returns has the right types.                              *)
LEMMA InitType == Init => TypeOK
<1> USE DEF TypeOK, Item
<1> SUFFICES ASSUME Init PROVE TypeOK
  BY Zenon
<1>1. parked \in Seq(Callers) /\ served \in Seq([item : Item, at : Nat])
  BY EmptySeq, Zenon DEF Init
<1>2. items \in SUBSET Item /\ seq \in Nat /\ \A it \in items : it.seq < seq
  BY Zenon DEF Init
<1> QED BY <1>1, <1>2, Zenon DEF Init

(* Every step of the queue keeps the types.                                *)
LEMMA TypeStep == TypeOK /\ [Next]_vars => TypeOK'
<1> USE DEF TypeOK, Item
<1> SUFFICES ASSUME TypeOK, [Next]_vars PROVE TypeOK'
  BY Zenon
<1>1. ASSUME NEW p \in Priorities, Enqueue(p) PROVE TypeOK'
  <2>1. items' \in SUBSET Item /\ seq' \in Nat /\ \A it \in items' : it.seq < seq'
    BY <1>1 DEF Enqueue
  <2>2. parked' \in Seq(Callers) /\ pc' \in [Callers -> {"out", "enter", "checked", "parked", "woken"}]
    <3>1. CASE parked = <<>>
      BY <1>1, <3>1, Zenon DEF Enqueue, Signal
    <3>2. CASE parked # <<>>
      <4>1. Head(parked) \in Callers /\ Tail(parked) \in Seq(Callers)
        BY <3>2, HeadTailProperties, Zenon
      <4> QED BY <1>1, <3>2, <4>1, Zenon DEF Enqueue, Signal
    <3> QED BY <3>1, <3>2, Zenon
  <2> QED BY <1>1, <2>1, <2>2, Zenon DEF Enqueue
<1>2. ASSUME popLocked PROVE /\ items' \in SUBSET Item
                             /\ \A it \in items' : it.seq < seq
                             /\ served' \in Seq([item : Item, at : Nat])
  <2>1. PICK it \in items : /\ items' = items \ {it}
                            /\ served' = Append(served, [item |-> it, at |-> seq])
    BY <1>2, Zenon DEF popLocked
  <2>2. [item |-> it, at |-> seq] \in [item : Item, at : Nat]
    BY <2>1, Zenon
  <2> QED BY <2>1, <2>2, AppendProperties, Zenon
<1>3. CASE Dequeue
  BY <1>2, <1>3, Zenon DEF Dequeue
<1>4. CASE Close
  BY <1>4 DEF Close, Broadcast
<1>5. ASSUME NEW c \in Callers, Call(c) PROVE TypeOK'
  BY <1>5, Zenon DEF Call
<1>6. ASSUME NEW c \in Callers, DequeueWait(c) PROVE TypeOK'
  <2>1. CASE TakeItem(c)
    BY <1>2, <1>6, <2>1, Zenon DEF DequeueWait, TakeItem, Return
  <2>2. CASE GiveUp(c)
    BY <1>6, <2>2, Zenon DEF DequeueWait, GiveUp, Return
  <2>3. CASE KeepWaiting(c)
    BY <1>6, <2>3, Zenon DEF DequeueWait, KeepWaiting
  <2> QED BY <1>6, <2>1, <2>2, <2>3, Zenon DEF DequeueWait
<1>7. ASSUME NEW c \in Callers, Wait(c) PROVE TypeOK'
  BY <1>7, AppendProperties, Zenon DEF Wait
<1>8. ASSUME NEW c \in Callers, Cancel(c) PROVE TypeOK'
  BY <1>8, Zenon DEF Cancel
<1>9. ASSUME NEW c \in Callers, BridgeBroadcast(c) PROVE TypeOK'
  BY <1>9 DEF BridgeBroadcast, Broadcast
<1>10. CASE UNCHANGED vars
  BY <1>10, Zenon DEF vars
<1> QED BY <1>1, <1>3, <1>4, <1>5, <1>6, <1>7, <1>8, <1>9, <1>10, Zenon DEF Next

(* Type correctness: the heap, the notify list, the mutex and every caller *)
(* of DequeueWait stay in their types, and no queued item carries a        *)
(* sequence number Enqueue has not handed out.                             *)
THEOREM TypeCorrect == Spec => []TypeOK
<1>1. Init => TypeOK
  BY InitType, Zenon
<1>2. TypeOK /\ [Next]_vars => TypeOK'
  BY TypeStep, Zenon
<1> QED BY <1>1, <1>2, PTL DEF Spec
-----------------------------------------------------------------------------
(* Tail shifts a sequence by one.                                          *)
LEMMA TailShift ==
  ASSUME NEW S, NEW s \in Seq(S), s # <<>>
  PROVE  /\ Len(s) \in Nat \ {0}
         /\ DOMAIN Tail(s) = 1..(Len(s) - 1)
         /\ \A i \in 1..(Len(s) - 1) : Tail(s)[i] = s[i + 1]
         /\ Head(s) = s[1]
  BY EmptySeq, LenProperties, HeadTailProperties

(* The notify list, the mutex and the callers stay in step.                *)
LEMMA NotifyStep ==
  TypeOK /\ NotifyListExact /\ [Next]_vars => NotifyListExact'
<1> SUFFICES ASSUME TypeOK, NotifyListExact, [Next]_vars PROVE NotifyListExact'
  BY Zenon
<1> USE DEF TypeOK, NotifyListExact
<1>1. ASSUME NEW p \in Priorities, Enqueue(p) PROVE NotifyListExact'
  <2>1. CASE parked = <<>>
    BY <1>1, <2>1 DEF Enqueue, Signal
  <2>2. CASE parked # <<>>
    <3> DEFINE n == Len(parked)
    <3>0. parked' = Tail(parked) /\ parked \in Seq(Callers)
      BY <1>1, <2>2, Zenon DEF Enqueue, Signal
    <3>1. /\ n \in Nat \ {0}
          /\ DOMAIN parked = 1..n
          /\ DOMAIN parked' = 1..(n - 1)
          /\ \A i \in 1..(n - 1) : parked'[i] = parked[i + 1]
          /\ Head(parked) = parked[1]
      BY <2>2, <3>0, TailShift, LenProperties
    <3>2. pc' = [pc EXCEPT ![parked[1]] = "woken"] /\ parked[1] \in Callers
      BY <1>1, <2>2, <3>1, ElementOfSeq DEF Enqueue, Signal
    <3> HIDE DEF n
    <3>3. \A c \in Callers : pc'[c] = "parked" <=> \E i \in DOMAIN parked' : parked'[i] = c
      <4> TAKE c \in Callers
      <4>1. ASSUME pc'[c] = "parked" PROVE \E i \in DOMAIN parked' : parked'[i] = c
        <5>1. PICK i \in DOMAIN parked : parked[i] = c
          BY <3>2, <4>1
        <5>2. i # 1
          BY <3>2, <4>1, <5>1, Zenon
        <5>3. i - 1 \in 1..(n - 1) /\ parked[(i - 1) + 1] = c
          BY <3>1, <5>1, <5>2
        <5>4. i - 1 \in DOMAIN parked' /\ parked'[i - 1] = c
          BY <3>1, <5>3, Zenon
        <5> QED BY <5>4, Zenon
      <4>2. ASSUME NEW i \in DOMAIN parked', parked'[i] = c PROVE pc'[c] = "parked"
        <5>1. i \in 1..(n - 1) /\ i + 1 \in DOMAIN parked /\ 1 \in DOMAIN parked /\ i + 1 # 1
          BY <3>1
        <5>2. parked[i + 1] = c
          BY <3>1, <4>2, <5>1, Zenon
        <5>3. pc[c] = "parked" /\ c # parked[1]
          BY <5>1, <5>2
        <5> QED BY <3>2, <5>3, Zenon
      <4> QED BY <4>1, <4>2, Zenon
    <3>4. \A i, j \in DOMAIN parked' : parked'[i] = parked'[j] => i = j
      <4> SUFFICES ASSUME NEW i \in DOMAIN parked', NEW j \in DOMAIN parked',
                          parked'[i] = parked'[j]
                   PROVE  i = j
        BY Zenon
      <4>1. /\ i \in 1..(n - 1) /\ j \in 1..(n - 1)
            /\ i + 1 \in DOMAIN parked /\ j + 1 \in DOMAIN parked
        BY <3>1
      <4>2. i + 1 = j + 1
        BY <3>1, <4>1
      <4> QED BY <4>1, <4>2
    <3>5. held = held' /\ ~held /\ \A c \in Callers : pc'[c] # "checked"
      BY <1>1, <3>2, Zenon DEF Enqueue
    <3> QED BY <3>3, <3>4, <3>5, Zenon
  <2> QED BY <2>1, <2>2, Zenon
<1>2. CASE Dequeue
  BY <1>2, Zenon DEF Dequeue, popLocked
<1>3. CASE Close
  BY <1>3 DEF Close, Broadcast
<1>4. ASSUME NEW c \in Callers, Call(c) PROVE NotifyListExact'
  BY <1>4, SMTT(30) DEF Call
<1>5. ASSUME NEW c \in Callers, DequeueWait(c) PROVE NotifyListExact'
  <2>1. CASE TakeItem(c)
    BY <1>5, <2>1, SMTT(30) DEF DequeueWait, TakeItem, Return
  <2>2. CASE GiveUp(c)
    BY <1>5, <2>2, SMTT(30) DEF DequeueWait, GiveUp, Return
  <2>3. CASE KeepWaiting(c)
    BY <1>5, <2>3, SMTT(30) DEF DequeueWait, KeepWaiting
  <2> QED BY <1>5, <2>1, <2>2, <2>3, SMTT(30) DEF DequeueWait
<1>6. ASSUME NEW c \in Callers, Wait(c) PROVE NotifyListExact'
  <2>1. /\ Len(parked) \in Nat
        /\ DOMAIN parked = 1..Len(parked)
        /\ DOMAIN parked' = 1..(Len(parked) + 1)
        /\ \A i \in 1..Len(parked) : parked'[i] = parked[i]
        /\ parked'[Len(parked) + 1] = c
    BY <1>6, LenProperties, AppendProperties DEF Wait
  <2>2. \A d \in Callers : pc'[d] = "parked" <=> \E i \in DOMAIN parked' : parked'[i] = d
    BY <1>6, <2>1, SMTT(30) DEF Wait
  <2>3. \A i, j \in DOMAIN parked' : parked'[i] = parked'[j] => i = j
    BY <1>6, <2>1, SMTT(30) DEF Wait
  <2> QED BY <1>6, <2>2, <2>3, SMTT(30) DEF Wait
<1>7. ASSUME NEW c \in Callers, Cancel(c) PROVE NotifyListExact'
  BY <1>7, Zenon DEF Cancel
<1>8. ASSUME NEW c \in Callers, BridgeBroadcast(c) PROVE NotifyListExact'
  BY <1>8 DEF BridgeBroadcast, Broadcast
<1>9. CASE UNCHANGED vars
  BY <1>9, Zenon DEF vars
<1> QED BY <1>1, <1>2, <1>3, <1>4, <1>5, <1>6, <1>7, <1>8, <1>9, Zenon DEF Next

(* No step of the queue loses a wakeup.                                    *)
LEMMA WakeupStep == WakeupInv /\ [Next]_vars => NoLostWakeup' /\ IsFiniteSet(items)'
<1> SUFFICES ASSUME WakeupInv, [Next]_vars PROVE NoLostWakeup' /\ IsFiniteSet(items)'
  BY Zenon
<1>0. TypeOK /\ TypeOK' /\ NotifyListExact /\ NoLostWakeup /\ IsFiniteSet(items)
  BY TypeStep, Zenon DEF WakeupInv
<1>1. /\ IsFiniteSet(Woken) /\ Cardinality(Woken) \in Nat
      /\ IsFiniteSet(Woken') /\ Cardinality(Woken') \in Nat
      /\ Cardinality(items) \in Nat
  <2>1. Woken \in SUBSET Callers /\ Woken' \in SUBSET Callers
    BY Zenon DEF Woken
  <2> QED BY <1>0, <2>1, CallersFinite, FS_Subset, FS_CardinalityType, Zenon
<1>2. ASSUME popLocked PROVE IsFiniteSet(items') /\ Cardinality(items') = Cardinality(items) - 1
  <2>1. PICK it \in items : items' = items \ {it}
    BY <1>2, Zenon DEF popLocked
  <2> QED BY <1>0, <2>1, FS_RemoveElement, Zenon
<1>3. ASSUME NEW p \in Priorities, Enqueue(p) PROVE NoLostWakeup' /\ IsFiniteSet(items)'
  <2>1. /\ IsFiniteSet(items')
        /\ Cardinality(items') \in Nat
        /\ Cardinality(items') <= Cardinality(items) + 1
    <3>1. PICK it : items' = items \cup {it}
      BY <1>3, Zenon DEF Enqueue
    <3>2. /\ IsFiniteSet(items \cup {it})
          /\ \/ Cardinality(items \cup {it}) = Cardinality(items)
             \/ Cardinality(items \cup {it}) = Cardinality(items) + 1
      BY <1>0, FS_AddElement, Zenon
    <3> QED BY <1>1, <3>1, <3>2
  <2>2. CASE parked = <<>>
    BY <1>3, <2>1, <2>2, Zenon DEF Enqueue, Signal, NoLostWakeup
  <2>3. CASE parked # <<>>
    <3> DEFINE h == Head(parked)
    <3>1. h \in Callers /\ pc[h] = "parked"
      <4>1. parked \in Seq(Callers) /\ 1 \in DOMAIN parked /\ h = parked[1]
        BY <1>0, <2>3, TailShift, LenProperties DEF TypeOK
      <4>2. h \in Callers
        BY <4>1, ElementOfSeq, LenProperties, Zenon
      <4> QED BY <1>0, <4>1, <4>2, Zenon DEF NotifyListExact
    <3>2. pc' = [pc EXCEPT ![h] = "woken"]
      BY <1>3, <2>3, Zenon DEF Enqueue, Signal
    <3>3. Woken' = Woken \cup {h} /\ h \notin Woken
      BY <1>0, <3>1, <3>2 DEF Woken, TypeOK
    <3>4. Cardinality(Woken') = Cardinality(Woken) + 1
      BY <1>1, <3>3, FS_AddElement, Zenon
    <3> QED BY <1>0, <1>1, <2>1, <2>3, <3>4 DEF NoLostWakeup
  <2> QED BY <2>2, <2>3, Zenon
<1>4. CASE Dequeue
  <2>1. Woken' = Woken /\ parked' = parked
    BY <1>4, Zenon DEF Dequeue, Woken
  <2> QED BY <1>0, <1>1, <1>2, <1>4, <2>1 DEF Dequeue, NoLostWakeup
<1>5. CASE Close
  BY <1>0, <1>5, Zenon DEF Close, Broadcast, NoLostWakeup
<1>6. ASSUME NEW c \in Callers, Call(c) PROVE NoLostWakeup' /\ IsFiniteSet(items)'
  <2>1. Woken' = Woken
    BY <1>0, <1>6, Zenon DEF Call, Woken, TypeOK
  <2> QED BY <1>0, <1>6, <2>1, Zenon DEF Call, NoLostWakeup
<1>7. ASSUME NEW c \in Callers, DequeueWait(c) PROVE NoLostWakeup' /\ IsFiniteSet(items)'
  <2>1. parked' = parked /\ Woken' = Woken \ {c}
    BY <1>0, <1>7, Zenon DEF DequeueWait, TakeItem, GiveUp, KeepWaiting, Return, Woken, TypeOK
  <2>2. Cardinality(Woken') >= Cardinality(Woken) - 1
    BY <1>1, <2>1, FS_RemoveElement, SMTT(30)
  <2>3. CASE TakeItem(c)
    BY <1>0, <1>1, <1>2, <2>1, <2>2, <2>3, SMTT(30) DEF TakeItem, NoLostWakeup
  <2>4. CASE GiveUp(c) \/ KeepWaiting(c)
    <3>1. items' = {}
      BY <2>4, Zenon DEF GiveUp, KeepWaiting
    <3> QED BY <1>1, <3>1, FS_EmptySet DEF NoLostWakeup
  <2> QED BY <1>7, <2>3, <2>4, Zenon DEF DequeueWait
<1>8. ASSUME NEW c \in Callers, Wait(c) PROVE NoLostWakeup' /\ IsFiniteSet(items)'
  <2>1. items' = {}
    BY <1>0, <1>8, Zenon DEF Wait, NotifyListExact
  <2> QED BY <1>1, <2>1, FS_EmptySet DEF NoLostWakeup
<1>9. ASSUME NEW c \in Callers, Cancel(c) PROVE NoLostWakeup' /\ IsFiniteSet(items)'
  BY <1>0, <1>9, Zenon DEF Cancel, NoLostWakeup, Woken
<1>10. ASSUME NEW c \in Callers, BridgeBroadcast(c) PROVE NoLostWakeup' /\ IsFiniteSet(items)'
  BY <1>0, <1>10, Zenon DEF BridgeBroadcast, Broadcast, NoLostWakeup
<1>11. CASE UNCHANGED vars
  BY <1>0, <1>11, Zenon DEF vars, NoLostWakeup, Woken
<1> QED BY <1>3, <1>4, <1>5, <1>6, <1>7, <1>8, <1>9, <1>10, <1>11, Zenon DEF Next

(* The condition variable of the queue loses no wakeup: however Enqueue's  *)
(* one Signal per item interleaves with callers that enter, leave or are   *)
(* cancelled, a parked caller means every queued item has a woken caller.  *)
THEOREM WakeupsSuffice == Spec => [](NoLostWakeup /\ NotifyListExact)
<1>1. Init => WakeupInv
  <2> SUFFICES ASSUME Init PROVE WakeupInv
    BY Zenon
  <2>1. TypeOK
    BY InitType, Zenon
  <2>2. NotifyListExact
    BY DEF Init, NotifyListExact
  <2>3. IsFiniteSet(items)
    BY FS_EmptySet, Zenon DEF Init
  <2>4. NoLostWakeup
    BY Zenon DEF Init, NoLostWakeup
  <2> QED BY <2>1, <2>2, <2>3, <2>4, Zenon DEF WakeupInv
<1>2. WakeupInv /\ [Next]_vars => WakeupInv'
  BY TypeStep, NotifyStep, WakeupStep, Zenon DEF WakeupInv
<1>3. WakeupInv => NoLostWakeup /\ NotifyListExact
  BY Zenon DEF WakeupInv
<1> QED BY <1>1, <1>2, <1>3, PTL DEF Spec

-----------------------------------------------------------------------------
(* What popLocked does to the history: one more entry, older ones kept.    *)
LEMMA PopServes ==
  ASSUME TypeOK, popLocked
  PROVE  \E it \in items :
           /\ \A other \in items \ {it} : Less(it, other)
           /\ items' = items \ {it}
           /\ Len(served) \in Nat
           /\ DOMAIN served = 1..Len(served)
           /\ DOMAIN served' = 1..(Len(served) + 1)
           /\ \A i \in 1..Len(served) : served'[i] = served[i]
           /\ served'[Len(served) + 1] = [item |-> it, at |-> seq]
<1>1. PICK it \in items : /\ \A other \in items \ {it} : Less(it, other)
                          /\ items' = items \ {it}
                          /\ served' = Append(served, [item |-> it, at |-> seq])
  BY Zenon DEF popLocked
<1>2. served \in Seq([item : Item, at : Nat]) /\ [item |-> it, at |-> seq] \in [item : Item, at : Nat]
  BY <1>1, Zenon DEF TypeOK
<1> QED BY <1>1, <1>2, LenProperties, AppendProperties

(* Fields of a served entry.                                               *)
LEMMA ServedFields ==
  ASSUME TypeOK, NEW i \in DOMAIN served
  PROVE  served[i].item.prio \in Int /\ served[i].item.seq \in Nat /\ served[i].at \in Nat
<1>1. served \in Seq([item : Item, at : Nat]) /\ i \in 1..Len(served)
  BY LenProperties, Zenon DEF TypeOK
<1>2. served[i] \in [item : Item, at : Nat]
  BY <1>1, ElementOfSeq, Zenon
<1> QED BY <1>2, PrioritiesInt, Zenon DEF Item

(* A pop keeps the order of the history.                                   *)
LEMMA PopOrder == ASSUME OrderInv, popLocked, seq' = seq, TypeOK' PROVE OrderInv'
<1>0. TypeOK
  BY Zenon DEF OrderInv
<1> DEFINE n == Len(served)
<1>1. PICK it \in items : 
           /\ \A other \in items \ {it} : Less(it, other)
           /\ items' = items \ {it}
           /\ n \in Nat
           /\ DOMAIN served = 1..n
           /\ DOMAIN served' = 1..(n + 1)
           /\ \A i \in 1..n : served'[i] = served[i]
           /\ served'[n + 1] = [item |-> it, at |-> seq]
  BY <1>0, PopServes, Zenon
<1> HIDE DEF n
<1>2. \A x \in items : x.prio \in Int /\ x.seq \in Nat /\ x.seq < seq
  BY <1>0, PrioritiesInt, Zenon DEF TypeOK, Item
<1>3. seq \in Nat
  BY <1>0, Zenon DEF TypeOK
<1>4. \A i \in DOMAIN served' :
        /\ served'[i].at <= seq'
        /\ \A x \in items' : Before(x, served'[i].item) => x.seq >= served'[i].at
  <2> TAKE i \in DOMAIN served'
  <2>1. CASE i \in 1..n
    BY <1>1, <2>1, Zenon DEF OrderInv
  <2>2. CASE i = n + 1
    <3>1. served'[i].at = seq /\ served'[i].item = it
      BY <1>1, <2>2
    <3>2. ASSUME NEW x \in items', Before(x, it) PROVE FALSE
      BY <1>1, <1>2, <3>2, SMTT(30) DEF Before, Less
    <3> QED BY <1>3, <3>1, <3>2, SMTT(30)
  <2> QED BY <1>1, <2>1, <2>2, SMTT(30)
<1>5. ServedInOrder'
  <2> SUFFICES ASSUME NEW i \in DOMAIN served', NEW j \in DOMAIN served',
                      i < j, Before(served'[j].item, served'[i].item)
               PROVE  served'[j].item.seq >= served'[i].at
    BY Zenon DEF ServedInOrder, Before
  <2>0. i \in 1..n /\ served'[i] = served[i]
    BY <1>1
  <2>1. CASE j \in 1..n
    BY <1>1, <2>0, <2>1, Zenon DEF OrderInv, ServedInOrder, Before
  <2>2. CASE j = n + 1
    BY <1>1, <2>0, <2>2 DEF OrderInv
  <2> QED BY <1>1, <2>1, <2>2, SMTT(30)
<1> QED BY <1>4, <1>5, Zenon DEF OrderInv

(* Items leave the queue by priority and, within a priority, in the order  *)
(* Enqueue numbered them, over the whole history of the queue.             *)
THEOREM FirstInFirstOut == Spec => []ServedInOrder
<1>1. Init => OrderInv
  <2> SUFFICES ASSUME Init PROVE OrderInv
    OBVIOUS
  <2>1. TypeOK /\ DOMAIN served = {}
    BY InitType DEF Init
  <2> QED BY <2>1, Zenon DEF OrderInv, ServedInOrder
<1>2. OrderInv /\ [Next]_vars => OrderInv'
  <2> SUFFICES ASSUME OrderInv, [Next]_vars PROVE OrderInv'
    BY Zenon
  <2>0. TypeOK /\ TypeOK'
    BY TypeStep, Zenon DEF OrderInv
  <2>1. ASSUME NEW p \in Priorities, Enqueue(p) PROVE OrderInv'
    <3>1. /\ served' = served /\ seq' = seq + 1 /\ seq \in Nat
          /\ items' = items \cup {[prio |-> p, seq |-> seq]}
      BY <2>0, <2>1, Zenon DEF Enqueue, TypeOK
    <3>2. \A i \in DOMAIN served : served[i].at <= seq /\ served[i].at \in Nat
      BY <2>0, ServedFields, Zenon DEF OrderInv
    <3>3. \A i \in DOMAIN served' :
            /\ served'[i].at <= seq'
            /\ \A it \in items' : Before(it, served'[i].item) => it.seq >= served'[i].at
      BY <3>1, <3>2 DEF OrderInv
    <3>4. ServedInOrder'
      BY <3>1, Zenon DEF OrderInv, ServedInOrder
    <3> QED BY <2>0, <3>3, <3>4, Zenon DEF OrderInv
  <2>2. ASSUME popLocked, seq' = seq PROVE OrderInv'
    BY <2>0, <2>2, PopOrder, Zenon
  <2>3. ASSUME UNCHANGED <<items, seq, served>> PROVE OrderInv'
    BY <2>0, <2>3, Zenon DEF OrderInv, ServedInOrder
  <2>4. CASE Dequeue
    BY <2>2, <2>4, Zenon DEF Dequeue
  <2>5. CASE Close
    BY <2>3, <2>5, Zenon DEF Close
  <2>6. ASSUME NEW c \in Callers, DequeueWait(c) PROVE OrderInv'
    BY <2>2, <2>3, <2>6, Zenon DEF DequeueWait, TakeItem, GiveUp, KeepWaiting
  <2>7. ASSUME NEW c \in Callers, Call(c) \/ Wait(c) \/ Cancel(c) \/ BridgeBroadcast(c)
        PROVE  OrderInv'
    BY <2>3, <2>7, Zenon DEF Call, Wait, Cancel, BridgeBroadcast
  <2>8. CASE UNCHANGED vars
    BY <2>3, <2>8, Zenon DEF vars
  <2> QED BY <2>1, <2>4, <2>5, <2>6, <2>7, <2>8, Zenon DEF Next
<1>3. OrderInv => ServedInOrder
  BY Zenon DEF OrderInv
<1> QED BY <1>1, <1>2, <1>3, PTL DEF Spec

-----------------------------------------------------------------------------
(* A bounded queue never exceeds its depth.                                *)
THEOREM DepthRespected == Spec => []WithinDepth
<1> DEFINE DepthInv == TypeOK /\ IsFiniteSet(items) /\ WithinDepth
<1>1. Init => DepthInv
  <2> SUFFICES ASSUME Init PROVE DepthInv
    BY Zenon
  <2>1. TypeOK /\ items = {}
    BY InitType, Zenon DEF Init
  <2> QED BY <2>1, FS_EmptySet, DepthNat DEF WithinDepth
<1>2. DepthInv /\ [Next]_vars => DepthInv'
  <2> SUFFICES ASSUME DepthInv, [Next]_vars PROVE IsFiniteSet(items') /\ WithinDepth'
    BY TypeStep, Zenon
  <2>0. Cardinality(items) \in Nat /\ MaxDepth \in Nat
    BY FS_CardinalityType, DepthNat, Zenon
  <2>1. ASSUME NEW p \in Priorities, Enqueue(p) PROVE IsFiniteSet(items') /\ WithinDepth'
    <3>1. PICK it : items' = items \cup {it}
      BY <2>1, Zenon DEF Enqueue
    <3>2. /\ IsFiniteSet(items \cup {it})
          /\ \/ Cardinality(items \cup {it}) = Cardinality(items)
             \/ Cardinality(items \cup {it}) = Cardinality(items) + 1
      BY FS_AddElement, Zenon
    <3>3. MaxDepth > 0 => Cardinality(items) < MaxDepth
      BY <2>0, <2>1 DEF Enqueue, Full
    <3> QED BY <2>0, <3>1, <3>2, <3>3 DEF WithinDepth
  <2>2. ASSUME popLocked PROVE IsFiniteSet(items') /\ WithinDepth'
    <3>1. PICK it \in items : items' = items \ {it}
      BY <2>2, Zenon DEF popLocked
    <3>2. IsFiniteSet(items') /\ Cardinality(items') = Cardinality(items) - 1
      BY <3>1, FS_RemoveElement, Zenon
    <3> QED BY <2>0, <3>2 DEF WithinDepth
  <2>3. ASSUME items' = items PROVE IsFiniteSet(items') /\ WithinDepth'
    BY <2>3, Zenon DEF WithinDepth
  <2>4. ASSUME NEW c \in Callers, DequeueWait(c) PROVE popLocked \/ items' = items
    BY <2>4, Zenon DEF DequeueWait, TakeItem, GiveUp, KeepWaiting
  <2>5. ASSUME NEW c \in Callers, Call(c) \/ Wait(c) \/ Cancel(c) \/ BridgeBroadcast(c)
        PROVE  items' = items
    BY <2>5, Zenon DEF Call, Wait, Cancel, BridgeBroadcast
  <2>6. Dequeue => popLocked
    BY Zenon DEF Dequeue
  <2>7. Close \/ UNCHANGED vars => items' = items
    BY Zenon DEF Close, vars
  <2> QED BY <2>1, <2>2, <2>3, <2>4, <2>5, <2>6, <2>7, Zenon DEF Next
<1>3. DepthInv => WithinDepth
  BY Zenon
<1> QED BY <1>1, <1>2, <1>3, PTL DEF Spec

(* A pop moves one sequence number from the queue to the history.          *)
LEMMA PopConserves == ASSUME TypeOK, NoItemLost, popLocked, seq' = seq PROVE NoItemLost'
<1> DEFINE n == Len(served)
<1>1. PICK it \in items : 
           /\ items' = items \ {it}
           /\ n \in Nat
           /\ DOMAIN served = 1..n
           /\ DOMAIN served' = 1..(n + 1)
           /\ \A i \in 1..n : served'[i] = served[i]
           /\ served'[n + 1] = [item |-> it, at |-> seq]
  BY PopServes, Zenon
<1> HIDE DEF n
<1>2. served'[n + 1].item = it /\ n + 1 \in DOMAIN served' /\ 1..n \subseteq 1..(n + 1)
  BY <1>1
<1>3. \A s \in 0..(seq' - 1) : \/ \E x \in items' : x.seq = s
                               \/ \E i \in DOMAIN served' : served'[i].item.seq = s
  <2> SUFFICES ASSUME NEW s \in 0..(seq - 1), ~ \E x \in items' : x.seq = s
               PROVE  \E i \in DOMAIN served' : served'[i].item.seq = s
    BY Zenon
  <2>1. CASE it.seq = s
    BY <1>2, <2>1, Zenon
  <2>2. CASE it.seq # s
    <3>1. PICK i \in DOMAIN served : served[i].item.seq = s
      BY <1>1, <2>2, Zenon DEF NoItemLost
    <3> QED BY <1>1, <1>2, <3>1, Zenon
  <2> QED BY <2>1, <2>2, Zenon
<1>4. \A x, other \in items' : x.seq = other.seq => x = other
  BY <1>1, Zenon DEF NoItemLost
<1>5. \A x \in items' : \A i \in DOMAIN served' : x.seq # served'[i].item.seq
  BY <1>1, <1>2 DEF NoItemLost
<1>6. \A i, j \in DOMAIN served' : served'[i].item.seq = served'[j].item.seq => i = j
  BY <1>1, <1>2 DEF NoItemLost
<1> QED BY <1>3, <1>4, <1>5, <1>6, Zenon DEF NoItemLost

(* The queue conserves items: whatever callers, cancellations and Close    *)
(* do, each enqueued item is still queued or was handed out exactly once.  *)
THEOREM ItemsConserved == Spec => []NoItemLost
<1> DEFINE Below == \A i \in DOMAIN served : served[i].item.seq < seq
<1> DEFINE ConserveInv == TypeOK /\ NoItemLost /\ Below
<1>1. Init => ConserveInv
  <2> SUFFICES ASSUME Init PROVE ConserveInv
    BY Zenon
  <2>1. TypeOK /\ DOMAIN served = {} /\ items = {} /\ 0..(seq - 1) = {}
    BY InitType DEF Init
  <2> QED BY <2>1, Zenon DEF NoItemLost
<1>2. ConserveInv /\ [Next]_vars => ConserveInv'
  <2> SUFFICES ASSUME ConserveInv, [Next]_vars PROVE NoItemLost' /\ Below'
    BY TypeStep, Zenon
  <2>0. /\ seq \in Nat
        /\ \A it \in items : it.seq \in Nat /\ it.seq < seq
        /\ \A i \in DOMAIN served : served[i].item.seq \in Nat
    BY ServedFields, Zenon DEF TypeOK, Item
  <2>1. ASSUME NEW p \in Priorities, Enqueue(p) PROVE NoItemLost' /\ Below'
    <3> DEFINE new == [prio |-> p, seq |-> seq]
    <3>1. items' = items \cup {new} /\ seq' = seq + 1 /\ served' = served /\ new.seq = seq
      BY <2>1, Zenon DEF Enqueue
    <3> HIDE DEF new
    <3>2. \A s \in 0..(seq' - 1) : s \in 0..(seq - 1) \/ s = seq
      BY <2>0, <3>1
    <3>3. \A s \in 0..(seq' - 1) : \/ \E it \in items' : it.seq = s
                                   \/ \E i \in DOMAIN served' : served'[i].item.seq = s
      <4> TAKE s \in 0..(seq' - 1)
      <4>1. CASE s = seq
        BY <3>1, <4>1, Zenon
      <4>2. CASE s \in 0..(seq - 1)
        BY <3>1, <4>2, Zenon DEF NoItemLost
      <4> QED BY <3>2, <4>1, <4>2, Zenon
    <3>4. \A it \in items : it.seq # seq
      BY <2>0
    <3>5. \A i \in DOMAIN served : served[i].item.seq # seq
      BY <2>0
    <3>6. NoItemLost'
      BY <3>1, <3>3, <3>4, <3>5 DEF NoItemLost
    <3> QED BY <2>0, <3>1, <3>6
  <2>2. ASSUME popLocked, seq' = seq PROVE NoItemLost' /\ Below'
    <3>1. NoItemLost'
      BY <2>2, PopConserves, Zenon
    <3>2. Below'
      <4> DEFINE n == Len(served)
      <4>1. PICK it \in items :
                 /\ n \in Nat
                 /\ DOMAIN served = 1..n
                 /\ DOMAIN served' = 1..(n + 1)
                 /\ \A i \in 1..n : served'[i] = served[i]
                 /\ served'[n + 1] = [item |-> it, at |-> seq]
        BY <2>2, PopServes, Zenon
      <4> HIDE DEF n
      <4> SUFFICES ASSUME NEW i \in DOMAIN served' PROVE served'[i].item.seq < seq'
        BY Zenon
      <4>2. CASE i \in 1..n
        BY <2>2, <4>1, <4>2, Zenon
      <4>3. CASE i = n + 1
        BY <2>0, <2>2, <4>1, <4>3, SMTT(30)
      <4> QED BY <4>1, <4>2, <4>3
    <3> QED BY <3>1, <3>2, Zenon
  <2>3. ASSUME UNCHANGED <<items, seq, served>> PROVE NoItemLost' /\ Below'
    BY <2>3 DEF NoItemLost
  <2>4. CASE Dequeue
    BY <2>2, <2>4, Zenon DEF Dequeue
  <2>5. CASE Close
    BY <2>3, <2>5, Zenon DEF Close
  <2>6. ASSUME NEW c \in Callers, DequeueWait(c) PROVE NoItemLost' /\ Below'
    BY <2>2, <2>3, <2>6, Zenon DEF DequeueWait, TakeItem, GiveUp, KeepWaiting
  <2>7. ASSUME NEW c \in Callers, Call(c) \/ Wait(c) \/ Cancel(c) \/ BridgeBroadcast(c)
        PROVE  NoItemLost' /\ Below'
    BY <2>3, <2>7, Zenon DEF Call, Wait, Cancel, BridgeBroadcast
  <2>8. CASE UNCHANGED vars
    BY <2>3, <2>8, Zenon DEF vars
  <2> QED BY <2>1, <2>4, <2>5, <2>6, <2>7, <2>8, Zenon DEF Next
<1>3. ConserveInv => NoItemLost
  BY Zenon
<1> QED BY <1>1, <1>2, <1>3, PTL DEF Spec
=============================================================================
