------------------------------ MODULE JobQueue ------------------------------
(***************************************************************************)
(* The priority job queue of internal/queue/queue.go.                      *)
(*                                                                         *)
(* The queue is one mutex (mu), one condition variable (the notify list    *)
(* "parked") and a heap of items.  What makes it worth modelling is        *)
(* DequeueWait: it holds the mutex while it looks for an item, parks on    *)
(* the condition variable, and relies on a bridge goroutine to turn a      *)
(* cancelled context into a Broadcast.  The bridge does not take the       *)
(* mutex, so the gap between the last check and the registration on the    *)
(* notify list (pc = "checked") is a step of its own here.                 *)
(*                                                                         *)
(* The heap is the set of its items: container/heap hands out a minimum of *)
(* Less, and Less is a total order on items because seq is unique.         *)
(***************************************************************************)
EXTENDS Integers, Sequences, FiniteSets

CONSTANTS
    Callers,     \* goroutines that may be inside DequeueWait
    Priorities,  \* the Priority values in use, a set of integers
    MaxDepth,    \* the bound given to WithMaxDepth; 0 means unbounded
    MaxSeq       \* bound of the model: how many items are ever enqueued

ASSUME CallersFinite == IsFiniteSet(Callers)
ASSUME PrioritiesInt == Priorities \subseteq Int
ASSUME DepthNat == MaxDepth \in Nat
ASSUME MaxSeqNat == MaxSeq \in Nat

VARIABLES
    items,    \* the heap: items pushed and not yet popped
    seq,      \* the next sequence number
    closed,   \* Close has run
    held,     \* the mutex is held by the one caller whose pc is "checked"
    parked,   \* callers on the condition variable's notify list, oldest first
    pc,       \* where each caller is inside DequeueWait
    ctxDone,  \* the context of the caller's current call is done
    bridge,   \* the caller's bridge goroutine is still waiting for ctx.Done
    served    \* history: items popped, with the value of seq at that moment

vars == <<items, seq, closed, held, parked, pc, ctxDone, bridge, served>>

Item == [prio : Priorities, seq : Nat]

TypeOK ==
    /\ items \in SUBSET Item
    /\ seq \in Nat
    /\ \A it \in items : it.seq < seq
    /\ closed \in BOOLEAN
    /\ held \in BOOLEAN
    /\ parked \in Seq(Callers)
    /\ pc \in [Callers -> {"out", "enter", "checked", "parked", "woken"}]
    /\ ctxDone \in [Callers -> BOOLEAN]
    /\ bridge \in [Callers -> BOOLEAN]
    /\ served \in Seq([item : Item, at : Nat])

Init ==
    /\ items = {}
    /\ seq = 0
    /\ closed = FALSE
    /\ held = FALSE
    /\ parked = <<>>
    /\ pc = [c \in Callers |-> "out"]
    /\ ctxDone = [c \in Callers |-> FALSE]
    /\ bridge = [c \in Callers |-> FALSE]
    /\ served = <<>>

-----------------------------------------------------------------------------
(* Fault: newest first within a priority.                                  *)
LessNewestFirst(a, b) ==
    IF a.prio # b.prio THEN a.prio > b.prio ELSE a.seq > b.seq

(* itemHeap.Less: higher priority first, then the older item.              *)
Less(a, b) ==
    IF a.prio # b.prio THEN a.prio > b.prio ELSE a.seq < b.seq

(* popLocked: remove and hand out the least item.                          *)
popLocked ==
    \E it \in items :
        /\ \A other \in items \ {it} : Less(it, other)
        /\ items' = items \ {it}
        /\ served' = Append(served, [item |-> it, at |-> seq])

(* cond.Signal takes the oldest caller off the notify list, cond.Broadcast *)
(* takes all of them; each must then win the mutex again.                  *)
Signal ==
    IF parked = <<>>
    THEN UNCHANGED <<parked, pc>>
    ELSE /\ parked' = Tail(parked)
         /\ pc' = [pc EXCEPT ![Head(parked)] = "woken"]

Broadcast ==
    /\ parked' = <<>>
    /\ pc' = [c \in Callers |-> IF pc[c] = "parked" THEN "woken" ELSE pc[c]]

Full == MaxDepth > 0 /\ Cardinality(items) >= MaxDepth

-----------------------------------------------------------------------------
(* Faults: Enqueue wakes a caller only when the queue was empty; Close     *)
(* wakes nobody.                                                           *)
EnqueueSignalsEmptyOnly(p) ==
    /\ ~held /\ ~closed /\ ~Full /\ seq < MaxSeq
    /\ items' = items \cup {[prio |-> p, seq |-> seq]}
    /\ seq' = seq + 1
    /\ IF items = {} THEN Signal ELSE UNCHANGED <<parked, pc>>
    /\ UNCHANGED <<closed, held, ctxDone, bridge, served>>

CloseWithoutBroadcast ==
    /\ ~held /\ ~closed
    /\ closed' = TRUE
    /\ UNCHANGED <<items, seq, held, parked, pc, ctxDone, bridge, served>>

-----------------------------------------------------------------------------
(* A successful Enqueue.  A rejected one (ErrClosed, ErrQueueFull) returns  *)
(* before it changes anything.                                             *)
Enqueue(p) ==
    /\ ~held
    /\ ~closed
    /\ ~Full
    /\ seq < MaxSeq
    /\ items' = items \cup {[prio |-> p, seq |-> seq]}
    /\ seq' = seq + 1
    /\ Signal
    /\ UNCHANGED <<closed, held, ctxDone, bridge, served>>

(* The non-blocking Dequeue, when it finds an item.                        *)
Dequeue ==
    /\ ~held
    /\ popLocked
    /\ UNCHANGED <<seq, closed, held, parked, pc, ctxDone, bridge>>

(* DequeueWait is called with a fresh context and starts its bridge.       *)
Call(c) ==
    /\ pc[c] = "out"
    /\ pc' = [pc EXCEPT ![c] = "enter"]
    /\ ctxDone' = [ctxDone EXCEPT ![c] = FALSE]
    /\ bridge' = [bridge EXCEPT ![c] = TRUE]
    /\ UNCHANGED <<items, seq, closed, held, parked, served>>

(* DequeueWait returns: the deferred close(stop) ends the bridge.          *)
Return(c) ==
    /\ pc' = [pc EXCEPT ![c] = "out"]
    /\ bridge' = [bridge EXCEPT ![c] = FALSE]

(* One turn of DequeueWait's loop, which holds the mutex throughout.       *)
(* pc[c] is "enter" on the first turn and "woken" after cond.Wait.         *)
TakeItem(c) ==
    /\ popLocked
    /\ Return(c)
    /\ UNCHANGED held

GiveUp(c) ==
    /\ items = {}
    /\ closed \/ ctxDone[c]
    /\ Return(c)
    /\ UNCHANGED <<items, held, served>>

KeepWaiting(c) ==
    /\ items = {} /\ ~closed /\ ~ctxDone[c]
    /\ pc' = [pc EXCEPT ![c] = "checked"]
    /\ held' = TRUE
    /\ UNCHANGED <<items, bridge, served>>

DequeueWait(c) ==
    /\ ~held
    /\ pc[c] \in {"enter", "woken"}
    /\ TakeItem(c) \/ GiveUp(c) \/ KeepWaiting(c)
    /\ UNCHANGED <<seq, closed, parked, ctxDone>>

(* cond.Wait: join the notify list, then release the mutex.                *)
Wait(c) ==
    /\ pc[c] = "checked"
    /\ pc' = [pc EXCEPT ![c] = "parked"]
    /\ parked' = Append(parked, c)
    /\ held' = FALSE
    /\ UNCHANGED <<items, seq, closed, ctxDone, bridge, served>>

(* The caller's context is cancelled.                                      *)
Cancel(c) ==
    /\ pc[c] # "out" /\ ~ctxDone[c]
    /\ ctxDone' = [ctxDone EXCEPT ![c] = TRUE]
    /\ UNCHANGED <<items, seq, closed, held, parked, pc, bridge, served>>

(* The bridge goroutine broadcasts once, without the mutex, and exits.     *)
BridgeBroadcast(c) ==
    /\ bridge[c] /\ ctxDone[c]
    /\ bridge' = [bridge EXCEPT ![c] = FALSE]
    /\ Broadcast
    /\ UNCHANGED <<items, seq, closed, held, ctxDone, served>>

Close ==
    /\ ~held /\ ~closed
    /\ closed' = TRUE
    /\ Broadcast
    /\ UNCHANGED <<items, seq, held, ctxDone, bridge, served>>

Next ==
    \/ \E p \in Priorities : Enqueue(p)
    \/ Dequeue
    \/ Close
    \/ \E c \in Callers :
        Call(c) \/ DequeueWait(c) \/ Wait(c) \/ Cancel(c) \/ BridgeBroadcast(c)

(* A goroutine that can run does: the callers inside DequeueWait and their *)
(* bridges.  Taking the mutex is strongly fair: sync.Mutex hands itself to *)
(* a waiter that has starved for a millisecond.  Nothing makes anyone      *)
(* call, cancel, enqueue or close.                                         *)
Fairness ==
    \A c \in Callers :
        /\ SF_vars(DequeueWait(c))
        /\ WF_vars(Wait(c))
        /\ WF_vars(BridgeBroadcast(c))

Spec == Init /\ [][Next]_vars
FairSpec == Spec /\ Fairness

-----------------------------------------------------------------------------
Woken == {c \in Callers : pc[c] = "woken"}

(* No lost wakeup: as long as somebody is parked, every queued item has a  *)
(* caller already taken off the notify list that will look at the heap.    *)
(* Enqueue's single Signal per item (queue.go:161-164) is enough only if   *)
(* this holds over every interleaving with entering and cancelled callers. *)
NoLostWakeup == parked # <<>> => Cardinality(items) <= Cardinality(Woken)

(* The notify list and the callers' positions agree, and the mutex is held *)
(* exactly while one caller is between its last check and cond.Wait.       *)
NotifyListExact ==
    /\ \A c \in Callers : pc[c] = "parked" <=> \E i \in DOMAIN parked : parked[i] = c
    /\ \A i, j \in DOMAIN parked : parked[i] = parked[j] => i = j
    /\ held <=> \E c \in Callers : pc[c] = "checked"
    /\ \A c, d \in Callers : pc[c] = "checked" /\ pc[d] = "checked" => c = d
    /\ held => items = {}

(* Priority order with FIFO within a priority, over the whole history: an  *)
(* item served later comes first by (priority, age) only if it was         *)
(* enqueued after the other had left (itemHeap.Less, Enqueue's seq).       *)
ServedInOrder ==
    \A i, j \in DOMAIN served :
        LET early == served[i].item
            late == served[j].item
        IN  /\ i < j
            /\ late.prio > early.prio \/ (late.prio = early.prio /\ late.seq < early.seq)
            => late.seq >= served[i].at

(* Nothing is lost and nothing is handed out twice: every sequence number  *)
(* Enqueue gave out belongs to one queued item or to one served item.      *)
NoItemLost ==
    /\ \A s \in 0..(seq - 1) : \/ \E it \in items : it.seq = s
                               \/ \E i \in DOMAIN served : served[i].item.seq = s
    /\ \A it, other \in items : it.seq = other.seq => it = other
    /\ \A it \in items : \A i \in DOMAIN served : it.seq # served[i].item.seq
    /\ \A i, j \in DOMAIN served : served[i].item.seq = served[j].item.seq => i = j

(* A bounded queue never holds more than WithMaxDepth allows.              *)
WithinDepth == MaxDepth > 0 => Cardinality(items) <= MaxDepth

(* Close never leaks a blocked goroutine (queue.go:240-243): whoever is    *)
(* inside DequeueWait when the queue closes returns.                       *)
CloseReleases ==
    \A c \in Callers : (closed /\ pc[c] # "out") ~> pc[c] = "out"

=============================================================================
