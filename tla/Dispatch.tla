------------------------------ MODULE Dispatch ------------------------------
(***************************************************************************)
(* The job dispatcher of internal/server/server.go: worker streams and     *)
(* their registry, the synchronous fast path and the queued path of        *)
(* submit, the placement loop, stale eviction, drain with a deadline, and  *)
(* Close.                                                                  *)
(*                                                                         *)
(* A "handle" is one *worker value, created by one Connect call; two       *)
(* handles with the same IdOf are the same worker before and after a       *)
(* reconnect.  Every step below is what the code does between two places   *)
(* where another goroutine can run: one critical section, one channel      *)
(* operation, or one select.  Time is abstract: a handle may become stale  *)
(* at any moment and a heartbeat makes it fresh again; a timer or ticker   *)
(* may fire at any moment.  A capacity signal only wakes the placement     *)
(* loop before its next tick, which may come at any moment as well, so     *)
(* signalCapacity adds no behaviour and has no variable.                   *)
(*                                                                         *)
(* Left to other modules: which of the runnable workers the scheduler      *)
(* prefers (any of them here), chunks and live streams (a worker answers   *)
(* with one result here), sessions, quota.                                 *)
(***************************************************************************)
EXTENDS Integers, FiniteSets

CONSTANTS
    Jobs,      \* job ids; each is submitted once (ids are random in the code)
    Handles,   \* Connect calls
    Ids,       \* worker ids
    IdOf,      \* [Handles -> Ids]
    Models,    \* model names
    ModelOf,   \* [Jobs -> Models]
    PrioOf,    \* [Jobs -> Int], the queue priority of a job
    Reports,   \* what a heartbeat may report: [models, vram] records
    SendCap,   \* capacity of a worker's send channel (16 in the code)
    MaxDepth,  \* bound of the job queue, 0 for unbounded
    Env,       \* bound: which events of the environment may happen
    None

Report == [models : SUBSET Models, vram : BOOLEAN]

ASSUME HandleIds == IdOf \in [Handles -> Ids] /\ Handles \cap Ids = {}
ASSUME JobModels == ModelOf \in [Jobs -> Models] /\ PrioOf \in [Jobs -> Int]
ASSUME ReportTypes == Reports \subseteq Report
ASSUME Bounds == SendCap \in Nat /\ MaxDepth \in Nat
ASSUME EnvKinds ==
    Env \subseteq {"heartbeat", "miss", "deregister", "drop", "drain", "cancel", "close"}
ASSUME NoneFresh == None \notin Handles \cup Ids \cup Jobs

WorkerCodes == {"ok", "job_error"}
DropCodes == {"worker_disconnected", "worker_stale", "worker_evicted"}
CallCodes == {"ctx", "dispatch_failed", "shutting_down", "queue_full",
              "model_unavailable"}
Outcomes == WorkerCodes \cup DropCodes \cup CallCodes
Chan == Outcomes \cup {"empty"}  \* a result channel of capacity 1

VARIABLES
    \* the registry and, per handle, the state of its stream
    registry,   \* s.workers: Ids -> a handle or None
    nextSes,    \* s.nextSes
    ses,        \* the session number addWorker gave the handle
    conn,       \* progress of the Connect call
    ackFirst,   \* RegisterAck is the first message of the stream
    cancelled,  \* w.ctx is cancelled
    draining,   \* w.draining
    stale,      \* now - w.lastHeartbeat > heartbeatTimeout
    report,     \* models and free VRAM the handle last reported
    pending,    \* keys of w.pending
    sendq,      \* jobs in w.send; their order does not matter here
    running,    \* jobs the worker process has received
    \* per job: the dispatch in progress, run by the caller or by placeItem
    step,       \* where pickWorker/dispatchTo stands
    target,     \* the id picked, then the handle it resolved to
    resCh,      \* the channel addPending made
    \* the queued path
    waiters,    \* keys of s.waiters
    waitCh,     \* the channel addWaiter made
    queue,      \* queued jobs
    enqSeq,     \* the sequence number Enqueue gave each job
    nextSeq,    \* the queue's next sequence number
    placing,    \* the job placeItem is working on
    placeDone,  \* placeLoop has returned
    \* callers
    caller,     \* where submit stands
    ctxDone,    \* the caller's context is done
    outcome,    \* what submit returned
    executed,   \* history: jobs a worker ran to success
    \* background goroutines
    evictTodo,  \* stale handles evictStale collected and has yet to evict
    evictFail,  \* the one it has removed and whose jobs it has yet to fail
    evictDone,  \* evictLoop has returned
    reaper,     \* the drain reaper of each handle
    closer      \* progress of Close

registryVars == <<registry, nextSes, ses>>
streamVars == <<conn, ackFirst, cancelled, draining, stale, report>>
jobVars == <<pending, sendq, running, executed>>
dispatchVars == <<step, target, resCh>>
queueVars == <<waiters, waitCh, queue, enqSeq, nextSeq, placing, placeDone>>
callerVars == <<caller, ctxDone, outcome>>
evictVars == <<evictTodo, evictFail, evictDone>>
vars == <<registryVars, streamVars, jobVars, dispatchVars, queueVars, callerVars, evictVars, reaper, closer>>

Steps == {"none", "pick", "check", "add", "send", "await", "park"}
CallerStates == {"idle", "called", "dispatch", "enqueue", "offer", "wait", "done"}
ConnStates == {"new", "acking", "live", "leaving", "removed", "gone"}
ReaperStates == {"none", "waiting", "evict", "fail", "done"}
CloserStates == {"open", "evictStopped", "placeStopped", "queueClosed", "closed"}

StreamTypes ==
    /\ registry \in [Ids -> Handles \cup {None}]
    /\ nextSes \in Nat
    /\ ses \in [Handles -> Nat]
    /\ conn \in [Handles -> ConnStates]
    /\ ackFirst \in [Handles -> BOOLEAN]
    /\ cancelled \in [Handles -> BOOLEAN]
    /\ draining \in [Handles -> BOOLEAN]
    /\ stale \in [Handles -> BOOLEAN]
    /\ report \in [Handles -> Report]
    /\ reaper \in [Handles -> ReaperStates]

JobTypes ==
    /\ pending \in [Handles -> SUBSET Jobs]
    /\ sendq \in [Handles -> SUBSET Jobs]
    /\ running \in [Handles -> SUBSET Jobs]
    /\ executed \in SUBSET Jobs
    /\ step \in [Jobs -> Steps]
    /\ target \in [Jobs -> Ids \cup Handles \cup {None}]
    /\ \A j \in Jobs : /\ step[j] = "check" => target[j] \in Ids
                       /\ step[j] \in {"add", "send", "await"} => target[j] \in Handles
    /\ resCh \in [Jobs -> Chan]

CallerTypes ==
    /\ caller \in [Jobs -> CallerStates]
    /\ ctxDone \in [Jobs -> BOOLEAN]
    /\ outcome \in [Jobs -> Chan]
    /\ waiters \in SUBSET Jobs
    /\ waitCh \in [Jobs -> Chan]
    /\ queue \in SUBSET Jobs
    /\ enqSeq \in [Jobs -> Nat]
    /\ nextSeq \in Nat

LoopTypes ==
    /\ placing \in Jobs \cup {None}
    /\ placeDone \in BOOLEAN
    /\ evictTodo \in SUBSET Handles
    /\ evictFail \in Handles \cup {None}
    /\ evictDone \in BOOLEAN
    /\ closer \in CloserStates

(* Every variable stays in its type; a dispatch that has picked an id or a *)
(* handle really has one.                                                  *)
TypeOK == StreamTypes /\ JobTypes /\ CallerTypes /\ LoopTypes

Init ==
    /\ registry = [i \in Ids |-> None]
    /\ nextSes = 0
    /\ ses = [h \in Handles |-> 0]
    /\ conn = [h \in Handles |-> "new"]
    /\ ackFirst = [h \in Handles |-> TRUE]
    /\ cancelled = [h \in Handles |-> FALSE]
    /\ draining = [h \in Handles |-> FALSE]
    /\ stale = [h \in Handles |-> FALSE]
    /\ report = [h \in Handles |-> [models |-> {}, vram |-> FALSE]]
    /\ pending = [h \in Handles |-> {}]
    /\ sendq = [h \in Handles |-> {}]
    /\ running = [h \in Handles |-> {}]
    /\ executed = {}
    /\ step = [j \in Jobs |-> "none"]
    /\ target = [j \in Jobs |-> None]
    /\ resCh = [j \in Jobs |-> "empty"]
    /\ waiters = {}
    /\ waitCh = [j \in Jobs |-> "empty"]
    /\ queue = {}
    /\ enqSeq = [j \in Jobs |-> 0]
    /\ nextSeq = 0
    /\ placing = None
    /\ placeDone = FALSE
    /\ caller = [j \in Jobs |-> "idle"]
    /\ ctxDone = [j \in Jobs |-> FALSE]
    /\ outcome = [j \in Jobs |-> "empty"]
    /\ evictTodo = {}
    /\ evictFail = None
    /\ evictDone = FALSE
    /\ reaper = [h \in Handles |-> "none"]
    /\ closer = "open"

-----------------------------------------------------------------------------
(* What the handle lets the dispatcher see.  Draining hides staleness in   *)
(* the status of a snapshot, so a draining worker counts as serving.       *)
Available(h) == ~draining[h] /\ ~stale[h]

Runnable(h, m) == Available(h) /\ (m \in report[h].models \/ report[h].vram)

Fleet == {registry[i] : i \in Ids} \ {None}

ModelServed(m) ==
    \E h \in Fleet : (draining[h] \/ ~stale[h]) /\ m \in report[h].models

placeStop == closer \in {"placeStopped", "queueClosed", "closed"}
queueClosed == closer \in {"queueClosed", "closed"}

(* dispatchTo runs with the caller's context on the fast path and with the *)
(* placement loop's context for a queued job.                              *)
DispatchCtxDone(j) == IF placing = j THEN placeStop ELSE ctxDone[j]

addWorker(h) ==
    /\ registry' = [registry EXCEPT ![IdOf[h]] = h]
    /\ nextSes' = nextSes + 1
    /\ ses' = [ses EXCEPT ![h] = nextSes']

applyHeartbeat(h, r) ==
    /\ stale' = [stale EXCEPT ![h] = FALSE]
    /\ report' = [report EXCEPT ![h] = r]

markDraining(h) == draining' = [draining EXCEPT ![h] = TRUE]

(* resolve: a result whose job is no longer pending is dropped.            *)
resolve(h, j, code) ==
    /\ pending' = [pending EXCEPT ![h] = @ \ {j}]
    /\ resCh' = IF j \in pending[h] THEN [resCh EXCEPT ![j] = code] ELSE resCh

(* Fault: the jobs are failed and stay in the pending map.                 *)
failAllPendingKeeps(h, code) ==
    /\ resCh' = [j \in Jobs |-> IF j \in pending[h] THEN code ELSE resCh[j]]
    /\ pending' = pending

(* failAllPending: every pending job of h gets code, none stays pending.   *)
failAllPending(h, code) ==
    /\ resCh' = [j \in Jobs |-> IF j \in pending[h] THEN code ELSE resCh[j]]
    /\ pending' = [pending EXCEPT ![h] = {}]

(* Fault: delete by id, whichever handle has it now.                       *)
deleteById(h) == registry' = [registry EXCEPT ![IdOf[h]] = None]

(* The guarded delete of evictWorker and removeWorker.                     *)
deleteIfCurrent(h) ==
    registry' = IF registry[IdOf[h]] = h
                THEN [registry EXCEPT ![IdOf[h]] = None]
                ELSE registry

resolveWaiter(j, code) ==
    /\ waiters' = waiters \ {j}
    /\ waitCh' = IF j \in waiters THEN [waitCh EXCEPT ![j] = code] ELSE waitCh

submitReturns(j, code) ==
    /\ caller' = [caller EXCEPT ![j] = "done"]
    /\ outcome' = [outcome EXCEPT ![j] = code]

-----------------------------------------------------------------------------
(* Worker streams                                                          *)

(* Connect registers the handle under a new session number, replacing      *)
(* whatever handle had the id.  From here on it can be picked.             *)
Register(h) ==
    /\ conn[h] = "new"
    /\ conn' = [conn EXCEPT ![h] = "acking"]
    /\ addWorker(h)
    /\ \E r \in Reports : report' = [report EXCEPT ![h] = [models |-> r.models, vram |-> FALSE]]
    /\ UNCHANGED <<ackFirst, cancelled, draining, stale, jobVars, dispatchVars,
                   queueVars, callerVars, evictVars, reaper, closer>>

(* Connect puts RegisterAck on the send channel, behind whatever is there  *)
(* already; it wakes the placement loop and starts the stream's loops.     *)
SendAck(h) ==
    /\ conn[h] = "acking"
    /\ Cardinality(sendq[h]) < SendCap
    /\ conn' = [conn EXCEPT ![h] = "live"]
    /\ ackFirst' = [ackFirst EXCEPT ![h] = sendq[h] = {}]
    /\ UNCHANGED <<registryVars, cancelled, draining, stale, report, jobVars,
                   dispatchVars, queueVars, callerVars, evictVars, reaper, closer>>

(* The worker serves the stream: it got RegisterAck as its first message.  *)
Serving(h) == conn[h] = "live" /\ ackFirst[h]

Heartbeat(h) ==
    /\ Serving(h)
    /\ \E r \in Reports : applyHeartbeat(h, r)
    /\ UNCHANGED <<registryVars, conn, ackFirst, cancelled, draining, jobVars,
                   dispatchVars, queueVars, callerVars, evictVars, reaper, closer>>

(* heartbeatTimeout passes without a heartbeat.                            *)
MissHeartbeats(h) ==
    /\ conn[h] # "new" /\ ~stale[h]
    /\ stale' = [stale EXCEPT ![h] = TRUE]
    /\ UNCHANGED <<registryVars, conn, ackFirst, cancelled, draining, report,
                   jobVars, dispatchVars, queueVars, callerVars,
                   evictVars, reaper, closer>>

(* The writer goroutine sends a job down the stream; a worker that does    *)
(* not get RegisterAck first gives the stream up instead of running it.    *)
WriterSend(h) ==
    /\ conn[h] \in {"live", "leaving", "removed"}
    /\ \E j \in sendq[h] :
        /\ sendq' = [sendq EXCEPT ![h] = @ \ {j}]
        /\ running' = IF Serving(h) THEN [running EXCEPT ![h] = @ \cup {j}] ELSE running
    /\ UNCHANGED <<registryVars, streamVars, pending, executed, dispatchVars,
                   queueVars, callerVars, evictVars, reaper, closer>>

(* The reader loop receives the result of a job: resolve, then signal.     *)
Result(h, j, code) ==
    /\ Serving(h)
    /\ j \in running[h]
    /\ running' = [running EXCEPT ![h] = @ \ {j}]
    /\ executed' = IF code = "ok" THEN executed \cup {j} ELSE executed
    /\ resolve(h, j, code)
    /\ UNCHANGED <<registryVars, streamVars, sendq, step, target, queueVars,
                   callerVars, evictVars, reaper, closer>>

(* The worker announces a graceful shutdown.                               *)
Deregister(h) ==
    /\ Serving(h) /\ ~draining[h]
    /\ markDraining(h)
    /\ UNCHANGED <<registryVars, conn, ackFirst, cancelled, stale, report,
                   jobVars, dispatchVars, queueVars, callerVars,
                   evictVars, reaper, closer>>

(* The reader loop returns: the stream broke or ended, the worker broke    *)
(* the protocol, or the handle was cancelled.                              *)
ReaderExit(h) ==
    /\ conn[h] = "live"
    /\ conn' = [conn EXCEPT ![h] = "leaving"]
    /\ UNCHANGED <<registryVars, ackFirst, cancelled, draining, stale, report,
                   jobVars, dispatchVars, queueVars, callerVars,
                   evictVars, reaper, closer>>

(* The deferred removeWorker: its critical section on the registry, then   *)
(* failAllPending; the deferred cancel runs last.                          *)
RemoveFromRegistry(h) ==
    /\ conn[h] = "leaving"
    /\ conn' = [conn EXCEPT ![h] = "removed"]
    /\ deleteIfCurrent(h)
    /\ UNCHANGED <<nextSes, ses, ackFirst, cancelled, draining, stale, report,
                   jobVars, dispatchVars, queueVars, callerVars,
                   evictVars, reaper, closer>>

RemoveFailPending(h) ==
    /\ conn[h] = "removed"
    /\ conn' = [conn EXCEPT ![h] = "gone"]
    /\ cancelled' = [cancelled EXCEPT ![h] = TRUE]
    /\ failAllPending(h, "worker_disconnected")
    /\ UNCHANGED <<registryVars, ackFirst, draining, stale, report, sendq, running,
                   executed, step, target, queueVars, callerVars,
                   evictVars, reaper, closer>>

-----------------------------------------------------------------------------
(* submit, and the dispatch it shares with placeItem                       *)

Submit(j) ==
    /\ caller[j] = "idle"
    /\ caller' = [caller EXCEPT ![j] = "called"]
    /\ UNCHANGED <<registryVars, streamVars, jobVars, dispatchVars, queueVars,
                   ctxDone, outcome, evictVars, reaper, closer>>

(* The caller's context is cancelled or times out.                         *)
CancelCaller(j) ==
    /\ caller[j] \notin {"idle", "done"} /\ ~ctxDone[j]
    /\ ctxDone' = [ctxDone EXCEPT ![j] = TRUE]
    /\ UNCHANGED <<registryVars, streamVars, jobVars, dispatchVars, queueVars,
                   caller, outcome, evictVars, reaper, closer>>

(* The fail-fast gate on the model.                                        *)
CheckServed(j) ==
    /\ caller[j] = "called"
    /\ \/ /\ ~ModelServed(ModelOf[j])
          /\ submitReturns(j, "model_unavailable")
          /\ UNCHANGED step
       \/ /\ ModelServed(ModelOf[j])
          /\ caller' = [caller EXCEPT ![j] = "dispatch"]
          /\ step' = [step EXCEPT ![j] = "pick"]
          /\ UNCHANGED outcome
    /\ UNCHANGED <<registryVars, streamVars, jobVars, target, resCh, queueVars,
                   ctxDone, evictVars, reaper, closer>>

(* pickWorker found nothing: submit goes on to queue the job, placeItem    *)
(* parks.                                                                  *)
NoWorker(j) ==
    /\ target' = [target EXCEPT ![j] = None]
    /\ IF placing = j
       THEN step' = [step EXCEPT ![j] = "park"] /\ UNCHANGED caller
       ELSE /\ step' = [step EXCEPT ![j] = "none"]
            /\ caller' = [caller EXCEPT ![j] = "enqueue"]

(* pickWorker's first half: the scheduler picks from a snapshot.           *)
PickFromSnapshot(j) ==
    /\ step[j] = "pick"
    /\ LET fit == {i \in Ids : registry[i] # None /\ Runnable(registry[i], ModelOf[j])}
       IN  \/ \E i \in fit :
                /\ target' = [target EXCEPT ![j] = i]
                /\ step' = [step EXCEPT ![j] = "check"]
                /\ UNCHANGED caller
           \/ fit = {} /\ NoWorker(j)
    /\ UNCHANGED <<registryVars, streamVars, jobVars, resCh, queueVars, ctxDone, outcome, evictVars, reaper, closer>>

(* Its second half: resolve the id to a live handle and check that handle. *)
ResolveHandle(j) ==
    /\ step[j] = "check"
    /\ LET h == registry[target[j]]
       IN  IF h # None /\ Available(h)
           THEN /\ target' = [target EXCEPT ![j] = h]
                /\ step' = [step EXCEPT ![j] = "add"]
                /\ UNCHANGED caller
           ELSE NoWorker(j)
    /\ UNCHANGED <<registryVars, streamVars, jobVars, resCh, queueVars, ctxDone, outcome, evictVars, reaper, closer>>

AddPending(j) ==
    /\ step[j] = "add"
    /\ pending' = [pending EXCEPT ![target[j]] = @ \cup {j}]
    /\ resCh' = [resCh EXCEPT ![j] = "empty"]
    /\ step' = [step EXCEPT ![j] = "send"]
    /\ UNCHANGED <<registryVars, streamVars, sendq, running, executed, target,
                   queueVars, callerVars, evictVars, reaper, closer>>

SendJob(j) ==
    /\ step[j] = "send"
    /\ Cardinality(sendq[target[j]]) < SendCap
    /\ sendq' = [sendq EXCEPT ![target[j]] = @ \cup {j}]
    /\ step' = [step EXCEPT ![j] = "await"]
    /\ UNCHANGED <<registryVars, streamVars, pending, running, executed, target,
                   resCh, queueVars, callerVars, evictVars, reaper, closer>>

(* Fault: placeItem forgets that the dispatch failed.                      *)
DispatchErrorLost(j, code) ==
    /\ step' = [step EXCEPT ![j] = "none"]
    /\ target' = [target EXCEPT ![j] = None]
    /\ IF placing = j
       THEN /\ resolveWaiter(j, "ok")
            /\ placing' = None
            /\ UNCHANGED <<caller, outcome>>
       ELSE submitReturns(j, code) /\ UNCHANGED <<waiters, waitCh, placing>>

(* dispatchTo returned code: to submit's caller, or through the waiter,    *)
(* where jobErr has replaced a context error.                              *)
DispatchReturns(j, code) ==
    /\ step' = [step EXCEPT ![j] = "none"]
    /\ target' = [target EXCEPT ![j] = None]
    /\ IF placing = j
       THEN /\ resolveWaiter(j, IF code = "ctx" THEN "dispatch_failed" ELSE code)
            /\ placing' = None
            /\ UNCHANGED <<caller, outcome>>
       ELSE submitReturns(j, code) /\ UNCHANGED <<waiters, waitCh, placing>>

DispatchCancel(j) ==
    /\ step[j] \in {"send", "await"}
    /\ DispatchCtxDone(j)
    /\ pending' = [pending EXCEPT ![target[j]] = @ \ {j}]
    /\ DispatchReturns(j, "ctx")
    /\ UNCHANGED <<registryVars, streamVars, sendq, running, executed, resCh, queue,
                   enqSeq, nextSeq, placeDone, ctxDone, evictVars,
                   reaper, closer>>

DispatchResult(j) ==
    /\ step[j] = "await"
    /\ resCh[j] # "empty"
    /\ resCh' = [resCh EXCEPT ![j] = "empty"]
    /\ DispatchReturns(j, resCh[j])
    /\ UNCHANGED <<registryVars, streamVars, jobVars, queue, enqSeq, nextSeq,
                   placeDone, ctxDone, evictVars, reaper, closer>>

(* The queued path of submit: waiter first, then the queue.                *)
AddWaiter(j) ==
    /\ caller[j] = "enqueue"
    /\ caller' = [caller EXCEPT ![j] = "offer"]
    /\ waiters' = waiters \cup {j}
    /\ waitCh' = [waitCh EXCEPT ![j] = "empty"]
    /\ UNCHANGED <<registryVars, streamVars, jobVars, dispatchVars, queue, enqSeq,
                   nextSeq, placing, placeDone, ctxDone, outcome,
                   evictVars, reaper, closer>>

QueueFull == MaxDepth > 0 /\ Cardinality(queue) >= MaxDepth

EnqueueRejected(j) ==
    /\ caller[j] = "offer"
    /\ queueClosed \/ QueueFull
    /\ waiters' = waiters \ {j}
    /\ submitReturns(j, IF queueClosed THEN "shutting_down" ELSE "queue_full")
    /\ UNCHANGED <<registryVars, streamVars, jobVars, dispatchVars, waitCh, queue,
                   enqSeq, nextSeq, placing, placeDone, ctxDone,
                   evictVars, reaper, closer>>

(* Fault: a closed queue still takes items.                                *)
EnqueueWhenClosed(j) ==
    /\ caller[j] = "offer"
    /\ ~QueueFull
    /\ caller' = [caller EXCEPT ![j] = "wait"]
    /\ queue' = queue \cup {j}
    /\ enqSeq' = [enqSeq EXCEPT ![j] = nextSeq]
    /\ nextSeq' = nextSeq + 1
    /\ UNCHANGED <<registryVars, streamVars, jobVars, dispatchVars, waiters, waitCh,
                   placing, placeDone, ctxDone, outcome, evictVars, reaper, closer>>

Enqueue(j) ==
    /\ caller[j] = "offer"
    /\ ~queueClosed /\ ~QueueFull
    /\ caller' = [caller EXCEPT ![j] = "wait"]
    /\ queue' = queue \cup {j}
    /\ enqSeq' = [enqSeq EXCEPT ![j] = nextSeq]
    /\ nextSeq' = nextSeq + 1
    /\ UNCHANGED <<registryVars, streamVars, jobVars, dispatchVars, waiters, waitCh,
                   placing, placeDone, ctxDone, outcome, evictVars, reaper, closer>>

WaitResult(j) ==
    /\ caller[j] = "wait"
    /\ waitCh[j] # "empty"
    /\ submitReturns(j, waitCh[j])
    /\ waitCh' = [waitCh EXCEPT ![j] = "empty"]
    /\ UNCHANGED <<registryVars, streamVars, jobVars, dispatchVars, waiters, queue,
                   enqSeq, nextSeq, placing, placeDone, ctxDone,
                   evictVars, reaper, closer>>

WaitCancel(j) ==
    /\ caller[j] = "wait"
    /\ ctxDone[j]
    /\ waiters' = waiters \ {j}
    /\ submitReturns(j, "ctx")
    /\ UNCHANGED <<registryVars, streamVars, jobVars, dispatchVars, waitCh, queue,
                   enqSeq, nextSeq, placing, placeDone, ctxDone,
                   evictVars, reaper, closer>>

-----------------------------------------------------------------------------
(* The placement loop                                                      *)

(* j is the item the queue would pop: highest priority, then oldest.       *)
Front(j) ==
    /\ j \in queue
    /\ \A k \in queue : \/ PrioOf[k] < PrioOf[j]
                        \/ PrioOf[k] = PrioOf[j] /\ enqSeq[j] <= enqSeq[k]

(* Fault: the item is looked at and not removed.                           *)
PlacePeek(j) ==
    /\ ~placeDone /\ placing = None
    /\ Front(j)
    /\ placing' = j
    /\ step' = [step EXCEPT ![j] = "pick"]
    /\ UNCHANGED <<registryVars, streamVars, jobVars, target, resCh, waiters, waitCh,
                   queue, enqSeq, nextSeq, placeDone, callerVars,
                   evictVars, reaper, closer>>

(* DequeueWait gives an item out even when the loop is being stopped.      *)
PlaceDequeue(j) ==
    /\ ~placeDone /\ placing = None
    /\ Front(j)
    /\ queue' = queue \ {j}
    /\ placing' = j
    /\ step' = [step EXCEPT ![j] = "pick"]
    /\ UNCHANGED <<registryVars, streamVars, jobVars, target, resCh, waiters, waitCh,
                   enqSeq, nextSeq, placeDone, callerVars, evictVars,
                   reaper, closer>>

PlaceLoopExit ==
    /\ ~placeDone /\ placing = None
    /\ queue = {}
    /\ placeStop
    /\ placeDone' = TRUE
    /\ UNCHANGED <<registryVars, streamVars, jobVars, dispatchVars, waiters, waitCh,
                   queue, enqSeq, nextSeq, placing, callerVars,
                   evictVars, reaper, closer>>

(* placeItem parked: a capacity signal, a tick, or the loop's context.     *)
ParkWake(j) ==
    /\ step[j] = "park"
    /\ step' = [step EXCEPT ![j] = "pick"]
    /\ UNCHANGED <<registryVars, streamVars, jobVars, target, resCh, queueVars,
                   callerVars, evictVars, reaper, closer>>

(* Fault: the parked placement waits for the end of its own loop.          *)
ParkStopTooLate(j) ==
    /\ step[j] = "park"
    /\ placeDone
    /\ step' = [step EXCEPT ![j] = "none"]
    /\ placing' = None
    /\ resolveWaiter(j, "shutting_down")
    /\ UNCHANGED <<registryVars, streamVars, jobVars, target, resCh, queue, enqSeq,
                   nextSeq, placeDone, callerVars, evictVars, reaper, closer>>

ParkStop(j) ==
    /\ step[j] = "park"
    /\ placeStop
    /\ step' = [step EXCEPT ![j] = "none"]
    /\ placing' = None
    /\ resolveWaiter(j, "shutting_down")
    /\ UNCHANGED <<registryVars, streamVars, jobVars, target, resCh, queue, enqSeq,
                   nextSeq, placeDone, callerVars, evictVars, reaper,
                   closer>>

-----------------------------------------------------------------------------
(* Stale eviction, drain, Close                                            *)

EvictScan ==
    /\ ~evictDone /\ evictTodo = {} /\ evictFail = None
    /\ evictTodo' = {h \in Fleet : stale[h]}
    /\ UNCHANGED <<registryVars, streamVars, jobVars, dispatchVars, queueVars,
                   callerVars, evictFail, evictDone, reaper, closer>>

(* evictWorker on one collected handle: its two critical sections.  The    *)
(* handle is not looked at again, and its stream is left open.             *)
EvictDelete(h) ==
    /\ h \in evictTodo /\ evictFail = None
    /\ evictTodo' = evictTodo \ {h}
    /\ evictFail' = h
    /\ deleteIfCurrent(h)
    /\ UNCHANGED <<nextSes, ses, streamVars, jobVars, dispatchVars, queueVars,
                   callerVars, evictDone, reaper, closer>>

EvictFailPending ==
    /\ evictFail # None
    /\ evictFail' = None
    /\ failAllPending(evictFail, "worker_stale")
    /\ UNCHANGED <<registryVars, streamVars, sendq, running, executed, step, target,
                   queueVars, callerVars, evictTodo, evictDone, reaper,
                   closer>>

EvictLoopExit ==
    /\ ~evictDone /\ evictTodo = {} /\ evictFail = None
    /\ closer # "open"
    /\ evictDone' = TRUE
    /\ UNCHANGED <<registryVars, streamVars, jobVars, dispatchVars, queueVars,
                   callerVars, evictTodo, evictFail, reaper, closer>>

(* DrainWorkerWithDeadline: soft, or with a reaper (one per handle here).  *)
DrainWorker(h) ==
    /\ registry[IdOf[h]] = h
    /\ markDraining(h)
    /\ \/ UNCHANGED reaper
       \/ reaper[h] = "none" /\ reaper' = [reaper EXCEPT ![h] = "waiting"]
    /\ UNCHANGED <<registryVars, conn, ackFirst, cancelled, stale, report, jobVars,
                   dispatchVars, queueVars, callerVars, evictVars, closer>>

(* The reaper's select: the stream is gone, or the deadline passed or a    *)
(* tick found no job in flight (the deadline may pass at any moment).      *)
ReapWake(h) ==
    /\ reaper[h] = "waiting"
    /\ \/ cancelled[h] /\ reaper' = [reaper EXCEPT ![h] = "done"]
       \/ reaper' = [reaper EXCEPT ![h] = "evict"]
    /\ UNCHANGED <<registryVars, streamVars, jobVars, dispatchVars, queueVars,
                   callerVars, evictVars, closer>>

(* forceEvictWorker: evictWorker's two critical sections, then cancel.     *)
ReapDelete(h) ==
    /\ reaper[h] = "evict"
    /\ reaper' = [reaper EXCEPT ![h] = "fail"]
    /\ deleteIfCurrent(h)
    /\ UNCHANGED <<nextSes, ses, streamVars, jobVars, dispatchVars, queueVars,
                   callerVars, evictVars, closer>>

ReapFailPending(h) ==
    /\ reaper[h] = "fail"
    /\ reaper' = [reaper EXCEPT ![h] = "done"]
    /\ failAllPending(h, "worker_evicted")
    /\ cancelled' = [cancelled EXCEPT ![h] = TRUE]
    /\ UNCHANGED <<registryVars, conn, ackFirst, draining, stale, report, sendq,
                   running, executed, step, target, queueVars, callerVars, evictVars, closer>>

(* Close, one step per channel it closes or waits for.                     *)
CloseStart ==
    /\ closer = "open"
    /\ closer' = "evictStopped"
    /\ UNCHANGED <<registryVars, streamVars, jobVars, dispatchVars, queueVars,
                   callerVars, evictVars, reaper>>

CloseLoops ==
    /\ \/ closer = "evictStopped" /\ evictDone /\ closer' = "placeStopped"
       \/ closer = "placeStopped" /\ closer' = "queueClosed"
    /\ UNCHANGED <<registryVars, streamVars, jobVars, dispatchVars, queueVars,
                   callerVars, evictVars, reaper>>

CloseWaiters ==
    /\ closer = "queueClosed" /\ placeDone
    /\ closer' = "closed"
    /\ waitCh' = [j \in Jobs |-> IF j \in waiters THEN "shutting_down" ELSE waitCh[j]]
    /\ waiters' = {}
    /\ UNCHANGED <<registryVars, streamVars, jobVars, dispatchVars, queue, enqSeq,
                   nextSeq, placing, placeDone, callerVars, evictVars,
                   reaper>>

-----------------------------------------------------------------------------
StreamStep(h) ==
    \/ Register(h) \/ SendAck(h) \/ WriterSend(h)
    \/ "heartbeat" \in Env /\ Heartbeat(h)
    \/ "miss" \in Env /\ MissHeartbeats(h)
    \/ "deregister" \in Env /\ Deregister(h)
    \/ ("drop" \in Env \/ cancelled[h] \/ ~ackFirst[h]) /\ ReaderExit(h)
    \/ RemoveFromRegistry(h) \/ RemoveFailPending(h)
    \/ \E j \in Jobs, code \in WorkerCodes : Result(h, j, code)

DispatchStep(j) ==
    \/ PickFromSnapshot(j) \/ ResolveHandle(j) \/ AddPending(j) \/ SendJob(j)
    \/ DispatchCancel(j) \/ DispatchResult(j)

CallerStep(j) ==
    \/ CheckServed(j) \/ AddWaiter(j) \/ EnqueueRejected(j) \/ Enqueue(j)
    \/ WaitResult(j) \/ WaitCancel(j)

PlaceStep == PlaceLoopExit \/ \E j \in Jobs : PlaceDequeue(j) \/ ParkWake(j) \/ ParkStop(j)

EvictStep == EvictScan \/ EvictFailPending \/ EvictLoopExit \/ \E h \in Handles : EvictDelete(h)

DrainStep(h) ==
    \/ "drain" \in Env /\ DrainWorker(h)
    \/ ReapWake(h) \/ ReapDelete(h) \/ ReapFailPending(h)

CloseStep == ("close" \in Env /\ CloseStart) \/ CloseLoops \/ CloseWaiters

Next ==
    \/ \E h \in Handles : StreamStep(h) \/ DrainStep(h)
    \/ \E j \in Jobs : \/ Submit(j) \/ CallerStep(j) \/ DispatchStep(j)
                       \/ "cancel" \in Env /\ CancelCaller(j)
    \/ PlaceStep \/ EvictStep \/ CloseStep

Spec == Init /\ [][Next]_vars

(* Goroutines that can run do run.  Nothing makes a caller submit or give  *)
(* up, a worker connect, report or leave, time pass, an operator drain a   *)
(* worker, or anyone start Close.  ParkStop is a branch of a select that   *)
(* stays ready while ticks keep coming, so it is taken in the end.         *)
Fairness ==
    /\ \A j \in Jobs : WF_vars(CallerStep(j)) /\ WF_vars(DispatchStep(j))
    /\ WF_vars(PlaceStep) /\ \A j \in Jobs : SF_vars(ParkStop(j))
    /\ WF_vars(EvictFailPending \/ EvictLoopExit \/ \E h \in Handles : EvictDelete(h))
    /\ WF_vars(CloseLoops \/ CloseWaiters)
    /\ \A h \in Handles :
        /\ WF_vars(SendAck(h)) /\ WF_vars(~cancelled[h] /\ WriterSend(h))
        /\ WF_vars((cancelled[h] \/ ~ackFirst[h]) /\ ReaderExit(h))
        /\ WF_vars(RemoveFromRegistry(h) \/ RemoveFailPending(h))
        /\ WF_vars(ReapDelete(h) \/ ReapFailPending(h))

FairSpec == Spec /\ Fairness

-----------------------------------------------------------------------------
(* An entry of a worker's pending map always has a dispatch waiting for    *)
(* it, on this worker and with an empty channel: nothing leaks when the    *)
(* caller leaves, two resolvers (reader loop, evictor, reaper, teardown)   *)
(* never both send, and a send into the one-slot channel never blocks.     *)
PendingOwned ==
    \A h \in Handles : \A j \in pending[h] :
        step[j] \in {"send", "await"} /\ target[j] = h /\ resCh[j] = "empty"

(* A caller blocked on its waiter can still be answered: the waiter is     *)
(* registered, the job is in the queue or with the placement loop, and     *)
(* Close has not made its last sweep.                                      *)
QueuedJobCovered ==
    \A j \in Jobs : caller[j] = "wait" /\ waitCh[j] = "empty" =>
        j \in waiters /\ (j \in queue \/ placing = j) /\ closer # "closed"

(* A registered waiter belongs to a caller that is still in submit and has *)
(* not been answered: addWaiter is always paired with a removal.           *)
WaitersOwned ==
    \A j \in waiters : caller[j] \in {"offer", "wait"} /\ waitCh[j] = "empty"

(* Each dequeued job is dispatched once and to one worker, whatever        *)
(* evictions, reconnects and cancellations do in between.                  *)
AtMostOneWorker ==
    \A j \in Jobs : \A h \in Handles : j \in sendq[h] \cup running[h] =>
        /\ j \notin queue \cup executed
        /\ \A g \in Handles \ {h} : j \notin sendq[g] \cup running[g]

(* The registry entry of a worker is replaced only by a newer session, and *)
(* is removed only on behalf of the very handle it names: the teardown of  *)
(* an old stream, a late eviction or a late reaper never removes the       *)
(* stream that has since reconnected under the same id.                    *)
RegistryChange(i) ==
    LET old == registry[i]
        new == registry'[i]
    IN  old # None /\ new # old =>
            IF new = None
            THEN conn[old] = "leaving" \/ old \in evictTodo \/ reaper[old] = "evict"
            ELSE ses'[new] > ses[old]

RegistryOwned == [][\A i \in Ids : RegistryChange(i)]_vars

(* A handle whose Connect has returned is not in the registry.             *)
RegistryLive ==
    \A i \in Ids : registry[i] # None =>
        IdOf[registry[i]] = i /\ conn[registry[i]] \in {"acking", "live", "leaving"}

(* The dispatcher implements the service promised to SubmitJob's callers.  *)
Service == INSTANCE JobService WITH
    status <- [j \in Jobs |-> CASE caller[j] = "idle" -> "new"
                                [] caller[j] = "done" -> "done"
                                [] OTHER -> "open"],
    verdict <- [j \in Jobs |-> IF outcome[j] = "empty" THEN "none" ELSE outcome[j]]

ServiceSpec == Service!Spec

(* Once Close has begun it finishes, and every caller that was blocked on  *)
(* the queue has been answered, even with no worker to run its job.        *)
CloseReleasesWaiters ==
    closer # "open" ~> closer = "closed" /\ \A j \in Jobs : caller[j] # "wait"

(* "a job dispatched into a worker that drops immediately after still      *)
(* fails cleanly via the worker's failAllPending" (pickWorker): a dispatch *)
(* waiting on a handle whose Connect has returned comes back.              *)
DroppedWorkerFailsJob ==
    \A j \in Jobs :
        (step[j] = "await" /\ conn[target[j]] = "gone") ~> (step[j] # "await")

=============================================================================
