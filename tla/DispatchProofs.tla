--------------------------- MODULE DispatchProofs ---------------------------
(***************************************************************************)
(* Proofs about the dispatcher for any jobs, worker streams, ids, models   *)
(* and bounds.                                                             *)
(***************************************************************************)
EXTENDS Dispatch, TLAPS

(* The codes the server itself puts on result and waiter channels.         *)
LEMMA CodesTyped ==
  /\ {"ok", "job_error", "worker_disconnected", "worker_stale", "worker_evicted",
      "ctx", "dispatch_failed", "shutting_down", "queue_full",
      "model_unavailable", "empty"} \subseteq Chan
  /\ WorkerCodes \subseteq Chan
  BY Zenon DEF Chan, Outcomes, WorkerCodes, DropCodes, CallCodes

(* Steps keep the types of the registry and the streams.                   *)
LEMMA StreamTypeStep == TypeOK /\ [Next]_vars => StreamTypes'
<1> SUFFICES ASSUME TypeOK, [Next]_vars PROVE StreamTypes'
  BY Zenon
<1> USE HandleIds, ReportTypes DEF TypeOK, StreamTypes, registryVars, streamVars, ConnStates, ReaperStates
<1>1. ASSUME NEW h \in Handles, Register(h) PROVE StreamTypes'
  <2>1. PICK r \in Reports : report' = [report EXCEPT ![h] = [models |-> r.models, vram |-> FALSE]]
    BY <1>1, Zenon DEF Register
  <2>2. report' \in [Handles -> Report]
    BY <2>1, Zenon DEF Report
  <2> QED BY <1>1, <2>2 DEF Register, addWorker
<1>2. ASSUME NEW h \in Handles, SendAck(h) PROVE StreamTypes'
  BY <1>2, Zenon DEF SendAck
<1>3. ASSUME NEW h \in Handles, Heartbeat(h) PROVE StreamTypes'
  BY <1>3, Zenon DEF Heartbeat, applyHeartbeat
<1>4. ASSUME NEW h \in Handles, MissHeartbeats(h) PROVE StreamTypes'
  BY <1>4, Zenon DEF MissHeartbeats
<1>5. ASSUME NEW h \in Handles, Deregister(h) PROVE StreamTypes'
  BY <1>5, Zenon DEF Deregister, markDraining
<1>6. ASSUME NEW h \in Handles, ReaderExit(h) PROVE StreamTypes'
  BY <1>6, Zenon DEF ReaderExit
<1>7. ASSUME NEW h \in Handles, RemoveFromRegistry(h) PROVE StreamTypes'
  BY <1>7, Zenon DEF RemoveFromRegistry, deleteIfCurrent
<1>8. ASSUME NEW h \in Handles, RemoveFailPending(h) PROVE StreamTypes'
  BY <1>8, Zenon DEF RemoveFailPending, failAllPending
<1>9. ASSUME NEW h \in Handles, DrainWorker(h) PROVE StreamTypes'
  BY <1>9, Zenon DEF DrainWorker, markDraining
<1>10. ASSUME NEW h \in Handles, ReapWake(h) PROVE StreamTypes'
  BY <1>10, Zenon DEF ReapWake
<1>11. ASSUME NEW h \in Handles, ReapDelete(h) PROVE StreamTypes'
  BY <1>11, Zenon DEF ReapDelete, deleteIfCurrent
<1>12. ASSUME NEW h \in Handles, ReapFailPending(h) PROVE StreamTypes'
  BY <1>12, Zenon DEF ReapFailPending, failAllPending
<1>13. ASSUME NEW h \in Handles, EvictDelete(h) PROVE StreamTypes'
  BY <1>13, Zenon DEF EvictDelete, deleteIfCurrent
<1>14. ASSUME UNCHANGED <<registryVars, streamVars, reaper>> PROVE StreamTypes'
  BY <1>14, Zenon
<1>15. ASSUME NEW h \in Handles, WriterSend(h)
      PROVE  StreamTypes'
  BY <1>14, <1>15, Zenon DEF WriterSend
<1>16. ASSUME NEW j \in Jobs, Submit(j) \/ CancelCaller(j) \/ CheckServed(j)
      \/ PickFromSnapshot(j) \/ ResolveHandle(j) \/ AddPending(j)
      \/ SendJob(j) \/ DispatchCancel(j) \/ DispatchResult(j) \/ AddWaiter(j)
      \/ EnqueueRejected(j) \/ Enqueue(j) \/ WaitResult(j) \/ WaitCancel(j)
      \/ PlaceDequeue(j) \/ ParkWake(j) \/ ParkStop(j)
      PROVE  StreamTypes'
  BY <1>14, <1>16, Zenon
     DEF Submit, CancelCaller, CheckServed, PickFromSnapshot, ResolveHandle,
         AddPending, SendJob, DispatchCancel, DispatchResult, AddWaiter,
         EnqueueRejected, Enqueue, WaitResult, WaitCancel, PlaceDequeue,
         ParkWake, ParkStop, DispatchReturns, Front, NoWorker, resolveWaiter,
         submitReturns
<1>17. CASE PlaceLoopExit \/ EvictScan \/ EvictFailPending \/ EvictLoopExit
      \/ CloseStart \/ CloseLoops \/ CloseWaiters \/ UNCHANGED vars
  BY <1>14, <1>17, Zenon
     DEF PlaceLoopExit, EvictScan, EvictFailPending, EvictLoopExit,
         CloseStart, CloseLoops, CloseWaiters, vars, Fleet, failAllPending
<1>18. ASSUME NEW h \in Handles, NEW j \in Jobs, NEW code \in WorkerCodes,
            Result(h, j, code)
      PROVE  StreamTypes'
  BY <1>14, <1>18, Zenon DEF Result, resolve
<1> QED BY <1>1, <1>2, <1>3, <1>4, <1>5, <1>6, <1>7, <1>8, <1>9, <1>10,
          <1>11, <1>12, <1>13, <1>15, <1>16, <1>17, <1>18, Zenon
        DEF Next, StreamStep, DrainStep, CallerStep, DispatchStep, PlaceStep,
            EvictStep, CloseStep

(* Steps keep the types of the jobs and the dispatches in progress.        *)
LEMMA JobTypeStep == TypeOK /\ [Next]_vars => JobTypes'
<1> SUFFICES ASSUME TypeOK, [Next]_vars PROVE JobTypes'
  OBVIOUS
<1> USE CodesTyped DEF TypeOK, JobTypes, jobVars, dispatchVars, Steps
<1>1. ASSUME NEW h \in Handles, WriterSend(h) PROVE JobTypes'
  BY <1>1 DEF WriterSend
<1>2. ASSUME NEW h \in Handles, RemoveFailPending(h) PROVE JobTypes'
  BY <1>2, Zenon DEF RemoveFailPending, failAllPending
<1>3. ASSUME NEW h \in Handles, ReapFailPending(h) PROVE JobTypes'
  BY <1>3, Zenon DEF ReapFailPending, failAllPending
<1>4. ASSUME NEW h \in Handles, NEW j \in Jobs, NEW code \in WorkerCodes,
            Result(h, j, code)
      PROVE  JobTypes'
  BY <1>4, Zenon DEF Result, resolve
<1>5. ASSUME NEW j \in Jobs, CheckServed(j) PROVE JobTypes'
  BY <1>5, Zenon DEF CheckServed, submitReturns
<1>6. ASSUME NEW j \in Jobs, PickFromSnapshot(j) PROVE JobTypes'
  <2>1. CASE NoWorker(j)
    BY <1>6, <2>1 DEF PickFromSnapshot, NoWorker
  <2>2. ASSUME NEW i \in Ids, target' = [target EXCEPT ![j] = i],
               step' = [step EXCEPT ![j] = "check"]
        PROVE  JobTypes'
    BY <1>6, <2>2, Zenon DEF PickFromSnapshot
  <2> QED BY <1>6, <2>1, <2>2, Zenon DEF PickFromSnapshot
<1>7. ASSUME NEW j \in Jobs, ResolveHandle(j) PROVE JobTypes'
  <2>1. registry[target[j]] \in Handles \cup {None}
    BY <1>7, Zenon DEF ResolveHandle, StreamTypes
  <2> QED BY <1>7, <2>1 DEF ResolveHandle, NoWorker
<1>8. ASSUME NEW j \in Jobs, AddPending(j) PROVE JobTypes'
  BY <1>8 DEF AddPending
<1>9. ASSUME NEW j \in Jobs, SendJob(j) PROVE JobTypes'
  BY <1>9 DEF SendJob
<1>10. ASSUME NEW j \in Jobs, DispatchCancel(j) PROVE JobTypes'
  BY <1>10, Zenon DEF DispatchCancel, DispatchReturns, resolveWaiter, submitReturns
<1>11. ASSUME NEW j \in Jobs, DispatchResult(j) PROVE JobTypes'
  BY <1>11, Zenon DEF DispatchResult, DispatchReturns, resolveWaiter, submitReturns
<1>12. ASSUME NEW j \in Jobs, PlaceDequeue(j) PROVE JobTypes'
  BY <1>12, Zenon DEF PlaceDequeue, Front
<1>13. ASSUME NEW j \in Jobs, ParkWake(j) PROVE JobTypes'
  BY <1>13, Zenon DEF ParkWake
<1>14. ASSUME NEW j \in Jobs, ParkStop(j) PROVE JobTypes'
  BY <1>14, Zenon DEF ParkStop, resolveWaiter
<1>15. ASSUME EvictFailPending PROVE JobTypes'
  <2>1. evictFail \in Handles
    BY <1>15, Zenon DEF EvictFailPending, LoopTypes
  <2> QED BY <1>15, <2>1, Zenon DEF EvictFailPending, failAllPending
<1>16. ASSUME UNCHANGED <<jobVars, dispatchVars>> PROVE JobTypes'
  BY <1>16, Zenon
<1>17. ASSUME NEW h \in Handles, Register(h) \/ SendAck(h) \/ Heartbeat(h)
      \/ MissHeartbeats(h) \/ Deregister(h) \/ ReaderExit(h)
      \/ RemoveFromRegistry(h) \/ DrainWorker(h) \/ ReapWake(h)
      \/ ReapDelete(h) \/ EvictDelete(h)
      PROVE  JobTypes'
  BY <1>16, <1>17, Zenon
     DEF Register, SendAck, Heartbeat, MissHeartbeats, Deregister,
         ReaderExit, RemoveFromRegistry, DrainWorker, ReapWake, ReapDelete,
         EvictDelete, addWorker, applyHeartbeat, deleteIfCurrent, markDraining
<1>18. ASSUME NEW j \in Jobs, Submit(j) \/ CancelCaller(j) \/ AddWaiter(j)
      \/ EnqueueRejected(j) \/ Enqueue(j) \/ WaitResult(j) \/ WaitCancel(j)
      PROVE  JobTypes'
  BY <1>16, <1>18, Zenon
     DEF Submit, CancelCaller, AddWaiter, EnqueueRejected, Enqueue,
         WaitResult, WaitCancel, submitReturns
<1>19. CASE PlaceLoopExit \/ EvictScan \/ EvictLoopExit \/ CloseStart
      \/ CloseLoops \/ CloseWaiters \/ UNCHANGED vars
  BY <1>16, <1>19, Zenon
     DEF PlaceLoopExit, EvictScan, EvictLoopExit, CloseStart, CloseLoops,
         CloseWaiters, vars, Fleet
<1> QED BY <1>1, <1>2, <1>3, <1>4, <1>5, <1>6, <1>7, <1>8, <1>9, <1>10,
          <1>11, <1>12, <1>13, <1>14, <1>15, <1>17, <1>18, <1>19, Zenon
        DEF Next, StreamStep, DrainStep, CallerStep, DispatchStep, PlaceStep,
            EvictStep, CloseStep

(* Steps keep the types of the callers, their waiters and the queue.       *)
LEMMA CallerTypeStep == TypeOK /\ [Next]_vars => CallerTypes'
<1> SUFFICES ASSUME TypeOK, [Next]_vars PROVE CallerTypes'
  OBVIOUS
<1> USE CodesTyped DEF TypeOK, CallerTypes, callerVars, queueVars, CallerStates
<1>1. ASSUME NEW j \in Jobs, Submit(j) PROVE CallerTypes'
  BY <1>1, Zenon DEF Submit
<1>2. ASSUME NEW j \in Jobs, CancelCaller(j) PROVE CallerTypes'
  BY <1>2, Zenon DEF CancelCaller
<1>3. ASSUME NEW j \in Jobs, CheckServed(j) PROVE CallerTypes'
  BY <1>3 DEF CheckServed, submitReturns
<1>4. ASSUME NEW j \in Jobs, PickFromSnapshot(j) PROVE CallerTypes'
  BY <1>4, Zenon DEF PickFromSnapshot, NoWorker
<1>5. ASSUME NEW j \in Jobs, ResolveHandle(j) PROVE CallerTypes'
  BY <1>5, Zenon DEF ResolveHandle, NoWorker
<1>6. ASSUME NEW j \in Jobs, DispatchCancel(j) PROVE CallerTypes'
  BY <1>6 DEF DispatchCancel, DispatchReturns, resolveWaiter, submitReturns
<1>7. ASSUME NEW j \in Jobs, DispatchResult(j) PROVE CallerTypes'
  <2>1. resCh[j] \in Chan /\ (resCh[j] = "ctx" => "dispatch_failed" \in Chan)
    BY Zenon DEF JobTypes
  <2> QED BY <1>7, <2>1 DEF DispatchResult, DispatchReturns, resolveWaiter, submitReturns
<1>8. ASSUME NEW j \in Jobs, AddWaiter(j) PROVE CallerTypes'
  BY <1>8, Zenon DEF AddWaiter
<1>9. ASSUME NEW j \in Jobs, EnqueueRejected(j) PROVE CallerTypes'
  BY <1>9, Zenon DEF EnqueueRejected, submitReturns
<1>10. ASSUME NEW j \in Jobs, Enqueue(j) PROVE CallerTypes'
  BY <1>10 DEF Enqueue
<1>11. ASSUME NEW j \in Jobs, WaitResult(j) PROVE CallerTypes'
  BY <1>11, Zenon DEF WaitResult, submitReturns
<1>12. ASSUME NEW j \in Jobs, WaitCancel(j) PROVE CallerTypes'
  BY <1>12, Zenon DEF WaitCancel, submitReturns
<1>13. ASSUME NEW j \in Jobs, PlaceDequeue(j) PROVE CallerTypes'
  BY <1>13, Zenon DEF PlaceDequeue, Front
<1>14. ASSUME NEW j \in Jobs, ParkStop(j) PROVE CallerTypes'
  BY <1>14, Zenon DEF ParkStop, resolveWaiter
<1>15. ASSUME CloseWaiters PROVE CallerTypes'
  BY <1>15, Zenon DEF CloseWaiters
<1>16. ASSUME UNCHANGED <<callerVars, waiters, waitCh, queue, enqSeq, nextSeq>> PROVE CallerTypes'
  BY <1>16, Zenon
<1>17. ASSUME NEW h \in Handles, Register(h) \/ SendAck(h) \/ Heartbeat(h)
      \/ MissHeartbeats(h) \/ WriterSend(h) \/ Deregister(h) \/ ReaderExit(h)
      \/ RemoveFromRegistry(h) \/ RemoveFailPending(h) \/ DrainWorker(h)
      \/ ReapWake(h) \/ ReapDelete(h) \/ ReapFailPending(h) \/ EvictDelete(h)
      PROVE  CallerTypes'
  BY <1>16, <1>17, Zenon
     DEF Register, SendAck, Heartbeat, MissHeartbeats, WriterSend,
         Deregister, ReaderExit, RemoveFromRegistry, RemoveFailPending,
         DrainWorker, ReapWake, ReapDelete, ReapFailPending, EvictDelete,
         addWorker, applyHeartbeat, deleteIfCurrent, failAllPending,
         markDraining
<1>18. ASSUME NEW j \in Jobs, AddPending(j) \/ SendJob(j) \/ ParkWake(j)
      PROVE  CallerTypes'
  BY <1>16, <1>18, Zenon DEF AddPending, SendJob, ParkWake
<1>19. CASE PlaceLoopExit \/ EvictScan \/ EvictFailPending \/ EvictLoopExit
      \/ CloseStart \/ CloseLoops \/ UNCHANGED vars
  BY <1>16, <1>19, Zenon
     DEF PlaceLoopExit, EvictScan, EvictFailPending, EvictLoopExit,
         CloseStart, CloseLoops, vars, Fleet, failAllPending
<1>20. ASSUME NEW h \in Handles, NEW j \in Jobs, NEW code \in WorkerCodes,
            Result(h, j, code)
      PROVE  CallerTypes'
  BY <1>16, <1>20, Zenon DEF Result, resolve
<1> QED BY <1>1, <1>2, <1>3, <1>4, <1>5, <1>6, <1>7, <1>8, <1>9, <1>10,
          <1>11, <1>12, <1>13, <1>14, <1>15, <1>17, <1>18, <1>19, <1>20, Zenon
        DEF Next, StreamStep, DrainStep, CallerStep, DispatchStep, PlaceStep,
            EvictStep, CloseStep

(* Steps keep the types of the background loops.                           *)
LEMMA LoopTypeStep == TypeOK /\ [Next]_vars => LoopTypes'
<1> SUFFICES ASSUME TypeOK, [Next]_vars PROVE LoopTypes'
  OBVIOUS
<1> USE DEF TypeOK, LoopTypes, queueVars, evictVars, CloserStates
<1>1. ASSUME NEW h \in Handles, EvictDelete(h) PROVE LoopTypes'
  BY <1>1, Zenon DEF EvictDelete, deleteIfCurrent
<1>2. ASSUME NEW j \in Jobs, DispatchCancel(j) PROVE LoopTypes'
  BY <1>2, Zenon DEF DispatchCancel, DispatchReturns, resolveWaiter, submitReturns
<1>3. ASSUME NEW j \in Jobs, DispatchResult(j) PROVE LoopTypes'
  BY <1>3, Zenon DEF DispatchResult, DispatchReturns, resolveWaiter, submitReturns
<1>4. ASSUME NEW j \in Jobs, PlaceDequeue(j) PROVE LoopTypes'
  BY <1>4, Zenon DEF PlaceDequeue, Front
<1>5. ASSUME NEW j \in Jobs, ParkStop(j) PROVE LoopTypes'
  BY <1>5, Zenon DEF ParkStop, resolveWaiter
<1>6. ASSUME PlaceLoopExit PROVE LoopTypes'
  BY <1>6, Zenon DEF PlaceLoopExit
<1>7. ASSUME EvictScan PROVE LoopTypes'
  <2>1. Fleet \subseteq Handles
    BY DEF Fleet, StreamTypes
  <2> QED BY <1>7, <2>1, Zenon DEF EvictScan
<1>8. ASSUME EvictFailPending PROVE LoopTypes'
  BY <1>8, Zenon DEF EvictFailPending, failAllPending
<1>9. ASSUME EvictLoopExit PROVE LoopTypes'
  BY <1>9, Zenon DEF EvictLoopExit
<1>10. ASSUME CloseStart PROVE LoopTypes'
  BY <1>10, Zenon DEF CloseStart
<1>11. ASSUME CloseLoops PROVE LoopTypes'
  BY <1>11, Zenon DEF CloseLoops
<1>12. ASSUME CloseWaiters PROVE LoopTypes'
  BY <1>12, Zenon DEF CloseWaiters
<1>13. ASSUME UNCHANGED <<placing, placeDone, evictVars, closer>> PROVE LoopTypes'
  BY <1>13, Zenon
<1>14. ASSUME NEW h \in Handles, Register(h) \/ SendAck(h) \/ Heartbeat(h)
      \/ MissHeartbeats(h) \/ WriterSend(h) \/ Deregister(h) \/ ReaderExit(h)
      \/ RemoveFromRegistry(h) \/ RemoveFailPending(h) \/ DrainWorker(h)
      \/ ReapWake(h) \/ ReapDelete(h) \/ ReapFailPending(h)
      PROVE  LoopTypes'
  BY <1>13, <1>14, Zenon
     DEF Register, SendAck, Heartbeat, MissHeartbeats, WriterSend,
         Deregister, ReaderExit, RemoveFromRegistry, RemoveFailPending,
         DrainWorker, ReapWake, ReapDelete, ReapFailPending, addWorker,
         applyHeartbeat, deleteIfCurrent, failAllPending, markDraining
<1>15. ASSUME NEW j \in Jobs, Submit(j) \/ CancelCaller(j) \/ CheckServed(j)
      \/ PickFromSnapshot(j) \/ ResolveHandle(j) \/ AddPending(j)
      \/ SendJob(j) \/ AddWaiter(j) \/ EnqueueRejected(j) \/ Enqueue(j)
      \/ WaitResult(j) \/ WaitCancel(j) \/ ParkWake(j)
      PROVE  LoopTypes'
  BY <1>13, <1>15, Zenon
     DEF Submit, CancelCaller, CheckServed, PickFromSnapshot, ResolveHandle,
         AddPending, SendJob, AddWaiter, EnqueueRejected, Enqueue,
         WaitResult, WaitCancel, ParkWake, NoWorker, submitReturns
<1>16. ASSUME NEW h \in Handles, NEW j \in Jobs, NEW code \in WorkerCodes,
            Result(h, j, code)
      PROVE  LoopTypes'
  BY <1>13, <1>16, Zenon DEF Result, resolve
<1>17. CASE UNCHANGED vars
  BY <1>13, <1>17, Zenon DEF vars
<1> QED BY <1>1, <1>2, <1>3, <1>4, <1>5, <1>6, <1>7, <1>8, <1>9, <1>10,
          <1>11, <1>12, <1>14, <1>15, <1>16, <1>17, Zenon
        DEF Next, StreamStep, DrainStep, CallerStep, DispatchStep, PlaceStep,
            EvictStep, CloseStep

(* A new server has the right types.                                       *)
LEMMA InitType == Init => TypeOK
<1> SUFFICES ASSUME Init PROVE TypeOK
  BY Zenon
<1>1. StreamTypes
  BY Zenon DEF Init, StreamTypes, ConnStates, ReaperStates, Report
<1>2. JobTypes
  BY CodesTyped, Zenon DEF Init, JobTypes, Steps
<1>3. CallerTypes
  BY CodesTyped, Zenon DEF Init, CallerTypes, CallerStates
<1>4. LoopTypes
  BY Zenon DEF Init, LoopTypes, CloserStates
<1> QED BY <1>1, <1>2, <1>3, <1>4, Zenon DEF TypeOK

(* Type correctness of the whole dispatcher.                               *)
THEOREM TypeCorrect == Spec => []TypeOK
<1>1. Init => TypeOK
  BY InitType, Zenon
<1>2. TypeOK /\ [Next]_vars => TypeOK'
  BY StreamTypeStep, JobTypeStep, CallerTypeStep, LoopTypeStep, Zenon DEF TypeOK
<1> QED BY <1>1, <1>2, PTL DEF Spec

-----------------------------------------------------------------------------
(* Who runs the dispatch of a job: placeItem while the loop holds it,      *)
(* submit otherwise; a queued job has none.                                *)
ControlInv ==
    /\ \A j \in Jobs :
        /\ placing = j => step[j] # "none" /\ caller[j] \in {"wait", "done"}
        /\ step[j] # "none" /\ placing # j => caller[j] = "dispatch"
        /\ step[j] = "park" => placing = j
        /\ j \in queue => caller[j] \in {"wait", "done"} /\ step[j] = "none"
    /\ placeDone => placing = None

(* Steps keep the division of labour.                                      *)
LEMMA ControlStep ==
  TypeOK /\ ControlInv /\ [Next]_vars => ControlInv'
<1> SUFFICES ASSUME TypeOK, ControlInv, [Next]_vars
             PROVE  ControlInv'
  BY Zenon
<1>0. /\ step \in [Jobs -> Steps]
      /\ caller \in [Jobs -> CallerStates]
      /\ queue \subseteq Jobs
      /\ placing \in Jobs \cup {None}
  BY Zenon DEF TypeOK, StreamTypes, JobTypes, CallerTypes, LoopTypes
<1> USE <1>0, NoneFresh DEF ControlInv, dispatchVars, queueVars, callerVars
<1>1. ASSUME NEW j \in Jobs, Submit(j) PROVE ControlInv'
  BY <1>1, Zenon DEF Submit
<1>2. ASSUME NEW j \in Jobs, CheckServed(j) PROVE ControlInv'
  BY <1>2, Zenon DEF CheckServed, submitReturns
<1>3. ASSUME NEW j \in Jobs, PickFromSnapshot(j) PROVE ControlInv'
  <2>1. CASE NoWorker(j)
    BY <1>3, <2>1, Zenon DEF PickFromSnapshot, NoWorker
  <2>2. CASE step' = [step EXCEPT ![j] = "check"] /\ UNCHANGED caller
    BY <1>3, <2>2, Zenon DEF PickFromSnapshot
  <2> QED BY <1>3, <2>1, <2>2, Zenon DEF PickFromSnapshot
<1>4. ASSUME NEW j \in Jobs, ResolveHandle(j) PROVE ControlInv'
  <2>1. CASE NoWorker(j)
    BY <1>4, <2>1, Zenon DEF ResolveHandle, NoWorker
  <2>2. CASE step' = [step EXCEPT ![j] = "add"] /\ UNCHANGED caller
    BY <1>4, <2>2, Zenon DEF ResolveHandle
  <2> QED BY <1>4, <2>1, <2>2, Zenon DEF ResolveHandle
<1>5. ASSUME NEW j \in Jobs, AddPending(j) PROVE ControlInv'
  BY <1>5, Zenon DEF AddPending
<1>6. ASSUME NEW j \in Jobs, SendJob(j) PROVE ControlInv'
  BY <1>6, Zenon DEF SendJob
<1>7. ASSUME NEW j \in Jobs, DispatchCancel(j) PROVE ControlInv'
  BY <1>7, Zenon DEF DispatchCancel, DispatchReturns, resolveWaiter, submitReturns
<1>8. ASSUME NEW j \in Jobs, DispatchResult(j) PROVE ControlInv'
  BY <1>8, Zenon DEF DispatchResult, DispatchReturns, resolveWaiter, submitReturns
<1>9. ASSUME NEW j \in Jobs, AddWaiter(j) PROVE ControlInv'
  BY <1>9, Zenon DEF AddWaiter
<1>10. ASSUME NEW j \in Jobs, EnqueueRejected(j) PROVE ControlInv'
  BY <1>10, Zenon DEF EnqueueRejected, submitReturns
<1>11. ASSUME NEW j \in Jobs, Enqueue(j) PROVE ControlInv'
  BY <1>11, Zenon DEF Enqueue
<1>12. ASSUME NEW j \in Jobs, WaitResult(j) PROVE ControlInv'
  BY <1>12, Zenon DEF WaitResult, submitReturns
<1>13. ASSUME NEW j \in Jobs, WaitCancel(j) PROVE ControlInv'
  BY <1>13, Zenon DEF WaitCancel, submitReturns
<1>14. ASSUME NEW j \in Jobs, PlaceDequeue(j) PROVE ControlInv'
  BY <1>14, Zenon DEF PlaceDequeue, Front
<1>15. ASSUME NEW j \in Jobs, ParkWake(j) PROVE ControlInv'
  BY <1>15, Zenon DEF ParkWake
<1>16. ASSUME NEW j \in Jobs, ParkStop(j) PROVE ControlInv'
  BY <1>16, Zenon DEF ParkStop, resolveWaiter
<1>17. ASSUME PlaceLoopExit PROVE ControlInv'
  BY <1>17, Zenon DEF PlaceLoopExit
<1>18. ASSUME UNCHANGED <<step, caller, placing, placeDone, queue>> PROVE ControlInv'
  BY <1>18, Zenon
<1>19. ASSUME NEW h \in Handles, Register(h) \/ SendAck(h) \/ Heartbeat(h)
      \/ MissHeartbeats(h) \/ WriterSend(h) \/ Deregister(h) \/ ReaderExit(h)
      \/ RemoveFromRegistry(h) \/ RemoveFailPending(h) \/ DrainWorker(h)
      \/ ReapWake(h) \/ ReapDelete(h) \/ ReapFailPending(h) \/ EvictDelete(h)
      PROVE  ControlInv'
  BY <1>18, <1>19, Zenon
     DEF Register, SendAck, Heartbeat, MissHeartbeats, WriterSend,
         Deregister, ReaderExit, RemoveFromRegistry, RemoveFailPending,
         DrainWorker, ReapWake, ReapDelete, ReapFailPending, EvictDelete,
         addWorker, applyHeartbeat, deleteIfCurrent, failAllPending,
         markDraining
<1>20. ASSUME NEW j \in Jobs, CancelCaller(j)
      PROVE  ControlInv'
  BY <1>18, <1>20, Zenon DEF CancelCaller
<1>21. CASE EvictScan \/ EvictFailPending \/ EvictLoopExit \/ CloseStart
      \/ CloseLoops \/ CloseWaiters \/ UNCHANGED vars
  BY <1>18, <1>21, Zenon
     DEF EvictScan, EvictFailPending, EvictLoopExit, CloseStart, CloseLoops,
         CloseWaiters, vars, Fleet, failAllPending
<1>22. ASSUME NEW h \in Handles, NEW j \in Jobs, NEW code \in WorkerCodes,
            Result(h, j, code)
      PROVE  ControlInv'
  BY <1>18, <1>22, Zenon DEF Result, resolve
<1> QED BY <1>1, <1>2, <1>3, <1>4, <1>5, <1>6, <1>7, <1>8, <1>9, <1>10,
          <1>11, <1>12, <1>13, <1>14, <1>15, <1>16, <1>17, <1>19, <1>20,
          <1>21, <1>22, ZenonT(40)
        DEF Next, StreamStep, DrainStep, CallerStep, DispatchStep, PlaceStep,
            EvictStep, CloseStep

-----------------------------------------------------------------------------
(* failAllPending on one handle leaves the other handles' entries owned.   *)
LEMMA FailAllOwned ==
  ASSUME PendingOwned, pending \in [Handles -> SUBSET Jobs], NEW h \in Handles, NEW code,
         failAllPending(h, code), UNCHANGED <<step, target>>
  PROVE  PendingOwned'
<1>1. \A g \in Handles : \A j \in pending'[g] : g # h /\ j \in pending[g]
  BY Zenon DEF failAllPending
<1>2. ASSUME NEW g \in Handles, NEW j \in pending'[g]
      PROVE  j \in Jobs /\ j \notin pending[h]
  <2>1. g # h /\ j \in pending[g]
    BY <1>1, Zenon
  <2>2. target[j] = g
    BY <2>1, Zenon DEF PendingOwned
  <2>3. j \in pending[h] => target[j] = h
    BY Zenon DEF PendingOwned
  <2>4. j \in Jobs
    BY <2>1, Zenon
  <2> QED BY <2>1, <2>2, <2>3, <2>4, Zenon
<1>3. \A g \in Handles : \A j \in pending'[g] : resCh'[j] = resCh[j]
  BY <1>2, Zenon DEF failAllPending
<1> QED BY <1>1, <1>3, Zenon DEF PendingOwned

(* The dispatch of a job that is not pending does what it likes.           *)
LEMMA NotPendingOwned ==
  ASSUME PendingOwned, NEW j \in Jobs, step[j] \notin {"send", "await"}, UNCHANGED pending,
         \A k \in Jobs \ {j} : step'[k] = step[k] /\ target'[k] = target[k] /\ resCh'[k] = resCh[k],
         pending \in [Handles -> SUBSET Jobs]
  PROVE  PendingOwned'
  BY DEF PendingOwned

(* Pending entries stay owned: two resolvers never meet on one entry.      *)
LEMMA PendingStep ==
  TypeOK /\ ControlInv /\ PendingOwned /\ [Next]_vars => PendingOwned'
<1> SUFFICES ASSUME TypeOK, ControlInv, PendingOwned, [Next]_vars
             PROVE  PendingOwned'
  BY Zenon
<1>0. /\ pending \in [Handles -> SUBSET Jobs]
      /\ step \in [Jobs -> Steps]
      /\ target \in [Jobs -> Ids \cup Handles \cup {None}]
      /\ resCh \in [Jobs -> Chan]
      /\ \A j \in Jobs : step[j] \in {"add", "send", "await"} => target[j] \in Handles
  BY Zenon DEF TypeOK, JobTypes
<1> USE <1>0 DEF jobVars, dispatchVars
<1>1. ASSUME NEW h \in Handles, RemoveFailPending(h) PROVE PendingOwned'
  BY <1>1, FailAllOwned, Zenon DEF RemoveFailPending
<1>2. ASSUME NEW h \in Handles, ReapFailPending(h) PROVE PendingOwned'
  BY <1>2, FailAllOwned, Zenon DEF ReapFailPending
<1>3. ASSUME NEW h \in Handles, NEW j \in Jobs, NEW code \in WorkerCodes,
            Result(h, j, code)
      PROVE  PendingOwned'
  <2>1. \A g \in Handles : \A k \in pending'[g] : k \in pending[g] /\ (g = h => k # j)
    BY <1>3, Zenon DEF Result, resolve
  <2>2. CASE j \in pending[h]
    <3>1. resCh' = [resCh EXCEPT ![j] = code]
      BY <1>3, <2>2, Zenon DEF Result, resolve
    <3>2. \A g \in Handles : \A k \in pending'[g] : k # j
      BY <2>1, <2>2 DEF PendingOwned
    <3>3. \A g \in Handles : \A k \in pending'[g] : resCh'[k] = resCh[k]
      BY <2>1, <3>1, <3>2, Zenon
    <3> QED BY <1>3, <2>1, <3>3, Zenon DEF Result, PendingOwned
  <2>3. CASE j \notin pending[h]
    BY <1>3, <2>1, <2>3, Zenon DEF Result, resolve, PendingOwned
  <2> QED BY <2>2, <2>3, Zenon
<1>4. ASSUME NEW j \in Jobs, CheckServed(j) PROVE PendingOwned'
  <2>1. step[j] \notin {"send", "await"} /\ UNCHANGED pending
    BY <1>4, NoneFresh, Zenon DEF CheckServed, ControlInv
  <2>2. \A k \in Jobs \ {j} : step'[k] = step[k] /\ target'[k] = target[k] /\ resCh'[k] = resCh[k]
    BY <1>4, Zenon DEF CheckServed
  <2> QED BY <2>1, <2>2, NotPendingOwned, Zenon
<1>5. ASSUME NEW j \in Jobs, PickFromSnapshot(j) PROVE PendingOwned'
  <2>1. step[j] \notin {"send", "await"} /\ UNCHANGED pending
    BY <1>5, NoneFresh, Zenon DEF PickFromSnapshot, ControlInv
  <2>2. \A k \in Jobs \ {j} : step'[k] = step[k] /\ target'[k] = target[k] /\ resCh'[k] = resCh[k]
    BY <1>5, Zenon DEF PickFromSnapshot, NoWorker
  <2> QED BY <2>1, <2>2, NotPendingOwned
<1>6. ASSUME NEW j \in Jobs, ResolveHandle(j) PROVE PendingOwned'
  <2>1. step[j] \notin {"send", "await"} /\ UNCHANGED pending
    BY <1>6, NoneFresh, Zenon DEF ResolveHandle, ControlInv
  <2>2. \A k \in Jobs \ {j} : step'[k] = step[k] /\ target'[k] = target[k] /\ resCh'[k] = resCh[k]
    BY <1>6, Zenon DEF ResolveHandle, NoWorker
  <2> QED BY <2>1, <2>2, NotPendingOwned
<1>7. ASSUME NEW j \in Jobs, AddPending(j) PROVE PendingOwned'
  BY <1>7 DEF AddPending, PendingOwned
<1>8. ASSUME NEW j \in Jobs, SendJob(j) PROVE PendingOwned'
  BY <1>8, Zenon DEF SendJob, PendingOwned
<1>9. ASSUME NEW j \in Jobs, DispatchCancel(j) PROVE PendingOwned'
  <2>1. \A g \in Handles : \A k \in pending'[g] : k \in pending[g] /\ k # j
    BY <1>9 DEF DispatchCancel, PendingOwned
  <2>2. \A k \in Jobs \ {j} : step'[k] = step[k] /\ target'[k] = target[k]
    BY <1>9, Zenon DEF DispatchCancel, DispatchReturns
  <2>3. UNCHANGED resCh
    BY <1>9, Zenon DEF DispatchCancel
  <2> QED BY <2>1, <2>2, <2>3, SMTT(30) DEF PendingOwned
<1>10. ASSUME NEW j \in Jobs, DispatchResult(j) PROVE PendingOwned'
  <2>1. \A g \in Handles : j \notin pending[g]
    BY <1>10, Zenon DEF DispatchResult, PendingOwned
  <2>2. \A k \in Jobs \ {j} : step'[k] = step[k] /\ target'[k] = target[k] /\ resCh'[k] = resCh[k]
    BY <1>10, Zenon DEF DispatchResult, DispatchReturns
  <2> QED BY <1>10, <2>1, <2>2, SMTT(30) DEF DispatchResult, PendingOwned
<1>11. ASSUME NEW j \in Jobs, PlaceDequeue(j) PROVE PendingOwned'
  <2>1. step[j] \notin {"send", "await"} /\ UNCHANGED pending
    BY <1>11, NoneFresh, Zenon DEF PlaceDequeue, Front, ControlInv
  <2>2. \A k \in Jobs \ {j} : step'[k] = step[k] /\ target'[k] = target[k] /\ resCh'[k] = resCh[k]
    BY <1>11, Zenon DEF PlaceDequeue, Front
  <2> QED BY <2>1, <2>2, NotPendingOwned, Zenon
<1>12. ASSUME NEW j \in Jobs, ParkWake(j) PROVE PendingOwned'
  <2>1. step[j] \notin {"send", "await"} /\ UNCHANGED pending
    BY <1>12, NoneFresh, Zenon DEF ParkWake, ControlInv
  <2>2. \A k \in Jobs \ {j} : step'[k] = step[k] /\ target'[k] = target[k] /\ resCh'[k] = resCh[k]
    BY <1>12, Zenon DEF ParkWake
  <2> QED BY <2>1, <2>2, NotPendingOwned
<1>13. ASSUME NEW j \in Jobs, ParkStop(j) PROVE PendingOwned'
  <2>1. step[j] \notin {"send", "await"} /\ UNCHANGED pending
    BY <1>13, NoneFresh, Zenon DEF ParkStop, ControlInv
  <2>2. \A k \in Jobs \ {j} : step'[k] = step[k] /\ target'[k] = target[k] /\ resCh'[k] = resCh[k]
    BY <1>13, Zenon DEF ParkStop
  <2> QED BY <2>1, <2>2, NotPendingOwned
<1>14. ASSUME EvictFailPending PROVE PendingOwned'
  <2>1. evictFail \in Handles
    BY <1>14, Zenon DEF EvictFailPending, TypeOK, LoopTypes
  <2> QED BY <1>14, <2>1, FailAllOwned, Zenon DEF EvictFailPending
<1>15. ASSUME UNCHANGED <<pending, step, target, resCh>> PROVE PendingOwned'
  BY <1>15, Zenon DEF PendingOwned
<1>16. ASSUME NEW h \in Handles, Register(h) \/ SendAck(h) \/ Heartbeat(h)
      \/ MissHeartbeats(h) \/ WriterSend(h) \/ Deregister(h) \/ ReaderExit(h)
      \/ RemoveFromRegistry(h) \/ DrainWorker(h) \/ ReapWake(h)
      \/ ReapDelete(h) \/ EvictDelete(h)
      PROVE  PendingOwned'
  BY <1>15, <1>16, Zenon
     DEF Register, SendAck, Heartbeat, MissHeartbeats, WriterSend,
         Deregister, ReaderExit, RemoveFromRegistry, DrainWorker, ReapWake,
         ReapDelete, EvictDelete, addWorker, applyHeartbeat, deleteIfCurrent,
         markDraining
<1>17. ASSUME NEW j \in Jobs, Submit(j) \/ CancelCaller(j) \/ AddWaiter(j)
      \/ EnqueueRejected(j) \/ Enqueue(j) \/ WaitResult(j) \/ WaitCancel(j)
      PROVE  PendingOwned'
  BY <1>15, <1>17, Zenon
     DEF Submit, CancelCaller, AddWaiter, EnqueueRejected, Enqueue,
         WaitResult, WaitCancel, submitReturns
<1>18. CASE PlaceLoopExit \/ EvictScan \/ EvictLoopExit \/ CloseStart
      \/ CloseLoops \/ CloseWaiters \/ UNCHANGED vars
  BY <1>15, <1>18, Zenon
     DEF PlaceLoopExit, EvictScan, EvictLoopExit, CloseStart, CloseLoops,
         CloseWaiters, vars, Fleet
<1> QED BY <1>1, <1>2, <1>3, <1>4, <1>5, <1>6, <1>7, <1>8, <1>9, <1>10,
          <1>11, <1>12, <1>13, <1>14, <1>16, <1>17, <1>18, Zenon
        DEF Next, StreamStep, DrainStep, CallerStep, DispatchStep, PlaceStep,
            EvictStep, CloseStep

(* The waiters: those of QueuedJobCovered and WaitersOwned, and that a     *)
(* caller about to enqueue has its waiter registered until the last sweep. *)
WaiterInv ==
    /\ QueuedJobCovered
    /\ WaitersOwned
    /\ \A j \in Jobs : caller[j] = "offer" => j \in waiters \/ closer = "closed"

(* A blocked caller stays covered and a waiter stays owned.                *)
LEMMA WaiterStep ==
  TypeOK /\ ControlInv /\ WaiterInv /\ [Next]_vars => WaiterInv'
<1> SUFFICES ASSUME TypeOK, ControlInv, WaiterInv, [Next]_vars
             PROVE  WaiterInv'
  BY Zenon
<1>0. /\ caller \in [Jobs -> CallerStates]
      /\ waiters \subseteq Jobs
      /\ waitCh \in [Jobs -> Chan]
      /\ queue \subseteq Jobs
      /\ placing \in Jobs \cup {None}
  BY Zenon DEF TypeOK, StreamTypes, JobTypes, CallerTypes, LoopTypes
<1> USE <1>0, NoneFresh DEF WaiterInv, QueuedJobCovered, WaitersOwned, queueClosed, placeStop,
        ControlInv, queueVars, callerVars
<1>1. ASSUME NEW j \in Jobs, Submit(j) PROVE WaiterInv'
  BY <1>1, Zenon DEF Submit
<1>2. ASSUME NEW j \in Jobs, CheckServed(j) PROVE WaiterInv'
  BY <1>2, ZenonT(40) DEF CheckServed, submitReturns
<1>3. ASSUME NEW j \in Jobs, PickFromSnapshot(j) PROVE WaiterInv'
  BY <1>3, ZenonT(40) DEF PickFromSnapshot, NoWorker
<1>4. ASSUME NEW j \in Jobs, ResolveHandle(j) PROVE WaiterInv'
  BY <1>4, ZenonT(40) DEF ResolveHandle, NoWorker
<1>5. ASSUME NEW j \in Jobs, DispatchCancel(j) PROVE WaiterInv'
  BY <1>5 DEF DispatchCancel, DispatchReturns, resolveWaiter, submitReturns
<1>6. ASSUME NEW j \in Jobs, DispatchResult(j) PROVE WaiterInv'
  BY <1>6 DEF DispatchResult, DispatchReturns, resolveWaiter, submitReturns
<1>7. ASSUME NEW j \in Jobs, AddWaiter(j) PROVE WaiterInv'
  BY <1>7 DEF AddWaiter
<1>8. ASSUME NEW j \in Jobs, EnqueueRejected(j) PROVE WaiterInv'
  BY <1>8 DEF EnqueueRejected, submitReturns
<1>9. ASSUME NEW j \in Jobs, Enqueue(j) PROVE WaiterInv'
  BY <1>9 DEF Enqueue
<1>10. ASSUME NEW j \in Jobs, WaitResult(j) PROVE WaiterInv'
  BY <1>10 DEF WaitResult, submitReturns
<1>11. ASSUME NEW j \in Jobs, WaitCancel(j) PROVE WaiterInv'
  BY <1>11 DEF WaitCancel, submitReturns
<1>12. ASSUME NEW j \in Jobs, PlaceDequeue(j) PROVE WaiterInv'
  BY <1>12, Zenon DEF PlaceDequeue, Front
<1>13. ASSUME NEW j \in Jobs, ParkStop(j) PROVE WaiterInv'
  BY <1>13 DEF ParkStop, resolveWaiter
<1>14. ASSUME CloseStart PROVE WaiterInv'
  BY <1>14, Zenon DEF CloseStart
<1>15. ASSUME CloseLoops PROVE WaiterInv'
  BY <1>15, Zenon DEF CloseLoops
<1>16. ASSUME CloseWaiters PROVE WaiterInv'
  BY <1>16, Zenon DEF CloseWaiters
<1>17. ASSUME UNCHANGED <<caller, waitCh, waiters, queue, placing, closer>> PROVE WaiterInv'
  BY <1>17, Zenon
<1>18. ASSUME NEW h \in Handles, Register(h) \/ SendAck(h) \/ Heartbeat(h)
      \/ MissHeartbeats(h) \/ WriterSend(h) \/ Deregister(h) \/ ReaderExit(h)
      \/ RemoveFromRegistry(h) \/ RemoveFailPending(h) \/ DrainWorker(h)
      \/ ReapWake(h) \/ ReapDelete(h) \/ ReapFailPending(h) \/ EvictDelete(h)
      PROVE  WaiterInv'
  BY <1>17, <1>18, Zenon
     DEF Register, SendAck, Heartbeat, MissHeartbeats, WriterSend,
         Deregister, ReaderExit, RemoveFromRegistry, RemoveFailPending,
         DrainWorker, ReapWake, ReapDelete, ReapFailPending, EvictDelete,
         addWorker, applyHeartbeat, deleteIfCurrent, failAllPending,
         markDraining
<1>19. ASSUME NEW j \in Jobs, CancelCaller(j) \/ AddPending(j) \/ SendJob(j)
      \/ ParkWake(j)
      PROVE  WaiterInv'
  BY <1>17, <1>19, Zenon DEF CancelCaller, AddPending, SendJob, ParkWake
<1>20. CASE PlaceLoopExit \/ EvictScan \/ EvictFailPending \/ EvictLoopExit
      \/ UNCHANGED vars
  BY <1>17, <1>20, Zenon
     DEF PlaceLoopExit, EvictScan, EvictFailPending, EvictLoopExit, vars,
         Fleet, failAllPending
<1>21. ASSUME NEW h \in Handles, NEW j \in Jobs, NEW code \in WorkerCodes,
            Result(h, j, code)
      PROVE  WaiterInv'
  BY <1>17, <1>21, Zenon DEF Result, resolve
<1> QED BY <1>1, <1>2, <1>3, <1>4, <1>5, <1>6, <1>7, <1>8, <1>9, <1>10,
          <1>11, <1>12, <1>13, <1>14, <1>15, <1>16, <1>18, <1>19, <1>20, <1>21, Zenon
        DEF Next, StreamStep, DrainStep, CallerStep, DispatchStep, PlaceStep,
            EvictStep, CloseStep

(* A job no dispatch has sent yet is at no worker.                         *)
Fresh(j) ==
    \/ caller[j] \in {"idle", "called", "enqueue", "offer"}
    \/ j \in queue
    \/ step[j] \in {"pick", "check", "add", "send", "park"}

SentInv ==
    /\ AtMostOneWorker
    /\ \A h \in Handles : sendq[h] \cap running[h] = {}
    /\ \A j \in Jobs : Fresh(j) =>
        j \notin executed /\ \A h \in Handles : j \notin sendq[h] \cup running[h]

(* A step that moves no job between workers and makes none fresh again.    *)
LEMMA SentFrame ==
  ASSUME SentInv, UNCHANGED <<sendq, running, executed>>,
         \A k \in Jobs : Fresh(k)' => Fresh(k)
  PROVE  SentInv'
<1>1. AtMostOneWorker'
  <2> SUFFICES ASSUME NEW j \in Jobs, NEW h \in Handles, j \in sendq[h] \cup running[h]
               PROVE  /\ j \notin queue' \cup executed
                      /\ \A g \in Handles \ {h} : j \notin sendq[g] \cup running[g]
    BY Zenon DEF AtMostOneWorker
  <2>1. ~Fresh(j)'
    BY Zenon DEF SentInv
  <2> QED BY <2>1, Zenon DEF SentInv, AtMostOneWorker, Fresh
<1> QED BY <1>1, Zenon DEF SentInv

(* A worker gives up a job that is nowhere else, maybe having run it.      *)
LEMMA LosesOne ==
  ASSUME SentInv, NEW j \in Jobs, ~Fresh(j), executed' \subseteq executed \cup {j},
         UNCHANGED <<queue, sendq>>, \A k \in Jobs : Fresh(k)' <=> Fresh(k),
         \A g \in Handles : running'[g] \subseteq running[g],
         \A g \in Handles : j \notin sendq'[g] \cup running'[g]
  PROVE  SentInv'
<1>1. AtMostOneWorker'
  <2> SUFFICES ASSUME NEW k \in Jobs, NEW h \in Handles, k \in sendq'[h] \cup running'[h]
               PROVE  /\ k \notin queue' \cup executed'
                      /\ \A g \in Handles \ {h} : k \notin sendq'[g] \cup running'[g]
    BY Zenon DEF AtMostOneWorker
  <2>1. k # j /\ k \in sendq[h] \cup running[h]
    BY Zenon
  <2>2. k \notin queue \cup executed /\ \A g \in Handles \ {h} : k \notin sendq[g] \cup running[g]
    BY <2>1, Zenon DEF SentInv, AtMostOneWorker
  <2> QED BY <2>1, <2>2, Zenon
<1>2. \A h \in Handles : sendq'[h] \cap running'[h] = {}
  BY Zenon DEF SentInv
<1>3. ASSUME NEW k \in Jobs, Fresh(k)'
      PROVE  k \notin executed' /\ \A h \in Handles : k \notin sendq'[h] \cup running'[h]
  BY <1>3, Zenon DEF SentInv
<1> QED BY <1>1, <1>2, <1>3, Zenon DEF SentInv

(* A fresh job goes onto one send channel.                                 *)
LEMMA GainsOne ==
  ASSUME SentInv, NEW j \in Jobs, target[j] \in Handles, Fresh(j), j \notin queue,
         UNCHANGED <<running, executed, queue>>,
         ~Fresh(j)', \A k \in Jobs \ {j} : Fresh(k)' <=> Fresh(k),
         \A g \in Handles : sendq'[g] = IF g = target[j] THEN sendq[g] \cup {j} ELSE sendq[g]
  PROVE  SentInv'
<1>1. j \notin executed /\ \A g \in Handles : j \notin sendq[g] \cup running[g]
  BY Zenon DEF SentInv
<1>2. AtMostOneWorker'
  <2> SUFFICES ASSUME NEW k \in Jobs, NEW h \in Handles, k \in sendq'[h] \cup running'[h]
               PROVE  /\ k \notin queue' \cup executed'
                      /\ \A g \in Handles \ {h} : k \notin sendq'[g] \cup running'[g]
    BY Zenon DEF AtMostOneWorker
  <2>1. CASE k = j
    BY <1>1, <2>1, Zenon
  <2>2. CASE k # j
    <3>1. k \in sendq[h] \cup running[h]
      BY <2>2, Zenon
    <3>2. k \notin queue \cup executed /\ \A g \in Handles \ {h} : k \notin sendq[g] \cup running[g]
      BY <3>1, Zenon DEF SentInv, AtMostOneWorker
    <3> QED BY <2>2, <3>2, ZenonT(30)
  <2> QED BY <2>1, <2>2, Zenon
<1>3. \A h \in Handles : sendq'[h] \cap running'[h] = {}
  BY <1>1, Zenon DEF SentInv
<1>4. ASSUME NEW k \in Jobs, Fresh(k)'
      PROVE  k \notin executed' /\ \A h \in Handles : k \notin sendq'[h] \cup running'[h]
  <2>1. k # j /\ Fresh(k)
    BY <1>4, Zenon
  <2>2. k \notin executed /\ \A h \in Handles : k \notin sendq[h] \cup running[h]
    BY <2>1, Zenon DEF SentInv
  <2> QED BY <2>1, <2>2, ZenonT(40)
<1> QED BY <1>2, <1>3, <1>4, Zenon DEF SentInv

(* A job is sent once, from a fresh state, to one worker.                  *)
LEMMA SentStep ==
  TypeOK /\ ControlInv /\ SentInv /\ [Next]_vars => SentInv'
<1> SUFFICES ASSUME TypeOK, ControlInv, SentInv, [Next]_vars
             PROVE  SentInv'
  OBVIOUS
<1>0. /\ sendq \in [Handles -> SUBSET Jobs]
      /\ running \in [Handles -> SUBSET Jobs]
      /\ executed \subseteq Jobs
      /\ queue \subseteq Jobs
      /\ step \in [Jobs -> Steps]
      /\ caller \in [Jobs -> CallerStates]
      /\ \A j \in Jobs : step[j] \in {"add", "send", "await"} => target[j] \in Handles
  BY Zenon DEF TypeOK, JobTypes, CallerTypes
<1> USE DEF jobVars, dispatchVars, callerVars, queueVars
<1>1. ASSUME NEW h \in Handles, WriterSend(h) PROVE SentInv'
  <2>1. PICK j \in sendq[h] :
          /\ sendq' = [sendq EXCEPT ![h] = @ \ {j}]
          /\ running' = [running EXCEPT ![h] = @ \cup {j}] \/ running' = running
    BY <1>1, Zenon DEF WriterSend
  <2>2. \A g \in Handles : sendq'[g] \cup running'[g] \subseteq sendq[g] \cup running[g]
    BY <1>0, <2>1
  <2>3. \A g \in Handles : sendq'[g] \cap running'[g] = {}
    BY <1>0, <2>1, Zenon DEF SentInv
  <2>4. UNCHANGED <<executed, queue, step, caller>>
    BY <1>1, Zenon DEF WriterSend
  <2>5. \A k \in Jobs : Fresh(k)' <=> Fresh(k)
    BY <2>4, Zenon DEF Fresh
  <2>6. AtMostOneWorker'
    BY <2>2, <2>4, Zenon DEF SentInv, AtMostOneWorker
  <2> QED BY <2>2, <2>3, <2>4, <2>5, <2>6, Zenon DEF SentInv
<1>2. ASSUME NEW h \in Handles, NEW j \in Jobs, NEW code \in WorkerCodes,
            Result(h, j, code)
      PROVE  SentInv'
  <2>1. /\ running' = [running EXCEPT ![h] = @ \ {j}]
        /\ sendq' = sendq
        /\ executed' \subseteq executed \cup {j}
        /\ UNCHANGED <<queue, step, caller>>
    BY <1>2, Zenon DEF Result
  <2>2. \A k \in Jobs : Fresh(k)' <=> Fresh(k)
    BY <2>1, Zenon DEF Fresh
  <2>3. running'[h] = running[h] \ {j} /\ \A g \in Handles \ {h} : running'[g] = running[g]
    BY <1>0, <2>1, Zenon
  <2>4. j \in running[h]
    BY <1>2, Zenon DEF Result
  <2>5. ~Fresh(j)
    BY <2>4, Zenon DEF SentInv
  <2>6. \A g \in Handles \ {h} : j \notin sendq[g] /\ j \notin running[g]
    BY <2>4, Zenon DEF SentInv, AtMostOneWorker
  <2>7. j \notin sendq[h]
    BY <2>4, Zenon DEF SentInv
  <2>8. ASSUME NEW g \in Handles PROVE j \notin sendq'[g] \cup running'[g]
    <3>1. CASE g = h
      BY <2>1, <2>3, <2>7, <3>1, Zenon
    <3>2. CASE g # h
      BY <2>1, <2>3, <2>6, <3>2, Zenon
    <3> QED BY <3>1, <3>2, Zenon
  <2>9. \A g \in Handles : running'[g] \subseteq running[g]
    BY <2>3, Zenon
  <2>10. SentInv'
    BY <2>1, <2>2, <2>5, <2>8, <2>9, LosesOne, Zenon
  <2> QED BY <2>10, Zenon
<1>3. ASSUME NEW j \in Jobs, Submit(j) PROVE SentInv'
  <2>1. \A k \in Jobs : Fresh(k)' => Fresh(k)
    BY <1>0, <1>3, NoneFresh, Zenon DEF Submit, Fresh, ControlInv
  <2>2. UNCHANGED <<sendq, running, executed>>
    BY <1>3, Zenon DEF Submit
  <2> QED BY <2>1, <2>2, SentFrame, Zenon
<1>4. ASSUME NEW j \in Jobs, CheckServed(j) PROVE SentInv'
  <2>1. \A k \in Jobs : Fresh(k)' => Fresh(k)
    BY <1>0, <1>4, NoneFresh, Zenon DEF CheckServed, submitReturns, Fresh, ControlInv
  <2>2. UNCHANGED <<sendq, running, executed>>
    BY <1>4, Zenon DEF CheckServed
  <2> QED BY <2>1, <2>2, SentFrame
<1>5. ASSUME NEW j \in Jobs, PickFromSnapshot(j) PROVE SentInv'
  <2>1. \A k \in Jobs : Fresh(k)' => Fresh(k)
    BY <1>0, <1>5, NoneFresh, Zenon DEF PickFromSnapshot, NoWorker, Fresh, ControlInv
  <2>2. UNCHANGED <<sendq, running, executed>>
    BY <1>5, Zenon DEF PickFromSnapshot
  <2> QED BY <2>1, <2>2, SentFrame
<1>6. ASSUME NEW j \in Jobs, ResolveHandle(j) PROVE SentInv'
  <2>1. \A k \in Jobs : Fresh(k)' => Fresh(k)
    BY <1>0, <1>6, NoneFresh, Zenon DEF ResolveHandle, NoWorker, Fresh, ControlInv
  <2>2. UNCHANGED <<sendq, running, executed>>
    BY <1>6, Zenon DEF ResolveHandle
  <2> QED BY <2>1, <2>2, SentFrame
<1>7. ASSUME NEW j \in Jobs, AddPending(j) PROVE SentInv'
  <2>1. \A k \in Jobs : Fresh(k)' => Fresh(k)
    BY <1>0, <1>7, NoneFresh, Zenon DEF AddPending, Fresh, ControlInv
  <2>2. UNCHANGED <<sendq, running, executed>>
    BY <1>7, Zenon DEF AddPending
  <2> QED BY <2>1, <2>2, SentFrame
<1>8. ASSUME NEW j \in Jobs, SendJob(j) PROVE SentInv'
  <2>1. target[j] \in Handles /\ Fresh(j) /\ j \notin queue
    BY <1>0, <1>8, Zenon DEF SendJob, Fresh, ControlInv
  <2>2. sendq' = [sendq EXCEPT ![target[j]] = @ \cup {j}] /\ UNCHANGED <<running, executed, queue>>
    BY <1>8, Zenon DEF SendJob
  <2>3. ~Fresh(j)' /\ \A k \in Jobs \ {j} : Fresh(k)' <=> Fresh(k)
    BY <1>0, <1>8, NoneFresh, Zenon DEF SendJob, Fresh, ControlInv
  <2>4. \A g \in Handles : sendq'[g] = IF g = target[j] THEN sendq[g] \cup {j} ELSE sendq[g]
    BY <1>0, <2>1, <2>2, Zenon
  <2> QED BY <2>1, <2>2, <2>3, <2>4, GainsOne, Zenon
<1>9. ASSUME NEW j \in Jobs, DispatchCancel(j) PROVE SentInv'
  <2>1. \A k \in Jobs : Fresh(k)' => Fresh(k)
    BY <1>0, <1>9, NoneFresh, Zenon DEF DispatchCancel, DispatchReturns, submitReturns, Fresh, ControlInv
  <2>2. UNCHANGED <<sendq, running, executed>>
    BY <1>9, Zenon DEF DispatchCancel
  <2> QED BY <2>1, <2>2, SentFrame
<1>10. ASSUME NEW j \in Jobs, DispatchResult(j) PROVE SentInv'
  <2>1. \A k \in Jobs : Fresh(k)' => Fresh(k)
    BY <1>0, <1>10, NoneFresh, Zenon DEF DispatchResult, DispatchReturns, submitReturns, Fresh, ControlInv
  <2>2. UNCHANGED <<sendq, running, executed>>
    BY <1>10, Zenon DEF DispatchResult
  <2> QED BY <2>1, <2>2, SentFrame
<1>11. ASSUME NEW j \in Jobs, AddWaiter(j) PROVE SentInv'
  <2>1. \A k \in Jobs : Fresh(k)' => Fresh(k)
    BY <1>0, <1>11, NoneFresh, Zenon DEF AddWaiter, Fresh, ControlInv
  <2>2. UNCHANGED <<sendq, running, executed>>
    BY <1>11, Zenon DEF AddWaiter
  <2> QED BY <2>1, <2>2, SentFrame
<1>12. ASSUME NEW j \in Jobs, EnqueueRejected(j) PROVE SentInv'
  <2>1. \A k \in Jobs : Fresh(k)' => Fresh(k)
    BY <1>0, <1>12, NoneFresh, Zenon DEF EnqueueRejected, submitReturns, Fresh, ControlInv
  <2>2. UNCHANGED <<sendq, running, executed>>
    BY <1>12, Zenon DEF EnqueueRejected
  <2> QED BY <2>1, <2>2, SentFrame
<1>13. ASSUME NEW j \in Jobs, Enqueue(j) PROVE SentInv'
  <2>1. \A k \in Jobs : Fresh(k)' => Fresh(k)
    BY <1>0, <1>13, NoneFresh, Zenon DEF Enqueue, Fresh, ControlInv
  <2>2. UNCHANGED <<sendq, running, executed>>
    BY <1>13, Zenon DEF Enqueue
  <2> QED BY <2>1, <2>2, SentFrame
<1>14. ASSUME NEW j \in Jobs, WaitResult(j) PROVE SentInv'
  <2>1. \A k \in Jobs : Fresh(k)' => Fresh(k)
    BY <1>0, <1>14, NoneFresh, Zenon DEF WaitResult, submitReturns, Fresh, ControlInv
  <2>2. UNCHANGED <<sendq, running, executed>>
    BY <1>14, Zenon DEF WaitResult
  <2> QED BY <2>1, <2>2, SentFrame
<1>15. ASSUME NEW j \in Jobs, WaitCancel(j) PROVE SentInv'
  <2>1. \A k \in Jobs : Fresh(k)' => Fresh(k)
    BY <1>0, <1>15, NoneFresh, Zenon DEF WaitCancel, submitReturns, Fresh, ControlInv
  <2>2. UNCHANGED <<sendq, running, executed>>
    BY <1>15, Zenon DEF WaitCancel
  <2> QED BY <2>1, <2>2, SentFrame
<1>16. ASSUME NEW j \in Jobs, PlaceDequeue(j) PROVE SentInv'
  <2>1. \A k \in Jobs : Fresh(k)' => Fresh(k)
    BY <1>0, <1>16, NoneFresh, Zenon DEF PlaceDequeue, Front, Fresh, ControlInv
  <2>2. UNCHANGED <<sendq, running, executed>>
    BY <1>16, Zenon DEF PlaceDequeue
  <2> QED BY <2>1, <2>2, SentFrame
<1>17. ASSUME NEW j \in Jobs, ParkWake(j) PROVE SentInv'
  <2>1. \A k \in Jobs : Fresh(k)' => Fresh(k)
    BY <1>0, <1>17, NoneFresh, Zenon DEF ParkWake, Fresh, ControlInv
  <2>2. UNCHANGED <<sendq, running, executed>>
    BY <1>17, Zenon DEF ParkWake
  <2> QED BY <2>1, <2>2, SentFrame
<1>18. ASSUME NEW j \in Jobs, ParkStop(j) PROVE SentInv'
  <2>1. \A k \in Jobs : Fresh(k)' => Fresh(k)
    BY <1>0, <1>18, NoneFresh, Zenon DEF ParkStop, Fresh, ControlInv
  <2>2. UNCHANGED <<sendq, running, executed>>
    BY <1>18, Zenon DEF ParkStop
  <2> QED BY <2>1, <2>2, SentFrame
<1>19. ASSUME UNCHANGED <<sendq, running, executed, caller, queue, step>> PROVE SentInv'
  BY <1>19, SentFrame, Zenon DEF Fresh
<1>20. ASSUME NEW h \in Handles, Register(h) \/ SendAck(h) \/ Heartbeat(h)
      \/ MissHeartbeats(h) \/ Deregister(h) \/ ReaderExit(h)
      \/ RemoveFromRegistry(h) \/ RemoveFailPending(h) \/ DrainWorker(h)
      \/ ReapWake(h) \/ ReapDelete(h) \/ ReapFailPending(h) \/ EvictDelete(h)
      PROVE  SentInv'
  BY <1>19, <1>20, Zenon
     DEF Register, SendAck, Heartbeat, MissHeartbeats, Deregister,
         ReaderExit, RemoveFromRegistry, RemoveFailPending, DrainWorker,
         ReapWake, ReapDelete, ReapFailPending, EvictDelete, addWorker,
         applyHeartbeat, deleteIfCurrent, failAllPending, markDraining
<1>21. ASSUME NEW j \in Jobs, CancelCaller(j)
      PROVE  SentInv'
  BY <1>19, <1>21, Zenon DEF CancelCaller
<1>22. CASE PlaceLoopExit \/ EvictScan \/ EvictFailPending \/ EvictLoopExit
      \/ CloseStart \/ CloseLoops \/ CloseWaiters \/ UNCHANGED vars
  BY <1>19, <1>22, Zenon
     DEF PlaceLoopExit, EvictScan, EvictFailPending, EvictLoopExit,
         CloseStart, CloseLoops, CloseWaiters, vars, Fleet, failAllPending
<1> QED BY <1>1, <1>2, <1>3, <1>4, <1>5, <1>6, <1>7, <1>8, <1>9, <1>10,
          <1>11, <1>12, <1>13, <1>14, <1>15, <1>16, <1>17, <1>18, <1>20,
          <1>21, <1>22, Zenon
        DEF Next, StreamStep, DrainStep, CallerStep, DispatchStep, PlaceStep,
            EvictStep, CloseStep

(* An "ok" on a channel comes from a worker that ran the job.              *)
OkInv == \A j \in Jobs : resCh[j] = "ok" \/ waitCh[j] = "ok" => j \in executed

(* Success is never made up on the way to the caller.                      *)
LEMMA OkStep ==
  TypeOK /\ OkInv /\ [Next]_vars => OkInv'
<1> SUFFICES ASSUME TypeOK, OkInv, [Next]_vars
             PROVE  OkInv'
  BY Zenon
<1>0. /\ resCh \in [Jobs -> Chan]
      /\ waitCh \in [Jobs -> Chan]
      /\ waiters \subseteq Jobs
      /\ executed \subseteq Jobs
      /\ pending \in [Handles -> SUBSET Jobs]
  BY Zenon DEF TypeOK, StreamTypes, JobTypes, CallerTypes, LoopTypes
<1> USE <1>0 DEF OkInv, jobVars, dispatchVars, queueVars
<1>1. ASSUME NEW h \in Handles, RemoveFailPending(h) PROVE OkInv'
  BY <1>1, Zenon DEF RemoveFailPending, failAllPending
<1>2. ASSUME NEW h \in Handles, ReapFailPending(h) PROVE OkInv'
  BY <1>2, Zenon DEF ReapFailPending, failAllPending
<1>3. ASSUME NEW h \in Handles, NEW j \in Jobs, NEW code \in WorkerCodes,
            Result(h, j, code)
      PROVE  OkInv'
  BY <1>3, Zenon DEF Result, resolve
<1>4. ASSUME NEW j \in Jobs, AddPending(j) PROVE OkInv'
  BY <1>4, Zenon DEF AddPending
<1>5. ASSUME NEW j \in Jobs, DispatchCancel(j) PROVE OkInv'
  BY <1>5, Zenon DEF DispatchCancel, DispatchReturns, resolveWaiter, submitReturns
<1>6. ASSUME NEW j \in Jobs, DispatchResult(j) PROVE OkInv'
  BY <1>6, Zenon DEF DispatchResult, DispatchReturns, resolveWaiter, submitReturns
<1>7. ASSUME NEW j \in Jobs, AddWaiter(j) PROVE OkInv'
  BY <1>7, Zenon DEF AddWaiter
<1>8. ASSUME NEW j \in Jobs, WaitResult(j) PROVE OkInv'
  BY <1>8, Zenon DEF WaitResult, submitReturns
<1>9. ASSUME NEW j \in Jobs, ParkStop(j) PROVE OkInv'
  BY <1>9, Zenon DEF ParkStop, resolveWaiter
<1>10. ASSUME EvictFailPending PROVE OkInv'
  BY <1>10, Zenon DEF EvictFailPending, failAllPending
<1>11. ASSUME CloseWaiters PROVE OkInv'
  BY <1>11, Zenon DEF CloseWaiters
<1>12. ASSUME UNCHANGED <<resCh, waitCh, executed>> PROVE OkInv'
  BY <1>12, Zenon
<1>13. ASSUME NEW h \in Handles, Register(h) \/ SendAck(h) \/ Heartbeat(h)
      \/ MissHeartbeats(h) \/ WriterSend(h) \/ Deregister(h) \/ ReaderExit(h)
      \/ RemoveFromRegistry(h) \/ DrainWorker(h) \/ ReapWake(h)
      \/ ReapDelete(h) \/ EvictDelete(h)
      PROVE  OkInv'
  BY <1>12, <1>13, Zenon
     DEF Register, SendAck, Heartbeat, MissHeartbeats, WriterSend,
         Deregister, ReaderExit, RemoveFromRegistry, DrainWorker, ReapWake,
         ReapDelete, EvictDelete, addWorker, applyHeartbeat, deleteIfCurrent,
         markDraining
<1>14. ASSUME NEW j \in Jobs, Submit(j) \/ CancelCaller(j) \/ CheckServed(j)
      \/ PickFromSnapshot(j) \/ ResolveHandle(j) \/ SendJob(j)
      \/ EnqueueRejected(j) \/ Enqueue(j) \/ WaitCancel(j) \/ PlaceDequeue(j)
      \/ ParkWake(j)
      PROVE  OkInv'
  BY <1>12, <1>14, Zenon
     DEF Submit, CancelCaller, CheckServed, PickFromSnapshot, ResolveHandle,
         SendJob, EnqueueRejected, Enqueue, WaitCancel, PlaceDequeue,
         ParkWake, Front, NoWorker, submitReturns
<1>15. CASE PlaceLoopExit \/ EvictScan \/ EvictLoopExit \/ CloseStart
      \/ CloseLoops \/ UNCHANGED vars
  BY <1>12, <1>15, Zenon
     DEF PlaceLoopExit, EvictScan, EvictLoopExit, CloseStart, CloseLoops,
         vars, Fleet
<1> QED BY <1>1, <1>2, <1>3, <1>4, <1>5, <1>6, <1>7, <1>8, <1>9, <1>10,
          <1>11, <1>13, <1>14, <1>15, Zenon
        DEF Next, StreamStep, DrainStep, CallerStep, DispatchStep, PlaceStep,
            EvictStep, CloseStep

(* Sessions are numbered in the order of registration.                     *)
RegistryInv == RegistryLive /\ \A h \in Handles : ses[h] <= nextSes

(* The registry holds only handles whose Connect is running.               *)
LEMMA RegistryStep ==
  TypeOK /\ RegistryInv /\ [Next]_vars => RegistryInv'
<1> SUFFICES ASSUME TypeOK, RegistryInv, [Next]_vars
             PROVE  RegistryInv'
  OBVIOUS
<1>0. /\ registry \in [Ids -> Handles \cup {None}]
      /\ ses \in [Handles -> Nat] /\ nextSes \in Nat
      /\ conn \in [Handles -> ConnStates]
  BY Zenon DEF TypeOK, StreamTypes, JobTypes, CallerTypes, LoopTypes
<1> USE <1>0, HandleIds, NoneFresh DEF RegistryInv, RegistryLive, registryVars, streamVars
<1>1. ASSUME NEW h \in Handles, Register(h) PROVE RegistryInv'
  BY <1>1 DEF Register, addWorker
<1>2. ASSUME NEW h \in Handles, SendAck(h) PROVE RegistryInv'
  <2>1. UNCHANGED <<registry, ses, nextSes>>
    BY <1>2, Zenon DEF SendAck
  <2>2. \A i \in Ids : registry[i] # None => conn'[registry[i]] \in {"acking", "live", "leaving"}
    BY <1>2 DEF SendAck
  <2> QED BY <2>1, <2>2, Zenon
<1>3. ASSUME NEW h \in Handles, ReaderExit(h) PROVE RegistryInv'
  <2>1. UNCHANGED <<registry, ses, nextSes>>
    BY <1>3, Zenon DEF ReaderExit
  <2>2. \A i \in Ids : registry[i] # None => conn'[registry[i]] \in {"acking", "live", "leaving"}
    BY <1>3 DEF ReaderExit
  <2> QED BY <2>1, <2>2
<1>4. ASSUME NEW h \in Handles, RemoveFromRegistry(h) PROVE RegistryInv'
  BY <1>4 DEF RemoveFromRegistry, deleteIfCurrent
<1>5. ASSUME NEW h \in Handles, RemoveFailPending(h) PROVE RegistryInv'
  <2>1. UNCHANGED <<registry, ses, nextSes>>
    BY <1>5, Zenon DEF RemoveFailPending
  <2>2. \A i \in Ids : registry[i] # None => conn'[registry[i]] \in {"acking", "live", "leaving"}
    BY <1>5 DEF RemoveFailPending
  <2> QED BY <2>1, <2>2
<1>6. ASSUME NEW h \in Handles, ReapDelete(h) PROVE RegistryInv'
  BY <1>6, Zenon DEF ReapDelete, deleteIfCurrent
<1>7. ASSUME NEW h \in Handles, EvictDelete(h) PROVE RegistryInv'
  BY <1>7, Zenon DEF EvictDelete, deleteIfCurrent
<1>8. ASSUME UNCHANGED <<registry, ses, nextSes, conn>> PROVE RegistryInv'
  BY <1>8, Zenon
<1>9. ASSUME NEW h \in Handles, Heartbeat(h) \/ MissHeartbeats(h)
      \/ WriterSend(h) \/ Deregister(h) \/ DrainWorker(h) \/ ReapWake(h)
      \/ ReapFailPending(h)
      PROVE  RegistryInv'
  BY <1>8, <1>9, Zenon
     DEF Heartbeat, MissHeartbeats, WriterSend, Deregister, DrainWorker,
         ReapWake, ReapFailPending, applyHeartbeat, failAllPending,
         markDraining
<1>10. ASSUME NEW j \in Jobs, Submit(j) \/ CancelCaller(j) \/ CheckServed(j)
      \/ PickFromSnapshot(j) \/ ResolveHandle(j) \/ AddPending(j)
      \/ SendJob(j) \/ DispatchCancel(j) \/ DispatchResult(j) \/ AddWaiter(j)
      \/ EnqueueRejected(j) \/ Enqueue(j) \/ WaitResult(j) \/ WaitCancel(j)
      \/ PlaceDequeue(j) \/ ParkWake(j) \/ ParkStop(j)
      PROVE  RegistryInv'
  BY <1>8, <1>10, Zenon
     DEF Submit, CancelCaller, CheckServed, PickFromSnapshot, ResolveHandle,
         AddPending, SendJob, DispatchCancel, DispatchResult, AddWaiter,
         EnqueueRejected, Enqueue, WaitResult, WaitCancel, PlaceDequeue,
         ParkWake, ParkStop, DispatchReturns, Front, NoWorker, resolveWaiter,
         submitReturns
<1>11. CASE PlaceLoopExit \/ EvictScan \/ EvictFailPending \/ EvictLoopExit
      \/ CloseStart \/ CloseLoops \/ CloseWaiters \/ UNCHANGED vars
  BY <1>8, <1>11, Zenon
     DEF PlaceLoopExit, EvictScan, EvictFailPending, EvictLoopExit,
         CloseStart, CloseLoops, CloseWaiters, vars, Fleet, failAllPending
<1>12. ASSUME NEW h \in Handles, NEW j \in Jobs, NEW code \in WorkerCodes,
            Result(h, j, code)
      PROVE  RegistryInv'
  BY <1>8, <1>12, Zenon DEF Result, resolve
<1> QED BY <1>1, <1>2, <1>3, <1>4, <1>5, <1>6, <1>7, <1>9, <1>10, <1>11, <1>12, Zenon
        DEF Next, StreamStep, DrainStep, CallerStep, DispatchStep, PlaceStep,
            EvictStep, CloseStep

-----------------------------------------------------------------------------
(* The inductive invariant of the dispatcher.                              *)
IInv == TypeOK /\ ControlInv /\ PendingOwned /\ WaiterInv /\ SentInv /\ OkInv /\ RegistryInv

(* IInv holds in every state of the dispatcher.                            *)
THEOREM Invariance == Spec => []IInv
<1>1. Init => IInv
  <2> SUFFICES ASSUME Init PROVE IInv
    BY Zenon
  <2>1. TypeOK
    BY InitType, Zenon
  <2>2. ControlInv /\ PendingOwned
    BY NoneFresh, Zenon DEF Init, ControlInv, PendingOwned
  <2>3. WaiterInv /\ OkInv
    BY Zenon DEF Init, WaiterInv, QueuedJobCovered, WaitersOwned, OkInv
  <2>4. SentInv
    BY Zenon DEF Init, SentInv, AtMostOneWorker
  <2>5. RegistryInv
    BY SMTT(30) DEF Init, RegistryInv, RegistryLive
  <2> QED BY <2>1, <2>2, <2>3, <2>4, <2>5, Zenon DEF IInv
<1>2. IInv /\ [Next]_vars => IInv'
  <2>1. TypeOK /\ [Next]_vars => TypeOK'
    BY StreamTypeStep, JobTypeStep, CallerTypeStep, LoopTypeStep, Zenon DEF TypeOK
  <2> QED BY <2>1, ControlStep, PendingStep, WaiterStep, SentStep, OkStep, RegistryStep, Zenon DEF IInv
<1> QED BY <1>1, <1>2, PTL DEF Spec

(* No pending entry leaks, and a job's one-slot result channel is empty    *)
(* whenever some resolver can still reach it: resolve and failAllPending   *)
(* never block, however reader loop, evictor, reaper and teardown race.    *)
THEOREM PendingEntriesOwned == Spec => []PendingOwned
<1>1. IInv => PendingOwned
  BY Zenon DEF IInv
<1> QED BY <1>1, Invariance, PTL

(* A caller blocked on its waiter can always still be answered, and no     *)
(* waiter outlives its caller.                                             *)
THEOREM QueuedCallersCovered == Spec => [](QueuedJobCovered /\ WaitersOwned)
<1>1. IInv => QueuedJobCovered /\ WaitersOwned
  BY Zenon DEF IInv, WaiterInv
<1> QED BY <1>1, Invariance, PTL

(* A job is never at two workers, nor at one while queued or after it ran. *)
THEOREM DispatchedOnce == Spec => []AtMostOneWorker
<1>1. IInv => AtMostOneWorker
  BY Zenon DEF IInv, SentInv
<1> QED BY <1>1, Invariance, PTL

(* The registry never names a stream whose Connect has ended.              *)
THEOREM RegisteredStreamsLive == Spec => []RegistryLive
<1>1. IInv => RegistryLive
  BY Zenon DEF IInv, RegistryInv
<1> QED BY <1>1, Invariance, PTL

(* What RegistryOwned says of one step.                                    *)
RegistryStepOwned == \A i \in Ids : RegistryChange(i)

(* No step removes or replaces a registry entry it does not own.           *)
LEMMA RegistryOwnedStep == TypeOK /\ RegistryInv /\ [Next]_vars => RegistryStepOwned
<1> SUFFICES ASSUME TypeOK, RegistryInv, [Next]_vars PROVE RegistryStepOwned
  BY Zenon
<1>0. /\ registry \in [Ids -> Handles \cup {None}]
      /\ ses \in [Handles -> Nat] /\ nextSes \in Nat
  BY Zenon DEF TypeOK, StreamTypes
<1> USE <1>0, HandleIds, NoneFresh DEF RegistryStepOwned, RegistryChange, RegistryInv,
        RegistryLive, registryVars
<1>1. ASSUME NEW h \in Handles, Register(h) PROVE RegistryStepOwned
  <2>1. ses'[h] = nextSes + 1 /\ \A i \in Ids : registry'[i] = IF i = IdOf[h] THEN h ELSE registry[i]
    BY <1>1, Zenon DEF Register, addWorker
  <2>2. \A i \in Ids : registry[i] # None => ses[registry[i]] < nextSes + 1 /\ registry[i] \in Handles
    OBVIOUS
  <2>3. ASSUME NEW i \in Ids, registry[i] # None, registry'[i] # registry[i]
        PROVE  registry'[i] # None /\ ses'[registry'[i]] > ses[registry[i]]
    BY <2>1, <2>2, <2>3, SMTT(30)
  <2> QED BY <2>3, Zenon
<1>2. ASSUME NEW h \in Handles, RemoveFromRegistry(h) PROVE RegistryStepOwned
  BY <1>2, Zenon DEF RemoveFromRegistry, deleteIfCurrent
<1>3. ASSUME NEW h \in Handles, ReapDelete(h) PROVE RegistryStepOwned
  BY <1>3, Zenon DEF ReapDelete, deleteIfCurrent
<1>4. ASSUME NEW h \in Handles, EvictDelete(h) PROVE RegistryStepOwned
  BY <1>4 DEF EvictDelete, deleteIfCurrent
<1>5. ASSUME UNCHANGED <<registry>> PROVE RegistryStepOwned
  BY <1>5, Zenon
<1>6. ASSUME NEW h \in Handles, SendAck(h) \/ Heartbeat(h)
      \/ MissHeartbeats(h) \/ WriterSend(h) \/ Deregister(h) \/ ReaderExit(h)
      \/ RemoveFailPending(h) \/ DrainWorker(h) \/ ReapWake(h)
      \/ ReapFailPending(h)
      PROVE  RegistryStepOwned
  BY <1>5, <1>6, Zenon
     DEF SendAck, Heartbeat, MissHeartbeats, WriterSend, Deregister,
         ReaderExit, RemoveFailPending, DrainWorker, ReapWake,
         ReapFailPending, applyHeartbeat, failAllPending, markDraining
<1>7. ASSUME NEW j \in Jobs, Submit(j) \/ CancelCaller(j) \/ CheckServed(j)
      \/ PickFromSnapshot(j) \/ ResolveHandle(j) \/ AddPending(j)
      \/ SendJob(j) \/ DispatchCancel(j) \/ DispatchResult(j) \/ AddWaiter(j)
      \/ EnqueueRejected(j) \/ Enqueue(j) \/ WaitResult(j) \/ WaitCancel(j)
      \/ PlaceDequeue(j) \/ ParkWake(j) \/ ParkStop(j)
      PROVE  RegistryStepOwned
  BY <1>5, <1>7, Zenon
     DEF Submit, CancelCaller, CheckServed, PickFromSnapshot, ResolveHandle,
         AddPending, SendJob, DispatchCancel, DispatchResult, AddWaiter,
         EnqueueRejected, Enqueue, WaitResult, WaitCancel, PlaceDequeue,
         ParkWake, ParkStop, DispatchReturns, Front, NoWorker, resolveWaiter,
         submitReturns
<1>8. CASE PlaceLoopExit \/ EvictScan \/ EvictFailPending \/ EvictLoopExit
      \/ CloseStart \/ CloseLoops \/ CloseWaiters \/ UNCHANGED vars
  BY <1>5, <1>8, Zenon
     DEF PlaceLoopExit, EvictScan, EvictFailPending, EvictLoopExit,
         CloseStart, CloseLoops, CloseWaiters, vars, Fleet, failAllPending
<1>9. ASSUME NEW h \in Handles, NEW j \in Jobs, NEW code \in WorkerCodes,
            Result(h, j, code)
      PROVE  RegistryStepOwned
  BY <1>5, <1>9, Zenon DEF Result, resolve
<1> QED BY <1>1, <1>2, <1>3, <1>4, <1>6, <1>7, <1>8, <1>9, Zenon
        DEF Next, StreamStep, DrainStep, CallerStep, DispatchStep, PlaceStep,
            EvictStep, CloseStep

(* A reconnected worker is never removed on behalf of the stream it        *)
(* replaced.                                                               *)
THEOREM ReconnectSafe == Spec => RegistryOwned
<1>1. IInv /\ [Next]_vars => [\A i \in Ids : RegistryChange(i)]_vars
  BY RegistryOwnedStep, Zenon DEF IInv, RegistryStepOwned
<1> QED BY <1>1, Invariance, PTL DEF Spec, RegistryOwned

-----------------------------------------------------------------------------
(* The dispatcher's steps seen by the callers.                             *)
ServiceStep == Service!Next \/ UNCHANGED Service!vars

(* submit returning is the end of the job.                                 *)
LEMMA ReturnsEnd ==
  ASSUME TypeOK, NEW j \in Jobs, NEW o \in Outcomes, submitReturns(j, o),
         caller[j] \notin {"idle", "done"}, o = "ok" => j \in executed,
         executed' = executed
  PROVE  ServiceStep
<1>1. Service!End(j, o)
  <2>1. o # "empty"
    BY Zenon DEF Outcomes, WorkerCodes, DropCodes, CallCodes
  <2> QED BY <2>1, Zenon DEF Service!End, submitReturns, TypeOK, CallerTypes
<1> QED BY <1>1, Zenon DEF ServiceStep, Service!Next

(* A caller that stays inside submit shows nothing.                        *)
LEMMA StaysOpen ==
  ASSUME TypeOK, NEW j \in Jobs, NEW s \in CallerStates, s \notin {"idle", "done"},
         caller[j] \notin {"idle", "done"}, caller' = [caller EXCEPT ![j] = s],
         UNCHANGED <<outcome, executed>>
  PROVE  ServiceStep
  BY Zenon DEF ServiceStep, Service!vars, TypeOK, CallerTypes

(* Every step of the dispatcher is a step of the service or hidden.        *)
LEMMA ServiceRefined == IInv /\ [Next]_vars => ServiceStep
<1> SUFFICES ASSUME IInv, [Next]_vars PROVE ServiceStep
  BY Zenon
<1> USE NoneFresh DEF IInv, ControlInv, OkInv, TypeOK, JobTypes, CallerTypes, CallerStates,
        registryVars, streamVars, jobVars, dispatchVars, queueVars, callerVars, evictVars
<1>1. ASSUME NEW h \in Handles, NEW j \in Jobs, NEW code \in WorkerCodes,
            Result(h, j, code)
      PROVE  ServiceStep
  <2>1. j \notin executed /\ caller[j] # "idle"
    BY <1>1, Zenon DEF Result, SentInv, AtMostOneWorker, Fresh
  <2>2. CASE code = "ok"
    <3>1. Service!Execute(j)
      BY <1>1, <2>1, <2>2, Zenon DEF Result, Service!Execute
    <3> QED BY <3>1, Zenon DEF ServiceStep, Service!Next
  <2>3. CASE code # "ok"
    BY <1>1, <2>3, Zenon DEF Result, ServiceStep, Service!vars
  <2> QED BY <2>2, <2>3, Zenon
<1>2. ASSUME NEW j \in Jobs, Submit(j) PROVE ServiceStep
  <2>1. Service!Submit(j)
    BY <1>2, Zenon DEF Submit, Service!Submit
  <2> QED BY <2>1, Zenon DEF ServiceStep, Service!Next
<1>3. ASSUME NEW j \in Jobs, CheckServed(j) PROVE ServiceStep
  <2>1. CASE submitReturns(j, "model_unavailable")
    BY <1>3, <2>1, ReturnsEnd, Zenon DEF CheckServed, Outcomes, CallCodes
  <2>2. CASE ~submitReturns(j, "model_unavailable")
    BY <1>3, <2>2, StaysOpen, Zenon DEF CheckServed
  <2> QED BY <2>1, <2>2, Zenon
<1>4. ASSUME NEW j \in Jobs, PickFromSnapshot(j) PROVE ServiceStep
  <2>1. ASSUME UNCHANGED caller PROVE ServiceStep
    BY <1>4, <2>1, Zenon DEF PickFromSnapshot, ServiceStep, Service!vars
  <2>2. CASE ~UNCHANGED caller
    BY <1>4, <2>2, StaysOpen, Zenon DEF PickFromSnapshot, NoWorker
  <2> QED BY <2>1, <2>2, Zenon
<1>5. ASSUME NEW j \in Jobs, ResolveHandle(j) PROVE ServiceStep
  <2>1. ASSUME UNCHANGED caller PROVE ServiceStep
    BY <1>5, <2>1, Zenon DEF ResolveHandle, ServiceStep, Service!vars
  <2>2. CASE ~UNCHANGED caller
    BY <1>5, <2>2, StaysOpen, Zenon DEF ResolveHandle, NoWorker
  <2> QED BY <2>1, <2>2
<1>6. ASSUME NEW j \in Jobs, DispatchCancel(j) PROVE ServiceStep
  <2>1. CASE placing = j
    BY <1>6, <2>1, Zenon DEF DispatchCancel, DispatchReturns, ServiceStep, Service!vars
  <2>2. CASE placing # j
    BY <1>6, <2>2, ReturnsEnd, Zenon DEF DispatchCancel, DispatchReturns, Outcomes, CallCodes
  <2> QED BY <2>1, <2>2, Zenon
<1>7. ASSUME NEW j \in Jobs, DispatchResult(j) PROVE ServiceStep
  <2>1. CASE placing = j
    BY <1>7, <2>1, Zenon DEF DispatchResult, DispatchReturns, ServiceStep, Service!vars
  <2>2. CASE placing # j
    BY <1>7, <2>2, ReturnsEnd, ZenonT(40) DEF DispatchResult, DispatchReturns, Chan
  <2> QED BY <2>1, <2>2, Zenon
<1>8. ASSUME NEW j \in Jobs, AddWaiter(j) PROVE ServiceStep
  BY <1>8, StaysOpen, Zenon DEF AddWaiter
<1>9. ASSUME NEW j \in Jobs, EnqueueRejected(j) PROVE ServiceStep
  BY <1>9, ReturnsEnd, Zenon DEF EnqueueRejected, Outcomes, CallCodes
<1>10. ASSUME NEW j \in Jobs, Enqueue(j) PROVE ServiceStep
  BY <1>10, StaysOpen, Zenon DEF Enqueue
<1>11. ASSUME NEW j \in Jobs, WaitResult(j) PROVE ServiceStep
  BY <1>11, ReturnsEnd, Zenon DEF WaitResult, Chan
<1>12. ASSUME NEW j \in Jobs, WaitCancel(j) PROVE ServiceStep
  BY <1>12, ReturnsEnd, Zenon DEF WaitCancel, Outcomes, CallCodes
<1>13. ASSUME UNCHANGED <<caller, outcome, executed>> PROVE ServiceStep
  BY <1>13, Zenon DEF ServiceStep, Service!vars
<1>14. ASSUME NEW h \in Handles, Register(h) \/ SendAck(h) \/ Heartbeat(h)
      \/ MissHeartbeats(h) \/ WriterSend(h) \/ Deregister(h) \/ ReaderExit(h)
      \/ RemoveFromRegistry(h) \/ RemoveFailPending(h) \/ DrainWorker(h)
      \/ ReapWake(h) \/ ReapDelete(h) \/ ReapFailPending(h) \/ EvictDelete(h)
      PROVE  ServiceStep
  BY <1>13, <1>14, Zenon
     DEF Register, SendAck, Heartbeat, MissHeartbeats, WriterSend,
         Deregister, ReaderExit, RemoveFromRegistry, RemoveFailPending,
         DrainWorker, ReapWake, ReapDelete, ReapFailPending, EvictDelete,
         addWorker, applyHeartbeat, deleteIfCurrent, failAllPending,
         markDraining
<1>15. ASSUME NEW j \in Jobs, CancelCaller(j) \/ AddPending(j) \/ SendJob(j)
      \/ PlaceDequeue(j) \/ ParkWake(j) \/ ParkStop(j)
      PROVE  ServiceStep
  BY <1>13, <1>15, Zenon
     DEF CancelCaller, AddPending, SendJob, PlaceDequeue, ParkWake, ParkStop,
         Front, resolveWaiter
<1>16. CASE PlaceLoopExit \/ EvictScan \/ EvictFailPending \/ EvictLoopExit
      \/ CloseStart \/ CloseLoops \/ CloseWaiters \/ UNCHANGED vars
  BY <1>13, <1>16, Zenon
     DEF PlaceLoopExit, EvictScan, EvictFailPending, EvictLoopExit,
         CloseStart, CloseLoops, CloseWaiters, vars, Fleet, failAllPending
<1> QED BY <1>1, <1>2, <1>3, <1>4, <1>5, <1>6, <1>7, <1>8, <1>9, <1>10,
          <1>11, <1>12, <1>14, <1>15, <1>16, ZenonT(40)
        DEF Next, StreamStep, DrainStep, CallerStep, DispatchStep, PlaceStep,
            EvictStep, CloseStep

(* The dispatcher keeps what the service promises: a submitted job ends    *)
(* once, runs at most once, and ends in "ok" only if a worker ran it.      *)
THEOREM Refinement == Spec => ServiceSpec
<1>1. Init => Service!Init
  BY DEF Init, Service!Init
<1>2. IInv /\ [Next]_vars => [Service!Next]_(Service!vars)
  BY ServiceRefined, Zenon DEF ServiceStep
<1> QED BY <1>1, <1>2, Invariance, PTL DEF Spec, ServiceSpec, Service!Spec

=============================================================================
