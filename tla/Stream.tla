------------------------------- MODULE Stream -------------------------------
(***************************************************************************)
(* Streamed jobs: SubmitAuthorizedJobStream of internal/server/server.go,  *)
(* the chunk path of one worker's stream (accumulate, forwardChunk,        *)
(* resolve, failAllPending), and the SSE handlers that drain the channel   *)
(* (streamChat, streamCompletion).                                         *)
(*                                                                         *)
(* Per job there are three goroutines: the HTTP handler, the forwarder it  *)
(* starts, and the dispatch goroutine that one starts.  Per worker there   *)
(* are the reader of its stream and, concurrently, the evictor; both run   *)
(* failAllPending.  Each step is one critical section or one channel       *)
(* operation.  The worker process is the environment: it sends some        *)
(* deltas of a job and then its terminal chunk.  Authorization and the     *)
(* quota reservation come first and are modules of their own.              *)
(***************************************************************************)
EXTENDS Integers, Sequences

CONSTANTS
    Jobs,       \* streamed jobs
    ChanCap,    \* capacity of the observer and output channels (64 in the code)
    MaxDeltas,  \* bound: deltas of one job
    End,        \* the worker's terminal chunk,
    Error,      \* the same with an error,
    Fail,       \* and the terminal error failAllPending makes up
    Cancelled,  \* the empty result of a dispatch whose context ended
    None

ASSUME Bounds == ChanCap \in Nat \ {0} /\ MaxDeltas \in Nat

\* The kinds of chunk and of result are told apart (Terminal, Error and the
\* error that dispatchTo returns).
ASSUME Kinds ==
    /\ {End, Error, Fail, Cancelled, None} \cap (0 .. MaxDeltas) = {}
    /\ End # Error /\ End # Fail /\ Error # Fail
    /\ Cancelled \notin {Error, Fail} /\ None \notin {End, Error, Fail, Cancelled}

\* A chunk is the n-th delta or terminal; a result is the number of deltas
\* in its output, or no answer.
Deltas == 1 .. MaxDeltas
Terminals == {End, Error, Fail}
Chunks == Deltas \cup Terminals
Failers == {"reader", "evictor"}

\* A delta the reader has still to forward, or a terminal chunk with the
\* output of the job to be forwarded and resolved.
Reading ==
    [job : Jobs, chunk : Deltas, step : {"forward"}]
        \cup [job : Jobs, chunk : {End, Error}, output : 0 .. MaxDeltas \cup {Error},
              step : {"finish", "resolve"}]
ASSUME NotReading == None \notin Reading

VARIABLES
    \* the worker's side
    registered,  \* pickWorker may still return this worker
    up,          \* the stream is open
    sent,        \* deltas of a job the reader has received
    has,         \* jobs the worker process is running
    reader,      \* what the reader has taken off the stream and not yet passed on
    streams,     \* w.streams: deltas in the job's builder, None without one
    pending,     \* keys of w.pending
    observers,   \* keys of w.observers
    failing,     \* per failer: observers it has detached and not yet closed
    failer,      \* where each failer is
    \* per job
    obs,         \* the observer channel
    obsClosed,
    resCh,       \* the channel addPending made: None or a result
    disp,        \* the dispatch goroutine
    result,      \* the done channel: None or a result
    fwd,         \* the forwarder
    held,        \* the chunk the forwarder is passing on
    out,         \* the channel the handler ranges over
    outClosed,
    handler,     \* the HTTP handler
    got,         \* chunks it has seen
    ctxDone,     \* the request's context
    left,        \* the client disconnected
    charged,     \* tokens recorded
    dropped,     \* history: jobs with a chunk a full observer channel refused
    panicked     \* a send on a closed channel has crashed the server

readVars == <<sent, has, reader, streams>>
workerVars == <<registered, up, readVars, pending, observers, failing, failer>>
chanVars == <<obs, obsClosed, out, outClosed, dropped>>
jobVars == <<resCh, disp, result, fwd, held, handler, got, ctxDone, left, charged>>
vars == <<workerVars, chanVars, jobVars, panicked>>

Init ==
    /\ registered = TRUE /\ up = TRUE
    /\ sent = [j \in Jobs |-> 0] /\ has = {} /\ reader = None
    /\ streams = [j \in Jobs |-> None]
    /\ pending = {} /\ observers = {}
    /\ failing = [f \in Failers |-> {}] /\ failer = [f \in Failers |-> "idle"]
    /\ obs = [j \in Jobs |-> <<>>] /\ obsClosed = {}
    /\ out = [j \in Jobs |-> <<>>] /\ outClosed = {} /\ dropped = {}
    /\ resCh = [j \in Jobs |-> None] /\ result = [j \in Jobs |-> None]
    /\ disp = [j \in Jobs |-> "none"]
    /\ fwd = [j \in Jobs |-> "none"] /\ held = [j \in Jobs |-> None]
    /\ handler = [j \in Jobs |-> "idle"] /\ got = [j \in Jobs |-> <<>>]
    /\ ctxDone = {} /\ left = {} /\ charged = {}
    /\ panicked = FALSE

-----------------------------------------------------------------------------
(* The request: handler, forwarder, dispatch goroutine *)

\* SubmitAuthorizedJobStream up to pickWorker; no worker fails the request.
Submit(j) ==
    /\ handler[j] = "idle"
    /\ handler' = [handler EXCEPT ![j] = IF registered THEN "picked" ELSE "returned"]
    /\ UNCHANGED <<workerVars, chanVars, resCh, disp, result, fwd, held, got, ctxDone,
                   left, charged, panicked>>

\* addObserver, and the two goroutines are started.
AddObserver(j) ==
    /\ handler[j] = "picked"
    /\ handler' = [handler EXCEPT ![j] = "range"]
    /\ observers' = observers \cup {j}
    /\ fwd' = [fwd EXCEPT ![j] = "select"]
    /\ disp' = [disp EXCEPT ![j] = "add"]
    /\ UNCHANGED <<registered, up, readVars, pending, failing, failer, chanVars, resCh,
                   result, held, got, ctxDone, left, charged, panicked>>

AddPending(j) ==
    /\ disp[j] = "add"
    /\ pending' = pending \cup {j}
    /\ disp' = [disp EXCEPT ![j] = "send"]
    /\ UNCHANGED <<registered, up, readVars, observers, failing, failer, chanVars, resCh,
                   result, fwd, held, handler, got, ctxDone, left, charged, panicked>>

\* dispatchTo hands the job to the writer; a dead stream loses it.
SendJob(j) ==
    /\ disp[j] = "send"
    /\ has' = IF up THEN has \cup {j} ELSE has
    /\ disp' = [disp EXCEPT ![j] = "await"]
    /\ UNCHANGED <<registered, up, sent, reader, streams, pending, observers, failing, failer,
                   chanVars, resCh, result, fwd, held, handler, got, ctxDone, left,
                   charged, panicked>>

dispatchReturns(j, res) ==
    /\ disp' = [disp EXCEPT ![j] = "done"]
    /\ result' = [result EXCEPT ![j] = res]

DispatchResult(j) ==
    /\ disp[j] = "await" /\ resCh[j] # None
    /\ dispatchReturns(j, resCh[j])
    /\ resCh' = [resCh EXCEPT ![j] = None]
    /\ UNCHANGED <<workerVars, chanVars, fwd, held, handler, got, ctxDone, left, charged,
                   panicked>>

\* A bug in DispatchCancel: only the first select watches the context.
DispatchCancelSendOnly(j) ==
    /\ disp[j] = "send" /\ j \in ctxDone
    /\ dispatchReturns(j, Cancelled)
    /\ pending' = pending \ {j}
    /\ UNCHANGED <<registered, up, readVars, observers, failing, failer, chanVars, resCh,
                   fwd, held, handler, got, ctxDone, left, charged, panicked>>

\* The context case of either select of dispatchTo.
DispatchCancel(j) ==
    /\ disp[j] \in {"send", "await"} /\ j \in ctxDone
    /\ dispatchReturns(j, Cancelled)
    /\ pending' = pending \ {j}
    /\ UNCHANGED <<registered, up, readVars, observers, failing, failer, chanVars, resCh,
                   fwd, held, handler, got, ctxDone, left, charged, panicked>>

\* The forwarder: a chunk from the observer channel ...
Take(j) ==
    /\ fwd[j] = "select" /\ obs[j] # <<>>
    /\ held' = [held EXCEPT ![j] = Head(obs[j])]
    /\ obs' = [obs EXCEPT ![j] = Tail(@)]
    /\ fwd' = [fwd EXCEPT ![j] = "push"]
    /\ UNCHANGED <<workerVars, obsClosed, out, outClosed, dropped, resCh, disp, result, handler,
                   got, ctxDone, left, charged, panicked>>

\* ... goes to the handler's channel,
Push(j) ==
    /\ fwd[j] = "push" /\ Len(out[j]) < ChanCap
    /\ out' = [out EXCEPT ![j] = Append(@, held[j])]
    /\ held' = [held EXCEPT ![j] = None]
    /\ fwd' = [fwd EXCEPT ![j] = "select"]
    /\ UNCHANGED <<workerVars, obs, obsClosed, outClosed, dropped, resCh, disp, result, handler, got,
                   ctxDone, left, charged, panicked>>

\* until that is closed and drained,
ObserverClosed(j) ==
    /\ fwd[j] = "select" /\ obs[j] = <<>> /\ j \in obsClosed
    /\ fwd' = [fwd EXCEPT ![j] = "account"]
    /\ UNCHANGED <<workerVars, chanVars, resCh, disp, result, held, handler, got, ctxDone,
                   left, charged, panicked>>

\* when the dispatch result is awaited, the tokens it reports (none unless
\* the worker sent it) are recorded, and out is closed.
Account(j) ==
    /\ fwd[j] = "account" /\ result[j] # None
    /\ charged' = IF result[j] \in {Cancelled, Fail} THEN charged ELSE charged \cup {j}
    /\ fwd' = [fwd EXCEPT ![j] = "done"]
    /\ outClosed' = outClosed \cup {j}
    /\ UNCHANGED <<workerVars, obs, obsClosed, out, dropped, resCh, disp, result, held, handler, got,
                   ctxDone, left, panicked>>

\* A bug in Abort: the observer stays registered.
AbortLeaks(j) ==
    /\ fwd[j] \in {"select", "push"} /\ j \in ctxDone
    /\ held' = [held EXCEPT ![j] = None]
    /\ fwd' = [fwd EXCEPT ![j] = "done"]
    /\ outClosed' = outClosed \cup {j}
    /\ UNCHANGED <<workerVars, obs, obsClosed, out, dropped, resCh, disp, result, handler, got,
                   ctxDone, left, charged, panicked>>

\* The context case of either select of the forwarder: removeObserver.
Abort(j) ==
    /\ fwd[j] \in {"select", "push"} /\ j \in ctxDone
    /\ observers' = observers \ {j}
    /\ held' = [held EXCEPT ![j] = None]
    /\ fwd' = [fwd EXCEPT ![j] = "done"]
    /\ outClosed' = outClosed \cup {j}
    /\ UNCHANGED <<registered, up, readVars, pending, failing, failer, obs, obsClosed, out,
                   dropped, resCh, disp, result, handler, got, ctxDone, left, charged, panicked>>

\* streamChat: a frame is written; after an error the handler returns, and
\* net/http cancels the request's context.
Receive(j) ==
    /\ handler[j] = "range" /\ out[j] # <<>>
    /\ got' = [got EXCEPT ![j] = Append(@, Head(out[j]))]
    /\ out' = [out EXCEPT ![j] = Tail(@)]
    /\ IF Head(out[j]) \in {Error, Fail}
       THEN /\ handler' = [handler EXCEPT ![j] = "returned"]
            /\ ctxDone' = ctxDone \cup {j}
       ELSE UNCHANGED <<handler, ctxDone>>
    /\ UNCHANGED <<workerVars, obs, obsClosed, outClosed, dropped, resCh, disp, result, fwd, held,
                   left, charged, panicked>>

Return(j) ==
    /\ handler[j] = "range" /\ out[j] = <<>> /\ j \in outClosed
    /\ handler' = [handler EXCEPT ![j] = "returned"]
    /\ ctxDone' = ctxDone \cup {j}
    /\ UNCHANGED <<workerVars, chanVars, resCh, disp, result, fwd, held, got, left, charged,
                   panicked>>

Disconnect(j) ==
    /\ handler[j] \in {"picked", "range"} /\ j \notin left
    /\ left' = left \cup {j}
    /\ ctxDone' = ctxDone \cup {j}
    /\ UNCHANGED <<workerVars, chanVars, resCh, disp, result, fwd, held, handler, got,
                   charged, panicked>>

-----------------------------------------------------------------------------
(* The reader of the worker's stream *)

\* Send on j's observer channel: dropped when the channel is full, a panic
\* when it is closed.
forwardChunk(j, c) ==
    LET full == Len(obs[j]) >= ChanCap IN
    IF j \in obsClosed
    THEN panicked' = TRUE /\ UNCHANGED <<obs, dropped>>
    ELSE /\ obs' = IF full THEN obs ELSE [obs EXCEPT ![j] = Append(@, c)]
         /\ dropped' = IF full THEN dropped \cup {j} ELSE dropped
         /\ UNCHANGED panicked

\* A bug in RecvDelta: the delta that makes the builder is not forwarded.
RecvDeltaFirstLost(j) ==
    /\ up /\ reader = None
    /\ j \in has /\ sent[j] < MaxDeltas
    /\ sent' = [sent EXCEPT ![j] = @ + 1]
    /\ streams' = [streams EXCEPT ![j] = IF @ = None THEN 1 ELSE @ + 1]
    /\ reader' = IF j \in observers /\ streams[j] # None
                 THEN [job |-> j, chunk |-> sent[j] + 1, step |-> "forward"] ELSE None
    /\ UNCHANGED <<registered, up, has, pending, observers, failing, failer, chanVars, jobVars,
                   panicked>>

\* accumulate, a delta, under the lock.
RecvDelta(j) ==
    /\ up /\ reader = None
    /\ j \in has /\ sent[j] < MaxDeltas
    /\ sent' = [sent EXCEPT ![j] = @ + 1]
    /\ streams' = [streams EXCEPT ![j] = IF @ = None THEN 1 ELSE @ + 1]
    /\ reader' = IF j \in observers THEN [job |-> j, chunk |-> sent[j] + 1, step |-> "forward"]
                                    ELSE None
    /\ UNCHANGED <<registered, up, has, pending, observers, failing, failer, chanVars, jobVars,
                   panicked>>

\* ... and the forward after it.
ForwardDelta ==
    /\ reader # None /\ reader.step = "forward"
    /\ forwardChunk(reader.job, reader.chunk)
    /\ reader' = None
    /\ UNCHANGED <<registered, up, sent, has, streams, pending, observers, failing, failer,
                   obsClosed, out, outClosed, jobVars>>

\* accumulate, a terminal chunk, under the lock: the builder is taken and the
\* observer detached.
RecvTerminal(j, c) ==
    /\ up /\ reader = None
    /\ j \in has
    /\ has' = has \ {j}
    /\ streams' = [streams EXCEPT ![j] = None]
    /\ observers' = observers \ {j}
    /\ reader' = [job |-> j, chunk |-> c,
                  output |-> IF c = Error THEN Error
                             ELSE IF streams[j] = None THEN 0 ELSE streams[j],
                  step |-> IF j \in observers THEN "finish" ELSE "resolve"]
    /\ UNCHANGED <<registered, up, sent, pending, failing, failer, chanVars, jobVars, panicked>>

\* ... forwarded, and the observer closed.
ForwardTerminal ==
    /\ reader # None /\ reader.step = "finish"
    /\ forwardChunk(reader.job, reader.chunk)
    /\ obsClosed' = obsClosed \cup {reader.job}
    /\ reader' = [reader EXCEPT !.step = "resolve"]
    /\ UNCHANGED <<registered, up, sent, has, streams, pending, observers, failing, failer,
                   out, outClosed, jobVars>>

\* resolve: the waiter, if it is still there, gets the assembled output.
Resolve ==
    /\ reader # None /\ reader.step = "resolve"
    /\ pending' = pending \ {reader.job}
    /\ resCh' = IF reader.job \in pending
                THEN [resCh EXCEPT ![reader.job] = reader.output] ELSE resCh
    /\ reader' = None
    /\ UNCHANGED <<registered, up, sent, has, streams, observers, failing, failer, chanVars,
                   disp, result, fwd, held, handler, got, ctxDone, left, charged, panicked>>

-----------------------------------------------------------------------------
(* failAllPending, run by the reader when the stream ends and by the       *)
(* evictor when the worker is stale or drained                             *)

StreamDrop ==
    /\ up /\ reader = None
    /\ up' = FALSE
    /\ UNCHANGED <<registered, readVars, pending, observers, failing, failer, chanVars,
                   jobVars, panicked>>

\* removeWorker once the stream has ended, evictWorker at any time: the
\* worker leaves the registry, its stream goes on.
Unregister(f) ==
    /\ failer[f] = "idle"
    /\ f = "reader" => ~up
    /\ f = "evictor" => registered
    /\ registered' = FALSE
    /\ failer' = [failer EXCEPT ![f] = "swap"]
    /\ UNCHANGED <<up, readVars, pending, observers, failing, chanVars, jobVars, panicked>>

\* A bug in FailSwap: the waiters survive the loss of their buffers.
FailSwapKeepsWaiters(f) ==
    /\ failer[f] = "swap"
    /\ streams' = [j \in Jobs |-> None]
    /\ failing' = [failing EXCEPT ![f] = observers]
    /\ observers' = {}
    /\ failer' = [failer EXCEPT ![f] = "done"]
    /\ UNCHANGED <<registered, up, sent, has, reader, pending, chanVars, jobVars, panicked>>

\* The maps are swapped under the lock and the waiters answered.
FailSwap(f) ==
    /\ failer[f] = "swap"
    /\ resCh' = [j \in Jobs |-> IF j \in pending THEN Fail ELSE resCh[j]]
    /\ pending' = {}
    /\ streams' = [j \in Jobs |-> None]
    /\ failing' = [failing EXCEPT ![f] = observers]
    /\ observers' = {}
    /\ failer' = [failer EXCEPT ![f] = "done"]
    /\ UNCHANGED <<registered, up, sent, has, reader, chanVars, disp, result, fwd, held,
                   handler, got, ctxDone, left, charged, panicked>>

\* A detached observer gets a terminal error and is closed.
FailObserver(f, j) ==
    /\ j \in failing[f]
    /\ forwardChunk(j, Fail)
    /\ obsClosed' = obsClosed \cup {j}
    /\ failing' = [failing EXCEPT ![f] = @ \ {j}]
    /\ UNCHANGED <<registered, up, readVars, pending, observers, failer, out, outClosed,
                   jobVars>>

-----------------------------------------------------------------------------
HandlerStep(j) == AddObserver(j) \/ Receive(j) \/ Return(j)
ForwarderStep(j) == Take(j) \/ Push(j) \/ ObserverClosed(j) \/ Account(j) \/ Abort(j)
DispatchStep(j) == AddPending(j) \/ SendJob(j) \/ DispatchResult(j) \/ DispatchCancel(j)
ReaderStep == ForwardDelta \/ ForwardTerminal \/ Resolve
FailStep(f) == FailSwap(f) \/ \E j \in Jobs : FailObserver(f, j)

Next ==
    /\ ~panicked
    /\ \/ \E j \in Jobs :
             \/ Submit(j) \/ Disconnect(j)
             \/ HandlerStep(j) \/ ForwarderStep(j) \/ DispatchStep(j)
             \/ RecvDelta(j) \/ \E c \in {End, Error} : RecvTerminal(j, c)
       \/ ReaderStep \/ StreamDrop
       \/ \E f \in Failers : Unregister(f) \/ FailStep(f)

Spec == Init /\ [][Next]_vars

\* Every goroutine that can run eventually does; nothing is asked of the
\* worker, the client, the network or the eviction timer.
FairSpec ==
    /\ Spec
    /\ \A j \in Jobs :
          /\ WF_vars(~panicked /\ HandlerStep(j))
          /\ WF_vars(~panicked /\ DispatchStep(j))
          /\ WF_vars(~panicked /\ ForwarderStep(j))
    /\ WF_vars(~panicked /\ ReaderStep)
    /\ \A f \in Failers : WF_vars(~panicked /\ FailStep(f))
    /\ WF_vars(~panicked /\ Unregister("reader"))

-----------------------------------------------------------------------------
Results == 0 .. MaxDeltas \cup {Error, Fail, Cancelled}

TypeOK ==
    /\ registered \in BOOLEAN /\ up \in BOOLEAN /\ panicked \in BOOLEAN
    /\ sent \in [Jobs -> 0 .. MaxDeltas] /\ streams \in [Jobs -> Deltas \cup {None}]
    /\ has \subseteq Jobs /\ pending \subseteq Jobs /\ observers \subseteq Jobs
    /\ obsClosed \subseteq Jobs /\ outClosed \subseteq Jobs /\ dropped \subseteq Jobs
    /\ ctxDone \subseteq Jobs /\ left \subseteq Jobs /\ charged \subseteq Jobs
    /\ failing \in [Failers -> SUBSET Jobs]
    /\ failer \in [Failers -> {"idle", "swap", "done"}]
    /\ reader \in Reading \cup {None}
    /\ obs \in [Jobs -> Seq(Chunks)] /\ out \in [Jobs -> Seq(Chunks)]
    /\ got \in [Jobs -> Seq(Chunks)]
    /\ \A j \in Jobs : Len(obs[j]) <= ChanCap /\ Len(out[j]) <= ChanCap
    /\ held \in [Jobs -> Chunks \cup {None}]
    /\ resCh \in [Jobs -> Results \cup {None}] /\ result \in [Jobs -> Results \cup {None}]
    /\ disp \in [Jobs -> {"none", "add", "send", "await", "done"}]
    /\ fwd \in [Jobs -> {"none", "select", "push", "account", "done"}]
    /\ handler \in [Jobs -> {"idle", "picked", "range", "returned"}]

\* What the client has seen of j followed by what is on its way to it.
Pipeline(j) ==
    got[j] \o out[j] \o (IF held[j] = None THEN <<>> ELSE <<held[j]>>) \o obs[j]

\* Two channels, a non-blocking send and two writers of the first channel
\* (the reader and failAllPending) never reorder a stream: deltas reach the
\* client in the worker's order and nothing follows a terminal chunk.
InOrder ==
    \A j \in Jobs : \A a, b \in DOMAIN Pipeline(j) :
        a < b => /\ Pipeline(j)[a] \in Deltas
                 /\ Pipeline(j)[b] \in Deltas => Pipeline(j)[a] < Pipeline(j)[b]

\* A stream that ended well and was never refused by a full observer channel
\* (forwardChunk) gave the client every delta, although the observer, the
\* dispatch and the worker's first chunk are steps of different goroutines.
CompleteUnlessDropped ==
    \A j \in Jobs \ dropped : \A n \in DOMAIN got[j] :
        got[j][n] = End => n = sent[j] + 1

\* A result the waiter or the accounting holds carries the whole output: the
\* buffers failAllPending throws away never turn into a shorter answer
\* (accumulate, resolve).
ResultComplete ==
    \A j \in Jobs : \A res \in {resCh[j], result[j]} :
        res \in 0 .. MaxDeltas => res = sent[j] /\ j \notin has

\* A client that stayed to the end of a stream that ended well has been
\* charged for it when its handler returns (the forwarder records tokens
\* before it closes out), unless an eviction took the waiter between the
\* terminal chunk and resolve.
ChargedWhenServed ==
    \A j \in Jobs \ left :
        /\ handler[j] = "returned" /\ \E n \in DOMAIN got[j] : got[j][n] = End
        /\ failer["evictor"] # "done"
        => j \in charged

\* The goroutines of a request leave nothing of it in the worker's maps,
\* whichever of client, worker and evictor ended it first (removeObserver,
\* dispatchTo's deletes).
NothingLeft ==
    \A j \in Jobs : /\ fwd[j] = "done" => j \notin observers
                    /\ disp[j] = "done" => j \notin pending

\* An observer channel is used after its close only when an eviction runs
\* beside the reader of a live stream; the reader's own teardown never does it.
PanicOnlyFromEviction ==
    panicked => failer["evictor"] = "done"

\* Once the request's context ends, both goroutines of the stream finish,
\* whatever the worker does (the context cases of every select).
CancelReleases ==
    \A j \in Jobs : j \in ctxDone ~> panicked \/ (fwd[j] = "done" /\ disp[j] = "done")

\* Closing the observer ends the stream for the client too: the handler
\* returns, even if the terminal chunk was dropped or the dispatch goroutine
\* had not registered its waiter when failAllPending ran.
ClosedObserverEndsStream ==
    \A j \in Jobs : j \in obsClosed ~> panicked \/ handler[j] = "returned"

\* "a slow or gone consumer drops the chunk rather than wedging the worker
\* reader": passing a chunk on never fails, whatever became of the observer.
ObserverSendsSafe == ~panicked

\* What the client reads is the worker's output: in order, and whole unless
\* the observer channel was full.
StreamFaithful == TypeOK /\ InOrder /\ CompleteUnlessDropped

\* What the control plane keeps of a job is its whole output, and is charged.
ResultAccounted == ResultComplete /\ ChargedWhenServed

\* However a stream ends, its maps are clean, and only an eviction can find a
\* channel closed under it.
EndsCleanly == NothingLeft /\ PanicOnlyFromEviction

\* Every goroutine of a stream returns once the client or the worker is gone.
StreamReleased == CancelReleases /\ ClosedObserverEndsStream
=============================================================================
