-------------------------------- MODULE Worker --------------------------------
(***************************************************************************)
(* The worker of internal/worker/worker.go: the Run loop with its backoff, *)
(* the connect-register-serve cycle, and the five goroutines of serve (the *)
(* send loop, the receive loop, the job, pull and unload workers).         *)
(*                                                                         *)
(* One step is what a goroutine does between two points where it can       *)
(* block: a channel, the stream, or a call to the backend.  The stream is  *)
(* a pair of pipes: `up` to the server, `down` to the worker.  When it is  *)
(* cut, Send fails, and Recv fails once what had arrived is used up.       *)
(***************************************************************************)
EXTENDS Gpu, Ollama, FiniteSets, TLC

CONSTANTS
    None,
    Models,      \* model names
    Jobs,        \* ids of the jobs the server may dispatch
    ChunksMax,   \* capacity of the chunks channel (64 in the code)
    QueueMax,    \* capacity of the jobs, pulls and unloads channels (8)
    UpMax,       \* what the stream holds before Send blocks
    BackoffBase, BackoffMax,   \* Base and Max of Backoff, whose Factor is 2
    AttemptMax   \* bound on the attempt counter, past the cap of the delay

VARIABLES
    w,     \* the Run loop and the fields of Worker
    s,     \* channels and goroutines of the serve call
    net,   \* the stream
    sc     \* how the host and the server behave

workerVars == <<w, s, net, sc>>

\* The end of the serve call's goroutines that does not depend on time.
Gone == [recv |-> "none", hand |-> None, recvErr |-> None,
         jobs |-> <<>>, pulls |-> <<>>, unloads |-> <<>>,
         job |-> None, pull |-> None, unload |-> None, chunks |-> <<>>, activeJobs |-> 0]

Closed == [up |-> <<>>, down |-> <<>>, link |-> "none", sendClosed |-> FALSE]

\* Capacity from the static fields: a manual override, or zero.
New == [phase |-> "start", done |-> FALSE, attempt |-> 0, delay |-> 0,
        models |-> sc.seed, capacity |-> [type |-> EmptyBag, total |-> 0, free |-> 0, load |-> 0],
        list |-> None, out |-> None, stray |-> {}, leaked |-> 0, bye |-> "no", registered |-> FALSE]

WorkerInit == w = New /\ s = Gone /\ net = Closed

-----------------------------------------------------------------------------
(* Model list and capacity *)

\* What a refresh stores: nothing when the call fails.
Listed(tags) == LET r == ListModels(tags) IN IF r.err = "" THEN r.value ELSE None

\* The cache after a refresh.
\* A bug: a failed call empties it.
RefreshedBlank(list) == IF list = None THEN {} ELSE list
Refreshed(list) == IF list = None THEN w.models ELSE list

\* What detectCapacity leaves; without a detector, what there is.
\* A bug: a heartbeat adopts the whole snapshot.
DetectWhole(capacity, host, full) == IF sc.detector THEN Detect(host) ELSE capacity
detectCapacity(capacity, host, full) ==
    IF ~ sc.detector THEN capacity
    ELSE IF full THEN Detect(host)
    ELSE [capacity EXCEPT !.free = Detect(host).free, !.load = Detect(host).load]

\* The startup probe: the model list is only asked for after the version.
detectBackend(version, tags) ==
    IF Version(version).err = "" THEN Refreshed(Listed(tags)) ELSE w.models

\* Startup: the backend, then the capacity.
RunStart(version, tags, host) ==
    /\ w.phase = "start"
    /\ w' = [w EXCEPT !.phase = "dial", !.models = detectBackend(version, tags),
                      !.capacity = detectCapacity(@, host, TRUE)]
    /\ UNCHANGED <<s, net, sc>>

-----------------------------------------------------------------------------
(* The reconnect loop *)

Grown[attempt \in 0 .. AttemptMax] ==
    IF attempt = 0 THEN BackoffBase ELSE 2 * Grown[attempt - 1]

\* The ceiling of the jittered delay.
Delay(attempt) == IF Grown[attempt] > BackoffMax THEN BackoffMax ELSE Grown[attempt]

\* A cycle ends: the connection's context is cancelled and its goroutines go
\* with it.  A pull worker that holds a fresh list may still store it.  A
\* receive loop that waits for room in a channel waits for ever.
EndCycle(fields) ==
    LET ended == [fields EXCEPT
          !.list = None,
          !.stray = IF s.pull # None /\ s.pull.at = "store" THEN @ \cup {s.pull.list} ELSE @,
          !.leaked = IF s.recv = "put" THEN @ + 1 ELSE @] IN
    /\ w' = IF w.done THEN [ended EXCEPT !.phase = "stopped"]
            ELSE [ended EXCEPT !.phase = "backoff", !.delay = Delay(ended.attempt),
                               !.attempt = IF @ < AttemptMax THEN @ + 1 ELSE @]
    /\ s' = Gone
    /\ net' = [net EXCEPT !.link = IF @ = "none" THEN "none" ELSE "cut"]
    /\ UNCHANGED sc

BackoffOver ==
    /\ w.phase = "backoff"
    /\ w' = [w EXCEPT !.phase = IF w.done THEN "stopped" ELSE "dial"]
    /\ UNCHANGED <<s, net, sc>>

\* The top of the loop, the connection and the Register.
Dial(reached) ==
    /\ w.phase = "dial"
    /\ IF w.done THEN w' = [w EXCEPT !.phase = "stopped"] /\ UNCHANGED <<s, net, sc>>
       ELSE IF reached
       THEN /\ w' = [w EXCEPT !.phase = "ack", !.registered = FALSE]
            /\ net' = [Closed EXCEPT !.link = "up",
                                     !.up = <<[kind |-> "register", models |-> w.models]>>]
            /\ UNCHANGED <<s, sc>>
       ELSE EndCycle([w EXCEPT !.registered = FALSE])

\* Registered: the backoff starts again.
Registered(fields) == [fields EXCEPT !.phase = "serve", !.registered = TRUE, !.attempt = 0]

\* The first message must be the RegisterAck.  The wait does not watch the
\* Run context.
Ack ==
    /\ w.phase = "ack"
    /\ net.down # <<>> \/ net.link = "cut"
    /\ IF net.down # <<>> /\ Head(net.down).kind = "ack"
       THEN /\ w' = Registered(w)
            /\ s' = [Gone EXCEPT !.recv = "recv"]
            /\ net' = [net EXCEPT !.down = Tail(@)]
            /\ UNCHANGED sc
       ELSE EndCycle(w)

-----------------------------------------------------------------------------
(* The receive loop *)

Full(q) == Len(q) >= QueueMax

\* The channel a message belongs on.
Chan(msg) == CASE msg.kind = "job" -> "jobs" [] msg.kind = "pull" -> "pulls" [] OTHER -> "unloads"

\* Recv: a message, put on its channel at once when there is room, or the
\* error that ends the loop.
Recv ==
    /\ s.recv = "recv"
    /\ \/ /\ net.down # <<>>
          /\ Head(net.down).kind \notin {"eof", "err"}
          /\ LET msg == Head(net.down) IN
             s' = IF Full(s[Chan(msg)]) THEN [s EXCEPT !.recv = "put", !.hand = msg]
                  ELSE [s EXCEPT ![Chan(msg)] = Append(@, msg.what)]
          /\ net' = [net EXCEPT !.down = Tail(@)]
       \/ /\ \/ net.down # <<>> /\ Head(net.down).kind \in {"eof", "err"}
             \/ net.down = <<>> /\ net.link = "cut"
          /\ s' = [s EXCEPT !.recv = "none", !.recvErr = IF net.down = <<>> THEN "err"
                                                         ELSE Head(net.down).kind]
          /\ UNCHANGED net
    /\ UNCHANGED <<w, sc>>

\* The send on a full channel, once there is room.
RecvPut ==
    /\ s.recv = "put"
    /\ ~ Full(s[Chan(s.hand)])
    /\ s' = [s EXCEPT !.recv = "recv", !.hand = None,
                      ![Chan(s.hand)] = Append(@, s.hand.what)]
    /\ UNCHANGED <<w, net, sc>>

-----------------------------------------------------------------------------
(* The job worker *)

\* The n-th chunk of a job.
Chunk(n, done, err, reason) ==
    [kind |-> "chunk", job |-> s.job.id, n |-> n, done |-> done, err |-> err, reason |-> reason]

\* A job is taken and sent to the backend.
JobStart(answer) ==
    /\ s.jobs # <<>> /\ s.job = None
    /\ LET r == Do(answer) IN
       s' = [s EXCEPT !.jobs = Tail(@), !.activeJobs = @ + 1,
                      !.job = [id |-> Head(s.jobs), n |-> 0, calls |-> FALSE,
                               lines |-> IF r.err = "" THEN r.value ELSE <<>>,
                               end |-> IF r.err = "" THEN None ELSE [err |-> r.err, reason |-> ""]]]
    /\ UNCHANGED <<w, net, sc>>

\* A chunk waits for room in the channel.
\* A bug: it is dropped when there is none.
emitLossy(chunk, after) ==
    s' = IF Len(s.chunks) < ChunksMax THEN [after EXCEPT !.chunks = Append(@, chunk)] ELSE after
emit(chunk, after) ==
    /\ Len(s.chunks) < ChunksMax
    /\ s' = [after EXCEPT !.chunks = Append(@, chunk)]

\* The next line of the answer.
JobLine ==
    /\ s.job # None /\ s.job.end = None
    /\ LET line == IF s.job.lines = <<>> THEN "eof" ELSE Head(s.job.lines)
           step == ChatLine(line)
           calls == s.job.calls \/ line = "calls"
           reason == IF step.err # "" THEN ""
                     ELSE finishReason(calls, IF line = "length" THEN line ELSE "")
           after == [s EXCEPT !.job.n = IF step.emit THEN @ + 1 ELSE @,
                              !.job.calls = calls,
                              !.job.lines = IF @ = <<>> THEN @ ELSE Tail(@),
                              !.job.end = IF step.stop THEN [err |-> step.err, reason |-> reason]
                                          ELSE None] IN
       IF step.emit THEN emit(Chunk(s.job.n + 1, FALSE, "", ""), after) ELSE s' = after
    /\ UNCHANGED <<w, net, sc>>

\* The terminal chunk, always.
\* A bug: a job that failed sends none.
JobEndSilent ==
    /\ s.job # None /\ s.job.end # None
    /\ LET after == [s EXCEPT !.job = None, !.activeJobs = @ - 1] IN
       IF s.job.end.err # "" THEN s' = after
       ELSE emit(Chunk(s.job.n + 1, TRUE, s.job.end.err, s.job.end.reason), after)
    /\ UNCHANGED <<w, net, sc>>
JobEnd ==
    /\ s.job # None /\ s.job.end # None
    /\ emit(Chunk(s.job.n + 1, TRUE, s.job.end.err, s.job.end.reason),
            [s EXCEPT !.job = None, !.activeJobs = @ - 1])
    /\ UNCHANGED <<w, net, sc>>

-----------------------------------------------------------------------------
(* The pull and unload workers *)

PullStart ==
    /\ s.pulls # <<>> /\ s.pull = None
    /\ s' = [s EXCEPT !.pulls = Tail(@), !.pull = [at |-> "pull", model |-> Head(s.pulls), list |-> {}]]
    /\ UNCHANGED <<w, net, sc>>

\* The backend's answer to the pull; a failed one is logged.
PullDone(answer) ==
    /\ s.pull # None /\ s.pull.at = "pull"
    /\ s' = [s EXCEPT !.pull = IF Pull(answer).err = "" THEN [@ EXCEPT !.at = "list"] ELSE None]
    /\ UNCHANGED <<w, net, sc>>

PullList(tags) ==
    /\ s.pull # None /\ s.pull.at = "list"
    /\ s' = [s EXCEPT !.pull = IF Listed(tags) = None THEN None
                               ELSE [@ EXCEPT !.at = "store", !.list = Listed(tags)]]
    /\ UNCHANGED <<w, net, sc>>

PullStore ==
    /\ s.pull # None /\ s.pull.at = "store"
    /\ w' = [w EXCEPT !.models = s.pull.list]
    /\ s' = [s EXCEPT !.pull = None]
    /\ UNCHANGED <<net, sc>>

\* The pull worker of an ended connection stores what it had read.
StrayStore(list) ==
    /\ list \in w.stray
    /\ w' = [w EXCEPT !.models = list, !.stray = @ \ {list}]
    /\ UNCHANGED <<s, net, sc>>

UnloadStart ==
    /\ s.unloads # <<>> /\ s.unload = None
    /\ s' = [s EXCEPT !.unloads = Tail(@), !.unload = Head(s.unloads)]
    /\ UNCHANGED <<w, net, sc>>

\* Best effort: either way the next one is taken.
UnloadDone(answer) ==
    /\ s.unload # None
    /\ Unload(answer).err \in {""} \cup Codes
    /\ s' = [s EXCEPT !.unload = None]
    /\ UNCHANGED <<w, net, sc>>

-----------------------------------------------------------------------------
(* The send loop *)

(* Its select takes one case at a time; the message of the case goes out in *)
(* a Send, which waits while the stream is full.                            *)

\* A case has its message; the loop is busy until it is sent.
Sending(fields, msg) == [fields EXCEPT !.phase = "send", !.out = msg]

\* Send: the message is on its way, or the stream is gone.  After the
\* Deregister the sending side is closed.
Send ==
    /\ w.phase = "send"
    /\ \/ /\ net.link = "up" /\ Len(net.up) < UpMax
          /\ LET last == w.out.kind = "deregister" IN
             /\ net' = [net EXCEPT !.up = Append(@, w.out), !.sendClosed = last]
             /\ w' = [w EXCEPT !.phase = IF last THEN "dereg" ELSE "serve", !.out = None,
                               !.bye = IF last THEN "sent" ELSE @]
          /\ UNCHANGED <<s, sc>>
       \/ net.link = "cut" /\ EndCycle([w EXCEPT !.out = None])

SendChunk ==
    /\ w.phase = "serve" /\ s.chunks # <<>>
    /\ w' = Sending(w, Head(s.chunks))
    /\ s' = [s EXCEPT !.chunks = Tail(@)]
    /\ UNCHANGED <<net, sc>>

Tick ==
    /\ w.phase = "serve"
    /\ w' = [w EXCEPT !.phase = "list"]
    /\ UNCHANGED <<s, net, sc>>

\* The heartbeat's refresh of the model list: the call, then the store.
BeatList(tags) ==
    /\ w.phase = "list"
    /\ w' = [w EXCEPT !.phase = "store", !.list = Listed(tags)]
    /\ UNCHANGED <<s, net, sc>>

\* The store, the capacity probe and the message.
Beat(host) ==
    /\ w.phase = "store"
    /\ LET models == Refreshed(w.list)
           capacity == detectCapacity(w.capacity, host, FALSE) IN
       w' = Sending([w EXCEPT !.models = models, !.list = None, !.capacity = capacity],
                    [kind |-> "beat", models |-> models, capacity |-> capacity,
                     active |-> s.activeJobs])
    /\ UNCHANGED <<s, net, sc>>

Farewell == [kind |-> "deregister"]

\* The receive loop has ended: reconnect, without a Deregister.
RecvFailed ==
    /\ w.phase = "serve" /\ s.recvErr # None
    /\ EndCycle(w)

\* Shutdown: Deregister and CloseSend, then wait for the server to close.
Shutdown ==
    /\ w.phase = "serve" /\ w.done
    /\ w' = Sending(w, Farewell)
    /\ UNCHANGED <<s, net, sc>>

\* A bug: the connection is closed at once.
DeregisterAtOnce ==
    /\ w.phase = "dereg"
    /\ EndCycle(w)
DeregisterWait ==
    /\ w.phase = "dereg" /\ s.recvErr # None
    /\ EndCycle(w)

\* Five seconds without an answer.
DeregisterTimeout ==
    /\ w.phase = "dereg"
    /\ EndCycle([w EXCEPT !.bye = "timeout"])

\* The operator stops the process: the Run context is cancelled.
Cancel ==
    /\ ~ w.done
    /\ w' = [w EXCEPT !.done = TRUE]
    /\ UNCHANGED <<s, net, sc>>

=============================================================================
