---------------------------------- MODULE Node ----------------------------------
(***************************************************************************)
(* A worker node and what surrounds it: its Ollama backend, its GPU tools  *)
(* and the server's end of the control stream.  The server is Connect of   *)
(* internal/server/server.go as one stream sees it; Dispatch models what   *)
(* it does with several.                                                   *)
(*                                                                         *)
(* sc, fixed at the start, bounds the surroundings: the models configured  *)
(* (seed) and whether GPUs are detected; the jobs, pulls and unloads the   *)
(* server may order; the answers the backend gives to a job and whether    *)
(* its other calls may fail; the states the GPUs may be in; how many       *)
(* faults the stream meets; whether heartbeats tick and the process may be *)
(* stopped.                                                                *)
(***************************************************************************)
EXTENDS Worker

CONSTANT Scenarios

VARIABLES
    srv,   \* the server's end: the stream's state and what it has been told
    env    \* the backend's models, and the faults and orders so far

vars == <<w, s, net, sc, srv, env>>

Init ==
    /\ sc \in Scenarios
    /\ WorkerInit
    /\ srv = [open |-> FALSE, draining |-> FALSE, models |-> sc.seed, capacity |-> New.capacity,
              got |-> [j \in Jobs |-> <<>>]]
    /\ env = [installed |-> sc.installed, ever |-> {sc.seed, sc.installed}, faults |-> 0, ordered |-> {}]

-----------------------------------------------------------------------------
(* The backend *)

Body(content) == [kind |-> "body", body |-> content]
Troubles == {[kind |-> "refused"], [kind |-> "expired"],
             [kind |-> "status", status |-> 404, missing |-> FALSE],
             [kind |-> "status", status |-> 500, missing |-> TRUE]}

\* The answers to a call whose good answer is `content`.
Answers(content) == {Body(content)} \cup (IF sc.trouble THEN Troubles ELSE {})
Decodings(content) == Answers(content) \cup (IF sc.trouble THEN {[kind |-> "garbled"]} ELSE {})
PullAnswers == {Body(<<"progress">>)}
    \cup (IF sc.trouble THEN {[kind |-> "refused"], Body(<<"progress", "error">>), Body(<<"cut">>)} ELSE {})

\* A pull arrives, whether or not the worker is still there to see it.
Installs ==
    /\ s.pull # None /\ s.pull.at = "pull"
    /\ s.pull.model \notin env.installed
    /\ env' = [env EXCEPT !.installed = @ \cup {s.pull.model},
                          !.ever = @ \cup {env.installed \cup {s.pull.model}}]
    /\ UNCHANGED <<w, s, net, sc, srv>>

-----------------------------------------------------------------------------
(* The worker in its surroundings *)

Quiet == UNCHANGED <<srv, env>>

NodeStart ==
    /\ \E version \in Decodings({}), tags \in Decodings(env.installed), host \in sc.hosts :
            RunStart(version, tags, host)
    /\ Quiet

\* A new stream has a handler of its own; the old one is not followed further.
NodeDial ==
    \/ /\ Dial(TRUE)
       /\ srv' = [srv EXCEPT !.open = w.done /\ @]
       /\ UNCHANGED env
    \/ /\ env.faults < sc.faults
       /\ Dial(FALSE)
       /\ env' = [env EXCEPT !.faults = @ + 1]
       /\ UNCHANGED srv

NodeReceive == (Recv \/ RecvPut) /\ Quiet
NodeJob == ((\E answer \in sc.replies : JobStart(answer)) \/ JobLine \/ JobEnd) /\ Quiet

NodePull ==
    /\ \/ PullStart
       \/ /\ \E answer \in PullAnswers : PullDone(answer)
          /\ s'.pull # None => s.pull.model \in env.installed
       \/ \E tags \in Decodings(env.installed) : PullList(tags)
       \/ PullStore
       \/ \E list \in w.stray : StrayStore(list)
    /\ Quiet

NodeUnload == (UnloadStart \/ \E answer \in Answers({}) : UnloadDone(answer)) /\ Quiet

NodeTick == sc.beats /\ Tick /\ Quiet
NodeBeatListed == BeatList(Body(env.installed)) /\ Quiet
NodeBeatList == (\E tags \in Decodings(env.installed) : BeatList(tags)) /\ Quiet
NodeBeat == (\E host \in sc.hosts : Beat(host)) /\ Quiet

NodeSendChunk == SendChunk /\ Quiet
NodeRecvFailed == RecvFailed /\ Quiet
NodeShutdown == Shutdown /\ Quiet
NodeDeregister == (DeregisterWait \/ DeregisterTimeout) /\ Quiet
NodeCancel == sc.stop /\ Cancel /\ Quiet

\* The steps of the Run loop that are not a choice of its select.
NodeLoop == \/ NodeStart \/ NodeDial \/ NodeBeatList \/ NodeBeat \/ NodeDeregister
            \/ (BackoffOver \/ Ack \/ Send) /\ Quiet

-----------------------------------------------------------------------------
(* The server's end of the stream *)

\* The first message is a Register; it is answered before anything else.
ServerAccept ==
    /\ ~ srv.open /\ net.up # <<>> /\ Head(net.up).kind = "register"
    /\ srv' = [srv EXCEPT !.open = TRUE, !.draining = FALSE, !.models = Head(net.up).models]
    /\ net' = [net EXCEPT !.up = Tail(@), !.down = Append(@, [kind |-> "ack", what |-> None])]
    /\ UNCHANGED <<w, s, sc, env>>

ServerRead ==
    /\ srv.open /\ net.up # <<>>
    /\ LET msg == Head(net.up) IN
       srv' = CASE msg.kind = "beat" -> [srv EXCEPT !.models = msg.models, !.capacity = msg.capacity]
                [] msg.kind = "chunk" -> [srv EXCEPT !.got[msg.job] = Append(@, msg)]
                [] msg.kind = "deregister" -> [srv EXCEPT !.draining = TRUE]
    /\ net' = [net EXCEPT !.up = Tail(@)]
    /\ UNCHANGED <<w, s, sc, env>>

\* The worker closed its side and everything is read: Connect returns.
ServerFinish ==
    /\ srv.open /\ net.up = <<>> /\ net.sendClosed /\ net.link = "up"
    /\ srv' = [srv EXCEPT !.open = FALSE]
    /\ net' = [net EXCEPT !.down = Append(@, [kind |-> "eof"])]
    /\ UNCHANGED <<w, s, sc, env>>

\* The stream broke: what was on its way is lost.
ServerNotice ==
    /\ srv.open /\ net.link = "cut"
    /\ srv' = [srv EXCEPT !.open = FALSE]
    /\ net' = [net EXCEPT !.up = <<>>]
    /\ UNCHANGED <<w, s, sc, env>>

\* A job, a pull or an unload goes to the worker, each at most once.
ServerSend(kind, what) ==
    /\ srv.open /\ net.link = "up" /\ ~ (kind = "job" /\ srv.draining)
    /\ <<kind, what>> \notin env.ordered
    /\ net' = [net EXCEPT !.down = Append(@, [kind |-> kind, what |-> what])]
    /\ env' = [env EXCEPT !.ordered = @ \cup {<<kind, what>>}]
    /\ UNCHANGED <<w, s, sc, srv>>

\* The stream breaks, or the server ends it with a status; some of what was
\* on its way to the worker still arrives.
Cut ==
    /\ net.link = "up" /\ env.faults < sc.faults
    /\ \E n \in 0 .. Len(net.down), ends \in BOOLEAN :
          net' = [net EXCEPT !.link = "cut",
                             !.down = SubSeq(@, 1, n) \o (IF ends THEN <<[kind |-> "err"]>> ELSE <<>>)]
    /\ env' = [env EXCEPT !.faults = @ + 1]
    /\ UNCHANGED <<w, s, sc, srv>>

ServerStep == ServerAccept \/ ServerRead \/ ServerFinish \/ ServerNotice

Orders == \/ \E j \in sc.jobs : ServerSend("job", j)
          \/ \E m \in sc.pulls : ServerSend("pull", m)
          \/ \E m \in sc.unloads : ServerSend("unload", m)

Next ==
    \/ NodeLoop \/ NodeTick \/ NodeSendChunk \/ NodeRecvFailed \/ NodeShutdown \/ NodeCancel
    \/ NodeReceive \/ NodeJob \/ NodePull \/ NodeUnload
    \/ Installs \/ ServerStep \/ Orders \/ Cut

\* Every goroutine goes on.  The select of the send loop picks among the ready
\* cases at random, so one that is ready again and again is picked.  The
\* backend answers a listing now and then, and the server keeps reading.
Fairness ==
    /\ WF_vars(NodeLoop) /\ WF_vars(NodeReceive) /\ WF_vars(NodeJob)
    /\ WF_vars(NodePull) /\ WF_vars(NodeUnload) /\ WF_vars(ServerStep)
    /\ SF_vars(NodeTick) /\ SF_vars(NodeSendChunk) /\ SF_vars(NodeRecvFailed)
    /\ SF_vars(NodeShutdown) /\ SF_vars(NodeBeatListed)

Spec == Init /\ [][Next]_vars /\ Fairness

-----------------------------------------------------------------------------
(* Properties *)

TypeOK ==
    /\ w.phase \in {"start", "dial", "ack", "serve", "list", "store", "send", "dereg", "backoff", "stopped"}
    /\ w.models \subseteq Models /\ w.attempt \in 0 .. AttemptMax
    /\ w.capacity.load \in 0 .. 100 /\ w.capacity.free \in Nat /\ w.capacity.total \in Nat
    /\ Len(s.chunks) <= ChunksMax /\ Len(net.up) <= UpMax
    /\ \A q \in {s.jobs, s.pulls, s.unloads} : Len(q) <= QueueMax
    /\ s.activeJobs = (IF s.job = None THEN 0 ELSE 1)

\* The chunks the server has of a job are those its executor produced, from
\* the first, without a gap and in order, through two queues and the stream;
\* a terminal chunk is the last and has either an error or a finish reason.
AnswerInOrder ==
    \A j \in Jobs : \A i \in DOMAIN srv.got[j] :
        LET chunk == srv.got[j][i] IN
        /\ chunk.n = i
        /\ chunk.done => i = Len(srv.got[j]) /\ (chunk.err = "") # (chunk.reason = "")

\* The server drains a worker only because its process was stopped: a stream
\* that drops, however it drops, never sends the Deregister.
DrainedOnlyOnStop == srv.draining => w.done

\* A worker stopped in an undisturbed session has its Deregister read by the
\* server before the connection is closed, unless five seconds passed.
DeregisterDelivered ==
    w.phase = "stopped" /\ w.bye = "sent" /\ env.faults = 0 => srv.draining

\* A session that was registered is followed by the shortest backoff, however
\* many attempts failed before it; no delay is above the maximum.
PromptReconnect ==
    w.phase = "backoff" => /\ w.delay <= BackoffMax
                           /\ w.registered => w.delay = Delay(0)

\* The models the server routes by were configured or were all installed at
\* the same time at some point: a listing that fails, or comes late from an
\* earlier connection, never makes up another set.
AdvertisedWasListed == srv.models \in env.ever

\* After startup the GPU's type and total memory stay as first reported,
\* whatever the tools say at a heartbeat.
IdentityPinned ==
    [][w.phase # "start" => /\ w'.capacity.type = w.capacity.type
                            /\ w'.capacity.total = w.capacity.total]_w

\* A stopped process ends, from any point of the cycle.
StopEnds == w.done ~> w.phase = "stopped"

\* A job that reaches the worker is answered to its end, unless the stream
\* breaks or the process is stopped.
JobAnswered ==
    \A j \in Jobs :
        (s.job # None /\ s.job.id = j)
          ~> (\/ \E i \in DOMAIN srv.got[j] : srv.got[j][i].done
              \/ net.link # "up" \/ w.done)

\* A worker whose stream dropped registers again.
Reconnects == w.phase = "backoff" ~> (w.phase = "serve" \/ w.done)

\* A model that was pulled reaches the server's routing table while heartbeats go
\* on, although two goroutines refresh the same list.
PulledAdvertised ==
    \A m \in Models : (m \in env.installed /\ sc.beats) ~> (m \in srv.models \/ w.done)

\* How a session ends: the server is told only of a stop, and is told of it
\* unless something broke; what follows a good session is a prompt redial.
PartingSound == TypeOK /\ DrainedOnlyOnStop /\ DeregisterDelivered /\ PromptReconnect

\* What the worker owes is done in the end: it stops when told to, answers its
\* jobs, comes back after a drop, and makes a pulled model known.
NodeProgress == StopEnds /\ JobAnswered /\ Reconnects /\ PulledAdvertised
=============================================================================
