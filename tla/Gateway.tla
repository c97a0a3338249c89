-------------------------------- MODULE Gateway --------------------------------
(***************************************************************************)
(* The public HTTP surface of internal/httpapi: the middleware chain, the  *)
(* two inference endpoints, the model catalog and the session endpoints.   *)
(*                                                                         *)
(* A request is a goroutine.  One step is what it does between two uses of *)
(* shared state: the key store, the limiter, a session, the dispatcher.    *)
(* What lies below is modelled elsewhere and appears here through its      *)
(* answers: keys in KeyService, quotas in Quota, sessions in Session, the  *)
(* dispatcher in Dispatch and its streams in Stream.                       *)
(***************************************************************************)
EXTENDS Integers, Sequences, FiniteSets, FiniteSetsExt

CONSTANTS
    None,
    Requests,    \* request ids
    Sids,        \* session ids, each given out once
    Nodes,       \* worker ids
    Results      \* token counts a job can report

VARIABLES
    call,    \* the request goroutines
    hub,     \* shared state: keys, limiters, sessions, fleet, counters
    plan     \* what the clients ask for, and the limits in force

gatewayVars == <<call, hub, plan>>

Codes == {200, 201, 204, 400, 401, 403, 404, 405, 409, 429, 500, 503}

Fresh == [pc |-> "new", live |-> TRUE, key |-> None, code |-> 0, hint |-> FALSE,
          ctx |-> <<>>, frames |-> "none", use |-> None, seen |-> {}, worker |-> None]

Busy == {"limit", "handle", "history", "read", "submit", "deny", "work", "open",
         "drain", "ended", "persist", "delete", "unload"}

GatewayInit ==
    /\ call = [r \in Requests |-> Fresh]
    /\ hub = [keys |-> plan.keys, global |-> plan.global, quota |-> plan.quota,
              sessions |-> plan.sessions, fleet |-> plan.fleet, jobs |-> {}, unloads |-> {},
              throttled |-> [global |-> 0, key |-> 0], codes |-> [c \in Codes |-> 0],
              tokens |-> [prompt |-> 0, completion |-> 0]]

At(r, pc) == call[r].pc = pc
Ask(r) == plan.asks[r]
Go(r, pc) == [call EXCEPT ![r].pc = pc]

\* The status of an error of the submit path.
statusForError == [unauthenticated |-> 401, forbidden |-> 403, quota |-> 429, unavailable |-> 503,
                   invalid |-> 400, internal |-> 500]

\* The handler returns with its answer written.
Answered(r, code) == [call EXCEPT ![r].pc = "out", ![r].code = code]
writeError(r, code) == call' = Answered(r, code) /\ UNCHANGED <<hub, plan>>

-----------------------------------------------------------------------------
(* Middleware *)

\* A request arrives and is authenticated.  The handler works with the key as
\* it is now.
authMiddleware(r) ==
    /\ At(r, "new")
    /\ LET k == Ask(r).key IN
       \/ k = None /\ writeError(r, 401)
       \/ k # None /\ ~ hub.keys[k].ok /\ writeError(r, 401)
       \/ k # None /\ plan.faults /\ writeError(r, 500)
       \/ /\ k # None /\ hub.keys[k].ok
          /\ call' = [call EXCEPT
                ![r].pc = IF Ask(r).route \in {"chat", "completions"} THEN "limit" ELSE "handle",
                ![r].key = [id |-> k, models |-> hub.keys[k].models]]
          /\ UNCHANGED <<hub, plan>>

rateLimitMiddleware(r) ==
    /\ At(r, "limit")
    /\ \/ /\ hub.global > 0
          /\ call' = Go(r, "handle")
          /\ hub' = [hub EXCEPT !.global = @ - 1]
          /\ UNCHANGED plan
       \/ /\ hub.global = 0
          /\ call' = [Answered(r, 429) EXCEPT ![r].hint = TRUE]
          /\ hub' = [hub EXCEPT !.throttled.global = @ + 1]
          /\ UNCHANGED plan
       \/ plan.faults /\ writeError(r, 500)

\* A handler panics: the error is only written when no answer has started.
recoverMiddleware(r) ==
    /\ plan.faults /\ call[r].pc \in Busy
    /\ call' = Answered(r, IF call[r].code = 0 THEN 500 ELSE call[r].code)
    /\ UNCHANGED <<hub, plan>>

\* The outermost middleware counts the answer by its status.
metricsMiddleware(r) ==
    /\ At(r, "out")
    /\ call' = Go(r, "gone")
    /\ hub' = [hub EXCEPT !.codes[call[r].code] = @ + 1]
    /\ UNCHANGED plan

-----------------------------------------------------------------------------
(* Sessions, as the manager answers for them *)

OwnedBy(s, k) == hub.sessions[s].state = "live" /\ hub.sessions[s].owner = k
Owned(r) == OwnedBy(Ask(r).session, call[r].key.id)

Visible(s) == LET x == hub.sessions[s] IN SubSeq(x.log, x.from + 1, Len(x.log))

\* Room for n more messages; trimming always makes room.
Fits(s, n) == plan.policy = "trim" \/ Len(Visible(s)) + n <= plan.cap

\* The messages of a turn: the client's, then the assistant's.
Turn(r) == <<[by |-> r, role |-> "user"], [by |-> r, role |-> "assistant"]>>

\* AppendTurns: all of the turn or nothing, then trimmed to the cap.
AppendTurns(r, s) ==
    IF ~ Owned(r) \/ ~ Fits(s, 2) THEN hub.sessions
    ELSE LET log == hub.sessions[s].log \o Turn(r) IN
         [hub.sessions EXCEPT ![s].log = log,
                              ![s].from = IF Len(log) - @ > plan.cap THEN Len(log) - plan.cap ELSE @]

-----------------------------------------------------------------------------
(* Token accounting *)

usageFrom(u) ==
    LET sum == u.prompt + u.completion IN
    IF sum = 0 THEN [prompt |-> 0, completion |-> u.total, total |-> u.total]
    ELSE [prompt |-> u.prompt, completion |-> u.completion,
          total |-> IF u.total < sum THEN sum ELSE u.total]

recordTokens(tokens, u) ==
    IF u.prompt + u.completion = 0 THEN [tokens EXCEPT !.completion = @ + u.total]
    ELSE [prompt |-> tokens.prompt + u.prompt, completion |-> tokens.completion + u.completion]

-----------------------------------------------------------------------------
(* The inference endpoints *)

\* The status of a request that is not a well-formed POST, else 0.
decodePost(ask) == IF ask.verb # "POST" THEN 405 ELSE IF ask.body # "ok" THEN 400 ELSE 0

\* The body's session id wins over the header's.
resolveSession(ask) ==
    IF ask.session # None THEN "stateful" ELSE IF ask.header # None THEN "affinity" ELSE "stateless"

Stateful(r) == Ask(r).route = "chat" /\ resolveSession(Ask(r)) = "stateful"

\* Up to the first session read of a stateful turn.
handleChatCompletions(r) ==
    /\ At(r, "handle") /\ Ask(r).route = "chat"
    /\ LET bad == decodePost(Ask(r)) IN
       IF bad # 0 THEN writeError(r, bad)
       ELSE IF ~ Stateful(r) THEN call' = Go(r, "submit") /\ UNCHANGED <<hub, plan>>
       ELSE IF ~ Owned(r) THEN writeError(r, 404)
       ELSE IF ~ Fits(Ask(r).session, 1) THEN writeError(r, 409)
       ELSE call' = Go(r, "history") /\ UNCHANGED <<hub, plan>>

\* The stored history becomes the context of the job.
History(r) ==
    /\ At(r, "history")
    /\ IF ~ Owned(r) THEN writeError(r, 404)
       ELSE /\ call' = [call EXCEPT ![r].pc = "submit", ![r].ctx = Visible(Ask(r).session)]
            /\ UNCHANGED <<hub, plan>>

\* A prompt is a string or an array of strings; anything else is a bad body.
handleCompletions(r) ==
    /\ At(r, "handle") /\ Ask(r).route = "completions"
    /\ LET bad == decodePost(Ask(r)) IN
       IF bad # 0 THEN writeError(r, bad) ELSE call' = Go(r, "submit") /\ UNCHANGED <<hub, plan>>

Serving(m) == {n \in Nodes : hub.fleet[n].online /\ m \in hub.fleet[n].models}

\* The session a job is pinned by: the body's id, else the header's.
SessionOf(ask) ==
    CASE ask.route # "chat" -> None
      [] resolveSession(ask) = "stateful" -> ask.session
      [] OTHER -> ask.header

\* A dispatched job binds its session to the worker, if the key owns it still.
recordAffinity(r, n) == LET s == SessionOf(Ask(r)) IN
    IF s # None /\ OwnedBy(s, call[r].key.id) THEN [hub.sessions EXCEPT ![s].worker = n] ELSE hub.sessions

\* The headers of a stream: from here on the status is 200.
beginSSE(r) == [call EXCEPT ![r].pc = "open", ![r].code = 200, ![r].frames = "open"]

\* The gates of SubmitAuthorizedJob and SubmitAuthorizedJobStream.  A stream
\* needs a worker at once; another job is queued.
\* A bug: the quota is reserved before the key is authorized.
SubmitReserved(r) ==
    /\ At(r, "submit")
    /\ IF hub.quota = 0 THEN call' = Go(r, "deny") /\ UNCHANGED <<hub, plan>>
       ELSE /\ hub' = [hub EXCEPT !.quota = @ - 1]
            /\ call' = Answered(r, IF Ask(r).model \in call[r].key.models THEN 503 ELSE 403)
            /\ UNCHANGED plan
Submit(r) ==
    /\ At(r, "submit")
    /\ LET m == Ask(r).model
           taken == [hub EXCEPT !.quota = @ - 1, !.jobs = @ \cup {r}] IN
       IF m = None THEN writeError(r, statusForError.invalid)
       ELSE IF m \notin call[r].key.models THEN writeError(r, statusForError.forbidden)
       ELSE IF hub.quota = 0 THEN call' = Go(r, "deny") /\ UNCHANGED <<hub, plan>>
       ELSE /\ UNCHANGED plan
            /\ \/ Ask(r).stream /\ \E n \in Serving(m) :
                    /\ hub' = [taken EXCEPT !.sessions = recordAffinity(r, n)]
                    /\ call' = beginSSE(r)
               \/ ~ Ask(r).stream /\ hub' = taken /\ call' = Go(r, "work")
               \* No worker, a full queue, or the server is closing.
               \/ call' = Answered(r, statusForError.unavailable) /\ hub' = [hub EXCEPT !.quota = @ - 1]

\* The placement loop gives a queued job its worker.
Place(r, n) ==
    /\ At(r, "work") /\ call[r].worker = None /\ n \in Serving(Ask(r).model)
    /\ call' = [call EXCEPT ![r].worker = n]
    /\ hub' = [hub EXCEPT !.sessions = recordAffinity(r, n)]
    /\ UNCHANGED plan

\* The per-key 429: the hint is read after the denial, and left out when the
\* window has rolled in between.
annotatePerKey429(r) ==
    /\ At(r, "deny")
    /\ call' = [Answered(r, 429) EXCEPT ![r].hint = (hub.quota = 0)]
    /\ hub' = [hub EXCEPT !.throttled.key = @ + 1]
    /\ UNCHANGED plan

\* The answer of a job that is not streamed.
Finish(r, u) ==
    /\ At(r, "work") /\ call[r].worker # None
    /\ hub' = [hub EXCEPT !.tokens = recordTokens(@, u)]
    /\ call' = IF Stateful(r) THEN [Go(r, "persist") EXCEPT ![r].use = u]
               ELSE [Answered(r, 200) EXCEPT ![r].use = u]
    /\ UNCHANGED plan

\* The job fails, or the worker is lost.
Fail(r) == At(r, "work") /\ \E e \in {"internal", "unavailable"} : writeError(r, statusForError[e])

\* The turn is stored, then the answer is written.
persistTurn(r) ==
    /\ At(r, "persist")
    /\ hub' = [hub EXCEPT !.sessions = AppendTurns(r, Ask(r).session)]
    /\ call' = Answered(r, 200)
    /\ UNCHANGED plan

-----------------------------------------------------------------------------
(* Streaming *)

\* The frame of a terminal chunk: a finish reason, or the error that stands
\* for a status that cannot be sent any more.
writeSSEError(u) == IF u = None THEN "error" ELSE "finish"

\* The terminal chunk ends the loop of streamChat, and of streamCompletion,
\* which stores nothing.
Chunk(r, u) ==
    /\ At(r, "open")
    /\ call' = [Go(r, "drain") EXCEPT ![r].frames = writeSSEError(u), ![r].use = u]
    /\ UNCHANGED <<hub, plan>>

\* The channel is closed without a terminal chunk.
Closed(r) == At(r, "open") /\ call' = Go(r, "drain") /\ UNCHANGED <<hub, plan>>

\* The request's context is cancelled while the dispatcher has the job.
\* A bug: only streams take notice.
CancelledStreams(r) == ~ call[r].live /\ Closed(r)
Cancelled(r) ==
    /\ ~ call[r].live /\ call[r].pc \in {"work", "open"}
    /\ IF At(r, "open") THEN Closed(r) ELSE writeError(r, 500)

\* [DONE], then the tokens of a stream that ended with a finish reason.
writeSSEDone(r) ==
    /\ At(r, "drain")
    /\ call' = [Go(r, "ended") EXCEPT ![r].frames = IF @ = "finish" THEN "done" ELSE @]
    /\ hub' = IF call[r].frames = "finish" THEN [hub EXCEPT !.tokens = recordTokens(@, call[r].use)]
              ELSE hub
    /\ UNCHANGED plan

\* The end of a stream: a stateful turn is stored when the stream ended with a
\* finish reason and the client is still there.
\* A bug: any stream that did not fail is stored.
EndUnfinished(r) ==
    /\ At(r, "ended")
    /\ call' = Go(r, "out")
    /\ hub' = IF Stateful(r) /\ call[r].frames # "error"
              THEN [hub EXCEPT !.sessions = AppendTurns(r, Ask(r).session)] ELSE hub
    /\ UNCHANGED plan
streamEnd(r) ==
    /\ At(r, "ended")
    /\ call' = Go(r, "out")
    /\ hub' = IF Stateful(r) /\ call[r].frames = "done" /\ call[r].live
              THEN [hub EXCEPT !.sessions = AppendTurns(r, Ask(r).session)] ELSE hub
    /\ UNCHANGED plan

-----------------------------------------------------------------------------
(* The catalog *)

catalog(key) == {m \in UNION {hub.fleet[n].models : n \in Nodes} : Serving(m) # {} /\ m \in key.models}

List(r) ==
    IF Ask(r).verb # "GET" THEN writeError(r, 405)
    ELSE call' = [Answered(r, 200) EXCEPT ![r].seen = catalog(call[r].key)] /\ UNCHANGED <<hub, plan>>

\* The two lists, which differ in what they say of each model.
handleOpenAIModels(r) == At(r, "handle") /\ Ask(r).route = "models" /\ List(r)
handleModels(r) == At(r, "handle") /\ Ask(r).route = "catalog" /\ List(r)

\* A model that is hidden is as absent as one that does not exist.
handleOpenAIModelRetrieve(r) ==
    /\ At(r, "handle") /\ Ask(r).route = "model"
    /\ IF Ask(r).model \in catalog(call[r].key)
       THEN call' = [Answered(r, 200) EXCEPT ![r].seen = {Ask(r).model}] /\ UNCHANGED <<hub, plan>>
       ELSE writeError(r, 404)

-----------------------------------------------------------------------------
(* The session endpoints *)

LiveOf(owner) == {s \in Sids : hub.sessions[s].state = "live" /\ hub.sessions[s].owner = owner}

handleCreateSession(r) ==
    /\ At(r, "handle") /\ Ask(r).route = "create"
    /\ LET bad == decodePost(Ask(r)) IN
       IF bad # 0 THEN writeError(r, bad)
       ELSE IF Cardinality(LiveOf(call[r].key.id)) >= plan.perKey THEN writeError(r, 429)
       ELSE \/ \E s \in Sids :
                 /\ hub.sessions[s].state = "free"
                 /\ hub' = [hub EXCEPT !.sessions[s] = [state |-> "live", owner |-> call[r].key.id,
                                                        log |-> <<>>, from |-> 0, worker |-> None]]
                 /\ call' = Answered(r, 201)
                 /\ UNCHANGED plan
            \/ plan.faults /\ writeError(r, 500)

\* The session, then its history.
handleGetSession(r) ==
    /\ Ask(r).route = "get" /\ call[r].pc \in {"handle", "read"}
    /\ IF ~ Owned(r) THEN writeError(r, 404)
       ELSE /\ call' = IF At(r, "handle") THEN Go(r, "read") ELSE Answered(r, 200)
            /\ UNCHANGED <<hub, plan>>

\* The bound worker is read before the delete, and asked to unload after it.
handleDeleteSession(r) ==
    /\ Ask(r).route = "delete"
    /\ \/ /\ At(r, "handle")
          /\ call' = [call EXCEPT ![r].pc = "delete",
                        ![r].worker = IF Owned(r) THEN hub.sessions[Ask(r).session].worker ELSE None]
          /\ UNCHANGED <<hub, plan>>
       \/ At(r, "delete") /\ ~ Owned(r) /\ writeError(r, 404)
       \/ /\ At(r, "delete") /\ Owned(r)
          /\ hub' = [hub EXCEPT !.sessions[Ask(r).session].state = "ended"]
          /\ call' = Go(r, "unload")
          /\ UNCHANGED plan
       \/ /\ At(r, "unload")
          /\ hub' = IF call[r].worker = None THEN hub
                    ELSE [hub EXCEPT !.unloads = @ \cup {Ask(r).session}]
          /\ call' = Answered(r, 204)
          /\ UNCHANGED plan

-----------------------------------------------------------------------------
(* Clients and the rest of the server *)

\* The client goes away, before or after it has its answer.
Disconnect(r) ==
    /\ plan.leaves /\ call[r].live /\ call[r].pc \in Busy
    /\ call' = [call EXCEPT ![r].live = FALSE]
    /\ UNCHANGED <<hub, plan>>

\* An administrator narrows or revokes a key.
Regrant(k, grants) ==
    /\ plan.admin /\ hub.keys[k] # grants
    /\ hub' = [hub EXCEPT !.keys[k] = grants]
    /\ UNCHANGED <<call, plan>>

\* The minute window rolls.
WindowRolls ==
    /\ plan.rolls
    /\ hub.global < plan.global \/ hub.quota < plan.quota
    /\ hub' = [hub EXCEPT !.global = plan.global, !.quota = plan.quota]
    /\ UNCHANGED <<call, plan>>

\* The sweeper ends an idle session.
Expire(s) ==
    /\ plan.sweeps /\ hub.sessions[s].state = "live"
    /\ hub' = [hub EXCEPT !.sessions[s].state = "ended"]
    /\ UNCHANGED <<call, plan>>

\* A worker joins, leaves or drains.
FleetChange(n) ==
    /\ plan.churn
    /\ hub' = [hub EXCEPT !.fleet[n].online = ~ @]
    /\ UNCHANGED <<call, plan>>

\* What the handler does of itself, whatever the dispatcher does.
Step(r) ==
    \/ authMiddleware(r) \/ rateLimitMiddleware(r) \/ metricsMiddleware(r)
    \/ handleChatCompletions(r) \/ History(r) \/ handleCompletions(r) \/ Submit(r)
    \/ annotatePerKey429(r) \/ persistTurn(r) \/ writeSSEDone(r) \/ streamEnd(r) \/ Cancelled(r)
    \/ handleOpenAIModels(r) \/ handleModels(r) \/ handleOpenAIModelRetrieve(r)
    \/ handleCreateSession(r) \/ handleGetSession(r) \/ handleDeleteSession(r)

GatewayNext ==
    \/ \E r \in DOMAIN plan.asks :
          \/ Step(r) \/ recoverMiddleware(r) \/ Disconnect(r)
          \/ Fail(r) \/ Closed(r) \/ Chunk(r, None)
          \/ \E u \in Results : Finish(r, u) \/ Chunk(r, u)
    \/ \E k \in DOMAIN hub.keys : \E grants \in plan.grants : Regrant(k, grants)
    \/ WindowRolls
    \/ \E s \in Sids : Expire(s)
    \/ \E n \in Nodes : FleetChange(n) \/ \E r \in DOMAIN plan.asks : Place(r, n)

-----------------------------------------------------------------------------
(* Properties *)

Served(r) == call[r].use # None /\ call[r].frames \in {"none", "done"}

GatewayTypeOK ==
    /\ \A r \in Requests : call[r].pc \in Busy \cup {"new", "out", "gone"} /\ call[r].code \in Codes \cup {0}
    /\ hub.global \in 0 .. plan.global /\ hub.quota \in 0 .. plan.quota
    /\ \A s \in Sids : plan.cap >= Len(Visible(s))

\* The context a stored reply was computed from is a stretch of that session's
\* own messages from before the turn, up to the end of a whole turn: History
\* and AppendTurns of concurrent turns, a trim or the session's end in between
\* never mix or tear conversations.
ContextIsPast ==
    \A s \in Sids : LET log == hub.sessions[s].log IN
        \A i \in 1 .. Len(log) :
            LET ctx == call[log[i].by].ctx IN
            ctx # <<>> => \E b \in Len(ctx) .. i - 1 :
                ctx = SubSeq(log, b - Len(ctx) + 1, b) /\ log[b].role = "assistant"

\* Only turns that were answered are stored, once and whole: no reply of a
\* failed, unfinished or refused inference (handleChatCompletions, streamChat).
OnlyCleanTurns ==
    \A s \in Sids : LET log == hub.sessions[s].log IN
        /\ \A i \in 1 .. Len(log) : LET r == log[i].by IN
              /\ Ask(r).session = s /\ call[r].key.id = hub.sessions[s].owner
              /\ call[r].use # None /\ call[r].frames \in {"none", "done"}
        /\ \A r \in Requests : Cardinality({i \in 1 .. Len(log) : log[i].by = r}) \in {0, 2}

\* A request refused before dispatch (4xx) has cost nothing: no job, no tokens,
\* nothing of the key's quota, which is spent on jobs and on what the
\* dispatcher itself turned away; and every job was one its key may run.
RefusedCostsNothing ==
    /\ ~ plan.rolls =>
          plan.quota - hub.quota = Cardinality(hub.jobs \cup {r \in Requests : call[r].code = 503})
    /\ \A r \in Requests :
        /\ call[r].code \in {400, 401, 403, 404, 405, 409, 429} =>
              r \notin hub.jobs /\ call[r].use = None
        /\ r \in hub.jobs => Ask(r).model \in call[r].key.models

\* The throttle counters are the 429s of the limiter and of the key quotas;
\* the session cap's 429 is not one of them.
ThrottlesExact ==
    LET Inference(r) == Ask(r).route \in {"chat", "completions"} IN
    hub.throttled.global + hub.throttled.key =
        Cardinality({r \in DOMAIN plan.asks : call[r].code = 429 /\ Inference(r)})

\* requests_total counts every request once, under the status its client saw.
CodesExact ==
    \A c \in Codes : hub.codes[c] = Cardinality({r \in Requests : At(r, "gone") /\ call[r].code = c})

\* A status line is written once, also when the handler panics later.
StatusFinal ==
    [][\A r \in Requests : call[r].code # 0 => call'[r].code = call[r].code]_gatewayVars

\* tokens_generated_total is the sum of the usage objects of the answers that
\* ended well (recordTokens and usageFrom do not disagree).
MeteredAsReported ==
    LET served == {r \in Requests : Served(r)} IN
    /\ hub.tokens.prompt = MapThenSumSet(LAMBDA r : usageFrom(call[r].use).prompt, served)
    /\ hub.tokens.completion = MapThenSumSet(LAMBDA r : usageFrom(call[r].use).completion, served)

\* A model the catalog shows a key is one that key is not refused (403) while
\* its grants stand: the catalog and the dispatcher share one authorizer.
CatalogInvocable ==
    \A r, q \in Requests :
        call[r].seen # {} /\ call[q].code = 403 /\ call[q].key = call[r].key =>
            Ask(q).model \notin call[r].seen

\* A worker is only asked to unload a session's model once the session ended.
UnloadAfterEnd == \A s \in hub.unloads : hub.sessions[s].state = "ended"

\* Clients that go away do not leave their handlers behind.
LeftBehind == {r \in Requests : ~ call[r].live /\ ~ At(r, "gone")}
GoneClientReleased == LeftBehind # {} ~> LeftBehind = {}

\* A conversation is what was said in it: replies come from its own past, only
\* answered turns are kept, and its model is let go only after its end.
ConversationSound == ContextIsPast /\ OnlyCleanTurns /\ UnloadAfterEnd

\* What clients were told agrees with what was done and counted: quota, jobs,
\* throttles, statuses, tokens and the catalog.
AnswersAccounted ==
    RefusedCostsNothing /\ ThrottlesExact /\ CodesExact /\ MeteredAsReported /\ CatalogInvocable
=============================================================================
