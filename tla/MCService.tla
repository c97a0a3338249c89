------------------------------- MODULE MCService -------------------------------
(* Small instances of Service. *)
EXTENDS Service

CONSTANTS r1, r2, r3, s1, s2, n1, n2, ka, kb, ma, mb, c1

\* A backend that reports no split, and one whose total is short.
MCResults == {[prompt |-> 0, completion |-> 0, total |-> 2], [prompt |-> 1, completion |-> 1, total |-> 1]}

MCLatency == [r \in Recorders |-> r]

MCCards == {[type |-> "a", vram |-> 2, free |-> 1, load |-> 0, status |-> "online"],
            [type |-> "a", vram |-> 1, free |-> 0, load |-> 3, status |-> "draining"],
            [type |-> "b", vram |-> 1, free |-> 1, load |-> 2, status |-> "online"],
            [type |-> "b", vram |-> 0, free |-> 0, load |-> 1, status |-> "offline"]}

MCScopes == {{"quota", "usage"}, {"sessions", "history"}, {"audit"}}
MCQuotaScope == {{"quota", "usage"}}

-----------------------------------------------------------------------------
(* What clients ask for *)

Chat == [route |-> "chat", key |-> ka, verb |-> "POST", body |-> "ok", model |-> ma,
         session |-> None, header |-> None, stream |-> FALSE]
Said == [Chat EXCEPT !.session = s1]
Streamed == [Said EXCEPT !.stream = TRUE]
Pinned == [Chat EXCEPT !.header = s1]
Completion == [Chat EXCEPT !.route = "completions", !.stream = TRUE]
OnSession(route) == [Said EXCEPT !.route = route]
Create(k) == [Chat EXCEPT !.route = "create", !.key = k]
Models == [Chat EXCEPT !.route = "models", !.verb = "GET"]
Catalog == [Models EXCEPT !.route = "catalog"]
Model(m) == [Chat EXCEPT !.route = "model", !.verb = "GET", !.model = m]
Anonymous == [Chat EXCEPT !.key = None]

Unborn == [state |-> "free", owner |-> None, log |-> <<>>, from |-> 0, worker |-> None]
Grants(models) == [ok |-> TRUE, models |-> models]

Base == [asks |-> <<>>, keys |-> (ka :> Grants({ma}) @@ kb :> Grants({ma, mb})),
         global |-> 3, quota |-> 3,
         sessions |-> (s1 :> [Unborn EXCEPT !.state = "live", !.owner = ka] @@ s2 :> Unborn),
         fleet |-> (n1 :> [online |-> TRUE, models |-> {ma, mb}] @@ n2 :> [online |-> FALSE, models |-> {ma}]),
         policy |-> "trim", cap |-> 2, perKey |-> 1, grants |-> {},
         faults |-> FALSE, leaves |-> FALSE, admin |-> FALSE, rolls |-> FALSE,
         sweeps |-> FALSE, churn |-> FALSE]

Asking(a, b, c) == [Base EXCEPT !.asks = r1 :> a @@ r2 :> b @@ r3 :> c]
AskingTwo(a, b) == [Base EXCEPT !.asks = r1 :> a @@ r2 :> b]

Changes == {Grants({mb}), [ok |-> FALSE, models |-> {}]}

MCPlans == {
    \* Concurrent turns of one session: clients leave, the session ends.
    [AskingTwo(Said, Streamed) EXCEPT !.leaves = TRUE, !.sweeps = TRUE],
    Asking(Said, Streamed, OnSession("delete")),
    \* History that is full rejects, and belongs to one key.
    [Asking(Said, Streamed, [Said EXCEPT !.key = kb]) EXCEPT !.policy = "reject"],
    \* Both throttles, with a window that rolls; and a session cap.
    [AskingTwo(Chat, Completion) EXCEPT !.global = 1, !.rolls = TRUE],
    [AskingTwo(Chat, Pinned) EXCEPT !.quota = 1, !.rolls = TRUE],
    [AskingTwo(Chat, Catalog) EXCEPT !.quota = 1, !.rolls = TRUE],
    [Asking(Chat, [Chat EXCEPT !.model = mb], Create(ka)) EXCEPT !.quota = 1],
    \* The catalog while grants change.
    [AskingTwo([Chat EXCEPT !.model = mb], Models) EXCEPT !.admin = TRUE, !.grants = Changes],
    [AskingTwo(Models, Model(mb)) EXCEPT !.admin = TRUE, !.grants = Changes],
    \* The session endpoints.
    [AskingTwo(OnSession("get"), OnSession("delete")) EXCEPT !.faults = TRUE, !.sweeps = TRUE],
    [Asking(Create(ka), Create(kb), Pinned) EXCEPT !.faults = TRUE],
    \* Panics and failures; and requests that are refused.
    [AskingTwo(Streamed, [Chat EXCEPT !.body = "bad"]) EXCEPT !.faults = TRUE],
    [AskingTwo(Said, [Chat EXCEPT !.model = None]) EXCEPT !.faults = TRUE, !.churn = TRUE],
    AskingTwo(Anonymous, [Models EXCEPT !.verb = "POST"]),
    Asking([Completion EXCEPT !.verb = "GET"], [Catalog EXCEPT !.verb = "POST"], [Create(ka) EXCEPT !.body = "bad"])}

-----------------------------------------------------------------------------
(* What the scheduler sees, and what the load generator is asked for *)

Machine == [status |-> "online", models |-> {}, freeVRAM |-> 1, load |-> 0, activeJobs |-> 0]
MCSnapshots == {
    Machine,
    [Machine EXCEPT !.freeVRAM = 4, !.load = 100, !.activeJobs = 49],
    [Machine EXCEPT !.load = 1],
    [Machine EXCEPT !.activeJobs = 49],
    [Machine EXCEPT !.models = {"m1"}, !.freeVRAM = 0],
    [Machine EXCEPT !.models = {"m1", "m2"}, !.freeVRAM = 8, !.load = 100],
    [Machine EXCEPT !.freeVRAM = 0],
    [Machine EXCEPT !.status = "draining", !.models = {"m1", "m2"}]}

Drive == [duration |-> 0, requests |-> 0, concurrency |-> 2, rate |-> 0, mix |-> <<>>, endpoint |-> "chat",
          model |-> TRUE, token |-> TRUE, inproc |-> FALSE, admin |-> FALSE, signal |-> FALSE,
          answers |-> {200}, clock |-> 3]
MCLoadPlans == {
    \* Both loops with a budget, with a duration, and with a mix.
    [Drive EXCEPT !.answers = {200, 429, 500, 503}, !.clock = 1],
    [Drive EXCEPT !.requests = 3, !.mix = <<<<"models", 1>>, <<>>, <<"chat", 2>>>>, !.clock = 1],
    [Drive EXCEPT !.duration = 1],
    [Drive EXCEPT !.requests = 3, !.rate = 1],
    [Drive EXCEPT !.duration = 2, !.concurrency = 1, !.rate = 1, !.answers = {200, 503}],
    \* With a poller: in process and interrupted, and from outside.
    [Drive EXCEPT !.requests = 1, !.concurrency = 1, !.inproc = TRUE, !.model = FALSE, !.signal = TRUE, !.clock = 0],
    [Drive EXCEPT !.requests = 1, !.rate = 1, !.admin = TRUE, !.endpoint = "models", !.clock = 0],
    \* Command lines that are refused.
    [Drive EXCEPT !.requests = 2, !.duration = 1], [Drive EXCEPT !.duration = -1],
    [Drive EXCEPT !.token = FALSE], [Drive EXCEPT !.model = FALSE], [Drive EXCEPT !.concurrency = 0],
    [Drive EXCEPT !.mix = <<<<"chat", 0>>>>], [Drive EXCEPT !.endpoint = "tags"],
    [Drive EXCEPT !.endpoint = "models", !.mix = <<<<"chat", 1>>>>]}
=============================================================================
