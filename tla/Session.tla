------------------------------- MODULE Session ------------------------------
(***************************************************************************)
(* Sessions and their history: internal/session (Manager, the two memory   *)
(* stores, their checkpoints), the stateful turn of httpapi/chat.go and    *)
(* the boot and checkpoint code of cmd/agentgpu/server.go.                 *)
(*                                                                         *)
(* The manager locks each store per operation and nothing across them, so  *)
(* a call is a sequence of steps: read a copy of the session, append to    *)
(* the history, put the copy back.  Only removal holds countMu over        *)
(* several steps.  A call is one API call of an owner; the sweeper is a    *)
(* goroutine of its own.  A message is its call and its role; the byte and *)
(* token caps have the same form and are one cap on sizes here.            *)
(***************************************************************************)
EXTENDS Integers, Sequences, FiniteSets, FiniteSetsExt

CONSTANTS
    Ids,        \* session ids
    Owners,     \* API key ids
    Calls,      \* API calls
    OwnerOf,    \* [Calls -> Owners], the key that makes the call
    Workers,    \* workers a session may be bound to
    Sizes,      \* [{"user", "assistant"} -> Nat], the size of a message
    MaxTime,    \* bound: clock values 0 .. MaxTime
    Scenarios,  \* bound: configurations and the operations that may happen
    Sweeper,    \* the sweeper goroutine
    None

Ops == {"create", "resume", "bind", "turn", "delete", "sweep", "setmax"}
Scenario == [ops : SUBSET Ops, ttl : Nat, cap : Nat, turns : Nat, size : Nat,
             policy : {"trim", "reject"}, crashes : Nat, boot : SUBSET Ids]

ASSUME CallTypes == OwnerOf \in [Calls -> Owners] /\ Sweeper \notin Calls
ASSUME SizeTypes == Sizes \in [{"user", "assistant"} -> Nat]
ASSUME ScenarioTypes == Scenarios \subseteq Scenario /\ MaxTime \in Nat

Message == [by : Calls, role : {"user", "assistant"}]
Row == [owner : Owners, last : 0 .. MaxTime, ttl : Nat, bound : Workers \cup {None}]

\* An id is 16 random bytes; None is the zero value of a row, an id or a holder.
ASSUME IdsFinite == IsFiniteSet(Ids)
ASSUME NoneDistinct ==
    None \notin Ids /\ None \notin Owners /\ None \notin Calls /\ None # Sweeper /\ None \notin Row

VARIABLES
    clock,
    scenario,
    maxPerKey,  \* m.maxPerKey
    sessions,   \* the session store: Ids -> a row or None
    history,    \* the history store
    counts,     \* m.counts
    countMu,    \* who holds m.countMu across steps, or None
    pc,         \* where each call is; the sweeper's own position included
    id,         \* the session a call is about
    copy,       \* the row a call has read, or is removing
    listed,     \* sessions the sweeper has still to delete
    saving,     \* the checkpoint goroutine: about to write "sessions" or "history"
    disk,       \* the two checkpoint files
    crashes,    \* remaining crashes
    mintedBy,   \* history: the owner of each id given out, or None
    ends,       \* history: end observations of a session in this process
    revived     \* history: sessions put back after their removal

storeVars == <<sessions, history>>
countVars == <<maxPerKey, counts, countMu>>
callVars == <<pc, id, copy>>
diskVars == <<saving, disk, crashes>>
histVars == <<mintedBy, ends, revived>>
vars == <<clock, scenario, storeVars, countVars, callVars, listed, diskVars, histVars>>

Procs == Calls \cup {Sweeper}
Live == {i \in Ids : sessions[i] # None}
Of(o) == {i \in Live : sessions[i].owner = o}
minted == {i \in Ids : mintedBy[i] # None}

expired(row, now) == row.ttl > 0 /\ now - row.last > row.ttl

\* reconcileCounts over the rows of a store.
reconcileCounts(rows) ==
    [o \in Owners |-> Cardinality({i \in Ids : rows[i] # None /\ rows[i].owner = o})]

\* A process that has just booted, perhaps from a checkpoint with sessions.
Init ==
    /\ clock = 0
    /\ scenario \in Scenarios
    /\ maxPerKey = scenario.cap
    /\ \E o \in Owners : mintedBy = [i \in Ids |-> IF i \in scenario.boot THEN o ELSE None]
    /\ sessions = [i \in Ids |-> IF i \in scenario.boot
                     THEN [owner |-> mintedBy[i], last |-> 0, ttl |-> scenario.ttl, bound |-> None]
                     ELSE None]
    /\ history = [i \in Ids |-> <<>>]
    /\ counts = reconcileCounts(sessions)
    /\ countMu = None
    /\ pc = [q \in Procs |-> "idle"]
    /\ id = [q \in Procs |-> None] /\ copy = [q \in Procs |-> None]
    /\ listed = {}
    /\ saving = "sessions" /\ disk = [sessions |-> sessions, history |-> history]
    /\ crashes = scenario.crashes
    /\ ends = [i \in Ids |-> 0] /\ revived = {}

goto(q, l) == pc' = [pc EXCEPT ![q] = l]

-----------------------------------------------------------------------------
(* Create *)

ReserveSlot(p) ==
    /\ pc[p] = "idle" /\ "create" \in scenario.ops /\ countMu = None
    /\ IF maxPerKey > 0 /\ counts[OwnerOf[p]] >= maxPerKey
       THEN goto(p, "done") /\ UNCHANGED counts
       ELSE goto(p, "mint") /\ counts' = [counts EXCEPT ![OwnerOf[p]] = @ + 1]
    /\ UNCHANGED <<clock, scenario, storeVars, maxPerKey, countMu, id, copy, listed, diskVars,
                   histVars>>

\* newID draws an id never used before, and the row is made up.
NewID(p) ==
    /\ pc[p] = "mint"
    /\ \E i \in Ids \ minted :
          /\ id' = [id EXCEPT ![p] = i]
          /\ mintedBy' = [mintedBy EXCEPT ![i] = OwnerOf[p]]
    /\ copy' = [copy EXCEPT ![p] = [owner |-> OwnerOf[p], last |-> clock,
                                    ttl |-> scenario.ttl, bound |-> None]]
    /\ goto(p, "store")
    /\ UNCHANGED <<clock, scenario, storeVars, countVars, listed, diskVars, ends, revived>>

\* releaseSlot, which deleteSession repeats in place.
release(o) == [counts EXCEPT ![o] = IF @ > 1 THEN @ - 1 ELSE 0]

\* Without entropy the slot goes back.
NewIDFails(p) ==
    /\ pc[p] = "mint" /\ countMu = None
    /\ counts' = release(OwnerOf[p])
    /\ goto(p, "done")
    /\ UNCHANGED <<clock, scenario, storeVars, maxPerKey, countMu, id, copy, listed, diskVars,
                   histVars>>

PutNew(p) ==
    /\ pc[p] = "store"
    /\ sessions' = [sessions EXCEPT ![id[p]] = copy[p]]
    /\ goto(p, "done")
    /\ UNCHANGED <<clock, scenario, history, countVars, id, copy, listed, diskVars, histVars>>

-----------------------------------------------------------------------------
(* Resume, Bind and the stateful turn: read, (append,) put back *)

ownedActive(p, i) ==
    /\ sessions[i] # None
    /\ sessions[i].owner = OwnerOf[p]
    /\ ~expired(sessions[i], clock)

\* The copy, its timestamp already moved to now; not found ends the call.
readCopy(p, i, row, next) ==
    /\ id' = [id EXCEPT ![p] = i]
    /\ IF ownedActive(p, i)
       THEN copy' = [copy EXCEPT ![p] = row] /\ goto(p, next)
       ELSE goto(p, "done") /\ UNCHANGED copy

Resume(p) ==
    /\ pc[p] = "idle" /\ "resume" \in scenario.ops
    /\ \E i \in minted : readCopy(p, i, [sessions[i] EXCEPT !.last = clock], "put")
    /\ UNCHANGED <<clock, scenario, storeVars, countVars, listed, diskVars, histVars>>

Bind(p) ==
    /\ pc[p] = "idle" /\ "bind" \in scenario.ops
    /\ \E i \in minted, w \in Workers :
          readCopy(p, i, [sessions[i] EXCEPT !.last = clock, !.bound = w], "put")
    /\ UNCHANGED <<clock, scenario, storeVars, countVars, listed, diskVars, histVars>>

Size(h) ==
    LET count(role) == Cardinality({n \in DOMAIN h : h[n].role = role})
    IN  count("user") * Sizes["user"] + count("assistant") * Sizes["assistant"]

\* Caps of 0 are no caps.
Fits(h) ==
    /\ scenario.turns > 0 => Len(h) <= scenario.turns
    /\ scenario.size > 0 => Size(h) <= scenario.size

rejects(h) == scenario.policy = "reject" /\ ~Fits(h)

\* The longest suffix that fits, and never less than the newest message.
trim(h) ==
    LET from == {n \in 1 .. Len(h) : n = Len(h) \/ Fits(SubSeq(h, n, Len(h)))}
    IN  IF h = <<>> THEN h ELSE SubSeq(h, Min(from), Len(h))

messages(p) == <<[by |-> p, role |-> "user"], [by |-> p, role |-> "assistant"]>>

\* handleChatCompletions: the turn is refused up front when its own message
\* would not fit,
CheckAppendable(p) ==
    /\ pc[p] = "idle" /\ "turn" \in scenario.ops
    /\ \E i \in minted :
          /\ id' = [id EXCEPT ![p] = i]
          /\ goto(p, IF ownedActive(p, i) /\ ~rejects(Append(history[i], messages(p)[1]))
                     THEN "history" ELSE "done")
    /\ UNCHANGED <<clock, scenario, storeVars, countVars, copy, listed, diskVars, histVars>>

\* the history is read for the prompt,
ReadHistory(p) ==
    /\ pc[p] = "history"
    /\ goto(p, IF ownedActive(p, id[p]) THEN "infer" ELSE "done")
    /\ UNCHANGED <<clock, scenario, storeVars, countVars, id, copy, listed, diskVars, histVars>>

InferenceFails(p) ==
    /\ pc[p] = "infer"
    /\ goto(p, "done")
    /\ UNCHANGED <<clock, scenario, storeVars, countVars, id, copy, listed, diskVars, histVars>>

\* and once a worker has answered persistTurn runs AppendTurns.
AppendTurns(p) ==
    /\ pc[p] = "infer"
    /\ readCopy(p, id[p], [sessions[id[p]] EXCEPT !.last = clock], "append")
    /\ UNCHANGED <<clock, scenario, storeVars, countVars, listed, diskVars, histVars>>

\* A bug in AppendBatch: the messages of a batch are appended one by one.
AppendBatchSplit(p) ==
    /\ pc[p] = "append"
    /\ \E n \in {1, 2} :
          LET h == history[id[p]] \o SubSeq(messages(p), 1, n) IN
          IF rejects(h)
          THEN goto(p, "done") /\ UNCHANGED history
          ELSE goto(p, "put") /\ history' = [history EXCEPT ![id[p]] = trim(h)]
    /\ UNCHANGED <<clock, scenario, sessions, countVars, id, copy, listed, diskVars, histVars>>

AppendBatch(p) ==
    /\ pc[p] = "append"
    /\ LET h == history[id[p]] \o messages(p) IN
       IF rejects(h)
       THEN goto(p, "done") /\ UNCHANGED history
       ELSE goto(p, "put") /\ history' = [history EXCEPT ![id[p]] = trim(h)]
    /\ UNCHANGED <<clock, scenario, sessions, countVars, id, copy, listed, diskVars, histVars>>

Put(p) ==
    /\ pc[p] = "put"
    /\ sessions' = [sessions EXCEPT ![id[p]] = copy[p]]
    /\ revived' = IF sessions[id[p]] = None THEN revived \cup {id[p]} ELSE revived
    /\ goto(p, "done")
    /\ UNCHANGED <<clock, scenario, history, countVars, id, copy, listed, diskVars, mintedBy, ends>>

-----------------------------------------------------------------------------
(* Delete and the sweeper *)

\* Delete: an expired session may still be deleted.
Delete(p) ==
    /\ pc[p] = "idle" /\ "delete" \in scenario.ops
    /\ \E i \in minted :
          /\ id' = [id EXCEPT ![p] = i]
          /\ goto(p, IF sessions[i] # None /\ sessions[i].owner = OwnerOf[p]
                     THEN "delete" ELSE "done")
    /\ UNCHANGED <<clock, scenario, storeVars, countVars, copy, listed, diskVars, histVars>>

\* sweepExpired lists the sessions that are idle now,
SweepList ==
    /\ pc[Sweeper] = "idle" /\ "sweep" \in scenario.ops
    /\ listed' = {i \in Live : expired(sessions[i], clock)}
    /\ listed' # {}
    /\ goto(Sweeper, "sweep")
    /\ UNCHANGED <<clock, scenario, storeVars, countVars, id, copy, diskVars, histVars>>

\* and deletes them one after the other.
SweepNext ==
    /\ pc[Sweeper] = "sweep"
    /\ IF listed = {}
       THEN goto(Sweeper, "idle") /\ UNCHANGED <<id, listed>>
       ELSE \E i \in listed :
              /\ id' = [id EXCEPT ![Sweeper] = i]
              /\ listed' = listed \ {i}
              /\ goto(Sweeper, "delete")
    /\ UNCHANGED <<clock, scenario, storeVars, countVars, copy, diskVars, histVars>>

\* A bug in leave: the sweeper's loop ends with its first deletion.
leaveLoop(q) == goto(q, "done")

leave(q) == goto(q, IF q = Sweeper THEN "sweep" ELSE "done")

\* A bug in DeleteRow: the presence of the row is not checked again.
DeleteRowUnchecked(q) ==
    /\ pc[q] = "delete" /\ countMu = None
    /\ sessions' = [sessions EXCEPT ![id[q]] = None]
    /\ copy' = [copy EXCEPT ![q] = [owner |-> mintedBy[id[q]], last |-> 0, ttl |-> 0, bound |-> None]]
    /\ countMu' = q
    /\ goto(q, "purge")
    /\ UNCHANGED <<clock, scenario, history, maxPerKey, counts, id, listed, diskVars, histVars>>

\* deleteSession takes countMu, checks that the row is there, deletes it,
DeleteRow(q) ==
    /\ pc[q] = "delete" /\ countMu = None
    /\ IF sessions[id[q]] = None
       THEN leave(q) /\ UNCHANGED <<sessions, copy, countMu>>
       ELSE /\ sessions' = [sessions EXCEPT ![id[q]] = None]
            /\ copy' = [copy EXCEPT ![q] = sessions[id[q]]]
            /\ countMu' = q
            /\ goto(q, "purge")
    /\ UNCHANGED <<clock, scenario, history, maxPerKey, counts, id, listed, diskVars, histVars>>

\* then its history, gives the slot back, unlocks and reports the end.
Purge(q) ==
    /\ pc[q] = "purge"
    /\ history' = [history EXCEPT ![id[q]] = <<>>]
    /\ counts' = release(copy[q].owner)
    /\ countMu' = None
    /\ ends' = [ends EXCEPT ![id[q]] = @ + 1]
    /\ leave(q)
    /\ UNCHANGED <<clock, scenario, sessions, maxPerKey, id, copy, listed, diskVars, mintedBy, revived>>

-----------------------------------------------------------------------------
(* Configuration, time, checkpoints and restarts *)

\* An operator moves the cap; the bound keeps it at or below the booted one.
SetMaxSessionsPerKey ==
    /\ "setmax" \in scenario.ops /\ countMu = None
    /\ \E n \in 1 .. scenario.cap : n # maxPerKey /\ maxPerKey' = n
    /\ UNCHANGED <<clock, scenario, storeVars, counts, countMu, callVars, listed, diskVars, histVars>>

Tick ==
    /\ clock < MaxTime
    /\ clock' = clock + 1
    /\ UNCHANGED <<scenario, storeVars, countVars, callVars, listed, diskVars, histVars>>

\* checkpointSessions: first one file, then the other; a write may fail and is
\* then only logged.  Not taken once no crash is left to read it.
CheckpointSessions ==
    /\ crashes > 0 /\ saving = "sessions"
    /\ \/ disk' = [disk EXCEPT !.sessions = sessions]
       \/ UNCHANGED disk
    /\ saving' = "history"
    /\ UNCHANGED <<clock, scenario, storeVars, countVars, callVars, listed, crashes, histVars>>

CheckpointHistory ==
    /\ crashes > 0 /\ saving = "history"
    /\ \/ disk' = [disk EXCEPT !.history = history]
       \/ UNCHANGED disk
    /\ saving' = "sessions"
    /\ UNCHANGED <<clock, scenario, storeVars, countVars, callVars, listed, crashes, histVars>>

LoadSessions(now) ==
    [i \in Ids |-> IF disk.sessions[i] # None /\ ~expired(disk.sessions[i], now)
                   THEN disk.sessions[i] ELSE None]

\* A bug in LoadHistory: a nil keep set, which keeps everything.
LoadHistoryAll(keep) == [i \in Ids |-> trim(disk.history[i])]

LoadHistory(keep) == [i \in Ids |-> IF i \in keep THEN trim(disk.history[i]) ELSE <<>>]

\* A crash at any point, and the boot that follows it after a while.  Calls in
\* flight are lost.
Restart ==
    /\ crashes > 0
    /\ crashes' = crashes - 1
    /\ \E now \in clock .. MaxTime :
          /\ clock' = now
          /\ sessions' = LoadSessions(now)
    /\ history' = LoadHistory({i \in Ids : sessions'[i] # None})
    /\ maxPerKey' = scenario.cap
    /\ counts' = reconcileCounts(sessions')
    /\ countMu' = None
    /\ pc' = [q \in Procs |-> IF q = Sweeper \/ pc[q] = "idle" THEN "idle" ELSE "done"]
    /\ listed' = {} /\ saving' = "sessions"
    /\ ends' = [i \in Ids |-> 0]
    /\ UNCHANGED <<scenario, id, copy, disk, mintedBy, revived>>

Create(p) == ReserveSlot(p) \/ NewID(p) \/ NewIDFails(p) \/ PutNew(p)
Turn(p) == CheckAppendable(p) \/ ReadHistory(p) \/ InferenceFails(p) \/ AppendTurns(p)
           \/ AppendBatch(p)
Removal(q) == DeleteRow(q) \/ Purge(q)

Next ==
    \/ \E p \in Calls : Create(p) \/ Resume(p) \/ Bind(p) \/ Turn(p) \/ Put(p) \/ Delete(p)
    \/ \E q \in Procs : Removal(q)
    \/ SweepList \/ SweepNext
    \/ SetMaxSessionsPerKey \/ Tick
    \/ CheckpointSessions \/ CheckpointHistory \/ Restart

Spec == Init /\ [][Next]_vars

\* The ticker of the sweeper keeps firing and a lock holder runs to its unlock;
\* nothing makes callers, operators, time or crashes happen.
FairSpec ==
    /\ Spec
    /\ WF_vars(SweepList) /\ WF_vars(SweepNext) /\ WF_vars(Removal(Sweeper))
    /\ \A p \in Calls : WF_vars(Purge(p))

-----------------------------------------------------------------------------
(* Properties *)

TypeOK ==
    /\ clock \in 0 .. MaxTime
    /\ scenario \in Scenarios
    /\ maxPerKey \in Nat
    /\ sessions \in [Ids -> Row \cup {None}]
    /\ history \in [Ids -> Seq(Message)]
    /\ counts \in [Owners -> Nat]
    /\ countMu \in Procs \cup {None}
    /\ pc \in [Procs -> {"idle", "mint", "store", "history", "infer", "append", "put", "delete",
                         "purge", "sweep", "done"}]
    /\ id \in [Procs -> Ids \cup {None}]
    /\ copy \in [Procs -> Row \cup {None}]
    /\ listed \subseteq Ids
    /\ saving \in {"sessions", "history"}
    /\ disk \in [sessions : [Ids -> Row \cup {None}], history : [Ids -> Seq(Message)]]
    /\ crashes \in Nat
    /\ mintedBy \in [Ids -> Owners \cup {None}]
    /\ ends \in [Ids -> Nat]
    /\ revived \subseteq Ids

Creating(o) == {p \in Calls : OwnerOf[p] = o /\ pc[p] \in {"mint", "store"}}
Removing(o) == {q \in Procs : pc[q] = "purge" /\ copy[q].owner = o}

\* Owners none of whose removed sessions has been put back.
Undisturbed == Owners \ {mintedBy[i] : i \in revived}

\* The tally of an owner is its stored sessions, the creates that hold a slot
\* and the removal in its critical section, through any race of creates,
\* deletes and sweeps and after any restart; as long as no read-modify-write
\* has put a removed session back.
TallyExact ==
    \A o \in Undisturbed :
        counts[o] = Cardinality(Of(o)) + Cardinality(Creating(o)) + Cardinality(Removing(o))

\* reserveSlot keeps an owner within the cap however creates, removals, cap
\* changes and restarts interleave, again unless a removed session came back.
\* An owner the first boot found above the cap gains nothing.
ConcurrentCap ==
    scenario.cap > 0 => \A o \in Undisturbed :
        \/ Cardinality(Of(o)) <= scenario.cap
        \/ Cardinality(Of(o)) <= Cardinality(scenario.boot)

\* deleteSession reports the end of a session once per process, however many
\* deletes and sweeps race for it, again unless it came back.
EndedOnce == \A i \in Ids \ revived : ends[i] <= 1

\* A history without its session is passing: a removal is about to delete it,
\* or the append that wrote it is about to put the row back.  No boot leaves
\* one, whichever of the two files is the older.
NoLastingOrphan ==
    \A i \in Ids : history[i] # <<>> /\ sessions[i] = None =>
        \E q \in Procs : id[q] = i /\ pc[q] \in {"purge", "put"}

\* Under OverflowReject a stored history is made of whole turns: concurrent
\* turns, caps reached by the reply, removals and restarts never leave a user
\* message without its answer or an answer without its question.
WholeTurns ==
    scenario.policy = "reject" => \A i \in Ids :
        /\ Len(history[i]) % 2 = 0
        /\ \A n \in 1 .. Len(history[i]) : n % 2 = 1 =>
              SubSeq(history[i], n, n + 1) = messages(history[i][n].by)

\* Stored history respects every cap, except a newest message too large by
\* itself, which trimming keeps.
HistoryWithinCaps ==
    \A i \in Ids : Fits(history[i]) \/ (scenario.policy = "trim" /\ Len(history[i]) = 1)

\* A session that has idled out is removed or comes back to life: the sweeper
\* is not starved by callers that hold the lock or by rows put back.
ExpiredGoes ==
    "sweep" \in scenario.ops => \A i \in Ids :
        (sessions[i] # None /\ expired(sessions[i], clock))
            ~> (sessions[i] = None \/ ~expired(sessions[i], clock))

\* The slots of an owner through every race for them: the tally is exact, the
\* cap holds, and a session ends, and gives its slot back, once.
SlotsExact == TypeOK /\ TallyExact /\ ConcurrentCap /\ EndedOnce

\* A stored history is made of whole turns and fits the caps.
HistoryWhole == WholeTurns /\ HistoryWithinCaps
=============================================================================
