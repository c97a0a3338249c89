-------------------------------- MODULE Process --------------------------------
(***************************************************************************)
(* The server process, cmd/agentgpu/server.go: boot, the checkpoint        *)
(* tickers, shutdown, and the five files that carry its memory from one    *)
(* run to the next.                                                        *)
(*                                                                         *)
(* A file is written by whoever checkpoints it: a snapshot is taken under  *)
(* the store's lock, and renamed into place after the lock is released.    *)
(* The four tickers and the shutdown path are such writers.                *)
(***************************************************************************)
EXTENDS Integers, Sequences, FiniteSets, FiniteSetsExt

CONSTANTS
    Chats,        \* session ids
    Clients,      \* HTTP requests that may be in flight
    Links,        \* worker connections
    AuditCap,     \* entries the audit log keeps
    MaxCount,     \* bound on inference requests and on turns
    Boots         \* bound on how often the process is started

VARIABLES
    proc,    \* the process: gone when it is
    disk,    \* the checkpoint files
    scope    \* the files whose stores see traffic

processVars == <<proc, disk, scope>>

\* The writers and the files each of them writes, in order.
Tickers == {"quota", "session", "audit", "usage"}
FilesOf(w) ==
    CASE w = "session" -> <<"sessions", "history">>
      [] w = "main" -> <<"quota", "sessions", "history", "audit", "usage">>
      [] OTHER -> <<w>>

Files == {"quota", "sessions", "history", "audit", "usage"}
Empty == [quota |-> 0, sessions |-> {}, history |-> [s \in Chats |-> 0], audit |-> <<>>, usage |-> 0]

IdleWriters == [w \in Tickers \cup {"main"} |-> [todo |-> <<>>, hold |-> <<>>]]

Stopped == [pc |-> "down", load |-> <<>>, mem |-> Empty, writers |-> IdleWriters,
            http |-> {}, links |-> {}, used |-> {}, clean |-> TRUE, boots |-> 0]

ProcessInit == proc = Stopped /\ disk = [data |-> Empty, torn |-> {}]

Up == {"serving", "drain", "grpc", "final"}
Mem(f) == proc.mem[f]

-----------------------------------------------------------------------------
(* Boot *)

\* The checkpoints in the order they are loaded.  No listener serves yet.
BootOrder == <<"quota", "sessions", "history", "audit", "usage">>

\* The gRPC port is taken, or there is an error.
Start ==
    /\ proc.pc \in {"down", "exited", "failed"} /\ proc.boots < Boots
    /\ \E pc \in {"boot", "failed"} :
          proc' = [Stopped EXCEPT !.pc = pc, !.load = BootOrder,
                                  !.used = proc.used, !.boots = proc.boots + 1]
    /\ UNCHANGED <<disk, scope>>

\* Sessions that idled out while the process was down are dropped.
sessionsLoadCheckpoint(live) == disk.data.sessions \cap live

\* History is only loaded for the sessions that were.
sessionKeepSet == Mem("sessions")

\* A bug: the history of dropped sessions is loaded too.
historyLoadAll(keep) == disk.data.history
historyLoadCheckpoint(keep) == [s \in Chats |-> IF s \in keep THEN disk.data.history[s] ELSE 0]

auditLoadCheckpoint == LET log == disk.data.audit IN
    IF Len(log) > AuditCap THEN SubSeq(log, Len(log) - AuditCap + 1, Len(log)) ELSE log

\* A bug: the quota counters start from zero.
LoadForgets(live) ==
    /\ proc.pc = "boot" /\ proc.load # <<>>
    /\ proc' = [proc EXCEPT !.load = Tail(@)]
    /\ UNCHANGED <<disk, scope>>
Load(live) ==
    /\ proc.pc = "boot" /\ proc.load # <<>>
    /\ LET f == Head(proc.load) IN
       IF f \in disk.torn THEN proc' = [proc EXCEPT !.pc = "wedged"]
       ELSE proc' = [proc EXCEPT !.load = Tail(@), !.mem[f] =
            CASE f = "sessions" -> sessionsLoadCheckpoint(live)
              [] f = "history" -> historyLoadCheckpoint(sessionKeepSet)
              [] f = "audit" -> auditLoadCheckpoint
              [] OTHER -> disk.data[f]]
    /\ UNCHANGED <<disk, scope>>

\* One usage sample, then the servers run.
serve ==
    /\ proc.pc = "boot" /\ proc.load = <<>>
    /\ proc' = [proc EXCEPT !.pc = "serving", !.mem.usage = Mem("quota")]
    /\ UNCHANGED <<disk, scope>>

-----------------------------------------------------------------------------
(* Checkpoints *)

\* A writer takes its next snapshot.  The shutdown path samples usage first.
Snapshot(w) ==
    /\ proc.pc \in Up /\ proc.writers[w].todo # <<>> /\ proc.writers[w].hold = <<>>
    /\ LET f == Head(proc.writers[w].todo)
           mem == IF w = "main" /\ f = "usage" THEN [proc.mem EXCEPT !.usage = Mem("quota")] ELSE proc.mem
       IN proc' = [proc EXCEPT !.writers[w].hold = <<mem[f]>>, !.mem = mem]
    /\ UNCHANGED <<disk, scope>>

\* The rename: old or new content, never a part.  A failure is logged and
\* leaves the file as it was.
writeCheckpoint(w) ==
    /\ proc.pc \in Up /\ proc.writers[w].hold # <<>> /\ UNCHANGED scope
    /\ LET x == proc.writers[w] IN
       \E ok \in BOOLEAN :
          /\ disk' = IF ok THEN [disk EXCEPT !.data[Head(x.todo)] = x.hold[1]] ELSE disk
          /\ proc' = [proc EXCEPT !.writers[w] = [todo |-> Tail(x.todo), hold |-> <<>>],
                                  !.clean = @ /\ (ok \/ w # "main")]

\* A ticker fires.  Once the context has ended, a goroutine that finds both the
\* end and a tick may still take the tick.
Tick(w) ==
    /\ proc.pc \in Up /\ proc.writers[w].todo = <<>>
    /\ Range(FilesOf(w)) \subseteq scope
    /\ proc' = [proc EXCEPT !.writers[w].todo = FilesOf(w), !.clean = @ /\ proc.pc # "final"]
    /\ UNCHANGED <<disk, scope>>

\* The usage snapshotter.
sampleUsage ==
    /\ proc.pc \in Up /\ Mem("usage") # Mem("quota")
    /\ proc' = [proc EXCEPT !.mem.usage = Mem("quota")]
    /\ UNCHANGED <<disk, scope>>

-----------------------------------------------------------------------------
(* Traffic *)

Arrive(c) ==
    /\ proc.pc = "serving" /\ c \notin proc.http
    /\ proc' = [proc EXCEPT !.http = @ \cup {c}]
    /\ UNCHANGED <<disk, scope>>

\* A request in flight changes one of the stores, and ends.
Handle(c, f, mem) ==
    /\ proc.pc \in Up /\ c \in proc.http /\ f \in scope
    /\ proc' = [proc EXCEPT !.http = @ \ {c}, !.mem = mem, !.used = @ \cup mem.sessions]
    /\ UNCHANGED <<disk, scope>>

Infer(c) == Mem("quota") < MaxCount /\ Handle(c, "quota", [proc.mem EXCEPT !.quota = @ + 1])

CreateSession(c, s) == s \notin proc.used /\ Handle(c, "sessions", [proc.mem EXCEPT !.sessions = @ \cup {s}])

Say(c, s) == s \in Mem("sessions") /\ Mem("history")[s] < MaxCount
             /\ Handle(c, "history", [proc.mem EXCEPT !.history[s] = Mem("history")[s] + 1])

\* The session's history goes with it.
EndSession(c, s) == s \in Mem("sessions")
                    /\ Handle(c, "sessions", [proc.mem EXCEPT !.sessions = @ \ {s}, !.history[s] = 0])

\* The audit log keeps its newest entries.
auditAppend(log, e) == LET all == Append(log, e) IN
    IF Len(all) > AuditCap THEN SubSeq(all, Len(all) - AuditCap + 1, Len(all)) ELSE all

Administer(c) ==
    LET log == Mem("audit")
        next == IF log = <<>> THEN 1 ELSE log[Len(log)] + 1 IN
    next <= AuditCap + 1 /\ Handle(c, "audit", [proc.mem EXCEPT !.audit = auditAppend(@, next)])

\* Workers come until the gRPC server stops, and go when they please.
Link(l) ==
    /\ proc.pc \in {"serving", "drain"} /\ l \notin proc.links
    /\ proc' = [proc EXCEPT !.links = @ \cup {l}]
    /\ UNCHANGED <<disk, scope>>
Unlink(l) ==
    /\ proc.pc \in Up /\ l \in proc.links
    /\ proc' = [proc EXCEPT !.links = @ \ {l}]
    /\ UNCHANGED <<disk, scope>>

-----------------------------------------------------------------------------
(* Shutdown *)

\* SIGTERM: HTTP stops accepting.
Signal == proc.pc = "serving" /\ proc' = [proc EXCEPT !.pc = "drain"] /\ UNCHANGED <<disk, scope>>

\* HTTP Shutdown returns when no request is left, or after its timeout.
Shutdown ==
    /\ proc.pc = "drain"
    /\ proc' = [proc EXCEPT !.pc = "grpc", !.clean = @ /\ proc.http = {}]
    /\ UNCHANGED <<disk, scope>>

\* GracefulStop waits for every worker's stream to end, without a timeout.
\* The final checkpoints follow it.
GracefulStop ==
    /\ proc.pc = "grpc" /\ proc.links = {}
    /\ proc' = [proc EXCEPT !.pc = "final", !.writers["main"].todo = FilesOf("main"),
                  !.clean = @ /\ \A w \in Tickers : proc.writers[w].todo = <<>>]
    /\ UNCHANGED <<disk, scope>>

Exit ==
    /\ proc.pc = "final" /\ proc.writers["main"].todo = <<>>
    /\ proc' = [proc EXCEPT !.pc = "exited"]
    /\ UNCHANGED <<disk, scope>>

\* A listener fails: the process returns at once, without checkpoints.
ListenerFails == proc.pc = "serving" /\ proc' = [proc EXCEPT !.pc = "failed"] /\ UNCHANGED <<disk, scope>>

Crash ==
    /\ proc.pc \in Up \cup {"boot"}
    /\ proc' = [proc EXCEPT !.pc = "down"]
    /\ UNCHANGED <<disk, scope>>

\* What the main goroutine does of itself, the timeout of the drain included.
MainStep ==
    \/ serve \/ Shutdown \/ GracefulStop \/ Exit
    \/ Snapshot("main") \/ writeCheckpoint("main")

ProcessNext ==
    \/ MainStep \/ Start \/ sampleUsage \/ Signal \/ ListenerFails \/ Crash
    \/ \E live \in SUBSET Chats : Load(live)
    \/ \E w \in Tickers : Tick(w) \/ Snapshot(w) \/ writeCheckpoint(w)
    \/ \E l \in Links : Link(l) \/ Unlink(l)
    \/ \E c \in Clients :
          \/ Arrive(c) \/ Infer(c) \/ Administer(c)
          \/ \E s \in Chats : CreateSession(c, s) \/ Say(c, s) \/ EndSession(c, s)

-----------------------------------------------------------------------------
(* Properties *)

\* No crash leaves a checkpoint that the next boot refuses to load.
BootNeverWedged == proc.pc # "wedged"

\* Whatever the crash left of the two files, a session that is gone does not
\* come back through its history, nor a history without its session.
HistoryOwned == \A s \in Chats : proc.pc \in Up /\ Mem("history")[s] > 0 => s \in Mem("sessions")

\* A graceful exit has written everything: each file holds the state as it was
\* when the process ended.  It may not when a write failed, a request outlived
\* the drain, or a ticker's write overlapped the final one.
GracefulExitSaves == proc.pc = "exited" /\ proc.clean => disk.data = proc.mem

\* While the process serves, a file is only replaced by a newer state: the
\* counters on disk never run backwards under a running server.  (The usage
\* series may: after a crash it can be ahead of the quota file it samples.)
DiskMonotone ==
    [][proc.pc = "serving" => disk'.data.quota >= disk.data.quota]_processVars

\* A shutdown that no worker's stream holds up comes to its end.
ShutdownEnds ==
    (proc.pc \in {"drain", "grpc", "final"} /\ [](proc.links = {})) ~> proc.pc \notin {"drain", "grpc", "final"}

\* A shutdown ends: "shuts down gracefully, checkpointing the quota counters
\* on the way out".
ShutdownAlwaysEnds ==
    proc.pc \in {"drain", "grpc", "final"} ~> proc.pc \notin {"drain", "grpc", "final"}
=============================================================================
