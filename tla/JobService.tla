----------------------------- MODULE JobService -----------------------------
(***************************************************************************)
(* What the dispatcher promises a caller of SubmitJob, without saying how: *)
(* a submitted job ends exactly once, with an outcome that never changes;  *)
(* a worker runs it at most once; and it ends in "ok" only if a worker did *)
(* run it.  A job may be run although its caller has gone (dispatch is     *)
(* at least once for the worker, never lost: server.go:2058-2060).         *)
(***************************************************************************)
CONSTANTS Jobs, Outcomes

VARIABLES
    status,    \* "new", "open" or "done"
    verdict,   \* the outcome a done job ended with
    executed   \* jobs some worker has run to success

vars == <<status, verdict, executed>>

Init ==
    /\ status = [j \in Jobs |-> "new"]
    /\ verdict = [j \in Jobs |-> "none"]
    /\ executed = {}

Submit(j) ==
    /\ status[j] = "new"
    /\ status' = [status EXCEPT ![j] = "open"]
    /\ UNCHANGED <<verdict, executed>>

Execute(j) ==
    /\ status[j] # "new"
    /\ j \notin executed
    /\ executed' = executed \cup {j}
    /\ UNCHANGED <<status, verdict>>

End(j, o) ==
    /\ status[j] = "open"
    /\ o = "ok" => j \in executed
    /\ status' = [status EXCEPT ![j] = "done"]
    /\ verdict' = [verdict EXCEPT ![j] = o]
    /\ UNCHANGED executed

Next ==
    \E j \in Jobs :
        \/ Submit(j)
        \/ Execute(j)
        \/ \E o \in Outcomes : End(j, o)

Spec == Init /\ [][Next]_vars
=============================================================================
