----------------------------- MODULE MCDispatch -----------------------------
(* Instances of Dispatch for TLC. *)
EXTENDS Dispatch, TLC

CONSTANTS j1, j2, h1, h2, w1, w2, m1

OneJob == {j1}
TwoJobs == {j1, j2}
OneHandle == {h1}
TwoHandles == {h1, h2}
OneId == {w1}
OneModel == {m1}

SameWorker == [h \in Handles |-> w1]
SameModel == [j \in Jobs |-> m1]
SamePrio == [j \in Jobs |-> 1]
SecondUrgent == [j \in Jobs |-> IF j = j1 THEN 1 ELSE 2]

Churn == {"miss", "drop", "drain", "deregister"}
Shutdown == {"heartbeat", "cancel", "close"}
Drop == {"drop"}

(* A worker that has the model, and one that does not and has no room. *)
FitOrUseless == {[models |-> {m1}, vram |-> TRUE], [models |-> {}, vram |-> FALSE]}
AlwaysFit == {[models |-> {m1}, vram |-> TRUE]}
=============================================================================
