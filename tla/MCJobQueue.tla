----------------------------- MODULE MCJobQueue -----------------------------
(* Model checking of JobQueue: two consumers, two priorities, a bounded    *)
(* queue that fills up, and enough items to leave one of them parked.      *)
EXTENDS JobQueue

CONSTANTS c1, c2

TwoCallers == {c1, c2}
TwoPriorities == {0, 1}
=============================================================================
