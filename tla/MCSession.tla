------------------------------ MODULE MCSession -----------------------------
(* Instances of Session: races on the tally, turns on one session, restarts. *)
EXTENDS Session, TLC

CONSTANTS i1, i2, i3, ann, bob, c1, c2, c3, w1

ThreeIds == {i1, i2, i3}
TwoOwners == {ann, bob}
ThreeCalls == {c1, c2, c3}
TwoOfAnn == (c1 :> ann) @@ (c2 :> ann) @@ (c3 :> bob)
OneWorker == {w1}
UserOneReplyTwo == [user |-> 1, assistant |-> 2]

base == [ops |-> {}, ttl |-> 1, cap |-> 2, turns |-> 0, size |-> 0, policy |-> "trim",
         crashes |-> 0, boot |-> {i1}]

Races == [base EXCEPT !.ops = {"create", "delete", "sweep", "resume"}]
Caps == [base EXCEPT !.ops = {"create", "delete", "setmax"}]
Trims == [base EXCEPT !.ops = {"turn", "bind", "delete", "sweep"}, !.turns = 3, !.size = 4]
Rejects == [base EXCEPT !.ops = {"turn", "delete"}, !.turns = 4, !.size = 5, !.policy = "reject"]
SlotCrashes == [base EXCEPT !.ops = {"create", "delete"}, !.crashes = 1]
TurnCrashes == [base EXCEPT !.ops = {"turn", "delete"}, !.turns = 2, !.crashes = 1]

AllScenarios == {Races, Caps, Trims, Rejects, SlotCrashes, TurnCrashes}
=============================================================================
