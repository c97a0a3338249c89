------------------------------- MODULE MCQuota -------------------------------
(***************************************************************************)
(* Instances of Quota for TLC: four minutes, of which the second and third *)
(* share a day and the last three a month.                                 *)
(***************************************************************************)
EXTENDS Quota, TLC

CONSTANTS k1, r1, r2, r3

SameRequests == Permutations(Requests)

OneKey == [r \in Requests |-> k1]
NoOwnLimits == [k \in Keys |-> None]
DayStarts == [t \in Times |-> CASE t = 0 -> 0 [] t \in {1, 2} -> 1 [] t > 2 -> 3]
MonthStarts == [t \in Times |-> IF t = 0 THEN 0 ELSE 1]

Lim(rpm, tpm, daily, monthly) ==
    [rpm |-> rpm, tpm |-> tpm, daily |-> daily, monthly |-> monthly]
NoLimit == Lim(0, 0, 0, 0)
Daily == Lim(1, 0, 2, 0)
Monthly == Lim(0, 1, 0, 2)
ServerWide == Lim(1, 1, 0, 0)

KeyLimits == {NoLimit, Daily, Monthly}
GlobalLimits == {NoLimit, ServerWide}

Boot(d, g, n, s, c) ==
    [defaults |-> d, global |-> g, requests |-> n, sets |-> s, crashes |-> c]

(* Late requests against the two kinds of budget; a crash; a server-wide    *)
(* limit that is switched on or off.                                        *)
Mixed == { Boot(Daily, NoLimit, 3, 0, 0), Boot(Monthly, NoLimit, 3, 0, 0),
           Boot(Daily, NoLimit, 2, 0, 1), Boot(Monthly, NoLimit, 2, 0, 1),
           Boot(NoLimit, ServerWide, 2, 1, 0) }
Late == { Boot(Daily, NoLimit, 3, 0, 0) }

=============================================================================
