----------------------------- MODULE QuotaProofs -----------------------------
(***************************************************************************)
(* Proofs about the quota engine for any keys, requests, calendar, limits  *)
(* and bounds.                                                             *)
(*                                                                         *)
(* Every operation of the counter store does the same to one scope: it     *)
(* rolls the scope's three windows to the time the caller has read, adds   *)
(* to them, and may thereby lose sight of a window (Touched).  What a      *)
(* touch does to the order of the windows, to the bound by the real usage  *)
(* and to exactness is proved once; the operations and the checkpoint are  *)
(* then cases of it.  The bound needs the snapshot of a running checkpoint *)
(* beside the file (SnapSound), since either may become the counters.      *)
(***************************************************************************)
EXTENDS Quota, NaturalsInduction, WellFoundedInduction, TLAPS

Row == [Windows -> Counter]

(* A snapshot under way is as good as the counters it was taken from.      *)
SnapSound == snap # None => \A s \in Scopes : Nested(snap[s]) /\ AtMost(snap[s], used[s])

(* A request about to be checked has read its limits.                      *)
LimitsRead == \A r \in Requests : Asking(r) => lim[r] \in Limits

QuotaInv == CountersSound /\ SnapSound /\ LimitsRead

(* What one operation of the store does to a scope, and to the others.     *)
Touched(s, now, dr, dt) ==
    \A w \in Windows :
        /\ counters'[s][w].start = windowStart(w, now)
        /\ counters'[s][w].reqs = roll(counters[s], now)[w].reqs + Share(w, dr)
        /\ counters'[s][w].toks = roll(counters[s], now)[w].toks + dt
        /\ used'[s][w][windowStart(w, now)].reqs = used[s][w][windowStart(w, now)].reqs + Share(w, dr)
        /\ used'[s][w][windowStart(w, now)].toks = used[s][w][windowStart(w, now)].toks + dt
        /\ \A t \in Times \ {windowStart(w, now)} : used'[s][w][t] = used[s][w][t]
        /\ lossy'[s][w] = Forgets(s, now)[w]
Stays(s) == counters'[s] = counters[s] /\ used'[s] = used[s] /\ lossy'[s] = lossy[s]

(* ExactUnlessLossy, one window of one scope.                              *)
ExactFor(s, w) ==
    /\ counters[s][w].start # Zero /\ counters[s][w].start \notin lossy[s][w] =>
          /\ used[s][w][counters[s][w].start].reqs = counters[s][w].reqs
          /\ used[s][w][counters[s][w].start].toks = counters[s][w].toks
    /\ \A t \in Times \ lossy[s][w] :
          t > counters[s][w].start => used[s][w][t].reqs = 0 /\ used[s][w][t].toks = 0
Exact == \A s \in Scopes, w \in Windows : ExactFor(s, w)

-----------------------------------------------------------------------------

(* The window of a minute starts in time, and minutes are their own.       *)
LEMMA StartType ==
    ASSUME NEW w \in Windows, NEW t \in Times
    PROVE  windowStart(w, t) \in Times /\ windowStart(w, t) # Zero /\ windowStart("minute", t) = t
<1>1. windowStart(w, t) \in Times /\ windowStart("minute", t) = t
  BY Calendar, Zenon DEF windowStart, Windows
<1> QED BY <1>1 DEF Times, Zero

(* A row of three windows, opened.                                         *)
LEMMA RowParts ==
    ASSUME NEW c \in Row, NEW w \in Windows
    PROVE  /\ c[w].start \in Times \cup {Zero} /\ c[w].reqs \in Nat /\ c[w].toks \in Nat
           /\ c[w] = [start |-> c[w].start, reqs |-> c[w].reqs, toks |-> c[w].toks]
  BY Zenon DEF Row, Counter

(* roll moves every window to now, and keeps its counts or drops them.     *)
LEMMA RollParts ==
    ASSUME NEW c \in Row, NEW now \in Times
    PROVE  /\ roll(c, now) \in Row
           /\ \A w \in Windows :
                 /\ roll(c, now)[w].start = windowStart(w, now)
                 /\ c[w].start = windowStart(w, now) => roll(c, now)[w] = c[w]
                 /\ c[w].start # windowStart(w, now) => roll(c, now)[w].reqs = 0 /\ roll(c, now)[w].toks = 0
<1>1. \A w \in Windows : windowStart(w, now) \in Times
  BY StartType, Zenon
<1>2. \A w \in Windows : [start |-> windowStart(w, now), reqs |-> 0, toks |-> 0] \in Counter
  BY <1>1, Zenon DEF Counter
<1>3. roll(c, now) \in Row
  BY <1>2, Zenon DEF roll, Row
<1> QED BY <1>3, Zenon DEF roll

(* The windows of a rolled counter belong to one instant, the longer ones  *)
(* with the higher count.                                                  *)
LEMMA RollNested ==
    ASSUME NEW c \in Row, NEW now \in Times, Nested(c) PROVE Nested(roll(c, now))
<1>1. /\ \A w \in Windows : roll(c, now)[w].start = windowStart(w, now)
      /\ roll(c, now)["minute"].start = now
  BY RollParts, StartType DEF Windows
<1>2. \A w \in Windows : c[w].toks \in Nat /\ roll(c, now)[w].toks \in Nat
  BY RowParts, RollParts, Zenon
<1>3. c["minute"].start = now => c["day"].start = windowStart("day", now)
  BY DEF Nested, Windows, Times, Zero
<1>4. c["day"].start = windowStart("day", now) => c["month"].start = windowStart("month", now)
  <2> SUFFICES ASSUME c["day"].start = windowStart("day", now)
               PROVE  c["month"].start = windowStart("month", now)
    BY Zenon
  <2>1. c["day"].start # Zero
    BY StartType, Zenon DEF Windows, Times, Zero
  <2>2. /\ c["minute"].start \in Times /\ c["day"].start = DayOf[c["minute"].start]
        /\ c["month"].start = MonthOf[c["minute"].start]
    BY <2>1, Zenon DEF Nested, Windows, windowStart
  <2> QED BY <2>2, Calendar, Zenon DEF windowStart
<1>5. /\ c["minute"].toks <= c["day"].toks
      /\ c["day"].toks <= c["month"].toks
  BY Zenon DEF Nested
<1>6. /\ "minute" \in Windows /\ "day" \in Windows /\ "month" \in Windows
      /\ windowStart("minute", now) = now
  BY StartType, Zenon DEF Windows
<1>7. \A m, n \in Nat : m = 0 => m <= n
  OBVIOUS
<1>8. roll(c, now)["minute"].toks <= roll(c, now)["day"].toks
  <2>1. CASE c["minute"].start = now
    <3>1. roll(c, now)["minute"] = c["minute"] /\ roll(c, now)["day"] = c["day"]
      BY <2>1, <1>3, <1>6, RollParts, Zenon
    <3> QED BY <3>1, <1>5, Zenon
  <2>2. CASE c["minute"].start # now
    <3>1. roll(c, now)["minute"].toks = 0
      BY <2>2, <1>6, RollParts, Zenon
    <3> QED BY <3>1, <1>2, <1>6, <1>7, Zenon
  <2> QED BY <2>1, <2>2, Zenon
<1>9. roll(c, now)["day"].toks <= roll(c, now)["month"].toks
  <2>1. CASE c["day"].start = windowStart("day", now)
    <3>1. roll(c, now)["day"] = c["day"] /\ roll(c, now)["month"] = c["month"]
      BY <2>1, <1>4, <1>6, RollParts, Zenon
    <3> QED BY <3>1, <1>5, Zenon
  <2>2. CASE c["day"].start # windowStart("day", now)
    <3>1. roll(c, now)["day"].toks = 0
      BY <2>2, <1>6, RollParts, Zenon
    <3> QED BY <3>1, <1>2, <1>6, <1>7, Zenon
  <2> QED BY <2>1, <2>2, Zenon
<1> QED BY <1>1, <1>8, <1>9, Zenon DEF Nested

(* A touch keeps the windows of a counter nested,                          *)
LEMMA TouchNested ==
    ASSUME TypeOK, NEW s \in Scopes, NEW now \in Times, NEW dr \in Nat, NEW dt \in Nat,
           Touched(s, now, dr, dt), Nested(counters[s])
    PROVE  Nested(counters'[s])
<1> DEFINE c == roll(counters[s], now)
<1>1. counters[s] \in Row
  BY Zenon DEF TypeOK, CounterMap, Row
<1>2. Nested(c) /\ c \in Row
  BY <1>1, RollNested, RollParts, Zenon
<1>3. \A w \in Windows : c[w].toks \in Nat
  BY <1>2, RowParts, Zenon
<1>4. \A w \in Windows : /\ counters'[s][w].start = windowStart(w, now)
                         /\ counters'[s][w].toks = c[w].toks + dt
  BY Zenon DEF Touched
<1>5. counters'[s]["minute"].start = now
  BY <1>4, StartType, Zenon DEF Windows
<1> HIDE DEF c
<1>6. /\ counters'[s]["minute"].toks <= counters'[s]["day"].toks
      /\ counters'[s]["day"].toks <= counters'[s]["month"].toks
  BY <1>2, <1>3, <1>4 DEF Nested, Windows
<1> QED BY <1>4, <1>5, <1>6, Zenon DEF Nested

(* only ever adds to the real usage,                                       *)
LEMMA TouchGrows ==
    ASSUME TypeOK, NEW s \in Scopes, NEW now \in Times, NEW dr \in Nat, NEW dt \in Nat,
           Touched(s, now, dr, dt)
    PROVE  \A w \in Windows, t \in Times :
              /\ used[s][w][t].reqs \in Nat /\ used[s][w][t].toks \in Nat
              /\ used'[s][w][t].reqs \in Nat /\ used'[s][w][t].toks \in Nat
              /\ used[s][w][t].reqs <= used'[s][w][t].reqs /\ used[s][w][t].toks <= used'[s][w][t].toks
<1> SUFFICES ASSUME NEW w \in Windows, NEW t \in Times
             PROVE  /\ used[s][w][t].reqs \in Nat /\ used[s][w][t].toks \in Nat
                    /\ used'[s][w][t].reqs \in Nat /\ used'[s][w][t].toks \in Nat
                    /\ used[s][w][t].reqs <= used'[s][w][t].reqs
                    /\ used[s][w][t].toks <= used'[s][w][t].toks
  BY Zenon
<1>1. used[s][w][t].reqs \in Nat /\ used[s][w][t].toks \in Nat
  BY DEF TypeOK, Amount
<1>2. CASE t = windowStart(w, now)
  <2>1. /\ used'[s][w][t].reqs = used[s][w][t].reqs + Share(w, dr)
        /\ used'[s][w][t].toks = used[s][w][t].toks + dt
    BY <1>2, Zenon DEF Touched
  <2>2. Share(w, dr) \in Nat
    BY Zenon DEF Share
  <2> QED BY <1>1, <2>1, <2>2
<1>3. CASE t # windowStart(w, now)
  <2>1. used'[s][w][t] = used[s][w][t]
    BY <1>3, ZenonT(40) DEF Touched
  <2> QED BY <1>1, <2>1
<1> QED BY <1>2, <1>3, Zenon

(* keeps every copy of the counters below it,                              *)
LEMMA TouchBounds ==
    ASSUME TypeOK, NEW s \in Scopes, NEW now \in Times, NEW dr \in Nat, NEW dt \in Nat,
           Touched(s, now, dr, dt)
    PROVE  /\ AtMost(counters[s], used[s]) => AtMost(counters'[s], used'[s])
           /\ \A c \in Row : AtMost(c, used[s]) => AtMost(c, used'[s])
<1>1. counters[s] \in Row
  BY Zenon DEF TypeOK, CounterMap, Row
<1>2. ASSUME NEW c \in Row, AtMost(c, used[s]) PROVE AtMost(c, used'[s])
  <2> SUFFICES ASSUME NEW w \in Windows, c[w].start # Zero
               PROVE  /\ c[w].reqs <= used'[s][w][c[w].start].reqs
                      /\ c[w].toks <= used'[s][w][c[w].start].toks
    BY Zenon DEF AtMost
  <2>1. c[w].start \in Times /\ c[w].reqs \in Nat /\ c[w].toks \in Nat
    BY RowParts, Zenon
  <2>2. c[w].reqs <= used[s][w][c[w].start].reqs /\ c[w].toks <= used[s][w][c[w].start].toks
    BY <1>2, Zenon DEF AtMost
  <2> QED BY <2>1, <2>2, TouchGrows, SMTT(30)
<1>3. ASSUME AtMost(counters[s], used[s]) PROVE AtMost(counters'[s], used'[s])
  <2> DEFINE c == roll(counters[s], now)
  <2> SUFFICES ASSUME NEW w \in Windows
               PROVE  /\ counters'[s][w].reqs <= used'[s][w][counters'[s][w].start].reqs
                      /\ counters'[s][w].toks <= used'[s][w][counters'[s][w].start].toks
    BY Zenon DEF AtMost
  <2> DEFINE start == windowStart(w, now)
             more == Share(w, dr)
  <2>1. /\ counters'[s][w].start = start /\ counters'[s][w].reqs = c[w].reqs + more
        /\ counters'[s][w].toks = c[w].toks + dt
        /\ used'[s][w][start].reqs = used[s][w][start].reqs + more
        /\ used'[s][w][start].toks = used[s][w][start].toks + dt
    BY Zenon DEF Touched
  <2>2. start \in Times /\ more \in Nat
    BY StartType, Zenon DEF Share
  <2>3. /\ used[s][w][start].reqs \in Nat /\ used[s][w][start].toks \in Nat
        /\ c[w].reqs \in Nat /\ c[w].toks \in Nat
    BY <1>1, <2>2, TouchGrows, RollParts, RowParts, Zenon
  <2>4. c[w].reqs <= used[s][w][start].reqs /\ c[w].toks <= used[s][w][start].toks
    <3>1. CASE counters[s][w].start = start
      <4>1. start # Zero
        BY <2>2 DEF Times, Zero
      <4> QED BY <1>1, <1>3, <3>1, <4>1, RollParts, Zenon DEF AtMost
    <3>2. CASE counters[s][w].start # start
      <4>1. c[w].reqs = 0 /\ c[w].toks = 0
        BY <1>1, <3>2, RollParts, Zenon
      <4> QED BY <2>3, <4>1
    <3> QED BY <3>1, <3>2, Zenon
  <2> HIDE DEF c, start, more
  <2> QED BY <2>1, <2>2, <2>3, <2>4
<1> QED BY <1>2, <1>3, Zenon

(* and keeps what is exact exact, save in the windows it forgets.          *)
LEMMA RollExact ==
    ASSUME TypeOK, NEW s \in Scopes, NEW w \in Windows, NEW now \in Times, ExactFor(s, w),
           windowStart(w, now) \notin Forgets(s, now)[w]
    PROVE  /\ used[s][w][windowStart(w, now)].reqs = roll(counters[s], now)[w].reqs
           /\ used[s][w][windowStart(w, now)].toks = roll(counters[s], now)[w].toks
<1> DEFINE start == windowStart(w, now)
           c == counters[s][w]
<1>1. counters[s] \in Row
  BY Zenon DEF TypeOK, CounterMap, Row
<1>2. start \in Times /\ start # Zero /\ c.start \in Times \cup {Zero} /\ Times \cup {Zero} \subseteq Int
  <2>1. start \in Times /\ start # Zero
    BY StartType, Zenon
  <2>2. c.start \in Times \cup {Zero}
    BY <1>1, RowParts, Zenon
  <2>3. Times \cup {Zero} \subseteq Int
    BY DEF Times, Zero
  <2> QED BY <2>1, <2>2, <2>3, Zenon
<1>3. start \notin lossy[s][w]
  BY Zenon DEF Forgets
<1>4. CASE c.start = start
  BY <1>1, <1>2, <1>3, <1>4, RollParts, Zenon DEF ExactFor
<1>5. CASE c.start # start
  <2>1. start > c.start
    <3>1. SUFFICES ASSUME start < c.start PROVE FALSE
      BY <1>2, <1>5
    <3>2. start \in start .. c.start
      BY <1>2, <3>1
    <3> QED BY <1>2, <3>1, <3>2, Zenon DEF Forgets
  <2>2. used[s][w][start].reqs = 0 /\ used[s][w][start].toks = 0
    BY <1>2, <1>3, <2>1, Zenon DEF ExactFor
  <2> QED BY <1>1, <1>5, <2>2, RollParts, Zenon
<1> QED BY <1>4, <1>5, Zenon

LEMMA TouchExact ==
    ASSUME TypeOK, NEW s \in Scopes, NEW w \in Windows, NEW now \in Times, NEW dr \in Nat, NEW dt \in Nat,
           Touched(s, now, dr, dt), ExactFor(s, w)
    PROVE  ExactFor(s, w)'
<1> DEFINE start == windowStart(w, now)
           c == counters[s][w]
           more == Share(w, dr)
<1>1. counters[s] \in Row
  BY Zenon DEF TypeOK, CounterMap, Row
<1>2. start \in Times /\ start # Zero /\ c.start \in Times \cup {Zero} /\ Times \cup {Zero} \subseteq Int
  <2>1. start \in Times /\ start # Zero
    BY StartType, Zenon
  <2>2. c.start \in Times \cup {Zero}
    BY <1>1, RowParts, Zenon
  <2>3. Times \cup {Zero} \subseteq Int
    BY DEF Times, Zero
  <2> QED BY <2>1, <2>2, <2>3, Zenon
<1>3. /\ counters'[s][w].start = start
      /\ counters'[s][w].reqs = roll(counters[s], now)[w].reqs + more
      /\ counters'[s][w].toks = roll(counters[s], now)[w].toks + dt
      /\ used'[s][w][start].reqs = used[s][w][start].reqs + more
      /\ used'[s][w][start].toks = used[s][w][start].toks + dt
      /\ \A t \in Times \ {start} : used'[s][w][t] = used[s][w][t]
      /\ lossy'[s][w] = Forgets(s, now)[w]
  BY Zenon DEF Touched
<1>4. lossy'[s][w] = lossy[s][w] \cup {t \in Times : start < c.start /\ t \in start .. c.start}
  BY <1>3, Zenon DEF Forgets
<1>5. start \notin lossy'[s][w] =>
         used'[s][w][start].reqs = counters'[s][w].reqs /\ used'[s][w][start].toks = counters'[s][w].toks
  BY <1>3, RollExact, Zenon
<1>6. ASSUME NEW t \in Times \ lossy'[s][w], t > start
      PROVE  used'[s][w][t].reqs = 0 /\ used'[s][w][t].toks = 0
  <2>1. t \in Times \ lossy[s][w] /\ t # start
    BY <1>2, <1>4, <1>6
  <2>2. t > c.start
    BY <1>2, <1>4, <1>6
  <2> QED BY <1>3, <2>1, <2>2, Zenon DEF ExactFor
<1> HIDE DEF start, c, more
<1> QED BY <1>3, <1>5, <1>6, Zenon DEF ExactFor

-----------------------------------------------------------------------------

(* What Charge writes.                                                     *)
LEMMA ChargeParts ==
    ASSUME TypeOK, NEW s \in Scopes, NEW now \in Times, NEW dr \in Nat, NEW dt \in Nat
    PROVE  /\ Charge(s, now, dr, dt) \in [Scopes -> [Windows -> [Times -> Amount]]]
           /\ \A k \in Scopes \ {s} : Charge(s, now, dr, dt)[k] = used[k]
           /\ \A w \in Windows :
                 /\ Charge(s, now, dr, dt)[s][w][windowStart(w, now)].reqs =
                       used[s][w][windowStart(w, now)].reqs + Share(w, dr)
                 /\ Charge(s, now, dr, dt)[s][w][windowStart(w, now)].toks =
                       used[s][w][windowStart(w, now)].toks + dt
                 /\ \A t \in Times \ {windowStart(w, now)} : Charge(s, now, dr, dt)[s][w][t] = used[s][w][t]
<1> DEFINE new(w) == [t \in Times |->
               IF t = windowStart(w, now)
               THEN [reqs |-> used[s][w][t].reqs + Share(w, dr), toks |-> used[s][w][t].toks + dt]
               ELSE used[s][w][t]]
<1>1. used \in [Scopes -> [Windows -> [Times -> Amount]]]
  BY Zenon DEF TypeOK
<1>2. ASSUME NEW w \in Windows
      PROVE  /\ new(w) \in [Times -> Amount]
             /\ new(w)[windowStart(w, now)].reqs = used[s][w][windowStart(w, now)].reqs + Share(w, dr)
             /\ new(w)[windowStart(w, now)].toks = used[s][w][windowStart(w, now)].toks + dt
             /\ \A t \in Times \ {windowStart(w, now)} : new(w)[t] = used[s][w][t]
  <2>1. windowStart(w, now) \in Times /\ Share(w, dr) \in Nat
    BY StartType, Zenon DEF Share
  <2>2. \A t \in Times : used[s][w][t] \in Amount
    BY <1>1
  <2>3. \A t \in Times :
           [reqs |-> used[s][w][t].reqs + Share(w, dr), toks |-> used[s][w][t].toks + dt] \in Amount
    BY <2>1, <2>2 DEF Amount
  <2> QED BY <2>1, <2>2, <2>3, Zenon
<1>3. Charge(s, now, dr, dt) = [used EXCEPT ![s] = [w \in Windows |-> new(w)]]
  BY Zenon DEF Charge
<1> HIDE DEF new
<1>4. [w \in Windows |-> new(w)] \in [Windows -> [Times -> Amount]]
  BY <1>2, Zenon
<1>5. /\ Charge(s, now, dr, dt) \in [Scopes -> [Windows -> [Times -> Amount]]]
      /\ \A k \in Scopes \ {s} : Charge(s, now, dr, dt)[k] = used[k]
      /\ \A w \in Windows : Charge(s, now, dr, dt)[s][w] = new(w)
  BY <1>1, <1>3, <1>4, Zenon
<1> QED BY <1>2, <1>5, Zenon

(* What the history forgets is a set of times for each window.             *)
LEMMA ForgetsType ==
    ASSUME TypeOK, NEW s \in Scopes, NEW now PROVE Forgets(s, now) \in [Windows -> SUBSET Times]
  BY DEF TypeOK, Forgets

(* The state of the store after an operation on one scope.                 *)
StoreTypes ==
    /\ counters \in CounterMap
    /\ used \in [Scopes -> [Windows -> [Times -> Amount]]]
    /\ lossy \in [Scopes -> [Windows -> SUBSET Times]]

(* Reserve touches its scope, whatever the verdict,                        *)
LEMMA ReserveTouches ==
    ASSUME TypeOK, NEW s \in Scopes, NEW now \in Times, NEW ok \in BOOLEAN, Reserve(s, now, ok)
    PROVE  StoreTypes' /\ Touched(s, now, IF ok THEN 1 ELSE 0, 0) /\ \A k \in Scopes \ {s} : Stays(k)
<1> DEFINE c == roll(counters[s], now)
           c1 == IF ok THEN [c EXCEPT !["minute"].reqs = @ + 1] ELSE c
           dr == IF ok THEN 1 ELSE 0
<1>0. /\ counters \in [Scopes -> Row] /\ CounterMap = [Scopes -> Row]
      /\ used \in [Scopes -> [Windows -> [Times -> Amount]]]
      /\ lossy \in [Scopes -> [Windows -> SUBSET Times]] /\ dr \in Nat
  BY Zenon DEF TypeOK, CounterMap, Row
<1>1. c \in Row /\ \A w \in Windows : c[w].start = windowStart(w, now)
  BY <1>0, RollParts, Zenon
<1>2. /\ counters' = [counters EXCEPT ![s] = c1]
      /\ used' = IF ok THEN Charge(s, now, 1, 0) ELSE used
      /\ lossy' = [lossy EXCEPT ![s] = Forgets(s, now)]
  BY Zenon DEF Reserve
<1> HIDE DEF c
<1>3. /\ c1 \in Row
      /\ \A w \in Windows : /\ c1[w].start = c[w].start /\ c1[w].toks = c[w].toks + 0
                            /\ c1[w].reqs = c[w].reqs + Share(w, dr)
  <2>1. \A w \in Windows : c[w] \in Counter /\ c[w].reqs \in Nat /\ c[w].toks \in Nat
    BY <1>1, Zenon DEF Row, Counter
  <2>2. CASE ok
    <3>1. c1 = [c EXCEPT !["minute"].reqs = @ + 1]
      BY <2>2, Zenon
    <3>2. "minute" \in Windows /\ DOMAIN c = Windows
      BY <1>1, Zenon DEF Windows, Row
    <3>3. c1 = [c EXCEPT !["minute"] = [c["minute"] EXCEPT !.reqs = @ + 1]]
      BY <3>1, Zenon
    <3>4. /\ [c["minute"] EXCEPT !.reqs = @ + 1] \in Counter
          /\ [c["minute"] EXCEPT !.reqs = @ + 1].start = c["minute"].start
          /\ [c["minute"] EXCEPT !.reqs = @ + 1].toks = c["minute"].toks
          /\ [c["minute"] EXCEPT !.reqs = @ + 1].reqs = c["minute"].reqs + 1
      BY <2>1, <3>2 DEF Counter
    <3> HIDE DEF c1
    <3>5. /\ c1["minute"] = [c["minute"] EXCEPT !.reqs = @ + 1]
          /\ \A w \in Windows \ {"minute"} : c1[w] = c[w]
          /\ c1 \in Row
      BY <1>1, <3>2, <3>3, <3>4, Zenon DEF Row
    <3>6. /\ Share("minute", dr) = 1 /\ \A w \in Windows \ {"minute"} : Share(w, dr) = 0
      BY <2>2, Zenon DEF Share
    <3>7. ASSUME NEW w \in Windows
          PROVE  /\ c1[w].start = c[w].start /\ c1[w].toks = c[w].toks + 0
                 /\ c1[w].reqs = c[w].reqs + Share(w, dr)
      <4> HIDE DEF dr
      <4>1. CASE w = "minute"
        <5>1. c["minute"].toks \in Nat /\ c["minute"].toks + 0 = c["minute"].toks
          BY <2>1, <3>2
        <5> QED BY <3>4, <3>5, <3>6, <4>1, <5>1, Zenon
      <4>2. CASE w # "minute"
        BY <2>1, <3>5, <3>6, <4>2
      <4> QED BY <4>1, <4>2, Zenon
    <3> QED BY <3>5, <3>7, Zenon
  <2>3. CASE ~ok
    BY <1>1, <2>1, <2>3 DEF Share
  <2> QED BY <2>2, <2>3, Zenon
<1> HIDE DEF c1
<1>4. counters' \in [Scopes -> Row] /\ counters'[s] = c1 /\ \A k \in Scopes \ {s} : counters'[k] = counters[k]
  BY <1>0, <1>2, <1>3, Zenon
<1>5. /\ lossy' \in [Scopes -> [Windows -> SUBSET Times]] /\ lossy'[s] = Forgets(s, now)
      /\ \A k \in Scopes \ {s} : lossy'[k] = lossy[k]
  BY <1>0, <1>2, ForgetsType, Zenon
<1>6. /\ used' \in [Scopes -> [Windows -> [Times -> Amount]]]
      /\ \A k \in Scopes \ {s} : used'[k] = used[k]
      /\ \A w \in Windows :
            /\ used'[s][w][windowStart(w, now)].reqs = used[s][w][windowStart(w, now)].reqs + Share(w, dr)
            /\ used'[s][w][windowStart(w, now)].toks = used[s][w][windowStart(w, now)].toks + 0
            /\ \A t \in Times \ {windowStart(w, now)} : used'[s][w][t] = used[s][w][t]
  <2>1. CASE ok
    <3>1. used' = Charge(s, now, 1, 0) /\ dr = 1 /\ 0 \in Nat /\ 1 \in Nat
      BY <1>2, <2>1, Zenon
    <3> HIDE DEF dr
    <3>2. /\ Charge(s, now, dr, 0) \in [Scopes -> [Windows -> [Times -> Amount]]]
          /\ \A k \in Scopes \ {s} : Charge(s, now, dr, 0)[k] = used[k]
          /\ \A w \in Windows :
                 /\ Charge(s, now, dr, 0)[s][w][windowStart(w, now)].reqs =
                       used[s][w][windowStart(w, now)].reqs + Share(w, dr)
                 /\ Charge(s, now, dr, 0)[s][w][windowStart(w, now)].toks =
                       used[s][w][windowStart(w, now)].toks + 0
                 /\ \A t \in Times \ {windowStart(w, now)} : Charge(s, now, dr, 0)[s][w][t] = used[s][w][t]
      BY <1>0, ChargeParts
    <3>3. used' = Charge(s, now, dr, 0)
      BY <3>1, Zenon
    <3> QED BY <3>2, <3>3, Zenon
  <2>2. CASE ~ok
    <3>1. used' = used /\ dr = 0
      BY <1>2, <2>2, Zenon
    <3>2. \A w \in Windows : windowStart(w, now) \in Times
      BY StartType, Zenon
    <3>3. \A w \in Windows, t \in Times : used[s][w][t].reqs \in Nat /\ used[s][w][t].toks \in Nat
      BY <1>0 DEF Amount
    <3> QED BY <1>0, <3>1, <3>2, <3>3 DEF Share
  <2> QED BY <2>1, <2>2, Zenon
<1> HIDE DEF dr
<1>7. Touched(s, now, dr, 0)
  BY <1>1, <1>3, <1>4, <1>5, <1>6, Zenon DEF Touched, c
<1>8. \A k \in Scopes \ {s} : Stays(k)
  BY <1>4, <1>5, <1>6, Zenon DEF Stays
<1> QED BY <1>0, <1>4, <1>5, <1>6, <1>7, <1>8, Zenon DEF StoreTypes, dr

(* so does AddTokens,                                                      *)
LEMMA AddTouches ==
    ASSUME TypeOK, NEW s \in Scopes, NEW now \in Times, NEW n \in Nat, AddTokens(s, now, n)
    PROVE  StoreTypes' /\ Touched(s, now, 0, n) /\ \A k \in Scopes \ {s} : Stays(k)
<1> DEFINE c == roll(counters[s], now)
           c1 == [w \in Windows |-> [c[w] EXCEPT !.toks = @ + n]]
<1>0. /\ counters \in [Scopes -> Row] /\ CounterMap = [Scopes -> Row]
      /\ used \in [Scopes -> [Windows -> [Times -> Amount]]]
      /\ lossy \in [Scopes -> [Windows -> SUBSET Times]] /\ 0 \in Nat
  BY Zenon DEF TypeOK, CounterMap, Row
<1>1. c \in Row /\ \A w \in Windows : c[w].start = windowStart(w, now)
  BY <1>0, RollParts, Zenon
<1>2. /\ counters' = [counters EXCEPT ![s] = c1]
      /\ used' = Charge(s, now, 0, n)
      /\ lossy' = [lossy EXCEPT ![s] = Forgets(s, now)]
  BY Zenon DEF AddTokens
<1> HIDE DEF c
<1>3. /\ c1 \in Row
      /\ \A w \in Windows : /\ c1[w].start = c[w].start /\ c1[w].toks = c[w].toks + n
                            /\ c1[w].reqs = c[w].reqs + Share(w, 0)
  <2>1. ASSUME NEW w \in Windows
        PROVE  /\ [c[w] EXCEPT !.toks = @ + n] \in Counter
               /\ [c[w] EXCEPT !.toks = @ + n].start = c[w].start
               /\ [c[w] EXCEPT !.toks = @ + n].toks = c[w].toks + n
               /\ [c[w] EXCEPT !.toks = @ + n].reqs = c[w].reqs + Share(w, 0)
    <3>1. c[w] \in Counter
      BY <1>1, Zenon DEF Row
    <3> QED BY <3>1 DEF Counter, Share
  <2>2. c1 \in Row
    BY <2>1, Zenon DEF Row
  <2>3. \A w \in Windows : c1[w] = [c[w] EXCEPT !.toks = @ + n]
    BY Zenon
  <2> HIDE DEF c1
  <2> QED BY <2>1, <2>2, <2>3, Zenon
<1> HIDE DEF c1
<1>4. counters' \in [Scopes -> Row] /\ counters'[s] = c1 /\ \A k \in Scopes \ {s} : counters'[k] = counters[k]
  BY <1>0, <1>2, <1>3, Zenon
<1>5. /\ lossy' \in [Scopes -> [Windows -> SUBSET Times]] /\ lossy'[s] = Forgets(s, now)
      /\ \A k \in Scopes \ {s} : lossy'[k] = lossy[k]
  BY <1>0, <1>2, ForgetsType, Zenon
<1>6. /\ Charge(s, now, 0, n) \in [Scopes -> [Windows -> [Times -> Amount]]]
      /\ \A k \in Scopes \ {s} : Charge(s, now, 0, n)[k] = used[k]
      /\ \A w \in Windows :
            /\ Charge(s, now, 0, n)[s][w][windowStart(w, now)].reqs =
                  used[s][w][windowStart(w, now)].reqs + Share(w, 0)
            /\ Charge(s, now, 0, n)[s][w][windowStart(w, now)].toks =
                  used[s][w][windowStart(w, now)].toks + n
            /\ \A t \in Times \ {windowStart(w, now)} : Charge(s, now, 0, n)[s][w][t] = used[s][w][t]
  BY <1>0, ChargeParts
<1>7. Touched(s, now, 0, n)
  BY <1>1, <1>2, <1>3, <1>4, <1>5, <1>6, ZenonT(40) DEF Touched, c
<1>8. \A k \in Scopes \ {s} : Stays(k)
  BY <1>2, <1>4, <1>5, <1>6, Zenon DEF Stays
<1> QED BY <1>0, <1>2, <1>4, <1>5, <1>6, <1>7, <1>8, Zenon DEF StoreTypes

(* and so does a roll on its own,                                          *)
LEMMA RollTouches ==
    ASSUME TypeOK, NEW s \in Scopes, NEW now \in Times, counters'[s] = roll(counters[s], now),
           used' = used, lossy'[s] = Forgets(s, now)
    PROVE  Touched(s, now, 0, 0)
<1> DEFINE c == roll(counters[s], now)
<1>1. counters[s] \in Row /\ used \in [Scopes -> [Windows -> [Times -> Amount]]]
  BY Zenon DEF TypeOK, CounterMap, Row
<1>2. c \in Row /\ \A w \in Windows : c[w].start = windowStart(w, now)
  BY <1>1, RollParts, Zenon
<1>3. \A w \in Windows : c[w].reqs \in Nat /\ c[w].toks \in Nat
  BY <1>2, RowParts, Zenon
<1>4. \A w \in Windows, t \in Times : used[s][w][t].reqs \in Nat /\ used[s][w][t].toks \in Nat
  BY <1>1 DEF Amount
<1>5. \A w \in Windows : windowStart(w, now) \in Times /\ Share(w, 0) = 0
  BY StartType, Zenon DEF Share
<1> HIDE DEF c
<1>6. \A w \in Windows : c[w].reqs = c[w].reqs + Share(w, 0) /\ c[w].toks = c[w].toks + 0
  BY <1>3, <1>5
<1>7. \A w \in Windows :
         /\ used[s][w][windowStart(w, now)].reqs = used[s][w][windowStart(w, now)].reqs + Share(w, 0)
         /\ used[s][w][windowStart(w, now)].toks = used[s][w][windowStart(w, now)].toks + 0
  BY <1>4, <1>5
<1>8. counters'[s] = c
  BY Zenon DEF c
<1> QED BY <1>2, <1>6, <1>7, <1>8, Zenon DEF Touched, c

(* as Get does it to one scope                                             *)
LEMMA GetTouches ==
    ASSUME TypeOK, NEW s \in Scopes, Get(s)
    PROVE  StoreTypes' /\ Touched(s, clock, 0, 0) /\ \A k \in Scopes \ {s} : Stays(k)
<1>0. /\ counters \in [Scopes -> Row] /\ CounterMap = [Scopes -> Row] /\ clock \in Times
      /\ used \in [Scopes -> [Windows -> [Times -> Amount]]]
      /\ lossy \in [Scopes -> [Windows -> SUBSET Times]]
  BY Zenon DEF TypeOK, CounterMap, Row
<1>1. /\ counters' = [counters EXCEPT ![s] = roll(counters[s], clock)] /\ used' = used
      /\ lossy' = [lossy EXCEPT ![s] = Forgets(s, clock)]
  BY Zenon DEF Get
<1>2. roll(counters[s], clock) \in Row /\ Forgets(s, clock) \in [Windows -> SUBSET Times]
  BY <1>0, RollParts, ForgetsType, Zenon
<1>3. StoreTypes' /\ counters'[s] = roll(counters[s], clock) /\ lossy'[s] = Forgets(s, clock)
  BY <1>0, <1>1, <1>2, Zenon DEF StoreTypes
<1>4. \A k \in Scopes \ {s} : Stays(k)
  BY <1>0, <1>1, Zenon DEF Stays
<1> QED BY <1>0, <1>1, <1>3, <1>4, RollTouches, Zenon

(* and Checkpoint to all that were ever used.                              *)
LEMMA CheckpointTouches ==
    ASSUME TypeOK, Checkpoint
    PROVE  StoreTypes' /\ snap' = counters' /\ \A s \in Scopes : Touched(s, clock, 0, 0) \/ Stays(s)
<1>0. /\ counters \in [Scopes -> Row] /\ CounterMap = [Scopes -> Row] /\ clock \in Times
      /\ used \in [Scopes -> [Windows -> [Times -> Amount]]]
      /\ lossy \in [Scopes -> [Windows -> SUBSET Times]]
  BY Zenon DEF TypeOK, CounterMap, Row
<1>1. /\ counters' = [s \in Scopes |-> IF counters[s] = ZeroCounters
                                    THEN ZeroCounters ELSE roll(counters[s], clock)]
      /\ snap' = counters' /\ used' = used
      /\ lossy' = [s \in Scopes |-> Forgets(s, clock)]
  BY Zenon DEF Checkpoint
<1>2. \A s \in Scopes : roll(counters[s], clock) \in Row /\ Forgets(s, clock) \in [Windows -> SUBSET Times]
  BY <1>0, RollParts, ForgetsType, Zenon
<1>3. StoreTypes'
  BY <1>0, <1>1, <1>2, Zenon DEF StoreTypes
<1>4. ASSUME NEW s \in Scopes PROVE Touched(s, clock, 0, 0) \/ Stays(s)
  <2>1. CASE counters[s] = ZeroCounters
    <3>1. \A w \in Windows : ~(windowStart(w, clock) < counters[s][w].start)
      <4>1. \A w \in Windows : counters[s][w].start = Zero /\ windowStart(w, clock) \in Times
        BY <1>0, <2>1, StartType DEF ZeroCounters
      <4> QED BY <4>1 DEF Times, Zero
    <3>2. Forgets(s, clock) = lossy[s]
      <4>1. \A w \in Windows : Forgets(s, clock)[w] = lossy[s][w]
        BY <3>1, Zenon DEF Forgets
      <4> QED BY <1>0, <1>2, <4>1
    <3>3. counters'[s] = counters[s] /\ used'[s] = used[s] /\ lossy'[s] = lossy[s]
      BY <1>1, <2>1, <3>2, Zenon
    <3> QED BY <3>3, Zenon DEF Stays
  <2>2. CASE counters[s] # ZeroCounters
    BY <1>0, <1>1, <2>2, RollTouches, Zenon
  <2> QED BY <2>1, <2>2, Zenon
<1> QED BY <1>1, <1>3, <1>4, Zenon

-----------------------------------------------------------------------------

(* Every step touches scopes or leaves them alone, or is a restart.        *)
LEMMA StoreStep ==
    ASSUME TypeOK, Next
    PROVE  /\ StoreTypes'
           /\ Restart \/ \A s \in Scopes :
                            \/ Stays(s)
                            \/ \E now \in Times, dr \in Nat, dt \in Nat : Touched(s, now, dr, dt)
<1> USE DEF limitVars, reqVars, fileVars, history
<1>0. /\ StoreTypes /\ at \in [Requests -> Times] /\ toks \in [Requests -> 0 .. MaxTokens]
      /\ clock \in Times /\ Keys \subseteq Scopes /\ Global \in Scopes /\ disk \in CounterMap
      /\ KeyOf \in [Requests -> Keys] /\ 0 \in Nat /\ 1 \in Nat
  BY KeyTypes, Zenon DEF TypeOK, StoreTypes, Scopes
<1> DEFINE Fine == /\ StoreTypes'
                   /\ \A s \in Scopes :
                            \/ Stays(s)
                            \/ \E now \in Times, dr \in Nat, dt \in Nat : Touched(s, now, dr, dt)
<1>1. ASSUME UNCHANGED <<counters, used, lossy>> PROVE Fine
  BY <1>0, <1>1, Zenon DEF StoreTypes, Stays
<1>2. ASSUME NEW s \in Scopes, NEW now \in Times, NEW dr \in Nat, NEW dt \in Nat,
             StoreTypes', Touched(s, now, dr, dt), \A k \in Scopes \ {s} : Stays(k)
      PROVE  Fine
  BY <1>2, Zenon
<1> HIDE DEF Fine
<1>3. ASSUME NEW r \in Requests, ReadGlobal(r) \/ ReadLimits(r) \/ ReadGlobalAgain(r)
                                 \/ \E n \in 0 .. MaxTokens : Finish(r, n)
      PROVE  Fine
  <2>1. UNCHANGED <<counters, used, lossy>>
    BY <1>3, Zenon DEF ReadGlobal, ReadLimits, ReadGlobalAgain, Finish
  <2> QED BY <1>1, <2>1, Zenon
<1>4. ASSUME \/ Rename \/ Tick
             \/ \E l \in LimitChoices : SetDefaults(l)
             \/ \E l \in GlobalChoices : SetGlobalLimits(l)
      PROVE  Fine
  <2>1. UNCHANGED <<counters, used, lossy>>
    BY <1>4, Zenon DEF Rename, Tick, SetDefaults, SetGlobalLimits
  <2> QED BY <1>1, <2>1, Zenon
<1>5. ASSUME NEW s \in Scopes, NEW now \in Times, NEW ok \in BOOLEAN, Reserve(s, now, ok) PROVE Fine
  <2>1. StoreTypes' /\ Touched(s, now, IF ok THEN 1 ELSE 0, 0) /\ \A k \in Scopes \ {s} : Stays(k)
    BY <1>5, ReserveTouches, Zenon
  <2>2. (IF ok THEN 1 ELSE 0) \in Nat
    BY Zenon
  <2> QED BY <1>0, <1>2, <2>1, <2>2, Zenon
<1>6. ASSUME NEW s \in Scopes, NEW now \in Times, NEW n \in Nat, AddTokens(s, now, n) PROVE Fine
  BY <1>0, <1>2, <1>6, AddTouches, Zenon
<1>7. ASSUME NEW r \in Requests, CheckAndReserveGlobal(r) PROVE Fine
  <2>1. Reserve(Global, at[r], Admits(roll(counters[Global], at[r]), lim[r]))
    BY <1>7, Zenon DEF CheckAndReserveGlobal
  <2>2. Admits(roll(counters[Global], at[r]), lim[r]) \in BOOLEAN /\ at[r] \in Times
    BY <1>0, Zenon DEF Admits
  <2> QED BY <1>0, <1>5, <2>1, <2>2, Zenon
<1>8. ASSUME NEW r \in Requests, CheckAndReserve(r) PROVE Fine
  <2>1. Reserve(KeyOf[r], at[r], Admits(roll(counters[KeyOf[r]], at[r]), lim[r]))
    BY <1>8, Zenon DEF CheckAndReserve
  <2>2. /\ Admits(roll(counters[KeyOf[r]], at[r]), lim[r]) \in BOOLEAN /\ at[r] \in Times
        /\ KeyOf[r] \in Scopes
    BY <1>0, Zenon DEF Admits
  <2> QED BY <1>5, <2>1, <2>2, Zenon
<1>9. ASSUME NEW r \in Requests, RecordTokens(r) \/ RecordGlobalTokens(r) PROVE Fine
  <2>1. at[r] \in Times /\ toks[r] \in Nat /\ KeyOf[r] \in Scopes
    BY <1>0, Bounds
  <2> QED BY <1>0, <1>6, <1>9, <2>1, Zenon DEF RecordTokens, RecordGlobalTokens
<1>10. ASSUME NEW s \in Keys, Get(s) PROVE Fine
  BY <1>0, <1>2, <1>10, GetTouches, Zenon
<1>11. ASSUME Checkpoint PROVE Fine
  BY <1>0, <1>11, CheckpointTouches, Zenon DEF Fine
<1>12. ASSUME Restart PROVE StoreTypes'
  <2>1. counters' = disk /\ used' = used
    BY <1>12, Zenon DEF Restart
  <2>2. lossy' \in [Scopes -> [Windows -> SUBSET Times]]
    <3>1. \A s \in Scopes, w \in Windows : lossy[s][w] \subseteq Times
      BY <1>0, Zenon DEF StoreTypes
    <3> QED BY <1>12, <3>1, Zenon DEF Restart, Between
  <2> QED BY <1>0, <2>1, <2>2, Zenon DEF StoreTypes
<1> QED BY <1>3, <1>4, <1>7, <1>8, <1>9, <1>10, <1>11, <1>12, Zenon DEF Next, Fine

(* Limits an administrator may set are limits.                             *)
LEMMA ChoicesAreLimits == LimitChoices \subseteq Limits /\ GlobalChoices \subseteq Limits
  BY LimitTypes, Zenon

(* Types and the limits a request has read.                                *)
LEMMA TypeStep == TypeOK /\ LimitsRead /\ Next => TypeOK' /\ LimitsRead'
<1> SUFFICES ASSUME TypeOK, LimitsRead, Next PROVE TypeOK' /\ LimitsRead'
  BY Zenon
<1> USE DEF limitVars, reqVars, fileVars, history
<1>0. StoreTypes'
  BY StoreStep, Zenon
<1> DEFINE Requesting == /\ pc' \in [Requests -> PCs] /\ at' \in [Requests -> Times]
                         /\ lim' \in [Requests -> Limits \cup {None}]
                         /\ toks' \in [Requests -> 0 .. MaxTokens]
           Settings == /\ clock' \in Times /\ defaults' \in LimitChoices /\ global' \in GlobalChoices
                       /\ sets' \in Nat /\ crashes' \in Nat
           Files == snap' \in CounterMap \cup {None} /\ disk' \in CounterMap
<1>1. Requesting /\ Settings /\ Files => TypeOK'
  BY <1>0, Zenon DEF TypeOK, StoreTypes
<1>2. /\ pc \in [Requests -> PCs] /\ at \in [Requests -> Times]
      /\ lim \in [Requests -> Limits \cup {None}] /\ toks \in [Requests -> 0 .. MaxTokens]
      /\ clock \in Times /\ defaults \in LimitChoices /\ global \in GlobalChoices
      /\ sets \in Nat /\ crashes \in Nat
      /\ snap \in CounterMap \cup {None} /\ disk \in CounterMap
      /\ 0 \in Times /\ 0 \in 0 .. MaxTokens /\ counters \in CounterMap
  BY Bounds DEF TypeOK, Times
<1>3. ASSUME UNCHANGED <<clock, limitVars, crashes>> PROVE Settings
  BY <1>2, <1>3, Zenon
<1>4. ASSUME UNCHANGED fileVars PROVE Files
  BY <1>2, <1>4, Zenon
<1>5. ASSUME UNCHANGED reqVars PROVE Requesting /\ LimitsRead'
  BY <1>2, <1>5, Zenon DEF LimitsRead, Asking
<1>6. ASSUME NEW r \in Requests, NEW p \in PCs, goto(r, p), toks' \in [Requests -> 0 .. MaxTokens],
             \/ forget(r)
             \/ at' = at /\ lim' = lim
             \/ \E l \in Limits \cup {None} : read(r, l),
             p \in {"global", "reserve"} => \E l \in Limits : read(r, l)
      PROVE  Requesting /\ LimitsRead'
  <2>1. pc' \in [Requests -> PCs] /\ pc'[r] = p /\ \A q \in Requests \ {r} : pc'[q] = pc[q]
    BY <1>2, <1>6, Zenon DEF goto
  <2>2. /\ at' \in [Requests -> Times] /\ lim' \in [Requests -> Limits \cup {None}]
        /\ \A q \in Requests \ {r} : lim'[q] = lim[q]
    BY <1>2, <1>6, ZenonT(40) DEF read, forget
  <2>3. p \in {"global", "reserve"} => lim'[r] \in Limits
    BY <1>2, <1>6, Zenon DEF read
  <2> QED BY <1>6, <2>1, <2>2, <2>3, Zenon DEF LimitsRead, Asking
<1> HIDE DEF Requesting, Settings, Files
<1>7. ASSUME NEW r \in Requests, ReadGlobal(r) PROVE TypeOK' /\ LimitsRead'
  <2>1. global \in Limits
    BY <1>2, ChoicesAreLimits, Zenon
  <2>2. CASE Disabled(global)
    <3>1. goto(r, "key") /\ at' = at /\ lim' = lim /\ toks' = toks
      BY <1>7, <2>2, Zenon DEF ReadGlobal
    <3>2. Requesting /\ LimitsRead'
      BY <1>2, <1>6, <3>1, Zenon DEF PCs
    <3> QED BY <1>1, <1>3, <1>4, <1>7, <3>2, Zenon DEF ReadGlobal
  <2>3. CASE ~Disabled(global)
    <3>1. goto(r, "global") /\ read(r, global) /\ toks' = toks
      BY <1>7, <2>3, Zenon DEF ReadGlobal
    <3>2. Requesting /\ LimitsRead'
      BY <1>2, <1>6, <2>1, <3>1, Zenon DEF PCs
    <3> QED BY <1>1, <1>3, <1>4, <1>7, <3>2 DEF ReadGlobal
  <2> QED BY <2>2, <2>3, Zenon
<1>8. ASSUME NEW r \in Requests, CheckAndReserveGlobal(r) \/ CheckAndReserve(r) \/ RecordTokens(r)
      PROVE  TypeOK' /\ LimitsRead'
  <2>1. /\ \E p \in {"key", "run", "denied", "charged"} : goto(r, p)
        /\ forget(r) /\ toks' = toks
    BY <1>8, Zenon DEF CheckAndReserveGlobal, CheckAndReserve, RecordTokens
  <2>2. Requesting /\ LimitsRead'
    <3>1. PICK p \in {"key", "run", "denied", "charged"} : goto(r, p)
      BY <2>1, Zenon
    <3> QED BY <1>2, <1>6, <2>1, <3>1, Zenon DEF PCs
  <2>3. UNCHANGED <<clock, limitVars, crashes>> /\ UNCHANGED fileVars
    BY <1>8, Zenon DEF CheckAndReserveGlobal, CheckAndReserve, RecordTokens
  <2> QED BY <1>1, <1>3, <1>4, <2>2, <2>3, Zenon
<1>9. ASSUME NEW r \in Requests, ReadLimits(r) PROVE TypeOK' /\ LimitsRead'
  <2>1. effectiveLimits(KeyOf[r]) \in Limits
    BY <1>2, KeyTypes, ChoicesAreLimits, Zenon DEF effectiveLimits
  <2>2. Requesting /\ LimitsRead'
    BY <1>2, <1>6, <1>9, <2>1, Zenon DEF ReadLimits, PCs
  <2> QED BY <1>1, <1>3, <1>4, <1>9, <2>2, Zenon DEF ReadLimits
<1>10. ASSUME NEW r \in Requests, NEW n \in 0 .. MaxTokens, Finish(r, n) PROVE TypeOK' /\ LimitsRead'
  <2>1. toks' \in [Requests -> 0 .. MaxTokens]
    BY <1>2, <1>10, Zenon DEF Finish
  <2>2. (goto(r, "done") /\ at' = at /\ lim' = lim) \/ (goto(r, "charge") /\ read(r, None))
    BY <1>10, Zenon DEF Finish
  <2>3. Requesting /\ LimitsRead'
    BY <1>6, <2>1, <2>2, Zenon DEF PCs
  <2> QED BY <1>1, <1>3, <1>4, <1>10, <2>3, Zenon DEF Finish
<1>11. ASSUME NEW r \in Requests, ReadGlobalAgain(r) \/ RecordGlobalTokens(r) PROVE TypeOK' /\ LimitsRead'
  <2>1. toks' \in [Requests -> 0 .. MaxTokens]
    BY <1>2, <1>11, Zenon DEF ReadGlobalAgain, RecordGlobalTokens
  <2>2. (goto(r, "done") /\ at' = at /\ lim' = lim) \/ (goto(r, "tally") /\ read(r, None))
        \/ (goto(r, "done") /\ forget(r))
    BY <1>11, Zenon DEF ReadGlobalAgain, RecordGlobalTokens
  <2>3. Requesting /\ LimitsRead'
    BY <1>6, <2>1, <2>2, Zenon DEF PCs
  <2>4. UNCHANGED <<clock, limitVars, crashes>> /\ UNCHANGED fileVars
    BY <1>11, Zenon DEF ReadGlobalAgain, RecordGlobalTokens
  <2> QED BY <1>1, <1>3, <1>4, <2>3, <2>4
<1>12. ASSUME \E s \in Keys : Get(s) PROVE TypeOK' /\ LimitsRead'
  BY <1>1, <1>3, <1>4, <1>5, <1>12, Zenon DEF Get
<1>13. ASSUME \/ \E l \in LimitChoices : SetDefaults(l)
              \/ \E l \in GlobalChoices : SetGlobalLimits(l)
              \/ Tick
       PROVE  TypeOK' /\ LimitsRead'
  <2>1. Settings
    <3>1. CASE Tick
      BY <1>2, <3>1, Bounds DEF Tick, Settings, Times
    <3>2. CASE \E l \in LimitChoices : SetDefaults(l)
      BY <1>2, <3>2 DEF SetDefaults, Settings
    <3>3. CASE \E l \in GlobalChoices : SetGlobalLimits(l)
      BY <1>2, <3>3 DEF SetGlobalLimits, Settings
    <3> QED BY <1>13, <3>1, <3>2, <3>3, Zenon
  <2>2. UNCHANGED reqVars /\ UNCHANGED fileVars
    BY <1>13, Zenon DEF SetDefaults, SetGlobalLimits, Tick
  <2> QED BY <1>1, <1>4, <1>5, <2>1, <2>2, Zenon
<1>14. ASSUME Checkpoint PROVE TypeOK' /\ LimitsRead'
  <2>1. Files
    BY <1>0, <1>2, <1>14, CheckpointTouches, Zenon DEF Checkpoint, Files, StoreTypes
  <2> QED BY <1>1, <1>3, <1>5, <1>14, <2>1, Zenon DEF Checkpoint
<1>15. ASSUME Rename PROVE TypeOK' /\ LimitsRead'
  <2>1. Files
    BY <1>2, <1>15, Zenon DEF Rename, Files
  <2> QED BY <1>1, <1>3, <1>5, <1>15, <2>1, Zenon DEF Rename
<1>16. ASSUME Restart PROVE TypeOK' /\ LimitsRead'
  <2>1. Files /\ Settings
    BY <1>2, <1>16 DEF Restart, Files, Settings
  <2>2. pc' \in [Requests -> PCs] /\ \A r \in Requests : pc'[r] \in {"idle", "denied", "done"}
    BY <1>2, <1>16, Zenon DEF Restart, PCs
  <2>3. Requesting
    BY <1>2, <1>16, <2>2, Zenon DEF Restart, Requesting
  <2>4. LimitsRead'
    BY <2>2, Zenon DEF LimitsRead, Asking
  <2> QED BY <1>1, <2>1, <2>3, <2>4, Zenon
<1> QED BY <1>7, <1>8, <1>9, <1>10, <1>11, <1>12, <1>13, <1>14, <1>15, <1>16, Zenon DEF Next

-----------------------------------------------------------------------------

(* The counters, the snapshot and the file stay nested and bounded.        *)
LEMMA SoundStep == QuotaInv /\ Next => (WindowsNested /\ NoOvercount /\ SnapSound)'
<1> SUFFICES ASSUME QuotaInv, Next PROVE (WindowsNested /\ NoOvercount /\ SnapSound)'
  BY Zenon
<1> USE DEF limitVars, reqVars, fileVars, history
<1>0. /\ TypeOK /\ counters \in [Scopes -> Row] /\ disk \in [Scopes -> Row]
      /\ snap # None => snap \in [Scopes -> Row]
  BY Zenon DEF QuotaInv, CountersSound, TypeOK, CounterMap, Row
<1>1. \A s \in Scopes : /\ Nested(counters[s]) /\ Nested(disk[s])
                        /\ AtMost(counters[s], used[s]) /\ AtMost(disk[s], used[s])
                        /\ snap # None => Nested(snap[s]) /\ AtMost(snap[s], used[s])
  BY Zenon DEF QuotaInv, CountersSound, WindowsNested, NoOvercount, SnapSound
<1>2. CASE Restart
  <2>1. counters' = disk /\ snap' = None /\ disk' = disk /\ used' = used
    BY <1>2, Zenon DEF Restart
  <2> QED BY <1>1, <2>1, Zenon DEF WindowsNested, NoOvercount, SnapSound
<1>3. CASE ~Restart
  <2>1. ASSUME NEW s \in Scopes
        PROVE  /\ Nested(counters'[s]) /\ AtMost(counters'[s], used'[s])
               /\ \A c \in Row : AtMost(c, used[s]) => AtMost(c, used'[s])
    <3>1. CASE Stays(s)
      BY <1>1, <3>1, Zenon DEF Stays
    <3>2. CASE \E now \in Times, dr \in Nat, dt \in Nat : Touched(s, now, dr, dt)
      <4>1. PICK now \in Times, dr \in Nat, dt \in Nat : Touched(s, now, dr, dt)
        BY <3>2, Zenon
      <4> QED BY <1>0, <1>1, <4>1, TouchNested, TouchBounds, Zenon
    <3> QED BY <1>0, <1>3, <3>1, <3>2, StoreStep, Zenon
  <2>2. /\ disk' = disk \/ (snap # None /\ disk' = snap)
        /\ snap' = snap \/ snap' = None \/ snap' = counters'
    <3>1. CASE Checkpoint
      <4>1. snap' = counters' /\ disk' = disk
        BY <1>0, <3>1, CheckpointTouches, Zenon DEF Checkpoint
      <4> QED BY <4>1, Zenon
    <3>2. CASE Rename
      BY <3>2, Zenon DEF Rename
    <3>3. CASE ~Checkpoint /\ ~Rename
      <4>1. UNCHANGED fileVars
        BY <1>3, <3>3, Zenon DEF Next, ReadGlobal, CheckAndReserveGlobal, ReadLimits, CheckAndReserve,
              Finish, RecordTokens, ReadGlobalAgain, RecordGlobalTokens, Get, SetDefaults,
              SetGlobalLimits, Tick
      <4> QED BY <4>1, Zenon
    <3> QED BY <3>1, <3>2, <3>3, Zenon
  <2>3. \A s \in Scopes : Nested(disk'[s]) /\ AtMost(disk'[s], used'[s])
    BY <1>0, <1>1, <2>1, <2>2, Zenon
  <2>4. \A s \in Scopes : snap' # None => Nested(snap'[s]) /\ AtMost(snap'[s], used'[s])
    BY <1>0, <1>1, <2>1, <2>2, Zenon
  <2> QED BY <2>1, <2>3, <2>4, Zenon DEF WindowsNested, NoOvercount, SnapSound
<1> QED BY <1>2, <1>3, Zenon

(* A fresh engine is sound and exact.                                      *)
LEMMA InitSound == Init => QuotaInv /\ \A s \in Scopes, w \in Windows : ExactFor(s, w)
<1> SUFFICES ASSUME Init PROVE QuotaInv /\ \A s \in Scopes, w \in Windows : ExactFor(s, w)
  BY Zenon
<1>1. /\ ZeroCounters \in Row /\ Nested(ZeroCounters)
      /\ \A w \in Windows : ZeroCounters[w].start = Zero
  BY DEF ZeroCounters, Row, Counter, Nested, Windows
<1>2. /\ Unused \in [Windows -> [Times -> Amount]]
      /\ \A w \in Windows, t \in Times : Unused[w][t].reqs = 0 /\ Unused[w][t].toks = 0
  BY Zenon DEF Unused, Amount
<1>3. PICK sc \in Scenarios, idle \in SUBSET Requests :
         /\ defaults = sc.defaults /\ global = sc.global
         /\ pc = [r \in Requests |-> IF r \in idle THEN "idle" ELSE "done"]
         /\ sets = sc.sets /\ crashes = sc.crashes
  BY Zenon DEF Init
<1>4. /\ clock = 0 /\ counters = [s \in Scopes |-> ZeroCounters]
      /\ at = [r \in Requests |-> 0] /\ lim = [r \in Requests |-> None] /\ toks = [r \in Requests |-> 0]
      /\ snap = None /\ disk = [s \in Scopes |-> ZeroCounters]
      /\ used = [s \in Scopes |-> Unused]
      /\ lossy = [s \in Scopes |-> [w \in Windows |-> {}]]
  BY Zenon DEF Init
<1>5. /\ defaults \in LimitChoices /\ global \in GlobalChoices /\ sets \in Nat /\ crashes \in Nat
  BY <1>3, Bounds, Zenon DEF Scenario
<1>6. /\ clock \in Times /\ pc \in [Requests -> PCs] /\ at \in [Requests -> Times]
      /\ lim \in [Requests -> Limits \cup {None}] /\ toks \in [Requests -> 0 .. MaxTokens]
  BY <1>3, <1>4, Bounds DEF PCs, Times
<1>7. /\ counters \in CounterMap /\ disk \in CounterMap /\ snap \in CounterMap \cup {None}
      /\ used \in [Scopes -> [Windows -> [Times -> Amount]]]
      /\ lossy \in [Scopes -> [Windows -> SUBSET Times]]
  BY <1>1, <1>2, <1>4, Zenon DEF CounterMap, Row
<1>8. TypeOK
  BY <1>5, <1>6, <1>7, Zenon DEF TypeOK
<1>9. WindowsNested /\ NoOvercount /\ SnapSound
  BY <1>1, <1>4, Zenon DEF WindowsNested, NoOvercount, SnapSound, AtMost
<1>10. LimitsRead
  BY <1>3, Zenon DEF LimitsRead, Asking
<1>11. \A s \in Scopes, w \in Windows : ExactFor(s, w)
  BY <1>1, <1>2, <1>4, Zenon DEF ExactFor
<1> QED BY <1>8, <1>9, <1>10, <1>11, Zenon DEF QuotaInv, CountersSound

(* The invariant: the counters, the snapshot and the file sound, and the   *)
(* limits of a waiting request read.                                       *)
THEOREM QuotaInvariant == Spec => []QuotaInv
<1>1. Init => QuotaInv
  BY InitSound, Zenon
<1>2. QuotaInv /\ [Next]_vars => QuotaInv'
  <2>1. CASE QuotaInv /\ Next
    BY <2>1, TypeStep, SoundStep, Zenon DEF QuotaInv, CountersSound
  <2>2. CASE QuotaInv /\ UNCHANGED vars
    BY <2>2, Zenon DEF QuotaInv, CountersSound, TypeOK, WindowsNested, NoOvercount, SnapSound, LimitsRead, Asking,
          vars, limitVars, reqVars, fileVars, history
  <2> QED BY <2>1, <2>2, Zenon
<1> QED BY <1>1, <1>2, PTL DEF Spec

(* The counters, in memory and in the checkpoint, belong to one instant,   *)
(* and never exceed what was really used in it, for stale clock readings,  *)
(* checkpoints and restarts in any order (Counters.roll, Reserve,          *)
(* AddTokens, Checkpoint, LoadCheckpoint).                                 *)
THEOREM CountersAreSound == Spec => []CountersSound
<1>1. QuotaInv => CountersSound
  BY Zenon DEF QuotaInv
<1> QED BY <1>1, QuotaInvariant, PTL

(* Exactness, window by window.                                            *)
LEMMA ExactInvariant == Spec => []Exact
<1>1. Init => Exact
  BY InitSound, Zenon DEF Exact
<1>2. QuotaInv /\ Exact /\ [Next]_vars => Exact'
  <2> SUFFICES ASSUME QuotaInv, Exact, [Next]_vars, NEW s \in Scopes, NEW w \in Windows
               PROVE  ExactFor(s, w)'
    BY Zenon DEF Exact
  <2>0. TypeOK /\ ExactFor(s, w)
    BY Zenon DEF QuotaInv, CountersSound, Exact
  <2>1. CASE UNCHANGED vars \/ Stays(s)
    <3>1. counters'[s] = counters[s] /\ used'[s] = used[s] /\ lossy'[s] = lossy[s]
      BY <2>1, Zenon DEF vars, history, Stays
    <3> QED BY <2>0, <3>1, Zenon DEF ExactFor
  <2>2. CASE \E now \in Times, dr \in Nat, dt \in Nat : Touched(s, now, dr, dt)
    <3>1. PICK now \in Times, dr \in Nat, dt \in Nat : Touched(s, now, dr, dt)
      BY <2>2, Zenon
    <3> QED BY <2>0, <3>1, TouchExact, Zenon
  <2>3. CASE Restart
    <3> DEFINE c == counters[s][w]
               d == disk[s][w]
    <3>1. /\ counters'[s][w] = d /\ used'[s] = used[s]
          /\ lossy'[s][w] = IF d = c THEN lossy[s][w] ELSE lossy[s][w] \cup Between(d.start, c.start)
      BY <2>3, Zenon DEF Restart
    <3>2. /\ c.start \in Times \cup {Zero} /\ d.start \in Times \cup {Zero}
          /\ Times \cup {Zero} \subseteq Int /\ \A t \in Times : t > Zero
      <4>1. counters[s] \in Row /\ disk[s] \in Row
        BY <2>0, Zenon DEF TypeOK, CounterMap, Row
      <4>2. Times \cup {Zero} \subseteq Int /\ \A t \in Times : t > Zero
        BY DEF Times, Zero
      <4> QED BY <4>1, <4>2, RowParts, Zenon
    <3>3. CASE d = c
      BY <2>0, <3>1, <3>3, Zenon DEF ExactFor
    <3>4. CASE d # c
      <4>1. lossy'[s][w] = lossy[s][w] \cup Between(d.start, c.start)
        BY <3>1, <3>4, Zenon
      <4>2. d.start # Zero => d.start \in lossy'[s][w]
        BY <3>2, <4>1 DEF Between
      <4>3. ASSUME NEW t \in Times \ lossy'[s][w], t > d.start
            PROVE  used'[s][w][t].reqs = 0 /\ used'[s][w][t].toks = 0
        <5>1. t \in Times \ lossy[s][w] /\ t > c.start
          BY <3>2, <4>1, <4>3 DEF Between
        <5> QED BY <2>0, <3>1, <5>1, Zenon DEF ExactFor
      <4> HIDE DEF d
      <4> QED BY <3>1, <4>2, <4>3, Zenon DEF ExactFor
    <3> QED BY <3>3, <3>4, Zenon
  <2> QED BY <2>0, <2>1, <2>2, <2>3, StoreStep, Zenon
<1> QED BY <1>1, <1>2, QuotaInvariant, PTL DEF Spec

(* Counts are exact in every window of which nothing was lost: to a        *)
(* restart from an older file, or to a request that read the clock before  *)
(* the store moved on (Reserve, AddTokens, LoadCheckpoint).                *)
THEOREM CountersAreExact == Spec => []ExactUnlessLossy
<1>1. QuotaInv /\ Exact => ExactUnlessLossy
  <2> SUFFICES ASSUME QuotaInv, Exact, NEW s \in Scopes, NEW w \in Windows
               PROVE  LET c == counters[s][w]
                      IN  /\ c.start # Zero /\ c.start \notin lossy[s][w] =>
                                used[s][w][c.start] = [reqs |-> c.reqs, toks |-> c.toks]
                          /\ \A t \in Times \ lossy[s][w] :
                                t > c.start => used[s][w][t] = [reqs |-> 0, toks |-> 0]
    BY Zenon DEF ExactUnlessLossy
  <2>1. counters[s] \in Row /\ \A t \in Times : used[s][w][t] \in Amount
    BY DEF QuotaInv, CountersSound, TypeOK, CounterMap, Row
  <2>2. \A t \in Times : used[s][w][t] = [reqs |-> used[s][w][t].reqs, toks |-> used[s][w][t].toks]
    BY <2>1, Zenon DEF Amount
  <2>3. counters[s][w].start \in Times \cup {Zero}
    BY <2>1, RowParts, Zenon
  <2>4. ExactFor(s, w)
    BY Zenon DEF Exact
  <2> QED BY <2>2, <2>3, <2>4, Zenon DEF ExactFor
<1> QED BY <1>1, QuotaInvariant, ExactInvariant, PTL

-----------------------------------------------------------------------------

(* A request that waits for its verdict gets it from its own reservation.  *)
LEMMA VerdictOf ==
    ASSUME TypeOK, Next, NEW r \in Requests, Asking(r), pc'[r] \in {"key", "run", "denied"}
    PROVE  /\ Reserve(Asked(r), at[r], Admits(roll(counters[Asked(r)], at[r]), lim[r]))
           /\ pc'[r] = "denied" <=> ~Admits(roll(counters[Asked(r)], at[r]), lim[r])
<1> USE DEF limitVars, reqVars, fileVars, history
<1>0. pc \in [Requests -> PCs] /\ pc[r] \in {"global", "reserve"} /\ pc'[r] # pc[r]
  BY Zenon DEF TypeOK, Asking
<1> DEFINE Goal == /\ Reserve(Asked(r), at[r], Admits(roll(counters[Asked(r)], at[r]), lim[r]))
                   /\ pc'[r] = "denied" <=> ~Admits(roll(counters[Asked(r)], at[r]), lim[r])
<1>1. ASSUME NEW q \in Requests, CheckAndReserveGlobal(q) PROVE Goal
  <2>1. goto(q, IF Admits(roll(counters[Global], at[q]), lim[q]) THEN "key" ELSE "denied") /\ pc[q] = "global"
    BY <1>1, Zenon DEF CheckAndReserveGlobal
  <2>2. q = r
    BY <1>0, <2>1, Zenon DEF goto
  <2>3. pc'[r] = IF Admits(roll(counters[Global], at[r]), lim[r]) THEN "key" ELSE "denied"
    BY <1>0, <2>1, <2>2, Zenon DEF goto
  <2>4. Asked(r) = Global
    BY <2>1, <2>2, Zenon DEF Asked
  <2> QED BY <1>1, <2>2, <2>3, <2>4, Zenon DEF CheckAndReserveGlobal
<1>2. ASSUME NEW q \in Requests, CheckAndReserve(q) PROVE Goal
  <2>1. goto(q, IF Admits(roll(counters[KeyOf[q]], at[q]), lim[q]) THEN "run" ELSE "denied") /\ pc[q] = "reserve"
    BY <1>2, Zenon DEF CheckAndReserve
  <2>2. q = r
    BY <1>0, <2>1, Zenon DEF goto
  <2>3. pc'[r] = IF Admits(roll(counters[KeyOf[r]], at[r]), lim[r]) THEN "run" ELSE "denied"
    BY <1>0, <2>1, <2>2, Zenon DEF goto
  <2>4. Asked(r) = KeyOf[r]
    BY <2>1, <2>2, Zenon DEF Asked
  <2> QED BY <1>2, <2>2, <2>3, <2>4, Zenon DEF CheckAndReserve
<1>3. ASSUME NEW q \in Requests, ReadGlobal(q) \/ ReadLimits(q) \/ RecordTokens(q) \/ ReadGlobalAgain(q)
                                 \/ RecordGlobalTokens(q) \/ \E n \in 0 .. MaxTokens : Finish(q, n)
      PROVE  FALSE
  <2>1. pc[q] \notin {"global", "reserve"} /\ \E l \in PCs : goto(q, l)
    BY <1>3, Zenon DEF ReadGlobal, ReadLimits, RecordTokens, ReadGlobalAgain, RecordGlobalTokens, Finish, PCs
  <2> QED BY <1>0, <2>1, Zenon DEF goto
<1>4. ASSUME \/ \E s \in Keys : Get(s)
             \/ \E l \in LimitChoices : SetDefaults(l)
             \/ \E l \in GlobalChoices : SetGlobalLimits(l)
             \/ Checkpoint \/ Rename \/ Tick
      PROVE  FALSE
  <2>1. pc' = pc
    BY <1>4, Zenon DEF Get, SetDefaults, SetGlobalLimits, Checkpoint, Rename, Tick
  <2> QED BY <1>0, <2>1, Zenon
<1>5. ASSUME Restart PROVE FALSE
  BY <1>0, <1>5, Zenon DEF Restart
<1> QED BY <1>1, <1>2, <1>3, <1>4, <1>5, Zenon DEF Next

(* Limits compare like counts: what is equal is exhausted together, and    *)
(* more is exhausted too.                                                  *)
LEMMA ExhaustedAlike ==
    ASSUME NEW c, NEW u, NEW l, NEW d \in Exhausted(u, l),
           c[d[2]].reqs = u[d[2]].reqs, c[d[2]].toks = u[d[2]].toks
    PROVE  d \in Exhausted(c, l)
  BY Zenon DEF Exhausted

LEMMA ExhaustedMore ==
    ASSUME NEW c, NEW u, NEW l \in Limits, NEW d \in Exhausted(c, l),
           c[d[2]].reqs \in Nat, c[d[2]].toks \in Nat, u[d[2]].reqs \in Nat, u[d[2]].toks \in Nat,
           c[d[2]].reqs <= u[d[2]].reqs, c[d[2]].toks <= u[d[2]].toks
    PROVE  d \in Exhausted(u, l)
<1>1. d \in {<<"rpm", "minute">>, <<"tpm", "minute">>, <<"daily", "day">>, <<"monthly", "month">>}
      /\ l[d[1]] # 0 /\ (IF d[1] = "rpm" THEN c[d[2]].reqs ELSE c[d[2]].toks) >= l[d[1]]
  BY Zenon DEF Exhausted
<1>2. l[d[1]] \in Nat
  BY <1>1 DEF Limits
<1>3. (IF d[1] = "rpm" THEN u[d[2]].reqs ELSE u[d[2]].toks) >= l[d[1]]
  BY <1>1, <1>2
<1> QED BY <1>1, <1>3, Zenon DEF Exhausted

(* The window of a limit.                                                  *)
LEMMA ExhaustedWindow ==
    ASSUME NEW c, NEW l, NEW d \in Exhausted(c, l) PROVE d[2] \in Windows
  BY DEF Exhausted, Windows

(* A request is admitted only while the real usage is below its limits, in *)
(* windows of which nothing was lost, and denied only when the real usage  *)
(* has reached one of them (CheckAndReserve, CheckAndReserveGlobal).       *)
THEOREM VerdictsAreJust == Spec => VerdictsJust
<1> DEFINE Admit == \A r \in Requests : Admitted(r) =>
                       \A d \in Exhausted(Consumed(Asked(r), at[r]), lim[r]) :
                           windowStart(d[2], at[r]) \in lossy'[Asked(r)][d[2]]
           Deny == \A r \in Requests : Denied(r) =>
                       Exhausted(Consumed(Asked(r), at[r]), lim[r]) # {}
<1>0. ASSUME QuotaInv, NEW r \in Requests
      PROVE  /\ TypeOK /\ at[r] \in Times /\ Asked(r) \in Scopes /\ counters[Asked(r)] \in Row
             /\ \A w \in Windows : Consumed(Asked(r), at[r])[w] = used[Asked(r)][w][windowStart(w, at[r])]
  BY <1>0, KeyTypes, Zenon DEF QuotaInv, CountersSound, TypeOK, CounterMap, Row, Asked, Scopes, Consumed
<1>1. QuotaInv /\ Exact /\ [Next]_vars => [Admit]_vars
  <2> SUFFICES ASSUME QuotaInv, Exact, Next, NEW r \in Requests, Admitted(r),
                      NEW d \in Exhausted(Consumed(Asked(r), at[r]), lim[r]),
                      windowStart(d[2], at[r]) \notin lossy'[Asked(r)][d[2]]
               PROVE  FALSE
    BY Zenon
  <2> DEFINE s == Asked(r)
             w == d[2]
             c == roll(counters[s], at[r])
  <2>0. /\ TypeOK /\ at[r] \in Times /\ s \in Scopes /\ w \in Windows
        /\ lossy \in [Scopes -> [Windows -> SUBSET Times]]
        /\ Consumed(s, at[r])[w] = used[s][w][windowStart(w, at[r])]
    BY <1>0, ExhaustedWindow, Zenon DEF TypeOK
  <2>1. Reserve(s, at[r], Admits(c, lim[r])) /\ Exhausted(c, lim[r]) = {}
    BY <2>0, VerdictOf, Zenon DEF Admitted, Admits
  <2>2. lossy'[s][w] = Forgets(s, at[r])[w]
    BY <2>0, <2>1, Zenon DEF Reserve
  <2>3. ExactFor(s, w)
    BY <2>0, Zenon DEF Exact
  <2>4. /\ used[s][w][windowStart(w, at[r])].reqs = c[w].reqs
        /\ used[s][w][windowStart(w, at[r])].toks = c[w].toks
    BY <2>0, <2>2, <2>3, RollExact, Zenon
  <2>5. d \in Exhausted(c, lim[r])
    <3> HIDE DEF c
    <3>1. c[d[2]].reqs = Consumed(s, at[r])[d[2]].reqs /\ c[d[2]].toks = Consumed(s, at[r])[d[2]].toks
      BY <2>0, <2>4, Zenon
    <3> QED BY <3>1, ExhaustedAlike, Zenon
  <2> QED BY <2>1, <2>5, Zenon
<1>2. QuotaInv /\ Exact /\ [Next]_vars => [Deny]_vars
  <2> SUFFICES ASSUME QuotaInv, Next, NEW r \in Requests, Denied(r)
               PROVE  Exhausted(Consumed(Asked(r), at[r]), lim[r]) # {}
    BY Zenon
  <2> DEFINE s == Asked(r)
             c == roll(counters[s], at[r])
             u == Consumed(s, at[r])
  <2>0. TypeOK /\ at[r] \in Times /\ s \in Scopes /\ counters[s] \in Row /\ lim[r] \in Limits
    BY <1>0, Zenon DEF QuotaInv, LimitsRead, Denied
  <2>1. Exhausted(c, lim[r]) # {}
    BY <2>0, VerdictOf, Zenon DEF Denied, Admits
  <2>2. PICK d \in Exhausted(c, lim[r]) : TRUE
    BY <2>1, Zenon
  <2> DEFINE w == d[2]
             start == windowStart(w, at[r])
  <2>3. w \in Windows /\ start \in Times /\ start # Zero
    BY <2>0, ExhaustedWindow, StartType, Zenon
  <2>4. u[w] = used[s][w][start]
    BY <1>0, <2>3, Zenon
  <2>5. used[s][w][start].reqs \in Nat /\ used[s][w][start].toks \in Nat
    BY <2>0, <2>3 DEF TypeOK, Amount
  <2>6. c[w].reqs \in Nat /\ c[w].toks \in Nat
    BY <2>0, <2>3, RollParts, RowParts, Zenon
  <2>7. c[w].reqs <= used[s][w][start].reqs /\ c[w].toks <= used[s][w][start].toks
    <3>1. CASE counters[s][w].start = start
      <4>1. AtMost(counters[s], used[s])
        BY <2>0, Zenon DEF QuotaInv, CountersSound, NoOvercount
      <4> QED BY <2>0, <2>3, <3>1, <4>1, RollParts, ZenonT(40) DEF AtMost
    <3>2. CASE counters[s][w].start # start
      <4>1. c[w].reqs = 0 /\ c[w].toks = 0
        BY <2>0, <2>3, <3>2, RollParts, Zenon
      <4> QED BY <2>5, <4>1
    <3> QED BY <3>1, <3>2, Zenon
  <2> HIDE DEF c, u
  <2>8. d \in Exhausted(u, lim[r])
    <3>1. /\ c[d[2]].reqs \in Nat /\ c[d[2]].toks \in Nat /\ u[d[2]].reqs \in Nat /\ u[d[2]].toks \in Nat
          /\ c[d[2]].reqs <= u[d[2]].reqs /\ c[d[2]].toks <= u[d[2]].toks
      BY <2>4, <2>5, <2>6, <2>7, Zenon
    <3> QED BY <2>0, <3>1, ExhaustedMore, Zenon
  <2> QED BY <2>8, Zenon DEF u
<1> QED BY <1>1, <1>2, QuotaInvariant, ExactInvariant, PTL
        DEF Spec, VerdictsJust, AdmitsWithinLimits, DeniedOnlyWhenExhausted

-----------------------------------------------------------------------------

(* A set of naturals has a least element.                                  *)
LEMMA LeastOfNat ==
    ASSUME NEW S \in SUBSET Nat, S # {} PROVE \E x \in S : \A y \in S : x <= y
<1> DEFINE Lt == {ss \in Nat \X Nat : ss[1] < ss[2]}
<1>1. OpToRel(<, Nat) = Lt
  BY Zenon DEF OpToRel
<1>2. IsWellFoundedOn(Lt, Nat)
  BY <1>1, NatLessThanWellFounded, Zenon
<1>3. PICK x \in S : \A y \in S : ~(<<y, x>> \in Lt)
  <2> HIDE DEF Lt
  <2> QED BY <1>2, WFMin, Zenon
<1>4. ASSUME NEW y \in S PROVE x <= y
  <2>1. <<y, x>> \in Nat \X Nat /\ <<y, x>>[1] = y /\ <<y, x>>[2] = x
    BY Zenon
  <2>2. ~(y < x)
    BY <1>3, <2>1, Zenon
  <2> QED BY <2>2
<1> QED BY <1>4, Zenon

(* A window lasts until its reset, which is in the next one or past the    *)
(* end of time.                                                            *)
LEMMA ResetParts ==
    ASSUME NEW w \in Windows, NEW t \in Times
    PROVE  /\ WindowReset(w, t) \in t + 1 .. MaxTime + 1
           /\ WindowReset(w, t) \in Times => windowStart(w, WindowReset(w, t)) # windowStart(w, t)
           /\ \A v \in t + 1 .. WindowReset(w, t) - 1 : windowStart(w, v) = windowStart(w, t)
<1> DEFINE Resets(u) == /\ u \in Times => windowStart(w, u) # windowStart(w, t)
                        /\ \A v \in t + 1 .. u - 1 : windowStart(w, v) = windowStart(w, t)
           later == {u \in t + 1 .. MaxTime + 1 : u \in Times => windowStart(w, u) # windowStart(w, t)}
<1>0. t \in Nat /\ MaxTime \in Nat /\ t <= MaxTime
  BY Bounds DEF Times
<1>1. later \in SUBSET Nat /\ MaxTime + 1 \in later
  BY <1>0 DEF Times
<1>2. PICK u \in later : \A v \in later : u <= v
  BY <1>1, LeastOfNat, Zenon
<1>3. u \in t + 1 .. MaxTime + 1 /\ Resets(u)
  <2>1. ASSUME NEW v \in t + 1 .. u - 1 PROVE windowStart(w, v) = windowStart(w, t)
    <3>1. v \in t + 1 .. MaxTime + 1 /\ ~(u <= v)
      BY <1>0, <1>2
    <3>2. v \notin later
      BY <1>2, <3>1, Zenon
    <3> QED BY <3>1, <3>2, Zenon
  <2> QED BY <1>2, <2>1, Zenon
<1>4. WindowReset(w, t) = CHOOSE x \in t + 1 .. MaxTime + 1 : Resets(x)
  BY Zenon DEF WindowReset
<1> HIDE DEF Resets
<1>5. WindowReset(w, t) \in t + 1 .. MaxTime + 1 /\ Resets(WindowReset(w, t))
  BY <1>3, <1>4, Zenon
<1> QED BY <1>5, Zenon DEF Resets

(* The hint is the first reset among the exhausted limits.                 *)
LEMMA RetryAfterParts ==
    ASSUME NEW c, NEW l, NEW now \in Times, Exhausted(c, l) # {}
    PROVE  /\ \A d \in Exhausted(c, l) : RetryAfter(c, l, now) <= WindowReset(d[2], now)
           /\ \E d \in Exhausted(c, l) : RetryAfter(c, l, now) = WindowReset(d[2], now)
<1> DEFINE considered == IF Exhausted(c, l) # {} THEN {d[2] : d \in Exhausted(c, l)} ELSE Windows
           resets == {WindowReset(w, now) : w \in considered}
<1>1. considered = {d[2] : d \in Exhausted(c, l)}
  BY Zenon
<1>2. RetryAfter(c, l, now) = CHOOSE u \in resets : \A v \in resets : u <= v
  BY Zenon DEF RetryAfter
<1>3. \A d \in Exhausted(c, l) : d[2] \in Windows
  BY ExhaustedWindow, Zenon
<1>4. \A w \in Windows : WindowReset(w, now) \in Nat
  <2>1. now \in Nat
    BY Bounds DEF Times
  <2> QED BY <2>1, ResetParts, Bounds
<1> HIDE DEF considered
<1>5. resets \in SUBSET Nat /\ resets # {}
  BY <1>1, <1>3, <1>4, Zenon
<1> HIDE DEF resets
<1>6. /\ RetryAfter(c, l, now) \in resets
      /\ \A v \in resets : RetryAfter(c, l, now) <= v
  BY <1>2, <1>5, LeastOfNat, Zenon
<1> QED BY <1>1, <1>6, Zenon DEF resets

(* The Retry-After hint of a denied key is exact: until then its exhausted *)
(* limits stay exhausted and no other joins them, and then one clears      *)
(* (Snapshot.RetryAfter, WindowReset).                                     *)
THEOREM HintsAreTight == Spec => []HintTight
<1>1. QuotaInv => HintTight
  <2> SUFFICES ASSUME QuotaInv, NEW k \in Keys, NEW l \in LimitChoices,
                      Exhausted(roll(counters[k], clock), l) # {}
               PROVE  LET c == roll(counters[k], clock)
                          u == RetryAfter(c, l, clock)
                      IN  /\ \A t \in clock .. u - 1 : Exhausted(roll(c, t), l) = Exhausted(c, l)
                          /\ u \in Times => Exhausted(roll(c, u), l) # Exhausted(c, l)
    BY Zenon DEF HintTight
  <2> DEFINE c == roll(counters[k], clock)
             u == RetryAfter(c, l, clock)
  <2>0. clock \in Times /\ clock \in Nat /\ MaxTime \in Nat /\ counters[k] \in Row /\ l \in Limits
    BY Bounds, ChoicesAreLimits DEF QuotaInv, CountersSound, TypeOK, CounterMap, Row, Scopes, Times
  <2>1. c \in Row /\ \A w \in Windows : c[w].start = windowStart(w, clock)
    BY <2>0, RollParts, Zenon
  <2>2. Exhausted(c, l) # {}
    BY Zenon
  <2> HIDE DEF c
  <2>3. /\ \A d \in Exhausted(c, l) : u <= WindowReset(d[2], clock)
        /\ \E d \in Exhausted(c, l) : u = WindowReset(d[2], clock)
    BY <2>0, <2>2, RetryAfterParts, Zenon
  <2>4. \A w \in Windows : WindowReset(w, clock) \in clock + 1 .. MaxTime + 1
    BY <2>0, ResetParts, Zenon
  <2>5. u \in clock + 1 .. MaxTime + 1
    BY <2>3, <2>4, ExhaustedWindow, Zenon
  <2> HIDE DEF u
  <2>6. ASSUME NEW t \in Times, NEW d \in Exhausted(roll(c, t), l)
        PROVE  c[d[2]].start = windowStart(d[2], t) /\ d \in Exhausted(c, l)
    <3>1. d[2] \in Windows
      BY ExhaustedWindow, Zenon
    <3>2. c[d[2]].start = windowStart(d[2], t)
      <4> SUFFICES ASSUME c[d[2]].start # windowStart(d[2], t) PROVE FALSE
        BY Zenon
      <4>1. roll(c, t)[d[2]].reqs = 0 /\ roll(c, t)[d[2]].toks = 0
        BY <2>1, <3>1, RollParts, Zenon
      <4>2. /\ d \in {<<"rpm", "minute">>, <<"tpm", "minute">>, <<"daily", "day">>, <<"monthly", "month">>}
            /\ l[d[1]] # 0 /\ 0 >= l[d[1]]
        BY <4>1, Zenon DEF Exhausted
      <4>3. l[d[1]] \in Nat
        BY <2>0, <4>2 DEF Limits
      <4> QED BY <4>2, <4>3
    <3>3. roll(c, t)[d[2]] = c[d[2]]
      BY <2>1, <3>1, <3>2, RollParts, Zenon
    <3> QED BY <3>2, <3>3, ExhaustedAlike, Zenon
  <2>7. ASSUME NEW t \in clock .. u - 1 PROVE Exhausted(roll(c, t), l) = Exhausted(c, l)
    <3>1. t \in Times
      BY <2>0, <2>5 DEF Times
    <3>2. ASSUME NEW d \in Exhausted(c, l) PROVE d \in Exhausted(roll(c, t), l)
      <4>1. d[2] \in Windows /\ u <= WindowReset(d[2], clock)
        BY <2>3, ExhaustedWindow, Zenon
      <4>2. t = clock \/ t \in clock + 1 .. WindowReset(d[2], clock) - 1
        BY <2>0, <2>4, <2>5, <4>1
      <4>3. windowStart(d[2], t) = windowStart(d[2], clock)
        BY <2>0, <4>1, <4>2, ResetParts, Zenon
      <4>4. roll(c, t)[d[2]] = c[d[2]]
        BY <2>1, <3>1, <4>1, <4>3, RollParts
      <4> QED BY <4>4, ExhaustedAlike, Zenon
    <3>3. Exhausted(roll(c, t), l) \subseteq Exhausted(c, l)
      BY <2>6, <3>1, Zenon
    <3> QED BY <3>2, <3>3, Zenon
  <2>8. ASSUME u \in Times PROVE Exhausted(roll(c, u), l) # Exhausted(c, l)
    <3>1. PICK d \in Exhausted(c, l) : u = WindowReset(d[2], clock)
      BY <2>3, Zenon
    <3>2. d[2] \in Windows
      BY ExhaustedWindow, Zenon
    <3>3. windowStart(d[2], u) # c[d[2]].start
      BY <2>0, <2>1, <2>8, <3>1, <3>2, ResetParts
    <3>4. d \notin Exhausted(roll(c, u), l)
      BY <2>6, <2>8, <3>3, Zenon
    <3> QED BY <3>4, Zenon
  <2> QED BY <2>7, <2>8, Zenon DEF c, u
<1> QED BY <1>1, QuotaInvariant, PTL
=============================================================================
