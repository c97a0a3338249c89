---------------------------- MODULE GatewayProofs ----------------------------
(***************************************************************************)
(* Proofs about the handlers of the public surface, the reports and the    *)
(* load test, each by itself; ServiceProofs puts them together.            *)
(*                                                                         *)
(* The status of an answer: a handler that has written one is at a place   *)
(* (Late) from which no step writes another (CallOK).  The histories and   *)
(* limits the handlers share keep their shapes (HubOK), and so do the log  *)
(* ring and its readers, the walk over the pages of a listing, the GPU     *)
(* gauges and the load test.                                               *)
(***************************************************************************)
EXTENDS Gateway, Reports, Loadtest, FiniteSetTheorems, TLAPS

(* Sequences: their members, and the ones of what Append, Tail, \o and     *)
(* SubSeq give.                                                            *)
LEMMA SeqDomain == ASSUME NEW S, NEW q \in Seq(S) PROVE Len(q) \in Nat /\ DOMAIN q = 1 .. Len(q)
OBVIOUS

LEMMA SeqAppend ==
    ASSUME NEW S, NEW q \in Seq(S), NEW x \in S
    PROVE  Append(q, x) \in Seq(S) /\ Len(Append(q, x)) = Len(q) + 1
OBVIOUS

LEMMA SeqConcat ==
    ASSUME NEW S, NEW q \in Seq(S), NEW t \in Seq(S)
    PROVE  q \o t \in Seq(S) /\ Len(q \o t) = Len(q) + Len(t)
OBVIOUS

LEMMA SeqPart ==
    ASSUME NEW S, NEW q \in Seq(S), NEW m \in 1 .. Len(q) + 1, NEW n \in m - 1 .. Len(q)
    PROVE  SubSeq(q, m, n) \in Seq(S)
OBVIOUS

-----------------------------------------------------------------------------
(* The status of an answer. *)

IsCall(x) == x = [pc |-> x.pc, live |-> x.live, key |-> x.key, code |-> x.code, hint |-> x.hint, ctx |-> x.ctx,
                  frames |-> x.frames, use |-> x.use, seen |-> x.seen, worker |-> x.worker]
IsCalls(c) == c = [q \in Requests |-> c[q]] /\ \A q \in Requests : IsCall(c[q])

\* From c to d one handler moves on: it is then at pc and has the status code.
Moved(c, d, r, pc, code) ==
    /\ IsCalls(d) /\ d[r].pc = pc /\ d[r].code = code
    /\ \A q \in Requests : q # r => d[q] = c[q]

LEMMA CallPut ==
    ASSUME NEW c, IsCalls(c), NEW r \in Requests, NEW y, IsCall(y)
    PROVE  Moved(c, [c EXCEPT ![r] = y], r, y.pc, y.code)
<1> DEFINE d == [c EXCEPT ![r] = y]
<1>1. d = [q \in Requests |-> d[q]] /\ d[r] = y /\ \A q \in Requests : q # r => d[q] = c[q]
  BY Zenon DEF IsCalls
<1> HIDE DEF d
<1>2. \A q \in Requests : IsCall(d[q])
  BY <1>1, Zenon DEF IsCalls
<1>3. Moved(c, d, r, y.pc, y.code)
  BY <1>1, <1>2, Zenon DEF Moved, IsCalls
<1> QED BY <1>3, Zenon DEF d

\* What setting a field of a call leaves of it.
LEMMA CallsField ==
    ASSUME NEW c, IsCalls(c), NEW r \in Requests, NEW v
    PROVE  /\ Moved(c, [c EXCEPT ![r].pc = v], r, v, c[r].code)
           /\ Moved(c, [c EXCEPT ![r].code = v], r, c[r].pc, v)
           /\ Moved(c, [c EXCEPT ![r].live = v], r, c[r].pc, c[r].code)
           /\ Moved(c, [c EXCEPT ![r].key = v], r, c[r].pc, c[r].code)
           /\ Moved(c, [c EXCEPT ![r].hint = v], r, c[r].pc, c[r].code)
           /\ Moved(c, [c EXCEPT ![r].ctx = v], r, c[r].pc, c[r].code)
           /\ Moved(c, [c EXCEPT ![r].frames = v], r, c[r].pc, c[r].code)
           /\ Moved(c, [c EXCEPT ![r].use = v], r, c[r].pc, c[r].code)
           /\ Moved(c, [c EXCEPT ![r].seen = v], r, c[r].pc, c[r].code)
           /\ Moved(c, [c EXCEPT ![r].worker = v], r, c[r].pc, c[r].code)
<1>0. IsCall(c[r]) /\ DOMAIN c = Requests
  BY Zenon DEF IsCalls
<1>1. Moved(c, [c EXCEPT ![r].pc = v], r, v, c[r].code)
  <2> DEFINE y == [c[r] EXCEPT !.pc = v]
  <2>1. IsCall(y) /\ y.pc = v /\ y.code = c[r].code
    BY <1>0 DEF IsCall
  <2>2. [c EXCEPT ![r].pc = v] = [c EXCEPT ![r] = y]
    BY <1>0, Zenon
  <2> HIDE DEF y
  <2>3. Moved(c, [c EXCEPT ![r] = y], r, y.pc, y.code)
    BY <2>1, CallPut, Zenon
  <2> QED BY <2>1, <2>2, <2>3, Zenon
<1>2. Moved(c, [c EXCEPT ![r].code = v], r, c[r].pc, v)
  <2> DEFINE y == [c[r] EXCEPT !.code = v]
  <2>1. IsCall(y) /\ y.pc = c[r].pc /\ y.code = v
    BY <1>0 DEF IsCall
  <2>2. [c EXCEPT ![r].code = v] = [c EXCEPT ![r] = y]
    BY <1>0, Zenon
  <2> HIDE DEF y
  <2>3. Moved(c, [c EXCEPT ![r] = y], r, y.pc, y.code)
    BY <2>1, CallPut, Zenon
  <2> QED BY <2>1, <2>2, <2>3, Zenon
<1>3. Moved(c, [c EXCEPT ![r].live = v], r, c[r].pc, c[r].code)
  <2> DEFINE y == [c[r] EXCEPT !.live = v]
  <2>1. IsCall(y) /\ y.pc = c[r].pc /\ y.code = c[r].code
    BY <1>0 DEF IsCall
  <2>2. [c EXCEPT ![r].live = v] = [c EXCEPT ![r] = y]
    BY <1>0, Zenon
  <2> HIDE DEF y
  <2>3. Moved(c, [c EXCEPT ![r] = y], r, y.pc, y.code)
    BY <2>1, CallPut, Zenon
  <2> QED BY <2>1, <2>2, <2>3, Zenon
<1>4. Moved(c, [c EXCEPT ![r].key = v], r, c[r].pc, c[r].code)
  <2> DEFINE y == [c[r] EXCEPT !.key = v]
  <2>1. IsCall(y) /\ y.pc = c[r].pc /\ y.code = c[r].code
    BY <1>0 DEF IsCall
  <2>2. [c EXCEPT ![r].key = v] = [c EXCEPT ![r] = y]
    BY <1>0, Zenon
  <2> HIDE DEF y
  <2>3. Moved(c, [c EXCEPT ![r] = y], r, y.pc, y.code)
    BY <2>1, CallPut
  <2> QED BY <2>1, <2>2, <2>3, Zenon
<1>5. Moved(c, [c EXCEPT ![r].hint = v], r, c[r].pc, c[r].code)
  <2> DEFINE y == [c[r] EXCEPT !.hint = v]
  <2>1. IsCall(y) /\ y.pc = c[r].pc /\ y.code = c[r].code
    BY <1>0 DEF IsCall
  <2>2. [c EXCEPT ![r].hint = v] = [c EXCEPT ![r] = y]
    BY <1>0, Zenon
  <2> HIDE DEF y
  <2>3. Moved(c, [c EXCEPT ![r] = y], r, y.pc, y.code)
    BY <2>1, CallPut
  <2> QED BY <2>1, <2>2, <2>3, Zenon
<1>6. Moved(c, [c EXCEPT ![r].ctx = v], r, c[r].pc, c[r].code)
  <2> DEFINE y == [c[r] EXCEPT !.ctx = v]
  <2>1. IsCall(y) /\ y.pc = c[r].pc /\ y.code = c[r].code
    BY <1>0 DEF IsCall
  <2>2. [c EXCEPT ![r].ctx = v] = [c EXCEPT ![r] = y]
    BY <1>0, Zenon
  <2> HIDE DEF y
  <2>3. Moved(c, [c EXCEPT ![r] = y], r, y.pc, y.code)
    BY <2>1, CallPut
  <2> QED BY <2>1, <2>2, <2>3, Zenon
<1>7. Moved(c, [c EXCEPT ![r].frames = v], r, c[r].pc, c[r].code)
  <2> DEFINE y == [c[r] EXCEPT !.frames = v]
  <2>1. IsCall(y) /\ y.pc = c[r].pc /\ y.code = c[r].code
    BY <1>0 DEF IsCall
  <2>2. [c EXCEPT ![r].frames = v] = [c EXCEPT ![r] = y]
    BY <1>0, Zenon
  <2> HIDE DEF y
  <2>3. Moved(c, [c EXCEPT ![r] = y], r, y.pc, y.code)
    BY <2>1, CallPut
  <2> QED BY <2>1, <2>2, <2>3, Zenon
<1>8. Moved(c, [c EXCEPT ![r].use = v], r, c[r].pc, c[r].code)
  <2> DEFINE y == [c[r] EXCEPT !.use = v]
  <2>1. IsCall(y) /\ y.pc = c[r].pc /\ y.code = c[r].code
    BY <1>0 DEF IsCall
  <2>2. [c EXCEPT ![r].use = v] = [c EXCEPT ![r] = y]
    BY <1>0, Zenon
  <2> HIDE DEF y
  <2>3. Moved(c, [c EXCEPT ![r] = y], r, y.pc, y.code)
    BY <2>1, CallPut
  <2> QED BY <2>1, <2>2, <2>3, Zenon
<1>9. Moved(c, [c EXCEPT ![r].seen = v], r, c[r].pc, c[r].code)
  <2> DEFINE y == [c[r] EXCEPT !.seen = v]
  <2>1. IsCall(y) /\ y.pc = c[r].pc /\ y.code = c[r].code
    BY <1>0 DEF IsCall
  <2>2. [c EXCEPT ![r].seen = v] = [c EXCEPT ![r] = y]
    BY <1>0, Zenon
  <2> HIDE DEF y
  <2>3. Moved(c, [c EXCEPT ![r] = y], r, y.pc, y.code)
    BY <2>1, CallPut
  <2> QED BY <2>1, <2>2, <2>3, Zenon
<1>10. Moved(c, [c EXCEPT ![r].worker = v], r, c[r].pc, c[r].code)
  <2> DEFINE y == [c[r] EXCEPT !.worker = v]
  <2>1. IsCall(y) /\ y.pc = c[r].pc /\ y.code = c[r].code
    BY <1>0 DEF IsCall
  <2>2. [c EXCEPT ![r].worker = v] = [c EXCEPT ![r] = y]
    BY <1>0, Zenon
  <2> HIDE DEF y
  <2>3. Moved(c, [c EXCEPT ![r] = y], r, y.pc, y.code)
    BY <2>1, CallPut
  <2> QED BY <2>1, <2>2, <2>3, Zenon
<1> QED BY <1>1, <1>2, <1>3, <1>4, <1>5, <1>6, <1>7, <1>8, <1>9, <1>10, Zenon

LEMMA MovedTwice ==
    ASSUME NEW c, NEW d, NEW e, NEW r \in Requests, NEW pc, NEW code, NEW pc2, NEW code2,
           Moved(c, d, r, pc, code), Moved(d, e, r, pc2, code2)
    PROVE  Moved(c, e, r, pc2, code2)
  BY Zenon DEF Moved

Pcs == Busy \cup {"new", "out", "gone"}

\* Where a handler is once its status has been written.
Late == {"open", "drain", "ended", "out", "gone"}

\* Only a handler that has begun its answer has a status.
CallOK ==
    /\ IsCalls(call)
    /\ \A q \in Requests :
         /\ call[q].pc \in Pcs /\ call[q].code \in Codes \cup {0}
         /\ call[q].code # 0 => call[q].pc \in Late

StatusKept == \A q \in Requests : call[q].code # 0 => call'[q].code = call[q].code

\* A handler goes on without an answer, or along the one it has begun.
LEMMA CallGoes ==
    ASSUME CallOK, NEW r \in Requests, NEW pc \in Pcs, Moved(call, call', r, pc, call[r].code),
           call[r].pc \notin Late \/ pc \in Late
    PROVE  CallOK' /\ StatusKept
<1>1. call[r].code \in Codes \cup {0} /\ (call[r].code # 0 => pc \in Late)
  BY Zenon DEF CallOK
<1>2. ASSUME NEW q \in Requests
      PROVE  /\ call'[q].pc \in Pcs /\ call'[q].code \in Codes \cup {0}
             /\ call'[q].code # 0 => call'[q].pc \in Late
             /\ call'[q].code = call[q].code
  <2>1. CASE q = r
    BY <1>1, <2>1, Zenon DEF Moved
  <2>2. CASE q # r
    BY <2>2, Zenon DEF Moved, CallOK
  <2> QED BY <2>1, <2>2, Zenon
<1> QED BY <1>2, Zenon DEF CallOK, StatusKept, Moved

\* The answer of a handler that has not begun one.
LEMMA CallAnswers ==
    ASSUME CallOK, NEW r \in Requests, NEW pc \in {"out", "open"}, NEW code \in Codes,
           Moved(call, call', r, pc, code), call[r].pc \notin Late \/ call[r].code = 0
    PROVE  CallOK' /\ StatusKept
<1>1. call[r].code = 0 /\ pc \in Pcs /\ pc \in Late
  BY Zenon DEF CallOK, Pcs, Busy, Late
<1>2. ASSUME NEW q \in Requests
      PROVE  /\ call'[q].pc \in Pcs /\ call'[q].code \in Codes \cup {0}
             /\ call'[q].code # 0 => call'[q].pc \in Late
             /\ call[q].code # 0 => call'[q].code = call[q].code
  <2>1. CASE q = r
    <3>1. call'[q].pc = pc /\ call'[q].code = code /\ code \in Codes \cup {0}
      BY <2>1, Zenon DEF Moved
    <3> QED BY <1>1, <2>1, <3>1, Zenon
  <2>2. CASE q # r
    BY <2>2, Zenon DEF Moved, CallOK
  <2> QED BY <2>1, <2>2, Zenon
<1> QED BY <1>2, Zenon DEF CallOK, StatusKept, Moved

LEMMA GoMoves ==
    ASSUME CallOK, NEW r \in Requests, NEW pc
    PROVE  Moved(call, Go(r, pc), r, pc, call[r].code)
  BY CallsField, Zenon DEF CallOK, Go

LEMMA AnsweredMoves ==
    ASSUME CallOK, NEW r \in Requests, NEW code
    PROVE  Moved(call, Answered(r, code), r, "out", code)
<1> DEFINE c == [call EXCEPT ![r].pc = "out"]
           d == [c EXCEPT ![r].code = code]
<1>1. Answered(r, code) = d
  BY Zenon DEF Answered, CallOK, IsCalls, IsCall
<1>2. Moved(call, c, r, "out", call[r].code)
  BY CallsField, Zenon DEF CallOK
<1> HIDE DEF c
<1>3. IsCalls(c) /\ c[r].pc = "out"
  BY <1>2, Zenon DEF Moved
<1>4. Moved(c, d, r, c[r].pc, code)
  BY <1>3, CallsField, Zenon
<1> HIDE DEF d
<1>5. Moved(call, d, r, "out", code)
  BY <1>2, <1>3, <1>4, MovedTwice, SMTT(30)
<1> QED BY <1>1, <1>5, Zenon

LEMMA CallErrs ==
    ASSUME CallOK, NEW r \in Requests, NEW code \in Codes, writeError(r, code), call[r].pc \notin Late
    PROVE  CallOK' /\ StatusKept
<1>1. Moved(call, call', r, "out", code)
  BY AnsweredMoves, Zenon DEF writeError
<1> QED BY <1>1, CallAnswers, Zenon

LEMMA CallJumps ==
    ASSUME CallOK, NEW r \in Requests, NEW pc \in Pcs, call' = Go(r, pc), call[r].pc \notin Late \/ pc \in Late
    PROVE  CallOK' /\ StatusKept
  BY GoMoves, CallGoes, Zenon

\* A field besides is set.
LEMMA MovedAnd ==
    ASSUME NEW d, NEW r \in Requests, NEW pc, NEW code, Moved(call, d, r, pc, code), NEW v
    PROVE  /\ Moved(call, [d EXCEPT ![r].key = v], r, pc, code)
           /\ Moved(call, [d EXCEPT ![r].hint = v], r, pc, code)
           /\ Moved(call, [d EXCEPT ![r].ctx = v], r, pc, code)
           /\ Moved(call, [d EXCEPT ![r].frames = v], r, pc, code)
           /\ Moved(call, [d EXCEPT ![r].use = v], r, pc, code)
           /\ Moved(call, [d EXCEPT ![r].seen = v], r, pc, code)
           /\ Moved(call, [d EXCEPT ![r].worker = v], r, pc, code)
<1>1. IsCalls(d) /\ d[r].pc = pc /\ d[r].code = code
  BY Zenon DEF Moved
<1>2. /\ Moved(d, [d EXCEPT ![r].key = v], r, pc, code)
      /\ Moved(d, [d EXCEPT ![r].hint = v], r, pc, code)
      /\ Moved(d, [d EXCEPT ![r].ctx = v], r, pc, code)
      /\ Moved(d, [d EXCEPT ![r].frames = v], r, pc, code)
      /\ Moved(d, [d EXCEPT ![r].use = v], r, pc, code)
      /\ Moved(d, [d EXCEPT ![r].seen = v], r, pc, code)
      /\ Moved(d, [d EXCEPT ![r].worker = v], r, pc, code)
  BY <1>1, CallsField, Zenon
<1> QED BY <1>2, MovedTwice, SMTT(30)

LEMMA AnsweredAnd ==
    ASSUME CallOK, NEW r \in Requests, NEW code, NEW v
    PROVE  /\ Moved(call, [Answered(r, code) EXCEPT ![r].hint = v], r, "out", code)
           /\ Moved(call, [Answered(r, code) EXCEPT ![r].use = v], r, "out", code)
           /\ Moved(call, [Answered(r, code) EXCEPT ![r].seen = v], r, "out", code)
<1> DEFINE d == Answered(r, code)
<1>1. Moved(call, d, r, "out", code)
  BY AnsweredMoves, Zenon
<1> HIDE DEF d
<1>2. /\ Moved(call, [d EXCEPT ![r].hint = v], r, "out", code)
      /\ Moved(call, [d EXCEPT ![r].use = v], r, "out", code)
      /\ Moved(call, [d EXCEPT ![r].seen = v], r, "out", code)
  BY <1>1, MovedAnd, Zenon
<1> QED BY <1>2, Zenon DEF d

LEMMA Places ==
    /\ {"new", "limit", "handle", "history", "read", "submit", "deny", "work", "persist", "delete", "unload"}
         \cap Late = {}
    /\ {"limit", "handle", "history", "read", "submit", "deny", "work", "persist", "delete", "unload"} \subseteq Pcs
    /\ {"open", "drain", "ended", "out", "gone"} \subseteq Pcs \cap Late
    /\ {200, 201, 204, 400, 401, 403, 404, 405, 409, 429, 500, 503} \subseteq Codes
  BY DEF Late, Pcs, Busy, Codes

\* The middleware.
LEMMA CallMiddleware ==
    ASSUME CallOK, NEW r \in Requests,
           authMiddleware(r) \/ rateLimitMiddleware(r) \/ metricsMiddleware(r) \/ recoverMiddleware(r)
    PROVE  CallOK' /\ StatusKept
<1>1. CASE authMiddleware(r)
  <2>1. call[r].pc \notin Late
    BY <1>1, Places, SMTT(30) DEF authMiddleware, At
  <2>2. CASE writeError(r, 401) \/ writeError(r, 500)
    BY <2>1, <2>2, Places, CallErrs, SMTT(30)
  <2>3. ASSUME NEW pc \in {"limit", "handle"}, NEW key, call' = [call EXCEPT ![r].pc = pc, ![r].key = key]
        PROVE  CallOK' /\ StatusKept
    <3>1. call' = [Go(r, pc) EXCEPT ![r].key = key]
      BY <2>3, Zenon DEF Go, CallOK, IsCalls, IsCall
    <3>2. Moved(call, call', r, pc, call[r].code)
      BY <3>1, GoMoves, MovedAnd, Zenon
    <3>3. pc \in Pcs
      BY Places
    <3> QED BY <2>1, <3>2, <3>3, CallGoes, Zenon
  <2>4. \/ writeError(r, 401) \/ writeError(r, 500)
        \/ call' = [call EXCEPT ![r].pc = IF Ask(r).route \in {"chat", "completions"} THEN "limit" ELSE "handle",
                                ![r].key = [id |-> Ask(r).key, models |-> hub.keys[Ask(r).key].models]]
    BY <1>1, Zenon DEF authMiddleware
  <2>5. (IF Ask(r).route \in {"chat", "completions"} THEN "limit" ELSE "handle") \in {"limit", "handle"}
    BY Zenon
  <2> QED BY <2>2, <2>3, <2>4, <2>5, ZenonT(40)
<1>2. CASE rateLimitMiddleware(r)
  <2> DEFINE k == 429
  <2>1. call[r].pc \notin Late
    BY <1>2, Places, SMTT(30) DEF rateLimitMiddleware, At
  <2>2. CASE call' = Go(r, "handle")
    BY <2>1, <2>2, Places, CallJumps, SMTT(30)
  <2>3. CASE call' = [Answered(r, k) EXCEPT ![r].hint = TRUE]
    <3>1. k \in Codes
      BY Places
    <3> HIDE DEF k
    <3>2. PICK h : call' = [Answered(r, k) EXCEPT ![r].hint = h]
      BY <2>3, Zenon
    <3>3. Moved(call, call', r, "out", k)
      BY <3>2, AnsweredAnd, Zenon
    <3> QED BY <2>1, <3>1, <3>3, CallAnswers, Zenon
  <2>4. CASE writeError(r, 500)
    BY <2>1, <2>4, Places, CallErrs, SMTT(30)
  <2> QED BY <1>2, <2>2, <2>3, <2>4, ZenonT(40) DEF rateLimitMiddleware
<1>3. CASE metricsMiddleware(r)
  BY <1>3, Places, CallJumps, SMTT(30) DEF metricsMiddleware
<1>4. CASE recoverMiddleware(r)
  <2>1. CASE call[r].code = 0
    <3>1. Moved(call, call', r, "out", 500)
      BY <1>4, <2>1, AnsweredMoves, SMTT(30) DEF recoverMiddleware
    <3> QED BY <2>1, <3>1, Places, CallAnswers, SMTT(30)
  <2>2. CASE call[r].code # 0
    <3>1. Moved(call, call', r, "out", call[r].code)
      BY <1>4, <2>2, AnsweredMoves, Zenon DEF recoverMiddleware
    <3>2. "out" \in Pcs /\ "out" \in Late
      BY Places
    <3> QED BY <3>1, <3>2, CallGoes, Zenon
  <2> QED BY <2>1, <2>2, Zenon
<1> QED BY <1>1, <1>2, <1>3, <1>4, Zenon

LEMMA CallAnswersAnd ==
    ASSUME CallOK, NEW r \in Requests, call[r].pc \notin Late, NEW code \in Codes, NEW v,
           \/ call' = [Answered(r, code) EXCEPT ![r].hint = v]
           \/ call' = [Answered(r, code) EXCEPT ![r].use = v]
           \/ call' = [Answered(r, code) EXCEPT ![r].seen = v]
    PROVE  CallOK' /\ StatusKept
<1>1. Moved(call, call', r, "out", code)
  <2>1. CASE call' = [Answered(r, code) EXCEPT ![r].hint = v]
    BY <2>1, AnsweredAnd, Zenon
  <2>2. CASE call' = [Answered(r, code) EXCEPT ![r].use = v]
    BY <2>2, AnsweredAnd, Zenon
  <2>3. CASE call' = [Answered(r, code) EXCEPT ![r].seen = v]
    BY <2>3, AnsweredAnd, Zenon
  <2> QED BY <2>1, <2>2, <2>3, Zenon
<1> QED BY <1>1, CallAnswers, Zenon

LEMMA DecodeCodes == ASSUME NEW ask, decodePost(ask) # 0 PROVE decodePost(ask) \in Codes
  BY DEF decodePost, Codes

\* The inference endpoints, up to the dispatcher.
LEMMA CallHandles ==
    ASSUME CallOK, NEW r \in Requests,
           handleChatCompletions(r) \/ History(r) \/ handleCompletions(r)
    PROVE  CallOK' /\ StatusKept
<1>1. call[r].pc \notin Late
  BY Places DEF handleChatCompletions, History, handleCompletions, At
<1>2. ASSUME NEW code \in Codes, writeError(r, code) PROVE CallOK' /\ StatusKept
  BY <1>1, <1>2, CallErrs, Zenon
<1>3. ASSUME NEW pc \in {"submit", "history"}, call' = Go(r, pc) PROVE CallOK' /\ StatusKept
  BY <1>1, <1>3, Places, CallJumps, SMTT(30)
<1>4. 404 \in Codes /\ 409 \in Codes
  BY Places
<1>5. CASE handleChatCompletions(r)
  <2>1. \/ decodePost(Ask(r)) # 0 /\ writeError(r, decodePost(Ask(r)))
        \/ \E code \in {404, 409} : writeError(r, code)
        \/ \E pc \in {"submit", "history"} : call' = Go(r, pc)
    BY <1>5 DEF handleChatCompletions
  <2> QED BY <1>2, <1>3, <1>4, <2>1, DecodeCodes, SMTT(30)
<1>6. CASE History(r)
  <2>1. CASE call' = [call EXCEPT ![r].pc = "submit", ![r].ctx = Visible(Ask(r).session)]
    <3>1. PICK v : call' = [Go(r, "submit") EXCEPT ![r].ctx = v]
      BY <2>1, Zenon DEF Go, CallOK, IsCalls, IsCall
    <3>2. Moved(call, call', r, "submit", call[r].code)
      BY <3>1, GoMoves, MovedAnd, Zenon
    <3> QED BY <1>1, <3>2, Places, CallGoes, SMTT(30)
  <2> QED BY <1>2, <1>4, <1>6, <2>1, SMTT(30) DEF History
<1>7. CASE handleCompletions(r)
  <2>1. \/ decodePost(Ask(r)) # 0 /\ writeError(r, decodePost(Ask(r)))
        \/ \E pc \in {"submit", "history"} : call' = Go(r, pc)
    BY <1>7, Zenon DEF handleCompletions
  <2> QED BY <1>2, <1>3, <2>1, DecodeCodes, Zenon
<1> QED BY <1>5, <1>6, <1>7, Zenon

\* The dispatcher's answers.
LEMMA CallDispatches ==
    ASSUME CallOK, NEW r \in Requests,
           \/ Submit(r) \/ annotatePerKey429(r) \/ persistTurn(r) \/ Fail(r)
           \/ \E u \in Results : Finish(r, u)
           \/ \E n \in Nodes : Place(r, n)
    PROVE  CallOK' /\ StatusKept
<1>1. call[r].pc \notin Late
  <2>1. call[r].pc \in {"submit", "deny", "persist", "work"}
    BY ZenonT(40) DEF Submit, annotatePerKey429, persistTurn, Fail, Finish, Place, At
  <2> QED BY <2>1, Places
<1>2. ASSUME NEW code \in Codes, call' = Answered(r, code) PROVE CallOK' /\ StatusKept
  BY <1>1, <1>2, AnsweredMoves, CallAnswers, Zenon
<1>3. ASSUME NEW pc \in {"deny", "work", "persist"}, call' = Go(r, pc) PROVE CallOK' /\ StatusKept
  BY <1>1, <1>3, Places, CallJumps, SMTT(30)
<1>4. 200 \in Codes /\ 429 \in Codes /\ \A e \in {"invalid", "forbidden", "unavailable", "internal"} : statusForError[e] \in Codes
  BY Places, SMTT(30) DEF statusForError
<1>5. CASE Submit(r)
  <2>1. CASE call' = beginSSE(r)
    <3> DEFINE k == 200
    <3>1. k \in Codes
      BY Places
    <3>2. call' = [call EXCEPT ![r].pc = "open", ![r].code = k, ![r].frames = "open"]
      BY <2>1, Zenon DEF beginSSE
    <3> HIDE DEF k
    <3> DEFINE c == Go(r, "open")
               d == [c EXCEPT ![r].code = k]
    <3>3. call' = [d EXCEPT ![r].frames = "open"]
      BY <3>2, Zenon DEF Go, CallOK, IsCalls, IsCall
    <3>4. Moved(call, c, r, "open", call[r].code)
      BY GoMoves, Zenon
    <3> HIDE DEF c
    <3>5. IsCalls(c) /\ c[r].pc = "open"
      BY <3>4, Zenon DEF Moved
    <3>6. Moved(c, d, r, "open", k)
      BY <3>5, CallsField, Zenon
    <3> HIDE DEF d
    <3>7. Moved(call, d, r, "open", k)
      BY <3>4, <3>6, MovedTwice, SMTT(30)
    <3>8. Moved(call, call', r, "open", k)
      BY <3>3, <3>7, MovedAnd, Zenon
    <3> QED BY <1>1, <3>1, <3>8, CallAnswers, Zenon
  <2>2. \/ \E e \in {"invalid", "forbidden", "unavailable", "internal"} : call' = Answered(r, statusForError[e])
        \/ \E pc \in {"deny", "work", "persist"} : call' = Go(r, pc)
        \/ call' = beginSSE(r)
    BY <1>5, Zenon DEF Submit, writeError
  <2> QED BY <1>2, <1>3, <1>4, <2>1, <2>2, SMTT(30)
<1>6. CASE annotatePerKey429(r)
  <2> DEFINE k == 429
  <2>1. k \in Codes
    BY <1>4, Zenon
  <2> DEFINE q == (hub.quota = 0)
  <2>2. call' = [Answered(r, k) EXCEPT ![r].hint = q]
    BY <1>6, Zenon DEF annotatePerKey429
  <2> HIDE DEF k, q
  <2> QED BY <1>1, <2>1, <2>2, CallAnswersAnd, Zenon
<1>7. CASE persistTurn(r)
  BY <1>2, <1>4, <1>7, SMTT(30) DEF persistTurn
<1>8. CASE Fail(r)
  BY <1>2, <1>4, <1>8 DEF Fail, writeError
<1>9. ASSUME NEW u \in Results, Finish(r, u) PROVE CallOK' /\ StatusKept
  <2> DEFINE k == 200
  <2>1. CASE call' = [Go(r, "persist") EXCEPT ![r].use = u]
    <3>1. Moved(call, call', r, "persist", call[r].code)
      BY <2>1, GoMoves, MovedAnd, Zenon
    <3> QED BY <1>1, <3>1, Places, CallGoes, SMTT(30)
  <2>2. CASE call' = [Answered(r, k) EXCEPT ![r].use = u]
    <3>1. k \in Codes
      BY <1>4
    <3> HIDE DEF k
    <3> QED BY <1>1, <2>2, <3>1, CallAnswersAnd, Zenon
  <2> QED BY <1>9, <2>1, <2>2, Zenon DEF Finish
<1>10. ASSUME NEW n \in Nodes, Place(r, n) PROVE CallOK' /\ StatusKept
  <2>1. Moved(call, call', r, call[r].pc, call[r].code)
    BY <1>10, CallsField, Zenon DEF Place, CallOK
  <2>2. call[r].pc \in Pcs
    BY Zenon DEF CallOK
  <2> QED BY <1>1, <2>1, <2>2, CallGoes, Zenon
<1> QED BY <1>5, <1>6, <1>7, <1>8, <1>9, <1>10, ZenonT(40)

\* A stream has its status from the start, and keeps it whatever ends it.
LEMMA CallStreams ==
    ASSUME CallOK, NEW r \in Requests,
           \/ Closed(r) \/ Cancelled(r) \/ writeSSEDone(r) \/ streamEnd(r)
           \/ \E u : Chunk(r, u)
    PROVE  CallOK' /\ StatusKept
<1>1. ASSUME NEW pc \in {"drain", "ended", "out"}, Moved(call, call', r, pc, call[r].code)
      PROVE  CallOK' /\ StatusKept
  BY <1>1, Places, CallGoes, SMTT(30)
<1>2. ASSUME Closed(r) PROVE CallOK' /\ StatusKept
  BY <1>1, <1>2, GoMoves, Zenon DEF Closed
<1>3. CASE Cancelled(r)
  <2>1. CASE writeError(r, 500) /\ ~At(r, "open")
    <3>1. call[r].pc \notin Late
      BY <1>3, <2>1, Places, SMTT(30) DEF Cancelled, At
    <3> QED BY <2>1, <3>1, Places, CallErrs, SMTT(30)
  <2> QED BY <1>2, <1>3, <2>1, Zenon DEF Cancelled
<1>4. CASE writeSSEDone(r)
  <2>1. PICK v : call' = [Go(r, "ended") EXCEPT ![r].frames = v]
    BY <1>4, Zenon DEF writeSSEDone
  <2>2. Moved(call, call', r, "ended", call[r].code)
    BY <2>1, GoMoves, MovedAnd, Zenon
  <2> QED BY <1>1, <2>2, Zenon
<1>5. CASE streamEnd(r)
  BY <1>1, <1>5, GoMoves, Zenon DEF streamEnd
<1>6. ASSUME NEW u, Chunk(r, u) PROVE CallOK' /\ StatusKept
  <2> DEFINE c == Go(r, "drain")
             d == [c EXCEPT ![r].frames = writeSSEError(u)]
  <2>1. call' = [d EXCEPT ![r].use = u]
    BY <1>6, Zenon DEF Chunk, Go, CallOK, IsCalls, IsCall
  <2>2. Moved(call, c, r, "drain", call[r].code)
    BY GoMoves, Zenon
  <2> HIDE DEF c
  <2>3. Moved(call, d, r, "drain", call[r].code)
    BY <2>2, MovedAnd, Zenon
  <2> HIDE DEF d
  <2>4. Moved(call, call', r, "drain", call[r].code)
    BY <2>1, <2>3, MovedAnd, Zenon
  <2> QED BY <1>1, <2>4, Zenon
<1> QED BY <1>2, <1>3, <1>4, <1>5, <1>6, Zenon

\* The catalog and the session endpoints.
LEMMA CallLists ==
    ASSUME CallOK, NEW r \in Requests,
           \/ handleOpenAIModels(r) \/ handleModels(r) \/ handleOpenAIModelRetrieve(r)
           \/ handleCreateSession(r) \/ handleGetSession(r) \/ handleDeleteSession(r)
    PROVE  CallOK' /\ StatusKept
<1>1. call[r].pc \notin Late
  <2>1. call[r].pc \in {"handle", "read", "delete", "unload"}
    BY Zenon DEF handleOpenAIModels, handleModels, handleOpenAIModelRetrieve, handleCreateSession,
                 handleGetSession, handleDeleteSession, At
  <2> QED BY <2>1, Places, SMTT(30)
<1>2. ASSUME NEW code \in Codes, call' = Answered(r, code) PROVE CallOK' /\ StatusKept
  BY <1>1, <1>2, AnsweredMoves, CallAnswers, ZenonT(40)
<1>3. ASSUME NEW pc \in {"read", "delete", "unload"}, call' = Go(r, pc) PROVE CallOK' /\ StatusKept
  BY <1>1, <1>3, Places, CallJumps, SMTT(30)
<1>4. ASSUME NEW v, call' = [Answered(r, 200) EXCEPT ![r].seen = v] PROVE CallOK' /\ StatusKept
  <2> DEFINE k == 200
  <2>1. k \in Codes
    BY Places
  <2>2. call' = [Answered(r, k) EXCEPT ![r].seen = v]
    BY <1>4, Zenon
  <2> HIDE DEF k
  <2> QED BY <1>1, <2>1, <2>2, CallAnswersAnd, Zenon
<1>5. ASSUME List(r) PROVE CallOK' /\ StatusKept
  <2>1. 405 \in Codes
    BY Places, SMTT(30)
  <2> QED BY <1>2, <1>4, <1>5, <2>1, SMTT(30) DEF List, writeError
<1>6. CASE handleOpenAIModelRetrieve(r)
  <2>1. 404 \in Codes
    BY Places
  <2> QED BY <1>2, <1>4, <1>6, <2>1, SMTT(30) DEF handleOpenAIModelRetrieve, writeError
<1>7. CASE handleCreateSession(r)
  <2>1. \/ decodePost(Ask(r)) # 0 /\ call' = Answered(r, decodePost(Ask(r)))
        \/ \E code \in {201, 429, 500} : call' = Answered(r, code)
    BY <1>7 DEF handleCreateSession, writeError
  <2>2. {201, 429, 500} \subseteq Codes
    BY Places
  <2> QED BY <1>2, <2>1, <2>2, DecodeCodes, SMTT(30)
<1>8. CASE handleGetSession(r)
  <2>1. \/ \E code \in {200, 404} : call' = Answered(r, code)
        \/ call' = Go(r, "read")
    BY <1>8, ZenonT(40) DEF handleGetSession, writeError
  <2>2. {200, 404} \subseteq Codes
    BY Places
  <2> QED BY <1>2, <1>3, <2>1, <2>2, SMTT(30)
<1>9. CASE handleDeleteSession(r)
  <2>1. \/ \E code \in {204, 404} : call' = Answered(r, code)
        \/ call' = Go(r, "unload")
        \/ \E v : call' = [call EXCEPT ![r].pc = "delete", ![r].worker = v]
    BY <1>9, SMTT(30) DEF handleDeleteSession, writeError
  <2>2. ASSUME NEW v, call' = [call EXCEPT ![r].pc = "delete", ![r].worker = v]
        PROVE  CallOK' /\ StatusKept
    <3>1. call' = [Go(r, "delete") EXCEPT ![r].worker = v]
      BY <2>2, Zenon DEF Go, CallOK, IsCalls, IsCall
    <3>2. Moved(call, call', r, "delete", call[r].code)
      BY <3>1, GoMoves, MovedAnd, Zenon
    <3> QED BY <1>1, <3>2, Places, CallGoes, SMTT(30)
  <2>3. {204, 404} \subseteq Codes
    BY Places
  <2> QED BY <1>2, <1>3, <2>1, <2>2, <2>3
<1> QED BY <1>5, <1>6, <1>7, <1>8, <1>9, ZenonT(40) DEF handleOpenAIModels, handleModels

LEMMA CallLeaves == ASSUME CallOK, NEW r \in Requests, Disconnect(r) PROVE CallOK' /\ StatusKept
<1>1. PICK v : call' = [call EXCEPT ![r].live = v]
  BY Zenon DEF Disconnect
<1>2. Moved(call, call', r, call[r].pc, call[r].code)
  BY <1>1, CallsField, Zenon DEF CallOK
<1>3. ASSUME NEW q \in Requests
      PROVE  call'[q].pc = call[q].pc /\ call'[q].code = call[q].code
  BY <1>2, Zenon DEF Moved
<1> QED BY <1>2, <1>3, Zenon DEF CallOK, StatusKept, Moved

LEMMA GatewayStep ==
    ASSUME CallOK, DOMAIN plan.asks \subseteq Requests, GatewayNext \/ UNCHANGED gatewayVars
    PROVE  CallOK' /\ StatusKept
<1>1. ASSUME UNCHANGED call PROVE CallOK' /\ StatusKept
  BY <1>1, Zenon DEF CallOK, StatusKept
<1>2. ASSUME NEW r \in DOMAIN plan.asks,
             \/ Step(r) \/ recoverMiddleware(r) \/ Disconnect(r) \/ Fail(r) \/ Closed(r) \/ Chunk(r, None)
             \/ \E u \in Results : Finish(r, u) \/ Chunk(r, u)
             \/ \E n \in Nodes : Place(r, n)
      PROVE  CallOK' /\ StatusKept
  <2>1. r \in Requests
    BY Zenon
  <2>2. CASE authMiddleware(r) \/ rateLimitMiddleware(r) \/ metricsMiddleware(r) \/ recoverMiddleware(r)
    BY <2>1, <2>2, CallMiddleware, Zenon
  <2>3. CASE handleChatCompletions(r) \/ History(r) \/ handleCompletions(r)
    BY <2>1, <2>3, CallHandles, Zenon
  <2>4. CASE \/ Submit(r) \/ annotatePerKey429(r) \/ persistTurn(r) \/ Fail(r)
             \/ \E u \in Results : Finish(r, u)
             \/ \E n \in Nodes : Place(r, n)
    BY <2>1, <2>4, CallDispatches, Zenon
  <2>5. CASE \/ Closed(r) \/ Cancelled(r) \/ writeSSEDone(r) \/ streamEnd(r)
             \/ \E u : Chunk(r, u)
    BY <2>1, <2>5, CallStreams, Zenon
  <2>6. CASE \/ handleOpenAIModels(r) \/ handleModels(r) \/ handleOpenAIModelRetrieve(r)
             \/ handleCreateSession(r) \/ handleGetSession(r) \/ handleDeleteSession(r)
    BY <2>1, <2>6, CallLists, Zenon
  <2>7. CASE Disconnect(r)
    BY <2>1, <2>7, CallLeaves, Zenon
  <2> QED BY <1>2, <2>2, <2>3, <2>4, <2>5, <2>6, <2>7, ZenonT(40) DEF Step
<1>3. ASSUME \/ \E k \in DOMAIN hub.keys : \E grants \in plan.grants : Regrant(k, grants)
             \/ WindowRolls \/ (\E s \in Sids : Expire(s)) \/ (\E n \in Nodes : FleetChange(n))
      PROVE  UNCHANGED call
  BY <1>3, Zenon DEF Regrant, WindowRolls, Expire, FleetChange
<1>4. ASSUME UNCHANGED gatewayVars PROVE UNCHANGED call
  BY <1>4, Zenon DEF gatewayVars
<1> QED BY <1>1, <1>2, <1>3, <1>4, Zenon DEF GatewayNext

\* What clients ask for is fixed.
LEMMA PlanStays == GatewayNext => UNCHANGED plan
<1>1. ASSUME NEW r, Step(r) PROVE UNCHANGED plan
  BY <1>1, ZenonT(40) DEF Step, authMiddleware, rateLimitMiddleware, metricsMiddleware, handleChatCompletions, History,
     handleCompletions, Submit, annotatePerKey429, persistTurn, writeSSEDone, streamEnd, Cancelled, Closed,
     handleOpenAIModels, handleModels, handleOpenAIModelRetrieve, handleCreateSession, handleGetSession,
     handleDeleteSession, List, writeError
<1>2. ASSUME NEW r, NEW u, \/ recoverMiddleware(r) \/ Disconnect(r) \/ Fail(r) \/ Closed(r) \/ Chunk(r, u) \/ Finish(r, u)
      PROVE  UNCHANGED plan
  BY <1>2, Zenon DEF recoverMiddleware, Disconnect, Fail, Closed, Chunk, Finish, writeError
<1>3. ASSUME NEW k, NEW grants, NEW s, NEW n, NEW r,
             Regrant(k, grants) \/ WindowRolls \/ Expire(s) \/ FleetChange(n) \/ Place(r, n)
      PROVE  UNCHANGED plan
  BY <1>3, Zenon DEF Regrant, WindowRolls, Expire, FleetChange, Place
<1> QED BY <1>1, <1>2, <1>3, ZenonT(40) DEF GatewayNext

-----------------------------------------------------------------------------
(* The limits and the histories the handlers share *)

SessionOK(x, cap) ==
    /\ x = [state |-> x.state, owner |-> x.owner, log |-> x.log, from |-> x.from, worker |-> x.worker]
    /\ x.log \in Seq([by : Requests, role : {"user", "assistant"}])
    /\ x.from \in 0 .. Len(x.log) /\ Len(x.log) - x.from <= cap
SessionsOK(ss, cap) == ss = [s \in Sids |-> ss[s]] /\ \A s \in Sids : SessionOK(ss[s], cap)
IsHub(h) == h = [keys |-> h.keys, global |-> h.global, quota |-> h.quota, sessions |-> h.sessions, fleet |-> h.fleet,
                 jobs |-> h.jobs, unloads |-> h.unloads, throttled |-> h.throttled, codes |-> h.codes,
                 tokens |-> h.tokens]
HubOK ==
    /\ IsHub(hub) /\ hub.global \in 0 .. plan.global /\ hub.quota \in 0 .. plan.quota
    /\ SessionsOK(hub.sessions, plan.cap)

\* One session of the table changes.
LEMMA SessionPut ==
    ASSUME NEW ss, NEW cap, SessionsOK(ss, cap), NEW s \in Sids, NEW y, SessionOK(y, cap)
    PROVE  SessionsOK([ss EXCEPT ![s] = y], cap)
<1> DEFINE d == [ss EXCEPT ![s] = y]
<1>1. d = [q \in Sids |-> d[q]] /\ d[s] = y /\ \A q \in Sids : q # s => d[q] = ss[q]
  BY Zenon DEF SessionsOK
<1> HIDE DEF d
<1>2. \A q \in Sids : SessionOK(d[q], cap)
  BY <1>1, Zenon DEF SessionsOK
<1>3. SessionsOK(d, cap)
  BY <1>1, <1>2, Zenon DEF SessionsOK
<1> QED BY <1>3, Zenon DEF d

\* Its state, its worker or its owner; a session that is not there changes nothing.
LEMMA SessionField ==
    ASSUME NEW ss, NEW cap, SessionsOK(ss, cap), NEW s, NEW v
    PROVE  /\ SessionsOK([ss EXCEPT ![s].state = v], cap)
           /\ SessionsOK([ss EXCEPT ![s].worker = v], cap)
<1>0. DOMAIN ss = Sids
  BY Zenon DEF SessionsOK
<1>1. CASE s \in Sids
  <2>0. SessionOK(ss[s], cap)
    BY <1>1, Zenon DEF SessionsOK
  <2>1. SessionOK([ss[s] EXCEPT !.state = v], cap) /\ SessionOK([ss[s] EXCEPT !.worker = v], cap)
    BY <2>0 DEF SessionOK
  <2>2. /\ SessionsOK([ss EXCEPT ![s] = [ss[s] EXCEPT !.state = v]], cap)
        /\ SessionsOK([ss EXCEPT ![s] = [ss[s] EXCEPT !.worker = v]], cap)
    BY <1>1, <2>1, SessionPut, Zenon
  <2>3. /\ [ss EXCEPT ![s].state = v] = [ss EXCEPT ![s] = [ss[s] EXCEPT !.state = v]]
        /\ [ss EXCEPT ![s].worker = v] = [ss EXCEPT ![s] = [ss[s] EXCEPT !.worker = v]]
    BY <1>0, <1>1, Zenon
  <2> QED BY <2>2, <2>3, Zenon
<1>2. CASE s \notin Sids
  <2>1. [ss EXCEPT ![s].state = v] = ss /\ [ss EXCEPT ![s].worker = v] = ss
    BY <1>0, <1>2, Zenon DEF SessionsOK
  <2> QED BY <2>1, Zenon
<1> QED BY <1>1, <1>2, Zenon

\* A history is written whole.
LEMMA HistoryPut ==
    ASSUME NEW x, x = [state |-> x.state, owner |-> x.owner, log |-> x.log, from |-> x.from, worker |-> x.worker],
           NEW log, NEW from, NEW y, y = [x EXCEPT !.log = log, !.from = from]
    PROVE  /\ y.log = log /\ y.from = from
           /\ y = [state |-> y.state, owner |-> y.owner, log |-> y.log, from |-> y.from, worker |-> y.worker]
  BY Zenon

\* A turn is stored: the history stays within its cap.
LEMMA TurnsFit ==
    ASSUME HubOK, plan.cap \in Nat, NEW r \in Requests, NEW s
    PROVE  SessionsOK(AppendTurns(r, s), plan.cap)
<1> DEFINE ss == hub.sessions  x == ss[s]  log == x.log \o Turn(r)
           from == IF Len(log) - x.from > plan.cap THEN Len(log) - plan.cap ELSE x.from
<1>0. SessionsOK(ss, plan.cap) /\ DOMAIN ss = Sids
  BY Zenon DEF HubOK, SessionsOK
<1>1. AppendTurns(r, s) = ss \/ AppendTurns(r, s) = [ss EXCEPT ![s].log = log, ![s].from = from]
  BY <1>0, Zenon DEF AppendTurns
<1>2. CASE s \in Sids
  <2>1. SessionOK(x, plan.cap)
    BY <1>0, <1>2, Zenon DEF SessionsOK
  <2>2. Turn(r) \in Seq([by : Requests, role : {"user", "assistant"}]) /\ Len(Turn(r)) = 2
    BY DEF Turn
  <2>3. log \in Seq([by : Requests, role : {"user", "assistant"}]) /\ Len(log) = Len(x.log) + 2
    <3>1. x.log \in Seq([by : Requests, role : {"user", "assistant"}])
      BY <2>1, Zenon DEF SessionOK
    <3> DEFINE old == x.log  turn == Turn(r)  M == [by : Requests, role : {"user", "assistant"}]
    <3>2. old \in Seq(M) /\ turn \in Seq(M) /\ Len(turn) = 2
      BY <2>2, <3>1, Zenon
    <3> HIDE DEF old, turn, M, x
    <3>3. old \o turn \in Seq(M) /\ Len(old \o turn) = Len(old) + Len(turn)
      BY <3>2, SeqConcat, Zenon
    <3>4. Len(old \o turn) = Len(old) + 2
      BY <3>2, <3>3, Zenon
    <3> QED BY <3>3, <3>4, Zenon DEF old, turn, M
  <2> HIDE DEF x, log
  <2>4. from \in 0 .. Len(log) /\ Len(log) - from <= plan.cap
    BY <2>1, <2>3 DEF SessionOK
  <2> HIDE DEF from
  <2> DEFINE y == [x EXCEPT !.log = log, !.from = from]
  <2>5. SessionOK(y, plan.cap)
    <3>0. x = [state |-> x.state, owner |-> x.owner, log |-> x.log, from |-> x.from, worker |-> x.worker]
      BY <2>1, Zenon DEF SessionOK
    <3>1. y = [x EXCEPT !.log = log, !.from = from]
      BY Zenon
    <3> HIDE DEF y
    <3>2. y.log = log /\ y.from = from /\ y = [state |-> y.state, owner |-> y.owner, log |-> y.log,
                                                from |-> y.from, worker |-> y.worker]
      BY <3>0, <3>1, HistoryPut, Zenon
    <3> QED BY <2>3, <2>4, <3>2, Zenon DEF SessionOK
  <2>6. [ss EXCEPT ![s].log = log, ![s].from = from] = [ss EXCEPT ![s] = y]
    BY <1>0, <1>2, Zenon DEF x
  <2> HIDE DEF y
  <2>7. SessionsOK([ss EXCEPT ![s] = y], plan.cap)
    BY <1>0, <1>2, <2>5, SessionPut, ZenonT(40)
  <2> QED BY <1>0, <1>1, <2>6, <2>7, Zenon
<1>3. CASE s \notin Sids
  <2> HIDE DEF log, from
  <2>1. [ss EXCEPT ![s].log = log, ![s].from = from] = ss
    BY <1>0, <1>3, Zenon DEF SessionsOK
  <2> QED BY <1>0, <1>1, <2>1, Zenon
<1> QED BY <1>2, <1>3, Zenon

\* A step may take one from a limit, or refill both, and keeps the histories.
LEMMA HubGoes ==
    ASSUME HubOK, UNCHANGED plan, plan.global \in Nat, plan.quota \in Nat, IsHub(hub'),
           \/ hub'.global = hub.global \/ hub'.global = plan.global
           \/ hub.global > 0 /\ hub'.global = hub.global - 1,
           \/ hub'.quota = hub.quota \/ hub'.quota = plan.quota
           \/ hub.quota > 0 /\ hub'.quota = hub.quota - 1,
           SessionsOK(hub'.sessions, plan.cap)
    PROVE  HubOK'
<1>1. hub'.global \in 0 .. plan.global /\ hub'.quota \in 0 .. plan.quota
  BY DEF HubOK
<1> QED BY <1>1, Zenon DEF HubOK

\* What is counted or recorded apart from the limits and the histories.
LEMMA HubNotes ==
    ASSUME HubOK, UNCHANGED plan, plan.global \in Nat, plan.quota \in Nat, NEW v,
           \/ hub' = [hub EXCEPT !.keys = v] \/ hub' = [hub EXCEPT !.fleet = v] \/ hub' = [hub EXCEPT !.throttled = v]
           \/ hub' = [hub EXCEPT !.codes = v] \/ hub' = [hub EXCEPT !.tokens = v] \/ hub' = [hub EXCEPT !.unloads = v]
    PROVE  HubOK'
<1>1. IsHub(hub)
  BY Zenon DEF HubOK
<1>2. IsHub(hub') /\ hub'.global = hub.global /\ hub'.quota = hub.quota /\ hub'.sessions = hub.sessions
  BY <1>1, Zenon DEF IsHub
<1>3. SessionsOK(hub'.sessions, plan.cap)
  BY <1>2, Zenon DEF HubOK
<1> QED BY <1>2, <1>3, HubGoes, Zenon

LEMMA HubSessions ==
    ASSUME HubOK, UNCHANGED plan, plan.global \in Nat, plan.quota \in Nat, NEW ss,
           SessionsOK(ss, plan.cap), hub' = [hub EXCEPT !.sessions = ss]
    PROVE  HubOK'
<1>1. IsHub(hub)
  BY Zenon DEF HubOK
<1>2. IsHub(hub') /\ hub'.global = hub.global /\ hub'.quota = hub.quota /\ hub'.sessions = ss
  BY <1>1, Zenon DEF IsHub
<1>3. SessionsOK(hub'.sessions, plan.cap)
  BY <1>2, Zenon
<1> QED BY <1>2, <1>3, HubGoes, Zenon

\* A dispatched job binds its session.
LEMMA AffinityFits == ASSUME HubOK, NEW r, NEW n PROVE SessionsOK(recordAffinity(r, n), plan.cap)
<1>1. SessionsOK(hub.sessions, plan.cap)
  BY Zenon DEF HubOK
<1>2. PICK s : recordAffinity(r, n) = hub.sessions \/ recordAffinity(r, n) = [hub.sessions EXCEPT ![s].worker = n]
  BY Zenon DEF recordAffinity
<1> DEFINE ss == hub.sessions
<1> HIDE DEF ss
<1>3. SessionsOK([ss EXCEPT ![s].worker = n], plan.cap)
  BY <1>1, SessionField, Zenon DEF ss
<1>4. SessionsOK([hub.sessions EXCEPT ![s].worker = n], plan.cap)
  BY <1>3, Zenon DEF ss
<1> QED BY <1>1, <1>2, <1>4, Zenon

\* Taking one from the quota, with or without a job and its affinity.
LEMMA HubTakes ==
    ASSUME HubOK, UNCHANGED plan, plan.global \in Nat, plan.quota \in Nat, hub.quota # 0, NEW jobs, NEW ss,
           SessionsOK(ss, plan.cap),
           hub' = [[[hub EXCEPT !.quota = hub.quota - 1] EXCEPT !.jobs = jobs] EXCEPT !.sessions = ss]
    PROVE  HubOK'
<1>1. IsHub(hub)
  BY Zenon DEF HubOK
<1>2. IsHub(hub') /\ hub'.global = hub.global /\ hub'.quota = hub.quota - 1 /\ hub'.sessions = ss
  BY <1>1, Zenon DEF IsHub
<1>3. SessionsOK(hub'.sessions, plan.cap)
  BY <1>2, Zenon
<1>4. hub.quota > 0
  BY DEF HubOK
<1> QED BY <1>2, <1>3, <1>4, HubGoes, Zenon

\* The limits and the histories stay as they should, whatever the handlers, the
\* sweeper, the fleet or an administrator does.
LEMMA HubStep ==
    ASSUME HubOK, GatewayNext, UNCHANGED plan, DOMAIN plan.asks \subseteq Requests,
           plan.global \in Nat, plan.quota \in Nat, plan.cap \in Nat
    PROVE  HubOK'
<1>0. IsHub(hub) /\ SessionsOK(hub.sessions, plan.cap)
  BY Zenon DEF HubOK
<1>1. ASSUME UNCHANGED hub PROVE HubOK'
  BY <1>1, Zenon DEF HubOK
<1>2. ASSUME NEW r, NEW c, writeError(r, c) PROVE UNCHANGED hub
  BY <1>2, Zenon DEF writeError
<1>3. ASSUME NEW r,
             \/ authMiddleware(r) \/ recoverMiddleware(r) \/ handleChatCompletions(r) \/ History(r)
             \/ handleCompletions(r) \/ Fail(r) \/ Closed(r) \/ Cancelled(r) \/ handleOpenAIModels(r) \/ handleModels(r)
             \/ handleOpenAIModelRetrieve(r) \/ handleGetSession(r) \/ Disconnect(r) \/ \E u : Chunk(r, u)
      PROVE  HubOK'
  BY <1>1, <1>3, ZenonT(40) DEF authMiddleware, recoverMiddleware, handleChatCompletions, History, handleCompletions, Fail,
     Closed, Cancelled, handleOpenAIModels, handleModels, handleOpenAIModelRetrieve, handleGetSession, Disconnect, Chunk,
     List, writeError
<1>4. ASSUME NEW r, rateLimitMiddleware(r) PROVE HubOK'
  <2>1. CASE hub.global > 0 /\ hub' = [hub EXCEPT !.global = hub.global - 1]
    <3>1. IsHub(hub') /\ hub'.global = hub.global - 1 /\ hub'.quota = hub.quota /\ hub'.sessions = hub.sessions
      BY <1>0, <2>1, Zenon DEF IsHub
    <3>2. SessionsOK(hub'.sessions, plan.cap)
      BY <1>0, <3>1, Zenon
    <3> QED BY <2>1, <3>1, <3>2, HubGoes, Zenon
  <2>2. CASE hub' = [hub EXCEPT !.throttled.global = @ + 1]
    <3>1. PICK v : hub' = [hub EXCEPT !.throttled = v]
      BY <2>2, Zenon
    <3> QED BY <3>1, HubNotes, Zenon
  <2> QED BY <1>1, <1>4, <2>1, <2>2, ZenonT(40) DEF rateLimitMiddleware, writeError
<1>5. ASSUME NEW r, metricsMiddleware(r) \/ annotatePerKey429(r) PROVE HubOK'
  <2>1. \/ hub' = [hub EXCEPT !.codes[call[r].code] = @ + 1]
        \/ hub' = [hub EXCEPT !.throttled.key = @ + 1]
    BY <1>5, Zenon DEF metricsMiddleware, annotatePerKey429
  <2>2. PICK v : hub' = [hub EXCEPT !.codes = v] \/ hub' = [hub EXCEPT !.throttled = v]
    BY <2>1, Zenon
  <2> QED BY <2>2, HubNotes, Zenon
<1>6. ASSUME NEW r \in Requests, Submit(r) PROVE HubOK'
  <2>1. CASE hub.quota # 0
    <3>1. ASSUME NEW n, hub' = [[hub EXCEPT !.quota = @ - 1, !.jobs = @ \cup {r}] EXCEPT !.sessions = recordAffinity(r, n)]
          PROVE  HubOK'
      <4>1. hub' = [[[hub EXCEPT !.quota = hub.quota - 1] EXCEPT !.jobs = hub.jobs \cup {r}] EXCEPT
                       !.sessions = recordAffinity(r, n)]
        BY <1>0, <3>1, Zenon DEF IsHub
      <4> QED BY <2>1, <4>1, AffinityFits, HubTakes, Zenon
    <3>2. ASSUME \/ hub' = [hub EXCEPT !.quota = @ - 1, !.jobs = @ \cup {r}]
                 \/ hub' = [hub EXCEPT !.quota = @ - 1]
          PROVE  HubOK'
      <4>1. IsHub(hub') /\ hub'.global = hub.global /\ hub'.quota = hub.quota - 1 /\ hub'.sessions = hub.sessions
        BY <1>0, <3>2, Zenon DEF IsHub
      <4>2. SessionsOK(hub'.sessions, plan.cap)
        BY <1>0, <4>1, Zenon
      <4>3. hub.quota > 0
        BY <2>1 DEF HubOK
      <4> QED BY <4>1, <4>2, <4>3, HubGoes, Zenon
    <3> QED BY <1>1, <1>6, <2>1, <3>1, <3>2, ZenonT(40) DEF Submit, writeError
  <2>2. CASE hub.quota = 0
    BY <1>1, <1>6, <2>2, Zenon DEF Submit, writeError
  <2> QED BY <2>1, <2>2, Zenon
<1>7. ASSUME NEW r, NEW n, Place(r, n) PROVE HubOK'
  BY <1>7, AffinityFits, HubSessions, Zenon DEF Place
<1>8. ASSUME NEW r, NEW u, Finish(r, u) PROVE HubOK'
  <2>1. PICK v : hub' = [hub EXCEPT !.tokens = v]
    BY <1>8, Zenon DEF Finish
  <2> QED BY <2>1, HubNotes, Zenon
<1>9. ASSUME NEW r \in Requests, persistTurn(r) \/ streamEnd(r) PROVE HubOK'
  <2>1. UNCHANGED hub \/ hub' = [hub EXCEPT !.sessions = AppendTurns(r, Ask(r).session)]
    BY <1>9, Zenon DEF persistTurn, streamEnd
  <2>2. SessionsOK(AppendTurns(r, Ask(r).session), plan.cap)
    BY TurnsFit, Zenon
  <2> QED BY <1>1, <2>1, <2>2, HubSessions, Zenon
<1>10. ASSUME NEW r, writeSSEDone(r) PROVE HubOK'
  <2>1. UNCHANGED hub \/ \E v : hub' = [hub EXCEPT !.tokens = v]
    BY <1>10, Zenon DEF writeSSEDone
  <2> QED BY <1>1, <2>1, HubNotes, Zenon
<1>11. ASSUME NEW r, handleCreateSession(r) PROVE HubOK'
  <2>1. \/ UNCHANGED hub
        \/ \E s \in Sids : hub' = [hub EXCEPT !.sessions[s] = [state |-> "live", owner |-> call[r].key.id, log |-> <<>>,
                                                             from |-> 0, worker |-> None]]
    BY <1>11, Zenon DEF handleCreateSession, writeError
  <2>2. ASSUME NEW s \in Sids, NEW y, SessionOK(y, plan.cap), hub' = [hub EXCEPT !.sessions[s] = y]
        PROVE  HubOK'
    <3>1. hub' = [hub EXCEPT !.sessions = [hub.sessions EXCEPT ![s] = y]]
      BY <2>2, Zenon
    <3>2. SessionsOK([hub.sessions EXCEPT ![s] = y], plan.cap)
      BY <1>0, <2>2, SessionPut, Zenon
    <3> QED BY <3>1, <3>2, HubSessions, Zenon
  <2>3. ASSUME NEW k
        PROVE  SessionOK([state |-> "live", owner |-> k, log |-> <<>>, from |-> 0, worker |-> None], plan.cap)
    BY DEF SessionOK
  <2> QED BY <1>1, <2>1, <2>2, <2>3, Zenon
<1>12. ASSUME NEW s, hub' = [hub EXCEPT !.sessions[s].state = "ended"] PROVE HubOK'
  <2>1. hub' = [hub EXCEPT !.sessions = [hub.sessions EXCEPT ![s].state = "ended"]]
    BY <1>12, Zenon
  <2> DEFINE ss == hub.sessions
  <2> HIDE DEF ss
  <2>2. SessionsOK([ss EXCEPT ![s].state = "ended"], plan.cap)
    BY <1>0, SessionField, Zenon DEF ss
  <2>3. SessionsOK([hub.sessions EXCEPT ![s].state = "ended"], plan.cap)
    BY <2>2, Zenon DEF ss
  <2> QED BY <2>1, <2>3, HubSessions, Zenon
<1>13. ASSUME NEW r, handleDeleteSession(r) PROVE HubOK'
  <2>1. \/ UNCHANGED hub \/ hub' = [hub EXCEPT !.sessions[Ask(r).session].state = "ended"]
        \/ hub' = [hub EXCEPT !.unloads = @ \cup {Ask(r).session}]
    BY <1>13, Zenon DEF handleDeleteSession, writeError
  <2>2. ASSUME hub' = [hub EXCEPT !.unloads = @ \cup {Ask(r).session}] PROVE \E v : hub' = [hub EXCEPT !.unloads = v]
    BY <2>2, Zenon
  <2> QED BY <1>1, <1>12, <2>1, <2>2, HubNotes, ZenonT(40)
<1>14. ASSUME NEW k, NEW grants, Regrant(k, grants) PROVE HubOK'
  <2>1. PICK v : hub' = [hub EXCEPT !.keys = v]
    BY <1>14, Zenon DEF Regrant
  <2> QED BY <2>1, HubNotes, Zenon
<1>15. CASE WindowRolls
  <2>1. hub' = [hub EXCEPT !.global = plan.global, !.quota = plan.quota]
    BY <1>15, Zenon DEF WindowRolls
  <2>2. IsHub(hub') /\ hub'.global = plan.global /\ hub'.quota = plan.quota /\ hub'.sessions = hub.sessions
    BY <1>0, <2>1, Zenon DEF IsHub
  <2>3. SessionsOK(hub'.sessions, plan.cap)
    BY <1>0, <2>2, Zenon
  <2> QED BY <2>2, <2>3, HubGoes, Zenon
<1>16. ASSUME NEW s, Expire(s) PROVE HubOK'
  BY <1>12, <1>16, Zenon DEF Expire
<1>17. ASSUME NEW n, FleetChange(n) PROVE HubOK'
  <2>1. PICK v : hub' = [hub EXCEPT !.fleet = v]
    BY <1>17, Zenon DEF FleetChange
  <2> QED BY <2>1, HubNotes, Zenon
<1>18. ASSUME NEW r \in DOMAIN plan.asks, Step(r) PROVE HubOK'
  <2>1. r \in Requests
    BY Zenon
  <2> QED BY <2>1, <1>3, <1>4, <1>5, <1>6, <1>9, <1>10, <1>11, <1>13, <1>18, ZenonT(40) DEF Step
<1> QED BY <1>3, <1>7, <1>8, <1>14, <1>15, <1>16, <1>17, <1>18, ZenonT(40) DEF GatewayNext

-----------------------------------------------------------------------------
(* The other parts: what their states look like. *)

LogsOK ==
    /\ logs = [ring |-> logs.ring, level |-> logs.level, all |-> logs.all, tail |-> logs.tail, polls |-> logs.polls]
    /\ logs.ring.next \in 0 .. RingCap - 1
WalkOK ==
    /\ walk = [items |-> walk.items, limit |-> walk.limit, cursor |-> walk.cursor, got |-> walk.got, pc |-> walk.pc,
               start |-> walk.start, added |-> walk.added, gone |-> walk.gone]
    /\ walk.items \subseteq Items
GaugeOK == gauge \in Seq(Cards) /\ Len(gauge) <= 3

LEMMA LogsStep == ASSUME LogsOK, LogsNext \/ UNCHANGED logs PROVE LogsOK'
<1>1. ASSUME NEW level, Log(level) PROVE LogsOK'
  <2> DEFINE rec == [id |-> logs.ring.count + 1, level |-> level]
  <2>1. logs' = [logs EXCEPT !.ring = append(logs.ring, rec), !.all = Append(logs.all, rec)]
    BY <1>1, Zenon DEF Log
  <2>2. append(logs.ring, rec).next = (logs.ring.next + 1) % RingCap
    BY Zenon DEF append
  <2> HIDE DEF rec
  <2>3. (logs.ring.next + 1) % RingCap \in 0 .. RingCap - 1
    BY ReportsConstants DEF LogsOK
  <2> QED BY <2>1, <2>2, <2>3, Zenon DEF LogsOK
<1>2. ASSUME NEW level, SetLevel(level) PROVE LogsOK'
  BY <1>2, Zenon DEF SetLevel, LogsOK
<1>3. ASSUME NEW level, handleAdminLogsStream(level) PROVE LogsOK'
  <2>1. PICK t : logs' = [logs EXCEPT !.polls = {}, !.tail = t]
    BY <1>3, Zenon DEF handleAdminLogsStream
  <2> QED BY <2>1, Zenon DEF LogsOK
<1>4. CASE emitNewLogs
  <2>1. PICK p, n, g : logs' = [logs EXCEPT !.polls = p, !.tail.last = n, !.tail.got = g]
    BY <1>4, Zenon DEF emitNewLogs
  <2> QED BY <2>1, Zenon DEF LogsOK
<1>5. CASE TailCloses
  <2>1. PICK f : logs' = [logs EXCEPT !.tail.open = f]
    BY <1>5, Zenon DEF TailCloses
  <2> QED BY <2>1, Zenon DEF LogsOK
<1>6. CASE UNCHANGED logs
  BY <1>6, Zenon DEF LogsOK
<1> QED BY <1>1, <1>2, <1>3, <1>4, <1>5, <1>6, ZenonT(40) DEF LogsNext

LEMMA WalkStep == ASSUME WalkOK, WalkNext \/ UNCHANGED walk PROVE WalkOK'
<1>1. CASE Page
  <2>1. PICK g, c, pc : walk' = [walk EXCEPT !.got = g, !.cursor = c, !.pc = pc]
    BY <1>1, Zenon DEF Page
  <2> QED BY <2>1, Zenon DEF WalkOK
<1>2. ASSUME NEW x \in Items, ItemAdded(x) PROVE WalkOK'
  BY <1>2, Zenon DEF ItemAdded, WalkOK
<1>3. ASSUME NEW x \in Items, ItemDeleted(x) PROVE WalkOK'
  BY <1>3, Zenon DEF ItemDeleted, WalkOK
<1>4. CASE UNCHANGED walk
  BY <1>4, Zenon DEF WalkOK
<1> QED BY <1>1, <1>2, <1>3, <1>4, Zenon DEF WalkNext

LEMMA GaugeStep == ASSUME GaugeOK, GaugeNext \/ UNCHANGED gauge PROVE GaugeOK'
<1>1. ASSUME NEW card \in Cards, Report(card) PROVE GaugeOK'
  BY <1>1, SeqAppend, SMTT(30) DEF Report, GaugeOK
<1>2. ASSUME NEW i \in DOMAIN gauge, Leave(i) PROVE GaugeOK'
  <2> DEFINE a == SubSeq(gauge, 1, i - 1)
             b == SubSeq(gauge, i + 1, Len(gauge))
  <2>1. i \in 1 .. Len(gauge) /\ Len(gauge) \in Nat
    BY SeqDomain, Zenon DEF GaugeOK
  <2>2. a \in Seq(Cards) /\ b \in Seq(Cards) /\ Len(a) = i - 1 /\ Len(b) = Len(gauge) - i
    BY <2>1, SeqPart, SMTT(30) DEF GaugeOK
  <2>3. gauge' = a \o b
    BY <1>2, Zenon DEF Leave
  <2> HIDE DEF a, b
  <2> QED BY <2>1, <2>2, <2>3, SeqConcat, SMTT(30) DEF GaugeOK
<1>3. CASE UNCHANGED gauge
  BY <1>3, Zenon DEF GaugeOK
<1> QED BY <1>1, <1>2, <1>3, Zenon DEF GaugeNext

IsLoad(l) == l = [pc |-> l.pc, cfg |-> l.cfg, now |-> l.now, done |-> l.done, signal |-> l.signal, next |-> l.next,
                  loops |-> l.loops, at |-> l.at, tick |-> l.tick, open |-> l.open, results |-> l.results,
                  ended |-> l.ended]
LoadOK ==
    /\ IsLoad(load) /\ load.next \in Nat /\ IsFiniteSet(load.open) /\ IsFiniteSet(load.results)
    /\ load.next >= Cardinality(load.results) + Cardinality(load.open)

\* What one more element adds to a finite set, at most.
LEMMA AddedCard ==
    ASSUME NEW S, NEW x, IsFiniteSet(S)
    PROVE  /\ IsFiniteSet(S \cup {x}) /\ Cardinality(S) \in Nat /\ Cardinality(S \cup {x}) \in Nat
           /\ Cardinality(S \cup {x}) <= Cardinality(S) + 1
<1>1. IsFiniteSet(S \cup {x})
  BY FS_AddElement, Zenon
<1>2. Cardinality(S \cup {x}) = IF x \in S THEN Cardinality(S) ELSE Cardinality(S) + 1
  BY FS_AddElement, Zenon
<1>3. Cardinality(S) \in Nat /\ Cardinality(S \cup {x}) \in Nat
  BY <1>1, FS_CardinalityType, Zenon
<1> QED BY <1>1, <1>2, <1>3

\* A request is sent, and one is answered or given up.
LEMMA LoadSends ==
    ASSUME LoadOK, NEW x, IsLoad(load'), load'.next = load.next + 1,
           load'.open = load.open \cup {x}, load'.results = load.results
    PROVE  LoadOK'
<1>1. IsFiniteSet(load'.open) /\ Cardinality(load'.open) <= Cardinality(load.open) + 1
  BY AddedCard, ZenonT(40) DEF LoadOK
<1>2. Cardinality(load.open) \in Nat /\ Cardinality(load'.open) \in Nat /\ Cardinality(load.results) \in Nat
  BY <1>1, FS_CardinalityType, Zenon DEF LoadOK
<1> QED BY <1>1, <1>2 DEF LoadOK

LEMMA LoadCollects ==
    ASSUME LoadOK, NEW r \in load.open, NEW found, found = {} \/ \E x : found = {x}, IsLoad(load'), load'.next = load.next,
           load'.open = load.open \ {r}, load'.results = load.results \cup found
    PROVE  LoadOK'
<1>1. IsFiniteSet(load'.open) /\ Cardinality(load'.open) = Cardinality(load.open) - 1
  BY FS_RemoveElement, SMTT(30) DEF LoadOK
<1>2. IsFiniteSet(load'.results) /\ Cardinality(load'.results) <= Cardinality(load.results) + 1
  <2>1. CASE found = {}
    <3>1. load'.results = load.results
      BY <2>1, Zenon
    <3>2. IsFiniteSet(load.results) /\ Cardinality(load.results) \in Nat
      BY FS_CardinalityType, Zenon DEF LoadOK
    <3>3. IsFiniteSet(load'.results) /\ Cardinality(load'.results) = Cardinality(load.results)
      BY <3>1, <3>2, Zenon
    <3> QED BY <3>2, <3>3, SMTT(30)
  <2>2. ASSUME NEW x, found = {x} PROVE <1>2!:
    <3>1. load'.results = load.results \cup {x}
      BY <2>2, Zenon
    <3>2. /\ IsFiniteSet(load.results \cup {x})
          /\ Cardinality(load.results \cup {x}) <= Cardinality(load.results) + 1
      BY AddedCard, Zenon DEF LoadOK
    <3> QED BY <3>1, <3>2, Zenon
  <2> QED BY <2>1, <2>2, Zenon
<1>3. /\ Cardinality(load.open) \in Nat /\ Cardinality(load'.open) \in Nat
      /\ Cardinality(load.results) \in Nat /\ Cardinality(load'.results) \in Nat
  BY <1>1, <1>2, FS_CardinalityType, Zenon DEF LoadOK
<1> QED BY <1>1, <1>2, <1>3, SMTT(30) DEF LoadOK

LEMMA LoadStep == ASSUME LoadOK, LoadNext \/ UNCHANGED load PROVE LoadOK'
<1>1. ASSUME IsLoad(load'), load'.next = load.next, load'.open = load.open, load'.results = load.results
      PROVE  LoadOK'
  BY <1>1, Zenon DEF LoadOK
<1>2. IsLoad(load)
  BY Zenon DEF LoadOK
<1>3. CASE Launch
  <2> DEFINE flags == parseLoadtestFlags(load.cfg)
             cfg == [flags EXCEPT !.mix = resolveMix(flags), !.model = @ \/ flags.inproc]
             loops == IF cfg.rate > 0 THEN 0 ELSE cfg.concurrency
             at == IF cfg.rate > 0 THEN "tick" ELSE "off"
  <2>1. \/ load' = [load EXCEPT !.pc = "failed"] \/ load' = [load EXCEPT !.pc = "usage"]
        \/ load' = [load EXCEPT !.pc = "running", !.cfg = cfg, !.loops = loops, !.at = at]
    BY <1>3, Zenon DEF Launch
  <2> HIDE DEF cfg, loops, at
  <2>2. /\ IsLoad(load') /\ load'.next = load.next /\ load'.open = load.open /\ load'.results = load.results
    BY <1>2, <2>1, Zenon DEF IsLoad
  <2> QED BY <1>1, <2>2, Zenon
<1>4. CASE claim
  <2>1. \/ \E loops : load' = [load EXCEPT !.loops = loops]
        \/ \E loops, x : load' = [load EXCEPT !.loops = loops, !.next = load.next + 1, !.open = load.open \cup {x}]
    BY <1>4, Zenon DEF claim
  <2>2. CASE \E loops : load' = [load EXCEPT !.loops = loops]
    BY <1>1, <1>2, <2>2, SMTT(30) DEF IsLoad
  <2>3. ASSUME NEW loops, NEW x,
               load' = [load EXCEPT !.loops = loops, !.next = load.next + 1, !.open = load.open \cup {x}]
        PROVE  LoadOK'
    <3>1. /\ IsLoad(load') /\ load'.next = load.next + 1 /\ load'.open = load.open \cup {x}
          /\ load'.results = load.results
      BY <1>2, <2>3, Zenon DEF IsLoad
    <3> QED BY <3>1, LoadSends
  <2> QED BY <2>1, <2>2, <2>3, ZenonT(40)
<1>5. CASE awaitTick
  <2>1. \/ \E at : load' = [load EXCEPT !.at = at]
        \/ load' = [load EXCEPT !.at = "slot", !.tick = FALSE]
    BY <1>5, Zenon DEF awaitTick
  <2> QED BY <1>1, <1>2, <2>1, Zenon DEF IsLoad
<1>6. CASE acquireSlot
  <2>1. \/ load' = [load EXCEPT !.at = "off"]
        \/ \E x : load' = [load EXCEPT !.at = "tick", !.next = load.next + 1, !.open = load.open \cup {x}]
    BY <1>6, Zenon DEF acquireSlot
  <2>2. CASE load' = [load EXCEPT !.at = "off"]
    BY <1>1, <1>2, <2>2, SMTT(30) DEF IsLoad
  <2>3. ASSUME NEW x, load' = [load EXCEPT !.at = "tick", !.next = load.next + 1, !.open = load.open \cup {x}]
        PROVE  LoadOK'
    <3>1. /\ IsLoad(load') /\ load'.next = load.next + 1 /\ load'.open = load.open \cup {x}
          /\ load'.results = load.results
      BY <1>2, <2>3, Zenon DEF IsLoad
    <3> QED BY <3>1, LoadSends
  <2> QED BY <2>1, <2>2, <2>3, Zenon
<1>7. ASSUME NEW r \in load.open, issue(r) PROVE LoadOK'
  <2>1. PICK found : (found = {} \/ \E x : found = {x}) /\ Collect(r, found)
    BY <1>7, Zenon DEF issue
  <2>2. PICK loops : load' = [load EXCEPT !.open = load.open \ {r}, !.results = load.results \cup found, !.loops = loops]
    BY <2>1, Zenon DEF Collect
  <2>3. /\ IsLoad(load') /\ load'.next = load.next /\ load'.open = load.open \ {r}
        /\ load'.results = load.results \cup found
    BY <1>2, <2>2, Zenon DEF IsLoad
  <2> QED BY <2>1, <2>3, LoadCollects, SMTT(30)
<1>8. CASE Return
  <2>1. PICK e : load' = [load EXCEPT !.pc = "returned", !.ended = e]
    BY <1>8, Zenon DEF Return
  <2> QED BY <1>1, <1>2, <2>1, Zenon DEF IsLoad
<1>9. CASE emitReport
  BY <1>1, <1>2, <1>9, SMTT(30) DEF IsLoad, emitReport
<1>10. CASE Elapse
  <2>1. PICK now, tick, done : load' = [load EXCEPT !.now = now, !.tick = tick, !.done = done]
    BY <1>10, Zenon DEF Elapse
  <2> QED BY <1>1, <1>2, <2>1, Zenon DEF IsLoad
<1>11. CASE Interrupt
  BY <1>1, <1>2, <1>11, Zenon DEF IsLoad, Interrupt
<1>12. CASE Enqueue \/ (\E ms \in {1, 4} : recordWait(ms)) \/ PollerRun \/ UNCHANGED load
  <2>1. UNCHANGED load
    BY <1>12, Zenon DEF Enqueue, recordWait, PollerRun
  <2> QED BY <2>1, Zenon DEF LoadOK, IsLoad
<1> QED BY <1>3, <1>4, <1>5, <1>6, <1>7, <1>8, <1>9, <1>10, <1>11, <1>12, ZenonT(40) DEF LoadNext, Driving
=============================================================================
