---------------------------- MODULE StreamProofs ----------------------------
(***************************************************************************)
(* Proofs about streamed jobs for any number of jobs, channel capacity and *)
(* deltas.                                                                 *)
(*                                                                         *)
(* The observer channel has two writers that share no lock when they send: *)
(* the reader and the failers.  Whoever takes a job out of the observers   *)
(* map owns its close, so the job is in at most one of the map, a failer's *)
(* detached set and the reader's hands (Detached); the one overlap is a    *)
(* delta taken before an eviction detached its observer.  Order and        *)
(* completeness then need what is still to be sent compared with what the  *)
(* pipeline holds (Ordered, Counted), and accounting needs the builder of  *)
(* a waiting job to hold all it was sent (Buffered).                       *)
(***************************************************************************)
EXTENDS Stream, TLAPS

On(j) == reader # None /\ reader.job = j
Forwarding(j) == On(j) /\ reader.step = "forward"
Finishing(j) == On(j) /\ reader.step = "finish"
Finished(j) == On(j) /\ reader.step # "forward"

(* The reader holds a chunk only while the stream is up, the worker's own  *)
(* teardown runs only once it is down, and a failer with observers left to *)
(* close has swapped the maps.                                             *)
Phases ==
    /\ ~up => reader = None
    /\ failer["reader"] # "idle" => ~up
    /\ \A f \in Failers : failing[f] # {} => failer[f] = "done"

(* The goroutines of a job, in the order they come into being.             *)
Lives ==
    \A j \in Jobs :
        /\ handler[j] \in {"idle", "picked"} => fwd[j] = "none"
        /\ fwd[j] = "none" => disp[j] = "none" /\ j \notin outClosed
        /\ fwd[j] = "account" => j \in obsClosed
        /\ held[j] # None <=> fwd[j] = "push"
        /\ disp[j] \in {"none", "add"} => sent[j] = 0 /\ streams[j] = None
        /\ streams[j] # None => streams[j] <= sent[j]
        /\ disp[j] \in {"none", "add", "send"} => j \notin has /\ ~On(j)
        /\ j \in pending => disp[j] \in {"send", "await"} /\ resCh[j] = None
        /\ resCh[j] # None => disp[j] \in {"send", "await", "done"}
        /\ result[j] # None => disp[j] = "done"
        /\ Finished(j) => j \notin has

(* Whoever has taken an observer out of the map is the one to close it.    *)
Detached ==
    \A j \in Jobs :
        /\ fwd[j] = "none" => j \notin observers \cup obsClosed /\ \A f \in Failers : j \notin failing[f]
        /\ j \in observers => fwd[j] \in {"select", "push"} /\ j \notin obsClosed
        /\ \A f \in Failers : j \in failing[f] =>
              /\ j \notin observers \cup obsClosed
              /\ \A g \in Failers : j \in failing[g] => f = g
        /\ Finishing(j) => j \notin observers \cup obsClosed /\ \A f \in Failers : j \notin failing[f]
        /\ Forwarding(j) /\ j \in obsClosed => failer["evictor"] = "done"

StreamInv == TypeOK /\ Phases /\ Lives /\ Detached /\ PanicOnlyFromEviction

OrderedSeq(s) ==
    \A a, b \in DOMAIN s : a < b => s[a] \in Deltas /\ (s[b] \in Deltas => s[a] < s[b])
Ended(j) == \E n \in DOMAIN Pipeline(j) : Pipeline(j)[n] = End

(* The pipeline of a job is in order, holds no terminal chunk before the   *)
(* observer is closed, and is behind the delta in the reader's hands.      *)
Ordered ==
    \A j \in Jobs :
        /\ OrderedSeq(Pipeline(j))
        /\ j \notin obsClosed => \A n \in DOMAIN Pipeline(j) : Pipeline(j)[n] \in Deltas
        /\ \A n \in DOMAIN Pipeline(j) : Pipeline(j)[n] \in Deltas =>
              Pipeline(j)[n] <= sent[j] /\ (Forwarding(j) => Pipeline(j)[n] < sent[j])
        /\ Forwarding(j) => reader.chunk = sent[j]
        /\ fwd[j] = "none" => Pipeline(j) = <<>>

(* A job whose pipeline has the worker's terminal chunk is done there, and *)
(* its waiter is gone or about to be answered.                             *)
Served ==
    \A j \in Jobs : Ended(j) =>
        j \notin has /\ disp[j] \in {"await", "done"} /\ (j \in pending => Finished(j))

(* The pipeline of an attached observer that refused no chunk holds every  *)
(* delta received so far, so the worker's terminal chunk comes right after *)
(* the last; a forwarder that aborts leaves what it passed on untouched.   *)
CountedFor(j) ==
    /\ j \in observers => Len(Pipeline(j)) = sent[j] - (IF Forwarding(j) THEN 1 ELSE 0)
    /\ Finishing(j) /\ fwd[j] # "done" => Len(Pipeline(j)) = sent[j]
    /\ fwd[j] # "done" => \A n \in DOMAIN Pipeline(j) : Pipeline(j)[n] = End => n = sent[j] + 1
    /\ \A n \in DOMAIN (got[j] \o out[j]) : (got[j] \o out[j])[n] = End => n = sent[j] + 1
Counted == \A j \in Jobs \ dropped : CountedFor(j)

(* The builder of a job somebody waits for holds all its deltas, and so    *)
(* does the output taken from it and any result made of that.              *)
Buffered ==
    \A j \in Jobs :
        /\ j \in pending /\ ~Finished(j) => streams[j] = IF sent[j] = 0 THEN None ELSE sent[j]
        /\ j \in pending /\ Finished(j) /\ reader.output # Error => reader.output = sent[j]
        /\ \A res \in {resCh[j], result[j]} : res \in 0 .. MaxDeltas =>
              res = sent[j] /\ j \notin has /\ disp[j] \in {"await", "done"}

(* A context ends only with the client or the handler; only a failer makes *)
(* up a failed result; and a forwarder that was not aborted closes out     *)
(* after it has recorded what the worker answered.                         *)
Billed ==
    \A j \in Jobs :
        /\ j \in ctxDone => j \in left \/ handler[j] = "returned"
        /\ Fail \in {resCh[j], result[j]} =>
              failer["evictor"] = "done" \/ (failer["reader"] = "done" /\ ~Ended(j))
        /\ resCh[j] # Cancelled /\ (result[j] = Cancelled => j \in ctxDone)
        /\ j \in outClosed /\ j \notin ctxDone => result[j] \in {Cancelled, Fail} \/ j \in charged

-----------------------------------------------------------------------------
(* Sequences: lengths, and the members of what Append, Tail, \o and SubSeq *)
(* give.                                                                   *)
LEMMA SeqEmpty ==
    ASSUME NEW S
    PROVE  <<>> \in Seq(S) /\ Len(<<>>) = 0 /\ \A q \in Seq(S) : q # <<>> => Len(q) \in Nat \ {0}
OBVIOUS

LEMMA SeqLen ==
    ASSUME NEW S, NEW q \in Seq(S)
    PROVE  Len(q) \in Nat /\ q \in [1 .. Len(q) -> S] /\ DOMAIN q = 1 .. Len(q)
OBVIOUS

LEMMA SeqAppend ==
    ASSUME NEW S, NEW q \in Seq(S), NEW x \in S
    PROVE  /\ Append(q, x) \in Seq(S) /\ Append(q, x) # <<>> /\ Len(Append(q, x)) = Len(q) + 1
           /\ \A i \in 1 .. Len(q) : Append(q, x)[i] = q[i]
           /\ Append(q, x)[Len(q) + 1] = x
OBVIOUS

LEMMA SeqTail ==
    ASSUME NEW S, NEW q \in Seq(S), q # <<>>
    PROVE  /\ Head(q) \in S /\ Tail(q) \in Seq(S) /\ Len(Tail(q)) = Len(q) - 1
           /\ \A i \in 1 .. Len(Tail(q)) : Tail(q)[i] = q[i + 1]
OBVIOUS

LEMMA SeqConcat ==
    ASSUME NEW S, NEW q \in Seq(S), NEW r \in Seq(S)
    PROVE  /\ q \o r \in Seq(S) /\ Len(q \o r) = Len(q) + Len(r)
           /\ \A i \in 1 .. Len(q) + Len(r) : (q \o r)[i] = IF i <= Len(q) THEN q[i] ELSE r[i - Len(q)]
OBVIOUS

LEMMA SeqSame ==
    ASSUME NEW S, NEW q \in Seq(S), NEW r \in Seq(S), Len(q) = Len(r), \A i \in 1 .. Len(q) : q[i] = r[i]
    PROVE  q = r
<1>1. q \in [1 .. Len(q) -> S] /\ r \in [1 .. Len(q) -> S]
  BY SeqLen, Zenon
<1> QED BY <1>1

LEMMA ConcatNothing == ASSUME NEW S, NEW q \in Seq(S) PROVE q \o <<>> = q /\ <<>> \o q = q
<1>1. <<>> \in Seq(S) /\ Len(<<>>) = 0 /\ Len(q) \in Nat
  BY SeqEmpty, SeqLen, Zenon
<1>2. q \o <<>> = q
  <2>1. q \o <<>> \in Seq(S) /\ Len(q \o <<>>) = Len(q) /\ \A i \in 1 .. Len(q) : (q \o <<>>)[i] = q[i]
    BY <1>1, SeqConcat
  <2> QED BY <2>1, SeqSame, Zenon
<1>3. <<>> \o q = q
  <2>1. <<>> \o q \in Seq(S) /\ Len(<<>> \o q) = Len(q) /\ \A i \in 1 .. Len(q) : (<<>> \o q)[i] = q[i]
    BY <1>1, SeqConcat
  <2> QED BY <2>1, SeqSame, Zenon
<1> QED BY <1>2, <1>3, Zenon

LEMMA ConcatThree ==
    ASSUME NEW S, NEW q \in Seq(S), NEW r \in Seq(S), NEW t \in Seq(S)
    PROVE  (q \o r) \o t = q \o (r \o t)
<1>1. Len(q) \in Nat /\ Len(r) \in Nat /\ Len(t) \in Nat /\ q \o r \in Seq(S) /\ r \o t \in Seq(S)
  BY SeqLen, SeqConcat, Zenon
<1>2. /\ (q \o r) \o t \in Seq(S) /\ q \o (r \o t) \in Seq(S)
      /\ Len(q \o r) = Len(q) + Len(r) /\ Len(r \o t) = Len(r) + Len(t)
      /\ Len((q \o r) \o t) = Len(q) + Len(r) + Len(t) /\ Len(q \o (r \o t)) = Len(q) + Len(r) + Len(t)
  BY <1>1, SeqConcat
<1>3. ASSUME NEW i \in 1 .. Len(q) + Len(r) + Len(t) PROVE ((q \o r) \o t)[i] = (q \o (r \o t))[i]
  BY <1>1, <1>2, SeqConcat
<1> QED BY <1>2, <1>3, SeqSame, Zenon

LEMMA AppendLast == ASSUME NEW S, NEW q \in Seq(S), NEW x \in S PROVE Append(q, x) = q \o <<x>>
<1>1. <<x>> \in Seq(S) /\ Len(<<x>>) = 1 /\ <<x>>[1] = x /\ Len(q) \in Nat
  OBVIOUS
<1>2. q \o <<x>> \in Seq(S) /\ Len(q \o <<x>>) = Len(q) + 1
      /\ \A i \in 1 .. Len(q) + 1 : (q \o <<x>>)[i] = Append(q, x)[i]
  BY <1>1, SeqConcat, SeqAppend
<1> QED BY <1>2, SeqAppend, SeqSame

LEMMA HeadFirst == ASSUME NEW S, NEW q \in Seq(S), q # <<>> PROVE q = <<Head(q)>> \o Tail(q)
<1>1. Head(q) = q[1] /\ Len(q) \in Nat \ {0}
  BY SeqEmpty
<1>2. <<Head(q)>> \in Seq(S) /\ Len(<<Head(q)>>) = 1 /\ <<Head(q)>>[1] = Head(q)
  BY SeqTail
<1>3. <<Head(q)>> \o Tail(q) \in Seq(S) /\ Len(<<Head(q)>> \o Tail(q)) = Len(q)
      /\ \A i \in 1 .. Len(q) : (<<Head(q)>> \o Tail(q))[i] = q[i]
  BY <1>1, <1>2, SeqConcat, SeqTail
<1> QED BY <1>3, SeqSame, Zenon

-----------------------------------------------------------------------------

(* Types initially.                                                        *)
LEMMA InitType == Init => TypeOK
<1> SUFFICES ASSUME Init PROVE TypeOK
  BY Zenon
<1>1. <<>> \in Seq(Chunks) /\ Len(<<>>) = 0 /\ ChanCap \in Nat /\ 0 \in 0 .. MaxDeltas
  BY Bounds
<1>2. /\ obs \in [Jobs -> Seq(Chunks)] /\ out \in [Jobs -> Seq(Chunks)]
      /\ got \in [Jobs -> Seq(Chunks)]
      /\ \A j \in Jobs : Len(obs[j]) <= ChanCap /\ Len(out[j]) <= ChanCap
  BY <1>1 DEF Init
<1>3. /\ sent \in [Jobs -> 0 .. MaxDeltas] /\ streams \in [Jobs -> Deltas \cup {None}]
      /\ held \in [Jobs -> Chunks \cup {None}] /\ reader \in Reading \cup {None}
      /\ resCh \in [Jobs -> Results \cup {None}] /\ result \in [Jobs -> Results \cup {None}]
  BY <1>1, Zenon DEF Init
<1> QED BY <1>2, <1>3, Zenon DEF Init, TypeOK

(* Sending on an observer channel keeps it a channel of chunks.            *)
LEMMA ForwardType ==
    ASSUME TypeOK, NEW j \in Jobs, NEW c \in Chunks, forwardChunk(j, c)
    PROVE  /\ obs' \in [Jobs -> Seq(Chunks)] /\ \A k \in Jobs : Len(obs'[k]) <= ChanCap
           /\ dropped' \subseteq Jobs /\ panicked' \in BOOLEAN
<1>0. /\ obs \in [Jobs -> Seq(Chunks)] /\ \A k \in Jobs : Len(obs[k]) <= ChanCap
      /\ dropped \subseteq Jobs /\ panicked \in BOOLEAN /\ ChanCap \in Nat
  BY Bounds, Zenon DEF TypeOK
<1>1. CASE obs' = obs
  BY <1>0, <1>1, Zenon DEF forwardChunk
<1>2. CASE Len(obs[j]) < ChanCap /\ obs' = [obs EXCEPT ![j] = Append(@, c)]
  <2>1. Append(obs[j], c) \in Seq(Chunks) /\ Len(Append(obs[j], c)) = Len(obs[j]) + 1
        /\ Len(obs[j]) \in Nat
    BY <1>0, SeqAppend, SeqLen
  <2>2. Len(Append(obs[j], c)) <= ChanCap
    BY <1>0, <1>2, <2>1
  <2> QED BY <1>0, <1>2, <2>1, <2>2, Zenon DEF forwardChunk
<1>3. obs' = obs \/ (Len(obs[j]) < ChanCap /\ obs' = [obs EXCEPT ![j] = Append(@, c)])
  <2>1. Len(obs[j]) \in Nat
    BY <1>0, SeqLen, Zenon
  <2> QED BY <1>0, <2>1 DEF forwardChunk
<1> QED BY <1>1, <1>2, <1>3, Zenon

(* Every step keeps the types.                                             *)
LEMMA TypeStep == TypeOK /\ Lives /\ Next => TypeOK'
<1> SUFFICES ASSUME TypeOK, Lives, Next PROVE TypeOK'
  BY Zenon
<1> USE DEF workerVars, readVars, chanVars, jobVars
<1>1. ASSUME NEW j \in Jobs, Submit(j) PROVE TypeOK'
  BY <1>1, Zenon DEF TypeOK, Submit
<1>2. ASSUME NEW j \in Jobs, AddObserver(j) PROVE TypeOK'
  BY <1>2, Zenon DEF TypeOK, AddObserver
<1>3. ASSUME NEW j \in Jobs, Return(j) \/ Disconnect(j) PROVE TypeOK'
  <2>1. CASE Return(j)
    BY <2>1, Zenon DEF TypeOK, Return
  <2>2. CASE Disconnect(j)
    BY <2>2, Zenon DEF TypeOK, Disconnect
  <2> QED BY <1>3, <2>1, <2>2, Zenon
<1>16. ASSUME NEW j \in Jobs, DispatchStep(j) PROVE TypeOK'
  <2>1. CASE AddPending(j)
    BY <2>1, Zenon DEF TypeOK, AddPending
  <2>2. CASE SendJob(j)
    BY <2>2, Zenon DEF TypeOK, SendJob
  <2>3. CASE DispatchResult(j)
    BY <2>3, Zenon DEF TypeOK, DispatchResult, dispatchReturns
  <2>4. CASE DispatchCancel(j)
    BY <2>4, Zenon DEF TypeOK, DispatchCancel, dispatchReturns, Results
  <2> QED BY <1>16, <2>1, <2>2, <2>3, <2>4, Zenon DEF DispatchStep
<1>17. ASSUME NEW j \in Jobs, ObserverClosed(j) \/ Account(j) \/ Abort(j) PROVE TypeOK'
  <2>1. CASE ObserverClosed(j)
    BY <2>1, Zenon DEF TypeOK, ObserverClosed
  <2>2. CASE Account(j)
    BY <2>2, Zenon DEF TypeOK, Account
  <2>3. CASE Abort(j)
    BY <2>3, Zenon DEF TypeOK, Abort
  <2> QED BY <1>17, <2>1, <2>2, <2>3, Zenon
<1>4. ASSUME NEW j \in Jobs, Take(j) PROVE TypeOK'
  <2>1. obs[j] \in Seq(Chunks) /\ obs[j] # <<>> /\ Len(obs[j]) <= ChanCap /\ Len(obs[j]) \in Nat
    BY <1>4, SeqLen, Zenon DEF Take, TypeOK
  <2>2. Head(obs[j]) \in Chunks /\ Tail(obs[j]) \in Seq(Chunks) /\ Len(Tail(obs[j])) = Len(obs[j]) - 1
    BY <2>1, SeqTail, Zenon
  <2>3. Len(Tail(obs[j])) <= ChanCap
    BY <2>1, <2>2, Bounds
  <2> QED BY <1>4, <2>2, <2>3, Zenon DEF Take, TypeOK
<1>5. ASSUME NEW j \in Jobs, Push(j) PROVE TypeOK'
  <2>1. /\ out[j] \in Seq(Chunks) /\ Len(out[j]) < ChanCap /\ Len(out[j]) \in Nat
        /\ held[j] \in Chunks
    BY <1>5, SeqLen, Zenon DEF Push, TypeOK, Lives
  <2>2. Append(out[j], held[j]) \in Seq(Chunks) /\ Len(Append(out[j], held[j])) = Len(out[j]) + 1
    BY <2>1, SeqAppend
  <2>3. Len(Append(out[j], held[j])) <= ChanCap
    BY <2>1, <2>2, Bounds
  <2> QED BY <1>5, <2>2, <2>3, Zenon DEF Push, TypeOK
<1>6. ASSUME NEW j \in Jobs, Receive(j) PROVE TypeOK'
  <2>1. /\ out[j] \in Seq(Chunks) /\ out[j] # <<>> /\ Len(out[j]) <= ChanCap /\ Len(out[j]) \in Nat
        /\ got[j] \in Seq(Chunks)
    BY <1>6, SeqLen, Zenon DEF Receive, TypeOK
  <2>2. Head(out[j]) \in Chunks /\ Tail(out[j]) \in Seq(Chunks) /\ Len(Tail(out[j])) = Len(out[j]) - 1
    BY <2>1, SeqTail, Zenon
  <2>3. Len(Tail(out[j])) <= ChanCap
    BY <2>1, <2>2, Bounds
  <2>4. Append(got[j], Head(out[j])) \in Seq(Chunks)
    BY <2>1, <2>2, SeqAppend, Zenon
  <2>5. handler' \in [Jobs -> {"idle", "picked", "range", "returned"}] /\ ctxDone' \subseteq Jobs
    <3>1. \/ handler' = [handler EXCEPT ![j] = "returned"] /\ ctxDone' = ctxDone \cup {j}
          \/ UNCHANGED <<handler, ctxDone>>
      BY <1>6, Zenon DEF Receive
    <3> QED BY <3>1, Zenon DEF TypeOK
  <2>6. /\ got' \in [Jobs -> Seq(Chunks)] /\ out' \in [Jobs -> Seq(Chunks)]
        /\ \A k \in Jobs : Len(out'[k]) <= ChanCap
    BY <1>6, <2>2, <2>3, <2>4, Zenon DEF Receive, TypeOK
  <2> QED BY <1>6, <2>5, <2>6, Zenon DEF Receive, TypeOK
<1>7. ASSUME NEW j \in Jobs, RecvDelta(j) PROVE TypeOK'
  <2>0. /\ sent[j] \in 0 .. MaxDeltas /\ sent[j] < MaxDeltas /\ MaxDeltas \in Nat
        /\ streams[j] \in Deltas \cup {None}
    BY <1>7, Bounds, Zenon DEF TypeOK, RecvDelta
  <2>1. sent[j] + 1 \in Deltas /\ sent[j] + 1 \in 0 .. MaxDeltas
    BY <2>0, SMTT(30) DEF Deltas
  <2>2. reader' \in Reading \cup {None}
    BY <1>7, <2>1, Zenon DEF RecvDelta, Reading
  <2>3. sent' \in [Jobs -> 0 .. MaxDeltas]
    BY <1>7, <2>1, Zenon DEF RecvDelta, TypeOK
  <2>4. streams' \in [Jobs -> Deltas \cup {None}]
    <3>1. 1 \in Deltas /\ (streams[j] # None => streams[j] + 1 \in Deltas)
      BY <2>0 DEF Lives, Deltas
    <3> QED BY <1>7, <3>1, Zenon DEF RecvDelta, TypeOK
  <2> QED BY <1>7, <2>2, <2>3, <2>4, Zenon DEF TypeOK, RecvDelta
<1>8. ASSUME NEW j \in Jobs, NEW c \in {End, Error}, RecvTerminal(j, c) PROVE TypeOK'
  <2>1. reader' \in Reading \cup {None}
    BY <1>8, Bounds DEF RecvTerminal, Reading, TypeOK, Deltas
  <2> QED BY <1>8, <2>1, Zenon DEF TypeOK, RecvTerminal
<1>9. ASSUME ForwardDelta PROVE TypeOK'
  <2>1. reader.job \in Jobs /\ reader.chunk \in Chunks
    BY <1>9, Zenon DEF ForwardDelta, TypeOK, Reading, Chunks, Terminals
  <2>2. /\ obs' \in [Jobs -> Seq(Chunks)] /\ \A k \in Jobs : Len(obs'[k]) <= ChanCap
        /\ dropped' \subseteq Jobs /\ panicked' \in BOOLEAN
    BY <1>9, <2>1, ForwardType, Zenon DEF ForwardDelta
  <2> QED BY <1>9, <2>2, Zenon DEF ForwardDelta, TypeOK
<1>10. ASSUME ForwardTerminal PROVE TypeOK'
  <2>1. reader.job \in Jobs /\ reader.chunk \in Chunks /\ reader' \in Reading
    BY <1>10, Zenon DEF ForwardTerminal, TypeOK, Reading, Chunks, Terminals
  <2>2. /\ obs' \in [Jobs -> Seq(Chunks)] /\ \A k \in Jobs : Len(obs'[k]) <= ChanCap
        /\ dropped' \subseteq Jobs /\ panicked' \in BOOLEAN
    BY <1>10, <2>1, ForwardType, Zenon DEF ForwardTerminal
  <2> QED BY <1>10, <2>1, <2>2, Zenon DEF ForwardTerminal, TypeOK
<1>11. ASSUME Resolve PROVE TypeOK'
  <2>1. reader.job \in Jobs /\ reader.output \in Results
    BY <1>11, Zenon DEF Resolve, TypeOK, Reading, Results
  <2> QED BY <1>11, <2>1, Zenon DEF Resolve, TypeOK
<1>12. ASSUME StreamDrop PROVE TypeOK'
  BY <1>12, Zenon DEF StreamDrop, TypeOK
<1>13. ASSUME NEW f \in Failers, Unregister(f) PROVE TypeOK'
  BY <1>13, Zenon DEF Unregister, TypeOK
<1>14. ASSUME NEW f \in Failers, FailSwap(f) PROVE TypeOK'
  BY <1>14, Zenon DEF FailSwap, TypeOK, Results
<1>15. ASSUME NEW f \in Failers, NEW j \in Jobs, FailObserver(f, j) PROVE TypeOK'
  <2>1. /\ obs' \in [Jobs -> Seq(Chunks)] /\ \A k \in Jobs : Len(obs'[k]) <= ChanCap
        /\ dropped' \subseteq Jobs /\ panicked' \in BOOLEAN
    BY <1>15, ForwardType, Zenon DEF FailObserver, Chunks, Terminals
  <2> QED BY <1>15, <2>1, Zenon DEF FailObserver, TypeOK
<1> QED BY <1>1, <1>2, <1>3, <1>4, <1>5, <1>6, <1>7, <1>8, <1>9, <1>10, <1>11, <1>12, <1>13, <1>14,
           <1>15, <1>16, <1>17, Zenon
        DEF Next, HandlerStep, ForwarderStep, ReaderStep, FailStep

(* What the reader holds is a delta to forward or a terminal chunk.        *)
LEMMA ReaderHolds ==
    ASSUME TypeOK, reader # None
    PROVE  /\ reader.job \in Jobs /\ reader.step \in {"forward", "finish", "resolve"}
           /\ reader.step = "forward" => reader.chunk \in Deltas
           /\ reader.step # "forward" =>
                 reader.chunk \in {End, Error} /\ reader.output \in 0 .. MaxDeltas \cup {Error}
  BY Zenon DEF TypeOK, Reading

(* The reader, its stream and the failers keep their phases.               *)
LEMMA PhasesStep == TypeOK /\ Phases /\ Next => Phases'
<1> SUFFICES ASSUME TypeOK, Phases, Next PROVE Phases'
  BY Zenon
<1> USE DEF workerVars, readVars
<1>0. failer \in [Failers -> {"idle", "swap", "done"}] /\ failing \in [Failers -> SUBSET Jobs]
      /\ up \in BOOLEAN /\ "reader" \in Failers
  BY Zenon DEF TypeOK, Failers
<1>1. ASSUME UNCHANGED <<up, reader, failer, failing>> PROVE Phases'
  BY <1>1, Zenon DEF Phases
<1>2. ASSUME NEW j \in Jobs, Submit(j) \/ Disconnect(j) \/ HandlerStep(j) \/ ForwarderStep(j)
                             \/ DispatchStep(j)
      PROVE  Phases'
  <2>1. UNCHANGED <<up, reader, failer, failing>>
    BY <1>2, Zenon DEF Submit, Disconnect, HandlerStep, AddObserver, Receive, Return, ForwarderStep, Take,
                Push, ObserverClosed, Account, Abort, DispatchStep, AddPending, SendJob,
                DispatchResult, DispatchCancel
  <2> QED BY <1>1, <2>1, Zenon
<1>3. ASSUME NEW j \in Jobs, RecvDelta(j) \/ \E c \in {End, Error} : RecvTerminal(j, c)
      PROVE  Phases'
  BY <1>0, <1>3, Zenon DEF RecvDelta, RecvTerminal, Phases
<1>4. ASSUME ReaderStep PROVE Phases'
  <2>1. up /\ UNCHANGED <<up, failer, failing>>
    BY <1>4, Zenon DEF ReaderStep, ForwardDelta, ForwardTerminal, Resolve, Phases
  <2> QED BY <1>0, <2>1, Zenon DEF Phases
<1>5. ASSUME StreamDrop PROVE Phases'
  BY <1>0, <1>5, Zenon DEF StreamDrop, Phases
<1>6. ASSUME NEW f \in Failers, Unregister(f) PROVE Phases'
  BY <1>0, <1>6, Zenon DEF Unregister, Phases
<1>7. ASSUME NEW f \in Failers, FailSwap(f) PROVE Phases'
  BY <1>0, <1>7, Zenon DEF FailSwap, Phases
<1>8. ASSUME NEW f \in Failers, NEW j \in Jobs, FailObserver(f, j) PROVE Phases'
  BY <1>0, <1>8, Zenon DEF FailObserver, Phases
<1> QED BY <1>2, <1>3, <1>4, <1>5, <1>6, <1>7, <1>8, Zenon DEF Next, FailStep

(* Every goroutine keeps to its place in the life of its job.              *)
LEMMA LivesStep == TypeOK /\ Phases /\ Lives /\ Detached /\ Next => Lives'
<1> SUFFICES ASSUME TypeOK, Phases, Lives, Detached, Next PROVE Lives'
  BY Zenon
<1> USE DEF workerVars, readVars, chanVars, jobVars
<1>0. /\ handler \in [Jobs -> {"idle", "picked", "range", "returned"}]
      /\ fwd \in [Jobs -> {"none", "select", "push", "account", "done"}]
      /\ disp \in [Jobs -> {"none", "add", "send", "await", "done"}]
      /\ resCh \in [Jobs -> Results \cup {None}] /\ result \in [Jobs -> Results \cup {None}]
      /\ held \in [Jobs -> Chunks \cup {None}]
      /\ sent \in [Jobs -> 0 .. MaxDeltas] /\ streams \in [Jobs -> Deltas \cup {None}]
  BY Zenon DEF TypeOK
<1>d. None \notin Chunks /\ None \notin Results /\ MaxDeltas \in Nat /\ Cancelled # None /\ Fail # None
  BY Kinds, Bounds, SMTT(30) DEF Chunks, Deltas, Terminals, Results
<1>1. ASSUME NEW j \in Jobs, Submit(j) PROVE Lives'
  BY <1>0, <1>1 DEF Submit, Lives, On, Finished
<1>2. ASSUME NEW j \in Jobs, Disconnect(j) PROVE Lives'
  BY <1>0, <1>2, ZenonT(40) DEF Disconnect, Lives, On, Finished
<1>3. ASSUME NEW j \in Jobs, AddObserver(j) PROVE Lives'
  BY <1>0, <1>3 DEF AddObserver, Lives, On, Finished
<1>4. ASSUME NEW j \in Jobs, Receive(j) PROVE Lives'
  BY <1>0, <1>4 DEF Receive, Lives, On, Finished
<1>5. ASSUME NEW j \in Jobs, Return(j) PROVE Lives'
  BY <1>0, <1>5 DEF Return, Lives, On, Finished
<1>6. ASSUME NEW j \in Jobs, Take(j) PROVE Lives'
  <2>1. Head(obs[j]) \in Chunks
    BY <1>6, SeqTail, Zenon DEF Take, TypeOK
  <2> QED BY <1>0, <1>d, <1>6, <2>1 DEF Take, Lives, On, Finished
<1>7. ASSUME NEW j \in Jobs, Push(j) PROVE Lives'
  BY <1>0, <1>7, SMTT(30) DEF Push, Lives, On, Finished
<1>8. ASSUME NEW j \in Jobs, ObserverClosed(j) PROVE Lives'
  BY <1>0, <1>8 DEF ObserverClosed, Lives, On, Finished
<1>9. ASSUME NEW j \in Jobs, Account(j) PROVE Lives'
  BY <1>0, <1>9 DEF Account, Lives, On, Finished
<1>10. ASSUME NEW j \in Jobs, Abort(j) PROVE Lives'
  BY <1>0, <1>10 DEF Abort, Lives, On, Finished
<1>11. ASSUME NEW j \in Jobs, AddPending(j) PROVE Lives'
  BY <1>0, <1>11 DEF AddPending, Lives, On, Finished
<1>12. ASSUME NEW j \in Jobs, SendJob(j) PROVE Lives'
  BY <1>0, <1>12 DEF SendJob, Lives, On, Finished
<1>13. ASSUME NEW j \in Jobs, DispatchResult(j) PROVE Lives'
  BY <1>0, <1>13 DEF DispatchResult, dispatchReturns, Lives, On, Finished
<1>14. ASSUME NEW j \in Jobs, DispatchCancel(j) PROVE Lives'
  BY <1>0, <1>d, <1>14, SMTT(30) DEF DispatchCancel, dispatchReturns, Lives, On, Finished
<1>15. ASSUME NEW j \in Jobs, RecvDelta(j) PROVE Lives'
  BY <1>0, <1>d, <1>15, SMTT(30) DEF RecvDelta, Lives, On, Finished, Deltas
<1>16. ASSUME NEW j \in Jobs, NEW c \in {End, Error}, RecvTerminal(j, c) PROVE Lives'
  BY <1>0, <1>16 DEF RecvTerminal, Lives, On, Finished
<1>17. ASSUME ForwardDelta PROVE Lives'
  BY <1>0, <1>17, Zenon DEF ForwardDelta, Lives, On, Finished
<1>18. ASSUME ForwardTerminal PROVE Lives'
  BY <1>0, <1>18, ZenonT(40) DEF ForwardTerminal, Lives, On, Finished, TypeOK, Reading
<1>19. ASSUME Resolve PROVE Lives'
  BY <1>0, <1>19, ReaderHolds DEF Resolve, Lives, On, Finished
<1>20. ASSUME StreamDrop PROVE Lives'
  BY <1>0, <1>20, Zenon DEF StreamDrop, Lives, On, Finished
<1>21. ASSUME NEW f \in Failers, Unregister(f) PROVE Lives'
  BY <1>0, <1>21, Zenon DEF Unregister, Lives, On, Finished
<1>22. ASSUME NEW f \in Failers, FailSwap(f) PROVE Lives'
  BY <1>0, <1>22, Zenon DEF FailSwap, Lives, On, Finished
<1>23. ASSUME NEW f \in Failers, NEW j \in Jobs, FailObserver(f, j) PROVE Lives'
  BY <1>0, <1>23 DEF FailObserver, Lives, On, Finished
<1> QED BY <1>1, <1>2, <1>3, <1>4, <1>5, <1>6, <1>7, <1>8, <1>9, <1>10, <1>11, <1>12, <1>13, <1>14,
           <1>15, <1>16, <1>17, <1>18, <1>19, <1>20, <1>21, <1>22, <1>23, Zenon
        DEF Next, HandlerStep, ForwarderStep, DispatchStep, ReaderStep, FailStep

(* An observer changes hands only under the lock, and only from the map to *)
(* the reader or to one failer.                                            *)
LEMMA DetachedStep == TypeOK /\ Phases /\ Lives /\ Detached /\ Next => Detached'
<1> SUFFICES ASSUME TypeOK, Phases, Lives, Detached, Next PROVE Detached'
  BY Zenon
<1> USE DEF workerVars, readVars, chanVars, jobVars
<1>0. /\ handler \in [Jobs -> {"idle", "picked", "range", "returned"}]
      /\ fwd \in [Jobs -> {"none", "select", "push", "account", "done"}]
      /\ failer \in [Failers -> {"idle", "swap", "done"}] /\ failing \in [Failers -> SUBSET Jobs]
      /\ Failers = {"reader", "evictor"}
  BY Zenon DEF TypeOK, Failers
<1>1. ASSUME UNCHANGED <<observers, obsClosed, failing, failer, reader>>,
             \A k \in Jobs : /\ fwd'[k] = "none" => fwd[k] = "none"
                             /\ fwd'[k] \in {"select", "push"} \/ fwd'[k] = fwd[k] \/ k \notin observers
      PROVE  Detached'
  BY <1>0, <1>1, Zenon DEF Detached, Finishing, Forwarding, On
<1>2. ASSUME NEW j \in Jobs, Submit(j) \/ Disconnect(j) \/ Receive(j) \/ Return(j) \/ AddPending(j)
                             \/ SendJob(j) \/ DispatchResult(j) \/ DispatchCancel(j)
      PROVE  Detached'
  <2>1. UNCHANGED <<observers, obsClosed, failing, failer, reader, fwd>>
    BY <1>2, Zenon DEF Submit, Disconnect, Receive, Return, AddPending, SendJob, DispatchResult,
                DispatchCancel
  <2> QED BY <1>1, <2>1, Zenon
<1>17. ASSUME StreamDrop PROVE Detached'
  BY <1>0, <1>1, <1>17, Zenon DEF StreamDrop
<1>3. ASSUME NEW j \in Jobs, AddObserver(j) PROVE Detached'
  <2>1. fwd[j] = "none" /\ ~On(j) /\ j \notin obsClosed /\ \A f \in Failers : j \notin failing[f]
    BY <1>0, <1>3, Zenon DEF AddObserver, Lives, Detached
  <2> QED BY <1>0, <1>3, <2>1, ZenonT(40) DEF AddObserver, Detached, Finishing, Forwarding, On
<1>4. ASSUME NEW j \in Jobs, Take(j) PROVE Detached'
  BY <1>0, <1>1, <1>4, Zenon DEF Take
<1>5. ASSUME NEW j \in Jobs, Push(j) PROVE Detached'
  BY <1>0, <1>1, <1>5, Zenon DEF Push
<1>6. ASSUME NEW j \in Jobs, ObserverClosed(j) PROVE Detached'
  BY <1>0, <1>1, <1>6, Zenon DEF ObserverClosed, Detached
<1>7. ASSUME NEW j \in Jobs, Account(j) PROVE Detached'
  BY <1>0, <1>1, <1>7, ZenonT(40) DEF Account, Detached, Lives
<1>8. ASSUME NEW j \in Jobs, Abort(j) PROVE Detached'
  BY <1>0, <1>8, Zenon DEF Abort, Detached, Finishing, Forwarding, On
<1>9. ASSUME NEW j \in Jobs, RecvDelta(j) PROVE Detached'
  BY <1>0, <1>9 DEF RecvDelta, Detached, Finishing, Forwarding, On
<1>10. ASSUME NEW j \in Jobs, NEW c \in {End, Error}, RecvTerminal(j, c) PROVE Detached'
  BY <1>0, <1>10 DEF RecvTerminal, Detached, Finishing, Forwarding, On
<1>11. ASSUME ForwardDelta PROVE Detached'
  BY <1>0, <1>11, Zenon DEF ForwardDelta, Detached, Finishing, Forwarding, On
<1>12. ASSUME ForwardTerminal PROVE Detached'
  <2>1. reader \in Reading /\ reader' = [reader EXCEPT !.step = "resolve"]
    BY <1>12, Zenon DEF ForwardTerminal, TypeOK
  <2>2. \A j \in Jobs : ~Finishing(j)' /\ ~Forwarding(j)'
    BY <2>1, Zenon DEF Reading, Finishing, Forwarding, On
  <2>3. /\ UNCHANGED <<observers, failing, failer, fwd>> /\ obsClosed' = obsClosed \cup {reader.job}
        /\ reader.job \in Jobs /\ Finishing(reader.job)
    BY <1>12, ReaderHolds, Zenon DEF ForwardTerminal, Finishing, On
  <2>4. /\ reader.job \notin observers /\ \A f \in Failers : reader.job \notin failing[f]
        /\ fwd[reader.job] # "none"
    BY <2>3, Zenon DEF Detached, Lives, Finishing
  <2> QED BY <1>0, <2>2, <2>3, <2>4 DEF Detached
<1>13. ASSUME Resolve PROVE Detached'
  BY <1>0, <1>13, Zenon DEF Resolve, Detached, Finishing, Forwarding, On
<1>14. ASSUME NEW f \in Failers, Unregister(f) PROVE Detached'
  BY <1>0, <1>14, Zenon DEF Unregister, Detached, Finishing, Forwarding, On
<1>15. ASSUME NEW f \in Failers, FailSwap(f) PROVE Detached'
  BY <1>0, <1>15, ZenonT(40) DEF FailSwap, Detached, Finishing, Forwarding, On, Phases
<1>16. ASSUME NEW f \in Failers, NEW j \in Jobs, FailObserver(f, j) PROVE Detached'
  <2>1. failer[f] = "done" /\ j \in failing[f]
    BY <1>0, <1>16, Zenon DEF FailObserver, Phases
  <2>2. On(j) => f = "evictor"
    BY <1>0, <2>1, Zenon DEF On, Phases
  <2>3. fwd[j] # "none" /\ j \notin observers /\ ~Finishing(j) /\ \A g \in Failers : j \in failing[g] => f = g
    BY <1>0, <2>1, Zenon DEF Detached
  <2> QED BY <1>0, <1>16, <2>1, <2>2, <2>3 DEF FailObserver, Detached, Finishing, Forwarding, On
<1> QED BY <1>2, <1>3, <1>4, <1>5, <1>6, <1>7, <1>8, <1>9, <1>10, <1>11, <1>12, <1>13, <1>14,
           <1>15, <1>16, <1>17, Zenon
        DEF Next, HandlerStep, ForwarderStep, DispatchStep, ReaderStep, FailStep

(* Only an eviction can close a channel under the reader.                  *)
LEMMA PanicStep == TypeOK /\ Phases /\ Detached /\ PanicOnlyFromEviction /\ Next => PanicOnlyFromEviction'
<1> SUFFICES ASSUME TypeOK, Phases, Detached, Next, panicked'
             PROVE  failer'["evictor"] = "done"
  BY Zenon DEF PanicOnlyFromEviction
<1> USE DEF workerVars, readVars, chanVars, jobVars
<1>0. ~panicked /\ "evictor" \in Failers
  BY Zenon DEF Next, Failers
<1>1. ASSUME NEW j \in Jobs PROVE ~(Submit(j) \/ Disconnect(j) \/ HandlerStep(j) \/ ForwarderStep(j)
                                    \/ DispatchStep(j) \/ RecvDelta(j))
  BY <1>0, Zenon DEF Submit, Disconnect, HandlerStep, AddObserver, Receive, Return, ForwarderStep, Take, Push,
              ObserverClosed, Account, Abort, DispatchStep, AddPending, SendJob, DispatchResult,
              DispatchCancel, RecvDelta
<1>2. ~(Resolve \/ StreamDrop \/ \E f \in Failers : Unregister(f) \/ FailSwap(f))
  BY <1>0, Zenon DEF Resolve, StreamDrop, Unregister, FailSwap
<1>3. \A j \in Jobs, c \in {End, Error} : ~RecvTerminal(j, c)
  BY <1>0, Zenon DEF RecvTerminal
<1>4. ASSUME ForwardDelta PROVE failer'["evictor"] = "done"
  <2>1. /\ reader # None /\ reader.step = "forward" /\ UNCHANGED failer
        /\ reader.job \in obsClosed
    BY <1>0, <1>4, Zenon DEF ForwardDelta, forwardChunk
  <2> QED BY <2>1, ReaderHolds, Zenon DEF Detached, Forwarding, On
<1>5. ~ForwardTerminal
  <2> SUFFICES ASSUME ForwardTerminal PROVE FALSE
    BY Zenon
  <2>1. /\ reader # None /\ reader.step = "finish" /\ reader.job \in obsClosed
    BY <1>0, Zenon DEF ForwardTerminal, forwardChunk
  <2> QED BY <2>1, ReaderHolds, Zenon DEF Detached, Finishing, On
<1>6. ASSUME NEW f \in Failers, NEW j \in Jobs PROVE ~FailObserver(f, j)
  BY <1>0, Zenon DEF FailObserver, forwardChunk, Detached
<1> QED BY <1>1, <1>2, <1>3, <1>4, <1>5, <1>6, Zenon DEF Next, ReaderStep, FailStep

(* The invariant of the goroutines holds in every behaviour.               *)
THEOREM StreamInvariant == Spec => []StreamInv
<1>1. Init => StreamInv
  <2> SUFFICES ASSUME Init PROVE StreamInv
    BY Zenon
  <2>1. Phases /\ PanicOnlyFromEviction
    BY Zenon DEF Init, Phases, PanicOnlyFromEviction, Failers
  <2>2. Lives
    BY Zenon DEF Init, Lives, On, Finished
  <2>3. Detached
    BY Zenon DEF Init, Detached, On, Finishing, Forwarding
  <2> QED BY <2>1, <2>2, <2>3, InitType, Zenon DEF StreamInv
<1>2. StreamInv /\ [Next]_vars => StreamInv'
  <2>1. StreamInv /\ Next => StreamInv'
    BY TypeStep, PhasesStep, LivesStep, DetachedStep, PanicStep, Zenon DEF StreamInv
  <2>2. ASSUME StreamInv, UNCHANGED vars PROVE StreamInv'
    <3> USE <2>2 DEF vars, workerVars, readVars, chanVars, jobVars
    <3>1. TypeOK' /\ Phases' /\ PanicOnlyFromEviction'
      BY Zenon DEF StreamInv, TypeOK, Phases, PanicOnlyFromEviction
    <3>2. Lives' /\ Detached'
      BY DEF StreamInv, Lives, Detached, On, Finished, Finishing, Forwarding
    <3> QED BY <3>1, <3>2, Zenon DEF StreamInv
  <2> QED BY <2>1, <2>2, Zenon
<1> QED BY <1>1, <1>2, PTL DEF Spec

(* However a stream ends, its goroutines leave nothing of it in the        *)
(* worker's maps, and a send on a closed observer channel needs an         *)
(* eviction beside the reader of a live stream.                            *)
THEOREM StreamsEndCleanly == Spec => []EndsCleanly
<1>1. StreamInv => EndsCleanly
  <2> SUFFICES ASSUME StreamInv PROVE EndsCleanly
    BY Zenon
  <2>1. NothingLeft
    BY Zenon DEF StreamInv, NothingLeft, Detached, Lives
  <2> QED BY <2>1, Zenon DEF StreamInv, EndsCleanly
<1> QED BY <1>1, StreamInvariant, PTL

-----------------------------------------------------------------------------
(* What the client has seen of a job and what is on its way: the chunks    *)
(* got, those in out, the one in hand and those in the observer channel.   *)
Line(g, o, h, b) == g \o o \o (IF h = None THEN <<>> ELSE <<h>>) \o b

(* The shape of a line.                                                    *)
LEMMA LineParts ==
    ASSUME NEW g \in Seq(Chunks), NEW o \in Seq(Chunks), NEW h \in Chunks \cup {None},
           NEW b \in Seq(Chunks)
    PROVE  /\ g \o o \in Seq(Chunks) /\ Len(g \o o) = Len(g) + Len(o)
           /\ (IF h = None THEN <<>> ELSE <<h>>) \in Seq(Chunks)
           /\ g \o o \o (IF h = None THEN <<>> ELSE <<h>>) \in Seq(Chunks)
           /\ Line(g, o, h, b) \in Seq(Chunks)
<1>1. (IF h = None THEN <<>> ELSE <<h>>) \in Seq(Chunks)
  OBVIOUS
<1>2. g \o o \in Seq(Chunks) /\ Len(g \o o) = Len(g) + Len(o)
  BY SeqConcat, Zenon
<1>3. g \o o \o (IF h = None THEN <<>> ELSE <<h>>) \in Seq(Chunks)
  BY <1>1, <1>2, SeqConcat, Zenon
<1> QED BY <1>1, <1>2, <1>3, SeqConcat, Zenon DEF Line

(* Concatenation, for sequences of chunks.                                 *)
LEMMA ChunkConcat ==
    ASSUME NEW s \in Seq(Chunks), NEW t \in Seq(Chunks)
    PROVE  /\ s \o t \in Seq(Chunks) /\ Len(s \o t) = Len(s) + Len(t)
           /\ Len(s) \in Nat /\ Len(t) \in Nat
           /\ \A n \in 1 .. Len(s) + Len(t) : (s \o t)[n] = IF n <= Len(s) THEN s[n] ELSE t[n - Len(s)]
           /\ \A u \in Seq(Chunks) : (s \o t) \o u = s \o (t \o u)
  BY SeqConcat, ConcatThree, SeqLen, SMTT(30)

(* None is no chunk.                                                       *)
LEMMA NoneIsNoChunk == None \notin Chunks
  BY Kinds, Bounds DEF Chunks, Deltas, Terminals

(* Taking a chunk in hand moves it along the line.                         *)
LEMMA LineTake ==
    ASSUME NEW g \in Seq(Chunks), NEW o \in Seq(Chunks), NEW b \in Seq(Chunks), b # <<>>
    PROVE  Line(g, o, Head(b), Tail(b)) = Line(g, o, None, b)
<1>1. Head(b) \in Chunks /\ Tail(b) \in Seq(Chunks) /\ <<Head(b)>> \in Seq(Chunks)
  BY SeqTail
<1>2. <<Head(b)>> \o Tail(b) = b
  BY HeadFirst, Zenon
<1>3. g \o o \in Seq(Chunks)
  BY SeqConcat, Zenon
<1>4. (g \o o) \o <<>> = g \o o
  BY <1>3, ConcatNothing, Zenon
<1>5. ((g \o o) \o <<Head(b)>>) \o Tail(b) = (g \o o) \o (<<Head(b)>> \o Tail(b))
  BY <1>1, <1>3, ConcatThree, SMTT(30)
<1>6. Line(g, o, None, b) = (g \o o) \o b
  BY <1>4, Zenon DEF Line
<1>7. Line(g, o, Head(b), Tail(b)) = ((g \o o) \o <<Head(b)>>) \o Tail(b)
  BY <1>1, NoneIsNoChunk, Zenon DEF Line
<1> QED BY <1>2, <1>5, <1>6, <1>7, Zenon

(* So does passing it to the handler's channel,                            *)
LEMMA LinePush ==
    ASSUME NEW g \in Seq(Chunks), NEW o \in Seq(Chunks), NEW b \in Seq(Chunks), NEW h \in Chunks
    PROVE  Line(g, Append(o, h), None, b) = Line(g, o, h, b)
<1>1. Append(o, h) = o \o <<h>> /\ <<h>> \in Seq(Chunks)
  BY AppendLast
<1>2. g \o (o \o <<h>>) = (g \o o) \o <<h>>
  BY <1>1, ConcatThree, SMTT(30)
<1>3. (g \o o) \o <<h>> \in Seq(Chunks)
  BY <1>1, SeqConcat, Zenon
<1>4. ((g \o o) \o <<h>>) \o <<>> = (g \o o) \o <<h>>
  BY <1>3, ConcatNothing, Zenon
<1>5. Line(g, Append(o, h), None, b) = ((g \o Append(o, h)) \o <<>>) \o b
  BY Zenon DEF Line
<1>6. Line(g, o, h, b) = ((g \o o) \o <<h>>) \o b
  BY NoneIsNoChunk, Zenon DEF Line
<1> QED BY <1>1, <1>2, <1>4, <1>5, <1>6, Zenon

(* and receiving it there.                                                 *)
LEMMA ReceiveKeeps ==
    ASSUME NEW g \in Seq(Chunks), NEW o \in Seq(Chunks), o # <<>>
    PROVE  Append(g, Head(o)) \o Tail(o) = g \o o
<1>1. Head(o) \in Chunks /\ Tail(o) \in Seq(Chunks) /\ <<Head(o)>> \in Seq(Chunks)
  BY SeqTail
<1>2. <<Head(o)>> \o Tail(o) = o
  BY HeadFirst, Zenon
<1>3. Append(g, Head(o)) = g \o <<Head(o)>>
  BY <1>1, AppendLast, Zenon
<1>4. (g \o <<Head(o)>>) \o Tail(o) = g \o (<<Head(o)>> \o Tail(o))
  BY <1>1, ConcatThree, SMTT(30)
<1> QED BY <1>2, <1>3, <1>4, Zenon

LEMMA LineReceive ==
    ASSUME NEW g \in Seq(Chunks), NEW o \in Seq(Chunks), NEW b \in Seq(Chunks),
           NEW h \in Chunks \cup {None}, o # <<>>
    PROVE  Line(Append(g, Head(o)), Tail(o), h, b) = Line(g, o, h, b)
<1>1. Append(g, Head(o)) \o Tail(o) = g \o o
  BY ReceiveKeeps, Zenon
<1> QED BY <1>1, Zenon DEF Line

(* A send puts the chunk at the end.                                       *)
LEMMA SendAtEnd ==
    ASSUME NEW s \in Seq(Chunks), NEW b \in Seq(Chunks), NEW c \in Chunks
    PROVE  s \o Append(b, c) = Append(s \o b, c)
<1>1. Append(b, c) = b \o <<c>> /\ <<c>> \in Seq(Chunks)
  BY AppendLast
<1>2. s \o b \in Seq(Chunks)
  BY SeqConcat, Zenon
<1>3. Append(s \o b, c) = (s \o b) \o <<c>>
  BY <1>2, AppendLast, Zenon
<1>4. (s \o b) \o <<c>> = s \o (b \o <<c>>)
  BY <1>1, ChunkConcat, ZenonT(40)
<1> QED BY <1>1, <1>3, <1>4, Zenon

(* Dropping the chunk between two sequences closes the gap it leaves.      *)
LEMMA GapCloses ==
    ASSUME NEW s \in Seq(Chunks), NEW h \in Chunks, NEW b \in Seq(Chunks)
    PROVE  /\ Len((s \o <<h>>) \o b) = Len(s \o b) + 1
           /\ \A n \in 1 .. Len(s \o b) :
                 (s \o b)[n] = IF n <= Len(s) THEN ((s \o <<h>>) \o b)[n]
                                              ELSE ((s \o <<h>>) \o b)[n + 1]
<1> DEFINE r == s \o <<h>>
           p == r \o b
           q == s \o b
<1>1. <<h>> \in Seq(Chunks) /\ Len(<<h>>) = 1
  OBVIOUS
<1>2. /\ r \in Seq(Chunks) /\ Len(r) = Len(s) + Len(<<h>>) /\ Len(s) \in Nat
      /\ \A n \in 1 .. Len(s) + Len(<<h>>) : r[n] = IF n <= Len(s) THEN s[n] ELSE <<h>>[n - Len(s)]
  BY <1>1, ChunkConcat, Zenon
<1> HIDE DEF r
<1>3. /\ Len(p) = Len(r) + Len(b) /\ Len(b) \in Nat
      /\ \A n \in 1 .. Len(r) + Len(b) : p[n] = IF n <= Len(r) THEN r[n] ELSE b[n - Len(r)]
  BY <1>2, ChunkConcat, Zenon
<1>4. /\ Len(q) = Len(s) + Len(b)
      /\ \A n \in 1 .. Len(s) + Len(b) : q[n] = IF n <= Len(s) THEN s[n] ELSE b[n - Len(s)]
  BY ChunkConcat, Zenon
<1> HIDE DEF p, q
<1>5. Len(r) = Len(s) + 1 /\ Len(p) = Len(q) + 1 /\ \A n \in 1 .. Len(s) : r[n] = s[n]
  BY <1>1, <1>2, <1>3, <1>4
<1>6. ASSUME NEW n \in 1 .. Len(q) PROVE q[n] = IF n <= Len(s) THEN p[n] ELSE p[n + 1]
  <2>1. CASE n <= Len(s)
    <3>1. /\ n \in 1 .. Len(s) /\ n \in 1 .. Len(s) + Len(b) /\ n \in 1 .. Len(r) + Len(b)
          /\ n <= Len(r)
      BY <1>2, <1>3, <1>4, <1>5, <2>1
    <3> QED BY <1>3, <1>4, <1>5, <2>1, <3>1, Zenon
  <2>2. CASE ~(n <= Len(s))
    <3>1. /\ q[n] = b[n - Len(s)] /\ n + 1 \in 1 .. Len(r) + Len(b) /\ ~(n + 1 <= Len(r))
          /\ (n + 1) - Len(r) = n - Len(s)
      BY <1>2, <1>3, <1>4, <1>5, <2>2
    <3> QED BY <1>3, <2>2, <3>1, Zenon
  <2> QED BY <2>1, <2>2, Zenon
<1> QED BY <1>5, <1>6, Zenon DEF p, q, r


(* The pipeline of a job is a line of chunks.                              *)
LEMMA PipelineType ==
    ASSUME TypeOK, NEW j \in Jobs
    PROVE  /\ got[j] \in Seq(Chunks) /\ out[j] \in Seq(Chunks) /\ obs[j] \in Seq(Chunks)
           /\ held[j] \in Chunks \cup {None}
           /\ Pipeline(j) = Line(got[j], out[j], held[j], obs[j])
           /\ Pipeline(j) \in Seq(Chunks) /\ Len(Pipeline(j)) \in Nat
           /\ DOMAIN Pipeline(j) = 1 .. Len(Pipeline(j))
           /\ DOMAIN (got[j] \o out[j]) = 1 .. Len(got[j] \o out[j])
           /\ Len(got[j] \o out[j]) \in Nat
<1>1. /\ got[j] \in Seq(Chunks) /\ out[j] \in Seq(Chunks) /\ obs[j] \in Seq(Chunks)
      /\ held[j] \in Chunks \cup {None}
  BY Zenon DEF TypeOK
<1>2. Pipeline(j) = Line(got[j], out[j], held[j], obs[j])
  BY Zenon DEF Pipeline, Line
<1>3. Pipeline(j) \in Seq(Chunks) /\ got[j] \o out[j] \in Seq(Chunks)
  BY <1>1, <1>2, LineParts
<1> QED BY <1>1, <1>2, <1>3, SeqLen, Zenon

(* A step that touches none of the channels leaves the pipelines alone.    *)
LEMMA PipelineSame ==
    ASSUME UNCHANGED <<got, out, held, obs>>
    PROVE  \A k \in Jobs : Pipeline(k)' = Pipeline(k)
  BY Zenon DEF Pipeline

(* The forwarder and the handler move chunks along the pipeline.           *)
LEMMA PipelineMoves ==
    ASSUME TypeOK, Lives, NEW j \in Jobs, Take(j) \/ Push(j) \/ Receive(j)
    PROVE  \A k \in Jobs : Pipeline(k)' = Pipeline(k)
<1>0. /\ got \in [Jobs -> Seq(Chunks)] /\ out \in [Jobs -> Seq(Chunks)]
      /\ obs \in [Jobs -> Seq(Chunks)] /\ held \in [Jobs -> Chunks \cup {None}]
  BY Zenon DEF TypeOK
<1>1. \A k \in Jobs \ {j} : got'[k] = got[k] /\ out'[k] = out[k] /\ obs'[k] = obs[k] /\ held'[k] = held[k]
  BY <1>0, Zenon DEF Take, Push, Receive
<1>2. \A k \in Jobs \ {j} : Pipeline(k)' = Pipeline(k)
  BY <1>1, Zenon DEF Pipeline
<1>3. Pipeline(j)' = Line(got'[j], out'[j], held'[j], obs'[j])
  BY Zenon DEF Pipeline, Line
<1>4. Pipeline(j) = Line(got[j], out[j], held[j], obs[j])
  BY PipelineType, Zenon
<1>5. CASE Take(j)
  <2>1. /\ obs[j] # <<>> /\ held[j] = None /\ held'[j] = Head(obs[j]) /\ obs'[j] = Tail(obs[j])
        /\ got'[j] = got[j] /\ out'[j] = out[j]
    BY <1>0, <1>5, Zenon DEF Take, Lives
  <2>2. Line(got[j], out[j], Head(obs[j]), Tail(obs[j])) = Line(got[j], out[j], None, obs[j])
    <3>1. got[j] \in Seq(Chunks) /\ out[j] \in Seq(Chunks) /\ obs[j] \in Seq(Chunks)
      BY PipelineType, Zenon
    <3> QED BY <2>1, <3>1, LineTake, ZenonT(40)
  <2> QED BY <1>2, <1>3, <1>4, <2>1, <2>2, Zenon
<1>6. CASE Push(j)
  <2>1. /\ held[j] \in Chunks /\ held'[j] = None /\ out'[j] = Append(out[j], held[j])
        /\ got'[j] = got[j] /\ obs'[j] = obs[j]
    BY <1>0, <1>6, Zenon DEF Push, Lives
  <2>2. Line(got[j], Append(out[j], held[j]), None, obs[j]) = Line(got[j], out[j], held[j], obs[j])
    BY <1>0, <2>1, LinePush
  <2> QED BY <1>2, <1>3, <1>4, <2>1, <2>2, Zenon
<1>7. CASE Receive(j)
  <2>1. /\ out[j] # <<>> /\ got'[j] = Append(got[j], Head(out[j])) /\ out'[j] = Tail(out[j])
        /\ held'[j] = held[j] /\ obs'[j] = obs[j]
    BY <1>0, <1>7, Zenon DEF Receive
  <2>2. Line(Append(got[j], Head(out[j])), Tail(out[j]), held[j], obs[j])
            = Line(got[j], out[j], held[j], obs[j])
    BY <1>0, <2>1, LineReceive
  <2> QED BY <1>2, <1>3, <1>4, <2>1, <2>2, Zenon
<1> QED BY <1>5, <1>6, <1>7, Zenon

(* A send adds its chunk at the end, or is refused by a full or a closed   *)
(* channel.                                                                *)
LEMMA PipelineSends ==
    ASSUME TypeOK, NEW j \in Jobs, NEW c \in Chunks, forwardChunk(j, c), UNCHANGED <<got, out, held>>
    PROVE  /\ \A k \in Jobs \ {j} : Pipeline(k)' = Pipeline(k)
           /\ \/ Pipeline(j)' = Pipeline(j) /\ (j \in obsClosed \/ j \in dropped')
              \/ Pipeline(j)' = Append(Pipeline(j), c) /\ j \notin obsClosed
           /\ dropped \subseteq dropped'
<1>0. obs \in [Jobs -> Seq(Chunks)] /\ got' = got /\ out' = out /\ held' = held
  BY Zenon DEF TypeOK
<1>1. /\ \/ obs' = obs /\ (j \in obsClosed \/ j \in dropped')
         \/ obs' = [obs EXCEPT ![j] = Append(@, c)] /\ j \notin obsClosed
      /\ dropped \subseteq dropped'
  BY Zenon DEF forwardChunk
<1>2. \A k \in Jobs \ {j} : Pipeline(k)' = Pipeline(k)
  <2>1. \A k \in Jobs \ {j} : obs'[k] = obs[k]
    BY <1>0, <1>1, Zenon
  <2> QED BY <1>0, <2>1, Zenon DEF Pipeline
<1> DEFINE front(k) == got[k] \o out[k] \o (IF held[k] = None THEN <<>> ELSE <<held[k]>>)
<1>3. Pipeline(j) = front(j) \o obs[j] /\ Pipeline(j)' = front(j) \o obs'[j]
  BY <1>0, Zenon DEF Pipeline
<1>4. front(j) \in Seq(Chunks) /\ obs[j] \in Seq(Chunks)
  <2>1. /\ got[j] \in Seq(Chunks) /\ out[j] \in Seq(Chunks) /\ obs[j] \in Seq(Chunks)
        /\ held[j] \in Chunks \cup {None}
    BY Zenon DEF TypeOK
  <2> QED BY <2>1, LineParts, Zenon
<1> HIDE DEF front
<1>5. CASE obs' = obs /\ (j \in obsClosed \/ j \in dropped')
  BY <1>1, <1>2, <1>3, <1>5, Zenon
<1>6. CASE obs' = [obs EXCEPT ![j] = Append(@, c)] /\ j \notin obsClosed
  <2>1. obs'[j] = Append(obs[j], c)
    BY <1>0, <1>6, Zenon
  <2>2. front(j) \o Append(obs[j], c) = Append(front(j) \o obs[j], c)
    BY <1>4, SendAtEnd, Zenon
  <2> QED BY <1>1, <1>2, <1>3, <1>6, <2>1, <2>2, Zenon
<1> QED BY <1>1, <1>5, <1>6, Zenon

(* A forwarder that aborts takes at most the chunk in its hand out of the  *)
(* pipeline.                                                               *)
LEMMA PipelineAborts ==
    ASSUME TypeOK, NEW j \in Jobs, Abort(j)
    PROVE  /\ \A k \in Jobs \ {j} : Pipeline(k)' = Pipeline(k)
           /\ Len(Pipeline(j)') \in Nat /\ DOMAIN Pipeline(j)' = 1 .. Len(Pipeline(j)')
           /\ \/ Pipeline(j)' = Pipeline(j)
              \/ \E m \in Nat :
                    /\ Len(Pipeline(j)) = Len(Pipeline(j)') + 1
                    /\ \A n \in 1 .. Len(Pipeline(j)') :
                          Pipeline(j)'[n] = IF n <= m THEN Pipeline(j)[n] ELSE Pipeline(j)[n + 1]
<1>0. /\ held \in [Jobs -> Chunks \cup {None}]
      /\ got' = got /\ out' = out /\ obs' = obs /\ held' = [held EXCEPT ![j] = None]
  BY Zenon DEF TypeOK, Abort
<1>1. \A k \in Jobs \ {j} : Pipeline(k)' = Pipeline(k)
  <2>1. \A k \in Jobs \ {j} : held'[k] = held[k]
    BY <1>0, Zenon
  <2> QED BY <1>0, <2>1, Zenon DEF Pipeline
<1> DEFINE s(k) == got[k] \o out[k]
<1>2. s(j) \in Seq(Chunks) /\ obs[j] \in Seq(Chunks)
  BY SeqConcat, Zenon DEF TypeOK
<1>3. Pipeline(j)' = s(j) \o obs[j]
  <2>1. held'[j] = None /\ s(j) \o <<>> = s(j)
    BY <1>0, <1>2, ConcatNothing, Zenon
  <2> QED BY <1>0, <2>1, Zenon DEF Pipeline
<1>4. Len(Pipeline(j)') \in Nat /\ DOMAIN Pipeline(j)' = 1 .. Len(Pipeline(j)')
  <2>1. s(j) \o obs[j] \in Seq(Chunks)
    BY <1>2, SeqConcat, Zenon
  <2> QED BY <1>3, <2>1, SeqLen, Zenon
<1>5. CASE held[j] = None
  <2>1. s(j) \o <<>> = s(j)
    BY <1>2, ConcatNothing, Zenon
  <2>2. Pipeline(j) = s(j) \o obs[j]
    BY <1>5, <2>1, Zenon DEF Pipeline
  <2> QED BY <1>1, <1>3, <1>4, <2>2, Zenon
<1>6. CASE held[j] # None
  <2>1. Pipeline(j) = (s(j) \o <<held[j]>>) \o obs[j] /\ held[j] \in Chunks
    BY <1>0, <1>6, Zenon DEF Pipeline
  <2>2. Len(s(j)) \in Nat
    BY <1>2, SeqLen, Zenon
  <2> HIDE DEF s
  <2>3. /\ Len(Pipeline(j)) = Len(Pipeline(j)') + 1
        /\ \A n \in 1 .. Len(Pipeline(j)') :
              Pipeline(j)'[n] = IF n <= Len(s(j)) THEN Pipeline(j)[n] ELSE Pipeline(j)[n + 1]
    <3>1. /\ Len((s(j) \o <<held[j]>>) \o obs[j]) = Len(s(j) \o obs[j]) + 1
          /\ \A n \in 1 .. Len(s(j) \o obs[j]) :
                (s(j) \o obs[j])[n] = IF n <= Len(s(j)) THEN ((s(j) \o <<held[j]>>) \o obs[j])[n]
                                                       ELSE ((s(j) \o <<held[j]>>) \o obs[j])[n + 1]
      BY <1>2, <2>1, GapCloses, Zenon
    <3> QED BY <1>3, <2>1, <3>1, Zenon
  <2> QED BY <1>1, <1>4, <2>2, <2>3, Zenon
<1> QED BY <1>5, <1>6, Zenon

(* A chunk after deltas that are all before it keeps the order.            *)
LEMMA OrderedAppend ==
    ASSUME NEW s \in Seq(Chunks), NEW c \in Chunks, OrderedSeq(s),
           \A n \in DOMAIN s : s[n] \in Deltas /\ (c \in Deltas => s[n] < c)
    PROVE  OrderedSeq(Append(s, c))
<1>1. /\ Len(s) \in Nat /\ DOMAIN s = 1 .. Len(s)
      /\ DOMAIN Append(s, c) = 1 .. Len(s) + 1
      /\ \A n \in 1 .. Len(s) : Append(s, c)[n] = s[n]
      /\ Append(s, c)[Len(s) + 1] = c
  BY SeqLen, SeqAppend
<1> DEFINE t == Append(s, c)
<1> HIDE DEF t
<1>2. DOMAIN t = 1 .. Len(s) + 1 /\ (\A n \in 1 .. Len(s) : t[n] = s[n]) /\ t[Len(s) + 1] = c
  BY <1>1, Zenon DEF t
<1>3. ASSUME NEW a \in DOMAIN t, NEW b \in DOMAIN t, a < b
      PROVE  t[a] \in Deltas /\ (t[b] \in Deltas => t[a] < t[b])
  <2>1. a \in 1 .. Len(s) /\ (b \in 1 .. Len(s) \/ b = Len(s) + 1)
    BY <1>1, <1>2, <1>3
  <2>2. t[a] = s[a] /\ s[a] \in Deltas
    BY <1>1, <1>2, <2>1, Zenon
  <2>3. CASE b \in 1 .. Len(s)
    BY <1>1, <1>2, <1>3, <2>1, <2>2, <2>3, Zenon DEF OrderedSeq
  <2>4. CASE b = Len(s) + 1
    BY <1>1, <1>2, <2>1, <2>2, <2>4, Zenon
  <2> QED BY <2>1, <2>3, <2>4, Zenon
<1> QED BY <1>3, Zenon DEF OrderedSeq, t

(* Passing chunks on, and letting go of one, keeps them in order: the two  *)
(* writers of an observer channel never send on it at the same time.       *)
LEMMA OrderedStep == StreamInv /\ Ordered /\ Next => Ordered'
<1> SUFFICES ASSUME StreamInv, Ordered, Next PROVE Ordered'
  BY Zenon
<1> USE DEF workerVars, readVars, chanVars, jobVars
<1>0. /\ TypeOK /\ Lives /\ sent \in [Jobs -> 0 .. MaxDeltas] /\ MaxDeltas \in Nat
      /\ fwd \in [Jobs -> {"none", "select", "push", "account", "done"}]
  BY Bounds, Zenon DEF StreamInv, TypeOK
<1>1. ASSUME \A k \in Jobs : Pipeline(k)' = Pipeline(k), sent' = sent, obsClosed \subseteq obsClosed',
             \A k \in Jobs : Forwarding(k)' => Forwarding(k) /\ reader' = reader,
             \A k \in Jobs : fwd'[k] = "none" => fwd[k] = "none"
      PROVE  Ordered'
  <2> SUFFICES ASSUME NEW j \in Jobs
               PROVE  /\ OrderedSeq(Pipeline(j))'
                      /\ j \notin obsClosed' => \A n \in DOMAIN Pipeline(j)' : Pipeline(j)'[n] \in Deltas
                      /\ \A n \in DOMAIN Pipeline(j)' : Pipeline(j)'[n] \in Deltas =>
                            /\ Pipeline(j)'[n] <= sent'[j]
                            /\ Forwarding(j)' => Pipeline(j)'[n] < sent'[j]
                      /\ Forwarding(j)' => reader'.chunk = sent'[j]
                      /\ fwd'[j] = "none" => Pipeline(j)' = <<>>
    BY Zenon DEF Ordered
  <2>1. Pipeline(j)' = Pipeline(j) /\ sent'[j] = sent[j]
    BY <1>1, Zenon
  <2>2. OrderedSeq(Pipeline(j))'
    BY <2>1, Zenon DEF Ordered, OrderedSeq
  <2> QED BY <1>1, <2>1, <2>2, Zenon DEF Ordered
<1>2. ASSUME UNCHANGED <<got, out, held, obs, sent, obsClosed, reader>>,
             \A k \in Jobs : fwd'[k] = "none" => fwd[k] = "none"
      PROVE  Ordered'
  BY <1>1, <1>2, PipelineSame, Zenon DEF Forwarding, On
<1>3. ASSUME NEW j \in Jobs, Submit(j) \/ Disconnect(j) \/ AddObserver(j) \/ Return(j) \/ ObserverClosed(j)
                             \/ Account(j) \/ DispatchStep(j)
      PROVE  Ordered'
  <2>1. /\ UNCHANGED <<got, out, held, obs, sent, obsClosed, reader>>
        /\ \A k \in Jobs : fwd'[k] = "none" => fwd[k] = "none"
    BY <1>0, <1>3, Zenon DEF Submit, Disconnect, AddObserver, Return, ObserverClosed, Account, DispatchStep,
                AddPending, SendJob, DispatchResult, DispatchCancel
  <2> QED BY <1>2, <2>1, Zenon
<1>4. ASSUME NEW j \in Jobs, Take(j) \/ Push(j) \/ Receive(j) PROVE Ordered'
  <2>1. \A k \in Jobs : Pipeline(k)' = Pipeline(k)
    BY <1>0, <1>4, PipelineMoves, Zenon
  <2>2. /\ UNCHANGED <<sent, obsClosed, reader>>
        /\ \A k \in Jobs : fwd'[k] = "none" => fwd[k] = "none"
    BY <1>0, <1>4, Zenon DEF Take, Push, Receive
  <2> QED BY <1>1, <2>1, <2>2, Zenon DEF Forwarding, On
<1>5. ASSUME Resolve \/ StreamDrop \/ \E f \in Failers : Unregister(f) \/ FailSwap(f) PROVE Ordered'
  <2>1. UNCHANGED <<got, out, held, obs, sent, obsClosed, fwd>> /\ (reader' = None \/ reader' = reader)
    BY <1>5, Zenon DEF Resolve, StreamDrop, Unregister, FailSwap
  <2> QED BY <1>1, <2>1, PipelineSame, Zenon DEF Forwarding, On
<1>6. ASSUME NEW j \in Jobs, NEW c \in {End, Error}, RecvTerminal(j, c) PROVE Ordered'
  <2>1. /\ UNCHANGED <<got, out, held, obs, sent, obsClosed, fwd>>
        /\ \A k \in Jobs : ~Forwarding(k)'
    BY <1>6, Zenon DEF RecvTerminal, Forwarding, On
  <2> QED BY <1>1, <2>1, PipelineSame, Zenon
<1>7. ASSUME NEW j \in Jobs, RecvDelta(j) PROVE Ordered'
  <2>1. UNCHANGED <<got, out, held, obs, obsClosed, fwd>> /\ sent' = [sent EXCEPT ![j] = @ + 1]
    BY <1>7, Zenon DEF RecvDelta
  <2>2. \A k \in Jobs : Pipeline(k)' = Pipeline(k)
    BY <2>1, PipelineSame, Zenon
  <2>3. /\ sent'[j] = sent[j] + 1 /\ \A k \in Jobs \ {j} : sent'[k] = sent[k] /\ ~Forwarding(k)'
        /\ Forwarding(j)' => reader'.chunk = sent'[j]
    BY <1>0, <1>7, <2>1, Zenon DEF RecvDelta, Forwarding, On
  <2>4. ASSUME NEW k \in Jobs
        PROVE  /\ \A n \in DOMAIN Pipeline(k)' : Pipeline(k)'[n] \in Deltas =>
                     /\ Pipeline(k)'[n] <= sent'[k]
                     /\ Forwarding(k)' => Pipeline(k)'[n] < sent'[k]
               /\ Forwarding(k)' => reader'.chunk = sent'[k]
    <3>1. sent[k] \in Nat /\ \A n \in DOMAIN Pipeline(k) : Pipeline(k)[n] \in Deltas =>
                                Pipeline(k)[n] \in Nat /\ Pipeline(k)[n] <= sent[k]
      BY <1>0, SMTT(30) DEF Ordered, Deltas
    <3> QED BY <2>2, <2>3, <3>1
  <2>5. \A k \in Jobs : OrderedSeq(Pipeline(k))'
    BY <2>2, Zenon DEF Ordered, OrderedSeq
  <2> QED BY <2>1, <2>2, <2>4, <2>5, Zenon DEF Ordered
<1>8. ASSUME NEW j \in Jobs, NEW c \in Chunks, forwardChunk(j, c),
             UNCHANGED <<got, out, held, sent, fwd>>, obsClosed \subseteq obsClosed',
             c \in Deltas => Forwarding(j) /\ c = reader.chunk,
             c \notin Deltas => j \in obsClosed',
             \A k \in Jobs : Forwarding(k)' => Forwarding(k) /\ reader' = reader,
             c \in Deltas => ~Forwarding(j)',
             j \notin obsClosed => fwd[j] # "none"
      PROVE  Ordered'
  <2>1. /\ \A k \in Jobs \ {j} : Pipeline(k)' = Pipeline(k)
        /\ \/ Pipeline(j)' = Pipeline(j)
           \/ Pipeline(j)' = Append(Pipeline(j), c) /\ j \notin obsClosed
    BY <1>0, <1>8, PipelineSends, Zenon
  <2>2. CASE Pipeline(j)' = Pipeline(j)
    <3>1. \A k \in Jobs : Pipeline(k)' = Pipeline(k)
      BY <2>1, <2>2, Zenon
    <3> QED BY <1>1, <1>8, <3>1, Zenon
  <2>3. CASE Pipeline(j)' = Append(Pipeline(j), c) /\ j \notin obsClosed
    <3>1. /\ Pipeline(j) \in Seq(Chunks) /\ Len(Pipeline(j)) \in Nat
          /\ DOMAIN Pipeline(j) = 1 .. Len(Pipeline(j))
      BY <1>0, PipelineType, Zenon
    <3>2. \A n \in DOMAIN Pipeline(j) : Pipeline(j)[n] \in Deltas /\ (c \in Deltas => Pipeline(j)[n] < c)
      BY <1>8, <2>3, Zenon DEF Ordered
    <3>3. OrderedSeq(Append(Pipeline(j), c))
      BY <1>8, <3>1, <3>2, OrderedAppend, Zenon DEF Ordered
    <3>4. OrderedSeq(Pipeline(j))'
      BY <2>3, <3>3, Zenon DEF OrderedSeq
    <3>5. /\ DOMAIN Append(Pipeline(j), c) = 1 .. Len(Pipeline(j)) + 1
          /\ \A n \in 1 .. Len(Pipeline(j)) : Append(Pipeline(j), c)[n] = Pipeline(j)[n]
          /\ Append(Pipeline(j), c)[Len(Pipeline(j)) + 1] = c
      BY <1>8, <3>1, SeqLen, SeqAppend
    <3>6. \A n \in DOMAIN Pipeline(j)' : Pipeline(j)'[n] = c \/ \E a \in DOMAIN Pipeline(j) : Pipeline(j)'[n] = Pipeline(j)[a]
      BY <2>3, <3>1, <3>5
    <3>7. c \in Deltas => c = sent[j] /\ sent[j] \in Nat
      BY <1>0, <1>8, SMTT(30) DEF Ordered
    <3>8. \A n \in DOMAIN Pipeline(j)' :
              /\ Pipeline(j)'[n] \in Deltas =>
                    Pipeline(j)'[n] <= sent[j] /\ (Forwarding(j)' => Pipeline(j)'[n] < sent[j])
              /\ j \notin obsClosed' => Pipeline(j)'[n] \in Deltas
      BY <1>8, <3>2, <3>6, <3>7, SMTT(30) DEF Ordered
    <3>9. ASSUME NEW k \in Jobs, k # j
          PROVE  /\ OrderedSeq(Pipeline(k))'
                 /\ k \notin obsClosed' => \A n \in DOMAIN Pipeline(k)' : Pipeline(k)'[n] \in Deltas
                 /\ \A n \in DOMAIN Pipeline(k)' : Pipeline(k)'[n] \in Deltas =>
                       Pipeline(k)'[n] <= sent'[k] /\ (Forwarding(k)' => Pipeline(k)'[n] < sent'[k])
                 /\ Forwarding(k)' => reader'.chunk = sent'[k]
                 /\ fwd'[k] = "none" => Pipeline(k)' = <<>>
      <4>1. Pipeline(k)' = Pipeline(k)
        BY <2>1, <3>9, Zenon
      <4>2. OrderedSeq(Pipeline(k))'
        BY <4>1, Zenon DEF Ordered, OrderedSeq
      <4> QED BY <1>8, <4>1, <4>2, Zenon DEF Ordered
    <3> QED BY <1>8, <2>3, <3>4, <3>8, <3>9, Zenon DEF Ordered
  <2> QED BY <2>1, <2>2, <2>3, Zenon
<1>9. ASSUME ForwardDelta PROVE Ordered'
  <2>1. /\ reader # None /\ reader.step = "forward" /\ reader.job \in Jobs /\ reader.chunk \in Deltas
        /\ reader.chunk \in Chunks
    BY <1>0, <1>9, ReaderHolds, Zenon DEF ForwardDelta, Chunks
  <2>2. /\ forwardChunk(reader.job, reader.chunk) /\ UNCHANGED <<got, out, held, sent, fwd, obsClosed>>
        /\ \A k \in Jobs : ~Forwarding(k)'
    BY <1>9, Zenon DEF ForwardDelta, Forwarding, On
  <2>3. Forwarding(reader.job) /\ fwd[reader.job] # "none"
    BY <1>0, <2>1, Zenon DEF Forwarding, On, Lives
  <2> QED BY <1>8, <2>1, <2>2, <2>3, Zenon
<1>10. ASSUME ForwardTerminal PROVE Ordered'
  <2>1. /\ reader # None /\ reader.step = "finish" /\ reader.job \in Jobs /\ reader.chunk \in Chunks
        /\ reader.chunk \notin Deltas
    BY <1>0, <1>10, ReaderHolds, Kinds DEF ForwardTerminal, Chunks, Terminals, Deltas
  <2>2. /\ forwardChunk(reader.job, reader.chunk) /\ UNCHANGED <<got, out, held, sent, fwd>>
        /\ obsClosed' = obsClosed \cup {reader.job}
    BY <1>10, Zenon DEF ForwardTerminal
  <2>3. \A k \in Jobs : ~Forwarding(k)'
    BY <1>0, <1>10, Zenon DEF ForwardTerminal, Forwarding, On, TypeOK, Reading
  <2>4. fwd[reader.job] # "none"
    BY <1>0, <2>1, Zenon DEF On, Lives
  <2> QED BY <1>8, <2>1, <2>2, <2>3, <2>4, Zenon
<1>11. ASSUME NEW f \in Failers, NEW j \in Jobs, FailObserver(f, j) PROVE Ordered'
  <2>1. /\ forwardChunk(j, Fail) /\ UNCHANGED <<got, out, held, sent, fwd, reader>>
        /\ obsClosed' = obsClosed \cup {j} /\ j \in failing[f]
    BY <1>11, Zenon DEF FailObserver
  <2>2. Fail \in Chunks /\ Fail \notin Deltas
    BY Kinds DEF Chunks, Terminals, Deltas
  <2>3. fwd[j] # "none"
    BY <2>1, Zenon DEF StreamInv, Detached
  <2> QED BY <1>8, <2>1, <2>2, <2>3, Zenon DEF Forwarding, On
<1>12. ASSUME NEW j \in Jobs, Abort(j) PROVE Ordered'
  <2>1. /\ \A k \in Jobs \ {j} : Pipeline(k)' = Pipeline(k)
        /\ Len(Pipeline(j)') \in Nat /\ DOMAIN Pipeline(j)' = 1 .. Len(Pipeline(j)')
        /\ \/ Pipeline(j)' = Pipeline(j)
           \/ \E m \in Nat :
                 /\ Len(Pipeline(j)) = Len(Pipeline(j)') + 1
                 /\ \A n \in 1 .. Len(Pipeline(j)') :
                       Pipeline(j)'[n] = IF n <= m THEN Pipeline(j)[n] ELSE Pipeline(j)[n + 1]
    BY <1>0, <1>12, PipelineAborts, Zenon
  <2>2. /\ UNCHANGED <<sent, obsClosed, reader>>
        /\ \A k \in Jobs : fwd'[k] = "none" => fwd[k] = "none"
    BY <1>0, <1>12, Zenon DEF Abort
  <2>3. CASE Pipeline(j)' = Pipeline(j)
    <3>1. \A k \in Jobs : Pipeline(k)' = Pipeline(k)
      BY <2>1, <2>3, Zenon
    <3> QED BY <1>1, <2>2, <3>1, Zenon DEF Forwarding, On
  <2>4. CASE \E m \in Nat :
                 /\ Len(Pipeline(j)) = Len(Pipeline(j)') + 1
                 /\ \A n \in 1 .. Len(Pipeline(j)') :
                       Pipeline(j)'[n] = IF n <= m THEN Pipeline(j)[n] ELSE Pipeline(j)[n + 1]
    <3>1. PICK m \in Nat :
                 /\ Len(Pipeline(j)) = Len(Pipeline(j)') + 1
                 /\ \A n \in 1 .. Len(Pipeline(j)') :
                       Pipeline(j)'[n] = IF n <= m THEN Pipeline(j)[n] ELSE Pipeline(j)[n + 1]
      BY <2>4, Zenon
    <3>2. Len(Pipeline(j)) \in Nat /\ DOMAIN Pipeline(j) = 1 .. Len(Pipeline(j))
      BY <1>0, PipelineType, Zenon
    <3> DEFINE at(n) == IF n <= m THEN n ELSE n + 1
    <3>3. \A n \in DOMAIN Pipeline(j)' : at(n) \in DOMAIN Pipeline(j) /\ Pipeline(j)'[n] = Pipeline(j)[at(n)]
      BY <2>1, <3>1, <3>2
    <3>4. \A a, b \in DOMAIN Pipeline(j)' : a < b => at(a) < at(b)
      BY <2>1, SMTT(30)
    <3> HIDE DEF at
    <3>5. OrderedSeq(Pipeline(j))'
      BY <3>3, <3>4 DEF Ordered, OrderedSeq
    <3>6. fwd'[j] # "none"
      BY <1>0, <1>12, Zenon DEF Abort
    <3>7. /\ j \notin obsClosed' => \A n \in DOMAIN Pipeline(j)' : Pipeline(j)'[n] \in Deltas
          /\ \A n \in DOMAIN Pipeline(j)' : Pipeline(j)'[n] \in Deltas =>
                Pipeline(j)'[n] <= sent'[j] /\ (Forwarding(j)' => Pipeline(j)'[n] < sent'[j])
          /\ Forwarding(j)' => reader'.chunk = sent'[j]
      BY <2>2, <3>3, Zenon DEF Ordered, Forwarding, On
    <3>8. ASSUME NEW k \in Jobs, k # j
          PROVE  /\ OrderedSeq(Pipeline(k))'
                 /\ k \notin obsClosed' => \A n \in DOMAIN Pipeline(k)' : Pipeline(k)'[n] \in Deltas
                 /\ \A n \in DOMAIN Pipeline(k)' : Pipeline(k)'[n] \in Deltas =>
                       Pipeline(k)'[n] <= sent'[k] /\ (Forwarding(k)' => Pipeline(k)'[n] < sent'[k])
                 /\ Forwarding(k)' => reader'.chunk = sent'[k]
                 /\ fwd'[k] = "none" => Pipeline(k)' = <<>>
      <4>1. Pipeline(k)' = Pipeline(k)
        BY <2>1, <3>8, Zenon
      <4>2. OrderedSeq(Pipeline(k))'
        BY <4>1, Zenon DEF Ordered, OrderedSeq
      <4> QED BY <2>2, <4>1, <4>2, Zenon DEF Ordered, Forwarding, On
    <3> QED BY <3>5, <3>6, <3>7, <3>8, Zenon DEF Ordered
  <2> QED BY <2>1, <2>3, <2>4, Zenon
<1> QED BY <1>3, <1>4, <1>5, <1>6, <1>7, <1>9, <1>10, <1>11, <1>12, Zenon
        DEF Next, HandlerStep, ForwarderStep, ReaderStep, FailStep

(* A line of two parts begins with the first,                              *)
LEMMA ConcatFront ==
    ASSUME NEW s \in Seq(Chunks), NEW t \in Seq(Chunks)
    PROVE  \A n \in DOMAIN s : n \in DOMAIN (s \o t) /\ (s \o t)[n] = s[n]
<1>1. /\ Len(s \o t) = Len(s) + Len(t) /\ Len(s) \in Nat /\ Len(t) \in Nat /\ s \o t \in Seq(Chunks)
      /\ \A n \in 1 .. Len(s) + Len(t) : (s \o t)[n] = IF n <= Len(s) THEN s[n] ELSE t[n - Len(s)]
  BY ChunkConcat, Zenon
<1>2. DOMAIN s = 1 .. Len(s) /\ DOMAIN (s \o t) = 1 .. Len(s \o t)
  BY <1>1, SeqLen, Zenon
<1> QED BY <1>1, <1>2

(* and so does a line of three.                                            *)
LEMMA FrontOf ==
    ASSUME NEW s \in Seq(Chunks), NEW m \in Seq(Chunks), NEW b \in Seq(Chunks)
    PROVE  \A n \in DOMAIN s : n \in DOMAIN ((s \o m) \o b) /\ ((s \o m) \o b)[n] = s[n]
<1> DEFINE t == m \o b
<1>1. t \in Seq(Chunks) /\ (s \o m) \o b = s \o t
  <2>1. m \o b \in Seq(Chunks)
    BY ChunkConcat, Zenon
  <2>2. \A u \in Seq(Chunks) : (s \o m) \o u = s \o (m \o u)
    BY ChunkConcat, Zenon
  <2> QED BY <2>1, <2>2, Zenon
<1> HIDE DEF t
<1>2. \A n \in DOMAIN s : n \in DOMAIN (s \o t) /\ (s \o t)[n] = s[n]
  BY <1>1, ConcatFront, Zenon
<1> QED BY <1>1, <1>2, Zenon

(* What the handler has or will receive is the beginning of the pipeline.  *)
LEMMA PipelineFront ==
    ASSUME TypeOK, NEW j \in Jobs
    PROVE  \A n \in DOMAIN (got[j] \o out[j]) :
               n \in DOMAIN Pipeline(j) /\ Pipeline(j)[n] = (got[j] \o out[j])[n]
<1> DEFINE m == IF held[j] = None THEN <<>> ELSE <<held[j]>>
<1>1. /\ got[j] \in Seq(Chunks) /\ out[j] \in Seq(Chunks) /\ obs[j] \in Seq(Chunks)
      /\ held[j] \in Chunks \cup {None}
  BY Zenon DEF TypeOK
<1>2. got[j] \o out[j] \in Seq(Chunks) /\ m \in Seq(Chunks)
  BY <1>1, LineParts, Zenon
<1>3. Pipeline(j) = ((got[j] \o out[j]) \o m) \o obs[j]
  BY Zenon DEF Pipeline
<1> HIDE DEF m
<1>4. \A n \in DOMAIN (got[j] \o out[j]) :
          n \in DOMAIN (((got[j] \o out[j]) \o m) \o obs[j])
          /\ (((got[j] \o out[j]) \o m) \o obs[j])[n] = (got[j] \o out[j])[n]
  BY <1>1, <1>2, FrontOf, ZenonT(40)
<1> QED BY <1>3, <1>4, Zenon

(* Only the reader puts the worker's terminal chunk into a pipeline.       *)
LEMMA EndedFrom ==
    ASSUME TypeOK, Lives, Next, NEW k \in Jobs, Ended(k)'
    PROVE  Ended(k) \/ (ForwardTerminal /\ On(k))
<1> USE DEF workerVars, readVars, chanVars, jobVars
<1>1. ASSUME Pipeline(k)' = Pipeline(k) PROVE Ended(k)
  BY <1>1, Zenon DEF Ended
<1>2. ASSUME NEW j \in Jobs, NEW c \in Chunks, forwardChunk(j, c), UNCHANGED <<got, out, held>>, ~Ended(k)
      PROVE  k = j /\ c = End
  <2>1. PICK n \in DOMAIN Pipeline(k)' : Pipeline(k)'[n] = End
    BY Zenon DEF Ended
  <2>2. Pipeline(k)' # Pipeline(k)
    BY <1>1, <1>2, Zenon
  <2>3. k = j /\ Pipeline(j)' = Append(Pipeline(j), c)
    BY <1>2, <2>2, PipelineSends, Zenon
  <2>4. Pipeline(j) \in Seq(Chunks) /\ DOMAIN Pipeline(j) = 1 .. Len(Pipeline(j)) /\ Len(Pipeline(j)) \in Nat
    BY PipelineType, Zenon
  <2>5. /\ DOMAIN Append(Pipeline(j), c) = 1 .. Len(Pipeline(j)) + 1
        /\ \A a \in 1 .. Len(Pipeline(j)) : Append(Pipeline(j), c)[a] = Pipeline(j)[a]
        /\ Append(Pipeline(j), c)[Len(Pipeline(j)) + 1] = c
    BY <2>4, SeqAppend, SeqLen, SMTT(30)
  <2>6. n \in 1 .. Len(Pipeline(j)) + 1 /\ Append(Pipeline(j), c)[n] = End
    BY <2>1, <2>3, <2>5, Zenon
  <2>7. n \notin 1 .. Len(Pipeline(j))
    BY <1>2, <2>3, <2>4, <2>5, <2>6, Zenon DEF Ended
  <2> QED BY <2>3, <2>4, <2>5, <2>6, <2>7
<1>3. ASSUME UNCHANGED <<got, out, held, obs>> PROVE Ended(k)
  BY <1>1, <1>3, PipelineSame, Zenon
<1>4. ASSUME NEW j \in Jobs, Submit(j) \/ Disconnect(j) \/ AddObserver(j) \/ Return(j) \/ ObserverClosed(j)
                             \/ Account(j) \/ DispatchStep(j) \/ RecvDelta(j)
                             \/ \E c \in {End, Error} : RecvTerminal(j, c)
      PROVE  Ended(k)
  <2>1. UNCHANGED <<got, out, held, obs>>
    BY <1>4, Zenon DEF Submit, Disconnect, AddObserver, Return, ObserverClosed, Account, DispatchStep,
                AddPending, SendJob, DispatchResult, DispatchCancel, RecvDelta, RecvTerminal
  <2> QED BY <1>3, <2>1, Zenon
<1>5. ASSUME NEW j \in Jobs, Take(j) \/ Push(j) \/ Receive(j) PROVE Ended(k)
  BY <1>1, <1>5, PipelineMoves, Zenon
<1>6. ASSUME Resolve \/ StreamDrop \/ \E f \in Failers : Unregister(f) \/ FailSwap(f) PROVE Ended(k)
  <2>1. UNCHANGED <<got, out, held, obs>>
    BY <1>6, Zenon DEF Resolve, StreamDrop, Unregister, FailSwap
  <2> QED BY <1>3, <2>1, Zenon
<1>7. ASSUME ForwardDelta PROVE Ended(k)
  <2>1. reader # None /\ reader.job \in Jobs /\ reader.chunk \in Deltas /\ reader.chunk \in Chunks
    BY <1>7, ReaderHolds, Zenon DEF ForwardDelta, Chunks
  <2>2. reader.chunk # End
    BY <2>1, Kinds DEF Deltas
  <2> QED BY <1>2, <1>7, <2>1, <2>2, Zenon DEF ForwardDelta
<1>8. ASSUME ForwardTerminal, ~Ended(k) PROVE On(k)
  <2>1. reader # None /\ reader.job \in Jobs /\ reader.chunk \in Chunks
    BY <1>8, ReaderHolds, Zenon DEF ForwardTerminal, Chunks, Terminals
  <2> QED BY <1>2, <1>8, <2>1, Zenon DEF ForwardTerminal, On
<1>9. ASSUME NEW f \in Failers, NEW j \in Jobs, FailObserver(f, j) PROVE Ended(k)
  <2>1. Fail \in Chunks /\ Fail # End
    BY Kinds, Zenon DEF Chunks, Terminals
  <2> QED BY <1>2, <1>9, <2>1, Zenon DEF FailObserver
<1>10. ASSUME NEW j \in Jobs, Abort(j) PROVE Ended(k)
  <2>1. CASE Pipeline(k)' = Pipeline(k)
    BY <1>1, <2>1, Zenon
  <2>2. CASE k = j /\ Pipeline(k)' # Pipeline(k)
    <3>1. /\ Len(Pipeline(j)') \in Nat /\ DOMAIN Pipeline(j)' = 1 .. Len(Pipeline(j)')
          /\ \E m \in Nat :
                 /\ Len(Pipeline(j)) = Len(Pipeline(j)') + 1
                 /\ \A n \in 1 .. Len(Pipeline(j)') :
                       Pipeline(j)'[n] = IF n <= m THEN Pipeline(j)[n] ELSE Pipeline(j)[n + 1]
      BY <1>10, <2>2, PipelineAborts, Zenon
    <3>2. DOMAIN Pipeline(j) = 1 .. Len(Pipeline(j))
      BY PipelineType, Zenon
    <3>3. PICK n \in DOMAIN Pipeline(j)' : Pipeline(j)'[n] = End
      BY <2>2, Zenon DEF Ended
    <3>4. n \in DOMAIN Pipeline(j) /\ n + 1 \in DOMAIN Pipeline(j)
          /\ (Pipeline(j)[n] = End \/ Pipeline(j)[n + 1] = End)
      BY <3>1, <3>2, <3>3
    <3> QED BY <2>2, <3>4, Zenon DEF Ended
  <2> QED BY <1>10, <2>1, <2>2, PipelineAborts, Zenon
<1> QED BY <1>4, <1>5, <1>6, <1>7, <1>8, <1>9, <1>10, Zenon
        DEF Next, HandlerStep, ForwarderStep, ReaderStep, FailStep

(* A job that has ended is not run again, and its waiter is answered next. *)
LEMMA ServedStep == StreamInv /\ Served /\ Next => Served'
<1> SUFFICES ASSUME StreamInv, Served, Next, NEW k \in Jobs, Ended(k)'
             PROVE  k \notin has' /\ disp'[k] \in {"await", "done"} /\ (k \in pending' => Finished(k)')
  BY Zenon DEF Served
<1> USE DEF workerVars, readVars, chanVars, jobVars
<1>0. TypeOK /\ Lives /\ disp \in [Jobs -> {"none", "add", "send", "await", "done"}]
  BY Zenon DEF StreamInv, TypeOK
<1>1. Ended(k) \/ (ForwardTerminal /\ On(k))
  BY <1>0, EndedFrom, Zenon
<1>2. CASE ForwardTerminal /\ On(k)
  <2>1. Finished(k) /\ UNCHANGED <<has, disp>>
    BY <1>2, Zenon DEF ForwardTerminal, Finished
  <2>2. Finished(k)'
    <3>1. reader' \in Reading /\ reader'.job = reader.job /\ reader'.step = "resolve"
      BY <1>0, <1>2, Zenon DEF ForwardTerminal, TypeOK, Reading
    <3> QED BY <1>2, <3>1, NotReading, Zenon DEF Finished, On
  <2>3. k \notin has /\ disp[k] \in {"await", "done"}
    BY <1>0, <1>2, <2>1, Zenon DEF Lives
  <2> QED BY <2>1, <2>2, <2>3, Zenon
<1>3. CASE Ended(k)
  <2>0. k \notin has /\ disp[k] \in {"await", "done"} /\ (k \in pending => Finished(k))
    BY <1>3, Zenon DEF Served
  <2>1. ASSUME UNCHANGED <<has, disp, pending, reader>>
        PROVE  k \notin has' /\ disp'[k] \in {"await", "done"} /\ (k \in pending' => Finished(k)')
    BY <2>0, <2>1, Zenon DEF Finished, On
  <2>2. ASSUME NEW j \in Jobs, Submit(j) \/ Disconnect(j) \/ HandlerStep(j) \/ ForwarderStep(j)
        PROVE  k \notin has' /\ disp'[k] \in {"await", "done"} /\ (k \in pending' => Finished(k)')
    <3>1. CASE AddObserver(j)
      <4>1. j # k
        BY <1>0, <2>0, <3>1, Zenon DEF AddObserver, Lives
      <4> QED BY <1>0, <2>0, <3>1, <4>1, Zenon DEF AddObserver, Finished, On
    <3>2. CASE ~AddObserver(j)
      <4>1. UNCHANGED <<has, disp, pending, reader>>
        BY <2>2, <3>2, Zenon DEF Submit, Disconnect, HandlerStep, Receive, Return, ForwarderStep, Take, Push,
                    ObserverClosed, Account, Abort
      <4> QED BY <2>1, <4>1, Zenon
    <3> QED BY <3>1, <3>2, Zenon
  <2>3. ASSUME NEW j \in Jobs, DispatchStep(j)
        PROVE  k \notin has' /\ disp'[k] \in {"await", "done"} /\ (k \in pending' => Finished(k)')
    <3>1. reader' = reader
      BY <2>3, Zenon DEF DispatchStep, AddPending, SendJob, DispatchResult, DispatchCancel
    <3>2. /\ has' \subseteq has \cup {j} /\ pending' \subseteq pending \cup {j}
          /\ j # k => disp'[k] = disp[k]
          /\ disp[j] \in {"await", "done"} =>
                has' \subseteq has /\ pending' \subseteq pending /\ disp'[j] = "done"
      BY <1>0, <2>3, Zenon DEF DispatchStep, AddPending, SendJob, DispatchResult, DispatchCancel, dispatchReturns
    <3> QED BY <2>0, <3>1, <3>2, Zenon DEF Finished, On
  <2>4. ASSUME NEW j \in Jobs, RecvDelta(j) \/ \E c \in {End, Error} : RecvTerminal(j, c)
        PROVE  k \notin has' /\ disp'[k] \in {"await", "done"} /\ (k \in pending' => Finished(k)')
    <3>1. reader = None /\ has' \subseteq has /\ UNCHANGED <<disp, pending>>
      BY <2>4, Zenon DEF RecvDelta, RecvTerminal
    <3> QED BY <2>0, <3>1, Zenon DEF Finished, On
  <2>5. ASSUME ForwardDelta
        PROVE  k \notin has' /\ disp'[k] \in {"await", "done"} /\ (k \in pending' => Finished(k)')
    BY <2>0, <2>5, Zenon DEF ForwardDelta, Finished
  <2>6. ASSUME ForwardTerminal
        PROVE  k \notin has' /\ disp'[k] \in {"await", "done"} /\ (k \in pending' => Finished(k)')
    <3>1. UNCHANGED <<has, disp, pending>>
      BY <2>6, Zenon DEF ForwardTerminal
    <3>2. CASE k \in pending
      BY <1>2, <2>0, <2>6, <3>2, Zenon DEF Finished
    <3> QED BY <2>0, <3>1, <3>2, Zenon
  <2>7. ASSUME Resolve
        PROVE  k \notin has' /\ disp'[k] \in {"await", "done"} /\ (k \in pending' => Finished(k)')
    BY <2>0, <2>7, Zenon DEF Resolve, Finished, On
  <2>8. ASSUME StreamDrop \/ \E f \in Failers : Unregister(f) \/ FailStep(f)
        PROVE  k \notin has' /\ disp'[k] \in {"await", "done"} /\ (k \in pending' => Finished(k)')
    <3>1. UNCHANGED <<has, disp, reader>> /\ pending' \subseteq pending
      BY <2>8, Zenon DEF StreamDrop, Unregister, FailStep, FailSwap, FailObserver
    <3> QED BY <2>0, <3>1, Zenon DEF Finished, On
  <2> QED BY <2>2, <2>3, <2>4, <2>5, <2>6, <2>7, <2>8, Zenon DEF Next, ReaderStep
<1> QED BY <1>1, <1>2, <1>3, Zenon

(* What the channels hold comes first in the next pipeline, too.           *)
LEMMA PipelineFrontNext ==
    ASSUME TypeOK', NEW j \in Jobs
    PROVE  \A n \in DOMAIN (got'[j] \o out'[j]) :
               n \in DOMAIN Pipeline(j)' /\ Pipeline(j)'[n] = (got'[j] \o out'[j])[n]
<1> DEFINE m == IF held'[j] = None THEN <<>> ELSE <<held'[j]>>
<1>1. /\ got'[j] \in Seq(Chunks) /\ out'[j] \in Seq(Chunks) /\ obs'[j] \in Seq(Chunks)
      /\ held'[j] \in Chunks \cup {None}
  BY Zenon DEF TypeOK
<1>2. got'[j] \o out'[j] \in Seq(Chunks) /\ m \in Seq(Chunks)
  BY <1>1, LineParts, Zenon
<1>3. Pipeline(j)' = ((got'[j] \o out'[j]) \o m) \o obs'[j]
  BY Zenon DEF Pipeline
<1> HIDE DEF m
<1>4. \A n \in DOMAIN (got'[j] \o out'[j]) :
          n \in DOMAIN (((got'[j] \o out'[j]) \o m) \o obs'[j])
          /\ (((got'[j] \o out'[j]) \o m) \o obs'[j])[n] = (got'[j] \o out'[j])[n]
  BY <1>1, <1>2, FrontOf, ZenonT(40)
<1> QED BY <1>3, <1>4, Zenon

(* Nothing an attached observer was due is missing from its pipeline.      *)
LEMMA CountedStep == StreamInv /\ Ordered /\ Served /\ Counted /\ Next => Counted'
<1> SUFFICES ASSUME StreamInv, Ordered, Served, Counted, Next PROVE Counted'
  BY Zenon
<1> USE DEF workerVars, readVars, chanVars, jobVars
<1>0. /\ TypeOK /\ Lives /\ Detached /\ sent \in [Jobs -> 0 .. MaxDeltas] /\ MaxDeltas \in Nat
      /\ fwd \in [Jobs -> {"none", "select", "push", "account", "done"}]
      /\ got \in [Jobs -> Seq(Chunks)] /\ out \in [Jobs -> Seq(Chunks)]
      /\ held \in [Jobs -> Chunks \cup {None}]
  BY Bounds, Zenon DEF StreamInv, TypeOK
<1>1. ASSUME NEW k \in Jobs \ dropped, Pipeline(k)' = Pipeline(k), sent'[k] = sent[k],
             got'[k] \o out'[k] = got[k] \o out[k],
             observers' \subseteq observers,
             k \in observers' => (Forwarding(k)' <=> Forwarding(k)),
             Finishing(k)' => Finishing(k),
             fwd[k] = "done" => fwd'[k] = "done"
      PROVE  CountedFor(k)'
  <2>1. CountedFor(k)
    BY Zenon DEF Counted
  <2> QED BY <1>1, <2>1, Zenon DEF CountedFor
<1>2. ASSUME UNCHANGED <<got, out, held, obs, sent, dropped, reader>>, observers' \subseteq observers,
             \A k \in Jobs : fwd[k] = "done" => fwd'[k] = "done"
      PROVE  Counted'
  <2> SUFFICES ASSUME NEW k \in Jobs \ dropped PROVE CountedFor(k)'
    BY <1>2, Zenon DEF Counted
  <2>1. Pipeline(k)' = Pipeline(k)
    BY <1>2, PipelineSame, Zenon
  <2> QED BY <1>1, <1>2, <2>1, Zenon DEF Forwarding, Finishing, On
<1>3. ASSUME NEW j \in Jobs, Submit(j) \/ Disconnect(j) \/ Return(j) \/ ObserverClosed(j) \/ Account(j)
                             \/ DispatchStep(j)
      PROVE  Counted'
  <2>1. /\ UNCHANGED <<got, out, held, obs, sent, dropped, reader, observers>>
        /\ \A k \in Jobs : fwd[k] = "done" => fwd'[k] = "done"
    BY <1>0, <1>3, Zenon DEF Submit, Disconnect, Return, ObserverClosed, Account, DispatchStep,
                AddPending, SendJob, DispatchResult, DispatchCancel
  <2> QED BY <1>2, <2>1, Zenon
<1>4. ASSUME StreamDrop \/ \E f \in Failers : Unregister(f) \/ FailSwap(f) PROVE Counted'
  <2>1. UNCHANGED <<got, out, held, obs, sent, dropped, reader, fwd>> /\ observers' \subseteq observers
    BY <1>4, Zenon DEF StreamDrop, Unregister, FailSwap
  <2> QED BY <1>2, <2>1, Zenon
<1>5. ASSUME NEW j \in Jobs, AddObserver(j) PROVE Counted'
  <2> SUFFICES ASSUME NEW k \in Jobs \ dropped PROVE CountedFor(k)'
    BY <1>5, Zenon DEF AddObserver, Counted
  <2>1. UNCHANGED <<got, out, held, obs, sent, reader>> /\ observers' = observers \cup {j}
        /\ fwd' = [fwd EXCEPT ![j] = "select"]
    BY <1>5, Zenon DEF AddObserver
  <2>2. Pipeline(k)' = Pipeline(k) /\ CountedFor(k)
    BY <2>1, PipelineSame, Zenon DEF Counted
  <2>3. CASE k # j
    BY <1>0, <2>1, <2>2, <2>3, Zenon DEF CountedFor, Forwarding, Finishing, On
  <2>4. CASE k = j
    <3>1. fwd[j] = "none" /\ sent[j] = 0 /\ ~On(j) /\ Pipeline(j) = <<>>
      BY <1>0, <1>5, Zenon DEF AddObserver, Lives, Ordered
    <3>2. Len(Pipeline(j)) = 0 /\ ~Forwarding(j)' /\ ~Finishing(j)'
      BY <2>1, <3>1, Zenon DEF Forwarding, Finishing, On
    <3>3. Len(Pipeline(k)') = sent'[k] - 0 /\ sent'[k] = sent[k] /\ fwd[k] # "done"
      BY <2>1, <2>2, <2>4, <3>1, <3>2
    <3>4. ~Forwarding(k)' /\ ~Finishing(k)'
      BY <2>4, <3>2, Zenon
    <3> QED BY <2>1, <2>2, <3>3, <3>4, Zenon DEF CountedFor
  <2> QED BY <2>3, <2>4, Zenon
<1>6. ASSUME NEW j \in Jobs, Take(j) \/ Push(j) \/ Receive(j) PROVE Counted'
  <2>1. \A k \in Jobs : Pipeline(k)' = Pipeline(k)
    BY <1>0, <1>6, PipelineMoves, Zenon
  <2>2. /\ UNCHANGED <<sent, reader, observers, dropped>>
        /\ \A k \in Jobs : fwd'[k] = "done" <=> fwd[k] = "done"
    BY <1>0, <1>6, Zenon DEF Take, Push, Receive
  <2> SUFFICES ASSUME NEW k \in Jobs \ dropped PROVE CountedFor(k)'
    BY <2>2, Zenon DEF Counted
  <2>3. CASE got'[k] \o out'[k] = got[k] \o out[k]
    BY <1>1, <2>1, <2>2, <2>3, Zenon DEF Forwarding, Finishing, On
  <2>4. CASE k = j /\ Push(j)
    <3>2. \A n \in DOMAIN (got'[k] \o out'[k]) :
              n \in DOMAIN Pipeline(k)' /\ Pipeline(k)'[n] = (got'[k] \o out'[k])[n]
      <4>1. TypeOK'
        BY <1>0, TypeStep, Zenon
      <4> QED BY <4>1, PipelineFrontNext, Zenon
    <3>3. fwd[k] # "done" /\ fwd'[k] # "done"
      BY <1>0, <2>4, Zenon DEF Push
    <3>4. CountedFor(k)
      BY Zenon DEF Counted
    <3>5. \A n \in DOMAIN (got'[k] \o out'[k]) : (got'[k] \o out'[k])[n] = End => n = sent[k] + 1
      BY <2>1, <3>2, <3>3, <3>4, Zenon DEF CountedFor
    <3> QED BY <2>1, <2>2, <3>3, <3>4, <3>5, Zenon DEF CountedFor, Forwarding, Finishing, On
  <2>5. got'[k] \o out'[k] = got[k] \o out[k] \/ (k = j /\ Push(j))
    <3>1. CASE k # j
      BY <1>0, <1>6, <3>1, Zenon DEF Take, Push, Receive
    <3>2. CASE Take(j)
      BY <3>2, Zenon DEF Take
    <3>3. CASE k = j /\ Receive(j)
      <4>1. /\ out[j] # <<>> /\ got'[j] = Append(got[j], Head(out[j])) /\ out'[j] = Tail(out[j])
            /\ got[j] \in Seq(Chunks) /\ out[j] \in Seq(Chunks)
        BY <1>0, <3>3, Zenon DEF Receive
      <4>2. Append(got[j], Head(out[j])) \o Tail(out[j]) = got[j] \o out[j]
        BY <4>1, ReceiveKeeps, Zenon
      <4> QED BY <3>3, <4>1, <4>2, Zenon
    <3> QED BY <1>6, <3>1, <3>2, <3>3, Zenon
  <2> QED BY <2>3, <2>4, <2>5, Zenon
<1>7. ASSUME NEW j \in Jobs, Abort(j) PROVE Counted'
  <2>1. /\ UNCHANGED <<got, out, sent, reader, dropped>> /\ observers' = observers \ {j}
        /\ fwd' = [fwd EXCEPT ![j] = "done"]
    BY <1>7, Zenon DEF Abort
  <2>2. \A k \in Jobs \ {j} : Pipeline(k)' = Pipeline(k)
    BY <1>0, <1>7, PipelineAborts, Zenon
  <2> SUFFICES ASSUME NEW k \in Jobs \ dropped PROVE CountedFor(k)'
    BY <2>1, Zenon DEF Counted
  <2>3. CASE k # j
    BY <1>0, <1>1, <2>1, <2>2, <2>3, Zenon DEF Forwarding, Finishing, On
  <2>4. CASE k = j
    <3>1. fwd'[k] = "done" /\ k \notin observers'
      BY <1>0, <2>1, <2>4, Zenon
    <3> QED BY <2>1, <3>1, Zenon DEF Counted, CountedFor
  <2> QED BY <2>3, <2>4
<1>8. ASSUME Resolve PROVE Counted'
  <2>1. UNCHANGED <<got, out, held, obs, sent, dropped, fwd, observers>> /\ \A k \in Jobs : ~On(k)' /\ ~Forwarding(k)
    BY <1>8, Zenon DEF Resolve, On, Forwarding
  <2> SUFFICES ASSUME NEW k \in Jobs \ dropped PROVE CountedFor(k)'
    BY <2>1, Zenon DEF Counted
  <2>2. Pipeline(k)' = Pipeline(k)
    BY <2>1, PipelineSame, Zenon
  <2> QED BY <1>1, <2>1, <2>2, Zenon DEF Forwarding, Finishing
<1>9. ASSUME NEW j \in Jobs, RecvDelta(j) PROVE Counted'
  <2>1. /\ UNCHANGED <<got, out, held, obs, dropped, fwd, observers>> /\ sent' = [sent EXCEPT ![j] = @ + 1]
        /\ reader = None /\ j \in has
        /\ \A k \in Jobs : ~Finishing(k)' /\ (Forwarding(k)' => k = j)
    BY <1>9, Zenon DEF RecvDelta, Finishing, Forwarding, On
  <2> SUFFICES ASSUME NEW k \in Jobs \ dropped PROVE CountedFor(k)'
    BY <2>1, Zenon DEF Counted
  <2>2. Pipeline(k)' = Pipeline(k) /\ ~Forwarding(k) /\ CountedFor(k)
    BY <2>1, PipelineSame, Zenon DEF Counted, Forwarding, On
  <2>3. CASE k # j
    BY <1>0, <1>1, <2>1, <2>2, <2>3, Zenon
  <2>4. CASE k = j
    <3>1. sent'[j] = sent[j] + 1 /\ sent[j] \in Nat
      BY <1>0, <2>1
    <3>2. j \in observers => Forwarding(j)'
      <4>1. j \in observers => reader' = [job |-> j, chunk |-> sent[j] + 1, step |-> "forward"]
        BY <1>9, Zenon DEF RecvDelta
      <4>2. sent[j] + 1 \in Deltas
        BY <1>0, <1>9, SMTT(30) DEF RecvDelta, Deltas
      <4>3. j \in observers => reader' # None
        BY <4>1, <4>2, NotReading DEF Reading
      <4> QED BY <4>1, <4>3 DEF Forwarding, On
    <3>3. \A n \in DOMAIN Pipeline(j) : Pipeline(j)[n] # End
      BY <2>1, Zenon DEF Served, Ended
    <3>4. \A n \in DOMAIN (got[j] \o out[j]) : (got[j] \o out[j])[n] # End
      BY <1>0, <3>3, PipelineFront, Zenon
    <3>5. j \in observers => Len(Pipeline(j)) = sent[j]
      BY <2>2, <2>4, <3>1, SMTT(30) DEF CountedFor
    <3>6. j \in observers' => Len(Pipeline(j)') = sent'[j] - 1 /\ Forwarding(j)'
      BY <2>1, <2>2, <2>4, <3>1, <3>2, <3>5, SMTT(30)
    <3>7. got'[j] \o out'[j] = got[j] \o out[j] /\ Pipeline(j)' = Pipeline(j) /\ ~Finishing(j)'
      BY <2>1, <2>2, <2>4, Zenon
    <3> QED BY <2>4, <3>3, <3>4, <3>6, <3>7, Zenon DEF CountedFor
  <2> QED BY <2>3, <2>4, Zenon
<1>10. ASSUME NEW j \in Jobs, NEW c \in {End, Error}, RecvTerminal(j, c) PROVE Counted'
  <2>1. /\ UNCHANGED <<got, out, held, obs, dropped, fwd, sent>> /\ observers' = observers \ {j}
        /\ reader = None
        /\ \A k \in Jobs : ~Forwarding(k)' /\ (Finishing(k)' => k = j /\ j \in observers)
    BY <1>10, Zenon DEF RecvTerminal, Finishing, Forwarding, On
  <2> SUFFICES ASSUME NEW k \in Jobs \ dropped PROVE CountedFor(k)'
    BY <2>1, Zenon DEF Counted
  <2>2. Pipeline(k)' = Pipeline(k) /\ ~Forwarding(k) /\ CountedFor(k) /\ sent[k] \in Nat
    BY <1>0, <2>1, PipelineSame, SMTT(30) DEF Counted, Forwarding, On
  <2>3. k \in observers => Len(Pipeline(k)) = sent[k]
    BY <2>2, SMTT(30) DEF CountedFor
  <2> QED BY <2>1, <2>2, <2>3, Zenon DEF CountedFor
<1>11. ASSUME NEW j \in Jobs, NEW c \in Chunks, forwardChunk(j, c),
              UNCHANGED <<got, out, held, sent, fwd, observers>>,
              \A k \in Jobs : k # j => (Forwarding(k)' <=> Forwarding(k)) /\ (Finishing(k)' => Finishing(k)),
              ~Finishing(j)',
              j \in observers => Forwarding(j) /\ ~Forwarding(j)',
              c = End => Finishing(j)
       PROVE  Counted'
  <2>1. /\ \A k \in Jobs \ {j} : Pipeline(k)' = Pipeline(k)
        /\ \/ Pipeline(j)' = Pipeline(j) /\ (j \in obsClosed \/ j \in dropped')
           \/ Pipeline(j)' = Append(Pipeline(j), c) /\ j \notin obsClosed
        /\ dropped \subseteq dropped'
    BY <1>0, <1>11, PipelineSends, Zenon
  <2> SUFFICES ASSUME NEW k \in Jobs, k \notin dropped' PROVE CountedFor(k)'
    BY Zenon DEF Counted
  <2>2. CountedFor(k) /\ k \notin dropped
    BY <2>1, Zenon DEF Counted
  <2>3. CASE k # j
    BY <1>1, <1>11, <2>1, <2>2, <2>3, Zenon
  <2>4. CASE k = j /\ Pipeline(j)' = Pipeline(j) /\ j \in obsClosed
    <3>1. j \notin observers
      BY <1>0, <2>4, Zenon DEF Detached
    <3> QED BY <1>11, <2>2, <2>4, <3>1, Zenon DEF CountedFor
  <2>5. CASE k = j /\ Pipeline(j)' = Append(Pipeline(j), c) /\ j \notin obsClosed
    <3>1. Pipeline(j) \in Seq(Chunks) /\ DOMAIN Pipeline(j) = 1 .. Len(Pipeline(j)) /\ Len(Pipeline(j)) \in Nat
          /\ sent[j] \in Nat
      BY <1>0, PipelineType, SMTT(30)
    <3>2. /\ DOMAIN Append(Pipeline(j), c) = 1 .. Len(Pipeline(j)) + 1
          /\ Len(Append(Pipeline(j), c)) = Len(Pipeline(j)) + 1
          /\ \A n \in 1 .. Len(Pipeline(j)) : Append(Pipeline(j), c)[n] = Pipeline(j)[n]
          /\ Append(Pipeline(j), c)[Len(Pipeline(j)) + 1] = c
      BY <1>11, <3>1, SeqAppend, SeqLen, SMTT(30)
    <3>3. j \in observers => Len(Pipeline(j)') = sent[j]
      <4>1. j \in observers => Len(Pipeline(j)) = sent[j] - 1
        BY <1>11, <2>2, <2>5, Zenon DEF CountedFor
      <4>2. Len(Pipeline(j)') = Len(Pipeline(j)) + 1
        BY <2>5, <3>2, Zenon
      <4> QED BY <3>1, <4>1, <4>2
    <3>4. ASSUME fwd[j] # "done", NEW n \in DOMAIN Pipeline(j)', Pipeline(j)'[n] = End
          PROVE  n = sent[j] + 1
      <4>1. CASE n \in 1 .. Len(Pipeline(j))
        BY <2>2, <2>5, <3>1, <3>2, <3>4, <4>1, Zenon DEF CountedFor
      <4>2. CASE n = Len(Pipeline(j)) + 1
        <5>1. c = End
          BY <2>5, <3>2, <3>4, <4>2, Zenon
        <5>2. Len(Pipeline(j)) = sent[j]
          BY <1>11, <2>2, <2>5, <3>4, <5>1, Zenon DEF CountedFor
        <5> QED BY <4>2, <5>2, Zenon
      <4> QED BY <2>5, <3>1, <3>2, <3>4, <4>1, <4>2, SMTT(30)
    <3>5. j \in observers' => Len(Pipeline(j)') = sent'[j] - 0 /\ ~Forwarding(j)'
      BY <1>11, <3>1, <3>3
    <3>6. \A n \in DOMAIN (got'[j] \o out'[j]) : (got'[j] \o out'[j])[n] = End => n = sent'[j] + 1
      BY <1>11, <2>2, <2>5, Zenon DEF CountedFor
    <3>7. fwd' = fwd /\ sent' = sent
      BY <1>11, Zenon
    <3> QED BY <1>11, <2>5, <3>4, <3>5, <3>6, <3>7, Zenon DEF CountedFor
  <2> QED BY <2>1, <2>3, <2>4, <2>5, Zenon
<1>12. ASSUME ForwardDelta PROVE Counted'
  <2>1. /\ reader # None /\ reader.step = "forward" /\ reader.job \in Jobs /\ reader.chunk \in Deltas
        /\ reader.chunk \in Chunks
    BY <1>0, <1>12, ReaderHolds, Zenon DEF ForwardDelta, Chunks
  <2>2. /\ forwardChunk(reader.job, reader.chunk) /\ UNCHANGED <<got, out, held, sent, fwd, observers>>
        /\ \A k \in Jobs : ~Forwarding(k)' /\ ~Finishing(k)'
    BY <1>12, Zenon DEF ForwardDelta, Forwarding, Finishing, On
  <2>3. reader.chunk # End
    BY <2>1, Kinds DEF Deltas
  <2>4. \A k \in Jobs : Forwarding(k) <=> k = reader.job
    BY <2>1, Zenon DEF Forwarding, On
  <2> QED BY <1>11, <2>1, <2>2, <2>3, <2>4, Zenon
<1>13. ASSUME ForwardTerminal PROVE Counted'
  <2>1. /\ reader # None /\ reader.step = "finish" /\ reader.job \in Jobs /\ reader.chunk \in Chunks
    BY <1>0, <1>13, ReaderHolds, Zenon DEF ForwardTerminal, Chunks, Terminals
  <2>2. forwardChunk(reader.job, reader.chunk) /\ UNCHANGED <<got, out, held, sent, fwd, observers>>
    BY <1>13, Zenon DEF ForwardTerminal
  <2>3. \A k \in Jobs : ~Forwarding(k)' /\ ~Finishing(k)' /\ ~Forwarding(k)
    BY <1>0, <1>13, Zenon DEF ForwardTerminal, Forwarding, Finishing, On, TypeOK, Reading
  <2>4. Finishing(reader.job) /\ reader.job \notin observers
    BY <1>0, <2>1, Zenon DEF Finishing, On, Detached
  <2> QED BY <1>11, <2>1, <2>2, <2>3, <2>4, Zenon
<1>14. ASSUME NEW f \in Failers, NEW j \in Jobs, FailObserver(f, j) PROVE Counted'
  <2>1. /\ forwardChunk(j, Fail) /\ UNCHANGED <<got, out, held, sent, fwd, observers, reader>>
        /\ j \in failing[f]
    BY <1>14, Zenon DEF FailObserver
  <2>2. Fail \in Chunks /\ Fail # End
    BY Kinds DEF Chunks, Terminals
  <2>3. j \notin observers /\ ~Finishing(j)
    BY <1>0, <2>1, Zenon DEF Detached
  <2> QED BY <1>11, <2>1, <2>2, <2>3, Zenon DEF Forwarding, Finishing, On
<1> QED BY <1>3, <1>4, <1>5, <1>6, <1>7, <1>8, <1>9, <1>10, <1>12, <1>13, <1>14, Zenon
        DEF Next, HandlerStep, ForwarderStep, ReaderStep, FailStep

-----------------------------------------------------------------------------

(* No chunk of a stream is reordered, and none is lost that the observer   *)
(* channel did not refuse, whatever the jobs' goroutines, the reader and   *)
(* the evictor interleave (accumulate, forwardChunk, failAllPending).      *)
THEOREM StreamsAreFaithful == Spec => []StreamFaithful
<1> DEFINE Inv == StreamInv /\ Ordered /\ Served /\ Counted
<1>1. Init => Ordered /\ Served /\ Counted
  <2> SUFFICES ASSUME Init PROVE Ordered /\ Served /\ Counted
    BY Zenon
  <2>1. /\ \A j \in Jobs : Pipeline(j) = <<>> /\ got[j] \o out[j] = <<>> /\ sent[j] = 0 /\ ~On(j)
        /\ observers = {} /\ DOMAIN <<>> = {}
    BY DEF Init, Pipeline, On
  <2>2. Ordered
    BY <2>1, Zenon DEF Ordered, OrderedSeq, Forwarding
  <2>3. Served
    BY <2>1 DEF Served, Ended
  <2>4. Counted
    BY <2>1, Zenon DEF Counted, CountedFor, Finishing
  <2> QED BY <2>2, <2>3, <2>4, Zenon
<1>2. Inv /\ [Next]_vars => (Ordered /\ Served /\ Counted)'
  <2>1. CASE Inv /\ Next
    BY <2>1, OrderedStep, ServedStep, CountedStep, Zenon
  <2>2. CASE Inv /\ UNCHANGED vars
    <3>1. /\ UNCHANGED <<sent, has, reader, pending, observers, obs, obsClosed, out, held, got, fwd, disp, dropped>>
      BY <2>2, Zenon DEF vars, workerVars, readVars, chanVars, jobVars
    <3>2. \A j \in Jobs : Pipeline(j)' = Pipeline(j)
      BY <3>1, PipelineSame, Zenon
    <3>3. \A j \in Jobs : (On(j)' <=> On(j)) /\ (Forwarding(j)' <=> Forwarding(j))
                          /\ (Finishing(j)' <=> Finishing(j)) /\ (Finished(j)' <=> Finished(j))
      BY <3>1, Zenon DEF On, Forwarding, Finishing, Finished
    <3>4. Ordered'
      BY <2>2, <3>1, <3>2, <3>3, Zenon DEF Ordered
    <3>5. Served'
      BY <2>2, <3>1, <3>2, <3>3, Zenon DEF Served, Ended
    <3>6. Counted'
      BY <2>2, <3>1, <3>2, <3>3, Zenon DEF Counted, CountedFor
    <3> QED BY <3>4, <3>5, <3>6, Zenon
  <2> QED BY <2>1, <2>2, Zenon
<1>3. Inv => StreamFaithful
  <2> SUFFICES ASSUME Inv PROVE StreamFaithful
    BY Zenon
  <2>1. TypeOK
    BY Zenon DEF StreamInv
  <2>2. InOrder
    BY Zenon DEF InOrder, Ordered, OrderedSeq
  <2>3. CompleteUnlessDropped
    <3> SUFFICES ASSUME NEW j \in Jobs \ dropped, NEW n \in DOMAIN got[j], got[j][n] = End
                 PROVE  n = sent[j] + 1
      BY Zenon DEF CompleteUnlessDropped
    <3>1. got[j] \in Seq(Chunks) /\ out[j] \in Seq(Chunks)
      BY <2>1, Zenon DEF TypeOK
    <3>2. n \in DOMAIN (got[j] \o out[j]) /\ (got[j] \o out[j])[n] = got[j][n]
      BY <3>1, ConcatFront, Zenon
    <3> QED BY <3>2, Zenon DEF Counted, CountedFor
  <2> QED BY <2>1, <2>2, <2>3, Zenon DEF StreamFaithful
<1>4. Spec => []StreamInv
  BY StreamInvariant, Zenon
<1> QED BY <1>1, <1>2, <1>3, <1>4, PTL DEF Spec

-----------------------------------------------------------------------------

(* A waiting job's builder, and any result made of it, hold all its deltas.*)
LEMMA BufferedStep == StreamInv /\ Buffered /\ Next => Buffered'
<1> SUFFICES ASSUME StreamInv, Buffered, Next PROVE Buffered'
  BY Zenon
<1> USE DEF workerVars, readVars, chanVars, jobVars
<1>0. /\ TypeOK /\ Lives /\ sent \in [Jobs -> 0 .. MaxDeltas] /\ MaxDeltas \in Nat
      /\ streams \in [Jobs -> Deltas \cup {None}] /\ pending \subseteq Jobs
      /\ disp \in [Jobs -> {"none", "add", "send", "await", "done"}]
      /\ resCh \in [Jobs -> Results \cup {None}] /\ result \in [Jobs -> Results \cup {None}]
  BY Bounds, Zenon DEF StreamInv, TypeOK
<1>1. {Error, Fail, Cancelled, None} \cap (0 .. MaxDeltas) = {}
  BY Kinds, Zenon
<1>2. ASSUME UNCHANGED readVars, UNCHANGED resCh, UNCHANGED result, pending' \subseteq pending,
             \A k \in Jobs : disp[k] \in {"await", "done"} => disp'[k] \in {"await", "done"}
      PROVE  Buffered'
  <2>1. \A k \in Jobs : Finished(k)' <=> Finished(k)
    BY <1>2, Zenon DEF Finished, On
  <2> QED BY <1>2, <2>1, Zenon DEF Buffered
<1>3. ASSUME NEW j \in Jobs, Submit(j) \/ Disconnect(j) \/ AddObserver(j) \/ Receive(j) \/ Return(j)
                             \/ ForwarderStep(j)
      PROVE  Buffered'
  <2>1. UNCHANGED readVars /\ UNCHANGED resCh /\ UNCHANGED result /\ pending' = pending
    BY <1>3, Zenon DEF Submit, Disconnect, AddObserver, Receive, Return, ForwarderStep, Take, Push,
                ObserverClosed, Account, Abort
  <2>2. \A k \in Jobs : disp[k] \in {"await", "done"} => disp'[k] \in {"await", "done"}
    <3>1. CASE AddObserver(j)
      BY <1>0, <3>1, Zenon DEF AddObserver, Lives
    <3>2. CASE ~AddObserver(j)
      BY <1>3, <3>2, Zenon DEF Submit, Disconnect, Receive, Return, ForwarderStep, Take, Push,
                  ObserverClosed, Account, Abort
    <3> QED BY <3>1, <3>2, Zenon
  <2> QED BY <1>2, <2>1, <2>2, Zenon
<1>4. ASSUME StreamDrop \/ \E f \in Failers : Unregister(f) \/ \E j \in Jobs : FailObserver(f, j)
      PROVE  Buffered'
  <2>1. UNCHANGED readVars /\ UNCHANGED resCh /\ UNCHANGED result /\ pending' = pending /\ disp' = disp
    BY <1>4, Zenon DEF StreamDrop, Unregister, FailObserver
  <2> QED BY <1>2, <2>1, Zenon
<1>5. ASSUME NEW f \in Failers, FailSwap(f) PROVE Buffered'
  <2>1. /\ UNCHANGED <<sent, has, disp, result>> /\ pending' = {}
        /\ \A k \in Jobs : resCh'[k] \in {resCh[k], Fail}
    BY <1>5, Zenon DEF FailSwap
  <2> QED BY <1>1, <2>1, ZenonT(40) DEF Buffered
<1>6. ASSUME NEW j \in Jobs, AddPending(j) PROVE Buffered'
  <2>1. /\ UNCHANGED readVars /\ UNCHANGED resCh /\ UNCHANGED result /\ pending' = pending \cup {j}
        /\ disp[j] = "add" /\ disp' = [disp EXCEPT ![j] = "send"]
    BY <1>6, Zenon DEF AddPending
  <2>2. sent[j] = 0 /\ streams[j] = None /\ ~On(j)
    BY <1>0, <2>1, Zenon DEF Lives
  <2>3. \A k \in Jobs : Finished(k)' <=> Finished(k)
    BY <2>1, Zenon DEF Finished, On
  <2>4. ~Finished(j)
    BY <2>2, Zenon DEF Finished
  <2>5. \A k \in Jobs : disp[k] \in {"await", "done"} => disp'[k] \in {"await", "done"}
    BY <1>0, <2>1, Zenon
  <2> QED BY <2>1, <2>2, <2>3, <2>4, <2>5, Zenon DEF Buffered
<1>7. ASSUME NEW j \in Jobs, SendJob(j) PROVE Buffered'
  <2>1. /\ UNCHANGED <<sent, reader, streams, resCh, result, pending>> /\ has' \subseteq has \cup {j}
        /\ disp[j] = "send" /\ disp' = [disp EXCEPT ![j] = "await"]
    BY <1>7, Zenon DEF SendJob
  <2>2. \A k \in Jobs : Finished(k)' <=> Finished(k)
    BY <2>1, Zenon DEF Finished, On
  <2>3. \A k \in Jobs : disp[k] \in {"await", "done"} => k # j /\ disp'[k] \in {"await", "done"}
    BY <1>0, <2>1, Zenon
  <2> QED BY <2>1, <2>2, <2>3, Zenon DEF Buffered
<1>8. ASSUME NEW j \in Jobs, DispatchResult(j) PROVE Buffered'
  <2>1. /\ UNCHANGED <<sent, has, reader, streams, pending>>
        /\ disp' = [disp EXCEPT ![j] = "done"]
        /\ result' = [result EXCEPT ![j] = resCh[j]] /\ resCh' = [resCh EXCEPT ![j] = None]
    BY <1>8, Zenon DEF DispatchResult, dispatchReturns
  <2>2. \A k \in Jobs : Finished(k)' <=> Finished(k)
    BY <2>1, Zenon DEF Finished, On
  <2>3. \A k \in Jobs : disp[k] \in {"await", "done"} => disp'[k] \in {"await", "done"}
    BY <1>0, <2>1, Zenon
  <2>4. \A k \in Jobs : \A res \in {resCh'[k], result'[k]} : res \in {resCh[k], result[k], None}
    BY <1>0, <2>1, Zenon
  <2> QED BY <1>1, <2>1, <2>2, <2>3, <2>4, ZenonT(40) DEF Buffered
<1>9. ASSUME NEW j \in Jobs, DispatchCancel(j) PROVE Buffered'
  <2>1. /\ UNCHANGED <<sent, has, reader, streams, resCh>> /\ pending' \subseteq pending
        /\ disp' = [disp EXCEPT ![j] = "done"] /\ result' = [result EXCEPT ![j] = Cancelled]
    BY <1>9, Zenon DEF DispatchCancel, dispatchReturns
  <2>2. \A k \in Jobs : Finished(k)' <=> Finished(k)
    BY <2>1, Zenon DEF Finished, On
  <2>3. \A k \in Jobs : disp[k] \in {"await", "done"} => disp'[k] \in {"await", "done"}
    BY <1>0, <2>1, Zenon
  <2>4. \A k \in Jobs : \A res \in {resCh'[k], result'[k]} : res \in {resCh[k], result[k], Cancelled}
    BY <1>0, <2>1, Zenon
  <2>5. ASSUME NEW k \in Jobs
        PROVE  /\ k \in pending' /\ ~Finished(k)' => streams'[k] = (IF sent'[k] = 0 THEN None ELSE sent'[k])
               /\ k \in pending' /\ Finished(k)' /\ reader'.output # Error => reader'.output = sent'[k]
    BY <2>1, <2>2, Zenon DEF Buffered
  <2>6. ASSUME NEW k \in Jobs, NEW res \in {resCh'[k], result'[k]}, res \in 0 .. MaxDeltas
        PROVE  res = sent'[k] /\ k \notin has' /\ disp'[k] \in {"await", "done"}
    <3>1. res \in {resCh[k], result[k]}
      BY <1>1, <2>4, <2>6, Zenon
    <3>2. res = sent[k] /\ k \notin has /\ disp[k] \in {"await", "done"}
      BY <2>6, <3>1, Zenon DEF Buffered
    <3> QED BY <2>1, <2>3, <3>2, Zenon
  <2> QED BY <2>5, <2>6, Zenon DEF Buffered
<1>10. ASSUME NEW j \in Jobs, RecvDelta(j) PROVE Buffered'
  <2>1. /\ UNCHANGED <<has, pending, resCh, result, disp>> /\ j \in has /\ reader = None
        /\ sent' = [sent EXCEPT ![j] = @ + 1]
        /\ streams' = [streams EXCEPT ![j] = IF @ = None THEN 1 ELSE @ + 1]
    BY <1>10, Zenon DEF RecvDelta
  <2>2. \A k \in Jobs : ~Finished(k) /\ ~Finished(k)'
    BY <1>10, Zenon DEF RecvDelta, Finished, On
  <2> SUFFICES ASSUME NEW k \in Jobs
               PROVE  /\ k \in pending => streams'[k] = IF sent'[k] = 0 THEN None ELSE sent'[k]
                      /\ \A res \in {resCh[k], result[k]} : res \in 0 .. MaxDeltas =>
                            res = sent'[k] /\ k \notin has /\ disp[k] \in {"await", "done"}
    BY <2>1, <2>2, ZenonT(40) DEF Buffered
  <2>3. CASE k # j
    BY <1>0, <2>1, <2>2, <2>3, Zenon DEF Buffered
  <2>4. CASE k = j
    <3>1. sent'[j] = sent[j] + 1 /\ sent[j] \in Nat /\ streams'[j] = IF streams[j] = None THEN 1 ELSE streams[j] + 1
      BY <1>0, <2>1
    <3>2. j \in pending => streams[j] = IF sent[j] = 0 THEN None ELSE sent[j]
      BY <2>2, Zenon DEF Buffered
    <3>3. sent[j] # None
      BY <1>0, <1>1, Zenon
    <3>4. j \in pending => streams'[j] = sent[j] + 1
      BY <3>1, <3>2, <3>3
    <3> QED BY <2>1, <2>4, <3>1, <3>4, SMTT(30) DEF Buffered
  <2> QED BY <2>3, <2>4, Zenon
<1>11. ASSUME NEW j \in Jobs, NEW c \in {End, Error}, RecvTerminal(j, c) PROVE Buffered'
  <2>1. /\ UNCHANGED <<sent, pending, resCh, result, disp>> /\ has' \subseteq has /\ reader = None
        /\ streams' = [streams EXCEPT ![j] = None]
    BY <1>11, Zenon DEF RecvTerminal
  <2>2. \A k \in Jobs : ~Finished(k) /\ (k # j => ~Finished(k)')
    BY <1>11, Zenon DEF RecvTerminal, Finished, On
  <2>3. TypeOK' /\ reader' # None /\ reader'.job = j /\ reader'.step # "forward"
        /\ reader'.output = IF c = Error THEN Error ELSE IF streams[j] = None THEN 0 ELSE streams[j]
    <3>1. reader' = [job |-> j, chunk |-> c,
                  output |-> IF c = Error THEN Error
                             ELSE IF streams[j] = None THEN 0 ELSE streams[j],
                  step |-> IF j \in observers THEN "finish" ELSE "resolve"]
      BY <1>11, Zenon DEF RecvTerminal
    <3>2. reader' \in Reading
      <4>1. 0 \in 0 .. MaxDeltas /\ Deltas \subseteq 0 .. MaxDeltas
        BY <1>0 DEF Deltas
      <4>2. (IF c = Error THEN Error ELSE IF streams[j] = None THEN 0 ELSE streams[j])
              \in 0 .. MaxDeltas \cup {Error}
        BY <1>0, <4>1, Zenon
      <4> QED BY <3>1, <4>2, Zenon DEF Reading
    <3>3. TypeOK'
      BY <1>0, TypeStep, Zenon
    <3> QED BY <3>1, <3>2, <3>3, NotReading, Zenon
  <2>4. Finished(j)'
    BY <2>3, Zenon DEF Finished, On
  <2>5. j \in pending => streams[j] = IF sent[j] = 0 THEN None ELSE sent[j]
    BY <2>2, Zenon DEF Buffered
  <2>6. sent[j] # None
    BY <1>0, <1>1, Zenon
  <2>7. j \in pending /\ reader'.output # Error => reader'.output = sent[j]
    BY <2>3, <2>5, <2>6, Zenon
  <2>8. \A k \in Jobs : k # j => streams'[k] = streams[k]
    BY <1>0, <2>1, Zenon
  <2> QED BY <2>1, <2>2, <2>4, <2>7, <2>8, Zenon DEF Buffered
<1>12. ASSUME ForwardDelta PROVE Buffered'
  <2>1. /\ UNCHANGED <<sent, has, streams, pending, resCh, result, disp>>
        /\ \A k \in Jobs : ~Finished(k) /\ ~Finished(k)'
    BY <1>12, Zenon DEF ForwardDelta, Finished, On
  <2> QED BY <2>1, Zenon DEF Buffered
<1>13. ASSUME ForwardTerminal PROVE Buffered'
  <2>1. UNCHANGED <<sent, has, streams, pending, resCh, result, disp>>
    BY <1>13, Zenon DEF ForwardTerminal
  <2>2. /\ reader # None /\ reader.step = "finish" /\ reader \in Reading
        /\ reader' = [reader EXCEPT !.step = "resolve"]
    BY <1>0, <1>13, Zenon DEF ForwardTerminal, TypeOK
  <2>3. /\ reader' \in Reading /\ reader'.step = "resolve" /\ reader'.job = reader.job
        /\ reader'.output = reader.output
    BY <2>2, Zenon DEF Reading
  <2>4. \A k \in Jobs : Finished(k)' <=> Finished(k)
    BY <2>2, <2>3, NotReading, Zenon DEF Finished, On
  <2> QED BY <2>1, <2>3, <2>4, Zenon DEF Buffered
<1>14. ASSUME Resolve PROVE Buffered'
  <2> DEFINE j == reader.job
  <2>1. /\ UNCHANGED <<sent, has, streams, result, disp>> /\ pending' = pending \ {j}
        /\ resCh' = IF j \in pending THEN [resCh EXCEPT ![j] = reader.output] ELSE resCh
        /\ reader' = None
    BY <1>14, Zenon DEF Resolve
  <2>2. /\ j \in Jobs /\ On(j) /\ Finished(j) /\ j \notin has /\ disp[j] \in {"await", "done"}
        /\ \A k \in Jobs : k # j => ~Finished(k)
    BY <1>0, <1>14, ReaderHolds, Zenon DEF Resolve, Finished, On, Lives
  <2>3. \A k \in Jobs : ~Finished(k)'
    BY <2>1, Zenon DEF Finished, On
  <2>4. j \in pending /\ reader.output # Error => reader.output = sent[j]
    BY <2>2, Zenon DEF Buffered
  <2> HIDE DEF j
  <2>5. \A k \in Jobs : k # j => resCh'[k] = resCh[k]
    BY <1>0, <2>1, Zenon
  <2>6. resCh'[j] = resCh[j] \/ (j \in pending /\ resCh'[j] = reader.output)
    BY <1>0, <2>1, <2>2, Zenon
  <2>7. ASSUME NEW k \in Jobs, NEW res \in {resCh'[k], result'[k]}, res \in 0 .. MaxDeltas
        PROVE  res = sent[k] /\ k \notin has /\ disp[k] \in {"await", "done"}
    <3>1. CASE res \in {resCh[k], result[k]}
      BY <2>7, <3>1, Zenon DEF Buffered
    <3>2. CASE k = j /\ j \in pending /\ res = reader.output
      BY <1>1, <2>2, <2>4, <2>7, <3>2, SMTT(30)
    <3> QED BY <2>1, <2>5, <2>6, <2>7, <3>1, <3>2, Zenon
  <2>8. \A k \in Jobs : k \in pending' => ~Finished(k)
    BY <2>1, <2>2, Zenon
  <2> QED BY <2>1, <2>3, <2>7, <2>8, Zenon DEF Buffered
<1> QED BY <1>3, <1>4, <1>5, <1>6, <1>7, <1>8, <1>9, <1>10, <1>11, <1>12, <1>13, <1>14, Zenon
        DEF Next, HandlerStep, ForwarderStep, DispatchStep, ReaderStep, FailStep

(* What the handler has received is the beginning of the pipeline.         *)
LEMMA GotFront ==
    ASSUME TypeOK, NEW j \in Jobs
    PROVE  \A n \in DOMAIN got[j] : n \in DOMAIN Pipeline(j) /\ Pipeline(j)[n] = got[j][n]
<1>1. got[j] \in Seq(Chunks) /\ out[j] \in Seq(Chunks)
  BY Zenon DEF TypeOK
<1>2. \A n \in DOMAIN got[j] : n \in DOMAIN (got[j] \o out[j]) /\ (got[j] \o out[j])[n] = got[j][n]
  BY <1>1, ConcatFront, Zenon
<1> QED BY <1>2, PipelineFront, Zenon

(* An error is the last a handler receives and comes alone: there was no   *)
(* good end before it.                                                     *)
LEMMA ErrorAlone ==
    ASSUME TypeOK, Ordered, NEW j \in Jobs, out[j] # <<>>, Head(out[j]) # End, Head(out[j]) \notin Deltas,
           NEW n \in DOMAIN Append(got[j], Head(out[j])), Append(got[j], Head(out[j]))[n] = End
    PROVE  FALSE
<1>1. got[j] \in Seq(Chunks) /\ out[j] \in Seq(Chunks)
  BY Zenon DEF TypeOK
<1>2. Len(got[j]) \in Nat /\ Head(out[j]) \in Chunks /\ Head(out[j]) = out[j][1] /\ Len(out[j]) \in Nat \ {0}
      /\ DOMAIN got[j] = 1 .. Len(got[j])
  BY <1>1, SeqTail, SeqLen, SeqEmpty, SMTT(30)
<1>3. /\ DOMAIN Append(got[j], Head(out[j])) = 1 .. Len(got[j]) + 1
      /\ \A a \in 1 .. Len(got[j]) : Append(got[j], Head(out[j]))[a] = got[j][a]
      /\ Append(got[j], Head(out[j]))[Len(got[j]) + 1] = Head(out[j])
  BY <1>1, <1>2, SeqAppend, SeqLen
<1>4. n \in DOMAIN got[j] /\ got[j][n] = End
  BY <1>2, <1>3
<1>5. n \in DOMAIN Pipeline(j) /\ Pipeline(j)[n] = End
  BY <1>4, GotFront, Zenon
<1> DEFINE b == Len(got[j]) + 1
           s == got[j] \o out[j]
<1>6. b \in DOMAIN s /\ s[b] = Head(out[j])
  <2>1. /\ s \in Seq(Chunks) /\ Len(s) = Len(got[j]) + Len(out[j])
        /\ \A a \in 1 .. Len(got[j]) + Len(out[j]) : s[a] = IF a <= Len(got[j]) THEN got[j][a] ELSE out[j][a - Len(got[j])]
    BY <1>1, ChunkConcat, Zenon
  <2>2. DOMAIN s = 1 .. Len(s)
    BY <2>1, SeqLen, Zenon
  <2>3. b \in 1 .. Len(got[j]) + Len(out[j]) /\ ~(b <= Len(got[j])) /\ b - Len(got[j]) = 1
    <3>1. \A x \in Nat, y \in Nat \ {0} : x + 1 \in 1 .. x + y /\ ~(x + 1 <= x) /\ (x + 1) - x = 1
      OBVIOUS
    <3> QED BY <1>2, <3>1, Zenon
  <2> HIDE DEF s, b
  <2> QED BY <1>2, <2>1, <2>2, <2>3, Zenon
<1>7. b \in DOMAIN Pipeline(j) /\ Pipeline(j)[b] = Head(out[j])
  BY <1>6, PipelineFront, Zenon
<1>8. n < b
  BY <1>2, <1>4, SMTT(30)
<1>9. End \in Deltas
  BY <1>5, <1>7, <1>8, Zenon DEF Ordered, OrderedSeq
<1> QED BY <1>9, Kinds DEF Deltas

(* Contexts, failed results and the charge that precedes the close of out. *)
LEMMA BilledStep == StreamInv /\ Served /\ Billed /\ Next => Billed'
<1> SUFFICES ASSUME StreamInv, Served, Billed, Next PROVE Billed'
  BY Zenon
<1> USE DEF workerVars, readVars, chanVars, jobVars
<1>0. /\ TypeOK /\ Lives /\ Phases
      /\ disp \in [Jobs -> {"none", "add", "send", "await", "done"}]
      /\ handler \in [Jobs -> {"idle", "picked", "range", "returned"}]
      /\ failer \in [Failers -> {"idle", "swap", "done"}]
      /\ resCh \in [Jobs -> Results \cup {None}] /\ result \in [Jobs -> Results \cup {None}]
      /\ "reader" \in Failers /\ "evictor" \in Failers
  BY Zenon DEF StreamInv, TypeOK, Failers
<1>1. Fail # None /\ Cancelled # None /\ Fail # Cancelled
  BY Kinds, Zenon
<1>2. failer["reader"] = "done" => reader = None /\ \A k \in Jobs : ~Ended(k) => ~Ended(k)'
  <2> SUFFICES ASSUME failer["reader"] = "done" PROVE reader = None /\ \A k \in Jobs : ~Ended(k) => ~Ended(k)'
    BY Zenon
  <2>1. reader = None
    BY <1>0, Zenon DEF Phases
  <2>2. \A k \in Jobs : ~On(k)
    BY <2>1, Zenon DEF On
  <2> QED BY <1>0, <2>1, <2>2, EndedFrom, Zenon
<1>3. \A f \in Failers : failer[f] = "done" => failer'[f] = "done"
  <2>1. ASSUME NEW j \in Jobs, Submit(j) \/ Disconnect(j) \/ HandlerStep(j) \/ ForwarderStep(j)
                               \/ DispatchStep(j) \/ RecvDelta(j) \/ \E c \in {End, Error} : RecvTerminal(j, c)
        PROVE  failer' = failer
    BY <2>1, Zenon DEF Submit, Disconnect, HandlerStep, AddObserver, Receive, Return,
        ForwarderStep, Take, Push, ObserverClosed, Account, Abort,
        DispatchStep, AddPending, SendJob, DispatchResult, DispatchCancel, RecvDelta, RecvTerminal
  <2>2. ASSUME ReaderStep \/ StreamDrop \/ \E f \in Failers : \E j \in Jobs : FailObserver(f, j)
        PROVE  failer' = failer
    BY <2>2, Zenon DEF ReaderStep, ForwardDelta, ForwardTerminal, Resolve, StreamDrop, FailObserver
  <2>3. ASSUME NEW f \in Failers, Unregister(f) \/ FailSwap(f)
        PROVE  \A g \in Failers : failer[g] = "done" => failer'[g] = "done"
    BY <1>0, <2>3, Zenon DEF Unregister, FailSwap
  <2> QED BY <2>1, <2>2, <2>3, Zenon DEF Next, FailStep
<1> DEFINE Contexts == \A k \in Jobs : k \in ctxDone => k \in left \/ handler[k] = "returned"
           Made == \A k \in Jobs : Fail \in {resCh[k], result[k]} =>
                      failer["evictor"] = "done" \/ (failer["reader"] = "done" /\ ~Ended(k))
           Cancels == \A k \in Jobs : resCh[k] # Cancelled /\ (result[k] = Cancelled => k \in ctxDone)
           Closes == \A k \in Jobs : k \in outClosed /\ k \notin ctxDone =>
                        result[k] \in {Cancelled, Fail} \/ k \in charged
<1>4. Contexts /\ Made /\ Cancels /\ Closes
  BY Zenon DEF Billed
<1>5. ASSUME UNCHANGED <<ctxDone, left, handler>> PROVE Contexts'
  BY <1>4, <1>5, Zenon
<1>6. ASSUME \A k \in Jobs : Fail \in {resCh'[k], result'[k]} => Fail \in {resCh[k], result[k]} PROVE Made'
  BY <1>0, <1>2, <1>3, <1>4, <1>6, Zenon
<1>7. ASSUME UNCHANGED <<resCh, result>>, ctxDone \subseteq ctxDone' PROVE Cancels'
  BY <1>4, <1>7, Zenon
<1>8. ASSUME UNCHANGED <<outClosed, result, charged>>, ctxDone \subseteq ctxDone' PROVE Closes'
  BY <1>4, <1>8, Zenon
<1> HIDE DEF Contexts, Made, Cancels, Closes
<1>9. ASSUME UNCHANGED <<ctxDone, left, handler, resCh, result, outClosed, charged>> PROVE Billed'
  <2>1. Contexts' /\ Made' /\ Cancels' /\ Closes'
    BY <1>5, <1>6, <1>7, <1>8, <1>9, Zenon
  <2> QED BY <2>1, Zenon DEF Billed, Contexts, Made, Cancels, Closes
<1>10. ASSUME \/ StreamDrop \/ ForwardDelta \/ ForwardTerminal
              \/ \E f \in Failers : Unregister(f) \/ \E j \in Jobs : FailObserver(f, j)
              \/ \E j \in Jobs : \/ AddPending(j) \/ SendJob(j) \/ Take(j) \/ Push(j) \/ ObserverClosed(j)
                                 \/ RecvDelta(j) \/ \E c \in {End, Error} : RecvTerminal(j, c)
       PROVE  Billed'
  <2>1. UNCHANGED <<ctxDone, left, handler, resCh, result, outClosed, charged>>
    BY <1>10, ZenonT(40) DEF StreamDrop, ForwardDelta, ForwardTerminal, Unregister, FailObserver, AddPending, SendJob,
                 Take, Push, ObserverClosed, RecvDelta, RecvTerminal
  <2> QED BY <1>9, <2>1, Zenon
<1>11. ASSUME NEW j \in Jobs, Submit(j) \/ AddObserver(j) \/ Disconnect(j) \/ Receive(j) \/ Return(j)
       PROVE  Billed'
  <2>1. UNCHANGED <<resCh, result, outClosed, charged>> /\ ctxDone \subseteq ctxDone'
    BY <1>11, Zenon DEF Submit, AddObserver, Disconnect, Receive, Return
  <2>2. Contexts'
    <3>1. ASSUME NEW pos, handler[j] # "returned", handler' = [handler EXCEPT ![j] = pos],
                 UNCHANGED <<ctxDone, left>>
          PROVE  Contexts'
      <4>1. \A k \in Jobs : k # j => handler'[k] = handler[k]
        BY <1>0, <3>1, Zenon
      <4> QED BY <1>4, <3>1, <4>1, Zenon DEF Contexts
    <3>2. ASSUME handler' = [handler EXCEPT ![j] = "returned"], ctxDone' = ctxDone \cup {j}, left' = left
          PROVE  Contexts'
      <4>1. /\ \A k \in Jobs : k # j => handler'[k] = handler[k]
            /\ handler'[j] = "returned"
        BY <1>0, <3>2, Zenon
      <4> QED BY <1>4, <3>2, <4>1, Zenon DEF Contexts
    <3>3. CASE Submit(j)
      <4>1. handler[j] # "returned"
        BY <3>3, SMT DEF Submit
      <4> QED BY <3>1, <3>3, <4>1, Zenon DEF Submit
    <3>4. CASE AddObserver(j)
      <4>1. handler[j] # "returned"
        BY <3>4, SMT DEF AddObserver
      <4> QED BY <3>1, <3>4, <4>1, Zenon DEF AddObserver
    <3>5. CASE Disconnect(j)
      <4>1. left' = left \cup {j} /\ ctxDone' = ctxDone \cup {j} /\ handler' = handler
        BY <3>5, Zenon DEF Disconnect
      <4> QED BY <1>4, <4>1, Zenon DEF Contexts
    <3>6. CASE Receive(j)
      <4>1. CASE Head(out[j]) \in {Error, Fail}
        BY <3>2, <3>6, <4>1, Zenon DEF Receive
      <4>2. CASE Head(out[j]) \notin {Error, Fail}
        <5>1. UNCHANGED <<ctxDone, left, handler>>
          BY <3>6, <4>2, Zenon DEF Receive
        <5> QED BY <1>5, <5>1, Zenon
      <4> QED BY <4>1, <4>2, Zenon
    <3>7. CASE Return(j)
      BY <3>2, <3>7, Zenon DEF Return
    <3> QED BY <1>11, <3>3, <3>4, <3>5, <3>6, <3>7, Zenon
  <2>3. Made' /\ Cancels' /\ Closes'
    BY <1>6, <1>7, <1>8, <2>1, Zenon
  <2> QED BY <2>2, <2>3, Zenon DEF Billed, Contexts, Made, Cancels, Closes
<1>12. ASSUME NEW j \in Jobs, Account(j) PROVE Billed'
  <2>1. /\ UNCHANGED <<ctxDone, left, handler, resCh, result>> /\ outClosed' = outClosed \cup {j}
        /\ charged' = IF result[j] \in {Cancelled, Fail} THEN charged ELSE charged \cup {j}
    BY <1>12, Zenon DEF Account
  <2>2. Contexts' /\ Made' /\ Cancels'
    BY <1>5, <1>6, <1>7, <2>1, Zenon
  <2>3. Closes'
    BY <1>4, <2>1, Zenon DEF Closes
  <2> QED BY <2>2, <2>3, Zenon DEF Billed, Contexts, Made, Cancels, Closes
<1>13. ASSUME NEW j \in Jobs, Abort(j) PROVE Billed'
  <2>1. /\ UNCHANGED <<ctxDone, left, handler, resCh, result, charged>> /\ outClosed' = outClosed \cup {j}
        /\ j \in ctxDone
    BY <1>13, Zenon DEF Abort
  <2>2. Contexts' /\ Made' /\ Cancels'
    BY <1>5, <1>6, <1>7, <2>1, Zenon
  <2>3. Closes'
    BY <1>4, <2>1, Zenon DEF Closes
  <2> QED BY <2>2, <2>3, Zenon DEF Billed, Contexts, Made, Cancels, Closes
<1>14. ASSUME NEW j \in Jobs, NEW res, disp[j] # "done", result' = [result EXCEPT ![j] = res],
              UNCHANGED <<outClosed, ctxDone, charged>>
       PROVE  Closes'
  <2>1. result[j] = None
    BY <1>0, <1>14, Zenon DEF Lives
  <2>2. \A k \in Jobs : k # j => result'[k] = result[k]
    BY <1>0, <1>14, Zenon
  <2>3. j \in outClosed /\ j \notin ctxDone => j \in charged
    BY <1>1, <1>4, <2>1, Zenon DEF Closes
  <2> QED BY <1>4, <1>14, <2>2, <2>3, Zenon DEF Closes
<1>15. ASSUME NEW j \in Jobs, DispatchResult(j) PROVE Billed'
  <2>1. /\ UNCHANGED <<ctxDone, left, handler, outClosed, charged>> /\ disp[j] = "await"
        /\ result' = [result EXCEPT ![j] = resCh[j]] /\ resCh' = [resCh EXCEPT ![j] = None]
    BY <1>15, Zenon DEF DispatchResult, dispatchReturns
  <2>2. \A k \in Jobs : /\ k # j => result'[k] = result[k] /\ resCh'[k] = resCh[k]
                        /\ k = j => result'[k] = resCh[j] /\ resCh'[k] = None
    BY <1>0, <2>1, Zenon
  <2>3. Contexts' /\ Made' /\ Closes'
    BY <1>1, <1>5, <1>6, <1>14, <2>1, <2>2, Zenon
  <2>4. Cancels'
    BY <1>1, <1>4, <2>1, <2>2, Zenon DEF Cancels
  <2> QED BY <2>3, <2>4, Zenon DEF Billed, Contexts, Made, Cancels, Closes
<1>16. ASSUME NEW j \in Jobs, DispatchCancel(j) PROVE Billed'
  <2>1. /\ UNCHANGED <<ctxDone, left, handler, outClosed, charged, resCh>> /\ disp[j] \in {"send", "await"}
        /\ result' = [result EXCEPT ![j] = Cancelled] /\ j \in ctxDone
    BY <1>16, Zenon DEF DispatchCancel, dispatchReturns
  <2>2. \A k \in Jobs : result'[k] = result[k] \/ (k = j /\ result'[k] = Cancelled)
    BY <1>0, <2>1, Zenon
  <2>3. Contexts' /\ Made' /\ Closes'
    BY <1>1, <1>5, <1>6, <1>14, <2>1, <2>2, Zenon
  <2>4. Cancels'
    BY <1>4, <2>1, <2>2, Zenon DEF Cancels
  <2> QED BY <2>3, <2>4, Zenon DEF Billed, Contexts, Made, Cancels, Closes
<1>17. ASSUME Resolve PROVE Billed'
  <2>1. /\ UNCHANGED <<ctxDone, left, handler, outClosed, charged, result>>
        /\ resCh' = IF reader.job \in pending THEN [resCh EXCEPT ![reader.job] = reader.output] ELSE resCh
    BY <1>17, Zenon DEF Resolve
  <2>2. reader.output \in 0 .. MaxDeltas \cup {Error}
    BY <1>0, <1>17, ReaderHolds, Zenon DEF Resolve
  <2>3. Fail # reader.output /\ Cancelled # reader.output
    BY <2>2, Kinds, Zenon
  <2>4. \A k \in Jobs : resCh'[k] = resCh[k] \/ resCh'[k] = reader.output
    BY <1>0, <2>1, Zenon
  <2>5. Contexts' /\ Made' /\ Closes'
    BY <1>5, <1>6, <1>8, <2>1, <2>3, <2>4, Zenon
  <2>6. Cancels'
    BY <1>4, <2>1, <2>3, <2>4, Zenon DEF Cancels
  <2> QED BY <2>5, <2>6, Zenon DEF Billed, Contexts, Made, Cancels, Closes
<1>18. ASSUME NEW f \in Failers, FailSwap(f) PROVE Billed'
  <2>1. /\ UNCHANGED <<ctxDone, left, handler, outClosed, charged, result, reader>> /\ failer[f] = "swap"
        /\ failer' = [failer EXCEPT ![f] = "done"]
        /\ \A k \in Jobs : resCh'[k] = resCh[k] \/ (k \in pending /\ resCh'[k] = Fail)
    BY <1>18, Zenon DEF FailSwap
  <2>2. Contexts' /\ Closes'
    BY <1>5, <1>8, <2>1, Zenon
  <2>3. Cancels'
    BY <1>1, <1>4, <2>1, Zenon DEF Cancels
  <2>4. Made'
    <3> SUFFICES ASSUME NEW k \in Jobs, Fail \in {resCh'[k], result'[k]}, f = "reader"
                 PROVE  failer'["evictor"] = "done" \/ (failer'["reader"] = "done" /\ ~Ended(k)')
      BY <1>0, <2>1, Zenon DEF Made, Failers
    <3>1. \A i \in Jobs : Pipeline(i)' = Pipeline(i)
      BY <1>18, PipelineSame, Zenon DEF FailSwap
    <3>2. Ended(k)' <=> Ended(k)
      BY <3>1, Zenon DEF Ended
    <3>3. CASE Fail \in {resCh[k], result[k]}
      BY <1>0, <1>3, <1>4, <2>1, <3>2, <3>3, Zenon DEF Made
    <3>4. CASE k \in pending
      <4>1. reader = None
        BY <1>0, <2>1, Zenon DEF Phases
      <4>2. ~Finished(k)
        BY <4>1, Zenon DEF Finished, On
      <4>3. ~Ended(k)
        BY <3>4, <4>2, Zenon DEF Served
      <4> QED BY <1>0, <2>1, <3>2, <4>3, Zenon
    <3> QED BY <2>1, <3>3, <3>4, Zenon
  <2> QED BY <2>2, <2>3, <2>4, Zenon DEF Billed, Contexts, Made, Cancels, Closes
<1> QED BY <1>10, <1>11, <1>12, <1>13, <1>15, <1>16, <1>17, <1>18, Zenon
        DEF Next, HandlerStep, ForwarderStep, DispatchStep, ReaderStep, FailStep

(* A handler that returns after a good end has been charged for it.        *)
LEMMA ChargedStep == StreamInv /\ Ordered /\ Billed /\ ChargedWhenServed /\ Next => ChargedWhenServed'
<1> SUFFICES ASSUME StreamInv, Ordered, Billed, ChargedWhenServed, Next,
                    NEW k \in Jobs, k \notin left', handler'[k] = "returned",
                    NEW n \in DOMAIN got'[k], got'[k][n] = End, failer'["evictor"] # "done"
             PROVE  k \in charged'
  BY Zenon DEF ChargedWhenServed
<1> USE DEF workerVars, readVars, chanVars, jobVars
<1>0. /\ TypeOK /\ Lives /\ failer \in [Failers -> {"idle", "swap", "done"}] /\ "evictor" \in Failers
      /\ handler \in [Jobs -> {"idle", "picked", "range", "returned"}] /\ got \in [Jobs -> Seq(Chunks)]
  BY Zenon DEF StreamInv, TypeOK, Failers
<1>1. ASSUME left \subseteq left', charged \subseteq charged', handler'[k] = handler[k], got'[k] = got[k],
             failer["evictor"] # "done"
      PROVE  k \in charged'
  BY <1>1, Zenon DEF ChargedWhenServed
<1>2. ASSUME NEW j \in Jobs, Disconnect(j) \/ ForwarderStep(j) \/ DispatchStep(j) \/ RecvDelta(j)
                             \/ \E c \in {End, Error} : RecvTerminal(j, c)
      PROVE  k \in charged'
  <2>1. left \subseteq left' /\ charged \subseteq charged' /\ handler' = handler /\ got' = got /\ failer' = failer
    BY <1>2, Zenon DEF Disconnect, ForwarderStep, Take, Push, ObserverClosed, Account, Abort,
          DispatchStep, AddPending, SendJob, DispatchResult, DispatchCancel, RecvDelta, RecvTerminal
  <2> QED BY <1>1, <2>1, Zenon
<1>3. ASSUME ReaderStep \/ StreamDrop \/ \E f \in Failers : Unregister(f) \/ FailStep(f) PROVE k \in charged'
  <2>1. left' = left /\ charged' = charged /\ handler' = handler /\ got' = got
    BY <1>3, Zenon DEF ReaderStep, ForwardDelta, ForwardTerminal, Resolve, StreamDrop, Unregister, FailStep,
          FailSwap, FailObserver
  <2>2. failer["evictor"] # "done"
    <3>1. CASE ReaderStep \/ StreamDrop \/ \E f \in Failers : \E j \in Jobs : FailObserver(f, j)
      BY <3>1, Zenon DEF ReaderStep, ForwardDelta, ForwardTerminal, Resolve, StreamDrop, FailObserver
    <3>2. CASE \E f \in Failers : Unregister(f) \/ FailSwap(f)
      BY <1>0, <3>2, Zenon DEF Unregister, FailSwap
    <3> QED BY <1>3, <3>1, <3>2, Zenon DEF FailStep
  <2> QED BY <1>1, <2>1, <2>2, SMTT(30)
<1>4. ASSUME NEW j \in Jobs, AddObserver(j) PROVE k \in charged'
  <2>1. left' = left /\ charged' = charged /\ failer' = failer /\ got' = got
        /\ handler' = [handler EXCEPT ![j] = "range"]
    BY <1>4, Zenon DEF AddObserver
  <2>2. handler'[k] = handler[k]
    BY <1>0, <2>1, Zenon
  <2> QED BY <1>1, <2>1, <2>2, Zenon
<1>5. ASSUME NEW j \in Jobs, Submit(j) PROVE k \in charged'
  <2>1. /\ left' = left /\ charged' = charged /\ failer' = failer /\ got' = got
        /\ \A i \in Jobs : i # j => handler'[i] = handler[i]
        /\ handler[j] = "idle"
    BY <1>0, <1>5, Zenon DEF Submit
  <2>2. CASE k # j
    BY <1>1, <2>1, <2>2, Zenon
  <2>3. CASE k = j
    <3>1. fwd[k] = "none" /\ Pipeline(k) = <<>>
      BY <1>0, <2>1, <2>3, Zenon DEF Lives, Ordered
    <3>2. n \in DOMAIN Pipeline(k)
      BY <1>0, <2>1, GotFront, Zenon
    <3> QED BY <3>1, <3>2
  <2> QED BY <2>2, <2>3, Zenon
<1>6. ASSUME NEW j \in Jobs, Receive(j) PROVE k \in charged'
  <2>1. /\ left' = left /\ charged' = charged /\ failer' = failer /\ handler[j] = "range" /\ out[j] # <<>>
        /\ got' = [got EXCEPT ![j] = Append(@, Head(out[j]))]
        /\ IF Head(out[j]) \in {Error, Fail} THEN handler' = [handler EXCEPT ![j] = "returned"]
                                            ELSE handler' = handler
    BY <1>6, Zenon DEF Receive
  <2>2. CASE k # j
    <3>1. got'[k] = got[k] /\ handler'[k] = handler[k]
      BY <1>0, <2>1, <2>2, Zenon
    <3> QED BY <1>1, <2>1, <3>1, Zenon
  <2>3. CASE k = j
    <3>1. Head(out[j]) \in {Error, Fail} /\ got'[j] = Append(got[j], Head(out[j]))
      BY <1>0, <2>1, <2>3
    <3>2. Head(out[j]) # End /\ Head(out[j]) \notin Deltas
      <4>1. {Error, Fail} \cap (0 .. MaxDeltas) = {} /\ End \notin {Error, Fail} /\ Deltas \subseteq 0 .. MaxDeltas
        BY Kinds, Bounds DEF Deltas
      <4> QED BY <3>1, <4>1, Zenon
    <3>3. n \in DOMAIN Append(got[j], Head(out[j])) /\ Append(got[j], Head(out[j]))[n] = End
      BY <2>3, <3>1, Zenon
    <3> QED BY <1>0, <2>1, <3>2, <3>3, ErrorAlone, Zenon
  <2> QED BY <2>2, <2>3
<1>7. ASSUME NEW j \in Jobs, Return(j) PROVE k \in charged'
  <2>1. /\ left' = left /\ charged' = charged /\ failer' = failer /\ got' = got
        /\ \A i \in Jobs : i # j => handler'[i] = handler[i]
        /\ handler[j] = "range" /\ j \in outClosed
    BY <1>0, <1>7, Zenon DEF Return
  <2>2. CASE k # j
    BY <1>1, <2>1, <2>2, Zenon
  <2>3. CASE k = j
    <3>1. k \notin ctxDone
      BY <2>1, <2>3, Zenon DEF Billed
    <3>2. Ended(k)
      BY <1>0, <2>1, GotFront, Zenon DEF Ended
    <3>3. result[k] # Fail
      BY <2>1, <3>2, Zenon DEF Billed
    <3> QED BY <2>1, <2>3, <3>1, <3>3, Zenon DEF Billed
  <2> QED BY <2>2, <2>3
<1> QED BY <1>2, <1>3, <1>4, <1>5, <1>6, <1>7, Zenon DEF Next, HandlerStep

(* A result carries the whole output, and a client that stayed to a good   *)
(* end was charged before its handler returned (resolve, failAllPending,   *)
(* the forwarder of SubmitAuthorizedJobStream).                            *)
THEOREM ResultsAreAccounted == Spec => []ResultAccounted
<1> DEFINE Pipes == StreamInv /\ Ordered /\ Served
           Inv == Pipes /\ Buffered /\ Billed /\ ChargedWhenServed
<1>1. Init => Ordered /\ Served /\ Buffered /\ Billed /\ ChargedWhenServed
  <2> SUFFICES ASSUME Init PROVE Ordered /\ Served /\ Buffered /\ Billed /\ ChargedWhenServed
    BY Zenon
  <2>1. /\ \A j \in Jobs : Pipeline(j) = <<>> /\ sent[j] = 0 /\ ~On(j)
        /\ DOMAIN <<>> = {} /\ None \notin 0 .. MaxDeltas /\ None \notin {Fail, Cancelled}
    BY Kinds DEF Init, Pipeline, On
  <2>2. Ordered
    BY <2>1, Zenon DEF Ordered, OrderedSeq, Forwarding
  <2>3. Served
    BY <2>1, Zenon DEF Served, Ended
  <2>4. Buffered
    BY <2>1, Zenon DEF Buffered, Init
  <2>5. Billed
    BY <2>1, Zenon DEF Billed, Init
  <2>6. ChargedWhenServed
    BY Zenon DEF ChargedWhenServed, Init
  <2> QED BY <2>2, <2>3, <2>4, <2>5, <2>6, Zenon
<1>2. Inv /\ [Next]_vars => (Ordered /\ Served /\ Buffered /\ Billed /\ ChargedWhenServed)'
  <2>1. CASE Inv /\ Next
    BY <2>1, OrderedStep, ServedStep, BufferedStep, BilledStep, ChargedStep, Zenon
  <2>2. CASE Inv /\ UNCHANGED vars
    <3>1. /\ UNCHANGED <<sent, has, reader, streams, pending, failer, obs, obsClosed, out, outClosed, held>>
          /\ UNCHANGED <<got, fwd, disp, resCh, result, handler, ctxDone, left, charged>>
      BY <2>2, Zenon DEF vars, workerVars, readVars, chanVars, jobVars
    <3>2. \A j \in Jobs : Pipeline(j)' = Pipeline(j)
      BY <3>1, PipelineSame, Zenon
    <3>3. \A j \in Jobs : /\ Forwarding(j)' <=> Forwarding(j)
                          /\ Finished(j)' <=> Finished(j)
                          /\ Ended(j)' <=> Ended(j)
      BY <3>1, <3>2, Zenon DEF On, Forwarding, Finished, Ended
    <3>4. Ordered'
      BY <2>2, <3>1, <3>2, <3>3, Zenon DEF Ordered
    <3>5. Served' /\ Buffered'
      BY <2>2, <3>1, <3>3, Zenon DEF Served, Buffered
    <3>6. Billed' /\ ChargedWhenServed'
      BY <2>2, <3>1, <3>3, Zenon DEF Billed, ChargedWhenServed
    <3> QED BY <3>4, <3>5, <3>6, Zenon
  <2> QED BY <2>1, <2>2, Zenon
<1>3. Inv => ResultAccounted
  BY Zenon DEF ResultAccounted, ResultComplete, Buffered
<1>4. Spec => []StreamInv
  BY StreamInvariant, Zenon
<1> QED BY <1>1, <1>2, <1>3, <1>4, PTL DEF Spec
=============================================================================
