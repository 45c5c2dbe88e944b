--------------------- MODULE PeerConnectionRefinement ---------------------
(***************************************************************************)
(* Proof that the async operations of PeerConnection implement the         *)
(* one-shot call of AsyncCall under the refinement mapping callLog,        *)
(* awaited, for every value of the constants.                             *)
(***************************************************************************)
EXTENDS PeerConnectionProofs

\* The call log of a sequence of call records, as callLog maps calls.
LogOf(s) == [i \in 1..Len(s) |->
                [op |-> s[i].op, answer |-> s[i].sent, result |-> s[i].result]]

\* What the mapping needs besides OwnAnswerInv: the engine has sent nothing
\* for an observer it still holds, and the awaited call has not returned
\* and its native_wrapper (hence a Sender) is alive.
RefInv ==
    /\ \A i \in 1..Len(calls) : calls[i].engine = "pending" => calls[i].sent = None
    /\ cpc = "await" => calls[cur].result = None /\ calls[cur].local

\* The entries of a call log.
LogRec == [op: AsyncOps, answer: Outcome \cup {None}, result: Results \cup {None}]

\* Two sequences over the same domain have the same length.
LEMMA SameDomainLen ==
    ASSUME NEW S, NEW s \in Seq(S), NEW t \in Seq(S), DOMAIN s = DOMAIN t
    PROVE  Len(s) = Len(t)
  <1>1. Len(s) \in Nat /\ Len(t) \in Nat /\ 1..Len(s) = 1..Len(t)
    BY LenProperties
  <1>. QED
    BY <1>1

\* The log of a sequence of call records is a sequence of log entries of the
\* same length.
LEMMA LogIsSeq ==
    ASSUME NEW s \in Seq(CallRec)
    PROVE  LogOf(s) \in Seq(LogRec) /\ Len(LogOf(s)) = Len(s)
  <1>1. Len(s) \in Nat
    BY LenProperties
  <1>2. LogOf(s) \in [1..Len(s) -> LogRec]
    <2>1. \A i \in 1..Len(s) : s[i] \in CallRec
      BY ElementOfSeq
    <2>. QED
      BY <2>1 DEF LogOf, LogRec, CallRec
  <1>3. LogOf(s) \in Seq(LogRec)
    BY <1>1, <1>2, SeqDef
  <1>4. DOMAIN LogOf(s) = 1..Len(s)
    BY DEF LogOf
  <1>. QED
    BY <1>1, <1>3, <1>4, LenProperties

\* The log of a sequence with one record replaced is the log with that
\* record's entry replaced.
LEMMA LogUpdate ==
    ASSUME NEW s \in Seq(CallRec), NEW j \in 1..Len(s), NEW e \in CallRec
    PROVE  LogOf([s EXCEPT ![j] = e]) =
               [LogOf(s) EXCEPT ![j] = [op |-> e.op, answer |-> e.sent, result |-> e.result]]
  <1> DEFINE t == [s EXCEPT ![j] = e]
             r == [op |-> e.op, answer |-> e.sent, result |-> e.result]
  <1>1. t \in Seq(CallRec) /\ Len(t) = Len(s)
        /\ \A i \in 1..Len(s) : t[i] = IF i = j THEN e ELSE s[i]
    BY ExceptSeq
  <1>2. r \in LogRec
    BY DEF CallRec, LogRec
  <1>3. LogOf(t) \in Seq(LogRec) /\ Len(LogOf(t)) = Len(s)
    BY <1>1, LogIsSeq
  <1>4. LogOf(s) \in Seq(LogRec) /\ Len(LogOf(s)) = Len(s)
    BY LogIsSeq
  <1>5. [LogOf(s) EXCEPT ![j] = r] \in Seq(LogRec)
        /\ Len([LogOf(s) EXCEPT ![j] = r]) = Len(s)
        /\ \A i \in 1..Len(s) : [LogOf(s) EXCEPT ![j] = r][i] = IF i = j THEN r ELSE LogOf(s)[i]
    BY <1>2, <1>4, ExceptSeq
  <1>6. \A i \in 1..Len(s) : LogOf(t)[i] = [LogOf(s) EXCEPT ![j] = r][i]
    BY <1>1, <1>5 DEF LogOf
  <1>. QED
    BY <1>3, <1>5, <1>6, SeqEqual

\* The log of a sequence with a record appended is the log with its entry
\* appended.
LEMMA LogAppend ==
    ASSUME NEW s \in Seq(CallRec), NEW e \in CallRec
    PROVE  LogOf(Append(s, e)) =
               Append(LogOf(s), [op |-> e.op, answer |-> e.sent, result |-> e.result])
  <1> DEFINE t == Append(s, e)
             r == [op |-> e.op, answer |-> e.sent, result |-> e.result]
  <1>1. /\ t \in Seq(CallRec) /\ Len(t) = Len(s) + 1
        /\ \A i \in 1..Len(s) : t[i] = s[i]
        /\ t[Len(s) + 1] = e
    BY AppendProperties
  <1>2. r \in LogRec
    BY DEF CallRec, LogRec
  <1>3. LogOf(t) \in Seq(LogRec) /\ Len(LogOf(t)) = Len(s) + 1
    BY <1>1, LogIsSeq
  <1>4. LogOf(s) \in Seq(LogRec) /\ Len(LogOf(s)) = Len(s)
    BY LogIsSeq
  <1>5. /\ Append(LogOf(s), r) \in Seq(LogRec)
        /\ Len(Append(LogOf(s), r)) = Len(s) + 1
        /\ \A i \in 1..Len(s) : Append(LogOf(s), r)[i] = LogOf(s)[i]
        /\ Append(LogOf(s), r)[Len(s) + 1] = r
    BY <1>2, <1>4, AppendProperties
  <1>6. \A i \in 1..Len(s) + 1 : LogOf(t)[i] = Append(LogOf(s), r)[i]
    <2>1. Len(s) \in Nat
      BY LenProperties
    <2>. QED
      BY <1>1, <1>5, <2>1 DEF LogOf
  <1>. QED
    BY <1>3, <1>5, <1>6, SeqEqual

\* The record each caller and engine step writes over the one it updates.
RecvRec(c) == [c EXCEPT !.buf = None, !.result = RecvValue(c.op, c.buf),
                        !.rx = FALSE, !.local = FALSE]
ClosedRec(c) == [c EXCEPT !.result = "closed", !.rx = FALSE, !.local = FALSE]
CancelRec(c) == [c EXCEPT !.buf = None, !.rx = FALSE, !.local = FALSE,
                          !.result = "cancelled"]
DeliverRec(c, v) == [c EXCEPT !.buf = v, !.engine = "delivered", !.sent = v]
DroppedRec(c, v) == [c EXCEPT !.engine = "delivered", !.sent = v]
AbandonRec(c) == [c EXCEPT !.engine = "released"]

\* Each of them is a call record.
LEMMA StepRecs ==
    ASSUME NEW c \in CallRec, NEW v \in Outcome
    PROVE  /\ RecvRec(c) \in CallRec /\ ClosedRec(c) \in CallRec
           /\ CancelRec(c) \in CallRec /\ DeliverRec(c, v) \in CallRec
           /\ DroppedRec(c, v) \in CallRec /\ AbandonRec(c) \in CallRec
  BY DEF CallRec, RecvRec, ClosedRec, CancelRec, DeliverRec, DroppedRec,
         AbandonRec, RecvValue, Results, EngineStates, Outcome, None

\* Replacing one record keeps "a pending engine has sent nothing" when the
\* new record satisfies it.
LEMMA PendingUnsentStep ==
    ASSUME NEW s \in Seq(CallRec), NEW j \in 1..Len(s), NEW e \in CallRec,
           NEW t, t = [s EXCEPT ![j] = e],
           \A i \in 1..Len(s) : s[i].engine = "pending" => s[i].sent = None,
           e.engine = "pending" => e.sent = None
    PROVE  \A i \in 1..Len(t) : t[i].engine = "pending" => t[i].sent = None
  BY ExceptSeq

\* Replacing one record keeps another one's result and local flag, and
\* those of the record replaced when the new one has the same.
LEMMA AwaitedStep ==
    ASSUME NEW s \in Seq(CallRec), NEW j \in 1..Len(s), NEW e \in CallRec,
           NEW k \in 1..Len(s), NEW t, t = [s EXCEPT ![j] = e],
           s[k].result = None /\ s[k].local,
           j = k => e.result = s[k].result /\ e.local = s[k].local
    PROVE  t[k].result = None /\ t[k].local
  <1>1. t[k] = IF k = j THEN e ELSE s[k]
    BY ExceptSeq
  <1>2. CASE k = j
    BY <1>1, <1>2
  <1>3. CASE k # j
    BY <1>1, <1>3
  <1>. QED
    BY <1>2, <1>3

\* RefInv holds in every reachable state.
THEOREM RefInvariant == Spec => []RefInv
  <1> USE DEF None, Outcome
  <1>1. Init => RefInv
    BY DEF Init, RefInv
  <1>2. TypeOK /\ RefInv /\ [Next]_vars => RefInv'
    <2> SUFFICES ASSUME TypeOK, RefInv, [Next]_vars PROVE RefInv'
      OBVIOUS
    <2>0. calls \in Seq(CallRec)
      BY DEF TypeOK
    <2>1. ASSUME NEW op \in AsyncOps, IssueCall(op) PROVE RefInv'
      <3> DEFINE e == [op |-> op, buf |-> None, rx |-> TRUE, local |-> TRUE,
                       engine |-> "pending", sent |-> None, result |-> None]
      <3>1. e \in CallRec
        BY DEF CallRec, EngineStates, Results
      <3>2. /\ calls' = Append(calls, e)
            /\ cpc' = "await" /\ cur' = Len(calls) + 1
        BY <2>1 DEF IssueCall
      <3>3. /\ Len(calls') = Len(calls) + 1
            /\ \A i \in 1..Len(calls) : calls'[i] = calls[i]
            /\ calls'[Len(calls) + 1] = e
        BY <2>0, <3>1, <3>2, AppendProperties
      <3>. QED
        BY <3>2, <3>3 DEF RefInv
    <2>2. CASE Recv \/ Cancel
      <3> DEFINE c == calls[cur]
      <3>1. cpc' = "idle" /\ cur \in 1..Len(calls) /\ c \in CallRec
        <4>1. cpc' = "idle" /\ cur \in 1..Len(calls)
          BY <2>2 DEF Recv, Cancel, TypeOK
        <4>. QED
          BY <2>0, <4>1, ElementOfSeq
      <3>2. PICK e \in {RecvRec(c), ClosedRec(c), CancelRec(c)} :
                calls' = [calls EXCEPT ![cur] = e]
        BY <2>2 DEF Recv, Cancel, RecvRec, ClosedRec, CancelRec
      <3>3. e \in CallRec /\ e.engine = c.engine /\ e.sent = c.sent
        <4>1. e \in CallRec
          BY <3>1, StepRecs
        <4>2. e.engine = c.engine /\ e.sent = c.sent
          BY <3>1 DEF RecvRec, ClosedRec, CancelRec, CallRec
        <4>. QED
          BY <4>1, <4>2
      <3>4. c.engine = "pending" => c.sent = None
        BY <3>1 DEF RefInv
      <3>5. \A i \in 1..Len(calls') : calls'[i].engine = "pending" => calls'[i].sent = None
        BY <2>0, <3>1, <3>2, <3>3, <3>4, PendingUnsentStep DEF RefInv
      <3>. QED
        BY <3>1, <3>5 DEF RefInv
    <2>3. ASSUME NEW i \in 1..MaxCalls,
                 Deliver(i) \/ DeliverToDropped(i) \/ Abandon(i)
          PROVE  RefInv'
      <3> DEFINE c == calls[i]
      <3>1. i \in 1..Len(calls) /\ c \in CallRec /\ UNCHANGED <<cpc, cur>>
        <4>1. i \in 1..Len(calls) /\ UNCHANGED <<cpc, cur>>
          BY <2>3 DEF Deliver, DeliverToDropped, Abandon
        <4>. QED
          BY <2>0, <4>1, ElementOfSeq
      <3>2. PICK e \in {DeliverRec(c, v) : v \in Outcome} \cup
                       {DroppedRec(c, v) : v \in Outcome} \cup {AbandonRec(c)} :
                calls' = [calls EXCEPT ![i] = e]
        BY <2>3 DEF Deliver, DeliverToDropped, Abandon, DeliverRec, DroppedRec, AbandonRec
      <3>3. /\ e \in CallRec /\ e.engine # "pending"
            /\ e.result = c.result /\ e.local = c.local
        <4>1. PICK v \in Outcome : e \in {DeliverRec(c, v), DroppedRec(c, v), AbandonRec(c)}
          BY <3>2
        <4>2. e \in CallRec
          BY <3>1, <4>1, StepRecs
        <4>3. e.engine # "pending" /\ e.result = c.result /\ e.local = c.local
          BY <3>1, <4>1 DEF DeliverRec, DroppedRec, AbandonRec, CallRec
        <4>. QED
          BY <4>2, <4>3
      <3>4. \A k \in 1..Len(calls') : calls'[k].engine = "pending" => calls'[k].sent = None
        BY <2>0, <3>1, <3>2, <3>3, PendingUnsentStep DEF RefInv
      <3>5. cpc' = "await" => calls'[cur'].result = None /\ calls'[cur'].local
        <4> SUFFICES ASSUME cpc = "await" PROVE calls'[cur].result = None /\ calls'[cur].local
          BY <3>1
        <4>1. cur \in 1..Len(calls) /\ calls[cur].result = None /\ calls[cur].local
          BY DEF TypeOK, RefInv
        <4>. QED
          BY <2>0, <3>1, <3>2, <3>3, <4>1, AwaitedStep
      <3>. QED
        BY <3>4, <3>5 DEF RefInv
    <2>4. CASE UNCHANGED <<calls, cur>> /\ cpc' \in {"idle", "lock"}
      BY <2>4 DEF RefInv
    <2>5. CASE UNCHANGED <<calls, cpc, cur>>
      BY <2>5 DEF RefInv
    <2>. QED
      <3>1. ASSUME NEW k \in Kinds, NEW h \in Handlers, RegisterBegin(k, h)
            PROVE  UNCHANGED <<calls, cur>> /\ cpc' \in {"idle", "lock"}
        BY <3>1 DEF RegisterBegin
      <3>2. RegisterEnd => UNCHANGED <<calls, cur>> /\ cpc' \in {"idle", "lock"}
        BY DEF RegisterEnd
      <3>3. (\/ \E k \in Kinds : DispatchBegin(k)
             \/ DispatchEnd \/ AppRecv \/ UNCHANGED vars) => UNCHANGED <<calls, cpc, cur>>
        BY DEF DispatchBegin, DispatchEnd, AppRecv, callerVars, vars
      <3>. QED
        BY <2>1, <2>2, <2>3, <2>4, <2>5, <3>1, <3>2, <3>3
        DEF Next, CreateOffer, CreateAnswer, SetLocalDescription,
            SetRemoteDescription, AddIceCandidate, AsyncOps
  <1>. QED
    BY <1>1, <1>2, TypeCorrect, PTL DEF Spec

\* The async operations implement AsyncCall under the mapping callLog,
\* awaited: IssueCall is Issue, a Deliver is the engine's Answer, Recv of a
\* buffered value is Return, Cancel (dropping the future) is Drop, and every
\* other step (Abandon, the event hub, registration) leaves the call log and
\* the awaited call as they were.
THEOREM Refinement == Spec => ImplementsAsyncCall
  <1> USE DEF None, Outcome, AC!None
  <1>1. Init => AC!Init
    BY DEF Init, AC!Init, callLog, awaited
  <1>2. TypeOK /\ OwnAnswerInv /\ RefInv /\ [Next]_vars => [AC!Next]_AC!avars
    <2> SUFFICES ASSUME TypeOK, OwnAnswerInv, RefInv, [Next]_vars
                 PROVE  [AC!Next]_AC!avars
      OBVIOUS
    <2>0. /\ calls \in Seq(CallRec)
          /\ callLog = LogOf(calls) /\ callLog' = LogOf(calls')
          /\ Len(callLog) = Len(calls)
      <3>1. calls \in Seq(CallRec)
        BY DEF TypeOK
      <3>. QED
        BY <3>1, LogIsSeq DEF callLog, LogOf
    <2>1. ASSUME NEW op \in AsyncOps, IssueCall(op) PROVE AC!Issue(op)
      <3> DEFINE e == [op |-> op, buf |-> None, rx |-> TRUE, local |-> TRUE,
                       engine |-> "pending", sent |-> None, result |-> None]
      <3>1. e \in CallRec
        BY DEF CallRec, EngineStates, Results
      <3>2. calls' = Append(calls, e) /\ awaited = 0 /\ awaited' = Len(calls) + 1
        BY <2>1 DEF IssueCall, awaited
      <3>3. callLog' = Append(callLog, [op |-> op, answer |-> None, result |-> None])
        BY <2>0, <3>1, <3>2, LogAppend
      <3>. QED
        BY <2>0, <3>2, <3>3 DEF AC!Issue
    <2>2. CASE Recv \/ Cancel
      <3> DEFINE c == calls[cur]
      <3>1. /\ cur \in 1..Len(calls) /\ c \in CallRec /\ AnswerConsistent(c)
            /\ cpc = "await" /\ c.local /\ c.result = None
            /\ awaited = cur /\ awaited' = 0
        <4>1. cur \in 1..Len(calls) /\ cpc = "await" /\ cpc' = "idle"
          BY <2>2 DEF Recv, Cancel, TypeOK
        <4>. QED
          BY <2>0, <4>1, ElementOfSeq DEF OwnAnswerInv, RefInv, awaited
      <3>2. callLog[cur] = [op |-> c.op, answer |-> c.sent, result |-> c.result]
        BY <3>1 DEF callLog
      <3>3. CASE Recv
        <4>1. c.buf # None /\ calls' = [calls EXCEPT ![cur] = RecvRec(c)]
          <5>1. ~(c.buf = None /\ ~SenderAlive(c))
            BY <3>1 DEF SenderAlive
          <5>. QED
            BY <3>3, <5>1 DEF Recv, RecvRec
        <4>2. c.buf = c.sent /\ c.sent # None
          BY <3>1, <4>1 DEF AnswerConsistent
        <4>3. callLog' = [callLog EXCEPT ![cur] =
                  [op |-> c.op, answer |-> c.sent, result |-> RecvValue(c.op, c.buf)]]
          <5>1. RecvRec(c) \in CallRec
            BY <3>1, StepRecs
          <5>2. RecvRec(c).op = c.op /\ RecvRec(c).sent = c.sent
                /\ RecvRec(c).result = RecvValue(c.op, c.buf)
            BY <3>1 DEF RecvRec, CallRec
          <5>3. LogOf([calls EXCEPT ![cur] = RecvRec(c)]) =
                    [LogOf(calls) EXCEPT ![cur] = [op |-> RecvRec(c).op, answer |-> RecvRec(c).sent,
                                                   result |-> RecvRec(c).result]]
            BY <2>0, <3>1, <5>1, LogUpdate, ZenonT(60)
          <5>. QED
            BY <2>0, <4>1, <5>2, <5>3
        <4>4. AC!Return
          <5>1. awaited # 0 /\ awaited' = 0 /\ callLog[awaited].answer # None
            BY <3>1, <3>2, <4>2
          <5>2. [callLog[awaited] EXCEPT !.result = RecvValue(callLog[awaited].op,
                                                               callLog[awaited].answer)]
                = [op |-> c.op, answer |-> c.sent, result |-> RecvValue(c.op, c.buf)]
            BY <3>1, <3>2, <4>2
          <5>3. callLog' = [callLog EXCEPT ![awaited] =
                  [callLog[awaited] EXCEPT !.result = RecvValue(callLog[awaited].op,
                                                                callLog[awaited].answer)]]
            BY <3>1, <4>3, <5>2
          <5>. QED
            BY <5>1, <5>3 DEF AC!Return
        <4>. QED
          BY <4>4 DEF AC!Next
      <3>4. CASE Cancel
        <4>1. calls' = [calls EXCEPT ![cur] = CancelRec(c)]
          BY <3>4 DEF Cancel, CancelRec
        <4>2. callLog' = [callLog EXCEPT ![cur] =
                  [op |-> c.op, answer |-> c.sent, result |-> "cancelled"]]
          <5>1. CancelRec(c) \in CallRec
            BY <3>1, StepRecs
          <5>2. CancelRec(c).op = c.op /\ CancelRec(c).sent = c.sent
                /\ CancelRec(c).result = "cancelled"
            BY <3>1 DEF CancelRec, CallRec
          <5>3. LogOf([calls EXCEPT ![cur] = CancelRec(c)]) =
                    [LogOf(calls) EXCEPT ![cur] = [op |-> CancelRec(c).op, answer |-> CancelRec(c).sent,
                                                   result |-> CancelRec(c).result]]
            BY <2>0, <3>1, <5>1, LogUpdate, ZenonT(60)
          <5>. QED
            BY <2>0, <4>1, <5>2, <5>3
        <4>3. AC!Drop
          <5>1. awaited # 0 /\ awaited' = 0
            BY <3>1
          <5>2. [callLog[awaited] EXCEPT !.result = "cancelled"]
                = [op |-> c.op, answer |-> c.sent, result |-> "cancelled"]
            BY <3>1, <3>2
          <5>3. callLog' = [callLog EXCEPT ![awaited] =
                               [callLog[awaited] EXCEPT !.result = "cancelled"]]
            BY <3>1, <4>2, <5>2
          <5>. QED
            BY <5>1, <5>3 DEF AC!Drop
        <4>. QED
          BY <4>3 DEF AC!Next
      <3>. QED
        BY <2>2, <3>3, <3>4

    <2>3. ASSUME NEW i \in 1..MaxCalls, NEW v \in Outcome,
                 calls' = [calls EXCEPT ![i] = DeliverRec(calls[i], v)]
                     \/ calls' = [calls EXCEPT ![i] = DroppedRec(calls[i], v)],
                 i \in 1..Len(calls), calls[i].engine = "pending",
                 UNCHANGED <<cpc, cur>>
          PROVE  AC!Answer(i)
      <3> DEFINE c == calls[i]
      <3>1. c \in CallRec /\ c.sent = None
        BY <2>0, <2>3, ElementOfSeq DEF RefInv
      <3>2. callLog[i] = [op |-> c.op, answer |-> c.sent, result |-> c.result]
        BY <2>3 DEF callLog
      <3>3. callLog' = [callLog EXCEPT ![i] =
                [op |-> c.op, answer |-> v, result |-> c.result]]
        <4>1. PICK e \in {DeliverRec(c, v), DroppedRec(c, v)} :
                  calls' = [calls EXCEPT ![i] = e]
          BY <2>3
        <4>2. e \in CallRec
          BY <3>1, <4>1, StepRecs
        <4>3. e.op = c.op /\ e.sent = v /\ e.result = c.result
          BY <3>1, <4>1 DEF DeliverRec, DroppedRec, CallRec
        <4>4. LogOf([calls EXCEPT ![i] = e]) =
                  [LogOf(calls) EXCEPT ![i] = [op |-> e.op, answer |-> e.sent,
                                               result |-> e.result]]
          BY <2>0, <2>3, <4>2, LogUpdate, ZenonT(60)
        <4>. QED
          BY <2>0, <4>1, <4>3, <4>4
      <3>4. awaited' = awaited
        BY <2>3 DEF awaited
      <3>5. callLog[i].answer = None
        BY <3>1, <3>2
      <3>6. [callLog[i] EXCEPT !.answer = v] = [op |-> c.op, answer |-> v, result |-> c.result]
        BY <3>2
      <3>7. callLog' = [callLog EXCEPT ![i].answer = v]
        BY <3>3, <3>6
      <3>. QED
        BY <3>4, <3>5, <3>7 DEF AC!Answer, AC!Answers, AC!avars
    <2>4. ASSUME NEW i \in 1..MaxCalls, Abandon(i) PROVE UNCHANGED AC!avars
      <3> DEFINE c == calls[i]
      <3>1. i \in 1..Len(calls) /\ c \in CallRec /\ UNCHANGED <<cpc, cur>>
            /\ calls' = [calls EXCEPT ![i] = AbandonRec(c)]
        <4>1. i \in 1..Len(calls) /\ UNCHANGED <<cpc, cur>>
              /\ calls' = [calls EXCEPT ![i] = AbandonRec(c)]
          BY <2>4 DEF Abandon, AbandonRec
        <4>. QED
          BY <2>0, <4>1, ElementOfSeq
      <3>2. AbandonRec(c) \in CallRec
            /\ AbandonRec(c).op = c.op /\ AbandonRec(c).sent = c.sent
            /\ AbandonRec(c).result = c.result
        BY <3>1, StepRecs DEF AbandonRec, CallRec
      <3>3. callLog' = [callLog EXCEPT ![i] =
                [op |-> c.op, answer |-> c.sent, result |-> c.result]]
        <4>1. LogOf([calls EXCEPT ![i] = AbandonRec(c)]) =
                  [LogOf(calls) EXCEPT ![i] = [op |-> AbandonRec(c).op,
                      answer |-> AbandonRec(c).sent, result |-> AbandonRec(c).result]]
          BY <2>0, <3>1, <3>2, LogUpdate, ZenonT(60)
        <4>. QED
          BY <2>0, <3>1, <3>2, <4>1
      <3>4. callLog[i] = [op |-> c.op, answer |-> c.sent, result |-> c.result]
        BY <3>1 DEF callLog
      <3>5. callLog' = callLog
        <4>1. i \in DOMAIN callLog
          BY <3>1 DEF callLog
        <4>2. callLog' = [callLog EXCEPT ![i] = callLog[i]]
          BY <3>3, <3>4
        <4>3. callLog \in Seq(LogRec)
          BY <2>0, LogIsSeq
        <4>. QED
          BY <4>1, <4>2, <4>3
      <3>. QED
        BY <3>1, <3>5 DEF AC!avars, awaited
    <2>5. ASSUME UNCHANGED <<calls, cur>>,
                 cpc \in {"idle", "lock"}, cpc' \in {"idle", "lock"}
          PROVE  UNCHANGED AC!avars
      BY <2>5 DEF AC!avars, callLog, awaited
    <2>6. ASSUME UNCHANGED <<calls, cpc, cur>> PROVE UNCHANGED AC!avars
      BY <2>6 DEF AC!avars, callLog, awaited
    <2>. QED
      <3>1. ASSUME NEW op \in AsyncOps, IssueCall(op) PROVE AC!Next
        BY <2>1, <3>1 DEF AC!Next
      <3>2. ASSUME NEW i \in 1..MaxCalls, Deliver(i) \/ DeliverToDropped(i)
            PROVE  AC!Next
        <4>1. /\ \E v \in Outcome :
                   \/ calls' = [calls EXCEPT ![i] = DeliverRec(calls[i], v)]
                   \/ calls' = [calls EXCEPT ![i] = DroppedRec(calls[i], v)]
              /\ i \in 1..Len(calls) /\ calls[i].engine = "pending"
              /\ UNCHANGED <<cpc, cur>>
          BY <3>2 DEF Deliver, DeliverToDropped, DeliverRec, DroppedRec
        <4>2. PICK v \in Outcome :
                \/ calls' = [calls EXCEPT ![i] = DeliverRec(calls[i], v)]
                \/ calls' = [calls EXCEPT ![i] = DroppedRec(calls[i], v)]
          BY <4>1
        <4>3. AC!Answer(i)
          BY <2>3, <4>1, <4>2
        <4>4. i \in 1..Len(callLog)
          BY <2>0, <4>1
        <4>. QED
          BY <4>3, <4>4 DEF AC!Next
      <3>3. ASSUME NEW k \in Kinds, NEW h \in Handlers, RegisterBegin(k, h)
            PROVE  UNCHANGED AC!avars
        BY <2>5, <3>3 DEF RegisterBegin, TypeOK
      <3>4. RegisterEnd => UNCHANGED AC!avars
        BY <2>5 DEF RegisterEnd, TypeOK
      <3>5. (\/ \E k \in Kinds : DispatchBegin(k)
             \/ DispatchEnd \/ AppRecv \/ UNCHANGED vars) => UNCHANGED AC!avars
        BY <2>6 DEF DispatchBegin, DispatchEnd, AppRecv, callerVars, vars
      <3>. QED
        BY <2>2, <2>4, <3>1, <3>2, <3>3, <3>4, <3>5
        DEF Next, CreateOffer, CreateAnswer, SetLocalDescription,
            SetRemoteDescription, AddIceCandidate, AsyncOps
  <1>. QED
    BY <1>1, <1>2, TypeCorrect, OwnAnswerInvariant, RefInvariant, PTL
    DEF Spec, ImplementsAsyncCall, AC!Spec

=============================================================================
