------------------------ MODULE PeerConnectionProofs ------------------------
(***************************************************************************)
(* Theorems about PeerConnection, for every value of its constants.       *)
(***************************************************************************)
EXTENDS PeerConnection, SequenceTheorems, TLAPS

\* Replacing one call record by another keeps calls a sequence of CallRec
\* of the same length.
LEMMA CallUpdate ==
    ASSUME NEW s \in Seq(CallRec), NEW i \in 1..Len(s), NEW e \in CallRec
    PROVE  /\ [s EXCEPT ![i] = e] \in Seq(CallRec)
           /\ Len([s EXCEPT ![i] = e]) = Len(s)
  BY ExceptSeq

\* Appending a fresh call record keeps calls a sequence of CallRec, one longer.
LEMMA CallAppend ==
    ASSUME NEW s \in Seq(CallRec), NEW e \in CallRec
    PROVE  /\ Append(s, e) \in Seq(CallRec)
           /\ Len(Append(s, e)) = Len(s) + 1
  BY AppendProperties

\* Type correctness: every reachable state satisfies TypeOK.
THEOREM TypeCorrect == Spec => []TypeOK
  <1> USE DEF EngineStates, Outcome, Results, None
  <1>1. Init => TypeOK
    <2> SUFFICES ASSUME Init PROVE TypeOK
      OBVIOUS
    <2>1. calls \in Seq(CallRec) /\ Len(calls) <= MaxCalls
      BY EmptySeq, ConstAssumption DEF Init
    <2>2. cur \in 0..MaxCalls /\ (cpc = "await" => cur \in 1..Len(calls))
      BY ConstAssumption DEF Init
    <2>3. reg \in [kind: Kinds, handler: Handlers \cup {NoHandler}]
      BY ConstAssumption DEF Init
    <2>4. slot \in [Kinds -> Handlers \cup {NoHandler}]
      BY DEF Init
    <2>5. /\ cpc \in {"idle", "await", "lock"} /\ spc \in {"idle", "handler"}
          /\ skind \in Kinds /\ shandler \in Handlers \cup {NoHandler}
          /\ missed \subseteq Kinds /\ aborted \in BOOLEAN
      BY ConstAssumption DEF Init
    <2>6. app \in 0..AppCap
      BY ConstAssumption DEF Init
    <2>. QED
      BY <2>1, <2>2, <2>3, <2>4, <2>5, <2>6 DEF TypeOK
  <1>2. TypeOK /\ [Next]_vars => TypeOK'
    <2> SUFFICES ASSUME TypeOK, [Next]_vars PROVE TypeOK'
      OBVIOUS
    <2> USE ConstAssumption
    <2>1. ASSUME NEW op \in AsyncOps, IssueCall(op) PROVE TypeOK'
      <3>1. [op |-> op, buf |-> None, rx |-> TRUE, local |-> TRUE,
             engine |-> "pending", sent |-> None, result |-> None] \in CallRec
        BY DEF CallRec, None
      <3>2. calls' \in Seq(CallRec) /\ Len(calls') = Len(calls) + 1
        BY <2>1, <3>1, CallAppend DEF TypeOK, IssueCall
      <3>. QED
        BY <2>1, <3>2 DEF TypeOK, IssueCall, hubVars
    <2>2. CASE Recv
      <3> DEFINE c == calls[cur]
      <3>1. cpc = "await" /\ cur \in 1..Len(calls) /\ c \in CallRec
        <4>1. cpc = "await" /\ cur \in 1..Len(calls) /\ calls \in Seq(CallRec)
          BY <2>2 DEF Recv, TypeOK
        <4>. QED
          BY <4>1, ElementOfSeq
      <3>2. RecvValue(c.op, c.buf) \in Results \cup {None} \/ c.buf = None
        BY <3>1 DEF RecvValue, CallRec, Results, Outcome, None
      <3>3. calls' \in Seq(CallRec) /\ Len(calls') = Len(calls)
        <4>1. CASE c.buf # None
          <5>1. [c EXCEPT !.buf = None, !.result = RecvValue(c.op, c.buf),
                          !.rx = FALSE, !.local = FALSE] \in CallRec
            BY <3>1, <4>1 DEF CallRec, RecvValue, Results, Outcome, None
          <5>2. calls' = [calls EXCEPT ![cur] = [c EXCEPT !.buf = None,
                            !.result = RecvValue(c.op, c.buf),
                            !.rx = FALSE, !.local = FALSE]]
            BY <2>2, <4>1 DEF Recv
          <5>. QED
            BY <5>1, <5>2, <3>1, CallUpdate DEF TypeOK
        <4>2. CASE c.buf = None
          <5>1. [c EXCEPT !.result = "closed", !.rx = FALSE, !.local = FALSE] \in CallRec
            BY <3>1 DEF CallRec, Results
          <5>. QED
            BY <2>2, <4>2, <5>1, <3>1, CallUpdate DEF Recv, TypeOK
        <4>. QED
          BY <4>1, <4>2
      <3>. QED
        BY <2>2, <3>3 DEF TypeOK, Recv, hubVars
    <2>3. CASE Cancel
      <3>1. cur \in 1..Len(calls) /\ calls[cur] \in CallRec
        <4>1. cur \in 1..Len(calls) /\ calls \in Seq(CallRec)
          BY <2>3 DEF Cancel, TypeOK
        <4>. QED
          BY <4>1, ElementOfSeq
      <3>2. [calls[cur] EXCEPT !.buf = None, !.rx = FALSE, !.local = FALSE,
                               !.result = "cancelled"] \in CallRec
        BY <3>1 DEF CallRec, Results, None
      <3>3. calls' \in Seq(CallRec) /\ Len(calls') = Len(calls)
        BY <2>3, <3>1, <3>2, CallUpdate DEF Cancel, TypeOK
      <3>. QED
        BY <2>3, <3>3 DEF TypeOK, Cancel, hubVars
    <2>4. ASSUME NEW i \in 1..MaxCalls, Deliver(i) PROVE TypeOK'
      <3>1. i \in 1..Len(calls) /\ calls[i] \in CallRec
        <4>1. i \in 1..Len(calls) /\ calls \in Seq(CallRec)
          BY <2>4 DEF Deliver, TypeOK
        <4>. QED
          BY <4>1, ElementOfSeq
      <3>2. PICK v \in Outcome :
              calls' = [calls EXCEPT ![i] = [calls[i] EXCEPT !.buf = v,
                           !.engine = "delivered", !.sent = v]]
        BY <2>4 DEF Deliver
      <3>3. [calls[i] EXCEPT !.buf = v, !.engine = "delivered", !.sent = v] \in CallRec
        BY <3>1 DEF CallRec, EngineStates
      <3>4. calls' \in Seq(CallRec) /\ Len(calls') = Len(calls)
        BY <3>1, <3>2, <3>3, CallUpdate DEF TypeOK
      <3>. QED
        BY <2>4, <3>4 DEF TypeOK, Deliver, hubVars
    <2>5. ASSUME NEW i \in 1..MaxCalls, DeliverToDropped(i) PROVE TypeOK'
      <3>1. i \in 1..Len(calls) /\ calls[i] \in CallRec
        <4>1. i \in 1..Len(calls) /\ calls \in Seq(CallRec)
          BY <2>5 DEF DeliverToDropped, TypeOK
        <4>. QED
          BY <4>1, ElementOfSeq
      <3>2. PICK v \in Outcome :
              calls' = [calls EXCEPT ![i] = [calls[i] EXCEPT !.engine = "delivered",
                                                             !.sent = v]]
        BY <2>5 DEF DeliverToDropped
      <3>3. [calls[i] EXCEPT !.engine = "delivered", !.sent = v] \in CallRec
        BY <3>1 DEF CallRec, EngineStates
      <3>4. calls' \in Seq(CallRec) /\ Len(calls') = Len(calls)
        BY <3>1, <3>2, <3>3, CallUpdate DEF TypeOK
      <3>. QED
        BY <2>5, <3>4 DEF TypeOK, DeliverToDropped, hubVars
    <2>6. ASSUME NEW i \in 1..MaxCalls, Abandon(i) PROVE TypeOK'
      <3>1. i \in 1..Len(calls) /\ calls[i] \in CallRec
        <4>1. i \in 1..Len(calls) /\ calls \in Seq(CallRec)
          BY <2>6 DEF Abandon, TypeOK
        <4>. QED
          BY <4>1, ElementOfSeq
      <3>2. [calls[i] EXCEPT !.engine = "released"] \in CallRec
        BY <3>1 DEF CallRec, EngineStates
      <3>3. calls' \in Seq(CallRec) /\ Len(calls') = Len(calls)
        BY <2>6, <3>1, <3>2, CallUpdate DEF Abandon, TypeOK
      <3>. QED
        BY <2>6, <3>3 DEF TypeOK, Abandon, hubVars
    <2>7. ASSUME NEW k \in Kinds, NEW h \in Handlers, RegisterBegin(k, h) PROVE TypeOK'
      BY <2>7 DEF TypeOK, RegisterBegin, hubVars
    <2>8. CASE RegisterEnd
      BY <2>8 DEF TypeOK, RegisterEnd
    <2>9. ASSUME NEW k \in Kinds, DispatchBegin(k) PROVE TypeOK'
      BY <2>9 DEF TypeOK, DispatchBegin, callerVars
    <2>10. CASE DispatchEnd
      BY <2>10 DEF TypeOK, DispatchEnd, callerVars
    <2>11. CASE UNCHANGED vars
      BY <2>11 DEF TypeOK, vars
    <2>12. CASE AppRecv
      BY <2>12 DEF TypeOK, AppRecv, callerVars
    <2>. QED
      BY <2>1, <2>2, <2>3, <2>4, <2>5, <2>6, <2>7, <2>8, <2>9, <2>10, <2>11, <2>12
      DEF Next, CreateOffer, CreateAnswer, SetLocalDescription,
          SetRemoteDescription, AddIceCandidate, AsyncOps
  <1>. QED
    BY <1>1, <1>2, PTL DEF Spec

\* A call record is consistent with the engine's answer when a value in the
\* channel buffer is the one the engine's callback sent, and an outcome the
\* caller received is the value recv() mapped from that answer; both can
\* only exist once the engine has delivered (it calls each observer once).
AnswerConsistent(r) ==
    /\ r.buf # None => r.buf = r.sent /\ r.engine = "delivered"
    /\ r.result \in Outcome =>
           r.result = RecvValue(r.op, r.sent) /\ r.engine = "delivered"

\* The inductive strengthening of OwnAnswer: every call is consistent.
OwnAnswerInv == \A i \in 1..Len(calls) : AnswerConsistent(calls[i])

\* Replacing one call record by a consistent one keeps every call consistent.
LEMMA ConsistentUpdate ==
    ASSUME NEW s \in Seq(CallRec), NEW j \in 1..Len(s), NEW e \in CallRec,
           \A i \in 1..Len(s) : AnswerConsistent(s[i]),
           AnswerConsistent(e)
    PROVE  \A i \in 1..Len([s EXCEPT ![j] = e]) :
               AnswerConsistent([s EXCEPT ![j] = e][i])
  <1>1. Len([s EXCEPT ![j] = e]) = Len(s)
    BY ExceptSeq
  <1>2. \A i \in 1..Len(s) : [s EXCEPT ![j] = e][i] = IF i = j THEN e ELSE s[i]
    OBVIOUS
  <1>. QED
    BY <1>1, <1>2

\* Every call record stays consistent with the engine's answer to it: the
\* channel(1) of a call only ever holds what its own observer sent.
THEOREM OwnAnswerInvariant == Spec => []OwnAnswerInv
  <1> USE DEF Outcome, None
  <1>1. Init => OwnAnswerInv
    BY DEF Init, OwnAnswerInv
  <1>2. TypeOK /\ OwnAnswerInv /\ [Next]_vars => OwnAnswerInv'
    <2> SUFFICES ASSUME TypeOK, OwnAnswerInv, [Next]_vars PROVE OwnAnswerInv'
      OBVIOUS
    <2>0. calls \in Seq(CallRec)
      BY DEF TypeOK
    <2>1. ASSUME NEW op \in AsyncOps, IssueCall(op) PROVE OwnAnswerInv'
      <3> DEFINE e == [op |-> op, buf |-> None, rx |-> TRUE, local |-> TRUE,
                       engine |-> "pending", sent |-> None, result |-> None]
      <3>1. e \in CallRec /\ AnswerConsistent(e)
        BY DEF CallRec, AnswerConsistent, EngineStates, Results
      <3>2. calls' = Append(calls, e)
        BY <2>1 DEF IssueCall
      <3>3. /\ Len(calls') = Len(calls) + 1
            /\ \A i \in 1..Len(calls) : calls'[i] = calls[i]
            /\ calls'[Len(calls) + 1] = e
        BY <2>0, <3>1, <3>2, AppendProperties
      <3>. QED
        BY <3>1, <3>3 DEF OwnAnswerInv
    <2>2. CASE Recv
      <3> DEFINE c == calls[cur]
      <3>1. cur \in 1..Len(calls) /\ c \in CallRec /\ AnswerConsistent(c)
        <4>1. cur \in 1..Len(calls)
          BY <2>2 DEF Recv, TypeOK
        <4>. QED
          BY <2>0, <4>1, ElementOfSeq DEF OwnAnswerInv
      <3>2. CASE c.buf # None
        <4> DEFINE e == [c EXCEPT !.buf = None, !.result = RecvValue(c.op, c.buf),
                                  !.rx = FALSE, !.local = FALSE]
        <4>1. calls' = [calls EXCEPT ![cur] = e]
          BY <2>2, <3>2 DEF Recv
        <4>2. c.buf = c.sent /\ c.engine = "delivered"
          BY <3>1, <3>2 DEF AnswerConsistent
        <4>3. e \in CallRec /\ AnswerConsistent(e)
          BY <3>1, <4>2 DEF CallRec, AnswerConsistent, RecvValue, Results
        <4>. QED
          BY <2>0, <3>1, <4>1, <4>3, ConsistentUpdate DEF OwnAnswerInv
      <3>3. CASE c.buf = None
        <4> DEFINE e == [c EXCEPT !.result = "closed", !.rx = FALSE, !.local = FALSE]
        <4>1. calls' = [calls EXCEPT ![cur] = e]
          BY <2>2, <3>3 DEF Recv
        <4>2. e \in CallRec /\ AnswerConsistent(e)
          BY <3>1, <3>3 DEF CallRec, AnswerConsistent, Results
        <4>. QED
          BY <2>0, <3>1, <4>1, <4>2, ConsistentUpdate DEF OwnAnswerInv
      <3>. QED
        BY <3>2, <3>3
    <2>3. CASE Cancel
      <3> DEFINE e == [calls[cur] EXCEPT !.buf = None, !.rx = FALSE,
                                         !.local = FALSE, !.result = "cancelled"]
      <3>1. cur \in 1..Len(calls) /\ calls[cur] \in CallRec
        <4>1. cur \in 1..Len(calls)
          BY <2>3 DEF Cancel, TypeOK
        <4>. QED
          BY <2>0, <4>1, ElementOfSeq
      <3>2. e \in CallRec /\ AnswerConsistent(e)
        BY <3>1 DEF CallRec, AnswerConsistent, Results
      <3>3. calls' = [calls EXCEPT ![cur] = e]
        BY <2>3 DEF Cancel
      <3>. QED
        BY <2>0, <3>1, <3>2, <3>3, ConsistentUpdate DEF OwnAnswerInv
    \* The engine answers only a pending observer; a pending call has neither
    \* a buffered value nor a received outcome, so its new answer cannot
    \* contradict an earlier one.
    <2>4. ASSUME NEW i \in 1..MaxCalls,
                 Deliver(i) \/ DeliverToDropped(i) \/ Abandon(i)
          PROVE  OwnAnswerInv'
      <3>1. i \in 1..Len(calls) /\ calls[i].engine = "pending"
        BY <2>4 DEF Deliver, DeliverToDropped, Abandon
      <3>2. calls[i] \in CallRec /\ AnswerConsistent(calls[i])
        BY <2>0, <3>1, ElementOfSeq DEF OwnAnswerInv
      <3>3. calls[i].result \notin Outcome
        BY <3>1, <3>2 DEF AnswerConsistent
      <3>4. CASE Deliver(i)
        <4>1. PICK v \in Outcome :
                calls' = [calls EXCEPT ![i] = [calls[i] EXCEPT !.buf = v,
                             !.engine = "delivered", !.sent = v]]
          BY <3>4 DEF Deliver
        <4>2. [calls[i] EXCEPT !.buf = v, !.engine = "delivered", !.sent = v] \in CallRec
          BY <3>2 DEF CallRec, EngineStates
        <4>3. AnswerConsistent([calls[i] EXCEPT !.buf = v, !.engine = "delivered", !.sent = v])
          BY <3>2, <3>3 DEF CallRec, AnswerConsistent
        <4>. QED
          BY <2>0, <3>1, <4>1, <4>2, <4>3, ConsistentUpdate DEF OwnAnswerInv
      <3>5. CASE DeliverToDropped(i)
        <4>0. calls[i].buf = None
          BY <3>1, <3>2 DEF AnswerConsistent
        <4>1. PICK v \in Outcome :
                calls' = [calls EXCEPT ![i] = [calls[i] EXCEPT !.engine = "delivered",
                                                               !.sent = v]]
          BY <3>5 DEF DeliverToDropped
        <4>2. [calls[i] EXCEPT !.engine = "delivered", !.sent = v] \in CallRec
          BY <3>2 DEF CallRec, EngineStates
        <4>3. AnswerConsistent([calls[i] EXCEPT !.engine = "delivered", !.sent = v])
          BY <3>2, <3>3, <4>0 DEF CallRec, AnswerConsistent
        <4>. QED
          BY <2>0, <3>1, <4>1, <4>2, <4>3, ConsistentUpdate DEF OwnAnswerInv
      <3>6. CASE Abandon(i)
        <4>0. calls[i].buf = None
          BY <3>1, <3>2 DEF AnswerConsistent
        <4>1. calls' = [calls EXCEPT ![i] = [calls[i] EXCEPT !.engine = "released"]]
          BY <3>6 DEF Abandon
        <4>2. [calls[i] EXCEPT !.engine = "released"] \in CallRec
          BY <3>2 DEF CallRec, EngineStates
        <4>3. AnswerConsistent([calls[i] EXCEPT !.engine = "released"])
          BY <3>2, <3>3, <4>0 DEF CallRec, AnswerConsistent
        <4>. QED
          BY <2>0, <3>1, <4>1, <4>2, <4>3, ConsistentUpdate DEF OwnAnswerInv
      <3>. QED
        BY <2>4, <3>4, <3>5, <3>6
    <2>5. CASE \/ \E k \in Kinds, h \in Handlers : RegisterBegin(k, h)
               \/ RegisterEnd
               \/ \E k \in Kinds : DispatchBegin(k)
               \/ DispatchEnd
               \/ AppRecv
               \/ UNCHANGED vars
      <3>1. calls' = calls
        BY <2>5 DEF RegisterBegin, RegisterEnd, DispatchBegin, DispatchEnd,
                    AppRecv, callerVars, vars
      <3>. QED
        BY <3>1 DEF OwnAnswerInv
    <2>. QED
      BY <2>1, <2>2, <2>3, <2>4, <2>5
      DEF Next, CreateOffer, CreateAnswer, SetLocalDescription,
          SetRemoteDescription, AddIceCandidate, AsyncOps
  <1>. QED
    BY <1>1, <1>2, TypeCorrect, PTL DEF Spec

\* Each call returns the engine's answer to that very call: whatever the
\* caller does with dropped futures (timeouts, select!) and whatever the engine
\* does with observers, the channel(1) made by an async operation only ever
\* carries the answer of its own observer, and add_ice_candidate maps it to
\* Ok(()).  This is OwnAnswer, checked by the cancel_retry run, for every
\* value of the constants.
THEOREM OwnAnswerCorrect == Spec => []OwnAnswer
  <1>1. OwnAnswerInv => OwnAnswer
    BY DEF OwnAnswerInv, AnswerConsistent, OwnAnswer
  <1>. QED
    BY <1>1, OwnAnswerInvariant, PTL

\* The scope of the add_ice_error finding: for create_offer, create_answer,
\* set_local_description and set_remote_description, an engine failure
\* that reaches the awaiting caller reaches it as Err.  Only
\* add_ice_candidate's `Some(value) => Ok(())` turns it into success.
THEOREM ErrorSurfacedExceptIce ==
    Spec => [](\A i \in 1..Len(calls) :
                  /\ calls[i].op # "add_ice_candidate"
                  /\ calls[i].sent = "err" /\ calls[i].result \in Outcome
                  => calls[i].result = "err")
  <1>1. OwnAnswer => \A i \in 1..Len(calls) :
                        /\ calls[i].op # "add_ice_candidate"
                        /\ calls[i].sent = "err" /\ calls[i].result \in Outcome
                        => calls[i].result = "err"
    BY DEF OwnAnswer, RecvValue
  <1>. QED
    BY <1>1, OwnAnswerCorrect, PTL

\* The inductive strengthening of NoSignalingThreadPanic when the caller never
\* drops a future: a receiver is gone only once the engine has answered or
\* released the call's observer.
NoPanicInv ==
    /\ ~aborted
    /\ \A i \in 1..Len(calls) : ~calls[i].rx => calls[i].engine # "pending"

\* Replacing one call record by one that keeps "no receiver is gone while
\* the engine still holds the observer" keeps it for every call.
LEMMA LiveReceiverUpdate ==
    ASSUME NEW s \in Seq(CallRec), NEW j \in 1..Len(s), NEW e \in CallRec,
           \A i \in 1..Len(s) : ~s[i].rx => s[i].engine # "pending",
           ~e.rx => e.engine # "pending"
    PROVE  \A i \in 1..Len([s EXCEPT ![j] = e]) :
               ~[s EXCEPT ![j] = e][i].rx => [s EXCEPT ![j] = e][i].engine # "pending"
  BY ExceptSeq

\* When the caller never drops a pending future, the `blocking_send(..)
\* .unwrap()` of the completion callbacks never panics on the signaling
\* thread: rx is dropped only by recv() returning, which happens after the
\* engine answered (a value was buffered) or after every Sender, the
\* engine's included, is gone.  The cancel_abort run shows the condition is
\* needed.
THEOREM NoPanicWithoutCancel ==
    ASSUME ~CallerMayCancel
    PROVE  Spec => []NoSignalingThreadPanic
  <1> USE DEF Outcome, None
  <1>1. Init => NoPanicInv
    BY DEF Init, NoPanicInv
  <1>2. TypeOK /\ OwnAnswerInv /\ NoPanicInv /\ [Next]_vars => NoPanicInv'
    <2> SUFFICES ASSUME TypeOK, OwnAnswerInv, NoPanicInv, [Next]_vars
                 PROVE  NoPanicInv'
      OBVIOUS
    <2>0. calls \in Seq(CallRec)
      BY DEF TypeOK
    <2>1. ASSUME NEW op \in AsyncOps, IssueCall(op) PROVE NoPanicInv'
      <3> DEFINE e == [op |-> op, buf |-> None, rx |-> TRUE, local |-> TRUE,
                       engine |-> "pending", sent |-> None, result |-> None]
      <3>1. e \in CallRec
        BY DEF CallRec, EngineStates, Results
      <3>2. calls' = Append(calls, e) /\ aborted' = aborted
        BY <2>1 DEF IssueCall
      <3>3. /\ Len(calls') = Len(calls) + 1
            /\ \A i \in 1..Len(calls) : calls'[i] = calls[i]
            /\ calls'[Len(calls) + 1] = e
        BY <2>0, <3>1, <3>2, AppendProperties
      <3>. QED
        BY <3>2, <3>3 DEF NoPanicInv
    \* recv() returns only a buffered value, which the engine has sent, or
    \* "closed" once the engine no longer holds the observer.
    <2>2. CASE Recv
      <3> DEFINE c == calls[cur]
      <3>1. cur \in 1..Len(calls) /\ c \in CallRec /\ AnswerConsistent(c)
        <4>1. cur \in 1..Len(calls)
          BY <2>2 DEF Recv, TypeOK
        <4>. QED
          BY <2>0, <4>1, ElementOfSeq DEF OwnAnswerInv
      <3>2. CASE c.buf # None
        <4> DEFINE e == [c EXCEPT !.buf = None, !.result = RecvValue(c.op, c.buf),
                                  !.rx = FALSE, !.local = FALSE]
        <4>1. calls' = [calls EXCEPT ![cur] = e] /\ aborted' = aborted
          BY <2>2, <3>2 DEF Recv
        <4>2. e \in CallRec /\ e.engine = "delivered"
          BY <3>1, <3>2 DEF CallRec, AnswerConsistent, RecvValue, Results
        <4>. QED
          BY <2>0, <3>1, <4>1, <4>2, LiveReceiverUpdate DEF NoPanicInv
      <3>3. CASE c.buf = None
        <4> DEFINE e == [c EXCEPT !.result = "closed", !.rx = FALSE, !.local = FALSE]
        <4>1. calls' = [calls EXCEPT ![cur] = e] /\ aborted' = aborted
              /\ ~SenderAlive(c)
          BY <2>2, <3>3 DEF Recv
        <4>2. e \in CallRec /\ e.engine # "pending"
          BY <3>1, <4>1 DEF CallRec, Results, SenderAlive
        <4>. QED
          BY <2>0, <3>1, <4>1, <4>2, LiveReceiverUpdate DEF NoPanicInv
      <3>. QED
        BY <3>2, <3>3
    <2>3. CASE Cancel
      BY <2>3 DEF Cancel
    \* The engine answers a pending observer only while its receiver lives.
    <2>4. ASSUME NEW i \in 1..MaxCalls,
                 Deliver(i) \/ DeliverToDropped(i) \/ Abandon(i)
          PROVE  NoPanicInv'
      <3>1. i \in 1..Len(calls) /\ calls[i] \in CallRec
        <4>1. i \in 1..Len(calls)
          BY <2>4 DEF Deliver, DeliverToDropped, Abandon
        <4>. QED
          BY <2>0, <4>1, ElementOfSeq
      <3>2. CASE Deliver(i)
        <4>1. PICK v \in Outcome :
                calls' = [calls EXCEPT ![i] = [calls[i] EXCEPT !.buf = v,
                             !.engine = "delivered", !.sent = v]]
          BY <3>2 DEF Deliver
        <4>2. [calls[i] EXCEPT !.buf = v, !.engine = "delivered", !.sent = v] \in CallRec
          BY <3>1 DEF CallRec, EngineStates
        <4>3. aborted' = aborted
          BY <3>2 DEF Deliver
        <4>. QED
          BY <2>0, <3>1, <4>1, <4>2, <4>3, LiveReceiverUpdate DEF NoPanicInv
      <3>3. CASE DeliverToDropped(i)
        BY <3>1, <3>3 DEF DeliverToDropped, NoPanicInv
      <3>4. CASE Abandon(i)
        <4>1. calls' = [calls EXCEPT ![i] = [calls[i] EXCEPT !.engine = "released"]]
              /\ aborted' = aborted
          BY <3>4 DEF Abandon
        <4>2. [calls[i] EXCEPT !.engine = "released"] \in CallRec
          BY <3>1 DEF CallRec, EngineStates
        <4>. QED
          BY <2>0, <3>1, <4>1, <4>2, LiveReceiverUpdate DEF NoPanicInv
      <3>. QED
        BY <2>4, <3>2, <3>3, <3>4
    <2>5. CASE \/ \E k \in Kinds, h \in Handlers : RegisterBegin(k, h)
               \/ RegisterEnd
               \/ \E k \in Kinds : DispatchBegin(k)
               \/ DispatchEnd
               \/ AppRecv
               \/ UNCHANGED vars
      <3>1. calls' = calls /\ aborted' = aborted
        BY <2>5 DEF RegisterBegin, RegisterEnd, DispatchBegin, DispatchEnd,
                    AppRecv, callerVars, vars
      <3>. QED
        BY <3>1 DEF NoPanicInv
    <2>. QED
      BY <2>1, <2>2, <2>3, <2>4, <2>5
      DEF Next, CreateOffer, CreateAnswer, SetLocalDescription,
          SetRemoteDescription, AddIceCandidate, AsyncOps
  <1>3. NoPanicInv => NoSignalingThreadPanic
    BY DEF NoPanicInv, NoSignalingThreadPanic
  <1>. QED
    BY <1>1, <1>2, <1>3, TypeCorrect, OwnAnswerInvariant, PTL DEF Spec

=============================================================================
