--------------------------- MODULE PeerConnection ---------------------------
(***************************************************************************)
(* The bridge of src/crates/livekit-webrtc/src/peer_connection.rs between  *)
(* a caller task and the native engine's signaling thread.                 *)
(*                                                                         *)
(*  - Every async operation (create_offer, create_answer,                  *)
(*    set_local_description, set_remote_description, add_ice_candidate)   *)
(*    makes an mpsc::channel(1), moves the Sender into an observer owned   *)
(*    by the local `native_wrapper`, hands the observer to the engine and  *)
(*    awaits `rx.recv()`.  A call is a record of `calls`.                  *)
(*  - Every operation takes `&mut self`, so one caller task drives the     *)
(*    PeerConnection: it is idle, awaiting one call, or blocked on the     *)
(*    Mutex of a handler slot inside an on_<event> registration.           *)
(*  - The engine runs completion callbacks and InternalObserver dispatch   *)
(*    on its signaling thread, one at a time.  A dispatch locks the slot   *)
(*    and keeps it locked while the handler runs.                          *)
(* The engine itself is the environment: it calls each callback once, at  *)
(* a time of its choosing, with success or failure; with EngineMayAbandon  *)
(* it may also drop an observer without calling it.  With CallerMayCancel  *)
(* the caller may drop an awaiting future (e.g. under a timeout).          *)
(***************************************************************************)
EXTENDS Naturals, Sequences, FiniteSets

CONSTANTS
    Kinds,             \* event kinds of InternalObserver's slots (strings named after the slots)
    Handlers,          \* handler closures the application may register
    NoHandler,         \* an empty slot, Option::None
    MaxCalls,          \* bound on the number of async operations issued
    EngineMayAbandon,  \* the engine may release an observer without calling it
    CallerMayCancel,   \* the caller may drop a pending operation's future
    BlockingKinds,     \* kinds whose handler does blocking_send into an application channel
    AppCap             \* capacity of that channel (the test's mpsc::channel(16))

ASSUME ConstAssumption ==
    /\ Kinds # {}
    /\ MaxCalls \in Nat
    /\ NoHandler \notin Handlers
    /\ EngineMayAbandon \in BOOLEAN
    /\ CallerMayCancel \in BOOLEAN
    /\ BlockingKinds \subseteq Kinds
    /\ AppCap \in Nat

AsyncOps == {"create_offer", "create_answer", "set_local_description",
             "set_remote_description", "add_ice_candidate"}

\* What the engine's completion callback reports: Ok(..) or Err(RTCError).
Outcome == {"ok", "err"}

\* What the awaiting caller ends with: the mapped Outcome, the
\* RecvError("channel closed") arm, or the future dropped before completion.
Results == Outcome \cup {"closed", "cancelled"}

None == "none"

\* Slots whose dispatch takes the lock and then leaves the handler uncalled
\* (the `// TODO(theomonnom)` bodies): the stream events, the removed
\* candidates and the track events.
UnforwardedStreamKinds == {"add_stream", "remove_stream"}
UnforwardedCandidateKinds == {"ice_candidates_removed"}
UnforwardedTrackKinds == {"add_track", "track", "remove_track"}
UnforwardedKinds ==
    UnforwardedStreamKinds \cup UnforwardedCandidateKinds \cup UnforwardedTrackKinds

\* on_negotiation_needed_event_handler has no on_* registration method.
UnregistrableKinds == {"negotiation_needed_event"}

\* The engine's hold on an observer: it has yet to call it, it called it, or
\* it dropped it without calling.
EngineStates == {"pending", "delivered", "released"}

CallRec == [op: AsyncOps, buf: Outcome \cup {None}, rx: BOOLEAN,
            local: BOOLEAN, engine: EngineStates,
            sent: Outcome \cup {None}, result: Results \cup {None}]

VARIABLES
    calls,     \* sequence of CallRec, one per async operation issued
    cpc,       \* caller task: "idle", "await" (in rx.recv()), "lock" (in slot.lock())
    cur,       \* index in calls of the call the caller awaits
    reg,       \* the registration [kind, handler] the caller is performing
    slot,      \* InternalObserver: kind -> registered handler or NoHandler
    spc,       \* signaling thread: "idle" or "handler" (inside a dispatch, slot locked)
    skind,     \* kind of the dispatch in progress
    shandler,  \* handler the dispatch in progress took from its slot
    missed,    \* kinds with an event dispatched to a registered handler that was not called
    app,       \* values the handlers have sent into the application channel, unread
    aborted    \* a panic on the signaling thread aborted the process

callerVars == <<calls, cpc, cur, reg>>
hubVars == <<slot, spc, skind, shandler, missed, app>>
vars == <<calls, cpc, cur, reg, slot, spc, skind, shandler, missed, app, aborted>>

(***************************************************************************)
(* Channel helpers.                                                        *)
(***************************************************************************)

\* rx.recv() yields None only when no Sender is left: the one owned through
\* the local native_wrapper and the one the engine's observer reference keeps.
SenderAlive(c) == c.local \/ c.engine = "pending"

\* The value an async operation returns for a received Some(value):
\* `value.map_err(Into::into)`, except add_ice_candidate's `Some(value) => Ok(())`.
RecvValue(op, v) == IF op = "add_ice_candidate" THEN "ok" ELSE v

(***************************************************************************)
(* Mutants: plausible bugs in the code, each defined like the action it    *)
(* replaces, to show that the properties checked can see them.            *)
(***************************************************************************)

\* IssueCall awaiting the previous call's index (an off-by-one).
IssueCallOffByOne(op) ==
    /\ cpc = "idle"
    /\ Len(calls) < MaxCalls
    /\ calls' = Append(calls, [op |-> op, buf |-> None, rx |-> TRUE,
                               local |-> TRUE, engine |-> "pending",
                               sent |-> None, result |-> None])
    /\ cpc' = "await"
    /\ cur' = Len(calls)
    /\ UNCHANGED <<reg, hubVars, aborted>>

\* `while let Some(_) = rx.recv().await {}`: draining until the channel
\* closes instead of returning the first value.
RecvUntilClosed ==
    /\ cpc = "await"
    /\ LET c == calls[cur] IN
         /\ c.buf = None
         /\ ~SenderAlive(c)
         /\ calls' = [calls EXCEPT ![cur] = [c EXCEPT !.result = "closed",
                         !.rx = FALSE, !.local = FALSE]]
    /\ cpc' = "idle"
    /\ UNCHANGED <<cur, reg, hubVars, aborted>>

\* An observer that sends into the channel of the call being awaited rather
\* than into its own (one channel kept for the PeerConnection and reused).
DeliverToAwaited(i) ==
    /\ i \in 1..Len(calls)
    /\ spc = "idle"
    /\ calls[i].engine = "pending"
    /\ calls[cur].rx
    /\ calls[cur].buf = None
    /\ \E v \in Outcome :
         calls' = [calls EXCEPT ![i] = [@ EXCEPT !.engine = "delivered", !.sent = v],
                                ![cur] = [@ EXCEPT !.buf = v]]
    /\ UNCHANGED <<cpc, cur, reg, hubVars, aborted>>

\* recv() that reports "channel closed" on an empty channel (as try_recv
\* would), without waiting for every sender to be gone.
RecvClosedEarly ==
    /\ cpc = "await"
    /\ LET c == calls[cur] IN
         \/ /\ c.buf # None
            /\ calls' = [calls EXCEPT ![cur] = [c EXCEPT !.buf = None,
                            !.result = RecvValue(c.op, c.buf),
                            !.rx = FALSE, !.local = FALSE]]
         \/ /\ c.buf = None
            /\ calls' = [calls EXCEPT ![cur] = [c EXCEPT !.result = "closed",
                            !.rx = FALSE, !.local = FALSE]]
    /\ cpc' = "idle"
    /\ UNCHANGED <<cur, reg, hubVars, aborted>>

-----------------------------------------------------------------------------
Init ==
    /\ calls = <<>>
    /\ cpc = "idle"
    /\ cur = 0
    /\ reg = [kind |-> CHOOSE k \in Kinds : TRUE, handler |-> NoHandler]
    /\ slot = [k \in Kinds |-> NoHandler]
    /\ spc = "idle"
    /\ skind = CHOOSE k \in Kinds : TRUE
    /\ shandler = NoHandler
    /\ missed = {}
    /\ app = 0
    /\ aborted = FALSE

(***************************************************************************)
(* Caller side of an async operation, up to the await: create the channel, *)
(* the observer holding tx and the native_wrapper owning it, and pass the  *)
(* observer to the engine.  The task then waits in rx.recv().              *)
(***************************************************************************)
IssueCall(op) ==
    /\ cpc = "idle"
    /\ Len(calls) < MaxCalls
    /\ calls' = Append(calls, [op |-> op, buf |-> None, rx |-> TRUE,
                               local |-> TRUE, engine |-> "pending",
                               sent |-> None, result |-> None])
    /\ cpc' = "await"
    /\ cur' = Len(calls) + 1
    /\ UNCHANGED <<reg, hubVars, aborted>>

CreateOffer == IssueCall("create_offer")
CreateAnswer == IssueCall("create_answer")
SetLocalDescription == IssueCall("set_local_description")
SetRemoteDescription == IssueCall("set_remote_description")
AddIceCandidate == IssueCall("add_ice_candidate")

\* `match rx.recv().await`: a buffered value is returned; None (no Sender
\* left) becomes RecvError("channel closed").  The future then completes and
\* drops rx and native_wrapper.
Recv ==
    /\ cpc = "await"
    /\ LET c == calls[cur] IN
         \/ /\ c.buf # None
            /\ calls' = [calls EXCEPT ![cur] = [c EXCEPT !.buf = None,
                            !.result = RecvValue(c.op, c.buf),
                            !.rx = FALSE, !.local = FALSE]]
         \/ /\ c.buf = None
            /\ ~SenderAlive(c)
            /\ calls' = [calls EXCEPT ![cur] = [c EXCEPT !.result = "closed",
                            !.rx = FALSE, !.local = FALSE]]
    /\ cpc' = "idle"
    /\ UNCHANGED <<cur, reg, hubVars, aborted>>

\* The caller drops the pending future: rx and native_wrapper go with it;
\* the engine keeps its reference to the observer.
Cancel ==
    /\ CallerMayCancel
    /\ cpc = "await"
    /\ calls' = [calls EXCEPT ![cur] = [@ EXCEPT !.buf = None, !.rx = FALSE,
                                          !.local = FALSE, !.result = "cancelled"]]
    /\ cpc' = "idle"
    /\ UNCHANGED <<cur, reg, hubVars, aborted>>

(***************************************************************************)
(* Engine side of an async operation: the observer's callback runs on the  *)
(* signaling thread and does `tx.blocking_send(res).unwrap()`.             *)
(***************************************************************************)

\* The receiver is alive: the value is buffered (capacity 1; blocking_send
\* would wait while the buffer is full).
Deliver(i) ==
    /\ i \in 1..Len(calls)
    /\ spc = "idle"
    /\ calls[i].engine = "pending"
    /\ calls[i].rx
    /\ calls[i].buf = None
    /\ \E v \in Outcome :
         calls' = [calls EXCEPT ![i] = [@ EXCEPT !.buf = v, !.engine = "delivered",
                                               !.sent = v]]
    /\ UNCHANGED <<cpc, cur, reg, hubVars, aborted>>

\* The receiver was dropped: blocking_send returns Err and unwrap() panics
\* on the signaling thread, which aborts the process.
DeliverToDropped(i) ==
    /\ i \in 1..Len(calls)
    /\ spc = "idle"
    /\ calls[i].engine = "pending"
    /\ ~calls[i].rx
    /\ \E v \in Outcome :
         calls' = [calls EXCEPT ![i] = [@ EXCEPT !.engine = "delivered", !.sent = v]]
    /\ aborted' = TRUE
    /\ UNCHANGED <<cpc, cur, reg, hubVars>>

\* The engine drops its observer reference without calling it.
Abandon(i) ==
    /\ EngineMayAbandon
    /\ i \in 1..Len(calls)
    /\ calls[i].engine = "pending"
    /\ calls' = [calls EXCEPT ![i] = [@ EXCEPT !.engine = "released"]]
    /\ UNCHANGED <<cpc, cur, reg, hubVars, aborted>>

(***************************************************************************)
(* Event hub.                                                              *)
(***************************************************************************)

\* on_<kind>(handler): the caller calls `lock()` on the slot's Mutex ...
RegisterBegin(k, h) ==
    /\ cpc = "idle"
    /\ k \in Kinds \ UnregistrableKinds
    /\ cpc' = "lock"
    /\ reg' = [kind |-> k, handler |-> h]
    /\ UNCHANGED <<calls, cur, hubVars, aborted>>

\* ... gets it once no dispatch of that kind holds it, stores Some(handler)
\* and drops the guard.
RegisterEnd ==
    /\ cpc = "lock"
    /\ ~(spc = "handler" /\ skind = reg.kind)
    /\ slot' = [slot EXCEPT ![reg.kind] = reg.handler]
    /\ cpc' = "idle"
    /\ UNCHANGED <<calls, cur, reg, spc, skind, shandler, missed, app, aborted>>

\* InternalObserver::on_<kind> on the signaling thread: lock the slot and
\* take the handler in it.
DispatchBegin(k) ==
    /\ spc = "idle"
    /\ spc' = "handler"
    /\ skind' = k
    /\ shandler' = slot[k]
    /\ UNCHANGED <<callerVars, slot, missed, app, aborted>>

\* `if let Some(f) = handler.as_mut() { f(..) }`, then the guard is dropped.
\* For the UnforwardedKinds the body is empty, so a registered handler is
\* not called.  A handler of BlockingKinds does `tx.blocking_send(..)`: it
\* returns only once the application channel has room.
DispatchEnd ==
    /\ spc = "handler"
    /\ LET forwards == shandler # NoHandler /\ skind \in BlockingKinds \ UnforwardedKinds
       IN  /\ forwards => app < AppCap
           /\ app' = IF forwards THEN app + 1 ELSE app
    /\ missed' = IF shandler # NoHandler /\ skind \in UnforwardedKinds
                 THEN missed \cup {skind} ELSE missed
    /\ spc' = "idle"
    /\ UNCHANGED <<callerVars, slot, skind, shandler, aborted>>

\* The application task reads the channel (`bob_ice_rx.recv().await`), which
\* it does between its operations on the PeerConnection.
AppRecv ==
    /\ cpc = "idle"
    /\ app > 0
    /\ app' = app - 1
    /\ UNCHANGED <<callerVars, slot, spc, skind, shandler, missed, aborted>>

-----------------------------------------------------------------------------
Next ==
    /\ ~aborted
    /\ \/ CreateOffer \/ CreateAnswer \/ SetLocalDescription
       \/ SetRemoteDescription \/ AddIceCandidate
       \/ Recv
       \/ Cancel
       \/ \E i \in 1..MaxCalls : Deliver(i) \/ DeliverToDropped(i) \/ Abandon(i)
       \/ \E k \in Kinds, h \in Handlers : RegisterBegin(k, h)
       \/ RegisterEnd
       \/ \E k \in Kinds : DispatchBegin(k)
       \/ DispatchEnd
       \/ AppRecv

\* The engine eventually runs every callback it holds (its exactly-once
\* contract; callbacks are tasks on the signaling thread's queue, so they run
\* even while events keep arriving), tokio wakes the task a value was sent
\* to, handler bodies return, and a thread waiting on a slot Mutex gets it
\* although the signaling thread keeps re-locking that slot.  The application
\* reads its channel whenever its task is free.  The caller's own steps and
\* the engine's choice to emit events are not forced.
Fairness ==
    /\ \A i \in 1..MaxCalls : SF_vars(Deliver(i))
    /\ WF_vars(Recv)
    /\ WF_vars(DispatchEnd)
    /\ SF_vars(RegisterEnd)
    /\ WF_vars(AppRecv)

Spec == Init /\ [][Next]_vars /\ Fairness

-----------------------------------------------------------------------------
(***************************************************************************)
(* Properties.                                                             *)
(***************************************************************************)

\* Every variable has its type; the task awaits a call that exists.
TypeOK ==
    /\ calls \in Seq(CallRec)
    /\ Len(calls) <= MaxCalls
    /\ cpc \in {"idle", "await", "lock"}
    /\ cur \in 0..MaxCalls
    /\ cpc = "await" => cur \in 1..Len(calls)
    /\ reg \in [kind: Kinds, handler: Handlers \cup {NoHandler}]
    /\ slot \in [Kinds -> Handlers \cup {NoHandler}]
    /\ spc \in {"idle", "handler"}
    /\ skind \in Kinds
    /\ shandler \in Handlers \cup {NoHandler}
    /\ missed \subseteq Kinds
    /\ app \in 0..AppCap
    /\ aborted \in BOOLEAN

\* Caller task: an awaited async operation, or a registration blocked on a
\* slot Mutex, eventually returns (the engine honours its exactly-once
\* callback contract; handlers return).
CallerProgress ==
    cpc # "idle" ~> cpc = "idle"

\* A call that returns a value returns the one the engine sent for that very
\* call: after a caller drops a pending future and retries, the late answer
\* of the dropped call never reaches the retry.
OwnAnswer ==
    \A i \in 1..Len(calls) :
        calls[i].result \in Outcome => calls[i].result = RecvValue(calls[i].op, calls[i].sent)

\* add_ice_candidate and the other async operations: when the engine's
\* callback reports a failure, the awaiting caller gets an error
\* (spec: an invalid candidate "resolves with an engine-reported failure").
EngineErrorSurfaced ==
    \A i \in 1..Len(calls) :
        (calls[i].sent = "err" /\ calls[i].result \in Outcome)
            => calls[i].result = "err"

\* The completion callbacks' `blocking_send(..).unwrap()` never panics on
\* the engine's signaling thread.
NoSignalingThreadPanic ==
    ~aborted

\* Every event the engine dispatches while a handler is registered for its
\* kind reaches that handler (spec: track-added/removed and the other
\* observer events are delivered to the registered on_<event> handler).
EventReachesHandler ==
    missed = {}

-----------------------------------------------------------------------------
(* Refinement of AsyncCall.                                                *)

\* The caller's view of the calls: each operation, the engine's answer and
\* what the call returned; and the call being awaited.
callLog == [i \in 1..Len(calls) |->
               [op |-> calls[i].op, answer |-> calls[i].sent, result |-> calls[i].result]]
awaited == IF cpc = "await" THEN cur ELSE 0

AC == INSTANCE AsyncCall WITH Ops <- AsyncOps, Report <- RecvValue,
                              log <- callLog, pending <- awaited

\* The async operations implement a one-shot call: with the observer, the
\* channel(1), the native_wrapper and the signaling thread's callbacks, a
\* call still returns once, only after the engine's answer to it (reported
\* through RecvValue) or by being dropped, and the engine answers it once.
ImplementsAsyncCall == AC!Spec

=============================================================================
