------------------------------ MODULE AsyncCall ------------------------------
(***************************************************************************)
(* What an async operation of PeerConnection promises its caller, with the *)
(* channels, observers and threads left out.  The caller has at most one   *)
(* call pending (the methods take &mut self).  The engine answers each     *)
(* call at most once.  A pending call returns once, after its own answer,  *)
(* which it reports as Report(op, answer), or it is dropped by the caller. *)
(***************************************************************************)
EXTENDS Naturals, Sequences

CONSTANTS
    Ops,            \* the async operations
    Report(_, _)    \* how an operation reports the engine's answer to its caller

None == "none"
Answers == {"ok", "err"}

VARIABLES
    log,        \* one record per call issued: [op, answer, result]
    pending     \* the index in log of the pending call, 0 when none

avars == <<log, pending>>

Init ==
    /\ log = <<>>
    /\ pending = 0

Issue(op) ==
    /\ pending = 0
    /\ log' = Append(log, [op |-> op, answer |-> None, result |-> None])
    /\ pending' = Len(log) + 1

Answer(i) ==
    /\ log[i].answer = None
    /\ \E v \in Answers : log' = [log EXCEPT ![i].answer = v]
    /\ UNCHANGED pending

Return ==
    /\ pending # 0
    /\ log[pending].answer # None
    /\ log' = [log EXCEPT ![pending].result = Report(log[pending].op, log[pending].answer)]
    /\ pending' = 0

Drop ==
    /\ pending # 0
    /\ log' = [log EXCEPT ![pending].result = "cancelled"]
    /\ pending' = 0

Next ==
    \/ \E op \in Ops : Issue(op)
    \/ \E i \in 1..Len(log) : Answer(i)
    \/ Return
    \/ Drop

Spec == Init /\ [][Next]_avars

=============================================================================
