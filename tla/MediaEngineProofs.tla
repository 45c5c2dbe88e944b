------------------------- MODULE MediaEngineProofs -------------------------
(***************************************************************************)
(* Proof that MediaEngine::new is all or nothing for every set of holders *)
(* and both values of NativeMayThrow.                                     *)
(***************************************************************************)
EXTENDS MediaEngine, TLAPS

\* NewAllOrNothing is not inductive: a step of new from "voice" or "video"
\* needs the handles held so far.  NewInv says which handles each step of
\* new holds, and that Init has said true once new is past it.
NewInv ==
    /\ npc \in {"create", "init", "voice", "video", "ready", "failed"}
    /\ npc = "create" => held = {}
    /\ npc = "init" => held = {"media"}
    /\ npc = "voice" => held = {"media"} /\ newInit = "true"
    /\ npc = "video" => held = {"media", "voice"} /\ newInit = "true"
    /\ npc = "ready" => held = Engines /\ newInit = "true"
    /\ npc = "failed" => held = {}

\* NewInv holds in every reachable state.
LEMMA NewInvariant == Spec => []NewInv
  <1>1. Init => NewInv
    BY DEF Init, NewInv
  <1>2. NewInv /\ [Next]_vars => NewInv'
    <2> SUFFICES ASSUME NewInv, [Next]_vars PROVE NewInv'
      OBVIOUS
    <2>1. CASE Create
      BY <2>1 DEF Create, NewInv
    <2>2. CASE NewInit
      BY <2>2 DEF NewInit, NewInv
    <2>3. CASE FetchVoice
      BY <2>3 DEF FetchVoice, Fetch, NewInv
    <2>4. CASE FetchVideo
      BY <2>4 DEF FetchVideo, Fetch, NewInv, Engines
    <2>5. ASSUME NEW h \in Holders, NEW e \in Engines, InitCall(h, e) PROVE NewInv'
      BY <2>5 DEF InitCall, NewInv
    <2>6. ASSUME NEW h \in Holders, InitReturn(h) \/ CreateChannel(h) PROVE NewInv'
      BY <2>6 DEF InitReturn, CreateChannel, NewInv
    <2>7. CASE UNCHANGED vars
      BY <2>7 DEF vars, NewInv
    <2>. QED
      BY <2>1, <2>2, <2>3, <2>4, <2>5, <2>6, <2>7 DEF Next
  <1>. QED
    BY <1>1, <1>2, PTL DEF Spec

\* MediaEngine::new returns an engine only with every handle held and after
\* the native Init said true, and its `?` returns drop every handle taken.
THEOREM NewAllOrNothingHolds == Spec => []NewAllOrNothing
  <1>1. NewInv => NewAllOrNothing
    BY DEF NewInv, NewAllOrNothing
  <1>. QED
    BY <1>1, NewInvariant, PTL

=============================================================================
