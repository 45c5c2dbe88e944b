----------------------------- MODULE MediaEngine -----------------------------
(***************************************************************************)
(* The media engine wrappers: src/libwebrtc/src/media_engine.rs (the       *)
(* public MediaEngine over an Arc<dyn MediaEngineInterface>),              *)
(* src/libwebrtc/src/native/media_engine.rs (its native implementation)    *)
(* and the cxx declarations of src/webrtc-sys/src/media_engine.rs.         *)
(*                                                                         *)
(*  - MediaEngine::new runs create_media_engine, Init, voice and video,    *)
(*    each a native call returning Result; `?` returns at the first Err,   *)
(*    dropping the handles taken so far.                                   *)
(*  - The engine is Clone and its methods take &self, so several holders   *)
(*    call init on the one shared native engine, each on its own thread.   *)
(*  - A native Init returns Result<bool>: Ok(true), Ok(false) or Err.      *)
(*  - create_send_channel and create_receive_channel are unimplemented!(). *)
(***************************************************************************)
EXTENDS Naturals, FiniteSets

CONSTANTS
    Holders,        \* clones of the MediaEngine, each used by its own thread
    NativeMayThrow  \* a native call may throw, giving Err to Rust

ASSUME EngineAssumption ==
    /\ Holders # {}
    /\ NativeMayThrow \in BOOLEAN

None == "none"

\* What a native call gives Rust: Ok(true), Ok(false), or Err (an exception).
InitResults == {"true", "false", "exception"}
NativeInit == IF NativeMayThrow THEN InitResults ELSE {"true", "false"}
NativeFetch == IF NativeMayThrow THEN {"ok", "exception"} ELSE {"ok"}

\* The engines with an init method: MediaEngine, VoiceEngine, VideoEngine.
Engines == {"media", "voice", "video"}

VARIABLES
    npc,        \* MediaEngine::new: "create", "init", "voice", "video", "ready", "failed"
    held,       \* native handles the engine under construction holds
    newInit,    \* what the native Init returned inside new
    hpc,        \* holder -> "idle" or the engine whose init it is running
    native,     \* holder -> what its running native Init returned
    result,     \* holder -> what its last init returned to the caller
    panicked    \* a holder's thread panicked in an unimplemented! method

vars == <<npc, held, newInit, hpc, native, result, panicked>>

-----------------------------------------------------------------------------
(* Mutants.                                                                *)

\* new without the `if !Init()?` test: Ok(false) goes on to voice().
NewInitUnchecked ==
    /\ npc = "init"
    /\ \E r \in NativeInit :
         /\ newInit' = r
         /\ npc' = IF r = "exception" THEN "failed" ELSE "voice"
         /\ held' = IF r = "exception" THEN {} ELSE held
    /\ UNCHANGED <<hpc, native, result, panicked>>

-----------------------------------------------------------------------------
Init ==
    /\ npc = "create"
    /\ held = {}
    /\ newInit = None
    /\ hpc = [h \in Holders |-> "idle"]
    /\ native = [h \in Holders |-> None]
    /\ result = [h \in Holders |-> None]
    /\ panicked = FALSE

\* ffi::create_media_engine()?.
Create ==
    /\ npc = "create"
    /\ \E r \in NativeFetch :
         /\ npc' = IF r = "ok" THEN "init" ELSE "failed"
         /\ held' = IF r = "ok" THEN {"media"} ELSE {}
    /\ UNCHANGED <<newInit, hpc, native, result, panicked>>

\* `if !sys_handle.Init()? { return Err(..) }`: Err and Ok(false) both fail.
NewInit ==
    /\ npc = "init"
    /\ \E r \in NativeInit :
         /\ newInit' = r
         /\ npc' = IF r = "true" THEN "voice" ELSE "failed"
         /\ held' = IF r = "true" THEN held ELSE {}
    /\ UNCHANGED <<hpc, native, result, panicked>>

\* sys_handle.voice()? and sys_handle.video()?; then VoiceEngine::new and
\* VideoEngine::new (always Ok) and Ok(Self { .. }).
Fetch(e, next) ==
    /\ npc = e
    /\ \E r \in NativeFetch :
         /\ npc' = IF r = "ok" THEN next ELSE "failed"
         /\ held' = IF r = "ok" THEN held \cup {e} ELSE {}
    /\ UNCHANGED <<newInit, hpc, native, result, panicked>>

FetchVoice == Fetch("voice", "video")
FetchVideo == Fetch("video", "ready")

\* A holder calls init on MediaEngine (through the Arc<dyn ..>), VoiceEngine
\* or VideoEngine: the native Init runs on the holder's thread.
InitCall(h, e) ==
    /\ npc = "ready"
    /\ ~panicked
    /\ hpc[h] = "idle"
    /\ \E r \in NativeInit :
         /\ hpc' = [hpc EXCEPT ![h] = e]
         /\ native' = [native EXCEPT ![h] = r]
    /\ UNCHANGED <<npc, held, newInit, result, panicked>>

\* `.map_err(..).map(|_| ())`: Err becomes an RtcError, Ok(_) becomes Ok(()).
InitReturn(h) ==
    /\ hpc[h] # "idle"
    /\ result' = [result EXCEPT ![h] = IF native[h] = "exception" THEN "err" ELSE "ok"]
    /\ hpc' = [hpc EXCEPT ![h] = "idle"]
    /\ UNCHANGED <<npc, held, newInit, native, panicked>>

\* create_send_channel / create_receive_channel on VoiceEngine or VideoEngine.
CreateChannel(h) ==
    /\ npc = "ready"
    /\ ~panicked
    /\ hpc[h] = "idle"
    /\ panicked' = TRUE
    /\ UNCHANGED <<npc, held, newInit, hpc, native, result>>

Next ==
    \/ Create \/ NewInit \/ FetchVoice \/ FetchVideo
    \/ \E h \in Holders, e \in Engines : InitCall(h, e)
    \/ \E h \in Holders : InitReturn(h) \/ CreateChannel(h)

Spec == Init /\ [][Next]_vars

-----------------------------------------------------------------------------
(* Properties.                                                             *)

\* MediaEngine::new is all or nothing: it returns an engine only after the
\* native Init said true and with the media, voice and video handles all
\* held, and an Err from any step leaves no handle behind.
NewAllOrNothing ==
    /\ npc = "ready" => newInit = "true" /\ held = Engines
    /\ npc = "failed" => held = {}

\* init returns Ok only when the native engine initialised, as new requires
\* of the same native call.
InitOkMeansInitialised ==
    \A h \in Holders : result[h] = "ok" => native[h] = "true"

=============================================================================
