------------------------- MODULE MC_PeerConnection -------------------------
(* Small instances of PeerConnection for TLC.                               *)
EXTENDS PeerConnection, TLC

CONSTANTS h1, h2

\* One forwarded state slot, one forwarded payload slot and one slot whose
\* dispatch body is still a TODO.
MCKinds == {"signaling_change", "ice_candidate", "add_track"}

MCHandlers == {h1, h2}

\* Handlers are interchangeable closures.
MCSymmetry == Permutations(MCHandlers)

\* Two calls cover a call followed by a second one (or a retry after a
\* cancel).
MCMaxCalls == 2
\* Handlers that forward into the application's channel, as the test's
\* on_ice_candidate does.  Where only the calls are asked about, one slot
\* of the channel stands for it; the blocking_handler run uses the test's
\* own capacity, mpsc::channel::<IceCandidate>(16).
MCNoBlocking == {}
MCBlocking == {"ice_candidate"}
MCAppCap == 1
MCTestCap == 16
\* The test's hang needs only its ICE slot and one awaited call.
MCIceKinds == {"ice_candidate"}
MCOneCall == 1
=============================================================================
