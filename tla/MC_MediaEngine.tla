---------------------------- MODULE MC_MediaEngine ----------------------------
(* Two clones of one MediaEngine used from two threads.                    *)
EXTENDS MediaEngine, TLC

CONSTANTS t1, t2

MCHolders == {t1, t2}
MCSymmetry == Permutations(MCHolders)
=============================================================================
