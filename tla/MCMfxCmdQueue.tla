--------------------------- MODULE MCMfxCmdQueue ---------------------------
(* Instances of MfxCmdQueue for TLC. *)
EXTENDS MfxCmdQueue, TLC

CONSTANTS c1, c2, w1, w2

MCSymmetry == Permutations(Waiters)
=============================================================================
