-------------------------- MODULE MCMfxC2Component --------------------------
(* An instance of MfxC2Component for TLC. *)
EXTENDS MfxC2Component

CONSTANTS t1, t2, r1
=============================================================================
