--------------------------- MODULE MCMfxC2Decoder ---------------------------
(* Instances of MfxC2Decoder for TLC. *)
EXTENDS MfxC2Decoder

\* every work at its own time
MCDistinct == [w \in 1 .. MaxWorks |-> w]

\* two works at the same time: a frame that was split, or a seek back
MCTwins == [w \in 1 .. MaxWorks |-> IF w = 2 THEN 1 ELSE w]
=============================================================================
