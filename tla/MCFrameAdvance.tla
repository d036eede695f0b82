--------------------------- MODULE MCFrameAdvance ---------------------------
(* Every combination of the three buttons of FrameAdvance, for TLC. *)
EXTENDS FrameAdvance

AllPads == SUBSET {"CU", "CD", "A"}
=============================================================================
