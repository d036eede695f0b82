------------------------- MODULE MCCarefulSavestate -------------------------
(* A small instance of CarefulSavestate for TLC. *)
EXTENDS CarefulSavestate
=============================================================================
