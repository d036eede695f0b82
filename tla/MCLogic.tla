------------------------------ MODULE MCLogic ------------------------------
(* A small instance of Logic for TLC. *)
EXTENDS Logic
=============================================================================
