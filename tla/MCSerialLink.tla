---------------------------- MODULE MCSerialLink ----------------------------
(* Small instances of SerialLink for TLC: the cfg gives the sizes. *)
EXTENDS SerialLink
=============================================================================
