---------------------------- MODULE MCSavestate ----------------------------
(* Small instances of Savestate for TLC. *)
EXTENDS Savestate, TLC

Symmetric == Permutations(Maps) \cup Permutations(Data)

\* No action reads the history of restores to change anything else: states
\* that differ only there are one state in a run that is not about it.
NoHistory == <<pc, hackVars, heapVars, gameVars>>
=============================================================================
