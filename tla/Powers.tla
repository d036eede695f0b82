------------------------------- MODULE Powers -------------------------------
(***************************************************************************)
(* Powers, one factor in a step (gpow in utility.c): the recursion is the  *)
(* definition that the proofs about digits and bytes go by.                *)
(***************************************************************************)
EXTENDS Integers

Power(b, e) ==
  LET power[i \in Nat] == IF i = 0 THEN 1 ELSE b * power[i - 1]
  IN power[e]
=============================================================================
