-------------------------- MODULE CarefulSavestate --------------------------
(***************************************************************************)
(* Savestate under a careful user, and the abstract slots it implements.   *)
(* The hack does not enforce the care: ResumesAsked of Savestate shows     *)
(* what happens without it.                                                *)
(***************************************************************************)
EXTENDS Savestate

\* The care taken: do not step past the ends of the slots, nor to another
\* slot while a restore waits; load only what was saved; no object bank.
CarefulMenu ==
  \/ MenuIdle
  \/ MainMenuIdle
  \/ ~ resume_restore /\ MainMenuChangesSlot /\ restore_slot' \in UserSlots
  \/ MainMenuSaves
  \/ Whole(restore_slot) /\ MainMenuLoads
  \/ OtherMenuBack
  \/ OtherMenuLoadsMap

CarefulInputs ==
  \/ PadIdle("save", "load")
  \/ PadSaves
  \/ PadIdle("load", "game")
  \/ Whole(restore_slot) /\ PadLoads

CarefulNext == CarefulMenu \/ UpdateFlags \/ CarefulInputs \/ Game

CarefulSpec == Init /\ [][CarefulNext]_vars

\* The hook runs every frame and the game goes on.  A level that was asked
\* for is loaded and a fade ends, however often the game does other things.
FairCarefulSpec ==
  /\ CarefulSpec
  /\ WF_vars(CarefulMenu)
  /\ WF_vars(UpdateFlags)
  /\ WF_vars(CarefulInputs)
  /\ WF_vars(Game)
  /\ SF_vars(GameLoads)
  /\ SF_vars(GameFadeEnds)

CarefulInv ==
  /\ TypeOK
  /\ restore_slot \in UserSlots
  /\ live \in Contents
  /\ live.map = current_map
  /\ LastmapAgrees
  /\ \A s \in UserSlots : heap[s].len <= HeapSize
  /\ resume_restore => Whole(restore_slot)

Turn == IF pc = "flags" THEN "auto" ELSE IF pc = "game" THEN "game" ELSE "user"

Kept == [s \in UserSlots |-> IF Whole(s) THEN heap[s].content ELSE Garbage]

Waiting == IF resume_restore THEN restore_slot ELSE NoSlot

Abs == INSTANCE SaveSlots WITH
         Slots <- UserSlots, Empty <- Garbage, Nobody <- NoSlot,
         turn <- Turn, level <- current_map, live <- live,
         store <- Kept, wanted <- Waiting

\* A careful user gets the slots SaveSlots promises: what is saved, restored
\* or resumed, and when, in the code's own order of phases.
KeepsPromises == Abs!Spec
=============================================================================
