-------------------------- MODULE SavestateProofs --------------------------
(***************************************************************************)
(* Proofs about Savestate, for any number of slots, levels and contents,   *)
(* and that under a careful user it implements SaveSlots, if every level   *)
(* fits its area.                                                          *)
(***************************************************************************)
EXTENDS CarefulSavestate, TLAPS

-----------------------------------------------------------------------------
(* Facts about the constants and the operators.                            *)

\* The object bank's area follows the user's slots, and the largest u16 is
\* none of them.
LEMMA ConstantFacts ==
  /\ MaxRestoreSlots \in Nat
  /\ BankSlot \in Nat
  /\ UserSlots \subseteq 0..BankSlot
  /\ BankSlot \notin UserSlots
  /\ SlotValues - 1 > BankSlot
  /\ SlotValues - 1 \notin 0..BankSlot
  /\ NoSlot \notin 0..BankSlot
BY SlotAssumption DEF BankSlot, UserSlots, NoSlot

\* main_menu_update leaves one of the user's slots.
LEMMA MaskedInRange == ASSUME TypeOK PROVE Masked \in UserSlots
<1>1. restore_slot \in Int
  BY SlotAssumption DEF TypeOK, BankSlot
<1> QED
  BY <1>1, SlotAssumption DEF Masked, UserSlots

\* One step from a masked slot reaches at most one place off either end.
LEMMA NeighbourInRange ==
  ASSUME NEW slot \in UserSlots
  PROVE  {Above(slot), Below(slot)} \subseteq (0..BankSlot) \cup {SlotValues - 1}
BY SlotAssumption DEF Above, Below, UserSlots, BankSlot

\* lastmap[] holds level ids, wherever it is read.
LEMMA ReadLastmapType ==
  ASSUME TypeOK, NEW slot \in Int
  PROVE  ReadLastmap(slot) \subseteq Maps
BY DEF TypeOK, ReadLastmap

\* Reading a backup and copying it gives a content, or destroys the level.
LEMMA CopiedType ==
  ASSUME TypeOK, NEW slot \in Int, NEW content \in ReadHeap(slot)
  PROVE  /\ content \in Contents \cup {Garbage}
         /\ Copied(content) \in Contents \cup {Garbage}
<1>1. content \in Contents \cup {Garbage}
  BY DEF TypeOK, ReadHeap
<1> QED
  BY <1>1 DEF Copied

\* A clone keeps the types of the areas.
LEMMA WriteHeapType ==
  ASSUME TypeOK, NEW slot \in Int, NEW len \in Nat, WriteHeap(slot, len)
  PROVE  heap' \in [0..BankSlot -> [content : Contents \cup {Garbage}, len : Nat]]
BY DEF TypeOK, WriteHeap

LEMMA WriteLastmapType ==
  ASSUME TypeOK, NEW slot \in Int, WriteLastmap(slot)
  PROVE  lastmap' \in [0..BankSlot -> Maps]
BY DEF TypeOK, WriteLastmap

-----------------------------------------------------------------------------
(* Type correctness.                                                       *)

LEMMA CloneActorsType ==
  ASSUME TypeOK, NEW slot \in Int, CloneActors(slot)
  PROVE  /\ lastmap' \in [0..BankSlot -> Maps]
         /\ heap' \in [0..BankSlot -> [content : Contents \cup {Garbage}, len : Nat]]
         /\ recorded' \subseteq 0..BankSlot
         /\ disturbed' \in BOOLEAN
         /\ UNCHANGED <<resume_restore, resume_timer, current_map, pending_map, fading, live, asked>>
<1>1. lastmap' \in [0..BankSlot -> Maps]
  BY WriteLastmapType DEF CloneActors
<1>2. heap' \in [0..BankSlot -> [content : Contents \cup {Garbage}, len : Nat]]
  <2>1. PICK len \in Lens : WriteHeap(slot, len)
    BY DEF CloneActors
  <2> QED
    BY <2>1, SizeAssumption, WriteHeapType
<1>3. recorded' \subseteq 0..BankSlot
  BY DEF CloneActors, Records, TypeOK
<1>4. disturbed' \in BOOLEAN
  BY DEF CloneActors, Disturbs, TypeOK
<1> QED
  BY <1>1, <1>2, <1>3, <1>4 DEF CloneActors, gameVars

LEMMA CloneObjBankType ==
  ASSUME TypeOK, CloneObjBank
  PROVE  /\ lastmap' \in [0..BankSlot -> Maps]
         /\ heap' \in [0..BankSlot -> [content : Contents \cup {Garbage}, len : Nat]]
         /\ recorded' \subseteq 0..BankSlot
         /\ UNCHANGED <<resume_restore, resume_timer, current_map, pending_map, fading, live, asked, disturbed>>
<1>1. BankSlot \in Int
  BY ConstantFacts
<1>2. lastmap' \in [0..BankSlot -> Maps]
  BY <1>1, WriteLastmapType DEF CloneObjBank
<1>3. heap' \in [0..BankSlot -> [content : Contents \cup {Garbage}, len : Nat]]
  <2>1. PICK len \in BankLens : WriteHeap(BankSlot, len)
    BY DEF CloneObjBank
  <2> QED
    BY <1>1, <2>1, SizeAssumption, WriteHeapType
<1>4. recorded' \subseteq 0..BankSlot
  BY DEF CloneObjBank, Records, TypeOK
<1> QED
  BY <1>2, <1>3, <1>4 DEF CloneObjBank, gameVars, history

LEMMA RestoreNowType ==
  ASSUME TypeOK, NEW slot \in Int, RestoreNow(slot)
  PROVE  /\ resume_restore' = FALSE
         /\ live' \in Contents \cup {Garbage}
         /\ asked' \in UserSlots \cup {NoSlot}
         /\ disturbed' \in BOOLEAN
         /\ UNCHANGED <<lastmap, heap, recorded, current_map, pending_map, fading>>
<1>1. live' \in Contents \cup {Garbage}
  BY CopiedType DEF RestoreNow
<1>2. asked' \in UserSlots \cup {NoSlot} /\ disturbed' \in BOOLEAN
  BY DEF RestoreNow, Disturbs, TypeOK
<1> QED
  BY <1>1, <1>2 DEF RestoreNow, heapVars

LEMMA RestoreActorsType ==
  ASSUME TypeOK, NEW slot \in 0..SlotValues - 1, RestoreActors(slot)
  PROVE  /\ resume_restore' \in BOOLEAN
         /\ resume_timer' \in 0..(IF resume_restore' THEN ResumeDelay + 1 ELSE ResumeDelay + 2)
         /\ pending_map' \in Maps \cup {NoMap}
         /\ live' \in Contents \cup {Garbage}
         /\ asked' \in UserSlots \cup {NoSlot}
         /\ disturbed' \in BOOLEAN
         /\ UNCHANGED <<lastmap, heap, recorded, current_map, fading>>
<1>1. CASE RestoreLater(slot)
  <2>1. slot \in UserSlots /\ slot \in 0..BankSlot
    BY <1>1, SlotAssumption DEF RestoreLater, NeedsMap, UserSlots, BankSlot
  <2>2. lastmap[slot] \in Maps
    BY <2>1 DEF TypeOK
  <2>3. resume_restore' = TRUE /\ resume_timer' \in 0..ResumeDelay + 1
    BY <1>1, SizeAssumption DEF RestoreLater
  <2>4. pending_map' \in Maps \cup {NoMap} /\ asked' \in UserSlots /\ disturbed' \in BOOLEAN
    BY <1>1, <2>1, <2>2 DEF RestoreLater
  <2>5. UNCHANGED <<lastmap, heap, recorded, current_map, fading, live>>
    BY <1>1 DEF RestoreLater, heapVars
  <2>6. live \in Contents \cup {Garbage}
    BY DEF TypeOK
  <2> QED
    BY <2>3, <2>4, <2>5, <2>6
<1>2. CASE RestoreNow(slot) /\ UNCHANGED resume_timer
  <2>1. resume_timer \in 0..ResumeDelay + 2
    BY SizeAssumption DEF TypeOK
  <2>2. pending_map \in Maps \cup {NoMap}
    BY DEF TypeOK
  <2>3. slot \in Int
    BY SlotAssumption
  <2> QED
    BY <1>2, <2>1, <2>2, <2>3, RestoreNowType
<1> QED
  BY <1>1, <1>2 DEF RestoreActors

\* Every handler of the menu keeps the types.
LEMMA UpdateMenuType == ASSUME TypeOK, UpdateMenu PROVE TypeOK'
<1> USE DEF hackVars, heapVars, gameVars, history
<1>m. Masked \in UserSlots /\ Masked \in 0..BankSlot /\ Masked \in 0..SlotValues - 1
  BY MaskedInRange, SlotAssumption DEF UserSlots, BankSlot
<1>1. CASE MenuIdle
  BY <1>1 DEF MenuIdle, EnterMenu, TypeOK
<1>2. CASE MainMenuIdle
  BY <1>2, <1>m DEF MainMenuIdle, MainMenu, EnterMenu, Disturbs, TypeOK
<1>3. CASE MainMenuChangesSlot
  <2>1. restore_slot' \in (0..BankSlot) \cup {SlotValues - 1}
    BY <1>3, <1>m, NeighbourInRange DEF MainMenuChangesSlot, MainMenu
  <2> QED
    BY <1>3, <2>1 DEF MainMenuChangesSlot, MainMenu, EnterMenu, Disturbs, TypeOK
<1>4. CASE MainMenuSaves
  BY <1>4, <1>m, CloneActorsType DEF MainMenuSaves, MainMenu, EnterMenu, TypeOK
<1>5. CASE MainMenuLoads
  BY <1>5, <1>m, RestoreActorsType DEF MainMenuLoads, MainMenu, EnterMenu, TypeOK
<1>6. CASE OtherMenuBack
  BY <1>6 DEF OtherMenuBack, EnterMenu, TypeOK
<1>7. CASE OtherMenuLoadsMap
  BY <1>7 DEF OtherMenuLoadsMap, LoadMap, EnterMenu, Disturbs, TypeOK
<1>8. CASE MoveMenuSavesBank
  BY <1>8, CloneObjBankType DEF MoveMenuSavesBank, EnterMenu, TypeOK
<1>9. CASE MoveMenuLoadsBank
  <2>1. BankSlot \in 0..SlotValues - 1
    BY SlotAssumption DEF BankSlot
  <2> QED
    BY <1>9, <2>1, RestoreActorsType DEF MoveMenuLoadsBank, EnterMenu, TypeOK
<1> QED
  BY <1>1, <1>2, <1>3, <1>4, <1>5, <1>6, <1>7, <1>8, <1>9 DEF UpdateMenu

LEMMA SlotIsU16 == ASSUME TypeOK PROVE restore_slot \in 0..SlotValues - 1
BY SlotAssumption DEF TypeOK, BankSlot

LEMMA UpdateFlagsType == ASSUME TypeOK, UpdateFlags PROVE TypeOK'
<1> USE DEF hackVars, heapVars, gameVars, history
<1>1. CASE ResumeAbsent
  BY <1>1 DEF ResumeAbsent, EnterFlags, TypeOK
<1>2. CASE ResumeCounts
  BY <1>2, SizeAssumption DEF ResumeCounts, EnterFlags, TypeOK
<1>3. CASE Resumes
  <2>1. resume_timer \in 0..ResumeDelay + 1
    BY <1>3 DEF Resumes, ResumeInPlace, TypeOK
  <2>2. resume_timer' \in 0..ResumeDelay + 2
    BY <1>3, <2>1, SizeAssumption DEF Resumes
  <2>3. restore_slot \in Int
    BY SlotIsU16, SlotAssumption
  <2> QED
    BY <1>3, <2>2, <2>3, RestoreNowType DEF Resumes, EnterFlags, TypeOK
<1> QED
  BY <1>1, <1>2, <1>3 DEF UpdateFlags

\* Controller 1 may save and restore whatever slot the menu left.
LEMMA UpdateInputsType == ASSUME TypeOK, UpdateInputs PROVE TypeOK'
<1> USE DEF hackVars, heapVars, gameVars, history
<1>1. CASE PadIdle("save", "load") \/ PadIdle("load", "game")
  <2>1. CASE PadIdle("save", "load")
    BY <2>1 DEF PadIdle, TypeOK
  <2>2. CASE PadIdle("load", "game")
    BY <2>2 DEF PadIdle, TypeOK
  <2> QED
    BY <1>1, <2>1, <2>2
<1>2. CASE PadSaves
  <2>1. restore_slot \in Int
    BY SlotIsU16, SlotAssumption
  <2> QED
    BY <1>2, <2>1, CloneActorsType DEF PadSaves, TypeOK
<1>3. CASE PadLoads
  BY <1>3, SlotIsU16, RestoreActorsType DEF PadLoads, TypeOK
<1> QED
  BY <1>1, <1>2, <1>3 DEF UpdateInputs

\* What the game does to the variables the hack reads.
LEMMA GameType == ASSUME TypeOK, Game PROVE TypeOK'
<1> USE DEF hackVars, heapVars, gameVars, history, EnterGame
<1>1. CASE GamePlays
  <2>1. live' \in Contents \cup {Garbage}
    BY <1>1 DEF GamePlays, TypeOK, Contents
  <2> QED
    BY <1>1, <2>1 DEF GamePlays, TypeOK
<1>2. CASE GameFades
  BY <1>2 DEF GameFades, TypeOK
<1>6. CASE GameFadeEnds
  BY <1>6 DEF GameFadeEnds, TypeOK
<1>3. CASE GameLeaves
  BY <1>3 DEF GameLeaves, LoadMap, Disturbs, TypeOK
<1>4. CASE GameLoads
  BY <1>4 DEF GameLoads, TypeOK
<1>5. CASE Reset
  <2>1. 0 \in 0..BankSlot
    BY ConstantFacts
  <2>2. resume_timer \in 0..ResumeDelay + 2
    BY SizeAssumption DEF TypeOK
  <2>3. /\ UNCHANGED <<resume_timer, heap>>
        /\ lastmap' \in [0..BankSlot -> Maps]
        /\ recorded' \subseteq 0..BankSlot
    BY <1>5 DEF Reset, Wiped, TypeOK
  <2>4. current_map' \in Maps /\ live' \in Contents
    BY <1>5 DEF Reset
  <2> QED
    BY <1>5, <2>1, <2>2, <2>3, <2>4 DEF Reset, TypeOK
<1> QED
  BY <1>1, <1>2, <1>3, <1>4, <1>5, <1>6 DEF Game

LEMMA InitType == Init => TypeOK
<1> SUFFICES ASSUME Init PROVE TypeOK
  OBVIOUS
<1>1. 0 \in 0..BankSlot /\ 0 \in 0..ResumeDelay + 2
  BY ConstantFacts, SizeAssumption
<1>2. heap \in [0..BankSlot -> [content : Contents \cup {Garbage}, len : Nat]]
  BY DEF Init
<1>3. live \in Contents
  BY DEF Init
<1> QED
  BY <1>1, <1>2, <1>3 DEF Init, TypeOK

\* Types are right in every behaviour, for every number of slots.
THEOREM TypeCorrect == Spec => []TypeOK
<1>1. Init => TypeOK
  BY InitType
<1>2. TypeOK /\ [Next]_vars => TypeOK'
  <2> SUFFICES ASSUME TypeOK, [Next]_vars PROVE TypeOK'
    OBVIOUS
  <2>1. CASE Next
    BY <2>1, UpdateMenuType, UpdateFlagsType, UpdateInputsType, GameType DEF Next
  <2>2. CASE UNCHANGED vars
    BY <2>2 DEF vars, hackVars, heapVars, gameVars, history, TypeOK
  <2> QED
    BY <2>1, <2>2
<1> QED
  BY <1>1, <1>2, PTL DEF Spec

-----------------------------------------------------------------------------
(* A restore never destroys the level it runs in.  That a restore compares *)
(* levels by lastmap[] is enough only because lastmap[] always tells the   *)
(* level of a whole backup, and because a clone is taken of actors that    *)
(* belong to the level that is up: that is the inductive invariant.        *)

LevelInv == TypeOK /\ LastmapAgrees /\ LiveAgrees

\* What is written, area by area: this level's actors, garbage, or nothing.
LEMMA WriteHeapCases ==
  ASSUME NEW slot \in Int, NEW len \in Nat, WriteHeap(slot, len),
         NEW a \in 0..BankSlot
  PROVE  heap'[a] \in {heap[a], [content |-> Garbage, len |-> 0],
                       [content |-> live, len |-> len]}
         /\ (heap'[a] # heap[a] /\ a # slot => heap'[a].content = Garbage)
BY DEF WriteHeap

\* Both sides of LastmapAgrees are written together.
LEMMA CloneAgrees ==
  ASSUME LevelInv, NEW slot \in Int, NEW len \in Nat,
         WriteHeap(slot, len), WriteLastmap(slot), Records(slot)
  PROVE  LastmapAgrees'
<1> SUFFICES ASSUME NEW a \in 0..BankSlot, a \in recorded', heap'[a].content # Garbage
             PROVE  heap'[a].content.map = lastmap'[a]
  BY DEF LastmapAgrees, Whole
<1>1. lastmap'[a] = IF a = slot THEN current_map ELSE lastmap[a]
  BY DEF WriteLastmap
<1>2. CASE a = slot
  <2>1. heap'[a].content = live
    BY <1>2 DEF WriteHeap
  <2> QED
    BY <1>1, <1>2, <2>1 DEF LevelInv, LiveAgrees
<1>3. CASE a # slot
  <2>1. heap'[a] = heap[a] /\ a \in recorded
    BY <1>3 DEF WriteHeap, Records
  <2> QED
    BY <1>1, <1>3, <2>1 DEF LevelInv, LastmapAgrees, Whole
<1> QED
  BY <1>2, <1>3

LEMMA CloneActorsAgrees ==
  ASSUME LevelInv, NEW slot \in Int, CloneActors(slot)
  PROVE  LastmapAgrees' /\ LiveAgrees'
<1>1. PICK len \in Lens : WriteHeap(slot, len)
  BY DEF CloneActors
<1>2. LastmapAgrees'
  BY <1>1, CloneAgrees, SizeAssumption DEF CloneActors
<1> QED
  BY <1>2 DEF CloneActors, gameVars, LevelInv, LiveAgrees

LEMMA CloneObjBankAgrees ==
  ASSUME LevelInv, CloneObjBank
  PROVE  LastmapAgrees' /\ LiveAgrees'
<1>1. PICK len \in BankLens : WriteHeap(BankSlot, len)
  BY DEF CloneObjBank
<1>2. LastmapAgrees'
  BY <1>1, CloneAgrees, SizeAssumption, ConstantFacts DEF CloneObjBank
<1> QED
  BY <1>2 DEF CloneObjBank, gameVars, LevelInv, LiveAgrees

LEMMA RestoreActorsAgrees ==
  ASSUME LevelInv, NEW slot \in Int, RestoreLater(slot) \/ RestoreNow(slot)
  PROVE  LastmapAgrees' /\ LiveAgrees'
<1>1. UNCHANGED <<lastmap, heap, recorded, current_map>>
  BY DEF RestoreLater, RestoreNow, heapVars
<1>2. LastmapAgrees'
  BY <1>1 DEF LevelInv, LastmapAgrees, Whole
<1>3. CASE RestoreLater(slot)
  BY <1>2, <1>3 DEF RestoreLater, LevelInv, LiveAgrees
<1>4. CASE RestoreNow(slot)
  BY <1>1, <1>2, <1>4 DEF RestoreNow, Copied, LiveAgrees
<1> QED
  BY <1>3, <1>4

\* What a restore from a whole slot of the user's brings back.
LEMMA RestoreNowIsWhole ==
  ASSUME LevelInv, NEW slot \in UserSlots, Whole(slot), RestoreNow(slot)
  PROVE  live' = heap[slot].content /\ live' # Garbage
<1>1. slot \in 0..BankSlot /\ slot <= MaxRestoreSlots
  BY SlotAssumption DEF UserSlots, BankSlot
<1>2. ReadLastmap(slot) = {lastmap[slot]} /\ ReadHeap(slot) = {heap[slot].content}
  BY <1>1 DEF ReadLastmap, ReadHeap
<1>3. lastmap[slot] = current_map
  BY <1>1, <1>2 DEF RestoreNow, NeedsMap
<1>4. heap[slot].content.map = current_map
  BY <1>1, <1>3 DEF LevelInv, LastmapAgrees
<1> QED
  BY <1>2, <1>4 DEF RestoreNow, Copied, Whole

LEMMA LevelInvStep == LevelInv /\ [Next]_vars => LevelInv'
<1> SUFFICES ASSUME LevelInv, [Next]_vars PROVE LevelInv'
  OBVIOUS
<1> USE DEF hackVars, heapVars, gameVars, history
<1>0. TypeOK /\ TypeOK'
  <2>1. CASE Next
    BY <2>1, UpdateMenuType, UpdateFlagsType, UpdateInputsType, GameType DEF Next, LevelInv
  <2>2. CASE UNCHANGED vars
    BY <2>2 DEF vars, TypeOK, LevelInv
  <2> QED
    BY <2>1, <2>2
<1>i. restore_slot \in Int /\ Masked \in Int /\ BankSlot \in Int
  BY <1>0, SlotIsU16, MaskedInRange, ConstantFacts DEF UserSlots
<1>1. CASE UNCHANGED <<heapVars, current_map, live>>
  BY <1>0, <1>1 DEF LevelInv, LastmapAgrees, LiveAgrees, Whole
<1>2. CASE UpdateMenu
  <2>1. CASE MainMenuSaves
    BY <1>0, <1>i, <2>1, CloneActorsAgrees DEF MainMenuSaves, LevelInv
  <2>2. CASE MainMenuLoads
    BY <1>0, <1>i, <2>2, RestoreActorsAgrees DEF MainMenuLoads, RestoreActors, LevelInv
  <2>3. CASE MoveMenuSavesBank
    BY <1>0, <2>3, CloneObjBankAgrees DEF MoveMenuSavesBank, LevelInv
  <2>4. CASE MoveMenuLoadsBank
    BY <1>0, <1>i, <2>4, RestoreActorsAgrees DEF MoveMenuLoadsBank, RestoreActors, LevelInv
  <2>5. CASE MenuIdle \/ MainMenuIdle \/ MainMenuChangesSlot \/ OtherMenuBack \/ OtherMenuLoadsMap
    BY <1>1, <2>5 DEF MenuIdle, MainMenuIdle, MainMenuChangesSlot, OtherMenuBack, OtherMenuLoadsMap
  <2> QED
    BY <1>2, <2>1, <2>2, <2>3, <2>4, <2>5 DEF UpdateMenu
<1>3. CASE UpdateFlags
  <2>1. CASE Resumes
    BY <1>0, <1>i, <2>1, RestoreActorsAgrees DEF Resumes, LevelInv
  <2>2. CASE ResumeAbsent \/ ResumeCounts
    BY <1>1, <2>2 DEF ResumeAbsent, ResumeCounts
  <2> QED
    BY <1>3, <2>1, <2>2 DEF UpdateFlags
<1>4. CASE UpdateInputs
  <2>1. CASE PadSaves
    BY <1>0, <1>i, <2>1, CloneActorsAgrees DEF PadSaves, LevelInv
  <2>2. CASE PadLoads
    BY <1>0, <1>i, <2>2, RestoreActorsAgrees DEF PadLoads, RestoreActors, LevelInv
  <2>3. CASE PadIdle("save", "load") \/ PadIdle("load", "game")
    BY <1>1, <2>3 DEF PadIdle
  <2> QED
    BY <1>4, <2>1, <2>2, <2>3 DEF UpdateInputs
<1>5. CASE Game
  <2>1. LastmapAgrees'
    BY <1>5 DEF Game, GamePlays, GameFades, GameFadeEnds, GameLeaves, GameLoads, Reset, Wiped,
                LevelInv, LastmapAgrees, Whole
  <2>2. LiveAgrees'
    <3>1. CASE GamePlays
      BY <3>1, <1>0 DEF GamePlays, LevelInv, LiveAgrees, TypeOK, Contents
    <3>2. CASE GameFades \/ GameFadeEnds \/ GameLeaves
      BY <3>2 DEF GameFades, GameFadeEnds, GameLeaves, LevelInv, LiveAgrees
    <3>3. CASE GameLoads \/ Reset
      BY <3>3 DEF GameLoads, Reset, LiveAgrees
    <3> QED
      BY <1>5, <3>1, <3>2, <3>3 DEF Game
  <2> QED
    BY <1>0, <2>1, <2>2 DEF LevelInv
<1>6. CASE UNCHANGED vars
  BY <1>1, <1>6 DEF vars
<1> QED
  BY <1>2, <1>3, <1>4, <1>5, <1>6 DEF Next

LEMMA LevelInvInit == Init => LevelInv
<1> SUFFICES ASSUME Init PROVE LevelInv
  OBVIOUS
<1>1. TypeOK
  BY InitType
<1> QED
  BY <1>1 DEF Init, LevelInv, LastmapAgrees, LiveAgrees, Whole

\* The recorded level is always the level of the backup (logic.c:423).
THEOREM LastmapCorrect == Spec => []LastmapAgrees
BY LevelInvInit, LevelInvStep, PTL DEF Spec, LevelInv

\* The step form of LevelStaysWhole.
LEMMA StaysWholeStep ==
  ASSUME LevelInv, [Next]_vars,
         live # Garbage, live' = Garbage,
         restore_slot' \in UserSlots, Whole(restore_slot')
  PROVE  page = "move" /\ pc = "menu"
<1> USE DEF hackVars, heapVars, gameVars, history
<1>1. CASE UNCHANGED live
  BY <1>1
<1>2. CASE MainMenuLoads
  <2>1. restore_slot' = Masked /\ (RestoreLater(Masked) \/ RestoreNow(Masked))
    BY <1>2 DEF MainMenuLoads, MainMenu, RestoreActors
  <2> QED
    BY <1>1, <2>1, RestoreNowIsWhole DEF RestoreLater
<1>3. CASE MoveMenuLoadsBank
  BY <1>3 DEF MoveMenuLoadsBank, EnterMenu
<1>4. CASE Resumes
  BY <1>4, RestoreNowIsWhole DEF Resumes
<1>5. CASE PadLoads
  BY <1>1, <1>5, RestoreNowIsWhole DEF PadLoads, RestoreActors, RestoreLater
<1>6. CASE Game
  <2>1. CASE GamePlays
    <3>1. PICK d \in Data : live' = [live EXCEPT !.data = d]
      BY <2>1 DEF GamePlays
    <3>2. live' \in Contents
      BY <3>1 DEF LevelInv, TypeOK, Contents
    <3> QED
      BY <3>2, ContentAssumption
  <2>2. CASE GameLoads \/ Reset
    BY <2>2, ContentAssumption DEF GameLoads, Reset
  <2>3. CASE GameFades \/ GameFadeEnds \/ GameLeaves
    BY <1>1, <2>3 DEF GameFades, GameFadeEnds, GameLeaves
  <2> QED
    BY <1>6, <2>1, <2>2, <2>3 DEF Game
<1>7. CASE MenuIdle \/ MainMenuIdle \/ MainMenuChangesSlot \/ OtherMenuBack \/ OtherMenuLoadsMap
  BY <1>1, <1>7 DEF MenuIdle, MainMenuIdle, MainMenuChangesSlot, OtherMenuBack, OtherMenuLoadsMap
<1>8. CASE MainMenuSaves \/ PadSaves \/ MoveMenuSavesBank
  BY <1>1, <1>8 DEF MainMenuSaves, PadSaves, CloneActors, MoveMenuSavesBank, CloneObjBank
<1>9. CASE ResumeAbsent \/ ResumeCounts \/ PadIdle("save", "load") \/ PadIdle("load", "game")
  BY <1>1, <1>9 DEF ResumeAbsent, ResumeCounts, PadIdle
<1>10. CASE UNCHANGED vars
  BY <1>1, <1>10 DEF vars
<1> QED
  BY <1>2, <1>3, <1>4, <1>5, <1>6, <1>7, <1>8, <1>9, <1>10
     DEF Next, UpdateMenu, UpdateFlags, UpdateInputs

\* No restore from a whole slot, by menu, pad or resume, destroys the level.
THEOREM LevelsStayWhole == Spec => LevelStaysWhole
<1> DEFINE Action ==
      (live # Garbage /\ live' = Garbage) =>
        \/ restore_slot' \notin UserSlots
        \/ ~ Whole(restore_slot')
        \/ page = "move" /\ pc = "menu"
<1>1. LevelInv /\ [Next]_vars => [Action]_vars
  BY StaysWholeStep
<1> QED
  BY <1>1, LevelInvInit, LevelInvStep, PTL DEF Spec, LevelStaysWhole

-----------------------------------------------------------------------------
(* The menu's slot.                                                        *)

LEMMA MenuSlotStep ==
  ASSUME TypeOK, [Next]_vars, pc = "menu", page = "main",
         <<heap, lastmap, live>>' # <<heap, lastmap, live>>
  PROVE  restore_slot' \in UserSlots
<1> USE DEF hackVars, heapVars, gameVars, history
<1>1. CASE MainMenuSaves \/ MainMenuLoads
  BY <1>1, MaskedInRange DEF MainMenuSaves, MainMenuLoads, MainMenu
<1>2. CASE MoveMenuSavesBank \/ MoveMenuLoadsBank
  BY <1>2 DEF MoveMenuSavesBank, MoveMenuLoadsBank
<1>3. CASE MenuIdle \/ MainMenuIdle \/ MainMenuChangesSlot \/ OtherMenuBack \/ OtherMenuLoadsMap
  BY <1>3 DEF MenuIdle, MainMenuIdle, MainMenuChangesSlot, OtherMenuBack, OtherMenuLoadsMap
<1>4. CASE UpdateFlags \/ UpdateInputs \/ Game
  BY <1>4 DEF UpdateFlags, ResumeAbsent, ResumeCounts, Resumes, EnterFlags,
              UpdateInputs, PadIdle, PadSaves, PadLoads, Game, GamePlays, GameFades,
              GameFadeEnds, GameLeaves, GameLoads, Reset, EnterGame
<1>5. CASE UNCHANGED vars
  BY <1>5 DEF vars
<1> QED
  BY <1>1, <1>2, <1>3, <1>4, <1>5 DEF Next, UpdateMenu

\* What the main menu saves or loads is one of the user's slots.
THEOREM MenuSlotsInRange == Spec => MenuSlotInRange
<1> DEFINE Action ==
      (pc = "menu" /\ page = "main" /\ <<heap, lastmap, live>>' # <<heap, lastmap, live>>)
        => restore_slot' \in UserSlots
<1>1. TypeOK /\ [Next]_vars => [Action]_vars
  BY MenuSlotStep
<1> QED
  BY <1>1, TypeCorrect, PTL DEF Spec, MenuSlotInRange

-----------------------------------------------------------------------------
(* Backups that fit stay out of each other's areas, also those written one *)
(* below the first slot and into the object bank's area.                   *)

FitInv == TypeOK /\ \A s \in UserSlots : heap[s].len <= HeapSize

LEMMA AtLeastOnce ==
  ASSUME NEW n \in Nat \ {0}, NEW h \in Nat PROVE n * h >= h
OBVIOUS

LEMMA NoClobber ==
  ASSUME FitInv, NEW slot \in (0..BankSlot) \cup {SlotValues - 1}, NEW len \in Nat,
         len <= HeapSize \/ slot = BankSlot, NEW a \in UserSlots, a # slot
  PROVE  ~ Clobbers(slot, len, a)
<1>1. a \in Int /\ a <= MaxRestoreSlots /\ a \in 0..BankSlot
  BY SlotAssumption DEF UserSlots, BankSlot
<1>2. Area(slot) \in -1..BankSlot /\ Area(slot) # a
  BY <1>1, SlotAssumption DEF Area, BankSlot, UserSlots
<1>3. ASSUME a > Area(slot) PROVE ~ (len > (a - Area(slot)) * HeapSize)
  <2>1. slot # BankSlot
    BY <1>1, <1>3, SlotAssumption DEF Area, BankSlot
  <2>2. a - Area(slot) \in Nat \ {0}
    BY <1>1, <1>2, <1>3, ConstantFacts
  <2>3. (a - Area(slot)) * HeapSize >= HeapSize
    BY <2>2, AtLeastOnce, SizeAssumption
  <2>4. (a - Area(slot)) * HeapSize \in Int
    BY <2>2, SizeAssumption
  <2> QED
    BY <2>1, <2>3, <2>4, SizeAssumption
<1>4. ASSUME a < Area(slot) PROVE ~ (heap[a].len > (Area(slot) - a) * HeapSize)
  <2>1. Area(slot) - a \in Nat \ {0}
    BY <1>1, <1>2, <1>4, ConstantFacts
  <2>2. (Area(slot) - a) * HeapSize >= HeapSize
    BY <2>1, AtLeastOnce, SizeAssumption
  <2>3. (Area(slot) - a) * HeapSize \in Int
    BY <2>1, SizeAssumption
  <2>4. heap[a].len <= HeapSize /\ heap[a].len \in Nat
    BY <1>1 DEF FitInv, TypeOK
  <2> QED
    BY <2>2, <2>3, <2>4, SizeAssumption
<1> QED
  BY <1>3, <1>4 DEF Clobbers

LEMMA WriteStaysInside ==
  ASSUME FitInv, NEW slot \in (0..BankSlot) \cup {SlotValues - 1}, NEW len \in Nat,
         len <= HeapSize \/ slot = BankSlot, WriteHeap(slot, len)
  PROVE  /\ \A s \in UserSlots : heap'[s].len <= HeapSize
         /\ \A s \in UserSlots : heap'[s] # heap[s] => s = slot
<1> SUFFICES ASSUME NEW s \in UserSlots
             PROVE  heap'[s].len <= HeapSize /\ (heap'[s] # heap[s] => s = slot)
  OBVIOUS
<1>1. s \in 0..BankSlot
  BY ConstantFacts
<1>2. CASE s = slot
  <2>1. heap'[s].len = len
    BY <1>1, <1>2 DEF WriteHeap
  <2>2. slot # BankSlot
    BY <1>2, ConstantFacts
  <2> QED
    BY <1>2, <2>1, <2>2
<1>3. CASE s # slot
  <2>1. heap'[s] = heap[s]
    BY <1>1, <1>3, NoClobber DEF WriteHeap
  <2> QED
    BY <1>3, <2>1 DEF FitInv
<1> QED
  BY <1>2, <1>3

LEMMA SlotType == ASSUME TypeOK
                  PROVE  /\ restore_slot \in (0..BankSlot) \cup {SlotValues - 1}
                         /\ Masked \in UserSlots
                         /\ Masked \in (0..BankSlot) \cup {SlotValues - 1}
BY MaskedInRange, ConstantFacts DEF TypeOK

LEMMA FitStep ==
  ASSUME Fits, FitInv, [Next]_vars
  PROVE  /\ FitInv'
         /\ \A s \in UserSlots : heap'[s] # heap[s] => s = restore_slot'
<1> USE DEF hackVars, heapVars, gameVars, history
<1>0. TypeOK /\ TypeOK'
  <2>1. CASE Next
    BY <2>1, UpdateMenuType, UpdateFlagsType, UpdateInputsType, GameType DEF Next, FitInv
  <2>2. CASE UNCHANGED vars
    BY <2>2 DEF vars, TypeOK, FitInv
  <2> QED
    BY <2>1, <2>2
<1>1. CASE UNCHANGED heap
  BY <1>0, <1>1 DEF FitInv
<1>2. ASSUME NEW slot \in (0..BankSlot) \cup {SlotValues - 1}, CloneActors(slot), restore_slot' = slot
      PROVE  /\ FitInv'
             /\ \A s \in UserSlots : heap'[s] # heap[s] => s = restore_slot'
  <2>1. PICK len \in Lens : WriteHeap(slot, len)
    BY <1>2 DEF CloneActors
  <2>2. len \in Nat /\ len <= HeapSize
    BY SizeAssumption DEF Fits
  <2> QED
    BY <1>0, <1>2, <2>1, <2>2, WriteStaysInside DEF FitInv
<1>3. CASE MainMenuSaves
  BY <1>0, <1>2, <1>3, SlotType DEF MainMenuSaves, MainMenu
<1>4. CASE PadSaves
  BY <1>0, <1>2, <1>4, SlotType DEF PadSaves
<1>5. CASE MoveMenuSavesBank
  <2>1. PICK len \in BankLens : WriteHeap(BankSlot, len)
    BY <1>5 DEF MoveMenuSavesBank, CloneObjBank
  <2>2. BankSlot \in 0..BankSlot
    BY ConstantFacts
  <2>3. \A s \in UserSlots : heap'[s].len <= HeapSize /\ (heap'[s] # heap[s] => s = BankSlot)
    BY <2>1, <2>2, WriteStaysInside, SizeAssumption
  <2> QED
    BY <1>0, <2>3, ConstantFacts DEF FitInv
<1>6. CASE MainMenuLoads \/ MoveMenuLoadsBank \/ Resumes \/ PadLoads
  BY <1>1, <1>6 DEF MainMenuLoads, MoveMenuLoadsBank, Resumes, PadLoads, RestoreActors,
                    RestoreLater, RestoreNow
<1>7. CASE MenuIdle \/ MainMenuIdle \/ MainMenuChangesSlot \/ OtherMenuBack \/ OtherMenuLoadsMap
  BY <1>1, <1>7 DEF MenuIdle, MainMenuIdle, MainMenuChangesSlot, OtherMenuBack, OtherMenuLoadsMap
<1>8. CASE ResumeAbsent \/ ResumeCounts \/ PadIdle("save", "load") \/ PadIdle("load", "game")
  BY <1>1, <1>8 DEF ResumeAbsent, ResumeCounts, PadIdle
<1>9. CASE Game
  BY <1>1, <1>9 DEF Game, GamePlays, GameFades, GameFadeEnds, GameLeaves, GameLoads, Reset, Wiped
<1>10. CASE UNCHANGED vars
  BY <1>1, <1>10 DEF vars
<1> QED
  BY <1>3, <1>4, <1>5, <1>6, <1>7, <1>8, <1>9, <1>10
     DEF Next, UpdateMenu, UpdateFlags, UpdateInputs

LEMMA FitInit == Init => FitInv
<1> SUFFICES ASSUME Init PROVE FitInv
  OBVIOUS
<1>1. \A s \in UserSlots : heap[s].len = 0
  BY ConstantFacts DEF Init
<1> QED
  BY <1>1, InitType, SizeAssumption DEF FitInv

\* If every level fits an area, no save ever touches another slot.
THEOREM SavesTouchOneSlot == ASSUME Fits PROVE Spec => SaveTouchesOneSlot
<1> DEFINE Action == \A s \in UserSlots : heap'[s] # heap[s] => s = restore_slot'
<1>1. FitInv /\ [Next]_vars => FitInv' /\ [Action]_vars
  BY FitStep
<1> QED
  BY <1>1, FitInit, PTL DEF Spec, SaveTouchesOneSlot

-----------------------------------------------------------------------------
(* A restore that waits.  Nothing loses it: as long as neither the user    *)
(* nor the game crosses it, its flag is set, its slot is the one selected, *)
(* and the level recorded for it is the next to come or the one that is    *)
(* up.                                                                     *)

WaitOK ==
  /\ resume_restore => asked # NoSlot
  /\ asked # NoSlot /\ ~ disturbed =>
       /\ resume_restore /\ restore_slot = asked
       /\ \/ pending_map = lastmap[asked]
          \/ pending_map = NoMap /\ current_map = lastmap[asked]

WaitInv == TypeOK /\ WaitOK

LEMMA CloneWaits ==
  ASSUME WaitInv, NEW slot \in 0..SlotValues - 1, CloneActors(slot),
         asked # NoSlot => restore_slot' = restore_slot \/ disturbed'
  PROVE  WaitOK'
<1> USE DEF WaitInv, WaitOK
<1>1. asked' = asked /\ resume_restore' = resume_restore /\ pending_map' = pending_map
      /\ current_map' = current_map
  BY DEF CloneActors, gameVars
<1>2. asked # NoSlot /\ ~ disturbed' =>
        ~ disturbed /\ slot # asked /\ lastmap'[asked] = lastmap[asked]
  <2> SUFFICES ASSUME asked # NoSlot, ~ disturbed'
               PROVE  ~ disturbed /\ slot # asked /\ lastmap'[asked] = lastmap[asked]
    OBVIOUS
  <2>1. ~ disturbed /\ slot # asked
    BY DEF CloneActors, Disturbs
  <2>2. asked \in 0..BankSlot
    BY ConstantFacts DEF TypeOK
  <2> QED
    BY <2>1, <2>2 DEF CloneActors, WriteLastmap
<1> QED
  BY <1>1, <1>2

LEMMA RestoreWaits ==
  ASSUME WaitInv, NEW slot \in 0..SlotValues - 1,
         (RestoreLater(slot) /\ restore_slot' = slot) \/ RestoreNow(slot)
  PROVE  WaitOK'
<1> USE DEF WaitInv, WaitOK
<1>1. CASE RestoreLater(slot) /\ restore_slot' = slot
  <2>1. slot \in UserSlots /\ slot # NoSlot
    BY <1>1, SlotAssumption, ConstantFacts DEF RestoreLater, NeedsMap, UserSlots
  <2>2. asked' = slot /\ resume_restore' /\ pending_map' = lastmap'[slot]
    BY <1>1 DEF RestoreLater, heapVars
  <2> QED
    BY <1>1, <2>1, <2>2
<1>2. CASE RestoreNow(slot)
  <2>1. asked' = NoSlot \/ disturbed'
    <3>1. CASE slot = asked
      BY <1>2, <3>1 DEF RestoreNow
    <3>2. CASE slot # asked
      BY <1>2, <3>2 DEF RestoreNow, Disturbs
    <3> QED
      BY <3>1, <3>2
  <2>2. resume_restore' = FALSE
    BY <1>2 DEF RestoreNow
  <2> QED
    BY <2>1, <2>2
<1> QED
  BY <1>1, <1>2

LEMMA MenuWaits == ASSUME WaitInv, UpdateMenu PROVE WaitOK'
<1> USE DEF hackVars, heapVars, gameVars, history
<1>m. Masked \in UserSlots /\ Masked \in 0..SlotValues - 1 /\ BankSlot \in 0..SlotValues - 1
  BY MaskedInRange, SlotAssumption DEF UserSlots, BankSlot, WaitInv
<1>1. CASE MenuIdle \/ OtherMenuBack
  BY <1>1 DEF MenuIdle, OtherMenuBack, WaitInv, WaitOK
<1>2. CASE MainMenuIdle
  BY <1>2 DEF MainMenuIdle, Disturbs, WaitInv, WaitOK
<1>3. CASE MainMenuChangesSlot
  BY <1>3 DEF MainMenuChangesSlot, Disturbs, WaitInv, WaitOK
<1>4. CASE MainMenuSaves
  <2>1. CloneActors(Masked) /\ restore_slot' = Masked
    BY <1>4 DEF MainMenuSaves, MainMenu
  <2>2. asked # NoSlot /\ ~ disturbed => Masked = restore_slot
    <3> SUFFICES ASSUME asked # NoSlot, ~ disturbed PROVE Masked = restore_slot
      OBVIOUS
    <3>1. restore_slot \in UserSlots
      BY DEF WaitInv, WaitOK, TypeOK
    <3> QED
      BY <3>1, SlotAssumption DEF Masked, UserSlots
  <2>3. disturbed => disturbed' \/ asked = NoSlot
    BY <2>1 DEF CloneActors, Disturbs
  <2> QED
    BY <1>m, <2>1, <2>2, <2>3, CloneWaits
<1>5. CASE MainMenuLoads
  BY <1>5, <1>m, RestoreWaits DEF MainMenuLoads, MainMenu, RestoreActors
<1>6. CASE OtherMenuLoadsMap
  BY <1>6 DEF OtherMenuLoadsMap, LoadMap, Disturbs, WaitInv, WaitOK
<1>7. CASE MoveMenuSavesBank
  <2>1. UNCHANGED <<resume_restore, restore_slot, asked, disturbed, pending_map, current_map>>
    BY <1>7 DEF MoveMenuSavesBank, CloneObjBank
  <2>2. asked # NoSlot => lastmap'[asked] = lastmap[asked]
    <3>1. asked # NoSlot => asked \in 0..BankSlot /\ asked # BankSlot
      BY ConstantFacts DEF WaitInv, TypeOK
    <3> QED
      BY <1>7, <3>1 DEF MoveMenuSavesBank, CloneObjBank, WriteLastmap
  <2> QED
    BY <2>1, <2>2 DEF WaitInv, WaitOK
<1>8. CASE MoveMenuLoadsBank
  <2>1. ~ RestoreLater(BankSlot)
    BY SlotAssumption DEF RestoreLater, NeedsMap, BankSlot
  <2> QED
    BY <1>8, <1>m, <2>1, RestoreWaits DEF MoveMenuLoadsBank, RestoreActors
<1> QED
  BY <1>1, <1>2, <1>3, <1>4, <1>5, <1>6, <1>7, <1>8 DEF UpdateMenu

LEMMA FrameWaits == ASSUME WaitInv, UpdateFlags \/ UpdateInputs PROVE WaitOK'
<1> USE DEF hackVars, heapVars, gameVars, history
<1>s. restore_slot \in 0..SlotValues - 1
  BY SlotIsU16 DEF WaitInv
<1>1. CASE ResumeAbsent \/ ResumeCounts \/ PadIdle("save", "load") \/ PadIdle("load", "game")
  BY <1>1 DEF ResumeAbsent, ResumeCounts, PadIdle, WaitInv, WaitOK
<1>2. CASE Resumes
  BY <1>2, <1>s, RestoreWaits DEF Resumes
<1>3. CASE PadSaves
  BY <1>3, <1>s, CloneWaits DEF PadSaves
<1>4. CASE PadLoads
  BY <1>4, <1>s, RestoreWaits DEF PadLoads, RestoreActors
<1> QED
  BY <1>1, <1>2, <1>3, <1>4 DEF UpdateFlags, UpdateInputs

LEMMA GameWaits == ASSUME WaitInv, Game PROVE WaitOK'
<1> USE DEF hackVars, heapVars, gameVars, history
<1>1. CASE GamePlays \/ GameFades \/ GameFadeEnds
  BY <1>1 DEF GamePlays, GameFades, GameFadeEnds, WaitInv, WaitOK
<1>2. CASE GameLeaves
  BY <1>2 DEF GameLeaves, LoadMap, Disturbs, WaitInv, WaitOK
<1>3. CASE GameLoads
  BY <1>3 DEF GameLoads, WaitInv, WaitOK
<1>4. CASE Reset
  BY <1>4 DEF Reset, WaitOK
<1> QED
  BY <1>1, <1>2, <1>3, <1>4 DEF Game

LEMMA WaitInvStep == WaitInv /\ [Next]_vars => WaitInv'
<1> SUFFICES ASSUME WaitInv, [Next]_vars PROVE WaitInv'
  OBVIOUS
<1>1. CASE Next
  <2>1. TypeOK'
    BY <1>1, UpdateMenuType, UpdateFlagsType, UpdateInputsType, GameType DEF Next, WaitInv
  <2>2. WaitOK'
    BY <1>1, MenuWaits, FrameWaits, GameWaits DEF Next
  <2> QED
    BY <2>1, <2>2 DEF WaitInv
<1>2. CASE UNCHANGED vars
  BY <1>2 DEF vars, hackVars, heapVars, gameVars, history, WaitInv, WaitOK, TypeOK
<1> QED
  BY <1>1, <1>2

LEMMA WaitInvInit == Init => WaitInv
<1> SUFFICES ASSUME Init PROVE WaitInv
  OBVIOUS
<1>1. TypeOK
  BY InitType
<1> QED
  BY <1>1 DEF Init, WaitInv, WaitOK

\* A restore that waits keeps its flag, its slot and its level until it is
\* done, unless somebody crosses it (logic.c:109-117, 605-616).
THEOREM RestoreStaysArmed == Spec => []WaitOK
BY WaitInvInit, WaitInvStep, PTL DEF Spec, WaitInv

\* What is resumed is the restore that was asked for, if nobody crossed it:
\* a slot changed in the menu meanwhile is the only way to another one
\* (logic.c:109-117).
THEOREM ResumesUncrossed == Spec => [][Resumes /\ ~ disturbed => restore_slot = asked]_vars
<1>1. WaitInv /\ [Next]_vars => [Resumes /\ ~ disturbed => restore_slot = asked]_vars
  BY DEF WaitInv, WaitOK, Resumes, ResumeInPlace
<1> QED
  BY <1>1, WaitInvInit, WaitInvStep, PTL DEF Spec

-----------------------------------------------------------------------------
(* The message of a backup.                                                *)

LEMMA StoredStep ==
  ASSUME TypeOK, [Next]_vars, ClonesActors, ~ OutOfBounds(heap'[restore_slot'].len),
         NEW s \in restore_slot' + 1..BankSlot, heap'[s] # heap[s]
  PROVE  s = restore_slot' + 1 /\ heap'[restore_slot'].len = HeapSize + 1
<1> USE DEF hackVars, heapVars, gameVars, history
<1> DEFINE slot == restore_slot'
<1>1. slot \in UserSlots /\ heap' # heap /\ pc \in {"menu", "save"} /\ ~ (pc = "menu" /\ page = "move")
  BY DEF ClonesActors
<1>2. CloneActors(slot)
  <2>1. CASE UpdateMenu
    <3>1. MainMenuSaves
      BY <1>1, <2>1 DEF UpdateMenu, MenuIdle, MainMenuIdle, MainMenuChangesSlot, MainMenuLoads,
                        OtherMenuBack, OtherMenuLoadsMap, MoveMenuSavesBank, MoveMenuLoadsBank,
                        EnterMenu, MainMenu, RestoreActors, RestoreLater, RestoreNow
    <3> QED
      BY <3>1 DEF MainMenuSaves, MainMenu
  <2>2. CASE UpdateFlags \/ Game
    BY <1>1, <2>2 DEF UpdateFlags, ResumeAbsent, ResumeCounts, Resumes, EnterFlags,
                      Game, GamePlays, GameFades, GameFadeEnds, GameLeaves, GameLoads, Reset, EnterGame
  <2>3. CASE UpdateInputs
    <3>1. PadSaves
      BY <1>1, <2>3 DEF UpdateInputs, PadIdle, PadLoads, RestoreActors, RestoreLater, RestoreNow
    <3> QED
      BY <3>1 DEF PadSaves
  <2>4. CASE UNCHANGED vars
    BY <1>1, <2>4 DEF vars
  <2> QED
    BY <2>1, <2>2, <2>3, <2>4 DEF Next
<1> HIDE DEF slot
<1>3. PICK len \in Lens : WriteHeap(slot, len)
  BY <1>2 DEF CloneActors
<1>4. slot \in Nat /\ slot \in 0..BankSlot /\ slot < SlotValues - 1 /\ len \in Nat /\ HeapSize \in Nat \ {0}
  BY <1>1, SlotAssumption, SizeAssumption DEF UserSlots, BankSlot
<1>5. s \in Nat /\ s > slot /\ s \in 0..BankSlot
  <2>1. s \in slot + 1..BankSlot
    BY DEF slot
  <2>2. BankSlot \in Nat
    BY ConstantFacts
  <2> QED
    BY <1>4, <2>1, <2>2
<1>6. heap'[slot].len = len /\ len <= HeapSize + 1
  <2>1. heap'[slot].len = len
    BY <1>3, <1>4 DEF WriteHeap
  <2>2. ~ len - 1 > HeapSize
    BY <2>1 DEF OutOfBounds, slot
  <2> QED
    BY <1>4, <2>1, <2>2
<1>7. len > (s - slot) * HeapSize
  <2>1. Clobbers(slot, len, s)
    BY <1>3, <1>5 DEF WriteHeap
  <2>2. Area(slot) = slot
    BY <1>4 DEF Area
  <2> QED
    BY <1>4, <1>5, <2>1, <2>2 DEF Clobbers
<1>8. s = slot + 1
  <2> SUFFICES ASSUME s - slot >= 2 PROVE FALSE
    BY <1>4, <1>5
  <2> DEFINE d == s - slot - 2
  <2>1. d \in Nat /\ (s - slot) * HeapSize = 2 * HeapSize + d * HeapSize /\ d * HeapSize \in Nat
    BY <1>4, <1>5
  <2> DEFINE e == d * HeapSize  f == (s - slot) * HeapSize
  <2>2. e \in Nat /\ f = 2 * HeapSize + e /\ len > f
    BY <1>7, <2>1
  <2> HIDE DEF e, f
  <2> QED
    BY <1>4, <1>6, <2>2
<1>9. len = HeapSize + 1
  BY <1>4, <1>6, <1>7, <1>8
<1> QED
  BY <1>6, <1>8, <1>9 DEF slot

\* "bytes stored!" is wrong by one word at most: of a backup announced so only
\* the first word of the next area is overwritten, and only if the backup is
\* one word longer than its own (logic.c:511).
THEOREM StoredButOneWord ==
  Spec => [][ClonesActors /\ ~ OutOfBounds(heap'[restore_slot'].len) =>
               \A s \in restore_slot' + 1..BankSlot : heap'[s] # heap[s] =>
                 s = restore_slot' + 1 /\ heap'[restore_slot'].len = HeapSize + 1]_vars
<1> DEFINE Action ==
      ClonesActors /\ ~ OutOfBounds(heap'[restore_slot'].len) =>
        \A s \in restore_slot' + 1..BankSlot : heap'[s] # heap[s] =>
          s = restore_slot' + 1 /\ heap'[restore_slot'].len = HeapSize + 1
<1>1. TypeOK /\ [Next]_vars => [Action]_vars
  BY StoredStep
<1> QED
  BY <1>1, TypeCorrect, PTL DEF Spec

-----------------------------------------------------------------------------
(* The invariant of a careful user's behaviours.                           *)

LEMMA ModSmall ==
  ASSUME NEW n \in Nat, NEW x \in Nat, x < n PROVE x % n = x
BY SMT

\* Masking a slot that is in range changes nothing.
LEMMA MaskKeeps == ASSUME restore_slot \in UserSlots PROVE Masked = restore_slot
<1>1. MaxRestoreSlots + 1 \in Nat /\ restore_slot \in Nat /\ restore_slot < MaxRestoreSlots + 1
  BY SlotAssumption DEF UserSlots
<1> QED
  BY <1>1, ModSmall DEF Masked

LEMMA CarefulIsNext == [CarefulNext]_vars => [Next]_vars
BY DEF CarefulNext, CarefulMenu, CarefulInputs, Next, UpdateMenu, UpdateInputs

LEMMA CarefulInit == Init => CarefulInv
<1> SUFFICES ASSUME Init PROVE CarefulInv
  OBVIOUS
<1>1. TypeOK /\ LastmapAgrees /\ FitInv
  BY LevelInvInit, FitInit DEF LevelInv
<1>2. restore_slot \in UserSlots
  BY SlotAssumption DEF Init, UserSlots
<1> QED
  BY <1>1, <1>2 DEF Init, CarefulInv, FitInv

\* What a save of a careful user does to the slots.
LEMMA CarefulClone ==
  ASSUME Fits, CarefulInv, CloneActors(restore_slot)
  PROVE  /\ heap'[restore_slot].content = live
         /\ \A s \in UserSlots \ {restore_slot} : heap'[s] = heap[s]
         /\ recorded' = recorded \cup {restore_slot}
         /\ UNCHANGED <<resume_restore, current_map, live>>
<1>1. PICK len \in Lens : WriteHeap(restore_slot, len)
  BY DEF CloneActors
<1>2. restore_slot \in 0..BankSlot
  BY ConstantFacts DEF CarefulInv
<1>3. heap'[restore_slot].content = live
  BY <1>1, <1>2 DEF WriteHeap
<1>4. \A s \in UserSlots : heap'[s] # heap[s] => s = restore_slot
  BY <1>1, <1>2, WriteStaysInside, SizeAssumption DEF Fits, FitInv, CarefulInv
<1>5. recorded' = recorded \cup {restore_slot}
  BY <1>2 DEF CloneActors, Records
<1> QED
  BY <1>3, <1>4, <1>5 DEF CloneActors, gameVars

\* A restore of a careful user comes now, whole, or waits for its level.
LEMMA CarefulRestore ==
  ASSUME CarefulInv, Whole(restore_slot), RestoreLater(restore_slot) \/ RestoreNow(restore_slot)
  PROVE  /\ UNCHANGED <<heap, recorded, current_map>>
         /\ \/ /\ resume_restore'
               /\ heap[restore_slot].content.map # current_map
               /\ UNCHANGED live
            \/ /\ ~ resume_restore'
               /\ heap[restore_slot].content.map = current_map
               /\ live' = heap[restore_slot].content
<1>1. restore_slot \in UserSlots /\ restore_slot \in 0..BankSlot /\ LevelInv
  BY ConstantFacts DEF CarefulInv, LevelInv, LiveAgrees
<1>2. heap[restore_slot].content.map = lastmap[restore_slot]
  BY <1>1 DEF CarefulInv, LastmapAgrees
<1>3. ReadLastmap(restore_slot) = {lastmap[restore_slot]}
  BY <1>1 DEF ReadLastmap
<1>4. restore_slot <= MaxRestoreSlots
  BY <1>1, SlotAssumption DEF UserSlots
<1>5. CASE RestoreLater(restore_slot)
  BY <1>2, <1>3, <1>5 DEF RestoreLater, NeedsMap, heapVars
<1>6. CASE RestoreNow(restore_slot)
  BY <1>1, <1>2, <1>3, <1>4, <1>6, RestoreNowIsWhole DEF RestoreNow, NeedsMap, heapVars
<1> QED
  BY <1>5, <1>6

-----------------------------------------------------------------------------
(* Each phase maps to the abstract step of its turn, and keeps the         *)
(* invariant.                                                              *)

\* What is left to show of CarefulInv once types and areas are settled.
CarefulCore ==
  /\ restore_slot \in UserSlots
  /\ live \in Contents
  /\ live.map = current_map
  /\ resume_restore => Whole(restore_slot)

LEMMA KeptSame == ASSUME UNCHANGED <<heap, recorded>> PROVE Kept' = Kept
BY DEF Kept, Whole

LEMMA TurnType == Turn \in Abs!Turns
BY DEF Turn, Abs!Turns

LEMMA TurnTypePrime == Turn' \in Abs!Turns
BY DEF Turn, Abs!Turns

\* A save is the abstract save of the selected slot.
LEMMA SaveMaps ==
  ASSUME Fits, CarefulInv, CloneActors(restore_slot), UNCHANGED restore_slot,
         pc \in {"menu", "save", "load"}
  PROVE  CarefulCore' /\ Abs!Next
<1>1. restore_slot \in UserSlots
  BY DEF CarefulInv
<1>2. Kept' = [Kept EXCEPT ![restore_slot] = live]
  <2>1. live # Garbage
    BY ContentAssumption DEF CarefulInv
  <2> QED
    BY <1>1, <2>1, CarefulClone DEF Kept, Whole
<1>3. Turn = "user"
  BY DEF Turn
<1>4. Waiting' = Waiting
  BY CarefulClone DEF Waiting
<1>5. Abs!Save(restore_slot)
  BY <1>2, <1>3, <1>4, CarefulClone DEF Abs!Save
<1>6. CarefulCore'
  BY <1>1, CarefulClone, ContentAssumption DEF CarefulCore, CarefulInv, Whole
<1> QED
  BY <1>1, <1>5, <1>6, TurnTypePrime DEF Abs!Next

\* A restore is the abstract restore of the selected slot, or its wish.
LEMMA LoadMaps ==
  ASSUME CarefulInv, Whole(restore_slot), UNCHANGED restore_slot,
         RestoreLater(restore_slot) \/ RestoreNow(restore_slot),
         \/ pc \in {"menu", "save", "load"}
         \/ pc = "flags" /\ resume_restore /\ RestoreNow(restore_slot)
  PROVE  CarefulCore' /\ Abs!Next
<1>1. restore_slot \in UserSlots /\ restore_slot # NoSlot
  BY ConstantFacts DEF CarefulInv
<1>2. Kept' = Kept /\ Kept[restore_slot] = heap[restore_slot].content
  BY <1>1, CarefulRestore, KeptSame DEF Kept
<1>3. Kept[restore_slot] # Garbage /\ Kept[restore_slot] \in Contents
  <2>1. restore_slot \in 0..BankSlot
    BY <1>1, ConstantFacts
  <2> QED
    BY <1>2, <2>1 DEF Whole, CarefulInv, TypeOK
<1>4. CASE resume_restore'
  <2>1. Waiting' = restore_slot
    BY <1>4 DEF Waiting
  <2>2. pc # "flags"
    BY <1>4 DEF RestoreNow
  <2>3. Abs!UserWants(restore_slot)
    BY <1>2, <1>3, <1>4, <2>1, <2>2, CarefulRestore DEF Abs!UserWants, Turn
  <2>4. CarefulCore'
    BY <1>1, <1>4, CarefulRestore DEF CarefulCore, CarefulInv, Whole
  <2> QED
    BY <1>1, <2>3, <2>4, TurnTypePrime DEF Abs!Next
<1>5. CASE ~ resume_restore'
  <2>1. Waiting' = NoSlot
    BY <1>5 DEF Waiting
  <2>2. Abs!Restore(restore_slot)
    BY <1>2, <1>3, <1>5, <2>1, CarefulRestore DEF Abs!Restore
  <2>3. CarefulCore'
    BY <1>1, <1>2, <1>3, <1>5, CarefulRestore DEF CarefulCore
  <2>4. CASE pc \in {"menu", "save", "load"}
    BY <1>1, <2>2, <2>3, <2>4, TurnTypePrime DEF Abs!Next, Abs!UserRestores, Turn
  <2>5. CASE pc = "flags" /\ resume_restore
    <3>1. Waiting = restore_slot /\ Turn = "auto"
      BY <2>5 DEF Waiting, Turn
    <3>2. Abs!Resume
      BY <1>1, <2>2, <3>1 DEF Abs!Resume
    <3> QED
      BY <2>3, <3>2, TurnTypePrime DEF Abs!Next
  <2> QED
    BY <2>4, <2>5
<1> QED
  BY <1>4, <1>5

\* A phase that neither saves nor restores lets the abstract turn pass.
LEMMA PassMaps ==
  ASSUME CarefulInv, UNCHANGED <<heap, recorded, current_map, live, resume_restore>>,
         restore_slot' \in UserSlots,
         resume_restore => restore_slot' = restore_slot
  PROVE  CarefulCore' /\ Abs!Next
<1>1. Kept' = Kept /\ Waiting' = Waiting
  BY KeptSame DEF Waiting
<1>2. Abs!Pass
  BY <1>1 DEF Abs!Pass
<1>3. CarefulCore'
  BY DEF CarefulCore, CarefulInv, Whole
<1> QED
  BY <1>2, <1>3, TurnTypePrime DEF Abs!Next

\* A frame of the game is the game's turn.
LEMMA GameMaps == ASSUME CarefulInv, Game PROVE CarefulCore' /\ Abs!Next
<1> USE DEF EnterGame, hackVars, heapVars, history
<1>1. Turn = "game"
  BY DEF Game, GamePlays, GameFades, GameFadeEnds, GameLeaves, GameLoads, Reset, Turn
<1>2. \/ UNCHANGED <<heap, recorded>>
      \/ recorded' = {} /\ resume_restore' = FALSE
  BY DEF Game, GamePlays, GameFades, GameFadeEnds, GameLeaves, GameLoads, Reset, Wiped
<1>3. Kept' \in {Kept, [s \in UserSlots |-> Garbage]}
  <2>1. CASE UNCHANGED <<heap, recorded>>
    BY <2>1, KeptSame
  <2>2. CASE recorded' = {}
    BY <2>2 DEF Kept, Whole
  <2> QED
    BY <1>2, <2>1, <2>2
<1>4. current_map' \in Maps /\ live' \in Contents /\ live'.map = current_map'
  <2>0. live \in Contents /\ live.map = current_map /\ current_map \in Maps /\ live # Garbage
    BY ContentAssumption DEF CarefulInv, TypeOK
  <2>1. CASE GamePlays
    BY <2>0, <2>1 DEF GamePlays, Contents
  <2>2. CASE GameFades \/ GameFadeEnds \/ GameLeaves
    BY <2>0, <2>2 DEF GameFades, GameFadeEnds, GameLeaves
  <2>3. CASE GameLoads
    BY <2>3 DEF GameLoads, CarefulInv, TypeOK
  <2>4. CASE Reset
    BY <2>4 DEF Reset
  <2> QED
    BY <2>1, <2>2, <2>3, <2>4 DEF Game
<1>5. \/ UNCHANGED <<restore_slot, resume_restore>>
      \/ restore_slot' = 0 /\ resume_restore' = FALSE
  BY DEF Game, GamePlays, GameFades, GameFadeEnds, GameLeaves, GameLoads, Reset, Wiped
<1>6. Waiting' \in {Waiting, NoSlot}
  BY <1>5 DEF Waiting
<1>7. live' \in {c \in Abs!States : c.map = current_map'}
  BY <1>4 DEF Abs!States, Contents
<1>8. Abs!GameSteps
  BY <1>1, <1>4, <1>6, <1>7, <1>3 DEF Abs!GameSteps
<1>9. restore_slot' \in UserSlots
  BY <1>5, SlotAssumption DEF CarefulInv, UserSlots
<1>10. CarefulCore'
  BY <1>4, <1>5, <1>9, <1>2 DEF CarefulCore, CarefulInv, Whole
<1> QED
  BY <1>8, <1>10, TurnTypePrime DEF Abs!Next

LEMMA CarefulStep ==
  ASSUME Fits, CarefulInv, CarefulNext
  PROVE  CarefulCore' /\ Abs!Next
<1> USE DEF hackVars, heapVars, gameVars
<1>0. restore_slot \in UserSlots /\ Masked = restore_slot
  BY MaskKeeps DEF CarefulInv
<1>1. CASE MenuIdle \/ OtherMenuBack \/ OtherMenuLoadsMap \/ ResumeAbsent \/ ResumeCounts
           \/ PadIdle("save", "load") \/ PadIdle("load", "game")
  BY <1>0, <1>1, PassMaps DEF MenuIdle, OtherMenuBack, OtherMenuLoadsMap, ResumeAbsent,
                              ResumeCounts, PadIdle
<1>2. CASE MainMenuIdle
  BY <1>0, <1>2, PassMaps DEF MainMenuIdle, MainMenu
<1>3. CASE ~ resume_restore /\ MainMenuChangesSlot /\ restore_slot' \in UserSlots
  BY <1>3, PassMaps DEF MainMenuChangesSlot
<1>4. CASE MainMenuSaves
  BY <1>0, <1>4, SaveMaps DEF MainMenuSaves, MainMenu, EnterMenu
<1>5. CASE Whole(restore_slot) /\ MainMenuLoads
  BY <1>0, <1>5, LoadMaps DEF MainMenuLoads, MainMenu, EnterMenu, RestoreActors
<1>6. CASE Resumes
  BY <1>6, LoadMaps DEF Resumes, ResumeInPlace, EnterFlags, CarefulInv
<1>7. CASE PadSaves
  BY <1>7, SaveMaps DEF PadSaves
<1>8. CASE Whole(restore_slot) /\ PadLoads
  BY <1>8, LoadMaps DEF PadLoads, RestoreActors
<1>9. CASE Game
  BY <1>9, GameMaps
<1> QED
  BY <1>1, <1>2, <1>3, <1>4, <1>5, <1>6, <1>7, <1>8, <1>9
     DEF CarefulNext, CarefulMenu, CarefulInputs, UpdateFlags

LEMMA CarefulInvStep ==
  ASSUME Fits, CarefulInv, [CarefulNext]_vars
  PROVE  CarefulInv' /\ [Abs!Next]_(Abs!vars)
<1>1. CASE CarefulNext
  <2>1. LevelInv /\ FitInv /\ [Next]_vars
    BY <1>1, CarefulIsNext DEF CarefulInv, LevelInv, LiveAgrees, FitInv
  <2>2. LevelInv' /\ FitInv'
    BY <2>1, LevelInvStep, FitStep
  <2> QED
    BY <1>1, <2>2, CarefulStep DEF CarefulInv, CarefulCore, LevelInv, FitInv
<1>2. CASE UNCHANGED vars
  <2>1. UNCHANGED Abs!vars
    BY <1>2 DEF vars, hackVars, heapVars, gameVars, Abs!vars, Turn, Kept, Whole, Waiting
  <2>2. CarefulInv'
    <3>1. TypeOK' /\ LastmapAgrees'
      BY <1>2 DEF vars, hackVars, heapVars, gameVars, history, CarefulInv, TypeOK,
                  LastmapAgrees, Whole
    <3> QED
      BY <1>2, <3>1 DEF vars, hackVars, heapVars, gameVars, history, CarefulInv, Whole
  <2> QED
    BY <2>1, <2>2
<1> QED
  BY <1>1, <1>2

LEMMA AbsInit == Init => Abs!Init
<1> SUFFICES ASSUME Init PROVE Abs!Init
  OBVIOUS
<1>1. Kept = [s \in UserSlots |-> Garbage]
  BY DEF Init, Kept, Whole
<1>2. Waiting = NoSlot
  BY DEF Init, Waiting
<1>3. live \in {c \in Abs!States : c.map = current_map}
  BY DEF Init, Abs!States, Contents
<1> QED
  BY <1>1, <1>2, <1>3, TurnType DEF Init, Abs!Init

\* A slot a careful user waits for is whole, the level that is up is the one
\* the map says, and no save runs over its area.
THEOREM CarefulAlways == ASSUME Fits PROVE CarefulSpec => []CarefulInv
<1>1. CarefulInv /\ [CarefulNext]_vars => CarefulInv'
  BY CarefulInvStep
<1> QED
  BY <1>1, CarefulInit, PTL DEF CarefulSpec

\* A careful user's hack keeps the promises of SaveSlots.
THEOREM CarefulImplements == ASSUME Fits PROVE CarefulSpec => KeepsPromises
<1>1. CarefulInv /\ [CarefulNext]_vars => CarefulInv' /\ [Abs!Next]_(Abs!vars)
  BY CarefulInvStep
<1> QED
  BY <1>1, CarefulInit, AbsInit, PTL DEF CarefulSpec, KeepsPromises, Abs!Spec
=============================================================================
