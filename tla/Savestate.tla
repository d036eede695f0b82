----------------------------- MODULE Savestate -----------------------------
(***************************************************************************)
(* The savestates of the practice hack: actor backups in the expansion     *)
(* RAM, the restore that has to load another level first, and the selected *)
(* slot that the menu edits and controller 1 uses.                         *)
(*                                                                         *)
(* The hack is one thread, called once per game frame (payload.s), so a    *)
(* behaviour is a cycle of phases: the menu, the resume of an interrupted  *)
(* restore, controller 1's save, controller 1's restore, and one frame of  *)
(* the game itself.  The order is that of logic() (logic.c:198).  Buttons  *)
(* are free in every frame and the menu's cursor may stand on any entry of *)
(* its page: the time it takes to walk there is abstracted.                *)
(***************************************************************************)
EXTENDS Integers

CONSTANTS
  Maps,             \* level ids CURRENT_MAP takes outside the 0xFF intro
  Data,             \* contents the actors of a level can have
  Garbage,          \* memory that is not one whole backup
  NoMap,            \* no LOAD_MAP is outstanding
  MaxRestoreSlots,  \* MAX_RESTORE_SLOTS: last actor slot, all bits set
  SlotValues,       \* number of values of the u16 restore_slot
  ResumeDelay,      \* frames an interrupted restore waits, 60
  HeapSize,         \* ACTOR_HEAP_SIZE, the words between two backup areas
  Lens,             \* words one clone_actors may write
  BankLens          \* words one clone_obj_bank may write

BankSlot  == MaxRestoreSlots + 1
Slots     == 0..SlotValues - 1
UserSlots == 0..MaxRestoreSlots
NoSlot    == -1
Contents  == [map : Maps, data : Data]

ASSUME SlotAssumption ==
  /\ MaxRestoreSlots \in Nat
  /\ SlotValues \in Nat
  /\ SlotValues > MaxRestoreSlots + 2

ASSUME ContentAssumption ==
  /\ Maps # {} /\ Data # {}
  /\ NoMap \notin Maps
  /\ Garbage \notin Contents

ASSUME SizeAssumption ==
  /\ ResumeDelay \in Nat
  /\ HeapSize \in Nat \ {0}
  /\ Lens \subseteq Nat \ {0}
  /\ BankLens \subseteq Nat \ {0}

VARIABLES
  pc,              \* the phase of the frame that runs next
  page,            \* which menu the handlers pactions / pupdate belong to
  restore_slot,    \* gpatch.restore_slot
  resume_restore,  \* gpatch.resume_restore
  resume_timer,    \* gpatch.resume_timer
  lastmap,         \* lastmap[]: the level each area was cloned in
  heap,            \* the backup areas from ACTOR_HEAP_CLONE on
  current_map,     \* game: CURRENT_MAP
  pending_map,     \* game: the level LOAD_MAP was last called with
  fading,          \* game: FADE_TIMER is not zero
  live,            \* game: the actors in memory and their level
  recorded,        \* history: areas cloned since lastmap[] was last wiped
  asked,           \* history: slot of the interrupted restore, or NoSlot
  disturbed        \* history: the user or the game changed course since

hackVars == <<page, restore_slot, resume_restore, resume_timer>>
heapVars == <<lastmap, heap, recorded>>
gameVars == <<current_map, pending_map, fading, live>>
history  == <<asked, disturbed>>
vars == <<pc, hackVars, heapVars, gameVars, history>>

-----------------------------------------------------------------------------
(* The backup areas.                                                       *)

\* The pointer ACTOR_HEAP_CLONE + ACTOR_HEAP_SIZE * slot wraps in 32 bits:
\* the largest u16 lands one area below slot 0.
Area(slot) == IF slot = SlotValues - 1 THEN -1 ELSE slot

\* Mutant: the stride of the areas is halved, as if in bytes and not words.
ClobbersHalfStride(slot, len, area) ==
  /\ area > Area(slot)
  /\ 2 * len > (area - Area(slot)) * HeapSize

\* What a clone of len words at slot does to another area: it writes over
\* its start, or it takes the tail of the backup that area's clone left.
Clobbers(slot, len, area) ==
  \/ /\ area > Area(slot)
     /\ len > (area - Area(slot)) * HeapSize
  \/ /\ area < Area(slot)
     /\ heap[area].len > (Area(slot) - area) * HeapSize

WriteHeap(slot, len) ==
  heap' = [a \in 0..BankSlot |->
            IF a = slot THEN [content |-> live, len |-> len]
            ELSE IF Clobbers(slot, len, a) THEN [content |-> Garbage, len |-> 0]
            ELSE heap[a]]

\* What a restore finds.  Outside the areas it is memory of something else,
\* unless a clone went there before: any content.
ReadHeap(slot) ==
  IF slot \in 0..BankSlot THEN {heap[slot].content} ELSE Contents \cup {Garbage}

\* A backup is a list of addresses with what to copy there.  In a level it
\* was not taken in, that destroys whatever those addresses hold now.
Copied(content) ==
  IF content # Garbage /\ content.map = current_map THEN content ELSE Garbage

\* lastmap[slot] past the end of the array reads a byte of something else.
ReadLastmap(slot) == IF slot \in 0..BankSlot THEN {lastmap[slot]} ELSE Maps

\* Mutant: the level is not recorded.
WriteLastmapForgotten(slot) == UNCHANGED lastmap

WriteLastmap(slot) ==
  lastmap' = [s \in 0..BankSlot |-> IF s = slot THEN current_map ELSE lastmap[s]]

\* History only: from here on lastmap[slot] tells the level of this backup.
Records(slot) == recorded' = recorded \cup ({slot} \cap (0..BankSlot))

\* A whole backup that lastmap[] knows of.
Whole(slot) == slot \in recorded /\ heap[slot].content # Garbage

-----------------------------------------------------------------------------
(* The two operations on a slot.                                           *)

\* History only: an interrupted restore is waiting and this crosses it.
Disturbs(cross) == disturbed' = (disturbed \/ (asked # NoSlot /\ cross))

\* "War: Sate oob!" instead of "bytes stored!".  The check runs after all is
\* written, on the pointer of the last word: len - 1.
OutOfBounds(len) == len - 1 > HeapSize

CloneActors(slot) ==
  /\ WriteLastmap(slot)
  /\ Records(slot)
  /\ \E len \in Lens : WriteHeap(slot, len)
  /\ Disturbs(slot = asked)
  /\ UNCHANGED <<resume_restore, resume_timer, gameVars, asked>>

CloneObjBank ==
  /\ WriteLastmap(BankSlot)
  /\ Records(BankSlot)
  /\ \E len \in BankLens : WriteHeap(BankSlot, len)
  /\ UNCHANGED <<resume_restore, resume_timer, gameVars, history>>

\* Mutant: the last slot is left out of the comparison.
NeedsMapOffByOne(slot) ==
  /\ slot < MaxRestoreSlots
  /\ \E map \in ReadLastmap(slot) : map # current_map

NeedsMap(slot) ==
  /\ slot <= MaxRestoreSlots
  /\ \E map \in ReadLastmap(slot) : map # current_map

\* Mutant: the delay is not started again.
RestoreLaterNoReset(slot) ==
  /\ NeedsMap(slot)
  /\ resume_restore' = TRUE
  /\ pending_map' = lastmap[slot]
  /\ asked' = slot
  /\ disturbed' = FALSE
  /\ UNCHANGED <<resume_timer, heapVars, current_map, fading, live>>

RestoreLater(slot) ==
  /\ NeedsMap(slot)
  /\ resume_restore' = TRUE
  /\ resume_timer' = 0
  /\ pending_map' = lastmap[slot]
  /\ asked' = slot
  /\ disturbed' = FALSE
  /\ UNCHANGED <<heapVars, current_map, fading, live>>

\* Mutant: a restore leaves the resume armed.
RestoreNowStillArmed(slot) ==
  /\ ~ NeedsMap(slot)
  /\ \E content \in ReadHeap(slot) : live' = Copied(content)
  /\ asked' = asked
  /\ Disturbs(slot # asked)
  /\ UNCHANGED <<resume_restore, heapVars, current_map, pending_map, fading>>

RestoreNow(slot) ==
  /\ ~ NeedsMap(slot)
  /\ resume_restore' = FALSE
  /\ \E content \in ReadHeap(slot) : live' = Copied(content)
  /\ IF slot = asked
       THEN asked' = NoSlot /\ disturbed' = FALSE
       ELSE Disturbs(TRUE) /\ UNCHANGED asked
  /\ UNCHANGED <<heapVars, current_map, pending_map, fading>>

RestoreActors(slot) ==
  \/ RestoreLater(slot)
  \/ RestoreNow(slot) /\ UNCHANGED resume_timer

\* LOAD_MAP from the menu or a level exit: the last caller wins.
LoadMap(map) ==
  /\ pending_map' = map
  /\ Disturbs(TRUE)

-----------------------------------------------------------------------------
(* update_menu.  START opens or closes the menu before anything else, so   *)
(* in any frame it may be closed, or open, whatever it was before.         *)

\* Mutant: the slot is shown and not masked.
MaskedNot == restore_slot

Masked == restore_slot % (MaxRestoreSlots + 1)

\* One up and one down in a u16.
Above(slot) == IF slot = SlotValues - 1 THEN 0 ELSE slot + 1
Below(slot) == IF slot = 0 THEN SlotValues - 1 ELSE slot - 1

EnterMenu == pc = "menu" /\ pc' = "flags"

MenuIdle ==
  /\ EnterMenu
  /\ UNCHANGED <<hackVars, heapVars, gameVars, history>>

\* main_menu_update masks the slot before the button is looked at.
MainMenu(slot) ==
  /\ EnterMenu
  /\ page = "main"
  /\ restore_slot' = slot

MainMenuIdle ==
  /\ MainMenu(Masked)
  /\ page' \in {"main", "other", "move"}
  /\ Disturbs(restore_slot' # restore_slot)
  /\ UNCHANGED <<resume_restore, resume_timer, heapVars, gameVars, asked>>

MainMenuChangesSlot ==
  /\ MainMenu(Above(Masked)) \/ MainMenu(Below(Masked))
  /\ Disturbs(TRUE)
  /\ UNCHANGED <<page, resume_restore, resume_timer, heapVars, gameVars, asked>>

MainMenuSaves   == MainMenu(Masked) /\ CloneActors(Masked) /\ UNCHANGED page
MainMenuLoads   == MainMenu(Masked) /\ RestoreActors(Masked) /\ UNCHANGED page

OtherMenuBack ==
  /\ EnterMenu
  /\ page # "main"
  /\ page' = "main"
  /\ UNCHANGED <<restore_slot, resume_restore, resume_timer, heapVars, gameVars, history>>

OtherMenuLoadsMap ==
  /\ EnterMenu
  /\ page = "other"
  /\ \E map \in Maps : LoadMap(map)
  /\ UNCHANGED <<hackVars, heapVars, current_map, fading, live, asked>>

MoveMenuSavesBank ==
  /\ EnterMenu
  /\ page = "move"
  /\ CloneObjBank
  /\ UNCHANGED <<page, restore_slot>>

MoveMenuLoadsBank ==
  /\ EnterMenu
  /\ page = "move"
  /\ RestoreActors(BankSlot)
  /\ UNCHANGED <<page, restore_slot>>

UpdateMenu ==
  \/ MenuIdle
  \/ MainMenuIdle
  \/ MainMenuChangesSlot
  \/ MainMenuSaves
  \/ MainMenuLoads
  \/ OtherMenuBack
  \/ OtherMenuLoadsMap
  \/ MoveMenuSavesBank
  \/ MoveMenuLoadsBank

-----------------------------------------------------------------------------
(* update_flags: the resume of an interrupted restore.                     *)

EnterFlags == pc = "flags" /\ pc' = "save"

\* Mutant: the level is not looked at.
ResumeAnywhere ==
  /\ resume_restore
  /\ ~ fading

ResumeInPlace ==
  /\ resume_restore
  /\ ~ fading
  /\ current_map \in ReadLastmap(restore_slot)

ResumeAbsent ==
  /\ EnterFlags
  /\ \/ ~ resume_restore
     \/ fading
     \/ \E map \in ReadLastmap(restore_slot) : map # current_map
  /\ UNCHANGED <<hackVars, heapVars, gameVars, history>>

\* Mutant: the counter is compared and never advanced.
ResumeCountsStuck ==
  /\ EnterFlags
  /\ ResumeInPlace
  /\ resume_timer <= ResumeDelay
  /\ UNCHANGED <<hackVars, heapVars, gameVars, history>>

ResumeCounts ==
  /\ EnterFlags
  /\ ResumeInPlace
  /\ resume_timer <= ResumeDelay
  /\ resume_timer' = resume_timer + 1
  /\ UNCHANGED <<page, restore_slot, resume_restore, heapVars, gameVars, history>>

Resumes ==
  /\ EnterFlags
  /\ ResumeInPlace
  /\ resume_timer > ResumeDelay
  /\ resume_timer' = resume_timer + 1
  /\ RestoreNow(restore_slot)
  /\ UNCHANGED <<page, restore_slot>>

UpdateFlags == ResumeAbsent \/ ResumeCounts \/ Resumes

-----------------------------------------------------------------------------
(* update_inputs: START with C-up saves, then START with C-down restores,  *)
(* each on the selected slot as it is.                                     *)

PadIdle(from, to) ==
  /\ pc = from
  /\ pc' = to
  /\ UNCHANGED <<hackVars, heapVars, gameVars, history>>

PadSaves ==
  /\ pc = "save"
  /\ pc' = "load"
  /\ CloneActors(restore_slot)
  /\ UNCHANGED <<page, restore_slot>>

PadLoads ==
  /\ pc = "load"
  /\ pc' = "game"
  /\ RestoreActors(restore_slot)
  /\ UNCHANGED <<page, restore_slot>>

UpdateInputs ==
  \/ PadIdle("save", "load")
  \/ PadSaves
  \/ PadIdle("load", "game")
  \/ PadLoads

-----------------------------------------------------------------------------
(* One frame of the game, outside the hack: modelled from the addresses    *)
(* the hack reads and the two entry points it calls.                       *)

EnterGame == pc = "game" /\ pc' = "menu"

GamePlays ==
  /\ EnterGame
  /\ IF live = Garbage
       THEN live' = Garbage
       ELSE \E d \in Data : live' = [live EXCEPT !.data = d]
  /\ UNCHANGED <<hackVars, heapVars, current_map, pending_map, fading, history>>

GameFades ==
  /\ EnterGame
  /\ ~ fading
  /\ fading' = TRUE
  /\ UNCHANGED <<hackVars, heapVars, current_map, pending_map, live, history>>

GameFadeEnds ==
  /\ EnterGame
  /\ fading
  /\ fading' = FALSE
  /\ UNCHANGED <<hackVars, heapVars, current_map, pending_map, live, history>>

\* The player walks through a level exit, dies on the last life, quits...
GameLeaves ==
  /\ EnterGame
  /\ \E map \in Maps : LoadMap(map)
  /\ UNCHANGED <<hackVars, heapVars, current_map, fading, live, asked>>

GameLoads ==
  /\ EnterGame
  /\ pending_map # NoMap
  /\ current_map' = pending_map
  /\ pending_map' = NoMap
  /\ fading' = TRUE
  /\ live' \in {c \in Contents : c.map = pending_map}
  /\ UNCHANGED <<hackVars, heapVars, history>>

\* A console reset copies the hack from the ROM again (entry.s): what lies
\* behind the code there lands on lastmap[], and not on the backup areas.
Wiped ==
  /\ lastmap' \in [0..BankSlot -> Maps]
  /\ recorded' = {}
  /\ UNCHANGED heap

\* The intro, map 0xFF, with or without a console reset, makes __start run
\* init_mem, which knows nothing of lastmap[] and of the backup areas.
Reset ==
  /\ EnterGame
  /\ page' = "main"
  /\ restore_slot' = 0
  /\ resume_restore' = FALSE
  /\ current_map' \in Maps
  /\ live' \in {c \in Contents : c.map = current_map'}
  /\ pending_map' = NoMap
  /\ fading' = TRUE
  /\ asked' = NoSlot
  /\ disturbed' = FALSE
  /\ Wiped \/ UNCHANGED heapVars
  /\ UNCHANGED resume_timer

Game ==
  \/ GamePlays
  \/ GameFades
  \/ GameFadeEnds
  \/ GameLeaves
  \/ GameLoads
  \/ Reset

-----------------------------------------------------------------------------
\* lastmap[] and the areas are not initialised by the hack: any level ids,
\* and garbage.  resume_timer is written before it is first read.
Init ==
  /\ pc = "menu"
  /\ page = "main"
  /\ restore_slot = 0
  /\ resume_restore = FALSE
  /\ resume_timer = 0
  /\ lastmap \in [0..BankSlot -> Maps]
  /\ heap = [a \in 0..BankSlot |-> [content |-> Garbage, len |-> 0]]
  /\ recorded = {}
  /\ current_map \in Maps
  /\ pending_map = NoMap
  /\ fading = TRUE
  /\ live \in {c \in Contents : c.map = current_map}
  /\ asked = NoSlot
  /\ disturbed = FALSE

Next == UpdateMenu \/ UpdateFlags \/ UpdateInputs \/ Game

Spec == Init /\ [][Next]_vars

-----------------------------------------------------------------------------
(* Properties.                                                             *)

\* Every variable holds a value of its type.  Of the 2^16 values of
\* restore_slot only the slots, the object bank's and the one below zero
\* occur: the menu moves by one from a masked value (menu.c:90, menu.c:107).
\* resume_timer never comes near the end of its u8.
TypeOK ==
  /\ pc \in {"menu", "flags", "save", "load", "game"}
  /\ page \in {"main", "other", "move"}
  /\ restore_slot \in (0..BankSlot) \cup {SlotValues - 1}
  /\ resume_restore \in BOOLEAN
  /\ resume_timer \in 0..(IF resume_restore THEN ResumeDelay + 1 ELSE ResumeDelay + 2)
  /\ lastmap \in [0..BankSlot -> Maps]
  /\ heap \in [0..BankSlot -> [content : Contents \cup {Garbage}, len : Nat]]
  /\ recorded \subseteq 0..BankSlot
  /\ current_map \in Maps
  /\ pending_map \in Maps \cup {NoMap}
  /\ fading \in BOOLEAN
  /\ live \in Contents \cup {Garbage}
  /\ asked \in UserSlots \cup {NoSlot}
  /\ disturbed \in BOOLEAN

\* The level restore_actors compares with (logic.c:605) is the level of what
\* the area holds, for every area that holds a whole backup: after saves
\* into any slot, oversized ones, object bank copies, level changes, the
\* intro.  After a console reset it holds again from the next save on.
LastmapAgrees ==
  \A s \in 0..BankSlot : Whole(s) => heap[s].content.map = lastmap[s]

\* Actors in memory are those of the level that is up, or destroyed.
LiveAgrees == live # Garbage => live.map = current_map

\* A restore from a slot of the user's that holds a whole backup never
\* destroys the level it runs in, by the menu, by the pad or resumed, at
\* any distance from the save (logic.c:112, logic.c:605).  What is left are
\* slots nothing was saved in since the console was reset, slots off the
\* ends, and the object bank.
LevelStaysWhole ==
  [][(live # Garbage /\ live' = Garbage) =>
       \/ restore_slot' \notin UserSlots
       \/ ~ Whole(restore_slot')
       \/ page = "move" /\ pc = "menu"]_vars

\* What the menu saves or loads is always one of the user's slots: in a
\* frame that shows the main menu the mask comes first (mainmenu.c:141).
MenuSlotInRange ==
  [][(pc = "menu" /\ page = "main" /\ <<heap, lastmap, live>>' # <<heap, lastmap, live>>)
       => restore_slot' \in UserSlots]_vars

\* Levels small enough for the areas.  The object bank may take more: no
\* area follows it.
Fits == \A len \in Lens : len <= HeapSize

\* A clone of a level that fits its area, in any slot the code can be made
\* to use, changes no other slot (logic.c:431).
SaveTouchesOneSlot ==
  [][\A s \in UserSlots : heap'[s] # heap[s] => s = restore_slot']_vars

ClonesActors ==
  /\ pc \in {"menu", "save"}
  /\ heap' # heap
  /\ ~ (pc = "menu" /\ page = "move")
  /\ restore_slot' \in UserSlots

\* "bytes stored!" is shown only when the backup ended before the next area
\* began; otherwise it is "War: Sate oob!" (logic.c:511).
StoredFits ==
  [][(ClonesActors /\ ~ OutOfBounds(heap'[restore_slot'].len))
       => \A s \in restore_slot' + 1..BankSlot : heap'[s] = heap[s]]_vars

\* A restore that had to load its level first is completed, unless the user
\* or the game crosses it: the level comes up, the fade ends, the delay
\* runs out (logic.c:110-118).
RestoreServed ==
  (asked # NoSlot /\ ~ disturbed) ~> (asked = NoSlot \/ disturbed)

\* "see if restore was interrupted" (logic.c:109): what is resumed is the
\* restore that was interrupted.
ResumesAsked == [][Resumes => restore_slot = asked]_vars
=============================================================================
