--------------------------- MODULE FrameAdvance ---------------------------
(***************************************************************************)
(* Frame advance: C-up of controller 2 stops the game inside the hack,     *)
(* C-down lets one frame through, C-up again lets the game run (logic.c,   *)
(* update_inputs and frame_advance).  While the hack waits it spins on the *)
(* pad, which other threads of the game keep polling: it may change        *)
(* between any two reads, so every read of the loop is a step of its own.  *)
(***************************************************************************)
EXTENDS Pad, Naturals

VARIABLES
  at,             \* the next read or write of the hack, or "game"
  frame_advance,  \* gpatch.frame_advance: 0 off, 1 ready, 2 wait for release
  freed,          \* history: buttons that were up since they last had effect
  heard           \* history: buttons whose present press the handlers have seen

vars == <<padVars, at, frame_advance, freed, heard>>

Spin == {"spin", "released", "released CU", "resumes", "store"}

-----------------------------------------------------------------------------
(* The game polls the pad.                                                 *)

Poll ==
  /\ held' \in Pads \ {held}
  /\ freed' = freed \cup (Buttons \ held')
  /\ heard' = heard \cap held'
  /\ UNCHANGED <<last, at, frame_advance>>

-----------------------------------------------------------------------------
(* A frame of the hack up to the loop.                                     *)

\* update_external and what else waits for a press of controller 2.
Handlers ==
  /\ at = "handlers"
  /\ at' = "pressed CU"
  /\ heard' = heard \cup (held \ last)
  /\ UNCHANGED <<padVars, frame_advance, freed>>

\* Mutant: the press that stops the game is taken for the one that resumes.
StopGameReady ==
  /\ at = "pressed CU" /\ Pressed("CU")
  /\ frame_advance' = 1
  /\ freed' = freed \ {"CU"}
  /\ at' = "store CU"
  /\ UNCHANGED <<padVars, heard>>

\* "set to 2 to prevent double input"
StopGame ==
  /\ at = "pressed CU" /\ Pressed("CU")
  /\ frame_advance' = 2
  /\ freed' = freed \ {"CU"}
  /\ at' = "store CU"
  /\ UNCHANGED <<padVars, heard>>

RunsOn ==
  /\ at = "pressed CU" /\ ~Pressed("CU")
  /\ at' = "spin"
  /\ UNCHANGED <<padVars, frame_advance, freed, heard>>

StoresStop ==
  /\ at = "store CU"
  /\ last' = held
  /\ at' = "spin"
  /\ UNCHANGED <<held, frame_advance, freed, heard>>

-----------------------------------------------------------------------------
(* frame_advance()                                                         *)

LoopEnds ==
  /\ at = "spin" /\ frame_advance = 0
  /\ at' = "leave"
  /\ UNCHANGED <<padVars, frame_advance, freed, heard>>

\* Mutant: a frame is let through by a button that is still down.
LetsFrameAlways ==
  /\ at = "spin" /\ frame_advance # 0
  /\ Down("CD")
  /\ frame_advance' = 2
  /\ freed' = freed \ {"CD"}
  /\ at' = "leave"
  /\ UNCHANGED <<padVars, heard>>

LetsFrame ==
  /\ at = "spin"
  /\ Down("CD") /\ frame_advance = 1
  /\ frame_advance' = 2
  /\ freed' = freed \ {"CD"}
  /\ at' = "leave"
  /\ UNCHANGED <<padVars, heard>>

Keeps ==
  /\ at = "spin" /\ frame_advance # 0
  /\ ~(Down("CD") /\ frame_advance = 1)
  /\ at' = "released"
  /\ UNCHANGED <<padVars, frame_advance, freed, heard>>

\* Both buttons have to be up, but they are read one after the other.
SeesCD ==
  /\ at = "released"
  /\ at' = IF Down("CD") THEN "resumes" ELSE "released CU"
  /\ UNCHANGED <<padVars, frame_advance, freed, heard>>

\* Mutant: the loop never gets ready again.
SeesCUNeverReady ==
  /\ at = "released CU"
  /\ at' = IF Down("CU") THEN "resumes" ELSE "store"
  /\ UNCHANGED <<padVars, frame_advance, freed, heard>>

SeesCU ==
  /\ at = "released CU"
  /\ IF Down("CU") THEN at' = "resumes" /\ UNCHANGED frame_advance
                   ELSE at' = "store" /\ frame_advance' = 1
  /\ UNCHANGED <<padVars, freed, heard>>

Resumes ==
  /\ at = "resumes"
  /\ at' = "store"
  /\ IF Down("CU") /\ frame_advance = 1
       THEN frame_advance' = 0 /\ freed' = freed \ {"CU"}
       ELSE UNCHANGED <<frame_advance, freed>>
  /\ UNCHANGED <<padVars, heard>>

StoresInLoop ==
  /\ at = "store"
  /\ last' = held
  /\ at' = "spin"
  /\ UNCHANGED <<held, frame_advance, freed, heard>>

-----------------------------------------------------------------------------
\* Mutant: the frame is left without storing what was down.
LeavesUnstored ==
  /\ at = "leave"
  /\ at' = "game"
  /\ UNCHANGED <<padVars, frame_advance, freed, heard>>

Leaves ==
  /\ at = "leave"
  /\ last' = held
  /\ at' = "game"
  /\ UNCHANGED <<held, frame_advance, freed, heard>>

\* The game's own frame, and the next call of the hack.
GameFrame ==
  /\ at = "game"
  /\ at' = "handlers"
  /\ UNCHANGED <<padVars, frame_advance, freed, heard>>

\* A call in the intro: init_mem clears frame advance and the last inputs.
Intro ==
  /\ at = "game"
  /\ frame_advance' = 0 /\ last' = {}
  /\ freed' = Buttons /\ heard' = {}
  /\ UNCHANGED <<held, at>>

Hack ==
  \/ Handlers \/ StopGame \/ RunsOn \/ StoresStop
  \/ LoopEnds \/ LetsFrame \/ Keeps \/ SeesCD \/ SeesCU \/ Resumes \/ StoresInLoop
  \/ Leaves

Init ==
  /\ held \in Pads /\ last = {}
  /\ at = "handlers" /\ frame_advance = 0
  /\ freed = Buttons /\ heard = {}

Next == Poll \/ Hack \/ GameFrame \/ Intro

\* The processor goes on with the hack; nobody has to touch the pad, and the
\* game need not come back.
Spec == Init /\ [][Next]_vars /\ WF_vars(Hack)

-----------------------------------------------------------------------------
TypeOK ==
  /\ PadTypeOK
  /\ at \in Spin \cup {"handlers", "pressed CU", "store CU", "leave", "game"}
  /\ frame_advance \in {0, 1, 2}
  /\ freed \subseteq Buttons /\ heard \subseteq Buttons

\* One press of C-down lets one frame through, however long it lasts and
\* wherever in the loop it begins: before the next frame the button was up
\* (logic.c:310-313).
OneFramePerPress ==
  [][at = "spin" /\ at' = "leave" /\ frame_advance # 0 => "CD" \in freed]_vars

\* The press of C-up that stops the game does not let it run again, nor the
\* other way round: between any two changes by C-up it was up ("set to 2 to
\* prevent double input", logic.c:169).
OneTogglePerPress ==
  [][(at = "pressed CU" /\ at' = "store CU")
     \/ (at = "resumes" /\ frame_advance' # frame_advance)
       => "CU" \in freed]_vars

\* The handlers see a press of any button at most once, also when the
\* loop spins between two frames (logic.c:193, 324).
PressHeardOnce ==
  [][at = "handlers" => heard \cap (held \ last) = {}]_vars

\* In the loop and ready, C-down held is answered by a frame; buttons left
\* alone make the loop ready; so nothing but the user keeps the game stopped.
SpinAnswers ==
  /\ at \in Spin /\ frame_advance = 1 /\ Down("CD")
       ~> at \notin Spin \/ ~Down("CD")
  /\ at \in Spin /\ ~Down("CD") /\ ~Down("CU")
       ~> at \notin Spin \/ frame_advance = 1 \/ Down("CD") \/ Down("CU")
=============================================================================
