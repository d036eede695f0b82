-------------------------- MODULE FrameAdvanceProofs --------------------------
(***************************************************************************)
(* FrameAdvance keeps its types, and one press of a button has one effect. *)
(***************************************************************************)
EXTENDS FrameAdvance, TLAPS

\* All variables keep their types; in particular frame_advance, a u32, takes
\* the values 0, 1 and 2 only (logic.c:169, 308-320).
THEOREM TypesCorrect == Spec => []TypeOK
<1>1. Init => TypeOK
  BY PadAssumption DEF Init, TypeOK, PadTypeOK
<1>2. TypeOK /\ [Next]_vars => TypeOK'
  <2> SUFFICES ASSUME TypeOK, [Next]_vars PROVE TypeOK'
    OBVIOUS
  <2> USE PadAssumption DEF TypeOK, PadTypeOK, Spin, padVars
  <2>1. CASE Poll
    BY <2>1 DEF Poll
  <2>2. CASE Handlers
    BY <2>2 DEF Handlers
  <2>3. CASE StopGame
    <3>1. /\ frame_advance' = 2 /\ at' = "store CU"
          /\ freed' \subseteq freed
          /\ UNCHANGED <<held, last, heard>>
      BY <2>3, Zenon DEF StopGame
    <3> QED
      BY <3>1
  <2>4. CASE RunsOn
    BY <2>4 DEF RunsOn
  <2>5. CASE StoresStop
    BY <2>5 DEF StoresStop
  <2>6. CASE LoopEnds
    BY <2>6 DEF LoopEnds
  <2>7. CASE LetsFrame
    <3>1. /\ frame_advance' = 2 /\ at' = "leave"
          /\ freed' \subseteq freed
          /\ UNCHANGED <<held, last, heard>>
      BY <2>7, Zenon DEF LetsFrame
    <3> QED
      BY <3>1
  <2>8. CASE Keeps
    BY <2>8 DEF Keeps
  <2>9. CASE SeesCD
    BY <2>9 DEF SeesCD
  <2>10. CASE SeesCU
    BY <2>10 DEF SeesCU
  <2>11. CASE Resumes
    BY <2>11 DEF Resumes
  <2>12. CASE StoresInLoop
    BY <2>12 DEF StoresInLoop
  <2>13. CASE Leaves
    BY <2>13 DEF Leaves
  <2>14. CASE GameFrame
    BY <2>14 DEF GameFrame
  <2>15. CASE Intro
    BY <2>15 DEF Intro
  <2>16. CASE UNCHANGED vars
    BY <2>16 DEF vars
  <2> QED
    BY <2>1, <2>2, <2>3, <2>4, <2>5, <2>6, <2>7, <2>8, <2>9, <2>10,
       <2>11, <2>12, <2>13, <2>14, <2>15, <2>16 DEF Next, Hack
<1> QED
  BY <1>1, <1>2, PTL DEF Spec

-----------------------------------------------------------------------------
(* What has taken effect and is still down.                                *)

\* C-down that has had its effect and was not up since is still down, and
\* while it is, the loop does not get ready.
CDSpent ==
  "CD" \notin freed =>
    /\ "CD" \in held
    /\ frame_advance # 1
    /\ at # "released CU"

\* C-up that has had its effect and was not up since is still down.  While
\* it is, the loop does not get ready, and a frame that is left takes it
\* along in LAST_INPUT_2, where the next press is looked for.
CUSpent ==
  "CU" \notin freed =>
    /\ "CU" \in held
    /\ frame_advance # 1
    /\ at \in {"game", "handlers", "pressed CU"} => "CU" \in last

\* Buttons whose press was heard are still down, and in LAST_INPUT_2 when the
\* next frame begins.
HeardSpent ==
  /\ heard \subseteq held
  /\ at \in {"game", "handlers"} => heard \subseteq last

PressInv == TypeOK /\ CDSpent /\ CUSpent /\ HeardSpent

LEMMA PressInit == Init => PressInv
<1>1. Init => TypeOK
  BY PadAssumption DEF Init, TypeOK, PadTypeOK
<1>2. Init => CDSpent /\ CUSpent /\ HeardSpent
  BY DEF Init, CDSpent, CUSpent, HeardSpent, Buttons
<1> QED
  BY <1>1, <1>2 DEF PressInv

LEMMA TwoIsNotOne == 2 # 1
  OBVIOUS

LEMMA PressStep ==
  ASSUME PressInv, TypeOK', [Next]_vars
  PROVE  PressInv'
<1> USE DEF TypeOK, PadTypeOK, padVars, Down, Pressed, Buttons
<1>1. CDSpent'
  <2>1. CASE Poll
    BY <2>1 DEF PressInv, CDSpent, Poll
  <2>2. CASE Handlers
    BY <2>2 DEF PressInv, CDSpent, Handlers
  <2>3. CASE StopGame
    <3>1. /\ "CU" \in held /\ "CU" \notin last
          /\ frame_advance' # 1 /\ at' = "store CU"
          /\ "CD" \in freed => "CD" \in freed'
          /\ held' = held
      BY TwoIsNotOne, <2>3, Zenon DEF StopGame
    <3> QED
      BY <3>1, Zenon DEF PressInv, CDSpent
  <2>4. CASE RunsOn
    BY <2>4 DEF PressInv, CDSpent, RunsOn
  <2>5. CASE StoresStop
    BY <2>5 DEF PressInv, CDSpent, StoresStop
  <2>6. CASE LoopEnds
    BY <2>6 DEF PressInv, CDSpent, LoopEnds
  <2>7. CASE LetsFrame
    <3>1. /\ "CD" \in held
          /\ frame_advance = 1 /\ frame_advance' # 1 /\ at' = "leave"
          /\ "CU" \in freed => "CU" \in freed'
          /\ held' = held
      BY TwoIsNotOne, <2>7, Zenon DEF LetsFrame
    <3> QED
      BY <3>1, Zenon DEF PressInv, CDSpent
  <2>8. CASE Keeps
    BY <2>8 DEF PressInv, CDSpent, Keeps
  <2>9. CASE SeesCD
    BY <2>9 DEF PressInv, CDSpent, SeesCD
  <2>10. CASE SeesCU
    BY <2>10 DEF PressInv, CDSpent, SeesCU
  <2>11. CASE Resumes
    BY <2>11 DEF PressInv, CDSpent, Resumes
  <2>12. CASE StoresInLoop
    BY <2>12 DEF PressInv, CDSpent, StoresInLoop
  <2>13. CASE Leaves
    BY <2>13 DEF PressInv, CDSpent, Leaves
  <2>14. CASE GameFrame
    BY <2>14 DEF PressInv, CDSpent, GameFrame
  <2>15. CASE Intro
    BY <2>15 DEF PressInv, CDSpent, Intro
  <2>16. CASE UNCHANGED vars
    BY <2>16 DEF PressInv, CDSpent, vars
  <2> QED
    BY <2>1, <2>2, <2>3, <2>4, <2>5, <2>6, <2>7, <2>8, <2>9, <2>10,
       <2>11, <2>12, <2>13, <2>14, <2>15, <2>16 DEF Next, Hack
<1>2. CUSpent'
  <2>1. CASE Poll
    BY <2>1 DEF PressInv, CUSpent, Poll
  <2>2. CASE Handlers
    BY <2>2 DEF PressInv, CUSpent, Handlers
  <2>3. CASE StopGame
    <3>1. /\ "CU" \in held /\ "CU" \notin last
          /\ frame_advance' # 1 /\ at' = "store CU"
          /\ "CD" \in freed => "CD" \in freed'
          /\ held' = held
      BY TwoIsNotOne, <2>3, Zenon DEF StopGame
    <3> QED
      BY <3>1, Zenon DEF PressInv, CUSpent
  <2>4. CASE RunsOn
    BY <2>4 DEF PressInv, CUSpent, RunsOn
  <2>5. CASE StoresStop
    BY <2>5 DEF PressInv, CUSpent, StoresStop
  <2>6. CASE LoopEnds
    BY <2>6 DEF PressInv, CUSpent, LoopEnds
  <2>7. CASE LetsFrame
    <3>1. /\ "CD" \in held
          /\ frame_advance = 1 /\ frame_advance' # 1 /\ at' = "leave"
          /\ "CU" \in freed => "CU" \in freed'
          /\ held' = held
      BY TwoIsNotOne, <2>7, Zenon DEF LetsFrame
    <3> QED
      BY <3>1, Zenon DEF PressInv, CUSpent
  <2>8. CASE Keeps
    BY <2>8 DEF PressInv, CUSpent, Keeps
  <2>9. CASE SeesCD
    BY <2>9 DEF PressInv, CUSpent, SeesCD
  <2>10. CASE SeesCU
    BY <2>10 DEF PressInv, CUSpent, SeesCU
  <2>11. CASE Resumes
    BY <2>11 DEF PressInv, CUSpent, Resumes
  <2>12. CASE StoresInLoop
    BY <2>12 DEF PressInv, CUSpent, StoresInLoop
  <2>13. CASE Leaves
    BY <2>13 DEF PressInv, CUSpent, Leaves
  <2>14. CASE GameFrame
    BY <2>14 DEF PressInv, CUSpent, GameFrame
  <2>15. CASE Intro
    BY <2>15 DEF PressInv, CUSpent, Intro
  <2>16. CASE UNCHANGED vars
    BY <2>16 DEF PressInv, CUSpent, vars
  <2> QED
    BY <2>1, <2>2, <2>3, <2>4, <2>5, <2>6, <2>7, <2>8, <2>9, <2>10,
       <2>11, <2>12, <2>13, <2>14, <2>15, <2>16 DEF Next, Hack
<1>3. HeardSpent'
  <2>1. CASE Poll
    BY <2>1 DEF PressInv, HeardSpent, Poll
  <2>2. CASE Handlers
    BY <2>2 DEF PressInv, HeardSpent, Handlers
  <2>3. CASE StopGame
    BY <2>3 DEF PressInv, HeardSpent, StopGame
  <2>4. CASE RunsOn
    BY <2>4 DEF PressInv, HeardSpent, RunsOn
  <2>5. CASE StoresStop
    BY <2>5 DEF PressInv, HeardSpent, StoresStop
  <2>6. CASE LoopEnds
    BY <2>6 DEF PressInv, HeardSpent, LoopEnds
  <2>7. CASE LetsFrame
    BY <2>7 DEF PressInv, HeardSpent, LetsFrame
  <2>8. CASE Keeps
    BY <2>8 DEF PressInv, HeardSpent, Keeps
  <2>9. CASE SeesCD
    BY <2>9 DEF PressInv, HeardSpent, SeesCD
  <2>10. CASE SeesCU
    BY <2>10 DEF PressInv, HeardSpent, SeesCU
  <2>11. CASE Resumes
    BY <2>11 DEF PressInv, HeardSpent, Resumes
  <2>12. CASE StoresInLoop
    BY <2>12 DEF PressInv, HeardSpent, StoresInLoop
  <2>13. CASE Leaves
    BY <2>13 DEF PressInv, HeardSpent, Leaves
  <2>14. CASE GameFrame
    BY <2>14 DEF PressInv, HeardSpent, GameFrame
  <2>15. CASE Intro
    BY <2>15 DEF PressInv, HeardSpent, Intro
  <2>16. CASE UNCHANGED vars
    BY <2>16 DEF PressInv, HeardSpent, vars
  <2> QED
    BY <2>1, <2>2, <2>3, <2>4, <2>5, <2>6, <2>7, <2>8, <2>9, <2>10,
       <2>11, <2>12, <2>13, <2>14, <2>15, <2>16 DEF Next, Hack
<1> QED
  BY <1>1, <1>2, <1>3 DEF PressInv

LEMMA PressAlways == Spec => []PressInv
<1>1. PressInv /\ TypeOK' /\ [Next]_vars => PressInv'
  BY PressStep
<1> QED
  BY PressInit, TypesCorrect, <1>1, PTL DEF Spec

-----------------------------------------------------------------------------
\* One press of C-down lets one frame through (logic.c:310-313).
THEOREM OneFrame == Spec => OneFramePerPress
<1>1. PressInv /\ [Next]_vars =>
        (at = "spin" /\ at' = "leave" /\ frame_advance # 0 => "CD" \in freed)
  <2> SUFFICES ASSUME PressInv, [Next]_vars, at = "spin", at' = "leave",
                      frame_advance # 0
               PROVE  "CD" \in freed
    OBVIOUS
  <2>1. LetsFrame
    BY DEF Next, Hack, vars, Poll, Handlers, StopGame, RunsOn, StoresStop, LoopEnds,
           Keeps, SeesCD, SeesCU, Resumes, StoresInLoop, Leaves, GameFrame, Intro
  <2> QED
    BY <2>1, Zenon DEF LetsFrame, PressInv, CDSpent
<1> QED
  BY <1>1, PressAlways, PTL DEF Spec, OneFramePerPress

\* One press of C-up stops the game or lets it run, not both (logic.c:166-173,
\* 314-321).
THEOREM OneToggle == Spec => OneTogglePerPress
<1>1. PressInv /\ [Next]_vars =>
        ((at = "pressed CU" /\ at' = "store CU")
         \/ (at = "resumes" /\ frame_advance' # frame_advance)
           => "CU" \in freed)
  <2> SUFFICES ASSUME PressInv, [Next]_vars, "CU" \notin freed
               PROVE  /\ ~(at = "pressed CU" /\ at' = "store CU")
                      /\ ~(at = "resumes" /\ frame_advance' # frame_advance)
    OBVIOUS
  <2>1. frame_advance # 1 /\ (at = "pressed CU" => "CU" \in last)
    BY DEF PressInv, CUSpent
  <2>2. CASE at = "pressed CU"
    BY <2>1, <2>2 DEF Next, Hack, vars, Poll, Handlers, StopGame, RunsOn, StoresStop,
         LoopEnds, LetsFrame, Keeps, SeesCD, SeesCU, Resumes, StoresInLoop, Leaves,
         GameFrame, Intro, Pressed
  <2>3. CASE at = "resumes"
    BY <2>1, <2>3 DEF Next, Hack, vars, Poll, Handlers, StopGame, RunsOn, StoresStop,
         LoopEnds, LetsFrame, Keeps, SeesCD, SeesCU, Resumes, StoresInLoop, Leaves,
         GameFrame, Intro
  <2> QED
    BY <2>2, <2>3
<1> QED
  BY <1>1, PressAlways, PTL DEF Spec, OneTogglePerPress

\* No press is heard by the handlers of two frames (logic.c:193, 324).
THEOREM HeardOnce == Spec => PressHeardOnce
<1>1. PressInv => (at = "handlers" => heard \cap (held \ last) = {})
  BY DEF PressInv, HeardSpent
<1> QED
  BY <1>1, PressAlways, PTL DEF PressHeardOnce
=============================================================================
