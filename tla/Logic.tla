------------------------------- MODULE Logic -------------------------------
(***************************************************************************)
(* One frame of logic(): the menu, the message line, the flags, the timer  *)
(* and the pad, in that order, then the drawing and the game's own frame.  *)
(* Of what the menu and the pad can do, what speaks on the message line or *)
(* touches the timer or the stored position is here.                       *)
(***************************************************************************)
EXTENDS Timer

CONSTANTS
  Places,   \* where Glover and the camera can be
  Unset     \* what gpos_bac and gcam_bac hold before the first store

ASSUME LogicAssumption == Unset \notin Places

VARIABLES
  routine,   \* what runs next
  glover,    \* Glover's position and the camera; the ball is brought along
  lock_pos,
  gpos_bac,  \* and gcam_bac
  resumed,   \* history: an interrupted restore has come back in this frame
  said       \* history: what the player was told last in this frame, and by whom

posVars == <<glover, lock_pos, gpos_bac>>
vars == <<routine, timerVars, posVars, resumed, said>>

\* Mutant: logic() reads the pad before it counts the frame.
AfterPadFirst ==
  [external |-> "message", message |-> "flags", flags |-> "inputs",
   inputs |-> "timer", timer |-> "render", render |-> "game", game |-> "external"]

\* Mutant: the flags come last.
AfterFlagsLast ==
  [external |-> "message", message |-> "timer", timer |-> "inputs",
   inputs |-> "flags", flags |-> "render", render |-> "game", game |-> "external"]

After ==
  [external |-> "message", message |-> "flags", flags |-> "timer",
   timer |-> "inputs", inputs |-> "render", render |-> "game", game |-> "external"]

Goes(r) == routine = r /\ routine' = After[r]

Says(who, text) == Notify(text, MsgTime) /\ said' = <<who, text>>

-----------------------------------------------------------------------------
(* update_external: an entry of the menu, if any.                          *)

MenuIdle == UNCHANGED <<timerVars, posVars, said>>

\* Switching the lock stores where Glover is, whichever way it is switched.
LockPos ==
  /\ lock_pos' = ~lock_pos
  /\ gpos_bac' = glover
  /\ Says("menu", "saved")
  /\ UNCHANGED <<modeVars, countVars, glover>>

SavePos ==
  /\ gpos_bac' = glover
  /\ Says("menu", "saved")
  /\ UNCHANGED <<modeVars, countVars, glover, lock_pos>>

LoadPos ==
  /\ glover' = gpos_bac
  /\ Says("menu", "restored")
  /\ UNCHANGED <<modeVars, countVars, lock_pos, gpos_bac>>

\* The position is stored and restored: only the ball moves.
SummonBall ==
  /\ gpos_bac' = glover
  /\ Says("menu", "restored")
  /\ UNCHANGED <<modeVars, countVars, glover, lock_pos>>

MenuToggle ==
  /\ ToggleTimer
  /\ message' = Nothing /\ drawn' = 0
  /\ UNCHANGED <<msg_timer, modeVars, reset_now, timer_str, posVars, said>>

AutoTimer ==
  /\ auto_timer' = ~auto_timer
  /\ UNCHANGED <<use_igt, msgVars, countVars, posVars, said>>

UseIgt ==
  /\ use_igt' = ~use_igt
  /\ UNCHANGED <<auto_timer, msgVars, countVars, posVars, said>>

\* A savestate is saved, with its size or a warning, or restored.
MenuState ==
  /\ \E p \in Places \cup {glover} : glover' = p
  /\ Says("menu", "state")
  /\ UNCHANGED <<modeVars, countVars, lock_pos, gpos_bac>>

UpdateExternal ==
  /\ Goes("external")
  /\ \/ MenuIdle \/ LockPos \/ SavePos \/ LoadPos \/ SummonBall
     \/ MenuToggle \/ AutoTimer \/ UseIgt \/ MenuState
  /\ UNCHANGED resumed

-----------------------------------------------------------------------------
MessageStep ==
  /\ Goes("message")
  /\ UpdateMessage
  /\ UNCHANGED <<modeVars, countVars, posVars, resumed, said>>

\* The lock, then a restore that was waiting for its level.
UpdateFlags ==
  /\ Goes("flags")
  /\ resumed' \in BOOLEAN
  /\ IF resumed' THEN \E p \in Places : glover' = p
     ELSE glover' = (IF lock_pos THEN gpos_bac ELSE glover)
  /\ IF resumed' THEN Notify("state", MsgTime)
     ELSE IF lock_pos THEN Notify("restored", MsgTime)
     ELSE UNCHANGED msgVars
  /\ UNCHANGED <<modeVars, countVars, lock_pos, gpos_bac, said>>

TimerStep(g) ==
  /\ Goes("timer")
  /\ UpdateTimer(g)
  /\ UNCHANGED <<posVars, resumed, said>>

\* START with A, C-left, C-right, and with C-up or C-down, in this order.
UpdateInputs ==
  /\ Goes("inputs")
  /\ \E toggle, store, restore, state \in BOOLEAN :
       LET stored == IF store THEN glover ELSE gpos_bac
           text   == IF state THEN "state" ELSE IF restore THEN "restored"
                     ELSE IF store THEN "saved" ELSE Nothing
       IN
       /\ IF toggle THEN ToggleTimer ELSE UNCHANGED <<enable_timer, timer_frames>>
       /\ gpos_bac' = stored
       /\ IF state THEN \E p \in Places \cup {glover} : glover' = p
          ELSE glover' = (IF restore THEN stored ELSE glover)
       /\ IF text # Nothing THEN Says("pad", text)
          ELSE IF toggle
            THEN message' = Nothing /\ drawn' = 0 /\ said' = <<>> /\ UNCHANGED msg_timer
            ELSE UNCHANGED <<msgVars, said>>
  /\ UNCHANGED <<modeVars, reset_now, timer_str, lock_pos, resumed>>

-----------------------------------------------------------------------------
\* render() draws the message line once more; counted up to what matters.
Render ==
  /\ Goes("render")
  /\ drawn' = IF drawn < TimerTime + MsgTime THEN drawn + 1 ELSE drawn
  /\ UNCHANGED <<message, msg_timer, modeVars, countVars, posVars, resumed, said>>

\* Glover moves, or the intro comes: init_mem, after a console reset with
\* what the ROM holds behind the code.
GameFrame ==
  /\ Goes("game")
  /\ resumed' = FALSE /\ said' = <<>>
  /\ \E p \in Places : glover' = p
  /\ \/ UNCHANGED <<timerVars, lock_pos, gpos_bac>>
     \/ TimerIntro /\ lock_pos' = FALSE /\ UNCHANGED gpos_bac
     \/ (\E ones \in BOOLEAN : TimerBoots(Behind(ones))) /\ lock_pos' = FALSE /\ gpos_bac' = Unset

Init ==
  /\ routine = "external"
  /\ \E ones \in BOOLEAN : TimerInit(Behind(ones))
  /\ glover \in Places /\ lock_pos = FALSE /\ gpos_bac = Unset
  /\ resumed = FALSE /\ said = <<>>

CountStep == \E g \in Game : TimerStep(g)

Next ==
  \/ UpdateExternal \/ MessageStep \/ UpdateFlags \/ CountStep
  \/ UpdateInputs \/ Render \/ GameFrame

\* The hack and the game go on, and the game gives the controls back again
\* and again.
ControlStep == \E g \in Game : g.controls = "on" /\ TimerStep(g)

Spec == Init /\ [][Next]_vars /\ WF_vars(Next) /\ SF_vars(ControlStep)

-----------------------------------------------------------------------------
TypeOK ==
  /\ TimerTypeOK
  /\ routine \in DOMAIN After
  /\ lock_pos \in BOOLEAN /\ resumed \in BOOLEAN
  /\ glover \in Places \cup {Unset} /\ gpos_bac \in Places \cup {Unset}

\* What the player is told in answer to his pad is drawn in the same frame,
\* the timer running or not; what the menu says may be spoken over, but only
\* by a running timer, the lock or a restore that comes back (logic.c:219-227).
PlayerIsTold ==
  routine = "render" /\ said # <<>> =>
    \/ message = said[2]
    \/ said[1] = "menu" /\ (enable_timer \/ lock_pos \/ resumed)

\* A message is drawn for its time: MSG_TIME frames, and one more when it was
\* set behind update_message (logic.c:52-59).
DrawnItsTime ==
  [][routine = "message" /\ message \notin {Nothing, "wild"} /\ message' = Nothing
       => IF message = "timer" THEN drawn = TimerTime + 1
          ELSE drawn \in {MsgTime, MsgTime + 1}]_vars

\* A locked position does not drift: Glover is put back before the pad can
\* store where he was (logic.c:88, 139); only the menu stores another place,
\* and a restore that comes back in the frame.
LockHolds ==
  [][lock_pos /\ lock_pos' /\ gpos_bac' # gpos_bac
       => routine = "external" \/ resumed]_vars

\* A new text of the timer, read back, is the count before its own frame
\* (logic.c:249-277).
TextIsCount ==
  [][routine = "timer" /\ timer_str' # timer_str
       => TimeOf(timer_str') + 1 = timer_frames']_vars

\* The automatic restart leaves the timer running from the beginning, also
\* when the player has started it during the load (logic.c:236-238).
RestartRuns ==
  [][reset_now /\ ~reset_now' /\ routine = "timer"
       => enable_timer' /\ (use_igt \/ timer_frames' <= 1)]_vars

\* A fade restarts the timer once the controls are back, unless the automatic
\* timer is switched off meanwhile (logic.c:230-239).
RestartServed == reset_now ~> ~reset_now \/ ~auto_timer
=============================================================================
