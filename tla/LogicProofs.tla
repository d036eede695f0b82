---------------------------- MODULE LogicProofs ----------------------------
(***************************************************************************)
(* Who is heard in a frame, how long, and what a lock and the automatic    *)
(* timer hold to, for any times, places and counts.                        *)
(***************************************************************************)
EXTENDS Logic, NumbersProofs

\* The steps of a frame, one after the other.
LEMMA AfterIs ==
  /\ After["external"] = "message" /\ After["message"] = "flags"
  /\ After["flags"] = "timer" /\ After["timer"] = "inputs"
  /\ After["inputs"] = "render" /\ After["render"] = "game"
  /\ After["game"] = "external"
  BY DEF After

-----------------------------------------------------------------------------
(* The locked position.                                                    *)

\* From the flags to the pad Glover stands where the lock has put him.
LockOK == routine \in {"timer", "inputs"} /\ lock_pos /\ ~resumed => glover = gpos_bac

LEMMA LockStep ==
  ASSUME LockOK, [Next]_vars
  PROVE  /\ LockOK'
         /\ lock_pos /\ lock_pos' /\ gpos_bac' # gpos_bac => routine = "external" \/ resumed
<1>1. CASE UpdateExternal
  BY <1>1, AfterIs DEF UpdateExternal, Goes, LockOK
<1>2. CASE MessageStep
  BY <1>2, AfterIs DEF MessageStep, Goes, LockOK, posVars
<1>3. CASE UpdateFlags
  BY <1>3, AfterIs DEF UpdateFlags, Goes, LockOK
<1>4. CASE CountStep
  BY <1>4, AfterIs DEF CountStep, TimerStep, Goes, LockOK, posVars
<1>5. CASE UpdateInputs
  <2>1. routine = "inputs" /\ routine' = "render" /\ UNCHANGED lock_pos
    BY <1>5, AfterIs DEF UpdateInputs, Goes
  <2>2. gpos_bac' \in {glover, gpos_bac}
    BY <1>5 DEF UpdateInputs
  <2> QED
    BY <2>1, <2>2 DEF LockOK
<1>6. CASE Render
  BY <1>6, AfterIs DEF Render, Goes, LockOK, posVars
<1>7. CASE GameFrame
  BY <1>7, AfterIs DEF GameFrame, Goes, LockOK
<1>8. CASE UNCHANGED vars
  BY <1>8 DEF vars, posVars, LockOK
<1> QED
  BY <1>1, <1>2, <1>3, <1>4, <1>5, <1>6, <1>7, <1>8 DEF Next

\* A locked position changes only by the menu, or with a restore that comes
\* back in that frame.
THEOREM LocksHold == Spec => LockHolds
<1>1. Init => LockOK
  BY DEF Init, LockOK
<1>2. LockOK /\ [Next]_vars => LockOK'
  BY LockStep
<1>3. LockOK /\ [Next]_vars
        => [lock_pos /\ lock_pos' /\ gpos_bac' # gpos_bac
              => routine = "external" \/ resumed]_vars
  BY LockStep
<1> QED
  BY <1>1, <1>2, <1>3, PTL DEF Spec, LockHolds

-----------------------------------------------------------------------------
(* The automatic restart.                                                  *)

LEMMA RestartStep ==
  ASSUME [Next]_vars, reset_now, ~reset_now', routine = "timer"
  PROVE  enable_timer' /\ (use_igt \/ timer_frames' <= 1)
<1>1. PICK g \in Game : TimerStep(g)
  BY DEF Next, UpdateExternal, MessageStep, UpdateFlags, CountStep, UpdateInputs, Render,
         GameFrame, Goes, vars, timerVars, countVars
<1>2. reset_now' = (~Restarts(g).restart /\ (reset_now \/ FadeSeen(g)))
  BY <1>1 DEF TimerStep, UpdateTimer
<1>3. Restarts(g).restart
  BY <1>2
<1>4. Restarts(g).enable /\ auto_timer
  BY <1>3 DEF Restarts
<1>5. enable_timer'
  BY <1>1, <1>4 DEF TimerStep, UpdateTimer
<1>6. ~use_igt => timer_frames' \in {0, 0 + 1}
  BY <1>1, <1>3, <1>4 DEF TimerStep, UpdateTimer
<1> QED
  BY <1>5, <1>6

\* The restart leaves the timer running, from 0 unless it shows the game's.
THEOREM RestartsRun == Spec => RestartRuns
<1>1. [Next]_vars => [reset_now /\ ~reset_now' /\ routine = "timer"
                        => enable_timer' /\ (use_igt \/ timer_frames' <= 1)]_vars
  BY RestartStep
<1> QED
  BY <1>1, PTL DEF Spec, RestartRuns

-----------------------------------------------------------------------------
(* Who is heard.                                                           *)

ByMenu == said[1] = "menu"
Heard  == message = said[2]

\* What the menu said stands until the lock, a restore or the timer speaks;
\* the pad speaks last.
SaidOK ==
  /\ routine = "external" => said = <<>>
  /\ routine = "message" /\ said # <<>> => ByMenu /\ Heard /\ msg_timer = MsgTime
  /\ routine = "flags" /\ said # <<>> => ByMenu /\ Heard
  /\ routine = "timer" /\ said # <<>> => ByMenu /\ (Heard \/ lock_pos \/ resumed)
  /\ routine = "inputs" /\ said # <<>>
       => ByMenu /\ (Heard \/ enable_timer \/ lock_pos \/ resumed)
  /\ PlayerIsTold

LEMMA ExternalSays ==
  ASSUME SaidOK, UpdateExternal
  PROVE  routine' = "message" /\ (said' # <<>> => ByMenu' /\ Heard' /\ msg_timer' = MsgTime)
<1>1. routine = "external" /\ routine' = "message" /\ said = <<>>
  BY AfterIs DEF UpdateExternal, Goes, SaidOK
<1>2. CASE UNCHANGED said
  BY <1>1, <1>2
<1>3. ASSUME NEW text, Says("menu", text)
      PROVE  ByMenu' /\ Heard' /\ msg_timer' = MsgTime
  BY <1>3 DEF Says, Notify, ByMenu, Heard
<1> QED
  BY <1>1, <1>2, <1>3 DEF UpdateExternal, MenuIdle, LockPos, SavePos, LoadPos, SummonBall,
                          MenuToggle, AutoTimer, UseIgt, MenuState

LEMMA SaidStep == ASSUME SaidOK, [Next]_vars PROVE SaidOK'
<1>1. CASE UpdateExternal
  BY <1>1, ExternalSays DEF SaidOK, PlayerIsTold
<1>2. CASE MessageStep
  <2>1. routine = "message" /\ routine' = "flags" /\ UNCHANGED said
    BY <1>2, AfterIs DEF MessageStep, Goes
  <2>2. said # <<>> => UNCHANGED message
    BY <1>2, <2>1, TimerAssumption DEF MessageStep, UpdateMessage, SaidOK
  <2> QED
    BY <2>1, <2>2 DEF SaidOK, ByMenu, Heard, PlayerIsTold
<1>3. CASE UpdateFlags
  <2>1. routine = "flags" /\ routine' = "timer" /\ UNCHANGED <<said, lock_pos>>
    BY <1>3, AfterIs DEF UpdateFlags, Goes
  <2>2. resumed' \/ lock_pos \/ UNCHANGED message
    BY <1>3 DEF UpdateFlags, msgVars
  <2> QED
    BY <2>1, <2>2 DEF SaidOK, ByMenu, Heard, PlayerIsTold
<1>4. CASE CountStep
  <2>1. routine = "timer" /\ routine' = "inputs" /\ UNCHANGED <<said, lock_pos, resumed>>
    BY <1>4, AfterIs DEF CountStep, TimerStep, Goes, posVars
  <2>2. enable_timer' \/ UNCHANGED message
    BY <1>4 DEF CountStep, TimerStep, UpdateTimer, msgVars
  <2> QED
    BY <2>1, <2>2 DEF SaidOK, ByMenu, Heard, PlayerIsTold
<1>5. CASE UpdateInputs
  <2>1. routine = "inputs" /\ routine' = "render" /\ UNCHANGED <<lock_pos, resumed>>
    BY <1>5, AfterIs DEF UpdateInputs, Goes
  <2>2. \/ \E text : Says("pad", text)
        \/ said' = <<>>
        \/ UNCHANGED <<said, message, enable_timer>>
    BY <1>5 DEF UpdateInputs, msgVars
  <2>3. ASSUME NEW text, Says("pad", text) PROVE message' = said'[2]
    BY <2>3 DEF Says, Notify
  <2> QED
    BY <2>1, <2>2, <2>3 DEF SaidOK, ByMenu, Heard, PlayerIsTold
<1>6. CASE Render
  BY <1>6, AfterIs DEF Render, Goes, SaidOK, PlayerIsTold
<1>7. CASE GameFrame
  BY <1>7, AfterIs DEF GameFrame, Goes, SaidOK, PlayerIsTold
<1>8. CASE UNCHANGED vars
  BY <1>8 DEF vars, timerVars, msgVars, countVars, posVars, SaidOK, ByMenu, Heard, PlayerIsTold
<1> QED
  BY <1>1, <1>2, <1>3, <1>4, <1>5, <1>6, <1>7, <1>8 DEF Next

\* The pad's answer is always drawn; only a running timer, the lock and a
\* restore speak over the menu's.
THEOREM PlayersAreTold == Spec => []PlayerIsTold
<1>1. Init => SaidOK
  BY DEF Init, SaidOK, PlayerIsTold
<1>2. SaidOK /\ [Next]_vars => SaidOK'
  BY SaidStep
<1>3. SaidOK => PlayerIsTold
  BY DEF SaidOK
<1> QED
  BY <1>1, <1>2, <1>3, PTL DEF Spec

-----------------------------------------------------------------------------
(* Types, the message line's apart from the others.                        *)

MessageType == message \in Messages /\ msg_timer \in Standing /\ drawn \in Nat

FlagType ==
  /\ routine \in DOMAIN After
  /\ auto_timer \in BOOLEAN /\ use_igt \in BOOLEAN
  /\ enable_timer \in BOOLEAN /\ reset_now \in BOOLEAN
  /\ lock_pos \in BOOLEAN /\ resumed \in BOOLEAN

CountType == timer_frames \in 0..MaxFrames

PlaceType == glover \in Places \cup {Unset} /\ gpos_bac \in Places \cup {Unset}

LEMMA Times == {0, TimerTime, MsgTime} \subseteq Standing
  BY TimerAssumption DEF Standing

LEMMA NotifyType ==
  ASSUME NEW text \in Messages, NEW time \in Standing, Notify(text, time)
  PROVE  MessageType'
  BY DEF Notify, MessageType

LEMMA SilenceType ==
  ASSUME MessageType, message' = Nothing, drawn' \in {0, drawn}, UNCHANGED msg_timer
  PROVE  MessageType'
  BY DEF MessageType, Messages

LEMMA TypesStart == Init => MessageType /\ FlagType /\ CountType /\ PlaceType
<1> SUFFICES ASSUME Init PROVE MessageType /\ FlagType /\ CountType /\ PlaceType
  OBVIOUS
<1>1. PICK ones \in BOOLEAN : TimerInit(Behind(ones))
  BY DEF Init
<1>2. MessageType
  BY <1>1, Times DEF TimerInit, Behind, MessageType, Messages
<1>3. FlagType
  BY <1>1, Zenon DEF Init, TimerInit, Behind, FlagType, After
<1>4. CountType
  BY <1>1, TimerAssumption DEF TimerInit, Behind, CountType
<1>5. PlaceType
  BY DEF Init, PlaceType
<1> QED
  BY <1>2, <1>3, <1>4, <1>5

LEMMA MessageTypeStep == ASSUME MessageType, [Next]_vars PROVE MessageType'
<1>1. ASSUME NEW who, NEW text \in Sayings, Says(who, text) PROVE MessageType'
  BY <1>1, NotifyType, Times DEF Says, Messages
<1>2. CASE UNCHANGED msgVars
  BY <1>2 DEF msgVars, MessageType
<1>3. CASE UpdateExternal
  <2>1. CASE MenuToggle
    BY <2>1, SilenceType DEF MenuToggle
  <2> QED
    BY <1>1, <1>2, <1>3, <2>1
       DEF UpdateExternal, MenuIdle, LockPos, SavePos, LoadPos, SummonBall,
           AutoTimer, UseIgt, MenuState, timerVars, Sayings
<1>4. CASE MessageStep
  <2>1. CASE msg_timer > 0
    <3>1. msg_timer' = msg_timer - 1 /\ UNCHANGED <<message, drawn>>
      BY <1>4, <2>1 DEF MessageStep, UpdateMessage
    <3>2. msg_timer' \in Standing
      BY <2>1, <3>1, TimerAssumption DEF MessageType, Standing
    <3> QED
      BY <3>1, <3>2 DEF MessageType
  <2>2. CASE ~(msg_timer > 0)
    BY <1>4, <2>2, SilenceType DEF MessageStep, UpdateMessage
  <2> QED
    BY <2>1, <2>2
<1>5. CASE UpdateFlags
  BY <1>2, <1>5, NotifyType, Times DEF UpdateFlags, Messages, Sayings
<1>6. CASE CountStep
  BY <1>2, <1>6, NotifyType, Times DEF CountStep, TimerStep, UpdateTimer, Messages
<1>7. CASE UpdateInputs
  <2>1. CASE message' = Nothing /\ drawn' = 0 /\ UNCHANGED msg_timer
    BY <2>1, SilenceType
  <2>2. \/ \E text \in Sayings : Says("pad", text)
        \/ message' = Nothing /\ drawn' = 0 /\ UNCHANGED msg_timer
        \/ UNCHANGED msgVars
    BY <1>7 DEF UpdateInputs, Sayings, Nothing
  <2> QED
    BY <1>1, <1>2, <2>1, <2>2
<1>8. CASE Render
  BY <1>8 DEF Render, MessageType
<1>9. CASE GameFrame
  <2>1. ASSUME NEW ones \in BOOLEAN, TimerBoots(Behind(ones)) PROVE MessageType'
    BY <2>1, Times DEF TimerBoots, Behind, MessageType, Messages
  <2> QED
    BY <1>2, <1>9, <2>1 DEF GameFrame, TimerIntro, timerVars
<1> QED
  BY <1>2, <1>3, <1>4, <1>5, <1>6, <1>7, <1>8, <1>9 DEF Next, vars, timerVars

LEMMA FlagTypeStep == ASSUME FlagType, [Next]_vars PROVE FlagType'
<1>1. routine' \in DOMAIN After
  BY DEF Next, UpdateExternal, MessageStep, UpdateFlags, CountStep, TimerStep, UpdateInputs,
         Render, GameFrame, Goes, vars, FlagType, After
<1>2. UNCHANGED modeVars => (auto_timer \in BOOLEAN /\ use_igt \in BOOLEAN)'
  BY Zenon DEF modeVars, FlagType
<1>3. UNCHANGED countVars => (enable_timer \in BOOLEAN /\ reset_now \in BOOLEAN)'
  BY Zenon DEF countVars, FlagType
<1>4. CASE UpdateExternal
  BY <1>1, <1>2, <1>3, <1>4, Zenon
     DEF UpdateExternal, MenuIdle, LockPos, SavePos, LoadPos, SummonBall, MenuToggle,
         ToggleTimer, AutoTimer, UseIgt, MenuState, timerVars, modeVars, countVars, posVars, FlagType
<1>5. CASE MessageStep \/ Render
  BY <1>1, <1>2, <1>3, <1>5, Zenon DEF MessageStep, Render, posVars, FlagType
<1>6. CASE UpdateFlags
  BY <1>1, <1>2, <1>3, <1>6, Zenon DEF UpdateFlags, FlagType
<1>7. CASE CountStep
  <2>1. PICK g \in Game : TimerStep(g)
    BY <1>7 DEF CountStep
  <2>2. reset_now' \in BOOLEAN
    BY <2>1, Zenon DEF TimerStep, UpdateTimer
  <2>3. enable_timer' \in BOOLEAN
    BY <2>1, Zenon DEF TimerStep, UpdateTimer, Restarts
  <2>4. UNCHANGED <<auto_timer, use_igt, lock_pos, resumed>>
    BY <2>1 DEF TimerStep, UpdateTimer, modeVars, posVars
  <2> QED
    BY <1>1, <2>2, <2>3, <2>4, Zenon DEF FlagType
<1>8. CASE UpdateInputs
  <2>1. enable_timer' \in {enable_timer, ~enable_timer}
    BY <1>8, Zenon DEF UpdateInputs, ToggleTimer
  <2> QED
    BY <1>1, <1>2, <1>8, <2>1, Zenon DEF UpdateInputs, FlagType
<1>9. CASE GameFrame
  <2>1. ASSUME NEW ones \in BOOLEAN, TimerBoots(Behind(ones))
        PROVE  /\ auto_timer' \in BOOLEAN /\ use_igt' \in BOOLEAN
               /\ enable_timer' \in BOOLEAN /\ reset_now' \in BOOLEAN
    BY <2>1, Zenon DEF TimerBoots, Behind
  <2> QED
    BY <1>1, <1>9, <2>1, Zenon
       DEF GameFrame, TimerIntro, timerVars, modeVars, countVars, FlagType
<1>10. CASE UNCHANGED vars
  BY <1>1, <1>2, <1>3, <1>10, Zenon DEF vars, timerVars, posVars, FlagType
<1> QED
  BY <1>4, <1>5, <1>6, <1>7, <1>8, <1>9, <1>10 DEF Next

LEMMA CountTypeStep == ASSUME CountType, [Next]_vars PROVE CountType'
<1> USE TimerAssumption
<1>1. CASE timer_frames' \in {0, timer_frames}
  BY <1>1 DEF CountType
<1>2. CASE CountStep
  <2>1. PICK g \in Game : TimerStep(g)
    BY <1>2 DEF CountStep
  <2> DEFINE count == IF auto_timer /\ use_igt THEN g.igt
                      ELSE IF Restarts(g).restart THEN 0 ELSE timer_frames
  <2>i. g.igt \in 0..MaxFrames
    BY DEF Game
  <2>2. count \in 0..MaxFrames
    BY <2>i DEF CountType
  <2>3. \/ timer_frames' = count
        \/ count < MaxFrames /\ timer_frames' = count + 1
    BY <2>1, ZenonT(30) DEF TimerStep, UpdateTimer
  <2> HIDE DEF count
  <2> QED
    BY <2>2, <2>3 DEF CountType
<1>3. CASE GameFrame
  BY <1>1, <1>3 DEF GameFrame, TimerIntro, TimerBoots, Behind, timerVars, countVars, CountType
<1> QED
  BY <1>1, <1>2, <1>3
     DEF Next, UpdateExternal, MenuIdle, LockPos, SavePos, LoadPos, SummonBall, MenuToggle,
         ToggleTimer, AutoTimer, UseIgt, MenuState, MessageStep, UpdateFlags, UpdateInputs,
         Render, vars, timerVars, countVars

LEMMA PlaceTypeStep == ASSUME PlaceType, [Next]_vars PROVE PlaceType'
<1>1. CASE UpdateExternal
  BY <1>1 DEF UpdateExternal, MenuIdle, LockPos, SavePos, LoadPos, SummonBall, MenuToggle,
              AutoTimer, UseIgt, MenuState, posVars, PlaceType
<1>2. CASE UpdateFlags
  BY <1>2 DEF UpdateFlags, PlaceType
<1>3. CASE UpdateInputs
  BY <1>3 DEF UpdateInputs, PlaceType
<1>4. CASE GameFrame
  BY <1>4 DEF GameFrame, PlaceType
<1>5. CASE UNCHANGED posVars
  BY <1>5 DEF posVars, PlaceType
<1> QED
  BY <1>1, <1>2, <1>3, <1>4, <1>5 DEF Next, MessageStep, CountStep, TimerStep, Render, vars

\* Every message, time, flag, count and position is one of its kind.
THEOREM LogicTypes == Spec => []TypeOK
<1> DEFINE Types == MessageType /\ FlagType /\ CountType /\ PlaceType
<1>1. Init => Types
  BY TypesStart
<1>2. Types /\ [Next]_vars => Types'
  BY MessageTypeStep, FlagTypeStep, CountTypeStep, PlaceTypeStep
<1>3. Types => TypeOK
  BY Zenon DEF MessageType, FlagType, CountType, PlaceType, TypeOK, TimerTypeOK
<1> QED
  BY <1>1, <1>2, <1>3, PTL DEF Spec

-----------------------------------------------------------------------------
(* How long a message stands.                                              *)

\* Frames drawn and frames to go, before and behind update_message.
Ahead == routine \in {"game", "external", "message"}

TimedOK ==
  /\ message = "timer" =>
       msg_timer + drawn = IF Ahead THEN TimerTime + 1 ELSE TimerTime
  /\ message \in Sayings =>
       msg_timer + drawn \in IF Ahead THEN {MsgTime, MsgTime + 1} ELSE {MsgTime - 1, MsgTime}

LEMMA TimedStep ==
  ASSUME MessageType, FlagType, TimedOK, [Next]_vars
  PROVE  /\ TimedOK'
         /\ routine = "message" /\ message \notin {Nothing, "wild"} /\ message' = Nothing
              => IF message = "timer" THEN drawn = TimerTime + 1
                 ELSE drawn \in {MsgTime, MsgTime + 1}
<1> USE TimerAssumption
<1>t. "timer" \notin Sayings /\ {Nothing, "wild"} \cap (Sayings \cup {"timer"}) = {}
  BY DEF Sayings, Nothing
<1>n. msg_timer \in Nat /\ drawn \in Nat
  BY DEF MessageType, Standing
<1>1. ASSUME NEW who, NEW text \in Sayings, Says(who, text), ~Ahead' \/ routine = "external"
      PROVE  TimedOK'
  BY <1>1, <1>t DEF Says, Notify, TimedOK
<1>2. ASSUME message' \in {Nothing, "wild"} PROVE TimedOK'
  BY <1>2, <1>t DEF TimedOK
<1>3. ASSUME UNCHANGED msgVars, Ahead' <=> Ahead PROVE TimedOK'
  BY <1>3 DEF msgVars, TimedOK
<1>4. CASE UpdateExternal
  <2>1. routine = "external" /\ (Ahead' <=> Ahead)
    BY <1>4, AfterIs DEF UpdateExternal, Goes, Ahead
  <2>2. \/ \E text \in Sayings : Says("menu", text)
        \/ message' = Nothing
        \/ UNCHANGED msgVars
    BY <1>4 DEF UpdateExternal, MenuIdle, LockPos, SavePos, LoadPos, SummonBall, MenuToggle,
                AutoTimer, UseIgt, MenuState, timerVars, Sayings
  <2> QED
    BY <1>1, <1>2, <1>3, <2>1, <2>2
<1>5. CASE MessageStep
  <2>1. Ahead /\ ~Ahead'
    BY <1>5, AfterIs DEF MessageStep, Goes, Ahead
  <2>2. CASE msg_timer > 0
    <3>1. msg_timer' = msg_timer - 1 /\ UNCHANGED <<message, drawn>>
      BY <1>5, <2>2 DEF MessageStep, UpdateMessage
    <3> QED
      BY <1>n, <2>1, <3>1 DEF TimedOK
  <2>3. CASE ~(msg_timer > 0)
    <3>1. message' = Nothing /\ msg_timer = 0
      BY <1>5, <1>n, <2>3 DEF MessageStep, UpdateMessage
    <3>2. message \notin {Nothing, "wild"} => message = "timer" \/ message \in Sayings
      BY DEF MessageType, Messages
    <3> QED
      BY <1>2, <1>n, <2>1, <3>1, <3>2 DEF TimedOK
  <2> QED
    BY <2>2, <2>3
<1>6. CASE UpdateFlags
  <2>1. routine = "flags" /\ ~Ahead /\ ~Ahead'
    BY <1>6, AfterIs DEF UpdateFlags, Goes, Ahead
  <2>2. (\E text \in Sayings : Notify(text, MsgTime)) \/ UNCHANGED msgVars
    BY <1>6 DEF UpdateFlags, Sayings
  <2>3. ASSUME NEW text \in Sayings, Notify(text, MsgTime) PROVE TimedOK'
    BY <1>t, <2>1, <2>3 DEF Notify, TimedOK
  <2>4. UNCHANGED msgVars => TimedOK'
    BY <1>3, <2>1
  <2> QED
    BY <2>1, <2>2, <2>3, <2>4
<1>7. CASE CountStep
  <2>1. routine = "timer" /\ ~Ahead /\ ~Ahead'
    BY <1>7, AfterIs DEF CountStep, TimerStep, Goes, Ahead
  <2>2. Notify("timer", TimerTime) \/ UNCHANGED msgVars
    BY <1>7 DEF CountStep, TimerStep, UpdateTimer
  <2>3. ASSUME Notify("timer", TimerTime) PROVE TimedOK'
    BY <1>t, <2>1, <2>3 DEF Notify, TimedOK
  <2>4. UNCHANGED msgVars => TimedOK'
    BY <1>3, <2>1
  <2> QED
    BY <2>1, <2>2, <2>3, <2>4
<1>8. CASE UpdateInputs
  <2>1. routine = "inputs" /\ ~Ahead /\ ~Ahead'
    BY <1>8, AfterIs DEF UpdateInputs, Goes, Ahead
  <2>2. \/ \E text \in Sayings : Says("pad", text)
        \/ message' = Nothing
        \/ UNCHANGED msgVars
    BY <1>8 DEF UpdateInputs, Sayings, Nothing
  <2> QED
    BY <1>1, <1>2, <1>3, <2>1, <2>2
<1>9. CASE Render
  <2>1. routine = "render" /\ ~Ahead /\ Ahead' /\ UNCHANGED <<message, msg_timer>>
    BY <1>9, AfterIs DEF Render, Goes, Ahead
  <2>2. message = "timer" \/ message \in Sayings => drawn < TimerTime + MsgTime
    BY <1>n, <2>1 DEF TimedOK
  <2>3. message = "timer" \/ message \in Sayings => drawn' = drawn + 1
    BY <1>9, <2>2 DEF Render
  <2> QED
    BY <1>n, <2>1, <2>3 DEF TimedOK
<1>10. CASE GameFrame
  <2>1. routine = "game" /\ Ahead /\ Ahead'
    BY <1>10, AfterIs DEF GameFrame, Goes, Ahead
  <2>2. UNCHANGED msgVars \/ message' \in {Nothing, "wild"}
    BY <1>10 DEF GameFrame, TimerIntro, TimerBoots, Behind, timerVars
  <2> QED
    BY <1>2, <1>3, <2>1, <2>2
<1>11. CASE UNCHANGED vars
  <2>1. UNCHANGED msgVars /\ (Ahead' <=> Ahead) /\ UNCHANGED message
    BY <1>11 DEF vars, timerVars, msgVars, Ahead
  <2> QED
    BY <1>3, <2>1
<1> QED
  BY <1>4, <1>5, <1>6, <1>7, <1>8, <1>9, <1>10, <1>11
     DEF Next, UpdateExternal, UpdateFlags, CountStep, TimerStep, UpdateInputs, Render,
         GameFrame, Goes

\* A message is drawn MSG_TIME frames or one more, the timer's always one
\* more than its time.
THEOREM MessagesTimed == Spec => DrawnItsTime
<1> DEFINE Timed == MessageType /\ FlagType /\ TimedOK
<1>1. Init => Timed
  <2> SUFFICES ASSUME Init PROVE Timed
    OBVIOUS
  <2>1. message \in {Nothing, "wild"}
    BY DEF Init, TimerInit, Behind
  <2> QED
    BY <2>1, TypesStart DEF TimedOK, Sayings, Nothing
<1>2. Timed /\ [Next]_vars => Timed'
  BY MessageTypeStep, FlagTypeStep, TimedStep
<1>3. Timed /\ [Next]_vars
        => [routine = "message" /\ message \notin {Nothing, "wild"} /\ message' = Nothing
              => IF message = "timer" THEN drawn = TimerTime + 1
                 ELSE drawn \in {MsgTime, MsgTime + 1}]_vars
  BY TimedStep
<1> QED
  BY <1>1, <1>2, <1>3, PTL DEF Spec, DrawnItsTime

-----------------------------------------------------------------------------
(* The timer's text.                                                       *)

\* Number is the value of the digits, and what is printed reads back.
LEMMA NumberIs == ASSUME NEW str PROVE Number(str) = DecValue(str)
  BY DEF Number, DecValue, TextValue

LEMMA NumberOfPadded ==
  ASSUME NEW v \in Nat, ~Negative(v)
  PROVE  Padded(v) \in Seq(Digit_) /\ Number(Padded(v)) = v
<1> DEFINE s == DecStr(v, 1)
<1>1. s \in Seq(Digit_) /\ Number(s) = v
  BY ValueOfDecStr, NumberIs
<1> HIDE DEF s
<1>2. <<0>> = Zeros(1)
  BY DEF Zeros
<1>3. <<>> \o s = s
  BY <1>1
<1>4. Padded(v) = (IF v < Dec THEN <<0>> ELSE <<>>) \o s
  BY DEF Padded, s
<1>5. CASE v < Dec
  <2>1. Padded(v) = Zeros(1) \o s
    BY <1>2, <1>4, <1>5
  <2>2. Zeros(1) \o s \in Seq(Digit_) /\ Number(Zeros(1) \o s) = Number(s)
    BY <1>1, ValueOfZeros, NumberIs
  <2> QED
    BY <1>1, <2>1, <2>2, Zenon
<1>6. CASE ~(v < Dec)
  BY <1>1, <1>3, <1>4, <1>6
<1> QED
  BY <1>5, <1>6

\* Three texts of digits with colons between them.
IsTime(str, m, s, f) ==
  /\ m \in Seq(Digit_) /\ s \in Seq(Digit_) /\ f \in Seq(Digit_)
  /\ str = m \o <<Colon>> \o s \o <<Colon>> \o f

LEMMA ColonsFound ==
  ASSUME NEW m, NEW s, NEW f, NEW str, IsTime(str, m, s, f)
  PROVE  /\ str \in Seq(Int)
         /\ Len(str) = Len(m) + Len(s) + Len(f) + 2
         /\ str[Len(m) + 1] = Colon /\ str[Len(m) + Len(s) + 2] = Colon
         /\ \A i \in 1..Len(m) : str[i] = m[i]
         /\ \A i \in 1..Len(s) : str[Len(m) + 1 + i] = s[i]
         /\ \A i \in 1..Len(f) : str[Len(m) + Len(s) + 2 + i] = f[i]
<1> DEFINE c == <<Colon>>  u == m \o c  v == u \o s  w == v \o c
<1>1. m \in Seq(Int) /\ s \in Seq(Int) /\ f \in Seq(Int)
  BY NumbersAssumption DEF Digit_, IsTime
<1>2. c \in Seq(Int) /\ Len(c) = 1 /\ c[1] = Colon
  BY DEF Colon
<1> HIDE DEF c
<1>3. /\ u \in Seq(Int) /\ Len(u) = Len(m) + 1 /\ u[Len(m) + 1] = Colon
      /\ \A i \in 1..Len(m) : u[i] = m[i]
  <2>1. /\ u \in Seq(Int) /\ Len(u) = Len(m) + Len(c)
        /\ \A i \in 1..Len(m) : u[i] = m[i]
        /\ \A i \in 1..Len(c) : u[Len(m) + i] = c[i]
    <3>1. m \in Seq(Int) /\ c \in Seq(Int)
      BY <1>1, <1>2
    <3> QED
      BY ONLY <3>1, Joined
  <2> QED
    BY <1>2, <2>1
<1>4. str = w \o f
  BY DEF c, IsTime
<1> HIDE DEF u
<1>5. /\ v \in Seq(Int) /\ Len(v) = Len(u) + Len(s)
      /\ \A i \in 1..Len(u) : v[i] = u[i]
      /\ \A i \in 1..Len(s) : v[Len(u) + i] = s[i]
  <2>1. u \in Seq(Int) /\ s \in Seq(Int)
    BY <1>1, <1>3
  <2> QED
    BY ONLY <2>1, Joined
<1> HIDE DEF v
<1>6. /\ w \in Seq(Int) /\ Len(w) = Len(v) + 1 /\ w[Len(v) + 1] = Colon
      /\ \A i \in 1..Len(v) : w[i] = v[i]
  <2>1. /\ w \in Seq(Int) /\ Len(w) = Len(v) + Len(c)
        /\ \A i \in 1..Len(v) : w[i] = v[i]
        /\ \A i \in 1..Len(c) : w[Len(v) + i] = c[i]
    <3>1. v \in Seq(Int) /\ c \in Seq(Int)
      BY <1>2, <1>5
    <3> QED
      BY ONLY <3>1, Joined
  <2> QED
    BY <1>2, <2>1
<1> HIDE DEF w
<1>7. /\ str \in Seq(Int) /\ Len(str) = Len(w) + Len(f)
      /\ \A i \in 1..Len(w) : str[i] = w[i]
      /\ \A i \in 1..Len(f) : str[Len(w) + i] = f[i]
  <2>1. w \in Seq(Int) /\ f \in Seq(Int)
    BY <1>1, <1>6
  <2>2. /\ w \o f \in Seq(Int) /\ Len(w \o f) = Len(w) + Len(f)
        /\ \A i \in 1..Len(w) : (w \o f)[i] = w[i]
        /\ \A i \in 1..Len(f) : (w \o f)[Len(w) + i] = f[i]
    BY ONLY <2>1, Joined
  <2> QED
    BY <1>4, <2>2
<1>8. Len(m) \in Nat /\ Len(s) \in Nat /\ Len(f) \in Nat
  BY <1>1
<1>9. Len(u) = Len(m) + 1 /\ Len(w) = Len(m) + Len(s) + 2 /\ Len(v) = Len(m) + Len(s) + 1
  BY <1>3, <1>5, <1>6, <1>8
<1>10. ASSUME NEW i \in 1..Len(m) PROVE str[i] = m[i]
  BY <1>3, <1>5, <1>6, <1>7, <1>8, <1>9
<1>11. str[Len(m) + 1] = Colon
  <2> DEFINE k == Len(m) + 1
  <2>1. k \in 1..Len(u) /\ k \in 1..Len(v) /\ k \in 1..Len(w) /\ u[k] = Colon
    BY <1>3, <1>8, <1>9
  <2> HIDE DEF k
  <2>2. str[k] = Colon
    BY <1>5, <1>6, <1>7, <2>1
  <2> QED
    BY <2>2 DEF k
<1>12. ASSUME NEW i \in 1..Len(s) PROVE str[Len(m) + 1 + i] = s[i]
  <2> DEFINE k == Len(u) + i
  <2>1. k \in 1..Len(v) /\ k \in 1..Len(w) /\ v[k] = s[i] /\ k = Len(m) + 1 + i
    BY <1>5, <1>8, <1>9
  <2> HIDE DEF k
  <2>2. str[k] = s[i]
    BY <1>6, <1>7, <2>1
  <2> QED
    BY <2>1, <2>2
<1>13. str[Len(m) + Len(s) + 2] = Colon
  <2> DEFINE k == Len(v) + 1
  <2>1. k \in 1..Len(w) /\ w[k] = Colon /\ k = Len(m) + Len(s) + 2
    BY <1>6, <1>8, <1>9
  <2> HIDE DEF k
  <2>2. str[k] = Colon
    BY <1>7, <2>1
  <2> QED
    BY <2>1, <2>2
<1>14. Len(str) = Len(m) + Len(s) + Len(f) + 2
  BY <1>7, <1>8, <1>9
<1> QED
  BY <1>7, <1>9, <1>10, <1>11, <1>12, <1>13, <1>14

\* A part of a text.
LEMMA PartIs ==
  ASSUME NEW str \in Seq(Int), NEW s \in Seq(Int), NEW k \in Nat, k + Len(s) <= Len(str),
         \A i \in 1..Len(s) : str[k + i] = s[i]
  PROVE  SubSeq(str, k + 1, k + Len(s)) = s
<1> DEFINE p == SubSeq(str, k + 1, k + Len(s))
<1>1. Len(s) \in Nat /\ Len(str) \in Nat
  OBVIOUS
<1>2. p \in Seq(Int) /\ Len(p) = Len(s)
  BY <1>1
<1>3. \A i \in 1..Len(s) : p[i] = str[k + i]
  BY <1>1
<1> HIDE DEF p
<1>4. p = s
  <2> DEFINE n == Len(s)
  <2>1. \A i \in 1..n : p[i] = s[i]
    BY <1>3
  <2>2. p = [i \in 1..n |-> p[i]]
    BY ONLY <1>2
  <2>3. s = [i \in 1..n |-> s[i]]
    OBVIOUS
  <2> HIDE DEF n
  <2> QED
    BY ONLY <2>1, <2>2, <2>3
<1> QED
  BY <1>4 DEF p

LEMMA TimeReads ==
  ASSUME NEW m, NEW s, NEW f, NEW str, IsTime(str, m, s, f)
  PROVE  TimeOf(str) = (Number(m) * SecondsPerMinute + Number(s)) * FPS + Number(f)
<1> DEFINE a == Len(m) + 1  b == Len(m) + Len(s) + 2
           first == CHOOSE i \in Colons(str) : \A j \in Colons(str) : i <= j
           last_ == CHOOSE i \in Colons(str) : \A j \in Colons(str) : j <= i
<1>0. /\ m \in Seq(Digit_) /\ s \in Seq(Digit_) /\ f \in Seq(Digit_)
      /\ Len(m) \in Nat /\ Len(s) \in Nat /\ Len(f) \in Nat
  BY DEF IsTime
<1>1. /\ str \in Seq(Int) /\ Len(str) = Len(m) + Len(s) + Len(f) + 2
      /\ str[a] = Colon /\ str[b] = Colon
      /\ \A i \in 1..Len(m) : str[i] = m[i]
      /\ \A i \in 1..Len(s) : str[Len(m) + 1 + i] = s[i]
      /\ \A i \in 1..Len(f) : str[Len(m) + Len(s) + 2 + i] = f[i]
  <2>1. /\ str \in Seq(Int)
        /\ Len(str) = Len(m) + Len(s) + Len(f) + 2
        /\ str[Len(m) + 1] = Colon /\ str[Len(m) + Len(s) + 2] = Colon
        /\ \A i \in 1..Len(m) : str[i] = m[i]
        /\ \A i \in 1..Len(s) : str[Len(m) + 1 + i] = s[i]
        /\ \A i \in 1..Len(f) : str[Len(m) + Len(s) + 2 + i] = f[i]
    BY ONLY IsTime(str, m, s, f), ColonsFound
  <2> QED
    BY <2>1
<1>i. m \in Seq(Int) /\ s \in Seq(Int) /\ f \in Seq(Int)
  BY NumbersAssumption DEF Digit_, IsTime
<1>2. Colons(str) = {a, b}
  <2>1. a \in 1..Len(str) /\ b \in 1..Len(str)
    BY <1>0, <1>1
  <2>2. ASSUME NEW i \in 1..Len(str), i # a, i # b PROVE str[i] # Colon
    <3>d. Colon \notin Digit_
      BY NumbersAssumption DEF Colon, Digit_
    <3>1. CASE i <= Len(m)
      <4>1. i \in 1..Len(m) /\ m[i] \in Digit_
        BY <1>0, <3>1
      <4> QED
        BY <1>1, <3>d, <4>1
    <3>2. CASE i > a /\ i < b
      <4> DEFINE k == i - a
      <4>1. k \in 1..Len(s) /\ i = Len(m) + 1 + k
        BY <1>0, <3>2
      <4> HIDE DEF k
      <4>2. s[k] \in Digit_ /\ str[i] = s[k]
        BY <1>0, <1>1, <4>1
      <4> QED
        BY <3>d, <4>2
    <3>3. CASE i > b
      <4> DEFINE k == i - b
      <4>1. k \in 1..Len(f) /\ i = Len(m) + Len(s) + 2 + k
        BY <1>0, <1>1, <3>3
      <4> HIDE DEF k
      <4>2. f[k] \in Digit_ /\ str[i] = f[k]
        BY <1>0, <1>1, <4>1
      <4> QED
        BY <3>d, <4>2
    <3> QED
      BY <1>0, <2>2, <3>1, <3>2, <3>3
  <2> HIDE DEF a, b
  <2> QED
    BY <1>1, <2>1, <2>2 DEF Colons
<1>3. a \in Int /\ b \in Int /\ a < b
  BY <1>0
<1> HIDE DEF a, b
<1>4. first = a /\ last_ = b
  <2>1. a \in Colons(str) /\ \A i \in Colons(str) : a <= i /\ i <= b
    BY <1>2, <1>3
  <2>2. b \in Colons(str) /\ \A i \in Colons(str) : i \in Int
    BY <1>2, <1>3
  <2>3. \A i \in Colons(str) : (\A j \in Colons(str) : i <= j) => i = a
    BY <1>3, <2>1, <2>2
  <2>4. \A i \in Colons(str) : (\A j \in Colons(str) : j <= i) => i = b
    BY <1>3, <2>1, <2>2
  <2>5. first = a
    BY <2>1, <2>3, Zenon
  <2>6. last_ = b
    BY <2>1, <2>2, <2>4, Zenon
  <2> QED
    BY <2>5, <2>6
<1>5. TimeOf(str) = (Number(SubSeq(str, 1, first - 1)) * SecondsPerMinute
                       + Number(SubSeq(str, first + 1, last_ - 1))) * FPS
                       + Number(SubSeq(str, last_ + 1, Len(str)))
  BY DEF TimeOf
<1> HIDE DEF first, last_
<1>6. SubSeq(str, 1, a - 1) = m
  <2> DEFINE k == 0
  <2>1. k \in Nat /\ k + 1 = 1 /\ k + Len(m) = a - 1 /\ k + Len(m) <= Len(str)
    BY <1>0, <1>1 DEF a
  <2>2. ASSUME NEW i \in 1..Len(m) PROVE str[k + i] = m[i]
    <3>1. k + i = i
      OBVIOUS
    <3> QED
      BY <1>1, <3>1
  <2> HIDE DEF k
  <2>3. SubSeq(str, k + 1, k + Len(m)) = m
    BY <1>1, <1>i, <2>1, <2>2, PartIs
  <2> QED
    BY <2>1, <2>3
<1>7. SubSeq(str, a + 1, b - 1) = s
  <2>1. a \in Nat /\ a + Len(s) = b - 1 /\ a + Len(s) <= Len(str)
    BY <1>0, <1>1 DEF a, b
  <2>2. \A i \in 1..Len(s) : str[a + i] = s[i]
    BY <1>1 DEF a
  <2>3. SubSeq(str, a + 1, a + Len(s)) = s
    BY <1>1, <1>i, <2>1, <2>2, PartIs
  <2> QED
    BY <2>1, <2>3
<1>8. SubSeq(str, b + 1, Len(str)) = f
  <2>1. b \in Nat /\ b + Len(f) = Len(str) /\ b + Len(f) <= Len(str)
    BY <1>0, <1>1 DEF b
  <2>2. \A i \in 1..Len(f) : str[b + i] = f[i]
    BY <1>1 DEF b
  <2>3. SubSeq(str, b + 1, b + Len(f)) = f
    BY <1>1, <1>i, <2>1, <2>2, PartIs
  <2> QED
    BY <2>1, <2>3
<1> QED
  BY <1>4, <1>5, <1>6, <1>7, <1>8

\* The text of a count reads as the count.
LEMMA TimeOfTimeStr == ASSUME NEW n \in 0..MaxFrames PROVE TimeOf(TimeStr(n)) = n
<1> DEFINE seconds == n \div FPS        frames == n % FPS
           minutes == seconds \div SecondsPerMinute   rest == seconds % SecondsPerMinute
           m == DecStr(minutes, 1)  s == Padded(rest)  f == Padded(frames)
<1>1. n \in Nat /\ FPS \in Nat \ {0} /\ SecondsPerMinute \in Nat \ {0} /\ MaxFrames \in Nat
  BY TimerAssumption
<1>2. seconds \in Nat /\ frames \in 0..FPS - 1 /\ n = FPS * seconds + frames
  BY <1>1, Division
<1>w. WordSize \in Nat \ {0}
  BY NumbersAssumption, PowerEquation DEF WordSize
<1> DEFINE W == WordSize  half == WordSize \div 2
<1>h. half \in Nat /\ W - 1 <= 2 * half /\ half <= W
  BY <1>w
<1>a. n < W /\ FPS > 2 /\ FPS <= half /\ SecondsPerMinute <= half
  BY <1>1, <1>w, CountAssumption
<1> HIDE DEF seconds, frames, W, half
<1>3. minutes \in Nat /\ rest \in 0..SecondsPerMinute - 1
      /\ seconds = SecondsPerMinute * minutes + rest /\ minutes <= seconds
  <2>1. minutes \in Nat /\ rest \in 0..SecondsPerMinute - 1
        /\ seconds = SecondsPerMinute * minutes + rest
    BY <1>1, <1>2, Division
  <2> HIDE DEF minutes, rest
  <2>2. minutes <= SecondsPerMinute * minutes
    BY <1>1, <2>1
  <2>3. SecondsPerMinute * minutes \in Nat
    BY <1>1, <2>1
  <2> DEFINE x == SecondsPerMinute * minutes
  <2> HIDE DEF x
  <2>4. minutes <= x /\ seconds = x + rest /\ x \in Nat /\ rest \in Nat
    BY <2>1, <2>2, <2>3, <1>1 DEF x
  <2> QED
    BY <2>1, <2>4 DEF minutes, rest
<1> HIDE DEF minutes, rest
<1>4. seconds < half
  <2>1. 3 * seconds <= FPS * seconds
    BY <1>1, <1>2, <1>a
  <2> DEFINE x == FPS * seconds
  <2>2. x \in Nat /\ n = x + frames /\ 3 * seconds <= x
    BY <1>1, <1>2, <2>1
  <2> HIDE DEF x
  <2>3. 3 * seconds <= n /\ n < W
    BY <1>1, <1>2, <1>a, <2>2
  <2>4. half >= 3
    BY <1>1, <1>h, <1>a
  <2> QED
    BY <1>1, <1>2, <1>h, <1>w, <2>3, <2>4 DEF W
<1>5. ~Negative(minutes) /\ ~Negative(rest) /\ ~Negative(frames)
  <2>1. minutes < half /\ rest < half /\ frames < half
    BY <1>1, <1>2, <1>3, <1>4, <1>a, <1>h
  <2> QED
    BY <1>h, <1>2, <1>3, <2>1 DEF Negative, half
<1>6. m \in Seq(Digit_) /\ Number(m) = minutes
  BY <1>3, <1>5, ValueOfDecStr, NumberIs
<1>7. s \in Seq(Digit_) /\ Number(s) = rest
  BY <1>3, <1>5, NumberOfPadded
<1>8. f \in Seq(Digit_) /\ Number(f) = frames
  BY <1>2, <1>5, NumberOfPadded
<1>9. TimeStr(n) = m \o <<Colon>> \o s \o <<Colon>> \o f
  BY DEF TimeStr, seconds, frames, minutes, rest
<1> HIDE DEF m, s, f
<1>10. TimeOf(TimeStr(n)) = (Number(m) * SecondsPerMinute + Number(s)) * FPS + Number(f)
  <2>1. IsTime(TimeStr(n), m, s, f)
    BY <1>6, <1>7, <1>8, <1>9 DEF IsTime
  <2> QED
    BY ONLY <2>1, TimeReads
<1>11. minutes * SecondsPerMinute + rest = seconds
  BY <1>1, <1>3
<1>12. seconds * FPS + frames = n
  BY <1>1, <1>2
<1> QED
  BY <1>6, <1>7, <1>8, <1>10, <1>11, <1>12

LEMMA TextStep ==
  ASSUME CountType, [Next]_vars, routine = "timer", timer_str' # timer_str
  PROVE  TimeOf(timer_str') + 1 = timer_frames'
<1>1. PICK g \in Game : TimerStep(g)
  BY DEF Next, UpdateExternal, MessageStep, UpdateFlags, CountStep, UpdateInputs, Render,
         GameFrame, Goes, vars, timerVars, countVars
<1> DEFINE count == IF auto_timer /\ use_igt THEN g.igt
                    ELSE IF Restarts(g).restart THEN 0 ELSE timer_frames
<1>2. timer_str' = TimeStr(count) /\ timer_frames' = count + 1
  BY <1>1 DEF TimerStep, UpdateTimer
<1>3. count \in 0..MaxFrames
  <2>1. g.igt \in 0..MaxFrames /\ 0 \in 0..MaxFrames /\ timer_frames \in 0..MaxFrames
    <3>1. g.igt \in IgtValues
      BY DEF Game
    <3>2. IgtValues \subseteq 0..MaxFrames /\ MaxFrames \in Nat
      BY TimerAssumption
    <3>3. g.igt \in 0..MaxFrames
      BY ONLY <3>1, <3>2, Zenon
    <3>4. 0 \in 0..MaxFrames
      BY <3>2
    <3>5. timer_frames \in 0..MaxFrames
      BY Zenon DEF CountType
    <3> QED
      BY <3>3, <3>4, <3>5
  <2>2. count \in {g.igt, 0, timer_frames}
    OBVIOUS
  <2> HIDE DEF count
  <2> QED
    BY <2>1, <2>2
<1> HIDE DEF count
<1> QED
  BY <1>2, <1>3, TimeOfTimeStr

\* The text of the timer, read back, is the count it was made of, for every
\* count a word holds.
THEOREM TextsAreCounts == Spec => TextIsCount
<1> DEFINE Types == MessageType /\ FlagType /\ CountType /\ PlaceType
<1>1. Init => Types
  BY TypesStart
<1>2. Types /\ [Next]_vars => Types'
  BY MessageTypeStep, FlagTypeStep, CountTypeStep, PlaceTypeStep
<1>3. Types /\ [Next]_vars
        => [routine = "timer" /\ timer_str' # timer_str
              => TimeOf(timer_str') + 1 = timer_frames']_vars
  BY TextStep
<1> QED
  BY <1>1, <1>2, <1>3, PTL DEF Spec, TextIsCount
=============================================================================
