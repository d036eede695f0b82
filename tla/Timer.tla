------------------------------- MODULE Timer -------------------------------
(***************************************************************************)
(* The practice timer and the message line of the hack (logic.c, gpatch_t). *)
(* There is one line for everything: whoever speaks last in a frame is     *)
(* drawn, and a running timer speaks in every frame.                       *)
(***************************************************************************)
EXTENDS Numbers

CONSTANTS
  FPS, SecondsPerMinute,  \* 20 and 60
  TimerTime, MsgTime,     \* how long the timer and any other message stand
  MaxFrames,              \* bound of the model on the count
  IgtValues               \* what the game's own timer may show

Nothing == "nothing"
\* What stands in memory where nothing has been written yet.
Wild == <<Other>>

Sayings == {"saved", "restored", "state"}   \* position and savestates
Messages == {Nothing, "wild", "timer"} \cup Sayings

ASSUME TimerAssumption ==
  /\ FPS \in Nat \ {0} /\ SecondsPerMinute \in Nat \ {0}
  /\ TimerTime \in Nat \ {0} /\ MsgTime \in Nat \ {0}
  /\ MaxFrames \in Nat /\ IgtValues \subseteq 0..MaxFrames

\* A count is a word, and no part of it that is printed is negative as an int.
ASSUME CountAssumption ==
  /\ MaxFrames < WordSize
  /\ FPS > 2 /\ FPS <= WordSize \div 2 /\ SecondsPerMinute <= WordSize \div 2

VARIABLES
  message, msg_timer,
  auto_timer, use_igt, enable_timer,
  reset_now,      \* a fade was seen, the timer restarts with the controls
  timer_frames,   \* the count
  timer_str,      \* what the timer said last
  drawn           \* history: how many frames the message has been drawn

msgVars   == <<message, msg_timer, drawn>>
modeVars  == <<auto_timer, use_igt>>
countVars == <<enable_timer, reset_now, timer_frames, timer_str>>
timerVars == <<msgVars, modeVars, countVars>>

-----------------------------------------------------------------------------
(* The message line.                                                       *)

Notify(text, time) == message' = text /\ msg_timer' = time /\ drawn' = 0

\* Mutant: the message goes when its time reaches zero, one frame early.
MessageGoesEarly ==
  IF msg_timer > 1 THEN msg_timer' = msg_timer - 1 /\ UNCHANGED <<message, drawn>>
  ELSE message' = Nothing /\ msg_timer' = 0 /\ drawn' = 0

\* Mutant: the time is taken first and looked at then.
MessageUnderflows ==
  /\ msg_timer' = msg_timer - 1
  /\ IF msg_timer' > 0 THEN UNCHANGED <<message, drawn>>
     ELSE message' = Nothing /\ drawn' = 0

UpdateMessage ==
  IF msg_timer > 0 THEN msg_timer' = msg_timer - 1 /\ UNCHANGED <<message, drawn>>
  ELSE message' = Nothing /\ drawn' = 0 /\ UNCHANGED msg_timer

-----------------------------------------------------------------------------
(* The timer.                                                              *)

\* "m:ss:ff"
Padded(n) == (IF n < Dec THEN <<0>> ELSE <<>>) \o DecStr(n, 1)

\* Mutant: the seconds are those of the whole time.
TimeStrWhole(n) ==
  LET seconds == n \div FPS IN
  DecStr(seconds \div SecondsPerMinute, 1)
    \o <<Colon>> \o Padded(seconds) \o <<Colon>> \o Padded(n % FPS)

TimeStr(n) ==
  LET seconds == n \div FPS IN
  DecStr(seconds \div SecondsPerMinute, 1)
    \o <<Colon>> \o Padded(seconds % SecondsPerMinute)
    \o <<Colon>> \o Padded(n % FPS)

\* What the timer reads of the game.
Game == [fade : BOOLEAN,     \* LOAD_FADE is not 0 and its target is 0
         controls : {"on", "off", "stopped"},  \* DISABLE_INPUT_TIMER 0, up to 0xFE, 0xFF
         paused : BOOLEAN,   \* IS_PAUSED
         over : BOOLEAN,     \* in a goal, or the level won
         igt : IgtValues]

FadeSeen(g) == auto_timer /\ g.fade

\* Mutant: the automatic restart is a toggle like the player's.
RestartsIfStopped(g) ==
  LET stopped == IF FadeSeen(g) THEN FALSE ELSE enable_timer
      restart == auto_timer /\ (reset_now \/ FadeSeen(g)) /\ g.controls = "on"
  IN [restart |-> restart,
      enable  |-> IF restart THEN ~stopped
                  ELSE (auto_timer /\ use_igt) \/ stopped]

\* Mutant: what was asked for at a fade is forgotten with the frame.
RestartsInFade(g) ==
  LET restart == FadeSeen(g) /\ g.controls = "on" IN
  [restart |-> restart,
   enable  |-> restart \/ (auto_timer /\ use_igt) \/ (enable_timer /\ ~FadeSeen(g))]

\* The automatic restart.  toggle_timer turns a timer off that the player has
\* started meanwhile; enable_timer is set after it.
Restarts(g) ==
  LET restart == auto_timer /\ (reset_now \/ FadeSeen(g)) /\ g.controls = "on"
  IN [restart |-> restart,
      enable  |-> restart \/ (auto_timer /\ use_igt)
                  \/ (enable_timer /\ ~FadeSeen(g))]

Runs(g) ==
  /\ g.controls # "stopped"
  /\ ~g.paused \/ ~use_igt
  /\ ~g.over

UpdateTimer(g) ==
  LET restart == Restarts(g).restart
      enable  == Restarts(g).enable
      count   == IF auto_timer /\ use_igt THEN g.igt
                 ELSE IF restart THEN 0 ELSE timer_frames
  IN
  /\ reset_now' = (~restart /\ (reset_now \/ FadeSeen(g)))
  /\ enable_timer' = enable
  /\ UNCHANGED modeVars
  /\ \/ /\ enable /\ Runs(g)
        /\ count < MaxFrames
        /\ timer_str' = TimeStr(count)
        /\ timer_frames' = count + 1
        /\ Notify("timer", TimerTime)
     \/ /\ enable /\ ~Runs(g)
        /\ timer_frames' = count
        /\ UNCHANGED timer_str
        /\ Notify("timer", TimerTime)
     \/ /\ ~enable
        /\ timer_frames' = count
        /\ UNCHANGED <<timer_str, msgVars>>

\* START and A: the count starts again, running or not.
ToggleTimer ==
  /\ enable_timer' = ~enable_timer
  /\ timer_frames' = 0

-----------------------------------------------------------------------------
\* Nothing sets these variables but the routines above: they start as zeros,
\* or with what lies behind the code in the ROM (a time of 65535 frames is
\* TimerTime here, a count beyond any bound is MaxFrames).
Behind(ones) ==
  [message |-> IF ones THEN "wild" ELSE Nothing,
   msg_timer |-> IF ones THEN TimerTime ELSE 0,
   set |-> ones,
   timer_frames |-> IF ones THEN MaxFrames ELSE 0,
   timer_str |-> IF ones THEN Wild ELSE <<>>]

TimerInit(behind) ==
  /\ message = behind.message /\ msg_timer = behind.msg_timer /\ drawn = 0
  /\ auto_timer = behind.set /\ enable_timer = behind.set /\ reset_now = behind.set
  /\ timer_frames = behind.timer_frames /\ timer_str = behind.timer_str
  /\ use_igt = TRUE

\* init_gpatch sets only use_igt; a console reset brings the ROM's bytes back.
TimerIntro == use_igt' = TRUE /\ UNCHANGED <<msgVars, auto_timer, countVars>>

TimerBoots(behind) ==
  /\ message' = behind.message /\ msg_timer' = behind.msg_timer /\ drawn' = 0
  /\ auto_timer' = behind.set /\ enable_timer' = behind.set /\ reset_now' = behind.set
  /\ timer_frames' = behind.timer_frames /\ timer_str' = behind.timer_str
  /\ use_igt' = TRUE

\* Reading the timer's text: three numbers, each up to its colon.
Number(str) ==
  LET value[i \in 0..Len(str)] == IF i = 0 THEN 0 ELSE Dec * value[i - 1] + str[i]
  IN value[Len(str)]

Colons(str) == {i \in 1..Len(str) : str[i] = Colon}

TimeOf(str) ==
  LET first == CHOOSE i \in Colons(str) : \A j \in Colons(str) : i <= j
      last_  == CHOOSE i \in Colons(str) : \A j \in Colons(str) : j <= i
  IN (Number(SubSeq(str, 1, first - 1)) * SecondsPerMinute
       + Number(SubSeq(str, first + 1, last_ - 1))) * FPS
       + Number(SubSeq(str, last_ + 1, Len(str)))

Standing == 0..(IF TimerTime < MsgTime THEN MsgTime ELSE TimerTime)

TimerTypeOK ==
  /\ message \in Messages /\ msg_timer \in Standing /\ drawn \in Nat
  /\ auto_timer \in BOOLEAN /\ use_igt \in BOOLEAN
  /\ enable_timer \in BOOLEAN /\ reset_now \in BOOLEAN
  /\ timer_frames \in 0..MaxFrames
=============================================================================
