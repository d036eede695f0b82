------------------------------ MODULE Display ------------------------------
(***************************************************************************)
(* What the hack draws (render.c, rdp.c) and the frame timer that is drawn *)
(* with it (frametimer.c).  A frame appends its commands to a buffer in    *)
(* expansion memory and sends the list of the frame before; the RDP reads  *)
(* that list while the next one is drawn.  Behind the buffer lie the       *)
(* savestates.  A unit is eight words, one command of rdp.c.               *)
(***************************************************************************)
EXTENDS Integers

CONSTANTS
  BufferUnits,  \* RDP_DL_END - RDP_DL_BUFFER: 24576
  Slack,        \* from RDP_DL_END to the first savestate: 2838
  Screens,      \* what monitor, menu, keyboard, inputs and message show:
                \* [texts, characters], together, and [syncs], which the
                \* keyboard puts in front of its own
  Prints,       \* lengths of the host's texts: 1 to 1017
  ByteSize,     \* 256
  HWordSize     \* 65536

\* The texture mode for each text, which is not empty; for each character its
\* tile, loaded and drawn.
TextUnits(texts, characters) == texts + 2 * characters

DrawUnits(s) == TextUnits(s.texts, s.characters) + s.syncs
Digit == TextUnits(1, 1)      \* "0" or "1"

\* The host's text by its length; no text (0), or an empty one, draws nothing.
PrintUnits(text) == IF text = 0 THEN 0 ELSE TextUnits(1, text)

\* The largest frame without a text of the host fits behind the buffer's end,
\* and any frame twice into the buffer.
ASSUME DisplayAssumption ==
  /\ BufferUnits \in Nat /\ Slack \in Nat
  /\ Screens \subseteq [texts : Nat, characters : Nat, syncs : Nat]
  /\ Prints \subseteq Nat \ {0}
  /\ \A s \in Screens :
       /\ DrawUnits(s) + Digit <= Slack
       /\ \A text \in Prints \cup {0} :
            2 * (DrawUnits(s) + Digit + PrintUnits(text)) <= BufferUnits
  /\ ByteSize \in Nat \ {0} /\ HWordSize \in Nat \ {0}

Unit == 0..BufferUnits + Slack - 1

VARIABLES
  turn,        \* "logic" or "render"
  max, ticks, tick_state, enable,  \* gpatch.frametimer
  pevd_msg,    \* the host's text on the screen, by its length
  decompressed,  \* the first pixel of the font is set: both are in memory
  pbuffer,     \* where the next command goes
  rdp_start_next, rdp_end_next,
  drawn_in,    \* history: the frame a unit was drawn in: "new", "last", "old", "none"
  sent,        \* history: the units the RDP may be reading
  flipped      \* history: updates since the digit changed with this max

timerVars == <<max, ticks, tick_state, enable, flipped>>
listVars  == <<decompressed, pbuffer, rdp_start_next, rdp_end_next, drawn_in, sent>>
displayVars == <<turn, pevd_msg, timerVars, listVars>>

-----------------------------------------------------------------------------
(* The frame timer: a digit that changes every max + 1 frames.             *)

\* The menu moves max by one, a half word without bounds.
SetMax ==
  /\ turn = "logic"
  /\ max' \in {(max + 1) % HWordSize, (max - 1) % HWordSize}
  /\ flipped' = -1
  /\ UNCHANGED <<turn, ticks, tick_state, enable, pevd_msg, listVars>>

\* Mutant: the flag takes the upper byte.
EnabledByUpper(m) == m \div ByteSize # 0

\* The flag is a byte.
Enabled(m) == m % ByteSize # 0

\* Mutant: the digit changes when max is reached.
FlipsAtMax ==
  /\ enable' = Enabled(max)
  /\ IF ~enable' THEN UNCHANGED <<ticks, tick_state, flipped>>
     ELSE LET t == (ticks + 1) % HWordSize IN
       IF t >= max
         THEN ticks' = 0 /\ tick_state' = ~tick_state /\ flipped' = 0
         ELSE /\ ticks' = t /\ UNCHANGED tick_state
              /\ flipped' = IF flipped \in 0..HWordSize THEN flipped + 1 ELSE flipped

FrameTimerUpdate ==
  /\ enable' = Enabled(max)
  /\ IF ~enable' THEN UNCHANGED <<ticks, tick_state, flipped>>
     ELSE LET t == (ticks + 1) % HWordSize IN
       IF t > max
         THEN ticks' = 0 /\ tick_state' = ~tick_state /\ flipped' = 0
         ELSE /\ ticks' = t /\ UNCHANGED tick_state
              /\ flipped' = IF flipped \in 0..HWordSize THEN flipped + 1 ELSE flipped

Logic ==
  /\ turn = "logic" /\ turn' = "render"
  /\ FrameTimerUpdate
  /\ UNCHANGED <<max, pevd_msg, listVars>>

\* A command of the host puts its text on the screen, until the next intro.
IPrint ==
  /\ turn = "logic"
  /\ pevd_msg' \in Prints \cup {0}
  /\ UNCHANGED <<turn, timerVars, listVars>>

\* The intro: init_mem, and render() is not called.
Intro ==
  /\ turn = "logic"
  /\ pevd_msg' = 0
  /\ max' = 0 /\ ticks' = 0 /\ tick_state' = FALSE /\ enable' = FALSE /\ flipped' = -1
  /\ UNCHANGED <<turn, listVars>>

\* A console reset before it: the list's ends are in the hack's own memory,
\* which is copied anew; the fonts and the buffer are not touched.
ConsoleReset ==
  /\ turn = "logic"
  /\ pevd_msg' = 0
  /\ max' = 0 /\ ticks' = 0 /\ tick_state' = FALSE /\ enable' = FALSE /\ flipped' = -1
  /\ rdp_start_next' = 0 /\ rdp_end_next' = 0
  /\ drawn_in' = [u \in Unit |-> "none"] /\ sent' = {}
  /\ UNCHANGED <<turn, decompressed, pbuffer>>

-----------------------------------------------------------------------------
(* render()                                                                *)

Span(from, to) == {u \in Unit : from <= u /\ u < to}

\* Mutant: every frame starts at the beginning of the buffer.
StartAtOnce(p) == 0

\* Mutant: the buffer is taken to end where the savestates begin.
StartTooLate(p) == IF ~decompressed \/ p > BufferUnits + Slack THEN 0 ELSE p

StartOfList(p) == IF ~decompressed \/ p > BufferUnits THEN 0 ELSE p

\* A frame later; the first frame clears the buffer.
Aged == [u \in Unit |->
           IF ~decompressed THEN "none"
           ELSE IF drawn_in[u] = "new" THEN "last"
           ELSE IF drawn_in[u] = "last" THEN "old" ELSE drawn_in[u]]

Render(screen) ==
  LET units == DrawUnits(screen) + (IF enable THEN Digit ELSE 0) + PrintUnits(pevd_msg)
      start == StartOfList(pbuffer)
  IN
  /\ turn = "render" /\ turn' = "logic"
  /\ decompressed' = TRUE
  /\ sent' = Span(rdp_start_next, rdp_end_next)
  /\ pbuffer' = start + units
  /\ drawn_in' = [u \in Unit |-> IF u \in Span(start, start + units) THEN "new" ELSE Aged[u]]
  /\ rdp_start_next' = start
  /\ rdp_end_next' = start + units
  /\ UNCHANGED <<timerVars, pevd_msg>>

-----------------------------------------------------------------------------
\* At power on nothing is known of expansion memory, and nothing of it is
\* used: the first frame decompresses the fonts and starts the buffer.
DisplayInit ==
  /\ turn = "logic" /\ pevd_msg = 0
  /\ max = 0 /\ ticks = 0 /\ tick_state = FALSE /\ enable = FALSE /\ flipped = -1
  /\ decompressed = FALSE /\ pbuffer \in {0, BufferUnits + Slack}
  /\ rdp_start_next = 0 /\ rdp_end_next = 0
  /\ drawn_in = [u \in Unit |-> "none"] /\ sent = {}

Draw == \E s \in Screens : Render(s)

DisplayNext == SetMax \/ IPrint \/ Logic \/ Intro \/ ConsoleReset \/ Draw

\* Frames go on: logic and rendering take their turns.
DisplaySpec ==
  DisplayInit /\ [][DisplayNext]_displayVars
    /\ WF_displayVars(Logic) /\ WF_displayVars(Draw)

-----------------------------------------------------------------------------
DisplayTypeOK ==
  /\ turn \in {"logic", "render"} /\ pevd_msg \in Prints \cup {0}
  /\ max \in 0..HWordSize - 1 /\ ticks \in 0..HWordSize - 1
  /\ tick_state \in BOOLEAN /\ enable \in BOOLEAN /\ decompressed \in BOOLEAN
  /\ pbuffer \in Nat /\ rdp_start_next \in Nat /\ rdp_end_next \in Nat
  /\ sent \subseteq Unit

\* What the RDP reads while a frame is drawn is the whole list of the frame
\* before, and nothing the frame writes over (render.c:46-52, 75-76), whatever
\* the host prints.  Below the savestates: they write over what runs into them.
ListWhole == turn = "logic" => \A u \in Unit : u \in sent <=> drawn_in[u] = "last"

\* A text of the host that finds room behind the buffer beside every screen.
\* No text always does.
FitsBehind(text) == \A s \in Screens : DrawUnits(s) + Digit + PrintUnits(text) <= Slack

\* The pointer is looked at once in a frame, and yet no frame draws into the
\* savestates (render.c:50), unless the host has printed a text that does not
\* fit (debug.c:501-505): that one does, where a list begins late enough.
BelowAreas ==
  [][turn = "render" /\ turn' = "logic" /\ FitsBehind(pevd_msg)
       => pbuffer' <= BufferUnits + Slack]_displayVars

\* The digit changes every max + 1 frames (frametimer.c:20-22).
Beats ==
  [][turn = "logic" /\ turn' = "render" /\ tick_state' # tick_state
       => flipped \in {-1, max}]_displayVars

\* Whatever max was before, the digit keeps changing, unless the lower byte of
\* max is 0 or max the greatest half word (frametimer.c:13, 20).
KeepsBeating ==
  \A m \in 0..HWordSize - 2 : m % ByteSize # 0 =>
    (<>[](max = m) => []<><<tick_state' # tick_state>>_displayVars)
=============================================================================
