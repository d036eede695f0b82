----------------------------- MODULE HackProofs -----------------------------
(***************************************************************************)
(* The data under the screens, for every size of it: the list the RDP      *)
(* reads, the area behind it and the frame timer's beat; the bytes of a    *)
(* backup, which a restore reads back without knowing what they are; the   *)
(* console's texts, which say what the memory holds.                       *)
(***************************************************************************)
EXTENDS Display, Console, CloneBuffer, NumbersProofs

-----------------------------------------------------------------------------
(* The display list and the frame timer.                                   *)

\* The half words: what is below the size stays, the size itself becomes 0.
LEMMA ModSmaller == ASSUME NEW n \in Nat, NEW m \in Nat \ {0}, n < m PROVE n % m = n
  OBVIOUS

LEMMA ModRange == ASSUME NEW n \in Int, NEW m \in Nat \ {0} PROVE n % m \in 0..m - 1
  OBVIOUS

LEMMA ModItself == ASSUME NEW m \in Nat \ {0} PROVE m % m = 0
  OBVIOUS

\* A frame's list is short against the buffer and, with a text of the host
\* that fits, against what lies between its end and the savestates.
Units(s) == DrawUnits(s) + (IF enable THEN Digit ELSE 0) + PrintUnits(pevd_msg)

LEMMA ScreensFit ==
  ASSUME NEW s \in Screens, enable \in BOOLEAN, pevd_msg \in Prints \cup {0}
  PROVE  /\ Units(s) \in Nat /\ 2 * Units(s) <= BufferUnits
         /\ FitsBehind(pevd_msg) => Units(s) <= Slack
<1>1. DrawUnits(s) \in Nat /\ Digit = 3
  BY DisplayAssumption DEF DrawUnits, TextUnits, Digit
<1>2. PrintUnits(pevd_msg) \in Nat
  BY DisplayAssumption DEF PrintUnits, TextUnits
<1>3. 2 * (DrawUnits(s) + 3 + PrintUnits(pevd_msg)) <= BufferUnits
  BY <1>1, DisplayAssumption
<1>4. FitsBehind(pevd_msg) => DrawUnits(s) + 3 + PrintUnits(pevd_msg) <= Slack
  <2>1. FitsBehind(pevd_msg) => DrawUnits(s) + Digit + PrintUnits(pevd_msg) <= Slack
    BY Zenon DEF FitsBehind
  <2> QED
    BY <1>1, <2>1
<1>5. CASE enable
  BY <1>1, <1>2, <1>3, <1>4, <1>5, DisplayAssumption DEF Units
<1>6. CASE ~enable
  BY <1>1, <1>2, <1>3, <1>4, <1>6, DisplayAssumption DEF Units
<1> QED
  BY <1>5, <1>6

-----------------------------------------------------------------------------
(* The timer's half of the types, and its beat.                            *)

TimerOK ==
  /\ turn \in {"logic", "render"}
  /\ max \in 0..HWordSize - 1 /\ ticks \in 0..HWordSize - 1
  /\ tick_state \in BOOLEAN /\ enable \in BOOLEAN
  /\ flipped \in -1..HWordSize + 1

\* Since the digit last changed with this max, the ticks have been counted
\* from 0, unless max is never exceeded.
BeatOK == flipped # -1 /\ max < HWordSize - 1 => ticks = flipped /\ ticks <= max

LEMMA TimerStarts == DisplayInit => TimerOK /\ BeatOK
<1> SUFFICES ASSUME DisplayInit PROVE TimerOK /\ BeatOK
  OBVIOUS
<1>1. tick_state \in BOOLEAN /\ enable \in BOOLEAN /\ turn = "logic"
  BY DEF DisplayInit
<1>2. max = 0 /\ ticks = 0 /\ flipped = -1
  BY DEF DisplayInit
<1> QED
  BY <1>1, <1>2, DisplayAssumption DEF TimerOK, BeatOK

LEMMA TimerStep ==
  ASSUME TimerOK, BeatOK, [DisplayNext]_displayVars
  PROVE  /\ TimerOK' /\ BeatOK'
         /\ turn = "logic" /\ turn' = "render" /\ tick_state' # tick_state
              => flipped \in {-1, max}
<1> USE DisplayAssumption
<1>1. CASE SetMax
  <2>1. max' \in 0..HWordSize - 1
    BY <1>1, ModRange DEF SetMax, TimerOK
  <2> QED
    BY <1>1, <2>1 DEF SetMax, TimerOK, BeatOK
<1>2. CASE Logic
  <2>1. UNCHANGED max /\ turn' = "render" /\ turn = "logic"
    BY <1>2 DEF Logic
  <2>2. CASE ~enable'
    <3>1. enable' = FALSE /\ UNCHANGED <<ticks, tick_state, flipped>>
      BY <1>2, <2>2 DEF Logic, FrameTimerUpdate, Enabled
    <3> QED
      BY <2>1, <3>1 DEF TimerOK, BeatOK
  <2>3. CASE enable' /\ (ticks + 1) % HWordSize > max
    <3>1. enable' = TRUE /\ ticks' = 0 /\ tick_state' = ~tick_state /\ flipped' = 0
      BY <1>2, <2>3 DEF Logic, FrameTimerUpdate, Enabled
    <3>2. max < HWordSize - 1
      BY <2>3, ModRange DEF TimerOK
    <3>3. flipped # -1 => ticks = max
      <4> SUFFICES ASSUME flipped # -1 PROVE ticks = max
        OBVIOUS
      <4>1. ticks <= max
        BY <3>2 DEF BeatOK
      <4>2. (ticks + 1) % HWordSize = ticks + 1
        BY <3>2, <4>1, ModSmaller DEF TimerOK
      <4> QED
        BY <2>3, <4>1, <4>2 DEF TimerOK
    <3>4. flipped \in {-1, max}
      BY <3>2, <3>3 DEF BeatOK
    <3>5. TimerOK'
      <4>1. tick_state' \in BOOLEAN
        BY <3>1 DEF TimerOK
      <4> QED
        BY <2>1, <3>1, <4>1 DEF TimerOK
    <3>6. BeatOK'
      BY <2>1, <3>1 DEF TimerOK, BeatOK
    <3> QED
      BY <3>4, <3>5, <3>6
  <2>4. CASE enable' /\ ~((ticks + 1) % HWordSize > max)
    <3>1. /\ enable' = TRUE /\ ticks' = (ticks + 1) % HWordSize /\ UNCHANGED tick_state
          /\ flipped' = IF flipped \in 0..HWordSize THEN flipped + 1 ELSE flipped
      BY <1>2, <2>4 DEF Logic, FrameTimerUpdate, Enabled
    <3>2. ticks' \in 0..HWordSize - 1
      BY <3>1, ModRange DEF TimerOK
    <3>3. flipped' \in -1..HWordSize + 1
      BY <3>1 DEF TimerOK
    <3>4. TimerOK'
      BY <2>1, <3>1, <3>2, <3>3 DEF TimerOK
    <3>5. BeatOK'
      <4> SUFFICES ASSUME flipped' # -1, max < HWordSize - 1
                   PROVE  ticks' = flipped' /\ ticks' <= max
        BY <2>1 DEF BeatOK
      <4>1. flipped # -1
        BY <3>1
      <4>2. ticks = flipped /\ ticks <= max
        BY <4>1 DEF BeatOK
      <4>3. ticks' = ticks + 1
        BY <3>1, <4>2, ModSmaller DEF TimerOK
      <4>4. flipped' = flipped + 1
        BY <3>1, <4>2 DEF TimerOK
      <4> QED
        BY <2>4, <3>1, <4>2, <4>3, <4>4, <3>2 DEF TimerOK
    <3> QED
      BY <3>1, <3>4, <3>5
  <2> QED
    BY <2>2, <2>3, <2>4
<1>3. CASE Intro \/ ConsoleReset
  <2>1. tick_state' \in BOOLEAN /\ enable' \in BOOLEAN /\ UNCHANGED turn
    BY <1>3 DEF Intro, ConsoleReset
  <2>2. max' = 0 /\ ticks' = 0 /\ flipped' = -1
    BY <1>3 DEF Intro, ConsoleReset
  <2> QED
    BY <2>1, <2>2 DEF TimerOK, BeatOK
<1>4. CASE Draw \/ IPrint
  BY <1>4 DEF Draw, Render, IPrint, timerVars, TimerOK, BeatOK
<1>5. CASE UNCHANGED displayVars
  BY <1>5 DEF displayVars, timerVars, TimerOK, BeatOK
<1> QED
  BY <1>1, <1>2, <1>3, <1>4, <1>5 DEF DisplayNext

\* The digit changes every max + 1 frames, also when the menu moves max below
\* the ticks that have already been counted.
THEOREM BeatsAlways == DisplaySpec => Beats
<1>1. TimerOK /\ BeatOK /\ [DisplayNext]_displayVars
        => [turn = "logic" /\ turn' = "render" /\ tick_state' # tick_state
              => flipped \in {-1, max}]_displayVars
  BY TimerStep
<1>2. TimerOK /\ BeatOK /\ [DisplayNext]_displayVars => (TimerOK /\ BeatOK)'
  BY TimerStep
<1> QED
  BY <1>1, <1>2, TimerStarts, PTL DEF DisplaySpec, Beats

-----------------------------------------------------------------------------
(* The list.                                                               *)

Fresh(u) == rdp_start_next <= u /\ u < rdp_end_next

\* The list to be sent is what the last frame drew; it ends where the next
\* frame begins, and two of them fit into the buffer.
ListOK ==
  /\ decompressed \in BOOLEAN /\ pevd_msg \in Prints \cup {0}
  /\ pbuffer \in Nat /\ rdp_start_next \in Nat /\ rdp_end_next \in Nat
  /\ sent \subseteq Unit
  /\ \A u \in Unit : drawn_in[u] = "new" <=> Fresh(u)
  /\ \A u \in Unit : u \in sent <=> drawn_in[u] = "last"
  /\ rdp_start_next < rdp_end_next =>
       /\ decompressed
       /\ pbuffer = rdp_end_next
       /\ 2 * (rdp_end_next - rdp_start_next) <= BufferUnits

LEMMA ListStarts == DisplayInit => ListOK
<1> SUFFICES ASSUME DisplayInit PROVE ListOK
  OBVIOUS
<1>1. pbuffer \in Nat
  BY DisplayAssumption DEF DisplayInit
<1>2. \A u \in Unit : drawn_in[u] = "none"
  BY DEF DisplayInit
<1>3. \A u \in Unit : ~Fresh(u)
  BY DEF DisplayInit, Fresh, Unit
<1>4. decompressed = FALSE /\ pevd_msg = 0 /\ sent = {} /\ rdp_start_next = 0 /\ rdp_end_next = 0
  BY DEF DisplayInit
<1>5. /\ \A u \in Unit : drawn_in[u] = "new" <=> Fresh(u)
      /\ \A u \in Unit : u \in sent <=> drawn_in[u] = "last"
  BY <1>2, <1>3, <1>4
<1>6. decompressed \in BOOLEAN /\ sent \subseteq Unit /\ ~decompressed /\ pevd_msg \in Prints \cup {0}
  BY <1>4
<1>7. ~(rdp_start_next < rdp_end_next) /\ rdp_start_next \in Nat /\ rdp_end_next \in Nat
  BY <1>4
<1> QED
  BY <1>1, <1>5, <1>6, <1>7 DEF ListOK

LEMMA DrawStep ==
  ASSUME ListOK, enable \in BOOLEAN, NEW s \in Screens, Render(s)
  PROVE  ListOK'
<1> DEFINE start == StartOfList(pbuffer)
<1> DEFINE units == Units(s)
<1>1. units \in Nat /\ 2 * units <= BufferUnits
  BY ScreensFit DEF ListOK
<1>2. start \in Nat /\ start <= BufferUnits
  BY DisplayAssumption DEF StartOfList, ListOK
<1>3. /\ decompressed' = TRUE /\ pbuffer' = start + units
      /\ rdp_start_next' = start /\ rdp_end_next' = start + units
      /\ sent' = Span(rdp_start_next, rdp_end_next)
      /\ drawn_in' = [u \in Unit |-> IF u \in Span(start, start + units)
                                     THEN "new" ELSE Aged[u]]
  BY DEF Render, Units
<1>4. ASSUME NEW u \in Unit PROVE drawn_in'[u] = "new" <=> Fresh(u)'
  <2>1. Aged[u] # "new"
    <3>1. CASE drawn_in[u] \in {"new", "last"}
      BY <3>1 DEF Aged
    <3>2. CASE drawn_in[u] \notin {"new", "last"}
      BY <3>2 DEF Aged
    <3> QED
      BY <3>1, <3>2
  <2>2. u \in Span(start, start + units) <=> Fresh(u)'
    BY <1>3 DEF Span, Fresh
  <2> QED
    BY <1>3, <2>1, <2>2
<1>5. ASSUME NEW u \in Unit PROVE u \in sent' <=> drawn_in'[u] = "last"
  <2>1. u \in sent' <=> Fresh(u)
    BY <1>3 DEF Span, Fresh
  <2>2. Aged[u] = "last" <=> Fresh(u)
    <3>1. CASE ~decompressed
      <4>1. ~Fresh(u)
        BY <3>1 DEF ListOK, Fresh, Unit
      <4> QED
        BY <3>1, <4>1 DEF Aged
    <3>2. CASE decompressed
      <4>1. drawn_in[u] = "new" <=> Fresh(u)
        BY DEF ListOK
      <4>2. Aged[u] = "last" <=> drawn_in[u] = "new"
        BY <3>2 DEF Aged
      <4> QED
        BY <4>1, <4>2
    <3> QED
      BY <3>1, <3>2
  <2>3. ~(Fresh(u) /\ u \in Span(start, start + units))
    <3> SUFFICES ASSUME Fresh(u), start <= u, u < start + units PROVE FALSE
      BY DEF Span
    <3>1. /\ decompressed /\ pbuffer = rdp_end_next
          /\ 2 * (rdp_end_next - rdp_start_next) <= BufferUnits
      BY DEF ListOK, Fresh, Unit
    <3>2. CASE pbuffer > BufferUnits
      <4>1. start = 0
        BY <3>2 DEF StartOfList
      <4> QED
        BY <1>1, <3>1, <3>2, <4>1, DisplayAssumption DEF ListOK, Fresh, Unit
    <3>3. CASE ~(pbuffer > BufferUnits)
      <4>1. start = pbuffer
        BY <3>1, <3>3 DEF StartOfList
      <4> QED
        BY <3>1, <4>1 DEF ListOK, Fresh, Unit
    <3> QED
      BY <3>2, <3>3
  <2>4. drawn_in'[u] = IF u \in Span(start, start + units) THEN "new" ELSE Aged[u]
    BY <1>3
  <2> QED
    BY <2>1, <2>2, <2>3, <2>4
<1>6. sent' \subseteq Unit
  BY <1>3 DEF Span
<1>7. pbuffer' \in Nat /\ UNCHANGED pevd_msg
  BY <1>1, <1>2, <1>3, DisplayAssumption DEF Render
<1>8. 2 * (rdp_end_next' - rdp_start_next') <= BufferUnits
  BY <1>1, <1>2, <1>3, DisplayAssumption
<1> HIDE DEF start, units
<1> QED
  BY <1>1, <1>2, <1>3, <1>4, <1>5, <1>6, <1>7, <1>8 DEF ListOK

LEMMA ListStep ==
  ASSUME ListOK, enable \in BOOLEAN, [DisplayNext]_displayVars
  PROVE  ListOK'
<1>1. CASE UNCHANGED listVars /\ pevd_msg' \in Prints \cup {pevd_msg, 0}
  BY <1>1 DEF listVars, ListOK, Fresh
<1>2. CASE ConsoleReset
  <2>1. /\ UNCHANGED <<decompressed, pbuffer>> /\ pevd_msg' = 0 /\ rdp_start_next' = 0 /\ rdp_end_next' = 0
        /\ drawn_in' = [u \in Unit |-> "none"] /\ sent' = {}
    BY <1>2 DEF ConsoleReset
  <2>2. \A u \in Unit : ~Fresh(u)'
    BY <2>1 DEF Fresh, Unit
  <2> QED
    BY <2>1, <2>2 DEF ListOK
<1>3. CASE Draw
  BY <1>3, DrawStep DEF Draw
<1> QED
  BY <1>1, <1>2, <1>3 DEF DisplayNext, SetMax, IPrint, Logic, Intro, displayVars

DisplayInv == TimerOK /\ BeatOK /\ ListOK

LEMMA DisplayInvAlways == DisplaySpec => []DisplayInv
<1>1. DisplayInit => DisplayInv
  BY TimerStarts, ListStarts DEF DisplayInv
<1>2. DisplayInv /\ [DisplayNext]_displayVars => DisplayInv'
  BY TimerStep, ListStep DEF DisplayInv, TimerOK
<1> QED
  BY <1>1, <1>2, PTL DEF DisplaySpec

\* Half words stay half words, and nothing outside of the buffer and what
\* lies behind it is read.
THEOREM DisplayTypes == DisplaySpec => []DisplayTypeOK
<1>1. DisplayInv => DisplayTypeOK
  <2> SUFFICES ASSUME DisplayInv PROVE DisplayTypeOK
    OBVIOUS
  <2>1. max \in 0..HWordSize - 1 /\ ticks \in 0..HWordSize - 1
    BY DEF DisplayInv, TimerOK
  <2>2. tick_state \in BOOLEAN /\ enable \in BOOLEAN /\ turn \in {"logic", "render"}
    BY DEF DisplayInv, TimerOK
  <2>3. /\ decompressed \in BOOLEAN /\ pevd_msg \in Prints \cup {0} /\ sent \subseteq Unit
        /\ pbuffer \in Nat /\ rdp_start_next \in Nat /\ rdp_end_next \in Nat
    BY DEF DisplayInv, ListOK
  <2> QED
    BY <2>1, <2>2, <2>3 DEF DisplayTypeOK
<1> QED
  BY <1>1, DisplayInvAlways, PTL

\* The RDP is always sent the whole list of the frame before, and the frame
\* that is drawn meanwhile writes over none of it.
THEOREM ListsWhole == DisplaySpec => []ListWhole
<1>1. DisplayInv => ListWhole
  BY DEF DisplayInv, ListOK, ListWhole
<1> QED
  BY <1>1, DisplayInvAlways, PTL

\* One look at the pointer in a frame keeps every frame out of the savestates
\* that has no text of the host, or one that fits beside every screen.
THEOREM StaysBelowAreas == DisplaySpec => BelowAreas
<1>1. DisplayInv /\ [DisplayNext]_displayVars
        => [turn = "render" /\ turn' = "logic" /\ FitsBehind(pevd_msg)
              => pbuffer' <= BufferUnits + Slack]_displayVars
  <2> SUFFICES ASSUME DisplayInv, DisplayNext, turn = "render", turn' = "logic",
                      FitsBehind(pevd_msg)
               PROVE  pbuffer' <= BufferUnits + Slack
    OBVIOUS
  <2>1. PICK s \in Screens : Render(s)
    BY DEF DisplayNext, SetMax, IPrint, Logic, Intro, ConsoleReset, Draw
  <2>2. Units(s) \in Nat /\ Units(s) <= Slack
    BY ScreensFit DEF DisplayInv, TimerOK, ListOK
  <2>3. pbuffer' = StartOfList(pbuffer) + Units(s)
    BY <2>1 DEF Render, Units
  <2>4. StartOfList(pbuffer) \in Nat /\ StartOfList(pbuffer) <= BufferUnits
    BY DisplayAssumption DEF DisplayInv, ListOK, StartOfList
  <2> QED
    BY <2>2, <2>3, <2>4, DisplayAssumption
<1> QED
  BY <1>1, DisplayInvAlways, PTL DEF DisplaySpec, BelowAreas

-----------------------------------------------------------------------------
(* Sequences one after the other.                                          *)

LEMMA RangeJoined ==
  ASSUME NEW S, NEW s \in Seq(S), NEW t \in Seq(S)
  PROVE  Range(s \o t) = Range(s) \cup Range(t)
<1>0. /\ s \o t \in Seq(S) /\ Len(s \o t) = Len(s) + Len(t)
      /\ Len(s) \in Nat /\ Len(t) \in Nat
      /\ \A k \in 1..Len(s) : (s \o t)[k] = s[k]
      /\ \A k \in 1..Len(t) : (s \o t)[Len(s) + k] = t[k]
  BY Joined
<1> DEFINE u == s \o t  a == Len(s)  b == Len(t)
<1>1. DOMAIN s = 1..a /\ DOMAIN t = 1..b /\ DOMAIN u = 1..a + b
  BY <1>0
<1> HIDE DEF u, a, b
<1>2. \A k \in 1..a : k \in 1..a + b /\ u[k] = s[k]
  BY <1>0 DEF u, a, b
<1>3. \A k \in 1..b : a + k \in 1..a + b /\ u[a + k] = t[k]
  BY <1>0 DEF u, a, b
<1>4. ASSUME NEW x \in Range(u) PROVE x \in Range(s) \cup Range(t)
  <2>1. PICK k \in 1..a + b : x = u[k]
    BY <1>1 DEF Range
  <2>2. CASE k <= a
    BY <1>0, <1>1, <1>2, <2>1, <2>2 DEF Range, a, b
  <2>3. CASE k > a
    <3>1. k - a \in 1..b /\ a + (k - a) = k
      BY <1>0, <2>3 DEF a, b
    <3> DEFINE l == k - a
    <3>2. l \in 1..b /\ a + l = k
      BY <3>1
    <3> HIDE DEF l
    <3>3. x = t[l]
      BY <1>3, <2>1, <3>2
    <3> QED
      BY <1>1, <3>2, <3>3 DEF Range
  <2> QED
    BY <1>0, <2>2, <2>3 DEF a, b
<1>5. Range(s) \subseteq Range(u) /\ Range(t) \subseteq Range(u)
  BY <1>1, <1>2, <1>3 DEF Range
<1> QED
  BY <1>4, <1>5 DEF u

LEMMA UpToEquation ==
  ASSUME NEW S, NEW seqs \in Seq(Seq(S))
  PROVE  /\ UpTo(seqs)[0] = <<>>
         /\ \A i \in 1..Len(seqs) : UpTo(seqs)[i] = UpTo(seqs)[i - 1] \o seqs[i]
         /\ \A i \in 0..Len(seqs) : UpTo(seqs)[i] \in Seq(S)
<1> DEFINE N == Len(seqs)
           V == Seq(S)
           none == <<>>
           step == [i \in 1..N |-> [v \in V |-> v \o seqs[i]]]
           F == CHOOSE f : f = [i \in 0..N |-> IF i = 0 THEN <<>> ELSE f[i - 1] \o seqs[i]]
<1>1. N \in Nat /\ none \in V /\ \A i \in 1..N : seqs[i] \in V
  OBVIOUS
<1>2. step \in [1..N -> [V -> V]]
  <2>1. \A i \in 1..N, v \in V : v \o seqs[i] \in V
    BY <1>1
  <2> HIDE DEF V, N
  <2> QED
    BY <2>1
<1> HIDE DEF N, V
<1>3. PICK f \in [0..N -> V] : \A n \in 0..N : f[n] = IF n = 0 THEN none ELSE step[n][f[n - 1]]
  <2> HIDE DEF step, none
  <2>1. Iterates(N, V, none, step)
    BY <1>1, <1>2 DEF Iterates
  <2> QED
    BY <2>1, Iteration
<1>4. ASSUME NEW n \in 0..N PROVE f[n] = IF n = 0 THEN <<>> ELSE f[n - 1] \o seqs[n]
  <2>1. CASE n # 0
    <3>1. n \in 1..N /\ n - 1 \in 0..N
      BY <1>1, <2>1
    <3>2. f[n - 1] \in V /\ f[n] = step[n][f[n - 1]]
      BY <1>3, <2>1, <3>1
    <3> QED
      BY <2>1, <3>1, <3>2
  <2> QED
    BY <1>3, <2>1
<1>5. f = [i \in 0..N |-> IF i = 0 THEN <<>> ELSE f[i - 1] \o seqs[i]]
  BY <1>4
<1>6. F = [i \in 0..N |-> IF i = 0 THEN <<>> ELSE F[i - 1] \o seqs[i]]
  BY <1>5
<1>7. UpTo(seqs) = F
  BY DEF UpTo, N
<1> HIDE DEF F
<1>8. F[0] = none /\ \A i \in 1..N : F[i] = F[i - 1] \o seqs[i]
  <2>1. F[0] = none
    BY <1>1, <1>6
  <2>2. ASSUME NEW i \in 1..N PROVE F[i] = F[i - 1] \o seqs[i]
    <3>1. i \in 0..N /\ i # 0
      BY <1>1
    <3> QED
      BY <1>6, <3>1
  <2> QED
    BY <2>1, <2>2
<1>9. \A i \in 0..N : F[i] \in V
  <2>1. F[0] \in V
    BY <1>1, <1>8
  <2>2. ASSUME NEW n \in 1..N, F[n - 1] \in V PROVE F[n] \in V
    <3>1. F[n - 1] \o seqs[n] \in V
      BY <1>1, <2>2 DEF V
    <3> QED
      BY <1>8, <3>1
  <2> QED
    BY <1>1, <2>1, <2>2, IterationType
<1> QED
  BY <1>7, <1>8, <1>9 DEF N, V

\* What is there stays there.
LEMMA UpToKeeps ==
  ASSUME NEW S, NEW seqs \in Seq(Seq(S)), NEW i \in 0..Len(seqs)
  PROVE  \A j \in i..Len(seqs) :
           /\ Len(UpTo(seqs)[i]) <= Len(UpTo(seqs)[j])
           /\ \A k \in 1..Len(UpTo(seqs)[i]) : UpTo(seqs)[j][k] = UpTo(seqs)[i][k]
<1> DEFINE F == UpTo(seqs)
           N == Len(seqs)
           P(j) == /\ Len(F[i]) <= Len(F[j])
                   /\ \A k \in 1..Len(F[i]) : F[j][k] = F[i][k]
           T == {m \in Nat : i + m <= N => P(i + m)}
<1>1. /\ \A n \in 1..N : F[n] = F[n - 1] \o seqs[n]
      /\ \A n \in 0..N : F[n] \in Seq(S)
      /\ N \in Nat /\ \A n \in 1..N : seqs[n] \in Seq(S)
  <2>1. N \in Nat /\ \A n \in 1..N : seqs[n] \in Seq(S)
    OBVIOUS
  <2> QED
    BY <2>1, UpToEquation, Zenon
<1> HIDE DEF F, N
<1>2. 0 \in T
  BY <1>1 DEF N
<1>3. ASSUME NEW m \in Nat, m \in T PROVE m + 1 \in T
  <2> SUFFICES ASSUME i + (m + 1) <= N PROVE P(i + (m + 1))
    OBVIOUS
  <2> DEFINE j == i + m
  <2>1. /\ j \in Nat /\ j + 1 = i + (m + 1) /\ j + 1 \in 1..N /\ j \in 0..N /\ (j + 1) - 1 = j
        /\ i \in 0..N
    BY <1>1 DEF N
  <2>2. P(j)
    BY <1>3, <2>1
  <2> HIDE DEF j
  <2>3. F[j + 1] = F[j] \o seqs[j + 1] /\ F[j] \in Seq(S) /\ seqs[j + 1] \in Seq(S) /\ F[i] \in Seq(S)
    BY <1>1, <2>1
  <2>4. Len(F[j]) <= Len(F[j + 1]) /\ \A k \in 1..Len(F[j]) : F[j + 1][k] = F[j][k]
    <3> DEFINE s == F[j]  t == seqs[j + 1]
    <3>1. s \in Seq(S) /\ t \in Seq(S) /\ F[j + 1] = s \o t
      BY <2>3
    <3> HIDE DEF s, t
    <3>2. Len(s) <= Len(s \o t) /\ \A k \in 1..Len(s) : (s \o t)[k] = s[k]
      BY <3>1, Joined
    <3> QED
      BY <3>1, <3>2 DEF s
  <2>5. Len(F[i]) \in Nat /\ Len(F[j]) \in Nat /\ Len(F[j + 1]) \in Nat
    <3> DEFINE s == F[i]  t == F[j]  u == F[j + 1]
    <3>1. s \in Seq(S) /\ t \in Seq(S) /\ u \in Seq(S)
      BY <1>1, <2>1, <2>3
    <3> HIDE DEF s, t, u
    <3>2. Len(s) \in Nat /\ Len(t) \in Nat /\ Len(u) \in Nat
      BY <3>1
    <3> QED
      BY <3>2 DEF s, t, u
  <2>6. P(j + 1)
    BY <2>2, <2>4, <2>5
  <2> QED
    BY <2>1, <2>6
<1> HIDE DEF T
<1>4. \A m \in Nat : m \in T
  BY <1>2, <1>3, Induction
<1> HIDE DEF P
<1>5. ASSUME NEW j \in i..N PROVE P(j)
  <2>1. j - i \in Nat /\ i + (j - i) = j
    BY <1>1 DEF N
  <2>2. j - i \in T
    BY <1>4, <2>1
  <2> QED
    BY <2>1, <2>2 DEF T
<1> QED
  BY <1>5 DEF P, F, N

\* Where each of them lies.
LEMMA FlatPlaces ==
  ASSUME NEW S, NEW seqs \in Seq(Seq(S))
  PROVE  /\ Flat(seqs) \in Seq(S)
         /\ \A i \in 1..Len(seqs) : \A k \in 1..Len(seqs[i]) :
              /\ Len(UpTo(seqs)[i - 1]) + k \in 1..Len(Flat(seqs))
              /\ Flat(seqs)[Len(UpTo(seqs)[i - 1]) + k] = seqs[i][k]
<1> DEFINE F == UpTo(seqs)
           N == Len(seqs)
<1>1. /\ \A n \in 1..N : F[n] = F[n - 1] \o seqs[n]
      /\ \A n \in 0..N : F[n] \in Seq(S)
      /\ N \in Nat /\ \A n \in 1..N : seqs[n] \in Seq(S)
      /\ Flat(seqs) = F[N]
  <2>1. N \in Nat /\ \A n \in 1..N : seqs[n] \in Seq(S)
    OBVIOUS
  <2>2. Flat(seqs) = F[N]
    BY Zenon DEF Flat
  <2> QED
    BY <2>1, <2>2, UpToEquation, Zenon
<1>2. \A i \in 0..N : \A j \in i..N :
        Len(F[i]) <= Len(F[j]) /\ \A k \in 1..Len(F[i]) : F[j][k] = F[i][k]
  BY UpToKeeps
<1> HIDE DEF F, N
<1>3. ASSUME NEW i \in 1..N, NEW k \in Nat, k \in 1..Len(seqs[i])
      PROVE  Len(F[i - 1]) + k \in 1..Len(F[N]) /\ F[N][Len(F[i - 1]) + k] = seqs[i][k]
  <2> DEFINE s == F[i - 1]  t == seqs[i]  u == F[i]  v == F[N]  n == Len(s) + k
  <2>1. /\ i - 1 \in 0..N /\ i \in 0..N /\ N \in i..N /\ N \in 0..N
    BY <1>1
  <2>2. /\ u = s \o t /\ s \in Seq(S) /\ t \in Seq(S) /\ u \in Seq(S) /\ v \in Seq(S)
        /\ k \in 1..Len(t)
    BY <1>1, <1>3, <2>1
  <2>3. Len(u) <= Len(v) /\ \A l \in 1..Len(u) : v[l] = u[l]
    BY <1>2, <2>1
  <2> HIDE DEF s, t, u, v
  <2>4. n \in 1..Len(u) /\ u[n] = t[k] /\ Len(u) \in Nat /\ Len(v) \in Nat
    BY <2>2, Joined
  <2> HIDE DEF n
  <2>5. n \in 1..Len(v) /\ v[n] = t[k]
    BY <2>3, <2>4
  <2> QED
    BY <2>5 DEF n, s, t, v
<1>4. ASSUME NEW i \in 1..N, NEW k, k \in 1..Len(seqs[i]) PROVE k \in Nat
  BY <1>4
<1>5. \A i \in 1..N : \A k \in 1..Len(seqs[i]) :
        Len(F[i - 1]) + k \in 1..Len(F[N]) /\ F[N][Len(F[i - 1]) + k] = seqs[i][k]
  BY <1>3, <1>4, Zenon
<1>6. F[N] \in Seq(S)
  BY <1>1
<1> QED
  BY <1>1, <1>5, <1>6, Zenon DEF F, N

\* And nothing else.
LEMMA FlatRange ==
  ASSUME NEW S, NEW seqs \in Seq(Seq(S))
  PROVE  Range(Flat(seqs)) = UNION {Range(seqs[i]) : i \in 1..Len(seqs)}
<1> DEFINE F == UpTo(seqs)
           N == Len(seqs)
           T == {n \in Nat : n <= N => Range(F[n]) = UNION {Range(seqs[i]) : i \in 1..n}}
<1>1. /\ \A n \in 1..N : F[n] = F[n - 1] \o seqs[n]
      /\ \A n \in 0..N : F[n] \in Seq(S)
      /\ N \in Nat /\ \A n \in 1..N : seqs[n] \in Seq(S)
      /\ Flat(seqs) = F[N] /\ F[0] = <<>>
  <2>1. N \in Nat /\ \A n \in 1..N : seqs[n] \in Seq(S)
    OBVIOUS
  <2>2. Flat(seqs) = F[N]
    BY Zenon DEF Flat
  <2> QED
    BY <2>1, <2>2, UpToEquation, Zenon
<1> HIDE DEF F, N
<1>2. 0 \in T
  <2>1. Range(F[0]) = {}
    BY <1>1 DEF Range
  <2> QED
    BY <2>1
<1>3. ASSUME NEW n \in Nat, n \in T PROVE n + 1 \in T
  <2> SUFFICES ASSUME n + 1 <= N
               PROVE  Range(F[n + 1]) = UNION {Range(seqs[i]) : i \in 1..n + 1}
    OBVIOUS
  <2>1. n + 1 \in 1..N /\ (n + 1) - 1 = n /\ n \in 0..N
    BY <1>1
  <2>2. F[n + 1] = F[n] \o seqs[n + 1] /\ F[n] \in Seq(S) /\ seqs[n + 1] \in Seq(S)
    BY <1>1, <2>1
  <2>3. Range(F[n + 1]) = Range(F[n]) \cup Range(seqs[n + 1])
    <3> DEFINE s == F[n]  t == seqs[n + 1]
    <3>1. s \in Seq(S) /\ t \in Seq(S) /\ F[n + 1] = s \o t
      BY <2>2
    <3> HIDE DEF s, t
    <3>2. Range(s \o t) = Range(s) \cup Range(t)
      BY <3>1, RangeJoined
    <3> QED
      BY <3>1, <3>2 DEF s, t
  <2>4. Range(F[n]) = UNION {Range(seqs[i]) : i \in 1..n}
    BY <1>3, <2>1
  <2>5. 1..n + 1 = (1..n) \cup {n + 1}
    OBVIOUS
  <2> QED
    BY <2>3, <2>4, <2>5
<1> HIDE DEF T
<1>4. N \in T
  BY <1>1, <1>2, <1>3, Induction
<1> QED
  BY <1>1, <1>4 DEF T, N

-----------------------------------------------------------------------------
(* Words in memory.                                                        *)

Byte == 0..ByteValues - 1

LEMMA Widths ==
  /\ ByteValues \in Nat \ {0, 1} /\ WordBytes \in Nat \ {0}
  /\ Word \subseteq Nat /\ NULL \in Word /\ NULL = 0
  /\ LevelRam \subseteq Word \ {NULL} /\ Contents \subseteq [LevelRam -> Byte]
  /\ RngValues \subseteq Word
<1>1. ByteValues \in Nat \ {0, 1} /\ WordBytes \in Nat \ {0}
  BY CloneBufferAssumption
<1>2. Power(ByteValues, WordBytes) \in Nat \ {0}
  BY <1>1, PowerEquation
<1>3. Word \subseteq Nat /\ NULL \in Word
  BY <1>2 DEF Word, NULL
<1> QED
  BY <1>1, <1>3, CloneBufferAssumption DEF NULL, Byte

LEMMA WordOfEquation ==
  ASSUME NEW mem, NEW w
  PROVE  \E f : /\ f[0] = 0
                /\ \A i \in 1..WordBytes : f[i] = ByteValues * f[i - 1] + mem[WordBytes * w + i]
                /\ WordOf(mem, w) = f[WordBytes]
<1> DEFINE G(g, n) ==
             g = [i \in 0..n |->
                    IF i = 0 THEN 0 ELSE ByteValues * g[i - 1] + mem[WordBytes * w + i]]
           S == {n \in Nat : \E g : G(g, n)}
           f == CHOOSE f : G(f, WordBytes)
<1>1. 0 \in S
  <2> DEFINE z == [i \in 0..0 |-> 0]
  <2>1. \A i \in 0..0 : i = 0
    OBVIOUS
  <2>2. G(z, 0)
    BY <2>1
  <2> QED
    BY <2>2
<1>2. ASSUME NEW n \in Nat, n \in S PROVE n + 1 \in S
  <2>1. PICK g : G(g, n)
    BY <1>2
  <2> DEFINE h == [i \in 0..n + 1 |->
                     IF i = 0 THEN 0
                     ELSE ByteValues * g[i - 1] + mem[WordBytes * w + i]]
  <2>2. \A i \in 0..n : h[i] = g[i]
    BY <2>1
  <2>3. \A i \in 0..n + 1 : i # 0 => i - 1 \in 0..n
    OBVIOUS
  <2>4. \A i \in 0..n + 1 : i # 0 => h[i - 1] = g[i - 1]
    BY <2>2, <2>3
  <2>5. G(h, n + 1)
    BY <2>4
  <2> HIDE DEF h, G
  <2> QED
    BY <2>5
<1> HIDE DEF S
<1>3. WordBytes \in S /\ WordBytes \in Nat
  BY <1>1, <1>2, Induction, Widths
<1>4. \E g : G(g, WordBytes)
  BY <1>3 DEF S
<1> HIDE DEF G
<1>5. G(f, WordBytes)
  BY <1>4
<1>6. WordOf(mem, w) = f[WordBytes]
  BY DEF WordOf, G
<1> HIDE DEF f
<1>7. f[0] = 0 /\ \A i \in 1..WordBytes : f[i] = ByteValues * f[i - 1] + mem[WordBytes * w + i]
  BY <1>3, <1>5 DEF G
<1> QED
  BY <1>6, <1>7

LEMMA BytesOfWord ==
  ASSUME NEW v \in Word
  PROVE  BytesOf(v) \in Seq(Byte) /\ Len(BytesOf(v)) = WordBytes
<1>1. ASSUME NEW i \in 1..WordBytes
      PROVE  (v \div Power(ByteValues, WordBytes - i)) % ByteValues \in Byte
  <2> DEFINE p == Power(ByteValues, WordBytes - i)
  <2>1. WordBytes - i \in Nat
    BY Widths
  <2>2. p \in Nat \ {0} /\ v \in Nat
    BY <2>1, Widths, PowerEquation
  <2> HIDE DEF p
  <2>3. v \div p \in Nat
    BY <2>2, Division
  <2>4. (v \div p) % ByteValues \in Byte
    BY <2>3, Widths, Division DEF Byte
  <2> QED
    BY <2>4 DEF p
<1>2. BytesOf(v) = [i \in 1..WordBytes |-> (v \div Power(ByteValues, WordBytes - i)) % ByteValues]
  BY DEF BytesOf
<1>3. BytesOf(v) \in [1..WordBytes -> Byte]
  BY <1>1, <1>2
<1> QED
  BY <1>3, Widths

\* Memory that holds the bytes of a word reads as this word.
LEMMA WordOfBytes ==
  ASSUME NEW mem, NEW w, NEW v \in Word,
         \A k \in 1..WordBytes : mem[WordBytes * w + k] = BytesOf(v)[k]
  PROVE  WordOf(mem, w) = v
<1>1. PICK f : /\ f[0] = 0
               /\ \A i \in 1..WordBytes : f[i] = ByteValues * f[i - 1] + mem[WordBytes * w + i]
               /\ WordOf(mem, w) = f[WordBytes]
  BY WordOfEquation
<1>2. \A i \in 1..WordBytes :
        f[i] = ByteValues * f[i - 1] + ((v \div Power(ByteValues, WordBytes - i)) % ByteValues)
  BY <1>1 DEF BytesOf
<1>3. v \in 0..Power(ByteValues, WordBytes) - 1
  BY DEF Word
<1>4. f[WordBytes] = v
  BY <1>1, <1>2, <1>3, Widths, HornerOfDigits
<1> QED
  BY <1>1, <1>4

-----------------------------------------------------------------------------
(* A record, and the list of them.                                         *)

Part == {p \in [at : Word \ {NULL}, size : Word] : Bytes(p) \subseteq LevelRam}

Words(p) == p.size \div WordBytes

\* Of a record written, what the properties are about.
IsRecord(mem, w, p, contents) ==
  /\ WordOf(mem, w) = p.at /\ WordOf(mem, w + 1) = p.size
  /\ \A k \in 1..WordBytes * Words(p) : mem[WordBytes * (w + 2) + k] = contents[p.at + k - 1]

LEMMA PartTypes ==
  ASSUME NEW p \in Part
  PROVE  /\ p.at \in Word \ {NULL} /\ p.size \in Word /\ p.at \in Nat /\ p.size \in Nat
         /\ Words(p) \in Nat /\ WordBytes * Words(p) \in Nat
         /\ WordBytes * Words(p) <= p.size /\ p.size < WordBytes * Words(p) + WordBytes
         /\ \A k \in 1..p.size : p.at + k - 1 \in LevelRam
<1>1. p.at \in Word \ {NULL} /\ p.size \in Word /\ p.at \in Nat /\ p.size \in Nat
  BY Widths DEF Part
<1>2. \A k \in 1..p.size : p.at + k - 1 \in LevelRam
  BY <1>1 DEF Part, Bytes
<1>3. /\ Words(p) \in Nat /\ p.size % WordBytes \in 0..WordBytes - 1
      /\ p.size = WordBytes * Words(p) + (p.size % WordBytes)
  BY <1>1, Widths, Division DEF Words
<1> DEFINE x == WordBytes * Words(p)  r == p.size % WordBytes
<1>4. x \in Nat
  BY <1>3, Widths
<1> HIDE DEF x
<1>5. r \in 0..WordBytes - 1 /\ p.size = x + r
  BY <1>3 DEF x
<1> HIDE DEF r
<1>6. x <= p.size /\ p.size < x + WordBytes
  BY <1>1, <1>4, <1>5, Widths
<1> QED
  BY <1>1, <1>2, <1>3, <1>4, <1>6 DEF x

LEMMA RecordBytes ==
  ASSUME NEW p \in Part, level_ram \in [LevelRam -> Byte]
  PROVE  /\ Record(p) \in Seq(Byte)
         /\ Len(Record(p)) = WordBytes * (2 + Words(p))
         /\ \A k \in 1..WordBytes : Record(p)[k] = BytesOf(p.at)[k]
         /\ \A k \in 1..WordBytes : Record(p)[WordBytes + k] = BytesOf(p.size)[k]
         /\ \A k \in 1..WordBytes * Words(p) :
              Record(p)[2 * WordBytes + k] = level_ram[p.at + k - 1]
<1> DEFINE n == WordBytes * Words(p)
           a == BytesOf(p.at)
           s == BytesOf(p.size)
           d == [i \in 1..n |-> level_ram[p.at + i - 1]]
<1>1. /\ a \in Seq(Byte) /\ Len(a) = WordBytes
      /\ s \in Seq(Byte) /\ Len(s) = WordBytes /\ n \in Nat
  BY PartTypes, BytesOfWord
<1>2. \A i \in 1..n : level_ram[p.at + i - 1] \in Byte
  BY PartTypes
<1>3. d \in Seq(Byte) /\ Len(d) = n /\ \A k \in 1..n : d[k] = level_ram[p.at + k - 1]
  <2> HIDE DEF n
  <2> QED
    BY <1>1, <1>2
<1>4. Record(p) = (a \o s) \o d
  BY DEF Record, Words
<1>5. WordBytes * (2 + Words(p)) = 2 * WordBytes + n
  BY PartTypes, Widths
<1> HIDE DEF a, s, d, n
<1>6. /\ a \o s \in Seq(Byte) /\ Len(a \o s) = 2 * WordBytes
      /\ \A k \in 1..WordBytes : (a \o s)[k] = a[k]
      /\ \A k \in 1..WordBytes : (a \o s)[WordBytes + k] = s[k]
  <2>1. /\ a \o s \in Seq(Byte) /\ Len(a \o s) = Len(a) + Len(s)
        /\ \A k \in 1..Len(a) : (a \o s)[k] = a[k]
        /\ \A k \in 1..Len(s) : (a \o s)[Len(a) + k] = s[k]
    <3>1. a \in Seq(Byte) /\ s \in Seq(Byte)
      BY <1>1
    <3> QED
      BY ONLY <3>1, Joined
  <2>2. WordBytes + WordBytes = 2 * WordBytes
    BY Widths
  <2> QED
    BY <1>1, <2>1, <2>2, Zenon
<1> DEFINE h == a \o s
<1>7. h \in Seq(Byte) /\ Len(h) = 2 * WordBytes
  BY <1>6
<1> HIDE DEF h
<1>8. /\ h \o d \in Seq(Byte) /\ Len(h \o d) = 2 * WordBytes + n
      /\ \A k \in 1..2 * WordBytes : (h \o d)[k] = h[k]
      /\ \A k \in 1..n : (h \o d)[2 * WordBytes + k] = d[k]
  <2>1. /\ h \o d \in Seq(Byte) /\ Len(h \o d) = Len(h) + Len(d)
        /\ \A k \in 1..Len(h) : (h \o d)[k] = h[k]
        /\ \A k \in 1..Len(d) : (h \o d)[Len(h) + k] = d[k]
    <3>1. h \in Seq(Byte) /\ d \in Seq(Byte)
      BY <1>3, <1>7
    <3> QED
      BY ONLY <3>1, Joined
  <2> QED
    BY <1>3, <1>7, <2>1, Zenon
<1>9. /\ \A k \in 1..WordBytes : (h \o d)[k] = a[k]
      /\ \A k \in 1..WordBytes : (h \o d)[WordBytes + k] = s[k]
  <2>1. \A k \in 1..WordBytes : k \in 1..2 * WordBytes /\ WordBytes + k \in 1..2 * WordBytes
    BY Widths
  <2> QED
    BY <1>6, <1>8, <2>1 DEF h
<1>10. Record(p) = h \o d
  BY <1>4 DEF h
<1> QED
  BY <1>3, <1>5, <1>8, <1>9, <1>10 DEF a, s, n

\* Word by word: where the records begin and where the list ends.
Starts(parts, start) ==
  /\ start \in [0..Len(parts) -> Nat] /\ start[0] = 0
  /\ \A i \in 1..Len(parts) : start[i] = start[i - 1] + 2 + Words(parts[i])

LEMMA StartsExist ==
  ASSUME NEW parts \in Seq(Part)
  PROVE  \E start : Starts(parts, start)
<1> DEFINE N == Len(parts)
           step == [i \in 1..N |-> [v \in Nat |-> v + 2 + Words(parts[i])]]
<1>1. N \in Nat /\ \A i \in 1..N : Words(parts[i]) \in Nat
  BY PartTypes
<1> HIDE DEF N
<1>2. Iterates(N, Nat, 0, step)
  <2>1. \A i \in 1..N, v \in Nat : v + 2 + Words(parts[i]) \in Nat
    BY <1>1
  <2>2. step \in [1..N -> [Nat -> Nat]]
    BY <2>1
  <2> HIDE DEF step
  <2> QED
    BY <1>1, <2>2 DEF Iterates
<1>3. PICK f \in [0..N -> Nat] : \A n \in 0..N : f[n] = IF n = 0 THEN 0 ELSE step[n][f[n - 1]]
  <2> HIDE DEF step
  <2> QED
    BY <1>2, Iteration
<1>4. ASSUME NEW i \in 1..N PROVE f[i] = f[i - 1] + 2 + Words(parts[i])
  <2>1. i \in 0..N /\ i - 1 \in 0..N /\ i # 0
    BY <1>1
  <2>2. f[i] = step[i][f[i - 1]] /\ f[i - 1] \in Nat
    BY <1>3, <2>1
  <2> QED
    BY <2>2
<1>5. f[0] = 0
  <2> HIDE DEF step
  <2>1. 0 \in 0..N
    BY <1>1
  <2> QED
    BY <1>3, <2>1
<1> QED
  BY <1>4, <1>5 DEF Starts, N

LEMMA StartsGrow ==
  ASSUME NEW parts \in Seq(Part), NEW start, Starts(parts, start), NEW i \in 0..Len(parts)
  PROVE  \A j \in i..Len(parts) : start[i] + (j - i) <= start[j]
<1> DEFINE N == Len(parts)
           S == {m \in Nat : i + m <= N => start[i] + m <= start[i + m]}
<1>1. N \in Nat /\ i \in 0..N /\ start \in [0..N -> Nat] /\ \A j \in 1..N : Words(parts[j]) \in Nat
  BY PartTypes DEF Starts
<1>2. \A j \in 1..N : start[j] = start[j - 1] + 2 + Words(parts[j])
  BY DEF Starts
<1> HIDE DEF N
<1>3. 0 \in S
  BY <1>1
<1>4. ASSUME NEW m \in Nat, m \in S PROVE m + 1 \in S
  <2> SUFFICES ASSUME i + (m + 1) <= N PROVE start[i] + (m + 1) <= start[i + (m + 1)]
    OBVIOUS
  <2> DEFINE j == i + m
  <2>1. j \in 0..N /\ j + 1 \in 1..N /\ (j + 1) - 1 = j /\ i + (m + 1) = j + 1
    BY <1>1
  <2>2. start[i] + m <= start[j]
    BY <1>1, <1>4
  <2> HIDE DEF j
  <2>3. start[j + 1] = start[j] + 2 + Words(parts[j + 1]) /\ Words(parts[j + 1]) \in Nat
    BY <1>1, <1>2, <2>1
  <2>4. start[i] \in Nat /\ start[j] \in Nat
    BY <1>1, <2>1
  <2>5. start[i] + (m + 1) <= start[j + 1]
    BY <2>2, <2>3, <2>4
  <2> QED
    BY <2>1, <2>5
<1> HIDE DEF S
<1>5. \A m \in Nat : m \in S
  BY <1>3, <1>4, Induction
<1>6. ASSUME NEW j \in i..N PROVE start[i] + (j - i) <= start[j]
  <2>1. j - i \in Nat /\ i + (j - i) = j /\ j <= N
    BY <1>1
  <2>2. j - i \in S
    BY <1>5, <2>1
  <2> QED
    BY <2>1, <2>2 DEF S
<1> QED
  BY <1>6 DEF N

\* What Stored leaves in the area.
Written(mem, parts, start, contents, v) ==
  /\ Starts(parts, start)
  /\ \A i \in 1..Len(parts) : IsRecord(mem, start[i - 1], parts[i], contents)
  /\ WordOf(mem, start[Len(parts)]) = NULL /\ WordOf(mem, start[Len(parts)] + 1) = v
  /\ WordBytes * (start[Len(parts)] + 2) <= Len(mem)

\* Bytes of a record in memory are the record.
LEMMA RecordRead ==
  ASSUME NEW p \in Part, level_ram \in [LevelRam -> Byte], NEW mem, NEW w \in Nat,
         \A k \in 1..WordBytes * (2 + Words(p)) : mem[WordBytes * w + k] = Record(p)[k]
  PROVE  IsRecord(mem, w, p, level_ram)
<1> DEFINE a == WordBytes * w  n == WordBytes * Words(p)  r == Record(p)
<1>1. /\ a \in Nat /\ n \in Nat /\ WordBytes \in Nat \ {0}
      /\ WordBytes * (2 + Words(p)) = 2 * WordBytes + n
      /\ WordBytes * (w + 1) = a + WordBytes
      /\ WordBytes * (w + 2) = a + 2 * WordBytes
      /\ w + 1 \in Nat
  BY Widths, PartTypes
<1>2. \A k \in 1..2 * WordBytes + n : mem[a + k] = r[k]
  BY <1>1
<1>3. /\ \A k \in 1..WordBytes : r[k] = BytesOf(p.at)[k]
      /\ \A k \in 1..WordBytes : r[WordBytes + k] = BytesOf(p.size)[k]
      /\ \A k \in 1..n : r[2 * WordBytes + k] = level_ram[p.at + k - 1]
  BY RecordBytes
<1> HIDE DEF a, n, r
<1>4. WordOf(mem, w) = p.at
  <2>1. \A k \in 1..WordBytes : mem[WordBytes * w + k] = BytesOf(p.at)[k]
    <3>1. \A k \in 1..WordBytes : mem[a + k] = BytesOf(p.at)[k]
      BY <1>1, <1>2, <1>3
    <3> QED
      BY <3>1 DEF a
  <2> QED
    BY <2>1, PartTypes, WordOfBytes
<1>5. WordOf(mem, w + 1) = p.size
  <2>1. \A k \in 1..WordBytes : mem[WordBytes * (w + 1) + k] = BytesOf(p.size)[k]
    <3>1. ASSUME NEW k \in 1..WordBytes
          PROVE  mem[(a + WordBytes) + k] = BytesOf(p.size)[k]
      <4>1. WordBytes + k \in 1..2 * WordBytes + n /\ (a + WordBytes) + k = a + (WordBytes + k)
        BY <1>1
      <4> QED
        BY <1>2, <1>3, <4>1
    <3> QED
      BY <1>1, <3>1
  <2> QED
    BY <2>1, PartTypes, WordOfBytes
<1>6. ASSUME NEW k \in 1..n
      PROVE  mem[WordBytes * (w + 2) + k] = level_ram[p.at + k - 1]
  <2>1. /\ 2 * WordBytes + k \in 1..2 * WordBytes + n
        /\ (a + 2 * WordBytes) + k = a + (2 * WordBytes + k)
    BY <1>1
  <2>2. mem[(a + 2 * WordBytes) + k] = level_ram[p.at + k - 1]
    BY <1>2, <1>3, <2>1
  <2> QED
    BY <1>1, <2>2
<1> QED
  BY <1>4, <1>5, <1>6 DEF IsRecord, n

LEMMA StoredIsWritten ==
  ASSUME NEW parts \in Seq(Part), NEW start, Starts(parts, start),
         level_ram \in [LevelRam -> Byte], rng \in Word, area \in Seq(Byte)
  PROVE  Stored(parts) \in Seq(Byte) /\ Written(Stored(parts), parts, start, level_ram, rng)
<1> DEFINE N == Len(parts)
           recs == [i \in 1..N |-> Record(parts[i])]
           F == UpTo(recs)
           z == BytesOf(0)
           r == BytesOf(rng)
           list == (Flat(recs) \o z) \o r
           rest == SubSeq(area, Len(list) + 1, Len(area))
           mem == list \o rest
           L == WordBytes * start[N]
<1>1. recs \in Seq(Seq(Byte)) /\ Len(recs) = N /\ N \in Nat
  <2>1. \A i \in 1..N : Record(parts[i]) \in Seq(Byte)
    BY RecordBytes
  <2> QED
    BY <2>1
<1>2. \A i \in 1..N : /\ parts[i] \in Part /\ recs[i] = Record(parts[i])
                      /\ Len(recs[i]) = WordBytes * (2 + Words(parts[i]))
                      /\ Words(parts[i]) \in Nat
  BY RecordBytes, PartTypes
<1>3. /\ start \in [0..N -> Nat] /\ start[0] = 0
      /\ \A i \in 1..N : start[i] = start[i - 1] + 2 + Words(parts[i])
  BY DEF Starts
<1>4. Stored(parts) = mem
  BY DEF Stored, Each
<1> HIDE DEF N, recs
<1>5. /\ \A n \in 1..N : F[n] = F[n - 1] \o recs[n]
      /\ \A n \in 0..N : F[n] \in Seq(Byte)
      /\ F[0] = <<>> /\ Flat(recs) = F[N]
  BY <1>1, UpToEquation DEF Flat
<1>6. \A i \in 0..N : Len(F[i]) = WordBytes * start[i]
  <2> DEFINE S == {i \in Nat : i <= N => Len(F[i]) = WordBytes * start[i]}
  <2>1. 0 \in S
    BY <1>3, <1>5, Widths
  <2>2. ASSUME NEW i \in Nat, i \in S PROVE i + 1 \in S
    <3> SUFFICES ASSUME i + 1 <= N PROVE Len(F[i + 1]) = WordBytes * start[i + 1]
      OBVIOUS
    <3>1. i + 1 \in 1..N /\ (i + 1) - 1 = i /\ i \in 0..N
      BY <1>1
    <3> DEFINE s == F[i]  t == recs[i + 1]  u == Words(parts[i + 1])
    <3>2. /\ F[i + 1] = s \o t /\ s \in Seq(Byte) /\ t \in Seq(Byte)
          /\ Len(s) = WordBytes * start[i] /\ Len(t) = WordBytes * (2 + u)
          /\ start[i + 1] = start[i] + 2 + u /\ u \in Nat /\ start[i] \in Nat
      <4>1. F[i + 1] = s \o t /\ s \in Seq(Byte)
        BY <1>5, <3>1
      <4>2. t \in Seq(Byte) /\ Len(t) = WordBytes * (2 + u) /\ u \in Nat
        BY <1>1, <1>2, <3>1
      <4>3. start[i + 1] = start[i] + 2 + u /\ start[i] \in Nat
        BY <1>3, <3>1
      <4>4. Len(s) = WordBytes * start[i]
        BY <1>1, <2>2, <3>1
      <4> QED
        BY <4>1, <4>2, <4>3, <4>4
    <3> HIDE DEF s, t, u, F
    <3>3. Len(s \o t) = Len(s) + Len(t)
      BY ONLY <3>2, Joined
    <3>4. WordBytes * start[i] + WordBytes * (2 + u) = WordBytes * (start[i] + 2 + u)
      BY <3>2, Widths
    <3> QED
      BY <3>2, <3>3, <3>4
  <2> HIDE DEF S
  <2>3. \A i \in Nat : i \in S
    BY <2>1, <2>2, Induction
  <2> QED
    BY <1>1, <2>3 DEF S
<1>7. start[N] \in Nat /\ L \in Nat /\ Len(Flat(recs)) = L /\ Flat(recs) \in Seq(Byte)
  BY <1>1, <1>3, <1>5, <1>6, Widths
<1>8. z \in Seq(Byte) /\ Len(z) = WordBytes /\ r \in Seq(Byte) /\ Len(r) = WordBytes
  BY Widths, BytesOfWord DEF NULL
<1> DEFINE f == Flat(recs)
<1> HIDE DEF F, z, r, L, f
<1>9. /\ list \in Seq(Byte) /\ Len(list) = L + 2 * WordBytes
      /\ \A k \in 1..L : list[k] = f[k]
      /\ \A k \in 1..WordBytes : list[L + k] = z[k]
      /\ \A k \in 1..WordBytes : list[(L + WordBytes) + k] = r[k]
  <2>1. f \in Seq(Byte) /\ z \in Seq(Byte) /\ Len(f) = L /\ Len(z) = WordBytes
    BY <1>7, <1>8 DEF f
  <2> DEFINE g == f \o z
  <2>2. /\ g \in Seq(Byte) /\ Len(g) = Len(f) + Len(z)
        /\ \A k \in 1..Len(f) : g[k] = f[k]
        /\ \A k \in 1..Len(z) : g[Len(f) + k] = z[k]
    <3>1. f \in Seq(Byte) /\ z \in Seq(Byte)
      BY <2>1
    <3> QED
      BY ONLY <3>1, Joined
  <2>3. list = g \o r
    BY DEF f
  <2> HIDE DEF g, list
  <2>4. g \in Seq(Byte) /\ r \in Seq(Byte)
    BY <1>8, <2>2
  <2>5. /\ g \o r \in Seq(Byte) /\ Len(g \o r) = Len(g) + Len(r)
        /\ \A k \in 1..Len(g) : (g \o r)[k] = g[k]
        /\ \A k \in 1..Len(r) : (g \o r)[Len(g) + k] = r[k]
    BY ONLY <2>4, Joined
  <2>6. Len(g) = L + WordBytes /\ Len(r) = WordBytes /\ L \in Nat /\ WordBytes \in Nat
    BY <1>7, <1>8, <2>1, <2>2, Widths
  <2>7. /\ list \in Seq(Byte) /\ Len(list) = L + 2 * WordBytes
        /\ \A k \in 1..L + WordBytes : list[k] = g[k]
        /\ \A k \in 1..WordBytes : list[(L + WordBytes) + k] = r[k]
    BY <2>3, <2>5, <2>6
  <2>8. \A k \in 1..L : k \in 1..L + WordBytes
    BY <2>6
  <2>9. \A k \in 1..WordBytes : L + k \in 1..L + WordBytes
    BY <2>6
  <2> QED
    BY <2>1, <2>2, <2>7, <2>8, <2>9
<1> HIDE DEF list
<1>10. rest \in Seq(Byte)
  <2>1. Len(list) \in Nat
    BY <1>9
  <2> DEFINE m == Len(list)
  <2> HIDE DEF m
  <2>2. m \in Nat => SubSeq(area, m + 1, Len(area)) \in Seq(Byte)
    OBVIOUS
  <2> QED
    BY <2>1, <2>2 DEF m
<1> HIDE DEF rest
<1>11. /\ mem \in Seq(Byte) /\ L + 2 * WordBytes <= Len(mem)
       /\ \A k \in 1..L + 2 * WordBytes : mem[k] = list[k]
  <2>1. list \in Seq(Byte) /\ rest \in Seq(Byte)
    BY <1>9, <1>10
  <2>2. /\ mem \in Seq(Byte) /\ Len(mem) = Len(list) + Len(rest)
        /\ Len(list) \in Nat /\ Len(rest) \in Nat
        /\ \A k \in 1..Len(list) : mem[k] = list[k]
    BY ONLY <2>1, Joined
  <2> HIDE DEF mem
  <2> QED
    BY <1>9, <2>2
<1> HIDE DEF mem
<1>12. ASSUME NEW i \in 1..N PROVE IsRecord(mem, start[i - 1], parts[i], level_ram)
  <2> DEFINE p == parts[i]  w == start[i - 1]  n == WordBytes * (2 + Words(p))
  <2>1. /\ i - 1 \in 0..N /\ i \in 0..N /\ p \in Part /\ w \in Nat
        /\ Len(F[i - 1]) = WordBytes * w /\ recs[i] = Record(p) /\ Len(recs[i]) = n
    <3>1. i - 1 \in 0..N /\ i \in 0..N
      BY <1>1
    <3> HIDE DEF p
    <3>2. Len(F[i - 1]) = WordBytes * w /\ w \in Nat
      BY <1>3, <1>6, <3>1
    <3> QED
      BY <1>2, <3>1, <3>2 DEF p
  <2>2. ASSUME NEW k \in 1..n PROVE mem[WordBytes * w + k] = Record(p)[k]
    <3> DEFINE x == WordBytes * w + k
    <3>1. /\ Len(F[i - 1]) + k \in 1..Len(f)
          /\ f[Len(F[i - 1]) + k] = recs[i][k]
      BY <1>1, <2>1, FlatPlaces DEF f, F
    <3>2. x \in 1..L /\ f[x] = Record(p)[k]
      BY <1>7, <2>1, <3>1 DEF f
    <3> HIDE DEF x
    <3>3. mem[x] = f[x]
      BY <1>7, <1>9, <1>11, <3>2, Widths
    <3> QED
      BY <3>2, <3>3 DEF x
  <2> QED
    BY <2>1, <2>2, RecordRead
<1>13. WordOf(mem, start[N]) = NULL
  <2>1. ASSUME NEW k \in 1..WordBytes PROVE mem[L + k] = z[k]
    <3>1. L + k \in 1..L + 2 * WordBytes
      BY <1>7, Widths
    <3> QED
      BY <1>9, <1>11, <3>1
  <2>2. \A k \in 1..WordBytes : mem[WordBytes * start[N] + k] = BytesOf(NULL)[k]
    BY <2>1 DEF L, z, NULL
  <2> QED
    BY <2>2, Widths, WordOfBytes
<1>14. WordOf(mem, start[N] + 1) = rng
  <2>1. ASSUME NEW k \in 1..WordBytes PROVE mem[(L + WordBytes) + k] = r[k]
    <3>1. (L + WordBytes) + k \in 1..L + 2 * WordBytes
      BY <1>7, Widths
    <3> QED
      BY <1>9, <1>11, <3>1
  <2>2. WordBytes * (start[N] + 1) = L + WordBytes
    BY <1>7, Widths DEF L
  <2>3. \A k \in 1..WordBytes : mem[WordBytes * (start[N] + 1) + k] = BytesOf(rng)[k]
    BY <2>1, <2>2 DEF r
  <2> QED
    BY <2>3, WordOfBytes
<1>15. WordBytes * (start[N] + 2) <= Len(mem)
  <2>1. WordBytes * (start[N] + 2) = L + 2 * WordBytes
    BY <1>7, Widths DEF L
  <2> QED
    BY <1>11, <2>1
<1> QED
  BY <1>4, <1>11, <1>12, <1>13, <1>14, <1>15 DEF Written, N

-----------------------------------------------------------------------------
(* Reading the list back.                                                  *)

LEMMA PointersFound ==
  ASSUME NEW parts \in Seq(Part) \ {<<>>}, NEW start, NEW contents, NEW v,
         area \in Seq(Byte), Written(area, parts, start, contents, v)
  PROVE  Pointers = [i \in 1..Len(parts) + 1 |-> start[i - 1]]
<1> DEFINE N == Len(parts)
           A == Len(area)
           Next_(a) == a + 2 + (WordOf(area, a + 1) \div WordBytes)
           G(g, n) == g = [i \in 0..n |-> IF i = 0 THEN 0 ELSE Next_(g[i - 1])]
           at == CHOOSE f : G(f, A)
           Ends(n) == /\ WordOf(area, at[n]) = 0
                      /\ \A m \in 1..n - 1 : WordOf(area, at[m]) # 0
           n_ == CHOOSE n \in 1..A : Ends(n)
<1>1. N \in Nat /\ N # 0 /\ A \in Nat /\ \A i \in 1..N : parts[i] \in Part
  OBVIOUS
<1>2. Pointers = [i \in 1..n_ + 1 |-> at[i - 1]]
  BY DEF Pointers
<1>3. /\ start \in [0..N -> Nat] /\ start[0] = 0
      /\ \A i \in 1..N : start[i] = start[i - 1] + 2 + Words(parts[i])
      /\ \A i \in 1..N : /\ WordOf(area, start[i - 1]) = parts[i].at
                         /\ WordOf(area, start[i - 1] + 1) = parts[i].size
      /\ WordOf(area, start[N]) = 0
      /\ WordBytes * (start[N] + 2) <= A
  BY DEF Written, Starts, IsRecord, NULL
<1> HIDE DEF N
<1>4. N <= A
  <2>1. start[0] + (N - 0) <= start[N] /\ 0 \in 0..N /\ N \in 0..N
    BY <1>1, StartsGrow DEF Written, N
  <2> DEFINE x == start[N] + 2
  <2>2. x \in Nat /\ N <= x
    BY <1>1, <1>3, <2>1
  <2>3. WordBytes * x <= A
    BY <1>3
  <2> HIDE DEF x
  <2>4. x <= WordBytes * x /\ WordBytes * x \in Nat
    BY <2>2, Widths
  <2> QED
    BY <1>1, <2>2, <2>3, <2>4
<1> HIDE DEF A, Next_
<1>5. G(at, A)
  <2> DEFINE S == {n \in Nat : \E g : G(g, n)}
  <2>1. 0 \in S
    <3> DEFINE z == [i \in 0..0 |-> 0]
    <3>1. \A i \in 0..0 : i = 0
      OBVIOUS
    <3>2. G(z, 0)
      BY <3>1
    <3> QED
      BY <3>2
  <2>2. ASSUME NEW n \in Nat, n \in S PROVE n + 1 \in S
    <3>1. PICK g : G(g, n)
      BY <2>2
    <3> DEFINE h == [i \in 0..n + 1 |-> IF i = 0 THEN 0 ELSE Next_(g[i - 1])]
    <3>2. \A i \in 0..n : h[i] = g[i]
      BY <3>1
    <3>3. \A i \in 0..n + 1 : i # 0 => i - 1 \in 0..n
      OBVIOUS
    <3>4. \A i \in 0..n + 1 : i # 0 => h[i - 1] = g[i - 1]
      BY <3>2, <3>3
    <3>5. G(h, n + 1)
      BY <3>4
    <3> HIDE DEF h, G
    <3> QED
      BY <3>5
  <2> HIDE DEF S
  <2>3. A \in S
    BY <1>1, <2>1, <2>2, Induction
  <2>4. \E g : G(g, A)
    BY <2>3 DEF S
  <2> HIDE DEF G
  <2> QED
    BY <2>4
<1> HIDE DEF at
<1>6. at[0] = 0 /\ \A i \in 1..A : at[i] = Next_(at[i - 1])
  BY <1>1, <1>5
<1> HIDE DEF G
<1>7. \A i \in 0..N : at[i] = start[i]
  <2> DEFINE S == {i \in Nat : i <= N => at[i] = start[i]}
  <2>1. 0 \in S
    BY <1>3, <1>6
  <2>2. ASSUME NEW i \in Nat, i \in S PROVE i + 1 \in S
    <3> SUFFICES ASSUME i + 1 <= N PROVE at[i + 1] = start[i + 1]
      OBVIOUS
    <3>1. i + 1 \in 1..N /\ i + 1 \in 1..A /\ (i + 1) - 1 = i /\ i <= N
      BY <1>1, <1>4
    <3>2. at[i + 1] = Next_(start[i])
      BY <1>6, <2>2, <3>1
    <3>3. /\ start[i + 1] = start[i] + 2 + Words(parts[i + 1])
          /\ WordOf(area, start[i] + 1) = parts[i + 1].size
      BY <1>3, <3>1
    <3> QED
      BY <3>2, <3>3 DEF Next_, Words
  <2> HIDE DEF S
  <2>3. \A i \in Nat : i \in S
    BY <2>1, <2>2, Induction
  <2> QED
    BY <1>1, <2>3 DEF S
<1>8. Ends(N)
  <2>1. ASSUME NEW m \in 1..N - 1 PROVE WordOf(area, at[m]) # 0
    <3>1. m \in 0..N /\ m + 1 \in 1..N /\ (m + 1) - 1 = m
      BY <1>1
    <3>2. WordOf(area, start[m]) = parts[m + 1].at /\ parts[m + 1] \in Part
      BY <1>1, <1>3, <3>1
    <3>3. parts[m + 1].at # 0
      BY <3>2, PartTypes DEF NULL
    <3> QED
      BY <1>7, <3>1, <3>2, <3>3
  <2>2. WordOf(area, at[N]) = 0
    BY <1>1, <1>3, <1>7
  <2> QED
    BY <2>1, <2>2
<1>9. ASSUME NEW n \in 1..A, Ends(n) PROVE n = N
  <2>1. ~(n < N)
    <3>1. n < N => n \in 1..N - 1
      BY <1>1
    <3> QED
      BY <1>8, <1>9, <3>1
  <2>2. ~(N < n)
    <3>1. N < n => N \in 1..n - 1
      BY <1>1
    <3> QED
      BY <1>8, <1>9, <3>1
  <2> QED
    BY <1>1, <2>1, <2>2
<1> HIDE DEF Ends
<1>10. n_ = N
  <2>1. N \in 1..A
    BY <1>1, <1>4
  <2> QED
    BY <1>8, <1>9, <2>1
<1> HIDE DEF n_
<1>11. \A i \in 1..N + 1 : at[i - 1] = start[i - 1]
  <2>1. \A i \in 1..N + 1 : i - 1 \in 0..N
    BY <1>1
  <2> QED
    BY <1>7, <2>1
<1> QED
  BY <1>2, <1>10, <1>11 DEF N

\* Every byte that is written comes from a record that has it, and unless it
\* is of an incomplete word it is what was saved.
LEMMA RestoredByte ==
  ASSUME NEW parts \in Seq(Part) \ {<<>>}, NEW start, NEW contents, NEW v,
         area \in Seq(Byte), Written(area, parts, start, contents, v),
         NEW b \in LevelRam
  PROVE  \/ /\ \A i \in 1..Len(parts) : b \notin Bytes(parts[i])
            /\ Restored(Pointers)[b] = level_ram[b]
         \/ \E j \in 1..Len(parts) :
              /\ b \in Bytes(parts[j]) /\ Restored(Pointers)[b] \in Byte
              /\ b \notin TornBytes(parts[j]) => Restored(Pointers)[b] = contents[b]
<1> DEFINE N == Len(parts)
           hits == {p \in {Pointers[i] : i \in 1..Len(Pointers) - 1} : b \in Target(p)}
           value == area[WordBytes * (Max(hits) + 2) + 1 + b - WordOf(area, Max(hits))]
<1>1. N \in Nat /\ N # 0 /\ \A i \in 1..N : parts[i] \in Part
  OBVIOUS
<1>2. Restored(Pointers)[b] = IF hits = {} THEN level_ram[b] ELSE value
  BY DEF Restored
<1>3. /\ start \in [0..N -> Nat]
      /\ \A i \in 1..N : start[i] = start[i - 1] + 2 + Words(parts[i])
      /\ \A i \in 1..N : IsRecord(area, start[i - 1], parts[i], contents)
      /\ WordBytes * (start[N] + 2) <= Len(area)
  BY DEF Written, Starts
<1>4. \A i \in 0..N : start[i] <= start[N]
  <2>1. ASSUME NEW i \in 0..N PROVE start[i] <= start[N]
    <3>1. N \in i..N
      BY <1>1
    <3>2. start[i] + (N - i) <= start[N]
      BY <3>1, StartsGrow DEF Written
    <3>3. start[i] \in Nat /\ start[N] \in Nat /\ N - i \in Nat
      BY <1>1, <1>3
    <3> QED
      BY <3>2, <3>3
  <2> QED
    BY <2>1
<1>5. /\ Len(Pointers) - 1 = N
      /\ \A i \in 1..N : Pointers[i] = start[i - 1]
  <2> DEFINE ps == [i \in 1..N + 1 |-> start[i - 1]]
  <2>1. Pointers = ps
    BY PointersFound
  <2> HIDE DEF N
  <2>2. Len(ps) = N + 1 /\ \A i \in 1..N : ps[i] = start[i - 1]
    BY <1>1
  <2> HIDE DEF ps
  <2> QED
    BY <1>1, <2>1, <2>2
<1>6. \A i \in 1..N : Target(start[i - 1]) = Bytes(parts[i])
  BY <1>3 DEF Target, CopySize, Bytes, IsRecord
<1>7. /\ \A h \in hits : \E i \in 1..N : h = start[i - 1] /\ b \in Bytes(parts[i])
      /\ \A i \in 1..N : b \in Bytes(parts[i]) => start[i - 1] \in hits
  <2> HIDE DEF N
  <2> QED
    BY <1>5, <1>6
<1> HIDE DEF hits, N
<1>8. CASE hits = {}
  BY <1>2, <1>7, <1>8 DEF N
<1>9. CASE hits # {}
  <2>1. Max(hits) \in hits
    <3>1. hits \subseteq 0..start[N]
      <4>1. ASSUME NEW h \in hits PROVE h \in 0..start[N]
        <5>1. PICK i \in 1..N : h = start[i - 1]
          BY <1>7
        <5>2. i - 1 \in 0..N /\ N \in 0..N
          BY <1>1
        <5>3. start[i - 1] \in Nat /\ start[N] \in Nat /\ start[i - 1] <= start[N]
          BY <1>3, <1>4, <5>2
        <5> QED
          BY <5>1, <5>3
      <4> QED
        BY <4>1
    <3>2. start[N] \in Nat
      BY <1>1, <1>3
    <3>3. \E m \in hits : \A k \in hits : k <= m
      BY <1>9, <3>1, <3>2, GreatestNumber
    <3>4. \E m \in hits : \A k \in hits : m >= k
      BY <3>1, <3>2, <3>3
    <3> QED
      BY <3>4 DEF Max
  <2>2. PICK j \in 1..N : Max(hits) = start[j - 1] /\ b \in Bytes(parts[j])
    BY <1>7, <2>1
  <2> DEFINE p == parts[j]  w == start[j - 1]  n == WordBytes * Words(p)  a == WordBytes * (w + 2)
  <2>3. /\ p \in Part /\ w \in Nat /\ n \in Nat /\ a \in Nat
        /\ p.at \in Nat /\ p.size \in Nat /\ p.size < n + WordBytes /\ b \in Nat
        /\ p.at <= b /\ b < p.at + p.size
    <3>1. p \in Part /\ j - 1 \in 0..N
      BY <1>1
    <3>2. w \in Nat
      BY <1>3, <3>1
    <3>3. a \in Nat
      BY <3>2, Widths
    <3>4. /\ p.at \in Nat /\ p.size \in Nat /\ n \in Nat /\ p.size < n + WordBytes /\ b \in Nat
      BY <3>1, PartTypes, Widths
    <3>5. p.at <= b /\ b < p.at + p.size
      <4>1. b \in p.at..p.at + p.size - 1
        BY <2>2 DEF Bytes
      <4> QED
        BY <3>4, <4>1
    <3> QED
      BY <3>1, <3>2, <3>3, <3>4, <3>5
  <2>4. WordOf(area, w) = p.at /\ \A k \in 1..n : area[a + k] = contents[p.at + k - 1]
    BY <1>3 DEF IsRecord
  <2>5. a + n + WordBytes <= Len(area)
    <3> DEFINE u == Words(p)  l == start[N]
    <3>1. u \in Nat /\ l \in Nat /\ w + 2 + u <= l
      <4>1. j \in 0..N /\ start[j] = w + 2 + u /\ N \in 0..N
        BY <1>1, <1>3
      <4> QED
        BY <1>3, <1>4, <2>3, <4>1, PartTypes
    <3>2. WordBytes * (l + 2) <= Len(area)
      BY <1>3
    <3>3. a + n = WordBytes * (w + 2 + u)
      BY <2>3, <3>1, Widths
    <3> HIDE DEF u, l, w, a, n
    <3>4. WordBytes * (w + 2 + u) + WordBytes <= WordBytes * (l + 2)
      <4> DEFINE c == w + 2 + u
      <4>1. c \in Nat /\ c + 1 <= l + 2
        BY <2>3, <3>1
      <4> HIDE DEF c
      <4>2. WordBytes * (c + 1) <= WordBytes * (l + 2)
        BY <3>1, <4>1, Widths
      <4>3. WordBytes * (c + 1) = WordBytes * c + WordBytes
        BY <4>1, Widths
      <4> QED
        BY <4>2, <4>3 DEF c
    <3> DEFINE x == WordBytes * (w + 2 + u)  y == WordBytes * (l + 2)
    <3>5. x \in Nat /\ y \in Nat /\ Len(area) \in Nat /\ WordBytes \in Nat
      BY <2>3, <3>1, Widths
    <3> HIDE DEF x, y
    <3>6. x + WordBytes <= Len(area)
      BY <3>2, <3>4, <3>5 DEF x, y
    <3> QED
      BY <3>3, <3>6 DEF x
  <2> DEFINE k == b - p.at + 1
  <2>6. k \in 1..n + WordBytes /\ a + k \in 1..Len(area) /\ p.at + k - 1 = b
    <3> DEFINE c == p.at  s == p.size  l == Len(area)  x == WordBytes
    <3>1. /\ a \in Nat /\ n \in Nat /\ c \in Nat /\ s \in Nat /\ l \in Nat /\ x \in Nat /\ b \in Nat
          /\ s < n + x /\ c <= b /\ b < c + s /\ a + n + x <= l
      BY <2>3, <2>5, Widths
    <3> HIDE DEF a, n, c, s, l, x
    <3>2. b - c + 1 \in 1..n + x /\ a + (b - c + 1) \in 1..l /\ c + (b - c + 1) - 1 = b
      BY <3>1
    <3> QED
      BY <3>2 DEF c, l, x
  <2>7. value = area[a + k]
    <3>1. value = area[a + 1 + b - p.at]
      BY <2>2, <2>4
    <3> DEFINE c == p.at
    <3>2. a \in Nat /\ b \in Nat /\ c \in Nat
      BY <2>3
    <3> HIDE DEF a, c, value
    <3>3. a + 1 + b - c = a + (b - c + 1)
      BY <3>2
    <3> QED
      BY <3>1, <3>3 DEF c
  <2> HIDE DEF a, value
  <2>8. value \in Byte
    BY <2>6, <2>7
  <2>9. b \notin TornBytes(p) => value = contents[b]
    <3> SUFFICES ASSUME b \notin TornBytes(p) PROVE value = contents[b]
      OBVIOUS
    <3>1. b \notin p.at + n..p.at + p.size - 1
      BY DEF TornBytes, Words
    <3> DEFINE c == p.at  s == p.size
    <3>2. /\ n \in Nat /\ c \in Nat /\ s \in Nat /\ b \in Nat /\ c <= b /\ b < c + s
          /\ b \notin c + n..c + s - 1
      BY <2>3, <3>1
    <3> HIDE DEF n, c, s
    <3>3. b - c + 1 \in 1..n
      BY <3>2
    <3> HIDE DEF k
    <3>4. k \in 1..n
      BY <3>3 DEF k, c
    <3> QED
      BY <2>4, <2>6, <2>7, <3>4 DEF n
  <2> HIDE DEF p
  <2>10. b \in Bytes(p)
    BY <2>2 DEF p
  <2> QED
    BY <1>2, <1>9, <2>8, <2>9, <2>10 DEF p, N
<1> QED
  BY <1>8, <1>9

-----------------------------------------------------------------------------
(* What a backup of a level consists of.                                   *)

\* The records of these pieces, but for the pointers that are NULL.
Makes(parts, pieces) == parts \in Seq(Part) /\ Range(parts) = NotNull(pieces)

LEMMA JoinedParts ==
  ASSUME NEW s, NEW t, NEW a, NEW b, Makes(s, a), Makes(t, b)
  PROVE  Makes(s \o t, a \cup b)
<1>1. s \in Seq(Part) /\ t \in Seq(Part) /\ Range(s) = NotNull(a) /\ Range(t) = NotNull(b)
  BY DEF Makes
<1>2. s \o t \in Seq(Part)
  BY ONLY <1>1, Joined
<1>3. Range(s \o t) = Range(s) \cup Range(t)
  BY ONLY <1>1, RangeJoined
<1>4. NotNull(a) \cup NotNull(b) = NotNull(a \cup b)
  BY DEF NotNull
<1> QED
  BY <1>1, <1>2, <1>3, <1>4 DEF Makes

LEMMA AdditionalParts ==
  ASSUME NEW src \in Pointer, NEW size \in Word, Fits({Piece(src, size)})
  PROVE  Makes(Additional(src, size), {Piece(src, size)})
<1>1. CASE src = NULL
  <2>1. Additional(src, size) = <<>> /\ NotNull({Piece(src, size)}) = {}
    BY <1>1 DEF Additional, NotNull, Piece
  <2>2. <<>> \in Seq(Part) /\ Range(<<>>) = {}
    BY DEF Range
  <2> QED
    BY <2>1, <2>2 DEF Makes
<1>2. CASE src # NULL
  <2> DEFINE p == Piece(src, size)
  <2>1. Additional(src, size) = <<p>> /\ NotNull({p}) = {p}
    BY <1>2 DEF Additional, NotNull, Piece
  <2>2. src \in Word \ {NULL}
    BY <1>2, Widths DEF Pointer
  <2>3. p \in [at : Word \ {NULL}, size : Word]
    BY <2>2 DEF Piece
  <2>4. Bytes(p) \subseteq LevelRam
    BY <2>1 DEF Fits
  <2> HIDE DEF p
  <2>5. p \in Part
    BY <2>3, <2>4 DEF Part
  <2>6. <<p>> \in Seq(Part) /\ Range(<<p>>) = {p}
    BY <2>5 DEF Range
  <2> QED
    BY <2>1, <2>6 DEF p, Makes
<1> QED
  BY <1>1, <1>2

LEMMA Sizes_ ==
  /\ ActorSize \in Word /\ PropertiesSize \in Word /\ CollisionSize \in Word
  /\ SwitchSize \in Word /\ PuzzleSize \in Word /\ ConditionSize \in Word /\ CameraSize \in Word
BY CloneBufferAssumption

LEMMA ActorPartsFit ==
  ASSUME NEW a \in Actor, Fits(ActorPieces(a))
  PROVE  Makes(ActorParts(a), ActorPieces(a))
<1> DEFINE p1 == Piece(a.at, ActorSize)
           p2 == Piece(a.pproperties, PropertiesSize)
           p3 == Piece(a.pcollision, CollisionSize)
           s1 == Additional(a.at, ActorSize)
           s2 == Additional(a.pproperties, PropertiesSize)
           s3 == Additional(a.pcollision, CollisionSize)
<1>1. /\ a.at \in Pointer /\ a.pproperties \in Pointer /\ a.pcollision \in Pointer
      /\ a.at \in LevelRam /\ a.at # NULL
  BY Widths DEF Actor, Pointer
<1>2. Fits({p1}) /\ Fits({p2}) /\ Fits({p3})
  BY DEF Fits, NotNull, ActorPieces
<1>3. /\ Makes(s1, {p1})
      /\ Makes(s2, {p2})
      /\ Makes(s3, {p3})
  BY <1>1, <1>2, Sizes_, AdditionalParts
<1>4. ActorParts(a) = (s1 \o s2) \o s3
  BY <1>1 DEF ActorParts, Additional
<1>5. ActorPieces(a) = ({p1} \cup {p2}) \cup {p3}
  BY DEF ActorPieces
<1> HIDE DEF p1, p2, p3, s1, s2, s3
<1>6. Makes(s1 \o s2, {p1} \cup {p2})
  BY <1>3, JoinedParts
<1> QED
  BY <1>3, <1>4, <1>5, <1>6, JoinedParts

LEMMA SwitchPartsFit ==
  ASSUME NEW s \in Switch, Fits(SwitchPieces(s))
  PROVE  Makes(SwitchParts(s), SwitchPieces(s))
<1> DEFINE p1 == Piece(s.at, SwitchSize)
           p2 == Piece(s.ppuzzle1, PuzzleSize)
           p3 == Piece(s.ppuzzle2, PuzzleSize)
           p4 == Piece(s.pcond1, ConditionSize)
           p5 == Piece(s.pcond2, ConditionSize)
           s1 == Additional(s.at, SwitchSize)
           s2 == Additional(s.ppuzzle1, PuzzleSize)
           s3 == Additional(s.ppuzzle2, PuzzleSize)
           s4 == Additional(s.pcond1, ConditionSize)
           s5 == Additional(s.pcond2, ConditionSize)
<1>1. /\ s.at \in Pointer /\ s.ppuzzle1 \in Pointer /\ s.ppuzzle2 \in Pointer
      /\ s.pcond1 \in Pointer /\ s.pcond2 \in Pointer
  BY DEF Switch, Pointer
<1>2. Fits({p1}) /\ Fits({p2}) /\ Fits({p3}) /\ Fits({p4}) /\ Fits({p5})
  BY DEF Fits, NotNull, SwitchPieces
<1>3. /\ Makes(s1, {p1})
      /\ Makes(s2, {p2})
      /\ Makes(s3, {p3})
      /\ Makes(s4, {p4})
      /\ Makes(s5, {p5})
  BY <1>1, <1>2, Sizes_, AdditionalParts
<1>4. SwitchParts(s) = (((s1 \o s2) \o s3) \o s4) \o s5
  BY DEF SwitchParts
<1>5. SwitchPieces(s) = ((({p1} \cup {p2}) \cup {p3}) \cup {p4}) \cup {p5}
  BY DEF SwitchPieces
<1> HIDE DEF p1, p2, p3, p4, p5, s1, s2, s3, s4, s5
<1> DEFINE t2 == s1 \o s2  t3 == t2 \o s3  t4 == t3 \o s4
           q2 == {p1} \cup {p2}  q3 == q2 \cup {p3}  q4 == q3 \cup {p4}
<1>6. Makes(t2, q2)
  BY <1>3, JoinedParts
<1> HIDE DEF t2, q2
<1>7. Makes(t3, q3)
  BY <1>3, <1>6, JoinedParts
<1> HIDE DEF t3, q3
<1>8. Makes(t4, q4)
  BY <1>3, <1>7, JoinedParts
<1> HIDE DEF t4, q4
<1>9. Makes(t4 \o s5, q4 \cup {p5})
  BY <1>3, <1>8, JoinedParts
<1> QED
  BY <1>4, <1>5, <1>9 DEF t2, t3, t4, q2, q3, q4

LEMMA ObjectPartsFit ==
  ASSUME NEW o \in Object, Fits(ObjectPieces(o))
  PROVE  /\ Makes(AnyParts(o), ObjectPieces(o))
         /\ Makes(ObjectParts(o), IF CloneObj(o) THEN ObjectPieces(o) ELSE {})
<1>1. o.pdata \in Pointer /\ o.size \in Word
  BY DEF Object
<1>2. Makes(AnyParts(o), ObjectPieces(o))
  BY <1>1, AdditionalParts DEF AnyParts, ObjectPieces
<1>3. Makes(<<>>, {})
  BY DEF Makes, Range, NotNull
<1>4. ObjectParts(o) = IF CloneObj(o) THEN AnyParts(o) ELSE <<>>
  BY DEF ObjectParts, AnyParts
<1> QED
  BY <1>2, <1>3, <1>4

LEMMA FlatParts ==
  ASSUME NEW list \in Seq(Seq(Part)), NEW pieces,
         \A i \in 1..Len(list) : Makes(list[i], pieces[i])
  PROVE  Makes(Flat(list), UNION {pieces[i] : i \in 1..Len(list)})
<1>1. list \in Seq(Seq(Part))
  OBVIOUS
<1>2. Flat(list) \in Seq(Part)
  BY ONLY <1>1, FlatPlaces
<1>3. Range(Flat(list)) = UNION {Range(list[i]) : i \in 1..Len(list)}
  BY ONLY <1>1, FlatRange
<1>4. UNION {Range(list[i]) : i \in 1..Len(list)} = UNION {NotNull(pieces[i]) : i \in 1..Len(list)}
  BY DEF Makes
<1>5. UNION {NotNull(pieces[i]) : i \in 1..Len(list)} = NotNull(UNION {pieces[i] : i \in 1..Len(list)})
  BY DEF NotNull
<1> QED
  BY <1>2, <1>3, <1>4, <1>5 DEF Makes

\* A backup's records are of what is to be in it, each of it.
LEMMA PartsOfLevel ==
  ASSUME NEW l \in Levels
  PROVE  /\ CloneParts(l) \in Seq(Part) \ {<<>>}
         /\ Range(CloneParts(l)) = Pieces(l)
<1> DEFINE actors == [i \in 1..Len(l.actors) |-> ActorParts(l.actors[i])]
           switches == [i \in 1..Len(l.switches) |-> SwitchParts(l.switches[i])]
           bank == [i \in 1..Len(l.bank) |-> ObjectParts(l.bank[i])]
           pa == [i \in 1..Len(l.actors) |-> ActorPieces(l.actors[i])]
           ps == [i \in 1..Len(l.switches) |-> SwitchPieces(l.switches[i])]
           pb == [i \in 1..Len(l.bank) |->
                    IF CloneObj(l.bank[i]) THEN ObjectPieces(l.bank[i]) ELSE {}]
           camera == Additional(l.camera, CameraSize)
           pc == {Piece(l.camera, CameraSize)}
           ua == UNION {ActorPieces(a) : a \in Range(l.actors)}
           us == UNION {SwitchPieces(s) : s \in Range(l.switches)}
           ub == UNION {ObjectPieces(o) : o \in {o \in Range(l.bank) : CloneObj(o)}}
<1>1. /\ l.actors \in Seq(Actor) /\ l.switches \in Seq(Switch) /\ l.bank \in Seq(Object)
      /\ l.camera \in LevelRam
      /\ \A a \in Range(l.actors) : Fits(ActorPieces(a))
      /\ \A s \in Range(l.switches) : Fits(SwitchPieces(s))
      /\ \A o \in Range(l.bank) : Fits(ObjectPieces(o))
      /\ Fits(pc)
  BY CloneBufferAssumption DEF LevelOK
<1>2. Makes(Flat(actors), ua)
  <2> DEFINE s == l.actors
  <2>1. /\ \A i \in 1..Len(s) : s[i] \in Actor /\ Fits(ActorPieces(s[i]))
        /\ Range(s) = {s[i] : i \in 1..Len(s)} /\ Len(s) \in Nat
    BY <1>1 DEF Range
  <2>2. \A i \in 1..Len(s) : Makes(ActorParts(s[i]), ActorPieces(s[i]))
    BY <2>1, ActorPartsFit
  <2>3. actors \in Seq(Seq(Part)) /\ Len(actors) = Len(s)
    BY <2>1, <2>2 DEF Makes
  <2>4. \A i \in 1..Len(actors) : Makes(actors[i], pa[i])
    BY <2>2, <2>3
  <2>5. ua = UNION {pa[i] : i \in 1..Len(s)}
    BY <2>1
  <2> HIDE DEF actors, pa
  <2> QED
    BY <2>3, <2>4, <2>5, FlatParts
<1>3. Makes(Flat(switches), us)
  <2> DEFINE s == l.switches
  <2>1. /\ \A i \in 1..Len(s) : s[i] \in Switch /\ Fits(SwitchPieces(s[i]))
        /\ Range(s) = {s[i] : i \in 1..Len(s)} /\ Len(s) \in Nat
    BY <1>1 DEF Range
  <2>2. \A i \in 1..Len(s) : Makes(SwitchParts(s[i]), SwitchPieces(s[i]))
    BY <2>1, SwitchPartsFit
  <2>3. switches \in Seq(Seq(Part)) /\ Len(switches) = Len(s)
    BY <2>1, <2>2 DEF Makes
  <2>4. \A i \in 1..Len(switches) : Makes(switches[i], ps[i])
    BY <2>2, <2>3
  <2>5. us = UNION {ps[i] : i \in 1..Len(s)}
    BY <2>1
  <2> HIDE DEF switches, ps
  <2> QED
    BY <2>3, <2>4, <2>5, FlatParts
<1>4. Makes(Flat(bank), ub)
  <2> DEFINE s == l.bank
  <2>1. /\ \A i \in 1..Len(s) : s[i] \in Object /\ Fits(ObjectPieces(s[i]))
        /\ Range(s) = {s[i] : i \in 1..Len(s)} /\ Len(s) \in Nat
    BY <1>1 DEF Range
  <2>2. \A i \in 1..Len(s) : Makes(ObjectParts(s[i]), pb[i])
    BY <2>1, ObjectPartsFit
  <2>3. bank \in Seq(Seq(Part)) /\ Len(bank) = Len(s)
    <3> HIDE DEF pb
    <3>1. \A i \in 1..Len(s) : ObjectParts(s[i]) \in Seq(Part)
      BY <2>2 DEF Makes
    <3> QED
      BY <2>1, <3>1
  <2>4. \A i \in 1..Len(bank) : Makes(bank[i], pb[i])
    BY <2>2, <2>3
  <2>5. ub = UNION {pb[i] : i \in 1..Len(s)}
    <3>1. ASSUME NEW x \in ub PROVE x \in UNION {pb[i] : i \in 1..Len(s)}
      <4>1. PICK i \in 1..Len(s) : CloneObj(s[i]) /\ x \in ObjectPieces(s[i])
        BY <2>1
      <4>2. x \in pb[i]
        BY <4>1
      <4> QED
        BY <4>2
    <3>2. ASSUME NEW i \in 1..Len(s), NEW x \in pb[i] PROVE x \in ub
      <4>1. CloneObj(s[i]) /\ x \in ObjectPieces(s[i])
        BY <3>2
      <4> QED
        BY <2>1, <4>1
    <3> QED
      BY <3>1, <3>2
  <2> HIDE DEF bank, pb
  <2> QED
    BY <2>3, <2>4, <2>5, FlatParts
<1>5. Makes(camera, pc)
  BY <1>1, Sizes_, AdditionalParts DEF Pointer
<1> DEFINE fa == Flat(actors)  fs == Flat(switches)  fb == Flat(bank)
<1>6. CloneParts(l) = ((fa \o fs) \o fb) \o camera
  BY DEF CloneParts, Each
<1>7. Pieces(l) = NotNull(((ua \cup us) \cup ub) \cup pc)
  BY Zenon DEF Pieces, BankPieces
<1>8. Piece(l.camera, CameraSize) \in NotNull(pc)
  BY <1>1, Widths DEF NotNull, Piece
<1> HIDE DEF fa, fs, fb, camera, ua, us, ub, pc
<1> DEFINE t2 == fa \o fs  t3 == t2 \o fb  q2 == ua \cup us  q3 == q2 \cup ub
<1>9. Makes(t2, q2)
  BY <1>2, <1>3, JoinedParts DEF fa, fs
<1> HIDE DEF t2, q2
<1>10. Makes(t3, q3)
  BY <1>4, <1>9, JoinedParts DEF fb
<1> HIDE DEF t3, q3
<1>11. Makes(t3 \o camera, q3 \cup pc)
  BY <1>5, <1>10, JoinedParts
<1>12. CloneParts(l) \in Seq(Part) /\ Range(CloneParts(l)) = Pieces(l)
  BY <1>6, <1>7, <1>11 DEF Makes, t2, t3, q2, q3
<1>13. Pieces(l) # {}
  BY <1>7, <1>8 DEF NotNull
<1>14. Range(<<>>) = {}
  BY DEF Range
<1> QED
  BY <1>12, <1>13, <1>14

LEMMA PartsOfBank ==
  ASSUME NEW l \in Levels
  PROVE  Makes(Each(l.bank, AnyParts) \o Additional(l.camera, CameraSize),
               BankPieces(l, AnyObject) \cup {Piece(l.camera, CameraSize)})
<1> DEFINE bank == [i \in 1..Len(l.bank) |-> AnyParts(l.bank[i])]
           pb == [i \in 1..Len(l.bank) |-> ObjectPieces(l.bank[i])]
           ub == UNION {ObjectPieces(o) : o \in {o \in Range(l.bank) : AnyObject(o)}}
           camera == Additional(l.camera, CameraSize)
           pc == {Piece(l.camera, CameraSize)}
           s == l.bank
<1>1. /\ s \in Seq(Object) /\ l.camera \in LevelRam /\ Fits(pc)
      /\ \A o \in Range(s) : Fits(ObjectPieces(o))
  BY CloneBufferAssumption DEF LevelOK
<1>2. /\ \A i \in 1..Len(s) : s[i] \in Object /\ Fits(ObjectPieces(s[i]))
      /\ Range(s) = {s[i] : i \in 1..Len(s)} /\ Len(s) \in Nat
  BY <1>1 DEF Range
<1>3. \A i \in 1..Len(s) : Makes(AnyParts(s[i]), ObjectPieces(s[i]))
  BY <1>2, ObjectPartsFit
<1>4. bank \in Seq(Seq(Part)) /\ Len(bank) = Len(s)
  <2>1. \A i \in 1..Len(s) : AnyParts(s[i]) \in Seq(Part)
    BY <1>3 DEF Makes
  <2> QED
    BY <1>2, <2>1
<1>5. \A i \in 1..Len(bank) : Makes(bank[i], pb[i])
  BY <1>3, <1>4
<1>6. ub = UNION {pb[i] : i \in 1..Len(s)}
  BY <1>2 DEF AnyObject
<1>7. Makes(camera, pc)
  BY <1>1, Sizes_, AdditionalParts DEF Pointer
<1>8. /\ Each(l.bank, AnyParts) = Flat(bank)
      /\ BankPieces(l, AnyObject) = ub
  BY DEF Each, BankPieces
<1> HIDE DEF bank, pb, ub, camera, pc
<1>9. Makes(Flat(bank), ub)
  BY <1>4, <1>5, <1>6, FlatParts
<1>10. Makes(Flat(bank) \o camera, ub \cup pc)
  BY <1>7, <1>9, JoinedParts
<1> QED
  BY <1>8, <1>10 DEF camera, pc

-----------------------------------------------------------------------------
(* The invariant: the area holds the records of the last backup.           *)

CloneTypeOK ==
  /\ level \in Levels /\ level_ram \in [LevelRam -> Byte] /\ rng \in Word
  /\ area \in Seq(Byte)

Holds(mem, backup) ==
  \E parts \in Seq(Part) \ {<<>>} : \E start :
    Written(mem, parts, start, backup.ram, backup.rng) /\ Range(parts) = backup.objects

Kept == saved # <<>> => saved.rng \in Word /\ Holds(area, saved)

CloneInv == CloneTypeOK /\ Kept /\ RestoreBringsBack

LEMMA CloneInvInit == CloneInit => CloneInv
<1> SUFFICES ASSUME CloneInit PROVE CloneInv
  OBVIOUS
<1> USE DEF CloneInit
<1>1. level \in Levels /\ level_ram \in [LevelRam -> Byte] /\ rng \in Word
  BY Widths
<1>2. area \in Seq(Byte)
  <2> DEFINE n == WordBytes * AreaWords
  <2>1. n \in Nat /\ 0 \in Byte
    BY CloneBufferAssumption DEF Byte
  <2> HIDE DEF n
  <2>2. [b \in 1..n |-> 0] \in Seq(Byte)
    BY <2>1
  <2>3. area = [b \in 1..n |-> 0]
    BY DEF n
  <2> QED
    BY <2>2, <2>3
<1>3. Kept /\ RestoreBringsBack
  BY DEF Kept, RestoreBringsBack
<1> QED
  BY <1>1, <1>2, <1>3 DEF CloneInv, CloneTypeOK

LEMMA BackupKeeps ==
  ASSUME CloneInv, NEW parts, NEW pieces, Makes(parts, pieces),
         NotNull(pieces) # {}, Backup(parts, NotNull(pieces))
  PROVE  CloneInv'
<1> USE DEF Backup
<1>1. /\ level \in Levels /\ level_ram \in [LevelRam -> Byte] /\ rng \in Word
      /\ area \in Seq(Byte)
  BY DEF CloneInv, CloneTypeOK
<1>2. parts \in Seq(Part) \ {<<>>} /\ Range(parts) = NotNull(pieces)
  <2>1. Range(<<>>) = {}
    BY DEF Range
  <2> QED
    BY <2>1 DEF Makes
<1>3. PICK start : Starts(parts, start)
  BY <1>2, StartsExist
<1>4. Stored(parts) \in Seq(Byte) /\ Written(Stored(parts), parts, start, level_ram, rng)
  BY <1>1, <1>2, <1>3, StoredIsWritten
<1>5. /\ area' = Stored(parts) /\ restored' = FALSE
      /\ level' = level /\ level_ram' = level_ram /\ rng' = rng
  OBVIOUS
<1>6. /\ saved'.ram = level_ram /\ saved'.rng = rng /\ saved'.objects = NotNull(pieces)
  OBVIOUS
<1> HIDE DEF Backup
<1>7. CloneTypeOK'
  BY <1>1, <1>4, <1>5 DEF CloneTypeOK
<1>8. Holds(area', saved')
  BY <1>2, <1>4, <1>5, <1>6 DEF Holds
<1>9. Kept'
  BY <1>1, <1>6, <1>8 DEF Kept
<1>10. RestoreBringsBack'
  BY <1>5 DEF RestoreBringsBack
<1> QED
  BY <1>7, <1>9, <1>10 DEF CloneInv

\* What a restore leaves in memory.
LEMMA RestoreReads ==
  ASSUME CloneInv, saved # <<>>
  PROVE  /\ Restored(Pointers) \in [LevelRam -> Byte]
         /\ RngWord(Pointers[Len(Pointers)]) = saved.rng
         /\ \A b \in Whole(saved.objects) :
              b \in LevelRam /\ Restored(Pointers)[b] = saved.ram[b]
         /\ \A b \in LevelRam : Restored(Pointers)[b] # level_ram[b] =>
              \E p \in saved.objects : b \in Bytes(p)
<1>1. /\ level_ram \in [LevelRam -> Byte] /\ area \in Seq(Byte) /\ Holds(area, saved)
  BY DEF CloneInv, CloneTypeOK, Kept
<1>0. PICK parts \in Seq(Part) \ {<<>>} : \E start :
        Written(area, parts, start, saved.ram, saved.rng) /\ Range(parts) = saved.objects
  BY <1>1 DEF Holds
<1>2. PICK start :
        Written(area, parts, start, saved.ram, saved.rng) /\ Range(parts) = saved.objects
  BY <1>0
<1> DEFINE N == Len(parts)  R == Restored(Pointers)
<1>3. /\ N \in Nat /\ saved.objects = {parts[i] : i \in 1..N}
      /\ \A i \in 1..N : parts[i] \in Part
  BY <1>2 DEF Range
<1>4. \A b \in LevelRam :
        \/ /\ \A i \in 1..N : b \notin Bytes(parts[i])
           /\ R[b] = level_ram[b]
        \/ \E j \in 1..N :
             /\ b \in Bytes(parts[j]) /\ R[b] \in Byte
             /\ b \notin TornBytes(parts[j]) => R[b] = saved.ram[b]
  BY <1>1, <1>2, RestoredByte
<1>5. R \in [LevelRam -> Byte]
  <2>1. R = [b \in LevelRam |-> R[b]]
    BY DEF Restored
  <2> HIDE DEF R, N
  <2>2. \A b \in LevelRam : R[b] \in Byte
    BY <1>1, <1>4
  <2> QED
    BY <2>1, <2>2
<1>6. RngWord(Pointers[Len(Pointers)]) = saved.rng
  <2> DEFINE ps == [i \in 1..N + 1 |-> start[i - 1]]
  <2>1. Pointers = ps
    BY <1>1, <1>2, PointersFound
  <2> HIDE DEF N
  <2>2. Len(ps) = N + 1 /\ ps[N + 1] = start[N]
    <3>1. N + 1 \in 1..N + 1 /\ (N + 1) - 1 = N /\ N + 1 \in Nat
      BY <1>3
    <3> QED
      BY <3>1
  <2> HIDE DEF ps
  <2>3. WordOf(area, start[N] + 1) = saved.rng
    BY <1>2 DEF Written, N
  <2> QED
    BY <2>1, <2>2, <2>3 DEF RngWord
<1> HIDE DEF R, N
<1>7. ASSUME NEW b \in Whole(saved.objects)
      PROVE  b \in LevelRam /\ R[b] = saved.ram[b]
  <2>1. PICK i \in 1..N : b \in Bytes(parts[i])
    BY <1>3 DEF Whole
  <2>2. b \in LevelRam
    BY <1>3, <2>1 DEF Part
  <2>3. \A j \in 1..N : b \notin TornBytes(parts[j])
    <3>1. \A p \in saved.objects : b \notin TornBytes(p)
      BY DEF Whole
    <3>2. \A j \in 1..N : parts[j] \in saved.objects
      BY <1>3
    <3> QED
      BY <3>1, <3>2
  <2> QED
    BY <1>4, <2>1, <2>2, <2>3
<1>8. \A b \in LevelRam : R[b] # level_ram[b] => \E p \in saved.objects : b \in Bytes(p)
  BY <1>3, <1>4
<1> QED
  BY <1>5, <1>6, <1>7, <1>8 DEF R

LEMMA CloneInvNext == CloneInv /\ [CloneNext]_cloneVars => CloneInv'
<1> SUFFICES ASSUME CloneInv, [CloneNext]_cloneVars PROVE CloneInv'
  OBVIOUS
<1>1. level \in Levels
  BY DEF CloneInv, CloneTypeOK
<1>c. ASSUME NEW pieces PROVE Piece(level.camera, CameraSize) \in NotNull(pieces \cup {Piece(level.camera, CameraSize)})
  BY <1>1, CloneBufferAssumption, Widths DEF LevelOK, NotNull, Piece
<1>2. CASE CloneActors
  <2> DEFINE ps == Pieces(level)
  <2>1. CloneParts(level) \in Seq(Part) \ {<<>>} /\ Range(CloneParts(level)) = ps
    BY <1>1, PartsOfLevel
  <2>2. NotNull(ps) = ps
    BY DEF Pieces, NotNull
  <2>3. ps # {}
    BY <1>c DEF Pieces
  <2>4. Backup(CloneParts(level), ps)
    BY <1>2 DEF CloneActors
  <2> HIDE DEF ps
  <2>5. Makes(CloneParts(level), ps)
    BY <2>1, <2>2 DEF Makes
  <2> QED
    BY <2>2, <2>3, <2>4, <2>5, BackupKeeps
<1>3. CASE CloneObjBank
  <2> DEFINE parts == Each(level.bank, AnyParts) \o Additional(level.camera, CameraSize)
             ps == BankPieces(level, AnyObject) \cup {Piece(level.camera, CameraSize)}
  <2>1. Makes(parts, ps)
    BY <1>1, PartsOfBank
  <2>2. NotNull(ps) # {}
    BY <1>c
  <2>3. Backup(parts, NotNull(ps))
    BY <1>3 DEF CloneObjBank
  <2> HIDE DEF parts, ps
  <2> QED
    BY <2>1, <2>2, <2>3, BackupKeeps
<1>4. CASE RestoreActors
  <2>1. /\ saved # <<>> /\ level_ram' = Restored(Pointers)
        /\ rng' = RngWord(Pointers[Len(Pointers)])
        /\ level' = level /\ area' = area /\ saved' = saved
    BY <1>4 DEF RestoreActors
  <2>2. /\ Restored(Pointers) \in [LevelRam -> Byte] /\ rng' = saved.rng
        /\ \A b \in Whole(saved.objects) : level_ram'[b] = saved.ram[b]
    BY <2>1, RestoreReads
  <2>3. Kept /\ saved.rng \in Word /\ area \in Seq(Byte)
    BY <2>1 DEF CloneInv, Kept, CloneTypeOK
  <2>4. CloneTypeOK'
    BY <1>1, <2>1, <2>2, <2>3 DEF CloneTypeOK
  <2>5. Kept'
    BY <2>1, <2>3 DEF Kept
  <2>6. RestoreBringsBack'
    BY <2>1, <2>2 DEF RestoreBringsBack
  <2> QED
    BY <2>4, <2>5, <2>6 DEF CloneInv
<1>5. CASE GamePlays
  <2>1. /\ level' \in Levels /\ level_ram' \in [LevelRam -> Byte] /\ rng' \in Word
        /\ restored' = FALSE /\ area' = area /\ saved' = saved
    BY <1>5, Widths DEF GamePlays
  <2> QED
    BY <2>1 DEF CloneInv, CloneTypeOK, Kept, RestoreBringsBack
<1>6. CASE UNCHANGED cloneVars
  BY <1>6 DEF cloneVars, CloneInv, CloneTypeOK, Kept, RestoreBringsBack
<1> QED
  BY <1>2, <1>3, <1>4, <1>5, <1>6 DEF CloneNext

\* The area is bytes, and the records of the last backup lie in it, whatever
\* the level has become.
THEOREM AreaHoldsBackup == CloneSpec => []CloneInv
<1>1. CloneInit => CloneInv
  BY CloneInvInit
<1>2. CloneInv /\ [CloneNext]_cloneVars => CloneInv'
  BY CloneInvNext
<1> QED
  BY <1>1, <1>2, PTL DEF CloneSpec

\* restore_actors, without knowing what it reads, brings back every byte of
\* every object a backup was made of, but for those of an incomplete word.
THEOREM BackupComesBack == CloneSpec => []RestoreBringsBack
<1>1. CloneInv => RestoreBringsBack
  BY DEF CloneInv
<1> QED
  BY <1>1, AreaHoldsBackup, PTL

\* And it writes into nothing else.
THEOREM NothingElseWritten == CloneSpec => RestoreTouchesOnly
<1> DEFINE A == restored' =>
             \A b \in LevelRam : level_ram'[b] # level_ram[b] =>
               \E p \in saved.objects : b \in Bytes(p)
<1>1. CloneInv /\ [CloneNext]_cloneVars => [A]_cloneVars
  <2> SUFFICES ASSUME CloneInv, CloneNext, restored' PROVE A
    OBVIOUS
  <2>1. CASE RestoreActors
    <3>1. saved # <<>> /\ level_ram' = Restored(Pointers)
      BY <2>1 DEF RestoreActors
    <3>2. \A b \in LevelRam : Restored(Pointers)[b] # level_ram[b] =>
            \E p \in saved.objects : b \in Bytes(p)
      BY <3>1, RestoreReads
    <3> QED
      BY <3>1, <3>2
  <2>2. CASE CloneActors \/ CloneObjBank \/ GamePlays
    BY <2>2 DEF CloneActors, CloneObjBank, GamePlays, Backup
  <2> QED
    BY <2>1, <2>2 DEF CloneNext
<1> HIDE DEF A
<1>2. CloneSpec => [][A]_cloneVars
  BY <1>1, AreaHoldsBackup, PTL DEF CloneSpec
<1> QED
  BY <1>2 DEF RestoreTouchesOnly, A

-----------------------------------------------------------------------------
(* What is known of the bytes, and how a word reads.                       *)

HexDigit == 0..Hex - 1

LEMMA HexIs ==
  /\ Hex \in Nat \ {0, 1} /\ ByteSize_ \in Nat \ {0, 1} /\ ByteSize_ = Hex * Hex
  /\ WordDigits = 8 /\ WordSize \in Nat \ {0}
  /\ \A n \in Nat : /\ Power(Hex, n) \in Nat \ {0} /\ Power(Hex, n + 1) = Hex * Power(Hex, n)
                    /\ Power(ByteSize_, n) = Power(Hex, 2 * n)
<1>1. Hex \in Nat \ {0, 1} /\ WordDigits = 8
  BY NumbersAssumption, ConsoleAssumption
<1>2. ByteSize_ = Hex * Hex /\ \A n \in Nat : Power(ByteSize_, n) = Power(Hex, 2 * n)
  BY <1>1, PowerOfSquare DEF ByteSize_
<1>3. \A n \in Nat : Power(Hex, n) \in Nat \ {0} /\ Power(Hex, n + 1) = Hex * Power(Hex, n)
  BY <1>1, PowerEquation
<1>4. WordSize \in Nat \ {0}
  BY <1>1, <1>3 DEF WordSize
<1>5. Hex * Hex \in Nat \ {0, 1}
  BY <1>1
<1> QED
  BY <1>1, <1>2, <1>3, <1>4, <1>5

\* The digits of n bytes from a, and that they are the bytes.
Pairs(t, a, n) == [i \in 1..2 * n |-> t[a + ((i - 1) \div 2)][1 + ((i - 1) % 2)]]

PairsOK(r, t, a, n) ==
  /\ a \in Nat /\ n \in Nat
  /\ \A k \in 0..n - 1 : /\ t[a + k][1] \in HexDigit /\ t[a + k][2] \in HexDigit
                         /\ r[a + k] = Hex * t[a + k][1] + t[a + k][2]

LEMMA PairDigits ==
  ASSUME NEW r, NEW t, NEW a, NEW n, PairsOK(r, t, a, n)
  PROVE  /\ Len(Pairs(t, a, n)) = 2 * n
         /\ \A i \in 1..2 * n : Pairs(t, a, n)[i] \in HexDigit
         /\ \A k \in 0..n - 1 : /\ Pairs(t, a, n)[2 * k + 1] = t[a + k][1]
                                /\ Pairs(t, a, n)[2 * k + 2] = t[a + k][2]
<1> USE DEF PairsOK
<1> DEFINE d == Pairs(t, a, n)
<1>1. \A i \in 1..2 * n : d[i] = t[a + ((i - 1) \div 2)][1 + ((i - 1) % 2)]
  BY DEF Pairs
<1>2. Len(d) = 2 * n
  BY DEF Pairs
<1> HIDE DEF d
<1>3. ASSUME NEW k \in 0..n - 1
      PROVE  d[2 * k + 1] = t[a + k][1] /\ d[2 * k + 2] = t[a + k][2]
  <2> DEFINE i == 2 * k + 1  j == 2 * k + 2
  <2>1. i \in 1..2 * n /\ (i - 1) \div 2 = k /\ (i - 1) % 2 = 0
    OBVIOUS
  <2>2. j \in 1..2 * n /\ (j - 1) \div 2 = k /\ (j - 1) % 2 = 1
    OBVIOUS
  <2>4. 1 + 0 = 1 /\ 1 + 1 = 2
    OBVIOUS
  <2> HIDE DEF i, j
  <2>3. d[i] = t[a + k][1] /\ d[j] = t[a + k][2]
    BY <1>1, <2>1, <2>2, <2>4
  <2> QED
    BY <2>3 DEF i, j
<1>4. ASSUME NEW i \in 1..2 * n PROVE d[i] \in HexDigit
  <2> DEFINE k == (i - 1) \div 2
  <2>1. k \in 0..n - 1 /\ (i = 2 * k + 1 \/ i = 2 * k + 2)
    OBVIOUS
  <2> HIDE DEF k
  <2>2. d[2 * k + 1] \in HexDigit /\ d[2 * k + 2] \in HexDigit
    BY <1>3, <2>1
  <2> QED
    BY <2>1, <2>2
<1> QED
  BY <1>2, <1>3, <1>4 DEF d

HornerOf(f, b, s, n) == f = [i \in 0..n |-> IF i = 0 THEN 0 ELSE b * f[i - 1] + s[i]]

LEMMA HornerSolves ==
  ASSUME NEW b, NEW s, NEW n \in Nat
  PROVE  \E f : HornerOf(f, b, s, n)
<1> DEFINE F == CHOOSE f : f = [i \in 0..n |-> IF i = 0 THEN 0 ELSE b * f[i - 1] + s[i]]
<1>1. F = [i \in 0..n |-> IF i = 0 THEN 0 ELSE b * F[i - 1] + s[i]]
  BY HornerExists
<1> HIDE DEF F
<1>2. HornerOf(F, b, s, n)
  BY <1>1 DEF HornerOf
<1> QED
  BY <1>2

LEMMA WordReads ==
  ASSUME NEW a, NEW n \in Nat
  PROVE  \E f : /\ f[0] = 0 /\ WordAt(a, n) = f[n]
                /\ \A i \in 1..n : f[i] = ByteSize_ * f[i - 1] + ram[a + i - 1]
<1> DEFINE s == [i \in 1..n |-> ram[a + i - 1]]
           F == CHOOSE f : f = [i \in 0..n |-> IF i = 0 THEN 0 ELSE ByteSize_ * f[i - 1] + ram[a + i - 1]]
<1>2. \A i \in 0..n : i # 0 => s[i] = ram[a + i - 1]
  OBVIOUS
<1> HIDE DEF s, F
<1>1. PICK f : HornerOf(f, ByteSize_, s, n)
  BY HornerSolves
<1>3. f = [i \in 0..n |-> IF i = 0 THEN 0 ELSE ByteSize_ * f[i - 1] + ram[a + i - 1]]
  BY <1>1, <1>2 DEF HornerOf
<1>4. F = [i \in 0..n |-> IF i = 0 THEN 0 ELSE ByteSize_ * F[i - 1] + ram[a + i - 1]]
  BY <1>3 DEF F
<1>5. WordAt(a, n) = F[n]
  BY DEF WordAt, F
<1>6. F[0] = 0 /\ \A i \in 1..n : F[i] = ByteSize_ * F[i - 1] + ram[a + i - 1]
  BY <1>4
<1> QED
  BY <1>5, <1>6

\* A word read from its bytes is the number its digits stand for.
LEMMA PeekReads ==
  ASSUME NEW a, NEW n, PairsOK(ram, told, a, n)
  PROVE  /\ TextValue(Hex, Pairs(told, a, n)) = WordAt(a, n)
         /\ WordAt(a, n) \in 0..Power(Hex, 2 * n) - 1
         /\ HexStr(WordAt(a, n), n) = Pairs(told, a, n)
         /\ n # 0 => WordAt(a, n) \div Power(Hex, 2 * n - 1) = Pairs(told, a, n)[1]
<1> DEFINE d == Pairs(told, a, n)  m == 2 * n
<1>n. a \in Nat /\ n \in Nat /\ m \in Nat
  BY DEF PairsOK
<1>h. Hex \in Nat \ {0, 1} /\ ByteSize_ = Hex * Hex
  BY HexIs
<1>d. /\ Len(d) = m /\ \A i \in 1..m : d[i] \in HexDigit
      /\ \A k \in 0..n - 1 : ram[a + k] = Hex * d[2 * k + 1] + d[2 * k + 2]
  <2>1. /\ Len(Pairs(told, a, n)) = 2 * n
        /\ \A i \in 1..2 * n : Pairs(told, a, n)[i] \in HexDigit
        /\ \A k \in 0..n - 1 : /\ Pairs(told, a, n)[2 * k + 1] = told[a + k][1]
                               /\ Pairs(told, a, n)[2 * k + 2] = told[a + k][2]
    BY ONLY PairsOK(ram, told, a, n), PairDigits
  <2>2. \A k \in 0..n - 1 : ram[a + k] = Hex * told[a + k][1] + told[a + k][2]
    BY DEF PairsOK
  <2> QED
    BY <2>1, <2>2
<1> HIDE DEF d
<1>1. PICK f : /\ f[0] = 0 /\ WordAt(a, n) = f[n]
               /\ \A i \in 1..n : f[i] = ByteSize_ * f[i - 1] + ram[a + i - 1]
  BY <1>n, WordReads
<1>2. PICK g : IsHorner(g, Hex, d, m) /\ TextValue(Hex, d) = g[m]
  BY <1>d, <1>n, TextReads
<1>3. Reads(g, Hex, d, m)
  BY <1>d, <1>h, <1>n, <1>2 DEF Reads, HexDigit
<1>4. \A i \in 0..m : g[i] \in Nat
  <2>1. \A i \in 1..m : d[i] \in Nat
    BY <1>d, <1>h DEF HexDigit
  <2> QED
    BY <1>h, <1>n, <1>2, <2>1, HornerType
<1> DEFINE S == {i \in Nat : i <= n => f[i] = g[2 * i]}
<1>5. 0 \in S
  <2>1. 2 * 0 = 0
    OBVIOUS
  <2> QED
    BY <1>1, <1>2, <2>1 DEF IsHorner
<1>6. ASSUME NEW i \in Nat, i \in S PROVE i + 1 \in S
  <2> SUFFICES ASSUME i + 1 <= n PROVE f[i + 1] = g[2 * (i + 1)]
    OBVIOUS
  <2> DEFINE j == 2 * i  j1 == 2 * i + 1  j2 == 2 * i + 2  i1 == i + 1
  <2>1. /\ i \in 0..n - 1 /\ i1 \in 1..n /\ i1 - 1 = i /\ a + i1 - 1 = a + i
        /\ j \in 0..m /\ j1 \in 1..m /\ j2 \in 1..m
        /\ j1 - 1 = j /\ j2 - 1 = j1 /\ 2 * i1 = j2
    BY <1>n
  <2>2. f[i] = g[j]
    BY <1>6, <1>n
  <2>3. ram[a + i] = Hex * d[j1] + d[j2]
    BY <1>d, <2>1
  <2> HIDE DEF j, j1, j2, i1, m
  <2>4. f[i1] = ByteSize_ * g[j] + ram[a + i]
    BY <1>1, <2>1, <2>2
  <2>5. g[j1] = Hex * g[j] + d[j1]
    BY <1>2, <2>1 DEF IsHorner
  <2>6. g[j2] = Hex * g[j1] + d[j2]
    BY <1>2, <2>1 DEF IsHorner
  <2> DEFINE x == g[j]  y == d[j1]  z == d[j2]
  <2>7. x \in Nat /\ y \in Nat /\ z \in Nat
    BY <1>4, <1>d, <1>h, <2>1 DEF HexDigit
  <2> HIDE DEF x, y, z
  <2>8. (Hex * Hex) * x + (Hex * y + z) = Hex * (Hex * x + y) + z
    BY <1>h, <2>7
  <2>9. f[i1] = (Hex * Hex) * x + (Hex * y + z) /\ g[j2] = Hex * (Hex * x + y) + z
    BY <1>h, <2>3, <2>4, <2>5, <2>6 DEF x, y, z
  <2> QED
    BY <2>1, <2>8, <2>9 DEF i1
<1> HIDE DEF S
<1>7. n \in S
  BY <1>5, <1>6, <1>n, Induction
<1>8. WordAt(a, n) = g[m]
  BY <1>1, <1>7, <1>n DEF S
<1>9. g[m] \in 0..Power(Hex, m) - 1
  BY <1>3, HornerBound
<1>10. \A k \in 0..m - 1 : (g[m] \div Power(Hex, k)) % Hex = d[m - k]
  BY <1>3, HornerQuotient
<1>11. HexStr(g[m], n) = d
  <2>1. ASSUME NEW i \in 1..m PROVE HexStr(g[m], n)[i] = d[i]
    <3> DEFINE k == m - i
    <3>1. k \in 0..m - 1 /\ m - k = i
      BY <1>n
    <3>2. HexStr(g[m], n)[i] = (g[m] \div Power(Hex, k)) % Hex
      BY DEF HexStr
    <3> HIDE DEF k
    <3> QED
      BY <1>10, <3>1, <3>2
  <2>2. HexStr(g[m], n) = [i \in 1..m |-> HexStr(g[m], n)[i]]
    BY DEF HexStr
  <2>3. d = [i \in 1..m |-> d[i]]
    BY DEF d, Pairs
  <2> QED
    BY <2>1, <2>2, <2>3
<1>12. ASSUME n # 0 PROVE g[m] \div Power(Hex, m - 1) = d[1]
  <2>1. m - 1 \in 0..m /\ m - (m - 1) = 1 /\ 1 \in 1..m /\ 1 - 1 = 0
    BY <1>12, <1>n
  <2>2. g[m] \div Power(Hex, m - 1) = g[1]
    BY <1>3, <2>1, HornerQuotient
  <2>3. g[1] = Hex * g[0] + d[1] /\ g[0] = 0 /\ d[1] \in Nat
    BY <1>2, <1>d, <1>h, <2>1 DEF IsHorner, HexDigit
  <2> QED
    BY <1>h, <2>2, <2>3
<1> QED
  BY <1>2, <1>8, <1>9, <1>11, <1>12 DEF d

-----------------------------------------------------------------------------
(* Signed numbers.                                                         *)

LEMMA ValueOfHexStr ==
  ASSUME NEW n \in Nat, NEW j \in Nat, NEW u \in 0..Power(Hex, 2 * n) - 1, NEW v,
         v = Power(Hex, 2 * n) * j + u
  PROVE  /\ HexStr(v, n) \in Seq(HexDigit)
         /\ TextValue(Hex, HexStr(v, n)) = u
<1> DEFINE s == HexStr(v, n)  m == 2 * n
<1>h. Hex \in Nat \ {0, 1} /\ Hex \in Nat \ {0} /\ m \in Nat
  BY HexIs
<1>p. \A k \in Nat : Power(Hex, k) \in Nat \ {0} /\ Power(Hex, k + 1) = Hex * Power(Hex, k)
  BY HexIs
<1>1. \A i \in 1..m : s[i] = (v \div Power(Hex, m - i)) % Hex
  BY DEF HexStr
<1>2. Len(s) = m /\ s = [i \in 1..m |-> s[i]]
  BY <1>h DEF HexStr
<1> HIDE DEF s
<1>3. ASSUME NEW i \in 1..m PROVE s[i] = (u \div Power(Hex, m - i)) % Hex /\ s[i] \in HexDigit
  <2> DEFINE k == m - i  l == i - 1  p == Power(Hex, k)  q == Power(Hex, l)
  <2>1. k \in Nat /\ l \in Nat /\ l + 1 = i /\ k + (l + 1) = m /\ l + 1 \in Nat
    BY <1>h
  <2> HIDE DEF k, l
  <2>2. p \in Nat \ {0} /\ q \in Nat \ {0} /\ Power(Hex, l + 1) = Hex * q
    BY <1>p, <2>1
  <2>3. \A x \in Nat : Power(Hex, x + (l + 1)) = Power(Hex, x) * Power(Hex, l + 1)
    BY <1>h, <2>1, PowerSum
  <2>4. Power(Hex, m) = p * (Hex * q)
    BY <2>1, <2>2, <2>3
  <2> HIDE DEF p, q
  <2>5. u \in Nat /\ v = (p * (Hex * q)) * j + u
    BY <1>h, <1>p, <2>4
  <2>6. (v \div p) % Hex = (u \div p) % Hex
    <3>1. Above(v, u, p, Hex, q, j)
      BY <1>h, <2>2, <2>5 DEF Above
    <3> QED
      BY <3>1, LowDigits
  <2>7. u \div p \in Nat /\ (u \div p) % Hex \in 0..Hex - 1
    BY <1>h, <2>2, <2>5, Division
  <2> QED
    BY <1>1, <2>6, <2>7 DEF p, k, HexDigit
<1>4. s \in Seq(HexDigit)
  <2>1. s \in [1..m -> HexDigit]
    BY <1>2, <1>3
  <2> QED
    BY <1>h, <2>1
<1>5. PICK f : IsHorner(f, Hex, s, m) /\ TextValue(Hex, s) = f[m]
  BY <1>h, <1>2, TextReads
<1>6. f[0] = 0 /\ \A i \in 1..m : f[i] = Hex * f[i - 1] + ((u \div Power(Hex, m - i)) % Hex)
  BY <1>3, <1>5 DEF IsHorner
<1>7. f[m] = u
  BY <1>h, <1>6, HornerOfDigits
<1> QED
  BY <1>4, <1>5, <1>7 DEF s

LEMMA TailIs ==
  ASSUME NEW s \in Seq(Int), NEW x \in Int
  PROVE  (<<x>> \o s)[1] = x /\ Tail(<<x>> \o s) = s
<1> DEFINE c == <<x>>  t == c \o s  r == Tail(t)
<1>1. c \in Seq(Int) /\ Len(c) = 1 /\ c[1] = x
  OBVIOUS
<1> HIDE DEF c
<1>2. /\ t \in Seq(Int) /\ Len(t) = Len(c) + Len(s) /\ Len(s) \in Nat
      /\ \A k \in 1..Len(c) : t[k] = c[k]
      /\ \A k \in 1..Len(s) : t[Len(c) + k] = s[k]
  <2>1. c \in Seq(Int) /\ s \in Seq(Int)
    BY <1>1
  <2> QED
    BY ONLY <2>1, Joined
<1> HIDE DEF t
<1>3. r \in Seq(Int) /\ Len(r) = Len(t) - 1 /\ \A k \in 1..Len(t) - 1 : r[k] = t[k + 1]
  BY <1>1, <1>2
<1> HIDE DEF r
<1>4. Len(r) = Len(s) /\ \A k \in 1..Len(s) : r[k] = s[k]
  <2>1. Len(t) - 1 = Len(s) /\ \A k \in 1..Len(s) : k + 1 = Len(c) + k
    BY <1>1, <1>2
  <2> QED
    BY <1>2, <1>3, <2>1
<1>5. r = s
  <2>1. r \in Seq(Int) /\ s \in Seq(Int)
    BY <1>3
  <2> QED
    BY ONLY <1>4, <2>1
<1>6. t[1] = x
  BY <1>1, <1>2
<1> QED
  BY <1>5, <1>6 DEF r, t, c

\* The sign of the first digit is that of the number.
LEMMA SignOf ==
  ASSUME NEW h \in Nat \ {0, 1}, h % 2 = 0, NEW p \in Nat \ {0}, NEW w \in Nat
  PROVE  w \div p >= h \div 2 <=> w >= (h * p) \div 2
<1> DEFINE e == h \div 2  q == w \div p  r == w % p
<1>1. e \in Nat /\ h = 2 * e
  OBVIOUS
<1>2. q \in Nat /\ r \in 0..p - 1 /\ w = p * q + r
  BY Division
<1> HIDE DEF e, q, r
<1>3. h * p = 2 * (e * p)
  BY <1>1
<1>4. (h * p) \div 2 = e * p
  <2> DEFINE x == e * p  y == h * p
  <2>1. x \in Nat /\ y = 2 * x
    BY <1>1, <1>3
  <2> HIDE DEF x, y
  <2>2. y \div 2 = x
    BY <2>1
  <2> QED
    BY <2>2 DEF x, y
<1>5. ASSUME q >= e PROVE w >= e * p
  <2>1. p * q >= e * p
    BY <1>1, <1>2, <1>5
  <2> DEFINE x == e * p  y == p * q
  <2>2. x \in Nat /\ y \in Nat /\ y >= x /\ w = y + r
    BY <1>1, <1>2, <2>1
  <2> HIDE DEF x, y
  <2>3. w >= x
    BY <1>2, <2>2
  <2> QED
    BY <2>3 DEF x
<1>6. ASSUME q < e PROVE w < e * p
  <2>1. p * (q + 1) <= e * p /\ p * (q + 1) = p * q + p
    BY <1>1, <1>2, <1>6
  <2> DEFINE x == e * p  y == p * q
  <2>2. x \in Nat /\ y \in Nat /\ y + p <= x /\ w = y + r
    BY <1>1, <1>2, <2>1
  <2> HIDE DEF x, y
  <2>3. w < x
    BY <1>2, <2>2
  <2> QED
    BY <2>3 DEF x
<1>7. w >= e * p <=> q >= e
  <2>1. e * p \in Nat
    BY <1>1
  <2> DEFINE x == e * p
  <2> HIDE DEF x
  <2>2. (q >= e => w >= x) /\ (q < e => w < x) /\ x \in Nat
    BY <1>5, <1>6, <2>1 DEF x
  <2>3. w >= x <=> q >= e
    BY <1>1, <1>2, <2>2
  <2> QED
    BY <2>3 DEF x
<1> QED
  BY <1>4, <1>7 DEF e, q

LEMMA SignedReads ==
  ASSUME NEW a, NEW n \in Sizes, PairsOK(ram, told, a, n)
  PROVE  LET d   == Pairs(told, a, n)
             ans == HexStrSigned(WordAt(a, n), n)
         IN IF TextValue(Hex, d) >= Power(Hex, 2 * n) \div 2
              THEN /\ ans[1] = Minus
                   /\ TextValue(Hex, Tail(ans)) + TextValue(Hex, d) = Power(Hex, 2 * n)
              ELSE TextValue(Hex, ans) = TextValue(Hex, d)
<1> DEFINE d == Pairs(told, a, n)  w == WordAt(a, n)  m == 2 * n  M == Power(Hex, m)
           ans == HexStrSigned(w, n)  v == WordSize - w
<1>n. n \in Nat /\ n # 0 /\ m \in {2, 4, 8} /\ m \in Nat
  BY DEF Sizes
<1>1. TextValue(Hex, d) = w /\ w \in 0..M - 1 /\ HexStr(w, n) = d
      /\ w \div Power(Hex, m - 1) = d[1]
  BY <1>n, PeekReads
<1>h. Hex \in Nat \ {0, 1} /\ Hex % 2 = 0 /\ WordDigits = 8
      /\ \A k \in Nat : Power(Hex, k) \in Nat \ {0} /\ Power(Hex, k + 1) = Hex * Power(Hex, k)
  BY HexIs, ConsoleAssumption
<1>2. d[1] >= Hex \div 2 <=> w >= M \div 2
  <2> DEFINE k == m - 1  p == Power(Hex, k)
  <2>1. k \in Nat /\ k + 1 = m
    BY <1>n
  <2> HIDE DEF k
  <2>2. p \in Nat \ {0} /\ M = Hex * p
    BY <1>h, <2>1
  <2>3. w \in Nat
    BY <1>1, <2>2
  <2> HIDE DEF p, M, w, d
  <2>4. w \div p >= Hex \div 2 <=> w >= (Hex * p) \div 2
    BY <1>h, <2>2, <2>3, SignOf
  <2> QED
    BY <1>1, <2>2, <2>4 DEF p, k
<1>3. ans = IF d[1] >= Hex \div 2 THEN <<Minus>> \o HexStr(v, n) ELSE d
  BY <1>1 DEF HexStrSigned
<1>4. ASSUME w >= M \div 2
      PROVE  ans[1] = Minus /\ TextValue(Hex, Tail(ans)) + TextValue(Hex, d) = M
  <2> DEFINE k == 8 - m  K == Power(Hex, k)  u == M - w
  <2>1. k \in Nat /\ k + m = WordDigits
    BY <1>h, <1>n
  <2>2. K \in Nat \ {0} /\ M \in Nat \ {0} /\ M >= 2
    <3>1. m - 1 \in Nat /\ (m - 1) + 1 = m
      BY <1>n
    <3>2. Power(Hex, m - 1) \in Nat \ {0} /\ M = Hex * Power(Hex, m - 1)
      BY <1>h, <3>1
    <3> DEFINE p == Power(Hex, m - 1)
    <3> HIDE DEF p, M
    <3>3. Hex * p >= 2
      BY <1>h, <3>2 DEF p
    <3>4. K \in Nat \ {0}
      BY <1>h, <2>1
    <3> HIDE DEF K
    <3> QED
      BY <1>h, <3>2, <3>3, <3>4 DEF p
  <2>3. WordSize = K * M
    <3>1. \A x \in Nat : Power(Hex, x + m) = Power(Hex, x) * Power(Hex, m)
      BY <1>h, <1>n, PowerSum
    <3> HIDE DEF k, m
    <3> QED
      BY <2>1, <3>1 DEF WordSize
  <2> HIDE DEF K, M, w, m
  <2>4. u \in 0..M - 1 /\ u + w = M
    BY <1>1, <1>4, <2>2
  <2>5. K * M = M * (K - 1) + M /\ K - 1 \in Nat
    BY <2>2
  <2>6. v = M * (K - 1) + u
    <3> DEFINE x == M * (K - 1)
    <3>1. x \in Nat /\ WordSize = x + M
      BY <2>2, <2>3, <2>5
    <3> HIDE DEF x
    <3>2. v = x + u
      BY <1>1, <2>2, <3>1
    <3> QED
      BY <3>2 DEF x
  <2> HIDE DEF v, u
  <2>7. HexStr(v, n) \in Seq(HexDigit) /\ TextValue(Hex, HexStr(v, n)) = u
    BY <1>n, <2>4, <2>5, <2>6, ValueOfHexStr DEF M, m
  <2>8. HexStr(v, n) \in Seq(Int) /\ Minus \in Int
    BY <1>h, <2>7 DEF HexDigit, Minus
  <2>9. ans = <<Minus>> \o HexStr(v, n)
    BY <1>2, <1>3, <1>4
  <2>10. ans[1] = Minus /\ Tail(ans) = HexStr(v, n)
    BY <2>8, <2>9, TailIs
  <2> QED
    BY <1>1, <2>4, <2>7, <2>10
<1>5. ASSUME ~(w >= M \div 2) PROVE TextValue(Hex, ans) = TextValue(Hex, d)
  BY <1>2, <1>3, <1>5
<1> QED
  BY <1>1, <1>4, <1>5

-----------------------------------------------------------------------------
(* Floats.                                                                 *)

PointOf(str) == CHOOSE i \in 1..Len(str) : str[i] = Point

IsWhole(f, str) ==
  /\ f[0] = 0 /\ WholeOf(str) = f[PointOf(str) - 1]
  /\ \A i \in 1..Len(str) : f[i] = IF str[i] = Minus THEN 0 ELSE Dec * f[i - 1] + str[i]

LEMMA WholeReads == ASSUME NEW str \in Seq(Int) PROVE \E f : IsWhole(f, str)
<1> DEFINE n == Len(str)
           step == [i \in 1..n |-> [v \in Int |-> IF str[i] = Minus THEN 0 ELSE Dec * v + str[i]]]
           F == CHOOSE f : f = [i \in 0..n |-> IF i = 0 \/ str[i] = Minus THEN 0
                                               ELSE Dec * f[i - 1] + str[i]]
<1>0. n \in Nat /\ Dec \in Nat
  BY NumbersAssumption
<1>1. Iterates(n, Int, 0, step)
  <2>1. \A i \in 1..n : str[i] \in Int
    OBVIOUS
  <2>2. \A i \in 1..n, v \in Int : (IF str[i] = Minus THEN 0 ELSE Dec * v + str[i]) \in Int
    BY <1>0, <2>1
  <2> HIDE DEF n
  <2>3. step \in [1..n -> [Int -> Int]]
    BY <2>2
  <2> HIDE DEF step
  <2> QED
    BY <1>0, <2>3 DEF Iterates
<1>2. PICK f \in [0..n -> Int] : \A i \in 0..n : f[i] = IF i = 0 THEN 0 ELSE step[i][f[i - 1]]
  <2> HIDE DEF n, step
  <2> QED
    BY <1>1, Iteration
<1>3. ASSUME NEW i \in 0..n
      PROVE  f[i] = IF i = 0 \/ str[i] = Minus THEN 0 ELSE Dec * f[i - 1] + str[i]
  <2>1. CASE i = 0
    BY <1>2, <2>1
  <2>2. CASE i # 0
    <3>1. i \in 1..n /\ i - 1 \in 0..n /\ f[i - 1] \in Int
      BY <1>0, <1>2, <2>2
    <3>2. f[i] = step[i][f[i - 1]]
      BY <1>2, <2>2
    <3> QED
      BY <2>2, <3>1, <3>2
  <2> QED
    BY <2>1, <2>2
<1> HIDE DEF step
<1>4. f = [i \in 0..n |-> IF i = 0 \/ str[i] = Minus THEN 0 ELSE Dec * f[i - 1] + str[i]]
  BY <1>2, <1>3
<1>5. F = [i \in 0..n |-> IF i = 0 \/ str[i] = Minus THEN 0 ELSE Dec * F[i - 1] + str[i]]
  BY <1>4
<1>6. WholeOf(str) = F[PointOf(str) - 1]
  BY DEF WholeOf, PointOf
<1> HIDE DEF F
<1>7. F[0] = 0
  BY <1>0, <1>5
<1>8. ASSUME NEW i \in 1..n PROVE F[i] = IF str[i] = Minus THEN 0 ELSE Dec * F[i - 1] + str[i]
  <2>1. i \in 0..n /\ i # 0
    OBVIOUS
  <2> QED
    BY <1>5, <2>1
<1>9. IsWhole(F, str)
  BY <1>6, <1>7, <1>8 DEF IsWhole
<1> QED
  BY <1>9

LEMMA DecStrChars ==
  ASSUME NEW v \in Nat, NEW size \in Nat
  PROVE  DecStr(v, size) \in Seq(Digit_ \cup {Minus})
<1> DEFINE S == Digit_ \cup {Minus}
           sg == IF Negative(v) THEN <<Minus>> ELSE <<>>
           s == DecDigits[v]
           k == IF Len(s) < size THEN size - Len(s) ELSE 0
           z == Zeros(k)
<1>1. s \in Seq(Digit_)
  BY DecDigitsEquation
<1> HIDE DEF s
<1>2. k \in Nat
  BY <1>1
<1> HIDE DEF k
<1>3. sg \in Seq(S) /\ s \in Seq(S)
  <2>1. Minus \in S /\ Digit_ \subseteq S
    OBVIOUS
  <2> HIDE DEF S
  <2>2. <<Minus>> \in Seq(S) /\ <<>> \in Seq(S)
    BY <2>1
  <2>3. Len(s) \in Nat /\ \A i \in 1..Len(s) : s[i] \in Digit_
    BY <1>1
  <2>4. s \in [1..Len(s) -> S]
    BY <1>1, <2>1, <2>3
  <2> QED
    BY <2>2, <2>3, <2>4
<1>4. z \in Seq(S)
  <2>1. 0 \in S
    BY NumbersAssumption DEF Digit_
  <2> HIDE DEF S
  <2> QED
    BY <1>2, <2>1 DEF Zeros
<1>5. DecStr(v, size) = (sg \o z) \o s
  BY DEF DecStr, s, k
<1> HIDE DEF sg, z, S
<1>6. sg \o z \in Seq(S)
  BY <1>3, <1>4
<1> DEFINE q == sg \o z
<1> HIDE DEF q
<1>7. q \o s \in Seq(S)
  BY <1>3, <1>6 DEF q
<1> QED
  BY <1>5, <1>7 DEF q, S

\* A sign or none, digits, the point and what follows it.
LEMMA WholeBefore ==
  ASSUME NEW sg \in Seq(Int), NEW s \in Seq(Digit_), NEW fr \in Seq(Int), NEW ans,
         ans = sg \o s \o (<<Point>> \o fr),
         sg = <<>> \/ sg = <<Minus>>,
         \A i \in 1..Len(fr) : fr[i] # Point
  PROVE  WholeOf(ans) = DecValue(s) /\ (ans[1] = Minus <=> sg = <<Minus>>)
<1> DEFINE c == <<Point>>  u == c \o fr  t == sg \o s  k == Len(sg)  n == Len(s)
<1>d. Dec \in Nat \ {0, 1} /\ Point \notin Digit_ /\ Minus \notin Digit_ /\ Point # Minus
  BY NumbersAssumption DEF Digit_, Point, Minus
<1>1. c \in Seq(Int) /\ Len(c) = 1 /\ c[1] = Point
  BY DEF Point
<1> HIDE DEF c
<1>2. s \in Seq(Int) /\ n \in Nat /\ \A i \in 1..n : s[i] \in Digit_
  BY <1>d DEF Digit_
<1>3. /\ u \in Seq(Int) /\ Len(u) = Len(c) + Len(fr) /\ Len(fr) \in Nat
      /\ \A i \in 1..Len(c) : u[i] = c[i]
      /\ \A i \in 1..Len(fr) : u[Len(c) + i] = fr[i]
  <2>1. c \in Seq(Int) /\ fr \in Seq(Int)
    BY <1>1
  <2> QED
    BY ONLY <2>1, Joined
<1>4. /\ t \in Seq(Int) /\ Len(t) = Len(sg) + Len(s) /\ Len(sg) \in Nat
      /\ \A i \in 1..Len(sg) : t[i] = sg[i]
      /\ \A i \in 1..Len(s) : t[Len(sg) + i] = s[i]
  <2>1. sg \in Seq(Int) /\ s \in Seq(Int)
    BY <1>2
  <2> QED
    BY ONLY <2>1, Joined
<1>5. ans = t \o u
  BY DEF c
<1> HIDE DEF t, u
<1>6. /\ ans \in Seq(Int) /\ Len(ans) = Len(t) + Len(u)
      /\ \A i \in 1..Len(t) : ans[i] = t[i]
      /\ \A i \in 1..Len(u) : ans[Len(t) + i] = u[i]
  <2>1. t \in Seq(Int) /\ u \in Seq(Int)
    BY <1>3, <1>4
  <2>2. /\ t \o u \in Seq(Int) /\ Len(t \o u) = Len(t) + Len(u)
        /\ \A i \in 1..Len(t) : (t \o u)[i] = t[i]
        /\ \A i \in 1..Len(u) : (t \o u)[Len(t) + i] = u[i]
    BY ONLY <2>1, Joined
  <2> QED
    BY <1>5, <2>2
<1>7. (sg = <<Minus>> /\ k = 1 /\ sg[1] = Minus) \/ (sg = <<>> /\ k = 0 /\ sg # <<Minus>>)
  <2>1. <<Minus>> # <<>> /\ Len(<<Minus>>) = 1 /\ <<Minus>>[1] = Minus /\ Len(<<>>) = 0
    OBVIOUS
  <2> QED
    BY <2>1, Zenon
<1>k. k \in Nat /\ Len(t) = k + n /\ k + n \in Nat
  BY <1>2, <1>4, <1>7
<1>8. \A i \in 1..k : ans[i] = Minus
  <2>1. \A i \in 1..k : i = 1 /\ sg[i] = Minus /\ i \in 1..Len(t)
    <3>1. CASE k = 0
      BY <3>1
    <3>2. CASE k = 1
      <4>1. sg[1] = Minus /\ 1 \in 1..Len(t)
        BY <1>2, <1>7, <1>k, <3>2
      <4> QED
        BY <3>2, <4>1
    <3> QED
      BY <1>7, <3>1, <3>2
  <2> QED
    BY <1>4, <1>6, <2>1
<1>9. ASSUME NEW i \in 1..n PROVE ans[k + i] = s[i]
  <2> DEFINE l == k + i
  <2>1. l \in 1..Len(t) /\ t[l] = s[i]
    BY <1>2, <1>4, <1>k
  <2> HIDE DEF l
  <2>2. ans[l] = s[i]
    BY <1>6, <2>1
  <2> QED
    BY <2>2 DEF l
<1> DEFINE p == k + n + 1
<1>10. p \in 1..Len(ans) /\ ans[p] = Point
  <2>1. 1 \in 1..Len(u) /\ u[1] = Point /\ p = Len(t) + 1
    BY <1>1, <1>3, <1>k, <1>2
  <2>2. ans[Len(t) + 1] = Point
    BY <1>6, <2>1
  <2>3. p \in 1..Len(ans)
    BY <1>1, <1>2, <1>3, <1>6, <1>k
  <2> HIDE DEF p
  <2> QED
    BY <2>1, <2>2, <2>3
<1>11. ASSUME NEW i \in 1..Len(ans), i # p PROVE ans[i] # Point
  <2>1. CASE i <= k
    <3>1. i \in 1..k
      BY <1>k, <2>1
    <3> QED
      BY <1>8, <1>d, <3>1
  <2>2. CASE i > k /\ i <= k + n
    <3> DEFINE l == i - k
    <3>1. l \in 1..n /\ k + l = i
      BY <1>2, <1>k, <2>2
    <3> HIDE DEF l
    <3>2. ans[i] = s[l] /\ s[l] \in Digit_
      BY <1>2, <1>9, <3>1
    <3> QED
      BY <1>d, <3>2
  <2>3. CASE i > p
    <3> DEFINE l == i - p
    <3>0. /\ Len(c) = 1 /\ Len(t) = k + n /\ Len(u) = 1 + Len(fr) /\ Len(fr) \in Nat
          /\ Len(ans) = Len(t) + Len(u) /\ k \in Nat /\ n \in Nat
          /\ i \in 1..Len(ans) /\ i > k + n + 1
      BY <1>1, <1>2, <1>3, <1>6, <1>k, <2>3
    <3>1. l \in 1..Len(fr) /\ Len(t) + (Len(c) + l) = i /\ Len(c) + l \in 1..Len(u)
      BY ONLY <3>0
    <3> DEFINE q == Len(c) + l
    <3>2. q \in 1..Len(u) /\ Len(t) + q = i /\ u[q] = fr[l] /\ fr[l] # Point
      BY <1>3, <3>1
    <3> HIDE DEF l, q
    <3>3. ans[i] = u[q]
      BY <1>6, <3>2
    <3> QED
      BY <3>2, <3>3
  <2>4. i \in Int /\ k \in Nat /\ n \in Nat /\ i # k + n + 1
    BY <1>2, <1>k, <1>11
  <2>5. i <= k \/ (i > k /\ i <= k + n) \/ i > p
    <3> HIDE DEF k, n
    <3>1. CASE i > k /\ ~(i <= k + n)
      <4>1. i > k + n /\ k + n \in Int
        BY <2>4, <3>1
      <4> QED
        BY <2>4, <4>1
    <3>2. CASE ~(i > k)
      BY <2>4, <3>2
    <3> QED
      BY <3>1, <3>2
  <2> QED
    BY <2>1, <2>2, <2>3, <2>5
<1>12. p = PointOf(ans)
  <2> HIDE DEF p
  <2> QED
    BY <1>10, <1>11 DEF PointOf
<1>p. p - 1 = k + n
  BY <1>2, <1>k
<1> HIDE DEF p
<1>13. PICK f : /\ f[0] = 0 /\ WholeOf(ans) = f[p - 1]
                /\ \A i \in 1..Len(ans) :
                     f[i] = IF ans[i] = Minus THEN 0 ELSE Dec * f[i - 1] + ans[i]
  <2>1. PICK f : IsWhole(f, ans)
    BY <1>6, WholeReads
  <2> QED
    BY <1>12, <2>1 DEF IsWhole
<1> DEFINE T == [i \in 1..k + n |-> IF i <= k THEN 0 ELSE s[i - k]]
<1>14. ASSUME NEW i \in 1..k + n PROVE f[i] = Dec * f[i - 1] + T[i]
  <2>0. i \in 1..Len(ans)
    BY <1>2, <1>3, <1>6, <1>k, <1>1
  <2>1. CASE i <= k
    <3>1. i = 1 /\ ans[i] = Minus /\ i - 1 = 0 /\ T[i] = 0
      BY <1>7, <1>8, <2>1
    <3>2. f[i] = 0 /\ f[i - 1] = 0
      BY <1>13, <2>0, <3>1
    <3> QED
      BY <1>d, <3>1, <3>2
  <2>2. CASE i > k
    <3> DEFINE l == i - k
    <3>1. l \in 1..n /\ k + l = i /\ T[i] = s[l]
      BY <1>2, <1>k, <2>2
    <3> HIDE DEF l
    <3>2. ans[i] = s[l] /\ ans[i] # Minus
      BY <1>2, <1>9, <1>d, <3>1
    <3> QED
      BY <1>13, <2>0, <3>1, <3>2
  <2> QED
    BY <1>k, <2>1, <2>2
<1>15. PICK h : IsHorner(h, Dec, s, n) /\ DecValue(s) = h[n]
  BY <1>2, ValueReads
<1>16. SameDigits(h, f, Dec, s, T, k, n)
  <2>1. \A i \in 1..k : T[i] = 0
    BY <1>2, <1>k
  <2>2. ASSUME NEW i \in 1..n PROVE T[k + i] = s[i]
    <3> DEFINE l == k + i
    <3>1. l \in 1..k + n /\ ~(l <= k) /\ l - k = i
      BY <1>2, <1>k
    <3> HIDE DEF l
    <3>2. T[l] = s[i]
      BY <3>1
    <3> QED
      BY <3>2 DEF l
  <2> HIDE DEF T
  <2>3. IsHorner(f, Dec, T, k + n)
    BY <1>13, <1>14 DEF IsHorner
  <2> QED
    BY <1>2, <1>d, <1>k, <1>15, <2>1, <2>2, <2>3 DEF SameDigits
<1>17. f[k + n] = h[n]
  <2>1. \A i \in 0..n : f[k + i] = h[i]
    BY ONLY <1>16, HornerSame
  <2>2. n \in 0..n
    BY <1>2
  <2> QED
    BY <2>1, <2>2
<1>18. ans[1] = Minus <=> sg = <<Minus>>
  <2>1. CASE sg = <<Minus>>
    BY <1>7, <1>8, <2>1
  <2>2. CASE sg # <<Minus>>
    <3>0. k = 0
      BY <1>7, <2>2
    <3>1. CASE n = 0
      <4>1. ans[1] = Point
        BY <1>10, <1>p, <3>0, <3>1 DEF p
      <4> QED
        BY <1>d, <2>2, <4>1
    <3>2. CASE n # 0
      <4>1. 1 \in 1..n /\ k + 1 = 1
        BY <1>2, <3>0, <3>2
      <4>2. ans[1] = s[1] /\ s[1] \in Digit_
        BY <1>2, <1>9, <4>1
      <4> QED
        BY <1>d, <2>2, <4>2
    <3> QED
      BY <3>1, <3>2
  <2> QED
    BY <2>1, <2>2
<1> QED
  BY <1>13, <1>15, <1>17, <1>18, <1>p

LEMMA FloatReads ==
  ASSUME NEW flag \in BOOLEAN, NEW quot \in Nat, ~Negative(quot),
         NEW places \in Nat, NEW size \in Nat \ {0}
  PROVE  /\ WholeOf(FloatStr(flag, quot, places, size)) = quot \div Power(Dec, places)
         /\ FloatStr(flag, quot, places, size)[1] = Minus <=> flag
<1> DEFINE one == Power(Dec, places)
           whole == quot \div one
           frac == ((quot % one) * GPow(Dec, size)) \div one
           sg == IF flag THEN <<Minus>> ELSE <<>>
           s == DecStr(whole, 0)  fr == DecStr(frac, 0)
           ans == FloatStr(flag, quot, places, size)
<1>d. Dec \in Nat \ {0} /\ WordSize \in Nat \ {0}
  BY NumbersAssumption, HexIs
<1>1. one \in Nat \ {0} /\ Power(Dec, size) \in Nat
  BY <1>d, PowerEquation
<1> HIDE DEF one
<1>2. whole \in Nat /\ whole <= quot
  <2>1. whole \in Nat /\ quot % one \in Nat /\ quot = one * whole + (quot % one)
    <3>1. quot \div one \in Nat /\ quot % one \in 0..one - 1
      BY <1>1, Division
    <3>2. quot = one * (quot \div one) + (quot % one)
      BY <1>1, Division
    <3> QED
      BY <1>1, <3>1, <3>2
  <2>2. one * whole >= whole
    BY <1>1, <2>1
  <2> HIDE DEF whole
  <2> DEFINE x == one * whole
  <2>3. x \in Int /\ x >= whole /\ quot = x + (quot % one)
    BY <1>1, <2>1, <2>2
  <2> HIDE DEF x
  <2>4. whole <= quot
    BY <2>1, <2>3
  <2> QED
    BY <2>1, <2>4
<1>3. frac \in Nat
  <2>1. GPow(Dec, size) \in Nat
    BY <1>1, <1>d DEF GPow
  <2>2. quot % one \in Nat
    BY <1>1
  <2> DEFINE x == (quot % one) * GPow(Dec, size)
  <2>3. x \in Nat
    BY <2>1, <2>2
  <2> HIDE DEF x
  <2>4. x \div one \in Nat
    BY <1>1, <2>3
  <2> QED
    BY <2>4 DEF x
<1>4. ans = sg \o s \o (<<Point>> \o fr)
  BY DEF FloatStr, one
<1>5. ~Negative(whole)
  <2>1. WordSize \div 2 \in Int
    BY <1>d
  <2> HIDE DEF whole
  <2> QED
    BY <1>2, <2>1 DEF Negative
<1> HIDE DEF whole, frac, ans
<1>6. s \in Seq(Digit_) /\ DecValue(s) = whole
  BY <1>2, <1>5, ValueOfDecStr
<1>7. fr \in Seq(Digit_ \cup {Minus})
  BY <1>3, DecStrChars
<1>8. Digit_ \subseteq Int /\ Minus \in Int /\ Point \notin Digit_ \cup {Minus}
  BY <1>d DEF Digit_, Minus, Point
<1> HIDE DEF s, fr
<1>9. fr \in Seq(Int) /\ \A i \in 1..Len(fr) : fr[i] # Point
  <2> DEFINE S == Digit_ \cup {Minus}
  <2>1. fr \in Seq(S) /\ S \subseteq Int /\ Point \notin S
    BY <1>7, <1>8
  <2> HIDE DEF S
  <2>2. Len(fr) \in Nat /\ \A i \in 1..Len(fr) : fr[i] \in S
    BY <2>1
  <2>3. fr \in [1..Len(fr) -> S]
    BY <2>1
  <2>4. fr \in [1..Len(fr) -> Int]
    BY <2>1, <2>3
  <2> QED
    BY <2>1, <2>2, <2>4
<1>10. sg \in Seq(Int) /\ (sg = <<>> \/ sg = <<Minus>>) /\ (sg = <<Minus>> <=> flag)
  <2>1. <<Minus>> # <<>> /\ <<Minus>> \in Seq(Int) /\ <<>> \in Seq(Int)
    BY <1>8
  <2> QED
    BY <2>1
<1> HIDE DEF sg
<1>11. WholeOf(ans) = DecValue(s) /\ (ans[1] = Minus <=> sg = <<Minus>>)
  BY <1>4, <1>6, <1>9, <1>10, WholeBefore
<1> QED
  BY <1>6, <1>10, <1>11 DEF ans, whole, one

-----------------------------------------------------------------------------
(* What a poke writes.                                                     *)

\* The digits that are read, up to the r-th, and what they add up to.
HexRun(f, r, str, len) ==
  /\ f[0] = 0
  /\ \A i \in 1..Lesser(len, Len(str)) :
       f[i] = f[i - 1] + str[i] * Power(Hex, (len - i) % WordDigits)
  /\ r \in 0..Lesser(len, Len(str))
  /\ \A i \in 1..r : str[i] \in HexDigit
  /\ r = Lesser(len, Len(str)) \/ str[r + 1] \notin HexDigit
  /\ FromHexStr(str, len) = f[r] % WordSize
  /\ f[r] \in Nat

LEMMA HexRuns ==
  ASSUME NEW str \in Seq(Int), NEW len \in Nat
  PROVE  \E f, r : HexRun(f, r, str, len)
<1> DEFINE n == Lesser(len, Len(str))
           c == [i \in 1..n |-> str[i] * Power(Hex, (len - i) % WordDigits)]
           step == [i \in 1..n |-> [v \in Int |-> v + c[i]]]
           F == CHOOSE f : f = [i \in 0..n |-> IF i = 0 THEN 0
                                  ELSE f[i - 1] + str[i] * Power(Hex, (len - i) % WordDigits)]
           r == CHOOSE k \in 0..n :
                  /\ \A i \in 1..k : str[i] \in 0..Hex - 1
                  /\ k = n \/ str[k + 1] \notin 0..Hex - 1
<1>0. n \in Nat /\ n <= len /\ n <= Len(str)
  BY DEF Lesser
<1>1. \A i \in 1..n : /\ c[i] = str[i] * Power(Hex, (len - i) % WordDigits) /\ c[i] \in Int
                      /\ str[i] \in Int /\ Power(Hex, (len - i) % WordDigits) \in Nat
  <2>1. ASSUME NEW i \in 1..n PROVE str[i] \in Int /\ Power(Hex, (len - i) % WordDigits) \in Nat
    <3> DEFINE k == (len - i) % WordDigits
    <3>1. k \in Nat
      BY <1>0, NumbersAssumption
    <3> HIDE DEF k
    <3>2. Power(Hex, k) \in Nat
      BY <3>1, HexIs
    <3>3. str[i] \in Int
      BY <1>0
    <3> QED
      BY <3>2, <3>3 DEF k
  <2> QED
    BY <2>1
<1> HIDE DEF c, n
<1>2. Iterates(n, Int, 0, step)
  <2>1. \A i \in 1..n, v \in Int : v + c[i] \in Int
    BY <1>1
  <2>2. step \in [1..n -> [Int -> Int]]
    BY <2>1
  <2> HIDE DEF step
  <2> QED
    BY <1>0, <2>2 DEF Iterates
<1>3. PICK f \in [0..n -> Int] : \A i \in 0..n : f[i] = IF i = 0 THEN 0 ELSE step[i][f[i - 1]]
  <2> HIDE DEF step
  <2> QED
    BY <1>2, Iteration
<1>4. ASSUME NEW i \in 0..n
      PROVE  f[i] = IF i = 0 THEN 0
                    ELSE f[i - 1] + str[i] * Power(Hex, (len - i) % WordDigits)
  <2>1. CASE i = 0
    BY <1>3, <2>1
  <2>2. CASE i # 0
    <3>1. i \in 1..n /\ i - 1 \in 0..n /\ f[i - 1] \in Int
      BY <1>0, <1>3, <2>2
    <3>2. f[i] = step[i][f[i - 1]]
      BY <1>3, <2>2
    <3>3. f[i] = f[i - 1] + c[i]
      BY <3>1, <3>2
    <3> QED
      BY <1>1, <2>2, <3>1, <3>3
  <2> QED
    BY <2>1, <2>2
<1> HIDE DEF step
<1>5. f = [i \in 0..n |-> IF i = 0 THEN 0
                          ELSE f[i - 1] + str[i] * Power(Hex, (len - i) % WordDigits)]
  BY <1>3, <1>4
<1>6. F = [i \in 0..n |-> IF i = 0 THEN 0
                          ELSE F[i - 1] + str[i] * Power(Hex, (len - i) % WordDigits)]
  BY <1>5
<1>7. FromHexStr(str, len) = F[r] % WordSize
  BY DEF FromHexStr, n
<1> HIDE DEF F
<1>8. F[0] = 0
  BY <1>0, <1>6
<1>9. ASSUME NEW i \in 1..n
      PROVE  F[i] = F[i - 1] + str[i] * Power(Hex, (len - i) % WordDigits)
  <2>1. i \in 0..n /\ i # 0
    OBVIOUS
  <2> QED
    BY <1>6, <2>1
<1>10. /\ r \in 0..n
       /\ \A i \in 1..r : str[i] \in 0..Hex - 1
       /\ r = n \/ str[r + 1] \notin 0..Hex - 1
  <2> DEFINE K == {k \in 0..n : \A i \in 1..k : str[i] \in 0..Hex - 1}
  <2>1. 0 \in K /\ K \subseteq 0..n
    BY <1>0
  <2>2. PICK k \in K : \A j \in K : j <= k
    BY <1>0, <2>1, GreatestNumber
  <2>3. k \in 0..n /\ \A i \in 1..k : str[i] \in 0..Hex - 1
    OBVIOUS
  <2>4. k = n \/ str[k + 1] \notin 0..Hex - 1
    <3> SUFFICES ASSUME k # n, str[k + 1] \in 0..Hex - 1 PROVE FALSE
      OBVIOUS
    <3>1. k + 1 \in 0..n /\ k \in Nat
      BY <1>0, <2>3
    <3>2. ASSUME NEW i \in 1..k + 1 PROVE str[i] \in 0..Hex - 1
      <4>1. i = k + 1 \/ i \in 1..k
        BY <3>1
      <4> QED
        BY <2>3, <4>1
    <3>3. k + 1 \in K
      BY <3>1, <3>2
    <3> HIDE DEF K
    <3>4. k + 1 <= k
      BY <2>2, <3>3
    <3> QED
      BY <3>1, <3>4
  <2> HIDE DEF K
  <2> QED
    BY <2>3, <2>4
<1> HIDE DEF r
<1>11. F[r] \in Nat
  <2>1. ASSUME NEW i \in 1..r, F[i - 1] \in Nat PROVE F[i] \in Nat
    <3>1. i \in 1..n /\ str[i] \in Nat
      BY <1>0, <1>10, HexIs
    <3> DEFINE q == Power(Hex, (len - i) % WordDigits)
    <3>2. q \in Nat /\ F[i] = F[i - 1] + str[i] * q
      BY <1>1, <1>9, <3>1
    <3> HIDE DEF q
    <3>3. str[i] * q \in Nat
      BY <3>1, <3>2
    <3> QED
      BY <2>1, <3>2, <3>3
  <2>2. r \in Nat /\ r \in 0..r
    BY <1>0, <1>10
  <2>3. \A i \in 0..r : F[i] \in Nat
    <3>1. r \in Nat /\ F[0] \in Nat /\ \A i \in 1..r : F[i - 1] \in Nat => F[i] \in Nat
      BY <1>8, <2>1, <2>2
    <3> QED
      BY ONLY <3>1, IterationType
  <2> QED
    BY <2>2, <2>3
<1>12. HexRun(F, r, str, len)
  BY <1>7, <1>8, <1>9, <1>10, <1>11 DEF HexRun, HexDigit, n
<1> QED
  BY <1>12

LEMMA HexValueType ==
  ASSUME NEW str \in Seq(Int), NEW len \in Nat
  PROVE  FromHexStr(str, len) \in Nat
<1>1. PICK f, r : HexRun(f, r, str, len)
  BY HexRuns
<1>2. f[r] \in Nat /\ FromHexStr(str, len) = f[r] % WordSize
  BY <1>1 DEF HexRun
<1>3. WordSize \in Nat \ {0}
  BY HexIs
<1> DEFINE v == f[r]
<1>4. v \in Nat /\ FromHexStr(str, len) = v % WordSize
  BY <1>2
<1> HIDE DEF v
<1> QED
  BY <1>3, <1>4

\* As many digits as a word has, or fewer, give what they mean.
LEMMA MeantIsRead ==
  ASSUME NEW text \in Seq(Int), Len(text) <= WordDigits
  PROVE  /\ Meant(text) \in Seq(HexDigit) /\ Len(Meant(text)) = Len(text)
         /\ ValueOf(text) = TextValue(Hex, Meant(text))
<1> DEFINE L == Len(text)  mt == Meant(text)
<1>h. Hex \in Nat \ {0, 1} /\ WordDigits = 8 /\ L \in Nat /\ L <= 8
      /\ \A k \in Nat : Power(Hex, k) \in Nat \ {0} /\ Power(Hex, k + 1) = Hex * Power(Hex, k)
  <2>1. WordDigits = 8 /\ Hex \in Nat \ {0, 1}
        /\ \A k \in Nat : Power(Hex, k) \in Nat \ {0} /\ Power(Hex, k + 1) = Hex * Power(Hex, k)
    BY HexIs
  <2>2. L \in Nat /\ L <= 8
    BY <2>1
  <2> QED
    BY <2>1, <2>2
<1>1. \A i \in 1..L : mt[i] = IF \A j \in 1..i : text[j] \in HexDigit THEN text[i] ELSE 0
  BY DEF Meant, HexDigit
<1>2. Len(mt) = L /\ mt = [i \in 1..L |-> mt[i]]
  BY <1>h DEF Meant
<1> HIDE DEF mt
<1>3. \A i \in 1..L : mt[i] \in HexDigit
  <2>1. 0 \in HexDigit
    BY <1>h DEF HexDigit
  <2>2. \A i \in 1..L : i \in 1..i
    OBVIOUS
  <2> QED
    BY <1>1, <2>1, <2>2
<1>4. mt \in Seq(HexDigit)
  <2> HIDE DEF L
  <2>1. mt \in [1..L -> HexDigit] /\ L \in Nat
    BY <1>2, <1>3, <1>h
  <2> QED
    BY <2>1
<1>5. PICK g : IsHorner(g, Hex, mt, L) /\ TextValue(Hex, mt) = g[L]
  BY <1>h, <1>2, TextReads
<1>6. PICK f, r : HexRun(f, r, text, L)
  BY <1>h, HexRuns
<1>7. Lesser(L, Len(text)) = L
  BY DEF Lesser
<1> HIDE DEF L
<1>8. /\ f[0] = 0 /\ r \in 0..L /\ f[r] \in Nat /\ r \in Nat
      /\ \A i \in 1..L : f[i] = f[i - 1] + text[i] * Power(Hex, (L - i) % WordDigits)
      /\ \A i \in 1..r : text[i] \in HexDigit
      /\ r = L \/ text[r + 1] \notin HexDigit
      /\ FromHexStr(text, L) = f[r] % WordSize
  BY <1>h, <1>6, <1>7 DEF HexRun, L
<1>9. \A i \in 1..r : mt[i] = text[i]
  <2>1. ASSUME NEW i \in 1..r PROVE mt[i] = text[i]
    <3>1. i \in 1..L /\ \A j \in 1..i : j \in 1..r
      <4>1. r \in Nat /\ L \in Nat /\ r <= L
        BY <1>8, <1>h
      <4> QED
        BY <4>1
    <3> QED
      BY <1>1, <1>8, <3>1
  <2> QED
    BY <2>1
<1>10. \A i \in r + 1..L : mt[i] = 0
  <2>1. ASSUME NEW i \in r + 1..L PROVE mt[i] = 0
    <3>1. i \in 1..L /\ r + 1 \in 1..i /\ r # L
      BY <1>8, <1>h
    <3> QED
      BY <1>1, <1>8, <3>1
  <2> QED
    BY <2>1
<1>11. \A i \in 0..L : g[i] \in Nat
  <2>1. \A i \in 1..L : mt[i] \in Nat
    BY <1>3, <1>h DEF HexDigit
  <2> QED
    BY <1>h, <1>5, <2>1, HornerType
\* What is summed up to the i-th digit stands in its place.
<1> DEFINE S == {i \in Nat : i <= r => f[i] = g[i] * Power(Hex, L - i)}
           T == {i \in Nat : r <= i /\ i <= L => f[r] = g[i] * Power(Hex, L - i)}
<1>12. ASSUME NEW i \in Nat, i + 1 <= L
       PROVE  /\ g[i] \in Nat /\ g[i + 1] = Hex * g[i] + mt[i + 1] /\ mt[i + 1] \in Nat
              /\ Power(Hex, L - (i + 1)) \in Nat
              /\ Power(Hex, L - i) = Hex * Power(Hex, L - (i + 1))
              /\ (Hex * g[i] + mt[i + 1]) * Power(Hex, L - (i + 1))
                   = g[i] * Power(Hex, L - i) + mt[i + 1] * Power(Hex, L - (i + 1))
  <2> DEFINE j == i + 1  k == L - j
  <2>1. j \in 1..L /\ j - 1 = i /\ i \in 0..L /\ k \in Nat /\ k + 1 = L - i
    BY <1>12, <1>h
  <2> HIDE DEF j, k
  <2> DEFINE p == Power(Hex, k)  x == g[i]  y == mt[j]
  <2>2. p \in Nat /\ Power(Hex, L - i) = Hex * p
    BY <1>h, <2>1
  <2>3. x \in Nat /\ y \in Nat /\ g[j] = Hex * x + y
    <3>1. x \in Nat
      BY <1>11, <2>1
    <3>2. y \in Nat
      BY <1>3, <1>h, <2>1 DEF HexDigit
    <3>3. g[j] = Hex * g[j - 1] + mt[j]
      BY <1>5, <2>1 DEF IsHorner
    <3> QED
      BY <2>1, <3>1, <3>2, <3>3
  <2> HIDE DEF p, x, y
  <2>4. (Hex * x + y) * p = x * (Hex * p) + y * p
    BY <1>h, <2>2, <2>3
  <2> QED
    BY <2>2, <2>3, <2>4 DEF j, k, p, x, y
<1>13. 0 \in S
  <2>1. g[0] = 0 /\ f[0] = 0 /\ L - 0 = L /\ Power(Hex, L) \in Nat
    BY <1>5, <1>8, <1>h DEF IsHorner
  <2> QED
    BY <2>1
<1>14. ASSUME NEW i \in Nat, i \in S PROVE i + 1 \in S
  <2> SUFFICES ASSUME i + 1 <= r PROVE f[i + 1] = g[i + 1] * Power(Hex, L - (i + 1))
    OBVIOUS
  <2> DEFINE j == i + 1
  <2>1. j \in 1..r /\ j \in 1..L /\ j - 1 = i /\ j <= L /\ i <= r /\ (L - j) % WordDigits = L - j
    <3>1. r \in Nat /\ L \in Nat /\ r <= L /\ L <= 8
      BY <1>8, <1>h
    <3>2. j \in 1..r /\ j \in 1..L /\ j - 1 = i /\ j <= L /\ i <= r
      BY <3>1
    <3> DEFINE k == L - j
    <3>3. k \in Nat /\ k < 8
      BY <3>1, <3>2
    <3> HIDE DEF k
    <3>4. k % 8 = k
      BY <3>3
    <3> QED
      BY <1>h, <3>2, <3>4 DEF k
  <2>2. f[j] = f[i] + mt[j] * Power(Hex, L - j)
    <3> HIDE DEF j
    <3>1. f[j] = f[j - 1] + text[j] * Power(Hex, (L - j) % WordDigits)
      BY <1>8, <2>1
    <3> QED
      BY <1>9, <2>1, <3>1
  <2>3. f[i] = g[i] * Power(Hex, L - i)
    BY <1>14, <2>1
  <2>4. /\ g[j] = Hex * g[i] + mt[j]
        /\ (Hex * g[i] + mt[j]) * Power(Hex, L - j)
             = g[i] * Power(Hex, L - i) + mt[j] * Power(Hex, L - j)
    BY <1>12, <2>1
  <2> HIDE DEF j
  <2>5. f[j] = g[j] * Power(Hex, L - j)
    BY <2>2, <2>3, <2>4, Zenon
  <2> QED
    BY <2>5 DEF j
<1> HIDE DEF S
<1>15. r \in S
  BY <1>8, <1>13, <1>14, Induction
<1>16. 0 \in T
  <2> SUFFICES ASSUME r <= 0 PROVE f[r] = g[0] * Power(Hex, L - 0)
    OBVIOUS
  <2>1. r = 0
    BY <1>8
  <2> QED
    BY <1>15, <2>1 DEF S
<1>17. ASSUME NEW i \in Nat, i \in T PROVE i + 1 \in T
  <2> SUFFICES ASSUME r <= i + 1, i + 1 <= L PROVE f[r] = g[i + 1] * Power(Hex, L - (i + 1))
    OBVIOUS
  <2>1. CASE r = i + 1
    <3>1. r <= r
      BY <1>8
    <3>2. f[r] = g[r] * Power(Hex, L - r)
      BY <1>8, <1>15, <3>1 DEF S
    <3> QED
      BY <2>1, <3>2
  <2>2. CASE r # i + 1
    <3> DEFINE j == i + 1  p == Power(Hex, L - j)
    <3>1. j \in r + 1..L /\ r <= i /\ i <= L
      BY <1>8, <1>h, <2>2
    <3>2. f[r] = g[i] * Power(Hex, L - i)
      BY <1>17, <3>1
    <3>3. /\ g[j] = Hex * g[i] + mt[j] /\ p \in Nat /\ g[i] \in Nat
          /\ (Hex * g[i] + mt[j]) * p = g[i] * Power(Hex, L - i) + mt[j] * p
      BY <1>12
    <3>4. mt[j] = 0
      BY <1>10, <3>1
    <3>5. Power(Hex, L - i) \in Nat
      <4>1. L - i \in Nat
        BY <1>h, <3>1
      <4> QED
        BY <1>h, <4>1
    <3> HIDE DEF j, p
    <3> DEFINE x == g[i] * Power(Hex, L - i)
    <3>6. x \in Nat
      BY <3>3, <3>5
    <3>7. mt[j] * p = 0
      BY <3>3, <3>4
    <3> HIDE DEF x
    <3>8. x + mt[j] * p = x
      BY <3>6, <3>7
    <3>9. f[r] = g[j] * p
      BY <3>2, <3>3, <3>8 DEF x
    <3> QED
      BY <3>9 DEF j, p
  <2> QED
    BY <2>1, <2>2
<1> HIDE DEF T
<1>18. L \in T
  BY <1>16, <1>17, <1>h, Induction
<1>19. f[r] = g[L]
  <2>1. r <= L /\ L <= L /\ L - L = 0 /\ L \in 0..L
    BY <1>8, <1>h
  <2>2. f[r] = g[L] * Power(Hex, 0) /\ g[L] \in Nat
    BY <1>11, <1>18, <2>1 DEF T
  <2>3. Power(Hex, 0) = 1
    BY <1>h, PowerEquation
  <2> QED
    BY <2>2, <2>3
<1>20. g[L] % WordSize = g[L]
  <2>1. Reads(g, Hex, mt, L)
    BY <1>3, <1>5, <1>h DEF Reads, HexDigit
  <2>2. g[L] \in 0..Power(Hex, L) - 1
    BY <2>1, HornerBound
  <2>3. Power(Hex, L) \in Nat \ {0} /\ WordSize \in Nat \ {0} /\ Power(Hex, L) <= WordSize
    <3> DEFINE k == 8 - L  p == Power(Hex, k)  q == Power(Hex, L)
    <3>1. k \in Nat /\ k + L = WordDigits
      BY <1>h
    <3>2. \A x \in Nat : Power(Hex, x + L) = Power(Hex, x) * Power(Hex, L)
      BY <1>h, PowerSum
    <3> HIDE DEF k
    <3>3. WordSize = p * q
      BY <3>1, <3>2 DEF WordSize
    <3>4. p \in Nat \ {0} /\ q \in Nat \ {0}
      BY <1>h, <3>1
    <3> HIDE DEF p, q
    <3>5. q <= p * q
      BY <3>4
    <3>6. WordSize \in Nat \ {0}
      BY HexIs
    <3> QED
      BY <3>3, <3>4, <3>5, <3>6 DEF q
  <2> DEFINE v == g[L]  P == Power(Hex, L)
  <2>4. v \in Nat /\ v < P /\ P <= WordSize /\ WordSize \in Nat \ {0} /\ P \in Nat
    BY <2>2, <2>3
  <2> HIDE DEF v, P
  <2>5. v < WordSize
    BY <2>4
  <2>6. v % WordSize = v
    BY <2>4, <2>5
  <2> QED
    BY <2>6 DEF v
<1> QED
  BY <1>2, <1>4, <1>5, <1>8, <1>19, <1>20 DEF ValueOf, L, mt

\* What to_hexstr prints, from_hexstr reads: a host that pokes what it peeked
\* changes nothing (utility.c:82-96, 221-242).
THEOREM HexReadsBack ==
  ASSUME NEW n \in Sizes, NEW v \in 0..Power(Hex, 2 * n) - 1
  PROVE  FromHexStr(HexStr(v, n), 2 * n) = v
<1> DEFINE s == HexStr(v, n)  j == 0  m == 2 * n
<1>1. n \in Nat /\ m \in Nat /\ m <= WordDigits /\ j \in Nat /\ Hex \in Nat
  BY HexIs DEF Sizes
<1>2. Len(s) = m /\ s = [i \in 1..m |-> s[i]]
  BY <1>1 DEF HexStr
<1> HIDE DEF s
<1>3. s \in Seq(HexDigit) /\ TextValue(Hex, s) = v
  <2> DEFINE P == Power(Hex, m)
  <2>1. P \in Nat \ {0}
    <3>1. Hex \in Nat \ {0}
      BY HexIs
    <3> QED
      BY <1>1, <3>1, PowerEquation
  <2>2. v \in 0..P - 1
    OBVIOUS
  <2> HIDE DEF P, m
  <2>3. v = P * j + v
    BY <2>1, <2>2
  <2> HIDE DEF j
  <2> QED
    BY <1>1, <2>2, <2>3, ValueOfHexStr DEF P, s, m
<1> HIDE DEF m
<1>4. \A i \in 1..m : s[i] \in HexDigit
  BY <1>1, <1>2, <1>3
<1>5. \A x \in HexDigit : x \in Int /\ x \in 0..Hex - 1
  BY <1>1 DEF HexDigit
<1>6. s \in Seq(Int) /\ Len(s) <= WordDigits
  <2>1. [i \in 1..m |-> s[i]] \in Seq(Int)
    BY <1>1, <1>4, <1>5
  <2> QED
    BY <1>1, <1>2, <2>1
<1>7. Meant(s) = s
  <2>1. \A i \in 1..m : \A x \in 1..i : s[x] \in 0..Hex - 1
    BY <1>1, <1>4, <1>5
  <2>2. Meant(s) = [i \in 1..m |-> s[i]]
    BY <1>2, <2>1 DEF Meant
  <2> QED
    BY <1>2, <2>2
<1>8. ValueOf(s) = TextValue(Hex, Meant(s))
  BY ONLY <1>6, MeantIsRead
<1> QED
  BY <1>2, <1>3, <1>7, <1>8 DEF ValueOf, s, m

\* The bytes a poke writes are the digits the host has given.
LEMMA PokeBytes ==
  ASSUME NEW text \in Seq(Int), Len(text) <= WordDigits, NEW n \in Sizes, NEW i \in 0..n - 1
  PROVE  /\ Told(text, n)[i][1] \in HexDigit /\ Told(text, n)[i][2] \in HexDigit
         /\ ((ValueOf(text) % Power(ByteSize_, n)) \div Power(ByteSize_, n - 1 - i)) % ByteSize_
              = Hex * Told(text, n)[i][1] + Told(text, n)[i][2]
<1> DEFINE mt == Meant(text)  z == Zeros(2 * n)  D == z \o mt  L == Len(text)  m == 2 * n
           T == m + L  k == n - 1 - i  l == T - 2 * k  t == Told(text, n)[i]
<1>n. n \in Nat /\ n # 0 /\ i \in Nat /\ k \in 0..n - 1 /\ k \in Nat /\ m \in Nat
  BY DEF Sizes
<1>h. Hex \in Nat \ {0, 1} /\ ByteSize_ \in Nat \ {0, 1} /\ ByteSize_ = Hex * Hex
      /\ \A x \in Nat : /\ Power(Hex, x) \in Nat \ {0} /\ Power(ByteSize_, x) = Power(Hex, 2 * x)
  BY HexIs
<1>m. mt \in Seq(HexDigit) /\ Len(mt) = L /\ L \in Nat /\ ValueOf(text) = TextValue(Hex, mt)
  BY MeantIsRead
<1> HIDE DEF mt
<1>z. z \in Seq(HexDigit) /\ Len(z) = m /\ \A j \in 1..m : z[j] = 0
  <2>1. 0 \in HexDigit
    BY <1>h DEF HexDigit
  <2> QED
    BY <1>n, <2>1 DEF Zeros
<1>t. t = <<D[l - 1], D[l]>>
  <2>1. ~(Len(text) > WordDigits)
    BY <1>m, HexIs
  <2>2. Len(D) = T
    BY <1>m, <1>z
  <2>3. Told(text, n)[i] = LET last_ == Len(D) - 2 * (n - 1 - i) IN <<D[last_ - 1], D[last_]>>
    BY <2>1 DEF Told, mt
  <2> QED
    BY <2>2, <2>3
<1> HIDE DEF z, L, t
<1>1. /\ D \in Seq(HexDigit) /\ Len(D) = T /\ T \in Nat
      /\ \A j \in 1..m : D[j] = 0
      /\ \A j \in 1..L : D[m + j] = mt[j]
  <2>1. /\ D \in Seq(HexDigit) /\ Len(D) = Len(z) + Len(mt)
        /\ \A j \in 1..Len(z) : D[j] = z[j]
        /\ \A j \in 1..Len(mt) : D[Len(z) + j] = mt[j]
    <3>1. z \in Seq(HexDigit) /\ mt \in Seq(HexDigit)
      BY <1>m, <1>z
    <3> QED
      BY ONLY <3>1, Joined
  <2> QED
    BY <1>m, <1>n, <1>z, <2>1
<1> HIDE DEF D
<1>2. PICK f : IsHorner(f, Hex, mt, L) /\ TextValue(Hex, mt) = f[L]
  BY <1>m, TextReads
<1>3. PICK g : IsHorner(g, Hex, D, T) /\ TextValue(Hex, D) = g[T]
  BY <1>1, TextReads
<1> DEFINE V == g[T]
<1>4. ValueOf(text) = V
  <2>1. SameDigits(f, g, Hex, mt, D, m, L)
    BY <1>1, <1>2, <1>3, <1>h, <1>m, <1>n DEF SameDigits
  <2>2. \A j \in 0..L : g[m + j] = f[j]
    BY ONLY <2>1, HornerSame
  <2>3. L \in 0..L
    BY <1>m
  <2> QED
    BY <1>2, <1>m, <2>2, <2>3
<1>5. \A j \in 1..T : D[j] \in 0..Hex - 1 /\ D[j] \in Nat
  <2> HIDE DEF T
  <2>1. \A j \in 1..T : D[j] \in HexDigit
    BY ONLY <1>1
  <2>2. \A x \in HexDigit : x \in 0..Hex - 1 /\ x \in Nat
    BY ONLY <1>h DEF HexDigit
  <2> QED
    BY ONLY <2>1, <2>2
<1>6. Reads(g, Hex, D, T)
  BY <1>1, <1>3, <1>5, <1>h DEF Reads
<1>7. \A j \in 0..T : g[j] \in Nat
  BY <1>1, <1>3, <1>5, <1>h, HornerType
<1>8. 2 * k \in 0..T /\ l \in 1..T /\ l - 1 \in 1..T /\ (l - 1) - 1 \in 0..T /\ T \in 0..T
  BY <1>m, <1>n
<1>9. V \div Power(ByteSize_, k) = g[l]
  <2>1. \A j \in 0..T : g[T] \div Power(Hex, j) = g[T - j]
    BY <1>6, HornerQuotient
  <2> QED
    BY <1>8, <1>h, <1>n, <2>1
<1>10. g[l] % ByteSize_ = Hex * D[l - 1] + D[l] /\ Hex * D[l - 1] + D[l] \in Nat
  <2> DEFINE l1 == l - 1  l2 == l1 - 1  a == g[l2]  x == D[l1]  y == D[l]  r == Hex * x + y
  <2> HIDE DEF l
  <2>1. g[l] = Hex * g[l1] + y /\ g[l1] = Hex * a + x
    BY <1>3, <1>8 DEF IsHorner
  <2>2. a \in Nat /\ x \in 0..Hex - 1 /\ y \in 0..Hex - 1
    BY <1>5, <1>7, <1>8
  <2> HIDE DEF a, x, y
  <2>3. Hex * (Hex * a + x) + y = (Hex * Hex) * a + (Hex * x + y)
    BY <1>h, <2>2
  <2>4. r \in 0..Hex * Hex - 1
    <3>1. Hex * x <= Hex * (Hex - 1) /\ Hex * (Hex - 1) = Hex * Hex - Hex /\ Hex * x \in Nat
      BY <1>h, <2>2
    <3> DEFINE p == Hex * x  q == Hex * Hex
    <3>2. p \in Nat /\ q \in Int /\ p <= q - Hex
      BY <1>h, <3>1
    <3> HIDE DEF p, q
    <3>3. p + y \in 0..q - 1
      BY <1>h, <2>2, <3>2
    <3> QED
      BY <3>3 DEF p, q
  <2> DEFINE w == g[l]
  <2>5. w = ByteSize_ * a + r /\ r \in 0..ByteSize_ - 1
    BY <1>h, <2>1, <2>3, <2>4
  <2>6. w \in Nat
    BY <1>7, <1>8
  <2> HIDE DEF w, r
  <2>7. w % ByteSize_ = r /\ r \in Nat
    <3>1. w \in Nat /\ ByteSize_ \in Nat \ {0} /\ a \in Nat /\ r \in 0..ByteSize_ - 1
          /\ w = a * ByteSize_ + r
      BY <1>h, <2>2, <2>5, <2>6
    <3> QED
      BY ONLY <3>1, DivUnique
  <2> QED
    BY <2>7 DEF w, r, x, y, l1
<1> HIDE DEF V
<1>11. ((V % Power(ByteSize_, n)) \div Power(ByteSize_, k)) % ByteSize_
         = (V \div Power(ByteSize_, k)) % ByteSize_
  <2> DEFINE k1 == n - 1 - k  p == Power(ByteSize_, k)  q == Power(ByteSize_, k1)
             M == Power(ByteSize_, n)  j == V \div M  u == V % M
  <2>1. k1 \in Nat /\ k + (k1 + 1) = n /\ k1 + 1 \in Nat
    BY <1>n
  <2> HIDE DEF k1, k
  <2>2. /\ \A x \in Nat : /\ Power(ByteSize_, x) \in Nat \ {0}
                          /\ Power(ByteSize_, x + 1) = ByteSize_ * Power(ByteSize_, x)
        /\ \A x \in Nat : Power(ByteSize_, x + (k1 + 1))
                            = Power(ByteSize_, x) * Power(ByteSize_, k1 + 1)
    <3> DEFINE b == ByteSize_  e == k1 + 1
    <3> HIDE DEF b, e
    <3>1. b \in Nat \ {0} /\ e \in Nat
      BY <1>h, <2>1 DEF b, e
    <3>2. \A x \in Nat : Power(b, x) \in Nat \ {0} /\ Power(b, x + 1) = b * Power(b, x)
      BY ONLY <3>1, PowerEquation
    <3>3. \A x \in Nat : Power(b, x + e) = Power(b, x) * Power(b, e)
      BY ONLY <3>1, PowerSum
    <3> QED
      BY <3>2, <3>3 DEF b, e
  <2>3. p \in Nat \ {0} /\ q \in Nat \ {0} /\ M \in Nat \ {0} /\ M = p * (ByteSize_ * q)
    BY <1>n, <2>1, <2>2
  <2>4. V \in Nat
    BY <1>7, <1>8 DEF V
  <2> HIDE DEF p, q, M
  <2>5. j \in Nat /\ u \in Nat /\ V = M * j + u
    <3>1. V \in Nat /\ M \in Nat \ {0}
      BY <2>3, <2>4
    <3>2. V \div M \in Nat /\ V % M \in 0..M - 1 /\ V = M * (V \div M) + (V % M)
      BY ONLY <3>1, Division
    <3>3. V % M \in Nat
      BY ONLY <3>1, <3>2
    <3> QED
      BY <3>2, <3>3 DEF j, u
  <2> HIDE DEF j, u
  <2>6. Above(V, u, p, ByteSize_, q, j)
    BY <1>h, <2>3, <2>5 DEF Above
  <2>7. (V \div p) % ByteSize_ = (u \div p) % ByteSize_
    BY <2>6, LowDigits
  <2> QED
    BY <2>7 DEF u, p, M
<1>12. t[1] = D[l - 1] /\ t[2] = D[l]
  BY <1>t
<1>13. D[l - 1] \in HexDigit /\ D[l] \in HexDigit
  BY <1>5, <1>8 DEF HexDigit
<1> QED
  BY <1>4, <1>9, <1>10, <1>11, <1>12, <1>13 DEF t

-----------------------------------------------------------------------------
(* The invariant.                                                          *)

\* A byte whose digits the host knows is that number.
MemoryOK ==
  /\ ram \in [Ram -> 0..ByteSize_ - 1]
  /\ \A b \in Ram : told[b] # <<>> =>
       /\ told[b][1] \in HexDigit /\ told[b][2] \in HexDigit
       /\ ram[b] = Hex * told[b][1] + told[b][2]

ConsoleInv == MemoryOK /\ PeeksTell

LEMMA TextsAre ==
  /\ \A text \in Addresses : Address(text) \in Nat
  /\ \A args \in Pokes : /\ args \in Seq(Int)
                         /\ HasTail(args) => /\ Address(Head_(args)) \in Nat
                                             /\ Tail_(args) \in Seq(Int)
<1>1. WordDigits \in Nat /\ Space \in Int /\ Addresses \subseteq Seq(Int) /\ Values \subseteq Seq(Int)
  BY HexIs, ConsoleAssumption DEF Space
<1>2. ASSUME NEW args \in Pokes PROVE args \in Seq(Int)
  <2>1. CASE args \in Addresses
    BY <1>1, <2>1
  <2>2. ASSUME NEW a \in Addresses, NEW v \in Values, args = a \o <<Space>> \o v
        PROVE  args \in Seq(Int)
    <3>1. a \in Seq(Int) /\ v \in Seq(Int) /\ <<Space>> \in Seq(Int)
      BY <1>1
    <3> DEFINE u == a \o <<Space>>
    <3>2. u \in Seq(Int)
      BY <3>1
    <3> HIDE DEF u
    <3>3. u \o v \in Seq(Int)
      BY <3>1, <3>2
    <3> QED
      BY <2>2, <3>3 DEF u
  <2> QED
    BY <2>1, <2>2 DEF Pokes
<1>3. ASSUME NEW args \in Pokes
      PROVE  Head_(args) \in Seq(Int) /\ (HasTail(args) => Tail_(args) \in Seq(Int))
  <2> DEFINE s == FirstSpace(args)
  <2>1. args \in Seq(Int) /\ Len(args) \in Nat
    BY <1>2
  <2>2. CASE Spaces(args) = {}
    BY <2>1, <2>2 DEF Head_, HasTail
  <2>3. CASE Spaces(args) # {}
    <3>1. Spaces(args) \subseteq Nat /\ Spaces(args) \subseteq 1..Len(args)
      BY <2>1 DEF Spaces
    <3>2. \E i \in Spaces(args) : \A j \in Spaces(args) : i <= j
      BY <2>3, <3>1, LeastNumber
    <3>3. s \in Spaces(args)
      BY <3>2 DEF FirstSpace
    <3>4. s \in 1..Len(args)
      BY <3>1, <3>3
    <3> HIDE DEF s
    <3>5. SubSeq(args, 1, s - 1) \in Seq(Int) /\ SubSeq(args, s + 1, Len(args)) \in Seq(Int)
      BY <2>1, <3>4
    <3> QED
      BY <2>3, <3>5 DEF Head_, Tail_, s
  <2> QED
    BY <2>2, <2>3
<1> DEFINE A == Addresses \cup {Head_(args) : args \in Pokes}
<1>4. A \subseteq Seq(Int)
  BY <1>1, <1>3
<1>5. \A text \in A : Address(text) = FromHexStr(text, WordDigits)
  BY DEF Address, AddressOf
<1>6. \A text \in A : Address(text) \in Nat
  <2> HIDE DEF A
  <2> QED
    BY <1>1, <1>4, <1>5, HexValueType
<1>7. Addresses \subseteq A /\ \A args \in Pokes : Head_(args) \in A
  OBVIOUS
<1> HIDE DEF A
<1> QED
  BY <1>2, <1>3, <1>6, <1>7

LEMMA Knows ==
  ASSUME MemoryOK, NEW a \in Nat, NEW n \in Sizes, a..a + n - 1 \subseteq Ram,
         \A i \in 0..n - 1 : told[a + i] # <<>>
  PROVE  PairsOK(ram, told, a, n)
<1>1. n \in Nat
  BY DEF Sizes
<1>2. \A k \in 0..n - 1 : a + k \in Ram
  BY <1>1
<1> QED
  BY <1>1, <1>2 DEF MemoryOK, PairsOK

LEMMA DigitValue == ASSUME NEW str PROVE ValueDigits(str) = TextValue(Hex, str)
  BY DEF ValueDigits, TextValue

LEMMA PeekStep ==
  ASSUME ConsoleInv, NEW text \in Addresses, NEW n \in Sizes, Peek(text, n)
  PROVE  ConsoleInv'
<1> DEFINE a == Address(text)
<1>1. /\ command' = [does |-> "peek", at |-> a, size |-> n]
      /\ answer' = HexStr(WordAt(a, n), n) /\ ram' = ram /\ told' = told
      /\ a..a + n - 1 \subseteq Ram /\ a \in Nat
  BY TextsAre DEF Peek, Reaches
<1> HIDE DEF a
<1>2. MemoryOK'
  BY <1>1 DEF ConsoleInv, MemoryOK
<1>3. command'.does = "peek" /\ command'.at = a /\ command'.size = n
  BY <1>1
<1>4. Digits' = Pairs(told, a, n)
  BY <1>1, <1>3 DEF Digits, Pairs
<1>5. Known' <=> \A i \in 0..n - 1 : told[a + i] # <<>>
  BY <1>1, <1>3 DEF Known
<1>6. Known' => answer' = Digits'
  <2> SUFFICES ASSUME Known' PROVE answer' = Digits'
    OBVIOUS
  <2>1. PairsOK(ram, told, a, n)
    BY <1>1, <1>5, Knows DEF ConsoleInv
  <2> QED
    BY <1>1, <1>4, <2>1, PeekReads
<1>7. PeeksTell'
  BY <1>3, <1>6 DEF PeeksTell, PeekTells, SPeekTells, FloatTells
<1> QED
  BY <1>2, <1>7 DEF ConsoleInv

LEMMA SPeekStep ==
  ASSUME ConsoleInv, NEW text \in Addresses, NEW n \in Sizes, SPeek(text, n)
  PROVE  ConsoleInv'
<1> DEFINE a == Address(text)
<1>1. /\ command' = [does |-> "speek", at |-> a, size |-> n]
      /\ answer' = HexStrSigned(WordAt(a, n), n) /\ ram' = ram /\ told' = told
      /\ a..a + n - 1 \subseteq Ram /\ a \in Nat
  BY TextsAre DEF SPeek, Reaches
<1> HIDE DEF a
<1>2. MemoryOK'
  BY <1>1 DEF ConsoleInv, MemoryOK
<1>3. command'.does = "speek" /\ command'.at = a /\ command'.size = n
  BY <1>1
<1>4. Digits' = Pairs(told, a, n)
  BY <1>1, <1>3 DEF Digits, Pairs
<1>5. Known' <=> \A i \in 0..n - 1 : told[a + i] # <<>>
  BY <1>1, <1>3 DEF Known
<1> DEFINE Tells(d, str, M) ==
             IF ValueDigits(d) >= M \div 2
               THEN str[1] = Minus /\ ValueDigits(Tail(str)) + ValueDigits(d) = M
               ELSE ValueDigits(str) = ValueDigits(d)
<1>6. ASSUME Known' PROVE Tells(Pairs(told, a, n), answer', Power(Hex, 2 * n))
  <2>1. PairsOK(ram, told, a, n)
    BY <1>1, <1>5, <1>6, Knows DEF ConsoleInv
  <2> QED
    BY <1>1, <2>1, SignedReads, DigitValue
<1>7. SPeekTells'
  <2>1. SPeekTells' <=> (Known' => Tells(Digits', answer', Power(Hex, 2 * command'.size)))
    BY <1>3 DEF SPeekTells
  <2> HIDE DEF Tells
  <2> QED
    BY <1>3, <1>4, <1>6, <2>1
<1>8. PeeksTell'
  BY <1>3, <1>7 DEF PeeksTell, PeekTells, FloatTells
<1> QED
  BY <1>2, <1>8 DEF ConsoleInv

LEMMA FloatStep ==
  ASSUME ConsoleInv, NEW text \in Addresses, PeekFloat(text)
  PROVE  ConsoleInv'
<1> DEFINE a == Address(text)  w == WordAt(a, 4)
           flag == Negative(w) /\ Parts_(w) # 0
<1>1. /\ command' = [does |-> "peekf", at |-> a, size |-> 4]
      /\ answer' = FloatStr(flag, Parts_(w), FloatPlaces, FloatSize) /\ ram' = ram /\ told' = told
      /\ a..a + 4 - 1 \subseteq Ram /\ a \in Nat
  BY TextsAre DEF PeekFloat, Reaches
<1> HIDE DEF a, w
<1>2. MemoryOK'
  BY <1>1 DEF ConsoleInv, MemoryOK
<1>3. command'.does = "peekf" /\ command'.at = a /\ command'.size = 4
  BY <1>1
<1>4. Digits' = Pairs(told, a, 4)
  BY <1>1, <1>3 DEF Digits, Pairs
<1>5. Known' <=> \A i \in 0..4 - 1 : told[a + i] # <<>>
  BY <1>1, <1>3 DEF Known
<1> DEFINE Tells(v, str) ==
             /\ WholeOf(str) = Parts_(v) \div Power(Dec, FloatPlaces)
             /\ (str[1] = Minus) <=> (Negative(v) /\ Parts_(v) # 0)
<1>6. ASSUME Known' PROVE ValueDigits(Digits') = w /\ Tells(w, answer')
  <2>1. PairsOK(ram, told, a, 4)
    <3>1. 4 \in Sizes
      BY DEF Sizes
    <3> QED
      BY <1>1, <1>5, <1>6, <3>1, Knows DEF ConsoleInv
  <2>2. TextValue(Hex, Pairs(told, a, 4)) = w /\ w \in 0..Power(Hex, 2 * 4) - 1
    BY <2>1, PeekReads DEF w
  <2>3. w \in Nat
    <3>1. Power(Hex, 2 * 4) \in Nat
      BY HexIs
    <3> QED
      BY <2>2, <3>1
  <2>4. Parts_(w) \in Nat /\ ~Negative(Parts_(w))
    <3> DEFINE half == WordSize \div 2
    <3>1. half \in Nat \ {0}
      <4>1. Power(Hex, 7) \in Nat \ {0} /\ 7 + 1 = 8 /\ Hex \in Nat \ {0, 1}
            /\ Power(Hex, 7 + 1) = Hex * Power(Hex, 7) /\ WordSize = Power(Hex, 8)
        BY HexIs DEF WordSize
      <4> DEFINE p == Power(Hex, 7)
      <4> HIDE DEF p
      <4>2. Hex * p >= 2 /\ Hex * p \in Nat
        BY <4>1 DEF p
      <4>3. WordSize >= 2 /\ WordSize \in Nat
        BY <4>1, <4>2 DEF p
      <4> QED
        BY <4>3
    <3> HIDE DEF half
    <3>2. w % half \in 0..half - 1
      BY <2>3, <3>1, Division
    <3>3. w % half \in Nat /\ ~(w % half >= half)
      BY <3>1, <3>2
    <3> QED
      BY <3>3 DEF Parts_, Negative, half
  <2>5. flag \in BOOLEAN
    BY DEF Negative
  <2> HIDE DEF flag
  <2> DEFINE q == Parts_(w)
  <2> HIDE DEF q
  <2>6. /\ WholeOf(FloatStr(flag, q, FloatPlaces, FloatSize)) = q \div Power(Dec, FloatPlaces)
        /\ FloatStr(flag, q, FloatPlaces, FloatSize)[1] = Minus <=> flag
    BY <2>4, <2>5, FloatReads, ConsoleAssumption DEF q
  <2>7. Tells(w, answer')
    BY <1>1, <2>6 DEF q, flag
  <2> QED
    BY <1>4, <2>2, <2>7, DigitValue
<1>7. FloatTells'
  <2>1. FloatTells' <=> (Known' => Tells(ValueDigits(Digits'), answer'))
    BY <1>3 DEF FloatTells
  <2> HIDE DEF Tells
  <2> QED
    BY <1>6, <2>1
<1>8. PeeksTell'
  BY <1>3, <1>7 DEF PeeksTell, PeekTells, SPeekTells
<1> QED
  BY <1>2, <1>8 DEF ConsoleInv

LEMMA PokeStep ==
  ASSUME ConsoleInv, NEW args \in Pokes, NEW n \in Sizes, Poke(args, n)
  PROVE  ConsoleInv'
<1> DEFINE a == Address(Head_(args))  text == Tail_(args)
           v == ValueOf(text) % Power(ByteSize_, n)
<1>1. /\ command' = [does |-> "poke", at |-> a, size |-> n]
      /\ ram' = [b \in Ram |-> IF b \in a..a + n - 1
                               THEN (v \div Power(ByteSize_, a + n - 1 - b)) % ByteSize_ ELSE ram[b]]
      /\ told' = [b \in Ram |-> IF b \in a..a + n - 1 THEN Told(text, n)[b - a] ELSE told[b]]
      /\ a \in Nat /\ text \in Seq(Int)
  BY TextsAre DEF Poke
<1>2. /\ ByteSize_ \in Nat \ {0, 1} /\ n \in Nat /\ v \in Nat
      /\ \A k \in Nat : Power(ByteSize_, k) \in Nat \ {0}
  <2>1. ByteSize_ \in Nat \ {0, 1} /\ n \in Nat
    BY HexIs DEF Sizes
  <2>2. \A k \in Nat : Power(ByteSize_, k) \in Nat \ {0}
    BY <2>1, PowerEquation
  <2>3. ValueOf(text) \in Nat
    <3>1. Len(text) \in Nat /\ text \in Seq(Int)
      BY <1>1
    <3> QED
      BY ONLY <3>1, HexValueType DEF ValueOf
  <2> DEFINE x == ValueOf(text)  M == Power(ByteSize_, n)
  <2>4. x \in Nat /\ M \in Nat \ {0}
    BY <2>1, <2>2, <2>3
  <2> HIDE DEF x, M
  <2>5. x % M \in Nat
    BY <2>4
  <2> QED
    BY <2>1, <2>2, <2>5 DEF x, M
<1> HIDE DEF a, text, v
<1>3. ASSUME NEW b \in Ram
      PROVE  /\ ram'[b] \in 0..ByteSize_ - 1
             /\ told'[b] # <<>> => /\ told'[b][1] \in HexDigit /\ told'[b][2] \in HexDigit
                                   /\ ram'[b] = Hex * told'[b][1] + told'[b][2]
  <2>1. CASE b \in a..a + n - 1
    <3> DEFINE i == b - a  k == n - 1 - i
    <3>1. i \in 0..n - 1 /\ k \in Nat /\ a + n - 1 - b = k
      <4>1. a \in Nat /\ n \in Nat
        BY <1>1, <1>2
      <4>2. b \in Nat /\ a <= b /\ b <= a + n - 1
        BY ONLY <2>1, <4>1
      <4> QED
        BY ONLY <4>1, <4>2 DEF i, k
    <3>2. ram'[b] = (v \div Power(ByteSize_, k)) % ByteSize_ /\ told'[b] = Told(text, n)[i]
      BY <1>1, <2>1, <3>1
    <3> HIDE DEF i
    <3>3. ram'[b] \in 0..ByteSize_ - 1
      <4> HIDE DEF k
      <4> DEFINE p == Power(ByteSize_, k)  q == v \div p
      <4>1. p \in Nat \ {0}
        BY <1>2, <3>1
      <4> HIDE DEF p
      <4>2. q \in Nat
        BY <1>2, <4>1
      <4> HIDE DEF q
      <4>3. q % ByteSize_ \in 0..ByteSize_ - 1
        BY <1>2, <4>2, Division
      <4> QED
        BY <3>2, <4>3 DEF p, q
    <3>4. CASE Len(text) > WordDigits
      <4>1. Told(text, n)[i] = <<>>
        BY <3>1, <3>4 DEF Told
      <4> QED
        BY <3>2, <3>3, <4>1
    <3>5. CASE Len(text) <= WordDigits
      <4>1. /\ Told(text, n)[i][1] \in HexDigit /\ Told(text, n)[i][2] \in HexDigit
            /\ (v \div Power(ByteSize_, k)) % ByteSize_
                 = Hex * Told(text, n)[i][1] + Told(text, n)[i][2]
        BY <1>1, <3>1, <3>5, PokeBytes DEF v
      <4> QED
        BY <3>2, <3>3, <4>1
    <3> QED
      <4>1. Len(text) \in Nat /\ WordDigits \in Nat
        BY <1>1, HexIs
      <4> QED
        BY <3>4, <3>5, <4>1
  <2>2. CASE b \notin a..a + n - 1
    <3>1. ram'[b] = ram[b] /\ told'[b] = told[b]
      BY <1>1, <2>2
    <3> QED
      BY <3>1 DEF ConsoleInv, MemoryOK
  <2> QED
    BY <2>1, <2>2
<1>4. MemoryOK'
  <2>1. ram' \in [Ram -> 0..ByteSize_ - 1]
    BY <1>1, <1>3
  <2> QED
    BY <1>3, <2>1 DEF MemoryOK
<1>5. PeeksTell'
  BY <1>1 DEF PeeksTell, PeekTells, SPeekTells, FloatTells
<1> QED
  BY <1>4, <1>5 DEF ConsoleInv

LEMMA ConsoleInvInit == ConsoleInit => ConsoleInv
<1> SUFFICES ASSUME ConsoleInit PROVE ConsoleInv
  OBVIOUS
<1>1. /\ ram = [a \in Ram |-> 0] /\ told = [a \in Ram |-> <<0, 0>>]
      /\ command = [does |-> "nothing"]
  BY DEF ConsoleInit, NoCommand
<1>2. 0 \in HexDigit /\ 0 \in 0..ByteSize_ - 1 /\ Hex * 0 + 0 = 0
  BY HexIs DEF HexDigit
<1>3. <<0, 0>>[1] = 0 /\ <<0, 0>>[2] = 0
  OBVIOUS
<1>4. MemoryOK
  BY <1>1, <1>2, <1>3 DEF MemoryOK
<1>5. PeeksTell
  BY <1>1 DEF PeeksTell, PeekTells, SPeekTells, FloatTells
<1> QED
  BY <1>4, <1>5 DEF ConsoleInv

LEMMA ConsoleInvNext == ConsoleInv /\ [ConsoleNext]_consoleVars => ConsoleInv'
<1> SUFFICES ASSUME ConsoleInv, [ConsoleNext]_consoleVars PROVE ConsoleInv'
  OBVIOUS
<1>1. ASSUME NEW args \in Pokes, NEW n \in Sizes, PokeError(args, n) PROVE ConsoleInv'
  <2>1. command' = [does |-> "nothing"] /\ ram' = ram /\ told' = told
    BY <1>1 DEF PokeError, NoCommand
  <2>2. MemoryOK'
    BY <2>1 DEF ConsoleInv, MemoryOK
  <2>3. PeeksTell'
    BY <2>1 DEF PeeksTell, PeekTells, SPeekTells, FloatTells
  <2> QED
    BY <2>2, <2>3 DEF ConsoleInv
<1>2. CASE UNCHANGED consoleVars
  <2>1. ram' = ram /\ told' = told /\ command' = command /\ answer' = answer
    BY <1>2 DEF consoleVars
  <2>2. MemoryOK'
    BY <2>1 DEF ConsoleInv, MemoryOK
  <2>3. Known' = Known /\ Digits' = Digits
    BY <2>1 DEF Known, Digits
  <2>4. PeeksTell'
    BY <2>1, <2>3 DEF ConsoleInv, PeeksTell, PeekTells, SPeekTells, FloatTells
  <2> QED
    BY <2>2, <2>4 DEF ConsoleInv
<1> QED
  BY <1>1, <1>2, PeekStep, SPeekStep, FloatStep, PokeStep DEF ConsoleNext

\* What the host reads back is what it wrote, for every memory, every text and
\* every order of pokes and peeks.
THEOREM PeeksAnswer == ConsoleSpec => []PeeksTell
<1>1. ConsoleInv => PeeksTell
  BY DEF ConsoleInv
<1> QED
  BY <1>1, ConsoleInvInit, ConsoleInvNext, PTL DEF ConsoleSpec
=============================================================================
