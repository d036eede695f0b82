--------------------------- MODULE OverlayProofs ---------------------------
(***************************************************************************)
(* Proofs about Overlay, for every keyboard layout, length of input, size  *)
(* of the RAM, of the list of watches and of the menus, and every pad.     *)
(***************************************************************************)
EXTENDS Overlay, WellFoundedInduction, TLAPS

-----------------------------------------------------------------------------
(* The keyboard.                                                           *)

\* What every keyboard is like, whoever works on it.
KeyOK(k) ==
  /\ k \in KeyboardType
  /\ k.row < k.row_len /\ k.cursor < k.col_len
  /\ k.flags # "off" =>
       /\ k.pcallback \in Requests
       /\ k.input_len = InputLen[k.pcallback]
       /\ k.input_index < k.input_len

LEMMA RequestOK ==
  ASSUME NEW k, KeyOK(k), NEW r \in Requests
  PROVE  KeyOK(RequestOn(k, r))
<1> DEFINE hex  == InitHexKeyboard(k)
           full == InitKeyboard(k)
<1>1. k.flags \in {"off", "asked", "on"}
  BY DEF KeyOK, KeyboardType
<1>2. hex \in KeyboardType /\ hex.row < hex.row_len /\ hex.cursor < hex.col_len
  BY <1>1, KeyboardAssumption DEF KeyboardType, Callbacks, InitHexKeyboard, WithLayout
<1>3. full \in KeyboardType /\ full.row < full.row_len /\ full.cursor < full.col_len
  BY <1>1, KeyboardAssumption DEF KeyboardType, Callbacks, InitKeyboard, WithLayout
<1>4. InputLen[r] \in Nat /\ 0 < InputLen[r]
  BY KeyboardAssumption
<1> HIDE DEF hex, full
<1>5. ASSUME NEW j, j \in KeyboardType, j.row < j.row_len, j.cursor < j.col_len
      PROVE  KeyOK(InputRequest(j, r))
  <2> DEFINE q == InputRequest(j, r)
  <2>1. q \in KeyboardType
    BY <1>4, <1>5 DEF KeyboardType, Callbacks, InputRequest
  <2>2. /\ q.row = j.row /\ q.row_len = j.row_len
        /\ q.cursor = j.cursor /\ q.col_len = j.col_len
    BY <1>5 DEF KeyboardType, InputRequest
  <2>3. q.pcallback = r /\ q.input_len = InputLen[r] /\ q.input_index = 0
    BY <1>5 DEF KeyboardType, InputRequest
  <2> HIDE DEF q
  <2>4. KeyOK(q)
    BY <1>4, <1>5, <2>1, <2>2, <2>3 DEF KeyOK
  <2> QED
    BY <2>4 DEF q
<1>6. RequestOn(k, r) = InputRequest(full, r) \/ RequestOn(k, r) = InputRequest(hex, r)
  BY DEF RequestOn, hex, full
<1> QED
  BY <1>2, <1>3, <1>5, <1>6

LEMMA MovedOK ==
  ASSUME NEW k, KeyOK(k)
  PROVE  KeyOK(Moved(k))
<1>1. ASSUME NEW n \in Nat, NEW len \in Nat, n < len
      PROVE  /\ StepBack(n, len) \in Nat /\ StepBack(n, len) < len
             /\ StepOn(n, len) \in Nat /\ StepOn(n, len) < len
  BY <1>1 DEF StepBack, StepOn
<1>2. /\ k.row \in Nat /\ k.row_len \in Nat /\ k.row < k.row_len
      /\ k.cursor \in Nat /\ k.col_len \in Nat /\ k.cursor < k.col_len
  BY DEF KeyOK, KeyboardType
<1>3. ASSUME NEW n \in Nat, n < k.row_len
      PROVE  KeyOK([k EXCEPT !.row = n])
  BY <1>3 DEF KeyOK, KeyboardType
<1>4. ASSUME NEW n \in Nat, n < k.col_len
      PROVE  KeyOK([k EXCEPT !.cursor = n])
  BY <1>4 DEF KeyOK, KeyboardType
<1>5. \/ Moved(k) = [k EXCEPT !.row = StepBack(k.row, k.row_len)]
      \/ Moved(k) = [k EXCEPT !.row = StepOn(k.row, k.row_len)]
      \/ Moved(k) = [k EXCEPT !.cursor = StepBack(k.cursor, k.col_len)]
      \/ Moved(k) = [k EXCEPT !.cursor = StepOn(k.cursor, k.col_len)]
      \/ Moved(k) = k
  BY DEF Moved
<1> QED
  BY <1>1, <1>2, <1>3, <1>4, <1>5

LEMMA ClosedOK ==
  ASSUME NEW k, KeyOK(k)
  PROVE  KeyOK([k EXCEPT !.flags = "off"])
BY DEF KeyOK, KeyboardType

LEMMA BootOK == KeyOK(InitKeyboard([flags |-> "off"]))
BY KeyboardAssumption DEF KeyOK, KeyboardType, Callbacks, InitKeyboard, WithLayout

LEMMA KeyboardStep ==
  ASSUME KeyOK(kb), UpdateKeyboard
  PROVE  KeyOK(kb')
<1>1. CASE KeyboardSkips
  BY <1>1 DEF KeyboardSkips, KeyOK, KeyboardType
<1>2. CASE KeyboardOff
  BY <1>2 DEF KeyboardOff
<1>3. CASE KeyboardTypes
  <2>1. ASSUME Room(kb) PROVE KeyOK([kb EXCEPT !.input_index = @ + 1])
    <3>1. kb.flags = "on" /\ kb.input_len \in Nat /\ kb.input_index \in Nat
          /\ kb.input_index < kb.input_len
      BY <1>3 DEF KeyboardTypes, KeyOK, KeyboardType
    <3>2. kb.input_index + 1 \in Nat /\ kb.input_index + 1 < kb.input_len
      BY <2>1, <3>1 DEF Room
    <3> QED
      BY <3>1, <3>2 DEF KeyOK, KeyboardType
  <2> QED
    BY <1>3, <2>1, MovedOK DEF KeyboardTypes
<1>4. CASE KeyboardErases
  <2>1. KeyOK([kb EXCEPT !.input_index = @ - 1])
    <3>1. kb.input_index \in Nat /\ kb.input_index # 0 /\ kb.input_len \in Nat
      BY <1>4 DEF KeyboardErases, KeyOK, KeyboardType
    <3>2. kb.input_index - 1 \in Nat /\ (kb.input_index < kb.input_len
                                           => kb.input_index - 1 < kb.input_len)
      BY <3>1
    <3> QED
      BY <3>2 DEF KeyOK, KeyboardType
  <2> QED
    BY <1>4, <2>1, MovedOK DEF KeyboardErases
<1>5. CASE KeyboardWaits
  <2>1. KeyOK([kb EXCEPT !.shift = ~@])
    BY DEF KeyOK, KeyboardType
  <2> QED
    BY <1>5, <2>1, MovedOK DEF KeyboardWaits
<1>6. CASE KeyboardCloses
  BY <1>6, MovedOK, ClosedOK DEF KeyboardCloses
<1> QED
  BY <1>1, <1>2, <1>3, <1>4, <1>5, <1>6 DEF UpdateKeyboard, KeyboardWorks

LEMMA MemwatchKeys ==
  ASSUME KeyOK(kb), UpdateMemwatch
  PROVE  KeyOK(kb')
<1>1. kb' = kb \/ \E r \in Requests : kb' = RequestOn(kb, r)
  BY DEF UpdateMemwatch, WatchesShown, UpdateSelection, SelectMoves, SelectLocks,
         SelectChooses, UpdateViewer, ViewerRests, ViewerPages, ViewerMoves,
         ViewerCounts, ViewerFollows, ViewerSelects, ViewerAsks, Requests
<1> QED
  BY <1>1, RequestOK

\* No step of the overlay takes the keyboard out of KeyOK.
LEMMA KeysStep ==
  ASSUME KeyOK(kb), [Next]_vars
  PROVE  KeyOK(kb')
<1>1. CASE UpdateMemwatch
  BY <1>1, MemwatchKeys
<1>2. CASE UpdateMenu
  <2>1. kb' = MenuKeys
    BY <1>2 DEF UpdateMenu, MenuClosed, MenuMoves, MenuSelects
  <2> QED
    BY <2>1, ClosedOK DEF MenuKeys
<1>3. CASE UpdateKeyboard
  BY <1>3, KeyboardStep
<1>4. CASE SerialTerminal
  BY <1>4 DEF SerialTerminal
<1>5. CASE UpdateFlags
  BY <1>5 DEF UpdateFlags
<1>6. CASE Reset
  BY <1>6, BootOK DEF Reset
<1>7. CASE UNCHANGED vars
  BY <1>7 DEF vars
<1> QED
  BY <1>1, <1>2, <1>3, <1>4, <1>5, <1>6, <1>7 DEF Next

LEMMA KeysAlways == Spec => []KeyOK(kb)
<1>1. Init => KeyOK(kb)
  BY BootOK DEF Init, KeyboardInit
<1>2. KeyOK(kb) /\ [Next]_vars => KeyOK(kb)'
  BY KeysStep DEF KeyOK
<1> QED
  BY <1>1, <1>2, PTL DEF Spec

\* The cursor of the keyboard stands on a key, through every change of the
\* layout and every way a request ends (keyboard.c:9-60, 134-162).
THEOREM KeysInRange == Spec => []CursorOnKey
<1>1. KeyOK(kb) => CursorOnKey
  BY DEF KeyOK, CursorOnKey
<1> QED
  BY <1>1, KeysAlways, PTL

\* No text outgrows the array of its request (keyboard.c:99-109).
THEOREM TextsFit == Spec => []TextFits
<1>1. KeyOK(kb) => TextFits
  <2> SUFFICES ASSUME KeyOK(kb), kb.flags # "off"
               PROVE  /\ kb.pcallback \in Requests
                      /\ kb.input_index < BufferLen[kb.pcallback]
                      /\ kb.input_len = InputLen[kb.pcallback]
    BY DEF TextFits
  <2>1. /\ kb.pcallback \in Requests
        /\ kb.input_len = InputLen[kb.pcallback]
        /\ kb.input_index < kb.input_len
        /\ kb.input_index \in Nat /\ kb.input_len \in Nat
    BY DEF KeyOK, KeyboardType
  <2>2. InputLen[kb.pcallback] <= BufferLen[kb.pcallback]
        /\ BufferLen[kb.pcallback] \in Nat
    BY <2>1, KeyboardAssumption
  <2> QED
    BY <2>1, <2>2
<1> QED
  BY <1>1, KeysAlways, PTL

-----------------------------------------------------------------------------
(* One thing at a time has the controller.                                 *)

\* OneFocus is not inductive by itself.  Steps keep it because the viewer,
\* the selection and the keyboard exclude each other always, and because of
\* what the first two frames, in which the menu is flashed, can leave: a
\* monitor opened in the first was opened with A, and A is then not pressed
\* anew in the second.
FocusInv ==
  /\ ~(mw_flags # {} /\ kb.flags # "off")
  /\ menu_toggle = 2 => ~(menu_open /\ (mw_flags # {} \/ kb.flags # "off"))
  /\ menu_toggle = 0 /\ pc \in {"memwatch", "menu"} =>
       mw_flags = {} /\ kb.flags = "off" /\ ~menu_open
  /\ menu_toggle = 0 /\ pc \in {"keyboard", "serial", "flags"} =>
       kb.flags = "off" /\ (mw_flags # {} => "A" \in held)
  /\ menu_toggle = 1 /\ pc = "memwatch" =>
       kb.flags = "off" /\ (mw_flags # {} => "A" \in last)
  /\ menu_toggle = 1 /\ pc = "menu" =>
       (mw_flags # {} \/ kb.flags # "off" => "A" \in last)
  /\ menu_toggle \in 0..2 /\ menu_open \in BOOLEAN

\* update_memwatch opens something only where something was open, and opens
\* the keyboard only by closing itself.
LEMMA MemwatchFocus ==
  ASSUME KeyOK(kb), FocusInv, UpdateMemwatch
  PROVE  FocusInv'
<1>1. /\ pc = "memwatch" /\ pc' \in {"menu", "exception"}
      /\ UNCHANGED <<held, last, menu_toggle, menu_open>>
  BY DEF UpdateMemwatch, padVars, menuVars
<1>2. \/ mw_flags' = mw_flags /\ kb' = kb
      \/ mw_flags # {} /\ kb' = kb
      \/ mw_flags # {} /\ mw_flags' = {}
  <2>1. CASE WatchesShown \/ UNCHANGED <<memwatchVars, kb>>
    BY <2>1 DEF WatchesShown, memwatchVars
  <2>2. CASE UpdateSelection
    BY <2>2 DEF UpdateSelection, SelectMoves, SelectLocks, SelectChooses, Selecting
  <2>3. CASE UpdateViewer
    BY <2>3 DEF UpdateViewer, ViewerRests, ViewerPages, ViewerMoves, ViewerCounts,
                ViewerFollows, ViewerSelects, ViewerAsks, Viewing
  <2> QED
    BY <2>1, <2>2, <2>3 DEF UpdateMemwatch
<1> QED
  BY <1>1, <1>2 DEF FocusInv

\* When an entry can be selected with A, nothing else has the controller.
LEMMA MenuTakesOver ==
  ASSUME KeyOK(kb), FocusInv, pc = "menu", Opened, Pressed("A")
  PROVE  MenuKeys.flags = "off" /\ MenuFlags = {}
<1>1. MenuKeys.flags = IF Pressed("START") THEN "off" ELSE kb.flags
  BY DEF MenuKeys, KeyOK, KeyboardType
<1>2. CASE Pressed("START")
  BY <1>1, <1>2 DEF MenuFlags
<1>3. CASE ~Pressed("START")
  <2>1. menu_open /\ "A" \in held /\ "A" \notin last
    BY <1>3 DEF Opened, Pressed
  <2>2. menu_toggle \in {0, 1, 2}
    BY DEF FocusInv
  <2>3. kb.flags = "off" /\ mw_flags = {}
    BY <2>1, <2>2 DEF FocusInv
  <2> QED
    BY <1>1, <1>3, <2>3 DEF MenuFlags
<1> QED
  BY <1>2, <1>3

LEMMA MenuFocus ==
  ASSUME KeyOK(kb), FocusInv, UpdateMenu
  PROVE  FocusInv'
<1>1. /\ pc = "menu" /\ pc' = "keyboard"
      /\ UNCHANGED <<held, last, menu_toggle>>
  BY DEF UpdateMenu, padVars
<1>2. kb' = MenuKeys
  BY DEF UpdateMenu, MenuClosed, MenuMoves, MenuSelects
<1>3. MenuKeys.flags = IF Pressed("START") THEN "off" ELSE kb.flags
  BY DEF MenuKeys, KeyOK, KeyboardType
<1>4. \/ menu_open' = FALSE /\ mw_flags' = MenuFlags
      \/ Opened /\ menu_open' \in BOOLEAN /\ mw_flags' = MenuFlags
      \/ Opened /\ Pressed("A") /\ menu_open' = FALSE
  <2>1. CASE MenuClosed
    BY <2>1 DEF MenuClosed
  <2>2. CASE MenuMoves
    BY <2>2 DEF MenuMoves
  <2>3. CASE MenuSelects
    <3>1. Opened
      BY <2>3 DEF MenuSelects
    <3>2. CASE Monitor
      <4>1. Picks("A")
        BY <3>2 DEF Monitor, Selected
      <4>2. Pressed("A")
        BY <4>1 DEF Picks, First, MenuFires, Buttons
      <4> QED
        BY <3>1, <3>2, <4>2 DEF Monitor
    <3>3. CASE OpensMenu \/ Back \/ ClearsWatches \/ TogglesPlayer \/ OtherEntry
      BY <3>1, <3>3 DEF OpensMenu, Back, ClearsWatches, TogglesPlayer, OtherEntry
    <3> QED
      BY <2>3, <3>2, <3>3 DEF MenuSelects
  <2> QED
    BY <2>1, <2>2, <2>3 DEF UpdateMenu
<1>5. Pressed("A") => "A" \in held /\ "A" \notin last
  BY DEF Pressed
<1>6. MenuFlags = {} \/ (~Pressed("START") /\ MenuFlags = mw_flags)
  BY DEF MenuFlags
<1>7. Pressed("START") => MenuFlags = {}
  BY DEF MenuFlags
<1>8. Opened => Pressed("START") \/ menu_open
  BY DEF Opened
<1>9. held' = held /\ last' = last /\ menu_toggle' = menu_toggle /\ kb'.flags = MenuKeys.flags
  BY <1>1, <1>2
<1>10. menu_open' \in BOOLEAN
  BY <1>4
<1>11. Opened /\ Pressed("A") => MenuKeys.flags = "off" /\ MenuFlags = {}
  BY <1>1, MenuTakesOver
<1>12. ~(MenuFlags # {} /\ MenuKeys.flags # "off")
  BY <1>3, <1>6, <1>7 DEF FocusInv
<1>13. menu_toggle = 2 /\ Opened => MenuKeys.flags = "off" /\ MenuFlags = {}
  BY <1>3, <1>6, <1>7, <1>8 DEF FocusInv
<1>14. menu_toggle = 0 => MenuKeys.flags = "off" /\ MenuFlags = {}
  BY <1>1, <1>3, <1>6 DEF FocusInv
<1>15. ~(mw_flags' # {} /\ kb'.flags # "off")
  BY <1>4, <1>9, <1>11, <1>12
<1>16. menu_toggle = 2 => ~(menu_open' /\ (mw_flags' # {} \/ kb'.flags # "off"))
  BY <1>4, <1>9, <1>13
<1>17. menu_toggle = 0 => kb'.flags = "off" /\ (mw_flags' # {} => "A" \in held)
  BY <1>4, <1>5, <1>9, <1>14
<1> QED
  BY <1>1, <1>9, <1>10, <1>15, <1>16, <1>17 DEF FocusInv

LEMMA KeyboardFocus ==
  ASSUME KeyOK(kb), FocusInv, UpdateKeyboard
  PROVE  FocusInv'
<1>1. /\ pc = "keyboard" /\ pc' = "serial"
      /\ UNCHANGED <<held, last, menu_toggle, menu_open, mw_flags>>
  BY DEF UpdateKeyboard, padVars, menuVars, Answered, ByteEntered, AddressEntered,
         Named, Dropped, memwatchVars
<1>2. kb.flags = "off" => kb'.flags = "off"
  BY DEF UpdateKeyboard, KeyboardWorks, KeyboardSkips, KeyboardOff, KeyboardTypes,
         KeyboardErases, KeyboardWaits, Answered, ByteEntered, AddressEntered, Named,
         Dropped, Enters, GivesUp
<1> QED
  BY <1>1, <1>2 DEF FocusInv

LEMMA FocusStep ==
  ASSUME KeyOK(kb), FocusInv, [Next]_vars
  PROVE  FocusInv'
<1>1. CASE UpdateMemwatch
  BY <1>1, MemwatchFocus
<1>2. CASE UpdateMenu
  BY <1>2, MenuFocus
<1>3. CASE UpdateKeyboard
  BY <1>3, KeyboardFocus
<1>4. CASE SerialTerminal
  <2>1. /\ pc = "serial" /\ pc' \in {"flags", "exception"}
        /\ UNCHANGED <<held, last, kb, menu_toggle, menu_open>>
    BY <1>4 DEF SerialTerminal, padVars, menuVars
  <2>2. UNCHANGED mw_flags
    BY <1>4 DEF SerialTerminal, SerialOff, SerialQuiet, SerialAdds, SerialClears,
                SerialLocks, SerialPokes, SerialFails, SerialLocksNowhere, memwatchVars
  <2> QED
    BY <2>1, <2>2 DEF FocusInv
<1>5. CASE UpdateFlags
  <2>1. /\ pc = "flags" /\ pc' = "memwatch" /\ last' = held
        /\ kb' = kb /\ mw_flags' = mw_flags
    BY <1>5 DEF UpdateFlags, NextPad, memwatchVars
  <2>2. menu_toggle \in 0..2 /\ menu_open \in BOOLEAN
    BY DEF FocusInv
  <2>3. CASE menu_toggle = 2
    <3>1. menu_toggle' = 2 /\ menu_open' = menu_open
      BY <1>5, <2>3 DEF UpdateFlags
    <3> QED
      BY <2>1, <2>2, <2>3, <3>1 DEF FocusInv
  <2>4. CASE menu_toggle # 2
    <3>1. menu_open' = (menu_toggle = 0)
      BY <1>5, <2>4, Zenon DEF UpdateFlags
    <3>2. menu_toggle' = menu_toggle + 1
      BY <1>5, <2>4 DEF UpdateFlags
    <3>3. menu_open' \in BOOLEAN
      BY <3>1, Zenon
    <3>4. menu_toggle = 1 => ~menu_open'
      <4>1. 1 # 0
        OBVIOUS
      <4> QED
        BY <3>1, <4>1, Zenon
    <3>5. CASE menu_toggle = 1
      BY <2>1, <3>2, <3>3, <3>4, <3>5 DEF FocusInv
    <3>6. CASE menu_toggle = 0
      BY <2>1, <3>2, <3>3, <3>6 DEF FocusInv
    <3> QED
      BY <2>2, <2>4, <3>5, <3>6
  <2> QED
    BY <2>3, <2>4
<1>6. CASE Reset
  <2>1. /\ pc = "memwatch" /\ pc' = pc /\ menu_open' = FALSE /\ mw_flags' = {}
        /\ kb'.flags = "off"
    BY <1>6 DEF Reset, InitKeyboard, WithLayout
  <2>2. menu_toggle' \in 0..2
    BY <1>6, BootAssumption DEF Reset, Booted, FocusInv
  <2>3. menu_open' \in BOOLEAN /\ ~menu_open'
    BY <2>1, Zenon
  <2> QED
    BY <2>1, <2>2, <2>3 DEF FocusInv
<1>7. CASE UNCHANGED vars
  BY <1>7 DEF vars, padVars, memwatchVars, menuVars, FocusInv
<1> QED
  BY <1>1, <1>2, <1>3, <1>4, <1>5, <1>6, <1>7 DEF Next

LEMMA FocusStart == Init => FocusInv
<1> SUFFICES ASSUME Init PROVE FocusInv
  OBVIOUS
<1>1. kb.flags = "off"
  BY DEF Init, KeyboardInit, InitKeyboard, WithLayout
<1>2. /\ mw_flags = {} /\ pc = "memwatch"
      /\ menu_toggle = Boot.menu_toggle /\ menu_open = FALSE
  BY DEF Init, MemwatchInit
<1>3. menu_open \in BOOLEAN /\ ~menu_open
  BY <1>2, Zenon
<1>4. mw_flags = {} /\ pc = "memwatch" /\ menu_toggle \in 0..2
  BY <1>2, BootAssumption
<1> QED
  BY <1>1, <1>3, <1>4 DEF FocusInv

\* Menu, memory watch and keyboard never have the controller together once
\* the hack has started (menu.c:52-57, mainmenu.c:79-89, memwatch.c:386-409).
THEOREM OneController == Spec => []OneFocus
<1>1. Init => KeyOK(kb) /\ FocusInv
  <2>1. Init => KeyOK(kb)
    BY BootOK DEF Init, KeyboardInit
  <2>2. Init => FocusInv
    BY FocusStart
  <2> QED
    BY <2>1, <2>2
<1>2. (KeyOK(kb) /\ FocusInv) /\ [Next]_vars => (KeyOK(kb) /\ FocusInv)'
  BY KeysStep, FocusStep DEF KeyOK
<1>3. FocusInv => OneFocus
  BY DEF FocusInv, OneFocus
<1> QED
  BY <1>1, <1>2, <1>3, PTL DEF Spec

-----------------------------------------------------------------------------
(* The types of the memory watch.                                          *)

LEMMA WatchFields ==
  ASSUME NEW w \in Watch
  PROVE  /\ \A v \in BOOLEAN : [w EXCEPT !.lock = v] \in Watch
         /\ \A v \in BOOLEAN : [w EXCEPT !.enabled = v] \in Watch
         /\ \A a \in Ram \cup {Null}, v \in [0..3 -> Byte] :
              [w EXCEPT !.paddr = a, !.value = v] \in Watch
         /\ \A t \in Types, v \in BOOLEAN : [w EXCEPT !.type = t, !.enabled = v] \in Watch
         /\ \A v \in BOOLEAN, x \in [0..3 -> Byte] :
              [w EXCEPT !.lock = v, !.value = x] \in Watch
         /\ \A t \in Types, a \in Ram \cup {Null} :
              [w EXCEPT !.paddr = a, !.type = t, !.enabled = TRUE] \in Watch
         /\ \A a \in Ram :
              [w EXCEPT !.lock = FALSE, !.type = FloatWatch, !.enabled = TRUE, !.paddr = a]
                \in Watch
<1>1. ASSUME NEW v \in BOOLEAN
      PROVE  [w EXCEPT !.lock = v] \in Watch /\ [w EXCEPT !.enabled = v] \in Watch
  BY DEF Watch
<1>2. ASSUME NEW a \in Ram \cup {Null}, NEW v \in [0..3 -> Byte]
      PROVE  [w EXCEPT !.paddr = a, !.value = v] \in Watch
  BY DEF Watch
<1>3. ASSUME NEW t \in Types, NEW v \in BOOLEAN
      PROVE  [w EXCEPT !.type = t, !.enabled = v] \in Watch
  BY DEF Watch
<1>4. ASSUME NEW v \in BOOLEAN, NEW x \in [0..3 -> Byte]
      PROVE  [w EXCEPT !.lock = v, !.value = x] \in Watch
  BY DEF Watch
<1>5. ASSUME NEW t \in Types, NEW a \in Ram \cup {Null}
      PROVE  [w EXCEPT !.paddr = a, !.type = t, !.enabled = TRUE] \in Watch
  BY DEF Watch
<1>6. ASSUME NEW a \in Ram
      PROVE  [w EXCEPT !.lock = FALSE, !.type = FloatWatch, !.enabled = TRUE, !.paddr = a]
               \in Watch
  <2>1. FloatWatch \in Types
    BY DEF Types, FloatWatch, NoWatch
  <2> QED
    BY <2>1 DEF Watch
<1> QED
  BY <1>1, <1>2, <1>3, <1>4, <1>5, <1>6

LEMMA BlankType == Blank \in Watch
  BY MemwatchAssumption DEF Blank, Watch, Types, NoWatch, FloatWatch, Byte

\* The page shown is one of the RAM, and the byte under the cursor a byte of it.
LEMMA PointedInRam ==
  ASSUME NEW page \in 0..Pages - 1, NEW c \in 0..PageBytes - 1
  PROVE  CurrentAddr(page) + c \in Ram
<1>1. PageBytes \in Nat /\ Pages \in Nat
  BY MemwatchAssumption
<1>2. page * PageBytes + c \in Nat
  BY <1>1
<1>3. page * PageBytes + PageBytes <= PageBytes * Pages
  <2>1. Pages - (page + 1) \in Nat
    BY <1>1
  <2>2. (Pages - (page + 1)) * PageBytes >= 0
    BY <1>1, <2>1
  <2> QED
    BY <1>1, <2>2
<1> QED
  BY <1>1, <1>2, <1>3 DEF CurrentAddr, Ram

LEMMA ShownType == ASSUME offset \in Int PROVE Shown \in 0..Pages - 1
  BY MemwatchAssumption DEF Shown, Repaired, InRam

LEMMA SnapshotType == ASSUME ram \in [Ram -> Byte], NEW a \in Int PROVE SnapshotOf(a) \in [0..3 -> Byte]
  BY MemwatchAssumption DEF SnapshotOf, Load, Byte

\* An entry of the list changes to another watch.
LEMMA ListType ==
  ASSUME watch_addrs \in [Watches -> Watch], NEW i \in Watches, NEW w \in Watch
  PROVE  [watch_addrs EXCEPT ![i] = w] \in [Watches -> Watch]
  OBVIOUS

LEMMA RolloverType ==
  ASSUME watch_index \in 0..MaxWatch
  PROVE  Rollover(watch_index) \in Watches
  BY MemwatchAssumption DEF Rollover, Watches

\* Without crossed and mixed, which are history.
MemoryType ==
  /\ mw_flags \subseteq {"viewer", "select", "ascii"}
  /\ cursor_pos \in Cursors
  /\ offset \in -Jump..Pages + Jump
  /\ watch_addrs \in [Watches -> Watch]
  /\ watch_index \in 0..MaxWatch
  /\ pc \in {"menu", "keyboard"} => watch_index \in Watches
  /\ pinput_addr \in Ram \cup {Null}
  /\ ram \in [Ram -> Byte]

\* The address a byte was asked for.
ByteOwned == kb.flags # "off" /\ kb.pcallback = "byte" => pinput_addr \in Ram

LEMMA ClampedType ==
  ASSUME MemoryType, NEW i \in Watches
  PROVE  Clamped(i) \in Types
<1>1. cursor_pos \in Nat
  BY MemwatchAssumption DEF MemoryType, Cursors, Addr
<1>2. LastType(watch_addrs[i].paddr) \in 0..FloatWatch
  BY DEF LastType, FloatWatch, HwordWatch, ByteWatch
<1> QED
  BY <1>1, <1>2 DEF Clamped, Types, NoWatch, FloatWatch

LEMMA TypeIsCursor == \A c \in Types : c \in Cursors /\ c + 1 \in Cursors /\ (c # 0 => c - 1 \in Cursors)
  BY MemwatchAssumption DEF Types, NoWatch, FloatWatch, Cursors, Addr

\* Of several watches that write a byte there is a last.
LEMMA LastWriter ==
  ASSUME NEW S, S \subseteq Watches, S # {}
  PROVE  Max(S) \in S /\ \A j \in S : j <= Max(S)
<1> DEFINE T == {MaxWatch - i : i \in S}
<1>1. MaxWatch \in Nat /\ \A i \in S : i \in Nat /\ i < MaxWatch
  <2> HIDE DEF T
  <2>1. MaxWatch \in Nat
    BY MemwatchAssumption
  <2>2. \A i \in Watches : i \in Nat /\ i < MaxWatch
    BY <2>1 DEF Watches
  <2> QED
    BY <2>1, <2>2
<1>2. T \subseteq Nat /\ T # {}
  BY <1>1
<1>3. PICK m \in T : \A n \in T : ~(<<n, m>> \in OpToRel(<, Nat))
  <2> HIDE DEF T
  <2> QED
    BY <1>2, WFMin, NatLessThanWellFounded
<1>4. \A n \in T : m <= n
  <2> HIDE DEF T
  <2>1. ASSUME NEW n \in Nat, NEW k \in Nat, n < k PROVE <<n, k>> \in OpToRel(<, Nat)
    BY <2>1 DEF OpToRel
  <2>2. ASSUME NEW n \in T PROVE m <= n
    <3>1. n \in Nat /\ m \in Nat
      BY <1>2
    <3>2. ~(<<n, m>> \in OpToRel(<, Nat))
      BY <1>3
    <3>3. ~(n < m)
      BY <3>1, <3>2, <2>1
    <3> QED
      BY <3>1, <3>3
  <2> QED
    BY <2>2
<1>5. PICK i \in S : m = MaxWatch - i
  OBVIOUS
<1>6. \A j \in S : j <= i
  <2> SUFFICES ASSUME NEW j \in S PROVE j <= i
    OBVIOUS
  <2>1. MaxWatch - j \in T
    OBVIOUS
  <2> QED
    BY <1>1, <1>4, <1>5, <2>1
<1> QED
  BY <1>5, <1>6 DEF Max

LEMMA LocksKeepRam ==
  ASSUME MemoryType
  PROVE  RamAfterLocks \in [Ram -> Byte]
<1> SUFFICES ASSUME NEW a \in Ram PROVE RamAfterLocks[a] \in Byte
  BY DEF RamAfterLocks
<1> DEFINE writers == {i \in Watches : WritesTo(watch_addrs[i], a)}
           w == watch_addrs[Max(writers)]
<1>1. CASE writers = {}
  BY <1>1 DEF RamAfterLocks, MemoryType
<1>2. CASE writers # {}
  <2>1. Max(writers) \in writers
    <3>1. writers \subseteq Watches
      OBVIOUS
    <3> HIDE DEF writers
    <3> QED
      BY <1>2, <3>1, LastWriter
  <2>2. w \in Watch /\ a - w.paddr \in DOMAIN LockedBytes(w)
    BY <2>1 DEF WritesTo, MemoryType
  <2>3. RamAfterLocks[a] = LockedBytes(w)[a - w.paddr]
    BY <1>2 DEF RamAfterLocks
  <2> HIDE DEF w
  <2>4. w.value \in [0..3 -> Byte]
    BY <2>2 DEF Watch
  <2>5. \A k \in DOMAIN LockedBytes(w) : LockedBytes(w)[k] \in Byte
    BY <2>4 DEF LockedBytes
  <2> QED
    BY <2>2, <2>3, <2>5
<1> QED
  BY <1>1, <1>2

LEMMA ShowsType ==
  ASSUME MemoryType
  PROVE  /\ Shown \in 0..Pages - 1
         /\ Shown \in -Jump..Pages + Jump
         /\ Rollover(watch_index) \in Watches
         /\ Watches \subseteq 0..MaxWatch
         /\ cursor_pos # Addr => Pointed \in Ram
<1>1. Shown \in 0..Pages - 1
  BY ShownType, MemwatchAssumption DEF MemoryType
<1>2. cursor_pos # Addr => Pointed \in Ram
  BY <1>1, PointedInRam DEF Pointed, MemoryType, Cursors
<1> QED
  BY <1>1, <1>2, RolloverType, MemwatchAssumption DEF MemoryType, Watches

LEMMA MemwatchTypes ==
  ASSUME MemoryType, ByteOwned, KeyOK(kb), UpdateMemwatch
  PROVE  MemoryType' /\ ByteOwned'
<1> DEFINE i == Rollover(watch_index)
<1>r. i \in Watches /\ Watches \subseteq 0..MaxWatch
  BY ShowsType
<1>s. /\ Shown \in -Jump..Pages + Jump /\ Shown \in 0..Pages - 1
      /\ cursor_pos # Addr => Pointed \in Ram
  BY ShowsType
<1>w. watch_addrs[i] \in Watch
  BY <1>r DEF MemoryType
<1>p. pc' \in {"menu", "exception"}
  BY DEF UpdateMemwatch
<1>k. ASSUME NEW r \in Requests, kb' = RequestOn(kb, r) PROVE kb'.pcallback = r
  BY <1>k DEF RequestOn, InputRequest, InitKeyboard, InitHexKeyboard, WithLayout
<1>1. CASE WatchesShown
  BY <1>1, <1>r, LocksKeepRam DEF WatchesShown, Rolls, MemoryType, ByteOwned
<1>2. CASE SelectMoves
  <2>1. Clamped(i) \in Types
    BY <1>r, ClampedType
  <2>2. cursor_pos' \in Cursors
    <3>1. \/ cursor_pos' = Addr \/ cursor_pos' = Clamped(i) \/ cursor_pos' = Clamped(i) + 1
          \/ Clamped(i) # 0 /\ cursor_pos' = Clamped(i) - 1
      BY <1>2, Zenon DEF SelectMoves
    <3> QED
      BY <2>1, <3>1, TypeIsCursor DEF Cursors
  <2>3. mw_flags' \subseteq {"viewer", "select", "ascii"}
    BY <1>2 DEF SelectMoves, SelectFlags, MemoryType
  <2> QED
    BY <1>2, <1>r, <2>2, <2>3 DEF SelectMoves, Rolls, MemoryType, ByteOwned
<1>3. CASE SelectLocks
  <2>1. Clamped(i) \in Cursors
    BY <1>r, ClampedType, TypeIsCursor
  <2>2. mw_flags' \subseteq {"viewer", "select", "ascii"}
    BY <1>3 DEF SelectLocks, SelectFlags, MemoryType
  <2>3. watch_addrs' \in [Watches -> Watch]
    <3>1. watch_addrs' = [watch_addrs EXCEPT ![i] = [watch_addrs[i] EXCEPT !.lock = ~watch_addrs[i].lock]]
      BY <1>3 DEF SelectLocks
    <3>2. [watch_addrs[i] EXCEPT !.lock = ~watch_addrs[i].lock] \in Watch
      BY <1>w, WatchFields
    <3> QED
      BY <1>r, <3>1, <3>2, ListType DEF MemoryType
  <2> QED
    BY <1>3, <1>r, <2>1, <2>2, <2>3 DEF SelectLocks, Rolls, MemoryType, ByteOwned
<1>4. CASE SelectChooses
  <2>1. Clamped(i) \in Types
    BY <1>r, ClampedType
  <2>2. watch_addrs' \in [Watches -> Watch]
    <3> DEFINE w == [watch_addrs[i] EXCEPT !.type = Clamped(i), !.enabled = Clamped(i) # NoWatch]
    <3>1. watch_addrs' = [watch_addrs EXCEPT ![i] = w]
      BY <1>4 DEF SelectChooses
    <3>2. w \in Watch
      BY <1>w, <2>1, WatchFields
    <3> QED
      BY <1>r, <3>1, <3>2, ListType DEF MemoryType
  <2>3. kb' = kb \/ kb' = RequestOn(kb, "name")
    BY <1>4 DEF SelectChooses
  <2>4. ByteOwned'
    BY <1>4, <1>k, <2>3 DEF SelectChooses, ByteOwned, Requests
  <2>5. 0 \in Cursors
    BY MemwatchAssumption DEF Cursors
  <2> QED
    BY <1>4, <1>r, <2>2, <2>4, <2>5 DEF SelectChooses, Rolls, MemoryType
<1>5. CASE UpdateViewer
  <2>i. watch_index' = i
    BY <1>5 DEF UpdateViewer, Rolls
  <2>1. CASE ViewerRests \/ ViewerFollows
    <3>1. offset' \in -Jump..Pages + Jump
      BY <1>s, <2>1, MemwatchAssumption DEF ViewerRests, ViewerFollows
    <3> QED
      BY <1>r, <2>1, <2>i, <3>1 DEF ViewerRests, ViewerFollows, MemoryType, ByteOwned
  <2>2. CASE ViewerPages
    <3>1. offset' \in -Jump..Pages + Jump
      BY <1>s, <2>2, MemwatchAssumption DEF ViewerPages
    <3> QED
      BY <1>r, <2>2, <2>i, <3>1 DEF ViewerPages, MemoryType, ByteOwned
  <2>3. CASE ViewerMoves
    <3>1. cursor_pos' \in Cursors
      BY <2>3, MemwatchAssumption DEF ViewerMoves, CursorOn, CursorBack, Cursors, MemoryType, Addr
    <3> QED
      BY <1>r, <1>s, <2>3, <2>i, <3>1 DEF ViewerMoves, MemoryType, ByteOwned
  <2>4. CASE ViewerCounts
    <3>1. \A b \in Byte : (b + 1) % ByteValues \in Byte /\ (b - 1) % ByteValues \in Byte
      BY MemwatchAssumption DEF Byte
    <3>2. ram' \in [Ram -> Byte]
      BY <1>s, <2>4, <3>1 DEF ViewerCounts, MemoryType
    <3> QED
      BY <1>r, <1>s, <2>4, <2>i, <3>2 DEF ViewerCounts, MemoryType, ByteOwned
  <2>5. CASE ViewerSelects
    <3> DEFINE w == [watch_addrs[i] EXCEPT !.paddr = Pointed, !.value = SnapshotOf(Pointed)]
    <3>1. Pointed \in Ram
      BY <1>s, <2>5 DEF ViewerSelects
    <3>2. SnapshotOf(Pointed) \in [0..3 -> Byte]
      BY <3>1, SnapshotType DEF MemoryType, Ram
    <3>3. w \in Watch
      BY <1>w, <3>1, <3>2, WatchFields
    <3>4. watch_addrs' = [watch_addrs EXCEPT ![i] = w]
      BY <2>5 DEF ViewerSelects
    <3>5. watch_addrs' \in [Watches -> Watch]
      BY <1>r, <3>3, <3>4, ListType DEF MemoryType
    <3>6. 0 \in Cursors
      BY MemwatchAssumption DEF Cursors
    <3> QED
      BY <1>r, <1>s, <2>5, <2>i, <3>5, <3>6 DEF ViewerSelects, MemoryType, ByteOwned
  <2>6. CASE ViewerAsks
    <3>1. \/ cursor_pos # Addr /\ pinput_addr' = Pointed /\ kb' = RequestOn(kb, "byte")
          \/ kb' = RequestOn(kb, "address") /\ UNCHANGED pinput_addr
      BY <2>6 DEF ViewerAsks
    <3>2. pinput_addr' \in Ram \cup {Null}
      BY <1>s, <3>1 DEF MemoryType
    <3>3. ByteOwned'
      BY <1>k, <1>s, <3>1 DEF ByteOwned, Requests
    <3> QED
      BY <1>r, <1>s, <2>6, <2>i, <3>2, <3>3 DEF ViewerAsks, MemoryType
  <2> QED
    BY <1>5, <2>1, <2>2, <2>3, <2>4, <2>5, <2>6 DEF UpdateViewer
<1>6. CASE UNCHANGED <<memwatchVars, kb>> /\ pc' = "exception"
  BY <1>6 DEF memwatchVars, MemoryType, ByteOwned
<1> QED
  BY <1>1, <1>2, <1>3, <1>4, <1>5, <1>6 DEF UpdateMemwatch, UpdateSelection

\* A list all of whose watches are disabled, and the player's.
LEMMA WholeLists ==
  ASSUME MemoryType
  PROVE  /\ ClearAllWatch \in [Watches -> Watch]
         /\ \A addr \in [Watches -> PlayerAddr] : PlayerWatches(addr) \in [Watches -> Watch]
<1>1. ASSUME NEW j \in Watches PROVE [watch_addrs[j] EXCEPT !.enabled = FALSE] \in Watch
  <2>1. watch_addrs[j] \in Watch
    BY DEF MemoryType
  <2> QED
    BY <2>1, WatchFields
<1>2. ASSUME NEW addr \in [Watches -> PlayerAddr], NEW j \in Watches
      PROVE  [watch_addrs[j] EXCEPT !.lock = FALSE, !.type = FloatWatch,
                                    !.enabled = TRUE, !.paddr = addr[j]] \in Watch
  <2>1. watch_addrs[j] \in Watch /\ addr[j] \in Ram
    BY MemwatchAssumption DEF MemoryType
  <2> QED
    BY <2>1, WatchFields
<1>3. ClearAllWatch \in [Watches -> Watch]
  BY <1>1 DEF ClearAllWatch
<1>4. ASSUME NEW addr \in [Watches -> PlayerAddr]
      PROVE  PlayerWatches(addr) \in [Watches -> Watch]
  BY <1>2, <1>4 DEF PlayerWatches
<1> QED
  BY <1>3, <1>4

LEMMA MenuTypes ==
  ASSUME MemoryType, ByteOwned, KeyOK(kb), UpdateMenu
  PROVE  MemoryType' /\ ByteOwned'
<1>1. pc = "menu" /\ kb' = MenuKeys /\ UNCHANGED <<cursor_pos, offset, pinput_addr, ram>>
  BY DEF UpdateMenu, MenuClosed, MenuMoves, MenuSelects
<1>2. ByteOwned'
  <2>1. MenuKeys.flags # "off" => MenuKeys = kb
    BY DEF MenuKeys, KeyOK, KeyboardType
  <2> QED
    BY <1>1, <2>1 DEF ByteOwned
<1>3. MenuFlags \subseteq {"viewer", "select", "ascii"}
  BY DEF MenuFlags, MemoryType
<1>4. /\ mw_flags' \subseteq {"viewer", "select", "ascii"}
      /\ \/ UNCHANGED <<watch_addrs, watch_index>>
         \/ watch_index' = 0 /\ watch_addrs' = ClearAllWatch
         \/ watch_index' = 0 /\ \E addr \in [Watches -> PlayerAddr] :
                                  watch_addrs' = PlayerWatches(addr)
  <2>1. CASE MenuClosed \/ MenuMoves
    BY <1>3, <2>1 DEF MenuClosed, MenuMoves
  <2>2. CASE Monitor
    BY <1>3, <2>2 DEF Monitor
  <2>3. CASE OpensMenu \/ Back \/ OtherEntry
    BY <1>3, <2>3 DEF OpensMenu, Back, OtherEntry
  <2>4. CASE ClearsWatches
    BY <1>3, <2>4 DEF ClearsWatches
  <2>5. CASE TogglesPlayer
    <3>1. \/ watch_addrs' = ClearAllWatch
          \/ \E addr \in [Watches -> PlayerAddr] : watch_addrs' = PlayerWatches(addr)
      BY <2>5, Zenon DEF TogglesPlayer
    <3> QED
      BY <1>3, <2>5, <3>1 DEF TogglesPlayer
  <2> QED
    BY <2>1, <2>2, <2>3, <2>4, <2>5 DEF UpdateMenu, MenuSelects
<1>5. 0 \in Watches /\ 0 \in 0..MaxWatch
  BY MemwatchAssumption DEF Watches
<1>6. watch_addrs' \in [Watches -> Watch]
  BY <1>4, WholeLists DEF MemoryType
<1>7. watch_index' \in Watches /\ watch_index' \in 0..MaxWatch
  BY <1>1, <1>4, <1>5 DEF MemoryType
<1> QED
  BY <1>1, <1>2, <1>4, <1>6, <1>7 DEF MemoryType

\* The keyboard keeps whose request it has until the request ends.
LEMMA KeyboardKeeps ==
  ASSUME KeyOK(kb), UpdateKeyboard
  PROVE  kb'.flags # "off" => kb.flags # "off" /\ kb'.pcallback = kb.pcallback
<1>1. ASSUME NEW k, KeyOK(k)
      PROVE  Moved(k).flags = k.flags /\ Moved(k).pcallback = k.pcallback
  BY <1>1 DEF Moved, KeyOK, KeyboardType
<1>2. CASE KeyboardSkips \/ KeyboardOff
  BY <1>2 DEF KeyboardSkips, KeyboardOff, KeyOK, KeyboardType
<1>3. ASSUME NEW k, k \in KeyboardType, k.pcallback = kb.pcallback, kb' = Moved(k)
      PROVE  kb'.pcallback = kb.pcallback
  BY <1>3 DEF Moved, KeyboardType
<1>4. CASE KeyboardTypes
  <2>1. kb.flags = "on" /\ kb \in KeyboardType
    BY <1>4 DEF KeyboardTypes, KeyOK
  <2>2. PICK k : kb' = Moved(k) /\ (k = kb \/ k = [kb EXCEPT !.input_index = @ + 1])
    BY <1>4, Zenon DEF KeyboardTypes
  <2> QED
    BY <1>3, <2>1, <2>2 DEF KeyboardType
<1>5. CASE KeyboardErases
  <2>1. kb.flags = "on" /\ kb \in KeyboardType /\ kb.input_index - 1 \in Nat
    BY <1>5 DEF KeyboardErases, KeyOK, KeyboardType
  <2>2. kb' = Moved([kb EXCEPT !.input_index = @ - 1])
    BY <1>5 DEF KeyboardErases
  <2> QED
    BY <1>3, <2>1, <2>2 DEF KeyboardType
<1>6. CASE KeyboardWaits
  <2>1. kb.flags = "on" /\ kb \in KeyboardType
    BY <1>6 DEF KeyboardWaits, KeyOK
  <2>2. PICK k : kb' = Moved(k) /\ (k = kb \/ k = [kb EXCEPT !.shift = ~@])
    BY <1>6, Zenon DEF KeyboardWaits
  <2> QED
    BY <1>3, <2>1, <2>2 DEF KeyboardType
<1>7. CASE KeyboardCloses
  <2>1. [kb EXCEPT !.flags = "off"].flags = "off"
    BY DEF KeyOK, KeyboardType
  <2> QED
    BY <1>1, <1>7, <2>1, ClosedOK DEF KeyboardCloses
<1> QED
  BY <1>2, <1>4, <1>5, <1>6, <1>7 DEF UpdateKeyboard, KeyboardWorks

LEMMA KeyboardTypesStep ==
  ASSUME MemoryType, ByteOwned, KeyOK(kb), UpdateKeyboard
  PROVE  MemoryType' /\ ByteOwned'
<1>1. pc = "keyboard" /\ pc' = "serial" /\ watch_index \in Watches
  BY DEF UpdateKeyboard, MemoryType
<1>2. UNCHANGED <<pinput_addr, mw_flags, watch_addrs>>
  BY DEF UpdateKeyboard, Answered, ByteEntered, AddressEntered, Named, Dropped, memwatchVars
<1>3. ByteOwned'
  BY <1>2, KeyboardKeeps DEF ByteOwned
<1>4. CASE UNCHANGED memwatchVars
  BY <1>1, <1>3, <1>4 DEF memwatchVars, MemoryType
<1>5. CASE ByteEntered
  <2>1. PICK b \in Byte : ram' = [ram EXCEPT ![pinput_addr] = b]
    <3>1. 0 \in Byte
      BY MemwatchAssumption DEF Byte
    <3> QED
      BY <1>5, <3>1 DEF ByteEntered
  <2>2. ram' \in [Ram -> Byte]
    BY <2>1 DEF MemoryType
  <2> QED
    BY <1>1, <1>3, <1>5, <2>2 DEF ByteEntered, MemoryType
<1>6. CASE AddressEntered
  <2>1. 0 \in Cursors /\ 0..Pages - 1 \subseteq -Jump..Pages + Jump
    BY MemwatchAssumption DEF Cursors
  <2> QED
    BY <1>1, <1>3, <1>6, <2>1 DEF AddressEntered, MemoryType
<1>7. CASE Named
  <2>1. watch_index + 1 \in 0..MaxWatch
    BY <1>1, MemwatchAssumption DEF Watches
  <2> QED
    BY <1>1, <1>3, <1>7, <2>1 DEF Named, MemoryType
<1> QED
  BY <1>4, <1>5, <1>6, <1>7 DEF UpdateKeyboard, Answered, Dropped

LEMMA SerialTypes ==
  ASSUME MemoryType, ByteOwned, SerialTerminal
  PROVE  MemoryType' /\ ByteOwned'
<1> DEFINE i == Rollover(watch_index)
<1>1. /\ pc' \in {"flags", "exception"} /\ kb' = kb
      /\ UNCHANGED <<mw_flags, cursor_pos, offset, pinput_addr>>
  BY DEF SerialTerminal, SerialOff, SerialQuiet, SerialAdds, SerialClears, SerialLocks,
         SerialPokes, SerialFails, SerialLocksNowhere, memwatchVars
<1>2. i \in Watches /\ i \in 0..MaxWatch /\ i + 1 \in 0..MaxWatch /\ 0 \in 0..MaxWatch
  BY RolloverType, MemwatchAssumption DEF MemoryType, Watches
<1>3. /\ watch_index' \in 0..MaxWatch
      /\ watch_addrs' \in [Watches -> Watch]
      /\ ram' \in [Ram -> Byte]
  <2>1. CASE UNCHANGED memwatchVars
    BY <2>1 DEF memwatchVars, MemoryType
  <2>2. CASE SerialQuiet
    BY <1>2, <2>2 DEF SerialQuiet, Rolls, MemoryType
  <2>3. CASE SerialAdds
    <3>1. PICK type \in ByteWatch..FloatWatch, a \in HostAddrs :
            watch_addrs' = [watch_addrs EXCEPT ![i] = Added(watch_addrs[i], type, a)]
      BY <2>3 DEF SerialAdds
    <3>2. type \in Types
      BY DEF Types, ByteWatch, FloatWatch, NoWatch
    <3>3. watch_addrs[i] \in Watch
      BY <1>2 DEF MemoryType
    <3>4. a \in Ram \cup {Null}
      BY HostAssumption
    <3>5. Added(watch_addrs[i], type, a) \in Watch
      BY <3>2, <3>3, <3>4, WatchFields DEF Added
    <3>6. watch_addrs' \in [Watches -> Watch]
      BY <1>2, <3>1, <3>5, ListType DEF MemoryType
    <3> QED
      BY <1>2, <2>3, <3>6 DEF SerialAdds, MemoryType
  <2>4. CASE SerialClears
    BY <1>2, <2>4, WholeLists DEF SerialClears, MemoryType
  <2>5. CASE SerialLocks
    <3>1. PICK j \in Watches :
            /\ watch_addrs[j].paddr \in Ram
            /\ watch_addrs' = [watch_addrs EXCEPT
                 ![j].lock = ~@, ![j].value = SnapshotOf(watch_addrs[j].paddr)]
      BY <2>5 DEF SerialLocks
    <3> DEFINE w == [watch_addrs[j] EXCEPT !.lock = ~watch_addrs[j].lock,
                                           !.value = SnapshotOf(watch_addrs[j].paddr)]
    <3>2. watch_addrs[j] \in Watch
      BY DEF MemoryType
    <3>3. SnapshotOf(watch_addrs[j].paddr) \in [0..3 -> Byte]
      BY <3>2, SnapshotType DEF MemoryType, Watch, Ram, Null
    <3>4. w \in Watch
      BY <3>2, <3>3, WatchFields
    <3>5. watch_addrs' = [watch_addrs EXCEPT ![j] = w]
      BY <3>1 DEF MemoryType
    <3>6. watch_addrs' \in [Watches -> Watch]
      BY <3>4, <3>5, ListType DEF MemoryType
    <3> QED
      BY <1>2, <2>5, <3>6 DEF SerialLocks, Rolls, MemoryType
  <2>6. CASE SerialPokes
    BY <1>2, <2>6 DEF SerialPokes, Rolls, MemoryType
  <2>7. CASE SerialLocksNowhere
    <3>1. PICK j \in Watches :
            watch_addrs' = [watch_addrs EXCEPT ![j].lock = ~@]
      BY <2>7 DEF SerialLocksNowhere
    <3> DEFINE w == [watch_addrs[j] EXCEPT !.lock = ~watch_addrs[j].lock]
    <3>2. watch_addrs[j] \in Watch
      BY DEF MemoryType
    <3>3. w \in Watch
      BY <3>2, WatchFields
    <3>4. watch_addrs' = [watch_addrs EXCEPT ![j] = w]
      BY <3>1 DEF MemoryType
    <3>5. watch_addrs' \in [Watches -> Watch]
      BY <3>3, <3>4, ListType DEF MemoryType
    <3> QED
      BY <1>2, <2>7, <3>5 DEF SerialLocksNowhere, Rolls, MemoryType
  <2> QED
    BY <2>1, <2>2, <2>3, <2>4, <2>5, <2>6, <2>7 DEF SerialTerminal, SerialOff, SerialFails
<1> QED
  BY <1>1, <1>3 DEF MemoryType, ByteOwned

LEMMA TypesStep ==
  ASSUME MemoryType, ByteOwned, KeyOK(kb), [Next]_vars
  PROVE  MemoryType' /\ ByteOwned'
<1>1. CASE UpdateFlags
  BY <1>1 DEF UpdateFlags, memwatchVars, MemoryType, ByteOwned
<1>2. CASE Reset
  <2>1. 0 \in Cursors /\ 0 \in -Jump..Pages + Jump /\ 0 \in 0..MaxWatch
    BY MemwatchAssumption DEF Cursors
  <2>2. pc' = "memwatch" /\ kb'.flags = "off"
    BY <1>2 DEF Reset, InitKeyboard, WithLayout
  <2> QED
    BY <1>2, <2>1, <2>2, BlankType DEF Reset, MemoryType, ByteOwned
<1>3. CASE UNCHANGED vars
  BY <1>3 DEF vars, memwatchVars, MemoryType, ByteOwned
<1> QED
  BY <1>1, <1>2, <1>3, MemwatchTypes, MenuTypes, KeyboardTypesStep, SerialTypes DEF Next

LEMMA TypesStart == Init => MemoryType /\ ByteOwned /\ KeyOK(kb)
<1> SUFFICES ASSUME Init PROVE MemoryType /\ ByteOwned /\ KeyOK(kb)
  OBVIOUS
<1>1. 0 \in Cursors /\ 0 \in -Jump..Pages + Jump /\ 0 \in 0..MaxWatch
  BY MemwatchAssumption DEF Cursors
<1>2. MemoryType
  BY <1>1, BlankType, MemwatchAssumption DEF Init, MemwatchInit, MemoryType
<1>3. KeyOK(kb) /\ kb.flags = "off"
  BY BootOK DEF Init, KeyboardInit, InitKeyboard, WithLayout
<1> QED
  BY <1>2, <1>3 DEF ByteOwned

\* A text is always asked for by somebody, and the byte that is asked for is
\* one of the RAM: the address cannot change while the keyboard is open
\* (memwatch.c:389-409, 415-447).
THEOREM RequestsOwned == Spec => []RequestOwned
<1>1. (MemoryType /\ ByteOwned /\ KeyOK(kb)) /\ [Next]_vars
        => (MemoryType /\ ByteOwned /\ KeyOK(kb))'
  BY TypesStep, KeysStep DEF KeyOK
<1>2. MemoryType /\ ByteOwned /\ KeyOK(kb) => RequestOwned
  BY DEF ByteOwned, KeyOK, RequestOwned
<1> QED
  BY <1>1, <1>2, TypesStart, PTL DEF Spec

-----------------------------------------------------------------------------
(* The menu and its cursor.                                                *)

MenuType == menu_page \in MenuPages /\ menu_cursor \in Nat /\ CursorInMenu

LEMMA SizeType == ASSUME NEW p \in MenuPages PROVE Len(Entries[p]) \in Nat /\ Len(Entries[p]) > 0
<1>1. Entries[p] \in Seq(Kinds) /\ Entries[p] # <<>>
  BY OverlayAssumption
<1> QED
  BY <1>1

LEMMA SelectedType == ASSUME MenuType PROVE Selected \in Kinds
<1>1. Entries[menu_page] \in Seq(Kinds) /\ menu_cursor + 1 \in 1..Len(Entries[menu_page])
  BY OverlayAssumption, SizeType DEF MenuType, CursorInMenu, Size
<1>2. Entries[menu_page][menu_cursor + 1] \in Kinds
  BY <1>1
<1> QED
  BY <1>2 DEF Selected, Kinds

LEMMA MenuTypeStep == ASSUME MenuType, [Next]_vars PROVE MenuType'
<1>1. CASE UNCHANGED <<menu_page, menu_cursor>>
  BY <1>1 DEF MenuType, CursorInMenu, Size
<1>2. ASSUME menu_page' \in MenuPages, menu_cursor' = 0 PROVE MenuType'
  BY <1>2, SizeType DEF MenuType, CursorInMenu, Size
<1>3. CASE MenuMoves
  <2>1. Size \in Nat /\ menu_cursor \in Nat /\ menu_cursor < Size
    BY SizeType DEF MenuType, CursorInMenu, Size
  <2>2. \/ menu_cursor' = StepBack(menu_cursor, Size)
        \/ menu_cursor' = StepOn(menu_cursor, Size)
        \/ menu_cursor' = menu_cursor
    BY <1>3, Zenon DEF MenuMoves
  <2>3. menu_cursor' \in Nat /\ menu_cursor' < Size
    BY <2>1, <2>2 DEF StepBack, StepOn
  <2>4. menu_page' = menu_page
    BY <1>3 DEF MenuMoves
  <2> QED
    BY <2>3, <2>4 DEF MenuType, CursorInMenu, Size
<1>4. CASE MenuSelects
  <2>1. CASE OpensMenu
    BY <1>2, <2>1 DEF OpensMenu, InitMenu, MenuPages
  <2>2. CASE Back
    BY <1>2, <2>2 DEF Back, InitMenu, MenuPages, MenuType
  <2>3. CASE Monitor \/ ClearsWatches \/ TogglesPlayer \/ OtherEntry
    BY <1>1, <2>3 DEF Monitor, ClearsWatches, TogglesPlayer, OtherEntry
  <2> QED
    BY <1>4, <2>1, <2>2, <2>3 DEF MenuSelects
<1>5. CASE Reset
  BY <1>2, <1>5 DEF Reset, MenuPages
<1> QED
  BY <1>1, <1>3, <1>4, <1>5
     DEF Next, UpdateMemwatch, UpdateMenu, MenuClosed, UpdateKeyboard, SerialTerminal,
         UpdateFlags, menuVars, vars

LEMMA MenuTypeStart == Init => MenuType
  BY SizeType DEF Init, MenuType, CursorInMenu, Size, MenuPages

\* The cursor is on an entry of the menu that is shown, through every change
\* of menus (menu.c:72-85).
THEOREM CursorsInMenus == Spec => []CursorInMenu
<1>1. MenuType => CursorInMenu
  BY DEF MenuType
<1> QED
  BY <1>1, MenuTypeStart, MenuTypeStep, PTL DEF Spec

-----------------------------------------------------------------------------
(* The rest of the types.                                                  *)

RestType ==
  /\ PadTypeOK
  /\ pc \in {"memwatch", "menu", "keyboard", "serial", "flags", "exception"}
  /\ pi_on \in BOOLEAN /\ ed_init_done \in BOOLEAN /\ fresh \in BOOLEAN
  /\ mixed \subseteq Watches /\ crossed \in BOOLEAN

LEMMA MemwatchHistory ==
  ASSUME MemoryType, RestType, UpdateMemwatch
  PROVE  mixed' \subseteq Watches /\ crossed' \in BOOLEAN
<1>1. Rollover(watch_index) \in Watches
  BY RolloverType DEF MemoryType
<1>2. mixed' \subseteq Watches
  BY <1>1 DEF RestType, UpdateMemwatch, WatchesShown, UpdateSelection, SelectMoves,
     SelectLocks, SelectChooses, UpdateViewer, ViewerRests, ViewerPages, ViewerMoves,
     ViewerCounts, ViewerFollows, ViewerSelects, ViewerAsks, memwatchVars
<1>3. crossed' = crossed \/ crossed' = (crossed /\ ~(Views("B") /\ cursor_pos # Addr))
  BY Zenon DEF UpdateMemwatch, WatchesShown, UpdateSelection, SelectMoves,
     SelectLocks, SelectChooses, UpdateViewer, memwatchVars
<1>4. crossed' \in BOOLEAN
  BY <1>3, Zenon DEF RestType
<1> QED
  BY <1>2, <1>4

LEMMA RestTypeStep ==
  ASSUME MemoryType, MenuType, RestType, [Next]_vars
  PROVE  RestType'
<1>1. CASE UpdateMemwatch
  <2>1. pc' \in {"menu", "exception"} /\ UNCHANGED <<padVars, menuVars>>
    BY <1>1 DEF UpdateMemwatch
  <2>2. fresh' \in BOOLEAN
    BY <1>1, Zenon DEF UpdateMemwatch, RestType
  <2> QED
    BY <1>1, <2>1, <2>2, MemwatchHistory DEF RestType, padVars, menuVars, PadTypeOK
<1>2. CASE UpdateMenu
  <2>1. pc' = "keyboard" /\ UNCHANGED <<padVars, fresh, crossed>> /\ mixed' \in {mixed, {}}
    BY <1>2 DEF UpdateMenu, MenuClosed, MenuMoves, MenuSelects
  <2>2. \/ UNCHANGED <<pi_on, ed_init_done>>
        \/ pi_on' = ~pi_on /\ ed_init_done' = ed_init_done
        \/ ed_init_done' = (ed_init_done \/ Selected = "init_ed") /\ pi_on' = pi_on
    <3>1. CASE MenuClosed \/ MenuMoves
      BY <3>1 DEF MenuClosed, MenuMoves
    <3>2. CASE Monitor \/ OpensMenu \/ Back \/ ClearsWatches
      BY <3>2 DEF Monitor, OpensMenu, Back, ClearsWatches
    <3>3. CASE TogglesPlayer
      BY <3>3, Zenon DEF TogglesPlayer
    <3>4. CASE OtherEntry
      BY <3>4, Zenon DEF OtherEntry
    <3> QED
      BY <1>2, <3>1, <3>2, <3>3, <3>4 DEF UpdateMenu, MenuSelects
  <2>3. pi_on' \in BOOLEAN /\ ed_init_done' \in BOOLEAN
    BY <2>2, Zenon DEF RestType
  <2> QED
    BY <2>1, <2>3 DEF RestType, padVars, PadTypeOK
<1>3. CASE UpdateKeyboard
  BY <1>3 DEF UpdateKeyboard, Answered, ByteEntered, AddressEntered, Named, Dropped,
              memwatchVars, menuVars, padVars, RestType, PadTypeOK
<1>4. CASE SerialTerminal
  <2>1. /\ pc' \in {"flags", "exception"} /\ UNCHANGED <<padVars, menuVars, fresh>>
        /\ UNCHANGED <<mixed, crossed>> \/ SerialAdds \/ SerialClears
    BY <1>4 DEF SerialTerminal, SerialOff, SerialQuiet, SerialLocks, SerialPokes,
                SerialFails, SerialLocksNowhere, memwatchVars
  <2>2. Rollover(watch_index) \in Watches
    BY RolloverType DEF MemoryType
  <2>3. UNCHANGED crossed \/ crossed' = TRUE
    BY <2>1 DEF SerialAdds, SerialClears
  <2>4. mixed' \subseteq Watches
    BY <2>1, <2>2 DEF SerialAdds, SerialClears, RestType
  <2>5. crossed' \in BOOLEAN
    BY <2>3, Zenon DEF RestType
  <2> QED
    BY <2>1, <2>4, <2>5 DEF padVars, menuVars, RestType, PadTypeOK
<1>5. CASE UpdateFlags
  BY <1>5 DEF UpdateFlags, NextPad, memwatchVars, RestType, PadTypeOK
<1>6. CASE Reset
  <2>1. pi_on' \in BOOLEAN /\ ed_init_done' \in BOOLEAN
    BY <1>6, BootAssumption DEF Reset, Booted, RestType
  <2>2. crossed' \in BOOLEAN /\ fresh' \in BOOLEAN
    BY <1>6, Zenon DEF Reset, RestType
  <2> QED
    BY <1>6, <2>1, <2>2, PadAssumption DEF Reset, RestType, PadTypeOK
<1>7. CASE UNCHANGED vars
  BY <1>7 DEF vars, menuVars, padVars, memwatchVars, RestType, PadTypeOK
<1> QED
  BY <1>1, <1>2, <1>3, <1>4, <1>5, <1>6, <1>7 DEF Next

LEMMA RestTypeStart == Init => RestType
<1> SUFFICES ASSUME Init PROVE RestType
  OBVIOUS
<1>1. pi_on \in BOOLEAN /\ ed_init_done \in BOOLEAN
  BY BootAssumption DEF Init
<1>2. fresh \in BOOLEAN /\ crossed \in BOOLEAN
  BY Zenon DEF Init, MemwatchInit
<1> QED
  BY <1>1, <1>2, PadAssumption DEF Init, PadInit, MemwatchInit, RestType, PadTypeOK

\* Everything the overlay keeps is of its kind.
THEOREM OverlayTypes == Spec => []TypeOK
<1> DEFINE AllTypes == MemoryType /\ ByteOwned /\ KeyOK(kb) /\ FocusInv /\ MenuType /\ RestType
<1>1. AllTypes /\ [Next]_vars => AllTypes'
  <2> SUFFICES ASSUME AllTypes, [Next]_vars PROVE AllTypes'
    OBVIOUS
  <2>1. MemoryType' /\ ByteOwned'
    BY TypesStep
  <2>2. KeyOK(kb')
    BY KeysStep
  <2>3. FocusInv' /\ MenuType' /\ RestType'
    BY FocusStep, MenuTypeStep, RestTypeStep
  <2> QED
    BY <2>1, <2>2, <2>3 DEF KeyOK
<1>2. Init => AllTypes
  BY TypesStart, FocusStart, MenuTypeStart, RestTypeStart
<1>3. AllTypes => TypeOK
  <2> SUFFICES ASSUME AllTypes PROVE TypeOK
    OBVIOUS
  <2>1. menu_toggle \in 0..2 /\ menu_open \in BOOLEAN
    BY DEF FocusInv
  <2>2. MemwatchTypeOK
    BY DEF MemoryType, RestType, MemwatchTypeOK
  <2>3. kb \in KeyboardType
    BY DEF KeyOK
  <2> QED
    BY <2>1, <2>2, <2>3 DEF MenuType, RestType, TypeOK
<1> QED
  BY <1>1, <1>2, <1>3, PTL DEF Spec

-----------------------------------------------------------------------------
(* Watches can be loaded.                                                  *)

\* A selection in progress has an address, unless the host changed the list.
LoadInv ==
  /\ WatchesLoad
  /\ Selecting /\ ~crossed => watch_addrs[Rollover(watch_index)].paddr \in Ram

LEMMA FitsLoad ==
  ASSUME NEW a \in Ram, NEW c \in Types, c <= LastType(a)
  PROVE  a % Alignment(c) = 0
<1>1. a \in Int
  BY MemwatchAssumption DEF Ram
<1>2. CASE a % 4 = 0
  <2>1. a % 2 = 0 /\ a % 1 = 0
    BY <1>1, <1>2
  <2> QED
    BY <1>2, <2>1 DEF Alignment
<1>3. CASE a % 4 # 0 /\ a % 2 = 0
  <2>1. LastType(a) = 2
    BY <1>3, <1>1, MemwatchAssumption DEF LastType, HwordWatch, Ram, Null
  <2>2. a % 1 = 0
    BY <1>1
  <2> QED
    BY <1>3, <2>1, <2>2 DEF Alignment, WordWatch, FloatWatch, HwordWatch, Types, NoWatch
<1>4. CASE a % 4 # 0 /\ a % 2 # 0
  <2>1. LastType(a) = 1
    BY <1>4, <1>1, MemwatchAssumption DEF LastType, ByteWatch, Ram, Null
  <2>2. a % 1 = 0
    BY <1>1
  <2> QED
    BY <2>1, <2>2 DEF Alignment, WordWatch, FloatWatch, HwordWatch, Types, NoWatch
<1> QED
  BY <1>2, <1>3, <1>4

\* A list whose watches keep address and type, or are disabled.
LEMMA SameLoads ==
  ASSUME WatchesLoad, mixed \subseteq mixed',
         \A j \in Watches : watch_addrs'[j].enabled =>
           /\ watch_addrs[j].enabled
           /\ watch_addrs'[j].paddr = watch_addrs[j].paddr
           /\ watch_addrs'[j].type = watch_addrs[j].type
  PROVE  WatchesLoad'
  BY DEF WatchesLoad, Loads

LEMMA ClearedLoads ==
  ASSUME MemoryType, watch_addrs' = ClearAllWatch
  PROVE  WatchesLoad'
<1>1. \A j \in Watches : ~watch_addrs'[j].enabled
  <2> SUFFICES ASSUME NEW j \in Watches PROVE ~watch_addrs'[j].enabled
    OBVIOUS
  <2>1. watch_addrs'[j] = [watch_addrs[j] EXCEPT !.enabled = FALSE] /\ watch_addrs[j] \in Watch
    BY DEF ClearAllWatch, MemoryType
  <2> QED
    BY <2>1 DEF Watch
<1> QED
  BY <1>1 DEF WatchesLoad

LEMMA RollTwice ==
  ASSUME MemoryType
  PROVE  /\ Rollover(watch_index) \in Watches
         /\ Rollover(Rollover(watch_index)) = Rollover(watch_index)
  BY RolloverType, MemwatchAssumption DEF MemoryType, Rollover, Watches

LEMMA MemwatchLoads ==
  ASSUME MemoryType, LoadInv, UpdateMemwatch
  PROVE  LoadInv'
<1> DEFINE i == Rollover(watch_index)
<1>i. i \in Watches /\ Rollover(i) = i /\ watch_addrs[i] \in Watch
  BY RollTwice DEF MemoryType
<1>1. CASE UNCHANGED <<watch_addrs, mw_flags, crossed, mixed>> /\ watch_index' \in {i, watch_index}
  <2>1. Rollover(watch_index') = i
    BY <1>1, <1>i
  <2> QED
    BY <1>1, <2>1 DEF LoadInv, WatchesLoad, Loads, Selecting
<1>2. CASE SelectMoves
  <2>1. /\ UNCHANGED <<watch_addrs, crossed, mixed>> /\ watch_index' = i /\ Selecting
    BY <1>2 DEF SelectMoves, Rolls
  <2> QED
    BY <1>i, <2>1 DEF LoadInv, WatchesLoad, Loads
<1>3. CASE SelectLocks
  <2>1. /\ watch_addrs' = [watch_addrs EXCEPT ![i] = [watch_addrs[i] EXCEPT !.lock = ~watch_addrs[i].lock]]
        /\ UNCHANGED <<crossed, mixed>> /\ watch_index' = i /\ Selecting
    BY <1>3 DEF SelectLocks, Rolls
  <2> DEFINE w == [watch_addrs[i] EXCEPT !.lock = ~watch_addrs[i].lock]
  <2>2. /\ w.enabled = watch_addrs[i].enabled /\ w.paddr = watch_addrs[i].paddr
        /\ w.type = watch_addrs[i].type
    BY <1>i DEF Watch
  <2>3. \A j \in Watches : watch_addrs'[j] = IF j = i THEN w ELSE watch_addrs[j]
    BY <1>i, <2>1 DEF MemoryType
  <2> HIDE DEF w
  <2>4. WatchesLoad'
    BY <2>1, <2>2, <2>3, SameLoads DEF LoadInv
  <2> QED
    BY <1>i, <2>1, <2>2, <2>3, <2>4 DEF LoadInv
<1>4. CASE SelectChooses
  <2> DEFINE c == Clamped(i)
             w == [watch_addrs[i] EXCEPT !.type = c, !.enabled = c # NoWatch]
  <2>1. /\ watch_addrs' = [watch_addrs EXCEPT ![i] = w]
        /\ mixed' = IF crossed THEN mixed \cup {i} ELSE mixed \ {i}
        /\ mw_flags' = {} /\ Selecting
    BY <1>4 DEF SelectChooses
  <2>2. c \in Types /\ c <= LastType(watch_addrs[i].paddr)
    BY <1>i, ClampedType DEF Clamped, LastType, MemoryType, Cursors, Addr, FloatWatch,
                             HwordWatch, ByteWatch
  <2>3. w.type = c /\ w.paddr = watch_addrs[i].paddr
    BY <1>i DEF Watch
  <2> HIDE DEF c, w
  <2>4. \A j \in Watches : watch_addrs'[j] = IF j = i THEN w ELSE watch_addrs[j]
    BY <1>i, <2>1 DEF MemoryType
  <2>5. ~crossed => Loads(w)
    BY <1>i, <2>1, <2>2, <2>3, FitsLoad DEF LoadInv, Loads
  <2>6. WatchesLoad'
    BY <1>i, <2>1, <2>4, <2>5 DEF LoadInv, WatchesLoad, Loads
  <2> QED
    BY <2>1, <2>6 DEF LoadInv, Selecting
<1>5. CASE ViewerSelects /\ UpdateViewer
  <2> DEFINE w == [watch_addrs[i] EXCEPT !.paddr = Pointed, !.value = SnapshotOf(Pointed)]
  <2>1. /\ watch_addrs' = [watch_addrs EXCEPT ![i] = w] /\ watch_index' = i
        /\ mixed' = IF watch_addrs[i].enabled THEN mixed \cup {i} ELSE mixed
        /\ Pointed \in Ram
    BY <1>5, ShowsType DEF ViewerSelects, UpdateViewer, Rolls
  <2>2. w.enabled = watch_addrs[i].enabled /\ w.paddr = Pointed
    BY <1>i DEF Watch
  <2> HIDE DEF w
  <2>3. \A j \in Watches : watch_addrs'[j] = IF j = i THEN w ELSE watch_addrs[j]
    BY <1>i, <2>1 DEF MemoryType
  <2>4. WatchesLoad'
    BY <1>i, <2>1, <2>2, <2>3 DEF LoadInv, WatchesLoad, Loads
  <2> QED
    BY <1>i, <2>1, <2>2, <2>3, <2>4 DEF LoadInv
<1>6. CASE UpdateViewer /\ ~ViewerSelects
  <2>1. UNCHANGED <<watch_addrs, mixed>> /\ ~Selecting
    BY <1>6 DEF UpdateViewer, ViewerRests, ViewerPages, ViewerMoves, ViewerCounts,
                ViewerFollows, ViewerAsks, Viewing
  <2>2. mw_flags' \in {mw_flags, {}}
    BY <1>6 DEF UpdateViewer, ViewerRests, ViewerPages, ViewerMoves, ViewerCounts,
                ViewerFollows, ViewerAsks
  <2> QED
    BY <2>1, <2>2 DEF LoadInv, WatchesLoad, Loads, Selecting
<1> QED
  BY <1>1, <1>2, <1>3, <1>4, <1>5, <1>6
     DEF UpdateMemwatch, UpdateSelection, WatchesShown, Rolls, memwatchVars

LEMMA MenuLoads ==
  ASSUME KeyOK(kb), FocusInv, MemoryType, LoadInv, UpdateMenu
  PROVE  LoadInv'
<1>1. UNCHANGED crossed /\ pc = "menu"
  BY DEF UpdateMenu, MenuClosed, MenuMoves, MenuSelects
<1>2. "select" \in MenuFlags => Selecting
  BY DEF MenuFlags, Selecting
<1>3. CASE MenuClosed \/ MenuMoves
  BY <1>1, <1>2, <1>3 DEF MenuClosed, MenuMoves, LoadInv, WatchesLoad, Loads, Selecting
<1>4. CASE MenuSelects
  <2>1. mixed' = IF Selected = "player" THEN {} ELSE mixed
    BY <1>4 DEF MenuSelects
  <2>2. CASE Monitor \/ OpensMenu \/ Back \/ OtherEntry
    <3>1. UNCHANGED <<watch_addrs, watch_index>> /\ Selected # "player"
      BY <2>2 DEF Monitor, OpensMenu, Back, OtherEntry
    <3>2. "select" \in mw_flags' => Selecting
      BY <1>2, <2>2 DEF Monitor, OpensMenu, Back, OtherEntry
    <3> QED
      BY <1>1, <2>1, <3>1, <3>2 DEF LoadInv, WatchesLoad, Loads, Selecting
  <2>3. CASE ClearsWatches \/ TogglesPlayer
    <3>1. Picks("A")
      BY <2>3 DEF ClearsWatches, TogglesPlayer, Selected
    <3>2. Pressed("A")
      BY <3>1 DEF Picks, First, MenuFires, Buttons
    <3>3. MenuFlags = {}
      BY <1>1, <1>4, <3>2, MenuTakesOver DEF MenuSelects
    <3>4. mw_flags' = {}
      BY <2>3, <3>3 DEF ClearsWatches, TogglesPlayer
    <3>5. WatchesLoad'
      <4>1. \/ watch_addrs' = ClearAllWatch
            \/ \E addr \in [Watches -> PlayerAddr] : watch_addrs' = PlayerWatches(addr)
        BY <2>3, Zenon DEF ClearsWatches, TogglesPlayer
      <4>2. ASSUME NEW addr \in [Watches -> PlayerAddr], watch_addrs' = PlayerWatches(addr)
            PROVE  WatchesLoad'
        <5> SUFFICES ASSUME NEW j \in Watches PROVE Loads(watch_addrs'[j])
          BY DEF WatchesLoad, Loads
        <5>1. watch_addrs'[j] = [watch_addrs[j] EXCEPT
                !.lock = FALSE, !.type = FloatWatch, !.enabled = TRUE, !.paddr = addr[j]]
          BY <4>2 DEF PlayerWatches
        <5>2. watch_addrs[j] \in Watch
          BY DEF MemoryType
        <5>3. watch_addrs'[j].paddr = addr[j] /\ watch_addrs'[j].type = FloatWatch
          BY <5>1, <5>2 DEF Watch
        <5>4. addr[j] \in Ram /\ addr[j] % 4 = 0
          BY MemwatchAssumption
        <5> QED
          BY <5>3, <5>4 DEF Loads, Alignment
      <4> QED
        BY <4>1, <4>2, ClearedLoads
    <3> QED
      BY <3>4, <3>5 DEF LoadInv, Selecting
  <2> QED
    BY <1>4, <2>2, <2>3 DEF MenuSelects
<1> QED
  BY <1>3, <1>4 DEF UpdateMenu

LEMMA SerialLoads ==
  ASSUME MemoryType, LoadInv, SerialTerminal
  PROVE  LoadInv'
<1> DEFINE i == Rollover(watch_index)
<1>i. i \in Watches /\ Rollover(i) = i /\ watch_addrs[i] \in Watch
  BY RollTwice DEF MemoryType
<1>1. CASE UNCHANGED <<watch_addrs, mw_flags, crossed, mixed>> /\ watch_index' \in {i, watch_index}
  <2>1. Rollover(watch_index') = i
    BY <1>1, <1>i
  <2> QED
    BY <1>1, <2>1 DEF LoadInv, WatchesLoad, Loads, Selecting
<1>2. CASE SerialAdds
  <2>1. PICK type \in ByteWatch..FloatWatch, a \in HostAddrs :
          LET w == Added(watch_addrs[i], type, a)
          IN /\ watch_addrs' = [watch_addrs EXCEPT ![i] = w]
             /\ mixed' = IF Loads(w) THEN mixed \ {i} ELSE mixed \cup {i}
             /\ crossed' = TRUE
    BY <1>2 DEF SerialAdds
  <2> DEFINE w == Added(watch_addrs[i], type, a)
  <2>2. \A j \in Watches : watch_addrs'[j] = IF j = i THEN w ELSE watch_addrs[j]
    BY <1>i, <2>1 DEF MemoryType
  <2>3. mixed' = (IF Loads(w) THEN mixed \ {i} ELSE mixed \cup {i}) /\ crossed'
    BY <2>1
  <2> HIDE DEF w
  <2>4. WatchesLoad'
    <3> SUFFICES ASSUME NEW j \in Watches, watch_addrs'[j].enabled
                 PROVE  Loads(watch_addrs'[j]) \/ j \in mixed'
      BY DEF WatchesLoad, Loads
    <3>1. CASE j = i
      BY <2>2, <2>3, <3>1
    <3>2. CASE j # i
      BY <2>2, <2>3, <3>2 DEF LoadInv, WatchesLoad
    <3> QED
      BY <3>1, <3>2
  <2> QED
    BY <2>3, <2>4 DEF LoadInv
<1>3. CASE SerialClears
  BY <1>3, ClearedLoads DEF SerialClears, LoadInv
<1>4. CASE SerialLocks
  <2>1. PICK k \in Watches :
          /\ watch_addrs[k].paddr \in Ram
          /\ watch_addrs' = [watch_addrs EXCEPT
               ![k].lock = ~@, ![k].value = SnapshotOf(watch_addrs[k].paddr)]
          /\ UNCHANGED <<mw_flags, crossed, mixed>> /\ watch_index' = i
    BY <1>4 DEF SerialLocks, Rolls
  <2> DEFINE w == [watch_addrs[k] EXCEPT !.lock = ~watch_addrs[k].lock,
                                         !.value = SnapshotOf(watch_addrs[k].paddr)]
  <2>2. watch_addrs[k] \in Watch /\ watch_addrs' = [watch_addrs EXCEPT ![k] = w]
    BY <2>1 DEF MemoryType
  <2>3. /\ w.enabled = watch_addrs[k].enabled /\ w.paddr = watch_addrs[k].paddr
        /\ w.type = watch_addrs[k].type
    BY <2>2 DEF Watch
  <2> HIDE DEF w
  <2>4. \A j \in Watches : watch_addrs'[j] = IF j = k THEN w ELSE watch_addrs[j]
    BY <2>2 DEF MemoryType
  <2>5. WatchesLoad'
    BY <2>1, <2>3, <2>4, SameLoads DEF LoadInv
  <2> QED
    BY <1>i, <2>1, <2>3, <2>4, <2>5 DEF LoadInv, Selecting
<1>5. CASE SerialLocksNowhere
  <2>1. PICK k \in Watches :
          /\ watch_addrs' = [watch_addrs EXCEPT ![k].lock = ~@]
          /\ UNCHANGED <<mw_flags, crossed, mixed>> /\ watch_index' = i
    BY <1>5 DEF SerialLocksNowhere, Rolls
  <2> DEFINE w == [watch_addrs[k] EXCEPT !.lock = ~watch_addrs[k].lock]
  <2>2. watch_addrs[k] \in Watch /\ watch_addrs' = [watch_addrs EXCEPT ![k] = w]
    BY <2>1 DEF MemoryType
  <2>3. /\ w.enabled = watch_addrs[k].enabled /\ w.paddr = watch_addrs[k].paddr
        /\ w.type = watch_addrs[k].type
    BY <2>2 DEF Watch
  <2> HIDE DEF w
  <2>4. \A j \in Watches : watch_addrs'[j] = IF j = k THEN w ELSE watch_addrs[j]
    BY <2>2 DEF MemoryType
  <2>5. WatchesLoad'
    BY <2>1, <2>3, <2>4, SameLoads DEF LoadInv
  <2> QED
    BY <1>i, <2>1, <2>3, <2>4, <2>5 DEF LoadInv, Selecting
<1> QED
  BY <1>1, <1>2, <1>3, <1>4, <1>5
     DEF SerialTerminal, SerialOff, SerialQuiet, SerialPokes, SerialFails, Rolls, memwatchVars

LEMMA LoadsStep ==
  ASSUME KeyOK(kb), FocusInv, MemoryType, LoadInv, [Next]_vars
  PROVE  LoadInv'
<1>1. CASE UpdateKeyboard
  <2>1. UNCHANGED <<watch_addrs, mw_flags, crossed, mixed>>
    BY <1>1 DEF UpdateKeyboard, Answered, ByteEntered, AddressEntered, Named, Dropped,
                memwatchVars
  <2>2. Selecting => watch_index' = watch_index
    <3>1. Selecting => kb.flags = "off"
      BY DEF FocusInv, Selecting
    <3> QED
      BY <1>1, <3>1 DEF UpdateKeyboard, Answered, ByteEntered, AddressEntered, Named, Dropped,
                        GivesUp, Enters, memwatchVars
  <2> QED
    BY <2>1, <2>2 DEF LoadInv, WatchesLoad, Loads, Selecting
<1>2. CASE UpdateFlags \/ UNCHANGED vars
  BY <1>2 DEF UpdateFlags, vars, memwatchVars, LoadInv, WatchesLoad, Loads, Selecting
<1>3. CASE Reset
  BY <1>3 DEF Reset, Blank, LoadInv, WatchesLoad, Selecting
<1> QED
  BY <1>1, <1>2, <1>3, MemwatchLoads, MenuLoads, SerialLoads DEF Next

\* No watch of the list raises the address error exception, unless its
\* address was replaced under its type or the host asked for one its type
\* cannot be loaded from: what the monitor, the rollover and the player's
\* watches add themselves always loads (memwatch.c:187-202, 374-387,
\* debug.c:343-344).
THEOREM WatchesAlwaysLoad == Spec => []WatchesLoad
<1> DEFINE Inv == MemoryType /\ ByteOwned /\ KeyOK(kb) /\ FocusInv /\ LoadInv
<1>1. Init => Inv
  <2> SUFFICES ASSUME Init PROVE Inv
    OBVIOUS
  <2>1. LoadInv
    BY DEF Init, MemwatchInit, Blank, LoadInv, WatchesLoad, Selecting
  <2> QED
    BY <2>1, TypesStart, FocusStart
<1>2. Inv /\ [Next]_vars => Inv'
  <2> SUFFICES ASSUME Inv, [Next]_vars PROVE Inv'
    OBVIOUS
  <2>1. KeyOK(kb')
    BY KeysStep
  <2>2. MemoryType' /\ ByteOwned' /\ FocusInv' /\ LoadInv'
    BY TypesStep, FocusStep, LoadsStep
  <2> QED
    BY <2>1, <2>2 DEF KeyOK
<1>3. Inv => WatchesLoad
  BY DEF LoadInv
<1> QED
  BY <1>1, <1>2, <1>3, PTL DEF Spec

-----------------------------------------------------------------------------
(* The locks that do keep their snapshot.                                  *)

LEMMA WordLockStep ==
  ASSUME MemoryType, WatchesShown, NEW i \in Watches, NEW k \in 0..3,
         watch_addrs[i].enabled, watch_addrs[i].lock, Alignment(watch_addrs[i].type) = 4,
         watch_addrs[i].paddr + k \in Ram,
         \A j \in Watches : WritesTo(watch_addrs[j], watch_addrs[i].paddr + k) => j <= i
  PROVE  ram'[watch_addrs[i].paddr + k] = watch_addrs[i].value[k]
<1> DEFINE w == watch_addrs[i]  a == w.paddr + k
           writers == {j \in Watches : WritesTo(watch_addrs[j], a)}
<1>1. LockedBytes(w) = [n \in 0..3 |-> w.value[n]]
  BY DEF Alignment, LockedBytes
<1>2. w \in Watch /\ w.paddr \in Int /\ a - w.paddr = k
  BY DEF MemoryType, Watch, Ram, Null
<1>3. i \in writers
  BY <1>1, <1>2 DEF WritesTo
<1>4. Max(writers) = i
  <2>1. writers \subseteq Watches /\ writers # {}
    BY <1>3
  <2>2. \A j \in writers : j <= i
    OBVIOUS
  <2> HIDE DEF writers
  <2>3. Max(writers) \in writers /\ \A j \in writers : j <= Max(writers)
    BY <2>1, LastWriter
  <2>4. Max(writers) \in Nat /\ i \in Nat
    <3>1. \A j \in Watches : j \in Nat
      BY DEF Watches
    <3>2. Max(writers) \in Watches
      BY <2>1, <2>3
    <3> QED
      BY <3>1, <3>2
  <2> QED
    BY <1>3, <2>2, <2>3, <2>4
<1>5. ram'[a] = LockedBytes(watch_addrs[Max(writers)])[a - watch_addrs[Max(writers)].paddr]
  <2>1. ram' = RamAfterLocks /\ a \in Ram /\ writers # {}
    BY <1>3 DEF WatchesShown
  <2> QED
    BY <2>1 DEF RamAfterLocks
<1> QED
  BY <1>1, <1>2, <1>4, <1>5

\* LockKeepsSnapshot holds of watches of four bytes: they get all of their
\* snapshot in every frame, but for a byte that a later watch writes too
\* (memwatch.c:140-158).
THEOREM WordLocksKeep ==
  Spec => [][pc = "memwatch" /\ pc' = "menu" /\ Closed =>
               \A i \in Watches : \A k \in 0..3 :
                 LET w == watch_addrs[i]
                     a == w.paddr + k
                 IN /\ w.enabled /\ w.lock /\ Alignment(w.type) = 4 /\ a \in Ram
                    /\ \A j \in Watches : WritesTo(watch_addrs[j], a) => j <= i
                    => ram'[a] = w.value[k]]_vars
<1> DEFINE Inv == MemoryType /\ ByteOwned /\ KeyOK(kb)
           Action == pc = "memwatch" /\ pc' = "menu" /\ Closed =>
               \A i \in Watches : \A k \in 0..3 :
                 LET w == watch_addrs[i]
                     a == w.paddr + k
                 IN /\ w.enabled /\ w.lock /\ Alignment(w.type) = 4 /\ a \in Ram
                    /\ \A j \in Watches : WritesTo(watch_addrs[j], a) => j <= i
                    => ram'[a] = w.value[k]
<1>1. Inv /\ [Next]_vars => Inv'
  BY TypesStep, KeysStep DEF KeyOK
<1>2. Inv /\ [Next]_vars => [Action]_vars
  <2> SUFFICES ASSUME Inv, Next, pc = "memwatch", pc' = "menu", Closed
               PROVE  Action
    OBVIOUS
  <2>1. WatchesShown
    BY DEF Next, UpdateMemwatch, UpdateMenu, UpdateKeyboard, SerialTerminal, UpdateFlags, Reset,
           UpdateSelection, SelectMoves, SelectLocks, SelectChooses, UpdateViewer, ViewerRests,
           ViewerPages, ViewerMoves, ViewerCounts, ViewerFollows, ViewerSelects, ViewerAsks,
           Selecting, Viewing, Closed
  <2> QED
    BY <2>1, WordLockStep
<1> QED
  BY <1>1, <1>2, TypesStart, PTL DEF Spec

-----------------------------------------------------------------------------
(* A request is not answered by the press that made it.                    *)

FreshAsked == pc \in {"menu", "keyboard"} /\ fresh /\ kb.flags # "off" => kb.flags = "asked"

LEMMA FreshStep ==
  ASSUME KeyOK(kb), FreshAsked, [Next]_vars
  PROVE  FreshAsked'
<1>1. CASE UpdateMemwatch /\ pc' = "menu"
  <2>1. kb' = kb \/ \E r \in Requests : kb' = RequestOn(kb, r)
    BY <1>1 DEF UpdateMemwatch, WatchesShown, UpdateSelection, SelectMoves, SelectLocks,
           SelectChooses, UpdateViewer, ViewerRests, ViewerPages, ViewerMoves,
           ViewerCounts, ViewerFollows, ViewerSelects, ViewerAsks, Requests
  <2>2. ASSUME NEW r \in Requests, kb' = RequestOn(kb, r) PROVE kb'.flags = "asked"
    BY <2>2 DEF RequestOn, InputRequest, InitKeyboard, InitHexKeyboard, WithLayout
  <2>3. fresh' => kb' # kb
    <3>1. fresh' = (kb' # kb)
      BY <1>1, Zenon DEF UpdateMemwatch
    <3> QED
      BY <3>1, Zenon
  <2> QED
    BY <2>1, <2>2, <2>3 DEF FreshAsked
<1>2. CASE UpdateMenu
  <2>1. pc = "menu" /\ kb' = MenuKeys /\ fresh' = fresh
    BY <1>2 DEF UpdateMenu, MenuClosed, MenuMoves, MenuSelects
  <2>2. MenuKeys = kb \/ MenuKeys.flags = "off"
    BY DEF MenuKeys, KeyOK, KeyboardType
  <2> QED
    BY <2>1, <2>2 DEF FreshAsked
<1>3. CASE pc' \notin {"menu", "keyboard"}
  BY <1>3 DEF FreshAsked
<1>4. CASE UNCHANGED vars
  BY <1>4 DEF vars, FreshAsked
<1> QED
  BY <1>1, <1>2, <1>3, <1>4 DEF Next, UpdateMemwatch, UpdateKeyboard, SerialTerminal,
                                UpdateFlags, Reset

\* In the frame of the request the keyboard only arms itself (keyboard.h:11).
THEOREM AnswersNeedPress == Spec => AnswerNeedsNewPress
<1> DEFINE Inv == KeyOK(kb) /\ FreshAsked
<1>1. Init => Inv
  BY BootOK DEF Init, KeyboardInit, FreshAsked
<1>2. Inv /\ [Next]_vars => Inv'
  BY KeysStep, FreshStep DEF KeyOK
<1>3. Inv /\ [Next]_vars =>
        [pc = "keyboard" /\ fresh /\ kb.flags # "off" =>
           kb'.flags = "on" /\ UNCHANGED memwatchVars]_vars
  <2> SUFFICES ASSUME Inv, Next, pc = "keyboard", fresh, kb.flags # "off"
               PROVE  kb'.flags = "on" /\ UNCHANGED memwatchVars
    OBVIOUS
  <2>1. UpdateKeyboard
    BY DEF Next, UpdateMemwatch, UpdateMenu, SerialTerminal, UpdateFlags, Reset
  <2>2. kb.flags = "asked"
    BY DEF FreshAsked
  <2>3. KeyboardSkips /\ UNCHANGED memwatchVars
    BY <2>1, <2>2 DEF UpdateKeyboard, KeyboardWorks, KeyboardOff, KeyboardTypes,
       KeyboardErases, KeyboardWaits, Answered, ByteEntered, AddressEntered, Named, Dropped,
       Enters, GivesUp
  <2> QED
    BY <2>3 DEF KeyboardSkips, KeyOK, KeyboardType
<1> QED
  BY <1>1, <1>2, <1>3, PTL DEF Spec, AnswerNeedsNewPress
=============================================================================
