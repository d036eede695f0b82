------------------------------ MODULE Keyboard ------------------------------
(***************************************************************************)
(* The on-screen keyboard (keyboard.c): one shared keyboard on which other *)
(* parts of the hack put an input request, with the function to call when  *)
(* the text is entered or given up.  What is typed is abstracted to its    *)
(* length.                                                                 *)
(***************************************************************************)
EXTENDS Pad, Naturals

CONSTANTS
  HexRows, HexCols,    \* layout of init_hex_keyboard: 2 x 8
  FullRows, FullCols,  \* layout of init_keyboard: 4 x 11
  InputLen,            \* input_len asked for by each kind of request
  BufferLen            \* size of the array each kind of request writes

Requests  == {"byte", "address", "name"}   \* by their callback function
Callbacks == Requests \cup {"none"}

ASSUME KeyboardAssumption ==
  /\ {HexRows, HexCols, FullRows, FullCols} \subseteq Nat \ {0}
  /\ InputLen \in [Requests -> Nat \ {0}]
  /\ BufferLen \in [Requests -> Nat]
  /\ \A r \in Requests : InputLen[r] <= BufferLen[r]

VARIABLE kb           \* pkb

KeyboardType ==
  [flags : {"off", "asked", "on"},    \* 0x00, 0x40, 0x80
   shift : BOOLEAN, row : Nat, cursor : Nat, row_len : Nat, col_len : Nat,
   input_index : Nat, input_len : Nat, pcallback : Callbacks]

-----------------------------------------------------------------------------
(* Putting a request.                                                      *)

WithLayout(k, rows, cols, len) ==
  [flags |-> k.flags, shift |-> TRUE, row |-> 0, cursor |-> 0,
   row_len |-> rows, col_len |-> cols,
   input_index |-> 0, input_len |-> len, pcallback |-> "none"]

InitHexKeyboard(k) == WithLayout(k, HexRows, HexCols, 0)
InitKeyboard(k)    == WithLayout(k, FullRows, FullCols, 8)

\* Mutant: the keyboard answers in the frame it was asked in.
InputRequestAtOnce(k, request) ==
  [k EXCEPT !.pcallback = request, !.flags = "on",
            !.input_len = InputLen[request], !.input_index = 0]

InputRequest(k, request) ==
  [k EXCEPT !.pcallback = request, !.flags = "asked",
            !.input_len = InputLen[request], !.input_index = 0]

\* The requests of the memory watch, each on the layout it initialises.
RequestOn(k, request) ==
  InputRequest(IF request = "name" THEN InitKeyboard(k) ELSE InitHexKeyboard(k),
               request)

-----------------------------------------------------------------------------
(* update_keyboard                                                         *)

\* Mutant: the last character leaves no room for the terminator.
RoomNoTerminator(k) == k.input_index < k.input_len

\* input_len - 1 is unsigned: there is always room when input_len is 0.
Room(k) == k.input_len = 0 \/ k.input_index < k.input_len - 1

StepBack(n, len) == IF n = 0 THEN len - 1 ELSE n - 1

\* Mutant: the step on wraps one key too late.
StepOnLate(n, len) == IF n = len THEN 0 ELSE n + 1

StepOn(n, len)   == IF n = len - 1 THEN 0 ELSE n + 1

\* The d-pad moves the cursor in the same frame, whatever else happened.
Moved(k) ==
  IF Pressed("UP") THEN [k EXCEPT !.row = StepBack(@, k.row_len)]
  ELSE IF Pressed("DOWN") THEN [k EXCEPT !.row = StepOn(@, k.row_len)]
  ELSE IF Pressed("LEFT") THEN [k EXCEPT !.cursor = StepBack(@, k.col_len)]
  ELSE IF Pressed("RIGHT") THEN [k EXCEPT !.cursor = StepOn(@, k.col_len)]
  ELSE k

KeyboardSkips ==         \* the frame of the request itself
  /\ kb.flags = "asked"
  /\ kb' = [kb EXCEPT !.flags = "on"]

KeyboardOff == kb.flags = "off" /\ kb' = kb

KeyboardTypes ==
  /\ kb.flags = "on"
  /\ Pressed("A")
  /\ kb' = Moved(IF Room(kb) THEN [kb EXCEPT !.input_index = @ + 1] ELSE kb)

KeyboardErases ==
  /\ kb.flags = "on"
  /\ ~Pressed("A") /\ Pressed("B")
  /\ kb.input_index # 0
  /\ kb' = Moved([kb EXCEPT !.input_index = @ - 1])

KeyboardWaits ==
  /\ kb.flags = "on"
  /\ ~Pressed("A") /\ ~Pressed("B") /\ ~Pressed("Z")
  /\ kb' = Moved(IF Pressed("L") THEN [kb EXCEPT !.shift = ~@] ELSE kb)

KeyboardWorks ==
  KeyboardSkips \/ KeyboardOff \/ KeyboardTypes \/ KeyboardErases \/ KeyboardWaits

\* The two ends of a request, on which the callback runs: B on an empty
\* text gives up (success is FALSE), Z enters the text.
GivesUp ==
  /\ kb.flags = "on"
  /\ ~Pressed("A") /\ Pressed("B")
  /\ kb.input_index = 0

Enters ==
  /\ kb.flags = "on"
  /\ ~Pressed("A") /\ ~Pressed("B") /\ Pressed("Z")

KeyboardCloses == kb' = Moved([kb EXCEPT !.flags = "off"])

KeyboardInit == kb = InitKeyboard([flags |-> "off"])

-----------------------------------------------------------------------------
\* The cursor stands on a key of the layout in use, also after a request
\* changed the layout under it: rows[row][cursor] is always a character
\* (keyboard.c:103).
CursorOnKey == kb.row < kb.row_len /\ kb.cursor < kb.col_len

\* The text and its terminator stay inside the array of the request
\* (keyboard.c:101-108, "pstr lenght + '\0'", keyboard.h:52).
TextFits ==
  kb.flags # "off" =>
    /\ kb.pcallback \in Requests
    /\ kb.input_index < BufferLen[kb.pcallback]
    /\ kb.input_len = InputLen[kb.pcallback]
=============================================================================
