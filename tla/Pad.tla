-------------------------------- MODULE Pad --------------------------------
(***************************************************************************)
(* Controller 2 as the handlers of one frame see it (inputs.c): the        *)
(* buttons down now, and the ones that were down when the last frame was   *)
(* left (LAST_INPUT_2).  All handlers of a frame read the same two words.  *)
(***************************************************************************)
CONSTANT
  Pads        \* the sets of buttons that may be down together

Buttons == {"START", "A", "B", "Z", "L", "R", "UP", "DOWN", "LEFT", "RIGHT",
            "CU", "CD"}

ASSUME PadAssumption == {} \in Pads /\ Pads \subseteq SUBSET Buttons

VARIABLES
  held,       \* CONTROLLER_2
  last        \* LAST_INPUT_2

padVars == <<held, last>>

Down(button)      == button \in held
Pressed(button)   == button \in held \ last     \* went down in this frame
StillDown(button) == button \in held \cap last  \* second frame or later

PadTypeOK == held \in Pads /\ last \in Pads
PadInit   == held = {} /\ last = {}

\* The hack is done with the frame: store_inputs, then the game runs and the
\* next frame reads another pad.
NextPad == last' = held /\ held' \in Pads
=============================================================================
