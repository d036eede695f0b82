----------------------------- MODULE MCOverlay -----------------------------
(* Small instances of Overlay for TLC. *)
EXTENDS Overlay, TLC

Press(buttons) == {{}} \cup {{b} : b \in buttons}

\* The viewer's buttons, and START in the frame of a request.
ViewerPads == Press({"START", "A", "Z", "L", "R", "UP", "LEFT", "RIGHT"})
               \cup {{"START", "Z"}}
WatchPads  == Press({"START", "A", "B", "L", "DOWN"})
LockPads   == Press({"A", "B", "L", "DOWN", "RIGHT"})

\* The second menu is shorter than the place of the entry that opens it.
WatchEntries == [main |-> <<"ascii", "player", "other">>,
                 other |-> <<"init_ed">>, move |-> <<"back">>]
ViewerEntries == [main |-> <<"monitor", "clear">>, other |-> <<"back">>,
                  move |-> <<"back">>]
MonitorOnly == [main |-> <<"monitor">>, other |-> <<"back">>, move |-> <<"back">>]

\* A byte, a half word and elsewhere; words come from the player's watches.
SomeHostAddrs == {Null, 1, 2}

\* The ROM behind the code is all zeros, or all ones.
ZerosBehind == [menu_toggle |-> 0, pi_on |-> FALSE, ed_init_done |-> FALSE]
OnesBehind  == [menu_toggle |-> 2, pi_on |-> TRUE, ed_init_done |-> TRUE]

ShortInput == [byte |-> 2, address |-> 3, name |-> 2]
Buffers    == [byte |-> 2, address |-> 3, name |-> 3]
NoInput    == [byte |-> 1, address |-> 1, name |-> 1]
Zeros6     == {[a \in 0..5 |-> 0]}
Zeros12    == {[a \in 0..11 |-> 0]}
OneSet     == {[a \in 0..7 |-> IF a = 0 THEN 1 ELSE 0]}
=============================================================================
