------------------------------- MODULE MCHack -------------------------------
(***************************************************************************)
(* Small instances of Display, Console and CloneBuffer for TLC.  The three *)
(* share no state; one of them runs, whichever the first state picked.     *)
(* Display runs as one of two, as the list has nothing of the timer but    *)
(* its flag: "timer" draws no more than the digit, "list" moves max        *)
(* between 0 and 1.                                                        *)
(***************************************************************************)
EXTENDS Display, Console, CloneBuffer

VARIABLE machine

hackVars == <<machine, displayVars, consoleVars, cloneVars>>

\* Display: nothing, or a text of one character.
SomeScreens == {[texts |-> n, characters |-> n, syncs |-> 0] : n \in 0..1}

\* Console: four bytes of memory, every text of a few that matter.
Text(a) == HexStr(a, 4)
SomeRam == 128..131
SomeAddresses == {Text(128), Text(129), Text(130)} \cup {SubSeq(Text(129), 1, 7)}
SomeValues ==
  {<<1, Other>>, <<1, 0, 1>>, <<1, 0, 0, 1, 1, 0, 1, 1>>, <<1, 0, 0, 0, 0, 0, 0, 0, 0>>}

\* CloneBuffer: an actor with and without what it points to, a switch with two
\* puzzles in one place, objects of two, three and one byte.
Bank == <<[name |-> "Garib", pdata |-> 9, size |-> 3], [name |-> "Level", pdata |-> 12, size |-> 1],
          [name |-> "Uniq", pdata |-> NULL, size |-> 2], [name |-> "Instruct", pdata |-> 12, size |-> 1]>>
SomeLevels ==
  {[actors   |-> SubSeq(<<[at |-> 1, pproperties |-> NULL, pcollision |-> 3],
                          [at |-> 5, pproperties |-> 3, pcollision |-> NULL]>>, 1, n),
    switches |-> <<[at |-> 7, ppuzzle1 |-> 5, ppuzzle2 |-> q, pcond1 |-> NULL, pcond2 |-> 3]>>,
    bank     |-> SubSeq(Bank, m, 4),
    camera   |-> 14] : <<n, q, m>> \in {<<1, NULL, 3>>, <<2, 5, 1>>}}
SomeNames == {"Garib", "Level", "Uniq", "Instruct"}
SomeLevelRam == 1..15
SomeContents == {[a \in 1..15 |-> (a + k) % 4] : k \in {0, 1}}

\* Where the machine that does not run stands still.
One == CHOOSE s \in Levels \X Contents \X RngValues : TRUE

HackInit ==
  /\ machine \in {"timer", "list", "console", "clone"}
  /\ DisplayInit /\ ConsoleInit /\ CloneInit
  /\ machine = "list" \/ pbuffer = 0
  /\ machine = "clone" \/ <<level, level_ram, rng>> = One

\* What bounds the two instances of Display.
OnlyDigit ==
  /\ pevd_msg' = 0
  /\ turn = "render" =>
       rdp_end_next' - rdp_start_next' = IF enable THEN Digit ELSE 0
SmallMax == max' \in 0..1

Displays(A) ==
  /\ A
  /\ \/ machine = "timer" /\ OnlyDigit
     \/ machine = "list" /\ SmallMax
  /\ UNCHANGED <<machine, consoleVars, cloneVars>>
Consoles == machine = "console" /\ ConsoleNext /\ UNCHANGED <<machine, displayVars, cloneVars>>
Clones == machine = "clone" /\ CloneNext /\ UNCHANGED <<machine, displayVars, consoleVars>>

HackNext == Displays(DisplayNext) \/ Consoles \/ Clones

HackSpec ==
  HackInit /\ [][HackNext]_hackVars
    /\ WF_hackVars(Displays(Logic)) /\ WF_hackVars(Displays(Draw))
=============================================================================
