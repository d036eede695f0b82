----------------------------- MODULE SaveSlots -----------------------------
(***************************************************************************)
(* What savestates promise to a runner who stays on the path: every slot   *)
(* keeps one state of one level, a restore brings back exactly the state   *)
(* its slot keeps, and a restore asked for in another level happens, for   *)
(* the slot it was asked for, once that level is up.  There are no memory  *)
(* areas, no timers and no menu here.                                      *)
(***************************************************************************)
CONSTANTS
  Maps,   \* levels
  Data,   \* states a level can be in
  Slots,  \* the user's slots
  Empty,  \* a slot that keeps nothing
  Nobody  \* no restore is waiting

VARIABLES
  turn,    \* who acts: the "user", the resume ("auto"), or the "game"
  level,   \* the level that is up
  live,    \* the state of the level
  store,   \* what each slot keeps
  wanted   \* the slot a waiting restore was asked for

vars == <<turn, level, live, store, wanted>>

States == [map : Maps, data : Data]
Turns  == {"user", "auto", "game"}

Init ==
  /\ turn \in Turns
  /\ level \in Maps
  /\ live \in {c \in States : c.map = level}
  /\ store = [s \in Slots |-> Empty]
  /\ wanted = Nobody

Save(s) ==
  /\ turn = "user"
  /\ store' = [store EXCEPT ![s] = live]
  /\ UNCHANGED <<level, live, wanted>>

\* The state comes back, and nothing is left waiting.
Restore(s) ==
  /\ store[s] # Empty
  /\ store[s].map = level
  /\ live' = store[s]
  /\ wanted' = Nobody
  /\ UNCHANGED <<level, store>>

UserRestores(s) == turn = "user" /\ Restore(s)

UserWants(s) ==
  /\ turn = "user"
  /\ store[s] # Empty
  /\ store[s].map # level
  /\ wanted' = s
  /\ UNCHANGED <<level, live, store>>

\* What happens by itself is the restore that was asked for, or nothing.
Resume ==
  /\ turn = "auto"
  /\ wanted # Nobody
  /\ Restore(wanted)

Pass == UNCHANGED <<level, live, store, wanted>>

\* The game plays, or brings up a level; coming to the intro it forgets the
\* waiting restore, and a console reset forgets the slots.
GameSteps ==
  /\ turn = "game"
  /\ level' \in Maps
  /\ live' \in {c \in States : c.map = level'}
  /\ wanted' \in {wanted, Nobody}
  /\ store' \in {store, [s \in Slots |-> Empty]}

Next ==
  /\ turn' \in Turns
  /\ \/ \E s \in Slots : Save(s) \/ UserRestores(s) \/ UserWants(s)
     \/ Resume
     \/ Pass
     \/ GameSteps

Spec == Init /\ [][Next]_vars
=============================================================================
