------------------------------ MODULE Memwatch ------------------------------
(***************************************************************************)
(* The memory monitor and the permanent watches (memwatch.c): a viewer     *)
(* with a cursor over one page of RAM, the selection that makes a watch of *)
(* the address under the cursor, and the list of watches that is read, and *)
(* written where a watch is locked, in every frame.                        *)
(*                                                                         *)
(* RAM is a row of bytes numbered from MIN_RAM.  Polling every frame       *)
(* (MEMWATCH_POLLING_RATE is 1), the signs of the watches, their names and *)
(* the strings on the screen are abstracted.                               *)
(***************************************************************************)
EXTENDS Keyboard, Integers, FiniteSetsExt

CONSTANTS
  PageBytes,   \* WORDS_PER_PAGE * BYTES_PER_LINE: bytes the viewer shows
  Pages,       \* pages from MIN_RAM to MAX_RAM
  Jump,        \* pages of one step with L or R, 0x100
  ByteValues,  \* values of a byte
  MaxWatch,    \* MAX_WATCH, 10
  PlayerAddr,  \* addresses update_playerinfo puts on the watches
  RamImages    \* contents of the RAM at the start

Ram     == 0..PageBytes * Pages - 1
Null    == -1                   \* paddr before anybody selects
Addr    == 65535                \* cursor_pos: on the address itself
Watches == 0..MaxWatch - 1
Byte    == 0..ByteValues - 1

\* watch_type, in the order of the enumeration
NoWatch    == 0
ByteWatch  == 1
HwordWatch == 2
WordWatch  == 3
FloatWatch == 4
Types      == NoWatch..FloatWatch

ASSUME MemwatchAssumption ==
  /\ {PageBytes, Pages, Jump, ByteValues, MaxWatch} \subseteq Nat \ {0}
  /\ PageBytes > FloatWatch + 1 /\ PageBytes < Addr
  /\ PlayerAddr \subseteq {a \in Ram : a % 4 = 0}
  /\ PlayerAddr # {}
  /\ RamImages \subseteq [Ram -> Byte] /\ RamImages # {}

VARIABLES
  mw_flags,      \* bits 7, 6 and 5: "viewer", "select", "ascii"
  cursor_pos,
  offset,        \* first page shown
  watch_addrs,
  watch_index,
  pinput_addr,   \* the byte a "byte" request will write
  ram,
  mixed,         \* history: watches whose type was not chosen for the
                 \* address they have, or whose address the host gave
                 \* although their type cannot be loaded from it
  crossed        \* history: the serial terminal changed the list since the
                 \* last selection

memwatchVars == <<mw_flags, cursor_pos, offset, watch_addrs, watch_index,
                  pinput_addr, ram, mixed, crossed>>

Watch == [paddr : Ram \cup {Null}, type : Types, enabled : BOOLEAN,
          lock : BOOLEAN, value : [0..3 -> Byte]]

Cursors == 0..PageBytes - 1 \cup {Addr}

Blank == [paddr |-> Null, type |-> NoWatch, enabled |-> FALSE, lock |-> FALSE,
          value |-> [k \in 0..3 |-> 0]]

-----------------------------------------------------------------------------
(* Watches and memory.                                                     *)

InRam(page) == page \in 0..Pages - 1
CurrentAddr(page) == page * PageBytes

\* Past the end of the RAM the bus reads zero.
Load(a) == IF a \in Ram THEN ram[a] ELSE 0

Alignment(type) ==
  IF type \in {WordWatch, FloatWatch} THEN 4
  ELSE IF type = HwordWatch THEN 2 ELSE 1

\* A load the CPU does without an address error exception.
Loads(w) == w.paddr \in Ram /\ w.paddr % Alignment(w.type) = 0

AllLoad == \A i \in Watches : watch_addrs[i].enabled => Loads(watch_addrs[i])

\* Mutant: every type is offered at a half word address.
LastTypeAll(a) == IF a # Null /\ a % 2 # 0 THEN ByteWatch ELSE FloatWatch

\* prepare_watchselect: the last type the list offers for an address.
LastType(a) ==
  IF a = Null \/ a % 4 = 0 THEN FloatWatch
  ELSE IF a % 2 = 0 THEN HwordWatch ELSE ByteWatch

SnapshotOf(a) == [k \in 0..3 |-> Load(a + k)]

\* The bytes a locked watch writes from its value, first at paddr.  The CPU
\* is big-endian: a cast to a narrower type takes the LAST bytes of value.
LockedBytes(w) ==
  IF w.type = WordWatch \/ w.type = FloatWatch
    THEN [k \in 0..3 |-> w.value[k]]
  ELSE IF w.type = HwordWatch THEN [k \in 0..1 |-> w.value[k + 2]]
  ELSE [k \in {0} |-> w.value[3]]

WritesTo(w, a) == w.enabled /\ w.lock /\ a - w.paddr \in DOMAIN LockedBytes(w)

\* prepare_watchaddr takes the watches in order: a later one overwrites.
RamAfterLocks ==
  [a \in Ram |->
     LET writers == {i \in Watches : WritesTo(watch_addrs[i], a)}
         w == watch_addrs[Max(writers)]
     IN IF writers = {} THEN ram[a] ELSE LockedBytes(w)[a - w.paddr]]

Rollover(index) == IF index >= MaxWatch THEN 0 ELSE index

ClearAllWatch ==
  [i \in Watches |-> [watch_addrs[i] EXCEPT !.enabled = FALSE]]

\* update_playerinfo
PlayerWatches(addr) ==
  [i \in Watches |-> [watch_addrs[i] EXCEPT
     !.lock = FALSE, !.type = FloatWatch, !.enabled = TRUE, !.paddr = addr[i]]]

-----------------------------------------------------------------------------
(* update_memwatch with neither viewer nor selection: prepare_watchaddr.   *)

Closed    == mw_flags \cap {"viewer", "select"} = {}
Selecting == "select" \in mw_flags
Viewing   == "viewer" \in mw_flags /\ ~Selecting

Rolls == watch_index' = Rollover(watch_index)

WatchesShown ==
  /\ Closed /\ AllLoad
  /\ Rolls
  /\ ram' = RamAfterLocks
  /\ UNCHANGED <<mw_flags, cursor_pos, offset, watch_addrs, pinput_addr,
                 mixed, crossed, kb>>

\* The exception: a halt of the game, see Overlay.  Nothing reads any more
\* what the locks of earlier watches wrote.
WatchesFail == Closed /\ ~AllLoad

-----------------------------------------------------------------------------
(* update_memwatch during a selection.                                     *)

\* Mutant: the cursor is not clamped to the types offered.
ClampedNot(i) == cursor_pos

Clamped(i) ==
  IF cursor_pos > LastType(watch_addrs[i].paddr) THEN 0 ELSE cursor_pos

SelectFlags ==       \* START during a selection
  IF Pressed("START")
    THEN IF "viewer" \in mw_flags THEN mw_flags \ {"viewer"}
         ELSE mw_flags \cup {"viewer"}
    ELSE mw_flags

\* An else-if chain takes the first button of its order that fires.
First(order, fires, b) ==
  \E n \in DOMAIN order :
    order[n] = b /\ fires[b] /\ \A m \in 1..n - 1 : ~fires[order[m]]

SelectOrder == <<"UP", "DOWN", "A", "Z", "L">>
SelectFires == [b \in Buttons |-> IF b = "A" THEN StillDown(b) ELSE Pressed(b)]
Selects(b)  == First(SelectOrder, SelectFires, b)

SelectMoves ==
  LET c == Clamped(Rollover(watch_index))
  IN /\ Selecting
     /\ ~Selects("A") /\ ~Selects("L")
     /\ Rolls
     /\ mw_flags' = SelectFlags
     /\ cursor_pos' = IF Selects("UP") THEN (IF c = 0 THEN Addr ELSE c - 1)
                      ELSE IF Selects("DOWN") THEN c + 1 ELSE c
     /\ UNCHANGED <<offset, watch_addrs, pinput_addr, ram, mixed, crossed, kb>>

SelectLocks ==
  LET i == Rollover(watch_index)
  IN /\ Selecting
     /\ Selects("L")
     /\ Rolls
     /\ mw_flags' = SelectFlags
     /\ cursor_pos' = Clamped(i)
     /\ watch_addrs' = [watch_addrs EXCEPT ![i].lock = ~@]
     /\ UNCHANGED <<offset, pinput_addr, ram, mixed, crossed, kb>>

\* The type is chosen, and the keyboard asked for the name of the watch.
SelectChooses ==
  LET i == Rollover(watch_index)
      c == Clamped(i)
  IN /\ Selecting
     /\ Selects("A")
     /\ Rolls
     /\ mw_flags' = {}
     /\ cursor_pos' = 0
     /\ watch_addrs' = [watch_addrs EXCEPT ![i].type = c, ![i].enabled = c # NoWatch]
     /\ mixed' = IF crossed THEN mixed \cup {i} ELSE mixed \ {i}
     /\ kb' = IF c = NoWatch THEN kb ELSE RequestOn(kb, "name")
     /\ UNCHANGED <<offset, pinput_addr, ram, crossed>>

UpdateSelection == SelectMoves \/ SelectLocks \/ SelectChooses

-----------------------------------------------------------------------------
(* update_memwatch with the viewer open.                                   *)

\* Mutant: one page too many is taken for RAM.
RepairedLate(page) == IF page \in 0..Pages THEN page ELSE 0

\* prepare_memwatch: an address outside the RAM takes the viewer home.
Repaired(page) == IF InRam(page) THEN page ELSE 0

Shown == Repaired(offset)

ViewerOrder == <<"L", "R", "RIGHT", "LEFT", "UP", "DOWN", "A", "B", "Z">>
ViewerFires == [b \in Buttons |-> IF b \in {"L", "R", "Z"} THEN Down(b)
                                 ELSE IF b \in {"A", "B"} THEN StillDown(b)
                                 ELSE Pressed(b)]
Views(b)    == First(ViewerOrder, ViewerFires, b)

\* The byte under the cursor.
Pointed == CurrentAddr(Shown) + cursor_pos

\* The cursor runs over the page and the address: ..., 63, 0xFFFF, 0, ...
CursorOn   == IF cursor_pos = Addr THEN 0
              ELSE IF cursor_pos + 1 >= PageBytes THEN Addr ELSE cursor_pos + 1
CursorBack == IF cursor_pos = 0 THEN Addr
              ELSE IF cursor_pos = Addr THEN PageBytes - 1 ELSE cursor_pos - 1

ViewerRests ==
  /\ Viewing
  /\ \/ \A n \in DOMAIN ViewerOrder : ~ViewerFires[ViewerOrder[n]]
     \/ Views("B") /\ cursor_pos = Addr
  /\ offset' = Shown
  /\ UNCHANGED <<mw_flags, cursor_pos, watch_addrs, pinput_addr, ram, mixed, kb>>

ViewerPages ==
  /\ Viewing
  /\ \/ Views("L") /\ offset' = Shown + Jump
     \/ Views("R") /\ offset' = Shown - Jump
     \/ Views("UP") /\ cursor_pos = Addr /\ offset' = Shown + 1
     \/ Views("DOWN") /\ cursor_pos = Addr /\ offset' = Shown - 1
  /\ UNCHANGED <<mw_flags, cursor_pos, watch_addrs, pinput_addr, ram, mixed, kb>>

ViewerMoves ==
  /\ Viewing
  /\ \/ Views("RIGHT") /\ cursor_pos' = CursorOn
     \/ Views("LEFT") /\ cursor_pos' = CursorBack
  /\ offset' = Shown
  /\ UNCHANGED <<mw_flags, watch_addrs, pinput_addr, ram, mixed, kb>>

ViewerCounts ==
  /\ Viewing
  /\ cursor_pos # Addr
  /\ \/ Views("UP") /\ ram' = [ram EXCEPT ![Pointed] = (@ + 1) % ByteValues]
     \/ Views("DOWN") /\ ram' = [ram EXCEPT ![Pointed] = (@ - 1) % ByteValues]
  /\ offset' = Shown
  /\ UNCHANGED <<mw_flags, cursor_pos, watch_addrs, pinput_addr, mixed, kb>>

\* The word under the cursor, if it is a pointer into the RAM, is followed.
\* What words of the RAM are pointers is left open.
ViewerFollows ==
  /\ Viewing
  /\ Views("A")
  /\ offset' \in 0..Pages - 1
  /\ UNCHANGED <<mw_flags, cursor_pos, watch_addrs, pinput_addr, ram, mixed, kb>>

\* B: the next watch gets the address and a snapshot of the four bytes there.
ViewerSelects ==
  LET i == Rollover(watch_index)
  IN /\ Viewing
     /\ Views("B") /\ cursor_pos # Addr
     /\ watch_addrs' = [watch_addrs EXCEPT
          ![i].paddr = Pointed, ![i].value = SnapshotOf(Pointed)]
     /\ mw_flags' = {"select"}
     /\ cursor_pos' = 0
     /\ offset' = Shown
     /\ mixed' = IF watch_addrs[i].enabled THEN mixed \cup {i} ELSE mixed
     /\ UNCHANGED <<pinput_addr, ram, kb>>

\* Z: the keyboard is asked for the byte, or for another address.
ViewerAsks ==
  /\ Viewing
  /\ Views("Z")
  /\ mw_flags' = {}
  /\ \/ /\ cursor_pos # Addr
        /\ pinput_addr' = Pointed
        /\ kb' = RequestOn(kb, "byte")
     \/ /\ cursor_pos = Addr
        /\ kb' = RequestOn(kb, "address")
        /\ UNCHANGED pinput_addr
  /\ offset' = Shown
  /\ UNCHANGED <<cursor_pos, watch_addrs, ram, mixed>>

UpdateViewer ==
  /\ \/ ViewerRests \/ ViewerPages \/ ViewerMoves \/ ViewerCounts
     \/ ViewerFollows \/ ViewerSelects \/ ViewerAsks
  /\ Rolls
  /\ crossed' = (crossed /\ ~(Views("B") /\ cursor_pos # Addr))

-----------------------------------------------------------------------------
(* The callbacks of the requests.                                          *)

\* from_hexstr of no text is 0, of a text any byte.
ByteEntered ==
  /\ Enters /\ kb.pcallback = "byte"
  /\ \E b \in (IF kb.input_index = 0 THEN {0} ELSE Byte) :
       ram' = [ram EXCEPT ![pinput_addr] = b]
  /\ UNCHANGED <<mw_flags, cursor_pos, offset, watch_addrs, watch_index,
                 pinput_addr, mixed, crossed>>

\* Only a text of all the digits can be an address in the RAM: any other
\* is dropped.
AddressEntered ==
  /\ Enters /\ kb.pcallback = "address" /\ kb.input_index = kb.input_len - 1
  /\ offset' \in 0..Pages - 1
  /\ cursor_pos' = 0
  /\ UNCHANGED <<mw_flags, watch_addrs, watch_index, pinput_addr, ram, mixed,
                 crossed>>

\* Entered or given up, the watch is kept and the next one comes up.
Named ==
  /\ GivesUp \/ Enters
  /\ kb.pcallback = "name"
  /\ watch_index' = watch_index + 1
  /\ UNCHANGED <<mw_flags, cursor_pos, offset, watch_addrs, pinput_addr, ram,
                 mixed, crossed>>

Dropped ==
  /\ \/ GivesUp /\ kb.pcallback \in {"byte", "address"}
     \/ Enters /\ kb.pcallback = "address"
  /\ UNCHANGED memwatchVars

Answered == ByteEntered \/ AddressEntered \/ Named \/ Dropped

-----------------------------------------------------------------------------
MemwatchInit ==
  /\ mw_flags = {} /\ cursor_pos = 0 /\ offset = 0
  /\ watch_addrs = [i \in Watches |-> Blank]
  /\ watch_index = 0 /\ pinput_addr = Null
  /\ ram \in RamImages
  /\ mixed = {} /\ crossed = FALSE

MemwatchTypeOK ==
  /\ mw_flags \subseteq {"viewer", "select", "ascii"}
  /\ cursor_pos \in Cursors
  /\ offset \in -Jump..Pages + Jump
  /\ watch_addrs \in [Watches -> Watch]
  /\ watch_index \in 0..MaxWatch
  /\ pinput_addr \in Ram \cup {Null}
  /\ ram \in [Ram -> Byte]
  /\ mixed \subseteq Watches
  /\ crossed \in BOOLEAN
=============================================================================
