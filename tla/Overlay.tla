------------------------------ MODULE Overlay ------------------------------
(***************************************************************************)
(* Everything the hack shows over the game and controller 2 drives: the    *)
(* memory watch, the menu, the keyboard and the serial terminal.  They     *)
(* share one controller and each other's flags; update_external() runs     *)
(* them one after the other in every frame (logic.c:45-50).                *)
(*                                                                         *)
(* Menu entries are known by what they do to this state; an entry that     *)
(* does nothing to it is "inert" (Savestate models those of the            *)
(* savestates).                                                            *)
(***************************************************************************)
EXTENDS Memwatch, Sequences

CONSTANTS
  Entries,    \* the entries of each menu, in order
  HostAddrs,  \* addresses the host gives: any in the RAM and, for those
              \* elsewhere that the CPU refuses, Null
  Boot        \* the variables init_mem leaves alone, as the ROM fills them

MenuPages == {"main", "other", "move"}

Kinds == {"monitor", "ascii", "clear", "player", "other", "move", "back",
          "init_ed", "inert"}

ASSUME OverlayAssumption ==
  \A p \in MenuPages : Entries[p] \in Seq(Kinds) /\ Entries[p] # <<>>

ASSUME HostAssumption == HostAddrs \subseteq Ram \cup {Null}

ASSUME BootAssumption ==
  Boot \in [menu_toggle : 0..2, pi_on : BOOLEAN, ed_init_done : BOOLEAN]

VARIABLES
  pc,            \* the handler that runs next
  menu_toggle,   \* gpatch.menu_toggle: frames of the start-up flash, up to 2
  menu_open,     \* pmenu.flags & 0x80
  menu_page,     \* the menu pactions belongs to
  menu_cursor,
  pi_on,         \* gpatch.pi.flags & 0x80
  ed_init_done,
  fresh          \* history: the keyboard request was made in this frame

menuVars == <<menu_toggle, menu_open, menu_page, menu_cursor, pi_on, ed_init_done>>
vars == <<padVars, kb, memwatchVars, menuVars, pc, fresh>>

-----------------------------------------------------------------------------
(* update_memwatch                                                         *)

UpdateMemwatch ==
  /\ pc = "memwatch"
  /\ \/ /\ WatchesShown \/ UpdateSelection \/ UpdateViewer
        /\ pc' = "menu"
        /\ fresh' = (kb' # kb)
     \/ /\ WatchesFail
        /\ pc' = "exception"
        /\ UNCHANGED <<memwatchVars, kb, fresh>>
  /\ UNCHANGED <<padVars, menuVars>>

-----------------------------------------------------------------------------
(* update_menu                                                             *)

\* What START leaves of the others: the menu takes the controller.
MenuFlags == IF Pressed("START") THEN {} ELSE mw_flags
MenuKeys  == IF Pressed("START") THEN [kb EXCEPT !.flags = "off"] ELSE kb
Opened    == IF Pressed("START") THEN ~menu_open ELSE menu_open

MenuOrder == <<"A", "B", "UP", "DOWN">>
MenuFires == [b \in Buttons |-> Pressed(b)]
Picks(b)  == First(MenuOrder, MenuFires, b)

Size == Len(Entries[menu_page])

\* Mutant: init_default_menu keeps the cursor of the longer menu.
InitMenuKeepsCursor(name) == menu_page' = name /\ menu_cursor' = menu_cursor

InitMenu(name) == menu_page' = name /\ menu_cursor' = 0

MenuClosed ==
  /\ ~Opened
  /\ menu_open' = FALSE
  /\ mw_flags' = MenuFlags /\ kb' = MenuKeys
  /\ UNCHANGED <<menu_page, menu_cursor, pi_on, ed_init_done, cursor_pos, offset,
                 watch_addrs, watch_index, pinput_addr, ram, mixed, crossed>>

MenuMoves ==
  /\ Opened
  /\ ~Picks("A") /\ ~Picks("B")
  /\ menu_open' = TRUE
  /\ mw_flags' = MenuFlags /\ kb' = MenuKeys
  /\ menu_cursor' = IF Picks("UP") THEN StepBack(menu_cursor, Size)
                    ELSE IF Picks("DOWN") THEN StepOn(menu_cursor, Size)
                    ELSE menu_cursor
  /\ UNCHANGED <<menu_page, pi_on, ed_init_done, cursor_pos, offset, watch_addrs,
                 watch_index, pinput_addr, ram, mixed, crossed>>

\* The entry A selects; B stands for an entry no menu has (BACK_ACTION).
Selected == IF Picks("A") THEN Entries[menu_page][menu_cursor + 1] ELSE "back"

\* Mutant: the memory monitor opens under the menu.
MonitorUnderMenu ==
  /\ Selected \in {"monitor", "ascii"}
  /\ menu_open' = TRUE
  /\ mw_flags' = MenuFlags \cup {"viewer"}
  /\ UNCHANGED <<menu_page, menu_cursor, pi_on, ed_init_done, watch_addrs, watch_index>>

\* Monitor: the viewer's bit is inverted, ascii cleared; ASCII: both inverted.
Monitor ==
  /\ Selected \in {"monitor", "ascii"}
  /\ menu_open' = FALSE
  /\ mw_flags' = IF Selected = "monitor"
       THEN (MenuFlags \cup {"viewer"}) \ ((MenuFlags \cap {"viewer"}) \cup {"ascii"})
       ELSE (MenuFlags \ {"viewer", "ascii"}) \cup ({"viewer", "ascii"} \ MenuFlags)
  /\ UNCHANGED <<menu_page, menu_cursor, pi_on, ed_init_done, watch_addrs, watch_index>>

OpensMenu ==
  /\ Selected \in {"other", "move"}
  /\ menu_open' = TRUE
  /\ InitMenu(Selected)
  /\ mw_flags' = MenuFlags
  /\ UNCHANGED <<pi_on, ed_init_done, watch_addrs, watch_index>>

Back ==
  /\ Selected = "back"
  /\ IF menu_page = "main"
       THEN menu_open' = FALSE /\ menu_cursor' = 0 /\ menu_page' = menu_page
       ELSE menu_open' = TRUE /\ InitMenu("main")
  /\ mw_flags' = MenuFlags
  /\ UNCHANGED <<pi_on, ed_init_done, watch_addrs, watch_index>>

ClearsWatches ==
  /\ Selected = "clear"
  /\ watch_addrs' = ClearAllWatch /\ watch_index' = 0
  /\ menu_open' = TRUE /\ mw_flags' = MenuFlags
  /\ UNCHANGED <<menu_page, menu_cursor, pi_on, ed_init_done>>

TogglesPlayer ==
  /\ Selected = "player"
  /\ pi_on' = ~pi_on
  /\ watch_index' = 0
  /\ IF pi_on' THEN \E addr \in [Watches -> PlayerAddr] :
                      watch_addrs' = PlayerWatches(addr)
     ELSE watch_addrs' = ClearAllWatch
  /\ menu_open' = TRUE /\ mw_flags' = MenuFlags
  /\ UNCHANGED <<menu_page, menu_cursor, ed_init_done>>

OtherEntry ==
  /\ Selected \in {"init_ed", "inert"}
  /\ ed_init_done' = (ed_init_done \/ Selected = "init_ed")
  /\ menu_open' = TRUE /\ mw_flags' = MenuFlags
  /\ UNCHANGED <<menu_page, menu_cursor, pi_on, watch_addrs, watch_index>>

MenuSelects ==
  /\ Opened
  /\ Picks("A") \/ Picks("B")
  /\ \/ Monitor \/ OpensMenu \/ Back \/ ClearsWatches \/ TogglesPlayer \/ OtherEntry
  /\ kb' = MenuKeys
  /\ mixed' = IF Selected = "player" THEN {} ELSE mixed
  /\ UNCHANGED <<cursor_pos, offset, pinput_addr, ram, crossed>>

UpdateMenu ==
  /\ pc = "menu"
  /\ MenuClosed \/ MenuMoves \/ MenuSelects
  /\ pc' = "keyboard"
  /\ UNCHANGED <<padVars, menu_toggle, fresh>>

-----------------------------------------------------------------------------
(* update_keyboard                                                         *)

UpdateKeyboard ==
  /\ pc = "keyboard"
  /\ \/ KeyboardWorks /\ UNCHANGED memwatchVars
     \/ Answered /\ KeyboardCloses
  /\ pc' = "serial"
  /\ UNCHANGED <<padVars, menuVars, fresh>>

-----------------------------------------------------------------------------
(* evd_serial_terminal: at most one command of the host in a frame.        *)

SerialOff == ~ed_init_done /\ UNCHANGED memwatchVars

\* No command, or one that only reads.
SerialQuiet ==
  /\ Rolls
  /\ UNCHANGED <<mw_flags, cursor_pos, offset, watch_addrs, pinput_addr, ram, mixed,
                 crossed>>

\* add_watch leaves lock, value and sign as they were.
Added(w, type, a) == [w EXCEPT !.paddr = a, !.type = type, !.enabled = TRUE]

\* add_watch looks at neither the type nor the address it is given.
SerialAdds ==
  LET i == Rollover(watch_index)
  IN \E type \in ByteWatch..FloatWatch, a \in HostAddrs :
       LET w == Added(watch_addrs[i], type, a)
       IN /\ watch_addrs' = [watch_addrs EXCEPT ![i] = w]
          /\ watch_index' = i + 1
          /\ mixed' = IF Loads(w) THEN mixed \ {i} ELSE mixed \cup {i}
          /\ crossed' = TRUE
          /\ UNCHANGED <<mw_flags, cursor_pos, offset, pinput_addr, ram>>

SerialClears ==
  /\ watch_addrs' = ClearAllWatch /\ watch_index' = 0
  /\ crossed' = TRUE
  /\ UNCHANGED <<mw_flags, cursor_pos, offset, pinput_addr, ram, mixed>>

SerialLocks ==
  /\ Rolls
  /\ \E i \in Watches :
       /\ watch_addrs[i].paddr \in Ram
       /\ watch_addrs' = [watch_addrs EXCEPT
            ![i].lock = ~@,
            ![i].value = SnapshotOf(watch_addrs[i].paddr)]
  /\ UNCHANGED <<mw_flags, cursor_pos, offset, pinput_addr, ram, mixed, crossed>>

SerialPokes ==
  /\ Rolls
  /\ \E a \in Ram, b \in Byte : ram' = [ram EXCEPT ![a] = b]
  /\ UNCHANGED <<mw_flags, cursor_pos, offset, watch_addrs, pinput_addr, mixed, crossed>>

\* set_lock flips the lock before it copies from the watch's address, and a
\* watch that nobody gave one, or the host one elsewhere, has none to copy from.
SerialLocksNowhere ==
  /\ Rolls
  /\ \E i \in Watches :
       /\ watch_addrs[i].paddr = Null
       /\ watch_addrs' = [watch_addrs EXCEPT ![i].lock = ~@]
  /\ UNCHANGED <<mw_flags, cursor_pos, offset, pinput_addr, ram, mixed, crossed>>

\* The commands that end in an exception: a peek, poke or dump of an address
\* the CPU refuses, which is up to the host, or listen over a watch that does
\* not load, also while a selection is open; and the lock.
SerialFails == SerialQuiet \/ SerialLocksNowhere

SerialTerminal ==
  /\ pc = "serial"
  /\ \/ /\ SerialOff
        /\ pc' = "flags"
     \/ /\ ed_init_done
        /\ SerialQuiet \/ SerialAdds \/ SerialClears \/ SerialLocks \/ SerialPokes
        /\ pc' = "flags"
     \/ /\ ed_init_done
        /\ SerialFails
        /\ pc' = "exception"
  /\ UNCHANGED <<padVars, kb, menuVars, fresh>>

-----------------------------------------------------------------------------
(* update_flags flashes the menu in the first two frames; then the frame    *)
(* ends, and the game runs one of its own.                                 *)

UpdateFlags ==
  /\ pc = "flags"
  /\ pc' = "memwatch"
  /\ menu_open' = IF menu_toggle = 2 THEN menu_open ELSE menu_toggle = 0
  /\ menu_toggle' = IF menu_toggle = 2 THEN 2 ELSE menu_toggle + 1
  /\ NextPad
  /\ UNCHANGED <<kb, memwatchVars, menu_page, menu_cursor, pi_on, ed_init_done, fresh>>

\* Three variables are set by nothing.  A console reset copies the hack from
\* the ROM, and what lies behind the code there lands on them (entry.s).
Booted ==
  /\ menu_toggle' = Boot.menu_toggle
  /\ pi_on' = Boot.pi_on
  /\ ed_init_done' = Boot.ed_init_done

\* The intro (CURRENT_MAP is 0xFF), with or without a console reset:
\* init_mem instead of a frame.
Reset ==
  /\ pc = "memwatch"
  /\ menu_open' = FALSE /\ menu_page' = "main" /\ menu_cursor' = 0
  /\ mw_flags' = {} /\ cursor_pos' = 0 /\ offset' = 0
  /\ watch_addrs' = [i \in Watches |-> Blank] /\ watch_index' = 0
  /\ pinput_addr' = Null /\ mixed' = {} /\ crossed' = FALSE
  /\ kb' = InitKeyboard([flags |-> "off"])
  /\ last' = {} /\ held' \in Pads
  /\ Booted \/ UNCHANGED <<menu_toggle, pi_on, ed_init_done>>
  /\ UNCHANGED <<pc, ram, fresh>>

Init ==
  /\ PadInit /\ KeyboardInit /\ MemwatchInit
  /\ pc = "memwatch" /\ menu_open = FALSE
  /\ menu_page = "main" /\ menu_cursor = 0
  /\ menu_toggle = Boot.menu_toggle
  /\ pi_on = Boot.pi_on /\ ed_init_done = Boot.ed_init_done
  /\ fresh = FALSE

Next ==
  \/ UpdateMemwatch \/ UpdateMenu \/ UpdateKeyboard \/ SerialTerminal
  \/ UpdateFlags \/ Reset

Spec == Init /\ [][Next]_vars

-----------------------------------------------------------------------------
TypeOK ==
  /\ PadTypeOK /\ kb \in KeyboardType /\ MemwatchTypeOK
  /\ pc \in {"memwatch", "menu", "keyboard", "serial", "flags", "exception"}
  /\ menu_toggle \in 0..2
  /\ menu_open \in BOOLEAN
  /\ menu_page \in MenuPages
  /\ menu_cursor \in Nat
  /\ pi_on \in BOOLEAN /\ ed_init_done \in BOOLEAN /\ fresh \in BOOLEAN

\* Controller 2 drives one thing at a time: of the menu, the viewer or
\* selection, and the keyboard, at most one is open.  Each has its own flags
\* and is opened and closed by the handlers of the others (menu.c:52-57,
\* mainmenu.c:79-89, memwatch.c:386-409).  The flash of the menu in the
\* first two frames is apart.
OneFocus ==
  menu_toggle = 2 =>
    /\ ~(menu_open /\ mw_flags # {})
    /\ ~(menu_open /\ kb.flags # "off")
    /\ ~(mw_flags # {} /\ kb.flags # "off")

\* The cursor of the menu is on one of its entries, also when a menu of
\* another length takes its place (menu.c:72-85, othermenu.c, objmenu.c):
\* type[cursor] and strings[cursor] are of this menu.
CursorInMenu == menu_cursor < Size

\* Whoever asked for the text is still waiting for it, and a byte that is
\* asked for is a byte of the RAM (memwatch.c:389-409, 415-447).
RequestOwned ==
  kb.flags # "off" =>
    /\ kb.pcallback \in Requests
    /\ kb.pcallback = "byte" => pinput_addr \in Ram

\* Every watch on the list can be loaded at its address, in every frame,
\* unless the address was replaced under its type, or the host asked for an
\* address its type cannot be loaded from, which add_watch lets pass
\* (debug.c:343-344).  The list of types that fit, the rollover and the
\* player's watches never add an address error exception of their own,
\* whatever the host does to the list meanwhile (memwatch.c:187-202, 374-387).
WatchesLoad ==
  \A i \in Watches :
    watch_addrs[i].enabled => Loads(watch_addrs[i]) \/ i \in mixed

\* The press that puts a request on the keyboard never answers it: nothing
\* is entered in that frame ("input request started skip a frame then set
\* to 80", keyboard.h:11).
AnswerNeedsNewPress ==
  [][pc = "keyboard" /\ fresh /\ kb.flags # "off" =>
       kb'.flags = "on" /\ UNCHANGED memwatchVars]_vars

\* A locked watch keeps what it held when it was selected: "take a snapshot
\* of the value as seen when it was selected" (memwatch.c:380-381), "if true
\* value will be locked (overwritten once a frame)" (memwatch.h:30).
LockKeepsSnapshot ==
  [][pc = "memwatch" /\ pc' = "menu" /\ Closed =>
       \A i \in Watches :
         LET w == watch_addrs[i]
         IN w.enabled /\ w.lock =>
              \A k \in 0..Alignment(w.type) - 1 : ram'[w.paddr + k] = w.value[k]]_vars
=============================================================================
