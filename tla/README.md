# A specification of the glover_patch practice hack

glover_patch adds a practice overlay to the N64 game Glover: savestates kept
in the expansion RAM, a memory monitor with permanent watches, frame advance,
a level and cheat menu, an on-screen keyboard and a serial terminal over a USB
flash cartridge. The hack is C code copied from the ROM to 0x80400000 and
called by hooks in the game; a host program (`tools/serialterm`) talks to it.

This directory holds TLA+ modules of its core, TLC configurations that check
them on small instances, and theorems that TLAPS proves for every value of the
constants. All paths below are relative to the repository; C files without a
directory are in `src/`. `PROJECT.json` has, for every definition, the lines
it models (`map`), and the hazards, runs, mutants, findings and theorems.

1. [The system](#1-the-system)
2. [How the code runs](#2-how-the-code-runs)
3. [Modules](#3-modules)
4. [Runs](#4-runs)
5. [Fairness](#5-fairness)
6. [Proofs](#6-proofs)
7. [Findings](#7-findings)
8. [What is not modelled](#8-what-is-not-modelled)
9. [Plan](#9-plan)

## 1. The system

| Component | State it keeps | Operations | What makes it correct |
|---|---|---|---|
| Savestates (`logic.c` 404-642) | areas of the expansion RAM, `lastmap[]`, `gpatch.restore_slot`, `resume_restore`, `resume_timer` | clone actors / object bank, restore now, restore after loading the level, resume | a backup is copied back only into its own level; a slot is not damaged by a save to another; an interrupted restore happens, once, for the slot it was asked for |
| Menus (`menu.c`, `mainmenu.c`, `othermenu.c`, `objmenu.c`) | `pmenu`: open bit, page, cursor, entries | open/close, move, select, back, change of page | one overlay has the controller; the cursor is on an entry of the menu in use |
| Memory monitor and watches (`memwatch.c`) | `pmemwatch`: flags, cursor, page, watches, index | view, page, count, follow, select, lock, name | what is shown or edited is RAM; a watch can be loaded with its type; a lock keeps the snapshot |
| On-screen keyboard (`keyboard.c`) | `pkb`: layout, cursor, text, request, callback | request, type, erase, give up, enter | cursor on a key; text inside its array; request answered by a later press, to whoever asked |
| Player info (`playerinfo.c`) | one flag, and watches of the monitor | toggle | its watches are addresses a float can be loaded from |
| Serial terminal (`debug.c`) and host (`tools/serialterm`) | blocks in both directions | send, read, answer, give up, flush | commands read whole; answers in order; the game is never held up |
| Frame advance (`logic.c` 159-176, 306-331) | `gpatch.frame_advance`, last inputs | stop, one frame, run on | one press, one effect; the loop answers the user |
| Inputs (`inputs.c`) | last inputs of two pads | pressed / held / stored | a press is seen once |
| Timer and messages (`logic.c` 40-59, 210-288, `frametimer.c`, `task.c`) | timer flags and counts, one message and its time | run, toggle, restart at a fade, notify | the player is told; a message stays its time; a fade restarts the timer, which then runs; the digit of the frame timer keeps its beat |
| Position store, cheats and toggles (`logic.c`, `othermenu.c`) | three floats and a camera; game variables | store, restore, lock, toggle | a locked position does not drift |
| Start and initialisation (`main.c`, `memory.c`, `entry.s`) | all of the above | copy from ROM, `init_mem` in the intro | nothing starts from what was left behind |
| Rendering and display list (`render.c`, `rdp.c`) | a pointer into a buffer, the list sent next | append, start again, send | no list grows into the savestates, or over the one being read |
| Strings and numbers (`utility.c`) | none | hex, decimal, float, compare | the text is the number |
| fla2dec (`tools/fla2dec`) | a ring of 4096 bytes | decompress | the inverse of the format |
| ROM patcher (`glovepatch.py`), web patcher (`web/*.js`) | the image, settings | patch, checksum, download | a run patches the file it was started with, in the machine's byte order, and ends |
| Matrices, font, build files, asset scripts, tests | none | - | - |

The components interact through shared state and calls, never by messages,
apart from the serial link:

- the menu's entries call the savestates, the monitor, the player info and the
  serial terminal's initialisation, and open and close the monitor and
  themselves;
- the monitor puts requests on the keyboard and is called back; the keyboard
  is shared and a request carries its own function;
- every one of the four overlays clears flags of the others;
- the player info and the host's commands write the list of watches the
  selection on the screen is working on;
- savestates depend on the game: LOAD_MAP, CURRENT_MAP, the fade, the actors.

The behaviours that are hard to test are listed with their lines as `hazards`:
orders of handlers over several frames, a restore that spans a level change,
the pad changing between two reads of a loop, the index shared with the host,
areas without bounds, a link without framing, one message line for many
speakers, a list drawn while another is read, clicks that overlap at their
awaits, start from uninitialised memory.

## 2. How the code runs

The hack is one thread. `payload.s` calls `__start` once for the logic and
once for the drawing of a game frame; `logic()` calls, in this order,
`update_memwatch`, `update_menu`, `update_keyboard`, `evd_serial_terminal`
(`update_external`), then message, flags, inputs, timer and frame advance. A
step of the models is one such handler, whole, with a program counter for the
order, so a behaviour is a sequence of frames and between two frames the game
does anything it may do. There are five places where finer steps matter, and
there the models have them:

- frame advance spins inside the hack while the game's other threads go on
  polling the pads: in `FrameAdvance` each read of the pad is a step;
- host and hack run at their own pace: in `SerialLink` each block is a step;
- a restore in another level lasts many frames: in `Savestate` any number of
  frames pass between asking and resuming;
- the RDP reads the list of the frame before while a frame is drawn: in
  `Display` sending and drawing are one step, and `sent` is what may be read
  until the next;
- the web patcher is a page with one thread and many waits: in `WebPatcher`
  what happens between two awaits is a step.

The order of `logic()` itself, menu, message, flags, timer, pad, drawing, is
in `Logic`, where each of its routines is a step.

In the intro (CURRENT_MAP is 0xFF) `__start` runs `init_mem` instead of a
frame. A console reset gets there too, and before it `entry.s` copies 128 KiB
of the ROM to 0x80400000: the code, and behind it whatever the ROM holds
there, which lands on `.bss`. `init_gpatch` says "zero all ram" but clears the
size of a pointer, so what `init_mem` does not assign starts with those bytes:
`lastmap[]` (`Wiped` in `Savestate`), the flash counter, the player's flag and
`ed_init_done` (`Booted` in `Overlay`). The backup areas at 0x80600000 are not
touched by either.

## 3. Modules

    Savestate            savestates, resume, slot in the menu, the game's levels
      SaveSlots          what savestates promise (abstract)
      CarefulSavestate   Savestate under a careful user; refines SaveSlots
      SavestateProofs    MCSavestate      MCCarefulSavestate
    Pad                  controller 2 as sets of buttons
      Keyboard           the keyboard and its requests
        Memwatch         monitor, selection, watches
          Overlay        the handlers of a frame, composed with menu and host
            OverlayProofs    MCOverlay
      FrameAdvance       the loop that stops the game
        FrameAdvanceProofs   MCFrameAdvance
    Powers               gpow
      Numbers            the conversions of utility.c
        NumbersProofs    recursion over the naturals; digits and bytes
        Timer            the practice timer and the message line
          Logic          one frame of logic(), with menu, pad and position
            LogicProofs      MCLogic
        Console          peek and poke: texts, numbers and bytes
      CloneBuffer        a backup, record by record and byte by byte
    Display              the display list and the frame timer
      HackProofs         Display, Console and CloneBuffer
      MCHack             instances of the three
    SerialLink           host, link and terminal
      SerialProofs       MCSerialLink
    PatchJobs            what the web patcher promises (abstract)
    WebPatcher           its runs and the page; refines PatchJobs
      WebProofs          MCWebPatcher

**Savestate.** `pc` is the phase of the frame: menu, flags (resume),
controller 1's save, its restore, the game. `heap` is the row of backup areas:
content and length in words of what was cloned there; `Clobbers` is what a
clone of some length does to the areas before and behind it, because the code
writes first and looks at the length afterwards. A content is a level and a
state of it, or `Garbage`. `Copied` is what a restore makes of the level: a
backup is a list of addresses and bytes, so in any other level than its own it
destroys what is there. `restore_slot` is a u16 that the menu steps before it
masks it: `Above` and `Below` wrap, and the pad uses the slot unmasked, so
65535 (one area below the first) and the object bank's area can be saved to.
`asked` and `disturbed` record, for the properties only, which restore is
waiting and whether anybody crossed it; `recorded` which areas were cloned
since `lastmap[]` was last overwritten. What the game does (levels left and
loaded, fades) is external, modelled from what the code reads and calls. Level
ids in `lastmap[]` at the start are taken from `Maps`; a byte that is no level
would make a restore from a slot never saved ask for a level the game lacks.

**SaveSlots** has slots, levels and turns, no areas, timers or menu: a save
stores the state in one slot, a restore brings back exactly that state, a
restore asked for in another level waits and is the only thing that happens by
itself. **CarefulSavestate** restricts Savestate's steps to a careful user (no
stepping past the ends of the slots or to another slot while a restore waits,
no load of an empty slot, no object bank) and maps it: `Kept` is what whole
slots hold, `Waiting` the selected slot while `resume_restore` is set, `Turn`
the phase.

**Pad, Keyboard, Memwatch, Overlay.** A pad is the set of buttons that are
down; `Pressed`, `StillDown` and `Down` are the three tests of `inputs.c`. All
handlers of a frame read the same pad in `Overlay`: it changes only when a
frame ends. The else-if chains of the handlers are sequences of buttons
(`First`): the first that fires is taken. A menu is the sequence of its
entries' kinds; an entry that only writes a game variable is `inert`. The
typed text is its length. RAM is a short row of bytes; which words are
pointers is left open. The serial terminal appears as the commands that change
watches or memory, between the keyboard and the end of the frame; `HostAddrs`
are the addresses it gives, any in RAM and, for those elsewhere that the CPU
refuses, `Null` (one elsewhere that a device answers is not asked for).
`exception` is what a load the CPU refuses raises, of a watch, in the frame or
for `listen`, of a peek, poke or dump, or of `lock` on a watch without an
address: nothing follows it. `mixed` records which watches have an address
that was replaced under their type, or that the host gave although the type
cannot be loaded from it; `crossed`, that the host changed the list during a
selection. `Boot` is what the ROM holds behind the code.

**FrameAdvance.** `at` is the next read or write. `Poll` changes the pad at
any point. `freed` records which buttons were up since they last had an effect
and `heard` which presses the handlers have seen.

**SerialLink.** A command and an answer are two blocks of 512 bytes, the
answer to `listen` many. Every transfer can give up when the other end keeps
it waiting; the host waits 100 ms and reads once. `split` and `early` record
that some transfer was cut, or that the host read before the hack was done.

**Numbers, Timer, Logic.** A text is a sequence of characters, digits as their
values; the bases, the word's width and the timer's units are parameters.
`routine` in `Logic` is what `logic()` calls next. `Notify` is the one message
line: `said` records what the menu or the pad told the player in this frame,
`drawn` how often the line was drawn. `UpdateTimer` is the whole routine: the
restart a fade asks for (`reset_now`), the game's own timer, counting, and the
message it sets in every frame. Glover's place and the camera are one value;
what a restore of a savestate does to it is any place. Nothing of the timer but
`use_igt` is set by `init_gpatch`, so `Behind` is what the ROM holds there.
`MaxFrames` bounds the count.

**Display.** Sizes are in commands of eight words. A frame is the number of
texts, of characters and of the keyboard's syncs it draws (`Screens`), and the
length of the host's text (`pevd_msg`, put there by `IPrint`), nothing else of
it. `Render`
sends the list of the frame before, starts again at the buffer's beginning if
the pointer is past its end, and appends. `drawn_in` and `sent` are histories:
which frame wrote a unit, and what the RDP may be reading. In the code the
buffer is 24576 such units and 2838 lie between its end and the first area.
Without a text of the host all screens together show at most some 1200
characters, about 2460 units; a text of the host is up to 1017 characters
(`COMMAND_SIZE` less the command's own seven), 2035 units more. That is what
`DisplayAssumption` asks: the largest frame without a text of the host fits
behind the end, and the largest with one, some 4500 units, twice into the
buffer. It does not ask that a text fits behind the end, since a long one
beside a menu and ten watches does not; `FitsBehind` says of a text whether it
does. That a command behind the end is read correctly is the console's matter.

**Console.** The host's peek and poke: addresses and values are texts, read by
`FromHexStr` with the place its argument `len` gives the first digit, whatever
the text's own length; memory is bytes, the upper one first. Which digits the
host meant for each byte is `told`. An address outside of memory is not asked
for.

**CloneBuffer.** `Savestate` says when a backup is taken, restored or damaged,
this module what its bytes are: `CloneParts` is the list of records
`clone_actors` makes of actors, switches and bank objects with what they point
to, `Record` a header and the whole words of an object, `Pointers` where
`restore_actors` finds the records again, knowing none of this. The lists of
the game are not empty, as the code's loops look at the first entry before
they test. Restoring an area that was never written is `Savestate`'s.

**WebPatcher, PatchJobs.** One entry of `pc`, `content`, `order`, `release`
and `fetched` per click is one run with its local variables; `picked`, `boxes`
and `settings` are shared. A file is which of the known images it is, its byte
order, what its name says and whether it is too large. `TooLarge`,
`BadChecksum` and `GoodChecksum` look at the file that is picked when the
reader answers, as `onStart` does, while the bytes are those it was started
with. `PatchJobs` knows clicks, jobs and images only.

## 4. Runs

| Run | Configuration | Checks | Distinct states |
|---|---|---|---|
| savestate | `MCSavestate.cfg` | `TypeOK`, `LastmapAgrees`, `LevelStaysWhole`, `MenuSlotInRange`, `SaveTouchesOneSlot` | 6.8 million |
| careful | `MCCarefulSavestate.cfg` | `CarefulInv`, `KeepsPromises`, `RestoreServed` | 1.0 million |
| resumes_asked | `MCResumesAsked.cfg` | `ResumesAsked` is violated | |
| stored_fits | `MCStoredFits.cfg` | `StoredFits` is violated | |
| overlay_viewer | `MCOverlayViewer.cfg` | `OneFocus`, `CursorOnKey`, `TextFits`, `RequestOwned`, `AnswerNeedsNewPress` | 7.9 million |
| overlay_watches | `MCOverlayWatches.cfg` | `TypeOK`, `CursorInMenu`, `WatchesLoad` | 10.7 million |
| lock_snapshot | `MCLockSnapshot.cfg` | `LockKeepsSnapshot` is violated | |
| frame_advance | `MCFrameAdvance.cfg` | `OneFramePerPress`, `OneTogglePerPress`, `PressHeardOnce`, `SpinAnswers` | 3 062 |
| serial_link | `MCSerialLink.cfg` | `AnswersInOrder`, `CommandsWhole`, `ReplyIsAnswer`, `GameGoesOn` | 0.1 million |
| logic | `MCLogic.cfg` | `TypeOK`, `PlayerIsTold`, `DrawnItsTime`, `LockHolds`, `TextIsCount`, `RestartRuns`, `RestartServed` | 0.3 million |
| hack | `MCHack.cfg` | `ListWhole`, `BelowAreas`, `Beats`, `KeepsBeating`; `PeeksTell`; `RestoreBringsBack`, `RestoreTouchesOnly` | 0.3 million |
| web_patcher | `MCWebPatcher.cfg` | `KeepsJobs`, `RunsEnd` | 0.2 million |

Every property of a passing run is broken by a mutant: a definition of the
model changed as a plausible bug in the code would change it (`PROJECT.json`,
`mutants`). The type invariants of `FrameAdvance`, `SerialLink`,
`WebPatcher` and `Display`, and `NativeOrder`, are proved and in no run.

**savestate.** Two user slots and the object bank, two levels, u16 shrunk to
six values, resume delay 0, areas of two words. Two slots show one damaging
the other and a slot changed under a waiting restore; six values hold the two
slots, the bank, a hole and the value one below zero; a delay of 0 still takes
two frames, as the code counts past the delay before it resumes. Clones of a
level fit; the object bank's (5 words) is longer than two areas, which is what
the code relies on nothing following. Levels and contents are symmetric. `VIEW
NoHistory` takes states that differ only in `asked` and `disturbed` as one: no
action reads these to change anything else and no property of this run but
`TypeOK` names them, and `TypeOK` is proved.

**careful.** `SaveSlots` is a PROPERTY under the refinement mapping; two
contents of each level tell a right restore from another one. `CarefulInv` is
the inductive invariant of the proof. `RestoreServed` is liveness, checked
under the fairness of the game's own part; one slot is enough because a second
one enters it only as a crossing.

**overlay_viewer.** Every button of the viewer and START with the button that
makes a request; menus that open the monitor, clear the watches and go back.
Two pages, so that one step of L, R or the address leaves the RAM at both ends;
requests of different lengths and layouts of two sizes. Zeros behind the code:
the flash of the menu in the first two frames is in this run.
**overlay_watches.** Six bytes: addresses of every alignment and a word that
ends past the RAM; menus of three, one and one entries, the second opened from
a place the first does not have, so that the cursor is out of range if it is
not reset; entries for the player's watches and the terminal; ones behind the
code, so the terminal runs from the first frame. One watch, so the rollover
happens at every second use. The host gives an odd address, one of a half word
and none in RAM, each for any type, so some load and some do not; those of
words come from the player's watches and from selections. **lock_snapshot.**
One watch, one byte set.

**frame_advance.** The pad shows any combination of C-up, C-down and a button
of a handler. **serial_link.** Four commands, three blocks in the adapter,
four blocks for `listen`: more than the host reads at once, and more than the
adapter holds.

**logic.** Base 2, a word of five digits, three frames to the second and three
seconds to the minute, and a count of ten, so the text passes through every
carry; times of three and two frames, so the timer's message is longer than
others; two places. **hack.** Three machines that share no state; the first
state picks which one runs, since a product of them would check nothing more.
Display: a buffer of eighteen units, a slack of six, frames of nothing or one
character, the digit and a text of one character by the host, which does not
fit the slack beside the others, so some frames do run into the savestates;
half words of eight values and bytes of two, so max passes zero, multiples of
the byte and the greatest half word. It runs as one of two, since the list has
nothing of the timer but its flag: with every max and frames of no more than
the digit, or with all frames and a max of zero or one. Console: four bytes,
aligned and odd addresses, one address of too few digits, values of too few,
enough and too many digits and one that is not a number. CloneBuffer: a level
with two actors, NULL pointers, shared objects, objects of one, two and three
bytes over words of two, and another level, so that a restore meets changed
lists. **web_patcher.** Two clicks that may overlap, a known image, a swapped
dump with its right name, and a large file that is neither.

Deadlock is checked in the savestate, frame advance, logic, hack and
web_patcher runs. In the Overlay runs the address error stops the system; on
the link the host stops after `MaxSent` commands, a bound of the model.

## 5. Fairness

- `FairCarefulSpec`: weak fairness of each phase, because the hook calls the
  hack in every frame and the game goes on; strong fairness of `GameLoads` and
  `GameFadeEnds`, because a level that was asked for does come up and a fade
  ends, although the game does other things in between. No fairness for the
  user.
- `FrameAdvance`: weak fairness of `Hack` only. The processor executes the
  loop; nobody has to touch the pad, and nothing is assumed of the game.
- `SerialLink`: weak fairness of delivery and of the terminal, which includes
  its time-outs: the hack's counters run. The host need not type or read.
- `Logic`: weak fairness of `Next`, because frames go on; strong fairness of
  the timer's step with the controls on, because the game gives them back
  after every load. A player may toggle and press forever.
- `Display`, in `HackSpec`: weak fairness of logic and of drawing, which take
  turns.
- `WebPatcher`: weak fairness of each run, because the browser settles every
  read and every request, well or badly. None for the user.
- `Overlay`, `Savestate`, `Console` and `CloneBuffer` state no liveness and
  have no fairness.

## 6. Proofs

| Theorem | Says | Invariant used |
|---|---|---|
| `TypeCorrect` | `Spec => []TypeOK` (Savestate) | itself |
| `LastmapCorrect` | the recorded level is the level of every whole backup | `LevelInv` |
| `LevelsStayWhole` | no restore from a whole slot destroys the level | `LevelInv` |
| `MenuSlotsInRange` | the main menu works on a user's slot | `TypeOK` |
| `SavesTouchOneSlot` | if levels fit, a save touches no other slot | `FitInv` |
| `CarefulAlways`, `CarefulImplements` | `CarefulInv` holds, and `CarefulSpec` implements `SaveSlots`, if levels fit | `CarefulInv` |
| `RestoreStaysArmed` | nothing loses a restore that waits, unless it is crossed | `WaitInv` |
| `ResumesUncrossed` | a resume nobody crossed is of the slot that was asked for | `WaitInv` |
| `StoredButOneWord` | a backup announced as stored damages at most one word behind its area | `TypeOK` |
| `KeysInRange` | the keyboard's cursor is on a key, for all layouts | `KeyOK` |
| `TextsFit` | the text is inside its array, for all request lengths that fit | `KeyOK` |
| `OneController` | at most one overlay has the controller | `KeyOK`, `FocusInv` |
| `OverlayTypes` | `Spec => []TypeOK` (Overlay) | `MemoryType`, `MenuType`, `RestType` |
| `RequestsOwned` | a byte asked for is a byte of the RAM | `MemoryType`, `ByteOwned` |
| `CursorsInMenus` | the menu's cursor is on an entry, for all menus | `MenuType` |
| `WatchesAlwaysLoad` | no watch raises an address error, but for an address replaced under its type or got wrong by the host | `LoadInv` |
| `AnswersNeedPress` | the press that asks does not answer | `FreshAsked` |
| `WordLocksKeep` | the lock of a watch of four bytes gives them its snapshot | `MemoryType` |
| `LogicTypes`, `PlayersAreTold`, `MessagesTimed`, `LocksHold`, `RestartsRun` | the properties of `Logic` without liveness | `FlagType`, `SaidOK`, `TimedOK`, `LockOK` |
| `TextsAreCounts` | the timer's text, read back, is its count | the types of `Logic` |
| `DisplayTypes`, `ListsWhole`, `StaysBelowAreas`, `BeatsAlways` | the safety properties of `Display` | `DisplayInv` |
| `AreaHoldsBackup`, `BackupComesBack` | every byte of every object comes back with a restore, but for those of an incomplete word | `CloneInv` |
| `NothingElseWritten` | a restore writes into the objects of its backup only | `CloneInv` |
| `PeeksAnswer` | a peek, signed peek or peek of a float prints what the host has poked there, in whatever sizes | `ConsoleInv` |
| `HexReadsBack` | `from_hexstr` reads what `to_hexstr` prints, for all sizes and values | none |
| `LinkTypes`, `AnswersOrdered`, `CommandsStayWhole` | the link's types, order and framing | `BlockType`, `LinkOrder`, `Whole` |
| `RepliesAreAnswers` | a host that always waited is shown the answer to its last command | `OneExchange` |
| `TerminalWindsDown` | a frame takes at most `ListenBlocks + 1` steps of the terminal | the types of the link |
| `WebTypes`, `NativeAlways`, `PatcherKeepsJobs` | types and byte order; `WebPatcher` implements `PatchJobs` | `RunType`, `PageType` and the clicks behind the settings |
| `RunsWindDown` | a run takes at most five steps, and none but its own count | `RunType` |
| `TypesCorrect`, `OneFrame`, `OneToggle`, `HeardOnce` | the frame advance properties of the same names | `PressInv` |

They hold for any number of slots, levels, contents, area and clone sizes, any
menus, RAM, layouts, ROM contents and button combinations, times, buffers and
screens, lists of objects and areas, values and texts of the host, commands
and blocks, files and clicks that satisfy the named ASSUMEs, which are those
of the code's constants; TLC evaluates them in the runs. Two of these say what
widths the conversions have: `CountAssumption`, that a count of the timer is a
word and its parts are not negative as an int; `ConsoleAssumption`, that a
word has eight digits of an even base and that memory is whole words.
`SavesTouchOneSlot` and `CarefulImplements` also assume `Fits`: every level
fits its area, which the code checks only after the fact (the two runs of
`StoredFits` are about the rest).

Why the invariants are what they are:

- `LevelInv`. `restore_actors` compares `lastmap[slot]` with the level that is
  up. This protects the level only if `lastmap[]` tells the truth about every
  whole backup (`LastmapAgrees`), and a clone keeps that true only if the
  actors in memory are of the level that is up (`LiveAgrees`). Neither is
  inductive alone.
- `FitInv` adds to the types that no user's slot holds more than an area.
  Without it a clone one area below the first slot, or into the bank, could
  take the tail of a backup (`NoClobber`).
- `CarefulInv` says that the selected slot is a user's, that the level is
  whole, and that a waiting restore is of a whole slot. The refinement maps
  each phase to a turn: saves, restores and wishes of the user, the resume, or
  nothing.
- `WaitInv`: a restore waits in two places, the slot that is selected and the
  level that was asked of the game. `WaitOK` ties both to the slot it was asked
  for, for as long as `disturbed` is false: the level recorded for it is still
  to come, or is the one that is up. What may cross it is then exactly what the
  run resumes_asked needs.
- `KeyOK` keeps the cursor inside the layout also while the keyboard is off,
  and while it is on ties the length asked for and the text to the request,
  whose assignment does not touch every field.
- `FocusInv` needs more than `OneFocus`: between two handlers of one frame a
  flag may be set that the menu's handler would clear, and the flash of the
  menu in the first two frames opens it beside the monitor; so it says, for
  each value of the flash counter and each handler, what may be open and which
  button must then be down.
- `PressInv` ties `frame_advance` and the place in the loop to `freed`:
  whenever a button could have an effect it was up since the last one.

- `MemoryType` carries that `watch_index` is a watch behind the monitor's
  handler although it may be `MaxWatch` before, and `ByteOwned` that the
  address of a byte request, which the monitor forgets only when it is
  answered, is RAM whatever the host did to the list since.
- `LoadInv` adds to `WatchesLoad` that a selection in progress has an address
  in RAM unless the host changed the list (`crossed`): then the type chosen may
  land on the host's watch. An address the host got wrong is recorded in
  `mixed` when `add_watch` takes it and until a type is chosen for another. The
  player's watches may be written over one another at the rollover; the last
  writer decides, and exists by well-foundedness.
- `FreshAsked` follows the request from the monitor to the keyboard in the same
  frame: until the keyboard's handler the request is only "asked".
- `LockOK` says where Glover is between `update_flags` and the pad, the order
  `LockHolds` depends on; `TimedOK` relates what is left of a message's time
  to how often it was drawn, for each place in the frame; `SaidOK` does the
  same for who spoke last.
- `DisplayInv`: the list fits twice into the buffer, also with the host's
  longest text, so a frame that starts again cannot reach the list being read.
  `BelowAreas` follows for one frame at a time: the list begins in the buffer,
  since the pointer is looked at once, and the slack holds all of a frame whose
  text, if there is one, fits (`FitsBehind`). Where the pointer was left by an
  earlier frame does not matter. `BeatOK` ties the ticks to the updates
  since the digit changed.
- `LinkOrder`: what is on the way is ordered, and every answer written or
  waiting belongs to a command before any whose first block is still to come;
  a lost or left half can only be answered by nothing. `Whole`: until
  something is taken apart, what is being read, held and on the way is a row of
  whole commands. `OneExchange`: while the host has always waited, nothing of an
  earlier command is anywhere on the link when the next one is sent, so
  everything there belongs to the last.
- `CloneInv`: once a backup was taken, the area holds its records one behind
  the other up to the end mark, each a header and the words of an object
  (`Written`), whatever the level has become since. `restore_actors` knows only
  the headers; it arrives at the records it needs because none of them
  begins at NULL.
- `ConsoleInv`: a byte whose digits the host knows is that number (`MemoryOK`).
  A poke of one, two or four bytes keeps it because the digits of a number in a
  base are the digits of its bytes; how a text of too few digits is read is in
  the place `FromHexStr` gives the first one.
- The patcher's invariant names, for each of the two shared options, a click
  whose boxes it holds; it is not before the click of any run that waits. A
  run that fetches holds a known image, since its checksum was taken of its
  own bytes.

What a recursive definition computes is proved for every input where a theorem
needs it (`NumbersProofs`, `HackProofs`, `LogicProofs`). The library's
induction theorems take a predicate as a parameter, which the provers cannot
instantiate, so the lemmas here speak of the set of numbers that have the
property and of the function a definition applies in each step: a set of
numbers that holds 0 and the successor of each of its members is `Nat`, by the
least number outside of it. Powers, folds over sequences and the digits of a
number follow from that.

Model-checked only: `RestoreServed`, `SpinAnswers`, `GameGoesOn`,
`RestartServed`, `KeepsBeating` and `RunsEnd`, which are liveness under fairness
and out of the prover's reach. Of two of them the part without fairness is
proved: `TerminalWindsDown` and `RunsWindDown` give a measure that the awaited
steps lower and no other step raises; that those steps are taken is what
fairness says. `RestoreStaysArmed` does not say that a restore comes, only that
nothing loses it. The three properties the code violates are of course not
proved; three theorems say how far each can be wrong (see the findings).

## 7. Findings

- A restore that had to load its level is resumed for the slot that is
  selected then, not for the one that was asked for (`logic.c` 114, run
  resumes_asked). By `ResumesUncrossed` this takes a crossing: another slot
  selected, or a second wish, while it waits.
- A backup of one word more than an area is announced as "bytes stored!" and
  has destroyed the first word of the next slot (`logic.c` 511, run
  stored_fits). By `StoredButOneWord` that one word is all.
- The lock of a BYTE or HWORD watch writes the wrong end of its snapshot,
  since the CPU is big-endian (`memwatch.c` 147, run lock_snapshot). Watches
  of four bytes are right (`WordLocksKeep`).

Behaviour the models show and no document denies: the pad can use a slot out of
range until the main menu is shown again; a restore of one slot cancels a
waiting one of another; a slot never saved may be copied if the byte in
`lastmap[]` happens to be the level's; the host's `watch` during a selection
receives the type chosen on the screen; a press while the game is stopped may
be heard by nobody; a restart asked for at a fade waits for as long as the
automatic timer is off; a message of the menu is not seen while the timer runs;
`watchw` at an odd address, `lock` of a watch without one, or a peek of an
address the CPU refuses stops the game; a long `iprint` beside a menu and
watches makes a frame that begins near the buffer's end run into the first
savestate; the frame timer stands still at every multiple of 256; zeros behind
a float's point are dropped; the last bytes of an object of an odd size are
replaced by a restore; the web patcher swaps a file's bytes by the name of
another file picked meanwhile, which the checksum then refuses, and patches
with the options of a later click.

## 8. What is not modelled

- The game's code, outside the repository, beyond what the hack reads and
  calls; single writes to game variables (cheats).
- Pixels, colours, labels, fonts, places on the screen, the RDP's command words.
- The object menu's pointer to an actor: what a level leaves behind when it is
  unloaded is the game's.
- The flash cartridge's registers below a block, and EEPROM access.
- The choice of a host's command by its first word, and its arguments except
  those of peek and poke; in `Overlay` they are drawn from what they mean.
- What is never written to an area, read as a backup (`CloneBuffer`).
- The ROM patcher, which has no state between runs and a checksum over a
  megabyte.
- The archive decompressor `fla2dec`, a command-line tool nothing here calls.
- Matrices (called only by the test), string copies and comparisons, build
  files, asset scripts.

## 9. Plan

Built, in the order of importance: savestates with their abstract
specification and refinement; the overlays and their shared flags; frame
advance; the serial link; the frame of `logic()` with timer, messages and
position; the web patcher with its abstract specification and refinement; the
display list; conversions with peek and poke; the bytes of a backup. Left:

1. A frame that composes `Overlay`, `Savestate` and `Logic`: they share the
   pad, the message line and the slot, and are checked apart because their
   product is far beyond a small instance.
2. The menus' second part: labels kept beside their entries.
3. `Fla2`: the ring decompressor as a function against a reference definition.
