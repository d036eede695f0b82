----------------------------- MODULE SerialLink -----------------------------
(***************************************************************************)
(* The USB link between serialterm on the host and the hack (debug.c,      *)
(* tools/serialterm).  The host writes a command, waits a fixed time and   *)
(* reads once; the hack takes at most one command in a frame.  Commands    *)
(* and answers travel as blocks of 512 bytes: a command is two, an answer  *)
(* two, listen's answer many more, and nothing marks where one begins.     *)
(* Either end of evd_usb_read and evd_usb_write gives up when the other    *)
(* keeps it waiting.                                                       *)
(***************************************************************************)
EXTENDS Naturals, Sequences

CONSTANTS
  MaxSent,        \* bound: commands the host sends
  ListenBlocks,   \* blocks of listen's answer: 2 * MAX_WATCH
  Fifo            \* blocks the adapter holds for the host

ASSUME LinkAssumption ==
  /\ MaxSent \in Nat
  /\ ListenBlocks \in Nat /\ ListenBlocks > 2
  /\ Fifo \in Nat \ {0}

VARIABLES
  host,     \* serialterm: at its "prompt", or "waits" for the response
  kinds,    \* the commands sent, in order
  transit,  \* blocks on the way to the adapter
  down,     \* blocks the adapter holds for the hack
  console,  \* evd_serial_terminal: "idle", "reads" or "writes"
  first,    \* the first block of the command being read
  out,      \* blocks of the answer still to be written
  up,       \* blocks the adapter holds for the host
  split,    \* history: a command was taken apart, or an answer cut off
  early     \* history: the host read before the hack was done

vars == <<host, kinds, transit, down, console, first, out, up, split, early>>

Kinds == {"answered", "listen", "unknown"}
Sent  == Len(kinds)
Block == [cmd : 1..MaxSent, part : 1..ListenBlocks]
NoBlock == [cmd |-> 0, part |-> 0]

Parts(n, count) == [k \in 1..count |-> [cmd |-> n, part |-> k]]

-----------------------------------------------------------------------------
(* serialterm                                                              *)

HostSends ==
  /\ host = "prompt"
  /\ Sent < MaxSent
  /\ \E kind \in Kinds : kinds' = Append(kinds, kind)
  /\ transit' = transit \o Parts(Sent + 1, 2)
  /\ host' = "waits"
  /\ UNCHANGED <<down, console, first, out, up, split, early>>

Rest(s, n) == SubSeq(s, n + 1, Len(s))

\* Mutant: the host reads half a buffer.
HostReadsHalf ==
  /\ host = "waits"
  /\ up' = Rest(up, IF up = <<>> THEN 0 ELSE 1)
  /\ host' = "prompt"
  /\ early' = (early \/ transit # <<>> \/ down # <<>> \/ console # "idle")
  /\ UNCHANGED <<kinds, transit, down, console, first, out, split>>

\* The 100 ms are over, wherever the hack is; at most one buffer is read.
HostReads ==
  /\ host = "waits"
  /\ up' = Rest(up, IF Len(up) < 2 THEN Len(up) ELSE 2)
  /\ host' = "prompt"
  /\ early' = (early \/ transit # <<>> \/ down # <<>> \/ console # "idle")
  /\ UNCHANGED <<kinds, transit, down, console, first, out, split>>

Arrives ==
  /\ transit # <<>>
  /\ down' = Append(down, Head(transit))
  /\ transit' = Tail(transit)
  /\ UNCHANGED <<host, kinds, console, first, out, up, split, early>>

-----------------------------------------------------------------------------
(* evd_serial_terminal, in one frame of the game                           *)

\* The first block of the command: evd_usb_can_read asks only for some data.
BeginsRead ==
  /\ console = "idle" /\ down # <<>>
  /\ console' = "reads"
  /\ first' = Head(down) /\ down' = Tail(down)
  /\ UNCHANGED <<host, kinds, transit, out, up, split, early>>

\* What the hack answers to a buffer that begins with the block b.  Commands
\* are shorter than a block, so one that begins elsewhere is unknown.
Answer(b) ==
  IF b.part # 1 \/ kinds[b.cmd] = "unknown" THEN <<>>
  ELSE Parts(b.cmd, IF kinds[b.cmd] = "listen" THEN ListenBlocks ELSE 2)

\* Mutant: a read ends after the first block.
EndsReadShort ==
  /\ console = "reads"
  /\ out' = Answer(first)
  /\ console' = IF out' = <<>> THEN "idle" ELSE "writes"
  /\ first' = NoBlock
  /\ UNCHANGED <<host, kinds, transit, down, up, split, early>>

EndsRead ==
  /\ console = "reads" /\ down # <<>>
  /\ down' = Tail(down)
  /\ out' = Answer(first)
  /\ console' = IF out' = <<>> THEN "idle" ELSE "writes"
  /\ first' = NoBlock
  /\ UNCHANGED <<host, kinds, transit, up, split, early>>

\* Mutant: the poll for the second block has no end.
ReadWaitsOn ==
  /\ console = "reads" /\ down = <<>>
  /\ UNCHANGED vars

\* evd_usb_busy gives up: the block that was read is lost, the rest of the
\* command is not.
ReadTimesOut ==
  /\ console = "reads" /\ down = <<>>
  /\ console' = "idle" /\ first' = NoBlock
  /\ split' = TRUE
  /\ UNCHANGED <<host, kinds, transit, down, out, up, early>>

\* Mutant: src is not advanced.
WritesSameBlock ==
  /\ console = "writes" /\ Len(up) < Fifo
  /\ up' = Append(up, [Head(out) EXCEPT !.part = 1]) /\ out' = Tail(out)
  /\ console' = IF out' = <<>> THEN "idle" ELSE "writes"
  /\ UNCHANGED <<host, kinds, transit, down, first, split, early>>

Writes ==
  /\ console = "writes" /\ Len(up) < Fifo
  /\ up' = Append(up, Head(out)) /\ out' = Tail(out)
  /\ console' = IF out' = <<>> THEN "idle" ELSE "writes"
  /\ UNCHANGED <<host, kinds, transit, down, first, split, early>>

\* The host does not read: the rest of the answer is given up.
WriteTimesOut ==
  /\ console = "writes" /\ Len(up) = Fifo
  /\ out' = <<>> /\ console' = "idle"
  /\ split' = TRUE
  /\ UNCHANGED <<host, kinds, transit, down, first, up, early>>

\* The menu's entry calls evd_init, whose flush takes what has arrived.
Flushes ==
  /\ console = "idle" /\ down # <<>>
  /\ down' = <<>>
  /\ split' = (split \/ Len(down) % 2 = 1)
  /\ UNCHANGED <<host, kinds, transit, console, first, out, up, early>>

Terminal == BeginsRead \/ EndsRead \/ ReadTimesOut \/ Writes \/ WriteTimesOut

Init ==
  /\ host = "prompt" /\ kinds = <<>>
  /\ transit = <<>> /\ down = <<>> /\ up = <<>> /\ out = <<>>
  /\ console = "idle" /\ first = NoBlock
  /\ split = FALSE /\ early = FALSE

Next == HostSends \/ HostReads \/ Arrives \/ Terminal \/ Flushes

\* USB delivers and the hack runs its frames; the user need not type.
Spec == Init /\ [][Next]_vars /\ WF_vars(Arrives) /\ WF_vars(Terminal)

-----------------------------------------------------------------------------
TypeOK ==
  /\ host \in {"prompt", "waits"}
  /\ kinds \in Seq(Kinds) /\ Sent <= MaxSent
  /\ {transit, down, out, up} \subseteq Seq(Block)
  /\ Len(up) <= Fifo
  /\ console \in {"idle", "reads", "writes"}
  /\ first \in Block \cup {NoBlock}
  /\ split \in BOOLEAN /\ early \in BOOLEAN

\* The buffer the hack parses is one command of the host, as long as no read
\* was given up and no flush took a command apart: the link has no other
\* framing than that both ends count to 1024 (debug.c:486-493, 149-172).
CommandsWhole ==
  [][console = "reads" /\ console' # "reads" /\ ~split'
       => /\ first.part = 1 /\ down # <<>>
          /\ Head(down) = [cmd |-> first.cmd, part |-> 2]]_vars

Before(a, b) == a.cmd < b.cmd \/ (a.cmd = b.cmd /\ a.part < b.part)

\* Whatever was given up, lost or left unread, the host receives answers in
\* the order of the commands and each block once.
AnswersInOrder ==
  LET s == up \o out
  IN \A i \in 1..Len(s) - 1 : Before(s[i], s[i + 1])

NoListen == \A n \in 1..Sent : kinds[n] # "listen"

\* Without listen, a host that always waited until the hack was done is shown
\* the answer to the command it has just sent ("wait for response",
\* serialterm main.c:154); listen's answer is longer than what is read.
ReplyIsAnswer ==
  [][host = "waits" /\ host' = "prompt" /\ up # <<>> /\ ~split /\ ~early' /\ NoListen
       => Head(up) = [cmd |-> Sent, part |-> 1]]_vars

\* The terminal lets the game go on: neither a command of which only a part
\* comes nor a host that does not read holds the frame up (debug.c:203-216).
GameGoesOn == console # "idle" ~> console = "idle"
=============================================================================
