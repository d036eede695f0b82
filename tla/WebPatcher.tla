----------------------------- MODULE WebPatcher -----------------------------
(***************************************************************************)
(* The web patcher (web/patcher.js, web/patchrom.js).  A click starts an   *)
(* asynchronous run that waits for the file and for three parts of the     *)
(* release.  Between two waits nothing else happens on the page; while a   *)
(* run waits, the user may pick another file, tick a box or click again,   *)
(* and all runs share one settings object and one file input.              *)
(***************************************************************************)
EXTENDS Naturals, Sequences

CONSTANTS
  Files,      \* a file: rom, byte order, whether its name ends in ".n64",
              \* whether it is larger than 16000000 bytes
  NoFile,     \* the file input is empty
  MaxClicks   \* bound of the model on the clicks of one visit

Orders == {"native", "swapped"}
Roms   == {"known", "dump", "other"}   \* checksums of patchrom.js

ASSUME FilesAssumption ==
  /\ Files \subseteq [rom : Roms, order : Orders, n64 : BOOLEAN, large : BOOLEAN]
  /\ NoFile \notin Files
  /\ MaxClicks \in Nat

VARIABLES
  picked,     \* files[0] of the file input: the target of every change event
  listening,  \* settings.file: a change event has been seen
  boxes,      \* the two check boxes on the page
  settings,   \* settings.shouldPatchEasy and settings.next
  pc,         \* for each click, where its run waits
  content,    \* for each run, the file whose bytes it holds
  order,      \* and their byte order
  release,    \* for each run, whether it takes the parts of the next release
  fetched,    \* and how many of them have answered
  shown,      \* the two messages on the page
  images,     \* downloads
  asked       \* history: the requests, click by click

runVars  == <<pc, content, order, release, fetched>>
pageVars == <<picked, listening, boxes>>
vars == <<pageVars, settings, runVars, shown, images, asked>>

Runs == 1..Len(asked)
Options == [easy : BOOLEAN, next : BOOLEAN]
Parts == 3    \* payload, code, entry

-----------------------------------------------------------------------------
(* The user.                                                               *)

PickFile ==
  /\ \E f \in Files \cup {NoFile} : picked' = f
  /\ listening' = TRUE
  /\ UNCHANGED <<boxes, settings, runVars, shown, images, asked>>

TickBox ==
  /\ boxes' \in Options
  /\ UNCHANGED <<picked, listening, settings, runVars, shown, images, asked>>

Started(where) ==
  /\ pc' = Append(pc, where)
  /\ content' = Append(content, IF where = "ended" THEN NoFile ELSE picked)
  /\ order' = Append(order, IF where = "ended" THEN "native" ELSE picked.order)
  /\ release' = Append(release, FALSE)
  /\ fetched' = Append(fetched, 0)

\* onStable and the part of onStart before the first wait.  Without a file
\* easy is not read from its box; an empty input makes readAsArrayBuffer
\* throw, and the run ends unheard.
Click ==
  /\ Len(asked) < MaxClicks
  /\ asked' = Append(asked, [file |-> IF listening THEN picked ELSE NoFile,
                             easy |-> boxes.easy, next |-> boxes.next])
  /\ settings' = [easy |-> IF listening THEN boxes.easy ELSE settings.easy,
                  next |-> boxes.next]
  /\ shown' = IF listening THEN shown ELSE [shown EXCEPT !.error = "select"]
  /\ Started(IF listening /\ picked # NoFile THEN "reading" ELSE "ended")
  /\ UNCHANGED <<pageVars, images>>

-----------------------------------------------------------------------------
(* A run.                                                                  *)

\* A run that ends takes its variables with it.
Ends(r) ==
  /\ pc' = [pc EXCEPT ![r] = "ended"]
  /\ content' = [content EXCEPT ![r] = NoFile]
  /\ order' = [order EXCEPT ![r] = "native"]
  /\ release' = [release EXCEPT ![r] = FALSE]
  /\ fetched' = [fetched EXCEPT ![r] = 0]

Cleared == [error |-> "", warning |-> FALSE]

\* swapToZ64 looks at the name of the file that is picked now.
Swapped(o) == IF ~picked.n64 THEN o
              ELSE IF o = "native" THEN "swapped" ELSE "native"

\* isCrcOk: one of the known images, in the order of the machine.
CrcOk(rom, o) == rom # "other" /\ o = "native"

\* The file was read; its size is looked at now, and it is the size of the
\* file that is picked now.
TooLarge(r) ==
  /\ pc[r] = "reading"
  /\ picked # NoFile /\ picked.large
  /\ shown' = [shown EXCEPT !.error = "large"]
  /\ Ends(r)

BadChecksum(r) ==
  /\ pc[r] = "reading"
  /\ picked # NoFile /\ ~picked.large
  /\ ~CrcOk(content[r].rom, Swapped(order[r]))
  /\ shown' = [Cleared EXCEPT !.error = "checksum"]
  /\ Ends(r)

GoodChecksum(r) ==
  /\ pc[r] = "reading"
  /\ picked # NoFile /\ ~picked.large
  /\ CrcOk(content[r].rom, Swapped(order[r]))
  /\ shown' = [Cleared EXCEPT !.warning = (content[r].rom = "dump")]
  /\ pc' = [pc EXCEPT ![r] = "fetching"]
  /\ order' = [order EXCEPT ![r] = Swapped(@)]
  /\ release' = [release EXCEPT ![r] = settings.next]
  /\ UNCHANGED <<content, fetched>>

\* Mutant: the error handler of the reader rejects nothing.
ReadFailsUnheard(r) ==
  /\ pc[r] = "reading"
  /\ pc' = [pc EXCEPT ![r] = "hanging"]
  /\ UNCHANGED <<content, order, release, fetched, shown>>

\* The file cannot be read, or the input was emptied meanwhile.
ReadFails(r) ==
  /\ pc[r] = "reading"
  /\ Ends(r)
  /\ UNCHANGED shown

\* What happens to run r when its file has been read.
FileRead(r) ==
  /\ TooLarge(r) \/ BadChecksum(r) \/ GoodChecksum(r) \/ ReadFails(r)
  /\ UNCHANGED <<pageVars, settings, images, asked>>

\* The server answered, with the part or with another page: the status is
\* not looked at.
PartFetched(r) ==
  /\ pc[r] = "fetching" /\ fetched[r] < Parts
  /\ fetched' = [fetched EXCEPT ![r] = @ + 1]
  /\ UNCHANGED <<pageVars, settings, pc, content, order, release, shown, images, asked>>

FetchFails(r) ==
  /\ pc[r] = "fetching"
  /\ Ends(r)
  /\ UNCHANGED <<pageVars, settings, shown, images, asked>>

\* Mutant: the box is looked at again.
OptionsOfPage(r) == [easy |-> boxes.easy, next |-> release[r]]

\* patch() reads easy when the last part has come.
OptionsOf(r) == [easy |-> settings.easy, next |-> release[r]]

Patched(r) ==
  /\ pc[r] = "fetching" /\ fetched[r] = Parts
  /\ images' = images \cup {[job |-> r, file |-> content[r],
                            easy |-> OptionsOf(r).easy, next |-> OptionsOf(r).next]}
  /\ Ends(r)
  /\ UNCHANGED <<pageVars, settings, shown, asked>>

Run(r) == FileRead(r) \/ PartFetched(r) \/ FetchFails(r) \/ Patched(r)

-----------------------------------------------------------------------------
Init ==
  /\ picked = NoFile /\ listening = FALSE
  /\ boxes = [easy |-> TRUE, next |-> FALSE]
  /\ settings = [easy |-> TRUE, next |-> FALSE]
  /\ pc = <<>> /\ content = <<>> /\ order = <<>> /\ release = <<>> /\ fetched = <<>>
  /\ shown = Cleared
  /\ images = {} /\ asked = <<>>

Next == PickFile \/ TickBox \/ Click \/ \E r \in Runs : Run(r)

\* The browser answers every read and every request, one way or the other.
Spec == Init /\ [][Next]_vars /\ \A r \in 1..MaxClicks : WF_vars(r \in Runs /\ Run(r))

-----------------------------------------------------------------------------
TypeOK ==
  /\ picked \in Files \cup {NoFile} /\ listening \in BOOLEAN
  /\ boxes \in Options /\ settings \in Options
  /\ asked \in Seq([file : Files \cup {NoFile}, easy : BOOLEAN, next : BOOLEAN])
  /\ pc \in [Runs -> {"reading", "fetching", "ended"}]
  /\ content \in [Runs -> Files \cup {NoFile}] /\ order \in [Runs -> Orders]
  /\ release \in [Runs -> BOOLEAN] /\ fetched \in [Runs -> 0..Parts]
  /\ shown \in [error : {"", "select", "large", "checksum"}, warning : BOOLEAN]

\* The files a run may turn into an image.
Patchable == {f \in Files : f.rom # "other"}

Waits(r) == r \in Runs /\ pc[r] # "ended"

Abs == INSTANCE PatchJobs WITH open <- {r \in Runs : Waits(r)}

\* A run patches the file it was started with, if that is one of the known
\* images, whatever is picked while it waits; its options are those of its
\* click or of a later one (patcher.js:68-87, patchrom.js:81).
KeepsJobs == Abs!JobsSpec

\* What is patched has the machine's byte order, although it is the name of
\* another file that may have decided whether to swap it (patcher.js:76).
NativeOrder == \A r \in Runs : pc[r] = "fetching" => order[r] = "native"

\* Every run ends, with a download, a message or in silence.
RunsEnd == \A r \in 1..MaxClicks : Waits(r) ~> ~Waits(r)
=============================================================================
