----------------------------- MODULE WebProofs -----------------------------
(***************************************************************************)
(* The web patcher keeps its jobs: types, the byte order of what is        *)
(* patched, and the refinement of PatchJobs.  All runs share one settings  *)
(* object; the invariant says of which clicks its two options are.         *)
(***************************************************************************)
EXTENDS WebPatcher, SequenceTheorems, TLAPS

RunType ==
  /\ pc \in [Runs -> {"reading", "fetching", "ended"}]
  /\ content \in [Runs -> Files \cup {NoFile}]
  /\ order \in [Runs -> Orders]
  /\ release \in [Runs -> BOOLEAN]
  /\ fetched \in [Runs -> 0..Parts]

PageType ==
  /\ picked \in Files \cup {NoFile}
  /\ boxes \in Options
  /\ settings \in Options
  /\ asked \in Seq([file : Files \cup {NoFile}, easy : BOOLEAN, next : BOOLEAN])

-----------------------------------------------------------------------------
(* A click appends to five sequences at once.                              *)

LEMMA Appended ==
  ASSUME NEW S, NEW n \in Nat, NEW f \in [1..n -> S], NEW e \in S
  PROVE  /\ Append(f, e) \in [1..n + 1 -> S]
         /\ Append(f, e)[n + 1] = e
         /\ \A r \in 1..n : Append(f, e)[r] = f[r]
<1>1. f \in Seq(S) /\ Len(f) = n
  OBVIOUS
<1>2. Append(f, e) \in Seq(S) /\ Len(Append(f, e)) = n + 1
  BY <1>1
<1>3. Append(f, e) \in [1..n + 1 -> S]
  BY <1>2, LenProperties
<1>4. Append(f, e)[n + 1] = e /\ \A r \in 1..n : Append(f, e)[r] = f[r]
  BY <1>1
<1> QED
  BY <1>3, <1>4

LEMMA RunsGrow ==
  ASSUME PageType, NEW e \in [file : Files \cup {NoFile}, easy : BOOLEAN, next : BOOLEAN],
         asked' = Append(asked, e)
  PROVE  /\ Len(asked) \in Nat /\ Len(asked') = Len(asked) + 1
         /\ Runs = 1..Len(asked) /\ Runs' = 1..Len(asked) + 1
         /\ asked'[Len(asked) + 1] = e
         /\ \A r \in Runs : asked'[r] = asked[r]
         /\ asked' \in Seq([file : Files \cup {NoFile}, easy : BOOLEAN, next : BOOLEAN])
  BY DEF PageType, Runs

LEMMA ClickAsks ==
  ASSUME PageType, Click
  PROVE  \E e \in [file : Files \cup {NoFile}, easy : BOOLEAN, next : BOOLEAN] :
           /\ asked' = Append(asked, e)
           /\ e = [file |-> IF listening THEN picked ELSE NoFile,
                   easy |-> boxes.easy, next |-> boxes.next]
<1> DEFINE e == [file |-> IF listening THEN picked ELSE NoFile,
                 easy |-> boxes.easy, next |-> boxes.next]
<1>1. (IF listening THEN picked ELSE NoFile) \in Files \cup {NoFile}
  BY Zenon DEF PageType
<1>2. boxes.easy \in BOOLEAN /\ boxes.next \in BOOLEAN
  BY DEF PageType, Options
<1>3. e \in [file : Files \cup {NoFile}, easy : BOOLEAN, next : BOOLEAN]
  BY <1>1, <1>2
<1>4. asked' = Append(asked, e)
  BY DEF Click
<1> QED
  BY <1>3, <1>4

-----------------------------------------------------------------------------
LEMMA RunTypeStep == ASSUME RunType, PageType, [Next]_vars PROVE RunType'
<1>1. CASE Click
  <2> DEFINE where == IF listening /\ picked # NoFile THEN "reading" ELSE "ended"
             n     == Len(asked)
  <2>1. /\ Started(where) /\ UNCHANGED pageVars
    BY <1>1 DEF Click
  <2>2. n \in Nat /\ Runs = 1..n /\ Runs' = 1..n + 1
    BY <1>1, ClickAsks, RunsGrow
  <2>3. where \in {"reading", "fetching", "ended"}
    OBVIOUS
  <2>4. (IF where = "ended" THEN NoFile ELSE picked) \in Files \cup {NoFile}
    BY DEF PageType
  <2>5. (IF where = "ended" THEN "native" ELSE picked.order) \in Orders
    <3>1. where # "ended" => picked \in Files
      BY DEF PageType
    <3> QED
      BY <3>1, FilesAssumption DEF Orders
  <2> HIDE DEF where, n
  <2>6. pc' \in [1..n + 1 -> {"reading", "fetching", "ended"}]
    BY <2>1, <2>2, <2>3, Appended DEF Started, RunType
  <2>7. content' \in [1..n + 1 -> Files \cup {NoFile}]
    BY <2>1, <2>2, <2>4, Appended DEF Started, RunType
  <2>8. order' \in [1..n + 1 -> Orders]
    BY <2>1, <2>2, <2>5, Appended DEF Started, RunType
  <2>9. fetched' \in [1..n + 1 -> 0..Parts]
    <3>1. 0 \in 0..Parts /\ fetched \in [1..n -> 0..Parts]
      BY <2>2 DEF RunType, Parts
    <3> QED
      BY <2>1, <2>2, <3>1, Appended DEF Started
  <2>10. release' \in [1..n + 1 -> BOOLEAN]
    <3>1. FALSE \in BOOLEAN /\ release \in [1..n -> BOOLEAN]
      BY <2>2 DEF RunType
    <3> QED
      BY <2>1, <2>2, <3>1, Appended DEF Started
  <2> QED
    BY <2>2, <2>6, <2>7, <2>8, <2>9, <2>10 DEF RunType
<1>2. CASE UNCHANGED <<runVars, asked>>
  BY <1>2 DEF runVars, RunType, Runs
<1>3. ASSUME NEW r \in Runs, Ends(r), UNCHANGED asked PROVE RunType'
  BY <1>3 DEF Ends, RunType, Runs, Orders, Parts
<1>4. ASSUME NEW r \in Runs, GoodChecksum(r), UNCHANGED <<settings, asked>> PROVE RunType'
  <2>1. settings.next \in BOOLEAN
    BY DEF PageType, Options
  <2>2. Swapped(order[r]) \in Orders
    BY DEF Swapped, Orders, RunType
  <2> QED
    BY <1>4, <2>1, <2>2 DEF GoodChecksum, RunType, Runs
<1>5. ASSUME NEW r \in Runs, PartFetched(r) PROVE RunType'
  <2>1. fetched[r] + 1 \in 0..Parts
    BY <1>5 DEF PartFetched, RunType, Parts
  <2> QED
    BY <1>5, <2>1 DEF PartFetched, RunType, Runs
<1>6. ASSUME NEW r \in Runs, Run(r) PROVE RunType'
  BY <1>3, <1>4, <1>5, <1>6
     DEF Run, FileRead, TooLarge, BadChecksum, ReadFails, FetchFails, Patched
<1> QED
  BY <1>1, <1>2, <1>6 DEF Next, PickFile, TickBox, vars

LEMMA PageTypeStep == ASSUME PageType, [Next]_vars PROVE PageType'
<1>1. CASE Click
  <2>1. boxes.easy \in BOOLEAN /\ boxes.next \in BOOLEAN /\ settings.easy \in BOOLEAN
    BY DEF PageType, Options
  <2>2. (IF listening THEN boxes.easy ELSE settings.easy) \in BOOLEAN
    BY <2>1, Zenon
  <2>3. settings' \in Options
    BY <1>1, <2>1, <2>2 DEF Click, Options
  <2>4. asked' \in Seq([file : Files \cup {NoFile}, easy : BOOLEAN, next : BOOLEAN])
    BY <1>1, ClickAsks, RunsGrow
  <2> QED
    BY <1>1, <2>3, <2>4 DEF Click, pageVars, PageType
<1>2. CASE PickFile \/ TickBox
  BY <1>2 DEF PickFile, TickBox, PageType
<1>3. CASE UNCHANGED <<pageVars, settings, asked>>
  BY <1>3 DEF pageVars, PageType
<1> QED
  BY <1>1, <1>2, <1>3 DEF Next, Run, FileRead, PartFetched, FetchFails, Patched, vars

-----------------------------------------------------------------------------
(* What a waiting run stands for.                                          *)

\* The run still holds the file of its click; easy is that of a click not
\* before it.
HoldsJob(r) ==
  /\ content[r] = asked[r].file /\ asked[r].file \in Files
  /\ \E p \in r..Len(asked) : asked[p].easy = settings.easy

\* The checksum was good, and the release chosen by a click not before it.
HoldsRom(r) ==
  /\ content[r] \in Patchable
  /\ \E q \in r..Len(asked) : asked[q].next = release[r]

JobsKept ==
  /\ \A r \in Runs : pc[r] # "ended" => HoldsJob(r)
  /\ \A r \in Runs : pc[r] = "fetching" => HoldsRom(r)
  /\ Len(asked) > 0 => settings.next = asked[Len(asked)].next

LEMMA JobsKeptByClick == ASSUME RunType, PageType, JobsKept, Click PROVE JobsKept'
<1> DEFINE n == Len(asked)
           where == IF listening /\ picked # NoFile THEN "reading" ELSE "ended"
<1>1. PICK e \in [file : Files \cup {NoFile}, easy : BOOLEAN, next : BOOLEAN] :
        /\ asked' = Append(asked, e)
        /\ e = [file |-> IF listening THEN picked ELSE NoFile,
                easy |-> boxes.easy, next |-> boxes.next]
  BY ClickAsks
<1>2. /\ n \in Nat /\ Len(asked') = n + 1 /\ Runs = 1..n /\ Runs' = 1..n + 1
      /\ asked'[n + 1] = e /\ \A r \in 1..n : asked'[r] = asked[r]
  BY <1>1, RunsGrow
<1>3. /\ pc' = Append(pc, where)
      /\ content' = Append(content, IF where = "ended" THEN NoFile ELSE picked)
      /\ release' = Append(release, FALSE)
  BY DEF Click, Started
<1>4. /\ settings'.next = boxes.next
      /\ settings'.easy = IF listening THEN boxes.easy ELSE settings.easy
  BY DEF Click
<1>w. where \in {"reading", "fetching", "ended"}
  OBVIOUS
<1>5. pc'[n + 1] = where /\ \A r \in 1..n : pc'[r] = pc[r]
  <2> HIDE DEF n, where
  <2> QED
    BY <1>2, <1>3, <1>w, Appended DEF RunType
<1>6. /\ where # "ended" => content'[n + 1] = picked
      /\ \A r \in 1..n : content'[r] = content[r]
  <2>1. (IF where = "ended" THEN NoFile ELSE picked) \in Files \cup {NoFile}
    BY DEF PageType
  <2> HIDE DEF n, where
  <2> QED
    BY <1>2, <1>3, <2>1, Appended DEF RunType
<1>7. \A r \in 1..n : release'[r] = release[r]
  <2> HIDE DEF n
  <2> DEFINE B == BOOLEAN
             no == FALSE
  <2>1. no \in B /\ release \in [1..n -> B]
    BY <1>2 DEF RunType
  <2>2. release' = Append(release, no)
    BY <1>3
  <2> HIDE DEF B, no
  <2> QED
    BY <1>2, <2>1, <2>2, Appended
<1>8. ASSUME NEW r \in 1..n, HoldsJob(r) PROVE HoldsJob(r)'
  <2>1. content'[r] = asked'[r].file /\ asked'[r].file \in Files
    BY <1>2, <1>6, <1>8 DEF HoldsJob
  <2>2. CASE listening
    <3>1. asked'[n + 1].easy = settings'.easy
      BY <1>1, <1>2, <1>4, <2>2
    <3>2. n + 1 \in r..Len(asked')
      BY <1>2
    <3> QED
      BY <2>1, <3>1, <3>2 DEF HoldsJob
  <2>3. CASE ~listening
    <3>1. PICK p \in r..n : asked[p].easy = settings.easy
      BY <1>8 DEF HoldsJob
    <3>2. p \in r..Len(asked') /\ asked'[p] = asked[p]
      BY <1>2
    <3>3. settings'.easy = settings.easy
      BY <1>4, <2>3
    <3> QED
      BY <2>1, <3>1, <3>2, <3>3 DEF HoldsJob
  <2> QED
    BY <2>2, <2>3
<1>9. ASSUME NEW r, r = n + 1, where # "ended" PROVE HoldsJob(r)'
  <2>1. listening /\ picked \in Files
    BY <1>9 DEF PageType
  <2>2. e.file = picked /\ e.easy = boxes.easy /\ settings'.easy = boxes.easy
    BY <1>1, <1>4, <2>1
  <2>3. content'[r] = picked /\ r \in r..Len(asked') /\ asked'[r] = e
    BY <1>2, <1>6, <1>9
  <2>4. asked'[r].easy = settings'.easy /\ asked'[r].file = picked
    BY <2>2, <2>3
  <2> QED
    BY <2>1, <2>3, <2>4 DEF HoldsJob
<1>10. ASSUME NEW r \in 1..n, HoldsRom(r) PROVE HoldsRom(r)'
  <2>1. PICK q \in r..n : asked[q].next = release[r]
    BY <1>10 DEF HoldsRom
  <2>2. q \in r..Len(asked') /\ asked'[q] = asked[q]
    BY <1>2
  <2>3. content'[r] \in Patchable
    BY <1>6, <1>10 DEF HoldsRom
  <2> QED
    BY <1>7, <2>1, <2>2, <2>3 DEF HoldsRom, Patchable
<1>11. settings'.next = asked'[Len(asked')].next
  BY <1>1, <1>2, <1>4
<1>12. where # "fetching"
  OBVIOUS
<1> HIDE DEF n, where
<1>13. \A r \in Runs' : pc'[r] # "ended" => HoldsJob(r)'
  <2> SUFFICES ASSUME NEW r \in 1..n + 1, pc'[r] # "ended" PROVE HoldsJob(r)'
    BY <1>2
  <2>1. CASE r \in 1..n
    BY <1>2, <1>5, <1>8, <2>1 DEF JobsKept
  <2>2. CASE r = n + 1
    BY <1>5, <1>9, <2>2
  <2> QED
    BY <1>2, <2>1, <2>2
<1>14. \A r \in Runs' : pc'[r] = "fetching" => HoldsRom(r)'
  <2> SUFFICES ASSUME NEW r \in 1..n + 1, pc'[r] = "fetching" PROVE HoldsRom(r)'
    BY <1>2
  <2>1. CASE r \in 1..n
    BY <1>2, <1>5, <1>10, <2>1 DEF JobsKept
  <2>2. CASE r = n + 1
    BY <1>5, <1>12, <2>2
  <2> QED
    BY <1>2, <2>1, <2>2
<1> QED
  BY <1>11, <1>13, <1>14 DEF JobsKept

\* A run that ends holds nothing any more; the others are as they were.
LEMMA JobsKeptByEnd ==
  ASSUME RunType, JobsKept, NEW e \in Runs, Ends(e), UNCHANGED <<settings, asked>>
  PROVE  JobsKept'
<1>1. Runs' = Runs /\ Len(asked') = Len(asked)
  BY DEF Runs
<1>2. \A r \in Runs : pc'[r] # "ended" =>
        /\ r # e /\ pc'[r] = pc[r] /\ content'[r] = content[r] /\ release'[r] = release[r]
  BY DEF Ends, RunType
<1>3. ASSUME NEW r \in Runs, pc'[r] # "ended" PROVE HoldsJob(r)'
  <2>1. HoldsJob(r) /\ content'[r] = content[r]
    BY <1>2, <1>3 DEF JobsKept
  <2> QED
    BY <2>1 DEF HoldsJob
<1>4. ASSUME NEW r \in Runs, pc'[r] = "fetching" PROVE HoldsRom(r)'
  <2>1. HoldsRom(r) /\ content'[r] = content[r] /\ release'[r] = release[r]
    BY <1>2, <1>4 DEF JobsKept
  <2> QED
    BY <2>1 DEF HoldsRom, Patchable
<1>5. Len(asked') > 0 => settings'.next = asked'[Len(asked')].next
  BY DEF JobsKept
<1> QED
  BY <1>1, <1>3, <1>4, <1>5 DEF JobsKept

\* What the checksum was taken of is what the run holds; the release is the
\* one of the last click.
LEMMA JobsKeptByChecksum ==
  ASSUME RunType, PageType, JobsKept, NEW g \in Runs, GoodChecksum(g),
         UNCHANGED <<settings, asked>>
  PROVE  JobsKept'
<1>1. Runs' = Runs /\ Len(asked') = Len(asked) /\ UNCHANGED content
  BY DEF Runs, GoodChecksum
<1>2. /\ pc' = [pc EXCEPT ![g] = "fetching"] /\ pc[g] = "reading"
      /\ release' = [release EXCEPT ![g] = settings.next]
  BY DEF GoodChecksum
<1>3. \A r \in Runs : pc'[r] # "ended" => pc[r] # "ended"
  BY <1>2 DEF RunType
<1>4. ASSUME NEW r \in Runs, pc'[r] # "ended" PROVE HoldsJob(r)'
  <2>1. HoldsJob(r)
    BY <1>3, <1>4 DEF JobsKept
  <2> QED
    BY <1>1, <2>1 DEF HoldsJob
<1>5. HoldsRom(g)'
  <2>1. HoldsJob(g)
    BY <1>2 DEF JobsKept
  <2>2. content[g] \in Files /\ content[g].rom # "other"
    BY <2>1 DEF HoldsJob, GoodChecksum, CrcOk
  <2>3. release'[g] = settings.next
    BY <1>2 DEF RunType
  <2>4. Len(asked) \in g..Len(asked) /\ Len(asked) > 0
    BY DEF Runs, PageType
  <2>5. asked[Len(asked)].next = settings.next
    BY <2>4 DEF JobsKept
  <2> QED
    BY <1>1, <2>2, <2>3, <2>4, <2>5 DEF HoldsRom, Patchable
<1>6. ASSUME NEW r \in Runs, r # g, pc'[r] = "fetching" PROVE HoldsRom(r)'
  <2>1. HoldsRom(r) /\ release'[r] = release[r]
    BY <1>2, <1>6 DEF JobsKept, RunType
  <2> QED
    BY <1>1, <2>1 DEF HoldsRom, Patchable
<1>7. Len(asked') > 0 => settings'.next = asked'[Len(asked')].next
  BY DEF JobsKept
<1> QED
  BY <1>1, <1>4, <1>5, <1>6, <1>7 DEF JobsKept

LEMMA JobsKeptOtherwise ==
  ASSUME JobsKept, UNCHANGED <<pc, content, release, settings, asked>>
  PROVE  JobsKept'
<1>1. Runs' = Runs
  BY DEF Runs
<1>2. ASSUME NEW r, HoldsJob(r) PROVE HoldsJob(r)'
  BY <1>2 DEF HoldsJob
<1>3. ASSUME NEW r, HoldsRom(r) PROVE HoldsRom(r)'
  BY <1>3 DEF HoldsRom, Patchable
<1> QED
  BY <1>1, <1>2, <1>3 DEF JobsKept

LEMMA JobsKeptStep == ASSUME RunType, PageType, JobsKept, [Next]_vars PROVE JobsKept'
<1>1. ASSUME NEW r \in Runs, Run(r) PROVE JobsKept'
  BY <1>1, JobsKeptByEnd, JobsKeptByChecksum, JobsKeptOtherwise
     DEF Run, FileRead, TooLarge, BadChecksum, ReadFails, FetchFails, PartFetched, Patched
<1>2. CASE PickFile \/ TickBox \/ UNCHANGED vars
  BY <1>2, JobsKeptOtherwise DEF PickFile, TickBox, vars, runVars
<1> QED
  BY <1>1, <1>2, JobsKeptByClick DEF Next

-----------------------------------------------------------------------------
(* Each step of the page is a step of PatchJobs, or none.                  *)

Open == {r \in Runs : Waits(r)}

LEMMA ClickIsAsk ==
  ASSUME RunType, PageType, Click
  PROVE  Abs!Ask
<1> DEFINE n == Len(asked)
           where == IF listening /\ picked # NoFile THEN "reading" ELSE "ended"
<1>1. PICK e \in [file : Files \cup {NoFile}, easy : BOOLEAN, next : BOOLEAN] :
        /\ asked' = Append(asked, e)
        /\ e = [file |-> IF listening THEN picked ELSE NoFile,
                easy |-> boxes.easy, next |-> boxes.next]
  BY ClickAsks
<1>2. n \in Nat /\ Runs = 1..n /\ Runs' = 1..n + 1
  BY <1>1, RunsGrow
<1>3. pc' = Append(pc, where) /\ where \in {"reading", "fetching", "ended"}
  BY DEF Click, Started
<1>4. pc'[n + 1] = where /\ \A r \in 1..n : pc'[r] = pc[r]
  <2> HIDE DEF n, where
  <2> QED
    BY <1>2, <1>3, Appended DEF RunType
<1>5. IF where = "ended" THEN Open' = Open ELSE Open' = Open \cup {n + 1}
  <2> HIDE DEF n, where
  <2>1. \A r : r \in Open <=> r \in 1..n /\ pc[r] # "ended"
    BY <1>2 DEF Open, Waits
  <2>2. \A r : r \in Open' <=> r \in 1..n + 1 /\ pc'[r] # "ended"
    BY <1>2 DEF Open, Waits
  <2>3. \A r : r \in 1..n + 1 <=> r \in 1..n \/ r = n + 1
    BY <1>2
  <2>4. ~(n + 1 \in 1..n)
    BY <1>2
  <2> QED
    BY <1>4, <2>1, <2>2, <2>3, <2>4
<1>6. where # "ended" => e.file # NoFile
  BY <1>1
<1>7. UNCHANGED images
  BY DEF Click
<1> HIDE DEF where
<1> QED
  BY <1>1, <1>5, <1>6, <1>7 DEF Abs!Ask, Abs!Request, Open

\* A run that ends is closed; its other variables do not matter any more.
LEMMA EndCloses ==
  ASSUME RunType, NEW r \in Runs, Ends(r), UNCHANGED asked
  PROVE  Open' = Open \ {r}
  BY DEF Ends, RunType, Open, Waits, Runs

LEMMA StillOpen ==
  ASSUME RunType, UNCHANGED asked,
         \/ UNCHANGED pc
         \/ \E r \in Runs : pc[r] = "reading" /\ pc' = [pc EXCEPT ![r] = "fetching"]
  PROVE  Open' = Open
<1>1. CASE UNCHANGED pc
  BY <1>1 DEF Open, Waits, Runs
<1>2. ASSUME NEW r \in Runs, pc[r] = "reading", pc' = [pc EXCEPT ![r] = "fetching"]
      PROVE  Open' = Open
  BY <1>2 DEF RunType, Open, Waits, Runs
<1> QED
  BY <1>1, <1>2

LEMMA EndIsGiveUp ==
  ASSUME RunType, NEW r \in Runs, pc[r] # "ended", Ends(r), UNCHANGED <<asked, images>>
  PROVE  Abs!GiveUp(r)
<1>1. r \in Open
  BY DEF Open, Waits
<1> QED
  BY <1>1, EndCloses DEF Abs!GiveUp, Open

\* The image is of the file that was asked for; its options are those of two
\* clicks, neither of them before the run's own.
LEMMA PatchedIsDeliver ==
  ASSUME RunType, PageType, JobsKept, NEW r \in Runs, Patched(r)
  PROVE  Abs!Deliver(r)
<1>1. HoldsJob(r) /\ HoldsRom(r) /\ r \in Open
  BY DEF JobsKept, Patched, Open, Waits
<1>2. asked[r].file \in Patchable
  BY <1>1 DEF HoldsJob, HoldsRom
<1>3. PICK p \in r..Len(asked) : asked[p].easy = settings.easy
  BY <1>1 DEF HoldsJob
<1>4. PICK q \in r..Len(asked) : asked[q].next = release[r]
  BY <1>1 DEF HoldsRom
<1>5. images' = images \cup {[job |-> r, file |-> asked[r].file,
                             easy |-> asked[p].easy, next |-> asked[q].next]}
  BY <1>1, <1>3, <1>4 DEF Patched, OptionsOf, HoldsJob
<1>6. Open' = Open \ {r} /\ UNCHANGED asked
  BY EndCloses DEF Patched
<1> QED
  BY <1>1, <1>2, <1>5, <1>6 DEF Abs!Deliver, Open

LEMMA StepIsJobStep ==
  ASSUME RunType, PageType, JobsKept, [Next]_vars
  PROVE  Abs!JobsNext \/ UNCHANGED <<asked, Open, images>>
<1>1. ASSUME NEW r \in Runs, Run(r) PROVE Abs!JobsNext \/ UNCHANGED <<asked, Open, images>>
  <2>1. r \in 1..Len(asked)
    BY DEF Runs
  <2>2. CASE Patched(r)
    BY <2>1, <2>2, PatchedIsDeliver DEF Abs!JobsNext, Abs!Jobs
  <2>3. CASE FetchFails(r)
    <3>1. Abs!GiveUp(r)
      BY <2>3, EndIsGiveUp DEF FetchFails
    <3> QED
      BY <2>1, <3>1 DEF Abs!JobsNext, Abs!Jobs
  <2>4. CASE PartFetched(r)
    BY <2>4, StillOpen DEF PartFetched
  <2>5. CASE FileRead(r) /\ GoodChecksum(r)
    BY <2>5, StillOpen DEF FileRead, GoodChecksum
  <2>6. CASE FileRead(r) /\ (TooLarge(r) \/ BadChecksum(r) \/ ReadFails(r))
    <3>1. pc[r] # "ended" /\ Ends(r) /\ UNCHANGED <<asked, images>>
      BY <2>6 DEF FileRead, TooLarge, BadChecksum, ReadFails
    <3>2. Abs!GiveUp(r)
      BY <3>1, EndIsGiveUp
    <3> QED
      BY <2>1, <3>2 DEF Abs!JobsNext, Abs!Jobs
  <2> QED
    BY <1>1, <2>2, <2>3, <2>4, <2>5, <2>6 DEF Run, FileRead
<1>2. CASE Click
  BY <1>2, ClickIsAsk DEF Abs!JobsNext
<1>3. CASE PickFile \/ TickBox \/ UNCHANGED vars
  BY <1>3, StillOpen DEF PickFile, TickBox, vars, runVars
<1> QED
  BY <1>1, <1>2, <1>3 DEF Next

-----------------------------------------------------------------------------
LEMMA WebStart == Init => RunType /\ PageType /\ JobsKept /\ NativeOrder /\ Open = {}
<1> SUFFICES ASSUME Init PROVE RunType /\ PageType /\ JobsKept /\ NativeOrder /\ Open = {}
  OBVIOUS
<1>1. Len(asked) = 0 /\ Runs = {}
  BY DEF Init, Runs
<1>2. PageType
  BY DEF Init, PageType, Options
<1>3. RunType
  BY <1>1 DEF Init, RunType
<1> QED
  BY <1>1, <1>2, <1>3 DEF JobsKept, NativeOrder, Open

\* The page, its runs and its downloads are of their kinds.
THEOREM WebTypes == Spec => []TypeOK
<1> DEFINE Types == /\ RunType /\ PageType /\ listening \in BOOLEAN
                    /\ shown \in [error : {"", "select", "large", "checksum"},
                                  warning : BOOLEAN]
<1>1. Init => Types
  <2> SUFFICES ASSUME Init PROVE Types
    OBVIOUS
  <2>1. RunType /\ PageType
    BY WebStart
  <2>2. /\ listening \in BOOLEAN
        /\ shown \in [error : {"", "select", "large", "checksum"}, warning : BOOLEAN]
    BY DEF Init, Cleared
  <2> QED
    BY <2>1, <2>2
<1>2. Types /\ [Next]_vars => Types'
  <2> SUFFICES ASSUME Types, [Next]_vars PROVE Types'
    OBVIOUS
  <2>1. RunType' /\ PageType'
    BY RunTypeStep, PageTypeStep
  <2>2. listening' \in BOOLEAN
    BY DEF Next, PickFile, TickBox, Click, Run, FileRead, PartFetched, FetchFails, Patched,
           pageVars, vars
  <2>3. ASSUME NEW r \in Runs, Run(r)
        PROVE  shown' \in [error : {"", "select", "large", "checksum"}, warning : BOOLEAN]
    BY <2>3 DEF Run, FileRead, TooLarge, BadChecksum, GoodChecksum, ReadFails, PartFetched,
                FetchFails, Patched, Cleared
  <2>4. shown' \in [error : {"", "select", "large", "checksum"}, warning : BOOLEAN]
    BY <2>3 DEF Next, PickFile, TickBox, Click, vars
  <2> QED
    BY <2>1, <2>2, <2>4
<1>3. Types => TypeOK
  BY DEF RunType, PageType, TypeOK
<1> QED
  BY <1>1, <1>2, <1>3, PTL DEF Spec

\* Bytes that are patched are in the machine's order: the checksum is taken of
\* the order it has, whichever name decided it.
THEOREM NativeAlways == Spec => []NativeOrder
<1> DEFINE Inv == RunType /\ PageType /\ NativeOrder
<1>1. Init => Inv
  BY WebStart
<1>2. Inv /\ [Next]_vars => Inv'
  <2> SUFFICES ASSUME Inv, [Next]_vars PROVE Inv'
    OBVIOUS
  <2>1. RunType' /\ PageType'
    BY RunTypeStep, PageTypeStep
  <2>2. CASE Click
    <3> DEFINE n == Len(asked)
               where == IF listening /\ picked # NoFile THEN "reading" ELSE "ended"
               o == IF where = "ended" THEN "native" ELSE picked.order
    <3>1. n \in Nat /\ Runs = 1..n /\ Runs' = 1..n + 1
      BY <2>2, ClickAsks, RunsGrow
    <3>2. /\ pc' = Append(pc, where) /\ where \in {"reading", "ended"}
          /\ order' = Append(order, o)
      BY <2>2 DEF Click, Started
    <3>3. o \in Orders
      BY FilesAssumption DEF PageType, Orders
    <3> HIDE DEF n, where, o
    <3>4. pc'[n + 1] = where /\ \A r \in 1..n : pc'[r] = pc[r]
      BY <3>1, <3>2, Appended DEF RunType
    <3>5. \A r \in 1..n : order'[r] = order[r]
      BY <3>1, <3>2, <3>3, Appended DEF RunType
    <3>6. ASSUME NEW r \in 1..n + 1, pc'[r] = "fetching" PROVE order'[r] = "native"
      <4>1. r \in 1..n
        <5>1. r # n + 1
          BY <3>2, <3>4, <3>6
        <5> QED
          BY <3>1, <5>1
      <4> QED
        BY <3>1, <3>4, <3>5, <3>6, <4>1 DEF NativeOrder
    <3>7. NativeOrder'
      BY <3>1, <3>6 DEF NativeOrder
    <3> QED
      BY <2>1, <3>7
  <2>3. ASSUME NEW r \in Runs, Run(r) PROVE NativeOrder'
    <3>1. Runs' = Runs
      BY <2>3 DEF Run, FileRead, PartFetched, FetchFails, Patched, Runs
    <3>2. CASE Ends(r)
      BY <3>1, <3>2 DEF Ends, RunType, NativeOrder
    <3>3. CASE GoodChecksum(r)
      BY <3>1, <3>3 DEF GoodChecksum, CrcOk, RunType, NativeOrder
    <3>4. CASE PartFetched(r)
      BY <3>1, <3>4 DEF PartFetched, NativeOrder
    <3> QED
      BY <2>3, <3>2, <3>3, <3>4
         DEF Run, FileRead, TooLarge, BadChecksum, ReadFails, FetchFails, Patched
  <2>4. CASE PickFile \/ TickBox \/ UNCHANGED vars
    <3>1. NativeOrder'
      BY <2>4 DEF PickFile, TickBox, vars, runVars, NativeOrder, Runs
    <3> QED
      BY <2>1, <3>1
  <2> QED
    BY <2>1, <2>2, <2>3, <2>4 DEF Next
<1>3. Inv => NativeOrder
  OBVIOUS
<1> QED
  BY <1>1, <1>2, <1>3, PTL DEF Spec

\* The web patcher implements PatchJobs: a job ends with an image of its own
\* file, with options of its click or of later ones, or with nothing.
THEOREM PatcherKeepsJobs == Spec => KeepsJobs
<1> DEFINE Inv == RunType /\ PageType /\ JobsKept
<1>1. Init => Inv /\ Abs!JobsInit
  BY WebStart DEF Init, Abs!JobsInit, Open
<1>2. Inv /\ [Next]_vars => Inv'
  BY RunTypeStep, PageTypeStep, JobsKeptStep
<1>3. Inv /\ [Next]_vars => [Abs!JobsNext]_Abs!jobVars
  BY StepIsJobStep DEF Abs!jobVars, Open
<1> QED
  BY <1>1, <1>2, <1>3, PTL DEF Spec, KeepsJobs, Abs!JobsSpec

-----------------------------------------------------------------------------
(* The runs wind down.                                                     *)

\* Steps that the run r may still take.
StepsLeft(r) ==
  CASE pc[r] = "reading"  -> Parts + 2
    [] pc[r] = "fetching" -> Parts + 1 - fetched[r]
    [] OTHER              -> 0

LEMMA RunGoesOn ==
  ASSUME RunType, NEW r \in Runs, Run(r)
  PROVE  StepsLeft(r)' < StepsLeft(r)
<1>1. pc[r] \in {"reading", "fetching"} /\ fetched[r] \in 0..Parts /\ StepsLeft(r) > 0
  BY DEF RunType, Parts, StepsLeft, Run, FileRead, TooLarge, BadChecksum, GoodChecksum,
         ReadFails, PartFetched, FetchFails, Patched
<1>2. CASE Ends(r)
  <2>1. pc'[r] = "ended"
    BY <1>2 DEF Ends, RunType
  <2> QED
    BY <1>1, <2>1 DEF StepsLeft
<1>3. CASE GoodChecksum(r)
  <2>1. pc[r] = "reading" /\ pc'[r] = "fetching" /\ fetched'[r] = fetched[r]
    BY <1>3 DEF GoodChecksum, RunType
  <2> QED
    BY <1>1, <2>1 DEF StepsLeft, Parts
<1>4. CASE PartFetched(r)
  <2>1. pc[r] = "fetching" /\ pc'[r] = "fetching" /\ fetched'[r] = fetched[r] + 1
    BY <1>4 DEF PartFetched, RunType
  <2> QED
    BY <1>1, <2>1 DEF StepsLeft, Parts
<1> QED
  BY <1>2, <1>3, <1>4
     DEF Run, FileRead, TooLarge, BadChecksum, ReadFails, FetchFails, Patched

\* The others neither gain nor lose by a step of one run, nor any by what the
\* user does.
LEMMA OthersWait ==
  ASSUME RunType, PageType, Next, NEW r \in Runs, ~Run(r)
  PROVE  StepsLeft(r)' = StepsLeft(r)
<1>1. ASSUME NEW q \in Runs, Run(q) PROVE StepsLeft(r)' = StepsLeft(r)
  <2>1. q # r
    BY <1>1
  <2>2. pc'[r] = pc[r] /\ fetched'[r] = fetched[r]
    BY <1>1, <2>1 DEF RunType, Run, FileRead, TooLarge, BadChecksum, GoodChecksum, ReadFails,
                      PartFetched, FetchFails, Patched, Ends
  <2> QED
    BY <2>2 DEF StepsLeft
<1>2. CASE Click
  <2> DEFINE where == IF listening /\ picked # NoFile THEN "reading" ELSE "ended"
             n     == Len(asked)
  <2>1. n \in Nat /\ Runs = 1..n
    BY <1>2, ClickAsks, RunsGrow
  <2>2. /\ pc' = Append(pc, where) /\ where \in {"reading", "fetching", "ended"}
        /\ fetched' = Append(fetched, 0)
    BY <1>2 DEF Click, Started
  <2>3. 0 \in 0..Parts
    BY DEF Parts
  <2> HIDE DEF where, n
  <2>4. pc'[r] = pc[r]
    BY <2>1, <2>2, Appended DEF RunType
  <2>5. fetched'[r] = fetched[r]
    BY <2>1, <2>2, <2>3, Appended DEF RunType
  <2> QED
    BY <2>4, <2>5 DEF StepsLeft
<1>3. CASE PickFile \/ TickBox
  BY <1>3 DEF PickFile, TickBox, runVars, StepsLeft
<1> QED
  BY <1>1, <1>2, <1>3 DEF Next

\* A run waits for no more than its file, the three parts and the checksum
\* that follows; each of its steps brings its end nearer, and neither the user
\* nor another run puts it off (patcher.js:61-95): what RunsEnd says, but for
\* the answers being given.
THEOREM RunsWindDown ==
  Spec => [][\A r \in Runs :
               /\ StepsLeft(r) \in 0..Parts + 2
               /\ Waits(r) => StepsLeft(r) > 0
               /\ Run(r) => StepsLeft(r)' < StepsLeft(r)
               /\ ~Run(r) => StepsLeft(r)' = StepsLeft(r)]_vars
<1> DEFINE Inv  == RunType /\ PageType
           Step == \A r \in Runs :
                     /\ StepsLeft(r) \in 0..Parts + 2
                     /\ Waits(r) => StepsLeft(r) > 0
                     /\ Run(r) => StepsLeft(r)' < StepsLeft(r)
                     /\ ~Run(r) => StepsLeft(r)' = StepsLeft(r)
<1>1. Init => Inv
  BY WebStart
<1>2. Inv /\ [Next]_vars => Inv'
  BY RunTypeStep, PageTypeStep
<1>3. Inv /\ [Next]_vars => [Step]_vars
  <2> SUFFICES ASSUME Inv, Next, NEW r \in Runs
               PROVE  /\ StepsLeft(r) \in 0..Parts + 2
                      /\ Waits(r) => StepsLeft(r) > 0
                      /\ Run(r) => StepsLeft(r)' < StepsLeft(r)
                      /\ ~Run(r) => StepsLeft(r)' = StepsLeft(r)
    OBVIOUS
  <2>1. pc[r] \in {"reading", "fetching", "ended"} /\ fetched[r] \in 0..Parts
    BY DEF RunType
  <2>2. StepsLeft(r) \in 0..Parts + 2 /\ (Waits(r) => StepsLeft(r) > 0)
    BY <2>1 DEF StepsLeft, Waits, Parts
  <2> QED
    BY <2>2, RunGoesOn, OthersWait
<1> QED
  BY <1>1, <1>2, <1>3, PTL DEF Spec
=============================================================================
