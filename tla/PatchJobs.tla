----------------------------- MODULE PatchJobs -----------------------------
(***************************************************************************)
(* What the web patcher promises, without its promises: every click is a   *)
(* job, and a job ends with a patched image of the file it was asked for,  *)
(* or with nothing.  The options are those of the click or, if the user    *)
(* clicked again meanwhile, of a later one.                                *)
(***************************************************************************)
EXTENDS Naturals, Sequences

CONSTANTS
  Files,      \* what can be picked
  NoFile,     \* nothing picked
  Patchable   \* files the patcher may turn into an image

VARIABLES
  asked,      \* the jobs, in the order of the clicks
  open,       \* the jobs that have not ended
  images      \* what was downloaded

jobVars == <<asked, open, images>>

Jobs == 1..Len(asked)

Request == [file : Files \cup {NoFile}, easy : BOOLEAN, next : BOOLEAN]
Image   == [job : Nat, file : Patchable, easy : BOOLEAN, next : BOOLEAN]

JobsInit == asked = <<>> /\ open = {} /\ images = {}

\* A job may end at once, and does if there is nothing to patch.
Ask ==
  \E request \in Request :
    /\ asked' = Append(asked, request)
    /\ \/ open' = open
       \/ request.file # NoFile /\ open' = open \cup {Len(asked) + 1}
    /\ UNCHANGED images

\* Options of the job's own click or of a later one, each for itself.
Deliver(j) ==
  /\ j \in open
  /\ asked[j].file \in Patchable
  /\ open' = open \ {j}
  /\ \E p, q \in j..Len(asked) :
       images' = images \cup {[job |-> j, file |-> asked[j].file,
                              easy |-> asked[p].easy, next |-> asked[q].next]}
  /\ UNCHANGED asked

GiveUp(j) ==
  /\ j \in open
  /\ open' = open \ {j}
  /\ UNCHANGED <<asked, images>>

JobsNext == Ask \/ \E j \in Jobs : Deliver(j) \/ GiveUp(j)

JobsSpec == JobsInit /\ [][JobsNext]_jobVars
=============================================================================
