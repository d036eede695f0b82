---------------------------- MODULE CloneBuffer ----------------------------
(***************************************************************************)
(* A backup, word by word (logic.c): clone_actors writes one record after  *)
(* the other, an address, a size and the bytes, then a 0 and the random    *)
(* number; restore_actors reads them back without knowing what they are.   *)
(* Savestate models when this happens; here is what it writes where.       *)
(***************************************************************************)
EXTENDS Integers, Sequences, FiniteSetsExt, Powers

CONSTANTS
  ByteValues,   \* 256
  WordBytes,    \* 4
  LevelRam,     \* the addresses objects lie at, never 0
  Contents,     \* what the game leaves in them
  Levels,       \* the lists of objects a map can have: see LevelOK
  Names,        \* of objects in the bank, cut to what clone_obj compares
  RngValues,
  AreaWords,    \* ACTOR_HEAP_SIZE
  ActorSize, PropertiesSize, CollisionSize,
  SwitchSize, PuzzleSize, ConditionSize, CameraSize

NULL == 0

Word == 0..Power(ByteValues, WordBytes) - 1

CloneNames == {"Plat_Plane", "Act_Stats", "Garib", "UniqAct", "Instruct", "Uniq"}

VARIABLES
  level,      \* the level that is up: where its objects are
  level_ram,  \* their bytes
  rng,
  area,       \* the bytes of a slot's area
  saved,      \* history: objects, bytes and random number of the last backup
  restored    \* history: this backup was copied back a moment ago

cloneVars == <<level, level_ram, rng, area, saved, restored>>

-----------------------------------------------------------------------------
(* The lists of the game.  The first three loop back to their beginning,   *)
(* the bank ends with an empty name; none is empty.                        *)

Pointer == LevelRam \cup {NULL}
Actor  == [at : LevelRam, pproperties : Pointer, pcollision : Pointer]
Switch == [at : LevelRam, ppuzzle1 : Pointer, ppuzzle2 : Pointer,
           pcond1 : Pointer, pcond2 : Pointer]
Object == [name : Names, pdata : Pointer, size : Word]

\* What a list points to lies in memory, to its last byte.
Piece(at, size) == [at |-> at, size |-> size]
Bytes(part) == part.at..part.at + part.size - 1

ActorPieces(a) ==
  {Piece(a.at, ActorSize), Piece(a.pproperties, PropertiesSize),
   Piece(a.pcollision, CollisionSize)}
SwitchPieces(s) ==
  {Piece(s.at, SwitchSize), Piece(s.ppuzzle1, PuzzleSize), Piece(s.ppuzzle2, PuzzleSize),
   Piece(s.pcond1, ConditionSize), Piece(s.pcond2, ConditionSize)}
ObjectPieces(o) == {Piece(o.pdata, o.size)}

NotNull(pieces) == {p \in pieces : p.at # NULL}
Fits(pieces) == \A p \in NotNull(pieces) : Bytes(p) \subseteq LevelRam

LevelOK(l) ==
  /\ l.actors \in Seq(Actor) \ {<<>>} /\ l.switches \in Seq(Switch) \ {<<>>}
  /\ l.bank \in Seq(Object) \ {<<>>} /\ l.camera \in LevelRam
  /\ \A a \in Range(l.actors) : Fits(ActorPieces(a))
  /\ \A s \in Range(l.switches) : Fits(SwitchPieces(s))
  /\ \A o \in Range(l.bank) : Fits(ObjectPieces(o))
  /\ Fits({Piece(l.camera, CameraSize)})

ASSUME CloneBufferAssumption ==
  /\ ByteValues \in Nat \ {0, 1} /\ WordBytes \in Nat \ {0} /\ AreaWords \in Nat
  /\ LevelRam \subseteq Word \ {NULL}
  /\ Contents \subseteq [LevelRam -> 0..ByteValues - 1]
  /\ RngValues \subseteq Word
  /\ {ActorSize, PropertiesSize, CollisionSize, SwitchSize,
      PuzzleSize, ConditionSize, CameraSize} \subseteq Word
  /\ \A l \in Levels : LevelOK(l)

\* Mutant: an empty record for a pointer that is NULL.
AdditionalNull(src, size) == <<[at |-> src, size |-> IF src = NULL THEN 0 ELSE size]>>

\* clone_additional: a pointer that is NULL has no record.
Additional(src, size) == IF src = NULL THEN <<>> ELSE <<[at |-> src, size |-> size]>>

ActorParts(a) ==
  <<[at |-> a.at, size |-> ActorSize]>>
    \o Additional(a.pproperties, PropertiesSize)
    \o Additional(a.pcollision, CollisionSize)

SwitchParts(s) ==
  Additional(s.at, SwitchSize)
    \o Additional(s.ppuzzle1, PuzzleSize) \o Additional(s.ppuzzle2, PuzzleSize)
    \o Additional(s.pcond1, ConditionSize) \o Additional(s.pcond2, ConditionSize)

\* clone_obj: platforms, actors' states and garibs only.
CloneObj(o) == o.name \in CloneNames

ObjectParts(o) == IF CloneObj(o) THEN Additional(o.pdata, o.size) ELSE <<>>

\* The sequences of seqs one after the other, the first i of them; and all.
UpTo(seqs) ==
  LET upto[i \in 0..Len(seqs)] == IF i = 0 THEN <<>> ELSE upto[i - 1] \o seqs[i]
  IN upto
Flat(seqs) == UpTo(seqs)[Len(seqs)]

Each(seq, Parts(_)) == Flat([i \in 1..Len(seq) |-> Parts(seq[i])])

CloneParts(l) ==
  Each(l.actors, ActorParts) \o Each(l.switches, SwitchParts)
    \o Each(l.bank, ObjectParts) \o Additional(l.camera, CameraSize)

-----------------------------------------------------------------------------
(* The area, as bytes; the upper byte of a word is the first.              *)

BytesOf(v) ==
  [i \in 1..WordBytes |-> (v \div Power(ByteValues, WordBytes - i)) % ByteValues]

WordOf(mem, w) ==
  LET sum[i \in 0..WordBytes] ==
        IF i = 0 THEN 0 ELSE ByteValues * sum[i - 1] + mem[WordBytes * w + i]
  IN sum[WordBytes]

\* What is left of a record: the pointer moves by whole words, and the next
\* one is written from there, over the rest.
Record(part) ==
  BytesOf(part.at) \o BytesOf(part.size)
    \o [i \in 1..WordBytes * (part.size \div WordBytes) |-> level_ram[part.at + i - 1]]

Stored(parts) ==
  LET list == Each(parts, Record) \o BytesOf(0) \o BytesOf(rng) IN
  list \o SubSeq(area, Len(list) + 1, Len(area))

\* Behind the end of the list.
RngWord(end) == WordOf(area, end + 1)

\* Mutant: whole words are copied back.
CopySizeRounded(p) ==
  ((WordOf(area, p + 1) + WordBytes - 1) \div WordBytes) * WordBytes

\* Of the record at p: bytes copied back, and where they go.
CopySize(p) == WordOf(area, p + 1)
Target(p) == WordOf(area, p)..WordOf(area, p) + CopySize(p) - 1

\* Where the records are, up to the first that begins with a 0.
Pointers ==
  LET at[i \in 0..Len(area)] ==
        IF i = 0 THEN 0
        ELSE at[i - 1] + 2 + (WordOf(area, at[i - 1] + 1) \div WordBytes)
      n == CHOOSE n \in 1..Len(area) :
             /\ WordOf(area, at[n]) = 0
             /\ \A m \in 1..n - 1 : WordOf(area, at[m]) # 0
  IN [i \in 1..n + 1 |-> at[i - 1]]

\* Every byte is the last record's that has it.
Restored(pointers) ==
  [b \in LevelRam |->
     LET hits == {p \in {pointers[i] : i \in 1..Len(pointers) - 1} : b \in Target(p)} IN
     IF hits = {} THEN level_ram[b]
     ELSE area[WordBytes * (Max(hits) + 2) + 1 + b - WordOf(area, Max(hits))]]

-----------------------------------------------------------------------------
Backup(parts, objects) ==
  /\ area' = Stored(parts)
  /\ saved' = [objects |-> objects, ram |-> level_ram, rng |-> rng]
  /\ restored' = FALSE
  /\ UNCHANGED <<level, level_ram, rng>>

\* History: what is to be in a backup, in no order.
BankPieces(l, P(_)) == UNION {ObjectPieces(o) : o \in {o \in Range(l.bank) : P(o)}}
Pieces(l) ==
  NotNull((UNION {ActorPieces(a) : a \in Range(l.actors)})
            \cup (UNION {SwitchPieces(s) : s \in Range(l.switches)})
            \cup BankPieces(l, CloneObj) \cup {Piece(l.camera, CameraSize)})

CloneActors == Backup(CloneParts(level), Pieces(level))

\* Every object of the bank, and no actor.
AnyParts(o) == Additional(o.pdata, o.size)
AnyObject(o) == TRUE

CloneObjBank ==
  Backup(Each(level.bank, AnyParts) \o Additional(level.camera, CameraSize),
         NotNull(BankPieces(level, AnyObject) \cup {Piece(level.camera, CameraSize)}))

\* Of an area never written Savestate says what happens.
RestoreActors ==
  /\ saved # <<>>
  /\ level_ram' = Restored(Pointers) /\ rng' = RngWord(Pointers[Len(Pointers)])
  /\ restored' = TRUE
  /\ UNCHANGED <<level, area, saved>>

\* Objects come, go and change; the lists too.
GamePlays ==
  /\ level' \in Levels /\ level_ram' \in Contents /\ rng' \in RngValues
  /\ restored' = FALSE
  /\ UNCHANGED <<area, saved>>

CloneInit ==
  /\ level \in Levels /\ level_ram \in Contents /\ rng \in RngValues
  /\ area = [b \in 1..WordBytes * AreaWords |-> 0] /\ saved = <<>> /\ restored = FALSE

CloneNext == CloneActors \/ CloneObjBank \/ RestoreActors \/ GamePlays

CloneSpec == CloneInit /\ [][CloneNext]_cloneVars

-----------------------------------------------------------------------------
\* The bytes of a last, incomplete word: the next record lies over them.
TornBytes(part) ==
  part.at + WordBytes * (part.size \div WordBytes)..part.at + part.size - 1

Whole(parts) ==
  (UNION {Bytes(p) : p \in parts}) \ (UNION {TornBytes(p) : p \in parts})

\* A restore brings back the random number and every byte of what was saved,
\* through NULL pointers, shared objects and objects of any size, but for the
\* bytes of an incomplete last word (logic.c:404-418, 619-639).
RestoreBringsBack ==
  restored =>
    /\ rng = saved.rng
    /\ \A b \in Whole(saved.objects) : level_ram[b] = saved.ram[b]

\* It writes nothing else, whatever has become of the level's lists since
\* (logic.c:628-633).
RestoreTouchesOnly ==
  [][restored' =>
       \A b \in LevelRam : level_ram'[b] # level_ram[b] =>
         \E p \in saved.objects : b \in Bytes(p)]_cloneVars
=============================================================================
