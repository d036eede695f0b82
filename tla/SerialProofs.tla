---------------------------- MODULE SerialProofs ----------------------------
(***************************************************************************)
(* The blocks of the USB link: of their kinds, and the answers in order.   *)
(* The argument follows a block from the host to its answer: what is on    *)
(* the way is ordered, and every answer written so far belongs to a        *)
(* command before any whose first block is still to come.                  *)
(***************************************************************************)
EXTENDS SerialLink, TLAPS

Ordered(s) == \A i, j \in 1..Len(s) : i < j => Before(s[i], s[j])

Ahead(s, t) == \A i \in 1..Len(s), j \in 1..Len(t) : Before(s[i], t[j])

\* The answers in s are to commands before those that begin in t.
Answered(s, t) ==
  \A i \in 1..Len(s), j \in 1..Len(t) : t[j].part = 1 => s[i].cmd < t[j].cmd

WasSent(s) == \A i \in 1..Len(s) : s[i].cmd <= Sent

BlockType ==
  /\ {transit, down, out, up} \subseteq Seq(Block)
  /\ first \in Block \cup {NoBlock}
  /\ console = "reads" => first \in Block
  /\ console = "writes" <=> out # <<>>

-----------------------------------------------------------------------------
(* Sequences of blocks.                                                    *)

LEMMA PartsType ==
  ASSUME NEW n \in 1..MaxSent, NEW count \in 1..ListenBlocks
  PROVE  /\ Parts(n, count) \in Seq(Block)
         /\ Len(Parts(n, count)) = count
         /\ \A k \in 1..count : Parts(n, count)[k] = [cmd |-> n, part |-> k]
  BY LinkAssumption DEF Parts, Block

LEMMA PartsOrdered ==
  ASSUME NEW n \in 1..MaxSent, NEW count \in 1..ListenBlocks
  PROVE  Ordered(Parts(n, count))
<1> SUFFICES ASSUME NEW i \in 1..count, NEW j \in 1..count, i < j
             PROVE  Before(Parts(n, count)[i], Parts(n, count)[j])
  BY PartsType DEF Ordered
<1>1. /\ Parts(n, count)[i] = [cmd |-> n, part |-> i]
      /\ Parts(n, count)[j] = [cmd |-> n, part |-> j]
  BY PartsType
<1> QED
  BY <1>1 DEF Before

LEMMA TwoParts == ASSUME Sent < MaxSent, Sent \in Nat
                  PROVE  Sent + 1 \in 1..MaxSent /\ 2 \in 1..ListenBlocks
  BY LinkAssumption

\* An answer is a sequence of ordered blocks that carry the command's number.
LEMMA AnswerType ==
  ASSUME NEW b \in Block
  PROVE  /\ Answer(b) \in Seq(Block)
         /\ Ordered(Answer(b))
         /\ \A i \in 1..Len(Answer(b)) : Answer(b)[i].cmd = b.cmd /\ b.part = 1
<1> DEFINE c == IF kinds[b.cmd] = "listen" THEN ListenBlocks ELSE 2
<1>1. b.cmd \in 1..MaxSent /\ c \in 1..ListenBlocks
  BY LinkAssumption DEF Block
<1>2. CASE Answer(b) = <<>>
  BY <1>2 DEF Ordered
<1>3. CASE Answer(b) = Parts(b.cmd, c) /\ b.part = 1
  <2> HIDE DEF c
  <2>1. Parts(b.cmd, c) \in Seq(Block) /\ Ordered(Parts(b.cmd, c)) /\ Len(Parts(b.cmd, c)) = c
    BY <1>1, PartsType, PartsOrdered
  <2>2. ASSUME NEW i \in 1..c PROVE Parts(b.cmd, c)[i].cmd = b.cmd
    <3>1. Parts(b.cmd, c)[i] = [cmd |-> b.cmd, part |-> i]
      BY <1>1, PartsType
    <3> QED
      BY <3>1
  <2> QED
    BY <1>3, <2>1, <2>2
<1> QED
  BY <1>2, <1>3 DEF Answer

LEMMA TailOf ==
  ASSUME NEW s \in Seq(Block), s # <<>>
  PROVE  /\ Tail(s) \in Seq(Block) /\ Head(s) \in Block
         /\ Len(Tail(s)) = Len(s) - 1
         /\ Head(s) = s[1]
         /\ \A i \in 1..Len(Tail(s)) : Tail(s)[i] = s[i + 1] /\ i + 1 \in 1..Len(s)
  OBVIOUS

LEMMA RestOf ==
  ASSUME NEW s \in Seq(Block), NEW n \in 0..Len(s)
  PROVE  /\ Rest(s, n) \in Seq(Block)
         /\ Len(Rest(s, n)) = Len(s) - n
         /\ \A i \in 1..Len(Rest(s, n)) : Rest(s, n)[i] = s[i + n] /\ i + n \in 1..Len(s)
  BY DEF Rest

LEMMA AppendOf ==
  ASSUME NEW s \in Seq(Block), NEW b \in Block
  PROVE  /\ Append(s, b) \in Seq(Block)
         /\ Len(Append(s, b)) = Len(s) + 1
         /\ Append(s, b)[Len(s) + 1] = b
         /\ \A i \in 1..Len(s) : Append(s, b)[i] = s[i]
  OBVIOUS

LEMMA ConcatOf ==
  ASSUME NEW s \in Seq(Block), NEW t \in Seq(Block)
  PROVE  /\ s \o t \in Seq(Block)
         /\ Len(s \o t) = Len(s) + Len(t)
         /\ \A i \in 1..Len(s) : (s \o t)[i] = s[i]
         /\ \A i \in 1..Len(t) : (s \o t)[Len(s) + i] = t[i]
         /\ \A i \in 1..Len(s \o t) : i \in 1..Len(s) \/ i - Len(s) \in 1..Len(t)
  OBVIOUS

-----------------------------------------------------------------------------
(* Blocks are blocks.                                                      *)

SentType == kinds \in Seq(Kinds) /\ Sent <= MaxSent

LEMMA SentTypeStep == ASSUME SentType, [Next]_vars PROVE SentType' /\ Sent <= Sent'
<1>1. CASE HostSends
  <2>1. PICK kind \in Kinds : kinds' = Append(kinds, kind)
    BY <1>1 DEF HostSends
  <2> QED
    BY <1>1, <2>1, LinkAssumption DEF HostSends, SentType, Sent
<1>2. CASE UNCHANGED kinds
  BY <1>2, LinkAssumption DEF SentType, Sent
<1> QED
  BY <1>1, <1>2 DEF Next, Terminal, HostReads, Arrives, BeginsRead, EndsRead, ReadTimesOut,
                    Writes, WriteTimesOut, Flushes, vars

LEMMA BlockTypeStep == ASSUME BlockType, SentType, [Next]_vars PROVE BlockType'
<1>s. Sent \in Nat
  BY DEF SentType, Sent
<1>1. CASE HostSends
  <2>1. Parts(Sent + 1, 2) \in Seq(Block)
    BY <1>1, <1>s, TwoParts, PartsType DEF HostSends
  <2> QED
    BY <1>1, <2>1, ConcatOf DEF HostSends, BlockType
<1>2. CASE HostReads
  <2>1. up' = Rest(up, IF Len(up) < 2 THEN Len(up) ELSE 2)
    BY <1>2 DEF HostReads
  <2>2. up' \in Seq(Block)
    <3> DEFINE n == IF Len(up) < 2 THEN Len(up) ELSE 2
    <3>1. n \in 0..Len(up) /\ up \in Seq(Block)
      BY DEF BlockType
    <3> QED
      BY <2>1, <3>1, RestOf
  <2> QED
    BY <1>2, <2>2 DEF HostReads, BlockType
<1>3. CASE Arrives
  BY <1>3, TailOf, AppendOf DEF Arrives, BlockType
<1>4. CASE BeginsRead
  BY <1>4, TailOf DEF BeginsRead, BlockType
<1>5. CASE EndsRead
  <2>1. Answer(first) \in Seq(Block)
    BY <1>5, AnswerType DEF EndsRead, BlockType
  <2> QED
    BY <1>5, <2>1, TailOf DEF EndsRead, BlockType
<1>6. CASE ReadTimesOut
  BY <1>6 DEF ReadTimesOut, BlockType
<1>7. CASE Writes
  <2>1. out # <<>>
    BY <1>7 DEF Writes, BlockType
  <2> QED
    BY <1>7, <2>1, TailOf, AppendOf DEF Writes, BlockType
<1>8. CASE WriteTimesOut
  BY <1>8 DEF WriteTimesOut, BlockType
<1>9. CASE Flushes
  BY <1>9 DEF Flushes, BlockType
<1>10. CASE UNCHANGED vars
  BY <1>10 DEF vars, BlockType
<1> QED
  BY <1>1, <1>2, <1>3, <1>4, <1>5, <1>6, <1>7, <1>8, <1>9,
     <1>10 DEF Next, Terminal

\* The link starts with blocks of their kinds.
LEMMA BlockTypeStart == Init => BlockType /\ SentType
  BY LinkAssumption DEF Init, BlockType, SentType, Sent

-----------------------------------------------------------------------------
(* Order, through the operations on sequences.                             *)

\* The blocks of s are among those of t.
Within(s, t) == \A i \in 1..Len(s) : \E k \in 1..Len(t) : s[i] = t[k]

LEMMA WithinKeeps ==
  ASSUME NEW s, NEW s0, Within(s, s0), NEW t, NEW t0, Within(t, t0)
  PROVE  /\ Ahead(s0, t0) => Ahead(s, t)
         /\ Answered(s0, t0) => Answered(s, t)
         /\ WasSent(s0) => WasSent(s)
<1>1. ASSUME Ahead(s0, t0), NEW i \in 1..Len(s), NEW j \in 1..Len(t) PROVE Before(s[i], t[j])
  <2>1. PICK k \in 1..Len(s0) : s[i] = s0[k]
    BY DEF Within
  <2>2. PICK l \in 1..Len(t0) : t[j] = t0[l]
    BY DEF Within
  <2> QED
    BY <1>1, <2>1, <2>2 DEF Ahead
<1>2. ASSUME Answered(s0, t0), NEW i \in 1..Len(s), NEW j \in 1..Len(t), t[j].part = 1
      PROVE  s[i].cmd < t[j].cmd
  <2>1. PICK k \in 1..Len(s0) : s[i] = s0[k]
    BY DEF Within
  <2>2. PICK l \in 1..Len(t0) : t[j] = t0[l]
    BY DEF Within
  <2> QED
    BY <1>2, <2>1, <2>2 DEF Answered
<1>3. ASSUME WasSent(s0), NEW i \in 1..Len(s) PROVE s[i].cmd <= Sent
  BY <1>3 DEF Within, WasSent
<1> QED
  BY <1>1, <1>2, <1>3 DEF Ahead, Answered, WasSent

LEMMA WithinSelf == \A s : Within(s, s)
  BY DEF Within

LEMMA RestOrder ==
  ASSUME NEW s \in Seq(Block), NEW n \in 0..Len(s), Ordered(s)
  PROVE  Ordered(Rest(s, n)) /\ Within(Rest(s, n), s)
  BY RestOf DEF Ordered, Within

\* The first block goes: it was before the others.
LEMMA TailOrder ==
  ASSUME NEW s \in Seq(Block), s # <<>>, Ordered(s)
  PROVE  /\ Ordered(Tail(s)) /\ Within(Tail(s), s) /\ Within(<<Head(s)>>, s)
         /\ Ahead(<<Head(s)>>, Tail(s))
<1>1. Ordered(Tail(s)) /\ Within(Tail(s), s)
  BY TailOf DEF Ordered, Within
<1>2. 1 \in 1..Len(s)
  OBVIOUS
<1>3. Within(<<Head(s)>>, s)
  BY <1>2, TailOf DEF Within
<1>4. Ahead(<<Head(s)>>, Tail(s))
  BY <1>2, TailOf DEF Ahead, Ordered
<1> QED
  BY <1>1, <1>3, <1>4

LEMMA ConcatOrder ==
  ASSUME NEW s \in Seq(Block), NEW t \in Seq(Block), Ordered(s), Ordered(t), Ahead(s, t)
  PROVE  Ordered(s \o t)
<1> SUFFICES ASSUME NEW i \in 1..Len(s \o t), NEW j \in 1..Len(s \o t), i < j
             PROVE  Before((s \o t)[i], (s \o t)[j])
  BY DEF Ordered
<1>1. CASE j <= Len(s)
  BY <1>1, ConcatOf DEF Ordered
<1>2. CASE i <= Len(s) /\ j > Len(s)
  <2>1. i \in 1..Len(s) /\ j - Len(s) \in 1..Len(t)
    BY <1>2, ConcatOf
  <2>2. (s \o t)[i] = s[i] /\ (s \o t)[j] = t[j - Len(s)]
    BY <2>1, ConcatOf
  <2> QED
    BY <2>1, <2>2 DEF Ahead
<1>3. CASE i > Len(s)
  <2>1. i - Len(s) \in 1..Len(t) /\ j - Len(s) \in 1..Len(t) /\ i - Len(s) < j - Len(s)
    BY <1>3, ConcatOf
  <2>2. (s \o t)[i] = t[i - Len(s)] /\ (s \o t)[j] = t[j - Len(s)]
    BY <2>1, ConcatOf
  <2> QED
    BY <2>1, <2>2 DEF Ordered
<1> QED
  BY <1>1, <1>2, <1>3, ConcatOf

LEMMA ConcatKeeps ==
  ASSUME NEW s \in Seq(Block), NEW t \in Seq(Block), NEW u \in Seq(Block)
  PROVE  /\ Ahead(u, s) /\ Ahead(u, t) => Ahead(u, s \o t)
         /\ Ahead(s, u) /\ Ahead(t, u) => Ahead(s \o t, u)
         /\ Answered(u, s) /\ Answered(u, t) => Answered(u, s \o t)
         /\ Answered(s, u) /\ Answered(t, u) => Answered(s \o t, u)
         /\ WasSent(s) /\ WasSent(t) => WasSent(s \o t)
<1>1. ASSUME NEW i \in 1..Len(s \o t)
      PROVE  \/ \E k \in 1..Len(s) : (s \o t)[i] = s[k]
             \/ \E k \in 1..Len(t) : (s \o t)[i] = t[k]
  <2>1. CASE i \in 1..Len(s)
    BY <2>1, ConcatOf
  <2>2. CASE i - Len(s) \in 1..Len(t)
    BY <2>2, ConcatOf
  <2> QED
    BY <2>1, <2>2, ConcatOf
<1> QED
  BY <1>1 DEF Ahead, Answered, WasSent

LEMMA AppendIsConcat ==
  ASSUME NEW s \in Seq(Block), NEW b \in Block
  PROVE  Append(s, b) = s \o <<b>> /\ <<b>> \in Seq(Block) /\ Ordered(<<b>>)
  BY DEF Ordered

-----------------------------------------------------------------------------
(* What the hack is reading, and the two queues before and behind it.      *)

Reading == IF console = "reads" THEN <<first>> ELSE <<>>

LinkOrder ==
  /\ Ordered(up) /\ Ordered(out) /\ Ahead(up, out)
  /\ Ordered(down) /\ Ordered(transit) /\ Ahead(down, transit)
  /\ Ahead(Reading, down) /\ Ahead(Reading, transit)
  /\ Answered(up, Reading) /\ Answered(up, down) /\ Answered(up, transit)
  /\ Answered(out, Reading) /\ Answered(out, down) /\ Answered(out, transit)
  /\ WasSent(up) /\ WasSent(out) /\ WasSent(down) /\ WasSent(transit) /\ WasSent(Reading)

LEMMA Emptiness ==
  ASSUME NEW s
  PROVE  /\ Ordered(<<>>) /\ WasSent(<<>>) /\ Within(<<>>, s)
         /\ Ahead(<<>>, s) /\ Ahead(s, <<>>) /\ Answered(<<>>, s) /\ Answered(s, <<>>)
  BY DEF Ordered, WasSent, Ahead, Answered, Within

LEMMA ReadingType == ASSUME BlockType PROVE Reading \in Seq(Block)
  BY DEF BlockType, Reading

LEMMA NumbersAreNat ==
  ASSUME NEW s \in Seq(Block)
  PROVE  \A i \in 1..Len(s) : s[i].cmd \in Nat
<1>1. \A i \in 1..Len(s) : s[i] \in Block
  OBVIOUS
<1> QED
  BY <1>1 DEF Block

LEMMA OrderHostSends == ASSUME BlockType, SentType, LinkOrder, HostSends PROVE LinkOrder'
<1> DEFINE p == Parts(Sent + 1, 2)
<1>s. Sent \in Nat /\ Sent < MaxSent
  BY DEF SentType, Sent, HostSends
<1>1. p \in Seq(Block) /\ Ordered(p) /\ Len(p) = 2
  BY <1>s, TwoParts, PartsType, PartsOrdered
<1>2. \A i \in 1..Len(p) : p[i].cmd = Sent + 1
  <2>1. \A i \in 1..2 : p[i] = [cmd |-> Sent + 1, part |-> i]
    BY <1>s, TwoParts, PartsType
  <2> HIDE DEF p
  <2> QED
    BY <1>1, <2>1
<1>3. Sent' = Sent + 1
  <2>1. PICK kind \in Kinds : kinds' = Append(kinds, kind)
    BY DEF HostSends
  <2> QED
    BY <2>1 DEF SentType, Sent
<1>4. UNCHANGED <<down, console, first, out, up>> /\ transit' = transit \o p
  BY DEF HostSends
<1> HIDE DEF p
<1>5. ASSUME NEW s \in Seq(Block), WasSent(s) PROVE Ahead(s, p) /\ Answered(s, p)
  <2>1. \A i \in 1..Len(s) : s[i].cmd < Sent + 1
    BY <1>5, <1>s, NumbersAreNat DEF WasSent
  <2> QED
    BY <1>2, <2>1 DEF Ahead, Answered, Before
<1>6. ASSUME NEW s \in Seq(Block), WasSent(s) PROVE \A i \in 1..Len(s) : s[i].cmd <= Sent + 1
  BY <1>6, <1>s, NumbersAreNat DEF WasSent
<1>7. Reading' = Reading
  BY <1>4 DEF Reading
<1>8. WasSent(up)' /\ WasSent(out)' /\ WasSent(down)' /\ WasSent(Reading)'
  BY <1>3, <1>4, <1>6, <1>7, ReadingType DEF WasSent, LinkOrder, BlockType
<1>9. WasSent(transit)'
  <2>1. \A i \in 1..Len(transit \o p) : (transit \o p)[i].cmd <= Sent + 1
    <3>1. \A i \in 1..Len(transit) : transit[i].cmd <= Sent + 1
      BY <1>6 DEF LinkOrder, BlockType
    <3>2. \A i \in 1..Len(p) : p[i].cmd <= Sent + 1
      BY <1>2, <1>s
    <3> QED
      BY <1>1, <3>1, <3>2, ConcatOf DEF BlockType
  <2> QED
    BY <1>3, <1>4, <2>1 DEF WasSent
<1>10. Ordered(transit')
  BY <1>1, <1>4, <1>5, ConcatOrder DEF LinkOrder, BlockType
<1>11. Ahead(down, transit') /\ Ahead(Reading, transit')
  BY <1>1, <1>4, <1>5, ConcatKeeps, ReadingType DEF LinkOrder, BlockType
<1>12. Answered(up, transit') /\ Answered(out, transit')
  BY <1>1, <1>4, <1>5, ConcatKeeps DEF LinkOrder, BlockType
<1> QED
  BY <1>4, <1>7, <1>8, <1>9, <1>10, <1>11, <1>12 DEF LinkOrder, Ordered, Ahead, Answered

LEMMA OrderHostReads == ASSUME BlockType, LinkOrder, HostReads PROVE LinkOrder'
<1> DEFINE n == IF Len(up) < 2 THEN Len(up) ELSE 2
<1>1. n \in 0..Len(up) /\ up \in Seq(Block)
  BY DEF BlockType
<1>2. up' = Rest(up, n) /\ UNCHANGED <<kinds, transit, down, console, first, out>>
  BY DEF HostReads
<1> HIDE DEF n
<1>3. Ordered(up') /\ Within(up', up)
  BY <1>1, <1>2, RestOrder DEF LinkOrder
<1>4. Reading' = Reading /\ Sent' = Sent
  BY <1>2 DEF Reading, Sent
<1>5. /\ Ahead(up', out) /\ Answered(up', Reading) /\ Answered(up', down)
      /\ Answered(up', transit) /\ WasSent(up')
  BY <1>3, WithinKeeps, WithinSelf DEF LinkOrder
<1> QED
  BY <1>2, <1>3, <1>4, <1>5 DEF LinkOrder, Ordered, Ahead, Answered, WasSent

LEMMA OrderArrives == ASSUME BlockType, LinkOrder, Arrives PROVE LinkOrder'
<1> DEFINE h == Head(transit)
<1>1. /\ transit # <<>> /\ down' = Append(down, h) /\ transit' = Tail(transit)
      /\ UNCHANGED <<kinds, console, first, out, up>>
  BY DEF Arrives
<1>2. /\ h \in Block /\ transit' \in Seq(Block) /\ down' = down \o <<h>>
      /\ <<h>> \in Seq(Block) /\ Ordered(<<h>>)
  BY <1>1, TailOf, AppendIsConcat DEF BlockType
<1>3. /\ Ordered(transit') /\ Within(transit', transit) /\ Within(<<h>>, transit)
      /\ Ahead(<<h>>, transit')
  BY <1>1, TailOrder DEF BlockType, LinkOrder
<1> HIDE DEF h
<1>4. Reading' = Reading /\ Sent' = Sent
  BY <1>1 DEF Reading, Sent
<1>5. /\ Ahead(down, transit') /\ Ahead(Reading, transit')
      /\ Answered(up, transit') /\ Answered(out, transit') /\ WasSent(transit')
  BY <1>3, WithinKeeps, WithinSelf DEF LinkOrder
<1>6. /\ Ahead(down, <<h>>) /\ Ahead(Reading, <<h>>)
      /\ Answered(up, <<h>>) /\ Answered(out, <<h>>) /\ WasSent(<<h>>)
  BY <1>3, WithinKeeps, WithinSelf DEF LinkOrder
<1>7. Ordered(down')
  BY <1>2, <1>6, ConcatOrder DEF BlockType, LinkOrder
<1>8. /\ Ahead(down', transit') /\ Ahead(Reading, down')
      /\ Answered(up, down') /\ Answered(out, down') /\ WasSent(down')
  BY <1>2, <1>3, <1>5, <1>6, ConcatKeeps, ReadingType DEF BlockType, LinkOrder
<1> QED
  BY <1>1, <1>3, <1>4, <1>5, <1>7, <1>8 DEF LinkOrder, Ordered, Ahead, Answered, WasSent

LEMMA OrderBeginsRead == ASSUME BlockType, LinkOrder, BeginsRead PROVE LinkOrder'
<1>1. /\ down # <<>> /\ down' = Tail(down) /\ Reading' = <<Head(down)>>
      /\ UNCHANGED <<kinds, transit, out, up>>
  BY DEF BeginsRead, Reading
<1>2. /\ Ordered(down') /\ Within(down', down) /\ Within(Reading', down)
      /\ Ahead(Reading', down')
  BY <1>1, TailOrder DEF BlockType, LinkOrder
<1>3. /\ Ahead(down', transit) /\ Ahead(Reading', transit)
      /\ Answered(up, down') /\ Answered(up, Reading') /\ WasSent(down')
      /\ Answered(out, down') /\ Answered(out, Reading') /\ WasSent(Reading')
  BY <1>2, WithinKeeps, WithinSelf DEF LinkOrder
<1>4. Sent' = Sent
  BY <1>1 DEF Sent
<1> QED
  BY <1>1, <1>2, <1>3, <1>4 DEF LinkOrder, Ordered, Ahead, Answered, WasSent

\* The answer is to the command being read; what follows it begins later ones.
LEMMA OrderEndsRead == ASSUME BlockType, LinkOrder, EndsRead PROVE LinkOrder'
<1>1. /\ console = "reads" /\ down # <<>> /\ down' = Tail(down) /\ out' = Answer(first)
      /\ Reading = <<first>> /\ Reading' = <<>> /\ first \in Block
      /\ UNCHANGED <<kinds, transit, up>>
  BY DEF EndsRead, Reading, BlockType
<1>2. /\ out' \in Seq(Block) /\ Ordered(out')
      /\ \A i \in 1..Len(out') : out'[i].cmd = first.cmd /\ first.part = 1
  BY <1>1, AnswerType
<1>3. Ordered(down') /\ Within(down', down)
  BY <1>1, TailOrder DEF BlockType, LinkOrder
<1>4. /\ Ahead(down', transit) /\ Ahead(Reading, down') /\ Answered(up, down') /\ WasSent(down')
  BY <1>3, WithinKeeps, WithinSelf DEF LinkOrder
<1>5. Ahead(up, out')
  <2> SUFFICES ASSUME NEW i \in 1..Len(up), NEW j \in 1..Len(out') PROVE Before(up[i], out'[j])
    BY DEF Ahead
  <2>1. first.part = 1 /\ out'[j].cmd = first.cmd
    BY <1>2
  <2>2. up[i].cmd < first.cmd
    BY <1>1, <2>1 DEF LinkOrder, Answered
  <2> QED
    BY <2>1, <2>2 DEF Before
<1>6. ASSUME NEW t \in Seq(Block), Ahead(Reading, t) PROVE Answered(out', t)
  <2> SUFFICES ASSUME NEW i \in 1..Len(out'), NEW j \in 1..Len(t), t[j].part = 1
               PROVE  out'[i].cmd < t[j].cmd
    BY DEF Answered
  <2>1. first.part = 1 /\ out'[i].cmd = first.cmd
    BY <1>2
  <2>2. Before(first, t[j])
    BY <1>1, <1>6 DEF Ahead
  <2> QED
    BY <2>1, <2>2 DEF Before
<1>7. Answered(out', down') /\ Answered(out', transit)
  BY <1>1, <1>4, <1>6, TailOf DEF BlockType, LinkOrder
<1>8. WasSent(out')
  <2>1. first.cmd <= Sent
    BY <1>1 DEF LinkOrder, WasSent
  <2> QED
    BY <1>2, <2>1 DEF WasSent
<1>9. Sent' = Sent
  BY <1>1 DEF Sent
<1> QED
  BY <1>1, <1>2, <1>3, <1>4, <1>5, <1>7, <1>8, <1>9, Emptiness
     DEF LinkOrder, Ordered, Ahead, Answered, WasSent

LEMMA OrderReadTimesOut == ASSUME BlockType, LinkOrder, ReadTimesOut PROVE LinkOrder'
<1>1. Reading' = <<>> /\ UNCHANGED <<kinds, transit, down, out, up>>
  BY DEF ReadTimesOut, Reading
<1> QED
  BY <1>1, Emptiness DEF LinkOrder, Ordered, Ahead, Answered, WasSent, Sent

\* A block of the answer goes from the hack's buffer to the adapter.
LEMMA OrderWrites == ASSUME BlockType, LinkOrder, Writes PROVE LinkOrder'
<1> DEFINE h == Head(out)
<1>1. /\ out # <<>> /\ up' = Append(up, h) /\ out' = Tail(out) /\ Reading' = <<>>
      /\ UNCHANGED <<kinds, transit, down>>
  BY DEF Writes, Reading, BlockType
<1>2. /\ h \in Block /\ out' \in Seq(Block) /\ up' = up \o <<h>>
      /\ <<h>> \in Seq(Block) /\ Ordered(<<h>>)
  BY <1>1, TailOf, AppendIsConcat DEF BlockType
<1>3. /\ Ordered(out') /\ Within(out', out) /\ Within(<<h>>, out) /\ Ahead(<<h>>, out')
  BY <1>1, TailOrder DEF BlockType, LinkOrder
<1> HIDE DEF h
<1>4. Sent' = Sent
  BY <1>1 DEF Sent
<1>5. /\ Ahead(up, out') /\ Answered(out', down) /\ Answered(out', transit) /\ WasSent(out')
      /\ Ahead(up, <<h>>) /\ Answered(<<h>>, down) /\ Answered(<<h>>, transit) /\ WasSent(<<h>>)
  BY <1>3, WithinKeeps, WithinSelf DEF LinkOrder
<1>6. Ordered(up')
  BY <1>2, <1>5, ConcatOrder DEF BlockType, LinkOrder
<1>7. /\ Ahead(up', out') /\ Answered(up', down) /\ Answered(up', transit) /\ WasSent(up')
  BY <1>2, <1>3, <1>5, ConcatKeeps DEF BlockType, LinkOrder
<1> QED
  BY <1>1, <1>3, <1>4, <1>5, <1>6, <1>7, Emptiness
     DEF LinkOrder, Ordered, Ahead, Answered, WasSent

LEMMA OrderGivenUp == ASSUME BlockType, LinkOrder, WriteTimesOut \/ Flushes PROVE LinkOrder'
<1>1. CASE WriteTimesOut
  <2>1. out' = <<>> /\ Reading' = <<>> /\ UNCHANGED <<kinds, transit, down, up>>
    BY <1>1 DEF WriteTimesOut, Reading
  <2> QED
    BY <2>1, Emptiness DEF LinkOrder, Ordered, Ahead, Answered, WasSent, Sent
<1>2. CASE Flushes
  <2>1. down' = <<>> /\ Reading' = Reading /\ UNCHANGED <<kinds, transit, out, up>>
    BY <1>2 DEF Flushes, Reading
  <2> QED
    BY <2>1, Emptiness DEF LinkOrder, Ordered, Ahead, Answered, WasSent, Sent
<1> QED
  BY <1>1, <1>2

LEMMA LinkOrderStep ==
  ASSUME BlockType, SentType, LinkOrder, [Next]_vars
  PROVE  LinkOrder'
<1>1. CASE UNCHANGED vars
  <2>1. Reading' = Reading /\ Sent' = Sent /\ UNCHANGED <<up, out, down, transit>>
    BY <1>1 DEF vars, Reading, Sent
  <2>2. /\ (Ordered(up) /\ Ordered(out) /\ Ordered(down) /\ Ordered(transit))'
        /\ (Ahead(up, out) /\ Ahead(down, transit))'
        /\ (Ahead(Reading, down) /\ Ahead(Reading, transit))'
    BY <2>1 DEF LinkOrder
  <2>3. /\ (Answered(up, Reading) /\ Answered(up, down) /\ Answered(up, transit))'
        /\ (Answered(out, Reading) /\ Answered(out, down) /\ Answered(out, transit))'
    BY <2>1 DEF LinkOrder
  <2>4. (WasSent(up) /\ WasSent(out) /\ WasSent(down) /\ WasSent(transit) /\ WasSent(Reading))'
    BY <2>1 DEF LinkOrder, WasSent
  <2> QED
    BY <2>2, <2>3, <2>4 DEF LinkOrder
<1>2. CASE Next
  <2>1. CASE HostSends \/ HostReads \/ Arrives
    BY <2>1, OrderHostSends, OrderHostReads, OrderArrives
  <2>2. CASE BeginsRead \/ EndsRead \/ ReadTimesOut
    BY <2>2, OrderBeginsRead, OrderEndsRead, OrderReadTimesOut
  <2>3. CASE Writes \/ WriteTimesOut \/ Flushes
    BY <2>3, OrderWrites, OrderGivenUp
  <2> QED
    BY <1>2, <2>1, <2>2, <2>3, Zenon DEF Next, Terminal
<1> QED
  BY <1>1, <1>2

-----------------------------------------------------------------------------
\* Blocks carry the number of a command that was sent or may be sent; the
\* adapter never holds more for the host than it can.
THEOREM LinkTypes == Spec => []TypeOK
<1> DEFINE Types == BlockType /\ SentType /\ Len(up) <= Fifo /\ host \in {"prompt", "waits"}
                    /\ console \in {"idle", "reads", "writes"}
                    /\ split \in BOOLEAN /\ early \in BOOLEAN
<1>1. Init => Types
  <2> SUFFICES ASSUME Init PROVE Types
    OBVIOUS
  <2>1. BlockType /\ SentType
    BY BlockTypeStart
  <2>2. Len(up) <= Fifo
    BY LinkAssumption DEF Init
  <2>3. /\ host \in {"prompt", "waits"} /\ console \in {"idle", "reads", "writes"}
        /\ split \in BOOLEAN /\ early \in BOOLEAN
    BY DEF Init
  <2> QED
    BY <2>1, <2>2, <2>3
<1>2. Types /\ [Next]_vars => Types'
  <2> SUFFICES ASSUME Types, [Next]_vars PROVE Types'
    OBVIOUS
  <2>1. BlockType' /\ SentType'
    BY BlockTypeStep, SentTypeStep
  <2>2. (Len(up) <= Fifo)'
    <3>1. CASE Writes
      BY <3>1, AppendOf, TailOf, LinkAssumption DEF Writes, BlockType
    <3>2. CASE HostReads
      <4> DEFINE n == IF Len(up) < 2 THEN Len(up) ELSE 2
      <4>1. n \in 0..Len(up) /\ up \in Seq(Block)
        BY DEF BlockType
      <4>2. up' = Rest(up, n)
        BY <3>2 DEF HostReads
      <4> HIDE DEF n
      <4> QED
        BY <4>1, <4>2, RestOf, LinkAssumption
    <3>3. CASE UNCHANGED up
      BY <3>3
    <3> QED
      BY <3>1, <3>2, <3>3 DEF Next, Terminal, HostSends, Arrives, BeginsRead, EndsRead,
                              ReadTimesOut, WriteTimesOut, Flushes, vars
  <2>3. host' \in {"prompt", "waits"} /\ console' \in {"idle", "reads", "writes"}
    BY DEF Next, Terminal, HostSends, HostReads, Arrives, BeginsRead, EndsRead,
           ReadTimesOut, Writes, WriteTimesOut, Flushes, vars
  <2>4. split' \in BOOLEAN /\ early' \in BOOLEAN
    BY Zenon DEF Next, Terminal, HostSends, HostReads, Arrives, BeginsRead, EndsRead,
           ReadTimesOut, Writes, WriteTimesOut, Flushes, vars
  <2> QED
    BY <2>1, <2>2, <2>3, <2>4
<1>3. Types => TypeOK
  BY DEF BlockType, SentType, TypeOK
<1> QED
  BY <1>1, <1>2, <1>3, PTL DEF Spec

\* Whatever is given up, lost or left unread, answers stay in the order of
\* their commands: the invariant relates them to the commands still to come.
THEOREM AnswersOrdered == Spec => []AnswersInOrder
<1> DEFINE Inv == BlockType /\ SentType /\ LinkOrder
<1>1. Init => Inv
  BY BlockTypeStart, Emptiness DEF Init, LinkOrder, Reading
<1>2. Inv /\ [Next]_vars => Inv'
  <2> SUFFICES ASSUME Inv, [Next]_vars PROVE Inv'
    OBVIOUS
  <2>1. BlockType' /\ SentType'
    BY BlockTypeStep, SentTypeStep
  <2>2. LinkOrder'
    BY LinkOrderStep
  <2> QED
    BY <2>1, <2>2
<1>3. Inv => AnswersInOrder
  <2> SUFFICES ASSUME Inv PROVE AnswersInOrder
    OBVIOUS
  <2>1. Ordered(up \o out)
    BY ConcatOrder DEF BlockType, LinkOrder
  <2>2. up \o out \in Seq(Block)
    BY ConcatOf DEF BlockType
  <2>3. \A i \in 1..Len(up \o out) - 1 : i \in 1..Len(up \o out) /\ i + 1 \in 1..Len(up \o out)
    BY <2>2
  <2> QED
    BY <2>1, <2>3 DEF Ordered, AnswersInOrder
<1> QED
  BY <1>1, <1>2, <1>3, PTL DEF Spec

-----------------------------------------------------------------------------
(* Two blocks make a command, as long as nothing was taken apart.          *)

Stream == Reading \o (down \o transit)

Framed(s) ==
  /\ Len(s) % 2 = 0
  /\ \A i \in 1..Len(s) : i % 2 = 1 =>
       s[i].part = 1 /\ i + 1 \in 1..Len(s) /\ s[i + 1] = [cmd |-> s[i].cmd, part |-> 2]

Whole == ~split => Framed(Stream)

\* The stream is made of the three, and what is at each of its places.
StreamShape ==
  /\ Stream \in Seq(Block)
  /\ Reading \in Seq(Block) /\ down \in Seq(Block) /\ transit \in Seq(Block)
  /\ Len(Stream) = Len(Reading) + Len(down) + Len(transit)
  /\ Len(Stream) \in Nat /\ Len(Reading) \in Nat /\ Len(down) \in Nat /\ Len(transit) \in Nat
  /\ \A i \in 1..Len(Stream) :
       Stream[i] = IF i <= Len(Reading) THEN Reading[i]
                   ELSE IF i <= Len(Reading) + Len(down) THEN down[i - Len(Reading)]
                   ELSE transit[i - Len(Reading) - Len(down)]

LEMMA ShapeOfStream == BlockType => StreamShape
<1> SUFFICES ASSUME BlockType PROVE StreamShape
  OBVIOUS
<1>1. Reading \in Seq(Block) /\ down \in Seq(Block) /\ transit \in Seq(Block)
  BY ReadingType DEF BlockType
<1>2. \A j \in 1..Len(down \o transit) :
        (down \o transit)[j] = IF j <= Len(down) THEN down[j] ELSE transit[j - Len(down)]
  BY <1>1
<1>3. /\ Stream \in Seq(Block) /\ down \o transit \in Seq(Block)
      /\ Len(Stream) = Len(Reading) + Len(down) + Len(transit)
  BY <1>1, ConcatOf DEF Stream
<1>4. ASSUME NEW i \in 1..Len(Stream)
      PROVE  Stream[i] = IF i <= Len(Reading) THEN Reading[i]
                         ELSE IF i <= Len(Reading) + Len(down) THEN down[i - Len(Reading)]
                         ELSE transit[i - Len(Reading) - Len(down)]
  <2>1. CASE i <= Len(Reading)
    BY <1>1, <1>3, <2>1, ConcatOf DEF Stream
  <2>2. CASE i > Len(Reading)
    <3> DEFINE j == i - Len(Reading)
    <3>1. /\ j \in 1..Len(down \o transit) /\ i = Len(Reading) + j
          /\ Len(down) \in Nat /\ Len(Reading) \in Nat
      BY <1>1, <1>3, <2>2, ConcatOf
    <3>2. Stream[i] = (down \o transit)[j]
      BY <1>1, <1>3, <3>1, ConcatOf DEF Stream
    <3> QED
      BY <1>2, <2>2, <3>1, <3>2
  <2> QED
    BY <1>1, <2>1, <2>2
<1> QED
  BY <1>1, <1>3, <1>4 DEF StreamShape

LEMMA ShapeOfNext == BlockType' => StreamShape'
  BY ShapeOfStream, PTL

\* An even number of blocks goes from the front.
LEMMA FramedRest ==
  ASSUME NEW s \in Seq(Block), NEW t \in Seq(Block), NEW k \in Nat, k % 2 = 0,
         Framed(s), Len(s) = Len(t) + k, \A i \in 1..Len(t) : t[i] = s[i + k]
  PROVE  Framed(t)
<1>1. Len(s) \in Nat /\ Len(t) \in Nat
  OBVIOUS
<1>2. Len(t) % 2 = 0
  BY <1>1 DEF Framed
<1>3. ASSUME NEW i \in 1..Len(t), i % 2 = 1
      PROVE  t[i].part = 1 /\ i + 1 \in 1..Len(t) /\ t[i + 1] = [cmd |-> t[i].cmd, part |-> 2]
  <2>1. i + k \in 1..Len(s) /\ (i + k) % 2 = 1
    BY <1>1, <1>3
  <2>2. i + 1 \in 1..Len(t)
    BY <1>1, <1>2, <1>3
  <2>3. t[i] = s[i + k] /\ t[i + 1] = s[(i + k) + 1]
    BY <1>1, <2>2
  <2> QED
    BY <2>1, <2>2, <2>3 DEF Framed
<1> QED
  BY <1>2, <1>3 DEF Framed

\* A command comes behind the others.
LEMMA FramedMore ==
  ASSUME NEW s \in Seq(Block), NEW t \in Seq(Block), NEW n \in 1..MaxSent,
         Framed(s), Len(t) = Len(s) + 2, \A i \in 1..Len(s) : t[i] = s[i],
         t[Len(s) + 1] = [cmd |-> n, part |-> 1], t[Len(s) + 2] = [cmd |-> n, part |-> 2]
  PROVE  Framed(t)
<1>1. Len(s) \in Nat /\ Len(s) % 2 = 0
  BY DEF Framed
<1>2. Len(t) % 2 = 0
  BY <1>1
<1>3. ASSUME NEW i \in 1..Len(t), i % 2 = 1
      PROVE  t[i].part = 1 /\ i + 1 \in 1..Len(t) /\ t[i + 1] = [cmd |-> t[i].cmd, part |-> 2]
  <2>1. CASE i \in 1..Len(s)
    <3>1. s[i].part = 1 /\ i + 1 \in 1..Len(s) /\ s[i + 1] = [cmd |-> s[i].cmd, part |-> 2]
      BY <1>3, <2>1 DEF Framed
    <3>2. t[i] = s[i] /\ t[i + 1] = s[i + 1] /\ i + 1 \in 1..Len(t)
      BY <1>1, <2>1, <3>1
    <3> QED
      BY <3>1, <3>2
  <2>2. CASE i = Len(s) + 1
    BY <1>1, <2>2
  <2>3. i \in 1..Len(s) \/ i = Len(s) + 1
    <3>1. i # Len(s) + 2
      BY <1>1, <1>3
    <3> QED
      BY <1>1, <3>1
  <2> QED
    BY <2>1, <2>2, <2>3, Zenon
<1> QED
  BY <1>2, <1>3 DEF Framed

\* The stream is the same, though its blocks have moved on.
LEMMA FramedSame ==
  ASSUME NEW s \in Seq(Block), NEW t \in Seq(Block), Framed(s), Len(s) = Len(t),
         \A i \in 1..Len(t) : t[i] = s[i]
  PROVE  Framed(t)
<1>1. \A i \in 1..Len(t) : t[i] = s[i + 0]
  OBVIOUS
<1> QED
  BY <1>1, FramedRest

LEMMA WholeSends == ASSUME BlockType, BlockType', SentType, Whole, HostSends PROVE Whole'
<1> DEFINE p == Parts(Sent + 1, 2)
<1>1. StreamShape /\ StreamShape'
  BY ShapeOfStream, ShapeOfNext
<1>2. Sent \in Nat /\ Sent < MaxSent
  BY DEF SentType, Sent, HostSends
<1>3. /\ p \in Seq(Block) /\ Len(p) = 2
      /\ p[1] = [cmd |-> Sent + 1, part |-> 1] /\ p[2] = [cmd |-> Sent + 1, part |-> 2]
  <2>1. Sent + 1 \in 1..MaxSent /\ 2 \in 1..ListenBlocks
    BY <1>2, TwoParts
  <2>2. /\ p \in Seq(Block) /\ Len(p) = 2
        /\ \A k \in 1..2 : p[k] = [cmd |-> Sent + 1, part |-> k]
    BY <2>1, PartsType
  <2> HIDE DEF p
  <2>3. 1 \in 1..2 /\ 2 \in 1..2
    OBVIOUS
  <2> QED
    BY <2>2, <2>3
<1>4. transit' = transit \o p /\ UNCHANGED <<down, split>> /\ Reading' = Reading
  BY DEF HostSends, Reading
<1> HIDE DEF p
<1>5. /\ Len(transit') = Len(transit) + 2
      /\ \A i \in 1..Len(transit) : transit'[i] = transit[i]
      /\ transit'[Len(transit) + 1] = p[1] /\ transit'[Len(transit) + 2] = p[2]
  <2>1. transit \in Seq(Block) /\ 1 \in 1..2 /\ 2 \in 1..2
    BY <1>1 DEF StreamShape
  <2>2. /\ Len(transit \o p) = Len(transit) + Len(p)
        /\ \A i \in 1..Len(transit) : (transit \o p)[i] = transit[i]
        /\ \A i \in 1..Len(p) : (transit \o p)[Len(transit) + i] = p[i]
    BY <1>3, <2>1, ConcatOf
  <2>3. (transit \o p)[Len(transit) + 1] = p[1] /\ (transit \o p)[Len(transit) + 2] = p[2]
    BY <1>3, <2>1, <2>2
  <2> QED
    BY <1>3, <1>4, <2>2, <2>3
<1>6. Len(Stream') = Len(Stream) + 2
  BY <1>1, <1>4, <1>5 DEF StreamShape
<1>7. ASSUME NEW i \in 1..Len(Stream) PROVE Stream'[i] = Stream[i]
  <2>1. i \in 1..Len(Stream')
    BY <1>1, <1>6 DEF StreamShape
  <2>2. CASE i <= Len(Reading) + Len(down)
    BY <1>1, <1>4, <2>1, <2>2 DEF StreamShape
  <2>3. CASE i > Len(Reading) + Len(down)
    <3>1. i - Len(Reading) - Len(down) \in 1..Len(transit)
      BY <1>1, <2>3 DEF StreamShape
    <3>2. transit'[i - Len(Reading) - Len(down)] = transit[i - Len(Reading) - Len(down)]
      BY <1>5, <3>1
    <3> QED
      BY <1>1, <1>4, <2>1, <2>3, <3>2 DEF StreamShape
  <2> QED
    BY <1>1, <2>2, <2>3 DEF StreamShape
<1>8. ASSUME NEW k \in 1..2 PROVE Stream'[Len(Stream) + k] = transit'[Len(transit) + k]
  <2> DEFINE i == Len(Stream) + k
  <2>1. /\ i \in 1..Len(Stream') /\ ~(i <= Len(Reading')) /\ ~(i <= Len(Reading') + Len(down'))
        /\ i - Len(Reading') - Len(down') = Len(transit) + k
    BY <1>1, <1>4, <1>6 DEF StreamShape
  <2>2. Stream'[i] = transit'[i - Len(Reading') - Len(down')]
    <3> HIDE DEF i
    <3> QED
      BY <1>1, <2>1 DEF StreamShape
  <2> QED
    BY <2>1, <2>2
<1>9. Sent + 1 \in 1..MaxSent
  BY <1>2, TwoParts
<1>10. Framed(Stream) => Framed(Stream')
  <2>1. Stream'[Len(Stream) + 1] = p[1] /\ Stream'[Len(Stream) + 2] = p[2]
    BY <1>5, <1>8
  <2> QED
    BY <1>1, <1>3, <1>6, <1>7, <1>9, <2>1, FramedMore DEF StreamShape
<1> QED
  BY <1>4, <1>10 DEF Whole, Framed

LEMMA WholeMoves ==
  ASSUME BlockType, BlockType', Whole, Arrives \/ BeginsRead
  PROVE  Whole'
<1>1. StreamShape /\ StreamShape' /\ UNCHANGED split
  BY ShapeOfStream, ShapeOfNext DEF Arrives, BeginsRead
<1>2. CASE Arrives
  <2>1. /\ transit # <<>> /\ Reading' = Reading
        /\ down' = Append(down, Head(transit)) /\ transit' = Tail(transit)
    BY <1>2 DEF Arrives, Reading
  <2>2. /\ Len(down') = Len(down) + 1 /\ Len(transit') = Len(transit) - 1
        /\ \A i \in 1..Len(down) : down'[i] = down[i]
        /\ down'[Len(down) + 1] = transit[1]
        /\ \A i \in 1..Len(transit') : transit'[i] = transit[i + 1]
    BY <1>1, <2>1, TailOf, AppendOf DEF StreamShape
  <2>3. Len(Stream') = Len(Stream)
    BY <1>1, <2>1, <2>2 DEF StreamShape
  <2>4. ASSUME NEW i \in 1..Len(Stream') PROVE Stream'[i] = Stream[i]
    <3>1. i \in 1..Len(Stream) /\ Len(Reading') = Len(Reading)
      BY <1>1, <2>1, <2>3 DEF StreamShape
    <3>2. CASE i <= Len(Reading)
      BY <1>1, <2>1, <3>1, <3>2 DEF StreamShape
    <3>3. CASE i > Len(Reading) /\ i <= Len(Reading) + Len(down)
      <4>1. i - Len(Reading) \in 1..Len(down)
        BY <1>1, <3>3 DEF StreamShape
      <4>2. down'[i - Len(Reading)] = down[i - Len(Reading)] /\ i <= Len(Reading) + Len(down')
        <5> DEFINE k == i - Len(Reading)
        <5>1. k \in 1..Len(down)
          BY <4>1
        <5>2. i <= Len(Reading) + Len(down')
          BY <1>1, <2>2, <3>3 DEF StreamShape
        <5> HIDE DEF k
        <5>3. down'[k] = down[k]
          BY <2>2, <5>1
        <5> QED
          BY <5>2, <5>3 DEF k
      <4> QED
        BY <1>1, <3>1, <3>3, <4>2 DEF StreamShape
    <3>4. CASE i = Len(Reading) + Len(down) + 1
      <4>1. Stream[i] = transit[1]
        <5>1. ~(i <= Len(Reading)) /\ ~(i <= Len(Reading) + Len(down)) /\ i - Len(Reading) - Len(down) = 1
          BY <1>1, <3>1, <3>4 DEF StreamShape
        <5>2. Stream[i] = transit[i - Len(Reading) - Len(down)]
          BY <1>1, <3>1, <5>1 DEF StreamShape
        <5> QED
          BY <5>1, <5>2
      <4>2. i - Len(Reading') = Len(down) + 1 /\ i <= Len(Reading') + Len(down') /\ ~(i <= Len(Reading'))
        BY <1>1, <2>2, <3>1, <3>4 DEF StreamShape
      <4>3. Stream'[i] = down'[i - Len(Reading')]
        BY <1>1, <4>2 DEF StreamShape
      <4> QED
        BY <2>2, <4>1, <4>2, <4>3
    <3>5. CASE i > Len(Reading) + Len(down) + 1
      <4> DEFINE j == i - Len(Reading) - Len(down)
      <4>1. j - 1 \in 1..Len(transit') /\ j - 1 = i - Len(Reading') - Len(down')
        BY <1>1, <2>2, <2>3, <3>1, <3>5 DEF StreamShape
      <4>2. transit'[j - 1] = transit[(j - 1) + 1] /\ (j - 1) + 1 = j
        <5>1. j \in Nat
          BY <1>1, <3>1, <3>5 DEF StreamShape
        <5>2. (j - 1) + 1 = j
          BY <5>1
        <5> HIDE DEF j
        <5> QED
          BY <2>2, <4>1, <5>2
      <4>3. Stream[i] = transit[j]
        BY <1>1, <3>1, <3>5 DEF StreamShape
      <4>4. ~(i <= Len(Reading')) /\ ~(i <= Len(Reading') + Len(down'))
        BY <1>1, <2>2, <3>1, <3>5 DEF StreamShape
      <4>5. Stream'[i] = transit'[i - Len(Reading') - Len(down')]
        BY <1>1, <4>4 DEF StreamShape
      <4> QED
        BY <4>1, <4>2, <4>3, <4>5
    <3> QED
      BY <1>1, <3>2, <3>3, <3>4, <3>5 DEF StreamShape
  <2> QED
    BY <1>1, <2>3, <2>4, FramedSame DEF StreamShape, Whole
<1>3. CASE BeginsRead
  <2>1. /\ down # <<>> /\ Reading = <<>> /\ Reading' = <<Head(down)>>
        /\ down' = Tail(down) /\ transit' = transit
    BY <1>3 DEF BeginsRead, Reading
  <2>2. /\ Len(Reading) = 0 /\ Len(Reading') = 1 /\ Reading'[1] = down[1]
        /\ Len(down') = Len(down) - 1
        /\ \A i \in 1..Len(down') : down'[i] = down[i + 1]
    BY <1>1, <2>1, TailOf DEF StreamShape
  <2>3. Len(Stream') = Len(Stream)
    BY <1>1, <2>1, <2>2 DEF StreamShape
  <2>4. ASSUME NEW i \in 1..Len(Stream') PROVE Stream'[i] = Stream[i]
    <3>1. i \in 1..Len(Stream) /\ i \in Nat
      BY <1>1, <2>3 DEF StreamShape
    <3>2. CASE i = 1
      <4>1. Stream[i] = down[1]
        BY <1>1, <2>1, <2>2, <3>1, <3>2 DEF StreamShape
      <4>2. Stream'[i] = Reading'[1]
        BY <1>1, <2>2, <3>2 DEF StreamShape
      <4> QED
        BY <2>2, <4>1, <4>2
    <3>3. CASE i > 1 /\ i <= Len(down)
      <4>1. i - 1 \in 1..Len(down') /\ ~(i <= Len(Reading')) /\ i <= Len(Reading') + Len(down')
        BY <1>1, <2>2, <3>1, <3>3 DEF StreamShape
      <4>2. Stream'[i] = down'[i - Len(Reading')] /\ i - Len(Reading') = i - 1
        BY <1>1, <2>2, <4>1 DEF StreamShape
      <4>3. down'[i - 1] = down[(i - 1) + 1] /\ (i - 1) + 1 = i
        BY <2>2, <3>1, <4>1
      <4>4. ~(i <= Len(Reading)) /\ i <= Len(Reading) + Len(down) /\ i - Len(Reading) = i
        BY <1>1, <2>2, <3>1, <3>3 DEF StreamShape
      <4>5. Stream[i] = down[i]
        BY <1>1, <3>1, <4>4 DEF StreamShape
      <4> QED
        BY <4>2, <4>3, <4>5
    <3>4. CASE i > Len(down)
      <4>1. /\ ~(i <= Len(Reading)) /\ ~(i <= Len(Reading) + Len(down))
            /\ i - Len(Reading) - Len(down) = i - Len(down)
            /\ ~(i <= Len(Reading')) /\ ~(i <= Len(Reading') + Len(down'))
            /\ i - Len(Reading') - Len(down') = i - Len(down)
        BY <1>1, <2>1, <2>2, <3>1, <3>4 DEF StreamShape
      <4>2. Stream[i] = transit[i - Len(down)]
        BY <1>1, <3>1, <4>1 DEF StreamShape
      <4>3. Stream'[i] = transit'[i - Len(down)]
        BY <1>1, <4>1 DEF StreamShape
      <4> QED
        BY <2>1, <4>2, <4>3
    <3> QED
      BY <1>1, <3>1, <3>2, <3>3, <3>4 DEF StreamShape
  <2> QED
    BY <1>1, <2>3, <2>4, FramedSame DEF StreamShape, Whole
<1> QED
  BY <1>2, <1>3

\* The two blocks that are read are a command.
LEMMA ReadsWhole ==
  ASSUME BlockType, Whole, EndsRead, ~split
  PROVE  /\ first.part = 1 /\ down # <<>>
         /\ Head(down) = [cmd |-> first.cmd, part |-> 2]
<1>1. StreamShape
  BY ShapeOfStream
<1>2. down # <<>> /\ Reading = <<first>>
  BY DEF EndsRead, Reading
<1>3. Len(Reading) = 1 /\ Reading[1] = first /\ Len(down) \in Nat /\ Len(down) > 0 /\ Head(down) = down[1]
  BY <1>1, <1>2, TailOf DEF StreamShape
<1>4. Stream[1] = first /\ Stream[2] = Head(down) /\ 1 \in 1..Len(Stream)
  BY <1>1, <1>2, <1>3 DEF StreamShape
<1>5. Stream[1].part = 1 /\ Stream[1 + 1] = [cmd |-> Stream[1].cmd, part |-> 2]
  BY <1>4 DEF Whole, Framed
<1> QED
  BY <1>2, <1>4, <1>5

LEMMA WholeReads == ASSUME BlockType, BlockType', Whole, EndsRead PROVE Whole'
<1>1. StreamShape /\ StreamShape' /\ UNCHANGED <<split, transit>>
  BY ShapeOfStream, ShapeOfNext DEF EndsRead
<1>2. down # <<>> /\ down' = Tail(down) /\ Reading = <<first>> /\ Reading' = <<>>
  BY DEF EndsRead, Reading
<1>3. /\ Len(Reading) = 1 /\ Len(Reading') = 0 /\ Len(down') = Len(down) - 1
      /\ \A i \in 1..Len(down') : down'[i] = down[i + 1]
  BY <1>1, <1>2, TailOf DEF StreamShape
<1>4. Len(Stream) = Len(Stream') + 2
  BY <1>1, <1>3 DEF StreamShape
<1>5. ASSUME NEW i \in 1..Len(Stream') PROVE Stream'[i] = Stream[i + 2]
  <2>1. i + 2 \in 1..Len(Stream) /\ ~(i + 2 <= Len(Reading)) /\ ~(i <= Len(Reading'))
    BY <1>1, <1>3, <1>4 DEF StreamShape
  <2>2. CASE i <= Len(down')
    <3>1. i \in 1..Len(down') /\ i <= Len(Reading') + Len(down') /\ i - Len(Reading') = i
      BY <1>1, <1>3, <2>2 DEF StreamShape
    <3>2. i + 2 <= Len(Reading) + Len(down) /\ i + 2 - Len(Reading) = i + 1
      BY <1>1, <1>3, <2>2 DEF StreamShape
    <3>3. Stream'[i] = down'[i]
      BY <1>1, <2>1, <3>1 DEF StreamShape
    <3>4. Stream[i + 2] = down[i + 1]
      BY <1>1, <2>1, <3>2 DEF StreamShape
    <3> QED
      BY <1>3, <3>1, <3>3, <3>4
  <2>3. CASE i > Len(down')
    <3>1. /\ ~(i <= Len(Reading') + Len(down')) /\ ~(i + 2 <= Len(Reading) + Len(down))
          /\ i - Len(Reading') - Len(down') = i + 2 - Len(Reading) - Len(down)
      BY <1>1, <1>3, <2>3 DEF StreamShape
    <3>2. Stream'[i] = transit'[i - Len(Reading') - Len(down')]
      BY <1>1, <2>1, <3>1 DEF StreamShape
    <3>3. Stream[i + 2] = transit[i + 2 - Len(Reading) - Len(down)]
      BY <1>1, <2>1, <3>1 DEF StreamShape
    <3> QED
      BY <1>1, <3>1, <3>2, <3>3
  <2> QED
    BY <1>1, <2>2, <2>3 DEF StreamShape
<1>6. Stream \in Seq(Block) /\ Stream' \in Seq(Block) /\ 2 \in Nat /\ 2 % 2 = 0
  BY <1>1 DEF StreamShape
<1>7. Framed(Stream) => Framed(Stream')
  BY <1>4, <1>5, <1>6, FramedRest
<1> QED
  BY <1>1, <1>7 DEF Whole, Framed

LEMMA WholeFlushes == ASSUME BlockType, BlockType', Whole, Flushes PROVE Whole'
<1>1. StreamShape /\ StreamShape' /\ UNCHANGED transit
  BY ShapeOfStream, ShapeOfNext DEF Flushes
<1>2. down' = <<>> /\ Reading = <<>> /\ Reading' = <<>>
  BY DEF Flushes, Reading
<1>3. Len(Reading) = 0 /\ Len(Reading') = 0 /\ Len(down') = 0 /\ Len(down) \in Nat
  BY <1>1, <1>2 DEF StreamShape
<1>4. Len(Stream) = Len(Stream') + Len(down)
  BY <1>1, <1>3 DEF StreamShape
<1>5. ASSUME NEW i \in 1..Len(Stream') PROVE Stream'[i] = Stream[i + Len(down)]
  <2>1. /\ i + Len(down) \in 1..Len(Stream) /\ ~(i <= Len(Reading'))
        /\ ~(i <= Len(Reading') + Len(down')) /\ i - Len(Reading') - Len(down') = i
        /\ ~(i + Len(down) <= Len(Reading)) /\ ~(i + Len(down) <= Len(Reading) + Len(down))
        /\ i + Len(down) - Len(Reading) - Len(down) = i
    BY <1>1, <1>3, <1>4 DEF StreamShape
  <2>2. Stream'[i] = transit'[i]
    BY <1>1, <2>1 DEF StreamShape
  <2>3. Stream[i + Len(down)] = transit[i + Len(down) - Len(Reading) - Len(down)]
    <3> DEFINE k == i + Len(down)
    <3>1. k \in 1..Len(Stream) /\ ~(k <= Len(Reading)) /\ ~(k <= Len(Reading) + Len(down))
      BY <2>1
    <3> HIDE DEF k
    <3>2. Stream[k] = transit[k - Len(Reading) - Len(down)]
      BY <1>1, <3>1 DEF StreamShape
    <3> QED
      BY <3>2 DEF k
  <2> QED
    BY <1>1, <2>1, <2>2, <2>3
<1>6. ~split' => ~split /\ Len(down) % 2 # 1
  BY Zenon DEF Flushes
<1>7. Len(down) % 2 # 1 => Len(down) % 2 = 0
  BY <1>3
<1> QED
  BY <1>1, <1>3, <1>4, <1>5, <1>6, <1>7, FramedRest DEF StreamShape, Whole

LEMMA WholeStep == ASSUME BlockType, BlockType', SentType, Whole, [Next]_vars PROVE Whole'
<1>1. CASE ReadTimesOut \/ WriteTimesOut
  <2>1. split' = TRUE
    BY <1>1 DEF ReadTimesOut, WriteTimesOut
  <2> QED
    BY <2>1 DEF Whole
<1>2. CASE HostReads \/ Writes \/ UNCHANGED vars
  <2>1. Reading' = Reading /\ UNCHANGED <<down, transit, split>>
    BY <1>2 DEF HostReads, Writes, vars, Reading
  <2> QED
    BY <2>1 DEF Whole, Stream, Framed
<1> QED
  BY <1>1, <1>2, WholeSends, WholeMoves, WholeReads, WholeFlushes DEF Next, Terminal

\* Counting to 1024 is framing enough until something is taken apart.
THEOREM CommandsStayWhole == Spec => CommandsWhole
<1> DEFINE Inv == BlockType /\ SentType /\ Whole
<1>1. Init => Inv
  <2> SUFFICES ASSUME Init PROVE Inv
    OBVIOUS
  <2>1. Len(Stream) = 0
    BY DEF Init, Stream, Reading
  <2> QED
    BY <2>1, BlockTypeStart DEF Whole, Framed
<1>2. Inv /\ [Next]_vars => Inv'
  <2> SUFFICES ASSUME Inv, [Next]_vars PROVE Inv'
    OBVIOUS
  <2>1. BlockType' /\ SentType'
    BY BlockTypeStep, SentTypeStep
  <2>2. Whole'
    BY <2>1, WholeStep
  <2> QED
    BY <2>1, <2>2
<1>3. Inv /\ [Next]_vars =>
        [console = "reads" /\ console' # "reads" /\ ~split'
           => /\ first.part = 1 /\ down # <<>>
              /\ Head(down) = [cmd |-> first.cmd, part |-> 2]]_vars
  <2> SUFFICES ASSUME Inv, Next, console = "reads", console' # "reads", ~split'
               PROVE  /\ first.part = 1 /\ down # <<>>
                      /\ Head(down) = [cmd |-> first.cmd, part |-> 2]
    OBVIOUS
  <2>1. EndsRead
    BY DEF Next, Terminal, HostSends, HostReads, Arrives, BeginsRead, ReadTimesOut, Writes,
           WriteTimesOut, Flushes
  <2>2. ~split
    BY <2>1 DEF EndsRead
  <2> QED
    BY <2>1, <2>2, ReadsWhole
<1> QED
  BY <1>1, <1>2, <1>3, PTL DEF Spec, CommandsWhole

-----------------------------------------------------------------------------
(* One command at a time: as long as nothing was given up and the host has *)
(* always waited, the link carries at most the last command or its answer. *)

Quiet == ~split /\ ~early /\ NoListen

ToCome == Len(Reading) + Len(down) + Len(transit)

OfLast(s) == \A i \in 1..Len(s) : s[i].cmd = Sent

OneExchange ==
  /\ host = "prompt" => ToCome = 0 /\ up = <<>> /\ out = <<>>
  /\ ToCome \in {0, 2}
  /\ ToCome = 2 => up = <<>> /\ out = <<>>
  /\ OfLast(Reading) /\ OfLast(down) /\ OfLast(transit)
  /\ Len(up) + Len(out) \in {0, 2}
  /\ \A i \in 1..Len(up) : up[i] = [cmd |-> Sent, part |-> i]
  /\ \A i \in 1..Len(out) : out[i] = [cmd |-> Sent, part |-> Len(up) + i]

LEMMA LinkLengths ==
  ASSUME BlockType, SentType
  PROVE  /\ transit \in Seq(Block) /\ down \in Seq(Block) /\ up \in Seq(Block) /\ out \in Seq(Block)
         /\ Len(transit) \in Nat /\ Len(down) \in Nat /\ Len(up) \in Nat /\ Len(out) \in Nat
         /\ Len(Reading) \in {0, 1} /\ Sent \in Nat
         /\ transit = <<>> <=> Len(transit) = 0
         /\ down = <<>> <=> Len(down) = 0
         /\ up = <<>> <=> Len(up) = 0
         /\ out = <<>> <=> Len(out) = 0
<1>1. /\ transit \in Seq(Block) /\ down \in Seq(Block) /\ up \in Seq(Block) /\ out \in Seq(Block)
      /\ Sent \in Nat
  BY DEF BlockType, SentType, Sent
<1>2. Len(Reading) \in {0, 1}
  BY DEF Reading
<1> QED
  BY <1>1, <1>2

\* A step that sets neither history variable and sends no listen found the
\* link quiet.
LEMMA QuietBefore == ASSUME SentType, Quiet', [Next]_vars PROVE Quiet
<1>1. ~split
  BY Zenon DEF Quiet, Next, Terminal, HostSends, HostReads, Arrives, BeginsRead, EndsRead,
     ReadTimesOut, Writes, WriteTimesOut, Flushes, vars
<1>2. ~early
  BY Zenon DEF Quiet, Next, Terminal, HostSends, HostReads, Arrives, BeginsRead, EndsRead,
     ReadTimesOut, Writes, WriteTimesOut, Flushes, vars
<1>3. NoListen
  <2>1. CASE HostSends
    <3>1. PICK kind \in Kinds : kinds' = Append(kinds, kind)
      BY <2>1 DEF HostSends
    <3>2. /\ Sent' = Sent + 1 /\ Sent \in Nat
          /\ \A n \in 1..Sent : kinds'[n] = kinds[n]
      BY <3>1 DEF SentType, Sent
    <3>3. \A n \in 1..Sent' : kinds'[n] # "listen"
      BY DEF Quiet, NoListen
    <3> QED
      BY <3>2, <3>3 DEF NoListen
  <2>2. CASE UNCHANGED kinds
    BY <2>2 DEF Quiet, NoListen, Sent
  <2> QED
    BY <2>1, <2>2 DEF Next, Terminal, HostReads, Arrives, BeginsRead, EndsRead, ReadTimesOut,
                      Writes, WriteTimesOut, Flushes, vars
<1> QED
  BY <1>1, <1>2, <1>3 DEF Quiet

\* The host types the next command when nothing is on the way.
LEMMA ExchangeSends ==
  ASSUME BlockType, SentType, OneExchange, HostSends
  PROVE  OneExchange'
<1> DEFINE p == Parts(Sent + 1, 2)
<1>1. Sent \in Nat /\ Sent < MaxSent
  BY DEF SentType, Sent, HostSends
<1>2. p \in Seq(Block) /\ Len(p) = 2 /\ \A k \in 1..2 : p[k] = [cmd |-> Sent + 1, part |-> k]
  <2>1. Sent + 1 \in 1..MaxSent /\ 2 \in 1..ListenBlocks
    BY <1>1, TwoParts
  <2> QED
    BY <2>1, PartsType
<1>3. Sent' = Sent + 1
  <2>1. PICK kind \in Kinds : kinds' = Append(kinds, kind)
    BY DEF HostSends
  <2> QED
    BY <2>1 DEF SentType, Sent
<1>4. /\ transit' = transit \o p /\ host' = "waits" /\ host = "prompt"
      /\ UNCHANGED <<down, console, first, out, up>> /\ Reading' = Reading
  BY DEF HostSends, Reading
<1> HIDE DEF p
<1>5. ToCome = 0 /\ up = <<>> /\ out = <<>>
  BY <1>4 DEF OneExchange
<1>6. Len(Reading) = 0 /\ Len(down) = 0 /\ Len(transit) = 0
  BY <1>5, LinkLengths DEF ToCome
<1>7. transit = <<>>
  BY <1>6, LinkLengths
<1>8. transit' = p
  BY <1>2, <1>4, <1>7
<1>9. /\ Len(Reading') = 0 /\ Len(down') = 0 /\ Len(transit') = 2
      /\ Len(up') = 0 /\ Len(out') = 0
  BY <1>2, <1>4, <1>5, <1>6, <1>8
<1>10. \A i \in 1..Len(transit') : transit'[i].cmd = Sent'
  <2>1. \A i \in 1..2 : p[i].cmd = Sent + 1
    BY <1>2
  <2> QED
    BY <1>3, <1>8, <1>9, <2>1
<1> QED
  BY <1>4, <1>5, <1>9, <1>10 DEF OneExchange, OfLast, ToCome

\* The host reads when the hack is done: the whole answer, or nothing.
LEMMA ExchangeAnswered ==
  ASSUME BlockType, SentType, OneExchange, HostReads, ~early'
  PROVE  /\ OneExchange'
         /\ up # <<>> => Head(up) = [cmd |-> Sent, part |-> 1]
<1> DEFINE n == IF Len(up) < 2 THEN Len(up) ELSE 2
<1>1. /\ up' = Rest(up, n) /\ UNCHANGED <<kinds, transit, down, console, first, out>>
      /\ host' = "prompt"
  BY DEF HostReads
<1>2. early' = (early \/ transit # <<>> \/ down # <<>> \/ console # "idle")
  BY DEF HostReads
<1>3. transit = <<>> /\ down = <<>> /\ console = "idle"
  BY <1>2, Zenon
<1>4. out = <<>> /\ Reading = <<>> /\ Reading' = <<>> /\ Sent' = Sent
  BY <1>1, <1>3 DEF BlockType, Reading, Sent
<1>5. Len(out) = 0 /\ Len(up) \in {0, 2} /\ up \in Seq(Block)
  BY <1>4, LinkLengths DEF OneExchange
<1>6. n = Len(up) /\ n \in 0..Len(up)
  BY <1>5
<1> HIDE DEF n
<1>7. up' \in Seq(Block) /\ Len(up') = 0
  BY <1>1, <1>5, <1>6, RestOf
<1>8. up' = <<>>
  BY <1>7
<1>9. OneExchange'
  <2>1. /\ Len(Reading') = 0 /\ Len(down') = 0 /\ Len(transit') = 0
        /\ Len(out') = 0 /\ out' = <<>>
    BY <1>1, <1>3, <1>4
  <2> QED
    BY <1>1, <1>7, <1>8, <2>1 DEF OneExchange, OfLast, ToCome
<1>10. up # <<>> => Head(up) = [cmd |-> Sent, part |-> 1]
  <2>1. up # <<>> => 1 \in 1..Len(up) /\ Head(up) = up[1]
    BY <1>5
  <2> QED
    BY <2>1 DEF OneExchange
<1> QED
  BY <1>9, <1>10

\* The command comes through: its blocks move on, none is added.
LEMMA ExchangeArrives ==
  ASSUME BlockType, SentType, OneExchange, Arrives
  PROVE  OneExchange'
<1>1. /\ transit # <<>> /\ down' = Append(down, Head(transit)) /\ transit' = Tail(transit)
      /\ UNCHANGED <<host, up, out>> /\ Reading' = Reading /\ Sent' = Sent
  BY DEF Arrives, Reading, Sent
<1>2. /\ Len(down') = Len(down) + 1 /\ Len(transit') = Len(transit) - 1
      /\ Len(transit) > 0 /\ down' \in Seq(Block) /\ transit' \in Seq(Block)
  BY <1>1, LinkLengths, TailOf, AppendOf
<1>3. ToCome' = ToCome /\ ToCome # 0
  BY <1>1, <1>2, LinkLengths DEF ToCome
<1>4. OfLast(transit)'
  BY <1>1, LinkLengths, TailOf DEF OfLast, OneExchange
<1>5. OfLast(down)'
  <2> SUFFICES ASSUME NEW i \in 1..Len(down') PROVE down'[i].cmd = Sent
    BY <1>1 DEF OfLast
  <2>1. CASE i \in 1..Len(down)
    <3>1. down'[i] = down[i]
      BY <1>1, <2>1, LinkLengths, TailOf, AppendOf
    <3> QED
      BY <2>1, <3>1 DEF OneExchange, OfLast
  <2>2. CASE i = Len(down) + 1
    <3>1. down'[i] = transit[1] /\ 1 \in 1..Len(transit)
      BY <1>1, <1>2, <2>2, LinkLengths, TailOf, AppendOf
    <3> QED
      BY <3>1 DEF OneExchange, OfLast
  <2> QED
    BY <1>2, <2>1, <2>2, LinkLengths
<1> QED
  BY <1>1, <1>3, <1>4, <1>5 DEF OneExchange, OfLast

LEMMA ExchangeBegins ==
  ASSUME BlockType, SentType, OneExchange, BeginsRead
  PROVE  OneExchange'
<1>1. /\ down # <<>> /\ down' = Tail(down) /\ Reading = <<>> /\ Reading' = <<Head(down)>>
      /\ UNCHANGED <<host, transit, up, out>> /\ Sent' = Sent
  BY DEF BeginsRead, Reading, Sent
<1>2. /\ Len(down') = Len(down) - 1 /\ Len(down) > 0 /\ down' \in Seq(Block)
      /\ Len(Reading) = 0 /\ Len(Reading') = 1 /\ Reading'[1] = down[1]
  BY <1>1, LinkLengths, TailOf
<1>3. ToCome' = ToCome /\ ToCome # 0
  BY <1>1, <1>2, LinkLengths DEF ToCome
<1>4. OfLast(down)'
  BY <1>1, LinkLengths, TailOf DEF OfLast, OneExchange
<1>5. OfLast(Reading)'
  <2>1. down[1].cmd = Sent
    BY <1>2, LinkLengths DEF OneExchange, OfLast
  <2> QED
    BY <1>1, <1>2, <2>1 DEF OfLast
<1> QED
  BY <1>1, <1>3, <1>4, <1>5 DEF OneExchange, OfLast

\* Both blocks are read: the answer, if there is one, is to the last command.
LEMMA ExchangeReads ==
  ASSUME BlockType, SentType, NoListen, OneExchange, EndsRead
  PROVE  OneExchange'
<1>1. /\ down # <<>> /\ down' = Tail(down) /\ out' = Answer(first)
      /\ Reading = <<first>> /\ Reading' = <<>> /\ first \in Block
      /\ UNCHANGED <<host, transit, up>> /\ Sent' = Sent
  BY DEF EndsRead, Reading, Sent, BlockType
<1>2. Len(Reading) = 1 /\ Len(down) > 0 /\ Len(down') = Len(down) - 1
  BY <1>1, LinkLengths, TailOf
<1>3. ToCome = 2 /\ Len(down) = 1 /\ Len(transit) = 0
  BY <1>2, LinkLengths DEF OneExchange, ToCome
<1>4. up = <<>> /\ host # "prompt" /\ Len(up') = 0
  BY <1>1, <1>3 DEF OneExchange
<1>5. Len(Reading') = 0 /\ Len(down') = 0 /\ Len(transit') = 0
  BY <1>1, <1>2, <1>3
<1>6. first.cmd = Sent
  BY <1>1, <1>2 DEF OneExchange, OfLast
<1>7. kinds[first.cmd] # "listen"
  <2>1. first.cmd \in 1..Sent
    BY <1>1, <1>6 DEF Block
  <2> QED
    BY <2>1 DEF NoListen
<1>8. out' = <<>> \/ out' = Parts(Sent, 2)
  BY <1>1, <1>6, <1>7 DEF Answer
<1>9. /\ Len(out') \in {0, 2}
      /\ \A i \in 1..Len(out') : out'[i] = [cmd |-> Sent, part |-> i]
  <2>1. Sent \in 1..MaxSent /\ 2 \in 1..ListenBlocks
    BY <1>1, <1>6, LinkAssumption DEF Block
  <2>2. /\ Len(Parts(Sent, 2)) = 2
        /\ \A i \in 1..2 : Parts(Sent, 2)[i] = [cmd |-> Sent, part |-> i]
    BY <2>1, PartsType
  <2> QED
    BY <1>8, <2>2
<1>10. \A i \in 1..Len(out') : out'[i] = [cmd |-> Sent', part |-> Len(up') + i]
  BY <1>1, <1>4, <1>9
<1> QED
  BY <1>1, <1>4, <1>5, <1>9, <1>10 DEF OneExchange, OfLast, ToCome

\* A block of the answer goes to the adapter.
LEMMA ExchangeWrites ==
  ASSUME BlockType, SentType, OneExchange, Writes
  PROVE  OneExchange'
<1>1. /\ out # <<>> /\ up' = Append(up, Head(out)) /\ out' = Tail(out)
      /\ Reading = <<>> /\ Reading' = <<>>
      /\ UNCHANGED <<host, transit, down>> /\ Sent' = Sent
  BY DEF Writes, Reading, Sent, BlockType
<1>2. /\ Len(up') = Len(up) + 1 /\ Len(out') = Len(out) - 1 /\ Len(out) > 0
      /\ up'[Len(up) + 1] = out[1]
      /\ \A i \in 1..Len(up) : up'[i] = up[i]
      /\ \A i \in 1..Len(out') : out'[i] = out[i + 1] /\ i + 1 \in 1..Len(out)
  BY <1>1, LinkLengths, TailOf, AppendOf
<1>3. ToCome = 0 /\ ToCome' = 0 /\ host' # "prompt"
  BY <1>1 DEF OneExchange, ToCome
<1>4. Len(up') + Len(out') \in {0, 2}
  BY <1>2, LinkLengths DEF OneExchange
<1>5. ASSUME NEW i \in 1..Len(up') PROVE up'[i] = [cmd |-> Sent, part |-> i]
  <2>1. CASE i \in 1..Len(up)
    BY <1>2, <2>1 DEF OneExchange
  <2>2. CASE i = Len(up) + 1
    <3>1. 1 \in 1..Len(out) /\ Len(up) + 1 = i
      BY <1>2, <2>2, LinkLengths
    <3>2. out[1] = [cmd |-> Sent, part |-> Len(up) + 1]
      BY <3>1 DEF OneExchange
    <3> QED
      BY <1>2, <3>1, <3>2
  <2>3. i \in 1..Len(up) \/ i = Len(up) + 1
    BY <1>2, LinkLengths
  <2> QED
    BY <2>1, <2>2, <2>3
<1>6. ASSUME NEW i \in 1..Len(out') PROVE out'[i] = [cmd |-> Sent, part |-> Len(up') + i]
  <2>1. i + 1 \in 1..Len(out) /\ out'[i] = out[i + 1]
    BY <1>2
  <2>2. out[i + 1] = [cmd |-> Sent, part |-> Len(up) + (i + 1)]
    BY <2>1 DEF OneExchange
  <2>3. Len(up) + (i + 1) = Len(up') + i
    BY <1>2, LinkLengths
  <2> QED
    BY <2>1, <2>2, <2>3
<1>7. OfLast(Reading)' /\ OfLast(down)' /\ OfLast(transit)'
  BY <1>1 DEF OneExchange, OfLast
<1> QED
  BY <1>1, <1>3, <1>4, <1>5, <1>6, <1>7 DEF OneExchange

\* The flush takes the whole command, or split would say so.
LEMMA ExchangeFlushes ==
  ASSUME BlockType, SentType, OneExchange, Flushes, ~split'
  PROVE  OneExchange'
<1>1. /\ down # <<>> /\ down' = <<>> /\ Reading = <<>> /\ Reading' = <<>>
      /\ UNCHANGED <<host, transit, up, out>> /\ Sent' = Sent
  BY DEF Flushes, Reading, Sent
<1>2. Len(down) % 2 # 1
  BY Zenon DEF Flushes
<1>3. Len(down) = 2 /\ Len(transit) = 0
  <2>1. Len(down) # 0 /\ Len(Reading) = 0 /\ Len(down) \in Nat /\ Len(transit) \in Nat
    BY <1>1, LinkLengths
  <2>2. Len(down) # 1
    <3>1. 1 % 2 = 1
      OBVIOUS
    <3> QED
      BY <1>2, <3>1
  <2>3. Len(Reading) + Len(down) + Len(transit) = 0 \/ Len(Reading) + Len(down) + Len(transit) = 2
    BY DEF OneExchange, ToCome
  <2> DEFINE d == Len(down)  t == Len(transit)  r == Len(Reading)
  <2>4. r = 0 /\ d \in Nat /\ t \in Nat /\ d # 0 /\ d # 1 /\ (r + d + t = 0 \/ r + d + t = 2)
    BY <2>1, <2>2, <2>3
  <2> HIDE DEF d, t, r
  <2>5. d = 2 /\ t = 0
    BY <2>4
  <2> QED
    BY <2>5 DEF d, t
<1>4. /\ Len(Reading') = 0 /\ Len(down') = 0 /\ Len(transit') = 0
      /\ up = <<>> /\ out = <<>>
  <2>1. ToCome = 2
    BY <1>1, <1>3 DEF ToCome
  <2> QED
    BY <1>1, <1>3, <2>1 DEF OneExchange
<1> QED
  BY <1>1, <1>4 DEF OneExchange, OfLast, ToCome

LEMMA ExchangeStep ==
  ASSUME BlockType, SentType, Quiet => OneExchange, [Next]_vars, Quiet'
  PROVE  OneExchange'
<1>1. OneExchange /\ NoListen
  BY QuietBefore DEF Quiet
<1>2. ~split' /\ ~early'
  BY DEF Quiet
<1>3. CASE HostSends \/ HostReads \/ Arrives
  BY <1>1, <1>2, <1>3, ExchangeSends, ExchangeAnswered, ExchangeArrives
<1>4. CASE BeginsRead \/ EndsRead \/ Writes
  BY <1>1, <1>4, ExchangeBegins, ExchangeReads, ExchangeWrites
<1>5. CASE Flushes
  BY <1>1, <1>2, <1>5, ExchangeFlushes
<1>6. CASE ReadTimesOut \/ WriteTimesOut
  BY <1>2, <1>6 DEF ReadTimesOut, WriteTimesOut
<1>7. CASE UNCHANGED vars
  <2>1. Reading' = Reading /\ Sent' = Sent /\ UNCHANGED <<host, transit, down, up, out>>
    BY <1>7 DEF vars, Reading, Sent
  <2> QED
    BY <1>1, <2>1 DEF OneExchange, OfLast, ToCome
<1> QED
  BY <1>3, <1>4, <1>5, <1>6, <1>7, Zenon DEF Next, Terminal

\* A host that has always waited is shown the answer to what it has just
\* sent: nothing of an earlier exchange is left when it types the next one.
THEOREM RepliesAreAnswers == Spec => ReplyIsAnswer
<1> DEFINE Inv == BlockType /\ SentType /\ (Quiet => OneExchange)
<1>1. Init => Inv
  <2> SUFFICES ASSUME Init PROVE OneExchange
    BY BlockTypeStart
  <2>1. /\ Len(Reading) = 0 /\ Len(down) = 0 /\ Len(transit) = 0
        /\ up = <<>> /\ out = <<>>
    BY DEF Init, Reading
  <2> QED
    BY <2>1 DEF OneExchange, OfLast, ToCome
<1>2. Inv /\ [Next]_vars => Inv'
  <2> SUFFICES ASSUME Inv, [Next]_vars PROVE Inv'
    OBVIOUS
  <2>1. BlockType' /\ SentType'
    BY BlockTypeStep, SentTypeStep
  <2>2. Quiet' => OneExchange'
    BY ExchangeStep
  <2> QED
    BY <2>1, <2>2
<1>3. Inv /\ [Next]_vars =>
        [host = "waits" /\ host' = "prompt" /\ up # <<>> /\ ~split /\ ~early' /\ NoListen
           => Head(up) = [cmd |-> Sent, part |-> 1]]_vars
  <2> SUFFICES ASSUME Inv, Next, host = "waits", host' = "prompt", up # <<>>, ~split, ~early',
                      NoListen
               PROVE  Head(up) = [cmd |-> Sent, part |-> 1]
    OBVIOUS
  <2>1. HostReads
    BY DEF Next, Terminal, HostSends, Arrives, BeginsRead, EndsRead, ReadTimesOut, Writes,
           WriteTimesOut, Flushes
  <2>2. ~early
    BY <2>1, Zenon DEF HostReads
  <2> QED
    BY <2>1, <2>2, ExchangeAnswered DEF Quiet
<1> QED
  BY <1>1, <1>2, <1>3, PTL DEF Spec, ReplyIsAnswer

-----------------------------------------------------------------------------
(* The terminal winds down.                                                *)

\* Steps of the terminal that the frame may still wait for.
StepsLeft ==
  CASE console = "reads"  -> ListenBlocks + 1
    [] console = "writes" -> Len(out)
    [] OTHER              -> 0

LEMMA AnswerFits == ASSUME NEW b \in Block PROVE Len(Answer(b)) \in 0..ListenBlocks
<1> DEFINE c == IF kinds[b.cmd] = "listen" THEN ListenBlocks ELSE 2
<1>1. b.cmd \in 1..MaxSent /\ c \in 1..ListenBlocks
  BY LinkAssumption DEF Block
<1>2. CASE Answer(b) = <<>>
  BY <1>2, LinkAssumption
<1>3. CASE Answer(b) = Parts(b.cmd, c)
  <2> HIDE DEF c
  <2>1. Len(Parts(b.cmd, c)) = c
    BY <1>1, PartsType
  <2> QED
    BY <1>1, <1>3, <2>1
<1> QED
  BY <1>2, <1>3 DEF Answer

LEMMA TerminalGoesOn == ASSUME BlockType, Terminal, console # "idle"
                        PROVE  StepsLeft' < StepsLeft
<1>s. ListenBlocks \in Nat /\ ListenBlocks > 2 /\ out \in Seq(Block)
  BY LinkAssumption DEF BlockType
<1>1. CASE EndsRead
  <2>1. Len(Answer(first)) \in 0..ListenBlocks
    BY <1>1, AnswerFits DEF EndsRead, BlockType
  <2>2. StepsLeft = ListenBlocks + 1
    BY <1>1 DEF EndsRead, StepsLeft
  <2>3. /\ out' = Answer(first) /\ console' \in {"idle", "writes"}
    BY <1>1 DEF EndsRead
  <2>4. StepsLeft' \in 0..ListenBlocks
    BY <1>s, <2>1, <2>3 DEF StepsLeft
  <2> QED
    BY <1>s, <2>2, <2>4
<1>2. CASE ReadTimesOut
  BY <1>s, <1>2 DEF ReadTimesOut, StepsLeft
<1>3. CASE Writes
  <2>1. out # <<>> /\ StepsLeft = Len(out) /\ out' = Tail(out)
    BY <1>3 DEF Writes, BlockType, StepsLeft
  <2>2. Len(out) \in Nat /\ Len(out) > 0 /\ Len(out') = Len(out) - 1
    BY <1>s, <2>1
  <2>3. console' \in {"idle", "writes"}
    BY <1>3 DEF Writes
  <2>4. StepsLeft' \in {0, Len(out')}
    BY <2>3 DEF StepsLeft
  <2> QED
    BY <2>1, <2>2, <2>4
<1>4. CASE WriteTimesOut
  <2>1. out # <<>> /\ StepsLeft = Len(out) /\ StepsLeft' = 0
    BY <1>4 DEF WriteTimesOut, BlockType, StepsLeft
  <2> QED
    BY <1>s, <2>1
<1> QED
  BY <1>1, <1>2, <1>3, <1>4 DEF Terminal, BeginsRead

LEMMA OutFitsStep == ASSUME BlockType, Len(out) <= ListenBlocks, [Next]_vars
                     PROVE  Len(out') <= ListenBlocks
<1>s. ListenBlocks \in Nat /\ out \in Seq(Block)
  BY LinkAssumption DEF BlockType
<1>1. CASE EndsRead
  <2>1. Len(Answer(first)) \in 0..ListenBlocks
    BY <1>1, AnswerFits DEF EndsRead, BlockType
  <2> QED
    BY <1>s, <1>1, <2>1 DEF EndsRead
<1>2. CASE Writes
  <2>1. out # <<>> /\ out' = Tail(out)
    BY <1>2 DEF Writes, BlockType
  <2> QED
    BY <1>s, <2>1
<1>3. CASE WriteTimesOut
  BY <1>s, <1>3 DEF WriteTimesOut
<1>4. CASE UNCHANGED out
  BY <1>4
<1> QED
  BY <1>1, <1>2, <1>3, <1>4
     DEF Next, Terminal, HostSends, HostReads, Arrives, BeginsRead, ReadTimesOut, Flushes, vars

\* The frame waits for no more than ListenBlocks + 1 steps of the terminal,
\* each of which brings its end nearer, and no step of the host, of USB or of
\* the menu puts the end off (debug.c:155-216): what GameGoesOn says, but for
\* the steps being taken.
THEOREM TerminalWindsDown ==
  Spec => [][/\ StepsLeft \in 0..ListenBlocks + 1
             /\ console # "idle" => StepsLeft > 0
             /\ console # "idle" /\ Terminal => StepsLeft' < StepsLeft
             /\ console # "idle" /\ ~Terminal => StepsLeft' = StepsLeft]_vars
<1> DEFINE Inv  == /\ BlockType /\ SentType /\ Len(out) <= ListenBlocks
                   /\ console \in {"idle", "reads", "writes"}
           Step == /\ StepsLeft \in 0..ListenBlocks + 1
                   /\ console # "idle" => StepsLeft > 0
                   /\ console # "idle" /\ Terminal => StepsLeft' < StepsLeft
                   /\ console # "idle" /\ ~Terminal => StepsLeft' = StepsLeft
<1>1. Init => Inv
  BY BlockTypeStart, LinkAssumption DEF Init
<1>2. Inv /\ [Next]_vars => Inv'
  <2> SUFFICES ASSUME Inv, [Next]_vars PROVE Inv'
    OBVIOUS
  <2>1. BlockType' /\ SentType'
    BY BlockTypeStep, SentTypeStep
  <2>2. console' \in {"idle", "reads", "writes"}
    BY DEF Next, Terminal, HostSends, HostReads, Arrives, BeginsRead, EndsRead, ReadTimesOut,
           Writes, WriteTimesOut, Flushes, vars
  <2> QED
    BY <2>1, <2>2, OutFitsStep
<1>3. Inv /\ [Next]_vars => [Step]_vars
  <2> SUFFICES ASSUME Inv, Next PROVE Step
    OBVIOUS
  <2>1. StepsLeft \in 0..ListenBlocks + 1 /\ (console # "idle" => StepsLeft > 0)
    <3>1. ListenBlocks \in Nat /\ Len(out) \in 0..ListenBlocks
      BY LinkAssumption DEF BlockType
    <3>2. console = "writes" => Len(out) > 0
      BY DEF BlockType
    <3> QED
      BY <3>1, <3>2 DEF StepsLeft
  <2>2. console # "idle" /\ ~Terminal => StepsLeft' = StepsLeft
    BY DEF Next, HostSends, HostReads, Arrives, Flushes, StepsLeft
  <2> QED
    BY <2>1, <2>2, TerminalGoesOn
<1> QED
  BY <1>1, <1>2, <1>3, PTL DEF Spec
=============================================================================
