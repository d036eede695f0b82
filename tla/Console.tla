------------------------------ MODULE Console ------------------------------
(***************************************************************************)
(* The host's peek and poke commands (debug.c): addresses and values come  *)
(* and go as text, and memory is bytes, the upper one first.               *)
(***************************************************************************)
EXTENDS Numbers

CONSTANTS
  Ram,          \* addresses of memory
  Addresses,    \* texts the host sends as an address
  Values,       \* and as a value
  FloatPlaces,  \* digits behind the point a float keeps
  FloatSize     \* digits peekf asks for: 10

ByteSize_ == Power(Hex, 2)
Sizes == {1, 2, 4}

\* The sign of a number is its first bit; a word has the digits of four bytes.
ASSUME ConsoleAssumption ==
  /\ Ram \subseteq 0..WordSize - 1
  /\ \A a \in Ram, i \in 0..3 : (a \div 4) * 4 + i \in Ram
  /\ Addresses \subseteq Seq(Int) /\ Values \subseteq Seq(Int)
  /\ Hex % 2 = 0 /\ WordDigits = 8
  /\ FloatPlaces \in Nat /\ FloatSize \in Nat \ {0}

OK == <<Other, Other>>
ERR == <<Other, Other, Other>>

NoCommand == [does |-> "nothing"]

VARIABLES
  ram,
  command,   \* the last command
  answer,    \* the text sent back for it
  told       \* history: for each byte the two digits the host was told or told us

consoleVars == <<ram, command, answer, told>>

\* What follows a poke: an address and a value, or an address alone.
Pokes == {a \o <<Space>> \o v : a \in Addresses, v \in Values} \cup Addresses

\* An address, read with eight digits whatever the host sent.  An odd one, or
\* one outside of memory, is a processor exception: not in the model.
AddressOf ==
  [text \in Addresses \cup {Head_(args) : args \in Pokes} |-> FromHexStr(text, WordDigits)]
Address(text) == AddressOf[text]
Reaches(text, size) ==
  /\ Address(text) % size = 0
  /\ Address(text)..Address(text) + size - 1 \subseteq Ram

WordAt(a, size) ==
  LET sum[i \in 0..size] ==
        IF i = 0 THEN 0 ELSE ByteSize_ * sum[i - 1] + ram[a + i - 1]
  IN sum[size]

-----------------------------------------------------------------------------
Peek(text, size) ==
  /\ Reaches(text, size)
  /\ command' = [does |-> "peek", at |-> Address(text), size |-> size]
  /\ answer' = HexStr(WordAt(Address(text), size), size)
  /\ UNCHANGED <<ram, told>>

\* Mutant: the digits of a negative number are printed as they are.
SPeekUnchanged(text, size) ==
  /\ Reaches(text, size)
  /\ command' = [does |-> "speek", at |-> Address(text), size |-> size]
  /\ answer' = (IF HexStr(WordAt(Address(text), size), size)[1] >= Hex \div 2
                  THEN <<Minus>> ELSE <<>>) \o HexStr(WordAt(Address(text), size), size)
  /\ UNCHANGED <<ram, told>>

SPeek(text, size) ==
  /\ Reaches(text, size)
  /\ command' = [does |-> "speek", at |-> Address(text), size |-> size]
  /\ answer' = HexStrSigned(WordAt(Address(text), size), size)
  /\ UNCHANGED <<ram, told>>

\* A float is a sign and a number of parts of Dec^FloatPlaces.
Parts_(w) == w % (WordSize \div 2)

PeekFloat(text) ==
  /\ Reaches(text, 4)
  /\ command' = [does |-> "peekf", at |-> Address(text), size |-> 4]
  /\ LET w == WordAt(Address(text), 4) IN
       answer' = FloatStr(Negative(w) /\ Parts_(w) # 0, Parts_(w), FloatPlaces, FloatSize)
  /\ UNCHANGED <<ram, told>>

\* The digits a value stands for, up to the first other character and zeros
\* from there; more digits than a word has are nobody's number.
Meant(text) ==
  [i \in 1..Len(text) |-> IF \A j \in 1..i : text[j] \in 0..Hex - 1 THEN text[i] ELSE 0]

Told(text, size) ==
  LET digits == Zeros(2 * size) \o Meant(text) IN
  [i \in 0..size - 1 |->
     IF Len(text) > WordDigits THEN <<>>
     ELSE LET last_ == Len(digits) - 2 * (size - 1 - i) IN <<digits[last_ - 1], digits[last_]>>]

ValueOf(text) == FromHexStr(text, Len(text))

Poke(args, size) ==
  /\ HasTail(args)
  /\ Reaches(Head_(args), size)
  /\ LET a == Address(Head_(args))
         v == ValueOf(Tail_(args)) % Power(ByteSize_, size)
     IN
     /\ command' = [does |-> "poke", at |-> a, size |-> size]
     /\ ram' = [b \in Ram |-> IF b \in a..a + size - 1
                              THEN (v \div Power(ByteSize_, a + size - 1 - b)) % ByteSize_
                              ELSE ram[b]]
     /\ told' = [b \in Ram |-> IF b \in a..a + size - 1
                               THEN Told(Tail_(args), size)[b - a] ELSE told[b]]
  /\ answer' = OK

\* Without a value.
PokeError(args, size) ==
  /\ ~HasTail(args)
  /\ command' = NoCommand /\ answer' = ERR
  /\ UNCHANGED <<ram, told>>

-----------------------------------------------------------------------------
ConsoleInit ==
  /\ ram = [a \in Ram |-> 0]
  /\ told = [a \in Ram |-> <<0, 0>>]
  /\ command = NoCommand /\ answer = <<>>

ConsoleNext ==
  \/ \E text \in Addresses, size \in Sizes : Peek(text, size) \/ SPeek(text, size)
  \/ \E text \in Addresses : PeekFloat(text)
  \/ \E args \in Pokes, size \in Sizes : Poke(args, size) \/ PokeError(args, size)

ConsoleSpec == ConsoleInit /\ [][ConsoleNext]_consoleVars

-----------------------------------------------------------------------------
\* The digits the host has given to the bytes it asks for, in their order.
Known == \A i \in 0..command.size - 1 : told[command.at + i] # <<>>
Digits == [i \in 1..2 * command.size |->
             told[command.at + ((i - 1) \div 2)][1 + ((i - 1) % 2)]]

ValueDigits(str) ==
  LET value[i \in 0..Len(str)] == IF i = 0 THEN 0 ELSE Hex * value[i - 1] + str[i]
  IN value[Len(str)]

\* The number before the point, without its sign.
WholeOf(str) ==
  LET point == CHOOSE i \in 1..Len(str) : str[i] = Point
      value[i \in 0..Len(str)] ==
        IF i = 0 \/ str[i] = Minus THEN 0 ELSE Dec * value[i - 1] + str[i]
  IN value[point - 1]

\* A peek of any size: the digits of its bytes.
PeekTells == command.does = "peek" /\ Known => answer = Digits

\* A signed one: the same number in two's complement of its own size.
SPeekTells ==
  command.does = "speek" /\ Known =>
    LET n == ValueDigits(Digits) IN
    IF n >= Power(Hex, 2 * command.size) \div 2
      THEN /\ answer[1] = Minus
           /\ ValueDigits(Tail(answer)) + n = Power(Hex, 2 * command.size)
      ELSE ValueDigits(answer) = n

\* A float: its sign and its digits up to the point.  Behind it nothing is
\* promised: ten digits are asked for, their power overflows, and zeros after
\* the point are dropped.
FloatTells ==
  command.does = "peekf" /\ Known =>
    LET w == ValueDigits(Digits) IN
    /\ WholeOf(answer) = Parts_(w) \div Power(Dec, FloatPlaces)
    /\ (answer[1] = Minus) <=> (Negative(w) /\ Parts_(w) # 0)

\* Every peek answers with what was poked, in whatever sizes and however short
\* the texts, byte for byte: as digits, as a signed number of the size that
\* is asked for, and as a float up to the point (debug.c:222-310,
\* utility.c:98-124, 185-196).
PeeksTell == PeekTells /\ SPeekTells /\ FloatTells
=============================================================================
