------------------------------ MODULE Numbers ------------------------------
(***************************************************************************)
(* The conversions of utility.c.  A text is a sequence of characters: a    *)
(* digit is its value, in either case of a letter, any other character is  *)
(* one of the negative numbers below.  The bases and the width of a word   *)
(* are parameters: 10, 16 and 8 digits in the code.                        *)
(***************************************************************************)
EXTENDS Integers, Sequences, Powers

CONSTANTS Dec, Hex, WordDigits

ASSUME NumbersAssumption ==
  /\ Dec \in Nat \ {0, 1} /\ Hex \in Nat \ {0, 1}
  /\ WordDigits \in Nat \ {0}

Minus == -1    Point == -2    Colon == -3    Space == -4    Other == -5

WordSize == Power(Hex, WordDigits)
Negative(v) == v >= WordSize \div 2

Zeros(n) == [i \in 1..n |-> 0]

-----------------------------------------------------------------------------
(* Printing.                                                               *)

DecDigits[v \in Nat] ==
  IF v = 0 THEN <<>> ELSE Append(DecDigits[v \div Dec], v % Dec)

\* to_decstr: at least `size' digits, none for 0 if size is 0.  A word that is
\* negative as an int gets a sign, and the digits it has without one.
DecStr(v, size) ==
  LET digits == DecDigits[v] IN
  (IF Negative(v) THEN <<Minus>> ELSE <<>>)
    \o Zeros(IF Len(digits) < size THEN size - Len(digits) ELSE 0) \o digits

\* to_hexstr: the low 2*size digits, the highest first.
HexStr(v, size) ==
  [i \in 1..2 * size |-> (v \div Power(Hex, 2 * size - i)) % Hex]

\* to_hexstr_signed: the sign is that of the size, the negation that of a word.
HexStrSigned(v, size) ==
  IF HexStr(v, size)[1] >= Hex \div 2
    THEN <<Minus>> \o HexStr(WordSize - v, size)
    ELSE HexStr(v, size)

\* gpow, in an int.
GPow(n, e) == Power(n, e) % WordSize

\* to_floatstr of a float that is `quot' parts of Dec^places, with or without
\* its sign; `size' digits are asked for behind the point.
FloatStr(negative, quot, places, size) ==
  LET one  == Power(Dec, places)
      frac == ((quot % one) * GPow(Dec, size)) \div one
  IN (IF negative THEN <<Minus>> ELSE <<>>)
       \o DecStr(quot \div one, 0)
       \o (IF size = 0 THEN <<>> ELSE <<Point>> \o DecStr(frac, 0))

-----------------------------------------------------------------------------
(* Reading.                                                                *)

Lesser(a, b) == IF a < b THEN a ELSE b

\* from_hexstr: the first character stands at the place `len' gives it, however
\* short the text is; a place beyond the word is taken modulo its width, as
\* the processor's shift does.
FromHexStr(str, len) ==
  LET value[i \in 0..Lesser(len, Len(str))] ==
        IF i = 0 THEN 0
        ELSE value[i - 1] + str[i] * Power(Hex, (len - i) % WordDigits)
      read == CHOOSE n \in 0..Lesser(len, Len(str)) :
                /\ \A i \in 1..n : str[i] \in 0..Hex - 1
                /\ n = Lesser(len, Len(str)) \/ str[n + 1] \notin 0..Hex - 1
  IN value[read] % WordSize

\* split_space: the head, and the tail where there is one.
Spaces(str) == {i \in 1..Len(str) : str[i] = Space}
FirstSpace(str) == CHOOSE i \in Spaces(str) : \A j \in Spaces(str) : i <= j

HasTail(str) == Spaces(str) # {} /\ FirstSpace(str) < Len(str)
Head_(str) == IF Spaces(str) = {} THEN str ELSE SubSeq(str, 1, FirstSpace(str) - 1)
Tail_(str) == SubSeq(str, FirstSpace(str) + 1, Len(str))
=============================================================================
