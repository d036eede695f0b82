--------------------------- MODULE NumbersProofs ---------------------------
(***************************************************************************)
(* What the recursive definitions of the model compute, for every input:   *)
(* induction and recursion over the naturals, powers, digits.  A property  *)
(* is the set of numbers that have it and a step of a definition is a      *)
(* function, so that no lemma takes an operator as a parameter.            *)
(***************************************************************************)
EXTENDS Numbers, WellFoundedInduction, TLAPS

LEMMA LeastNumber ==
  ASSUME NEW S, S \subseteq Nat, S # {}
  PROVE  \E m \in S : \A n \in S : m <= n
<1>1. PICK m \in S : \A n \in S : ~(<<n, m>> \in OpToRel(<, Nat))
  BY WFMin, NatLessThanWellFounded
<1>2. \A n, k \in Nat : n < k => <<n, k>> \in OpToRel(<, Nat)
  BY DEF OpToRel
<1>3. ASSUME NEW n \in S PROVE m <= n
  <2>1. n \in Nat /\ m \in Nat /\ ~(n < m)
    BY <1>1, <1>2
  <2> QED
    BY <2>1
<1> QED
  BY <1>3

LEMMA GreatestNumber ==
  ASSUME NEW n \in Nat, NEW S, S \subseteq 0..n, S # {}
  PROVE  \E m \in S : \A k \in S : k <= m
<1> DEFINE T == {n - k : k \in S}
<1>1. T \subseteq Nat /\ T # {}
  <2>1. \A k \in S : n - k \in Nat
    OBVIOUS
  <2>2. PICK k : k \in S
    OBVIOUS
  <2>3. n - k \in T
    BY <2>2
  <2> QED
    BY <2>1, <2>3
<1> HIDE DEF T
<1>2. PICK t \in T : \A u \in T : t <= u
  BY <1>1, LeastNumber
<1>3. PICK m \in S : t = n - m
  BY DEF T
<1>4. ASSUME NEW k \in S PROVE k <= m
  <2>1. n - k \in T /\ k \in Nat /\ m \in Nat
    BY DEF T
  <2>2. n - m <= n - k
    BY <1>2, <1>3, <2>1
  <2> QED
    BY <2>1, <2>2
<1> QED
  BY <1>4

LEMMA StrongInduction ==
  ASSUME NEW S, \A n \in Nat : (\A m \in 0..n - 1 : m \in S) => n \in S
  PROVE  \A n \in Nat : n \in S
<1> SUFFICES ASSUME Nat \ S # {} PROVE FALSE
  OBVIOUS
<1>1. PICK m \in Nat \ S : \A n \in Nat \ S : m <= n
  BY LeastNumber
<1>2. \A n \in 0..m - 1 : n \in S
  BY <1>1
<1> QED
  BY <1>1, <1>2

LEMMA Induction ==
  ASSUME NEW S, 0 \in S, \A n \in Nat : n \in S => n + 1 \in S
  PROVE  \A n \in Nat : n \in S
<1>1. ASSUME NEW n \in Nat, \A m \in 0..n - 1 : m \in S PROVE n \in S
  <2>1. CASE n = 0
    BY <2>1
  <2>2. CASE n # 0
    <3>1. n - 1 \in 0..n - 1 /\ n - 1 \in Nat /\ (n - 1) + 1 = n
      BY <2>2
    <3>2. n - 1 \in S
      BY <1>1, <3>1
    <3>3. (n - 1) + 1 \in S
      BY <3>1, <3>2
    <3> QED
      BY <3>1, <3>3
  <2> QED
    BY <2>1, <2>2
<1> QED
  BY <1>1, StrongInduction

-----------------------------------------------------------------------------
(* What a definition by recursion computes up to n.                        *)

Recurses(D, V, a, prev, step) ==
  /\ D \subseteq Nat /\ a \in V
  /\ prev \in [D -> D] /\ \A n \in D : n # 0 => prev[n] < n
  /\ step \in [D -> [V -> V]]

Below(D, n) == {m \in D : m <= n}

Attempts(D, V, a, prev, step, n) ==
  {g \in [Below(D, n) -> V] :
     \A m \in Below(D, n) : g[m] = IF m = 0 THEN a ELSE step[m][g[prev[m]]]}

LEMMA AttemptsAgree ==
  ASSUME NEW D, NEW V, NEW a, NEW prev, NEW step, Recurses(D, V, a, prev, step),
         NEW n \in Nat, NEW g \in Attempts(D, V, a, prev, step, n),
         NEW k \in Nat, NEW h \in Attempts(D, V, a, prev, step, k),
         NEW m \in D, m <= n, m <= k
  PROVE  g[m] = h[m]
<1> USE DEF Recurses
<1> DEFINE S == {i \in Nat : i \in D /\ i <= n /\ i <= k => g[i] = h[i]}
<1>1. ASSUME NEW i \in Nat, \A j \in 0..i - 1 : j \in S PROVE i \in S
  <2> SUFFICES ASSUME i \in D, i <= n, i <= k PROVE g[i] = h[i]
    OBVIOUS
  <2>1. i \in Below(D, n) /\ i \in Below(D, k)
    BY DEF Below
  <2>2. /\ g[i] = IF i = 0 THEN a ELSE step[i][g[prev[i]]]
        /\ h[i] = IF i = 0 THEN a ELSE step[i][h[prev[i]]]
    BY <2>1 DEF Attempts
  <2>3. i # 0 => g[prev[i]] = h[prev[i]]
    <3> SUFFICES ASSUME i # 0 PROVE g[prev[i]] = h[prev[i]]
      OBVIOUS
    <3>1. prev[i] \in D /\ prev[i] \in Nat /\ prev[i] < i
      OBVIOUS
    <3>2. prev[i] \in S
      BY <1>1, <3>1
    <3> QED
      BY <3>1, <3>2
  <2> QED
    BY <2>2, <2>3
<1> HIDE DEF S
<1>2. \A i \in Nat : i \in S
  BY <1>1, StrongInduction
<1>3. m \in S /\ m \in Nat
  BY <1>2
<1> QED
  BY <1>3 DEF S

LEMMA AttemptsExist ==
  ASSUME NEW D, NEW V, NEW a, NEW prev, NEW step, Recurses(D, V, a, prev, step),
         NEW n \in Nat
  PROVE  Attempts(D, V, a, prev, step, n) # {}
<1> USE DEF Recurses
<1> DEFINE A(i) == Attempts(D, V, a, prev, step, i)
           S == {i \in Nat : A(i) # {}}
<1>1. 0 \in S
  <2> DEFINE g == [i \in Below(D, 0) |-> a]
  <2>1. \A i \in Below(D, 0) : i = 0
    BY DEF Below
  <2>2. g \in A(0)
    BY <2>1 DEF Attempts
  <2> QED
    BY <2>2
<1>2. ASSUME NEW i \in Nat, i \in S PROVE i + 1 \in S
  <2>1. PICK g : g \in A(i)
    BY <1>2
  <2>2. /\ g \in [Below(D, i) -> V]
        /\ \A m \in Below(D, i) : g[m] = IF m = 0 THEN a ELSE step[m][g[prev[m]]]
    BY <2>1 DEF Attempts
  <2> DEFINE h == [m \in Below(D, i + 1) |->
                     IF m = i + 1 THEN step[m][g[prev[m]]] ELSE g[m]]
  <2>3. \A m \in Below(D, i + 1) : m # i + 1 => m \in Below(D, i)
    BY DEF Below
  <2>4. ASSUME NEW m \in Below(D, i + 1), m # 0
        PROVE  prev[m] \in Below(D, i) /\ prev[m] \in Below(D, i + 1) /\ prev[m] # i + 1
    <3>1. m \in D /\ m <= i + 1 /\ m \in Nat
      BY DEF Below
    <3>2. prev[m] \in D /\ prev[m] \in Nat /\ prev[m] < m
      BY <2>4, <3>1
    <3> QED
      BY <3>1, <3>2 DEF Below
  <2>5. \A m \in Below(D, i + 1) : m \in D /\ m \in Nat
    BY DEF Below
  <2>6. h \in [Below(D, i + 1) -> V]
    BY <2>2, <2>3, <2>4, <2>5
  <2>7. ASSUME NEW m \in Below(D, i + 1)
        PROVE  h[m] = IF m = 0 THEN a ELSE step[m][h[prev[m]]]
    <3>1. CASE m = i + 1
      <4>1. h[prev[m]] = g[prev[m]] /\ m # 0
        BY <2>4, <3>1
      <4> QED
        BY <3>1, <4>1
    <3>2. CASE m # i + 1
      <4>1. h[m] = g[m] /\ m \in Below(D, i)
        BY <2>3, <3>2
      <4>2. m # 0 => h[prev[m]] = g[prev[m]]
        BY <2>4
      <4> QED
        BY <2>2, <4>1, <4>2
    <3> QED
      BY <3>1, <3>2
  <2> HIDE DEF h
  <2>8. h \in A(i + 1)
    BY <2>6, <2>7 DEF Attempts
  <2> QED
    BY <2>8
<1> HIDE DEF S
<1>3. \A i \in Nat : i \in S
  BY <1>1, <1>2, Induction
<1>4. n \in S
  BY <1>3
<1> QED
  BY <1>4 DEF S

\* A definition by recursion on a smaller number defines a function.
LEMMA RecursiveFunction ==
  ASSUME NEW D, NEW V, NEW a, NEW prev, NEW step, Recurses(D, V, a, prev, step)
  PROVE  \E f \in [D -> V] :
           \A n \in D : f[n] = IF n = 0 THEN a ELSE step[n][f[prev[n]]]
<1> DEFINE A(i) == Attempts(D, V, a, prev, step, i)
           G(i) == CHOOSE g : g \in A(i)
           f == [n \in D |-> G(n)[n]]
<1>1. ASSUME NEW n \in Nat PROVE G(n) \in A(n)
  <2>1. A(n) # {}
    BY AttemptsExist
  <2> HIDE DEF A
  <2> QED
    BY <2>1
<1>2. ASSUME NEW n \in D
      PROVE  f[n] \in V /\ f[n] = IF n = 0 THEN a ELSE step[n][f[prev[n]]]
  <2>1. n \in Nat /\ n \in Below(D, n)
    BY DEF Below, Recurses
  <2>2. G(n) \in A(n)
    BY <1>1, <2>1
  <2> HIDE DEF G
  <2>3. G(n)[n] \in V /\ G(n)[n] = IF n = 0 THEN a ELSE step[n][G(n)[prev[n]]]
    BY <2>1, <2>2 DEF Attempts, Recurses
  <2>4. n # 0 => G(n)[prev[n]] = G(prev[n])[prev[n]]
    <3> SUFFICES ASSUME n # 0 PROVE G(n)[prev[n]] = G(prev[n])[prev[n]]
      OBVIOUS
    <3>1. prev[n] \in D /\ prev[n] \in Nat /\ prev[n] <= n /\ prev[n] <= prev[n]
      <4>1. prev[n] \in D /\ prev[n] \in Nat /\ prev[n] < n
        BY <2>1 DEF Recurses
      <4> QED
        BY <2>1, <4>1
    <3>2. G(prev[n]) \in A(prev[n])
      BY <1>1, <3>1
    <3> HIDE DEF A
    <3>3. /\ G(n) \in Attempts(D, V, a, prev, step, n)
          /\ G(prev[n]) \in Attempts(D, V, a, prev, step, prev[n])
      BY <2>2, <3>2 DEF A
    <3> DEFINE g == G(n)  k == prev[n]  h == G(prev[n])
    <3>4. /\ g \in Attempts(D, V, a, prev, step, n) /\ k \in Nat /\ k \in D
          /\ h \in Attempts(D, V, a, prev, step, k) /\ k <= n /\ k <= k
      BY <3>1, <3>3
    <3> HIDE DEF g, h, k
    <3>5. g[k] = h[k]
      BY ONLY Recurses(D, V, a, prev, step), <2>1, <3>4, AttemptsAgree
    <3> QED
      BY <3>5 DEF g, h, k
  <2>5. n # 0 => f[prev[n]] = G(prev[n])[prev[n]]
    BY DEF Recurses
  <2> QED
    BY <2>3, <2>4, <2>5
<1>3. f \in [D -> V]
  BY <1>2
<1> HIDE DEF f
<1> QED
  BY <1>2, <1>3

\* One step from each number to the next.
Iterates(N, V, a, step) == N \in Nat /\ a \in V /\ step \in [1..N -> [V -> V]]

LEMMA Iteration ==
  ASSUME NEW N, NEW V, NEW a, NEW step, Iterates(N, V, a, step)
  PROVE  \E f \in [0..N -> V] : \A n \in 0..N : f[n] = IF n = 0 THEN a ELSE step[n][f[n - 1]]
<1> DEFINE D == 0..N
           prev == [n \in 0..N |-> IF n = 0 THEN 0 ELSE n - 1]
           Step == [n \in 0..N |-> IF n = 0 THEN [v \in V |-> v] ELSE step[n]]
<1> USE DEF Iterates
<1>1. Recurses(D, V, a, prev, Step)
  <2>1. prev \in [0..N -> 0..N] /\ \A n \in 0..N : n # 0 => prev[n] < n
    OBVIOUS
  <2>2. Step \in [0..N -> [V -> V]]
    OBVIOUS
  <2> HIDE DEF prev, Step
  <2> QED
    BY <2>1, <2>2 DEF Recurses
<1>2. PICK f \in [D -> V] :
        \A n \in D : f[n] = IF n = 0 THEN a ELSE Step[n][f[prev[n]]]
  <2> HIDE DEF D, prev, Step
  <2> QED
    BY <1>1, RecursiveFunction
<1>3. ASSUME NEW n \in 0..N, n # 0 PROVE f[n] = step[n][f[n - 1]]
  <2>1. prev[n] = n - 1 /\ Step[n] = step[n]
    BY <1>3
  <2> HIDE DEF prev, Step
  <2> QED
    BY <1>2, <1>3, <2>1
<1>4. f[0] = a
  BY <1>2
<1> QED
  BY <1>3, <1>4

LEMMA IterationType ==
  ASSUME NEW N \in Nat, NEW V, NEW f, f[0] \in V,
         \A n \in 1..N : f[n - 1] \in V => f[n] \in V
  PROVE  \A n \in 0..N : f[n] \in V
<1> DEFINE S == {n \in Nat : n <= N => f[n] \in V}
<1>1. 0 \in S
  OBVIOUS
<1>2. ASSUME NEW n \in Nat, n \in S PROVE n + 1 \in S
  <2>1. CASE n + 1 <= N
    <3>1. n + 1 \in 1..N /\ (n + 1) - 1 = n /\ f[n] \in V
      BY <1>2, <2>1
    <3> QED
      BY <3>1
  <2> QED
    BY <2>1
<1> HIDE DEF S
<1>3. \A n \in Nat : n \in S
  BY <1>1, <1>2, Induction
<1> QED
  BY <1>3 DEF S

-----------------------------------------------------------------------------
(* Sequences one after the other.                                          *)

LEMMA Joined ==
  ASSUME NEW S, NEW s \in Seq(S), NEW t \in Seq(S)
  PROVE  /\ s \o t \in Seq(S) /\ Len(s \o t) = Len(s) + Len(t)
         /\ Len(s) \in Nat /\ Len(t) \in Nat
         /\ \A k \in 1..Len(s) : (s \o t)[k] = s[k]
         /\ \A k \in 1..Len(t) : (s \o t)[Len(s) + k] = t[k]
<1>1. /\ Len(s) \in Nat /\ Len(t) \in Nat
      /\ s \o t \in Seq(S) /\ Len(s \o t) = Len(s) + Len(t)
  OBVIOUS
<1>2. ASSUME NEW k \in 1..Len(s) PROVE (s \o t)[k] = s[k]
  BY <1>1
<1>3. ASSUME NEW k \in 1..Len(t) PROVE (s \o t)[Len(s) + k] = t[k]
  BY <1>1
<1> QED
  BY <1>1, <1>2, <1>3

-----------------------------------------------------------------------------
(* Division.                                                               *)

LEMMA DivUnique ==
  ASSUME NEW a \in Nat, NEW d \in Nat \ {0}, NEW q \in Nat, NEW r \in 0..d - 1, a = d * q + r
  PROVE  a \div d = q /\ a % d = r
  OBVIOUS

LEMMA Division ==
  ASSUME NEW a \in Nat, NEW d \in Nat \ {0}
  PROVE  /\ a \div d \in Nat /\ a % d \in 0..d - 1
         /\ a = d * (a \div d) + (a % d)
  OBVIOUS

LEMMA DivOfDiv ==
  ASSUME NEW a \in Nat, NEW b \in Nat \ {0}, NEW c \in Nat \ {0}
  PROVE  b * c \in Nat \ {0} /\ a \div (b * c) = (a \div c) \div b
<1> DEFINE q == a \div c   r == a % c
           p == q \div b   s == q % b
<1>1. q \in Nat /\ r \in 0..c - 1 /\ a = c * q + r
  BY Division
<1> HIDE DEF q, r
<1>2. p \in Nat /\ s \in 0..b - 1 /\ q = b * p + s
  BY <1>1, Division
<1> HIDE DEF p, s
<1>3. b * c \in Nat \ {0} /\ b * c = c * b
  OBVIOUS
<1>4. c * q = (b * c) * p + c * s
  BY <1>2
<1>5. c * s \in Nat /\ c * s <= c * (b - 1) /\ c * (b - 1) = b * c - c
  BY <1>2
<1>6. c * s + r \in 0..b * c - 1
  BY <1>1, <1>3, <1>5
<1>7. a = (b * c) * p + (c * s + r)
  <2> DEFINE x == c * q   y == (b * c) * p   z == c * s
  <2>1. y \in Nat /\ z \in Nat /\ r \in Nat /\ x = y + z /\ a = x + r
    BY <1>1, <1>2, <1>3, <1>4, <1>5
  <2> HIDE DEF x, y, z
  <2>2. a = y + (z + r)
    BY <2>1
  <2> QED
    BY <2>2 DEF y, z
<1>8. a \div (b * c) = p
  <2> DEFINE d == b * c   t == c * s + r
  <2>1. d \in Nat \ {0} /\ t \in 0..d - 1 /\ a = d * p + t
    BY <1>3, <1>6, <1>7
  <2> HIDE DEF d, t
  <2>2. a \div d = p
    BY <1>2, <2>1, DivUnique
  <2> QED
    BY <2>2 DEF d
<1> QED
  BY <1>3, <1>8 DEF p, q

-----------------------------------------------------------------------------
(* Powers and digits.                                                      *)

LEMMA PowerEquation ==
  ASSUME NEW b \in Nat \ {0}
  PROVE  /\ \A n \in Nat : Power(b, n) \in Nat \ {0}
         /\ Power(b, 0) = 1
         /\ \A n \in Nat : Power(b, n + 1) = b * Power(b, n)
<1> DEFINE V == Nat \ {0}
           prev == [n \in Nat |-> IF n = 0 THEN 0 ELSE n - 1]
           step == [n \in Nat |-> [v \in V |-> b * v]]
           Power_ == CHOOSE f : f = [i \in Nat |-> IF i = 0 THEN 1 ELSE b * f[i - 1]]
<1>1. Recurses(Nat, V, 1, prev, step)
  <2>1. prev \in [Nat -> Nat] /\ \A n \in Nat : n # 0 => prev[n] < n
    OBVIOUS
  <2>2. \A v \in V : b * v \in V
    OBVIOUS
  <2>3. step \in [Nat -> [V -> V]]
    BY <2>2
  <2> HIDE DEF prev, step
  <2> QED
    BY <2>1, <2>3 DEF Recurses
<1>2. PICK f \in [Nat -> V] :
        \A n \in Nat : f[n] = IF n = 0 THEN 1 ELSE step[n][f[prev[n]]]
  <2> HIDE DEF prev, step, V
  <2> QED
    BY <1>1, RecursiveFunction
<1>3. ASSUME NEW n \in Nat PROVE f[n] = IF n = 0 THEN 1 ELSE b * f[n - 1]
  <2>1. CASE n # 0
    <3>1. n - 1 \in Nat /\ prev[n] = n - 1
      BY <2>1
    <3>2. f[n - 1] \in V
      BY <3>1
    <3> QED
      BY <1>2, <2>1, <3>1, <3>2
  <2> QED
    BY <1>2, <2>1
<1>4. f = [i \in Nat |-> IF i = 0 THEN 1 ELSE b * f[i - 1]]
  BY <1>3
<1>5. Power_ = [i \in Nat |-> IF i = 0 THEN 1 ELSE b * Power_[i - 1]]
  <2> HIDE DEF prev, step, V
  <2> QED
    BY <1>4
<1>6. \A n \in Nat : Power(b, n) = Power_[n]
  BY DEF Power
<1> HIDE DEF Power_
<1>7. Power_[0] = 1 /\ \A n \in Nat : Power_[n + 1] = b * Power_[n]
  <2>1. Power_[0] = 1
    BY <1>5
  <2>2. ASSUME NEW n \in Nat PROVE Power_[n + 1] = b * Power_[n]
    <3>1. n + 1 \in Nat /\ n + 1 # 0 /\ (n + 1) - 1 = n
      OBVIOUS
    <3>2. Power_[n + 1] = b * Power_[(n + 1) - 1]
      BY <1>5, <3>1
    <3> QED
      BY <3>1, <3>2
  <2> QED
    BY <2>1, <2>2
<1>8. \A n \in Nat : Power_[n] \in V
  <2> DEFINE S == {n \in Nat : Power_[n] \in V}
  <2>1. 0 \in S
    BY <1>7
  <2>2. ASSUME NEW n \in Nat, n \in S PROVE n + 1 \in S
    BY <1>7, <2>2
  <2> HIDE DEF S
  <2>3. \A n \in Nat : n \in S
    BY <2>1, <2>2, Induction
  <2> QED
    BY <2>3 DEF S
<1> QED
  BY <1>6, <1>7, <1>8

LEMMA DigitStep ==
  ASSUME NEW v \in Nat, NEW b \in Nat \ {0}, NEW c \in Nat \ {0}
  PROVE  b * (v \div (b * c)) + ((v \div c) % b) = v \div c
<1> DEFINE q == v \div c
<1>1. q \in Nat /\ v \div (b * c) = q \div b
  BY Division, DivOfDiv
<1> HIDE DEF q
<1>2. q = b * (q \div b) + (q % b)
  BY <1>1, Division
<1> QED
  BY <1>1, <1>2 DEF q

\* The digits of a number, taken together again from the first.
LEMMA HornerOfDigits ==
  ASSUME NEW b \in Nat \ {0, 1}, NEW n \in Nat, NEW v \in 0..Power(b, n) - 1,
         NEW sum, sum[0] = 0,
         \A i \in 1..n : sum[i] = b * sum[i - 1] + ((v \div Power(b, n - i)) % b)
  PROVE  sum[n] = v
<1> DEFINE S == {i \in Nat : i <= n => sum[i] = v \div Power(b, n - i)}
<1>p. \A m \in Nat : Power(b, m) \in Nat \ {0} /\ Power(b, m + 1) = b * Power(b, m)
  BY PowerEquation
<1>v. v \in Nat /\ v < Power(b, n)
  BY <1>p
<1>1. 0 \in S
  <2> DEFINE p == Power(b, n)
  <2>1. n - 0 = n /\ p \in Nat \ {0}
    BY <1>p
  <2>2. v \div p = 0
    <3>1. v < p
      BY <1>v
    <3> HIDE DEF p
    <3> QED
      BY <1>v, <2>1, <3>1
  <2> QED
    BY <2>1, <2>2
<1>2. ASSUME NEW i \in Nat, i \in S PROVE i + 1 \in S
  <2>1. CASE i + 1 <= n
    <3>1. i + 1 \in 1..n /\ (i + 1) - 1 = i /\ n - (i + 1) \in Nat /\ n - i = (n - (i + 1)) + 1
      BY <2>1
    <3> DEFINE c == Power(b, n - (i + 1))
    <3>2. c \in Nat \ {0} /\ Power(b, n - i) = b * c
      BY <1>p, <3>1
    <3>3. sum[i + 1] = b * sum[i] + ((v \div c) % b)
      BY <3>1
    <3> HIDE DEF c
    <3>4. sum[i] = v \div (b * c)
      BY <1>2, <2>1, <3>2
    <3>5. b * (v \div (b * c)) + ((v \div c) % b) = v \div c
      BY <1>v, <3>2, DigitStep
    <3>6. sum[i + 1] = b * (v \div (b * c)) + ((v \div c) % b)
      BY <3>3, <3>4, Zenon
    <3>7. sum[i + 1] = v \div c
      BY <3>5, <3>6, Zenon
    <3> QED
      BY <3>7 DEF c
  <2> QED
    BY <2>1
<1> HIDE DEF S
<1>3. n \in S
  BY <1>1, <1>2, Induction
<1>4. sum[n] = v \div Power(b, n - n) /\ n - n = 0
  BY <1>3 DEF S
<1> QED
  BY <1>v, <1>4, PowerEquation

-----------------------------------------------------------------------------
(* Texts of digits.                                                        *)

Digit_ == 0..Dec - 1

\* to_decstr takes one digit after the other, from the last.
LEMMA DecDigitsEquation ==
  /\ DecDigits[0] = <<>>
  /\ \A v \in Nat : /\ DecDigits[v] \in Seq(Digit_)
                    /\ v # 0 => DecDigits[v] = Append(DecDigits[v \div Dec], v % Dec)
<1> DEFINE V == Seq(Digit_)
           none == <<>>
           prev == [v \in Nat |-> v \div Dec]
           step == [v \in Nat |-> [s \in V |-> Append(s, v % Dec)]]
<1>1. Dec \in Nat \ {0, 1}
  BY NumbersAssumption
<1>2. Recurses(Nat, V, none, prev, step)
  <2>1. \A v \in Nat : v \div Dec \in Nat /\ (v # 0 => v \div Dec < v)
    BY <1>1
  <2>2. prev \in [Nat -> Nat] /\ \A v \in Nat : v # 0 => prev[v] < v
    BY <2>1
  <2>3. \A v \in Nat : v % Dec \in Digit_
    BY <1>1, Division DEF Digit_
  <2>4. \A v \in Nat, s \in V : Append(s, v % Dec) \in V
    BY <2>3
  <2>5. none \in V
    OBVIOUS
  <2> HIDE DEF V
  <2>6. step \in [Nat -> [V -> V]]
    BY <2>4
  <2> HIDE DEF prev, step, none
  <2> QED
    BY <2>2, <2>5, <2>6 DEF Recurses
<1>3. PICK f \in [Nat -> V] :
        \A v \in Nat : f[v] = IF v = 0 THEN none ELSE step[v][f[prev[v]]]
  <2> HIDE DEF V, none, prev, step
  <2> QED
    BY <1>2, RecursiveFunction
<1>4. ASSUME NEW v \in Nat
      PROVE  f[v] = IF v = 0 THEN <<>> ELSE Append(f[v \div Dec], v % Dec)
  <2>1. v \div Dec \in Nat
    BY <1>1
  <2>2. f[v \div Dec] \in V
    BY <2>1
  <2> HIDE DEF V
  <2>3. step[v][f[v \div Dec]] = Append(f[v \div Dec], v % Dec)
    BY <2>2
  <2>4. prev[v] = v \div Dec
    OBVIOUS
  <2> HIDE DEF step, prev
  <2> QED
    BY <1>3, <2>3, <2>4
<1>5. f = [v \in Nat |-> IF v = 0 THEN <<>> ELSE Append(f[v \div Dec], v % Dec)]
  <2> HIDE DEF V, step, prev, none
  <2> QED
    BY <1>4
<1> DEFINE F == CHOOSE g : g = [v \in Nat |-> IF v = 0 THEN <<>> ELSE Append(g[v \div Dec], v % Dec)]
<1>6. F = [v \in Nat |-> IF v = 0 THEN <<>> ELSE Append(F[v \div Dec], v % Dec)]
  BY <1>5
<1>7. DecDigits = F
  BY DEF DecDigits
<1> HIDE DEF F
<1>8. F[0] = <<>> /\ \A v \in Nat : v # 0 => F[v] = Append(F[v \div Dec], v % Dec)
  BY <1>6
<1>9. \A v \in Nat : F[v] \in V
  <2> DEFINE S == {v \in Nat : F[v] \in V}
  <2>1. ASSUME NEW v \in Nat, \A m \in 0..v - 1 : m \in S PROVE v \in S
    <3>1. CASE v = 0
      <4>1. <<>> \in V
        OBVIOUS
      <4> HIDE DEF V
      <4> QED
        BY <1>8, <3>1, <4>1
    <3>2. CASE v # 0
      <4> DEFINE q == v \div Dec
      <4>0. q \in Nat /\ q < v
        BY <1>1, <3>2
      <4> HIDE DEF q
      <4>1. q \in 0..v - 1 /\ q \in Nat
        BY <4>0
      <4>2. F[q] \in V
        BY <2>1, <4>1
      <4> USE DEF q
      <4>3. v % Dec \in Digit_
        BY <1>1, Division DEF Digit_
      <4>4. Append(F[q], v % Dec) \in V
        BY <4>2, <4>3
      <4> HIDE DEF V
      <4> QED
        BY <1>8, <3>2, <4>4
    <3> QED
      BY <3>1, <3>2
  <2> HIDE DEF S
  <2>2. \A v \in Nat : v \in S
    BY <2>1, StrongInduction
  <2> QED
    BY <2>2 DEF S
<1> QED
  BY <1>7, <1>8, <1>9

-----------------------------------------------------------------------------
(* Reading digits, the first one first: up to the i-th they are f[i].      *)

IsHorner(f, b, s, n) == f[0] = 0 /\ \A i \in 1..n : f[i] = b * f[i - 1] + s[i]

LEMMA HornerExists ==
  ASSUME NEW b, NEW s, NEW n \in Nat
  PROVE  \E f : f = [i \in 0..n |-> IF i = 0 THEN 0 ELSE b * f[i - 1] + s[i]]
<1> DEFINE G(g, m) == g = [i \in 0..m |-> IF i = 0 THEN 0 ELSE b * g[i - 1] + s[i]]
           S == {m \in Nat : \E g : G(g, m)}
<1>1. 0 \in S
  <2> DEFINE z == [i \in 0..0 |-> 0]
  <2>1. \A i \in 0..0 : i = 0
    OBVIOUS
  <2>2. G(z, 0)
    BY <2>1
  <2> QED
    BY <2>2
<1>2. ASSUME NEW m \in Nat, m \in S PROVE m + 1 \in S
  <2>1. PICK g : G(g, m)
    BY <1>2
  <2> DEFINE h == [i \in 0..m + 1 |-> IF i = 0 THEN 0 ELSE b * g[i - 1] + s[i]]
  <2>2. \A i \in 0..m : h[i] = g[i]
    BY <2>1
  <2>3. \A i \in 0..m + 1 : i # 0 => i - 1 \in 0..m
    OBVIOUS
  <2>4. \A i \in 0..m + 1 : i # 0 => h[i - 1] = g[i - 1]
    BY <2>2, <2>3
  <2>5. G(h, m + 1)
    BY <2>4
  <2> HIDE DEF h, G
  <2> QED
    BY <2>5
<1> HIDE DEF S
<1>3. n \in S
  BY <1>1, <1>2, Induction
<1> QED
  BY <1>3 DEF S

LEMMA HornerIs ==
  ASSUME NEW b, NEW s, NEW n \in Nat, NEW f,
         f = [i \in 0..n |-> IF i = 0 THEN 0 ELSE b * f[i - 1] + s[i]]
  PROVE  IsHorner(f, b, s, n)
<1>1. f[0] = 0
  OBVIOUS
<1>2. ASSUME NEW i \in 1..n PROVE f[i] = b * f[i - 1] + s[i]
  <2>1. i \in 0..n /\ i # 0
    OBVIOUS
  <2> QED
    BY <2>1
<1> QED
  BY <1>1, <1>2 DEF IsHorner

\* Of natural numbers it is one.
LEMMA HornerType ==
  ASSUME NEW b \in Nat, NEW s, NEW n \in Nat, NEW f, IsHorner(f, b, s, n),
         \A i \in 1..n : s[i] \in Nat
  PROVE  \A i \in 0..n : f[i] \in Nat
<1>1. f[0] \in Nat
  BY DEF IsHorner
<1>2. ASSUME NEW i \in 1..n, f[i - 1] \in Nat PROVE f[i] \in Nat
  <2>1. f[i] = b * f[i - 1] + s[i] /\ s[i] \in Nat
    BY DEF IsHorner
  <2>2. b * f[i - 1] \in Nat
    BY <1>2
  <2> QED
    BY <2>1, <2>2
<1> QED
  BY <1>1, <1>2, IterationType

SameDigits(f, g, b, s, t, k, n) ==
  /\ b \in Nat /\ n \in Nat /\ k \in Nat
  /\ IsHorner(f, b, s, n) /\ IsHorner(g, b, t, k + n)
  /\ \A i \in 1..k : t[i] = 0
  /\ \A i \in 1..n : t[k + i] = s[i]

\* It is the same for the same digits, zeros before them or not.
LEMMA HornerSame ==
  ASSUME NEW b, NEW n, NEW k, NEW s, NEW t, NEW f, NEW g, SameDigits(f, g, b, s, t, k, n)
  PROVE  \A i \in 0..n : g[k + i] = f[i]
<1> USE DEF SameDigits
<1> DEFINE S == {m \in Nat : m <= k => g[m] = 0}
           T == {m \in Nat : m <= n => g[k + m] = f[m]}
<1>1. /\ g[0] = 0 /\ \A i \in 1..k + n : g[i] = b * g[i - 1] + t[i]
      /\ f[0] = 0 /\ \A i \in 1..n : f[i] = b * f[i - 1] + s[i]
  BY DEF IsHorner
<1>2. 0 \in S
  BY <1>1
<1>3. ASSUME NEW m \in Nat, m \in S PROVE m + 1 \in S
  <2> SUFFICES ASSUME m + 1 <= k PROVE g[m + 1] = 0
    OBVIOUS
  <2>1. m + 1 \in 1..k + n /\ m + 1 \in 1..k /\ (m + 1) - 1 = m /\ m <= k
    OBVIOUS
  <2>2. g[m + 1] = b * g[m] + t[m + 1] /\ g[m] = 0 /\ t[m + 1] = 0
    BY <1>1, <1>3, <2>1
  <2>3. b * 0 + 0 = 0
    OBVIOUS
  <2> QED
    BY <2>2, <2>3
<1> HIDE DEF S
<1>4. k \in S
  BY <1>2, <1>3, Induction
<1>5. 0 \in T
  <2>1. k <= k /\ k + 0 = k
    OBVIOUS
  <2> QED
    BY <1>1, <1>4, <2>1 DEF S
<1>6. ASSUME NEW m \in Nat, m \in T PROVE m + 1 \in T
  <2> SUFFICES ASSUME m + 1 <= n PROVE g[k + (m + 1)] = f[m + 1]
    OBVIOUS
  <2>1. /\ m + 1 \in 1..n /\ k + (m + 1) \in 1..k + n /\ m <= n
        /\ (m + 1) - 1 = m /\ (k + (m + 1)) - 1 = k + m
    OBVIOUS
  <2>2. g[k + m] = f[m]
    BY <1>6, <2>1
  <2>3. f[m + 1] = b * f[m] + s[m + 1] /\ t[k + (m + 1)] = s[m + 1]
    BY <1>1, <2>1
  <2>4. g[k + (m + 1)] = b * g[(k + (m + 1)) - 1] + t[k + (m + 1)]
    BY <1>1, <2>1
  <2> QED
    BY <2>1, <2>2, <2>3, <2>4
<1> HIDE DEF T
<1>7. \A m \in Nat : m \in T
  BY <1>5, <1>6, Induction
<1> QED
  BY <1>7 DEF T

Reads(f, b, s, n) ==
  /\ b \in Nat \ {0, 1} /\ n \in Nat /\ \A i \in 1..n : s[i] \in 0..b - 1
  /\ IsHorner(f, b, s, n)

\* And the digits come back: without the last k of them it is a quotient.
LEMMA HornerQuotient ==
  ASSUME NEW f, NEW b, NEW s, NEW n, Reads(f, b, s, n)
  PROVE  /\ \A k \in 0..n : f[n] \div Power(b, k) = f[n - k]
         /\ \A i \in 1..n : f[i] % b = s[i]
         /\ \A k \in 0..n - 1 : (f[n] \div Power(b, k)) % b = s[n - k]
<1> USE DEF Reads
<1>1. \A i \in 0..n : f[i] \in Nat
  <2>1. \A i \in 1..n : s[i] \in Nat
    OBVIOUS
  <2> QED
    BY <2>1, HornerType
<1>2. ASSUME NEW i \in 1..n PROVE f[i] \div b = f[i - 1] /\ f[i] % b = s[i]
  <2>1. f[i] = b * f[i - 1] + s[i] /\ i - 1 \in 0..n /\ i \in 0..n
    BY DEF IsHorner
  <2>2. f[i] \in Nat /\ f[i - 1] \in Nat /\ b \in Nat \ {0} /\ s[i] \in 0..b - 1
    BY <1>1, <2>1
  <2> QED
    BY <2>1, <2>2, DivUnique
<1> DEFINE S == {k \in Nat : k <= n => f[n] \div Power(b, k) = f[n - k]}
<1>3. 0 \in S
  <2>1. n - 0 = n /\ n \in 0..n /\ Power(b, 0) = 1
    BY PowerEquation
  <2>2. f[n] \in Nat
    BY <1>1, <2>1
  <2> QED
    BY <2>1, <2>2
<1>4. ASSUME NEW k \in Nat, k \in S PROVE k + 1 \in S
  <2> SUFFICES ASSUME k + 1 <= n PROVE f[n] \div Power(b, k + 1) = f[n - (k + 1)]
    OBVIOUS
  <2> DEFINE p == Power(b, k)
  <2>1. p \in Nat \ {0} /\ Power(b, k + 1) = b * p
    BY PowerEquation
  <2>2. f[n] \div p = f[n - k] /\ n - k \in 1..n /\ (n - k) - 1 = n - (k + 1) /\ n \in 0..n
    BY <1>4
  <2> HIDE DEF p
  <2>3. f[n] \div (b * p) = (f[n] \div p) \div b
    BY <1>1, <2>1, <2>2, DivOfDiv
  <2> QED
    BY <1>2, <2>1, <2>2, <2>3
<1> HIDE DEF S
<1>5. \A k \in Nat : k \in S
  BY <1>3, <1>4, Induction
<1>6. \A k \in 0..n : f[n] \div Power(b, k) = f[n - k]
  BY <1>5 DEF S
<1>7. \A k \in 0..n - 1 : k \in 0..n /\ n - k \in 1..n
  OBVIOUS
<1>8. \A k \in 0..n - 1 : (f[n] \div Power(b, k)) % b = s[n - k]
  BY <1>2, <1>6, <1>7
<1> QED
  BY <1>2, <1>6, <1>8

\* It is no larger than the digits allow.
LEMMA HornerBound ==
  ASSUME NEW f, NEW b, NEW s, NEW n, Reads(f, b, s, n)
  PROVE  f[n] \in 0..Power(b, n) - 1
<1>1. f[n] \div Power(b, n) = f[n - n] /\ n - n = 0 /\ n \in 0..n
  <2>1. n \in 0..n /\ n - n = 0
    BY DEF Reads
  <2>2. \A k \in 0..n : f[n] \div Power(b, k) = f[n - k]
    BY HornerQuotient
  <2> QED
    BY <2>1, <2>2
<1> USE DEF Reads
<1>2. \A i \in 0..n : f[i] \in Nat
  <2>1. \A i \in 1..n : s[i] \in Nat
    OBVIOUS
  <2> QED
    BY <2>1, HornerType
<1> DEFINE v == f[n]  p == Power(b, n)
<1>3. v \in Nat /\ p \in Nat \ {0} /\ v \div p = 0
  BY <1>1, <1>2, PowerEquation DEF IsHorner
<1> HIDE DEF v, p
<1>4. v = p * (v \div p) + (v % p) /\ v % p \in 0..p - 1
  BY <1>3, Division
<1>5. v \in 0..p - 1
  BY <1>3, <1>4
<1> QED
  BY <1>5 DEF v, p

\* The number a text of digits stands for.
TextValue(b, str) ==
  LET value[i \in 0..Len(str)] == IF i = 0 THEN 0 ELSE b * value[i - 1] + str[i]
  IN value[Len(str)]

DecValue(str) == TextValue(Dec, str)

LEMMA TextReads ==
  ASSUME NEW b, NEW str, Len(str) \in Nat
  PROVE  \E f : IsHorner(f, b, str, Len(str)) /\ TextValue(b, str) = f[Len(str)]
<1> DEFINE n == Len(str)
           F == CHOOSE f : f = [i \in 0..n |-> IF i = 0 THEN 0 ELSE b * f[i - 1] + str[i]]
<1>1. F = [i \in 0..n |-> IF i = 0 THEN 0 ELSE b * F[i - 1] + str[i]]
  BY HornerExists
<1>2. TextValue(b, str) = F[n]
  BY DEF TextValue
<1> HIDE DEF F
<1>3. IsHorner(F, b, str, n)
  BY <1>1, HornerIs
<1> QED
  BY <1>2, <1>3

LEMMA ValueReads ==
  ASSUME NEW str, Len(str) \in Nat
  PROVE  \E f : IsHorner(f, Dec, str, Len(str)) /\ DecValue(str) = f[Len(str)]
  BY TextReads DEF DecValue

\* One digit more.
LEMMA ValueOfAppend ==
  ASSUME NEW s \in Seq(Digit_), NEW d \in Digit_
  PROVE  DecValue(Append(s, d)) = Dec * DecValue(s) + d
<1> DEFINE n == Len(s)  t == Append(s, d)
<1>1. n \in Nat /\ Len(t) = n + 1 /\ t[n + 1] = d /\ \A i \in 1..n : t[i] = s[i]
  OBVIOUS
<1>2. Len(t) \in Nat
  BY <1>1
<1> HIDE DEF t
<1>3. PICK f : IsHorner(f, Dec, s, n) /\ DecValue(s) = f[n]
  BY <1>1, ValueReads
<1>4. PICK g : IsHorner(g, Dec, t, n + 1) /\ DecValue(t) = g[n + 1]
  BY <1>1, <1>2, ValueReads
<1> HIDE DEF n
<1>5. g[n] = f[n]
  <2> DEFINE k == 0
  <2>1. IsHorner(g, Dec, t, n)
    BY <1>1, <1>4 DEF IsHorner
  <2>2. /\ k \in Nat /\ k + n = n /\ n \in 0..n /\ Dec \in Nat
        /\ \A i \in 1..k : t[i] = 0
        /\ \A i \in 1..n : t[k + i] = s[i]
    BY <1>1, NumbersAssumption
  <2> HIDE DEF k
  <2>3. IsHorner(g, Dec, t, k + n)
    BY <2>1, <2>2
  <2>4. SameDigits(f, g, Dec, s, t, k, n)
    BY <1>1, <1>3, <2>2, <2>3 DEF SameDigits
  <2>5. \A i \in 0..n : g[k + i] = f[i]
    BY ONLY <2>4, HornerSame
  <2> QED
    BY <2>2, <2>5
<1>6. g[n + 1] = Dec * g[n] + t[n + 1]
  <2>1. n + 1 \in 1..n + 1 /\ (n + 1) - 1 = n
    BY <1>1
  <2> QED
    BY <1>4, <2>1 DEF IsHorner
<1> QED
  BY <1>1, <1>3, <1>4, <1>5, <1>6 DEF t

LEMMA ValueOfDigits == \A v \in Nat : DecValue(DecDigits[v]) = v
<1> DEFINE S == {v \in Nat : DecValue(DecDigits[v]) = v}
<1>d. Dec \in Nat \ {0, 1}
  BY NumbersAssumption
<1>1. ASSUME NEW v \in Nat, \A m \in 0..v - 1 : m \in S PROVE v \in S
  <2>1. CASE v = 0
    <3>1. Len(<<>>) = 0 /\ 0 \in Nat
      OBVIOUS
    <3>2. PICK f : IsHorner(f, Dec, <<>>, 0) /\ DecValue(<<>>) = f[0]
      BY <3>1, ValueReads
    <3>3. DecValue(<<>>) = 0
      BY <3>2 DEF IsHorner
    <3> QED
      BY <2>1, <3>3, DecDigitsEquation
  <2>2. CASE v # 0
    <3> DEFINE q == v \div Dec  d == v % Dec
    <3>1. q \in Nat /\ q < v /\ d \in Digit_ /\ v = Dec * q + d
      <4>1. q < v
        BY <1>d, <2>2
      <4>2. q \in Nat /\ d \in Digit_ /\ v = Dec * q + d
        BY <1>d, Division DEF Digit_
      <4> QED
        BY <4>1, <4>2
    <3>2. DecDigits[v] = Append(DecDigits[q], d) /\ DecDigits[q] \in Seq(Digit_)
      BY <2>2, <3>1, DecDigitsEquation
    <3> HIDE DEF q, d
    <3>3. q \in 0..v - 1
      BY <3>1
    <3>4. DecValue(DecDigits[q]) = q
      BY <1>1, <3>3
    <3>5. DecValue(Append(DecDigits[q], d)) = Dec * DecValue(DecDigits[q]) + d
      BY <3>1, <3>2, ValueOfAppend
    <3>6. DecValue(DecDigits[v]) = v
      BY <3>1, <3>2, <3>4, <3>5
    <3> QED
      BY <3>6
  <2> QED
    BY <2>1, <2>2
<1> HIDE DEF S
<1>2. \A v \in Nat : v \in S
  BY <1>1, StrongInduction
<1> QED
  BY <1>2 DEF S

\* Zeros in front change nothing.
LEMMA ValueOfZeros ==
  ASSUME NEW s \in Seq(Digit_), NEW k \in Nat
  PROVE  /\ Zeros(k) \o s \in Seq(Digit_)
         /\ DecValue(Zeros(k) \o s) = DecValue(s)
<1> DEFINE z == Zeros(k)  n == Len(s)  t == z \o s
<1>d. Dec \in Nat \ {0, 1} /\ 0 \in Digit_
  BY NumbersAssumption DEF Digit_
<1>1. z \in Seq(Digit_) /\ Len(z) = k /\ \A i \in 1..k : z[i] = 0
  BY <1>d DEF Zeros
<1> HIDE DEF z
<1>2. t \in Seq(Digit_)
  BY <1>1
<1>3. n \in Nat /\ Len(t) = k + n
  BY <1>1
<1>4. \A i \in 1..k : t[i] = 0
  BY <1>1
<1>5. ASSUME NEW i \in 1..n PROVE t[k + i] = s[i]
  BY <1>1
<1> HIDE DEF t, n
<1>6. PICK f : IsHorner(f, Dec, s, n) /\ DecValue(s) = f[n]
  BY <1>3, ValueReads DEF n
<1>7. PICK g : IsHorner(g, Dec, t, k + n) /\ DecValue(t) = g[k + n]
  <2>1. Len(t) \in Nat
    BY <1>3
  <2> QED
    BY <1>3, <2>1, ValueReads
<1>8. \A i \in 0..n : g[k + i] = f[i]
  <2>1. SameDigits(f, g, Dec, s, t, k, n)
    BY <1>d, <1>3, <1>4, <1>5, <1>6, <1>7 DEF SameDigits
  <2> QED
    BY <2>1, HornerSame
<1>9. n \in 0..n
  BY <1>3
<1> QED
  BY <1>2, <1>6, <1>7, <1>8, <1>9 DEF t, z

\* What is printed reads back.
LEMMA ValueOfDecStr ==
  ASSUME NEW v \in Nat, ~Negative(v), NEW size \in Nat
  PROVE  DecStr(v, size) \in Seq(Digit_) /\ DecValue(DecStr(v, size)) = v
<1> DEFINE s == DecDigits[v]
           k == IF Len(s) < size THEN size - Len(s) ELSE 0
<1>1. s \in Seq(Digit_)
  BY DecDigitsEquation
<1> HIDE DEF s
<1>2. k \in Nat
  BY <1>1
<1>3. DecStr(v, size) = (<<>> \o Zeros(k)) \o s
  BY DEF DecStr, s
<1> HIDE DEF k
<1>4. <<>> \o Zeros(k) = Zeros(k)
  <2>1. Zeros(k) \in Seq(Nat)
    BY <1>2 DEF Zeros
  <2> HIDE DEF s
  <2> QED
    BY <2>1
<1>5. DecValue(s) = v
  BY ValueOfDigits DEF s
<1> QED
  BY <1>1, <1>2, <1>3, <1>4, <1>5, ValueOfZeros

-----------------------------------------------------------------------------
(* The digits below a power of the base.                                   *)

\* Digits above do not show below.
Above(v, u, p, c, q, j) ==
  /\ p \in Nat \ {0} /\ c \in Nat \ {0} /\ q \in Nat \ {0} /\ j \in Nat /\ u \in Nat
  /\ v = (p * (c * q)) * j + u

LEMMA LowDigits ==
  ASSUME NEW v, NEW u, NEW p, NEW c, NEW q, NEW j, Above(v, u, p, c, q, j)
  PROVE  (v \div p) % c = (u \div p) % c
<1> USE DEF Above
<1> DEFINE a == u \div p  r == u % p  x == a \div c  y == a % c  k == q * j + x
<1>1. a \in Nat /\ r \in 0..p - 1 /\ u = p * a + r
  BY Division
<1> HIDE DEF a, r
<1>2. x \in Nat /\ y \in 0..c - 1 /\ a = c * x + y
  BY <1>1, Division
<1> HIDE DEF x, y
<1>3. k \in Nat
  BY <1>2
<1>4. c * k = c * (q * j) + c * x
  BY <1>2
<1> DEFINE d == c * k + y
<1>5. d \in Nat /\ d % c = y
  <2>1. d \in Nat
    BY <1>2, <1>3
  <2>2. d = c * k + y
    OBVIOUS
  <2> HIDE DEF d, k
  <2>3. d % c = y
    BY <1>2, <1>3, <2>1, <2>2, DivUnique
  <2> QED
    BY <2>1, <2>3
<1>6. (p * (c * q)) * j + u = p * d + r
  <2>1. (p * (c * q)) * j = p * (c * (q * j))
    OBVIOUS
  <2>2. p * d = p * (c * (q * j)) + p * (c * x + y)
    <3>1. d = c * (q * j) + (c * x + y)
      BY <1>2, <1>4
    <3> DEFINE e == c * (q * j)  g == c * x + y
    <3>2. e \in Nat /\ g \in Nat /\ d = e + g
      BY <1>2, <3>1
    <3> HIDE DEF e, g, d
    <3>3. p * d = p * e + p * g
      BY <3>2
    <3> QED
      BY <3>3 DEF e, g
  <2>3. p * (c * x + y) = p * a
    BY <1>2
  <2> DEFINE e == p * (c * (q * j))  g == p * a  h == p * d  l == (p * (c * q)) * j
  <2>4. e \in Nat /\ g \in Nat /\ h = e + g /\ l = e /\ u = g + r
    BY <1>1, <2>1, <2>2, <2>3
  <2> HIDE DEF e, g, h, l
  <2>5. l + u = h + r
    BY <1>1, <2>4
  <2> QED
    BY <2>5 DEF h, l
<1>7. v \in Nat /\ v = p * d + r
  <2>1. (p * (c * q)) * j \in Nat
    OBVIOUS
  <2> QED
    BY <1>6, <2>1
<1> HIDE DEF d
<1>8. v \div p = d
  BY <1>1, <1>5, <1>7, DivUnique
<1> QED
  BY <1>5, <1>8 DEF a, y

LEMMA PowerSum ==
  ASSUME NEW b \in Nat \ {0}, NEW m \in Nat
  PROVE  \A n \in Nat : Power(b, n + m) = Power(b, n) * Power(b, m)
<1> DEFINE S == {n \in Nat : Power(b, n + m) = Power(b, n) * Power(b, m)}
<1>p. /\ \A n \in Nat : Power(b, n) \in Nat \ {0} /\ Power(b, n + 1) = b * Power(b, n)
      /\ Power(b, 0) = 1
  BY PowerEquation
<1>1. 0 \in S
  <2>1. 0 + m = m
    OBVIOUS
  <2> QED
    BY <1>p, <2>1
<1>2. ASSUME NEW n \in Nat, n \in S PROVE n + 1 \in S
  <2> DEFINE k == n + m
  <2>1. k \in Nat /\ (n + 1) + m = k + 1
    OBVIOUS
  <2>2. Power(b, k) = Power(b, n) * Power(b, m)
    BY <1>2
  <2> HIDE DEF k
  <2>3. Power(b, k + 1) = b * (Power(b, n) * Power(b, m))
    BY <1>p, <2>1, <2>2
  <2> DEFINE x == Power(b, n)  y == Power(b, m)
  <2>4. x \in Nat /\ y \in Nat /\ Power(b, n + 1) = b * x
    BY <1>p
  <2> HIDE DEF x, y
  <2>5. b * (x * y) = (b * x) * y
    BY <2>4
  <2>6. Power(b, (n + 1) + m) = Power(b, n + 1) * Power(b, m)
    BY <2>1, <2>3, <2>4, <2>5 DEF x, y
  <2> QED
    BY <2>6
<1> HIDE DEF S
<1>3. \A n \in Nat : n \in S
  BY <1>1, <1>2, Induction
<1> QED
  BY <1>3 DEF S

LEMMA PowerOfSquare ==
  ASSUME NEW b \in Nat \ {0}
  PROVE  /\ Power(b, 2) = b * b
         /\ \A n \in Nat : Power(Power(b, 2), n) = Power(b, 2 * n)
<1> DEFINE c == Power(b, 2)
           S == {n \in Nat : Power(c, n) = Power(b, 2 * n)}
<1>p. /\ \A n \in Nat : Power(b, n) \in Nat \ {0} /\ Power(b, n + 1) = b * Power(b, n)
      /\ Power(b, 0) = 1
  BY PowerEquation
<1>c. c \in Nat \ {0} /\ c = b * b
  <2>1. 0 + 1 = 1 /\ 1 + 1 = 2 /\ b * 1 = b
    OBVIOUS
  <2>2. Power(b, 1) = b
    BY <1>p, <2>1
  <2> QED
    BY <1>p, <2>1, <2>2
<1>q. /\ \A n \in Nat : Power(c, n) \in Nat \ {0} /\ Power(c, n + 1) = c * Power(c, n)
      /\ Power(c, 0) = 1
  BY <1>c, PowerEquation
<1> HIDE DEF c
<1>1. 0 \in S
  <2>1. 2 * 0 = 0
    OBVIOUS
  <2> QED
    BY <1>p, <1>q, <2>1
<1>2. ASSUME NEW n \in Nat, n \in S PROVE n + 1 \in S
  <2> DEFINE k == 2 * n
  <2>1. k \in Nat /\ k + 1 \in Nat /\ 2 * (n + 1) = (k + 1) + 1
    OBVIOUS
  <2>2. Power(c, n) = Power(b, k)
    BY <1>2
  <2> HIDE DEF k
  <2>3. Power(b, (k + 1) + 1) = b * (b * Power(b, k))
    BY <1>p, <2>1
  <2> DEFINE x == Power(b, k)
  <2>4. x \in Nat
    BY <1>p, <2>1
  <2> HIDE DEF x
  <2>5. b * (b * x) = (b * b) * x
    BY <2>4
  <2>6. Power(c, n + 1) = Power(b, 2 * (n + 1))
    BY <1>c, <1>q, <2>1, <2>2, <2>3, <2>5 DEF x
  <2> QED
    BY <2>6
<1> HIDE DEF S
<1>3. \A n \in Nat : n \in S
  BY <1>1, <1>2, Induction
<1> QED
  BY <1>3, <1>c DEF S, c
=============================================================================
