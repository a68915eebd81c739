---------------------------- MODULE NumbersProofs ----------------------------
(***************************************************************************)
(* What is proved of the numbers of every birth date and name.             *)
(*                                                                         *)
(* Digits are summed by functions that go back to a smaller number.  That  *)
(* there are such functions on all the numbers, and what they end in, is   *)
(* proved by induction on sets of numbers (RecursionOnNumbers, SumsEnd).   *)
(* All of them take nines off and nothing else, and none makes 0 of a      *)
(* number that is not: so every way of reducing a date agrees modulo 9     *)
(* with its plain sum (Alike).                                             *)
(*                                                                         *)
(* The clock never skips a date it shows (NextDate); hence an age goes up  *)
(* by one at most, and cycles turn one by one.                             *)
(*                                                                         *)
(* The parts of a period of the Moon's order follow each other and fill it *)
(* (Follow): one of them is current at each moment of it, and the next     *)
(* one, or the first of what follows the period, when it ends.             *)
(***************************************************************************)
EXTENDS Reckoning, FiniteSetTheorems, SequenceTheorems, WellFoundedInduction, TLAPS

-----------------------------------------------------------------------------
(* Induction *)

\* The order of the numbers, as pairs.
Below == OpToRel(<, Nat)

\* It is well founded.
LEMMA BelowIsWellFounded == IsWellFoundedOn(Below, Nat)
BY NatLessThanWellFounded, Zenon DEF Below

\* A smaller number is below a greater.
LEMMA BelowIsLess == ASSUME NEW x \in Nat, NEW y \in Nat, x < y PROVE <<x, y>> \in Below
BY DEF Below, OpToRel

\* A set of numbers has a least one.
LEMMA LeastNumber ==
  ASSUME NEW T, T \subseteq Nat, T # {}
  PROVE  \E x \in T : \A y \in T : x <= y
<1>1. PICK x \in T : \A y \in T : ~ (<<y, x>> \in Below)
  BY BelowIsWellFounded, WFMin, Zenon
<1>2. \A y \in T : ~ (y < x)
  BY <1>1, BelowIsLess
<1> QED
  BY <1>2

\* A set that holds n when it holds the numbers below n holds all of them.
LEMMA NumbersBelow ==
  ASSUME NEW T, \A n \in Nat : (\A m \in Nat : m < n => m \in T) => n \in T
  PROVE  \A n \in Nat : n \in T
<1> DEFINE U == {n \in Nat : n \notin T}
<1>1. U = {}
  <2> SUFFICES ASSUME U # {} PROVE FALSE
    OBVIOUS
  <2>1. U \subseteq Nat
    OBVIOUS
  <2>2. PICK x \in U : \A y \in U : x <= y
    <3> HIDE DEF U
    <3> QED
      BY <2>1, LeastNumber
  <2>3. \A m \in Nat : m < x => m \in T
    BY <2>2
  <2> QED
    BY <2>2, <2>3
<1> QED
  BY <1>1

-----------------------------------------------------------------------------
(* Recursive functions on numbers *)

\* The first values, up to k, of the function that is b on B and goes back to a smaller
\* number elsewhere.
FirstValues(g, k, V, B, b, d, c) ==
  /\ g \in [0 .. k -> V]
  /\ \A n \in 0 .. k : g[n] = IF n \in B THEN b[n] ELSE c[<<n, g[d[n]]>>]

\* b gives values on B, and elsewhere c gives one from a value of the number d goes back to.
GoesBack(V, B, b, d, c) ==
  /\ \A n \in B : b[n] \in V
  /\ \A n \in Nat : n \notin B => /\ d[n] \in Nat /\ d[n] < n
                                 /\ \A v \in V : c[<<n, v>>] \in V

\* Two such functions agree.
LEMMA ValuesAreOne ==
  ASSUME NEW V, NEW B, NEW b, NEW d, NEW c, GoesBack(V, B, b, d, c), NEW g, NEW h,
         NEW k \in Nat, NEW m \in Nat,
         FirstValues(g, k, V, B, b, d, c), FirstValues(h, m, V, B, b, d, c)
  PROVE  \A n \in Nat : n <= k /\ n <= m => g[n] = h[n]
<1> DEFINE T == {n \in Nat : n <= k /\ n <= m => g[n] = h[n]}
<1>1. ASSUME NEW n \in Nat, \A i \in Nat : i < n => i \in T PROVE n \in T
  <2> SUFFICES ASSUME n <= k, n <= m PROVE g[n] = h[n]
    OBVIOUS
  <2>0. n \in 0 .. k /\ n \in 0 .. m
    OBVIOUS
  <2>1. /\ g[n] = IF n \in B THEN b[n] ELSE c[<<n, g[d[n]]>>]
        /\ h[n] = IF n \in B THEN b[n] ELSE c[<<n, h[d[n]]>>]
    <3> HIDE DEF T
    <3> QED
      BY <2>0, Zenon DEF FirstValues
  <2>2. CASE n \notin B
    <3>1. d[n] \in Nat /\ d[n] < n /\ d[n] \in T
      BY <1>1, <2>2 DEF GoesBack
    <3>2. g[d[n]] = h[d[n]]
      BY <3>1
    <3> HIDE DEF T
    <3> QED
      BY <2>1, <2>2, <3>2, Zenon
  <2> QED
    BY <2>1, <2>2
<1> HIDE DEF T
<1>2. \A n \in Nat : n \in T
  BY <1>1, NumbersBelow
<1> QED
  BY <1>2 DEF T

\* There is one, for any number of values.
LEMMA ValuesGoOn ==
  ASSUME NEW V, NEW B, NEW b, NEW d, NEW c, GoesBack(V, B, b, d, c)
  PROVE  \A k \in Nat : \E g : FirstValues(g, k, V, B, b, d, c)
<1> DEFINE T == {k \in Nat : \E g : FirstValues(g, k, V, B, b, d, c)}
<1>1. ASSUME NEW k \in Nat, \A i \in Nat : i < k => i \in T PROVE k \in T
  <2>1. CASE k = 0
    <3>1. 0 \in B /\ b[0] \in V
      BY DEF GoesBack
    <3> DEFINE g == [n \in 0 .. 0 |-> b[0]]
    <3>2. FirstValues(g, 0, V, B, b, d, c)
      BY <3>1 DEF FirstValues
    <3> QED
      BY <2>1, <3>2
  <2>2. CASE k # 0
    <3>1. k - 1 \in Nat /\ k - 1 < k
      BY <2>2
    <3>2. PICK g : FirstValues(g, k - 1, V, B, b, d, c)
      BY <1>1, <3>1
    <3> DEFINE new == IF k \in B THEN b[k] ELSE c[<<k, g[d[k]]>>]
               h == [n \in 0 .. k |-> IF n < k THEN g[n] ELSE new]
    <3>3. new \in V
      <4>1. CASE k \in B
        BY <4>1 DEF GoesBack
      <4>2. CASE k \notin B
        <5>1. d[k] \in 0 .. k - 1
          BY <4>2 DEF GoesBack
        <5>2. g[d[k]] \in V
          BY <3>2, <5>1 DEF FirstValues
        <5> QED
          BY <4>2, <5>2 DEF GoesBack
      <4> QED
        BY <4>1, <4>2
    <3>4. \A n \in 0 .. k : n < k => h[n] = g[n] /\ g[n] \in V
      BY <3>2 DEF FirstValues
    <3>5. h[k] = new
      OBVIOUS
    <3>6. h \in [0 .. k -> V]
      BY <3>3, <3>2 DEF FirstValues
    <3> HIDE DEF h
    <3>7. ASSUME NEW n \in 0 .. k PROVE h[n] = IF n \in B THEN b[n] ELSE c[<<n, h[d[n]]>>]
      <4>1. n \notin B => d[n] \in 0 .. k /\ d[n] < k /\ h[d[n]] = g[d[n]]
        BY <3>4 DEF GoesBack
      <4>2. CASE n = k
        BY <3>5, <4>1, <4>2
      <4>3. CASE n < k
        <5>1. g[n] = IF n \in B THEN b[n] ELSE c[<<n, g[d[n]]>>]
          BY <3>2, <4>3 DEF FirstValues
        <5> QED
          BY <3>4, <4>1, <4>3, <5>1
      <4> QED
        BY <4>2, <4>3
    <3> QED
      BY <3>6, <3>7 DEF FirstValues
  <2> QED
    BY <2>1, <2>2
<1> HIDE DEF T
<1>2. \A n \in Nat : n \in T
  BY <1>1, NumbersBelow
<1> QED
  BY <1>2 DEF T

\* f is what they define.
Defines(f, V, B, b, d, c) ==
  f \in [Nat -> V] /\ \A n \in Nat : f[n] = IF n \in B THEN b[n] ELSE c[<<n, f[d[n]]>>]

\* So there is the function.
LEMMA RecursionOnNumbers ==
  ASSUME NEW V, NEW B, NEW b, NEW d, NEW c, GoesBack(V, B, b, d, c)
  PROVE  \E f : Defines(f, V, B, b, d, c)
<1> DEFINE f == [n \in Nat |-> (CHOOSE g : FirstValues(g, n, V, B, b, d, c))[n]]
<1>1. \A k \in Nat : FirstValues(CHOOSE g : FirstValues(g, k, V, B, b, d, c), k, V, B, b, d, c)
  BY ValuesGoOn
<1>2. ASSUME NEW n \in Nat PROVE f[n] \in V
  <2> DEFINE g == CHOOSE g : FirstValues(g, n, V, B, b, d, c)
  <2>1. FirstValues(g, n, V, B, b, d, c) /\ f[n] = g[n]
    BY <1>1
  <2> HIDE DEF f, g
  <2>2. g \in [0 .. n -> V] /\ n \in 0 .. n
    BY <2>1 DEF FirstValues
  <2> QED
    BY <2>1, <2>2
<1>3. ASSUME NEW n \in Nat PROVE f[n] = IF n \in B THEN b[n] ELSE c[<<n, f[d[n]]>>]
  <2> DEFINE g == CHOOSE g : FirstValues(g, n, V, B, b, d, c)
  <2>1. FirstValues(g, n, V, B, b, d, c) /\ f[n] = g[n]
    BY <1>1
  <2> HIDE DEF f, g
  <2>2. g[n] = IF n \in B THEN b[n] ELSE c[<<n, g[d[n]]>>]
    <3>1. n \in 0 .. n
      OBVIOUS
    <3> QED
      BY <2>1, <3>1, Zenon DEF FirstValues
  <2>3. CASE n \notin B
    <3> USE DEF f
    <3> DEFINE h == CHOOSE h : FirstValues(h, d[n], V, B, b, d, c)
    <3>1. d[n] \in Nat /\ d[n] < n
      BY <2>3 DEF GoesBack
    <3>2. FirstValues(h, d[n], V, B, b, d, c) /\ f[d[n]] = h[d[n]]
      BY <1>1, <3>1
    <3> HIDE DEF f, h
    <3>3. h[d[n]] = g[d[n]]
      <4>1. \A i \in Nat : i <= n /\ i <= d[n] => g[i] = h[i]
        BY <2>1, <3>1, <3>2, ValuesAreOne
      <4> QED
        BY <3>1, <4>1
    <3> QED
      BY <2>1, <2>2, <2>3, <3>2, <3>3, Zenon
  <2> QED
    BY <2>1, <2>2, <2>3
<1>4. f \in [Nat -> V]
  BY <1>2
<1> HIDE DEF f
<1> QED
  BY <1>3, <1>4 DEF Defines

-----------------------------------------------------------------------------
(* Digits *)

\* Ten times, and a remainder of one digit.
LEMMA LastDigit ==
  ASSUME NEW n \in Nat
  PROVE  /\ n \div 10 \in Nat /\ n % 10 \in 0 .. 9 /\ n = 10 * (n \div 10) + (n % 10)
         /\ n >= 10 => n \div 10 < n /\ n \div 10 > 0
OBVIOUS

\* The sum of digits is defined for every number.
LEMMA DigitSumIs ==
  /\ DigitSum \in [Nat -> Nat]
  /\ \A n \in Nat : DigitSum[n] = IF n < 10 THEN n ELSE (n % 10) + DigitSum[n \div 10]
<1> DEFINE d == [n \in Nat |-> n \div 10]
           c == [p \in Nat \X Nat |-> (p[1] % 10) + p[2]]
           b == [n \in Nat |-> n]
           B == 0 .. 9
           V == Nat
           W(f) == [n \in Nat |-> IF n < 10 THEN n ELSE (n % 10) + f[n \div 10]]
<1>1. GoesBack(V, B, b, d, c)
  BY LastDigit DEF GoesBack
<1>2. PICK f : Defines(f, V, B, b, d, c)
  <2> HIDE DEF V, B, b, d, c
  <2> QED
    BY <1>1, RecursionOnNumbers
<1>3. \A n \in Nat : f[n] = IF n < 10 THEN n ELSE (n % 10) + f[n \div 10]
  <2> SUFFICES ASSUME NEW n \in Nat PROVE f[n] = IF n < 10 THEN n ELSE (n % 10) + f[n \div 10]
    OBVIOUS
  <2>1. n \in B <=> n < 10
    OBVIOUS
  <2>2. n \div 10 \in Nat /\ f[n \div 10] \in Nat
    BY <1>2, LastDigit DEF Defines
  <2>3. c[<<n, f[d[n]]>>] = (n % 10) + f[n \div 10]
    BY <2>2
  <2> QED
    BY <1>2, <2>1, <2>3 DEF Defines
<1>4. f = W(f)
  BY <1>2, <1>3 DEF Defines
<1>5. DigitSum = CHOOSE g : g = W(g)
  BY DEF DigitSum
<1> HIDE DEF W
<1>6. DigitSum = W(DigitSum)
  BY <1>4, <1>5
<1> DEFINE T == {n \in Nat : DigitSum[n] \in Nat}
<1>7. \A n \in Nat : DigitSum[n] = IF n < 10 THEN n ELSE (n % 10) + DigitSum[n \div 10]
  BY <1>6 DEF W
<1>8. ASSUME NEW n \in Nat, \A m \in Nat : m < n => m \in T PROVE n \in T
  <2>1. n >= 10 => n \div 10 \in T /\ n % 10 \in Nat
    BY <1>8, LastDigit
  <2> QED
    BY <1>7, <2>1
<1> HIDE DEF T
<1>9. \A n \in Nat : n \in T
  BY <1>8, NumbersBelow
<1>10. DigitSum = [n \in Nat |-> DigitSum[n]]
  BY <1>6 DEF W
<1> QED
  BY <1>7, <1>9, <1>10 DEF T

\* It is smaller than a number of two digits or more, and not 0 unless the number is.
LEMMA DigitSumIsLess ==
  \A n \in Nat : /\ DigitSum[n] \in Nat
                 /\ n < 10 => DigitSum[n] = n
                 /\ n >= 10 => DigitSum[n] < n
                 /\ n > 0 => DigitSum[n] > 0
<1> DEFINE T == {n \in Nat : /\ n >= 10 => DigitSum[n] < n
                             /\ n > 0 => DigitSum[n] > 0}
<1>1. ASSUME NEW n \in Nat, \A m \in Nat : m < n => m \in T PROVE n \in T
  <2>1. CASE n < 10
    BY <2>1, DigitSumIs
  <2>2. CASE n >= 10
    <3> DEFINE q == n \div 10
               r == n % 10
    <3>1. q \in Nat /\ q < n /\ q > 0 /\ r \in 0 .. 9 /\ n = 10 * q + r
      BY <2>2, LastDigit
    <3>2. DigitSum[n] = r + DigitSum[q] /\ DigitSum[q] \in Nat
      BY <2>2, <3>1, DigitSumIs
    <3>3. q < 10 => DigitSum[q] = q
      BY <3>1, DigitSumIs
    <3>4. q \in T
      BY <1>1, <3>1
    <3>5. DigitSum[q] <= q /\ DigitSum[q] > 0
      BY <3>1, <3>2, <3>3, <3>4
    <3> HIDE DEF q, r
    <3> QED
      BY <2>2, <3>1, <3>2, <3>5
  <2> QED
    BY <2>1, <2>2
<1> HIDE DEF T
<1>2. \A n \in Nat : n \in T
  BY <1>1, NumbersBelow
<1> QED
  BY <1>2, DigitSumIs DEF T

\* Numbers that leave the same when nines are taken off.
Alike(a, b) == a % 9 = b % 9

\* Then they differ by nines.
LEMMA AlikeBy == ASSUME NEW a \in Int, NEW b \in Int PROVE Alike(a, b) <=> \E k \in Int : a = b + 9 * k
<1>1. ASSUME Alike(a, b) PROVE \E k \in Int : a = b + 9 * k
  <2>1. a = b + 9 * ((a \div 9) - (b \div 9)) /\ (a \div 9) - (b \div 9) \in Int
    BY <1>1 DEF Alike
  <2> QED
    BY <2>1
<1>2. ASSUME NEW k \in Int, a = b + 9 * k PROVE Alike(a, b)
  <2>1. b = 9 * (b \div 9) + (b % 9) /\ b % 9 \in 0 .. 8 /\ b \div 9 \in Int
    OBVIOUS
  <2>2. a = 9 * (k + (b \div 9)) + (b % 9)
    BY <1>2, <2>1
  <2> QED
    BY <2>1, <2>2 DEF Alike
<1> QED
  BY <1>1, <1>2

\* Sums and differences of numbers that are alike are.
LEMMA AlikeSum ==
  ASSUME NEW a \in Int, NEW b \in Int, NEW x \in Int, NEW y \in Int, Alike(a, b), Alike(x, y)
  PROVE  Alike(a + x, b + y) /\ Alike(a - x, b - y) /\ Alike(b, a)
<1>1. PICK k \in Int : a = b + 9 * k
  BY AlikeBy
<1>2. PICK m \in Int : x = y + 9 * m
  BY AlikeBy
<1>3. a + x = (b + y) + 9 * (k + m) /\ a - x = (b - y) + 9 * (k - m) /\ b = a + 9 * (- k)
  BY <1>1, <1>2
<1>4. a + x \in Int /\ a - x \in Int /\ b + y \in Int /\ b - y \in Int /\ k + m \in Int /\ k - m \in Int /\ - k \in Int
  OBVIOUS
<1>5. Alike(a + x, b + y)
  BY <1>3, <1>4, AlikeBy
<1>6. Alike(a - x, b - y)
  BY <1>3, <1>4, AlikeBy
<1> QED
  BY <1>5, <1>6 DEF Alike

\* Summing digits takes nines off.
LEMMA DigitSumIsAlike == \A n \in Nat : Alike(DigitSum[n], n)
<1> DEFINE T == {n \in Nat : Alike(DigitSum[n], n)}
<1>1. ASSUME NEW n \in Nat, \A m \in Nat : m < n => m \in T PROVE n \in T
  <2>1. CASE n < 10
    BY <2>1, DigitSumIs DEF Alike
  <2>2. CASE n >= 10
    <3> DEFINE q == n \div 10
               r == n % 10
    <3>1. q \in Nat /\ q < n /\ q > 0 /\ r \in 0 .. 9 /\ n = 10 * q + r
      BY <2>2, LastDigit
    <3>2. DigitSum[n] = r + DigitSum[q] /\ DigitSum[q] \in Nat
      BY <2>2, <3>1, DigitSumIs
    <3>3. Alike(DigitSum[q], q)
      BY <1>1, <3>1
    <3> HIDE DEF q, r
    <3>4. PICK k \in Int : DigitSum[q] = q + 9 * k
      BY <3>1, <3>2, <3>3, AlikeBy
    <3>5. DigitSum[n] = n + 9 * (k - q) /\ k - q \in Int /\ DigitSum[n] \in Int
      BY <3>1, <3>2, <3>4
    <3> QED
      BY <3>5, AlikeBy
  <2> QED
    BY <2>1, <2>2
<1> HIDE DEF T
<1>2. \A n \in Nat : n \in T
  BY <1>1, NumbersBelow
<1> QED
  BY <1>2 DEF T

-----------------------------------------------------------------------------
(* Digits summed again and again *)

\* f sums digits until a number of B is left.
SumsUntil(f, B) ==
  /\ 0 .. 9 \subseteq B /\ B \subseteq Nat
  /\ \A n \in Nat : f[n] = IF n \in B THEN n ELSE f[DigitSum[n]]

\* It ends in one, which is alike, and 0 for 0 only.
LEMMA SumsEnd ==
  ASSUME NEW f, NEW B, SumsUntil(f, B)
  PROVE  \A n \in Nat : f[n] \in B /\ Alike(f[n], n) /\ (f[n] = 0 <=> n = 0)
<1> DEFINE T == {n \in Nat : f[n] \in B /\ Alike(f[n], n) /\ (f[n] = 0 <=> n = 0)}
<1>1. ASSUME NEW n \in Nat, \A m \in Nat : m < n => m \in T PROVE n \in T
  <2>1. CASE n \in B
    <3>1. f[n] = n
      BY <2>1 DEF SumsUntil
    <3> QED
      BY <2>1, <3>1 DEF Alike
  <2>2. CASE n \notin B
    <3> DEFINE s == DigitSum[n]
    <3>1. n >= 10
      BY <2>2 DEF SumsUntil
    <3>2. s \in Nat /\ s < n /\ s > 0 /\ Alike(s, n)
      BY <3>1, DigitSumIsLess, DigitSumIsAlike
    <3>3. f[n] = f[s]
      BY <2>2, Zenon DEF SumsUntil
    <3>4. f[s] \in B /\ Alike(f[s], s) /\ f[s] # 0
      BY <1>1, <3>2
    <3> HIDE DEF s
    <3> QED
      BY <3>1, <3>2, <3>3, <3>4 DEF Alike
  <2> QED
    BY <2>1, <2>2
<1> HIDE DEF T
<1>2. \A n \in Nat : n \in T
  BY <1>1, NumbersBelow
<1> QED
  BY <1>2 DEF T

\* A function that goes back to the sum of digits goes back to a smaller number.
LEMMA SumsGoBack ==
  ASSUME NEW B, 0 .. 9 \subseteq B, B \subseteq Nat, NEW n \in Nat, n \notin B
  PROVE  DigitSum[n] \in Nat /\ DigitSum[n] < n
<1>1. n >= 10
  OBVIOUS
<1> QED
  BY <1>1, DigitSumIsLess

\* Where the sums of Reduced end.
OneDigitOrMaster == 0 .. 9 \union {11, 22, 33}

\* Reduced is defined for every number: what is left of it,
LEMMA ReducedIs ==
  /\ \A n \in Nat : Reduced[n].value = IF n \in OneDigitOrMaster THEN n ELSE Reduced[DigitSum[n]].value
  /\ SumsUntil([n \in Nat |-> Reduced[n].value], OneDigitOrMaster)
<1> DEFINE V == [value : Nat, debt : BOOLEAN]
           B == OneDigitOrMaster
           b == [n \in B |-> [value |-> n, debt |-> FALSE]]
           d == [n \in Nat |-> DigitSum[n]]
           c == [p \in Nat \X V |-> [p[2] EXCEPT !.debt = @ \/ p[1] \in {13, 14, 16, 19}]]
           W(f) == [n \in Nat |->
                      IF n < 10 \/ IsMaster(n) THEN [value |-> n, debt |-> FALSE]
                      ELSE LET next == f[DigitSum[n]] IN
                           [next EXCEPT !.debt = @ \/ n \in {13, 14, 16, 19}]]
<1>0. 0 .. 9 \subseteq B /\ B \subseteq Nat /\ \A n \in Nat : n \in B <=> n < 10 \/ IsMaster(n)
  BY DEF OneDigitOrMaster, IsMaster
<1>1. GoesBack(V, B, b, d, c)
  <2>1. \A n \in B : b[n] \in V
    BY <1>0
  <2>2. \A n \in Nat : n \notin B => d[n] \in Nat /\ d[n] < n
    <3> HIDE DEF B
    <3> QED
      BY <1>0, SumsGoBack
  <2>3. \A n \in Nat, v \in V : c[<<n, v>>] \in V
    OBVIOUS
  <2> HIDE DEF V, B, b, d, c
  <2> QED
    BY <2>1, <2>2, <2>3 DEF GoesBack
<1>2. PICK f : Defines(f, V, B, b, d, c)
  <2> HIDE DEF V, B, b, d, c
  <2> QED
    BY <1>1, RecursionOnNumbers
<1>3. f = W(f)
  <2>1. f \in [Nat -> V]
    BY <1>2 DEF Defines
  <2>2. ASSUME NEW n \in Nat PROVE f[n] = W(f)[n]
    <3>1. CASE n \in B
      <4>1. f[n] = b[n]
        BY <1>2, <3>1 DEF Defines
      <4> QED
        BY <1>0, <3>1, <4>1
    <3>2. CASE n \notin B
      <4>1. f[n] = c[<<n, f[d[n]]>>]
        <5> HIDE DEF B, b, c, d, V
        <5> QED
          BY <1>2, <3>2 DEF Defines
      <4>2. d[n] = DigitSum[n] /\ DigitSum[n] \in Nat /\ f[DigitSum[n]] \in V
        BY <2>1, DigitSumIsLess
      <4>3. c[<<n, f[d[n]]>>] = [f[DigitSum[n]] EXCEPT !.debt = @ \/ n \in {13, 14, 16, 19}]
        BY <4>2
      <4>4. ~ (n < 10 \/ IsMaster(n))
        BY <1>0, <3>2
      <4> QED
        BY <4>1, <4>3, <4>4
    <3> QED
      BY <3>1, <3>2
  <2> HIDE DEF V
  <2> QED
    BY <2>1, <2>2
<1>4. Reduced = CHOOSE g : g = W(g)
  BY DEF Reduced
<1>5. Reduced = W(Reduced)
  <2> HIDE DEF W
  <2> QED
    BY <1>3, <1>4
<1> DEFINE T == {n \in Nat : Reduced[n] \in V}
<1>6. ASSUME NEW n \in Nat
      PROVE  Reduced[n] = IF n < 10 \/ IsMaster(n) THEN [value |-> n, debt |-> FALSE]
                          ELSE [Reduced[DigitSum[n]] EXCEPT !.debt = @ \/ n \in {13, 14, 16, 19}]
  BY <1>5, Zenon
<1>7. ASSUME NEW n \in Nat, \A m \in Nat : m < n => m \in T PROVE n \in T
  <2>1. CASE n \in B
    <3>1. n < 10 \/ IsMaster(n)
      BY <1>0, <2>1
    <3>2. Reduced[n] = [value |-> n, debt |-> FALSE]
      BY <1>6, <3>1, Zenon
    <3>3. [value |-> n, debt |-> FALSE] \in V
      OBVIOUS
    <3> QED
      BY <3>2, <3>3, Zenon
  <2>2. CASE n \notin B
    <3>1. DigitSum[n] \in T
      <4> HIDE DEF B, T
      <4> QED
        BY <1>0, <1>7, <2>2, SumsGoBack
    <3>2. Reduced[DigitSum[n]] \in V
      BY <3>1
    <3>3. ~ (n < 10 \/ IsMaster(n))
      BY <1>0, <2>2
    <3>4. Reduced[n] = [Reduced[DigitSum[n]] EXCEPT !.debt = @ \/ n \in {13, 14, 16, 19}]
      BY <1>6, <3>3, Zenon
    <3> QED
      BY <3>2, <3>4
  <2> QED
    BY <2>1, <2>2
<1>8. \A n \in Nat : n \in T
  <2> HIDE DEF T
  <2> QED
    BY <1>7, NumbersBelow
<1>9. ASSUME NEW n \in Nat
      PROVE  Reduced[n].value = IF n \in B THEN n ELSE Reduced[DigitSum[n]].value
  <2>1. DigitSum[n] \in Nat
    BY DigitSumIsLess
  <2>2. Reduced[DigitSum[n]] \in V
    BY <1>8, <2>1
  <2>3. [Reduced[DigitSum[n]] EXCEPT !.debt = @ \/ n \in {13, 14, 16, 19}].value = Reduced[DigitSum[n]].value
    BY <2>2
  <2>4. n \in B <=> n < 10 \/ IsMaster(n)
    BY <1>0
  <2>5. CASE n \in B
    <3>1. Reduced[n] = [value |-> n, debt |-> FALSE]
      BY <1>6, <2>4, <2>5, Zenon
    <3> QED
      BY <2>5, <3>1
  <2>6. CASE n \notin B
    <3>1. Reduced[n] = [Reduced[DigitSum[n]] EXCEPT !.debt = @ \/ n \in {13, 14, 16, 19}]
      BY <1>6, <2>4, <2>6, Zenon
    <3> QED
      BY <2>3, <2>6, <3>1
  <2> QED
    BY <2>5, <2>6
<1> DEFINE value == [n \in Nat |-> Reduced[n].value]
<1>10. ASSUME NEW n \in Nat PROVE value[n] = IF n \in B THEN n ELSE value[DigitSum[n]]
  <2>1. DigitSum[n] \in Nat
    BY DigitSumIsLess
  <2> HIDE DEF B
  <2> QED
    BY <1>9, <2>1
<1>11. SumsUntil(value, B)
  BY <1>0, <1>10 DEF SumsUntil
<1> QED
  BY <1>9, <1>11

\* a digit or a master number that is alike.
LEMMA ReducedEnds ==
  \A n \in Nat : /\ Reduced[n].value \in OneDigitOrMaster /\ Alike(Reduced[n].value, n)
                 /\ Reduced[n].value = 0 <=> n = 0
<1> DEFINE value == [n \in Nat |-> Reduced[n].value]
<1>1. \A n \in Nat : value[n] \in OneDigitOrMaster /\ Alike(value[n], n) /\ (value[n] = 0 <=> n = 0)
  <2> HIDE DEF value
  <2> QED
    BY ReducedIs, SumsEnd DEF value
<1> QED
  BY <1>1

\* digitalRoot is defined, and sums until one digit is left.
LEMMA DigitalRootSums == SumsUntil(digitalRoot, 0 .. 9)
<1> DEFINE V == Nat
           B == 0 .. 9
           b == [n \in Nat |-> n]
           d == [n \in Nat |-> DigitSum[n]]
           c == [p \in Nat \X Nat |-> p[2]]
           W(f) == [n \in Nat |-> IF n < 10 THEN n ELSE f[DigitSum[n]]]
<1>1. GoesBack(V, B, b, d, c)
  BY DigitSumIsLess DEF GoesBack
<1>2. PICK f : Defines(f, V, B, b, d, c)
  <2> HIDE DEF V, B, b, d, c
  <2> QED
    BY <1>1, RecursionOnNumbers
<1>3. f = W(f)
  <2>1. f \in [Nat -> Nat]
    BY <1>2 DEF Defines
  <2>2. ASSUME NEW n \in Nat PROVE f[n] = W(f)[n]
    <3>1. DigitSum[n] \in Nat /\ d[n] = DigitSum[n]
      BY DigitSumIsLess
    <3>2. b[n] = n /\ c[<<n, f[d[n]]>>] = f[DigitSum[n]]
      BY <2>1, <3>1
    <3>3. f[n] = IF n \in B THEN b[n] ELSE c[<<n, f[d[n]]>>]
      <4> HIDE DEF V, B, b, d, c
      <4> QED
        BY <1>2 DEF Defines
    <3>4. f[n] = IF n \in B THEN n ELSE f[DigitSum[n]]
      <4> HIDE DEF V, B, b, d, c
      <4> QED
        BY <3>2, <3>3
    <3> QED
      BY <3>4
  <2> QED
    BY <2>1, <2>2
<1>4. digitalRoot = CHOOSE g : g = W(g)
  BY DEF digitalRoot
<1>5. digitalRoot = W(digitalRoot)
  <2> HIDE DEF W
  <2> QED
    BY <1>3, <1>4
<1>6. ASSUME NEW n \in Nat PROVE digitalRoot[n] = IF n < 10 THEN n ELSE digitalRoot[DigitSum[n]]
  BY <1>5, Zenon
<1> QED
  BY <1>6 DEF SumsUntil

\* And reduce until one of 22 is.
LEMMA FoldedSums == SumsUntil(Folded, 0 .. 22)
<1> DEFINE V == Nat
           B == 0 .. 22
           b == [n \in Nat |-> n]
           d == [n \in Nat |-> DigitSum[n]]
           c == [p \in Nat \X Nat |-> p[2]]
           W(f) == [n \in Nat |-> IF n > 22 THEN f[DigitSum[n]] ELSE n]
<1>1. GoesBack(V, B, b, d, c)
  BY DigitSumIsLess DEF GoesBack
<1>2. PICK f : Defines(f, V, B, b, d, c)
  <2> HIDE DEF V, B, b, d, c
  <2> QED
    BY <1>1, RecursionOnNumbers
<1>3. f = W(f)
  <2>1. f \in [Nat -> Nat]
    BY <1>2 DEF Defines
  <2>2. ASSUME NEW n \in Nat PROVE f[n] = W(f)[n]
    <3>1. DigitSum[n] \in Nat /\ d[n] = DigitSum[n]
      BY DigitSumIsLess
    <3>2. b[n] = n /\ c[<<n, f[d[n]]>>] = f[DigitSum[n]]
      BY <2>1, <3>1
    <3>3. f[n] = IF n \in B THEN b[n] ELSE c[<<n, f[d[n]]>>]
      <4> HIDE DEF V, B, b, d, c
      <4> QED
        BY <1>2 DEF Defines
    <3>4. f[n] = IF n \in B THEN n ELSE f[DigitSum[n]]
      <4> HIDE DEF V, B, b, d, c
      <4> QED
        BY <3>2, <3>3
    <3> QED
      BY <3>4
  <2> QED
    BY <2>1, <2>2
<1>4. Folded = CHOOSE g : g = W(g)
  BY DEF Folded
<1>5. Folded = W(Folded)
  <2> HIDE DEF W
  <2> QED
    BY <1>3, <1>4
<1>6. ASSUME NEW n \in Nat PROVE Folded[n] = IF n > 22 THEN Folded[DigitSum[n]] ELSE n
  BY <1>5, Zenon
<1> QED
  BY <1>6 DEF SumsUntil

\* What reduce gives of a number that is not 0.
LEMMA ReduceEnds ==
  ASSUME NEW n \in Nat, n > 0
  PROVE  reduce(n) \in 1 .. 22 /\ Alike(reduce(n), n)
BY FoldedSums, SumsEnd DEF reduce

-----------------------------------------------------------------------------
(* Numbers of a date and of a name *)

\* Digits 1 to 9 of numbers that are left.
LEMMA DigitsOfMasters ==
  \A v \in OneDigitOrMaster : DigitSum[v] \in 0 .. 9 /\ (DigitSum[v] = 0 <=> v = 0)
<1>1. ASSUME NEW k \in 1 .. 3 PROVE DigitSum[11 * k] = 2 * k
  <2>1. (11 * k) \div 10 = k /\ (11 * k) % 10 = k /\ 11 * k \in Nat /\ ~ (11 * k < 10)
    BY <1>1
  <2>2. DigitSum[k] = k
    BY <1>1, DigitSumIsLess
  <2> QED
    BY <2>1, <2>2, DigitSumIs
<1>2. DigitSum[11] = 2 /\ DigitSum[22] = 4 /\ DigitSum[33] = 6
  <2>1. 11 = 11 * 1 /\ 22 = 11 * 2 /\ 33 = 11 * 3
    OBVIOUS
  <2>2. DigitSum[11 * 1] = 2 * 1 /\ DigitSum[11 * 2] = 2 * 2 /\ DigitSum[11 * 3] = 2 * 3
    BY <1>1
  <2> QED
    BY <2>1, <2>2
<1> QED
  BY <1>2, DigitSumIsLess DEF OneDigitOrMaster

\* Number keeps what nines leave, and is 0 of 0 only.
LEMMA NumberIs ==
  ASSUME NEW n \in Int
  PROVE  /\ Number(n).value \in OneDigitOrMaster /\ Number(n).value \in Nat
         /\ Number(n).raw = Magnitude(n) /\ Magnitude(n) \in Nat
         /\ Alike(Number(n).value, Magnitude(n))
         /\ Number(n).value = 0 <=> n = 0
<1>1. Magnitude(n) \in Nat /\ (Magnitude(n) = 0 <=> n = 0)
  BY DEF Magnitude
<1>2. Number(n).value = Reduced[Magnitude(n)].value /\ Number(n).raw = Magnitude(n)
  BY DEF Number
<1>3. OneDigitOrMaster \subseteq Nat
  BY DEF OneDigitOrMaster
<1> HIDE DEF Magnitude
<1> QED
  BY <1>1, <1>2, <1>3, ReducedEnds

\* And so do its digits.
LEMMA FinalIs ==
  ASSUME NEW n \in Nat
  PROVE  /\ reduceFinal(n) \in 0 .. 9 /\ Alike(reduceFinal(n), n)
         /\ reduceFinal(n) = 0 <=> n = 0
<1>1. /\ Number(n).value \in OneDigitOrMaster /\ Number(n).value \in Nat
      /\ Alike(Number(n).value, n) /\ (Number(n).value = 0 <=> n = 0)
  BY NumberIs DEF Magnitude
<1>2. Alike(DigitSum[Number(n).value], Number(n).value)
  BY <1>1, DigitSumIsAlike
<1>3. Alike(DigitSum[Number(n).value], n)
  BY <1>1, <1>2 DEF Alike
<1> QED
  BY <1>1, <1>3, DigitsOfMasters DEF reduceFinal

\* Numbers that are alike, both 0 or neither, have one digital root.
LEMMA OneRoot ==
  ASSUME NEW a \in Nat, NEW b \in Nat, Alike(a, b), a = 0 <=> b = 0
  PROVE  Root(a) = Root(b)
<1>1. PICK k \in Int : a = b + 9 * k
  BY AlikeBy
<1>2. a - 1 = (b - 1) + 9 * k /\ a - 1 \in Int /\ b - 1 \in Int
  BY <1>1
<1>3. Alike(a - 1, b - 1)
  BY <1>2, AlikeBy
<1> QED
  BY <1>3 DEF Root, Alike

\* Dates of the calendar.
Date == [y : Nat, m : 1 .. 12, d : 1 .. 31]

\* The parts of a date, and of the life path.
LEMMA PathOfDate ==
  ASSUME NEW date \in Date
  PROVE  /\ Parts(date).m \in 1 .. 9 /\ Parts(date).d \in 1 .. 9 /\ Parts(date).y \in 0 .. 9
         /\ Alike(Parts(date).m, date.m) /\ Alike(Parts(date).d, date.d)
         /\ Alike(Parts(date).y, date.y)
         /\ LifePath(date).value \in OneDigitOrMaster \ {0}
         /\ Alike(LifePath(date).value, date.y + date.m + date.d)
<1> DEFINE p == Parts(date)
<1>0. date.m \in Nat \ {0} /\ date.d \in Nat \ {0} /\ date.y \in Nat
  BY DEF Date
<1>1. p.m = reduceFinal(date.m) /\ p.d = reduceFinal(date.d) /\ p.y = reduceFinal(date.y)
  BY DEF Parts
<1> HIDE DEF p
<1>2. /\ p.m \in 1 .. 9 /\ p.d \in 1 .. 9 /\ p.y \in 0 .. 9
      /\ Alike(p.m, date.m) /\ Alike(p.d, date.d) /\ Alike(p.y, date.y)
  BY <1>0, <1>1, FinalIs
<1>3. /\ LifePath(date) = Number(p.m + p.d + p.y)
      /\ p.m + p.d + p.y \in Nat /\ p.m + p.d + p.y # 0
      /\ Magnitude(p.m + p.d + p.y) = p.m + p.d + p.y
  BY <1>2 DEF LifePath, p, Magnitude
<1>4. /\ LifePath(date).value \in OneDigitOrMaster \ {0}
      /\ Alike(LifePath(date).value, p.m + p.d + p.y)
  BY <1>3, NumberIs
<1>5. /\ date.m \in Int /\ date.d \in Int /\ date.y \in Int /\ date.m + date.d \in Int
       /\ p.m \in Int /\ p.d \in Int /\ p.y \in Int /\ p.m + p.d \in Int
  BY <1>0, <1>2
<1>6. Alike(p.m + p.d, date.m + date.d)
  BY <1>5, <1>2, AlikeSum, Zenon
<1>7. Alike((p.m + p.d) + p.y, (date.m + date.d) + date.y)
  BY <1>5, <1>2, <1>6, AlikeSum, Zenon
<1>8. (date.m + date.d) + date.y = date.y + date.m + date.d
  BY <1>0
<1>9. Alike(LifePath(date).value, date.y + date.m + date.d)
  BY <1>4, <1>7, <1>8 DEF Alike
<1> QED
  BY <1>2, <1>4, <1>9 DEF p

\* The number of a day adds up too.
LEMMA PersonalDayAddsUp ==
  ASSUME NEW birth \in Date, NEW date \in Date
  PROVE  Root(PersonalDay(birth, date).value) = Root(birth.m + birth.d + date.y + date.m + date.d)
<1> DEFINE p == Parts(birth)
           y == reduceFinal(date.y)
           m == reduceFinal(date.m)
           d == reduceFinal(date.d)
           year == PersonalYear(birth, date).value
           month == PersonalMonth(birth, date).value
           day == PersonalDay(birth, date).value
<1>0. /\ date.m \in Nat \ {0} /\ date.d \in Nat \ {0} /\ date.y \in Nat
      /\ birth.m \in Nat \ {0} /\ birth.d \in Nat \ {0}
  BY DEF Date
<1>1. /\ p.m \in 1 .. 9 /\ p.d \in 1 .. 9 /\ y \in 0 .. 9 /\ m \in 1 .. 9 /\ d \in 1 .. 9
      /\ Alike(p.m, birth.m) /\ Alike(p.d, birth.d)
      /\ Alike(y, date.y) /\ Alike(m, date.m) /\ Alike(d, date.d)
  BY <1>0, PathOfDate, FinalIs
<1>2. /\ year = Number(p.m + p.d + y).value
      /\ month = Number(year + m).value
      /\ day = Number(month + d).value
  BY DEF PersonalYear, PersonalMonth, PersonalDay
<1> HIDE DEF p, y, m, d, year, month, day
<1>3. \A n \in Nat : Magnitude(n) = n
  BY DEF Magnitude
<1>4. year \in Nat /\ Alike(year, p.m + p.d + y)
  BY <1>1, <1>2, <1>3, NumberIs
<1>5. month \in Nat /\ Alike(month, year + m)
  BY <1>1, <1>2, <1>3, <1>4, NumberIs
<1>6. day \in Nat /\ Alike(day, month + d) /\ day # 0
  BY <1>1, <1>2, <1>3, <1>5, NumberIs
<1>7. /\ birth.m \in Int /\ birth.d \in Int /\ birth.m + birth.d \in Int
       /\ date.m \in Int /\ date.d \in Int /\ date.y \in Int
       /\ (birth.m + birth.d) + date.y \in Int /\ ((birth.m + birth.d) + date.y) + date.m \in Int
       /\ p.m \in Int /\ p.d \in Int /\ p.m + p.d \in Int
       /\ y \in Int /\ m \in Int /\ d \in Int /\ year \in Int /\ month \in Int
  BY <1>0, <1>1, <1>4, <1>5
<1>8. Alike(p.m + p.d, birth.m + birth.d)
  BY <1>7, <1>1, AlikeSum, Zenon
<1>9. Alike((p.m + p.d) + y, (birth.m + birth.d) + date.y)
  BY <1>7, <1>1, <1>8, AlikeSum, Zenon
<1>10. Alike(year, (birth.m + birth.d) + date.y)
  BY <1>4, <1>9 DEF Alike
<1>11. Alike(year + m, ((birth.m + birth.d) + date.y) + date.m)
  BY <1>7, <1>1, <1>10, AlikeSum, Zenon
<1>12. Alike(month, ((birth.m + birth.d) + date.y) + date.m)
  BY <1>5, <1>11 DEF Alike
<1>13. Alike(month + d, (((birth.m + birth.d) + date.y) + date.m) + date.d)
  BY <1>7, <1>1, <1>12, AlikeSum, Zenon
<1>14. Alike(day, birth.m + birth.d + date.y + date.m + date.d)
  BY <1>6, <1>13 DEF Alike
<1>15. /\ birth.m + birth.d + date.y + date.m + date.d \in Nat
       /\ birth.m + birth.d + date.y + date.m + date.d # 0
  BY <1>0
<1>16. Root(day) = Root(birth.m + birth.d + date.y + date.m + date.d)
  BY <1>6, <1>14, <1>15, OneRoot
<1> QED
  BY <1>16 DEF day

-----------------------------------------------------------------------------
(* Names *)

\* A name is a sequence of letters, 0 for one outside the alphabet.
Name == Seq(0 .. 26)

LEMMA LettersOf ==
  ASSUME NEW name \in Name
  PROVE  /\ Len(name) \in Nat /\ DOMAIN name = 1 .. Len(name)
         /\ \A i \in 1 .. Len(name) : /\ name[i] \in 0 .. 26 /\ letterValue(name[i]) \in 0 .. 9
                                      /\ letterValue(name[i]) = 0 <=> name[i] \notin Letter
<1>1. Len(name) \in Nat /\ DOMAIN name = 1 .. Len(name) /\ \A i \in 1 .. Len(name) : name[i] \in 0 .. 26
  <2>1. ASSUME NEW S, NEW s \in Seq(S)
        PROVE  Len(s) \in Nat /\ DOMAIN s = 1 .. Len(s) /\ \A i \in 1 .. Len(s) : s[i] \in S
    OBVIOUS
  <2> QED
    BY <2>1, Zenon DEF Name
<1>2. \A l \in 0 .. 26 : letterValue(l) \in 0 .. 9 /\ (letterValue(l) = 0 <=> l \notin Letter)
  BY DEF letterValue, Letter
<1> QED
  BY <1>1, <1>2

\* The sum over the letters of a name up to each place.
Total(name, kept) ==
  CHOOSE total : total = [i \in 0 .. Len(name) |->
    IF i = 0 THEN 0 ELSE total[i - 1] + IF name[i] \in kept THEN letterValue(name[i]) ELSE 0]

Kept(name, kept, i) == IF name[i] \in kept THEN letterValue(name[i]) ELSE 0

LEMMA TotalIs ==
  ASSUME NEW name \in Name, NEW kept
  PROVE  /\ sumLetters(name, kept) = Total(name, kept)[Len(name)]
         /\ Total(name, kept)[0] = 0
         /\ \A i \in 1 .. Len(name) :
              Total(name, kept)[i] = Total(name, kept)[i - 1] + Kept(name, kept, i)
<1> DEFINE L == Len(name)
           V == Nat
           B == {0}
           b == [n \in {0} |-> 0]
           d == [n \in Nat |-> n - 1]
           c == [p \in Nat \X Nat |-> IF p[1] <= L THEN p[2] + Kept(name, kept, p[1]) ELSE 0]
           W(f) == [i \in 0 .. L |-> IF i = 0 THEN 0 ELSE f[i - 1] + Kept(name, kept, i)]
<1>0. L \in Nat /\ \A i \in 1 .. L : Kept(name, kept, i) \in Nat
  BY LettersOf DEF Kept
<1> HIDE DEF L
<1>1. GoesBack(V, B, b, d, c)
  BY <1>0 DEF GoesBack
<1>2. PICK f : Defines(f, V, B, b, d, c)
  <2> HIDE DEF V, B, b, d, c
  <2> QED
    BY <1>1, RecursionOnNumbers
<1> DEFINE g == [i \in 0 .. L |-> f[i]]
<1>3. g = W(g)
  <2>1. f \in [Nat -> Nat]
    BY <1>2 DEF Defines
  <2>2. ASSUME NEW i \in 0 .. L PROVE g[i] = W(g)[i]
    <3>1. i \in Nat
      OBVIOUS
    <3>2. f[i] = IF i \in B THEN b[i] ELSE c[<<i, f[d[i]]>>]
      <4> HIDE DEF V, B, b, d, c
      <4> QED
        BY <1>2, <3>1 DEF Defines
    <3>3. CASE i = 0
      BY <3>2, <3>3
    <3>4. CASE i # 0
      <4>1. d[i] = i - 1 /\ i - 1 \in 0 .. L /\ f[i - 1] \in Nat
        BY <1>0, <2>1, <3>4
      <4>2. c[<<i, f[d[i]]>>] = f[i - 1] + Kept(name, kept, i)
        BY <4>1
      <4> QED
        BY <3>2, <3>4, <4>1, <4>2
    <3> QED
      BY <3>3, <3>4
  <2> QED
    BY <2>2
<1>4. Total(name, kept) = CHOOSE t : t = W(t)
  BY Zenon DEF Total, Kept, L
<1>5. Total(name, kept) = W(Total(name, kept))
  <2> HIDE DEF W, g
  <2> QED
    BY <1>3, <1>4
<1>6. sumLetters(name, kept) = Total(name, kept)[L]
  BY Zenon DEF sumLetters, Total, L
<1> DEFINE t == Total(name, kept)
<1>7. t = W(t)
  BY <1>5
<1>8. \A i \in 0 .. L : t[i] = IF i = 0 THEN 0 ELSE t[i - 1] + Kept(name, kept, i)
  <2> HIDE DEF t
  <2> QED
    BY <1>7, Zenon
<1>9. t[0] = 0 /\ \A i \in 1 .. L : t[i] = t[i - 1] + Kept(name, kept, i)
  <2>1. 0 \in 0 .. L /\ \A i \in 1 .. L : i \in 0 .. L /\ i # 0
    BY <1>0
  <2> HIDE DEF t
  <2> QED
    BY <1>8, <2>1, Zenon
<1> QED
  BY <1>6, <1>9 DEF L

\* Sums of letters are numbers; vowels and consonants make up the whole; it is 0 when no
\* letter counts.
LEMMA TotalsAddUp ==
  ASSUME NEW name \in Name
  PROVE  /\ sumLetters(name, Letter) \in Nat /\ sumLetters(name, Vowel) \in Nat
         /\ sumLetters(name, Letter \ Vowel) \in Nat
         /\ sumLetters(name, Letter) = sumLetters(name, Vowel) + sumLetters(name, Letter \ Vowel)
         /\ sumLetters(name, Letter) = 0 <=> \A i \in 1 .. Len(name) : letterValue(name[i]) = 0
<1> DEFINE L == Len(name)
           a == Total(name, Letter)
           v == Total(name, Vowel)
           c == Total(name, Letter \ Vowel)
           T == {k \in Nat : k <= L =>
                   /\ a[k] \in Nat /\ v[k] \in Nat /\ c[k] \in Nat /\ a[k] = v[k] + c[k]
                   /\ a[k] = 0 <=> \A i \in 1 .. k : letterValue(name[i]) = 0}
<1>0. L \in Nat /\ Vowel \subseteq Letter
  BY LettersOf DEF Vowel, Letter
<1>1. ASSUME NEW i \in 1 .. L
      PROVE  /\ a[i] = a[i - 1] + letterValue(name[i])
             /\ \E x, y \in 0 .. 9 : /\ v[i] = v[i - 1] + x /\ c[i] = c[i - 1] + y
                                    /\ letterValue(name[i]) = x + y
             /\ letterValue(name[i]) \in 0 .. 9
  <2> DEFINE l == name[i]
             n == letterValue(l)
  <2>1. n \in 0 .. 9 /\ (l \notin Letter => n = 0)
    BY LettersOf
  <2>2. /\ a[i] = a[i - 1] + (IF l \in Letter THEN n ELSE 0)
        /\ v[i] = v[i - 1] + (IF l \in Vowel THEN n ELSE 0)
        /\ c[i] = c[i - 1] + (IF l \in Letter \ Vowel THEN n ELSE 0)
    BY TotalIs DEF Kept
  <2> HIDE DEF l, n, a, v, c
  <2>3. (IF l \in Letter THEN n ELSE 0) = n
    BY <2>1
  <2>4. (IF l \in Vowel THEN n ELSE 0) + (IF l \in Letter \ Vowel THEN n ELSE 0) = n
    BY <1>0, <2>1
  <2>5. (IF l \in Vowel THEN n ELSE 0) \in 0 .. 9 /\ (IF l \in Letter \ Vowel THEN n ELSE 0) \in 0 .. 9
    BY <2>1
  <2> QED
    BY <2>1, <2>2, <2>3, <2>4, <2>5 DEF l, n
<1>2. a[0] = 0 /\ v[0] = 0 /\ c[0] = 0
  BY TotalIs
<1> HIDE DEF a, v, c, L
<1>3. ASSUME NEW k \in Nat, \A m \in Nat : m < k => m \in T PROVE k \in T
  <2>1. CASE k = 0
    BY <1>2, <2>1
  <2>2. CASE k # 0 /\ k <= L
    <3>1. k - 1 \in T /\ k - 1 \in Nat /\ k - 1 <= L /\ k \in 1 .. L
      BY <1>0, <1>3, <2>2
    <3>2. PICK x \in 0 .. 9, y \in 0 .. 9 :
                 /\ v[k] = v[k - 1] + x /\ c[k] = c[k - 1] + y /\ letterValue(name[k]) = x + y
      BY <1>1, <3>1
    <3>3. a[k] = a[k - 1] + letterValue(name[k]) /\ letterValue(name[k]) \in 0 .. 9
      BY <1>1, <3>1
    <3>4. /\ a[k - 1] \in Nat /\ v[k - 1] \in Nat /\ c[k - 1] \in Nat /\ a[k - 1] = v[k - 1] + c[k - 1]
          /\ a[k - 1] = 0 <=> \A i \in 1 .. k - 1 : letterValue(name[i]) = 0
      BY <3>1
    <3>5. /\ a[k] \in Nat /\ v[k] \in Nat /\ c[k] \in Nat /\ a[k] = v[k] + c[k]
          /\ a[k] = 0 <=> a[k - 1] = 0 /\ letterValue(name[k]) = 0
      <4> DEFINE p == a[k - 1]
                 l == letterValue(name[k])
      <4>1. p \in Nat /\ v[k - 1] \in Nat /\ c[k - 1] \in Nat /\ p = v[k - 1] + c[k - 1]
        BY <3>4
      <4>2. a[k] = p + l /\ l \in 0 .. 9
        BY <3>3
      <4>3. v[k] = v[k - 1] + x /\ c[k] = c[k - 1] + y /\ l = x + y
        BY <3>2
      <4> HIDE DEF p, l, T
      <4>4. a[k] \in Nat /\ v[k] \in Nat /\ c[k] \in Nat /\ a[k] = v[k] + c[k]
        BY <4>1, <4>2, <4>3
      <4>5. a[k] = 0 <=> p = 0 /\ l = 0
        BY <4>1, <4>2
      <4> QED
        BY <4>4, <4>5 DEF p, l
    <3>6. \A i : i \in 1 .. k <=> i \in 1 .. k - 1 \/ i = k
      BY <2>2
    <3>7. a[k] = 0 <=> \A i \in 1 .. k : letterValue(name[i]) = 0
      BY <3>4, <3>5, <3>6, Zenon
    <3> QED
      BY <3>5, <3>7
  <2>3. CASE ~ (k <= L)
    BY <2>3
  <2> QED
    BY <2>1, <2>2, <2>3
<1>4. \A k \in Nat : k \in T
  <2> HIDE DEF T
  <2> QED
    BY <1>3, NumbersBelow
<1>5. L \in T
  BY <1>0, <1>4
<1>6. /\ sumLetters(name, Letter) = a[L] /\ sumLetters(name, Vowel) = v[L]
      /\ sumLetters(name, Letter \ Vowel) = c[L]
  BY TotalIs DEF a, v, c, L
<1>7. L <= L
  BY <1>0
<1> QED
  BY <1>5, <1>6, <1>7 DEF L

\* Of finitely many counts one is the largest.
LEMMA OneOccursMost ==
  ASSUME NEW o, \A a \in 1 .. 9 : o[a] \in Nat
  PROVE  \E a \in 1 .. 9 : \A b \in 1 .. 9 : o[b] <= o[a]
<1> DEFINE T == {k \in Nat : k \in 1 .. 9 => \E a \in 1 .. k : \A b \in 1 .. k : o[b] <= o[a]}
<1>1. ASSUME NEW k \in Nat, \A m \in Nat : m < k => m \in T PROVE k \in T
  <2> SUFFICES ASSUME k \in 1 .. 9 PROVE \E a \in 1 .. k : \A b \in 1 .. k : o[b] <= o[a]
    OBVIOUS
  <2>1. CASE k = 1
    <3>1. o[1] <= o[1] /\ \A b \in 1 .. k : b = 1
      BY <2>1
    <3> QED
      BY <2>1, <3>1
  <2>2. CASE k # 1
    <3>1. k - 1 \in 1 .. 9 /\ k - 1 \in Nat /\ k - 1 < k
      BY <2>2
    <3>2. PICK a \in 1 .. k - 1 : \A b \in 1 .. k - 1 : o[b] <= o[a]
      BY <1>1, <3>1
    <3>3. o[k] \in Nat /\ a \in 1 .. k /\ k \in 1 .. k /\ \A b \in 1 .. k : o[b] \in Nat /\ (b = k \/ b \in 1 .. k - 1)
      BY <3>1
    <3>4. CASE o[k] <= o[a]
      BY <3>2, <3>3, <3>4
    <3>5. CASE o[a] < o[k]
      BY <3>2, <3>3, <3>5
    <3> QED
      BY <3>3, <3>4, <3>5
  <2> QED
    BY <2>1, <2>2
<1> HIDE DEF T
<1>2. 9 \in T
  BY <1>1, NumbersBelow
<1> QED
  BY <1>2 DEF T

\* The strongest digit of a name is in it, and there is one if a letter counts.
LEMMA PassionIs ==
  ASSUME NEW name \in Name
  PROVE  /\ HiddenPassion(name) \notin KarmicLessons(name)
         /\ HiddenPassion(name) = 0 <=> \A i \in 1 .. Len(name) : letterValue(name[i]) = 0
<1> DEFINE o == [a \in 1 .. 9 |-> Occurs(name, a)]
           most == {a \in 1 .. 9 : \A b \in 1 .. 9 : Occurs(name, b) <= Occurs(name, a)}
<1>1. ASSUME NEW a \in 1 .. 9
      PROVE  /\ Occurs(name, a) \in Nat
             /\ Occurs(name, a) = 0 <=> \A i \in 1 .. Len(name) : letterValue(name[i]) # a
  <2> DEFINE S == {i \in DOMAIN name : letterValue(name[i]) = a}
  <2>1. Len(name) \in Nat /\ DOMAIN name = 1 .. Len(name)
    BY LettersOf
  <2>2. IsFiniteSet(1 .. Len(name)) /\ S \subseteq 1 .. Len(name)
    BY <2>1, FS_Interval
  <2>3. IsFiniteSet(S) /\ Cardinality(S) \in Nat
    <3> HIDE DEF S
    <3> QED
      BY <2>2, FS_Subset, FS_CardinalityType
  <2>4. Cardinality(S) = 0 <=> S = {}
    <3> HIDE DEF S
    <3> QED
      BY <2>3, FS_EmptySet
  <2>5. Occurs(name, a) = Cardinality(S)
    BY DEF Occurs
  <2> QED
    BY <2>1, <2>3, <2>4, <2>5
<1>2. PICK top \in 1 .. 9 : \A b \in 1 .. 9 : o[b] <= o[top]
  <2>1. \A a \in 1 .. 9 : o[a] \in Nat
    BY <1>1
  <2> HIDE DEF o
  <2> QED
    BY <2>1, OneOccursMost
<1>3. most \subseteq Nat /\ top \in most
  BY <1>2
<1>4. PICK first \in most : \A b \in most : first <= b
  <2> HIDE DEF most
  <2> QED
    BY <1>3, LeastNumber
<1> DEFINE passion == CHOOSE a \in most : \A b \in most : a <= b
<1>5. passion \in most
  BY <1>4
<1>6. HiddenPassion(name) = IF KarmicLessons(name) = 1 .. 9 THEN 0 ELSE passion
  BY Zenon DEF HiddenPassion
<1> HIDE DEF passion
<1>7. passion \in 1 .. 9 /\ \A b \in 1 .. 9 : Occurs(name, b) <= Occurs(name, passion)
  BY <1>5
<1>8. KarmicLessons(name) = {digit \in 1 .. 9 : Occurs(name, digit) = 0}
  BY DEF KarmicLessons
<1>9. KarmicLessons(name) = 1 .. 9 <=> \A i \in 1 .. Len(name) : letterValue(name[i]) = 0
  <2>1. KarmicLessons(name) = 1 .. 9 <=> \A a \in 1 .. 9 : Occurs(name, a) = 0
    BY <1>8
  <2>2. (\A a \in 1 .. 9 : Occurs(name, a) = 0)
          <=> \A i \in 1 .. Len(name) : \A a \in 1 .. 9 : letterValue(name[i]) # a
    BY <1>1
  <2>3. \A i \in 1 .. Len(name) : letterValue(name[i]) = 0 <=> \A a \in 1 .. 9 : letterValue(name[i]) # a
    BY LettersOf
  <2> QED
    BY <2>1, <2>2, <2>3
<1>10. CASE KarmicLessons(name) = 1 .. 9
  BY <1>6, <1>9, <1>10
<1>11. CASE KarmicLessons(name) # 1 .. 9
  <2>1. PICK a \in 1 .. 9 : Occurs(name, a) # 0
    BY <1>8, <1>11
  <2>2. Occurs(name, passion) # 0
    <3>1. Occurs(name, a) \in Nat /\ Occurs(name, passion) \in Nat
      BY <1>1, <1>7, Zenon
    <3>2. Occurs(name, a) <= Occurs(name, passion)
      BY <1>7, Zenon
    <3> QED
      BY <2>1, <3>1, <3>2
  <2>3. HiddenPassion(name) = passion
    BY <1>6, <1>11
  <2> QED
    BY <1>7, <1>8, <1>9, <1>11, <2>2, <2>3
<1> QED
  BY <1>10, <1>11

\* The numbers of a profile add up.
LEMMA NumbersOfProfile ==
  ASSUME NEW birth \in Date, NEW name \in Name, NEW date \in Date
  PROVE  /\ Root(LifePath(birth).value) = Root(birth.y + birth.m + birth.d)
         /\ Root(Expression(name).value) = Root(SoulUrge(name).raw + Personality(name).raw)
         /\ Root(PersonalDay(birth, date).value)
              = Root(birth.m + birth.d + date.y + date.m + date.d)
         /\ HiddenPassion(name) \notin KarmicLessons(name)
         /\ (HiddenPassion(name) = 0) = (Expression(name).value = 0)
<1>1. Root(LifePath(birth).value) = Root(birth.y + birth.m + birth.d)
  <2>1. /\ birth.y + birth.m + birth.d \in Nat /\ birth.y + birth.m + birth.d # 0
    BY DEF Date
  <2>2. OneDigitOrMaster \subseteq Nat
    BY DEF OneDigitOrMaster
  <2>3. LifePath(birth).value \in Nat /\ LifePath(birth).value # 0
    BY <2>2, PathOfDate
  <2> QED
    BY <2>1, <2>3, PathOfDate, OneRoot
<1>2. Root(Expression(name).value) = Root(SoulUrge(name).raw + Personality(name).raw)
  <2> DEFINE s == sumLetters(name, Letter)
  <2>1. /\ s \in Nat /\ Magnitude(s) = s
        /\ SoulUrge(name).raw + Personality(name).raw = s
    <3> DEFINE v == sumLetters(name, Vowel)
               c == sumLetters(name, Letter \ Vowel)
    <3>1. s \in Nat /\ v \in Nat /\ c \in Nat /\ s = v + c
      BY TotalsAddUp
    <3>2. SoulUrge(name) = Number(v) /\ Personality(name) = Number(c)
      BY DEF SoulUrge, Personality
    <3> HIDE DEF s, v, c
    <3>3. Magnitude(s) = s /\ Magnitude(v) = v /\ Magnitude(c) = c
      BY <3>1 DEF Magnitude
    <3>4. Number(v).raw = v /\ Number(c).raw = c
      BY <3>1, <3>3, NumberIs
    <3> QED
      BY <3>1, <3>2, <3>3, <3>4
  <2>2. Expression(name).value = Number(s).value
    BY DEF Expression
  <2> HIDE DEF s
  <2>3. Number(s).value \in Nat /\ Alike(Number(s).value, s) /\ (Number(s).value = 0 <=> s = 0)
    BY <2>1, NumberIs
  <2> QED
    BY <2>1, <2>2, <2>3, OneRoot
<1>3. HiddenPassion(name) = 0 <=> Expression(name).value = 0
  <2> DEFINE s == sumLetters(name, Letter)
  <2>1. s \in Nat /\ (s = 0 <=> \A i \in 1 .. Len(name) : letterValue(name[i]) = 0)
    BY TotalsAddUp
  <2>2. Expression(name).value = Number(s).value
    BY DEF Expression
  <2> HIDE DEF s
  <2>3. Number(s).value = 0 <=> s = 0
    BY <2>1, NumberIs
  <2> QED
    BY <2>1, <2>2, <2>3, PassionIs
<1> QED
  BY <1>1, <1>2, <1>3, PersonalDayAddsUp, PassionIs

-----------------------------------------------------------------------------
(* Cycles and scores *)

\* The first cycle ends between 27 and 35.
LEMMA FirstEndIs == ASSUME NEW birth \in Date PROVE FirstEnd(birth) \in 27 .. 35
<1> DEFINE final == reduceFinal(LifePath(birth).value)
<1>1. LifePath(birth).value \in Nat /\ LifePath(birth).value # 0
  BY PathOfDate DEF OneDigitOrMaster
<1>2. final \in 1 .. 9
  <2> HIDE DEF final
  <2> QED
    BY <1>1, FinalIs DEF final
<1>3. FirstEnd(birth) = IF 36 - final < 27 THEN 27 ELSE 36 - final
  BY DEF FirstEnd
<1> HIDE DEF final
<1> QED
  BY <1>2, <1>3

\* The cycle of an age.
CycleOf(end, age) ==
  IF age <= end THEN 1 ELSE IF age <= end + 9 THEN 2 ELSE IF age <= end + 18 THEN 3 ELSE 4

LEMMA OneActive ==
  ASSUME NEW birth \in Date, NEW date \in Date
  PROVE  /\ AgeAt(birth, date) \in Nat
         /\ Active(birth, date) = {CycleOf(FirstEnd(birth), AgeAt(birth, date))}
         /\ CycleOf(FirstEnd(birth), AgeAt(birth, date)) \in 1 .. 4
<1> DEFINE end == FirstEnd(birth)
           age == AgeAt(birth, date)
<1>1. end \in 27 .. 35
  BY FirstEndIs
<1>2. age \in Nat
  BY DEF AgeAt, Date
<1>3. ASSUME NEW i \in 1 .. 4
      PROVE  ageInRange(age, StartAge(birth, i), EndAge(birth, i)) <=> i = CycleOf(end, age)
  <2>1. /\ StartAge(birth, i) = IF i = 1 THEN 0 ELSE end + 9 * (i - 2) + 1
        /\ EndAge(birth, i) = IF i = 4 THEN -1 ELSE end + 9 * (i - 1)
    BY DEF StartAge, EndAge
  <2> HIDE DEF end, age
  <2> QED
    BY <1>1, <1>2, <2>1 DEF ageInRange, CycleOf
<1>4. CycleOf(end, age) \in 1 .. 4
  BY DEF CycleOf
<1> QED
  BY <1>2, <1>3, <1>4 DEF Active

\* The digits of two numbers are scored alike from either side.
LEMMA ScoreIs ==
  ASSUME NEW v \in OneDigitOrMaster, NEW w \in OneDigitOrMaster
  PROVE  compatScore(v, w) = compatScore(w, v) /\ compatScore(v, w) \in 50 .. 90
<1> DEFINE a == DigitSum[v]
           b == DigitSum[w]
           low == IF a <= b THEN a ELSE b
           high == IF a <= b THEN b ELSE a
           low2 == IF b <= a THEN b ELSE a
           high2 == IF b <= a THEN a ELSE b
<1>1. a \in 0 .. 9 /\ b \in 0 .. 9
  BY DigitsOfMasters
<1>2. /\ compatScore(v, w) = IF low = 0 THEN 60 ELSE classicCompat[low][high - low + 1]
      /\ compatScore(w, v) = IF low2 = 0 THEN 60 ELSE classicCompat[low2][high2 - low2 + 1]
  BY Zenon DEF compatScore
<1> HIDE DEF a, b
<1>3. low = low2 /\ high = high2 /\ low \in 0 .. 9 /\ high \in low .. 9
  BY <1>1
<1>4. ASSUME NEW l \in 1 .. 9, NEW h \in 1 .. 9, h <= 10 - l PROVE classicCompat[l][h] \in 50 .. 90
  <2>1. CASE l = 1
    BY <1>4, <2>1 DEF classicCompat
  <2>2. CASE l = 2
    BY <1>4, <2>2 DEF classicCompat
  <2>3. CASE l = 3
    BY <1>4, <2>3 DEF classicCompat
  <2>4. CASE l = 4
    BY <1>4, <2>4 DEF classicCompat
  <2>5. CASE l = 5
    BY <1>4, <2>5 DEF classicCompat
  <2>6. CASE l = 6
    BY <1>4, <2>6 DEF classicCompat
  <2>7. CASE l = 7
    BY <1>4, <2>7 DEF classicCompat
  <2>8. CASE l = 8
    BY <1>4, <2>8 DEF classicCompat
  <2>9. CASE l = 9
    BY <1>4, <2>9 DEF classicCompat
  <2> QED
    BY <2>1, <2>2, <2>3, <2>4, <2>5, <2>6, <2>7, <2>8, <2>9
<1> HIDE DEF low, high, low2, high2
<1>5. low # 0 => classicCompat[low][high - low + 1] \in 50 .. 90
  <2> SUFFICES ASSUME low # 0 PROVE classicCompat[low][high - low + 1] \in 50 .. 90
    OBVIOUS
  <2>1. low \in 1 .. 9 /\ high - low + 1 \in 1 .. 9 /\ high - low + 1 <= 10 - low
    BY <1>3
  <2> QED
    BY <1>4, <2>1
<1>6. compatScore(v, w) = compatScore(w, v)
  <2>1. low = low2 /\ high = high2
    BY <1>3
  <2>2. high - low + 1 = high2 - low2 + 1
    BY <2>1
  <2> QED
    BY <1>2, <2>1, <2>2
<1>7. compatScore(v, w) \in 50 .. 90
  <2>1. CASE low = 0
    BY <1>2, <2>1
  <2>2. CASE low # 0
    <3>1. compatScore(v, w) = classicCompat[low][high - low + 1]
      BY <1>2, <2>2, Zenon
    <3> QED
      BY <1>5, <2>2, <3>1, Zenon
  <2> QED
    BY <2>1, <2>2
<1> QED
  BY <1>6, <1>7

\* And so are two people.
LEMMA ScoresAreMutual ==
  ASSUME NEW a \in Date, NEW m \in Name, NEW b \in Date, NEW n \in Name
  PROVE  /\ Compatibility(a, m, b, n) = Compatibility(b, n, a, m)
         /\ Compatibility(a, m, b, n) \in 50 .. 90
<1> DEFINE life == compatScore(LifePath(a).value, LifePath(b).value)
           expr == compatScore(Expression(m).value, Expression(n).value)
           soul == compatScore(SoulUrge(m).value, SoulUrge(n).value)
<1>1. ASSUME NEW d \in Date PROVE LifePath(d).value \in OneDigitOrMaster
  BY PathOfDate
<1>2. ASSUME NEW name \in Name
      PROVE  Expression(name).value \in OneDigitOrMaster /\ SoulUrge(name).value \in OneDigitOrMaster
  <2>1. sumLetters(name, Letter) \in Int /\ sumLetters(name, Vowel) \in Int
    BY TotalsAddUp
  <2> QED
    BY <2>1, NumberIs DEF Expression, SoulUrge
<1>3. /\ life = compatScore(LifePath(b).value, LifePath(a).value) /\ life \in 50 .. 90
      /\ expr = compatScore(Expression(n).value, Expression(m).value) /\ expr \in 50 .. 90
      /\ soul = compatScore(SoulUrge(n).value, SoulUrge(m).value) /\ soul \in 50 .. 90
  BY <1>1, <1>2, ScoreIs
<1>4. Compatibility(a, m, b, n) = (life * 50 + expr * 30 + soul * 20) \div 100
  BY Zenon DEF Compatibility
<1>5. Compatibility(b, n, a, m)
        = (compatScore(LifePath(b).value, LifePath(a).value) * 50
             + compatScore(Expression(n).value, Expression(m).value) * 30
             + compatScore(SoulUrge(n).value, SoulUrge(m).value) * 20) \div 100
  BY Zenon DEF Compatibility
<1>6. Compatibility(a, m, b, n) = Compatibility(b, n, a, m)
  <2> HIDE DEF life, expr, soul
  <2> QED
    BY <1>3, <1>4, <1>5, Zenon
<1>7. (life * 50 + expr * 30 + soul * 20) \div 100 \in 50 .. 90
  <2> DEFINE sum == life * 50 + expr * 30 + soul * 20
  <2>1. life \in 50 .. 90 /\ expr \in 50 .. 90 /\ soul \in 50 .. 90
    BY <1>3
  <2>2. sum \in Int /\ sum >= 5000 /\ sum <= 9000
    <3> HIDE DEF life, expr, soul
    <3> QED
      BY <2>1
  <2> HIDE DEF sum
  <2>3. sum \div 100 >= 50 /\ sum \div 100 <= 90 /\ sum \div 100 \in Int
    BY <2>2
  <2> QED
    BY <2>3 DEF sum
<1> QED
  BY <1>4, <1>6, <1>7

-----------------------------------------------------------------------------
(* Numerology *)

\* What an account asks with, and the date, are of the calendar.
NumInv ==
  Asked => /\ born \in BirthDate /\ fullName \in FullName
           /\ now \in [y : FirstYear .. LastYear, m : Month, d : Day]

LEMMA DatesAre ==
  /\ BirthDate \subseteq Date /\ FullName \subseteq Name
  /\ [y : FirstYear .. LastYear, m : Month, d : Day] \subseteq Date
<1>1. BirthDate \subseteq Date /\ FullName \subseteq Name
  BY NumerologyAssumption, Zenon DEF Date, Name
<1>2. ASSUME NEW y \in FirstYear .. LastYear, NEW m \in Month, NEW d \in Day
      PROVE  y \in Nat /\ m \in 1 .. 12 /\ d \in 1 .. 31
  BY NumerologyAssumption
<1>3. [y : FirstYear .. LastYear, m : Month, d : Day] \subseteq Date
  BY <1>2 DEF Date
<1> QED
  BY <1>1, <1>3

\* Then the account's numbers hold.
LEMMA NumbersOfAccount == NumInv => NumbersAddUp /\ OneCycleIsActive /\ ScoreIsMutual
<1> SUFFICES ASSUME NumInv, Asked PROVE NumbersAddUp /\ OneCycleIsActive /\ ScoreIsMutual
  BY Zenon DEF NumbersAddUp, OneCycleIsActive, ScoreIsMutual
<1>1. born \in Date /\ fullName \in Name /\ now \in Date
  BY DatesAre DEF NumInv
<1>2. NumbersAddUp
  BY <1>1, NumbersOfProfile DEF NumbersAddUp
<1>3. OneCycleIsActive
  <2> DEFINE i == CycleOf(FirstEnd(born), AgeAt(born, now))
  <2>1. Active(born, now) = {i}
    BY <1>1, OneActive
  <2>2. Cardinality({i}) = 1
    BY FS_Singleton
  <2> QED
    BY <1>1, <2>1, <2>2, FirstEndIs DEF OneCycleIsActive
<1>4. ScoreIsMutual
  <2> SUFFICES ASSUME NEW other \in (BirthDate \X {fullName}) \cup ({born} \X FullName)
               PROVE  LET score == Compatibility(born, fullName, other[1], other[2]) IN
                      /\ score = Compatibility(other[1], other[2], born, fullName)
                      /\ score \in 50 .. 90
    BY Zenon DEF ScoreIsMutual
  <2>1. other[1] \in Date /\ other[2] \in Name
    BY <1>1, NumerologyAssumption DEF Date, Name
  <2> QED
    BY <1>1, <2>1, ScoresAreMutual
<1> QED
  BY <1>2, <1>3, <1>4

\* The next date: it follows, and none that the clock shows lies between.
LEMMA NextDate ==
  ASSUME NumInv, DatePasses
  PROVE  /\ now' \in [y : FirstYear .. LastYear, m : Month, d : Day]
         /\ now'.y \in {now.y, now.y + 1} /\ (now'.y = now.y => Before(now, now'))
         /\ now'.y = now.y + 1 => ~ Before(now, now')
<1> DEFINE later == {date \in [y : {now.y, now.y + 1}, m : Month, d : Day] :
                       date.y > now.y \/ Before(now, date)}
           year == [y |-> now.y + 1, m |-> now.m, d |-> now.d]
           place(date) == 500 * date.y + 40 * date.m + date.d
           T == {place(date) : date \in later}
<1>1. Asked /\ now.y < LastYear /\ now \in [y : FirstYear .. LastYear, m : Month, d : Day]
  BY DEF NumInv, DatePasses
<1>2. Month \subseteq 1 .. 12 /\ Day \subseteq 1 .. 31 /\ FirstYear \in Nat /\ LastYear \in Nat
  BY NumerologyAssumption
<1>3. year \in later
  BY <1>1
<1>4. ASSUME NEW date \in later
      PROVE  /\ date.y \in {now.y, now.y + 1} /\ date.y \in Nat
             /\ date.m \in 1 .. 12 /\ date.d \in 1 .. 31
             /\ date \in [y : FirstYear .. LastYear, m : Month, d : Day]
             /\ date.y > now.y \/ Before(now, date)
  <2>1. date.y \in {now.y, now.y + 1} /\ date.m \in Month /\ date.d \in Day
    OBVIOUS
  <2>2. now.y \in FirstYear .. LastYear - 1
    BY <1>1, <1>2
  <2>3. {now.y, now.y + 1} \subseteq FirstYear .. LastYear
    BY <1>2, <2>2
  <2>4. date \in [y : FirstYear .. LastYear, m : Month, d : Day]
    BY <2>3
  <2>5. date.y > now.y \/ Before(now, date)
    OBVIOUS
  <2>6. date.m \in 1 .. 12 /\ date.d \in 1 .. 31
    BY <1>2, <2>1, Zenon
  <2>7. date.y \in Nat
    <3>1. date.y \in FirstYear .. LastYear
      BY <2>1, <2>3, Zenon
    <3> QED
      BY <1>2, <3>1
  <2> QED
    BY <2>1, <2>4, <2>5, <2>6, <2>7, Zenon
<1> HIDE DEF later
<1>5. PICK first \in later : \A other \in later : place(first) <= place(other)
  <2>1. T \subseteq Nat
    BY <1>4
  <2>2. T # {}
    BY <1>3
  <2>3. PICK x \in T : \A y \in T : x <= y
    <3> HIDE DEF T
    <3> QED
      BY <2>1, <2>2, LeastNumber
  <2> QED
    BY <2>3
<1>6. ASSUME NEW other \in later
      PROVE  first.y < other.y \/ (first.y = other.y /\ ~ Before(other, first))
  <2>1. 500 * first.y + 40 * first.m + first.d <= 500 * other.y + 40 * other.m + other.d
    BY <1>5
  <2>2. /\ first.y \in Nat /\ first.m \in 1 .. 12 /\ first.d \in 1 .. 31
        /\ other.y \in Nat /\ other.m \in 1 .. 12 /\ other.d \in 1 .. 31
    BY <1>4
  <2> DEFINE y1 == first.y
             m1 == first.m
             d1 == first.d
             y2 == other.y
             m2 == other.m
             d2 == other.d
  <2>3. /\ 500 * y1 + 40 * m1 + d1 <= 500 * y2 + 40 * m2 + d2
        /\ y1 \in Nat /\ m1 \in 1 .. 12 /\ d1 \in 1 .. 31
        /\ y2 \in Nat /\ m2 \in 1 .. 12 /\ d2 \in 1 .. 31
    BY <2>1, <2>2, Zenon
  <2>4. y1 < y2 \/ (y1 = y2 /\ ~ (m2 < m1 \/ (m2 = m1 /\ d2 < d1)))
    <3> HIDE DEF y1, m1, d1, y2, m2, d2, place
    <3> QED
      BY <2>3
  <2> QED
    BY <2>4, Zenon DEF Before
<1>7. now' = CHOOSE date \in later : \A other \in later :
               date.y < other.y \/ (date.y = other.y /\ ~ Before(other, date))
  BY Zenon DEF DatePasses, later
<1>8. now' \in later /\ \A other \in later :
               now'.y < other.y \/ (now'.y = other.y /\ ~ Before(other, now'))
  BY <1>5, <1>6, <1>7
<1>9. now'.y = now.y + 1 => ~ Before(year, now')
  BY <1>1, <1>3, <1>4, <1>8
<1>10. Before(year, now') <=> Before(now, now')
  BY DEF Before
<1> QED
  BY <1>1, <1>4, <1>8, <1>9, <1>10

\* So the invariant is kept.
LEMMA NumStep == NumInv /\ [NumerologyNext]_numerologyVars => NumInv'
<1> SUFFICES ASSUME NumInv, [NumerologyNext]_numerologyVars PROVE NumInv'
  OBVIOUS
<1>1. ASSUME NEW date \in BirthDate, NEW name \in FullName,
             NEW today \in [y : FirstYear .. LastYear, m : Month, d : Day],
             AskNumbers(date, name, today)
      PROVE  NumInv'
  BY <1>1 DEF AskNumbers, NumInv
<1>2. CASE DatePasses
  <2>1. Asked /\ born' = born /\ fullName' = fullName
    BY <1>2 DEF DatePasses
  <2> QED
    BY <1>2, <2>1, NextDate DEF NumInv
<1>3. CASE UNCHANGED numerologyVars
  BY <1>3 DEF numerologyVars, NumInv, Asked
<1> QED
  BY <1>1, <1>2, <1>3 DEF NumerologyNext

\* An age goes up by one at most, on a birthday or after one the clock did not show.
LEMMA AgeGoesOn ==
  ASSUME NumInv, DatePasses, born' = born
  PROVE  /\ AgeAt(born, now') \in {AgeAt(born, now), AgeAt(born, now) + 1}
         /\ AgeAt(born, now') # AgeAt(born, now) =>
              \E y \in {now.y, now'.y} : /\ y > now.y \/ Before(now, born)
                                         /\ y < now'.y \/ ~ Before(now', born)
<1>1. born \in Date /\ now \in Date /\ now' \in Date
  BY NextDate, DatesAre DEF NumInv, DatePasses
<1>2. /\ now'.y \in {now.y, now.y + 1} /\ (now'.y = now.y => Before(now, now'))
      /\ now'.y = now.y + 1 => ~ Before(now, now')
  BY NextDate
<1>3. /\ now.y \in Nat /\ now.m \in 1 .. 12 /\ now.d \in 1 .. 31
      /\ now'.y \in Nat /\ now'.m \in 1 .. 12 /\ now'.d \in 1 .. 31
      /\ born.y \in Nat /\ born.m \in 1 .. 12 /\ born.d \in 1 .. 31
  BY <1>1 DEF Date
<1> DEFINE b == IF Before(now, born) THEN 1 ELSE 0
           c == IF Before(now', born) THEN 1 ELSE 0
<1>4. /\ now'.y = now.y => c <= b
      /\ now'.y = now.y + 1 => b <= c
  <2>1. /\ now'.y = now.y => (Before(now', born) => Before(now, born))
        /\ now'.y = now.y + 1 => (Before(now, born) => Before(now', born))
    BY <1>2, <1>3 DEF Before
  <2> QED
    BY <2>1
<1>5. /\ AgeAt(born, now) = IF now.y - born.y - b < 0 THEN 0 ELSE now.y - born.y - b
      /\ AgeAt(born, now') = IF now'.y - born.y - c < 0 THEN 0 ELSE now'.y - born.y - c
  BY DEF AgeAt
<1>6. b \in {0, 1} /\ c \in {0, 1} /\ (b = 1 <=> Before(now, born)) /\ (c = 1 <=> Before(now', born))
  OBVIOUS
<1> HIDE DEF b, c
<1>7. AgeAt(born, now') \in {AgeAt(born, now), AgeAt(born, now) + 1}
  BY <1>2, <1>3, <1>4, <1>5, <1>6
<1>8. ASSUME AgeAt(born, now') # AgeAt(born, now)
      PROVE  \/ now'.y = now.y /\ b = 1 /\ c = 0
             \/ now'.y = now.y + 1 /\ b = c
  BY <1>2, <1>3, <1>4, <1>5, <1>6, <1>8
<1>9. ASSUME AgeAt(born, now') # AgeAt(born, now)
      PROVE  \E y \in {now.y, now'.y} : /\ y > now.y \/ Before(now, born)
                                        /\ y < now'.y \/ ~ Before(now', born)
  BY <1>3, <1>6, <1>8, <1>9
<1> QED
  BY <1>7, <1>9

\* The active cycle turns to the next.
LEMMA NumTurn == NumInv /\ [NumerologyNext]_numerologyVars => CycleTurn
<1> SUFFICES ASSUME NumInv, [NumerologyNext]_numerologyVars, Asked,
                    Active(born, now)' # Active(born, now)
             PROVE  /\ \E i \in 1 .. 3 : Active(born, now) = {i} /\ Active(born, now)' = {i + 1}
                    /\ \E y \in {now.y, now'.y} : /\ y > now.y \/ Before(now, born)
                                                  /\ y < now'.y \/ ~ Before(now', born)
  BY Zenon DEF CycleTurn
<1>1. CASE DatePasses
  <2>1. born' = born
    BY <1>1 DEF DatePasses
  <2>2. born \in Date /\ now \in Date /\ now' \in Date
    BY <1>1, NextDate, DatesAre DEF NumInv, DatePasses
  <2> DEFINE end == FirstEnd(born)
             age == AgeAt(born, now)
             next == AgeAt(born, now')
  <2>3. /\ Active(born, now) = {CycleOf(end, age)} /\ age \in Nat
        /\ Active(born, now') = {CycleOf(end, next)} /\ next \in Nat
    BY <2>2, OneActive
  <2>4. Active(born, now)' = Active(born, now')
    BY <2>1 DEF Active, AgeAt, StartAge, EndAge, FirstEnd, LifePath, Parts
  <2>5. end \in 27 .. 35 /\ next \in {age, age + 1}
    BY <1>1, <2>1, <2>2, FirstEndIs, AgeGoesOn
  <2>6. CycleOf(end, age) # CycleOf(end, next)
    BY <2>3, <2>4
  <2>7. age # next
    BY <2>6
  <2>8. CycleOf(end, age) \in 1 .. 3 /\ CycleOf(end, next) = CycleOf(end, age) + 1
    <3> HIDE DEF end, age, next
    <3> QED
      BY <2>3, <2>5, <2>6 DEF CycleOf
  <2> QED
    BY <1>1, <2>1, <2>3, <2>4, <2>7, <2>8, AgeGoesOn
<1>2. CASE \E date \in BirthDate, name \in FullName,
              today \in [y : FirstYear .. LastYear, m : Month, d : Day] :
                AskNumbers(date, name, today)
  BY <1>2 DEF AskNumbers
<1>3. CASE UNCHANGED numerologyVars
  <2>1. born' = born /\ now' = now
    BY <1>3 DEF numerologyVars
  <2>2. Active(born, now)' = Active(born, now)
    BY <2>1 DEF Active, AgeAt, StartAge, EndAge, FirstEnd, LifePath, Parts
  <2> QED
    BY <2>2
<1> QED
  BY <1>1, <1>2, <1>3 DEF NumerologyNext

-----------------------------------------------------------------------------
(* The Pythagoras square *)

Digit == 0 .. 9

\* The digits of a number are a sequence of digits.
LEMMA DigitsOfIs == \A n \in Nat : digitsOf[n] \in Seq(Digit)
<1> DEFINE V == Seq(Digit)
           B == {0}
           b == [n \in {0} |-> <<>>]
           d == [n \in Nat |-> n \div 10]
           c == [p \in Nat \X Seq(Digit) |-> Append(p[2], p[1] % 10)]
           W(f) == [n \in Nat |-> IF n = 0 THEN <<>> ELSE Append(f[n \div 10], n % 10)]
<1>0. \A n \in Nat : /\ n \div 10 \in Nat /\ n % 10 \in Digit
                     /\ n # 0 => n \div 10 < n
  BY LastDigit DEF Digit
<1>1. GoesBack(V, B, b, d, c)
  <2>1. \A n \in B : b[n] \in V
    OBVIOUS
  <2>2. \A n \in Nat : n \notin B => d[n] \in Nat /\ d[n] < n
    BY <1>0
  <2>3. ASSUME NEW n \in Nat, NEW v \in V PROVE c[<<n, v>>] \in V
    <3>1. c[<<n, v>>] = Append(v, n % 10)
      OBVIOUS
    <3> QED
      BY <1>0, <3>1
  <2> HIDE DEF V, B, b, d, c
  <2> QED
    BY <2>1, <2>2, <2>3 DEF GoesBack
<1>2. PICK f : Defines(f, V, B, b, d, c)
  <2> HIDE DEF V, B, b, d, c
  <2> QED
    BY <1>1, RecursionOnNumbers
<1>3. f = W(f)
  <2>1. f \in [Nat -> Seq(Digit)]
    BY <1>2 DEF Defines
  <2>2. ASSUME NEW n \in Nat PROVE f[n] = W(f)[n]
    <3>1. f[n] = IF n \in B THEN b[n] ELSE c[<<n, f[d[n]]>>]
      <4> HIDE DEF V, B, b, d, c
      <4> QED
        BY <1>2 DEF Defines
    <3>2. d[n] = n \div 10 /\ f[n \div 10] \in Seq(Digit)
      BY <1>0, <2>1
    <3>3. c[<<n, f[d[n]]>>] = Append(f[n \div 10], n % 10)
      BY <3>2
    <3>4. n = 0 => b[n] = <<>>
      OBVIOUS
    <3>5. W(f)[n] = IF n = 0 THEN <<>> ELSE Append(f[n \div 10], n % 10)
      OBVIOUS
    <3>6. n \in B <=> n = 0
      OBVIOUS
    <3> HIDE DEF W, B, b, c, d
    <3> QED
      BY <3>1, <3>3, <3>4, <3>5, <3>6, Zenon
  <2> HIDE DEF V
  <2> QED
    BY <2>1, <2>2
<1>4. digitsOf = CHOOSE g : g = W(g)
  BY DEF digitsOf
<1>5. digitsOf = W(digitsOf)
  <2> HIDE DEF W
  <2> QED
    BY <1>3, <1>4
<1>6. \A n \in Nat : digitsOf[n] = IF n = 0 THEN <<>> ELSE Append(digitsOf[n \div 10], n % 10)
  BY <1>5, Zenon
<1> DEFINE T == {n \in Nat : digitsOf[n] \in Seq(Digit)}
<1>7. ASSUME NEW n \in Nat, \A m \in Nat : m < n => m \in T PROVE n \in T
  <2>1. CASE n = 0
    <3>1. digitsOf[n] = <<>>
      BY <1>6, <2>1, Zenon
    <3>2. <<>> \in Seq(Digit)
      OBVIOUS
    <3> QED
      BY <3>1, <3>2, Zenon
  <2>2. CASE n # 0
    <3>1. digitsOf[n] = Append(digitsOf[n \div 10], n % 10)
      BY <1>6, <2>2, Zenon
    <3>2. digitsOf[n \div 10] \in Seq(Digit) /\ n % 10 \in Digit
      BY <1>0, <1>7, <2>2
    <3> HIDE DEF W, V
    <3>3. Append(digitsOf[n \div 10], n % 10) \in Seq(Digit)
      BY <3>2
    <3> QED
      BY <3>1, <3>3, Zenon
  <2> QED
    BY <2>1, <2>2
<1> HIDE DEF T
<1>8. \A n \in Nat : n \in T
  BY <1>7, NumbersBelow
<1> QED
  BY <1>8 DEF T

\* Where a sequence of digits has one of 1 to k.
UpTo(pool, k) == {i \in DOMAIN pool : pool[i] \in 1 .. k}
Of(pool, k) == {i \in DOMAIN pool : pool[i] = k}

LEMMA PlacesOfDigits ==
  ASSUME NEW pool \in Seq(Digit)
  PROVE  /\ \A k \in 1 .. 9 : Cardinality(Of(pool, k)) \in Nat
         /\ \A k \in 0 .. 9 : Cardinality(UpTo(pool, k)) \in Nat
         /\ \A k \in 1 .. 9 : Cardinality(UpTo(pool, k))
                                = Cardinality(UpTo(pool, k - 1)) + Cardinality(Of(pool, k))
         /\ Cardinality(UpTo(pool, 0)) = 0
         /\ UpTo(pool, 9) = {i \in DOMAIN pool : pool[i] # 0}
<1>1. IsFiniteSet(DOMAIN pool)
  <2>1. DOMAIN pool = 1 .. Len(pool) /\ Len(pool) \in Nat
    OBVIOUS
  <2> QED
    BY <2>1, FS_Interval
<1>2. ASSUME NEW k PROVE /\ IsFiniteSet(UpTo(pool, k)) /\ Cardinality(UpTo(pool, k)) \in Nat
                        /\ IsFiniteSet(Of(pool, k)) /\ Cardinality(Of(pool, k)) \in Nat
  <2>1. UpTo(pool, k) \subseteq DOMAIN pool /\ Of(pool, k) \subseteq DOMAIN pool
    BY DEF UpTo, Of
  <2> QED
    BY <1>1, <2>1, FS_Subset, FS_CardinalityType
<1>3. ASSUME NEW k \in 1 .. 9
      PROVE  Cardinality(UpTo(pool, k)) = Cardinality(UpTo(pool, k - 1)) + Cardinality(Of(pool, k))
  <2>1. UpTo(pool, k) = UpTo(pool, k - 1) \cup Of(pool, k)
    <3>1. \A x \in Digit : x \in 1 .. k <=> x \in 1 .. k - 1 \/ x = k
      BY DEF Digit
    <3>2. \A i \in DOMAIN pool : pool[i] \in Digit
      OBVIOUS
    <3> QED
      BY <3>1, <3>2 DEF UpTo, Of
  <2>2. UpTo(pool, k - 1) \cap Of(pool, k) = {}
    <3>1. k \notin 1 .. k - 1
      OBVIOUS
    <3> QED
      BY <3>1 DEF UpTo, Of
  <2>3. Cardinality(UpTo(pool, k - 1) \cap Of(pool, k)) = 0
    BY <2>2, FS_EmptySet
  <2>4. Cardinality(UpTo(pool, k - 1) \cup Of(pool, k))
          = Cardinality(UpTo(pool, k - 1)) + Cardinality(Of(pool, k))
              - Cardinality(UpTo(pool, k - 1) \cap Of(pool, k))
    BY <1>2, FS_Union, Zenon
  <2> QED
    BY <1>2, <2>1, <2>3, <2>4
<1>4. UpTo(pool, 0) = {}
  BY DEF UpTo
<1>5. UpTo(pool, 9) = {i \in DOMAIN pool : pool[i] # 0}
  BY DEF UpTo, Digit
<1> QED
  BY <1>2, <1>3, <1>4, <1>5, FS_EmptySet, Zenon

\* Dates of four-digit years.
ShortDate == {date \in Date : 0 < date.y /\ date.y < 10000}

\* The working numbers.
LEMMA WorkingIs ==
  ASSUME NEW date \in ShortDate
  PROVE  LET w == Working(date) IN
         /\ w[1] = DigitSum[date.d] + DigitSum[date.m] + DigitSum[date.y] /\ w[1] \in Nat
         /\ w[3] = w[1] - 2 * firstDigitOfDay(date.d) /\ w[3] \in Int
         /\ w[2] \in Nat /\ Alike(w[2], w[1])
         /\ w[4] \in Nat /\ Alike(w[4], Magnitude(w[3]))
         /\ firstDigitOfDay(date.d) \in 1 .. 9
<1> DEFINE w1 == DigitSum[date.d] + DigitSum[date.m] + DigitSum[date.y]
           w3 == w1 - 2 * firstDigitOfDay(date.d)
<1>1. date.d \in 1 .. 31 /\ date.m \in Nat /\ date.y \in Nat
  BY DEF ShortDate, Date
<1>2. w1 \in Nat
  BY <1>1, DigitSumIs
<1>3. firstDigitOfDay(date.d) \in 1 .. 9
  BY <1>1 DEF firstDigitOfDay
<1>4. w3 \in Int /\ Magnitude(w3) \in Nat
  <2>1. w3 \in Int
    BY <1>2, <1>3
  <2> QED
    BY <2>1 DEF Magnitude
<1>5. Working(date) = <<w1, digitalRoot[w1], w3, digitalRoot[Magnitude(w3)]>>
  BY Zenon DEF Working
<1>6. \A n \in Nat : digitalRoot[n] \in Nat /\ Alike(digitalRoot[n], n)
  <2>1. \A n \in Nat : digitalRoot[n] \in 0 .. 9 /\ Alike(digitalRoot[n], n)
    BY DigitalRootSums, SumsEnd
  <2> QED
    BY <2>1
<1> HIDE DEF w1, w3
<1>7. /\ Working(date)[1] = w1 /\ Working(date)[2] = digitalRoot[w1]
      /\ Working(date)[3] = w3 /\ Working(date)[4] = digitalRoot[Magnitude(w3)]
  BY <1>5
<1>8. w3 = w1 - 2 * firstDigitOfDay(date.d) /\ w1 = DigitSum[date.d] + DigitSum[date.m] + DigitSum[date.y]
  BY DEF w1, w3
<1> QED
  BY <1>2, <1>3, <1>4, <1>6, <1>7, <1>8, Zenon

\* The digits of a year since 1900 add up to 2 or more, those of a day to its two.
LEMMA DigitsOfYear == ASSUME NEW y \in Nat, y >= 1900, y <= 9999 PROVE DigitSum[y] >= 2
<1> DEFINE q == y \div 10
           p == q \div 10
           a == p \div 10
<1>1. q \in Nat /\ y % 10 \in 0 .. 9 /\ y = 10 * q + (y % 10)
  BY LastDigit
<1>2. DigitSum[y] = (y % 10) + DigitSum[q]
  <2> HIDE DEF q
  <2> QED
    BY DigitSumIs DEF q
<1> HIDE DEF q
<1>3. q >= 190 /\ q <= 999
  BY <1>1
<1>4. p \in Nat /\ q % 10 \in 0 .. 9 /\ q = 10 * p + (q % 10)
  BY <1>1, LastDigit
<1>5. DigitSum[q] = (q % 10) + DigitSum[p]
  BY <1>1, <1>3, DigitSumIs
<1> HIDE DEF p
<1>6. p >= 19 /\ p <= 99
  BY <1>3, <1>4
<1>7. a \in Nat /\ p % 10 \in 0 .. 9 /\ p = 10 * a + (p % 10)
  BY <1>4, LastDigit
<1>8. DigitSum[p] = (p % 10) + DigitSum[a]
  BY <1>4, <1>6, DigitSumIs
<1> HIDE DEF a
<1>9. a >= 1 /\ a <= 9 /\ DigitSum[a] = a
  <2>1. a >= 1 /\ a <= 9
    BY <1>6, <1>7
  <2> QED
    BY <1>7, <2>1, DigitSumIs
<1>10. DigitSum[p] >= 2 /\ DigitSum[p] \in Nat
  BY <1>6, <1>7, <1>8, <1>9
<1> QED
  BY <1>1, <1>2, <1>4, <1>5, <1>10

\* What SquareBalances says of a date.
Balanced(date) ==
  LET counts == Counts(date)
      w == Working(date)
      all(lines) == Strength(counts, lines[1]) + Strength(counts, lines[2]) + Strength(counts, lines[3])
  IN /\ all(Row) = all(Column)
     /\ all(Row) = Cardinality({i \in DOMAIN Pool(date) : Pool(date)[i] # 0})
     /\ w[3] >= 0 => (w[1] - w[3]) % 9 = (w[2] - w[4]) % 9
     /\ w[3] < 0 => date.d < 10 \/ date.y < 1900

\* It holds of every one.
LEMMA SquareOfDate == ASSUME NEW date \in ShortDate PROVE Balanced(date)
<1> DEFINE c == Counts(date)
           w == Working(date)
           pool == Pool(date)
           all(lines) == Strength(c, lines[1]) + Strength(c, lines[2]) + Strength(c, lines[3])
<1>0. date.y \in Nat /\ date.m \in 1 .. 12 /\ date.d \in 1 .. 31 /\ date.y < 10000
  BY DEF ShortDate, Date
<1>1. /\ w[1] = DigitSum[date.d] + DigitSum[date.m] + DigitSum[date.y] /\ w[1] \in Nat
      /\ w[3] = w[1] - 2 * firstDigitOfDay(date.d) /\ w[3] \in Int
      /\ w[2] \in Nat /\ Alike(w[2], w[1])
      /\ w[4] \in Nat /\ Alike(w[4], Magnitude(w[3]))
  BY WorkingIs
<1> HIDE DEF w
<1>2. pool \in Seq(Digit)
  <2> DEFINE a == digitsOf[date.d]
             b == digitsOf[date.m]
             e == digitsOf[date.y]
             f == digitsOf[w[1]]
             g == digitsOf[w[2]]
             h == digitsOf[Magnitude(w[3])]
             k == digitsOf[w[4]]
  <2>1. pool = a \o b \o e \o f \o g \o h \o k
    BY DEF Pool, w
  <2>2. date.d \in Nat /\ date.m \in Nat /\ date.y \in Nat
    BY <1>0
  <2>3. w[1] \in Nat /\ w[2] \in Nat /\ Magnitude(w[3]) \in Nat /\ w[4] \in Nat
    BY <1>1 DEF Magnitude
  <2>4. a \in Seq(Digit) /\ b \in Seq(Digit) /\ e \in Seq(Digit) /\ f \in Seq(Digit)
          /\ g \in Seq(Digit) /\ h \in Seq(Digit) /\ k \in Seq(Digit)
    BY <2>2, <2>3, DigitsOfIs
  <2> HIDE DEF a, b, e, f, g, h, k, pool
  <2> QED
    BY <2>1, <2>4
<1>3. \A k \in 1 .. 9 : c[k] = Cardinality(Of(pool, k))
  BY DEF Counts, Of
<1> HIDE DEF c, pool
<1> DEFINE up(k) == Cardinality(UpTo(pool, k))
<1>4. \A k \in 1 .. 9 : c[k] \in Nat
  BY <1>2, <1>3, PlacesOfDigits
<1>5. up(0) = 0 /\ \A k \in 1 .. 9 : up(k) = up(k - 1) + c[k]
  BY <1>2, <1>3, PlacesOfDigits
<1>6. up(9) = Cardinality({i \in DOMAIN pool : pool[i] # 0})
  BY <1>2, PlacesOfDigits
<1> HIDE DEF up
<1>7. up(9) = c[1] + c[2] + c[3] + c[4] + c[5] + c[6] + c[7] + c[8] + c[9]
  <2>1. up(1) = up(0) + c[1] /\ up(2) = up(1) + c[2] /\ up(3) = up(2) + c[3]
    BY <1>5
  <2>2. up(4) = up(3) + c[4] /\ up(5) = up(4) + c[5] /\ up(6) = up(5) + c[6]
    BY <1>5
  <2>3. up(7) = up(6) + c[7] /\ up(8) = up(7) + c[8] /\ up(9) = up(8) + c[9]
    BY <1>5
  <2> QED
    BY <1>4, <1>5, <2>1, <2>2, <2>3
<1>8. /\ all(Row) = (c[1] + c[4] + c[7]) + (c[2] + c[5] + c[8]) + (c[3] + c[6] + c[9])
      /\ all(Column) = (c[1] + c[2] + c[3]) + (c[4] + c[5] + c[6]) + (c[7] + c[8] + c[9])
  BY DEF Strength, Row, Column
<1>9. /\ c[1] \in Nat /\ c[2] \in Nat /\ c[3] \in Nat /\ c[4] \in Nat /\ c[5] \in Nat
      /\ c[6] \in Nat /\ c[7] \in Nat /\ c[8] \in Nat /\ c[9] \in Nat
  BY <1>4
<1>10. all(Row) = all(Column) /\ all(Row) = up(9)
  <2> HIDE DEF all
  <2> QED
    BY <1>7, <1>8, <1>9
<1>11. w[3] >= 0 => (w[1] - w[3]) % 9 = (w[2] - w[4]) % 9
  <2> SUFFICES ASSUME w[3] >= 0 PROVE (w[1] - w[3]) % 9 = (w[2] - w[4]) % 9
    OBVIOUS
  <2>1. Magnitude(w[3]) = w[3]
    BY <1>1 DEF Magnitude
  <2>2. Alike(w[4], w[3]) /\ Alike(w[2], w[1])
    BY <1>1, <2>1
  <2>3. w[1] \in Int /\ w[2] \in Int /\ w[3] \in Int /\ w[4] \in Int
    BY <1>1
  <2>4. Alike(w[2] - w[4], w[1] - w[3])
    BY <2>2, <2>3, AlikeSum, Zenon
  <2> QED
    BY <2>4, Zenon DEF Alike
<1>12. w[3] < 0 => date.d < 10 \/ date.y < 1900
  <2> SUFFICES ASSUME ~ (date.d < 10), ~ (date.y < 1900) PROVE ~ (w[3] < 0)
    OBVIOUS
  <2> DEFINE f == date.d \div 10
             r == date.d % 10
  <2>1. f \in 1 .. 3 /\ r \in 0 .. 9 /\ firstDigitOfDay(date.d) = f
    BY <1>0 DEF firstDigitOfDay
  <2>2. DigitSum[date.d] = r + DigitSum[f]
    <3>1. date.d \in Nat /\ ~ (date.d < 10)
      BY <1>0
    <3> QED
      BY <3>1, DigitSumIs
  <2> HIDE DEF f, r
  <2>3. DigitSum[f] = f
    BY <2>1, DigitSumIsLess
  <2>4. DigitSum[date.m] \in Nat /\ DigitSum[date.m] >= 1
    <3>1. date.m \in Nat /\ date.m > 0
      BY <1>0
    <3> QED
      BY <3>1, DigitSumIsLess
  <2>5. DigitSum[date.y] \in Nat /\ DigitSum[date.y] >= 2
    <3>1. date.y \in Nat /\ date.y >= 1900 /\ date.y <= 9999
      BY <1>0
    <3> QED
      BY <3>1, DigitsOfYear, DigitSumIs
  <2> QED
    BY <1>1, <2>1, <2>2, <2>3, <2>4, <2>5
<1> QED
  BY <1>6, <1>10, <1>11, <1>12 DEF Balanced, c, w, pool

-----------------------------------------------------------------------------
(* The Matrix of Destiny *)

\* The four corners and the center are arcana, as are sums of two.
Arcana == 1 .. 22

LEMMA SumsAreArcana ==
  ASSUME NEW a \in Arcana, NEW b \in Arcana
  PROVE  reduce(a + b) \in Arcana /\ Alike(reduce(a + b), a + b)
<1>1. a + b \in Nat /\ a + b > 0
  BY DEF Arcana
<1> QED
  BY <1>1, ReduceEnds DEF Arcana

LEMMA CardinalsAre ==
  ASSUME NEW date \in ShortDate
  PROVE  LET c == Cardinals(date) IN
         /\ c.day \in Arcana /\ c.month \in Arcana /\ c.year \in Arcana /\ c.sum \in Arcana
         /\ CenterPoint(date) \in Arcana
         /\ Alike(CenterPoint(date), c.day + c.month + c.year + c.sum)
<1> DEFINE c == Cardinals(date)
<1>1. date.d \in Nat /\ date.d > 0 /\ date.m \in Nat /\ date.m > 0 /\ date.y \in Nat /\ date.y > 0
  BY DEF ShortDate, Date
<1>2. DigitSum[date.y] \in Nat /\ DigitSum[date.y] > 0
  BY <1>1, DigitSumIsLess
<1>3. /\ c.day = reduce(date.d) /\ c.month = reduce(date.m) /\ c.year = reduce(DigitSum[date.y])
      /\ c.sum = reduce(c.day + c.month + c.year)
  BY DEF Cardinals
<1>4. CenterPoint(date) = reduce(c.day + c.month + c.year + c.sum)
  BY DEF CenterPoint
<1> HIDE DEF c
<1>5. c.day \in Arcana /\ c.month \in Arcana /\ c.year \in Arcana
  BY <1>1, <1>2, <1>3, ReduceEnds DEF Arcana
<1>6. c.day + c.month + c.year \in Nat /\ c.day + c.month + c.year > 0
  BY <1>5 DEF Arcana
<1>7. c.sum \in Arcana
  BY <1>3, <1>6, ReduceEnds DEF Arcana
<1>8. c.day + c.month + c.year + c.sum \in Nat /\ c.day + c.month + c.year + c.sum > 0
  BY <1>5, <1>7 DEF Arcana
<1>9. CenterPoint(date) \in Arcana /\ Alike(CenterPoint(date), c.day + c.month + c.year + c.sum)
  BY <1>4, <1>8, ReduceEnds DEF Arcana
<1> QED
  BY <1>5, <1>7, <1>9 DEF c

LEMMA OuterIs ==
  ASSUME NEW date \in ShortDate
  PROVE  LET c == Cardinals(date)
             o == Outer(date)
         IN /\ o \in [Edge -> Arcana]
            /\ o.day = c.day /\ o.month = c.month /\ o.year = c.year /\ o.sum = c.sum
            /\ Alike(o.tl, c.day + c.month) /\ Alike(o.tr, c.month + c.year)
            /\ Alike(o.br, c.year + c.sum) /\ Alike(o.bl, c.sum + c.day)
<1> DEFINE c == Cardinals(date)
           o == Outer(date)
<1>1. c.day \in Arcana /\ c.month \in Arcana /\ c.year \in Arcana /\ c.sum \in Arcana
  BY CardinalsAre
<1>2. o = [day |-> c.day, month |-> c.month, year |-> c.year, sum |-> c.sum,
           tl |-> reduce(c.day + c.month), tr |-> reduce(c.month + c.year),
           br |-> reduce(c.year + c.sum), bl |-> reduce(c.sum + c.day)]
  BY Zenon DEF Outer
<1> HIDE DEF c, o
<1>3. /\ reduce(c.day + c.month) \in Arcana /\ Alike(reduce(c.day + c.month), c.day + c.month)
      /\ reduce(c.month + c.year) \in Arcana /\ Alike(reduce(c.month + c.year), c.month + c.year)
      /\ reduce(c.year + c.sum) \in Arcana /\ Alike(reduce(c.year + c.sum), c.year + c.sum)
      /\ reduce(c.sum + c.day) \in Arcana /\ Alike(reduce(c.sum + c.day), c.sum + c.day)
  BY <1>1, SumsAreArcana
<1>4. /\ o.day = c.day /\ o.month = c.month /\ o.year = c.year /\ o.sum = c.sum
      /\ o.tl = reduce(c.day + c.month) /\ o.tr = reduce(c.month + c.year)
      /\ o.br = reduce(c.year + c.sum) /\ o.bl = reduce(c.sum + c.day)
  BY <1>2
<1>5. DOMAIN o = Edge /\ \A e \in Edge : o[e] \in Arcana
  BY <1>1, <1>2, <1>3 DEF Edge
<1>6. o = [e \in DOMAIN o |-> o[e]]
  BY <1>2
<1>7. o \in [Edge -> Arcana]
  BY <1>5, <1>6, Zenon
<1> QED
  BY <1>3, <1>4, <1>7 DEF c, o

LEMMA PurposeIs ==
  ASSUME NEW date \in ShortDate
  PROVE  LET c == Cardinals(date)
             p == Purpose(date)
         IN /\ DOMAIN p = {"heaven", "earth", "personal"}
            /\ \A e \in DOMAIN p : p[e] \in Arcana
            /\ Alike(p.personal, (c.month + c.sum) + (c.day + c.year))
<1> DEFINE c == Cardinals(date)
           p == Purpose(date)
           heaven == reduce(c.month + c.sum)
           earth == reduce(c.day + c.year)
<1>1. c.day \in Arcana /\ c.month \in Arcana /\ c.year \in Arcana /\ c.sum \in Arcana
  BY CardinalsAre
<1>2. p = [heaven |-> heaven, earth |-> earth, personal |-> reduce(heaven + earth)]
  BY Zenon DEF Purpose
<1> HIDE DEF c, p
<1>3. /\ heaven \in Arcana /\ Alike(heaven, c.month + c.sum)
      /\ earth \in Arcana /\ Alike(earth, c.day + c.year)
  BY <1>1, SumsAreArcana
<1> HIDE DEF heaven, earth
<1>4. reduce(heaven + earth) \in Arcana /\ Alike(reduce(heaven + earth), heaven + earth)
  BY <1>3, SumsAreArcana
<1>5. \A a \in Arcana : a \in Int
  BY DEF Arcana
<1>6. c.month + c.sum \in Int /\ c.day + c.year \in Int
  BY <1>1 DEF Arcana
<1>7. Alike(heaven + earth, (c.month + c.sum) + (c.day + c.year))
  BY <1>3, <1>5, <1>6, AlikeSum, Zenon
<1>8. Alike(reduce(heaven + earth), (c.month + c.sum) + (c.day + c.year))
  BY <1>4, <1>7 DEF Alike
<1>9. p.personal = reduce(heaven + earth)
  BY <1>2
<1>10. DOMAIN p = {"heaven", "earth", "personal"} /\ \A e \in DOMAIN p : p[e] \in Arcana
  BY <1>2, <1>3, <1>4
<1> QED
  BY <1>8, <1>9, <1>10 DEF c, p

\* Every point has an arcana.
LEMMA ValuesAreArcana ==
  ASSUME NEW date \in ShortDate, NEW key \in PointKey
  PROVE  Value(date, key) \in Arcana
<1> DEFINE o == Outer(date)
           center == CenterPoint(date)
           p == Purpose(date)
<1>1. o \in [Edge -> Arcana] /\ center \in Arcana
  BY OuterIs, CardinalsAre
<1>2. DOMAIN p = {"heaven", "earth", "personal"} /\ \A e \in DOMAIN p : p[e] \in Arcana
  BY PurposeIs
<1>3. \A e \in Edge : o[e] \in Arcana
  BY <1>1
<1>4. Value(date, key) =
        CASE key \in Edge \X {0} -> o[key[1]]
          [] key = <<"center", 0>> -> center
          [] key \in (DOMAIN p) \X {0} -> p[key[1]]
          [] key \in Edge \X (1 .. 3) -> subdivide(o[key[1]], center)[key[2]]
          [] OTHER -> 0
  BY Zenon DEF Value
<1> HIDE DEF o, center, p
<1>5. \A e \in Edge : e \notin {"center", "heaven", "earth", "personal"}
  BY DEF Edge
<1>6. CASE key \in Edge \X {0}
  <2>1. key # <<"center", 0>> /\ key \notin (DOMAIN p) \X {0} /\ key \notin Edge \X (1 .. 3)
    BY <1>2, <1>5, <1>6
  <2>2. Value(date, key) = o[key[1]]
    BY <1>4, <1>6, <2>1
  <2> QED
    BY <1>3, <1>6, <2>2
<1>7. CASE key = <<"center", 0>>
  <2>1. key \notin Edge \X {0} /\ key \notin (DOMAIN p) \X {0} /\ key \notin Edge \X (1 .. 3)
    BY <1>2, <1>5, <1>7
  <2>2. Value(date, key) = center
    BY <1>4, <1>7, <2>1
  <2> QED
    BY <1>1, <2>2
<1>8. CASE key \in (DOMAIN p) \X {0}
  <2>1. key \notin Edge \X {0} /\ key # <<"center", 0>> /\ key \notin Edge \X (1 .. 3)
    BY <1>2, <1>5, <1>8
  <2>2. Value(date, key) = p[key[1]]
    BY <1>4, <1>8, <2>1
  <2> QED
    BY <1>2, <1>8, <2>2
<1>9. CASE key \in Edge \X (1 .. 3)
  <2>1. key \notin Edge \X {0} /\ key # <<"center", 0>> /\ key \notin (DOMAIN p) \X {0}
    BY <1>2, <1>5, <1>9
  <2>2. Value(date, key) = subdivide(o[key[1]], center)[key[2]]
    BY <1>4, <1>9, <2>1
  <2> DEFINE v == o[key[1]]
             mid == reduce(v + center)
  <2>3. v \in Arcana /\ key[2] \in 1 .. 3
    BY <1>3, <1>9
  <2>4. subdivide(v, center) = <<reduce(v + mid), mid, reduce(mid + center)>>
    BY Zenon DEF subdivide
  <2> HIDE DEF v
  <2>5. mid \in Arcana
    BY <1>1, <2>3, SumsAreArcana
  <2> HIDE DEF mid
  <2>6. reduce(v + mid) \in Arcana /\ reduce(mid + center) \in Arcana
    BY <1>1, <2>3, <2>5, SumsAreArcana
  <2>7. subdivide(v, center)[key[2]] \in Arcana
    BY <2>3, <2>4, <2>5, <2>6
  <2> QED
    BY <2>2, <2>7 DEF v
<1>10. \/ key \in Edge \X {0} \/ key = <<"center", 0>>
       \/ key \in (DOMAIN p) \X {0} \/ key \in Edge \X (1 .. 3)
  <2>1. \A n \in 0 .. 3 : n = 0 \/ n \in 1 .. 3
    OBVIOUS
  <2>2. CASE key \in Edge \X (0 .. 3)
    BY <2>1, <2>2
  <2>3. CASE key \in {"center", "heaven", "earth", "personal"} \X {0}
    BY <1>2, <2>3
  <2> QED
    BY <2>2, <2>3 DEF PointKey
<1> QED
  BY <1>6, <1>7, <1>8, <1>9, <1>10

\* A function on the first places is a sequence.
LEMMA SequenceOfPlaces ==
  ASSUME NEW S, NEW n \in Nat, NEW s \in [1 .. n -> S]
  PROVE  s \in Seq(S) /\ Len(s) = n
OBVIOUS

\* Every line runs through points that exist.
LEMMA LinesMeetPoints == \A line \in LineDefs : Range(line) \subseteq PointKey
<1> DEFINE center == << <<"center", 0>> >>
<1>1. ASSUME NEW line \in Seq(PointKey) PROVE Range(line) \subseteq PointKey
  BY <1>1 DEF Range
<1>2. center \in Seq(PointKey)
  BY DEF PointKey
<1>3. ASSUME NEW e \in {"day", "month", "year", "sum"} PROVE << <<e, 0>> >> \in Seq(PointKey)
  BY DEF PointKey, Edge
<1>4. ASSUME NEW e \in {"tl", "tr", "br", "bl"}
      PROVE  Inward(e) \in Seq(PointKey) /\ Reverse(Inward(e)) \in Seq(PointKey)
  <2>1. \A i \in 1 .. 4 : <<e, i - 1>> \in PointKey
    <3>1. e \in Edge
      BY DEF Edge
    <3> QED
      BY <3>1 DEF PointKey
  <2>2. Inward(e) \in [1 .. 4 -> PointKey]
    BY <2>1, Zenon DEF Inward
  <2>3. ASSUME NEW s \in [1 .. 4 -> PointKey]
        PROVE  s \in Seq(PointKey) /\ Len(s) = 4 /\ Reverse(s) \in [1 .. 4 -> PointKey]
    <3>1. s \in Seq(PointKey) /\ Len(s) = 4
      BY SequenceOfPlaces
    <3>2. Reverse(s) = [i \in 1 .. 4 |-> s[(4 - i) + 1]]
      BY <3>1 DEF Reverse
    <3>3. \A i \in 1 .. 4 : s[(4 - i) + 1] \in PointKey
      OBVIOUS
    <3> QED
      BY <3>1, <3>2, <3>3, Zenon
  <2> QED
    BY <2>2, <2>3
<1> HIDE DEF center
<1>5. ASSUME NEW s \in Seq(PointKey), NEW t \in Seq(PointKey) PROVE s \o t \in Seq(PointKey)
  OBVIOUS
<1>6. \A line \in LineDefs :
        \/ line = << <<"day", 0>> >> \o center \o << <<"year", 0>> >>
        \/ line = << <<"month", 0>> >> \o center \o << <<"sum", 0>> >>
        \/ line = Inward("br") \o center
        \/ line = Inward("bl") \o center
        \/ line = Inward("tl") \o center \o Reverse(Inward("br"))
        \/ line = Inward("tr") \o center \o Reverse(Inward("bl"))
  BY Zenon DEF LineDefs, center
<1>7. /\ << <<"day", 0>> >> \o center \o << <<"year", 0>> >> \in Seq(PointKey)
      /\ << <<"month", 0>> >> \o center \o << <<"sum", 0>> >> \in Seq(PointKey)
  <2>1. /\ << <<"day", 0>> >> \in Seq(PointKey) /\ << <<"year", 0>> >> \in Seq(PointKey)
        /\ << <<"month", 0>> >> \in Seq(PointKey) /\ << <<"sum", 0>> >> \in Seq(PointKey)
    BY <1>3
  <2> QED
    BY <1>2, <1>5, <2>1, Zenon
<1>8. /\ Inward("br") \o center \in Seq(PointKey) /\ Inward("bl") \o center \in Seq(PointKey)
      /\ Inward("tl") \o center \o Reverse(Inward("br")) \in Seq(PointKey)
      /\ Inward("tr") \o center \o Reverse(Inward("bl")) \in Seq(PointKey)
  <2>1. /\ Inward("br") \in Seq(PointKey) /\ Inward("bl") \in Seq(PointKey)
        /\ Inward("tl") \in Seq(PointKey) /\ Inward("tr") \in Seq(PointKey)
        /\ Reverse(Inward("br")) \in Seq(PointKey) /\ Reverse(Inward("bl")) \in Seq(PointKey)
    BY <1>4
  <2> QED
    BY <1>2, <1>5, <2>1, Zenon
<1> QED
  BY <1>1, <1>6, <1>7, <1>8, Zenon

\* The corners and the middle ticks of the age ladder.
LEMMA LadderIs ==
  ASSUME NEW date \in ShortDate, NEW i \in 0 .. 7
  PROVE  LET o == Outer(date)
             ladder == ageLadder(date)
         IN /\ ladder[8 * i].age = 1000 * i
            /\ ladder[8 * i].arcana = o[Clockwise[i + 1]]
            /\ ladder[(8 * i + 8) % 64].arcana = o[Clockwise[((i + 1) % 8) + 1]]
            /\ ladder[8 * i + 4].arcana
                 = reduce(o[Clockwise[i + 1]] + o[Clockwise[((i + 1) % 8) + 1]])
<1> DEFINE o == Outer(date)
           corner(j) == o[Clockwise[(j % 8) + 1]]
           ladder == ageLadder(date)
<1>1. ladder = [n \in 0 .. 63 |->
                  [age |-> 1000 * (n \div 8) + 125 * (n % 8),
                   arcana |-> Ticks(corner(n \div 8), corner((n \div 8) + 1))[(n % 8) + 1]]]
  BY Zenon DEF ageLadder
<1> HIDE DEF ladder
<1>2. ASSUME NEW j \in 0 .. 7
      PROVE  /\ 8 * j \in 0 .. 63 /\ (8 * j) \div 8 = j /\ (8 * j) % 8 = 0
             /\ 8 * j + 4 \in 0 .. 63 /\ (8 * j + 4) \div 8 = j /\ (8 * j + 4) % 8 = 4
             /\ j % 8 = j
  OBVIOUS
<1>3. ASSUME NEW v0, NEW v8 PROVE Ticks(v0, v8)[1] = v0 /\ Ticks(v0, v8)[5] = reduce(v0 + v8)
  BY DEF Ticks
<1>4. ASSUME NEW j \in 0 .. 7
      PROVE  ladder[8 * j].age = 1000 * j /\ ladder[8 * j].arcana = o[Clockwise[j + 1]]
  <2> HIDE DEF o, corner
  <2>1. ladder[8 * j] = [age |-> 1000 * ((8 * j) \div 8) + 125 * ((8 * j) % 8),
                         arcana |-> Ticks(corner((8 * j) \div 8), corner(((8 * j) \div 8) + 1))[((8 * j) % 8) + 1]]
    BY <1>1, <1>2, Zenon
  <2>2. /\ ladder[8 * j].age = 1000 * ((8 * j) \div 8) + 125 * ((8 * j) % 8)
        /\ ladder[8 * j].arcana = Ticks(corner((8 * j) \div 8), corner(((8 * j) \div 8) + 1))[((8 * j) % 8) + 1]
    BY <2>1
  <2>3. ladder[8 * j].age = 1000 * j
    BY <1>2, <2>2
  <2>4. ((8 * j) % 8) + 1 = 1 /\ (j % 8) + 1 = j + 1
    BY <1>2
  <2>5. ladder[8 * j].arcana = Ticks(corner(j), corner(j + 1))[1]
    BY <1>2, <2>2, <2>4
  <2>6. ladder[8 * j].arcana = corner(j)
    BY <1>3, <2>5, Zenon
  <2>7. corner(j) = o[Clockwise[j + 1]]
    BY <2>4, Zenon DEF corner
  <2> QED
    BY <2>3, <2>6, <2>7, Zenon
<1>5. ladder[8 * i + 4].arcana = reduce(corner(i) + corner(i + 1))
  <2> HIDE DEF o, corner
  <2>1. ladder[8 * i + 4] =
          [age |-> 1000 * ((8 * i + 4) \div 8) + 125 * ((8 * i + 4) % 8),
           arcana |-> Ticks(corner((8 * i + 4) \div 8), corner(((8 * i + 4) \div 8) + 1))[((8 * i + 4) % 8) + 1]]
    BY <1>1, <1>2, Zenon
  <2>2. ladder[8 * i + 4].arcana
          = Ticks(corner((8 * i + 4) \div 8), corner(((8 * i + 4) \div 8) + 1))[((8 * i + 4) % 8) + 1]
    BY <2>1
  <2>3. ((8 * i + 4) % 8) + 1 = 5
    BY <1>2
  <2>4. ladder[8 * i + 4].arcana = Ticks(corner(i), corner(i + 1))[5]
    BY <1>2, <2>2, <2>3
  <2> QED
    BY <1>3, <2>4, Zenon
<1>6. (8 * i + 8) % 64 = 8 * ((i + 1) % 8) /\ (i + 1) % 8 \in 0 .. 7 /\ (i % 8) + 1 = i + 1
  OBVIOUS
<1>7. ladder[(8 * i + 8) % 64].arcana = o[Clockwise[((i + 1) % 8) + 1]]
  <2> DEFINE k == (i + 1) % 8
  <2> HIDE DEF o
  <2>1. k \in 0 .. 7 /\ (8 * i + 8) % 64 = 8 * k
    BY <1>6
  <2> HIDE DEF k
  <2>2. ladder[8 * k].arcana = o[Clockwise[k + 1]]
    BY <1>4, <2>1
  <2> QED
    BY <2>1, <2>2, Zenon DEF k
<1>8. ladder[8 * i + 4].arcana = reduce(o[Clockwise[i + 1]] + o[Clockwise[((i + 1) % 8) + 1]])
  <2> HIDE DEF o
  <2> QED
    BY <1>5, <1>6, Zenon
<1>9. ladder[8 * i].age = 1000 * i /\ ladder[8 * i].arcana = o[Clockwise[i + 1]]
  <2> HIDE DEF o
  <2> QED
    BY <1>4, Zenon
<1> QED
  BY <1>7, <1>8, <1>9, Zenon DEF o, ladder

\* The octagram of a date agrees.
LEMMA OctagramOfDate ==
  ASSUME NEW date \in ShortDate
  PROVE  LET outer == Outer(date)
             center == CenterPoint(date)
             ladder == ageLadder(date)
         IN /\ \A key \in PointKey : Value(date, key) \in 1 .. 22
            /\ \A line \in LineDefs : Range(line) \subseteq PointKey
            /\ center % 9 = Purpose(date).personal % 9
            /\ center % 9 = (outer.tl + outer.br) % 9
            /\ center % 9 = (outer.tr + outer.bl) % 9
            /\ \A i \in 0 .. 7 :
                 /\ ladder[8 * i].age = 1000 * i
                 /\ ladder[8 * i].arcana = outer[Clockwise[i + 1]]
                 /\ ladder[8 * i + 4].arcana % 9
                      = (ladder[8 * i].arcana + ladder[(8 * i + 8) % 64].arcana) % 9
<1> DEFINE c == Cardinals(date)
           o == Outer(date)
           center == CenterPoint(date)
           personal == Purpose(date).personal
           ladder == ageLadder(date)
<1>1. /\ c.day \in Arcana /\ c.month \in Arcana /\ c.year \in Arcana /\ c.sum \in Arcana
      /\ center \in Arcana /\ Alike(center, c.day + c.month + c.year + c.sum)
  BY CardinalsAre
<1>2. /\ o \in [Edge -> Arcana]
      /\ Alike(o.tl, c.day + c.month) /\ Alike(o.tr, c.month + c.year)
      /\ Alike(o.br, c.year + c.sum) /\ Alike(o.bl, c.sum + c.day)
  BY OuterIs
<1>3. Alike(personal, (c.month + c.sum) + (c.day + c.year))
  BY PurposeIs
<1>4. \A key \in PointKey : Value(date, key) \in 1 .. 22
  BY ValuesAreArcana DEF Arcana
<1>5. ASSUME NEW i \in 0 .. 7
      PROVE  /\ ladder[8 * i].age = 1000 * i
             /\ ladder[8 * i].arcana = o[Clockwise[i + 1]]
             /\ Alike(ladder[8 * i + 4].arcana, ladder[8 * i].arcana + ladder[(8 * i + 8) % 64].arcana)
  <2>1. /\ ladder[8 * i].age = 1000 * i
        /\ ladder[8 * i].arcana = o[Clockwise[i + 1]]
        /\ ladder[(8 * i + 8) % 64].arcana = o[Clockwise[((i + 1) % 8) + 1]]
        /\ ladder[8 * i + 4].arcana = reduce(o[Clockwise[i + 1]] + o[Clockwise[((i + 1) % 8) + 1]])
    BY LadderIs
  <2>2. \A k \in 1 .. 8 : Clockwise[k] \in Edge
    BY DEF Clockwise, Edge
  <2>3. i + 1 \in 1 .. 8 /\ ((i + 1) % 8) + 1 \in 1 .. 8
    OBVIOUS
  <2> HIDE DEF o, ladder
  <2>4. o[Clockwise[i + 1]] \in Arcana /\ o[Clockwise[((i + 1) % 8) + 1]] \in Arcana
    BY <1>2, <2>2, <2>3
  <2>5. Alike(reduce(o[Clockwise[i + 1]] + o[Clockwise[((i + 1) % 8) + 1]]),
              o[Clockwise[i + 1]] + o[Clockwise[((i + 1) % 8) + 1]])
    BY <2>4, SumsAreArcana
  <2> QED
    BY <2>1, <2>5, Zenon
<1>6. /\ c.day \in Int /\ c.month \in Int /\ c.year \in Int /\ c.sum \in Int
      /\ o.tl \in Int /\ o.tr \in Int /\ o.br \in Int /\ o.bl \in Int
      /\ c.day + c.month \in Int /\ c.month + c.year \in Int
      /\ c.year + c.sum \in Int /\ c.sum + c.day \in Int
  <2>1. /\ "tl" \in Edge /\ "tr" \in Edge /\ "br" \in Edge /\ "bl" \in Edge
    BY DEF Edge
  <2> HIDE DEF c, o
  <2>2. /\ o.tl \in Arcana /\ o.tr \in Arcana /\ o.br \in Arcana /\ o.bl \in Arcana
    BY <1>2, <2>1
  <2> QED
    BY <1>1, <2>2 DEF Arcana
<1> HIDE DEF c, o, center, personal, ladder
<1>7. Alike(o.tl + o.br, (c.day + c.month) + (c.year + c.sum))
  BY <1>2, <1>6, AlikeSum, Zenon
<1>8. Alike(o.tr + o.bl, (c.month + c.year) + (c.sum + c.day))
  BY <1>2, <1>6, AlikeSum, Zenon
<1>9. /\ (c.day + c.month) + (c.year + c.sum) = c.day + c.month + c.year + c.sum
      /\ (c.month + c.year) + (c.sum + c.day) = c.day + c.month + c.year + c.sum
      /\ (c.month + c.sum) + (c.day + c.year) = c.day + c.month + c.year + c.sum
  BY <1>6
<1>10. /\ center % 9 = personal % 9 /\ center % 9 = (o.tl + o.br) % 9
       /\ center % 9 = (o.tr + o.bl) % 9
  BY <1>1, <1>3, <1>7, <1>8, <1>9, Zenon DEF Alike
<1>11. \A i \in 0 .. 7 :
         /\ ladder[8 * i].age = 1000 * i
         /\ ladder[8 * i].arcana = o[Clockwise[i + 1]]
         /\ ladder[8 * i + 4].arcana % 9
              = (ladder[8 * i].arcana + ladder[(8 * i + 8) % 64].arcana) % 9
  BY <1>5, Zenon DEF Alike
<1> QED
  BY <1>4, <1>10, <1>11, LinesMeetPoints, Zenon DEF o, center, personal, ladder

-----------------------------------------------------------------------------
(* Periods *)

\* Periods that follow each other.
Follow(p, n) ==
  /\ n \in Nat \ {0} /\ p = [i \in 1 .. n |-> p[i]]
  /\ \A i \in 1 .. n : p[i].start \in Int /\ p[i].end \in Int /\ p[i].start < p[i].end
  /\ \A i \in 1 .. n - 1 : p[i + 1].start = p[i].end

LEMMA NextStarts ==
  ASSUME NEW p, NEW n, Follow(p, n), NEW i \in 1 .. n - 1
  PROVE  p[i + 1].start = p[i].end
BY DEF Follow

\* Of two of them the earlier ends before the later starts.
LEMMA EarlierEnds ==
  ASSUME NEW p, NEW n, Follow(p, n)
  PROVE  \A j \in 1 .. n : \A i \in 1 .. n : i < j => p[i].end <= p[j].start
<1> DEFINE T == {j \in Nat : j \in 1 .. n => \A i \in 1 .. n : i < j => p[i].end <= p[j].start}
<1>1. ASSUME NEW j \in Nat, \A k \in Nat : k < j => k \in T PROVE j \in T
  <2> SUFFICES ASSUME j \in 1 .. n, NEW i \in 1 .. n, i < j PROVE p[i].end <= p[j].start
    OBVIOUS
  <2>0. n \in Nat /\ j - 1 \in Nat /\ j - 1 < j /\ j - 1 \in 1 .. n /\ j - 1 \in 1 .. n - 1
    BY DEF Follow
  <2>1. (j - 1) + 1 = j
    BY <2>0
  <2>2. p[j].start = p[j - 1].end
    BY <2>0, <2>1 DEF Follow
  <2>3. CASE i = j - 1
    BY <2>0, <2>2, <2>3 DEF Follow
  <2>4. CASE i # j - 1
    <3>1. i < j - 1
      BY <2>0, <2>4
    <3>2. p[i].end <= p[j - 1].start
      BY <1>1, <2>0, <3>1
    <3> DEFINE a == p[i].end
               b == p[j - 1].start
               e == p[j - 1].end
    <3>3. a \in Int /\ b \in Int /\ e \in Int /\ b < e /\ a <= b
      BY <2>0, <3>2 DEF Follow
    <3> HIDE DEF a, b, e
    <3>4. a <= e
      BY <3>3
    <3> QED
      BY <2>2, <3>4 DEF a, e
  <2> QED
    BY <2>3, <2>4
<1>2. \A j \in Nat : j \in T
  <2> HIDE DEF T
  <2> QED
    BY <1>1, NumbersBelow
<1> QED
  BY <1>2 DEF Follow

\* At most one of them holds a moment.
LEMMA HoldersAreOne ==
  ASSUME NEW p, NEW n, Follow(p, n), NEW t \in Int, NEW i \in 1 .. n, Holds(p[i], t)
  PROVE  Current(p, t) = {i}
<1>1. DOMAIN p = 1 .. n
  <2>1. DOMAIN [k \in 1 .. n |-> p[k]] = 1 .. n
    OBVIOUS
  <2> QED
    BY <2>1, Zenon DEF Follow
<1>2. ASSUME NEW j \in 1 .. n, Holds(p[j], t) PROVE j = i
  <2>1. /\ i < j => p[i].end <= p[j].start
        /\ j < i => p[j].end <= p[i].start
    BY EarlierEnds
  <2> DEFINE a == p[i].start
             b == p[i].end
             c == p[j].start
             e == p[j].end
  <2>2. a \in Int /\ b \in Int /\ c \in Int /\ e \in Int
    BY DEF Follow
  <2>3. a <= t /\ t < b /\ c <= t /\ t < e
    BY <1>2 DEF Holds
  <2>4. (i < j => b <= c) /\ (j < i => e <= a)
    BY <2>1
  <2> HIDE DEF a, b, c, e
  <2>5. i \in Int /\ j \in Int
    OBVIOUS
  <2> QED
    BY <2>2, <2>3, <2>4, <2>5
<1> QED
  BY <1>1, <1>2 DEF Current

\* Between the first and the last some period does.
LEMMA OneHolds ==
  ASSUME NEW p, NEW n, Follow(p, n), NEW t \in Int, p[1].start <= t, t < p[n].end
  PROVE  \E i \in 1 .. n : Holds(p[i], t) /\ Current(p, t) = {i}
<1> DEFINE T == {i \in 1 .. n : t < p[i].end}
<1>1. T \subseteq Nat /\ T # {}
  BY DEF Follow
<1>2. PICK i \in T : \A j \in T : i <= j
  <2> HIDE DEF T
  <2> QED
    BY <1>1, LeastNumber
<1>3. i \in 1 .. n /\ t < p[i].end
  OBVIOUS
<1>4. p[i].start <= t
  <2>1. CASE i = 1
    BY <2>1
  <2>2. CASE i # 1
    <3>1. i - 1 \in 1 .. n /\ i - 1 \in 1 .. n - 1 /\ (i - 1) + 1 = i /\ i - 1 < i
      BY <1>3, <2>2 DEF Follow
    <3>2. ~ (t < p[i - 1].end)
      BY <1>2, <3>1
    <3>3. p[i].start = p[i - 1].end /\ p[i].start \in Int
      BY <1>3, <3>1 DEF Follow
    <3> QED
      BY <3>2, <3>3
  <2> QED
    BY <2>1, <2>2
<1>5. Holds(p[i], t)
  BY <1>3, <1>4 DEF Holds
<1> QED
  BY <1>3, <1>5, HoldersAreOne

\* When one ends, the next begins.
LEMMA NextHolds ==
  ASSUME NEW p, NEW n, Follow(p, n), NEW i \in 1 .. n - 1
  PROVE  Holds(p[i + 1], p[i].end) /\ Current(p, p[i].end) = {i + 1}
<1>1. i + 1 \in 1 .. n /\ i \in 1 .. n
  BY DEF Follow
<1>2. Holds(p[i + 1], p[i].end) /\ p[i].end \in Int
  <2>1. p[i + 1].start = p[i].end /\ p[i].end \in Int
    BY <1>1 DEF Follow
  <2>2. p[i + 1].start < p[i + 1].end /\ p[i + 1].start \in Int
    BY <1>1 DEF Follow
  <2> QED
    BY <2>1, <2>2 DEF Holds
<1> QED
  BY <1>1, <1>2, HoldersAreOne

\* The first begins with the first moment.
LEMMA FirstHolds ==
  ASSUME NEW p, NEW n, Follow(p, n)
  PROVE  Holds(p[1], p[1].start) /\ Current(p, p[1].start) = {1}
<1>1. 1 \in 1 .. n
  BY DEF Follow
<1>2. Holds(p[1], p[1].start) /\ p[1].start \in Int
  BY <1>1 DEF Follow, Holds
<1> QED
  BY <1>1, <1>2, HoldersAreOne

-----------------------------------------------------------------------------
(* A period divided *)

Lord == 0 .. 8

\* Lords follow each other in a circle, and have between 6 and 20 years.
LEMMA LordsAre ==
  \A lord \in Lord : YearsOf(lord) \in 6 .. 20 /\ \A i \in Nat : LordFrom(lord, i) \in Lord
<1> SUFFICES ASSUME NEW lord \in Lord
             PROVE  YearsOf(lord) \in 6 .. 20 /\ \A i \in Nat : LordFrom(lord, i) \in Lord
  OBVIOUS
<1>1. \A i \in Nat : LordFrom(lord, i) \in Lord
  BY DEF LordFrom, Lord
<1>2. YearsOf(lord) \in 6 .. 20
  BY DEF YearsOf, vimshottariYears, Lord
<1> QED
  BY <1>1, <1>2

\* Together 120, from whichever on.
LEMMA AllYears ==
  ASSUME NEW lord \in Lord
  PROVE  YearsOf(LordFrom(lord, 0)) + YearsOf(LordFrom(lord, 1)) + YearsOf(LordFrom(lord, 2))
           + YearsOf(LordFrom(lord, 3)) + YearsOf(LordFrom(lord, 4)) + YearsOf(LordFrom(lord, 5))
           + YearsOf(LordFrom(lord, 6)) + YearsOf(LordFrom(lord, 7)) + YearsOf(LordFrom(lord, 8)) = 120
<1> DEFINE y == vimshottariYears
<1>1. /\ y[1] = 7 /\ y[2] = 20 /\ y[3] = 6 /\ y[4] = 10 /\ y[5] = 7 /\ y[6] = 18 /\ y[7] = 16
      /\ y[8] = 19 /\ y[9] = 17
  BY DEF vimshottariYears
<1> HIDE DEF y
<1>2. \A i \in 0 .. 8 : YearsOf(LordFrom(lord, i)) = y[((lord + i) % 9) + 1]
  BY DEF YearsOf, LordFrom, y
<1>3. lord \in {0, 1, 2, 3, 4, 5, 6, 7, 8}
  BY DEF Lord
<1> QED
  BY <1>1, <1>2, <1>3

\* Where the periods of InOrder start and end.
Cursor(lord, start, unit) ==
  CHOOSE cursor : cursor = [i \in 0 .. 9 |->
    IF i = 0 THEN start ELSE cursor[i - 1] + unit * YearsOf(LordFrom(lord, i - 1))]

LEMMA CursorIs ==
  ASSUME NEW lord \in Lord, NEW start \in Int, NEW unit \in Nat
  PROVE  LET c == Cursor(lord, start, unit) IN
         /\ InOrder(lord, start, unit) =
              [i \in 1 .. 9 |-> [lord |-> LordFrom(lord, i - 1), start |-> c[i - 1],
                                end |-> c[i], sub |-> <<>>]]
         /\ \A i \in 0 .. 9 : c[i] \in Int
         /\ \A i \in 1 .. 9 : c[i] = c[i - 1] + unit * YearsOf(LordFrom(lord, i - 1))
         /\ c[0] = start /\ c[9] = start + 120 * unit
<1> DEFINE Y(i) == unit * YearsOf(LordFrom(lord, i))
           W(f) == [i \in 0 .. 9 |-> IF i = 0 THEN start ELSE f[i - 1] + Y(i - 1)]
           g1 == start + Y(0)
           g2 == g1 + Y(1)
           g3 == g2 + Y(2)
           g4 == g3 + Y(3)
           g5 == g4 + Y(4)
           g6 == g5 + Y(5)
           g7 == g6 + Y(6)
           g8 == g7 + Y(7)
           g9 == g8 + Y(8)
           g == [i \in 0 .. 9 |->
                  IF i = 0 THEN start ELSE IF i = 1 THEN g1 ELSE IF i = 2 THEN g2
                  ELSE IF i = 3 THEN g3 ELSE IF i = 4 THEN g4 ELSE IF i = 5 THEN g5
                  ELSE IF i = 6 THEN g6 ELSE IF i = 7 THEN g7 ELSE IF i = 8 THEN g8 ELSE g9]
<1>0. \A i \in 0 .. 8 : YearsOf(LordFrom(lord, i)) \in Nat
  <2> SUFFICES ASSUME NEW i \in 0 .. 8 PROVE YearsOf(LordFrom(lord, i)) \in Nat
    OBVIOUS
  <2>1. LordFrom(lord, i) \in Lord
    BY LordsAre
  <2>2. YearsOf(LordFrom(lord, i)) \in 6 .. 20
    BY <2>1, LordsAre
  <2> QED
    BY <2>2
<1>1. \A i \in 0 .. 8 : Y(i) \in Nat
  BY <1>0
<1>2. g = W(g)
  <2>1. /\ g[0] = start /\ g[1] = g1 /\ g[2] = g2 /\ g[3] = g3 /\ g[4] = g4 /\ g[5] = g5
        /\ g[6] = g6 /\ g[7] = g7 /\ g[8] = g8 /\ g[9] = g9
    <3> HIDE DEF Y, g1, g2, g3, g4, g5, g6, g7, g8, g9
    <3> QED
      OBVIOUS
  <2>2. /\ g[1] = g[0] + Y(0) /\ g[2] = g[1] + Y(1) /\ g[3] = g[2] + Y(2) /\ g[4] = g[3] + Y(3)
        /\ g[5] = g[4] + Y(4) /\ g[6] = g[5] + Y(5) /\ g[7] = g[6] + Y(6) /\ g[8] = g[7] + Y(7)
        /\ g[9] = g[8] + Y(8)
    <3> HIDE DEF Y, g
    <3> QED
      BY <2>1
  <2>3. g = [i \in 0 .. 9 |-> g[i]]
    OBVIOUS
  <2> HIDE DEF g, Y
  <2>4. ASSUME NEW i \in 0 .. 9 PROVE g[i] = IF i = 0 THEN start ELSE g[i - 1] + Y(i - 1)
    BY <2>1, <2>2
  <2> QED
    BY <2>3, <2>4
<1> DEFINE c == Cursor(lord, start, unit)
<1>3. c = W(c)
  <2>1. c = CHOOSE t : t = W(t)
    BY Zenon DEF Cursor
  <2> HIDE DEF W, g, c
  <2> QED
    BY <1>2, <2>1
<1>4. \A i \in 0 .. 9 : c[i] = IF i = 0 THEN start ELSE c[i - 1] + Y(i - 1)
  <2> HIDE DEF c, Y
  <2> QED
    BY <1>3, Zenon
<1>5. InOrder(lord, start, unit) =
        [i \in 1 .. 9 |-> [lord |-> LordFrom(lord, i - 1), start |-> c[i - 1],
                          end |-> c[i], sub |-> <<>>]]
  BY Zenon DEF InOrder, Cursor
<1>6. c[0] = start /\ \A i \in 1 .. 9 : c[i] = c[i - 1] + Y(i - 1)
  <2> HIDE DEF c, Y
  <2>1. 0 \in 0 .. 9 /\ \A i \in 1 .. 9 : i \in 0 .. 9 /\ i # 0
    OBVIOUS
  <2> QED
    BY <1>4, <2>1
<1>7. /\ c[1] = c[0] + Y(0) /\ c[2] = c[1] + Y(1) /\ c[3] = c[2] + Y(2) /\ c[4] = c[3] + Y(3)
      /\ c[5] = c[4] + Y(4) /\ c[6] = c[5] + Y(5) /\ c[7] = c[6] + Y(6) /\ c[8] = c[7] + Y(7)
      /\ c[9] = c[8] + Y(8)
  <2> HIDE DEF c, Y
  <2> QED
    BY <1>6
<1>8. \A i \in 0 .. 9 : c[i] \in Int
  <2> HIDE DEF c, Y
  <2> QED
    BY <1>1, <1>6, <1>7
<1>9. c[9] = start + 120 * unit
  <2>1. Y(0) + Y(1) + Y(2) + Y(3) + Y(4) + Y(5) + Y(6) + Y(7) + Y(8) = 120 * unit
    <3> DEFINE y(i) == YearsOf(LordFrom(lord, i))
    <3>1. /\ y(0) \in Nat /\ y(1) \in Nat /\ y(2) \in Nat /\ y(3) \in Nat /\ y(4) \in Nat
          /\ y(5) \in Nat /\ y(6) \in Nat /\ y(7) \in Nat /\ y(8) \in Nat
      <4>2. \A i \in 0 .. 8 : y(i) \in Nat
        BY <1>0
      <4> HIDE DEF y
      <4> QED
        BY <4>2
    <3>2. y(0) + y(1) + y(2) + y(3) + y(4) + y(5) + y(6) + y(7) + y(8) = 120
      BY AllYears
    <3> HIDE DEF y
    <3>3. unit * y(0) + unit * y(1) + unit * y(2) + unit * y(3) + unit * y(4) + unit * y(5)
            + unit * y(6) + unit * y(7) + unit * y(8)
          = unit * (y(0) + y(1) + y(2) + y(3) + y(4) + y(5) + y(6) + y(7) + y(8))
      BY <3>1
    <3> QED
      BY <3>2, <3>3 DEF y
  <2> HIDE DEF c, Y
  <2> QED
    BY <1>1, <1>6, <1>7, <2>1
<1> HIDE DEF c
<1> QED
  BY <1>5, <1>6, <1>8, <1>9 DEF c

\* Nine periods of a unit for every year, among the lords from one on.
AmongLords(p, lord, start, unit) ==
  /\ Follow(p, 9) /\ p[1].start = start /\ p[9].end = start + 120 * unit
  /\ \A i \in 1 .. 9 :
       /\ p[i] = [lord |-> p[i].lord, start |-> p[i].start, end |-> p[i].end, sub |-> <<>>]
       /\ p[i].lord = LordFrom(lord, i - 1) /\ p[i].lord \in Lord
       /\ p[i].end = p[i].start + unit * YearsOf(p[i].lord)

\* InOrder makes them.
LEMMA InOrderIs ==
  ASSUME NEW lord \in Lord, NEW start \in Int, NEW unit \in Nat \ {0}
  PROVE  AmongLords(InOrder(lord, start, unit), lord, start, unit)
<1> DEFINE c == Cursor(lord, start, unit)
           p == InOrder(lord, start, unit)
<1>1. /\ p = [i \in 1 .. 9 |-> [lord |-> LordFrom(lord, i - 1), start |-> c[i - 1],
                               end |-> c[i], sub |-> <<>>]]
      /\ \A i \in 0 .. 9 : c[i] \in Int
      /\ \A i \in 1 .. 9 : c[i] = c[i - 1] + unit * YearsOf(LordFrom(lord, i - 1))
      /\ c[0] = start /\ c[9] = start + 120 * unit
  BY CursorIs
<1> HIDE DEF c, p
<1>2. \A i \in 1 .. 9 : p[i] = [lord |-> LordFrom(lord, i - 1), start |-> c[i - 1],
                               end |-> c[i], sub |-> <<>>]
  BY <1>1
<1>3. \A i \in 1 .. 9 : LordFrom(lord, i - 1) \in Lord /\ unit * YearsOf(LordFrom(lord, i - 1)) \in Nat \ {0}
  <2> SUFFICES ASSUME NEW i \in 1 .. 9
               PROVE  LordFrom(lord, i - 1) \in Lord /\ unit * YearsOf(LordFrom(lord, i - 1)) \in Nat \ {0}
    OBVIOUS
  <2>1. LordFrom(lord, i - 1) \in Lord
    BY LordsAre
  <2> DEFINE y == YearsOf(LordFrom(lord, i - 1))
  <2>2. y \in 6 .. 20
    BY <2>1, LordsAre
  <2> HIDE DEF y
  <2>3. unit * y \in Nat \ {0}
    BY <2>2
  <2> QED
    BY <2>1, <2>3 DEF y
<1>4. Follow(p, 9)
  <2>1. p = [i \in 1 .. 9 |-> p[i]]
    BY <1>1
  <2>2. ASSUME NEW i \in 1 .. 9
        PROVE  p[i].start \in Int /\ p[i].end \in Int /\ p[i].start < p[i].end
    <3>1. p[i].start = c[i - 1] /\ p[i].end = c[i]
      BY <1>2
    <3>0. i - 1 \in 0 .. 9 /\ i \in 0 .. 9
      OBVIOUS
    <3>2. c[i - 1] \in Int /\ c[i] \in Int /\ c[i] = c[i - 1] + unit * YearsOf(LordFrom(lord, i - 1))
      BY <1>1, <3>0
    <3>3. c[i - 1] < c[i]
      BY <1>3, <3>2
    <3> QED
      BY <3>1, <3>2, <3>3
  <2>3. ASSUME NEW i \in 1 .. 8 PROVE p[i + 1].start = p[i].end
    <3>1. i + 1 \in 1 .. 9 /\ (i + 1) - 1 = i /\ i \in 1 .. 9
      OBVIOUS
    <3>2. p[i + 1].start = c[(i + 1) - 1] /\ p[i].end = c[i]
      BY <1>2, <3>1
    <3> QED
      BY <3>1, <3>2
  <2> QED
    BY <2>1, <2>2, <2>3 DEF Follow
<1>5. p[1].start = start /\ p[9].end = start + 120 * unit
  <2>1. 1 \in 1 .. 9 /\ 9 \in 1 .. 9 /\ 1 - 1 = 0
    OBVIOUS
  <2>2. p[1].start = c[1 - 1] /\ p[9].end = c[9]
    BY <1>2, <2>1
  <2> QED
    BY <1>1, <2>1, <2>2
<1>6. \A i \in 1 .. 9 : /\ p[i] = [lord |-> p[i].lord, start |-> p[i].start, end |-> p[i].end, sub |-> <<>>]
                        /\ p[i].lord = LordFrom(lord, i - 1) /\ p[i].lord \in Lord
                        /\ p[i].end = p[i].start + unit * YearsOf(p[i].lord)
  <2> SUFFICES ASSUME NEW i \in 1 .. 9
               PROVE  /\ p[i] = [lord |-> p[i].lord, start |-> p[i].start, end |-> p[i].end, sub |-> <<>>]
                      /\ p[i].lord = LordFrom(lord, i - 1) /\ p[i].lord \in Lord
                      /\ p[i].end = p[i].start + unit * YearsOf(p[i].lord)
    OBVIOUS
  <2>1. /\ p[i] = [lord |-> LordFrom(lord, i - 1), start |-> c[i - 1], end |-> c[i], sub |-> <<>>]
        /\ c[i] = c[i - 1] + unit * YearsOf(LordFrom(lord, i - 1))
    BY <1>1, <1>2
  <2>2. p[i].lord = LordFrom(lord, i - 1) /\ p[i].start = c[i - 1] /\ p[i].end = c[i]
    BY <2>1
  <2> QED
    BY <1>3, <2>1, <2>2
<1>7. AmongLords(p, lord, start, unit)
  BY <1>4, <1>5, <1>6 DEF AmongLords
<1> QED
  BY <1>7 DEF p

\* A period that can be divided: of 120 units.
Divides(period, u) ==
  /\ u \in Nat \ {0} /\ period.lord \in Lord /\ period.start \in Int
  /\ period.end = period.start + 120 * u

\* Parts that make up a period, the first with its own lord.
PartsOf(sub, n, period) ==
  /\ Follow(sub, n)
  /\ sub[1].start = period.start /\ sub[n].end = period.end /\ sub[1].lord = period.lord
  /\ \A j \in 1 .. n - 1 : sub[j + 1].lord = LordFrom(sub[j].lord, 1)

LEMMA ChildrenAreParts ==
  ASSUME NEW period, NEW u, Divides(period, u)
  PROVE  LET c == Children(period) IN
         /\ PartsOf(c, 9, period)
         /\ \A j \in 1 .. 9 :
              /\ c[j] = [lord |-> c[j].lord, start |-> c[j].start, end |-> c[j].end, sub |-> <<>>]
              /\ c[j].lord \in Lord /\ c[j].start \in Int
              /\ c[j].end = c[j].start + u * YearsOf(c[j].lord)
<1> DEFINE a == period.start
           e == period.end
           c == Children(period)
<1>1. (e - a) \div 120 = u
  <2>1. a \in Int /\ u \in Nat /\ e = a + 120 * u
    BY DEF Divides
  <2> HIDE DEF a, e
  <2>2. e - a = 120 * u
    BY <2>1
  <2> QED
    BY <2>1, <2>2
<1>2. c = InOrder(period.lord, a, u)
  BY <1>1 DEF Children
<1>3. a \in Int /\ period.lord \in Lord /\ u \in Nat \ {0} /\ e = a + 120 * u
  BY DEF Divides
<1>4. /\ Follow(c, 9) /\ c[1].start = a /\ c[9].end = a + 120 * u
      /\ \A i \in 1 .. 9 : /\ c[i] = [lord |-> c[i].lord, start |-> c[i].start, end |-> c[i].end, sub |-> <<>>]
                           /\ c[i].lord = LordFrom(period.lord, i - 1) /\ c[i].lord \in Lord
                           /\ c[i].end = c[i].start + u * YearsOf(c[i].lord)
  <2>1. AmongLords(c, period.lord, a, u)
    BY <1>2, <1>3, InOrderIs
  <2> HIDE DEF a, e, c
  <2> QED
    BY <2>1 DEF AmongLords
<1> HIDE DEF c
<1>5. c[1].lord = period.lord
  <2>1. c[1].lord = LordFrom(period.lord, 1 - 1)
    BY <1>4
  <2> QED
    BY <1>3, <2>1 DEF LordFrom, Lord
<1>6. ASSUME NEW j \in 1 .. 8 PROVE c[j + 1].lord = LordFrom(c[j].lord, 1)
  <2>1. j + 1 \in 1 .. 9 /\ (j + 1) - 1 = j /\ j \in 1 .. 9
    OBVIOUS
  <2>2. c[j + 1].lord = LordFrom(period.lord, (j + 1) - 1) /\ c[j].lord = LordFrom(period.lord, j - 1)
    BY <1>4, <2>1
  <2>3. LordFrom(period.lord, j) = LordFrom(LordFrom(period.lord, j - 1), 1)
    BY <1>3 DEF LordFrom, Lord
  <2> QED
    BY <2>1, <2>2, <2>3
<1>7. \A j \in 1 .. 9 : c[j].start \in Int
  BY <1>4 DEF Follow
<1>8. c[1].start = period.start /\ c[9].end = period.end
  BY <1>3, <1>4
<1>9. PartsOf(c, 9, period)
  BY <1>4, <1>5, <1>6, <1>8 DEF PartsOf
<1> QED
  BY <1>4, <1>7, <1>9 DEF c

\* A period as a record.
IsPeriod(p) == p = [lord |-> p.lord, start |-> p.start, end |-> p.end, sub |-> p.sub]

\* The parts of an antardasha: of its whole length, of which the beginning may be cut off.
AntarParts(a) ==
  /\ Follow(a.sub, 9)
  /\ a.sub[1].start <= a.start /\ a.sub[9].end = a.end /\ a.sub[1].lord = a.lord
  /\ \A k \in 1 .. 8 : a.sub[k + 1].lord = LordFrom(a.sub[k].lord, 1)

\* A great period with n parts, all but perhaps the first whole.
MahaParts(m, n) ==
  /\ Follow(m.sub, n)
  /\ m.sub[1].start = m.start /\ m.sub[n].end = m.end
  /\ \A j \in 1 .. n - 1 : m.sub[j + 1].lord = LordFrom(m.sub[j].lord, 1)
  /\ \A j \in 1 .. n : AntarParts(m.sub[j])
  /\ \A j \in 2 .. n : m.sub[j].sub[1].start = m.sub[j].start

\* A whole one.
WholeParts(m) ==
  /\ MahaParts(m, 9) /\ m.sub[1].lord = m.lord /\ m.sub[1].sub[1].start = m.sub[1].start

LEMMA ExpandedIs ==
  ASSUME NEW period, NEW v \in Nat \ {0}, Divides(period, 120 * v), IsPeriod(period)
  PROVE  LET m == Expanded(period) IN
         /\ IsPeriod(m) /\ m.lord = period.lord /\ m.start = period.start /\ m.end = period.end
         /\ WholeParts(m) /\ \A j \in 1 .. 9 : IsPeriod(m.sub[j])
<1> DEFINE m == Expanded(period)
           c == Children(period)
<1>1. /\ PartsOf(c, 9, period)
      /\ \A j \in 1 .. 9 :
           /\ c[j] = [lord |-> c[j].lord, start |-> c[j].start, end |-> c[j].end, sub |-> <<>>]
           /\ c[j].lord \in Lord /\ c[j].start \in Int
           /\ c[j].end = c[j].start + (120 * v) * YearsOf(c[j].lord)
  BY ChildrenAreParts
<1>2. m = [period EXCEPT !.sub = [j \in 1 .. 9 |-> [c[j] EXCEPT !.sub = Children(c[j])]]]
  BY Zenon DEF Expanded
<1> HIDE DEF m, c
<1> DEFINE w == [j \in 1 .. 9 |-> [c[j] EXCEPT !.sub = Children(c[j])]]
<1>3. /\ IsPeriod(m) /\ m.lord = period.lord /\ m.start = period.start /\ m.end = period.end
      /\ m.sub = w
  <2>1. period = [lord |-> period.lord, start |-> period.start, end |-> period.end, sub |-> period.sub]
    BY DEF IsPeriod
  <2>2. m = [period EXCEPT !.sub = w]
    BY <1>2
  <2> HIDE DEF w
  <2>3. m = [lord |-> period.lord, start |-> period.start, end |-> period.end, sub |-> w]
    BY <2>1, <2>2
  <2> QED
    BY <2>3 DEF IsPeriod
<1>4. ASSUME NEW j \in 1 .. 9
      PROVE  /\ IsPeriod(w[j]) /\ w[j].lord = c[j].lord /\ w[j].start = c[j].start
             /\ w[j].end = c[j].end /\ w[j].sub = Children(c[j])
  <2>1. c[j] = [lord |-> c[j].lord, start |-> c[j].start, end |-> c[j].end, sub |-> <<>>]
    BY <1>1
  <2>2. w[j] = [c[j] EXCEPT !.sub = Children(c[j])]
    OBVIOUS
  <2> HIDE DEF w
  <2>3. w[j] = [lord |-> c[j].lord, start |-> c[j].start, end |-> c[j].end, sub |-> Children(c[j])]
    BY <2>1, <2>2
  <2> QED
    BY <2>3 DEF IsPeriod
<1>5. ASSUME NEW j \in 1 .. 9 PROVE PartsOf(Children(c[j]), 9, c[j])
  <2> DEFINE y == YearsOf(c[j].lord)
             a == c[j].start
             e == c[j].end
  <2>1. y \in 6 .. 20
    BY <1>1, LordsAre
  <2>2. a \in Int /\ e = a + (120 * v) * y
    BY <1>1
  <2>3. v * y \in Nat \ {0} /\ e = a + 120 * (v * y)
    <3> HIDE DEF y, a, e
    <3> QED
      BY <2>1, <2>2
  <2>4. Divides(c[j], v * y)
    BY <1>1, <2>2, <2>3 DEF Divides
  <2> HIDE DEF y
  <2> QED
    BY <2>4, ChildrenAreParts
<1>6. w = [j \in 1 .. 9 |-> w[j]]
  OBVIOUS
<1> HIDE DEF w
<1>7. /\ Follow(c, 9) /\ c[1].start = period.start /\ c[9].end = period.end
      /\ c[1].lord = period.lord /\ \A j \in 1 .. 8 : c[j + 1].lord = LordFrom(c[j].lord, 1)
  BY <1>1 DEF PartsOf
<1>8. \A j \in 1 .. 8 : j \in 1 .. 9 /\ j + 1 \in 1 .. 9
  OBVIOUS
<1>9. Follow(w, 9)
  <2>1. \A i \in 1 .. 9 : w[i].start \in Int /\ w[i].end \in Int /\ w[i].start < w[i].end
    BY <1>4, <1>7 DEF Follow
  <2>2. ASSUME NEW i \in 1 .. 8 PROVE w[i + 1].start = w[i].end
    <3>1. c[i + 1].start = c[i].end
      BY <1>7 DEF Follow
    <3> QED
      BY <1>4, <1>8, <3>1
  <2> QED
    BY <1>6, <2>1, <2>2 DEF Follow
<1>10. ASSUME NEW j \in 1 .. 9 PROVE AntarParts(w[j]) /\ w[j].sub[1].start = w[j].start
  <2> DEFINE d == Children(c[j])
  <2>0. PartsOf(d, 9, c[j])
    BY <1>5
  <2>2. w[j].sub = d /\ w[j].lord = c[j].lord /\ w[j].start = c[j].start /\ w[j].end = c[j].end
    BY <1>4
  <2>1. /\ Follow(d, 9) /\ d[1].start = c[j].start /\ d[9].end = c[j].end /\ d[1].lord = c[j].lord
        /\ \A k \in 1 .. 8 : d[k + 1].lord = LordFrom(d[k].lord, 1)
    <3> HIDE DEF d
    <3> QED
      BY <2>0 DEF PartsOf
  <2>3. c[j].start \in Int
    BY <1>1
  <2> HIDE DEF d
  <2> QED
    BY <2>1, <2>2, <2>3 DEF AntarParts
<1>11. /\ w[1].start = m.start /\ w[9].end = m.end /\ w[1].lord = m.lord
       /\ \A j \in 1 .. 8 : w[j + 1].lord = LordFrom(w[j].lord, 1)
  <2>1. 1 \in 1 .. 9 /\ 9 \in 1 .. 9
    OBVIOUS
  <2>2. ASSUME NEW j \in 1 .. 8 PROVE w[j + 1].lord = LordFrom(w[j].lord, 1)
    BY <1>4, <1>7, <1>8
  <2> QED
    BY <1>3, <1>4, <1>7, <2>1, <2>2
<1>12. WholeParts(m)
  <2>1. MahaParts(m, 9)
    BY <1>3, <1>9, <1>10, <1>11 DEF MahaParts
  <2> QED
    BY <1>3, <1>10, <1>11, <2>1 DEF WholeParts
<1> QED
  BY <1>3, <1>4, <1>12 DEF m

\* Cut at birth a great period keeps its parts from one on.
LEMMA CutIs ==
  ASSUME NEW x, IsPeriod(x), WholeParts(x), \A j \in 1 .. 9 : IsPeriod(x.sub[j]),
         x.start \in Int, x.end \in Int, x.start <= 0, 0 < x.end
  PROVE  LET y == CutAtBirth(x) IN
         /\ y.lord = x.lord /\ y.start = 0 /\ y.end = x.end
         /\ \E n \in 1 .. 9 : MahaParts(y, n)
<1> DEFINE w == x.sub
           T == {j \in 1 .. 9 : w[j].end > 0}
           cut(a) == IF a < 0 THEN 0 ELSE a
           f == Min(T)
           n == 10 - f
           kept == [j \in 1 .. n |-> [w[f + j - 1] EXCEPT !.start = cut(@)]]
           y == CutAtBirth(x)
<1>1. /\ Follow(w, 9) /\ w[1].start = x.start /\ w[9].end = x.end
      /\ \A j \in 1 .. 8 : w[j + 1].lord = LordFrom(w[j].lord, 1)
      /\ \A j \in 1 .. 9 : AntarParts(w[j])
      /\ \A j \in 1 .. 9 : w[j].sub[1].start = w[j].start
      /\ \A j \in 1 .. 9 : IsPeriod(w[j])
  <2>1. \A j \in 1 .. 9 : j = 1 \/ j \in 2 .. 9
    OBVIOUS
  <2>2. MahaParts(x, 9) /\ w[1].sub[1].start = w[1].start
    BY DEF WholeParts
  <2>3. w = x.sub /\ \A j \in 1 .. 9 : IsPeriod(w[j])
    OBVIOUS
  <2> HIDE DEF w
  <2>4. /\ Follow(w, 9) /\ w[1].start = x.start /\ w[9].end = x.end
        /\ \A j \in 1 .. 9 : AntarParts(w[j])
        /\ \A j \in 2 .. 9 : w[j].sub[1].start = w[j].start
    BY <2>2, <2>3 DEF MahaParts
  <2>5. \A j \in 1 .. 8 : w[j + 1].lord = LordFrom(w[j].lord, 1)
    BY <2>2, <2>3 DEF MahaParts
  <2> QED
    BY <2>1, <2>2, <2>3, <2>4, <2>5
<1>2. y = [x EXCEPT !.start = 0, !.sub = kept]
  BY Zenon DEF CutAtBirth
<1>3. y.lord = x.lord /\ y.start = 0 /\ y.end = x.end /\ y.sub = kept
  <2>1. x = [lord |-> x.lord, start |-> x.start, end |-> x.end, sub |-> x.sub]
    BY DEF IsPeriod
  <2> HIDE DEF y, kept, w
  <2>2. y = [lord |-> x.lord, start |-> 0, end |-> x.end, sub |-> kept]
    BY <1>2, <2>1
  <2> QED
    BY <2>2
<1> HIDE DEF y, w
<1>4. f \in T /\ \A j \in T : f <= j
  <2>1. 9 \in T
    BY <1>1
  <2>2. T \subseteq Nat /\ T # {}
    BY <2>1
  <2>3. \E a \in T : \A b \in T : a <= b
    <3> HIDE DEF T
    <3> QED
      BY <2>2, LeastNumber
  <2> HIDE DEF T
  <2>4. f = CHOOSE a \in T : \A b \in T : a <= b
    BY DEF Min
  <2> HIDE DEF f
  <2> QED
    BY <2>3, <2>4
<1>5. f \in 1 .. 9 /\ w[f].end > 0 /\ \A j \in 1 .. 9 : j < f => w[j].end <= 0
  <2>1. f \in 1 .. 9 /\ w[f].end > 0
    BY <1>4
  <2>2. ASSUME NEW j \in 1 .. 9, j < f PROVE w[j].end <= 0
    <3>1. ~ (w[j].end > 0)
      BY <1>4, <2>1, <2>2
    <3>2. w[j].end \in Int
      BY <1>1 DEF Follow
    <3> QED
      BY <3>1, <3>2
  <2> QED
    BY <2>1, <2>2
<1> HIDE DEF f
<1>6. n \in 1 .. 9 /\ f + n - 1 = 9 /\ f + 1 - 1 = f
  BY <1>5
<1>7. \A j \in 1 .. n : f + j - 1 \in 1 .. 9 /\ (j > 1 => f + j - 1 > f) /\ (j = 1 => f + j - 1 = f)
  BY <1>5
<1>8. w[f].start <= 0 /\ w[f].start \in Int
  <2>1. CASE f = 1
    BY <1>1, <2>1
  <2>2. CASE f # 1
    <3>1. f - 1 \in 1 .. 9 /\ f - 1 \in 1 .. 8 /\ (f - 1) + 1 = f /\ f - 1 < f
      BY <1>5, <2>2
    <3>2. w[f].start = w[f - 1].end
      BY <1>1, <3>1 DEF Follow
    <3>3. w[f - 1].end <= 0 /\ w[f - 1].end \in Int
      BY <1>1, <1>5, <3>1 DEF Follow
    <3> QED
      BY <3>2, <3>3
  <2> QED
    BY <2>1, <2>2
<1>9. ASSUME NEW i \in 1 .. 9, i > f PROVE w[i].start > 0 /\ w[i].start \in Int
  <2>1. w[f].end <= w[i].start
    BY <1>1, <1>5, <1>9, EarlierEnds
  <2>2. w[i].start \in Int /\ w[f].end \in Int
    BY <1>1, <1>5 DEF Follow
  <2> QED
    BY <1>5, <2>1, <2>2
<1>10. ASSUME NEW j \in 1 .. n
       PROVE  /\ kept[j].lord = w[f + j - 1].lord /\ kept[j].end = w[f + j - 1].end
              /\ kept[j].sub = w[f + j - 1].sub
              /\ kept[j].start = IF j = 1 THEN 0 ELSE w[f + j - 1].start
  <2> DEFINE i == f + j - 1
  <2>1. i \in 1 .. 9 /\ (j > 1 => i > f) /\ (j = 1 => i = f)
    BY <1>7
  <2>2. kept[j] = [w[i] EXCEPT !.start = cut(@)]
    OBVIOUS
  <2> HIDE DEF i, kept
  <2>3. w[i] = [lord |-> w[i].lord, start |-> w[i].start, end |-> w[i].end, sub |-> w[i].sub]
    BY <1>1, <2>1 DEF IsPeriod
  <2>4. kept[j] = [lord |-> w[i].lord, start |-> cut(w[i].start), end |-> w[i].end, sub |-> w[i].sub]
    BY <2>2, <2>3
  <2>5. cut(w[i].start) = IF j = 1 THEN 0 ELSE w[i].start
    <3>1. CASE j = 1
      BY <1>8, <2>1, <3>1
    <3>2. CASE j # 1
      <4>1. w[i].start > 0 /\ w[i].start \in Int
        BY <1>9, <2>1, <3>2
      <4> QED
        BY <3>2, <4>1
    <3> QED
      BY <3>1, <3>2
  <2>6. /\ kept[j].lord = w[i].lord /\ kept[j].end = w[i].end /\ kept[j].sub = w[i].sub
        /\ kept[j].start = cut(w[i].start)
    BY <2>4
  <2> QED
    BY <2>5, <2>6 DEF i
<1>11. kept = [j \in 1 .. n |-> kept[j]]
  OBVIOUS
<1> HIDE DEF kept
<1>12. Follow(kept, n)
  <2>1. ASSUME NEW i \in 1 .. n
        PROVE  kept[i].start \in Int /\ kept[i].end \in Int /\ kept[i].start < kept[i].end
    <3> DEFINE k == f + i - 1
    <3>1. k \in 1 .. 9 /\ (i = 1 => k = f)
      BY <1>7
    <3>2. w[k].start \in Int /\ w[k].end \in Int /\ w[k].start < w[k].end
      BY <1>1, <3>1 DEF Follow
    <3>3. kept[i].end = w[k].end /\ kept[i].start = IF i = 1 THEN 0 ELSE w[k].start
      BY <1>10
    <3> HIDE DEF k
    <3> QED
      BY <1>5, <3>1, <3>2, <3>3
  <2>2. ASSUME NEW i \in 1 .. n - 1 PROVE kept[i + 1].start = kept[i].end
    <3>1. i + 1 \in 1 .. n /\ i \in 1 .. n /\ i + 1 # 1 /\ f + (i + 1) - 1 = (f + i - 1) + 1
          /\ f + i - 1 \in 1 .. 8
      BY <1>5, <1>6
    <3>2. kept[i + 1].start = w[(f + i - 1) + 1].start /\ kept[i].end = w[f + i - 1].end
      BY <1>10, <3>1
    <3>3. w[(f + i - 1) + 1].start = w[f + i - 1].end
      BY <1>1, <3>1 DEF Follow
    <3> QED
      BY <3>2, <3>3
  <2>3. n \in Nat \ {0}
    BY <1>6
  <2> HIDE DEF n
  <2> QED
    BY <1>11, <2>1, <2>2, <2>3 DEF Follow
<1>13. kept[1].start = 0 /\ kept[n].end = x.end
  <2>1. 1 \in 1 .. n /\ n \in 1 .. n
    BY <1>6
  <2>2. kept[n].end = w[f + n - 1].end
    BY <1>10, <2>1
  <2> QED
    BY <1>1, <1>6, <1>10, <2>1, <2>2
<1>14. ASSUME NEW j \in 1 .. n - 1 PROVE kept[j + 1].lord = LordFrom(kept[j].lord, 1)
  <2>1. j + 1 \in 1 .. n /\ j \in 1 .. n /\ f + (j + 1) - 1 = (f + j - 1) + 1 /\ f + j - 1 \in 1 .. 8
    BY <1>5, <1>6
  <2>2. kept[j + 1].lord = w[(f + j - 1) + 1].lord /\ kept[j].lord = w[f + j - 1].lord
    BY <1>10, <2>1
  <2> QED
    BY <1>1, <2>1, <2>2
<1>15. ASSUME NEW j \in 1 .. n
       PROVE  AntarParts(kept[j]) /\ (j # 1 => kept[j].sub[1].start = kept[j].start)
  <2> DEFINE i == f + j - 1
  <2>1. i \in 1 .. 9 /\ (j = 1 => i = f)
    BY <1>7
  <2>2. /\ kept[j].lord = w[i].lord /\ kept[j].end = w[i].end /\ kept[j].sub = w[i].sub
        /\ kept[j].start = IF j = 1 THEN 0 ELSE w[i].start
    BY <1>10
  <2> HIDE DEF i
  <2>3. AntarParts(w[i]) /\ w[i].sub[1].start = w[i].start /\ w[i].start \in Int
    BY <1>1, <2>1 DEF Follow
  <2>4. w[i].start <= kept[j].start
    BY <1>8, <2>1, <2>2, <2>3
  <2>5. kept[j].sub[1].start <= kept[j].start
    BY <2>2, <2>3, <2>4
  <2> QED
    BY <2>2, <2>3, <2>5 DEF AntarParts
<1>16. \A j \in 2 .. n : kept[j].sub[1].start = kept[j].start
  <2>1. \A j \in 2 .. n : j \in 1 .. n /\ j # 1
    BY <1>6
  <2> HIDE DEF n
  <2> QED
    BY <1>15, <2>1
<1>17. MahaParts(y, n)
  <2> HIDE DEF n
  <2> QED
    BY <1>3, <1>12, <1>13, <1>14, <1>15, <1>16 DEF MahaParts
<1> QED
  BY <1>3, <1>6, <1>17 DEF y

\* The tree of a life that has left so much of the 120 years.
TreeShape(p, left) ==
  /\ Follow(p, 9) /\ p[1].start = 0 /\ p[9].end = left
  /\ \A i \in 1 .. 8 : p[i + 1].lord = LordFrom(p[i].lord, 1)
  /\ \E n \in 1 .. 9 : MahaParts(p[1], n)
  /\ \A i \in 2 .. 9 : WholeParts(p[i])

\* What the Moon had passed is less than the first period.
LEMMA ElapsedIs ==
  ASSUME NEW lon \in Int
  PROVE  /\ Ruler(lon) \in Lord /\ Elapsed(lon) \in Nat
         /\ Elapsed(lon) < YearsOf(Ruler(lon)) * Year
<1> DEFINE m == normalize360(lon)
           q == (m % 13440) \div 1680
           y == YearsOf(Ruler(lon))
<1>1. m \in Nat
  BY DEF normalize360, Circle, SignSpan, Degree
<1>2. nakshatraSpan = 13440 /\ nakshatraSpan \div 8 = 1680
  BY DEF nakshatraSpan, Circle, SignSpan, Degree
<1>3. Ruler(lon) \in Lord
  <2>1. nakshatraOf(lon) = m \div 13440
    BY <1>2 DEF nakshatraOf
  <2> HIDE DEF m
  <2>2. m \div 13440 \in Nat
    BY <1>1
  <2> QED
    BY <2>1, <2>2 DEF Ruler, Lord
<1>4. y \in 6 .. 20
  BY <1>3, LordsAre
<1>5. q \in 0 .. 7
  <2> HIDE DEF m
  <2>1. m % 13440 \in Nat /\ m % 13440 < 13440
    BY <1>1
  <2> DEFINE k == m % 13440
  <2>2. k \in Nat /\ k < 13440
    BY <2>1
  <2> HIDE DEF k
  <2>3. k \div 1680 \in 0 .. 7
    BY <2>2
  <2> QED
    BY <2>3 DEF k
<1>6. Elapsed(lon) = y * 1800 * q
  <2>1. Year \div 8 = 1800
    BY DEF Year
  <2>2. Elapsed(lon) = y * (Year \div 8) * ((m % nakshatraSpan) \div (nakshatraSpan \div 8))
    BY DEF Elapsed
  <2> HIDE DEF y, m
  <2> QED
    BY <1>2, <2>1, <2>2
<1> HIDE DEF y, q
<1>7. y * 1800 * q \in Nat /\ y * 1800 * q < y * 14400
  <2>1. y * 1800 * q = (y * q) * 1800 /\ y * 14400 = (y * 8) * 1800
    BY <1>4, <1>5
  <2> DEFINE k == y * q
             l == y * 8
  <2>2. k \in Nat /\ l \in Nat /\ k < l
    BY <1>4, <1>5
  <2> HIDE DEF k, l
  <2>3. k * 1800 \in Nat /\ k * 1800 < l * 1800
    BY <2>2
  <2> QED
    BY <2>1, <2>3 DEF k, l
<1> QED
  BY <1>3, <1>6, <1>7 DEF Year, y

LEMMA TreeIs ==
  ASSUME NEW lon \in Int
  PROVE  TreeShape(computeVimshottariFromMoon(lon), 120 * Year - Elapsed(lon))
<1> DEFINE r == Ruler(lon)
           a == - Elapsed(lon)
           p == InOrder(r, a, Year)
           t == computeVimshottariFromMoon(lon)
           x == Expanded(p[1])
<1>1. /\ r \in Lord /\ a \in Int /\ a <= 0 /\ 0 < a + YearsOf(r) * Year /\ 120 * Year - Elapsed(lon) = a + 120 * Year
  <2> DEFINE e == Elapsed(lon)
             y == YearsOf(r)
  <2>1. r \in Lord /\ e \in Nat /\ e < y * Year
    BY ElapsedIs
  <2>2. y \in 6 .. 20 /\ Year \in Nat
    BY <2>1, LordsAre DEF Year
  <2>3. a = - e
    OBVIOUS
  <2> HIDE DEF e, y, a, r
  <2>4. y * Year \in Int
    BY <2>2
  <2>5. a \in Int /\ a <= 0 /\ 0 < a + y * Year /\ 120 * Year - e = a + 120 * Year
    BY <2>1, <2>2, <2>3, <2>4
  <2> QED
    BY <2>1, <2>5 DEF e, y
<1>2. Year \in Nat \ {0} /\ Year = 120 * 120
  BY DEF Year
<1>3. t = [i \in 1 .. 9 |-> IF i = 1 THEN CutAtBirth(x) ELSE Expanded(p[i])]
  BY Zenon DEF computeVimshottariFromMoon
<1> HIDE DEF r, a, t, x
<1>4. /\ Follow(p, 9) /\ p[1].start = a /\ p[9].end = a + 120 * Year
      /\ \A i \in 1 .. 9 : /\ p[i] = [lord |-> p[i].lord, start |-> p[i].start, end |-> p[i].end, sub |-> <<>>]
                           /\ p[i].lord = LordFrom(r, i - 1) /\ p[i].lord \in Lord
                           /\ p[i].end = p[i].start + Year * YearsOf(p[i].lord)
  <2>1. r \in Lord /\ a \in Int /\ Year \in Nat \ {0}
    BY <1>1, <1>2
  <2>2. AmongLords(p, r, a, Year)
    BY <2>1, InOrderIs
  <2> HIDE DEF p
  <2> QED
    BY <2>2 DEF AmongLords
<1> HIDE DEF p
<1>5. ASSUME NEW i \in 1 .. 9
      PROVE  LET m == Expanded(p[i]) IN
             /\ IsPeriod(m) /\ m.lord = p[i].lord /\ m.start = p[i].start /\ m.end = p[i].end
             /\ WholeParts(m) /\ \A j \in 1 .. 9 : IsPeriod(m.sub[j])
  <2> DEFINE v == 120 * YearsOf(p[i].lord)
  <2>1. YearsOf(p[i].lord) \in 6 .. 20
    BY <1>4, LordsAre
  <2> DEFINE y == YearsOf(p[i].lord)
  <2>2. y \in Nat \ {0} /\ p[i].start \in Int /\ p[i].end = p[i].start + 120 * (120 * y)
    <3> DEFINE b == p[i].start
               e == p[i].end
    <3>1. y \in 6 .. 20 /\ b \in Int /\ e = b + Year * y
      BY <1>4, <2>1 DEF Follow
    <3> HIDE DEF y, b, e
    <3>2. Year * y = 120 * (120 * y)
      BY <1>2, <3>1
    <3>3. y \in Nat \ {0} /\ b \in Int /\ e = b + 120 * (120 * y)
      BY <3>1, <3>2
    <3> QED
      BY <3>3 DEF b, e
  <2> HIDE DEF y
  <2>3. Divides(p[i], 120 * y)
    BY <1>4, <2>2 DEF Divides
  <2>4. IsPeriod(p[i])
    BY <1>4 DEF IsPeriod
  <2> QED
    BY <2>2, <2>3, <2>4, ExpandedIs
<1>6. /\ x.lord = p[1].lord /\ x.start = a /\ x.end = p[1].end
      /\ IsPeriod(x) /\ WholeParts(x) /\ \A j \in 1 .. 9 : IsPeriod(x.sub[j])
  <2>1. 1 \in 1 .. 9
    OBVIOUS
  <2>2. LET m == Expanded(p[1]) IN
        /\ IsPeriod(m) /\ m.lord = p[1].lord /\ m.start = p[1].start /\ m.end = p[1].end
        /\ WholeParts(m) /\ \A j \in 1 .. 9 : IsPeriod(m.sub[j])
    BY <1>5, <2>1
  <2> QED
    BY <1>4, <2>2 DEF x
<1>7. p[1].end \in Int /\ 0 < p[1].end
  <2>1. p[1].lord = r
    <3>1. p[1].lord = LordFrom(r, 1 - 1)
      BY <1>4
    <3> QED
      BY <1>1, <3>1 DEF LordFrom, Lord
  <2>2. p[1].end = a + Year * YearsOf(r)
    BY <1>4, <2>1
  <2>3. YearsOf(r) \in 6 .. 20
    BY <1>1, LordsAre
  <2> DEFINE y == YearsOf(r)
  <2>4. y \in Nat /\ 0 < a + y * Year
    BY <1>1, <2>3
  <2> HIDE DEF y
  <2>5. Year * y = y * Year /\ y * Year \in Int
    BY <1>2, <2>4
  <2>6. p[1].end = a + y * Year
    BY <2>2, <2>5 DEF y
  <2> QED
    BY <1>1, <2>4, <2>5, <2>6
<1>8. LET y == CutAtBirth(x) IN
      /\ y.lord = x.lord /\ y.start = 0 /\ y.end = x.end
      /\ \E n \in 1 .. 9 : MahaParts(y, n)
  BY <1>1, <1>6, <1>7, CutIs
<1>9. t[1] = CutAtBirth(x) /\ \A i \in 2 .. 9 : t[i] = Expanded(p[i])
  BY <1>3
<1>10. t = [i \in 1 .. 9 |-> t[i]]
  BY <1>3
<1>11. /\ t[1].lord = p[1].lord /\ t[1].start = 0 /\ t[1].end = p[1].end
       /\ \E n \in 1 .. 9 : MahaParts(t[1], n)
  BY <1>6, <1>8, <1>9
<1>12. ASSUME NEW i \in 2 .. 9
       PROVE  /\ t[i].lord = p[i].lord /\ t[i].start = p[i].start /\ t[i].end = p[i].end
              /\ WholeParts(t[i])
  <2>1. i \in 1 .. 9 /\ t[i] = Expanded(p[i])
    BY <1>9
  <2> QED
    BY <1>5, <2>1
<1>13. \A i \in 1 .. 8 : i \in 1 .. 9 /\ i + 1 \in 2 .. 9 /\ (i = 1 \/ i \in 2 .. 9)
  OBVIOUS
<1>14. \A i \in 1 .. 9 : /\ t[i].lord = p[i].lord /\ t[i].end = p[i].end
                         /\ t[i].start = IF i = 1 THEN 0 ELSE p[i].start
  <2>1. \A i \in 1 .. 9 : i = 1 \/ i \in 2 .. 9
    OBVIOUS
  <2> QED
    BY <1>11, <1>12, <2>1
<1>15. Follow(t, 9)
  <2>1. ASSUME NEW i \in 1 .. 9
        PROVE  t[i].start \in Int /\ t[i].end \in Int /\ t[i].start < t[i].end
    <3>1. p[i].start \in Int /\ p[i].end \in Int /\ p[i].start < p[i].end
      BY <1>4 DEF Follow
    <3> QED
      BY <1>7, <1>14, <3>1
  <2>2. ASSUME NEW i \in 1 .. 8 PROVE t[i + 1].start = t[i].end
    <3>1. p[i + 1].start = p[i].end
      <4>1. i \in 1 .. 9 - 1 /\ Follow(p, 9)
        BY <1>4
      <4> HIDE DEF p
      <4> QED
        BY <4>1, NextStarts
    <3>2. t[i + 1].start = p[i + 1].start
      BY <1>12, <1>13
    <3>3. t[i].end = p[i].end
      BY <1>13, <1>14
    <3> QED
      BY <3>1, <3>2, <3>3
  <2> QED
    BY <1>10, <2>1, <2>2 DEF Follow
<1>16. t[9].end = a + 120 * Year
  BY <1>4, <1>14
<1>17. ASSUME NEW i \in 1 .. 8 PROVE t[i + 1].lord = LordFrom(t[i].lord, 1)
  <2>1. i + 1 \in 1 .. 9 /\ i \in 1 .. 9 /\ (i + 1) - 1 = i
    OBVIOUS
  <2>2. t[i + 1].lord = LordFrom(r, i) /\ t[i].lord = LordFrom(r, i - 1)
    BY <1>4, <1>14, <2>1
  <2>3. LordFrom(r, i) = LordFrom(LordFrom(r, i - 1), 1)
    BY <1>1 DEF LordFrom, Lord
  <2> QED
    BY <2>2, <2>3
<1>18. TreeShape(t, a + 120 * Year)
  BY <1>11, <1>12, <1>15, <1>16, <1>17 DEF TreeShape
<1> QED
  BY <1>1, <1>18 DEF t

-----------------------------------------------------------------------------
(* The current path *)

LEMMA LengthIs ==
  ASSUME NEW p, NEW n, Follow(p, n)
  PROVE  Len(p) = n /\ DOMAIN p = 1 .. n
<1> DEFINE S == {p[i] : i \in 1 .. n}
           f == [i \in 1 .. n |-> p[i]]
<1>1. n \in Nat /\ p = f
  BY DEF Follow
<1>2. f \in [1 .. n -> S]
  OBVIOUS
<1>3. p \in [1 .. n -> S]
  <2> HIDE DEF S, f
  <2> QED
    BY <1>1, <1>2
<1>4. p \in Seq(S)
  <2> HIDE DEF S, f
  <2> QED
    BY <1>1, <1>3
<1>5. DOMAIN p = 1 .. n
  <2> HIDE DEF S, f
  <2> QED
    BY <1>3
<1> HIDE DEF S, f
<1> QED
  BY <1>1, <1>4, <1>5

\* Each lies within the whole.
LEMMA PartIsWithin ==
  ASSUME NEW p, NEW n, Follow(p, n), NEW i \in 1 .. n
  PROVE  p[1].start <= p[i].start /\ p[i].end <= p[n].end
<1>0. n \in Nat \ {0} /\ 1 \in 1 .. n /\ n \in 1 .. n
  BY DEF Follow
<1> DEFINE a == p[1].start
           b == p[1].end
           c == p[i].start
           d == p[i].end
           e == p[n].start
           f == p[n].end
<1>1. /\ a \in Int /\ b \in Int /\ c \in Int /\ d \in Int /\ e \in Int /\ f \in Int
      /\ a < b /\ c < d /\ e < f
  BY <1>0 DEF Follow
<1>2. (1 < i => b <= c) /\ (i < n => d <= e)
  BY <1>0, EarlierEnds
<1>3. (i = 1 => a = c) /\ (i = n => d = f)
  OBVIOUS
<1>4. (1 < i \/ i = 1) /\ (i < n \/ i = n)
  BY <1>0
<1> HIDE DEF a, b, c, d, e, f
<1>5. a <= c /\ d <= f
  BY <1>1, <1>2, <1>3, <1>4
<1> QED
  BY <1>5 DEF a, c, d, f

\* After the last, none holds.
LEMMA NoneHolds ==
  ASSUME NEW p, NEW n, Follow(p, n), NEW t \in Int, p[n].end <= t
  PROVE  Current(p, t) = {}
<1>1. DOMAIN p = 1 .. n
  BY LengthIs
<1>2. ASSUME NEW i \in 1 .. n PROVE ~ Holds(p[i], t)
  <2>0. n \in 1 .. n
    BY DEF Follow
  <2>1. p[i].end <= p[n].end /\ p[i].end \in Int /\ p[n].end \in Int
    BY <2>0, PartIsWithin DEF Follow
  <2> DEFINE a == p[i].end
             b == p[n].end
  <2>2. a <= b /\ a \in Int /\ b \in Int /\ b <= t
    BY <2>1
  <2> HIDE DEF a, b
  <2>3. ~ (t < a)
    BY <2>2
  <2> QED
    BY <2>3 DEF Holds, a
<1> QED
  BY <1>1, <1>2 DEF Current

LEMMA LeastOfOne == ASSUME NEW x \in Int PROVE Min({x}) = x
BY DEF Min

\* The periods of a moment: the great period i, of n parts, of which the j-th, and the k-th
\* part of that.
MomentOf(p, t, i, n, j, k) ==
  /\ i \in 1 .. 9 /\ n \in 1 .. 9 /\ j \in 1 .. n /\ k \in 1 .. 9
  /\ MahaParts(p[i], n)
  /\ Holds(p[i], t) /\ Current(p, t) = {i}
  /\ Holds(p[i].sub[j], t) /\ Current(p[i].sub, t) = {j}
  /\ Holds(p[i].sub[j].sub[k], t) /\ Current(p[i].sub[j].sub, t) = {k}

LEMMA MomentIs ==
  ASSUME NEW p, NEW left, TreeShape(p, left), NEW t \in Int, 0 <= t, t < left
  PROVE  \E i, n, j, k : MomentOf(p, t, i, n, j, k)
<1>1. PICK i \in 1 .. 9 : Holds(p[i], t) /\ Current(p, t) = {i}
  BY OneHolds DEF TreeShape
<1>2. PICK n \in 1 .. 9 : MahaParts(p[i], n)
  <2>1. i = 1 \/ i \in 2 .. 9
    OBVIOUS
  <2>2. ASSUME i \in 2 .. 9 PROVE MahaParts(p[i], 9)
    BY <2>2 DEF TreeShape, WholeParts
  <2>3. i = 1 => \E n \in 1 .. 9 : MahaParts(p[i], n)
    BY DEF TreeShape
  <2> QED
    BY <2>1, <2>2, <2>3
<1> DEFINE m == p[i]
<1>3. m.start <= t /\ t < m.end
  BY <1>1 DEF Holds
<1>4. Follow(m.sub, n) /\ m.sub[1].start <= t /\ t < m.sub[n].end
  BY <1>2, <1>3 DEF MahaParts
<1>5. PICK j \in 1 .. n : Holds(m.sub[j], t) /\ Current(m.sub, t) = {j}
  <2> HIDE DEF m
  <2> QED
    BY <1>4, OneHolds
<1> DEFINE a == m.sub[j]
<1>6. AntarParts(a) /\ a.start <= t /\ t < a.end
  BY <1>2, <1>5 DEF MahaParts, Holds
<1>7. Follow(a.sub, 9) /\ a.sub[1].start <= t /\ t < a.sub[9].end
  <2> DEFINE b == a.sub[1].start
             c == a.start
  <2>1. Follow(a.sub, 9) /\ b <= c /\ a.sub[9].end = a.end
    BY <1>6 DEF AntarParts
  <2>2. b \in Int /\ c \in Int
    <3>1. b \in Int
      <4> HIDE DEF a
      <4> QED
        BY <2>1 DEF Follow
    <3>2. c \in Int
      <4> HIDE DEF m
      <4> QED
        BY <1>4 DEF Follow
    <3> QED
      BY <3>1, <3>2
  <2> HIDE DEF b, c
  <2>3. c <= t
    BY <1>6 DEF c
  <2>4. b <= t
    BY <2>1, <2>2, <2>3
  <2> QED
    BY <1>6, <2>1, <2>4 DEF b
<1>8. PICK k \in 1 .. 9 : Holds(a.sub[k], t) /\ Current(a.sub, t) = {k}
  <2> HIDE DEF a
  <2> QED
    BY <1>7, OneHolds
<1>9. MomentOf(p, t, i, n, j, k)
  BY <1>1, <1>2, <1>5, <1>8, Zenon DEF MomentOf
<1> QED
  BY <1>9

LEMMA PathIs ==
  ASSUME NEW p, NEW t, NEW i, NEW n, NEW j, NEW k, MomentOf(p, t, i, n, j, k)
  PROVE  CurrentPath(p, t) = <<p[i], p[i].sub[j], p[i].sub[j].sub[k]>>
<1>1. /\ Current(p, t) = {i} /\ Current(p[i].sub, t) = {j} /\ Current(p[i].sub[j].sub, t) = {k}
      /\ i \in 1 .. 9 /\ n \in 1 .. 9 /\ j \in 1 .. n /\ k \in 1 .. 9
  BY DEF MomentOf
<1>2. Min({i}) = i /\ Min({j}) = j /\ Min({k}) = k
  BY <1>1, LeastOfOne
<1>3. {i} # {}
  OBVIOUS
<1> QED
  BY <1>1, <1>2, <1>3, Zenon DEF CurrentPath

\* When the smallest period ends, one follows it, unless the life is over: its sibling, or else
\* the first part of the next on the level above, or of the next great period.
LEMMA NextMoment ==
  ASSUME NEW p, NEW left, TreeShape(p, left), NEW t \in Int,
         NEW i, NEW n, NEW j, NEW k, MomentOf(p, t, i, n, j, k)
  PROVE  LET e == p[i].sub[j].sub[k].end IN
         /\ e \in Int /\ t < e
         /\ k < 9 => MomentOf(p, e, i, n, j, k + 1)
         /\ k = 9 /\ j < n => MomentOf(p, e, i, n, j + 1, 1)
         /\ k = 9 /\ j = n /\ i < 9 => MomentOf(p, e, i + 1, 9, 1, 1)
         /\ k = 9 /\ j = n /\ i = 9 => Current(p, e) = {}
<1> DEFINE m == p[i]
           a == m.sub[j]
           b == a.sub[k]
           e == b.end
<1>1. /\ i \in 1 .. 9 /\ n \in 1 .. 9 /\ j \in 1 .. n /\ k \in 1 .. 9
      /\ MahaParts(m, n) /\ Holds(m, t) /\ Holds(a, t) /\ Holds(b, t)
      /\ Current(p, t) = {i} /\ Current(m.sub, t) = {j}
  BY Zenon DEF MomentOf
<1>2. Follow(p, 9) /\ p[9].end = left /\ \A h \in 2 .. 9 : WholeParts(p[h])
  BY DEF TreeShape
<1>3. /\ Follow(m.sub, n) /\ m.sub[n].end = m.end
      /\ \A h \in 1 .. n : AntarParts(m.sub[h])
      /\ \A h \in 2 .. n : m.sub[h].sub[1].start = m.sub[h].start
  <2> HIDE DEF m
  <2> QED
    BY <1>1 DEF MahaParts
<1>4. Follow(a.sub, 9) /\ a.sub[9].end = a.end
  BY <1>1, <1>3 DEF AntarParts
<1>5. m.start \in Int /\ m.end \in Int
  BY <1>1, <1>2 DEF Follow
<1>6. a.start \in Int /\ a.end \in Int
  <2> HIDE DEF m
  <2> QED
    BY <1>1, <1>3 DEF Follow
<1>7. b.start \in Int /\ e \in Int
  <2> HIDE DEF a
  <2> QED
    BY <1>1, <1>4 DEF Follow
<1>8. e <= a.end
  <2> HIDE DEF a
  <2> QED
    BY <1>1, <1>4, PartIsWithin
<1>9. a.end <= m.end
  <2> HIDE DEF m
  <2> QED
    BY <1>1, <1>3, PartIsWithin
<1>10. /\ m.start <= t /\ a.start <= t /\ t < e
  BY <1>1 DEF Holds
<1>11. (e < m.end => Holds(m, e)) /\ (e < a.end => Holds(a, e))
  <2> HIDE DEF m, a, e
  <2> QED
    BY <1>5, <1>6, <1>7, <1>10 DEF Holds
<1>12. /\ Holds(m, e) => Current(p, e) = {i}
       /\ Holds(a, e) => Current(m.sub, e) = {j}
  <2>1. Holds(m, e) => Current(p, e) = {i}
    <3> HIDE DEF e
    <3> QED
      BY <1>1, <1>2, <1>7, HoldersAreOne
  <2>2. Holds(a, e) => Current(m.sub, e) = {j}
    <3> HIDE DEF m, e
    <3> QED
      BY <1>1, <1>3, <1>7, HoldersAreOne
  <2> QED
    BY <2>1, <2>2
<1>13. ASSUME k < 9 PROVE MomentOf(p, e, i, n, j, k + 1)
  <2>1. k \in 1 .. 9 - 1 /\ k + 1 \in 1 .. 9
    BY <1>1, <1>13
  <2>2. Holds(a.sub[k + 1], e) /\ Current(a.sub, e) = {k + 1}
    <3> HIDE DEF a
    <3> QED
      BY <1>4, <2>1, NextHolds
  <2>3. e < a.end
    <3> DEFINE c == a.sub[k + 1]
    <3>1. c.start = e /\ c.start < c.end /\ c.start \in Int /\ c.end \in Int /\ c.end <= a.end
      <4> HIDE DEF a
      <4>1. c.start = e
        BY <1>4, <2>1 DEF Follow
      <4>2. c.start < c.end /\ c.start \in Int /\ c.end \in Int
        BY <1>4, <2>1 DEF Follow
      <4>3. c.end <= a.end
        BY <1>4, <2>1, PartIsWithin
      <4> QED
        BY <4>1, <4>2, <4>3
    <3> HIDE DEF a, c, e
    <3> QED
      BY <1>6, <3>1
  <2>4. e < m.end
    <3> HIDE DEF a, m, e
    <3> QED
      BY <1>5, <1>6, <1>7, <1>9, <2>3
  <2> QED
    BY <1>1, <1>11, <1>12, <2>1, <2>2, <2>3, <2>4, Zenon DEF MomentOf
<1>14. k = 9 => e = a.end
  <2> HIDE DEF a
  <2> QED
    BY <1>4
<1>15. ASSUME k = 9, j < n PROVE MomentOf(p, e, i, n, j + 1, 1)
  <2> DEFINE c == m.sub[j + 1]
  <2>1. j \in 1 .. n - 1 /\ j + 1 \in 1 .. n /\ j + 1 \in 2 .. n /\ 1 \in 1 .. 9
    BY <1>1, <1>15
  <2>2. Holds(c, a.end) /\ Current(m.sub, a.end) = {j + 1}
    <3> HIDE DEF m
    <3> QED
      BY <1>3, <2>1, NextHolds
  <2>3. c.start = a.end /\ c.start < c.end /\ c.start \in Int /\ c.end \in Int /\ c.end <= m.end
    <3> HIDE DEF m
    <3>1. c.start = a.end
      BY <1>3, <2>1 DEF Follow
    <3>2. c.start < c.end /\ c.start \in Int /\ c.end \in Int
      BY <1>3, <2>1 DEF Follow
    <3>3. c.end <= m.end
      BY <1>3, <2>1, PartIsWithin
    <3> QED
      BY <3>1, <3>2, <3>3
  <2>4. AntarParts(c) /\ c.sub[1].start = c.start
    BY <1>3, <2>1
  <2>5. Holds(c.sub[1], a.end) /\ Current(c.sub, a.end) = {1}
    <3>1. Follow(c.sub, 9) /\ c.sub[1].start = a.end
      BY <2>3, <2>4 DEF AntarParts
    <3>2. Holds(c.sub[1], c.sub[1].start) /\ Current(c.sub, c.sub[1].start) = {1}
      <4> HIDE DEF c
      <4> QED
        BY <3>1, FirstHolds
    <3> QED
      BY <3>1, <3>2, Zenon
  <2>6. e = a.end
    BY <1>14, <1>15
  <2>7. e < m.end
    <3> HIDE DEF a, c, m, e
    <3> QED
      BY <1>5, <2>3, <2>6
  <2>8. Current(p, e) = {i} /\ Holds(m, e)
    BY <1>11, <1>12, <2>7
  <2> HIDE DEF e, a
  <2> QED
    BY <1>1, <2>1, <2>2, <2>5, <2>6, <2>8, Zenon DEF MomentOf
<1>16. k = 9 /\ j = n => e = m.end
  BY <1>3, <1>14
<1>17. ASSUME k = 9, j = n, i < 9 PROVE MomentOf(p, e, i + 1, 9, 1, 1)
  <2> DEFINE c == p[i + 1]
             d == c.sub[1]
  <2>1. i \in 1 .. 9 - 1 /\ i + 1 \in 2 .. 9 /\ i + 1 \in 1 .. 9 /\ 1 \in 1 .. 9 /\ 9 \in 1 .. 9
    BY <1>1, <1>17
  <2>2. Holds(c, m.end) /\ Current(p, m.end) = {i + 1}
    BY <1>2, <2>1, NextHolds
  <2>3. c.start = m.end
    <3>1. i \in 1 .. 8
      BY <2>1
    <3> QED
      BY <1>2, <3>1 DEF Follow
  <2>4. WholeParts(c)
    BY <1>2, <2>1
  <2>5. /\ MahaParts(c, 9) /\ Follow(c.sub, 9) /\ c.sub[1].start = c.start
        /\ AntarParts(d) /\ d.sub[1].start = d.start
    <3> HIDE DEF c
    <3>1. MahaParts(c, 9) /\ c.sub[1].sub[1].start = c.sub[1].start
      BY <2>4 DEF WholeParts
    <3> QED
      BY <2>1, <3>1 DEF MahaParts
  <2>6. Holds(d, m.end) /\ Current(c.sub, m.end) = {1}
    <3>1. Holds(c.sub[1], c.sub[1].start) /\ Current(c.sub, c.sub[1].start) = {1}
      <4> HIDE DEF c
      <4> QED
        BY <2>5, FirstHolds
    <3> QED
      BY <2>3, <2>5, <3>1, Zenon
  <2>7. Holds(d.sub[1], m.end) /\ Current(d.sub, m.end) = {1}
    <3>1. Follow(d.sub, 9) /\ d.sub[1].start = m.end
      BY <2>3, <2>5 DEF AntarParts
    <3>2. Holds(d.sub[1], d.sub[1].start) /\ Current(d.sub, d.sub[1].start) = {1}
      <4> HIDE DEF d
      <4> QED
        BY <3>1, FirstHolds
    <3> QED
      BY <3>1, <3>2, Zenon
  <2>8. e = m.end
    BY <1>16, <1>17
  <2> HIDE DEF e, m
  <2> QED
    BY <2>1, <2>2, <2>5, <2>6, <2>7, <2>8, Zenon DEF MomentOf
<1>18. ASSUME k = 9, j = n, i = 9 PROVE Current(p, e) = {}
  <2>1. e = p[9].end
    BY <1>16, <1>18
  <2>2. e \in Int /\ p[9].end <= e
    BY <1>7, <2>1
  <2> HIDE DEF e
  <2> QED
    BY <1>2, <2>2, NoneHolds
<1>19. e \in Int /\ t < e
  BY <1>7, <1>10
<1> HIDE DEF m, a, b, e
<1> QED
  BY <1>13, <1>15, <1>17, <1>18, <1>19 DEF m, a, b, e

\* A tree that was asked for has this shape, and the moment asked about is after birth.
DashaInv ==
  Grown => /\ birthMoon \in MoonPlace /\ at \in Nat
           /\ TreeShape(tree, 120 * Year - Elapsed(birthMoon))

LEMMA DashaStep == DashaInv /\ [DashaNext]_dashaVars => DashaInv'
<1> SUFFICES ASSUME DashaInv, [DashaNext]_dashaVars, Grown' PROVE DashaInv'
  BY DEF DashaInv
<1>1. ASSUME NEW lon \in MoonPlace, AskDasha(lon) PROVE DashaInv'
  <2>1. lon \in Int
    BY DashaAssumption
  <2>2. birthMoon' = lon /\ tree' = computeVimshottariFromMoon(lon) /\ at' = 0
    BY <1>1 DEF AskDasha
  <2>3. TreeShape(tree', 120 * Year - Elapsed(birthMoon'))
    BY <2>1, <2>2, TreeIs
  <2> QED
    BY <2>2, <2>3 DEF DashaInv
<1>2. CASE AskLater
  <2>1. birthMoon' = birthMoon /\ tree' = tree /\ at' = CurrentPath(tree, at)[3].end
        /\ CurrentPath(tree, at) # <<>> /\ Grown
    BY <1>2 DEF AskLater
  <2> DEFINE left == 120 * Year - Elapsed(birthMoon)
  <2>2. birthMoon \in MoonPlace /\ at \in Nat /\ TreeShape(tree, left)
    BY <2>1 DEF DashaInv
  <2>3. left \in Int
    <3>1. Elapsed(birthMoon) \in Nat
      BY <2>2, DashaAssumption, ElapsedIs
    <3> QED
      BY <3>1 DEF Year
  <2> HIDE DEF left
  <2>4. at < left
    <3> SUFFICES ASSUME ~ (at < left) PROVE FALSE
      OBVIOUS
    <3>1. Follow(tree, 9) /\ tree[9].end = left
      BY <2>2 DEF TreeShape
    <3>2. at \in Int /\ tree[9].end <= at
      BY <2>2, <2>3, <3>1
    <3>3. Current(tree, at) = {}
      BY <3>1, <3>2, NoneHolds
    <3> QED
      BY <2>1, <3>3 DEF CurrentPath
  <2>5. PICK i, n, j, k : MomentOf(tree, at, i, n, j, k)
    BY <2>2, <2>4, MomentIs
  <2>6. at' = tree[i].sub[j].sub[k].end
    <3>1. CurrentPath(tree, at) = <<tree[i], tree[i].sub[j], tree[i].sub[j].sub[k]>>
      BY <2>5, PathIs
    <3> QED
      BY <2>1, <3>1
  <2>7. at' \in Int /\ at < at'
    BY <2>2, <2>5, <2>6, NextMoment
  <2>8. at' \in Nat
    BY <2>2, <2>7
  <2>9. TreeShape(tree', 120 * Year - Elapsed(birthMoon'))
    BY <2>1, <2>2 DEF left
  <2> QED
    BY <2>1, <2>2, <2>8, <2>9 DEF DashaInv
<1>3. CASE UNCHANGED dashaVars
  BY <1>3 DEF dashaVars, DashaInv, Grown
<1> QED
  BY <1>1, <1>2, <1>3 DEF DashaNext

\* So one period of each level is current until the 120 years are over.
LEMMA PeriodsOfLife == DashaInv => OnePeriodIsCurrent
<1> DEFINE left == 120 * Year - Elapsed(birthMoon)
<1> SUFFICES ASSUME DashaInv, Grown
             PROVE  /\ tree[9].end = left
                    /\ at < left =>
                         \E i \in 1 .. 9 :
                           /\ Current(tree, at) = {i}
                           /\ tree[i].sub[1].start = tree[i].start
                           /\ tree[i].sub[Len(tree[i].sub)].end = tree[i].end
                           /\ \E j \in DOMAIN tree[i].sub :
                                /\ Current(tree[i].sub, at) = {j}
                                /\ Cardinality(Current(tree[i].sub[j].sub, at)) = 1
  BY Zenon DEF OnePeriodIsCurrent
<1>1. at \in Nat /\ TreeShape(tree, left)
  BY DEF DashaInv
<1> HIDE DEF left
<1>2. tree[9].end = left
  BY <1>1 DEF TreeShape
<1>3. ASSUME at < left
      PROVE  \E i \in 1 .. 9 :
               /\ Current(tree, at) = {i}
               /\ tree[i].sub[1].start = tree[i].start
               /\ tree[i].sub[Len(tree[i].sub)].end = tree[i].end
               /\ \E j \in DOMAIN tree[i].sub :
                    /\ Current(tree[i].sub, at) = {j}
                    /\ Cardinality(Current(tree[i].sub[j].sub, at)) = 1
  <2>1. PICK i, n, j, k : MomentOf(tree, at, i, n, j, k)
    <3>1. at \in Int /\ 0 <= at
      BY <1>1
    <3> QED
      BY <1>1, <1>3, <3>1, MomentIs
  <2>2. /\ i \in 1 .. 9 /\ j \in 1 .. n /\ MahaParts(tree[i], n)
        /\ Current(tree, at) = {i} /\ Current(tree[i].sub, at) = {j}
        /\ Current(tree[i].sub[j].sub, at) = {k}
    BY <2>1, Zenon DEF MomentOf
  <2>3. /\ Follow(tree[i].sub, n) /\ tree[i].sub[1].start = tree[i].start
        /\ tree[i].sub[n].end = tree[i].end
    BY <2>2, Zenon DEF MahaParts
  <2>4. Len(tree[i].sub) = n /\ DOMAIN tree[i].sub = 1 .. n
    BY <2>3, LengthIs
  <2>5. Cardinality({k}) = 1
    BY FS_Singleton
  <2> QED
    BY <2>2, <2>3, <2>4, <2>5, Zenon
<1> QED
  BY <1>2, <1>3

\* The changed levels of two paths.
Changes(old, new) == {n \in 1 .. 3 : old[n].start # new[n].start}

LEMMA LeastChange ==
  /\ Min({3}) = 3 /\ Min({2, 3}) = 2 /\ Min({1, 2, 3}) = 1
<1>1. ASSUME NEW S \in {{3}, {2, 3}, {1, 2, 3}}, NEW x \in S, \A y \in S : x <= y
      PROVE  Min(S) = x
  <2>1. \A z \in S : (\A y \in S : z <= y) => z = x
    BY <1>1
  <2>2. Min(S) \in S /\ \A y \in S : Min(S) <= y
    BY <1>1, Zenon DEF Min
  <2> QED
    BY <2>1, <2>2
<1> QED
  BY <1>1

\* And the lords turn in order.
LEMMA LordsTurn == DashaInv /\ [DashaNext]_dashaVars => LordTurn
<1> DEFINE old == CurrentPath(tree, at)
           new == CurrentPath(tree, at')
           changed == Changes(old, new)
<1> SUFFICES ASSUME DashaInv, [DashaNext]_dashaVars, Grown, at' # at, new # <<>>
             PROVE  /\ changed # {}
                    /\ new[Min(changed)].lord = LordFrom(old[Min(changed)].lord, 1)
                    /\ \A n \in changed : n > Min(changed) => new[n].lord = new[n - 1].lord
  BY Zenon DEF LordTurn, Changes
<1>1. AskLater
  <2>1. ~ UNCHANGED dashaVars
    BY DEF dashaVars
  <2>2. ASSUME NEW lon \in MoonPlace PROVE ~ AskDasha(lon)
    BY DEF AskDasha
  <2> QED
    BY <2>1, <2>2 DEF DashaNext
<1> DEFINE left == 120 * Year - Elapsed(birthMoon)
<1>2. at \in Nat /\ TreeShape(tree, left) /\ birthMoon \in MoonPlace
  BY DEF DashaInv
<1>3. left \in Int
  <2>1. Elapsed(birthMoon) \in Nat
    BY <1>2, DashaAssumption, ElapsedIs
  <2> QED
    BY <2>1 DEF Year
<1> HIDE DEF left
<1>4. at < left
  <2> SUFFICES ASSUME ~ (at < left) PROVE FALSE
    OBVIOUS
  <2>1. Follow(tree, 9) /\ tree[9].end = left
    BY <1>2 DEF TreeShape
  <2>2. at \in Int /\ tree[9].end <= at
    BY <1>2, <1>3, <2>1
  <2>3. Current(tree, at) = {}
    BY <2>1, <2>2, NoneHolds
  <2> QED
    BY <1>1, <2>3 DEF CurrentPath, AskLater
<1>5. PICK i, n, j, k : MomentOf(tree, at, i, n, j, k)
  BY <1>2, <1>4, MomentIs
<1> DEFINE m == tree[i]
           a == m.sub[j]
           b == a.sub[k]
           e == b.end
<1>6. old = <<m, a, b>>
  BY <1>5, PathIs
<1>7. at' = e
  <2> HIDE DEF m, a, b
  <2> QED
    BY <1>1, <1>6 DEF AskLater
<1>8. /\ e \in Int /\ at < e
      /\ k < 9 => MomentOf(tree, e, i, n, j, k + 1)
      /\ k = 9 /\ j < n => MomentOf(tree, e, i, n, j + 1, 1)
      /\ k = 9 /\ j = n /\ i < 9 => MomentOf(tree, e, i + 1, 9, 1, 1)
      /\ k = 9 /\ j = n /\ i = 9 => Current(tree, e) = {}
  <2>1. at \in Int
    BY <1>2
  <2> QED
    BY <1>2, <1>5, <2>1, NextMoment
<1>9. /\ i \in 1 .. 9 /\ n \in 1 .. 9 /\ j \in 1 .. n /\ k \in 1 .. 9
      /\ MahaParts(m, n) /\ Holds(m, at) /\ Holds(a, at) /\ Holds(b, at)
  BY <1>5, Zenon DEF MomentOf
<1>10. /\ Follow(tree, 9) /\ \A h \in 1 .. 8 : tree[h + 1].lord = LordFrom(tree[h].lord, 1)
       /\ \A h \in 2 .. 9 : WholeParts(tree[h])
  BY <1>2 DEF TreeShape
<1>11. /\ Follow(m.sub, n) /\ \A h \in 1 .. n - 1 : m.sub[h + 1].lord = LordFrom(m.sub[h].lord, 1)
       /\ \A h \in 1 .. n : AntarParts(m.sub[h])
       /\ \A h \in 2 .. n : m.sub[h].sub[1].start = m.sub[h].start
  <2> HIDE DEF m
  <2> QED
    BY <1>9 DEF MahaParts
<1>12. /\ Follow(a.sub, 9) /\ a.sub[9].end = a.end
       /\ \A h \in 1 .. 8 : a.sub[h + 1].lord = LordFrom(a.sub[h].lord, 1)
  BY <1>9, <1>11 DEF AntarParts
<1>13. m.start <= at /\ a.start <= at /\ b.start <= at
  BY <1>9 DEF Holds
<1>14. m.start \in Int /\ a.start \in Int /\ b.start \in Int
  <2>1. m.start \in Int
    BY <1>9, <1>10 DEF Follow
  <2>2. a.start \in Int
    <3> HIDE DEF m
    <3> QED
      BY <1>9, <1>11 DEF Follow
  <2>3. b.start \in Int
    <3> HIDE DEF a
    <3> QED
      BY <1>9, <1>12 DEF Follow
  <2> QED
    BY <2>1, <2>2, <2>3
<1>15. m.start # e /\ a.start # e /\ b.start # e
  <2> HIDE DEF m, a, b, e
  <2> QED
    BY <1>2, <1>8, <1>13, <1>14
<1>16. CASE k < 9
  <2> DEFINE c == a.sub[k + 1]
  <2>1. new = <<m, a, c>>
    <3>1. MomentOf(tree, e, i, n, j, k + 1)
      BY <1>8, <1>16
    <3>2. CurrentPath(tree, e) = <<m, a, c>>
      <4> HIDE DEF e
      <4> QED
        BY <3>1, PathIs
    <3> QED
      BY <1>7, <3>2, Zenon
  <2>2. c.start = e /\ c.lord = LordFrom(b.lord, 1)
    <3>1. k \in 1 .. 8
      BY <1>9, <1>16
    <3> HIDE DEF a
    <3>2. c.start = a.sub[k].end
      <4>1. Follow(a.sub, 9) /\ k \in 1 .. 9 - 1
        BY <1>12, <3>1
      <4> QED
        BY <4>1, NextStarts
    <3>3. c.lord = LordFrom(a.sub[k].lord, 1)
      BY <1>12, <3>1
    <3> QED
      BY <3>2, <3>3
  <2> HIDE DEF old, new, m, a, b, c, e
  <2>3. changed = {3}
    BY <1>6, <1>15, <2>1, <2>2 DEF Changes
  <2>4. Min(changed) = 3 /\ new[3] = c /\ old[3] = b
    BY <1>6, <2>1, <2>3, LeastChange
  <2>5. \A h \in changed : ~ (h > Min(changed))
    BY <2>3, <2>4
  <2> QED
    BY <2>2, <2>3, <2>4, <2>5
<1>17. k = 9 => e = a.end
  <2> HIDE DEF a
  <2> QED
    BY <1>12
<1>18. CASE k = 9 /\ j < n
  <2> DEFINE c == m.sub[j + 1]
             d == c.sub[1]
  <2>1. new = <<m, c, d>>
    <3>1. MomentOf(tree, e, i, n, j + 1, 1)
      BY <1>8, <1>18
    <3>2. CurrentPath(tree, e) = <<m, c, d>>
      <4> HIDE DEF e
      <4> QED
        BY <3>1, PathIs
    <3> QED
      BY <1>7, <3>2, Zenon
  <2>2. c.start = a.end /\ c.lord = LordFrom(a.lord, 1) /\ AntarParts(c) /\ d.start = c.start
    <3>1. j \in 1 .. n - 1 /\ j + 1 \in 1 .. n /\ j + 1 \in 2 .. n
      BY <1>9, <1>18
    <3> HIDE DEF m
    <3> QED
      BY <1>11, <3>1 DEF Follow
  <2>3. d.lord = c.lord
    <3> HIDE DEF c
    <3> QED
      BY <2>2 DEF AntarParts
  <2>4. c.start = e /\ d.start = e
    BY <1>17, <1>18, <2>2
  <2> HIDE DEF old, new, m, a, b, c, d, e
  <2>5. changed = {2, 3}
    BY <1>6, <1>15, <2>1, <2>4 DEF Changes
  <2>6. Min(changed) = 2 /\ new[2] = c /\ new[3] = d /\ old[2] = a
    BY <1>6, <2>1, <2>5, LeastChange
  <2>7. ASSUME NEW h \in changed, h > Min(changed) PROVE new[h].lord = new[h - 1].lord
    <3>1. h = 3
      BY <2>5, <2>6, <2>7
    <3> QED
      BY <2>3, <2>6, <3>1
  <2> QED
    BY <2>2, <2>5, <2>6, <2>7
<1>19. k = 9 /\ j = n => e = m.end
  <2>1. m.sub[n].end = m.end
    <3> HIDE DEF m
    <3> QED
      BY <1>9 DEF MahaParts
  <2> QED
    BY <1>17, <2>1
<1>20. CASE k = 9 /\ j = n
  <2> DEFINE c == tree[i + 1]
             d == c.sub[1]
             f == d.sub[1]
  <2>0. i < 9
    <3> SUFFICES ASSUME i = 9 PROVE FALSE
      BY <1>9
    <3>1. Current(tree, at') = {}
      BY <1>7, <1>8, <1>20
    <3> QED
      BY <3>1 DEF CurrentPath
  <2>1. new = <<c, d, f>>
    <3>1. MomentOf(tree, e, i + 1, 9, 1, 1)
      BY <1>8, <1>20, <2>0
    <3>2. CurrentPath(tree, e) = <<c, d, f>>
      <4> HIDE DEF e
      <4> QED
        BY <3>1, PathIs
    <3> QED
      BY <1>7, <3>2, Zenon
  <2>2. c.start = m.end /\ c.lord = LordFrom(m.lord, 1) /\ WholeParts(c)
    <3>1. i \in 1 .. 8 /\ i + 1 \in 2 .. 9
      BY <1>9, <2>0
    <3>2. c.start = m.end
      <4>1. Follow(tree, 9) /\ i \in 1 .. 9 - 1
        BY <1>10, <3>1
      <4> QED
        BY <4>1, NextStarts
    <3>3. c.lord = LordFrom(m.lord, 1) /\ WholeParts(c)
      BY <1>10, <3>1
    <3> QED
      BY <3>2, <3>3
  <2>3. /\ d.lord = c.lord /\ d.start = c.start
        /\ f.start = d.start /\ f.lord = d.lord
    <3>0. 1 \in 1 .. 9
      OBVIOUS
    <3> HIDE DEF c
    <3>1. MahaParts(c, 9) /\ d.lord = c.lord /\ f.start = d.start
      BY <2>2 DEF WholeParts
    <3>2. d.start = c.start /\ AntarParts(d)
      BY <3>0, <3>1 DEF MahaParts
    <3>3. f.lord = d.lord
      <4> HIDE DEF d
      <4> QED
        BY <3>2 DEF AntarParts
    <3> QED
      BY <3>1, <3>2, <3>3
  <2>4. c.start = e /\ d.start = e /\ f.start = e
    BY <1>19, <1>20, <2>2, <2>3
  <2> HIDE DEF old, new, m, a, b, c, d, e, f
  <2>5. changed = {1, 2, 3}
    BY <1>6, <1>15, <2>1, <2>4 DEF Changes
  <2>6. Min(changed) = 1 /\ new[1] = c /\ new[2] = d /\ new[3] = f /\ old[1] = m
    BY <1>6, <2>1, <2>5, LeastChange
  <2>7. ASSUME NEW h \in changed, h > Min(changed) PROVE new[h].lord = new[h - 1].lord
    <3>1. h = 2 \/ h = 3
      BY <2>5, <2>6, <2>7
    <3> QED
      BY <2>3, <2>6, <3>1
  <2> QED
    BY <2>2, <2>5, <2>6, <2>7
<1>21. k < 9 \/ (k = 9 /\ j < n) \/ (k = 9 /\ j = n)
  BY <1>9
<1> QED
  BY <1>16, <1>18, <1>20, <1>21

-----------------------------------------------------------------------------
(* The events of a forecast: those told of *)

\* A weight is a number from 1 to 12.
LEMMA WeightBound == ASSUME NEW e PROVE eventWeight(e) \in 1 .. 12
<1> DEFINE b == CASE e.body \in {"Pluto", "Neptune", "Uranus"} -> 5
                  [] e.body = "Saturn" -> 4
                  [] e.body \in {"Jupiter", "Chiron"} -> 3
                  [] e.body = "Mars" -> 2
                  [] OTHER -> 0
           a == CASE e.aspect = "conjunction" -> 3
                  [] e.aspect \in {"opposition", "square"} -> 2
                  [] e.aspect \in {"trine", "sextile"} -> 1
                  [] OTHER -> 0
           p == IF e.point \in {"Sun", "Moon", "Ascendant", "Midheaven"} THEN 2 ELSE 0
           t == IF e.type \in {"lunation", "retrograde"} THEN 1 ELSE 0
<1>1. b \in 0 .. 5
  OBVIOUS
<1>2. a \in 0 .. 3
  OBVIOUS
<1>3. p \in 0 .. 2 /\ t \in 0 .. 1
  OBVIOUS
<1>4. eventWeight(e) = 1 + b + a + p + t
  BY DEF eventWeight
<1> HIDE DEF a, b, p, t
<1> QED
  BY <1>1, <1>2, <1>3, <1>4

\* Of a set of places there is a heaviest, and a first of the heaviest.
LEMMA HeaviestPlace ==
  ASSUME NEW S, S \subseteq Nat, S # {}, NEW w, \A p \in S : w[p] \in 1 .. 12,
         NEW best, \A p : p \in best <=> p \in S /\ \A q \in S : w[q] <= w[p]
  PROVE  Min(best) \in best /\ \A p \in best : Min(best) <= p
<1> DEFINE D == {12 - w[p] : p \in S}
<1>1. D \subseteq Nat /\ D # {}
  <2>1. \A p \in S : 12 - w[p] \in Nat
    OBVIOUS
  <2> QED
    BY <2>1
<1>2. PICK x \in D : \A y \in D : x <= y
  <2> HIDE DEF D
  <2> QED
    BY <1>1, LeastNumber
<1>3. PICK p \in S : x = 12 - w[p]
  BY <1>2
<1>4. p \in best
  <2>1. \A q \in S : 12 - w[p] <= 12 - w[q]
    BY <1>2, <1>3
  <2> QED
    BY <2>1
<1>5. best \subseteq Nat /\ best # {}
  BY <1>4
<1>6. \E m \in best : \A q \in best : m <= q
  BY <1>5, LeastNumber
<1> QED
  BY <1>6 DEF Min

\* Places in which each of m events is once.
Shuffled(places, m) ==
  /\ places \in [1 .. m -> 1 .. m]
  /\ \A i, j \in 1 .. m : places[i] = places[j] => i = j
  /\ \A p \in 1 .. m : \E i \in 1 .. m : places[i] = p

\* After n rounds each of the first n is as heavy as any behind it, and the first is the
\* first of the heaviest.
Picked(es, places, n) ==
  /\ Shuffled(places, Len(es))
  /\ \A i \in 1 .. n : \A j \in 1 .. Len(es) : i < j =>
       eventWeight(es[places[j]]) <= eventWeight(es[places[i]])
  /\ n >= 1 => es[places[1]] = Heaviest(es)

\* Another round.
LEMMA RoundPicks ==
  ASSUME NEW es, Len(es) \in Nat, DOMAIN es = 1 .. Len(es), NEW n \in Nat, n < Len(es),
         NEW places, Picked(es, places, n), n = 0 => places = [k \in DOMAIN es |-> k]
  PROVE  Picked(es, SelectionRound(es, places, n + 1), n + 1)
<1> DEFINE m == Len(es)
           S == n + 1 .. m
           w == [j \in S |-> eventWeight(es[places[j]])]
           best == {j \in S : \A k \in S : w[k] <= w[j]}
           b == Min(best)
           next == SelectionRound(es, places, n + 1)
<1>0. m \in Nat /\ n + 1 \in 1 .. m /\ S \subseteq 1 .. m /\ S \subseteq Nat /\ S # {}
  OBVIOUS
<1>1. \A j \in S : w[j] = eventWeight(es[places[j]]) /\ w[j] \in 1 .. 12
  BY WeightBound
<1>2. next = Swap(places, n + 1, b)
  <2>1. {j \in S : \A k \in S : eventWeight(es[places[k]]) <= eventWeight(es[places[j]])} = best
    BY <1>1
  <2> QED
    BY <2>1, Zenon DEF SelectionRound
<1>3. b \in best /\ \A j \in best : b <= j
  <2>1. \A p \in S : w[p] \in 1 .. 12
    BY <1>1
  <2>2. \A j : j \in best <=> j \in S /\ \A k \in S : w[k] <= w[j]
    OBVIOUS
  <2> HIDE DEF S, w, best
  <2> QED
    BY <1>0, <2>1, <2>2, HeaviestPlace
<1>4. b \in 1 .. m /\ b >= n + 1 /\ \A k \in S : eventWeight(es[places[k]]) <= eventWeight(es[places[b]])
  BY <1>1, <1>3
<1>5. /\ places \in [1 .. m -> 1 .. m]
      /\ \A i, j \in 1 .. m : places[i] = places[j] => i = j
      /\ \A p \in 1 .. m : \E i \in 1 .. m : places[i] = p
      /\ \A i \in 1 .. n : \A j \in 1 .. m : i < j =>
           eventWeight(es[places[j]]) <= eventWeight(es[places[i]])
  BY DEF Picked, Shuffled
<1> DEFINE from(x) == IF x = b THEN n + 1 ELSE IF x = n + 1 THEN b ELSE x
<1> HIDE DEF m, S, w, best, b
<1>6. next \in [1 .. m -> 1 .. m] /\ \A x \in 1 .. m : next[x] = places[from(x)]
  <2>1. next = [[places EXCEPT ![n + 1] = places[b]] EXCEPT ![b] = places[n + 1]]
    BY <1>2 DEF Swap
  <2>2. n + 1 \in 1 .. m /\ b \in 1 .. m
    BY <1>0, <1>4
  <2> HIDE DEF next
  <2>3. next \in [1 .. m -> 1 .. m]
    BY <1>5, <2>1, <2>2
  <2>4. ASSUME NEW x \in 1 .. m PROVE next[x] = places[from(x)]
    BY <1>5, <2>1, <2>2
  <2> QED
    BY <2>3, <2>4
<1>7. \A x \in 1 .. m : /\ from(x) \in 1 .. m /\ from(from(x)) = x
                        /\ x <= n => from(x) = x
                        /\ x > n => from(x) > n
  BY <1>0, <1>4
<1> HIDE DEF next, from
<1>8. Shuffled(next, m)
  <2>1. ASSUME NEW i \in 1 .. m, NEW j \in 1 .. m, next[i] = next[j] PROVE i = j
    <3>1. from(i) = from(j)
      BY <1>5, <1>6, <1>7, <2>1
    <3> QED
      BY <1>7, <3>1
  <2>2. ASSUME NEW p \in 1 .. m PROVE \E i \in 1 .. m : next[i] = p
    <3>1. PICK i \in 1 .. m : places[i] = p
      BY <1>5
    <3>2. from(i) \in 1 .. m /\ next[from(i)] = p
      BY <1>6, <1>7, <3>1
    <3> QED
      BY <3>2
  <2> QED
    BY <1>6, <2>1, <2>2 DEF Shuffled
<1>9. ASSUME NEW i \in 1 .. n + 1, NEW j \in 1 .. m, i < j
      PROVE  eventWeight(es[next[j]]) <= eventWeight(es[next[i]])
  <2>0. i \in 1 .. m /\ from(j) \in 1 .. m
    BY <1>0, <1>7
  <2>1. CASE i <= n
    <3>1. from(i) = i /\ i < from(j) /\ i \in 1 .. n
      BY <1>0, <1>7, <1>9, <2>0, <2>1
    <3> QED
      BY <1>5, <1>6, <2>0, <3>1
  <2>2. CASE i = n + 1
    <3>1. next[i] = places[b]
      BY <1>6, <2>0, <2>2 DEF from
    <3>2. from(j) \in S
      BY <1>0, <1>7, <1>9, <2>0, <2>2 DEF S
    <3> QED
      BY <1>4, <1>6, <3>1, <3>2
  <2> QED
    BY <2>1, <2>2
<1>10. es[next[1]] = Heaviest(es)
  <2>1. CASE n = 0
    <3>1. S = 1 .. m /\ S = DOMAIN es
      BY <1>0, <2>1 DEF S, m
    <3>2. \A k \in S : places[k] = k
      BY <2>1, <3>1
    <3>3. {i \in DOMAIN es : \A j \in DOMAIN es : eventWeight(es[j]) <= eventWeight(es[i])} = best
      <4>1. \A j \in S : w[j] = eventWeight(es[j])
        BY <1>1, <3>2
      <4> DEFINE heavy == {i \in DOMAIN es : \A j \in DOMAIN es : eventWeight(es[j]) <= eventWeight(es[i])}
      <4>2. ASSUME NEW i PROVE i \in heavy <=> i \in best
        <5>1. i \in heavy <=> i \in S /\ \A j \in S : eventWeight(es[j]) <= eventWeight(es[i])
          BY <3>1
        <5>2. i \in best <=> i \in S /\ \A j \in S : w[j] <= w[i]
          BY DEF best
        <5> HIDE DEF heavy
        <5> QED
          BY <4>1, <5>1, <5>2
      <4> HIDE DEF heavy
      <4>3. heavy = best
        BY <4>2
      <4> QED
        BY <4>3 DEF heavy
    <3>4. Heaviest(es) = es[b]
      BY <3>3, Zenon DEF Heaviest, b
    <3>5. next[1] = places[b] /\ places[b] = b
      BY <1>0, <1>4, <1>6, <2>1, <3>1, <3>2 DEF from
    <3> QED
      BY <3>4, <3>5
  <2>2. CASE n # 0
    <3>1. 1 \in 1 .. m /\ from(1) = 1
      BY <1>0, <1>7, <2>2
    <3>2. next[1] = places[1]
      BY <1>6, <3>1
    <3> QED
      BY <2>2, <3>2 DEF Picked
  <2> QED
    BY <2>1, <2>2
<1> QED
  BY <1>8, <1>9, <1>10 DEF Picked, next, m

\* All rounds.
LEMMA RoundsPick ==
  ASSUME NEW es, Len(es) \in Nat, DOMAIN es = 1 .. Len(es), NEW n \in Nat, n <= Len(es)
  PROVE  Picked(es, Selection(es, n), n)
<1> DEFINE id == [k \in DOMAIN es |-> k]
           W(f, k) == [i \in 0 .. k |-> IF i = 0 THEN id ELSE SelectionRound(es, f[i - 1], i)]
           T == {k \in Nat : \E f : f = W(f, k)}
<1>1. ASSUME NEW k \in Nat, \A j \in Nat : j < k => j \in T PROVE k \in T
  <2>1. CASE k = 0
    <3> DEFINE f == [i \in 0 .. 0 |-> id]
    <3>1. f = W(f, 0)
      <4>1. \A i \in 0 .. 0 : i = 0
        OBVIOUS
      <4> HIDE DEF id
      <4> QED
        BY <4>1
    <3> QED
      BY <2>1, <3>1
  <2>2. CASE k # 0
    <3>1. k - 1 \in Nat /\ k - 1 < k
      BY <2>2
    <3>2. PICK f : f = W(f, k - 1)
      BY <1>1, <3>1
    <3> DEFINE g == [i \in 0 .. k |-> IF i = k THEN SelectionRound(es, f[k - 1], k) ELSE f[i]]
    <3>3. ASSUME NEW i \in 0 .. k PROVE g[i] = IF i = 0 THEN id ELSE SelectionRound(es, g[i - 1], i)
      <4>1. CASE i = k
        <5>1. k - 1 \in 0 .. k /\ k - 1 # k
          BY <3>1
        <5> QED
          BY <2>2, <4>1, <5>1
      <4>2. CASE i # k
        <5>1. i \in 0 .. k - 1 /\ (i # 0 => i - 1 \in 0 .. k /\ i - 1 # k)
          BY <4>2
        <5>2. f[i] = IF i = 0 THEN id ELSE SelectionRound(es, f[i - 1], i)
          <6> HIDE DEF id, T
          <6> QED
            BY <3>2, <5>1, Zenon
        <5> HIDE DEF id, T
        <5> QED
          BY <4>2, <5>1, <5>2
      <4> QED
        BY <4>1, <4>2
    <3>4. g = [i \in 0 .. k |-> g[i]]
      OBVIOUS
    <3>5. g = W(g, k)
      <4> HIDE DEF g, id
      <4> QED
        BY <3>3, <3>4
    <3> QED
      BY <3>5, Zenon
  <2> QED
    BY <2>1, <2>2
<1>2. \E f : f = W(f, n)
  <2>1. \A k \in Nat : k \in T
    <3> HIDE DEF T
    <3> QED
      BY <1>1, NumbersBelow
  <2> QED
    BY <2>1
<1> DEFINE c == CHOOSE f : f = W(f, n)
<1>3. Selection(es, n) = c[n]
  BY Zenon DEF Selection
<1>4. c = W(c, n)
  <2> HIDE DEF W
  <2> QED
    BY <1>2
<1> HIDE DEF c, T
<1>5. ASSUME NEW i \in 0 .. n PROVE c[i] = IF i = 0 THEN id ELSE SelectionRound(es, c[i - 1], i)
  <2> HIDE DEF id
  <2> QED
    BY <1>4, Zenon
<1> DEFINE U == {i \in Nat : i <= n => Picked(es, c[i], i)}
<1>6. ASSUME NEW i \in Nat, \A j \in Nat : j < i => j \in U PROVE i \in U
  <2> SUFFICES ASSUME i <= n PROVE Picked(es, c[i], i)
    OBVIOUS
  <2>1. CASE i = 0
    <3>1. c[0] = id
      BY <1>5
    <3>2. Shuffled(id, Len(es))
      BY DEF Shuffled
    <3> QED
      BY <2>1, <3>1, <3>2 DEF Picked
  <2>2. CASE i # 0
    <3> DEFINE k == i - 1
    <3>1. k \in Nat /\ k < i /\ k + 1 = i /\ k < Len(es) /\ i \in 0 .. n /\ k \in 0 .. n
      BY <2>2
    <3>2. Picked(es, c[k], k)
      BY <1>6, <3>1
    <3>3. c[i] = SelectionRound(es, c[k], k + 1) /\ (k = 0 => c[k] = id)
      BY <1>5, <2>2, <3>1
    <3> HIDE DEF k, U
    <3>4. Picked(es, SelectionRound(es, c[k], k + 1), k + 1)
      BY <3>1, <3>2, <3>3, RoundPicks
    <3> QED
      BY <3>1, <3>3, <3>4
  <2> QED
    BY <2>1, <2>2
<1>7. \A i \in Nat : i \in U
  <2> HIDE DEF U
  <2> QED
    BY <1>6, NumbersBelow
<1> QED
  BY <1>3, <1>7

\* c has the n places of f, the smaller ones first.
InOrderOf(c, f, n) ==
  /\ c \in [1 .. n -> {f[i] : i \in 1 .. n}]
  /\ \A i, j \in 1 .. n : i < j => c[i] < c[j]
  /\ \A i \in 1 .. n : \E j \in 1 .. n : c[j] = f[i]

\* Different places can be put in order.
LEMMA PlacesInOrder ==
  \A n \in Nat : \A f : (/\ \A i \in 1 .. n : f[i] \in Nat
                        /\ \A i, j \in 1 .. n : f[i] = f[j] => i = j) => \E c : InOrderOf(c, f, n)
<1> DEFINE Places(f, n) == /\ \A i \in 1 .. n : f[i] \in Nat
                           /\ \A i, j \in 1 .. n : f[i] = f[j] => i = j
           T == {n \in Nat : \A f : Places(f, n) => \E c : InOrderOf(c, f, n)}
<1>1. ASSUME NEW n \in Nat, \A m \in Nat : m < n => m \in T PROVE n \in T
  <2> SUFFICES ASSUME NEW f, Places(f, n) PROVE \E c : InOrderOf(c, f, n)
    OBVIOUS
  <2>1. CASE n = 0
    <3>1. InOrderOf(<<>>, f, 0)
      BY DEF InOrderOf
    <3> QED
      BY <2>1, <3>1
  <2>2. CASE n # 0
    <3> DEFINE R == {f[i] : i \in 1 .. n}
    <3>1. R \subseteq Nat /\ R # {}
      <4>1. 1 \in 1 .. n
        BY <2>2
      <4> QED
        BY <4>1
    <3>2. PICK x \in R : \A y \in R : x <= y
      <4> HIDE DEF R
      <4> QED
        BY <3>1, LeastNumber
    <3>3. PICK k \in 1 .. n : x = f[k]
      BY <3>2
    <3> DEFINE past(i) == IF i < k THEN i ELSE i + 1
               g == [i \in 1 .. n - 1 |-> f[past(i)]]
    <3>4. /\ \A i \in 1 .. n - 1 : past(i) \in 1 .. n /\ past(i) # k
          /\ \A i, j \in 1 .. n - 1 : past(i) = past(j) => i = j
          /\ \A i \in 1 .. n : i # k => \E j \in 1 .. n - 1 : past(j) = i
      <4>1. \A i \in 1 .. n : i # k => /\ i < k => i \in 1 .. n - 1 /\ past(i) = i
                                       /\ i > k => i - 1 \in 1 .. n - 1 /\ past(i - 1) = i
        OBVIOUS
      <4>2. \A i \in 1 .. n : i # k => i < k \/ i > k
        OBVIOUS
      <4>3. \A i \in 1 .. n : i # k => \E j \in 1 .. n - 1 : past(j) = i
        <5> SUFFICES ASSUME NEW i \in 1 .. n, i # k PROVE \E j \in 1 .. n - 1 : past(j) = i
          OBVIOUS
        <5>1. CASE i < k
          BY <4>1, <5>1
        <5>2. CASE i > k
          BY <4>1, <5>2
        <5> QED
          BY <4>2, <5>1, <5>2
      <4>4. \A i \in 1 .. n - 1 : past(i) \in 1 .. n /\ past(i) # k
        OBVIOUS
      <4>5. \A i, j \in 1 .. n - 1 : past(i) = past(j) => i = j
        OBVIOUS
      <4> QED
        BY <4>3, <4>4, <4>5
    <3> HIDE DEF past
    <3>5. Places(g, n - 1)
      BY <3>4
    <3>6. PICK d : InOrderOf(d, g, n - 1)
      <4>1. n - 1 \in Nat /\ n - 1 < n
        BY <2>2
      <4>2. n - 1 \in T
        BY <1>1, <4>1
      <4> HIDE DEF g
      <4> QED
        BY <3>5, <4>2
    <3> DEFINE c == [i \in 1 .. n |-> IF i = 1 THEN x ELSE d[i - 1]]
    <3>7. ASSUME NEW i \in 1 .. n - 1 PROVE d[i] \in R /\ x < d[i]
      <4>1. PICK j \in 1 .. n - 1 : d[i] = g[j]
        <5> HIDE DEF g, R
        <5>1. d \in [1 .. n - 1 -> {g[j] : j \in 1 .. n - 1}]
          BY <3>6, Zenon DEF InOrderOf
        <5>2. d[i] \in {g[j] : j \in 1 .. n - 1}
          BY <5>1
        <5> QED
          BY <5>2
      <4>2. d[i] = f[past(j)] /\ past(j) \in 1 .. n /\ past(j) # k
        BY <3>4, <4>1
      <4>3. d[i] \in R /\ d[i] # x
        BY <3>3, <4>2
      <4> HIDE DEF R
      <4>4. x \in Nat /\ d[i] \in Nat /\ x <= d[i]
        BY <3>1, <3>2, <4>3
      <4> QED
        BY <4>3, <4>4
    <3>8. c \in [1 .. n -> R]
      <4>1. \A i \in 1 .. n : i = 1 \/ i - 1 \in 1 .. n - 1
        OBVIOUS
      <4> HIDE DEF R
      <4> QED
        BY <3>2, <3>7, <4>1
    <3>9. ASSUME NEW i \in 1 .. n, NEW j \in 1 .. n, i < j PROVE c[i] < c[j]
      <4>1. j # 1 /\ j - 1 \in 1 .. n - 1
        BY <3>9
      <4>2. CASE i = 1
        BY <3>7, <4>1, <4>2
      <4>3. CASE i # 1
        <5>1. i - 1 \in 1 .. n - 1 /\ i - 1 < j - 1
          BY <3>9, <4>3
        <5>2. d[i - 1] < d[j - 1]
          BY <3>6, <4>1, <5>1 DEF InOrderOf
        <5> QED
          BY <4>1, <4>3, <5>2
      <4> QED
        BY <4>2, <4>3
    <3>10. ASSUME NEW i \in 1 .. n PROVE \E j \in 1 .. n : c[j] = f[i]
      <4>1. CASE i = k
        <5>1. 1 \in 1 .. n /\ c[1] = f[i]
          BY <2>2, <3>3, <4>1
        <5> QED
          BY <5>1
      <4>2. CASE i # k
        <5>1. PICK j \in 1 .. n - 1 : past(j) = i
          BY <3>4, <4>2
        <5>2. g[j] = f[i]
          BY <5>1
        <5>3. PICK l \in 1 .. n - 1 : d[l] = g[j]
          BY <3>6 DEF InOrderOf
        <5>4. l + 1 \in 1 .. n /\ l + 1 # 1 /\ (l + 1) - 1 = l
          OBVIOUS
        <5>5. c[l + 1] = f[i]
          BY <5>2, <5>3, <5>4
        <5> QED
          BY <5>4, <5>5
      <4> QED
        BY <4>1, <4>2
    <3>11. InOrderOf(c, f, n)
      <4> HIDE DEF c
      <4> QED
        BY <3>8, <3>9, <3>10 DEF InOrderOf
    <3> QED
      BY <3>11
  <2> QED
    BY <2>1, <2>2
<1>2. \A n \in Nat : n \in T
  <2> HIDE DEF T
  <2> QED
    BY <1>1, NumbersBelow
<1> QED
  BY <1>2

\* The first n places of a shuffle, in order.
LEMMA ChosenAre ==
  ASSUME NEW m \in Nat, NEW places, Shuffled(places, m), NEW n \in Nat, n <= m
  PROVE  InOrderOf(Chosen(places, n), places, n)
<1>1. \A i \in 1 .. n : i \in 1 .. m
  OBVIOUS
<1>2. /\ \A i \in 1 .. n : places[i] \in Nat
      /\ \A i, j \in 1 .. n : places[i] = places[j] => i = j
  <2>1. \A i, j \in 1 .. m : places[i] \in 1 .. m /\ (places[i] = places[j] => i = j)
    BY DEF Shuffled
  <2> QED
    BY <1>1, <2>1
<1>3. \E c : InOrderOf(c, places, n)
  BY <1>2, PlacesInOrder
<1> DEFINE S == [1 .. n -> {places[i] : i \in 1 .. n}]
           P(c) == /\ \A i, j \in 1 .. n : i < j => c[i] < c[j]
                   /\ \A i \in 1 .. n : \E j \in 1 .. n : c[j] = places[i]
<1>4. Chosen(places, n) = CHOOSE c \in S : P(c)
  BY Zenon DEF Chosen
<1>5. \A c : InOrderOf(c, places, n) <=> c \in S /\ P(c)
  BY Zenon DEF InOrderOf
<1> HIDE DEF S, P
<1> QED
  BY <1>3, <1>4, <1>5

DatedEvent == [type : STRING, body : STRING, aspect : STRING, point : STRING, date : Int]

\* Events in the order of their dates.
Dated(es) ==
  /\ es \in Seq(DatedEvent)
  /\ \A i, j \in 1 .. Len(es) : i < j => es[i].date <= es[j].date

\* The headliners of events in the order of their dates lead them.
LEMMA HeadlinersAre ==
  ASSUME NEW es, Dated(es), NEW n \in Nat \ {0}
  PROVE  LET told == pickHeadliners(es, n) IN
         /\ Leads(es, told, Headline(es)) /\ Leads(es, told, <<>>)
         /\ Len(told) = Fit(es, n)
<1> DEFINE told == pickHeadliners(es, n)
           m == Len(es)
<1>0. m \in Nat /\ DOMAIN es = 1 .. m
  BY DEF Dated
<1>1. ToSet(<<>>) = {} /\ ToSet(Headline(es)) = IF es = <<>> THEN {} ELSE {Heaviest(es)}
  <2>1. \A x : ToSet(<<x>>) = {x}
    BY DEF ToSet
  <2>2. ToSet(<<>>) = {}
    BY DEF ToSet
  <2> QED
    BY <2>1, <2>2 DEF Headline
<1>2. es # <<>> => m >= 1
  BY DEF Dated
<1>3. CASE m <= n
  <2>1. told = es
    BY <1>3 DEF pickHeadliners
  <2>2. es # <<>> => Heaviest(es) \in ToSet(es)
    <3> SUFFICES ASSUME es # <<>> PROVE Heaviest(es) \in ToSet(es)
      OBVIOUS
    <3>1. 1 \in Nat /\ 1 <= Len(es)
      BY <1>2
    <3> DEFINE p == Selection(es, 1)
    <3>2. Picked(es, p, 1)
      BY <1>0, <3>1, RoundsPick
    <3> HIDE DEF p
    <3>3. Shuffled(p, m) /\ es[p[1]] = Heaviest(es)
      BY <3>2 DEF Picked
    <3>4. p[1] \in 1 .. m
      BY <1>0, <3>1, <3>3 DEF Shuffled
    <3> QED
      BY <1>0, <3>3, <3>4 DEF ToSet
  <2>3. \A i, j \in DOMAIN es : i < j => es[i].date <= es[j].date
    BY <1>0 DEF Dated
  <2>4. ToSet(Headline(es)) \subseteq ToSet(es)
    BY <1>1, <2>2
  <2>5. Leads(es, es, Headline(es)) /\ Leads(es, es, <<>>)
    BY <1>1, <2>3, <2>4 DEF Leads
  <2> HIDE DEF told
  <2> QED
    BY <1>0, <1>3, <2>1, <2>5 DEF told, Fit
<1>4. CASE ~ (m <= n)
  <2> DEFINE p == Selection(es, n)
             c == Chosen(p, n)
  <2>1. n \in Nat /\ n <= m /\ 1 \in 1 .. n /\ 1 .. n \subseteq 1 .. m
    BY <1>0, <1>4
  <2>2. Picked(es, p, n)
    BY <1>0, <2>1, RoundsPick
  <2> HIDE DEF p
  <2>3. InOrderOf(c, p, n)
    BY <1>0, <2>1, <2>2, ChosenAre DEF Picked
  <2>4. told = [i \in 1 .. n |-> es[c[i]]]
    BY <1>4, Zenon DEF pickHeadliners, p
  <2>5. /\ \A i \in 1 .. m : p[i] \in 1 .. m
        /\ \A q \in 1 .. m : \E i \in 1 .. m : p[i] = q
        /\ \A i \in 1 .. n : \A j \in 1 .. m : i < j =>
             eventWeight(es[p[j]]) <= eventWeight(es[p[i]])
        /\ es[p[1]] = Heaviest(es)
    <3>1. /\ Shuffled(p, m)
          /\ \A i \in 1 .. n : \A j \in 1 .. m : i < j =>
               eventWeight(es[p[j]]) <= eventWeight(es[p[i]])
          /\ es[p[1]] = Heaviest(es)
      BY <2>1, <2>2 DEF Picked
    <3>2. /\ \A i \in 1 .. m : p[i] \in 1 .. m
          /\ \A q \in 1 .. m : \E i \in 1 .. m : p[i] = q
      BY <3>1 DEF Shuffled
    <3> QED
      BY <3>1, <3>2
  <2>6. /\ \A i \in 1 .. n : \E j \in 1 .. n : c[i] = p[j]
        /\ \A i, j \in 1 .. n : i < j => c[i] < c[j]
        /\ \A i \in 1 .. n : \E j \in 1 .. n : c[j] = p[i]
    <3>1. c \in [1 .. n -> {p[i] : i \in 1 .. n}]
      BY <2>3, Zenon DEF InOrderOf
    <3> QED
      BY <2>3, <3>1 DEF InOrderOf
  <2> HIDE DEF c, told
  <2>7. DOMAIN told = 1 .. n /\ Len(told) = n /\ \A i \in 1 .. n : told[i] = es[c[i]]
    BY <2>1, <2>4
  <2>8. \A i \in 1 .. n : c[i] \in 1 .. m
    BY <2>1, <2>5, <2>6
  <2>9. ASSUME NEW i \in 1 .. n PROVE es[p[i]] \in ToSet(told)
    <3>1. PICK j \in 1 .. n : c[j] = p[i]
      BY <2>6
    <3>2. told[j] = es[p[i]] /\ j \in DOMAIN told
      BY <2>7, <3>1
    <3> QED
      BY <3>2 DEF ToSet
  <2>10. ASSUME NEW i \in DOMAIN told, NEW j \in DOMAIN told, i < j
         PROVE  told[i].date <= told[j].date
    <3>1. i \in 1 .. n /\ j \in 1 .. n /\ c[i] < c[j] /\ c[i] \in 1 .. m /\ c[j] \in 1 .. m
      BY <2>6, <2>7, <2>8, <2>10
    <3> QED
      BY <2>7, <3>1 DEF Dated
  <2>11. ASSUME NEW e \in ToSet(es) \ ToSet(told), NEW f \in ToSet(told)
         PROVE  eventWeight(e) <= eventWeight(f)
    <3>1. PICK q \in 1 .. m : e = es[q]
      BY <1>0 DEF ToSet
    <3>2. PICK j \in 1 .. m : p[j] = q
      BY <2>5
    <3>3. j > n
      BY <2>1, <2>9, <3>1, <3>2
    <3>4. PICK k \in 1 .. n : f = es[c[k]]
      BY <2>7 DEF ToSet
    <3>5. PICK i \in 1 .. n : c[k] = p[i]
      BY <2>6
    <3>6. eventWeight(es[p[j]]) <= eventWeight(es[p[i]])
      <4>1. i < j
        BY <2>1, <3>3
      <4> QED
        BY <2>5, <4>1
    <3>7. e = es[p[j]] /\ f = es[p[i]]
      BY <3>1, <3>2, <3>4, <3>5
    <3> QED
      BY <3>6, <3>7
  <2>12. Heaviest(es) \in ToSet(told)
    BY <2>1, <2>5, <2>9
  <2>13. ToSet(Headline(es)) \subseteq ToSet(told)
    BY <1>1, <2>12
  <2>14. Leads(es, told, Headline(es)) /\ Leads(es, told, <<>>)
    BY <1>1, <2>10, <2>11, <2>13 DEF Leads
  <2> QED
    BY <1>0, <1>4, <2>1, <2>7, <2>14 DEF told, Fit
<1> QED
  BY <1>0, <1>3, <1>4

-----------------------------------------------------------------------------
(* and the periods they are told in *)

\* Periods that follow each other from one moment to another, none before the one it follows.
Follows(p, a, b) ==
  /\ Len(p) \in {3, 4, 6} /\ DOMAIN p = 1 .. Len(p)
  /\ p[1][1] = a /\ p[Len(p)][2] = b
  /\ \A i \in 1 .. Len(p) : p[i][1] \in Int /\ p[i][2] \in Int
  /\ \A i \in 1 .. Len(p) : i < Len(p) => p[i][2] = p[i + 1][1]
  /\ \A i, j \in 1 .. Len(p) : i <= j => p[i][1] <= p[j][1]

\* The periods of a window follow each other from its start to its end.
LEMMA PeriodsFollow ==
  ASSUME NEW w \in Window
  PROVE  /\ Follows(Periods(w), w.start, w.end)
         /\ w.type = "year" => Len(Periods(w)) = 4
<1> DEFINE a == w.start
           b == w.end
           p == Periods(w)
<1>1. a \in Int /\ b \in Int /\ a < b
  BY ForecastAssumption DEF ForecastAssumption
<1>2. CASE w.type = "year"
  <2> DEFINE leap == (b - a) \div DayHours - 365
  <2>1. leap \in Int /\ 0 <= leap /\ leap <= 1 /\ b = a + DayHours * (365 + leap)
    <3>1. b - a = 24 * 365 \/ b - a = 24 * 366
      BY <1>2, ForecastAssumption DEF ForecastAssumption, DayHours
    <3>2. CASE b - a = 24 * 365
      BY <1>1, <3>2 DEF DayHours
    <3>3. CASE b - a = 24 * 366
      BY <1>1, <3>3 DEF DayHours
    <3> QED
      BY <3>1, <3>2, <3>3
  <2> DEFINE begin == <<0, 90 + leap, 181 + leap, 273 + leap, 365 + leap>>
  <2>2. p = [i \in 1 .. 4 |-> <<a + DayHours * begin[i], a + DayHours * begin[i + 1]>>]
    BY <1>2, Zenon DEF Periods
  <2> HIDE DEF leap, a, b, p
  <2>3. /\ p[1] = <<a, a + 24 * (90 + leap)>>
        /\ p[2] = <<a + 24 * (90 + leap), a + 24 * (181 + leap)>>
        /\ p[3] = <<a + 24 * (181 + leap), a + 24 * (273 + leap)>>
        /\ p[4] = <<a + 24 * (273 + leap), b>>
        /\ DOMAIN p = 1 .. 4 /\ Len(p) = 4
    BY <1>1, <2>1, <2>2 DEF DayHours
  <2>4. Follows(p, a, b)
    BY <1>1, <2>1, <2>3 DEF Follows
  <2> QED
    BY <2>3, <2>4 DEF p, a, b
<1>3. CASE w.type # "year"
  <2> DEFINE n == CASE w.type = "12m" -> 6 [] w.type = "3m" -> 4 [] OTHER -> 3
             step == (b - a) \div n
  <2>1. n \in {3, 4, 6}
    OBVIOUS
  <2>2. p = [i \in 1 .. n |-> <<a + step * (i - 1), IF i = n THEN b ELSE a + step * i>>]
    BY <1>3, Zenon DEF Periods, splitPeriods
  <2> HIDE DEF n
  <2>3. step \in Int /\ 0 <= step /\ n * step <= b - a
    BY <1>1, <2>1
  <2> HIDE DEF step, a, b, p
  <2>4. CASE n = 3
    <3>1. /\ p[1] = <<a, a + step>> /\ p[2] = <<a + step, a + step * 2>>
          /\ p[3] = <<a + step * 2, b>> /\ DOMAIN p = 1 .. 3 /\ Len(p) = 3
      BY <1>1, <2>2, <2>3, <2>4
    <3> QED
      BY <1>1, <1>3, <2>3, <2>4, <3>1 DEF Follows, a, b, p
  <2>5. CASE n = 4
    <3>1. /\ p[1] = <<a, a + step>> /\ p[2] = <<a + step, a + step * 2>>
          /\ p[3] = <<a + step * 2, a + step * 3>> /\ p[4] = <<a + step * 3, b>>
          /\ DOMAIN p = 1 .. 4 /\ Len(p) = 4
      BY <1>1, <2>2, <2>3, <2>5
    <3> QED
      BY <1>1, <1>3, <2>3, <2>5, <3>1 DEF Follows, a, b, p
  <2>6. CASE n = 6
    <3>1. /\ p[1] = <<a, a + step>> /\ p[2] = <<a + step, a + step * 2>>
          /\ p[3] = <<a + step * 2, a + step * 3>> /\ p[4] = <<a + step * 3, a + step * 4>>
          /\ p[5] = <<a + step * 4, a + step * 5>> /\ p[6] = <<a + step * 5, b>>
          /\ DOMAIN p = 1 .. 6 /\ Len(p) = 6
      BY <1>1, <2>2, <2>3, <2>6
    <3> QED
      BY <1>1, <1>3, <2>3, <2>6, <3>1 DEF Follows, a, b, p
  <2> QED
    BY <2>1, <2>4, <2>5, <2>6
<1> QED
  BY <1>2, <1>3

\* A moment between the two belongs to one of them, the first that begins after it comes next.
LEMMA OneBucket ==
  ASSUME NEW p, NEW a, NEW b, Follows(p, a, b), NEW e, e.date \in Int, a <= e.date, e.date <= b
  PROVE  \E m \in 1 .. Len(p) :
           /\ BucketOf(e, p) = {m} /\ Min(BucketOf(e, p)) = m
           /\ \A i \in 1 .. Len(p) : p[i][1] <= e.date <=> i <= m
<1> DEFINE N == Len(p)
           d == e.date
           T == {i \in 1 .. N : d < p[i][2] \/ i = N}
<1>0. /\ N \in Nat /\ N >= 3 /\ DOMAIN p = 1 .. N
      /\ p[1][1] = a /\ p[N][2] = b
      /\ \A i \in 1 .. N : p[i][1] \in Int /\ p[i][2] \in Int
      /\ \A i \in 1 .. N : i < N => p[i][2] = p[i + 1][1]
      /\ \A i, j \in 1 .. N : i <= j => p[i][1] <= p[j][1]
  BY DEF Follows
<1>1. PICK m \in T : \A i \in T : m <= i
  <2>1. T \subseteq Nat /\ T # {}
    BY <1>0
  <2> HIDE DEF T
  <2> QED
    BY <2>1, LeastNumber
<1>2. m \in 1 .. N /\ (d < p[m][2] \/ m = N) /\ \A i \in 1 .. N : i < m => p[i][2] <= d
  <2>1. ASSUME NEW i \in 1 .. N, i < m PROVE ~ (d < p[i][2])
    <3>0. m \in 1 .. N
      OBVIOUS
    <3>1. m \in Nat /\ i \in Nat /\ ~ (m <= i)
      <4> HIDE DEF N, T
      <4> QED
        BY <1>0, <2>1, <3>0
    <3>2. i \notin T
      BY <1>1, <3>1
    <3> QED
      BY <3>2
  <2>2. m \in 1 .. N /\ (d < p[m][2] \/ m = N)
    OBVIOUS
  <2> HIDE DEF N, T
  <2>3. ASSUME NEW i \in 1 .. N, i < m PROVE p[i][2] <= d
    BY <1>0, <2>1, <2>3
  <2> QED
    BY <2>2, <2>3
<1> HIDE DEF N, T
<1>3. \A i \in 1 .. N : i <= m => p[i][1] <= d
  <2>1. p[m][1] <= d
    <3>1. CASE m = 1
      BY <1>0, <3>1
    <3>2. CASE m # 1
      <4>1. m - 1 \in 1 .. N /\ m - 1 < m /\ m - 1 < N /\ (m - 1) + 1 = m
        BY <1>0, <1>2, <3>2
      <4> QED
        BY <1>0, <1>2, <4>1
    <3> QED
      BY <3>1, <3>2
  <2>2. \A i \in 1 .. N : i <= m => p[i][1] <= p[m][1]
    BY <1>0, <1>2
  <2> QED
    BY <1>0, <1>2, <2>1, <2>2
<1>4. \A i \in 1 .. N : m < i => d < p[i][1]
  <2> SUFFICES ASSUME NEW i \in 1 .. N, m < i PROVE d < p[i][1]
    OBVIOUS
  <2>1. m < N /\ m + 1 \in 1 .. N /\ m + 1 <= i
    BY <1>0, <1>2
  <2>2. d < p[m][2] /\ p[m][2] = p[m + 1][1] /\ p[m + 1][1] <= p[i][1]
    BY <1>0, <1>2, <2>1
  <2>3. p[m][2] \in Int /\ p[i][1] \in Int
    BY <1>0, <1>2
  <2> QED
    BY <2>2, <2>3
<1>5. ASSUME NEW i \in 1 .. N
      PROVE  (p[i][1] <= d /\ (d < p[i][2] \/ (i = N /\ d = p[i][2]))) <=> i = m
  <2>1. CASE i < m
    <3>1. p[i][2] <= d /\ i # N
      BY <1>0, <1>2, <2>1
    <3> QED
      BY <1>0, <2>1, <3>1
  <2>2. CASE i = m
    <3>1. p[i][1] <= d
      BY <1>3, <2>2
    <3>2. i = N => d <= p[i][2]
      BY <1>0
    <3> QED
      BY <1>0, <1>2, <2>2, <3>1, <3>2
  <2>3. CASE m < i
    BY <1>0, <1>4, <2>3
  <2> QED
    BY <1>0, <1>2, <2>1, <2>2, <2>3
<1>6. BucketOf(e, p) = {m}
  <2>1. \A i : i \in BucketOf(e, p) <=>
          i \in 1 .. N /\ e.date >= p[i][1] /\ (e.date < p[i][2] \/ (i = N /\ e.date = p[i][2]))
    BY <1>0 DEF BucketOf, N
  <2>2. \A i : i \in BucketOf(e, p) <=> i = m
    BY <1>0, <1>2, <1>5, <2>1
  <2> QED
    BY <2>2
<1>7. Min({m}) = m
  BY <1>0, <1>2 DEF Min
<1>8. \A i \in 1 .. N : p[i][1] <= d <=> i <= m
  BY <1>0, <1>2, <1>3, <1>4
<1> QED
  BY <1>2, <1>6, <1>7, <1>8 DEF N

\* Those of the events that are earlier than a moment come first.
LEMMA EarlierFirst ==
  ASSUME NEW es, Dated(es), NEW t \in Int
  PROVE  /\ Earlier(es, t) \in 0 .. Len(es)
         /\ \A k \in 1 .. Len(es) : es[k].date < t <=> k <= Earlier(es, t)
<1> DEFINE n == Len(es)
           T == {k \in 1 .. n + 1 : k = n + 1 \/ ~ (es[k].date < t)}
<1>0. /\ n \in Nat /\ DOMAIN es = 1 .. n
      /\ \A k \in 1 .. n : es[k].date \in Int
      /\ \A i, j \in 1 .. n : i < j => es[i].date <= es[j].date
  <2>1. es \in Seq(DatedEvent)
    BY DEF Dated
  <2>2. \A k \in 1 .. n : es[k] \in DatedEvent
    BY <2>1, ElementOfSeq
  <2>3. \A e \in DatedEvent : e.date \in Int
    BY DEF DatedEvent
  <2> QED
    BY <2>1, <2>2, <2>3 DEF Dated
<1>1. PICK m \in T : \A i \in T : m <= i
  <2>1. T \subseteq Nat /\ T # {}
    BY <1>0
  <2> HIDE DEF T
  <2> QED
    BY <2>1, LeastNumber
<1>2. m \in 1 .. n + 1
  OBVIOUS
<1>3. ASSUME NEW k \in 1 .. n PROVE es[k].date < t <=> k <= m - 1
  <2>1. CASE k < m
    <3>1. k \notin T
      BY <1>0, <1>1, <2>1
    <3> QED
      BY <1>0, <1>2, <2>1, <3>1
  <2>2. CASE ~ (k < m)
    <3>1. m \in 1 .. n /\ ~ (es[m].date < t)
      BY <1>0, <1>1, <2>2
    <3>2. es[m].date <= es[k].date
      BY <1>0, <2>2, <3>1
    <3> QED
      BY <1>0, <1>2, <2>2, <3>1, <3>2
  <2> QED
    BY <2>1, <2>2
<1> HIDE DEF T, n
<1>4. {k \in DOMAIN es : es[k].date < t} = 1 .. m - 1
  <2> DEFINE S == {k \in DOMAIN es : es[k].date < t}
  <2>1. \A k : k \in S <=> k \in 1 .. n /\ es[k].date < t
    BY <1>0
  <2>2. \A k : k \in S <=> k \in 1 .. m - 1
    <3> HIDE DEF S
    <3> QED
      BY <1>0, <1>2, <1>3, <2>1
  <2> HIDE DEF S
  <2>3. S = 1 .. m - 1
    BY <2>2
  <2> QED
    BY <2>3 DEF S
<1>5. Earlier(es, t) = m - 1
  <2>1. Cardinality(1 .. m - 1) = m - 1
    BY <1>0, <1>2, FS_Interval
  <2> QED
    BY <1>4, <2>1, Zenon DEF Earlier
<1> QED
  BY <1>0, <1>2, <1>3, <1>5 DEF n

\* What PeriodsShareOutEvents says of events, periods and what is told in these.
Shares(es, p, bs) ==
  /\ ToldBefore(es, p, 1) = 0 /\ DOMAIN bs = DOMAIN p
  /\ \A i \in DOMAIN bs :
       bs[i] = SubSeq(es, ToldBefore(es, p, i) + 1, ToldBefore(es, p, i + 1))

\* A later event is put behind the others.
LEMMA DatedAppend ==
  ASSUME NEW es, Dated(es), NEW e \in DatedEvent,
         es # <<>> => es[Len(es)].date <= e.date
  PROVE  /\ Dated(Append(es, e))
         /\ \A k \in 1 .. Len(es) : es[k].date <= e.date
         /\ \A t \in Int : Earlier(Append(es, e), t) =
                             IF e.date < t THEN Len(es) + 1 ELSE Earlier(es, t)
<1> DEFINE n == Len(es)
           ex == Append(es, e)
<1>0. /\ n \in Nat /\ DOMAIN es = 1 .. n /\ e.date \in Int
      /\ \A k \in 1 .. n : es[k].date \in Int
      /\ \A i, j \in 1 .. n : i < j => es[i].date <= es[j].date
  <2>1. es \in Seq(DatedEvent)
    BY DEF Dated
  <2>2. \A k \in 1 .. n : es[k] \in DatedEvent
    BY <2>1, ElementOfSeq
  <2>3. \A x \in DatedEvent : x.date \in Int
    BY DEF DatedEvent
  <2> QED
    BY <2>1, <2>2, <2>3 DEF Dated
<1>1. /\ ex \in Seq(DatedEvent) /\ Len(ex) = n + 1 /\ DOMAIN ex = 1 .. n + 1
      /\ \A k \in 1 .. n : ex[k] = es[k]
      /\ ex[n + 1] = e
  <2>1. es \in Seq(DatedEvent)
    BY DEF Dated
  <2> QED
    BY <2>1, AppendProperties, LenProperties
<1>2. \A k \in 1 .. n : es[k].date <= e.date
  <2> SUFFICES ASSUME NEW k \in 1 .. n PROVE es[k].date <= e.date
    OBVIOUS
  <2>1. n \in 1 .. n /\ es # <<>>
    <3>1. n # 0 /\ Len(<<>>) = 0
      BY <1>0
    <3> QED
      BY <1>0, <3>1
  <2> HIDE DEF n
  <2>2. k = n \/ k < n
    BY <1>0
  <2>3. es[k].date <= es[n].date
    <3>1. CASE k = n
      BY <1>0, <2>1, <3>1
    <3>2. CASE k < n
      BY <1>0, <2>1, <3>2
    <3> QED
      BY <2>2, <3>1, <3>2
  <2> QED
    BY <1>0, <2>1, <2>3 DEF n
<1> HIDE DEF n, ex
<1>3. Dated(ex)
  <2> SUFFICES ASSUME NEW i \in 1 .. n + 1, NEW j \in 1 .. n + 1, i < j
               PROVE  ex[i].date <= ex[j].date
    BY <1>1 DEF Dated
  <2>1. i \in 1 .. n /\ (j \in 1 .. n \/ j = n + 1)
    BY <1>0
  <2> QED
    BY <1>0, <1>1, <1>2, <2>1
<1>4. ASSUME NEW t \in Int
      PROVE  Earlier(ex, t) = IF e.date < t THEN n + 1 ELSE Earlier(es, t)
  <2>1. CASE e.date < t
    <3> DEFINE f == Earlier(ex, t)
    <3>0. f \in 0 .. Len(ex) /\ \A k \in 1 .. Len(ex) : ex[k].date < t <=> k <= f
      BY <1>3, EarlierFirst
    <3> HIDE DEF f
    <3>1. f \in 0 .. n + 1 /\ (ex[n + 1].date < t <=> n + 1 <= f)
      BY <1>0, <1>1, <3>0
    <3> QED
      BY <1>0, <1>1, <2>1, <3>1 DEF f
  <2>2. CASE ~ (e.date < t)
    <3>1. \A k \in 1 .. n + 1 : k \in 1 .. n \/ k = n + 1
      BY <1>0
    <3>2. {k \in DOMAIN ex : ex[k].date < t} = {k \in DOMAIN es : es[k].date < t}
      BY <1>0, <1>1, <2>2, <3>1
    <3> QED
      BY <2>2, <3>2, Zenon DEF Earlier
  <2> QED
    BY <2>1, <2>2
<1> QED
  BY <1>2, <1>3, <1>4 DEF n, ex

\* A part of a sequence is one of what the sequence begins with.
LEMMA SubSeqOfAppend ==
  ASSUME NEW S, NEW s \in Seq(S), NEW e \in S, NEW i \in Nat, NEW j \in Nat
  PROVE  /\ j <= Len(s) => SubSeq(Append(s, e), i + 1, j) = SubSeq(s, i + 1, j)
         /\ i <= Len(s) => SubSeq(Append(s, e), i + 1, Len(s) + 1)
                             = Append(SubSeq(s, i + 1, Len(s)), e)
<1> DEFINE n == Len(s)
           t == Append(s, e)
<1>1. /\ n \in Nat /\ t \in Seq(S) /\ Len(t) = n + 1 /\ t[n + 1] = e
      /\ \A k \in 1 .. n : t[k] = s[k] /\ s[k] \in S
  BY AppendProperties, LenProperties, ElementOfSeq
<1> HIDE DEF n, t
<1>2. \A k \in 1 .. n + 1 : t[k] \in S
  <2>1. \A k \in 1 .. n + 1 : k \in 1 .. n \/ k = n + 1
    BY <1>1
  <2> QED
    BY <1>1, <2>1
<1>3. ASSUME j <= n PROVE SubSeq(t, i + 1, j) = SubSeq(s, i + 1, j)
  <2> DEFINE u == SubSeq(t, i + 1, j)
             v == SubSeq(s, i + 1, j)
  <2>1. \A k \in i + 1 .. j : k \in 1 .. n /\ t[k] \in S /\ s[k] \in S /\ t[k] = s[k]
    BY <1>1, <1>3
  <2>2. /\ u \in Seq(S) /\ Len(u) = IF i + 1 <= j THEN j - (i + 1) + 1 ELSE 0
        /\ \A k \in 1 .. j - (i + 1) + 1 : u[k] = t[i + 1 + k - 1]
    <3>1. i + 1 \in Int /\ j \in Int /\ \A k \in i + 1 .. j : t[k] \in S
      BY <2>1
    <3> QED
      BY <3>1, SubSeqProperties
  <2>3. /\ v \in Seq(S) /\ Len(v) = IF i + 1 <= j THEN j - (i + 1) + 1 ELSE 0
        /\ \A k \in 1 .. j - (i + 1) + 1 : v[k] = s[i + 1 + k - 1]
    <3>1. i + 1 \in Int /\ j \in Int /\ \A k \in i + 1 .. j : s[k] \in S
      BY <2>1
    <3> QED
      BY <3>1, SubSeqProperties
  <2> HIDE DEF u, v
  <2>4. ASSUME NEW k \in 1 .. Len(u) PROVE u[k] = v[k]
    <3>1. i + 1 <= j /\ k \in 1 .. j - (i + 1) + 1 /\ i + 1 + k - 1 \in i + 1 .. j
      BY <2>2
    <3> QED
      BY <2>1, <2>2, <2>3, <3>1
  <2>5. u = v
    BY <2>2, <2>3, <2>4, SeqEqual
  <2> QED
    BY <2>5 DEF u, v
<1>4. ASSUME i <= n PROVE SubSeq(t, i + 1, n + 1) = Append(SubSeq(s, i + 1, n), e)
  <2> DEFINE u == SubSeq(t, i + 1, n + 1)
             v == SubSeq(s, i + 1, n)
             x == Append(v, e)
  <2>1. /\ u \in Seq(S) /\ Len(u) = n + 1 - i
        /\ \A k \in 1 .. n + 1 - i : u[k] = t[i + k]
    <3>1. /\ i + 1 \in Int /\ n + 1 \in Int /\ \A k \in i + 1 .. n + 1 : t[k] \in S
          /\ i + 1 <= n + 1
      BY <1>1, <1>2, <1>4
    <3>2. /\ u \in Seq(S) /\ Len(u) = (n + 1) - (i + 1) + 1
          /\ \A k \in 1 .. (n + 1) - (i + 1) + 1 : u[k] = t[i + 1 + k - 1]
      BY <3>1, SubSeqProperties
    <3>3. (n + 1) - (i + 1) + 1 = n + 1 - i /\ \A k \in 1 .. n + 1 - i : i + 1 + k - 1 = i + k
      BY <1>1
    <3> HIDE DEF u
    <3> QED
      BY <3>2, <3>3
  <2>2. /\ v \in Seq(S) /\ Len(v) = n - i
        /\ \A k \in 1 .. n - i : v[k] = s[i + k]
    <3>1. /\ i + 1 \in Int /\ n \in Int /\ \A k \in i + 1 .. n : s[k] \in S
      BY <1>1
    <3>2. /\ v \in Seq(S) /\ Len(v) = IF i + 1 <= n THEN n - (i + 1) + 1 ELSE 0
          /\ \A k \in 1 .. n - (i + 1) + 1 : v[k] = s[i + 1 + k - 1]
      BY <3>1, SubSeqProperties
    <3>3. n - (i + 1) + 1 = n - i /\ \A k \in 1 .. n - i : i + 1 + k - 1 = i + k
      BY <1>1
    <3> HIDE DEF v
    <3> QED
      BY <1>1, <1>4, <3>2, <3>3
  <2> HIDE DEF u, v
  <2>3. /\ x \in Seq(S) /\ Len(x) = n - i + 1 /\ x[n - i + 1] = e
        /\ \A k \in 1 .. n - i : x[k] = v[k]
    BY <2>2, AppendProperties
  <2> HIDE DEF x
  <2>4. ASSUME NEW k \in 1 .. Len(u) PROVE u[k] = x[k]
    <3>1. CASE k = n - i + 1
      <4>1. i + k = n + 1 /\ k \in 1 .. n + 1 - i
        BY <1>1, <1>4, <2>1, <3>1
      <4> QED
        BY <1>1, <2>1, <2>3, <3>1, <4>1
    <3>2. CASE k # n - i + 1
      <4>1. k \in 1 .. n - i /\ k \in 1 .. n + 1 - i /\ i + k \in 1 .. n
        BY <1>1, <1>4, <2>1, <3>2
      <4> QED
        BY <1>1, <2>1, <2>2, <2>3, <4>1
    <3> QED
      BY <3>1, <3>2
  <2>5. u = x
    <3>1. Len(u) = Len(x)
      BY <1>1, <1>4, <2>1, <2>3
    <3> QED
      BY <2>1, <2>3, <2>4, <3>1, SeqEqual
  <2> QED
    BY <2>5 DEF u, v, x
<1> QED
  BY <1>3, <1>4 DEF n, t

\* A turn of the loop over the events: the next event goes to its period.
LEMMA SharesOn ==
  ASSUME NEW p, NEW a, NEW b, Follows(p, a, b), NEW es, Dated(es), NEW e \in DatedEvent,
         a <= e.date, e.date <= b, es # <<>> => es[Len(es)].date <= e.date,
         NEW bs, Shares(es, p, bs)
  PROVE  Shares(Append(es, e), p, bucketEvents(bs, e, p))
<1> DEFINE N == Len(p)
           n == Len(es)
           ex == Append(es, e)
           old(i) == ToldBefore(es, p, i)
           new(i) == ToldBefore(ex, p, i)
           bx == bucketEvents(bs, e, p)
<1>0. /\ N \in Nat /\ N >= 3 /\ DOMAIN p = 1 .. N /\ \A i \in 1 .. N : p[i][1] \in Int
      /\ n \in Nat /\ es \in Seq(DatedEvent) /\ e.date \in Int
      /\ old(1) = 0 /\ DOMAIN bs = 1 .. N
      /\ \A i \in 1 .. N : bs[i] = SubSeq(es, old(i) + 1, old(i + 1))
  <2>1. /\ N \in Nat /\ N >= 3 /\ DOMAIN p = 1 .. N /\ \A i \in 1 .. N : p[i][1] \in Int
    BY DEF Follows
  <2>2. es \in Seq(DatedEvent) /\ n \in Nat
    BY DEF Dated
  <2>3. e.date \in Int
    BY DEF DatedEvent
  <2>4. old(1) = 0 /\ DOMAIN bs = DOMAIN p
        /\ \A i \in DOMAIN bs : bs[i] = SubSeq(es, old(i) + 1, old(i + 1))
    BY DEF Shares
  <2> HIDE DEF old
  <2> QED
    BY <2>1, <2>2, <2>3, <2>4
<1>1. PICK m \in 1 .. N :
        /\ BucketOf(e, p) = {m} /\ Min(BucketOf(e, p)) = m
        /\ \A i \in 1 .. N : p[i][1] <= e.date <=> i <= m
  <2>1. e.date \in Int
    BY <1>0
  <2> QED
    BY <2>1, OneBucket
<1>2. bx = [bs EXCEPT ![m] = Append(@, e)]
  BY <1>1, Zenon DEF bucketEvents
<1>3. /\ \A k \in 1 .. n : es[k].date <= e.date
      /\ \A t \in Int : Earlier(ex, t) = IF e.date < t THEN n + 1 ELSE Earlier(es, t)
      /\ Len(ex) = n + 1
  BY DatedAppend, <1>0, AppendProperties
<1>4. \A t \in Int : /\ Earlier(es, t) \in 0 .. n
                     /\ \A k \in 1 .. n : es[k].date < t <=> k <= Earlier(es, t)
  BY EarlierFirst
<1> HIDE DEF N, n, ex, bx
<1>5. ASSUME NEW i \in 1 .. N
      PROVE  /\ old(i) \in 0 .. n
             /\ i <= m => new(i) = old(i)
             /\ m < i => new(i) = n + 1 /\ old(i) = n
  <2> DEFINE t == p[i][1]
  <2>1. old(i) = Earlier(es, t) /\ new(i) = Earlier(ex, t)
    BY <1>0 DEF ToldBefore, N
  <2>2. t \in Int /\ (t <= e.date <=> i <= m)
    BY <1>0, <1>1
  <2> HIDE DEF t, old, new
  <2>3. CASE i <= m
    <3>1. Earlier(ex, t) = Earlier(es, t)
      <4>1. ~ (e.date < t)
        BY <1>0, <2>2, <2>3
      <4> QED
        BY <1>3, <2>2, <4>1
    <3>2. Earlier(es, t) \in 0 .. n
      BY <1>4, <2>2
    <3>3. ~ (m < i)
      BY <1>0, <1>1, <2>3
    <3> QED
      BY <2>1, <2>3, <3>1, <3>2, <3>3
  <2>4. CASE m < i
    <3>1. e.date < t
      BY <1>0, <1>1, <2>2, <2>4
    <3> DEFINE f == Earlier(es, t)
    <3>2. f \in 0 .. n /\ \A k \in 1 .. n : es[k].date < t <=> k <= f
      BY <1>4, <2>2
    <3>3. f = n
      <4> HIDE DEF f
      <4>1. CASE n = 0
        BY <3>2, <4>1
      <4>2. CASE n # 0
        <5>1. n \in 1 .. n
          BY <1>0, <4>2
        <5>2. es[n].date \in Int /\ es[n].date <= e.date
          <6>1. es[n] \in DatedEvent
            BY <1>0, <5>1, ElementOfSeq DEF n
          <6> QED
            BY <1>3, <5>1, <6>1 DEF DatedEvent
        <5>3. es[n].date < t
          BY <1>0, <2>2, <3>1, <5>2
        <5>4. n <= f
          BY <3>2, <5>1, <5>3
        <5> QED
          BY <1>0, <3>2, <5>4
      <4> QED
        BY <4>1, <4>2
    <3> QED
      BY <1>0, <1>1, <1>3, <2>1, <2>2, <2>4, <3>1, <3>3
  <2> QED
    BY <1>0, <1>1, <2>3, <2>4
<1>6. old(N + 1) = n /\ new(N + 1) = n + 1
  <2>1. N + 1 > N
    BY <1>0
  <2> QED
    BY <1>3, <2>1 DEF ToldBefore, N, n
<1>7. new(1) = 0
  <2>1. 1 \in 1 .. N /\ 1 <= m
    BY <1>0, <1>1
  <2> HIDE DEF old, new
  <2> QED
    BY <1>0, <1>5, <2>1
<1>8. DOMAIN bx = 1 .. N
  BY <1>0, <1>2
<1> HIDE DEF old, new
<1>9. ASSUME NEW i \in 1 .. N PROVE bx[i] = SubSeq(ex, new(i) + 1, new(i + 1))
  <2>0. i + 1 \in 1 .. N \/ i = N
    BY <1>0
  <2>1. CASE i < m
    <3>1. i + 1 \in 1 .. N /\ i + 1 <= m /\ i <= m /\ i # m
      BY <1>0, <1>1, <2>1
    <3>2. new(i) = old(i) /\ old(i) \in 0 .. n
      BY <1>5, <3>1
    <3>3. new(i + 1) = old(i + 1) /\ old(i + 1) \in 0 .. n
      BY <1>5, <3>1
    <3> DEFINE f == old(i)
               g == old(i + 1)
    <3>4. SubSeq(ex, f + 1, g) = SubSeq(es, f + 1, g)
      <4>1. f \in Nat /\ g \in Nat /\ g <= n
        BY <1>0, <3>2, <3>3
      <4> HIDE DEF f, g
      <4> QED
        BY <1>0, <4>1, SubSeqOfAppend DEF ex, n
    <3>5. bx[i] = bs[i]
      BY <1>0, <1>2, <3>1
    <3> QED
      BY <1>0, <3>2, <3>3, <3>4, <3>5
  <2>2. CASE i = m
    <3>1. new(i) = old(i) /\ old(i) \in Nat /\ old(i) <= n
      BY <1>0, <1>1, <1>5, <2>2
    <3>2. new(i + 1) = n + 1 /\ old(i + 1) = n
      <4>1. CASE i = N
        BY <1>6, <4>1
      <4>2. CASE i + 1 \in 1 .. N
        <5>1. m < i + 1
          BY <1>1, <2>2
        <5> QED
          BY <1>5, <4>2, <5>1
      <4> QED
        BY <2>0, <4>1, <4>2
    <3>3. SubSeq(ex, old(i) + 1, n + 1) = Append(SubSeq(es, old(i) + 1, n), e)
      BY <1>0, <3>1, SubSeqOfAppend DEF ex, n
    <3>4. bx[i] = Append(bs[i], e)
      BY <1>0, <1>2, <2>2
    <3> QED
      BY <1>0, <3>1, <3>2, <3>3, <3>4
  <2>3. CASE m < i
    <3>1. new(i) = n + 1 /\ old(i) = n
      BY <1>5, <2>3
    <3>2. new(i + 1) = n + 1 /\ old(i + 1) = n
      <4>1. CASE i = N
        BY <1>6, <4>1
      <4>2. CASE i + 1 \in 1 .. N
        <5>1. m < i + 1
          BY <1>0, <1>1, <2>3
        <5> QED
          BY <1>5, <4>2, <5>1
      <4> QED
        BY <2>0, <4>1, <4>2
    <3>3. SubSeq(ex, n + 2, n + 1) = <<>> /\ SubSeq(es, n + 1, n) = <<>>
      BY <1>0, SubSeqEmpty
    <3>4. bx[i] = bs[i]
      <4>1. i # m
        BY <1>0, <1>1, <2>3
      <4> QED
        BY <1>0, <1>2, <4>1
    <3>5. (n + 1) + 1 = n + 2
      BY <1>0
    <3> QED
      BY <1>0, <3>1, <3>2, <3>3, <3>4, <3>5
  <2> QED
    BY <1>0, <1>1, <2>1, <2>2, <2>3
<1> QED
  BY <1>0, <1>7, <1>8, <1>9 DEF Shares, N, ex, bx, new

\* The events so far are shared out.
ForecastInv ==
  /\ ~ Forecast => events = <<>>
  /\ Forecast => /\ window \in Window
                 /\ Dated(events) /\ Shares(events, Periods(window), buckets)

LEMMA ForecastStart == ASSUME ForecastInit PROVE ForecastInv
BY DEF ForecastInit, ForecastInv, Forecast

LEMMA ForecastStep ==
  ASSUME ForecastInv, [ForecastNext]_forecastVars
  PROVE  ForecastInv'
<1>1. CASE UNCHANGED forecastVars
  <2>1. events' = events /\ window' = window /\ buckets' = buckets
    BY <1>1 DEF forecastVars
  <2>2. Forecast' <=> Forecast
    BY <2>1 DEF Forecast
  <2>3. Dated(events)' <=> Dated(events)
    BY <2>1 DEF Dated
  <2>4. Shares(events, Periods(window), buckets)' <=> Shares(events, Periods(window), buckets)
    BY <2>1 DEF Shares, ToldBefore, Earlier
  <2> QED
    BY <2>1, <2>2, <2>3, <2>4 DEF ForecastInv
<1>2. ASSUME NEW w \in Window, AskForecast(w) PROVE ForecastInv'
  <2> DEFINE p == Periods(w)
  <2>1. /\ events = <<>> /\ events' = <<>> /\ window' = w
        /\ buckets' = [i \in DOMAIN p |-> <<>>]
    BY <1>2 DEF AskForecast, ForecastInv
  <2>2. Dated(<<>>)
    BY DEF Dated
  <2>3. Follows(p, w.start, w.end)
    BY PeriodsFollow
  <2> HIDE DEF p
  <2>4. Len(p) \in Nat /\ Len(p) >= 3 /\ DOMAIN p = 1 .. Len(p)
    BY <2>3 DEF Follows
  <2>5. \A i \in Nat : ToldBefore(<<>>, p, i) = 0
    <3>1. \A t : Earlier(<<>>, t) = 0
      <4> SUFFICES ASSUME NEW t PROVE Earlier(<<>>, t) = 0
        OBVIOUS
      <4>1. {k \in DOMAIN <<>> : <<>>[k].date < t} = {}
        OBVIOUS
      <4>2. Cardinality({}) = 0
        BY FS_EmptySet
      <4> QED
        BY <4>1, <4>2, Zenon DEF Earlier
    <3>2. Len(<<>>) = 0
      OBVIOUS
    <3> QED
      BY <3>1, <3>2, Zenon DEF ToldBefore
  <2>6. SubSeq(<<>>, 1, 0) = <<>>
    BY SubSeqEmpty
  <2>7. Shares(<<>>, p, [i \in DOMAIN p |-> <<>>])
    <3>1. \A i \in DOMAIN p : i \in Nat /\ i + 1 \in Nat
      BY <2>4
    <3>2. 1 \in Nat /\ 0 + 1 = 1
      OBVIOUS
    <3> QED
      BY <2>5, <2>6, <3>1, <3>2 DEF Shares
  <2>8. window' \in Window /\ Dated(events') /\ Shares(events', Periods(window'), buckets')
    BY <2>1, <2>2, <2>7 DEF p
  <2>9. Dated(events)' /\ Shares(events, Periods(window), buckets)'
    BY <2>8 DEF Dated, Shares, ToldBefore, Earlier
  <2> QED
    BY <2>1, <2>8, <2>9 DEF ForecastInv
<1>3. ASSUME NEW x \in Event, NEW n \in Nth, Happens(x, n) PROVE ForecastInv'
  <2> DEFINE date == ((window.start + DayHours * n) \div DayHours) * DayHours
             lite == [type |-> x.type, body |-> x.body, aspect |-> x.aspect, point |-> x.point,
                      date |-> date]
             p == Periods(window)
             a == window.start
             b == window.end
  <2>1. /\ Forecast /\ n >= 1 /\ a + DayHours * n <= b
        /\ events # <<>> => events[Len(events)].date <= date
        /\ events' = Append(events, lite)
        /\ buckets' = bucketEvents(buckets, lite, p)
        /\ window' = window
    BY <1>3 DEF Happens
  <2>2. window \in Window /\ Dated(events) /\ Shares(events, p, buckets)
    BY <2>1 DEF ForecastInv
  <2>3. a \in Int /\ b \in Int /\ n \in Int
    BY <2>2, ForecastAssumption DEF ForecastAssumption
  <2> HIDE DEF a, b
  <2>4. date \in Int /\ a <= date /\ date <= b
    BY <2>1, <2>3 DEF DayHours, a
  <2>5. lite \in DatedEvent /\ lite.date = date
    <3>1. /\ x.type \in STRING /\ x.body \in STRING
          /\ x.aspect \in STRING /\ x.point \in STRING
      BY ForecastAssumption DEF ForecastAssumption
    <3> HIDE DEF date
    <3> QED
      BY <2>4, <3>1 DEF DatedEvent
  <2>6. Follows(p, a, b)
    BY <2>2, PeriodsFollow DEF a, b
  <2> HIDE DEF lite, date, p
  <2>7. Shares(Append(events, lite), p, bucketEvents(buckets, lite, p))
    BY <2>1, <2>2, <2>4, <2>5, <2>6, SharesOn
  <2>8. Dated(Append(events, lite))
    BY <2>1, <2>2, <2>5, DatedAppend
  <2>9. Dated(events') /\ Shares(events', Periods(window'), buckets')
    BY <2>1, <2>7, <2>8 DEF p
  <2>10. Dated(events)' /\ Shares(events, Periods(window), buckets)'
    BY <2>9 DEF Dated, Shares, ToldBefore, Earlier
  <2>11. Forecast'
    BY <2>1 DEF Forecast
  <2> QED
    BY <2>1, <2>2, <2>10, <2>11 DEF ForecastInv
<1> QED
  BY <1>1, <1>2, <1>3 DEF ForecastNext

\* Every event of a forecast is told in one period, and the heaviest lead.
LEMMA ForecastGives ==
  ASSUME ForecastInv
  PROVE  PeriodsShareOutEvents /\ HeadlinersLead
<1>1. PeriodsShareOutEvents
  BY DEF ForecastInv, Shares, PeriodsShareOutEvents
<1>2. ASSUME Forecast PROVE \A i \in DOMAIN buckets : Dated(buckets[i])
  <2> DEFINE p == Periods(window)
             told(i) == ToldBefore(events, p, i)
  <2>1. /\ window \in Window /\ Dated(events) /\ DOMAIN buckets = DOMAIN p
        /\ \A i \in DOMAIN buckets : buckets[i] = SubSeq(events, told(i) + 1, told(i + 1))
    BY <1>2 DEF ForecastInv, Shares
  <2>2. Follows(p, window.start, window.end)
    BY <2>1, PeriodsFollow
  <2>3. /\ Len(p) \in Nat /\ DOMAIN p = 1 .. Len(p)
        /\ \A i \in 1 .. Len(p) : p[i][1] \in Int
    BY <2>2 DEF Follows
  <2> HIDE DEF p
  <2>4. Len(events) \in Nat /\ \A t \in Int : Earlier(events, t) \in 0 .. Len(events)
    BY <2>1, EarlierFirst DEF Dated
  <2>5. \A i \in 1 .. Len(p) + 1 : told(i) \in 0 .. Len(events)
    <3> SUFFICES ASSUME NEW i \in 1 .. Len(p) + 1 PROVE told(i) \in 0 .. Len(events)
      OBVIOUS
    <3>1. CASE i > Len(p)
      BY <2>4, <3>1 DEF ToldBefore
    <3>2. CASE ~ (i > Len(p))
      <4>1. i \in 1 .. Len(p)
        BY <2>3, <3>2
      <4>2. told(i) = Earlier(events, p[i][1])
        BY <3>2 DEF ToldBefore
      <4> HIDE DEF told
      <4> QED
        BY <2>3, <2>4, <4>1, <4>2
    <3> QED
      BY <3>1, <3>2
  <2> SUFFICES ASSUME NEW i \in DOMAIN buckets PROVE Dated(buckets[i])
    OBVIOUS
  <2>6. told(i) \in 0 .. Len(events) /\ told(i + 1) \in 0 .. Len(events)
    BY <2>1, <2>3, <2>5
  <2> DEFINE f == told(i)
             g == told(i + 1)
             s == SubSeq(events, f + 1, g)
  <2>7. buckets[i] = s
    BY <2>1
  <2> HIDE DEF told, f, g
  <2>8. /\ f \in Nat /\ g \in Nat /\ g <= Len(events)
    BY <2>4, <2>6 DEF f, g
  <2>9. \A k \in f + 1 .. g : k \in 1 .. Len(events) /\ events[k] \in DatedEvent
    <3>1. \A k \in f + 1 .. g : k \in 1 .. Len(events)
      BY <2>4, <2>8
    <3>2. events \in Seq(DatedEvent)
      BY <2>1 DEF Dated
    <3> QED
      BY <3>1, <3>2, ElementOfSeq
  <2>10. /\ s \in Seq(DatedEvent) /\ Len(s) = IF f + 1 <= g THEN g - (f + 1) + 1 ELSE 0
         /\ \A k \in 1 .. g - (f + 1) + 1 : s[k] = events[f + 1 + k - 1]
    <3>1. f + 1 \in Int /\ g \in Int /\ \A k \in f + 1 .. g : events[k] \in DatedEvent
      BY <2>8, <2>9
    <3> QED
      BY <3>1, SubSeqProperties
  <2> HIDE DEF s
  <2>11. ASSUME NEW k \in 1 .. Len(s), NEW l \in 1 .. Len(s), k < l
         PROVE  s[k].date <= s[l].date
    <3> DEFINE u == f + 1 + k - 1
               v == f + 1 + l - 1
    <3>1. /\ k \in 1 .. g - (f + 1) + 1 /\ l \in 1 .. g - (f + 1) + 1
          /\ u \in 1 .. Len(events) /\ v \in 1 .. Len(events) /\ u < v
      <4> DEFINE n == Len(s)
                 o == Len(events)
      <4>1. n = IF f + 1 <= g THEN g - (f + 1) + 1 ELSE 0
        BY <2>10
      <4>2. k \in 1 .. n /\ l \in 1 .. n /\ k < l /\ o \in Nat /\ g <= o
        BY <2>4, <2>8, <2>11
      <4> HIDE DEF n, o
      <4>3. f + 1 <= g /\ n = g - f
        BY <2>8, <4>1, <4>2
      <4> QED
        BY <2>8, <4>2, <4>3 DEF o
    <3>2. s[k] = events[u] /\ s[l] = events[v]
      BY <2>10, <3>1
    <3> HIDE DEF u, v
    <3>3. events[u].date <= events[v].date
      BY <2>1, <3>1 DEF Dated
    <3> QED
      BY <3>2, <3>3
  <2>12. Dated(s)
    BY <2>10, <2>11 DEF Dated
  <2> QED
    BY <2>7, <2>12
<1>3. ASSUME NEW es, Dated(es), NEW n \in Nat \ {0}
      PROVE  /\ Leads(es, Description(es, n).tells, Headline(es))
             /\ Leads(es, Description(es, n).tells, <<>>)
             /\ Len(Description(es, n).tells) = Fit(es, n)
  <2>1. Description(es, n).tells = pickHeadliners(es, n)
    BY DEF Description
  <2> DEFINE told == pickHeadliners(es, n)
  <2>2. /\ Leads(es, told, Headline(es)) /\ Leads(es, told, <<>>)
        /\ Len(told) = Fit(es, n)
    BY <1>3, HeadlinersAre
  <2> QED
    BY <2>1, <2>2
<1>4. HeadlinersLead
  <2> SUFFICES ASSUME Forecast PROVE HeadlinersLead
    BY DEF HeadlinersLead
  <2>1. window \in Window /\ Dated(events) /\ DOMAIN buckets = DOMAIN Periods(window)
    BY DEF ForecastInv, Shares
  <2>2. CASE window.type = "year"
    <3> DEFINE answer == BuildDeterministicYearly
    <3>1. DOMAIN buckets = 1 .. 4
      BY <2>1, <2>2, PeriodsFollow DEF Follows
    <3>2. /\ answer.overview = Description(events, 4) /\ answer.theme = Headline(events)
          /\ \A i \in 1 .. 4 : answer.quarters[i] = Description(buckets[i], 3)
      BY DEF BuildDeterministicYearly
    <3> HIDE DEF answer
    <3>3. /\ Leads(events, answer.overview.tells, answer.theme)
          /\ Len(answer.overview.tells) = Fit(events, 4)
      BY <1>3, <2>1, <3>2
    <3>4. \A i \in 1 .. 4 : /\ Leads(buckets[i], answer.quarters[i].tells, <<>>)
                            /\ Len(answer.quarters[i].tells) = Fit(buckets[i], 3)
      BY <1>2, <1>3, <3>1, <3>2
    <3> QED
      BY <2>2, <3>3, <3>4, Zenon DEF HeadlinersLead, answer
  <2>3. CASE window.type # "year"
    <3> DEFINE answer == BuildDeterministicTimeline
    <3>1. \A i \in DOMAIN buckets : /\ answer[i].description = Description(buckets[i], 3)
                                    /\ answer[i].title = Headline(buckets[i])
      BY DEF BuildDeterministicTimeline
    <3> HIDE DEF answer
    <3>2. \A i \in DOMAIN buckets :
            /\ Leads(buckets[i], answer[i].description.tells, answer[i].title)
            /\ Len(answer[i].description.tells) = Fit(buckets[i], 3)
      BY <1>2, <1>3, <3>1
    <3> QED
      BY <2>3, <3>2, Zenon DEF HeadlinersLead, answer
  <2> QED
    BY <2>2, <2>3
<1> QED
  BY <1>1, <1>4

-----------------------------------------------------------------------------
(* Together *)

\* The date saved has a year of four digits.
SquInv == Saved => birthDate \in BirthDay

\* Then its squares hold.
LEMMA SquaresOfDate == SquInv => SquareBalances /\ OctagramAgrees
<1> SUFFICES ASSUME SquInv, Saved PROVE SquareBalances /\ OctagramAgrees
  BY Zenon DEF SquareBalances, OctagramAgrees
<1>1. birthDate \in ShortDate
  <2>1. birthDate \in BirthDay
    BY DEF SquInv
  <2> QED
    BY <2>1, SquareAssumption DEF ShortDate, Date
<1>2. SquareBalances
  <2>1. Balanced(birthDate)
    BY <1>1, SquareOfDate
  <2> QED
    BY <2>1, Zenon DEF Balanced, SquareBalances
<1>3. OctagramAgrees
  BY <1>1, OctagramOfDate, Zenon DEF OctagramAgrees
<1> QED
  BY <1>2, <1>3

ReckoningInv == NumInv /\ SquInv /\ DashaInv /\ ForecastInv

LEMMA ReckoningStep ==
  /\ ReckoningInit => ReckoningInv
  /\ ReckoningInv /\ [ReckoningNext]_reckonings => ReckoningInv'
<1>1. ReckoningInit => ReckoningInv
  <2>1. DashaInit => DashaInv
    BY DEF DashaInit, DashaInv, Grown
  <2> QED
    BY <2>1, ForecastStart
       DEF ReckoningInit, ReckoningInv, NumerologyInit, SquareInit, NumInv, SquInv, Asked, Saved
<1>2. ASSUME ReckoningInv, [ReckoningNext]_reckonings PROVE ReckoningInv'
  <2>1. /\ [NumerologyNext]_numerologyVars /\ [SquareNext]_squareVars
        /\ [DashaNext]_dashaVars /\ [ForecastNext]_forecastVars
    BY <1>2 DEF ReckoningNext, reckonings
  <2>2. NumInv'
    BY <1>2, <2>1, NumStep DEF ReckoningInv
  <2>3. SquInv'
    BY <1>2, <2>1 DEF ReckoningInv, SquareNext, SaveDate, squareVars, SquInv, Saved
  <2>4. DashaInv'
    BY <1>2, <2>1, DashaStep DEF ReckoningInv
  <2>5. ForecastInv'
    BY <1>2, <2>1, ForecastStep DEF ReckoningInv
  <2> QED
    BY <2>2, <2>3, <2>4, <2>5 DEF ReckoningInv
<1> QED
  BY <1>1, <1>2

\* For every birth date and name: reducing in steps ends in the digital root of the plain
\* sum, one cycle is active at every age, and two people score alike from either side; for
\* every date of a four-digit year the Pythagoras square balances, and every point and line
\* of the octagram and its age ladder agree with its center; for every place of the Moon one
\* period of each level is current until the 120 years are over.
THEOREM NumbersAlwaysHold == ReckoningSpec => []NumbersHold
<1>1. ReckoningInv => NumbersHold
  BY NumbersOfAccount, SquaresOfDate, PeriodsOfLife DEF NumbersHold, ReckoningInv
<1> QED
  BY <1>1, ReckoningStep, PTL DEF ReckoningSpec

\* Whatever happens in a window, of any length and from any hour on, every event is told in
\* one of its periods, in order, and the heaviest lead.
THEOREM ForecastsAlwaysHold == ReckoningSpec => []ForecastsHold
<1>1. ReckoningInv => ForecastsHold
  BY ForecastGives DEF ForecastsHold, ReckoningInv
<1> QED
  BY <1>1, ReckoningStep, PTL DEF ReckoningSpec

\* The active cycle of an account turns to the next, on a birthday, and a period of the
\* Moon's order gives way to the one of the next lord.
THEOREM TurnsAreInOrder == ReckoningSpec => TurnsComeInOrder
<1>1. ReckoningInv /\ [ReckoningNext]_reckonings => CycleTurn /\ LordTurn
  <2> SUFFICES ASSUME ReckoningInv, [ReckoningNext]_reckonings PROVE CycleTurn /\ LordTurn
    OBVIOUS
  <2>1. [NumerologyNext]_numerologyVars /\ [DashaNext]_dashaVars
    BY DEF ReckoningNext, reckonings
  <2> QED
    BY <2>1, NumTurn, LordsTurn DEF ReckoningInv
<1> QED
  BY <1>1, ReckoningStep, PTL DEF ReckoningSpec, TurnsComeInOrder
=============================================================================
