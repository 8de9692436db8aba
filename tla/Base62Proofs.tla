---------------------------- MODULE Base62Proofs ----------------------------
(***************************************************************************)
(* Encode and Decode are inverse to each other for any alphabet, any length  *)
(* and any word that holds the strings of the accepted length.             *)
(*                                                                         *)
(* Digits, Power and the loop of Decode are recursive functions.  Induction *)
(* is over sets of numbers (Induct, Descend), and a recursive function may  *)
(* be unfolded once a function that satisfies its equation exists.         *)
(***************************************************************************)
EXTENDS HashIds, SequenceTheorems, FiniteSetTheorems, NaturalsInduction, WellFoundedInduction, TLAPS

-----------------------------------------------------------------------------
(* Induction over sets of numbers.                                          *)

\* Every nonempty set of naturals has a least element.
LEMMA Least ==
  ASSUME NEW T \in SUBSET Nat, T # {}
  PROVE  \E m \in T : \A k \in T : m <= k
<1>1. \E m \in T : \A k \in T : << k, m >> \notin OpToRel(<, Nat)
  BY NatLessThanWellFounded, WFMin
<1>2. PICK m \in T : \A k \in T : << k, m >> \notin OpToRel(<, Nat)
  BY <1>1
<1>3. \A k \in T : ~(k < m)
  BY <1>2 DEF OpToRel
<1> QED  BY <1>3

\* A set with 0 that contains the successors of its elements is Nat.
LEMMA Induct ==
  ASSUME NEW S, 0 \in S, \A k \in Nat : k \in S => k + 1 \in S
  PROVE  Nat \subseteq S
<1> DEFINE T == Nat \ S
<1>1. SUFFICES ASSUME T # {}  PROVE FALSE
  OBVIOUS
<1>2. PICK m \in T : \A k \in T : m <= k
  <2>1. T \in SUBSET Nat  OBVIOUS
  <2> HIDE DEF T
  <2> QED  BY <1>1, <2>1, Least
<1>3. m \in Nat /\ m # 0 /\ m \notin S  BY <1>2
<1>4. m - 1 \in Nat /\ m - 1 < m /\ (m - 1) + 1 = m  BY <1>3
<1>5. m - 1 \in S
  <2> SUFFICES ASSUME m - 1 \in T  PROVE FALSE
    BY <1>4
  <2>1. m <= m - 1  BY <1>2
  <2> QED  BY <2>1, <1>3
<1> QED  BY <1>3, <1>4, <1>5

\* A set that contains every number whose predecessors it contains is Nat.
LEMMA Descend ==
  ASSUME NEW S, \A n \in Nat : (\A m \in 0 .. n - 1 : m \in S) => n \in S
  PROVE  Nat \subseteq S
<1> DEFINE T == Nat \ S
<1>1. SUFFICES ASSUME T # {}  PROVE FALSE
  OBVIOUS
<1>2. PICK n \in T : \A k \in T : n <= k
  <2>1. T \in SUBSET Nat  OBVIOUS
  <2> HIDE DEF T
  <2> QED  BY <1>1, <2>1, Least
<1>3. n \in Nat /\ n \notin S  BY <1>2
<1>4. ASSUME NEW m \in 0 .. n - 1  PROVE m \in S
  <2>1. m \in Nat /\ m < n  BY <1>3
  <2> SUFFICES ASSUME m \in T  PROVE FALSE
    BY <2>1
  <2>2. n <= m  BY <1>2
  <2> QED  BY <2>1, <2>2, <1>3
<1> QED  BY <1>3, <1>4

-----------------------------------------------------------------------------
(* The constants.                                                           *)

LEMMA BaseFact == Base \in Nat /\ Base >= 3 /\ MinLen \in Nat /\ MinLen >= 1
BY Base62Assumption DEF Base

\* A word has a positive number of values: it counts the subsets of its bits.
LEMMA WordFact == Word \in Nat /\ Word >= 1
<1> DEFINE Bits == 1 .. WordBits
<1>1. IsFiniteSet(Bits) /\ Cardinality(Bits) = WordBits
  <2>1. WordBits \in Nat  BY Base62Assumption
  <2>2. WordBits - 1 + 1 = WordBits  BY <2>1
  <2> QED  BY <2>1, <2>2, FS_Interval, Base62Assumption
<1> HIDE DEF Bits
<1>2. Cardinality(SUBSET Bits) = Word /\ IsFiniteSet(SUBSET Bits)
  BY <1>1, FS_SUBSET DEF Word
<1>3. SUBSET Bits # {}  OBVIOUS
<1>4. Cardinality(SUBSET Bits) \in Nat /\ Cardinality(SUBSET Bits) # 0
  BY <1>2, <1>3, FS_CardinalityType, FS_EmptySet
<1> QED  BY <1>2, <1>4

\* Division by the base, for the loops of Encode and Decode.
LEMMA Division ==
  ASSUME NEW n \in Nat
  PROVE  /\ n \div Base \in Nat
         /\ n % Base \in 0 .. Base - 1
         /\ n = (n \div Base) * Base + (n % Base)
         /\ n # 0 => n \div Base < n
<1> DEFINE q == n \div Base
           r == n % Base
<1>1. q \in Int /\ r \in 0 .. Base - 1 /\ n = q * Base + r
  BY BaseFact
<1> HIDE DEF q, r
<1>2. q >= 0
  <2> SUFFICES ASSUME q <= -1  PROVE FALSE
    BY <1>1
  <2>1. q * Base <= -Base  BY <1>1, BaseFact
  <2> QED  BY <2>1, <1>1, BaseFact
<1>3. n # 0 => q < n
  <2> SUFFICES ASSUME n # 0, q >= n  PROVE FALSE
    BY <1>1
  <2>1. q > 0  BY <1>1
  <2>2. q * Base >= q * 3  BY <1>1, <2>1, BaseFact
  <2> QED  BY <2>1, <2>2, <1>1, BaseFact
<1> QED  BY <1>1, <1>2, <1>3 DEF q, r

-----------------------------------------------------------------------------
(* Recursive functions.                                                     *)

\* f has the value a at 0 and computes every other value, by h, from the one at
\* the argument p gives, which must be an earlier one.
Descends(p) == \A n \in Nat \ {0} : p[n] < n
Solves(f, a, h, p) == f[0] = a /\ \A n \in Nat \ {0} : f[n] = h[<< f[p[n]], n >>]

\* Such a function exists, whatever a, h and p are.
LEMMA Recursion ==
  ASSUME NEW S, NEW a \in S, NEW h \in [S \X Nat -> S], NEW p \in [Nat -> Nat], Descends(p)
  PROVE  \E f \in [Nat -> S] : Solves(f, a, h, p)
<1> DEFINE Fits(g, k) == g[0] = a /\ \A n \in 1 .. k : g[n] = h[<< g[p[n]], n >>]
           Known == {k \in Nat : \E g \in [0 .. k -> S] : Fits(g, k)}
<1>0. \A x \in S, n \in Nat : h[<< x, n >>] \in S
  OBVIOUS
<1>p. ASSUME NEW n \in Nat, NEW k \in Nat, n # 0, n <= k + 1
      PROVE  p[n] \in 0 .. k /\ p[n] \in Nat /\ p[n] <= k
  <2>1. p[n] < n /\ p[n] \in Nat  BY <1>p DEF Descends
  <2> QED  BY <1>p, <2>1
<1>1. Nat \subseteq Known
  <2>1. 0 \in Known
    <3>1. [n \in 0 .. 0 |-> a] \in [0 .. 0 -> S] /\ Fits([n \in 0 .. 0 |-> a], 0)  OBVIOUS
    <3> QED  BY <3>1
  <2>2. ASSUME NEW k \in Nat, k \in Known  PROVE k + 1 \in Known
    <3>1. PICK g \in [0 .. k -> S] : Fits(g, k)  BY <2>2
    <3> DEFINE e == [n \in 0 .. k + 1 |-> IF n = k + 1 THEN h[<< g[p[k + 1]], k + 1 >>] ELSE g[n]]
    <3>2. p[k + 1] \in 0 .. k
      <4>1. k + 1 \in Nat /\ k + 1 # 0 /\ k + 1 <= k + 1  OBVIOUS
      <4> QED  BY <4>1, <1>p
    <3>3. e \in [0 .. k + 1 -> S]
      <4>0. g[p[k + 1]] \in S /\ k + 1 \in Nat  BY <3>2
      <4>1. h[<< g[p[k + 1]], k + 1 >>] \in S  BY <4>0, <1>0
      <4>2. \A n \in 0 .. k + 1 : n # k + 1 => g[n] \in S  OBVIOUS
      <4> QED  BY <4>1, <4>2
    <3>4. \A n \in 0 .. k : e[n] = g[n]  OBVIOUS
    <3>5. ASSUME NEW n \in 1 .. k  PROVE p[n] \in 0 .. k
      <4>1. n \in Nat /\ n # 0 /\ n <= k + 1  OBVIOUS
      <4> QED  BY <4>1, <1>p
    <3>6. ASSUME NEW n \in 1 .. k + 1  PROVE e[n] = h[<< e[p[n]], n >>]
      <4>1. CASE n = k + 1
        <5>0. k + 1 \in 0 .. k + 1  OBVIOUS
        <5>1. e[k + 1] = h[<< g[p[k + 1]], k + 1 >>]  BY <5>0, Zenon
        <5>2. e[p[k + 1]] = g[p[k + 1]]  BY <3>2, <3>4
        <5> HIDE DEF e
        <5> QED  BY <4>1, <5>1, <5>2
      <4>2. CASE n # k + 1
        <5>1. n \in 1 .. k  BY <4>2
        <5> HIDE DEF e
        <5>2. e[n] = g[n] /\ e[p[n]] = g[p[n]]  BY <5>1, <3>4, <3>5
        <5> QED  BY <5>1, <5>2, <3>1
      <4> QED  BY <4>1, <4>2
    <3>7. Fits(e, k + 1)
      <4>1. e[0] = a  BY <3>1
      <4> QED  BY <4>1, <3>6
    <3> HIDE DEF e, Fits
    <3>8. \E d \in [0 .. k + 1 -> S] : Fits(d, k + 1)  BY <3>3, <3>7
    <3> QED  BY <3>8
  <2> HIDE DEF Known
  <2> QED  BY <2>1, <2>2, Induct
<1>2. ASSUME NEW j \in Nat, NEW k \in Nat, NEW f \in [0 .. j -> S], NEW g \in [0 .. k -> S], Fits(f, j), Fits(g, k)
      PROVE  \A n \in Nat : n <= j /\ n <= k => f[n] = g[n]
  <2> DEFINE Agree == {n \in Nat : n <= j /\ n <= k => f[n] = g[n]}
  <2>1. ASSUME NEW n \in Nat, \A m \in 0 .. n - 1 : m \in Agree  PROVE n \in Agree
    <3>1. SUFFICES ASSUME n <= j, n <= k, n # 0  PROVE f[n] = g[n]
      BY <1>2
    <3>2. p[n] \in 0 .. n - 1 /\ p[n] \in Nat /\ p[n] <= j /\ p[n] <= k
      <4>1. n - 1 \in Nat /\ n <= (n - 1) + 1 /\ n <= j + 1 /\ n <= k + 1  BY <3>1
      <4> QED  BY <3>1, <4>1, <1>p
    <3>3. f[p[n]] = g[p[n]]
      <4>1. p[n] \in Agree  BY <3>2, <2>1
      <4> QED  BY <3>2, <4>1
    <3>4. n \in 1 .. j /\ n \in 1 .. k  BY <3>1
    <3> QED  BY <3>3, <3>4, <1>2
  <2> HIDE DEF Agree
  <2>2. Nat \subseteq Agree  BY <2>1, Descend
  <2> QED  BY <2>2 DEF Agree
<1> DEFINE Best(k) == CHOOSE g \in [0 .. k -> S] : Fits(g, k)
           f == [n \in Nat |-> Best(n)[n]]
<1>3. ASSUME NEW k \in Nat  PROVE Best(k) \in [0 .. k -> S] /\ Fits(Best(k), k)
  <2>1. \E g \in [0 .. k -> S] : Fits(g, k)  BY <1>1
  <2> HIDE DEF Fits
  <2> QED  BY <2>1, Zenon
<1> HIDE DEF Best
<1>4. f \in [Nat -> S] /\ f[0] = a
  <2>1. ASSUME NEW n \in Nat  PROVE Best(n)[n] \in S
    BY <1>3
  <2>2. Best(0)[0] = a  BY <1>3
  <2> QED  BY <2>1, <2>2
<1>5. ASSUME NEW n \in Nat \ {0}  PROVE f[n] = h[<< f[p[n]], n >>]
  <2>1. n \in 1 .. n /\ p[n] \in Nat /\ p[n] <= n /\ p[n] <= p[n]
    <3>1. n <= n + 1 /\ n # 0 /\ n \in Nat  OBVIOUS
    <3> QED  BY <3>1, <1>p
  <2>2. Best(n)[n] = h[<< Best(n)[p[n]], n >>]  BY <1>3, <2>1
  <2>3. Best(n)[p[n]] = Best(p[n])[p[n]]
    <3>1. Best(n) \in [0 .. n -> S] /\ Fits(Best(n), n)  BY <1>3
    <3>2. Best(p[n]) \in [0 .. p[n] -> S] /\ Fits(Best(p[n]), p[n])  BY <1>3, <2>1
    <3>3. PICK m \in Nat : m = p[n]  BY <2>1
    <3>4. m <= n /\ m <= m  BY <2>1, <3>3
    <3> HIDE DEF Fits
    <3>5. Best(m) \in [0 .. m -> S] /\ Fits(Best(m), m)  BY <3>2, <3>3
    <3>6. \A i \in Nat : i <= n /\ i <= m => Best(n)[i] = Best(m)[i]
      BY <3>1, <3>5, <1>2
    <3>7. Best(n)[m] = Best(m)[m]  BY <3>4, <3>6
    <3> QED  BY <3>3, <3>7
  <2>4. f[n] = Best(n)[n] /\ f[p[n]] = Best(p[n])[p[n]]  BY <2>1
  <2> HIDE DEF f
  <2> QED  BY <2>2, <2>3, <2>4
<1> HIDE DEF f
<1> QED  BY <1>4, <1>5 DEF Solves

\* The powers of the base.
LEMMA PowerRule ==
  /\ Power \in [Nat -> Nat]
  /\ Power[0] = 1
  /\ \A k \in Nat : Power[k + 1] = Base * Power[k]
<1> DEFINE h == [q \in Nat \X Nat |-> Base * q[1]]
           p == [k \in Nat |-> IF k = 0 THEN 0 ELSE k - 1]
<1>1. h \in [Nat \X Nat -> Nat] /\ p \in [Nat -> Nat] /\ \A k \in Nat \ {0} : p[k] < k
  BY BaseFact
<1>2. \A x \in Nat, k \in Nat : h[<< x, k >>] = Base * x
  OBVIOUS
<1>3. \A k \in Nat \ {0} : p[k] = k - 1
  OBVIOUS
<1> HIDE DEF h, p
<1>4. PICK f \in [Nat -> Nat] : f[0] = 1 /\ \A k \in Nat \ {0} : f[k] = h[<< f[p[k]], k >>]
  <2>1. 1 \in Nat /\ Descends(p)  BY <1>1 DEF Descends
  <2>2. PICK f \in [Nat -> Nat] : Solves(f, 1, h, p)  BY <1>1, <2>1, Recursion
  <2> QED  BY <2>2 DEF Solves
<1>5. ASSUME NEW k \in Nat \ {0}  PROVE f[k] = Base * f[k - 1]
  <2>1. k - 1 \in Nat /\ k \in Nat  OBVIOUS
  <2>2. f[k - 1] \in Nat  BY <2>1
  <2>3. f[k] = h[<< f[k - 1], k >>]  BY <1>3, <1>4
  <2> QED  BY <1>2, <2>1, <2>2, <2>3
<1>6. f = [k \in Nat |-> IF k = 0 THEN 1 ELSE Base * f[k - 1]]
  <2>1. \A k \in Nat : f[k] = IF k = 0 THEN 1 ELSE Base * f[k - 1]
    BY <1>4, <1>5
  <2> QED  BY <2>1
<1>7. Power = [k \in Nat |-> IF k = 0 THEN 1 ELSE Base * Power[k - 1]]
  BY <1>6, Zenon DEF Power
<1>8. Power[0] = 1 /\ \A k \in Nat : Power[k + 1] = Base * Power[k]
  <2>1. Power[0] = 1  BY <1>7
  <2>2. ASSUME NEW k \in Nat  PROVE Power[k + 1] = Base * Power[k]
    <3>1. k + 1 \in Nat /\ k + 1 # 0 /\ (k + 1) - 1 = k  OBVIOUS
    <3>2. Power[k + 1] = IF k + 1 = 0 THEN 1 ELSE Base * Power[(k + 1) - 1]  BY <3>1, <1>7, Zenon
    <3> QED  BY <3>1, <3>2
  <2> QED  BY <2>1, <2>2
<1>9. Nat \subseteq {k \in Nat : Power[k] \in Nat}
  <2> DEFINE S == {k \in Nat : Power[k] \in Nat}
  <2>1. 0 \in S  BY <1>8
  <2>2. ASSUME NEW k \in Nat, k \in S  PROVE k + 1 \in S
    BY <2>2, <1>8, BaseFact
  <2> HIDE DEF S
  <2> QED  BY <2>1, <2>2, Induct DEF S
<1>10. Power = [k \in Nat |-> Power[k]]  BY <1>7, Zenon
<1> QED  BY <1>8, <1>9, <1>10

\* They grow.
LEMMA PowerGrows ==
  ASSUME NEW i \in Nat, NEW j \in Nat, i <= j
  PROVE  Power[i] \in Nat /\ Power[j] \in Nat /\ 1 <= Power[i] /\ Power[i] <= Power[j]
<1>1. \A k \in Nat : Power[k] \in Nat /\ Power[k + 1] \in Nat /\ Power[k + 1] = Base * Power[k]
  BY PowerRule
<1>2. Nat \subseteq {k \in Nat : 1 <= Power[k]}
  <2> DEFINE S == {k \in Nat : 1 <= Power[k]}
  <2>1. 0 \in S  BY PowerRule
  <2>2. ASSUME NEW k \in Nat, k \in S  PROVE k + 1 \in S
    BY <1>1, <2>2, BaseFact
  <2> HIDE DEF S
  <2> QED  BY <2>1, <2>2, Induct DEF S
<1>3. Nat \subseteq {k \in Nat : i <= k => Power[i] <= Power[k]}
  <2> DEFINE S == {k \in Nat : i <= k => Power[i] <= Power[k]}
  <2>1. 0 \in S
    <3> SUFFICES ASSUME i <= 0  PROVE Power[i] <= Power[0]
      OBVIOUS
    <3>1. i = 0  OBVIOUS
    <3> QED  BY <3>1, PowerRule
  <2>2. ASSUME NEW k \in Nat, k \in S  PROVE k + 1 \in S
    <3>1. Power[k] <= Power[k + 1]
      <4>1. PICK x \in Nat : x = Power[k]  BY <1>1
      <4>2. x <= Base * x  BY BaseFact
      <4> QED  BY <1>1, <4>1, <4>2
    <3>2. CASE i = k + 1  BY <3>2, <1>1
    <3>3. CASE i # k + 1
      <4>1. i <= k + 1 => i <= k  BY <3>3
      <4>2. Power[i] \in Nat /\ Power[k] \in Nat /\ Power[k + 1] \in Nat  BY <1>1
      <4> QED  BY <2>2, <3>1, <4>1, <4>2
    <3> QED  BY <3>2, <3>3
  <2> HIDE DEF S
  <2> QED  BY <2>1, <2>2, Induct DEF S
<1> QED  BY <1>1, <1>2, <1>3

\* The digits Encode writes.
LEMMA DigitsRule ==
  /\ Digits \in [Nat -> Seq(0 .. Base - 1)]
  /\ Digits[0] = << >>
  /\ \A n \in Nat \ {0} : Digits[n] = Append(Digits[n \div Base], n % Base)
<1> DEFINE D == 0 .. Base - 1
           h == [q \in Seq(D) \X Nat |-> Append(q[1], q[2] % Base)]
           p == [n \in Nat |-> IF n = 0 THEN 0 ELSE n \div Base]
<1>1. p \in [Nat -> Nat] /\ \A n \in Nat \ {0} : p[n] < n
  BY Division
<1>2. ASSUME NEW s \in Seq(D), NEW n \in Nat
      PROVE  h[<< s, n >>] = Append(s, n % Base) /\ Append(s, n % Base) \in Seq(D)
  <2>1. n % Base \in D  BY Division
  <2> QED  BY <2>1
<1>3. h \in [Seq(D) \X Nat -> Seq(D)]
  <2>1. ASSUME NEW q \in Seq(D) \X Nat  PROVE Append(q[1], q[2] % Base) \in Seq(D)
    BY <1>2
  <2> QED  BY <2>1
<1>4. \A n \in Nat \ {0} : p[n] = n \div Base
  OBVIOUS
<1>5. << >> \in Seq(D)  OBVIOUS
<1> HIDE DEF D, h, p
<1>6. PICK f \in [Nat -> Seq(D)] : f[0] = << >> /\ \A n \in Nat \ {0} : f[n] = h[<< f[p[n]], n >>]
  <2>1. Descends(p)  BY <1>1 DEF Descends
  <2>2. PICK f \in [Nat -> Seq(D)] : Solves(f, << >>, h, p)  BY <1>1, <1>3, <1>5, <2>1, Recursion
  <2> QED  BY <2>2 DEF Solves
<1>7. ASSUME NEW n \in Nat \ {0}  PROVE f[n] = Append(f[n \div Base], n % Base)
  <2>1. n \div Base \in Nat /\ n \in Nat  BY Division
  <2>2. f[n \div Base] \in Seq(D)  BY <2>1
  <2>3. f[n] = h[<< f[n \div Base], n >>]  BY <1>4, <1>6
  <2> QED  BY <1>2, <2>1, <2>2, <2>3
<1>8. f = [n \in Nat |-> IF n = 0 THEN << >> ELSE Append(f[n \div Base], n % Base)]
  <2>1. \A n \in Nat : f[n] = IF n = 0 THEN << >> ELSE Append(f[n \div Base], n % Base)
    BY <1>6, <1>7
  <2> QED  BY <2>1
<1>9. Digits = [n \in Nat |-> IF n = 0 THEN << >> ELSE Append(Digits[n \div Base], n % Base)]
  BY <1>8, Zenon DEF Digits
<1>10. Digits[0] = << >> /\ \A n \in Nat \ {0} : Digits[n] = Append(Digits[n \div Base], n % Base)
  BY <1>9
<1>11. Nat \subseteq {n \in Nat : Digits[n] \in Seq(D)}
  <2> DEFINE S == {n \in Nat : Digits[n] \in Seq(D)}
  <2>1. ASSUME NEW n \in Nat, \A m \in 0 .. n - 1 : m \in S  PROVE n \in S
    <3>1. CASE n = 0  BY <3>1, <1>5, <1>10
    <3>2. CASE n # 0
      <4>1. n \div Base \in 0 .. n - 1  BY <3>2, Division
      <4>2. Digits[n \div Base] \in Seq(D)  BY <4>1, <2>1
      <4>3. Digits[n] = Append(Digits[n \div Base], n % Base)  BY <3>2, <1>10
      <4>4. n % Base \in D  BY Division DEF D
      <4>5. Digits[n] \in Seq(D)  BY <4>2, <4>3, <4>4
      <4> QED  BY <4>5
    <3> QED  BY <3>1, <3>2
  <2> HIDE DEF S
  <2> QED  BY <2>1, Descend DEF S
<1>12. Digits = [n \in Nat |-> Digits[n]]  BY <1>9, Zenon
<1> QED  BY <1>10, <1>11, <1>12 DEF D

\* Arithmetic of the word.
LEMMA Wraps ==
  ASSUME NEW x \in Nat
  PROVE  x % Word \in 0 .. Word - 1 /\ (x < Word => x % Word = x)
BY WordFact

\* A sum of an id and the offset that does not fit the word ends below the offset.
LEMMA WrapsBelow ==
  ASSUME NEW i \in Nat, NEW o \in Nat, i < Word, Word <= i + o
  PROVE  (i + o) % Word < o
<1>1. PICK x \in Nat : x = i + o  OBVIOUS
<1>2. PICK q \in Int, m \in 0 .. Word - 1 : m = x % Word /\ x = q * Word + m
  <2>1. x \div Word \in Int /\ x % Word \in 0 .. Word - 1 /\ x = (x \div Word) * Word + (x % Word)
    BY WordFact
  <2> QED  BY <2>1
<1>3. q >= 1
  <2> SUFFICES ASSUME q <= 0  PROVE FALSE
    BY <1>2
  <2>1. q * Word <= 0  BY <1>2, WordFact
  <2> QED  BY <1>1, <1>2, <2>1, WordFact
<1>4. q * Word >= Word  BY <1>3, WordFact
<1>5. q * Word \in Int  BY WordFact
<1>6. m < o  BY <1>1, <1>2, <1>4, <1>5, WordFact
<1> QED  BY <1>1, <1>2, <1>6

\* v holds the values of n in the loop of Decode over s.
Loop(v, s) ==
  /\ v[0] = 0
  /\ \A i \in 1 .. Len(s) : v[i] = (v[i - 1] * Base + s[i]) % Word

\* Value is what the loop ends with.
LEMMA ValueRule ==
  ASSUME NEW s \in Seq(0 .. Base - 1)
  PROVE  \E v \in [0 .. Len(s) -> 0 .. Word - 1] : Loop(v, s) /\ Value(s) = v[Len(s)]
<1> DEFINE W == 0 .. Word - 1
           d == [i \in Nat |-> IF i \in 1 .. Len(s) THEN s[i] ELSE 0]
           h == [q \in W \X Nat |-> (q[1] * Base + d[q[2]]) % Word]
           p == [i \in Nat |-> IF i = 0 THEN 0 ELSE i - 1]
<1>1. PICK l \in Nat : l = Len(s)  BY LenProperties
<1>2. d \in [Nat -> Nat] /\ \A i \in 1 .. l : d[i] = s[i]
  <2>1. ASSUME NEW i \in 1 .. l  PROVE s[i] \in Nat
    <3>1. s[i] \in 0 .. Base - 1  BY <1>1, ElementOfSeq
    <3> QED  BY <3>1, BaseFact
  <2> QED  BY <1>1, <2>1
<1> HIDE DEF d
<1>3. ASSUME NEW x \in W, NEW i \in Nat
      PROVE  h[<< x, i >>] = (x * Base + d[i]) % Word /\ (x * Base + d[i]) % Word \in W
  <2>1. x \in Nat  BY WordFact
  <2>2. d[i] \in Nat  BY <1>2
  <2>3. x * Base \in Nat  BY <2>1, BaseFact
  <2>4. x * Base + d[i] \in Nat  BY <2>2, <2>3
  <2>5. (x * Base + d[i]) % Word \in W  BY <2>4, Wraps
  <2> QED  BY <2>5
<1>4. h \in [W \X Nat -> W]
  <2>1. \A q \in W \X Nat : h[q] \in W  BY <1>3
  <2> QED  BY <2>1
<1>5. p \in [Nat -> Nat] /\ Descends(p) /\ \A i \in Nat \ {0} : p[i] = i - 1
  BY DEF Descends
<1>6. 0 \in W  BY WordFact
<1> HIDE DEF W, h, p
<1>7. PICK f \in [Nat -> W] : Solves(f, 0, h, p)  BY <1>4, <1>5, <1>6, Recursion
<1>8. ASSUME NEW i \in 1 .. l  PROVE f[i] = (f[i - 1] * Base + s[i]) % Word
  <2>1. i - 1 \in Nat /\ i \in Nat \ {0} /\ i \in Nat  OBVIOUS
  <2>2. f[i - 1] \in W  BY <2>1
  <2>3. f[i] = h[<< f[i - 1], i >>]  BY <1>5, <1>7, <2>1 DEF Solves
  <2>4. d[i] = s[i]  BY <1>2
  <2> QED  BY <1>3, <2>1, <2>2, <2>3, <2>4
<1> DEFINE g == [i \in 0 .. Len(s) |-> f[i]]
           v == CHOOSE v : v = [i \in 0 .. Len(s) |-> IF i = 0 THEN 0 ELSE (v[i - 1] * Base + s[i]) % Word]
<1>9. g = [i \in 0 .. Len(s) |-> IF i = 0 THEN 0 ELSE (g[i - 1] * Base + s[i]) % Word]
  <2>1. ASSUME NEW i \in 0 .. Len(s)
        PROVE  g[i] = IF i = 0 THEN 0 ELSE (g[i - 1] * Base + s[i]) % Word
    <3>1. CASE i = 0  BY <3>1, <1>7 DEF Solves
    <3>2. CASE i # 0
      <4>1. i \in 1 .. l /\ i \in 0 .. l /\ i - 1 \in 0 .. l  BY <1>1, <3>2
      <4>2. g[i] = f[i] /\ g[i - 1] = f[i - 1]  BY <1>1, <4>1
      <4> HIDE DEF g
      <4> QED  BY <1>8, <3>2, <4>1, <4>2
    <3> QED  BY <3>1, <3>2
  <2> QED  BY <2>1
<1> HIDE DEF g
<1>10. v = [i \in 0 .. Len(s) |-> IF i = 0 THEN 0 ELSE (v[i - 1] * Base + s[i]) % Word]
  BY <1>9, Zenon
<1>11. Value(s) = v[Len(s)]  BY DEF Value
<1> HIDE DEF v
<1>12. v[0] = 0  BY <1>1, <1>10
<1>13. ASSUME NEW i \in 1 .. l  PROVE v[i] = (v[i - 1] * Base + s[i]) % Word
  <2>1. i \in 0 .. Len(s) /\ i # 0  BY <1>1
  <2> QED  BY <1>10, <2>1
<1>14. Nat \subseteq {i \in Nat : i <= l => v[i] \in W}
  <2> DEFINE T == {i \in Nat : i <= l => v[i] \in W}
  <2>1. 0 \in T  BY <1>6, <1>12
  <2>2. ASSUME NEW i \in Nat, i \in T  PROVE i + 1 \in T
    <3>1. SUFFICES ASSUME i + 1 <= l  PROVE v[i + 1] \in W
      OBVIOUS
    <3>2. i + 1 \in 1 .. l /\ (i + 1) - 1 = i /\ i + 1 \in Nat  BY <3>1
    <3>3. v[i] \in W  BY <2>2, <3>1
    <3>4. v[i + 1] = (v[i] * Base + s[i + 1]) % Word  BY <1>13, <3>2
    <3>5. d[i + 1] = s[i + 1]  BY <1>2, <3>2
    <3>6. (v[i] * Base + d[i + 1]) % Word \in W  BY <1>3, <3>2, <3>3
    <3> QED  BY <3>4, <3>5, <3>6
  <2> HIDE DEF T
  <2> QED  BY <2>1, <2>2, Induct DEF T
<1>15. v \in [0 .. Len(s) -> W]
  <2>1. \A i \in 0 .. Len(s) : v[i] \in W  BY <1>1, <1>14
  <2>2. v = [i \in 0 .. Len(s) |-> v[i]]  BY <1>10, Zenon
  <2> QED  BY <2>1, <2>2
<1>16. Loop(v, s)  BY <1>1, <1>12, <1>13 DEF Loop
<1> QED  BY <1>11, <1>15, <1>16 DEF W

\* s and t begin with the same k characters.
SameStart(s, t, k) == \A i \in 1 .. k : s[i] = t[i]

\* The loop takes the same values over strings that begin alike.
LEMMA LoopPrefix ==
  ASSUME NEW s, NEW t, NEW v, NEW w, Loop(v, s), Loop(w, t),
         NEW k \in Nat, Len(s) \in Nat, Len(t) \in Nat, k <= Len(s), k <= Len(t),
         SameStart(s, t, k)
  PROVE  \A i \in 0 .. k : v[i] = w[i]
<1> DEFINE S == {i \in Nat : i <= k => v[i] = w[i]}
<1>1. 0 \in S  BY DEF Loop
<1>2. ASSUME NEW i \in Nat, i \in S  PROVE i + 1 \in S
  <2>1. SUFFICES ASSUME i + 1 <= k  PROVE v[i + 1] = w[i + 1]
    OBVIOUS
  <2>2. i + 1 \in 1 .. Len(s) /\ i + 1 \in 1 .. Len(t) /\ i + 1 \in 1 .. k /\ (i + 1) - 1 = i
    BY <2>1
  <2>3. v[i] = w[i] /\ s[i + 1] = t[i + 1]  BY <1>2, <2>1, <2>2 DEF SameStart
  <2>4. v[i + 1] = (v[i] * Base + s[i + 1]) % Word  BY <2>2 DEF Loop
  <2>5. w[i + 1] = (w[i] * Base + t[i + 1]) % Word  BY <2>2 DEF Loop
  <2> QED  BY <2>3, <2>4, <2>5
<1> HIDE DEF S
<1>3. Nat \subseteq S  BY <1>1, <1>2, Induct
<1> QED  BY <1>3 DEF S

\* One more character: n = n*62 + idx.
LEMMA Horner ==
  ASSUME NEW s \in Seq(0 .. Base - 1), NEW d \in 0 .. Base - 1
  PROVE  /\ Value(s) \in 0 .. Word - 1
         /\ Value(Append(s, d)) = (Value(s) * Base + d) % Word
<1> DEFINE t == Append(s, d)
<1>1. PICK l \in Nat : l = Len(s)  BY LenProperties
<1>2. t \in Seq(0 .. Base - 1) /\ Len(t) = l + 1 /\ t[l + 1] = d /\ \A i \in 1 .. l : t[i] = s[i]
  BY <1>1, AppendProperties
<1> HIDE DEF t
<1>3. PICK v \in [0 .. Len(s) -> 0 .. Word - 1] : Loop(v, s) /\ Value(s) = v[Len(s)]  BY ValueRule
<1>4. PICK w \in [0 .. Len(t) -> 0 .. Word - 1] : Loop(w, t) /\ Value(t) = w[Len(t)]  BY <1>2, ValueRule
<1>5. v[l] = w[l]
  <2>1. \A i \in 0 .. l : v[i] = w[i]
    <3>1. Len(s) \in Nat /\ Len(t) \in Nat /\ l <= Len(s) /\ l <= Len(t) /\ SameStart(s, t, l)
      BY <1>1, <1>2 DEF SameStart
    <3> QED  BY <1>3, <1>4, <3>1, LoopPrefix
  <2> QED  BY <2>1
<1>6. w[l + 1] = (w[l] * Base + t[l + 1]) % Word
  <2>1. l + 1 \in 1 .. Len(t) /\ (l + 1) - 1 = l  BY <1>2
  <2> QED  BY <1>4, <2>1 DEF Loop
<1>7. Value(s) \in 0 .. Word - 1
  <2>1. v[l] \in 0 .. Word - 1  BY <1>1, <1>3
  <2> QED  BY <1>1, <1>3, <2>1
<1>8. Value(t) = (Value(s) * Base + d) % Word
  BY <1>1, <1>2, <1>3, <1>4, <1>5, <1>6
<1> QED  BY <1>7, <1>8 DEF t

\* The empty string has the value 0.
LEMMA ValueOfNothing == Value(<< >>) = 0
<1>1. << >> \in Seq(0 .. Base - 1) /\ Len(<< >>) = 0  OBVIOUS
<1>2. PICK v \in [0 .. 0 -> 0 .. Word - 1] : Loop(v, << >>) /\ Value(<< >>) = v[0]
  BY <1>1, ValueRule
<1> QED  BY <1>2 DEF Loop

\* Decode's loop undoes Encode's.
LEMMA ValueOfDigits ==
  ASSUME NEW n \in Nat, n < Word
  PROVE  Value(Digits[n]) = n
<1> DEFINE S == {k \in Nat : k < Word => Value(Digits[k]) = k}
<1>1. ASSUME NEW k \in Nat, \A m \in 0 .. k - 1 : m \in S  PROVE k \in S
  <2>1. CASE k = 0  BY <2>1, ValueOfNothing, DigitsRule
  <2>2. CASE k # 0
    <3>1. SUFFICES ASSUME k < Word  PROVE Value(Digits[k]) = k
      OBVIOUS
    <3>2. PICK q \in Nat, r \in 0 .. Base - 1 :
            q = k \div Base /\ r = k % Base /\ k = q * Base + r /\ q < k
      BY <2>2, Division
    <3>3. Digits[k] = Append(Digits[q], r) /\ Digits[q] \in Seq(0 .. Base - 1)
      BY <2>2, <3>2, DigitsRule
    <3>4. Value(Digits[q]) = q
      <4>1. q \in 0 .. k - 1 /\ q < Word  BY <3>1, <3>2, WordFact
      <4> QED  BY <1>1, <4>1
    <3>5. Value(Digits[k]) = (q * Base + r) % Word  BY <3>3, <3>4, Horner
    <3> QED  BY <3>1, <3>2, <3>5, Wraps
  <2> QED  BY <2>1, <2>2
<1> HIDE DEF S
<1>2. Nat \subseteq S  BY <1>1, Descend
<1> QED  BY <1>2 DEF S

\* A number other than 0 is written with at least one digit.
LEMMA DigitsNonempty ==
  ASSUME NEW n \in Nat \ {0}
  PROVE  Digits[n] \in Seq(0 .. Base - 1) /\ Digits[n] # << >>
         /\ \A i \in 1 .. Len(Digits[n]) : Digits[n][i] \in 0 .. Base - 1
<1>1. n \div Base \in Nat /\ n % Base \in 0 .. Base - 1 /\ n \in Nat  BY Division
<1>2. PICK s \in Seq(0 .. Base - 1) : Digits[n] = Append(s, n % Base)
  BY <1>1, DigitsRule
<1>3. Append(s, n % Base) # << >> /\ Append(s, n % Base) \in Seq(0 .. Base - 1)
  BY <1>1, AppendProperties
<1> QED  BY <1>2, <1>3, ElementOfSeq

LEMMA OffsetFact == Offset \in Nat /\ Offset >= 1 /\ Offset = Power[MinLen - 1]
<1>1. MinLen - 1 \in Nat /\ MinLen - 1 <= MinLen - 1  BY BaseFact
<1> QED  BY <1>1, PowerGrows DEF Offset

-----------------------------------------------------------------------------
(* Decode inverts Encode.                                                   *)

LEMMA DecodesBack ==
  ASSUME NEW i \in 0 .. Word - 1
  PROVE  Decode(Encode(i)) = IF i + Offset < Word THEN i ELSE DecodeError
<1>1. i \in Nat /\ i < Word /\ i + Offset \in Nat  BY WordFact, OffsetFact
<1>2. PICK n \in 0 .. Word - 1 : n = (i + Offset) % Word  BY <1>1, Wraps
<1>3. n \in Nat /\ n < Word  BY <1>2, WordFact
<1>4. CASE n = 0
  <2>1. ~(i + Offset < Word)  BY <1>1, <1>2, <1>4, Wraps, OffsetFact
  <2>2. Value(<< 0 >>) = 0
    <3>0. << >> \in Seq(0 .. Base - 1)  OBVIOUS
    <3>1. PICK s \in Seq(0 .. Base - 1) : s = << >>  BY <3>0, Zenon
    <3>2. 0 \in 0 .. Base - 1 /\ Append(s, 0) = << 0 >>  BY <3>1, BaseFact
    <3>3. Value(Append(s, 0)) = (Value(s) * Base + 0) % Word  BY <3>2, Horner
    <3>4. Value(<< 0 >>) = (0 * Base + 0) % Word  BY <3>1, <3>2, <3>3, ValueOfNothing
    <3> QED  BY <3>4, Wraps, BaseFact, WordFact
  <2>3. Encode(i) = << 0 >>  BY <1>2, <1>4 DEF Encode
  <2>4. Decode(<< 0 >>) = DecodeError  BY <2>2, OffsetFact DEF Decode
  <2> QED  BY <2>1, <2>3, <2>4
<1>5. CASE n # 0
  <2>1. Encode(i) = Digits[n]  BY <1>2, <1>5 DEF Encode
  <2>2. Value(Digits[n]) = n  BY <1>3, ValueOfDigits
  <2>3. Decode(Digits[n]) = IF n < Offset THEN DecodeError ELSE n - Offset
    <3>1. n \in Nat \ {0}  BY <1>3, <1>5
    <3> QED  BY <2>2, <3>1, DigitsNonempty DEF Decode
  <2>4. CASE i + Offset < Word
    <3>1. n = i + Offset  BY <1>1, <1>2, <2>4, Wraps
    <3> QED  BY <1>1, <2>1, <2>3, <2>4, <3>1, OffsetFact
  <2>5. CASE ~(i + Offset < Word)
    <3>1. Word <= i + Offset  BY <1>1, <2>5, OffsetFact, WordFact
    <3>2. (i + Offset) % Word < Offset  BY <1>1, <3>1, WrapsBelow, OffsetFact
    <3>3. n < Offset  BY <1>2, <3>2
    <3> QED  BY <2>1, <2>3, <2>5, <3>3
  <2> QED  BY <2>4, <2>5
<1> QED  BY <1>4, <1>5

-----------------------------------------------------------------------------
(* Strings of one length have different values.                             *)

\* Quotient and remainder determine each other.
LEMMA SameDivision ==
  ASSUME NEW x \in Nat, NEW y \in Nat, NEW c \in 0 .. Base - 1, NEW d \in 0 .. Base - 1,
         x * Base + c = y * Base + d
  PROVE  x = y /\ c = d
<1>1. PICK z \in Int : z = x - y  OBVIOUS
<1>2. z * Base = d - c  BY <1>1, BaseFact
<1>3. z < 1
  <2> SUFFICES ASSUME z >= 1  PROVE FALSE
    BY <1>1
  <2>1. z * Base >= Base  BY <1>1, BaseFact
  <2> QED  BY <1>2, <2>1, BaseFact
<1>4. z > -1
  <2> SUFFICES ASSUME z <= -1  PROVE FALSE
    BY <1>1
  <2>1. z * Base <= -Base  BY <1>1, BaseFact
  <2> QED  BY <1>2, <2>1, BaseFact
<1>5. z = 0  BY <1>1, <1>3, <1>4
<1> QED  BY <1>1, <1>2, <1>5, BaseFact

\* A value of k characters is below the k-th power: the loop does not wrap on a
\* string whose length's power fits the word.
LEMMA LoopBound ==
  ASSUME NEW s \in Seq(0 .. Base - 1), NEW v \in [0 .. Len(s) -> 0 .. Word - 1], Loop(v, s),
         NEW k \in Nat, k = Len(s), Power[k] <= Word
  PROVE  \A i \in 0 .. k :
           /\ v[i] \in Nat /\ v[i] < Power[i]
           /\ i < k => s[i + 1] \in 0 .. Base - 1 /\ v[i + 1] = v[i] * Base + s[i + 1]
<1>1. \A i \in 0 .. k : v[i] \in Nat  BY WordFact
<1>2. ASSUME NEW i \in Nat, i < k, v[i] < Power[i]
      PROVE  /\ s[i + 1] \in 0 .. Base - 1 /\ v[i + 1] = v[i] * Base + s[i + 1]
             /\ v[i + 1] < Power[i + 1]
  <2>1. i + 1 \in 1 .. Len(s) /\ (i + 1) - 1 = i /\ i + 1 <= k /\ i + 1 \in Nat  BY <1>2
  <2>2. PICK d \in 0 .. Base - 1 : d = s[i + 1]  BY <2>1, ElementOfSeq
  <2>3. PICK x \in Nat : x = v[i]  BY <1>1, <1>2
  <2>4. PICK b \in Nat : b = Power[i] /\ Power[i + 1] = Base * b  BY PowerRule
  <2>5. Base * b <= Word  BY <2>1, <2>4, PowerGrows, WordFact
  <2>6. x * Base + d \in Nat /\ x * Base + d < Base * b
    <3>1. x + 1 <= b  BY <1>2, <2>3, <2>4
    <3>2. (x + 1) * Base <= b * Base  BY <3>1, BaseFact
    <3>3. (x + 1) * Base = x * Base + Base  BY BaseFact
    <3>4. x * Base \in Nat /\ b * Base = Base * b /\ b * Base \in Nat  BY BaseFact
    <3> QED  BY <3>2, <3>3, <3>4, BaseFact
  <2>7. x * Base + d < Word  BY <2>5, <2>6, WordFact, BaseFact
  <2>8. v[i + 1] = (x * Base + d) % Word  BY <2>1, <2>2, <2>3 DEF Loop
  <2>9. v[i + 1] = x * Base + d  BY <2>6, <2>7, <2>8, Wraps
  <2> QED  BY <2>2, <2>3, <2>4, <2>6, <2>9
<1> DEFINE S == {i \in Nat : i <= k => v[i] < Power[i]}
<1>3. 0 \in S  BY PowerRule DEF Loop
<1>4. ASSUME NEW i \in Nat, i \in S  PROVE i + 1 \in S
  BY <1>2, <1>4
<1>5. Nat \subseteq S
  <2> HIDE DEF S
  <2> QED  BY <1>3, <1>4, Induct
<1>6. \A i \in 0 .. k : v[i] < Power[i]  BY <1>5
<1> HIDE DEF S
<1> QED  BY <1>1, <1>2, <1>6

\* Two strings of one length with the same value are the same string.
LEMMA ValueInjective ==
  ASSUME NEW s \in Seq(0 .. Base - 1), NEW t \in Seq(0 .. Base - 1),
         NEW k \in Nat, k = Len(s), k = Len(t), Power[k] <= Word, Value(s) = Value(t)
  PROVE  s = t /\ Value(s) \in Nat /\ Value(s) < Power[k]
<1>1. PICK v \in [0 .. Len(s) -> 0 .. Word - 1] : Loop(v, s) /\ Value(s) = v[Len(s)]  BY ValueRule
<1>2. PICK w \in [0 .. Len(t) -> 0 .. Word - 1] : Loop(w, t) /\ Value(t) = w[Len(t)]  BY ValueRule
<1>3. \A i \in 0 .. k :
        /\ v[i] \in Nat /\ v[i] < Power[i]
        /\ i < k => s[i + 1] \in 0 .. Base - 1 /\ v[i + 1] = v[i] * Base + s[i + 1]
  BY <1>1, LoopBound
<1>4. \A i \in 0 .. k :
        /\ w[i] \in Nat /\ w[i] < Power[i]
        /\ i < k => t[i + 1] \in 0 .. Base - 1 /\ w[i + 1] = w[i] * Base + t[i + 1]
  BY <1>2, LoopBound
<1>5. ASSUME NEW i \in Nat, i < k, v[i + 1] = w[i + 1]  PROVE v[i] = w[i] /\ s[i + 1] = t[i + 1]
  <2>1. i \in 0 .. k  BY <1>5
  <2>2. PICK x \in Nat, c \in 0 .. Base - 1 : x = v[i] /\ c = s[i + 1] /\ v[i + 1] = x * Base + c
    BY <1>3, <1>5, <2>1
  <2>3. PICK y \in Nat, d \in 0 .. Base - 1 : y = w[i] /\ d = t[i + 1] /\ w[i + 1] = y * Base + d
    BY <1>4, <1>5, <2>1
  <2>4. x = y /\ c = d
    <3>1. x * Base + c = y * Base + d  BY <1>5, <2>2, <2>3
    <3> QED  BY <3>1, SameDivision
  <2> QED  BY <2>2, <2>3, <2>4
<1> DEFINE S == {j \in Nat : j <= k => v[k - j] = w[k - j]}
<1>6. 0 \in S  BY <1>1, <1>2
<1>7. ASSUME NEW j \in Nat, j \in S  PROVE j + 1 \in S
  <2>1. SUFFICES ASSUME j + 1 <= k  PROVE v[k - (j + 1)] = w[k - (j + 1)]
    OBVIOUS
  <2>2. PICK i \in Nat : i = k - (j + 1) /\ i < k /\ i + 1 = k - j  BY <2>1
  <2>3. v[i + 1] = w[i + 1]  BY <1>7, <2>1, <2>2
  <2> QED  BY <1>5, <2>2, <2>3
<1>8. Nat \subseteq S
  <2> HIDE DEF S
  <2> QED  BY <1>6, <1>7, Induct
<1>9. ASSUME NEW i \in 1 .. k  PROVE s[i] = t[i]
  <2>1. PICK j \in Nat : j = k - i /\ j <= k /\ k - j = i
    <3>1. k - i \in Nat /\ k - i <= k /\ k - (k - i) = i  OBVIOUS
    <3> QED  BY <3>1
  <2>2. v[i] = w[i]  BY <1>8, <2>1
  <2>3. PICK m \in Nat : m = i - 1 /\ m + 1 = i /\ m < k  OBVIOUS
  <2> QED  BY <1>5, <2>2, <2>3
<1>10. s = t  BY <1>9, SeqEqual
<1>11. Value(s) \in Nat /\ Value(s) < Power[k]
  <2>1. k \in 0 .. k  OBVIOUS
  <2>2. v[k] \in Nat /\ v[k] < Power[k]  BY <1>3, <2>1
  <2> QED  BY <1>1, <2>2
<1> QED  BY <1>10, <1>11

-----------------------------------------------------------------------------
(* How long a hash is, and that no other string of its length decodes to its id. *)

\* Numbers between two powers of the base have as many digits as the higher one.
LEMMA DigitCount ==
  ASSUME NEW n \in Nat, n # 0
  PROVE  \E l \in Nat : Len(Digits[n]) = l + 1 /\ Power[l] <= n /\ n < Power[l + 1]
<1> DEFINE S == {k \in Nat : k # 0 => \E l \in Nat : Len(Digits[k]) = l + 1 /\ Power[l] <= k /\ k < Power[l + 1]}
<1>1. ASSUME NEW k \in Nat, \A m \in 0 .. k - 1 : m \in S  PROVE k \in S
  <2>1. SUFFICES ASSUME k # 0
        PROVE  \E l \in Nat : Len(Digits[k]) = l + 1 /\ Power[l] <= k /\ k < Power[l + 1]
    OBVIOUS
  <2>2. PICK q \in Nat, r \in 0 .. Base - 1 :
          q = k \div Base /\ r = k % Base /\ k = q * Base + r /\ q < k
    BY <2>1, Division
  <2>3. PICK t \in Seq(0 .. Base - 1) : t = Digits[q] /\ Digits[k] = Append(t, r)
    BY <2>1, <2>2, DigitsRule
  <2>4. Len(Digits[k]) = Len(t) + 1  BY <2>3, AppendProperties
  <2>5. CASE q = 0
    <3>1. t = << >>  BY <2>3, <2>5, DigitsRule
    <3>2. Len(t) = 0  BY <3>1
    <3>3. Power[0] = 1 /\ Power[0 + 1] = Base * 1  BY PowerRule
    <3>4. k < Base /\ 1 <= k  BY <2>1, <2>2, <2>5, BaseFact
    <3>5. Len(Digits[k]) = 0 + 1 /\ Power[0] <= k /\ k < Power[0 + 1]  BY <2>4, <3>2, <3>3, <3>4, BaseFact
    <3> QED  BY <3>5
  <2>6. CASE q # 0
    <3>1. q \in S  BY <1>1, <2>2
    <3>2. PICK l \in Nat : Len(t) = l + 1 /\ Power[l] <= q /\ q < Power[l + 1]  BY <2>3, <2>6, <3>1
    <3>3. PICK m \in Nat : m = l + 1  OBVIOUS
    <3>4. PICK a \in Nat, b \in Nat : a = Power[l] /\ b = Power[m] /\ b = Base * a /\ Power[m + 1] = Base * b
      BY <3>3, PowerRule
    <3>5. b <= k
      <4>1. a <= q  BY <3>2, <3>4
      <4>2. Base * a <= Base * q  BY <4>1, BaseFact
      <4>3. Base * a \in Nat /\ Base * q \in Nat /\ Base * q = q * Base  BY BaseFact
      <4> QED  BY <2>2, <3>4, <4>2, <4>3
    <3>6. k < Base * b
      <4>1. q + 1 <= b  BY <3>2, <3>3, <3>4
      <4>2. Base * (q + 1) <= Base * b  BY <4>1, BaseFact
      <4>3. Base * (q + 1) = q * Base + Base /\ q * Base \in Nat  BY BaseFact
      <4> QED  BY <2>2, <4>2, <4>3, BaseFact
    <3>7. Len(Digits[k]) = m + 1 /\ Power[m] <= k /\ k < Power[m + 1]
      <4>1. Len(Digits[k]) = m + 1  BY <2>4, <3>2, <3>3
      <4> QED  BY <3>4, <3>5, <3>6, <4>1
    <3> QED  BY <3>7
  <2> QED  BY <2>5, <2>6
<1> HIDE DEF S
<1>2. Nat \subseteq S  BY <1>1, Descend
<1> QED  BY <1>2 DEF S

\* The hash of an id whose sum with the offset fits the word has MinLen
\* characters just as long as the sum is below the next power.
LEMMA HashLength ==
  ASSUME NEW n \in Nat, Offset <= n
  PROVE  Len(Digits[n]) = MinLen <=> n < Power[MinLen]
<1>1. n # 0  BY OffsetFact
<1>2. PICK l \in Nat : Len(Digits[n]) = l + 1 /\ Power[l] <= n /\ n < Power[l + 1]  BY <1>1, DigitCount
<1>3. CASE l + 1 = MinLen  BY <1>2, <1>3
<1>4. CASE l + 1 < MinLen
  <2>1. l + 1 \in Nat /\ MinLen - 1 \in Nat /\ l + 1 <= MinLen - 1  BY <1>4, BaseFact
  <2>2. Power[l + 1] \in Nat /\ Power[l + 1] <= Power[MinLen - 1]  BY <2>1, PowerGrows
  <2> QED  BY <1>2, <2>2, OffsetFact
<1>5. CASE MinLen <= l
  <2>1. Power[MinLen] \in Nat /\ Power[l] \in Nat /\ Power[MinLen] <= Power[l]  BY <1>5, PowerGrows, BaseFact
  <2>2. ~(n < Power[MinLen])  BY <1>2, <2>1
  <2>3. l + 1 # MinLen  BY <1>5, BaseFact
  <2> QED  BY <1>2, <2>2, <2>3
<1> QED  BY <1>3, <1>4, <1>5, BaseFact

\* A string of MinLen characters decodes to i exactly if its value is i + Offset.
LEMMA DecodesTo ==
  ASSUME NEW s \in [1 .. MinLen -> 0 .. Base - 1], NEW i \in Nat
  PROVE  /\ s \in Seq(0 .. Base - 1) /\ Len(s) = MinLen
         /\ Value(s) \in Nat /\ Value(s) < Power[MinLen]
         /\ Decode(s) = i <=> Value(s) = i + Offset
<1>1. s \in Seq(0 .. Base - 1) /\ Len(s) = MinLen  BY BaseFact
<1>2. s # << >>  BY <1>1, BaseFact
<1>3. \A j \in 1 .. Len(s) : s[j] \in 0 .. Base - 1  BY <1>1
<1>4. Value(s) \in Nat /\ Value(s) < Power[MinLen]
  BY <1>1, ValueInjective, ShortHashesFit, BaseFact
<1>5. Decode(s) = IF Value(s) < Offset THEN DecodeError ELSE Value(s) - Offset
  BY <1>2, <1>3 DEF Decode
<1>6. Decode(s) = i <=> Value(s) = i + Offset
  <2>1. PICK x \in Nat : x = Value(s)  BY <1>4
  <2>2. CASE x < Offset
    <3>1. Decode(s) = -1  BY <1>5, <2>1, <2>2 DEF DecodeError
    <3> QED  BY <2>1, <2>2, <3>1, OffsetFact
  <2>3. CASE ~(x < Offset)
    <3>1. Decode(s) = x - Offset  BY <1>5, <2>1, <2>3
    <3> QED  BY <2>1, <2>3, <3>1, OffsetFact
  <2> QED  BY <2>2, <2>3
<1> QED  BY <1>1, <1>4, <1>6

\* What Encode gives as long as the sum with the offset fits the word.
LEMMA Encoded ==
  ASSUME NEW i \in Nat, i + Offset < Word
  PROVE  Encode(i) = Digits[i + Offset] /\ i + Offset \in Nat \ {0}
<1>1. PICK n \in Nat : n = i + Offset /\ n # 0 /\ n < Word  BY OffsetFact
<1>2. n % Word = n  BY <1>1, Wraps
<1>3. Encode(i) = Digits[n]  BY <1>1, <1>2 DEF Encode
<1> QED  BY <1>1, <1>3

LEMMA OneDecodes ==
  ASSUME NEW i \in 0 .. Word - 1
  PROVE  LET short == i < Power[MinLen] - Offset
             found == {s \in [1 .. MinLen -> 0 .. Base - 1] : Decode(s) = i}
         IN  /\ found = IF short THEN {Encode(i)} ELSE {}
             /\ i + Offset < Word => (Len(Encode(i)) = MinLen <=> short)
<1> DEFINE short == i < Power[MinLen] - Offset
           found == {s \in [1 .. MinLen -> 0 .. Base - 1] : Decode(s) = i}
<1>1. i \in Nat /\ i < Word  BY WordFact
<1>2. PICK n \in Nat : n = i + Offset  BY <1>1, OffsetFact
<1>3. Power[MinLen] \in Nat /\ Power[MinLen] <= Word  BY PowerRule, BaseFact, ShortHashesFit
<1>4. short <=> n < Power[MinLen]  BY <1>1, <1>2, <1>3, OffsetFact
<1> HIDE DEF short
<1>5. ASSUME i + Offset < Word  PROVE Len(Encode(i)) = MinLen <=> short
  <2>1. Encode(i) = Digits[n]  BY <1>1, <1>2, <1>5, Encoded
  <2>2. Offset <= n  BY <1>1, <1>2, OffsetFact
  <2>3. Len(Digits[n]) = MinLen <=> n < Power[MinLen]  BY <2>2, HashLength
  <2> QED  BY <1>4, <2>1, <2>3
<1>6. ASSUME short  PROVE found = {Encode(i)}
  <2>1. n < Power[MinLen] /\ n < Word  BY <1>3, <1>4, <1>6, WordFact
  <2>2. Encode(i) = Digits[n] /\ n # 0  BY <1>1, <1>2, <2>1, Encoded
  <2>3. PICK t \in Seq(0 .. Base - 1) : t = Digits[n]  BY DigitsRule
  <2>4. Value(t) = n  BY <2>1, <2>3, ValueOfDigits
  <2>5. Len(t) = MinLen  BY <1>2, <1>5, <1>6, <2>1, <2>2, <2>3
  <2>6. t \in [1 .. MinLen -> 0 .. Base - 1]  BY <2>5, LenProperties
  <2>7. Decode(t) = i  BY <1>1, <1>2, <2>4, <2>6, DecodesTo
  <2>8. ASSUME NEW s \in [1 .. MinLen -> 0 .. Base - 1], Decode(s) = i  PROVE s = t
    <3>1. s \in Seq(0 .. Base - 1) /\ Len(s) = MinLen /\ Value(s) = n  BY <1>1, <1>2, <2>8, DecodesTo
    <3>2. Value(s) = Value(t)  BY <2>4, <3>1
    <3> QED  BY <1>3, <2>5, <3>1, <3>2, ValueInjective, BaseFact
  <2>9. found = {t}  BY <2>6, <2>7, <2>8
  <2> QED  BY <2>2, <2>3, <2>9
<1>7. ASSUME ~short  PROVE found = {}
  <2>1. ASSUME NEW s \in [1 .. MinLen -> 0 .. Base - 1]  PROVE Decode(s) # i
    <3>1. Value(s) \in Nat /\ Value(s) < Power[MinLen] /\ (Decode(s) = i <=> Value(s) = n)
      BY <1>1, <1>2, DecodesTo
    <3> QED  BY <1>3, <1>4, <1>7, <3>1
  <2> QED  BY <2>1
<1> HIDE DEF found
<1>8. found = IF short THEN {Encode(i)} ELSE {}  BY <1>6, <1>7
<1> QED  BY <1>5, <1>8 DEF short, found

\* The id at hand fits the word, which is all the two properties need.
LEMMA IdFitsWord == HashSpec => [](id \in 0 .. Word - 1)
<1> DEFINE I == id \in 0 .. Word - 1
<1>1. I /\ [id' \in 0 .. Word - 1]_id => I'  OBVIOUS
<1> QED  BY <1>1, PTL DEF HashSpec

\* For every id, alphabet, length and word: decoding a hash gives back the id
\* that Encode was given, or an error if adding the offset had wrapped.
THEOREM RoundTripCorrect == HashSpec => []RoundTrip
<1>1. id \in 0 .. Word - 1 => RoundTrip  BY DecodesBack DEF RoundTrip
<1> QED  BY <1>1, IdFitsWord, PTL

\* For every id, alphabet, length and word: as long as the sum with the offset is
\* below the next power of the base, the hash has the length the redirect handler
\* accepts and is the only string of that length that decodes to the id; from
\* then on no string of that length does.
THEOREM OneHashCorrect == HashSpec => []OneHashPerId
<1>1. id \in 0 .. Word - 1 => OneHashPerId  BY OneDecodes DEF OneHashPerId
<1> QED  BY <1>1, IdFitsWord, PTL
=============================================================================
