----------------------------- MODULE ArrayProofs -----------------------------
(***************************************************************************)
(* The arrays of PArray are the ordered maps of OrderedMap, and lookups    *)
(* find what iteration meets: for every hash function, every capacity and  *)
(* every width of integers.  Subscripts are integers exactly when they are *)
(* decimal notations.  Sorting an array keeps its entries and the order of *)
(* equal ones, for arrays of every size.                                   *)
(***************************************************************************)
EXTENDS PArray, ArraySort, FiniteSetTheorems, WellFoundedInduction, TLAPS

-----------------------------------------------------------------------------
(* Numbers.                                                                *)

\* A set of numbers that has one has a least one.
LEMMA Least ==
  ASSUME NEW S \in SUBSET Nat, S # {}
  PROVE  \E i \in S : \A j \in S : i <= j
<1>1. PICK i \in S : \A j \in S : <<j, i>> \notin OpToRel(<, Nat)
  BY NatLessThanWellFounded, WFMin, Zenon
<1>2. \A j \in S : ~(j < i)
  BY <1>1 DEF OpToRel
<1> QED
  BY <1>2

\* Lowest() is the least of a set of numbers.
LEMMA LowestIs ==
  ASSUME NEW S \in SUBSET Nat, S # {}
  PROVE  Lowest(S) \in S /\ \A q \in S : Lowest(S) <= q
BY Least DEF Lowest

\* Highest() is the greatest of a bounded set of numbers.
LEMMA HighestIs ==
  ASSUME NEW n \in Nat, NEW S \in SUBSET (0 .. n - 1)
  PROVE  /\ S = {} => Highest(S) = -1
         /\ S # {} => Highest(S) \in S /\ \A q \in S : q <= Highest(S)
<1>1. ASSUME S # {}
      PROVE  \E p \in S : \A q \in S : q <= p
  <2> DEFINE T == {m \in Nat : n - m \in S}
  <2>1. T # {}
    <3>1. PICK p \in S : TRUE
      BY <1>1
    <3>2. n - p \in T
      BY <3>1
    <3> QED
      BY <3>2
  <2>2. PICK m \in T : \A k \in T : m <= k
    BY <2>1, Least
  <2>3. ASSUME NEW q \in S PROVE q <= n - m
    <3>1. n - q \in T
      OBVIOUS
    <3> QED
      BY <3>1, <2>2
  <2> QED
    BY <2>2, <2>3
<1> QED
  BY <1>1 DEF Highest, EMPTY_BUCKET

LEMMA HighestFits ==
  ASSUME NEW n \in Nat, NEW S \in SUBSET (0 .. n - 1)
  PROVE  Highest(S) \in -1 .. n - 1
<1> DEFINE h == Highest(S)
<1>1. /\ S = {} => h = -1
      /\ S # {} => h \in S
  BY HighestIs
<1> HIDE DEF h
<1>2. CASE S = {}
  BY <1>1, <1>2 DEF h
<1>3. CASE S # {}
  <2>1. h \in 0 .. n - 1
    BY <1>1, <1>3
  <2>2. h \in -1 .. n - 1
    BY <2>1
  <2> QED
    BY <2>2 DEF h
<1> QED
  BY <1>2, <1>3

\* ... and is the only one.
LEMMA HighestOnly ==
  ASSUME NEW n \in Nat, NEW S \in SUBSET (0 .. n - 1), NEW p \in S, \A q \in S : q <= p
  PROVE  Highest(S) = p
<1>1. Highest(S) \in S /\ p <= Highest(S)
  BY HighestIs
<1> HIDE DEF Highest
<1>2. Highest(S) \in 0 .. n - 1 /\ p \in 0 .. n - 1 /\ Highest(S) <= p
  BY <1>1, Zenon
<1> QED
  BY <1>1, <1>2

-----------------------------------------------------------------------------
(* Keys.                                                                   *)

\* The loop over the digits: its value before the first, and after each.
Loops(s, first, limit, F) ==
  /\ DigitLoop(s, first, limit) = F[Len(s)]
  /\ F[first - 1] = 0
  /\ \A n \in first .. Len(s) :
       F[n] = IF F[n - 1] = Overflow \/ ~IsDigit(s[n]) THEN Overflow
              ELSE IF F[n - 1] > (limit - DigitOf(s[n])) \div 10 THEN Overflow
              ELSE F[n - 1] * 10 + DigitOf(s[n])

LEMMA LoopIs ==
  ASSUME NEW s, NEW first \in 1 .. 2, NEW limit \in Nat,
         Len(s) \in Nat, first <= Len(s)
  PROVE  \E F : Loops(s, first, limit, F)
<1> DEFINE lo == first - 1
           hi == Len(s)
           Next1(v, n) == IF v = Overflow \/ ~IsDigit(s[n]) THEN Overflow
                          ELSE IF v > (limit - DigitOf(s[n])) \div 10 THEN Overflow
                          ELSE v * 10 + DigitOf(s[n])
           Body(f, n) == IF n < first THEN 0 ELSE Next1(f[n - 1], n)
           Upto(n) == \E f : f = [m \in lo .. n |-> Body(f, m)]
           F == CHOOSE f : f = [m \in lo .. hi |-> Body(f, m)]
<1>1. Upto(hi)
  <2> SUFFICES ASSUME ~Upto(hi) PROVE FALSE
    OBVIOUS
  <2> DEFINE S == {k \in Nat : lo + k <= hi /\ ~Upto(lo + k)}
  <2>1. hi - lo \in S
    OBVIOUS
  <2> HIDE DEF Upto
  <2>2. PICK k \in S : \A j \in S : k <= j
    BY <2>1, Least
  <2>3. k # 0
    <3> DEFINE g == [m \in lo .. lo |-> 0]
    <3>1. g = [m \in lo .. lo |-> Body(g, m)]
      OBVIOUS
    <3>2. Upto(lo)
      BY <3>1 DEF Upto
    <3> QED
      BY <3>2, <2>2
  <2> DEFINE n == lo + k
  <2>4. n \in Int /\ n - 1 >= lo /\ n <= hi
    BY <2>2, <2>3
  <2>5. Upto(n - 1)
    <3>1. lo \in Int /\ k \in Nat
      BY <2>2
    <3>2. lo + (k - 1) = n - 1 /\ k - 1 \in Nat /\ ~(k <= k - 1)
      BY <3>1, <2>3
    <3>3. k - 1 \notin S
      BY <3>2, <2>2
    <3>4. lo + (k - 1) <= hi
      BY <3>2, <2>4
    <3> HIDE DEF n
    <3> QED
      BY <3>2, <3>3, <3>4
  <2>6. PICK f : f = [m \in lo .. n - 1 |-> Body(f, m)]
    BY <2>5 DEF Upto
  <2> DEFINE last == Body(f, n)
             g == [m \in lo .. n |-> IF m = n THEN last ELSE f[m]]
  <2> HIDE DEF Body
  <2>7. \A m \in lo .. n : Body(g, m) = g[m]
    <3> SUFFICES ASSUME NEW m \in lo .. n PROVE Body(g, m) = g[m]
      OBVIOUS
    <3>1. Body(g, m) = Body(f, m)
      <4>1. m >= first => g[m - 1] = f[m - 1]
        BY <2>4
      <4> QED
        BY <4>1 DEF Body
    <3>2. CASE m = n
      BY <3>1, <3>2
    <3>3. CASE m # n
      <4>1. m \in lo .. n - 1
        BY <3>3, <2>4
      <4>2. f[m] = Body(f, m)
        BY <2>6, <4>1
      <4> QED
        BY <3>1, <3>3, <4>2
    <3> QED
      BY <3>2, <3>3
  <2>8. g = [m \in lo .. n |-> Body(g, m)]
    BY <2>7
  <2>9. Upto(n)
    BY <2>8 DEF Upto
  <2> QED
    BY <2>9, <2>2
<1>2. F = [m \in lo .. hi |-> Body(F, m)]
  <2> HIDE DEF Body
  <2> QED
    BY <1>1
<1>3. DigitLoop(s, first, limit) = F[hi]
  BY DEF DigitLoop
<1> HIDE DEF F
<1>4. F[lo] = 0
  BY <1>2
<1>5. \A n \in first .. hi : F[n] = Next1(F[n - 1], n)
  BY <1>2
<1> QED
  BY <1>3, <1>4, <1>5 DEF Loops

\* It stays within the limit.
LEMMA DigitsFit ==
  ASSUME NEW s, NEW first \in 1 .. 2, NEW limit \in Nat, limit > 9,
         Len(s) \in Nat, first <= Len(s)
  PROVE  DigitLoop(s, first, limit) \in -1 .. limit
<1> DEFINE lo == first - 1
           hi == Len(s)
<1>1. PICK F : Loops(s, first, limit, F)
  BY LoopIs
<1>4. \A n \in lo .. hi : F[n] \in -1 .. limit
  <2> SUFFICES ASSUME NEW x \in lo .. hi, F[x] \notin -1 .. limit PROVE FALSE
    OBVIOUS
  <2> DEFINE S == {n \in lo .. hi : F[n] \notin -1 .. limit}
  <2>0. S \in SUBSET Nat /\ x \in S
    OBVIOUS
  <2>1. PICK n \in S : \A j \in S : n <= j
    BY <2>0, Least
  <2>3. n >= first
    BY <1>1, <2>1 DEF Loops
  <2>4. F[n - 1] \in -1 .. limit
    BY <2>1, <2>3
  <2> DEFINE v == F[n - 1]
             d == DigitOf(s[n])
  <2>2. F[n] = IF v = Overflow \/ ~IsDigit(s[n]) THEN Overflow
               ELSE IF v > (limit - d) \div 10 THEN Overflow ELSE v * 10 + d
    BY <1>1, <2>1, <2>3 DEF Loops
  <2>5. CASE v = Overflow \/ ~IsDigit(s[n])
    BY <2>1, <2>2, <2>5 DEF Overflow
  <2>6. CASE ~(v = Overflow \/ ~IsDigit(s[n]))
    <3>1. d \in 0 .. 9
      BY <2>6 DEF IsDigit, DigitOf
    <3>2. F[n] = IF v > (limit - d) \div 10 THEN -1 ELSE v * 10 + d
      BY <2>2, <2>6 DEF Overflow
    <3>3. v \in 0 .. limit
      BY <2>4, <2>6 DEF Overflow
    <3>4. F[n] \in -1 .. limit
      <4> HIDE DEF v, d
      <4>1. CASE v > (limit - d) \div 10
        BY <3>2, <4>1
      <4>2. CASE ~(v > (limit - d) \div 10)
        <5>1. v * 10 <= limit - d
          BY <4>2, <3>1, <3>3
        <5> QED
          BY <3>2, <4>2, <5>1, <3>1, <3>3
      <4> QED
        BY <4>1, <4>2
    <3> QED
      BY <3>4, <2>1
  <2> QED
    BY <2>5, <2>6
<1> QED
  BY <1>1, <1>4 DEF Loops

\* A string that is written like an integer is one of the width.
LEMMA NumericKeysFit ==
  ASSUME NEW s, Len(s) \in Nat, DOMAIN s = 1 .. Len(s)
  PROVE  \/ numeric_string_key(s) = NoKey
         \/ /\ numeric_string_key(s)[1] = "int" /\ numeric_string_key(s)[2] \in Integer
            /\ numeric_string_key(s) = <<"int", numeric_string_key(s)[2]>>
<1> DEFINE negative == s # <<>> /\ s[1] = "-"
           first == IF negative THEN 2 ELSE 1
           limit == PPHP_INT_MAXIMUM + (IF negative THEN 1 ELSE 0)
           m == DigitLoop(s, first, limit)
<1> SUFFICES ASSUME Len(s) >= first, m # Overflow
             PROVE  (IF negative THEN -m ELSE m) \in Integer
  BY DEF numeric_string_key
<1>1. m \in -1 .. limit
  BY DigitsFit, MaximumAssumption
<1>2. m \in 0 .. limit
  BY <1>1 DEF Overflow
<1> HIDE DEF m
<1> QED
  BY <1>2, MaximumAssumption DEF Integer, PPHP_INT_MINIMUM

-----------------------------------------------------------------------------
(* Decimal notation.                                                       *)

LEMMA DivTen ==
  ASSUME NEW n \in Nat
  PROVE  /\ n \div 10 \in Nat /\ n % 10 \in 0 .. 9 /\ n = 10 * (n \div 10) + (n % 10)
         /\ n >= 10 => n \div 10 \in 1 .. n - 1
OBVIOUS

LEMMA TimesTen ==
  ASSUME NEW q \in Nat, NEW d \in 0 .. 9
  PROVE  (10 * q + d) \div 10 = q /\ (10 * q + d) % 10 = d
OBVIOUS

\* The digits of n, from those of smaller numbers.
Spelled(f, n) == IF n < 10 THEN <<Digits[n + 1]>> ELSE Append(f[n \div 10], Digits[(n % 10) + 1])
Spells(f, n) == f = [m \in 0 .. n |-> Spelled(f, m)]

LEMMA SpelledSame ==
  ASSUME NEW n \in Nat, NEW f, NEW g, n >= 10 => f[n \div 10] = g[n \div 10]
  PROVE  Spelled(f, n) = Spelled(g, n)
BY DEF Spelled

LEMMA SpellsIs ==
  ASSUME NEW n \in Nat, NEW f, Spells(f, n)
  PROVE  \A m \in 0 .. n : f[m] = Spelled(f, m)
BY DEF Spells

LEMMA SpellsSome == \A n \in Nat : \E f : Spells(f, n)
<1> SUFFICES ASSUME NEW x \in Nat, ~\E f : Spells(f, x) PROVE FALSE
  OBVIOUS
<1> DEFINE S == {n \in Nat : ~\E f : Spells(f, n)}
<1>1. PICK n \in S : \A j \in S : n <= j
  <2>1. S \in SUBSET Nat /\ x \in S
    OBVIOUS
  <2> HIDE DEF S
  <2> QED  BY <2>1, Least
<1>2. n \in Nat /\ ~\E f : Spells(f, n)
  BY <1>1
<1>3. n # 0
  <2> DEFINE g == [m \in 0 .. 0 |-> <<Digits[1]>>]
  <2>1. \A m \in 0 .. 0 : Spelled(g, m) = <<Digits[1]>>
    BY DEF Spelled
  <2>2. Spells(g, 0)
    BY <2>1 DEF Spells
  <2> QED  BY <2>2, <1>2
<1>4. n - 1 \in Nat /\ n - 1 \notin S
  BY <1>1, <1>2, <1>3
<1>5. PICK f : Spells(f, n - 1)
  BY <1>4
<1> DEFINE last == Spelled(f, n)
           g == [m \in 0 .. n |-> IF m = n THEN last ELSE f[m]]
<1>6. \A m \in 0 .. n : Spelled(g, m) = g[m]
  <2> SUFFICES ASSUME NEW m \in 0 .. n PROVE Spelled(g, m) = g[m]
    OBVIOUS
  <2>1. m >= 10 => g[m \div 10] = f[m \div 10]
    <3> SUFFICES ASSUME m >= 10 PROVE g[m \div 10] = f[m \div 10]
      OBVIOUS
    <3>1. m \div 10 \in 0 .. n /\ m \div 10 # n
      BY <1>2, DivTen
    <3> HIDE DEF last
    <3> QED  BY <3>1
  <2> HIDE DEF g
  <2>2. Spelled(g, m) = Spelled(f, m)
    BY <2>1, SpelledSame
  <2>3. CASE m = n
    BY <2>2, <2>3 DEF g
  <2>4. CASE m # n
    <3>1. m \in 0 .. n - 1
      BY <2>4, <1>2
    <3>2. f[m] = Spelled(f, m)
      BY <3>1, <1>4, <1>5, SpellsIs
    <3> HIDE DEF last
    <3> QED  BY <2>2, <2>4, <3>2 DEF g
  <2> QED  BY <2>3, <2>4
<1>7. g = [m \in 0 .. n |-> Spelled(g, m)]
  <2> HIDE DEF last
  <2> QED  BY <1>6
<1> HIDE DEF g
<1> QED  BY <1>7, <1>2 DEF Spells

LEMMA SpellsSame ==
  ASSUME NEW n \in Nat, NEW k \in 0 .. n, NEW f, NEW g, Spells(f, n), Spells(g, k)
  PROVE  \A m \in 0 .. k : f[m] = g[m]
<1> SUFFICES ASSUME NEW x \in 0 .. k, f[x] # g[x] PROVE FALSE
  OBVIOUS
<1> DEFINE S == {m \in 0 .. k : f[m] # g[m]}
<1>1. PICK m \in S : \A j \in S : m <= j
  <2>1. S \in SUBSET Nat /\ x \in S
    OBVIOUS
  <2> HIDE DEF S
  <2> QED  BY <2>1, Least
<1>2. m \in 0 .. k /\ m \in 0 .. n /\ k \in Nat
  BY <1>1
<1>3. m >= 10 => f[m \div 10] = g[m \div 10]
  <2> SUFFICES ASSUME m >= 10 PROVE f[m \div 10] = g[m \div 10]
    OBVIOUS
  <2>1. m \div 10 \in 0 .. k /\ ~(m <= m \div 10)
    BY <1>2, DivTen
  <2> QED  BY <2>1, <1>1
<1>4. Spelled(f, m) = Spelled(g, m)
  BY <1>2, <1>3, SpelledSame
<1>5. f[m] = Spelled(f, m) /\ g[m] = Spelled(g, m)
  BY <1>2, SpellsIs
<1> QED  BY <1>1, <1>4, <1>5

LEMMA MagnitudeIs ==
  \A n \in Nat : Magnitude[n] = IF n < 10 THEN <<Digits[n + 1]>>
                                ELSE Append(Magnitude[n \div 10], Digits[(n % 10) + 1])
<1> DEFINE Table(n) == CHOOSE f : Spells(f, n)
           F == [n \in Nat |-> Table(n)[n]]
<1>1. \A n \in Nat : Spells(Table(n), n)
  BY SpellsSome
<1> HIDE DEF Table
<1>2. \A n \in Nat : F[n] = Spelled(F, n)
  <2> SUFFICES ASSUME NEW n \in Nat PROVE F[n] = Spelled(F, n)
    OBVIOUS
  <2>1. F[n] = Spelled(Table(n), n)
    <3>1. n \in 0 .. n
      OBVIOUS
    <3>2. Table(n)[n] = Spelled(Table(n), n)
      BY <3>1, <1>1, SpellsIs
    <3> QED  BY <3>2
  <2>2. n >= 10 => Table(n)[n \div 10] = F[n \div 10]
    <3> SUFFICES ASSUME n >= 10 PROVE Table(n)[n \div 10] = F[n \div 10]
      OBVIOUS
    <3>1. PICK q \in Nat : q = n \div 10 /\ q \in 0 .. n /\ q \in 0 .. q
      BY DivTen
    <3>2. Spells(Table(q), q) /\ Spells(Table(n), n)
      BY <1>1
    <3>3. Table(n)[q] = Table(q)[q]
      BY <3>1, <3>2, SpellsSame
    <3>4. F[q] = Table(q)[q]
      OBVIOUS
    <3> QED  BY <3>1, <3>3, <3>4
  <2> HIDE DEF F
  <2>3. Spelled(Table(n), n) = Spelled(F, n)
    BY <2>2, SpelledSame
  <2> QED  BY <2>1, <2>3
<1>3. F = [n \in Nat |-> Spelled(F, n)]
  BY <1>2
<1> HIDE DEF F
<1>4. \E f : f = [n \in Nat |-> Spelled(f, n)]
  BY <1>3
<1>5. Magnitude = CHOOSE f : f = [n \in Nat |-> Spelled(f, n)]
  BY DEF Magnitude, Spelled
<1>6. Magnitude = [n \in Nat |-> Spelled(Magnitude, n)]
  BY <1>4, <1>5
<1>7. \A n \in Nat : Magnitude[n] = Spelled(Magnitude, n)
  BY <1>6
<1> QED  BY <1>7 DEF Spelled

Characters == {Digits[d] : d \in 1 .. 10}

LEMMA DigitsAre ==
  \A d \in 0 .. 9 : /\ IsDigit(Digits[d + 1]) /\ DigitOf(Digits[d + 1]) = d
                    /\ Digits[d + 1] \in Characters /\ Digits[d + 1] \notin {"-", "+"}
                    /\ Digits[d + 1] = "0" <=> d = 0
<1>1. \A d \in 0 .. 9 : Digits[d + 1] \in Characters /\ Digits[d + 1] \notin {"-", "+"}
  BY DEF Digits, Characters
<1>2. \A d \in 0 .. 9 : Digits[d + 1] = "0" <=> d = 0
  BY DEF Digits
<1>3. \A d, e \in 1 .. 10 : Digits[d] = Digits[e] => d = e
  BY DEF Digits
<1>4. \A d \in 0 .. 9 : IsDigit(Digits[d + 1]) /\ DigitOf(Digits[d + 1]) = d
  <2> SUFFICES ASSUME NEW d \in 0 .. 9 PROVE IsDigit(Digits[d + 1]) /\ DigitOf(Digits[d + 1]) = d
    OBVIOUS
  <2>1. d + 1 \in 1 .. 10
    OBVIOUS
  <2>2. PICK e : e = CHOOSE x \in 1 .. 10 : Digits[x] = Digits[d + 1]
    OBVIOUS
  <2>3. e \in 1 .. 10 /\ Digits[e] = Digits[d + 1]
    BY <2>1, <2>2
  <2>4. e = d + 1
    BY <2>1, <2>3, <1>3
  <2>5. IsDigit(Digits[d + 1])
    BY <2>1 DEF IsDigit
  <2>6. DigitOf(Digits[d + 1]) = e - 1
    BY <2>2, Zenon DEF DigitOf
  <2> QED  BY <2>4, <2>5, <2>6
<1> QED  BY <1>1, <1>2, <1>4

LEMMA DigitIs ==
  ASSUME NEW c, IsDigit(c)
  PROVE  DigitOf(c) \in 0 .. 9 /\ Digits[DigitOf(c) + 1] = c
<1>1. PICK e : e = CHOOSE x \in 1 .. 10 : Digits[x] = c
  OBVIOUS
<1>2. e \in 1 .. 10 /\ Digits[e] = c
  BY <1>1 DEF IsDigit
<1>3. DigitOf(c) = e - 1
  BY <1>1 DEF DigitOf
<1> QED  BY <1>2, <1>3

\* A number has at least one digit, from ten on two, and begins with 0 only if
\* it is 0.
Shaped(n) ==
  /\ Magnitude[n] \in Seq(Characters) /\ Len(Magnitude[n]) > 0
  /\ n >= 10 => Len(Magnitude[n]) > 1
  /\ Magnitude[n][1] = "0" => n = 0

LEMMA Appended ==
  ASSUME NEW S, NEW a \in Seq(S), NEW x \in S
  PROVE  /\ Append(a, x) \in Seq(S) /\ Len(Append(a, x)) = Len(a) + 1
         /\ \A i \in 1 .. Len(a) : Append(a, x)[i] = a[i]
         /\ Append(a, x)[Len(a) + 1] = x
OBVIOUS

LEMMA MagnitudeShape == \A n \in Nat : Shaped(n)
<1> SUFFICES ASSUME NEW x \in Nat, ~Shaped(x) PROVE FALSE
  OBVIOUS
<1> DEFINE S == {n \in Nat : ~Shaped(n)}
<1>1. PICK n \in S : \A j \in S : n <= j
  <2>1. S \in SUBSET Nat /\ x \in S
    OBVIOUS
  <2> HIDE DEF S
  <2> QED  BY <2>1, Least
<1>2. n \in Nat /\ ~Shaped(n)
  BY <1>1
<1>3. CASE n < 10
  <2>1. PICK c : c = Digits[n + 1]
    OBVIOUS
  <2>2. c \in Characters /\ (c = "0" => n = 0)
    BY <1>2, <1>3, <2>1, DigitsAre
  <2>3. Magnitude[n] = <<c>>
    BY <1>2, <1>3, <2>1, MagnitudeIs
  <2>4. <<c>> \in Seq(Characters) /\ Len(<<c>>) = 1 /\ <<c>>[1] = c
    BY <2>2
  <2> QED  BY <1>2, <1>3, <2>2, <2>3, <2>4 DEF Shaped
<1>4. CASE n >= 10
  <2>1. PICK q \in Nat : q = n \div 10 /\ q \in 1 .. n - 1
    BY <1>2, <1>4, DivTen
  <2>2. Shaped(q)
    BY <1>1, <1>2, <2>1
  <2>3. PICK c : c = Digits[(n % 10) + 1]
    OBVIOUS
  <2>4. c \in Characters
    BY <1>2, <2>3, DivTen, DigitsAre
  <2>5. Magnitude[n] = Append(Magnitude[q], c)
    <3>1. ~(n < 10)
      BY <1>2, <1>4
    <3> QED  BY <3>1, <1>2, <2>1, <2>3, MagnitudeIs, Zenon
  <2>6. PICK m \in Seq(Characters) : m = Magnitude[q]
    BY <2>2 DEF Shaped
  <2>7. Len(m) > 0 /\ m[1] # "0" /\ Len(m) \in Nat
    BY <2>1, <2>2, <2>6 DEF Shaped
  <2>8. /\ Magnitude[n] \in Seq(Characters) /\ Len(Magnitude[n]) = Len(m) + 1
        /\ Magnitude[n][1] = m[1]
    BY <2>4, <2>5, <2>6, <2>7, Appended
  <2> QED  BY <1>2, <2>7, <2>8 DEF Shaped
<1> QED  BY <1>2, <1>3, <1>4

\* The characters of s from first to n are the digits of m.
Written(s, first, n, m) ==
  /\ Len(Magnitude[m]) = n - first + 1
  /\ \A i \in 1 .. Len(Magnitude[m]) : Magnitude[m][i] = s[first + i - 1]

LEMMA WrittenOne ==
  ASSUME NEW s, NEW first \in 1 .. 2, NEW m \in Nat
  PROVE  Written(s, first, first, m) <=> m < 10 /\ s[first] = Digits[m + 1]
<1>1. CASE m < 10
  <2>1. PICK c : c = Digits[m + 1]
    OBVIOUS
  <2>2. Magnitude[m] = <<c>>
    BY <1>1, <2>1, MagnitudeIs
  <2>3. Written(s, first, first, m) <=> s[first] = c
    BY <2>2 DEF Written
  <2> QED  BY <1>1, <2>1, <2>3
<1>2. CASE m >= 10
  <2>1. Len(Magnitude[m]) > 1 /\ Len(Magnitude[m]) \in Nat
    BY <1>2, MagnitudeShape DEF Shaped
  <2> QED  BY <1>2, <2>1 DEF Written
<1> QED  BY <1>1, <1>2

LEMMA WrittenMore ==
  ASSUME NEW s, NEW first \in 1 .. 2, NEW n \in Nat, n > first, NEW m \in Nat
  PROVE  /\ Written(s, first, n, m) => m >= 10
         /\ m >= 10 => (Written(s, first, n, m) <=>
              Written(s, first, n - 1, m \div 10) /\ s[n] = Digits[(m % 10) + 1])
<1>1. CASE m < 10
  <2>1. PICK c : c = Digits[m + 1]
    OBVIOUS
  <2>2. Magnitude[m] = <<c>>
    BY <1>1, <2>1, MagnitudeIs
  <2>3. Len(Magnitude[m]) = 1
    BY <2>2
  <2> QED  BY <1>1, <2>3 DEF Written
<1>2. CASE m >= 10
  <2>1. PICK q \in Nat : q = m \div 10
    BY DivTen
  <2>2. PICK a \in Seq(Characters) : a = Magnitude[q]
    BY MagnitudeShape DEF Shaped
  <2>3. PICK c \in Characters : c = Digits[(m % 10) + 1]
    BY DivTen, DigitsAre
  <2>4. PICK b : b = Magnitude[m]
    OBVIOUS
  <2>5. b = Append(a, c)
    <3>1. ~(m < 10)
      BY <1>2
    <3> QED  BY <3>1, <2>1, <2>2, <2>3, <2>4, MagnitudeIs, Zenon
  <2>6. /\ Len(b) = Len(a) + 1 /\ (\A i \in 1 .. Len(a) : b[i] = a[i])
        /\ b[Len(a) + 1] = c /\ Len(a) \in Nat
    BY <2>5, Appended
  <2>7. Written(s, first, n, m) => Written(s, first, n - 1, q) /\ s[n] = c
    <3> SUFFICES ASSUME Len(b) = n - first + 1, \A i \in 1 .. Len(b) : b[i] = s[first + i - 1]
                 PROVE  Written(s, first, n - 1, q) /\ s[n] = c
      BY <2>4 DEF Written
    <3>1. Len(a) = (n - 1) - first + 1
      BY <2>6
    <3>2. \A i \in 1 .. Len(a) : a[i] = s[first + i - 1]
      BY <2>6
    <3>3. first + (Len(a) + 1) - 1 = n /\ Len(a) + 1 \in 1 .. Len(b)
      BY <2>6, <3>1
    <3>4. b[Len(a) + 1] = s[first + (Len(a) + 1) - 1]
      BY <3>3
    <3>5. s[n] = c
      BY <3>3, <3>4, <2>6
    <3> QED  BY <3>1, <3>2, <3>5, <2>2 DEF Written
  <2>8. Written(s, first, n - 1, q) /\ s[n] = c => Written(s, first, n, m)
    <3> SUFFICES ASSUME Len(a) = (n - 1) - first + 1, \A i \in 1 .. Len(a) : a[i] = s[first + i - 1],
                        s[n] = c
                 PROVE  Written(s, first, n, m)
      BY <2>2 DEF Written
    <3>1. Len(b) = n - first + 1
      BY <2>6
    <3>2. ASSUME NEW i \in 1 .. Len(b) PROVE b[i] = s[first + i - 1]
      <4>1. CASE i \in 1 .. Len(a)
        BY <4>1, <2>6
      <4>2. CASE i \notin 1 .. Len(a)
        <5>1. i = Len(a) + 1 /\ first + i - 1 = n
          BY <4>2, <2>6, <3>1
        <5> QED  BY <5>1, <2>6
      <4> QED  BY <4>1, <4>2
    <3> QED  BY <3>1, <3>2, <2>4 DEF Written
  <2> QED  BY <1>2, <2>1, <2>3, <2>7, <2>8
<1> QED  BY <1>1, <1>2

\* The loop ends with the number it reads, or with Overflow if there is none
\* up to the limit.
Reads(s, first, limit, F, n) ==
  /\ F[n] = Overflow \/ (F[n] \in 0 .. limit /\ Written(s, first, n, F[n]))
  /\ \A m \in 0 .. limit : Written(s, first, n, m) => F[n] = m

LEMMA LoopReads ==
  ASSUME NEW s, NEW first \in 1 .. 2, NEW limit \in Nat, limit > 9,
         Len(s) \in Nat, first <= Len(s), s[first] = "0" => first = Len(s)
  PROVE  LET v == DigitLoop(s, first, limit) IN
         /\ v = Overflow \/ (v \in 0 .. limit /\ Written(s, first, Len(s), v))
         /\ \A m \in 0 .. limit : Written(s, first, Len(s), m) => v = m
<1>1. PICK F : Loops(s, first, limit, F)
  BY LoopIs
<1>2. \A n \in first .. Len(s) : Reads(s, first, limit, F, n)
  <2> SUFFICES ASSUME NEW x \in first .. Len(s), ~Reads(s, first, limit, F, x) PROVE FALSE
    OBVIOUS
  <2> DEFINE S == {n \in first .. Len(s) : ~Reads(s, first, limit, F, n)}
  <2>1. PICK n \in S : \A j \in S : n <= j
    <3>1. S \in SUBSET Nat /\ x \in S
      OBVIOUS
    <3> HIDE DEF S
    <3> QED  BY <3>1, Least
  <2>2. n \in first .. Len(s) /\ ~Reads(s, first, limit, F, n)
    BY <2>1
  <2>3. n > first => Reads(s, first, limit, F, n - 1)
    BY <2>1, <2>2
  <2> HIDE DEF S
  <2> DEFINE v == F[n - 1]
             d == DigitOf(s[n])
  <2>4. F[n] = IF v = Overflow \/ ~IsDigit(s[n]) THEN Overflow
               ELSE IF v > (limit - d) \div 10 THEN Overflow ELSE v * 10 + d
    BY <1>1, <2>2 DEF Loops
  <2>5. n = first => v = 0
    BY <1>1 DEF Loops
  <2>6. IsDigit(s[n]) => d \in 0 .. 9 /\ Digits[d + 1] = s[n]
    BY DigitIs
  <2> HIDE DEF v, d
  <2>7. CASE n = first
    <3>1. IsDigit(s[n]) => F[n] = d
      <4> SUFFICES ASSUME IsDigit(s[n]) PROVE F[n] = d
        OBVIOUS
      <4>1. d \in 0 .. 9 /\ v = 0
        BY <2>5, <2>6, <2>7
      <4>2. ~(v > (limit - d) \div 10)
        BY <4>1
      <4> QED  BY <4>1, <4>2, <2>4 DEF Overflow
    <3>2. F[n] = Overflow \/ (F[n] \in 0 .. limit /\ Written(s, first, n, F[n]))
      <4>1. CASE IsDigit(s[n])
        <5>1. d \in 0 .. 9 /\ d \in Nat /\ d < 10 /\ s[first] = Digits[d + 1]
          BY <2>6, <2>7, <4>1
        <5>2. Written(s, first, first, d)
          BY <5>1, WrittenOne, Zenon
        <5>3. F[n] = d /\ d \in 0 .. limit
          BY <5>1, <3>1, <4>1
        <5> QED  BY <5>2, <5>3, <2>7
      <4>2. CASE ~IsDigit(s[n])
        BY <4>2, <2>4
      <4> QED  BY <4>1, <4>2
    <3>3. ASSUME NEW m \in 0 .. limit, Written(s, first, n, m) PROVE F[n] = m
      <4>1. m \in 0 .. 9 /\ s[n] = Digits[m + 1]
        BY <2>7, <3>3, WrittenOne
      <4>2. IsDigit(s[n]) /\ d = m
        BY <4>1, DigitsAre DEF d
      <4> QED  BY <4>2, <3>1
    <3> QED  BY <3>2, <3>3, <2>2 DEF Reads
  <2>8. CASE n > first
    <3>0. n \in Nat /\ n - 1 \in first .. Len(s)
      BY <2>2, <2>8
    <3>1. v = Overflow \/ (v \in 0 .. limit /\ Written(s, first, n - 1, v))
      BY <2>3, <2>8 DEF Reads, v
    <3>2. v # Overflow => v \in 1 .. limit
      <4> SUFFICES ASSUME v # Overflow, v = 0 PROVE FALSE
        BY <3>1
      <4>1. Written(s, first, n - 1, 0)
        BY <3>1
      <4>2. Magnitude[0] = <<Digits[1]>>
        <5>1. PICK z \in Nat : z = 0
          OBVIOUS
        <5>2. z < 10 /\ z + 1 = 1
          BY <5>1
        <5>3. Magnitude[z] = <<Digits[z + 1]>>
          BY <5>2, MagnitudeIs, Zenon
        <5> QED  BY <5>1, <5>2, <5>3
      <4>3. s[first] = "0"
        <5>1. Magnitude[0][1] = "0" /\ Len(Magnitude[0]) = 1
          BY <4>2 DEF Digits
        <5>2. Magnitude[0][1] = s[first + 1 - 1]
          BY <4>1, <5>1 DEF Written
        <5>3. first + 1 - 1 = first
          OBVIOUS
        <5> QED  BY <5>1, <5>2, <5>3
      <4> QED  BY <4>3, <2>2, <2>8
    <3>3. F[n] = Overflow \/ (F[n] \in 0 .. limit /\ Written(s, first, n, F[n]))
      <4> SUFFICES ASSUME F[n] # Overflow PROVE F[n] \in 0 .. limit /\ Written(s, first, n, F[n])
        OBVIOUS
      <4>1. /\ v \in 1 .. limit /\ d \in 0 .. 9 /\ Digits[d + 1] = s[n]
            /\ ~(v > (limit - d) \div 10) /\ F[n] = v * 10 + d
        BY <2>4, <2>6, <3>2
      <4>2. F[n] \in 0 .. limit /\ F[n] \in Nat /\ F[n] >= 10
        BY <4>1
      <4>3. F[n] \div 10 = v /\ F[n] % 10 = d
        <5>1. F[n] = 10 * v + d /\ v \in Nat
          BY <4>1
        <5> QED  BY <5>1, <4>1, TimesTen
      <4>4. Written(s, first, n - 1, F[n] \div 10) /\ s[n] = Digits[(F[n] % 10) + 1]
        BY <4>1, <4>3, <3>1 DEF Overflow
      <4>5. PICK m \in Nat : m = F[n]
        BY <4>2
      <4>6. m >= 10 /\ Written(s, first, n - 1, m \div 10) /\ s[n] = Digits[(m % 10) + 1]
        BY <4>2, <4>4, <4>5, Zenon
      <4>7. Written(s, first, n, m)
        <5>1. \A k \in Nat : k >= 10 =>
                (Written(s, first, n, k) <=>
                   Written(s, first, n - 1, k \div 10) /\ s[n] = Digits[(k % 10) + 1])
          BY <3>0, <2>8, WrittenMore
        <5> QED  BY <5>1, <4>6, Zenon
      <4> QED  BY <4>2, <4>5, <4>7
    <3>4. ASSUME NEW m \in 0 .. limit, Written(s, first, n, m) PROVE F[n] = m
      <4>1. m >= 10 /\ m \in Nat
        BY <3>0, <3>4, <2>8, WrittenMore
      <4>2. Written(s, first, n - 1, m \div 10) /\ s[n] = Digits[(m % 10) + 1]
        BY <3>0, <3>4, <4>1, <2>8, WrittenMore
      <4>3. PICK q, e : /\ q = m \div 10 /\ q \in Nat /\ q \in 0 .. limit
                         /\ e = m % 10 /\ e \in 0 .. 9 /\ m = 10 * q + e
        <5>1. m \div 10 \in Nat /\ m % 10 \in 0 .. 9 /\ m = 10 * (m \div 10) + (m % 10)
          BY <4>1, DivTen
        <5>2. m \div 10 \in 0 .. limit
          BY <5>1
        <5> QED  BY <5>1, <5>2, Zenon
      <4>4. v = q
        BY <4>2, <4>3, <2>3, <2>8 DEF Reads, v
      <4>5. IsDigit(s[n]) /\ d = e
        BY <4>2, <4>3, DigitsAre DEF d
      <4>6. ~(q > (limit - e) \div 10)
        BY <4>3
      <4> QED  BY <2>4, <4>3, <4>4, <4>5, <4>6 DEF Overflow
    <3> QED  BY <3>3, <3>4 , <2>2 DEF Reads
  <2> QED  BY <2>2, <2>7, <2>8
<1>3. DigitLoop(s, first, limit) = F[Len(s)]
  BY <1>1 DEF Loops
<1>4. Reads(s, first, limit, F, Len(s))
  BY <1>2
<1> QED  BY <1>3, <1>4 DEF Reads

LEMMA SameSeq ==
  ASSUME NEW S, NEW a \in Seq(S), NEW R, NEW b \in Seq(R), Len(a) = Len(b),
         \A i \in 1 .. Len(a) : a[i] = b[i]
  PROVE  a = b
<1>1. DOMAIN a = 1 .. Len(a) /\ DOMAIN b = 1 .. Len(b)
  OBVIOUS
<1>2. a = [i \in 1 .. Len(a) |-> a[i]] /\ b = [i \in 1 .. Len(b) |-> b[i]]
  BY <1>1
<1> QED  BY <1>2

LEMMA DecimalOfNat ==
  ASSUME NEW n \in Nat, NEW S, NEW s \in Seq(S)
  PROVE  Decimal(n) = s <=> Written(s, 1, Len(s), n)
<1>1. PICK a \in Seq(Characters) : a = Magnitude[n]
  BY MagnitudeShape DEF Shaped
<1>2. Decimal(n) = a
  BY <1>1 DEF Decimal
<1>3. Written(s, 1, Len(s), n) <=> Len(a) = Len(s) - 1 + 1 /\ \A i \in 1 .. Len(a) : a[i] = s[1 + i - 1]
  BY <1>1, Zenon DEF Written
<1>4. Len(a) \in Nat /\ Len(s) \in Nat /\ Len(s) - 1 + 1 = Len(s) /\ \A i \in 1 .. Len(a) : 1 + i - 1 = i
  OBVIOUS
<1>5. Written(s, 1, Len(s), n) <=> Len(a) = Len(s) /\ \A i \in 1 .. Len(a) : a[i] = s[i]
  BY <1>3, <1>4
<1>6. Len(a) = Len(s) /\ (\A i \in 1 .. Len(a) : a[i] = s[i]) => a = s
  BY SameSeq
<1> QED  BY <1>2, <1>5, <1>6

LEMMA Signed ==
  ASSUME NEW S, NEW a \in Seq(S), NEW b, b = <<"-">> \o a
  PROVE  /\ b \in Seq(S \cup {"-"}) /\ Len(b) = Len(a) + 1 /\ b[1] = "-"
         /\ \A i \in 1 .. Len(a) : b[i + 1] = a[i]
OBVIOUS

LEMMA DecimalOfNegative ==
  ASSUME NEW n \in Nat, n > 0, NEW S, NEW s \in Seq(S)
  PROVE  Decimal(-n) = s <=> Len(s) > 0 /\ s[1] = "-" /\ Written(s, 2, Len(s), n)
<1>1. PICK a \in Seq(Characters) : a = Magnitude[n]
  BY MagnitudeShape DEF Shaped
<1>2. PICK b : b = <<"-">> \o a
  OBVIOUS
<1>3. Decimal(-n) = b
  <2>1. -n < 0 /\ -(-n) = n
    OBVIOUS
  <2> QED  BY <2>1, <1>1, <1>2, Zenon DEF Decimal
<1>4. /\ b \in Seq(Characters \cup {"-"}) /\ Len(b) = Len(a) + 1 /\ b[1] = "-"
      /\ \A i \in 1 .. Len(a) : b[i + 1] = a[i]
  BY <1>2, Signed
<1>5. Written(s, 2, Len(s), n) <=> Len(a) = Len(s) - 2 + 1 /\ \A i \in 1 .. Len(a) : a[i] = s[2 + i - 1]
  BY <1>1, Zenon DEF Written
<1>6. ASSUME b = s PROVE Len(s) > 0 /\ s[1] = "-" /\ Written(s, 2, Len(s), n)
  <2>1. Len(a) \in Nat /\ Len(a) = Len(s) - 2 + 1 /\ \A i \in 1 .. Len(a) : 2 + i - 1 = i + 1
    BY <1>4, <1>6
  <2>2. \A i \in 1 .. Len(a) : a[i] = s[2 + i - 1]
    BY <2>1, <1>4, <1>6
  <2> QED  BY <2>1, <2>2, <1>4, <1>5, <1>6
<1>7. ASSUME Len(s) > 0, s[1] = "-", Written(s, 2, Len(s), n) PROVE b = s
  <2>1. Len(a) = Len(s) - 2 + 1 /\ \A i \in 1 .. Len(a) : a[i] = s[2 + i - 1]
    BY <1>5, <1>7
  <2>2. Len(b) = Len(s) /\ Len(a) \in Nat
    BY <2>1, <1>4
  <2>3. ASSUME NEW i \in 1 .. Len(b) PROVE b[i] = s[i]
    <3>1. CASE i = 1
      BY <3>1, <1>4, <1>7
    <3>2. CASE i # 1
      <4>1. i - 1 \in 1 .. Len(a) /\ (i - 1) + 1 = i /\ 2 + (i - 1) - 1 = i
        BY <3>2, <2>2, <1>4
      <4>2. b[(i - 1) + 1] = a[i - 1] /\ a[i - 1] = s[2 + (i - 1) - 1]
        BY <4>1, <1>4, <2>1
      <4> QED  BY <4>1, <4>2
    <3> QED  BY <3>1, <3>2
  <2> QED  BY <2>2, <2>3, <1>4, SameSeq
<1> QED  BY <1>3, <1>6, <1>7

\* What a string of digits begins with.
LEMMA WrittenFirst ==
  ASSUME NEW S, NEW s \in Seq(S), NEW first \in 1 .. 2, NEW m \in Nat, Written(s, first, Len(s), m)
  PROVE  /\ first <= Len(s) /\ s[first] \notin {"-", "+"}
         /\ s[first] = "0" => m = 0 /\ first = Len(s)
<1>1. PICK a \in Seq(Characters) : a = Magnitude[m]
  BY MagnitudeShape DEF Shaped
<1>2. Len(a) > 0 /\ (a[1] = "0" => m = 0) /\ Len(a) \in Nat
  BY <1>1, MagnitudeShape DEF Shaped
<1>3. Len(a) = Len(s) - first + 1 /\ \A i \in 1 .. Len(a) : a[i] = s[first + i - 1]
  BY <1>1, Zenon DEF Written
<1>4. first <= Len(s)
  BY <1>2, <1>3
<1>5. s[first] = a[1]
  <2>1. 1 \in 1 .. Len(a) /\ first + 1 - 1 = first
    BY <1>2
  <2> QED  BY <2>1, <1>3
<1>6. a[1] \in Characters
  BY <1>2
<1>7. a[1] \notin {"-", "+"}
  BY <1>6 DEF Characters, Digits
<1>8. m = 0 => Len(a) = 1
  <2> SUFFICES ASSUME m = 0 PROVE Len(a) = 1
    OBVIOUS
  <2>1. m < 10
    OBVIOUS
  <2>2. PICK c : c = Digits[m + 1]
    OBVIOUS
  <2>3. a = <<c>>
    BY <2>1, <2>2, <1>1, MagnitudeIs, Zenon
  <2> QED  BY <2>3
<1> QED  BY <1>2, <1>3, <1>4, <1>5, <1>7, <1>8

\* numeric_string_key() takes a string for the integer whose decimal notation
\* it is, and no other string but minus zero for any.
LEMMA DecimalKeys ==
  ASSUME NEW S, NEW s \in Seq(S), s # <<"-", "0">>
  PROVE  /\ numeric_string_key(s) # NoKey =>
              /\ numeric_string_key(s)[1] = "int" /\ numeric_string_key(s)[2] \in Integer
              /\ Decimal(numeric_string_key(s)[2]) = s
         /\ \A n \in Integer : Decimal(n) = s => numeric_string_key(s) # NoKey
<1> DEFINE negative == s # <<>> /\ s[1] = "-"
           first == IF negative THEN 2 ELSE 1
           limit == PPHP_INT_MAXIMUM + (IF negative THEN 1 ELSE 0)
           v == DigitLoop(s, first, limit)
           Not == \/ Len(s) < first
                  \/ s[1] = "+"
                  \/ s[first] = "0" /\ first < Len(s)
                  \/ v = Overflow
           key == numeric_string_key(s)
<1>1. key = IF Not THEN NoKey ELSE <<"int", IF negative THEN -v ELSE v>>
  BY DEF numeric_string_key
<1>2. first \in 1 .. 2 /\ limit \in Nat /\ limit > 9 /\ Len(s) \in Nat
  BY MaximumAssumption
<1>3. ASSUME first <= Len(s), s[first] = "0" => first = Len(s)
      PROVE  /\ v = Overflow \/ (v \in 0 .. limit /\ Written(s, first, Len(s), v))
             /\ \A m \in 0 .. limit : Written(s, first, Len(s), m) => v = m
  <2> HIDE DEF first, limit
  <2> QED  BY <1>2, <1>3, LoopReads
<1>4. \A x : <<"int", x>> # NoKey /\ <<"int", x>>[1] = "int" /\ <<"int", x>>[2] = x
  BY DEF NoKey
<1>5. Len(s) > 0 => s # <<>>
  OBVIOUS
<1>8. first = (IF negative THEN 2 ELSE 1) /\ limit = PPHP_INT_MAXIMUM + (IF negative THEN 1 ELSE 0)
      /\ (negative <=> s # <<>> /\ s[1] = "-")
  OBVIOUS
<1> HIDE DEF v, key, negative, first, limit
<1>6. ASSUME key # NoKey PROVE key[1] = "int" /\ key[2] \in Integer /\ Decimal(key[2]) = s
  <2>1. ~Not
    BY <1>1, <1>6
  <2>2. first <= Len(s) /\ (s[first] = "0" => first = Len(s)) /\ v # Overflow
    BY <2>1, <1>2
  <2>3. v \in 0 .. limit /\ Written(s, first, Len(s), v)
    BY <2>2, <1>3
  <2>4. CASE negative
    <3>1. first = 2 /\ limit = PPHP_INT_MAXIMUM + 1
      BY <1>8, <2>4, MaximumAssumption
    <3>2. v # 0
      <4> SUFFICES ASSUME v = 0 PROVE FALSE
        OBVIOUS
      <4>1. Magnitude[v] = <<Digits[v + 1]>>
        <5>1. v \in Nat /\ v < 10
          OBVIOUS
        <5> QED  BY <5>1, MagnitudeIs, Zenon
      <4>2. Len(Magnitude[v]) = 1 /\ Magnitude[v][1] = "0"
        BY <4>1 DEF Digits
      <4>3. 1 = Len(s) - 2 + 1 /\ s[2 + 1 - 1] = "0"
        <5>1. /\ Len(Magnitude[v]) = Len(s) - first + 1
              /\ \A i \in 1 .. Len(Magnitude[v]) : Magnitude[v][i] = s[first + i - 1]
          BY <2>3, Zenon DEF Written
        <5>2. 1 \in 1 .. Len(Magnitude[v])
          BY <4>2
        <5>3. Magnitude[v][1] = s[first + 1 - 1]
          BY <5>1, <5>2
        <5> QED  BY <5>1, <5>3, <4>2, <3>1
      <4>4. Len(s) = 2 /\ s[1] = "-" /\ s[2] = "0"
        BY <4>3, <2>4, <1>2, <1>8
      <4>5. \A i \in 1 .. Len(s) : s[i] = <<"-", "0">>[i]
        BY <4>4
      <4>6. s = <<"-", "0">>
        <5>1. <<"-", "0">> \in Seq({"-", "0"}) /\ Len(<<"-", "0">>) = 2
          OBVIOUS
        <5> QED  BY <5>1, <4>4, <4>5, SameSeq
      <4> QED  BY <4>6
    <3>3. v \in Nat /\ v > 0 /\ -v \in Integer
      BY <2>3, <3>1, <3>2, MaximumAssumption DEF Integer, PPHP_INT_MINIMUM
    <3>4. Decimal(-v) = s
      <4>1. Len(s) > 0 /\ s[1] = "-" /\ Written(s, 2, Len(s), v)
        BY <2>2, <2>3, <2>4, <3>1, <1>2, <1>8
      <4> QED  BY <4>1, <3>3, DecimalOfNegative
    <3>5. key = <<"int", -v>>
      BY <2>1, <2>4, <1>1
    <3> QED  BY <3>3, <3>4, <3>5, <1>4
  <2>5. CASE ~negative
    <3>1. first = 1 /\ limit = PPHP_INT_MAXIMUM
      BY <1>8, <2>5, MaximumAssumption
    <3>2. v \in Nat /\ v \in Integer
      BY <2>3, <3>1, MaximumAssumption DEF Integer, PPHP_INT_MINIMUM
    <3>3. Decimal(v) = s
      BY <2>3, <3>1, <3>2, DecimalOfNat
    <3>4. key = <<"int", v>>
      BY <2>1, <2>5, <1>1
    <3> QED  BY <3>2, <3>3, <3>4, <1>4
  <2> QED  BY <2>4, <2>5
<1>7. ASSUME NEW n \in Integer, Decimal(n) = s PROVE key # NoKey
  <2>1. CASE n >= 0
    <3>1. n \in Nat /\ n <= PPHP_INT_MAXIMUM
      BY <2>1 DEF Integer, PPHP_INT_MINIMUM
    <3>2. Written(s, 1, Len(s), n)
      BY <3>1, <1>7, DecimalOfNat
    <3>3. 1 <= Len(s) /\ s[1] \notin {"-", "+"} /\ (s[1] = "0" => 1 = Len(s))
      <4>1. PICK f \in 1 .. 2 : f = 1
        OBVIOUS
      <4> QED  BY <4>1, <3>1, <3>2, WrittenFirst
    <3>4. ~negative /\ first = 1 /\ limit = PPHP_INT_MAXIMUM
      BY <1>8, <3>3, MaximumAssumption
    <3>5. v = n
      BY <3>1, <3>2, <3>3, <3>4, <1>3
    <3>6. ~Not
      <4>1. ~(Len(s) < first) /\ s[1] # "+"
        BY <3>3, <3>4, <1>2
      <4>2. ~(s[first] = "0" /\ first < Len(s))
        BY <3>3, <3>4, <1>2
      <4>3. v # Overflow
        BY <3>1, <3>5 DEF Overflow
      <4> QED  BY <4>1, <4>2, <4>3
    <3> QED  BY <3>6, <1>1, <1>4
  <2>2. CASE n < 0
    <3>1. PICK m \in Nat : m > 0 /\ n = -m /\ m <= PPHP_INT_MAXIMUM + 1
      <4>1. -n \in Nat /\ -n > 0 /\ n = -(-n) /\ -n <= PPHP_INT_MAXIMUM + 1
        BY <2>2, MaximumAssumption DEF Integer, PPHP_INT_MINIMUM
      <4> QED  BY <4>1
    <3>2. Len(s) > 0 /\ s[1] = "-" /\ Written(s, 2, Len(s), m)
      BY <3>1, <1>7, DecimalOfNegative
    <3>3. 2 <= Len(s) /\ (s[2] = "0" => m = 0 /\ 2 = Len(s))
      <4>1. PICK f \in 1 .. 2 : f = 2
        OBVIOUS
      <4> QED  BY <4>1, <3>1, <3>2, WrittenFirst
    <3>4. negative /\ first = 2 /\ limit = PPHP_INT_MAXIMUM + 1
      BY <1>8, <3>2, <1>5, MaximumAssumption
    <3>5. v = m
      BY <3>1, <3>2, <3>3, <3>4, <1>3
    <3>6. ~Not
      <4>1. ~(Len(s) < first) /\ s[1] # "+"
        BY <3>2, <3>3, <3>4, <1>2
      <4>2. ~(s[first] = "0" /\ first < Len(s))
        BY <3>1, <3>3, <3>4
      <4>3. v # Overflow
        BY <3>1, <3>5 DEF Overflow
      <4> QED  BY <4>1, <4>2, <4>3
    <3> QED  BY <3>6, <1>1, <1>4
  <2>3. n \in Int
    BY MaximumAssumption DEF Integer, PPHP_INT_MINIMUM
  <2> QED  BY <2>1, <2>2, <2>3
<1> QED  BY <1>6, <1>7 DEF key

(***************************************************************************)
(* Whatever string a program uses as a subscript, of any characters and    *)
(* length, numeric_string_key() takes it for an integer exactly when it is *)
(* the decimal notation of one of the width.                               *)
(***************************************************************************)
THEOREM KeysAreDecimal == TextSpec => []IntegersOnly
<1> DEFINE IsText == text \in Seq(Alphabet)
<1>1. TextInit => IsText
  BY DEF TextInit
<1>2. IsText /\ [TextNext]_text => IsText'
  <2> SUFFICES ASSUME IsText, [TextNext]_text PROVE IsText'
    OBVIOUS
  <2>1. CASE TextNext
    <3>1. PICK c \in Alphabet : text' = Append(text, c)
      BY <2>1 DEF TextNext
    <3> QED  BY <3>1, Appended
  <2>2. CASE UNCHANGED text
    BY <2>2
  <2> QED  BY <2>1, <2>2
<1>3. IsText => IntegersOnly
  BY DecimalKeys DEF IntegersOnly
<1> HIDE DEF IsText
<1> QED  BY <1>1, <1>2, <1>3, PTL DEF TextSpec

-----------------------------------------------------------------------------
(* Iterating an array.                                                     *)

\* The positions of the entries that were not removed.
Live(a) == {p \in 0 .. a.used - 1 : a.entries[p + 1].key # Tombstone}

\* `pos` lists them in order.
Lists(a, pos) ==
    /\ pos \in Seq(Nat)
    /\ \A i, j \in 1 .. Len(pos) : i < j => pos[i] < pos[j]
    /\ \A i \in 1 .. Len(pos) : pos[i] \in Live(a)
    /\ \A p \in Live(a) : \E i \in 1 .. Len(pos) : pos[i] = p

Item(a, p) == <<a.entries[p + 1].key, a.entries[p + 1].value>>
ItemsFrom(a, pos, i) == [m \in 1 .. Len(pos) - i |-> Item(a, pos[i + m])]
ItemsAt(a, pos) == [m \in 1 .. Len(pos) |-> Item(a, pos[m])]

\* pa_entry_at() comes to the next listed position.
LEMMA EntryAt ==
  ASSUME NEW a, a.used \in Nat, NEW pos, Lists(a, pos), NEW i \in 0 .. Len(pos),
         NEW p \in 0 .. a.used,
         \A j \in 1 .. Len(pos) : pos[j] < p <=> j <= i
  PROVE  pa_entry_at(a, p) = IF i = Len(pos) THEN a.used ELSE pos[i + 1]
<1> DEFINE T == {q \in p .. a.used - 1 : a.entries[q + 1].key # Tombstone}
           S == T \cup {a.used}
<1>1. pa_entry_at(a, p) = Lowest(S)
  BY DEF pa_entry_at
<1>2. S \in SUBSET Nat /\ S # {} /\ T = {q \in Live(a) : q >= p}
  BY DEF Live
<1>3. Lowest(S) \in S /\ \A q \in S : Lowest(S) <= q
  BY <1>2, LowestIs
<1>4. CASE i = Len(pos)
  <2>1. T = {}
    BY <1>2, <1>4 DEF Lists
  <2> QED
    BY <2>1, <1>1, <1>3, <1>4
<1>5. CASE i # Len(pos)
  <2>1. i + 1 \in 1 .. Len(pos) /\ Len(pos) \in Nat
    BY <1>5 DEF Lists
  <2>2. pos[i + 1] \in Live(a) /\ pos[i + 1] \in Nat
    BY <2>1 DEF Lists
  <2>3. pos[i + 1] >= p
    BY <2>1, <2>2
  <2>4. pos[i + 1] \in T
    BY <1>2, <2>2, <2>3
  <2>5. \A q \in T : pos[i + 1] <= q
    <3> SUFFICES ASSUME NEW q \in T PROVE pos[i + 1] <= q
      OBVIOUS
    <3>1. PICK j \in 1 .. Len(pos) : pos[j] = q
      BY <1>2 DEF Lists
    <3>2. q >= p /\ q \in Nat
      OBVIOUS
    <3>3. ~(j <= i) /\ j \in Nat
      BY <3>1, <3>2
    <3>4. j = i + 1 \/ i + 1 < j
      BY <3>3
    <3> QED
      BY <3>1, <3>2, <3>4, <2>1, <2>2, SMTT(30) DEF Lists
  <2>6. Lowest(S) \in Nat /\ pos[i + 1] < a.used
    BY <1>2, <1>3, <2>4
  <2>7. Lowest(S) <= pos[i + 1]
    BY <1>3, <2>4
  <2>8. pos[i + 1] <= Lowest(S)
    <3>1. Lowest(S) \in T \/ Lowest(S) = a.used
      BY <1>3
    <3> HIDE DEF S, T
    <3> QED
      BY <3>1, <2>2, <2>5, <2>6
  <2> QED
    BY <1>1, <1>5, <2>2, <2>6, <2>7, <2>8
<1> QED
  BY <1>4, <1>5

LEMMA SamePoints ==
  ASSUME NEW D, NEW V, NEW f \in [D -> V], NEW g \in [D -> V], \A x \in D : f[x] = g[x]
  PROVE  f = g
OBVIOUS

\* Putting an element before a sequence.
LEMMA Cons ==
  ASSUME NEW V, NEW x \in V, NEW n \in Nat, n # 0, NEW rest \in [1 .. n - 1 -> V],
         NEW all \in [1 .. n -> V], all[1] = x, \A m \in 1 .. n - 1 : all[m + 1] = rest[m]
  PROVE  <<x>> \o rest = all
<1>1. <<x>> \in Seq(V) /\ rest \in Seq(V) /\ Len(rest) = n - 1
  OBVIOUS
<1>2. Len(<<x>> \o rest) = n /\ <<x>> \o rest \in Seq(V)
  BY <1>1
<1>3. \A m \in 1 .. n : (<<x>> \o rest)[m] = all[m]
  <2> SUFFICES ASSUME NEW m \in 1 .. n PROVE (<<x>> \o rest)[m] = all[m]
    OBVIOUS
  <2>1. CASE m = 1
    BY <1>1, <2>1
  <2>2. CASE m # 1
    <3>1. (<<x>> \o rest)[m] = rest[m - 1] /\ m - 1 \in 1 .. n - 1
      BY <1>1, <2>2
    <3> QED
      BY <3>1
  <2> QED
    BY <2>1, <2>2
<1> DEFINE both == <<x>> \o rest
<1>0. both \in Seq(V) /\ Len(both) = n
  BY <1>2
<1> HIDE DEF both
<1>4. both \in [1 .. n -> V]
  BY <1>0
<1>5. \A m \in 1 .. n : both[m] = all[m]
  BY <1>3 DEF both
<1>6. both = all
  BY <1>4, <1>5
<1> QED
  BY <1>6 DEF both

\* An iteration meets the items of the listed positions, in their order.
LEMMA ElementsAre ==
  ASSUME NEW a, a.used \in Nat, NEW pos, Lists(a, pos)
  PROVE  Elements(a) = ItemsAt(a, pos)
<1> DEFINE hi == a.used
           Body(f, p) == LET q == pa_entry_at(a, p) IN
                         IF q = a.used THEN <<>>
                         ELSE <<<<a.entries[q + 1].key, a.entries[q + 1].value>>>> \o f[q + 1]
           Downto(n) == \E f : f = [m \in n .. hi |-> Body(f, m)]
           F == CHOOSE f : f = [m \in 0 .. hi |-> Body(f, m)]
<1>0. \A p \in 0 .. hi : pa_entry_at(a, p) \in p .. hi
  <2> SUFFICES ASSUME NEW p \in 0 .. hi PROVE pa_entry_at(a, p) \in p .. hi
    OBVIOUS
  <2> DEFINE S == {q \in p .. a.used - 1 : a.entries[q + 1].key # Tombstone} \cup {a.used}
  <2>1. S \in SUBSET Nat /\ S # {}
    OBVIOUS
  <2>2. Lowest(S) \in S
    BY <2>1, LowestIs
  <2> QED
    BY <2>2 DEF pa_entry_at
<1>1. Downto(0)
  <2> SUFFICES ASSUME ~Downto(0) PROVE FALSE
    OBVIOUS
  <2> DEFINE S == {k \in Nat : k <= hi /\ ~Downto(hi - k)}
  <2>1. hi \in S
    OBVIOUS
  <2> HIDE DEF Downto
  <2>2. PICK k \in S : \A j \in S : k <= j
    BY <2>1, Least
  <2> DEFINE n == hi - k
  <2>4. n \in 0 .. hi
    BY <2>2
  <2>5. \E f : f = [m \in n + 1 .. hi |-> Body(f, m)]
    <3>1. CASE k = 0
      <4> DEFINE g == [m \in n + 1 .. hi |-> 0]
      <4>1. n + 1 .. hi = {}
        BY <3>1, <2>4
      <4>2. g = [m \in n + 1 .. hi |-> Body(g, m)]
        BY <4>1
      <4> QED
        BY <4>2
    <3>2. CASE k # 0
      <4>1. hi - (k - 1) = n + 1 /\ k - 1 \in Nat /\ ~(k <= k - 1)
        BY <3>2, <2>2
      <4>2. k - 1 \notin S
        BY <4>1, <2>2
      <4>3. Downto(n + 1)
        BY <4>1, <4>2, <2>2
      <4> QED
        BY <4>3 DEF Downto
    <3> QED
      BY <3>1, <3>2
  <2>6. PICK f : f = [m \in n + 1 .. hi |-> Body(f, m)]
    BY <2>5
  <2> DEFINE first == Body(f, n)
             g == [m \in n .. hi |-> IF m = n THEN first ELSE f[m]]
  <2> HIDE DEF Body
  <2>7. \A m \in n .. hi : Body(g, m) = g[m]
    <3> SUFFICES ASSUME NEW m \in n .. hi PROVE Body(g, m) = g[m]
      OBVIOUS
    <3>1. Body(g, m) = Body(f, m)
      <4>1. pa_entry_at(a, m) # a.used => g[pa_entry_at(a, m) + 1] = f[pa_entry_at(a, m) + 1]
        <5> DEFINE q == pa_entry_at(a, m)
        <5>1. q \in m .. hi
          BY <2>4, <1>0
        <5> HIDE DEF q
        <5>2. q # hi => q + 1 \in n .. hi /\ q + 1 # n
          BY <5>1, <2>4
        <5> QED
          BY <5>2 DEF q
      <4> QED
        BY <4>1 DEF Body
    <3>2. CASE m = n
      BY <3>1, <3>2
    <3>3. CASE m # n
      <4>1. m \in n + 1 .. hi
        BY <3>3, <2>4
      <4>2. f[m] = Body(f, m)
        BY <2>6, <4>1
      <4> QED
        BY <3>1, <3>3, <4>2
    <3> QED
      BY <3>2, <3>3
  <2>8. g = [m \in n .. hi |-> Body(g, m)]
    BY <2>7
  <2>9. Downto(n)
    BY <2>8 DEF Downto
  <2> QED
    BY <2>9, <2>2
<1>2. F = [m \in 0 .. hi |-> Body(F, m)]
  <2> HIDE DEF Body
  <2> QED
    BY <1>1
<1>3. Elements(a) = F[0]
  BY DEF Elements
<1> HIDE DEF F
<1> DEFINE Splits(i, p) == \A j \in 1 .. Len(pos) : pos[j] < p <=> j <= i
           Good(k) == \A p \in 0 .. hi : Splits(Len(pos) - k, p)
                                       => F[p] = ItemsFrom(a, pos, Len(pos) - k)
<1>4. Len(pos) \in Nat /\ \A i \in 1 .. Len(pos) : pos[i] \in 0 .. hi - 1
  BY DEF Lists, Live
<1>5. Good(Len(pos))
  <2> SUFFICES ASSUME ~Good(Len(pos)) PROVE FALSE
    OBVIOUS
  <2> DEFINE S == {k \in 0 .. Len(pos) : ~Good(k)}
  <2> HIDE DEF Good
  <2>1. S \in SUBSET Nat /\ Len(pos) \in S
    BY <1>4
  <2>2. PICK k \in S : \A j \in S : k <= j
    BY <2>1, Least
  <2> DEFINE i == Len(pos) - k
  <2>3. i \in 0 .. Len(pos)
    BY <2>2, <1>4
  <2>4. ASSUME NEW p \in 0 .. hi, Splits(i, p)
        PROVE  F[p] = ItemsFrom(a, pos, i)
    <3> DEFINE q == pa_entry_at(a, p)
    <3>1. q = IF i = Len(pos) THEN a.used ELSE pos[i + 1]
      BY <2>3, <2>4, EntryAt
    <3>2. F[p] = Body(F, p)
      BY <1>2
    <3>3. CASE i = Len(pos)
      <4>1. F[p] = <<>>
        BY <3>1, <3>2, <3>3
      <4>2. ItemsFrom(a, pos, i) = <<>>
        BY <3>3, <1>4 DEF ItemsFrom
      <4> QED
        BY <4>1, <4>2
    <3>4. CASE i # Len(pos)
      <4>1. i + 1 \in 1 .. Len(pos) /\ k - 1 \in 0 .. Len(pos) /\ Len(pos) - (k - 1) = i + 1
        BY <3>4, <2>3, <1>4, <2>2
      <4>2. q = pos[i + 1] /\ q \in 0 .. hi - 1
        BY <3>1, <3>4, <4>1, <1>4
      <4>3. Good(k - 1)
        <5>1. ~(k <= k - 1)
          BY <2>2, <4>1
        <5> QED
          BY <5>1, <4>1, <2>2
      <4>4. Splits(i + 1, q + 1)
        <5> SUFFICES ASSUME NEW j \in 1 .. Len(pos) PROVE pos[j] < q + 1 <=> j <= i + 1
          OBVIOUS
        <5>1. pos[j] \in Int /\ pos[i + 1] \in Int /\ q = pos[i + 1]
          BY <1>4, <4>1, <4>2
        <5>2. j < i + 1 \/ j = i + 1 \/ i + 1 < j
          BY <2>3
        <5>3. i + 1 < j => pos[i + 1] < pos[j]
          BY <4>1 DEF Lists
        <5>4. j < i + 1 => pos[j] < pos[i + 1]
          BY <4>1 DEF Lists
        <5> HIDE DEF q, i
        <5> QED
          BY <5>1, <5>2, <5>3, <5>4, <2>3
      <4>5. F[q + 1] = ItemsFrom(a, pos, i + 1)
        <5>1. q + 1 \in 0 .. hi
          BY <4>2
        <5> QED
          BY <5>1, <4>1, <4>3, <4>4 DEF Good
      <4>6. F[p] = <<Item(a, q)>> \o ItemsFrom(a, pos, i + 1)
        BY <3>2, <4>2, <4>5 DEF Item
      <4>7. <<Item(a, q)>> \o ItemsFrom(a, pos, i + 1) = ItemsFrom(a, pos, i)
        <5> DEFINE n == Len(pos) - i
                   rest == ItemsFrom(a, pos, i + 1)
                   all == ItemsFrom(a, pos, i)
                   V == {Item(a, pos[m]) : m \in 1 .. Len(pos)}
        <5>1. n \in Nat /\ n # 0 /\ n - 1 = Len(pos) - (i + 1)
          BY <2>3, <1>4, <3>4
        <5>2. rest = [m \in 1 .. n - 1 |-> Item(a, pos[i + 1 + m])]
          BY <5>1 DEF ItemsFrom
        <5>3. all = [m \in 1 .. n |-> Item(a, pos[i + m])]
          BY DEF ItemsFrom
        <5>4. \A m \in 1 .. n : i + m \in 1 .. Len(pos)
          BY <2>3, <1>4
        <5>5. \A m \in 1 .. n - 1 : i + 1 + m \in 1 .. Len(pos) /\ m + 1 \in 1 .. n /\ i + (m + 1) = i + 1 + m
          BY <2>3, <1>4
        <5>6. Item(a, q) \in V /\ Item(a, pos[i + 1]) = Item(a, q)
          BY <4>1, <4>2
        <5> HIDE DEF n, V, rest, all, i, q
        <5>7. rest \in [1 .. n - 1 -> V]
          BY <5>2, <5>5 DEF V
        <5>8. all \in [1 .. n -> V]
          BY <5>3, <5>4 DEF V
        <5>9. all[1] = Item(a, q) /\ \A m \in 1 .. n - 1 : all[m + 1] = rest[m]
          <6>1. 1 \in 1 .. n
            BY <5>1
          <6>2. all[1] = Item(a, q)
            BY <6>1, <5>3, <5>6
          <6>3. ASSUME NEW m \in 1 .. n - 1 PROVE all[m + 1] = rest[m]
            <7>1. all[m + 1] = Item(a, pos[i + (m + 1)])
              BY <5>3, <5>5
            <7>2. rest[m] = Item(a, pos[i + 1 + m])
              BY <5>2
            <7>3. i + (m + 1) = i + 1 + m
              BY <5>5
            <7> QED
              BY <7>1, <7>2, <7>3
          <6> QED
            BY <6>2, <6>3
        <5>10. <<Item(a, q)>> \o rest = all
          BY <5>1, <5>6, <5>7, <5>8, <5>9, Cons
        <5> QED
          BY <5>10 DEF rest, all
      <4> QED
        BY <4>6, <4>7
    <3> QED
      BY <3>3, <3>4
  <2>5. Good(k)
    BY <2>4 DEF Good
  <2> QED
    BY <2>5, <2>2
<1>6. Splits(0, 0) /\ Len(pos) - Len(pos) = 0 /\ 0 \in 0 .. hi
  BY <1>4
<1>7. F[0] = ItemsFrom(a, pos, 0)
  BY <1>5, <1>6
<1>8. ItemsFrom(a, pos, 0) = ItemsAt(a, pos)
  BY <1>4 DEF ItemsFrom, ItemsAt, Lists
<1> QED
  BY <1>3, <1>7, <1>8

\* What a key is.
LEMMA KeyShapes ==
  ASSUME NEW k \in Keys
  PROVE  /\ k # Tombstone /\ k # NoKey
         /\ k[1] = "int" => k[2] \in Integer /\ k = <<"int", k[2]>>
<1>1. ASSUME NEW n \in 0 .. PPHP_INT_MAXIMUM, k = <<"int", n>>
      PROVE  /\ k # Tombstone /\ k # NoKey
             /\ k[2] \in Integer /\ k = <<"int", k[2]>>
  BY <1>1, MaximumAssumption DEF Tombstone, NoKey, Integer, PPHP_INT_MINIMUM
<1>2. ASSUME NEW input \in Inputs, k = normalize_key(input), k # NoKey
      PROVE  /\ k # Tombstone
             /\ k[1] = "int" => k[2] \in Integer /\ k = <<"int", k[2]>>
  <2>1. CASE input[1] = "int"
    <3>1. k = input
      BY <1>2, <2>1 DEF normalize_key
    <3> QED
      BY <3>1, <2>1, InputsAssumption DEF Tombstone
  <2>2. CASE input[1] = "float"
    <3>1. /\ input[2] >= 2 * PPHP_INT_MINIMUM
          /\ input[2] < -2 * PPHP_INT_MINIMUM
          /\ k = <<"int", Truncate(input[2])>>
      BY <1>2, <2>2 DEF normalize_key
    <3>2. input[2] \in Int
      BY <2>2, InputsAssumption
    <3>3. Truncate(input[2]) \in Integer
      BY <3>1, <3>2, MaximumAssumption DEF Truncate, Integer, PPHP_INT_MINIMUM
    <3> QED
      BY <3>1, <3>3 DEF Tombstone
  <2>3. CASE input[1] = "true"
    BY <1>2, <2>3, MaximumAssumption DEF normalize_key, Tombstone, Integer, PPHP_INT_MINIMUM
  <2>4. CASE input[1] = "false"
    BY <1>2, <2>4, MaximumAssumption DEF normalize_key, Tombstone, Integer, PPHP_INT_MINIMUM
  <2>5. CASE input[1] = "null"
    BY <1>2, <2>5 DEF normalize_key, Tombstone
  <2>6. CASE input[1] = "string"
    <3>1. k = IF numeric_string_key(input[2]) # NoKey
              THEN numeric_string_key(input[2]) ELSE input
      BY <1>2, <2>6 DEF normalize_key
    <3>2. input = <<input[1], input[2]>> /\ Len(input[2]) \in Nat
          /\ DOMAIN input[2] = 1 .. Len(input[2])
      BY <2>6, InputsAssumption
    <3> QED
      BY <3>1, <3>2, <2>6, NumericKeysFit DEF Tombstone
  <2>7. CASE input[1] \notin {"int", "float", "true", "false", "null", "string"}
    BY <1>2, <2>7 DEF normalize_key
  <2> QED
    BY <2>1, <2>2, <2>3, <2>4, <2>5, <2>6, <2>7
<1> QED
  BY <1>1, <1>2 DEF Keys

-----------------------------------------------------------------------------
(* The representation.                                                     *)

AnyKey == Keys \cup {Tombstone}
Entry == [key : AnyKey, value : Values \cup {Tombstone}, next : Int]
Entries == Seq(Entry)
BucketVectors == UNION {[0 .. n - 1 -> Int] : n \in Nat}
ArrayRecord == [packed : BOOLEAN, size : Nat, used : Nat, capacity : Nat, next_index : Nat,
                entries : Entries, buckets : BucketVectors]

KeyAt(a, p) == a.entries[p + 1].key
NextAt(a, p) == a.entries[p + 1].next

\* The entries that the one at p follows on its chain.
Earlier(a, n, p) == {q \in Chained(a, n, BucketOf(KeyAt(a, p), n)) : q < p}

\* Each of the n buckets starts the chain of its entries, youngest first.
Hashed(a, n) ==
    /\ a.buckets = [b \in 0 .. n - 1 |-> Highest(Chained(a, n, b))]
    /\ \A p \in Live(a) : NextAt(a, p) = Highest(Earlier(a, n, p))

Fits(a) ==
    /\ a.used = Len(a.entries) /\ a.used <= a.capacity /\ a.capacity <= UINT16_LIMIT
    /\ a.next_index <= PPHP_INT_MAXIMUM
    /\ \A p \in 0 .. a.used - 1 : p \notin Live(a) => NextAt(a, p) = -1

\* No key comes twice, and the next index is behind all of them but the largest.
Apart(a) ==
    /\ \A p, q \in Live(a) : KeyAt(a, p) = KeyAt(a, q) => p = q
    /\ \A p \in Live(a) : KeyAt(a, p)[1] = "int" =>
          KeyAt(a, p)[2] < a.next_index \/ KeyAt(a, p)[2] = PPHP_INT_MAXIMUM

Counted(a) == \E pos : Lists(a, pos) /\ Len(pos) = a.size

AsList(a) ==
    /\ a.buckets = <<>> /\ a.size = a.used /\ a.next_index = a.used
    /\ \A p \in 0 .. a.used - 1 : KeyAt(a, p) = <<"int", p>> /\ NextAt(a, p) = -1

AsHash(a) == \E n \in MinBuckets .. UINT16_LIMIT : Hashed(a, n) /\ a.size * 4 <= n * 3

\* What holds of every array between two calls.
Sound(a) ==
    /\ a \in ArrayRecord /\ Fits(a) /\ Apart(a) /\ Counted(a)
    /\ a.packed => AsList(a)
    /\ ~a.packed => AsHash(a)

-----------------------------------------------------------------------------
(* Chains.                                                                 *)

LEMMA CountIs ==
  ASSUME NEW a, NEW n \in Nat, DOMAIN a.buckets = 0 .. n - 1
  PROVE  BucketCount(a) = n
<1>1. Cardinality(0 .. n - 1) = IF 0 > n - 1 THEN 0 ELSE (n - 1) - 0 + 1
  BY FS_Interval
<1> QED
  BY <1>1 DEF BucketCount

LEMMA BucketFits ==
  ASSUME NEW k \in Keys, NEW n \in Nat, n # 0
  PROVE  BucketOf(k, n) \in 0 .. n - 1
<1>1. key_hash(k) \in Nat
  BY HashAssumption
<1> DEFINE h == key_hash(k)
<1> HIDE DEF h
<1>2. h \in Nat
  BY <1>1 DEF h
<1>3. h % n \in 0 .. n - 1
  BY <1>2
<1> QED
  BY <1>3 DEF BucketOf, h

\* The link of an entry leads to an older entry of its chain, passing none.
LEMMA LinksDescend ==
  ASSUME NEW a \in ArrayRecord, Fits(a), NEW n \in Nat, n # 0, Hashed(a, n),
         NEW p \in 0 .. a.used - 1
  PROVE  /\ NextAt(a, p) \in -1 .. p - 1
         /\ p \in Live(a) =>
              /\ NextAt(a, p) = -1 \/ NextAt(a, p) \in Chained(a, n, BucketOf(KeyAt(a, p), n))
              /\ \A q \in Chained(a, n, BucketOf(KeyAt(a, p), n)) : q < p => q <= NextAt(a, p)
<1>1. CASE p \notin Live(a)
  BY <1>1 DEF Fits
<1>2. CASE p \in Live(a)
  <2> DEFINE S == Earlier(a, n, p)
  <2>1. S \in SUBSET (0 .. p - 1) /\ p \in Nat
    BY DEF Earlier, Chained, ArrayRecord
  <2>2. NextAt(a, p) = Highest(S)
    BY <1>2 DEF Hashed
  <2>3. S = {q \in Chained(a, n, BucketOf(KeyAt(a, p), n)) : q < p}
    BY DEF Earlier
  <2> HIDE DEF S
  <2>4. /\ S = {} => Highest(S) = -1
        /\ S # {} => Highest(S) \in S /\ \A q \in S : q <= Highest(S)
    BY <2>1, HighestIs
  <2>5. CASE S = {}
    BY <2>1, <2>2, <2>3, <2>4, <2>5
  <2>6. CASE S # {}
    BY <2>1, <2>2, <2>3, <2>4, <2>6
  <2> QED
    BY <2>5, <2>6
<1> QED
  BY <1>1, <1>2

\* The walk along the chain that starts at p: it finds the key if an entry of
\* the chain up to p has it.
Reaches(a, n, b, key, p, found) ==
    \/ found = -1 /\ \A q \in Chained(a, n, b) : q <= p => KeyAt(a, q) # key
    \/ found \in Live(a) /\ KeyAt(a, found) = key

LEMMA WalkFinds ==
  ASSUME NEW a \in ArrayRecord, Fits(a), NEW n \in Nat, n # 0, Hashed(a, n),
         NEW key \in Keys, NEW b, b = BucketOf(key, n),
         NEW first \in -1 .. a.used - 1, first = -1 \/ first \in Chained(a, n, b)
  PROVE  Reaches(a, n, b, key, first, ChainFrom(a, first, key))
<1> DEFINE hi == a.used - 1
           Body(f, p) == IF p = EMPTY_BUCKET THEN EMPTY_BUCKET
                         ELSE IF a.entries[p + 1].key = key THEN p
                         ELSE IF a.entries[p + 1].next >= p THEN EMPTY_BUCKET
                         ELSE f[a.entries[p + 1].next]
           Upto(x) == \E f : f = [m \in -1 .. x |-> Body(f, m)]
           F == CHOOSE f : f = [m \in -1 .. hi |-> Body(f, m)]
<1>0. a.used \in Nat
  BY DEF ArrayRecord
<1>1. Upto(hi)
  <2> SUFFICES ASSUME ~Upto(hi) PROVE FALSE
    OBVIOUS
  <2> DEFINE S == {k \in Nat : k <= a.used /\ ~Upto(k - 1)}
  <2>1. a.used \in S
    BY <1>0
  <2> HIDE DEF Upto
  <2>2. PICK k \in S : \A j \in S : k <= j
    BY <2>1, Least
  <2>3. k # 0
    <3> DEFINE g == [m \in -1 .. -1 |-> -1]
    <3>1. g = [m \in -1 .. -1 |-> Body(g, m)]
      BY DEF EMPTY_BUCKET
    <3>2. Upto(0 - 1)
      BY <3>1 DEF Upto
    <3> QED
      BY <3>2, <2>2
  <2> DEFINE x == k - 1
  <2>4. x \in Nat /\ x <= hi
    BY <1>0, <2>2, <2>3
  <2>5. Upto(x - 1)
    <3>1. x \notin S /\ x <= a.used
      BY <1>0, <2>2, <2>4
    <3> QED
      BY <3>1, <2>4
  <2>6. PICK f : f = [m \in -1 .. x - 1 |-> Body(f, m)]
    BY <2>5 DEF Upto
  <2> DEFINE last == Body(f, x)
             g == [m \in -1 .. x |-> IF m = x THEN last ELSE f[m]]
  <2> HIDE DEF Body
  <2>7. \A m \in -1 .. x : Body(g, m) = g[m]
    <3> SUFFICES ASSUME NEW m \in -1 .. x PROVE Body(g, m) = g[m]
      OBVIOUS
    <3>1. Body(g, m) = Body(f, m)
      <4>1. CASE m = -1
        BY <4>1 DEF Body, EMPTY_BUCKET
      <4>2. CASE m # -1
        <5>1. m \in 0 .. a.used - 1
          BY <4>2, <2>4, <1>0
        <5>2. NextAt(a, m) \in -1 .. m - 1
          BY <5>1, LinksDescend
        <5>3. g[NextAt(a, m)] = f[NextAt(a, m)]
          BY <5>2, <2>4
        <5> QED
          BY <5>3 DEF Body, NextAt
      <4> QED
        BY <4>1, <4>2
    <3>2. CASE m = x
      BY <3>1, <3>2
    <3>3. CASE m # x
      <4>1. m \in -1 .. x - 1
        BY <3>3, <2>4
      <4>2. f[m] = Body(f, m)
        BY <2>6, <4>1
      <4> QED
        BY <3>1, <3>3, <4>2
    <3> QED
      BY <3>2, <3>3
  <2>8. g = [m \in -1 .. x |-> Body(g, m)]
    BY <2>7
  <2>9. Upto(x)
    BY <2>8 DEF Upto
  <2> QED
    BY <2>9, <2>2
<1>2. F = [m \in -1 .. hi |-> Body(F, m)]
  <2> HIDE DEF Body
  <2> QED
    BY <1>1
<1>3. ChainFrom(a, first, key) = F[first]
  BY DEF ChainFrom
<1> HIDE DEF F
<1>4. ASSUME NEW p \in -1 .. hi, p = -1 \/ p \in Chained(a, n, b)
      PROVE  Reaches(a, n, b, key, p, F[p])
  <2> SUFFICES ASSUME ~Reaches(a, n, b, key, p, F[p]) PROVE FALSE
    OBVIOUS
  <2> DEFINE Bad(q) == (q = -1 \/ q \in Chained(a, n, b)) /\ ~Reaches(a, n, b, key, q, F[q])
             S == {k \in Nat : k <= a.used /\ Bad(k - 1)}
  <2>1. p + 1 \in S
    BY <1>0, <1>4
  <2> HIDE DEF Bad
  <2>2. PICK k \in S : \A j \in S : k <= j
    BY <2>1, Least
  <2> DEFINE m == k - 1
  <2>3. m \in -1 .. hi /\ Bad(m) /\ F[m] = Body(F, m)
    <3>1. m \in -1 .. hi /\ Bad(m)
      BY <1>0, <2>2
    <3> HIDE DEF m, Body
    <3> QED
      BY <3>1, <1>2
  <2>4. m # -1
    <3> SUFFICES ASSUME m = -1 PROVE FALSE
      OBVIOUS
    <3>1. F[-1] = -1
      BY <2>3 DEF EMPTY_BUCKET
    <3>2. \A q \in Chained(a, n, b) : ~(q <= -1)
      BY <1>0 DEF Chained
    <3>3. Reaches(a, n, b, key, -1, F[-1])
      BY <3>1, <3>2 DEF Reaches
    <3> QED
      BY <3>3, <2>3 DEF Bad
  <2>5. m \in 0 .. a.used - 1 /\ m \in Chained(a, n, b)
    BY <2>3, <2>4, <1>0 DEF Bad
  <2>6. m \in Live(a) /\ BucketOf(KeyAt(a, m), n) = b
    BY <2>5 DEF Chained, Live, KeyAt
  <2> DEFINE q == NextAt(a, m)
  <2>7. /\ q \in -1 .. m - 1
        /\ q = -1 \/ q \in Chained(a, n, b)
        /\ \A r \in Chained(a, n, b) : r < m => r <= q
    BY <2>5, <2>6, LinksDescend
  <2> HIDE DEF q
  <2>8. F[m] = IF KeyAt(a, m) = key THEN m ELSE F[q]
    BY <2>3, <2>4, <2>7 DEF EMPTY_BUCKET, KeyAt, NextAt, q
  <2>9. CASE KeyAt(a, m) = key
    <3>1. Reaches(a, n, b, key, m, F[m])
      BY <2>6, <2>8, <2>9 DEF Reaches
    <3> QED
      BY <3>1, <2>3 DEF Bad
  <2>10. CASE KeyAt(a, m) # key
    <3>1. ~Bad(q)
      <4>1. q + 1 \in Nat /\ q + 1 <= a.used /\ ~(k <= q + 1) /\ (q + 1) - 1 = q
        BY <2>2, <2>7, <2>3, <1>0
      <4> QED
        BY <4>1, <2>2
    <3>2. Reaches(a, n, b, key, q, F[q])
      BY <3>1, <2>7 DEF Bad
    <3>3. \A r \in Chained(a, n, b) : r <= m => r = m \/ r <= q
      BY <2>3, <2>7, <1>0 DEF Chained
    <3> HIDE DEF m
    <3>4. F[m] = F[q]
      BY <2>8, <2>10
    <3>5. Reaches(a, n, b, key, m, F[m])
      BY <3>2, <3>3, <3>4, <2>10 DEF Reaches
    <3> QED
      BY <3>5, <2>3 DEF Bad
  <2> QED
    BY <2>9, <2>10
<1> QED
  BY <1>3, <1>4

\* find_entry() finds the entry of a key, if the array has one.
LEMMA FindEntry ==
  ASSUME NEW a, Sound(a), NEW key \in Keys
  PROVE  \/ find_entry(a, key) = -1 /\ \A p \in Live(a) : KeyAt(a, p) # key
         \/ find_entry(a, key) \in Live(a) /\ KeyAt(a, find_entry(a, key)) = key
<1>0. a \in ArrayRecord /\ a.used \in Nat /\ Fits(a)
  BY DEF Sound, ArrayRecord
<1>1. CASE a.packed
  <2>1. AsList(a)
    BY <1>1 DEF Sound
  <2>2. find_entry(a, key) = IF key[1] = "int" /\ key[2] >= 0 /\ key[2] < a.used
                             THEN key[2] ELSE -1
    BY <1>1 DEF find_entry, EMPTY_BUCKET
  <2>3. \A p \in 0 .. a.used - 1 : p \in Live(a) /\ KeyAt(a, p) = <<"int", p>>
    BY <2>1 DEF AsList, Live, KeyAt, Tombstone
  <2>4. CASE key[1] = "int" /\ key[2] >= 0 /\ key[2] < a.used
    <3>1. key = <<"int", key[2]>> /\ key[2] \in 0 .. a.used - 1
      BY <2>4, <1>0, KeyShapes, MaximumAssumption DEF Integer, PPHP_INT_MINIMUM
    <3> QED
      BY <3>1, <2>2, <2>3, <2>4
  <2>5. CASE ~(key[1] = "int" /\ key[2] >= 0 /\ key[2] < a.used)
    <3>1. ASSUME NEW p \in Live(a), KeyAt(a, p) = key PROVE FALSE
      <4>1. p \in 0 .. a.used - 1 /\ key = <<"int", p>>
        BY <3>1, <2>3 DEF Live
      <4> QED
        BY <4>1, <2>5, <1>0
    <3> QED
      BY <3>1, <2>2, <2>5
  <2> QED
    BY <2>4, <2>5
<1>2. CASE ~a.packed
  <2>1. PICK n \in MinBuckets .. UINT16_LIMIT : Hashed(a, n)
    BY <1>2 DEF Sound, AsHash
  <2>2. n \in Nat /\ n # 0 /\ n - 1 >= 0
    BY LimitsAssumption
  <2> DEFINE b == BucketOf(key, n)
             first == Highest(Chained(a, n, b))
  <2>3. b \in 0 .. n - 1
    BY <2>2, BucketFits
  <2>4. BucketCount(a) = n /\ a.buckets # <<>>
    <3>1. DOMAIN a.buckets = 0 .. n - 1
      BY <2>1 DEF Hashed
    <3>2. 0 \in 0 .. n - 1
      BY <2>2
    <3>3. 0 \in DOMAIN a.buckets /\ 0 \notin DOMAIN <<>>
      BY <3>1, <3>2
    <3> QED
      BY <3>1, <3>3, <2>2, CountIs
  <2>5. find_entry(a, key) = ChainFrom(a, first, key)
    BY <1>2, <2>1, <2>3, <2>4 DEF find_entry, Hashed
  <2>6. Chained(a, n, b) \in SUBSET (0 .. a.used - 1)
    BY DEF Chained
  <2> HIDE DEF b
  <2>7. /\ first \in -1 .. a.used - 1
        /\ first = -1 \/ first \in Chained(a, n, b)
        /\ \A q \in Chained(a, n, b) : q <= first
    <3> DEFINE S == Chained(a, n, b)
    <3>1. /\ S = {} => Highest(S) = -1
          /\ S # {} => Highest(S) \in S /\ \A q \in S : q <= Highest(S)
      BY <2>6, <1>0, HighestIs
    <3>2. S \in SUBSET (0 .. a.used - 1)
      BY <2>6
    <3> HIDE DEF S
    <3>3. /\ Highest(S) \in -1 .. a.used - 1
          /\ Highest(S) = -1 \/ Highest(S) \in S
          /\ \A q \in S : q <= Highest(S)
      <4>1. CASE S = {}
        BY <3>1, <4>1, <1>0
      <4>2. CASE S # {}
        <5> DEFINE h == Highest(S)
        <5> HIDE DEF h
        <5>1. h \in S /\ \A q \in S : q <= h
          BY <3>1, <4>2 DEF h
        <5>2. h \in 0 .. a.used - 1
          BY <3>2, <5>1
        <5>3. h \in -1 .. a.used - 1
          BY <5>2, <1>0
        <5> QED
          BY <5>1, <5>3 DEF h
      <4> QED
        BY <4>1, <4>2
    <3> QED
      BY <3>3 DEF S
  <2> HIDE DEF first
  <2>8. Reaches(a, n, b, key, first, ChainFrom(a, first, key))
    BY <2>1, <2>2, <2>7, <1>0, WalkFinds DEF b
  <2>9. \A p \in Live(a) : KeyAt(a, p) = key => p \in Chained(a, n, b)
    BY DEF Live, KeyAt, Chained, b
  <2> QED
    BY <2>5, <2>7, <2>8, <2>9 DEF Reaches
<1> QED
  BY <1>1, <1>2

-----------------------------------------------------------------------------
(* Rebuilding the chains.                                                  *)

\* Two representations with the same keys, and of the same entries.
SameKeys(a, c) ==
    /\ c.used = a.used /\ c.size = a.size /\ c.next_index = a.next_index
    /\ \A p \in 0 .. a.used - 1 : KeyAt(c, p) = KeyAt(a, p)
SameEntries(a, c) ==
    /\ SameKeys(a, c)
    /\ \A p \in 0 .. a.used - 1 : Item(c, p) = Item(a, p)

LEMMA KeysCarryOver ==
  ASSUME NEW a, NEW c, a.used \in Nat, SameKeys(a, c)
  PROVE  /\ Live(c) = Live(a)
         /\ \A pos : Lists(a, pos) => Lists(c, pos)
         /\ Apart(a) => Apart(c)
         /\ Counted(a) => Counted(c)
         /\ \A n, b : Chained(c, n, b) = Chained(a, n, b)
         /\ \A n : \A p \in Live(a) : Earlier(c, n, p) = Earlier(a, n, p)
<1>1. Live(c) = Live(a)
  BY DEF Live, SameKeys, KeyAt
<1>2. ASSUME NEW pos, Lists(a, pos) PROVE Lists(c, pos)
  BY <1>1, <1>2 DEF Lists
<1>3. \A p \in Live(a) : KeyAt(c, p) = KeyAt(a, p)
  BY DEF Live, SameKeys
<1>4. Apart(a) => Apart(c)
  BY <1>1, <1>3 DEF Apart, SameKeys
<1>5. Counted(a) => Counted(c)
  BY <1>2 DEF Counted, SameKeys
<1>6. ASSUME NEW n, NEW b PROVE Chained(c, n, b) = Chained(a, n, b)
  BY DEF Chained, SameKeys, KeyAt
<1>7. ASSUME NEW n, NEW p \in Live(a) PROVE Earlier(c, n, p) = Earlier(a, n, p)
  BY <1>3, <1>6 DEF Earlier
<1> QED
  BY <1>1, <1>2, <1>4, <1>5, <1>6, <1>7

LEMMA CarryOver ==
  ASSUME NEW a, NEW c, a.used \in Nat, SameEntries(a, c)
  PROVE  /\ Live(c) = Live(a)
         /\ \A pos : Lists(a, pos) => Lists(c, pos) /\ ItemsAt(c, pos) = ItemsAt(a, pos)
         /\ Apart(a) => Apart(c)
         /\ Counted(a) => Counted(c)
         /\ \A n, b : Chained(c, n, b) = Chained(a, n, b)
<1>1. SameKeys(a, c)
  BY DEF SameEntries
<1>2. ASSUME NEW pos, Lists(a, pos)
      PROVE  Lists(c, pos) /\ ItemsAt(c, pos) = ItemsAt(a, pos)
  <2>1. Lists(c, pos)
    BY <1>1, <1>2, KeysCarryOver
  <2>2. \A m \in 1 .. Len(pos) : Item(c, pos[m]) = Item(a, pos[m])
    BY <1>2 DEF Lists, Live, SameEntries
  <2> QED
    BY <2>1, <2>2 DEF ItemsAt
<1> QED
  BY <1>1, <1>2, KeysCarryOver

\* Iterating the same entries gives the same items.
LEMMA SameElements ==
  ASSUME NEW a, NEW c, a.used \in Nat, Counted(a), SameEntries(a, c)
  PROVE  Elements(c) = Elements(a)
<1>1. PICK pos : Lists(a, pos)
  BY DEF Counted
<1>2. Lists(c, pos) /\ ItemsAt(c, pos) = ItemsAt(a, pos)
  BY <1>1, CarryOver
<1>3. c.used \in Nat
  BY DEF SameEntries, SameKeys
<1> QED
  BY <1>1, <1>2, <1>3, ElementsAre

LEMMA RehashIs ==
  ASSUME NEW a \in ArrayRecord, Fits(a), NEW count \in Nat
  PROVE  LET c == rehash(a, count)
             n == IF count < MinBuckets THEN MinBuckets ELSE count
         IN  /\ c \in ArrayRecord /\ Fits(c) /\ ~c.packed /\ c.capacity = a.capacity
             /\ SameEntries(a, c) /\ Hashed(c, n)
<1> DEFINE n == IF count < MinBuckets THEN MinBuckets ELSE count
           link(i) == Highest({p \in Chained(a, n, BucketOf(a.entries[i].key, n)) : p < i - 1})
           entry(i) == IF a.entries[i].key = Tombstone THEN a.entries[i]
                       ELSE [a.entries[i] EXCEPT !.next = link(i)]
           heads == [b \in 0 .. n - 1 |-> Highest(Chained(a, n, b))]
           c == rehash(a, count)
<1>0. n \in Nat /\ a.used \in Nat /\ a.entries \in Seq(Entry) /\ a.used = Len(a.entries)
  BY LimitsAssumption DEF ArrayRecord, Entries, Fits
<1>1. c = [a EXCEPT !.packed = FALSE, !.buckets = heads,
                    !.entries = [i \in 1 .. a.used |-> entry(i)]]
  BY DEF rehash
<1>2. /\ c.packed = FALSE /\ c.size = a.size /\ c.used = a.used /\ c.capacity = a.capacity
      /\ c.next_index = a.next_index /\ c.buckets = heads
      /\ c.entries = [i \in 1 .. a.used |-> entry(i)]
  BY <1>1 DEF ArrayRecord
<1>3. c = [packed |-> FALSE, size |-> a.size, used |-> a.used, capacity |-> a.capacity,
           next_index |-> a.next_index, entries |-> [i \in 1 .. a.used |-> entry(i)],
           buckets |-> heads]
  BY <1>1 DEF ArrayRecord
<1>4. ASSUME NEW S \in SUBSET (0 .. a.used - 1) PROVE Highest(S) \in Int
  <2>1. Highest(S) \in -1 .. a.used - 1
    BY <1>0, HighestFits
  <2> QED
    BY <2>1
<1>5. heads \in BucketVectors
  <2>1. \A b \in 0 .. n - 1 : Highest(Chained(a, n, b)) \in Int
    BY <1>4 DEF Chained
  <2>2. heads \in [0 .. n - 1 -> Int]
    BY <2>1
  <2> QED
    BY <2>2, <1>0 DEF BucketVectors
<1>6. ASSUME NEW i \in 1 .. a.used
      PROVE  /\ entry(i) \in Entry /\ entry(i).key = a.entries[i].key
             /\ entry(i).value = a.entries[i].value
             /\ entry(i).next = IF a.entries[i].key = Tombstone THEN a.entries[i].next
                                ELSE link(i)
  <2>1. a.entries[i] \in Entry
    BY <1>0
  <2>2. link(i) \in Int
    BY <1>4 DEF Chained
  <2> DEFINE l == link(i)
             e == a.entries[i]
  <2> HIDE DEF l, e
  <2>3. l \in Int /\ e \in Entry
    BY <2>1, <2>2 DEF l, e
  <2>4. [e EXCEPT !.next = l] \in Entry /\ [e EXCEPT !.next = l].key = e.key
        /\ [e EXCEPT !.next = l].value = e.value /\ [e EXCEPT !.next = l].next = l
    BY <2>3 DEF Entry
  <2> QED
    BY <2>3, <2>4 DEF l, e
<1> HIDE DEF heads, link, entry, c, n
<1>7. c.entries \in Seq(Entry) /\ Len(c.entries) = a.used
  BY <1>0, <1>2, <1>6
<1>8. c \in ArrayRecord
  <2> DEFINE es == c.entries
  <2> HIDE DEF es
  <2>1. c = [packed |-> FALSE, size |-> a.size, used |-> a.used, capacity |-> a.capacity,
             next_index |-> a.next_index, entries |-> es, buckets |-> heads]
    BY <1>2, <1>3 DEF es
  <2>2. es \in Entries
    BY <1>7 DEF es, Entries
  <2> QED
    BY <2>1, <2>2, <1>5 DEF ArrayRecord
<1>9. \A p \in 0 .. a.used - 1 :
         /\ KeyAt(c, p) = KeyAt(a, p) /\ Item(c, p) = Item(a, p)
         /\ NextAt(c, p) = IF KeyAt(a, p) = Tombstone THEN NextAt(a, p) ELSE link(p + 1)
  BY <1>0, <1>2, <1>6 DEF KeyAt, Item, NextAt
<1>10. SameEntries(a, c)
  BY <1>2, <1>9 DEF SameEntries, SameKeys
<1>11. Fits(c)
  <2>1. \A p \in 0 .. a.used - 1 : p \notin Live(a) => KeyAt(a, p) = Tombstone /\ NextAt(a, p) = -1
    BY DEF Fits, Live, KeyAt
  <2>2. Live(c) = Live(a)
    BY <1>0, <1>10, CarryOver
  <2> QED
    BY <1>2, <1>7, <1>9, <2>1, <2>2 DEF Fits
<1>12. Hashed(c, n)
  <2>1. Live(c) = Live(a) /\ \A m, b : Chained(c, m, b) = Chained(a, m, b)
    BY <1>0, <1>10, CarryOver
  <2>2. c.buckets = [b \in 0 .. n - 1 |-> Highest(Chained(c, n, b))]
    BY <1>2, <2>1 DEF heads
  <2>3. ASSUME NEW p \in Live(c) PROVE NextAt(c, p) = Highest(Earlier(c, n, p))
    <3>1. p \in 0 .. a.used - 1 /\ KeyAt(a, p) # Tombstone
      BY <2>1 DEF Live, KeyAt
    <3>2. NextAt(c, p) = link(p + 1) /\ KeyAt(c, p) = KeyAt(a, p)
      BY <1>9, <3>1
    <3>3. (p + 1) - 1 = p
      BY <3>1
    <3>4. link(p + 1) = Highest({q \in Chained(a, n, BucketOf(KeyAt(a, p), n)) : q < p})
      BY <3>3 DEF link, KeyAt
    <3>5. Earlier(c, n, p) = {q \in Chained(a, n, BucketOf(KeyAt(a, p), n)) : q < p}
      BY <2>1, <3>2 DEF Earlier
    <3> QED
      BY <3>2, <3>4, <3>5
  <2> QED
    BY <2>2, <2>3 DEF Hashed
<1> QED
  BY <1>2, <1>8, <1>10, <1>11, <1>12 DEF c, n

\* A rehash keeps the array sound, if it makes room enough.
LEMMA RehashSound ==
  ASSUME NEW a, a \in ArrayRecord, Fits(a), Apart(a), Counted(a), NEW count \in Nat,
         count <= UINT16_LIMIT, a.size * 4 <= count * 3
  PROVE  LET c == rehash(a, count)
         IN  /\ Sound(c) /\ ~c.packed /\ SameEntries(a, c) /\ Elements(c) = Elements(a)
             /\ c.capacity = a.capacity /\ BucketCount(c) >= count
<1> DEFINE n == IF count < MinBuckets THEN MinBuckets ELSE count
           c == rehash(a, count)
<1>0. a.used \in Nat /\ a.size \in Nat
  BY DEF ArrayRecord
<1>1. /\ c \in ArrayRecord /\ Fits(c) /\ ~c.packed /\ c.capacity = a.capacity
      /\ SameEntries(a, c) /\ Hashed(c, n)
  BY RehashIs
<1>2. n \in MinBuckets .. UINT16_LIMIT /\ n >= count /\ n \in Nat
  BY LimitsAssumption
<1> HIDE DEF n, c
<1>3. c.size * 4 <= n * 3
  BY <1>0, <1>1, <1>2 DEF SameEntries, SameKeys
<1>4. Apart(c) /\ Counted(c) /\ Elements(c) = Elements(a)
  BY <1>0, <1>1, CarryOver, SameElements
<1>5. BucketCount(c) = n
  BY <1>1, <1>2, CountIs DEF Hashed
<1>6. Sound(c)
  BY <1>1, <1>2, <1>3, <1>4 DEF Sound, AsHash
<1> QED
  BY <1>1, <1>2, <1>4, <1>5, <1>6 DEF c

\* There are at least as many positions as listed ones.
LEMMA ListedFit ==
  ASSUME NEW a, a.used \in Nat, NEW pos, Lists(a, pos)
  PROVE  Len(pos) <= a.used
<1>1. Len(pos) \in Nat /\ \A i \in 1 .. Len(pos) : pos[i] \in 0 .. a.used - 1
  BY DEF Lists, Live
<1>2. ASSUME NEW i \in 1 .. Len(pos) PROVE pos[i] >= i - 1
  <2> SUFFICES ASSUME ~(pos[i] >= i - 1) PROVE FALSE
    OBVIOUS
  <2> DEFINE S == {k \in 1 .. Len(pos) : ~(pos[k] >= k - 1)}
  <2>1. S \in SUBSET Nat /\ i \in S
    BY <1>1
  <2>2. PICK k \in S : \A j \in S : k <= j
    BY <2>1, Least
  <2>3. k \in 1 .. Len(pos) /\ pos[k] \in Nat /\ pos[k] < k - 1
    BY <1>1, <2>2
  <2>4. k - 1 \in 1 .. Len(pos) /\ k - 1 < k
    BY <1>1, <2>3
  <2>5. k - 1 \notin S
    BY <2>2, <2>3, <2>4
  <2>6. pos[k - 1] >= (k - 1) - 1
    BY <2>4, <2>5
  <2>7. pos[k - 1] < pos[k] /\ pos[k - 1] \in Nat
    <3>1. \A x, y \in 1 .. Len(pos) : x < y => pos[x] < pos[y]
      BY DEF Lists
    <3>2. pos[k - 1] < pos[k]
      BY <2>3, <2>4, <3>1
    <3>3. pos[k - 1] \in 0 .. a.used - 1
      BY <1>1, <2>4
    <3> QED
      BY <3>2, <3>3
  <2> QED
    BY <2>3, <2>6, <2>7
<1>3. CASE Len(pos) = 0
  BY <1>3
<1>4. CASE Len(pos) # 0
  <2>1. Len(pos) \in 1 .. Len(pos)
    BY <1>1, <1>4
  <2>2. pos[Len(pos)] >= Len(pos) - 1 /\ pos[Len(pos)] \in 0 .. a.used - 1
    BY <1>1, <1>2, <2>1
  <2> QED
    BY <1>1, <2>2
<1> QED
  BY <1>3, <1>4

LEMMA SizeFits ==
  ASSUME NEW a, Sound(a)
  PROVE  /\ a.size \in 0 .. a.used /\ a.used \in Nat /\ a.used <= UINT16_LIMIT
         /\ a.used <= a.capacity
<1>1. a.size \in Nat /\ a.used \in Nat /\ a.capacity \in Nat
  BY DEF Sound, ArrayRecord
<1>2. a.used <= a.capacity /\ a.capacity <= UINT16_LIMIT
  BY DEF Sound, Fits
<1>3. a.size <= a.used
  BY <1>1, ListedFit DEF Sound, Counted
<1> QED
  BY <1>1, <1>2, <1>3, LimitsAssumption

\* The buckets promote_hash() doubles to are twice as many as the elements.
Enough(size) ==
    \E n \in PowersOfTwo, m \in Nat :
        /\ 2 * size <= MinBuckets * n
        /\ n = 1 \/ (n = 2 * m /\ MinBuckets * m < 2 * size)

LEMMA OneDoubling ==
  ASSUME NEW size \in Nat, NEW k \in Nat, 2 * k \in PowersOfTwo,
         2 * size <= MinBuckets * k => Enough(size)
  PROVE  2 * size <= MinBuckets * (2 * k) => Enough(size)
<1>1. MinBuckets \in Nat /\ MinBuckets * k \in Nat
  BY LimitsAssumption
<1>2. CASE 2 * size <= MinBuckets * k
  BY <1>2
<1>3. CASE ~(2 * size <= MinBuckets * k)
  <2>1. MinBuckets * k < 2 * size
    BY <1>1, <1>3
  <2> QED
    BY <2>1 DEF Enough
<1> QED
  BY <1>2, <1>3

LEMMA EnoughBuckets ==
  ASSUME NEW size \in Nat, size <= UINT16_LIMIT
  PROVE  Enough(size)
<1>0. MinBuckets \in Nat
  BY LimitsAssumption
<1> DEFINE P(k) == 2 * size <= MinBuckets * k => Enough(size)
<1>1. P(1)
  BY DEF Enough, PowersOfTwo
<1>2. \A k \in Nat : 2 * k \in PowersOfTwo /\ P(k) => P(2 * k)
  BY OneDoubling
<1> HIDE DEF P
<1>3. P(2) /\ P(4) /\ P(8) /\ P(16)
  <2>1. P(2 * 1)
    BY <1>1, <1>2 DEF PowersOfTwo
  <2>2. P(2 * 2)
    BY <2>1, <1>2 DEF PowersOfTwo
  <2>3. P(2 * 4)
    BY <2>2, <1>2 DEF PowersOfTwo
  <2>4. P(2 * 8)
    BY <2>3, <1>2 DEF PowersOfTwo
  <2> QED
    BY <2>1, <2>2, <2>3, <2>4
<1>4. P(32) /\ P(64) /\ P(128) /\ P(256)
  <2>1. P(2 * 16)
    BY <1>3, <1>2 DEF PowersOfTwo
  <2>2. P(2 * 32)
    BY <2>1, <1>2 DEF PowersOfTwo
  <2>3. P(2 * 64)
    BY <2>2, <1>2 DEF PowersOfTwo
  <2>4. P(2 * 128)
    BY <2>3, <1>2 DEF PowersOfTwo
  <2> QED
    BY <2>1, <2>2, <2>3, <2>4
<1>5. P(512) /\ P(1024) /\ P(2048) /\ P(4096)
  <2>1. P(2 * 256)
    BY <1>4, <1>2 DEF PowersOfTwo
  <2>2. P(2 * 512)
    BY <2>1, <1>2 DEF PowersOfTwo
  <2>3. P(2 * 1024)
    BY <2>2, <1>2 DEF PowersOfTwo
  <2>4. P(2 * 2048)
    BY <2>3, <1>2 DEF PowersOfTwo
  <2> QED
    BY <2>1, <2>2, <2>3, <2>4
<1>6. P(8192) /\ P(16384) /\ P(32768) /\ P(65536)
  <2>1. P(2 * 4096)
    BY <1>5, <1>2 DEF PowersOfTwo
  <2>2. P(2 * 8192)
    BY <2>1, <1>2 DEF PowersOfTwo
  <2>3. P(2 * 16384)
    BY <2>2, <1>2 DEF PowersOfTwo
  <2>4. P(2 * 32768)
    BY <2>3, <1>2 DEF PowersOfTwo
  <2> QED
    BY <2>1, <2>2, <2>3, <2>4
<1>7. 2 * size <= MinBuckets * 65536
  BY <1>0, LimitsAssumption
<1> QED
  BY <1>6, <1>7 DEF P

LEMMA PromotedIs ==
  ASSUME NEW a, a.size \in Nat, a.size <= UINT16_LIMIT
  PROVE  PromotedBuckets(a) \in Nat /\ 2 * a.size <= PromotedBuckets(a)
<1>1. PICK n \in PowersOfTwo, m \in Nat :
         /\ 2 * a.size <= MinBuckets * n
         /\ n = 1 \/ (n = 2 * m /\ MinBuckets * m < 2 * a.size)
  BY EnoughBuckets DEF Enough
<1> DEFINE b == MinBuckets * n
           B == {MinBuckets * k : k \in PowersOfTwo}
<1>2. MinBuckets \in Nat /\ PowersOfTwo \subseteq Nat
  BY LimitsAssumption DEF PowersOfTwo
<1>3. b \in B /\ b \in Nat /\ b >= 2 * a.size
  BY <1>1, <1>2
<1>4. b > MinBuckets => b \div 2 < 2 * a.size
  <2>1. CASE n = 1
    BY <1>2, <2>1
  <2>2. CASE n # 1
    <3> DEFINE x == MinBuckets * m
    <3>1. x \in Nat /\ b = 2 * x /\ x < 2 * a.size
      BY <1>1, <1>2, <2>2
    <3> HIDE DEF x, b
    <3> QED
      BY <3>1
  <2> QED
    BY <2>1, <2>2
<1>5. \E k \in B : k >= 2 * a.size /\ (k > MinBuckets => k \div 2 < 2 * a.size)
  BY <1>3, <1>4
<1>6. PromotedBuckets(a) \in B /\ PromotedBuckets(a) >= 2 * a.size
  BY <1>5 DEF PromotedBuckets
<1>7. B \subseteq Nat
  BY <1>2
<1> HIDE DEF B
<1> QED
  BY <1>6, <1>7

\* A packed array that becomes a hash keeps its items and has room for one more.
LEMMA PromoteSound ==
  ASSUME NEW a, Sound(a), ~TooManyBuckets(PromotedBuckets(a))
  PROVE  LET c == promote_hash(a)
         IN  /\ Sound(c) /\ ~c.packed /\ SameEntries(a, c) /\ Elements(c) = Elements(a)
             /\ c.capacity = a.capacity
<1> DEFINE n == PromotedBuckets(a)
<1>1. n \in Nat /\ 2 * a.size <= n /\ a.size \in Nat
  BY SizeFits, PromotedIs, LimitsAssumption
<1>2. n <= UINT16_LIMIT
  BY <1>1, LimitsAssumption DEF TooManyBuckets
<1>3. a \in ArrayRecord /\ Fits(a) /\ Apart(a) /\ Counted(a)
  BY DEF Sound
<1> HIDE DEF n
<1>4. a.size * 4 <= n * 3
  BY <1>1
<1>5. /\ Sound(rehash(a, n)) /\ ~rehash(a, n).packed /\ SameEntries(a, rehash(a, n))
      /\ Elements(rehash(a, n)) = Elements(a) /\ rehash(a, n).capacity = a.capacity
  BY <1>1, <1>2, <1>3, <1>4, RehashSound
<1> QED
  BY <1>5 DEF promote_hash, n

-----------------------------------------------------------------------------
(* Inserting.                                                              *)

\* ensure_entries() changes nothing but the capacity.
LEMMA EnsureIs ==
  ASSUME NEW a \in ArrayRecord, a.capacity <= UINT16_LIMIT, NEW m \in Nat, ~CannotGrow(a, m)
  PROVE  LET g == ensure_entries(a, m)
         IN  /\ g \in ArrayRecord /\ g.packed = a.packed /\ g.size = a.size /\ g.used = a.used
             /\ g.next_index = a.next_index /\ g.entries = a.entries /\ g.buckets = a.buckets
             /\ m <= g.capacity /\ a.capacity <= g.capacity /\ g.capacity <= UINT16_LIMIT
<1> DEFINE g == ensure_entries(a, m)
           w == GrownCapacity(a, m)
<1>1. a.capacity \in Nat
  BY DEF ArrayRecord
<1>2. CASE ~NeedsEntries(a, m)
  <2>1. g = a /\ m <= a.capacity
    BY <1>1, <1>2 DEF ensure_entries, NeedsEntries
  <2> QED
    BY <1>1, <2>1
<1>3. CASE NeedsEntries(a, m)
  <2>1. w # 0 /\ m > a.capacity
    BY <1>3 DEF CannotGrow, NeedsEntries
  <2>2. w \in Nat /\ m <= w /\ w <= UINT16_LIMIT
    BY <1>1, <2>1, LimitsAssumption DEF GrownCapacity
  <2>3. g = [a EXCEPT !.capacity = w]
    BY <1>3 DEF ensure_entries
  <2> HIDE DEF w
  <2> QED
    BY <1>1, <2>1, <2>2, <2>3 DEF ArrayRecord
<1> QED
  BY <1>2, <1>3

NewEntry(a, key, value) ==
    [key |-> key, value |-> value,
     next |-> IF a.packed THEN -1 ELSE a.buckets[BucketOf(key, BucketCount(a))]]
NextIndex(next, key) ==
    IF key[1] = "int" /\ key[2] >= next /\ key[2] < PPHP_INT_MAXIMUM THEN key[2] + 1 ELSE next

LEMMA InsertIs ==
  ASSUME NEW a \in ArrayRecord, a.capacity <= UINT16_LIMIT, ~CannotGrow(a, a.used + 1),
         NEW key, NEW value
  PROVE  LET c == Insert(a, key, value)
         IN  /\ c = [packed |-> c.packed, size |-> c.size, used |-> c.used,
                     capacity |-> c.capacity, next_index |-> c.next_index,
                     entries |-> c.entries, buckets |-> c.buckets]
             /\ c.packed = a.packed /\ c.size = a.size + 1 /\ c.used = a.used + 1
             /\ c.capacity \in Nat /\ a.used + 1 <= c.capacity /\ c.capacity <= UINT16_LIMIT
             /\ c.entries = Append(a.entries, NewEntry(a, key, value))
             /\ c.next_index = NextIndex(a.next_index, key)
             /\ a.packed => c.buckets = a.buckets
             /\ ~a.packed => c.buckets = [a.buckets EXCEPT ![BucketOf(key, BucketCount(a))] = a.used]
<1> DEFINE g == ensure_entries(a, a.used + 1)
           e == NewEntry(a, key, value)
           b == BucketOf(key, BucketCount(a))
           heads == [a.buckets EXCEPT ![b] = a.used]
           next == NextIndex(a.next_index, key)
           c == Insert(a, key, value)
<1>1. a.used \in Nat
  BY DEF ArrayRecord
<1>2. /\ g \in ArrayRecord /\ g.packed = a.packed /\ g.size = a.size /\ g.used = a.used
      /\ g.next_index = a.next_index /\ g.entries = a.entries /\ g.buckets = a.buckets
      /\ a.used + 1 <= g.capacity /\ g.capacity <= UINT16_LIMIT
  BY <1>1, EnsureIs
<1>3. c = [g EXCEPT !.used = a.used + 1, !.size = a.size + 1, !.entries = Append(a.entries, e),
                    !.buckets = IF a.packed THEN a.buckets ELSE heads,
                    !.next_index = next]
  <2>1. c = [g EXCEPT !.used = g.used + 1, !.size = g.size + 1, !.entries = Append(g.entries, e),
                    !.buckets = IF a.packed THEN g.buckets ELSE [g.buckets EXCEPT ![b] = a.used],
                    !.next_index = NextIndex(g.next_index, key)]
    BY Zenon DEF Insert, NewEntry, NextIndex, EMPTY_BUCKET
  <2> QED
    BY <2>1, <1>2, Zenon
<1> HIDE DEF g, e, heads, next
<1> DEFINE es == Append(a.entries, e)
           bs == IF a.packed THEN a.buckets ELSE heads
<1>4. c = [g EXCEPT !.used = a.used + 1, !.size = a.size + 1, !.entries = es,
                    !.buckets = bs, !.next_index = next]
  BY <1>3
<1> HIDE DEF es, bs, c
<1>5. c = [packed |-> g.packed, size |-> a.size + 1, used |-> a.used + 1,
           capacity |-> g.capacity, next_index |-> next, entries |-> es, buckets |-> bs]
  BY <1>2, <1>4 DEF ArrayRecord
<1>6. /\ c = [packed |-> c.packed, size |-> c.size, used |-> c.used, capacity |-> c.capacity,
              next_index |-> c.next_index, entries |-> c.entries, buckets |-> c.buckets]
      /\ c.packed = g.packed /\ c.size = a.size + 1 /\ c.used = a.used + 1
      /\ c.capacity = g.capacity /\ c.next_index = next /\ c.entries = es /\ c.buckets = bs
  BY <1>5
<1>7. g.capacity \in Nat
  BY <1>2 DEF ArrayRecord
<1>8. (a.packed => bs = a.buckets) /\ (~a.packed => bs = heads)
  BY DEF bs
<1> QED
  BY <1>2, <1>6, <1>7, <1>8 DEF c, es, e, heads, next

\* c has one entry more than a, at the end.
Extends(a, c, key, value) ==
    /\ c.used = a.used + 1 /\ c.size = a.size + 1
    /\ \A p \in 0 .. a.used - 1 : /\ KeyAt(c, p) = KeyAt(a, p) /\ Item(c, p) = Item(a, p)
                                  /\ NextAt(c, p) = NextAt(a, p)
    /\ KeyAt(c, a.used) = key /\ Item(c, a.used) = <<key, value>>

LEMMA ExtendsLive ==
  ASSUME NEW a, NEW c, a.used \in Nat, NEW key \in Keys, NEW value, Extends(a, c, key, value)
  PROVE  Live(c) = Live(a) \cup {a.used} /\ a.used \notin Live(a)
<1>1. key # Tombstone
  BY KeyShapes
<1>2. \A p : p \in 0 .. c.used - 1 <=> p \in 0 .. a.used - 1 \/ p = a.used
  BY DEF Extends
<1>3. \A x, p : p \in Live(x) <=> p \in 0 .. x.used - 1 /\ KeyAt(x, p) # Tombstone
  BY DEF Live, KeyAt
<1>4. \A p \in 0 .. a.used - 1 : KeyAt(c, p) = KeyAt(a, p)
  BY DEF Extends
<1>5. KeyAt(c, a.used) = key /\ a.used \notin 0 .. a.used - 1
  BY DEF Extends
<1> QED
  BY <1>1, <1>2, <1>3, <1>4, <1>5

LEMMA ExtendsLists ==
  ASSUME NEW a, NEW c, a.used \in Nat, a.size \in Nat, NEW key \in Keys, NEW value,
         Extends(a, c, key, value), Counted(a)
  PROVE  Counted(c) /\ Elements(c) = Append(Elements(a), <<key, value>>)
<1>1. PICK pos : Lists(a, pos) /\ Len(pos) = a.size
  BY DEF Counted
<1>2. Live(c) = Live(a) \cup {a.used} /\ \A p \in Live(a) : p \in 0 .. a.used - 1
  BY ExtendsLive DEF Live
<1> DEFINE longer == Append(pos, a.used)
           n == Len(pos)
<1>3. pos \in Seq(Nat) /\ n \in Nat
  BY <1>1 DEF Lists
<1>4. /\ longer \in Seq(Nat) /\ Len(longer) = n + 1 /\ longer[n + 1] = a.used
      /\ \A i \in 1 .. n : longer[i] = pos[i]
  BY <1>3
<1>5. \A i \in 1 .. n + 1 : i \in 1 .. n \/ i = n + 1
  BY <1>3
<1>6. \A i \in 1 .. n : pos[i] \in Live(a) /\ pos[i] < a.used /\ pos[i] \in Nat
  <2>1. \A i \in 1 .. n : pos[i] \in Live(a)
    BY <1>1 DEF Lists
  <2> QED
    BY <2>1, <1>2
<1>7. \A i, j \in 1 .. n : i < j => pos[i] < pos[j]
  BY <1>1 DEF Lists
<1>8. \A p \in Live(a) : \E i \in 1 .. n : pos[i] = p
  BY <1>1 DEF Lists
<1> HIDE DEF longer, n
<1>9. Lists(c, longer)
  <2>1. \A i, j \in 1 .. n + 1 : i < j => longer[i] < longer[j]
    <3> SUFFICES ASSUME NEW i \in 1 .. n + 1, NEW j \in 1 .. n + 1, i < j
                 PROVE  longer[i] < longer[j]
      OBVIOUS
    <3>1. i \in 1 .. n
      BY <1>3
    <3>2. CASE j = n + 1
      BY <3>1, <3>2, <1>4, <1>6
    <3>3. CASE j \in 1 .. n
      BY <3>1, <3>3, <1>4, <1>7
    <3> QED
      BY <3>2, <3>3, <1>5
  <2>2. \A i \in 1 .. n + 1 : longer[i] \in Live(c)
    BY <1>2, <1>4, <1>5, <1>6
  <2>3. ASSUME NEW p \in Live(c) PROVE \E i \in 1 .. n + 1 : longer[i] = p
    <3>1. CASE p = a.used
      <4>1. n + 1 \in 1 .. n + 1
        BY <1>3
      <4> QED
        BY <3>1, <4>1, <1>4
    <3>2. CASE p \in Live(a)
      <4>1. PICK i \in 1 .. n : pos[i] = p
        BY <3>2, <1>8
      <4>2. i \in 1 .. n + 1 /\ longer[i] = p
        BY <4>1, <1>3, <1>4
      <4> QED
        BY <4>2
    <3> QED
      BY <3>1, <3>2, <1>2
  <2> QED
    BY <1>4, <2>1, <2>2, <2>3 DEF Lists
<1>10. Len(longer) = c.size
  BY <1>1, <1>4 DEF Extends, n
<1>11. Counted(c)
  BY <1>9, <1>10 DEF Counted
<1>12. c.used \in Nat
  BY DEF Extends
<1>13. Elements(a) = ItemsAt(a, pos) /\ Elements(c) = ItemsAt(c, longer)
  BY <1>1, <1>9, <1>12, ElementsAre
<1>14. ItemsAt(c, longer) = Append(ItemsAt(a, pos), <<key, value>>)
  <2> DEFINE items == ItemsAt(a, pos)
             more == ItemsAt(c, longer)
             V == {Item(a, pos[i]) : i \in 1 .. n} \cup {<<key, value>>}
  <2>1. items = [m \in 1 .. n |-> Item(a, pos[m])]
    BY DEF ItemsAt, n
  <2>2. more = [m \in 1 .. n + 1 |-> Item(c, longer[m])]
    BY <1>4 DEF ItemsAt
  <2>3. <<key, value>> \in V /\ \A i \in 1 .. n : Item(a, pos[i]) \in V
    OBVIOUS
  <2>4. \A i \in 1 .. n : Item(c, pos[i]) = Item(a, pos[i])
    BY <1>2, <1>6 DEF Extends
  <2>5. Item(c, a.used) = <<key, value>>
    BY DEF Extends
  <2> DEFINE x == <<key, value>>
  <2> HIDE DEF items, more, V, x
  <2>6. items \in [1 .. n -> V] /\ x \in V
    BY <2>1, <2>3 DEF x
  <2>7. items \in Seq(V) /\ Len(items) = n
    BY <1>3, <2>6
  <2>8. more \in [1 .. n + 1 -> V]
    <3>1. \A m \in 1 .. n + 1 : Item(c, longer[m]) \in V
      BY <1>4, <1>5, <2>3, <2>4, <2>5
    <3> QED
      BY <2>2, <3>1
  <2>9. \A m \in 1 .. n : more[m] = items[m]
    <3> SUFFICES ASSUME NEW m \in 1 .. n PROVE more[m] = items[m]
      OBVIOUS
    <3>1. m \in 1 .. n + 1
      BY <1>3
    <3> QED
      BY <3>1, <1>4, <2>1, <2>2, <2>4
  <2>10. more[n + 1] = x
    <3>1. n + 1 \in 1 .. n + 1
      BY <1>3
    <3> QED
      BY <3>1, <1>4, <2>2, <2>5 DEF x
  <2>11. more \in Seq(V) /\ Len(more) = n + 1
    BY <1>3, <2>8
  <2> DEFINE both == Append(items, x)
  <2>12. both \in Seq(V) /\ Len(both) = n + 1 /\ both[n + 1] = x
        /\ \A m \in 1 .. n : both[m] = items[m]
    BY <2>6, <2>7
  <2> HIDE DEF both
  <2>13. \A m \in 1 .. n + 1 : more[m] = both[m]
    BY <1>5, <2>9, <2>10, <2>12
  <2>14. both \in [1 .. n + 1 -> V]
    BY <2>12
  <2>15. more = both
    <3> DEFINE D == 1 .. n + 1
    <3>1. more \in [D -> V] /\ both \in [D -> V] /\ \A m \in D : more[m] = both[m]
      BY <2>8, <2>13, <2>14
    <3> HIDE DEF D
    <3> QED
      BY <3>1, SamePoints
  <2> QED
    BY <2>15 DEF both, items, more, x
<1> QED
  BY <1>11, <1>13, <1>14

\* The entries that were not removed have keys.
LEMMA KeysOfEntries ==
  ASSUME NEW a \in ArrayRecord, Fits(a), NEW p \in 0 .. a.used - 1
  PROVE  /\ a.entries[p + 1] \in Entry /\ NextAt(a, p) \in Int
         /\ p \in Live(a) => KeyAt(a, p) \in Keys
<1>1. a.used \in Nat /\ a.entries \in Seq(Entry) /\ a.used = Len(a.entries)
  BY DEF ArrayRecord, Entries, Fits
<1>2. a.entries[p + 1] \in Entry
  BY <1>1
<1>3. p \in Live(a) => KeyAt(a, p) # Tombstone
  BY DEF Live, KeyAt
<1> QED
  BY <1>2, <1>3 DEF Entry, AnyKey, KeyAt, NextAt

LEMMA ExtendsApart ==
  ASSUME NEW a \in ArrayRecord, Fits(a), NEW c, NEW key \in Keys, NEW value,
         Extends(a, c, key, value), Apart(a), \A p \in Live(a) : KeyAt(a, p) # key,
         a.next_index <= PPHP_INT_MAXIMUM, c.next_index = NextIndex(a.next_index, key)
  PROVE  Apart(c) /\ c.next_index \in 0 .. PPHP_INT_MAXIMUM
<1>0. a.used \in Nat /\ a.next_index \in 0 .. PPHP_INT_MAXIMUM /\ PPHP_INT_MAXIMUM \in Nat
  BY MaximumAssumption DEF ArrayRecord
<1>1. Live(c) = Live(a) \cup {a.used} /\ a.used \notin Live(a)
  BY <1>0, ExtendsLive
<1>2. \A p \in Live(a) : KeyAt(c, p) = KeyAt(a, p)
  BY DEF Extends, Live
<1>3. KeyAt(c, a.used) = key
  BY DEF Extends
<1>4. \A p, q \in Live(c) : KeyAt(c, p) = KeyAt(c, q) => p = q
  BY <1>1, <1>2, <1>3 DEF Apart
<1>5. key[1] = "int" => key[2] \in Int /\ key[2] <= PPHP_INT_MAXIMUM
  BY KeyShapes, <1>0 DEF Integer, PPHP_INT_MINIMUM
<1>6. /\ c.next_index \in 0 .. PPHP_INT_MAXIMUM /\ a.next_index <= c.next_index
      /\ key[1] = "int" => key[2] < c.next_index \/ key[2] = PPHP_INT_MAXIMUM
  <2> DEFINE n == a.next_index
             m == c.next_index
             max == PPHP_INT_MAXIMUM
  <2>1. m = IF key[1] = "int" /\ key[2] >= n /\ key[2] < max THEN key[2] + 1 ELSE n
    BY DEF NextIndex
  <2>2. n \in 0 .. max /\ max \in Nat
    BY <1>0
  <2>3. key[1] = "int" => key[2] \in Int /\ key[2] <= max
    BY <1>5
  <2> HIDE DEF n, m, max
  <2>4. m \in 0 .. max /\ n <= m /\ (key[1] = "int" => key[2] < m \/ key[2] = max)
    <3>1. CASE key[1] = "int" /\ key[2] >= n /\ key[2] < max
      BY <2>1, <2>2, <2>3, <3>1
    <3>2. CASE ~(key[1] = "int" /\ key[2] >= n /\ key[2] < max)
      <4>1. m = n
        BY <2>1, <3>2
      <4>2. key[1] = "int" => key[2] < n \/ key[2] = max
        BY <2>2, <2>3, <3>2
      <4> QED
        BY <2>2, <2>3, <4>1, <4>2, <3>2
    <3> QED
      BY <3>1, <3>2
  <2> QED
    BY <2>4 DEF n, m, max
<1>7. ASSUME NEW k \in Keys, k[1] = "int", k[2] < a.next_index \/ k[2] = PPHP_INT_MAXIMUM
      PROVE  k[2] < c.next_index \/ k[2] = PPHP_INT_MAXIMUM
  <2>1. k[2] \in Int
    BY <1>7, <1>0, KeyShapes DEF Integer, PPHP_INT_MINIMUM
  <2> QED
    BY <2>1, <1>0, <1>6, <1>7
<1>8. \A p \in Live(a) : KeyAt(a, p) \in Keys
  <2>1. \A p \in Live(a) : p \in 0 .. a.used - 1
    BY DEF Live
  <2> QED
    BY <2>1, KeysOfEntries
<1> QED
  BY <1>1, <1>2, <1>3, <1>4, <1>6, <1>7, <1>8 DEF Apart

\* The new entry becomes the head of its chain.
LEMMA ExtendsHashed ==
  ASSUME NEW a \in ArrayRecord, Fits(a), NEW c, NEW key \in Keys, NEW value,
         Extends(a, c, key, value), NEW n \in Nat, n # 0, Hashed(a, n),
         c.buckets = [a.buckets EXCEPT ![BucketOf(key, n)] = a.used],
         NextAt(c, a.used) = a.buckets[BucketOf(key, n)]
  PROVE  Hashed(c, n) /\ c.buckets \in BucketVectors
<1> DEFINE b == BucketOf(key, n)
           heads == [x \in 0 .. n - 1 |-> Highest(Chained(a, n, x))]
<1>0. a.used \in Nat /\ b \in 0 .. n - 1 /\ a.buckets = heads
  BY BucketFits DEF ArrayRecord, Hashed
<1> HIDE DEF b
<1>1. /\ Live(c) = Live(a) \cup {a.used} /\ a.used \notin Live(a)
      /\ \A p \in Live(a) : p \in 0 .. a.used - 1
  BY <1>0, ExtendsLive DEF Live
<1>2. \A x, p : p \in Chained(c, n, x) <=> p \in Live(c) /\ BucketOf(KeyAt(c, p), n) = x
  BY DEF Chained, Live, KeyAt
<1>3. \A x, p : p \in Chained(a, n, x) <=> p \in Live(a) /\ BucketOf(KeyAt(a, p), n) = x
  BY DEF Chained, Live, KeyAt
<1>4. KeyAt(c, a.used) = key /\ \A p \in Live(a) : KeyAt(c, p) = KeyAt(a, p)
  BY <1>1 DEF Extends
<1>5. ASSUME NEW x
      PROVE  Chained(c, n, x) = IF x = b THEN Chained(a, n, x) \cup {a.used} ELSE Chained(a, n, x)
  <2>1. BucketOf(KeyAt(c, a.used), n) = b
    BY <1>4 DEF b
  <2>2. \A p : p \in Chained(c, n, x) <=>
               \/ p \in Chained(a, n, x)
               \/ p = a.used /\ x = b
    BY <2>1, <1>1, <1>2, <1>3, <1>4, ZenonT(40)
  <2>3. CASE x = b
    BY <2>2, <2>3
  <2>4. CASE x # b
    BY <2>2, <2>4
  <2> QED
    BY <2>3, <2>4
<1>6. \A x : Chained(a, n, x) \in SUBSET (0 .. a.used - 1)
  BY <1>1, <1>3
<1>7. Highest(Chained(c, n, b)) = a.used
  <2> DEFINE S == Chained(a, n, b) \cup {a.used}
  <2> DEFINE m == a.used + 1
  <2>1. S \in SUBSET (0 .. m - 1) /\ a.used \in S /\ (\A q \in S : q <= a.used) /\ m \in Nat
    BY <1>0, <1>6
  <2>2. Chained(c, n, b) = S
    BY <1>5
  <2> HIDE DEF S, m
  <2>3. Highest(S) = a.used
    BY <2>1, HighestOnly
  <2> QED
    BY <2>2, <2>3
<1> DEFINE more == [x \in 0 .. n - 1 |-> Highest(Chained(c, n, x))]
<1>8. c.buckets = more
  <2>1. c.buckets = [x \in 0 .. n - 1 |-> IF x = b THEN a.used ELSE heads[x]]
    BY <1>0 DEF b
  <2>2. ASSUME NEW x \in 0 .. n - 1
        PROVE  (IF x = b THEN a.used ELSE heads[x]) = Highest(Chained(c, n, x))
    <3>1. CASE x = b
      BY <3>1, <1>7
    <3>2. CASE x # b
      <4>1. Chained(c, n, x) = Chained(a, n, x)
        BY <3>2, <1>5
      <4> QED
        BY <3>2, <4>1
    <3> QED
      BY <3>1, <3>2
  <2> QED
    BY <2>1, <2>2
<1>9. ASSUME NEW p \in Live(c) PROVE NextAt(c, p) = Highest(Earlier(c, n, p))
  <2>1. CASE p \in Live(a)
    <3>1. p \in 0 .. a.used - 1 /\ KeyAt(c, p) = KeyAt(a, p) /\ NextAt(c, p) = NextAt(a, p)
      BY <2>1, <1>1, <1>4 DEF Extends
    <3> DEFINE x == BucketOf(KeyAt(a, p), n)
    <3>2. \A q \in Chained(c, n, x) : q < p => q \in Chained(a, n, x)
      BY <3>1, <1>0, <1>5
    <3>3. \A q \in Chained(a, n, x) : q \in Chained(c, n, x)
      BY <1>5
    <3>4. Earlier(c, n, p) = Earlier(a, n, p)
      <4>1. Earlier(c, n, p) = {q \in Chained(c, n, x) : q < p}
        BY <3>1 DEF Earlier
      <4>2. Earlier(a, n, p) = {q \in Chained(a, n, x) : q < p}
        BY DEF Earlier
      <4> HIDE DEF x
      <4> QED
        BY <4>1, <4>2, <3>2, <3>3
    <3>5. NextAt(a, p) = Highest(Earlier(a, n, p))
      BY <2>1 DEF Hashed
    <3> QED
      BY <3>1, <3>4, <3>5
  <2>2. CASE p = a.used
    <3>1. Earlier(c, n, p) = {q \in Chained(c, n, b) : q < a.used}
      BY <2>2, <1>4 DEF Earlier, b
    <3>2. Chained(c, n, b) = Chained(a, n, b) \cup {a.used}
      BY <1>5
    <3>3. \A q \in Chained(a, n, b) : q < a.used
      BY <1>0, <1>6
    <3>4. Earlier(c, n, p) = Chained(a, n, b)
      BY <3>1, <3>2, <3>3, <1>0
    <3>5. NextAt(c, a.used) = Highest(Chained(a, n, b))
      BY <1>0 DEF b
    <3> QED
      BY <2>2, <3>4, <3>5
  <2> QED
    BY <2>1, <2>2, <1>1
<1>10. more \in BucketVectors
  <2>1. \A x : Highest(Chained(c, n, x)) \in Int
    <3> SUFFICES ASSUME NEW x PROVE Highest(Chained(c, n, x)) \in Int
      OBVIOUS
    <3> DEFINE m == a.used + 1
               S == Chained(c, n, x)
    <3>1. S \in SUBSET (0 .. m - 1) /\ m \in Nat
      BY <1>0, <1>5, <1>6
    <3> HIDE DEF m, S
    <3>2. Highest(S) \in -1 .. m - 1
      BY <3>1, HighestFits
    <3> QED
      BY <3>1, <3>2 DEF S
  <2>2. more \in [0 .. n - 1 -> Int]
    BY <2>1
  <2> QED
    BY <2>2 DEF BucketVectors
<1> QED
  BY <1>8, <1>9, <1>10 DEF Hashed

LEMMA InsertExtends ==
  ASSUME NEW a \in ArrayRecord, Fits(a), NEW c, NEW key, NEW value,
         c.entries = Append(a.entries, NewEntry(a, key, value)),
         c.used = a.used + 1, c.size = a.size + 1
  PROVE  /\ Extends(a, c, key, value) /\ Len(c.entries) = c.used
         /\ NextAt(c, a.used) = IF a.packed THEN -1 ELSE a.buckets[BucketOf(key, BucketCount(a))]
         /\ key \in AnyKey /\ value \in Values /\ NextAt(c, a.used) \in Int => c.entries \in Entries
<1> DEFINE e == NewEntry(a, key, value)
<1>1. a.used \in Nat /\ a.entries \in Seq(Entry) /\ a.used = Len(a.entries)
  BY DEF ArrayRecord, Entries, Fits
<1>2. /\ e.key = key /\ e.value = value
      /\ e.next = IF a.packed THEN -1 ELSE a.buckets[BucketOf(key, BucketCount(a))]
      /\ key \in AnyKey /\ value \in Values /\ e.next \in Int => e \in Entry
  BY DEF NewEntry, Entry
<1> HIDE DEF e
<1>3. c.entries = Append(a.entries, e)
  BY DEF e
<1>4. Len(c.entries) = a.used + 1 /\ c.entries[a.used + 1] = e
      /\ \A i \in 1 .. a.used : c.entries[i] = a.entries[i]
  BY <1>1, <1>3
<1>5. \A p \in 0 .. a.used - 1 : p + 1 \in 1 .. a.used
  BY <1>1
<1>6. \A p \in 0 .. a.used - 1 : c.entries[p + 1] = a.entries[p + 1]
  BY <1>4, <1>5
<1>7. Extends(a, c, key, value)
  BY <1>2, <1>4, <1>6 DEF Extends, KeyAt, Item, NextAt
<1>8. NextAt(c, a.used) = e.next
  BY <1>4 DEF NextAt
<1>9. e \in Entry => c.entries \in Entries
  BY <1>1, <1>3 DEF Entries
<1> QED
  BY <1>2, <1>4, <1>7, <1>8, <1>9

\* Inserting a new key keeps the array sound and adds an item at the end.
LEMMA InsertSound ==
  ASSUME NEW a, Sound(a), NEW key \in Keys, NEW value \in Values,
         \A p \in Live(a) : KeyAt(a, p) # key, ~CannotGrow(a, a.used + 1),
         a.packed => key = <<"int", a.used>>,
         ~a.packed => (a.size + 1) * 4 <= BucketCount(a) * 3
  PROVE  LET c == Insert(a, key, value)
         IN  /\ Sound(c) /\ c.next_index = NextIndex(a.next_index, key)
             /\ Elements(c) = Append(Elements(a), <<key, value>>)
<1> DEFINE c == Insert(a, key, value)
<1>0. /\ a \in ArrayRecord /\ Fits(a) /\ Apart(a) /\ Counted(a) /\ a.capacity <= UINT16_LIMIT
      /\ a.used \in Nat /\ a.size \in Nat /\ a.next_index <= PPHP_INT_MAXIMUM
      /\ a.packed \in BOOLEAN
  BY DEF Sound, Fits, ArrayRecord
<1>1. /\ c = [packed |-> c.packed, size |-> c.size, used |-> c.used,
              capacity |-> c.capacity, next_index |-> c.next_index,
              entries |-> c.entries, buckets |-> c.buckets]
      /\ c.packed = a.packed /\ c.size = a.size + 1 /\ c.used = a.used + 1
      /\ c.capacity \in Nat /\ a.used + 1 <= c.capacity /\ c.capacity <= UINT16_LIMIT
      /\ c.entries = Append(a.entries, NewEntry(a, key, value))
      /\ c.next_index = NextIndex(a.next_index, key)
      /\ a.packed => c.buckets = a.buckets
      /\ ~a.packed => c.buckets = [a.buckets EXCEPT ![BucketOf(key, BucketCount(a))] = a.used]
  BY <1>0, InsertIs, ZenonT(40)
<1> HIDE DEF c
<1>2. /\ Extends(a, c, key, value) /\ Len(c.entries) = c.used
      /\ NextAt(c, a.used) = IF a.packed THEN -1 ELSE a.buckets[BucketOf(key, BucketCount(a))]
      /\ key \in AnyKey /\ value \in Values /\ NextAt(c, a.used) \in Int => c.entries \in Entries
  BY <1>0, <1>1, InsertExtends
<1>3. Counted(c) /\ Elements(c) = Append(Elements(a), <<key, value>>)
  BY <1>0, <1>2, ExtendsLists
<1>4. Apart(c) /\ c.next_index \in 0 .. PPHP_INT_MAXIMUM
  BY <1>0, <1>1, <1>2, ExtendsApart
<1>5. Live(c) = Live(a) \cup {a.used}
  BY <1>0, <1>2, ExtendsLive
<1>6. \A p \in 0 .. c.used - 1 : p \notin Live(c) => NextAt(c, p) = -1
  <2>1. \A p \in 0 .. c.used - 1 : p \in 0 .. a.used - 1 \/ p = a.used
    BY <1>0, <1>1
  <2> QED
    BY <2>1, <1>0, <1>2, <1>5 DEF Fits, Extends
<1>7. Fits(c) /\ c.used \in Nat /\ c.size \in Nat /\ c.next_index \in Nat
  BY <1>0, <1>1, <1>2, <1>4, <1>6, MaximumAssumption DEF Fits
<1>8. key \in AnyKey
  BY DEF AnyKey
<1>9. ASSUME c.buckets \in BucketVectors, NextAt(c, a.used) \in Int
      PROVE  c \in ArrayRecord
  <2>1. c.entries \in Entries
    BY <1>2, <1>8, <1>9
  <2> DEFINE es == c.entries
             bs == c.buckets
             s == c.size
             u == c.used
             k == c.capacity
             x == c.next_index
             d == c.packed
  <2>2. /\ es \in Entries /\ bs \in BucketVectors /\ s \in Nat /\ u \in Nat /\ k \in Nat
        /\ x \in Nat /\ d \in BOOLEAN
    BY <2>1, <1>0, <1>1, <1>7, <1>9
  <2>3. c = [packed |-> d, size |-> s, used |-> u, capacity |-> k, next_index |-> x,
             entries |-> es, buckets |-> bs]
    BY <1>1
  <2> HIDE DEF es, bs, s, u, k, x, d
  <2> QED
    BY <2>2, <2>3 DEF ArrayRecord
<1>10. CASE a.packed
  <2>1. AsList(a) /\ key = <<"int", a.used>> /\ c.buckets = a.buckets
    BY <1>1, <1>10 DEF Sound
  <2>2. c \in ArrayRecord
    <3>1. a.buckets \in BucketVectors
      BY <1>0 DEF ArrayRecord
    <3>2. NextAt(c, a.used) = -1
      BY <1>2, <1>10
    <3> QED
      BY <1>9, <2>1, <3>1, <3>2
  <2>3. c.next_index = a.used + 1
    <3>1. a.next_index = a.used /\ key[1] = "int" /\ key[2] = a.used
      BY <2>1 DEF AsList
    <3>2. a.used < PPHP_INT_MAXIMUM
      BY <1>0, <1>1, LimitsAssumption, MaximumAssumption
    <3> QED
      BY <1>0, <1>1, <3>1, <3>2 DEF NextIndex
  <2>4. AsList(c)
    <3>1. \A p \in 0 .. c.used - 1 : p \in 0 .. a.used - 1 \/ p = a.used
      BY <1>0, <1>1
    <3>2. KeyAt(c, a.used) = <<"int", a.used>> /\ NextAt(c, a.used) = -1
      BY <1>2, <1>10, <2>1 DEF Extends
    <3>3. \A p \in 0 .. a.used - 1 : KeyAt(c, p) = <<"int", p>> /\ NextAt(c, p) = -1
      BY <1>2, <2>1 DEF AsList, Extends
    <3>4. c.buckets = <<>> /\ c.size = c.used /\ c.next_index = c.used
      BY <1>1, <2>1, <2>3 DEF AsList
    <3> QED
      BY <3>1, <3>2, <3>3, <3>4 DEF AsList
  <2> QED
    BY <1>1, <1>3, <1>4, <1>7, <1>10, <2>2, <2>4 DEF Sound, c
<1>11. CASE ~a.packed
  <2>1. PICK n \in MinBuckets .. UINT16_LIMIT : Hashed(a, n)
    BY <1>11 DEF Sound, AsHash
  <2>2. n \in Nat /\ n # 0
    BY LimitsAssumption
  <2>3. BucketCount(a) = n
    BY <2>1, <2>2, CountIs DEF Hashed
  <2>4. Hashed(c, n) /\ c.buckets \in BucketVectors
    BY <1>0, <1>1, <1>2, <1>11, <2>1, <2>2, <2>3, ExtendsHashed
  <2>5. NextAt(c, a.used) \in Int
    <3>1. BucketOf(key, n) \in 0 .. n - 1
      BY <2>2, BucketFits
    <3>2. NextAt(c, a.used) = Highest(Chained(a, n, BucketOf(key, n)))
      BY <1>2, <1>11, <2>1, <2>3, <3>1 DEF Hashed
    <3>3. Highest(Chained(a, n, BucketOf(key, n))) \in -1 .. a.used - 1
      BY <1>0, HighestFits DEF Chained
    <3> QED
      BY <3>2, <3>3
  <2>6. c \in ArrayRecord
    BY <1>9, <2>4, <2>5
  <2>7. c.size * 4 <= n * 3
    BY <1>1, <1>11, <2>3
  <2>8. AsHash(c)
    BY <2>1, <2>4, <2>7 DEF AsHash
  <2> QED
    BY <1>1, <1>3, <1>4, <1>7, <1>11, <2>6, <2>8 DEF Sound, c
<1> QED
  BY <1>10, <1>11

-----------------------------------------------------------------------------
(* Overwriting.                                                            *)

\* The items with the value under a key replaced.
Replaced(items, key, value) ==
    [i \in DOMAIN items |-> IF items[i][1] = key THEN <<key, value>> ELSE items[i]]

LEMMA OverwriteIs ==
  ASSUME NEW a \in ArrayRecord, Fits(a), NEW p \in 0 .. a.used - 1, NEW value \in Values
  PROVE  LET c == Overwrite(a, p, value)
         IN  /\ c \in ArrayRecord /\ Fits(c) /\ SameKeys(a, c)
             /\ c.packed = a.packed /\ c.buckets = a.buckets
             /\ \A q \in 0 .. a.used - 1 :
                   /\ NextAt(c, q) = NextAt(a, q)
                   /\ Item(c, q) = IF q = p THEN <<KeyAt(a, q), value>> ELSE Item(a, q)
<1> DEFINE c == Overwrite(a, p, value)
           old == a.entries[p + 1]
           new == [old EXCEPT !.value = value]
           es == [a.entries EXCEPT ![p + 1] = new]
<1>0. /\ a.used \in Nat /\ a.entries \in Seq(Entry) /\ a.used = Len(a.entries)
      /\ p + 1 \in 1 .. a.used
  BY DEF ArrayRecord, Entries, Fits
<1>1. c = [a EXCEPT !.entries = es]
  BY DEF Overwrite
<1>2. old \in Entry
  BY <1>0
<1> HIDE DEF old
<1>3. new \in Entry /\ new.key = old.key /\ new.next = old.next /\ new.value = value
  BY <1>2 DEF Entry
<1> HIDE DEF new
<1>4. /\ es \in Seq(Entry) /\ Len(es) = a.used /\ es[p + 1] = new
      /\ \A i \in 1 .. a.used : i # p + 1 => es[i] = a.entries[i]
  BY <1>0, <1>3
<1> HIDE DEF es
<1>5. /\ c \in ArrayRecord /\ c.packed = a.packed /\ c.size = a.size /\ c.used = a.used
      /\ c.capacity = a.capacity /\ c.next_index = a.next_index /\ c.entries = es
      /\ c.buckets = a.buckets
  BY <1>1, <1>4 DEF ArrayRecord, Entries
<1> HIDE DEF c
<1>6. ASSUME NEW q \in 0 .. a.used - 1
      PROVE  /\ KeyAt(c, q) = KeyAt(a, q) /\ NextAt(c, q) = NextAt(a, q)
             /\ Item(c, q) = IF q = p THEN <<KeyAt(a, q), value>> ELSE Item(a, q)
  <2>1. CASE q = p
    BY <2>1, <1>3, <1>4, <1>5 DEF KeyAt, NextAt, Item, old
  <2>2. CASE q # p
    <3>1. q + 1 \in 1 .. a.used /\ q + 1 # p + 1
      BY <2>2, <1>0
    <3>2. c.entries[q + 1] = a.entries[q + 1]
      BY <3>1, <1>4, <1>5
    <3> QED
      BY <2>2, <3>2 DEF KeyAt, NextAt, Item
  <2> QED
    BY <2>1, <2>2
<1>7. SameKeys(a, c)
  BY <1>5, <1>6 DEF SameKeys
<1>8. Live(c) = Live(a)
  BY <1>0, <1>7, KeysCarryOver
<1>9. Fits(c)
  BY <1>4, <1>5, <1>6, <1>8 DEF Fits
<1> QED
  BY <1>5, <1>6, <1>7, <1>9 DEF c

\* Overwriting the value of a key keeps the array sound and the order.
LEMMA OverwriteSound ==
  ASSUME NEW a, Sound(a), NEW p \in Live(a), NEW value \in Values
  PROVE  LET c == Overwrite(a, p, value)
         IN  /\ Sound(c) /\ c.next_index = a.next_index
             /\ Elements(c) = Replaced(Elements(a), KeyAt(a, p), value)
<1> DEFINE c == Overwrite(a, p, value)
<1>0. /\ a \in ArrayRecord /\ Fits(a) /\ Apart(a) /\ Counted(a) /\ a.used \in Nat
      /\ p \in 0 .. a.used - 1
  BY DEF Sound, ArrayRecord, Live
<1>1. /\ c \in ArrayRecord /\ Fits(c) /\ SameKeys(a, c)
      /\ c.packed = a.packed /\ c.buckets = a.buckets
      /\ \A q \in 0 .. a.used - 1 :
            /\ NextAt(c, q) = NextAt(a, q)
            /\ Item(c, q) = IF q = p THEN <<KeyAt(a, q), value>> ELSE Item(a, q)
  BY <1>0, OverwriteIs
<1> HIDE DEF c
<1>2. /\ Live(c) = Live(a) /\ Apart(c) /\ Counted(c)
      /\ \A pos : Lists(a, pos) => Lists(c, pos)
      /\ \A n, b : Chained(c, n, b) = Chained(a, n, b)
      /\ \A n : \A q \in Live(a) : Earlier(c, n, q) = Earlier(a, n, q)
  BY <1>0, <1>1, KeysCarryOver
<1>3. a.packed => AsList(c)
  BY <1>1 DEF Sound, AsList, SameKeys
<1>4. ASSUME ~a.packed PROVE AsHash(c)
  <2>1. PICK n \in MinBuckets .. UINT16_LIMIT : Hashed(a, n) /\ a.size * 4 <= n * 3
    BY <1>4 DEF Sound, AsHash
  <2>2. c.buckets = [b \in 0 .. n - 1 |-> Highest(Chained(c, n, b))]
    BY <2>1, <1>1, <1>2 DEF Hashed
  <2>3. \A q \in Live(c) : NextAt(c, q) = Highest(Earlier(c, n, q))
    BY <2>1, <1>1, <1>2 DEF Hashed, Live
  <2> QED
    BY <1>1, <2>1, <2>2, <2>3 DEF AsHash, Hashed, SameKeys
<1>5. Sound(c) /\ c.next_index = a.next_index
  BY <1>1, <1>2, <1>3, <1>4 DEF Sound, SameKeys
<1>6. PICK pos : Lists(a, pos)
  BY <1>0 DEF Counted
<1>7. c.used \in Nat
  BY <1>0, <1>1 DEF SameKeys
<1>8. Elements(a) = ItemsAt(a, pos) /\ Elements(c) = ItemsAt(c, pos)
  BY <1>0, <1>2, <1>6, <1>7, ElementsAre
<1>9. ASSUME NEW m \in 1 .. Len(pos)
      PROVE  Item(c, pos[m]) = IF Item(a, pos[m])[1] = KeyAt(a, p) THEN <<KeyAt(a, p), value>>
                               ELSE Item(a, pos[m])
  <2>1. pos[m] \in Live(a) /\ pos[m] \in 0 .. a.used - 1
    BY <1>6 DEF Lists, Live
  <2>2. Item(a, pos[m])[1] = KeyAt(a, pos[m])
    BY DEF Item, KeyAt
  <2>3. KeyAt(a, pos[m]) = KeyAt(a, p) <=> pos[m] = p
    BY <1>0, <2>1 DEF Apart
  <2> QED
    BY <1>1, <2>1, <2>2, <2>3
<1>10. Elements(c) = Replaced(Elements(a), KeyAt(a, p), value)
  BY <1>8, <1>9 DEF ItemsAt, Replaced
<1> QED
  BY <1>5, <1>10 DEF c

-----------------------------------------------------------------------------
(* Removing.                                                               *)

\* What Highest() becomes without one of the numbers.
LEMMA HighestDrop ==
  ASSUME NEW n \in Nat, NEW S \in SUBSET (0 .. n - 1), NEW p \in 0 .. n - 1
  PROVE  Highest(S \ {p}) = IF Highest(S) = p THEN Highest({q \in S : q < p}) ELSE Highest(S)
<1> DEFINE h == Highest(S)
<1>1. /\ S = {} => h = -1
      /\ S # {} => h \in S /\ \A q \in S : q <= h
  BY HighestIs
<1>2. CASE S = {}
  <2>1. h # p /\ S \ {p} = S
    BY <1>1, <1>2
  <2> QED
    BY <2>1
<1>3. CASE S # {} /\ h = p
  <2> DEFINE T == {q \in S : q < p}
  <2>1. S \ {p} = T
    <3> HIDE DEF h
    <3>1. \A q \in S : q <= p
      BY <1>1, <1>3
    <3>2. \A q \in S : q # p <=> q < p
      BY <3>1
    <3>3. \A q : q \in T <=> q \in S /\ q < p
      OBVIOUS
    <3> HIDE DEF T
    <3> QED
      BY <3>2, <3>3, Zenon
  <2> HIDE DEF T
  <2> QED
    BY <1>3, <2>1 DEF T
<1>4. CASE S # {} /\ h # p
  <2> DEFINE T == S \ {p}
  <2> HIDE DEF h
  <2>1. T \in SUBSET (0 .. n - 1) /\ h \in T /\ \A q \in T : q <= h
    BY <1>1, <1>4
  <2> HIDE DEF T
  <2>2. Highest(T) = h
    BY <2>1, HighestOnly
  <2> QED
    BY <1>4, <2>2 DEF T, h
<1> QED
  BY <1>2, <1>3, <1>4

\* What pa_remove() makes of a hash and the position of the removed key.
Removal(a, p) ==
    [Relink(a, p) EXCEPT
        !.entries[p + 1] = [key |-> Tombstone, value |-> Tombstone, next |-> EMPTY_BUCKET],
        !.size = @ - 1]

\* The link that leads past the removed entry.
Past(a, p, link) == IF link = p THEN NextAt(a, p) ELSE link

LEMMA RelinkIs ==
  ASSUME NEW a \in ArrayRecord, Fits(a), NEW p \in 0 .. a.used - 1,
         NEW n \in Nat, a.buckets \in [0 .. n - 1 -> Int]
  PROVE  LET r == Relink(a, p)
         IN  /\ r \in ArrayRecord /\ r.packed = a.packed /\ r.size = a.size /\ r.used = a.used
             /\ r.capacity = a.capacity /\ r.next_index = a.next_index
             /\ r.buckets = [b \in 0 .. n - 1 |-> Past(a, p, a.buckets[b])]
             /\ r.entries \in Seq(Entry) /\ Len(r.entries) = a.used
             /\ \A q \in 0 .. a.used - 1 : /\ KeyAt(r, q) = KeyAt(a, q)
                                           /\ Item(r, q) = Item(a, q)
                                           /\ NextAt(r, q) = Past(a, p, NextAt(a, q))
<1> DEFINE to == NextAt(a, p)
           entry(i) == IF a.entries[i].next = p THEN [a.entries[i] EXCEPT !.next = to]
                       ELSE a.entries[i]
           es == [i \in 1 .. a.used |-> entry(i)]
           bs == [b \in 0 .. n - 1 |-> Past(a, p, a.buckets[b])]
           r == Relink(a, p)
<1>0. /\ a.used \in Nat /\ a.entries \in Seq(Entry) /\ a.used = Len(a.entries)
      /\ p + 1 \in 1 .. a.used /\ DOMAIN a.entries = 1 .. a.used
      /\ DOMAIN a.buckets = 0 .. n - 1
  BY DEF ArrayRecord, Entries, Fits
<1>1. to \in Int
  BY <1>0, KeysOfEntries
<1>2. r = [a EXCEPT !.buckets = [b \in 0 .. n - 1 |-> IF a.buckets[b] = p THEN to ELSE a.buckets[b]],
                    !.entries = es]
  BY <1>0, Zenon DEF Relink, NextAt
<1>3. r = [a EXCEPT !.buckets = bs, !.entries = es]
  BY <1>2, Zenon DEF Past
<1> HIDE DEF to
<1>4. ASSUME NEW i \in 1 .. a.used
      PROVE  /\ entry(i) \in Entry /\ entry(i).key = a.entries[i].key
             /\ entry(i).value = a.entries[i].value
             /\ entry(i).next = IF a.entries[i].next = p THEN to ELSE a.entries[i].next
  <2> DEFINE e == a.entries[i]
  <2>1. e \in Entry
    BY <1>0
  <2> HIDE DEF e
  <2>2. /\ [e EXCEPT !.next = to] \in Entry /\ [e EXCEPT !.next = to].key = e.key
        /\ [e EXCEPT !.next = to].value = e.value /\ [e EXCEPT !.next = to].next = to
    BY <1>1, <2>1 DEF Entry
  <2> QED
    BY <2>1, <2>2 DEF e
<1> HIDE DEF entry
<1>5. es \in Seq(Entry) /\ Len(es) = a.used /\ \A i \in 1 .. a.used : es[i] = entry(i)
  BY <1>0, <1>4
<1>6. bs \in BucketVectors
  <2>1. \A b \in 0 .. n - 1 : Past(a, p, a.buckets[b]) \in Int
    BY <1>1 DEF Past, to
  <2>2. bs \in [0 .. n - 1 -> Int]
    BY <2>1
  <2> QED
    BY <2>2 DEF BucketVectors
<1> HIDE DEF es, bs, r
<1>7. /\ r \in ArrayRecord /\ r.packed = a.packed /\ r.size = a.size /\ r.used = a.used
      /\ r.capacity = a.capacity /\ r.next_index = a.next_index
      /\ r.buckets = bs /\ r.entries = es
  BY <1>3, <1>5, <1>6 DEF ArrayRecord, Entries
<1>8. \A q \in 0 .. a.used - 1 : q + 1 \in 1 .. a.used
  BY <1>0
<1>9. \A q \in 0 .. a.used - 1 : /\ KeyAt(r, q) = KeyAt(a, q) /\ Item(r, q) = Item(a, q)
                                 /\ NextAt(r, q) = Past(a, p, NextAt(a, q))
  BY <1>4, <1>5, <1>7, <1>8 DEF KeyAt, NextAt, Item, Past, to
<1> QED
  BY <1>5, <1>7, <1>9 DEF bs, r

LEMMA RemovalIs ==
  ASSUME NEW a \in ArrayRecord, Fits(a), NEW p \in 0 .. a.used - 1, a.size > 0,
         NEW n \in Nat, a.buckets \in [0 .. n - 1 -> Int]
  PROVE  LET c == Removal(a, p)
         IN  /\ c \in ArrayRecord /\ c.packed = a.packed /\ c.size = a.size - 1 /\ c.used = a.used
             /\ c.capacity = a.capacity /\ c.next_index = a.next_index
             /\ c.buckets = [b \in 0 .. n - 1 |-> Past(a, p, a.buckets[b])]
             /\ Len(c.entries) = a.used /\ KeyAt(c, p) = Tombstone /\ NextAt(c, p) = -1
             /\ \A q \in 0 .. a.used - 1 : q # p =>
                   /\ KeyAt(c, q) = KeyAt(a, q) /\ Item(c, q) = Item(a, q)
                   /\ NextAt(c, q) = Past(a, p, NextAt(a, q))
<1> DEFINE r == Relink(a, p)
           gone == [key |-> Tombstone, value |-> Tombstone, next |-> -1]
           es == [r.entries EXCEPT ![p + 1] = gone]
           c == Removal(a, p)
<1>1. /\ r \in ArrayRecord /\ r.packed = a.packed /\ r.size = a.size /\ r.used = a.used
      /\ r.capacity = a.capacity /\ r.next_index = a.next_index
      /\ r.buckets = [b \in 0 .. n - 1 |-> Past(a, p, a.buckets[b])]
      /\ r.entries \in Seq(Entry) /\ Len(r.entries) = a.used
      /\ \A q \in 0 .. a.used - 1 : /\ KeyAt(r, q) = KeyAt(a, q) /\ Item(r, q) = Item(a, q)
                                    /\ NextAt(r, q) = Past(a, p, NextAt(a, q))
  BY RelinkIs
<1>2. c = [r EXCEPT !.entries = es, !.size = r.size - 1]
  BY Zenon DEF Removal, EMPTY_BUCKET
<1>3. gone \in Entry /\ gone.key = Tombstone /\ gone.next = -1
  BY DEF Entry, AnyKey
<1> HIDE DEF gone, r
<1>4. a.used \in Nat /\ a.size - 1 \in Nat /\ p + 1 \in 1 .. a.used
  BY DEF ArrayRecord
<1>5. /\ es \in Seq(Entry) /\ Len(es) = a.used /\ es[p + 1] = gone
      /\ \A i \in 1 .. a.used : i # p + 1 => es[i] = r.entries[i]
  BY <1>1, <1>3, <1>4
<1> HIDE DEF es, c
<1>6. /\ c \in ArrayRecord /\ c.packed = r.packed /\ c.size = r.size - 1 /\ c.used = r.used
      /\ c.capacity = r.capacity /\ c.next_index = r.next_index
      /\ c.buckets = r.buckets /\ c.entries = es
  <2> DEFINE s == r.size - 1
  <2>1. s \in Nat
    BY <1>1, <1>4
  <2>2. c = [r EXCEPT !.entries = es, !.size = s]
    BY <1>2
  <2> HIDE DEF s
  <2>3. /\ c \in ArrayRecord /\ c.packed = r.packed /\ c.size = s /\ c.used = r.used
        /\ c.capacity = r.capacity /\ c.next_index = r.next_index
        /\ c.buckets = r.buckets /\ c.entries = es
    BY <1>1, <1>5, <2>1, <2>2 DEF ArrayRecord, Entries
  <2> QED
    BY <2>3 DEF s
<1>7. KeyAt(c, p) = Tombstone /\ NextAt(c, p) = -1
  BY <1>3, <1>5, <1>6 DEF KeyAt, NextAt
<1>8. ASSUME NEW q \in 0 .. a.used - 1, q # p
      PROVE  /\ KeyAt(c, q) = KeyAt(a, q) /\ Item(c, q) = Item(a, q)
             /\ NextAt(c, q) = Past(a, p, NextAt(a, q))
  <2>1. q + 1 \in 1 .. a.used /\ q + 1 # p + 1
    BY <1>4, <1>8
  <2>2. c.entries[q + 1] = r.entries[q + 1]
    BY <2>1, <1>5, <1>6
  <2>3. KeyAt(c, q) = KeyAt(r, q) /\ Item(c, q) = Item(r, q) /\ NextAt(c, q) = NextAt(r, q)
    BY <2>2 DEF KeyAt, Item, NextAt
  <2> QED
    BY <2>3, <1>1
<1> QED
  BY <1>1, <1>5, <1>6, <1>7, <1>8 DEF c

\* c is a without the entry at p.
Drops(a, c, p, n) ==
    /\ c.size = a.size - 1 /\ c.used = a.used
    /\ c.buckets = [b \in 0 .. n - 1 |-> Past(a, p, a.buckets[b])]
    /\ KeyAt(c, p) = Tombstone /\ NextAt(c, p) = -1
    /\ \A q \in 0 .. a.used - 1 : q # p =>
          /\ KeyAt(c, q) = KeyAt(a, q) /\ Item(c, q) = Item(a, q)
          /\ NextAt(c, q) = Past(a, p, NextAt(a, q))

LEMMA DropsLive ==
  ASSUME NEW a, NEW c, NEW p \in Live(a), NEW n, Drops(a, c, p, n)
  PROVE  /\ Live(c) = Live(a) \ {p}
         /\ \A m, b : Chained(c, m, b) = Chained(a, m, b) \ {p}
         /\ \A q \in Live(c) : KeyAt(c, q) = KeyAt(a, q) /\ Item(c, q) = Item(a, q)
<1>1. \A x, q : q \in Live(x) <=> q \in 0 .. x.used - 1 /\ KeyAt(x, q) # Tombstone
  BY DEF Live, KeyAt
<1>2. \A q : q \in Live(c) <=> q \in Live(a) /\ q # p
  BY <1>1 DEF Drops
<1>3. Live(c) = Live(a) \ {p}
  BY <1>2
<1>4. \A q \in Live(c) : KeyAt(c, q) = KeyAt(a, q) /\ Item(c, q) = Item(a, q)
  BY <1>2 DEF Drops, Live
<1>5. ASSUME NEW m, NEW b PROVE Chained(c, m, b) = Chained(a, m, b) \ {p}
  <2>1. \A x, q : q \in Chained(x, m, b) <=> q \in Live(x) /\ BucketOf(KeyAt(x, q), m) = b
    BY DEF Chained, Live, KeyAt
  <2>2. \A q : q \in Chained(c, m, b) <=> q \in Chained(a, m, b) /\ q # p
    BY <1>2, <1>4, <2>1, Zenon
  <2> QED
    BY <2>2
<1> QED
  BY <1>3, <1>4, <1>5

\* The chain of the removed entry leads past it.
LEMMA DropsHashed ==
  ASSUME NEW a \in ArrayRecord, Fits(a), NEW c, NEW p \in Live(a), NEW n \in Nat, n # 0,
         Hashed(a, n), Drops(a, c, p, n)
  PROVE  Hashed(c, n)
<1> DEFINE x == BucketOf(KeyAt(a, p), n)
<1>0. a.used \in Nat /\ p \in 0 .. a.used - 1
  BY DEF ArrayRecord, Live
<1>1. /\ Live(c) = Live(a) \ {p}
      /\ \A b : Chained(c, n, b) = Chained(a, n, b) \ {p}
      /\ \A q \in Live(c) : KeyAt(c, q) = KeyAt(a, q)
  BY DropsLive
<1>2. \A b : Chained(a, n, b) \in SUBSET (0 .. a.used - 1)
  BY DEF Chained
<1>3. \A b : p \in Chained(a, n, b) => b = x
  BY DEF Chained, KeyAt
<1>4. Highest({q \in Chained(a, n, x) : q < p}) = NextAt(a, p)
  BY DEF Hashed, Earlier
<1> HIDE DEF x
<1>5. ASSUME NEW S \in SUBSET (0 .. a.used - 1), p \in S => {q \in S : q < p} = {q \in Chained(a, n, x) : q < p}
      PROVE  Highest(S \ {p}) = Past(a, p, Highest(S))
  <2>1. Highest(S \ {p}) = IF Highest(S) = p THEN Highest({q \in S : q < p}) ELSE Highest(S)
    BY <1>0, HighestDrop
  <2>2. Highest(S) = p => p \in S
    <3>1. /\ S = {} => Highest(S) = -1
          /\ S # {} => Highest(S) \in S
      BY <1>0, HighestIs
    <3> HIDE DEF Highest
    <3> QED
      BY <3>1, <1>0
  <2> QED
    BY <2>1, <2>2, <1>4, <1>5 DEF Past
<1>6. ASSUME NEW b \in 0 .. n - 1
      PROVE  Past(a, p, a.buckets[b]) = Highest(Chained(c, n, b))
  <2>1. a.buckets[b] = Highest(Chained(a, n, b))
    BY DEF Hashed
  <2>2. p \in Chained(a, n, b) =>
          {q \in Chained(a, n, b) : q < p} = {q \in Chained(a, n, x) : q < p}
    BY <1>3
  <2>3. Highest(Chained(a, n, b) \ {p}) = Past(a, p, Highest(Chained(a, n, b)))
    BY <1>2, <1>5, <2>2
  <2> QED
    BY <1>1, <2>1, <2>3
<1>7. c.buckets = [b \in 0 .. n - 1 |-> Highest(Chained(c, n, b))]
  BY <1>6 DEF Drops
<1>8. ASSUME NEW q \in Live(c) PROVE NextAt(c, q) = Highest(Earlier(c, n, q))
  <2> DEFINE S == Earlier(a, n, q)
             b == BucketOf(KeyAt(a, q), n)
  <2>1. q \in Live(a) /\ q # p /\ q \in 0 .. a.used - 1
    BY <1>1 DEF Live
  <2>2. S = {k \in Chained(a, n, b) : k < q}
    BY DEF Earlier
  <2>3. Earlier(c, n, q) = {k \in Chained(a, n, b) \ {p} : k < q}
    BY <1>1 DEF Earlier
  <2> HIDE DEF S, b
  <2>4. Earlier(c, n, q) = S \ {p}
    BY <2>2, <2>3
  <2>5. p \in S => {k \in S : k < p} = {k \in Chained(a, n, x) : k < p}
    <3> SUFFICES ASSUME p \in S PROVE {k \in S : k < p} = {k \in Chained(a, n, x) : k < p}
      OBVIOUS
    <3>1. p < q /\ b = x
      BY <2>2, <1>3
    <3>2. \A k \in Chained(a, n, x) : k \in 0 .. a.used - 1
      BY <1>2
    <3>3. \A k \in Chained(a, n, x) : k < p => k < q
      BY <3>1, <3>2, <2>1, <1>0
    <3> QED
      BY <3>1, <3>3, <2>2
  <2>6. S \in SUBSET (0 .. a.used - 1)
    BY <2>2, <1>2
  <2>7. Highest(S \ {p}) = Past(a, p, Highest(S))
    BY <1>5, <2>5, <2>6
  <2>8. NextAt(a, q) = Highest(S)
    BY <2>1 DEF Hashed, S
  <2>9. NextAt(c, q) = Past(a, p, NextAt(a, q))
    BY <2>1 DEF Drops
  <2> QED
    BY <2>4, <2>7, <2>8, <2>9
<1> QED
  BY <1>7, <1>8 DEF Hashed

\* RemoveAt() closes the gap.
LEMMA RemoveAtIs ==
  ASSUME NEW V, NEW s \in Seq(V), NEW i \in 1 .. Len(s)
  PROVE  Maps!RemoveAt(s, i) = [m \in 1 .. Len(s) - 1 |-> IF m < i THEN s[m] ELSE s[m + 1]]
<1> DEFINE l == Len(s)
           x == SubSeq(s, 1, i - 1)
           y == SubSeq(s, i + 1, l)
           both == x \o y
           f == [m \in 1 .. l - 1 |-> IF m < i THEN s[m] ELSE s[m + 1]]
<1>1. l \in Nat /\ i \in 1 .. l
  OBVIOUS
<1>2. x \in Seq(V) /\ Len(x) = i - 1 /\ \A m \in 1 .. i - 1 : x[m] = s[m]
  BY <1>1
<1>3. y \in Seq(V) /\ Len(y) = l - i /\ \A m \in 1 .. l - i : y[m] = s[m + i]
  BY <1>1
<1> HIDE DEF x, y, l
<1>4. both \in Seq(V) /\ Len(both) = l - 1
  BY <1>1, <1>2, <1>3
<1>5. ASSUME NEW m \in 1 .. l - 1 PROVE both[m] = IF m < i THEN s[m] ELSE s[m + 1]
  <2>1. CASE m < i
    BY <2>1, <1>1, <1>2, <1>3
  <2>2. CASE ~(m < i)
    <3>1. both[m] = y[m - (i - 1)]
      BY <2>2, <1>1, <1>2, <1>3
    <3>2. m - (i - 1) \in 1 .. l - i /\ (m - (i - 1)) + i = m + 1
      BY <2>2, <1>1
    <3> QED
      BY <2>2, <3>1, <3>2, <1>3
  <2> QED
    BY <2>1, <2>2
<1>6. Maps!RemoveAt(s, i) = both
  BY Zenon DEF Maps!RemoveAt, x, y, l
<1> HIDE DEF both
<1>7. both = [m \in 1 .. l - 1 |-> both[m]]
  BY <1>4
<1>8. both = f
  BY <1>5, <1>7
<1> QED
  BY <1>6, <1>8 DEF l

\* The one place of a key in the items of an array.
At(items, key, i) ==
    /\ i \in DOMAIN items /\ items[i][1] = key
    /\ \A j \in DOMAIN items : items[j][1] = key => j = i

LEMMA ElementAt ==
  ASSUME NEW a, a.used \in Nat, Apart(a), NEW pos, Lists(a, pos), NEW i \in 1 .. Len(pos)
  PROVE  At(Elements(a), KeyAt(a, pos[i]), i)
<1>1. Elements(a) = ItemsAt(a, pos)
  BY ElementsAre
<1>2. Len(pos) \in Nat /\ \A j \in 1 .. Len(pos) : pos[j] \in Live(a) /\ pos[j] \in Nat
  BY DEF Lists
<1>3. \A j \in 1 .. Len(pos) : ItemsAt(a, pos)[j][1] = KeyAt(a, pos[j])
  BY DEF ItemsAt, Item, KeyAt
<1>4. DOMAIN ItemsAt(a, pos) = 1 .. Len(pos)
  BY DEF ItemsAt
<1>5. ASSUME NEW j \in 1 .. Len(pos), KeyAt(a, pos[j]) = KeyAt(a, pos[i]) PROVE j = i
  <2>1. pos[j] = pos[i]
    BY <1>2, <1>5 DEF Apart
  <2>2. \A k, m \in 1 .. Len(pos) : k < m => pos[k] < pos[m]
    BY DEF Lists
  <2>3. ~(j < i) /\ ~(i < j)
    BY <1>2, <2>1, <2>2
  <2> QED
    BY <1>2, <2>3
<1> QED
  BY <1>1, <1>3, <1>4, <1>5 DEF At

\* An iteration no longer meets the removed entry, and all others as before.
LEMMA DropsLists ==
  ASSUME NEW a, NEW c, a.used \in Nat, Apart(a), Counted(a), NEW p \in Live(a), NEW n,
         Drops(a, c, p, n)
  PROVE  /\ Counted(c) /\ a.size \in Nat \ {0}
         /\ \E i : /\ At(Elements(a), KeyAt(a, p), i)
                  /\ Elements(c) = Maps!RemoveAt(Elements(a), i)
<1>1. PICK pos : Lists(a, pos) /\ Len(pos) = a.size
  BY DEF Counted
<1>2. PICK i \in 1 .. Len(pos) : pos[i] = p
  BY <1>1 DEF Lists
<1> DEFINE l == Len(pos)
           k(m) == IF m < i THEN m ELSE m + 1
           rest == [m \in 1 .. l - 1 |-> pos[k(m)]]
<1>3. l \in Nat \ {0} /\ i \in 1 .. l /\ pos \in Seq(Nat)
  BY <1>1, <1>2 DEF Lists
<1>4. \A m \in 1 .. l - 1 : k(m) \in 1 .. l /\ k(m) # i
  BY <1>3
<1>5. /\ \A j, m \in 1 .. l : j < m => pos[j] < pos[m]
      /\ \A m \in 1 .. l : pos[m] \in Live(a) /\ pos[m] \in Nat
      /\ \A q \in Live(a) : \E m \in 1 .. l : pos[m] = q
  BY <1>1, <1>3, SMTT(30) DEF Lists
<1>6. rest \in Seq(Nat) /\ Len(rest) = l - 1 /\ \A m \in 1 .. l - 1 : rest[m] = pos[k(m)]
  BY <1>3, <1>4, <1>5
<1>7. \A j, m \in 1 .. l - 1 : j < m => k(j) < k(m)
  BY <1>3
<1>8. \A m \in 1 .. l : m # i => pos[m] # p
  <2> SUFFICES ASSUME NEW m \in 1 .. l, m # i PROVE pos[m] # p
    OBVIOUS
  <2>1. m < i \/ i < m
    BY <1>3
  <2>2. pos[m] < pos[i] \/ pos[i] < pos[m]
    BY <2>1, <1>3, <1>5
  <2> QED
    BY <2>2, <1>2, <1>3, <1>5
<1>9. Live(c) = Live(a) \ {p} /\ \A q \in Live(c) : Item(c, q) = Item(a, q)
  BY DropsLive
<1>10. \A m \in 1 .. l : m # i => \E j \in 1 .. l - 1 : k(j) = m
  <2> SUFFICES ASSUME NEW m \in 1 .. l, m # i PROVE \E j \in 1 .. l - 1 : k(j) = m
    OBVIOUS
  <2>1. CASE m < i
    <3>1. m \in 1 .. l - 1 /\ k(m) = m
      BY <2>1, <1>3
    <3> QED
      BY <3>1
  <2>2. CASE ~(m < i)
    <3>1. m - 1 \in 1 .. l - 1 /\ k(m - 1) = m
      BY <2>2, <1>3
    <3> QED
      BY <3>1
  <2> QED
    BY <2>1, <2>2
<1> HIDE DEF l, k, rest
<1>11. Lists(c, rest)
  <2>1. \A j, m \in 1 .. l - 1 : j < m => rest[j] < rest[m]
    BY <1>4, <1>5, <1>6, <1>7
  <2>2. \A m \in 1 .. l - 1 : rest[m] \in Live(c)
    BY <1>4, <1>5, <1>6, <1>8, <1>9
  <2>3. ASSUME NEW q \in Live(c) PROVE \E j \in 1 .. l - 1 : rest[j] = q
    <3>1. PICK m \in 1 .. l : pos[m] = q
      BY <1>5, <1>9
    <3>2. m # i
      BY <3>1, <1>2, <1>9
    <3> QED
      BY <3>1, <3>2, <1>6, <1>10
  <2> QED
    BY <1>6, <2>1, <2>2, <2>3 DEF Lists
<1>12. a.size = l /\ c.size = l - 1 /\ c.used = a.used
  BY <1>1 DEF Drops, l
<1>13. Counted(c)
  BY <1>6, <1>11, <1>12 DEF Counted
<1>14. Elements(a) = ItemsAt(a, pos) /\ Elements(c) = ItemsAt(c, rest)
  BY <1>1, <1>11, <1>12, ElementsAre
<1> DEFINE V == {Item(a, q) : q \in Live(a)}
           s == ItemsAt(a, pos)
<1>15. s \in Seq(V) /\ Len(s) = l /\ \A m \in 1 .. l : s[m] = Item(a, pos[m])
  <2>1. \A m \in 1 .. l : Item(a, pos[m]) \in V
    BY <1>5
  <2>2. s = [m \in 1 .. l |-> Item(a, pos[m])]
    BY DEF ItemsAt, l
  <2> HIDE DEF V, s
  <2> QED
    BY <1>3, <2>1, <2>2
<1> HIDE DEF V, s
<1>16. Maps!RemoveAt(s, i) = [m \in 1 .. l - 1 |-> IF m < i THEN s[m] ELSE s[m + 1]]
  BY <1>3, <1>15, RemoveAtIs
<1>17. ASSUME NEW m \in 1 .. l - 1
       PROVE  Item(c, rest[m]) = IF m < i THEN s[m] ELSE s[m + 1]
  <2>1. rest[m] = pos[k(m)] /\ k(m) \in 1 .. l /\ rest[m] \in Live(c)
    BY <1>4, <1>6, <1>11 DEF Lists
  <2>2. Item(c, rest[m]) = s[k(m)]
    BY <2>1, <1>9, <1>15
  <2> QED
    BY <2>2 DEF k
<1>18. ItemsAt(c, rest) = Maps!RemoveAt(s, i)
  BY <1>6, <1>16, <1>17 DEF ItemsAt
<1>19. At(Elements(a), KeyAt(a, p), i)
  BY <1>1, <1>2, ElementAt
<1> QED
  BY <1>3, <1>12, <1>13, <1>14, <1>18, <1>19 DEF s

\* Removing a key keeps the array sound and takes one item out of the order.
LEMMA RemovalSound ==
  ASSUME NEW a, Sound(a), ~a.packed, NEW p \in Live(a)
  PROVE  LET c == Removal(a, p)
         IN  /\ Sound(c) /\ c.next_index = a.next_index
             /\ \E i : /\ At(Elements(a), KeyAt(a, p), i)
                      /\ Elements(c) = Maps!RemoveAt(Elements(a), i)
<1> DEFINE c == Removal(a, p)
<1>0. /\ a \in ArrayRecord /\ Fits(a) /\ Apart(a) /\ Counted(a) /\ a.used \in Nat
      /\ p \in 0 .. a.used - 1
  BY DEF Sound, ArrayRecord, Live
<1>1. PICK n \in MinBuckets .. UINT16_LIMIT : Hashed(a, n) /\ a.size * 4 <= n * 3
  BY DEF Sound, AsHash
<1>2. n \in Nat /\ n # 0
  BY LimitsAssumption
<1>3. a.buckets \in [0 .. n - 1 -> Int]
  <2>1. \A b : Highest(Chained(a, n, b)) \in Int
    <3> SUFFICES ASSUME NEW b PROVE Highest(Chained(a, n, b)) \in Int
      OBVIOUS
    <3>1. Highest(Chained(a, n, b)) \in -1 .. a.used - 1
      BY <1>0, HighestFits DEF Chained
    <3> QED
      BY <3>1
  <2> QED
    BY <2>1, <1>1 DEF Hashed
<1>4. a.size > 0
  <2>1. PICK pos : Lists(a, pos) /\ Len(pos) = a.size
    BY <1>0 DEF Counted
  <2>2. \E i \in 1 .. Len(pos) : pos[i] = p
    BY <2>1 DEF Lists
  <2> QED
    BY <1>0, <2>1, <2>2 DEF ArrayRecord
<1>5. /\ c \in ArrayRecord /\ c.packed = a.packed /\ c.size = a.size - 1 /\ c.used = a.used
      /\ c.capacity = a.capacity /\ c.next_index = a.next_index
      /\ c.buckets = [b \in 0 .. n - 1 |-> Past(a, p, a.buckets[b])]
      /\ Len(c.entries) = a.used /\ KeyAt(c, p) = Tombstone /\ NextAt(c, p) = -1
      /\ \A q \in 0 .. a.used - 1 : q # p =>
            /\ KeyAt(c, q) = KeyAt(a, q) /\ Item(c, q) = Item(a, q)
            /\ NextAt(c, q) = Past(a, p, NextAt(a, q))
  BY <1>0, <1>2, <1>3, <1>4, RemovalIs
<1> HIDE DEF c
<1>6. Drops(a, c, p, n)
  BY <1>5 DEF Drops
<1>7. /\ Live(c) = Live(a) \ {p}
      /\ \A q \in Live(c) : KeyAt(c, q) = KeyAt(a, q)
  BY <1>6, DropsLive
<1>8. Hashed(c, n)
  BY <1>0, <1>1, <1>2, <1>6, DropsHashed
<1>9. /\ Counted(c)
      /\ \E i : /\ At(Elements(a), KeyAt(a, p), i)
               /\ Elements(c) = Maps!RemoveAt(Elements(a), i)
  BY <1>0, <1>6, DropsLists
<1>10. Apart(c)
  BY <1>0, <1>5, <1>7 DEF Apart
<1>11. Fits(c)
  <2>1. ASSUME NEW q \in 0 .. c.used - 1, q \notin Live(c) PROVE NextAt(c, q) = -1
    <3>1. CASE q = p
      BY <3>1, <1>5
    <3>2. CASE q # p
      <4>1. q \in 0 .. a.used - 1 /\ q \notin Live(a)
        BY <3>2, <2>1, <1>5, <1>7
      <4>2. NextAt(a, q) = -1
        BY <4>1, <1>0 DEF Fits
      <4>3. NextAt(c, q) = Past(a, p, NextAt(a, q))
        BY <3>2, <4>1, <1>5
      <4> QED
        BY <4>2, <4>3, <1>0 DEF Past
    <3> QED
      BY <3>1, <3>2
  <2> QED
    BY <2>1, <1>0, <1>5 DEF Fits
<1>12. c.size * 4 <= n * 3
  BY <1>0, <1>1, <1>2, <1>4, <1>5 DEF ArrayRecord
<1>13. AsHash(c) /\ ~c.packed
  BY <1>1, <1>5, <1>8, <1>12 DEF AsHash
<1> QED
  BY <1>5, <1>9, <1>10, <1>11, <1>13 DEF Sound, c

-----------------------------------------------------------------------------
(* The operations on one array.                                            *)

\* Making room keeps the items.
LEMMA PromotedSound ==
  ASSUME NEW a, Sound(a), NEW key \in Keys, CanPromote(a, key)
  PROVE  LET c == Promoted(a, key)
         IN  /\ Sound(c) /\ SameEntries(a, c) /\ Elements(c) = Elements(a)
             /\ c.capacity = a.capacity
             /\ c.packed => key = <<"int", c.used>>
<1>0. a \in ArrayRecord /\ Fits(a)
  BY DEF Sound
<1>1. CASE a.packed /\ key # <<"int", a.used>>
  <2>1. Promoted(a, key) = promote_hash(a)
    BY <1>1 DEF Promoted
  <2>2. PromotedBuckets(a) \in Nat
    BY SizeFits, PromotedIs, LimitsAssumption
  <2>3. ~promote_hash(a).packed
    BY <1>0, <2>2, RehashIs DEF promote_hash
  <2>4. ~TooManyBuckets(PromotedBuckets(a))
    BY <1>1, <2>1, <2>3 DEF CanPromote
  <2> QED
    BY <2>1, <2>4, PromoteSound
<1>2. CASE ~(a.packed /\ key # <<"int", a.used>>)
  <2>1. Promoted(a, key) = a
    BY <1>2 DEF Promoted
  <2> QED
    BY <1>2, <2>1 DEF SameEntries, SameKeys
<1> QED
  BY <1>1, <1>2

LEMMA RehashedSound ==
  ASSUME NEW a, Sound(a), CanRehash(a)
  PROVE  LET c == Rehashed(a)
         IN  /\ Sound(c) /\ SameEntries(a, c) /\ Elements(c) = Elements(a)
             /\ c.capacity = a.capacity /\ c.packed = a.packed
             /\ ~c.packed => (c.size + 1) * 4 <= BucketCount(c) * 3
<1>0. a \in ArrayRecord /\ Fits(a) /\ Apart(a) /\ Counted(a) /\ a.size \in Nat
      /\ a.packed \in BOOLEAN
  BY DEF Sound, ArrayRecord
<1>1. CASE a.packed
  <2>1. Rehashed(a) = a
    BY <1>1 DEF Rehashed, NeedsBuckets
  <2> QED
    BY <1>1, <2>1 DEF SameEntries, SameKeys
<1>2. CASE ~a.packed
  <2>1. PICK n \in MinBuckets .. UINT16_LIMIT : Hashed(a, n) /\ a.size * 4 <= n * 3
    BY <1>2 DEF Sound, AsHash
  <2>2. n \in Nat /\ n >= 2
    BY LimitsAssumption
  <2>3. BucketCount(a) = n
    BY <2>1, <2>2, CountIs DEF Hashed
  <2>4. CASE ~NeedsBuckets(a)
    <3>1. Rehashed(a) = a /\ ~((a.size + 1) * 4 > n * 3)
      BY <1>2, <2>3, <2>4 DEF Rehashed, NeedsBuckets
    <3>2. (a.size + 1) * 4 <= n * 3
      BY <3>1, <1>0, <2>2
    <3> QED
      BY <3>1, <3>2, <2>3 DEF SameEntries, SameKeys
  <2>5. CASE NeedsBuckets(a)
    <3> DEFINE m == 2 * n
               c == rehash(a, m)
    <3>1. Rehashed(a) = c
      BY <2>3, <2>5 DEF Rehashed
    <3>2. m \in Nat /\ m <= UINT16_LIMIT
      BY <2>2, <2>3, <2>5, LimitsAssumption DEF CanRehash, TooManyBuckets
    <3>3. a.size * 4 <= m * 3 /\ (a.size + 1) * 4 <= m * 3
      BY <1>0, <2>1, <2>2
    <3> HIDE DEF m
    <3>4. /\ Sound(c) /\ ~c.packed /\ SameEntries(a, c) /\ Elements(c) = Elements(a)
          /\ c.capacity = a.capacity /\ BucketCount(c) >= m
      BY <1>0, <3>2, <3>3, RehashSound
    <3> HIDE DEF c
    <3>5. BucketCount(c) \in Nat /\ c.size = a.size
      <4>1. PICK k \in MinBuckets .. UINT16_LIMIT : Hashed(c, k)
        BY <3>4 DEF Sound, AsHash
      <4>2. k \in Nat
        BY LimitsAssumption
      <4>3. BucketCount(c) = k
        BY <4>1, <4>2, CountIs DEF Hashed
      <4> QED
        BY <3>4, <4>2, <4>3 DEF SameEntries, SameKeys
    <3>6. (c.size + 1) * 4 <= BucketCount(c) * 3
      BY <1>0, <3>2, <3>3, <3>4, <3>5
    <3>7. c.packed = a.packed
      BY <1>0, <1>2, <3>4, <3>5 DEF Sound, ArrayRecord
    <3> QED
      BY <3>1, <3>4, <3>6, <3>7
  <2> QED
    BY <2>4, <2>5
<1> QED
  BY <1>1, <1>2

\* What a failed insertion leaves is the same map.
LEMMA FailuresSound ==
  ASSUME NEW a, Sound(a), NEW key \in Keys, NEW c \in SetFailures(a, key)
  PROVE  Sound(c) /\ Elements(c) = Elements(a) /\ c.next_index = a.next_index
<1> DEFINE h == Promoted(a, key)
           w == Rehashed(h)
<1>1. \/ c = a
      \/ c = h /\ CanPromote(a, key)
      \/ c = w /\ CanPromote(a, key) /\ CanRehash(h)
  BY DEF SetFailures
<1> HIDE DEF w
<1>2. ASSUME CanPromote(a, key)
      PROVE  Sound(h) /\ Elements(h) = Elements(a) /\ h.next_index = a.next_index
  BY <1>2, PromotedSound DEF SameEntries, SameKeys
<1> HIDE DEF h
<1>3. ASSUME CanPromote(a, key), CanRehash(h)
      PROVE  Sound(w) /\ Elements(w) = Elements(a) /\ w.next_index = a.next_index
  BY <1>2, <1>3, RehashedSound DEF SameEntries, SameKeys, w
<1> QED
  BY <1>1, <1>2, <1>3

\* A successful insertion puts the item at the end.
LEMMA PutSound ==
  ASSUME NEW a, Sound(a), NEW key \in Keys, NEW value \in Values,
         \A p \in Live(a) : KeyAt(a, p) # key, SetPossible(a, key)
  PROVE  LET c == Insert(Rehashed(Promoted(a, key)), key, value)
         IN  /\ Sound(c) /\ c.next_index = NextIndex(a.next_index, key)
             /\ Elements(c) = Append(Elements(a), <<key, value>>)
<1> DEFINE h == Promoted(a, key)
           w == Rehashed(h)
<1>0. a.used \in Nat
  BY DEF Sound, ArrayRecord
<1>1. /\ Sound(h) /\ SameEntries(a, h) /\ Elements(h) = Elements(a)
      /\ h.capacity = a.capacity
      /\ h.packed => key = <<"int", h.used>>
  BY PromotedSound DEF SetPossible
<1>2. CanRehash(h)
  BY DEF SetPossible
<1> HIDE DEF h
<1>3. /\ Sound(w) /\ SameEntries(h, w) /\ Elements(w) = Elements(h)
      /\ w.capacity = h.capacity /\ w.packed = h.packed
      /\ ~w.packed => (w.size + 1) * 4 <= BucketCount(w) * 3
  BY <1>1, <1>2, RehashedSound
<1> HIDE DEF w
<1>4. /\ w.used = a.used /\ w.next_index = a.next_index /\ w.capacity = a.capacity
      /\ h.used = a.used /\ \A p \in 0 .. a.used - 1 : KeyAt(w, p) = KeyAt(a, p)
  BY <1>1, <1>3 DEF SameEntries, SameKeys
<1>5. \A p \in Live(w) : KeyAt(w, p) # key
  <2>1. Live(w) = Live(h) /\ Live(h) = Live(a)
    BY <1>0, <1>1, <1>3, <1>4, CarryOver
  <2> QED
    BY <2>1, <1>4 DEF Live
<1>6. ~CannotGrow(w, w.used + 1)
  BY <1>4 DEF SetPossible, CannotGrow, NeedsEntries, GrownCapacity
<1>7. w.packed => key = <<"int", w.used>>
  BY <1>1, <1>3, <1>4
<1>8. /\ Sound(Insert(w, key, value))
      /\ Insert(w, key, value).next_index = NextIndex(w.next_index, key)
      /\ Elements(Insert(w, key, value)) = Append(Elements(w), <<key, value>>)
  BY <1>3, <1>5, <1>6, <1>7, InsertSound
<1> QED
  BY <1>1, <1>3, <1>4, <1>8 DEF w, h

\* pa_new(): an empty array, with the capacity asked for.
LEMMA NoBuckets == <<>> \in BucketVectors
<1>1. 0 .. 0 - 1 = {}
  OBVIOUS
<1>2. <<>> \in [{} -> Int]
  OBVIOUS
<1> QED
  BY <1>1, <1>2 DEF BucketVectors

\* The first allocation holds what was asked for.
LEMMA FirstFits ==
  ASSUME NEW a, a.capacity = 0, NEW m \in Nat, m <= UINT16_LIMIT
  PROVE  ~CannotGrow(a, m)
<1>1. GrownCapacity(a, m) # 0
  BY LimitsAssumption DEF GrownCapacity
<1> QED
  BY <1>1 DEF CannotGrow

LEMMA NewSound ==
  ASSUME NEW hint \in Nat, hint <= UINT16_LIMIT
  PROVE  LET c == ensure_entries(EmptyArray, hint)
         IN  Sound(c) /\ Elements(c) = <<>> /\ c.next_index = 0
<1> DEFINE c == ensure_entries(EmptyArray, hint)
<1>1. /\ EmptyArray \in ArrayRecord /\ EmptyArray.capacity = 0
      /\ EmptyArray.packed = TRUE /\ EmptyArray.size = 0 /\ EmptyArray.used = 0
      /\ EmptyArray.next_index = 0 /\ EmptyArray.entries = <<>> /\ EmptyArray.buckets = <<>>
  BY NoBuckets DEF EmptyArray, ArrayRecord, Entries
<1>2. /\ c \in ArrayRecord /\ c.packed = TRUE /\ c.size = 0 /\ c.used = 0
      /\ c.next_index = 0 /\ c.entries = <<>> /\ c.buckets = <<>>
      /\ c.capacity <= UINT16_LIMIT
  <2>1. ~CannotGrow(EmptyArray, hint)
    BY <1>1, FirstFits
  <2> QED
    BY <1>1, <2>1, EnsureIs, LimitsAssumption
<1> HIDE DEF c
<1>3. Live(c) = {} /\ c.capacity \in Nat /\ Len(c.entries) = 0 /\ 0 .. c.used - 1 = {}
  BY <1>2 DEF Live, ArrayRecord
<1>4. Fits(c) /\ Apart(c) /\ AsList(c)
  BY <1>2, <1>3, MaximumAssumption DEF Fits, Apart, AsList
<1>5. Lists(c, <<>>) /\ Len(<<>>) = 0
  BY <1>3 DEF Lists
<1>6. Counted(c)
  BY <1>2, <1>5 DEF Counted
<1>7. Elements(c) = ItemsAt(c, <<>>)
  BY <1>2, <1>5, ElementsAre
<1>8. ItemsAt(c, <<>>) = <<>>
  BY <1>5 DEF ItemsAt
<1> QED
  BY <1>2, <1>4, <1>6, <1>7, <1>8 DEF Sound, c

\* What pa_clone() makes of an array.
Clone(a) ==
    LET copy == ensure_entries([a EXCEPT !.buckets = <<>>, !.capacity = 0], a.capacity)
    IN  IF a.packed THEN copy ELSE rehash(copy, BucketCount(a))

LEMMA CloneSound ==
  ASSUME NEW a, Sound(a)
  PROVE  /\ Sound(Clone(a)) /\ Elements(Clone(a)) = Elements(a)
         /\ Clone(a).next_index = a.next_index
<1> DEFINE bare == [a EXCEPT !.buckets = <<>>, !.capacity = 0]
           copy == ensure_entries(bare, a.capacity)
<1>0. /\ a \in ArrayRecord /\ Fits(a) /\ Apart(a) /\ Counted(a) /\ a.used \in Nat
      /\ a.capacity \in Nat /\ a.capacity <= UINT16_LIMIT /\ a.used <= a.capacity
      /\ a.size \in Nat
  BY DEF Sound, ArrayRecord, Fits
<1>1. /\ bare \in ArrayRecord /\ bare.capacity = 0 /\ bare.packed = a.packed
      /\ bare.size = a.size /\ bare.used = a.used /\ bare.next_index = a.next_index
      /\ bare.entries = a.entries /\ bare.buckets = <<>>
  BY <1>0, NoBuckets DEF ArrayRecord
<1> HIDE DEF bare
<1>2. /\ copy \in ArrayRecord /\ copy.packed = a.packed /\ copy.size = a.size
      /\ copy.used = a.used /\ copy.next_index = a.next_index
      /\ copy.entries = a.entries /\ copy.buckets = <<>>
      /\ a.capacity <= copy.capacity /\ copy.capacity <= UINT16_LIMIT
  <2>1. ~CannotGrow(bare, a.capacity)
    BY <1>0, <1>1, FirstFits
  <2> QED
    BY <1>0, <1>1, <2>1, EnsureIs, LimitsAssumption
<1> HIDE DEF copy
<1>3. /\ SameEntries(a, copy)
      /\ \A p : NextAt(copy, p) = NextAt(a, p)
  BY <1>2 DEF SameEntries, SameKeys, KeyAt, Item, NextAt
<1>4. Live(copy) = Live(a) /\ Apart(copy) /\ Counted(copy) /\ Elements(copy) = Elements(a)
  BY <1>0, <1>3, CarryOver, SameElements
<1>5. Fits(copy)
  <2>1. a.used <= copy.capacity
    BY <1>0, <1>2 DEF ArrayRecord
  <2> QED
    BY <1>0, <1>2, <1>3, <1>4, <2>1 DEF Fits
<1>6. CASE a.packed
  <2>1. AsList(copy)
    BY <1>2, <1>3, <1>6 DEF Sound, AsList, SameEntries, SameKeys
  <2>2. Clone(a) = copy
    BY <1>6 DEF Clone, copy, bare
  <2> QED
    BY <1>2, <1>4, <1>5, <1>6, <2>1, <2>2 DEF Sound
<1>7. CASE ~a.packed
  <2>1. PICK n \in MinBuckets .. UINT16_LIMIT : Hashed(a, n) /\ a.size * 4 <= n * 3
    BY <1>7 DEF Sound, AsHash
  <2>2. n \in Nat /\ n <= UINT16_LIMIT
    BY LimitsAssumption
  <2>3. BucketCount(a) = n
    BY <2>1, <2>2, CountIs DEF Hashed
  <2>4. Clone(a) = rehash(copy, n)
    BY <1>7, <2>3 DEF Clone, copy, bare
  <2>5. /\ Sound(rehash(copy, n)) /\ SameEntries(copy, rehash(copy, n))
        /\ Elements(rehash(copy, n)) = Elements(copy)
    BY <1>2, <1>4, <1>5, <2>1, <2>2, RehashSound
  <2> QED
    BY <1>2, <1>4, <2>4, <2>5 DEF SameEntries, SameKeys
<1> QED
  BY <1>6, <1>7

-----------------------------------------------------------------------------
(* The invariant, and what it says of lookups.                             *)

IInv ==
    /\ array = [x \in Arrays |-> array[x]]
    /\ \A x \in Arrays : Has(x) => Sound(array[x])

\* An array that is there is told from none by its entries.
LEMMA SoundIsArray ==
  ASSUME NEW a, Sound(a)
  PROVE  a # NoArray /\ a.next_index \in Nat
<1>1. a.used \in Nat /\ a.next_index \in Nat
  BY DEF Sound, ArrayRecord
<1>2. NoArray.used = -1
  BY DEF NoArray, EmptyArray
<1> QED
  BY <1>1, <1>2

LEMMA NormalKeys ==
  /\ \A input \in Inputs : normalize_key(input) # NoKey => normalize_key(input) \in Keys
  /\ \A n \in 0 .. PPHP_INT_MAXIMUM :
        /\ normalize_key(<<"int", n>>) = <<"int", n>> /\ <<"int", n>> \in Keys
        /\ <<"int", n>> # NoKey
<1>1. \A n : normalize_key(<<"int", n>>) = <<"int", n>> /\ <<"int", n>> # NoKey
  BY DEF normalize_key, NoKey
<1> QED
  BY <1>1 DEF Keys

-----------------------------------------------------------------------------
(* The operations on the maps they show.                                   *)

LEMMA ShownIs ==
  ASSUME NEW a, Sound(a)
  PROVE  /\ Shown(a) = [items |-> Elements(a), next |-> a.next_index]
         /\ Shown(a).items = Elements(a) /\ Shown(a).next = a.next_index
         /\ Shown(a).next # -1
<1>1. a # NoArray /\ a.next_index \in Nat
  BY SoundIsArray
<1> QED
  BY <1>1 DEF Shown

\* A key that no entry has is in no item.
LEMMA MissingKey ==
  ASSUME NEW a, Sound(a), NEW key, \A p \in Live(a) : KeyAt(a, p) # key
  PROVE  Maps!Where(Shown(a), key) = {}
<1>1. a.used \in Nat /\ Counted(a)
  BY DEF Sound, ArrayRecord
<1>2. PICK pos : Lists(a, pos)
  BY <1>1 DEF Counted
<1>3. Shown(a).items = ItemsAt(a, pos)
  BY <1>1, <1>2, ElementsAre, ShownIs
<1>4. ASSUME NEW i \in DOMAIN ItemsAt(a, pos), ItemsAt(a, pos)[i][1] = key PROVE FALSE
  <2>1. i \in 1 .. Len(pos) /\ pos[i] \in Live(a)
    BY <1>2 DEF ItemsAt, Lists
  <2>2. ItemsAt(a, pos)[i][1] = KeyAt(a, pos[i])
    BY <2>1 DEF ItemsAt, Item, KeyAt
  <2> QED
    BY <2>1, <2>2, <1>4
<1> QED
  BY <1>3, <1>4 DEF Maps!Where

\* A key that an entry has is in one item.
LEMMA PresentKey ==
  ASSUME NEW a, Sound(a), NEW p \in Live(a)
  PROVE  \E i : At(Elements(a), KeyAt(a, p), i) /\ Elements(a)[i] = Item(a, p)
<1>1. a.used \in Nat /\ Counted(a) /\ Apart(a)
  BY DEF Sound, ArrayRecord
<1>2. PICK pos : Lists(a, pos)
  BY <1>1 DEF Counted
<1>3. PICK i \in 1 .. Len(pos) : pos[i] = p
  BY <1>2 DEF Lists
<1>4. At(Elements(a), KeyAt(a, pos[i]), i)
  BY <1>1, <1>2, ElementAt
<1>5. Elements(a)[i] = Item(a, pos[i])
  BY <1>1, <1>2, ElementsAre DEF ItemsAt
<1> QED
  BY <1>3, <1>4, <1>5

LEMMA WhereAt ==
  ASSUME NEW a, Sound(a), NEW key, NEW i, At(Elements(a), key, i)
  PROVE  Maps!Where(Shown(a), key) = {i}
<1>1. Shown(a).items = Elements(a)
  BY ShownIs
<1>2. \A j : j \in Maps!Where(Shown(a), key) <=> j = i
  BY <1>1 DEF Maps!Where, At
<1> QED
  BY <1>2

\* The three results of OrderedMap, in the terms of the lemmas above.
LEMMA AppendIsStored ==
  ASSUME NEW a, Sound(a), NEW key, NEW value, \A p \in Live(a) : KeyAt(a, p) # key,
         NEW c, Sound(c), c.next_index = NextIndex(a.next_index, key),
         Elements(c) = Append(Elements(a), <<key, value>>)
  PROVE  Shown(c) = Maps!Stored(Shown(a), key, value)
<1>1. Maps!Where(Shown(a), key) = {}
  BY MissingKey
<1>2. Maps!After(a.next_index, key) = NextIndex(a.next_index, key)
  BY DEF Maps!After, NextIndex
<1>3. Maps!Stored(Shown(a), key, value) =
        [items |-> Append(Elements(a), <<key, value>>), next |-> Maps!After(a.next_index, key)]
  BY <1>1, ShownIs DEF Maps!Stored
<1> QED
  BY <1>2, <1>3, ShownIs

LEMMA ReplaceIsStored ==
  ASSUME NEW a, Sound(a), NEW p \in Live(a), NEW value,
         NEW c, Sound(c), c.next_index = a.next_index,
         Elements(c) = Replaced(Elements(a), KeyAt(a, p), value)
  PROVE  Shown(c) = Maps!Stored(Shown(a), KeyAt(a, p), value)
<1> DEFINE key == KeyAt(a, p)
           new == [i \in DOMAIN Elements(a) |->
                      IF i \in Maps!Where(Shown(a), key) THEN <<key, value>> ELSE Elements(a)[i]]
<1>1. PICK i : At(Elements(a), key, i)
  BY PresentKey
<1> HIDE DEF key
<1>2. Maps!Where(Shown(a), key) = {i}
  BY <1>1, WhereAt
<1>3. new = Replaced(Elements(a), key, value)
  <2>1. \A j \in DOMAIN Elements(a) : Elements(a)[j][1] = key <=> j = i
    BY <1>1 DEF At
  <2> QED
    BY <2>1, <1>2 DEF Replaced
<1>4. Maps!Stored(Shown(a), key, value) = [Shown(a) EXCEPT !.items = new]
  BY <1>2, ShownIs DEF Maps!Stored
<1> HIDE DEF new
<1>5. [Shown(a) EXCEPT !.items = new] = [items |-> new, next |-> a.next_index]
  BY ShownIs
<1> QED
  BY <1>3, <1>4, <1>5, ShownIs DEF key

LEMMA RemoveIsWithout ==
  ASSUME NEW a, Sound(a), NEW key, NEW i, At(Elements(a), key, i),
         NEW c, Sound(c), c.next_index = a.next_index,
         Elements(c) = Maps!RemoveAt(Elements(a), i)
  PROVE  Shown(c) = Maps!Without(Shown(a), key)
<1>1. Maps!Where(Shown(a), key) = {i}
  BY WhereAt
<1>2. (CHOOSE j \in {i} : TRUE) = i
  OBVIOUS
<1> DEFINE new == Maps!RemoveAt(Elements(a), i)
<1>3. Maps!Without(Shown(a), key) = [Shown(a) EXCEPT !.items = new]
  <2>1. Maps!Without(Shown(a), key) =
          [Shown(a) EXCEPT !.items = Maps!RemoveAt(Shown(a).items, CHOOSE j \in {i} : TRUE)]
    BY <1>1 DEF Maps!Without
  <2> QED
    BY <2>1, <1>2, ShownIs
<1> HIDE DEF new
<1>4. [Shown(a) EXCEPT !.items = new] = [items |-> new, next |-> a.next_index]
  BY ShownIs
<1> QED
  BY <1>3, <1>4, ShownIs DEF new

\* One array changes.
LEMMA OneChanges ==
  ASSUME IInv, NEW x \in Arrays, NEW c, array' = [array EXCEPT ![x] = c],
         c = NoArray \/ Sound(c)
  PROVE  IInv' /\ AsMaps' = [AsMaps EXCEPT ![x] = Shown(c)] /\ AsMaps[x] = Shown(array[x])
<1>1. array' = [y \in Arrays |-> IF y = x THEN c ELSE array[y]]
  BY DEF IInv
<1>2. array' = [y \in Arrays |-> array'[y]]
  BY <1>1
<1>3. \A y \in Arrays : array'[y] = IF y = x THEN c ELSE array[y]
  BY <1>1
<1>4. \A y \in Arrays : array'[y] # NoArray => Sound(array'[y])
  BY <1>3 DEF IInv, Has
<1>5. AsMaps' = [y \in Arrays |-> IF y = x THEN Shown(c) ELSE Shown(array[y])]
  BY <1>3 DEF AsMaps
<1>6. AsMaps = [y \in Arrays |-> Shown(array[y])]
  BY DEF AsMaps
<1> HIDE DEF AsMaps
<1> QED
  BY <1>2, <1>4, <1>5, <1>6 DEF IInv, Has

-----------------------------------------------------------------------------
(* The steps.                                                              *)

\* The keys of OrderedMap, as PArray instantiates it.
MapKeys == ({normalize_key(input) : input \in Inputs} \ {NoKey})
           \cup {<<"int", PPHP_INT_MAXIMUM>>}

\* pa_set() with a legal key stores under it.
LEMMA SetStep ==
  ASSUME IInv, NEW x \in Arrays, NEW input, NEW value \in Values,
         normalize_key(input) \in Keys, pa_set(x, input, value)
  PROVE  /\ IInv' /\ Sound(array[x]) /\ AsMaps[x] = Shown(array[x])
         /\ AsMaps' = [AsMaps EXCEPT ![x] =
                          Maps!Stored(Shown(array[x]), normalize_key(input), value)]
<1> DEFINE a == array[x]
           key == normalize_key(input)
           p == find_entry(a, key)
<1>1. Sound(a) /\ key \in Keys
  BY DEF pa_set, IInv
<1>2. \/ p = -1 /\ \A q \in Live(a) : KeyAt(a, q) # key
      \/ p \in Live(a) /\ KeyAt(a, p) = key
  BY <1>1, FindEntry
<1>3. \A q \in Live(a) : q # -1
  BY <1>1 DEF Live, Sound, ArrayRecord
<1>4. \/ p # -1 /\ array' = [array EXCEPT ![x] = Overwrite(a, p, value)]
      \/ /\ p = -1 /\ SetPossible(a, key)
         /\ array' = [array EXCEPT ![x] = Insert(Rehashed(Promoted(a, key)), key, value)]
  BY DEF pa_set, EMPTY_BUCKET
<1> HIDE DEF a, key, p
<1>5. \E c : /\ array' = [array EXCEPT ![x] = c] /\ Sound(c)
            /\ Shown(c) = Maps!Stored(Shown(a), key, value)
  <2>1. CASE p # -1
    <3> DEFINE c == Overwrite(a, p, value)
    <3>1. p \in Live(a) /\ KeyAt(a, p) = key /\ array' = [array EXCEPT ![x] = c]
      BY <2>1, <1>2, <1>4
    <3>2. /\ Sound(c) /\ c.next_index = a.next_index
          /\ Elements(c) = Replaced(Elements(a), KeyAt(a, p), value)
      BY <1>1, <3>1, OverwriteSound
    <3> HIDE DEF c
    <3>3. Shown(c) = Maps!Stored(Shown(a), KeyAt(a, p), value)
      BY <1>1, <3>1, <3>2, ReplaceIsStored
    <3> QED
      BY <3>1, <3>2, <3>3
  <2>2. CASE p = -1
    <3> DEFINE c == Insert(Rehashed(Promoted(a, key)), key, value)
    <3>1. /\ \A q \in Live(a) : KeyAt(a, q) # key
          /\ SetPossible(a, key) /\ array' = [array EXCEPT ![x] = c]
      BY <2>2, <1>2, <1>3, <1>4
    <3>2. /\ Sound(c) /\ c.next_index = NextIndex(a.next_index, key)
          /\ Elements(c) = Append(Elements(a), <<key, value>>)
      BY <1>1, <3>1, PutSound
    <3> HIDE DEF c
    <3>3. Shown(c) = Maps!Stored(Shown(a), key, value)
      BY <1>1, <3>1, <3>2, AppendIsStored
    <3> QED
      BY <3>1, <3>2, <3>3
  <2> QED
    BY <2>1, <2>2
<1>6. PICK c : /\ array' = [array EXCEPT ![x] = c] /\ Sound(c)
               /\ Shown(c) = Maps!Stored(Shown(a), key, value)
  BY <1>5
<1>7. IInv' /\ AsMaps' = [AsMaps EXCEPT ![x] = Shown(c)] /\ AsMaps[x] = Shown(array[x])
  BY <1>6, OneChanges
<1> QED
  BY <1>1, <1>6, <1>7 DEF a, key

\* An array stays, or is replaced by one that shows the same map.
LEMMA SameMapStep ==
  ASSUME IInv, NEW x \in Arrays, NEW c, array' = [array EXCEPT ![x] = c],
         Sound(array[x]), Sound(c), Elements(c) = Elements(array[x]),
         c.next_index = array[x].next_index
  PROVE  IInv' /\ AsMaps' = AsMaps
<1>1. Shown(c) = Shown(array[x])
  BY ShownIs
<1>2. IInv' /\ AsMaps' = [AsMaps EXCEPT ![x] = Shown(c)] /\ AsMaps[x] = Shown(array[x])
  BY OneChanges
<1>3. AsMaps = [y \in Arrays |-> AsMaps[y]]
  BY DEF AsMaps
<1> QED
  BY <1>1, <1>2, <1>3

LEMMA RemoveStep ==
  ASSUME IInv, NEW x \in Arrays, NEW input \in Inputs, pa_remove(x, input)
  PROVE  /\ IInv' /\ Maps!Exists(x)
         /\ \/ AsMaps' = AsMaps
            \/ AsMaps' = [AsMaps EXCEPT ![x] = Maps!Without(AsMaps[x], normalize_key(input))]
<1> DEFINE old == array[x]
           key == normalize_key(input)
           a == IF old.packed THEN promote_hash(old) ELSE old
           p == find_entry(a, key)
<1>1. Sound(old) /\ key \in Keys
  BY NormalKeys DEF pa_remove, IInv
<1>2. AsMaps[x] = Shown(old) /\ Maps!Exists(x)
  BY <1>1, ShownIs DEF AsMaps, Maps!Exists
<1>3. Sound(a) /\ ~a.packed /\ Elements(a) = Elements(old) /\ a.next_index = old.next_index
  <2>1. CASE old.packed
    <3>1. ~TooManyBuckets(PromotedBuckets(old))
      BY <2>1 DEF pa_remove
    <3>2. /\ Sound(promote_hash(old)) /\ ~promote_hash(old).packed
          /\ SameEntries(old, promote_hash(old)) /\ Elements(promote_hash(old)) = Elements(old)
      BY <1>1, <3>1, PromoteSound
    <3> QED
      BY <2>1, <3>2 DEF SameEntries, SameKeys
  <2>2. CASE ~old.packed
    BY <2>2, <1>1
  <2> QED
    BY <2>1, <2>2
<1>4. array' = [array EXCEPT ![x] = IF p = -1 THEN a ELSE Removal(a, p)]
  BY Zenon DEF pa_remove, Removal, EMPTY_BUCKET
<1>5. \/ p = -1
      \/ p \in Live(a) /\ KeyAt(a, p) = key /\ p # -1
  <2>1. \A q \in Live(a) : q # -1
    BY <1>3 DEF Live, Sound, ArrayRecord
  <2> HIDE DEF a, key
  <2> QED
    BY <2>1, <1>1, <1>3, FindEntry
<1> HIDE DEF a, key, p
<1>6. CASE p = -1
  <2>1. array' = [array EXCEPT ![x] = a]
    BY <1>4, <1>6
  <2>2. IInv' /\ AsMaps' = AsMaps
    BY <2>1, <1>1, <1>3, SameMapStep
  <2> QED
    BY <1>2, <2>2
<1>7. CASE p \in Live(a) /\ KeyAt(a, p) = key /\ p # -1
  <2> DEFINE c == Removal(a, p)
  <2>1. array' = [array EXCEPT ![x] = c]
    BY <1>4, <1>7
  <2>2. /\ Sound(c) /\ c.next_index = a.next_index
        /\ \E i : At(Elements(a), KeyAt(a, p), i) /\ Elements(c) = Maps!RemoveAt(Elements(a), i)
    BY <1>3, <1>7, RemovalSound
  <2> HIDE DEF c
  <2>3. PICK i : At(Elements(a), key, i) /\ Elements(c) = Maps!RemoveAt(Elements(a), i)
    BY <2>2, <1>7
  <2>4. At(Elements(old), key, i) /\ Elements(c) = Maps!RemoveAt(Elements(old), i)
        /\ c.next_index = old.next_index
    BY <2>2, <2>3, <1>3
  <2>5. Shown(c) = Maps!Without(Shown(old), key)
    BY <2>2, <2>4, <1>1, RemoveIsWithout
  <2>6. IInv' /\ AsMaps' = [AsMaps EXCEPT ![x] = Shown(c)]
    BY <2>1, <2>2, OneChanges
  <2> QED
    BY <1>2, <2>5, <2>6 DEF key
<1> QED
  BY <1>5, <1>6, <1>7

LEMMA PushStep ==
  ASSUME IInv, NEW x \in Arrays, NEW value \in Values, pa_push(x, value)
  PROVE  IInv' /\ (Maps!Push(x, value) \/ \E k \in MapKeys : Maps!Set(x, k, value))
<1> DEFINE a == array[x]
           n == a.next_index
           key == <<"int", n>>
<1>1. Sound(a) /\ pa_set(x, key, value)
  BY DEF pa_push, IInv
<1>2. n \in 0 .. PPHP_INT_MAXIMUM
  BY <1>1 DEF Sound, ArrayRecord, Fits
<1>3. normalize_key(key) = key /\ key \in Keys
  BY <1>2, NormalKeys
<1>4. /\ IInv' /\ AsMaps[x] = Shown(a)
      /\ AsMaps' = [AsMaps EXCEPT ![x] = Maps!Stored(Shown(a), key, value)]
  BY <1>1, <1>3, SetStep
<1>5. Shown(a).next = n /\ Maps!Exists(x)
  BY <1>1, <1>4, ShownIs DEF Maps!Exists
<1>6. CASE \A p \in Live(a) : KeyAt(a, p) # key
  <2>1. Maps!Where(Shown(a), key) = {}
    BY <1>1, <1>6, MissingKey
  <2>2. Maps!Push(x, value)
    BY <1>4, <1>5, <2>1 DEF Maps!Push
  <2> QED
    BY <1>4, <2>2
<1>7. CASE \E p \in Live(a) : KeyAt(a, p) = key
  <2>1. Apart(a)
    BY <1>1 DEF Sound
  <2>2. key[1] = "int" /\ key[2] = n
    OBVIOUS
  <2> HIDE DEF key
  <2>3. n < a.next_index \/ n = PPHP_INT_MAXIMUM
    BY <1>7, <2>1, <2>2 DEF Apart
  <2>4. n = PPHP_INT_MAXIMUM
    BY <2>3, <1>2, MaximumAssumption
  <2>5. key \in MapKeys
    BY <2>4 DEF MapKeys, key
  <2>6. Maps!Set(x, key, value)
    BY <1>4, <1>5 DEF Maps!Set
  <2> QED
    BY <1>4, <2>5, <2>6
<1> QED
  BY <1>6, <1>7

\* Every step keeps the arrays sound, and is one of the ordered maps or none.
LEMMA ArrayStep ==
  ASSUME IInv, Next
  PROVE  IInv' /\ (Maps!Next \/ AsMaps' = AsMaps)
<1>1. ASSUME NEW x \in Arrays, NEW hint \in 0 .. MaxHint, pa_new(x, hint)
      PROVE  IInv' /\ Maps!New(x)
  <2> DEFINE c == ensure_entries(EmptyArray, hint)
  <2>1. array[x] = NoArray /\ hint <= UINT16_LIMIT /\ array' = [array EXCEPT ![x] = c]
    BY <1>1 DEF pa_new, Has
  <2>2. Sound(c) /\ Elements(c) = <<>> /\ c.next_index = 0
    BY <2>1, NewSound, LimitsAssumption
  <2> HIDE DEF c
  <2>3. IInv' /\ AsMaps' = [AsMaps EXCEPT ![x] = Shown(c)] /\ AsMaps[x] = Shown(array[x])
    BY <2>1, <2>2, OneChanges
  <2>4. Shown(c) = [items |-> <<>>, next |-> 0]
    BY <2>2, ShownIs
  <2>5. AsMaps[x].next = -1
    BY <2>1, <2>3 DEF Shown
  <2> QED
    BY <2>3, <2>4, <2>5 DEF Maps!New, Maps!Exists
<1>2. ASSUME NEW x \in Arrays, NEW input \in Inputs, NEW value \in Values,
             pa_set(x, input, value)
      PROVE  IInv' /\ \E k \in MapKeys : Maps!Set(x, k, value)
  <2> DEFINE key == normalize_key(input)
  <2>1. key # NoKey /\ key \in Keys
    BY <1>2, NormalKeys DEF pa_set
  <2>2. key \in MapKeys
    BY <2>1 DEF MapKeys
  <2>3. /\ IInv' /\ Sound(array[x]) /\ AsMaps[x] = Shown(array[x])
        /\ AsMaps' = [AsMaps EXCEPT ![x] = Maps!Stored(Shown(array[x]), key, value)]
    BY <1>2, <2>1, SetStep
  <2>4. Maps!Exists(x)
    BY <2>3, ShownIs DEF Maps!Exists
  <2>5. Maps!Set(x, key, value)
    BY <2>3, <2>4 DEF Maps!Set
  <2> QED
    BY <2>2, <2>3, <2>5
<1>3. ASSUME NEW x \in Arrays, NEW input \in Inputs, pa_set_fails(x, input)
      PROVE  IInv' /\ AsMaps' = AsMaps
  <2> DEFINE key == normalize_key(input)
  <2>1. Sound(array[x]) /\ key \in Keys
    BY <1>3, NormalKeys DEF pa_set_fails, IInv
  <2>2. PICK c \in SetFailures(array[x], key) : array' = [array EXCEPT ![x] = c]
    BY <1>3 DEF pa_set_fails
  <2>3. /\ Sound(c) /\ Elements(c) = Elements(array[x])
        /\ c.next_index = array[x].next_index
    BY <2>1, <2>2, FailuresSound
  <2> QED
    BY <2>1, <2>2, <2>3, SameMapStep
<1>4. ASSUME NEW x \in Arrays, NEW input \in Inputs, pa_remove(x, input)
      PROVE  IInv' /\ (AsMaps' = AsMaps \/ \E k \in MapKeys : Maps!Delete(x, k))
  <2>1. normalize_key(input) \in MapKeys
    BY <1>4 DEF pa_remove, MapKeys
  <2>2. /\ IInv' /\ Maps!Exists(x)
        /\ \/ AsMaps' = AsMaps
           \/ AsMaps' = [AsMaps EXCEPT ![x] = Maps!Without(AsMaps[x], normalize_key(input))]
    BY <1>4, RemoveStep
  <2> QED
    BY <2>1, <2>2 DEF Maps!Delete
<1>5. ASSUME NEW x \in Arrays, NEW y \in Arrays, pa_clone(x, y)
      PROVE  IInv' /\ Maps!Clone(x, y)
  <2> DEFINE a == array[x]
             c == Clone(a)
  <2>1. Sound(a) /\ array[y] = NoArray /\ array' = [array EXCEPT ![y] = c]
    BY <1>5 DEF pa_clone, Clone, IInv, Has
  <2>2. Sound(c) /\ Elements(c) = Elements(a) /\ c.next_index = a.next_index
    BY <2>1, CloneSound
  <2> HIDE DEF c
  <2>3. IInv' /\ AsMaps' = [AsMaps EXCEPT ![y] = Shown(c)] /\ AsMaps[y] = Shown(array[y])
    BY <2>1, <2>2, OneChanges
  <2>4. AsMaps[x] = Shown(a) /\ Shown(c) = Shown(a) /\ Shown(a).next # -1
    BY <2>1, <2>2, ShownIs DEF AsMaps
  <2>5. AsMaps[y].next = -1
    BY <2>1, <2>3 DEF Shown
  <2> QED
    BY <2>3, <2>4, <2>5 DEF Maps!Clone, Maps!Exists
<1>6. ASSUME NEW x \in Arrays, pa_destroy(x)
      PROVE  IInv' /\ Maps!Destroy(x)
  <2>1. Sound(array[x]) /\ array' = [array EXCEPT ![x] = NoArray]
    BY <1>6 DEF pa_destroy, IInv
  <2>2. IInv' /\ AsMaps' = [AsMaps EXCEPT ![x] = Shown(NoArray)] /\ AsMaps[x] = Shown(array[x])
    BY <2>1, OneChanges
  <2>3. AsMaps[x].next # -1 /\ Shown(NoArray) = [items |-> <<>>, next |-> -1]
    BY <2>1, <2>2, ShownIs DEF Shown
  <2> QED
    BY <2>2, <2>3 DEF Maps!Destroy, Maps!Exists, Maps!Absent
<1>7. PICK x \in Arrays :
        \/ \E hint \in 0 .. MaxHint : pa_new(x, hint)
        \/ \E input \in Inputs, value \in Values : pa_set(x, input, value)
        \/ \E input \in Inputs : pa_set_fails(x, input) \/ pa_remove(x, input)
        \/ \E value \in Values : pa_push(x, value)
        \/ \E y \in Arrays : pa_clone(x, y)
        \/ pa_destroy(x)
  BY DEF Next
<1>8. \/ Maps!New(x) \/ Maps!Destroy(x)
      \/ \E k \in MapKeys : Maps!Delete(x, k) \/ \E v \in Values : Maps!Set(x, k, v)
      \/ \E v \in Values : Maps!Push(x, v)
      \/ \E y \in Arrays : Maps!Clone(x, y)
      => Maps!Next
  BY Zenon DEF Maps!Next, MapKeys
<1> QED
  BY <1>1, <1>2, <1>3, <1>4, <1>5, <1>6, <1>7, <1>8, PushStep

-----------------------------------------------------------------------------
(* The theorems.                                                           *)

\* A sound array holds what its C types can hold.
LEMMA SoundTyped ==
  ASSUME NEW a, Sound(a)
  PROVE  /\ a.packed \in BOOLEAN /\ a.size \in 0 .. a.used /\ a.used = Len(a.entries)
         /\ a.used <= a.capacity /\ a.capacity \in 0 .. UINT16_LIMIT
         /\ BucketCount(a) \in 0 .. UINT16_LIMIT /\ a.next_index \in Integer
         /\ \A i \in DOMAIN a.entries : a.entries[i].next \in -1 .. a.used - 1
<1>0. /\ a \in ArrayRecord /\ Fits(a) /\ a.used \in Nat /\ a.capacity \in Nat
      /\ a.packed \in BOOLEAN /\ a.next_index \in Nat /\ a.entries \in Seq(Entry)
  BY DEF Sound, ArrayRecord, Entries
<1>1. UINT16_LIMIT \in Nat /\ PPHP_INT_MAXIMUM \in Nat
  BY LimitsAssumption, MaximumAssumption
<1>2. /\ a.used = Len(a.entries) /\ a.used <= a.capacity /\ a.capacity \in 0 .. UINT16_LIMIT
      /\ a.next_index \in Integer
  BY <1>0, <1>1 DEF Fits, Integer, PPHP_INT_MINIMUM
<1>3. BucketCount(a) \in 0 .. UINT16_LIMIT /\ \A p \in 0 .. a.used - 1 : NextAt(a, p) \in -1 .. a.used - 1
  <2>1. CASE a.packed
    <3>1. AsList(a)
      BY <2>1 DEF Sound
    <3>2. DOMAIN a.buckets = 0 .. 0 - 1
      <4>1. DOMAIN <<>> = {} /\ 0 .. 0 - 1 = {}
        OBVIOUS
      <4> QED
        BY <3>1, <4>1 DEF AsList
    <3>3. BucketCount(a) = 0
      BY <3>2, CountIs
    <3> QED
      BY <3>1, <3>3, <1>0, <1>1 DEF AsList
  <2>2. CASE ~a.packed
    <3>1. PICK n \in MinBuckets .. UINT16_LIMIT : Hashed(a, n)
      BY <2>2 DEF Sound, AsHash
    <3>2. n \in Nat /\ n # 0 /\ n \in 0 .. UINT16_LIMIT
      BY LimitsAssumption
    <3>3. BucketCount(a) = n
      BY <3>1, <3>2, CountIs DEF Hashed
    <3>4. ASSUME NEW p \in 0 .. a.used - 1 PROVE NextAt(a, p) \in -1 .. a.used - 1
      <4>1. NextAt(a, p) \in -1 .. p - 1
        BY <1>0, <3>1, <3>2, LinksDescend
      <4> QED
        BY <4>1, <1>0
    <3> QED
      BY <3>2, <3>3, <3>4
  <2> QED
    BY <2>1, <2>2
<1>4. ASSUME NEW i \in DOMAIN a.entries PROVE a.entries[i].next \in -1 .. a.used - 1
  <2>1. i - 1 \in 0 .. a.used - 1 /\ (i - 1) + 1 = i
    BY <1>0, <1>2
  <2>2. NextAt(a, i - 1) = a.entries[i].next
    BY <2>1 DEF NextAt
  <2> QED
    BY <1>3, <2>1, <2>2
<1>5. a.size \in 0 .. a.used
  BY SizeFits
<1> QED
  BY <1>0, <1>2, <1>3, <1>4, <1>5

\* Looking a subscript up finds what iterating meets.
LEMMA LookupIs ==
  ASSUME NEW a, Sound(a)
  PROVE  /\ a.size = Len(Elements(a))
         /\ \A input \in Inputs :
               {Elements(a)[i][2] : i \in {j \in DOMAIN Elements(a) :
                                            Elements(a)[j][1] = normalize_key(input)}}
               = pa_get(a, input)
<1>0. a \in ArrayRecord /\ Fits(a) /\ a.used \in Nat /\ a.size \in Nat /\ Counted(a)
  BY DEF Sound, ArrayRecord
<1>1. a.size = Len(Elements(a))
  <2>1. PICK pos : Lists(a, pos) /\ Len(pos) = a.size
    BY <1>0 DEF Counted
  <2>2. Elements(a) = [m \in 1 .. a.size |-> Item(a, pos[m])]
    BY <1>0, <2>1, ElementsAre DEF ItemsAt
  <2> QED
    BY <1>0, <2>2
<1>2. ASSUME NEW input \in Inputs
      PROVE  {Elements(a)[i][2] : i \in {j \in DOMAIN Elements(a) :
                                           Elements(a)[j][1] = normalize_key(input)}}
             = pa_get(a, input)
  <2> DEFINE key == normalize_key(input)
             p == find_entry(a, key)
             items == Elements(a)
             W == {j \in DOMAIN items : items[j][1] = key}
  <2>1. W = Maps!Where(Shown(a), key)
    BY ShownIs DEF Maps!Where
  <2>2. pa_get(a, input) = IF key = NoKey \/ p = -1 THEN {} ELSE {a.entries[p + 1].value}
    BY DEF pa_get, EMPTY_BUCKET
  <2>3. key # NoKey => key \in Keys
    BY NormalKeys
  <2>4. \A q \in Live(a) : q # -1
    BY <1>0 DEF Live
  <2> HIDE DEF key, W, items
  <2>5. key # NoKey => \/ p = -1 /\ \A q \in Live(a) : KeyAt(a, q) # key
                       \/ p \in Live(a) /\ KeyAt(a, p) = key
    BY <2>3, FindEntry
  <2> HIDE DEF p
  <2>6. CASE key = NoKey \/ p = -1
    <3>1. ASSUME NEW q \in Live(a), key = NoKey PROVE KeyAt(a, q) # key
      <4>1. q \in 0 .. a.used - 1
        BY DEF Live
      <4>2. KeyAt(a, q) \in Keys
        BY <1>0, <4>1, KeysOfEntries
      <4> QED
        BY <3>1, <4>2, KeyShapes
    <3>2. \A q \in Live(a) : KeyAt(a, q) # key
      BY <2>4, <2>5, <2>6, <3>1
    <3>3. W = {}
      BY <3>2, <2>1, MissingKey
    <3> QED
      BY <2>2, <2>6, <3>3 DEF W, items, key
  <2>7. CASE ~(key = NoKey \/ p = -1)
    <3>1. p \in Live(a) /\ KeyAt(a, p) = key
      BY <2>5, <2>7
    <3>2. PICK i : At(items, key, i) /\ items[i] = Item(a, p)
      BY <3>1, PresentKey DEF items
    <3>3. W = {i}
      BY <3>2, <2>1, WhereAt DEF items
    <3>4. items[i][2] = a.entries[p + 1].value
      BY <3>2 DEF Item
    <3>5. {items[k][2] : k \in W} = {a.entries[p + 1].value}
      BY <3>3, <3>4
    <3> QED
      BY <2>2, <2>7, <3>5 DEF W, items, key
  <2> QED
    BY <2>6, <2>7
<1> QED
  BY <1>1, <1>2

\* Every array is sound in every state: types, chains, order and load factor.
THEOREM ArraysSound == Spec => []IInv
<1>1. Init => IInv
  BY DEF Init, IInv, Has
<1>2. IInv /\ [Next]_vars => IInv'
  <2>1. IInv /\ Next => IInv'
    BY ArrayStep
  <2>2. IInv /\ UNCHANGED vars => IInv'
    BY DEF IInv, Has, vars
  <2> QED
    BY <2>1, <2>2
<1> QED
  BY <1>1, <1>2, PTL DEF Spec

\* Searchable: find_entry() finds what pa_entry_at() meets, packed arrays are
\* lists, and hashes keep the load factor, whatever pa_set(), pa_remove(),
\* pa_push(), pa_clone() and failed insertions came before.
THEOREM ArraysSearchable == Spec => []Searchable
<1>1. ASSUME IInv PROVE Searchable
  <2>1. TypeOK
    BY <1>1, SoundTyped, Zenon DEF IInv, TypeOK
  <2>2. LookupMatchesIteration
    BY <1>1, LookupIs, Zenon DEF IInv, LookupMatchesIteration, pa_count
  <2>3. PackedIsList
    <3> SUFFICES ASSUME NEW x \in Arrays, Has(x), array[x].packed
                 PROVE  /\ \A i \in 1 .. array[x].used : array[x].entries[i].key = <<"int", i - 1>>
                        /\ array[x].size = array[x].used /\ array[x].next_index = array[x].used
      BY DEF PackedIsList
    <3> DEFINE a == array[x]
    <3>1. AsList(a) /\ a.used \in Nat
      BY <1>1 DEF IInv, Sound, ArrayRecord
    <3> HIDE DEF a
    <3>2. ASSUME NEW i \in 1 .. a.used PROVE a.entries[i].key = <<"int", i - 1>>
      <4>1. i - 1 \in 0 .. a.used - 1 /\ (i - 1) + 1 = i
        BY <3>1
      <4> QED
        BY <3>1, <4>1 DEF AsList, KeyAt
    <3> QED
      BY <3>1, <3>2 DEF AsList, a
  <2>4. LoadFactor
    <3> SUFFICES ASSUME NEW x \in Arrays, Has(x), ~array[x].packed
                 PROVE  array[x].size * 4 <= BucketCount(array[x]) * 3
      BY DEF LoadFactor
    <3>1. PICK n \in MinBuckets .. UINT16_LIMIT : Hashed(array[x], n) /\ array[x].size * 4 <= n * 3
      BY <1>1 DEF IInv, Sound, AsHash
    <3>2. BucketCount(array[x]) = n
      BY <3>1, CountIs, LimitsAssumption DEF Hashed
    <3> QED
      BY <3>1, <3>2
  <2> QED
    BY <2>1, <2>2, <2>3, <2>4 DEF Searchable
<1> QED
  BY <1>1, ArraysSound, PTL

\* IsOrderedMap: what an iteration shows changes as an ordered map does. A
\* promotion, a rehash and a failed insertion change nothing of it, and one
\* array is never changed through another.
THEOREM ArraysAreOrderedMaps == Spec => IsOrderedMap
<1>1. Init => Maps!Init
  BY DEF Init, Maps!Init, Maps!Absent, AsMaps, Shown
<1>2. IInv /\ [Next]_vars => [Maps!Next]_AsMaps
  <2>1. IInv /\ Next => Maps!Next \/ AsMaps' = AsMaps
    BY ArrayStep
  <2>2. UNCHANGED vars => AsMaps' = AsMaps
    BY DEF vars, AsMaps
  <2> QED
    BY <2>1, <2>2
<1> QED
  BY <1>1, <1>2, ArraysSound, PTL DEF Spec, IsOrderedMap, Maps!Spec

-----------------------------------------------------------------------------
(* Sorting.                                                                *)

Places == 0 .. Len(source) - 1

\* The slots with the entry in hand put into the slot that waits for it.
Full == IF at = "compare" THEN [sortable EXCEPT ![insert] = current] ELSE sortable

\* Each entry is in one slot.
Arranged(f) ==
    /\ f \in [Places -> Ids]
    /\ \A id \in Ids : \E k \in Places : f[k] = id
    /\ \A j, k \in Places : f[j] = f[k] => j = k

Unchanged == order = [k \in DOMAIN source |-> k]
OwnedBy(n) == \A k \in Ids : refs[k] = n
InPlace(f, a, b) == function = "usort" \/ InOrder(f[a], f[b])

SortShape ==
    /\ source \in Seq(Ranks) /\ Len(source) \in Nat
    /\ function \in {"sort", "rsort", "usort"}
    /\ refs \in [Ids -> Int]
    /\ at \in {"start", "outer", "compare", "rebuild", "done", "failed"}

AtStart == at = "start" => Unchanged /\ OwnedBy(1) /\ current = Nobody

\* Between two insertions the slots before `outer' are in order, those from
\* there on as they were.
AtOuter ==
    at = "outer" =>
      /\ outer \in 1 .. Len(source) + 1 /\ current = Nobody
      /\ outer <= Len(source) \/ outer = 1
      /\ \A k \in Places : k >= outer => sortable[k] = k + 1
      /\ \A j, k \in Places : j < k /\ k < outer => InPlace(sortable, j, k)

\* During one, the slot of the entry in hand divides those before `outer' + 1
\* into two parts in order, the second of which is greater than the entry.
AtCompare ==
    at = "compare" =>
      /\ outer \in 1 .. Len(source) - 1 /\ insert \in 0 .. outer
      /\ sortable \in [Places -> Ids]
      /\ current = outer + 1
      /\ \A k \in Places : k > outer => Full[k] = k + 1
      /\ \A j, k \in Places : j < k /\ k <= outer /\ k # insert => InPlace(Full, j, k)

AtRebuild ==
    at = "rebuild" => /\ current = Nobody
                      /\ \A j, k \in Places : j < k => InPlace(sortable, j, k)

Busy == at \in {"outer", "compare", "rebuild"} =>
          filled = Len(source) /\ Unchanged /\ OwnedBy(2) /\ Arranged(Full)

AtEnd ==
    /\ at = "failed" => Unchanged /\ (current = Nobody => OwnedBy(1))
    /\ at = "done" => /\ OwnedBy(1) /\ order \in [1 .. Len(source) -> Ids]
                      /\ \A id \in Ids : \E k \in DOMAIN order : order[k] = id
                      /\ \A j, k \in DOMAIN order : j < k => InPlace(order, j, k)

SortInv == SortShape /\ AtStart /\ Busy /\ AtOuter /\ AtCompare /\ AtRebuild /\ AtEnd

\* InOrder() is a strict order on the entries.
LEMMA InOrderTransitive ==
  ASSUME source \in Seq(Int), NEW a \in Ids, NEW b \in Ids, NEW c \in Ids,
         InOrder(a, b), InOrder(b, c)
  PROVE  InOrder(a, c)
<1>1. source[a] \in Int /\ source[b] \in Int /\ source[c] \in Int
  BY DEF Ids
<1>2. a \in Int /\ b \in Int /\ c \in Int
  BY DEF Ids
<1> QED  BY <1>1, <1>2 DEF InOrder

\* The same of two slots with one between them, whatever the function.
LEMMA InPlaceTransitive ==
  ASSUME source \in Seq(Int), NEW f, NEW i, NEW j, NEW k,
         f[i] \in Ids, f[j] \in Ids, f[k] \in Ids,
         InPlace(f, i, j), InPlace(f, j, k)
  PROVE  InPlace(f, i, k)
BY InOrderTransitive DEF InPlace

\* The ranks are integers.
LEMMA RanksAreIntegers ==
  ASSUME SortShape PROVE source \in Seq(Int) /\ Ids = 1 .. Len(source)
<1>1. source \in [1 .. Len(source) -> Ranks] /\ Len(source) \in Nat
  BY DEF SortShape
<1>2. source \in [1 .. Len(source) -> Int]
  BY <1>1, SortConstants
<1> QED  BY <1>1, <1>2 DEF Ids

\* With each entry in one slot, release_sortable() gives up one reference.
LEMMA OneSlot ==
  ASSUME SortShape, filled = Len(source), Arranged(sortable), NEW id \in Ids
  PROVE  Slots(id) = 1
<1>1. PICK k \in Places : sortable[k] = id
  BY DEF Arranged
<1>2. {j \in 0..(filled - 1) : sortable[j] = id} = {k}
  BY <1>1 DEF Arranged, Places
<1> QED  BY <1>2, FS_Singleton DEF Slots

\* Whatever the slots hold, a count of them is a number.
LEMMA SlotsAreCounted ==
  ASSUME SortShape, filled = Len(source), NEW id
  PROVE  Slots(id) \in Int
<1>1. IsFiniteSet(0..(filled - 1))
  BY FS_Interval DEF SortShape
<1>2. IsFiniteSet({k \in 0..(filled - 1) : sortable[k] = id})
  BY <1>1, FS_Subset
<1> QED  BY <1>2, FS_CardinalityType DEF Slots

\* The array as the call finds it.
LEMMA SortStarts == SortInit => SortInv
<1> SUFFICES ASSUME SortInit PROVE SortInv
  OBVIOUS
<1>1. PICK n \in 0 .. MaxSize : source \in [1 .. n -> Ranks]
  BY DEF SortInit
<1>2. source \in Seq(Ranks) /\ Len(source) \in Nat /\ Ids = 1 .. Len(source)
  <2>1. n \in Nat
    BY SortConstants
  <2> QED  BY <1>1, <2>1 DEF Ids
<1>3. SortShape
  BY <1>2 DEF SortInit, SortShape, Ids
<1>4. AtStart
  BY DEF SortInit, AtStart, Unchanged, OwnedBy, Ids
<1> QED
  BY <1>3, <1>4 DEF SortInit, SortInv, Busy, AtOuter, AtCompare, AtRebuild, AtEnd

\* What a step that leaves the array and the references alone keeps.
LEMMA CollectKeeps ==
  ASSUME SortInv, Collect PROVE SortInv'
<1> USE DEF Collect
<1>1. SortShape /\ Ids = 1 .. Len(source) /\ Unchanged /\ OwnedBy(1) /\ current = Nobody
  BY RanksAreIntegers DEF SortInv, AtStart
<1>2. Ids' = Ids /\ Places' = Places /\ Places = 0 .. Len(source) - 1
  BY DEF Ids, Places
<1>3. sortable' = [k \in Places |-> k + 1]
  BY DEF Range0, Places
<1>4. SortShape'
  BY <1>1, <1>2 DEF SortShape, OwnedBy
<1>5. Busy'
  <2>1. Unchanged' /\ OwnedBy(2)'
    BY <1>1, <1>2 DEF Unchanged, OwnedBy
  <2>2. Full' = sortable'
    BY DEF Full
  <2>3. Arranged(sortable)'
    <3>1. sortable' \in [Places -> Ids]
      BY <1>1, <1>2, <1>3 DEF SortShape
    <3>2. \A id \in Ids : id - 1 \in Places /\ sortable'[id - 1] = id
      BY <1>1, <1>2, <1>3 DEF SortShape
    <3>3. \A j, k \in Places : sortable'[j] = sortable'[k] => j = k
      BY <1>1, <1>2, <1>3 DEF SortShape
    <3> QED  BY <1>2, <3>1, <3>2, <3>3 DEF Arranged
  <2> QED  BY <2>1, <2>2, <2>3 DEF Busy, Arranged
<1>6. AtOuter'
  BY <1>1, <1>2, <1>3 DEF AtOuter, SortShape
<1> QED
  BY <1>4, <1>5, <1>6 DEF SortInv, AtStart, AtCompare, AtRebuild, AtEnd

\* Nothing has been taken out when there is no memory for it.
LEMMA CollectFailsKeeps ==
  ASSUME SortInv, CollectFails PROVE SortInv'
<1> USE DEF CollectFails
<1>1. SortShape'
  BY DEF SortInv, SortShape, Ids
<1>2. AtEnd'
  BY DEF SortInv, AtStart, AtEnd, Unchanged, OwnedBy, Ids
<1> QED
  BY <1>1, <1>2 DEF SortInv, AtStart, Busy, AtOuter, AtCompare, AtRebuild

\* Taking the next entry in hand; or the last one is in its place.
LEMMA OuterKeeps ==
  ASSUME SortInv, Outer PROVE SortInv'
<1>1. SortShape /\ at = "outer" /\ Ids = 1 .. Len(source)
  BY RanksAreIntegers DEF SortInv, Outer
<1>2. filled = Len(source) /\ Unchanged /\ OwnedBy(2) /\ Arranged(sortable)
  BY <1>1 DEF SortInv, Busy, Full
<1>3. /\ outer \in 1 .. Len(source) + 1 /\ current = Nobody
      /\ outer <= Len(source) \/ outer = 1
      /\ \A k \in Places : k >= outer => sortable[k] = k + 1
      /\ \A j, k \in Places : j < k /\ k < outer => InPlace(sortable, j, k)
  BY <1>1 DEF SortInv, AtOuter
<1>4. Ids' = Ids /\ Places' = Places /\ sortable' = sortable /\ SortShape'
      /\ Unchanged' /\ OwnedBy(2)' /\ filled' = filled
  BY <1>1, <1>2 DEF Outer, Ids, Places, locals, SortShape, Unchanged, OwnedBy
<1>5. \A j, k : InPlace(sortable, j, k)' <=> InPlace(sortable, j, k)
  BY <1>4 DEF Outer, InPlace, InOrder, locals
<1>6. CASE outer < filled
  <2>1. /\ current' = sortable[outer] /\ insert' = outer /\ at' = "compare"
        /\ outer' = outer
    BY <1>6 DEF Outer
  <2>2. outer \in Places /\ current' = outer + 1 /\ outer \in 1 .. Len(source) - 1
    BY <1>1, <1>2, <1>3, <1>6, <2>1 DEF Places, SortShape
  <2>3. Full' = sortable
    BY <1>4, <2>1, <2>2, <1>2 DEF Full, Arranged
  <2>4. Busy'
    <3>1. Arranged(Full)'
      BY <1>2, <1>4, <2>3 DEF Arranged
    <3> QED  BY <1>2, <1>4, <3>1 DEF Busy, Outer
  <2>5. AtCompare'
    <3>1. insert' \in 0 .. outer'
      BY <2>1, <2>2
    <3>2. \A k \in Places : k > outer => sortable[k] = k + 1
      BY <1>1, <1>3 DEF Places
    <3>3. \A j, k \in Places : j < k /\ k <= outer /\ k # outer => InPlace(sortable, j, k)
      BY <1>1, <1>3 DEF Places
    <3>4. \A j, k \in Places : j < k /\ k <= outer' /\ k # insert' => InPlace(Full, j, k)'
      <4>1. \A j, k : InPlace(Full, j, k)' <=> InPlace(sortable, j, k)'
        BY <1>4, <2>3 DEF InPlace
      <4> QED  BY <1>5, <2>1, <3>3, <4>1
    <3>5. sortable' \in [Places' -> Ids']
      BY <1>2, <1>4 DEF Arranged
    <3>6. \A k \in Places' : k > outer' => Full'[k] = k + 1
      BY <1>4, <2>1, <2>3, <3>2
    <3>7. outer' \in 1 .. Len(source') - 1 /\ current' = outer' + 1
      BY <1>4, <2>1, <2>2 DEF Outer
    <3> QED  BY <1>4, <3>1, <3>4, <3>5, <3>6, <3>7 DEF AtCompare
  <2> QED
    BY <1>4, <2>1, <2>4, <2>5 DEF SortInv, AtStart, AtOuter, AtRebuild, AtEnd
<1>7. CASE ~(outer < filled)
  <2>1. at' = "rebuild" /\ current' = Nobody
    BY <1>3, <1>7 DEF Outer, locals
  <2>2. Full' = sortable
    BY <1>4, <2>1 DEF Full
  <2>3. Busy'
    <3>1. Arranged(Full)'
      BY <1>2, <1>4, <2>2 DEF Arranged
    <3> QED  BY <1>2, <1>4, <3>1 DEF Busy, Outer
  <2>4. AtRebuild'
    <3>1. \A j, k \in Places : j < k => InPlace(sortable, j, k)
      BY <1>1, <1>2, <1>3, <1>7 DEF Places, SortShape
    <3> QED  BY <1>4, <1>5, <2>1, <3>1 DEF AtRebuild
  <2> QED
    BY <1>4, <2>1, <2>3, <2>4 DEF SortInv, AtStart, AtOuter, AtCompare, AtEnd
<1> QED  BY <1>6, <1>7

\* The entry in hand goes into the slot that waits for it.
LEMMA PlaceKeeps ==
  ASSUME SortInv, at = "compare", Place,
         insert = 0 \/ InPlace(Full, insert - 1, insert)
  PROVE  SortInv'
<1>1. SortShape /\ Ids = 1 .. Len(source) /\ source \in Seq(Int)
  BY RanksAreIntegers DEF SortInv
<1>2. filled = Len(source) /\ Unchanged /\ OwnedBy(2) /\ Arranged(Full)
  BY DEF SortInv, Busy
<1>3. /\ outer \in 1 .. Len(source) - 1 /\ insert \in 0 .. outer
      /\ sortable \in [Places -> Ids] /\ current = outer + 1
      /\ \A k \in Places : k > outer => Full[k] = k + 1
      /\ \A j, k \in Places : j < k /\ k <= outer /\ k # insert => InPlace(Full, j, k)
  BY DEF SortInv, AtCompare
<1>4. Ids' = Ids /\ Places' = Places /\ SortShape' /\ Unchanged' /\ OwnedBy(2)' /\ filled' = filled
  BY <1>1, <1>2 DEF Place, Ids, Places, SortShape, Unchanged, OwnedBy
<1>5. sortable' = Full /\ Full' = Full /\ outer' = outer + 1 /\ current' = Nobody /\ at' = "outer"
  BY DEF Place, Full
<1>6. Busy'
  <2>1. Arranged(Full)'
    BY <1>2, <1>4, <1>5 DEF Arranged
  <2> QED  BY <1>2, <1>4, <2>1 DEF Busy, Place
<1>7. \A j, k \in Places : j < k /\ k <= outer => InPlace(Full, j, k)
  <2> SUFFICES ASSUME NEW j \in Places, NEW k \in Places, j < k, k <= outer
               PROVE  InPlace(Full, j, k)
    OBVIOUS
  <2>1. Full[j] \in Ids /\ Full[k] \in Ids
    BY <1>2 DEF Arranged
  <2>2. CASE k # insert
    BY <1>3, <2>2
  <2>3. CASE k = insert /\ j = insert - 1
    BY <1>1, <1>3, <2>3 DEF Places
  <2>4. CASE k = insert /\ j # insert - 1
    <3>1. insert - 1 \in Places /\ j < insert - 1 /\ insert - 1 <= outer /\ insert # 0
      BY <1>1, <1>3, <2>4 DEF Places, SortShape
    <3>2. InPlace(Full, j, insert - 1)
      BY <1>3, <3>1
    <3>3. Full[insert - 1] \in Ids
      BY <1>2, <3>1 DEF Arranged
    <3> QED  BY <1>1, <2>1, <2>4, <3>1, <3>2, <3>3, InPlaceTransitive
  <2> QED  BY <2>2, <2>3, <2>4
<1>8. AtOuter'
  <2>1. \A j, k : InPlace(sortable, j, k)' <=> InPlace(Full, j, k)
    BY <1>5 DEF Place, InPlace, InOrder
  <2>2. \A j, k \in Places' : j < k /\ k < outer' => InPlace(sortable, j, k)'
    BY <1>1, <1>3, <1>4, <1>5, <1>7, <2>1 DEF Places
  <2>3. \A k \in Places' : k >= outer' => sortable'[k] = k + 1
    BY <1>1, <1>3, <1>4, <1>5 DEF Places
  <2>4. outer' \in 1 .. Len(source') + 1 /\ outer' <= Len(source')
    BY <1>1, <1>3, <1>5 DEF Place, SortShape
  <2> QED  BY <1>5, <2>2, <2>3, <2>4 DEF AtOuter
<1> QED
  BY <1>4, <1>5, <1>6, <1>8 DEF SortInv, AtStart, AtCompare, AtRebuild, AtEnd

\* A greater entry moves up by one slot, and the slot that waits goes down.
LEMMA ShiftKeeps ==
  ASSUME SortInv, at = "compare", insert > 0, Shift,
         function = "usort" \/ InOrder(current, sortable[insert - 1])
  PROVE  SortInv'
<1>1. SortShape /\ Ids = 1 .. Len(source) /\ source \in Seq(Int)
  BY RanksAreIntegers DEF SortInv
<1>2. filled = Len(source) /\ Unchanged /\ OwnedBy(2) /\ Arranged(Full)
  BY DEF SortInv, Busy
<1>3. /\ outer \in 1 .. Len(source) - 1 /\ insert \in 0 .. outer
      /\ sortable \in [Places -> Ids] /\ current = outer + 1
      /\ \A k \in Places : k > outer => Full[k] = k + 1
      /\ \A j, k \in Places : j < k /\ k <= outer /\ k # insert => InPlace(Full, j, k)
  BY DEF SortInv, AtCompare
<1>4. Ids' = Ids /\ Places' = Places /\ SortShape' /\ Unchanged' /\ OwnedBy(2)' /\ filled' = filled
  BY <1>1, <1>2 DEF Shift, Ids, Places, SortShape, Unchanged, OwnedBy
<1>5. insert \in Places /\ insert - 1 \in Places /\ Len(source) \in Nat
  BY <1>1, <1>3 DEF Places, SortShape
<1>6. /\ insert' = insert - 1 /\ outer' = outer /\ current' = current /\ at' = at
      /\ sortable' = [sortable EXCEPT ![insert] = sortable[insert - 1]]
  BY DEF Shift
<1>7. /\ Full = [sortable EXCEPT ![insert] = current]
      /\ Full' = [sortable' EXCEPT ![insert - 1] = current]
  BY <1>6 DEF Full
<1>8. /\ Full' \in [Places -> Ids] /\ Full \in [Places -> Ids]
      /\ Full'[insert - 1] = Full[insert] /\ Full'[insert] = Full[insert - 1]
      /\ Full[insert] = current /\ Full[insert - 1] = sortable[insert - 1]
      /\ \A k \in Places : k # insert /\ k # insert - 1 => Full'[k] = Full[k]
  <2>1. current \in Ids /\ sortable[insert - 1] \in Ids /\ insert # insert - 1
    BY <1>1, <1>3, <1>5
  <2>2. /\ Full \in [Places -> Ids] /\ Full[insert] = current
        /\ \A k \in Places : k # insert => Full[k] = sortable[k]
    BY <1>3, <1>5, <1>7, <2>1
  <2>3. /\ sortable' \in [Places -> Ids] /\ sortable'[insert] = sortable[insert - 1]
        /\ \A k \in Places : k # insert => sortable'[k] = sortable[k]
    BY <1>3, <1>5, <1>6, <2>1
  <2>4. /\ Full' \in [Places -> Ids] /\ Full'[insert - 1] = current
        /\ \A k \in Places : k # insert - 1 => Full'[k] = sortable'[k]
    BY <1>5, <1>7, <2>1, <2>3
  <2> QED  BY <1>5, <2>1, <2>2, <2>3, <2>4
<1>9. Busy'
  <2>1. \A id \in Ids : \E k \in Places : Full'[k] = id
    BY <1>2, <1>5, <1>8 DEF Arranged
  <2>2. \A j, k \in Places : Full'[j] = Full'[k] => j = k
    <3>1. \A j, k \in Places : Full[j] = Full[k] => j = k
      BY <1>2 DEF Arranged
    <3> QED  BY <1>5, <1>8, <3>1
  <2>3. Arranged(Full)'
    BY <1>4, <1>8, <2>1, <2>2 DEF Arranged
  <2> QED  BY <1>2, <1>4, <2>3 DEF Busy, Shift
<1>10. \A j, k \in Places : j < k /\ k <= outer /\ k # insert - 1 => InPlace(Full', j, k)
  <2> SUFFICES ASSUME NEW j \in Places, NEW k \in Places, j < k, k <= outer, k # insert - 1
               PROVE  InPlace(Full', j, k)
    OBVIOUS
  <2>1. \A a, b \in Places : a < b /\ b <= outer /\ b # insert =>
          function = "usort" \/ InOrder(Full[a], Full[b])
    BY <1>3 DEF InPlace
  <2>2. CASE k = insert /\ j = insert - 1
    BY <1>8, <2>2 DEF InPlace
  <2>3. CASE k = insert /\ j # insert - 1
    <3>1. j < insert - 1 /\ insert - 1 <= outer /\ Full'[j] = Full[j] /\ Full'[k] = Full[insert - 1]
      BY <1>3, <1>5, <1>8, <2>3 DEF Places
    <3> QED  BY <1>5, <2>1, <3>1 DEF InPlace, Places
  <2>4. CASE k # insert /\ j = insert - 1
    <3>1. insert < k /\ Full'[j] = Full[insert] /\ Full'[k] = Full[k]
      BY <1>3, <1>5, <1>8, <2>4 DEF Places
    <3> QED  BY <1>5, <2>1, <2>4, <3>1 DEF InPlace
  <2>5. CASE k # insert /\ j = insert
    <3>1. insert - 1 < k /\ Full'[j] = Full[insert - 1] /\ Full'[k] = Full[k]
      BY <1>3, <1>5, <1>8, <2>5 DEF Places
    <3> QED  BY <1>5, <2>1, <2>5, <3>1 DEF InPlace
  <2>6. CASE k # insert /\ j # insert - 1 /\ j # insert
    <3>1. Full'[j] = Full[j] /\ Full'[k] = Full[k]
      BY <1>8, <2>6
    <3> QED  BY <2>1, <2>6, <3>1 DEF InPlace
  <2> QED  BY <2>2, <2>3, <2>4, <2>5, <2>6
<1>11. AtCompare'
  <2>1. \A j, k : InPlace(Full, j, k)' <=> InPlace(Full', j, k)
    BY DEF Shift, InPlace, InOrder
  <2>2. \A j, k \in Places' : j < k /\ k <= outer' /\ k # insert' => InPlace(Full, j, k)'
    BY <1>4, <1>6, <1>10, <2>1
  <2>3. sortable' \in [Places' -> Ids']
    BY <1>3, <1>4, <1>5, <1>6
  <2>4. \A k \in Places' : k > outer' => Full'[k] = k + 1
    BY <1>1, <1>3, <1>4, <1>6, <1>8, SMTT(30) DEF Places
  <2>5. outer' \in 1 .. Len(source') - 1 /\ insert' \in 0 .. outer' /\ current' = outer' + 1
    BY <1>1, <1>3, <1>6 DEF Shift, SortShape
  <2> QED  BY <2>2, <2>3, <2>4, <2>5 DEF AtCompare
<1> QED
  BY <1>4, <1>6, <1>9, <1>11 DEF SortInv, AtStart, AtOuter, AtRebuild, AtEnd

\* An entry before the one in hand came earlier in the array.
LEMMA EarlierSlot ==
  ASSUME SortInv, at = "compare", insert > 0
  PROVE  /\ sortable[insert - 1] \in Ids /\ sortable[insert - 1] < current
         /\ current \in Ids /\ Full[insert - 1] = sortable[insert - 1] /\ Full[insert] = current
<1>1. SortShape /\ Ids = 1 .. Len(source) /\ Len(source) \in Nat
  BY RanksAreIntegers DEF SortInv, SortShape
<1>2. Arranged(Full)
  BY DEF SortInv, Busy
<1>3. /\ outer \in 1 .. Len(source) - 1 /\ insert \in 0 .. outer
      /\ sortable \in [Places -> Ids] /\ current = outer + 1
      /\ \A k \in Places : k > outer => Full[k] = k + 1
  BY DEF SortInv, AtCompare
<1>4. insert \in Places /\ insert - 1 \in Places
  BY <1>1, <1>3 DEF Places
<1>5. Full[insert - 1] = sortable[insert - 1] /\ Full[insert] = current /\ sortable[insert - 1] \in Ids
  BY <1>3, <1>4 DEF Full, Places
<1>6. sortable[insert - 1] # outer + 1
  BY <1>2, <1>3, <1>4, <1>5 DEF Arranged, Places
<1>7. ASSUME sortable[insert - 1] > outer + 1 PROVE FALSE
  <2> DEFINE p == sortable[insert - 1] - 1
  <2>1. p \in Places /\ p > outer /\ p + 1 = sortable[insert - 1]
    BY <1>1, <1>3, <1>5, <1>7 DEF Places
  <2>2. Full[p] = Full[insert - 1]
    BY <1>3, <1>5, <2>1
  <2>3. p = insert - 1
    BY <1>2, <1>4, <2>1, <2>2 DEF Arranged
  <2> QED  BY <1>3, <2>1, <2>3 DEF Places
<1> QED  BY <1>1, <1>3, <1>5, <1>6, <1>7

\* What a comparison tells of the two entries, and what the loop does with it.
LEMMA CompareKeeps ==
  ASSUME SortInv, Compare PROVE SortInv'
<1>1. at = "compare" /\ SortShape /\ source \in Seq(Int) /\ Ids = 1 .. Len(source)
  BY RanksAreIntegers DEF SortInv, Compare
<1>2. insert \in Int
  BY <1>1 DEF SortInv, AtCompare
<1>3. CASE insert = 0
  BY <1>1, <1>3, PlaceKeeps DEF Compare
<1>4. CASE insert > 0
  <2> DEFINE other == sortable[insert - 1]
  <2>1. PICK compared \in compare_sortable(other, current) : IF StopsAt(compared) THEN Place ELSE Shift
    BY <1>4 DEF Compare
  <2>2. /\ other \in Ids /\ other < current /\ current \in Ids
        /\ Full[insert - 1] = other /\ Full[insert] = current
    BY <1>1, <1>4, EarlierSlot
  <2>3. source[other] \in Int /\ source[current] \in Int /\ other \in Int /\ current \in Int
    BY <1>1, <2>2
  <2>4. CASE function = "usort"
    BY <1>1, <1>4, <2>1, <2>4, PlaceKeeps, ShiftKeeps DEF InPlace
  <2>5. CASE function = "sort"
    <3>1. compared = Sign(source[other] - source[current])
      BY <2>1, <2>5 DEF compare_sortable
    <3>2. compared <= 0 <=> source[other] <= source[current]
      BY <2>3, <3>1 DEF Sign
    <3>3. IF compared <= 0 THEN InOrder(other, current) ELSE InOrder(current, other)
      BY <2>2, <2>3, <2>5, <3>2 DEF InOrder
    <3> QED  BY <1>1, <1>4, <2>1, <2>2, <3>3, PlaceKeeps, ShiftKeeps DEF InPlace, StopsAt
  <2>6. CASE function = "rsort"
    <3>1. compared = -Sign(source[other] - source[current])
      BY <2>1, <2>6 DEF compare_sortable
    <3>2. compared <= 0 <=> source[other] >= source[current]
      BY <2>3, <3>1 DEF Sign
    <3>3. IF compared <= 0 THEN InOrder(other, current) ELSE InOrder(current, other)
      BY <2>2, <2>3, <2>6, <3>2 DEF InOrder
    <3> QED  BY <1>1, <1>4, <2>1, <2>2, <3>3, PlaceKeeps, ShiftKeeps DEF InPlace, StopsAt
  <2> QED  BY <1>1, <2>4, <2>5, <2>6 DEF SortShape
<1> QED  BY <1>2, <1>3, <1>4 DEF Compare

\* The callback failed with an entry in hand.
LEMMA CompareFailsKeeps ==
  ASSUME SortInv, CompareFails PROVE SortInv'
<1>1. SortShape /\ at = "compare" /\ filled = Len(source) /\ Unchanged
  BY DEF SortInv, Busy, CompareFails
<1>2. current # Nobody
  BY <1>1 DEF SortInv, AtCompare, Nobody
<1>3. SortShape'
  <2>1. \A k \in Ids : Slots(k) \in Int
    BY <1>1, SlotsAreCounted
  <2>2. Released \in [Ids -> Int]
    BY <1>1, <2>1 DEF Released, SortShape
  <2> QED  BY <1>1, <2>2 DEF SortShape, CompareFails, Ids
<1>4. AtEnd'
  BY <1>1, <1>2 DEF AtEnd, CompareFails, locals, Unchanged
<1> QED
  BY <1>3, <1>4 DEF SortInv, CompareFails, AtStart, Busy, AtOuter, AtCompare, AtRebuild

\* The slots give their references back when the storage cannot be had.
LEMMA RebuildFailsKeeps ==
  ASSUME SortInv, RebuildFails PROVE SortInv'
<1>1. /\ SortShape /\ filled = Len(source) /\ Unchanged /\ OwnedBy(2) /\ Arranged(sortable)
      /\ current = Nobody
  BY DEF SortInv, Busy, AtRebuild, Full, RebuildFails
<1>2. \A k \in Ids : Slots(k) = 1
  BY <1>1, OneSlot
<1>3. refs' = [k \in Ids |-> 1]
  BY <1>1, <1>2 DEF RebuildFails, Released, OwnedBy
<1>4. SortShape'
  BY <1>1, <1>3 DEF SortShape, RebuildFails, Ids
<1>5. AtEnd'
  BY <1>1, <1>3 DEF AtEnd, RebuildFails, locals, Unchanged, OwnedBy, Ids
<1> QED
  BY <1>4, <1>5 DEF SortInv, RebuildFails, AtStart, Busy, AtOuter, AtCompare, AtRebuild

\* The array takes the entries as they stand in the slots.
LEMMA RebuildKeeps ==
  ASSUME SortInv, Rebuild PROVE SortInv'
<1>1. /\ SortShape /\ filled = Len(source) /\ Unchanged /\ OwnedBy(2) /\ Arranged(sortable)
      /\ \A j, k \in Places : j < k => InPlace(sortable, j, k)
      /\ Ids = 1 .. Len(source) /\ Len(source) \in Nat
  BY RanksAreIntegers DEF SortInv, Busy, AtRebuild, Full, Rebuild, SortShape
<1>2. \A k \in Ids : Slots(k) = 1
  BY <1>1, OneSlot
<1>3. refs' = [k \in Ids |-> 1]
  BY <1>1, <1>2 DEF Rebuild, OwnedBy
<1>4. SortShape'
  BY <1>1, <1>3 DEF SortShape, Rebuild, Ids
<1>5. /\ order' = [k \in 1 .. Len(source) |-> sortable[k - 1]] /\ source' = source /\ at' = "done"
      /\ function' = function
  BY <1>1 DEF Rebuild
<1>6. order' \in [1 .. Len(source) -> Ids]
  <2>1. \A k \in 1 .. Len(source) : k - 1 \in Places
    BY <1>1 DEF Places
  <2> QED  BY <1>1, <1>5, <2>1 DEF Arranged
<1>7. \A id \in Ids : \E k \in DOMAIN order' : order'[k] = id
  <2> SUFFICES ASSUME NEW id \in Ids PROVE \E k \in 1 .. Len(source) : order'[k] = id
    BY <1>6
  <2>1. PICK k \in Places : sortable[k] = id
    BY <1>1 DEF Arranged
  <2>2. k + 1 \in 1 .. Len(source) /\ order'[k + 1] = id
    BY <1>1, <1>5, <2>1 DEF Places
  <2> QED  BY <2>2
<1>8. \A j, k \in DOMAIN order' : j < k => InPlace(order, j, k)'
  <2> SUFFICES ASSUME NEW j \in 1 .. Len(source), NEW k \in 1 .. Len(source), j < k
               PROVE  InPlace(order, j, k)'
    BY <1>6
  <2>1. /\ j - 1 \in Places /\ k - 1 \in Places /\ j - 1 < k - 1
        /\ order'[j] = sortable[j - 1] /\ order'[k] = sortable[k - 1]
    BY <1>1, <1>5 DEF Places
  <2> QED  BY <1>1, <1>5, <2>1 DEF InPlace, InOrder
<1>9. AtEnd'
  BY <1>3, <1>5, <1>6, <1>7, <1>8 DEF AtEnd, OwnedBy, Ids
<1> QED
  BY <1>4, <1>5, <1>9 DEF SortInv, AtStart, Busy, AtOuter, AtCompare, AtRebuild

\* The invariant of a sort, step by step.
LEMMA SortStepKeeps == SortInv /\ [SortNext]_sortVars => SortInv'
<1> SUFFICES ASSUME SortInv, [SortNext]_sortVars PROVE SortInv'
  OBVIOUS
<1>1. CASE UNCHANGED sortVars
  BY <1>1 DEF sortVars, SortInv, SortShape, AtStart, Busy, AtOuter, AtCompare, AtRebuild, AtEnd,
              Places, Full, Arranged, Unchanged, OwnedBy, InPlace, InOrder, Ids
<1> QED
  BY <1>1, CollectKeeps, CollectFailsKeeps, OuterKeeps, CompareKeeps, CompareFailsKeeps,
     RebuildFailsKeeps, RebuildKeeps DEF SortNext

\* An entry inserted later in the array than another is greater or as great.
LEMMA SortInvMeans == SortInv => OwnedOnce /\ KeepsEntries /\ SortedStably
<1> SUFFICES ASSUME SortInv PROVE OwnedOnce /\ KeepsEntries /\ SortedStably
  OBVIOUS
<1>1. SortShape /\ Ids = 1 .. Len(source) /\ Len(source) \in Nat
  BY RanksAreIntegers DEF SortInv, SortShape
<1>2. CASE at = "done"
  <2>1. /\ OwnedBy(1) /\ order \in [1 .. Len(source) -> Ids]
        /\ \A id \in Ids : \E k \in DOMAIN order : order[k] = id
        /\ \A j, k \in DOMAIN order : j < k => InPlace(order, j, k)
    BY <1>2 DEF SortInv, AtEnd
  <2>2. {order[k] : k \in DOMAIN order} = Ids /\ Len(order) = Len(source)
    <3>1. DOMAIN order = 1 .. Len(source) /\ Len(order) = Len(source)
      BY <1>1, <2>1
    <3>2. {order[k] : k \in DOMAIN order} = Ids
      BY <2>1, <3>1
    <3> QED  BY <3>1, <3>2
  <2> QED  BY <1>2, <2>1, <2>2 DEF OwnedOnce, KeepsEntries, SortedStably, OwnedBy, InPlace
<1>3. CASE at # "done"
  <2>1. Unchanged
    BY <1>1, <1>3 DEF SortInv, SortShape, AtStart, Busy, AtEnd
  <2>2. {order[k] : k \in DOMAIN order} = Ids /\ Len(order) = Len(source)
    <3>1. order = [k \in 1 .. Len(source) |-> k]
      BY <1>1, <2>1 DEF Unchanged, Ids
    <3>2. order \in [1 .. Len(source) -> Ids] /\ \A k \in Ids : order[k] = k
      BY <1>1, <3>1
    <3>3. Len(order) = Len(source) /\ DOMAIN order = Ids
      BY <1>1, <3>2
    <3>4. {order[k] : k \in DOMAIN order} = Ids
      BY <3>2, <3>3
    <3> QED  BY <3>3, <3>4
  <2>3. at = "failed" /\ current = Nobody => OwnedBy(1)
    BY DEF SortInv, AtEnd
  <2> QED  BY <1>3, <2>1, <2>2, <2>3 DEF OwnedOnce, KeepsEntries, SortedStably, OwnedBy, Unchanged
<1> QED  BY <1>2, <1>3

\* One entry fewer is one round fewer.
LEMMA OneRoundFewer ==
  ASSUME Len(source) \in Nat, NEW left \in Nat
  PROVE  /\ Rounds(left) \in Nat
         /\ Rounds(left + 1) = Rounds(left) + Len(source) + 3
<1> DEFINE n == Len(source) + 3
<1>1. n \in Nat
  OBVIOUS
<1> HIDE DEF n
<1>2. left * n \in Nat /\ (left + 1) * n = left * n + n
  BY <1>1
<1> QED  BY <1>2 DEF n, Rounds

\* No step of a sort leaves as much to do as there was.
LEMMA SortStepAdvances ==
  SortInv /\ [SortNext]_sortVars => [0 <= StepsLeft' /\ StepsLeft' < StepsLeft]_sortVars
<1> SUFFICES ASSUME SortInv, SortNext PROVE 0 <= StepsLeft' /\ StepsLeft' < StepsLeft
  OBVIOUS
<1>1. SortShape /\ Len(source) \in Nat
  BY DEF SortInv, SortShape
<1>2. ASSUME NEW k \in Nat PROVE Rounds(k) \in Nat
  BY <1>1, OneRoundFewer
<1>3. CASE Collect
  <2>1. at = "start" /\ at' = "outer" /\ outer' = 1 /\ source' = source
    BY <1>3 DEF Collect
  <2>2. StepsLeft = Rounds(Len(source)) + 4 /\ StepsLeft' = Rounds(Len(source)) + 3
    BY <1>1, <2>1 DEF StepsLeft, Rounds
  <2>3. Rounds(Len(source)) \in Nat
    BY <1>1, <1>2
  <2> QED  BY <2>2, <2>3
<1>4. CASE CollectFails
  <2>1. StepsLeft = Rounds(Len(source)) + 4 /\ StepsLeft' = 0
    BY <1>4 DEF StepsLeft, CollectFails
  <2> QED  BY <1>1, <1>2, <2>1
<1>5. CASE Outer
  <2>1. /\ at = "outer" /\ outer \in 1 .. Len(source) + 1 /\ filled = Len(source) /\ source' = source
        /\ Len(source) + 1 - outer \in Nat
    BY <1>1, <1>5 DEF SortInv, AtOuter, Busy, Outer
  <2>2. StepsLeft = Rounds(Len(source) + 1 - outer) + 3
    BY <2>1 DEF StepsLeft
  <2>3. CASE outer < filled
    <3>1. at' = "compare" /\ insert' = outer /\ outer' = outer
      BY <1>5, <2>3 DEF Outer
    <3>2. StepsLeft' = Rounds(Len(source) - outer) + 4 + outer
      BY <2>1, <3>1 DEF StepsLeft, Rounds
    <3>3. Rounds(Len(source) + 1 - outer) = Rounds(Len(source) - outer) + Len(source) + 3
      <4>1. Len(source) - outer \in Nat /\ (Len(source) - outer) + 1 = Len(source) + 1 - outer
        BY <1>1, <2>1, <2>3
      <4> QED  BY <1>1, <4>1, OneRoundFewer
    <3>4. Rounds(Len(source) - outer) \in Nat
      <4>1. Len(source) - outer \in Nat
        BY <1>1, <2>1, <2>3
      <4> QED  BY <1>2, <4>1
    <3> QED  BY <1>1, <2>1, <2>2, <2>3, <3>2, <3>3, <3>4, SMTT(30)
  <2>4. CASE ~(outer < filled)
    <3>1. StepsLeft' = 1
      BY <1>5, <2>4 DEF Outer, StepsLeft
    <3> QED  BY <1>2, <2>1, <2>2, <3>1
  <2> QED  BY <2>3, <2>4
<1>6. CASE Compare
  <2>1. /\ at = "compare" /\ outer \in 1 .. Len(source) - 1 /\ insert \in 0 .. outer
        /\ Len(source) - outer \in Nat
    BY <1>1, <1>6 DEF SortInv, AtCompare, Compare
  <2>2. StepsLeft = Rounds(Len(source) - outer) + 4 + insert
    BY <2>1 DEF StepsLeft
  <2>3. Rounds(Len(source) - outer) \in Nat
    BY <1>2, <2>1
  <2>4. CASE Place
    <3>1. at' = "outer" /\ outer' = outer + 1 /\ source' = source
      BY <2>4 DEF Place
    <3>2. StepsLeft' = Rounds(Len(source) - outer) + 3
      <4>1. Len(source) + 1 - (outer + 1) = Len(source) - outer
        BY <1>1, <2>1
      <4> QED  BY <3>1, <4>1 DEF StepsLeft, Rounds
    <3> QED  BY <2>1, <2>2, <2>3, <3>2
  <2>5. CASE insert > 0 /\ Shift
    <3>1. StepsLeft' = Rounds(Len(source) - outer) + 4 + (insert - 1)
      BY <2>1, <2>5 DEF StepsLeft, Shift, Rounds
    <3> QED  BY <2>1, <2>2, <2>3, <2>5, <3>1
  <2> QED  BY <1>6, <2>4, <2>5 DEF Compare
<1>7. CASE CompareFails
  <2>1. at = "compare" /\ at' = "failed" /\ Len(source) - outer \in Nat /\ insert \in Nat
    BY <1>1, <1>7 DEF SortInv, AtCompare, CompareFails
  <2>2. StepsLeft = Rounds(Len(source) - outer) + 4 + insert /\ StepsLeft' = 0
    BY <2>1 DEF StepsLeft
  <2> QED  BY <1>2, <2>1, <2>2
<1>8. CASE RebuildFails
  BY <1>8 DEF StepsLeft, RebuildFails
<1>9. CASE Rebuild
  BY <1>9 DEF StepsLeft, Rebuild
<1> QED  BY <1>3, <1>4, <1>5, <1>6, <1>7, <1>8, <1>9 DEF SortNext

\* sort(), rsort() and usort() keep every entry, with one reference in the end,
\* put them in order without changing places of equals, and end
\* (call_array_sort() of stdlib/arrays.c), for arrays of every size.
THEOREM SortKeepsOrder == SortSpec => SortsStably
<1>1. SortSpec => []SortInv
  BY SortStarts, SortStepKeeps, PTL DEF SortSpec
<1>2. SortSpec => []OwnedOnce /\ []KeepsEntries /\ []SortedStably
  BY <1>1, SortInvMeans, PTL
<1>3. SortSpec => [][0 <= StepsLeft' /\ StepsLeft' < StepsLeft]_sortVars
  BY <1>1, SortStepAdvances, PTL DEF SortSpec
<1> QED  BY <1>2, <1>3, PTL DEF SortsStably, Advances
=============================================================================
