----------------------------- MODULE SymbolProofs -----------------------------
(***************************************************************************)
(* The table of interned names, for any names, hash function and sizes and *)
(* any nested VMs: a name is found again as one string.  First what holds  *)
(* of sequences, which StateProofs uses too.                               *)
(***************************************************************************)
EXTENDS Symbols, FiniteSetTheorems, WellFoundedInduction, TLAPS

IsSeq(s) == \E S : s \in Seq(S)

LEMMA SeqIs ==
  ASSUME NEW s, IsSeq(s)
  PROVE  Len(s) \in Nat /\ DOMAIN s = 1 .. Len(s)
BY DEF IsSeq

LEMMA OneIs ==
  ASSUME NEW x
  PROVE  IsSeq(<<x>>) /\ Len(<<x>>) = 1 /\ <<x>>[1] = x
<1>1. <<x>> \in Seq({x}) /\ Len(<<x>>) = 1 /\ <<x>>[1] = x
  OBVIOUS
<1> QED
  BY <1>1 DEF IsSeq

LEMMA AppendIs ==
  ASSUME NEW s, IsSeq(s), NEW x
  PROVE  /\ IsSeq(Append(s, x))
         /\ Len(Append(s, x)) = Len(s) + 1
         /\ \A i \in 1 .. Len(s) : Append(s, x)[i] = s[i]
         /\ Append(s, x)[Len(s) + 1] = x
<1>1. PICK S : s \in Seq(S)
  BY DEF IsSeq
<1>2. s \in Seq(S \cup {x}) /\ x \in S \cup {x}
  BY <1>1
<1>3. Append(s, x) \in Seq(S \cup {x})
  BY <1>2
<1> QED
  BY <1>2, <1>3 DEF IsSeq

LEMMA FrontIs ==
  ASSUME NEW s, IsSeq(s), Len(s) > 1
  PROVE  /\ IsSeq(SubSeq(s, 1, Len(s) - 1))
         /\ Len(SubSeq(s, 1, Len(s) - 1)) = Len(s) - 1
         /\ \A i \in 1 .. Len(s) - 1 : SubSeq(s, 1, Len(s) - 1)[i] = s[i]
<1>1. PICK S : s \in Seq(S)
  BY DEF IsSeq
<1>2. SubSeq(s, 1, Len(s) - 1) \in Seq(S)
  BY <1>1
<1>3. IsSeq(SubSeq(s, 1, Len(s) - 1))
  BY <1>2 DEF IsSeq
<1>4. /\ Len(SubSeq(s, 1, Len(s) - 1)) = Len(s) - 1
      /\ \A i \in 1 .. Len(s) - 1 : SubSeq(s, 1, Len(s) - 1)[i] = s[i]
  BY <1>1
<1> QED
  BY <1>3, <1>4

\* Replacing one element of a sequence.
Replaced(s, k, x) == [s EXCEPT ![k] = x]

LEMMA ReplacedIs ==
  ASSUME NEW s, IsSeq(s), NEW k \in 1 .. Len(s), NEW x, NEW t, t = Replaced(s, k, x)
  PROVE  /\ IsSeq(t)
         /\ Len(t) = Len(s)
         /\ t[k] = x
         /\ \A i \in 1 .. Len(s) : i # k => t[i] = s[i]
<1>1. PICK S : s \in Seq(S)
  BY DEF IsSeq
<1>2. DOMAIN t = 1 .. Len(s) /\ \A i \in 1 .. Len(s) : t[i] \in S \cup {x}
  BY <1>1 DEF Replaced
<1>3. t \in [1 .. Len(s) -> S \cup {x}]
  BY <1>2 DEF Replaced
<1>4. t \in Seq(S \cup {x}) /\ Len(t) = Len(s)
  BY <1>1, <1>3
<1>5. t[k] = x /\ \A i \in 1 .. Len(s) : i # k => t[i] = s[i]
  BY <1>1 DEF Replaced
<1> QED
  BY <1>4, <1>5 DEF IsSeq

LEMMA LeastIs ==
  ASSUME NEW S \in SUBSET Nat, S # {}
  PROVE  \E i \in S : \A j \in S : i <= j
<1>1. PICK i \in S : \A j \in S : <<j, i>> \notin OpToRel(<, Nat)
  BY NatLessThanWellFounded, WFMin, Zenon
<1>2. \A j \in S : ~(j < i)
  BY <1>1 DEF OpToRel
<1> QED
  BY <1>2

-----------------------------------------------------------------------------
(***************************************************************************)
(* Interned names (Symbols), for any names, hashes and table sizes.        *)
(***************************************************************************)
Used(es, c) == {s \in 0 .. c - 1 : es[s] # None}
Held(es, c) == {es[s] : s \in Used(es, c)}

\* The probe for n meets k slots with other names, and then its name or none.
Reaches(es, c, n, k) ==
  /\ k \in 0 .. c - 1 /\ es[Probe(n, c, k)] \in {None, n}
  /\ \A j \in 0 .. k - 1 : es[Probe(n, c, j)] \notin {None, n}

\* Each name is in one slot, where its probe ends.
SoundTable(es, c) ==
  /\ es \in [0 .. c - 1 -> Identifiers \cup {None}]
  /\ \A s, u \in 0 .. c - 1 : es[s] = es[u] /\ es[s] # None => s = u
  /\ \A s \in Used(es, c) : \E k \in 0 .. c - 1 : Reaches(es, c, es[s], k) /\ Probe(es[s], c, k) = s

\* Remainders.
LEMMA Remainder ==
  ASSUME NEW h \in Nat, NEW c \in Nat, c > 0
  PROVE  h = c * (h \div c) + (h % c) /\ h % c \in 0 .. c - 1 /\ h \div c \in Nat
OBVIOUS

LEMMA RemainderIs ==
  ASSUME NEW h \in Nat, NEW c \in Nat, c > 0, NEW q \in Nat, NEW s \in 0 .. c - 1, h = c * q + s
  PROVE  h % c = s
OBVIOUS

LEMMA ProbeIs ==
  ASSUME NEW n \in Identifiers, NEW c \in Nat, c > 0
  PROVE  /\ \A k \in 0 .. c - 1 : Probe(n, c, k) \in 0 .. c - 1
         /\ \A s \in 0 .. c - 1 : \E k \in 0 .. c - 1 : Probe(n, c, k) = s
<1>1. PICK h \in Nat : h = Hash[n]
  BY SymbolsAssumption
<1>2. ASSUME NEW k \in 0 .. c - 1 PROVE Probe(n, c, k) \in 0 .. c - 1
  <2>1. h + k \in Nat
    OBVIOUS
  <2>2. (h + k) % c \in 0 .. c - 1
    BY <2>1, Remainder
  <2> QED  BY <1>1, <2>2 DEF Probe
<1>3. ASSUME NEW s \in 0 .. c - 1 PROVE \E k \in 0 .. c - 1 : Probe(n, c, k) = s
  <2>1. PICK q \in Nat, r \in 0 .. c - 1 : h = c * q + r
    <3>1. h = c * (h \div c) + (h % c) /\ h % c \in 0 .. c - 1 /\ h \div c \in Nat
      BY Remainder
    <3> QED  BY <3>1
  <2>2. CASE s >= r
    <3>1. s - r \in 0 .. c - 1 /\ h + (s - r) \in Nat /\ h + (s - r) = c * q + s
      BY <2>1, <2>2
    <3>2. (h + (s - r)) % c = s
      BY <3>1, RemainderIs
    <3> QED  BY <1>1, <3>1, <3>2 DEF Probe
  <2>3. CASE s < r
    <3>1. PICK k \in 0 .. c - 1 : k = s - r + c
      BY <2>1, <2>3
    <3>2. h + k \in Nat /\ q + 1 \in Nat /\ h + k = c * (q + 1) + s
      BY <2>1, <3>1
    <3>3. (h + k) % c = s
      BY <3>2, RemainderIs
    <3> QED  BY <1>1, <3>3 DEF Probe
  <2> QED  BY <2>2, <2>3
<1> QED  BY <1>2, <1>3

\* Where find_slot ends.
LEMMA FindSlotIs ==
  ASSUME NEW c \in Nat, c > 0, NEW es, NEW n \in Identifiers, Stops(es, c, n) # {}
  PROVE  \E k \in 0 .. c - 1 : Reaches(es, c, n, k) /\ find_slot(es, c, n) = Probe(n, c, k)
<1> DEFINE S == Stops(es, c, n)
<1>1. S \in SUBSET Nat
  BY DEF Stops
<1>2. \E k \in S : \A j \in S : k <= j
  <2> HIDE DEF S
  <2> QED  BY <1>1, LeastIs DEF S
<1>3. PICK k : k = Min(S)
  OBVIOUS
<1>4. k \in S /\ \A j \in S : k <= j
  BY <1>2, <1>3 DEF Min
<1>5. k \in 0 .. c - 1 /\ es[Probe(n, c, k)] \in {None, n}
  BY <1>4 DEF Stops
<1>6. ASSUME NEW j \in 0 .. k - 1, es[Probe(n, c, j)] \in {None, n} PROVE FALSE
  <2>1. j \in 0 .. c - 1 /\ ~(k <= j)
    BY <1>5
  <2>2. j \in S
    BY <1>6, <2>1 DEF Stops
  <2> QED  BY <1>4, <2>1, <2>2
<1>7. find_slot(es, c, n) = Probe(n, c, k)
  BY <1>3 DEF find_slot
<1> QED  BY <1>5, <1>6, <1>7 DEF Reaches

LEMMA ReachesOne ==
  ASSUME NEW c \in Nat, c > 0, NEW es, NEW n \in Identifiers, NEW k \in 0 .. c - 1, Reaches(es, c, n, k)
  PROVE  Stops(es, c, n) # {} /\ find_slot(es, c, n) = Probe(n, c, k)
<1>1. k \in Stops(es, c, n)
  BY DEF Reaches, Stops
<1>2. PICK i \in 0 .. c - 1 : Reaches(es, c, n, i) /\ find_slot(es, c, n) = Probe(n, c, i)
  BY <1>1, FindSlotIs
<1>3. ~(i < k)
  <2> SUFFICES ASSUME i < k PROVE FALSE
    OBVIOUS
  <2>1. i \in 0 .. k - 1
    OBVIOUS
  <2> QED  BY <1>2, <2>1 DEF Reaches
<1>4. ~(k < i)
  <2> SUFFICES ASSUME k < i PROVE FALSE
    OBVIOUS
  <2>1. k \in 0 .. i - 1
    OBVIOUS
  <2> QED  BY <1>2, <2>1 DEF Reaches
<1>5. i = k
  BY <1>3, <1>4
<1> QED  BY <1>1, <1>2, <1>5

\* Where there is room, every probe ends.
LEMMA RoomStops ==
  ASSUME NEW c \in Nat, c > 0, NEW es, NEW n \in Identifiers, Cardinality(Used(es, c)) < c
  PROVE  Stops(es, c, n) # {}
<1>1. IsFiniteSet(0 .. c - 1) /\ Cardinality(0 .. c - 1) = c
  BY FS_Interval
<1>2. Used(es, c) # 0 .. c - 1
  BY <1>1
<1>3. PICK s \in 0 .. c - 1 : es[s] = None
  BY <1>2 DEF Used
<1>4. PICK k \in 0 .. c - 1 : Probe(n, c, k) = s
  BY ProbeIs
<1> QED  BY <1>3, <1>4 DEF Stops

\* What the slot found says about a name.
LEMMA FoundIs ==
  ASSUME NEW c \in Nat, c > 0, NEW es, SoundTable(es, c), NEW n \in Identifiers, Stops(es, c, n) # {}
  PROVE  /\ find_slot(es, c, n) \in 0 .. c - 1
         /\ es[find_slot(es, c, n)] = IF n \in Held(es, c) THEN n ELSE None
<1>1. PICK k \in 0 .. c - 1 : Reaches(es, c, n, k) /\ find_slot(es, c, n) = Probe(n, c, k)
  BY FindSlotIs
<1>2. PICK s : s = find_slot(es, c, n)
  OBVIOUS
<1>3. s \in 0 .. c - 1 /\ es[s] \in {None, n}
  BY <1>1, <1>2, ProbeIs DEF Reaches
<1>4. n # None
  BY SymbolsAssumption DEF None
<1>5. CASE n \in Held(es, c)
  <2>1. PICK u \in Used(es, c) : es[u] = n
    BY <1>5 DEF Held
  <2>2. PICK i \in 0 .. c - 1 : Reaches(es, c, n, i) /\ Probe(n, c, i) = u
    BY <2>1 DEF SoundTable
  <2>3. s = u
    BY <1>2, <2>2, ReachesOne
  <2> QED  BY <1>2, <1>3, <1>5, <2>1, <2>3
<1>6. CASE n \notin Held(es, c)
  <2>1. es[s] # n
    BY <1>3, <1>4, <1>6 DEF Held, Used
  <2> QED  BY <1>2, <1>3, <1>6, <2>1
<1> QED  BY <1>5, <1>6

\* A name enters the slot found for it.
Entered(es, c, n) == [es EXCEPT ![find_slot(es, c, n)] = n]

LEMMA EnteredIs ==
  ASSUME NEW c \in Nat, c > 0, NEW es, SoundTable(es, c), NEW n \in Identifiers \ Held(es, c),
         Stops(es, c, n) # {}, NEW new, new = Entered(es, c, n)
  PROVE  /\ SoundTable(new, c) /\ Held(new, c) = Held(es, c) \cup {n}
         /\ Cardinality(Used(new, c)) = Cardinality(Used(es, c)) + 1
<1>1. PICK k \in 0 .. c - 1 : Reaches(es, c, n, k) /\ find_slot(es, c, n) = Probe(n, c, k)
  BY FindSlotIs
<1>2. PICK s : s = find_slot(es, c, n)
  OBVIOUS
<1>3. s \in 0 .. c - 1 /\ es[s] = None /\ s = Probe(n, c, k)
  BY <1>1, <1>2, FoundIs
<1>4. n # None /\ None \notin Identifiers
  BY SymbolsAssumption DEF None
<1>5. /\ es \in [0 .. c - 1 -> Identifiers \cup {None}]
      /\ \A t, u \in 0 .. c - 1 : es[t] = es[u] /\ es[t] # None => t = u
      /\ \A t \in Used(es, c) : \E i \in 0 .. c - 1 : Reaches(es, c, es[t], i) /\ Probe(es[t], c, i) = t
  BY DEF SoundTable
<1>6. /\ new \in [0 .. c - 1 -> Identifiers \cup {None}] /\ new[s] = n
      /\ \A t \in 0 .. c - 1 : t # s => new[t] = es[t]
  <2>1. new = [es EXCEPT ![s] = n]
    BY <1>2 DEF Entered
  <2>2. es \in [0 .. c - 1 -> Identifiers \cup {None}] /\ s \in 0 .. c - 1
    BY <1>3, <1>5
  <2> QED  BY <2>1, <2>2
<1>7. \A t \in 0 .. c - 1 : es[t] # n
  BY <1>4 DEF Held, Used
<1>8. Used(new, c) = Used(es, c) \cup {s} /\ s \notin Used(es, c)
  BY <1>3, <1>4, <1>6 DEF Used
<1>9. Cardinality(Used(new, c)) = Cardinality(Used(es, c)) + 1
  <2>1. IsFiniteSet(0 .. c - 1) /\ Used(es, c) \in SUBSET (0 .. c - 1)
    BY FS_Interval DEF Used
  <2>2. IsFiniteSet(Used(es, c))
    BY <2>1, FS_Subset
  <2> QED  BY <1>8, <2>2, FS_AddElement
<1>10. Held(new, c) = Held(es, c) \cup {n}
  <2>1. \A t \in Used(es, c) : t \in 0 .. c - 1 /\ t # s /\ new[t] = es[t]
    BY <1>6, <1>8 DEF Used
  <2>2. ASSUME NEW m \in Held(new, c) PROVE m \in Held(es, c) \cup {n}
    <3>1. PICK t \in Used(new, c) : m = new[t]
      BY DEF Held
    <3> QED  BY <1>6, <1>8, <2>1, <3>1 DEF Held
  <2>3. ASSUME NEW m \in Held(es, c) PROVE m \in Held(new, c)
    <3>1. PICK t \in Used(es, c) : m = es[t]
      BY DEF Held
    <3>2. t \in Used(new, c) /\ m = new[t]
      BY <1>8, <2>1, <3>1
    <3> QED  BY <3>2 DEF Held
  <2>4. n \in Held(new, c)
    BY <1>6, <1>8 DEF Held
  <2> QED  BY <2>2, <2>3, <2>4
<1>11. \A t, u \in 0 .. c - 1 : new[t] = new[u] /\ new[t] # None => t = u
  <2> SUFFICES ASSUME NEW t \in 0 .. c - 1, NEW u \in 0 .. c - 1, new[t] = new[u], new[t] # None PROVE t = u
    OBVIOUS
  <2>1. CASE t = s \/ u = s
    BY <1>6, <1>7, <2>1
  <2>2. CASE t # s /\ u # s
    BY <1>5, <1>6, <2>2
  <2> QED  BY <2>1, <2>2
<1>12. ASSUME NEW m \in Identifiers, NEW i \in 0 .. c - 1, Reaches(es, c, m, i),
              (i = k /\ m = n) \/ es[Probe(m, c, i)] = m
       PROVE  Reaches(new, c, m, i)
  <2>1. ASSUME NEW j \in 0 .. i - 1 PROVE new[Probe(m, c, j)] \notin {None, m}
    <3>1. es[Probe(m, c, j)] \notin {None, m} /\ j \in 0 .. c - 1
      BY <1>12 DEF Reaches
    <3>2. Probe(m, c, j) \in 0 .. c - 1 /\ Probe(m, c, j) # s
      BY <1>3, <3>1, ProbeIs
    <3> QED  BY <1>6, <3>1, <3>2
  <2>2. new[Probe(m, c, i)] = m
    <3>1. CASE i = k /\ m = n
      BY <1>3, <1>6, <3>1
    <3>2. CASE es[Probe(m, c, i)] = m
      <4>1. Probe(m, c, i) \in 0 .. c - 1 /\ Probe(m, c, i) # s
        BY <1>3, <1>4, <3>2, ProbeIs
      <4> QED  BY <1>6, <3>2, <4>1
    <3> QED  BY <1>12, <3>1, <3>2
  <2> QED  BY <2>1, <2>2 DEF Reaches
<1>13. ASSUME NEW t \in Used(new, c)
       PROVE  \E i \in 0 .. c - 1 : Reaches(new, c, new[t], i) /\ Probe(new[t], c, i) = t
  <2>1. CASE t = s
    BY <1>1, <1>3, <1>6, <1>12, <2>1
  <2>2. CASE t # s
    <3>1. t \in Used(es, c) /\ new[t] = es[t] /\ es[t] \in Identifiers
      BY <1>5, <1>6, <1>8, <2>2 DEF Used
    <3>2. PICK i \in 0 .. c - 1 : Reaches(es, c, es[t], i) /\ Probe(es[t], c, i) = t
      BY <1>5, <3>1
    <3>3. Reaches(new, c, es[t], i)
      BY <1>12, <3>1, <3>2
    <3> QED  BY <3>1, <3>2, <3>3
  <2> QED  BY <2>1, <2>2
<1> QED  BY <1>6, <1>9, <1>10, <1>11, <1>13 DEF SoundTable

\* The loop of resize_table over the old slots.
Moved(es, d, f, s) ==
  IF s = 0 THEN Empty(d)
  ELSE IF es[s - 1] = None THEN f[s - 1]
  ELSE [f[s - 1] EXCEPT ![find_slot(f[s - 1], d, es[s - 1])] = es[s - 1]]

LEMMA MovedExists ==
  ASSUME NEW c \in Nat, NEW d, NEW es
  PROVE  \E f : f = [s \in 0 .. c |-> Moved(es, d, f, s)]
<1> SUFFICES ASSUME ~\E f : f = [s \in 0 .. c |-> Moved(es, d, f, s)] PROVE FALSE
  OBVIOUS
<1> DEFINE Upto(m) == \E f : f = [s \in 0 .. m |-> Moved(es, d, f, s)]
           S == {m \in Nat : ~Upto(m)}
<1>1. S \in SUBSET Nat /\ S # {}
  OBVIOUS
<1> HIDE DEF Upto
<1>2. PICK m \in S : \A j \in S : m <= j
  BY <1>1, LeastIs
<1>3. m # 0
  <2> DEFINE g == [s \in 0 .. 0 |-> Empty(d)]
  <2>1. g = [s \in 0 .. 0 |-> Moved(es, d, g, s)]
    BY DEF Moved
  <2>2. Upto(0)
    BY <2>1 DEF Upto
  <2> QED  BY <2>2, <1>2
<1>4. m - 1 \in Nat /\ Upto(m - 1)
  BY <1>2, <1>3
<1>5. PICK f : f = [s \in 0 .. m - 1 |-> Moved(es, d, f, s)]
  BY <1>4 DEF Upto
<1> DEFINE last == Moved(es, d, f, m)
           g == [s \in 0 .. m |-> IF s = m THEN last ELSE f[s]]
<1>6. \A s \in 0 .. m : Moved(es, d, g, s) = g[s]
  <2> SUFFICES ASSUME NEW s \in 0 .. m PROVE Moved(es, d, g, s) = g[s]
    OBVIOUS
  <2>1. Moved(es, d, g, s) = Moved(es, d, f, s)
    <3>1. s > 0 => g[s - 1] = f[s - 1]
      BY <1>4
    <3> HIDE DEF g
    <3> QED  BY <3>1 DEF Moved
  <2>2. CASE s = m
    BY <2>1, <2>2
  <2>3. CASE s # m
    <3>1. s \in 0 .. m - 1
      BY <2>3, <1>4
    <3>2. f[s] = Moved(es, d, f, s)
      BY <1>5, <3>1
    <3> QED  BY <2>1, <2>3, <3>2
  <2> QED  BY <2>2, <2>3
<1>7. g = [s \in 0 .. m |-> Moved(es, d, g, s)]
  BY <1>6
<1>8. Upto(m)
  BY <1>7 DEF Upto
<1> QED  BY <1>8, <1>2

\* The slots in use among the first s.
UsedBelow(es, s) == {i \in 0 .. s - 1 : es[i] # None}

LEMMA RehashedIs ==
  ASSUME NEW c \in Nat, NEW d \in Nat, 0 < c, c < d, NEW es, SoundTable(es, c)
  PROVE  /\ SoundTable(Rehashed(es, c, d), d) /\ Held(Rehashed(es, c, d), d) = Held(es, c)
         /\ Cardinality(Used(Rehashed(es, c, d), d)) = Cardinality(Used(es, c))
<1> DEFINE F == CHOOSE f : f = [s \in 0 .. c |-> Moved(es, d, f, s)]
<1>1. F = [s \in 0 .. c |-> Moved(es, d, F, s)]
  BY MovedExists
<1>2. Rehashed(es, c, d) = F[c]
  BY DEF Rehashed, Moved
<1> HIDE DEF F
<1> DEFINE Good(s) == /\ SoundTable(F[s], d)
                      /\ Held(F[s], d) = {es[i] : i \in UsedBelow(es, s)}
                      /\ Cardinality(Used(F[s], d)) = Cardinality(UsedBelow(es, s))
<1>3. Good(0)
  <2>1. F[0] = Empty(d)
    BY <1>1 DEF Moved
  <2>2. PICK e : e = F[0]
    OBVIOUS
  <2>3. e = [i \in 0 .. d - 1 |-> None]
    BY <2>1, <2>2 DEF Empty
  <2>4. Used(e, d) = {}
    BY <2>3 DEF Used
  <2>5. SoundTable(e, d)
    BY <2>3, <2>4 DEF SoundTable
  <2>6. Held(e, d) = {}
    BY <2>4 DEF Held
  <2>7. UsedBelow(es, 0) = {}
    BY DEF UsedBelow
  <2> QED  BY <2>2, <2>4, <2>5, <2>6, <2>7
<1>4. ASSUME NEW s \in 1 .. c, Good(s - 1) PROVE Good(s)
  <2>1. PICK n : n = es[s - 1]
    OBVIOUS
  <2>2. PICK old, new : old = F[s - 1] /\ new = F[s]
    OBVIOUS
  <2>3. new = IF n = None THEN old ELSE [old EXCEPT ![find_slot(old, d, n)] = n]
    <3>1. F[s] = Moved(es, d, F, s) /\ s # 0
      BY <1>1
    <3> QED  BY <2>1, <2>2, <3>1, Zenon DEF Moved
  <2>4. /\ SoundTable(old, d) /\ Held(old, d) = {es[i] : i \in UsedBelow(es, s - 1)}
        /\ Cardinality(Used(old, d)) = Cardinality(UsedBelow(es, s - 1))
    BY <1>4, <2>2
  <2>5. s - 1 \in 0 .. c - 1 /\ n \in Identifiers \cup {None}
    BY <2>1 DEF SoundTable
  <2>a. \A i : i \in 0 .. s - 1 <=> i \in 0 .. s - 1 - 1 \/ i = s - 1
    OBVIOUS
  <2>6. CASE n = None
    <3>1. UsedBelow(es, s) = UsedBelow(es, s - 1)
      BY <2>1, <2>6, <2>a, Zenon DEF UsedBelow
    <3> QED  BY <2>2, <2>3, <2>4, <2>6, <3>1
  <2>7. CASE n # None
    <3>1. UsedBelow(es, s) = UsedBelow(es, s - 1) \cup {s - 1} /\ s - 1 \notin UsedBelow(es, s - 1)
      BY <2>1, <2>7 DEF UsedBelow
    <3>2. n \notin Held(old, d)
      <4>1. \A i \in UsedBelow(es, s - 1) : i \in 0 .. c - 1 /\ i # s - 1 /\ es[i] # None
        BY DEF UsedBelow
      <4>2. \A i \in UsedBelow(es, s - 1) : es[i] # n
        BY <2>1, <2>5, <4>1 DEF SoundTable
      <4> QED  BY <2>4, <4>2
    <3>3. /\ IsFiniteSet(0 .. s - 1 - 1) /\ Cardinality(0 .. s - 1 - 1) = s - 1
          /\ UsedBelow(es, s - 1) \in SUBSET (0 .. s - 1 - 1)
      <4>1. PICK b \in Int : b = s - 1 - 1
        OBVIOUS
      <4>2. IsFiniteSet(0 .. b) /\ Cardinality(0 .. b) = IF 0 > b THEN 0 ELSE b - 0 + 1
        BY FS_Interval
      <4>3. Cardinality(0 .. b) = s - 1
        BY <4>1, <4>2
      <4> QED  BY <4>1, <4>2, <4>3 DEF UsedBelow
    <3>4. /\ IsFiniteSet(UsedBelow(es, s - 1)) /\ Cardinality(UsedBelow(es, s - 1)) <= s - 1
      BY <3>3, FS_Subset
    <3>5. Cardinality(UsedBelow(es, s - 1)) \in Nat
      BY <3>4, FS_CardinalityType
    <3>6. Cardinality(Used(old, d)) < d
      BY <2>4, <3>4, <3>5
    <3>7. n \in Identifiers \ Held(old, d) /\ d > 0
      BY <2>5, <2>7, <3>2
    <3>8. Stops(old, d, n) # {}
      BY <3>6, <3>7, RoomStops
    <3>9. new = Entered(old, d, n)
      BY <2>3, <2>7 DEF Entered
    <3>10. /\ SoundTable(new, d) /\ Held(new, d) = Held(old, d) \cup {n}
           /\ Cardinality(Used(new, d)) = Cardinality(Used(old, d)) + 1
      <4>1. /\ d \in Nat /\ d > 0 /\ SoundTable(old, d) /\ n \in Identifiers \ Held(old, d)
            /\ Stops(old, d, n) # {} /\ new = Entered(old, d, n)
        BY <2>4, <3>7, <3>8, <3>9
      <4> QED  BY ONLY <4>1, EnteredIs, ZenonT(60)
    <3>11. Cardinality(UsedBelow(es, s)) = Cardinality(UsedBelow(es, s - 1)) + 1
      BY <3>1, <3>4, FS_AddElement
    <3>12. {es[i] : i \in UsedBelow(es, s)} = {es[i] : i \in UsedBelow(es, s - 1)} \cup {n}
      BY <2>1, <3>1
    <3> QED  BY <2>2, <2>4, <3>10, <3>11, <3>12
  <2> QED  BY <2>6, <2>7
<1>5. Good(c)
  <2> SUFFICES ASSUME ~Good(c) PROVE FALSE
    OBVIOUS
  <2> DEFINE S == {s \in 0 .. c : ~Good(s)}
  <2>1. S \in SUBSET Nat /\ c \in S
    OBVIOUS
  <2> HIDE DEF Good
  <2>2. PICK s \in S : \A j \in S : s <= j
    <3> HIDE DEF S
    <3> QED  BY <2>1, LeastIs
  <2>3. s # 0
    BY <1>3, <2>2
  <2>4. s \in 1 .. c /\ s - 1 \in 0 .. c /\ ~(s <= s - 1)
    BY <2>2, <2>3
  <2>5. Good(s - 1)
    BY <2>2, <2>4
  <2> QED  BY <1>4, <2>2, <2>4, <2>5
<1>6. UsedBelow(es, c) = Used(es, c)
  BY DEF UsedBelow, Used
<1> QED  BY <1>2, <1>5, <1>6 DEF Held

\* The loop of next_power_of_two.
Doubled(v, f, k) ==
  IF k = 0 THEN MinCapacity ELSE IF f[k - 1] < v THEN 2 * f[k - 1] ELSE f[k - 1]

LEMMA DoubledExists ==
  ASSUME NEW v \in Nat
  PROVE  \E f : f = [k \in 0 .. v |-> Doubled(v, f, k)]
<1> SUFFICES ASSUME ~\E f : f = [k \in 0 .. v |-> Doubled(v, f, k)] PROVE FALSE
  OBVIOUS
<1> DEFINE Upto(m) == \E f : f = [k \in 0 .. m |-> Doubled(v, f, k)]
           S == {m \in Nat : ~Upto(m)}
<1>1. S \in SUBSET Nat /\ S # {}
  OBVIOUS
<1> HIDE DEF Upto
<1>2. PICK m \in S : \A j \in S : m <= j
  BY <1>1, LeastIs
<1>3. m # 0
  <2> DEFINE g == [k \in 0 .. 0 |-> MinCapacity]
  <2>1. g = [k \in 0 .. 0 |-> Doubled(v, g, k)]
    BY DEF Doubled
  <2>2. Upto(0)
    BY <2>1 DEF Upto
  <2> QED  BY <2>2, <1>2
<1>4. m - 1 \in Nat /\ Upto(m - 1)
  BY <1>2, <1>3
<1>5. PICK f : f = [k \in 0 .. m - 1 |-> Doubled(v, f, k)]
  BY <1>4 DEF Upto
<1> DEFINE last == Doubled(v, f, m)
           g == [k \in 0 .. m |-> IF k = m THEN last ELSE f[k]]
<1>6. \A k \in 0 .. m : Doubled(v, g, k) = g[k]
  <2> SUFFICES ASSUME NEW k \in 0 .. m PROVE Doubled(v, g, k) = g[k]
    OBVIOUS
  <2>1. Doubled(v, g, k) = Doubled(v, f, k)
    <3>1. k > 0 => g[k - 1] = f[k - 1]
      BY <1>4
    <3> HIDE DEF g
    <3> QED  BY <3>1 DEF Doubled
  <2>2. CASE k = m
    BY <2>1, <2>2
  <2>3. CASE k # m
    <3>1. k \in 0 .. m - 1
      BY <2>3, <1>4
    <3>2. f[k] = Doubled(v, f, k)
      BY <1>5, <3>1
    <3> QED  BY <2>1, <2>3, <3>2
  <2> QED  BY <2>2, <2>3
<1>7. g = [k \in 0 .. m |-> Doubled(v, g, k)]
  BY <1>6
<1>8. Upto(m)
  BY <1>7 DEF Upto
<1> QED  BY <1>8, <1>2

LEMMA CapacityIs ==
  ASSUME NEW v \in Nat
  PROVE  next_power_of_two(v) \in Nat /\ next_power_of_two(v) > 0 /\ next_power_of_two(v) >= v
<1> DEFINE F == CHOOSE f : f = [k \in 0 .. v |-> Doubled(v, f, k)]
<1>1. F = [k \in 0 .. v |-> Doubled(v, F, k)]
  BY DoubledExists
<1>2. next_power_of_two(v) = F[v]
  BY DEF next_power_of_two, Doubled
<1> HIDE DEF F
<1> DEFINE Good(k) == F[k] \in Nat /\ F[k] > 0 /\ (F[k] >= v \/ F[k] > k)
<1>3. Good(0)
  <2>1. F[0] = Doubled(v, F, 0)
    BY <1>1
  <2>2. F[0] = MinCapacity
    BY <2>1 DEF Doubled
  <2>3. MinCapacity \in Nat /\ MinCapacity > 0
    <3>1. MinCapacity \in Nat \ {0}
      BY SymbolsAssumption
    <3> QED  BY <3>1
  <2> QED  BY <2>2, <2>3
<1>4. ASSUME NEW k \in 1 .. v, Good(k - 1) PROVE Good(k)
  <2>1. F[k] = IF F[k - 1] < v THEN 2 * F[k - 1] ELSE F[k - 1]
    <3>1. F[k] = Doubled(v, F, k) /\ k # 0
      BY <1>1
    <3> QED  BY <3>1, Zenon DEF Doubled
  <2>2. PICK x \in Nat : x = F[k - 1] /\ x > 0 /\ (x >= v \/ x > k - 1)
    BY <1>4
  <2> QED  BY <2>1, <2>2
<1>5. Good(v)
  <2> SUFFICES ASSUME ~Good(v) PROVE FALSE
    OBVIOUS
  <2> DEFINE S == {k \in 0 .. v : ~Good(k)}
  <2>1. S \in SUBSET Nat /\ v \in S
    OBVIOUS
  <2> HIDE DEF Good
  <2>2. PICK k \in S : \A j \in S : k <= j
    <3> HIDE DEF S
    <3> QED  BY <2>1, LeastIs
  <2>3. k # 0
    BY <1>3, <2>2
  <2>4. k \in 1 .. v /\ k - 1 \in 0 .. v /\ ~(k <= k - 1)
    BY <2>2, <2>3
  <2>5. Good(k - 1)
    BY <2>2, <2>4
  <2> QED  BY <1>4, <2>2, <2>4, <2>5
<1> QED  BY <1>2, <1>5

\* The block p of memory m has c slots and holds the names that were interned;
\* every other block has been given back.
BlockIn(m, p, c, names) ==
  /\ p \in 1 .. Len(m) /\ c \in Nat /\ next_power_of_two(FirstCapacity) <= c
  /\ m[p].live = TRUE /\ DOMAIN m[p] = {"live", "entries"}
  /\ SoundTable(m[p].entries, c)
  /\ Held(m[p].entries, c) = names /\ IsFiniteSet(names)
  /\ Cardinality(Used(m[p].entries, c)) = Cardinality(names)
  /\ \A i \in 1 .. Len(m) : i # p => m[i] = Reclaimed

\* A VM that knows this block knows its capacity, and counts at least the names
\* that only the root interns; otherwise it knows a block that was given back.
Knows(t, m, p, c, names) ==
  /\ DOMAIN t = {"p", "count", "capacity"} /\ t.p \in 1 .. Len(m) /\ t.count \in Nat
  /\ t.p = p => /\ t.capacity = c /\ t.count <= Cardinality(names)
                /\ Cardinality(names \ NestedNames) <= t.count

SymbolInv ==
  /\ IsSeq(tables) /\ IsSeq(mem)
  /\ Len(tables) = 0 => \A i \in 1 .. Len(mem) : mem[i] = Reclaimed
  /\ Len(tables) > 0 =>
       \E p, c : /\ BlockIn(mem, p, c, interned)
                 /\ \A i \in 1 .. Len(tables) : Knows(tables[i], mem, p, c, interned)

\* The tables on the stack.
LEMMA TablesAre ==
  ASSUME SymbolInv
  PROVE  /\ Len(tables) \in Nat /\ Len(mem) \in Nat /\ DOMAIN mem = 1 .. Len(mem)
         /\ DOMAIN tables = 1 .. Len(tables)
         /\ HasTable <=> Len(tables) > 0
         /\ HasTable => /\ Len(tables) \in 1 .. Len(tables) /\ RunningTable = tables[Len(tables)]
                        /\ 1 \in 1 .. Len(tables) /\ Head(tables) = tables[1]
<1>1. PICK S : tables \in Seq(S)
  BY DEF SymbolInv, IsSeq
<1>2. /\ Len(tables) \in Nat /\ Len(mem) \in Nat /\ DOMAIN mem = 1 .. Len(mem)
      /\ DOMAIN tables = 1 .. Len(tables)
  BY SeqIs DEF SymbolInv
<1>3. HasTable <=> Len(tables) > 0
  BY <1>1 DEF HasTable
<1>4. HasTable => Len(tables) \in 1 .. Len(tables) /\ 1 \in 1 .. Len(tables) /\ Head(tables) = tables[1]
  BY <1>1, <1>2, <1>3
<1> QED  BY <1>2, <1>3, <1>4 DEF RunningTable, Last

\* A table that is not stale is in the block that lives.
LEMMA NotStale ==
  ASSUME NEW t, NEW m, NEW p, NEW c, NEW names, BlockIn(m, p, c, names), Knows(t, m, p, c, names)
  PROVE  m[t.p].live = TRUE <=> t.p = p
<1>1. Reclaimed.live = FALSE
  BY DEF Reclaimed
<1>2. t.p # p => m[t.p] = Reclaimed
  BY DEF BlockIn, Knows
<1> QED  BY <1>1, <1>2 DEF BlockIn

\* One name more.
LEMMA OneMore ==
  ASSUME NEW S, IsFiniteSet(S), NEW n, n \notin S
  PROVE  /\ IsFiniteSet(S \cup {n}) /\ Cardinality(S) \in Nat /\ Cardinality(S \cup {n}) = Cardinality(S) + 1
         /\ Cardinality(S \ NestedNames) \in Nat
         /\ Cardinality((S \cup {n}) \ NestedNames) \in Nat
         /\ Cardinality((S \cup {n}) \ NestedNames) <= Cardinality(S \ NestedNames) + 1
         /\ n \in NestedNames => (S \cup {n}) \ NestedNames = S \ NestedNames
<1>1. /\ IsFiniteSet(S \cup {n}) /\ Cardinality(S) \in Nat /\ Cardinality(S \cup {n}) = Cardinality(S) + 1
  BY FS_AddElement, FS_CardinalityType
<1>2. IsFiniteSet(S \ NestedNames) /\ Cardinality(S \ NestedNames) \in Nat
  BY FS_Difference, FS_CardinalityType
<1>3. CASE n \in NestedNames
  <2>1. (S \cup {n}) \ NestedNames = S \ NestedNames
    BY <1>3
  <2> QED  BY <1>1, <1>2, <2>1
<1>4. CASE n \notin NestedNames
  <2>1. (S \cup {n}) \ NestedNames = (S \ NestedNames) \cup {n} /\ n \notin S \ NestedNames
    BY <1>4
  <2>2. Cardinality((S \ NestedNames) \cup {n}) = Cardinality(S \ NestedNames) + 1
    BY <1>2, <2>1, FS_AddElement
  <2> QED  BY <1>1, <1>2, <1>4, <2>1, <2>2
<1> QED  BY <1>3, <1>4

\* What making room does: the same block, which was not crowded, or a larger one.
RoomMade(t, m, u, q, d, p, c, names) ==
  /\ IsSeq(m) /\ Len(mem) \in Nat /\ Len(m) >= Len(mem) /\ Len(m) \in Nat
  /\ BlockIn(m, q, d, names) /\ Knows(u, m, q, d, names)
  /\ u.count = t.count
  /\ q = p => d = c /\ (t.count + 1) * 4 < c * 3
  /\ q # p => q = Len(mem) + 1 /\ Cardinality(names) < d

LEMMA RoomyIs ==
  ASSUME IsSeq(mem), NEW p, NEW c, NEW names, NEW t, BlockIn(mem, p, c, names), Knows(t, mem, p, c, names),
         t.p = p, NEW r, r = Roomy(t), NEW q, NEW d, q = r.table.p, d = r.table.capacity
  PROVE  RoomMade(t, r.mem, r.table, q, d, p, c, names)
<1>1. /\ t.p \in 1 .. Len(mem) /\ t.capacity = c /\ c \in Nat /\ t.count \in Nat
      /\ next_power_of_two(FirstCapacity) <= c
      /\ SoundTable(mem[p].entries, c) /\ Held(mem[p].entries, c) = names /\ IsFiniteSet(names)
      /\ Cardinality(Used(mem[p].entries, c)) = Cardinality(names)
      /\ \A i \in 1 .. Len(mem) : i # p => mem[i] = Reclaimed
      /\ t.count <= Cardinality(names) /\ Cardinality(names \ NestedNames) <= t.count
      /\ DOMAIN t = {"p", "count", "capacity"}
  BY DEF BlockIn, Knows
<1>2. Len(mem) \in Nat /\ next_power_of_two(FirstCapacity) \in Nat /\ next_power_of_two(FirstCapacity) > 0
  <2>1. FirstCapacity \in Nat
    BY SymbolsAssumption
  <2> QED  BY <2>1, SeqIs, CapacityIs
<1>3. CASE ~IsCrowded(t)
  <2>1. r = [table |-> t, mem |-> mem]
    BY <1>3 DEF Roomy
  <2>2. r.table = t /\ r.mem = mem
    BY <2>1
  <2>3. (t.count + 1) * 4 < c * 3
    <3>1. PICK x \in Nat, y \in Nat : x = t.count /\ y = c
      BY <1>1
    <3>2. ~((x + 1) * 4 >= y * 3)
      BY <1>1, <1>3, <3>1 DEF IsCrowded
    <3> QED  BY <3>1, <3>2
  <2>4. q = p /\ d = c
    BY <1>1, <2>2
  <2> QED  BY <1>2, <2>2, <2>3, <2>4 DEF RoomMade
<1>4. CASE IsCrowded(t)
  <2>1. d = next_power_of_two(t.capacity * 2) /\ q = Len(mem) + 1 /\ r.table.count = t.count
        /\ DOMAIN r.table = {"p", "count", "capacity"}
        /\ r.mem = Append([mem EXCEPT ![p] = Reclaimed], Allocated(Rehashed(mem[p].entries, c, d)))
    <3>1. PICK z : z = next_power_of_two(t.capacity * 2)
      OBVIOUS
    <3>2. r = [table |-> [p |-> Len(mem) + 1, count |-> t.count, capacity |-> z],
               mem |-> Append([mem EXCEPT ![t.p] = Reclaimed],
                              Allocated(Rehashed(EntriesOf(t), t.capacity, z)))]
      BY <1>4, <3>1 DEF Roomy, resize_table
    <3>3. /\ r.table = [p |-> Len(mem) + 1, count |-> t.count, capacity |-> z]
          /\ r.mem = Append([mem EXCEPT ![t.p] = Reclaimed],
                            Allocated(Rehashed(EntriesOf(t), t.capacity, z)))
      BY <3>2
    <3>4. d = z /\ q = Len(mem) + 1 /\ r.table.count = t.count
          /\ DOMAIN r.table = {"p", "count", "capacity"}
      BY <3>3
    <3> QED  BY <1>1, <3>1, <3>3, <3>4 DEF EntriesOf
  <2>2. d \in Nat /\ d >= c * 2
    <3>1. t.capacity * 2 \in Nat
      BY <1>1
    <3> QED  BY <1>1, <2>1, <3>1, CapacityIs
  <2>3. PICK es : es = Rehashed(mem[p].entries, c, d)
    OBVIOUS
  <2>4. 0 < c /\ c < d /\ next_power_of_two(FirstCapacity) <= d
    BY <1>1, <1>2, <2>2
  <2>5. /\ SoundTable(es, d) /\ Held(es, d) = names /\ Cardinality(Used(es, d)) = Cardinality(names)
    BY <1>1, <2>2, <2>3, <2>4, RehashedIs
  <2>6. Cardinality(names) < d
    <3>1. PICK u, b : u = Used(mem[p].entries, c) /\ b = 0 .. c - 1
      OBVIOUS
    <3>2. IsFiniteSet(b) /\ Cardinality(b) = c
      <4>1. PICK e \in Int : e = c - 1
        BY <1>1
      <4>2. IsFiniteSet(0 .. e) /\ Cardinality(0 .. e) = IF 0 > e THEN 0 ELSE e - 0 + 1
        BY FS_Interval
      <4>3. e >= 0 /\ e - 0 + 1 = c /\ b = 0 .. e
        BY <1>1, <2>4, <3>1, <4>1
      <4>4. Cardinality(0 .. e) = c
        BY <4>2, <4>3
      <4> QED  BY <4>2, <4>3, <4>4
    <3>3. u \in SUBSET b
      BY <3>1 DEF Used
    <3>4. Cardinality(u) <= c
      BY <3>2, <3>3, FS_Subset
    <3>5. Cardinality(names) \in Nat /\ Cardinality(names) = Cardinality(u)
      BY <1>1, <3>1, FS_CardinalityType
    <3>6. PICK k \in Nat : k = Cardinality(names) /\ k <= c
      BY <3>4, <3>5
    <3> QED  BY <1>1, <2>2, <2>4, <3>6
  <2>7. PICK freed : freed = [mem EXCEPT ![p] = Reclaimed]
    OBVIOUS
  <2>8. IsSeq(freed) /\ Len(freed) = Len(mem) /\ \A i \in 1 .. Len(mem) : freed[i] = Reclaimed
    <3>1. freed = Replaced(mem, p, Reclaimed) /\ p \in 1 .. Len(mem)
      BY <1>1, <2>7 DEF Replaced
    <3>2. /\ IsSeq(freed) /\ Len(freed) = Len(mem) /\ freed[p] = Reclaimed
          /\ \A i \in 1 .. Len(mem) : i # p => freed[i] = mem[i]
      BY <3>1, ReplacedIs
    <3> QED  BY <1>1, <3>2
  <2>9. PICK m, b : m = r.mem /\ b = Allocated(es)
    OBVIOUS
  <2>10. m = Append(freed, b)
    BY <2>1, <2>3, <2>7, <2>9
  <2>11. /\ IsSeq(m) /\ Len(m) = Len(mem) + 1 /\ m[Len(mem) + 1] = b
         /\ \A i \in 1 .. Len(mem) : m[i] = Reclaimed
    <3>1. /\ IsSeq(Append(freed, b)) /\ Len(Append(freed, b)) = Len(freed) + 1
          /\ \A i \in 1 .. Len(freed) : Append(freed, b)[i] = freed[i]
          /\ Append(freed, b)[Len(freed) + 1] = b
      BY <2>8, AppendIs
    <3> QED  BY <2>8, <2>10, <3>1
  <2>12. b.live = TRUE /\ DOMAIN b = {"live", "entries"} /\ b.entries = es
    BY <2>9 DEF Allocated
  <2>13. m[q] = b /\ q \in 1 .. Len(m) /\ \A i \in 1 .. Len(m) : i # q => m[i] = Reclaimed
    BY <1>2, <2>1, <2>11
  <2>14. BlockIn(m, q, d, names)
    BY <1>1, <2>2, <2>4, <2>5, <2>12, <2>13 DEF BlockIn
  <2>15. Knows(r.table, m, q, d, names)
    BY <1>1, <2>1, <2>13 DEF Knows
  <2>16. q # p /\ Len(m) >= Len(mem) /\ Len(m) \in Nat
    BY <1>1, <1>2, <2>1, <2>11
  <2> QED  BY <1>2, <2>1, <2>6, <2>9, <2>11, <2>14, <2>15, <2>16 DEF RoomMade
<1> QED  BY <1>3, <1>4

\* The running VM's table is t now, in memory mem'.
LEMMA SymbolsAre ==
  ASSUME SymbolInv, HasTable, NEW t, SetRunning(t), IsSeq(mem'), NEW p, NEW c,
         BlockIn(mem', p, c, interned'), Knows(t, mem', p, c, interned'),
         \A i \in 1 .. Len(tables) : i # Len(tables) => Knows(tables[i], mem', p, c, interned')
  PROVE  SymbolInv'
<1>1. IsSeq(tables) /\ Len(tables) \in 1 .. Len(tables) /\ Len(tables) > 0 /\ Len(tables) \in Nat
  BY TablesAre DEF SymbolInv
<1>2. PICK new : new = tables'
  OBVIOUS
<1>3. new = Replaced(tables, Len(tables), t)
  BY <1>2 DEF SetRunning, Replaced
<1>4. /\ IsSeq(new) /\ Len(new) = Len(tables) /\ new[Len(tables)] = t
      /\ \A i \in 1 .. Len(tables) : i # Len(tables) => new[i] = tables[i]
  BY <1>1, <1>3, ReplacedIs
<1>5. \A i \in 1 .. Len(new) : Knows(new[i], mem', p, c, interned')
  BY <1>4
<1> QED  BY <1>1, <1>2, <1>4, <1>5 DEF SymbolInv

\* The table of a VM that interns, and what room was made.
LEMMA AccessIs ==
  ASSUME SymbolInv, NEW n, MayIntern(n), NEW r, r = Roomy(RunningTable)
  PROVE  /\ HasTable /\ IsSeq(r.mem)
         /\ BlockIn(r.mem, r.table.p, r.table.capacity, interned)
         /\ Knows(r.table, r.mem, r.table.p, r.table.capacity, interned)
         /\ \A i \in 1 .. Len(tables) : i # Len(tables) =>
              /\ Knows(tables[i], r.mem, r.table.p, r.table.capacity, interned)
              /\ n \in NestedNames
         /\ \/ (r.table.count + 1) * 4 < r.table.capacity * 3
            \/ Cardinality(interned) < r.table.capacity
<1>1. HasTable /\ ~IsStale(RunningTable) /\ (Len(tables) > 1 => n \in NestedNames)
  BY DEF MayIntern
<1>2. /\ IsSeq(mem) /\ Len(tables) \in 1 .. Len(tables) /\ RunningTable = tables[Len(tables)]
      /\ Len(tables) \in Nat /\ Len(tables) > 0
  BY <1>1, TablesAre DEF SymbolInv
<1>3. PICK p, c : /\ BlockIn(mem, p, c, interned)
                  /\ \A i \in 1 .. Len(tables) : Knows(tables[i], mem, p, c, interned)
  BY <1>2 DEF SymbolInv
<1>4. PICK t : t = RunningTable
  OBVIOUS
<1>5. Knows(t, mem, p, c, interned)
  BY <1>2, <1>3, <1>4
<1>6. t.p = p
  <2>1. mem[t.p].live = TRUE \/ ~mem[t.p].live
    <3>1. t.p = p \/ mem[t.p] = Reclaimed
      BY <1>3, <1>5 DEF BlockIn, Knows
    <3> QED  BY <1>3, <3>1 DEF BlockIn, Reclaimed
  <2>2. mem[t.p].live = TRUE
    BY <1>1, <1>4, <2>1 DEF IsStale
  <2> QED  BY <1>3, <1>5, <2>2, NotStale
<1>7. PICK q, d : q = r.table.p /\ d = r.table.capacity
  OBVIOUS
<1>8. /\ IsSeq(r.mem) /\ Len(mem) \in Nat /\ Len(r.mem) >= Len(mem) /\ Len(r.mem) \in Nat
      /\ BlockIn(r.mem, q, d, interned) /\ Knows(r.table, r.mem, q, d, interned)
      /\ r.table.count = t.count
      /\ q = p => d = c /\ (t.count + 1) * 4 < c * 3
      /\ q # p => q = Len(mem) + 1 /\ Cardinality(interned) < d
  <2>1. /\ IsSeq(mem) /\ BlockIn(mem, p, c, interned) /\ Knows(t, mem, p, c, interned)
        /\ t.p = p /\ r = Roomy(t) /\ q = r.table.p /\ d = r.table.capacity
    BY <1>2, <1>3, <1>4, <1>5, <1>6, <1>7
  <2>2. RoomMade(t, r.mem, r.table, q, d, p, c, interned)
    BY ONLY <2>1, RoomyIs
  <2> QED  BY <2>2 DEF RoomMade
<1>9. ASSUME NEW i \in 1 .. Len(tables), i # Len(tables)
      PROVE  Knows(tables[i], r.mem, q, d, interned) /\ n \in NestedNames
  <2>1. PICK u : u = tables[i]
    OBVIOUS
  <2>2. Knows(u, mem, p, c, interned)
    BY <1>3, <2>1
  <2>3. u.p \in 1 .. Len(r.mem)
    BY <1>8, <2>2 DEF Knows
  <2>4. u.p = q => q = p
    <3>1. u.p \in 1 .. Len(mem)
      BY <2>2 DEF Knows
    <3>2. u.p # Len(mem) + 1
      BY <1>8, <3>1
    <3> QED  BY <1>8, <3>2
  <2>5. Knows(u, r.mem, q, d, interned)
    BY <1>8, <2>2, <2>3, <2>4 DEF Knows
  <2>6. Len(tables) > 1
    BY <1>2, <1>9
  <2> QED  BY <1>1, <2>1, <2>5, <2>6
<1>10. (r.table.count + 1) * 4 < d * 3 \/ Cardinality(interned) < d
  BY <1>8
<1> QED  BY <1>1, <1>7, <1>8, <1>9, <1>10

LEMMA InternStep ==
  ASSUME SymbolInv, NEW n \in Identifiers, psymbol_intern(n)
  PROVE  SymbolInv'
<1>1. PICK r : r = Roomy(RunningTable)
  OBVIOUS
<1>2. MayIntern(n) /\ interned' = interned \cup {n}
  BY DEF psymbol_intern
<1>3. PICK p, c, m, t : p = r.table.p /\ c = r.table.capacity /\ m = r.mem /\ t = r.table
  OBVIOUS
<1>4. /\ HasTable /\ IsSeq(m) /\ BlockIn(m, p, c, interned) /\ Knows(t, m, p, c, interned)
      /\ \A i \in 1 .. Len(tables) : i # Len(tables) => Knows(tables[i], m, p, c, interned) /\ n \in NestedNames
  BY <1>1, <1>2, <1>3, AccessIs
<1>5. PICK es, slot : es = m[p].entries /\ slot = find_slot(es, c, n)
  OBVIOUS
<1>6. /\ Stops(es, c, n) # {}
      /\ \/ es[slot] = n /\ SetRunning(t) /\ mem' = m
         \/ /\ es[slot] = None /\ SetRunning([t EXCEPT !.count = @ + 1])
            /\ mem' = [m EXCEPT ![p].entries[slot] = n]
  BY <1>1, <1>3, <1>5 DEF psymbol_intern
<1>7. /\ p \in 1 .. Len(m) /\ c \in Nat /\ next_power_of_two(FirstCapacity) <= c
      /\ m[p].live = TRUE /\ DOMAIN m[p] = {"live", "entries"}
      /\ SoundTable(es, c) /\ Held(es, c) = interned /\ IsFiniteSet(interned)
      /\ Cardinality(Used(es, c)) = Cardinality(interned)
      /\ \A i \in 1 .. Len(m) : i # p => m[i] = Reclaimed
  BY <1>4, <1>5 DEF BlockIn
<1>8. c > 0
  <2>1. FirstCapacity \in Nat
    BY SymbolsAssumption
  <2>2. next_power_of_two(FirstCapacity) \in Nat /\ next_power_of_two(FirstCapacity) > 0
    BY <2>1, CapacityIs
  <2> QED  BY <1>7, <2>2
<1>9. slot \in 0 .. c - 1 /\ es[slot] = IF n \in interned THEN n ELSE None
  <2>1. /\ find_slot(es, c, n) \in 0 .. c - 1
        /\ es[find_slot(es, c, n)] = IF n \in Held(es, c) THEN n ELSE None
    BY <1>6, <1>7, <1>8, FoundIs
  <2> QED  BY <1>5, <1>7, <2>1
<1>10. n # None
  BY SymbolsAssumption DEF None
<1>11. CASE es[slot] = n /\ SetRunning(t) /\ mem' = m
  <2>1. interned' = interned
    BY <1>2, <1>9, <1>10, <1>11
  <2>2. /\ IsSeq(mem') /\ BlockIn(mem', p, c, interned') /\ Knows(t, mem', p, c, interned')
        /\ \A i \in 1 .. Len(tables) : i # Len(tables) => Knows(tables[i], mem', p, c, interned')
    BY <1>4, <1>11, <2>1
  <2> QED  BY <1>4, <1>11, <2>2, SymbolsAre
<1>12. CASE /\ es[slot] = None /\ SetRunning([t EXCEPT !.count = @ + 1])
            /\ mem' = [m EXCEPT ![p].entries[slot] = n]
  <2>1. PICK new : new = [es EXCEPT ![slot] = n]
    OBVIOUS
  <2>2. n \in Identifiers \ Held(es, c) /\ n \notin interned
    BY <1>7, <1>9, <1>10, <1>12
  <2>3. PICK names : names = interned \cup {n}
    OBVIOUS
  <2>4. PICK k \in Nat, x \in Nat, y \in Nat :
          /\ k = Cardinality(interned) /\ Cardinality(names) = k + 1 /\ IsFiniteSet(names)
          /\ x = Cardinality(interned \ NestedNames) /\ y = Cardinality(names \ NestedNames)
          /\ y <= x + 1 /\ (n \in NestedNames => y = x)
    BY <1>7, <2>2, <2>3, OneMore
  <2>5. SoundTable(new, c) /\ Held(new, c) = names /\ Cardinality(Used(new, c)) = k + 1
    <3>1. new = Entered(es, c, n)
      BY <1>5, <2>1 DEF Entered
    <3>2. /\ SoundTable(new, c) /\ Held(new, c) = Held(es, c) \cup {n}
          /\ Cardinality(Used(new, c)) = Cardinality(Used(es, c)) + 1
      <4>1. /\ c \in Nat /\ c > 0 /\ SoundTable(es, c) /\ n \in Identifiers \ Held(es, c)
            /\ Stops(es, c, n) # {} /\ new = Entered(es, c, n)
        BY <1>6, <1>7, <1>8, <2>2, <3>1
      <4> QED  BY ONLY <4>1, EnteredIs
    <3> QED  BY <1>7, <2>3, <2>4, <3>2
  <2>6. PICK b : b = [m[p] EXCEPT !.entries = new]
    OBVIOUS
  <2>7. DOMAIN b = {"live", "entries"} /\ b.live = TRUE /\ b.entries = new
    <3>1. PICK z : z = m[p]
      OBVIOUS
    <3>2. DOMAIN z = {"live", "entries"} /\ z.live = TRUE
      BY <1>7, <3>1
    <3>3. b = [z EXCEPT !.entries = new]
      BY <2>6, <3>1
    <3> QED  BY <3>2, <3>3
  <2>8. PICK after : after = mem'
    OBVIOUS
  <2>9. after = Replaced(m, p, b)
    <3>1. after = [m EXCEPT ![p] = [m[p] EXCEPT !.entries = [m[p].entries EXCEPT ![slot] = n]]]
      BY <1>12, <2>8
    <3>2. [m[p].entries EXCEPT ![slot] = n] = new
      BY <1>5, <2>1
    <3>3. [m[p] EXCEPT !.entries = [m[p].entries EXCEPT ![slot] = n]] = b
      BY <2>6, <3>2
    <3> QED  BY <3>1, <3>3 DEF Replaced
  <2>10. /\ IsSeq(after) /\ Len(after) = Len(m) /\ after[p] = b
         /\ \A i \in 1 .. Len(m) : i # p => after[i] = m[i]
    BY <1>4, <1>7, <2>9, ReplacedIs
  <2>11. BlockIn(after, p, c, names)
    <3>1. p \in 1 .. Len(after) /\ \A i \in 1 .. Len(after) : i # p => after[i] = Reclaimed
      BY <1>7, <2>10
    <3> QED  BY <1>7, <2>4, <2>5, <2>7, <2>10, <3>1 DEF BlockIn
  <2>12. PICK u : u = [t EXCEPT !.count = @ + 1]
    OBVIOUS
  <2>13. /\ DOMAIN t = {"p", "count", "capacity"} /\ t.p = p /\ t.capacity = c
         /\ t.count \in Nat /\ t.count <= k /\ x <= t.count
    BY <1>3, <1>4, <2>4 DEF Knows
  <2>14. DOMAIN u = {"p", "count", "capacity"} /\ u.p = p /\ u.capacity = c /\ u.count = t.count + 1
    BY <2>12, <2>13
  <2>15. Knows(u, after, p, c, names)
    <3>1. u.p \in 1 .. Len(after) /\ u.count \in Nat
      BY <1>7, <2>10, <2>13, <2>14
    <3>2. u.count <= Cardinality(names) /\ Cardinality(names \ NestedNames) <= u.count
      BY <2>4, <2>13, <2>14
    <3> QED  BY <2>14, <3>1, <3>2 DEF Knows
  <2>16. ASSUME NEW i \in 1 .. Len(tables), i # Len(tables) PROVE Knows(tables[i], after, p, c, names)
    <3>1. PICK v : v = tables[i]
      OBVIOUS
    <3>2. Knows(v, m, p, c, interned) /\ n \in NestedNames
      BY <1>4, <2>16, <3>1
    <3>3. /\ DOMAIN v = {"p", "count", "capacity"} /\ v.p \in 1 .. Len(after) /\ v.count \in Nat
          /\ v.p = p => v.capacity = c /\ v.count <= k /\ x <= v.count
      BY <2>4, <2>10, <3>2 DEF Knows
    <3>4. v.p = p => v.count <= Cardinality(names) /\ Cardinality(names \ NestedNames) <= v.count
      BY <2>4, <3>2, <3>3
    <3>5. Knows(v, after, p, c, names)
      BY <3>3, <3>4 DEF Knows
    <3> QED  BY <3>1, <3>5
  <2>17. SetRunning(u) /\ interned' = names
    BY <1>2, <1>12, <2>3, <2>12
  <2>18. /\ IsSeq(mem') /\ BlockIn(mem', p, c, interned') /\ Knows(u, mem', p, c, interned')
         /\ \A i \in 1 .. Len(tables) : i # Len(tables) => Knows(tables[i], mem', p, c, interned')
    BY <2>8, <2>10, <2>11, <2>15, <2>16, <2>17
  <2> QED  BY <1>4, <2>17, <2>18, SymbolsAre
<1> QED  BY <1>6, <1>11, <1>12

\* The tables on the stack are these, the memory is as before.
LEMMA StackIs ==
  ASSUME SymbolInv, NEW s, IsSeq(s), UNCHANGED <<mem, interned>>, tables' = s, HasTable, Len(s) > 0,
         \A i \in 1 .. Len(s) : \E j \in 1 .. Len(tables) : s[i] = tables[j]
  PROVE  SymbolInv'
<1>1. Len(tables) > 0 /\ IsSeq(mem)
  BY TablesAre DEF SymbolInv
<1>2. PICK p, c : /\ BlockIn(mem, p, c, interned)
                  /\ \A i \in 1 .. Len(tables) : Knows(tables[i], mem, p, c, interned)
  BY <1>1 DEF SymbolInv
<1>3. \A i \in 1 .. Len(s) : Knows(s[i], mem, p, c, interned)
  BY <1>2
<1>4. /\ IsSeq(tables') /\ IsSeq(mem') /\ Len(tables') \in Nat /\ Len(tables') > 0
      /\ BlockIn(mem', p, c, interned')
      /\ \A i \in 1 .. Len(tables') : Knows(tables'[i], mem', p, c, interned')
  BY <1>1, <1>2, <1>3, SeqIs
<1>5. Len(tables') # 0
  BY <1>4
<1> QED  BY <1>4, <1>5 DEF SymbolInv

LEMMA SymbolStep == SymbolInv /\ [SymbolNext]_symbolVars => SymbolInv'
<1> SUFFICES ASSUME SymbolInv, [SymbolNext]_symbolVars PROVE SymbolInv'
  OBVIOUS
<1>1. CASE UNCHANGED symbolVars
  BY <1>1 DEF symbolVars, SymbolInv
<1>2. CASE psymbol_init
  <2>1. PICK c : c = next_power_of_two(FirstCapacity)
    OBVIOUS
  <2>2. c \in Nat /\ c > 0
    <3>1. FirstCapacity \in Nat
      BY SymbolsAssumption
    <3> QED  BY <2>1, <3>1, CapacityIs
  <2>3. PICK t, b : t = [p |-> 1, count |-> 0, capacity |-> c] /\ b = Allocated(Empty(c))
    OBVIOUS
  <2>4. tables' = <<t>> /\ mem' = <<b>> /\ interned' = {}
    BY <1>2, <2>1, <2>3 DEF psymbol_init
  <2>5. IsSeq(tables') /\ Len(tables') = 1 /\ tables'[1] = t /\ IsSeq(mem') /\ Len(mem') = 1 /\ mem'[1] = b
    BY <2>4, OneIs
  <2>6. DOMAIN t = {"p", "count", "capacity"} /\ t.p = 1 /\ t.count = 0 /\ t.capacity = c
    BY <2>3
  <2>7. b.live = TRUE /\ DOMAIN b = {"live", "entries"} /\ b.entries = Empty(c)
    BY <2>3 DEF Allocated
  <2>8. PICK es : es = Empty(c)
    OBVIOUS
  <2>9. es = [s \in 0 .. c - 1 |-> None]
    BY <2>8 DEF Empty
  <2>10. Used(es, c) = {}
    BY <2>9 DEF Used
  <2>11. SoundTable(es, c)
    BY <2>9, <2>10 DEF SoundTable
  <2>12. PICK none : none = {}
    OBVIOUS
  <2>13. /\ Held(es, c) = none /\ IsFiniteSet(none) /\ Cardinality(none) = 0 /\ Cardinality(Used(es, c)) = 0
         /\ none \ NestedNames = none
    BY <2>10, <2>12, FS_EmptySet DEF Held
  <2>14. BlockIn(mem', 1, c, interned')
    <3>1. mem'[1] = b /\ b.entries = es /\ 1 \in 1 .. Len(mem') /\ \A i \in 1 .. Len(mem') : i = 1
      BY <2>5, <2>7, <2>8
    <3>2. interned' = none /\ next_power_of_two(FirstCapacity) <= c
      BY <2>1, <2>2, <2>4, <2>12
    <3> QED  BY <2>2, <2>7, <2>11, <2>13, <3>1, <3>2 DEF BlockIn
  <2>15. Knows(t, mem', 1, c, interned')
    <3>1. interned' = none /\ 1 \in 1 .. Len(mem')
      BY <2>4, <2>5, <2>12
    <3>2. Cardinality(interned') = 0 /\ Cardinality(interned' \ NestedNames) = 0
      BY <2>13, <3>1
    <3>3. t.count <= Cardinality(interned') /\ Cardinality(interned' \ NestedNames) <= t.count
      BY <2>6, <3>2
    <3>4. t.p \in 1 .. Len(mem') /\ t.count \in Nat
      BY <2>6, <3>1
    <3> QED  BY <2>6, <3>3, <3>4 DEF Knows
  <2>16. \A i \in 1 .. Len(tables') : tables'[i] = t
    BY <2>5
  <2> QED  BY <2>5, <2>14, <2>15, <2>16 DEF SymbolInv
<1>3. CASE psymbol_destroy
  <2>1. PICK t : t = tables[1]
    OBVIOUS
  <2>2. /\ Len(tables) = 1 /\ ~IsStale(Head(tables)) /\ tables' = <<>>
        /\ mem' = [mem EXCEPT ![Head(tables).p] = Reclaimed]
    BY <1>3 DEF psymbol_destroy
  <2>3. PICK p, c : /\ BlockIn(mem, p, c, interned)
                    /\ \A i \in 1 .. Len(tables) : Knows(tables[i], mem, p, c, interned)
    BY <2>2 DEF SymbolInv
  <2>4. Knows(t, mem, p, c, interned) /\ Head(tables) = t
    <3>1. HasTable /\ 1 \in 1 .. Len(tables)
      BY <2>2, TablesAre
    <3> QED  BY <2>1, <2>3, <3>1, TablesAre
  <2>5. t.p = p
    <3>1. t.p = p \/ mem[t.p] = Reclaimed
      BY <2>3, <2>4 DEF BlockIn, Knows
    <3> QED  BY <2>2, <2>4, <3>1 DEF IsStale, Reclaimed
  <2>6. p \in 1 .. Len(mem) /\ \A i \in 1 .. Len(mem) : i # p => mem[i] = Reclaimed
    BY <2>3 DEF BlockIn
  <2>7. IsSeq(mem') /\ \A i \in 1 .. Len(mem') : mem'[i] = Reclaimed
    <3>1. PICK m : m = mem'
      OBVIOUS
    <3>2. m = Replaced(mem, p, Reclaimed) /\ IsSeq(mem)
      BY <2>2, <2>4, <2>5, <3>1 DEF Replaced, SymbolInv
    <3>3. IsSeq(m) /\ Len(m) = Len(mem) /\ m[p] = Reclaimed /\ \A i \in 1 .. Len(mem) : i # p => m[i] = mem[i]
      BY <2>6, <3>2, ReplacedIs
    <3> QED  BY <2>6, <3>1, <3>3
  <2>8. IsSeq(tables') /\ Len(tables') = 0
    <3>1. PICK s : s = tables'
      OBVIOUS
    <3>2. s = <<>>
      BY <2>2, <3>1
    <3>3. s \in Seq({0}) /\ Len(s) = 0
      BY <3>2
    <3> QED  BY <3>1, <3>3 DEF IsSeq
  <2> QED  BY <2>7, <2>8 DEF SymbolInv
<1>4. ASSUME NEW n \in Identifiers, ResizeFails(n) PROVE SymbolInv'
  BY <1>4 DEF ResizeFails, symbolVars, SymbolInv
<1>5. ASSUME NEW n \in Identifiers, StringFails(n) PROVE SymbolInv'
  <2>1. PICK r : r = Roomy(RunningTable)
    OBVIOUS
  <2>2. MayIntern(n) /\ SetRunning(r.table) /\ mem' = r.mem /\ interned' = interned
    BY <1>5, <2>1 DEF StringFails
  <2>3. PICK p, c, t : p = r.table.p /\ c = r.table.capacity /\ t = r.table
    OBVIOUS
  <2>4. /\ HasTable /\ IsSeq(mem') /\ BlockIn(mem', p, c, interned') /\ Knows(t, mem', p, c, interned')
        /\ \A i \in 1 .. Len(tables) : i # Len(tables) => Knows(tables[i], mem', p, c, interned')
    BY <2>1, <2>2, <2>3, AccessIs
  <2> QED  BY <2>2, <2>3, <2>4, SymbolsAre
<1>6. CASE EnterNested
  <2>1. PICK t \in {RunningTable, Head(tables)} : tables' = Append(tables, t)
    BY <1>6 DEF EnterNested
  <2>2. HasTable /\ UNCHANGED <<mem, interned>>
    BY <1>6 DEF EnterNested
  <2>3. /\ Len(tables) \in Nat /\ IsSeq(tables)
        /\ Len(tables) \in 1 .. Len(tables) /\ RunningTable = tables[Len(tables)]
        /\ 1 \in 1 .. Len(tables) /\ Head(tables) = tables[1]
    BY <2>2, TablesAre DEF SymbolInv
  <2>4. PICK s : s = Append(tables, t)
    OBVIOUS
  <2>5. /\ IsSeq(s) /\ Len(s) = Len(tables) + 1
        /\ \A i \in 1 .. Len(tables) : s[i] = tables[i]
        /\ s[Len(tables) + 1] = t
    BY <2>3, <2>4, AppendIs
  <2>6. \A i \in 1 .. Len(s) : \E j \in 1 .. Len(tables) : s[i] = tables[j]
    <3> SUFFICES ASSUME NEW i \in 1 .. Len(s) PROVE \E j \in 1 .. Len(tables) : s[i] = tables[j]
      OBVIOUS
    <3>1. CASE i \in 1 .. Len(tables)
      BY <2>5, <3>1
    <3>2. CASE i = Len(tables) + 1
      BY <2>1, <2>3, <2>5, <3>2
    <3> QED  BY <2>3, <2>5, <3>1, <3>2
  <2>7. Len(s) > 0
    BY <2>3, <2>5
  <2> QED  BY <2>1, <2>2, <2>4, <2>5, <2>6, <2>7, StackIs
<1>7. CASE LeaveNested
  <2>1. Len(tables) > 1 /\ UNCHANGED <<mem, interned>> /\ tables' = SubSeq(tables, 1, Len(tables) - 1)
    BY <1>7 DEF LeaveNested, Front
  <2>2. IsSeq(tables) /\ Len(tables) \in Nat /\ HasTable
    BY <2>1, TablesAre DEF SymbolInv
  <2>3. PICK s : s = SubSeq(tables, 1, Len(tables) - 1)
    OBVIOUS
  <2>4. /\ IsSeq(s) /\ Len(s) = Len(tables) - 1
        /\ \A i \in 1 .. Len(tables) - 1 : s[i] = tables[i]
    BY <2>1, <2>2, <2>3, FrontIs
  <2>5. \A i \in 1 .. Len(s) : i \in 1 .. Len(tables) /\ s[i] = tables[i]
    BY <2>2, <2>4
  <2>6. Len(s) > 0
    BY <2>1, <2>2, <2>4
  <2> QED  BY <2>1, <2>2, <2>3, <2>4, <2>5, <2>6, StackIs
<1> QED  BY <1>1, <1>2, <1>3, <1>4, <1>5, <1>6, <1>7, InternStep DEF SymbolNext, Intern

\* The table of a VM that knows the block finds every name there as one string.
LEMMA FoundOnce == SymbolInv => InternedOnce /\ NothingLeft
<1> SUFFICES ASSUME SymbolInv PROVE InternedOnce /\ NothingLeft
  OBVIOUS
<1>1. NothingLeft
  BY TablesAre DEF NothingLeft, SymbolInv
<1>2. InternedOnce
  <2> SUFFICES ASSUME HasTable, ~IsStale(RunningTable) PROVE InternedOnce
    BY DEF InternedOnce
  <2>1. Len(tables) > 0 /\ Len(tables) \in 1 .. Len(tables) /\ RunningTable = tables[Len(tables)]
    BY TablesAre
  <2>2. PICK p, c : /\ BlockIn(mem, p, c, interned)
                    /\ \A i \in 1 .. Len(tables) : Knows(tables[i], mem, p, c, interned)
    BY <2>1 DEF SymbolInv
  <2>3. PICK t, es : t = RunningTable /\ es = EntriesOf(RunningTable)
    OBVIOUS
  <2>4. Knows(t, mem, p, c, interned)
    BY <2>1, <2>2, <2>3
  <2>5. t.p = p
    <3>1. t.p = p \/ mem[t.p] = Reclaimed
      BY <2>2, <2>4 DEF BlockIn, Knows
    <3>2. mem[p].live = TRUE /\ ~IsStale(t)
      BY <2>2, <2>3 DEF BlockIn
    <3>3. mem[t.p] # Reclaimed \/ t.p = p
      BY <3>2 DEF IsStale, Reclaimed
    <3> QED  BY <3>1, <3>2, <3>3 DEF IsStale, Reclaimed
  <2>6. c \in Nat /\ c > 0 /\ t.capacity = c /\ SoundTable(es, c) /\ Held(es, c) = interned
    <3>1. FirstCapacity \in Nat
      BY SymbolsAssumption
    <3>2. next_power_of_two(FirstCapacity) \in Nat /\ next_power_of_two(FirstCapacity) > 0
      BY <3>1, CapacityIs
    <3>3. es = mem[p].entries
      BY <2>3, <2>5 DEF EntriesOf
    <3>4. /\ c \in Nat /\ next_power_of_two(FirstCapacity) <= c
          /\ SoundTable(mem[p].entries, c) /\ Held(mem[p].entries, c) = interned
      BY <2>2 DEF BlockIn
    <3>5. t.capacity = c
      BY <2>4, <2>5 DEF Knows
    <3> QED  BY <3>2, <3>3, <3>4, <3>5
  <2>7. ASSUME NEW n \in interned PROVE Stops(es, c, n) # {} /\ es[find_slot(es, c, n)] = n
    <3>1. PICK s \in Used(es, c) : es[s] = n
      BY <2>6 DEF Held
    <3>2. n \in Identifiers
      BY <2>6, <3>1 DEF SoundTable, Used
    <3>3. PICK k \in 0 .. c - 1 : Reaches(es, c, n, k) /\ Probe(n, c, k) = s
      BY <2>6, <3>1 DEF SoundTable
    <3>4. Stops(es, c, n) # {} /\ find_slot(es, c, n) = Probe(n, c, k)
      BY <2>6, <3>2, <3>3, ReachesOne
    <3> QED  BY <3>1, <3>3, <3>4
  <2>8. \A s, u \in DOMAIN es : es[s] = es[u] /\ es[s] # None => s = u
    BY <2>6 DEF SoundTable
  <2> QED  BY <2>3, <2>6, <2>7, <2>8 DEF InternedOnce
<1> QED  BY <1>1, <1>2

\* The lookup of an access ends if it finds room.
LEMMA LookupEnds ==
  ASSUME SymbolInv, NEW n \in Identifiers, MayIntern(n), NEW r, r = Roomy(RunningTable),
         Cardinality(interned) < r.table.capacity
  PROVE  Stops(r.mem[r.table.p].entries, r.table.capacity, n) # {}
<1>1. PICK c, es : c = r.table.capacity /\ es = r.mem[r.table.p].entries
  OBVIOUS
<1>2. BlockIn(r.mem, r.table.p, r.table.capacity, interned)
  BY AccessIs
<1>3. PICK k : k = Cardinality(interned)
  OBVIOUS
<1>4. c \in Nat /\ IsFiniteSet(interned) /\ Cardinality(Used(es, c)) = k
  BY <1>1, <1>2, <1>3 DEF BlockIn
<1>5. k \in Nat /\ k < c
  BY <1>1, <1>3, <1>4, FS_CardinalityType
<1>6. c > 0 /\ Cardinality(Used(es, c)) < c
  BY <1>4, <1>5
<1>7. Stops(es, c, n) # {}
  BY <1>4, <1>6, RoomStops
<1> QED  BY <1>1, <1>7

LEMMA SymbolStart == SymbolInit => SymbolInv
<1> SUFFICES ASSUME SymbolInit PROVE SymbolInv
  OBVIOUS
<1>1. PICK s, m : s = tables /\ m = mem
  OBVIOUS
<1>2. s = <<>> /\ m = <<>>
  BY <1>1 DEF SymbolInit
<1>3. s \in Seq({0}) /\ Len(s) = 0 /\ m \in Seq({0}) /\ Len(m) = 0
  BY <1>2
<1>4. IsSeq(tables) /\ Len(tables) = 0 /\ IsSeq(mem) /\ Len(mem) = 0
  BY <1>1, <1>3 DEF IsSeq
<1> QED  BY <1>4 DEF SymbolInv

\* Whatever the scripts and the VMs nested in them intern: a VM whose table has
\* not been freed finds every name that was interned by any of them, as one
\* string, after any rehash or failed allocation, and the tables are given back
\* (find_slot, resize_table, psymbol_intern, psymbol_destroy).
THEOREM NamesFoundOnce == SymbolSpec => [](InternedOnce /\ NothingLeft)
BY SymbolStart, SymbolStep, FoundOnce, PTL DEF SymbolSpec

\* Where nested VMs intern no more names than a quarter of the first table's
\* slots, every lookup ends too.
FewNested == /\ IsFiniteSet(NestedNames)
             /\ 4 * Cardinality(NestedNames) <= next_power_of_two(FirstCapacity)

LEMMA FewNestedEnd == FewNested /\ SymbolInv => LookupsEnd
<1> SUFFICES ASSUME FewNested, SymbolInv, NEW n \in Identifiers, MayIntern(n), NEW r, r = Roomy(RunningTable)
             PROVE  Stops(r.mem[r.table.p].entries, r.table.capacity, n) # {}
  BY DEF LookupsEnd
<1>1. PICK c, t : c = r.table.capacity /\ t = r.table
  OBVIOUS
<1>2. /\ BlockIn(r.mem, t.p, c, interned) /\ Knows(t, r.mem, t.p, c, interned)
      /\ (t.count + 1) * 4 < c * 3 \/ Cardinality(interned) < c
  BY <1>1, AccessIs
<1>3. /\ c \in Nat /\ next_power_of_two(FirstCapacity) <= c /\ IsFiniteSet(interned)
      /\ t.count \in Nat /\ Cardinality(interned \ NestedNames) <= t.count
  BY <1>2 DEF BlockIn, Knows
<1>4. PICK own, nested : own = interned \ NestedNames /\ nested = interned \cap NestedNames
  OBVIOUS
<1>5. PICK x \in Nat, y \in Nat, z \in Nat :
        /\ x = Cardinality(own) /\ y = Cardinality(nested) /\ z = Cardinality(NestedNames) /\ y <= z
        /\ IsFiniteSet(own) /\ IsFiniteSet(nested)
  <2>1. IsFiniteSet(own) /\ IsFiniteSet(NestedNames)
    BY <1>3, <1>4, FS_Difference DEF FewNested
  <2>2. nested \in SUBSET NestedNames
    BY <1>4
  <2>3. IsFiniteSet(nested) /\ Cardinality(nested) <= Cardinality(NestedNames)
    BY <2>1, <2>2, FS_Subset
  <2> QED  BY <2>1, <2>3, FS_CardinalityType
<1>6. Cardinality(interned) = x + y
  <2>1. own \cup nested = interned /\ own \cap nested = {}
    BY <1>4
  <2>2. Cardinality(own \cup nested) = Cardinality(own) + Cardinality(nested) - Cardinality(own \cap nested)
    BY <1>5, FS_Union
  <2>3. Cardinality(own \cap nested) = 0
    BY <2>1, FS_EmptySet
  <2>4. Cardinality(own \cup nested) = x + y
    BY <1>5, <2>2, <2>3
  <2> QED  BY <2>1, <2>4
<1>7. Cardinality(interned) < c
  <2>1. FirstCapacity \in Nat
    BY SymbolsAssumption
  <2>2. PICK f \in Nat : f = next_power_of_two(FirstCapacity)
    BY <2>1, CapacityIs
  <2>3. 4 * z <= f /\ f <= c /\ x <= t.count
    BY <1>3, <1>4, <1>5, <2>2 DEF FewNested
  <2>4. PICK u \in Nat : u = t.count
    BY <1>3
  <2>5. (u + 1) * 4 < c * 3 => x + y < c
    BY <1>3, <1>5, <2>3, <2>4
  <2> QED  BY <1>2, <1>6, <2>4, <2>5
<1> QED  BY <1>1, <1>7, LookupEnds

\* Where nested VMs intern no more names than a quarter of the slots of a new
\* table (16 of 64), names are kept in full: every lookup ends as well, although
\* the VM below does not count what the nested ones interned (find_slot,
\* psymbol_intern).  With more names find_slot may find the table full.
THEOREM NamesStayKept == FewNested => (SymbolSpec => []NamesKept)
<1> SUFFICES ASSUME FewNested PROVE SymbolSpec => []NamesKept
  OBVIOUS
<1>1. SymbolInv => NamesKept
  BY FoundOnce, FewNestedEnd DEF NamesKept
<1> QED  BY <1>1, SymbolStart, SymbolStep, PTL DEF SymbolSpec

\* Programs whose names, and one more, fill less than three quarters of a new table.
FewNames == /\ IsFiniteSet(Identifiers)
            /\ 4 * (Cardinality(Identifiers) + 1) < 3 * next_power_of_two(FirstCapacity)

NoneStale == \A i \in DOMAIN tables : ~IsStale(tables[i])

\* They never need a second table.
FirstTable(t) == t.p = 1 /\ t.capacity = next_power_of_two(FirstCapacity)
OneTable == /\ SymbolInv /\ interned \subseteq Identifiers
            /\ Len(tables) > 0 => Len(mem) = 1
            /\ \A i \in 1 .. Len(tables) : FirstTable(tables[i])

LEMMA FewKept ==
  ASSUME FewNames, OneTable
  PROVE  /\ Cardinality(interned) \in Nat
         /\ 4 * (Cardinality(interned) + 1) < 3 * next_power_of_two(FirstCapacity)
         /\ next_power_of_two(FirstCapacity) \in Nat
<1>1. Cardinality(interned) <= Cardinality(Identifiers) /\ IsFiniteSet(interned)
  BY FS_Subset DEF FewNames, OneTable
<1>2. Cardinality(interned) \in Nat /\ Cardinality(Identifiers) \in Nat
  BY <1>1, FS_CardinalityType DEF FewNames
<1>3. FirstCapacity \in Nat
  BY SymbolsAssumption
<1>4. PICK c \in Nat : c = next_power_of_two(FirstCapacity)
  BY <1>3, CapacityIs
<1>5. PICK x \in Nat, y \in Nat : x = Cardinality(interned) /\ y = Cardinality(Identifiers) /\ x <= y
  BY <1>1, <1>2
<1>6. 4 * (y + 1) < 3 * c
  BY <1>4, <1>5 DEF FewNames
<1> QED  BY <1>4, <1>5, <1>6

LEMMA AllCurrent ==
  ASSUME FewNames, OneTable
  PROVE  /\ NoneStale
         /\ HasTable => Roomy(RunningTable) = [table |-> RunningTable, mem |-> mem]
<1>1. DOMAIN tables = 1 .. Len(tables)
  BY TablesAre DEF OneTable
<1>2. CASE Len(tables) = 0
  <2>1. ~HasTable
    BY <1>2, TablesAre DEF OneTable
  <2>2. DOMAIN tables = {}
    BY <1>1, <1>2
  <2> QED  BY <2>1, <2>2 DEF NoneStale
<1>3. CASE Len(tables) > 0
  <2>1. Len(mem) = 1
    BY <1>3 DEF OneTable
  <2>2. PICK p, c : /\ BlockIn(mem, p, c, interned)
                    /\ \A i \in 1 .. Len(tables) : Knows(tables[i], mem, p, c, interned)
    BY <1>3 DEF OneTable, SymbolInv
  <2>3. p = 1 /\ mem[1].live = TRUE
    BY <2>1, <2>2 DEF BlockIn
  <2>4. NoneStale
    BY <1>1, <2>3 DEF NoneStale, IsStale, OneTable, FirstTable
  <2>5. PICK t : t = RunningTable
    OBVIOUS
  <2>6. Knows(t, mem, p, c, interned) /\ FirstTable(t)
    <3>1. HasTable
      BY <1>3, TablesAre DEF OneTable
    <3>2. Len(tables) \in 1 .. Len(tables) /\ t = tables[Len(tables)]
      BY <2>5, <3>1, TablesAre DEF OneTable
    <3> QED  BY <2>2, <3>2 DEF OneTable
  <2>7. t.count \in Nat /\ t.count <= Cardinality(interned) /\ t.capacity = next_power_of_two(FirstCapacity)
    BY <2>3, <2>6 DEF Knows, FirstTable
  <2>8. ~IsCrowded(t)
    <3>1. PICK k \in Nat, x \in Nat, d \in Nat :
            /\ k = t.count /\ x = Cardinality(interned) /\ d = t.capacity /\ k <= x
            /\ 4 * (x + 1) < 3 * d
      BY <2>7, FewKept
    <3>2. ~((k + 1) * 4 >= d * 3)
      BY <3>1
    <3> QED  BY <3>1, <3>2 DEF IsCrowded
  <2> QED  BY <2>4, <2>5, <2>8 DEF Roomy
<1>4. Len(tables) \in Nat
  BY TablesAre DEF OneTable
<1> QED  BY <1>2, <1>3, <1>4

\* The running VM's table and the memory after an access.
LEMMA StaysOne ==
  ASSUME OneTable, HasTable, SymbolInv', interned' \subseteq Identifiers,
         NEW t, SetRunning(t), FirstTable(t), NEW m, mem' = m, Len(m) = 1
  PROVE  OneTable'
<1>1. IsSeq(tables) /\ Len(tables) \in 1 .. Len(tables)
  BY TablesAre DEF OneTable, SymbolInv
<1>2. PICK s : s = tables'
  OBVIOUS
<1>3. s = Replaced(tables, Len(tables), t)
  BY <1>2 DEF SetRunning, Replaced
<1>4. /\ Len(s) = Len(tables) /\ s[Len(tables)] = t
      /\ \A i \in 1 .. Len(tables) : i # Len(tables) => s[i] = tables[i]
  BY <1>1, <1>3, ReplacedIs
<1>5. \A i \in 1 .. Len(s) : FirstTable(s[i])
  BY <1>4 DEF OneTable
<1> QED  BY <1>2, <1>5 DEF OneTable

LEMMA OneTableStep == FewNames /\ OneTable /\ [SymbolNext]_symbolVars => OneTable'
<1> SUFFICES ASSUME FewNames, OneTable, [SymbolNext]_symbolVars PROVE OneTable'
  OBVIOUS
<1>1. SymbolInv'
  BY SymbolStep DEF OneTable
<1>2. CASE UNCHANGED symbolVars
  BY <1>1, <1>2 DEF symbolVars, OneTable
<1>3. CASE psymbol_init
  <2>1. PICK c, t, b : /\ c = next_power_of_two(FirstCapacity)
                       /\ t = [p |-> 1, count |-> 0, capacity |-> c] /\ b = Allocated(Empty(c))
    OBVIOUS
  <2>2. tables' = <<t>> /\ mem' = <<b>> /\ interned' = {}
    BY <1>3, <2>1 DEF psymbol_init
  <2>3. Len(tables') = 1 /\ tables'[1] = t /\ Len(mem') = 1
    BY <2>2, OneIs
  <2>4. FirstTable(t)
    BY <2>1 DEF FirstTable
  <2>5. \A i \in 1 .. Len(tables') : FirstTable(tables'[i])
    BY <2>3, <2>4
  <2> QED  BY <1>1, <2>2, <2>3, <2>5 DEF OneTable
<1>4. CASE psymbol_destroy
  <2>1. tables' = <<>> /\ interned' = {}
    BY <1>4 DEF psymbol_destroy
  <2>2. Len(tables') = 0
    BY <2>1
  <2> QED  BY <1>1, <2>1, <2>2 DEF OneTable
<1>5. ASSUME NEW n \in Identifiers, psymbol_intern(n) \/ ResizeFails(n) \/ StringFails(n) PROVE OneTable'
  <2>1. HasTable
    BY <1>5 DEF psymbol_intern, ResizeFails, StringFails, MayIntern
  <2>2. PICK r : r = Roomy(RunningTable)
    OBVIOUS
  <2>3. PICK t : t = RunningTable
    OBVIOUS
  <2>4. r.table = t /\ r.mem = mem
    <3>1. r = [table |-> t, mem |-> mem]
      BY <2>1, <2>2, <2>3, AllCurrent
    <3> QED  BY <3>1
  <2>5. /\ Len(tables) > 0 /\ Len(tables) \in 1 .. Len(tables) /\ t = tables[Len(tables)]
        /\ IsSeq(mem) /\ Len(mem) = 1
    BY <2>1, <2>3, TablesAre DEF OneTable, SymbolInv
  <2>6. FirstTable(t)
    BY <2>5 DEF OneTable
  <2>7. CASE ResizeFails(n)
    BY <1>1, <2>7 DEF ResizeFails, symbolVars, OneTable
  <2>8. CASE StringFails(n)
    <3>1. SetRunning(t) /\ mem' = mem /\ interned' = interned
      BY <2>2, <2>4, <2>8 DEF StringFails
    <3>2. interned' \subseteq Identifiers
      BY <3>1 DEF OneTable
    <3> QED  BY <1>1, <2>1, <2>5, <2>6, <3>1, <3>2, StaysOne
  <2>9. CASE psymbol_intern(n)
    <3>1. PICK slot : slot = find_slot(mem[t.p].entries, t.capacity, n)
      OBVIOUS
    <3>2. /\ \/ SetRunning(t) /\ mem' = mem
             \/ /\ SetRunning([t EXCEPT !.count = @ + 1])
                /\ mem' = [mem EXCEPT ![t.p].entries[slot] = n]
          /\ interned' = interned \cup {n}
      BY <2>2, <2>4, <2>9, <3>1 DEF psymbol_intern
    <3>3. interned' \subseteq Identifiers
      BY <3>2 DEF OneTable
    <3>4. CASE SetRunning(t) /\ mem' = mem
      BY <1>1, <2>1, <2>5, <2>6, <3>3, <3>4, StaysOne
    <3>5. CASE /\ SetRunning([t EXCEPT !.count = @ + 1])
               /\ mem' = [mem EXCEPT ![t.p].entries[slot] = n]
      <4>1. PICK u, b, m : /\ u = [t EXCEPT !.count = @ + 1] /\ m = mem'
                           /\ b = [mem[t.p] EXCEPT !.entries = [mem[t.p].entries EXCEPT ![slot] = n]]
        OBVIOUS
      <4>2. m = Replaced(mem, t.p, b)
        BY <3>5, <4>1 DEF Replaced
      <4>3. t.p \in 1 .. Len(mem)
        BY <2>5, <2>6 DEF FirstTable
      <4>4. Len(m) = 1
        <5>1. PICK p : p = t.p
          OBVIOUS
        <5>2. IsSeq(mem) /\ p \in 1 .. Len(mem) /\ m = Replaced(mem, p, b)
          BY <2>5, <4>2, <4>3, <5>1
        <5>3. Len(m) = Len(mem)
          BY ONLY <5>2, ReplacedIs
        <5> QED  BY <2>5, <5>3
      <4>5. FirstTable(u)
        <5>1. u.p = t.p /\ u.capacity = t.capacity
          BY <4>1
        <5> QED  BY <2>6, <5>1 DEF FirstTable
      <4>6. SetRunning(u) /\ mem' = m
        BY <3>5, <4>1
      <4> QED  BY <1>1, <2>1, <3>3, <4>4, <4>5, <4>6, StaysOne
    <3> QED  BY <3>2, <3>4, <3>5
  <2> QED  BY <1>5, <2>7, <2>8, <2>9
<1>6. ASSUME NEW s, IsSeq(s), Len(s) > 0, HasTable, UNCHANGED <<mem, interned>>, tables' = s,
             \A i \in 1 .. Len(s) : \E j \in 1 .. Len(tables) : s[i] = tables[j]
      PROVE  OneTable'
  <2>1. Len(tables) > 0
    BY <1>6, TablesAre DEF OneTable
  <2>2. \A i \in 1 .. Len(s) : FirstTable(s[i])
    BY <1>6 DEF OneTable
  <2> QED  BY <1>1, <1>6, <2>1, <2>2 DEF OneTable
<1>7. CASE EnterNested
  <2>1. PICK t \in {RunningTable, Head(tables)} : tables' = Append(tables, t)
    BY <1>7 DEF EnterNested
  <2>2. HasTable /\ UNCHANGED <<mem, interned>>
    BY <1>7 DEF EnterNested
  <2>3. /\ Len(tables) \in Nat /\ IsSeq(tables)
        /\ Len(tables) \in 1 .. Len(tables) /\ RunningTable = tables[Len(tables)]
        /\ 1 \in 1 .. Len(tables) /\ Head(tables) = tables[1]
    BY <2>2, TablesAre DEF OneTable, SymbolInv
  <2>4. PICK s : s = Append(tables, t)
    OBVIOUS
  <2>5. /\ IsSeq(s) /\ Len(s) = Len(tables) + 1
        /\ \A i \in 1 .. Len(tables) : s[i] = tables[i]
        /\ s[Len(tables) + 1] = t
    BY <2>3, <2>4, AppendIs
  <2>6. ASSUME NEW i \in 1 .. Len(s) PROVE \E j \in 1 .. Len(tables) : s[i] = tables[j]
    <3>1. CASE i \in 1 .. Len(tables)
      BY <2>5, <3>1
    <3>2. CASE i = Len(tables) + 1
      BY <2>1, <2>3, <2>5, <3>2
    <3> QED  BY <2>3, <2>5, <3>1, <3>2
  <2>7. Len(s) > 0
    BY <2>3, <2>5
  <2> QED  BY <1>6, <2>1, <2>2, <2>4, <2>5, <2>6, <2>7
<1>8. CASE LeaveNested
  <2>1. Len(tables) > 1 /\ UNCHANGED <<mem, interned>> /\ tables' = SubSeq(tables, 1, Len(tables) - 1)
    BY <1>8 DEF LeaveNested, Front
  <2>2. IsSeq(tables) /\ Len(tables) \in Nat /\ HasTable
    BY <2>1, TablesAre DEF OneTable, SymbolInv
  <2>3. PICK s : s = SubSeq(tables, 1, Len(tables) - 1)
    OBVIOUS
  <2>4. /\ IsSeq(s) /\ Len(s) = Len(tables) - 1
        /\ \A i \in 1 .. Len(tables) - 1 : s[i] = tables[i]
    BY <2>1, <2>2, <2>3, FrontIs
  <2>5. \A i \in 1 .. Len(s) : i \in 1 .. Len(tables) /\ s[i] = tables[i]
    BY <2>2, <2>4
  <2>6. Len(s) > 0
    BY <2>1, <2>2, <2>4
  <2> QED  BY <1>6, <2>1, <2>2, <2>3, <2>4, <2>5, <2>6
<1> QED  BY <1>2, <1>3, <1>4, <1>5, <1>7, <1>8 DEF SymbolNext, Intern

\* A program with few names (46 for a table of 64 slots) never gives a table
\* back while it runs: no VM is left with a freed one, whatever nested VMs
\* intern, and names are kept in full (IsCrowded, resize_table).
THEOREM SmallProgramsKeepNames == FewNames => (SymbolSpec => [](NamesKept /\ NoneStale))
<1> SUFFICES ASSUME FewNames PROVE SymbolSpec => [](NamesKept /\ NoneStale)
  OBVIOUS
<1>1. SymbolInit => OneTable
  <2> SUFFICES ASSUME SymbolInit PROVE OneTable
    OBVIOUS
  <2>1. tables = <<>> /\ interned = {}
    BY DEF SymbolInit
  <2>2. Len(tables) = 0
    BY <2>1
  <2> QED  BY <2>1, <2>2, SymbolStart DEF OneTable
<1>2. OneTable /\ [SymbolNext]_symbolVars => OneTable'
  BY OneTableStep
<1>3. OneTable => NamesKept /\ NoneStale
  <2> SUFFICES ASSUME OneTable PROVE NamesKept /\ NoneStale
    OBVIOUS
  <2>1. SymbolInv /\ NoneStale
    BY AllCurrent DEF OneTable
  <2>2. ASSUME NEW n \in Identifiers, MayIntern(n), NEW r, r = Roomy(RunningTable)
        PROVE  Stops(r.mem[r.table.p].entries, r.table.capacity, n) # {}
    <3>1. HasTable
      BY <2>2 DEF MayIntern
    <3>2. PICK t : t = RunningTable
      OBVIOUS
    <3>3. r.table = t
      <4>1. r = [table |-> t, mem |-> mem]
        BY <2>2, <3>1, <3>2, AllCurrent
      <4> QED  BY <4>1
    <3>4. Len(tables) \in 1 .. Len(tables) /\ t = tables[Len(tables)]
      BY <2>1, <3>1, <3>2, TablesAre
    <3>5. t.capacity = next_power_of_two(FirstCapacity)
      BY <3>4 DEF OneTable, FirstTable
    <3>6. Cardinality(interned) < t.capacity
      <4>1. PICK x \in Nat, d \in Nat : x = Cardinality(interned) /\ d = t.capacity /\ 4 * (x + 1) < 3 * d
        BY <3>5, FewKept
      <4> QED  BY <4>1
    <3> QED  BY <2>1, <2>2, <3>3, <3>6, LookupEnds
  <2>3. LookupsEnd
    BY <2>2 DEF LookupsEnd
  <2> QED  BY <2>1, <2>3, FoundOnce DEF NamesKept
<1> QED  BY <1>1, <1>2, <1>3, PTL DEF SymbolSpec
=============================================================================
