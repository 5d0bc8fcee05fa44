----------------------------- MODULE HeapProofs ------------------------------
(***************************************************************************)
(* Reference counting is sound in every heap: with any cells, classes,     *)
(* variables and slots, through any nesting of stores, destructors, sweeps *)
(* and collections.                                                        *)
(***************************************************************************)
EXTENDS Heap, FiniteSetTheorems, WellFoundedInduction, TLAPS

-----------------------------------------------------------------------------
(* The inductive invariant.                                                *)

\* The cell of work item i belongs to its own destruction alone: no holder
\* names it, nobody further down the stack will give it up, and the collector
\* has lost sight of it.
Alone(i) ==
  /\ \A h \in Owning : ValueIn(h) # ctl[i].cell
  /\ \A j \in DOMAIN ctl : j > i => Weight(ctl[j], ctl[i].cell) = 0
  /\ ctl[i].cell \notin flags.buffered
  /\ ctl[i].op # "sweep" => ctl[i].cell \in flags.destroying \ flags.collecting

DyingAlone == \A i \in DOMAIN ctl : Dismantles(ctl[i]) => Alone(i)

\* During its sweep nobody at all has a reference to a cell.
Unowned(c) == rc[c] = 0 /\ \A j \in DOMAIN ctl : Weight(ctl[j], c) = 0

SweptAlone == \A i \in DOMAIN ctl : ctl[i].op = "sweep" => Unowned(ctl[i].cell)

\* The guard reference goes as soon as the callable array has gone.
UnguardedAtOnce ==
  \A i \in DOMAIN ctl : ctl[i].op = "unguard" =>
    i = 1 \/ (i = 2 /\ ctl[1] = Release(ctl[i].cell))

\* Store i waits only for the end of what its holder named; it owns its object
\* and its value.
Waits(i) ==
  /\ i > 1 => /\ ctl[i - 1].cell = ValueIn(ctl[i].holder)
              /\ Dismantles(ctl[i - 1]) \/ (i = 2 /\ ctl[1].op = "release")
  /\ ctl[i].holder \notin Vars =>
       /\ i + 1 \in DOMAIN ctl /\ ctl[i + 1] = Release(ctl[i].holder[1])
       /\ ctl[i].holder[1] \notin flags.collecting
  /\ ctl[i].cell \notin flags.collecting \cup Dying
  /\ \A j \in DOMAIN ctl : ctl[j].op = "put" /\ ctl[j].holder = ctl[i].holder => i = j

StoresWait == \A i \in DOMAIN ctl : ctl[i].op = "put" => Waits(i)

\* Only cells that the collector takes apart name those that it takes apart,
\* and it holds one reference to each.
CollectedApart ==
  /\ flags.collecting \subseteq live \ flags.buffered
  /\ \A h \in Owning : ValueIn(h) \in flags.collecting => h \notin Vars /\ h[1] \in flags.collecting
  /\ \A i \in DOMAIN ctl : ctl[i].op = "clear" =>
       /\ ctl[i].cell \in flags.collecting
       /\ \E j \in DOMAIN ctl : j > i /\ ctl[j] = Release(ctl[i].cell)

\* A block is blank when the allocator hands it out.
FreeAreBlank == \A c \in Cells \ live : \A s \in Slots : slot[c][s] = Null

HeapInv ==
  /\ TypeOK /\ RefCountExact /\ NoDangling /\ DestroyedOnce /\ BufferMatchesFlags
  /\ DyingAlone /\ SweptAlone /\ UnguardedAtOnce /\ StoresWait /\ CollectedApart /\ FreeAreBlank

\* What the theorem asks of the program and of the sizes: destructors do not
\* use a holder that is being overwritten and do not store their $this, the
\* collector does not meet a half-released cell, and a count sticks only
\* beyond the slots one collection looks at.
Disciplined ==
  ~TouchesStale /\ ~Resurrects /\ ~WalksSwept /\ BufferMax * NSlots < RcMax

-----------------------------------------------------------------------------
(* Counting references.                                                    *)

FrameCount(s, c) == Cardinality(FrameRefs(s, c))

\* A work item gives up at most two references to a cell.
LEMMA WeightIs == ASSUME NEW f, NEW c PROVE Weight(f, c) \in 0 .. 2
BY DEF Weight

\* The size of an interval.
LEMMA IntervalSize ==
  /\ \A n \in Nat : IsFiniteSet(1 .. n) /\ Cardinality(1 .. n) = n
  /\ IsFiniteSet(1 .. 2) /\ Cardinality(1 .. 2) = 2 /\ Cardinality(1 .. 3) = 3
<1>1. \A n \in Nat : IsFiniteSet(1 .. n) /\ Cardinality(1 .. n) = n
  <2> TAKE n \in Nat
  <2> QED
    BY FS_Interval, SMT
<1>2. 2 \in Nat /\ 3 \in Nat
  OBVIOUS
<1> QED
  BY <1>1, <1>2, Zenon

\* Finitely many work items give up finitely many references.
LEMMA FrameRefsFinite ==
  ASSUME NEW S, NEW s \in Seq(S), NEW c
  PROVE  IsFiniteSet(FrameRefs(s, c)) /\ FrameCount(s, c) \in Nat
<1>1. IsFiniteSet(1 .. Len(s))
  BY FS_Interval
<1>2. IsFiniteSet(1 .. 2)
  BY IntervalSize, Zenon
<1>3. DOMAIN s = 1 .. Len(s)
  OBVIOUS
<1>4. IsFiniteSet((DOMAIN s) \X (1 .. 2))
  BY <1>1, <1>2, <1>3, FS_Product
<1> QED
  BY <1>4, FS_Subset, FS_CardinalityType DEF FrameRefs, FrameCount

\* Nothing gives up nothing, and one work item what its weight says.
LEMMA NoFrames == ASSUME NEW c PROVE FrameCount(<<>>, c) = 0
BY FS_EmptySet DEF FrameCount, FrameRefs

LEMMA OneFrame ==
  ASSUME NEW f, NEW c
  PROVE  FrameCount(<<f>>, c) = Weight(f, c)
<1> DEFINE w == Weight(f, c)
<1>1. w \in 0 .. 2
  BY WeightIs
<1> HIDE DEF w
<1>2. FrameRefs(<<f>>, c) = {r \in {1} \X (1 .. 2) : r[2] <= w}
  BY DEF FrameRefs, w
<1>3. CASE w = 0
  <2>1. FrameRefs(<<f>>, c) = {}
    BY <1>2, <1>3
  <2> QED
    BY <1>3, <2>1, FS_EmptySet DEF FrameCount, w
<1>4. CASE w = 1
  <2>1. FrameRefs(<<f>>, c) = {<<1, 1>>}
    BY <1>2, <1>4
  <2> QED
    BY <1>4, <2>1, FS_Singleton DEF FrameCount, w
<1>5. CASE w = 2
  <2>1. FrameRefs(<<f>>, c) = {<<1, 1>>} \cup {<<1, 2>>}
    BY <1>2, <1>5
  <2>2. Cardinality({<<1, 1>>} \cup {<<1, 2>>}) = 2
    <3>1. IsFiniteSet({<<1, 1>>}) /\ Cardinality({<<1, 1>>}) = 1
      BY FS_Singleton, Zenon
    <3>2. <<1, 2>> \notin {<<1, 1>>}
      OBVIOUS
    <3>3. Cardinality({<<1, 1>>} \cup {<<1, 2>>}) = Cardinality({<<1, 1>>}) + 1
      BY <3>1, <3>2, FS_AddElement
    <3> QED
      BY <3>1, <3>3
  <2> QED
    BY <1>5, <2>1, <2>2 DEF FrameCount, w
<1> QED
  BY <1>1, <1>3, <1>4, <1>5

\* The references of two stacks add up.
LEMMA FramesJoin ==
  ASSUME NEW S, NEW s \in Seq(S), NEW t \in Seq(S), NEW c
  PROVE  FrameCount(s \o t, c) = FrameCount(s, c) + FrameCount(t, c)
<1> DEFINE n == Len(s)
           A == FrameRefs(s, c)
           B == FrameRefs(t, c)
           Move(r) == <<n + r[1], r[2]>>
           C == {r \in FrameRefs(s \o t, c) : r[1] > n}
           f == [r \in B |-> Move(r)]
<1>1. /\ n \in Nat /\ DOMAIN s = 1 .. n /\ DOMAIN t = 1 .. Len(t) /\ Len(t) \in Nat
      /\ DOMAIN (s \o t) = 1 .. n + Len(t)
      /\ \A i \in 1 .. n : (s \o t)[i] = s[i]
      /\ \A i \in 1 .. Len(t) : (s \o t)[n + i] = t[i]
  OBVIOUS
<1> HIDE DEF n
<1>2. FrameRefs(s \o t, c) = A \cup C
  BY <1>1 DEF FrameRefs
<1>3. A \cap C = {}
  BY <1>1 DEF FrameRefs
<1>4. f \in Bijection(B, C)
  <2>1. \A r \in B : Move(r) \in C
    BY <1>1 DEF FrameRefs
  <2>2. \A q, r \in B : Move(q) = Move(r) => q = r
    BY <1>1 DEF FrameRefs
  <2>3. \A q \in C : \E r \in B : Move(r) = q
    <3> SUFFICES ASSUME NEW q \in C PROVE \E r \in B : Move(r) = q
      OBVIOUS
    <3> DEFINE i == q[1] - n
    <3>1. i \in 1 .. Len(t) /\ q[1] = n + i /\ q[2] \in 1 .. 2 /\ q = <<q[1], q[2]>>
      BY <1>1 DEF FrameRefs
    <3>2. <<i, q[2]>> \in B
      BY <1>1, <3>1 DEF FrameRefs
    <3> QED
      BY <3>1, <3>2
  <2> HIDE DEF C, Move, B
  <2> QED
    BY <2>1, <2>2, <2>3 DEF Bijection, Injection, Surjection, IsInjective
<1>5. IsFiniteSet(A) /\ IsFiniteSet(B)
  BY FrameRefsFinite
<1>6. IsFiniteSet(C) /\ Cardinality(C) = Cardinality(B)
  <2>1. ExistsBijection(B, C)
    BY <1>4 DEF ExistsBijection
  <2> HIDE DEF B, C
  <2> QED
    BY <2>1, <1>5, FS_Bijection
<1>7. Cardinality(A \cup C) = Cardinality(A) + Cardinality(C) - Cardinality(A \cap C)
  BY <1>5, <1>6, FS_Union
<1> QED
  <2>1. Cardinality(A \cap C) = 0
    BY <1>3, FS_EmptySet
  <2>2. Cardinality(A) \in Nat /\ Cardinality(B) \in Nat
    BY <1>5, FS_CardinalityType
  <2> HIDE DEF A, B, C
  <2>3. Cardinality(A \cup C) = Cardinality(A) + Cardinality(B)
    BY <1>6, <1>7, <2>1, <2>2
  <2> QED
    BY <1>2, <2>3 DEF FrameCount, A, B

\* Numbers of copies: two of v, and one of b where there is one.
LEMMA CopiesOfTwo ==
  ASSUME NEW v, NEW c
  PROVE  Cardinality({i \in DOMAIN <<v, v>> : <<v, v>>[i] = c}) = IF v = c THEN 2 ELSE 0
<1> DEFINE S == {i \in DOMAIN <<v, v>> : <<v, v>>[i] = c}
<1>1. CASE v = c
  <2>1. S = 1 .. 2
    BY <1>1
  <2>2. Cardinality(1 .. 2) = 2
    BY IntervalSize, Zenon
  <2> QED
    BY <1>1, <2>1, <2>2
<1>2. CASE v # c
  <2>1. S = {}
    BY <1>2
  <2> QED
    BY <1>2, <2>1, FS_EmptySet
<1> QED
  BY <1>1, <1>2

\* How often c occurs in cs.
Copied(cs, c) == Cardinality({i \in DOMAIN cs : cs[i] = c})

LEMMA CopiesOfThree ==
  ASSUME NEW v, NEW b, NEW c, NEW cs, cs = <<v, v, b>>
  PROVE  Copied(cs, c)
           = (IF v = c THEN 2 ELSE 0) + (IF b = c THEN 1 ELSE 0)
<1> DEFINE S == {i \in DOMAIN cs : cs[i] = c}
<1> SUFFICES Cardinality(S) = (IF v = c THEN 2 ELSE 0) + (IF b = c THEN 1 ELSE 0)
  BY DEF Copied
<1>1. CASE v = c /\ b = c
  <2>1. S = 1 .. 3
    BY <1>1
  <2>2. Cardinality(1 .. 3) = 3
    BY IntervalSize, Zenon
  <2> QED
    BY <1>1, <2>1, <2>2
<1>2. CASE v = c /\ b # c
  <2>1. S = 1 .. 2
    BY <1>2
  <2>2. Cardinality(1 .. 2) = 2
    BY IntervalSize, Zenon
  <2> QED
    BY <1>2, <2>1, <2>2
<1>3. CASE v # c /\ b = c
  <2>1. S = {3}
    BY <1>3
  <2>2. Cardinality({3}) = 1
    BY FS_Singleton, Zenon
  <2> QED
    BY <1>3, <2>1, <2>2
<1>4. CASE v # c /\ b # c
  <2>1. S = {}
    BY <1>4
  <2> QED
    BY <1>4, <2>1, FS_EmptySet
<1> QED
  BY <1>1, <1>2, <1>3, <1>4

LEMMA CopiesOfOne ==
  ASSUME NEW b, NEW c, NEW cs, cs = <<b>>
  PROVE  Copied(cs, c) = IF b = c THEN 1 ELSE 0
<1> DEFINE S == {i \in DOMAIN cs : cs[i] = c}
<1> SUFFICES Cardinality(S) = IF b = c THEN 1 ELSE 0
  BY DEF Copied
<1>1. CASE b = c
  <2>1. S = {1}
    BY <1>1
  <2>2. Cardinality({1}) = 1
    BY FS_Singleton, Zenon
  <2> QED
    BY <1>1, <2>1, <2>2
<1>2. CASE b # c
  <2>1. S = {}
    BY <1>2
  <2> QED
    BY <1>2, <2>1, FS_EmptySet
<1> QED
  BY <1>1, <1>2

-----------------------------------------------------------------------------
(* Work items.                                                             *)

\* What the fields of a work item range over.
LEMMA FrameKinds ==
  ASSUME NEW f \in Frames
  PROVE  /\ f.op \in {"release", "put", "destructor", "unguard", "sweep", "clear", "collected"}
         /\ f.cell \in Cells \cup {Null}
         /\ f.op \in {"destructor", "unguard", "sweep", "clear"} => f.cell \in Cells
         /\ f.op = "release" => f = Release(f.cell)
         /\ f.op = "put" => f.holder \in Holders
         /\ f.op = "unguard" => f = Unguard(f.cell)
         /\ f.op = "destructor" => f.left \in 0 .. DtorSteps /\ f = Destructor(f.cell, f.left)
         /\ f.op = "sweep" => f.at \in 1 .. NSlots + 1
         /\ f.op = "clear" => f.at \in Slots
BY DEF Frames, Release, Put, Destructor, Unguard, Sweep, Clear, Collected

\* What a work item gives up, by its kind.
LEMMA FrameWeights ==
  ASSUME NEW f \in Frames, NEW c
  PROVE  /\ Weight(f, c) > 0 <=> f.cell = c /\ f.op \in {"release", "put", "unguard", "destructor"}
         /\ f.cell = c /\ f.op \in {"release", "put", "unguard"} => Weight(f, c) = 1
         /\ f.cell = c /\ f.op = "destructor" => Weight(f, c) = 2
         /\ Weight(f, c) \in 0 .. 2
BY DEF Weight

-----------------------------------------------------------------------------
(* Steps of the stack.                                                     *)

\* What a concatenation holds.
LEMMA JoinIs ==
  ASSUME NEW S, NEW s \in Seq(S), NEW t \in Seq(S)
  PROVE  /\ s \o t \in Seq(S) /\ Len(s \o t) = Len(s) + Len(t) /\ Len(s) \in Nat /\ Len(t) \in Nat
         /\ DOMAIN (s \o t) = 1 .. Len(s) + Len(t) /\ DOMAIN s = 1 .. Len(s) /\ DOMAIN t = 1 .. Len(t)
         /\ \A j \in 1 .. Len(s) : (s \o t)[j] = s[j]
         /\ \A i \in 1 .. Len(t) : (s \o t)[Len(s) + i] = t[i]
OBVIOUS

\* Sequences of one and two items.
LEMMA JoinOfTwo ==
  ASSUME NEW S, NEW f \in S, NEW g \in S
  PROVE  <<f>> \o <<g>> = <<f, g>> /\ <<f>> \o <<>> = <<f>>
<1>1. <<f>> \o <<g>> = <<f, g>>
  <2> DEFINE p == <<f>> \o <<g>>
             q == <<f, g>>
  <2>1. <<f>> \in Seq(S) /\ <<g>> \in Seq(S) /\ q \in Seq(S) /\ Len(q) = 2 /\ q[1] = f /\ q[2] = g
        /\ Len(<<f>>) = 1 /\ Len(<<g>>) = 1 /\ <<f>>[1] = f /\ <<g>>[1] = g
    OBVIOUS
  <2>2. p \in Seq(S) /\ Len(p) = 2 /\ p[1] = f /\ p[2] = g
    BY <2>1
  <2> HIDE DEF p, q
  <2>3. DOMAIN p = 1 .. 2 /\ DOMAIN q = 1 .. 2 /\ \A i \in 1 .. 2 : p[i] = q[i]
    BY <2>1, <2>2
  <2>4. p = q
    BY <2>1, <2>2, <2>3
  <2> QED
    BY <2>4 DEF p, q
<1>2. <<f>> \o <<>> = <<f>>
  OBVIOUS
<1> QED
  BY <1>1, <1>2

\* The copies a statement pushes, with and without an object.
LEMMA JoinWithNone == ASSUME NEW f, NEW g PROVE <<f, g>> \o <<>> = <<f, g>>
<1>1. <<f, g>> \in Seq({f, g})
  OBVIOUS
<1> QED
  BY <1>1

LEMMA JoinWithOne == ASSUME NEW f, NEW g, NEW e PROVE <<f, g>> \o <<e>> = <<f, g, e>>
<1> DEFINE S == {f, g, e}
           p == <<f, g>> \o <<e>>
           q == <<f, g, e>>
<1>1. /\ <<f, g>> \in Seq(S) /\ <<e>> \in Seq(S) /\ q \in Seq(S)
      /\ Len(<<f, g>>) = 2 /\ Len(<<e>>) = 1 /\ Len(q) = 3
      /\ <<f, g>>[1] = f /\ <<f, g>>[2] = g /\ <<e>>[1] = e
      /\ q[1] = f /\ q[2] = g /\ q[3] = e
  OBVIOUS
<1>2. p \in Seq(S) /\ Len(p) = 3 /\ p[1] = f /\ p[2] = g /\ p[3] = e
  BY <1>1
<1> HIDE DEF p, q, S
<1>3. DOMAIN p = 1 .. 3 /\ DOMAIN q = 1 .. 3 /\ \A i \in 1 .. 3 : p[i] = q[i]
  BY <1>1, <1>2
<1>4. p = q
  BY <1>1, <1>2, <1>3
<1> QED
  BY <1>4 DEF p, q

\* The same work item, but for the statements a destructor has left.
Alike(f, g) ==
  \/ f = g
  \/ f.op = "destructor" /\ g.op = "destructor" /\ f.cell = g.cell

\* The step puts k work items in the place of the topmost m.
Atop(k, m) ==
  /\ k \in Nat /\ m \in {0, 1} /\ m <= Len(ctl)
  /\ Len(ctl') = k + Len(ctl) - m
  /\ ctl \in Seq(Frames) /\ ctl' \in Seq(Frames)
  /\ \A i \in DOMAIN ctl : i > m => i + k - m \in DOMAIN ctl' /\ Alike(ctl'[i + k - m], ctl[i])
  /\ \A j \in DOMAIN ctl' : j > k => j - k + m \in DOMAIN ctl /\ Alike(ctl'[j], ctl[j - k + m])

LEMMA AtopBecome ==
  ASSUME ctl \in Seq(Frames), ctl # <<>>, NEW s \in Seq(Frames), Become(s)
  PROVE  /\ Atop(Len(s), 1)
         /\ \A j \in 1 .. Len(s) : ctl'[j] = s[j]
         /\ \A c : FrameCount(ctl', c) = FrameCount(s, c) + FrameCount(ctl, c) - Weight(ctl[1], c)
         /\ \A c : FrameCount(s, c) \in Nat /\ FrameCount(ctl, c) \in Nat
<1> DEFINE t == Tail(ctl)
<1>1. /\ t \in Seq(Frames) /\ ctl' = s \o t /\ Len(t) = Len(ctl) - 1 /\ Len(ctl) \in Nat /\ Len(ctl) > 0
      /\ \A i \in 1 .. Len(t) : t[i] = ctl[i + 1]
      /\ DOMAIN ctl = 1 .. Len(ctl)
  BY DEF Become
<1>2. ctl = <<ctl[1]>> \o t /\ <<ctl[1]>> \in Seq(Frames)
  OBVIOUS
<1> HIDE DEF t
<1>3. /\ ctl' \in Seq(Frames) /\ Len(ctl') = Len(s) + Len(t) /\ Len(s) \in Nat
      /\ DOMAIN ctl' = 1 .. Len(s) + Len(t)
      /\ \A j \in 1 .. Len(s) : ctl'[j] = s[j]
      /\ \A i \in 1 .. Len(t) : ctl'[Len(s) + i] = t[i]
  BY <1>1
<1>4. \A i \in DOMAIN ctl : i > 1 => i + Len(s) - 1 \in DOMAIN ctl' /\ ctl'[i + Len(s) - 1] = ctl[i]
  <2> SUFFICES ASSUME NEW i \in DOMAIN ctl, i > 1
               PROVE  i + Len(s) - 1 \in DOMAIN ctl' /\ ctl'[i + Len(s) - 1] = ctl[i]
    OBVIOUS
  <2>0. i \in 1 .. Len(ctl) /\ Len(t) = Len(ctl) - 1 /\ Len(ctl) \in Nat /\ Len(s) \in Nat
    BY <1>1, <1>3
  <2>1. i - 1 \in 1 .. Len(t) /\ i + Len(s) - 1 = Len(s) + (i - 1) /\ (i - 1) + 1 = i
        /\ i + Len(s) - 1 \in 1 .. Len(s) + Len(t)
    BY <2>0
  <2> QED
    BY <1>1, <1>3, <2>1
<1>5. \A j \in DOMAIN ctl' : j > Len(s) => j - Len(s) + 1 \in DOMAIN ctl /\ ctl'[j] = ctl[j - Len(s) + 1]
  <2> SUFFICES ASSUME NEW j \in DOMAIN ctl', j > Len(s)
               PROVE  j - Len(s) + 1 \in DOMAIN ctl /\ ctl'[j] = ctl[j - Len(s) + 1]
    OBVIOUS
  <2>1. j - Len(s) \in 1 .. Len(t) /\ Len(s) + (j - Len(s)) = j
    BY <1>1, <1>3
  <2> QED
    BY <1>1, <1>3, <2>1
<1>6. \A c : FrameCount(ctl', c) = FrameCount(s, c) + FrameCount(ctl, c) - Weight(ctl[1], c)
  <2> SUFFICES ASSUME NEW c
               PROVE  FrameCount(ctl', c) = FrameCount(s, c) + FrameCount(ctl, c) - Weight(ctl[1], c)
    OBVIOUS
  <2>1. FrameCount(ctl', c) = FrameCount(s, c) + FrameCount(t, c)
    BY <1>1, FramesJoin
  <2>2. FrameCount(<<ctl[1]>> \o t, c) = FrameCount(<<ctl[1]>>, c) + FrameCount(t, c)
    BY <1>1, <1>2, FramesJoin
  <2>3. FrameCount(<<ctl[1]>>, c) = Weight(ctl[1], c)
    BY OneFrame
  <2>4. FrameCount(s, c) \in Nat /\ FrameCount(t, c) \in Nat /\ Weight(ctl[1], c) \in 0 .. 2
    BY <1>1, FrameRefsFinite, WeightIs
  <2>5. FrameCount(ctl, c) = FrameCount(<<ctl[1]>> \o t, c)
    BY <1>2
  <2> QED
    BY <2>1, <2>2, <2>3, <2>4, <2>5
<1>7. Atop(Len(s), 1)
  BY <1>1, <1>3, <1>4, <1>5 DEF Atop, Alike
<1> QED
  BY <1>3, <1>6, <1>7, FrameRefsFinite

\* A work item is done.
LEMMA AtopPop ==
  ASSUME ctl \in Seq(Frames), ctl # <<>>, Become(<<>>)
  PROVE  /\ Atop(0, 1)
         /\ \A c : FrameCount(ctl', c) = FrameCount(ctl, c) - Weight(ctl[1], c) /\ FrameCount(ctl, c) \in Nat
<1> DEFINE s == <<>>
<1>1. s \in Seq(Frames) /\ Len(s) = 0 /\ \A c : FrameCount(s, c) = 0
  BY NoFrames
<1>2. Become(s)
  OBVIOUS
<1> HIDE DEF s
<1>3. /\ Atop(Len(s), 1)
      /\ \A c : FrameCount(ctl', c) = FrameCount(s, c) + FrameCount(ctl, c) - Weight(ctl[1], c)
      /\ \A c : FrameCount(ctl, c) \in Nat
  BY <1>1, <1>2, AtopBecome
<1>4. \A c : Weight(ctl[1], c) \in 0 .. 2
  BY WeightIs
<1> QED
  BY <1>1, <1>3, <1>4

\* The frames the items above rest on, when all the old ones stay.
LEMMA AtopOf ==
  ASSUME NEW s \in Seq(Frames), NEW r \in Seq(Frames), ctl \in Seq(Frames), ctl' = s \o r,
         Len(r) = Len(ctl), \A i \in DOMAIN ctl : Alike(r[i], ctl[i])
  PROVE  /\ Atop(Len(s), 0)
         /\ \A j \in 1 .. Len(s) : ctl'[j] = s[j]
         /\ \A c : FrameCount(ctl', c) = FrameCount(s, c) + FrameCount(ctl, c)
         /\ \A c : FrameCount(s, c) \in Nat /\ FrameCount(ctl, c) \in Nat
<1> DEFINE stack == s \o r
<1>0. /\ stack \in Seq(Frames) /\ Len(stack) = Len(s) + Len(r) /\ Len(s) \in Nat
      /\ DOMAIN stack = 1 .. Len(s) + Len(r)
      /\ \A j \in 1 .. Len(s) : stack[j] = s[j]
      /\ \A i \in 1 .. Len(r) : stack[Len(s) + i] = r[i]
  BY ONLY JoinIs, s \in Seq(Frames), r \in Seq(Frames)
<1> HIDE DEF stack
<1>1. /\ ctl' \in Seq(Frames) /\ Len(ctl') = Len(s) + Len(ctl) /\ Len(s) \in Nat /\ Len(ctl) \in Nat
      /\ DOMAIN ctl' = 1 .. Len(s) + Len(ctl) /\ DOMAIN ctl = 1 .. Len(ctl)
      /\ \A j \in 1 .. Len(s) : ctl'[j] = s[j]
      /\ \A i \in 1 .. Len(ctl) : ctl'[Len(s) + i] = r[i]
  <2>1. Len(ctl) \in Nat /\ DOMAIN ctl = 1 .. Len(ctl) /\ Len(r) = Len(ctl) /\ ctl' = stack
    BY DEF stack
  <2> QED
    BY <1>0, <2>1
<1>2. \A i \in DOMAIN ctl : i + Len(s) - 0 \in DOMAIN ctl' /\ Alike(ctl'[i + Len(s) - 0], ctl[i])
  <2> SUFFICES ASSUME NEW i \in DOMAIN ctl
               PROVE  i + Len(s) - 0 \in DOMAIN ctl' /\ Alike(ctl'[i + Len(s) - 0], ctl[i])
    OBVIOUS
  <2>1. i + Len(s) - 0 = Len(s) + i /\ i \in 1 .. Len(ctl)
    BY <1>1
  <2> QED
    BY <1>1, <2>1
<1>3. \A j \in DOMAIN ctl' : j > Len(s) => j - Len(s) + 0 \in DOMAIN ctl /\ Alike(ctl'[j], ctl[j - Len(s) + 0])
  <2> SUFFICES ASSUME NEW j \in DOMAIN ctl', j > Len(s)
               PROVE  j - Len(s) + 0 \in DOMAIN ctl /\ Alike(ctl'[j], ctl[j - Len(s) + 0])
    OBVIOUS
  <2>1. j - Len(s) + 0 \in 1 .. Len(ctl) /\ Len(s) + (j - Len(s) + 0) = j
    BY <1>1
  <2> QED
    BY <1>1, <2>1
<1>4. \A c : FrameRefs(r, c) = FrameRefs(ctl, c)
  <2>1. \A c : \A i \in DOMAIN ctl : Weight(r[i], c) = Weight(ctl[i], c)
    BY DEF Alike, Weight
  <2>2. DOMAIN r = DOMAIN ctl
    OBVIOUS
  <2> QED
    BY <2>1, <2>2 DEF FrameRefs
<1>5. \A c : FrameCount(ctl', c) = FrameCount(s, c) + FrameCount(ctl, c)
  <2> SUFFICES ASSUME NEW c
               PROVE  FrameCount(ctl', c) = FrameCount(s, c) + FrameCount(ctl, c)
    OBVIOUS
  <2>1. FrameCount(ctl', c) = FrameCount(s, c) + FrameCount(r, c)
    BY FramesJoin
  <2> QED
    BY <1>4, <2>1 DEF FrameCount
<1>6. Atop(Len(s), 0)
  BY <1>1, <1>2, <1>3 DEF Atop
<1> QED
  BY <1>1, <1>5, <1>6, FrameRefsFinite

\* A statement takes one from what its destructor has left.
LEMMA AtopRest ==
  ASSUME TypeOK, MayExecute, NEW s \in Seq(Frames), ctl' = s \o Rest
  PROVE  /\ Atop(Len(s), 0)
         /\ \A j \in 1 .. Len(s) : ctl'[j] = s[j]
         /\ \A c : FrameCount(ctl', c) = FrameCount(s, c) + FrameCount(ctl, c)
         /\ \A c : FrameCount(s, c) \in Nat /\ FrameCount(ctl, c) \in Nat
<1>1. ctl \in Seq(Frames)
  BY DEF TypeOK
<1>2. Rest \in Seq(Frames) /\ Len(Rest) = Len(ctl) /\ \A i \in DOMAIN ctl : Alike(Rest[i], ctl[i])
  <2>1. CASE ctl = <<>>
    BY <2>1 DEF Rest, Work
  <2>2. CASE ctl # <<>>
    <3> DEFINE f == Head(ctl)
               g == [f EXCEPT !.left = @ - 1]
    <3>1. f \in Frames /\ f = ctl[1] /\ Tail(ctl) \in Seq(Frames) /\ Len(Tail(ctl)) = Len(ctl) - 1
          /\ \A i \in 1 .. Len(ctl) - 1 : Tail(ctl)[i] = ctl[i + 1]
      BY <1>1, <2>2
    <3>2. f.op = "destructor" /\ f.left > 0
      BY <2>2 DEF MayExecute, Running, Top, Work
    <3>3. f.left \in 0 .. DtorSteps /\ f = Destructor(f.cell, f.left) /\ f.cell \in Cells
      BY <3>1, <3>2, FrameKinds
    <3> HIDE DEF f
    <3>4. g = Destructor(f.cell, f.left - 1)
      BY <3>3 DEF Destructor
    <3>5. DtorSteps \in Nat
      BY HeapAssumption DEF HeapAssumption
    <3>6. g \in Frames
      <4>1. f.left - 1 \in 0 .. DtorSteps
        BY <3>2, <3>3, <3>5
      <4> QED
        BY <3>3, <3>4, <4>1 DEF Frames
    <3>7. Alike(g, f)
      BY <3>2, <3>4 DEF Alike, Destructor
    <3>8. Rest = <<g>> \o Tail(ctl)
      BY <2>2 DEF Rest, Work, f
    <3> HIDE DEF g
    <3>9. /\ Rest \in Seq(Frames) /\ Len(Rest) = Len(ctl) /\ Rest[1] = g
          /\ \A i \in 2 .. Len(ctl) : Rest[i] = ctl[i]
      BY <1>1, <3>1, <3>6, <3>8
    <3> QED
      BY <1>1, <3>1, <3>7, <3>9 DEF Alike
  <2> QED
    BY <2>1, <2>2
<1> QED
  BY <1>1, <1>2, AtopOf

-----------------------------------------------------------------------------
(* Holders.                                                                *)

\* What the assumption on the constants gives.
LEMMA Given ==
  /\ NSlots \in Nat /\ NSlots > 0 /\ Slots = 1 .. NSlots
  /\ RcMax \in Nat /\ RcMax > 1 /\ BufferMax \in Nat /\ BufferMax > 0 /\ DtorSteps \in Nat
  /\ Null \notin Cells
  /\ \A h \in Cells \X Slots : h \notin Vars
BY HeapAssumption DEF HeapAssumption, Slots

\* A holder that is no variable is a slot of a cell.
LEMMA SlotHolder ==
  ASSUME NEW h \in Holders, h \notin Vars
  PROVE  h \in Cells \X Slots /\ h[1] \in Cells /\ h[2] \in Slots /\ h = <<h[1], h[2]>>
BY DEF Holders

LEMMA ValueTyped ==
  ASSUME TypeOK, NEW h \in Holders
  PROVE  ValueIn(h) \in Cells \cup {Null}
<1>1. CASE h \in Vars
  BY <1>1 DEF ValueIn, TypeOK
<1>2. CASE h \notin Vars
  BY <1>2, SlotHolder DEF ValueIn, TypeOK
<1> QED
  BY <1>1, <1>2

\* The holders that own a reference to c.
Held(c) == {h \in Owning : ValueIn(h) = c}

HeldCount(c) == Cardinality(Held(c))

LEMMA HoldersFinite == IsFiniteSet(Holders) /\ IsFiniteSet(Cells \X Slots)
<1>1. IsFiniteSet(Slots)
  BY Given, IntervalSize
<1>2. IsFiniteSet(Cells) /\ IsFiniteSet(Vars)
  BY HeapAssumption DEF HeapAssumption
<1>3. IsFiniteSet(Cells \X Slots)
  BY <1>1, <1>2, FS_Product
<1> QED
  BY <1>2, <1>3, FS_Union DEF Holders

LEMMA HeldFinite ==
  ASSUME NEW S \in SUBSET Holders
  PROVE  IsFiniteSet(S) /\ Cardinality(S) \in Nat
BY HoldersFinite, FS_Subset, FS_CardinalityType

LEMMA OwningHolders ==
  ASSUME TypeOK
  PROVE  /\ Owning \subseteq Holders
         /\ \A h \in Owning : h \notin Vars => h[1] \in live /\ h[1] \in Cells /\ h[2] \in Slots
         /\ \A c : Held(c) \subseteq Holders /\ HeldCount(c) \in Nat
<1>1. Owning \subseteq Vars \cup (live \X Slots) /\ live \subseteq Cells
  BY DEF Owning, TypeOK
<1>2. Owning \subseteq Holders
  BY <1>1 DEF Holders
<1>3. \A c : Held(c) \subseteq Holders
  BY <1>2 DEF Held
<1>4. \A c : HeldCount(c) \in Nat
  BY <1>3, HeldFinite DEF HeldCount
<1> QED
  BY <1>1, <1>2, <1>3, <1>4

\* Counts are exact, in the words of the lemmas.
LEMMA ExactIs ==
  RefCountExact <=> \A c \in live : rc[c] = RcMax \/ rc[c] = HeldCount(c) + FrameCount(ctl, c)
BY DEF RefCountExact, Owners, HeldCount, Held, FrameCount

\* A step that moves no value and overwrites nothing.
LEMMA HeldStays ==
  ASSUME UNCHANGED <<live, var, slot>>, Stale' = Stale, Swept' = Swept
  PROVE  /\ Owning' = Owning
         /\ \A h : ValueIn(h)' = ValueIn(h)
         /\ \A c : Held(c)' = Held(c) /\ HeldCount(c)' = HeldCount(c)
<1>1. Owning' = Owning
  BY DEF Owning
<1>2. \A h : ValueIn(h)' = ValueIn(h)
  BY DEF ValueIn
<1>3. \A c : Held(c)' = Held(c)
  BY <1>1, <1>2 DEF Held
<1> QED
  BY <1>1, <1>2, <1>3 DEF HeldCount

\* One holder less, or one more.
LEMMA OneLess ==
  ASSUME NEW S \in SUBSET Holders, NEW T \in SUBSET Holders, NEW h \in S, T = S \ {h}
  PROVE  Cardinality(S) = Cardinality(T) + 1 /\ Cardinality(T) \in Nat
<1>1. IsFiniteSet(S) /\ Cardinality(S) \in Nat /\ Cardinality(T) \in Nat
  BY HeldFinite
<1>2. Cardinality(S \ {h}) = Cardinality(S) - 1
  BY <1>1, FS_RemoveElement
<1> QED
  BY <1>1, <1>2

-----------------------------------------------------------------------------
(* What the lower part of the stack keeps through a step.                  *)

\* An item below the step, where it was and what it still is.
LEMMA Below ==
  ASSUME NEW k, NEW m, Atop(k, m), NEW j \in DOMAIN ctl', j > k
  PROVE  \E i \in DOMAIN ctl :
           /\ i > m /\ j = i + k - m
           /\ ctl'[j].op = ctl[i].op /\ ctl'[j].cell = ctl[i].cell
           /\ ctl[i].op # "destructor" => ctl'[j] = ctl[i]
           /\ \A c : Weight(ctl'[j], c) = Weight(ctl[i], c)
           /\ Dismantles(ctl'[j]) <=> Dismantles(ctl[i])
<1> DEFINE i == j - k + m
<1>1. i \in DOMAIN ctl /\ Alike(ctl'[j], ctl[i])
  BY DEF Atop
<1>2. DOMAIN ctl' = 1 .. Len(ctl') /\ DOMAIN ctl = 1 .. Len(ctl)
  BY DEF Atop
<1>3. i > m /\ j = i + k - m
  <2>1. j \in Int /\ k \in Nat /\ m \in Nat
    BY <1>2 DEF Atop
  <2> QED
    BY <2>1
<1> HIDE DEF i
<1>4. /\ ctl'[j].op = ctl[i].op /\ ctl'[j].cell = ctl[i].cell
      /\ ctl[i].op # "destructor" => ctl'[j] = ctl[i]
  BY <1>1 DEF Alike
<1>5. \A c : Weight(ctl'[j], c) = Weight(ctl[i], c)
  BY <1>4 DEF Weight
<1>6. Dismantles(ctl'[j]) <=> Dismantles(ctl[i])
  BY <1>4 DEF Dismantles
<1> QED
  BY <1>1, <1>3, <1>4, <1>5, <1>6

\* The same from the old stack to the new.
LEMMA Above ==
  ASSUME NEW k, NEW m, Atop(k, m), NEW i \in DOMAIN ctl, i > m
  PROVE  /\ i + k - m \in DOMAIN ctl'
         /\ ctl'[i + k - m].op = ctl[i].op /\ ctl'[i + k - m].cell = ctl[i].cell
         /\ ctl[i].op # "destructor" => ctl'[i + k - m] = ctl[i]
         /\ \A c : Weight(ctl'[i + k - m], c) = Weight(ctl[i], c)
BY DEF Atop, Alike, Weight

\* A cell that dies below stays alone, unless something new names it.
LEMMA DyingKept ==
  ASSUME DyingAlone, NEW k, NEW m, Atop(k, m),
         NEW j \in DOMAIN ctl', j > k, Dismantles(ctl'[j]),
         \A h \in Owning' : ValueIn(h)' \in Dying => h \in Owning /\ ValueIn(h) = ValueIn(h)',
         flags.buffered' \cap Dying \subseteq flags.buffered,
         flags.collecting' \cap Dying \subseteq flags.collecting,
         ctl'[j].cell \in flags.destroying => ctl'[j].cell \in flags.destroying'
  PROVE  Alone(j)'
<1>1. PICK i \in DOMAIN ctl :
           /\ i > m /\ j = i + k - m
           /\ ctl'[j].op = ctl[i].op /\ ctl'[j].cell = ctl[i].cell
           /\ Dismantles(ctl[i])
  BY Below
<1>2. Alone(i) /\ ctl[i].cell \in Dying
  BY <1>1 DEF DyingAlone, Dying
<1>3. \A n \in DOMAIN ctl' : n > j => Weight(ctl'[n], ctl'[j].cell) = 0
  <2> SUFFICES ASSUME NEW n \in DOMAIN ctl', n > j PROVE Weight(ctl'[n], ctl'[j].cell) = 0
    OBVIOUS
  <2>1. j \in Int /\ n \in Int /\ k \in Nat /\ m \in Nat
    BY DEF Atop
  <2>2. PICK l \in DOMAIN ctl : l > m /\ n = l + k - m /\ \A c : Weight(ctl'[n], c) = Weight(ctl[l], c)
    BY <2>1, Below
  <2>3. l > i
    <3>1. l \in Int /\ i \in Int
      BY DEF Atop
    <3> QED
      BY <1>1, <2>1, <2>2, <3>1
  <2> QED
    BY <1>1, <1>2, <2>2, <2>3 DEF Alone
<1>4. \A h \in Owning' : ValueIn(h)' # ctl'[j].cell
  BY <1>1, <1>2 DEF Alone
<1>5. ctl'[j].cell \notin flags'.buffered
  BY <1>1, <1>2 DEF Alone
<1>6. ctl'[j].op # "sweep" => ctl'[j].cell \in flags'.destroying \ flags'.collecting
  BY <1>1, <1>2 DEF Alone
<1> QED
  BY <1>3, <1>4, <1>5, <1>6 DEF Alone

\* Nobody gets a reference to a cell that is being swept.
LEMMA SweptKept ==
  ASSUME SweptAlone, NEW k, NEW m, Atop(k, m),
         NEW j \in DOMAIN ctl', j > k, ctl'[j].op = "sweep",
         \A n \in 1 .. k : Weight(ctl'[n], ctl'[j].cell) = 0,
         rc'[ctl'[j].cell] = rc[ctl'[j].cell]
  PROVE  Unowned(ctl[j].cell)'
<1>1. PICK i \in DOMAIN ctl : ctl[i].op = "sweep" /\ ctl'[j].cell = ctl[i].cell
  BY Below
<1>2. Unowned(ctl[i].cell)
  BY <1>1 DEF SweptAlone
<1>3. \A n \in DOMAIN ctl' : Weight(ctl'[n], ctl'[j].cell) = 0
  <2> SUFFICES ASSUME NEW n \in DOMAIN ctl', n > k PROVE Weight(ctl'[n], ctl'[j].cell) = 0
    <3>1. \A n \in DOMAIN ctl' : n > k \/ n \in 1 .. k
      BY DEF Atop
    <3> QED
      BY <3>1
  <2>1. PICK l \in DOMAIN ctl : \A c : Weight(ctl'[n], c) = Weight(ctl[l], c)
    BY Below
  <2> QED
    BY <1>1, <1>2, <2>1 DEF Unowned
<1> QED
  BY <1>1, <1>2, <1>3 DEF Unowned

\* A new stage of a destruction is that of a cell that was not being destroyed
\* or of the topmost one.
LEMMA OnceKept ==
  ASSUME DestroyedOnce, NEW k, NEW m, Atop(k, m),
         \A j \in 1 .. k : Dismantles(ctl'[j]) =>
           \A i \in DOMAIN ctl : i > m => ~(Dismantles(ctl[i]) /\ ctl[i].cell = ctl'[j].cell),
         \A i, j \in 1 .. k : Dismantles(ctl'[i]) /\ Dismantles(ctl'[j]) /\ ctl'[i].cell = ctl'[j].cell => i = j
  PROVE  DestroyedOnce'
<1> SUFFICES ASSUME NEW a \in DOMAIN ctl', NEW b \in DOMAIN ctl',
                    Dismantles(ctl'[a]), Dismantles(ctl'[b]), ctl'[a].cell = ctl'[b].cell
             PROVE  a = b
  BY DEF DestroyedOnce, Dismantles
<1>1. \A n \in DOMAIN ctl' : n > k \/ n \in 1 .. k
  BY DEF Atop
<1>2. CASE a > k /\ b > k
  <2>1. PICK i \in DOMAIN ctl : a = i + k - m /\ ctl[i].cell = ctl'[a].cell /\ Dismantles(ctl[i])
    BY <1>2, Below
  <2>2. PICK l \in DOMAIN ctl : b = l + k - m /\ ctl[l].cell = ctl'[b].cell /\ Dismantles(ctl[l])
    BY <1>2, Below
  <2> QED
    BY <2>1, <2>2 DEF DestroyedOnce
<1>3. CASE a > k /\ b \in 1 .. k
  <2>1. PICK i \in DOMAIN ctl : i > m /\ ctl[i].cell = ctl'[a].cell /\ Dismantles(ctl[i])
    BY <1>3, Below
  <2> QED
    BY <1>3, <2>1
<1>4. CASE b > k /\ a \in 1 .. k
  <2>1. PICK i \in DOMAIN ctl : i > m /\ ctl[i].cell = ctl'[b].cell /\ Dismantles(ctl[i])
    BY <1>4, Below
  <2> QED
    BY <1>4, <2>1
<1> QED
  BY <1>1, <1>2, <1>3, <1>4

\* The top of the stack while the VM executes.
LEMMA RunningTop ==
  ASSUME Running, NEW i \in DOMAIN ctl, ctl \in Seq(Frames)
  PROVE  1 \in DOMAIN ctl /\ ctl[1].op = "destructor" /\ Work
<1>1. ctl # <<>>
  OBVIOUS
<1>2. Head(ctl).op = "destructor" /\ Head(ctl) = ctl[1]
  BY <1>1 DEF Running, Work, Top
<1> QED
  BY <1>1, <1>2 DEF Work

\* A store below goes on waiting.
LEMMA StoresKept ==
  ASSUME StoresWait, NEW k, NEW m, Atop(k, m),
         NEW j \in DOMAIN ctl', j > k, ctl'[j].op = "put",
         m = 0 => Running /\ k > 0,
         m = 1 /\ k > 0 /\ 2 \in DOMAIN ctl /\ ctl[2].op = "put" =>
           ctl'[k].cell = ctl[1].cell /\ Dismantles(ctl'[k]),
         j > 1 => ValueIn(ctl[j].holder)' = ValueIn(ctl'[j].holder),
         \A d \in (flags.collecting' \ flags.collecting) \cup (Dying' \ Dying) :
           \A n \in DOMAIN ctl : n > m => Weight(ctl[n], d) = 0,
         \A n \in 1 .. k : ctl'[n].op = "put" => ctl'[n].holder \notin Stale
  PROVE  Waits(j)'
<1>1. PICK i \in DOMAIN ctl :
           i > m /\ j = i + k - m /\ ctl'[j] = ctl[i] /\ ctl[i].op = "put"
  BY Below
<1>2. Waits(i) /\ ctl[i].holder \in Stale
  BY <1>1 DEF StoresWait, Stale
<1>3. /\ DOMAIN ctl = 1 .. Len(ctl) /\ DOMAIN ctl' = 1 .. Len(ctl') /\ k \in Nat /\ m \in {0, 1}
      /\ i \in Nat /\ j \in Nat /\ ctl \in Seq(Frames)
  BY DEF Atop
<1>4. ASSUME j > 1
      PROVE  /\ ctl'[j - 1].cell = ValueIn(ctl[j].holder)'
             /\ Dismantles(ctl'[j - 1]) \/ (j = 2 /\ ctl'[1].op = "release")
  <2>1. CASE i > m + 1
    <3>1. i - 1 \in DOMAIN ctl /\ i - 1 > m /\ (i - 1) + k - m = j - 1 /\ i > 1
      BY <1>1, <1>3, <2>1
    <3>2. /\ ctl'[j - 1].op = ctl[i - 1].op /\ ctl'[j - 1].cell = ctl[i - 1].cell
      BY <3>1, Above
    <3>3. ctl[i - 1].cell = ValueIn(ctl[i].holder)
          /\ (Dismantles(ctl[i - 1]) \/ (i = 2 /\ ctl[1].op = "release"))
      BY <1>2, <3>1 DEF Waits
    <3>4. Dismantles(ctl[i - 1])
      <4>1. CASE i = 2
        <5>1. m = 0
          BY <1>3, <2>1, <4>1
        <5>2. ctl[1].op = "destructor"
          BY <1>3, <5>1, RunningTop
        <5> QED
          BY <3>3, <5>2
      <4> QED
        BY <3>3, <4>1
    <3> QED
      BY <1>1, <1>4, <3>2, <3>3, <3>4 DEF Dismantles
  <2>2. CASE i = m + 1
    <3>1. j = k + 1 /\ k > 0
      BY <1>1, <1>3, <1>4, <2>2
    <3>2. m = 1
      <4>1. ASSUME m = 0 PROVE FALSE
        <5>1. i = 1 /\ ctl[1].op = "destructor"
          BY <1>3, <2>2, <4>1, RunningTop
        <5> QED
          BY <1>1, <5>1
      <4> QED
        BY <1>3, <4>1
    <3>3. i = 2 /\ j - 1 = k
      BY <1>3, <2>2, <3>1, <3>2
    <3>4. ctl'[k].cell = ctl[1].cell /\ Dismantles(ctl'[k])
      BY <1>1, <3>1, <3>2, <3>3
    <3>5. ctl[1].cell = ValueIn(ctl[i].holder)
      <4>1. i > 1 /\ i - 1 = 1
        BY <3>3
      <4>2. ctl[i - 1].cell = ValueIn(ctl[i].holder)
        BY <1>2, <4>1 DEF Waits
      <4> QED
        BY <4>1, <4>2
    <3> QED
      BY <1>1, <1>4, <3>3, <3>4, <3>5
  <2> QED
    BY <1>1, <1>3, <2>1, <2>2
<1>5. ASSUME ctl'[j].holder \notin Vars
      PROVE  /\ j + 1 \in DOMAIN ctl' /\ ctl'[j + 1] = Release(ctl'[j].holder[1])
             /\ ctl'[j].holder[1] \notin flags'.collecting
  <2>1. /\ i + 1 \in DOMAIN ctl /\ ctl[i + 1] = Release(ctl[i].holder[1])
        /\ ctl[i].holder[1] \notin flags.collecting
    BY <1>1, <1>2, <1>5 DEF Waits
  <2>2. i + 1 > m /\ (i + 1) + k - m = j + 1
    BY <1>1, <1>3
  <2>3. j + 1 \in DOMAIN ctl' /\ ctl'[j + 1] = ctl[i + 1]
    <3>1. ctl[i + 1].op # "destructor"
      BY <2>1 DEF Release
    <3> QED
      BY <2>1, <2>2, <3>1, Above
  <2>4. Weight(ctl[i + 1], ctl[i].holder[1]) = 1
    BY <2>1 DEF Release, Weight
  <2> QED
    BY <1>1, <2>1, <2>2, <2>3, <2>4
<1>6. ctl'[j].cell \notin flags'.collecting \cup Dying'
  <2>1. ctl[i].cell \notin flags.collecting \cup Dying
    BY <1>2 DEF Waits
  <2>2. Weight(ctl[i], ctl[i].cell) = 1
    BY <1>1 DEF Weight
  <2> QED
    BY <1>1, <2>1, <2>2
<1>7. \A n \in DOMAIN ctl' : ctl'[n].op = "put" /\ ctl'[n].holder = ctl'[j].holder => j = n
  <2> SUFFICES ASSUME NEW n \in DOMAIN ctl', ctl'[n].op = "put", ctl'[n].holder = ctl'[j].holder
               PROVE  j = n
    OBVIOUS
  <2>1. CASE n > k
    <3>1. PICK l \in DOMAIN ctl : n = l + k - m /\ ctl'[n] = ctl[l] /\ ctl[l].op = "put"
      BY <2>1, Below
    <3>2. i = l
      BY <1>1, <1>2, <3>1 DEF Waits
    <3> QED
      BY <1>1, <3>1, <3>2
  <2>2. CASE n \in 1 .. k
    BY <1>1, <1>2, <2>2
  <2> QED
    BY <1>3, <2>1, <2>2
<1> QED
  BY <1>4, <1>5, <1>6, <1>7 DEF Waits

\* Nothing comes on top of a guard that is about to go.
LEMMA UnguardKept ==
  ASSUME UnguardedAtOnce, NEW k, NEW m, Atop(k, m),
         NEW j \in DOMAIN ctl', j > k, ctl'[j].op = "unguard",
         m = 0 => Running,
         m = 1 /\ k > 0 => \A c : 2 \in DOMAIN ctl /\ ctl[2] = Unguard(c) => ctl[1] # Release(c)
  PROVE  j = 1
<1>1. PICK i \in DOMAIN ctl : i > m /\ j = i + k - m /\ ctl[i].op = "unguard"
  BY Below
<1>2. /\ k \in Nat /\ m \in {0, 1} /\ i \in Nat /\ ctl \in Seq(Frames)
  BY DEF Atop
<1>3. i = 1 \/ (i = 2 /\ ctl[1] = Release(ctl[i].cell))
  BY <1>1 DEF UnguardedAtOnce
<1>4. CASE m = 0
  <2>1. ctl[1].op = "destructor"
    BY <1>2, <1>4, RunningTop
  <2> QED
    BY <1>1, <1>3, <2>1 DEF Release
<1>5. CASE m = 1
  <2>1. i = 2 /\ ctl[1] = Release(ctl[2].cell)
    BY <1>1, <1>2, <1>3, <1>5
  <2>2. ctl[2] = Unguard(ctl[2].cell)
    <3>1. ctl[2] \in Frames /\ ctl[2].op = "unguard"
      BY <1>1, <1>2, <2>1
    <3> QED
      BY <3>1, FrameKinds
  <2>3. k = 0
    BY <1>2, <1>5, <2>1, <2>2
  <2> QED
    BY <1>1, <1>5, <2>1, <2>3
<1> QED
  BY <1>2, <1>4, <1>5

\* A collected cell keeps the reference of the collector.
LEMMA ClearKept ==
  ASSUME CollectedApart, NEW k, NEW m, Atop(k, m),
         NEW j \in DOMAIN ctl', j > k, ctl'[j].op = "clear",
         ctl'[j].cell \in flags.collecting => ctl'[j].cell \in flags.collecting'
  PROVE  /\ ctl'[j].cell \in flags.collecting'
         /\ \E n \in DOMAIN ctl' : n > j /\ ctl'[n] = Release(ctl'[j].cell)
<1>1. PICK i \in DOMAIN ctl : i > m /\ j = i + k - m /\ ctl'[j] = ctl[i] /\ ctl[i].op = "clear"
  BY Below
<1>2. PICK l \in DOMAIN ctl : l > i /\ ctl[l] = Release(ctl[i].cell)
  BY <1>1 DEF CollectedApart
<1>3. k \in Nat /\ m \in {0, 1} /\ i \in Nat /\ l \in Nat
  BY DEF Atop
<1>4. l > m /\ l + k - m > j
  BY <1>1, <1>2, <1>3
<1>5. l + k - m \in DOMAIN ctl' /\ ctl'[l + k - m] = ctl[l]
  <2>1. ctl[l].op # "destructor"
    BY <1>2 DEF Release
  <2> QED
    BY <1>4, <2>1, Above
<1>6. ctl[i].cell \in flags.collecting
  BY <1>1 DEF CollectedApart
<1> QED
  BY <1>1, <1>2, <1>4, <1>5, <1>6

-----------------------------------------------------------------------------
(* The sets the stack stands for.                                          *)

\* A step that neither begins nor ends a store.
LEMMA StaleSame ==
  ASSUME NEW k, NEW m, Atop(k, m),
         m = 1 => ctl[1].op # "put",
         \A n \in 1 .. k : ctl'[n].op # "put"
  PROVE  Stale' = Stale
<1>1. \A n \in DOMAIN ctl' : n > k \/ n \in 1 .. k
  BY DEF Atop
<1>2. \A i \in DOMAIN ctl : i > m \/ (i = 1 /\ m = 1)
  BY DEF Atop
<1>3. ASSUME NEW n \in DOMAIN ctl', ctl'[n].op = "put"
      PROVE  \E i \in DOMAIN ctl : ctl[i].op = "put" /\ ctl[i].holder = ctl'[n].holder
  <2>1. n > k
    BY <1>1, <1>3
  <2>2. PICK i \in DOMAIN ctl : ctl'[n].op = ctl[i].op /\ (ctl[i].op # "destructor" => ctl'[n] = ctl[i])
    BY <2>1, Below
  <2> QED
    BY <1>3, <2>2
<1>4. ASSUME NEW i \in DOMAIN ctl, ctl[i].op = "put"
      PROVE  \E n \in DOMAIN ctl' : ctl'[n].op = "put" /\ ctl'[n].holder = ctl[i].holder
  <2>1. i > m
    BY <1>2, <1>4
  <2>2. i + k - m \in DOMAIN ctl' /\ ctl'[i + k - m] = ctl[i]
    BY <1>4, <2>1, Above
  <2> QED
    BY <1>4, <2>2
<1> QED
  BY <1>3, <1>4 DEF Stale

\* The slots a sweep has passed.
LEMMA SweptIs ==
  \A h : h \in Swept <=>
    \E i \in DOMAIN ctl : ctl[i].op = "sweep" /\ h \in {ctl[i].cell} \X (1 .. ctl[i].at - 1)
BY DEF Swept

\* A step at most begins a sweep.
LEMMA SweptSame ==
  ASSUME NEW k, NEW m, Atop(k, m),
         m = 1 => ctl[1].op # "sweep",
         \A n \in 1 .. k : ctl'[n].op = "sweep" => ctl'[n].at = 1
  PROVE  Swept' = Swept
<1>1. \A n \in DOMAIN ctl' : n > k \/ n \in 1 .. k
  BY DEF Atop
<1>2. \A i \in DOMAIN ctl : i > m \/ (i = 1 /\ m = 1)
  BY DEF Atop
<1>3. ASSUME NEW n \in DOMAIN ctl', ctl'[n].op = "sweep",
             NEW h \in {ctl'[n].cell} \X (1 .. ctl'[n].at - 1)
      PROVE  h \in Swept
  <2>1. CASE n > k
    <3>1. PICK i \in DOMAIN ctl : ctl'[n].op = ctl[i].op /\ (ctl[i].op # "destructor" => ctl'[n] = ctl[i])
      BY <2>1, Below
    <3> QED
      BY <1>3, <3>1, SweptIs
  <2>2. CASE n \in 1 .. k
    <3>1. 1 .. ctl'[n].at - 1 = {}
      BY <1>3, <2>2
    <3> QED
      BY <1>3, <3>1
  <2> QED
    BY <1>1, <2>1, <2>2
<1>4. ASSUME NEW i \in DOMAIN ctl, ctl[i].op = "sweep",
             NEW h \in {ctl[i].cell} \X (1 .. ctl[i].at - 1)
      PROVE  \E n \in DOMAIN ctl' : ctl'[n].op = "sweep" /\ h \in {ctl'[n].cell} \X (1 .. ctl'[n].at - 1)
  <2>1. i > m
    BY <1>2, <1>4
  <2>2. i + k - m \in DOMAIN ctl' /\ ctl'[i + k - m] = ctl[i]
    BY <1>4, <2>1, Above
  <2> QED
    BY <1>4, <2>2
<1>5. \A h : h \in Swept' <=>
        \E n \in DOMAIN ctl' : ctl'[n].op = "sweep" /\ h \in {ctl'[n].cell} \X (1 .. ctl'[n].at - 1)
  BY DEF Swept
<1>6. \A h : h \in Swept' => h \in Swept
  BY <1>3, <1>5
<1>7. \A h : h \in Swept => h \in Swept'
  BY <1>4, <1>5, SweptIs
<1> QED
  BY <1>6, <1>7

\* The cells that die after a step.
LEMMA DyingAfter ==
  ASSUME NEW k, NEW m, Atop(k, m)
  PROVE  \A d \in Dying' : d \in Dying \/ \E n \in 1 .. k : Dismantles(ctl'[n]) /\ ctl'[n].cell = d
<1> SUFFICES ASSUME NEW n \in DOMAIN ctl', Dismantles(ctl'[n]), n > k
             PROVE  ctl'[n].cell \in Dying
  <2>1. \A n \in DOMAIN ctl' : n > k \/ n \in 1 .. k
    BY DEF Atop
  <2>2. \A d \in Dying' : \E n \in DOMAIN ctl' : Dismantles(ctl'[n]) /\ d = ctl'[n].cell
    BY DEF Dying, Dismantles
  <2> QED
    BY <2>1, <2>2
<1>1. PICK i \in DOMAIN ctl : ctl'[n].cell = ctl[i].cell /\ Dismantles(ctl[i])
  BY Below
<1> QED
  BY <1>1 DEF Dying

\* A step of the C code or of the program: what it does above the items that
\* stay, and what it may not do to them.
LEMMA StepKeeps ==
  ASSUME HeapInv, NEW k, NEW m, Atop(k, m), m = 0 => Running /\ k > 0,
         \A h \in Owning' : ValueIn(h)' \in live' \cup {Null},
         \A h \in Owning' : ValueIn(h)' \in Dying => h \in Owning /\ ValueIn(h) = ValueIn(h)',
         \A h \in Owning' : ValueIn(h)' \in flags'.collecting => h \notin Vars /\ h[1] \in flags'.collecting,
         flags'.collecting \subseteq live' \ flags'.buffered,
         flags'.buffered \cap Dying \subseteq flags.buffered,
         flags'.collecting \cap Dying \subseteq flags.collecting,
         \A i \in DOMAIN ctl : i > m =>
           /\ ctl[i].cell \in live' \cup {Null}
           /\ Dismantles(ctl[i]) /\ ctl[i].cell \in flags.destroying => ctl[i].cell \in flags'.destroying
           /\ ctl[i].op = "clear" /\ ctl[i].cell \in flags.collecting => ctl[i].cell \in flags'.collecting
           /\ ctl[i].op = "sweep" => rc'[ctl[i].cell] = rc[ctl[i].cell]
           /\ ctl[i].op = "put" /\ i + k - m > 1 => \A h : h = ctl[i].holder => ValueIn(h)' = ValueIn(h)
           /\ \A d \in flags'.collecting : d \notin flags.collecting => Weight(ctl[i], d) = 0,
         \A n \in 1 .. k :
           /\ ctl'[n].cell \in live' \cup {Null}
           /\ ctl'[n].op = "clear" =>
                /\ ctl'[n].cell \in flags'.collecting
                /\ \E l \in DOMAIN ctl' : l > n /\ ctl'[l] = Release(ctl'[n].cell)
           /\ ctl'[n].op = "unguard" => n = 1 \/ (n = 2 /\ ctl'[1] = Release(ctl'[n].cell))
           /\ ctl'[n].op = "put" => Waits(n)' /\ ctl'[n].holder \notin Stale
           /\ ctl'[n].op = "sweep" => Unowned(ctl[n].cell)'
           /\ Dismantles(ctl'[n]) =>
                /\ Alone(n)'
                /\ \A i \in DOMAIN ctl :
                     i > m => Weight(ctl[i], ctl'[n].cell) = 0
                              /\ ~(Dismantles(ctl[i]) /\ ctl[i].cell = ctl'[n].cell)
                /\ \A l \in 1 .. k : Dismantles(ctl'[l]) => l = n
           /\ \A i \in DOMAIN ctl : i > m /\ ctl[i].op = "sweep" => Weight(ctl'[n], ctl[i].cell) = 0,
         m = 1 /\ k > 0 =>
           /\ 2 \in DOMAIN ctl /\ ctl[2].op = "put" => ctl'[k].cell = ctl[1].cell /\ Dismantles(ctl'[k])
           /\ \A c : 2 \in DOMAIN ctl /\ ctl[2] = Unguard(c) => ctl[1] # Release(c)
  PROVE  /\ NoDangling' /\ DestroyedOnce' /\ DyingAlone' /\ SweptAlone'
         /\ UnguardedAtOnce' /\ StoresWait' /\ CollectedApart'
<1>2. \A n \in DOMAIN ctl' : n > k \/ n \in 1 .. k
  BY DEF Atop
<1>3. NoDangling'
  <2>1. \A n \in DOMAIN ctl' : ctl'[n].cell \in live' \cup {Null}
    <3> SUFFICES ASSUME NEW n \in DOMAIN ctl', n > k PROVE ctl'[n].cell \in live' \cup {Null}
      BY <1>2
    <3>1. PICK i \in DOMAIN ctl : i > m /\ ctl'[n].cell = ctl[i].cell
      BY Below
    <3> QED
      BY <3>1
  <2> QED
    BY <2>1 DEF NoDangling
<1>4. DestroyedOnce'
  BY OnceKept DEF HeapInv
<1>5. DyingAlone'
  <2> SUFFICES ASSUME NEW j \in DOMAIN ctl', Dismantles(ctl'[j]) PROVE Alone(j)'
    BY DEF DyingAlone, Dismantles
  <2>1. CASE j > k
    <3>1. DyingAlone
      BY DEF HeapInv
    <3>2. ctl'[j].cell \in flags.destroying => ctl'[j].cell \in flags'.destroying
      <4>1. PICK i \in DOMAIN ctl : i > m /\ ctl'[j].cell = ctl[i].cell /\ Dismantles(ctl[i])
        BY <2>1, Below
      <4> QED
        BY <4>1
    <3> QED
      BY <2>1, <3>1, <3>2, DyingKept
  <2> QED
    BY <1>2, <2>1
<1>6. SweptAlone'
  <2> SUFFICES ASSUME NEW j \in DOMAIN ctl', ctl'[j].op = "sweep" PROVE Unowned(ctl[j].cell)'
    BY DEF SweptAlone
  <2>1. CASE j > k
    <3>1. PICK i \in DOMAIN ctl : i > m /\ ctl[i].op = "sweep" /\ ctl[i].cell = ctl'[j].cell
      BY <2>1, Below
    <3>2. SweptAlone
      BY DEF HeapInv
    <3>3. (\A n \in 1 .. k : Weight(ctl'[n], ctl'[j].cell) = 0) /\ rc'[ctl'[j].cell] = rc[ctl'[j].cell]
      BY <3>1
    <3> QED
      BY <2>1, <3>2, <3>3, SweptKept
  <2> QED
    BY <1>2, <2>1
<1>7. UnguardedAtOnce'
  <2> SUFFICES ASSUME NEW j \in DOMAIN ctl', ctl'[j].op = "unguard"
               PROVE  j = 1 \/ (j = 2 /\ ctl'[1] = Release(ctl'[j].cell))
    BY DEF UnguardedAtOnce, Release
  <2>1. CASE j > k
    <3>1. UnguardedAtOnce
      BY DEF HeapInv
    <3> QED
      BY <2>1, <3>1, UnguardKept
  <2> QED
    BY <1>2, <2>1
<1>8. StoresWait'
  <2> SUFFICES ASSUME NEW j \in DOMAIN ctl', ctl'[j].op = "put", j > k PROVE Waits(j)'
    BY <1>2 DEF StoresWait
  <2>2. \A d \in (flags'.collecting \ flags.collecting) \cup (Dying' \ Dying) :
          \A i \in DOMAIN ctl : i > m => Weight(ctl[i], d) = 0
    BY DyingAfter
  <2>3. StoresWait
    BY DEF HeapInv
  <2>4. j > 1 => ValueIn(ctl[j].holder)' = ValueIn(ctl'[j].holder)
    <3>1. PICK i \in DOMAIN ctl : i > m /\ j = i + k - m /\ ctl'[j] = ctl[i] /\ ctl[i].op = "put"
      BY Below
    <3>2. PICK h : h = ctl[i].holder
      OBVIOUS
    <3>3. j > 1 => ValueIn(h)' = ValueIn(h)
      BY <3>1, <3>2
    <3>4. ctl'[j].holder = h
      BY <3>1, <3>2
    <3>5. ValueIn(ctl[j].holder)' = ValueIn(h)'
      BY <3>4 DEF ValueIn
    <3> QED
      BY <3>3, <3>4, <3>5
  <2> QED
    BY <2>2, <2>3, <2>4, StoresKept
<1>9. CollectedApart'
  <2>3. ASSUME NEW j \in DOMAIN ctl', ctl'[j].op = "clear"
        PROVE  /\ ctl'[j].cell \in flags'.collecting
               /\ \E n \in DOMAIN ctl' : n > j /\ ctl'[n] = Release(ctl'[j].cell)
    <3>1. CASE j > k
      <4>1. CollectedApart
        BY DEF HeapInv
      <4>2. ctl'[j].cell \in flags.collecting => ctl'[j].cell \in flags'.collecting
        <5>1. PICK i \in DOMAIN ctl : i > m /\ ctl'[j].cell = ctl[i].cell /\ ctl[i].op = "clear"
          BY <2>3, <3>1, Below
        <5> QED
          BY <5>1
      <4> QED
        BY <2>3, <3>1, <4>1, <4>2, ClearKept
    <3> QED
      BY <1>2, <2>3, <3>1
  <2> QED
    BY <2>3 DEF CollectedApart, Release
<1> QED
  BY <1>3, <1>4, <1>5, <1>6, <1>7, <1>8, <1>9

\* A step of the C code that stores nothing and frees nothing.
LEMMA QuietStep ==
  ASSUME HeapInv, NEW k, Atop(k, 1), UNCHANGED <<live, var, slot>>, Owning' \subseteq Owning,
         ctl[1].op # "put",
         flags'.collecting = flags.collecting,
         flags.destroying \subseteq flags'.destroying,
         flags'.buffered \cap flags.collecting = {},
         flags'.buffered \cap Dying \subseteq flags.buffered,
         \A n \in 1 .. k :
           /\ ctl'[n].cell \in live \cup {Null} /\ ctl'[n].op # "put"
           /\ ctl'[n].op = "clear" =>
                /\ ctl'[n].cell \in flags.collecting
                /\ \E l \in DOMAIN ctl' : l > n /\ ctl'[l] = Release(ctl'[n].cell)
           /\ ctl'[n].op = "unguard" => n = 1 \/ (n = 2 /\ ctl'[1] = Release(ctl'[n].cell))
           /\ ctl'[n].op = "sweep" => Unowned(ctl[n].cell)'
           /\ Dismantles(ctl'[n]) =>
                /\ Alone(n)'
                /\ \A i \in DOMAIN ctl :
                     i > 1 => Weight(ctl[i], ctl'[n].cell) = 0
                              /\ ~(Dismantles(ctl[i]) /\ ctl[i].cell = ctl'[n].cell)
                /\ \A l \in 1 .. k : Dismantles(ctl'[l]) => l = n
           /\ \A i \in DOMAIN ctl : i > 1 /\ ctl[i].op = "sweep" => Weight(ctl'[n], ctl[i].cell) = 0,
         \A i \in DOMAIN ctl : i > 1 /\ ctl[i].op = "sweep" => rc'[ctl[i].cell] = rc[ctl[i].cell],
         k > 0 /\ 2 \in DOMAIN ctl /\ ctl[2].op = "put" => ctl'[k].cell = ctl[1].cell /\ Dismantles(ctl'[k]),
         k > 0 => \A c : 2 \in DOMAIN ctl /\ ctl[2] = Unguard(c) => ctl[1] # Release(c)
  PROVE  /\ NoDangling' /\ DestroyedOnce' /\ DyingAlone' /\ SweptAlone'
         /\ UnguardedAtOnce' /\ StoresWait' /\ CollectedApart' /\ FreeAreBlank'
<1>1. \A h : ValueIn(h)' = ValueIn(h)
  BY DEF ValueIn
<1>2. \A h \in Owning' : /\ ValueIn(h)' \in live' \cup {Null}
                         /\ h \in Owning /\ ValueIn(h) = ValueIn(h)'
                         /\ ValueIn(h)' \in flags'.collecting => h \notin Vars /\ h[1] \in flags'.collecting
  BY <1>1 DEF HeapInv, NoDangling, CollectedApart
<1>3. flags'.collecting \subseteq live' \ flags'.buffered /\ flags'.collecting \cap Dying \subseteq flags.collecting
  BY DEF HeapInv, CollectedApart
<1>4. \A i \in DOMAIN ctl : ctl[i].cell \in live' \cup {Null}
  BY DEF HeapInv, NoDangling
<1>5. /\ NoDangling' /\ DestroyedOnce' /\ DyingAlone' /\ SweptAlone'
      /\ UnguardedAtOnce' /\ StoresWait' /\ CollectedApart'
  BY <1>1, <1>2, <1>3, <1>4, StepKeeps
<1>6. FreeAreBlank'
  BY DEF HeapInv, FreeAreBlank
<1> QED
  BY <1>5, <1>6

-----------------------------------------------------------------------------
(* Releases.                                                               *)

LEMMA ExactNext ==
  RefCountExact' <=> \A c \in live' : rc'[c] = RcMax \/ rc'[c] = HeldCount(c)' + FrameCount(ctl', c)
BY DEF RefCountExact, Owners, HeldCount, Held, FrameCount

\* The topmost work item.
LEMMA TopIs ==
  ASSUME TypeOK, NEW op, Top(op)
  PROVE  /\ ctl \in Seq(Frames) /\ ctl # <<>> /\ 1 \in DOMAIN ctl
         /\ Head(ctl) = ctl[1] /\ ctl[1] \in Frames /\ ctl[1].op = op
BY DEF TypeOK, Top, Work

\* pphp_gc_buffer() keeps the buffer and the flags in step.
LEMMA BufferKeeps ==
  ASSUME TypeOK, BufferMatchesFlags, NEW c \in live, NEW n, Buffer(c, n), live' = live
  PROVE  /\ BufferMatchesFlags'
         /\ candidates' \in Seq(Cells) /\ Len(candidates') <= BufferMax
         /\ flags' \in [buffered : SUBSET Cells, collecting : SUBSET Cells, destroying : SUBSET Cells]
         /\ requested' \in BOOLEAN
         /\ flags'.collecting = flags.collecting /\ flags'.destroying = flags.destroying
         /\ \A d \in flags'.buffered : d \in flags.buffered
                                       \/ (d = c /\ c \notin flags.collecting \cup flags.destroying)
<1>1. /\ candidates \in Seq(Cells) /\ Len(candidates) <= BufferMax /\ c \in Cells
      /\ flags \in [buffered : SUBSET Cells, collecting : SUBSET Cells, destroying : SUBSET Cells]
      /\ requested \in BOOLEAN
  BY DEF TypeOK
<1>2. /\ \A i, j \in DOMAIN candidates : candidates[i] = candidates[j] => i = j
      /\ Range(candidates) = flags.buffered /\ flags.buffered \subseteq live
  BY DEF BufferMatchesFlags, IsInjective
<1>3. CASE candidates' = candidates /\ flags' = flags /\ requested' \in BOOLEAN
  BY <1>1, <1>2, <1>3 DEF BufferMatchesFlags, IsInjective
<1>4. CASE /\ c \notin flags.buffered \cup flags.collecting \cup flags.destroying
           /\ Len(candidates) < BufferMax
           /\ candidates' = Append(candidates, c)
           /\ flags' = [flags EXCEPT !.buffered = @ \cup {c}]
           /\ requested' \in BOOLEAN
  <2>1. /\ candidates' \in Seq(Cells) /\ Len(candidates') = Len(candidates) + 1
        /\ Len(candidates) \in Nat /\ DOMAIN candidates' = 1 .. Len(candidates) + 1
        /\ DOMAIN candidates = 1 .. Len(candidates)
        /\ \A i \in 1 .. Len(candidates) : candidates'[i] = candidates[i]
        /\ candidates'[Len(candidates) + 1] = c
    BY <1>1, <1>4
  <2>2. flags'.buffered = flags.buffered \cup {c} /\ flags'.collecting = flags.collecting
        /\ flags'.destroying = flags.destroying
        /\ flags' \in [buffered : SUBSET Cells, collecting : SUBSET Cells, destroying : SUBSET Cells]
    BY <1>1, <1>4
  <2>3. \A i \in 1 .. Len(candidates) : candidates[i] \in flags.buffered
    BY <1>2, <2>1 DEF Range
  <2>4. \A i, j \in DOMAIN candidates' : candidates'[i] = candidates'[j] => i = j
    BY <1>2, <1>4, <2>1, <2>3
  <2>5. Range(candidates') = flags'.buffered
    <3>1. \A d \in flags.buffered : \E i \in DOMAIN candidates : candidates[i] = d
      BY <1>2 DEF Range
    <3>2. \A d \in flags'.buffered : \E i \in DOMAIN candidates' : candidates'[i] = d
      BY <2>1, <2>2, <3>1
    <3>3. \A i \in DOMAIN candidates' : candidates'[i] \in flags'.buffered
      BY <2>1, <2>2, <2>3
    <3> QED
      BY <3>2, <3>3 DEF Range
  <2>6. flags'.buffered \subseteq live'
    BY <1>2, <2>2
  <2>7. Len(candidates') <= BufferMax
    BY <1>4, <2>1, Given
  <2> QED
    BY <1>4, <2>1, <2>2, <2>4, <2>5, <2>6, <2>7 DEF BufferMatchesFlags, IsInjective
<1> QED
  BY <1>1, <1>3, <1>4 DEF Buffer, gcVars

\* A release of a cell that no sweep and no destructor below knows of.
LEMMA ReleaseTop ==
  ASSUME HeapInv, Top("release"), ctl[1].cell # Null
  PROVE  /\ ctl[1].cell \in live /\ ctl[1].cell \in Cells /\ ctl[1] = Release(ctl[1].cell)
         /\ Weight(ctl[1], ctl[1].cell) = 1
         /\ \A i \in DOMAIN ctl : ctl[i].op = "sweep" => ctl[i].cell # ctl[1].cell
<1>1. ctl[1] \in Frames /\ ctl[1].op = "release" /\ 1 \in DOMAIN ctl
  BY TopIs DEF HeapInv
<1>2. Weight(ctl[1], ctl[1].cell) = 1
  BY <1>1 DEF Weight
<1> QED
  BY <1>1, <1>2, FrameKinds DEF HeapInv, NoDangling, SweptAlone, Unowned

\* pv_release() of nothing.
LEMMA ReleaseNothingKeeps ==
  ASSUME HeapInv, ReleaseNothing
  PROVE  HeapInv'
<1>1. /\ ctl \in Seq(Frames) /\ ctl # <<>> /\ 1 \in DOMAIN ctl /\ Head(ctl) = ctl[1]
      /\ ctl[1] \in Frames /\ ctl[1].op = "release"
  BY TopIs DEF HeapInv, ReleaseNothing
<1>2. Become(<<>>)
  BY DEF ReleaseNothing
<1>3. /\ Atop(0, 1)
      /\ \A c : FrameCount(ctl', c) = FrameCount(ctl, c) - Weight(ctl[1], c) /\ FrameCount(ctl, c) \in Nat
  BY <1>1, <1>2, AtopPop
<1>4. UNCHANGED <<live, rc, var, slot, collecting, candidates, requested, flags>>
  BY DEF ReleaseNothing, gcVars
<1>5. Stale' = Stale /\ Swept' = Swept
  BY <1>1, <1>3, StaleSame, SweptSame
<1>6. Owning' = Owning /\ \A c : HeldCount(c)' = HeldCount(c)
  BY <1>4, <1>5, HeldStays
<1>7. /\ NoDangling' /\ DestroyedOnce' /\ DyingAlone' /\ SweptAlone'
      /\ UnguardedAtOnce' /\ StoresWait' /\ CollectedApart' /\ FreeAreBlank'
  <2>1. flags'.buffered \cap flags.collecting = {}
    BY <1>4 DEF HeapInv, CollectedApart
  <2> QED
    BY <1>1, <1>3, <1>4, <1>6, <2>1, QuietStep
<1>8. TypeOK'
  BY <1>3, <1>4 DEF HeapInv, TypeOK, Atop
<1>9. RefCountExact'
  <2> SUFFICES ASSUME NEW c \in live, rc[c] # RcMax
               PROVE  rc[c] = HeldCount(c)' + FrameCount(ctl', c)
    BY <1>4, ExactNext
  <2>1. rc[c] = HeldCount(c) + FrameCount(ctl, c)
    BY ExactIs DEF HeapInv
  <2>2. Weight(ctl[1], c) = 0
    <3> SUFFICES ASSUME ctl[1].cell = c PROVE FALSE
      BY DEF Weight
    <3>1. rc[c] = 0
      <4>1. c # Null
        BY Given DEF HeapInv, TypeOK
      <4> QED
        BY <1>1, <4>1 DEF ReleaseNothing, Count
    <3>2. Weight(ctl[1], c) = 1 /\ FrameCount(ctl', c) \in Nat /\ HeldCount(c) \in Nat
      BY <1>1, <1>3, FrameRefsFinite, OwningHolders DEF Weight, Atop, HeapInv
    <3> QED
      BY <1>3, <2>1, <3>1, <3>2
  <2> QED
    BY <1>3, <1>6, <2>1, <2>2
<1>10. BufferMatchesFlags'
  BY <1>4 DEF HeapInv, BufferMatchesFlags
<1> QED
  BY <1>7, <1>8, <1>9, <1>10 DEF HeapInv

\* pv_release() of a shared cell.
LEMMA ReleaseSharedKeeps ==
  ASSUME HeapInv, ReleaseShared
  PROVE  HeapInv'
<1> DEFINE c == ctl[1].cell
<1>1. /\ ctl \in Seq(Frames) /\ ctl # <<>> /\ 1 \in DOMAIN ctl /\ Head(ctl) = ctl[1]
      /\ ctl[1] \in Frames /\ ctl[1].op = "release" /\ Top("release")
  BY TopIs DEF HeapInv, ReleaseShared
<1>2. /\ Become(<<>>) /\ rc[c] \in 2 .. RcMax - 1 /\ c # Null /\ rc' = [rc EXCEPT ![c] = @ - 1]
      /\ Buffer(c, rc[c] - 1) /\ UNCHANGED <<live, slot, var, collecting>>
  BY <1>1, Given DEF ReleaseShared, Count
<1>3. /\ Atop(0, 1)
      /\ \A d : FrameCount(ctl', d) = FrameCount(ctl, d) - Weight(ctl[1], d) /\ FrameCount(ctl, d) \in Nat
  BY <1>1, <1>2, AtopPop
<1>4. /\ c \in live /\ c \in Cells /\ Weight(ctl[1], c) = 1
      /\ \A i \in DOMAIN ctl : ctl[i].op = "sweep" => ctl[i].cell # c
  BY <1>1, <1>2, ReleaseTop
<1> HIDE DEF c
<1>5. /\ BufferMatchesFlags'
      /\ candidates' \in Seq(Cells) /\ Len(candidates') <= BufferMax
      /\ flags' \in [buffered : SUBSET Cells, collecting : SUBSET Cells, destroying : SUBSET Cells]
      /\ requested' \in BOOLEAN
      /\ flags'.collecting = flags.collecting /\ flags'.destroying = flags.destroying
      /\ \A d \in flags'.buffered : d \in flags.buffered
                                    \/ (d = c /\ c \notin flags.collecting \cup flags.destroying)
  BY <1>2, <1>4, BufferKeeps DEF HeapInv
<1>6. Stale' = Stale /\ Swept' = Swept
  BY <1>1, <1>3, StaleSame, SweptSame
<1>7. Owning' = Owning /\ \A d : HeldCount(d)' = HeldCount(d)
  BY <1>2, <1>6, HeldStays
<1>8. /\ NoDangling' /\ DestroyedOnce' /\ DyingAlone' /\ SweptAlone'
      /\ UnguardedAtOnce' /\ StoresWait' /\ CollectedApart' /\ FreeAreBlank'
  <2>1. flags'.buffered \cap flags.collecting = {}
    BY <1>5 DEF HeapInv, CollectedApart
  <2>2. flags'.buffered \cap Dying \subseteq flags.buffered
    <3> SUFFICES ASSUME c \in Dying, c \notin flags.destroying PROVE FALSE
      BY <1>5
    <3>1. PICK i \in DOMAIN ctl : Dismantles(ctl[i]) /\ ctl[i].cell = c
      BY DEF Dying
    <3>2. ctl[i].op # "sweep" => c \in flags.destroying
      BY <3>1 DEF HeapInv, DyingAlone, Alone
    <3> QED
      BY <1>4, <3>1, <3>2
  <2>3. \A i \in DOMAIN ctl : ctl[i].op = "sweep" => rc'[ctl[i].cell] = rc[ctl[i].cell]
    BY <1>2, <1>4 DEF HeapInv, TypeOK
  <2> QED
    BY <1>1, <1>2, <1>3, <1>5, <1>7, <2>1, <2>2, <2>3, QuietStep
<1>9. TypeOK'
  <2>1. rc' \in [Cells -> 0 .. RcMax]
    BY <1>2, <1>4, Given DEF HeapInv, TypeOK
  <2> QED
    BY <1>2, <1>3, <1>5, <2>1 DEF HeapInv, TypeOK, Atop
<1>10. RefCountExact'
  <2> SUFFICES ASSUME NEW d \in live', rc'[d] # RcMax
               PROVE  rc'[d] = HeldCount(d)' + FrameCount(ctl', d)
    BY ExactNext
  <2>1. d \in live /\ d \in Cells /\ rc[d] \in 0 .. RcMax /\ rc[c] \in 0 .. RcMax
    BY <1>2, <1>4 DEF HeapInv, TypeOK
  <2>2. CASE d = c
    <3>1. rc[c] = HeldCount(c) + FrameCount(ctl, c)
      BY <1>2, <1>4, ExactIs, Given DEF HeapInv
    <3>2. rc'[c] = rc[c] - 1
      BY <1>2, <1>4 DEF HeapInv, TypeOK
    <3>3. HeldCount(c) \in Nat
      BY OwningHolders DEF HeapInv
    <3> QED
      BY <1>3, <1>4, <1>7, <2>2, <3>1, <3>2, <3>3
  <2>3. CASE d # c
    <3>1. rc'[d] = rc[d]
      BY <1>2, <2>1, <2>3 DEF HeapInv, TypeOK
    <3>2. rc[d] = HeldCount(d) + FrameCount(ctl, d)
      BY <2>1, <3>1, ExactIs DEF HeapInv
    <3>3. Weight(ctl[1], d) = 0
      BY <2>3 DEF Weight, c
    <3>4. HeldCount(d) \in Nat
      BY OwningHolders DEF HeapInv
    <3> QED
      BY <1>3, <1>7, <3>1, <3>2, <3>3, <3>4
  <2> QED
    BY <2>2, <2>3
<1> QED
  BY <1>5, <1>8, <1>9, <1>10 DEF HeapInv

\* The end of a collection.
LEMMA CollectedKeeps ==
  ASSUME HeapInv, CollectedStep
  PROVE  HeapInv'
<1>1. /\ ctl \in Seq(Frames) /\ ctl # <<>> /\ 1 \in DOMAIN ctl /\ Head(ctl) = ctl[1]
      /\ ctl[1] \in Frames /\ ctl[1].op = "collected"
  BY TopIs DEF HeapInv, CollectedStep
<1>2. Become(<<>>) /\ collecting' = FALSE
      /\ UNCHANGED <<live, rc, var, slot, candidates, requested, flags>>
  BY DEF CollectedStep, gcVars
<1>3. /\ Atop(0, 1)
      /\ \A c : FrameCount(ctl', c) = FrameCount(ctl, c) - Weight(ctl[1], c) /\ FrameCount(ctl, c) \in Nat
  BY <1>1, <1>2, AtopPop
<1>4. Stale' = Stale /\ Swept' = Swept
  BY <1>1, <1>3, StaleSame, SweptSame
<1>5. Owning' = Owning /\ \A c : HeldCount(c)' = HeldCount(c)
  BY <1>2, <1>4, HeldStays
<1>6. /\ NoDangling' /\ DestroyedOnce' /\ DyingAlone' /\ SweptAlone'
      /\ UnguardedAtOnce' /\ StoresWait' /\ CollectedApart' /\ FreeAreBlank'
  <2>1. flags'.buffered \cap flags.collecting = {}
    BY <1>2 DEF HeapInv, CollectedApart
  <2> QED
    BY <1>1, <1>2, <1>3, <1>5, <2>1, QuietStep
<1>7. TypeOK'
  BY <1>2, <1>3 DEF HeapInv, TypeOK, Atop
<1>8. RefCountExact'
  <2>1. \A c : Weight(ctl[1], c) = 0
    BY <1>1 DEF Weight
  <2> QED
    BY <1>2, <1>3, <1>5, <2>1, ExactIs, ExactNext DEF HeapInv
<1>9. BufferMatchesFlags'
  BY <1>2 DEF HeapInv, BufferMatchesFlags
<1> QED
  BY <1>6, <1>7, <1>8, <1>9 DEF HeapInv

\* No reference at all: no work item has one.
LEMMA NoWeights ==
  ASSUME NEW s \in Seq(Frames), NEW c
  PROVE  FrameCount(s, c) = 0 <=> \A i \in DOMAIN s : Weight(s[i], c) = 0
<1>1. IsFiniteSet(FrameRefs(s, c))
  BY FrameRefsFinite
<1>2. FrameCount(s, c) = 0 <=> FrameRefs(s, c) = {}
  BY <1>1, FS_EmptySet DEF FrameCount
<1>3. FrameRefs(s, c) = {} <=> \A i \in DOMAIN s : Weight(s[i], c) = 0
  <2>1. \A i \in DOMAIN s : Weight(s[i], c) \in 0 .. 2
    BY WeightIs
  <2>2. ASSUME NEW i \in DOMAIN s, Weight(s[i], c) # 0 PROVE <<i, 1>> \in FrameRefs(s, c)
    BY <2>1, <2>2 DEF FrameRefs
  <2>3. ASSUME NEW r \in FrameRefs(s, c) PROVE r[1] \in DOMAIN s /\ Weight(s[r[1]], c) # 0
    BY <2>1 DEF FrameRefs
  <2> QED
    BY <2>2, <2>3
<1> QED
  BY <1>2, <1>3

\* The topmost work item has all the references, or all but those of the rest.
LEMMA RestWeights ==
  ASSUME ctl \in Seq(Frames), ctl # <<>>, NEW c
  PROVE  /\ FrameCount(ctl, c) \in Nat /\ FrameCount(ctl, c) >= Weight(ctl[1], c)
         /\ FrameCount(ctl, c) = Weight(ctl[1], c) <=>
              \A i \in DOMAIN ctl : i > 1 => Weight(ctl[i], c) = 0
<1> DEFINE t == Tail(ctl)
<1>1. /\ t \in Seq(Frames) /\ Len(t) = Len(ctl) - 1 /\ Len(ctl) \in Nat /\ Len(ctl) > 0
      /\ \A i \in 1 .. Len(t) : t[i] = ctl[i + 1]
      /\ DOMAIN ctl = 1 .. Len(ctl) /\ DOMAIN t = 1 .. Len(t)
  OBVIOUS
<1>2. ctl = <<ctl[1]>> \o t /\ <<ctl[1]>> \in Seq(Frames)
  OBVIOUS
<1> HIDE DEF t
<1>3. FrameCount(<<ctl[1]>> \o t, c) = FrameCount(<<ctl[1]>>, c) + FrameCount(t, c)
  BY <1>1, <1>2, FramesJoin
<1>4. FrameCount(ctl, c) = FrameCount(<<ctl[1]>> \o t, c)
  BY <1>2
<1>5. FrameCount(<<ctl[1]>>, c) = Weight(ctl[1], c)
  BY OneFrame
<1>6. FrameCount(t, c) \in Nat /\ Weight(ctl[1], c) \in 0 .. 2
  BY <1>1, FrameRefsFinite, WeightIs
<1>7. FrameCount(t, c) = 0 <=> \A i \in DOMAIN t : Weight(t[i], c) = 0
  BY <1>1, NoWeights
<1>8. (\A i \in DOMAIN t : Weight(t[i], c) = 0) <=> (\A i \in DOMAIN ctl : i > 1 => Weight(ctl[i], c) = 0)
  <2>1. ASSUME \A i \in DOMAIN ctl : i > 1 => Weight(ctl[i], c) = 0, NEW i \in DOMAIN t
        PROVE  Weight(t[i], c) = 0
    <3>1. i + 1 \in DOMAIN ctl /\ i + 1 > 1 /\ t[i] = ctl[i + 1]
      BY <1>1
    <3> QED
      BY <2>1, <3>1
  <2>2. ASSUME \A i \in DOMAIN t : Weight(t[i], c) = 0, NEW i \in DOMAIN ctl, i > 1
        PROVE  Weight(ctl[i], c) = 0
    <3>1. i - 1 \in DOMAIN t /\ t[i - 1] = ctl[i]
      <4>1. i - 1 \in 1 .. Len(t) /\ (i - 1) + 1 = i
        BY <1>1, <2>2
      <4> QED
        BY <1>1, <4>1
    <3> QED
      BY <2>2, <3>1
  <2> QED
    BY <2>1, <2>2
<1> QED
  BY <1>3, <1>4, <1>5, <1>6, <1>7, <1>8

\* pphp_gc_unbuffer(): the other candidates stay.
LEMMA UnbufferKeeps ==
  ASSUME TypeOK, BufferMatchesFlags, NEW c \in flags.buffered
  PROVE  /\ Unbuffered(c) \in Seq(Cells) /\ Len(Unbuffered(c)) <= BufferMax
         /\ IsInjective(Unbuffered(c)) /\ Range(Unbuffered(c)) = flags.buffered \ {c}
<1> DEFINE n == Len(candidates)
           u == Unbuffered(c)
<1>1. /\ candidates \in Seq(Cells) /\ n \in Nat /\ n <= BufferMax /\ DOMAIN candidates = 1 .. n
      /\ \A i, j \in 1 .. n : candidates[i] = candidates[j] => i = j
      /\ \A i \in 1 .. n : candidates[i] \in Cells
  BY DEF TypeOK, BufferMatchesFlags, IsInjective
<1>2. /\ \A d \in flags.buffered : \E i \in 1 .. n : candidates[i] = d
      /\ \A i \in 1 .. n : candidates[i] \in flags.buffered
  BY <1>1 DEF BufferMatchesFlags, Range
<1>3. PICK p \in 1 .. n : candidates[p] = c
  BY <1>2
<1>4. u = [i \in 1 .. n - 1 |-> IF candidates[i] = c THEN candidates[n] ELSE candidates[i]]
  BY DEF Unbuffered
<1> HIDE DEF n, u
<1>5. DOMAIN u = 1 .. n - 1 /\ n - 1 \in Nat
      /\ \A i \in 1 .. n - 1 : u[i] = IF i = p THEN candidates[n] ELSE candidates[i]
  <2>1. \A i \in 1 .. n - 1 : candidates[i] = c <=> i = p
    BY <1>1, <1>3
  <2> QED
    BY <1>1, <1>3, <1>4, <2>1
<1>6. u \in Seq(Cells) /\ Len(u) = n - 1
  <2>1. \A i \in 1 .. n - 1 : u[i] \in Cells
    BY <1>1, <1>3, <1>5
  <2>2. u \in [1 .. n - 1 -> Cells]
    BY <1>4, <1>5, <2>1
  <2> QED
    BY <1>5, <2>2
<1>7. \A i, j \in 1 .. n - 1 : u[i] = u[j] => i = j
  BY <1>1, <1>3, <1>5
<1>8. \A i \in 1 .. n - 1 : u[i] \in flags.buffered /\ u[i] # c
  BY <1>1, <1>2, <1>3, <1>5
<1>9. \A d \in flags.buffered : d # c => \E i \in 1 .. n - 1 : u[i] = d
  <2> SUFFICES ASSUME NEW d \in flags.buffered, d # c PROVE \E i \in 1 .. n - 1 : u[i] = d
    OBVIOUS
  <2>1. PICK q \in 1 .. n : candidates[q] = d /\ q # p
    BY <1>2, <1>3
  <2>2. CASE q = n
    BY <1>1, <1>3, <1>5, <2>1, <2>2
  <2>3. CASE q # n
    BY <1>1, <1>5, <2>1, <2>3
  <2> QED
    BY <2>2, <2>3
<1>10. Range(u) = flags.buffered \ {c}
  BY <1>5, <1>8, <1>9 DEF Range
<1>11. IsInjective(u) /\ Len(u) <= BufferMax
  BY <1>1, <1>5, <1>6, <1>7, Given DEF IsInjective
<1> QED
  BY <1>6, <1>10, <1>11 DEF u

\* The last reference to a cell: no holder names it and nothing below gives it up.
LEMMA LastReference ==
  ASSUME HeapInv, Top("release"), ctl[1].cell # Null, rc[ctl[1].cell] = 1
  PROVE  /\ \A h \in Owning : ValueIn(h) # ctl[1].cell
         /\ HeldCount(ctl[1].cell) = 0 /\ FrameCount(ctl, ctl[1].cell) = 1
         /\ \A i \in DOMAIN ctl : i > 1 =>
              /\ Weight(ctl[i], ctl[1].cell) = 0
              /\ ~(Dismantles(ctl[i]) /\ ctl[i].cell = ctl[1].cell)
         /\ \A c : 2 \in DOMAIN ctl /\ ctl[2] = Unguard(c) => ctl[1] # Release(c)
<1> DEFINE c == ctl[1].cell
<1>1. /\ c \in live /\ Weight(ctl[1], c) = 1
      /\ \A i \in DOMAIN ctl : ctl[i].op = "sweep" => ctl[i].cell # c
  BY ReleaseTop
<1>2. ctl \in Seq(Frames) /\ ctl # <<>>
  BY TopIs DEF HeapInv
<1>3. rc[c] = 1 /\ 1 # RcMax
  BY Given
<1> HIDE DEF c
<1>4. HeldCount(c) + FrameCount(ctl, c) = 1
  BY <1>1, <1>3, ExactIs DEF HeapInv
<1>5. HeldCount(c) \in Nat /\ FrameCount(ctl, c) \in Nat /\ FrameCount(ctl, c) >= 1
  BY <1>1, <1>2, OwningHolders, RestWeights DEF HeapInv
<1>6. HeldCount(c) = 0 /\ FrameCount(ctl, c) = 1
  BY <1>4, <1>5
<1>7. \A h \in Owning : ValueIn(h) # c
  <2>1. IsFiniteSet(Held(c))
    BY OwningHolders, HeldFinite DEF HeapInv
  <2>2. Held(c) = {}
    BY <1>6, <2>1, FS_EmptySet DEF HeldCount
  <2> QED
    BY <2>2 DEF Held
<1>8. \A i \in DOMAIN ctl : i > 1 => Weight(ctl[i], c) = 0
  BY <1>1, <1>2, <1>6, RestWeights
<1>9. \A i \in DOMAIN ctl : i > 1 => ~(Dismantles(ctl[i]) /\ ctl[i].cell = c)
  <2> SUFFICES ASSUME NEW i \in DOMAIN ctl, i > 1, Dismantles(ctl[i]), ctl[i].cell = c PROVE FALSE
    OBVIOUS
  <2>1. ctl[i].op \in {"destructor", "unguard"}
    BY <1>1 DEF Dismantles
  <2>2. Weight(ctl[i], c) # 0
    BY <2>1 DEF Weight
  <2> QED
    BY <1>8, <2>2
<1>10. \A d : 2 \in DOMAIN ctl /\ ctl[2] = Unguard(d) => ctl[1] # Release(d)
  <2> SUFFICES ASSUME NEW d, 2 \in DOMAIN ctl, ctl[2] = Unguard(d), ctl[1] = Release(d) PROVE FALSE
    OBVIOUS
  <2>1. d = c /\ Weight(ctl[2], d) = 1
    BY DEF Unguard, Release, Weight, c
  <2> QED
    BY <1>8, <2>1
<1> QED
  BY <1>6, <1>7, <1>8, <1>9, <1>10 DEF c

\* The counts after a step that touches one cell only.
LEMMA ExactBut ==
  ASSUME HeapInv, NEW c \in Cells, NEW n, rc' = [rc EXCEPT ![c] = n], live' \subseteq live,
         \A d \in live' : d # c => HeldCount(d)' + FrameCount(ctl', d) = HeldCount(d) + FrameCount(ctl, d),
         c \in live' => n = HeldCount(c)' + FrameCount(ctl', c)
  PROVE  RefCountExact'
<1> SUFFICES ASSUME NEW d \in live', rc'[d] # RcMax
             PROVE  rc'[d] = HeldCount(d)' + FrameCount(ctl', d)
  BY ExactNext
<1>1. d \in live /\ d \in Cells /\ rc \in [Cells -> 0 .. RcMax]
  BY DEF HeapInv, TypeOK
<1>2. CASE d = c
  BY <1>1, <1>2
<1>3. CASE d # c
  <2>1. rc'[d] = rc[d]
    BY <1>1, <1>3
  <2>2. rc[d] = HeldCount(d) + FrameCount(ctl, d)
    BY <1>1, <2>1, ExactIs DEF HeapInv
  <2> QED
    BY <1>3, <2>1, <2>2
<1> QED
  BY <1>2, <1>3

\* pv_release() of the last reference.
LEMMA ReleaseLastKeeps ==
  ASSUME HeapInv, ReleaseLast
  PROVE  HeapInv'
<1>0. PICK c : c = ctl[1].cell
  OBVIOUS
<1> DEFINE f == IF RunsDestructor(c) THEN Destructor(c, DtorSteps) ELSE Sweep(c, 1)
           n == IF RunsDestructor(c) THEN 2 ELSE 0
<1>1. /\ ctl \in Seq(Frames) /\ ctl # <<>> /\ 1 \in DOMAIN ctl /\ Head(ctl) = ctl[1]
      /\ ctl[1] \in Frames /\ ctl[1].op = "release" /\ Top("release")
  BY TopIs DEF HeapInv, ReleaseLast
<1>2. c # Null /\ rc[c] = 1
  BY <1>0, <1>1 DEF ReleaseLast, Count
<1>3. /\ c \in live /\ c \in Cells /\ Weight(ctl[1], c) = 1
      /\ \A i \in DOMAIN ctl : ctl[i].op = "sweep" => ctl[i].cell # c
  BY <1>0, <1>1, <1>2, ReleaseTop
<1>4. /\ \A h \in Owning : ValueIn(h) # c
      /\ HeldCount(c) = 0 /\ FrameCount(ctl, c) = 1
      /\ \A i \in DOMAIN ctl : i > 1 => Weight(ctl[i], c) = 0 /\ ~(Dismantles(ctl[i]) /\ ctl[i].cell = c)
      /\ \A d : 2 \in DOMAIN ctl /\ ctl[2] = Unguard(d) => ctl[1] # Release(d)
  BY <1>0, <1>1, <1>2, LastReference
<1>5. /\ Become(<<f>>) /\ rc' = [rc EXCEPT ![c] = n]
      /\ candidates' = (IF c \in flags.buffered THEN Unbuffered(c) ELSE candidates)
      /\ flags' = [flags EXCEPT !.buffered = @ \ {c},
                                !.destroying = IF RunsDestructor(c) THEN @ \cup {c} ELSE @]
      /\ UNCHANGED <<live, slot, var, collecting, requested>>
  <2>1. flags \in [buffered : SUBSET Cells, collecting : SUBSET Cells, destroying : SUBSET Cells]
    BY DEF HeapInv, TypeOK
  <2>2. CASE RunsDestructor(c)
    BY <1>0, <1>1, <2>1, <2>2 DEF ReleaseLast
  <2>3. CASE ~RunsDestructor(c)
    BY <1>0, <1>1, <2>1, <2>3 DEF ReleaseLast
  <2> QED
    BY <2>2, <2>3
<1>6. flags' \in [buffered : SUBSET Cells, collecting : SUBSET Cells, destroying : SUBSET Cells]
      /\ flags'.buffered = flags.buffered \ {c} /\ flags'.collecting = flags.collecting
      /\ flags.destroying \subseteq flags'.destroying
      /\ (RunsDestructor(c) => c \in flags'.destroying \ flags.collecting)
  BY <1>3, <1>5 DEF HeapInv, TypeOK, RunsDestructor
<1>7. /\ f \in Frames /\ Dismantles(f) /\ f.cell = c /\ f.op \in {"destructor", "sweep"}
      /\ f.op = "sweep" => f.at = 1 /\ n = 0
      /\ f.op = "destructor" => RunsDestructor(c)
      /\ Weight(f, c) = n /\ \A d : d # c => Weight(f, d) = 0
  <2>1. 1 \in 1 .. NSlots + 1 /\ DtorSteps \in 0 .. DtorSteps
    BY Given
  <2>2. CASE RunsDestructor(c)
    <3>1. f = Destructor(c, DtorSteps) /\ n = 2
      BY <2>2
    <3>2. f \in Frames
      BY <1>3, <2>1, <3>1 DEF Frames
    <3> HIDE DEF f
    <3> QED
      BY <2>2, <3>1, <3>2 DEF Destructor, Dismantles, Weight
  <2>3. CASE ~RunsDestructor(c)
    <3>1. f = Sweep(c, 1) /\ n = 0
      BY <2>3
    <3>2. f \in Frames
      BY <1>3, <2>1, <3>1 DEF Frames
    <3> HIDE DEF f
    <3> QED
      BY <2>3, <3>1, <3>2 DEF Sweep, Dismantles, Weight
  <2> QED
    BY <2>2, <2>3
<1> HIDE DEF f, n
<1>8. n \in {0, 2}
  BY DEF n
<1>9. <<f>> \in Seq(Frames) /\ Len(<<f>>) = 1 /\ \A d : FrameCount(<<f>>, d) = Weight(f, d)
  BY <1>7, OneFrame
<1>10. /\ Atop(1, 1) /\ ctl'[1] = f
       /\ \A d : FrameCount(ctl', d) = Weight(f, d) + FrameCount(ctl, d) - Weight(ctl[1], d)
       /\ \A d : FrameCount(ctl, d) \in Nat
  <2> DEFINE s == <<f>>
  <2>0. s[1] = f /\ 1 \in 1 .. Len(s)
    OBVIOUS
  <2> HIDE DEF s
  <2>1. /\ Atop(Len(s), 1) /\ ctl'[1] = s[1]
        /\ \A d : FrameCount(ctl', d) = FrameCount(s, d) + FrameCount(ctl, d) - Weight(ctl[1], d)
        /\ \A d : FrameCount(ctl, d) \in Nat
    BY <1>1, <1>5, <1>9, <2>0, AtopBecome DEF s
  <2> QED
    BY <1>9, <2>0, <2>1 DEF s
<1>11. Stale' = Stale /\ Swept' = Swept
  BY <1>1, <1>7, <1>10, StaleSame, SweptSame
<1>12. /\ Owning' = Owning /\ \A h : ValueIn(h)' = ValueIn(h)
       /\ \A d : HeldCount(d)' = HeldCount(d)
  BY <1>5, <1>11, HeldStays
<1>13. \A j \in DOMAIN ctl' : j > 1 => Weight(ctl'[j], c) = 0
  <2> SUFFICES ASSUME NEW j \in DOMAIN ctl', j > 1 PROVE Weight(ctl'[j], c) = 0
    OBVIOUS
  <2>1. PICK i \in DOMAIN ctl : i > 1 /\ \A d : Weight(ctl'[j], d) = Weight(ctl[i], d)
    BY <1>10, Below
  <2> QED
    BY <1>4, <2>1
<1>14. Alone(1)'
  <2>1. ctl'[1].op # "sweep" => c \in flags'.destroying \ flags'.collecting
    BY <1>6, <1>7, <1>10
  <2> QED
    BY <1>4, <1>6, <1>7, <1>10, <1>12, <1>13, <2>1 DEF Alone
<1>15. ctl'[1].op = "sweep" => Unowned(ctl[1].cell)'
  <2> SUFFICES ASSUME ctl'[1].op = "sweep" PROVE Unowned(ctl[1].cell)'
    OBVIOUS
  <2>1. rc'[c] = 0
    BY <1>3, <1>5, <1>7, <1>10 DEF HeapInv, TypeOK
  <2>2. \A j \in DOMAIN ctl' : j = 1 \/ j > 1
    BY <1>10 DEF Atop
  <2>3. \A j \in DOMAIN ctl' : Weight(ctl'[j], c) = 0
    BY <1>7, <1>10, <1>13, <2>2
  <2> QED
    BY <1>7, <1>10, <2>1, <2>3 DEF Unowned
<1>16. /\ NoDangling' /\ DestroyedOnce' /\ DyingAlone' /\ SweptAlone'
       /\ UnguardedAtOnce' /\ StoresWait' /\ CollectedApart' /\ FreeAreBlank'
  <2>1. flags'.buffered \cap flags.collecting = {} /\ flags'.buffered \cap Dying \subseteq flags.buffered
    BY <1>6 DEF HeapInv, CollectedApart
  <2>2. \A i \in DOMAIN ctl : i > 1 /\ ctl[i].op = "sweep" =>
          rc'[ctl[i].cell] = rc[ctl[i].cell] /\ Weight(f, ctl[i].cell) = 0
    BY <1>3, <1>5, <1>7 DEF HeapInv, TypeOK
  <2>3. \A m \in 1 .. 1 : m = 1
    OBVIOUS
  <2>4. f.op # "put" /\ f.op # "clear" /\ f.op # "unguard"
    BY <1>7
  <2>5. ctl'[1].cell = ctl[1].cell
    BY <1>0, <1>7, <1>10
  <2>6. \A m \in 1 .. 1 :
           /\ ctl'[m].cell \in live \cup {Null} /\ ctl'[m].op # "put"
           /\ ctl'[m].op # "clear" /\ ctl'[m].op # "unguard"
           /\ ctl'[m].op = "sweep" => Unowned(ctl[m].cell)'
           /\ Dismantles(ctl'[m]) =>
                /\ Alone(m)'
                /\ \A i \in DOMAIN ctl :
                     i > 1 => Weight(ctl[i], ctl'[m].cell) = 0
                              /\ ~(Dismantles(ctl[i]) /\ ctl[i].cell = ctl'[m].cell)
                /\ \A l \in 1 .. 1 : Dismantles(ctl'[l]) => l = m
           /\ \A i \in DOMAIN ctl : i > 1 /\ ctl[i].op = "sweep" => Weight(ctl'[m], ctl[i].cell) = 0
    BY <1>3, <1>4, <1>7, <1>10, <1>14, <1>15, <2>2, <2>3, <2>4
  <2>7. Dismantles(ctl'[1]) /\ ctl[1].op # "put"
    BY <1>1, <1>7, <1>10
  <2> QED
    BY <1>4, <1>5, <1>6, <1>10, <1>12, <2>1, <2>2, <2>5, <2>6, <2>7, QuietStep
<1>17. BufferMatchesFlags' /\ candidates' \in Seq(Cells) /\ Len(candidates') <= BufferMax
  <2>1. CASE c \in flags.buffered
    <3>1. /\ candidates' \in Seq(Cells) /\ Len(candidates') <= BufferMax
          /\ IsInjective(candidates') /\ Range(candidates') = flags.buffered \ {c}
      BY <1>5, <2>1, UnbufferKeeps DEF HeapInv
    <3> QED
      BY <1>5, <1>6, <3>1 DEF HeapInv, BufferMatchesFlags
  <2>2. CASE c \notin flags.buffered
    BY <1>5, <1>6, <2>2 DEF HeapInv, BufferMatchesFlags, TypeOK
  <2> QED
    BY <2>1, <2>2
<1>18. TypeOK'
  <2>1. rc' \in [Cells -> 0 .. RcMax]
    BY <1>3, <1>5, <1>8, Given DEF HeapInv, TypeOK
  <2> QED
    BY <1>5, <1>6, <1>10, <1>17, <2>1 DEF HeapInv, TypeOK, Atop
<1>19. RefCountExact'
  <2>1. n = HeldCount(c)' + FrameCount(ctl', c)
    BY <1>3, <1>4, <1>7, <1>8, <1>10, <1>12
  <2>2. \A d \in live' : d # c => HeldCount(d)' + FrameCount(ctl', d) = HeldCount(d) + FrameCount(ctl, d)
    <3> SUFFICES ASSUME NEW d \in live', d # c
                 PROVE  HeldCount(d)' + FrameCount(ctl', d) = HeldCount(d) + FrameCount(ctl, d)
      OBVIOUS
    <3>1. Weight(ctl[1], d) = 0 /\ Weight(f, d) = 0
      BY <1>0, <1>7 DEF Weight
    <3> QED
      BY <1>10, <1>12, <3>1
  <2> QED
    BY <1>3, <1>5, <2>1, <2>2, ExactBut
<1> QED
  BY <1>16, <1>17, <1>18, <1>19 DEF HeapInv

-----------------------------------------------------------------------------
(* Destructions.                                                           *)

\* Two work items give up the sum of what they say.
LEMMA TwoFrames ==
  ASSUME NEW f \in Frames, NEW g \in Frames, NEW c
  PROVE  FrameCount(<<f, g>>, c) = Weight(f, c) + Weight(g, c)
<1>1. FrameCount(<<f>> \o <<g>>, c) = FrameCount(<<f>>, c) + FrameCount(<<g>>, c)
  <2>1. PICK a, b : a = <<f>> /\ b = <<g>>
    OBVIOUS
  <2>2. a \in Seq(Frames) /\ b \in Seq(Frames)
    BY <2>1
  <2>3. FrameCount(a \o b, c) = FrameCount(a, c) + FrameCount(b, c)
    BY <2>2, FramesJoin
  <2> QED
    BY <2>1, <2>3
<1>2. <<f>> \o <<g>> = <<f, g>>
  BY JoinOfTwo
<1> QED
  BY <1>1, <1>2, OneFrame

\* The cell being destroyed on top of the stack.
LEMMA DyingTop ==
  ASSUME HeapInv, 1 \in DOMAIN ctl, Dismantles(ctl[1])
  PROVE  /\ ctl[1].cell \in live /\ ctl[1].cell \in Cells /\ ctl[1].cell # Null
         /\ \A h \in Owning : ValueIn(h) # ctl[1].cell
         /\ HeldCount(ctl[1].cell) = 0 /\ FrameCount(ctl, ctl[1].cell) = Weight(ctl[1], ctl[1].cell)
         /\ \A i \in DOMAIN ctl : i > 1 =>
              /\ Weight(ctl[i], ctl[1].cell) = 0
              /\ ~(Dismantles(ctl[i]) /\ ctl[i].cell = ctl[1].cell)
         /\ ctl[1].cell \notin flags.buffered
         /\ ctl[1].op # "sweep" => ctl[1].cell \in flags.destroying \ flags.collecting
<1>1. ctl \in Seq(Frames) /\ ctl # <<>> /\ ctl[1] \in Frames
  BY DEF HeapInv, TypeOK
<1>2. ctl[1].op \in {"destructor", "unguard", "sweep"}
  BY DEF Dismantles
<1>3. ctl[1].cell \in Cells /\ ctl[1].cell # Null
  BY <1>1, <1>2, FrameKinds, Given
<1>4. ctl[1].cell \in live
  BY <1>3 DEF HeapInv, NoDangling
<1>5. Alone(1)
  BY DEF HeapInv, DyingAlone
<1>6. HeldCount(ctl[1].cell) = 0
  <2>1. Held(ctl[1].cell) = {}
    BY <1>5 DEF Alone, Held
  <2> QED
    BY <2>1, FS_EmptySet DEF HeldCount
<1>7. \A i \in DOMAIN ctl : i > 1 => Weight(ctl[i], ctl[1].cell) = 0
  BY <1>5 DEF Alone
<1>8. FrameCount(ctl, ctl[1].cell) = Weight(ctl[1], ctl[1].cell)
  BY <1>1, <1>7, RestWeights
<1>9. \A i \in DOMAIN ctl : i > 1 => ~(Dismantles(ctl[i]) /\ ctl[i].cell = ctl[1].cell)
  BY DEF HeapInv, DestroyedOnce
<1> QED
  BY <1>3, <1>4, <1>5, <1>6, <1>7, <1>8, <1>9 DEF Alone

\* The destructor returns: its callable goes, then the guard.
LEMMA DestructorReturnsKeeps ==
  ASSUME HeapInv, DestructorReturns
  PROVE  HeapInv'
<1>0. PICK c : c = ctl[1].cell
  OBVIOUS
<1>1. /\ ctl \in Seq(Frames) /\ ctl # <<>> /\ 1 \in DOMAIN ctl /\ Head(ctl) = ctl[1]
      /\ ctl[1] \in Frames /\ ctl[1].op = "destructor" /\ Dismantles(ctl[1])
  BY TopIs DEF HeapInv, DestructorReturns, Dismantles
<1>2. /\ c \in live /\ c \in Cells
      /\ \A h \in Owning : ValueIn(h) # c
      /\ \A i \in DOMAIN ctl : i > 1 => Weight(ctl[i], c) = 0 /\ ~(Dismantles(ctl[i]) /\ ctl[i].cell = c)
      /\ c \notin flags.buffered /\ c \in flags.destroying \ flags.collecting
  BY <1>0, <1>1, DyingTop
<1>3. /\ Become(<<Release(c), Unguard(c)>>)
      /\ UNCHANGED <<live, rc, slot, var, collecting, candidates, requested, flags>>
  BY <1>0, <1>1 DEF DestructorReturns, gcVars
<1>4. Release(c) \in Frames /\ Unguard(c) \in Frames
  BY <1>2 DEF Frames
<1>5. /\ Atop(2, 1) /\ ctl'[1] = Release(c) /\ ctl'[2] = Unguard(c)
      /\ \A d : FrameCount(ctl', d) = FrameCount(ctl, d)
  <2> DEFINE s == <<Release(c), Unguard(c)>>
  <2>1. /\ s \in Seq(Frames) /\ Len(s) = 2 /\ s[1] = Release(c) /\ s[2] = Unguard(c)
        /\ 1 \in 1 .. Len(s) /\ 2 \in 1 .. Len(s)
    BY <1>4
  <2>2. \A d : FrameCount(s, d) = Weight(ctl[1], d)
    <3> SUFFICES ASSUME NEW d PROVE FrameCount(s, d) = Weight(ctl[1], d)
      OBVIOUS
    <3>1. FrameCount(s, d) = Weight(Release(c), d) + Weight(Unguard(c), d)
      BY <1>4, TwoFrames
    <3>2. Weight(Release(c), d) = (IF c = d THEN 1 ELSE 0) /\ Weight(Unguard(c), d) = IF c = d THEN 1 ELSE 0
      BY DEF Weight, Release, Unguard
    <3>3. Weight(ctl[1], d) = IF c = d THEN 2 ELSE 0
      BY <1>0, <1>1 DEF Weight
    <3> QED
      BY <3>1, <3>2, <3>3
  <2> HIDE DEF s
  <2>3. /\ Atop(Len(s), 1) /\ ctl'[1] = s[1] /\ ctl'[2] = s[2]
        /\ \A d : FrameCount(ctl', d) = FrameCount(s, d) + FrameCount(ctl, d) - Weight(ctl[1], d)
        /\ \A d : FrameCount(s, d) \in Nat /\ FrameCount(ctl, d) \in Nat
    BY <1>1, <1>3, <2>1, AtopBecome DEF s
  <2>4. \A d : Weight(ctl[1], d) \in 0 .. 2
    BY WeightIs
  <2> QED
    BY <2>1, <2>2, <2>3, <2>4
<1>6. \A n \in 1 .. 2 : n = 1 \/ n = 2
  OBVIOUS
<1>7. /\ ctl'[1].op = "release" /\ ctl'[1].cell = c /\ ctl'[2].op = "unguard" /\ ctl'[2].cell = c
      /\ ~Dismantles(ctl'[1]) /\ Dismantles(ctl'[2])
  BY <1>5 DEF Release, Unguard, Dismantles
<1>8. Stale' = Stale /\ Swept' = Swept
  BY <1>1, <1>5, <1>6, <1>7, StaleSame, SweptSame
<1>9. /\ Owning' = Owning /\ \A h : ValueIn(h)' = ValueIn(h)
      /\ \A d : HeldCount(d)' = HeldCount(d)
  BY <1>3, <1>8, HeldStays
<1>10. Alone(2)'
  <2>1. \A j \in DOMAIN ctl' : j > 2 => Weight(ctl'[j], c) = 0
    <3> SUFFICES ASSUME NEW j \in DOMAIN ctl', j > 2 PROVE Weight(ctl'[j], c) = 0
      OBVIOUS
    <3>1. PICK i \in DOMAIN ctl : i > 1 /\ \A d : Weight(ctl'[j], d) = Weight(ctl[i], d)
      BY <1>5, Below
    <3> QED
      BY <1>2, <3>1
  <2> QED
    BY <1>2, <1>3, <1>7, <1>9, <2>1 DEF Alone
<1>11. \A i \in DOMAIN ctl : ctl[i].op = "sweep" => Weight(Release(c), ctl[i].cell) = 0 /\ Weight(Unguard(c), ctl[i].cell) = 0
  <2> SUFFICES ASSUME NEW i \in DOMAIN ctl, ctl[i].op = "sweep" PROVE ctl[i].cell # c
    BY DEF Weight, Release, Unguard
  <2>1. Weight(ctl[1], c) = 2
    BY <1>0, <1>1 DEF Weight
  <2>2. Weight(ctl[1], ctl[i].cell) = 0
    BY <1>1 DEF HeapInv, SweptAlone, Unowned
  <2> QED
    BY <2>1, <2>2
<1>12. /\ NoDangling' /\ DestroyedOnce' /\ DyingAlone' /\ SweptAlone'
       /\ UnguardedAtOnce' /\ StoresWait' /\ CollectedApart' /\ FreeAreBlank'
  <2>1. flags'.buffered \cap flags.collecting = {}
    BY <1>3 DEF HeapInv, CollectedApart
  <2>2. \A n \in 1 .. 2 :
           /\ ctl'[n].cell \in live \cup {Null} /\ ctl'[n].op # "put"
           /\ ctl'[n].op # "clear" /\ ctl'[n].op # "sweep"
           /\ ctl'[n].op = "unguard" => n = 1 \/ (n = 2 /\ ctl'[1] = Release(ctl'[n].cell))
           /\ Dismantles(ctl'[n]) =>
                /\ Alone(n)'
                /\ \A i \in DOMAIN ctl :
                     i > 1 => Weight(ctl[i], ctl'[n].cell) = 0
                              /\ ~(Dismantles(ctl[i]) /\ ctl[i].cell = ctl'[n].cell)
                /\ \A l \in 1 .. 2 : Dismantles(ctl'[l]) => l = n
           /\ \A i \in DOMAIN ctl : i > 1 /\ ctl[i].op = "sweep" => Weight(ctl'[n], ctl[i].cell) = 0
    <3> SUFFICES ASSUME NEW n \in 1 .. 2
                 PROVE /\ ctl'[n].cell \in live \cup {Null} /\ ctl'[n].op # "put"
                       /\ ctl'[n].op # "clear" /\ ctl'[n].op # "sweep"
                       /\ ctl'[n].op = "unguard" => n = 1 \/ (n = 2 /\ ctl'[1] = Release(ctl'[n].cell))
                       /\ Dismantles(ctl'[n]) =>
                            /\ Alone(n)'
                            /\ \A i \in DOMAIN ctl :
                                 i > 1 => Weight(ctl[i], ctl'[n].cell) = 0
                                          /\ ~(Dismantles(ctl[i]) /\ ctl[i].cell = ctl'[n].cell)
                            /\ \A l \in 1 .. 2 : Dismantles(ctl'[l]) => l = n
                       /\ \A i \in DOMAIN ctl : i > 1 /\ ctl[i].op = "sweep" => Weight(ctl'[n], ctl[i].cell) = 0
      OBVIOUS
    <3>1. CASE n = 1
      BY <1>2, <1>5, <1>7, <1>11, <3>1
    <3>2. CASE n = 2
      BY <1>2, <1>5, <1>6, <1>7, <1>10, <1>11, <3>2
    <3> QED
      BY <1>6, <3>1, <3>2
  <2>3. \A d : ctl[1] # Release(d)
    BY <1>1 DEF Release
  <2>4. ctl'[2].cell = ctl[1].cell /\ Dismantles(ctl'[2]) /\ ctl[1].op # "put"
    BY <1>0, <1>1, <1>7
  <2>5. flags'.collecting = flags.collecting /\ flags'.destroying = flags.destroying
        /\ flags'.buffered = flags.buffered
    BY <1>3
  <2> QED
    BY <1>3, <1>5, <1>9, <2>1, <2>2, <2>3, <2>4, <2>5, QuietStep
<1>13. TypeOK'
  BY <1>3, <1>5 DEF HeapInv, TypeOK, Atop
<1>14. RefCountExact'
  BY <1>3, <1>5, <1>9, ExactIs, ExactNext DEF HeapInv
<1>15. BufferMatchesFlags'
  BY <1>3 DEF HeapInv, BufferMatchesFlags
<1> QED
  BY <1>12, <1>13, <1>14, <1>15 DEF HeapInv

\* The guard goes: the sweep of the object begins.
LEMMA UnguardKeeps ==
  ASSUME HeapInv, UnguardStep
  PROVE  HeapInv'
<1>0. PICK c : c = ctl[1].cell
  OBVIOUS
<1>1. /\ ctl \in Seq(Frames) /\ ctl # <<>> /\ 1 \in DOMAIN ctl /\ Head(ctl) = ctl[1]
      /\ ctl[1] \in Frames /\ ctl[1].op = "unguard" /\ Dismantles(ctl[1])
  BY TopIs DEF HeapInv, UnguardStep, Dismantles
<1>2. /\ c \in live /\ c \in Cells
      /\ \A h \in Owning : ValueIn(h) # c
      /\ HeldCount(c) = 0 /\ FrameCount(ctl, c) = Weight(ctl[1], c)
      /\ \A i \in DOMAIN ctl : i > 1 => Weight(ctl[i], c) = 0 /\ ~(Dismantles(ctl[i]) /\ ctl[i].cell = c)
      /\ c \notin flags.buffered
  BY <1>0, <1>1, DyingTop
<1>3. /\ Become(<<Sweep(c, 1)>>) /\ rc' = [rc EXCEPT ![c] = 0]
      /\ UNCHANGED <<live, slot, var, collecting, candidates, requested, flags>>
  BY <1>0, <1>1 DEF UnguardStep, gcVars
<1>4. Sweep(c, 1) \in Frames /\ \A d : Weight(Sweep(c, 1), d) = 0
  <2>1. 1 \in 1 .. NSlots + 1
    BY Given
  <2> QED
    BY <1>2, <2>1 DEF Frames, Weight, Sweep
<1>5. /\ Atop(1, 1) /\ ctl'[1] = Sweep(c, 1)
      /\ \A d : FrameCount(ctl', d) = FrameCount(ctl, d) - Weight(ctl[1], d)
      /\ \A d : FrameCount(ctl, d) \in Nat
  <2> DEFINE s == <<Sweep(c, 1)>>
  <2>1. s \in Seq(Frames) /\ Len(s) = 1 /\ s[1] = Sweep(c, 1) /\ 1 \in 1 .. Len(s)
        /\ \A d : FrameCount(s, d) = 0
    BY <1>4, OneFrame
  <2> HIDE DEF s
  <2>2. /\ Atop(Len(s), 1) /\ ctl'[1] = s[1]
        /\ \A d : FrameCount(ctl', d) = FrameCount(s, d) + FrameCount(ctl, d) - Weight(ctl[1], d)
        /\ \A d : FrameCount(ctl, d) \in Nat
    BY <1>1, <1>3, <2>1, AtopBecome DEF s
  <2>3. \A d : Weight(ctl[1], d) \in 0 .. 2
    BY WeightIs
  <2> QED
    BY <2>1, <2>2, <2>3
<1>6. \A n \in 1 .. 1 : n = 1
  OBVIOUS
<1>7. ctl'[1].op = "sweep" /\ ctl'[1].cell = c /\ ctl'[1].at = 1 /\ Dismantles(ctl'[1])
  BY <1>5 DEF Sweep, Dismantles
<1>8. Stale' = Stale /\ Swept' = Swept
  BY <1>1, <1>5, <1>6, <1>7, StaleSame, SweptSame
<1>9. /\ Owning' = Owning /\ \A h : ValueIn(h)' = ValueIn(h)
      /\ \A d : HeldCount(d)' = HeldCount(d)
  BY <1>3, <1>8, HeldStays
<1>10. \A j \in DOMAIN ctl' : Weight(ctl'[j], c) = 0
  <2> SUFFICES ASSUME NEW j \in DOMAIN ctl', j > 1 PROVE Weight(ctl'[j], c) = 0
    <3>1. \A j \in DOMAIN ctl' : j = 1 \/ j > 1
      BY <1>5 DEF Atop
    <3> QED
      BY <1>4, <1>5, <3>1
  <2>1. PICK i \in DOMAIN ctl : i > 1 /\ \A d : Weight(ctl'[j], d) = Weight(ctl[i], d)
    BY <1>5, Below
  <2> QED
    BY <1>2, <2>1
<1>11. Alone(1)' /\ Unowned(ctl[1].cell)'
  <2>1. rc'[c] = 0
    BY <1>2, <1>3 DEF HeapInv, TypeOK
  <2>2. Alone(1)'
    BY <1>2, <1>3, <1>7, <1>9, <1>10 DEF Alone
  <2>3. Unowned(ctl[1].cell)'
    BY <1>7, <1>10, <2>1 DEF Unowned
  <2> QED
    BY <2>2, <2>3
<1>12. /\ NoDangling' /\ DestroyedOnce' /\ DyingAlone' /\ SweptAlone'
       /\ UnguardedAtOnce' /\ StoresWait' /\ CollectedApart' /\ FreeAreBlank'
  <2>1. flags'.buffered \cap flags.collecting = {}
    BY <1>3 DEF HeapInv, CollectedApart
  <2>2. \A i \in DOMAIN ctl : i > 1 /\ ctl[i].op = "sweep" => rc'[ctl[i].cell] = rc[ctl[i].cell]
    BY <1>2, <1>3 DEF HeapInv, TypeOK, Dismantles
  <2>3. \A n \in 1 .. 1 :
           /\ ctl'[n].cell \in live \cup {Null} /\ ctl'[n].op # "put"
           /\ ctl'[n].op # "clear" /\ ctl'[n].op # "unguard"
           /\ ctl'[n].op = "sweep" => Unowned(ctl[n].cell)'
           /\ Dismantles(ctl'[n]) =>
                /\ Alone(n)'
                /\ \A i \in DOMAIN ctl :
                     i > 1 => Weight(ctl[i], ctl'[n].cell) = 0
                              /\ ~(Dismantles(ctl[i]) /\ ctl[i].cell = ctl'[n].cell)
                /\ \A l \in 1 .. 1 : Dismantles(ctl'[l]) => l = n
           /\ \A i \in DOMAIN ctl : i > 1 /\ ctl[i].op = "sweep" => Weight(ctl'[n], ctl[i].cell) = 0
    BY <1>2, <1>4, <1>5, <1>6, <1>7, <1>11
  <2>4. \A d : ctl[1] # Release(d)
    BY <1>1 DEF Release
  <2>5. ctl'[1].cell = ctl[1].cell /\ Dismantles(ctl'[1]) /\ ctl[1].op # "put"
    BY <1>0, <1>1, <1>7
  <2>6. flags'.collecting = flags.collecting /\ flags'.destroying = flags.destroying
        /\ flags'.buffered = flags.buffered
    BY <1>3
  <2> QED
    BY <1>3, <1>5, <1>9, <2>1, <2>2, <2>3, <2>4, <2>5, <2>6, QuietStep
<1>13. TypeOK'
  <2>1. rc' \in [Cells -> 0 .. RcMax]
    BY <1>2, <1>3, Given DEF HeapInv, TypeOK
  <2> QED
    BY <1>3, <1>5, <2>1 DEF HeapInv, TypeOK, Atop
<1>14. RefCountExact'
  <2>1. 0 = HeldCount(c)' + FrameCount(ctl', c)
    BY <1>2, <1>5, <1>9
  <2>2. \A d \in live' : d # c => HeldCount(d)' + FrameCount(ctl', d) = HeldCount(d) + FrameCount(ctl, d)
    <3> SUFFICES ASSUME NEW d \in live', d # c
                 PROVE  HeldCount(d)' + FrameCount(ctl', d) = HeldCount(d) + FrameCount(ctl, d)
      OBVIOUS
    <3>1. Weight(ctl[1], d) = 0
      BY <1>0 DEF Weight
    <3> QED
      BY <1>5, <1>9, <3>1
  <2> QED
    BY <1>2, <1>3, <2>1, <2>2, ExactBut
<1>15. BufferMatchesFlags'
  BY <1>3 DEF HeapInv, BufferMatchesFlags
<1> QED
  BY <1>12, <1>13, <1>14, <1>15 DEF HeapInv

\* A holder gives up its reference, by being overwritten, swept or emptied.
LEMMA GivesUp ==
  ASSUME TypeOK, NEW h \in Owning, NEW d,
         \A g : g # h => (g \in Owning' /\ ValueIn(g)' = d <=> g \in Owning /\ ValueIn(g) = d),
         ~(h \in Owning' /\ ValueIn(h)' = d)
  PROVE  HeldCount(d)' = HeldCount(d) - (IF ValueIn(h) = d THEN 1 ELSE 0) /\ HeldCount(d) \in Nat
<1>1. Held(d)' = Held(d) \ {h}
  BY DEF Held
<1>2. Held(d) \in SUBSET Holders /\ Held(d)' \in SUBSET Holders /\ HeldCount(d) \in Nat
  BY <1>1, OwningHolders
<1>3. CASE ValueIn(h) = d
  <2>1. h \in Held(d)
    BY <1>3 DEF Held
  <2>2. Cardinality(Held(d)) = Cardinality(Held(d)') + 1 /\ Cardinality(Held(d)') \in Nat
    BY <1>1, <1>2, <2>1, OneLess
  <2> QED
    BY <1>2, <1>3, <2>2 DEF HeldCount
<1>4. CASE ValueIn(h) # d
  <2>1. Held(d)' = Held(d)
    BY <1>1, <1>4 DEF Held
  <2> QED
    BY <1>2, <1>4, <2>1 DEF HeldCount
<1> QED
  BY <1>3, <1>4

\* A holder gets a reference.
LEMMA Takes ==
  ASSUME TypeOK, NEW h \in Holders, h \notin Owning, NEW d,
         Owning' = Owning \cup {h},
         \A g \in Owning : ValueIn(g)' = ValueIn(g)
  PROVE  HeldCount(d)' = HeldCount(d) + (IF ValueIn(h)' = d THEN 1 ELSE 0) /\ HeldCount(d) \in Nat
<1>1. Held(d) = Held(d)' \ {h}
  BY DEF Held
<1>2. Held(d) \in SUBSET Holders /\ Held(d)' \in SUBSET Holders /\ HeldCount(d) \in Nat
  <2>1. Owning' \subseteq Holders /\ Held(d) \subseteq Holders /\ HeldCount(d) \in Nat
    BY OwningHolders
  <2> QED
    BY <2>1 DEF Held
<1>3. CASE ValueIn(h)' = d
  <2>1. h \in Held(d)'
    BY <1>3 DEF Held
  <2>2. Cardinality(Held(d)') = Cardinality(Held(d)) + 1 /\ Cardinality(Held(d)) \in Nat
    BY <1>1, <1>2, <2>1, OneLess
  <2> QED
    BY <1>2, <1>3, <2>2 DEF HeldCount
<1>4. CASE ValueIn(h)' # d
  <2>1. Held(d)' = Held(d)
    BY <1>1, <1>4 DEF Held
  <2> QED
    BY <1>2, <1>4, <2>1 DEF HeldCount
<1> QED
  BY <1>3, <1>4

\* The counts of a step that gives every cell as many references as it takes.
LEMMA ExactSame ==
  ASSUME HeapInv, rc' = rc, live' \subseteq live,
         \A d \in live' : HeldCount(d)' + FrameCount(ctl', d) = HeldCount(d) + FrameCount(ctl, d)
  PROVE  RefCountExact'
<1> SUFFICES ASSUME NEW d \in live', rc'[d] # RcMax
             PROVE  rc'[d] = HeldCount(d)' + FrameCount(ctl', d)
  BY ExactNext
<1>1. rc[d] = HeldCount(d) + FrameCount(ctl, d)
  BY ExactIs DEF HeapInv
<1> QED
  BY <1>1

\* A waiting store and a sweep are not of the same cell.
LEMMA SweptNotStored ==
  ASSUME HeapInv, NEW i \in DOMAIN ctl, ctl[i].op = "sweep", NEW j \in DOMAIN ctl, ctl[j].op = "put"
  PROVE  ctl[j].holder \notin Vars => ctl[j].holder[1] # ctl[i].cell
<1> SUFFICES ASSUME ctl[j].holder \notin Vars, ctl[j].holder[1] = ctl[i].cell PROVE FALSE
  OBVIOUS
<1>1. j + 1 \in DOMAIN ctl /\ ctl[j + 1] = Release(ctl[i].cell)
  BY DEF HeapInv, StoresWait, Waits
<1>2. Weight(ctl[j + 1], ctl[i].cell) = 0
  BY <1>1 DEF HeapInv, SweptAlone, Unowned
<1> QED
  BY <1>1, <1>2 DEF Weight, Release

\* The sweep on top of the stack.
LEMMA SweptTop ==
  ASSUME HeapInv, 1 \in DOMAIN ctl, ctl[1].op = "sweep", NEW s \in Slots
  PROVE  /\ <<ctl[1].cell, s>> \notin Stale
         /\ <<ctl[1].cell, s>> \in Swept <=> s < ctl[1].at
<1>1. ctl[1].cell \in Cells /\ ctl[1].at \in 1 .. NSlots + 1
  BY FrameKinds DEF HeapInv, TypeOK
<1>2. <<ctl[1].cell, s>> \notin Stale
  <2> SUFFICES ASSUME NEW j \in DOMAIN ctl, ctl[j].op = "put", ctl[j].holder = <<ctl[1].cell, s>>
               PROVE  FALSE
    BY DEF Stale
  <2>1. ctl[j].holder \notin Vars
    BY <1>1, Given
  <2> QED
    BY <2>1, SweptNotStored
<1>3. <<ctl[1].cell, s>> \in Swept => s < ctl[1].at
  <2> SUFFICES ASSUME <<ctl[1].cell, s>> \in Swept PROVE s < ctl[1].at
    OBVIOUS
  <2>1. PICK i \in DOMAIN ctl : ctl[i].op = "sweep" /\ <<ctl[1].cell, s>> \in {ctl[i].cell} \X (1 .. ctl[i].at - 1)
    BY SweptIs
  <2>2. i = 1
    BY <2>1 DEF HeapInv, DestroyedOnce, Dismantles
  <2>3. s \in 1 .. ctl[1].at - 1
    BY <2>1, <2>2
  <2> QED
    BY <1>1, <2>3, Given
<1>4. s < ctl[1].at => <<ctl[1].cell, s>> \in Swept
  <2> SUFFICES ASSUME s < ctl[1].at PROVE <<ctl[1].cell, s>> \in Swept
    OBVIOUS
  <2>1. s \in 1 .. ctl[1].at - 1
    BY <1>1, Given
  <2> QED
    BY <2>1, SweptIs
<1> QED
  BY <1>2, <1>3, <1>4

\* The slots that the sweeps under the topmost work item have passed.
Under(h, m) == \E i \in DOMAIN ctl : i > m /\ ctl[i].op = "sweep" /\ h \in {ctl[i].cell} \X (1 .. ctl[i].at - 1)

LEMMA SweptAtop ==
  ASSUME NEW k, NEW m, Atop(k, m)
  PROVE  /\ \A h : h \in Swept <=>
              \/ Under(h, m)
              \/ m = 1 /\ ctl[1].op = "sweep" /\ h \in {ctl[1].cell} \X (1 .. ctl[1].at - 1)
         /\ \A h : h \in Swept' <=>
              \/ Under(h, m)
              \/ \E n \in 1 .. k : ctl'[n].op = "sweep" /\ h \in {ctl'[n].cell} \X (1 .. ctl'[n].at - 1)
<1>1. /\ \A n \in DOMAIN ctl' : n > k \/ n \in 1 .. k
      /\ \A n \in 1 .. k : n \in DOMAIN ctl'
      /\ \A i \in DOMAIN ctl : i > m \/ (i = 1 /\ m = 1)
      /\ m = 1 => 1 \in DOMAIN ctl
  BY DEF Atop
<1>2. \A h : h \in Swept <=>
        \/ Under(h, m)
        \/ m = 1 /\ ctl[1].op = "sweep" /\ h \in {ctl[1].cell} \X (1 .. ctl[1].at - 1)
  BY <1>1, SweptIs DEF Under
<1>3. \A h : h \in Swept' <=>
        \E n \in DOMAIN ctl' : ctl'[n].op = "sweep" /\ h \in {ctl'[n].cell} \X (1 .. ctl'[n].at - 1)
  BY DEF Swept
<1>4. ASSUME NEW h, Under(h, m) PROVE h \in Swept'
  <2>1. PICK i \in DOMAIN ctl : i > m /\ ctl[i].op = "sweep" /\ h \in {ctl[i].cell} \X (1 .. ctl[i].at - 1)
    BY <1>4 DEF Under
  <2>2. i + k - m \in DOMAIN ctl' /\ ctl'[i + k - m] = ctl[i]
    BY <2>1, Above
  <2> QED
    BY <1>3, <2>1, <2>2
<1>5. ASSUME NEW h, NEW n \in DOMAIN ctl', n > k, ctl'[n].op = "sweep",
             h \in {ctl'[n].cell} \X (1 .. ctl'[n].at - 1)
      PROVE  Under(h, m)
  <2>1. PICK i \in DOMAIN ctl : i > m /\ ctl'[n].op = ctl[i].op /\ (ctl[i].op # "destructor" => ctl'[n] = ctl[i])
    BY <1>5, Below
  <2> QED
    BY <1>5, <2>1 DEF Under
<1>6. \A h : h \in Swept' => \/ Under(h, m)
                             \/ \E n \in 1 .. k : ctl'[n].op = "sweep" /\ h \in {ctl'[n].cell} \X (1 .. ctl'[n].at - 1)
  BY <1>1, <1>3, <1>5
<1>7. \A h : (\E n \in 1 .. k : ctl'[n].op = "sweep" /\ h \in {ctl'[n].cell} \X (1 .. ctl'[n].at - 1)) => h \in Swept'
  BY <1>1, <1>3
<1> QED
  BY <1>2, <1>4, <1>6, <1>7

\* The loop of a destroy function gives up one slot.
LEMMA SweepSlotKeeps ==
  ASSUME HeapInv, SweepStep, ctl[1].at <= NSlots
  PROVE  HeapInv'
<1>0. PICK c, i, v, h : c = ctl[1].cell /\ i = ctl[1].at /\ v = slot[c][i] /\ h = <<c, i>>
  OBVIOUS
<1>1. /\ ctl \in Seq(Frames) /\ ctl # <<>> /\ 1 \in DOMAIN ctl /\ Head(ctl) = ctl[1]
      /\ ctl[1] \in Frames /\ ctl[1].op = "sweep" /\ Dismantles(ctl[1])
  BY TopIs DEF HeapInv, SweepStep, Dismantles
<1>2. /\ c \in live /\ c \in Cells
      /\ \A g \in Owning : ValueIn(g) # c
      /\ \A j \in DOMAIN ctl : j > 1 => Weight(ctl[j], c) = 0 /\ ~(Dismantles(ctl[j]) /\ ctl[j].cell = c)
      /\ c \notin flags.buffered /\ rc[c] = 0
  <2>1. rc[c] = 0
    BY <1>0, <1>1 DEF HeapInv, SweptAlone, Unowned
  <2> QED
    BY <1>0, <1>1, <2>1, DyingTop
<1>3. i \in Slots /\ i \in Nat /\ i + 1 \in 1 .. NSlots + 1
  BY <1>0, <1>1, FrameKinds, Given
<1>4. /\ Become(<<Release(v), Sweep(c, i + 1)>>)
      /\ UNCHANGED <<live, rc, slot, var, collecting, candidates, requested, flags>>
  BY <1>0, <1>1 DEF SweepStep
<1>5. h \in Owning /\ ValueIn(h) = v /\ v \in live \cup {Null} /\ v # c /\ v \in Cells \cup {Null}
  <2>1. h \notin Vars
    BY <1>0, <1>2, <1>3, Given
  <2>2. h \notin Stale /\ h \notin Swept
    BY <1>0, <1>1, <1>3, SweptTop
  <2>3. h \in Owning
    BY <1>0, <1>2, <1>3, <2>2 DEF Owning
  <2>4. ValueIn(h) = v
    BY <1>0, <2>1 DEF ValueIn
  <2> QED
    BY <1>2, <2>3, <2>4 DEF HeapInv, NoDangling, TypeOK
<1>6. Release(v) \in Frames /\ Sweep(c, i + 1) \in Frames
  BY <1>2, <1>3, <1>5 DEF Frames
<1>7. /\ Atop(2, 1) /\ ctl'[1] = Release(v) /\ ctl'[2] = Sweep(c, i + 1)
      /\ \A d : FrameCount(ctl', d) = FrameCount(ctl, d) + (IF v = d THEN 1 ELSE 0) /\ FrameCount(ctl, d) \in Nat
  <2> DEFINE s == <<Release(v), Sweep(c, i + 1)>>
  <2>1. /\ s \in Seq(Frames) /\ Len(s) = 2 /\ s[1] = Release(v) /\ s[2] = Sweep(c, i + 1)
        /\ 1 \in 1 .. Len(s) /\ 2 \in 1 .. Len(s)
    BY <1>6
  <2>2. \A d : FrameCount(s, d) = IF v = d THEN 1 ELSE 0
    <3> SUFFICES ASSUME NEW d PROVE FrameCount(s, d) = IF v = d THEN 1 ELSE 0
      OBVIOUS
    <3>1. FrameCount(s, d) = Weight(Release(v), d) + Weight(Sweep(c, i + 1), d)
      BY <1>6, TwoFrames
    <3>2. Weight(Release(v), d) = (IF v = d THEN 1 ELSE 0) /\ Weight(Sweep(c, i + 1), d) = 0
      BY DEF Weight, Release, Sweep
    <3> QED
      BY <3>1, <3>2
  <2>3. \A d : Weight(ctl[1], d) = 0
    BY <1>1 DEF Weight
  <2> HIDE DEF s
  <2>4. /\ Atop(Len(s), 1) /\ ctl'[1] = s[1] /\ ctl'[2] = s[2]
        /\ \A d : FrameCount(ctl', d) = FrameCount(s, d) + FrameCount(ctl, d) - Weight(ctl[1], d)
        /\ \A d : FrameCount(ctl, d) \in Nat
    BY <1>1, <1>4, <2>1, AtopBecome DEF s
  <2> QED
    BY <2>1, <2>2, <2>3, <2>4
<1>8. \A n \in 1 .. 2 : n = 1 \/ n = 2
  OBVIOUS
<1>9. /\ ctl'[1].op = "release" /\ ctl'[1].cell = v /\ ~Dismantles(ctl'[1])
      /\ ctl'[2].op = "sweep" /\ ctl'[2].cell = c /\ ctl'[2].at = i + 1 /\ Dismantles(ctl'[2])
  BY <1>7 DEF Release, Sweep, Dismantles
<1>10. Stale' = Stale
  BY <1>1, <1>7, <1>8, <1>9, StaleSame
<1>11. Owning' = Owning \ {h}
  <2>1. \A g : g \in Swept <=> Under(g, 1) \/ g \in {c} \X (1 .. i - 1)
    BY <1>0, <1>1, <1>7, SweptAtop
  <2>2. \A g : g \in Swept' <=> Under(g, 1) \/ g \in {c} \X (1 .. i)
    <3>1. (i + 1) - 1 = i /\ 1 \in 1 .. 2 /\ 2 \in 1 .. 2
      BY <1>3
    <3>2. \A g : g \in Swept' <=>
              \/ Under(g, 1)
              \/ \E n \in 1 .. 2 : ctl'[n].op = "sweep" /\ g \in {ctl'[n].cell} \X (1 .. ctl'[n].at - 1)
      BY <1>7, SweptAtop
    <3> QED
      BY <1>8, <1>9, <3>1, <3>2
  <2>3. \A g : g \in {c} \X (1 .. i) <=> g \in {c} \X (1 .. i - 1) \/ g = h
    <3>1. 1 .. i = (1 .. i - 1) \cup {i}
      BY <1>3, Given
    <3> QED
      BY <1>0, <3>1
  <2>4. \A g : g \in Swept' <=> g \in Swept \/ g = h
    BY <2>1, <2>2, <2>3
  <2> QED
    BY <1>4, <1>10, <2>4 DEF Owning
<1>12. \A d : HeldCount(d)' = HeldCount(d) - (IF v = d THEN 1 ELSE 0) /\ HeldCount(d) \in Nat
  <2>1. \A g : ValueIn(g)' = ValueIn(g)
    BY <1>4 DEF ValueIn
  <2> SUFFICES ASSUME NEW d
               PROVE  HeldCount(d)' = HeldCount(d) - (IF v = d THEN 1 ELSE 0) /\ HeldCount(d) \in Nat
    OBVIOUS
  <2>2. HeldCount(d)' = HeldCount(d) - (IF ValueIn(h) = d THEN 1 ELSE 0) /\ HeldCount(d) \in Nat
    BY <1>5, <1>11, <2>1, GivesUp DEF HeapInv
  <2> QED
    BY <1>5, <2>2
<1>13. \A j \in DOMAIN ctl' : j > 1 => Weight(ctl'[j], c) = 0
  <2> SUFFICES ASSUME NEW j \in DOMAIN ctl', j > 2 PROVE Weight(ctl'[j], c) = 0
    <3>1. \A j \in DOMAIN ctl' : j > 1 => j = 2 \/ j > 2
      BY <1>7 DEF Atop
    <3>2. Weight(ctl'[2], c) = 0
      BY <1>9 DEF Weight
    <3> QED
      BY <3>1, <3>2
  <2>1. PICK l \in DOMAIN ctl : l > 1 /\ \A d : Weight(ctl'[j], d) = Weight(ctl[l], d)
    BY <1>7, Below
  <2> QED
    BY <1>2, <2>1
<1>14. Alone(2)' /\ Unowned(ctl[2].cell)'
  <2>1. Alone(2)'
    <3>1. \A g \in Owning' : ValueIn(g)' # c
      BY <1>2, <1>4, <1>11 DEF ValueIn
    <3>2. \A j \in DOMAIN ctl' : j > 2 => Weight(ctl'[j], c) = 0
      BY <1>7, <1>13 DEF Atop
    <3> QED
      BY <1>2, <1>4, <1>9, <3>1, <3>2 DEF Alone
  <2>2. Unowned(ctl[2].cell)'
    <3>1. Weight(ctl'[1], c) = 0
      BY <1>5, <1>9 DEF Weight
    <3>2. \A j \in DOMAIN ctl' : j = 1 \/ j > 1
      BY <1>7 DEF Atop
    <3> QED
      BY <1>2, <1>4, <1>9, <1>13, <3>1, <3>2 DEF Unowned
  <2> QED
    BY <2>1, <2>2
<1>15. \A j \in DOMAIN ctl : j > 1 /\ ctl[j].op = "sweep" => Weight(ctl'[1], ctl[j].cell) = 0 /\ Weight(ctl'[2], ctl[j].cell) = 0
  <2> SUFFICES ASSUME NEW j \in DOMAIN ctl, j > 1, ctl[j].op = "sweep"
               PROVE  v # ctl[j].cell
    BY <1>9 DEF Weight
  <2>1. Alone(j)
    BY DEF HeapInv, DyingAlone, Dismantles
  <2> QED
    BY <1>5, <2>1 DEF Alone
<1>16. /\ NoDangling' /\ DestroyedOnce' /\ DyingAlone' /\ SweptAlone'
       /\ UnguardedAtOnce' /\ StoresWait' /\ CollectedApart' /\ FreeAreBlank'
  <2>1. flags'.buffered \cap flags.collecting = {}
    BY <1>4 DEF HeapInv, CollectedApart
  <2>2. \A n \in 1 .. 2 :
           /\ ctl'[n].cell \in live \cup {Null} /\ ctl'[n].op # "put"
           /\ ctl'[n].op # "clear" /\ ctl'[n].op # "unguard"
           /\ ctl'[n].op = "sweep" => Unowned(ctl[n].cell)'
           /\ Dismantles(ctl'[n]) =>
                /\ Alone(n)'
                /\ \A j \in DOMAIN ctl :
                     j > 1 => Weight(ctl[j], ctl'[n].cell) = 0
                              /\ ~(Dismantles(ctl[j]) /\ ctl[j].cell = ctl'[n].cell)
                /\ \A l \in 1 .. 2 : Dismantles(ctl'[l]) => l = n
           /\ \A j \in DOMAIN ctl : j > 1 /\ ctl[j].op = "sweep" => Weight(ctl'[n], ctl[j].cell) = 0
    <3> SUFFICES ASSUME NEW n \in 1 .. 2
                 PROVE /\ ctl'[n].cell \in live \cup {Null} /\ ctl'[n].op # "put"
                       /\ ctl'[n].op # "clear" /\ ctl'[n].op # "unguard"
                       /\ ctl'[n].op = "sweep" => Unowned(ctl[n].cell)'
                       /\ Dismantles(ctl'[n]) =>
                            /\ Alone(n)'
                            /\ \A j \in DOMAIN ctl :
                                 j > 1 => Weight(ctl[j], ctl'[n].cell) = 0
                                          /\ ~(Dismantles(ctl[j]) /\ ctl[j].cell = ctl'[n].cell)
                            /\ \A l \in 1 .. 2 : Dismantles(ctl'[l]) => l = n
                       /\ \A j \in DOMAIN ctl : j > 1 /\ ctl[j].op = "sweep" => Weight(ctl'[n], ctl[j].cell) = 0
      OBVIOUS
    <3>1. CASE n = 1
      BY <1>5, <1>9, <1>15, <3>1
    <3>2. CASE n = 2
      BY <1>2, <1>8, <1>9, <1>14, <1>15, <3>2
    <3> QED
      BY <1>8, <3>1, <3>2
  <2>3. \A d : ctl[1] # Release(d)
    BY <1>1 DEF Release
  <2>4. ctl'[2].cell = ctl[1].cell /\ Dismantles(ctl'[2]) /\ ctl[1].op # "put"
    BY <1>0, <1>1, <1>9
  <2>5. flags'.collecting = flags.collecting /\ flags'.destroying = flags.destroying
        /\ flags'.buffered = flags.buffered /\ Owning' \subseteq Owning /\ rc' = rc
    BY <1>4, <1>11
  <2> QED
    BY <1>4, <1>7, <2>1, <2>2, <2>3, <2>4, <2>5, QuietStep
<1>17. TypeOK'
  BY <1>4, <1>7 DEF HeapInv, TypeOK, Atop
<1>18. RefCountExact'
  BY <1>4, <1>7, <1>12, ExactSame
<1>19. BufferMatchesFlags'
  BY <1>4 DEF HeapInv, BufferMatchesFlags
<1> QED
  BY <1>16, <1>17, <1>18, <1>19 DEF HeapInv

\* The block of a swept cell is freed: nothing names it any more.
LEMMA SweepEndKeeps ==
  ASSUME HeapInv, SweepStep, ~(ctl[1].at <= NSlots)
  PROVE  HeapInv'
<1>0. PICK c : c = ctl[1].cell
  OBVIOUS
<1>1. /\ ctl \in Seq(Frames) /\ ctl # <<>> /\ 1 \in DOMAIN ctl /\ Head(ctl) = ctl[1]
      /\ ctl[1] \in Frames /\ ctl[1].op = "sweep" /\ Dismantles(ctl[1])
  BY TopIs DEF HeapInv, SweepStep, Dismantles
<1>2. /\ c \in live /\ c \in Cells /\ c # Null
      /\ \A g \in Owning : ValueIn(g) # c
      /\ \A j \in DOMAIN ctl : j > 1 => Weight(ctl[j], c) = 0 /\ ~(Dismantles(ctl[j]) /\ ctl[j].cell = c)
      /\ c \notin flags.buffered
  BY <1>0, <1>1, DyingTop
<1>3. ctl[1].at = NSlots + 1
  <2>1. ctl[1].at \in 1 .. NSlots + 1
    BY <1>1, FrameKinds
  <2> QED
    BY <2>1, Given
<1>4. /\ Become(<<>>) /\ live' = live \ {c} /\ slot' = [slot EXCEPT ![c] = [s \in Slots |-> Null]]
      /\ flags' = [flags EXCEPT !.collecting = @ \ {c}, !.destroying = @ \ {c}]
      /\ UNCHANGED <<rc, var, collecting, candidates, requested>>
  BY <1>0, <1>1 DEF SweepStep
<1>5. /\ flags' \in [buffered : SUBSET Cells, collecting : SUBSET Cells, destroying : SUBSET Cells]
      /\ flags'.buffered = flags.buffered /\ flags'.collecting = flags.collecting \ {c}
      /\ flags'.destroying = flags.destroying \ {c}
  BY <1>4 DEF HeapInv, TypeOK
<1>6. /\ Atop(0, 1)
      /\ \A d : FrameCount(ctl', d) = FrameCount(ctl, d) - Weight(ctl[1], d) /\ FrameCount(ctl, d) \in Nat
  BY <1>1, <1>4, AtopPop
<1>7. Stale' = Stale
  BY <1>1, <1>6, StaleSame
<1>8. Owning' = Owning
  <2>1. \A g : g \in Swept <=> Under(g, 1) \/ g \in {c} \X Slots
    <3>1. \A g : g \in Swept <=> Under(g, 1) \/ g \in {c} \X (1 .. ctl[1].at - 1)
      BY <1>0, <1>1, <1>6, SweptAtop
    <3>2. 1 .. ctl[1].at - 1 = Slots
      BY <1>3, Given
    <3> QED
      BY <3>1, <3>2
  <2>2. \A g : g \in Swept' <=> Under(g, 1)
    <3>1. \A g : g \in Swept' <=>
              \/ Under(g, 1)
              \/ \E n \in 1 .. 0 : ctl'[n].op = "sweep" /\ g \in {ctl'[n].cell} \X (1 .. ctl'[n].at - 1)
      BY <1>6, SweptAtop
    <3> QED
      BY <3>1
  <2>3. \A g \in Vars : g \notin {c} \X Slots
    BY <1>2, Given
  <2>4. live' \X Slots = (live \X Slots) \ ({c} \X Slots)
    BY <1>4
  <2> QED
    BY <1>7, <2>1, <2>2, <2>3, <2>4 DEF Owning
<1>9. \A g \in Holders : (g \in Vars \/ g[1] # c) => ValueIn(g)' = ValueIn(g)
  <2> SUFFICES ASSUME NEW g \in Holders, g \in Vars \/ g[1] # c PROVE ValueIn(g)' = ValueIn(g)
    OBVIOUS
  <2>1. CASE g \in Vars
    BY <1>4, <2>1 DEF ValueIn
  <2>2. CASE g \notin Vars
    <3>1. g[1] \in Cells /\ g[1] # c
      BY <2>2, SlotHolder
    <3>2. slot'[g[1]] = slot[g[1]]
      BY <1>4, <3>1 DEF HeapInv, TypeOK
    <3> QED
      BY <2>2, <3>2 DEF ValueIn
  <2> QED
    BY <2>1, <2>2
<1>10. \A g \in Owning : g \in Holders /\ ValueIn(g)' = ValueIn(g) /\ (g \notin Vars => g[1] # c)
  <2>1. \A g \in Owning : g \notin Vars => g[1] # c
    <3>1. Owning' \subseteq Vars \cup (live' \X Slots)
      BY DEF Owning
    <3> QED
      BY <1>4, <1>8, <3>1
  <2> QED
    BY <1>9, <2>1, OwningHolders DEF HeapInv
<1>11. \A d : HeldCount(d)' = HeldCount(d)
  <2>1. \A d : Held(d)' = Held(d)
    BY <1>8, <1>10 DEF Held
  <2> QED
    BY <2>1 DEF HeldCount
<1>12. \A i \in DOMAIN ctl : i > 1 => ctl[i].cell # c
  <2> SUFFICES ASSUME NEW i \in DOMAIN ctl, i > 1, ctl[i].cell = c PROVE FALSE
    OBVIOUS
  <2>1. Weight(ctl[i], c) = 0 /\ ~Dismantles(ctl[i]) /\ ctl[i] \in Frames
    BY <1>1, <1>2
  <2>2. ctl[i].op \in {"clear", "collected"}
    BY <2>1, FrameKinds DEF Weight, Dismantles
  <2>3. ctl[i].op = "clear"
    <3>1. ctl[i].op = "collected" => ctl[i].cell = Null
      BY <2>1 DEF Frames, Release, Put, Destructor, Unguard, Sweep, Clear, Collected
    <3> QED
      BY <1>2, <2>2, <3>1
  <2>4. PICK j \in DOMAIN ctl : j > i /\ ctl[j] = Release(c)
    BY <2>3 DEF HeapInv, CollectedApart
  <2>5. Weight(ctl[j], c) = 1 /\ j > 1
    BY <1>1, <2>4 DEF Weight, Release
  <2> QED
    BY <1>2, <2>5
<1>13. /\ NoDangling' /\ DestroyedOnce' /\ DyingAlone' /\ SweptAlone'
       /\ UnguardedAtOnce' /\ StoresWait' /\ CollectedApart'
  <2>1. \A h \in Owning' : /\ ValueIn(h)' \in live' \cup {Null}
                           /\ h \in Owning /\ ValueIn(h) = ValueIn(h)'
                           /\ ValueIn(h)' \in flags'.collecting => h \notin Vars /\ h[1] \in flags'.collecting
    <3> SUFFICES ASSUME NEW h \in Owning
                 PROVE  /\ ValueIn(h) \in live' \cup {Null}
                        /\ ValueIn(h) \in flags'.collecting => h \notin Vars /\ h[1] \in flags'.collecting
      BY <1>8, <1>10
    <3>1. ValueIn(h) \in live \cup {Null} /\ ValueIn(h) # c
      BY <1>2 DEF HeapInv, NoDangling
    <3>2. ValueIn(h) \in flags.collecting => h \notin Vars /\ h[1] \in flags.collecting
      BY DEF HeapInv, CollectedApart
    <3> QED
      BY <1>4, <1>5, <1>10, <3>1, <3>2
  <2>2. /\ flags'.collecting \subseteq live' \ flags'.buffered
        /\ flags'.buffered \cap Dying \subseteq flags.buffered
        /\ flags'.collecting \cap Dying \subseteq flags.collecting
    BY <1>4, <1>5 DEF HeapInv, CollectedApart
  <2>3. \A i \in DOMAIN ctl : i > 1 =>
           /\ ctl[i].cell \in live' \cup {Null}
           /\ Dismantles(ctl[i]) /\ ctl[i].cell \in flags.destroying => ctl[i].cell \in flags'.destroying
           /\ ctl[i].op = "clear" /\ ctl[i].cell \in flags.collecting => ctl[i].cell \in flags'.collecting
           /\ ctl[i].op = "sweep" => rc'[ctl[i].cell] = rc[ctl[i].cell]
           /\ ctl[i].op = "put" => \A h : h = ctl[i].holder => ValueIn(h)' = ValueIn(h)
           /\ \A d \in flags'.collecting : d \notin flags.collecting => Weight(ctl[i], d) = 0
    <3> SUFFICES ASSUME NEW i \in DOMAIN ctl, i > 1
                 PROVE  /\ ctl[i].cell \in live' \cup {Null}
                        /\ Dismantles(ctl[i]) /\ ctl[i].cell \in flags.destroying => ctl[i].cell \in flags'.destroying
                        /\ ctl[i].op = "clear" /\ ctl[i].cell \in flags.collecting => ctl[i].cell \in flags'.collecting
                        /\ ctl[i].op = "sweep" => rc'[ctl[i].cell] = rc[ctl[i].cell]
                        /\ ctl[i].op = "put" => \A h : h = ctl[i].holder => ValueIn(h)' = ValueIn(h)
                        /\ \A d \in flags'.collecting : d \notin flags.collecting => Weight(ctl[i], d) = 0
      OBVIOUS
    <3>1. ctl[i].cell \in live \cup {Null} /\ ctl[i].cell # c
      BY <1>12 DEF HeapInv, NoDangling
    <3>2. ctl[i].op = "put" => ctl[i].holder \in Holders /\ (ctl[i].holder \notin Vars => ctl[i].holder[1] # c)
      <4>1. ctl[i] \in Frames
        BY <1>1
      <4> QED
        BY <1>0, <1>1, <4>1, FrameKinds, SweptNotStored
    <3> QED
      BY <1>4, <1>5, <1>9, <3>1, <3>2
  <2> QED
    BY <1>6, <2>1, <2>2, <2>3, StepKeeps
<1>14. TypeOK'
  <2>1. slot' \in [Cells -> [Slots -> Cells \cup {Null}]]
    BY <1>4 DEF HeapInv, TypeOK
  <2> QED
    BY <1>4, <1>5, <1>6, <2>1 DEF HeapInv, TypeOK, Atop
<1>15. RefCountExact'
  <2>1. \A d : Weight(ctl[1], d) = 0
    BY <1>1 DEF Weight
  <2> QED
    BY <1>4, <1>6, <1>11, <2>1, ExactSame
<1>16. BufferMatchesFlags'
  BY <1>2, <1>4, <1>5 DEF HeapInv, BufferMatchesFlags
<1>17. FreeAreBlank'
  <2> SUFFICES ASSUME NEW d \in Cells \ live', NEW s \in Slots PROVE slot'[d][s] = Null
    BY DEF FreeAreBlank
  <2>1. slot \in [Cells -> [Slots -> Cells \cup {Null}]]
    BY DEF HeapInv, TypeOK
  <2>2. CASE d = c
    BY <1>4, <2>1, <2>2
  <2>3. CASE d # c
    <3>1. d \in Cells \ live /\ slot'[d] = slot[d]
      BY <1>4, <2>1, <2>3
    <3> QED
      BY <3>1 DEF HeapInv, FreeAreBlank
  <2> QED
    BY <2>2, <2>3
<1> QED
  BY <1>13, <1>14, <1>15, <1>16, <1>17 DEF HeapInv

LEMMA SweepKeeps ==
  ASSUME HeapInv, SweepStep
  PROVE  HeapInv'
BY SweepSlotKeeps, SweepEndKeeps

-----------------------------------------------------------------------------
(* Stores.                                                                 *)

\* The holders that wait to be overwritten.
LEMMA StaleAtop ==
  ASSUME NEW k, NEW m, Atop(k, m)
  PROVE  /\ \A h : h \in Stale <=>
              \/ \E i \in DOMAIN ctl : i > m /\ ctl[i].op = "put" /\ ctl[i].holder = h
              \/ m = 1 /\ ctl[1].op = "put" /\ ctl[1].holder = h
         /\ \A h : h \in Stale' <=>
              \/ \E i \in DOMAIN ctl : i > m /\ ctl[i].op = "put" /\ ctl[i].holder = h
              \/ \E n \in 1 .. k : ctl'[n].op = "put" /\ ctl'[n].holder = h
<1>1. /\ \A n \in DOMAIN ctl' : n > k \/ n \in 1 .. k
      /\ \A n \in 1 .. k : n \in DOMAIN ctl'
      /\ \A i \in DOMAIN ctl : i > m \/ (i = 1 /\ m = 1)
      /\ m = 1 => 1 \in DOMAIN ctl
  BY DEF Atop
<1>2. \A h : h \in Stale <=> \E i \in DOMAIN ctl : ctl[i].op = "put" /\ ctl[i].holder = h
  BY DEF Stale
<1>3. \A h : h \in Stale' <=> \E n \in DOMAIN ctl' : ctl'[n].op = "put" /\ ctl'[n].holder = h
  BY DEF Stale
<1>4. ASSUME NEW i \in DOMAIN ctl, i > m, ctl[i].op = "put"
      PROVE  \E n \in DOMAIN ctl' : ctl'[n].op = "put" /\ ctl'[n].holder = ctl[i].holder
  <2>1. i + k - m \in DOMAIN ctl' /\ ctl'[i + k - m] = ctl[i]
    BY <1>4, Above
  <2> QED
    BY <1>4, <2>1
<1>5. ASSUME NEW n \in DOMAIN ctl', n > k, ctl'[n].op = "put"
      PROVE  \E i \in DOMAIN ctl : i > m /\ ctl[i].op = "put" /\ ctl[i].holder = ctl'[n].holder
  <2>1. PICK i \in DOMAIN ctl : i > m /\ ctl'[n].op = ctl[i].op /\ (ctl[i].op # "destructor" => ctl'[n] = ctl[i])
    BY <1>5, Below
  <2> QED
    BY <1>5, <2>1
<1>6. \A h : h \in Stale <=>
         \/ \E i \in DOMAIN ctl : i > m /\ ctl[i].op = "put" /\ ctl[i].holder = h
         \/ m = 1 /\ ctl[1].op = "put" /\ ctl[1].holder = h
  BY <1>1, <1>2
<1>7. \A h : h \in Stale' =>
         \/ \E i \in DOMAIN ctl : i > m /\ ctl[i].op = "put" /\ ctl[i].holder = h
         \/ \E n \in 1 .. k : ctl'[n].op = "put" /\ ctl'[n].holder = h
  BY <1>1, <1>3, <1>5
<1>8. \A h : (\E i \in DOMAIN ctl : i > m /\ ctl[i].op = "put" /\ ctl[i].holder = h) => h \in Stale'
  BY <1>3, <1>4
<1>9. \A h : (\E n \in 1 .. k : ctl'[n].op = "put" /\ ctl'[n].holder = h) => h \in Stale'
  BY <1>1, <1>3
<1> QED
  BY <1>6, <1>7, <1>8, <1>9

\* No sweep has passed a variable.
LEMMA SweptSlots ==
  ASSUME TypeOK, NEW h \in Swept
  PROVE  h \in Cells \X Slots /\ h \notin Vars /\ \E i \in DOMAIN ctl : ctl[i].op = "sweep" /\ ctl[i].cell = h[1]
<1>1. PICK i \in DOMAIN ctl : ctl[i].op = "sweep" /\ h \in {ctl[i].cell} \X (1 .. ctl[i].at - 1)
  BY SweptIs
<1>2. ctl[i] \in Frames
  BY DEF TypeOK
<1>3. ctl[i].cell \in Cells /\ ctl[i].at \in 1 .. NSlots + 1
  BY <1>1, <1>2, FrameKinds
<1>4. h[1] = ctl[i].cell /\ h[2] \in Slots /\ h = <<h[1], h[2]>>
  BY <1>1, <1>3, Given
<1>5. h \in Cells \X Slots
  BY <1>3, <1>4
<1> QED
  BY <1>1, <1>4, <1>5, Given

\* One slot of one cell, or one variable, is written.
LEMMA SlotWrite ==
  ASSUME TypeOK, NEW h \in Holders, NEW v \in Cells \cup {Null},
         \/ h \notin Vars /\ slot' = [slot EXCEPT ![h[1]][h[2]] = v] /\ var' = var
         \/ h \in Vars /\ var' = [var EXCEPT ![h] = v] /\ slot' = slot
  PROVE  /\ slot' \in [Cells -> [Slots -> Cells \cup {Null}]] /\ var' \in [Vars -> Cells \cup {Null}]
         /\ ValueIn(h)' = v /\ \A g \in Holders : g # h => ValueIn(g)' = ValueIn(g)
         /\ \A d \in Cells : h \in Vars \/ h[1] # d => slot'[d] = slot[d]
<1>1. slot \in [Cells -> [Slots -> Cells \cup {Null}]] /\ var \in [Vars -> Cells \cup {Null}]
  BY DEF TypeOK
<1>2. CASE h \in Vars /\ var' = [var EXCEPT ![h] = v] /\ slot' = slot
  <2>1. var'[h] = v /\ \A g \in Vars : g # h => var'[g] = var[g]
    BY <1>1, <1>2
  <2> QED
    BY <1>1, <1>2, <2>1 DEF ValueIn
<1>3. CASE h \notin Vars /\ slot' = [slot EXCEPT ![h[1]][h[2]] = v] /\ var' = var
  <2>1. h[1] \in Cells /\ h[2] \in Slots /\ h = <<h[1], h[2]>>
    BY <1>3, SlotHolder
  <2>2. slot' = [slot EXCEPT ![h[1]] = [slot[h[1]] EXCEPT ![h[2]] = v]]
    BY <1>3
  <2>3. [slot[h[1]] EXCEPT ![h[2]] = v] \in [Slots -> Cells \cup {Null}]
    BY <1>1, <2>1
  <2>4. slot' \in [Cells -> [Slots -> Cells \cup {Null}]] /\ slot'[h[1]][h[2]] = v
    BY <1>1, <2>1, <2>2, <2>3
  <2>5. \A a \in Cells, b \in Slots : <<a, b>> # <<h[1], h[2]>> => slot'[a][b] = slot[a][b]
    BY <1>1, <2>1, <2>2
  <2>6. \A g \in Holders : g \notin Vars => g[1] \in Cells /\ g[2] \in Slots /\ g = <<g[1], g[2]>>
    BY SlotHolder
  <2>7. ValueIn(h)' = v /\ \A g \in Holders : g # h => ValueIn(g)' = ValueIn(g)
    BY <1>3, <2>1, <2>4, <2>5, <2>6 DEF ValueIn
  <2>8. \A d \in Cells : h[1] # d => slot'[d] = slot[d]
    BY <1>1, <2>2
  <2> QED
    BY <1>1, <1>3, <2>4, <2>7, <2>8
<1> QED
  BY <1>2, <1>3

\* The assignment behind the release of the old value.
LEMMA PutKeeps ==
  ASSUME HeapInv, PutStep
  PROVE  HeapInv'
<1>0. PICK h, v : h = ctl[1].holder /\ v = ctl[1].cell
  OBVIOUS
<1>1. /\ ctl \in Seq(Frames) /\ ctl # <<>> /\ 1 \in DOMAIN ctl /\ Head(ctl) = ctl[1]
      /\ ctl[1] \in Frames /\ ctl[1].op = "put"
  BY TopIs DEF HeapInv, PutStep
<1>2. /\ Become(<<>>) /\ UNCHANGED <<live, rc, collecting, candidates, requested, flags>>
      /\ h \in Vars => var' = [var EXCEPT ![h] = v] /\ slot' = slot
      /\ h \notin Vars => slot' = [slot EXCEPT ![h[1]][h[2]] = v] /\ var' = var
  BY <1>0, <1>1 DEF PutStep, gcVars
<1>3. h \in Holders /\ v \in live \cup {Null} /\ v \in Cells \cup {Null}
  BY <1>0, <1>1, FrameKinds DEF HeapInv, NoDangling
<1>4. /\ h \notin Vars => h[1] \in live /\ h[1] \notin flags.collecting
      /\ v \notin flags.collecting \cup Dying
      /\ \A j \in DOMAIN ctl : ctl[j].op = "put" /\ j > 1 => ctl[j].holder # h
  <2>1. Waits(1)
    BY <1>1 DEF HeapInv, StoresWait
  <2>2. ASSUME h \notin Vars PROVE h[1] \in live /\ h[1] \notin flags.collecting
    <3>1. 1 + 1 \in DOMAIN ctl /\ ctl[1 + 1] = Release(h[1]) /\ h[1] \notin flags.collecting
      BY <1>0, <2>1, <2>2 DEF Waits
    <3>2. ctl[1 + 1].cell = h[1]
      BY <3>1 DEF Release
    <3>3. h[1] \in live \cup {Null}
      BY <3>1, <3>2 DEF HeapInv, NoDangling
    <3>4. h[1] # Null
      BY <1>3, <2>2, SlotHolder, Given
    <3> QED
      BY <3>1, <3>3, <3>4
  <2> QED
    BY <1>0, <1>1, <2>1, <2>2 DEF Waits
<1>5. /\ Atop(0, 1)
      /\ \A d : FrameCount(ctl', d) = FrameCount(ctl, d) - Weight(ctl[1], d) /\ FrameCount(ctl, d) \in Nat
  BY <1>1, <1>2, AtopPop
<1>6. \A g : g \in Stale <=> g \in Stale' \/ g = h
  <2>1. \A n : n \notin 1 .. 0
    OBVIOUS
  <2>2. \A g : g \in Stale' <=> \E i \in DOMAIN ctl : i > 1 /\ ctl[i].op = "put" /\ ctl[i].holder = g
    BY <1>5, <2>1, StaleAtop
  <2> QED
    BY <1>0, <1>1, <1>5, <2>2, StaleAtop
<1>7. h \notin Stale'
  <2>1. \A n : n \notin 1 .. 0
    OBVIOUS
  <2>2. \A g : g \in Stale' <=> \E i \in DOMAIN ctl : i > 1 /\ ctl[i].op = "put" /\ ctl[i].holder = g
    BY <1>5, <2>1, StaleAtop
  <2> QED
    BY <1>4, <2>2
<1>8. Swept' = Swept /\ h \notin Swept
  <2>1. Swept' = Swept
    BY <1>1, <1>5, SweptSame
  <2>2. ASSUME h \in Swept PROVE FALSE
    <3>1. h \notin Vars /\ \E i \in DOMAIN ctl : ctl[i].op = "sweep" /\ ctl[i].cell = h[1]
      BY <2>2, SweptSlots DEF HeapInv
    <3> QED
      BY <1>0, <1>1, <3>1, SweptNotStored
  <2> QED
    BY <2>1, <2>2
<1>9. Owning' = Owning \cup {h} /\ h \notin Owning
  <2>1. h \in Vars \cup (live \X Slots)
    BY <1>3, <1>4, SlotHolder
  <2>2. h \in Stale
    BY <1>6
  <2> QED
    BY <1>2, <1>6, <1>7, <1>8, <2>1, <2>2 DEF Owning
<1>10. /\ slot' \in [Cells -> [Slots -> Cells \cup {Null}]] /\ var' \in [Vars -> Cells \cup {Null}]
       /\ ValueIn(h)' = v /\ \A g \in Holders : g # h => ValueIn(g)' = ValueIn(g)
       /\ \A d \in Cells : h \in Vars \/ h[1] # d => slot'[d] = slot[d]
  BY <1>2, <1>3, SlotWrite DEF HeapInv
<1>11. Owning \subseteq Holders
  BY OwningHolders DEF HeapInv
<1>12. \A d : HeldCount(d)' = HeldCount(d) + (IF v = d THEN 1 ELSE 0) /\ HeldCount(d) \in Nat
  <2>1. \A g \in Owning : ValueIn(g)' = ValueIn(g)
    BY <1>9, <1>10, <1>11
  <2> SUFFICES ASSUME NEW d
               PROVE  HeldCount(d)' = HeldCount(d) + (IF v = d THEN 1 ELSE 0) /\ HeldCount(d) \in Nat
    OBVIOUS
  <2>2. HeldCount(d)' = HeldCount(d) + (IF ValueIn(h)' = d THEN 1 ELSE 0) /\ HeldCount(d) \in Nat
    BY <1>3, <1>9, <2>1, Takes DEF HeapInv
  <2> QED
    BY <1>10, <2>2
<1>13. /\ NoDangling' /\ DestroyedOnce' /\ DyingAlone' /\ SweptAlone'
       /\ UnguardedAtOnce' /\ StoresWait' /\ CollectedApart'
  <2>1. \A g \in Owning' : g = h \/ (g \in Owning /\ ValueIn(g)' = ValueIn(g))
    BY <1>9, <1>10, <1>11
  <2>2. /\ \A g \in Owning' : ValueIn(g)' \in live' \cup {Null}
        /\ \A g \in Owning' : ValueIn(g)' \in Dying => g \in Owning /\ ValueIn(g) = ValueIn(g)'
        /\ \A g \in Owning' : ValueIn(g)' \in flags'.collecting => g \notin Vars /\ g[1] \in flags'.collecting
    BY <1>2, <1>3, <1>4, <1>10, <2>1 DEF HeapInv, NoDangling, CollectedApart
  <2>3. flags'.collecting \subseteq live' \ flags'.buffered
    BY <1>2 DEF HeapInv, CollectedApart
  <2>4. \A i \in DOMAIN ctl : i > 1 =>
           /\ ctl[i].cell \in live' \cup {Null}
           /\ ctl[i].op = "put" => \A g : g = ctl[i].holder => ValueIn(g)' = ValueIn(g)
    <3> SUFFICES ASSUME NEW i \in DOMAIN ctl, i > 1
                 PROVE  /\ ctl[i].cell \in live' \cup {Null}
                        /\ ctl[i].op = "put" => \A g : g = ctl[i].holder => ValueIn(g)' = ValueIn(g)
      OBVIOUS
    <3>1. ctl[i].op = "put" => ctl[i].holder \in Holders /\ ctl[i].holder # h
      <4>1. ctl[i] \in Frames
        BY <1>1
      <4> QED
        BY <1>4, <4>1, FrameKinds
    <3> QED
      BY <1>2, <1>10, <3>1 DEF HeapInv, NoDangling
  <2> QED
    BY <1>2, <1>5, <2>2, <2>3, <2>4, StepKeeps
<1>14. TypeOK'
  BY <1>2, <1>5, <1>10 DEF HeapInv, TypeOK, Atop
<1>15. RefCountExact'
  <2>1. \A d : Weight(ctl[1], d) = IF v = d THEN 1 ELSE 0
    BY <1>0, <1>1 DEF Weight
  <2> QED
    BY <1>2, <1>5, <1>12, <2>1, ExactSame
<1>16. BufferMatchesFlags'
  BY <1>2 DEF HeapInv, BufferMatchesFlags
<1>17. FreeAreBlank'
  <2> SUFFICES ASSUME NEW d \in Cells \ live, NEW s \in Slots PROVE slot'[d][s] = Null
    BY <1>2 DEF FreeAreBlank
  <2>1. slot'[d] = slot[d]
    BY <1>4, <1>10
  <2> QED
    BY <2>1 DEF HeapInv, FreeAreBlank
<1> QED
  BY <1>13, <1>14, <1>15, <1>16, <1>17 DEF HeapInv

\* What a holder names, no sweep under way is of.
LEMMA OwnedNotSwept ==
  ASSUME HeapInv, NEW h \in Owning, NEW i \in DOMAIN ctl, ctl[i].op = "sweep"
  PROVE  Weight(Release(ValueIn(h)), ctl[i].cell) = 0 /\ ValueIn(h) # ctl[i].cell
<1>1. Alone(i)
  BY DEF HeapInv, DyingAlone, Dismantles
<1>2. ValueIn(h) # ctl[i].cell
  BY <1>1 DEF Alone
<1> QED
  BY <1>2 DEF Weight, Release

\* Null is neither dying nor collected, and no holder names a dying cell.
LEMMA NullStays ==
  ASSUME HeapInv
  PROVE  /\ Null \notin Dying /\ Null \notin flags.collecting
         /\ \A g \in Owning : ValueIn(g) \notin Dying
<1>1. Null \notin flags.collecting
  BY Given DEF HeapInv, TypeOK
<1>2. \A j \in DOMAIN ctl : Dismantles(ctl[j]) => ctl[j].cell # Null
  <2> SUFFICES ASSUME NEW j \in DOMAIN ctl, Dismantles(ctl[j]) PROVE ctl[j].cell # Null
    OBVIOUS
  <2>1. ctl[j] \in Frames
    BY DEF HeapInv, TypeOK
  <2> QED
    BY <2>1, FrameKinds, Given DEF Dismantles
<1>3. \A g \in Owning : ValueIn(g) \notin Dying
  <2> SUFFICES ASSUME NEW g \in Owning, NEW j \in DOMAIN ctl, Dismantles(ctl[j]), ctl[j].cell = ValueIn(g)
               PROVE  FALSE
    BY DEF Dying
  <2>1. Alone(j)
    BY DEF HeapInv, DyingAlone
  <2> QED
    BY <2>1 DEF Alone
<1>4. Null \notin Dying
  BY <1>2 DEF Dying
<1> QED
  BY <1>1, <1>3, <1>4

\* release_child() of the collector: one slot of a dead cell.
LEMMA ClearKeeps ==
  ASSUME HeapInv, ClearStep
  PROVE  HeapInv'
<1>0. PICK c, i, v, h : c = ctl[1].cell /\ i = ctl[1].at /\ v = slot[c][i] /\ h = <<c, i>>
  OBVIOUS
<1> DEFINE s == IF i < NSlots THEN <<Release(v), Clear(c, i + 1)>> ELSE <<Release(v)>>
           k == IF i < NSlots THEN 2 ELSE 1
<1>1. /\ ctl \in Seq(Frames) /\ ctl # <<>> /\ 1 \in DOMAIN ctl /\ Head(ctl) = ctl[1]
      /\ ctl[1] \in Frames /\ ctl[1].op = "clear"
  BY TopIs DEF HeapInv, ClearStep
<1>2. c \in Cells /\ i \in Slots /\ i \in Nat /\ i >= 1 /\ i <= NSlots
  BY <1>0, <1>1, FrameKinds, Given
<1>3. /\ Become(s) /\ slot' = [slot EXCEPT ![c][i] = Null]
      /\ UNCHANGED <<live, rc, var, collecting, candidates, requested, flags>>
  <2>1. Become(<<Release(v)>> \o (IF i < NSlots THEN <<Clear(c, i + 1)>> ELSE <<>>))
        /\ slot' = [slot EXCEPT ![c][i] = Null]
        /\ UNCHANGED <<live, rc, var, collecting, candidates, requested, flags>>
    BY <1>0, <1>1 DEF ClearStep, gcVars
  <2>2. \A f \in {Release(v), Clear(c, i + 1)}, g \in {Release(v), Clear(c, i + 1)} :
          <<f>> \o <<g>> = <<f, g>> /\ <<f>> \o <<>> = <<f>>
    BY JoinOfTwo
  <2>3. <<Release(v)>> \o (IF i < NSlots THEN <<Clear(c, i + 1)>> ELSE <<>>) = s
    BY <2>2, Zenon
  <2> HIDE DEF s
  <2> QED
    BY <2>1, <2>3
<1>4. /\ c \in flags.collecting /\ c \in live
      /\ \E j \in DOMAIN ctl : j > 1 /\ ctl[j] = Release(c)
  BY <1>0, <1>1 DEF HeapInv, CollectedApart
<1>5. h \in Holders /\ h \notin Vars /\ h[1] = c /\ h[2] = i
  BY <1>0, <1>2, Given DEF Holders
<1>6. h \notin Swept
  <2> SUFFICES ASSUME h \in Swept PROVE FALSE
    OBVIOUS
  <2>1. PICK j \in DOMAIN ctl : ctl[j].op = "sweep" /\ ctl[j].cell = c
    BY <1>5, SweptSlots DEF HeapInv
  <2>2. PICK l \in DOMAIN ctl : ctl[l] = Release(c)
    BY <1>4
  <2>3. Weight(ctl[l], c) = 0
    BY <2>1 DEF HeapInv, SweptAlone, Unowned
  <2> QED
    BY <2>2, <2>3 DEF Weight, Release
<1>7. \A j \in DOMAIN ctl : ctl[j].op = "put" => ctl[j].holder # h
  BY <1>4, <1>5 DEF HeapInv, StoresWait, Waits
<1>8. h \in Owning /\ ValueIn(h) = v /\ v \in live \cup {Null} /\ v \in Cells \cup {Null}
  <2>1. h \notin Stale
    BY <1>7 DEF Stale
  <2>2. h \in Owning
    BY <1>0, <1>2, <1>4, <1>6, <2>1 DEF Owning
  <2> QED
    BY <1>0, <1>2, <1>5, <2>2 DEF ValueIn, HeapInv, NoDangling, TypeOK
<1>9. Release(v) \in Frames /\ (i < NSlots => Clear(c, i + 1) \in Frames)
  <2>1. i < NSlots => i + 1 \in Slots
    BY <1>2, Given
  <2> QED
    BY <1>2, <1>8, <2>1 DEF Frames
<1>10. /\ s \in Seq(Frames) /\ Len(s) = k /\ s[1] = Release(v) /\ (i < NSlots => s[2] = Clear(c, i + 1))
       /\ \A d : FrameCount(s, d) = IF v = d THEN 1 ELSE 0
  <2>1. \A d : Weight(Release(v), d) = (IF v = d THEN 1 ELSE 0) /\ Weight(Clear(c, i + 1), d) = 0
    BY DEF Weight, Release, Clear
  <2>2. CASE i < NSlots
    <3>1. s = <<Release(v), Clear(c, i + 1)>> /\ k = 2
      BY <2>2
    <3> HIDE DEF s
    <3>2. \A d : FrameCount(s, d) = Weight(Release(v), d) + Weight(Clear(c, i + 1), d)
      BY <1>9, <2>2, <3>1, TwoFrames
    <3> QED
      BY <1>9, <2>1, <2>2, <3>1, <3>2
  <2>3. CASE ~(i < NSlots)
    <3>1. s = <<Release(v)>> /\ k = 1
      BY <2>3
    <3> HIDE DEF s
    <3> QED
      BY <1>9, <2>1, <2>3, <3>1, OneFrame
  <2> QED
    BY <2>2, <2>3
<1> HIDE DEF s
<1>11. /\ k \in {1, 2} /\ Atop(k, 1) /\ ctl'[1] = Release(v) /\ (i < NSlots => ctl'[2] = Clear(c, i + 1))
       /\ \A d : FrameCount(ctl', d) = FrameCount(ctl, d) + (IF v = d THEN 1 ELSE 0) /\ FrameCount(ctl, d) \in Nat
  <2>1. /\ Atop(Len(s), 1) /\ \A j \in 1 .. Len(s) : ctl'[j] = s[j]
        /\ \A d : FrameCount(ctl', d) = FrameCount(s, d) + FrameCount(ctl, d) - Weight(ctl[1], d)
        /\ \A d : FrameCount(ctl, d) \in Nat
    BY <1>1, <1>3, <1>10, AtopBecome
  <2>2. \A d : Weight(ctl[1], d) = 0
    BY <1>1 DEF Weight
  <2>3. 1 \in 1 .. Len(s) /\ (i < NSlots => 2 \in 1 .. Len(s))
    BY <1>10
  <2> QED
    BY <1>10, <2>1, <2>2, <2>3
<1>12. \A n \in 1 .. k : n = 1 \/ (n = 2 /\ i < NSlots)
  BY <1>2
<1> HIDE DEF k
<1>13. /\ ctl'[1].op = "release" /\ ctl'[1].cell = v
       /\ i < NSlots => ctl'[2].op = "clear" /\ ctl'[2].cell = c
  BY <1>11 DEF Release, Clear
<1>14. Stale' = Stale /\ Swept' = Swept /\ Owning' = Owning
  <2>1. \A n \in 1 .. k : ctl'[n].op # "put" /\ ctl'[n].op # "sweep"
    BY <1>12, <1>13
  <2>2. Stale' = Stale /\ Swept' = Swept
    BY <1>1, <1>11, <2>1, StaleSame, SweptSame
  <2> QED
    BY <1>3, <2>2 DEF Owning
<1>15. /\ slot' \in [Cells -> [Slots -> Cells \cup {Null}]]
       /\ ValueIn(h)' = Null /\ \A g \in Holders : g # h => ValueIn(g)' = ValueIn(g)
       /\ \A d \in Cells : c # d => slot'[d] = slot[d]
  <2>1. slot' = [slot EXCEPT ![h[1]][h[2]] = Null] /\ var' = var
    BY <1>3, <1>5
  <2> QED
    BY <1>5, <2>1, SlotWrite DEF HeapInv
<1>16. \A d \in live : HeldCount(d)' = HeldCount(d) - (IF v = d THEN 1 ELSE 0) /\ HeldCount(d) \in Nat
  <2> SUFFICES ASSUME NEW d \in live
               PROVE  HeldCount(d)' = HeldCount(d) - (IF v = d THEN 1 ELSE 0) /\ HeldCount(d) \in Nat
    OBVIOUS
  <2>1. d # Null
    BY Given DEF HeapInv, TypeOK
  <2>2. \A g : g # h => (g \in Owning' /\ ValueIn(g)' = d <=> g \in Owning /\ ValueIn(g) = d)
    BY <1>14, <1>15, OwningHolders DEF HeapInv
  <2>3. ~(h \in Owning' /\ ValueIn(h)' = d)
    BY <1>15, <2>1
  <2>4. HeldCount(d)' = HeldCount(d) - (IF ValueIn(h) = d THEN 1 ELSE 0) /\ HeldCount(d) \in Nat
    BY <1>8, <2>2, <2>3, GivesUp DEF HeapInv
  <2> QED
    BY <1>8, <2>4
<1>17. /\ NoDangling' /\ DestroyedOnce' /\ DyingAlone' /\ SweptAlone'
       /\ UnguardedAtOnce' /\ StoresWait' /\ CollectedApart'
  <2>1. \A g \in Owning : g \in Holders /\ (ValueIn(g)' = Null \/ ValueIn(g)' = ValueIn(g))
    BY <1>15, OwningHolders DEF HeapInv
  <2>2. Null \notin Dying /\ Null \notin flags.collecting /\ \A g \in Owning : ValueIn(g) \notin Dying
    BY NullStays
  <2>3. \A g \in Owning' : /\ ValueIn(g)' \in live' \cup {Null}
                           /\ ValueIn(g)' \in Dying => g \in Owning /\ ValueIn(g) = ValueIn(g)'
                           /\ ValueIn(g)' \in flags'.collecting => g \notin Vars /\ g[1] \in flags'.collecting
    <3> SUFFICES ASSUME NEW g \in Owning
                 PROVE  /\ ValueIn(g)' \in live \cup {Null}
                        /\ ValueIn(g)' \in Dying => ValueIn(g) = ValueIn(g)'
                        /\ ValueIn(g)' \in flags.collecting => g \notin Vars /\ g[1] \in flags.collecting
      BY <1>3, <1>14
    <3>1. ValueIn(g) \in live \cup {Null}
      BY DEF HeapInv, NoDangling
    <3>2. ValueIn(g) \in flags.collecting => g \notin Vars /\ g[1] \in flags.collecting
      BY DEF HeapInv, CollectedApart
    <3> QED
      BY <2>1, <2>2, <3>1, <3>2
  <2>4. flags'.collecting \subseteq live' \ flags'.buffered
    BY <1>3 DEF HeapInv, CollectedApart
  <2>5. \A j \in DOMAIN ctl : j > 1 =>
           /\ ctl[j].cell \in live' \cup {Null}
           /\ ctl[j].op = "put" => \A g : g = ctl[j].holder => ValueIn(g)' = ValueIn(g)
    <3> SUFFICES ASSUME NEW j \in DOMAIN ctl, j > 1
                 PROVE  /\ ctl[j].cell \in live' \cup {Null}
                        /\ ctl[j].op = "put" => \A g : g = ctl[j].holder => ValueIn(g)' = ValueIn(g)
      OBVIOUS
    <3>1. ctl[j].op = "put" => ctl[j].holder \in Holders /\ ctl[j].holder # h
      <4>1. ctl[j] \in Frames
        BY <1>1
      <4> QED
        BY <1>7, <4>1, FrameKinds
    <3> QED
      BY <1>3, <1>15, <3>1 DEF HeapInv, NoDangling
  <2>6. i < NSlots => \E l \in DOMAIN ctl' : l > 2 /\ ctl'[l] = Release(c)
    <3> SUFFICES ASSUME i < NSlots PROVE \E l \in DOMAIN ctl' : l > 2 /\ ctl'[l] = Release(c)
      OBVIOUS
    <3>1. PICK j \in DOMAIN ctl : j > 1 /\ ctl[j] = Release(c)
      BY <1>4
    <3>2. ctl[j].op # "destructor" /\ k = 2 /\ j \in Nat
      BY <1>1, <3>1 DEF Release, k
    <3>3. j + 2 - 1 \in DOMAIN ctl' /\ ctl'[j + 2 - 1] = ctl[j]
      BY <1>11, <3>1, <3>2, Above
    <3> QED
      BY <3>1, <3>2, <3>3
  <2>7. \A n \in 1 .. k :
           /\ ctl'[n].cell \in live' \cup {Null}
           /\ ctl'[n].op = "clear" =>
                /\ ctl'[n].cell \in flags'.collecting
                /\ \E l \in DOMAIN ctl' : l > n /\ ctl'[l] = Release(ctl'[n].cell)
           /\ ctl'[n].op # "unguard" /\ ctl'[n].op # "put" /\ ctl'[n].op # "sweep"
           /\ ~Dismantles(ctl'[n])
           /\ \A j \in DOMAIN ctl : j > 1 /\ ctl[j].op = "sweep" => Weight(ctl'[n], ctl[j].cell) = 0
    <3>1. \A j \in DOMAIN ctl : ctl[j].op = "sweep" => Weight(ctl'[1], ctl[j].cell) = 0
      BY <1>8, <1>11, OwnedNotSwept
    <3>2. i < NSlots => \A d : Weight(ctl'[2], d) = 0
      BY <1>13 DEF Weight
    <3>3. ~Dismantles(ctl'[1]) /\ (i < NSlots => ~Dismantles(ctl'[2]))
      BY <1>13 DEF Dismantles
    <3> SUFFICES ASSUME NEW n \in 1 .. k
                 PROVE  /\ ctl'[n].cell \in live' \cup {Null}
                        /\ ctl'[n].op = "clear" =>
                             /\ ctl'[n].cell \in flags'.collecting
                             /\ \E l \in DOMAIN ctl' : l > n /\ ctl'[l] = Release(ctl'[n].cell)
                        /\ ctl'[n].op # "unguard" /\ ctl'[n].op # "put" /\ ctl'[n].op # "sweep"
                        /\ ~Dismantles(ctl'[n])
                        /\ \A j \in DOMAIN ctl : j > 1 /\ ctl[j].op = "sweep" => Weight(ctl'[n], ctl[j].cell) = 0
      OBVIOUS
    <3>4. CASE n = 1
      BY <1>3, <1>8, <1>13, <3>1, <3>3, <3>4
    <3>5. CASE n = 2 /\ i < NSlots
      BY <1>3, <1>4, <1>13, <2>6, <3>2, <3>3, <3>5
    <3> QED
      BY <1>12, <3>4, <3>5
  <2>8. ~(2 \in DOMAIN ctl /\ ctl[2].op = "put") /\ \A d : ctl[1] # Release(d)
    <3>1. ASSUME 2 \in DOMAIN ctl, ctl[2].op = "put" PROVE FALSE
      <4>1. Waits(2)
        BY <3>1 DEF HeapInv, StoresWait
      <4>2. 2 - 1 = 1 /\ 2 > 1
        OBVIOUS
      <4>3. Dismantles(ctl[1]) \/ ctl[1].op = "release"
        BY <4>1, <4>2 DEF Waits
      <4> QED
        BY <1>1, <4>3 DEF Dismantles
    <3> QED
      BY <1>1, <3>1 DEF Release
  <2>9. flags' = flags /\ rc' = rc
    BY <1>3
  <2> QED
    BY <1>11, <2>3, <2>4, <2>5, <2>7, <2>8, <2>9, StepKeeps
<1>18. TypeOK'
  BY <1>3, <1>11, <1>15 DEF HeapInv, TypeOK, Atop
<1>19. RefCountExact'
  BY <1>3, <1>11, <1>16, ExactSame
<1>20. BufferMatchesFlags'
  BY <1>3 DEF HeapInv, BufferMatchesFlags
<1>21. FreeAreBlank'
  BY <1>3, <1>4, <1>15 DEF HeapInv, FreeAreBlank
<1> QED
  BY <1>17, <1>18, <1>19, <1>20, <1>21 DEF HeapInv

\* unset(): the variable is empty before its old value is released.
LEMMA UnsetKeeps ==
  ASSUME HeapInv, Disciplined, NEW v \in Vars \ Avoided, Unset(v)
  PROVE  HeapInv'
<1>0. PICK u : u = var[v]
  OBVIOUS
<1> DEFINE s == <<Release(u)>>
<1>1. /\ MayExecute /\ Running /\ v \in Vars /\ v \notin Stale
      /\ var' = [var EXCEPT ![v] = Null] /\ ctl' = s \o Rest
      /\ UNCHANGED <<live, rc, slot, collecting, candidates, requested, flags>>
  BY <1>0 DEF Unset, MayExecute, gcVars, Avoided, Disciplined
<1>2. v \in Owning /\ v \in Holders /\ ValueIn(v) = u /\ u \in live \cup {Null} /\ u \in Cells \cup {Null}
  <2>1. v \notin Swept
    BY <1>1, SweptSlots DEF HeapInv
  <2>2. v \in Owning
    BY <1>1, <2>1 DEF Owning
  <2> QED
    BY <1>0, <1>1, <2>2 DEF Holders, ValueIn, HeapInv, NoDangling, TypeOK
<1>3. Release(u) \in Frames
  BY <1>2 DEF Frames
<1>4. s \in Seq(Frames) /\ Len(s) = 1 /\ s[1] = Release(u) /\ \A d : FrameCount(s, d) = IF u = d THEN 1 ELSE 0
  <2>1. \A d : Weight(Release(u), d) = IF u = d THEN 1 ELSE 0
    BY DEF Weight, Release
  <2> QED
    BY <1>3, <2>1, OneFrame
<1> HIDE DEF s
<1>5. /\ Atop(1, 0) /\ ctl'[1] = Release(u)
      /\ \A d : FrameCount(ctl', d) = FrameCount(ctl, d) + (IF u = d THEN 1 ELSE 0) /\ FrameCount(ctl, d) \in Nat
  <2>1. /\ Atop(Len(s), 0) /\ \A j \in 1 .. Len(s) : ctl'[j] = s[j]
        /\ \A d : FrameCount(ctl', d) = FrameCount(s, d) + FrameCount(ctl, d)
        /\ \A d : FrameCount(ctl, d) \in Nat
    BY <1>1, <1>4, AtopRest DEF HeapInv
  <2>2. 1 \in 1 .. Len(s)
    BY <1>4
  <2> QED
    BY <1>4, <2>1, <2>2
<1>6. \A n \in 1 .. 1 : n = 1
  OBVIOUS
<1>7. ctl'[1].op = "release" /\ ctl'[1].cell = u /\ ~Dismantles(ctl'[1])
  BY <1>5 DEF Release, Dismantles
<1>8. Stale' = Stale /\ Swept' = Swept /\ Owning' = Owning
  <2>1. Stale' = Stale /\ Swept' = Swept
    BY <1>5, <1>6, <1>7, StaleSame, SweptSame
  <2> QED
    BY <1>1, <2>1 DEF Owning
<1>9. /\ var' \in [Vars -> Cells \cup {Null}]
      /\ ValueIn(v)' = Null /\ \A g \in Holders : g # v => ValueIn(g)' = ValueIn(g)
  BY <1>1, <1>2, SlotWrite DEF HeapInv
<1>10. \A d \in live : HeldCount(d)' = HeldCount(d) - (IF u = d THEN 1 ELSE 0) /\ HeldCount(d) \in Nat
  <2> SUFFICES ASSUME NEW d \in live
               PROVE  HeldCount(d)' = HeldCount(d) - (IF u = d THEN 1 ELSE 0) /\ HeldCount(d) \in Nat
    OBVIOUS
  <2>1. d # Null
    BY Given DEF HeapInv, TypeOK
  <2>2. \A g : g # v => (g \in Owning' /\ ValueIn(g)' = d <=> g \in Owning /\ ValueIn(g) = d)
    BY <1>8, <1>9, OwningHolders DEF HeapInv
  <2>3. ~(v \in Owning' /\ ValueIn(v)' = d)
    BY <1>9, <2>1
  <2>4. HeldCount(d)' = HeldCount(d) - (IF ValueIn(v) = d THEN 1 ELSE 0) /\ HeldCount(d) \in Nat
    BY <1>2, <2>2, <2>3, GivesUp DEF HeapInv
  <2> QED
    BY <1>2, <2>4
<1>11. /\ NoDangling' /\ DestroyedOnce' /\ DyingAlone' /\ SweptAlone'
       /\ UnguardedAtOnce' /\ StoresWait' /\ CollectedApart'
  <2>1. \A g \in Owning' : /\ ValueIn(g)' \in live' \cup {Null}
                           /\ ValueIn(g)' \in Dying => g \in Owning /\ ValueIn(g) = ValueIn(g)'
                           /\ ValueIn(g)' \in flags'.collecting => g \notin Vars /\ g[1] \in flags'.collecting
    <3> SUFFICES ASSUME NEW g \in Owning
                 PROVE  /\ ValueIn(g)' \in live \cup {Null}
                        /\ ValueIn(g)' \in Dying => ValueIn(g) = ValueIn(g)'
                        /\ ValueIn(g)' \in flags.collecting => g \notin Vars /\ g[1] \in flags.collecting
      BY <1>1, <1>8
    <3>1. ValueIn(g) \in live \cup {Null}
      BY DEF HeapInv, NoDangling
    <3>2. ValueIn(g) \in flags.collecting => g \notin Vars /\ g[1] \in flags.collecting
      BY DEF HeapInv, CollectedApart
    <3>3. ValueIn(g)' = Null \/ ValueIn(g)' = ValueIn(g)
      BY <1>9, OwningHolders DEF HeapInv
    <3>4. Null \notin Dying /\ Null \notin flags.collecting
      BY NullStays
    <3> QED
      BY <3>1, <3>2, <3>3, <3>4
  <2>2. flags'.collecting \subseteq live' \ flags'.buffered
    BY <1>1 DEF HeapInv, CollectedApart
  <2>3. \A j \in DOMAIN ctl :
           /\ ctl[j].cell \in live' \cup {Null}
           /\ ctl[j].op = "put" => \A g : g = ctl[j].holder => ValueIn(g)' = ValueIn(g)
    <3> SUFFICES ASSUME NEW j \in DOMAIN ctl
                 PROVE  /\ ctl[j].cell \in live' \cup {Null}
                        /\ ctl[j].op = "put" => \A g : g = ctl[j].holder => ValueIn(g)' = ValueIn(g)
      OBVIOUS
    <3>1. ctl[j].op = "put" => ctl[j].holder \in Holders /\ ctl[j].holder # v
      <4>1. ctl[j] \in Frames
        BY DEF HeapInv, TypeOK
      <4> QED
        BY <1>1, <4>1, FrameKinds DEF Stale
    <3> QED
      BY <1>1, <1>9, <3>1 DEF HeapInv, NoDangling
  <2>4. \A n \in 1 .. 1 :
           /\ ctl'[n].cell \in live' \cup {Null}
           /\ ctl'[n].op = "release" /\ ~Dismantles(ctl'[n])
           /\ \A j \in DOMAIN ctl : ctl[j].op = "sweep" => Weight(ctl'[n], ctl[j].cell) = 0
    BY <1>1, <1>2, <1>5, <1>6, <1>7, OwnedNotSwept
  <2>5. flags' = flags /\ rc' = rc
    BY <1>1
  <2>6. \A i \in DOMAIN ctl : i > 0 =>
           /\ ctl[i].cell \in live' \cup {Null}
           /\ Dismantles(ctl[i]) /\ ctl[i].cell \in flags.destroying => ctl[i].cell \in flags'.destroying
           /\ ctl[i].op = "clear" /\ ctl[i].cell \in flags.collecting => ctl[i].cell \in flags'.collecting
           /\ ctl[i].op = "sweep" => rc'[ctl[i].cell] = rc[ctl[i].cell]
           /\ ctl[i].op = "put" /\ i + 1 - 0 > 1 => \A g : g = ctl[i].holder => ValueIn(g)' = ValueIn(g)
           /\ \A d \in flags'.collecting : d \notin flags.collecting => Weight(ctl[i], d) = 0
    BY <2>3, <2>5
  <2>7. \A n \in 1 .. 1 :
           /\ ctl'[n].cell \in live' \cup {Null}
           /\ ctl'[n].op \notin {"clear", "unguard", "put", "sweep"} /\ ~Dismantles(ctl'[n])
           /\ \A i \in DOMAIN ctl : i > 0 /\ ctl[i].op = "sweep" => Weight(ctl'[n], ctl[i].cell) = 0
    BY <2>4
  <2>8. Running /\ 1 > 0 /\ Atop(1, 0) /\ 0 # 1
    BY <1>1, <1>5
  <2>9. flags'.buffered \cap Dying \subseteq flags.buffered /\ flags'.collecting \cap Dying \subseteq flags.collecting
    BY <2>5
  <2> QED
    BY <2>1, <2>2, <2>6, <2>7, <2>8, <2>9, StepKeeps
<1>12. TypeOK'
  BY <1>1, <1>5, <1>9 DEF HeapInv, TypeOK, Atop
<1>13. RefCountExact'
  BY <1>1, <1>5, <1>10, ExactSame
<1>14. BufferMatchesFlags' /\ FreeAreBlank'
  BY <1>1 DEF HeapInv, BufferMatchesFlags, FreeAreBlank
<1> QED
  BY <1>11, <1>12, <1>13, <1>14 DEF HeapInv

\* What a program can load is live, and neither collected nor being swept: no
\* such cell is named from outside those.
LEMMA LoadableApart ==
  ASSUME HeapInv, Disciplined
  PROVE  Loadable \subseteq live \ (flags.collecting \cup Sweeping)
<1> DEFINE S == {c \in {var[v] : v \in Vars \ Avoided} : c # Null} \cup This
           Apart == live \ (flags.collecting \cup Sweeping)
<1>1. Avoided = Stale
  BY DEF Disciplined, Avoided
<1>2. \A h \in Owning : h \in Vars \/ h[1] \in Apart =>
        ValueIn(h) = Null \/ ValueIn(h) \in Apart
  <2> SUFFICES ASSUME NEW h \in Owning, h \in Vars \/ h[1] \in Apart, ValueIn(h) # Null
               PROVE  ValueIn(h) \in Apart
    OBVIOUS
  <2>1. ValueIn(h) \in live
    BY DEF HeapInv, NoDangling
  <2>2. ValueIn(h) \notin flags.collecting
    BY DEF HeapInv, CollectedApart
  <2>3. ValueIn(h) \notin Sweeping
    BY OwnedNotSwept DEF Sweeping
  <2> QED
    BY <2>1, <2>2, <2>3
<1>3. \A h \in Swept : h \notin Vars /\ h[1] \in Sweeping
  BY SweptSlots DEF HeapInv, Sweeping
<1>4. {c \in {var[v] : v \in Vars \ Avoided} : c # Null} \subseteq Apart
  <2> SUFFICES ASSUME NEW v \in Vars, v \notin Stale, var[v] # Null PROVE var[v] \in Apart
    BY <1>1
  <2>1. v \in Owning
    BY <1>3 DEF Owning
  <2>2. ValueIn(v) = var[v]
    BY DEF ValueIn
  <2> QED
    BY <1>2, <2>1, <2>2
<1>5. This \subseteq Apart
  <2> SUFFICES ASSUME Top("destructor") PROVE Head(ctl).cell \in Apart
    BY DEF This
  <2>1. 1 \in DOMAIN ctl /\ Head(ctl) = ctl[1] /\ ctl[1].op = "destructor" /\ Dismantles(ctl[1])
    BY TopIs DEF HeapInv, Dismantles
  <2>2. /\ ctl[1].cell \in live /\ ctl[1].cell \notin flags.collecting
        /\ \A i \in DOMAIN ctl : i > 1 => ~(Dismantles(ctl[i]) /\ ctl[i].cell = ctl[1].cell)
    BY <2>1, DyingTop
  <2>3. \A i \in DOMAIN ctl : ctl[i].op = "sweep" => ctl[i].cell # ctl[1].cell
    BY <2>1 DEF HeapInv, DestroyedOnce, Dismantles
  <2>4. ctl[1].cell \notin Sweeping
    BY <2>3 DEF Sweeping
  <2> QED
    BY <2>1, <2>2, <2>4
<1> HIDE DEF Apart
<1>6. S \subseteq Apart /\ Apart \subseteq S \cup live
  BY <1>4, <1>5 DEF Apart
<1>7. \A h \in (Apart \X Slots) \ Avoided : ValueIn(h) \in live => ValueIn(h) \in Apart
  <2> SUFFICES ASSUME NEW h \in (Apart \X Slots) \ Stale, ValueIn(h) \in live
               PROVE  ValueIn(h) \in Apart
    BY <1>1
  <2>1. h[1] \in Apart /\ h[1] \in live /\ h[1] \notin Sweeping /\ h \in live \X Slots
    BY DEF Apart
  <2>2. h \in Owning
    BY <1>3, <2>1 DEF Owning
  <2>3. ValueIn(h) # Null
    BY Given DEF HeapInv, TypeOK
  <2> QED
    BY <1>2, <2>1, <2>2, <2>3
<1>8. \A c \in Loadable : c \in Apart
  <2> SUFFICES ASSUME NEW c \in Closure(S, live, Avoided) PROVE c \in Apart
    BY DEF Loadable
  <2> HIDE DEF S
  <2>1. \A T \in SUBSET (S \cup live) :
          S \subseteq T /\ (\A h \in (T \X Slots) \ Avoided : ValueIn(h) \in live => ValueIn(h) \in T) => c \in T
    BY DEF Closure
  <2>2. Apart \in SUBSET (S \cup live)
    BY <1>6
  <2> QED
    BY <1>6, <1>7, <2>1, <2>2
<1> QED
  BY <1>8 DEF Apart

\* A function on an interval is a sequence.
LEMMA AsSequence ==
  ASSUME NEW S, NEW n \in Nat, NEW f \in [1 .. n -> S]
  PROVE  f \in Seq(S) /\ Len(f) = n
OBVIOUS

\* The work of a store.
LEMMA StoreFrames ==
  ASSUME TypeOK, NEW h \in Holders, NEW v \in Cells \cup {Null}
  PROVE  LET s == StoreWork(h, v)
             k == IF h \in Vars THEN 3 ELSE 4
         IN  /\ s \in Seq(Frames) /\ Len(s) = k
             /\ s[1] = Release(ValueIn(h)) /\ s[2] = Put(h, v) /\ s[k] = Release(v)
             /\ h \notin Vars => s[3] = Release(h[1])
             /\ \A d : FrameCount(s, d) = (IF ValueIn(h) = d THEN 1 ELSE 0) + (IF v = d THEN 2 ELSE 0)
                                            + (IF h \notin Vars /\ h[1] = d THEN 1 ELSE 0)
<1>0. PICK u : u = ValueIn(h)
  OBVIOUS
<1> DEFINE a == <<Release(u), Put(h, v)>>
           b == [i \in DOMAIN Base(h) |-> Release(Base(h)[i])]
           z == <<Release(v)>>
           n == IF h \in Vars THEN 0 ELSE 1
<1>1. n \in {0, 1} /\ (h \in Vars <=> n = 0) /\ (IF h \in Vars THEN 3 ELSE 4) = 3 + n
  OBVIOUS
<1> HIDE DEF n
<1>2. Release(u) \in Frames /\ Put(h, v) \in Frames /\ Release(v) \in Frames
  BY <1>0, ValueTyped DEF Frames
<1>3. a \in Seq(Frames) /\ Len(a) = 2 /\ a[1] = Release(u) /\ a[2] = Put(h, v)
      /\ z \in Seq(Frames) /\ Len(z) = 1 /\ z[1] = Release(v)
  BY <1>2
<1>4. b \in Seq(Frames) /\ Len(b) = n /\ (h \notin Vars => b[1] = Release(h[1]))
  <2>1. CASE h \in Vars
    <3>1. DOMAIN Base(h) = 1 .. 0
      BY <2>1 DEF Base
    <3>2. b \in [1 .. 0 -> Frames] /\ 0 \in Nat
      BY <3>1
    <3> HIDE DEF b
    <3>3. b \in Seq(Frames) /\ Len(b) = 0
      BY <3>2, AsSequence
    <3> QED
      BY <1>1, <2>1, <3>3
  <2>2. CASE h \notin Vars
    <3>1. Base(h) = <<h[1]>> /\ h[1] \in Cells
      BY <2>2, SlotHolder DEF Base
    <3>2. DOMAIN Base(h) = 1 .. 1 /\ Base(h)[1] = h[1] /\ Release(h[1]) \in Frames
      BY <3>1 DEF Frames
    <3>3. b \in [1 .. 1 -> Frames] /\ b[1] = Release(h[1]) /\ 1 \in Nat
      BY <3>2
    <3> HIDE DEF b
    <3>4. b \in Seq(Frames) /\ Len(b) = 1
      BY <3>3, AsSequence
    <3> QED
      BY <1>1, <2>2, <3>3, <3>4
  <2> QED
    BY <2>1, <2>2
<1>5. StoreWork(h, v) = (a \o b) \o z
  BY <1>0 DEF StoreWork
<1> HIDE DEF a, b, z
<1> DEFINE ab == a \o b
<1>6. ab \in Seq(Frames) /\ Len(ab) = 2 + n /\ ab[1] = a[1] /\ ab[2] = a[2] /\ (h \notin Vars => ab[3] = b[1])
  <2>1. /\ ab \in Seq(Frames) /\ Len(ab) = 2 + n
        /\ \A j \in 1 .. 2 : ab[j] = a[j]
        /\ \A i \in 1 .. n : ab[2 + i] = b[i]
    <3>1. /\ ab \in Seq(Frames) /\ Len(ab) = Len(a) + Len(b)
          /\ \A j \in 1 .. Len(a) : ab[j] = a[j]
          /\ \A i \in 1 .. Len(b) : ab[Len(a) + i] = b[i]
      <4>1. a \in Seq(Frames) /\ b \in Seq(Frames)
        BY <1>3, <1>4
      <4> QED
        BY ONLY <4>1, JoinIs
    <3>2. Len(a) = 2 /\ Len(b) = n
      BY <1>3, <1>4
    <3> HIDE DEF ab
    <3> QED
      BY <3>1, <3>2
  <2>2. h \notin Vars => 1 \in 1 .. n /\ 2 + 1 = 3
    BY <1>1
  <2>3. 1 \in 1 .. 2 /\ 2 \in 1 .. 2
    OBVIOUS
  <2> HIDE DEF ab
  <2> QED
    BY <2>1, <2>2, <2>3
<1> HIDE DEF ab
<1> DEFINE s == ab \o z
<1>7. s \in Seq(Frames) /\ Len(s) = 3 + n /\ s[1] = Release(u) /\ s[2] = Put(h, v)
      /\ s[3 + n] = Release(v) /\ (h \notin Vars => s[3] = Release(h[1]))
  <2>1. /\ s \in Seq(Frames) /\ Len(s) = 3 + n
        /\ \A j \in 1 .. 2 + n : s[j] = ab[j]
        /\ \A i \in 1 .. 1 : s[2 + n + i] = z[i]
    BY <1>3, <1>6, <1>1, JoinIs
  <2>2. 1 \in 1 .. 2 + n /\ 2 \in 1 .. 2 + n /\ (h \notin Vars => 3 \in 1 .. 2 + n)
        /\ 1 \in 1 .. 1 /\ 2 + n + 1 = 3 + n
    BY <1>1
  <2> HIDE DEF s
  <2> QED
    BY <1>3, <1>4, <1>6, <2>1, <2>2
<1>8. \A d : FrameCount(s, d) = (IF u = d THEN 1 ELSE 0) + (IF v = d THEN 2 ELSE 0)
                                  + (IF h \notin Vars /\ h[1] = d THEN 1 ELSE 0)
  <2> SUFFICES ASSUME NEW d
               PROVE  FrameCount(s, d) = (IF u = d THEN 1 ELSE 0) + (IF v = d THEN 2 ELSE 0)
                                           + (IF h \notin Vars /\ h[1] = d THEN 1 ELSE 0)
    OBVIOUS
  <2>1. FrameCount(s, d) = FrameCount(ab, d) + FrameCount(z, d)
    BY <1>3, <1>6, FramesJoin
  <2>2. FrameCount(ab, d) = FrameCount(a, d) + FrameCount(b, d)
    BY <1>3, <1>4, FramesJoin DEF ab
  <2>3. FrameCount(a, d) = Weight(Release(u), d) + Weight(Put(h, v), d)
    BY <1>2, TwoFrames DEF a
  <2>4. FrameCount(z, d) = Weight(Release(v), d)
    BY OneFrame DEF z
  <2>5. FrameCount(b, d) = IF h \notin Vars /\ h[1] = d THEN 1 ELSE 0
    <3>1. CASE h \in Vars
      <4>1. \A i \in DOMAIN b : Weight(b[i], d) = 0
        BY <1>4, <1>1, <3>1
      <4> QED
        BY <1>4, <3>1, <4>1, NoWeights
    <3>2. CASE h \notin Vars
      <4>1. b = <<b[1]>>
        BY <1>4, <1>1, <3>2
      <4>2. FrameCount(b, d) = Weight(b[1], d)
        BY <4>1, OneFrame
      <4> QED
        <5>1. b[1].cell = h[1] /\ b[1].op = "release"
          BY <1>4, <3>2 DEF Release
        <5> QED
          BY <3>2, <4>2, <5>1 DEF Weight
    <3> QED
      BY <3>1, <3>2
  <2>6. /\ Weight(Release(u), d) = IF u = d THEN 1 ELSE 0
        /\ Weight(Put(h, v), d) = IF v = d THEN 1 ELSE 0
        /\ Weight(Release(v), d) = IF v = d THEN 1 ELSE 0
    BY DEF Weight, Release, Put
  <2> QED
    BY <2>1, <2>2, <2>3, <2>4, <2>5, <2>6
<1>9. StoreWork(h, v) = s
  BY <1>5 DEF ab
<1> HIDE DEF s
<1> QED
  BY <1>0, <1>7, <1>8, <1>9, <1>1

\* A store waits for its release, whatever it stores: a loaded cell or a new one.
LEMMA StoreKeeps ==
  ASSUME HeapInv, Disciplined, MayExecute, NEW h \in Assignable, NEW v \in Cells \cup {Null},
         v \notin flags.collecting \cup Dying \cup Sweeping, v \in live' \cup {Null},
         live \subseteq live', live' \subseteq Cells,
         ctl' = StoreWork(h, v) \o Rest,
         UNCHANGED <<slot, var, collecting, candidates, requested, flags>>,
         \A d \in Sweeping : rc'[d] = rc[d]
  PROVE  /\ NoDangling' /\ DestroyedOnce' /\ DyingAlone' /\ SweptAlone'
         /\ UnguardedAtOnce' /\ StoresWait' /\ CollectedApart' /\ FreeAreBlank' /\ BufferMatchesFlags'
         /\ ctl' \in Seq(Frames) /\ (h \notin Vars => h[1] \in live)
         /\ \A d \in live' : /\ HeldCount(d) \in Nat /\ FrameCount(ctl, d) \in Nat
                             /\ HeldCount(d)' + FrameCount(ctl', d)
                                  = HeldCount(d) + FrameCount(ctl, d) + (IF v = d THEN 2 ELSE 0)
                                      + (IF h \notin Vars /\ h[1] = d THEN 1 ELSE 0)
<1>0. PICK u : u = ValueIn(h)
  OBVIOUS
<1> DEFINE s == StoreWork(h, v)
           k == IF h \in Vars THEN 3 ELSE 4
<1>1. /\ Running /\ h \notin Stale /\ h \in Vars \cup (Loadable \X Slots)
      /\ Loadable \subseteq live \ (flags.collecting \cup Sweeping) /\ live \subseteq Cells
  BY LoadableApart DEF MayExecute, Assignable, Avoided, Disciplined, HeapInv, TypeOK
<1>2. h \in Holders /\ (h \notin Vars => h[1] \in live \ (flags.collecting \cup Sweeping) /\ h[2] \in Slots)
  BY <1>1 DEF Holders
<1>3. \A g \in Swept : g \notin Vars /\ g[1] \in Sweeping
  BY SweptSlots DEF HeapInv, Sweeping
<1>4. h \in Owning /\ u \in live \cup {Null}
  <2>1. h \in Owning
    BY <1>1, <1>2, <1>3 DEF Owning
  <2> QED
    BY <1>0, <2>1 DEF HeapInv, NoDangling
<1>5. /\ s \in Seq(Frames) /\ Len(s) = k
      /\ s[1] = Release(u) /\ s[2] = Put(h, v) /\ s[k] = Release(v)
      /\ h \notin Vars => s[3] = Release(h[1])
      /\ \A d : FrameCount(s, d) = (IF u = d THEN 1 ELSE 0) + (IF v = d THEN 2 ELSE 0)
                                     + (IF h \notin Vars /\ h[1] = d THEN 1 ELSE 0)
  BY <1>0, <1>2, StoreFrames DEF HeapInv
<1>6. k \in {3, 4} /\ (h \in Vars <=> k = 3)
  OBVIOUS
<1> HIDE DEF s, k
<1>7. \A n \in 1 .. k : n \in {1, 2, k} \/ (n = 3 /\ h \notin Vars)
  BY <1>6
<1>8. /\ Atop(k, 0) /\ ctl'[1] = Release(u) /\ ctl'[2] = Put(h, v) /\ ctl'[k] = Release(v)
      /\ h \notin Vars => ctl'[3] = Release(h[1])
      /\ 1 \in DOMAIN ctl' /\ 2 \in DOMAIN ctl' /\ k \in DOMAIN ctl' /\ 3 \in DOMAIN ctl'
      /\ \A d : FrameCount(ctl', d) = FrameCount(s, d) + FrameCount(ctl, d) /\ FrameCount(ctl, d) \in Nat
  <2>1. /\ Atop(Len(s), 0) /\ \A j \in 1 .. Len(s) : ctl'[j] = s[j]
        /\ \A d : FrameCount(ctl', d) = FrameCount(s, d) + FrameCount(ctl, d)
        /\ \A d : FrameCount(ctl, d) \in Nat
    BY <1>5, AtopRest DEF HeapInv, s
  <2>2. 1 \in 1 .. k /\ 2 \in 1 .. k /\ 3 \in 1 .. k /\ k \in 1 .. k
    BY <1>6
  <2>3. \A n \in 1 .. k : n \in DOMAIN ctl'
    BY <1>5, <2>1 DEF Atop
  <2> QED
    BY <1>5, <2>1, <2>2, <2>3
<1>9. /\ \A n \in 1 .. k : n # 2 => ctl'[n].op = "release"
      /\ \A n \in 1 .. k : ctl'[n].cell \in {u, v} \/ (h \notin Vars /\ ctl'[n].cell = h[1])
      /\ ctl'[2].op = "put" /\ ctl'[2].holder = h /\ ctl'[2].cell = v /\ 2 \in 1 .. k
      /\ \A n \in 1 .. k : ctl'[n].op = "release" \/ n = 2
      /\ \A n \in 1 .. k : ~Dismantles(ctl'[n])
  <2>1. \A n \in 1 .. k : \/ ctl'[n].op = "release" /\ n # 2 /\ (ctl'[n].cell \in {u, v} \/ (h \notin Vars /\ ctl'[n].cell = h[1]))
                          \/ ctl'[n].op = "put" /\ n = 2 /\ ctl'[n].cell = v /\ ctl'[n].holder = h
    BY <1>6, <1>7, <1>8 DEF Release, Put
  <2>2. 2 \in 1 .. k
    BY <1>6
  <2> QED
    BY <2>1, <2>2 DEF Dismantles
<1>10. Stale' = Stale \cup {h}
  <2>1. \A g : g \in Stale <=> \E i \in DOMAIN ctl : i > 0 /\ ctl[i].op = "put" /\ ctl[i].holder = g
    BY <1>8, StaleAtop
  <2>2. \A g : g \in Stale' <=>
              \/ \E i \in DOMAIN ctl : i > 0 /\ ctl[i].op = "put" /\ ctl[i].holder = g
              \/ \E n \in 1 .. k : ctl'[n].op = "put" /\ ctl'[n].holder = g
    BY <1>8, StaleAtop
  <2>3. \A g : (\E n \in 1 .. k : ctl'[n].op = "put" /\ ctl'[n].holder = g) <=> g = h
    BY <1>9
  <2> QED
    BY <2>1, <2>2, <2>3
<1>11. Swept' = Swept
  BY <1>8, <1>9, SweptSame
<1>12. \A g : ValueIn(g)' = ValueIn(g)
  BY DEF ValueIn
<1>13. /\ \A g \in Owning : g # h => g \in Owning'
       /\ \A g \in Owning' : g # h /\ (g \in Owning \/ (g \notin Owning /\ ValueIn(g) = Null))
  <2>1. \A g \in Owning : g # h => g \in Owning'
    BY <1>10, <1>11 DEF Owning
  <2>2. ASSUME NEW g \in Owning' PROVE g # h /\ (g \in Owning \/ (g \notin Owning /\ ValueIn(g) = Null))
    <3>1. g \in Vars \cup (live' \X Slots) /\ g \notin Stale /\ g # h /\ g \notin Swept
      BY <1>10, <1>11 DEF Owning
    <3>2. CASE g \in Vars \cup (live \X Slots)
      BY <3>1, <3>2 DEF Owning
    <3>3. CASE g \notin Vars \cup (live \X Slots)
      <4>1. g[1] \in Cells \ live /\ g[2] \in Slots /\ g \notin Vars
        BY <3>1, <3>3
      <4>2. ValueIn(g) = Null
        BY <4>1 DEF HeapInv, FreeAreBlank, ValueIn
      <4> QED
        BY <3>1, <3>3, <4>2 DEF Owning
    <3> QED
      BY <3>2, <3>3
  <2> QED
    BY <2>1, <2>2
<1>14. \A d \in live' : /\ HeldCount(d) \in Nat /\ FrameCount(ctl, d) \in Nat
                        /\ HeldCount(d)' + FrameCount(ctl', d)
                             = HeldCount(d) + FrameCount(ctl, d) + (IF v = d THEN 2 ELSE 0)
                                 + (IF h \notin Vars /\ h[1] = d THEN 1 ELSE 0)
  <2> SUFFICES ASSUME NEW d \in live'
               PROVE  /\ HeldCount(d) \in Nat /\ FrameCount(ctl, d) \in Nat
                      /\ HeldCount(d)' + FrameCount(ctl', d)
                           = HeldCount(d) + FrameCount(ctl, d) + (IF v = d THEN 2 ELSE 0)
                               + (IF h \notin Vars /\ h[1] = d THEN 1 ELSE 0)
    OBVIOUS
  <2>1. d # Null
    BY Given
  <2>2. \A g : g # h => (g \in Owning' /\ ValueIn(g)' = d <=> g \in Owning /\ ValueIn(g) = d)
    BY <1>12, <1>13, <2>1
  <2>3. ~(h \in Owning' /\ ValueIn(h)' = d)
    BY <1>13
  <2>4. HeldCount(d)' = HeldCount(d) - (IF ValueIn(h) = d THEN 1 ELSE 0) /\ HeldCount(d) \in Nat
    BY <1>4, <2>2, <2>3, GivesUp DEF HeapInv
  <2>5. FrameCount(s, d) = (IF u = d THEN 1 ELSE 0) + (IF v = d THEN 2 ELSE 0)
                             + (IF h \notin Vars /\ h[1] = d THEN 1 ELSE 0)
    BY <1>5
  <2>6. FrameCount(ctl', d) = FrameCount(s, d) + FrameCount(ctl, d) /\ FrameCount(ctl, d) \in Nat
    BY <1>8
  <2>7. HeldCount(d)' = HeldCount(d) - (IF u = d THEN 1 ELSE 0)
    BY <1>0, <2>4
  <2>8. PICK x, y, z : /\ x = (IF u = d THEN 1 ELSE 0) /\ y = (IF v = d THEN 2 ELSE 0)
                       /\ z = (IF h \notin Vars /\ h[1] = d THEN 1 ELSE 0)
    OBVIOUS
  <2>9. x \in Nat /\ y \in Nat /\ z \in Nat
    BY <2>8
  <2>10. PICK a, b, f, g : /\ a = HeldCount(d) /\ b = HeldCount(d)' /\ f = FrameCount(ctl, d) /\ g = FrameCount(ctl', d)
    OBVIOUS
  <2>11. b = a - x /\ g = x + y + z + f /\ a \in Nat /\ f \in Nat
    BY <2>4, <2>5, <2>6, <2>7, <2>8, <2>10
  <2>12. b + g = a + f + y + z
    BY <2>9, <2>11
  <2> QED
    BY <2>8, <2>10, <2>11, <2>12
<1>15. Waits(2)'
  <2>1. ValueIn(ctl[2].holder)' = u
    BY <1>0, <1>9 DEF ValueIn
  <2>2. ctl'[2 - 1].cell = u /\ ctl'[1].op = "release"
    BY <1>8 DEF Release
  <2>3. h \notin Vars => 2 + 1 \in DOMAIN ctl' /\ ctl'[2 + 1] = Release(h[1]) /\ h[1] \notin flags'.collecting
    BY <1>2, <1>8
  <2>4. v \notin flags'.collecting \cup Dying'
    BY <1>8, <1>9, DyingAfter
  <2>5. \A j \in DOMAIN ctl' : ctl'[j].op = "put" /\ ctl'[j].holder = h => 2 = j
    <3> SUFFICES ASSUME NEW j \in DOMAIN ctl', ctl'[j].op = "put", ctl'[j].holder = h PROVE 2 = j
      OBVIOUS
    <3>1. j > k \/ j \in 1 .. k
      BY <1>8 DEF Atop
    <3>2. CASE j > k
      <4>1. PICK i \in DOMAIN ctl : ctl'[j].op = ctl[i].op /\ (ctl[i].op # "destructor" => ctl'[j] = ctl[i])
        BY <1>8, <3>2, Below
      <4>2. h \in Stale
        BY <4>1 DEF Stale
      <4> QED
        BY <1>1, <4>2
    <3>3. CASE j \in 1 .. k
      BY <1>9, <3>3
    <3> QED
      BY <3>1, <3>2, <3>3
  <2> QED
    BY <1>9, <2>1, <2>2, <2>3, <2>4, <2>5 DEF Waits
<1>16. /\ NoDangling' /\ DestroyedOnce' /\ DyingAlone' /\ SweptAlone'
       /\ UnguardedAtOnce' /\ StoresWait' /\ CollectedApart'
  <2>1. \A g \in Owning' : /\ ValueIn(g)' \in live' \cup {Null}
                           /\ ValueIn(g)' \in Dying => g \in Owning /\ ValueIn(g) = ValueIn(g)'
                           /\ ValueIn(g)' \in flags'.collecting => g \notin Vars /\ g[1] \in flags'.collecting
    <3> SUFFICES ASSUME NEW g \in Owning'
                 PROVE  /\ ValueIn(g) \in live' \cup {Null}
                        /\ ValueIn(g) \in Dying => g \in Owning
                        /\ ValueIn(g) \in flags.collecting => g \notin Vars /\ g[1] \in flags.collecting
      BY <1>12
    <3>1. CASE g \in Owning
      BY <3>1 DEF HeapInv, NoDangling, CollectedApart
    <3>2. CASE ValueIn(g) = Null
      BY <3>2, NullStays
    <3> QED
      BY <1>13, <3>1, <3>2
  <2>2. flags'.collecting \subseteq live' \ flags'.buffered
    BY DEF HeapInv, CollectedApart
  <2>3. \A i \in DOMAIN ctl : i > 0 =>
           /\ ctl[i].cell \in live' \cup {Null}
           /\ Dismantles(ctl[i]) /\ ctl[i].cell \in flags.destroying => ctl[i].cell \in flags'.destroying
           /\ ctl[i].op = "clear" /\ ctl[i].cell \in flags.collecting => ctl[i].cell \in flags'.collecting
           /\ ctl[i].op = "sweep" => rc'[ctl[i].cell] = rc[ctl[i].cell]
           /\ ctl[i].op = "put" /\ i + k - 0 > 1 => \A g : g = ctl[i].holder => ValueIn(g)' = ValueIn(g)
           /\ \A d \in flags'.collecting : d \notin flags.collecting => Weight(ctl[i], d) = 0
    BY <1>12 DEF HeapInv, NoDangling, Sweeping
  <2>4. \A n \in 1 .. k, i \in DOMAIN ctl : ctl[i].op = "sweep" => Weight(ctl'[n], ctl[i].cell) = 0
    <3> SUFFICES ASSUME NEW n \in 1 .. k, NEW i \in DOMAIN ctl, ctl[i].op = "sweep"
                 PROVE  ctl'[n].cell # ctl[i].cell
      BY DEF Weight
    <3>1. ctl[i].cell \in Sweeping
      BY DEF Sweeping
    <3>2. u # ctl[i].cell
      BY <1>0, <1>4, OwnedNotSwept
    <3> QED
      BY <1>2, <1>9, <3>1, <3>2
  <2>5. \A n \in 1 .. k :
           /\ ctl'[n].cell \in live' \cup {Null}
           /\ ctl'[n].op \notin {"clear", "unguard", "sweep"} /\ ~Dismantles(ctl'[n])
           /\ ctl'[n].op = "put" => Waits(n)' /\ ctl'[n].holder \notin Stale
           /\ \A i \in DOMAIN ctl : i > 0 /\ ctl[i].op = "sweep" => Weight(ctl'[n], ctl[i].cell) = 0
    <3> SUFFICES ASSUME NEW n \in 1 .. k
                 PROVE /\ ctl'[n].cell \in live' \cup {Null}
                       /\ ctl'[n].op \notin {"clear", "unguard", "sweep"} /\ ~Dismantles(ctl'[n])
                       /\ ctl'[n].op = "put" => Waits(n)' /\ ctl'[n].holder \notin Stale
                       /\ \A i \in DOMAIN ctl : i > 0 /\ ctl[i].op = "sweep" => Weight(ctl'[n], ctl[i].cell) = 0
      OBVIOUS
    <3>1. ctl'[n].cell \in live' \cup {Null}
      BY <1>2, <1>4, <1>9
    <3>2. ctl'[n].op = "put" => n = 2
      BY <1>9
    <3>3. ctl'[n].op = "put" => Waits(n)' /\ ctl'[n].holder \notin Stale
      BY <1>1, <1>9, <1>15, <3>2
    <3> QED
      BY <1>9, <2>4, <3>1, <3>3
  <2>6. Running /\ k > 0 /\ Atop(k, 0) /\ 0 # 1
    BY <1>1, <1>6, <1>8
  <2>7. flags'.buffered \cap Dying \subseteq flags.buffered /\ flags'.collecting \cap Dying \subseteq flags.collecting
    OBVIOUS
  <2> QED
    BY <2>1, <2>2, <2>3, <2>5, <2>6, <2>7, StepKeeps
<1>17. FreeAreBlank' /\ BufferMatchesFlags'
  BY DEF HeapInv, FreeAreBlank, BufferMatchesFlags
<1>18. ctl' \in Seq(Frames)
  BY <1>8 DEF Atop
<1> QED
  BY <1>2, <1>14, <1>16, <1>17, <1>18

\* The counts of the copies that a statement pushes.
LEMMA RetainedIs ==
  ASSUME TypeOK, NEW cs, NEW d \in Cells, NEW n \in Nat, Cardinality({i \in DOMAIN cs : cs[i] = d}) = n
  PROVE  /\ Retained(cs)[d] = (IF rc[d] + n > RcMax THEN RcMax ELSE rc[d] + n)
         /\ Retained(cs)[d] \in 0 .. RcMax
         /\ n = 0 => Retained(cs)[d] = rc[d]
<1>1. rc[d] \in 0 .. RcMax /\ RcMax \in Nat
  BY Given DEF TypeOK
<1>2. Retained(cs)[d] = (IF rc[d] + n > RcMax THEN RcMax ELSE rc[d] + n)
  BY DEF Retained
<1> QED
  BY <1>1, <1>2

\* No reference of a cell being swept changes.
LEMMA SweepingLive ==
  ASSUME HeapInv
  PROVE  Sweeping \subseteq live /\ Sweeping \subseteq Cells
<1>1. \A i \in DOMAIN ctl : ctl[i].op = "sweep" => ctl[i].cell \in Cells
  <2> SUFFICES ASSUME NEW i \in DOMAIN ctl, ctl[i].op = "sweep" PROVE ctl[i].cell \in Cells
    OBVIOUS
  <2>1. ctl[i] \in Frames
    BY DEF HeapInv, TypeOK
  <2> QED
    BY <2>1, FrameKinds
<1> QED
  BY <1>1, Given DEF HeapInv, NoDangling, Sweeping

\* A statement has as many copies of its value and its object as it will give up.
LEMMA AssignKeeps ==
  ASSUME HeapInv, Disciplined, NEW h \in Assignable, NEW v \in Storable \cup {Null}, Assign(h, v)
  PROVE  HeapInv'
<1> DEFINE cs == <<v, v>> \o Base(h)
           Copies(d) == (IF v = d THEN 2 ELSE 0) + (IF h \notin Vars /\ h[1] = d THEN 1 ELSE 0)
<1>1. /\ MayExecute /\ rc' = Retained(cs) /\ ctl' = StoreWork(h, v) \o Rest
      /\ UNCHANGED <<live, slot, var, collecting, candidates, requested, flags>>
  BY DEF Assign, gcVars
<1>2. Loadable \subseteq live \ (flags.collecting \cup Sweeping) /\ live \subseteq Cells
  BY LoadableApart DEF HeapInv, TypeOK
<1>3. v \in Cells \cup {Null} /\ v \in live \cup {Null} /\ v \notin flags.collecting \cup Dying \cup Sweeping
  <2>1. CASE v = Null
    BY <2>1, NullStays, SweepingLive, Given
  <2>2. CASE v \in Storable
    BY <1>2, <2>2 DEF Storable, Disciplined
  <2> QED
    BY <2>1, <2>2
<1>4. h \notin Vars => h[1] \in live \ Sweeping
  BY <1>2 DEF Assignable
<1>5. \A d : Cardinality({i \in DOMAIN cs : cs[i] = d}) = Copies(d) /\ Copies(d) \in Nat
  <2> SUFFICES ASSUME NEW d
               PROVE  Cardinality({i \in DOMAIN cs : cs[i] = d}) = Copies(d) /\ Copies(d) \in Nat
    OBVIOUS
  <2>1. CASE h \in Vars
    <3>1. cs = <<v, v>>
      BY <2>1, JoinWithNone DEF Base
    <3>2. Copies(d) = IF v = d THEN 2 ELSE 0
      BY <2>1
    <3> HIDE DEF cs, Copies
    <3>3. Cardinality({i \in DOMAIN <<v, v>> : <<v, v>>[i] = d}) = Copies(d)
      BY <3>2, CopiesOfTwo
    <3>4. Cardinality({i \in DOMAIN cs : cs[i] = d}) = Copies(d)
      BY <3>1, <3>3, Zenon
    <3> QED
      BY <3>2, <3>4
  <2>2. CASE h \notin Vars
    <3>1. cs = <<v, v, h[1]>>
      BY <2>2, JoinWithOne DEF Base
    <3>2. Copies(d) = (IF v = d THEN 2 ELSE 0) + (IF h[1] = d THEN 1 ELSE 0) /\ Copies(d) \in Nat
      BY <2>2
    <3> HIDE DEF cs, Copies
    <3>3. Copied(cs, d) = (IF v = d THEN 2 ELSE 0) + (IF h[1] = d THEN 1 ELSE 0)
      BY <3>1, CopiesOfThree
    <3> QED
      BY <3>2, <3>3 DEF Copied
  <2> QED
    BY <2>1, <2>2
<1> HIDE DEF cs
<1>6. \A d \in Cells : /\ rc'[d] = (IF rc[d] + Copies(d) > RcMax THEN RcMax ELSE rc[d] + Copies(d))
                       /\ rc'[d] \in 0 .. RcMax
                       /\ Copies(d) = 0 => rc'[d] = rc[d]
  <2> SUFFICES ASSUME NEW d \in Cells
               PROVE /\ rc'[d] = (IF rc[d] + Copies(d) > RcMax THEN RcMax ELSE rc[d] + Copies(d))
                     /\ rc'[d] \in 0 .. RcMax
                     /\ Copies(d) = 0 => rc'[d] = rc[d]
    OBVIOUS
  <2>1. Cardinality({i \in DOMAIN cs : cs[i] = d}) = Copies(d) /\ Copies(d) \in Nat
    BY <1>5
  <2> HIDE DEF Copies
  <2> QED
    BY <1>1, <2>1, RetainedIs DEF HeapInv
<1>7. \A d \in Sweeping : rc'[d] = rc[d]
  <2>1. \A d \in Sweeping : d \in Cells /\ Copies(d) = 0
    BY <1>3, <1>4, SweepingLive
  <2> QED
    BY <1>6, <2>1
<1> HIDE DEF Copies
<1>8. /\ NoDangling' /\ DestroyedOnce' /\ DyingAlone' /\ SweptAlone'
      /\ UnguardedAtOnce' /\ StoresWait' /\ CollectedApart' /\ FreeAreBlank' /\ BufferMatchesFlags'
      /\ ctl' \in Seq(Frames)
      /\ \A d \in live : /\ HeldCount(d) \in Nat /\ FrameCount(ctl, d) \in Nat
                         /\ HeldCount(d)' + FrameCount(ctl', d)
                              = HeldCount(d) + FrameCount(ctl, d) + (IF v = d THEN 2 ELSE 0)
                                  + (IF h \notin Vars /\ h[1] = d THEN 1 ELSE 0)
  BY <1>1, <1>2, <1>3, <1>7, StoreKeeps
<1>9. TypeOK'
  <2>1. rc' \in [Cells -> 0 .. RcMax]
    <3>1. rc' = [c \in Cells |-> rc'[c]]
      BY <1>1 DEF Retained
    <3> QED
      BY <1>6, <3>1
  <2> QED
    BY <1>1, <1>8, <2>1 DEF HeapInv, TypeOK
<1>10. RefCountExact'
  <2> SUFFICES ASSUME NEW d \in live, rc'[d] # RcMax
               PROVE  rc'[d] = HeldCount(d)' + FrameCount(ctl', d)
    BY <1>1, ExactNext
  <2>1. d \in Cells /\ rc[d] \in 0 .. RcMax /\ RcMax \in Nat
    BY <1>2, Given DEF HeapInv, TypeOK
  <2>2. rc'[d] = (IF rc[d] + Copies(d) > RcMax THEN RcMax ELSE rc[d] + Copies(d)) /\ Copies(d) \in Nat
    BY <1>5, <1>6, <2>1
  <2>3. rc[d] # RcMax /\ rc'[d] = rc[d] + Copies(d)
    BY <2>1, <2>2
  <2>4. rc[d] = HeldCount(d) + FrameCount(ctl, d)
    BY <2>3, ExactIs DEF HeapInv
  <2>5. /\ HeldCount(d) \in Nat /\ FrameCount(ctl, d) \in Nat
        /\ HeldCount(d)' + FrameCount(ctl', d) = HeldCount(d) + FrameCount(ctl, d) + Copies(d)
    <3>1. /\ HeldCount(d) \in Nat /\ FrameCount(ctl, d) \in Nat
          /\ HeldCount(d)' + FrameCount(ctl', d)
               = HeldCount(d) + FrameCount(ctl, d) + (IF v = d THEN 2 ELSE 0)
                   + (IF h \notin Vars /\ h[1] = d THEN 1 ELSE 0)
      BY <1>8
    <3> QED
      BY <3>1 DEF Copies
  <2> QED
    BY <2>3, <2>4, <2>5
<1> QED
  BY <1>8, <1>9, <1>10 DEF HeapInv

\* Nothing names a block that the allocator has not handed out.
LEMMA FreeUnowned ==
  ASSUME HeapInv, NEW c \in Cells \ live
  PROVE  /\ HeldCount(c) = 0 /\ FrameCount(ctl, c) = 0
         /\ c \notin flags.collecting \cup Dying \cup Sweeping
<1>1. c # Null /\ c \notin live
  BY Given
<1>2. HeldCount(c) = 0
  <2>1. Held(c) = {}
    BY <1>1 DEF HeapInv, NoDangling, Held
  <2> QED
    BY <2>1, FS_EmptySet DEF HeldCount
<1>3. FrameCount(ctl, c) = 0
  <2>1. \A i \in DOMAIN ctl : Weight(ctl[i], c) = 0
    BY <1>1 DEF HeapInv, NoDangling, Weight
  <2> QED
    BY <2>1, NoWeights DEF HeapInv, TypeOK
<1>4. c \notin flags.collecting
  BY <1>1 DEF HeapInv, CollectedApart
<1>5. c \notin Dying
  BY <1>1 DEF HeapInv, NoDangling, Dying
<1> QED
  BY <1>1, <1>2, <1>3, <1>4, <1>5, SweepingLive

\* A new cell begins with the two references that its store will use up.
LEMMA NewKeeps ==
  ASSUME HeapInv, Disciplined, NEW h \in Assignable, NEW c \in Cells, New(h, c)
  PROVE  HeapInv'
<1> DEFINE cs == Base(h)
           Copies(d) == IF h \notin Vars /\ h[1] = d THEN 1 ELSE 0
<1>1. /\ MayExecute /\ c \notin live /\ live' = live \cup {c}
      /\ rc' = [Retained(cs) EXCEPT ![c] = 2] /\ ctl' = StoreWork(h, c) \o Rest
      /\ UNCHANGED <<slot, var, collecting, candidates, requested, flags>>
  BY DEF New, gcVars
<1>2. Loadable \subseteq live \ (flags.collecting \cup Sweeping) /\ live \subseteq Cells
  BY LoadableApart DEF HeapInv, TypeOK
<1>3. /\ HeldCount(c) = 0 /\ FrameCount(ctl, c) = 0
      /\ c \notin flags.collecting \cup Dying \cup Sweeping
  BY <1>1, FreeUnowned
<1>4. h \notin Vars => h[1] \in live \ Sweeping
  BY <1>2 DEF Assignable
<1>5. \A d : Cardinality({i \in DOMAIN cs : cs[i] = d}) = Copies(d) /\ Copies(d) \in Nat
  <2> SUFFICES ASSUME NEW d
               PROVE  Cardinality({i \in DOMAIN cs : cs[i] = d}) = Copies(d) /\ Copies(d) \in Nat
    OBVIOUS
  <2>1. CASE h \in Vars
    <3>1. cs = <<>>
      BY <2>1 DEF Base
    <3>2. Copies(d) = 0
      BY <2>1
    <3> HIDE DEF cs, Copies
    <3>3. {i \in DOMAIN cs : cs[i] = d} = {}
      BY <3>1
    <3> QED
      BY <3>2, <3>3, FS_EmptySet
  <2>2. CASE h \notin Vars
    <3>1. cs = <<h[1]>>
      BY <2>2 DEF Base
    <3>2. Copies(d) = (IF h[1] = d THEN 1 ELSE 0) /\ Copies(d) \in Nat
      BY <2>2
    <3> HIDE DEF cs, Copies
    <3>3. Copied(cs, d) = IF h[1] = d THEN 1 ELSE 0
      BY <3>1, CopiesOfOne
    <3> QED
      BY <3>2, <3>3 DEF Copied
  <2> QED
    BY <2>1, <2>2
<1> HIDE DEF cs
<1>6. \A d \in Cells : /\ Retained(cs)[d] = (IF rc[d] + Copies(d) > RcMax THEN RcMax ELSE rc[d] + Copies(d))
                       /\ Retained(cs)[d] \in 0 .. RcMax
                       /\ Copies(d) = 0 => Retained(cs)[d] = rc[d]
  <2> SUFFICES ASSUME NEW d \in Cells
               PROVE /\ Retained(cs)[d] = (IF rc[d] + Copies(d) > RcMax THEN RcMax ELSE rc[d] + Copies(d))
                     /\ Retained(cs)[d] \in 0 .. RcMax
                     /\ Copies(d) = 0 => Retained(cs)[d] = rc[d]
    OBVIOUS
  <2>1. Cardinality({i \in DOMAIN cs : cs[i] = d}) = Copies(d) /\ Copies(d) \in Nat
    BY <1>5
  <2> HIDE DEF Copies
  <2> QED
    BY <2>1, RetainedIs DEF HeapInv
<1>7. /\ Retained(cs) = [d \in Cells |-> Retained(cs)[d]]
      /\ \A d \in Cells : d # c => rc'[d] = Retained(cs)[d]
      /\ rc'[c] = 2
  <2>1. Retained(cs) = [d \in Cells |-> Retained(cs)[d]]
    BY DEF Retained
  <2> QED
    BY <1>1, <2>1
<1>8. \A d \in Sweeping : rc'[d] = rc[d]
  <2>1. \A d \in Sweeping : d \in Cells /\ d # c /\ Copies(d) = 0
    BY <1>3, <1>4, SweepingLive
  <2> QED
    BY <1>6, <1>7, <2>1
<1> HIDE DEF Copies
<1>9. /\ NoDangling' /\ DestroyedOnce' /\ DyingAlone' /\ SweptAlone'
      /\ UnguardedAtOnce' /\ StoresWait' /\ CollectedApart' /\ FreeAreBlank' /\ BufferMatchesFlags'
      /\ ctl' \in Seq(Frames)
      /\ \A d \in live' : /\ HeldCount(d) \in Nat /\ FrameCount(ctl, d) \in Nat
                         /\ HeldCount(d)' + FrameCount(ctl', d)
                              = HeldCount(d) + FrameCount(ctl, d) + (IF c = d THEN 2 ELSE 0)
                                  + (IF h \notin Vars /\ h[1] = d THEN 1 ELSE 0)
  <2>1. /\ c \in Cells \cup {Null} /\ c \in live' \cup {Null}
        /\ live \subseteq live' /\ live' \subseteq Cells
    BY <1>1, <1>2
  <2>2. MayExecute /\ ctl' = StoreWork(h, c) \o Rest
    BY <1>1
  <2>3. UNCHANGED <<slot, var, collecting, candidates, requested, flags>>
    BY <1>1
  <2> QED
    BY <1>3, <1>8, <2>1, <2>2, <2>3, StoreKeeps
<1>10. TypeOK'
  <2>1. rc' \in [Cells -> 0 .. RcMax]
    <3>1. 2 \in 0 .. RcMax
      BY Given
    <3>2. Retained(cs) \in [Cells -> 0 .. RcMax]
      BY <1>6, <1>7
    <3> QED
      BY <1>1, <3>1, <3>2
  <2> QED
    BY <1>1, <1>2, <1>9, <2>1 DEF HeapInv, TypeOK
<1>11. RefCountExact'
  <2> SUFFICES ASSUME NEW d \in live', rc'[d] # RcMax
               PROVE  rc'[d] = HeldCount(d)' + FrameCount(ctl', d)
    BY ExactNext
  <2>0. /\ HeldCount(d) \in Nat /\ FrameCount(ctl, d) \in Nat
        /\ HeldCount(d)' + FrameCount(ctl', d)
             = HeldCount(d) + FrameCount(ctl, d) + (IF c = d THEN 2 ELSE 0) + Copies(d)
    BY <1>9 DEF Copies
  <2>1. CASE d = c
    <3>1. Copies(d) = 0
      BY <1>1, <1>4, <2>1 DEF Copies
    <3> QED
      BY <1>3, <1>7, <2>0, <2>1, <3>1
  <2>2. CASE d # c
    <3>1. d \in live /\ d \in Cells /\ rc[d] \in 0 .. RcMax /\ RcMax \in Nat
      BY <1>1, <1>2, <2>2, Given DEF HeapInv, TypeOK
    <3>2. rc'[d] = (IF rc[d] + Copies(d) > RcMax THEN RcMax ELSE rc[d] + Copies(d)) /\ Copies(d) \in Nat
      BY <1>5, <1>6, <1>7, <2>2, <3>1
    <3>3. rc[d] # RcMax /\ rc'[d] = rc[d] + Copies(d)
      BY <3>1, <3>2
    <3>4. rc[d] = HeldCount(d) + FrameCount(ctl, d)
      BY <3>1, <3>3, ExactIs DEF HeapInv
    <3> QED
      BY <2>0, <2>2, <3>2, <3>3, <3>4
  <2> QED
    BY <2>1, <2>2
<1> QED
  BY <1>9, <1>10, <1>11 DEF HeapInv

-----------------------------------------------------------------------------
(* The collection.                                                         *)

\* What holds at 0, and of the next number when it holds of a number, holds up to n.
LEMMA CountUp ==
  ASSUME NEW n \in Nat, NEW P, 0 \in P, \A k \in 0 .. n - 1 : k \in P => k + 1 \in P
  PROVE  \A k \in 0 .. n : k \in P
<1> DEFINE S == {k \in 0 .. n : k \notin P}
<1> SUFFICES ASSUME S # {} PROVE FALSE
  OBVIOUS
<1>1. S \subseteq Nat
  OBVIOUS
<1>2. PICK k \in S : \A j \in S : <<j, k>> \notin OpToRel(<, Nat)
  BY <1>1, NatLessThanWellFounded, WFMin, Zenon
<1>3. \A j \in S : ~(j < k)
  BY <1>1, <1>2 DEF OpToRel
<1>4. k \in 0 .. n /\ k # 0 /\ k \notin P
  OBVIOUS
<1>5. k - 1 \in 0 .. n - 1 /\ k - 1 < k /\ (k - 1) + 1 = k
  BY <1>4
<1>6. k - 1 \in P
  BY <1>3, <1>5
<1> QED
  BY <1>4, <1>5, <1>6

\* Turn k of discover_child()'s loops, after the nodes ns.
LookAt(ns, k) ==
  LET n == ((k - 1) \div NSlots) + 1
      c == slot[ns[n]][((k - 1) % NSlots) + 1]
  IN  IF n > Len(ns) THEN ns
      ELSE IF c = Null \/ c \in Range(ns) \/ Len(ns) = BufferMax THEN ns ELSE Append(ns, c)

Turn(f, k) == IF k = 0 THEN candidates ELSE LookAt(f[k - 1], k)

\* The turns define a function.
LEMMA NodesDefined ==
  ASSUME NEW K \in Nat
  PROVE  \E f : f = [k \in 0 .. K |-> Turn(f, k)]
<1> DEFINE P == {n \in 0 .. K : \E f : f = [k \in 0 .. n |-> Turn(f, k)]}
<1>1. 0 \in P
  <2> DEFINE f == [k \in 0 .. 0 |-> candidates]
  <2>1. f = [k \in 0 .. 0 |-> Turn(f, k)]
    BY DEF Turn
  <2> HIDE DEF f
  <2> QED
    BY <2>1
<1>2. ASSUME NEW n \in 0 .. K - 1, n \in P PROVE n + 1 \in P
  <2>1. PICK f : f = [k \in 0 .. n |-> Turn(f, k)]
    BY <1>2
  <2> DEFINE x == Turn(f, n + 1)
             g == [k \in 0 .. n + 1 |-> IF k = n + 1 THEN x ELSE f[k]]
  <2> HIDE DEF x
  <2>2. \A k \in 0 .. n : g[k] = f[k]
    OBVIOUS
  <2>3. g[n + 1] = x
    OBVIOUS
  <2>4. \A k \in 0 .. n + 1 : k # 0 => k - 1 \in 0 .. n
    OBVIOUS
  <2>5. DOMAIN g = 0 .. n + 1 /\ g = [k \in 0 .. n + 1 |-> g[k]]
    OBVIOUS
  <2> HIDE DEF g
  <2>6. \A k \in 0 .. n + 1 : Turn(g, k) = Turn(f, k)
    BY <2>2, <2>4 DEF Turn
  <2>7. \A k \in 0 .. n + 1 : g[k] = Turn(g, k)
    <3> SUFFICES ASSUME NEW k \in 0 .. n + 1 PROVE g[k] = Turn(g, k)
      OBVIOUS
    <3>1. CASE k = n + 1
      BY <2>3, <2>6, <3>1 DEF x
    <3>2. CASE k # n + 1
      <4>1. k \in 0 .. n
        BY <3>2
      <4>2. f[k] = Turn(f, k)
        BY <2>1, <4>1
      <4> QED
        BY <2>2, <2>6, <4>1, <4>2
    <3> QED
      BY <3>1, <3>2
  <2>8. g = [k \in 0 .. n + 1 |-> Turn(g, k)]
    BY <2>5, <2>7
  <2> QED
    BY <2>8
<1> HIDE DEF P
<1>3. K \in P
  BY <1>1, <1>2, CountUp
<1> QED
  BY <1>3 DEF P

\* The nodes are where the turns arrive.
LEMMA NodesAre ==
  \E f : /\ f[0] = candidates
         /\ \A k \in 0 .. BufferMax * NSlots - 1 : f[k + 1] = LookAt(f[k], k + 1)
         /\ Nodes = f[BufferMax * NSlots]
<1> DEFINE K == BufferMax * NSlots
           Solves(f) == f = [k \in 0 .. K |-> Turn(f, k)]
           F == CHOOSE f : Solves(f)
<1>0. K \in Nat
  BY Given
<1>1. Solves(F)
  BY <1>0, NodesDefined
<1>2. Nodes = F[K]
  BY DEF Nodes, Turn, LookAt
<1> HIDE DEF F, K
<1>3. \A k \in 0 .. K : F[k] = Turn(F, k)
  BY <1>1
<1>4. F[0] = candidates
  BY <1>0, <1>3 DEF Turn
<1>5. \A k \in 0 .. K - 1 : F[k + 1] = LookAt(F[k], k + 1)
  <2> SUFFICES ASSUME NEW k \in 0 .. K - 1 PROVE F[k + 1] = LookAt(F[k], k + 1)
    OBVIOUS
  <2>1. k + 1 \in 0 .. K /\ k + 1 # 0 /\ (k + 1) - 1 = k
    BY <1>0
  <2> QED
    BY <1>3, <2>1 DEF Turn
<1> QED
  BY <1>2, <1>4, <1>5 DEF K

\* While the VM runs, what a holder that is being overwritten names is in the
\* middle of its destruction.
LEMMA StaleDies ==
  ASSUME HeapInv, Running, NEW h \in Stale
  PROVE  \E i \in DOMAIN ctl :
           /\ ctl[i].op = "put" /\ ctl[i].holder = h /\ i - 1 \in DOMAIN ctl
           /\ ctl[i - 1].cell = ValueIn(h) /\ Dismantles(ctl[i - 1])
<1>1. PICK i \in DOMAIN ctl : ctl[i].op = "put" /\ ctl[i].holder = h
  BY DEF Stale
<1>2. ctl \in Seq(Frames) /\ Waits(i)
  BY <1>1 DEF HeapInv, TypeOK, StoresWait
<1>3. 1 \in DOMAIN ctl /\ ctl[1].op = "destructor"
  BY <1>2, RunningTop
<1>4. i > 1 /\ i - 1 \in DOMAIN ctl
  <2>1. i # 1 /\ i \in 1 .. Len(ctl) /\ DOMAIN ctl = 1 .. Len(ctl)
    BY <1>1, <1>2, <1>3
  <2> QED
    BY <2>1
<1>5. ctl[i - 1].cell = ValueIn(h) /\ Dismantles(ctl[i - 1])
  BY <1>1, <1>2, <1>3, <1>4 DEF Waits
<1> QED
  BY <1>1, <1>4, <1>5

\* The collector reads live cells in the slots of a cell that is not swept.
LEMMA SlotsLive ==
  ASSUME HeapInv, Running, NEW d \in live \ Sweeping, NEW s \in Slots
  PROVE  slot[d][s] \in live \cup {Null}
<1> DEFINE h == <<d, s>>
<1>1. d \in Cells /\ h \notin Vars /\ ValueIn(h) = slot[d][s]
  <2>1. d \in Cells
    BY DEF HeapInv, TypeOK
  <2> QED
    BY <2>1, Given DEF ValueIn
<1>2. h \notin Swept
  BY <1>1, SweptSlots DEF HeapInv, Sweeping
<1>3. CASE h \in Stale
  <2>1. PICK i \in DOMAIN ctl : i - 1 \in DOMAIN ctl /\ ctl[i - 1].cell = ValueIn(h)
    BY <1>3, StaleDies
  <2> QED
    BY <1>1, <2>1 DEF HeapInv, NoDangling
<1>4. CASE h \notin Stale
  <2>1. h \in Owning
    BY <1>1, <1>2, <1>4 DEF Owning
  <2> QED
    BY <1>1, <2>1 DEF HeapInv, NoDangling
<1> QED
  BY <1>3, <1>4

\* The collector looks at live cells.
LEMMA NodesLive ==
  ASSUME HeapInv, Running, Range(Nodes) \cap Sweeping = {}
  PROVE  Nodes \in Seq(Cells) /\ Len(Nodes) <= BufferMax /\ Range(Nodes) \subseteq live \ Sweeping
<1> DEFINE K == BufferMax * NSlots
           Good(ns) == /\ ns \in Seq(Cells) /\ Len(ns) <= BufferMax
                       /\ Range(ns) \cap Sweeping = {} => Range(ns) \subseteq live
<1>0. K \in Nat /\ live \subseteq Cells
  BY Given DEF HeapInv, TypeOK
<1>1. PICK f : /\ f[0] = candidates
               /\ \A k \in 0 .. K - 1 : f[k + 1] = LookAt(f[k], k + 1)
               /\ Nodes = f[K]
  BY NodesAre
<1> HIDE DEF K
<1>2. Good(f[0])
  BY <1>1 DEF HeapInv, TypeOK, BufferMatchesFlags
<1>3. ASSUME NEW k \in 0 .. K - 1, Good(f[k]) PROVE Good(f[k + 1])
  <2>0. PICK ns : ns = f[k]
    OBVIOUS
  <2>0a. PICK n, j : n = (k \div NSlots) + 1 /\ j = (k % NSlots) + 1
    OBVIOUS
  <2>1. n \in Nat \ {0} /\ j \in Slots
    <3>1. k \in Nat
      BY <1>0
    <3>2. k \div NSlots \in Nat /\ k % NSlots \in 0 .. NSlots - 1
      BY <3>1, Given
    <3> QED
      BY <2>0a, <3>2, Given
  <2>2. k \in Nat /\ (k + 1) - 1 = k
    BY <1>0
  <2>3. f[k + 1] = LookAt(ns, k + 1)
    BY <1>1, <2>0
  <2>4. PICK c : c = slot[ns[n]][j]
    OBVIOUS
  <2>5. f[k + 1] = (IF n > Len(ns) THEN ns
                    ELSE IF c = Null \/ c \in Range(ns) \/ Len(ns) = BufferMax THEN ns ELSE Append(ns, c))
    BY <2>0a, <2>2, <2>3, <2>4 DEF LookAt
  <2>6. CASE f[k + 1] = ns
    BY <1>3, <2>0, <2>6
  <2>7. CASE f[k + 1] # ns
    <3>1. ~(n > Len(ns)) /\ c # Null /\ Len(ns) # BufferMax /\ f[k + 1] = Append(ns, c)
      BY <2>5, <2>7
    <3>2. ns \in Seq(Cells) /\ Len(ns) \in Nat /\ n \in DOMAIN ns /\ ns[n] \in Cells /\ ns[n] \in Range(ns)
      BY <1>3, <2>0, <2>1, <3>1 DEF Range
    <3>3. c \in Cells
      BY <2>1, <2>4, <3>1, <3>2 DEF HeapInv, TypeOK
    <3>4. PICK ms : ms = Append(ns, c)
      OBVIOUS
    <3>5. ms \in Seq(Cells) /\ Len(ms) = Len(ns) + 1 /\ Range(ms) = Range(ns) \cup {c}
      <4>1. ms \in Seq(Cells) /\ Len(ms) = Len(ns) + 1
        BY <3>2, <3>3, <3>4
      <4>2. DOMAIN ms = DOMAIN ns \cup {Len(ns) + 1} /\ \A i \in DOMAIN ns : ms[i] = ns[i]
        BY <3>2, <3>3, <3>4
      <4>3. ms[Len(ns) + 1] = c
        BY <3>2, <3>3, <3>4
      <4> QED
        BY <4>1, <4>2, <4>3 DEF Range
    <3>6. Len(ms) <= BufferMax
      BY <1>3, <2>0, <3>1, <3>2, <3>5, Given
    <3>7. ASSUME Range(ms) \cap Sweeping = {} PROVE Range(ms) \subseteq live
      <4>1. Range(ns) \subseteq live /\ ns[n] \in live \ Sweeping
        BY <1>3, <2>0, <3>2, <3>5, <3>7
      <4>2. c \in live
        BY <2>1, <2>4, <3>1, <4>1, SlotsLive
      <4> QED
        BY <3>5, <4>1, <4>2
    <3> QED
      BY <3>1, <3>4, <3>5, <3>6, <3>7
  <2> QED
    BY <2>6, <2>7
<1>4. Good(f[K])
  <2> DEFINE P == {k \in 0 .. K : Good(f[k])}
  <2>1. 0 \in P
    BY <1>0, <1>2
  <2>2. \A k \in 0 .. K - 1 : k \in P => k + 1 \in P
    <3> HIDE DEF Good
    <3> SUFFICES ASSUME NEW k \in 0 .. K - 1, k \in P PROVE k + 1 \in P
      OBVIOUS
    <3>1. Good(f[k]) /\ k + 1 \in 0 .. K
      BY <1>0
    <3> QED
      BY <1>3, <3>1
  <2> HIDE DEF P
  <2>3. K \in P
    BY <1>0, <2>1, <2>2, CountUp
  <2> QED
    BY <2>3 DEF P
<1> QED
  BY <1>1, <1>4

\* What a closure in N begins with it has, and it stays in N.
LEMMA ClosureIs ==
  ASSUME NEW N, NEW S \in SUBSET N
  PROVE  /\ S \subseteq Closure(S, N, {})
         /\ \A h \in Closure(S, N, {}) \X Slots : ValueIn(h) \in N => ValueIn(h) \in Closure(S, N, {})
<1> DEFINE IsClosed(T) == \A h \in (T \X Slots) \ {} : ValueIn(h) \in N => ValueIn(h) \in T
           C == Closure(S, N, {})
<1>1. \A c : c \in C <=> c \in S \cup N /\ \A T \in SUBSET (S \cup N) : S \subseteq T /\ IsClosed(T) => c \in T
  BY DEF Closure
<1> HIDE DEF C
<1>2. S \subseteq C
  BY <1>1
<1>3. ASSUME NEW h \in C \X Slots, ValueIn(h) \in N PROVE ValueIn(h) \in C
  <2>1. ASSUME NEW T \in SUBSET (S \cup N), S \subseteq T, IsClosed(T) PROVE ValueIn(h) \in T
    <3>1. h[1] \in T /\ h[2] \in Slots /\ h = <<h[1], h[2]>>
      BY <1>1, <2>1
    <3>2. h \in (T \X Slots) \ {}
      BY <3>1
    <3> QED
      BY <1>3, <2>1, <3>2
  <2> QED
    BY <1>1, <1>3, <2>1
<1> QED
  BY <1>2, <1>3 DEF C

\* A running destructor holds two references to its cell.
LEMMA DestructorHolds ==
  ASSUME ctl \in Seq(Frames), NEW i \in DOMAIN ctl, ctl[i].op = "destructor"
  PROVE  FrameCount(ctl, ctl[i].cell) >= 2 /\ FrameCount(ctl, ctl[i].cell) \in Nat
<1>0. PICK c : c = ctl[i].cell
  OBVIOUS
<1>1. Weight(ctl[i], c) = 2
  BY <1>0, FrameWeights
<1>2. {<<i, 1>>} \cup {<<i, 2>>} \subseteq FrameRefs(ctl, c)
  BY <1>1 DEF FrameRefs
<1>3. Cardinality({<<i, 1>>} \cup {<<i, 2>>}) = 2
  <2>1. IsFiniteSet({<<i, 1>>}) /\ Cardinality({<<i, 1>>}) = 1
    BY FS_Singleton, Zenon
  <2>2. <<i, 2>> \notin {<<i, 1>>}
    OBVIOUS
  <2>3. Cardinality({<<i, 1>>} \cup {<<i, 2>>}) = Cardinality({<<i, 1>>}) + 1
    BY <2>1, <2>2, FS_AddElement
  <2> QED
    BY <2>1, <2>3
<1>4. IsFiniteSet(FrameRefs(ctl, c)) /\ FrameCount(ctl, c) \in Nat
  BY FrameRefsFinite
<1>5. 2 <= Cardinality(FrameRefs(ctl, c))
  BY <1>2, <1>3, <1>4, FS_Subset
<1> QED
  BY <1>0, <1>4, <1>5 DEF FrameCount

\* The slots of N that name d.
Inner(N, d) == {h \in N \X Slots : ValueIn(h) = d}

\* A dying cell is named by the one holder that waits for its end, at most.
LEMMA DyingInner ==
  ASSUME HeapInv, Running, NEW N \in SUBSET (live \ Sweeping), NEW d \in Dying
  PROVE  Cardinality(Inner(N, d)) <= 1 /\ Cardinality(Inner(N, d)) \in Nat
<1>1. PICK i \in DOMAIN ctl : Dismantles(ctl[i]) /\ ctl[i].cell = d
  BY DEF Dying
<1>2. PICK g : g = ctl[i + 1].holder
  OBVIOUS
<1>3. Inner(N, d) \subseteq {g}
  <2> SUFFICES ASSUME NEW h \in N \X Slots, ValueIn(h) = d PROVE h = g
    BY DEF Inner
  <2>1. h \notin Owning
    BY <1>1 DEF HeapInv, DyingAlone, Alone
  <2>2. h \notin Swept
    <3>1. h[1] \notin Sweeping
      OBVIOUS
    <3>2. h \in Swept => \E j \in DOMAIN ctl : ctl[j].op = "sweep" /\ ctl[j].cell = h[1]
      BY SweptSlots DEF HeapInv
    <3> QED
      BY <3>1, <3>2 DEF Sweeping
  <2>3. h \in Stale
    BY <2>1, <2>2 DEF Owning
  <2>4. PICK j \in DOMAIN ctl : /\ ctl[j].op = "put" /\ ctl[j].holder = h /\ j - 1 \in DOMAIN ctl
                                /\ ctl[j - 1].cell = d /\ Dismantles(ctl[j - 1])
    BY <2>3, StaleDies
  <2>5. j - 1 = i
    BY <1>1, <2>4 DEF HeapInv, DestroyedOnce
  <2>6. j = i + 1
    <3>1. DOMAIN ctl = 1 .. Len(ctl) /\ Len(ctl) \in Nat
      BY DEF HeapInv, TypeOK
    <3> QED
      BY <2>5, <3>1
  <2> QED
    BY <1>2, <2>4, <2>6
<1>4. IsFiniteSet({g}) /\ Cardinality({g}) = 1
  BY FS_Singleton, Zenon
<1> QED
  BY <1>3, <1>4, FS_Subset, FS_CardinalityType

\* A node without external references is named by slots of nodes alone.
LEMMA NoExternalRef ==
  ASSUME HeapInv, Running, NEW N \in SUBSET (live \ Sweeping),
         IsFiniteSet(N \X Slots), Cardinality(N \X Slots) < RcMax,
         NEW d \in N, ~HasExternalRef(d, N)
  PROVE  /\ d \notin Dying /\ rc[d] # RcMax
         /\ Held(d) \subseteq Inner(N, d) /\ FrameCount(ctl, d) = 0
<1>1. /\ rc[d] \in 0 .. RcMax /\ RcMax \in Nat /\ d \in live /\ d \notin Sweeping /\ live \subseteq Cells /\ d # Null
  BY Given DEF HeapInv, TypeOK
<1>2. /\ IsFiniteSet(Inner(N, d)) /\ Cardinality(Inner(N, d)) \in Nat
      /\ Cardinality(Inner(N, d)) <= Cardinality(N \X Slots) /\ Cardinality(N \X Slots) \in Nat
  BY FS_Subset, FS_CardinalityType DEF Inner
<1>3. rc[d] <= Cardinality(Inner(N, d))
  BY <1>1, <1>2 DEF HasExternalRef, Inner
<1>4. rc[d] # RcMax
  BY <1>1, <1>2, <1>3
<1>5. rc[d] = HeldCount(d) + FrameCount(ctl, d) /\ HeldCount(d) \in Nat /\ FrameCount(ctl, d) \in Nat
  <2>1. HeldCount(d) \in Nat
    BY OwningHolders DEF HeapInv
  <2>2. FrameCount(ctl, d) \in Nat
    BY FrameRefsFinite DEF HeapInv, TypeOK
  <2> QED
    BY <1>1, <1>4, <2>1, <2>2, ExactIs DEF HeapInv
<1>6. d \notin Dying
  <2> SUFFICES ASSUME d \in Dying PROVE FALSE
    OBVIOUS
  <2>1. PICK i \in DOMAIN ctl : Dismantles(ctl[i]) /\ ctl[i].cell = d
    BY DEF Dying
  <2>2. ctl[i].op = "destructor"
    <3>1. ctl[i].op # "sweep"
      BY <1>1, <2>1 DEF Sweeping
    <3>2. 1 \in DOMAIN ctl /\ ctl[1].op = "destructor"
      BY RunningTop DEF HeapInv, TypeOK
    <3>3. ctl[i].op # "unguard"
      BY <3>2 DEF HeapInv, UnguardedAtOnce, Release
    <3> QED
      BY <2>1, <3>1, <3>3 DEF Dismantles
  <2>3. FrameCount(ctl, d) >= 2
    BY <2>1, <2>2, DestructorHolds DEF HeapInv, TypeOK
  <2>4. Cardinality(Inner(N, d)) <= 1
    BY DyingInner
  <2> QED
    BY <1>2, <1>3, <1>5, <2>3, <2>4
<1>7. Inner(N, d) \subseteq Held(d)
  <2> SUFFICES ASSUME NEW h \in N \X Slots, ValueIn(h) = d PROVE h \in Owning
    BY DEF Inner, Held
  <2>1. h \notin Swept
    <3>1. h[1] \notin Sweeping
      OBVIOUS
    <3>2. h \in Swept => \E j \in DOMAIN ctl : ctl[j].op = "sweep" /\ ctl[j].cell = h[1]
      BY SweptSlots DEF HeapInv
    <3> QED
      BY <3>1, <3>2 DEF Sweeping
  <2>2. h \notin Stale
    <3> SUFFICES ASSUME h \in Stale PROVE FALSE
      OBVIOUS
    <3>1. PICK j \in DOMAIN ctl : j - 1 \in DOMAIN ctl /\ ctl[j - 1].cell = d /\ Dismantles(ctl[j - 1])
      BY StaleDies
    <3> QED
      BY <1>6, <3>1 DEF Dying
  <2> QED
    BY <2>1, <2>2 DEF Owning
<1>8. IsFiniteSet(Held(d))
  BY OwningHolders, HeldFinite DEF HeapInv
<1>9. Cardinality(Inner(N, d)) <= HeldCount(d)
  BY <1>7, <1>8, FS_Subset DEF HeldCount
<1>10. FrameCount(ctl, d) = 0 /\ HeldCount(d) = Cardinality(Inner(N, d))
  BY <1>2, <1>3, <1>5, <1>9
<1>11. Held(d) = Inner(N, d)
  BY <1>7, <1>8, <1>10, FS_Subset DEF HeldCount
<1> QED
  BY <1>4, <1>6, <1>10, <1>11

\* The slots one collection looks at.
LEMMA NodeSlots ==
  ASSUME NEW ns \in Seq(Cells), Len(ns) <= BufferMax
  PROVE  /\ IsFiniteSet(Range(ns) \X Slots)
         /\ Cardinality(Range(ns) \X Slots) \in Nat
         /\ Cardinality(Range(ns) \X Slots) <= BufferMax * NSlots
<1> DEFINE R == Range(ns)
<1>1. Len(ns) \in Nat /\ IsFiniteSet(1 .. Len(ns)) /\ Cardinality(1 .. Len(ns)) = Len(ns)
  BY IntervalSize
<1>2. ns \in Surjection(1 .. Len(ns), R)
  <2>1. ns \in [1 .. Len(ns) -> R]
    <3>1. DOMAIN ns = 1 .. Len(ns) /\ ns = [i \in 1 .. Len(ns) |-> ns[i]]
      OBVIOUS
    <3>2. \A i \in 1 .. Len(ns) : ns[i] \in R
      BY <3>1 DEF Range
    <3> QED
      BY <3>1, <3>2
  <2>2. \A r \in R : \E i \in 1 .. Len(ns) : ns[i] = r
    BY DEF Range
  <2> HIDE DEF R
  <2> QED
    BY <2>1, <2>2 DEF Surjection
<1> HIDE DEF R
<1>3. IsFiniteSet(R) /\ Cardinality(R) \in Nat /\ Cardinality(R) <= Len(ns)
  BY <1>1, <1>2, FS_Surjection, FS_CardinalityType
<1>4. IsFiniteSet(Slots) /\ Cardinality(Slots) = NSlots
  BY Given, IntervalSize
<1>5. IsFiniteSet(R \X Slots) /\ Cardinality(R \X Slots) = Cardinality(R) * NSlots
  BY <1>3, <1>4, FS_Product
<1>6. PICK a, b : a = Cardinality(R) /\ b = BufferMax
  OBVIOUS
<1>7. a \in Nat /\ b \in Nat /\ a <= b /\ NSlots \in Nat
  BY <1>1, <1>3, <1>6, Given
<1>8. a * NSlots <= b * NSlots /\ a * NSlots \in Nat
  BY <1>7
<1> QED
  BY <1>5, <1>6, <1>8 DEF R

\* Nothing but dead cells has references to the dead cells.
LEMMA DeadApart ==
  ASSUME HeapInv, Disciplined, Running,
         NEW ns \in Seq(Cells), Len(ns) <= BufferMax, Range(ns) \subseteq live \ Sweeping,
         NEW dead, dead = Unreachable(ns)
  PROVE  /\ dead \in Seq(Cells \cup {Null}) /\ Range(dead) \ {Null} \subseteq live \ (Sweeping \cup Dying)
         /\ \A d \in Range(dead) \ {Null} :
              /\ rc[d] # RcMax /\ FrameCount(ctl, d) = 0
              /\ \A h \in Held(d) : h \notin Vars /\ h[1] \in Range(dead) \ {Null}
<1> DEFINE N == Range(ns)
           S == {c \in N : HasExternalRef(c, N)}
           kept == Closure(S, N, {})
<1>1. dead = [i \in DOMAIN ns |-> IF ns[i] \in kept THEN Null ELSE ns[i]]
  BY DEF Unreachable
<1>2. N \subseteq live \ Sweeping /\ N \subseteq Cells /\ S \subseteq N
  BY DEF HeapInv, TypeOK
<1>3. /\ S \subseteq kept
      /\ \A h \in kept \X Slots : ValueIn(h) \in N => ValueIn(h) \in kept
  <2> HIDE DEF S, N
  <2> QED
    BY <1>2, ClosureIs
<1>4. IsFiniteSet(N \X Slots) /\ Cardinality(N \X Slots) < RcMax
  <2>1. IsFiniteSet(N \X Slots) /\ Cardinality(N \X Slots) \in Nat /\ Cardinality(N \X Slots) <= BufferMax * NSlots
    BY NodeSlots
  <2>2. BufferMax * NSlots < RcMax
    BY DEF Disciplined
  <2> HIDE DEF N
  <2>3. PICK a, b : a = Cardinality(N \X Slots) /\ b = BufferMax * NSlots
    OBVIOUS
  <2>4. a \in Nat /\ b \in Nat /\ RcMax \in Nat
    BY <2>1, <2>3, Given
  <2> QED
    BY <2>1, <2>2, <2>3, <2>4
<1> HIDE DEF kept
<1>5. DOMAIN ns = 1 .. Len(ns) /\ Len(ns) \in Nat /\ \A i \in DOMAIN ns : ns[i] \in Cells /\ ns[i] \in N
  BY DEF Range
<1>6. dead \in Seq(Cells \cup {Null})
  <2>1. dead \in [1 .. Len(ns) -> Cells \cup {Null}]
    BY <1>1, <1>5
  <2> QED
    BY <1>5, <2>1, AsSequence
<1>7. \A d : d \in Range(dead) \ {Null} <=> d \in N \ kept
  <2>1. ASSUME NEW d \in Range(dead) \ {Null} PROVE d \in N \ kept
    <3>1. PICK i \in DOMAIN dead : dead[i] = d /\ d # Null
      BY DEF Range
    <3> QED
      BY <1>1, <1>5, <3>1
  <2>2. ASSUME NEW d \in N \ kept PROVE d \in Range(dead) \ {Null}
    <3>1. PICK i \in DOMAIN ns : ns[i] = d
      BY DEF Range
    <3>2. i \in DOMAIN dead /\ dead[i] = d /\ d # Null
      BY <1>1, <1>5, <3>1, Given
    <3> QED
      BY <3>2 DEF Range
  <2> QED
    BY <2>1, <2>2
<1> HIDE DEF N
<1>8. ASSUME NEW d \in N \ kept
      PROVE  /\ d \notin Dying /\ rc[d] # RcMax /\ FrameCount(ctl, d) = 0
             /\ Held(d) \subseteq Inner(N, d)
  <2>1. ~HasExternalRef(d, N)
    BY <1>3 DEF S
  <2> QED
    BY <1>2, <1>4, <2>1, NoExternalRef
<1>9. ASSUME NEW d \in N \ kept, NEW h \in Held(d)
      PROVE  h \notin Vars /\ h[1] \in N \ kept
  <2>1. h \in N \X Slots /\ ValueIn(h) = d
    BY <1>8 DEF Inner
  <2>2. h[1] \in N /\ h[1] \in Cells
    BY <1>2, <2>1
  <2>3. h \notin Vars
    BY <1>2, <2>1, Given
  <2>4. h[1] \notin kept
    <3> SUFFICES ASSUME h[1] \in kept PROVE FALSE
      OBVIOUS
    <3>1. h \in kept \X Slots
      BY <2>1
    <3> QED
      BY <1>3, <2>1, <3>1
  <2> QED
    BY <2>2, <2>3, <2>4
<1> QED
  BY <1>2, <1>6, <1>7, <1>8, <1>9

\* The work of a collection: empty the dead cells, give each up, and end.
LEMMA CollectFrames ==
  ASSUME NEW dead \in Seq(Cells \cup {Null})
  PROVE  LET clears   == [i \in DOMAIN dead |-> IF dead[i] = Null THEN Release(Null) ELSE Clear(dead[i], 1)]
             releases == [i \in DOMAIN dead |-> Release(dead[i])]
             s == clears \o releases \o <<Collected>>
             n == Len(dead)
         IN  /\ s \in Seq(Frames) /\ Len(s) = n + n + 1
             /\ \A i \in 1 .. n : s[i] = (IF dead[i] = Null THEN Release(Null) ELSE Clear(dead[i], 1))
             /\ \A i \in 1 .. n : s[n + i] = Release(dead[i])
             /\ s[n + n + 1] = Collected
             /\ \A d : d # Null => FrameCount(s, d) = Copied(dead, d) /\ Copied(dead, d) \in Nat
<1> DEFINE clears   == [i \in DOMAIN dead |-> IF dead[i] = Null THEN Release(Null) ELSE Clear(dead[i], 1)]
           releases == [i \in DOMAIN dead |-> Release(dead[i])]
           t == clears \o releases
           s == t \o <<Collected>>
           n == Len(dead)
<1>1. /\ n \in Nat /\ DOMAIN dead = 1 .. n
      /\ \A i \in 1 .. n : dead[i] \in Cells \cup {Null}
  OBVIOUS
<1> HIDE DEF n
<1>2. clears \in Seq(Frames) /\ Len(clears) = n
  <2>1. \A i \in 1 .. n : (IF dead[i] = Null THEN Release(Null) ELSE Clear(dead[i], 1)) \in Frames
    <3> SUFFICES ASSUME NEW i \in 1 .. n
                 PROVE  (IF dead[i] = Null THEN Release(Null) ELSE Clear(dead[i], 1)) \in Frames
      OBVIOUS
    <3>1. CASE dead[i] = Null
      BY <3>1 DEF Frames
    <3>2. CASE dead[i] # Null
      <4>1. dead[i] \in Cells /\ 1 \in Slots
        BY <1>1, <3>2, Given
      <4> QED
        BY <3>2, <4>1 DEF Frames
    <3> QED
      BY <3>1, <3>2
  <2>2. clears \in [1 .. n -> Frames]
    BY <1>1, <2>1
  <2> HIDE DEF clears
  <2> QED
    BY <1>1, <2>2, AsSequence
<1>3. releases \in Seq(Frames) /\ Len(releases) = n
  <2>1. \A i \in 1 .. n : Release(dead[i]) \in Frames
    BY <1>1 DEF Frames
  <2>2. releases \in [1 .. n -> Frames]
    BY <1>1, <2>1
  <2> HIDE DEF releases
  <2> QED
    BY <1>1, <2>2, AsSequence
<1>4. <<Collected>> \in Seq(Frames) /\ Len(<<Collected>>) = 1 /\ <<Collected>>[1] = Collected
  BY DEF Frames
<1>5. /\ \A i \in 1 .. n : clears[i] = (IF dead[i] = Null THEN Release(Null) ELSE Clear(dead[i], 1))
      /\ \A i \in 1 .. n : releases[i] = Release(dead[i])
  BY <1>1
<1>6. \A d : d # Null => FrameCount(clears, d) = 0
  <2> SUFFICES ASSUME NEW d, d # Null PROVE \A i \in DOMAIN clears : Weight(clears[i], d) = 0
    BY <1>2, NoWeights
  <2> QED
    BY <1>1 DEF Weight, Release, Clear
<1>7. \A d : d # Null => FrameCount(releases, d) = Copied(dead, d) /\ Copied(dead, d) \in Nat
  <2> SUFFICES ASSUME NEW d, d # Null
               PROVE  FrameCount(releases, d) = Copied(dead, d) /\ Copied(dead, d) \in Nat
    OBVIOUS
  <2> DEFINE I == {i \in DOMAIN dead : dead[i] = d}
  <2>1. IsFiniteSet(I) /\ Cardinality(I) \in Nat
    <3>1. IsFiniteSet(1 .. n)
      BY <1>1, IntervalSize
    <3> QED
      BY <1>1, <3>1, FS_Subset, FS_CardinalityType
  <2>2. \A i \in 1 .. n : Weight(releases[i], d) = IF dead[i] = d THEN 1 ELSE 0
    BY <1>1 DEF Weight, Release
  <2>3. FrameRefs(releases, d) = I \X {1}
    <3>1. DOMAIN releases = 1 .. n
      BY <1>1
    <3> HIDE DEF releases
    <3> QED
      BY <1>1, <2>2, <3>1 DEF FrameRefs
  <2>4. IsFiniteSet({1}) /\ Cardinality({1}) = 1
    BY FS_Singleton, Zenon
  <2> HIDE DEF I, releases
  <2>5. Cardinality(I \X {1}) = Cardinality(I) * 1
    BY <2>1, <2>4, FS_Product
  <2>6. FrameCount(releases, d) = Cardinality(I)
    BY <2>1, <2>3, <2>5 DEF FrameCount
  <2> QED
    BY <2>1, <2>6 DEF Copied, I
<1> HIDE DEF clears, releases
<1>8. /\ t \in Seq(Frames) /\ Len(t) = n + n
      /\ \A i \in 1 .. n : t[i] = clears[i]
      /\ \A i \in 1 .. n : t[n + i] = releases[i]
  <2>1. /\ t \in Seq(Frames) /\ Len(t) = Len(clears) + Len(releases)
        /\ \A j \in 1 .. Len(clears) : t[j] = clears[j]
        /\ \A i \in 1 .. Len(releases) : t[Len(clears) + i] = releases[i]
    <3>1. PICK a, b : a = clears /\ b = releases
      OBVIOUS
    <3>2. a \in Seq(Frames) /\ b \in Seq(Frames)
      BY <1>2, <1>3, <3>1
    <3>3. /\ a \o b \in Seq(Frames) /\ Len(a \o b) = Len(a) + Len(b)
          /\ \A j \in 1 .. Len(a) : (a \o b)[j] = a[j]
          /\ \A i \in 1 .. Len(b) : (a \o b)[Len(a) + i] = b[i]
      BY <3>2, JoinIs
    <3> QED
      BY <3>1, <3>3
  <2> HIDE DEF t
  <2> QED
    BY <1>2, <1>3, <2>1
<1>9. \A d : FrameCount(t, d) = FrameCount(clears, d) + FrameCount(releases, d)
  BY <1>2, <1>3, FramesJoin
<1> HIDE DEF t
<1>10. /\ s \in Seq(Frames) /\ Len(s) = n + n + 1
       /\ \A i \in 1 .. n + n : s[i] = t[i]
       /\ s[n + n + 1] = Collected
  <2>1. /\ s \in Seq(Frames) /\ Len(s) = Len(t) + Len(<<Collected>>)
        /\ \A j \in 1 .. Len(t) : s[j] = t[j]
        /\ \A i \in 1 .. Len(<<Collected>>) : s[Len(t) + i] = <<Collected>>[i]
    BY <1>4, <1>8, JoinIs
  <2> HIDE DEF s
  <2> QED
    BY <1>4, <1>8, <2>1
<1>11. \A d : d # Null => FrameCount(s, d) = FrameCount(t, d)
  <2> SUFFICES ASSUME NEW d, d # Null PROVE FrameCount(s, d) = FrameCount(t, d)
    OBVIOUS
  <2>1. FrameCount(s, d) = FrameCount(t, d) + FrameCount(<<Collected>>, d)
    <3>1. PICK e : e = <<Collected>>
      OBVIOUS
    <3>2. e \in Seq(Frames)
      BY <1>4, <3>1
    <3>3. FrameCount(t \o e, d) = FrameCount(t, d) + FrameCount(e, d)
      BY <1>8, <3>2, FramesJoin
    <3> QED
      BY <3>1, <3>3
  <2>2. FrameCount(<<Collected>>, d) = 0
    BY OneFrame DEF Weight, Collected
  <2>3. FrameCount(t, d) \in Nat
    BY <1>8, FrameRefsFinite
  <2> QED
    BY <2>1, <2>2, <2>3
<1> HIDE DEF s
<1>12. /\ \A i \in 1 .. n : s[i] = (IF dead[i] = Null THEN Release(Null) ELSE Clear(dead[i], 1))
       /\ \A i \in 1 .. n : s[n + i] = Release(dead[i])
  <2> SUFFICES ASSUME NEW i \in 1 .. n
               PROVE  /\ s[i] = (IF dead[i] = Null THEN Release(Null) ELSE Clear(dead[i], 1))
                      /\ s[n + i] = Release(dead[i])
    OBVIOUS
  <2>1. i \in 1 .. n + n /\ n + i \in 1 .. n + n
    BY <1>1
  <2> QED
    BY <1>5, <1>8, <1>10, <2>1
<1>13. \A d : d # Null => FrameCount(s, d) = Copied(dead, d) /\ Copied(dead, d) \in Nat
  BY <1>6, <1>7, <1>9, <1>11
<1>14. s \in Seq(Frames) /\ Len(s) = n + n + 1 /\ s[n + n + 1] = Collected
  BY <1>10
<1> QED
  BY <1>12, <1>13, <1>14 DEF s, t, n, clears, releases

\* pphp_gc_collect(): the dead cells were nobody else's, and get one reference each.
LEMMA CollectKeeps ==
  ASSUME HeapInv, Disciplined, pphp_gc_collect
  PROVE  HeapInv'
<1>1. PICK ns, dead : ns = Nodes /\ dead = Unreachable(ns)
  OBVIOUS
<1> DEFINE D == Range(dead) \ {Null}
           clears   == [i \in DOMAIN dead |-> IF dead[i] = Null THEN Release(Null) ELSE Clear(dead[i], 1)]
           releases == [i \in DOMAIN dead |-> Release(dead[i])]
           s == clears \o releases \o <<Collected>>
           n == Len(dead)
           k == n + n + 1
<1>2. /\ Running /\ Range(ns) \cap Sweeping = {}
      /\ candidates' = <<>> /\ requested' = FALSE /\ collecting' = TRUE
      /\ flags' = [flags EXCEPT !.buffered = {}, !.collecting = @ \cup D]
      /\ rc' = Retained(dead) /\ ctl' = s \o ctl
      /\ UNCHANGED <<live, slot, var>>
  BY <1>1 DEF pphp_gc_collect, Disciplined
<1>3. ns \in Seq(Cells) /\ Len(ns) <= BufferMax /\ Range(ns) \subseteq live \ Sweeping
  BY <1>1, <1>2, NodesLive
<1>4. /\ dead \in Seq(Cells \cup {Null}) /\ D \subseteq live \ (Sweeping \cup Dying)
      /\ \A d \in D : /\ rc[d] # RcMax /\ FrameCount(ctl, d) = 0
                      /\ \A h \in Held(d) : h \notin Vars /\ h[1] \in D
  <2>1. dead = Unreachable(ns)
    BY <1>1
  <2> QED
    BY <1>2, <1>3, <2>1, DeadApart
<1>5. /\ s \in Seq(Frames) /\ Len(s) = k
      /\ \A i \in 1 .. n : s[i] = (IF dead[i] = Null THEN Release(Null) ELSE Clear(dead[i], 1))
      /\ \A i \in 1 .. n : s[n + i] = Release(dead[i])
      /\ s[k] = Collected
      /\ \A d : d # Null => FrameCount(s, d) = Copied(dead, d) /\ Copied(dead, d) \in Nat
  BY <1>4, CollectFrames
<1>6. /\ n \in Nat /\ DOMAIN dead = 1 .. n
      /\ \A i \in 1 .. n : dead[i] = Null \/ dead[i] \in D
  <2>1. n \in Nat /\ DOMAIN dead = 1 .. n
    BY <1>4
  <2> QED
    BY <2>1 DEF Range
<1>7. ctl \in Seq(Frames) /\ live \subseteq Cells /\ Null \notin live
  BY Given DEF HeapInv, TypeOK
<1> HIDE DEF s, clears, releases
<1>8. /\ Atop(k, 0) /\ \A j \in 1 .. k : ctl'[j] = s[j]
      /\ \A c : FrameCount(ctl', c) = FrameCount(s, c) + FrameCount(ctl, c) /\ FrameCount(ctl, c) \in Nat
  <2>1. Len(ctl) = Len(ctl) /\ \A i \in DOMAIN ctl : Alike(ctl[i], ctl[i])
    BY DEF Alike
  <2>2. ctl' = s \o ctl
    BY <1>2
  <2>3. /\ Atop(Len(s), 0) /\ \A j \in 1 .. Len(s) : ctl'[j] = s[j]
        /\ \A c : FrameCount(ctl', c) = FrameCount(s, c) + FrameCount(ctl, c)
        /\ \A c : FrameCount(s, c) \in Nat /\ FrameCount(ctl, c) \in Nat
    BY <1>5, <1>7, <2>1, <2>2, AtopOf
  <2> QED
    BY <1>5, <2>3
<1> HIDE DEF n
<1>9. k \in Nat /\ k > 0 /\ \A j \in 1 .. k : j \in 1 .. n \/ (j - n \in 1 .. n /\ j = n + (j - n)) \/ j = k
  BY <1>6
<1>10. \A j \in 1 .. k :
         /\ ctl'[j].op \in {"release", "clear", "collected"}
         /\ ctl'[j].cell \in D \cup {Null}
         /\ ctl'[j].op = "clear" =>
              /\ ctl'[j].cell \in D
              /\ \E l \in DOMAIN ctl' : l > j /\ ctl'[l] = Release(ctl'[j].cell)
  <2> SUFFICES ASSUME NEW j \in 1 .. k
               PROVE  /\ ctl'[j].op \in {"release", "clear", "collected"}
                      /\ ctl'[j].cell \in D \cup {Null}
                      /\ ctl'[j].op = "clear" =>
                           /\ ctl'[j].cell \in D
                           /\ \E l \in DOMAIN ctl' : l > j /\ ctl'[l] = Release(ctl'[j].cell)
    OBVIOUS
  <2> HIDE DEF D
  <2>0. ctl'[j] = s[j]
    BY <1>8
  <2>1. CASE j \in 1 .. n
    <3>1. CASE dead[j] = Null
      <4>1. ctl'[j] = Release(Null)
        BY <1>5, <2>0, <2>1, <3>1
      <4> QED
        BY <4>1 DEF Release
    <3>2. CASE dead[j] # Null
      <4>1. ctl'[j] = Clear(dead[j], 1) /\ dead[j] \in D
        BY <1>5, <1>6, <2>0, <2>1, <3>2
      <4>2. n + j \in 1 .. k /\ n + j > j
        BY <1>6, <2>1
      <4>3. n + j \in DOMAIN ctl' /\ ctl'[n + j] = Release(dead[j])
        <5>1. Len(ctl') = k + Len(ctl) - 0 /\ ctl' \in Seq(Frames) /\ Len(ctl) \in Nat
          BY <1>7, <1>8 DEF Atop
        <5>2. n + j \in DOMAIN ctl'
          BY <1>6, <4>2, <5>1
        <5> QED
          BY <1>5, <1>8, <2>1, <4>2, <5>2
      <4> QED
        BY <4>1, <4>2, <4>3 DEF Clear
    <3> QED
      BY <3>1, <3>2
  <2>2. CASE j - n \in 1 .. n /\ j = n + (j - n)
    <3>1. ctl'[j] = Release(dead[j - n]) /\ dead[j - n] \in D \cup {Null}
      BY <1>5, <1>6, <2>0, <2>2
    <3> QED
      BY <3>1 DEF Release
  <2>3. CASE j = k
    BY <1>5, <2>0, <2>3 DEF Collected
  <2> QED
    BY <1>9, <2>1, <2>2, <2>3
<1>11. /\ flags'.buffered = {} /\ flags'.destroying = flags.destroying
       /\ flags'.collecting = flags.collecting \cup D
       /\ flags' \in [buffered : SUBSET Cells, collecting : SUBSET Cells, destroying : SUBSET Cells]
  <2>1. flags \in [buffered : SUBSET Cells, collecting : SUBSET Cells, destroying : SUBSET Cells]
    BY DEF HeapInv, TypeOK
  <2>2. D \subseteq Cells
    BY <1>4, <1>7
  <2> HIDE DEF D
  <2> QED
    BY <1>2, <2>1, <2>2
<1> HIDE DEF k
<1>12. Stale' = Stale /\ Swept' = Swept
  <2>1. \A j \in 1 .. k : ctl'[j].op # "put" /\ ctl'[j].op # "sweep"
    BY <1>10
  <2> QED
    BY <1>8, <2>1, StaleSame, SweptSame
<1>13. /\ Owning' = Owning
       /\ \A h : ValueIn(h)' = ValueIn(h)
       /\ \A c : HeldCount(c)' = HeldCount(c)
  BY <1>2, <1>12, HeldStays
<1>14. \A d \in Cells : /\ rc'[d] = (IF rc[d] + Copied(dead, d) > RcMax THEN RcMax ELSE rc[d] + Copied(dead, d))
                        /\ rc'[d] \in 0 .. RcMax
                        /\ d \notin D => rc'[d] = rc[d]
                        /\ Copied(dead, d) \in Nat
  <2> SUFFICES ASSUME NEW d \in Cells
               PROVE  /\ rc'[d] = (IF rc[d] + Copied(dead, d) > RcMax THEN RcMax ELSE rc[d] + Copied(dead, d))
                      /\ rc'[d] \in 0 .. RcMax
                      /\ d \notin D => rc'[d] = rc[d]
                      /\ Copied(dead, d) \in Nat
    OBVIOUS
  <2>1. d # Null
    BY Given
  <2>2. PICK m : m = Copied(dead, d)
    OBVIOUS
  <2>3. m \in Nat /\ Cardinality({i \in DOMAIN dead : dead[i] = d}) = m
    BY <1>5, <2>1, <2>2 DEF Copied
  <2>4. d \notin D => m = 0
    <3>1. d \notin D => {i \in DOMAIN dead : dead[i] = d} = {}
      BY <2>1 DEF Range
    <3> QED
      BY <2>3, <3>1, FS_EmptySet
  <2>5. /\ Retained(dead)[d] = (IF rc[d] + m > RcMax THEN RcMax ELSE rc[d] + m)
        /\ Retained(dead)[d] \in 0 .. RcMax
        /\ m = 0 => Retained(dead)[d] = rc[d]
    BY <2>3, RetainedIs DEF HeapInv
  <2> QED
    BY <1>2, <2>2, <2>3, <2>4, <2>5
<1> HIDE DEF D
<1>15. /\ NoDangling' /\ DestroyedOnce' /\ DyingAlone' /\ SweptAlone'
       /\ UnguardedAtOnce' /\ StoresWait' /\ CollectedApart'
  <2>1. \A h \in Owning' : ValueIn(h)' \in live' \cup {Null}
    BY <1>2, <1>13 DEF HeapInv, NoDangling
  <2>2. \A h \in Owning' : ValueIn(h)' \in Dying => h \in Owning /\ ValueIn(h) = ValueIn(h)'
    BY <1>13
  <2>3. \A h \in Owning' : ValueIn(h)' \in flags'.collecting => h \notin Vars /\ h[1] \in flags'.collecting
    <3> SUFFICES ASSUME NEW h \in Owning, ValueIn(h) \in flags'.collecting
                 PROVE  h \notin Vars /\ h[1] \in flags'.collecting
      BY <1>13
    <3>1. CASE ValueIn(h) \in flags.collecting
      BY <1>11, <3>1 DEF HeapInv, CollectedApart
    <3>2. CASE ValueIn(h) \in D
      <4>1. h \in Held(ValueIn(h))
        BY DEF Held
      <4> QED
        BY <1>4, <1>11, <3>2, <4>1
    <3> QED
      BY <1>11, <3>1, <3>2
  <2>4. flags'.collecting \subseteq live' \ flags'.buffered
    BY <1>2, <1>4, <1>11 DEF HeapInv, CollectedApart
  <2>5. flags'.buffered \cap Dying \subseteq flags.buffered
    BY <1>11
  <2>6. flags'.collecting \cap Dying \subseteq flags.collecting
    BY <1>4, <1>11
  <2>7. \A i \in DOMAIN ctl : i > 0 =>
          /\ ctl[i].cell \in live' \cup {Null}
          /\ Dismantles(ctl[i]) /\ ctl[i].cell \in flags.destroying => ctl[i].cell \in flags'.destroying
          /\ ctl[i].op = "clear" /\ ctl[i].cell \in flags.collecting => ctl[i].cell \in flags'.collecting
          /\ ctl[i].op = "sweep" => rc'[ctl[i].cell] = rc[ctl[i].cell]
          /\ ctl[i].op = "put" /\ i + k - 0 > 1 => \A h : h = ctl[i].holder => ValueIn(h)' = ValueIn(h)
          /\ \A d \in flags'.collecting : d \notin flags.collecting => Weight(ctl[i], d) = 0
    <3> SUFFICES ASSUME NEW i \in DOMAIN ctl
                 PROVE  /\ ctl[i].cell \in live' \cup {Null}
                        /\ ctl[i].op = "sweep" => rc'[ctl[i].cell] = rc[ctl[i].cell]
                        /\ \A d \in D : Weight(ctl[i], d) = 0
      BY <1>11, <1>13
    <3>1. ctl[i].cell \in live' \cup {Null}
      BY <1>2 DEF HeapInv, NoDangling
    <3>2. ctl[i].op = "sweep" => rc'[ctl[i].cell] = rc[ctl[i].cell]
      <4>1. ctl[i].op = "sweep" => ctl[i].cell \in Sweeping
        BY DEF Sweeping
      <4>2. Sweeping \subseteq Cells
        BY SweepingLive
      <4> QED
        BY <1>4, <1>14, <4>1, <4>2
    <3>3. \A d \in D : Weight(ctl[i], d) = 0
      BY <1>4, <1>7, NoWeights
    <3> QED
      BY <3>1, <3>2, <3>3
  <2>8. \A j \in 1 .. k :
          /\ ctl'[j].cell \in live' \cup {Null}
          /\ ctl'[j].op = "clear" =>
               /\ ctl'[j].cell \in flags'.collecting
               /\ \E l \in DOMAIN ctl' : l > j /\ ctl'[l] = Release(ctl'[j].cell)
          /\ ctl'[j].op \notin {"unguard", "put", "sweep"} /\ ~Dismantles(ctl'[j])
          /\ \A i \in DOMAIN ctl : i > 0 /\ ctl[i].op = "sweep" => Weight(ctl'[j], ctl[i].cell) = 0
    <3> SUFFICES ASSUME NEW j \in 1 .. k
                 PROVE /\ ctl'[j].cell \in live' \cup {Null}
                       /\ ctl'[j].op = "clear" =>
                            /\ ctl'[j].cell \in flags'.collecting
                            /\ \E l \in DOMAIN ctl' : l > j /\ ctl'[l] = Release(ctl'[j].cell)
                       /\ ctl'[j].op \notin {"unguard", "put", "sweep"} /\ ~Dismantles(ctl'[j])
                       /\ \A i \in DOMAIN ctl : ctl[i].op = "sweep" => ctl'[j].cell # ctl[i].cell
      BY DEF Weight
    <3>1. ctl'[j].cell \in live' \cup {Null}
      BY <1>2, <1>4, <1>10
    <3>2. ctl'[j].op = "clear" =>
             /\ ctl'[j].cell \in flags'.collecting
             /\ \E l \in DOMAIN ctl' : l > j /\ ctl'[l] = Release(ctl'[j].cell)
      BY <1>10, <1>11
    <3>3. ctl'[j].op \notin {"unguard", "put", "sweep"} /\ ~Dismantles(ctl'[j])
      BY <1>10 DEF Dismantles
    <3>4. \A i \in DOMAIN ctl : ctl[i].op = "sweep" => ctl'[j].cell # ctl[i].cell
      <4> SUFFICES ASSUME NEW i \in DOMAIN ctl, ctl[i].op = "sweep" PROVE ctl'[j].cell # ctl[i].cell
        OBVIOUS
      <4>1. ctl[i].cell \in Sweeping
        BY DEF Sweeping
      <4>2. ctl[i].cell \notin D /\ ctl[i].cell # Null
        BY <1>4, <1>7, <4>1, SweepingLive
      <4> QED
        BY <1>10, <4>2
    <3> QED
      BY <3>1, <3>2, <3>3, <3>4
  <2>9. Running /\ k > 0 /\ k \in Nat /\ Atop(k, 0)
    BY <1>2, <1>8, <1>9
  <2> QED
    BY <2>1, <2>2, <2>3, <2>4, <2>5, <2>6, <2>7, <2>8, <2>9, StepKeeps
<1>16. FreeAreBlank' /\ BufferMatchesFlags'
  <2>1. FreeAreBlank'
    BY <1>2 DEF HeapInv, FreeAreBlank
  <2>2. BufferMatchesFlags'
    BY <1>2, <1>11 DEF BufferMatchesFlags, IsInjective, Range
  <2> QED
    BY <2>1, <2>2
<1>17. TypeOK'
  <2>1. rc' \in [Cells -> 0 .. RcMax]
    <3>1. rc' = [c \in Cells |-> rc'[c]]
      BY <1>2 DEF Retained
    <3> QED
      BY <1>14, <3>1
  <2>2. candidates' \in Seq(Cells) /\ Len(candidates') <= BufferMax
    BY <1>2, Given
  <2>3. ctl' \in Seq(Frames)
    BY <1>8 DEF Atop
  <2> QED
    BY <1>2, <1>11, <2>1, <2>2, <2>3 DEF HeapInv, TypeOK
<1>18. RefCountExact'
  <2> SUFFICES ASSUME NEW d \in live, rc'[d] # RcMax
               PROVE  rc'[d] = HeldCount(d)' + FrameCount(ctl', d)
    BY <1>2, ExactNext
  <2>1. d \in Cells /\ d # Null /\ rc[d] \in 0 .. RcMax /\ RcMax \in Nat
    BY <1>7, Given DEF HeapInv, TypeOK
  <2>2. PICK m : m = Copied(dead, d)
    OBVIOUS
  <2>3. m \in Nat /\ rc'[d] = IF rc[d] + m > RcMax THEN RcMax ELSE rc[d] + m
    BY <1>14, <2>1, <2>2
  <2>4. rc[d] # RcMax /\ rc'[d] = rc[d] + m
    BY <2>1, <2>3
  <2>5. rc[d] = HeldCount(d) + FrameCount(ctl, d)
    BY <2>4, ExactIs DEF HeapInv
  <2>6. FrameCount(ctl', d) = m + FrameCount(ctl, d) /\ FrameCount(ctl, d) \in Nat
    BY <1>5, <1>8, <2>1, <2>2
  <2>7. HeldCount(d)' = HeldCount(d) /\ HeldCount(d) \in Nat
    BY <1>13, OwningHolders DEF HeapInv
  <2> QED
    BY <2>3, <2>4, <2>5, <2>6, <2>7
<1> QED
  BY <1>15, <1>16, <1>17, <1>18 DEF HeapInv

-----------------------------------------------------------------------------
(* The invariant, and what it implies.                                     *)

\* An empty heap.
LEMMA HeapInit == Init => HeapInv
<1> SUFFICES ASSUME Init PROVE HeapInv
  OBVIOUS
<1>1. TypeOK
  <2>1. /\ live \subseteq Cells
        /\ slot \in [Cells -> [Slots -> Cells \cup {Null}]] /\ var \in [Vars -> Cells \cup {Null}]
        /\ requested \in BOOLEAN /\ collecting \in BOOLEAN
        /\ flags \in [buffered : SUBSET Cells, collecting : SUBSET Cells, destroying : SUBSET Cells]
    BY DEF Init
  <2>2. rc \in [Cells -> 0 .. RcMax]
    BY Given DEF Init
  <2>3. candidates \in Seq(Cells) /\ Len(candidates) <= BufferMax /\ ctl \in Seq(Frames)
    BY Given DEF Init
  <2> QED
    BY <2>1, <2>2, <2>3 DEF TypeOK
<1>2. RefCountExact /\ NoDangling
  BY DEF Init, RefCountExact, NoDangling, Owning, ValueIn
<1>3. DestroyedOnce /\ DyingAlone /\ SweptAlone /\ UnguardedAtOnce /\ StoresWait
  BY DEF Init, DestroyedOnce, DyingAlone, SweptAlone, UnguardedAtOnce, StoresWait
<1>4. BufferMatchesFlags
  BY DEF Init, BufferMatchesFlags, IsInjective, Range
<1>5. CollectedApart
  BY DEF Init, CollectedApart
<1>6. FreeAreBlank
  BY DEF Init, FreeAreBlank
<1> QED
  BY <1>1, <1>2, <1>3, <1>4, <1>5, <1>6 DEF HeapInv

\* A step that changes nothing.
LEMMA StutterKeeps ==
  ASSUME HeapInv, UNCHANGED vars
  PROVE  HeapInv'
<1>0. UNCHANGED <<live, rc, slot, var, candidates, requested, collecting, flags, ctl>>
  BY DEF vars
<1>1. TypeOK'
  BY <1>0 DEF HeapInv, TypeOK
<1>2. /\ Stale' = Stale /\ Swept' = Swept /\ Dying' = Dying
      /\ \A h : ValueIn(h)' = ValueIn(h)
  BY <1>0 DEF Stale, Swept, Dying, ValueIn
<1>3. Owning' = Owning
  BY <1>0, <1>2 DEF Owning
<1>4. RefCountExact'
  <2>1. \A c : HeldCount(c)' = HeldCount(c)
    BY <1>0, <1>2, HeldStays
  <2> QED
    BY <1>0, <2>1, ExactIs, ExactNext DEF HeapInv
<1>5. NoDangling' /\ DestroyedOnce' /\ BufferMatchesFlags' /\ FreeAreBlank'
  BY <1>0, <1>2, <1>3 DEF HeapInv, NoDangling, DestroyedOnce, BufferMatchesFlags, FreeAreBlank
<1>6. DyingAlone' /\ SweptAlone' /\ UnguardedAtOnce'
  BY <1>0, <1>2, <1>3 DEF HeapInv, DyingAlone, Alone, SweptAlone, Unowned, UnguardedAtOnce
<1>7. StoresWait'
  BY <1>0, <1>2 DEF HeapInv, StoresWait, Waits
<1>8. CollectedApart'
  BY <1>0, <1>2, <1>3 DEF HeapInv, CollectedApart
<1> QED
  BY <1>1, <1>4, <1>5, <1>6, <1>7, <1>8 DEF HeapInv

\* Every step of the program, the C code and the collector keeps the invariant.
LEMMA HeapStep ==
  ASSUME HeapInv, Disciplined, [Next]_vars
  PROVE  HeapInv'
<1>1. CASE Statement
  <2>1. CASE \E h \in Assignable : \E v \in Storable \cup {Null} : Assign(h, v)
    BY <2>1, AssignKeeps
  <2>2. CASE \E h \in Assignable, c \in Cells : New(h, c)
    BY <2>2, NewKeeps
  <2>3. CASE \E v \in Vars \ Avoided : Unset(v)
    BY <2>3, UnsetKeeps
  <2> QED
    BY <1>1, <2>1, <2>2, <2>3 DEF Statement
<1>2. CASE pphp_gc_collect
  BY <1>2, CollectKeeps
<1>3. CASE ReleaseNothing
  BY <1>3, ReleaseNothingKeeps
<1>4. CASE ReleaseShared
  BY <1>4, ReleaseSharedKeeps
<1>5. CASE ReleaseLast
  BY <1>5, ReleaseLastKeeps
<1>6. CASE DestructorReturns
  BY <1>6, DestructorReturnsKeeps
<1>7. CASE UnguardStep
  BY <1>7, UnguardKeeps
<1>8. CASE SweepStep
  BY <1>8, SweepKeeps
<1>9. CASE PutStep
  BY <1>9, PutKeeps
<1>10. CASE ClearStep
  BY <1>10, ClearKeeps
<1>11. CASE CollectedStep
  BY <1>11, CollectedKeeps
<1>12. CASE UNCHANGED vars
  BY <1>12, StutterKeeps
<1> QED
  BY <1>1, <1>2, <1>3, <1>4, <1>5, <1>6, <1>7, <1>8, <1>9, <1>10, <1>11, <1>12 DEF Next, CStep

\* The invariant says more than HeapSound.
LEMMA HeapInvSound ==
  ASSUME HeapInv, Disciplined
  PROVE  HeapSound
<1>1. CollectorSparesLoadable
  BY LoadableApart DEF CollectorSparesLoadable
<1> QED
  BY <1>1 DEF HeapInv, HeapSound

\* However stores, destructors, sweeps and collections nest, counts stay exact,
\* nothing in use names a freed cell, no cell is freed twice, the collector
\* spares what can be loaded, and its buffer names live cells (pv_release, the
\* destroy functions and pphp_gc_collect).
THEOREM HeapStaysSound == Disciplined /\ Spec => []HeapSound
<1> SUFFICES ASSUME Disciplined PROVE Spec => []HeapSound
  OBVIOUS
<1>1. Init => HeapInv
  BY HeapInit
<1>2. HeapInv /\ [Next]_vars => HeapInv'
  BY HeapStep
<1>3. HeapInv => HeapSound
  BY HeapInvSound
<1> QED
  BY <1>1, <1>2, <1>3, PTL DEF Spec

=============================================================================
