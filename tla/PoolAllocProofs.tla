--------------------------- MODULE PoolAllocProofs ---------------------------
(***************************************************************************)
(* The allocator of PoolAlloc, for pools, tables and requests of any size: *)
(* the lists and the boundary tags agree after every call, and a client    *)
(* holds what nobody else holds.  First the lists, then the row of blocks, *)
(* then the two together (GoodHeap), then the calls.                       *)
(***************************************************************************)
EXTENDS PoolAlloc, FiniteSetTheorems, WellFoundedInduction, TLAPS

\* Counting some of the thresholds 1 .. n gives at most n.
LEMMA CountType ==
    ASSUME NEW n \in Nat, NEW S \in SUBSET (1 .. n)
    PROVE  Cardinality(S) \in 0 .. n
<1>1. IsFiniteSet(1 .. n) /\ Cardinality(1 .. n) = n
  BY FS_Interval, SMT
<1>2. IsFiniteSet(S) /\ Cardinality(S) <= n
  BY <1>1, FS_Subset
<1>3. Cardinality(S) \in Nat
  BY <1>2, FS_CardinalityType
<1> QED
  BY <1>2, <1>3

\* The rows and columns mapping() clamps to.
LEMMA LevelTypes ==
    ASSUME NEW size, NEW fl
    PROVE  /\ FirstLevel(size) \in 0 .. FL_COUNT - 1
           /\ SecondLevel(fl, size) \in 0 .. SL_COUNT - 1
<1>1. FL_COUNT - 1 \in Nat /\ SL_COUNT - 1 \in Nat
  BY SizesAssumption
<1>2. {k \in 1 .. FL_COUNT - 1 : 2^k <= size} \in SUBSET (1 .. FL_COUNT - 1)
  OBVIOUS
<1>3. {j \in 1 .. SL_COUNT - 1 : 2^fl + j * SecondStep(fl) <= size}
        \in SUBSET (1 .. SL_COUNT - 1)
  OBVIOUS
<1>4. FirstLevel(size) \in 0 .. FL_COUNT - 1
  BY <1>1, <1>2, CountType DEF FirstLevel
<1>5. SecondLevel(fl, size) \in 0 .. SL_COUNT - 1
  BY <1>1, <1>3, CountType DEF SecondLevel
<1> QED
  BY <1>4, <1>5

\* mapping() always names a bin of the table.
LEMMA MappingType ==
    ASSUME NEW size
    PROVE  mapping(size) \in Bins
<1> DEFINE fl == FirstLevel(size)
           sl == SecondLevel(fl, size)
<1>1. fl \in 0 .. FL_COUNT - 1 /\ sl \in 0 .. SL_COUNT - 1
  BY LevelTypes
<1>2. ASSUME NEW f \in 0 .. FL_COUNT - 1, NEW s \in 0 .. SL_COUNT - 1
      PROVE  f * SL_COUNT + s \in 0 .. FL_COUNT * SL_COUNT - 1
  <2>1. f * SL_COUNT <= (FL_COUNT - 1) * SL_COUNT /\ f * SL_COUNT \in Nat
    BY SizesAssumption, SMT
  <2>2. (FL_COUNT - 1) * SL_COUNT = FL_COUNT * SL_COUNT - SL_COUNT
    BY SizesAssumption, SMT
  <2>3. FL_COUNT * SL_COUNT \in Nat
    BY SizesAssumption, SMT
  <2> QED
    BY <2>1, <2>2, <2>3, SizesAssumption, SMT
<1>3. mapping(size) = fl * SL_COUNT + sl
  BY DEF mapping
<1> QED
  BY <1>1, <1>2, <1>3 DEF Bins

-----------------------------------------------------------------------------
(* The free lists.                                                         *)

\* Unlinking position k takes exactly s[k] out of a list without repetitions.
LEMMA UnlinkElements ==
    ASSUME NEW s \in Seq(Nat), NEW k \in 1 .. Len(s), IsInjective(s)
    PROVE  /\ Unlink(s, k) \in Seq(Nat)
           /\ IsInjective(Unlink(s, k))
           /\ Range(Unlink(s, k)) = Range(s) \ {s[k]}
<1> DEFINE n == Len(s)
           u == Unlink(s, k)
<1>1. n \in Nat /\ n - 1 \in Nat /\ DOMAIN s = 1 .. n /\ k \in 1 .. n
  OBVIOUS
<1>2. \A i \in 1 .. n : s[i] \in Nat
  OBVIOUS
<1>3. DOMAIN u = 1 .. n - 1 /\ \A i \in 1 .. n - 1 : u[i] = IF i < k THEN s[i] ELSE s[i + 1]
  BY DEF Unlink
<1>4. \A i, j \in 1 .. n : s[i] = s[j] => i = j
  BY <1>1 DEF IsInjective
<1>5. u \in Seq(Nat)
  <2>1. u \in [1 .. n - 1 -> Nat]
    BY <1>1, <1>2 DEF Unlink
  <2> QED
    BY <1>1, <2>1
<1> HIDE DEF n, u
<1>6. \A i, j \in 1 .. n - 1 : u[i] = u[j] => i = j
  BY <1>1, <1>3, <1>4
<1>7. \A i \in 1 .. n - 1 : \E j \in 1 .. n : u[i] = s[j] /\ j # k
  <2> TAKE i \in 1 .. n - 1
  <2>1. CASE i < k
    BY <1>1, <1>3, <2>1
  <2>2. CASE ~(i < k)
    <3>1. i + 1 \in 1 .. n /\ i + 1 # k /\ u[i] = s[i + 1]
      BY <1>1, <1>3, <2>2
    <3> QED
      BY <3>1
  <2> QED
    BY <2>1, <2>2
<1>8. \A j \in 1 .. n : j # k => \E i \in 1 .. n - 1 : u[i] = s[j]
  <2> SUFFICES ASSUME NEW j \in 1 .. n, j # k
               PROVE  \E i \in 1 .. n - 1 : u[i] = s[j]
    OBVIOUS
  <2>1. CASE j < k
    BY <1>1, <1>3, <2>1
  <2>2. CASE ~(j < k)
    <3>1. j - 1 \in 1 .. n - 1 /\ u[j - 1] = s[j]
      BY <1>1, <1>3, <2>2
    <3> QED
      BY <3>1
  <2> QED
    BY <2>1, <2>2
<1>9. Range(u) = {u[i] : i \in 1 .. n - 1} /\ Range(s) = {s[i] : i \in 1 .. n}
  BY <1>1, <1>3 DEF Range
<1>10. Range(u) = Range(s) \ {s[k]}
  <2>1. ASSUME NEW y \in Range(u) PROVE y \in Range(s) \ {s[k]}
    <3>1. PICK i \in 1 .. n - 1 : y = u[i]
      BY <1>9
    <3>2. PICK j \in 1 .. n : u[i] = s[j] /\ j # k
      BY <1>7
    <3> QED
      BY <1>1, <1>4, <1>9, <3>1, <3>2
  <2>2. ASSUME NEW y \in Range(s) \ {s[k]} PROVE y \in Range(u)
    <3>1. PICK j \in 1 .. n : y = s[j]
      BY <1>9
    <3>2. PICK i \in 1 .. n - 1 : u[i] = s[j]
      BY <1>8, <3>1
    <3> QED
      BY <1>9, <3>1, <3>2
  <2> QED
    BY <2>1, <2>2
<1>11. IsInjective(u)
  BY <1>3, <1>6 DEF IsInjective
<1> QED
  BY <1>5, <1>10, <1>11 DEF u

\* Pushing a new element on a list without repetitions.
LEMMA PushElements ==
    ASSUME NEW s \in Seq(Nat), NEW x \in Nat, IsInjective(s), x \notin Range(s)
    PROVE  /\ <<x>> \o s \in Seq(Nat)
           /\ IsInjective(<<x>> \o s)
           /\ Range(<<x>> \o s) = Range(s) \cup {x}
<1> DEFINE n == Len(s)
           u == <<x>> \o s
<1>1. n \in Nat /\ DOMAIN s = 1 .. n
  OBVIOUS
<1>2. u \in Seq(Nat) /\ Len(u) = n + 1 /\ DOMAIN u = 1 .. n + 1
  OBVIOUS
<1>3. u[1] = x /\ \A i \in 2 .. n + 1 : u[i] = s[i - 1]
  OBVIOUS
<1>4. \A i, j \in 1 .. n : s[i] = s[j] => i = j
  BY <1>1 DEF IsInjective
<1>5. \A i \in 1 .. n : s[i] # x
  BY <1>1 DEF Range
<1> HIDE DEF n, u
<1>6. \A i, j \in 1 .. n + 1 : u[i] = u[j] => i = j
  <2> SUFFICES ASSUME NEW i \in 1 .. n + 1, NEW j \in 1 .. n + 1, u[i] = u[j]
               PROVE  i = j
    OBVIOUS
  <2>1. i = 1 \/ (i \in 2 .. n + 1 /\ i - 1 \in 1 .. n)
    BY <1>1
  <2>2. j = 1 \/ (j \in 2 .. n + 1 /\ j - 1 \in 1 .. n)
    BY <1>1
  <2> QED
    BY <1>1, <1>3, <1>4, <1>5, <2>1, <2>2
<1>7. \A i \in 1 .. n + 1 : u[i] = x \/ \E j \in 1 .. n : u[i] = s[j]
  BY <1>1, <1>3
<1>8. \A j \in 1 .. n : \E i \in 1 .. n + 1 : u[i] = s[j]
  <2> TAKE j \in 1 .. n
  <2>1. j + 1 \in 1 .. n + 1 /\ u[j + 1] = s[j]
    BY <1>1, <1>3
  <2> QED
    BY <2>1
<1>9. Range(u) = {u[i] : i \in 1 .. n + 1} /\ Range(s) = {s[i] : i \in 1 .. n}
  BY <1>1, <1>2 DEF Range
<1>10. 1 \in 1 .. n + 1
  BY <1>1
<1>11. Range(u) = Range(s) \cup {x}
  <2>1. ASSUME NEW y \in Range(u) PROVE y \in Range(s) \cup {x}
    <3>1. PICK i \in 1 .. n + 1 : y = u[i]
      BY <1>9
    <3> QED
      BY <1>7, <1>9, <3>1
  <2>2. ASSUME NEW y \in Range(s) PROVE y \in Range(u)
    <3>1. PICK j \in 1 .. n : y = s[j]
      BY <1>9
    <3> QED
      BY <1>8, <1>9, <3>1
  <2>3. x \in Range(u)
    BY <1>3, <1>9, <1>10
  <2> QED
    BY <2>1, <2>2, <2>3
<1>12. IsInjective(u)
  BY <1>2, <1>6 DEF IsInjective
<1> QED
  BY <1>2, <1>11, <1>12 DEF u

BinsType(bins) == bins \in [Bins -> Seq(Nat)]

\* remove_free() takes one block off the lists and touches no header.
LEMMA RemoveFree ==
    ASSUME NEW h, NEW F, NEW x \in F,
           BinsType(h.bins), Listed(h.hdr, h.bins, F)
    PROVE  /\ BinsType(remove_free(h, x).bins)
           /\ Listed(h.hdr, remove_free(h, x).bins, F \ {x})
<1> DEFINE b == mapping(h.hdr[x].size)
           s == h.bins[b]
           k == CHOOSE i \in 1 .. Len(s) : s[i] = x
           r == [h.bins EXCEPT ![b] = Unlink(s, k)]
<1>1. b \in Bins
  BY MappingType
<1>2. s \in Seq(Nat) /\ IsInjective(s) /\ Range(s) = {a \in F : mapping(h.hdr[a].size) = b}
  BY <1>1 DEF BinsType, Listed
<1>3. k \in 1 .. Len(s) /\ s[k] = x
  <2>1. x \in Range(s)
    BY <1>2
  <2>2. \E i \in 1 .. Len(s) : s[i] = x
    BY <1>2, <2>1 DEF Range
  <2> QED
    BY <2>2
<1>4. remove_free(h, x).bins = r
  BY DEF remove_free
<1> DEFINE u == Unlink(s, k)
<1>5. u \in Seq(Nat) /\ IsInjective(u) /\ Range(u) = Range(s) \ {x}
  BY <1>2, <1>3, UnlinkElements
<1> HIDE DEF k, u
<1>6. r = [h.bins EXCEPT ![b] = u]
  BY DEF u
<1> HIDE DEF r
<1>7. BinsType(r) /\ r[b] = u /\ \A c \in Bins \ {b} : r[c] = h.bins[c]
  BY <1>1, <1>5, <1>6 DEF BinsType
<1>8. ASSUME NEW c \in Bins
      PROVE  IsInjective(r[c]) /\ Range(r[c]) = {a \in F \ {x} : mapping(h.hdr[a].size) = c}
  <2>1. CASE c = b
    BY <1>2, <1>5, <1>7, <2>1
  <2>2. CASE c # b
    <3>1. IsInjective(h.bins[c]) /\ Range(h.bins[c]) = {a \in F : mapping(h.hdr[a].size) = c}
      BY DEF Listed
    <3> QED
      BY <1>7, <2>2, <3>1
  <2> QED
    BY <2>1, <2>2
<1> QED
  BY <1>4, <1>7, <1>8 DEF Listed

\* insert_free() puts one block on the lists and touches no header.
LEMMA InsertFree ==
    ASSUME NEW h, NEW F, NEW x \in Nat, x \notin F,
           BinsType(h.bins), Listed(h.hdr, h.bins, F)
    PROVE  /\ insert_free(h, x).hdr = h.hdr
           /\ BinsType(insert_free(h, x).bins)
           /\ Listed(h.hdr, insert_free(h, x).bins, F \cup {x})
           /\ insert_free(h, x) = [hdr |-> h.hdr, bins |-> insert_free(h, x).bins]
<1> DEFINE b == mapping(h.hdr[x].size)
           s == h.bins[b]
           u == <<x>> \o s
           r == [h.bins EXCEPT ![b] = u]
<1>1. b \in Bins
  BY MappingType
<1>2. s \in Seq(Nat) /\ IsInjective(s) /\ Range(s) = {a \in F : mapping(h.hdr[a].size) = b}
  BY <1>1 DEF BinsType, Listed
<1>3. insert_free(h, x) = [hdr |-> h.hdr, bins |-> r]
  BY DEF insert_free
<1>4. u \in Seq(Nat) /\ IsInjective(u) /\ Range(u) = Range(s) \cup {x}
  BY <1>2, PushElements
<1> HIDE DEF u
<1>5. BinsType(r) /\ r[b] = u /\ \A c \in Bins \ {b} : r[c] = h.bins[c]
  BY <1>1, <1>4 DEF BinsType
<1> HIDE DEF r
<1>6. ASSUME NEW c \in Bins
      PROVE  IsInjective(r[c]) /\ Range(r[c]) = {a \in F \cup {x} : mapping(h.hdr[a].size) = c}
  <2>1. CASE c = b
    BY <1>2, <1>4, <1>5, <2>1
  <2>2. CASE c # b
    <3>1. IsInjective(h.bins[c]) /\ Range(h.bins[c]) = {a \in F : mapping(h.hdr[a].size) = c}
      BY DEF Listed
    <3> QED
      BY <1>5, <2>2, <3>1
  <2> QED
    BY <2>1, <2>2
<1> QED
  BY <1>3, <1>5, <1>6 DEF Listed

\* The lists only depend on the sizes of the listed blocks.
LEMMA ListedBySize ==
    ASSUME NEW H, NEW K, NEW bins, NEW F, Listed(H, bins, F),
           \A a \in F : K[a].size = H[a].size
    PROVE  Listed(K, bins, F)
BY DEF Listed

-----------------------------------------------------------------------------
(* The row of blocks.                                                      *)

HdrType(hdr, end) ==
    /\ end \in Nat
    /\ DOMAIN hdr \subseteq 0 .. end
    /\ hdr \in [DOMAIN hdr -> Header]

\* Rounding up gives a multiple of the alignment that is not smaller.
LEMMA AlignUp ==
    ASSUME NEW n \in Nat
    PROVE  align_up(n) \in Nat /\ align_up(n) % ALIGNMENT = 0 /\ align_up(n) >= n
BY SMT DEF align_up, ALIGNMENT

\* The smallest block has room for more than its header.
LEMMA MinimumBlock ==
    /\ minimum_block_size \in Nat
    /\ minimum_block_size % ALIGNMENT = 0
    /\ minimum_block_size > HeaderSize
    /\ HeaderSize = 8
<1>1. HeaderSize = 8 /\ HeaderSize + LinksSize \in Nat /\ LinksSize > 0
  BY SizesAssumption DEF ALIGNMENT
<1>2. /\ align_up(HeaderSize + LinksSize) \in Nat
      /\ align_up(HeaderSize + LinksSize) % ALIGNMENT = 0
      /\ align_up(HeaderSize + LinksSize) >= HeaderSize + LinksSize
  BY <1>1, AlignUp
<1> QED
  BY <1>1, <1>2, SizesAssumption DEF minimum_block_size

\* What a walk may use of one block of a tiled row: where it ends, that it is
\* not empty, and that its neighbours know it.
LEMMA TiledBlock ==
    ASSUME NEW H, NEW end, HdrType(H, end), Tiled(H, end), NEW a \in DOMAIN H \ {end}
    PROVE  /\ a \in Nat /\ a < end
           /\ H[a] \in Header
           /\ H[a].size \in Nat /\ H[a].prev \in Nat /\ H[a].size > HeaderSize
           /\ H[a].size % ALIGNMENT = 0
           /\ a + H[a].size \in DOMAIN H \ {a}
           /\ a + H[a].size \in Nat
           /\ H[a + H[a].size].prev = H[a].size
           /\ \A b \in DOMAIN H \ {a} : b < a \/ b >= a + H[a].size
<1>1. a \in Nat /\ a < end /\ end \in DOMAIN H
  BY DEF HdrType, Tiled
<1>2. H[a] \in Header
  BY DEF HdrType
<1>3. H[a].size \in Nat /\ H[a].prev \in Nat
  BY <1>2 DEF Header
<1>4. /\ H[a].size > HeaderSize
      /\ H[a].size % ALIGNMENT = 0
      /\ a + H[a].size \in DOMAIN H
      /\ H[a + H[a].size].prev = H[a].size
  BY <1>3, MinimumBlock DEF Tiled
<1>5. \A b \in DOMAIN H \ {a} : b < a \/ b >= a + H[a].size
  <2> TAKE b \in DOMAIN H \ {a}
  <2>1. b \in Nat
    BY DEF HdrType
  <2>2. a < b => a + H[a].size <= b
    BY DEF Tiled
  <2> QED
    BY <1>1, <1>3, <2>1, <2>2
<1> QED
  BY <1>1, <1>2, <1>3, <1>4, <1>5, MinimumBlock

\* Joining a block with the one behind it keeps the row.
LEMMA MergeTiled ==
    ASSUME NEW H, NEW end, HdrType(H, end), Tiled(H, end),
           NEW f \in DOMAIN H \ {end}, NEW s, s = f + H[f].size, s # end
    PROVE  LET M == Merge(H, f, s)
           IN  /\ HdrType(M, end) /\ Tiled(M, end)
               /\ DOMAIN M = DOMAIN H \ {s}
               /\ M[f].size = H[f].size + H[s].size /\ ~M[f].used
               /\ f + M[f].size = s + H[s].size
               /\ \A a \in DOMAIN H \ {f, s} :
                    /\ M[a].size = H[a].size
                    /\ M[a].used = H[a].used
                    /\ M[a].tracked = H[a].tracked
<1> DEFINE M == Merge(H, f, s)
           D == DOMAIN H
           n == s + H[s].size
<1>1. /\ f \in Nat /\ s \in D \ {end} /\ s \in Nat /\ H[f].size \in Nat /\ f < s
      /\ H[f].size % ALIGNMENT = 0 /\ H[f].size > HeaderSize
      /\ H[s].prev = H[f].size /\ H[f] \in Header
  BY TiledBlock, MinimumBlock
<1>2. /\ H[s].size \in Nat /\ n \in D /\ n \in Nat /\ s < n
      /\ H[s].size % ALIGNMENT = 0 /\ H[n].prev = H[s].size
      /\ H[s] \in Header
  BY <1>1, TiledBlock, MinimumBlock
<1>3. n = f + (H[f].size + H[s].size)
  BY <1>1, <1>2
<1>4. DOMAIN M = D \ {s}
  BY DEF Merge
<1>5. M[f] = block_set(H[f].size + H[s].size, FALSE, H[f].prev)
  <2>1. f \in D \ {s} /\ f # f + (H[f].size + H[s].size)
    BY <1>1, <1>2
  <2> QED
    BY <2>1 DEF Merge, MergedHeader
<1>6. /\ M[f].size = H[f].size + H[s].size
      /\ M[f].used = FALSE /\ M[f].prev = H[f].prev /\ M[f] \in Header
  <2> HIDE DEF M
  <2> QED
    BY <1>1, <1>2, <1>5 DEF block_set, Header
<1>7. M[n] = [H[n] EXCEPT !.prev = H[f].size + H[s].size]
  BY <1>1, <1>2, <1>3 DEF Merge, MergedHeader
<1>8. H[n] \in Header
  BY <1>2 DEF HdrType
<1>9. /\ M[n].prev = H[f].size + H[s].size /\ M[n].size = H[n].size
      /\ M[n].used = H[n].used /\ M[n].tracked = H[n].tracked /\ M[n] \in Header
  BY <1>1, <1>2, <1>7, <1>8 DEF Header
<1>10. \A a \in D \ {f, s, n} : M[a] = H[a]
  BY <1>3 DEF Merge, MergedHeader
<1> HIDE DEF M
<1>11. \A a \in D \ {f, s} : /\ M[a].size = H[a].size
                            /\ M[a].used = H[a].used
                            /\ M[a].tracked = H[a].tracked
  BY <1>9, <1>10
<1>12. \A a \in D \ {n, s} : M[a].prev = H[a].prev
  BY <1>6, <1>10
<1>13. M \in [DOMAIN M -> Header]
  <2>1. \A a \in D \ {s} : M[a] \in Header
    BY <1>6, <1>9, <1>10 DEF HdrType
  <2>2. ASSUME NEW G, G = Merge(H, f, s) PROVE G = [a \in DOMAIN G |-> G[a]]
    BY <2>2 DEF Merge
  <2>3. M = [a \in DOMAIN M |-> M[a]]
    BY <2>2 DEF M
  <2> QED
    BY <1>4, <2>1, <2>3
<1>14. HdrType(M, end)
  BY <1>4, <1>13 DEF HdrType
<1>15. D \subseteq Nat /\ end \in Nat /\ \A a \in D : H[a].size \in Nat /\ H[a].prev \in Nat
  BY DEF HdrType, Header
<1>16. {0, end} \subseteq DOMAIN M /\ M[0].prev = 0 /\ M[end].size = 0 /\ M[end].used
  <2>1. s # 0 /\ n # 0 /\ f # end
    BY <1>1, <1>2
  <2> QED
    BY <1>4, <1>11, <1>12, <2>1 DEF Tiled
<1>17. ASSUME NEW a \in DOMAIN M \ {end}
       PROVE  /\ M[a].size >= minimum_block_size
              /\ M[a].size % ALIGNMENT = 0
              /\ a + M[a].size \in DOMAIN M
              /\ M[a + M[a].size].prev = M[a].size
  <2>1. CASE a = f
    <3>1. M[a].size % ALIGNMENT = 0
      BY <1>1, <1>2, <1>6, <2>1, SMT DEF ALIGNMENT
    <3>2. H[f].size >= minimum_block_size
      BY DEF Tiled
    <3>3. M[a].size >= minimum_block_size
      BY <1>1, <1>2, <1>6, <2>1, <3>2, MinimumBlock
    <3> QED
      BY <1>1, <1>2, <1>3, <1>4, <1>6, <1>9, <2>1, <3>1, <3>3
  <2>2. CASE a # f
    <3>1. a \in D \ {f, s, end}
      BY <1>4, <2>2
    <3>2. /\ H[a].size >= minimum_block_size /\ H[a].size % ALIGNMENT = 0
          /\ a + H[a].size \in D /\ H[a + H[a].size].prev = H[a].size
      BY <3>1 DEF Tiled
    <3>3. a + H[a].size # s
      BY <1>1, <1>15, <3>1, <3>2
    <3>4. a + H[a].size # n
      BY <1>2, <1>15, <3>1, <3>2
    <3> QED
      BY <1>4, <1>11, <1>12, <3>1, <3>2, <3>3, <3>4
  <2> QED
    BY <2>1, <2>2
<1>18. ASSUME NEW a \in DOMAIN M \ {0}
       PROVE  /\ M[a].prev # 0
              /\ a - M[a].prev \in DOMAIN M
              /\ M[a - M[a].prev].size = M[a].prev
  <2>1. CASE a = n
    BY <1>1, <1>2, <1>3, <1>4, <1>6, <1>9, <2>1, MinimumBlock
  <2>2. CASE a # n
    <3>1. a \in D \ {0, n, s}
      BY <1>4, <2>2
    <3>2. /\ H[a].prev # 0 /\ a - H[a].prev \in D
          /\ H[a - H[a].prev].size = H[a].prev
      BY <3>1 DEF Tiled
    <3>3. a - H[a].prev # s /\ a - H[a].prev # f
      BY <1>1, <1>2, <1>15, <3>1, <3>2
    <3> QED
      BY <1>4, <1>11, <1>12, <3>1, <3>2, <3>3
  <2> QED
    BY <2>1, <2>2
<1>19. ASSUME NEW a \in DOMAIN M, NEW b \in DOMAIN M, a < b
       PROVE  a + M[a].size <= b
  <2>0. a \in D /\ b \in D /\ b # s /\ a # s
    BY <1>4
  <2>1. a + H[a].size <= b
    BY <1>19, <2>0 DEF Tiled
  <2>2. CASE a = f
    <3>1. s <= b /\ s < b
      BY <1>1, <1>15, <2>0, <2>1, <2>2
    <3>2. s + H[s].size <= b
      BY <1>1, <2>0, <3>1 DEF Tiled
    <3> QED
      BY <1>1, <1>2, <1>6, <1>15, <2>0, <2>1, <2>2, <3>2
  <2>3. CASE a # f
    BY <1>11, <2>0, <2>1, <2>3
  <2> QED
    BY <2>2, <2>3
<1>20. Tiled(M, end)
  BY <1>16, <1>17, <1>18, <1>19 DEF Tiled
<1> QED
  BY <1>3, <1>4, <1>6, <1>11, <1>14, <1>20 DEF M

\* Headers that differ only in their flags tile the pool alike.
LEMMA SameShapeTiled ==
    ASSUME NEW H, NEW K, NEW end, Tiled(H, end), DOMAIN K = DOMAIN H,
           \A a \in DOMAIN H : K[a].size = H[a].size /\ K[a].prev = H[a].prev,
           K[end].used
    PROVE  Tiled(K, end)
BY DEF Tiled

\* Marking a block free changes its flags only.
LEMMA MarkFreeTiled ==
    ASSUME NEW H, NEW end, HdrType(H, end), Tiled(H, end), NEW x \in DOMAIN H \ {end}
    PROVE  LET K == MarkFree(H, x)
           IN  /\ HdrType(K, end) /\ Tiled(K, end) /\ DOMAIN K = DOMAIN H
               /\ K[x].size = H[x].size /\ ~K[x].used
               /\ \A a \in DOMAIN H \ {x} : K[a] = H[a]
<1> DEFINE K == MarkFree(H, x)
<1>1. H[x] \in Header /\ H \in [DOMAIN H -> Header]
  BY DEF HdrType
<1>2. DOMAIN K = DOMAIN H /\ \A a \in DOMAIN H \ {x} : K[a] = H[a]
  BY DEF MarkFree
<1>3. K[x] = [size |-> H[x].size, used |-> FALSE, tracked |-> FALSE, prev |-> H[x].prev]
  BY DEF MarkFree, block_set
<1>4. K[x] \in Header
  BY <1>1, <1>3 DEF Header
<1>5. K \in [DOMAIN K -> Header]
  BY <1>1, <1>3, <1>4 DEF MarkFree, block_set
<1> HIDE DEF K
<1>6. HdrType(K, end)
  BY <1>2, <1>5 DEF HdrType
<1>7. \A a \in DOMAIN H : K[a].size = H[a].size /\ K[a].prev = H[a].prev
  BY <1>2, <1>3
<1>8. end \in DOMAIN H /\ H[end].used
  BY DEF Tiled
<1>9. Tiled(K, end)
  BY <1>2, <1>7, <1>8, SameShapeTiled
<1> QED
  BY <1>2, <1>3, <1>6, <1>9 DEF K

\* A block taken whole changes its flags only: the block behind is told the
\* size it already knows.
LEMMA UseWholeTiled ==
    ASSUME NEW H, NEW end, HdrType(H, end), Tiled(H, end), NEW x \in DOMAIN H \ {end}
    PROVE  LET K == UseWhole(H, x)
           IN  /\ HdrType(K, end) /\ Tiled(K, end) /\ DOMAIN K = DOMAIN H
               /\ K[x].size = H[x].size /\ K[x].used
               /\ \A a \in DOMAIN H \ {x} : K[a] = H[a]
<1> DEFINE K == UseWhole(H, x)
           n == x + H[x].size
<1>1. H[x] \in Header /\ H \in [DOMAIN H -> Header]
  BY DEF HdrType
<1>2. n \in DOMAIN H \ {x} /\ H[n].prev = H[x].size
  BY TiledBlock
<1>3. H[n] \in Header
  BY <1>1, <1>2
<1>4. DOMAIN K = DOMAIN H /\ \A a \in DOMAIN H \ {x, n} : K[a] = H[a]
  BY <1>2 DEF UseWhole
<1>5. K[x] = [size |-> H[x].size, used |-> TRUE, tracked |-> FALSE, prev |-> H[x].prev]
  BY <1>2 DEF UseWhole, block_set
<1>6. K[n] = [H[n] EXCEPT !.prev = H[n].prev]
  BY <1>2 DEF UseWhole
<1>7. K[n] = H[n]
  <2> HIDE DEF K, n
  <2> QED
    BY <1>3, <1>6 DEF Header
<1>8. ASSUME NEW G, G = UseWhole(H, x) PROVE G = [a \in DOMAIN G |-> G[a]]
  BY <1>8 DEF UseWhole
<1>9. K = [a \in DOMAIN K |-> K[a]]
  BY <1>8
<1> HIDE DEF K, n
<1>10. K[x] \in Header
  BY <1>1, <1>5 DEF Header
<1>11. \A a \in DOMAIN H \ {x} : K[a] = H[a]
  BY <1>4, <1>7
<1>12. \A a \in DOMAIN H : K[a] \in Header
  BY <1>1, <1>10, <1>11
<1>13. HdrType(K, end)
  BY <1>4, <1>9, <1>12 DEF HdrType
<1>14. \A a \in DOMAIN H : K[a].size = H[a].size /\ K[a].prev = H[a].prev
  BY <1>5, <1>11
<1>15. end \in DOMAIN H /\ H[end].used
  BY DEF Tiled
<1>16. Tiled(K, end)
  BY <1>4, <1>11, <1>14, <1>15, SameShapeTiled
<1> QED
  BY <1>4, <1>5, <1>11, <1>13, <1>16 DEF K

\* The headers K are those of H with the block at x split after `needed` bytes.
SplitsAt(H, K, end, x, needed) ==
    /\ HdrType(K, end) /\ Tiled(K, end)
    /\ x + needed \notin DOMAIN H
    /\ DOMAIN K = DOMAIN H \cup {x + needed}
    /\ K[x].size = needed /\ K[x].used
    /\ K[x + needed].size = H[x].size - needed /\ ~K[x + needed].used
    /\ \A a \in DOMAIN H \ {x} :
        /\ K[a].size = H[a].size
        /\ K[a].used = H[a].used
        /\ K[a].tracked = H[a].tracked

\* Splitting a block keeps the row.
LEMMA UseFrontTiled ==
    ASSUME NEW H, NEW end, HdrType(H, end), Tiled(H, end), NEW x \in DOMAIN H \ {end},
           NEW needed \in Nat, needed >= minimum_block_size, needed % ALIGNMENT = 0,
           H[x].size - needed >= minimum_block_size
    PROVE  SplitsAt(H, UseFront(H, x, needed), end, x, needed)
<1> DEFINE K == UseFront(H, x, needed)
           D == DOMAIN H
           m == x + needed
           n == x + H[x].size
           rest == H[x].size - needed
<1>1. /\ x \in Nat /\ x < end /\ H[x] \in Header /\ H[x].size \in Nat /\ H[x].prev \in Nat
      /\ H[x].size % ALIGNMENT = 0
      /\ n \in D \ {x} /\ n \in Nat /\ H[n].prev = H[x].size
      /\ \A b \in D \ {x} : b < x \/ b >= n
  BY TiledBlock
<1>2. /\ needed > 0 /\ rest \in Nat /\ rest > 0
      /\ x < m /\ m < n /\ m \in Nat /\ m + rest = n /\ m - needed = x /\ n - rest = m
  BY <1>1, MinimumBlock
<1>3. m \notin D
  BY <1>1, <1>2
<1>4. rest % ALIGNMENT = 0
  BY <1>1, <1>2, SMT DEF ALIGNMENT
<1>5. DOMAIN K = D \cup {m}
  BY DEF UseFront
<1>6. K[x] = block_set(needed, TRUE, H[x].prev)
  <2>1. K[x] = SplitHeader(H, x, needed, x)
    BY DEF UseFront
  <2>2. x # m /\ x # n
    BY <1>1, <1>2
  <2> QED
    BY <2>1, <2>2 DEF SplitHeader
<1>7. K[m] = block_set(rest, FALSE, needed)
  <2>1. K[m] = SplitHeader(H, x, needed, m)
    BY DEF UseFront
  <2>2. m # x /\ m # n
    BY <1>1, <1>2
  <2> QED
    BY <2>1, <2>2 DEF SplitHeader
<1>8. K[n] = [H[n] EXCEPT !.prev = rest]
  <2>1. K[n] = SplitHeader(H, x, needed, n)
    BY <1>1 DEF UseFront
  <2>2. n # x /\ n # m
    BY <1>1, <1>2
  <2> QED
    BY <2>1, <2>2 DEF SplitHeader
<1>9. \A a \in D \ {x, n} : K[a] = H[a]
  BY <1>3 DEF UseFront, SplitHeader
<1>10. ASSUME NEW G, G = UseFront(H, x, needed) PROVE G = [a \in DOMAIN G |-> G[a]]
  BY <1>10 DEF UseFront
<1>11. K = [a \in DOMAIN K |-> K[a]]
  BY <1>10
<1> HIDE DEF K
<1>12. /\ K[x].size = needed /\ K[x].used = TRUE /\ K[x].prev = H[x].prev
       /\ K[x] \in Header
  BY <1>1, <1>6 DEF block_set, Header
<1>13. /\ K[m].size = rest /\ K[m].used = FALSE /\ K[m].prev = needed /\ K[m] \in Header
  BY <1>2, <1>7 DEF block_set, Header
<1>14. H[n] \in Header
  BY <1>1 DEF HdrType
<1>15. /\ K[n].size = H[n].size /\ K[n].used = H[n].used /\ K[n].tracked = H[n].tracked
       /\ K[n].prev = rest /\ K[n] \in Header
  BY <1>2, <1>8, <1>14 DEF Header
<1>16. \A a \in D \ {x} : /\ K[a].size = H[a].size
                         /\ K[a].used = H[a].used
                         /\ K[a].tracked = H[a].tracked
  BY <1>9, <1>15
<1>17. \A a \in D \ {n} : K[a].prev = H[a].prev
  BY <1>9, <1>12
<1>18. HdrType(K, end)
  <2>1. \A a \in D \cup {m} : K[a] \in Header
    BY <1>9, <1>12, <1>13, <1>15 DEF HdrType
  <2>2. m \in 0 .. end
    BY <1>1, <1>2 DEF HdrType
  <2> QED
    BY <1>5, <1>11, <2>1, <2>2 DEF HdrType
<1>19. D \subseteq Nat /\ end \in Nat /\ \A a \in D : H[a].size \in Nat /\ H[a].prev \in Nat
  BY DEF HdrType, Header
<1>20. {0, end} \subseteq DOMAIN K /\ K[0].prev = 0 /\ K[end].size = 0 /\ K[end].used
  <2>1. n # 0 /\ x # end
    BY <1>1, <1>2
  <2> QED
    BY <1>5, <1>16, <1>17, <2>1 DEF Tiled
<1> HIDE DEF m, n, rest
<1>21. ASSUME NEW a \in DOMAIN K \ {end}
       PROVE  /\ K[a].size >= minimum_block_size
              /\ K[a].size % ALIGNMENT = 0
              /\ a + K[a].size \in DOMAIN K
              /\ K[a + K[a].size].prev = K[a].size
  <2>1. CASE a = x
    BY <1>5, <1>12, <1>13, <2>1 DEF m
  <2>2. CASE a = m
    <3>1. rest >= minimum_block_size
      BY DEF rest
    <3> QED
      BY <1>1, <1>2, <1>4, <1>5, <1>13, <1>15, <2>2, <3>1
  <2>3. CASE a \in D \ {x, m, end}
    <3>1. /\ H[a].size >= minimum_block_size /\ H[a].size % ALIGNMENT = 0
          /\ a + H[a].size \in D /\ H[a + H[a].size].prev = H[a].size
      BY <2>3 DEF Tiled
    <3>2. a + H[a].size # n
      BY <1>1, <1>19, <2>3, <3>1 DEF n
    <3> QED
      BY <1>5, <1>16, <1>17, <2>3, <3>1, <3>2
  <2> QED
    BY <1>5, <2>1, <2>2, <2>3
<1>22. ASSUME NEW a \in DOMAIN K \ {0}
       PROVE  /\ K[a].prev # 0
              /\ a - K[a].prev \in DOMAIN K
              /\ K[a - K[a].prev].size = K[a].prev
  <2>1. CASE a = n
    BY <1>2, <1>5, <1>13, <1>15, <2>1
  <2>2. CASE a = m
    BY <1>1, <1>2, <1>5, <1>12, <1>13, <2>2
  <2>3. CASE a \in D \ {0, n, m}
    <3>1. /\ H[a].prev # 0 /\ a - H[a].prev \in D
          /\ H[a - H[a].prev].size = H[a].prev
      BY <2>3 DEF Tiled
    <3>2. a - H[a].prev # x
      BY <1>1, <1>19, <2>3, <3>1 DEF n
    <3> QED
      BY <1>5, <1>16, <1>17, <2>3, <3>1, <3>2
  <2> QED
    BY <1>5, <2>1, <2>2, <2>3
<1>23. ASSUME NEW a \in DOMAIN K, NEW b \in DOMAIN K, a < b
       PROVE  a + K[a].size <= b
  <2>1. CASE a = x
    <3>1. b = m \/ b >= n
      BY <1>1, <1>2, <1>5, <1>19, <1>23, <2>1
    <3> QED
      BY <1>1, <1>2, <1>5, <1>12, <1>19, <2>1, <3>1 DEF m
  <2>2. CASE a = m
    <3>1. b \in D \ {x} /\ b >= x
      BY <1>1, <1>2, <1>5, <1>19, <1>23, <2>2
    <3> QED
      BY <1>1, <1>2, <1>13, <1>19, <2>2, <3>1
  <2>3. CASE a \in D \ {x, m}
    <3>1. CASE b = m
      <4>1. a < x
        BY <1>1, <1>2, <1>19, <1>23, <2>3, <3>1
      <4>2. a + H[a].size <= x
        BY <2>3, <4>1 DEF Tiled
      <4> QED
        BY <1>1, <1>2, <1>16, <1>19, <2>3, <3>1, <4>2
    <3>2. CASE b # m
      <4>1. b \in D
        BY <1>5, <3>2
      <4>2. a + H[a].size <= b
        BY <1>23, <2>3, <4>1 DEF Tiled
      <4> QED
        BY <1>16, <2>3, <4>2
    <3> QED
      BY <3>1, <3>2
  <2> QED
    BY <1>5, <2>1, <2>2, <2>3
<1>24. Tiled(K, end)
  BY <1>20, <1>21, <1>22, <1>23 DEF Tiled
<1> QED
  BY <1>3, <1>5, <1>12, <1>13, <1>16, <1>18, <1>24 DEF SplitsAt, K, m, rest

-----------------------------------------------------------------------------
(* The heap.                                                               *)

\* What every call finds and leaves: a tiled, coalesced row whose free blocks
\* are the listed ones.
GoodHeap(h, end) ==
    /\ h = [hdr |-> h.hdr, bins |-> h.bins]
    /\ HdrType(h.hdr, end)
    /\ Tiled(h.hdr, end)
    /\ BinsType(h.bins)
    /\ Coalesced(h.hdr, end)
    /\ Listed(h.hdr, h.bins, FreeBlocks(h.hdr, end))

\* The used blocks of h other than x are those of g, unmoved.
KeepsOthers(h, g, end, x) ==
    /\ UsedBlocks(g.hdr, end) \ {x} = UsedBlocks(h.hdr, end) \ {x}
    /\ \A a \in UsedBlocks(h.hdr, end) \ {x} :
        /\ g.hdr[a].size = h.hdr[a].size
        /\ g.hdr[a].tracked = h.hdr[a].tracked

\* Taking a large enough free block leaves a good heap in which that block,
\* and no other, has become used.
LEMMA TakeBlockGood ==
    ASSUME NEW h, NEW end, GoodHeap(h, end), NEW x \in FreeBlocks(h.hdr, end),
           NEW needed \in Nat, needed >= minimum_block_size, needed % ALIGNMENT = 0,
           h.hdr[x].size >= needed
    PROVE  LET g == TakeBlock(h, x, needed)
           IN  /\ GoodHeap(g, end)
               /\ x \in UsedBlocks(g.hdr, end)
               /\ g.hdr[x].size >= needed
               /\ KeepsOthers(h, g, end, x)
<1> DEFINE H == h.hdr
           F == FreeBlocks(H, end)
           bins == remove_free(h, x).bins
           g == TakeBlock(h, x, needed)
<1>1. HdrType(H, end) /\ Tiled(H, end) /\ Coalesced(H, end)
  BY DEF GoodHeap
<1>2. x \in DOMAIN H \ {end} /\ ~H[x].used
  BY DEF FreeBlocks
<1>3. BinsType(bins) /\ Listed(H, bins, F \ {x})
  BY RemoveFree DEF GoodHeap
<1>4. x + H[x].size \in DOMAIN H \ {x} /\ H[x + H[x].size].used /\ H[x].size \in Nat /\ x \in Nat
  BY <1>1, <1>2, TiledBlock DEF Coalesced
<1>5. CASE H[x].size - needed >= minimum_block_size
  <2> DEFINE K == UseFront(H, x, needed)
             m == x + needed
             i == [hdr |-> K, bins |-> bins]
  <2>1. g = insert_free(i, m)
    BY <1>5 DEF TakeBlock
  <2>2. /\ HdrType(K, end) /\ Tiled(K, end)
        /\ m \notin DOMAIN H
        /\ DOMAIN K = DOMAIN H \cup {m}
        /\ K[x].size = needed /\ K[x].used
        /\ K[m].size = H[x].size - needed /\ ~K[m].used
        /\ \A a \in DOMAIN H \ {x} :
            /\ K[a].size = H[a].size
            /\ K[a].used = H[a].used
            /\ K[a].tracked = H[a].tracked
    <3>1. SplitsAt(H, K, end, x, needed)
      BY <1>1, <1>2, <1>5, UseFrontTiled
    <3> HIDE DEF K
    <3> QED
      BY <3>1 DEF SplitsAt
  <2>3. m # end /\ m \in Nat
    BY <2>2, <1>4 DEF Tiled
  <2> HIDE DEF K, m
  <2>4. Listed(K, bins, F \ {x})
    <3>1. \A a \in F \ {x} : K[a].size = H[a].size
      BY <2>2 DEF FreeBlocks
    <3> QED
      BY <1>3, <3>1, ListedBySize
  <2>5. m \notin F \ {x}
    BY <2>2 DEF FreeBlocks
  <2>6. g = [hdr |-> K, bins |-> g.bins] /\ BinsType(g.bins) /\ Listed(K, g.bins, (F \ {x}) \cup {m})
    <3> HIDE DEF g
    <3>1. BinsType(i.bins) /\ Listed(i.hdr, i.bins, F \ {x}) /\ i.hdr = K
      BY <1>3, <2>4
    <3> HIDE DEF i
    <3> QED
      BY <2>1, <2>3, <2>5, <3>1, InsertFree
  <2> HIDE DEF g
  <2>7. (F \ {x}) \cup {m} = FreeBlocks(K, end)
    BY <1>2, <2>2, <2>3 DEF FreeBlocks
  <2>8. UsedBlocks(K, end) = UsedBlocks(H, end) \cup {x}
    BY <1>2, <2>2, <2>3 DEF UsedBlocks
  <2>9. Coalesced(K, end)
    <3>1. ASSUME NEW a \in DOMAIN K \ {end}, ~K[a].used PROVE K[a + K[a].size].used
      <4>1. CASE a = m
        <5>1. a + K[a].size = x + H[x].size
          BY <1>4, <2>2, <4>1 DEF m
        <5> QED
          BY <1>4, <2>2, <5>1
      <4>2. CASE a # m
        <5>1. a \in DOMAIN H \ {x, end} /\ ~H[a].used /\ K[a].size = H[a].size
          BY <2>2, <3>1, <4>2
        <5>2. H[a + H[a].size].used /\ a + H[a].size \in DOMAIN H
          BY <1>1, <5>1, TiledBlock DEF Coalesced
        <5> QED
          BY <1>2, <2>2, <5>1, <5>2
      <4> QED
        BY <4>1, <4>2
    <3> QED
      BY <3>1 DEF Coalesced
  <2>10. GoodHeap(g, end)
    <3>1. g.hdr = K /\ g = [hdr |-> g.hdr, bins |-> g.bins]
      BY <2>6
    <3>2. Listed(g.hdr, g.bins, FreeBlocks(g.hdr, end))
      BY <2>6, <2>7, <3>1
    <3> QED
      BY <2>2, <2>6, <2>9, <3>1, <3>2 DEF GoodHeap
  <2>11. KeepsOthers(h, g, end, x)
    <3>1. \A a \in UsedBlocks(H, end) \ {x} :
            K[a].size = H[a].size /\ K[a].tracked = H[a].tracked
      BY <2>2 DEF UsedBlocks
    <3>2. UsedBlocks(K, end) \ {x} = UsedBlocks(H, end) \ {x} /\ g.hdr = K
      BY <2>6, <2>8
    <3> QED
      BY <3>1, <3>2 DEF KeepsOthers
  <2> QED
    BY <2>2, <2>6, <2>8, <2>10, <2>11 DEF g
<1>6. CASE ~(H[x].size - needed >= minimum_block_size)
  <2> DEFINE K == UseWhole(H, x)
  <2>1. g = [hdr |-> K, bins |-> bins]
    BY <1>6 DEF TakeBlock
  <2>2. /\ HdrType(K, end) /\ Tiled(K, end) /\ DOMAIN K = DOMAIN H
        /\ K[x].size = H[x].size /\ K[x].used
        /\ \A a \in DOMAIN H \ {x} : K[a] = H[a]
    BY <1>1, <1>2, UseWholeTiled
  <2> HIDE DEF K, g, bins
  <2>3. Listed(K, bins, F \ {x})
    <3>1. \A a \in F \ {x} : K[a].size = H[a].size
      BY <2>2 DEF FreeBlocks
    <3> QED
      BY <1>3, <3>1, ListedBySize
  <2>4. F \ {x} = FreeBlocks(K, end)
    BY <1>2, <2>2 DEF FreeBlocks
  <2>5. UsedBlocks(K, end) = UsedBlocks(H, end) \cup {x}
    BY <1>2, <2>2 DEF UsedBlocks
  <2>6. Coalesced(K, end)
    <3>1. ASSUME NEW a \in DOMAIN K \ {end}, ~K[a].used PROVE K[a + K[a].size].used
      <4>1. a \in DOMAIN H \ {x, end} /\ ~H[a].used /\ K[a].size = H[a].size
        BY <2>2, <3>1
      <4>2. H[a + H[a].size].used /\ a + H[a].size \in DOMAIN H
        BY <1>1, <4>1, TiledBlock DEF Coalesced
      <4> QED
        BY <1>2, <2>2, <4>1, <4>2
    <3> QED
      BY <3>1 DEF Coalesced
  <2>7. GoodHeap(g, end)
    BY <1>3, <2>1, <2>2, <2>3, <2>4, <2>6 DEF GoodHeap
  <2>8. KeepsOthers(h, g, end, x)
    <3>1. \A a \in UsedBlocks(H, end) \ {x} :
            K[a].size = H[a].size /\ K[a].tracked = H[a].tracked
      BY <2>2 DEF UsedBlocks
    <3>2. UsedBlocks(K, end) \ {x} = UsedBlocks(H, end) \ {x} /\ g.hdr = K
      BY <2>1, <2>5
    <3> QED
      BY <3>1, <3>2 DEF KeepsOthers
  <2> QED
    BY <2>1, <2>2, <2>5, <2>7, <2>8 DEF g
<1> QED
  BY <1>5, <1>6

\* No free block is followed by a free one, except that the free block x may
\* follow one: the state between the two merges of pphp_free().
CoalescedUpTo(hdr, end, x) ==
    \A a \in DOMAIN hdr \ {end} :
        ~hdr[a].used => hdr[a + hdr[a].size].used \/ a + hdr[a].size = x

\* Between the merges of pphp_free(): the block x is free and not yet listed.
HalfFreed(h, end, x) ==
    /\ h = [hdr |-> h.hdr, bins |-> h.bins]
    /\ HdrType(h.hdr, end)
    /\ Tiled(h.hdr, end)
    /\ BinsType(h.bins)
    /\ x \in FreeBlocks(h.hdr, end)
    /\ CoalescedUpTo(h.hdr, end, x)
    /\ Listed(h.hdr, h.bins, FreeBlocks(h.hdr, end) \ {x})

\* The first half of pphp_free().
LEMMA FreeForwardGood ==
    ASSUME NEW h, NEW end, GoodHeap(h, end), NEW x \in UsedBlocks(h.hdr, end)
    PROVE  /\ HalfFreed(FreeForward(h, x), end, x)
           /\ KeepsOthers(h, FreeForward(h, x), end, x)
<1> DEFINE H == h.hdr
           K == MarkFree(H, x)
           F == FreeBlocks(H, end)
           y == x + H[x].size
           g == FreeForward(h, x)
<1>1. HdrType(H, end) /\ Tiled(H, end) /\ Coalesced(H, end) /\ BinsType(h.bins) /\ Listed(H, h.bins, F)
  BY DEF GoodHeap
<1>2. x \in DOMAIN H \ {end} /\ H[x].used
  BY DEF UsedBlocks
<1>3. /\ y \in DOMAIN H \ {x} /\ y \in Nat /\ x \in Nat /\ H[x].size \in Nat /\ x < end
      /\ H[x].size > 0
  BY <1>1, <1>2, TiledBlock, MinimumBlock
<1>4. /\ HdrType(K, end) /\ Tiled(K, end) /\ DOMAIN K = DOMAIN H
      /\ K[x].size = H[x].size /\ ~K[x].used
      /\ \A a \in DOMAIN H \ {x} : K[a] = H[a]
  BY <1>1, <1>2, MarkFreeTiled
<1> HIDE DEF K
<1>5. \A a \in DOMAIN H : K[a].size = H[a].size
  BY <1>4
<1>6. CASE H[y].size # 0 /\ ~H[y].used
  <2> DEFINE M == Merge(K, x, y)
             bins == remove_free(h, y).bins
  <2>1. g = [hdr |-> M, bins |-> bins]
    BY <1>6 DEF FreeForward, K
  <2>2. y # end /\ y \in F
    BY <1>1, <1>3, <1>6 DEF Tiled, FreeBlocks
  <2>3. BinsType(bins) /\ Listed(H, bins, F \ {y})
    BY <1>1, <2>2, RemoveFree
  <2>4. /\ HdrType(M, end) /\ Tiled(M, end)
        /\ DOMAIN M = DOMAIN K \ {y}
        /\ M[x].size = K[x].size + K[y].size /\ ~M[x].used
        /\ x + M[x].size = y + K[y].size
        /\ \A a \in DOMAIN K \ {x, y} :
            /\ M[a].size = K[a].size
            /\ M[a].used = K[a].used
            /\ M[a].tracked = K[a].tracked
    <3>1. x \in DOMAIN K \ {end} /\ y = x + K[x].size
      BY <1>2, <1>4
    <3> QED
      BY <1>4, <2>2, <3>1, MergeTiled
  <2> HIDE DEF M, bins
  <2>5. \A a \in DOMAIN H \ {x, y} : /\ M[a].size = H[a].size
                                    /\ M[a].used = H[a].used
                                    /\ M[a].tracked = H[a].tracked
    BY <1>4, <2>4
  <2>6. FreeBlocks(M, end) \ {x} = F \ {y}
    BY <1>2, <1>4, <2>4, <2>5 DEF FreeBlocks
  <2>7. Listed(M, bins, F \ {y})
    <3>1. \A a \in F \ {y} : M[a].size = H[a].size
      BY <1>2, <2>5 DEF FreeBlocks
    <3> QED
      BY <2>3, <3>1, ListedBySize
  <2>8. x \in FreeBlocks(M, end)
    BY <1>2, <1>3, <1>4, <2>4 DEF FreeBlocks
  <2>9. /\ y + H[y].size \in DOMAIN H \ {x, y} /\ H[y + H[y].size].used
    <3>1. y \in DOMAIN H \ {end} /\ ~H[y].used
      BY <1>3, <1>6, <2>2
    <3>2. /\ y + H[y].size \in DOMAIN H \ {y} /\ H[y].size \in Nat /\ y + H[y].size \in Nat
      BY <1>1, <3>1, TiledBlock
    <3>3. H[y + H[y].size].used
      BY <1>1, <3>1 DEF Coalesced
    <3>4. y + H[y].size # x
      BY <1>3, <3>2
    <3> QED
      BY <3>2, <3>3, <3>4
  <2>10. CoalescedUpTo(M, end, x)
    <3>1. ASSUME NEW a \in DOMAIN M \ {end}, ~M[a].used
          PROVE  M[a + M[a].size].used \/ a + M[a].size = x
      <4>1. CASE a = x
        <5>1. a + M[a].size = y + H[y].size
          BY <1>3, <1>5, <2>4, <4>1
        <5> QED
          BY <2>5, <2>9, <5>1
      <4>2. CASE a # x
        <5>1. a \in DOMAIN H \ {x, y, end} /\ ~H[a].used /\ M[a].size = H[a].size
          BY <1>4, <2>4, <2>5, <3>1, <4>2
        <5>2. H[a + H[a].size].used /\ a + H[a].size \in DOMAIN H
          BY <1>1, <5>1, TiledBlock DEF Coalesced
        <5>3. a + H[a].size # y
          BY <1>6, <5>2
        <5> QED
          BY <2>5, <5>1, <5>2, <5>3
      <4> QED
        BY <4>1, <4>2
    <3> QED
      BY <3>1 DEF CoalescedUpTo
  <2>11. HalfFreed(g, end, x)
    <3>1. g.hdr = M /\ g.bins = bins /\ g = [hdr |-> g.hdr, bins |-> g.bins]
      BY <2>1
    <3>2. Listed(g.hdr, g.bins, FreeBlocks(g.hdr, end) \ {x})
      BY <2>6, <2>7, <3>1
    <3> HIDE DEF g
    <3> QED
      BY <2>3, <2>4, <2>8, <2>10, <3>1, <3>2 DEF HalfFreed
  <2>12. UsedBlocks(M, end) \ {x} = UsedBlocks(H, end) \ {x}
    BY <1>2, <1>4, <1>6, <2>4, <2>5 DEF UsedBlocks
  <2>13. \A a \in UsedBlocks(H, end) \ {x} :
            M[a].size = H[a].size /\ M[a].tracked = H[a].tracked
    BY <1>6, <2>5 DEF UsedBlocks
  <2>14. KeepsOthers(h, g, end, x)
    BY <2>1, <2>12, <2>13 DEF KeepsOthers
  <2> QED
    BY <2>11, <2>14
<1>7. CASE ~(H[y].size # 0 /\ ~H[y].used)
  <2>1. g = [hdr |-> K, bins |-> h.bins]
    BY <1>7 DEF FreeForward, K
  <2>2. H[y].used
    <3>1. CASE y = end
      BY <1>1, <3>1 DEF Tiled
    <3>2. CASE y # end
      <4>1. H[y].size # 0
        BY <1>1, <1>3, <3>2, TiledBlock, MinimumBlock
      <4> QED
        BY <1>7, <4>1
    <3> QED
      BY <3>1, <3>2
  <2>3. FreeBlocks(K, end) \ {x} = F /\ x \in FreeBlocks(K, end)
    BY <1>2, <1>4 DEF FreeBlocks
  <2>4. Listed(K, h.bins, F)
    <3>1. \A a \in F : K[a].size = H[a].size
      BY <1>5 DEF FreeBlocks
    <3> QED
      BY <1>1, <3>1, ListedBySize
  <2>5. CoalescedUpTo(K, end, x)
    <3>1. ASSUME NEW a \in DOMAIN K \ {end}, ~K[a].used
          PROVE  K[a + K[a].size].used \/ a + K[a].size = x
      <4>1. CASE a = x
        BY <1>3, <1>4, <2>2, <4>1
      <4>2. CASE a # x
        <5>1. a \in DOMAIN H \ {x, end} /\ ~H[a].used /\ K[a].size = H[a].size
          BY <1>4, <3>1, <4>2
        <5>2. H[a + H[a].size].used /\ a + H[a].size \in DOMAIN H
          BY <1>1, <5>1, TiledBlock DEF Coalesced
        <5> QED
          BY <1>4, <5>1, <5>2
      <4> QED
        BY <4>1, <4>2
    <3> QED
      BY <3>1 DEF CoalescedUpTo
  <2>6. HalfFreed(g, end, x)
    BY <1>1, <1>4, <2>1, <2>3, <2>4, <2>5 DEF HalfFreed
  <2>7. UsedBlocks(K, end) \ {x} = UsedBlocks(H, end) \ {x}
    BY <1>2, <1>4 DEF UsedBlocks
  <2>8. \A a \in UsedBlocks(H, end) \ {x} :
            K[a].size = H[a].size /\ K[a].tracked = H[a].tracked
    BY <1>4 DEF UsedBlocks
  <2>9. KeepsOthers(h, g, end, x)
    BY <2>1, <2>7, <2>8 DEF KeepsOthers
  <2> QED
    BY <2>6, <2>9
<1> QED
  BY <1>6, <1>7

\* The second half of pphp_free().
LEMMA FreeBackwardGood ==
    ASSUME NEW h, NEW end, NEW x, HalfFreed(h, end, x)
    PROVE  /\ GoodHeap(FreeBackward(h, x), end)
           /\ x \notin UsedBlocks(FreeBackward(h, x).hdr, end)
           /\ KeepsOthers(h, FreeBackward(h, x), end, x)
<1> DEFINE H == h.hdr
           F == FreeBlocks(H, end)
           p == x - H[x].prev
           g == FreeBackward(h, x)
<1>1. /\ HdrType(H, end) /\ Tiled(H, end) /\ BinsType(h.bins)
      /\ CoalescedUpTo(H, end, x) /\ Listed(H, h.bins, F \ {x})
  BY DEF HalfFreed
<1>2. x \in DOMAIN H \ {end} /\ ~H[x].used /\ x \in F
  BY DEF HalfFreed, FreeBlocks
<1>3. /\ x \in Nat /\ H[x].size \in Nat /\ H[x].prev \in Nat
      /\ x + H[x].size \in DOMAIN H \ {x} /\ x < end
  BY <1>1, <1>2, TiledBlock
<1>4. H[x + H[x].size].used
  BY <1>1, <1>2, <1>3 DEF CoalescedUpTo
<1>5. CASE H[x].prev # 0 /\ ~H[p].used
  <2> DEFINE M == Merge(H, p, x)
             bins == remove_free(h, p).bins
             i == [hdr |-> M, bins |-> bins]
  <2>1. g = insert_free(i, p)
    BY <1>5 DEF FreeBackward
  <2>2. /\ p \in DOMAIN H /\ H[p].size = H[x].prev /\ x # 0
    BY <1>1, <1>2, <1>5 DEF Tiled
  <2>3. p # end /\ p # x /\ p \in Nat /\ x = p + H[p].size
    BY <1>1, <1>3, <1>5, <2>2 DEF HdrType
  <2>4. p \in F \ {x}
    BY <1>5, <2>2, <2>3 DEF FreeBlocks
  <2>5. BinsType(bins) /\ Listed(H, bins, (F \ {x}) \ {p})
    BY <1>1, <2>4, RemoveFree
  <2>6. /\ HdrType(M, end) /\ Tiled(M, end)
        /\ DOMAIN M = DOMAIN H \ {x}
        /\ ~M[p].used
        /\ p + M[p].size = x + H[x].size
        /\ \A a \in DOMAIN H \ {p, x} :
            /\ M[a].size = H[a].size
            /\ M[a].used = H[a].used
            /\ M[a].tracked = H[a].tracked
    <3> HIDE DEF p
    <3>1. p \in DOMAIN H \ {end}
      BY <2>2, <2>3
    <3> QED
      BY <1>1, <1>2, <2>3, <3>1, MergeTiled
  <2> HIDE DEF M, bins, p
  <2>7. Listed(M, bins, (F \ {x}) \ {p})
    <3>1. \A a \in (F \ {x}) \ {p} : M[a].size = H[a].size
      BY <2>6 DEF FreeBlocks
    <3> QED
      BY <2>5, <3>1, ListedBySize
  <2>8. /\ g = [hdr |-> M, bins |-> g.bins] /\ BinsType(g.bins)
        /\ Listed(M, g.bins, ((F \ {x}) \ {p}) \cup {p})
    <3> HIDE DEF g
    <3>1. BinsType(i.bins) /\ Listed(i.hdr, i.bins, (F \ {x}) \ {p}) /\ i.hdr = M
      BY <2>5, <2>7
    <3> HIDE DEF i
    <3>2. p \notin (F \ {x}) \ {p}
      OBVIOUS
    <3> QED
      BY <2>1, <2>3, <3>1, <3>2, InsertFree
  <2> HIDE DEF g
  <2>9. ((F \ {x}) \ {p}) \cup {p} = FreeBlocks(M, end)
    BY <1>2, <2>2, <2>3, <2>6 DEF FreeBlocks
  <2>10. UsedBlocks(M, end) = UsedBlocks(H, end)
    BY <1>2, <1>5, <2>2, <2>3, <2>6 DEF UsedBlocks, p
  <2>11. Coalesced(M, end)
    <3>1. ASSUME NEW a \in DOMAIN M \ {end}, ~M[a].used PROVE M[a + M[a].size].used
      <4>1. CASE a = p
        <5>1. x + H[x].size \in DOMAIN H \ {p, x}
          BY <1>4, <1>3, <1>5 DEF p
        <5> QED
          BY <1>4, <2>6, <4>1, <5>1
      <4>2. CASE a # p
        <5>1. a \in DOMAIN H \ {x, p, end} /\ ~H[a].used /\ M[a].size = H[a].size
          BY <2>6, <3>1, <4>2
        <5>2. /\ a + H[a].size \in DOMAIN H /\ a \in Nat /\ H[a].size \in Nat
              /\ H[a + H[a].size].prev = H[a].size
          BY <1>1, <5>1, TiledBlock
        <5>3. a + H[a].size # x
          BY <1>3, <5>1, <5>2 DEF p
        <5>4. H[a + H[a].size].used
          BY <1>1, <5>1, <5>3 DEF CoalescedUpTo
        <5>5. a + H[a].size # p
          BY <1>5, <5>4 DEF p
        <5> QED
          BY <2>6, <5>1, <5>2, <5>3, <5>4, <5>5
      <4> QED
        BY <4>1, <4>2
    <3> QED
      BY <3>1 DEF Coalesced
  <2>12. GoodHeap(g, end)
    <3>1. g.hdr = M /\ g = [hdr |-> g.hdr, bins |-> g.bins]
      BY <2>8
    <3>2. Listed(g.hdr, g.bins, FreeBlocks(g.hdr, end))
      BY <2>8, <2>9, <3>1
    <3> QED
      BY <2>6, <2>8, <2>11, <3>1, <3>2 DEF GoodHeap
  <2>13. \A a \in UsedBlocks(H, end) \ {x} :
            M[a].size = H[a].size /\ M[a].tracked = H[a].tracked
    BY <1>5, <2>6 DEF UsedBlocks, p
  <2>14. g.hdr = M
    BY <2>8
  <2>15. KeepsOthers(h, g, end, x)
    BY <2>10, <2>13, <2>14 DEF KeepsOthers
  <2>16. x \notin UsedBlocks(g.hdr, end)
    BY <2>6, <2>14 DEF UsedBlocks
  <2> QED
    BY <2>12, <2>15, <2>16 DEF g
<1>6. CASE ~(H[x].prev # 0 /\ ~H[p].used)
  <2>1. g = insert_free(h, x)
    BY <1>6 DEF FreeBackward
  <2>2. /\ g = [hdr |-> H, bins |-> g.bins] /\ BinsType(g.bins)
        /\ Listed(H, g.bins, (F \ {x}) \cup {x})
    <3> HIDE DEF g
    <3> QED
      BY <1>1, <1>3, <2>1, InsertFree
  <2> HIDE DEF g
  <2>3. (F \ {x}) \cup {x} = F /\ g.hdr = H
    BY <1>2, <2>2
  <2>4. Coalesced(H, end)
    <3>1. ASSUME NEW a \in DOMAIN H \ {end}, ~H[a].used PROVE H[a + H[a].size].used
      <4>1. /\ a + H[a].size \in DOMAIN H /\ a \in Nat /\ H[a].size \in Nat /\ H[a].size > 0
            /\ H[a + H[a].size].prev = H[a].size
        BY <1>1, TiledBlock, MinimumBlock
      <4>2. CASE a + H[a].size = x
        <5>1. H[x].prev # 0 /\ p = a
          BY <1>3, <4>1, <4>2
        <5> QED
          BY <1>6, <3>1, <5>1
      <4>3. CASE a + H[a].size # x
        BY <1>1, <3>1, <4>3 DEF CoalescedUpTo
      <4> QED
        BY <4>2, <4>3
    <3> QED
      BY <3>1 DEF Coalesced
  <2>5. GoodHeap(g, end)
    BY <1>1, <2>2, <2>3, <2>4 DEF GoodHeap
  <2>6. KeepsOthers(h, g, end, x)
    BY <2>3 DEF KeepsOthers
  <2>7. x \notin UsedBlocks(g.hdr, end)
    BY <1>2, <2>3 DEF UsedBlocks
  <2> QED
    BY <2>5, <2>6, <2>7 DEF g
<1> QED
  BY <1>5, <1>6

\* pphp_free() of a used block leaves a good heap in which that block, and no
\* other, is no longer used.
LEMMA ReturnBlockGood ==
    ASSUME NEW h, NEW end, GoodHeap(h, end), NEW x \in UsedBlocks(h.hdr, end)
    PROVE  /\ GoodHeap(ReturnBlock(h, x), end)
           /\ x \notin UsedBlocks(ReturnBlock(h, x).hdr, end)
           /\ KeepsOthers(h, ReturnBlock(h, x), end, x)
<1> DEFINE f == FreeForward(h, x)
           g == FreeBackward(f, x)
<1>1. HalfFreed(f, end, x) /\ KeepsOthers(h, f, end, x)
  BY FreeForwardGood
<1> HIDE DEF f
<1>2. GoodHeap(g, end) /\ x \notin UsedBlocks(g.hdr, end) /\ KeepsOthers(f, g, end, x)
  BY <1>1, FreeBackwardGood
<1>3. ReturnBlock(h, x) = g
  BY DEF ReturnBlock, f
<1> HIDE DEF g
<1>4. KeepsOthers(h, g, end, x)
  BY <1>1, <1>2 DEF KeepsOthers
<1> QED
  BY <1>2, <1>3, <1>4

\* The tracking mark is nobody's concern.
LEMMA SetTrackedGood ==
    ASSUME NEW h, NEW end, GoodHeap(h, end), NEW x \in UsedBlocks(h.hdr, end),
           NEW mark \in BOOLEAN
    PROVE  LET g == SetTracked(h, x, mark)
           IN  /\ GoodHeap(g, end)
               /\ UsedBlocks(g.hdr, end) = UsedBlocks(h.hdr, end)
               /\ g.hdr[x].size = h.hdr[x].size /\ g.hdr[x].tracked = mark
               /\ KeepsOthers(h, g, end, x)
<1> DEFINE H == h.hdr
           g == SetTracked(h, x, mark)
           K == [H EXCEPT ![x] = [@ EXCEPT !.tracked = mark]]
<1>1. g = [hdr |-> K, bins |-> h.bins]
  BY DEF SetTracked
<1>2. x \in DOMAIN H \ {end} /\ H[x].used
  BY DEF UsedBlocks
<1>3. HdrType(H, end) /\ Tiled(H, end) /\ H[x] \in Header /\ H \in [DOMAIN H -> Header]
  BY <1>2 DEF GoodHeap, HdrType
<1>4. /\ DOMAIN K = DOMAIN H
      /\ \A a \in DOMAIN H \ {x} : K[a] = H[a]
      /\ K[x] = [H[x] EXCEPT !.tracked = mark]
  BY <1>2
<1>5. K \in [DOMAIN K -> Header]
  BY <1>2, <1>3 DEF Header
<1> HIDE DEF K
<1>6. /\ K[x].size = H[x].size /\ K[x].prev = H[x].prev /\ K[x].used = H[x].used
      /\ K[x].tracked = mark
  BY <1>3, <1>4 DEF Header
<1>7. \A a \in DOMAIN H : K[a].size = H[a].size /\ K[a].prev = H[a].prev /\ K[a].used = H[a].used
  BY <1>4, <1>6
<1>8. HdrType(K, end)
  BY <1>3, <1>4, <1>5 DEF HdrType
<1>9. Tiled(K, end)
  <2>1. K[end].used
    BY <1>3, <1>7 DEF Tiled
  <2> QED
    BY <1>3, <1>4, <1>7, <2>1, SameShapeTiled
<1>10. FreeBlocks(K, end) = FreeBlocks(H, end) /\ UsedBlocks(K, end) = UsedBlocks(H, end)
  BY <1>4, <1>7 DEF FreeBlocks, UsedBlocks
<1>11. Listed(K, h.bins, FreeBlocks(H, end))
  <2>1. \A a \in FreeBlocks(H, end) : K[a].size = H[a].size
    BY <1>7 DEF FreeBlocks
  <2> QED
    BY <2>1, ListedBySize DEF GoodHeap
<1>12. Coalesced(K, end)
  <2>1. ASSUME NEW a \in DOMAIN H \ {end} PROVE a + H[a].size \in DOMAIN H
    BY <1>3 DEF Tiled
  <2> QED
    BY <1>4, <1>7, <2>1 DEF Coalesced, GoodHeap
<1>13. g.hdr = K /\ g.bins = h.bins /\ g = [hdr |-> g.hdr, bins |-> g.bins]
  BY <1>1
<1> HIDE DEF g
<1>14. GoodHeap(g, end)
  BY <1>8, <1>9, <1>10, <1>11, <1>12, <1>13 DEF GoodHeap
<1>15. KeepsOthers(h, g, end, x)
  <2>1. \A a \in UsedBlocks(H, end) \ {x} :
            K[a].size = H[a].size /\ K[a].tracked = H[a].tracked
    BY <1>4 DEF UsedBlocks
  <2> QED
    BY <1>10, <1>13, <2>1 DEF KeepsOthers
<1> QED
  BY <1>6, <1>10, <1>13, <1>14, <1>15 DEF g

\* What find_free() returns is a free block that is large enough.
LEMMA FoundIsFree ==
    ASSUME NEW h, NEW end, GoodHeap(h, end), NEW needed, NEW p \in find_free(h, needed)
    PROVE  /\ h.bins[p[1]][p[2]] \in FreeBlocks(h.hdr, end)
           /\ h.hdr[h.bins[p[1]][p[2]]].size >= needed
<1>1. p \in Fitting(h, needed)
  BY DEF find_free
<1>2. PICK b \in Bins : p \in {b} \X (1 .. Len(h.bins[b]))
  BY <1>1 DEF Fitting
<1>3. p[1] = b /\ p[2] \in 1 .. Len(h.bins[b])
  BY <1>2
<1>4. h.bins[b] \in Seq(Nat) /\ Range(h.bins[b]) \subseteq FreeBlocks(h.hdr, end)
  BY DEF GoodHeap, BinsType, Listed
<1>5. h.bins[b][p[2]] \in Range(h.bins[b])
  BY <1>3, <1>4 DEF Range
<1> QED
  BY <1>1, <1>3, <1>4, <1>5 DEF Fitting

\* A request is rounded to a legal block size that holds it and its header.
LEMMA NeededSize ==
    ASSUME NEW size \in Nat
    PROVE  /\ Needed(size) \in Nat
           /\ Needed(size) >= minimum_block_size
           /\ Needed(size) % ALIGNMENT = 0
           /\ Needed(size) >= size + HeaderSize
<1>1. size + HeaderSize \in Nat
  BY MinimumBlock
<1>2. /\ align_up(size + HeaderSize) \in Nat
      /\ align_up(size + HeaderSize) % ALIGNMENT = 0
      /\ align_up(size + HeaderSize) >= size + HeaderSize
  BY <1>1, AlignUp
<1> QED
  BY <1>1, <1>2, MinimumBlock DEF Needed

\* A fresh pool is a good heap without used blocks.
LEMMA FreshHeapGood ==
    ASSUME NEW available \in Nat, available % ALIGNMENT = 0,
           available >= minimum_block_size + HeaderSize
    PROVE  /\ GoodHeap(FreshHeap(available), available - HeaderSize)
           /\ UsedBlocks(FreshHeap(available).hdr, available - HeaderSize) = {}
<1> DEFINE end == available - HeaderSize
           H == [a \in {0, end} |->
                    IF a = 0 THEN block_set(end, FALSE, 0) ELSE block_set(0, TRUE, end)]
           E == [b \in Bins |-> <<>>]
           i == [hdr |-> H, bins |-> E]
           g == FreshHeap(available)
<1>1. end \in Nat /\ end >= minimum_block_size /\ end > 0 /\ end % ALIGNMENT = 0
  <2>1. end \in Nat /\ end >= minimum_block_size /\ end > 0
    BY MinimumBlock
  <2>2. end % ALIGNMENT = 0
    BY <2>1, MinimumBlock, SMT DEF ALIGNMENT
  <2> QED
    BY <2>1, <2>2
<1>2. g = insert_free(i, 0)
  BY DEF FreshHeap
<1> HIDE DEF end
<1>3. /\ DOMAIN H = {0, end}
      /\ H[0] = [size |-> end, used |-> FALSE, tracked |-> FALSE, prev |-> 0]
      /\ H[end] = [size |-> 0, used |-> TRUE, tracked |-> FALSE, prev |-> end]
  BY <1>1 DEF block_set
<1>4. H \in [DOMAIN H -> Header]
  BY <1>1 DEF block_set, Header
<1> HIDE DEF H
<1>5. HdrType(H, end)
  BY <1>1, <1>3, <1>4 DEF HdrType
<1>6. Tiled(H, end)
  BY <1>1, <1>3, MinimumBlock DEF Tiled
<1>7. Coalesced(H, end)
  BY <1>1, <1>3 DEF Coalesced
<1>8. FreeBlocks(H, end) = {0} /\ UsedBlocks(H, end) = {}
  BY <1>1, <1>3 DEF FreeBlocks, UsedBlocks
<1>9. BinsType(E) /\ Listed(H, E, {})
  <2>1. \A b \in Bins : E[b] = <<>> /\ E[b] \in Seq(Nat)
    OBVIOUS
  <2>2. IsInjective(<<>>) /\ Range(<<>>) = {}
    BY DEF IsInjective, Range
  <2>3. E \in [Bins -> Seq(Nat)]
    OBVIOUS
  <2> HIDE DEF E
  <2> QED
    BY <2>1, <2>2, <2>3 DEF BinsType, Listed
<1>10. i.hdr = H /\ i.bins = E
  OBVIOUS
<1> HIDE DEF i, E, g
<1>11. /\ g = [hdr |-> H, bins |-> g.bins] /\ BinsType(g.bins)
       /\ Listed(H, g.bins, {} \cup {0})
  <2>1. 0 \in Nat /\ 0 \notin {} /\ BinsType(i.bins) /\ Listed(i.hdr, i.bins, {})
    BY <1>9, <1>10
  <2>2. /\ insert_free(i, 0).hdr = i.hdr /\ BinsType(insert_free(i, 0).bins)
        /\ Listed(i.hdr, insert_free(i, 0).bins, {} \cup {0})
        /\ insert_free(i, 0) = [hdr |-> i.hdr, bins |-> insert_free(i, 0).bins]
    BY <2>1, InsertFree
  <2> QED
    BY <1>2, <1>10, <2>2
<1>12. g.hdr = H /\ {} \cup {0} = FreeBlocks(H, end)
  BY <1>8, <1>11
<1>13. GoodHeap(g, end)
  BY <1>5, <1>6, <1>7, <1>11, <1>12 DEF GoodHeap
<1> QED
  BY <1>8, <1>12, <1>13 DEF g, end

\* The bytes pphp_pool_init() keeps of a buffer it accepts.
LEMMA AlignDown ==
    ASSUME NEW n \in Nat, NEW m \in Nat, m % ALIGNMENT = 0, n > m
    PROVE  align_down(n) \in Nat /\ align_down(n) % ALIGNMENT = 0 /\ align_down(n) >= m
BY SMT DEF align_down, ALIGNMENT

-----------------------------------------------------------------------------
(* The allocator.                                                          *)

\* The inductive invariant.  ListsMatchHeaders needs BoundaryTags (a listed
\* block is where its header is), BoundaryTags needs ListsMatchHeaders (only
\* a free block may be split or merged), and ClientsOwnUsedBlocks says that
\* what a client gives back is a used block.
PoolInv ==
    /\ TypeOK
    /\ BoundaryTags
    /\ NoFreeNeighbours
    /\ ListsMatchHeaders
    /\ ClientsOwnUsedBlocks

\* The clients f of heap h hold exactly its used blocks, each large enough.
Owned(h, end, f) ==
    /\ end \in Nat
    /\ GoodHeap(h, end)
    /\ f \in [DOMAIN f -> Nat]
    /\ DOMAIN f = {a + HeaderSize : a \in UsedBlocks(h.hdr, end)}
    /\ \A ptr \in DOMAIN f : f[ptr] <= h.hdr[ptr - HeaderSize].size - HeaderSize

\* The invariant of an initialised pool, in terms of GoodHeap.
LEMMA OwnedFromInv ==
    ASSUME PoolInv, initialized
    PROVE  Owned(heap, Sentinel, live) /\ total \in Nat
<1>1. Sentinel \in Nat
  BY MinimumBlock DEF PoolInv, TypeOK, Sentinel
<1>2. HdrType(heap.hdr, Sentinel) /\ BinsType(heap.bins)
  BY <1>1 DEF PoolInv, TypeOK, Blocks, HdrType, BinsType
<1>3. heap = [hdr |-> heap.hdr, bins |-> heap.bins]
  BY DEF PoolInv, TypeOK
<1>4. GoodHeap(heap, Sentinel)
  BY <1>2, <1>3 DEF PoolInv, GoodHeap, BoundaryTags, NoFreeNeighbours, ListsMatchHeaders
<1> QED
  BY <1>1, <1>4 DEF PoolInv, TypeOK, ClientsOwnUsedBlocks, Owned, PayloadSize

\* And back, for the state after a step.
LEMMA InvFromOwned ==
    ASSUME initialized' = TRUE, total' \in Nat, Owned(heap', Sentinel', live')
    PROVE  PoolInv'
<1>1. HdrType(heap'.hdr, Sentinel') /\ BinsType(heap'.bins)
  BY DEF GoodHeap, Owned
<1>2. heap' = [hdr |-> heap'.hdr, bins |-> heap'.bins]
  BY DEF GoodHeap, Owned
<1>3. TypeOK'
  BY <1>1, <1>2 DEF TypeOK, Blocks, HdrType, BinsType, Owned
<1>4. BoundaryTags' /\ NoFreeNeighbours' /\ ListsMatchHeaders'
  BY DEF GoodHeap, BoundaryTags, NoFreeNeighbours, ListsMatchHeaders, Owned
<1>5. ClientsOwnUsedBlocks'
  BY DEF ClientsOwnUsedBlocks, PayloadSize, Owned
<1> QED
  BY <1>3, <1>4, <1>5 DEF PoolInv

\* Before pphp_pool_init() there is nothing to go wrong.
LEMMA InitInv == Init => PoolInv
<1> SUFFICES ASSUME Init PROVE PoolInv
  OBVIOUS
<1>1. /\ initialized = FALSE /\ total = 0 /\ live = <<>>
      /\ heap = [hdr |-> <<>>, bins |-> [b \in Bins |-> <<>>]]
  BY DEF Init, EmptyHeap
<1>2. DOMAIN heap.hdr = {} /\ heap.hdr \in [{} -> Header]
  BY <1>1
<1>3. heap.bins \in [Bins -> Seq(Nat)] /\ heap = [hdr |-> heap.hdr, bins |-> heap.bins]
  BY <1>1
<1>4. live \in [DOMAIN live -> Nat]
  BY <1>1
<1>5. TypeOK
  BY <1>1, <1>2, <1>3, <1>4 DEF TypeOK, Blocks
<1> QED
  BY <1>1, <1>5 DEF PoolInv, BoundaryTags, NoFreeNeighbours, ListsMatchHeaders, ClientsOwnUsedBlocks

\* pphp_pool_init() establishes the invariant, or leaves no pool.
LEMMA PoolInitInv ==
    ASSUME PoolInv, NEW size \in BufferSizes, NEW skew \in Skews, pphp_pool_init(size, skew)
    PROVE  PoolInv'
<1> DEFINE skipped == align_up(skew) - skew
           available == align_down(size - skipped)
<1>1. size \in Nat /\ skew \in Nat
  BY SizesAssumption DEF ALIGNMENT
<1>2. skipped \in Nat
  <2>1. align_up(skew) \in Nat /\ align_up(skew) >= skew
    BY <1>1, AlignUp
  <2> QED
    BY <1>1, <2>1
<1> HIDE DEF skipped
<1>3. CASE size > skipped + minimum_block_size + HeaderSize
  <2>1. /\ initialized' = TRUE /\ total' = available - 2 * HeaderSize
        /\ heap' = FreshHeap(available) /\ live' = <<>>
    BY <1>3 DEF pphp_pool_init, skipped
  <2>2. /\ size - skipped \in Nat /\ minimum_block_size + HeaderSize \in Nat
        /\ (minimum_block_size + HeaderSize) % ALIGNMENT = 0
        /\ size - skipped > minimum_block_size + HeaderSize
    BY <1>1, <1>2, <1>3, MinimumBlock, SMT DEF ALIGNMENT
  <2>3. /\ available \in Nat /\ available % ALIGNMENT = 0
        /\ available >= minimum_block_size + HeaderSize
    BY <2>2, AlignDown
  <2> HIDE DEF available
  <2>4. total' \in Nat /\ Sentinel' = available - HeaderSize
    BY <2>1, <2>3, MinimumBlock DEF Sentinel
  <2>5. GoodHeap(heap', Sentinel') /\ UsedBlocks(heap'.hdr, Sentinel') = {}
    BY <2>1, <2>3, <2>4, FreshHeapGood
  <2>6. live' \in [DOMAIN live' -> Nat] /\ DOMAIN live' = {}
    BY <2>1
  <2>7. Sentinel' \in Nat
    BY <2>3, <2>4, MinimumBlock
  <2>8. Owned(heap', Sentinel', live')
    BY <2>5, <2>6, <2>7 DEF Owned
  <2> QED
    BY <2>1, <2>4, <2>8, InvFromOwned
<1>4. CASE ~(size > skipped + minimum_block_size + HeaderSize)
  <2>1. initialized' = FALSE /\ total' = 0 /\ heap' = EmptyHeap /\ live' = <<>>
    <3>1. (size > skipped + minimum_block_size + HeaderSize) = FALSE
      BY <1>1, <1>2, <1>4, MinimumBlock
    <3> QED
      BY <3>1, Zenon DEF pphp_pool_init, skipped
  <2>2. DOMAIN heap'.hdr = {} /\ heap'.hdr \in [{} -> Header]
    BY <2>1 DEF EmptyHeap
  <2>3. heap'.bins \in [Bins -> Seq(Nat)] /\ heap' = [hdr |-> heap'.hdr, bins |-> heap'.bins]
    BY <2>1 DEF EmptyHeap
  <2>4. live' \in [DOMAIN live' -> Nat]
    BY <2>1
  <2>5. TypeOK'
    BY <2>1, <2>2, <2>3, <2>4 DEF TypeOK, Blocks
  <2> QED
    BY <2>1, <2>5
       DEF PoolInv, BoundaryTags, NoFreeNeighbours, ListsMatchHeaders, ClientsOwnUsedBlocks
<1> QED
  BY <1>3, <1>4

\* pphp_alloc() hands out a block nobody holds.
LEMMA TakeOwned ==
    ASSUME NEW h, NEW end, NEW f, Owned(h, end, f),
           NEW size \in Nat, NEW p \in find_free(h, Needed(size)),
           NEW x, x = h.bins[p[1]][p[2]]
    PROVE  /\ x \in Nat
           /\ x + HeaderSize \notin DOMAIN f
           /\ x \in UsedBlocks(TakeBlock(h, x, Needed(size)).hdr, end)
           /\ KeepsOthers(h, TakeBlock(h, x, Needed(size)), end, x)
           /\ Owned(TakeBlock(h, x, Needed(size)), end, Given(f, x, size))
<1> DEFINE needed == Needed(size)
           g == TakeBlock(h, x, needed)
           e == Given(f, x, size)
<1>1. /\ GoodHeap(h, end) /\ end \in Nat
      /\ DOMAIN f = {a + HeaderSize : a \in UsedBlocks(h.hdr, end)}
      /\ \A ptr \in DOMAIN f : f[ptr] <= h.hdr[ptr - HeaderSize].size - HeaderSize
      /\ f \in [DOMAIN f -> Nat]
  BY DEF Owned
<1>2. x \in FreeBlocks(h.hdr, end) /\ h.hdr[x].size >= needed
  BY <1>1, FoundIsFree
<1>3. /\ needed \in Nat /\ needed >= minimum_block_size /\ needed % ALIGNMENT = 0
      /\ needed >= size + HeaderSize
  BY NeededSize
<1> HIDE DEF needed
<1>4. /\ GoodHeap(g, end)
      /\ x \in UsedBlocks(g.hdr, end)
      /\ g.hdr[x].size >= needed
      /\ KeepsOthers(h, g, end, x)
  BY <1>1, <1>2, <1>3, TakeBlockGood
<1> DEFINE U == UsedBlocks(h.hdr, end)
           V == UsedBlocks(g.hdr, end)
<1> HIDE DEF g
<1>5. V = U \cup {x} /\ x \notin U /\ \A a \in U : g.hdr[a].size = h.hdr[a].size
  <2>1. x \notin U
    BY <1>2 DEF FreeBlocks, UsedBlocks
  <2>2. V \ {x} = U \ {x} /\ \A a \in U \ {x} : g.hdr[a].size = h.hdr[a].size
    BY <1>4 DEF KeepsOthers
  <2> QED
    BY <1>4, <2>1, <2>2
<1>6. U \subseteq Nat /\ x \in Nat /\ g.hdr[x].size \in Nat /\ HeaderSize = 8
  BY <1>1, <1>2, <1>4, MinimumBlock DEF UsedBlocks, FreeBlocks, GoodHeap, HdrType, Header
<1> HIDE DEF U, V
<1>7. DOMAIN f = {a + HeaderSize : a \in U}
  BY <1>1 DEF U
<1>8. e = [q \in DOMAIN f \cup {x + HeaderSize} |-> IF q = x + HeaderSize THEN size ELSE f[q]]
  BY DEF Given
<1> HIDE DEF e
<1>9. DOMAIN e = {a + HeaderSize : a \in V}
  BY <1>5, <1>7, <1>8
<1>10. e \in [DOMAIN e -> Nat]
  BY <1>1, <1>8
<1>11. ASSUME NEW ptr \in DOMAIN e PROVE e[ptr] <= g.hdr[ptr - HeaderSize].size - HeaderSize
  <2>1. PICK a \in U \cup {x} : ptr = a + HeaderSize
    BY <1>5, <1>9
  <2>2. a \in Nat /\ ptr - HeaderSize = a
    BY <1>6, <2>1
  <2>3. CASE a = x
    BY <1>3, <1>4, <1>6, <1>8, <2>1, <2>2, <2>3
  <2>4. CASE a # x
    <3>1. a \in U /\ g.hdr[a].size = h.hdr[a].size /\ ptr \in DOMAIN f
      BY <1>5, <1>7, <2>1, <2>4
    <3>2. e[ptr] = f[ptr]
      BY <1>6, <1>8, <2>1, <2>2, <2>4, <3>1
    <3>3. f[ptr] <= h.hdr[a].size - HeaderSize
      BY <1>1, <2>2, <3>1
    <3> QED
      BY <2>2, <3>1, <3>2, <3>3
  <2> QED
    BY <2>3, <2>4
<1>12. x + HeaderSize \notin DOMAIN f
  <2> SUFFICES ASSUME x + HeaderSize \in DOMAIN f PROVE FALSE
    OBVIOUS
  <2>1. PICK a \in U : x + HeaderSize = a + HeaderSize
    BY <1>7
  <2> QED
    BY <1>5, <1>6, <2>1
<1>13. Owned(g, end, e)
  BY <1>1, <1>4, <1>9, <1>10, <1>11 DEF Owned, V
<1> QED
  BY <1>4, <1>6, <1>12, <1>13 DEF g, e, needed

\* pphp_free() takes a block from its holder, and from nobody else.
LEMMA ReturnOwned ==
    ASSUME NEW h, NEW end, NEW f, Owned(h, end, f), NEW ptr \in DOMAIN f
    PROVE  /\ ptr - HeaderSize \in UsedBlocks(h.hdr, end)
           /\ KeepsOthers(h, ReturnBlock(h, ptr - HeaderSize), end, ptr - HeaderSize)
           /\ Owned(ReturnBlock(h, ptr - HeaderSize), end, Forget(f, ptr))
<1> DEFINE U == UsedBlocks(h.hdr, end)
           x == ptr - HeaderSize
           g == ReturnBlock(h, x)
           V == UsedBlocks(g.hdr, end)
           e == Forget(f, ptr)
<1>1. /\ GoodHeap(h, end) /\ end \in Nat
      /\ DOMAIN f = {a + HeaderSize : a \in U}
      /\ \A q \in DOMAIN f : f[q] <= h.hdr[q - HeaderSize].size - HeaderSize
      /\ f \in [DOMAIN f -> Nat]
  BY DEF Owned
<1>2. U \subseteq Nat /\ HeaderSize = 8
  BY <1>1, MinimumBlock DEF UsedBlocks, GoodHeap, HdrType
<1>3. x \in U /\ x \in Nat /\ ptr = x + HeaderSize
  <2>1. PICK a \in U : ptr = a + HeaderSize
    BY <1>1
  <2>2. a \in Nat /\ a = x
    BY <1>2, <2>1
  <2> QED
    BY <2>1, <2>2
<1> HIDE DEF x
<1>4. GoodHeap(g, end) /\ x \notin V /\ KeepsOthers(h, g, end, x)
  BY <1>1, <1>3, ReturnBlockGood
<1> HIDE DEF g
<1>5. V = U \ {x} /\ \A a \in V : g.hdr[a].size = h.hdr[a].size
  BY <1>4 DEF KeepsOthers
<1> HIDE DEF U, V
<1>6. e = [q \in DOMAIN f \ {ptr} |-> f[q]]
  BY DEF Forget
<1> HIDE DEF e
<1>7. DOMAIN e = {a + HeaderSize : a \in V}
  <2>1. \A a, b \in U : a + HeaderSize = b + HeaderSize => a = b
    BY <1>2
  <2> QED
    BY <1>1, <1>3, <1>5, <1>6, <2>1
<1>8. e \in [DOMAIN e -> Nat]
  BY <1>1, <1>6
<1>9. ASSUME NEW q \in DOMAIN e PROVE e[q] <= g.hdr[q - HeaderSize].size - HeaderSize
  <2>1. PICK a \in V : q = a + HeaderSize
    BY <1>7
  <2>2. q - HeaderSize = a
    BY <1>2, <1>5, <2>1
  <2>3. q \in DOMAIN f /\ e[q] = f[q]
    BY <1>6
  <2>4. f[q] <= h.hdr[a].size - HeaderSize
    BY <1>1, <2>2, <2>3
  <2> QED
    BY <1>5, <2>2, <2>3, <2>4
<1>10. Owned(g, end, e)
  BY <1>1, <1>4, <1>7, <1>8, <1>9 DEF Owned, V
<1> QED
  BY <1>3, <1>4, <1>10 DEF U, g, e, x

\* Marking a used block does not change who holds what.
LEMMA TrackOwned ==
    ASSUME NEW h, NEW end, NEW f, Owned(h, end, f), NEW x \in UsedBlocks(h.hdr, end),
           NEW mark \in BOOLEAN
    PROVE  Owned(SetTracked(h, x, mark), end, f)
<1> DEFINE g == SetTracked(h, x, mark)
           U == UsedBlocks(h.hdr, end)
<1>1. /\ GoodHeap(g, end)
      /\ UsedBlocks(g.hdr, end) = U
      /\ g.hdr[x].size = h.hdr[x].size
      /\ KeepsOthers(h, g, end, x)
  BY SetTrackedGood DEF Owned
<1> HIDE DEF g
<1>2. \A a \in U : g.hdr[a].size = h.hdr[a].size
  BY <1>1 DEF KeepsOthers
<1>3. U \subseteq Nat /\ HeaderSize = 8
  BY MinimumBlock DEF UsedBlocks, GoodHeap, HdrType, Owned
<1>4. \A ptr \in DOMAIN f : ptr - HeaderSize \in U
  <2> TAKE ptr \in DOMAIN f
  <2>1. PICK a \in U : ptr = a + HeaderSize
    BY DEF Owned
  <2>2. ptr - HeaderSize = a
    BY <1>3, <2>1
  <2> QED
    BY <2>1, <2>2
<1>5. Owned(g, end, f)
  BY <1>1, <1>2, <1>4 DEF Owned
<1> QED
  BY <1>5 DEF g

\* Every step keeps the invariant: one case per operation.
LEMMA NextInv == PoolInv /\ [Next]_vars => PoolInv'
<1> SUFFICES ASSUME PoolInv, [Next]_vars PROVE PoolInv'
  OBVIOUS
<1>1. ASSUME UNCHANGED vars PROVE PoolInv'
  BY <1>1 DEF vars, PoolInv, TypeOK, Blocks, Sentinel, BoundaryTags, NoFreeNeighbours,
              ListsMatchHeaders, ClientsOwnUsedBlocks, PayloadSize
<1>2. ASSUME NEW size \in BufferSizes, NEW skew \in Skews, pphp_pool_init(size, skew)
      PROVE  PoolInv'
  BY <1>2, PoolInitInv
<1>3. ASSUME NEW size \in Requests, pphp_alloc(size) PROVE PoolInv'
  <2>1. initialized = TRUE /\ initialized' = TRUE /\ total' = total /\ Sentinel' = Sentinel
    BY <1>3 DEF pphp_alloc, AllocRefused, PoolInv, TypeOK, Sentinel
  <2>2. Owned(heap, Sentinel, live) /\ total \in Nat /\ size \in Nat
    BY <2>1, OwnedFromInv, SizesAssumption
  <2>3. PICK p \in find_free(heap, Needed(size)) :
          /\ heap' = TakeBlock(heap, heap.bins[p[1]][p[2]], Needed(size))
          /\ live' = Given(live, heap.bins[p[1]][p[2]], size)
    BY <1>3 DEF pphp_alloc
  <2>4. Owned(heap', Sentinel, live')
    BY <2>2, <2>3, TakeOwned
  <2> QED
    BY <2>1, <2>2, <2>4, InvFromOwned
<1>4. ASSUME NEW size \in Requests, AllocFails(size) PROVE PoolInv'
  BY <1>1, <1>4 DEF AllocFails
<1>5. ASSUME NEW ptr \in DOMAIN live PROVE initialized = TRUE
  BY DEF PoolInv, TypeOK, ClientsOwnUsedBlocks
<1>6. ASSUME NEW ptr \in DOMAIN live, pphp_free(ptr) PROVE PoolInv'
  <2>1. initialized = TRUE /\ initialized' = TRUE /\ total' = total /\ Sentinel' = Sentinel
    BY <1>5, <1>6 DEF pphp_free, Sentinel
  <2>2. Owned(heap, Sentinel, live) /\ total \in Nat
    BY <2>1, OwnedFromInv
  <2>3. Owned(heap', Sentinel, live')
    BY <1>6, <2>2, ReturnOwned DEF pphp_free
  <2> QED
    BY <2>1, <2>2, <2>3, InvFromOwned
<1>7. ASSUME NEW ptr \in DOMAIN live, pphp_alloc_track(ptr) PROVE PoolInv'
  <2>1. /\ initialized = TRUE /\ initialized' = TRUE /\ total' = total
        /\ Sentinel' = Sentinel /\ live' = live
    BY <1>5, <1>7 DEF pphp_alloc_track, Sentinel
  <2>2. Owned(heap, Sentinel, live) /\ total \in Nat
    BY <2>1, OwnedFromInv
  <2>3. ptr - HeaderSize \in UsedBlocks(heap.hdr, Sentinel)
    BY <2>2, ReturnOwned
  <2>4. Owned(heap', Sentinel, live')
    BY <1>7, <2>1, <2>2, <2>3, TrackOwned DEF pphp_alloc_track
  <2> QED
    BY <2>1, <2>2, <2>4, InvFromOwned
<1>8. ASSUME NEW ptr \in DOMAIN live, NEW size \in Requests, ReallocInPlace(ptr, size)
      PROVE  PoolInv'
  <2>1. /\ initialized = TRUE /\ initialized' = TRUE /\ total' = total
        /\ Sentinel' = Sentinel /\ heap' = heap /\ live' = [live EXCEPT ![ptr] = size]
    BY <1>5, <1>8 DEF ReallocInPlace, Sentinel
  <2>2. Owned(heap, Sentinel, live) /\ total \in Nat /\ size \in Nat
    BY <2>1, OwnedFromInv, SizesAssumption
  <2>3. size <= heap.hdr[ptr - HeaderSize].size - HeaderSize
    BY <1>8 DEF ReallocInPlace, PayloadSize
  <2>4. Owned(heap', Sentinel, live')
    BY <2>1, <2>2, <2>3 DEF Owned
  <2> QED
    BY <2>1, <2>2, <2>4, InvFromOwned
<1>9. ASSUME NEW ptr \in DOMAIN live, NEW size \in Requests, pphp_realloc(ptr, size)
      PROVE  PoolInv'
  <2>1. initialized = TRUE /\ initialized' = TRUE /\ total' = total /\ Sentinel' = Sentinel
    BY <1>5, <1>9 DEF pphp_realloc, Sentinel
  <2>2. Owned(heap, Sentinel, live) /\ total \in Nat /\ size \in Nat
    BY <2>1, OwnedFromInv, SizesAssumption
  <2>3. PICK p \in find_free(heap, Needed(size)) :
          /\ heap' = ReturnBlock(SetTracked(
                         TakeBlock(heap, heap.bins[p[1]][p[2]], Needed(size)),
                         heap.bins[p[1]][p[2]],
                         heap.hdr[ptr - HeaderSize].tracked), ptr - HeaderSize)
          /\ live' = Forget(Given(live, heap.bins[p[1]][p[2]], size), ptr)
    BY <1>9 DEF pphp_realloc
  <2> DEFINE x == heap.bins[p[1]][p[2]]
             taken == TakeBlock(heap, x, Needed(size))
             mark == heap.hdr[ptr - HeaderSize].tracked
             given == Given(live, x, size)
             moved == SetTracked(taken, x, mark)
  <2>4. x \in UsedBlocks(taken.hdr, Sentinel) /\ Owned(taken, Sentinel, given)
    BY <2>2, <2>3, TakeOwned
  <2>5. mark \in BOOLEAN
    <3>1. ptr - HeaderSize \in DOMAIN heap.hdr
      BY <2>2, ReturnOwned DEF UsedBlocks
    <3> QED
      BY <2>2, <3>1 DEF Owned, GoodHeap, HdrType, Header
  <2>6. ptr \in DOMAIN given
    BY DEF Given
  <2>7. heap' = ReturnBlock(moved, ptr - HeaderSize) /\ live' = Forget(given, ptr)
    BY <2>3
  <2> HIDE DEF x, taken, mark, given
  <2>8. Owned(moved, Sentinel, given)
    BY <2>4, <2>5, TrackOwned
  <2> HIDE DEF moved
  <2>9. Owned(heap', Sentinel, live')
    BY <2>6, <2>7, <2>8, ReturnOwned
  <2> QED
    BY <2>1, <2>2, <2>9, InvFromOwned
<1>10. ASSUME NEW ptr \in DOMAIN live, NEW size \in Requests, ReallocFails(ptr, size)
       PROVE  PoolInv'
  BY <1>4, <1>10 DEF ReallocFails
<1> QED
  BY <1>1, <1>2, <1>3, <1>4, <1>6, <1>7, <1>8, <1>9, <1>10 DEF Next

\* Whatever clients ask of the pool and in whatever order, for pools, tables
\* and requests of any size, the invariant holds.
THEOREM PoolCorrect == Spec => []PoolInv
BY InitInv, NextInv, PTL DEF Spec

\* The pool never changes shape: the variables keep their types.
THEOREM PoolTyped == Spec => []TypeOK
<1>1. PoolInv => TypeOK
  BY DEF PoolInv
<1> QED
  BY <1>1, PoolCorrect, PTL

\* pphp_free() always finds the true neighbours of a block.
THEOREM PoolBoundaryTags == Spec => []BoundaryTags
<1>1. PoolInv => BoundaryTags
  BY DEF PoolInv
<1> QED
  BY <1>1, PoolCorrect, PTL

\* pphp_free() leaves no two adjacent free blocks behind.
THEOREM PoolCoalesced == Spec => []NoFreeNeighbours
<1>1. PoolInv => NoFreeNeighbours
  BY DEF PoolInv
<1> QED
  BY <1>1, PoolCorrect, PTL

\* A block is on the segregated lists iff it is free.
THEOREM PoolLists == Spec => []ListsMatchHeaders
<1>1. PoolInv => ListsMatchHeaders
  BY DEF PoolInv
<1> QED
  BY <1>1, PoolCorrect, PTL

\* No block is handed out twice or leaked by pphp_alloc(), pphp_realloc() or
\* pphp_free(), and each is as large as was asked.
THEOREM PoolOwnership == Spec => []ClientsOwnUsedBlocks
<1>1. PoolInv => ClientsOwnUsedBlocks
  BY DEF PoolInv
<1> QED
  BY <1>1, PoolCorrect, PTL

-----------------------------------------------------------------------------
(* No free memory is missed: mapping() is monotone, so the search from the *)
(* bin of the needed size upwards sees every block that is large enough.   *)

\* A subset of the thresholds counts for no more.
LEMMA CountMonotone ==
    ASSUME NEW n \in Nat, NEW T \in SUBSET (1 .. n), NEW S \in SUBSET T
    PROVE  Cardinality(S) <= Cardinality(T)
<1>1. IsFiniteSet(1 .. n)
  BY FS_Interval, SMT
<1>2. IsFiniteSet(T)
  BY <1>1, FS_Subset
<1> QED
  BY <1>2, FS_Subset

\* A larger size is never mapped to an earlier row, or column of a row.
LEMMA LevelsMonotone ==
    ASSUME NEW a \in Nat, NEW b \in Nat, a <= b, NEW fl \in Nat
    PROVE  /\ FirstLevel(a) <= FirstLevel(b)
           /\ SecondLevel(fl, a) <= SecondLevel(fl, b)
<1>1. FL_COUNT - 1 \in Nat /\ SL_COUNT - 1 \in Nat
  BY SizesAssumption
<1> DEFINE R(size) == {k \in 1 .. FL_COUNT - 1 : 2^k <= size}
           C(size) == {j \in 1 .. SL_COUNT - 1 : 2^fl + j * SecondStep(fl) <= size}
<1>2. R(a) \subseteq R(b)
  <2>1. ASSUME NEW k \in 1 .. FL_COUNT - 1, 2^k <= a PROVE 2^k <= b
    BY <2>1, <1>1, SMT
  <2> QED
    BY <2>1
<1>3. C(a) \subseteq C(b)
  <2>1. ASSUME NEW j \in 1 .. SL_COUNT - 1, 2^fl + j * SecondStep(fl) <= a
        PROVE  2^fl + j * SecondStep(fl) <= b
    BY <2>1, <1>1, SizesAssumption, SMT DEF SecondStep
  <2> QED
    BY <2>1
<1>4. R(b) \in SUBSET (1 .. FL_COUNT - 1) /\ C(b) \in SUBSET (1 .. SL_COUNT - 1)
  OBVIOUS
<1> HIDE DEF R, C
<1>5. Cardinality(R(a)) <= Cardinality(R(b)) /\ Cardinality(C(a)) <= Cardinality(C(b))
  BY <1>1, <1>2, <1>3, <1>4, CountMonotone
<1> QED
  BY <1>5 DEF FirstLevel, SecondLevel, R, C

\* A block is listed no earlier than where the search for a smaller size starts.
LEMMA MappingMonotone ==
    ASSUME NEW a \in Nat, NEW b \in Nat, a <= b
    PROVE  mapping(a) <= mapping(b)
<1> DEFINE f == FirstLevel(a)
           g == FirstLevel(b)
           s == SecondLevel(f, a)
           t == SecondLevel(g, b)
<1>1. /\ f \in 0 .. FL_COUNT - 1 /\ g \in 0 .. FL_COUNT - 1
      /\ s \in 0 .. SL_COUNT - 1 /\ t \in 0 .. SL_COUNT - 1
  BY LevelTypes
<1>2. f \in Nat /\ f <= g
  BY <1>1, LevelsMonotone, SizesAssumption
<1>3. f = g => s <= t
  BY <1>2, LevelsMonotone
<1>4. mapping(a) = f * SL_COUNT + s /\ mapping(b) = g * SL_COUNT + t
  BY DEF mapping
<1> HIDE DEF f, g, s, t
<1>5. CASE f = g
  BY <1>1, <1>3, <1>4, <1>5, SizesAssumption, SMT
<1>6. CASE f < g
  <2>1. (f + 1) * SL_COUNT <= g * SL_COUNT
    BY <1>1, <1>6, SizesAssumption, SMT
  <2>2. (f + 1) * SL_COUNT = f * SL_COUNT + SL_COUNT
    BY <1>1, SizesAssumption, SMT
  <2> DEFINE x == f * SL_COUNT
             y == g * SL_COUNT
  <2>3. x \in Int /\ y \in Int /\ x + SL_COUNT <= y
    BY <2>1, <2>2, <1>1, SizesAssumption, SMT
  <2> HIDE DEF x, y
  <2>4. x + s <= y + t
    BY <1>1, <2>3, SizesAssumption
  <2> QED
    BY <1>4, <2>4 DEF x, y
<1> QED
  BY <1>1, <1>2, <1>5, <1>6, SizesAssumption

\* Starting at the bin of the needed size skips no block that is large enough.
LEMMA NothingSkipped ==
    ASSUME NEW h, NEW end, GoodHeap(h, end), NEW needed \in Nat,
           NEW a \in FreeBlocks(h.hdr, end), h.hdr[a].size >= needed
    PROVE  Fitting(h, needed) # {}
<1> DEFINE b == mapping(h.hdr[a].size)
<1>1. h.hdr[a].size \in Nat
  BY DEF GoodHeap, HdrType, Header, FreeBlocks
<1>2. b \in Bins
  BY MappingType
<1>3. b >= mapping(needed)
  <2>1. mapping(needed) <= b
    BY <1>1, MappingMonotone
  <2>2. mapping(needed) \in Bins
    BY MappingType
  <2> QED
    BY <1>2, <2>1, <2>2 DEF Bins
<1>4. h.bins[b] \in Seq(Nat) /\ a \in Range(h.bins[b])
  BY <1>2 DEF GoodHeap, BinsType, Listed
<1>5. PICK k \in 1 .. Len(h.bins[b]) : h.bins[b][k] = a
  BY <1>4 DEF Range
<1> HIDE DEF b
<1>6. <<b, k>> \in {b} \X (1 .. Len(h.bins[b]))
  OBVIOUS
<1>7. <<b, k>> \in UNION {{c} \X (1 .. Len(h.bins[c])) : c \in Bins}
  BY <1>2, <1>6
<1> QED
  BY <1>3, <1>5, <1>7 DEF Fitting

\* find_free() misses nothing.
LEMMA FindsWhatFits == PoolInv => FindFreeComplete
<1> SUFFICES ASSUME PoolInv, initialized, NEW size \in Requests \ {0},
                    Fitting(heap, Needed(size)) = {}, NEW a \in Blocks, ~heap.hdr[a].used
             PROVE  heap.hdr[a].size < Needed(size)
  BY DEF FindFreeComplete
<1>1. Owned(heap, Sentinel, live)
  BY OwnedFromInv
<1>2. GoodHeap(heap, Sentinel)
  BY <1>1 DEF Owned
<1>3. a \in FreeBlocks(heap.hdr, Sentinel)
  BY <1>2 DEF Blocks, FreeBlocks, GoodHeap, Tiled
<1>4. size \in Nat
  BY SizesAssumption
<1>5. Needed(size) \in Nat
  BY <1>4, NeededSize
<1>6. heap.hdr[a].size \in Nat
  BY <1>2, <1>3 DEF GoodHeap, HdrType, Header, FreeBlocks
<1> QED
  BY <1>2, <1>3, <1>5, <1>6, NothingSkipped

\* pphp_alloc() returns NULL only when no free block is large enough.
THEOREM PoolFindsFree == Spec => []FindFreeComplete
BY FindsWhatFits, PoolCorrect, PTL

-----------------------------------------------------------------------------
(* The walks over the blocks: pphp_pool_check() and pphp_pool_get_stats(). *)

\* What a step of a walk is: the next block is a block, further on, and with
\* this one it makes up what is left.
LEMMA WalkStep ==
    ASSUME PoolInv, initialized, NEW a \in Blocks
    PROVE  /\ Sentinel \in Nat /\ a \in Nat /\ a <= Sentinel /\ {0, Sentinel} \subseteq Blocks
           /\ heap.hdr[a].used \in BOOLEAN /\ heap.hdr[a].size \in Nat /\ heap.hdr[a].prev \in Nat
           /\ heap.hdr[a].size <= Sentinel /\ heap.hdr[a].prev <= Sentinel
           /\ a = Sentinel <=> heap.hdr[a].size = 0
           /\ a # Sentinel =>
                /\ NextBlock(a) \in Blocks /\ NextBlock(a) > a
                /\ NextBlock(a) = a + heap.hdr[a].size
                /\ heap.hdr[a].size > HeaderSize
                /\ heap.hdr[NextBlock(a)].prev = heap.hdr[a].size
                /\ \A b \in Blocks : b >= a <=> b = a \/ b >= NextBlock(a)
<1> DEFINE H == heap.hdr
<1>1. HdrType(H, Sentinel) /\ Tiled(H, Sentinel) /\ Sentinel \in Nat
  BY OwnedFromInv DEF Owned, GoodHeap
<1>2. a \in Nat /\ a <= Sentinel /\ H[a] \in Header /\ \A b \in Blocks : b \in Nat
  BY <1>1 DEF HdrType, Blocks
<1>3. {0, Sentinel} \subseteq Blocks /\ H[Sentinel].size = 0
  BY <1>1 DEF Tiled, Blocks
<1>4. ASSUME a # Sentinel
      PROVE  /\ NextBlock(a) \in Blocks /\ NextBlock(a) > a /\ NextBlock(a) <= Sentinel
             /\ NextBlock(a) = a + H[a].size
             /\ H[a].size > HeaderSize /\ H[a].size # 0
             /\ H[NextBlock(a)].prev = H[a].size
             /\ \A b \in Blocks : b >= a <=> b = a \/ b >= NextBlock(a)
  <2>1. /\ H[a].size \in Nat /\ H[a].size > HeaderSize
        /\ a + H[a].size \in DOMAIN H
        /\ H[a + H[a].size].prev = H[a].size
        /\ \A b \in DOMAIN H \ {a} : b < a \/ b >= a + H[a].size
    BY <1>1, <1>4, TiledBlock DEF Blocks
  <2>2. a + H[a].size > a /\ H[a].size # 0
    BY <1>2, <2>1, MinimumBlock
  <2>3. a + H[a].size <= Sentinel
    BY <1>1, <2>1 DEF HdrType
  <2>4. ASSUME NEW b \in Blocks PROVE b >= a <=> b = a \/ b >= a + H[a].size
    BY <1>2, <2>1, <2>2 DEF Blocks
  <2> QED
    BY <2>1, <2>2, <2>3, <2>4 DEF NextBlock, Blocks
<1>5. H[a].size <= Sentinel
  <2>1. H[a].size \in Nat
    BY <1>2 DEF Header
  <2>2. CASE a = Sentinel
    BY <1>1, <1>3, <2>2
  <2>3. CASE a # Sentinel
    <3>1. a + H[a].size <= Sentinel
      BY <1>4, <2>3
    <3> QED
      BY <1>1, <1>2, <2>1, <3>1
  <2> QED
    BY <2>2, <2>3
<1>6. H[a].prev <= Sentinel
  <2>1. CASE a = 0
    BY <1>1, <2>1 DEF Tiled
  <2>2. CASE a # 0
    <3>1. a - H[a].prev \in Blocks /\ H[a].prev \in Nat
      BY <1>1, <1>2, <2>2 DEF Tiled, Blocks, Header
    <3>2. a - H[a].prev >= 0
      BY <1>2, <3>1
    <3> QED
      BY <1>1, <1>2, <3>1, <3>2
  <2> QED
    BY <2>1, <2>2
<1> QED
  BY <1>1, <1>2, <1>3, <1>4, <1>5, <1>6 DEF Header

\* Where the walk begins and ends.
LEMMA WalkEnds ==
    ASSUME PoolInv, initialized
    PROVE  /\ Sentinel \in Nat /\ total \in Nat /\ Sentinel = total + HeaderSize /\ HeaderSize = 8
           /\ Sentinel \in Blocks /\ 0 \in Blocks
           /\ Blocks \subseteq Nat /\ \A a \in Blocks : a <= Sentinel
<1>1. Sentinel \in Nat /\ total \in Nat /\ HdrType(heap.hdr, Sentinel) /\ Tiled(heap.hdr, Sentinel)
  BY OwnedFromInv DEF Owned, GoodHeap
<1> QED
  BY <1>1, MinimumBlock DEF HdrType, Tiled, Blocks, Sentinel

\* A set of numbers up to n that has one has a greatest one.
LEMMA Greatest ==
    ASSUME NEW n \in Nat, NEW S \in SUBSET (0 .. n), S # {}
    PROVE  \E i \in S : \A j \in S : j <= i
<1> DEFINE T == {m \in Nat : n - m \in S}
<1>1. \A i \in S : n - i \in T /\ i \in 0 .. n
  OBVIOUS
<1>2. PICK m \in T : \A k \in T : <<k, m>> \notin OpToRel(<, Nat)
  BY <1>1, NatLessThanWellFounded, WFMin, Zenon
<1>3. \A k \in T : ~(k < m)
  BY <1>2 DEF OpToRel
<1> HIDE DEF T
<1>4. n - m \in S /\ m \in Nat
  BY <1>2 DEF T
<1>5. \A j \in S : j <= n - m
  BY <1>1, <1>3, <1>4
<1> QED
  BY <1>4, <1>5

\* What holds of the sentinel, and of a block when it holds of the next one,
\* holds of every block.
LEMMA WalkBack ==
    ASSUME PoolInv, initialized, NEW P \in SUBSET Blocks, Sentinel \in P,
           \A a \in Blocks \ {Sentinel} : NextBlock(a) \in P => a \in P
    PROVE  P = Blocks
<1> SUFFICES ASSUME Blocks \ P # {} PROVE FALSE
  OBVIOUS
<1>1. Blocks \ P \in SUBSET (0 .. Sentinel)
  BY WalkStep
<1>2. Sentinel \in Nat
  BY WalkStep
<1>3. PICK a \in Blocks \ P : \A b \in Blocks \ P : b <= a
  BY <1>1, <1>2, Greatest
<1>4. a \in Nat /\ NextBlock(a) \in Blocks /\ NextBlock(a) > a /\ NextBlock(a) \in Nat
  <2>1. a # Sentinel
    BY <1>3
  <2>2. NextBlock(a) \in Blocks /\ NextBlock(a) > a /\ a \in Nat
    BY <2>1, WalkStep
  <2> QED
    BY <2>2, WalkStep
<1> QED
  BY <1>3, <1>4

\* pphp_pool_check() accepts the pool.
LEMMA CheckPasses ==
    ASSUME PoolInv, initialized
    PROVE  pphp_pool_check
<1> DEFINE Rest(f, a) == \/ heap.hdr[a].size = 0 /\ heap.hdr[a].used
                         \/ /\ heap.hdr[a].size % ALIGNMENT = 0
                            /\ heap.hdr[a].size >= minimum_block_size
                            /\ heap.hdr[NextBlock(a)].prev = heap.hdr[a].size
                            /\ f[NextBlock(a)]
           Solves(f) == f = [a \in Blocks |-> Rest(f, a)]
           passed == [a \in Blocks |-> TRUE]
           F == CHOOSE f : Solves(f)
<1>1. ASSUME NEW f, NEW a \in Blocks, a # Sentinel => f[NextBlock(a)] = TRUE
      PROVE  Rest(f, a)
  <2>1. Tiled(heap.hdr, Sentinel)
    BY DEF PoolInv, BoundaryTags
  <2> QED
    BY <1>1, <2>1, WalkStep DEF Tiled, Blocks
<1>2. \A a \in Blocks : a # Sentinel => NextBlock(a) \in Blocks
  BY WalkStep
<1>3. Sentinel \in Blocks /\ 0 \in Blocks /\ heap.hdr[0].prev = 0
  <2>1. Tiled(heap.hdr, Sentinel)
    BY DEF PoolInv, BoundaryTags
  <2> QED
    BY <2>1 DEF Tiled, Blocks
<1> HIDE DEF Rest
<1>4. Solves(passed)
  <2>1. \A a \in Blocks : passed[a] = TRUE
    OBVIOUS
  <2> DEFINE g == passed
  <2> HIDE DEF g
  <2>2. ASSUME NEW a \in Blocks PROVE Rest(g, a) = TRUE
    <3>1. a # Sentinel => g[NextBlock(a)] = TRUE
      BY <1>2, <2>1 DEF g
    <3>2. Rest(g, a)
      BY <1>1, <3>1
    <3> QED
      BY <3>2 DEF Rest
  <2>3. g = [a \in Blocks |-> Rest(g, a)]
    BY <2>2 DEF g
  <2> QED
    BY <2>3 DEF g
<1>5. Solves(F)
  BY <1>4
<1> DEFINE P == {a \in Blocks : F[a] = TRUE}
<1>6. P = Blocks
  <2> HIDE DEF F
  <2>1. \A a \in Blocks : (a # Sentinel => F[NextBlock(a)] = TRUE) => F[a] = TRUE
    BY <1>1, <1>5 DEF Rest
  <2>2. Sentinel \in P /\ \A a \in Blocks \ {Sentinel} : NextBlock(a) \in P => a \in P
    BY <1>3, <2>1
  <2> QED
    BY <2>2, WalkBack
<1>7. F[0] = TRUE
  BY <1>3, <1>6
<1>8. pphp_pool_check = (initialized /\ heap.hdr[0].prev = 0 /\ F[0])
  BY DEF pphp_pool_check, Rest
<1> QED
  BY <1>3, <1>7, <1>8

\* One turn of the loop of pphp_pool_get_stats(), in front of the rest.
StatsBody(f, a) ==
    LET rest    == f[NextBlock(a)]
        payload == StatsPayload(a)
    IN  IF heap.hdr[a].size = 0
        THEN [used |-> 0, free |-> 0, fragments |-> 0, largest_free |-> 0, blocks |-> 0]
        ELSE IF heap.hdr[a].used
        THEN [rest EXCEPT !.used = @ + payload, !.blocks = @ + 1]
        ELSE [rest EXCEPT !.free = @ + payload, !.fragments = @ + 1,
                          !.blocks = @ + 1,
                          !.largest_free = IF payload > @ THEN payload ELSE @]

\* The walk defines a function on the blocks.
LEMMA StatsDefined ==
    ASSUME PoolInv, initialized
    PROVE  \E f : f = [a \in Blocks |-> StatsBody(f, a)]
<1> DEFINE From(a) == {b \in Blocks : b >= a}
           P == {a \in Blocks : \E f : f = [b \in From(a) |-> StatsBody(f, b)]}
<1>1. /\ Sentinel \in Nat /\ Blocks \subseteq Nat /\ Sentinel \in Blocks /\ 0 \in Blocks
      /\ \A a \in Blocks : a <= Sentinel
  BY WalkEnds
<1>2. Sentinel \in P
  <2> DEFINE x == StatsBody(<<>>, Sentinel)
             f == [b \in From(Sentinel) |-> x]
  <2>1. \A b \in From(Sentinel) : b = Sentinel
    BY <1>1
  <2>2. StatsBody(f, Sentinel) = x
    BY <1>1, WalkStep DEF StatsBody
  <2> HIDE DEF x, From
  <2>3. f = [b \in From(Sentinel) |-> StatsBody(f, b)]
    BY <2>1, <2>2
  <2> QED
    BY <1>1, <2>3
<1>3. ASSUME NEW a \in Blocks \ {Sentinel}, NextBlock(a) \in P PROVE a \in P
  <2> DEFINE n == NextBlock(a)
  <2>1. PICK f : f = [b \in From(n) |-> StatsBody(f, b)]
    BY <1>3
  <2> DEFINE x == StatsBody(f, a)
             g == [b \in From(a) |-> IF b = a THEN x ELSE f[b]]
  <2>2. n \in Blocks /\ n > a /\ \A b \in Blocks : b >= a <=> b = a \/ b >= n
    BY <1>3, WalkStep
  <2> HIDE DEF n
  <2>3. \A b \in From(a) : b = a \/ (b # a /\ b \in From(n))
    BY <1>1, <2>2
  <2>4. \A b \in From(n) : b # a /\ b \in From(a)
    BY <1>1, <2>2
  <2>5. \A b \in From(a) : b # Sentinel => NextBlock(b) \in From(n)
    <3> SUFFICES ASSUME NEW b \in From(a), b # Sentinel PROVE NextBlock(b) \in From(n)
      OBVIOUS
    <3>1. NextBlock(b) \in Blocks /\ NextBlock(b) > b
      BY WalkStep
    <3>2. CASE b = a
      <4>1. NextBlock(b) = n /\ n \in Nat
        BY <1>1, <2>2, <3>2 DEF n
      <4> QED
        BY <2>2, <4>1
    <3>3. CASE b # a
      <4>1. b \in Nat /\ n \in Nat /\ NextBlock(b) \in Nat /\ b >= n
        BY <1>1, <2>2, <2>3, <3>1, <3>3
      <4>2. NextBlock(b) >= n
        BY <4>1, <3>1
      <4> QED
        BY <3>1, <4>2
    <3> QED
      BY <3>2, <3>3
  <2>6. \A b \in From(n) : g[b] = f[b]
    BY <2>4
  <2>7. g[a] = x
    BY <1>1
  <2> HIDE DEF g, x, n
  <2>8. \A b \in From(a) : StatsBody(g, b) = StatsBody(f, b)
    <3> SUFFICES ASSUME NEW b \in From(a) PROVE StatsBody(g, b) = StatsBody(f, b)
      OBVIOUS
    <3>1. CASE b = Sentinel
      BY <3>1, WalkStep DEF StatsBody
    <3>2. CASE b # Sentinel
      <4>1. g[NextBlock(b)] = f[NextBlock(b)]
        BY <3>2, <2>5, <2>6
      <4> QED
        BY <4>1 DEF StatsBody
    <3> QED
      BY <3>1, <3>2
  <2>9. \A b \in From(a) : g[b] = StatsBody(g, b)
    <3> SUFFICES ASSUME NEW b \in From(a) PROVE g[b] = StatsBody(g, b)
      OBVIOUS
    <3>1. CASE b = a
      BY <3>1, <2>7, <2>8 DEF x
    <3>2. CASE b # a
      <4> HIDE DEF From
      <4>1. b \in From(n) /\ f[b] = StatsBody(f, b)
        BY <3>2, <2>1, <2>3
      <4> QED
        BY <4>1, <2>6, <2>8
    <3> QED
      BY <3>1, <3>2
  <2> HIDE DEF From
  <2>10. g = [b \in From(a) |-> StatsBody(g, b)]
    BY <2>9 DEF g
  <2> QED
    BY <2>10
<1> HIDE DEF P
<1>4. 0 \in P
  <2>1. P \subseteq Blocks
    BY DEF P
  <2> QED
    BY <1>1, <1>2, <1>3, <2>1, WalkBack
<1>5. From(0) = Blocks
  <2>1. \A b \in Blocks : b >= 0
    BY <1>1
  <2> QED
    BY <2>1
<1> QED
  BY <1>4, <1>5 DEF P

\* The value of pphp_pool_get_stats() is where the walk arrives.
LEMMA StatsAre ==
    ASSUME PoolInv, initialized
    PROVE  \E f : /\ \A a \in Blocks : f[a] = StatsBody(f, a)
                  /\ pphp_pool_get_stats = f[0]
<1> DEFINE Solves(f) == f = [a \in Blocks |-> StatsBody(f, a)]
           F == CHOOSE f : Solves(f)
<1>1. Solves(F)
  BY StatsDefined
<1>2. pphp_pool_get_stats = F[0]
  BY DEF pphp_pool_get_stats, StatsBody
<1> HIDE DEF F
<1>3. \A a \in Blocks : F[a] = StatsBody(F, a)
  BY <1>1
<1> QED
  BY <1>2, <1>3

\* Every byte is accounted for, and an empty pool is one fragment.
LEMMA StatsHold == PoolInv => StatsBalance
<1> SUFFICES ASSUME PoolInv, initialized
             PROVE  LET s == pphp_pool_get_stats
                    IN  /\ pphp_pool_check
                        /\ s.used + s.free + HeaderSize * (s.blocks - 1) = total
                        /\ live = <<>> => s.used = 0 /\ s.fragments = 1 /\ s.largest_free = total
  BY DEF StatsBalance
<1> DEFINE None == [used |-> 0, free |-> 0, fragments |-> 0, largest_free |-> 0, blocks |-> 0]
<1>1. PICK f : (\A a \in Blocks : f[a] = StatsBody(f, a)) /\ pphp_pool_get_stats = f[0]
  BY StatsAre
<1>2. Sentinel \in Nat /\ Sentinel \in Blocks /\ 0 \in Blocks /\ HeaderSize = 8 /\ total \in Nat
      /\ Sentinel = total + HeaderSize
  BY WalkEnds
<1> DEFINE Stats == [used : Nat, free : Nat, fragments : Nat, largest_free : Nat, blocks : Nat]
           P == {a \in Blocks : /\ f[a] \in Stats
                                /\ f[a].used + f[a].free + HeaderSize * f[a].blocks = Sentinel - a}
<1>3. f[Sentinel] = None
  BY <1>1, <1>2, WalkStep DEF StatsBody
<1>4. Sentinel \in P
  <2>1. None \in Stats
    OBVIOUS
  <2> QED
    BY <1>2, <1>3, <2>1
<1>5. ASSUME NEW a \in Blocks \ {Sentinel}, NextBlock(a) \in P PROVE a \in P
  <2>1. /\ a \in Nat /\ heap.hdr[a].size \in Nat /\ heap.hdr[a].size > HeaderSize
        /\ NextBlock(a) = a + heap.hdr[a].size /\ heap.hdr[a].size # 0
    BY <1>2, <1>5, WalkStep
  <2> DEFINE rest == f[NextBlock(a)]
  <2> DEFINE payload == StatsPayload(a)
             most == IF payload > rest.largest_free THEN payload ELSE rest.largest_free
  <2>2. rest \in Stats /\ rest.used + rest.free + 8 * rest.blocks = Sentinel - (a + heap.hdr[a].size)
    BY <1>2, <1>5, <2>1
  <2>3. payload \in Nat /\ payload = heap.hdr[a].size - 8
    BY <1>2, <2>1 DEF StatsPayload
  <2>4. f[a] = StatsBody(f, a)
    BY <1>1
  <2>5. CASE heap.hdr[a].used
    <3>1. f[a] = [rest EXCEPT !.used = @ + payload, !.blocks = @ + 1]
      BY <2>1, <2>4, <2>5 DEF StatsBody
    <3> HIDE DEF rest, payload
    <3>2. f[a] \in Stats
      <4>1. rest.used + payload \in Nat /\ rest.blocks + 1 \in Nat
        BY <2>2, <2>3
      <4>2. f[a] = [used |-> rest.used + payload, free |-> rest.free, fragments |-> rest.fragments,
                    largest_free |-> rest.largest_free, blocks |-> rest.blocks + 1]
        BY <2>2, <3>1
      <4> QED
        BY <2>2, <4>1, <4>2
    <3>3. /\ f[a].used = rest.used + payload /\ f[a].free = rest.free
          /\ f[a].blocks = rest.blocks + 1
      BY <2>2, <3>1
    <3>4. rest.used \in Nat /\ rest.free \in Nat /\ rest.blocks \in Nat
      BY <2>2
    <3>5. f[a].used + f[a].free + HeaderSize * f[a].blocks = Sentinel - a
      BY <1>2, <2>1, <2>2, <2>3, <3>3, <3>4
    <3> QED
      BY <3>2, <3>5
  <2>6. CASE ~heap.hdr[a].used
    <3>1. f[a] = [rest EXCEPT !.free = @ + payload, !.fragments = @ + 1, !.blocks = @ + 1,
                              !.largest_free = IF payload > @ THEN payload ELSE @]
      BY <2>1, <2>4, <2>6 DEF StatsBody
    <3> HIDE DEF rest, payload
    <3>2. f[a] \in Stats
      <4>1. rest.free + payload \in Nat /\ rest.blocks + 1 \in Nat /\ rest.fragments + 1 \in Nat
            /\ most \in Nat
        BY <2>2, <2>3
      <4> HIDE DEF most
      <4>2. f[a] = [used |-> rest.used, free |-> rest.free + payload,
                    fragments |-> rest.fragments + 1, largest_free |-> most,
                    blocks |-> rest.blocks + 1]
        BY <2>2, <3>1 DEF most
      <4> QED
        BY <2>2, <4>1, <4>2
    <3>3. /\ f[a].used = rest.used /\ f[a].free = rest.free + payload
          /\ f[a].blocks = rest.blocks + 1
      BY <2>2, <3>1
    <3>4. rest.used \in Nat /\ rest.free \in Nat /\ rest.blocks \in Nat
      BY <2>2
    <3>5. f[a].used + f[a].free + HeaderSize * f[a].blocks = Sentinel - a
      BY <1>2, <2>1, <2>2, <2>3, <3>3, <3>4
    <3> QED
      BY <3>2, <3>5
  <2> QED
    BY <2>5, <2>6
<1>6. 0 \in P
  <2> HIDE DEF P
  <2>1. P \subseteq Blocks
    BY DEF P
  <2> QED
    BY <1>2, <1>4, <1>5, <2>1, WalkBack
<1>7. f[0].used + f[0].free + HeaderSize * (f[0].blocks - 1) = total
  <2>1. f[0].used \in Nat /\ f[0].free \in Nat /\ f[0].blocks \in Nat
    BY <1>6
  <2>2. f[0].used + f[0].free + HeaderSize * f[0].blocks = Sentinel - 0
    BY <1>6
  <2> QED
    BY <1>2, <2>1, <2>2
<1>8. ASSUME live = <<>> PROVE f[0].used = 0 /\ f[0].fragments = 1 /\ f[0].largest_free = total
  <2>1. \A a \in Blocks \ {Sentinel} : ~heap.hdr[a].used
    BY <1>8 DEF PoolInv, ClientsOwnUsedBlocks, UsedBlocks, Blocks
  <2>2. 0 # Sentinel
    BY <1>2
  <2>3. NextBlock(0) = Sentinel
    BY <2>1, <2>2, <1>2, WalkStep DEF PoolInv, NoFreeNeighbours, Coalesced, Blocks, NextBlock
  <2>4. heap.hdr[0].size = Sentinel
    BY <1>2, <2>2, <2>3, WalkStep
  <2>5. f[0] = [used |-> 0, free |-> 0 + StatsPayload(0), fragments |-> 0 + 1,
                largest_free |-> IF StatsPayload(0) > 0 THEN StatsPayload(0) ELSE 0, blocks |-> 0 + 1]
    <3>1. ~heap.hdr[0].used /\ heap.hdr[0].size # 0
      BY <1>2, <2>1, <2>2, <2>4
    <3>2. f[0] = StatsBody(f, 0) /\ f[NextBlock(0)] = None
      BY <1>1, <1>2, <1>3, <2>3
    <3>3. f[0] = [None EXCEPT !.free = @ + StatsPayload(0), !.fragments = @ + 1, !.blocks = @ + 1,
                              !.largest_free = IF StatsPayload(0) > @ THEN StatsPayload(0) ELSE @]
      BY <3>1, <3>2 DEF StatsBody
    <3> QED
      BY <3>3
  <2>6. StatsPayload(0) = total
    BY <1>2, <2>4 DEF StatsPayload
  <2> QED
    BY <1>2, <2>5, <2>6
<1> QED
  BY <1>1, <1>7, <1>8, CheckPasses

\* pphp_pool_check() accepts every reachable pool and pphp_pool_get_stats()
\* accounts for every byte of it.
THEOREM PoolBalances == Spec => []StatsBalance
BY StatsHold, PoolCorrect, PTL

-----------------------------------------------------------------------------
(* The clients: the pool implements RegionStore.                           *)

\* Block boundaries are aligned, so payloads are.  BoundaryTags alone implies
\* it (the row starts at 0 and sizes are aligned), but only by induction along
\* the row; kept as an invariant of its own it needs none.
Aligned(h) == \A a \in DOMAIN h.hdr : a \in Nat /\ a % ALIGNMENT = 0

\* Taking a block makes at most one new boundary, behind the bytes taken.
LEMMA TakeAligned ==
    ASSUME NEW h, Aligned(h), NEW x \in DOMAIN h.hdr, NEW needed \in Nat,
           needed % ALIGNMENT = 0
    PROVE  Aligned(TakeBlock(h, x, needed))
<1> DEFINE g == TakeBlock(h, x, needed)
<1>1. DOMAIN g.hdr \subseteq DOMAIN h.hdr \cup {x + needed}
  BY DEF TakeBlock, insert_free, UseFront, UseWhole
<1>2. x + needed \in Nat /\ (x + needed) % ALIGNMENT = 0
  BY SMT DEF Aligned, ALIGNMENT
<1> HIDE DEF g
<1>3. Aligned(g)
  BY <1>1, <1>2 DEF Aligned
<1> QED
  BY <1>3 DEF g

\* Returning one makes none.
LEMMA ReturnAligned ==
    ASSUME NEW h, Aligned(h), NEW x
    PROVE  Aligned(ReturnBlock(h, x))
<1> DEFINE f == FreeForward(h, x)
           g == FreeBackward(f, x)
<1>1. DOMAIN f.hdr \subseteq DOMAIN h.hdr
  <2>1. CASE h.hdr[x + h.hdr[x].size].size # 0 /\ ~h.hdr[x + h.hdr[x].size].used
    BY <2>1 DEF FreeForward, Merge, MarkFree
  <2>2. CASE ~(h.hdr[x + h.hdr[x].size].size # 0 /\ ~h.hdr[x + h.hdr[x].size].used)
    BY <2>2 DEF FreeForward, Merge, MarkFree
  <2> QED
    BY <2>1, <2>2
<1> HIDE DEF f
<1>2. DOMAIN g.hdr \subseteq DOMAIN f.hdr
  BY DEF FreeBackward, Merge, insert_free
<1> HIDE DEF g
<1>3. Aligned(g)
  BY <1>1, <1>2 DEF Aligned
<1> QED
  BY <1>3 DEF ReturnBlock, f, g

LEMMA TrackAligned ==
    ASSUME NEW h, Aligned(h), NEW x, NEW mark
    PROVE  Aligned(SetTracked(h, x, mark))
BY DEF SetTracked, Aligned

\* A fresh pool has two boundaries.
LEMMA FreshAligned ==
    ASSUME NEW available \in Nat, available % ALIGNMENT = 0, available >= HeaderSize
    PROVE  Aligned(FreshHeap(available))
<1>1. DOMAIN FreshHeap(available).hdr = {0, available - HeaderSize}
  BY DEF FreshHeap, insert_free
<1>2. available - HeaderSize \in Nat /\ (available - HeaderSize) % ALIGNMENT = 0
  BY MinimumBlock, SMT DEF ALIGNMENT
<1>3. 0 \in Nat /\ 0 % ALIGNMENT = 0
  BY SMT DEF ALIGNMENT
<1> QED
  BY <1>1, <1>2, <1>3 DEF Aligned

\* What the clients of a good heap hold are aligned regions before the
\* sentinel, and no two of them share a byte.
LEMMA OwnedRegions ==
    ASSUME NEW h, NEW end, NEW f, Owned(h, end, f), Aligned(h), NEW p \in DOMAIN f
    PROVE  /\ p \in Nat /\ p % ALIGNMENT = 0 /\ f[p] \in Nat /\ p + f[p] <= end
           /\ \A q \in DOMAIN f \ {p} :
                q \in Nat /\ f[q] \in Nat /\ (q + f[q] <= p \/ p + f[p] <= q)
<1> DEFINE U == UsedBlocks(h.hdr, end)
<1>1. /\ end \in Nat /\ HdrType(h.hdr, end) /\ Tiled(h.hdr, end)
      /\ f \in [DOMAIN f -> Nat]
      /\ DOMAIN f = {a + HeaderSize : a \in U}
      /\ \A q \in DOMAIN f : f[q] <= h.hdr[q - HeaderSize].size - HeaderSize
  BY DEF Owned, GoodHeap
<1>2. HeaderSize = 8
  BY MinimumBlock
<1>3. ASSUME NEW q \in DOMAIN f
      PROVE  /\ q - HeaderSize \in U /\ q - HeaderSize \in Nat /\ q \in Nat
             /\ h.hdr[q - HeaderSize].size \in Nat /\ f[q] \in Nat
             /\ q + f[q] <= (q - HeaderSize) + h.hdr[q - HeaderSize].size
             /\ (q - HeaderSize) + h.hdr[q - HeaderSize].size <= end
             /\ q % ALIGNMENT = 0
  <2>1. PICK a \in U : q = a + HeaderSize
    BY <1>1
  <2>2. a \in DOMAIN h.hdr /\ a # end /\ a \in Nat /\ a < end
    <3>1. a \in DOMAIN h.hdr /\ a # end
      BY DEF UsedBlocks
    <3>2. DOMAIN h.hdr \subseteq 0 .. end
      BY <1>1 DEF HdrType
    <3> QED
      BY <1>1, <3>1, <3>2
  <2>3. q - HeaderSize = a /\ q \in Nat
    BY <1>2, <2>1, <2>2
  <2>4. h.hdr[a].size \in Nat
    BY <1>1, <2>2 DEF HdrType, Header
  <2>5. a + h.hdr[a].size <= end
    BY <1>1, <2>2 DEF Tiled
  <2>6. f[q] \in Nat /\ f[q] <= h.hdr[a].size - HeaderSize
    BY <1>1, <2>3
  <2>7. a % ALIGNMENT = 0
    BY <2>2 DEF Aligned
  <2>8. q % ALIGNMENT = 0
    BY <1>2, <2>1, <2>2, <2>7, SMT DEF ALIGNMENT
  <2> QED
    BY <1>2, <2>1, <2>2, <2>3, <2>4, <2>5, <2>6, <2>8
<1>4. \A a, b \in U : a < b => a + h.hdr[a].size <= b
  BY <1>1 DEF Tiled, UsedBlocks
<1> HIDE DEF U
<1>5. ASSUME NEW q \in DOMAIN f, q # p
      PROVE  q + f[q] <= p \/ p + f[p] <= q
  <2> DEFINE a == p - HeaderSize
             b == q - HeaderSize
             m == h.hdr[a].size
             n == h.hdr[b].size
  <2>1. a \in U /\ a \in Nat /\ p \in Nat /\ m \in Nat /\ f[p] \in Nat /\ p + f[p] <= a + m
    BY <1>3
  <2>2. b \in U /\ b \in Nat /\ q \in Nat /\ n \in Nat /\ f[q] \in Nat /\ q + f[q] <= b + n
    BY <1>3
  <2>3. (a < b => a + m <= b) /\ (b < a => b + n <= a)
    BY <1>4, <2>1, <2>2
  <2>4. p = a + 8 /\ q = b + 8
    BY <1>2, <2>1, <2>2
  <2> HIDE DEF a, b, m, n
  <2> QED
    BY <1>5, <2>1, <2>2, <2>3, <2>4
<1>6. p + f[p] <= end
  BY <1>1, <1>2, <1>3
<1> QED
  BY <1>3, <1>5, <1>6

\* The invariant of the refinement.
StoreInv == PoolInv /\ Aligned(heap)

\* Every step keeps block boundaries aligned.
LEMMA StoreInvStep == StoreInv /\ [Next]_vars => StoreInv'
<1> SUFFICES ASSUME PoolInv, Aligned(heap), [Next]_vars PROVE Aligned(heap)'
  BY NextInv DEF StoreInv
<1>1. CASE UNCHANGED heap
  BY <1>1 DEF Aligned
<1>2. ASSUME NEW size \in BufferSizes, NEW skew \in Skews, pphp_pool_init(size, skew)
      PROVE  Aligned(heap)'
  <2> DEFINE skipped == align_up(skew) - skew
             available == align_down(size - skipped)
  <2>1. size \in Nat /\ skew \in Nat
    BY SizesAssumption DEF ALIGNMENT
  <2>2. skipped \in Nat
    <3>1. align_up(skew) \in Nat /\ align_up(skew) >= skew
      BY <2>1, AlignUp
    <3> QED
      BY <2>1, <3>1
  <2> HIDE DEF skipped
  <2>3. CASE size > skipped + minimum_block_size + HeaderSize
    <3>1. heap' = FreshHeap(available)
      BY <1>2, <2>3 DEF pphp_pool_init, skipped
    <3>2. /\ size - skipped \in Nat /\ minimum_block_size + HeaderSize \in Nat
          /\ (minimum_block_size + HeaderSize) % ALIGNMENT = 0
          /\ size - skipped > minimum_block_size + HeaderSize
      BY <2>1, <2>2, <2>3, MinimumBlock, SMT DEF ALIGNMENT
    <3>3. /\ available \in Nat /\ available % ALIGNMENT = 0
          /\ available >= minimum_block_size + HeaderSize
      BY <3>2, AlignDown
    <3> HIDE DEF available
    <3>4. Aligned(FreshHeap(available))
      BY <3>3, MinimumBlock, FreshAligned
    <3> QED
      BY <3>1, <3>4 DEF Aligned
  <2>4. CASE ~(size > skipped + minimum_block_size + HeaderSize)
    <3>1. heap' = EmptyHeap
      <4>1. (size > skipped + minimum_block_size + HeaderSize) = FALSE
        BY <2>1, <2>2, <2>4, MinimumBlock
      <4> QED
        BY <1>2, <4>1, Zenon DEF pphp_pool_init, skipped
    <3> QED
      BY <3>1 DEF EmptyHeap, Aligned
  <2> QED
    BY <2>3, <2>4
<1>3. ASSUME NEW size \in Requests, initialized, NEW p \in find_free(heap, Needed(size)),
             NEW x, x = heap.bins[p[1]][p[2]]
      PROVE  Aligned(TakeBlock(heap, x, Needed(size)))
  <2>1. Owned(heap, Sentinel, live) /\ size \in Nat
    BY <1>3, OwnedFromInv, SizesAssumption
  <2>2. x \in FreeBlocks(heap.hdr, Sentinel)
    BY <1>3, <2>1, FoundIsFree DEF Owned
  <2>3. Needed(size) \in Nat /\ Needed(size) % ALIGNMENT = 0
    BY <2>1, NeededSize
  <2>4. x \in DOMAIN heap.hdr
    BY <2>2 DEF FreeBlocks
  <2> QED
    BY <2>3, <2>4, TakeAligned
<1>4. ASSUME NEW size \in Requests, pphp_alloc(size) PROVE Aligned(heap)'
  <2>1. initialized
    BY <1>4 DEF pphp_alloc, AllocRefused
  <2>2. PICK p \in find_free(heap, Needed(size)) :
          heap' = TakeBlock(heap, heap.bins[p[1]][p[2]], Needed(size))
    BY <1>4 DEF pphp_alloc
  <2>3. Aligned(TakeBlock(heap, heap.bins[p[1]][p[2]], Needed(size)))
    BY <1>3, <2>1
  <2> QED
    BY <2>2, <2>3 DEF Aligned
<1>5. ASSUME NEW ptr \in DOMAIN live, pphp_free(ptr) PROVE Aligned(heap)'
  BY <1>5, ReturnAligned DEF pphp_free, Aligned
<1>6. ASSUME NEW ptr \in DOMAIN live, pphp_alloc_track(ptr) PROVE Aligned(heap)'
  BY <1>6, TrackAligned DEF pphp_alloc_track, Aligned
<1>7. ASSUME NEW ptr \in DOMAIN live, NEW size \in Requests, pphp_realloc(ptr, size)
      PROVE  Aligned(heap)'
  <2>1. initialized
    BY <1>7 DEF pphp_realloc, AllocRefused
  <2>2. PICK p \in find_free(heap, Needed(size)) :
          heap' = ReturnBlock(SetTracked(
                         TakeBlock(heap, heap.bins[p[1]][p[2]], Needed(size)),
                         heap.bins[p[1]][p[2]],
                         heap.hdr[ptr - HeaderSize].tracked), ptr - HeaderSize)
    BY <1>7 DEF pphp_realloc
  <2>3. Aligned(TakeBlock(heap, heap.bins[p[1]][p[2]], Needed(size)))
    BY <1>3, <2>1
  <2>4. Aligned(heap')
    BY <2>2, <2>3, TrackAligned, ReturnAligned
  <2> QED
    BY <2>4 DEF Aligned
<1>8. ASSUME NEW ptr \in DOMAIN live, NEW size \in Requests,
             ReallocInPlace(ptr, size) \/ ReallocFails(ptr, size)
      PROVE  UNCHANGED heap
  BY <1>8 DEF ReallocInPlace, ReallocFails, AllocFails, vars
<1>9. ASSUME NEW size \in Requests, AllocFails(size) PROVE UNCHANGED heap
  BY <1>9 DEF AllocFails, vars
<1>10. UNCHANGED vars => UNCHANGED heap
  BY DEF vars
<1> QED
  BY <1>1, <1>2, <1>4, <1>5, <1>6, <1>7, <1>8, <1>9, <1>10 DEF Next
\* A client that gets a region of its own: Grantable in the regions f.
LEMMA GrantsApart ==
    ASSUME NEW h, NEW f, NEW p, NEW size \in Nat \ {0}, initialized, Aligned(h),
           p \notin DOMAIN f,
           Owned(h, Sentinel, [q \in DOMAIN f \cup {p} |-> IF q = p THEN size ELSE f[q]])
    PROVE  Store!Grantable(f, p, size)
<1> DEFINE e == [q \in DOMAIN f \cup {p} |-> IF q = p THEN size ELSE f[q]]
<1>1. p \in DOMAIN e /\ e[p] = size /\ \A q \in DOMAIN f : q \in DOMAIN e \ {p} /\ e[q] = f[q]
  OBVIOUS
<1> HIDE DEF e
<1>2. Owned(h, Sentinel, e)
  BY DEF e
<1>3. /\ p \in Nat /\ p % ALIGNMENT = 0 /\ p + e[p] <= Sentinel
      /\ \A q \in DOMAIN e \ {p} : q + e[q] <= p \/ p + e[p] <= q
  BY <1>1, <1>2, OwnedRegions
<1> QED
  BY <1>1, <1>3 DEF Store!Grantable, Store!Apart

\* pphp_pool_init() opens a store.
LEMMA InitOpens ==
    ASSUME StoreInv', NEW size \in BufferSizes, NEW skew \in Skews, pphp_pool_init(size, skew)
    PROVE  Store!StoreNext
<1>1. live' = <<>>
  BY DEF pphp_pool_init
<1>2. (IF initialized THEN Sentinel ELSE 0)' \in Nat
  BY MinimumBlock DEF StoreInv, PoolInv, TypeOK, Sentinel
<1> QED
  BY <1>1, <1>2 DEF Store!StoreNext, Store!Open

\* The regions of clients change as the store's do.
LEMMA StoreStep ==
    ASSUME StoreInv, StoreInv', [Next]_vars
    PROVE  [Store!StoreNext]_(Store!storeVars)
<1> DEFINE cap == IF initialized THEN Sentinel ELSE 0
<1>1. CASE UNCHANGED <<initialized, total, live>>
  BY <1>1 DEF Store!storeVars, Sentinel
<1>2. ASSUME NEW size \in BufferSizes, NEW skew \in Skews, pphp_pool_init(size, skew)
      PROVE  Store!StoreNext
  BY <1>2, InitOpens
<1>3. ASSUME NEW size \in Requests, pphp_alloc(size) PROVE Store!StoreNext
  <2>1. initialized /\ initialized' /\ Sentinel' = Sentinel /\ cap' = cap
    BY <1>3 DEF pphp_alloc, AllocRefused, Sentinel
  <2>2. Owned(heap, Sentinel, live) /\ size \in Nat \ {0}
    BY <1>3, <2>1, OwnedFromInv, SizesAssumption DEF StoreInv, pphp_alloc, AllocRefused
  <2>3. PICK p \in find_free(heap, Needed(size)) :
          /\ heap' = TakeBlock(heap, heap.bins[p[1]][p[2]], Needed(size))
          /\ live' = Given(live, heap.bins[p[1]][p[2]], size)
    BY <1>3 DEF pphp_alloc
  <2> DEFINE x == heap.bins[p[1]][p[2]]
             q == x + HeaderSize
  <2>4. q \notin DOMAIN live /\ Owned(heap', Sentinel, live')
    BY <2>2, <2>3, TakeOwned
  <2>5. live' = [r \in DOMAIN live \cup {q} |-> IF r = q THEN size ELSE live[r]]
    BY <2>3 DEF Given
  <2> HIDE DEF q
  <2>6. Aligned(heap')
    BY DEF StoreInv, Aligned
  <2>7. Store!Grantable(live, q, size)
    BY <2>1, <2>2, <2>4, <2>5, <2>6, GrantsApart
  <2>8. q \in DOMAIN live' /\ live'[q] = size
    BY <2>5
  <2>9. live' = Store!With(live, q, live'[q])
    BY <2>5, <2>8 DEF Store!With
  <2>10. Store!Grant(q, live'[q])
    BY <2>1, <2>7, <2>8, <2>9 DEF Store!Grant
  <2> QED
    BY <2>8, <2>10 DEF Store!StoreNext
<1>4. ASSUME NEW ptr \in DOMAIN live
      PROVE  initialized /\ Owned(heap, Sentinel, live)
  <2>1. initialized
    BY <1>4 DEF StoreInv, PoolInv, ClientsOwnUsedBlocks
  <2> QED
    BY <2>1, OwnedFromInv DEF StoreInv
<1>5. ASSUME NEW ptr \in DOMAIN live, pphp_free(ptr) PROVE Store!StoreNext
  <2>1. cap' = cap
    BY <1>5 DEF pphp_free, Sentinel
  <2>2. live' = Store!Without(ptr)
    BY <1>5 DEF pphp_free, Forget, Store!Without
  <2>3. Store!GiveBack(ptr)
    BY <2>1, <2>2 DEF Store!GiveBack
  <2> QED
    BY <2>3 DEF Store!StoreNext
<1>6. ASSUME NEW ptr \in DOMAIN live, NEW size \in Requests, ReallocInPlace(ptr, size)
      PROVE  Store!StoreNext
  <2>1. /\ initialized /\ initialized' /\ Sentinel' = Sentinel /\ cap' = cap
        /\ heap' = heap /\ live' = [live EXCEPT ![ptr] = size] /\ size \in Nat \ {0}
    BY <1>4, <1>6, SizesAssumption DEF ReallocInPlace, Sentinel
  <2>2. Owned(heap, Sentinel, live') /\ Aligned(heap)
    <3>1. size <= heap.hdr[ptr - HeaderSize].size - HeaderSize
      BY <1>6 DEF ReallocInPlace, PayloadSize
    <3> QED
      BY <1>4, <2>1, <3>1 DEF Owned, StoreInv
  <2> DEFINE f == Store!Without(ptr)
  <2>3. /\ ptr \notin DOMAIN f
        /\ live' = [q \in DOMAIN f \cup {ptr} |-> IF q = ptr THEN size ELSE f[q]]
    <3>1. f = [q \in DOMAIN live \ {ptr} |-> live[q]]
      BY DEF Store!Without
    <3>2. live = [q \in DOMAIN live |-> live[q]]
      BY <1>4 DEF Owned
    <3> HIDE DEF f
    <3> QED
      BY <2>1, <3>1, <3>2
  <2>4. Store!Grantable(f, ptr, size)
    BY <2>1, <2>2, <2>3, GrantsApart
  <2>5. ptr \in DOMAIN live' /\ live'[ptr] = size
    BY <2>1
  <2>6. live' = Store!With(live, ptr, live'[ptr])
    <3>1. live = [q \in DOMAIN live |-> live[q]]
      BY <1>4 DEF Owned
    <3> QED
      BY <2>1, <2>5, <3>1 DEF Store!With
  <2>7. Store!Resize(ptr, live'[ptr])
    BY <2>1, <2>4, <2>5, <2>6 DEF Store!Resize
  <2> QED
    BY <2>5, <2>7 DEF Store!StoreNext
<1>7. ASSUME NEW ptr \in DOMAIN live, NEW size \in Requests, pphp_realloc(ptr, size)
      PROVE  Store!StoreNext
  <2>1. initialized /\ initialized' /\ Sentinel' = Sentinel /\ cap' = cap
    BY <1>4, <1>7 DEF pphp_realloc, Sentinel
  <2>2. Owned(heap, Sentinel, live) /\ size \in Nat \ {0}
    BY <1>4, <1>7, SizesAssumption DEF pphp_realloc, AllocRefused
  <2>3. PICK p \in find_free(heap, Needed(size)) :
          live' = Forget(Given(live, heap.bins[p[1]][p[2]], size), ptr)
    BY <1>7 DEF pphp_realloc
  <2> DEFINE x == heap.bins[p[1]][p[2]]
             q == x + HeaderSize
             taken == TakeBlock(heap, x, Needed(size))
             given == Given(live, x, size)
  <2>4. q \notin DOMAIN live /\ Owned(taken, Sentinel, given) /\ Aligned(taken)
    <3>1. x \in FreeBlocks(heap.hdr, Sentinel)
      BY <2>2, FoundIsFree DEF Owned
    <3>2. x \in DOMAIN heap.hdr
      BY <3>1 DEF FreeBlocks
    <3>3. Needed(size) \in Nat /\ Needed(size) % ALIGNMENT = 0
      BY <2>2, NeededSize
    <3>4. Aligned(taken)
      BY <3>2, <3>3, TakeAligned DEF StoreInv
    <3> QED
      BY <2>2, <3>4, TakeOwned
  <2>5. given = [r \in DOMAIN live \cup {q} |-> IF r = q THEN size ELSE live[r]]
    BY DEF Given
  <2>6. live' = [r \in DOMAIN given \ {ptr} |-> given[r]]
    BY <2>3 DEF Forget
  <2> HIDE DEF q, taken, given
  <2>7. Store!Grantable(live, q, size)
    BY <2>1, <2>2, <2>4, <2>5, GrantsApart
  <2>8. q \in DOMAIN live' /\ live'[q] = size
    BY <2>4, <2>5, <2>6
  <2>9. live' = Store!With(Store!Without(ptr), q, live'[q])
    BY <2>4, <2>5, <2>6, <2>8 DEF Store!With, Store!Without
  <2>10. Store!Move(ptr, q, live'[q])
    BY <2>1, <2>7, <2>8, <2>9 DEF Store!Move
  <2> QED
    BY <2>8, <2>10 DEF Store!StoreNext
<1>8. ASSUME NEW size \in Requests, AllocFails(size) PROVE UNCHANGED <<initialized, total, live>>
  BY <1>8 DEF AllocFails, vars
<1>9. ASSUME NEW ptr \in DOMAIN live, NEW size \in Requests, ReallocFails(ptr, size)
      PROVE  UNCHANGED <<initialized, total, live>>
  BY <1>8, <1>9 DEF ReallocFails
<1>10. ASSUME NEW ptr \in DOMAIN live, pphp_alloc_track(ptr)
       PROVE  UNCHANGED <<initialized, total, live>>
  BY <1>10 DEF pphp_alloc_track
<1>11. UNCHANGED vars => UNCHANGED <<initialized, total, live>>
  BY DEF vars
<1> QED
  BY <1>1, <1>2, <1>3, <1>5, <1>6, <1>7, <1>8, <1>9, <1>10, <1>11 DEF Next

\* The blocks of a heap's clients, and what KeepsOthers says of them.
LEMMA ClientBlocks ==
    ASSUME NEW h, NEW end, NEW f, Owned(h, end, f)
    PROVE  \A p \in DOMAIN f : /\ p - HeaderSize \in UsedBlocks(h.hdr, end)
                               /\ p - HeaderSize \in Nat /\ p \in Nat
<1> TAKE p \in DOMAIN f
<1>1. PICK a \in UsedBlocks(h.hdr, end) : p = a + HeaderSize
  BY DEF Owned
<1>2. HeaderSize = 8 /\ a \in Nat
  BY MinimumBlock DEF Owned, GoodHeap, HdrType, UsedBlocks
<1> QED
  BY <1>1, <1>2

\* A step for one client leaves the blocks of the others alone, and a moving
\* realloc takes the tracking mark along.
LEMMA OthersStep ==
    ASSUME PoolInv, [Next]_vars
    PROVE  OthersKept \/ UNCHANGED vars
<1> DEFINE U == UsedBlocks(heap.hdr, Sentinel)
<1>0. HeaderSize = 8
  BY MinimumBlock
<1>1. ASSUME NEW size \in BufferSizes, NEW skew \in Skews, pphp_pool_init(size, skew)
      PROVE  OthersKept
  BY <1>1 DEF pphp_pool_init, OthersKept
<1>2. ASSUME NEW ptr \in DOMAIN live
      PROVE  initialized /\ Owned(heap, Sentinel, live)
  <2>1. initialized
    BY <1>2 DEF PoolInv, ClientsOwnUsedBlocks
  <2> QED
    BY <2>1, OwnedFromInv
<1>3. ASSUME NEW size \in Requests, pphp_alloc(size) PROVE OthersKept
  <2>1. initialized
    BY <1>3 DEF pphp_alloc, AllocRefused
  <2>2. Owned(heap, Sentinel, live) /\ size \in Nat
    BY <2>1, OwnedFromInv, SizesAssumption
  <2>3. PICK p \in find_free(heap, Needed(size)) :
          /\ heap' = TakeBlock(heap, heap.bins[p[1]][p[2]], Needed(size))
          /\ live' = Given(live, heap.bins[p[1]][p[2]], size)
    BY <1>3 DEF pphp_alloc
  <2> DEFINE x == heap.bins[p[1]][p[2]]
  <2>4. /\ x \in Nat /\ x + HeaderSize \notin DOMAIN live
        /\ KeepsOthers(heap, heap', Sentinel, x)
    BY <2>2, <2>3, TakeOwned
  <2>5. DOMAIN live \subseteq DOMAIN live'
    BY <2>3 DEF Given
  <2> HIDE DEF x
  <2>6. \A ptr \in DOMAIN live : ptr - HeaderSize \in U \ {x}
    BY <1>0, <2>2, <2>4, ClientBlocks
  <2> QED
    BY <2>4, <2>5, <2>6 DEF OthersKept, KeepsOthers
<1>4. ASSUME NEW ptr \in DOMAIN live, pphp_free(ptr) PROVE OthersKept
  <2>1. Owned(heap, Sentinel, live)
    BY <1>2
  <2>2. KeepsOthers(heap, heap', Sentinel, ptr - HeaderSize)
    BY <1>4, <2>1, ReturnOwned DEF pphp_free
  <2>3. DOMAIN live' = DOMAIN live \ {ptr}
    BY <1>4 DEF pphp_free, Forget
  <2>4. \A q \in DOMAIN live \ {ptr} : q - HeaderSize \in U \ {ptr - HeaderSize}
    BY <1>0, <2>1, ClientBlocks
  <2> QED
    BY <2>2, <2>3, <2>4 DEF OthersKept, KeepsOthers
<1>5. ASSUME NEW ptr \in DOMAIN live, pphp_alloc_track(ptr) PROVE OthersKept
  <2> DEFINE x == ptr - HeaderSize
  <2>1. Owned(heap, Sentinel, live) /\ live' = live /\ heap' = SetTracked(heap, x, TRUE)
    BY <1>2, <1>5 DEF pphp_alloc_track
  <2>2. x \in U
    BY <2>1, ClientBlocks
  <2>3. /\ heap'.hdr[x].size = heap.hdr[x].size /\ heap'.hdr[x].tracked = TRUE
        /\ KeepsOthers(heap, heap', Sentinel, x)
    BY <2>1, <2>2, SetTrackedGood DEF Owned
  <2>4. \A q \in DOMAIN live : q - HeaderSize \in U
    BY <2>1, ClientBlocks
  <2> HIDE DEF x
  <2> QED
    BY <2>1, <2>3, <2>4 DEF OthersKept, KeepsOthers
<1>6. ASSUME NEW ptr \in DOMAIN live, NEW size \in Requests, ReallocInPlace(ptr, size)
      PROVE  OthersKept
  BY <1>6 DEF ReallocInPlace, OthersKept
<1>7. ASSUME NEW ptr \in DOMAIN live, NEW size \in Requests, pphp_realloc(ptr, size)
      PROVE  OthersKept
  <2>1. initialized
    BY <1>2
  <2>2. Owned(heap, Sentinel, live) /\ size \in Nat
    BY <2>1, OwnedFromInv, SizesAssumption
  <2>3. PICK p \in find_free(heap, Needed(size)) :
          /\ heap' = ReturnBlock(SetTracked(
                         TakeBlock(heap, heap.bins[p[1]][p[2]], Needed(size)),
                         heap.bins[p[1]][p[2]],
                         heap.hdr[ptr - HeaderSize].tracked), ptr - HeaderSize)
          /\ live' = Forget(Given(live, heap.bins[p[1]][p[2]], size), ptr)
    BY <1>7 DEF pphp_realloc
  <2> DEFINE x == heap.bins[p[1]][p[2]]
             y == ptr - HeaderSize
             taken == TakeBlock(heap, x, Needed(size))
             mark == heap.hdr[y].tracked
             given == Given(live, x, size)
             moved == SetTracked(taken, x, mark)
  <2>4. /\ x \in Nat /\ x + HeaderSize \notin DOMAIN live
        /\ x \in UsedBlocks(taken.hdr, Sentinel) /\ Owned(taken, Sentinel, given)
        /\ KeepsOthers(heap, taken, Sentinel, x)
    BY <2>2, <2>3, TakeOwned
  <2>5. \A q \in DOMAIN live : q - HeaderSize \in U /\ q - HeaderSize # x /\ q \in Nat
    BY <1>0, <2>2, <2>4, ClientBlocks
  <2>6. mark \in BOOLEAN
    <3>1. y \in DOMAIN heap.hdr
      BY <2>5 DEF UsedBlocks
    <3> QED
      BY <2>2, <3>1 DEF Owned, GoodHeap, HdrType, Header
  <2>7. DOMAIN live' = (DOMAIN live \cup {x + HeaderSize}) \ {ptr} /\ ptr \in DOMAIN given
    BY <2>3 DEF Given, Forget
  <2>8. heap' = ReturnBlock(moved, y)
    BY <2>3
  <2> HIDE DEF x, taken, mark, given
  <2>9. /\ moved.hdr[x].tracked = mark
        /\ UsedBlocks(moved.hdr, Sentinel) = UsedBlocks(taken.hdr, Sentinel)
        /\ KeepsOthers(taken, moved, Sentinel, x)
    <3>1. GoodHeap(taken, Sentinel)
      BY <2>4 DEF Owned
    <3>2. \A m \in BOOLEAN :
            LET g == SetTracked(taken, x, m)
            IN  /\ UsedBlocks(g.hdr, Sentinel) = UsedBlocks(taken.hdr, Sentinel)
                /\ g.hdr[x].tracked = m
                /\ KeepsOthers(taken, g, Sentinel, x)
      BY <2>4, <3>1, SetTrackedGood
    <3> QED
      BY <2>6, <3>2
  <2>10. Owned(moved, Sentinel, given)
    BY <2>4, <2>6, TrackOwned
  <2> HIDE DEF moved
  <2>11. KeepsOthers(moved, heap', Sentinel, y)
    BY <2>7, <2>8, <2>10, ReturnOwned
  <2>12. y \in U /\ y # x
    BY <2>5
  <2>13. heap'.hdr[x].tracked = mark
    BY <2>4, <2>9, <2>11, <2>12 DEF KeepsOthers
  <2>14. ASSUME NEW a \in U, a # x, a # y
         PROVE  heap'.hdr[a].size = heap.hdr[a].size /\ heap'.hdr[a].tracked = heap.hdr[a].tracked
    <3>1. /\ a \in UsedBlocks(taken.hdr, Sentinel)
          /\ taken.hdr[a].size = heap.hdr[a].size /\ taken.hdr[a].tracked = heap.hdr[a].tracked
      BY <2>4, <2>14 DEF KeepsOthers
    <3>2. /\ a \in UsedBlocks(moved.hdr, Sentinel)
          /\ moved.hdr[a].size = taken.hdr[a].size /\ moved.hdr[a].tracked = taken.hdr[a].tracked
      BY <2>9, <2>14, <3>1 DEF KeepsOthers
    <3>3. heap'.hdr[a].size = moved.hdr[a].size /\ heap'.hdr[a].tracked = moved.hdr[a].tracked
      BY <2>11, <2>14, <3>2 DEF KeepsOthers
    <3> QED
      BY <3>1, <3>2, <3>3
  <2>15. ASSUME NEW q \in DOMAIN live \cap DOMAIN live'
         PROVE  /\ heap'.hdr[q - HeaderSize].size = heap.hdr[q - HeaderSize].size
                /\ heap'.hdr[q - HeaderSize].tracked = heap.hdr[q - HeaderSize].tracked
    <3>1. q \in Nat /\ ptr \in Nat /\ q # ptr /\ q - HeaderSize \in U /\ q - HeaderSize # x
      BY <2>5, <2>7
    <3>2. q - HeaderSize # y
      BY <1>0, <3>1
    <3> QED
      BY <2>14, <3>1, <3>2
  <2>16. ASSUME NEW old \in DOMAIN live \ DOMAIN live', NEW new \in DOMAIN live' \ DOMAIN live
         PROVE  heap'.hdr[new - HeaderSize].tracked = heap.hdr[old - HeaderSize].tracked
    <3>1. old = ptr /\ new = x + HeaderSize
      BY <2>7
    <3>2. new - HeaderSize = x
      BY <1>0, <2>4, <3>1
    <3> QED
      BY <2>13, <3>1, <3>2 DEF mark
  <2> QED
    BY <2>15, <2>16 DEF OthersKept
<1>8. ASSUME NEW size \in Requests, AllocFails(size) PROVE UNCHANGED vars
  BY <1>8 DEF AllocFails
<1>9. ASSUME NEW ptr \in DOMAIN live, NEW size \in Requests, ReallocFails(ptr, size)
      PROVE  UNCHANGED vars
  BY <1>8, <1>9 DEF ReallocFails
<1> QED
  BY <1>1, <1>3, <1>4, <1>5, <1>6, <1>7, <1>8, <1>9 DEF Next

\* The pool is a store of regions: clients of pphp_alloc(), pphp_realloc() and
\* pphp_free() never share a byte, a region lasts until its holder gives it
\* back, and what one client does leaves extent and mark of every other.
THEOREM PoolClientsUndisturbed == Spec => ClientsUndisturbed
<1>1. Init => StoreInv
  BY InitInv DEF StoreInv, Init, EmptyHeap, Aligned
<1>2. Spec => []StoreInv
  BY <1>1, StoreInvStep, PTL DEF Spec
<1>3. Init => Store!StoreInit
  BY DEF Init, Store!StoreInit
<1>4. StoreInv /\ StoreInv' /\ [Next]_vars => [Store!StoreNext]_(Store!storeVars)
  BY StoreStep
<1>5. StoreInv /\ [Next]_vars => [OthersKept]_vars
  BY OthersStep DEF StoreInv
<1>6. Spec => RegionsNeverOverlap
  BY <1>2, <1>3, <1>4, PTL DEF Spec, RegionsNeverOverlap, Store!StoreSpec
<1>7. Spec => OthersUntouched
  BY <1>2, <1>5, PTL DEF Spec, OthersUntouched
<1> QED
  BY <1>6, <1>7 DEF ClientsUndisturbed

=============================================================================
