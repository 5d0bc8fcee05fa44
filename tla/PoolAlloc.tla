------------------------------ MODULE PoolAlloc ------------------------------
(***************************************************************************)
(* The pool allocator of src/alloc.c: one buffer cut into blocks, each     *)
(* with a header (its size, its flags and the size of the block before     *)
(* it: a boundary tag), closed by a sentinel of size 0, and the free       *)
(* blocks threaded on segregated lists.  Everything the runtime owns lives *)
(* here, so a block handed out twice or a lost boundary tag corrupts       *)
(* values, arrays, classes and bytecode alike.                             *)
(*                                                                         *)
(* Addresses are byte offsets from pool.begin.  A header exists exactly at *)
(* the starts of blocks, so hdr is a function on those offsets; the links  *)
(* of a free block are its place in the sequence bins[b].                  *)
(***************************************************************************)
EXTENDS Integers, Sequences, FiniteSets, Functions

CONSTANTS
    HeaderSize,    \* sizeof(block_header): 8 on both targets
    LinksSize,     \* sizeof(free_links): 16 on a 64-bit host, 8 on RP2040
    FL_COUNT,      \* first-level bins
    SL_COUNT,      \* second-level bins
    SizeMax,       \* UINT32_MAX, the largest size a header can hold
    BufferSizes,   \* the buffer sizes pphp_pool_init is called with
    Skews,         \* distances of the buffer from an 8-byte boundary
    Requests       \* the sizes asked for (0 and oversize included)

ALIGNMENT == 8

align_up(value) == ((value + ALIGNMENT - 1) \div ALIGNMENT) * ALIGNMENT

align_down(value) == (value \div ALIGNMENT) * ALIGNMENT

minimum_block_size == align_up(HeaderSize + LinksSize)

ASSUME SizesAssumption ==
    /\ HeaderSize = ALIGNMENT
    /\ LinksSize \in Nat \ {0}
    /\ FL_COUNT \in Nat \ {0}
    /\ SL_COUNT \in Nat \ {0}
    /\ SizeMax \in Nat
    /\ BufferSizes \subseteq Nat
    /\ Skews \subseteq 0 .. ALIGNMENT - 1
    /\ Requests \subseteq Nat

\* No caller asks for one of the seven sizes pphp_alloc admits and align_up wraps
\* to 0 where a size_t has as many bits as a header's size.
ASSUME RequestsAssumption ==
    \A r \in Requests : \/ r > SizeMax - HeaderSize
                         \/ r + HeaderSize + ALIGNMENT - 1 <= SizeMax

VARIABLES
    initialized,   \* pool.initialized
    total,         \* pool.total
    heap,          \* [hdr: the block headers, bins: the free lists]
    live           \* what the clients hold: payload pointer -> bytes asked for

vars == <<initialized, total, heap, live>>

Bins == 0 .. FL_COUNT * SL_COUNT - 1

-----------------------------------------------------------------------------
(* Segregated lists.                                                       *)

\* mapping(): floor_log2 clamped to the last first-level row, then the
\* quarter of [2^fl, 2^(fl+1)) the size falls in, clamped to the last
\* column; counted as the number of thresholds at or below the size.
FirstLevel(size) == Cardinality({k \in 1 .. FL_COUNT - 1 : 2^k <= size})

SecondStep(fl) == IF 2^fl >= SL_COUNT THEN 2^fl \div SL_COUNT ELSE 1

SecondLevel(fl, size) ==
    Cardinality({j \in 1 .. SL_COUNT - 1 : 2^fl + j * SecondStep(fl) <= size})

\* The bin pool.bins[fl][sl], numbered in the order find_free visits them.
mapping(size) ==
    LET fl == FirstLevel(size) IN fl * SL_COUNT + SecondLevel(fl, size)

\* The list s without the block at position k.
Unlink(s, k) == [i \in 1 .. Len(s) - 1 |-> IF i < k THEN s[i] ELSE s[i + 1]]

remove_free(h, block) ==
    LET b == mapping(h.hdr[block].size)
        k == CHOOSE i \in 1 .. Len(h.bins[b]) : h.bins[b][i] = block
    IN  [hdr |-> h.hdr, bins |-> [h.bins EXCEPT ![b] = Unlink(@, k)]]

insert_free(h, block) ==
    [hdr |-> h.hdr,
     bins |-> [h.bins EXCEPT ![mapping(h.hdr[block].size)] = <<block>> \o @]]

\* Mutant: the search starts one bin too late.
FittingFromNextBin(h, needed) ==
    {p \in UNION {{b} \X (1 .. Len(h.bins[b])) : b \in Bins} :
        /\ p[1] > mapping(needed)
        /\ h.hdr[h.bins[p[1]][p[2]]].size >= needed}

\* The places <<bin, position>> find_free may stop at: from the bin of the
\* needed size upwards, a block that is large enough.
Fitting(h, needed) ==
    {p \in UNION {{b} \X (1 .. Len(h.bins[b])) : b \in Bins} :
        /\ p[1] >= mapping(needed)
        /\ h.hdr[h.bins[p[1]][p[2]]].size >= needed}

\* find_free() stops at the first of them, bins in order, each list from its head.
find_free(h, needed) ==
    {p \in Fitting(h, needed) :
        \A q \in Fitting(h, needed) : p[1] < q[1] \/ (p[1] = q[1] /\ p[2] <= q[2])}

-----------------------------------------------------------------------------
(* Blocks.                                                                 *)

block_set(size, used, prev) ==
    [size |-> size, used |-> used, tracked |-> FALSE, prev |-> prev]

\* needed in pphp_alloc(): header included, rounded up, room for the links.
Needed(size) ==
    LET n == align_up(size + HeaderSize)
    IN  IF n < minimum_block_size THEN minimum_block_size ELSE n

AllocRefused(size) == ~initialized \/ size = 0 \/ size > SizeMax - HeaderSize

\* The headers hdr once the block at x, which stays whole, is in use.
UseWhole(hdr, x) ==
    LET size == hdr[x].size
    IN  [hdr EXCEPT ![x] = block_set(size, TRUE, @.prev), ![x + size] = [@ EXCEPT !.prev = size]]

\* Mutant: the block behind the remainder is not told its new neighbour.
SplitHeaderStaleTag(hdr, x, needed, a) ==
    CASE a = x -> block_set(needed, TRUE, hdr[a].prev)
      [] a = x + needed -> block_set(hdr[x].size - needed, FALSE, needed)
      [] OTHER -> hdr[a]

\* The header at a once the first `needed` bytes of the block at x are in use
\* and the rest is a free block of its own.
SplitHeader(hdr, x, needed, a) ==
    CASE a = x -> block_set(needed, TRUE, hdr[a].prev)
      [] a = x + needed -> block_set(hdr[x].size - needed, FALSE, needed)
      [] a = x + hdr[x].size -> [hdr[a] EXCEPT !.prev = hdr[x].size - needed]
      [] OTHER -> hdr[a]

UseFront(hdr, x, needed) ==
    [a \in DOMAIN hdr \cup {x + needed} |-> SplitHeader(hdr, x, needed, a)]

\* pphp_alloc() once find_free() found `block`: unlink it, split off the
\* remainder if that makes a block, and tell the next block its new neighbour.
TakeBlock(h, block, needed) ==
    LET bins == remove_free(h, block).bins
    IN  IF h.hdr[block].size - needed >= minimum_block_size
        THEN insert_free([hdr |-> UseFront(h.hdr, block, needed), bins |-> bins],
                         block + needed)
        ELSE [hdr |-> UseWhole(h.hdr, block), bins |-> bins]

\* The header at a once the block of size n behind `first` is part of it.
MergedHeader(hdr, first, n, a) ==
    CASE a = first -> block_set(hdr[first].size + n, FALSE, hdr[a].prev)
      [] a = first + (hdr[first].size + n) -> [hdr[a] EXCEPT !.prev = hdr[first].size + n]
      [] OTHER -> hdr[a]

Merge(hdr, first, second) ==
    [a \in DOMAIN hdr \ {second} |-> MergedHeader(hdr, first, hdr[second].size, a)]

MarkFree(hdr, x) == [hdr EXCEPT ![x] = block_set(@.size, FALSE, @.prev)]

\* Mutant: no merge with the block behind.
FreeForwardNoMerge(h, block) == [hdr |-> MarkFree(h.hdr, block), bins |-> h.bins]

\* Mutant: the merged block stays on its list.
FreeForwardStillListed(h, block) ==
    LET following == block + h.hdr[block].size
        freed     == MarkFree(h.hdr, block)
    IN  IF h.hdr[following].size # 0 /\ ~h.hdr[following].used
        THEN [hdr |-> Merge(freed, block, following), bins |-> h.bins]
        ELSE [hdr |-> freed, bins |-> h.bins]

\* pphp_free() up to the merge with the block behind.
FreeForward(h, block) ==
    LET following == block + h.hdr[block].size
        freed     == MarkFree(h.hdr, block)
    IN  IF h.hdr[following].size # 0 /\ ~h.hdr[following].used
        THEN [hdr |-> Merge(freed, block, following), bins |-> remove_free(h, following).bins]
        ELSE [hdr |-> freed, bins |-> h.bins]

\* pphp_free() from there: the merge with the block in front, and the insertion.
FreeBackward(h, block) ==
    LET previous == block - h.hdr[block].prev
    IN  IF h.hdr[block].prev # 0 /\ ~h.hdr[previous].used
        THEN insert_free([hdr |-> Merge(h.hdr, previous, block),
                          bins |-> remove_free(h, previous).bins], previous)
        ELSE insert_free(h, block)

ReturnBlock(h, block) == FreeBackward(FreeForward(h, block), block)

-----------------------------------------------------------------------------
(* The allocator's interface.                                              *)

EmptyHeap == [hdr |-> <<>>, bins |-> [b \in Bins |-> <<>>]]

Init ==
    /\ initialized = FALSE
    /\ total = 0
    /\ heap = EmptyHeap
    /\ live = <<>>

\* One free block and the sentinel, in `available` bytes.
FreshHeap(available) ==
    LET first == available - HeaderSize
        hdr == [a \in {0, first} |->
                   IF a = 0 THEN block_set(first, FALSE, 0) ELSE block_set(0, TRUE, first)]
    IN  insert_free([hdr |-> hdr, bins |-> [b \in Bins |-> <<>>]], 0)

\* A buffer of `size` bytes whose start is `skew` bytes past a boundary.  The
\* memset() forgets any earlier pool, whose pointers nobody may use any more.
pphp_pool_init(size, skew) ==
    LET skipped   == align_up(skew) - skew
        available == align_down(size - skipped)
        usable    == size > skipped + minimum_block_size + HeaderSize
    IN  /\ initialized' = usable
        /\ total' = IF usable THEN available - 2 * HeaderSize ELSE 0
        /\ heap' = IF usable THEN FreshHeap(available) ELSE EmptyHeap
        /\ live' = <<>>

\* A refused or unsatisfiable request returns NULL and changes nothing.
AllocFails(size) ==
    /\ AllocRefused(size) \/ Fitting(heap, Needed(size)) = {}
    /\ UNCHANGED vars

\* The clients f once the block is handed out, or a pointer given back.
Given(f, block, size) ==
    [q \in DOMAIN f \cup {block + HeaderSize} |-> IF q = block + HeaderSize THEN size ELSE f[q]]

Forget(f, ptr) == [q \in DOMAIN f \ {ptr} |-> f[q]]

pphp_alloc(size) ==
    /\ ~AllocRefused(size)
    /\ \E p \in find_free(heap, Needed(size)) :
        LET block == heap.bins[p[1]][p[2]]
        IN  /\ heap' = TakeBlock(heap, block, Needed(size))
            /\ live' = Given(live, block, size)
    /\ UNCHANGED <<initialized, total>>

\* pphp_free() of a pointer the client holds; its guards (in range, still
\* used) hold for such a pointer, and NULL changes nothing.
pphp_free(ptr) ==
    /\ initialized
    /\ heap.hdr[ptr - HeaderSize].used
    /\ heap' = ReturnBlock(heap, ptr - HeaderSize)
    /\ live' = Forget(live, ptr)
    /\ UNCHANGED <<initialized, total>>

SetTracked(h, block, mark) ==
    [hdr |-> [h.hdr EXCEPT ![block] = [@ EXCEPT !.tracked = mark]], bins |-> h.bins]

PayloadSize(ptr) == heap.hdr[ptr - HeaderSize].size - HeaderSize

\* Mutant: the header is counted as payload.
ReallocInPlaceOverHeader(ptr, size) ==
    /\ size # 0
    /\ size <= heap.hdr[ptr - HeaderSize].size
    /\ live' = [live EXCEPT ![ptr] = size]
    /\ UNCHANGED <<initialized, total, heap>>

\* pphp_realloc() to 0 is pphp_free(); growth that fits the block keeps it.
ReallocInPlace(ptr, size) ==
    /\ size # 0
    /\ size <= PayloadSize(ptr)
    /\ live' = [live EXCEPT ![ptr] = size]
    /\ UNCHANGED <<initialized, total, heap>>

\* Mutant: the old block is freed before the new one is taken.
ReallocFreesFirst(ptr, size) ==
    LET freed == ReturnBlock(heap, ptr - HeaderSize)
    IN  /\ size > PayloadSize(ptr)
        /\ ~AllocRefused(size)
        /\ \E p \in find_free(freed, Needed(size)) :
            LET block == freed.bins[p[1]][p[2]]
            IN  /\ heap' = TakeBlock(freed, block, Needed(size))
                /\ live' = Given(Forget(live, ptr), block, size)
        /\ UNCHANGED <<initialized, total>>

\* pphp_realloc() that has to move: the new block first (with the old one's
\* BLOCK_TRACKED mark), the old one freed last.
pphp_realloc(ptr, size) ==
    /\ size > PayloadSize(ptr)
    /\ ~AllocRefused(size)
    /\ \E p \in find_free(heap, Needed(size)) :
        LET block == heap.bins[p[1]][p[2]]
            old   == ptr - HeaderSize
            taken == TakeBlock(heap, block, Needed(size))
            moved == SetTracked(taken, block, heap.hdr[old].tracked)
        IN  /\ heap' = ReturnBlock(moved, old)
            /\ live' = Forget(Given(live, block, size), ptr)
    /\ UNCHANGED <<initialized, total>>

\* A growth that cannot be satisfied returns NULL and leaves the old block alone.
ReallocFails(ptr, size) ==
    /\ size > PayloadSize(ptr)
    /\ AllocFails(size)

pphp_alloc_track(ptr) ==
    /\ heap' = SetTracked(heap, ptr - HeaderSize, TRUE)
    /\ UNCHANGED <<initialized, total, live>>

Next ==
    \/ \E size \in BufferSizes, skew \in Skews : pphp_pool_init(size, skew)
    \/ \E size \in Requests : pphp_alloc(size) \/ AllocFails(size)
    \/ \E ptr \in DOMAIN live :
        \/ pphp_free(ptr)
        \/ pphp_alloc_track(ptr)
        \/ \E size \in Requests :
            ReallocInPlace(ptr, size) \/ pphp_realloc(ptr, size) \/ ReallocFails(ptr, size)

Spec == Init /\ [][Next]_vars

-----------------------------------------------------------------------------
(* What a walk over the blocks sees.                                       *)

Blocks == DOMAIN heap.hdr

\* The sentinel pphp_pool_init() puts behind the last block.
Sentinel == total + HeaderSize

NextBlock(a) == a + heap.hdr[a].size

\* pphp_pool_check(): check[a] is what the loop finds from the block at a on;
\* the previous size of a block is compared when the block before it is passed.
pphp_pool_check ==
    LET check[a \in Blocks] ==
            \/ heap.hdr[a].size = 0 /\ heap.hdr[a].used
            \/ /\ heap.hdr[a].size % ALIGNMENT = 0
               /\ heap.hdr[a].size >= minimum_block_size
               /\ heap.hdr[NextBlock(a)].prev = heap.hdr[a].size
               /\ check[NextBlock(a)]
    IN  initialized /\ heap.hdr[0].prev = 0 /\ check[0]

\* Mutant: a header is counted as payload.
StatsPayloadWithHeader(a) == heap.hdr[a].size
StatsPayload(a) == heap.hdr[a].size - HeaderSize

\* pphp_pool_get_stats(): the payload bytes in use and free, the free blocks
\* (fragments), the largest of them, and how many blocks the walk passed.
pphp_pool_get_stats ==
    LET stats[a \in Blocks] ==
            LET rest    == stats[NextBlock(a)]
                payload == StatsPayload(a)
            IN  IF heap.hdr[a].size = 0
                THEN [used |-> 0, free |-> 0, fragments |-> 0, largest_free |-> 0, blocks |-> 0]
                ELSE IF heap.hdr[a].used
                THEN [rest EXCEPT !.used = @ + payload, !.blocks = @ + 1]
                ELSE [rest EXCEPT !.free = @ + payload, !.fragments = @ + 1,
                                  !.blocks = @ + 1,
                                  !.largest_free = IF payload > @ THEN payload ELSE @]
    IN  stats[0]

-----------------------------------------------------------------------------
(* Properties.                                                             *)

Header == [size : Nat, used : BOOLEAN, tracked : BOOLEAN, prev : Nat]

TypeOK ==
    /\ initialized \in BOOLEAN
    /\ total \in Nat
    /\ Blocks \subseteq 0 .. Sentinel
    /\ heap = [hdr |-> heap.hdr, bins |-> heap.bins]
    /\ heap.hdr \in [Blocks -> Header]
    /\ heap.bins \in [Bins -> Seq(Nat)]
    /\ live \in [DOMAIN live -> Nat]

\* The boundary tags of the headers hdr, whose sentinel is at `end`, describe
\* one gapless row of blocks, readable in both directions.
Tiled(hdr, end) ==
    /\ {0, end} \subseteq DOMAIN hdr
    /\ hdr[0].prev = 0
    /\ hdr[end].size = 0 /\ hdr[end].used
    /\ \A a \in DOMAIN hdr \ {end} :
        /\ hdr[a].size >= minimum_block_size
        /\ hdr[a].size % ALIGNMENT = 0
        /\ a + hdr[a].size \in DOMAIN hdr
        /\ hdr[a + hdr[a].size].prev = hdr[a].size
    /\ \A a \in DOMAIN hdr \ {0} :
        /\ hdr[a].prev # 0
        /\ a - hdr[a].prev \in DOMAIN hdr
        /\ hdr[a - hdr[a].prev].size = hdr[a].prev
    /\ \A a, b \in DOMAIN hdr : a < b => a + hdr[a].size <= b

\* No two free blocks are neighbours.
Coalesced(hdr, end) ==
    \A a \in DOMAIN hdr \ {end} : ~hdr[a].used => hdr[a + hdr[a].size].used

FreeBlocks(hdr, end) == {a \in DOMAIN hdr \ {end} : ~hdr[a].used}

UsedBlocks(hdr, end) == {a \in DOMAIN hdr \ {end} : hdr[a].used}

\* The lists hold the blocks of F, each once, in the bin of its size.
Listed(hdr, bins, F) ==
    \A b \in Bins :
        /\ IsInjective(bins[b])
        /\ Range(bins[b]) = {a \in F : mapping(hdr[a].size) = b}

\* Whatever the history of requests, the headers tile the pool and the tags
\* agree both ways, so pphp_free() always finds the true neighbours.
BoundaryTags == initialized => Tiled(heap.hdr, Sentinel)

\* pphp_free() never leaves two adjacent free blocks behind, so the pool
\* does not fragment beyond what the live blocks force.
NoFreeNeighbours == initialized => Coalesced(heap.hdr, Sentinel)

\* The segregated lists and the headers agree: a block is listed iff it is
\* free, once, where find_free() will look for its size.
ListsMatchHeaders == 
    initialized => Listed(heap.hdr, heap.bins, FreeBlocks(heap.hdr, Sentinel))

\* The blocks in use are exactly those clients hold (none leaked, none handed
\* out twice) and each payload covers what was asked for.
ClientsOwnUsedBlocks ==
    /\ ~initialized => live = <<>>
    /\ initialized =>
        /\ DOMAIN live = {a + HeaderSize : a \in UsedBlocks(heap.hdr, Sentinel)}
        /\ \A ptr \in DOMAIN live : live[ptr] <= PayloadSize(ptr)

\* pphp_alloc() returns NULL only when really no free block is large enough:
\* starting at the bin of the needed size skips nothing.
FindFreeComplete ==
    initialized => \A size \in Requests \ {0} :
        Fitting(heap, Needed(size)) = {} =>
            \A a \in Blocks : ~heap.hdr[a].used => heap.hdr[a].size < Needed(size)

\* pphp_pool_check() accepts every reachable pool, the statistics account
\* for every byte, and once everything is freed one fragment is left
\* (what the unit tests assert after their random operations).
StatsBalance ==
    initialized =>
        LET s == pphp_pool_get_stats
        IN  /\ pphp_pool_check
            /\ s.used + s.free + HeaderSize * (s.blocks - 1) = total
            /\ live = <<>> => s.used = 0 /\ s.fragments = 1 /\ s.largest_free = total

\* The blocks of clients a step is not for are where and how they were (same
\* extent, same tracking mark), and a moving realloc takes the mark along.
OthersKept ==
    /\ \A ptr \in DOMAIN live \cap DOMAIN live' :
        /\ heap'.hdr[ptr - HeaderSize].size = heap.hdr[ptr - HeaderSize].size
        /\ heap.hdr[ptr - HeaderSize].tracked => heap'.hdr[ptr - HeaderSize].tracked
    /\ \A old \in DOMAIN live \ DOMAIN live', new \in DOMAIN live' \ DOMAIN live :
        heap'.hdr[new - HeaderSize].tracked = heap.hdr[old - HeaderSize].tracked

\* A step for one client leaves the block of every other alone (pphp_free,
\* pphp_realloc).
OthersUntouched == [][OthersKept]_vars

\* The pool as a store of regions: a client holds the bytes it asked for, and
\* payloads end before the sentinel.
Store == INSTANCE RegionStore WITH
    Alignment <- ALIGNMENT,
    capacity <- IF initialized THEN Sentinel ELSE 0,
    held <- live

\* Clients never share a byte: pphp_alloc(), pphp_realloc() and pphp_free()
\* implement the region store.
RegionsNeverOverlap == Store!StoreSpec

\* Whatever one client does, the others keep their bytes, their extents and
\* their tracking marks (pphp_realloc, pphp_free).
ClientsUndisturbed == RegionsNeverOverlap /\ OthersUntouched
=============================================================================
