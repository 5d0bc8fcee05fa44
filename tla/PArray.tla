------------------------------- MODULE PArray -------------------------------
(****************************************************************************)
(* The array of src/parray.c: an ordered map kept as a vector of entries,  *)
(* "packed" as long as its keys are 0, 1, 2, ... in order, and with hash   *)
(* chains through the entries once any other key arrives or an entry is    *)
(* removed.  Removal leaves a tombstone in the vector.  Every allocation   *)
(* may fail.  Several arrays exist at once, so that a clone can be told    *)
(* from its original.  What the arrays promise is in OrderedMap.           *)
(****************************************************************************)
EXTENDS Integers, Sequences, FiniteSets, Functions

CONSTANTS
    PPHP_INT_MAXIMUM,  \* the largest pphp_int (INT32_MAX or INT64_MAX)
    Arrays,            \* the array objects
    Inputs,            \* the subscripts programs use
    Values,            \* the values they store
    key_hash(_),       \* integer_hash() and the hash of strings
    FirstCapacity,     \* 8U: entries of the first allocation
    MinBuckets,        \* 8U: buckets of the smallest hash, a power of two
    UINT16_LIMIT,      \* UINT16_MAX: the most entries and the most buckets
    MaxHint,           \* the largest capacity hint of pa_new()
    Alphabet,          \* the characters of subscripts
    MaxLength,         \* bound of the model: the length of a subscript
    MaxUsed            \* bound of the model: entries of all arrays together

ASSUME MaximumAssumption == PPHP_INT_MAXIMUM \in Nat /\ PPHP_INT_MAXIMUM > 9

\* Positions and bucket counts are 16-bit numbers, integers have 32 or 64 bits;
\* doubling the fewest buckets gets to twice the most entries in 16 steps.
ASSUME LimitsAssumption ==
    /\ UINT16_LIMIT \in Nat /\ UINT16_LIMIT <= PPHP_INT_MAXIMUM
    /\ FirstCapacity \in 1 .. UINT16_LIMIT
    /\ MinBuckets \in 2 .. UINT16_LIMIT
    /\ UINT16_LIMIT <= 32768 * MinBuckets
    /\ MaxHint \in Nat

VARIABLES
    array,             \* the live arrays, NoArray for the others
    text               \* a subscript, typed character by character

vars == array

-----------------------------------------------------------------------------
(* How a subscript becomes a key: normalize_key() and numeric_string_key().*)
(* An array has integer keys and string keys; a string that is written     *)
(* like an integer is that integer.  A value is a pair <<type, payload>>:  *)
(* an integer, a string (a sequence of characters), a float (its payload   *)
(* counts halves), "nan", "true", "false", "null", or any other type,      *)
(* which is no key.                                                        *)
PPHP_INT_MINIMUM == -PPHP_INT_MAXIMUM - 1
Integer == PPHP_INT_MINIMUM .. PPHP_INT_MAXIMUM

NoKey == <<"none", 0>>       \* normalize_key() returned 0

Digits == <<"0", "1", "2", "3", "4", "5", "6", "7", "8", "9">>
IsDigit(c) == \E d \in 1..10 : Digits[d] = c
DigitOf(c) == (CHOOSE d \in 1..10 : Digits[d] = c) - 1

Overflow == -1               \* the early return of the digit loop

\* Mutant: the value is checked for nothing and wraps.
LoopUnbounded(s, first, limit) ==
    LET value[n \in (first - 1) .. Len(s)] ==
            IF n < first THEN 0
            ELSE IF value[n - 1] = Overflow \/ ~IsDigit(s[n]) THEN Overflow
            ELSE (value[n - 1] * 10 + DigitOf(s[n])) % (PPHP_INT_MAXIMUM + 1)
    IN value[Len(s)]

\* The loop over the digits: the value of s[first..n], Overflow once a
\* character is no digit or the value would pass the limit.
DigitLoop(s, first, limit) ==
    LET value[n \in (first - 1) .. Len(s)] ==
            IF n < first THEN 0
            ELSE IF value[n - 1] = Overflow \/ ~IsDigit(s[n]) THEN Overflow
            ELSE IF value[n - 1] > (limit - DigitOf(s[n])) \div 10 THEN Overflow
            ELSE value[n - 1] * 10 + DigitOf(s[n])
    IN value[Len(s)]

(* numeric_string_key(): the integer a string is written like, or NoKey. *)
numeric_string_key(s) ==
    LET negative == s # <<>> /\ s[1] = "-"
        first == IF negative THEN 2 ELSE 1
        limit == PPHP_INT_MAXIMUM + (IF negative THEN 1 ELSE 0)
    IN  IF \/ Len(s) < first
           \/ s[1] = "+"
           \/ s[first] = "0" /\ first < Len(s)
           \/ DigitLoop(s, first, limit) = Overflow
        THEN NoKey
        ELSE <<"int", IF negative THEN -DigitLoop(s, first, limit)
                      ELSE DigitLoop(s, first, limit)>>

\* Any string a program may use as a subscript.
TextInit == text = <<>>
TextNext == Len(text) < MaxLength /\ \E c \in Alphabet : text' = Append(text, c)
TextSpec == TextInit /\ [][TextNext]_text

\* The decimal notation of an integer.
Magnitude[n \in Nat] == IF n < 10 THEN <<Digits[n + 1]>>
                        ELSE Append(Magnitude[n \div 10], Digits[(n % 10) + 1])
Decimal(n) == IF n < 0 THEN <<"-">> \o Magnitude[-n] ELSE Magnitude[n]

\* (pphp_int)f of a float given in halves: towards zero.
Truncate(halves) == IF halves >= 0 THEN halves \div 2 ELSE -((-halves) \div 2)

(* normalize_key(): what a subscript of any type is stored under. *)
normalize_key(input) ==
    CASE input[1] = "int"    -> input
      [] input[1] = "float"  -> IF /\ input[2] >= 2 * PPHP_INT_MINIMUM
                                   /\ input[2] < -2 * PPHP_INT_MINIMUM
                                THEN <<"int", Truncate(input[2])>> ELSE NoKey
      [] input[1] = "true"   -> <<"int", 1>>
      [] input[1] = "false"  -> <<"int", 0>>
      [] input[1] = "null"   -> <<"string", <<>>>>
      [] input[1] = "string" -> IF numeric_string_key(input[2]) # NoKey
                                THEN numeric_string_key(input[2]) ELSE input
      [] OTHER               -> NoKey

\* What a subscript is: integers fit pphp_int, strings are sequences.
ASSUME InputsAssumption ==
    \A input \in Inputs :
        /\ input = <<input[1], input[2]>>
        /\ input[1] = "int" => input[2] \in Integer
        /\ input[1] = "float" => input[2] \in Int
        /\ input[1] = "string" => Len(input[2]) \in Nat /\ DOMAIN input[2] = 1 .. Len(input[2])

\* The keys of entries: those of subscripts, and those pa_push() comes to.
Keys == ({normalize_key(input) : input \in Inputs} \ {NoKey})
        \cup {<<"int", n>> : n \in 0 .. PPHP_INT_MAXIMUM}

ASSUME HashAssumption == \A key \in Keys : key_hash(key) \in Nat

-----------------------------------------------------------------------------
EMPTY_BUCKET == -1
Tombstone == <<"null", 0>>

EmptyArray == [packed |-> TRUE, size |-> 0, used |-> 0, capacity |-> 0, next_index |-> 0,
               entries |-> <<>>, buckets |-> <<>>]
NoArray == [EmptyArray EXCEPT !.used = -1]

Highest(S) == IF S = {} THEN EMPTY_BUCKET ELSE CHOOSE p \in S : \A q \in S : q <= p
Lowest(S) == CHOOSE p \in S : \A q \in S : p <= q

-----------------------------------------------------------------------------
(* ensure_entries(): the capacity after growing to hold minimum entries,   *)
(* 0 when the vector cannot be that large.                                 *)
GrownCapacity(a, minimum) ==
    LET doubled == IF a.capacity = 0 THEN FirstCapacity ELSE 2 * a.capacity
        wanted  == IF doubled < minimum THEN minimum ELSE doubled
    IN  IF wanted > UINT16_LIMIT THEN 0 ELSE wanted

NeedsEntries(a, minimum) == minimum > a.capacity

ensure_entries(a, minimum) ==
    IF NeedsEntries(a, minimum) THEN [a EXCEPT !.capacity = GrownCapacity(a, minimum)]
    ELSE a

CannotGrow(a, minimum) == NeedsEntries(a, minimum) /\ GrownCapacity(a, minimum) = 0

(* rehash(): chain every entry that is no tombstone, in vector order, so   *)
(* that a chain runs from the youngest entry to the oldest.  Positions     *)
(* count from 0 as in the code; entries[p + 1] is the entry at p.          *)
BucketOf(key, buckets) == key_hash(key) % buckets

Chained(a, buckets, b) ==
    {p \in 0 .. a.used - 1 :
        /\ a.entries[p + 1].key # Tombstone
        /\ BucketOf(a.entries[p + 1].key, buckets) = b}

rehash(a, count) ==
    LET buckets == IF count < MinBuckets THEN MinBuckets ELSE count
    IN  [a EXCEPT
            !.packed  = FALSE,
            !.buckets = [b \in 0 .. buckets - 1 |-> Highest(Chained(a, buckets, b))],
            !.entries = [i \in 1 .. a.used |->
                IF a.entries[i].key = Tombstone THEN a.entries[i]
                ELSE [a.entries[i] EXCEPT !.next =
                        Highest({p \in Chained(a, buckets,
                                               BucketOf(a.entries[i].key, buckets)) :
                                    p < i - 1})]]]

BucketCount(a) == Cardinality(DOMAIN a.buckets)
TooManyBuckets(count) == count > UINT16_LIMIT

(* promote_hash(): MinBuckets doubled until there are twice as many        *)
(* buckets as the array has elements.                                      *)
PowersOfTwo == {1, 2, 4, 8, 16, 32, 64, 128, 256, 512, 1024, 2048, 4096, 8192,
                16384, 32768, 65536}

PromotedBuckets(a) ==
    CHOOSE b \in {MinBuckets * n : n \in PowersOfTwo} :
        /\ b >= 2 * a.size
        /\ b > MinBuckets => b \div 2 < 2 * a.size

promote_hash(a) == rehash(a, PromotedBuckets(a))

(* find_entry(): the position of a key, EMPTY_BUCKET when it is not there. *)
(* A packed array answers from the key alone; a hash walks its chain.      *)
ChainFrom(a, first, key) ==
    LET walk[p \in -1 .. a.used - 1] ==
            IF p = EMPTY_BUCKET THEN EMPTY_BUCKET
            ELSE IF a.entries[p + 1].key = key THEN p
            ELSE IF a.entries[p + 1].next >= p THEN EMPTY_BUCKET
            ELSE walk[a.entries[p + 1].next]
    IN walk[first]

find_entry(a, key) ==
    IF a.packed
    THEN IF key[1] = "int" /\ key[2] >= 0 /\ key[2] < a.used THEN key[2] ELSE EMPTY_BUCKET
    ELSE IF a.buckets = <<>> THEN EMPTY_BUCKET
    ELSE ChainFrom(a, a.buckets[BucketOf(key, BucketCount(a))], key)

\* Mutant: a removed entry stays on its chain.
RelinkNothing(a, p) == a

\* The link that names a position: a bucket or the entry before it.
Relink(a, p) ==
    LET to == a.entries[p + 1].next IN
    [a EXCEPT
        !.buckets = [b \in DOMAIN a.buckets |-> IF a.buckets[b] = p THEN to ELSE a.buckets[b]],
        !.entries = [i \in DOMAIN a.entries |->
            IF a.entries[i].next = p THEN [a.entries[i] EXCEPT !.next = to]
            ELSE a.entries[i]]]

-----------------------------------------------------------------------------
(* pa_set() after the key was normalized and not found: make room.  Each   *)
(* step may fail and leaves what the earlier ones did.                     *)
Promoted(a, key) ==
    IF a.packed /\ key # <<"int", a.used>> THEN promote_hash(a) ELSE a

NeedsBuckets(a) == ~a.packed /\ (a.size + 1) * 4 > BucketCount(a) * 3

Rehashed(a) == IF NeedsBuckets(a) THEN rehash(a, 2 * BucketCount(a)) ELSE a

\* Mutant: the next index follows every integer key, also downwards.
InsertLowersNext(a, key, value) ==
    LET p == a.used
        grown == ensure_entries(a, a.used + 1)
        b == BucketOf(key, BucketCount(a))
    IN  [grown EXCEPT
            !.used = @ + 1, !.size = @ + 1,
            !.entries = Append(@, [key |-> key, value |-> value,
                                   next |-> IF a.packed THEN EMPTY_BUCKET ELSE a.buckets[b]]),
            !.buckets = IF a.packed THEN @ ELSE [@ EXCEPT ![b] = p],
            !.next_index = IF key[1] = "int" THEN key[2] + 1 ELSE @]

Insert(a, key, value) ==
    LET p == a.used
        grown == ensure_entries(a, a.used + 1)
        b == BucketOf(key, BucketCount(a))
    IN  [grown EXCEPT
            !.used = @ + 1, !.size = @ + 1,
            !.entries = Append(@, [key |-> key, value |-> value,
                                   next |-> IF a.packed THEN EMPTY_BUCKET ELSE a.buckets[b]]),
            !.buckets = IF a.packed THEN @ ELSE [@ EXCEPT ![b] = p],
            !.next_index = IF key[1] = "int" /\ key[2] >= @ /\ key[2] < PPHP_INT_MAXIMUM
                           THEN key[2] + 1 ELSE @]

CanPromote(a, key) == Promoted(a, key) # a => ~TooManyBuckets(PromotedBuckets(a))
CanRehash(a) == NeedsBuckets(a) => ~TooManyBuckets(2 * BucketCount(a))

Overwrite(a, p, value) == [a EXCEPT !.entries[p + 1].value = value]

\* What pa_set() leaves behind when it returns 0: each step keeps the work of
\* the steps before it.
SetFailures(a, key) ==
    LET hashed == Promoted(a, key)
        wide   == Rehashed(hashed)
    IN  {x \in {a} : hashed # a}
        \cup {x \in {hashed} : NeedsBuckets(hashed) /\ CanPromote(a, key)}
        \cup {x \in {wide} : /\ NeedsEntries(wide, wide.used + 1)
                             /\ CanPromote(a, key) /\ CanRehash(hashed)}

\* No limit of the representation stands in the way of an insertion.
SetPossible(a, key) ==
    CanPromote(a, key) /\ CanRehash(Promoted(a, key)) /\ ~CannotGrow(a, a.used + 1)

Has(x) == array[x] # NoArray

Room == LET used(x) == IF Has(x) THEN array[x].used ELSE 0
        IN  FoldFunctionOnSet(+, 0, [x \in Arrays |-> used(x)], Arrays) < MaxUsed

pa_set(x, input, value) ==
    LET a   == array[x]
        key == normalize_key(input)
        p   == find_entry(a, key)
    IN  /\ Has(x) /\ key # NoKey
        /\ \/ /\ p # EMPTY_BUCKET
              /\ array' = [array EXCEPT ![x] = Overwrite(a, p, value)]
           \/ /\ p = EMPTY_BUCKET /\ Room /\ SetPossible(a, key)
              /\ array' = [array EXCEPT ![x] = Insert(Rehashed(Promoted(a, key)), key, value)]

\* pa_set() returns 0: an illegal subscript, a limit, or no memory.
pa_set_fails(x, input) ==
    LET key == normalize_key(input) IN
    /\ Has(x) /\ key # NoKey /\ Room
    /\ find_entry(array[x], key) = EMPTY_BUCKET
    /\ \E a \in SetFailures(array[x], key) : array' = [array EXCEPT ![x] = a]

pa_push(x, value) == Has(x) /\ pa_set(x, <<"int", array[x].next_index>>, value)

pa_remove(x, input) ==
    LET key  == normalize_key(input)
        a    == IF array[x].packed THEN promote_hash(array[x]) ELSE array[x]
        p    == find_entry(a, key)
        gone == [key |-> Tombstone, value |-> Tombstone, next |-> EMPTY_BUCKET]
    IN  /\ Has(x) /\ key # NoKey
        /\ array[x].packed => ~TooManyBuckets(PromotedBuckets(array[x]))
        /\ array' = [array EXCEPT ![x] =
                IF p = EMPTY_BUCKET THEN a
                ELSE [Relink(a, p) EXCEPT !.entries[p + 1] = gone, !.size = @ - 1]]

pa_new(x, hint) ==
    /\ ~Has(x) /\ hint <= UINT16_LIMIT
    /\ array' = [array EXCEPT ![x] = ensure_entries(EmptyArray, hint)]

(* pa_clone(): entries are copied as they are, chains are built afresh. *)
pa_clone(x, y) ==
    LET a == array[x]
        copy == ensure_entries([a EXCEPT !.buckets = <<>>, !.capacity = 0], a.capacity)
    IN  /\ Has(x) /\ ~Has(y)
        /\ array' = [array EXCEPT ![y] =
                IF a.packed THEN copy ELSE rehash(copy, BucketCount(a))]

pa_destroy(x) == Has(x) /\ array' = [array EXCEPT ![x] = NoArray]

-----------------------------------------------------------------------------
Init == array = [x \in Arrays |-> NoArray]

Next ==
    \E x \in Arrays :
        \/ \E hint \in 0 .. MaxHint : pa_new(x, hint)
        \/ \E input \in Inputs, value \in Values : pa_set(x, input, value)
        \/ \E input \in Inputs : pa_set_fails(x, input) \/ pa_remove(x, input)
        \/ \E value \in Values : pa_push(x, value)
        \/ \E y \in Arrays : pa_clone(x, y)
        \/ pa_destroy(x)

Spec == Init /\ [][Next]_vars

-----------------------------------------------------------------------------
(* pa_entry_at(): the first position from here on that is no tombstone,    *)
(* a.used at the end.  pa_count() and pa_get() read an array in one step.  *)
pa_entry_at(a, position) ==
    Lowest({p \in position .. a.used - 1 : a.entries[p + 1].key # Tombstone} \cup {a.used})

\* What an iteration from position 0 visits.
Elements(a) ==
    LET from[p \in 0 .. a.used] ==
            LET q == pa_entry_at(a, p) IN
            IF q = a.used THEN <<>>
            ELSE <<<<a.entries[q + 1].key, a.entries[q + 1].value>>>> \o from[q + 1]
    IN from[0]

\* What pa_get() finds: one value, or none when it returns 0.
pa_get(a, input) ==
    LET p == find_entry(a, normalize_key(input)) IN
    IF normalize_key(input) = NoKey \/ p = EMPTY_BUCKET THEN {}
    ELSE {a.entries[p + 1].value}

pa_count(a) == a.size

\* Every value the fields of an array can hold, in the ranges of their C types.
TypeOK ==
    \A x \in Arrays : Has(x) =>
        /\ array[x].packed \in BOOLEAN
        /\ array[x].size \in 0 .. array[x].used
        /\ array[x].used = Len(array[x].entries)
        /\ array[x].used <= array[x].capacity
        /\ array[x].capacity \in 0 .. UINT16_LIMIT
        /\ BucketCount(array[x]) \in 0 .. UINT16_LIMIT
        /\ array[x].next_index \in Integer
        /\ \A i \in DOMAIN array[x].entries :
              array[x].entries[i].next \in -1 .. array[x].used - 1

\* Looking a subscript up finds exactly what iterating meets under that key,
\* whatever removals, promotions, rehashes and failed insertions came before:
\* find_entry() against pa_entry_at().
LookupMatchesIteration ==
    \A x \in Arrays : Has(x) =>
        LET a == array[x]
            items == Elements(a)
        IN  /\ pa_count(a) = Len(items)
            /\ \A input \in Inputs :
                  {items[i][2] : i \in {j \in DOMAIN items : items[j][1] = normalize_key(input)}}
                  = pa_get(a, input)

\* A packed array is a list: position and key agree, nothing was removed, and
\* the next index continues it.  find_entry() and promote_hash() rely on it.
PackedIsList ==
    \A x \in Arrays : Has(x) /\ array[x].packed =>
        /\ \A i \in 1 .. array[x].used : array[x].entries[i].key = <<"int", i - 1>>
        /\ array[x].size = array[x].used /\ array[x].next_index = array[x].used

\* A hash always has a free bucket more than a quarter, so chains stay short:
\* the load factor pa_set() maintains also when one of its steps failed.
LoadFactor ==
    \A x \in Arrays : Has(x) /\ ~array[x].packed =>
        array[x].size * 4 <= BucketCount(array[x]) * 3

\* Whatever promotions, removals, rehashes and failed allocations came before,
\* the representation is one that find_entry() can search: lookups find what
\* iteration meets, packed arrays are lists and hashes are not crowded.
Searchable == TypeOK /\ LookupMatchesIteration /\ PackedIsList /\ LoadFactor

\* The arrays are the ordered maps of OrderedMap, under the map an iteration
\* shows; a failed operation changes nothing and a clone shares nothing.
Shown(a) == IF a = NoArray THEN [items |-> <<>>, next |-> -1]
            ELSE [items |-> Elements(a), next |-> a.next_index]
AsMaps == [x \in Arrays |-> Shown(array[x])]

Maps == INSTANCE OrderedMap
        WITH map <- AsMaps,
             Keys <- ({normalize_key(input) : input \in Inputs} \ {NoKey})
                     \cup {<<"int", PPHP_INT_MAXIMUM>>},
             Largest <- PPHP_INT_MAXIMUM
IsOrderedMap == Maps!Spec

\* A string is taken for an integer exactly when it is that integer's decimal
\* notation, up to the smallest and the largest integer: the digit loop of
\* numeric_string_key().  The one exception is minus zero (README, section 5).
IntegersOnly ==
    text # <<"-", "0">> =>
        LET key == numeric_string_key(text) IN
        IF \E n \in Integer : Decimal(n) = text
        THEN key[1] = "int" /\ key[2] \in Integer /\ Decimal(key[2]) = text
        ELSE key = NoKey
=============================================================================
