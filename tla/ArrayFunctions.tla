--------------------------- MODULE ArrayFunctions ---------------------------
(****************************************************************************)
(* The array functions of stdlib/arrays.c that build or rebuild an array.  *)
(* Each walks its source with pa_entry_at() and puts the entries into a    *)
(* new array with pa_set() or pa_push(); array_unshift(), array_pop() and  *)
(* array_shift() then replace the storage of the source.  An array is its  *)
(* items and the index of the next push, as in OrderedMap.  Keys and       *)
(* values are integers <<"int", n>> and strings <<"str", s>>.  The source   *)
(* and what PHP would hold in its place are kept side by side.             *)
(****************************************************************************)
EXTENDS Integers, Sequences, FiniteSets, SequencesExt

CONSTANTS
    NULL,                           \* an argument left out
    Values, Others,                 \* the arguments: values and second arrays
    Offsets,                        \* and offsets, lengths, bounds
    PPHP_INT_MAXIMUM,               \* the width of integers
    MaxSize,                        \* bound on the array; pushes stop at the maximum
    Memory,                         \* the longest array there is memory for
    AnyPop                          \* whether the last key of an array may be popped

VARIABLES subject,      \* the array the calls are made on
          php,          \* what it would be in PHP
          ok            \* the last call was refused exactly if PHP refuses it
vars == <<subject, php, ok>>

-----------------------------------------------------------------------------
(* What PHP 8.3 gives for the calls: each result stated as a whole, item   *)
(* by item, from the items of the source.                                  *)
Integer(key) == key[1] = "int"
Largest(keys) == CHOOSE n \in keys : \A m \in keys : m <= n
IntegersOf(items) == {items[k][1][2] : k \in {j \in DOMAIN items : Integer(items[j][1])}}
\* Negative keys do not count here, as in pa_set (README, section 5).
NextAfter(items) == Largest(IntegersOf(items) \cup {-1}) + 1
AsArray(items) == [items |-> items, next |-> NextAfter(items)]
Nowhere == [items |-> <<>>, next |-> -1]

\* Integer keys counted from 0 in the order of the items; other keys stay.
Counted(items) ==
    [k \in DOMAIN items |->
        IF Integer(items[k][1])
        THEN <<<<"int", Cardinality({j \in 1..(k - 1) : Integer(items[j][1])})>>, items[k][2]>>
        ELSE items[k]]
List(values) == AsArray([k \in DOMAIN values |-> <<<<"int", k - 1>>, values[k]>>])

\* A key that comes again keeps its first place and its last value.
Unique(items) ==
    LET IsFirst(k) == \A j \in 1..(k - 1) : items[j][1] # items[k][1]
        LastOf(k) == Largest({j \in DOMAIN items : items[j][1] = items[k][1]})
        places == {k \in DOMAIN items : IsFirst(k)}
        Place(n) == CHOOSE k \in places : Cardinality({j \in places : j <= k}) = n
    IN  [n \in 1..Cardinality(places) |-> <<items[Place(n)][1], items[LastOf(Place(n))][2]>>]

PhpKeysValues(a, keys) ==
    List([k \in DOMAIN a.items |-> IF keys THEN a.items[k][1] ELSE a.items[k][2]])

PhpSlice(a, offset, length, preserve) ==
    LET n == Len(a.items)
        Clamp(x) == IF x < 0 THEN 0 ELSE IF x > n THEN n ELSE x
        from == Clamp(IF offset < 0 THEN n + offset ELSE offset)
        to == IF length = NULL THEN n
              ELSE Clamp(IF length < 0 THEN n + length ELSE from + length)
        items == SubSeq(a.items, from + 1, to)
    IN  AsArray(IF preserve THEN items ELSE Counted(items))

PhpMerge(a, b) ==
    LET items == a.items \o b.items
        Kept(k) == Integer(items[k][1]) \/ \A j \in 1..(k - 1) : items[j][1] # items[k][1]
        kept == {k \in DOMAIN items : Kept(k)}
        Place(n) == CHOOSE k \in kept : Cardinality({j \in kept : j <= k}) = n
        Value(k) == IF Integer(items[k][1]) THEN items[k][2]
                    ELSE items[Largest({j \in DOMAIN items : items[j][1] = items[k][1]})][2]
    IN  AsArray(Counted([n \in 1..Cardinality(kept) |->
                            <<items[Place(n)][1], Value(Place(n))>>]))

PhpReverse(a, preserve) ==
    LET n == Len(a.items)
        items == [k \in 1..n |-> a.items[n + 1 - k]]
    IN  AsArray(IF preserve THEN items ELSE Counted(items))

PhpFill(start, count, value, maximum) ==
    IF count > 0 /\ start + count - 1 > maximum THEN Nowhere
    ELSE AsArray([k \in 1..count |-> <<<<"int", start + k - 1>>, value>>])
PhpFillKeys(a, value) ==
    AsArray(Unique([k \in DOMAIN a.items |-> <<a.items[k][2], value>>]))
PhpFlip(a) == AsArray(Unique([k \in DOMAIN a.items |-> <<a.items[k][2], a.items[k][1]>>]))
PhpCombine(a, b) ==
    IF Len(a.items) # Len(b.items) THEN Nowhere
    ELSE AsArray(Unique([k \in DOMAIN a.items |-> <<a.items[k][2], b.items[k][2]>>]))

\* start, start + step, ... while not past the end.
PhpRange(start, end, step) ==
    LET size == IF step < 0 THEN -step ELSE step
        distance == IF start <= end THEN end - start ELSE start - end
    IN  IF step = 0 THEN Nowhere
        ELSE List([k \in 1..(distance \div size + 1) |->
                      <<"int", IF start <= end THEN start + (k - 1) * size
                               ELSE start - (k - 1) * size>>])

PhpPush(a, value) ==
    [items |-> Append(a.items, <<<<"int", a.next>>, value>>), next |-> a.next + 1]
PhpUnshift(a, value) == AsArray(Counted(<<<<<<"int", 0>>, value>>>> \o a.items))
PhpShift(a) == IF a.items = <<>> THEN a ELSE AsArray(Counted(Tail(a.items)))
\* The next index goes back by one when the item popped was the last pushed.
PhpPop(a) ==
    IF a.items = <<>> THEN a
    ELSE LET n == Len(a.items)
             last == a.items[n][1]
         IN  [items |-> SubSeq(a.items, 1, n - 1),
              next |-> IF last = <<"int", a.next - 1>> THEN a.next - 1 ELSE a.next]

-----------------------------------------------------------------------------
PPHP_INT_MINIMUM == -PPHP_INT_MAXIMUM - 1
pv_int(n) == <<"int", n>>
NoArray == [items |-> <<>>, next |-> -1]

\* ------------------------------------------------------------ the array

Empty == [items |-> <<>>, next |-> 0]
pa_set(a, key, value) ==
    IF \E k \in DOMAIN a.items : a.items[k][1] = key
    THEN [a EXCEPT !.items = [k \in DOMAIN @ |-> IF @[k][1] = key THEN <<key, value>> ELSE @[k]]]
    ELSE [items |-> Append(a.items, <<key, value>>),
          next |-> IF key[1] = "int" /\ key[2] >= a.next /\ key[2] < PPHP_INT_MAXIMUM
                   THEN key[2] + 1 ELSE a.next]
pa_push(a, value) == pa_set(a, pv_int(a.next), value)

\* The items of a sequence, put in one after the other.
Built(items, Put(_, _)) == FoldLeft(Put, Empty, items)
SetItem(a, item) == pa_set(a, item[1], item[2])
PushItem(a, item) == pa_push(a, item[2])
\* append_source_entry(), and what slices and reversed arrays do.
Renumber(a, item) == IF item[1][1] = "int" THEN PushItem(a, item) ELSE SetItem(a, item)

\* ------------------------------------------------------------ the functions

call_keys_values(a, keys) ==
    Built(a.items, LAMBDA out, item : pa_push(out, IF keys THEN item[1] ELSE item[2]))

\* Mutant: a negative offset counts from the start.
SliceFromStart(size, offset) == IF offset < 0 THEN 0 ELSE IF offset > size THEN size ELSE offset

SliceOffset(size, offset) ==
    LET from == IF offset < 0 THEN size + offset ELSE offset
    IN  IF from < 0 THEN 0 ELSE IF from > size THEN size ELSE from
\* Without a length (NULL) up to the end.
SliceLength(size, from, length) ==
    IF length = NULL THEN size - from
    ELSE LET n == IF length < 0 THEN size - from + length ELSE length
         IN  IF n < 0 THEN 0 ELSE n

call_array_slice(a, offset, length, preserve) ==
    LET size == Len(a.items)
        from == SliceOffset(size, offset)
        n == SliceLength(size, from, length)
        taken == SelectSeq([k \in 1..size |-> k], LAMBDA k : k - 1 >= from /\ k - from <= n)
        items == [k \in DOMAIN taken |-> a.items[taken[k]]]
    IN  IF n > Memory THEN NoArray
        ELSE IF preserve THEN Built(items, SetItem) ELSE Built(items, Renumber)

call_array_merge(arrays) ==
    Built(FlattenSeq([k \in DOMAIN arrays |-> arrays[k].items]), Renumber)

call_array_reverse(a, preserve) ==
    IF preserve THEN Built(Reverse(a.items), SetItem) ELSE Built(Reverse(a.items), Renumber)

\* Refused when the keys would not fit.
call_array_fill(start, count, value) ==
    IF start > PPHP_INT_MAXIMUM - (count - 1) /\ count > 0 THEN NoArray
    ELSE Built([k \in 1..count |-> <<pv_int(start + k - 1), value>>], SetItem)

call_array_fill_keys(a, value) ==
    Built(a.items, LAMBDA out, item : pa_set(out, item[2], value))

call_array_flip(a) == Built(a.items, LAMBDA out, item : pa_set(out, item[2], item[1]))

call_array_combine(keys, values) ==
    IF Len(keys.items) # Len(values.items) THEN NoArray
    ELSE Built([k \in DOMAIN keys.items |-> <<keys.items[k][2], values.items[k][2]>>], SetItem)

\* The values from `value` on; the loop ends before it would overflow.
RECURSIVE RangeFrom(_, _, _, _)
RangeFrom(value, start, end, step) ==
    IF IF start <= end THEN value > end ELSE value < end THEN <<>>
    ELSE IF IF start <= end THEN value > PPHP_INT_MAXIMUM - step
            ELSE value < PPHP_INT_MINIMUM + step
         THEN <<value>>
         ELSE <<value>> \o RangeFrom(IF start <= end THEN value + step ELSE value - step,
                                     start, end, step)
call_range(start, end, step) ==
    IF step \in {0, PPHP_INT_MINIMUM} THEN NoArray
    ELSE LET numbers == RangeFrom(start, start, end, IF step < 0 THEN -step ELSE step)
         IN  Built([k \in DOMAIN numbers |-> <<pv_int(0), pv_int(numbers[k])>>], PushItem)

call_array_is_list(a) == \A k \in DOMAIN a.items : a.items[k][1] = pv_int(k - 1)

array_push(a, value) == pa_push(a, value)
array_unshift(a, value) == Built(<<<<pv_int(0), value>>>> \o a.items, Renumber)
array_shift(a) == IF a.items = <<>> THEN a ELSE Built(Tail(a.items), Renumber)
array_pop(a) == IF a.items = <<>> THEN a ELSE Built(Front(a.items), SetItem)

\* ------------------------------------------------------------ the calls

Init == subject = Empty /\ php = Empty /\ ok = TRUE

\* The result of a call takes the place of the array; a refused call does not.
Becomes(result, expected) ==
    /\ Len(expected.items) <= MaxSize
    /\ ok' = ((result = NoArray) = (expected = NoArray))
    /\ subject' = IF result = NoArray THEN subject ELSE result
    /\ php' = IF expected = NoArray THEN php ELSE expected

Keys == \E keys \in BOOLEAN : Becomes(call_keys_values(subject, keys), PhpKeysValues(php, keys))
Slice == \E offset \in Offsets, length \in Offsets \cup {NULL}, preserve \in BOOLEAN :
            Becomes(call_array_slice(subject, offset, length, preserve),
                    PhpSlice(php, offset, length, preserve))
Merge == \E other \in Others : \/ Becomes(call_array_merge(<<subject, other>>),
                                          PhpMerge(php, other))
                               \/ Becomes(call_array_merge(<<other, subject>>),
                                          PhpMerge(other, php))
ReverseIt == \E preserve \in BOOLEAN :
            Becomes(call_array_reverse(subject, preserve), PhpReverse(php, preserve))
Fill == \E start \in Offsets \cap Nat, count \in Offsets \cap Nat, value \in Values :
            Becomes(call_array_fill(start, count, value),
                    PhpFill(start, count, value, PPHP_INT_MAXIMUM))
FillKeys == \E value \in Values :
            Becomes(call_array_fill_keys(subject, value), PhpFillKeys(php, value))
Flip == Becomes(call_array_flip(subject), PhpFlip(php))
Combine == \E other \in Others : \/ Becomes(call_array_combine(subject, other),
                                            PhpCombine(php, other))
                                 \/ Becomes(call_array_combine(other, subject),
                                            PhpCombine(other, php))
\* A step that takes at least one more value in.
InRange(start, end, step) ==
    IF start < end THEN step <= end - start ELSE step \in (end - start)..(start - end)
MakeRange == \E start \in Offsets, end \in Offsets, step \in Offsets \cup {PPHP_INT_MAXIMUM} :
            /\ start > end \/ step >= 0
            /\ start = end \/ InRange(start, end, step)
            /\ Becomes(call_range(start, end, step), PhpRange(start, end, step))
\* No push behind the largest integer (README, section 5).
Push == \E value \in Values : /\ php.next <= PPHP_INT_MAXIMUM
                              /\ Becomes(array_push(subject, value), PhpPush(php, value))
Unshift == \E value \in Values : Becomes(array_unshift(subject, value), PhpUnshift(php, value))
Shift == Becomes(array_shift(subject), PhpShift(php))
Pop == /\ AnyPop \/ array_pop(subject).next = PhpPop(php).next
       /\ Becomes(array_pop(subject), PhpPop(php))

Next == \/ Keys \/ Slice \/ Merge \/ ReverseIt \/ Fill \/ FillKeys \/ Flip \/ Combine
        \/ MakeRange \/ Push \/ Unshift \/ Shift \/ Pop
Spec == Init /\ [][Next]_vars

-----------------------------------------------------------------------------
\* After any sequence of calls the array has PHP's items in PHP's order under
\* PHP's keys, and call_array_is_list() knows a list when it sees one.
ArrayAsPhp == /\ subject.items = php.items
              /\ call_array_is_list(subject) = (php.items = Counted(php.items)
                     /\ \A k \in DOMAIN php.items : Integer(php.items[k][1]))

\* The next push goes where PHP's goes.  Behind the largest integer PHP refuses
\* it; the code, which does not count that key, pushes behind another one or
\* overwrites (README, section 5).
NextAsPhp == php.next <= PPHP_INT_MAXIMUM => subject.next = php.next

\* A call is refused when PHP refuses it, and only then.
RefusedAsPhp == ok
=============================================================================
