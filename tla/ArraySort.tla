------------------------------ MODULE ArraySort -----------------------------
(****************************************************************************)
(* sort(), rsort(), usort() and their relatives, call_array_sort() of      *)
(* stdlib/arrays.c: the entries are taken out of the array, each with a    *)
(* reference of its own, sorted by insertion, one comparison at a time, and *)
(* put into a new storage that replaces the old one.  A comparison of      *)
(* usort() calls PHP code, which may answer anything and may fail.  An     *)
(* entry is known by its position in the array before the call.            *)
(****************************************************************************)
EXTENDS Integers, Sequences, FiniteSets

CONSTANTS
    MaxSize, Ranks          \* the arrays: up to MaxSize values of these ranks

ASSUME SortConstants == MaxSize \in Nat /\ Ranks \subseteq Int

VARIABLES
    source,                 \* the ranks of the values, in the order of the array
    function,               \* "sort", "rsort" or "usort"
    order,                  \* the entries of the array, in its order
    refs,                   \* how many references to each entry are held
    sortable, filled,       \* `entries' and `used', counted from 0
    outer, insert, current, \* `outer' is the variable `i' of its loop
    at                      \* where call_array_sort() is

sortVars == <<source, function, order, refs, sortable, filled, outer, insert, current, at>>
locals == <<sortable, filled, outer, insert, current>>

Ids == DOMAIN source
Nobody == 0
Range0(n) == [k \in 0..(n - 1) |-> k + 1]

SortTypeOK ==
    /\ filled \in 0..Len(source) /\ insert \in 0..Len(source)
    /\ outer \in 0..Len(source) \cup {1}
    /\ current \in Ids \cup {Nobody}
    /\ \A k \in DOMAIN order : order[k] \in Ids
    /\ refs \in [Ids -> Int]
    /\ at \in {"start", "outer", "compare", "rebuild", "done", "failed"}

SortInit ==
    /\ source \in UNION {[1..n -> Ranks] : n \in 0..MaxSize}
    /\ function \in {"sort", "rsort", "usort"}
    /\ order = [k \in DOMAIN source |-> k]
    /\ refs = [k \in DOMAIN source |-> 1]
    /\ sortable = Range0(0) /\ filled = 0 /\ outer = 0 /\ insert = 0 /\ current = Nobody
    /\ at = "start"

\* pa_entry_at() for each entry; it retains what it gives out.
Collect ==
    /\ at = "start"
    /\ sortable' = Range0(Len(source)) /\ filled' = Len(source)
    /\ refs' = [k \in Ids |-> refs[k] + 1]
    /\ outer' = 1 /\ at' = "outer"
    /\ UNCHANGED <<source, function, order, insert, current>>

\* No memory for the entries.
CollectFails ==
    /\ at = "start" /\ source # <<>>
    /\ at' = "failed"
    /\ UNCHANGED <<source, function, order, refs, locals>>

\* The next entry to insert, or all are in place.
Outer ==
    /\ at = "outer"
    /\ IF outer < filled
       THEN /\ current' = sortable[outer] /\ insert' = outer /\ at' = "compare"
            /\ UNCHANGED <<source, function, order, refs, sortable, filled, outer>>
       ELSE /\ at' = "rebuild"
            /\ UNCHANGED <<source, function, order, refs, locals>>

Sign(n) == IF n < 0 THEN -1 ELSE IF n > 0 THEN 1 ELSE 0
compare_sortable(left, right) ==
    CASE function = "sort" -> {Sign(source[left] - source[right])}
      [] function = "rsort" -> {-Sign(source[left] - source[right])}
      [] function = "usort" -> {-1, 0, 1}

\* Mutant: equal entries change places.
StopAtSmaller(compared) == compared < 0

StopsAt(compared) == compared <= 0

\* entries[insert] = current, and on to the next one.
Place == /\ sortable' = [sortable EXCEPT ![insert] = current]
         /\ outer' = outer + 1 /\ current' = Nobody /\ at' = "outer"
         /\ UNCHANGED <<source, function, order, refs, filled, insert>>

Shift == /\ sortable' = [sortable EXCEPT ![insert] = sortable[insert - 1]]
         /\ insert' = insert - 1
         /\ UNCHANGED <<source, function, order, refs, filled, outer, current, at>>

Compare ==
    /\ at = "compare"
    /\ \/ insert = 0 /\ Place
       \/ /\ insert > 0
          /\ \E compared \in compare_sortable(sortable[insert - 1], current) :
                IF StopsAt(compared) THEN Place ELSE Shift

\* release_sortable(): one reference for each slot.
Slots(id) == Cardinality({k \in 0..(filled - 1) : sortable[k] = id})
Released == [k \in Ids |-> refs[k] - Slots(k)]

\* The callback threw or its result is no number, or pv_compare() does not
\* know how to compare two values.
CompareFails ==
    /\ at = "compare" /\ insert > 0
    /\ refs' = Released /\ at' = "failed"
    /\ UNCHANGED <<source, function, order, locals>>

\* No memory for the new storage, which may hold some entries already.
RebuildFails ==
    /\ at = "rebuild"
    /\ refs' = Released
    /\ at' = "failed"
    /\ UNCHANGED <<source, function, order, locals>>

\* The new storage retains the entries, the old one and the slots let go.
Rebuild ==
    /\ at = "rebuild"
    /\ order' = [k \in 1..filled |-> sortable[k - 1]]
    /\ refs' = [k \in Ids |-> refs[k] + Slots(k) - 1 - Slots(k)]
    /\ at' = "done"
    /\ UNCHANGED <<source, function, locals>>

SortNext == Collect \/ CollectFails \/ Outer \/ Compare \/ CompareFails \/ RebuildFails \/ Rebuild
SortSpec == SortInit /\ [][SortNext]_sortVars

-----------------------------------------------------------------------------
(* What a sort promises.  A comparison that fails while an entry is on its *)
(* way to its place is left aside: current is then in no slot and another  *)
(* entry in two, which is released once too often.                         *)

\* A sort that ends, or that fails for want of memory, leaves each entry with
\* one reference, the array's.
OwnedOnce == (at \in {"done", "failed"} /\ current = Nobody) => \A k \in Ids : refs[k] = 1

\* The array has the entries it had; a sort that failed left them in place.
KeepsEntries ==
    /\ {order[k] : k \in DOMAIN order} = Ids /\ Len(order) = Len(source)
    /\ at = "failed" => order = [k \in DOMAIN source |-> k]

\* sort() and rsort() leave the values in order, equal ones as they were.
InOrder(a, b) ==
    LET less == IF function = "sort" THEN source[a] < source[b] ELSE source[a] > source[b]
    IN  less \/ (source[a] = source[b] /\ a < b)
SortedStably ==
    (at = "done" /\ function # "usort") =>
        \A j, k \in DOMAIN order : j < k => InOrder(order[j], order[k])

\* Every sort ends, whatever its callback answers: each step leaves fewer to
\* go, at most n(n + 3) + 4 for n entries.
Rounds(left) == left * (Len(source) + 3)
StepsLeft ==
    CASE at = "start"   -> Rounds(Len(source)) + 4
      [] at = "outer"   -> Rounds(Len(source) + 1 - outer) + 3
      [] at = "compare" -> Rounds(Len(source) - outer) + 4 + insert
      [] at = "rebuild" -> 1
      [] OTHER          -> 0
Advances == [][0 <= StepsLeft' /\ StepsLeft' < StepsLeft]_sortVars

\* A sort keeps every entry, owned once, on its error paths too, leaves equal
\* values as they were, and ends whatever a callback answers (call_array_sort).
SortsStably == [](OwnedOnce /\ KeepsEntries /\ SortedStably) /\ Advances
=============================================================================
