----------------------------- MODULE OrderedMap -----------------------------
(****************************************************************************)
(* What an array promises: a sequence of key/value pairs without duplicate *)
(* keys, in insertion order, and the index the next push will use.         *)
(****************************************************************************)
EXTENDS Integers, Sequences, SequencesExt

CONSTANTS Arrays, Keys, Values,
          Largest      \* the largest integer, after which there is no next index
VARIABLE map           \* per array its items and next index; next = -1: none

Absent == [items |-> <<>>, next |-> -1]
Exists(x) == map[x].next # -1

Where(m, k) == {i \in DOMAIN m.items : m.items[i][1] = k}

After(next, k) == IF k[1] = "int" /\ k[2] >= next /\ k[2] < Largest THEN k[2] + 1 ELSE next

Stored(m, k, v) ==
    IF Where(m, k) = {} THEN [items |-> Append(m.items, <<k, v>>), next |-> After(m.next, k)]
    ELSE [m EXCEPT !.items = [i \in DOMAIN m.items |->
                                 IF i \in Where(m, k) THEN <<k, v>> ELSE m.items[i]]]

Without(m, k) ==
    IF Where(m, k) = {} THEN m
    ELSE [m EXCEPT !.items = RemoveAt(@, CHOOSE i \in Where(m, k) : TRUE)]

New(x)       == ~Exists(x) /\ map' = [map EXCEPT ![x] = [items |-> <<>>, next |-> 0]]
Set(x, k, v) == Exists(x) /\ map' = [map EXCEPT ![x] = Stored(@, k, v)]
Push(x, v)   == /\ Exists(x) /\ Where(map[x], <<"int", map[x].next>>) = {}
                /\ map' = [map EXCEPT ![x] = Stored(@, <<"int", @.next>>, v)]
Delete(x, k) == Exists(x) /\ map' = [map EXCEPT ![x] = Without(@, k)]
Clone(x, y)  == Exists(x) /\ ~Exists(y) /\ map' = [map EXCEPT ![y] = map[x]]
Destroy(x)   == Exists(x) /\ map' = [map EXCEPT ![x] = Absent]

Init == map = [x \in Arrays |-> Absent]

Next == \E x \in Arrays :
    \/ New(x) \/ Destroy(x)
    \/ \E k \in Keys : Delete(x, k) \/ \E v \in Values : Set(x, k, v)
    \/ \E v \in Values : Push(x, v)
    \/ \E y \in Arrays : Clone(x, y)

Spec == Init /\ [][Next]_map
=============================================================================
