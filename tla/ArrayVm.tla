------------------------------- MODULE ArrayVm -------------------------------
(****************************************************************************)
(* The VM's array instructions (src/vm.c), executing the code of           *)
(* ArrayLvalues one instruction at a time over shared, reference-counted   *)
(* arrays, and what PHP says the same program does to arrays that are      *)
(* values.  The elements of an array are a function from integer keys;     *)
(* PArray shows that the real representation is such a map.                *)
(****************************************************************************)
EXTENDS ArrayLvalues, Functions

CONSTANTS
    Programs,          \* the programs to run: sequences of expressions
    MaxArrays,         \* bound of the model: arrays alive at a time
    MaxSlots           \* bound of the model: variables and temporaries

-----------------------------------------------------------------------------
(* What PHP says the expressions of ArrayLvalues do, with arrays that are  *)
(* plain values <<"arr", elements, next index>> and no sharing anywhere.   *)
(* The right-hand side of an assignment is evaluated before the containers *)
(* on its left are fetched.                                                *)

RNull == <<"null", 0>>
REmpty == <<"arr", [k \in {} |-> RNull], 0>>
RIsArray(v) == v[1] = "arr"
RCell(root) == IF root = -1 THEN 0 ELSE root     \* `$o->{$n}` is `$o->p`

RGet(v, k) == IF RIsArray(v) /\ k \in DOMAIN v[2] THEN v[2][k] ELSE RNull

RPut(v, k, new) == <<"arr", [i \in DOMAIN v[2] \cup {k} |-> IF i = k THEN new ELSE v[2][i]],
                     IF k >= v[3] THEN k + 1 ELSE v[3]>>

RWithout(v, k) == <<"arr", [i \in DOMAIN v[2] \ {k} |-> v[2][i]], v[3]>>

RECURSIVE RRead(_, _), RCanRead(_, _), RWrite(_, _, _), RCanWrite(_, _), RRemove(_, _), RCanRemove(_, _)
RRead(v, keys) == IF keys = <<>> THEN v ELSE RRead(RGet(v, Head(keys)), Tail(keys))

\* Where PHP warns that a number has no elements, php-pico stops with an error.
RCanRead(v, keys) ==
    keys = <<>> \/ (v[1] \in {"null", "arr"} /\ RCanRead(RGet(v, Head(keys)), Tail(keys)))

\* The value with a new element at a path; null turns into an array on the way.
RCanWrite(v, keys) ==
    keys = <<>> \/ (v[1] \in {"null", "arr"} /\ RCanWrite(RGet(v, Head(keys)), Tail(keys)))
RWrite(v, keys, new) ==
    IF keys = <<>> THEN new
    ELSE LET base == IF RIsArray(v) THEN v ELSE REmpty
             k == IF Head(keys) = -1 THEN base[3] ELSE Head(keys)
         IN  RPut(base, k, RWrite(RGet(base, k), Tail(keys), new))

\* Removing what is not there does nothing.
RCanRemove(v, keys) == v[1] \in {"null", "arr"} /\ (Len(keys) = 1 \/ RCanRemove(RGet(v, Head(keys)), Tail(keys)))
RRemove(v, keys) ==
    IF ~RIsArray(v) \/ Head(keys) \notin DOMAIN v[2] THEN v
    ELSE IF Len(keys) = 1 THEN RWithout(v, Head(keys))
    ELSE RPut(v, Head(keys), RRemove(v[2][Head(keys)], Tail(keys)))

RToNumber(v) == IF v[1] = "int" THEN v[2] ELSE 0

-----------------------------------------------------------------------------
\* Evaluation returns the value, the variables and cells after it, and whether
\* an error ended it.
Result(v, env) == [val |-> v, env |-> env, ok |-> TRUE]
Failed(env) == [val |-> RNull, env |-> env, ok |-> FALSE]

StoreAt(env, l, new) ==
    LET x == RCell(l[1]) IN
    IF RCanWrite(env[x], l[2]) THEN Result(new, [env EXCEPT ![x] = RWrite(@, l[2], new)])
    ELSE Failed(env)

RAdd(a, b) == <<"int", RToNumber(a) + RToNumber(b)>>

RECURSIVE Eval(_, _)
Eval(e, env) ==
    LET l == e[2]
        rhs == Eval(e[3], env)
        x == RCell(l[1])
    IN
    CASE e[1] = "lit"   -> Result(<<"int", e[2]>>, env)
      [] e[1] = "null"  -> Result(RNull, env)
      [] e[1] = "var"   -> Result(env[e[2]], env)
      [] e[1] = "read"  -> IF RCanRead(env[x], l[2]) THEN Result(RRead(env[x], l[2]), env)
                           ELSE Failed(env)
      [] e[1] = "at"    -> LET r == Eval(e[2], env) IN
                           IF ~r.ok \/ ~RCanRead(r.val, <<e[3]>>) THEN Failed(r.env)
                           ELSE [r EXCEPT !.val = RGet(@, e[3])]
      [] e[1] = "array" -> LET r == Eval(e[2], env) IN [r EXCEPT !.val = RPut(REmpty, 0, @)]
      [] e[1] = "set"   -> IF ~rhs.ok THEN rhs ELSE StoreAt(rhs.env, l, rhs.val)
      [] e[1] = "add"   -> IF ~rhs.ok THEN rhs
                           ELSE LET now == RRead(rhs.env[x], l[2]) IN
                                IF RIsArray(now) \/ RIsArray(rhs.val) THEN Failed(rhs.env)
                                ELSE StoreAt(rhs.env, l, RAdd(now, rhs.val))
      [] e[1] = "coalesce" -> LET now == RRead(env[x], l[2]) IN
                              IF now # RNull THEN Result(now, env)
                              ELSE IF ~rhs.ok THEN rhs ELSE StoreAt(rhs.env, l, rhs.val)
      [] e[1] = "inc"   -> LET now == RRead(env[x], l[2])
                               done == StoreAt(env, l, RAdd(now, <<"int", 1>>))
                           IN  IF RIsArray(now) THEN Failed(env)
                               ELSE IF e[3] /\ done.ok THEN [done EXCEPT !.val = now] ELSE done
      [] e[1] = "unset" -> IF RCanRemove(env[x], l[2])
                           THEN Result(RNull, [env EXCEPT ![x] = RRemove(@, l[2])]) ELSE Failed(env)
      [] e[1] = "push"  -> LET y == RCell(e[2]) IN
                           IF ~RIsArray(env[y]) THEN Failed(env)
                           ELSE IF ~rhs.ok THEN rhs
                           ELSE LET a == RPut(rhs.env[y], rhs.env[y][3], rhs.val)
                                IN  Result(<<"int", Cardinality(DOMAIN a[2])>>, [rhs.env EXCEPT ![y] = a])

Meaning(p, variables, cells) ==
    LET run[i \in 0 .. Len(p)] ==
            IF i = 0 THEN Result(RNull, [x \in variables \cup cells |-> RNull])
            ELSE IF ~run[i - 1].ok THEN run[i - 1] ELSE Eval(p[i], run[i - 1].env)
    IN  [status |-> IF run[Len(p)].ok THEN "done" ELSE "error", env |-> run[Len(p)].env]

-----------------------------------------------------------------------------
(* The machine.                                                            *)

VARIABLES
    program,           \* the program being run
    code, pc,          \* its code and the index of the next instruction
    slots,             \* local slots: variables, then temporaries
    stack,             \* the operand stack
    heap,              \* array objects: reference count, elements, next index
    cells,             \* the property `$o->p` and the static property `C::$p`
    status             \* "running", "done" or "error"
vars == <<program, code, pc, slots, stack, heap, cells, status>>

Null == <<"null", 0>>
Number(n) == <<"int", n>>
IsArray(v) == v[1] = "arr"
Unused == [rc |-> 0, elems |-> <<>>, next |-> 0]
NoElements == [k \in {} |-> Null]

-----------------------------------------------------------------------------
retain(h, v) == IF IsArray(v) THEN [h EXCEPT ![v[2]].rc = @ + 1] ELSE h

ElementsOf(a) == LET keys == SetToSeq(DOMAIN a.elems) IN [i \in DOMAIN keys |-> a.elems[keys[i]]]

RECURSIVE release(_, _)
ReleaseAll(h, values) == FoldSeq(LAMBDA v, acc : release(acc, v), h, values)
RetainAll(h, values) == FoldSeq(LAMBDA v, acc : retain(acc, v), h, values)

\* pv_release(): the last reference frees the array and releases its elements.
release(h, v) ==
    IF ~IsArray(v) THEN h
    ELSE IF h[v[2]].rc > 1 THEN [h EXCEPT ![v[2]].rc = @ - 1]
    ELSE ReleaseAll([h EXCEPT ![v[2]] = Unused], ElementsOf(h[v[2]]))

FreshId(h) == CHOOSE i \in 1 .. MaxArrays : h[i].rc = 0 /\ \A j \in 1 .. i - 1 : h[j].rc # 0

pa_new(h) == [heap |-> [h EXCEPT ![FreshId(h)] = [rc |-> 1, elems |-> NoElements, next |-> 0]],
              value |-> <<"arr", FreshId(h)>>]

pa_clone(h, id) ==
    [heap |-> RetainAll([h EXCEPT ![FreshId(h)] = [h[id] EXCEPT !.rc = 1]], ElementsOf(h[id])),
     value |-> <<"arr", FreshId(h)>>]

\* Mutant: one reference too many is taken for harmless.
ForWriteShares(h, v) == IF h[v[2]].rc <= 3 THEN [heap |-> h, value |-> v]
                        ELSE LET copy == pa_clone(h, v[2])
                             IN [copy EXCEPT !.heap = release(copy.heap, v)]

(* array_for_write() and the release of the original: an array with two    *)
(* references, the variable's and the operand stack's, is written in place. *)
array_for_write(h, v) ==
    IF h[v[2]].rc <= 2 THEN [heap |-> h, value |-> v]
    ELSE LET copy == pa_clone(h, v[2]) IN [copy EXCEPT !.heap = release(copy.heap, v)]

\* pa_set() and pa_remove() on the elements; the array takes its own reference.
pa_set(h, id, key, v) ==
    LET a == h[id]
        old == IF key \in DOMAIN a.elems THEN a.elems[key] ELSE Null
        kept == [a EXCEPT !.elems = [k \in DOMAIN a.elems \cup {key} |->
                                        IF k = key THEN v ELSE a.elems[k]],
                          !.next = IF key >= @ THEN key + 1 ELSE @]
    IN  release([retain(h, v) EXCEPT ![id] =
                    [kept EXCEPT !.rc = retain(h, v)[id].rc]], old)

pa_remove(h, id, key) ==
    IF key \notin DOMAIN h[id].elems THEN h
    ELSE release([h EXCEPT ![id].elems = Restrict(@, DOMAIN @ \ {key})], h[id].elems[key])

-----------------------------------------------------------------------------
(* The instructions.  Top(1) is the top of the stack.  An instruction      *)
(* says what replaces the n operands it pops, what it does to the heap and *)
(* where control goes.                                                     *)
Top(i) == stack[Len(stack) + 1 - i]
Replace(n, pushed) == stack' = SubSeq(stack, 1, Len(stack) - n) \o pushed
Continue == pc' = pc + 1 /\ status' = status

Fail == /\ status' = "error" /\ stack' = <<>> /\ heap' = ReleaseAll(heap, stack)
        /\ UNCHANGED <<pc, slots, cells>>

Fetch(op) == status = "running" /\ code[pc].op = op /\ UNCHANGED <<program, code>>
X == code[pc].x

Push(v) == Replace(0, <<v>>) /\ heap' = retain(heap, v) /\ Continue /\ UNCHANGED <<slots, cells>>

\* OP_LOAD_*: a variable, a literal, the object `$o`, the name `$n`.
LoadOp == \/ Fetch("LOAD_LOCAL")  /\ Push(slots[X])
          \/ Fetch("LOAD_INT")    /\ Push(Number(X))
          \/ Fetch("LOAD_NULL")   /\ Push(Null)
          \/ Fetch("LOAD_OBJECT") /\ Push(<<"obj", 0>>)
          \/ Fetch("LOAD_NAME")   /\ Push(<<"name", 0>>)
          \/ Fetch("DUP")         /\ Push(Top(1))

StoreOp == /\ Fetch("STORE_LOCAL") /\ Replace(1, <<>>) /\ Continue
           /\ heap' = release(heap, slots[X])
           /\ slots' = [slots EXCEPT ![X] = Top(1)] /\ UNCHANGED cells

PopOp == /\ Fetch("POP") /\ Replace(1, <<>>) /\ Continue
         /\ heap' = release(heap, Top(1)) /\ UNCHANGED <<slots, cells>>

ToNumber(v) == IF v[1] = "int" THEN v[2] ELSE 0
AddOp ==
    /\ Fetch("ADD")
    /\ IF IsArray(Top(1)) \/ IsArray(Top(2)) THEN Fail
       ELSE /\ Replace(2, <<Number(ToNumber(Top(1)) + ToNumber(Top(2)))>>)
            /\ Continue /\ UNCHANGED <<heap, slots, cells>>

JumpOp ==
    /\ Fetch("JMP_NOTNULL_KEEP")
    /\ IF Top(1) # Null THEN pc' = pc + X + 1 /\ UNCHANGED <<stack, status>>
       ELSE Replace(1, <<>>) /\ Continue
    /\ UNCHANGED <<heap, slots, cells>>

(* execute_index_get() *)
execute_index_get(quiet) ==
    LET key == Top(1)[2]
        base == Top(2)
        value == IF IsArray(base) /\ key \in DOMAIN heap[base[2]].elems
                 THEN heap[base[2]].elems[key] ELSE Null
    IN  IF ~IsArray(base) /\ base # Null /\ ~quiet THEN Fail
        ELSE /\ Replace(2, <<value>>) /\ Continue
             /\ heap' = release(retain(heap, value), base) /\ UNCHANGED <<slots, cells>>

IndexGetOp == \/ Fetch("IDX_GET") /\ execute_index_get(FALSE)
              \/ Fetch("IDX_GET_QUIET") /\ execute_index_get(TRUE)

(* execute_array_set(): null becomes an array, a shared array is copied.   *)
execute_array_set(append) ==
    LET value == Top(1)
        n == IF append THEN 2 ELSE 3
        base == Top(n)
        made == IF base = Null THEN pa_new(heap) ELSE [heap |-> heap, value |-> base]
        w == array_for_write(made.heap, made.value)
        key == IF append THEN w.heap[w.value[2]].next ELSE Top(2)[2]
    IN  IF ~IsArray(base) /\ base # Null THEN Fail
        ELSE /\ Replace(n, <<w.value, value>>) /\ Continue
             /\ heap' = pa_set(w.heap, w.value[2], key, value)
             /\ UNCHANGED <<slots, cells>>

IndexSetOp == \/ Fetch("IDX_SET") /\ execute_array_set(FALSE)
              \/ Fetch("IDX_APPEND") /\ execute_array_set(TRUE)

(* execute_array_unset() *)
execute_array_unset ==
    /\ Fetch("IDX_UNSET")
    /\ IF ~IsArray(Top(2)) THEN Fail
       ELSE LET w == array_for_write(heap, Top(2)) IN
            /\ Replace(2, <<w.value>>) /\ Continue
            /\ heap' = pa_remove(w.heap, w.value[2], Top(1)[2]) /\ UNCHANGED <<slots, cells>>

NewArrayOp == /\ Fetch("NEW_ARRAY") /\ Replace(0, <<pa_new(heap).value>>) /\ Continue
              /\ heap' = pa_new(heap).heap /\ UNCHANGED <<slots, cells>>

\* OP_ARR_PUSH of a literal, and the native array_push(), write without asking.
PushElement(result) ==
    LET id == Top(2)[2] IN
    /\ Replace(2, result) /\ Continue /\ UNCHANGED <<slots, cells>>
    /\ heap' = LET stored == release(pa_set(heap, id, heap[id].next, Top(1)), Top(1))
               IN  IF result = <<Top(2)>> THEN stored ELSE release(stored, Top(2))

PushOp == \/ Fetch("ARR_PUSH") /\ PushElement(<<Top(2)>>)
          \/ /\ Fetch("CALL_PUSH")
             /\ PushElement(<<Number(Cardinality(DOMAIN heap[Top(2)[2]].elems) + 1)>>)

SeparateOp ==
    /\ Fetch("ARR_SEPARATE")
    /\ IF ~IsArray(Top(1)) THEN Fail
       ELSE LET w == array_for_write(heap, Top(1)) IN
            /\ Replace(1, <<w.value>>) /\ Continue /\ heap' = w.heap /\ UNCHANGED <<slots, cells>>

\* OP_PROP_GET, OP_PROP_SET and their dynamic and static forms: n operands
\* besides the value name the property.
GetCell(cell, n) == /\ Replace(n, <<cells[cell]>>) /\ Continue
                    /\ heap' = retain(heap, cells[cell]) /\ UNCHANGED <<slots, cells>>
SetCell(cell, n) == /\ Replace(n + 1, <<Top(1)>>) /\ Continue
                    /\ heap' = release(retain(heap, Top(1)), cells[cell])
                    /\ cells' = [cells EXCEPT ![cell] = Top(1)] /\ UNCHANGED slots

PropertyOp == \/ Fetch("PROP_GET") /\ GetCell(Prop, 1)
              \/ Fetch("PROP_GET_DYNAMIC") /\ GetCell(Prop, 2)
              \/ Fetch("SPROP_GET") /\ GetCell(Static, 0)
              \/ Fetch("PROP_SET") /\ SetCell(Prop, 1)
              \/ Fetch("PROP_SET_DYNAMIC") /\ SetCell(Prop, 2)
              \/ Fetch("SPROP_SET") /\ SetCell(Static, 0)

Halt == Fetch("HALT") /\ status' = "done" /\ UNCHANGED <<pc, slots, stack, heap, cells>>

Init ==
    /\ program \in Programs
    /\ code = CompileProgram(program).code /\ pc = 1
    /\ slots = [i \in 1 .. MaxSlots |-> Null]
    /\ stack = <<>> /\ heap = [i \in 1 .. MaxArrays |-> Unused]
    /\ cells = [c \in Cells |-> Null] /\ status = "running"

Next == \/ LoadOp \/ StoreOp \/ PopOp \/ AddOp \/ JumpOp \/ IndexGetOp \/ IndexSetOp
        \/ execute_array_unset \/ NewArrayOp \/ PushOp \/ SeparateOp \/ PropertyOp \/ Halt
        \/ status # "running" /\ UNCHANGED vars

Spec == Init /\ [][Next]_vars /\ WF_vars(Next)

-----------------------------------------------------------------------------
(* What a program can see: arrays as values. *)
RECURSIVE Seen(_, _)
Seen(h, v) == IF IsArray(v)
              THEN <<"arr", [k \in DOMAIN h[v[2]].elems |-> Seen(h, h[v[2]].elems[k])], h[v[2]].next>>
              ELSE v

View == [x \in Variables \cup Cells |->
            IF x \in Variables THEN Seen(heap, slots[x]) ELSE Seen(heap, cells[x])]

\* Every value is well formed and names a live array.
TypeOK ==
    LET Value == {Null, <<"obj", 0>>, <<"name", 0>>} \cup {Number(n) : n \in -20 .. 20}
                 \cup {<<"arr", i>> : i \in {j \in DOMAIN heap : heap[j].rc > 0}}
    IN  /\ status \in {"running", "done", "error"} /\ pc \in DOMAIN code
        /\ \A i \in DOMAIN slots : slots[i] \in Value
        /\ \A i \in DOMAIN stack : stack[i] \in Value
        /\ \A c \in Cells : cells[c] \in Value
        /\ \A i \in DOMAIN heap : Range(heap[i].elems) \subseteq Value

\* The count of an array is the number of its holders, on every path through
\* the element writes and their errors: too low frees a live array, too high
\* leaks it (and makes every later write a copy).
CountsAreExact ==
    \A i \in DOMAIN heap :
        heap[i].rc = Cardinality({s \in DOMAIN slots : slots[s] = <<"arr", i>>})
                     + Cardinality({s \in DOMAIN stack : stack[s] = <<"arr", i>>})
                     + Cardinality({c \in Cells : cells[c] = <<"arr", i>>})
                     + Cardinality({p \in (1 .. MaxArrays) \X (0 .. 9) :
                            /\ p[2] \in DOMAIN heap[p[1]].elems
                            /\ heap[p[1]].elems[p[2]] = <<"arr", i>>})

\* Arrays are values: a finished program has left in its variables and
\* properties what PHP would, also where they once shared an array.
MatchesPhp == status # "running" => Meaning(program, Variables, Cells) = [status |-> status, env |-> View]

\* One instruction changes what one variable or property shows, never two: a
\* write in place is not visible through another name of the array.
OneNameAtATime ==
    [][Cardinality({x \in Variables \cup Cells : View[x] # View'[x]}) <= 1]_vars

\* A finished program holds nothing in compiler temporaries, so that arrays and
\* objects die when the program drops them: clear_index_lvalue() and friends.
TemporariesCleared ==
    status = "done" => stack = <<>> /\ \A i \in DOMAIN slots \ Variables : slots[i] = Null

\* Every program comes to its end.
Finishes == <>(status # "running")

\* Every array is held exactly as often as it is counted, and a program that
\* has ended holds none in temporaries (pv_retain, clear_index_lvalue).
HoldersCounted == TypeOK /\ CountsAreExact /\ TemporariesCleared

\* Arrays are values, at the end and at every step: what PHP would have left is
\* left, and a write shows under one name only (array_for_write); and every
\* program comes to its end.
ArraysAreValues == []MatchesPhp /\ OneNameAtATime /\ Finishes
=============================================================================
