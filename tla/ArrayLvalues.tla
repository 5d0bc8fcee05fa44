---------------------------- MODULE ArrayLvalues ----------------------------
(****************************************************************************)
(* Arrays are values in PHP: assigning one copies it.  php-pico shares the *)
(* array object and copies on the first write that finds it shared.  The   *)
(* code generator compiles writes to `$a[k][l]`, `$o->p[k]`, `C::$p[k]` as *)
(* a sequence of loads, element writes and stores through temporaries, and *)
(* the VM decides from a reference count alone whether an array may be     *)
(* written in place.  This module is the code for lvalues of               *)
(* compiler/codegen.c; ArrayVm runs it.                                    *)
(*                                                                         *)
(* An expression is a tuple: <<"lit", n>>, <<"null">>, <<"var", x>>,       *)
(* <<"array", e>> (the literal [e]), <<"read", l>>, <<"at", e, k>> (an     *)
(* element of any expression), <<"set", l, e>>,                            *)
(* <<"add", l, e>> (+=), <<"coalesce", l, e>> (??=), <<"inc", l, post>>,   *)
(* <<"unset", l>> and <<"push", root, e>> (array_push()).  An lvalue l is  *)
(* <<root, keys>> with integer keys, NoKeyGiven for `[]`.  A root is a     *)
(* variable's slot or one of Prop (`$o->p`), Dynamic (`$o->{$n}`) and      *)
(* Static (`C::$p`).                                                       *)
(****************************************************************************)
EXTENDS Integers, Sequences, SequencesExt, FiniteSets

CONSTANT Variables     \* the slots of the program's variables, 1 .. n

Prop == 0
Dynamic == -1
Static == -2
Cells == {Prop, Static}        \* `$o->p` and `$o->{$n}` name the same property
NoKeyGiven == -1

-----------------------------------------------------------------------------
(* Code is a sequence of instructions; Gen holds it with the number of     *)
(* local slots used so far.                                                *)
I(op, x) == <<[op |-> op, x |-> x]>>
Load(s)  == I("LOAD_LOCAL", s)
Store(s) == I("STORE_LOCAL", s)
Clear(s) == I("LOAD_NULL", 0) \o Store(s)

Emit(g, c) == [g EXCEPT !.code = @ \o c]
temporary_slot(g) == g.n + 1
Take(g, k) == [g EXCEPT !.n = @ + k]

CellOf(root) == IF root = Static THEN Static ELSE Prop
IsMember(root) == root \in {Prop, Dynamic, Static}

(* prepare_index_lvalue(): evaluate the root and every key once, and read  *)
(* every container but the last into a temporary slot of its own.          *)
prepare_index_lvalue(g, l) ==
    LET root == l[1]
        keys == l[2]
        depth == Len(keys)
        object == g.n + 2
        name == g.n + 3
        first == IF root \in {Prop, Dynamic} THEN g.n + 4
                 ELSE IF root = Static THEN g.n + 2 ELSE g.n + 1
        KeySlot(i) == first + 2 * (i - 1)
        ParentSlot(i) == KeySlot(i) + 1
        rootSlot == IF IsMember(root) THEN g.n + 1 ELSE root
        member == CASE root = Static  -> I("SPROP_GET", 0)
                    [] root = Prop    -> I("LOAD_OBJECT", 0) \o Store(object) \o Load(object)
                                         \o I("PROP_GET", 0)
                    [] root = Dynamic -> I("LOAD_OBJECT", 0) \o Store(object) \o Load(object)
                                         \o I("LOAD_NAME", 0) \o Store(name) \o Load(name)
                                         \o I("PROP_GET_DYNAMIC", 0)
                    [] OTHER          -> <<>>
        part(i) ==
            (IF keys[i] = NoKeyGiven THEN <<>> ELSE I("LOAD_INT", keys[i]) \o Store(KeySlot(i)))
            \o (IF i = depth THEN <<>>
                ELSE Load(IF i = 1 THEN rootSlot ELSE ParentSlot(i - 1))
                     \o Load(KeySlot(i)) \o I("IDX_GET_QUIET", 0) \o Store(ParentSlot(i)))
        parts == FlattenSeq([i \in 1 .. depth |-> part(i)])
    IN  [gen |-> [code |-> g.code \o member
                           \o (IF IsMember(root) THEN Store(rootSlot) ELSE <<>>) \o parts,
                  n |-> first + 2 * depth],
         root |-> root, rootSlot |-> rootSlot, object |-> object, name |-> name,
         depth |-> depth, appends |-> keys[depth] = NoKeyGiven,
         key |-> [i \in 1 .. depth |-> KeySlot(i)],
         parent |-> [i \in 1 .. depth |-> ParentSlot(i)]]

emit_index_parent(v, i) == Load(IF i = 1 THEN v.rootSlot ELSE v.parent[i - 1])

emit_index_current(v) ==
    emit_index_parent(v, v.depth) \o Load(v.key[v.depth]) \o I("IDX_GET", 0)

\* Mutant: the slot of the last container is forgotten.
ClearKeysOnly(v) == FlattenSeq([i \in 1 .. v.depth |-> Clear(v.key[i])])

clear_index_lvalue(v) ==
    FlattenSeq([i \in 1 .. v.depth |->
        (IF i = v.depth /\ v.appends THEN <<>> ELSE Clear(v.key[i]))
        \o (IF i < v.depth THEN Clear(v.parent[i]) ELSE <<>>)])
    \o (IF ~IsMember(v.root) THEN <<>>
        ELSE Clear(v.rootSlot)
             \o (IF v.root = Static THEN <<>> ELSE Clear(v.object))
             \o (IF v.root = Dynamic THEN Clear(v.name) ELSE <<>>))

store_index_root(v) ==
    Store(v.rootSlot)
    \o CASE v.root = Static  -> Load(v.rootSlot) \o I("SPROP_SET", 0) \o I("POP", 0)
         [] v.root = Prop    -> Load(v.object) \o Load(v.rootSlot) \o I("PROP_SET", 0)
                                \o I("POP", 0)
         [] v.root = Dynamic -> Load(v.object) \o Load(v.name) \o Load(v.rootSlot)
                                \o I("PROP_SET_DYNAMIC", 0) \o I("POP", 0)
         [] OTHER            -> <<>>

(* propagate_index_update(): with the new inner array on the stack, write  *)
(* it into its container, that one into its container, up to the root.     *)
propagate_index_update(v, update) ==
    FlattenSeq([j \in 1 .. v.depth - 1 |->
        LET i == v.depth - j IN
        Store(update) \o emit_index_parent(v, i) \o Load(v.key[i]) \o Load(update)
        \o I("IDX_SET", 0) \o I("POP", 0)])
    \o store_index_root(v) \o Clear(update)

store_index_value(v, value, update) ==
    emit_index_parent(v, v.depth)
    \o (IF v.appends THEN Load(value) \o I("IDX_APPEND", 0)
        ELSE Load(v.key[v.depth]) \o Load(value) \o I("IDX_SET", 0))
    \o I("POP", 0) \o propagate_index_update(v, update) \o Load(value)

unset_index_value(v, update) ==
    emit_index_parent(v, v.depth) \o Load(v.key[v.depth]) \o I("IDX_UNSET", 0)
    \o propagate_index_update(v, update) \o I("LOAD_NULL", 0) \o clear_index_lvalue(v)

-----------------------------------------------------------------------------
(* Reading and writing a member as a whole: compile_member_assignment() and *)
(* the access chain of a read.                                              *)
GetMember(root, object, name) ==
    CASE root = Static  -> I("SPROP_GET", 0)
      [] root = Prop    -> Load(object) \o I("PROP_GET", 0)
      [] root = Dynamic -> Load(object) \o Load(name) \o I("PROP_GET_DYNAMIC", 0)

SetMember(root, object, name, value) ==
    CASE root = Static  -> Load(value) \o I("SPROP_SET", 0)
      [] root = Prop    -> Load(object) \o Load(value) \o I("PROP_SET", 0)
      [] root = Dynamic -> Load(object) \o Load(name) \o Load(value) \o I("PROP_SET_DYNAMIC", 0)

HoldMember(root, object, name) ==
    (IF root = Static THEN <<>> ELSE I("LOAD_OBJECT", 0) \o Store(object))
    \o (IF root = Dynamic THEN I("LOAD_NAME", 0) \o Store(name) ELSE <<>>)

DropMember(root, object, name) ==
    (IF root = Static THEN <<>> ELSE Clear(object))
    \o (IF root = Dynamic THEN Clear(name) ELSE <<>>)

JumpOver(op, c) == I(op, Len(c)) \o c

RECURSIVE compile_expression(_, _)

compile_member_assignment(g, e) ==
    LET root == e[2][1]
        value == g.n + 1
        object == g.n + 2
        name == g.n + 3
        h == Emit(Take(g, 3), HoldMember(root, object, name))
        read == GetMember(root, object, name)
        rhs == compile_expression([code |-> <<>>, n |-> h.n], e[3])
        write == Store(value) \o SetMember(root, object, name, value)
        body == CASE e[1] = "set"      -> rhs.code \o write
                  [] e[1] = "add"      -> read \o rhs.code \o I("ADD", 0) \o write
                  [] e[1] = "coalesce" -> read \o JumpOver("JMP_NOTNULL_KEEP", rhs.code \o write)
    IN  [code |-> h.code \o body \o DropMember(root, object, name) \o Clear(value), n |-> rhs.n]

\* compile_increment() of a member; e[3] says that the old value is the result.
CompileMemberIncrement(g, e) ==
    LET root == e[2][1]
        value == g.n + 1
        object == g.n + 2
        name == g.n + 3
        old == g.n + 4
        keep == IF e[3] THEN I("DUP", 0) \o Store(old) ELSE <<>>
        result == IF e[3] THEN I("POP", 0) \o Load(old) ELSE <<>>
    IN  Emit(Take(g, 4),
             HoldMember(root, object, name) \o GetMember(root, object, name) \o keep
             \o I("LOAD_INT", 1) \o I("ADD", 0) \o Store(value)
             \o SetMember(root, object, name, value) \o result
             \o DropMember(root, object, name) \o Clear(value)
             \o (IF e[3] THEN Clear(old) ELSE <<>>))

\* compile_assignment() of a variable.
compile_assignment(g, e) ==
    LET x == e[2][1]
        rhs == compile_expression([code |-> <<>>, n |-> g.n], e[3])
        write == I("DUP", 0) \o Store(x)
        body == CASE e[1] = "set"      -> rhs.code \o write
                  [] e[1] = "add"      -> Load(x) \o rhs.code \o I("ADD", 0) \o write
                  [] e[1] = "coalesce" -> Load(x) \o JumpOver("JMP_NOTNULL_KEEP", rhs.code \o write)
    IN  [code |-> g.code \o body, n |-> rhs.n]

\* compile_increment() of a variable.
CompileVariableIncrement(g, e) ==
    Emit(g, Load(e[2][1]) \o (IF e[3] THEN I("DUP", 0) ELSE <<>>) \o I("LOAD_INT", 1) \o I("ADD", 0)
            \o (IF e[3] THEN <<>> ELSE I("DUP", 0)) \o Store(e[2][1]))

\* compile_index_assignment().
compile_index_assignment(g, e) ==
    LET v == prepare_index_lvalue(g, e[2])
        value == v.gen.n + 1
        update == v.gen.n + 2
        rhs == compile_expression([code |-> <<>>, n |-> v.gen.n + 2], e[3])
        write == Store(value) \o store_index_value(v, value, update)
        body == CASE e[1] = "set"      -> rhs.code \o write
                  [] e[1] = "add"      -> emit_index_current(v) \o rhs.code \o I("ADD", 0) \o write
                  [] e[1] = "coalesce" -> emit_index_parent(v, v.depth) \o Load(v.key[v.depth])
                                          \o I("IDX_GET_QUIET", 0)
                                          \o JumpOver("JMP_NOTNULL_KEEP", rhs.code \o write)
    IN  [code |-> v.gen.code \o body \o clear_index_lvalue(v) \o Clear(value), n |-> rhs.n]

\* compile_increment() of an element.
CompileIndexIncrement(g, e) ==
    LET v == prepare_index_lvalue(g, e[2])
        value == v.gen.n + 1
        update == v.gen.n + 2
        old == v.gen.n + 3
        keep == IF e[3] THEN I("DUP", 0) \o Store(old) ELSE <<>>
        result == IF e[3] THEN I("POP", 0) \o Load(old) ELSE <<>>
    IN  [code |-> v.gen.code \o emit_index_current(v) \o keep \o I("LOAD_INT", 1) \o I("ADD", 0)
                  \o Store(value) \o store_index_value(v, value, update) \o result
                  \o clear_index_lvalue(v) \o Clear(value)
                  \o (IF e[3] THEN Clear(old) ELSE <<>>),
         n |-> v.gen.n + 3]

\* Reading a chain of subscripts: compile_access_chain().
compile_access_chain(l) ==
    (CASE l[1] = Static  -> I("SPROP_GET", 0)
       [] l[1] = Prop    -> I("LOAD_OBJECT", 0) \o I("PROP_GET", 0)
       [] l[1] = Dynamic -> I("LOAD_OBJECT", 0) \o I("LOAD_NAME", 0) \o I("PROP_GET_DYNAMIC", 0)
       [] OTHER          -> Load(l[1]))
    \o FlattenSeq([i \in DOMAIN l[2] |-> I("LOAD_INT", l[2][i]) \o I("IDX_GET", 0)])

\* array_push($root, e): the array is separated and stored back before the
\* other arguments are evaluated.
CompilePush(g, e) ==
    LET root == e[2]
        array == g.n + 1
        object == g.n + 2
        rhs == compile_expression([code |-> <<>>, n |-> g.n + 2], e[3])
        separate ==
            IF ~IsMember(root) THEN Load(root) \o I("ARR_SEPARATE", 0) \o I("DUP", 0) \o Store(root)
            ELSE HoldMember(root, object, object) \o GetMember(root, object, object)
                 \o I("ARR_SEPARATE", 0) \o Store(array)
                 \o SetMember(root, object, object, array) \o I("POP", 0) \o Load(array)
                 \o Clear(array) \o DropMember(root, object, object)
    IN  [code |-> g.code \o separate \o rhs.code \o I("CALL_PUSH", 0), n |-> rhs.n]

compile_expression(g, e) ==
    CASE e[1] = "lit"   -> Emit(g, I("LOAD_INT", e[2]))
      [] e[1] = "null"  -> Emit(g, I("LOAD_NULL", 0))
      [] e[1] = "var"   -> Emit(g, Load(e[2]))
      [] e[1] = "read"  -> Emit(g, compile_access_chain(e[2]))
      [] e[1] = "at"    -> Emit(compile_expression(g, e[2]), I("LOAD_INT", e[3]) \o I("IDX_GET", 0))
      [] e[1] = "array" -> Emit(compile_expression(Emit(g, I("NEW_ARRAY", 0)), e[2]),
                                I("ARR_PUSH", 0))
      [] e[1] = "push"  -> CompilePush(g, e)
      [] e[1] = "unset" -> LET v == prepare_index_lvalue(g, e[2]) IN
                           [code |-> v.gen.code \o unset_index_value(v, v.gen.n + 1),
                            n |-> v.gen.n + 1]
      [] OTHER -> IF e[2][2] = <<>>
                  THEN IF IsMember(e[2][1])
                       THEN IF e[1] = "inc" THEN CompileMemberIncrement(g, e)
                            ELSE compile_member_assignment(g, e)
                       ELSE IF e[1] = "inc" THEN CompileVariableIncrement(g, e)
                            ELSE compile_assignment(g, e)
                  ELSE IF e[1] = "inc" THEN CompileIndexIncrement(g, e)
                  ELSE compile_index_assignment(g, e)

\* Each expression statement drops its value.
CompileProgram(p) ==
    LET n0 == Cardinality(Variables)
        each[i \in 0 .. Len(p)] ==
            IF i = 0 THEN [code |-> <<>>, n |-> n0]
            ELSE Emit(compile_expression(each[i - 1], p[i]), I("POP", 0))
    IN  Emit(each[Len(p)], I("HALT", 0))
=============================================================================
