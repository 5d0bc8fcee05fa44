------------------------------ MODULE Codegen ------------------------------
(***************************************************************************)
(* The code generator of compiler/codegen.c for the control structures of  *)
(* the language: statements, jumps, exception tables, short circuits,      *)
(* calls.  A program is an abstract syntax tree (records with a kind k);   *)
(* the generator g holds what the C struct holds, and every compile_       *)
(* operator maps the generator before a construct to the one after it.     *)
(* An instruction is one element of g.code, so addresses count             *)
(* instructions where the C code counts bytes.  Jumps are relative to the  *)
(* instruction after them, as in the code.                                 *)
(***************************************************************************)
EXTENDS Integers, Sequences, FiniteSets, SequencesExt

CONSTANTS JumpRange,     \* farthest relative jump an operand can hold (INT16)
          LoopMax,       \* PPHP_PARSE_DEPTH_MAX: nesting of loops
          JumpMax,       \* breaks and continues of a function (256 in the code:
                         \* the table of jumps keeps those that are patched)
          ArgumentMax    \* arguments of a call (31)

ASSUME LimitsAssumption == {JumpRange, LoopMax, JumpMax, ArgumentMax} \subseteq Nat

----------------------------------------------------------------------------
\* Values: a type and a number that identifies the value within it.

Value(t, n) == [t |-> t, n |-> n]
Null == Value("null", 0)
Bool(b) == Value("bool", IF b THEN 1 ELSE 0)
Num(n) == Value("int", n)

\* Classes of exceptions are numbers: 1, 2 are the program's own.
Error == 8
UnhandledMatchError == 9
Throwable == 0
FinallyEntry == -1       \* UINT16_MAX in the class column: matches everything

\* A fresh generator for a function whose parameters are params.
NewGenerator(params) ==
    [code |-> <<>>, locals |-> params, catches |-> <<>>, loops |-> <<>>,
     jumps |-> <<>>, finally |-> <<>>, failed |-> FALSE]

fail(g) == [g EXCEPT !.failed = TRUE]

Emit(g, op, arg) == [g EXCEPT !.code = Append(@, [op |-> op, arg |-> arg])]

\* The address of the next instruction (code_length).
Here(g) == Len(g.code) + 1

\* emit_jump leaves the target open; its operand is at the address before.
emit_jump(g, op) == Emit(g, op, 0)
JumpAt(g) == Len(g.code)

patch_jump(g, at, target) ==
    IF target - (at + 1) \in (-JumpRange)..JumpRange
    THEN [g EXCEPT !.code[at].arg = target - (at + 1)] ELSE fail(g)

\* patch_jump() to the next instruction.
patch_jump_here(g, at) == patch_jump(g, at, Here(g))

emit_back_jump(g, target) == patch_jump(emit_jump(g, "JMP"), Here(g), target)

\* Patch each of the jumps at the addresses ats to the next instruction.
PatchAll(g, ats) == FoldLeft(patch_jump_here, g, ats)

\* pproto_add_local finds a name or adds it.
WithLocal(g, name) ==
    IF name \in ToSet(g.locals) THEN g ELSE [g EXCEPT !.locals = Append(@, name)]
SlotOf(g, name) == CHOOSE i \in DOMAIN g.locals : g.locals[i] = name

\* Names of compiler temporaries carry the number of locals, so they are new.
exception_slot(g) == [kind |-> "exception", id |-> Len(g.locals)]
ReturnSlot == [kind |-> "return", id |-> 0]

----------------------------------------------------------------------------
\* Loops, switches and the jumps out of them.

PushLoop(g, kind) ==
    IF Len(g.loops) >= LoopMax THEN fail(g)
    ELSE [g EXCEPT !.loops = Append(@, [kind |-> kind, finally |-> Len(g.finally)])]
PopLoop(g) == [g EXCEPT !.loops = Front(@)]

\* Breaks go to end; continues go to again, but leave a switch like a break.
patch_loop_jumps(g, index, end, again) ==
    LET goes(j) == IF j.continue /\ g.loops[index].kind # "switch"
                   THEN again ELSE end
        Patch(h, i) == IF h.jumps[i].patched \/ h.jumps[i].loop # index THEN h
                       ELSE [patch_jump(h, h.jumps[i].at, goes(h.jumps[i]))
                               EXCEPT !.jumps[i].patched = TRUE]
    IN  FoldLeft(Patch, g, [i \in DOMAIN g.jumps |-> i])

\* The end of a loop or switch: breaks go to the next instruction.
CloseLoop(g, again) == PopLoop(patch_loop_jumps(g, Len(g.loops), Here(g), again))

\* What a jump takes off the operand stack on its way out of contexts
\* Len(loops), ..., keep + 1.
LeaveContexts(g, keep) ==
    LET cleanup(i) == CASE g.loops[i].kind = "foreach" -> <<"FE_FREE">>
                        [] g.loops[i].kind = "switch" -> <<"POP">>
                        [] OTHER -> <<>>
        ops == FlattenSeq([i \in 1..(Len(g.loops) - keep) |->
                              cleanup(Len(g.loops) + 1 - i)])
    IN  FoldLeft(LAMBDA h, op : Emit(h, op, 0), g, ops)

\* Mutant: a jump out of the loop forgets the iterator it leaves on the stack.
LeavesTarget(g, target, continue) == target

\* The number of contexts that stay: continue stays in its loop.
ContextsKept(g, target, continue) ==
    IF continue /\ g.loops[target].kind # "switch" THEN target ELSE target - 1

RECURSIVE compile_statement(_, _), compile_expression(_, _), CompileEach(_, _, _),
          TransferFinally(_, _)

\* Inlines the finally blocks from the innermost to the first above keep.
TransferFinally(g, keep) ==
    IF Len(g.finally) <= keep THEN g
    ELSE TransferFinally(
            compile_statement([g EXCEPT !.finally = Front(@)], Last(g.finally)), keep)

\* Mutant: jumps skip the finally blocks they leave.
TransferNothing(g, keep) == g

compile_transfer_finally_blocks(g, keep) ==
    [TransferFinally(g, keep) EXCEPT !.finally = g.finally]

record_loop_jump(g, node, continue) ==
    LET target == Len(g.loops) - node.level + 1
        f == compile_transfer_finally_blocks(g, g.loops[target].finally)
        c == LeaveContexts(f, ContextsKept(g, target, continue))
        j == emit_jump(c, "JMP")
    IN  IF node.level = 0 \/ node.level > Len(g.loops) \/ Len(g.jumps) >= JumpMax
        THEN fail(g)
        ELSE [j EXCEPT !.jumps = Append(@, [at |-> JumpAt(j), loop |-> target,
                                             continue |-> continue, patched |-> FALSE])]

----------------------------------------------------------------------------
\* Expressions.

\* Compile the expressions es; with drop, each result is popped.
CompileEach(g, es, drop) ==
    FoldLeft(LAMBDA h, e : LET v == compile_expression(h, e)
                           IN  IF drop THEN Emit(v, "POP", 0) ELSE v, g, es)

ShortCircuit ==
    [and |-> "JMP_UNLESS_KEEP", or |-> "JMP_IF_KEEP", coalesce |-> "JMP_NOTNULL_KEEP",
     elvis |-> "JMP_IF_KEEP"]

compile_quiet_expression(g, node) ==
    IF node.k = "var"
    THEN LET h == WithLocal(g, node.name) IN Emit(h, "LOAD_LOCAL_QUIET", SlotOf(h, node.name))
    ELSE compile_expression(g, node)

compile_short_circuit(g, node) ==
    LET left == IF node.op = "coalesce" THEN compile_quiet_expression(g, node.left)
                ELSE compile_expression(g, node.left)
        Right(jump) == patch_jump_here(compile_expression(jump, node.right), JumpAt(jump))
    IN  Right(emit_jump(left, ShortCircuit[node.op]))

compile_assignment(g, node) ==
    LET named == WithLocal(g, node.name)
        slot == SlotOf(named, node.name)
        Store(h) == Emit(Emit(compile_expression(h, node.right), "DUP", 0), "STORE_LOCAL", slot)
        Unless(test) == patch_jump_here(Store(test), JumpAt(test))
    IN  IF node.op = "coalesce"
        THEN Unless(emit_jump(Emit(named, "LOAD_LOCAL_QUIET", slot), "JMP_NOTNULL_KEEP"))
        ELSE Store(named)

CompileTernary(g, node) ==
    LET Right(t, skip) == patch_jump_here(compile_expression(patch_jump_here(t, skip), node.right),
                                          JumpAt(t))
        Left(c) == Right(emit_jump(compile_expression(c, node.left), "JMP"), JumpAt(c))
    IN  Left(emit_jump(compile_expression(g, node.cond), "JMP_UNLESS"))

\* The tests of a match or a switch: a conditional jump per arm, to be patched.
TestArms(g, node, op) ==
    LET Tested(h, j) == [h EXCEPT !.g = j, !.tests = Append(@, JumpAt(j))]
        Test(h, arm) ==
            IF arm.default THEN h
            ELSE Tested(h, emit_jump(Emit(compile_expression(Emit(h.g, "DUP", 0), arm.cond),
                                          op, 0), "JMP_IF"))
    IN  FoldLeft(Test, [g |-> compile_expression(g, node.subject), tests |-> <<>>], node.arms)

\* An arm begins here: its test jumps to it.
ReachArm(h, arm) == IF arm.default THEN h.g ELSE patch_jump_here(h.g, Head(h.tests))
TestsLeft(h, arm) == IF arm.default THEN h.tests ELSE Tail(h.tests)
DefaultAt(h, arm) == IF arm.default THEN Here(h.g) ELSE h.default

\* match: one test per condition, then one handler per arm; without a default
\* arm an UnhandledMatchError is thrown.
CompileMatch(g, node) ==
    LET Ended(h, arm, b) == [g |-> b, ends |-> Append(h.ends, JumpAt(b)),
                             tests |-> TestsLeft(h, arm), default |-> DefaultAt(h, arm)]
        Arm(h, arm) ==
            Ended(h, arm, emit_jump(compile_expression(Emit(ReachArm(h, arm), "POP", 0),
                                                       arm.result), "JMP"))
        Unhandled(b) == Emit(Emit(Emit(b, "POP", 0), "NEW_OBJ", UnhandledMatchError), "THROW", 0)
        End(arms, miss) ==
            PatchAll(IF arms.default = 0 THEN Unhandled(patch_jump_here(arms.g, miss))
                     ELSE patch_jump(arms.g, miss, arms.default), arms.ends)
        Arms(tested) ==
            End(FoldLeft(Arm, [g |-> emit_jump(tested.g, "JMP"), ends |-> <<>>,
                               tests |-> tested.tests, default |-> 0], node.arms), Here(tested.g))
    IN  Arms(TestArms(g, node, "IDENT"))

CompileCall(g, node) ==
    IF Len(node.args) > ArgumentMax THEN fail(g)
    ELSE Emit(CompileEach(g, node.args, FALSE), "CALL",
              [name |-> node.callee, count |-> Len(node.args)])

CompileIsset(g, node) ==
    Emit(Emit(compile_quiet_expression(g, node.left), "LOAD_CONST", Null), "NIDENT", 0)

compile_expression(g, node) ==
    IF g.failed THEN g ELSE
    CASE node.k = "lit" -> Emit(g, "LOAD_CONST", node.value)
      [] node.k = "array" -> Emit(g, "LOAD_CONST", Value("array", node.count))
      [] node.k = "var" -> LET h == WithLocal(g, node.name)
                           IN  Emit(h, "LOAD_LOCAL", SlotOf(h, node.name))
      [] node.k = "assign" -> compile_assignment(g, node)
      [] node.k = "short" -> compile_short_circuit(g, node)
      [] node.k = "not" -> Emit(compile_expression(g, node.left), "NOT", 0)
      [] node.k = "isset" -> CompileIsset(g, node)
      [] node.k = "ternary" -> CompileTernary(g, node)
      [] node.k = "match" -> CompileMatch(g, node)
      [] node.k = "new" -> Emit(g, "NEW_OBJ", node.class)
      [] node.k = "call" -> CompileCall(g, node)
      [] node.k = "throwx" -> Emit(compile_expression(g, node.left), "THROW", 0)

----------------------------------------------------------------------------
\* Statements.

CompileIf(g, node) ==
    LET Else(t, skip) ==
            IF node.else.k = "none" THEN patch_jump_here(t, skip)
            ELSE patch_jump_here(compile_statement(patch_jump_here(emit_jump(t, "JMP"), skip),
                                                   node.else), Here(t))
        Then(c) == Else(compile_statement(c, node.body), JumpAt(c))
    IN  Then(emit_jump(compile_expression(g, node.cond), "JMP_UNLESS"))

CompileWhile(g, node) ==
    LET Body(l, exit) ==
            IF l.failed THEN l
            ELSE CloseLoop(patch_jump_here(emit_back_jump(compile_statement(l, node.body),
                                                          Here(g)), exit), Here(g))
        Test(c) == Body(PushLoop(c, "loop"), JumpAt(c))
    IN  Test(emit_jump(compile_expression(g, node.cond), "JMP_UNLESS"))

CompileDoWhile(g, node) ==
    LET Again(c, test) == CloseLoop(patch_jump(c, JumpAt(c), Here(g)), test)
        Test(b) == Again(emit_jump(compile_expression(b, node.cond), "JMP_IF"), Here(b))
        Body(l) == IF l.failed THEN l ELSE Test(compile_statement(l, node.body))
    IN  Body(PushLoop(g, "loop"))

CompileFor(g, node) ==
    LET Steps(b, start, exit) ==
            CloseLoop(patch_jump_here(emit_back_jump(CompileEach(b, node.step, TRUE), start),
                                      exit), Here(b))
        Body(l, start, exit) ==
            IF l.failed THEN l ELSE Steps(compile_statement(l, node.body), start, exit)
        Tested(c, start) == Body(PushLoop(c, "loop"), start, JumpAt(c))
        Test(i) == Tested(emit_jump(compile_expression(i, node.cond), "JMP_UNLESS"), Here(i))
    IN  Test(CompileEach(g, node.init, TRUE))

CompileForeach(g, node) ==
    LET Body(l, start) ==
            CloseLoop(patch_jump_here(emit_back_jump(compile_statement(l, node.body), start),
                                      start), start)
        Walk(i, slot) == Body(PushLoop(Emit(emit_jump(i, "FE_NEXT"), "STORE_LOCAL", slot),
                                       "foreach"), Here(i))
        Start(h) == Walk(Emit(compile_expression(h, node.iter), "FE_INIT", 0),
                         SlotOf(h, node.name))
    IN  IF Len(g.loops) >= LoopMax THEN fail(g) ELSE Start(WithLocal(g, node.name))

CompileSwitch(g, node) ==
    LET Case(h, arm) == [g |-> compile_statement(ReachArm(h, arm), arm.body),
                         tests |-> TestsLeft(h, arm), default |-> DefaultAt(h, arm)]
        End(cases, miss) ==
            CloseLoop(patch_jump(Emit(cases.g, "POP", 0), miss,
                                 IF cases.default = 0 THEN Here(cases.g) ELSE cases.default),
                      Here(cases.g))
        Cases(tested) ==
            End(FoldLeft(Case, [g |-> PushLoop(emit_jump(tested.g, "JMP"), "switch"),
                                tests |-> tested.tests, default |-> 0], node.arms),
                Here(tested.g))
    IN  IF Len(g.loops) >= LoopMax THEN fail(g) ELSE Cases(TestArms(g, node, "EQ"))

\* A return inside try with finally parks its value while the blocks run.
CompileReturn(g, node) ==
    LET Returned(f) == Emit(Emit(f, "LOAD_LOCAL", SlotOf(f, ReturnSlot)), "RET", 0)
        Parked(h) == Emit(compile_expression(h, node.expr), "STORE_LOCAL", SlotOf(h, ReturnSlot))
    IN  IF g.finally # <<>>
        THEN Returned(compile_transfer_finally_blocks(Parked(WithLocal(g, ReturnSlot)), 0))
        ELSE Emit(compile_expression(g, node.expr), "RET", 0)

\* The ranges the finally handler covers: the try block and each catch body.
FinallyRanges(start, end, bodies) ==
    <<[from |-> start, to |-> end]>> \o SelectSeq(bodies, LAMBDA r : r.from # r.to)

AddCatch(g, range, handler, class, slot) ==
    [g EXCEPT !.catches = Append(@, [from |-> range.from, to |-> range.to,
                                      handler |-> handler, class |-> class, slot |-> slot])]

CompileTry(g, node) ==
    LET hasFinally == node.finally.k # "none"
        pending == exception_slot(g)
        Guarded(q) == IF hasFinally THEN [q EXCEPT !.finally = Append(@, node.finally)] ELSE q
        Unguarded(q) == [q EXCEPT !.finally = g.finally]
        Finally(q) == IF hasFinally THEN compile_statement(q, node.finally) ELSE q
        Caught(q, b, x) == [g |-> x, ends |-> Append(q.ends, JumpAt(x)),
                            bodies |-> Append(q.bodies, [from |-> Here(q.g), to |-> Here(b)])]
        Handled(q, b) == Caught(q, b, emit_jump(Finally(b), "JMP"))
        Entries(q, v, clause, try) ==
            FoldLeft(LAMBDA r, class : AddCatch(r, try, Here(q.g), class, SlotOf(v, clause.name)),
                     v, clause.classes)
        Clause(q, clause, try) ==
            Handled(q, Unguarded(compile_statement(
                Guarded(Entries(q, WithLocal(q.g, clause.name), clause, try)), clause.body)))
        Rethrow(q, ranges, slot) ==
            Emit(Emit(compile_statement(
                FoldLeft(LAMBDA r, range : AddCatch(r, range, Here(q), FinallyEntry, slot), q, ranges),
                node.finally), "LOAD_LOCAL", slot), "THROW", 0)
        End(clauses, try, slot) ==
            PatchAll(Finally(patch_jump_here(
                IF hasFinally
                THEN Rethrow(clauses.g, FinallyRanges(try.from, try.to, clauses.bodies), slot)
                ELSE clauses.g, try.to)), clauses.ends)
        Catches(body, try, slot) ==
            End(FoldLeft(LAMBDA q, clause : Clause(q, clause, try),
                         [g |-> emit_jump(body, "JMP"), ends |-> <<>>, bodies |-> <<>>],
                         node.catches), try, slot)
        Tried(body, slot) == Catches(body, [from |-> Here(g), to |-> Here(body)], slot)
        Body(h) == Tried(Unguarded(compile_statement(Guarded(h), node.body)), SlotOf(h, pending))
    IN  Body(IF hasFinally THEN WithLocal(g, pending) ELSE g)

\* Mutant: the skip is measured the wrong way round.
StaticBackwards(g, node) ==
    LET h == WithLocal(g, node.name)
        s == Emit(h, "STATIC_INIT", [slot |-> SlotOf(h, node.name), skip |-> 0])
        e == Emit(compile_expression(s, node.expr), "STORE_LOCAL", SlotOf(h, node.name))
    IN  [e EXCEPT !.code[JumpAt(s)].arg.skip = Here(s) - Here(e)]

\* static $x = e: the initializer is skipped when the variable exists.
CompileStatic(g, node) ==
    LET h == WithLocal(g, node.name)
        s == Emit(h, "STATIC_INIT", [slot |-> SlotOf(h, node.name), skip |-> 0])
        e == Emit(compile_expression(s, node.expr), "STORE_LOCAL", SlotOf(h, node.name))
    IN  [e EXCEPT !.code[JumpAt(s)].arg.skip = Here(e) - Here(s)]

\* Every statement begins with OP_LINE; its operand here is the number of
\* values that enclosing foreach and switch statements keep on the stack.
Held(g) == Len(SelectSeq(g.loops, LAMBDA l : l.kind # "loop"))

compile_statement(gen, node) ==
    LET g == Emit(gen, "LINE", Held(gen)) IN
    IF gen.failed \/ node.k = "none" THEN gen ELSE
    CASE node.k = "block" -> FoldLeft(compile_statement, g, node.stmts)
      [] node.k = "expr" -> Emit(compile_expression(g, node.expr), "POP", 0)
      [] node.k = "echo" -> Emit(CompileEach(g, node.exprs, FALSE), "ECHO", Len(node.exprs))
      [] node.k = "if" -> CompileIf(g, node)
      [] node.k = "while" -> CompileWhile(g, node)
      [] node.k = "do" -> CompileDoWhile(g, node)
      [] node.k = "for" -> CompileFor(g, node)
      [] node.k = "foreach" -> CompileForeach(g, node)
      [] node.k = "switch" -> CompileSwitch(g, node)
      [] node.k = "break" -> record_loop_jump(g, node, FALSE)
      [] node.k = "continue" -> record_loop_jump(g, node, TRUE)
      [] node.k = "return" -> CompileReturn(g, node)
      [] node.k = "throw" -> Emit(compile_expression(g, node.expr), "THROW", 0)
      [] node.k = "try" -> CompileTry(g, node)
      [] node.k = "static" -> CompileStatic(g, node)
      [] node.k = "global" -> LET h == WithLocal(g, node.name)
                              IN  Emit(h, "BIND_GLOBAL", SlotOf(h, node.name))

----------------------------------------------------------------------------
\* Functions and programs.

\* A parameter with a default: evaluated when fewer arguments were passed.
compile_parameter_defaults(g, params) ==
    LET Given(t, i) ==
            patch_jump_here(Emit(compile_expression(t, params[i].default), "STORE_LOCAL", i), JumpAt(t))
        Default(h, i) ==
            IF params[i].default.k = "none" THEN h
            ELSE Given(emit_jump(Emit(Emit(Emit(h, "LOAD_ARGC", 0), "LOAD_CONST", Num(i - 1)),
                                      "GT", 0), "JMP_IF"), i)
    IN  FoldLeft(Default, g, [i \in DOMAIN params |-> i])

compile_function(fn, last) ==
    LET names == [i \in DOMAIN fn.params |-> fn.params[i].name]
    IN  Emit(compile_statement(compile_parameter_defaults(NewGenerator(names), fn.params),
                               fn.body), last, 0)

\* The prototypes of a program: its entry point and its one function.
pc_codegen_program(program) ==
    LET units == [main |-> [params |-> <<>>, body |-> program.main], f |-> program.f]
        last == [main |-> "HALT", f |-> "RET_NULL"]
    IN  [unit \in DOMAIN units |-> compile_function(units[unit], last[unit])]

Required(fn) == Len(SelectSeq(fn.params, LAMBDA p : p.default.k = "none"))
============================================================================
