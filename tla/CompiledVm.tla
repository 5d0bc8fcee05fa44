----------------------------- MODULE CompiledVm -----------------------------
(***************************************************************************)
(* The interpreter loop of src/vm.c running what Codegen generates: the    *)
(* operand stack that also holds the locals, the frames, jumps, foreach    *)
(* iterators, calls, and the exception tables.  One step is one            *)
(* instruction; a throw, with all the frames it unwinds, is part of it.    *)
(* Variables are main's (globals), static, or slots of the frame, as in    *)
(* slot_storage.                                                           *)
(***************************************************************************)
EXTENDS PhpReference

CONSTANTS Sources,       \* names of the programs to run
          Source(_),     \* the syntax tree of each
          StackSlots,    \* PPHP_STACK_SLOTS
          MaxReads       \* inputs a run may ask for

ASSUME BoundsAssumption == {StackSlots, MaxReads, FrameMax} \subseteq Nat

VARIABLES prog,          \* the program
          code,          \* its prototypes: the module the VM runs
          reads,         \* answers the input builtin gave so far
          m              \* the VM

vars == <<prog, code, reads, m>>

FrameOf(fn, base, argc) ==
    [fn |-> fn, pc |-> 1, base |-> base, argc |-> argc, global |-> {}, static |-> {}]

Proto(fn) == code[fn]
Top == Last(m.frames)
Instr == Proto(Top.fn).code[Top.pc]
Arg == Instr.arg

Init ==
    /\ prog \in Sources
    /\ code = pc_codegen_program(Source(prog))
    /\ reads = <<>>
    /\ m = [stack |-> [i \in 1..Len(Proto("main").locals) |-> Null],
            frames |-> <<FrameOf("main", 0, 0)>>, out |-> <<>>,
            globals |-> Nothing, statics |-> Nothing,
            status |-> IF \E fn \in {"main", "f"} : Proto(fn).failed
                       THEN "refused" ELSE "running",
            uncaught |-> 0]

----------------------------------------------------------------------------
\* The machine m is passed along: v is the machine an operator starts from.

Cur(v) == Last(v.frames)
SetCur(v, frame) == [v EXCEPT !.frames = Append(Front(@), frame)]
Peek(v) == Last(v.stack)
pop(v) == [v EXCEPT !.stack = Front(@)]
Advance(v) == [v EXCEPT !.frames[Len(v.frames)].pc = @ + 1]
jump_relative(v, rel) == [v EXCEPT !.frames[Len(v.frames)].pc = @ + rel]
Cut(v, n) == [v EXCEPT !.stack = SubSeq(@, 1, n)]

slot_storage(v, slot) ==
    IF slot \in Cur(v).static THEN "static"
    ELSE IF Cur(v).fn = "main" \/ slot \in Cur(v).global THEN "global" ELSE "local"
NameOf(v, slot) == Proto(Cur(v).fn).locals[slot]

read_local_value(v, slot) ==
    CASE slot_storage(v, slot) = "static" -> At(v.statics, <<Cur(v).fn, NameOf(v, slot)>>)
      [] slot_storage(v, slot) = "global" -> At(v.globals, NameOf(v, slot))
      [] OTHER -> v.stack[Cur(v).base + slot]

store_local_value(v, slot, value) ==
    CASE slot_storage(v, slot) = "static" ->
            [v EXCEPT !.statics = Put(@, <<Cur(v).fn, NameOf(v, slot)>>, value)]
      [] slot_storage(v, slot) = "global" ->
            [v EXCEPT !.globals = Put(@, NameOf(v, slot), value)]
      [] OTHER -> [v EXCEPT !.stack[Cur(v).base + slot] = value]

\* The first entry of the frame's table that covers pc and takes the exception.
Handlers(v, exception, pc) ==
    SelectSeq(Proto(Cur(v).fn).catches, LAMBDA e :
        /\ e.from <= pc /\ pc < e.to
        /\ e.class = FinallyEntry \/ IsA(exception, e.class))

\* What a handler starts from: only the locals of its frame are left.
ToLocals(v) == Cut(v, Cur(v).base + Len(Proto(Cur(v).fn).locals))

RECURSIVE throw_exception(_, _, _)
throw_exception(v, exception, pc) ==
    LET h == Handlers(v, exception, pc)
        stored == store_local_value(ToLocals(v), h[1].slot, exception)
        left == [Cut(v, Cur(v).base) EXCEPT !.frames = Front(@)]
    IN  IF h # <<>>
        THEN [stored EXCEPT !.frames[Len(v.frames)].pc = h[1].handler]
        ELSE IF left.frames = <<>>
             THEN [left EXCEPT !.status = "uncaught", !.uncaught = exception.n]
             ELSE throw_exception(left, exception, Cur(left).pc - 1)

\* convert_runtime_error: an error of an instruction becomes an Error object.
RuntimeError(v) == throw_exception(v, Value("object", Error), Cur(v).pc - 1)

push(v, value) ==
    IF Len(v.stack) >= StackSlots THEN RuntimeError(v)
    ELSE [v EXCEPT !.stack = Append(@, value)]

----------------------------------------------------------------------------
\* Instructions.

Running == m.status = "running"
Fetch(ops) == Running /\ Instr.op \in ops
Frozen == UNCHANGED <<prog, code, reads>>

Line ==
    /\ Fetch({"LINE"})
    /\ m' = Advance(m)
    /\ Frozen

StackOp ==
    /\ Fetch({"POP", "DUP", "NOT", "LOAD_CONST", "LOAD_ARGC", "NEW_OBJ"})
    /\ LET v == Advance(m) IN
       m' = CASE Instr.op = "POP" -> pop(v)
              [] Instr.op = "DUP" -> push(v, Peek(v))
              [] Instr.op = "NOT" -> push(pop(v), Bool(~Truthy(Peek(v))))
              [] Instr.op = "LOAD_CONST" -> push(v, Arg)
              [] Instr.op = "LOAD_ARGC" -> push(v, Num(Top.argc))
              [] Instr.op = "NEW_OBJ" -> push(v, Value("object", Arg))
    /\ Frozen

execute_compare ==
    /\ Fetch({"EQ", "IDENT", "NIDENT", "GT"})
    /\ LET v == Advance(m)
           right == Peek(v)
           left == Peek(pop(v))
           truth == CASE Instr.op \in {"EQ", "IDENT"} -> left = right
                      [] Instr.op = "NIDENT" -> left # right
                      [] Instr.op = "GT" -> left.n > right.n
       IN  m' = push(pop(pop(v)), Bool(truth))
    /\ Frozen

LocalOp ==
    /\ Fetch({"LOAD_LOCAL", "LOAD_LOCAL_QUIET", "STORE_LOCAL"})
    /\ LET v == Advance(m) IN
       m' = IF Instr.op = "STORE_LOCAL" THEN store_local_value(pop(v), Arg, Peek(v))
            ELSE push(v, read_local_value(v, Arg))
    /\ Frozen

BindOp ==
    /\ Fetch({"BIND_GLOBAL", "STATIC_INIT"})
    /\ LET v == Advance(m)
           global == [Top EXCEPT !.pc = @ + 1, !.global = @ \cup {Arg}, !.static = @ \ {Arg}]
           static == [Top EXCEPT !.pc = @ + 1, !.static = @ \cup {Arg.slot},
                                 !.global = @ \ {Arg.slot}]
           bound == [SetCur(v, static) EXCEPT !.stack[Top.base + Arg.slot] = Null]
       IN  m' = IF Instr.op = "BIND_GLOBAL"
                THEN [SetCur(v, global) EXCEPT !.stack[Top.base + Arg] = Null]
                ELSE IF <<Top.fn, NameOf(v, Arg.slot)>> \in DOMAIN m.statics
                     THEN jump_relative(bound, Arg.skip) ELSE bound
    /\ Frozen

Jump ==
    /\ Fetch({"JMP", "JMP_IF", "JMP_UNLESS", "JMP_IF_KEEP", "JMP_UNLESS_KEEP",
              "JMP_NOTNULL_KEEP"})
    /\ LET v == Advance(m)
           keeps == Instr.op \in {"JMP_IF_KEEP", "JMP_UNLESS_KEEP", "JMP_NOTNULL_KEEP"}
           taken == CASE Instr.op = "JMP" -> TRUE
                      [] Instr.op \in {"JMP_IF", "JMP_IF_KEEP"} -> Truthy(Peek(v))
                      [] Instr.op \in {"JMP_UNLESS", "JMP_UNLESS_KEEP"} -> ~Truthy(Peek(v))
                      [] Instr.op = "JMP_NOTNULL_KEEP" -> Peek(v) # Null
           popped == IF Instr.op = "JMP" \/ (keeps /\ taken) THEN v ELSE pop(v)
       IN  m' = IF taken THEN jump_relative(popped, Arg) ELSE popped
    /\ Frozen

Echo ==
    /\ Fetch({"ECHO"})
    /\ LET v == Advance(m)
           base == Len(m.stack) - Arg
       IN  m' = [Cut(v, base) EXCEPT !.out = @ \o SubSeq(m.stack, base + 1, Len(m.stack))]
    /\ Frozen

\* An iterator is a resource value: its number packs the length and the
\* position of the array it walks.
IterSize == 10
ForeachInit ==
    /\ Fetch({"FE_INIT"})
    /\ LET v == pop(Advance(m)) IN
       m' = IF Peek(m).t = "array" THEN push(v, Value("resource", Peek(m).n * IterSize))
            ELSE RuntimeError(v)
    /\ Frozen

ForeachNext ==
    /\ Fetch({"FE_NEXT"})
    /\ LET v == Advance(m)
           at == Peek(v).n % IterSize
           moved == [v EXCEPT !.stack[Len(v.stack)].n = @ + 1]
       IN  m' = IF v.stack = <<>> \/ Peek(v).t # "resource" THEN RuntimeError(v)
                ELSE IF at = Peek(v).n \div IterSize THEN jump_relative(pop(v), Arg)
                ELSE push(moved, Num(at + 1))
    /\ Frozen

ForeachFree ==
    /\ Fetch({"FE_FREE"})
    /\ LET v == Advance(m) IN
       m' = IF v.stack = <<>> \/ Peek(v).t # "resource" THEN RuntimeError(v) ELSE pop(v)
    /\ Frozen

\* A builtin: here the one that asks for input.
CallBuiltin ==
    /\ Fetch({"CALL"}) /\ Arg.name = "read"
    /\ \E b \in IF Len(reads) < MaxReads THEN BOOLEAN ELSE {FALSE} :
          /\ reads' = IF Len(reads) < MaxReads THEN Append(reads, b) ELSE reads
          /\ m' = push(Cut(Advance(m), Len(m.stack) - Arg.count), Bool(b))
    /\ UNCHANGED <<prog, code>>

\* The arguments become the first locals; the other slots are undefined.
bind_arguments(v, argc, base) ==
    LET n == Len(Proto("f").locals)
        given == IF argc < Len(Source(prog).f.params) THEN argc ELSE Len(Source(prog).f.params)
    IN  [Cut(v, base) EXCEPT !.stack = @ \o [i \in 1..n |->
            IF i <= given THEN v.stack[base + i] ELSE Null]]

call_function ==
    /\ Fetch({"CALL"}) /\ Arg.name # "read"
    /\ LET v == Advance(m)
           base == Len(m.stack) - Arg.count
       IN  m' = IF \/ Arg.count < Required(Source(prog).f)
                   \/ Len(m.frames) >= FrameMax
                   \/ base + Len(Proto("f").locals) >= StackSlots
                THEN RuntimeError(v)
                ELSE [bind_arguments(v, Arg.count, base)
                        EXCEPT !.frames = Append(@, FrameOf("f", base, Arg.count))]
    /\ Frozen

return_from_function ==
    /\ Fetch({"RET", "RET_NULL"})
    /\ LET result == IF Instr.op = "RET" THEN Peek(m) ELSE Null
           left == [Cut(m, Top.base) EXCEPT !.frames = Front(@)]
       IN  m' = IF left.frames = <<>> THEN [left EXCEPT !.status = "halted"]
                ELSE push(left, result)
    /\ Frozen

Throw ==
    /\ Fetch({"THROW"})
    /\ m' = throw_exception(pop(m), Peek(m), Top.pc)
    /\ Frozen

Halt ==
    /\ Fetch({"HALT"})
    /\ m' = [m EXCEPT !.stack = <<>>, !.frames = <<>>, !.status = "halted"]
    /\ Frozen

Finished == m.status # "running" /\ UNCHANGED vars

Step ==
    \/ Line \/ StackOp \/ execute_compare \/ LocalOp \/ BindOp \/ Jump \/ Echo
    \/ ForeachInit \/ ForeachNext \/ ForeachFree
    \/ CallBuiltin \/ call_function \/ return_from_function \/ Throw \/ Halt

Next == Step \/ Finished

Spec == Init /\ [][Next]_vars
FairSpec == Spec /\ WF_vars(Step)

----------------------------------------------------------------------------
\* Properties.

TypeOK ==
    /\ prog \in Sources
    /\ reads \in BoundedSeq(BOOLEAN, MaxReads)
    /\ m.status \in {"running", "halted", "uncaught", "refused"}
    /\ Len(m.frames) <= FrameMax /\ Len(m.stack) <= StackSlots

(* A finished program has printed what its source means, and ended with the
   exception its source ends with: compile_statement and compile_expression
   place every jump, cleanup, finally block and exception range of
   compiler/codegen.c so that the interpreter of src/vm.c follows the source. *)
RunsAsWritten ==
    m.status \in {"halted", "uncaught"} =>
        LET meaning == Meaning(Source(prog), reads)
        IN  m.out = meaning.out /\ m.uncaught = meaning.uncaught

\* What an instruction takes off the operand stack, or looks at.
Operands ==
    CASE Instr.op \in {"POP", "DUP", "NOT", "STORE_LOCAL", "JMP_IF", "JMP_UNLESS",
                       "JMP_IF_KEEP", "JMP_UNLESS_KEEP", "JMP_NOTNULL_KEEP", "FE_INIT",
                       "FE_NEXT", "FE_FREE", "RET", "THROW"} -> 1
      [] Instr.op \in {"EQ", "IDENT", "NIDENT", "GT"} -> 2
      [] Instr.op = "ECHO" -> Arg
      [] Instr.op = "CALL" -> Arg.count
      [] OTHER -> 0

(* Whichever way an instruction is reached - falling into it, by a jump, by
   break, continue or return through finally blocks, by an exception - its
   operands lie above the locals of its frame (pop of src/vm.c only checks for
   an empty stack, and would take a local), foreach finds its iterator on top,
   and a statement starts with no more on the stack than one value for every
   enclosing foreach and switch, so nothing piles up. *)
StackDiscipline ==
    Running =>
        LET floor == Top.base + Len(Proto(Top.fn).locals) IN
        /\ Len(m.stack) >= floor + Operands
        /\ (Instr.op \in {"FE_NEXT", "FE_FREE"}) => (Peek(m).t = "resource")
        /\ (Instr.op = "LINE") => (Len(m.stack) <= floor + Arg)

(* Every program ends: break, continue, finally and rethrow leave no cycle
   that does not consume input. *)
ProgramsFinish == <>(m.status # "running")
============================================================================
