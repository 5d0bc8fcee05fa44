----------------------------- MODULE Definitions -----------------------------
(***************************************************************************)
(* Classes, functions, modules and includes of a runtime state             *)
(* (src/src/state.c, src/src/module.c and the parts of src/src/vm.c that   *)
(* run a nested VM).                                                       *)
(*                                                                         *)
(* Every nested VM - an included file, a callback, a destructor - runs on a *)
(* copy of the C structure pphp_state.  The copy shares the memory of the  *)
(* class table and of the list of modules until one of the copies moves    *)
(* them with realloc, and its counts are its own.  vms is the stack of     *)
(* those structures: the first one is the state the embedder opened (the   *)
(* root), the last one is running.                                         *)
(***************************************************************************)
EXTENDS Naturals, Sequences, FiniteSets, SequencesExt

CONSTANTS Names,       \* class names
          Functions,   \* function names
          Files,       \* what can be included
          Sources,     \* chunks the embedder executes
          Defines,     \* the functions each file or chunk defines statically
          Kinds,       \* which nested VMs the run allows
          MaxDepth,    \* bound: VMs on the stack
          MaxVms,      \* bound: VMs ever started
          FirstClasses,  \* capacity of the first class table (8 in the code)
          FirstModules,  \* capacity of the first list of modules (8)
          MaxFunctions   \* limit of the table of runtime functions (512)

DefinitionsAssumption ==
  /\ Defines \in [Files \cup Sources -> SUBSET Functions]
  /\ Names \cap Functions = {} /\ "callback" \notin Files \cup Sources
  /\ Kinds \subseteq {"include", "invoke", "destructor"}
  /\ {MaxDepth, MaxVms, FirstClasses, FirstModules, MaxFunctions} \subseteq Nat \ {0}

ASSUME ConstantsAreDefinitions == DefinitionsAssumption

VARIABLES vms,        \* the stack of states
          blocks,     \* heap blocks ever allocated for the tables
          modules,    \* modules ever made: their source and reference count
          functions,  \* root->runtime_functions
          included,   \* root->included_files
          live,       \* classes not yet released
          known,      \* what PHP says is declared: classes and functions
          done        \* files whose include_once has completed

vars == <<vms, blocks, modules, functions, included, live, known, done>>

Null == <<>>

(***************************************************************************)
(* A growing table is a pointer, a count and a capacity held by a state;   *)
(* its slots are in the block the pointer names.  A block is never reused, *)
(* so a pointer to a freed one can be told.                                *)
(***************************************************************************)
Freed == "freed"
NoTable == [p |-> 0, n |-> 0, c |-> 0]
Block(s) == [state |-> "live", slots |-> s]
FreedBlock == [state |-> Freed, slots |-> <<>>]

IsFreed(t) == t.p # 0 /\ blocks[t.p].state = Freed
Entries(t) == IF t.p = 0 \/ IsFreed(t) THEN <<>> ELSE SubSeq(blocks[t.p].slots, 1, t.n)

\* What appending x to table t gives: the table and the heap afterwards.
Grow(t, x, first) ==
  IF t.n < t.c
  THEN [table |-> [t EXCEPT !.n = @ + 1],
        heap  |-> [blocks EXCEPT ![t.p].slots[t.n + 1] = x]]
  ELSE LET capacity == IF t.c = 0 THEN first ELSE 2 * t.c
           moved == [i \in 1 .. capacity |->
                       IF i <= t.n THEN blocks[t.p].slots[i] ELSE IF i = t.n + 1 THEN x ELSE Null]
           old == IF t.p = 0 THEN blocks ELSE [blocks EXCEPT ![t.p] = FreedBlock]
       IN [table |-> [p |-> Len(blocks) + 1, n |-> t.n + 1, c |-> capacity],
           heap  |-> Append(old, Block(moved))]

Top == Len(vms)
Running == vms[Top]
Root == vms[1]

NameOf(class) == class[1]
ModuleOf(class) == class[2]
ClassNames(t) == {NameOf(class) : class \in ToSet(Entries(t)) \ {Null}}

pphp_find_class(vm, name) == name \in ClassNames(vm.classes)

FunctionsOf(m) == IF modules[m].source = "callback" THEN {} ELSE Defines[modules[m].source]

pphp_find_function(vm, f) ==
  \/ \E i \in DOMAIN functions : functions[i].name = f
  \/ vm.module # 0 /\ f \in FunctionsOf(vm.module)
  \/ \E m \in ToSet(Entries(vm.mods)) : f \in FunctionsOf(m)

validate_repl_functions(vm, source) ==
  \A f \in Defines[source] : ~pphp_find_function(vm, f)

checkpoint_definitions(vm) ==
  [classes |-> vm.classes.n, functions |-> Len(functions), mods |-> vm.mods.n,
   module |-> vm.module, known |-> known, class_end |-> 0]

NoCheckpoint == [classes |-> 0, functions |-> 0, mods |-> 0, module |-> 0, known |-> {}, class_end |-> 0]

pmodule_retain(mods, m) == [mods EXCEPT ![m].refs = @ + 1]
pmodule_release(mods, m) == [mods EXCEPT ![m].refs = @ - 1]

\* Releases one reference for each element of the sequence of modules s.
ReleaseEach(mods, s) ==
  [m \in DOMAIN mods |->
     [mods[m] EXCEPT !.refs = @ - Cardinality({i \in DOMAIN s : s[i] = m})]]

ModulesOfClasses(s) == [i \in DOMAIN s |-> ModuleOf(s[i])]
ModulesOfFunctions(s) == [i \in DOMAIN s |-> s[i].module]

-----------------------------------------------------------------------------
(***************************************************************************)
(* What the running program does.                                          *)
(***************************************************************************)
Executing == Root.module # 0 /\ Running.kind \in {"chunk", "include", "invoke"}

\* OP_DEF_CLASS ... OP_DEF_END.  The class has a method, so it counts its module.
DefineClass(name) ==
  /\ Executing
  /\ ~pphp_find_class(Running, name)
  /\ LET class == <<name, Running.code>>
         grown == Grow(Running.classes, class, FirstClasses)
     IN /\ vms' = [vms EXCEPT ![Top].classes = grown.table]
        /\ blocks' = grown.heap
        /\ live' = live \cup {class}
        /\ modules' = pmodule_retain(modules, Running.code)
  /\ known' = known \cup {name}
  /\ UNCHANGED <<functions, included, done>>

\* OP_DEF_FUNC: a function declared inside a block or another function.
DefineFunction(f) ==
  /\ Executing
  /\ ~pphp_find_function(Running, f)
  /\ Len(functions) < MaxFunctions
  /\ functions' = Append(functions, [name |-> f, module |-> Running.code])
  /\ modules' = pmodule_retain(modules, Running.code)
  /\ known' = known \cup {f}
  /\ UNCHANGED <<vms, blocks, included, live, done>>

NewModule(source) == Append(modules, [source |-> source, refs |-> 1])

Started == Cardinality({i \in DOMAIN modules : TRUE})

\* pphp_vm_invoke up to the call of pphp_vm_execute: the child copies the
\* state it is called on and gets a list of modules of its own.
ChildOf(vm, kind) ==
  LET list == Entries(vm.mods) \o (IF vm.module = 0 THEN <<>> ELSE <<vm.module>>)
  IN [vm EXCEPT !.kind = "invoke", !.module = Len(modules) + 1,
        !.mods = [p |-> Len(blocks) + 1, n |-> Len(list), c |-> Len(list)],
        !.file = kind, !.once = FALSE, !.start = NoCheckpoint]

StartInvoke(vm, kind) ==
  /\ kind \in Kinds
  /\ Len(vms) < MaxDepth
  /\ Started < MaxVms
  /\ vms' = Append(vms, ChildOf(vm, kind))
  /\ blocks' = Append(blocks, Block(Entries(vm.mods) \o
                                    (IF vm.module = 0 THEN <<>> ELSE <<vm.module>>)))
  /\ modules' = NewModule("callback")
  /\ UNCHANGED <<functions, included, live, known, done>>

Invoke == Executing /\ StartInvoke(Running, "invoke")

\* pobject_run_destructor calls invoke on the root, whoever is running.
\* It needs an object of a class that exists and, in a rollback, of a class
\* that is being taken back (object_uses_new_class).
RunDestructor ==
  /\ Root.kind \in {"chunk", "rollback"}
  /\ live # {}
  /\ Running.kind = "rollback" => Running.start.classes < Running.start.class_end
  /\ StartInvoke(Root, "destructor")

\* Mutant: the root keeps its pointer once it has one.
FinishInvokeKeepsTable ==
  /\ Running.kind = "invoke"
  /\ vms' = [SubSeq(vms, 1, Top - 1) EXCEPT ![1].classes =
               [Running.classes EXCEPT !.p = IF Root.classes.p = 0 THEN @ ELSE Root.classes.p]]
  /\ blocks' = [blocks EXCEPT ![Running.mods.p] = FreedBlock]
  /\ modules' = pmodule_release(modules, Running.module)
  /\ UNCHANGED <<functions, included, live, known, done>>

\* pphp_vm_invoke after the call: the copy's classes go to the root alone.
FinishInvoke ==
  /\ Running.kind = "invoke"
  /\ vms' = [SubSeq(vms, 1, Top - 1) EXCEPT ![1].classes = Running.classes]
  /\ blocks' = [blocks EXCEPT ![Running.mods.p] = FreedBlock]
  /\ modules' = pmodule_release(modules, Running.module)
  /\ UNCHANGED <<functions, included, live, known, done>>

-----------------------------------------------------------------------------
\* Mutant: a file is not marked as included before it runs.
IncludeUnmarked(file, once) ==
  /\ "include" \in Kinds
  /\ Executing
  /\ Len(vms) < MaxDepth
  /\ Started < MaxVms
  /\ ~(once /\ file \in done)
  /\ validate_repl_functions(Root, file)
  /\ LET m == Len(modules) + 1
         grown == Grow(Root.mods, m, FirstModules)
         owner == [Root EXCEPT !.mods = grown.table]
     IN /\ blocks' = grown.heap
        /\ modules' = NewModule(file)
        /\ vms' = Append([vms EXCEPT ![1] = owner],
                         [owner EXCEPT !.kind = "include", !.module = m, !.code = m, !.file = file,
                                       !.once = once, !.start = checkpoint_definitions(Root)])
  /\ known' = known \cup Defines[file]
  /\ UNCHANGED <<functions, included, live, done>>

\* Mutant: include_once runs a file whatever has been included.
IncludeAlways(file, once) ==
  /\ "include" \in Kinds
  /\ Executing
  /\ Len(vms) < MaxDepth
  /\ Started < MaxVms
  /\ validate_repl_functions(Root, file)
  /\ LET m == Len(modules) + 1
         grown == Grow(Root.mods, m, FirstModules)
         owner == [Root EXCEPT !.mods = grown.table]
     IN /\ blocks' = grown.heap
        /\ modules' = NewModule(file)
        /\ vms' = Append([vms EXCEPT ![1] = owner],
                         [owner EXCEPT !.kind = "include", !.module = m, !.code = m, !.file = file,
                                       !.once = once, !.start = checkpoint_definitions(Root)])
  /\ included' = IF once THEN included \cup {file} ELSE included
  /\ known' = known \cup Defines[file]
  /\ UNCHANGED <<functions, live, done>>

\* pphp_exec_include up to the call of pphp_vm_execute: the file's module is
\* retained in the root's list and the child copies the root.
Include(file, once) ==
  /\ "include" \in Kinds
  /\ Executing
  /\ Len(vms) < MaxDepth
  /\ Started < MaxVms
  /\ ~(once /\ file \in included)
  /\ validate_repl_functions(Root, file)
  /\ LET m == Len(modules) + 1
         grown == Grow(Root.mods, m, FirstModules)
         owner == [Root EXCEPT !.mods = grown.table]
     IN /\ blocks' = grown.heap
        /\ modules' = NewModule(file)
        /\ vms' = Append([vms EXCEPT ![1] = owner],
                         [owner EXCEPT !.kind = "include", !.module = m, !.code = m, !.file = file,
                                       !.once = once, !.start = checkpoint_definitions(Root)])
  /\ included' = IF once THEN included \cup {file} ELSE included
  /\ known' = known \cup Defines[file]
  /\ UNCHANGED <<functions, live, done>>

\* The rest of it when the file ran to its end.
FinishInclude ==
  /\ Running.kind = "include"
  /\ vms' = [SubSeq(vms, 1, Top - 1) EXCEPT ![1].classes = Running.classes]
  /\ done' = IF Running.once THEN done \cup {Running.file} ELSE done
  /\ UNCHANGED <<blocks, modules, functions, included, live, known>>

\* The rest of it when the file failed: the root takes the copy's classes,
\* the file is no longer included, and what it defined is rolled back.
FailInclude ==
  /\ Running.kind = "include"
  /\ vms' = [vms EXCEPT ![1].classes = Running.classes,
                        ![Top] = [@ EXCEPT !.kind = "rollback", !.start.class_end = Running.classes.n]]
  /\ included' = IF Running.once THEN included \ {Running.file} ELSE included
  /\ UNCHANGED <<blocks, modules, functions, live, known, done>>

(***************************************************************************)
(* rollback_definitions on the root.  class_end is read first; destructors *)
(* of the objects of the new classes may run (RunDestructor) before the    *)
(* definitions go.                                                         *)
(***************************************************************************)
Rolled(start, first_class, first_function, first_module) ==
  LET class_end == start.class_end
      classes == Entries(Root.classes)
      dropped == SubSeq(classes, first_class + 1, class_end)
      gone == SubSeq(functions, first_function + 1, Len(functions))
      popped == SubSeq(Entries(Root.mods), first_module + 1, Root.mods.n)
      cleared == IF Root.classes.p = 0 THEN blocks
                 ELSE [blocks EXCEPT ![Root.classes.p].slots =
                         [i \in DOMAIN @ |-> IF i \in start.classes + 1 .. class_end
                                             THEN Null ELSE @[i]]]
  IN [root |-> [Root EXCEPT !.classes.n = start.classes, !.mods.n = start.mods,
                            !.module = start.module],
      functions |-> SubSeq(functions, 1, first_function),
      modules |-> ReleaseEach(ReleaseEach(ReleaseEach(modules, ModulesOfClasses(dropped)),
                                          ModulesOfFunctions(gone)), popped),
      live |-> live \ ToSet(dropped),
      blocks |-> cleared]

\* Mutant: one module too many is dropped.
RollbackPopsMore(start) ==
  Rolled(start, start.classes, start.functions, IF start.mods > 0 THEN start.mods - 1 ELSE 0)

RolledBack(start) == Rolled(start, start.classes, start.functions, start.mods)

FinishRollback ==
  /\ Running.kind = "rollback"
  /\ LET after == RolledBack(Running.start)
         unretained == Top = 1 /\ Running.module \notin ToSet(Entries(Root.mods))
     IN /\ functions' = after.functions
        /\ live' = after.live
        /\ blocks' = after.blocks
        /\ known' = Running.start.known
        /\ modules' = IF unretained THEN pmodule_release(after.modules, Running.module)
                      ELSE after.modules
        /\ vms' = IF Top = 1 THEN <<[after.root EXCEPT !.kind = "idle"]>>
                  ELSE [SubSeq(vms, 1, Top - 1) EXCEPT ![1] = after.root]
  /\ UNCHANGED <<included, done>>

-----------------------------------------------------------------------------
(***************************************************************************)
(* The embedder: pphp_exec_source_mode, which may be interactive, and      *)
(* exec_pbc, which never is.                                               *)
(***************************************************************************)
Idle == Len(vms) = 1 /\ Root.kind = "idle"

\* The elements of s that are in S, in their order (the read and the write
\* index of pphp_clear_user_classes).
Those(s, S) ==
  LET f[i \in 0 .. Len(s)] ==
        IF i = 0 THEN <<>> ELSE IF s[i] \in S THEN Append(f[i - 1], s[i]) ELSE f[i - 1]
  IN f[Len(s)]

\* pphp_clear_user_classes: the classes no value reaches are released; which
\* ones are reached is up to the values the program left in its globals.
ClearUserClasses(root, keep) ==
  LET classes == Entries(root.classes)
      kept == Those(classes, keep)
      dropped == Those(classes, ToSet(classes) \ keep)
  IN [root |-> [root EXCEPT !.classes.n = Len(kept)],
      heap |-> IF root.classes.p = 0 THEN blocks
               ELSE [blocks EXCEPT ![root.classes.p].slots =
                       [i \in DOMAIN @ |-> IF i \in DOMAIN kept THEN kept[i] ELSE @[i]]],
      dropped |-> dropped]

\* module_has_persistent_functions, or an interactive chunk.
Retained(source, repl) == repl \/ Defines[source] # {}

ExecChunk(source, repl) ==
  /\ Idle
  /\ Started < MaxVms
  /\ Retained(source, repl) => validate_repl_functions(Root, source)
  /\ \E keep \in IF repl THEN {live} ELSE SUBSET live :
       LET cleared == ClearUserClasses(Root, keep)
           m == Len(modules) + 1
           grown == Grow(Root.mods, m, FirstModules)
           root == [cleared.root EXCEPT !.start = [checkpoint_definitions(cleared.root) EXCEPT
                                          !.known = known \ {NameOf(class) : class \in ToSet(cleared.dropped)}]]
       IN /\ vms' = <<[root EXCEPT !.kind = "chunk", !.module = m, !.code = m, !.once = repl,
                         !.mods = IF Retained(source, repl) THEN grown.table ELSE @]>>
          /\ blocks' = IF ~Retained(source, repl) THEN cleared.heap
                       ELSE [b \in DOMAIN grown.heap |->
                               IF b = Root.classes.p THEN cleared.heap[b] ELSE grown.heap[b]]
          /\ modules' = Append(ReleaseEach(modules, ModulesOfClasses(cleared.dropped)),
                               [source |-> source, refs |-> 1])
          /\ live' = live \ ToSet(cleared.dropped)
          /\ known' = root.start.known \cup Defines[source]
  /\ UNCHANGED <<functions, included, done>>

ExecSource(source, repl) == ExecChunk(source, repl)
ExecPbc(source) == ExecChunk(source, FALSE)

\* The chunk ran to its end.  A module that is not retained is released.
FinishSource ==
  /\ Running.kind = "chunk"
  /\ LET m == Root.module
         kept == m \in ToSet(Entries(Root.mods))
     IN \E keep \in IF Root.once THEN {live} ELSE SUBSET live :
          LET cleared == ClearUserClasses(Root, keep)
              left == ReleaseEach(modules, ModulesOfClasses(cleared.dropped))
          IN /\ vms' = <<[cleared.root EXCEPT !.kind = "idle",
                            !.module = IF Root.once THEN @ ELSE 0]>>
             /\ blocks' = cleared.heap
             /\ modules' = IF kept THEN left ELSE pmodule_release(left, m)
             /\ live' = live \ ToSet(cleared.dropped)
             /\ known' = known \ {NameOf(class) : class \in ToSet(cleared.dropped)}
  /\ UNCHANGED <<functions, included, done>>

\* The chunk failed: FinishRollback takes back what it defined.
FailSource ==
  /\ Running.kind = "chunk"
  /\ vms' = [vms EXCEPT ![1].kind = "rollback", ![1].start.class_end = Root.classes.n]
  /\ UNCHANGED <<blocks, modules, functions, included, live, known, done>>

\* pphp_open.  The classes of the exception runtime are left out.
pphp_open ==
  [kind |-> "idle", classes |-> NoTable, mods |-> NoTable, module |-> 0, code |-> 0,
   file |-> "none", once |-> FALSE, start |-> NoCheckpoint]

\* pphp_close: classes, then the modules of functions, then the retained modules.
pphp_close ==
  /\ Idle
  /\ LET classes == Entries(Root.classes)
     IN /\ live' = live \ ToSet(classes)
        /\ modules' = ReleaseEach(ReleaseEach(ReleaseEach(modules, ModulesOfClasses(classes)),
                                              ModulesOfFunctions(functions)), Entries(Root.mods))
        /\ blocks' = [b \in DOMAIN blocks |->
                        IF b \in {Root.classes.p, Root.mods.p} THEN FreedBlock
                        ELSE blocks[b]]
  /\ vms' = <<[pphp_open EXCEPT !.kind = "closed"]>>
  /\ functions' = <<>>
  /\ included' = {}
  /\ known' = {}
  /\ UNCHANGED done

-----------------------------------------------------------------------------
Init ==
  /\ vms = <<pphp_open>>
  /\ blocks = <<>>
  /\ modules = <<>>
  /\ functions = <<>>
  /\ included = {}
  /\ live = {}
  /\ known = {}
  /\ done = {}

Next ==
  \/ \E name \in Names : DefineClass(name)
  \/ \E f \in Functions : DefineFunction(f)
  \/ Invoke \/ RunDestructor \/ FinishInvoke
  \/ \E file \in Files, once \in BOOLEAN : Include(file, once)
  \/ FinishInclude \/ FailInclude \/ FinishRollback
  \/ \E source \in Sources, repl \in BOOLEAN : ExecSource(source, repl)
  \/ \E source \in Sources : ExecPbc(source)
  \/ FinishSource \/ FailSource \/ pphp_close

Spec == Init /\ [][Next]_vars

-----------------------------------------------------------------------------
StateKinds == {"idle", "chunk", "include", "invoke", "rollback", "closed"}
Definition == Names \cup Functions

\* The shape of the state: every pointer names a block that was allocated and
\* no count exceeds its capacity.
TypeOK ==
  /\ \A i \in DOMAIN vms :
       /\ vms[i].kind \in StateKinds
       /\ \A t \in {vms[i].classes, vms[i].mods} : t.n <= t.c /\ t.p \in 0 .. Len(blocks)
       /\ vms[i].module \in 0 .. Len(modules)
  /\ \A m \in DOMAIN modules : modules[m].refs \in Nat
  /\ included \subseteq Files /\ done \subseteq Files
  /\ known \subseteq Definition

InCode == Running.kind \in {"chunk", "include", "invoke"}

\* The running VM never reads a table that another copy of the state has
\* moved, nor a slot that a rollback through another copy has cleared:
\* pphp_find_class and pphp_find_function walk allocated memory and never
\* meet a null pointer.
RunningTablesLive ==
  InCode => /\ ~IsFreed(Running.classes) /\ ~IsFreed(Running.mods)
            /\ Null \notin ToSet(Entries(Running.classes))

\* A class that was declared, and not rolled back, is found by whatever code
\* runs next, and no other class is.
DeclaredClassesFound ==
  InCode => ClassNames(Running.classes) = known \cap Names

\* The same for functions, whichever of the three places they are kept in.
DefinedFunctionsFound ==
  InCode => {f \in Functions : pphp_find_function(Running, f)} = known \cap Functions

\* A module's reference count is the number of its owners: the root's list,
\* the runtime functions and the classes it defined, and the call that runs it.
ModuleCountsExact ==
  \A m \in DOMAIN modules :
    modules[m].refs =
        Cardinality({i \in 1 .. Root.mods.n : Entries(Root.mods)[i] = m})
      + Cardinality({i \in DOMAIN functions : functions[i].module = m})
      + Cardinality({class \in live : ModuleOf(class) = m})
      + Cardinality({i \in DOMAIN vms :
                       /\ vms[i].kind \in {"invoke", "chunk"} \/ (i = 1 /\ vms[i].kind = "rollback")
                       /\ vms[i].module = m
                       /\ m \notin ToSet(Entries(Root.mods))})

\* The module a VM is executing is not destroyed under it.
CodeStaysAlive ==
  \A i \in DOMAIN vms :
    vms[i].kind \in {"chunk", "include", "invoke"} => modules[vms[i].module].refs > 0

\* A file included with include_once is neither run twice nor run inside
\* itself: pphp_exec_include marks it before it runs it.
OnceRunsOnce ==
  \A i \in DOMAIN vms :
    vms[i].kind = "include" /\ vms[i].once =>
      /\ vms[i].file \notin done
      /\ \A j \in DOMAIN vms \ {i} :
           ~(vms[j].kind = "include" /\ vms[j].once /\ vms[j].file = vms[i].file)

\* Between two chunks every class that was not released is in the table, so
\* that pphp_close releases every class and every module.
NothingLeaks ==
  /\ Idle => live = ToSet(Entries(Root.classes))
  /\ Root.kind = "closed" => live = {} /\ \A m \in DOMAIN modules : modules[m].refs = 0

\* What was declared and not rolled back is found by whatever code runs next,
\* in tables that are alive, however VMs were copied and failed
\* (pphp_find_class, pphp_find_function, rollback_definitions).
DefinitionsFound == RunningTablesLive /\ DeclaredClassesFound /\ DefinedFunctionsFound

\* Modules are counted exactly, none is destroyed while its code runs, and
\* none is left behind (pmodule_retain, rollback_definitions), unless a
\* destructor declares classes while they are taken back (src/state.c:346).
ModulesOwned ==
  TypeOK /\ ModuleCountsExact /\ CodeStaysAlive /\ ("destructor" \notin Kinds => NothingLeaks)
=============================================================================
