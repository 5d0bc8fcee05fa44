------------------------------- MODULE MCState -------------------------------
(***************************************************************************)
(* Instances of the three modules about what a pphp_state owns:            *)
(* Definitions (classes, functions, modules, includes), Symbols (interned  *)
(* names) and Shutdown (objects and classes at the end).  A behaviour is   *)
(* of one part, chosen at the start: a part is one module with one choice  *)
(* of constants, and the variables of the other parts keep their values.   *)
(***************************************************************************)
EXTENDS Definitions, Symbols, Shutdown, TLC

CONSTANT Parts    \* the parts of a run

VARIABLES part,
          stack, heap, code, declared, marked, alive, said, completed  \* of Deep and Torn

nestedVars == <<stack, heap, code, declared, marked, alive, said, completed>>
allVars == <<part, vars, nestedVars, symbolVars, shutdownVars>>

-----------------------------------------------------------------------------
\* Two files, one of which defines a function, and one chunk.
MCFiles == {"lib", "app"}
MCSources == {"main"}
MCFunctions == {"f", "g"}
MCDefines == [s \in MCFiles \cup MCSources |-> IF s = "lib" THEN {"f"} ELSE {}]

Deep == INSTANCE Definitions WITH
  vms <- stack, blocks <- heap, modules <- code, functions <- declared, included <- marked,
  live <- alive, known <- said, done <- completed,
  Names <- {}, Functions <- MCFunctions, Files <- MCFiles, Sources <- MCSources,
  Defines <- MCDefines, Kinds <- {"include", "invoke"}, MaxDepth <- 4, MaxVms <- 4,
  FirstClasses <- 1, FirstModules <- 8, MaxFunctions <- 2

\* Destructors run inside a chunk and inside its rollback, and declare classes.
Torn == INSTANCE Definitions WITH
  vms <- stack, blocks <- heap, modules <- code, functions <- declared, included <- marked,
  live <- alive, known <- said, done <- completed,
  Names <- {"A", "B"}, Functions <- {}, Files <- {"app"}, Sources <- MCSources,
  Defines <- [s \in {"app"} \cup MCSources |-> {}], Kinds <- {"include", "destructor"},
  MaxDepth <- 2, MaxVms <- 3, FirstClasses <- 1, FirstModules <- 1, MaxFunctions <- 2

-----------------------------------------------------------------------------
\* Names that collide and wrap round in tables of 4, 8 and 16 slots.
MCIdentifiers == {"a", "b", "c", "d", "e", "f"}
MCHash == "a" :> 3 @@ "b" :> 7 @@ "c" :> 11 @@ "d" :> 4 @@ "e" :> 7 @@ "f" :> 0

-----------------------------------------------------------------------------
(***************************************************************************)
(* A Child extends Base and is held by globals; a Victim names Helper and  *)
(* is held by the static property of a class that no global keeps.         *)
(***************************************************************************)
MCClasses == {"Base", "Child", "Victim", "Helper"}
MCHolds == "g" :> {"Child"} @@ "h" :> {"Child"} @@ "Base" :> {} @@ "Child" :> {"Base"}
           @@ "Victim" :> {"Victim"} @@ "Helper" :> {"Victim"}

MCExtends == [c \in MCClasses |-> IF c = "Child" THEN {"Base"} ELSE {}]
MCNeeds == [c \in MCClasses |-> IF c = "Victim" THEN {"Helper"} ELSE {}]

ASSUME Deep!DefinitionsAssumption /\ Torn!DefinitionsAssumption /\ SurvivorsNameNoOthers

-----------------------------------------------------------------------------
MCInit == part \in Parts /\ Init /\ Deep!Init /\ SymbolInit /\ ShutdownInit

MCNext ==
  \/ part = "definitions" /\ Next /\ UNCHANGED <<part, nestedVars, symbolVars, shutdownVars>>
  \/ part = "includes" /\ Deep!Next /\ UNCHANGED <<part, vars, symbolVars, shutdownVars>>
  \/ part = "destructors" /\ Torn!Next /\ UNCHANGED <<part, vars, symbolVars, shutdownVars>>
  \/ part = "symbols" /\ SymbolNext /\ UNCHANGED <<part, vars, nestedVars, shutdownVars>>
  \/ part = "shutdown" /\ ShutdownNext /\ UNCHANGED <<part, vars, nestedVars, symbolVars>>

MCSpec == MCInit /\ [][MCNext]_allVars

-----------------------------------------------------------------------------
\* Deeper stacks of VMs run a file included once only once and never lose the
\* code they run; and destructors that run inside a rollback and declare
\* classes leave tables that are alive, complete and counted
\* (pphp_exec_include, pphp_vm_invoke, rollback_definitions).
NestedSound ==
  /\ part = "includes" => Deep!TypeOK /\ Deep!OnceRunsOnce /\ Deep!CodeStaysAlive
  /\ part = "destructors" =>
       Torn!TypeOK /\ Torn!RunningTablesLive /\ Torn!DeclaredClassesFound /\ Torn!ModuleCountsExact
=============================================================================
