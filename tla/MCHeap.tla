------------------------------- MODULE MCHeap -------------------------------
(***************************************************************************)
(* Small heaps for TLC.  A behaviour is of one part, chosen at the start:  *)
(*   "graph"  three cells with one slot in use, one with a destructor, and *)
(*            a candidate buffer with room for all of them;                *)
(*   "full"   two cells with destructors and two slots, one variable, and  *)
(*            a buffer that is full after one candidate;                   *)
(*   "stale"  the same with a larger buffer, and destructors that use the  *)
(*            holder being overwritten, in which a cell is torn down twice *)
(*            (README, section 5).                                         *)
(* The constants of the configurations are those of "graph".               *)
(***************************************************************************)
EXTENDS Heap

CONSTANTS c1, c2, c3, x, y,
          Parts      \* the parts of a run

VARIABLE part

allVars == <<part, vars>>

Full == INSTANCE Heap WITH Destructible <- {c1, c2}, BufferMax <- 1

Touching == INSTANCE Heap WITH
  Destructible <- {c1, c2}, BufferMax <- 2, TouchesStale <- TRUE

-----------------------------------------------------------------------------
PutInto(h) == \E i \in DOMAIN ctl' : ctl'[i].op = "put" /\ ctl'[i].holder = h

OneSlot == \A c \in Cells : ~PutInto(<<c, 2>>)

TwoCells == c3 \notin live' /\ ~PutInto(y)

MCInit == Init /\ part \in Parts

MCNext == /\ \/ part = "graph" /\ Next /\ OneSlot
             \/ part = "full" /\ Full!Next /\ TwoCells
             \/ part = "stale" /\ Touching!Next /\ TwoCells
          /\ UNCHANGED part

\* Destructors and the C code they interrupt finish; the main program may stop.
FullCStep == part = "full" /\ Full!CStep /\ UNCHANGED part

MCSpec == MCInit /\ [][MCNext]_allVars
MCFairSpec == MCSpec /\ WF_allVars(FullCStep)

-----------------------------------------------------------------------------
\* Lost cycles are found: between statements every cell the program has lost
\* stays within reach of a candidate, and a collection with room for the
\* graph leaves none behind (pphp_gc_collect).
LostCyclesFound ==
  /\ [](part = "graph" => GarbageIsWithinReach)
  /\ [][part = "graph" /\ pphp_gc_collect /\ ~Work =>
          live \ Range(Unreachable(Nodes)) \subseteq Closure(Globals, live, {})]_allVars

\* Every store, destruction and collection comes to an end (pv_release, the
\* destroy functions, pphp_gc_collect).
WorkDone == (part = "full" /\ Work) ~> ~Work
=============================================================================
