------------------------------ MODULE MCArrays ------------------------------
(***************************************************************************)
(* Instances of the modules about arrays.  A behaviour is of one part,     *)
(* chosen at the start:                                                    *)
(*   "parray"     two arrays under sets, pushes, removals and clones;      *)
(*   "keys"       every short subscript, against the decimal notation;     *)
(*   "functions"  sequences of calls of array functions on one array;      *)
(*   "sort"       sort(), rsort() and usort() on all arrays of up to four  *)
(*                values of three ranks.                                   *)
(* The variables of the other parts keep their first values.               *)
(***************************************************************************)
EXTENDS PArray, ArraySort, TLC

CONSTANTS arr1, arr2, v, w, NULL

VARIABLES part, subject, php, ok

functionVars == <<subject, php, ok>>
allVars == <<part, array, text, functionVars, sortVars>>

\* Integers hash to themselves; the empty string, null as a key, collides with 3.
SmallHash(key) == IF key[1] = "int" THEN key[2] ELSE 3 + Len(key[2])
MixedInputs == {<<"int", 0>>, <<"int", 3>>, <<"null", 0>>}

IntOf(n) == <<"int", n>>
Text == <<"str", "s">>

Calls == INSTANCE ArrayFunctions WITH
  Values <- {IntOf(0), IntOf(2), Text},
  Others <- {[items |-> <<<<IntOf(2), IntOf(2)>>, <<Text, IntOf(0)>>>>, next |-> 3],
             [items |-> <<<<Text, Text>>>>, next |-> 0]},
  Offsets <- {-2, -1, 0, 1, 3}, PPHP_INT_MAXIMUM <- 3, MaxSize <- 3, Memory <- 8, AnyPop <- FALSE

-----------------------------------------------------------------------------
MCInit == /\ part \in {"parray", "keys", "functions", "sort"}
          /\ Init /\ TextInit /\ Calls!Init /\ SortInit
          /\ part # "sort" => source = <<>> /\ function = "sort"

MCNext ==
  \/ part = "parray" /\ Next /\ UNCHANGED <<part, text, functionVars, sortVars>>
  \/ part = "keys" /\ TextNext /\ UNCHANGED <<part, array, functionVars, sortVars>>
  \/ part = "functions" /\ Calls!Next /\ UNCHANGED <<part, array, text, sortVars>>
  \/ part = "sort" /\ SortNext /\ UNCHANGED <<part, array, text, functionVars>>

MCSpec == MCInit /\ [][MCNext]_allVars

-----------------------------------------------------------------------------
\* After any sequence of calls of array functions the array has PHP's items in
\* PHP's order under PHP's keys (the call_array_... functions of arrays.c).
ArrayAsPhp == Calls!ArrayAsPhp

\* After any such sequence the next push goes where PHP's goes, up to the
\* largest integer (pa_set, src/src/parray.c).
NextAsPhp == Calls!NextAsPhp

\* A call is refused when PHP refuses it, and only then.
RefusedAsPhp == Calls!RefusedAsPhp

\* After any sequence of calls of array functions the items, their order, their
\* keys and, up to the largest integer, the next index are PHP's, and what was
\* refused PHP refuses too.
FunctionsAsPhp == ArrayAsPhp /\ NextAsPhp /\ RefusedAsPhp
=============================================================================
