------------------------------- MODULE Symbols -------------------------------
(***************************************************************************)
(* The table of interned names (src/src/symbol.c) and the VMs that use it. *)
(*                                                                         *)
(* Each access to a global or static variable interns the variable's name  *)
(* (slot_storage in src/src/vm.c).  The table is a field of pphp_state by   *)
(* value: a nested VM runs on a copy of pointer, count and capacity, and   *)
(* nothing copies them back.  mem is the memory behind the pointers; a     *)
(* block is never used again, so that a pointer to a freed one can be told. *)
(* A string is represented by its name.                                    *)
(***************************************************************************)
EXTENDS Naturals, Sequences, FiniteSets, SequencesExt, FiniteSetsExt

CONSTANTS Identifiers,    \* names of globals and statics
          Hash,           \* their hashes
          NestedNames,    \* those that nested VMs use
          FirstCapacity,  \* slots of a new table (64 in the code)
          MinCapacity,    \* least capacity of any table (8, a power of two: the
                          \* masks of the code are remainders)
          MaxCopies       \* bound: VMs on the stack

ASSUME SymbolsAssumption ==
  /\ Hash \in [Identifiers -> Nat]
  /\ NestedNames \subseteq Identifiers
  /\ MinCapacity \in Nat \ {0} /\ FirstCapacity \in Nat
  /\ "no string" \notin Identifiers

VARIABLES tables,    \* the tables as each VM on the stack knows them
          mem,       \* the blocks ever allocated for entries
          interned   \* names psymbol_intern has returned a string for

symbolVars == <<tables, mem, interned>>

None == "no string"
Allocated(es) == [live |-> TRUE, entries |-> es]
Reclaimed == [live |-> FALSE, entries |-> <<>>]
HasTable == tables # <<>>
RunningTable == Last(tables)
EntriesOf(t) == mem[t.p].entries
IsStale(t) == ~mem[t.p].live

\* The loop of next_power_of_two; memory ends before sizes do.
next_power_of_two(v) ==
  LET result[k \in 0 .. v] ==
        IF k = 0 THEN MinCapacity
        ELSE LET r == result[k - 1] IN IF r < v THEN 2 * r ELSE r
  IN result[v]

(***************************************************************************)
(* find_slot: linear probing from the hash.  Stops lists how far from its  *)
(* start the probe finds a reason to stop.                                 *)
(***************************************************************************)
Probe(n, c, k) == (Hash[n] + k) % c
Stops(es, c, n) == {k \in 0..(c - 1) : es[Probe(n, c, k)] \in {None, n}}
find_slot(es, c, n) == Probe(n, c, Min(Stops(es, c, n)))

Empty(c) == [s \in 0..(c - 1) |-> None]

\* Mutant: keeps every string in the slot it had.
CopiedSlots(es, c, d) ==
  [s \in 0..(d - 1) |-> IF s < c THEN es[s] ELSE None]
\* The loop of resize_table over the old slots, in their order.
Rehashed(es, c, d) ==
  LET after[s \in 0..c] ==
        IF s = 0 THEN Empty(d)
        ELSE LET n == es[s - 1]
                 new == after[s - 1]
             IN IF n = None THEN new ELSE [new EXCEPT ![find_slot(new, d, n)] = n]
  IN after[c]

(***************************************************************************)
(* psymbol_intern makes room before it looks the name up, whether or not   *)
(* the name is there.                                                      *)
(***************************************************************************)
IsCrowded(t) == (t.count + 1) * 4 >= t.capacity * 3

resize_table(t) ==
  LET d == next_power_of_two(t.capacity * 2) IN
  [table |-> [p |-> Len(mem) + 1, count |-> t.count, capacity |-> d],
   mem |-> Append([mem EXCEPT ![t.p] = Reclaimed], Allocated(Rehashed(EntriesOf(t), t.capacity, d)))]

Roomy(t) == IF IsCrowded(t) THEN resize_table(t) ELSE [table |-> t, mem |-> mem]

MayIntern(n) ==
  /\ HasTable /\ ~IsStale(RunningTable)
  /\ Len(tables) > 1 => n \in NestedNames

SetRunning(t) == tables' = [tables EXCEPT ![Len(tables)] = t]

psymbol_intern(n) ==
  LET r == Roomy(RunningTable)
      es == r.mem[r.table.p].entries
      slot == find_slot(es, r.table.capacity, n)
  IN /\ MayIntern(n)
     /\ Stops(es, r.table.capacity, n) # {}
     /\ \/ /\ es[slot] = n
           /\ SetRunning(r.table)
           /\ mem' = r.mem
        \/ /\ es[slot] = None
           /\ SetRunning([r.table EXCEPT !.count = @ + 1])
           /\ mem' = [r.mem EXCEPT ![r.table.p].entries[slot] = n]
     /\ interned' = interned \cup {n}

\* No memory for a larger table: nothing has changed, the access fails.
ResizeFails(n) ==
  /\ MayIntern(n) /\ IsCrowded(RunningTable)
  /\ UNCHANGED symbolVars

\* No memory for the string: the larger table stays.
StringFails(n) ==
  LET r == Roomy(RunningTable)
      es == r.mem[r.table.p].entries
  IN /\ MayIntern(n)
     /\ n \notin Range(es)
     /\ Stops(es, r.table.capacity, n) # {}
     /\ SetRunning(r.table)
     /\ mem' = r.mem
     /\ UNCHANGED interned

(***************************************************************************)
(* A callback or magic method runs on a copy of the running state, an      *)
(* included file or a destructor on a copy of the root; on return the copy *)
(* is dropped.                                                             *)
(***************************************************************************)
EnterNested ==
  /\ HasTable /\ Len(tables) < MaxCopies
  /\ tables' \in {Append(tables, t) : t \in {RunningTable, Head(tables)}}
  /\ UNCHANGED <<mem, interned>>

LeaveNested ==
  /\ Len(tables) > 1
  /\ tables' = Front(tables)
  /\ UNCHANGED <<mem, interned>>

psymbol_init ==
  LET c == next_power_of_two(FirstCapacity) IN
  /\ ~HasTable
  /\ tables' = <<[p |-> 1, count |-> 0, capacity |-> c]>>
  /\ mem' = <<Allocated(Empty(c))>>
  /\ interned' = {}

\* Called by pphp_close.
psymbol_destroy ==
  /\ Len(tables) = 1 /\ ~IsStale(Head(tables))
  /\ tables' = <<>>
  /\ mem' = [mem EXCEPT ![Head(tables).p] = Reclaimed]
  /\ interned' = {}

SymbolInit ==
  /\ tables = <<>> /\ mem = <<>>
  /\ interned = {}

Intern == \E n \in Identifiers : \/ psymbol_intern(n) \/ ResizeFails(n)
                                 \/ StringFails(n)
SymbolNext == psymbol_init \/ psymbol_destroy \/ Intern \/ EnterNested \/ LeaveNested

SymbolSpec == SymbolInit /\ [][SymbolNext]_symbolVars

-----------------------------------------------------------------------------
(***************************************************************************)
(* No lookup goes round for ever: find_slot (src/src/symbol.c:15) has no   *)
(* other way to stop than the name or an empty slot.                       *)
(***************************************************************************)
LookupsEnd ==
  \A n \in Identifiers :
    MayIntern(n) =>
      LET r == Roomy(RunningTable) IN
      Stops(r.mem[r.table.p].entries, r.table.capacity, n) # {}

(***************************************************************************)
(* A name interned once is found again, as one string, whatever has been   *)
(* interned and however often the table has been rehashed since            *)
(* (psymbol_intern promises one string per name).                          *)
(***************************************************************************)
InternedOnce ==
  HasTable /\ ~IsStale(RunningTable) =>
    LET es == EntriesOf(RunningTable) IN
    /\ \A n \in interned : /\ Stops(es, RunningTable.capacity, n) # {}
                           /\ es[find_slot(es, RunningTable.capacity, n)] = n
    /\ \A s, u \in DOMAIN es : es[s] = es[u] /\ es[s] # None => s = u

(***************************************************************************)
(* pphp_close gives back every table a state has used (psymbol_destroy,    *)
(* src/src/symbol.c:56).                                                   *)
(***************************************************************************)
NothingLeft == ~HasTable => \A i \in DOMAIN mem : mem[i] = Reclaimed

\* An interned name is found again as the same string after any rehash or
\* failed allocation, lookups end, and the tables are given back.
NamesKept == LookupsEnd /\ InternedOnce /\ NothingLeft
=============================================================================
