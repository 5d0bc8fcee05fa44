-------------------------------- MODULE Heap --------------------------------
(***************************************************************************)
(* Reference counting, destructors and the cycle collector: pv_retain()    *)
(* and pv_release() of src/value.c, src/gc.c, the destroy functions of     *)
(* src/parray.c, src/closure.c and src/pclass.c, and the stores of         *)
(* src/vm.c that drive them.                                               *)
(*                                                                         *)
(* A cell is a container (array, object or closure); strings and scalars   *)
(* hold no references and are left out.  Releasing the last reference      *)
(* destroys a cell in the middle of the store that dropped it, and an      *)
(* object's destructor is a whole program run inside that release.  ctl is *)
(* the C call stack of such nested work, topmost first; the PHP program    *)
(* steps only when ctl is empty or a destructor is on top.                 *)
(***************************************************************************)
EXTENDS Integers, Sequences, FiniteSets, Functions

CONSTANTS
    Cells,          \* container cells the allocator may hand out
    Destructible,   \* those whose class has a (non-static) __destruct
    Vars,           \* global variables
    NSlots,         \* properties, elements or captures of a cell
    RcMax,          \* UINT16_MAX, where counts stick
    BufferMax,      \* PPHP_GC_BUFFER_MAX
    DtorSteps,      \* bound: statements a destructor executes
    TouchesStale,   \* destructors may use a holder that is being overwritten
    WalksSwept,     \* the collector may meet a cell whose slots are being released
    Resurrects,     \* destructors may store their $this
    Null

Slots == 1 .. NSlots

ASSUME HeapAssumption ==
    /\ Destructible \subseteq Cells
    /\ NSlots \in Nat \ {0}
    /\ RcMax \in Nat \ {0, 1}
    /\ BufferMax \in Nat \ {0}
    /\ DtorSteps \in Nat
    /\ TouchesStale \in BOOLEAN /\ WalksSwept \in BOOLEAN /\ Resurrects \in BOOLEAN
    /\ Null \notin Cells
    /\ IsFiniteSet(Cells) /\ IsFiniteSet(Vars)
    /\ Vars \cap (Cells \X Slots) = {}

VARIABLES
    live,         \* allocated cells
    rc,           \* header.refcnt
    slot,         \* cell -> slot -> the cell it refers to, or Null
    var,          \* state->globals
    candidates,   \* the collector's buffer
    requested,    \* collection_requested
    collecting,   \* the collector is active (re-entry guard)
    flags,        \* [buffered, collecting, destroying: sets of cells]
    ctl           \* pending work, topmost first

vars == <<live, rc, slot, var, candidates, requested, collecting, flags, ctl>>

gcVars == <<candidates, requested, flags>>

-----------------------------------------------------------------------------
(* Pending work.                                                           *)

\* pv_release(c)
Release(c) == [op |-> "release", cell |-> c]

\* the assignment `*h = v` behind the release of the old value of holder h
Put(h, v) == [op |-> "put", holder |-> h, cell |-> v]

\* the destructor of c, with n statements to go
Destructor(c, n) == [op |-> "destructor", cell |-> c, left |-> n]

\* back in pobject_destroy() with the guard reference that run_destructor set
Unguard(c) == [op |-> "unguard", cell |-> c]

\* the loop of a destroy function, at slot i
Sweep(c, i) == [op |-> "sweep", cell |-> c, at |-> i]

\* visit_children(c, release_child) of the collector, at slot i
Clear(c, i) == [op |-> "clear", cell |-> c, at |-> i]

\* the end of pphp_gc_collect()
Collected == [op |-> "collected", cell |-> Null]

Holders == Vars \cup (Cells \X Slots)

ValueIn(h) == IF h \in Vars THEN var[h] ELSE slot[h[1]][h[2]]

Work == ctl # <<>>

Top(op) == Work /\ Head(ctl).op = op

\* The VM executes an instruction: of the main program or of a destructor.
Running == ~Work \/ Top("destructor")

\* Replace the topmost work item by the items of s.
Become(s) == ctl' = s \o Tail(ctl)

-----------------------------------------------------------------------------
(* Counts and the candidate buffer.                                        *)

Count(c) == IF c = Null THEN 0 ELSE rc[c]

\* pv_retain() of each cell of the sequence cs; counts stick at RcMax.
Retained(cs) ==
    [c \in Cells |->
        LET n == rc[c] + Cardinality({i \in DOMAIN cs : cs[i] = c})
        IN  IF n > RcMax THEN RcMax ELSE n]

\* pphp_gc_buffer() after the count of c dropped to n.
Buffer(c, n) ==
    LET skip == n = RcMax \/ c \in flags.buffered \cup flags.collecting \cup flags.destroying
        room == Len(candidates) < BufferMax
    IN  IF skip THEN UNCHANGED gcVars
        ELSE /\ candidates' = IF room THEN Append(candidates, c) ELSE candidates
             /\ flags' = IF room THEN [flags EXCEPT !.buffered = @ \cup {c}] ELSE flags
             /\ requested' = (requested \/ Len(candidates) + 1 >= BufferMax)

\* pphp_gc_unbuffer(): the last candidate takes the place of c.
Unbuffered(c) ==
    LET n == Len(candidates)
    IN  [i \in 1 .. n - 1 |-> IF candidates[i] = c THEN candidates[n] ELSE candidates[i]]

-----------------------------------------------------------------------------
(* The collector.                                                          *)

\* Mutant: children are not discovered.
NodesWithoutChildren == candidates

\* discover_child(): the candidates and what they lead to, while there is room.
\* Turn k of the two loops looks at one slot of one node.
Nodes ==
    LET Discovered(ns, c) == IF c = Null \/ c \in Range(ns) \/ Len(ns) = BufferMax
                             THEN ns ELSE Append(ns, c)
        nodes[k \in 0 .. BufferMax * NSlots] ==
            IF k = 0 THEN candidates
            ELSE LET ns == nodes[k - 1]
                     n  == ((k - 1) \div NSlots) + 1
                 IN  IF n > Len(ns) THEN ns
                     ELSE Discovered(ns, slot[ns[n]][((k - 1) % NSlots) + 1])
    IN  nodes[BufferMax * NSlots]

\* The cells of N that S leads to without leaving N, following no slot of Off.
Closure(S, N, Off) ==
    LET IsClosed(T) == \A h \in (T \X Slots) \ Off : ValueIn(h) \in N => ValueIn(h) \in T
    IN  {c \in S \cup N : \A T \in SUBSET (S \cup N) : S \subseteq T /\ IsClosed(T) => c \in T}

Globals == {c \in {var[v] : v \in Vars} : c # Null}

\* Mutant: off by one.
HasTwoExternalRefs(c, N) == rc[c] > Cardinality({h \in N \X Slots : ValueIn(h) = c}) + 1

\* subtract_internal_ref(): some reference to c comes from outside N.
HasExternalRef(c, N) == rc[c] > Cardinality({h \in N \X Slots : ValueIn(h) = c})

\* The nodes pphp_gc_collect() finds unreachable; Null in the place of a node it keeps.
Unreachable(ns) ==
    LET N    == Range(ns)
        kept == Closure({c \in N : HasExternalRef(c, N)}, N, {})
    IN  [i \in DOMAIN ns |-> IF ns[i] \in kept THEN Null ELSE ns[i]]

\* Cells whose slots are being released before their block is freed.
Sweeping == {ctl[i].cell : i \in {j \in DOMAIN ctl : ctl[j].op = "sweep"}}

\* pphp_gc_collect() up to the first release_child(): no user code runs here.
\* Its loops pass over the nodes it keeps.
pphp_gc_collect ==
    LET dead == Unreachable(Nodes)
    IN  /\ Running
        /\ ~collecting
        /\ candidates # <<>>
        /\ WalksSwept \/ Range(Nodes) \cap Sweeping = {}
        /\ candidates' = <<>>
        /\ requested' = FALSE
        /\ flags' = [flags EXCEPT !.buffered = {}, !.collecting = @ \cup (Range(dead) \ {Null})]
        /\ rc' = Retained(dead)
        /\ collecting' = TRUE
        /\ ctl' = [i \in DOMAIN dead |-> IF dead[i] = Null THEN Release(Null) ELSE Clear(dead[i], 1)]
                    \o [i \in DOMAIN dead |-> Release(dead[i])] \o <<Collected>> \o ctl
        /\ UNCHANGED <<live, slot, var>>

\* pphp_gc_maybe_collect() runs before every instruction: until it has, no
\* statement executes.
Pending == requested /\ ~collecting /\ candidates # <<>>

ClearStep ==
    /\ Top("clear")
    /\ LET c == Head(ctl).cell
           i == Head(ctl).at
       IN  /\ Become(<<Release(slot[c][i])>> \o (IF i < NSlots THEN <<Clear(c, i + 1)>> ELSE <<>>))
           /\ slot' = [slot EXCEPT ![c][i] = Null]
    /\ UNCHANGED <<live, rc, var, collecting, gcVars>>

CollectedStep ==
    /\ Top("collected")
    /\ Become(<<>>)
    /\ collecting' = FALSE
    /\ UNCHANGED <<live, rc, slot, var, gcVars>>

-----------------------------------------------------------------------------
(* Release and destruction.                                                *)

\* pv_release() of nothing, of a stuck count, or of a cell already being destroyed.
ReleaseNothing ==
    /\ Top("release")
    /\ Count(Head(ctl).cell) \in {0, RcMax}
    /\ Become(<<>>)
    /\ UNCHANGED <<live, rc, slot, var, collecting, gcVars>>

\* pv_release() of a shared cell: it may be the root of a garbage cycle now.
ReleaseShared ==
    /\ Top("release")
    /\ LET c == Head(ctl).cell
       IN  /\ Count(c) \in 2 .. RcMax - 1
           /\ rc' = [rc EXCEPT ![c] = @ - 1]
           /\ Buffer(c, rc[c] - 1)
    /\ Become(<<>>)
    /\ UNCHANGED <<live, slot, var, collecting>>

\* pobject_run_destructor() applies: once per object, never to collected ones.
RunsDestructor(c) == c \in Destructible \ (flags.collecting \cup flags.destroying)

\* pv_release() of the last reference: unbuffer, then the destructor (guarded
\* by one reference, its callable holds another) or the sweep.
ReleaseLast ==
    /\ Top("release")
    /\ LET c == Head(ctl).cell
       IN  /\ Count(c) = 1
           /\ candidates' = IF c \in flags.buffered THEN Unbuffered(c) ELSE candidates
           /\ IF RunsDestructor(c)
              THEN /\ rc' = [rc EXCEPT ![c] = 2]
                   /\ flags' = [flags EXCEPT !.buffered = @ \ {c}, !.destroying = @ \cup {c}]
                   /\ Become(<<Destructor(c, DtorSteps)>>)
              ELSE /\ rc' = [rc EXCEPT ![c] = 0]
                   /\ flags' = [flags EXCEPT !.buffered = @ \ {c}]
                   /\ Become(<<Sweep(c, 1)>>)
    /\ UNCHANGED <<live, slot, var, collecting, requested>>

\* The destructor returns (or fails): the callable array goes first.
DestructorReturns ==
    /\ Top("destructor")
    /\ LET c == Head(ctl).cell IN Become(<<Release(c), Unguard(c)>>)
    /\ UNCHANGED <<live, rc, slot, var, collecting, gcVars>>

\* Whatever the destructor did to the count, it is forced to zero.
UnguardStep ==
    /\ Top("unguard")
    /\ LET c == Head(ctl).cell
       IN  /\ rc' = [rc EXCEPT ![c] = 0]
           /\ Become(<<Sweep(c, 1)>>)
    /\ UNCHANGED <<live, slot, var, collecting, gcVars>>

\* Mutant: the loop starts over after every child.
SweepStepStartsOver ==
    /\ Top("sweep")
    /\ LET c == Head(ctl).cell
           i == Head(ctl).at
       IN  Become(<<Release(slot[c][i]), Sweep(c, 1)>>)
    /\ UNCHANGED <<live, slot, rc, var, collecting, gcVars>>

\* The slots are released in order and not cleared; then the block is freed.
SweepStep ==
    /\ Top("sweep")
    /\ LET c == Head(ctl).cell
           i == Head(ctl).at
       IN  IF i <= NSlots
           THEN /\ Become(<<Release(slot[c][i]), Sweep(c, i + 1)>>)
                /\ UNCHANGED <<live, slot, flags>>
           ELSE /\ Become(<<>>)
                /\ live' = live \ {c}
                /\ slot' = [slot EXCEPT ![c] = [s \in Slots |-> Null]]
                /\ flags' = [flags EXCEPT !.collecting = @ \ {c}, !.destroying = @ \ {c}]
    /\ UNCHANGED <<rc, var, collecting, candidates, requested>>

-----------------------------------------------------------------------------
(* Programs.                                                               *)

\* Holders whose old value is being released before they are overwritten.
Stale == {ctl[i].holder : i \in {j \in DOMAIN ctl : ctl[j].op = "put"}}

\* A stage of the destruction of a cell.
Dismantles(f) == f.op \in {"destructor", "unguard", "sweep"}

\* Cells in the middle of their destruction.
Dying == {ctl[i].cell : i \in {j \in DOMAIN ctl : Dismantles(ctl[j])}}

This == IF Top("destructor") THEN {Head(ctl).cell} ELSE {}

\* Holders the running code does not look at.
Avoided == IF TouchesStale THEN {} ELSE Stale

\* What the running code can load: through globals and through $this.
Loadable ==
    Closure({c \in {var[v] : v \in Vars \ Avoided} : c # Null} \cup This, live, Avoided)

Storable == Loadable \ (IF Resurrects THEN {} ELSE Dying)

Assignable == (Vars \cup (Loadable \X Slots)) \ Avoided

\* One statement less for the destructor that executes.
Rest == IF Work THEN <<[Head(ctl) EXCEPT !.left = @ - 1]>> \o Tail(ctl) ELSE <<>>

MayExecute == Running /\ ~Pending /\ (Work => Head(ctl).left > 0)

\* The object a property store goes through is on the stack meanwhile.
Base(h) == IF h \in Vars THEN <<>> ELSE <<h[1]>>

\* The store of v to h: release what h held, only then overwrite it, and drop
\* the copies on the operand stack.
StoreWork(h, v) ==
    <<Release(ValueIn(h)), Put(h, v)>> \o [i \in DOMAIN Base(h) |-> Release(Base(h)[i])]
        \o <<Release(v)>>

\* $h = $v: a load (one copy on the stack) and a store (pa_set() of a global,
\* OP_PROP_SET of a property).
Assign(h, v) ==
    /\ MayExecute
    /\ rc' = Retained(<<v, v>> \o Base(h))
    /\ ctl' = StoreWork(h, v) \o Rest
    /\ UNCHANGED <<live, slot, var, collecting, gcVars>>

\* $h = new C, or an array or closure expression.
New(h, c) ==
    /\ MayExecute
    /\ c \notin live
    /\ live' = live \cup {c}
    /\ rc' = [Retained(Base(h)) EXCEPT ![c] = 2]
    /\ ctl' = StoreWork(h, c) \o Rest
    /\ UNCHANGED <<slot, var, collecting, gcVars>>

\* unset($v): pa_remove() takes the entry off its chain before it releases it.
Unset(v) ==
    /\ MayExecute
    /\ var[v] # Null
    /\ var' = [var EXCEPT ![v] = Null]
    /\ ctl' = <<Release(var[v])>> \o Rest
    /\ UNCHANGED <<live, rc, slot, collecting, gcVars>>

PutStep ==
    /\ Top("put")
    /\ LET h == Head(ctl).holder
           v == Head(ctl).cell
       IN  IF h \in Vars
           THEN var' = [var EXCEPT ![h] = v] /\ UNCHANGED slot
           ELSE slot' = [slot EXCEPT ![h[1]][h[2]] = v] /\ UNCHANGED var
    /\ Become(<<>>)
    /\ UNCHANGED <<live, rc, collecting, gcVars>>

Init ==
    /\ live = {}
    /\ rc = [c \in Cells |-> 0]
    /\ slot = [c \in Cells |-> [s \in Slots |-> Null]]
    /\ var = [v \in Vars |-> Null]
    /\ candidates = <<>>
    /\ requested = FALSE
    /\ collecting = FALSE
    /\ flags = [buffered |-> {}, collecting |-> {}, destroying |-> {}]
    /\ ctl = <<>>

Statement ==
    \/ \E h \in Assignable : \E v \in Storable \cup {Null} : Assign(h, v)
    \/ \E h \in Assignable, c \in Cells : New(h, c)
    \/ \E v \in Vars \ Avoided : Unset(v)

CStep ==
    \/ ReleaseNothing \/ ReleaseShared \/ ReleaseLast
    \/ DestructorReturns \/ UnguardStep \/ SweepStep
    \/ PutStep \/ ClearStep \/ CollectedStep

Next == Statement \/ pphp_gc_collect \/ CStep

Spec == Init /\ [][Next]_vars

\* Destructors and the C code they interrupt finish; the main program may stop.
FairSpec == Spec /\ WF_vars(CStep)

-----------------------------------------------------------------------------
(* Properties.                                                             *)

Frames ==
    LET Named == Cells \cup {Null}
    IN  {Release(c) : c \in Named} \cup {Put(h, c) : h \in Holders, c \in Named}
            \cup {Destructor(c, n) : c \in Cells, n \in 0 .. DtorSteps} \cup {Unguard(c) : c \in Cells}
            \cup {Sweep(c, i) : c \in Cells, i \in 1 .. NSlots + 1}
            \cup {Clear(c, i) : c \in Cells, i \in Slots} \cup {Collected}

TypeOK ==
    /\ live \subseteq Cells
    /\ rc \in [Cells -> 0 .. RcMax]
    /\ slot \in [Cells -> [Slots -> Cells \cup {Null}]]
    /\ var \in [Vars -> Cells \cup {Null}]
    /\ candidates \in Seq(Cells) /\ Len(candidates) <= BufferMax
    /\ requested \in BOOLEAN /\ collecting \in BOOLEAN
    /\ flags \in [buffered : SUBSET Cells, collecting : SUBSET Cells, destroying : SUBSET Cells]
    /\ ctl \in Seq(Frames)

\* References to c that a work item will give up: the guard and the callable
\* of a running destructor are two.
Weight(f, c) ==
    IF f.cell # c THEN 0
    ELSE CASE f.op \in {"release", "put", "unguard"} -> 1
           [] f.op = "destructor" -> 2
           [] OTHER -> 0

\* Slots a sweep has passed still name what they released.
Swept == UNION {{ctl[i].cell} \X (1 .. ctl[i].at - 1) : i \in {j \in DOMAIN ctl : ctl[j].op = "sweep"}}

\* The references to c that the work items of s will give up.
FrameRefs(s, c) == {r \in (DOMAIN s) \X (1 .. 2) : r[2] <= Weight(s[r[1]], c)}

\* The holders whose value is theirs to give up.
Owning == (Vars \cup (live \X Slots)) \ (Stale \cup Swept)

\* The owners rc_debug.c counts: globals, slots of live cells, and work items.
Owners(c) == Cardinality({h \in Owning : ValueIn(h) = c}) + Cardinality(FrameRefs(ctl, c))

\* pphp_rc_check() would be satisfied in the middle of any store, sweep,
\* destructor or collection: every count that is not stuck is exact.
RefCountExact == \A c \in live : rc[c] = RcMax \/ rc[c] = Owners(c)

\* Nothing that may still be loaded, released or stored names a freed cell.
NoDangling ==
    /\ \A h \in Owning : ValueIn(h) \in live \cup {Null}
    /\ \A i \in DOMAIN ctl : ctl[i].cell \in live \cup {Null}

\* A cell is torn down by one sweep only: its block is freed once.
DestroyedOnce ==
    \A i, j \in DOMAIN ctl :
        Dismantles(ctl[i]) /\ Dismantles(ctl[j]) /\ ctl[i].cell = ctl[j].cell => i = j

\* The collector never takes apart what the program can still load.
CollectorSparesLoadable == Loadable \cap flags.collecting = {}

\* The buffer names live cells, each once, and BUFFERED marks exactly those:
\* a freed cell never stays behind as a candidate.
BufferMatchesFlags ==
    /\ IsInjective(candidates)
    /\ Range(candidates) = flags.buffered
    /\ flags.buffered \subseteq live

\* In the middle of any store, sweep, destructor or collection: counts are
\* exact, nothing in use names a freed cell, no cell is freed twice, the
\* collector spares what can be loaded and its buffer names live cells only
\* (pv_release, the destroy functions, pphp_gc_collect).
HeapSound ==
    /\ TypeOK /\ RefCountExact /\ NoDangling /\ DestroyedOnce
    /\ CollectorSparesLoadable /\ BufferMatchesFlags

\* Between statements every cell the program has lost is within reach of a
\* candidate, so the next collection can find its cycle; unless the buffer
\* was too small for the graph.
GarbageIsWithinReach ==
    ~Work /\ Cardinality(Cells) < BufferMax =>
        live \subseteq Closure(Range(candidates) \cup Globals, live, {})

\* A collection that had room for the whole graph leaves no garbage behind.
CollectionIsComplete ==
    [][pphp_gc_collect /\ ~Work /\ Cardinality(Cells) < BufferMax =>
        live \ Range(Unreachable(Nodes)) \subseteq Closure(Globals, live, {})]_vars

\* Every store, destruction and collection comes to an end.
WorkFinishes == Work ~> ~Work

=============================================================================
