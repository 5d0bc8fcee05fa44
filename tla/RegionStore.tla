----------------------------- MODULE RegionStore -----------------------------
(***************************************************************************)
(* What a memory pool promises its clients, without blocks, headers or     *)
(* lists: each client holds a region of the pool that nobody else holds,   *)
(* from the call that granted it to the call that gives it back.           *)
(***************************************************************************)
EXTENDS Integers

CONSTANT Alignment

VARIABLES
    capacity,   \* bytes of the pool, 0 before it is opened
    held        \* start of a region -> its length

storeVars == <<capacity, held>>

\* Nothing in regions f reaches into the n bytes at p.
Apart(f, p, n) == \A q \in DOMAIN f : q + f[q] <= p \/ p + n <= q

Grantable(f, p, n) ==
    /\ p \in Nat /\ n \in Nat \ {0}
    /\ p % Alignment = 0
    /\ p + n <= capacity
    /\ Apart(f, p, n)

Without(p) == [q \in DOMAIN held \ {p} |-> held[q]]

With(f, p, n) == [q \in DOMAIN f \cup {p} |-> IF q = p THEN n ELSE f[q]]

StoreInit == capacity = 0 /\ held = <<>>

Open(n) == n \in Nat /\ capacity' = n /\ held' = <<>>

Grant(p, n) ==
    Grantable(held, p, n) /\ held' = With(held, p, n) /\ UNCHANGED capacity

GiveBack(p) == p \in DOMAIN held /\ held' = Without(p) /\ UNCHANGED capacity

Resize(p, n) ==
    /\ p \in DOMAIN held
    /\ Grantable(Without(p), p, n)
    /\ held' = With(held, p, n)
    /\ UNCHANGED capacity

\* The contents are copied before the old region goes, so the two are apart.
Move(p, q, n) ==
    /\ p \in DOMAIN held
    /\ Grantable(held, q, n)
    /\ held' = With(Without(p), q, n)
    /\ UNCHANGED capacity

\* One step of the store, the parameters read off the states around it.
StoreNext ==
    \/ Open(capacity')
    \/ \E p \in DOMAIN held' : Grant(p, held'[p])
    \/ \E p \in DOMAIN held : GiveBack(p)
    \/ \E p \in DOMAIN held \cap DOMAIN held' : Resize(p, held'[p])
    \/ \E p \in DOMAIN held : \E q \in DOMAIN held' : Move(p, q, held'[q])

StoreSpec == StoreInit /\ [][StoreNext]_storeVars

=============================================================================
