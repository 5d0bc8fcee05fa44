----------------------------- MODULE VmProofs -----------------------------
(***************************************************************************)
(* Proofs about two parts of src/vm.c.                                     *)
(*                                                                         *)
(* Events: for every number of pins, objects and slots, whatever the VM    *)
(* and its callbacks do, the ring of hal/rp2040 is the queue that          *)
(* EventFifo promises.                                                     *)
(*                                                                         *)
(* Members of objects and classes: in every hierarchy, private properties  *)
(* change only in code of their class and readonly ones once.              *)
(***************************************************************************)
EXTENDS VmEvents, ObjectAccess, WellFoundedInduction, FiniteSetTheorems, TLAPS

\* The two indices stay within the ring, and what lies between them are
\* events that were pushed.
QueueInv ==
    /\ ring \in [0 .. QueueSize - 1 -> Pins \cup {None}]
    /\ event_read \in 0 .. QueueSize - 1
    /\ event_write \in 0 .. QueueSize - 1

-----------------------------------------------------------------------------
(* Arithmetic of the indices.                                              *)

\* The next index: one more, and back to 0 at the end.
LEMMA SuccCases ==
    ASSUME NEW i \in 0 .. QueueSize - 1
    PROVE  /\ Succ(i) \in 0 .. QueueSize - 1
           /\ Succ(i) = IF i = QueueSize - 1 THEN 0 ELSE i + 1
BY EventsAssumption, Z3 DEF Succ

\* How many events lie between two indices, and the slot of the i-th.
Distance(r, w) == IF r <= w THEN w - r ELSE w - r + QueueSize
Slot(r, i) == IF r + i - 1 < QueueSize THEN r + i - 1 ELSE r + i - 1 - QueueSize

LEMMA DistanceCases ==
    ASSUME NEW r \in 0 .. QueueSize - 1, NEW w \in 0 .. QueueSize - 1
    PROVE  (w - r) % QueueSize = Distance(r, w) /\ Distance(r, w) \in 0 .. QueueSize - 1
BY EventsAssumption, Z3 DEF Distance

LEMMA SlotCases ==
    ASSUME NEW r \in 0 .. QueueSize - 1, NEW i \in 1 .. QueueSize
    PROVE  (r + i - 1) % QueueSize = Slot(r, i) /\ Slot(r, i) \in 0 .. QueueSize - 1
<1>1. CASE r + i - 1 < QueueSize
  BY <1>1, EventsAssumption, Z3 DEF Slot
<1>2. CASE r + i - 1 >= QueueSize
  BY <1>2, EventsAssumption, Z3 DEF Slot
<1> QED
  BY <1>1, <1>2, EventsAssumption

-----------------------------------------------------------------------------
(* Rings as sequences.                                                     *)

\* The events of a ring R between the indices r and w: Queued of a state.
Between(R, r, w) == [i \in 1 .. (w - r) % QueueSize |-> R[(r + i - 1) % QueueSize]]

Rings == [0 .. QueueSize - 1 -> Pins \cup {None}]

\* They are a sequence of as many slots as the indices are apart.
LEMMA BetweenIs ==
    ASSUME NEW R \in Rings, NEW r \in 0 .. QueueSize - 1, NEW w \in 0 .. QueueSize - 1
    PROVE  /\ Between(R, r, w) \in Seq(Pins \cup {None})
           /\ Len(Between(R, r, w)) = Distance(r, w)
           /\ \A i \in 1 .. Distance(r, w) : Between(R, r, w)[i] = R[Slot(r, i)]
<1> DEFINE n == Distance(r, w)
<1>1. n \in 0 .. QueueSize - 1 /\ n = (w - r) % QueueSize
  BY DistanceCases
<1> HIDE DEF n
<1>2. \A i \in 1 .. n : /\ R[(r + i - 1) % QueueSize] = R[Slot(r, i)]
                         /\ R[Slot(r, i)] \in Pins \cup {None}
  <2> TAKE i \in 1 .. n
  <2>1. i \in 1 .. QueueSize
    BY <1>1, EventsAssumption
  <2> QED
    BY <2>1, SlotCases DEF Rings
<1>3. Between(R, r, w) = [i \in 1 .. n |-> R[Slot(r, i)]]
  BY <1>1, <1>2 DEF Between
<1>4. n \in Nat
  BY <1>1, EventsAssumption
<1>5. Between(R, r, w) \in Seq(Pins \cup {None}) /\ Len(Between(R, r, w)) = n
  BY <1>2, <1>3, <1>4
<1> QED
  BY <1>3, <1>5 DEF n

\* Writing the slot at w and moving w on appends, unless that meets r.
LEMMA WriteAppends ==
    ASSUME NEW R \in Rings, NEW r \in 0 .. QueueSize - 1, NEW w \in 0 .. QueueSize - 1,
           NEW pin \in Pins, Succ(w) # r
    PROVE  /\ Len(Between(R, r, w)) < QueueSize - 1
           /\ Between([R EXCEPT ![w] = pin], r, Succ(w)) = Append(Between(R, r, w), pin)
<1> DEFINE S == [R EXCEPT ![w] = pin]
           v == Succ(w)
           n == Distance(r, w)
           old == Between(R, r, w)
           new == Between(S, r, v)
<1>1. S \in Rings /\ v \in 0 .. QueueSize - 1 /\ v = IF w = QueueSize - 1 THEN 0 ELSE w + 1
  BY SuccCases DEF Rings
<1>2. n \in 0 .. QueueSize - 1 /\ Distance(r, v) \in 0 .. QueueSize - 1
  BY <1>1, DistanceCases
<1> HIDE DEF v, S
<1>3. Distance(r, v) = n + 1 /\ n < QueueSize - 1
  BY <1>1, <1>2, EventsAssumption DEF Distance, v
<1>4. /\ old \in Seq(Pins \cup {None}) /\ Len(old) = n
      /\ \A i \in 1 .. n : old[i] = R[Slot(r, i)]
  BY BetweenIs
<1>5. /\ new \in Seq(Pins \cup {None}) /\ Len(new) = Distance(r, v)
      /\ \A i \in 1 .. Distance(r, v) : new[i] = S[Slot(r, i)]
  BY <1>1, BetweenIs
<1>6. \A i \in 1 .. n : Slot(r, i) \in 0 .. QueueSize - 1 /\ Slot(r, i) # w
  BY <1>2, EventsAssumption DEF Slot, Distance
<1>7. Slot(r, n + 1) = w
  BY <1>2, EventsAssumption DEF Slot, Distance
<1> HIDE DEF n, old, new
<1>8. \A i \in 1 .. n : new[i] = old[i]
  BY <1>2, <1>3, <1>4, <1>5, <1>6, EventsAssumption DEF Rings, S
<1>9. new[n + 1] = pin
  BY <1>2, <1>3, <1>5, <1>7, EventsAssumption DEF Rings, S
<1>10. n \in Nat
  BY <1>2, EventsAssumption
<1>11. new = Append(old, pin)
  BY <1>3, <1>4, <1>5, <1>8, <1>9, <1>10
<1> QED
  BY <1>3, <1>4, <1>11 DEF old, new, v, S

\* Moving r on removes the oldest event, unless there is none.
LEMMA ReadRemoves ==
    ASSUME NEW R \in Rings, NEW r \in 0 .. QueueSize - 1, NEW w \in 0 .. QueueSize - 1, r # w
    PROVE  /\ Between(R, r, w) # <<>>
           /\ Between(R, Succ(r), w) = Tail(Between(R, r, w))
<1> DEFINE v == Succ(r)
           n == Distance(r, w)
           old == Between(R, r, w)
           new == Between(R, v, w)
<1>1. v \in 0 .. QueueSize - 1 /\ v = IF r = QueueSize - 1 THEN 0 ELSE r + 1
  BY SuccCases
<1>2. n \in 0 .. QueueSize - 1
  BY DistanceCases
<1> HIDE DEF v
<1>3. Distance(v, w) = n - 1 /\ n > 0
  BY <1>1, <1>2, EventsAssumption DEF Distance
<1>4. /\ old \in Seq(Pins \cup {None}) /\ Len(old) = n
      /\ \A i \in 1 .. n : old[i] = R[Slot(r, i)]
  BY BetweenIs
<1>5. /\ new \in Seq(Pins \cup {None}) /\ Len(new) = Distance(v, w)
      /\ \A i \in 1 .. Distance(v, w) : new[i] = R[Slot(v, i)]
  BY <1>1, BetweenIs
<1>6. \A i \in 1 .. n - 1 : Slot(v, i) = Slot(r, i + 1)
  BY <1>1, <1>2, EventsAssumption DEF Slot, Distance
<1> HIDE DEF n, old, new
<1>7. \A i \in 1 .. n - 1 : new[i] = old[i + 1]
  <2> SUFFICES ASSUME NEW i \in 1 .. n - 1 PROVE new[i] = old[i + 1]
    OBVIOUS
  <2>1. i + 1 \in 1 .. n
    BY <1>2, EventsAssumption
  <2>2. new[i] = R[Slot(v, i)]
    BY <1>3, <1>5
  <2>3. old[i + 1] = R[Slot(r, i + 1)]
    BY <1>4, <2>1
  <2> QED  BY <1>6, <2>2, <2>3
<1>8. old # <<>>
  BY <1>3, <1>4
<1>9. n \in Nat
  BY <1>2, EventsAssumption
<1>10. new = Tail(old)
  BY <1>3, <1>4, <1>5, <1>7, <1>8, <1>9
<1> QED
  BY <1>8, <1>10 DEF old, new, v

\* A ring without room holds as many events as EventFifo has places.
LEMMA NoRoomIsFull ==
    ASSUME NEW R \in Rings, NEW r \in 0 .. QueueSize - 1, NEW w \in 0 .. QueueSize - 1,
           Succ(w) = r
    PROVE  Len(Between(R, r, w)) = QueueSize - 1
<1>1. r = IF w = QueueSize - 1 THEN 0 ELSE w + 1
  BY SuccCases
<1>2. Distance(r, w) = QueueSize - 1
  BY <1>1, EventsAssumption DEF Distance
<1> QED
  BY <1>2, BetweenIs

-----------------------------------------------------------------------------
(* The invariant.                                                          *)

\* No step but a push or a pop touches the queue.
LEMMA QueueSteps ==
    ASSUME [Next]_vars
    PROVE  \/ \E pin \in Pins : hal_event_push(pin)
           \/ PollPop
           \/ UNCHANGED <<queueVars, interrupts>>
BY DEF Next, vars, queueVars, pphp_tick, Type, VmStep, NoTick, Tick, PollSkip, PollInvoke,
       PollInvokeFails, Instruction, Plain, Invoke, InvokeOnRoot, Raise, Exit, NewObject,
       DropObject, gpio_irq, Return, ReturnToShell, ShellRead, OnlyVms

\* The two indices stay within event_queue whatever interrupts and the VM do.
THEOREM QueueTyped == Spec => []QueueInv
<1>1. Init => QueueInv
  BY EventsAssumption DEF Init, QueueInv
<1>2. QueueInv /\ [Next]_vars => QueueInv'
  <2> SUFFICES ASSUME QueueInv, [Next]_vars PROVE QueueInv'
    OBVIOUS
  <2>1. ASSUME NEW pin \in Pins, hal_event_push(pin) PROVE QueueInv'
    BY <2>1, SuccCases DEF QueueInv, hal_event_push
  <2>2. CASE PollPop
    BY <2>2, SuccCases DEF QueueInv, PollPop
  <2>3. CASE UNCHANGED <<queueVars, interrupts>>
    BY <2>3 DEF QueueInv, queueVars
  <2> QED
    BY <2>1, <2>2, <2>3, QueueSteps
<1> QED
  BY <1>1, <1>2, PTL DEF Spec

-----------------------------------------------------------------------------
(* The refinement.                                                         *)

\* Every step is a step of the queue, and none refuses an event that has room.
LEMMA StepIsFifo ==
    ASSUME QueueInv, [Next]_vars
    PROVE  /\ [Fifo!FifoNext]_Queued
           /\ interrupts' # interrupts /\ Queued' = Queued => Len(Queued) = QueueSize - 1
<1>1. Queued = Between(ring, event_read, event_write)
  BY DEF Queued, Between
<1>2. Queued' = Between(ring', event_read', event_write')
  BY DEF Queued, Between
<1>3. /\ ring \in Rings /\ event_read \in 0 .. QueueSize - 1
      /\ event_write \in 0 .. QueueSize - 1
  BY DEF QueueInv, Rings
<1>4. ASSUME NEW pin \in Pins, hal_event_push(pin)
      PROVE  /\ [Fifo!FifoNext]_Queued
             /\ Queued' = Queued => Len(Queued) = QueueSize - 1
  <2>1. CASE Succ(event_write) = event_read
    BY <1>1, <1>2, <1>3, <1>4, <2>1, NoRoomIsFull DEF hal_event_push
  <2>2. CASE Succ(event_write) # event_read
    <3>0. /\ ring' = [ring EXCEPT ![event_write] = pin]
          /\ event_write' = Succ(event_write) /\ event_read' = event_read
      BY <1>4, <2>2 DEF hal_event_push
    <3>1. Queued' = Append(Queued, pin) /\ Len(Queued) < QueueSize - 1
      BY <1>1, <1>2, <1>3, <2>2, <3>0, WriteAppends, Zenon
    <3>2. Queued \in Seq(Pins \cup {None})
      BY <1>1, <1>3, BetweenIs
    <3>3. Queued' # Queued
      BY <3>1, <3>2
    <3> QED
      BY <3>1, <3>3 DEF Fifo!FifoNext, Fifo!Enqueue
  <2> QED
    BY <2>1, <2>2
<1>5. ASSUME PollPop PROVE [Fifo!FifoNext]_Queued
  <2>1. CASE event_read = event_write
    BY <1>1, <1>2, <1>5, <2>1 DEF PollPop
  <2>2. CASE event_read # event_write
    <3>1. Queued # <<>> /\ Queued' = Tail(Queued)
      BY <1>1, <1>2, <1>3, <1>5, <2>2, ReadRemoves DEF PollPop
    <3> QED
      BY <3>1 DEF Fifo!FifoNext, Fifo!Dequeue
  <2> QED
    BY <2>1, <2>2
<1>6. ASSUME UNCHANGED queueVars PROVE Queued' = Queued
  BY <1>1, <1>2, <1>6 DEF queueVars
<1>7. PollPop => interrupts' = interrupts
  BY DEF PollPop
<1> QED
  BY <1>4, <1>5, <1>6, <1>7, QueueSteps

\* QueueIsFifo: interrupts and polls, in any order, through any number of
\* callbacks, use hal_event_push() and hal_event_pop() as one bounded queue:
\* accepted events are delivered once and in order, and an event is refused
\* only when QueueSize - 1 of them wait.
THEOREM EventQueueCorrect == Spec => QueueIsFifo
<1>1. Init => Fifo!FifoInit
  <2> SUFFICES ASSUME Init PROVE Queued = <<>>
    BY DEF Fifo!FifoInit
  <2>1. (event_write - event_read) % QueueSize = 0
    BY DistanceCases, EventsAssumption DEF Init, Distance
  <2> QED
    BY <2>1 DEF Queued
<1>2. QueueInv /\ [Next]_vars => [Fifo!FifoNext]_Queued
  BY StepIsFifo
<1>3. QueueInv /\ [Next]_vars =>
        [interrupts' # interrupts /\ Queued' = Queued => Len(Queued) = QueueSize - 1]_vars
  BY StepIsFifo
<1> QED
  BY <1>1, <1>2, <1>3, QueueTyped, PTL
  DEF Spec, QueueIsFifo, Fifo!FifoSpec, RefusedOnlyWhenFull

-----------------------------------------------------------------------------
(***************************************************************************)
(* Lookup along a hierarchy, for any number of classes.                    *)
(***************************************************************************)
LEMMA Least ==
  ASSUME NEW S \in SUBSET Nat, S # {}
  PROVE  \E i \in S : \A j \in S : i <= j
<1>1. PICK i \in S : \A j \in S : <<j, i>> \notin OpToRel(<, Nat)
  BY NatLessThanWellFounded, WFMin, Zenon
<1>2. \A j \in S : ~(j < i)
  BY <1>1 DEF OpToRel
<1> QED
  BY <1>2

\* c, its parent, the parent's parent, and so on; "" from the root on.
Size(t) == Cardinality(DOMAIN t)
Parent(t, c) == IF c = "" THEN "" ELSE t[c].parent
Line(t, c, line) ==
  /\ line[0] = c
  /\ \A n \in 1 .. Size(t) : line[n] = Parent(t, line[n - 1])

LEMMA LineExists ==
  ASSUME NEW t, NEW c, NEW N \in Nat
  PROVE  \E f : f = [n \in 0 .. N |-> IF n = 0 THEN c ELSE Parent(t, f[n - 1])]
<1> DEFINE Body(f, n) == IF n = 0 THEN c ELSE Parent(t, f[n - 1])
           Upto(n) == \E f : f = [m \in 0 .. n |-> Body(f, m)]
<1> SUFFICES ASSUME ~Upto(N) PROVE FALSE
  OBVIOUS
<1> DEFINE S == {n \in Nat : ~Upto(n)}
<1>1. N \in S
  OBVIOUS
<1> HIDE DEF Upto
<1>2. PICK n \in S : \A j \in S : n <= j
  BY <1>1, Least
<1>3. n # 0
  <2> DEFINE g == [m \in 0 .. 0 |-> c]
  <2>1. g = [m \in 0 .. 0 |-> Body(g, m)]
    OBVIOUS
  <2>2. Upto(0)
    BY <2>1 DEF Upto
  <2> QED  BY <2>2, <1>2
<1>4. n - 1 \in Nat /\ Upto(n - 1)
  BY <1>2, <1>3
<1>5. PICK f : f = [m \in 0 .. n - 1 |-> Body(f, m)]
  BY <1>4 DEF Upto
<1> DEFINE last == Body(f, n)
           g == [m \in 0 .. n |-> IF m = n THEN last ELSE f[m]]
<1> HIDE DEF Body
<1>6. \A m \in 0 .. n : Body(g, m) = g[m]
  <2> SUFFICES ASSUME NEW m \in 0 .. n PROVE Body(g, m) = g[m]
    OBVIOUS
  <2>1. Body(g, m) = Body(f, m)
    <3>1. m > 0 => g[m - 1] = f[m - 1]
      BY <1>4
    <3> QED  BY <3>1 DEF Body
  <2>2. CASE m = n
    BY <2>1, <2>2
  <2>3. CASE m # n
    <3>1. m \in 0 .. n - 1
      BY <2>3, <1>4
    <3>2. f[m] = Body(f, m)
      BY <1>5, <3>1
    <3> QED  BY <2>1, <2>3, <3>2
  <2> QED  BY <2>2, <2>3
<1>7. g = [m \in 0 .. n |-> Body(g, m)]
  BY <1>6
<1>8. Upto(n)
  BY <1>7 DEF Upto
<1> QED  BY <1>8, <1>2

LEMMA LineIs ==
  ASSUME NEW t, IsFiniteSet(DOMAIN t), NEW c
  PROVE  \E line : Line(t, c, line) /\ Ancestors(t, c) = {line[n] : n \in 0 .. Size(t)} \ {""}
<1>1. Size(t) \in Nat
  BY FS_CardinalityType DEF Size
<1> DEFINE F == CHOOSE f : f = [n \in 0 .. Size(t) |-> IF n = 0 THEN c ELSE Parent(t, f[n - 1])]
<1>2. F = [n \in 0 .. Size(t) |-> IF n = 0 THEN c ELSE Parent(t, F[n - 1])]
  BY <1>1, LineExists
<1>3. Ancestors(t, c) = {F[n] : n \in DOMAIN F} \ {""}
  BY DEF Ancestors, Parent, Size
<1> HIDE DEF F
<1>4. Line(t, c, F)
  BY <1>1, <1>2 DEF Line
<1>5. DOMAIN F = 0 .. Size(t)
  BY <1>2
<1> QED  BY <1>3, <1>4, <1>5

\* Parents are classes of the table, and then so are their parents.
Rooted(t) == \A d \in DOMAIN t : t[d].parent \in DOMAIN t \cup {""}

LEMMA AncestorsDeclared ==
  ASSUME NEW t, IsFiniteSet(DOMAIN t), Rooted(t), NEW c \in DOMAIN t
  PROVE  Ancestors(t, c) \subseteq DOMAIN t
<1>1. PICK line : Line(t, c, line) /\ Ancestors(t, c) = {line[n] : n \in 0 .. Size(t)} \ {""}
  BY LineIs
<1>0. PICK N \in Nat : N = Size(t)
  BY FS_CardinalityType DEF Size
<1> DEFINE Known == DOMAIN t \cup {""}
<1>a. c \in Known /\ \A d \in Known : Parent(t, d) \in Known
  BY DEF Parent, Rooted
<1>b. line[0] = c /\ \A n \in 1 .. N : line[n] = Parent(t, line[n - 1])
  BY <1>0, <1>1 DEF Line
<1> HIDE DEF Known
<1>2. \A n \in 0 .. N : line[n] \in Known
  <2> SUFFICES ASSUME NEW x \in 0 .. N, line[x] \notin Known PROVE FALSE
    OBVIOUS
  <2> DEFINE S == {n \in 0 .. N : line[n] \notin Known}
  <2>1. PICK n \in S : \A j \in S : n <= j
    <3>1. S \in SUBSET Nat /\ x \in S
      OBVIOUS
    <3> HIDE DEF S
    <3> QED  BY <3>1, Least
  <2>2. n # 0
    BY <2>1, <1>a, <1>b
  <2>3. n \in 1 .. N /\ n - 1 \in 0 .. N /\ ~(n <= n - 1)
    BY <2>1, <2>2
  <2>4. line[n] = Parent(t, line[n - 1]) /\ line[n - 1] \in Known
    BY <2>1, <2>3, <1>b
  <2> QED  BY <2>1, <2>3, <2>4, <1>a
<1> QED  BY <1>0, <1>1, <1>2 DEF Known

LEMMA NearestIs ==
  ASSUME NEW t, IsFiniteSet(DOMAIN t), NEW c, NEW cs, cs \subseteq Ancestors(t, c), cs # {}
  PROVE  Nearest(t, cs) \in cs
<1>1. PICK line : Line(t, c, line) /\ Ancestors(t, c) = {line[n] : n \in 0 .. Size(t)} \ {""}
  BY LineIs
<1>2. PICK N \in Nat : N = Size(t)
  BY FS_CardinalityType DEF Size
<1> DEFINE S == {n \in 0 .. N : line[n] \in cs}
<1>3. PICK n \in S : \A j \in S : n <= j
  <2>1. S \in SUBSET Nat
    OBVIOUS
  <2>2. PICK x \in cs : x \in Ancestors(t, c)
    OBVIOUS
  <2>3. PICK k \in 0 .. N : line[k] = x
    BY <1>1, <1>2, <2>2
  <2>4. k \in S
    BY <2>2, <2>3
  <2> HIDE DEF S
  <2> QED  BY <2>1, <2>4, Least
<1>4. n \in 0 .. N /\ line[n] \in cs
  BY <1>3
<1>5. PICK up : Line(t, line[n], up) /\ Ancestors(t, line[n]) = {up[k] : k \in 0 .. Size(t)} \ {""}
  BY LineIs
<1>6. \A k \in 0 .. N - n : up[k] = line[n + k]
  <2> SUFFICES ASSUME NEW x \in 0 .. N - n, up[x] # line[n + x] PROVE FALSE
    OBVIOUS
  <2> DEFINE D == {k \in 0 .. N - n : up[k] # line[n + k]}
  <2>1. PICK k \in D : \A j \in D : k <= j
    <3>1. D \in SUBSET Nat /\ x \in D
      BY <1>4
    <3> HIDE DEF D
    <3> QED  BY <3>1, Least
  <2>2. k \in 0 .. N - n /\ up[k] # line[n + k]
    BY <2>1
  <2>3. k # 0
    <3> SUFFICES ASSUME k = 0 PROVE FALSE
      OBVIOUS
    <3>1. up[0] = line[n]
      BY <1>5 DEF Line
    <3>2. n + 0 = n
      BY <1>4
    <3> QED  BY <3>1, <3>2, <2>2
  <2>4. /\ k \in 1 .. N /\ n + k \in 1 .. N /\ (n + k) - 1 = n + (k - 1)
        /\ k - 1 \in 0 .. N - n /\ ~(k <= k - 1)
    BY <2>2, <2>3, <1>4
  <2>5. up[k - 1] = line[n + (k - 1)]
    BY <2>1, <2>4
  <2>6. up[k] = Parent(t, up[k - 1]) /\ line[n + k] = Parent(t, line[(n + k) - 1])
    BY <2>4, <1>1, <1>2, <1>5 DEF Line
  <2> QED  BY <2>2, <2>4, <2>5, <2>6
<1>7. cs \subseteq Ancestors(t, line[n])
  <2> SUFFICES ASSUME NEW x \in cs PROVE x \in Ancestors(t, line[n])
    OBVIOUS
  <2>1. PICK m \in 0 .. N : line[m] = x /\ x # ""
    BY <1>1, <1>2
  <2>2. n <= m
    BY <1>3, <2>1
  <2>3. m - n \in 0 .. N - n /\ m - n \in 0 .. N /\ n + (m - n) = m
    BY <2>2, <1>4
  <2>4. up[m - n] = x
    BY <2>1, <2>3, <1>6
  <2> QED  BY <2>1, <2>3, <2>4, <1>2, <1>5
<1> QED  BY <1>4, <1>7 DEF Nearest

-----------------------------------------------------------------------------
(***************************************************************************)
(* Members of objects and classes (ObjectAccess), for all hierarchies, any *)
(* number of objects and frames, and programs that try everything.         *)
(***************************************************************************)
IsSeq(s) == \E S : s \in Seq(S)

\* An object of a class of table t has the slots of that class; those marked
\* hold a value that was stored, the others their default.
SoundObject(t, x) ==
  /\ DOMAIN x = {"class", "written", "slots"}
  /\ x.class \in DOMAIN t
  /\ DOMAIN x.slots = {p.name : p \in PropertiesOf(t, x.class)}
  /\ x.written \subseteq DOMAIN x.slots
  /\ \A n \in DOMAIN x.slots : IF n \in x.written THEN x.slots[n] \in Values ELSE x.slots[n] = Null

\* A frame runs code of a class of the table or of none, on one of k objects.
SoundFrame(t, k, f) ==
  /\ f.scope \in DOMAIN t \cup {""} /\ f.called \in DOMAIN t \cup {""}
  /\ f.this \in 0 .. k

AccessInv ==
  /\ hier \in Hierarchies
  /\ IsSeq(objects) /\ \A o \in 1 .. Len(objects) : SoundObject(T, objects[o])
  /\ IsSeq(frames) /\ Len(frames) > 0
  /\ \A i \in 1 .. Len(frames) : SoundFrame(T, Len(objects), frames[i])

LEMMA SeqIs ==
  ASSUME NEW s, IsSeq(s)
  PROVE  Len(s) \in Nat /\ DOMAIN s = 1 .. Len(s)
BY DEF IsSeq

LEMMA AppendedIs ==
  ASSUME NEW s, IsSeq(s), NEW x
  PROVE  /\ IsSeq(Append(s, x)) /\ Len(Append(s, x)) = Len(s) + 1 /\ Append(s, x)[Len(s) + 1] = x
         /\ \A i \in 1 .. Len(s) : Append(s, x)[i] = s[i]
<1>1. PICK S : s \in Seq(S)
  BY DEF IsSeq
<1>2. s \in Seq(S \cup {x}) /\ x \in S \cup {x}
  BY <1>1
<1>3. Append(s, x) \in Seq(S \cup {x})
  BY <1>2
<1> QED  BY <1>1, <1>2, <1>3 DEF IsSeq

LEMMA HierarchyIs ==
  ASSUME hier \in Hierarchies
  PROVE  /\ IsFiniteSet(DOMAIN T) /\ "" \notin DOMAIN T /\ Rooted(T)
         /\ hier.forms \cup hier.makes \subseteq DOMAIN T \cup {"self", "parent", "static"}
         /\ \A c \in DOMAIN T :
              /\ \A x \in T[c].props \cup T[c].methods : x.owner = c
              /\ \A p, q \in PropertiesOf(T, c) : p.name = q.name => p = q
BY HierarchiesAssumption DEF T, Rooted

LEMMA CurrentIs ==
  ASSUME AccessInv
  PROVE  SoundFrame(T, Len(objects), Current)
<1>1. Len(frames) \in 1 .. Len(frames)
  BY SeqIs DEF AccessInv
<1>2. Current = frames[Len(frames)]
  BY DEF Current, Last
<1> QED  BY <1>1, <1>2 DEF AccessInv

\* A name in the code means a class of the table, or none.
LEMMA ResolvedIs ==
  ASSUME AccessInv, NEW form \in hier.forms \cup hier.makes
  PROVE  resolve_class_name(form) \in DOMAIN T \cup {""}
<1>1. form \in DOMAIN T \cup {"self", "parent", "static"}
  BY HierarchyIs DEF AccessInv
<1>2. Current.scope \in DOMAIN T \cup {""} /\ Current.called \in DOMAIN T \cup {""}
  BY CurrentIs DEF SoundFrame
<1>3. Current.scope # "" => T[Current.scope].parent \in DOMAIN T \cup {""}
  BY <1>2, HierarchyIs DEF AccessInv, Rooted
<1> HIDE DEF T, Current
<1> QED  BY <1>1, <1>2, <1>3 DEF resolve_class_name

\* The method found for a class belongs to it or to a parent.
LEMMA MethodOwner ==
  ASSUME AccessInv, NEW c \in DOMAIN T, NEW m, pclass_find_method(T, c, m) # NoMethod
  PROVE  pclass_find_method(T, c, m).owner \in DOMAIN T
<1> DEFINE owners == {a \in Ancestors(T, c) : Own(T[a], m) # {}}
           a == Nearest(T, owners)
           f == pclass_find_method(T, c, m)
<1>0. hier \in Hierarchies
  BY DEF AccessInv
<1>1. owners # {} /\ f = CHOOSE g \in Own(T[a], m) : TRUE
  BY DEF pclass_find_method
<1>2. a \in owners
  <2>1. IsFiniteSet(DOMAIN T) /\ owners \subseteq Ancestors(T, c)
    BY <1>0, HierarchyIs
  <2> HIDE DEF owners, T
  <2> QED  BY <1>1, <2>1, NearestIs
<1>3. Ancestors(T, c) \subseteq DOMAIN T
  <2>1. IsFiniteSet(DOMAIN T) /\ Rooted(T)
    BY <1>0, HierarchyIs
  <2> HIDE DEF T
  <2> QED  BY <2>1, AncestorsDeclared
<1>4. a \in DOMAIN T /\ Own(T[a], m) # {}
  BY <1>2, <1>3
<1> HIDE DEF a, owners
<1>5. f \in Own(T[a], m)
  BY <1>1, <1>4
<1>6. f \in T[a].methods
  BY <1>5 DEF Own
<1>7. f.owner = a
  BY <1>0, <1>4, <1>6, HierarchyIs
<1> QED  BY <1>4, <1>7

\* The static property found for a class is one that its owner declares.
LEMMA StaticOwner ==
  ASSUME AccessInv, NEW c \in DOMAIN T, NEW n, FindStatic(c, n) # {}
  PROVE  LET p == The(FindStatic(c, n))
         IN p = The(With(StaticsOf(p.owner), n))
<1> DEFINE owners == {a \in Ancestors(T, c) : With(StaticsOf(a), n) # {}}
           a == Nearest(T, owners)
           p == The(FindStatic(c, n))
<1>0. hier \in Hierarchies
  BY DEF AccessInv
<1>1. owners # {} /\ FindStatic(c, n) = With(StaticsOf(a), n)
  BY DEF FindStatic
<1>2. a \in owners
  <2>1. IsFiniteSet(DOMAIN T) /\ owners \subseteq Ancestors(T, c)
    BY <1>0, HierarchyIs
  <2> HIDE DEF owners, T
  <2> QED  BY <1>1, <2>1, NearestIs
<1>3. Ancestors(T, c) \subseteq DOMAIN T
  <2>1. IsFiniteSet(DOMAIN T) /\ Rooted(T)
    BY <1>0, HierarchyIs
  <2> HIDE DEF T
  <2> QED  BY <2>1, AncestorsDeclared
<1>4. a \in DOMAIN T
  BY <1>2, <1>3
<1> HIDE DEF a, owners
<1>5. p \in With(StaticsOf(a), n)
  BY <1>1 DEF The
<1>6. p \in T[a].props
  BY <1>5 DEF With, StaticsOf
<1>7. p.owner = a
  BY <1>0, <1>4, <1>6, HierarchyIs
<1> QED  BY <1>1, <1>7

-----------------------------------------------------------------------------
(* The instructions.                                                       *)

\* What a property that may be written is.
LEMMA SetsIs ==
  ASSUME NEW o, NEW n, PropSet(o, n) = <<"sets">>
  PROVE  \E p \in PropertiesOf(T, objects[o].class) :
           /\ p.name = n /\ pclass_member_visible(p.flags, p.owner, Current.scope)
           /\ "readonly" \in p.flags => n \notin objects[o].written
<1> DEFINE found == With(PropertiesOf(T, objects[o].class), n)
           p == The(found)
<1>1. <<"magic">> # <<"sets">> /\ Refused # <<"sets">>
  BY DEF Refused
<1>2. found # {}
  BY <1>1 DEF PropSet
<1>3. pclass_member_visible(p.flags, p.owner, Current.scope)
  BY <1>1, <1>2 DEF PropSet
<1>4. "readonly" \in p.flags => n \notin objects[o].written
  BY <1>1, <1>2, <1>3 DEF PropSet
<1>5. p \in found
  BY <1>2 DEF The
<1>6. p \in PropertiesOf(T, objects[o].class) /\ p.name = n
  BY <1>5 DEF With
<1> QED  BY <1>3, <1>4, <1>6

\* One slot of one object changes, and that object is marked.
LEMMA WritesOne ==
  ASSUME AccessInv, SetProperty
  PROVE  \E o \in 1 .. Len(objects), w \in Values : \E n \in DOMAIN objects[o].slots :
           /\ PropSet(o, n) = <<"sets">>
           /\ IsSeq(objects') /\ Len(objects') = Len(objects)
           /\ \A q \in 1 .. Len(objects) : q # o => objects'[q] = objects[q]
           /\ DOMAIN objects'[o] = {"class", "written", "slots"}
           /\ objects'[o].class = objects[o].class
           /\ objects'[o].written = objects[o].written \cup {n}
           /\ objects'[o].slots = [objects[o].slots EXCEPT ![n] = w]
           /\ UNCHANGED <<hier, statics, frames>>
<1>1. IsSeq(objects) /\ Len(objects) \in Nat /\ DOMAIN objects = 1 .. Len(objects)
  BY SeqIs DEF AccessInv
<1>2. PICK o \in 1 .. Len(objects), w \in Values : \E n \in DOMAIN objects[o].slots :
        /\ PropSet(o, n) = <<"sets">>
        /\ objects' = [objects EXCEPT ![o].slots[n] = w, ![o].written = @ \cup {n}]
        /\ UNCHANGED <<hier, statics, frames>>
  BY <1>1 DEF SetProperty
<1>3. PICK n \in DOMAIN objects[o].slots :
        /\ PropSet(o, n) = <<"sets">>
        /\ objects' = [objects EXCEPT ![o].slots[n] = w, ![o].written = @ \cup {n}]
        /\ UNCHANGED <<hier, statics, frames>>
  BY <1>2
<1>4. PICK x : x = objects[o]
  OBVIOUS
<1>5. DOMAIN x = {"class", "written", "slots"}
  BY <1>4 DEF AccessInv, SoundObject
<1> DEFINE y == [x EXCEPT !.slots = [x.slots EXCEPT ![n] = w], !.written = x.written \cup {n}]
<1>6. /\ DOMAIN y = {"class", "written", "slots"} /\ y.class = x.class
      /\ y.written = x.written \cup {n} /\ y.slots = [x.slots EXCEPT ![n] = w]
  BY <1>5
<1>7. objects' = [objects EXCEPT ![o] = y]
  BY <1>1, <1>3, <1>4, <1>5
<1> HIDE DEF y
<1>8. IsSeq(objects') /\ Len(objects') = Len(objects)
  <2>1. PICK S : objects \in Seq(S)
    BY <1>1 DEF IsSeq
  <2>2. objects \in Seq(S \cup {y}) /\ y \in S \cup {y}
    BY <2>1
  <2>3. objects' \in Seq(S \cup {y}) /\ Len(objects') = Len(objects)
    BY <2>2, <1>7
  <2> QED  BY <2>3 DEF IsSeq
<1>9. objects'[o] = y /\ \A q \in 1 .. Len(objects) : q # o => objects'[q] = objects[q]
  BY <1>1, <1>7
<1>10. objects'[o].slots = [objects[o].slots EXCEPT ![n] = w]
  BY <1>4, <1>6, <1>9
<1>11. objects'[o].class = objects[o].class /\ objects'[o].written = objects[o].written \cup {n}
  BY <1>4, <1>6, <1>9
<1>12. DOMAIN objects'[o] = {"class", "written", "slots"}
  BY <1>6, <1>9
<1> QED
  <2> WITNESS o \in 1 .. Len(objects), w \in Values
  <2> WITNESS n \in DOMAIN objects[o].slots
  <2> QED  BY <1>3, <1>8, <1>9, <1>10, <1>11, <1>12, Zenon

LEMMA FrameIs ==
  ASSUME NEW t, NEW k, NEW s \in DOMAIN t \cup {""}, NEW c \in DOMAIN t \cup {""}, NEW i \in 0 .. k, NEW d
  PROVE  SoundFrame(t, k, Frame(s, c, i, d))
<1> DEFINE f == Frame(s, c, i, d)
<1>1. f.scope = s /\ f.called = c /\ f.this = i
  BY DEF Frame
<1> HIDE DEF f
<1>2. SoundFrame(t, k, f)
  BY <1>1 DEF SoundFrame
<1> QED  BY <1>2 DEF f

\* The frame that a method call enters.
LEMMA MethodEnters ==
  ASSUME AccessInv, NEW o \in 1 .. Len(objects), NEW m, NEW a, a = MethodCall(o, m), a # Refused
  PROVE  SoundFrame(T, Len(objects), Frame(a[2], a[3], a[4], FALSE))
<1> DEFINE f == pclass_find_method(T, objects[o].class, m)
<1>1. objects[o].class \in DOMAIN T
  BY DEF AccessInv, SoundObject
<1>2. f # NoMethod
  BY DEF MethodCall
<1>3. f.owner \in DOMAIN T
  BY <1>1, <1>2, MethodOwner
<1>4. a = Enters(f.owner, objects[o].class, o)
  BY <1>2 DEF MethodCall
<1>5. a[2] = f.owner /\ a[3] = objects[o].class /\ a[4] = o
  BY <1>4 DEF Enters
<1>6. Len(objects) \in Nat
  BY SeqIs DEF AccessInv
<1>7. o \in 0 .. Len(objects)
  BY <1>6
<1> HIDE DEF f, T
<1> QED  BY <1>1, <1>3, <1>5, <1>7, FrameIs

\* The frame that a static call enters.
LEMMA StaticEnters ==
  ASSUME AccessInv, NEW form \in hier.forms, NEW m, NEW a, a = StaticCall(form, m), a # Refused
  PROVE  SoundFrame(T, Len(objects), Frame(a[2], a[3], a[4], FALSE))
<1> DEFINE c == resolve_class_name(form)
           f == IF c = "" THEN NoMethod ELSE pclass_find_method(T, c, m)
<1>1. f # NoMethod
  BY DEF StaticCall
<1>2. c \in DOMAIN T
  BY <1>1, ResolvedIs
<1>3. f.owner \in DOMAIN T
  <2>1. c # ""
    BY <1>1
  <2>2. f = pclass_find_method(T, c, m)
    BY <2>1
  <2> QED  BY <1>1, <1>2, <2>2, MethodOwner
<1>4. \/ a = Enters(f.owner, c, 0)
      \/ Current.this # 0 /\ a = Enters(f.owner, objects[Current.this].class, Current.this)
  BY <1>1 DEF StaticCall
<1>5. Len(objects) \in Nat
  BY SeqIs DEF AccessInv
<1>6. Current.this # 0 => Current.this \in 1 .. Len(objects)
  <2>1. PICK k : k = Current.this
    OBVIOUS
  <2>2. k \in 0 .. Len(objects)
    BY <2>1, CurrentIs DEF SoundFrame
  <2> QED  BY <1>5, <2>1, <2>2
<1>7. Current.this # 0 => objects[Current.this].class \in DOMAIN T
  BY <1>6 DEF AccessInv, SoundObject
<1> HIDE DEF c, f, T, Current
<1>8. /\ a[2] = f.owner
      /\ a[3] \in DOMAIN T
      /\ a[4] = 0 \/ a[4] \in 1 .. Len(objects)
  <2>1. CASE a = Enters(f.owner, c, 0)
    BY <1>2, <2>1 DEF Enters
  <2>2. CASE Current.this # 0 /\ a = Enters(f.owner, objects[Current.this].class, Current.this)
    BY <1>6, <1>7, <2>2 DEF Enters
  <2> QED  BY <1>4, <2>1, <2>2
<1>9. a[4] \in 0 .. Len(objects)
  BY <1>5, <1>8
<1> QED  BY <1>3, <1>8, <1>9, FrameIs

\* The object that is made, and the frame of its constructor.
LEMMA ConstructIs ==
  ASSUME AccessInv, NEW form \in hier.makes, NEW a, a = Construct(form), a # Refused
  PROVE  a[2] \in DOMAIN T /\ (a[1] # "makes" => a[3] \in DOMAIN T)
<1> DEFINE c == resolve_class_name(form)
           f == pclass_find_method(T, c, "__construct")
<1>1. c # ""
  BY DEF Construct
<1>2. c \in DOMAIN T
  BY <1>1, ResolvedIs
<1>3. f # NoMethod => f.owner \in DOMAIN T
  BY <1>2, MethodOwner
<1>4. a = <<"makes", c>> \/ (f # NoMethod /\ a = <<"constructs", c, f.owner>>)
  BY <1>1 DEF Construct
<1> HIDE DEF c, f, T
<1> QED  BY <1>2, <1>3, <1>4

\* More objects leave the frames as sound as they were.
LEMMA FramesStay ==
  ASSUME NEW t, NEW k \in Nat, NEW f, SoundFrame(t, k, f)
  PROVE  SoundFrame(t, k + 1, f)
<1>1. PICK i : i = f.this
  OBVIOUS
<1>2. i \in 0 .. k
  BY <1>1 DEF SoundFrame
<1>3. i \in 0 .. k + 1
  BY <1>2
<1> QED  BY <1>1, <1>3 DEF SoundFrame

\* A frame is put on the stack, on an object that may be new.
LEMMA PushedIs ==
  ASSUME NEW t, NEW k \in Nat, NEW j \in {k, k + 1}, IsSeq(frames), Len(frames) > 0,
         \A i \in 1 .. Len(frames) : SoundFrame(t, k, frames[i]),
         NEW f, SoundFrame(t, j, f), Push(f)
  PROVE  /\ IsSeq(frames') /\ Len(frames') > 0
         /\ \A i \in 1 .. Len(frames') : SoundFrame(t, j, frames'[i])
<1>1. Len(frames) \in Nat
  BY SeqIs
<1>2. /\ IsSeq(frames') /\ Len(frames') = Len(frames) + 1 /\ frames'[Len(frames) + 1] = f
      /\ \A i \in 1 .. Len(frames) : frames'[i] = frames[i]
  <2>1. frames' = Append(frames, f)
    BY DEF Push
  <2>2. /\ IsSeq(Append(frames, f)) /\ Len(Append(frames, f)) = Len(frames) + 1
        /\ Append(frames, f)[Len(frames) + 1] = f
        /\ \A i \in 1 .. Len(frames) : Append(frames, f)[i] = frames[i]
    BY AppendedIs, Zenon
  <2> QED  BY <2>1, <2>2, Zenon
<1>3. SUFFICES ASSUME NEW i \in 1 .. Len(frames') PROVE SoundFrame(t, j, frames'[i])
  BY <1>1, <1>2
<1>4. CASE i \in 1 .. Len(frames)
  <2>1. SoundFrame(t, k, frames'[i])
    BY <1>2, <1>4
  <2> QED  BY <2>1, FramesStay
<1>5. CASE i = Len(frames) + 1
  BY <1>2, <1>5
<1> QED  BY <1>1, <1>2, <1>4, <1>5

\* An object is added.
LEMMA AddedIs ==
  ASSUME AccessInv, NEW x, SoundObject(T, x), objects' = Append(objects, x)
  PROVE  /\ IsSeq(objects') /\ Len(objects') = Len(objects) + 1 /\ Len(objects) \in Nat
         /\ \A o \in 1 .. Len(objects') : SoundObject(T, objects'[o])
         /\ \A o \in 1 .. Len(objects) : objects'[o] = objects[o]
<1>1. IsSeq(objects) /\ Len(objects) \in Nat /\ \A o \in 1 .. Len(objects) : SoundObject(T, objects[o])
  BY SeqIs DEF AccessInv
<1>2. /\ IsSeq(objects') /\ Len(objects') = Len(objects) + 1 /\ objects'[Len(objects) + 1] = x
      /\ \A o \in 1 .. Len(objects) : objects'[o] = objects[o]
  <2>1. objects' = Append(objects, x)
    OBVIOUS
  <2>2. /\ IsSeq(Append(objects, x)) /\ Len(Append(objects, x)) = Len(objects) + 1
        /\ Append(objects, x)[Len(objects) + 1] = x
        /\ \A o \in 1 .. Len(objects) : Append(objects, x)[o] = objects[o]
    <3>1. IsSeq(objects)
      BY <1>1
    <3> QED  BY <3>1, AppendedIs
  <2> QED  BY <2>1, <2>2, Zenon
<1>3. ASSUME NEW o \in 1 .. Len(objects') PROVE SoundObject(T, objects'[o])
  <2>1. CASE o \in 1 .. Len(objects)
    BY <1>1, <1>2, <2>1
  <2>2. CASE o = Len(objects) + 1
    BY <1>2, <2>2
  <2> QED  BY <1>1, <1>2, <2>1, <2>2
<1> QED  BY <1>1, <1>2, <1>3

LEMMA AccessStarts == AccessInit => AccessInv
<1> SUFFICES ASSUME AccessInit PROVE AccessInv
  OBVIOUS
<1>1. hier \in Hierarchies /\ objects = <<>> /\ frames = <<Frame("", "", 0, FALSE)>>
  BY DEF AccessInit
<1>2. IsSeq(objects) /\ Len(objects) = 0
  <2>1. PICK r : r = objects
    OBVIOUS
  <2>2. r = <<>>
    BY <1>1, <2>1
  <2>3. r \in Seq({0}) /\ Len(r) = 0
    BY <2>2
  <2> QED  BY <2>1, <2>3 DEF IsSeq
<1>3. SoundFrame(T, 0, Frame("", "", 0, FALSE))
  <2>1. "" \in DOMAIN T \cup {""}
    OBVIOUS
  <2>2. 0 \in 0 .. 0
    OBVIOUS
  <2> HIDE DEF T
  <2> QED  BY <2>1, <2>2, FrameIs
<1> DEFINE f == Frame("", "", 0, FALSE)
<1>4. frames = <<f>>
  BY <1>1
<1>a. SoundFrame(T, 0, f)
  BY <1>3
<1> HIDE DEF f
<1>5. IsSeq(frames) /\ Len(frames) = 1 /\ frames[1] = f
  <2>1. frames \in Seq({f})
    BY <1>4
  <2> QED  BY <1>4, <2>1 DEF IsSeq
<1>6. \A o \in 1 .. Len(objects) : SoundObject(T, objects[o])
  BY <1>2
<1>7. \A i \in 1 .. Len(frames) : SoundFrame(T, Len(objects), frames[i])
  BY <1>2, <1>a, <1>5
<1>8. Len(frames) > 0
  BY <1>5
<1> QED  BY <1>1, <1>2, <1>5, <1>6, <1>7, <1>8 DEF AccessInv

LEMMA AccessKept == AccessInv /\ [AccessNext]_accessVars => AccessInv'
<1> SUFFICES ASSUME AccessInv, [AccessNext]_accessVars PROVE AccessInv'
  OBVIOUS
<1> USE DEF accessVars
<1>1. hier' = hier
  BY DEF AccessNext, SetProperty, SetStatic, CallMethod, CallStatic, New, Clone, return_from_function
<1>2. T' = T
  BY <1>1 DEF T
<1>3. /\ hier' \in Hierarchies
      /\ IsSeq(objects) /\ Len(objects) \in Nat /\ \A o \in 1 .. Len(objects) : SoundObject(T, objects[o])
      /\ IsSeq(frames) /\ Len(frames) \in Nat /\ Len(frames) > 0
      /\ \A i \in 1 .. Len(frames) : SoundFrame(T, Len(objects), frames[i])
  BY <1>1, SeqIs DEF AccessInv
<1> DEFINE ObjectsOk == IsSeq(objects') /\ \A o \in 1 .. Len(objects') : SoundObject(T, objects'[o])
           FramesOk == /\ IsSeq(frames') /\ Len(frames') > 0
                       /\ \A i \in 1 .. Len(frames') : SoundFrame(T, Len(objects'), frames'[i])
<1>4. SUFFICES ObjectsOk /\ FramesOk
  BY <1>2, <1>3 DEF AccessInv
<1> HIDE DEF T
<1>5. objects' = objects => ObjectsOk
  BY <1>3
<1>6. (frames' = frames /\ Len(objects') = Len(objects)) => FramesOk
  BY <1>3
<1>7. ASSUME NEW f, SoundFrame(T, Len(objects), f), Push(f), objects' = objects PROVE FramesOk
  BY <1>3, <1>7, PushedIs
<1>8. CASE SetProperty
  <2>1. PICK o \in 1 .. Len(objects), w \in Values : \E n \in DOMAIN objects[o].slots :
           /\ IsSeq(objects') /\ Len(objects') = Len(objects)
           /\ \A q \in 1 .. Len(objects) : q # o => objects'[q] = objects[q]
           /\ DOMAIN objects'[o] = {"class", "written", "slots"}
           /\ objects'[o].class = objects[o].class
           /\ objects'[o].written = objects[o].written \cup {n}
           /\ objects'[o].slots = [objects[o].slots EXCEPT ![n] = w]
           /\ UNCHANGED <<hier, statics, frames>>
    BY <1>8, WritesOne
  <2>2. PICK n \in DOMAIN objects[o].slots :
           /\ IsSeq(objects') /\ Len(objects') = Len(objects)
           /\ \A q \in 1 .. Len(objects) : q # o => objects'[q] = objects[q]
           /\ DOMAIN objects'[o] = {"class", "written", "slots"}
           /\ objects'[o].class = objects[o].class
           /\ objects'[o].written = objects[o].written \cup {n}
           /\ objects'[o].slots = [objects[o].slots EXCEPT ![n] = w]
           /\ UNCHANGED <<hier, statics, frames>>
    BY <2>1
  <2>3. SoundObject(T, objects[o])
    BY <1>3
  <2>4. SoundObject(T, objects'[o])
    <3>1. PICK x, y : x = objects[o] /\ y = objects'[o]
      OBVIOUS
    <3>2. /\ DOMAIN y = {"class", "written", "slots"} /\ y.class = x.class
          /\ y.written = x.written \cup {n} /\ y.slots = [x.slots EXCEPT ![n] = w]
      BY <2>2, <3>1
    <3>3. SoundObject(T, x) /\ n \in DOMAIN x.slots
      BY <2>3, <3>1
    <3>4. DOMAIN y.slots = DOMAIN x.slots /\ y.written \subseteq DOMAIN y.slots
      BY <3>2, <3>3 DEF SoundObject
    <3>5. ASSUME NEW m \in DOMAIN y.slots
          PROVE IF m \in y.written THEN y.slots[m] \in Values ELSE y.slots[m] = Null
      <4>1. CASE m = n
        BY <3>2, <3>3, <4>1
      <4>2. CASE m # n
        <5>1. y.slots[m] = x.slots[m] /\ (m \in y.written <=> m \in x.written) /\ m \in DOMAIN x.slots
          BY <3>2, <3>4, <4>2
        <5> QED  BY <3>3, <5>1 DEF SoundObject
      <4> QED  BY <4>1, <4>2
    <3>6. SoundObject(T, y)
      BY <3>2, <3>3, <3>4, <3>5 DEF SoundObject
    <3> QED  BY <3>1, <3>6
  <2>5. ObjectsOk
    <3>1. ASSUME NEW q \in 1 .. Len(objects') PROVE SoundObject(T, objects'[q])
      <4>1. q \in 1 .. Len(objects)
        BY <2>2
      <4>2. CASE q = o
        BY <2>4, <4>2
      <4>3. CASE q # o
        BY <1>3, <2>2, <4>1, <4>3
      <4> QED  BY <4>2, <4>3
    <3> QED  BY <2>2, <3>1
  <2> QED  BY <1>6, <2>2, <2>5
<1>9. CASE SetStatic
  BY <1>5, <1>6, <1>9 DEF SetStatic
<1>10. CASE CallMethod
  <2>1. PICK o \in DOMAIN objects, m \in MemberNames("methods") :
          /\ MethodCall(o, m) # Refused /\ objects' = objects
          /\ Push(Frame(MethodCall(o, m)[2], MethodCall(o, m)[3], MethodCall(o, m)[4], FALSE))
    BY <1>10 DEF CallMethod
  <2>2. o \in 1 .. Len(objects)
    BY <1>3, SeqIs
  <2>3. PICK a : a = MethodCall(o, m)
    OBVIOUS
  <2>4. SoundFrame(T, Len(objects), Frame(a[2], a[3], a[4], FALSE))
    BY <2>1, <2>2, <2>3, MethodEnters
  <2>5. Push(Frame(a[2], a[3], a[4], FALSE))
    BY <2>1, <2>3
  <2> QED  BY <1>5, <1>7, <2>1, <2>4, <2>5
<1>11. CASE CallStatic
  <2>1. PICK form \in hier.forms, m \in MemberNames("methods") :
          /\ StaticCall(form, m) # Refused /\ objects' = objects
          /\ Push(Frame(StaticCall(form, m)[2], StaticCall(form, m)[3], StaticCall(form, m)[4], FALSE))
    BY <1>11 DEF CallStatic
  <2>3. PICK a : a = StaticCall(form, m)
    OBVIOUS
  <2>4. SoundFrame(T, Len(objects), Frame(a[2], a[3], a[4], FALSE))
    BY <2>1, <2>3, StaticEnters
  <2>5. Push(Frame(a[2], a[3], a[4], FALSE))
    BY <2>1, <2>3
  <2> QED  BY <1>5, <1>7, <2>1, <2>4, <2>5
<1>12. ASSUME NEW x, SoundObject(T, x), objects' = Append(objects, x),
              \/ frames' = frames
              \/ \E f : SoundFrame(T, Len(objects) + 1, f) /\ Push(f)
       PROVE  ObjectsOk /\ FramesOk
  <2>1. /\ IsSeq(objects') /\ Len(objects') = Len(objects) + 1
        /\ \A o \in 1 .. Len(objects') : SoundObject(T, objects'[o])
    BY <1>12, AddedIs
  <2>2. CASE frames' = frames
    <3>1. ASSUME NEW i \in 1 .. Len(frames) PROVE SoundFrame(T, Len(objects) + 1, frames[i])
      BY <1>3, FramesStay
    <3> QED  BY <1>3, <2>1, <2>2, <3>1
  <2>3. CASE \E f : SoundFrame(T, Len(objects) + 1, f) /\ Push(f)
    <3>1. PICK f : SoundFrame(T, Len(objects) + 1, f) /\ Push(f)
      BY <2>3
    <3>2. PICK k \in Nat : k = Len(objects)
      BY <1>3
    <3>3. /\ IsSeq(frames') /\ Len(frames') > 0
          /\ \A i \in 1 .. Len(frames') : SoundFrame(T, k + 1, frames'[i])
      BY <1>3, <3>1, <3>2, PushedIs
    <3> QED  BY <2>1, <3>2, <3>3
  <2> QED  BY <1>12, <2>2, <2>3
<1>13. CASE New
  <2>1. PICK form \in hier.makes :
          LET a == Construct(form)
          IN /\ a # Refused /\ objects' = Append(objects, pobject_new(a[2]))
             /\ \/ frames' = frames
                \/ a[1] # "makes" /\ Push(Frame(a[3], a[2], Len(objects) + 1, FALSE))
    BY <1>13 DEF New
  <2>2. PICK a : a = Construct(form)
    OBVIOUS
  <2>3. a[2] \in DOMAIN T /\ (a[1] # "makes" => a[3] \in DOMAIN T)
    BY <2>1, <2>2, ConstructIs
  <2>4. SoundObject(T, pobject_new(a[2]))
    BY <2>3 DEF SoundObject, pobject_new
  <2>5. Len(objects) + 1 \in 0 .. Len(objects) + 1
    BY <1>3
  <2>6. a[1] # "makes" => SoundFrame(T, Len(objects) + 1, Frame(a[3], a[2], Len(objects) + 1, FALSE))
    BY <2>3, <2>5, FrameIs
  <2>7. /\ objects' = Append(objects, pobject_new(a[2]))
        /\ \/ frames' = frames
           \/ a[1] # "makes" /\ Push(Frame(a[3], a[2], Len(objects) + 1, FALSE))
    BY <2>1, <2>2
  <2> QED  BY <1>12, <2>4, <2>6, <2>7
<1>14. CASE Clone
  <2>1. PICK o \in DOMAIN objects :
          LET a == CloneObject(o)
          IN /\ objects' = Append(objects, objects[o])
             /\ \/ frames' = frames
                \/ a[1] # "copies" /\ Push(Frame(a[2], objects[o].class, Len(objects) + 1, TRUE))
    BY <1>14 DEF Clone, pobject_clone
  <2>2. PICK a : a = CloneObject(o)
    OBVIOUS
  <2>3. SoundObject(T, objects[o])
    BY <1>3, SeqIs
  <2>4. objects[o].class \in DOMAIN T
    BY <2>3 DEF SoundObject
  <2>5. Len(objects) + 1 \in 0 .. Len(objects) + 1
    BY <1>3
  <2>6. a[1] # "copies" => a[2] \in DOMAIN T
    <3> DEFINE f == pclass_find_method(T, objects[o].class, "__clone")
    <3>1. f # NoMethod => f.owner \in DOMAIN T
      BY <2>4, MethodOwner
    <3>2. a = (IF f = NoMethod THEN <<"copies">> ELSE <<"enters", f.owner>>)
      BY <2>2 DEF CloneObject
    <3> HIDE DEF f
    <3> QED  BY <3>1, <3>2
  <2>7. a[1] # "copies" => SoundFrame(T, Len(objects) + 1, Frame(a[2], objects[o].class, Len(objects) + 1, TRUE))
    BY <2>4, <2>5, <2>6, FrameIs
  <2>8. /\ objects' = Append(objects, objects[o])
        /\ \/ frames' = frames
           \/ a[1] # "copies" /\ Push(Frame(a[2], objects[o].class, Len(objects) + 1, TRUE))
    BY <2>1, <2>2
  <2> QED  BY <1>12, <2>3, <2>7, <2>8
<1>15. CASE return_from_function
  <2>1. Len(frames) > 1 /\ frames' = SubSeq(frames, 1, Len(frames) - 1) /\ objects' = objects
    BY <1>15 DEF return_from_function
  <2>2. PICK S : frames \in Seq(S)
    BY <1>3 DEF IsSeq
  <2>3. /\ frames' \in Seq(S) /\ Len(frames') = Len(frames) - 1
        /\ \A i \in 1 .. Len(frames) - 1 : frames'[i] = frames[i]
    BY <1>3, <2>1, <2>2
  <2>4. FramesOk
    <3>1. IsSeq(frames')
      BY <2>3 DEF IsSeq
    <3>3. Len(frames') > 0
      BY <1>3, <2>1, <2>3
    <3>2. ASSUME NEW i \in 1 .. Len(frames') PROVE SoundFrame(T, Len(objects'), frames'[i])
      <4>1. i \in 1 .. Len(frames) /\ frames'[i] = frames[i]
        BY <1>3, <2>3
      <4> QED  BY <1>3, <2>1, <4>1
    <3> QED  BY <3>1, <3>2, <3>3
  <2> QED  BY <1>5, <2>1, <2>4
<1>16. CASE UNCHANGED accessVars
  BY <1>5, <1>6, <1>16
<1> QED  BY <1>8, <1>9, <1>10, <1>11, <1>13, <1>14, <1>15, <1>16 DEF AccessNext

\* The property a name means in an object: there is one at most.
LEMMA OneProperty ==
  ASSUME AccessInv, NEW o \in 1 .. Len(objects),
         NEW p \in PropertiesOf(T, objects[o].class), NEW q \in PropertiesOf(T, objects[o].class), p.name = q.name
  PROVE  p = q
<1>1. objects[o].class \in DOMAIN T
  BY DEF AccessInv, SoundObject
<1>2. hier \in Hierarchies
  BY DEF AccessInv
<1> QED  BY <1>1, <1>2, HierarchyIs

\* What was there before keeps its slots, but for one property of one object,
\* which the frame that runs may see and which was not yet fixed.
LEMMA SlotsChange ==
  ASSUME AccessInv, AccessNext, NEW o \in 1 .. Len(objects), NEW p \in PropertiesOf(T, objects[o].class),
         objects'[o].slots[p.name] # objects[o].slots[p.name]
  PROVE  /\ pclass_member_visible(p.flags, p.owner, Current.scope)
         /\ "readonly" \in p.flags => p.name \notin objects[o].written
<1>1. IsSeq(objects) /\ SoundObject(T, objects[o]) /\ DOMAIN objects = 1 .. Len(objects)
  BY SeqIs DEF AccessInv
<1>2. CASE SetProperty
  <2>1. PICK q \in 1 .. Len(objects), w \in Values : \E n \in DOMAIN objects[q].slots :
           /\ PropSet(q, n) = <<"sets">>
           /\ IsSeq(objects') /\ Len(objects') = Len(objects)
           /\ \A r \in 1 .. Len(objects) : r # q => objects'[r] = objects[r]
           /\ DOMAIN objects'[q] = {"class", "written", "slots"}
           /\ objects'[q].class = objects[q].class
           /\ objects'[q].written = objects[q].written \cup {n}
           /\ objects'[q].slots = [objects[q].slots EXCEPT ![n] = w]
           /\ UNCHANGED <<hier, statics, frames>>
    BY <1>2, WritesOne
  <2>2. PICK n \in DOMAIN objects[q].slots :
           /\ PropSet(q, n) = <<"sets">>
           /\ \A r \in 1 .. Len(objects) : r # q => objects'[r] = objects[r]
           /\ objects'[q].slots = [objects[q].slots EXCEPT ![n] = w]
    BY <2>1
  <2>3. q = o
    BY <2>2
  <2>4. p.name \in DOMAIN objects[o].slots
    BY <1>1 DEF SoundObject
  <2>5. n = p.name
    BY <2>2, <2>3, <2>4
  <2>6. PICK found \in PropertiesOf(T, objects[o].class) :
          /\ found.name = n /\ pclass_member_visible(found.flags, found.owner, Current.scope)
          /\ "readonly" \in found.flags => n \notin objects[o].written
    BY <2>2, <2>3, SetsIs
  <2>7. found = p
    BY <2>5, <2>6, OneProperty
  <2> QED  BY <2>5, <2>6, <2>7
<1>3. CASE New \/ Clone
  <2>1. PICK x : objects' = Append(objects, x)
    BY <1>3 DEF New, Clone
  <2>2. objects'[o] = objects[o]
    <3>1. Append(objects, x)[o] = objects[o]
      BY <1>1, AppendedIs
    <3> QED  BY <2>1, <3>1, Zenon
  <2> QED  BY <2>2
<1>4. CASE SetStatic \/ CallMethod \/ CallStatic \/ return_from_function
  <2>1. objects' = objects
    BY <1>4 DEF SetStatic, CallMethod, CallStatic, return_from_function
  <2> QED  BY <2>1
<1> QED  BY <1>2, <1>3, <1>4 DEF AccessNext

\* A private static property changes in code of the class that declares it.
LEMMA StaticsChange ==
  ASSUME AccessInv, AccessNext, NEW k \in DOMAIN statics, statics'[k] # statics[k],
         "private" \in The(With(StaticsOf(k[1]), k[2])).flags
  PROVE  Current.scope = k[1]
<1>1. SetStatic
  BY DEF AccessNext, SetProperty, CallMethod, CallStatic, New, Clone, return_from_function
<1>2. PICK form \in hier.forms, n \in MemberNames("props"), w \in Values :
        /\ StaticSet(form, n)[1] = "sets"
        /\ statics' = [statics EXCEPT ![<<StaticSet(form, n)[2], n>>] = w]
  BY <1>1 DEF SetStatic
<1> DEFINE c == resolve_class_name(form)
           found == IF c = "" THEN {} ELSE FindStatic(c, n)
           p == The(found)
<1>3. /\ found # {} /\ pclass_member_visible(p.flags, p.owner, Current.scope)
      /\ StaticSet(form, n) = <<"sets", p.owner>>
  BY <1>2 DEF StaticSet, Refused
<1>4. c \in DOMAIN T /\ FindStatic(c, n) # {} /\ p = The(FindStatic(c, n))
  <2>1. c # "" /\ found = FindStatic(c, n)
    BY <1>3
  <2>2. c \in DOMAIN T
    BY <2>1, ResolvedIs
  <2> QED  BY <1>3, <2>1, <2>2
<1> HIDE DEF c, found, p
<1>5. p = The(With(StaticsOf(p.owner), n))
  BY <1>4, StaticOwner
<1>6. k = <<p.owner, n>>
  BY <1>2, <1>3
<1>7. k[1] = p.owner /\ k[2] = n
  BY <1>6
<1>8. "private" \in p.flags
  BY <1>5, <1>7
<1> QED  BY <1>3, <1>7, <1>8 DEF pclass_member_visible

LEMMA AccessInvariant == AccessSpec => []AccessInv
BY AccessStarts, AccessKept, PTL DEF AccessSpec

\* Private properties change only in code of their class and readonly ones
\* once: whatever the hierarchy, and by whatever chain of calls, constructors
\* and clones (pclass_member_visible, pobject_property_written).
THEOREM MembersStayGuarded == AccessSpec => MembersGuarded
<1> DEFINE Once == \A o \in DOMAIN objects : \A p \in PropertiesOf(T, objects[o].class) :
                     ("readonly" \in p.flags /\ p.name \in objects[o].written)
                       => objects'[o].slots[p.name] = objects[o].slots[p.name]
           Inside == /\ \A o \in DOMAIN objects : \A p \in PropertiesOf(T, objects[o].class) :
                          ("private" \in p.flags /\ objects'[o].slots[p.name] # objects[o].slots[p.name])
                            => Current.scope = p.owner
                     /\ \A k \in DOMAIN statics : (statics'[k] # statics[k] /\
                          "private" \in The(With(StaticsOf(k[1]), k[2])).flags) => Current.scope = k[1]
<1>1. AccessInv /\ [AccessNext]_accessVars => [Once]_accessVars /\ [Inside]_accessVars
  <2> SUFFICES ASSUME AccessInv, AccessNext PROVE Once /\ Inside
    OBVIOUS
  <2>1. DOMAIN objects = 1 .. Len(objects)
    BY SeqIs DEF AccessInv
  <2>2. Once
    BY <2>1, SlotsChange
  <2>3. ASSUME NEW o \in DOMAIN objects, NEW p \in PropertiesOf(T, objects[o].class),
               "private" \in p.flags, objects'[o].slots[p.name] # objects[o].slots[p.name]
        PROVE  Current.scope = p.owner
    <3>1. pclass_member_visible(p.flags, p.owner, Current.scope)
      BY <2>1, <2>3, SlotsChange
    <3> QED  BY <2>3, <3>1 DEF pclass_member_visible
  <2>4. ASSUME NEW k \in DOMAIN statics, statics'[k] # statics[k],
               "private" \in The(With(StaticsOf(k[1]), k[2])).flags
        PROVE  Current.scope = k[1]
    BY <2>4, StaticsChange
  <2> QED  BY <2>2, <2>3, <2>4
<1>2. MembersGuarded <=> [][Once]_accessVars /\ [][Inside]_accessVars
  BY DEF MembersGuarded, ReadonlyOnce, Encapsulated
<1> HIDE DEF Once, Inside
<1> QED  BY <1>1, <1>2, AccessInvariant, PTL DEF AccessSpec

\* Objects keep the slots of their class, and no answer shows a typed property
\* that was never written (OP_PROP_GET, OP_SPROP_GET).
THEOREM ObjectsStaySound == AccessSpec => [](SlotsMatchClass /\ NothingUninitialized)
<1>1. AccessInv => SlotsMatchClass
  <2> SUFFICES ASSUME AccessInv PROVE SlotsMatchClass
    OBVIOUS
  <2>1. DOMAIN objects = 1 .. Len(objects) /\ DOMAIN frames = 1 .. Len(frames)
    BY SeqIs DEF AccessInv
  <2>2. ASSUME NEW o \in DOMAIN objects
        PROVE  /\ DOMAIN objects[o].slots = {p.name : p \in PropertiesOf(T, objects[o].class)}
               /\ objects[o].written \subseteq DOMAIN objects[o].slots
               /\ \A n \in DOMAIN objects[o].slots : n \notin objects[o].written => objects[o].slots[n] = Null
    <3>1. SoundObject(T, objects[o])
      BY <2>1 DEF AccessInv
    <3> QED  BY <3>1 DEF SoundObject
  <2>3. ASSUME NEW i \in DOMAIN frames PROVE frames[i].this \in 0 .. Len(objects)
    BY <2>1 DEF AccessInv, SoundFrame
  <2> QED  BY <2>2, <2>3 DEF SlotsMatchClass
<1>2. AccessInv => NothingUninitialized
  <2> SUFFICES ASSUME AccessInv PROVE NothingUninitialized
    OBVIOUS
  <2>1. ASSUME NEW o \in DOMAIN objects, NEW p \in PropertiesOf(T, objects[o].class),
               "typed" \in p.flags, PropGet(o, p.name)[1] = "value"
        PROVE  PropGet(o, p.name)[2] \in Values
    <3> DEFINE found == With(PropertiesOf(T, objects[o].class), p.name)
               q == The(found)
    <3>1. o \in 1 .. Len(objects)
      BY SeqIs DEF AccessInv
    <3>2. q \in found
      BY DEF With, The
    <3>3. q = p
      <4>1. q \in PropertiesOf(T, objects[o].class) /\ q.name = p.name
        BY <3>2 DEF With
      <4> HIDE DEF q
      <4> QED  BY <3>1, <4>1, OneProperty
    <3>4. found # {}
      BY <3>2
    <3>5. Initialized(p, o) /\ PropGet(o, p.name) = <<"value", objects[o].slots[p.name]>>
      <4>1. PropGet(o, p.name) = IF ~pclass_member_visible(p.flags, p.owner, Current.scope) \/ ~Initialized(p, o)
                                 THEN Refused ELSE <<"value", objects[o].slots[p.name]>>
        BY <3>3, <3>4 DEF PropGet
      <4>2. Refused[1] # "value"
        BY DEF Refused
      <4> QED  BY <2>1, <4>1, <4>2
    <3>6. p.name \in objects[o].written
      BY <2>1, <3>5 DEF Initialized
    <3>7. SoundObject(T, objects[o])
      BY <3>1 DEF AccessInv
    <3>8. objects[o].slots[p.name] \in Values
      BY <3>6, <3>7 DEF SoundObject
    <3> QED  BY <3>5, <3>8
  <2>2. ASSUME NEW form \in hier.forms, NEW n \in MemberNames("props")
        PROVE  StaticGet(form, n) # <<"value", "unset">>
    <3>1. Refused # <<"value", "unset">>
      BY DEF Refused
    <3> DEFINE c == resolve_class_name(form)
               found == IF c = "" THEN {} ELSE FindStatic(c, n)
               s == statics[<<The(found).owner, n>>]
    <3>2. StaticGet(form, n) = Refused \/ (s # "unset" /\ StaticGet(form, n) = <<"value", s>>)
      BY DEF StaticGet
    <3> HIDE DEF s
    <3> QED  BY <3>1, <3>2
  <2> QED  BY <2>1, <2>2 DEF NothingUninitialized
<1> QED  BY <1>1, <1>2, AccessInvariant, PTL
=============================================================================
