------------------------------ MODULE VmEvents ------------------------------
(***************************************************************************)
(* The device at run time: GPIO interrupts fill the event queue of         *)
(* hal/rp2040, the 1 ms timer calls pphp_tick(), a user types on the       *)
(* console, and the VM looks at all of that at its safe points             *)
(* (pphp_vm_execute() in src/vm.c, pphp_poll_pgems() in pgems/pgems.c).    *)
(*                                                                         *)
(* Callbacks, magic methods, included files and destructors run on a VM of *)
(* their own, a struct copy of the one that calls them: vms is the stack   *)
(* of those copies, the task's own VM first, the executing one last.       *)
(* pphp_tick() only reaches the first.  A handler of interrupts preempts   *)
(* the VM between any two steps; hal_event_pop() runs with interrupts off. *)
(***************************************************************************)
EXTENDS Integers, Sequences, Functions

CONSTANTS
    Pins,             \* GPIO pins with interrupts
    Objects,          \* GPIO objects the program may create
    QueueSize,        \* slots of event_queue (16)
    DepthMax,         \* bound: nested VMs (C stack of the board)
    CallbackSteps,    \* bound: instructions a nested VM executes, if bounded
    ConsoleMax,       \* bound: bytes waiting on the console
    InterruptMax,     \* bound: GPIO interrupts in a behaviour
    CallbacksReturn,  \* nested code never loops for ever
    Swallows,         \* programs may catch Error, or have destructors
    DropsInCallbacks, \* nested code may release GPIO objects
    None

ASSUME EventsAssumption ==
    /\ QueueSize \in Nat \ {0, 1}
    /\ {DepthMax, CallbackSteps, ConsoleMax, InterruptMax} \subseteq Nat
    /\ {CallbacksReturn, Swallows, DropsInCallbacks} \subseteq BOOLEAN
    /\ None \notin Objects \cup Pins

VARIABLES
    ring, event_read, event_write,   \* the event queue
    interrupts,   \* GPIO interrupts so far
    console,      \* bytes typed and not yet read: "ctrl-c" or "text"
    gc_objects,   \* live GPIO objects in list order, newest first
    irq,          \* object -> the pin its callback is registered for
    due,          \* ticks # processed_ticks of the task's VM
    vms           \* VMs, the task's first; empty while the shell reads

queueVars == <<ring, event_read, event_write>>
vars == <<queueVars, interrupts, console, gc_objects, irq, due, vms>>

-----------------------------------------------------------------------------
(* Interrupt side.                                                         *)

Succ(i) == (i + 1) % QueueSize

\* Mutant: a full queue is not noticed.
PushUnchecked(pin) ==
    /\ interrupts < InterruptMax
    /\ interrupts' = interrupts + 1
    /\ ring' = [ring EXCEPT ![event_write] = pin]
    /\ event_write' = Succ(event_write)
    /\ UNCHANGED <<event_read, console, gc_objects, irq, due, vms>>

\* hal_event_push() out of gpio_irq_callback(): a full queue drops the event.
hal_event_push(pin) ==
    /\ interrupts < InterruptMax
    /\ interrupts' = interrupts + 1
    /\ IF Succ(event_write) = event_read
       THEN UNCHANGED <<ring, event_write>>
       ELSE /\ ring' = [ring EXCEPT ![event_write] = pin]
            /\ event_write' = Succ(event_write)
    /\ UNCHANGED <<event_read, console, gc_objects, irq, due, vms>>

\* The timer: ticks of the task's VM move on, those of the copies do not.
pphp_tick ==
    /\ due' = TRUE
    /\ UNCHANGED <<queueVars, interrupts, console, gc_objects, irq, vms>>

Type(byte) ==
    /\ Len(console) < ConsoleMax
    /\ console' = Append(console, byte)
    /\ UNCHANGED <<queueVars, interrupts, gc_objects, irq, due, vms>>

-----------------------------------------------------------------------------
(* The executing VM.                                                       *)

Running == vms # <<>>
Root == Len(vms) = 1
Top == vms[Len(vms)]
Below == SubSeq(vms, 1, Len(vms) - 1)

OnlyVms == UNCHANGED <<queueVars, interrupts, console, gc_objects, irq, due>>

\* The executing VM becomes v.
Become(v) == vms' = Append(Below, v)

\* A VM: why it runs, its copies of the tick state and of the list head,
\* whether it is past the safe point of its next instruction, its poll (the
\* event in hand and the object to look at), and how it fares.
Vm(via, tick, head) ==
    [via |-> via, due |-> tick, head |-> head, left |-> CallbackSteps,
     checked |-> FALSE, polling |-> FALSE, event |-> None, at |-> None,
     error |-> FALSE, exit |-> FALSE]

ListHead == IF gc_objects = <<>> THEN None ELSE Head(gc_objects)

\* ticks # processed_ticks, and state->gc_objects, of the executing VM: the
\* task's own fields, or copies taken when it started.
Due == IF Root THEN due ELSE Top.due
Objs == IF Root THEN ListHead ELSE Top.head

\* gc_next of object o; a freed object can yield anything.
NextOf(o) ==
    IF o \notin Range(gc_objects) THEN Objects \cup {None}
    ELSE LET i == CHOOSE j \in DOMAIN gc_objects : gc_objects[j] = o
         IN  {IF i = Len(gc_objects) THEN None ELSE gc_objects[i + 1]}

\* The safe point before an instruction, where the loop of pphp_vm_execute()
\* also notices an error or exit().
AtSafePoint == Running /\ ~Top.checked /\ ~Top.error /\ ~Top.exit

\* No tick since the last one: on to the instruction.
NoTick == AtSafePoint /\ ~Due /\ Become([Top EXCEPT !.checked = TRUE]) /\ OnlyVms

\* Mutant: the events are not polled.
TickWithoutPoll ==
    /\ AtSafePoint /\ Due
    /\ LET stop == console # <<>> /\ Head(console) = "ctrl-c"
       IN  Become([Top EXCEPT !.due = FALSE, !.error = stop, !.checked = ~stop])
    /\ due' = IF Root THEN FALSE ELSE due
    /\ console' = IF console = <<>> THEN <<>> ELSE Tail(console)
    /\ UNCHANGED <<queueVars, interrupts, gc_objects, irq>>

\* processed_ticks = ticks, one byte of the console is read, and unless that
\* is Ctrl-C the events are polled before the instruction.
Tick ==
    /\ AtSafePoint /\ Due
    /\ LET stop == console # <<>> /\ Head(console) = "ctrl-c"
       IN  Become([Top EXCEPT !.due = FALSE, !.error = stop, !.checked = ~stop, !.polling = ~stop])
    /\ due' = IF Root THEN FALSE ELSE due
    /\ console' = IF console = <<>> THEN <<>> ELSE Tail(console)
    /\ UNCHANGED <<queueVars, interrupts, gc_objects, irq>>

\* pphp_poll_pgems() between two events: the next one, or the end of the poll
\* when hal_event_pop() finds the queue empty.
PollPop ==
    /\ Running /\ Top.polling /\ Top.at = None
    /\ IF event_read = event_write
       THEN /\ Become([Top EXCEPT !.polling = FALSE, !.event = None])
            /\ UNCHANGED event_read
       ELSE /\ Become([Top EXCEPT !.event = ring[event_read], !.at = Objs])
            /\ event_read' = Succ(event_read)
    /\ UNCHANGED <<ring, event_write, interrupts, console, gc_objects, irq, due>>

\* An object that is not registered for the pin is passed over.
PollSkip ==
    /\ Running /\ Top.polling /\ Top.at # None
    /\ irq[Top.at] # Top.event
    /\ \E o \in NextOf(Top.at) : Become([Top EXCEPT !.at = o])
    /\ UNCHANGED <<queueVars, interrupts, console, gc_objects, irq, due>>

\* A callback runs on a copy of the polling VM; without memory for that,
\* pphp_vm_invoke() fails and the poll goes on.
PollInvokeFails ==
    /\ Running /\ Top.polling /\ Top.at # None
    /\ irq[Top.at] = Top.event
    /\ \E o \in NextOf(Top.at) : Become([Top EXCEPT !.at = o])
    /\ OnlyVms

PollInvoke ==
    /\ Running /\ Top.polling /\ Top.at # None
    /\ irq[Top.at] = Top.event
    /\ Len(vms) < DepthMax
    /\ vms' = Append(vms, Vm("poll", Due, Objs))
    /\ UNCHANGED <<queueVars, interrupts, console, gc_objects, irq, due>>

-----------------------------------------------------------------------------
(* Instructions.  A nested VM has a limited number of them to execute if   *)
(* callbacks return; the task itself may loop.                             *)

AtInstruction == Running /\ Top.checked /\ ~Top.polling /\ ~Top.error

Executes == AtInstruction /\ (Root \/ ~CallbacksReturn \/ Top.left > 0)

\* The VMs once the executing one has spent an instruction.
Spent ==
    LET n == IF Root \/ ~CallbacksReturn THEN Top.left ELSE Top.left - 1
    IN  Append(Below, [Top EXCEPT !.checked = FALSE, !.left = n])

\* An instruction that touches nothing modelled here.
Plain == Executes /\ vms' = Spent /\ OnlyVms

\* pphp_vm_invoke() of a callback or magic method.
Invoke ==
    /\ Executes /\ Len(vms) < DepthMax
    /\ vms' = Append(Spent, Vm("call", Due, Objs))
    /\ OnlyVms

\* An include, or (where there are any) a destructor: a copy of the task's VM.
InvokeOnRoot ==
    /\ Executes /\ Len(vms) < DepthMax
    /\ \E via \in {"call"} \cup (IF Swallows THEN {"destructor"} ELSE {}) :
        vms' = Append(Spent, Vm(via, due, ListHead))
    /\ OnlyVms

\* new GPIO($pin): pobject_new() puts it at the head of the task's list.
NewObject(o) ==
    /\ Executes /\ o \notin Range(gc_objects)
    /\ gc_objects' = <<o>> \o gc_objects
    /\ vms' = Spent
    /\ UNCHANGED <<queueVars, interrupts, console, irq, due>>

\* $o->irq($callback, ...) for its pin.
gpio_irq(o, pin) ==
    /\ Executes /\ o \in Range(gc_objects)
    /\ irq' = [irq EXCEPT ![o] = pin]
    /\ vms' = Spent
    /\ UNCHANGED <<queueVars, interrupts, console, gc_objects, due>>

\* The last reference to o goes: pobject_destroy() unlinks it.
DropObject(o) ==
    /\ Executes /\ o \in Range(gc_objects)
    /\ Root \/ DropsInCallbacks
    /\ gc_objects' = SelectSeq(gc_objects, LAMBDA p : p # o)
    /\ irq' = [irq EXCEPT ![o] = None]
    /\ vms' = Spent
    /\ UNCHANGED <<queueVars, interrupts, console, due>>

\* An uncaught exception, or exit().
Raise == Executes /\ Become([Top EXCEPT !.error = TRUE]) /\ OnlyVms

Exit == Executes /\ Become([Top EXCEPT !.exit = TRUE, !.checked = FALSE]) /\ OnlyVms

-----------------------------------------------------------------------------
(* The end of a VM.                                                        *)

\* pphp_vm_execute() is over: the code returned, failed or asked for exit.
\* A poll comes to its end first: a failing callback does not cut it short,
\* and after exit() in one the instruction at hand still executes.
Ends == AtInstruction \/ (Running /\ ~Top.polling /\ (Top.error \/ (Top.exit /\ ~Top.checked)))

\* Mutant: the error of a poll's callback is dropped.
OutcomesDropPollError(v, n) ==
    IF n.via = "poll" THEN {[v EXCEPT !.exit = @ \/ n.exit, !.at = o] : o \in NextOf(v.at)}
    ELSE {[v EXCEPT !.error = n.error, !.exit = @ \/ n.exit]}

\* What became of the caller v of a nested VM that ended as n did.  An error
\* is the caller's error now; behind a call it is an ordinary Error there,
\* which a program may catch.
Outcomes(v, n) ==
    CASE n.via = "poll" ->
            {[v EXCEPT !.error = @ \/ n.error, !.exit = @ \/ n.exit, !.at = o] : o \in NextOf(v.at)}
      [] n.via = "destructor" -> {v}
      [] OTHER ->
            {[v EXCEPT !.error = e, !.exit = @ \/ n.exit] :
                e \in {n.error} \cup (IF Swallows THEN {FALSE} ELSE {})}

\* pphp_vm_invoke() returns to the VM below; exit() of a destructor is noted
\* in the task's VM.
Return ==
    /\ Ends /\ ~Root
    /\ \E v \in Outcomes(vms[Len(vms) - 1], Top) :
        LET callers == [Below EXCEPT ![Len(vms) - 1] = v]
        IN  vms' = IF Top.via = "destructor" /\ Top.exit
                   THEN [callers EXCEPT ![1].exit = TRUE] ELSE callers
    /\ OnlyVms

\* The task is over and the shell prompts.
ReturnToShell == Ends /\ Root /\ vms' = <<>> /\ OnlyVms

\* The shell reads the console: text may be a command that starts a task.
ShellRead ==
    /\ ~Running /\ console # <<>>
    /\ console' = Tail(console)
    /\ vms' \in {<<>>} \cup (IF Head(console) = "text" THEN {<<Vm("task", FALSE, None)>>} ELSE {})
    /\ UNCHANGED <<queueVars, interrupts, gc_objects, irq, due>>

-----------------------------------------------------------------------------
(* Specification.                                                          *)

\* Power-on: the boot task is about to run.
Init ==
    /\ ring = [i \in 0 .. QueueSize - 1 |-> None]
    /\ event_read = 0 /\ event_write = 0
    /\ interrupts = 0
    /\ console = <<>>
    /\ gc_objects = <<>>
    /\ irq = [o \in Objects |-> None]
    /\ due = FALSE
    /\ vms = <<Vm("task", FALSE, None)>>

Instruction ==
    \/ Plain \/ Invoke \/ InvokeOnRoot \/ Raise \/ Exit
    \/ \E o \in Objects :
        NewObject(o) \/ DropObject(o) \/ (\E pin \in Pins : gpio_irq(o, pin))

VmStep ==
    \/ NoTick \/ Tick \/ PollPop \/ PollSkip \/ PollInvoke \/ PollInvokeFails
    \/ Instruction \/ Return \/ ReturnToShell

Next ==
    \/ \E pin \in Pins : hal_event_push(pin)
    \/ pphp_tick
    \/ \E byte \in {"ctrl-c", "text"} : Type(byte)
    \/ VmStep \/ ShellRead

Spec == Init /\ [][Next]_vars

\* The processor runs the VM, the timer keeps ticking, and between ticks the
\* VM reaches its next safe point; users and pins need not do anything.
FairSpec == Spec /\ WF_vars(VmStep) /\ WF_vars(pphp_tick)

-----------------------------------------------------------------------------
(* Properties.                                                             *)

VmType ==
    [via : {"task", "poll", "call", "destructor"}, due : BOOLEAN, head : Objects \cup {None},
     left : 0 .. CallbackSteps, checked : BOOLEAN, polling : BOOLEAN, event : Pins \cup {None},
     at : Objects \cup {None}, error : BOOLEAN, exit : BOOLEAN]

TypeOK ==
    /\ ring \in [0 .. QueueSize - 1 -> Pins \cup {None}]
    /\ {event_read, event_write} \subseteq 0 .. QueueSize - 1
    /\ interrupts \in 0 .. InterruptMax
    /\ console \in Seq({"ctrl-c", "text"})
    /\ gc_objects \in Seq(Objects)
    /\ irq \in [Objects -> Pins \cup {None}]
    /\ due \in BOOLEAN
    /\ vms \in Seq(VmType) /\ Len(vms) <= DepthMax

\* The events between the two indices, oldest first.
Queued ==
    [i \in 1 .. (event_write - event_read) % QueueSize |-> ring[(event_read + i - 1) % QueueSize]]

Fifo == INSTANCE EventFifo WITH
    Events <- Pins, Capacity <- QueueSize - 1, queue <- Queued

\* hal_event_push() turns an event away only when the queue is full.
RefusedOnlyWhenFull ==
    [][interrupts' # interrupts /\ Queued' = Queued => Len(Queued) = QueueSize - 1]_vars

\* Interrupt handlers and the VM share the ring without losing, repeating or
\* reordering an event that was accepted, and none is refused that has room.
QueueIsFifo == Fifo!FifoSpec /\ RefusedOnlyWhenFull

\* Ctrl-C is waiting on the console.
Interrupted == \E i \in DOMAIN console : console[i] = "ctrl-c"

\* "Ctrl-C also interrupts a running VM at its next 1 ms safe point"
\* (README.md:87): a task that is sent Ctrl-C ends.
CtrlCStopsTask == (Running /\ Interrupted) ~> ~Running

\* "PHP callbacks are dispatched by the VM after the next 1 ms tick"
\* (docs/HARDWARE_TEST.md:17): an event does not wait for ever in a task that
\* goes on.
EventsAreDispatched ==
    event_read # event_write /\ Running ~> event_read = event_write \/ ~Running

=============================================================================
