------------------------------ MODULE Shutdown ------------------------------
(***************************************************************************)
(* How objects and classes end: after a chunk (pphp_clear_user_classes)     *)
(* and when the state is closed (pphp_close, pphp_clear_classes), all of   *)
(* src/src/state.c.                                                        *)
(*                                                                         *)
(* Both walk the list of objects and run destructors, PHP code that drops   *)
(* and creates objects, and both then take tables away that such code uses. *)
(* Objects are held by global variables, by the static property of a class *)
(* or by a cycle of their own; a destructor is one step, its release of     *)
(* other objects is carried out by the steps that follow (Settled).         *)
(***************************************************************************)
EXTENDS Naturals, Sequences, FiniteSets, SequencesExt

CONSTANTS Classes,      \* user classes of the program
          Destructors,  \* those with a __destruct
          Extends,      \* the parent and interfaces of each class
          Needs,        \* the classes its destructor names
          Vars,         \* global variables
          Holds,        \* the classes a variable or a static property may hold
          MaxObjects    \* bound: objects ever created

ASSUME ShutdownAssumption ==
  /\ IsFiniteSet(Classes) /\ Destructors \subseteq Classes
  /\ Extends \in [Classes -> SUBSET Classes]
  /\ Needs \in [Classes -> SUBSET Classes]
  /\ Vars \cap Classes = {}
  /\ Holds \in [Vars \cup Classes -> SUBSET Classes]
  /\ MaxObjects \in Nat \ {0}

\* What globals hold, and what is reached from there through classes, names
\* no class but those its own class extends, directly or not: of a class that
\* stays, nothing else is kept (src/src/state.c:941).
Family(c) == {cs \in SUBSET Classes : c \in cs /\ \A d \in cs : Extends[d] \subseteq cs}
SurvivorsNameNoOthers ==
  \E cs \in SUBSET Classes :
    /\ \A v \in Vars : Holds[v] \subseteq cs
    /\ \A c \in cs : /\ Extends[c] \cup Holds[c] \subseteq cs
                    /\ \A family \in Family(c) : Needs[c] \subseteq family

VARIABLES phase,    \* which part of the code runs
          goal,     \* the phase after pphp_clear_user_classes
          list,     \* state->gc_objects, newest first
          class,    \* the class of every object made, in order of creation
          holder,   \* what globals and static properties hold
          cyclic,   \* objects that hold themselves
          ran,      \* objects whose destructor has run (flag 0x80)
          doomed,   \* what the collector is about to destroy
          cursor,   \* the object a walk has retained
          reach,    \* what the walk's reachability_build found
          invoked,  \* whether this walk has run a destructor
          classes,  \* state->classes
          made      \* objects made before pphp_close began

objectVars == <<list, class, holder, cyclic, ran, doomed>>
walkVars == <<cursor, reach, invoked>>
shutdownVars == <<phase, goal, objectVars, walkVars, classes, made>>

NoObject == 0
Unmarked == [objects |-> {}, classes |-> {}]
Listed == {list[i] : i \in DOMAIN list}
Place(o) == CHOOSE i \in DOMAIN list : list[i] = o

-----------------------------------------------------------------------------
(***************************************************************************)
(* Reference counts.  An object is destroyed when nothing holds it; a walk *)
(* holds the object it is at.                                              *)
(***************************************************************************)
IsHeld(o) == \/ \E h \in Vars \cup Classes : holder[h] = o
             \/ o \in cyclic
             \/ o = cursor
Dying == {o \in Listed : ~IsHeld(o) \/ o \in doomed}
Settled == Dying = {}

\* What pphp_gc_collect takes: held by a cycle only.
Garbage == {o \in Listed \cap cyclic : /\ \A h \in Vars \cup Classes : holder[h] # o
                                       /\ o # cursor}
pphp_gc_collect == doomed' = Garbage

(***************************************************************************)
(* reachability_build: globals lead to objects, objects to their classes,  *)
(* classes to parents, interfaces and static properties.                   *)
(***************************************************************************)
\* Mutant: parents and interfaces are not marked.
ExpandAlone(r) ==
  [objects |-> r.objects \cup ({holder[c] : c \in r.classes} \ {NoObject}),
   classes |-> r.classes \cup {class[o] : o \in r.objects}]
Expand(r) ==
  [objects |-> r.objects \cup ({holder[c] : c \in r.classes} \ {NoObject}),
   classes |-> r.classes \cup {class[o] : o \in r.objects}
                         \cup UNION {Extends[c] : c \in r.classes}]

reachability_build ==
  LET marked[n \in 0..(MaxObjects + Cardinality(Classes))] ==
        IF n = 0 THEN [objects |-> {holder[v] : v \in Vars} \ {NoObject}, classes |-> {}]
        ELSE Expand(marked[n - 1])
  IN marked[MaxObjects + Cardinality(Classes)]

-----------------------------------------------------------------------------
(***************************************************************************)
(* pobject_run_destructor and what its PHP code may do.                    *)
(***************************************************************************)
MayRun(o) == class[o] \in Destructors /\ o \notin ran

\* The next object, linked at the head of the list and of class c.
Creation(c) ==
  /\ Len(class) < MaxObjects /\ c \in classes
  /\ class' = Append(class, c)

DestructorDrops(h) ==
  /\ holder' = [holder EXCEPT ![h] = NoObject]
  /\ UNCHANGED <<class, cyclic>>

DestructorStores(v, c) ==
  /\ Creation(c)
  /\ holder' = [holder EXCEPT ![v] = Len(class')]
  /\ UNCHANGED cyclic

DestructorLoses(c) ==
  /\ Creation(c)
  /\ cyclic' = cyclic \cup {Len(class')}
  /\ UNCHANGED holder

DestructorBody ==
  \/ UNCHANGED <<class, holder, cyclic>>
  \/ \E h \in Vars \cup classes : DestructorDrops(h)
  \/ \E v \in Vars : \E c \in Holds[v] : DestructorStores(v, c)
  \/ \E c \in Classes : DestructorLoses(c)

Created == IF Len(class') > Len(class) THEN <<Len(class')>> ELSE <<>>

pobject_run_destructor(o) ==
  \/ MayRun(o) /\ ran' = ran \cup {o} /\ DestructorBody
  \/ ~MayRun(o) /\ UNCHANGED <<ran, class, holder, cyclic>>

\* Releases come before anything else the code does.
pobject_destroy(o) ==
  /\ o \in Dying
  /\ pobject_run_destructor(o)
  /\ list' = Created \o RemoveAt(list, Place(o))
  /\ doomed' = doomed \ {o}
  /\ UNCHANGED <<phase, goal, walkVars, classes, made>>

-----------------------------------------------------------------------------
(***************************************************************************)
(* The program: chunks that declare the classes and store objects.  What   *)
(* an earlier chunk has left is cleared before and after each.             *)
(***************************************************************************)
BeginChunk ==
  /\ phase = "idle" /\ Settled
  /\ phase' = "marking" /\ goal' = "ready"
  /\ UNCHANGED <<objectVars, walkVars, classes, made>>

StartChunk ==
  /\ phase = "ready" /\ Settled
  /\ phase' = "running"
  /\ classes' = Classes
  /\ UNCHANGED <<goal, objectVars, walkVars, made>>

Store(h, c, loop) ==
  /\ phase = "running" /\ Settled
  /\ Creation(c)
  /\ holder' = [holder EXCEPT ![h] = Len(class')]
  /\ cyclic' = IF loop THEN cyclic \cup {Len(class')} ELSE cyclic
  /\ list' = Created \o list
  /\ UNCHANGED <<phase, goal, ran, doomed, walkVars, classes, made>>

Unset(h) ==
  /\ phase = "running" /\ Settled
  /\ holder[h] # NoObject
  /\ holder' = [holder EXCEPT ![h] = NoObject]
  /\ UNCHANGED <<phase, goal, list, class, cyclic, ran, doomed, walkVars, classes, made>>

-----------------------------------------------------------------------------
(***************************************************************************)
(* Walks over the objects.  The next object is read and retained before    *)
(* the destructor of the present one runs.                                 *)
(***************************************************************************)
After(o) == IF Place(o) = Len(list) THEN NoObject ELSE list[Place(o) + 1]
First == IF list = <<>> THEN NoObject ELSE Head(list)

Visit(runs) ==
  /\ Settled /\ cursor # NoObject
  /\ IF runs THEN pobject_run_destructor(cursor)
     ELSE UNCHANGED <<ran, class, holder, cyclic>>
  /\ invoked' = (invoked \/ ran' # ran)
  /\ cursor' = After(cursor)
  /\ list' = Created \o list
  /\ UNCHANGED <<phase, goal, doomed, reach, classes, made>>

EndChunk ==
  /\ phase = "running" /\ Settled
  /\ phase' = "marking" /\ goal' = "idle"
  /\ UNCHANGED <<objectVars, walkVars, classes, made>>

Mark ==
  /\ phase = "marking"
  /\ phase' = "clearing"
  /\ cursor' = First /\ invoked' = FALSE /\ reach' = reachability_build
  /\ UNCHANGED <<goal, objectVars, classes, made>>

\* Not enough memory to mark: the classes stay.
MarkingFails ==
  /\ phase = "marking"
  /\ phase' = goal
  /\ UNCHANGED <<goal, objectVars, walkVars, classes, made>>

VisitUnreachable == phase = "clearing" /\ Visit(cursor \notin reach.objects)

AnotherRound ==
  /\ phase = "clearing" /\ Settled /\ cursor = NoObject /\ invoked
  /\ phase' = "marking"
  /\ UNCHANGED <<goal, objectVars, walkVars, classes, made>>

ReleaseStatics(cs) == holder' = [h \in DOMAIN holder |-> IF h \in cs THEN NoObject ELSE holder[h]]

ReleaseUnreachable ==
  /\ phase = "clearing" /\ Settled /\ cursor = NoObject /\ ~invoked
  /\ ReleaseStatics(classes \ reach.classes)
  /\ phase' = "cleared"
  /\ UNCHANGED <<goal, list, class, cyclic, ran, doomed, walkVars, classes, made>>

CollectUnreachable ==
  /\ phase = "cleared" /\ Settled
  /\ pphp_gc_collect
  /\ phase' = "collected"
  /\ UNCHANGED <<goal, list, class, holder, cyclic, ran, walkVars, classes, made>>

ForgetClasses ==
  /\ phase = "collected" /\ Settled
  /\ classes' = classes \cap reach.classes
  /\ phase' = goal
  /\ UNCHANGED <<goal, objectVars, walkVars, made>>

-----------------------------------------------------------------------------
(***************************************************************************)
(* pphp_close.                                                             *)
(***************************************************************************)
BeginClose ==
  /\ phase = "idle" /\ Settled
  /\ phase' = "closing" /\ cursor' = First
  /\ made' = Len(class)
  /\ UNCHANGED <<goal, objectVars, reach, invoked, classes>>

VisitAll == phase = "closing" /\ Visit(TRUE)

\* pa_destroy of the globals releases one value after the other.
EndWalk ==
  /\ phase = "closing" /\ Settled /\ cursor = NoObject
  /\ phase' = "globals"
  /\ UNCHANGED <<goal, objectVars, walkVars, classes, made>>

ReleaseGlobal(v) ==
  /\ phase = "globals" /\ Settled
  /\ holder[v] # NoObject
  /\ holder' = [holder EXCEPT ![v] = NoObject]
  /\ UNCHANGED <<phase, goal, list, class, cyclic, ran, doomed, walkVars, classes, made>>

CollectGlobals ==
  /\ phase = "globals" /\ Settled
  /\ \A v \in Vars : holder[v] = NoObject
  /\ pphp_gc_collect
  /\ phase' = "statics"
  /\ UNCHANGED <<goal, list, class, holder, cyclic, ran, walkVars, classes, made>>

\* pphp_clear_classes: the values of all classes, a collection, the classes.
ReleaseAllStatics ==
  /\ phase = "statics" /\ Settled
  /\ ReleaseStatics(classes)
  /\ phase' = "values"
  /\ UNCHANGED <<goal, list, class, cyclic, ran, doomed, walkVars, classes, made>>

CollectStatics ==
  /\ phase = "values" /\ Settled
  /\ pphp_gc_collect
  /\ phase' = "released"
  /\ UNCHANGED <<goal, list, class, holder, cyclic, ran, walkVars, classes, made>>

ReleaseClasses ==
  /\ phase = "released" /\ Settled
  /\ classes' = {}
  /\ phase' = "closed"
  /\ UNCHANGED <<goal, objectVars, walkVars, made>>

ShutdownInit ==
  /\ phase = "idle" /\ goal = "idle" /\ list = <<>> /\ class = <<>>
  /\ holder = [h \in Vars \cup Classes |-> NoObject]
  /\ cyclic = {} /\ ran = {} /\ doomed = {} /\ classes = {} /\ made = 0
  /\ cursor = NoObject /\ reach = Unmarked /\ invoked = FALSE

Program ==
  \/ BeginChunk \/ StartChunk \/ EndChunk
  \/ \E h \in Vars \cup Classes : \/ Unset(h)
                                  \/ \E c \in Holds[h], loop \in BOOLEAN : Store(h, c, loop)

pphp_clear_user_classes ==
  \/ Mark \/ MarkingFails \/ VisitUnreachable \/ AnotherRound \/ ReleaseUnreachable
  \/ CollectUnreachable \/ ForgetClasses

Closing ==
  \/ BeginClose \/ VisitAll \/ EndWalk \/ \E v \in Vars : ReleaseGlobal(v)
  \/ CollectGlobals \/ ReleaseAllStatics \/ CollectStatics \/ ReleaseClasses

Done == phase = "closed" /\ Settled /\ UNCHANGED shutdownVars

ShutdownNext == Program \/ pphp_clear_user_classes \/ Closing \/ Done
                \/ \E o \in Dying : pobject_destroy(o)

ShutdownSpec == ShutdownInit /\ [][ShutdownNext]_shutdownVars

-----------------------------------------------------------------------------
(***************************************************************************)
(* A walk never stands on a freed object, whatever the destructors it runs *)
(* drop or create (src/src/state.c:143, :903).                             *)
(***************************************************************************)
CursorLive == cursor # NoObject => cursor \in Listed

(***************************************************************************)
(* Once pphp_close has begun to take the globals away, a destructor runs   *)
(* only for an object that a destructor has made since pphp_close began    *)
(* (src/src/state.c:149).                                                  *)
(***************************************************************************)
DestructorsSeeGlobals ==
  [][\A o \in ran' \ ran :
       phase \in {"globals", "statics", "values", "released", "closed"} => o > made]_shutdownVars

(***************************************************************************)
(* A destructor finds the classes it names and the classes its own class   *)
(* extends (src/src/state.c:934, and the test                              *)
(* shutdown_destructors_run_before_class_metadata_is_released).            *)
(***************************************************************************)
DestructorsFindClasses ==
  [][\A o \in ran' \ ran : Needs[class[o]] \cup Extends[class[o]] \subseteq classes]_shutdownVars

(***************************************************************************)
(* When pphp_close is done every destructor has run and no object is left, *)
(* except for those that destructors have made meanwhile.                  *)
(***************************************************************************)
NothingRemains ==
  phase = "closed" /\ Settled =>
    /\ \A o \in Listed : o > made
    /\ \A o \in 1..made : class[o] \in Destructors => o \in ran

(***************************************************************************)
(* The end of a chunk and of a state: walks never stand on a freed object, *)
(* every destructor runs, while its globals and the classes it needs are   *)
(* there, and no object is left (pphp_clear_user_classes, pphp_close).     *)
(***************************************************************************)
EndsOrderly == [](CursorLive /\ NothingRemains) /\ DestructorsSeeGlobals /\ DestructorsFindClasses
=============================================================================
