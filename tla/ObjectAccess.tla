---------------------------- MODULE ObjectAccess ----------------------------
(***************************************************************************)
(* What running code may do with objects and classes: the instructions     *)
(* for properties, methods, constructors, static members, constants and    *)
(* clones in src/vm.c, with pclass_member_visible, pobject_new,            *)
(* pobject_clone and the static property tables of src/pclass.c.           *)
(*                                                                         *)
(* The program is any program: at every state the current frame may read,  *)
(* write, call, construct, clone or return.  Reads change nothing and are  *)
(* compared with PHP's answer in every state; the other instructions are   *)
(* actions.  Methods take no arguments.  Build with PPHP_TYPECHECK and     *)
(* PPHP_VIS_CHECK; typed properties are those without a default here.      *)
(***************************************************************************)
EXTENDS Hierarchy, Integers, Sequences, FiniteSets, SequencesExt

CONSTANTS Hierarchies,  \* [classes, forms, makes]: a table, and how its code names the
                        \* class in static accesses and after new
          Values,       \* what is stored
          MaxFrames,    \* bound: frames
          MaxObjects    \* bound: objects

\* The properties an object of class c has.
PropertiesOf(table, c) ==
  UNION {{p \in table[a].props : "static" \notin p.flags} : a \in Ancestors(table, c)}

\* Classes are declared after their parents and own what they declare, which is
\* no property that a parent has (src/src/pclass.c:628).
ASSUME HierarchiesAssumption ==
  \A h \in Hierarchies :
    /\ IsFiniteSet(DOMAIN h.classes) /\ "" \notin DOMAIN h.classes
    /\ h.forms \cup h.makes \subseteq DOMAIN h.classes \cup {"self", "parent", "static"}
    /\ \A c \in DOMAIN h.classes :
         /\ h.classes[c].parent \in DOMAIN h.classes \cup {""}
         /\ \A x \in h.classes[c].props \cup h.classes[c].methods : x.owner = c
         /\ \A p, q \in PropertiesOf(h.classes, c) : p.name = q.name => p = q

VARIABLES hier,      \* the classes of this program
          objects,   \* what each object's slots hold and which were written
          statics,   \* what each static property holds, by owner and name
          frames     \* [scope, called, this, clone], the top one last

accessVars == <<hier, objects, statics, frames>>

T == hier.classes
Current == Last(frames)
Refused == <<"refused">>
Null == "null"

\* The static properties that class c itself declares.
StaticsOf(c) == {p \in T[c].props : "static" \in p.flags}
With(set, n) == {x \in set : x.name = n}
The(set) == CHOOSE x \in set : TRUE

-----------------------------------------------------------------------------
\* Mutant: private is treated as protected.
PrivateIsProtected(flags, owner, scope) ==
  {"private", "protected"} \cap flags # {} =>
    scope # "" /\ (pclass_is_a(T, scope, owner) \/ pclass_is_a(T, owner, scope))

pclass_member_visible(flags, owner, scope) ==
  /\ "private" \in flags => scope = owner
  /\ "protected" \in flags => scope # "" /\ (pclass_is_a(T, scope, owner) \/ pclass_is_a(T, owner, scope))

resolve_class_name(form) ==
  CASE form = "self" -> Current.scope
    [] form = "parent" -> IF Current.scope = "" THEN "" ELSE T[Current.scope].parent
    [] form = "static" -> IF Current.called = "" THEN Current.scope ELSE Current.called
    [] OTHER -> form

\* A property without a type or with a default is initialized from the start.
Initialized(p, o) == "typed" \notin p.flags \/ p.name \in objects[o].written
InvokesMagic(o, name) == pclass_find_method(T, objects[o].class, name) # NoMethod

\* OP_PROP_GET
PropGet(o, n) ==
  LET found == With(PropertiesOf(T, objects[o].class), n)
      p == The(found)
  IN IF found = {} THEN (IF InvokesMagic(o, "__get") THEN <<"magic">> ELSE Refused)
     ELSE IF ~pclass_member_visible(p.flags, p.owner, Current.scope) \/ ~Initialized(p, o) THEN Refused
     ELSE <<"value", objects[o].slots[n]>>

\* OP_PROP_GET_QUIET, behind isset and ??
PropGetQuiet(o, n) ==
  LET found == With(PropertiesOf(T, objects[o].class), n)
  IN IF found # {} /\ pclass_member_visible(The(found).flags, The(found).owner, Current.scope)
     THEN objects[o].slots[n] ELSE Null

\* OP_PROP_SET
PropSet(o, n) ==
  LET found == With(PropertiesOf(T, objects[o].class), n)
      p == The(found)
  IN IF found = {} THEN (IF InvokesMagic(o, "__set") THEN <<"magic">> ELSE Refused)
     ELSE IF ~pclass_member_visible(p.flags, p.owner, Current.scope) THEN Refused
     ELSE IF "readonly" \in p.flags /\ (Current.scope # p.owner \/ n \in objects[o].written) THEN Refused
     ELSE <<"sets">>

\* pclass_find_static_property
FindStatic(c, n) ==
  LET owners == {a \in Ancestors(T, c) : With(StaticsOf(a), n) # {}}
  IN IF owners = {} THEN {} ELSE With(StaticsOf(Nearest(T, owners)), n)

\* OP_SPROP_GET and OP_SPROP_SET
StaticGet(form, n) ==
  LET c == resolve_class_name(form)
      found == IF c = "" THEN {} ELSE FindStatic(c, n)
      p == The(found)
  IN IF found = {} \/ ~pclass_member_visible(p.flags, p.owner, Current.scope) THEN Refused
     ELSE IF statics[<<p.owner, n>>] = "unset" THEN Refused
     ELSE <<"value", statics[<<p.owner, n>>]>>
StaticSet(form, n) ==
  LET c == resolve_class_name(form)
      found == IF c = "" THEN {} ELSE FindStatic(c, n)
      p == The(found)
  IN IF found = {} \/ ~pclass_member_visible(p.flags, p.owner, Current.scope) THEN Refused
     ELSE <<"sets", p.owner>>

\* OP_CLSCONST
ClassConstant(form, k) ==
  LET c == resolve_class_name(form)
  IN IF c # "" /\ \E a \in Ancestors(T, c) : With(T[a].consts, k) # {} THEN <<"value", k>> ELSE Refused

Enters(owner, called, this) == <<"enters", owner, called, this>>

\* invoke_named_method and enter_method
MethodCall(o, m) ==
  LET f == pclass_find_method(T, objects[o].class, m)
  IN IF \/ f = NoMethod
        \/ ~pclass_member_visible(f.flags, f.owner, Current.scope)
        \/ "static" \in f.flags
     THEN Refused ELSE Enters(f.owner, objects[o].class, o)

\* invoke_static_method: a method that is not static runs on the caller's $this.
StaticCall(form, m) ==
  LET c == resolve_class_name(form)
      f == IF c = "" THEN NoMethod ELSE pclass_find_method(T, c, m)
  IN IF f = NoMethod \/ ~pclass_member_visible(f.flags, f.owner, Current.scope) THEN Refused
     ELSE IF "static" \in f.flags THEN Enters(f.owner, c, 0)
     ELSE IF Current.this # 0 THEN Enters(f.owner, objects[Current.this].class, Current.this)
     ELSE Refused

\* construct_object
Construct(form) ==
  LET c == resolve_class_name(form)
      f == pclass_find_method(T, c, "__construct")
  IN IF c = "" \/ T[c].abstract THEN Refused
     ELSE IF f = NoMethod THEN <<"makes", c>>
     ELSE IF pclass_member_visible(f.flags, f.owner, Current.scope) THEN <<"constructs", c, f.owner>>
     ELSE Refused

\* OP_CLONE: whatever method is called __clone is entered.
CloneObject(o) ==
  LET f == pclass_find_method(T, objects[o].class, "__clone")
  IN IF f = NoMethod THEN <<"copies">> ELSE <<"enters", f.owner>>

-----------------------------------------------------------------------------
\* pobject_new: the defaults, nothing written.
pobject_new(c) ==
  [class |-> c, written |-> {}, slots |-> [n \in {p.name : p \in PropertiesOf(T, c)} |-> Null]]

\* pobject_clone: the slots and the marks.
pobject_clone(o) == objects[o]

Frame(scope, called, this, clone) == [scope |-> scope, called |-> called, this |-> this, clone |-> clone]
Push(frame) == frames' = Append(frames, frame)
Room == Len(frames) < MaxFrames

MemberNames(kind) == {x.name : x \in UNION {T[c][kind] : c \in DOMAIN T}}

SetProperty ==
  \E o \in DOMAIN objects, v \in Values : \E n \in DOMAIN objects[o].slots :
    /\ PropSet(o, n) = <<"sets">>
    /\ objects' = [objects EXCEPT ![o].slots[n] = v, ![o].written = @ \cup {n}]
    /\ UNCHANGED <<hier, statics, frames>>

SetStatic ==
  \E form \in hier.forms, n \in MemberNames("props"), v \in Values :
    /\ StaticSet(form, n)[1] = "sets"
    /\ statics' = [statics EXCEPT ![<<StaticSet(form, n)[2], n>>] = v]
    /\ UNCHANGED <<hier, objects, frames>>

CallMethod ==
  \E o \in DOMAIN objects, m \in MemberNames("methods") :
    LET a == MethodCall(o, m)
    IN /\ Room /\ a # Refused
       /\ Push(Frame(a[2], a[3], a[4], FALSE))
       /\ UNCHANGED <<hier, objects, statics>>

CallStatic ==
  \E form \in hier.forms, m \in MemberNames("methods") :
    LET a == StaticCall(form, m)
    IN /\ Room /\ a # Refused
       /\ Push(Frame(a[2], a[3], a[4], FALSE))
       /\ UNCHANGED <<hier, objects, statics>>

New ==
  \E form \in hier.makes :
    LET a == Construct(form)
    IN /\ Room /\ Len(objects) < MaxObjects /\ a # Refused
       /\ objects' = Append(objects, pobject_new(a[2]))
       /\ IF a[1] = "makes" THEN UNCHANGED frames
          ELSE Push(Frame(a[3], a[2], Len(objects) + 1, FALSE))
       /\ UNCHANGED <<hier, statics>>

Clone ==
  \E o \in DOMAIN objects :
    LET a == CloneObject(o)
    IN /\ Room /\ Len(objects) < MaxObjects
       /\ objects' = Append(objects, pobject_clone(o))
       /\ IF a[1] = "copies" THEN UNCHANGED frames
          ELSE Push(Frame(a[2], objects[o].class, Len(objects) + 1, TRUE))
       /\ UNCHANGED <<hier, statics>>

return_from_function ==
  /\ Len(frames) > 1
  /\ frames' = SubSeq(frames, 1, Len(frames) - 1)
  /\ UNCHANGED <<hier, objects, statics>>

AccessInit ==
  /\ hier \in Hierarchies
  /\ objects = <<>>
  /\ frames = <<Frame("", "", 0, FALSE)>>
  /\ statics = [k \in UNION {{<<c, p.name>> : p \in StaticsOf(c)} : c \in DOMAIN T} |->
                  IF "typed" \in The(With(StaticsOf(k[1]), k[2])).flags THEN "unset" ELSE Null]

AccessNext == SetProperty \/ SetStatic \/ CallMethod \/ CallStatic \/ New \/ Clone \/ return_from_function

AccessSpec == AccessInit /\ [][AccessNext]_accessVars

-----------------------------------------------------------------------------
(***************************************************************************)
(* PHP 8.3's answers, where they could differ.  A protected method may be  *)
(* called by relatives of the class that first declared it; in its own     *)
(* class's code a private method comes before an override.                 *)
(***************************************************************************)
RootOf(f) ==
  The({a \in Ancestors(T, f.owner) :
         /\ \E g \in Own(T[a], f.name) : "private" \notin g.flags
         /\ \A b \in Ancestors(T, a) \ {a} : \A g \in Own(T[b], f.name) : "private" \in g.flags})
PhpVisible(f, scope) ==
  CASE "private" \in f.flags -> scope = f.owner
    [] "protected" \in f.flags ->
         scope # "" /\ (pclass_is_a(T, scope, RootOf(f)) \/ pclass_is_a(T, RootOf(f), scope))
    [] OTHER -> TRUE

PhpMethodCall(o, m) ==
  LET c == objects[o].class
      mine == IF Current.scope # "" /\ pclass_is_a(T, c, Current.scope)
              THEN {g \in Own(T[Current.scope], m) : "private" \in g.flags} ELSE {}
      f == IF mine # {} THEN The(mine) ELSE pclass_find_method(T, c, m)
  IN IF f = NoMethod THEN Refused
     ELSE IF ~PhpVisible(f, Current.scope) THEN Refused
     ELSE Enters(f.owner, c, IF "static" \in f.flags THEN 0 ELSE o)

PhpStaticCall(form, m) ==
  LET c == resolve_class_name(form)
      f == IF c = "" THEN NoMethod ELSE pclass_find_method(T, c, m)
      forwards == form \in {"self", "parent", "static"}
      caller == IF Current.this # 0 THEN objects[Current.this].class ELSE Current.called
  IN IF f = NoMethod THEN Refused
     ELSE IF ~PhpVisible(f, Current.scope) \/ "abstract" \in f.flags THEN Refused
     ELSE IF "static" \in f.flags THEN Enters(f.owner, IF forwards THEN caller ELSE c, 0)
     ELSE IF Current.this # 0 /\ pclass_is_a(T, caller, c) THEN Enters(f.owner, caller, Current.this)
     ELSE Refused

PhpGet(o, n) ==
  LET found == With(PropertiesOf(T, objects[o].class), n)
      p == The(found)
      seen == found # {} /\ pclass_member_visible(p.flags, p.owner, Current.scope)
  IN IF ~seen THEN (IF InvokesMagic(o, "__get") THEN <<"magic">> ELSE Refused)
     ELSE IF "typed" \in p.flags /\ n \notin objects[o].written THEN Refused
     ELSE <<"value", objects[o].slots[n]>>

\* A __clone may write the readonly properties of the copy it runs on.
PhpSet(o, n) ==
  LET found == With(PropertiesOf(T, objects[o].class), n)
      p == The(found)
      seen == found # {} /\ pclass_member_visible(p.flags, p.owner, Current.scope)
  IN IF ~seen THEN (IF InvokesMagic(o, "__set") THEN <<"magic">> ELSE Refused)
     ELSE IF "readonly" \in p.flags /\ (Current.scope # p.owner \/
               (n \in objects[o].written /\ ~(Current.clone /\ Current.this = o))) THEN Refused
     ELSE <<"sets">>

PhpConstant(form, k) ==
  LET c == resolve_class_name(form)
      at == IF c = "" THEN {} ELSE {a \in Ancestors(T, c) : With(T[a].consts, k) # {}}
      f == The(With(T[The(at)].consts, k))
  IN IF at # {} /\ pclass_member_visible(f.flags, f.owner, Current.scope) THEN <<"value", k>> ELSE Refused

PhpClone(o) ==
  LET f == pclass_find_method(T, objects[o].class, "__clone")
  IN IF f = NoMethod THEN <<"copies">> ELSE IF PhpVisible(f, Current.scope) THEN <<"enters", f.owner>> ELSE Refused

PhpConstruct(form) ==
  LET c == resolve_class_name(form)
      f == pclass_find_method(T, c, "__construct")
  IN IF c = "" \/ T[c].abstract THEN Refused
     ELSE IF f = NoMethod THEN <<"makes", c>>
     ELSE IF PhpVisible(f, Current.scope) THEN <<"constructs", c, f.owner>> ELSE Refused

-----------------------------------------------------------------------------
(***************************************************************************)
(* Properties.                                                             *)
(***************************************************************************)
\* OP_PROP_SET: an object has the slots of its class, marks only those, and a
\* slot that was never marked still holds its default.
SlotsMatchClass ==
  /\ \A o \in DOMAIN objects :
       /\ DOMAIN objects[o].slots = {p.name : p \in PropertiesOf(T, objects[o].class)}
       /\ objects[o].written \subseteq DOMAIN objects[o].slots
       /\ \A n \in DOMAIN objects[o].slots : n \notin objects[o].written => objects[o].slots[n] = Null
  /\ \A i \in DOMAIN frames : frames[i].this \in 0 .. Len(objects)

\* Whatever the current frame tries - reading, writing, calling, constructing,
\* cloning - it gets the answer PHP gives (OP_PROP_GET to OP_CLONE).
AccessAsPhp ==
  /\ \A o \in DOMAIN objects :
       /\ \A n \in MemberNames("props") : PropGet(o, n) = PhpGet(o, n) /\ PropSet(o, n) = PhpSet(o, n)
            /\ PropGetQuiet(o, n) = IF PhpGet(o, n)[1] = "value" THEN PhpGet(o, n)[2] ELSE Null
       /\ \A m \in MemberNames("methods") : MethodCall(o, m) = PhpMethodCall(o, m)
       /\ CloneObject(o) = PhpClone(o)
  /\ \A form \in hier.forms :
       /\ \A m \in MemberNames("methods") : StaticCall(form, m) = PhpStaticCall(form, m)
       /\ \A k \in MemberNames("consts") : ClassConstant(form, k) = PhpConstant(form, k)
  /\ \A form \in hier.makes : Construct(form) = PhpConstruct(form)

\* $this is an instance of the class whose method runs (enter_method).
ThisIsInstance ==
  \A i \in DOMAIN frames : frames[i].this # 0 => pclass_is_a(T, objects[frames[i].this].class, frames[i].scope)

\* An answer never shows a typed property before it was written: neither the
\* object's own (OP_PROP_GET) nor, through a clone, another's.
NothingUninitialized ==
  /\ \A o \in DOMAIN objects : \A p \in PropertiesOf(T, objects[o].class) :
       ("typed" \in p.flags /\ PropGet(o, p.name)[1] = "value") => PropGet(o, p.name)[2] \in Values
  /\ \A form \in hier.forms, n \in MemberNames("props") : StaticGet(form, n) # <<"value", "unset">>

\* A readonly property keeps the value it was given, in a clone too
\* (pobject_property_written).
ReadonlyOnce ==
  [][\A o \in DOMAIN objects : \A p \in PropertiesOf(T, objects[o].class) :
       ("readonly" \in p.flags /\ p.name \in objects[o].written)
         => objects'[o].slots[p.name] = objects[o].slots[p.name]]_accessVars

\* Only code of its own class changes a private property, whoever called it
\* and whatever the class of the object (pclass_member_visible).
Encapsulated ==
  [][/\ \A o \in DOMAIN objects : \A p \in PropertiesOf(T, objects[o].class) :
          ("private" \in p.flags /\ objects'[o].slots[p.name] # objects[o].slots[p.name])
            => Current.scope = p.owner
     /\ \A k \in DOMAIN statics : (statics'[k] # statics[k] /\
          "private" \in The(With(StaticsOf(k[1]), k[2])).flags) => Current.scope = k[1]]_accessVars

\* Private properties change only in their class and readonly ones once, by
\* whatever chain of calls, constructors and clones.
MembersGuarded == ReadonlyOnce /\ Encapsulated
=============================================================================
