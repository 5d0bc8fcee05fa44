----------------------------- MODULE ClassTable -----------------------------
(***************************************************************************)
(* How a script's class declarations become classes: what the compiler     *)
(* emits for a declaration (compile_class_definition and compile_method in *)
(* compiler/codegen.c), the OP_DEF_* instructions of src/vm.c that build   *)
(* and register it, and the inheritance rules of src/pclass.c: lookup, the *)
(* compatibility of signatures, abstract methods and interfaces, and the   *)
(* checks that wait until a class named in a signature is declared.        *)
(*                                                                         *)
(* The build is the one with PPHP_TYPECHECK.  A declaration is a record;   *)
(* names are model strings compared exactly (the code compares class and   *)
(* method names without regard to case); a type is the set of its members. *)
(* There is one method name per clash to study; constants have no values.  *)
(***************************************************************************)
EXTENDS Hierarchy, Integers, Sequences, FiniteSets, SequencesExt, TLC

CONSTANTS Scripts     \* sequences of [decl |-> a declaration, try |-> inside a try statement]

VARIABLES script,     \* the script that runs
          at,         \* the declaration it is at
          ops,        \* the instructions left of that declaration
          building,   \* state->building_class, or None
          classes,    \* the registered classes, by name
          status,     \* "compiles", "runs", "done" or "failed"
          caught      \* declarations whose error a handler took

vars == <<script, at, ops, building, classes, status, caught>>

None == [name |-> ""]
Nothing == [n \in {} |-> None]

-----------------------------------------------------------------------------
(***************************************************************************)
(* Tables: an unregistered class under construction is added to the table  *)
(* of the registered ones for following pointers.                          *)
(***************************************************************************)

-----------------------------------------------------------------------------
(***************************************************************************)
(* Types.  A member is a word or the name of a class in a pair.            *)
(***************************************************************************)
Named(n) == <<"named", n>>
Scalars == {<<"int">>, <<"string">>, <<"null">>}
Mixed == <<"mixed">>

MemberName(T, m, owner) ==
  CASE m \in {<<"self">>, <<"static">>} -> owner
    [] m = <<"parent">> -> T[owner].parent
    [] m[1] = "named" -> m[2]
    [] OTHER -> ""

\* declared_member_class: the owner itself, or a class registered by now.
MemberClass(T, m, owner) ==
  LET n == MemberName(T, m, owner)
  IN IF n = owner \/ m = <<"parent">> \/ n \in DOMAIN classes THEN n ELSE ""

declared_member_subtype(T, sub, subOwner, super, superOwner) ==
  LET names == <<MemberName(T, sub, subOwner), MemberName(T, super, superOwner)>>
      found == <<MemberClass(T, sub, subOwner), MemberClass(T, super, superOwner)>>
  IN CASE super = Mixed -> "yes"
       [] sub = Mixed -> "no"
       [] super = <<"static">> /\ sub # <<"static">> -> "no"
       [] {sub, super} \subseteq Scalars -> IF sub = super THEN "yes" ELSE "no"
       [] names[1] # "" /\ names[1] = names[2] -> "yes"
       [] found[1] # "" /\ found[2] # "" -> IF pclass_is_a(T, found[1], found[2]) THEN "yes" ELSE "no"
       [] OTHER -> IF names[1] # "" /\ names[2] # "" THEN "pending" ELSE "no"

\* The weakest of several answers: one "no" decides, then one "pending".
Weakest(answers) ==
  IF "no" \in answers THEN "no" ELSE IF "pending" \in answers THEN "pending" ELSE "yes"
Strongest(answers) ==
  IF "yes" \in answers THEN "yes" ELSE IF "pending" \in answers THEN "pending" ELSE "no"

declared_spec_subtype(T, sub, subOwner, super, superOwner) ==
  IF super = {} \/ super = {Mixed} THEN "yes"
  ELSE IF sub = {} THEN "no"
  ELSE Weakest({Strongest({declared_member_subtype(T, s, subOwner, p, superOwner) : p \in super})
                : s \in sub})

method_visibility_compatible(implementation, requirement) ==
  CASE "public" \in requirement -> "public" \in implementation
    [] "protected" \in requirement -> "private" \notin implementation
    [] OTHER -> TRUE

\* A parameter beyond the last takes the type of the last.
method_signature_compatible(T, actual, required) ==
  LET Actual(i) == actual.params[IF i <= Len(actual.params) THEN i ELSE Len(actual.params)]
  IN IF \/ ("static" \in required.flags) # ("static" \in actual.flags)
        \/ ~method_visibility_compatible(actual.flags, required.flags)
        \/ actual.required > required.required
        \/ required.variadic /\ ~actual.variadic
        \/ ~actual.variadic /\ Len(actual.params) < Len(required.params)
     THEN "no"
     ELSE Weakest({declared_spec_subtype(T, required.params[i], required.owner, Actual(i), actual.owner)
                   : i \in DOMAIN required.params}
                  \cup {declared_spec_subtype(T, actual.ret, actual.owner, required.ret, required.owner)})

method_implements(T, c, required, concrete) ==
  LET f == pclass_find_method(T, c, required.name)
  IN IF f = NoMethod \/ (concrete /\ "abstract" \in f.flags) THEN "no"
     ELSE method_signature_compatible(T, f, required)

RECURSIVE interfaces_complete(_, _, _, _)
interfaces_complete(T, c, i, concrete) ==
  Weakest({method_implements(T, c, r, concrete) :
             r \in {x \in T[i].methods : concrete \/ pclass_find_method(T, c, x.name) # NoMethod}}
          \cup {interfaces_complete(T, c, j, concrete) : j \in T[i].interfaces})

pclass_is_complete(T, c) ==
  LET concrete == T[c].flags \cap {"abstract", "interface"} = {}
      Inherited(f) == IF T[c].parent = "" THEN NoMethod ELSE pclass_find_method(T, T[c].parent, f.name)
      overrides == {f \in T[c].methods : /\ Inherited(f) # NoMethod
                                         /\ "private" \notin Inherited(f).flags
                                         /\ f.name # "__construct"}
  IN Weakest({method_signature_compatible(T, f, Inherited(f)) : f \in overrides}
             \cup UNION {{method_implements(T, c, f, TRUE) :
                            f \in {x \in T[a].methods : concrete /\ "abstract" \in x.flags}}
                         \cup {interfaces_complete(T, c, i, concrete) : i \in T[a].interfaces}
                         : a \in Ancestors(T, c)})

-----------------------------------------------------------------------------
(***************************************************************************)
(* What the compiler refuses, and what it emits.                           *)
(***************************************************************************)
MethodCompiles(f) ==
  /\ ("abstract" \in f.flags) = ~f.body
  /\ ~({"abstract", "final"} \subseteq f.flags)
  /\ f.name = "__construct" => "static" \notin f.flags

\* Required parameters come first; the variadic one is last and optional.
ParametersCompile(f) ==
  /\ f.required <= Len(f.params)
  /\ f.variadic => f.required < Len(f.params)

\* Parameters of a constructor with a modifier declare properties.
PromotionCompiles(d) ==
  d.promoted # <<>> =>
    /\ "interface" \notin d.flags
    /\ \E i \in DOMAIN d.members : /\ d.members[i].kind = "method"
                                   /\ d.members[i].method.name = "__construct"
                                   /\ d.members[i].method.body

Readonly(d, p) == "readonly" \in p.flags \cup d.flags
PropertyCompiles(d, p) ==
  Readonly(d, p) => p.type # {} /\ p.default = "none" /\ "static" \notin p.flags

Compiles(d) ==
  /\ PromotionCompiles(d)
  /\ \A i \in DOMAIN d.promoted : PropertyCompiles(d, d.promoted[i])
  /\ \A i \in DOMAIN d.members :
       LET x == d.members[i]
       IN CASE x.kind = "method" -> MethodCompiles(x.method) /\ ParametersCompile(x.method)
            [] x.kind = "prop" -> PropertyCompiles(d, x.prop)
            [] OTHER -> TRUE

PropInstruction(d, p) ==
  [op |-> "prop", prop |-> [p EXCEPT !.flags = @ \cup (IF Readonly(d, p) THEN {"readonly"} ELSE {})]]

\* compile_class_definition: the class, its interfaces, the properties its
\* constructor promotes, its members in order.
Instructions(d) ==
  <<[op |-> "class", name |-> d.name, parent |-> d.parent, flags |-> d.flags]>>
  \o [i \in DOMAIN d.interfaces |-> [op |-> "interface", name |-> d.interfaces[i]]]
  \o [i \in DOMAIN d.promoted |-> PropInstruction(d, d.promoted[i])]
  \o [i \in DOMAIN d.members |->
        LET x == d.members[i]
        IN CASE x.kind = "prop" -> PropInstruction(d, x.prop)
             [] x.kind = "const" -> [op |-> "const", name |-> x.name]
             [] x.kind = "method" -> [op |-> "method", method |-> x.method]]
  \o <<[op |-> "end"]>>

Compile ==
  /\ status = "compiles"
  /\ IF \A i \in DOMAIN script : Compiles(script[i].decl)
     THEN status' = "runs" /\ ops' = Instructions(script[1].decl)
     ELSE status' = "failed" /\ UNCHANGED ops
  /\ UNCHANGED <<script, at, building, classes, caught>>

-----------------------------------------------------------------------------
(***************************************************************************)
(* The instructions.                                                       *)
(***************************************************************************)
Now(op) == status = "runs" /\ ops # <<>> /\ Head(ops).op = op
Goes == ops' = Tail(ops) /\ UNCHANGED <<script, at, status, caught>>

\* After the last declaration the script waits for Finish.
Ahead(i) == IF i < Len(script) THEN Instructions(script[i + 1].decl) ELSE <<>>

\* pphp_runtime_error and what becomes of it: a handler around the
\* declaration, or the end of the script, which takes all back.
Fails(left) ==
  IF script[at].try
  THEN /\ at' = at + 1 /\ ops' = Ahead(at) /\ building' = left
       /\ caught' = caught \cup {at}
       /\ UNCHANGED <<script, classes, status>>
  ELSE /\ status' = "failed" /\ building' = None /\ classes' = Nothing /\ ops' = <<>>
       /\ UNCHANGED <<script, at, caught>>

\* pclass_new: the properties of the parent come first, with their owner.
pclass_new(d) ==
  [name |-> d.name, parent |-> d.parent, flags |-> d.flags, interfaces |-> {},
   props |-> IF d.parent = "" THEN {} ELSE classes[d.parent].props,
   statics |-> {}, consts |-> {}, methods |-> {}]

DefClass ==
  /\ Now("class")
  /\ LET d == Head(ops)
         extendable == \/ d.parent = ""
                       \/ /\ d.parent \in DOMAIN classes
                          /\ "final" \notin classes[d.parent].flags
                          /\ ("readonly" \in classes[d.parent].flags) = ("readonly" \in d.flags)
     IN IF building = None /\ extendable
        THEN building' = pclass_new(d) /\ Goes /\ UNCHANGED classes
        ELSE Fails(building)

\* pclass_add_interface
DefInterface ==
  /\ Now("interface")
  /\ LET i == Head(ops).name
     IN IF i \in DOMAIN classes /\ "interface" \in classes[i].flags /\ i \notin building.interfaces
        THEN building' = [building EXCEPT !.interfaces = @ \cup {i}] /\ Goes /\ UNCHANGED classes
        ELSE Fails(building)

DefaultFits(p) == p.default = "none" \/ p.type = {} \/ {<<p.default>>, Mixed} \cap p.type # {}

\* OP_DEF_PROP gives the unfinished class up itself when it fails.
DefProp ==
  /\ Now("prop")
  /\ LET p == [Head(ops).prop EXCEPT !.owner = building.name]
         static == "static" \in p.flags
         clash == \E q \in (IF static THEN building.statics ELSE building.props) : q.name = p.name
     IN IF DefaultFits(p) /\ ~clash
        THEN /\ building' = IF static THEN [building EXCEPT !.statics = @ \cup {p}]
                            ELSE [building EXCEPT !.props = @ \cup {p}]
             /\ Goes /\ UNCHANGED classes
        ELSE Fails(None)

DefConst ==
  /\ Now("const")
  /\ LET k == Head(ops).name
     IN IF k \notin building.consts
        THEN building' = [building EXCEPT !.consts = @ \cup {k}] /\ Goes /\ UNCHANGED classes
        ELSE Fails(building)

\* pclass_add_method
DefMethod ==
  /\ Now("method")
  /\ LET f == [Head(ops).method EXCEPT !.owner = building.name]
         final == building.parent # "" /\
                    "final" \in pclass_find_method(classes, building.parent, f.name).flags
     IN IF ~final /\ Own(building, f.name) = {}
        THEN building' = [building EXCEPT !.methods = @ \cup {f}] /\ Goes /\ UNCHANGED classes
        ELSE Fails(building)

Registered == building.name :> building @@ classes

\* Mutant: a class that is still to be declared is not waited for.
ValidateImpatiently(T, rejectPending) == \A c \in DOMAIN T : pclass_is_complete(T, c) = "yes"

\* The rest of OP_DEF_END: every class is looked at again.
validate_class_signatures(T, rejectPending) ==
  \A c \in DOMAIN T : pclass_is_complete(T, c) \in (IF rejectPending THEN {"yes"} ELSE {"yes", "pending"})

\* Registering comes before the other classes are validated again: MemberClass
\* finds the new class only then.
DefEnd ==
  /\ Now("end")
  /\ IF pclass_is_complete(Registered, building.name) = "no" \/ building.name \in DOMAIN classes
     THEN Fails(building)
     ELSE /\ classes' = Registered /\ building' = None
          /\ ops' = <<[op |-> "validate"]>>
          /\ UNCHANGED <<script, at, status, caught>>

Validate ==
  /\ Now("validate")
  /\ IF validate_class_signatures(classes, FALSE)
     THEN /\ at' = at + 1 /\ ops' = Ahead(at)
          /\ UNCHANGED <<script, building, classes, status, caught>>
     ELSE Fails(None)

\* Mutant: what is pending at the end of the script is let through.
FinishLax ==
  /\ status = "runs" /\ at > Len(script)
  /\ IF validate_class_signatures(classes, FALSE)
     THEN status' = "done" /\ UNCHANGED <<building, classes>>
     ELSE status' = "failed" /\ building' = None /\ classes' = Nothing
  /\ UNCHANGED <<script, at, ops, caught>>

\* The end of pphp_vm_execute: nothing may be pending any more.
Finish ==
  /\ status = "runs" /\ at > Len(script)
  /\ IF validate_class_signatures(classes, TRUE)
     THEN status' = "done" /\ UNCHANGED <<building, classes>>
     ELSE status' = "failed" /\ building' = None /\ classes' = Nothing
  /\ UNCHANGED <<script, at, ops, caught>>

Init ==
  /\ script \in Scripts
  /\ at = 1 /\ ops = <<>> /\ building = None /\ classes = Nothing
  /\ status = "compiles" /\ caught = {}

Stopped == status \in {"done", "failed"} /\ UNCHANGED vars

Next == Compile \/ DefClass \/ DefInterface \/ DefProp \/ DefConst \/ DefMethod
        \/ DefEnd \/ Validate \/ Finish \/ Stopped

Spec == Init /\ [][Next]_vars

-----------------------------------------------------------------------------
(***************************************************************************)
(* What the declarations mean, by the values the types admit at run time   *)
(* (type_member_accepts in src/vm.c) and PHP's rules for declarations.     *)
(***************************************************************************)
TypeMemberAccepts(T, m, v, owner, called) ==
  LET wanted == CASE m = <<"self">> -> owner
                  [] m = <<"parent">> -> T[owner].parent
                  [] m = <<"static">> -> called
                  [] m[1] = "named" -> m[2]
                  [] OTHER -> ""
  IN \/ m = Mixed
     \/ m = v
     \/ v[1] = "object" /\ wanted # ""
        /\ (v[2] = wanted \/ (v[2] \in DOMAIN T /\ pclass_is_a(T, v[2], wanted)))

type_spec_accepts(T, spec, v, owner, called) ==
  spec = {} \/ \E m \in spec : TypeMemberAccepts(T, m, v, owner, called)

\* Values to tell types apart: one of each kind, and one object of each
\* class that is declared or only named.
NamesIn(spec) == {m[2] : m \in {x \in spec : x[1] = "named"}}
Mentioned(T) == DOMAIN T \cup UNION {UNION {NamesIn(f.ret) \cup UNION {NamesIn(f.params[i]) : i \in DOMAIN f.params}
                                          : f \in T[c].methods} : c \in DOMAIN T}
ValuesOf(T) == Scalars \cup {<<"array">>} \cup {<<"object", n>> : n \in Mentioned(T)}

\* The type of argument i of a call, and whether the method knows it.
Takes(f, i) == i <= Len(f.params) \/ f.variadic
ParameterType(f, i) == f.params[IF i <= Len(f.params) THEN i ELSE Len(f.params)]

\* A table with one more class, below c, that nobody has written yet.
Opened(T, c) == "later" :> [T[c] EXCEPT !.name = "later", !.parent = c, !.interfaces = {}, !.methods = {}] @@ T

\* Whatever may be done with r may be done with f, when c's objects have f.
Replaces(T, f, r, c) ==
  /\ ("static" \in f.flags) = ("static" \in r.flags)
  /\ method_visibility_compatible(f.flags, r.flags)
  /\ \A n \in 0 .. 3 : n >= r.required => n >= f.required
  /\ \A i \in 1 .. 3 : Takes(r, i) =>
       Takes(f, i) /\ \A v \in ValuesOf(T) :
         type_spec_accepts(T, ParameterType(r, i), v, r.owner, c)
           => type_spec_accepts(T, ParameterType(f, i), v, f.owner, c)
  /\ LET U == Opened(T, c)
     IN \A k \in {x \in DOMAIN U : pclass_is_a(U, x, c)}, v \in ValuesOf(U) :
          type_spec_accepts(U, f.ret, v, f.owner, k) => type_spec_accepts(U, r.ret, v, r.owner, k)

Pairs(T) == {<<c, d>> \in (DOMAIN T) \X (DOMAIN T) : c # d /\ pclass_is_a(T, c, d)}
Concrete(T, c) == T[c].flags \cap {"abstract", "interface"} = {}

\* Every subclass can stand in for its superclasses and interfaces.
Liskov(T) ==
  \A pair \in Pairs(T) : \A r \in T[pair[2]].methods :
    LET f == pclass_find_method(T, pair[1], r.name)
    IN ("private" \notin r.flags /\ (r.name # "__construct" \/ "abstract" \in r.flags))
       => IF f = NoMethod THEN ~Concrete(T, pair[1]) ELSE Replaces(T, f, r, pair[1])

NoAbstract(T) ==
  \A c \in DOMAIN T : Concrete(T, c) =>
    \A d \in {x \in DOMAIN T : pclass_is_a(T, c, x)}, f \in UNION {T[x].methods : x \in DOMAIN T} :
      f \in T[d].methods => "abstract" \notin pclass_find_method(T, c, f.name).flags

FinalsOf(T) ==
  \A pair \in Pairs(T) : \A r \in T[pair[2]].methods :
    "final" \in r.flags => \A f \in T[pair[1]].methods : f.name # r.name

\* The declarations of a script taken at their word.
Members(d, kind) == SelectSeq(d.members, LAMBDA x : x.kind = kind)
MethodsOf(d) == LET s == Members(d, "method") IN [i \in DOMAIN s |-> [s[i].method EXCEPT !.owner = d.name]]
PropsOf(d) == LET s == d.promoted \o [i \in DOMAIN Members(d, "prop") |-> Members(d, "prop")[i].prop]
              IN [i \in DOMAIN s |-> [s[i] EXCEPT !.owner = d.name]]
ConstsOf(d) == LET s == Members(d, "const") IN [i \in DOMAIN s |-> s[i].name]
Meant(d) ==
  [name |-> d.name, parent |-> d.parent, flags |-> d.flags, interfaces |-> ToSet(d.interfaces),
   props |-> {p \in ToSet(PropsOf(d)) : "static" \notin p.flags},
   statics |-> {p \in ToSet(PropsOf(d)) : "static" \in p.flags},
   consts |-> ToSet(ConstsOf(d)), methods |-> ToSet(MethodsOf(d))]
MeantTable(s) == [n \in {s[i].decl.name : i \in DOMAIN s} |->
                    Meant((CHOOSE x \in ToSet(s) : x.decl.name = n).decl)]

Distinct(names) == \A i, j \in DOMAIN names : names[i] = names[j] => i = j
NamesOf(s) == [i \in DOMAIN s |-> s[i].name]

\* PHP lets a subclass redeclare a property with the same type that is not
\* less visible, and do what it likes with the name of a private one.
Redeclarable(p, q) ==
  \/ "private" \in q.flags
  \/ /\ p.type = q.type
     /\ ("static" \in p.flags) = ("static" \in q.flags)
     /\ ("readonly" \in p.flags) = ("readonly" \in q.flags)
     /\ method_visibility_compatible(p.flags, q.flags)

PhpDeclares(s, i) ==
  LET d == s[i].decl
      Earlier(n) == \E j \in 1 .. i - 1 : s[j].decl.name = n
      Kind(n) == (CHOOSE j \in 1 .. i - 1 : s[j].decl.name = n)
      T == MeantTable(s)
  IN /\ Compiles(d)
     /\ ~Earlier(d.name)
     /\ d.parent # "" => /\ Earlier(d.parent)
                         /\ {"interface", "final"} \cap s[Kind(d.parent)].decl.flags = {}
                         /\ ("readonly" \in s[Kind(d.parent)].decl.flags) = ("readonly" \in d.flags)
     /\ Distinct(d.interfaces)
     /\ \A k \in DOMAIN d.interfaces :
          Earlier(d.interfaces[k]) /\ "interface" \in s[Kind(d.interfaces[k])].decl.flags
     /\ Distinct(NamesOf(MethodsOf(d))) /\ Distinct(NamesOf(PropsOf(d))) /\ Distinct(ConstsOf(d))
     /\ \A p \in ToSet(PropsOf(d)) : DefaultFits(p)

PhpAccepts(s) ==
  /\ \A i \in DOMAIN s : PhpDeclares(s, i)
  /\ LET T == MeantTable(s)
     IN /\ Liskov(T) /\ NoAbstract(T) /\ FinalsOf(T)
        /\ \A pair \in Pairs(T) : \A p \in T[pair[1]].props \cup T[pair[1]].statics,
                                      q \in T[pair[2]].props \cup T[pair[2]].statics :
             p.name = q.name => Redeclarable(p, q)

\* The script up to declaration i without those whose error was caught.
Upto(i) == LET kept == {j \in 1 .. Len(script) : j <= i /\ (j = i \/ j \notin caught)}
           IN [k \in 1 .. Cardinality(kept) |->
                 script[CHOOSE j \in kept : Cardinality({x \in kept : x < j}) = k - 1]]

-----------------------------------------------------------------------------
(***************************************************************************)
(* Properties.                                                             *)
(***************************************************************************)
\* OP_DEF_*: a class is under construction exactly between its first and its
\* last instruction, and parents and interfaces are registered before it.
TypeOK ==
  /\ status \in {"compiles", "runs", "done", "failed"}
  /\ at \in 1 .. Len(script) + 1
  /\ (ops # <<>> /\ Head(ops).op \notin {"class", "validate"}) => building # None
  /\ \A c \in DOMAIN classes : ({classes[c].parent} \ {""}) \cup classes[c].interfaces \subseteq DOMAIN classes

\* Whatever a caller may do with a class or an interface it may do with every
\* class below it once the script has been accepted, whatever the order of
\* the declarations and however far apart they are (method_signature_
\* compatible compares neighbours and may have had to wait).
Substitutable == status = "done" => Liskov(classes)

\* No class that can be instantiated ever finds an abstract method
\* (pclass_is_complete), not even before the script ends.
NoAbstractReached == NoAbstract(classes)

\* A final method is never overridden, at any distance (pclass_add_method).
FinalsKept == FinalsOf(classes)

\* What is refused deserves it: a declaration that fails, or a script that is
\* refused at its end, breaks a rule of PHP's.
RefusedIsWrong ==
  /\ \A i \in caught : ~PhpAccepts(Upto(i))
  /\ (status = "failed" /\ \A i \in DOMAIN script : Compiles(script[i].decl)) =>
       ~PhpAccepts(Upto(IF at <= Len(script) THEN at ELSE Len(script)))
=============================================================================
