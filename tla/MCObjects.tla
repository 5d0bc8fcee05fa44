----------------------------- MODULE MCObjects -----------------------------
(***************************************************************************)
(* Instances of ClassTable and ObjectAccess.  A behaviour is of one part,  *)
(* chosen at the start:                                                    *)
(*   "declarations"  a script declares classes; the scripts come in        *)
(*                   families, each of which varies the two or three       *)
(*                   declarations one rule relates;                        *)
(*   "access"        code of a class hierarchy, one per group of rules,    *)
(*                   makes objects and uses their members.                 *)
(* The variables of the other module keep their first values.              *)
(***************************************************************************)
EXTENDS ClassTable, ObjectAccess

VARIABLE part

allVars == <<part, vars, accessVars>>

-----------------------------------------------------------------------------
(* Scripts.                                                                *)

Method(name, flags, required, params, variadic, ret) ==
  [kind |-> "method",
   method |-> [name |-> name, flags |-> flags, required |-> required, params |-> params,
               variadic |-> variadic, ret |-> ret, owner |-> "", body |-> "abstract" \notin flags]]
Prop(name, flags, type, default) ==
  [kind |-> "prop", prop |-> [name |-> name, flags |-> flags, type |-> type, default |-> default, owner |-> ""]]
Const(name) == [kind |-> "const", name |-> name]
Class(name, parent, flags, interfaces, members) ==
  [name |-> name, parent |-> parent, flags |-> flags, interfaces |-> interfaces, members |-> members,
   promoted |-> <<>>]
Promoting(class, props) == [class EXCEPT !.promoted = [i \in DOMAIN props |-> props[i].prop]]
Plain(s) == [i \in DOMAIN s |-> [decl |-> s[i], try |-> FALSE]]
Tried(s) == [i \in DOMAIN s |-> [decl |-> s[i], try |-> TRUE]]

Public == {"public"}
Abstract == {"public", "abstract"}
F(flags, required, count, variadic) == Method("f", flags, required, [i \in 1 .. count |-> {}], variadic, {})
OneOf(type) == Method("f", Public, 1, <<type>>, FALSE, {})
Returns(flags, type) == Method("f", flags, 0, <<>>, FALSE, type)

\* Numbers of parameters.
Shapes == {F(Public, r, n, v) : r \in 0 .. 2, n \in 0 .. 2, v \in BOOLEAN}
Counts == {Plain(<<Class("A", "", {}, <<>>, <<f>>), Class("B", "A", {}, <<>>, <<g>>)>>) : f, g \in Shapes}

\* Visibility and static.
Kinds == {F(v \cup s, 0, 0, FALSE) : v \in {{"public"}, {"protected"}, {"private"}}, s \in {{}, {"static"}}}
Kinship == {Plain(<<Class("A", "", {}, <<>>, <<f>>), Class("B", "A", {}, <<>>, <<g>>)>>) : f, g \in Kinds}

\* Types, with the classes they name declared before, between or after.
X == Class("X", "", {}, <<>>, <<>>)
Y == Class("Y", "X", {}, <<>>, <<>>)
Types == {{}, {<<"int">>}, {<<"int">>, <<"null">>}, {Mixed}, {Named("X")}, {Named("Y")},
          {Named("X"), <<"int">>}, {<<"self">>}, {Named("B")}}
Results == Types \cup {{<<"static">>}}
Around(a, b) == {Plain(<<X, Y, a, b>>), Plain(<<a, b, X, Y>>), Plain(<<a, X, b, Y>>), Plain(<<a, b>>)}
Parameters == UNION {Around(Class("A", "", {}, <<>>, <<OneOf(s)>>), Class("B", "A", {}, <<>>, <<OneOf(t)>>))
                     : s, t \in Types}
ReturnTypes == UNION {Around(Class("A", "", {}, <<>>, <<Returns(Public, s)>>),
                             Class("B", "A", {}, <<>>, <<Returns(Public, t)>>))
                      : s \in Results, t \in Results \cup {{<<"parent">>}}}

\* Three generations, one of which may leave the method out.
Few == {{}, {Named("X")}, {Named("Y")}, {<<"self">>}, {<<"static">>}}
Chains == {Plain(<<X, Y, Class("A", "", {}, <<>>, <<Returns(Public, s)>>),
                   Class("B", "A", {}, <<>>, IF m = 1 THEN <<>> ELSE <<Returns(Public, t)>>),
                   Class("C", "B", {}, <<>>, <<Returns(Public, u)>>)>>) : s, t, u \in Few, m \in 1 .. 2}

\* Abstract classes, interfaces and final methods.
Interface(name, above, members) == Class(name, "", {"interface"}, above, members)
Bodies == {<<>>, <<F(Public, 0, 0, FALSE)>>, <<F(Abstract, 0, 0, FALSE)>>, <<F({"public", "final"}, 0, 0, FALSE)>>,
           <<F(Public, 1, 1, FALSE)>>, <<F({"protected"}, 0, 0, FALSE)>>}
Interfaces == {Plain(<<Interface("I", <<>>, <<F(Abstract, 0, 0, FALSE)>>), Interface("J", above, <<>>),
                       Class("A", "", flags, <<i>>, a), Class("B", "A", {}, <<>>, b),
                       Class("C", "B", last, <<>>, c)>>) :
                 above \in {<<>>, <<"I">>}, flags \in {{}, {"abstract"}}, i \in {"I", "J"}, a, b \in Bodies,
                 last \in {{}, {"abstract"}}, c \in {<<>>, <<F(Public, 0, 0, FALSE)>>}}

\* Other clashes.
Integer == {<<"int">>}
Others ==
  {Plain(<<Class("A", "", f, <<>>, m), Class("B", p, g, <<>>, <<Const("k")>>)>>) :
     f, g \in {{}, {"final"}, {"readonly"}}, p \in {"", "A", "Z"},
     m \in {<<>>, <<Prop("x", Public, Integer, "int")>>, <<Prop("x", Public, Integer, "string")>>,
            <<Prop("x", {"public", "readonly"}, Integer, "none")>>, <<Prop("x", {"public", "static"}, {}, "none")>>,
            <<Const("k")>>, <<Const("k"), Const("k")>>, <<Prop("x", Public, {}, "none"), Prop("x", Public, {}, "none")>>}}
  \cup {Plain(<<Interface("I", <<>>, <<>>), Class("A", "", {}, i, <<>>), Class(n, "", {}, <<>>, <<>>)>>) :
          i \in {<<"I">>, <<"I", "I">>, <<"Z">>, <<"A">>}, n \in {"A", "B"}}
  \cup {Plain(<<Class("A", "", {}, <<>>, m)>>) :
          m \in {<<F(Public, 0, 0, FALSE), F(Public, 0, 0, FALSE)>>, <<F({"abstract", "final"}, 0, 0, FALSE)>>}}
  \cup {Plain(<<Class("A", "", a, <<>>, <<Method("__construct", s, 1, <<{}>>, FALSE, {})>>),
                Class("B", "A", {}, <<>>, <<Method("__construct", {"private"}, 0, <<>>, FALSE, {})>>)>>) :
          a \in {{}, {"abstract"}}, s \in {Public, Abstract}}
  \cup {Plain(<<Promoting(Class("A", "", f, <<>>, <<Method("__construct", Public, 1, <<Integer>>, FALSE, {})>> \o m),
                          <<Prop("x", Public, t, "none")>>), Class("B", "A", f, <<>>, <<>>)>>) :
          f \in {{}, {"readonly"}}, t \in {{}, Integer}, m \in {<<>>, <<Prop("x", Public, Integer, "none")>>}}

\* An error that is caught before the class is finished or after it is
\* registered, and the declarations after it.
CaughtEarly ==
  {Tried(<<X, Class("A", p, {}, <<>>, m), Class("B", "X", {}, <<>>, <<>>), Class("C", "B", {}, <<>>, <<>>)>>) :
     p \in {"", "Z"}, m \in {<<>>, <<Prop("x", Public, Integer, "string")>>}}
  \cup {Tried(<<Class("A", "", {}, <<>>, <<Returns(Public, {Named("X")})>>),
                Class("B", "A", {}, <<>>, <<Returns(Public, {Named("Y")})>>),
                X, Class("Y", y, {}, <<>>, <<>>)>>) : y \in {"", "X"}}

MCScripts == {Plain(<<X, Y>>)} \cup Counts \cup Kinship \cup Parameters \cup ReturnTypes \cup Chains \cup Interfaces \cup Others \cup CaughtEarly

-----------------------------------------------------------------------------
(* Hierarchies.                                                            *)

Items(owner, pairs) == {[name |-> pairs[i][1], flags |-> pairs[i][2], owner |-> owner] : i \in DOMAIN pairs}
Declared(name, parent, props, methods, consts) ==
  name :> [parent |-> parent, interfaces |-> {}, abstract |-> FALSE, props |-> Items(name, props),
           methods |-> Items(name, methods), consts |-> Items(name, consts)]
Protected == {"protected"}
Private == {"private"}
Program(table, forms, makes) == [classes |-> table, forms |-> forms, makes |-> makes]

\* Properties of every visibility, overridden methods, calls of the parent's.
Family == Program(
  Declared("A", "", <<<<"x", Private>>, <<"y", Protected>>, <<"r", {"public", "readonly", "typed"}>>>>,
        <<<<"f", Public>>, <<"p", Private>>, <<"q", Protected>>>>, <<<<"K", Public>>>>)
  @@ Declared("B", "A", <<<<"w", {"private", "typed"}>>>>, <<<<"f", Public>>, <<"q", Public>>>>, <<>>),
  {"self", "parent", "static"}, {"A", "B"})

\* Static members, one of them declared again below.
Shared == Program(
  Declared("A", "", <<<<"s", {"private", "static"}>>, <<"t", {"public", "static", "typed"}>>>>,
        <<<<"m", {"public", "static"}>>, <<"n", {"private", "static"}>>>>, <<<<"K", Public>>>>)
  @@ Declared("B", "A", <<<<"t", {"protected", "static"}>>>>, <<<<"m", {"public", "static"}>>>>, <<>>)
  @@ Declared("C", "B", <<>>, <<<<"n", {"public", "static"}>>>>, <<>>),
  {"A", "B", "C", "static"}, {})

\* Constructors that not everybody may call, and an abstract class.
Factories == Program(
  [Declared("A", "", <<<<"r", {"public", "readonly", "typed"}>>>>, <<<<"__construct", Protected>>, <<"f", Public>>>>, <<>>)
   EXCEPT !["A"].abstract = TRUE]
  @@ Declared("B", "A", <<>>, <<<<"__construct", Public>>, <<"g", Public>>>>, <<>>)
  @@ Declared("D", "", <<>>, <<<<"__construct", Private>>>>, <<>>),
  {"self", "parent"}, {"A", "B", "D", "self", "static", "parent"})

\* Clones, with and without a method of their own, and __get and __set.
Copies == Program(
  Declared("A", "", <<<<"x", Private>>, <<"r", {"protected", "readonly", "typed"}>>>>, <<<<"f", Public>>>>, <<>>)
  @@ Declared("B", "", <<<<"z", Public>>>>, <<<<"__clone", Public>>, <<"__get", Public>>, <<"__set", Public>>>>, <<>>),
  {}, {"A", "B"})

MCHierarchies == {Family, Shared, Factories, Copies}

-----------------------------------------------------------------------------
MCInit == /\ part \in {"declarations", "access"}
          /\ Init /\ (part = "access" => script = Plain(<<X, Y>>))
          /\ AccessInit /\ (part = "declarations" => hier = Family)

MCNext == \/ part = "declarations" /\ Next /\ UNCHANGED <<part, accessVars>>
          \/ part = "access" /\ AccessNext /\ UNCHANGED <<part, vars>>

MCSpec == MCInit /\ [][MCNext]_allVars

-----------------------------------------------------------------------------
\* The declarations PHP accepts are the ones that are accepted: no class whose
\* methods are missing can be instantiated, no final method is overridden, a
\* subclass can stand for its parent, and what is refused is wrong in PHP.
DeclaredAsPhp == TypeOK /\ NoAbstractReached /\ FinalsKept /\ Substitutable /\ RefusedIsWrong

\* Whatever a frame tries, on any object, it gets PHP's answer; $this belongs
\* to the code that runs and no uninitialized property shows through.
AnswersAsPhp ==
  part = "access" => SlotsMatchClass /\ AccessAsPhp /\ ThisIsInstance /\ NothingUninitialized
=============================================================================
