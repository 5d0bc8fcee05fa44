------------------------------ MODULE Hierarchy ------------------------------
(***************************************************************************)
(* Lookup along a class hierarchy (src/pclass.c).  A table T is a function *)
(* from names to classes; a class knows its parent ("" for none), its      *)
(* interfaces, and its own methods and constants.                          *)
(***************************************************************************)
EXTENDS Naturals, FiniteSets

NoMethod == [name |-> "", flags |-> {}]

Own(c, m) == {f \in c.methods : f.name = m}

\* The class and its parents.
Ancestors(T, c) ==
  LET line[n \in 0 .. Cardinality(DOMAIN T)] ==
        IF n = 0 THEN c ELSE IF line[n - 1] = "" THEN "" ELSE T[line[n - 1]].parent
  IN {line[n] : n \in DOMAIN line} \ {""}

\* The one of these ancestors of a class that a walk to the root meets first.
Nearest(T, cs) == CHOOSE c \in cs : cs \subseteq Ancestors(T, c)

pclass_find_method(T, c, m) ==
  LET owners == {a \in Ancestors(T, c) : Own(T[a], m) # {}}
  IN IF owners = {} THEN NoMethod ELSE CHOOSE f \in Own(T[Nearest(T, owners)], m) : TRUE

\* Whether e is c, a parent or an interface of it, or above one of those.
pclass_is_a(T, c, e) ==
  LET above[n \in 0 .. Cardinality(DOMAIN T)] ==
        IF n = 0 THEN {c}
        ELSE LET cs == above[n - 1]
             IN cs \cup UNION {T[d].interfaces \cup ({T[d].parent} \ {""}) : d \in cs}
  IN c = e \/ e \in above[Cardinality(DOMAIN T)]
=============================================================================
