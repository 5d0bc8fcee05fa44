------------------------------ MODULE MCArrayVm ------------------------------
(***************************************************************************)
(* Programs for ArrayVm: an array is shared between two names, written     *)
(* through one of them in every form the compiler has, and used again.     *)
(***************************************************************************)
EXTENDS ArrayVm

\* `$a`, `$b`
A == 1
B == 2
TwoVariables == {A, B}

Set(root, keys, e) == <<"set", <<root, keys>>, e>>
Var(x) == <<"var", x>>
Lit == <<"lit", 5>>

\* Programs start from $a = [[1]] (shared with $b, or within $o->p or C::$p).
Start == Set(A, <<>>, <<"array", <<"array", <<"lit", 1>>>>>>)
Share(x) == Set(x, <<>>, Var(A))

Lvalues == {<<A, <<0>>>>, <<A, <<0, 0>>>>, <<A, <<1>>>>, <<A, <<2, 0, 1>>>>, <<A, <<-1>>>>,
            <<A, <<0, -1>>>>, <<Prop, <<0, 0>>>>, <<Dynamic, <<0>>>>, <<Static, <<0, 1>>>>,
            <<Prop, <<>>>>, <<Dynamic, <<>>>>, <<Static, <<>>>>, <<A, <<>>>>}
Named == {l \in Lvalues : \A i \in DOMAIN l[2] : l[2][i] # -1}
Deep == {l \in Named : l[2] # <<>>}

\* Right-hand sides that assign to other names only.
Quiet == {Lit, Var(A), Var(B), Set(B, <<>>, Var(A)), Set(B, <<0>>, Lit), <<"at", Set(B, <<>>, Var(A)), 0>>, <<"array", Var(A)>>}

Writes == {<<"set", l, e>> : l \in Lvalues, e \in Quiet}
          \cup {<<op, l, e>> : op \in {"add", "coalesce"}, l \in Named, e \in {Lit, Var(B)}}
          \cup {<<"inc", l, post>> : l \in Named, post \in BOOLEAN}
          \cup {<<"unset", l>> : l \in {<<A, <<0>>>>, <<A, <<0, 0>>>>}}
          \cup {<<"push", x, e>> : x \in {A, Prop, Static}, e \in {Lit, Var(B)}}

Follow == {Set(B, <<0, 0>>, <<"lit", 7>>), Set(A, <<0>>, Var(B)), <<"push", B, Var(A)>>,
           Set(B, <<>>, <<"read", <<A, <<0>>>>>>)}

Sharing == {<<Start, Share(x), w, f>> : x \in {B, Prop, Static}, w \in Writes, f \in Follow}
=============================================================================
