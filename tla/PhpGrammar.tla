----------------------------- MODULE PhpGrammar -----------------------------
(****************************************************************************)
(* What the expressions of ExpressionParser mean in PHP 8.3, stated as     *)
(* PHP's own grammar states it: an ambiguous grammar and a table of        *)
(* precedences that decides, wherever an operator could end on the left or *)
(* go on to the right, which of the two it does.  A tree is PHP's when it  *)
(* yields the tokens and no such place is decided the other way.           *)
(****************************************************************************)
EXTENDS Naturals, Sequences

Assigns == {"=", "+=", "??="}
Signs == {"+", "-", "~", "++", "(int)"}
Unaries == Signs \cup {"!", "clone", "throw"}

\* The levels of Zend's grammar, loosest first.
Level(op) ==
    CASE op = "or" -> 2
      [] op = "xor" -> 3
      [] op = "and" -> 4
      [] op \in Assigns -> 5
      [] op = "?" -> 6
      [] op = "??" -> 7
      [] op = "||" -> 8
      [] op = "&&" -> 9
      [] op = "|" -> 10
      [] op = "^" -> 11
      [] op = "&" -> 12
      [] op \in {"==", "<=>"} -> 13
      [] op \in {"<", ">"} -> 14
      [] op = "." -> 15
      [] op \in {"<<", ">>"} -> 16
      [] op \in {"+", "-"} -> 17
      [] op \in {"*", "/"} -> 18
      [] op = "instanceof" -> 20
      [] op = "**" -> 22
      [] OTHER -> 0
UnaryLevel(op) ==
    CASE op = "throw" -> 1
      [] op = "!" -> 19
      [] op \in Signs -> 21
      [] op = "clone" -> 23
Binary(op) == Level(op) > 0 /\ op # "?"
ToTheRight(level) == level \in {5, 7, 22}
ToTheLeft(level) == level \notin {5, 7, 13, 14, 22}

\* The levels at which a tree could go on to its right, and those at which it
\* began by going on from its left.  An assignment always begins with its
\* variable: nothing before it can end there.
RECURSIVE RightEdge(_)
RightEdge(tree) ==
    CASE tree[1] = "unary" -> {UnaryLevel(tree[2])} \cup RightEdge(tree[3])
      [] tree[1] = "binary" -> IF tree[2] = "instanceof" THEN {}
                               ELSE {Level(tree[2])} \cup RightEdge(tree[4])
      [] tree[1] = "ternary" -> {Level("?")} \cup RightEdge(tree[4])
      [] OTHER -> {}
RECURSIVE LeftEdge(_)
LeftEdge(tree) ==
    CASE tree[1] = "binary" /\ tree[2] \notin Assigns ->
                {Level(tree[2])} \cup LeftEdge(tree[3])
      [] tree[1] = "ternary" -> {Level("?")} \cup LeftEdge(tree[2])
      [] OTHER -> {}
\* `tree` ends before an operator of this level; it is not ended by the rule of
\* this level that it stands in.
EndsBefore(tree, level) ==
    \A edge \in RightEdge(tree) : edge > level \/ (edge = level /\ ToTheLeft(level))
GoesOn(tree, level) ==
    \A edge \in LeftEdge(tree) : edge > level \/ (edge = level /\ ToTheRight(level))

Variable(tree) == tree[1] \in {"variable", "index", "member", "call"}
Assignable(tree) == tree[1] \in {"variable", "index", "member"}
Primary(tree) == Variable(tree) \/ tree[1] \in {"identifier", "paren"}
Nothing == <<"none">>

RECURSIVE Trees(_)
\* Lists of arguments, separated by commas.
RECURSIVE Lists(_)
Argument(ts) ==
    IF ts # <<>> /\ ts[1] = "..." THEN {<<"unary", "...", x>> : x \in Trees(Tail(ts))}
    ELSE Trees(ts)
Lists(ts) ==
    IF ts = <<>> THEN {<<>>}
    ELSE {<<x>> : x \in Argument(ts)}
         \cup UNION {{Append(front, x) : front \in Lists(SubSeq(ts, 1, k - 1)) \ {<<>>},
                                         x \in Argument(SubSeq(ts, k + 1, Len(ts)))}
                     : k \in {j \in DOMAIN ts : ts[j] = ","}}

Prefixed(ts) ==
    IF ts[1] \notin Unaries THEN {}
    ELSE {<<"unary", ts[1], x>> : x \in {y \in Trees(Tail(ts)) :
             /\ GoesOn(y, UnaryLevel(ts[1]))
             /\ ts[1] = "++" => Assignable(y)}}

Joined(ts, k) ==
    LET op == ts[k] IN
    {<<"binary", op, pair[1], pair[2]>> : pair \in
        {p \in Trees(SubSeq(ts, 1, k - 1)) \X Trees(SubSeq(ts, k + 1, Len(ts))) :
            /\ IF op \in Assigns THEN Assignable(p[1]) ELSE EndsBefore(p[1], Level(op))
            /\ IF op = "instanceof" THEN Primary(p[2]) ELSE GoesOn(p[2], Level(op))}}

\* A condition that is itself a ternary needs parentheses, unless both are short.
Chosen(ts, k, j) ==
    {<<"ternary", t[1], t[2], t[3]>> : t \in
        {u \in Trees(SubSeq(ts, 1, k - 1))
               \X (IF j = k + 1 THEN {Nothing} ELSE Trees(SubSeq(ts, k + 1, j - 1)))
               \X Trees(SubSeq(ts, j + 1, Len(ts))) :
            /\ EndsBefore(u[1], Level("?"))
            /\ GoesOn(u[3], Level("?"))
            /\ u[1][1] = "ternary" => u[1][3] = Nothing /\ u[2] = Nothing}}

\* What follows a primary expression, up to the last token.
Suffixed(ts, k) ==
    LET n == Len(ts)
        bases == {x \in Trees(SubSeq(ts, 1, k - 1)) : Primary(x)}
        inner == SubSeq(ts, k + 1, n - 1)
    IN  CASE ts[k] = "[" /\ ts[n] = "]" ->
                {<<"index", x, y>> : x \in bases,
                                     y \in IF inner = <<>> THEN {Nothing} ELSE Trees(inner)}
          [] ts[k] = "(" /\ ts[n] = ")" ->
                {<<"call", x, y>> : x \in bases, y \in Lists(inner)}
          [] ts[k] \in {"->", "::"} /\ n = k + 1 /\ ts[n] \in {"a", "B"} ->
                {<<"member", ts[k], x, IF ts[n] = "a" THEN <<"variable">> ELSE <<"identifier">>>>
                    : x \in bases}
          [] ts[k] = "->" /\ n > k + 1 /\ ts[k + 1] = "{" /\ ts[n] = "}" ->
                {<<"member", "->", x, y>> : x \in bases, y \in Trees(SubSeq(ts, k + 2, n - 1))}
          [] ts[k] = "++" /\ n = k -> {<<"postfix", x>> : x \in {b \in bases : Assignable(b)}}
          [] OTHER -> {}

\* isset() of several variables is true when it is of each.
RECURSIVE AllSet(_)
AllSet(list) ==
    IF Len(list) = 1 THEN <<"isset", list[1]>>
    ELSE <<"binary", "&&", AllSet(SubSeq(list, 1, Len(list) - 1)), <<"isset", list[Len(list)]>>>>

Enclosed(ts) ==
    LET n == Len(ts) IN
    CASE ts[1] = "(" /\ ts[n] = ")" -> {<<"paren", x>> : x \in Trees(SubSeq(ts, 2, n - 1))}
      [] ts[1] = "new" /\ n >= 4 /\ ts[2] \in {"a", "B"} /\ ts[3] = "(" /\ ts[n] = ")" ->
            {<<"new", IF ts[2] = "a" THEN <<"variable">> ELSE <<"identifier">>, x>>
                : x \in Lists(SubSeq(ts, 4, n - 1))}
      [] ts[1] = "isset" /\ n >= 4 /\ ts[2] = "(" /\ ts[n] = ")" ->
            {<<"construct", AllSet(x)>> : x \in {list \in Lists(SubSeq(ts, 3, n - 1)) :
                                                 \A k \in DOMAIN list : Assignable(list[k])}}
      [] ts[1] = "empty" /\ n >= 4 /\ ts[2] = "(" /\ ts[n] = ")" ->
            {<<"construct", <<"empty", x>>>> : x \in Trees(SubSeq(ts, 3, n - 1))}
      [] OTHER -> {}

Trees(ts) ==
    CASE ts = <<>> -> {}
      [] ts = <<"a">> -> {<<"variable">>}
      [] ts = <<"B">> -> {<<"identifier">>}
      [] OTHER ->
            Prefixed(ts) \cup Enclosed(ts)
            \cup UNION {Joined(ts, k) : k \in {i \in DOMAIN ts : Binary(ts[i])}}
            \cup UNION {Chosen(ts, k, j) : k \in {i \in DOMAIN ts : ts[i] = "?"},
                                           j \in {i \in DOMAIN ts : ts[i] = ":"}}
            \cup UNION {Suffixed(ts, k) : k \in 2..Len(ts)}

\* Parentheses leave no trace in the tree.
RECURSIVE Bare(_)
Bare(tree) ==
    CASE tree[1] \in {"paren", "construct"} -> Bare(tree[2])
      [] tree[1] = "unary" -> IF tree[2] = "throw" THEN <<"throw", Bare(tree[3])>>
                              ELSE <<"unary", tree[2], Bare(tree[3])>>
      [] tree[1] = "binary" -> <<"binary", tree[2], Bare(tree[3]), Bare(tree[4])>>
      [] tree[1] = "ternary" -> <<"ternary", Bare(tree[2]), Bare(tree[3]), Bare(tree[4])>>
      [] tree[1] = "index" -> <<"index", Bare(tree[2]), Bare(tree[3])>>
      [] tree[1] = "member" -> <<"member", tree[2], Bare(tree[3]), Bare(tree[4])>>
      [] tree[1] \in {"postfix", "isset", "empty"} -> <<tree[1], Bare(tree[2])>>
      [] tree[1] \in {"call", "new"} ->
            <<tree[1], Bare(tree[2]), [k \in DOMAIN tree[3] |-> Bare(tree[3][k])]>>
      [] OTHER -> tree
=============================================================================
