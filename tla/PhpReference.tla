---------------------------- MODULE PhpReference ----------------------------
(***************************************************************************)
(* What a program of the language of Codegen means, by structural          *)
(* recursion over its syntax tree and with no operand stack, jump or       *)
(* exception table: the meaning PHP 8.3 gives to its control structures.   *)
(* It is the definition the compiled programs are compared with.           *)
(*                                                                         *)
(* A run is [out, pos, reads, globals, statics, depth, frame]: what was    *)
(* echoed, how many of the inputs reads were consumed, the variables.  A   *)
(* completion adds how the statement ended: normally, by break or continue *)
(* (n levels to go), by return or by throw (with the value v).             *)
(***************************************************************************)
EXTENDS Codegen, TLC

CONSTANT FrameMax        \* PPHP_FRAME_MAX: nested calls

None == [k |-> "none"]
Nothing == [x \in {} |-> Null]

\* The frame of the main program keeps its variables among the globals.
Frame(fn, vars) == [fn |-> fn, vars |-> vars, global |-> {}, static |-> {}]
Start(reads) ==
    [out |-> <<>>, pos |-> 0, reads |-> reads, globals |-> Nothing,
     statics |-> Nothing, depth |-> 1, frame |-> Frame("main", Nothing)]

Normal(s) == [s |-> s, how |-> "normal", n |-> 0, v |-> Null]
Gives(s, v) == [s |-> s, how |-> "normal", n |-> 0, v |-> v]
Throws(s, v) == [s |-> s, how |-> "throw", n |-> 0, v |-> v]
Then(r, Next(_)) == IF r.how = "normal" THEN Next(r) ELSE r

Truthy(v) == v.t \in {"object", "resource"} \/ v.n # 0

Put(f, x, v) == (x :> v) @@ f
At(f, x) == IF x \in DOMAIN f THEN f[x] ELSE Null
Where(s, x) == IF x \in s.frame.static THEN "static"
               ELSE IF s.frame.fn = "main" \/ x \in s.frame.global THEN "global" ELSE "local"
Lookup(s, x) ==
    CASE Where(s, x) = "static" -> At(s.statics, <<s.frame.fn, x>>)
      [] Where(s, x) = "global" -> At(s.globals, x)
      [] OTHER -> At(s.frame.vars, x)
Store(s, x, v) ==
    CASE Where(s, x) = "static" -> [s EXCEPT !.statics = Put(@, <<s.frame.fn, x>>, v)]
      [] Where(s, x) = "global" -> [s EXCEPT !.globals = Put(@, x, v)]
      [] OTHER -> [s EXCEPT !.frame.vars = Put(@, x, v)]

IsA(v, class) == class = Throwable \/ v.n = class

RECURSIVE Eval(_, _, _), EvalEach(_, _, _, _), Arms(_, _, _, _), Exec(_, _, _),
          Stmts(_, _, _), Loop(_, _, _), Items(_, _, _, _), Cases(_, _, _, _)

\* Input is a call of a builtin; it answers FALSE when the inputs are used up.
ReadInput(s) ==
    Gives([s EXCEPT !.pos = @ + 1],
          Bool(s.pos < Len(s.reads) /\ s.reads[s.pos + 1]))

CallF(p, s, args) ==
    LET params == p.f.params
        Bind(i) == IF i <= Len(args) THEN args[i]
                   ELSE IF params[i].default.k = "none" THEN Null ELSE params[i].default.value
        vars == [x \in {params[i].name : i \in DOMAIN params} |->
                    Bind(CHOOSE i \in DOMAIN params : params[i].name = x)]
        r == Exec(p, [s EXCEPT !.frame = Frame("f", vars), !.depth = @ + 1], p.f.body)
        back == [r.s EXCEPT !.frame = s.frame, !.depth = s.depth]
    IN  IF Len(args) < Required(p.f) \/ s.depth >= FrameMax
        THEN Throws(s, Value("object", Error))
        ELSE CASE r.how = "normal" -> Gives(back, Null)
               [] r.how = "return" -> Gives(back, r.v)
               [] r.how = "throw" -> Throws(back, r.v)

\* Evaluates es in order; n collects the values.
EvalEach(p, s, es, vs) ==
    IF es = <<>> THEN [Normal(s) EXCEPT !.v = vs]
    ELSE Then(Eval(p, s, Head(es)), LAMBDA r : EvalEach(p, r.s, Tail(es), Append(vs, r.v)))

Arms(p, s, arms, subject) ==
    LET default == SelectSeq(arms.all, LAMBDA a : a.default) IN
    IF arms.left = <<>>
    THEN IF default = <<>> THEN Throws(s, Value("object", UnhandledMatchError))
         ELSE Eval(p, s, default[1].result)
    ELSE IF Head(arms.left).default
    THEN Arms(p, s, [arms EXCEPT !.left = Tail(@)], subject)
    ELSE Then(Eval(p, s, Head(arms.left).cond), LAMBDA r :
            IF r.v = subject THEN Eval(p, r.s, Head(arms.left).result)
            ELSE Arms(p, r.s, [arms EXCEPT !.left = Tail(@)], subject))

Eval(p, s, e) ==
    CASE e.k = "lit" -> Gives(s, e.value)
      [] e.k = "array" -> Gives(s, Value("array", e.count))
      [] e.k = "var" -> Gives(s, Lookup(s, e.name))
      [] e.k = "new" -> Gives(s, Value("object", e.class))
      [] e.k = "assign" ->
            IF e.op = "coalesce" /\ Lookup(s, e.name) # Null THEN Gives(s, Lookup(s, e.name))
            ELSE Then(Eval(p, s, e.right), LAMBDA r : Gives(Store(r.s, e.name, r.v), r.v))
      [] e.k = "short" ->
            Then(Eval(p, s, e.left), LAMBDA r :
                LET stops == CASE e.op = "and" -> ~Truthy(r.v)
                               [] e.op = "coalesce" -> r.v # Null
                               [] OTHER -> Truthy(r.v)
                IN  IF stops THEN r ELSE Eval(p, r.s, e.right))
      [] e.k = "not" -> Then(Eval(p, s, e.left), LAMBDA r : Gives(r.s, Bool(~Truthy(r.v))))
      [] e.k = "isset" -> Then(Eval(p, s, e.left), LAMBDA r : Gives(r.s, Bool(r.v # Null)))
      [] e.k = "ternary" -> Then(Eval(p, s, e.cond), LAMBDA r :
                                Eval(p, r.s, IF Truthy(r.v) THEN e.left ELSE e.right))
      [] e.k = "match" -> Then(Eval(p, s, e.subject), LAMBDA r :
                              Arms(p, r.s, [left |-> e.arms, all |-> e.arms], r.v))
      [] e.k = "call" -> Then(EvalEach(p, s, e.args, <<>>), LAMBDA r :
                             IF e.callee = "read" THEN ReadInput(r.s) ELSE CallF(p, r.s, r.v))
      [] e.k = "throwx" -> Then(Eval(p, s, e.left), LAMBDA r : Throws(r.s, r.v))

\* How a loop takes the completion of its body: go on, stop, or pass it on.
Leaves(r) == r.how \in {"return", "throw"} \/ (r.how \in {"break", "continue"} /\ r.n > 1)
Passed(r) == IF r.how \in {"break", "continue"} THEN [r EXCEPT !.n = @ - 1] ELSE r

Loop(p, s, l) ==
    LET Body(r) ==
            LET b == Exec(p, r.s, l.body) IN
            IF Leaves(b) THEN Passed(b)
            ELSE IF b.how = "break" THEN Normal(b.s)
            ELSE Then(EvalEach(p, b.s, l.step, <<>>), LAMBDA q :
                     Loop(p, q.s, [l EXCEPT !.first = FALSE]))
    IN  IF l.first THEN Body([s |-> s])
        ELSE Then(Eval(p, s, l.cond), LAMBDA r :
                 IF Truthy(r.v) THEN Body(r) ELSE Normal(r.s))

Items(p, s, l, i) ==
    IF i > l.count THEN Normal(s)
    ELSE LET b == Exec(p, Store(s, l.name, Num(i)), l.body) IN
         IF Leaves(b) THEN Passed(b)
         ELSE IF b.how = "break" THEN Normal(b.s) ELSE Items(p, b.s, l, i + 1)

\* Runs the bodies from the chosen case on; a break or continue ends the switch.
RunCases(p, s, arms) ==
    LET b == Stmts(p, s, [i \in DOMAIN arms |-> arms[i].body]) IN
    IF Leaves(b) THEN Passed(b) ELSE Normal(b.s)
Cases(p, s, c, subject) ==
    LET default == {i \in DOMAIN c.all : c.all[i].default} IN
    IF c.at > Len(c.all)
    THEN IF default = {} THEN Normal(s)
         ELSE RunCases(p, s, SubSeq(c.all, CHOOSE i \in default : TRUE, Len(c.all)))
    ELSE IF c.all[c.at].default THEN Cases(p, s, [c EXCEPT !.at = @ + 1], subject)
    ELSE Then(Eval(p, s, c.all[c.at].cond), LAMBDA r :
            IF r.v = subject THEN RunCases(p, r.s, SubSeq(c.all, c.at, Len(c.all)))
            ELSE Cases(p, r.s, [c EXCEPT !.at = @ + 1], subject))

Stmts(p, s, stmts) ==
    IF stmts = <<>> THEN Normal(s)
    ELSE Then(Exec(p, s, Head(stmts)), LAMBDA r : Stmts(p, r.s, Tail(stmts)))

\* The finally block runs once, whatever happened, and its own abrupt
\* completion replaces the pending one.
Try(p, s, t) ==
    LET b == Exec(p, s, t.body)
        caught == {i \in DOMAIN t.catches :
                      \E c \in ToSet(t.catches[i].classes) : IsA(b.v, c)}
        first == t.catches[CHOOSE i \in caught : \A j \in caught : i <= j]
        c == IF b.how = "throw" /\ caught # {}
             THEN Exec(p, Store(b.s, first.name, b.v), first.body) ELSE b
        f == Exec(p, c.s, t.finally)
    IN  IF f.how = "normal" THEN [c EXCEPT !.s = f.s] ELSE f

Exec(p, s, n) ==
    CASE n.k = "none" -> Normal(s)
      [] n.k = "block" -> Stmts(p, s, n.stmts)
      [] n.k = "expr" -> Then(Eval(p, s, n.expr), LAMBDA r : Normal(r.s))
      [] n.k = "echo" -> Then(EvalEach(p, s, n.exprs, <<>>), LAMBDA r :
                             Normal([r.s EXCEPT !.out = @ \o r.v]))
      [] n.k = "if" -> Then(Eval(p, s, n.cond), LAMBDA r :
                           Exec(p, r.s, IF Truthy(r.v) THEN n.body ELSE n.else))
      [] n.k = "while" -> Loop(p, s, [cond |-> n.cond, body |-> n.body, step |-> <<>>,
                                      first |-> FALSE])
      [] n.k = "do" -> Loop(p, s, [cond |-> n.cond, body |-> n.body, step |-> <<>>,
                                   first |-> TRUE])
      [] n.k = "for" -> Then(EvalEach(p, s, n.init, <<>>), LAMBDA r :
                            Loop(p, r.s, [cond |-> n.cond, body |-> n.body, step |-> n.step,
                                          first |-> FALSE]))
      [] n.k = "foreach" -> Then(Eval(p, s, n.iter), LAMBDA r :
                                IF r.v.t # "array" THEN Throws(r.s, Value("object", Error))
                                ELSE Items(p, r.s, [count |-> r.v.n, name |-> n.name,
                                                    body |-> n.body], 1))
      [] n.k = "switch" -> Then(Eval(p, s, n.subject), LAMBDA r :
                               Cases(p, r.s, [all |-> n.arms, at |-> 1], r.v))
      [] n.k \in {"break", "continue"} -> [Normal(s) EXCEPT !.how = n.k, !.n = n.level]
      [] n.k = "return" -> Then(Eval(p, s, n.expr), LAMBDA r : [r EXCEPT !.how = "return"])
      [] n.k = "throw" -> Then(Eval(p, s, n.expr), LAMBDA r : Throws(r.s, r.v))
      [] n.k = "try" -> Try(p, s, n)
      [] n.k = "global" -> Normal([s EXCEPT !.frame.global = @ \cup {n.name},
                                            !.frame.static = @ \ {n.name}])
      [] n.k = "static" ->
            LET b == [s EXCEPT !.frame.static = @ \cup {n.name}, !.frame.global = @ \ {n.name}]
            IN  IF <<s.frame.fn, n.name>> \in DOMAIN s.statics THEN Normal(b)
                ELSE Normal(Store(b, n.name, n.expr.value))

\* What a whole program prints on the given inputs, and the exception that
\* ends it (0 when none does).
Meaning(p, reads) ==
    LET r == Exec(p, Start(reads), p.main)
    IN  [out |-> r.s.out, uncaught |-> IF r.how = "throw" THEN r.v.n ELSE 0]
============================================================================
