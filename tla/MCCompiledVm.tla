---------------------------- MODULE MCCompiledVm ----------------------------
(***************************************************************************)
(* Programs for CompiledVm.  A program is named by four choices: an outer  *)
(* construct, an inner construct, the statement inside both, and the body  *)
(* of the function f that some statements call.                            *)
(***************************************************************************)
EXTENDS CompiledVm

CONSTANTS CatchInLoops,     \* try/catch inside foreach or switch
          FinallyThrows,    \* a finally block that throws
          FinallyJumps      \* a finally block that leaves by break or return

Name(i) == [kind |-> "var", id |-> i]
Lit(n) == [k |-> "lit", value |-> Num(n)]
Var(i) == [k |-> "var", name |-> Name(i)]
Read == [k |-> "call", callee |-> "read", args |-> <<>>]
CallWith(args) == [k |-> "call", callee |-> "f", args |-> args]
Say(n) == [k |-> "echo", exprs |-> <<Lit(n)>>]
SayVar(i) == [k |-> "echo", exprs |-> <<Var(i)>>]
Do(e) == [k |-> "expr", expr |-> e]
Assign(i, e) == [k |-> "assign", op |-> "set", name |-> Name(i), right |-> e]
Block(ss) == [k |-> "block", stmts |-> ss]
If(s) == [k |-> "if", cond |-> Read, body |-> s, else |-> None]
Break(n) == [k |-> "break", level |-> n]
Continue(n) == [k |-> "continue", level |-> n]
Return(e) == [k |-> "return", expr |-> e]
Raise(class) == [k |-> "throw", expr |-> [k |-> "new", class |-> class]]
Short(op, l, r) == [k |-> "short", op |-> op, left |-> l, right |-> r]
Clause(classes, body) == [classes |-> classes, name |-> Name(2), body |-> body]
TryAll(body, catches, finally) ==
    [k |-> "try", body |-> body, catches |-> catches, finally |-> finally]
Arm(default, n, body) == [default |-> default, cond |-> Lit(n), body |-> body,
                          result |-> Lit(n + 50)]

Innermost ==
    [say |-> Say(1), break |-> If(Break(1)), break2 |-> If(Break(2)),
     continue |-> If(Continue(1)), continue2 |-> If(Continue(2)),
     return |-> If(Return(Lit(3))), throw |-> If(Raise(1)), other |-> If(Raise(2)),
     call |-> Block(<<Do(Assign(4, Lit(4))),
                      [k |-> "echo", exprs |-> <<CallWith(<<Lit(5)>>), CallWith(<<>>)>>]>>),
     match |-> [k |-> "echo", exprs |-> <<
                  [k |-> "match", subject |-> Short("and", Read, Lit(1)),
                   arms |-> <<Arm(FALSE, 2, None), Arm(FALSE, 1, None)>>]>>],
     logic |-> Block(<<
                  Do(Assign(5, Short("or", Short("and", Read, Lit(0)), Lit(7)))),
                  Do([k |-> "assign", op |-> "coalesce", name |-> Name(6), right |-> Var(5)]),
                  [k |-> "echo", exprs |-> <<Short("coalesce", Var(7), Var(6)),
                     [k |-> "ternary", cond |-> [k |-> "isset", left |-> Var(7)],
                      left |-> Lit(1), right |-> [k |-> "not", left |-> Var(6)]]>>]>>)]

Then10(s) == Block(<<s, Say(10)>>)

\* Constructs around a statement s; id keeps inner and outer output apart.
Wrap(kind, s, id) ==
    CASE kind = "plain" -> s
      [] kind = "while" -> [k |-> "while", cond |-> Read, body |-> Then10(s)]
      [] kind = "do" -> [k |-> "do", cond |-> Read, body |-> Then10(s)]
      [] kind = "for" -> [k |-> "for", init |-> <<Assign(8, Lit(1))>>, cond |-> Read,
                          step |-> <<Assign(8, Lit(2))>>, body |-> Block(<<s, SayVar(8)>>)]
      [] kind = "foreach" -> [k |-> "foreach", iter |-> [k |-> "array", count |-> 2],
                              name |-> Name(10 + id), body |-> Block(<<SayVar(10 + id), s>>)]
      [] kind = "switch" -> [k |-> "switch", subject |-> Lit(id),
                             arms |-> <<Arm(TRUE, 0, Say(20 + id)), Arm(FALSE, id, s),
                                        Arm(FALSE, 0, Say(22 + id))>>]
      [] kind = "catch" -> TryAll(Then10(s), <<Clause(<<1>>, Say(30 + id))>>, None)
      [] kind = "finally" -> TryAll(Then10(s), <<>>, Say(40 + id))
      [] kind = "both" -> TryAll(Then10(s), <<Clause(<<1, 8>>, If(Return(Lit(id)))),
                                             Clause(<<Throwable>>, If(Raise(2)))>>, Say(50 + id))
      [] kind = "throwing" -> TryAll(s, <<>>, Block(<<Say(60 + id), If(Raise(1))>>))
      [] kind = "jumping" -> TryAll(s, <<>>, Block(<<Say(70 + id), If(Break(1))>>))
      [] kind = "returning" -> TryAll(s, <<>>, If(Return(Lit(8))))

Constructs == {"plain", "while", "do", "for", "foreach", "switch", "catch", "finally", "both"}
              \cup (IF FinallyThrows THEN {"throwing"} ELSE {})
              \cup (IF FinallyJumps THEN {"jumping"} ELSE {})

Bodies ==
    [plain |-> SayVar(9), recursive |-> Block(<<SayVar(9), If(Do(CallWith(<<Lit(6)>>)))>>),
     throwing |-> Block(<<[k |-> "global", name |-> Name(4)], SayVar(4), Raise(1)>>),
     statics |-> Block(<<[k |-> "static", name |-> Name(3), expr |-> Lit(1)], SayVar(3),
                         Do(Assign(3, Lit(2))),
                         Wrap("returning", Return(Var(9)), 0)>>)]

CatchIn(outer, inner) == outer \in {"foreach", "switch"} /\ inner \in {"catch", "both"}

MCSources ==
    {c \in Constructs \X Constructs \X (DOMAIN Innermost) \X (DOMAIN Bodies) :
        /\ (c[4] # "plain") => (c[3] = "call")
        /\ CatchIn(c[1], c[2]) => CatchInLoops}

MCSource(c) ==
    [main |-> Block(<<Wrap(c[1], Wrap(c[2], Innermost[c[3]], 1), 2), Say(99)>>),
     f |-> [params |-> <<[name |-> Name(9), default |-> Lit(9)]>>, body |-> Bodies[c[4]]]]

============================================================================
