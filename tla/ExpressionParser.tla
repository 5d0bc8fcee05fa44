-------------------------- MODULE ExpressionParser --------------------------
(****************************************************************************)
(* The expression parser of compiler/parser.c: parse_expression_precedence *)
(* climbs precedences, parse_prefix reads what can begin an expression and *)
(* parse_infix what can follow one.  A token is named by its spelling:     *)
(* "a" is a variable, "B" an identifier, "(int)" a cast with its           *)
(* parentheses.  Literals, array literals, closures, match and strings are *)
(* operands like "a" here and are not modelled.  The source is read token  *)
(* by token; the parser is asked about every source on the way.            *)
(****************************************************************************)
EXTENDS PhpGrammar, FiniteSets

CONSTANTS
    Alphabet,                   \* the tokens of the sources
    MaxTokens, MaxPrefixes,     \* bounds on a source
    PPHP_PARSE_DEPTH_MAX

VARIABLE tokens

Prefixes == {"+", "-", "!", "~", "++", "clone", "(int)"}
Assignments == {"=", "+=", "??="}
OperandTokens == {"a", "B"}

PREC_NONE == 0
PREC_ASSIGN == 4
PREC_TERNARY == 5
PREC_UNARY == 19
PREC_POSTFIX == 21

precedence(type) ==
    CASE type = "or" -> 1
      [] type = "xor" -> 2
      [] type = "and" -> 3
      [] type \in Assignments -> PREC_ASSIGN
      [] type = "?" -> PREC_TERNARY
      [] type = "??" -> 6
      [] type = "||" -> 7
      [] type = "&&" -> 8
      [] type = "|" -> 9
      [] type = "^" -> 10
      [] type = "&" -> 11
      [] type \in {"==", "<=>"} -> 12
      [] type \in {"<", ">"} -> 13
      [] type = "." -> 14
      [] type \in {"<<", ">>"} -> 15
      [] type \in {"+", "-"} -> 16
      [] type \in {"*", "/"} -> 17
      [] type = "instanceof" -> 18
      [] type = "**" -> 20
      [] type \in {"(", "[", "->", "::", "++"} -> PREC_POSTFIX
      [] OTHER -> PREC_NONE

is_lvalue(node) == node[1] \in {"variable", "index", "member"}
None == <<"none">>

\* A parse: the node, the next token, whether all went well.
Parsed(node, at) == [ok |-> TRUE, node |-> node, at |-> at]
Failed(at) == [ok |-> FALSE, at |-> at]
Token(at) == IF at <= Len(tokens) THEN tokens[at] ELSE "eof"
literal_node(token) == IF token = "a" THEN <<"variable">> ELSE <<"identifier">>

\* consume(): the token must be there; the node is kept.
consume(parse, token) ==
    IF parse.ok /\ Token(parse.at) = token THEN [parse EXCEPT !.at = @ + 1]
    ELSE Failed(parse.at)
\* The parse with its node wrapped into a larger one.
Wrapped(parse, Node(_)) == IF parse.ok THEN [parse EXCEPT !.node = Node(@)] ELSE parse

RECURSIVE parse_expression_precedence(_, _, _)
RECURSIVE parse_call(_, _, _, _)
parse_expression(at, depth) == parse_expression_precedence(at, PREC_NONE + 1, depth)

\* The arguments from `at` on, and the parenthesis that ends them.
parse_call(callee, arguments, at, depth) ==
    IF Token(at) \in {")", "eof"}
    THEN consume(Parsed(<<"call", callee, arguments>>, at), ")")
    ELSE LET spread == Token(at) = "..."
             argument == parse_expression(IF spread THEN at + 1 ELSE at, depth)
             more == Append(arguments, IF spread THEN <<"unary", "...", argument.node>>
                                       ELSE argument.node)
         IN  IF ~argument.ok THEN argument
             ELSE IF Token(argument.at) = ","
                  THEN parse_call(callee, more, argument.at + 1, depth)
                  ELSE consume(Parsed(<<"call", callee, more>>, argument.at), ")")

\* isset(a, b) is isset(a) && isset(b).
RECURSIVE parse_isset(_, _, _)
parse_isset(result, at, depth) ==
    LET operand == parse_expression(at, depth)
        this == <<"isset", operand.node>>
        all == IF result = None THEN this ELSE <<"binary", "&&", result, this>>
    IN  IF ~operand.ok THEN operand
        ELSE IF ~is_lvalue(operand.node) THEN Failed(at)
        ELSE IF Token(operand.at) = "," THEN parse_isset(all, operand.at + 1, depth)
        ELSE consume(Parsed(all, operand.at), ")")

parse_unary(at, depth) ==
    LET operand == parse_expression_precedence(at + 1, PREC_UNARY, depth)
    IN  IF operand.ok /\ Token(at) = "++" /\ ~is_lvalue(operand.node) THEN Failed(at)
        ELSE Wrapped(operand, LAMBDA x : <<"unary", Token(at), x>>)

parse_prefix(at, depth) ==
    LET token == Token(at) IN
    CASE token \in OperandTokens -> Parsed(literal_node(token), at + 1)
      [] token = "(" ->
            IF depth + 1 > PPHP_PARSE_DEPTH_MAX THEN Failed(at)
            ELSE consume(parse_expression(at + 1, depth + 1), ")")
      [] token = "new" ->
            IF Token(at + 1) \in OperandTokens /\ Token(at + 2) = "("
            THEN Wrapped(parse_call(literal_node(Token(at + 1)), <<>>, at + 3, depth),
                         LAMBDA call : <<"new", call[2], call[3]>>)
            ELSE Failed(at + 1)
      [] token \in Prefixes -> parse_unary(at, depth)
      [] token = "throw" -> Wrapped(parse_expression_precedence(at + 1, PREC_ASSIGN, depth),
                                    LAMBDA x : <<"throw", x>>)
      [] token = "isset" -> IF Token(at + 1) = "(" THEN parse_isset(None, at + 2, depth)
                            ELSE Failed(at + 1)
      [] token = "empty" -> IF Token(at + 1) = "("
                            THEN consume(Wrapped(parse_expression(at + 2, depth),
                                                 LAMBDA x : <<"empty", x>>), ")")
                            ELSE Failed(at + 1)
      [] OTHER -> Failed(at)

\* -> and ::, their names; -> also takes a variable or { expression }.
parse_member(left, op, at, depth) ==
    IF op = "->" /\ Token(at) = "{"
    THEN consume(Wrapped(parse_expression(at + 1, depth),
                         LAMBDA x : <<"member", op, left, x>>), "}")
    ELSE IF Token(at) \in OperandTokens
         THEN Parsed(<<"member", op, left, literal_node(Token(at))>>, at + 1)
         ELSE Failed(at)

parse_ternary(left, at, depth) ==
    LET then == IF Token(at) = ":" THEN Parsed(None, at) ELSE parse_expression(at, depth)
        colon == consume(then, ":")
    IN  IF ~colon.ok THEN colon
        ELSE Wrapped(parse_expression_precedence(colon.at, PREC_TERNARY, depth),
                     LAMBDA x : <<"ternary", left, colon.node, x>>)

\* Mutant: powers are grouped to the left.
PowerToTheLeft(op) == op \in Assignments \cup {"??"}

RightAssociative(op) == op \in Assignments \cup {"??", "**"}

parse_binary(left, op, prec, at, depth) ==
    IF op \in Assignments /\ ~is_lvalue(left) THEN Failed(at)
    ELSE Wrapped(parse_expression_precedence(
                     at, IF RightAssociative(op) THEN prec ELSE prec + 1, depth),
                 LAMBDA x : <<"binary", op, left, x>>)

\* `at` is the token after the operator.
parse_infix(left, op, prec, at, depth) ==
    CASE op = "(" -> parse_call(left, <<>>, at, depth)
      [] op = "[" -> consume(IF Token(at) = "]" THEN Parsed(<<"index", left, None>>, at)
                             ELSE Wrapped(parse_expression(at, depth),
                                          LAMBDA x : <<"index", left, x>>), "]")
      [] op \in {"->", "::"} -> parse_member(left, op, at, depth)
      [] op = "++" -> IF is_lvalue(left) THEN Parsed(<<"postfix", left>>, at) ELSE Failed(at)
      [] op = "?" -> parse_ternary(left, at, depth)
      [] OTHER -> parse_binary(left, op, prec, at, depth)

RECURSIVE Climb(_, _, _)
Climb(left, minimum, depth) ==
    LET op == Token(left.at)
        prec == precedence(op)
    IN  IF ~left.ok THEN left
        ELSE IF prec < minimum \/ prec = PREC_NONE THEN left
        ELSE Climb(parse_infix(left.node, op, prec, left.at + 1, depth), minimum, depth)

parse_expression_precedence(at, minimum, depth) ==
    Climb(parse_prefix(at, depth), minimum, depth)

\* The source is one expression.
Parse == LET parse == parse_expression(1, 0)
         IN  IF parse.ok /\ Token(parse.at) # "eof" THEN Failed(parse.at) ELSE parse

\* ------------------------------------------------------------ the sources

Openers == {"(", "[", "{"}
Closers == {")", "]", "}"}
Starts == OperandTokens \cup Prefixes \cup {"(", "new", "isset", "empty", "throw"}
Ends == OperandTokens \cup Closers \cup {"++"}
\* What may stand next to a token in some expression.
Adjacent(last, token) ==
    \/ last \in Ends /\ token \notin Starts \ {"(", "++", "+", "-"}
    \/ last \in Openers \cup {"?", ","} /\ token \in Starts \cup Closers \cup {":", "..."}
    \/ last \in {"->", "::"} /\ token \in OperandTokens \cup {"{"}
    \/ last \in {"isset", "empty"} /\ token = "("
    \/ last = "new" /\ token \in OperandTokens
    \/ last \notin Ends \ {"++"} /\ token \in Starts
Bounded == Prefixes \ {"+"}
Count(S) == Cardinality({k \in DOMAIN tokens : tokens[k] \in S})

Init == tokens = <<>>
Read(token) ==
    /\ Len(tokens) < MaxTokens
    /\ IF tokens = <<>> THEN token \in Starts ELSE Adjacent(tokens[Len(tokens)], token)
    /\ token \in Bounded => Count(Bounded) < MaxPrefixes
    /\ token \in Closers => Count(Openers) > Count(Closers)
    /\ tokens' = Append(tokens, token)
Next == \E token \in Alphabet : Read(token)
Spec == Init /\ [][Next]_tokens

-----------------------------------------------------------------------------
(* Properties.                                                             *)

Has(S) == \E k \in DOMAIN tokens : tokens[k] \in S
HowMany(token) == Cardinality({k \in DOMAIN tokens : tokens[k] = token})
Complete == tokens # <<>> /\ tokens[Len(tokens)] \in Ends
PhpTrees == Trees(tokens)

\* Sources on which the two are known to differ (README, section 5).  Two short ternaries mean the same grouped either way.
KnownDifference ==
    \/ Has({"instanceof"}) /\ Has({"!", "**"})
    \/ Has({"clone"}) /\ Has({"**"})
    \/ Has({"throw"}) /\ Has({"and", "or", "xor"})
    \/ HowMany("?") > 1

\* An expression that both accept is grouped as PHP groups it.
GroupsAsPhp ==
    (Complete /\ ~KnownDifference /\ Parse.ok) =>
        \A tree \in PhpTrees : Bare(tree) = Parse.node

\* The parser refuses no expression of PHP, except where PHP lets a variable
\* be assigned, counted or named in the middle of an expression.
AcceptsPhp ==
    (Complete /\ ~Has(Assignments \cup {"++", "instanceof", "new", "isset", "throw"})
        /\ Count({"("}) <= PPHP_PARSE_DEPTH_MAX /\ PhpTrees # {}) => Parse.ok
=============================================================================
