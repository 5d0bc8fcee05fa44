----------------------------- MODULE MCLanguage -----------------------------
(***************************************************************************)
(* Instances of the modules about the language: operators and numeric      *)
(* strings, the expression parser and the bytecode files.  A behaviour is  *)
(* of one part, chosen at the start:                                       *)
(*   "operators"  every operator on every pair of a set of awkward         *)
(*                operands; integers have four bits;                       *)
(*   "numbers"    every short string, read as a number of six bits;        *)
(*   "operations", "calls"                                                 *)
(*                every short expression over one of two alphabets;        *)
(*   "bytecode"   three compiled modules, written, perhaps cut short or    *)
(*                damaged in any one byte, and loaded.                     *)
(* The variables of the other parts keep their first values.               *)
(***************************************************************************)
EXTENDS NumericReference, TLC

CONSTANT MaxLength     \* bound: the length of a string read as a number

VARIABLES part,
          text,        \* a string, typed character by character
          tokens,
          source, file, fault, loaded

pbcVars == <<source, file, fault, loaded>>
allVars == <<part, vars, text, tokens, pbcVars>>

-----------------------------------------------------------------------------
(* Operands.                                                               *)

Strings == {<<>>, <<"0">>, <<"1">>, <<"0", "1">>, <<" ", "1">>, <<"1", " ">>, <<"1", "x">>,
            <<"x">>, <<"-", "8">>, <<"8">>, <<"1", ".", "5">>, <<"1", "e", "1">>,
            <<"1", "e">>, <<".">>, <<"-", "9">>}
Entry(k, n) == <<IntVal(k), IntVal(n)>>
Arrays == {Array(<<>>), Array(<<Entry(0, 1)>>), Array(<<Entry(1, 1)>>),
           Array(<<Entry(0, 1), Entry(1, 0)>>), Array(<<Entry(1, 0), Entry(0, 1)>>)}
Floats == {Float(<<1, 2>>), Float(<<-3, 2>>), Float(<<8, 1>>), Float(<<1, 1>>),
           Float(<<-17, 2>>), Float(<<0, 1>>)}
MCOperands == {Null, False, True} \cup {IntVal(n) : n \in Ints} \cup Floats
              \cup {Text(s) : s \in Strings} \cup Arrays

Wide == INSTANCE NumericReference WITH
  Max <- 31, Width <- 6, MagnitudeMax <- 63, Operands <- {}

-----------------------------------------------------------------------------
(* Expressions.                                                            *)

Operators == INSTANCE ExpressionParser WITH
  Alphabet <- {"a", "(", ")", "!", "-", "(int)", "clone", "throw", "or", "and", "=", "?", ":",
               "??", "||", "&&", "&", "==", "<", ".", "<<", "*", "instanceof", "**"},
  MaxTokens <- 7, MaxPrefixes <- 1, PPHP_PARSE_DEPTH_MAX <- 1

Calls == INSTANCE ExpressionParser WITH
  Alphabet <- {"a", "B", "(", ")", "[", "]", "{", "}", "->", "::", "++", "-", "**", "=", "new",
               "isset", "empty", ",", "...", "??"},
  MaxTokens <- 6, MaxPrefixes <- 2, PPHP_PARSE_DEPTH_MAX <- 2

-----------------------------------------------------------------------------
(* Modules: constants, a branch and a catch; a conditional function and a  *)
(* closure; a class.                                                       *)

Str(bytes) == <<"string", bytes>>
NameE == <<69>>
NameA == <<65>>
NameF == <<102>>
NameM == <<109>>
NameP == <<112>>
NameX == <<120>>
ClosureName == <<123, 99, 108, 111, 115, 117, 114, 101, 35, 50, 125>>
Proto == [name |-> NameM, n_params |-> 0, n_required |-> 0, variadic |-> FALSE,
          is_method |-> FALSE, conditional |-> FALSE, max_stack |-> 2,
          code |-> <<1>>, locals |-> <<>>, constants |-> <<>>, catches |-> <<>>]

\* $x = -1; if ($x) ...; try { ... } catch (E $x) { ... }
Branches ==
    <<[Proto EXCEPT !.code = <<21, 1, 0,  23, 0,  22, 0,  66, 3, 0,  19, 200,  0,  1>>,
                    !.locals = <<NameX>>,
                    !.constants = <<Str(NameE), <<"int", -1>>,
                                    <<"float", <<0, 0, 0, 0, 0, 0, 240, 63>>>>>>,
                    !.catches = <<[try_start |-> 0, try_end |-> 7, handler_pc |-> 12,
                                   class |-> 0, slot |-> 0],
                                  [try_start |-> 5, try_end |-> 14, handler_pc |-> 13,
                                   class |-> 65535, slot |-> 255]>>]>>

\* function f($x) { return $x; } function () use ($x) {};
Functions ==
    <<[Proto EXCEPT !.code = <<132, 1, 0,  128, 2, 0, 1, 0, 0,  2,  1>>, !.locals = <<NameX>>],
      [Proto EXCEPT !.name = NameF, !.n_params = 1, !.n_required = 1, !.conditional = TRUE,
                    !.locals = <<NameX>>, !.code = <<22, 0,  82>>],
      [Proto EXCEPT !.name = ClosureName, !.locals = <<NameX>>,
                    !.code = <<83>>]>>

\* class A { public $p; function m() {} } foreach (...) (new A())->m();
Classes ==
    <<[Proto EXCEPT !.code = <<134, 0, 0, 255, 255, 0,  136, 2, 0, 1,  135, 1, 0, 1, 0, 1,
                               138,  112, 0, 0, 0,  115, 1, 0, 0,  103, 0, 0, 0,  1>>,
                    !.constants = <<Str(NameA), Str(NameM), Str(NameP)>>],
      [Proto EXCEPT !.name = NameA \o <<58, 58>> \o NameM, !.is_method = TRUE,
                    !.locals = <<NameX>>, !.code = <<83>>]>>

Bytecode == INSTANCE Pbc WITH
  Modules <- {Branches, Functions, Classes},
  Damage <- {0, 1, 2, 3, 4, 8, 16, 254, 255, 64, 128}

-----------------------------------------------------------------------------
MCInit == /\ part \in {"operators", "numbers", "operations", "calls", "bytecode"}
          /\ Init /\ (part # "operators" => operands = <<Null, Null>>)
          /\ text = <<>> /\ Operators!Init
          /\ Bytecode!Init /\ (part # "bytecode" => source = Branches)

Type(c) == Len(text) < MaxLength /\ text' = Append(text, c)

MCNext ==
  \/ part = "operators" /\ Next /\ UNCHANGED <<part, text, tokens, pbcVars>>
  \/ part = "numbers" /\ (\E c \in {" ", "-", "1", "6", ".", "e", "x"} : Type(c))
       /\ UNCHANGED <<part, vars, tokens, pbcVars>>
  \/ part = "operations" /\ Operators!Next /\ UNCHANGED <<part, vars, text, pbcVars>>
  \/ part = "calls" /\ Calls!Next /\ UNCHANGED <<part, vars, text, pbcVars>>
  \/ part = "bytecode" /\ Bytecode!Next /\ UNCHANGED <<part, vars, text, tokens>>

MCSpec == MCInit /\ [][MCNext]_allVars

-----------------------------------------------------------------------------
\* string_numeric() reads from a string exactly the longest number the grammar
\* of PHP finds at its beginning, and asked for the whole string it refuses the
\* others.
NumericStringsAsPhp == part = "numbers" => Wide!ReadsAsPhp(text)

\* An expression that both accept is grouped as PHP groups it, whatever
\* operators, prefixes, calls and subscripts it is made of (parse_precedence,
\* parse_unary, parse_postfix).
GroupsAsPhp == /\ part = "operations" => Operators!GroupsAsPhp
               /\ part = "calls" => Calls!GroupsAsPhp

\* The parser refuses no expression of PHP, except where PHP lets a variable
\* be assigned, counted or named in the middle of an expression.
AcceptsPhp == part = "operations" => Operators!AcceptsPhp

\* A module that was written is loaded as it was (pphp_pbc_write_file,
\* pphp_pbc_load).
RoundTrip == part = "bytecode" => Bytecode!RoundTrip

\* A file that was cut short is refused, and whatever byte of a file is wrong,
\* a module that is accepted has only code the interpreter can execute.
DamageContained == part = "bytecode" => Bytecode!DamageContained

\* Operators give PHP's results on every pair of operands and numbers are read
\* from and written into strings as PHP does (pv_binary_operation,
\* string_numeric); comparisons order values as PHP does and agree with each
\* other in both directions, and === compares type and value (pv_compare).
OperatorsAsPhp ==
  /\ TypeOK /\ ArithmeticAsPhp /\ IntegersReadBack /\ NumericStringsAsPhp
  /\ CompareAsPhp /\ EqualityIsSymmetric /\ IdenticalValues

\* Expressions are grouped as PHP groups them and PHP's are accepted.
ParsesAsPhp == GroupsAsPhp /\ AcceptsPhp

\* What is loaded is what was written; of a file that was cut or damaged only
\* what the interpreter can execute is ever accepted (pphp_pbc_load).
LoadsWhatWasWritten == RoundTrip /\ DamageContained
=============================================================================
