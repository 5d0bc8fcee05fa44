-------------------------- MODULE NumericReference --------------------------
(****************************************************************************)
(* The operators of PHP 8, as its manual defines them: numeric strings by  *)
(* their grammar, arithmetic by the mathematical result, comparison by the *)
(* table of types.  Nothing here comes from the implementation.            *)
(****************************************************************************)
EXTENDS Numeric

\* ---- the grammar of numeric strings
AllIn(s, S) == \A k \in DOMAIN s : s[k] \in S
Cut(s, i, j) == SubSeq(s, i, j)
LNUM(s) == s # <<>> /\ AllIn(s, Digit)
DNUM(s) == \E k \in DOMAIN s : /\ s[k] = "." /\ Len(s) > 1
                               /\ AllIn(Cut(s, 1, k - 1) \o Cut(s, k + 1, Len(s)), Digit)
Unsigned(s) == IF s # <<>> /\ s[1] \in SignChar THEN Tail(s) ELSE s
EXPONENT(s) == \E k \in DOMAIN s : /\ s[k] \in Exponent
                                   /\ LNUM(Cut(s, 1, k - 1)) \/ DNUM(Cut(s, 1, k - 1))
                                   /\ LNUM(Unsigned(Cut(s, k + 1, Len(s))))
Literal(s) == LET u == Unsigned(s) IN LNUM(u) \/ DNUM(u) \/ EXPONENT(u)

\* A string is numeric up to position j when blanks and a literal end there.
NumericUpTo(s, j) == \E i \in 0..j : AllIn(Cut(s, 1, i), Space) /\ Literal(Cut(s, i + 1, j))
LeadingNumeric(s) == \E j \in DOMAIN s : NumericUpTo(s, j)
LiteralEnd(s) == CHOOSE j \in DOMAIN s : /\ NumericUpTo(s, j)
                                         /\ \A k \in DOMAIN s : NumericUpTo(s, k) => k <= j
LiteralOf(s) == LET body == Cut(s, 1, LiteralEnd(s))
                    i == CHOOSE i \in 1..Len(body) : /\ AllIn(Cut(body, 1, i - 1), Space)
                                                     /\ body[i] \notin Space
                IN  Cut(body, i, Len(body))
NumericString(s) == LeadingNumeric(s) /\ AllIn(Cut(s, LiteralEnd(s) + 1, Len(s)), Space)

\* The value of a literal, a decimal <<m, e>>, and whether it is an integer.
LiteralValue(s) ==
    LET u == Unsigned(s)
        e == IF EXPONENT(u) THEN CHOOSE k \in DOMAIN u : u[k] \in Exponent ELSE Len(u) + 1
        mantissa == Cut(u, 1, e - 1)
        digits == SelectSeq(mantissa, LAMBDA c : c # ".")
        decimals == IF DNUM(mantissa)
                    THEN Len(mantissa) - (CHOOSE k \in DOMAIN mantissa : mantissa[k] = ".")
                    ELSE 0
        power == Cut(u, e + 1, Len(u))
        Number(ds) == ValueOf(DigitsOf(ds, 1, Len(ds) + 1))
    IN  <<(IF s[1] = "-" THEN -1 ELSE 1) * Number(digits),
          (IF power = <<>> THEN 0
           ELSE (IF power[1] = "-" THEN -1 ELSE 1) * Number(Unsigned(power))) - decimals>>
LiteralIsInteger(s) == LNUM(Unsigned(s)) /\ LiteralValue(s)[1] \in Ints

\* ---- arithmetic
NumericOperand(v) == \/ v[1] \in {"null", "bool", "int", "float"}
                     \/ v[1] = "string" /\ LeadingNumeric(v[2])
\* The integer or the fraction an operand is worth.
Worth(v) ==
    LET Number(literal) == IF LiteralIsInteger(literal) THEN IntVal(LiteralValue(literal)[1])
                           ELSE Float(DecimalFraction(LiteralValue(literal)))
    IN  CASE v[1] = "null" -> IntVal(0)
          [] v[1] = "bool" -> IntVal(IF v[2] THEN 1 ELSE 0)
          [] IsNumber(v) -> v
          [] v[1] = "string" -> Number(LiteralOf(v[2]))
Q(v) == IF v[1] = "int" THEN <<v[2], 1>> ELSE <<v[2], v[3]>>
\* The result of two integers is an integer when it is one that fits.
Answer(q, l, r) == IF l[1] = "int" /\ r[1] = "int" /\ q[2] = 1 /\ q[1] \in Ints
                   THEN IntVal(q[1]) ELSE Float(q)
\* (int) of a number in range drops its fraction.
Whole(v) == Quotient(Q(v)[1], Q(v)[2])
InRange(v) == Min * Q(v)[2] <= Q(v)[1] /\ Q(v)[1] < (Max + 1) * Q(v)[2]

\* 0 ** 0 is 1 in PHP and undefined in TLA+.
Power(b, e) == IF e = 0 THEN 1 ELSE b^e

PhpArithmetic(op, l, r) ==
    LET a == Q(l)
        b == Q(r)
    IN  CASE op = "add" -> Answer(Fraction(a[1] * b[2] + b[1] * a[2], a[2] * b[2]), l, r)
          [] op = "sub" -> Answer(Fraction(a[1] * b[2] - b[1] * a[2], a[2] * b[2]), l, r)
          [] op = "mul" -> Answer(Fraction(a[1] * b[1], a[2] * b[2]), l, r)
          [] op = "div" -> IF b[1] = 0 THEN Error("division")
                           ELSE Answer(Fraction(a[1] * b[2], a[2] * b[1]), l, r)
          [] op = "mod" -> IF Whole(r) = 0 THEN Error("modulo")
                           ELSE IntVal(Remainder(Whole(l), Whole(r)))
          [] op = "pow" -> IF /\ l[1] = "int" /\ r[1] = "int" /\ r[2] >= 0
                              /\ Power(l[2], r[2]) \in Ints
                           THEN IntVal(Power(l[2], r[2])) ELSE FloatPower(a, b)
          [] op \in {"band", "bor", "bxor"} -> IntVal(BitOperation(op, Whole(l), Whole(r)))
          [] op = "shl" -> IF Whole(r) < 0 THEN Error("shift")
                           ELSE IF Whole(r) >= Width THEN IntVal(0)
                           ELSE IntVal(Signed(Word(Whole(l) * 2^Whole(r))))
          [] op = "shr" -> IF Whole(r) < 0 THEN Error("shift")
                           ELSE IF Whole(r) >= Width
                           THEN IntVal(IF Whole(l) < 0 THEN -1 ELSE 0)
                           ELSE IntVal(Whole(l) \div 2^Whole(r))

\* ---- comparison
PhpCompareNumbers(l, r) == Sign(Q(l), Q(r))
RECURSIVE PhpCompare(_, _)
PhpCompare(left, right) ==
    LET types == {left[1], right[1]}
        Bool(v) == IF v \in {Null, False, IntVal(0), <<"float", 0, 1>>, Text(<<>>),
                             Text(<<"0">>), Array(<<>>)} THEN 0 ELSE 1
        Numeral(v) == IsNumber(v) \/ (v[1] = "string" /\ NumericString(v[2]))
    IN  CASE types = {"null", "string"} \/ types = {"null"} ->
                CompareBytes(pv_to_string(left), pv_to_string(right))
          [] types # {"null", "string"} /\ types \cap {"null", "bool"} # {}
             /\ types # {"null"} -> Bool(left) - Bool(right)
          [] types = {"array"} ->
                IF Len(left[2]) # Len(right[2]) THEN Order(Len(left[2]), Len(right[2]))
                ELSE FirstOf([k \in DOMAIN left[2] |->
                        LET found == {j \in DOMAIN right[2] : right[2][j][1] = left[2][k][1]}
                        IN  IF found = {} THEN 1
                            ELSE PhpCompare(left[2][k][2],
                                            right[2][CHOOSE j \in found : TRUE][2])])
          [] "array" \in types /\ types \subseteq {"int", "float", "string", "array"}
             /\ types # {"array"} -> IF left[1] = "array" THEN 1 ELSE -1
          [] types \subseteq {"int", "float", "string"} ->
                IF Numeral(left) /\ Numeral(right)
                THEN PhpCompareNumbers(Worth(left), Worth(right))
                ELSE CompareBytes(pv_to_string(left), pv_to_string(right))

-----------------------------------------------------------------------------
(* Properties.                                                             *)

Left == operands[1]
Right == operands[2]
Ran(ops) == operation \in ops
BothNumeric == NumericOperand(Left) /\ NumericOperand(Right)
MixesTextAndNumber(l, r) == /\ \E v \in {l, r} : IsNumber(v)
                            /\ \E v \in {l, r} : v[1] = "string" /\ ~NumericString(v[2])
NullAndText(l, r) == {l[1], r[1]} = {"null", "string"}
TwoTexts(l, r) == {l[1], r[1]} = {"string"}
ShiftOutside == /\ Ran({"shl", "shr"}) /\ BothNumeric
                /\ Whole(Worth(Right)) \notin 0..(Width - 1)

\* "1e": an integer and the beginning of an exponent.
BareExponent(v) == /\ v[1] = "string" /\ LeadingNumeric(v[2])
                   /\ At(v[2], LiteralEnd(v[2]) + 1, Exponent)
PowerOfBareExponent == Ran({"pow"}) /\ (BareExponent(Left) \/ BareExponent(Right))

\* PHP joins two arrays with + and combines two strings byte by byte with &, |
\* and ^.  Here arrays are refused and strings are read as numbers.
NotOnNumbers == \/ Ran({"add"}) /\ {Left[1], Right[1]} = {"array"}
                \/ Ran({"band", "bor", "bxor"}) /\ TwoTexts(Left, Right)

\* Operators yield integers, floats, booleans, strings or a thrown error, and
\* never the outcome of an integer operation that C leaves undefined.
TypeOK == /\ operands \in Operands \X Operands
          /\ operation \in Operations \cup Comparisons \cup {"none"}
          /\ result[1] \in {"nothing", "int", "float", "power", "bool", "string", "error"}
          /\ result[1] = "int" => result[2] \in Ints

\* Arithmetic is that of PHP whatever the operands are, numeric strings and the
\* edges of the integers included: two integers yield the integer when it fits
\* and the float of the same value when not; an operand that is no number is an
\* error; the smallest integer divided by -1 is a float and its remainder 0.
\* Left out, as known differences (README, section 5): shifts by less than
\* nothing or by the width and more, powers of strings such as "1e", the union
\* of arrays and &, | and ^ of two strings.
\* Integers out of range in an integer operation are an error of this runtime.
ArithmeticAsPhp ==
    Ran(Operations \ {"concat"}) /\ ~NotOnNumbers =>
        IF ~BothNumeric THEN result = Error("operands")
        ELSE LET whole == operation \in BitOperations \cup {"mod"}
                 Answered(l, r) ==
                     IF whole /\ (~InRange(l) \/ ~InRange(r))
                     THEN result \in {Error("range"), Error("modulo")}
                     ELSE \/ ShiftOutside \/ PowerOfBareExponent
                          \/ result = PhpArithmetic(operation, l, r)
             IN  Answered(Worth(Left), Worth(Right))

\* An integer that is written into a string reads back as the same integer, the
\* smallest one included.
IntegersReadBack ==
    (Ran({"concat"}) /\ Left[1] = "int" /\ Right = Text(<<>>)) =>
        /\ result[1] = "string"
        /\ pv_to_numeric(result, TRUE) = [Exact(Left[2]) EXCEPT !.status = "exact"]

\* <=>, == and the other comparisons order values as PHP does.  Known
\* differences: null with a string, and a number with a string that is none.
CompareAsPhp ==
    (Ran({"cmp"}) /\ ~NullAndText(Left, Right) /\ ~MixesTextAndNumber(Left, Right)) =>
        result = IntVal(PhpCompare(Left, Right))

\* == holds in both directions or in none, and then neither < nor > does.
EqualityIsSymmetric ==
    Ran({"eq"}) =>
        /\ result = execute_compare("eq", Right, Left)
        /\ (result = True) = (execute_compare("lt", Left, Right) = False
                              /\ execute_compare("gt", Left, Right) = False)
        /\ \/ execute_compare("cmp", Left, Right)[2] = -execute_compare("cmp", Right, Left)[2]
           \/ Left[1] = "array" /\ Right[1] = "array"

\* === is equality of type and value (of two strings: a known difference).
IdenticalValues ==
    (Ran({"ident"}) /\ ~TwoTexts(Left, Right)) => result = <<"bool", Left = Right>>

\* string_numeric() reads from a string exactly the longest number the grammar
\* of PHP finds at its beginning: its value, whether it is an integer that fits,
\* and whether anything but blanks follows; asked for the whole string it
\* refuses the others.
ReadsAsPhp(s) ==
    LET Agree(prefix, complete, literal) ==
            /\ prefix.ok = LeadingNumeric(s)
            /\ complete.ok = NumericString(s)
            /\ complete.ok => complete = prefix
            /\ prefix.ok =>
                  /\ prefix.number = LiteralValue(literal)
                  /\ (prefix.is_integer /\ prefix.number[1] \in Ints) = LiteralIsInteger(literal)
                  /\ prefix.exact => prefix.integer = LiteralValue(literal)[1]
                  /\ (prefix.status = "exact") = NumericString(s)
    IN  Agree(string_numeric(s, FALSE), string_numeric(s, TRUE), LiteralOf(s))
=============================================================================
