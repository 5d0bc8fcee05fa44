------------------------------ MODULE Numeric -------------------------------
(****************************************************************************)
(* The operators of src/value_ops.c: how a value becomes a number or a     *)
(* string, the arithmetic on numbers, and comparison.  A value is a tagged *)
(* tuple; strings are sequences of characters, because reading a number    *)
(* from one is what is modelled; a float is an exact fraction in lowest    *)
(* terms (rounding is left out); an array is the sequence of its entries.  *)
(****************************************************************************)
EXTENDS IntegerOps, Sequences, FiniteSets
LOCAL INSTANCE Folds
LOCAL INSTANCE Functions

CONSTANTS
    Width,              \* the bits of a pphp_int, a power of two
    MagnitudeMax,       \* UINT64_MAX
    StringLimit         \* PPHP_STR_MAX

ASSUME WidthAssumption == Max = 2^(Width - 1) - 1

Null == <<"null">>
False == <<"bool", FALSE>>
True == <<"bool", TRUE>>
IntVal(n) == <<"int", n>>
Text(s) == <<"string", s>>
Array(entries) == <<"array", entries>>
Error(what) == <<"error", what>>
IsNumber(v) == v[1] \in {"int", "float"}

\* Exact fractions.
GCD[a \in Nat, b \in Nat] == IF b = 0 THEN a ELSE GCD[b, a % b]
Magnitude(n) == IF n < 0 THEN -n ELSE n
Fraction(n, d) == LET g == GCD[Magnitude(n), Magnitude(d)]
                      s == IF d < 0 THEN -1 ELSE 1
                  IN  <<s * (n \div g), s * (d \div g)>>
Float(q) == <<"float", q[1], q[2]>>
Less(p, q) == p[1] * q[2] < q[1] * p[2]
Sign(p, q) == IF Less(p, q) THEN -1 ELSE IF Less(q, p) THEN 1 ELSE 0

\* --------------------------------------------------------------- strings

Digits == <<"0", "1", "2", "3", "4", "5", "6", "7", "8", "9">>
Digit == Range(Digits)
DigitOf == [c \in Digit |-> (CHOOSE d \in 1..10 : Digits[d] = c) - 1]
Space == {" "}           \* ' ', '\t', '\n', '\r'
SignChar == {"+", "-"}
Exponent == {"e", "E"}

\* The first position from i on whose character is not in S.
Span(s, i, S) == CHOOSE j \in i..(Len(s) + 1) :
                     /\ \A k \in i..(j - 1) : s[k] \in S
                     /\ j <= Len(s) => s[j] \notin S
At(s, i, S) == i <= Len(s) /\ s[i] \in S

DigitsOf(s, i, j) == [k \in 1..(j - i) |-> DigitOf[s[i + k - 1]]]
ValueOf(ds) == MapThenFoldSet(+, 0, LAMBDA k : ds[k] * 10^(Len(ds) - k),
                              LAMBDA S : CHOOSE k \in S : TRUE, DOMAIN ds)

\* The digit loop: it stops accumulating when uint64_t would overflow.
Accumulated[ds \in Seq(0..9)] ==
    IF ds = <<>> THEN [valid |-> TRUE, magnitude |-> 0]
    ELSE LET before == Accumulated[SubSeq(ds, 1, Len(ds) - 1)]
             digit == ds[Len(ds)]
         IN  IF before.valid /\ before.magnitude <= (MagnitudeMax - digit) \div 10
             THEN [before EXCEPT !.magnitude = @ * 10 + digit]
             ELSE [before EXCEPT !.valid = FALSE]

\* pphp_numeric: what a value is worth as a number.  `number` is exact.
NotNumeric == [ok |-> FALSE, is_integer |-> FALSE, exact |-> FALSE,
               out_of_range |-> FALSE, integer |-> 0, number |-> <<0, 0>>,
               status |-> "invalid"]
Status(s, consumed) == IF consumed <= Len(s) THEN "trailing" ELSE "exact"

\* Numbers are read as decimals <<m, e>>: m * 10^e.
\* The blanks and the sign before a number.
Prefix(s) ==
    LET Signs(start) == [sign |-> IF At(s, start, {"-"}) THEN -1 ELSE 1,
                         first |-> IF At(s, start, SignChar) THEN start + 1 ELSE start]
    IN  Signs(Span(s, 1, Space))

string_integer_exact(s, require_complete) ==
    LET Found(p, digits, end) ==
            [NotNumeric EXCEPT !.ok = TRUE, !.status = Status(s, end),
                               !.number = <<p.sign * ValueOf(digits), 0>>]
        Judged(p, found, read) ==
            IF ~read.valid \/ read.magnitude > Max + (IF p.sign = -1 THEN 1 ELSE 0)
            THEN [found EXCEPT !.out_of_range = TRUE]
            ELSE [found EXCEPT !.is_integer = TRUE, !.exact = TRUE,
                               !.integer = p.sign * read.magnitude]
        Read(p, digits, end) == Judged(p, Found(p, digits, end), Accumulated[digits])
        Ended(p, last, end) ==
            IF \/ last = p.first
               \/ At(s, last, {"."} \cup Exponent)
               \/ require_complete /\ end <= Len(s)
            THEN NotNumeric
            ELSE Read(p, DigitsOf(s, p.first, last), end)
        Scanned(p, last) == Ended(p, last, Span(s, last, Space))
        Number(p) == Scanned(p, Span(s, p.first, Digit))
    IN  Number(Prefix(s))

\* The exponent after the mantissa that ends before `ended`, if there is one.
ExponentFrom(s, ended) ==
    LET Read(power, end) ==
            IF At(s, ended, Exponent) /\ end > power
            THEN [scaled |-> TRUE, end |-> end,
                  scale |-> (IF At(s, ended + 1, {"-"}) THEN -1 ELSE 1)
                            * ValueOf(DigitsOf(s, power, end))]
            ELSE [scaled |-> FALSE, end |-> ended, scale |-> 0]
        Power(power) == Read(power, IF power <= Len(s) THEN Span(s, power, Digit) ELSE power)
    IN  Power(IF At(s, ended + 1, SignChar) THEN ended + 2 ELSE ended + 1)

floating_string_number(s, require_complete) ==
    LET Result(p, digits, point, ended, power, end) ==
            IF digits = <<>> \/ (require_complete /\ end <= Len(s)) THEN NotNumeric
            ELSE [NotNumeric EXCEPT
                     !.ok = TRUE,
                     !.is_integer = ended = point /\ ~power.scaled,
                     !.number = <<p.sign * ValueOf(digits),
                                  power.scale - (IF ended = point THEN 0 ELSE ended - point - 1)>>,
                     !.status = Status(s, end)]
        \* ended = point when there is no decimal point.
        Scaled(p, point, ended, power) ==
            Result(p, DigitsOf(s, p.first, point)
                      \o (IF ended = point THEN <<>> ELSE DigitsOf(s, point + 1, ended)),
                   point, ended, power, Span(s, power.end, Space))
        Ended(p, point, ended) == Scaled(p, point, ended, ExponentFrom(s, ended))
        Whole(p, point) ==
            Ended(p, point, IF At(s, point, {"."}) THEN Span(s, point + 1, Digit) ELSE point)
        Mantissa(p) == Whole(p, Span(s, p.first, Digit))
    IN  Mantissa(Prefix(s))

string_numeric(s, require_complete) ==
    LET Either(integer) == IF integer.ok THEN integer
                           ELSE floating_string_number(s, require_complete)
    IN  Either(string_integer_exact(s, require_complete))

\* A string that is not in the end a decimal small enough for a fraction is
\* not among the operands of the model.
DecimalFraction(d) == IF d[2] >= 0 THEN Fraction(d[1] * 10^d[2], 1)
                      ELSE Fraction(d[1], 10^(-d[2]))

pphp_format_integer(value) ==
    LET magnitude == IF value < 0 THEN -(value + 1) + 1 ELSE value
        Printed[n \in Nat] == IF n < 10 THEN <<Digits[n + 1]>>
                              ELSE Append(Printed[n \div 10], Digits[(n % 10) + 1])
    IN  (IF value < 0 THEN <<"-">> ELSE <<>>) \o Printed[magnitude]

\* ----------------------------------------------------------- conversions

\* Mutant: only the empty string is false.
TruthyZero(v) == v \notin {Null, False, IntVal(0), <<"float", 0, 1>>, Text(<<>>), Array(<<>>)}

pv_is_truthy(v) ==
    CASE v[1] = "null" -> FALSE
      [] v[1] = "bool" -> v[2]
      [] IsNumber(v) -> v[2] # 0
      [] v[1] = "string" -> v[2] \notin {<<>>, <<"0">>}
      [] v[1] = "array" -> v[2] # <<>>

Exact(n) == [NotNumeric EXCEPT !.ok = TRUE, !.is_integer = TRUE, !.exact = TRUE,
                               !.integer = n, !.number = <<n, 1>>]

pv_to_numeric(v, require_complete) ==
    LET Read(read) == IF read.ok THEN [read EXCEPT !.number = DecimalFraction(@)] ELSE read
    IN  CASE v[1] = "int" -> Exact(v[2])
          [] v[1] = "float" -> [NotNumeric EXCEPT !.ok = TRUE, !.number = <<v[2], v[3]>>]
          [] v = True -> Exact(1)
          [] v \in {False, Null} -> Exact(0)
          [] v[1] = "string" -> Read(string_numeric(v[2], require_complete))
          [] OTHER -> NotNumeric

\* pphp_format_float() of the operands: whole numbers and halves.
HalfNotation(n, d) == (IF n < 0 THEN <<"-">> ELSE <<>>)
                      \o pphp_format_integer(Magnitude(n) \div d)
                      \o (IF d = 2 THEN <<".", "5">> ELSE <<>>)

pv_to_string(v) ==
    CASE v \in {Null, False} -> <<>>
      [] v = True -> <<"1">>
      [] v[1] = "int" -> pphp_format_integer(v[2])
      [] v[1] = "float" -> HalfNotation(v[2], v[3])
      [] v[1] = "string" -> v[2]
      [] v[1] = "array" -> <<"A", "r", "r", "a", "y">>

pphp_number_to_integer(q, exact) ==
    IF Less(q, <<Min, 1>>) \/ ~Less(q, <<-Min, 1>>) THEN Overflow
    ELSE IF exact /\ q[2] # 1 THEN Overflow
    ELSE Store(Quotient(q[1], q[2]))

pphp_numeric_to_integer(numeric, exact) ==
    IF numeric.out_of_range THEN Overflow
    ELSE IF numeric.exact THEN Fits(numeric.integer)
    ELSE pphp_number_to_integer(numeric.number, exact)

numeric_result(q, integers) ==
    LET Fitting(integer) == IF integers /\ integer # Overflow THEN integer ELSE Float(q)
    IN  Fitting(pphp_number_to_integer(q, TRUE))

\* ------------------------------------------------------------ arithmetic

RECURSIVE PowerLoop(_, _, _)
PowerLoop(value, base, exponent) ==
    IF exponent = 0 THEN Fits(value)
    ELSE LET product == IF exponent % 2 = 1 THEN pphp_integer_multiply(value, base)
                        ELSE Fits(value)
             rest == exponent \div 2
             square == IF rest # 0 THEN pphp_integer_multiply(base, base) ELSE Fits(base)
         IN  IF product[1] # "int" THEN product
             ELSE IF square[1] # "int" THEN square
             ELSE PowerLoop(product[2], square[2], rest)
pphp_integer_power(base, exponent) ==
    IF exponent < 0 THEN Overflow ELSE PowerLoop(1, base, exponent)

\* The bits of an integer, and the integer of a word.
Word(n) == n % 2^Width
Signed(w) == IF w > Max THEN w - 2^Width ELSE w
Bit(n, k) == (Word(n) \div 2^k) % 2
Bitwise(left, right, Op(_, _)) ==
    LET bits == {k \in 0..(Width - 1) : Op(Bit(left, k), Bit(right, k)) = 1}
    IN  Signed(MapThenFoldSet(+, 0, LAMBDA k : 2^k,
                              LAMBDA S : CHOOSE k \in S : TRUE, bits))

ShiftDistance(distance) == Word(distance) % Width      \* `& (width - 1U)`
integer_shift_left(value, distance) ==
    Signed(Word(Word(value) * 2^ShiftDistance(distance)))

\* Mutant: the shift of a negative number rounds towards zero.
ShiftRightTruncates(value, distance) ==
    Quotient(value, 2^ShiftDistance(distance))

integer_shift_right(value, distance) ==
    LET shift == ShiftDistance(distance)
        magnitude == -value
        quotient == magnitude \div 2^shift + (IF magnitude % 2^shift # 0 THEN 1 ELSE 0)
    IN  IF shift = 0 THEN value
        ELSE IF value >= 0 THEN value \div 2^shift
        ELSE IF quotient = Max + 1 THEN Min ELSE -quotient

\* pphp_float_power() of the C library; the result is not looked into.
FloatPower(p, q) == <<"power", p, q>>

BitOperation(op, left, right) ==
    CASE op = "band" -> Bitwise(left, right, LAMBDA a, b : a * b)
      [] op = "bor" -> Bitwise(left, right, LAMBDA a, b : IF a + b > 0 THEN 1 ELSE 0)
      [] op = "bxor" -> Bitwise(left, right, LAMBDA a, b : (a + b) % 2)
      [] op = "shl" -> integer_shift_left(left, right)
      [] op = "shr" -> integer_shift_right(left, right)
BitOperations == {"band", "bor", "bxor", "shl", "shr"}

\* An integer result, or the float of the mathematical result.
OrFloat(integer, q) == IF integer = Overflow THEN Float(q) ELSE integer

Modulo(left, right) ==
    IF right = 0 THEN Error("modulo")
    ELSE IF pphp_integer_division_overflows(left, right) THEN IntVal(0)
    ELSE Store(Remainder(left, right))

integer_binary_float(op, left, right) ==
    CASE op = "add" -> OrFloat(pphp_integer_add(left, right), <<left + right, 1>>)
      [] op = "sub" -> OrFloat(pphp_integer_subtract(left, right), <<left - right, 1>>)
      [] op = "mul" -> OrFloat(pphp_integer_multiply(left, right), <<left * right, 1>>)
      [] op = "div" ->
            IF right = 0 THEN Error("division")
            ELSE IF /\ ~pphp_integer_division_overflows(left, right)
                    /\ Remainder(left, right) = 0
            THEN Store(Quotient(left, right))
            ELSE Float(Fraction(left, right))
      [] op = "mod" -> Modulo(left, right)
      [] op = "pow" ->
            LET OrPower(integer) == IF right >= 0 /\ integer[1] = "int" THEN integer
                                    ELSE FloatPower(<<left, 1>>, <<right, 1>>)
            IN  OrPower(pphp_integer_power(left, right))
      [] op \in BitOperations -> Store(BitOperation(op, left, right))

\* PV_CONCAT
Concat(left, right) ==
    LET joined == pv_to_string(left) \o pv_to_string(right) IN
    IF Len(joined) > StringLimit THEN Error("string") ELSE Text(joined)

\* The operations on numbers that are not both exact integers.
FloatOperation(op, left, right) ==
    LET a == left.number
        b == right.number
        integers == left.is_integer /\ right.is_integer
        Sum(n) == Fraction(a[1] * b[2] + n * a[2], a[2] * b[2])
        Divide(q) == numeric_result(q, integers /\ q[2] = 1)
        Integers(l, r) == IF Overflow \in {l, r} THEN Error("range")
                          ELSE IF op = "mod" THEN Modulo(l[2], r[2])
                          ELSE Store(BitOperation(op, l[2], r[2]))
    IN  CASE op = "add" -> numeric_result(Sum(b[1]), integers)
          [] op = "sub" -> numeric_result(Sum(-b[1]), integers)
          [] op = "mul" -> numeric_result(Fraction(a[1] * b[1], a[2] * b[2]), integers)
          [] op = "div" -> IF b[1] = 0 THEN Error("division")
                           ELSE Divide(Fraction(a[1] * b[2], a[2] * b[1]))
          [] op = "pow" -> FloatPower(a, b)
          [] op = "mod" /\ b[1] = 0 -> Error("modulo")
          [] OTHER -> Integers(pphp_numeric_to_integer(left, FALSE),
                               pphp_numeric_to_integer(right, FALSE))

pv_binary_operation(op, left, right) ==
    LET Operate(l, r) ==
            IF ~l.ok \/ ~r.ok THEN Error("operands")
            ELSE IF l.exact /\ r.exact THEN integer_binary_float(op, l.integer, r.integer)
            ELSE FloatOperation(op, l, r)
    IN  IF op = "concat" THEN Concat(left, right)
        ELSE Operate(pv_to_numeric(left, left[1] # "string"),
                     pv_to_numeric(right, right[1] # "string"))

\* execute_binary() warns for every string that is not a number throughout.
non_numeric_operands(left, right) ==
    {side \in {1, 2} :
        LET v == <<left, right>>[side] IN
        v[1] = "string" /\ string_numeric(v[2], FALSE).status # "exact"}

\* ------------------------------------------------------------ comparison

\* pvalue_type
TypeOrder(v) == CASE v[1] = "null" -> 0
                  [] v[1] = "bool" -> IF v[2] THEN 2 ELSE 1
                  [] v[1] = "int" -> 3
                  [] v[1] = "float" -> 4
                  [] v[1] = "string" -> 5
                  [] v[1] = "array" -> 6

Order(m, n) == IF m < n THEN -1 ELSE IF m > n THEN 1 ELSE 0
Truth(v) == IF pv_is_truthy(v) THEN 1 ELSE 0

\* memcmp() and the lengths.  Characters are ordered as in ASCII.
Ascii == <<" ", "+", "-", ".", "0", "1", "2", "3", "4", "5", "6", "7", "8", "9",
           "A", "E", "a", "e", "r", "x", "y">>
Code == [c \in Range(Ascii) |-> CHOOSE n \in DOMAIN Ascii : Ascii[n] = c]
CompareBytes(s, t) ==
    LET shortest == IF Len(s) < Len(t) THEN Len(s) ELSE Len(t)
        differ == {k \in 1..shortest : s[k] # t[k]}
    IN  IF differ = {} THEN Order(Len(s), Len(t))
        ELSE LET k == CHOOSE k \in differ : \A j \in differ : k <= j
             IN  Order(Code[s[k]], Code[t[k]])

\* The first of the results that is not 0.
FirstOf(results) ==
    LET decisive == {k \in DOMAIN results : results[k] # 0}
    IN  IF decisive = {} THEN 0
        ELSE results[CHOOSE k \in decisive : \A j \in decisive : k <= j]

Uncomparable == 1

\* Objects, closures and resources are not among the operands.
RECURSIVE pv_compare(_, _, _)

CompareArrays(left, right, strict) ==
    LET Element(k) ==
            LET same == {j \in DOMAIN right : right[j][1] = left[k][1]}
            IN  IF same = {} THEN Uncomparable
                ELSE pv_compare(left[k][2], right[CHOOSE j \in same : TRUE][2], FALSE)
        Pairwise(k) == FirstOf(<<pv_compare(left[k][1], right[k][1], TRUE),
                                 pv_compare(left[k][2], right[k][2], TRUE)>>)
    IN  IF Len(left) # Len(right) THEN Order(Len(left), Len(right))
        ELSE FirstOf([k \in DOMAIN left |-> IF strict THEN Pairwise(k) ELSE Element(k)])

pv_compare(left, right, strict) ==
    LET Numbers(l, r) ==
            IF l.ok /\ r.ok
            THEN IF l.exact /\ r.exact THEN Order(l.integer, r.integer)
                 ELSE Sign(l.number, r.number)
            ELSE IF left[1] = "string" /\ right[1] = "string"
            THEN CompareBytes(left[2], right[2])
            ELSE Order(TypeOrder(left), TypeOrder(right))
    IN  IF strict /\ TypeOrder(left) # TypeOrder(right)
        THEN Order(TypeOrder(left), TypeOrder(right))
        ELSE IF left[1] = "array" /\ right[1] = "array"
        THEN CompareArrays(left[2], right[2], strict)
        ELSE IF {left[1], right[1]} \cap {"null", "bool"} # {}
        THEN Order(Truth(left), Truth(right))
        ELSE Numbers(pv_to_numeric(left, TRUE), pv_to_numeric(right, TRUE))

Comparisons == {"eq", "ne", "ident", "nident", "lt", "le", "gt", "ge", "cmp"}

\* The results of pv_compare() an operator holds for.
Accepts == [eq |-> {0}, ident |-> {0}, ne |-> {-1, 1}, nident |-> {-1, 1},
            lt |-> {-1}, le |-> {-1, 0}, gt |-> {1}, ge |-> {0, 1}]

execute_compare(op, left, right) ==
    LET Holds(compared) == IF op = "cmp" THEN IntVal(compared)
                           ELSE <<"bool", compared \in Accepts[op]>>
    IN  Holds(pv_compare(left, right, op \in {"ident", "nident"}))

\* --------------------------------------------------- the virtual machine

CONSTANT Operands               \* the values programs combine
Operations == {"add", "sub", "mul", "div", "mod", "pow", "concat"} \cup BitOperations

VARIABLES
    operands,                   \* the two values on the stack
    operation,                  \* the operator that was applied, or none
    result                      \* what it left
vars == <<operands, operation, result>>

Nothing == <<"nothing">>

Init == /\ operands \in Operands \X Operands
        /\ operation = "none"
        /\ result = Nothing

execute(op) ==
    /\ operation = "none"
    /\ operation' = op
    /\ result' = IF op \in Comparisons
                 THEN execute_compare(op, operands[1], operands[2])
                 ELSE pv_binary_operation(op, operands[1], operands[2])
    /\ UNCHANGED operands

Next == \E op \in Operations \cup Comparisons : execute(op)
Spec == Init /\ [][Next]_vars
=============================================================================
