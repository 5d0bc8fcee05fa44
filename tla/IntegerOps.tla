----------------------------- MODULE IntegerOps -----------------------------
(****************************************************************************)
(* The overflow-checked integer operations of src/value_ops.c.  pphp_int   *)
(* has 32 or 64 bits; Max is PPHP_INT_MAXIMUM and everything here is for   *)
(* any Max.  An operation either yields an integer or tells its caller     *)
(* that the result does not fit; signed overflow inside the operation      *)
(* would be undefined behaviour, which is a third outcome.                 *)
(****************************************************************************)
EXTENDS Integers, TLAPS

CONSTANT Max                    \* PPHP_INT_MAXIMUM
ASSUME MaxAssumption == Max \in Nat \ {0}

Min == -Max - 1                 \* PPHP_INT_MINIMUM
Ints == Min..Max                \* the values of a pphp_int

Fits(n) == <<"int", n>>
Overflow == <<"overflow">>
Undefined == <<"undefined">>

\* `*result = e`: the expression is evaluated in pphp_int arithmetic.
Store(n) == IF n \in Ints THEN Fits(n) ELSE Undefined

\* The quotient of C rounds towards zero.
Quotient(a, b) ==
    IF b > 0 THEN IF a >= 0 THEN a \div b ELSE -((-a) \div b)
             ELSE IF a >= 0 THEN -(a \div (-b)) ELSE (-a) \div (-b)
Remainder(a, b) == a - b * Quotient(a, b)

pphp_integer_add(left, right) ==
    IF \/ right > 0 /\ left > Max - right
       \/ right < 0 /\ left < Min - right
    THEN Overflow
    ELSE Store(left + right)

pphp_integer_subtract(left, right) ==
    IF \/ right > 0 /\ left < Min + right
       \/ right < 0 /\ left > Max + right
    THEN Overflow
    ELSE Store(left - right)

pphp_integer_multiply(left, right) ==
    IF \/ /\ left > 0
          /\ \/ right > 0 /\ left > Quotient(Max, right)
             \/ right < 0 /\ right < Quotient(Min, left)
       \/ /\ left < 0
          /\ \/ right > 0 /\ left < Quotient(Min, right)
             \/ right < 0 /\ left < Quotient(Max, right)
    THEN Overflow
    ELSE Store(left * right)

pphp_integer_negate(value) ==
    IF value = Min THEN Overflow ELSE Store(-value)

pphp_integer_division_overflows(left, right) == left = Min /\ right = -1

\* What the three operations promise: the mathematical result when it fits.
Exactly(n) == IF n \in Ints THEN Fits(n) ELSE Overflow

-----------------------------------------------------------------------------
(* The checks are exact for every width: no operation overflows undetected,*)
(* none refuses a result that fits, and none evaluates an expression of    *)
(* undefined value on the way.                                             *)

\* The sum of pphp_integer_add() is the mathematical one, or is refused.
THEOREM AddExact ==
    \A left, right \in Ints : pphp_integer_add(left, right) = Exactly(left + right)
  BY MaxAssumption DEF pphp_integer_add, Exactly, Store, Fits, Overflow, Ints, Min

\* The difference of pphp_integer_subtract() likewise.
THEOREM SubtractExact ==
    \A left, right \in Ints :
        pphp_integer_subtract(left, right) = Exactly(left - right)
  BY MaxAssumption DEF pphp_integer_subtract, Exactly, Store, Fits, Overflow, Ints, Min

\* pphp_integer_negate() refuses the one integer without an opposite.
THEOREM NegateExact ==
    \A value \in Ints : pphp_integer_negate(value) = Exactly(-value)
  BY MaxAssumption DEF pphp_integer_negate, Exactly, Store, Fits, Overflow, Ints, Min

\* Division by a positive number, as multiplication sees it.
LEMMA DivBounds ==
    ASSUME NEW a \in Nat, NEW b \in Nat \ {0}
    PROVE  /\ a \div b \in Nat
           /\ b * (a \div b) <= a
           /\ a < b * (a \div b) + b
  OBVIOUS

\* An integer above a quotient is above the dividend when multiplied back.
LEMMA ProductAbove ==
    ASSUME NEW a \in Nat, NEW b \in Nat \ {0}, NEW n \in Nat
    PROVE  n > a \div b <=> n * b > a
  <1> DEFINE q == a \div b
  <1>1. q \in Nat /\ b * q <= a /\ a < b * q + b  BY DivBounds
  <1> HIDE DEF q
  <1>2. ASSUME n > q PROVE n * b > a
    <2>1. n >= q + 1  BY <1>1, <1>2
    <2>2. n * b >= (q + 1) * b  BY <2>1, <1>1
    <2>3. (q + 1) * b = b * q + b  BY <1>1
    <2> QED  BY <2>2, <2>3, <1>1
  <1>3. ASSUME n * b > a PROVE n > q
    <2>1. SUFFICES ASSUME n <= q PROVE FALSE  BY <1>1
    <2>2. n * b <= q * b  BY <2>1, <1>1
    <2>3. q * b = b * q  BY <1>1
    <2> QED  BY <2>2, <2>3, <1>1, <1>3
  <1> QED  BY <1>2, <1>3 DEF q

\* The product of pphp_integer_multiply() likewise, in all four quadrants: the
\* quotients it compares with round towards zero, and on each side that is the
\* direction the comparison needs.
THEOREM MultiplyExact ==
    \A left, right \in Ints :
        pphp_integer_multiply(left, right) = Exactly(left * right)
  <1> SUFFICES ASSUME NEW left \in Ints, NEW right \in Ints
               PROVE  pphp_integer_multiply(left, right) = Exactly(left * right)
    OBVIOUS
  <1> USE MaxAssumption
  <1>0. /\ left \in Int /\ right \in Int /\ Min \in Int
        /\ left * right \in Int
        /\ -Min = Max + 1
        /\ \A n \in Int : n \in Ints <=> Min <= n /\ n <= Max
    BY DEF Ints, Min
  <1>1. CASE left = 0 \/ right = 0
    <2>1. left * right = 0  BY <1>0, <1>1
    <2> QED  BY <1>0, <1>1, <2>1
             DEF pphp_integer_multiply, Exactly, Store, Quotient, Min
  <1>2. CASE left > 0 /\ right > 0
    <2>1. Quotient(Max, right) = Max \div right  BY <1>0, <1>2 DEF Quotient
    <2>2. left > Max \div right <=> left * right > Max
      BY <1>0, <1>2, ProductAbove
    <2>3. left * right >= Min  BY <1>0, <1>2 DEF Min
    <2> QED  BY <1>0, <1>2, <2>1, <2>2, <2>3
             DEF pphp_integer_multiply, Exactly, Store
  <1>3. CASE left > 0 /\ right < 0
    <2>1. Quotient(Min, left) = -((Max + 1) \div left)
      BY <1>0, <1>3 DEF Quotient, Min
    <2>2. -right > (Max + 1) \div left <=> (-right) * left > Max + 1
      BY <1>0, <1>3, ProductAbove
    <2>3. (-right) * left = -(left * right)  BY <1>0
    <2>4. (Max + 1) \div left \in Int  BY <1>0, <1>3, DivBounds
    <2>5. right < Quotient(Min, left) <=> left * right < Min
      BY <1>0, <2>1, <2>2, <2>3, <2>4 DEF Min
    <2>6. left * right <= Max  BY <1>0, <1>3
    <2> QED  BY <1>0, <1>3, <2>5, <2>6
             DEF pphp_integer_multiply, Exactly, Store
  <1>4. CASE left < 0 /\ right > 0
    <2>1. Quotient(Min, right) = -((Max + 1) \div right)
      BY <1>0, <1>4 DEF Quotient, Min
    <2>2. -left > (Max + 1) \div right <=> (-left) * right > Max + 1
      BY <1>0, <1>4, ProductAbove
    <2>3. (-left) * right = -(left * right)  BY <1>0
    <2>4. (Max + 1) \div right \in Int  BY <1>0, <1>4, DivBounds
    <2>5. left < Quotient(Min, right) <=> left * right < Min
      BY <1>0, <2>1, <2>2, <2>3, <2>4 DEF Min
    <2>6. left * right <= Max  BY <1>0, <1>4
    <2> QED  BY <1>0, <1>4, <2>5, <2>6
             DEF pphp_integer_multiply, Exactly, Store
  <1>5. CASE left < 0 /\ right < 0
    <2>1. Quotient(Max, right) = -(Max \div (-right))
      BY <1>0, <1>5 DEF Quotient
    <2>2. -left > Max \div (-right) <=> (-left) * (-right) > Max
      BY <1>0, <1>5, ProductAbove
    <2>3. (-left) * (-right) = left * right  BY <1>0
    <2>4. Max \div (-right) \in Int  BY <1>0, <1>5, DivBounds
    <2>5. left < Quotient(Max, right) <=> left * right > Max
      BY <1>0, <2>1, <2>2, <2>3, <2>4
    <2>6. left * right >= Min  BY <1>0, <1>5 DEF Min
    <2> QED  BY <1>0, <1>5, <2>5, <2>6
             DEF pphp_integer_multiply, Exactly, Store
  <1> QED  BY <1>0, <1>1, <1>2, <1>3, <1>4, <1>5
=============================================================================
