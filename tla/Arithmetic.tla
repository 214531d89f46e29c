------------------------------ MODULE Arithmetic ------------------------------
(***************************************************************************)
(* The 64-bit register value of value.h, a type in the high half and a     *)
(* two's complement number in the low half, and what the interpreter's     *)
(* instructions compute from it (vm.cpp).  A float is the bit pattern in   *)
(* the low half: sign and magnitude, the largest magnitude standing for    *)
(* NaN.  The mark bit, which every test masks out, is left out.            *)
(***************************************************************************)
EXTENDS Integers

CONSTANT Half   \* the low half has values -Half .. Half - 1; code: 2^31

ASSUME HalfAssumption == Half \in Nat /\ Half >= 4

Low == -Half .. Half - 1

(* What the low half keeps of an integer.                                  *)
Wrap(n) == ((n + Half) % (2 * Half)) - Half

TYPE_OBJ      == 1
TYPE_INT      == 4
TYPE_FLOAT    == 8
TYPE_CALLABLE == 12
TYPE_NIL      == 16

set_int(n)       == [type |-> TYPE_INT, low |-> Wrap(n)]
set_float(p)     == [type |-> TYPE_FLOAT, low |-> p]
set_callable(f)  == [type |-> TYPE_CALLABLE, low |-> f]
set_array(n, id) == [type |-> 4 * n + TYPE_OBJ, low |-> id]
Nil              == [type |-> TYPE_NIL, low |-> 0]

RegisterValues == [type : Nat, low : Low]

(* Outcomes that are no value: a runtime_error, and a division the         *)
(* processor refuses.                                                      *)
THROW == [type |-> -1, low |-> 0]
TRAP  == [type |-> -2, low |-> 0]

is_int(v)      == v.type = TYPE_INT
is_float(v)    == v.type = TYPE_FLOAT
is_callable(v) == v.type = TYPE_CALLABLE
is_nil(v)      == v = Nil
Numeric(v)     == is_int(v) \/ is_float(v)
get_class(v)   == (v.type \div 4) % 2

(* The low half is sign-extended over the type: a negative low half leaves *)
(* nothing of it.                                                          *)
as_unmarked(v) == [high |-> IF v.low < 0 THEN -1 ELSE v.type, low |-> v.low]

-----------------------------------------------------------------------------
(* The float unit.                                                         *)
NaN          == Half - 1
Magnitude(p) == IF p < 0 THEN p + Half ELSE p
IsNaN(p)     == Magnitude(p) = NaN
Num(p)       == IF p < 0 THEN -Magnitude(p) ELSE p
FlipSign(p)  == IF p < 0 THEN p + Half ELSE p - Half

(* The float of sign minus (a BOOLEAN) nearest to magnitude m.             *)
Signed(minus, m) ==
  LET kept == IF m < NaN THEN m ELSE NaN - 1
  IN IF minus THEN kept - Half ELSE kept

FloatSum(p, q) ==
  LET s == Num(p) + Num(q)
  IN IF s = 0 THEN Signed(p < 0 /\ q < 0, 0)
     ELSE Signed(s < 0, IF s < 0 THEN -s ELSE s)

FloatProduct(p, q) ==
  Signed((p < 0) # (q < 0), Magnitude(p) * Magnitude(q))

FloatQuotient(p, q) ==
  LET minus == (p < 0) # (q < 0)
  IN IF Num(q) # 0 THEN Signed(minus, Magnitude(p) \div Magnitude(q))
     ELSE IF Num(p) = 0 THEN NaN ELSE Signed(minus, NaN)

FloatOp(op, p, q) ==
  IF IsNaN(p) THEN p ELSE IF IsNaN(q) THEN q ELSE
  CASE op = "ADD" -> FloatSum(p, q)
    [] op = "SUB" -> FloatSum(p, FlipSign(q))
    [] op = "MUL" -> FloatProduct(p, q)
    [] OTHER      -> FloatQuotient(p, q)

FloatLess(p, q)    == ~IsNaN(p) /\ ~IsNaN(q) /\ Num(p) < Num(q)
FloatAtMost(p, q)  == ~IsNaN(p) /\ ~IsNaN(q) /\ Num(p) <= Num(q)

-----------------------------------------------------------------------------
(* Division of C: it truncates toward zero, the remainder has the sign of  *)
(* the dividend.                                                           *)
Abs(n)         == IF n < 0 THEN -n ELSE n
Quotient(m, n) == LET q == Abs(m) \div Abs(n)
                  IN IF (m < 0) # (n < 0) THEN -q ELSE q

IntQuotient(op, m, n) ==
  IF n = 0 THEN THROW
  ELSE IF m = -Half /\ n = -1 THEN TRAP
  ELSE set_int(IF op = "DIV" THEN Quotient(m, n) ELSE m - n * Quotient(m, n))

IntOp(op, m, n) ==
  CASE op = "ADD" -> set_int(m + n)
    [] op = "SUB" -> set_int(m - n)
    [] op = "MUL" -> set_int(m * n)
    [] op \in {"DIV", "MOD"} -> IntQuotient(op, m, n)

Truth(b) == set_int(IF b THEN 1 ELSE 0)

(* add_values, sub_values, mul_values and div_values.                      *)
Arith(op, v1, v2) ==
  IF get_class(v1) # get_class(v2) \/ ~Numeric(v1) \/ ~Numeric(v2) THEN THROW
  ELSE IF is_int(v1) THEN IntOp(op, v1.low, v2.low)
  ELSE set_float(FloatOp(op, v1.low, v2.low))

op_mod(v1, v2) ==
  IF is_int(v1) /\ is_int(v2) THEN IntOp("MOD", v1.low, v2.low) ELSE THROW

op_eq(v1, v2)  == Truth(as_unmarked(v1) = as_unmarked(v2))
op_neq(v1, v2) == set_int(1 - op_eq(v1, v2).low)

(* Only the classes are compared: an int meets callables and arrays of odd *)
(* length, a float meets nil and arrays of even length.                    *)
cmp(op, v1, v2) ==
  IF get_class(v1) # get_class(v2) \/ ~Numeric(v1) THEN THROW
  ELSE IF is_int(v1)
  THEN Truth(IF op = "LT" THEN v1.low < v2.low ELSE v1.low <= v2.low)
  ELSE Truth(IF op = "LT" THEN FloatLess(v1.low, v2.low)
                          ELSE FloatAtMost(v1.low, v2.low))

BinaryOps == {"ADD", "SUB", "MUL", "DIV", "MOD", "EQ", "NEQ", "LT", "LE"}

(* The value, THROW or TRAP that an instruction of the interpreter yields. *)
Binary(op, v1, v2) ==
  CASE op \in {"ADD", "SUB", "MUL", "DIV"} -> Arith(op, v1, v2)
    [] op = "MOD" -> op_mod(v1, v2)
    [] op = "EQ"  -> op_eq(v1, v2)
    [] op = "NEQ" -> op_neq(v1, v2)
    [] op \in {"LT", "LE"} -> cmp(op, v1, v2)

op_neg(v) ==
  IF is_int(v) THEN set_int(-v.low)
  ELSE IF is_float(v) THEN set_float(FlipSign(v.low)) ELSE THROW

is_truthy(v) ==
  /\ ~is_nil(v)
  /\ is_int(v) => v.low # 0
  /\ is_float(v) => Num(v.low) # 0
===============================================================================
