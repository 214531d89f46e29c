------------------------------- MODULE Jit_proofs ------------------------------
(***************************************************************************)
(* Proofs about Jit, for every width of a value: on the operands that Jit  *)
(* does not list, the code generated for an instruction computes what the  *)
(* interpreter computes.                                                   *)
(***************************************************************************)
EXTENDS Jit, TLAPS

LEMMA WrapLow ==
  ASSUME NEW n \in Low
  PROVE  Wrap(n) = n
PROOF
  <1>1. n + Half \in 0 .. 2 * Half - 1
    BY HalfAssumption DEF Low
  <1>2. 2 * Half \in Nat \ {0}
    BY HalfAssumption
  <1>3. (n + Half) % (2 * Half) = n + Half
    BY <1>1, <1>2
  <1> QED BY <1>3, HalfAssumption DEF Wrap, Low

LEMMA Classes ==
  ASSUME NEW v \in RegisterValues
  PROVE  /\ is_int(v) => get_class(v) = 1
         /\ is_float(v) => get_class(v) = 0
BY DEF RegisterValues, is_int, is_float, get_class, TYPE_INT, TYPE_FLOAT

LEMMA Bits ==
  /\ Truth(FALSE) = set_int(0) /\ Truth(TRUE) = set_int(1)
  /\ Wrap(0) = 0 /\ Wrap(1) = 1
  /\ set_int(0) # THROW /\ set_int(1) # THROW
BY WrapLow, HalfAssumption DEF Truth, set_int, Low, THROW, TYPE_INT

LEMMA ArithAgrees ==
  ASSUME NEW v1 \in RegisterValues, NEW v2 \in RegisterValues, NEW op,
         Arith(op, v1, v2) # THROW
  PROVE  JitNumeric(op, v1, v2) = Arith(op, v1, v2)
PROOF
  <1>1. get_class(v1) = get_class(v2) /\ Numeric(v1) /\ Numeric(v2)
    BY DEF Arith
  <1>2. (is_int(v1) /\ is_int(v2)) \/ (is_float(v1) /\ is_float(v2))
    BY <1>1, Classes DEF Numeric
  <1>3. CASE is_int(v1) /\ is_int(v2)
    BY <1>1, <1>3 DEF Arith, JitNumeric
  <1>4. CASE is_float(v1) /\ is_float(v2)
    <2>1. ~is_int(v1)
      BY <1>4 DEF is_int, is_float, TYPE_INT, TYPE_FLOAT
    <2> QED BY <1>1, <1>4, <2>1 DEF Arith, JitNumeric
  <1> QED BY <1>2, <1>3, <1>4

LEMMA EqAgrees ==
  ASSUME NEW v1 \in RegisterValues, NEW v2 \in RegisterValues,
         ~(v1.type # v2.type /\ v1.low = v2.low /\ v1.low < 0)
  PROVE  as_unmarked(v1) = as_unmarked(v2) <=> v1 = v2
PROOF
  <1>1. v1 = v2 <=> v1.type = v2.type /\ v1.low = v2.low
    BY DEF RegisterValues
  <1>2. v1.type \in Nat /\ v2.type \in Nat /\ v1.low \in Int /\ v2.low \in Int
    BY HalfAssumption DEF RegisterValues, Low
  <1> QED BY <1>1, <1>2 DEF as_unmarked

LEMMA CompareAgrees ==
  ASSUME NEW v1 \in RegisterValues, NEW v2 \in RegisterValues, NEW op \in {"LT", "LE"},
         NEW old \in Low, ~BinaryDiverges(op, old, v1, v2)
  PROVE  JitCompare(op, old, v1, v2) = cmp(op, v1, v2)
PROOF
  <1>1. cmp(op, v1, v2) # THROW
    BY DEF BinaryDiverges, Fails, Binary
  <1>2. get_class(v1) = get_class(v2) /\ Numeric(v1)
    BY <1>1 DEF cmp
  <1>3. v1.type = v2.type
    BY <1>2 DEF BinaryDiverges, SameClass
  <1>4. CASE is_int(v1)
    <2>1. is_int(v2)
      BY <1>3, <1>4 DEF is_int
    <2> QED BY <1>2, <1>4, <2>1 DEF cmp, JitCompare
  <1>5. CASE is_float(v1)
    <2>1. is_float(v2) /\ ~is_int(v1)
      BY <1>3, <1>5 DEF is_float, is_int, TYPE_INT, TYPE_FLOAT
    <2>2. ~FloatLess(v1.low, v2.low) /\ StoreByte(old, FALSE) = 0
      BY <1>5, <2>1 DEF BinaryDiverges, BothFloat, Garbage
    <2>3. StoreByte(old, TRUE) = 1
      BY <2>2, HalfAssumption, ByteAssumption DEF StoreByte, Low
    <2>4. JitCompare(op, old, v1, v2) = JitFloatCompare(op, old, v1.low, v2.low)
      BY <1>5, <2>1 DEF JitCompare
    <2>5. CASE op = "LT"
      <3>1. JitFloatCompare(op, old, v1.low, v2.low) = set_int(0)
        BY <2>2, <2>5 DEF JitFloatCompare
      <3>2. cmp(op, v1, v2) = Truth(FALSE)
        BY <1>2, <1>5, <2>1, <2>2, <2>5 DEF cmp, Truth
      <3> QED BY <2>4, <3>1, <3>2, Bits
    <2>6. CASE op = "LE"
      <3> DEFINE equal == Num(v1.low) = Num(v2.low)
      <3>1. ~IsNaN(v1.low) /\ ~IsNaN(v2.low)
        BY <1>5, <2>1, <2>6 DEF BinaryDiverges, BothFloat
      <3>2. Num(v1.low) \in Int /\ Num(v2.low) \in Int
        BY HalfAssumption DEF RegisterValues, Low, Num, Magnitude
      <3>3. FloatAtMost(v1.low, v2.low) <=> equal
        BY <2>2, <3>1, <3>2 DEF FloatAtMost, FloatLess
      <3>4. JitFloatCompare(op, old, v1.low, v2.low)
              = set_int(StoreByte(old, equal))
        BY <2>6, <3>1 DEF JitFloatCompare
      <3>5. cmp(op, v1, v2) = Truth(equal)
        BY <1>2, <1>5, <2>1, <2>6, <3>3 DEF cmp, Truth
      <3> QED BY <2>2, <2>3, <2>4, <3>4, <3>5, Bits
    <2> QED BY <2>5, <2>6
  <1> QED BY <1>2, <1>4, <1>5 DEF Numeric

(* Arithmetic and comparisons: the two compute the same value, and neither *)
(* fails.                                                                  *)
LEMMA BinaryAgrees ==
  ASSUME NEW op \in BinaryOps, NEW old \in Low, NEW v1 \in RegisterValues,
         NEW v2 \in RegisterValues, ~BinaryDiverges(op, old, v1, v2)
  PROVE  /\ JitBinary(op, old, v1, v2) = Binary(op, v1, v2)
         /\ Binary(op, v1, v2) # THROW
PROOF
  <1>1. Binary(op, v1, v2) # THROW
    BY DEF BinaryDiverges, Fails
  <1>2. CASE op \in {"ADD", "SUB", "MUL", "DIV"}
    BY <1>1, <1>2, ArithAgrees DEF JitBinary, Binary
  <1>3. CASE op = "MOD"
    BY <1>1, <1>3 DEF JitBinary, Binary, op_mod
  <1>4. CASE op = "EQ"
    <2>1. as_unmarked(v1) = as_unmarked(v2) <=> v1 = v2
      BY <1>4, EqAgrees DEF BinaryDiverges
    <2> QED BY <1>1, <1>4, <2>1 DEF JitBinary, Binary, op_eq, Truth
  <1>5. CASE op = "NEQ"
    <2> DEFINE same == v1 = v2
    <2>1. as_unmarked(v1) = as_unmarked(v2) <=> same
      BY <1>5, EqAgrees DEF BinaryDiverges
    <2>2. Binary(op, v1, v2) = set_int(1 - Truth(same).low)
      BY <1>5, <2>1 DEF Binary, op_neq, op_eq, Truth
    <2>3. Truth(same).low = IF same THEN 1 ELSE 0
      BY Bits DEF Truth, set_int
    <2>4. Binary(op, v1, v2) = IF same THEN set_int(0) ELSE set_int(1)
      BY <2>2, <2>3
    <2> QED BY <1>1, <1>5, <2>4, Bits DEF JitBinary
  <1>6. CASE op \in {"LT", "LE"}
    BY <1>1, <1>6, CompareAgrees DEF JitBinary, Binary
  <1> QED BY <1>1, <1>2, <1>3, <1>4, <1>5, <1>6 DEF BinaryOps

LEMMA NegAgrees ==
  ASSUME NEW v \in RegisterValues, ~NegDiverges(v)
  PROVE  JitNeg(v) = op_neg(v) /\ op_neg(v) # THROW
PROOF
  <1>1. CASE is_int(v)
    BY <1>1 DEF JitNeg, op_neg, set_int, THROW, TYPE_INT
  <1>2. CASE is_float(v)
    <2> DEFINE p == v.low
    <2>1. p \in Low /\ p # 0 /\ ~IsNaN(p)
      BY <1>2 DEF NegDiverges, RegisterValues
    <2>2. ~IsNaN(0) /\ Num(0) = 0
      BY HalfAssumption DEF IsNaN, Magnitude, NaN, Num
    <2>3. FloatOp("SUB", 0, p) = FloatSum(0, FlipSign(p))
      BY <2>1, <2>2 DEF FloatOp
    <2>4. FloatSum(0, FlipSign(p)) = FlipSign(p)
      BY <2>1, <2>2, HalfAssumption
         DEF FloatSum, FlipSign, Num, Magnitude, Signed, IsNaN, NaN, Low
    <2> QED BY <1>2, <2>3, <2>4
            DEF JitNeg, op_neg, set_float, THROW, TYPE_INT, TYPE_FLOAT, is_int, is_float
  <1> QED BY <1>1, <1>2 DEF NegDiverges, Numeric

LEMMA TruthAgrees ==
  ASSUME NEW v \in RegisterValues, ~TruthDiverges(v)
  PROVE  JitTruth(v) <=> is_truthy(v)
PROOF
  <1>1. v.low \in Low /\ v.low \in Int
    BY HalfAssumption DEF RegisterValues, Low
  <1>2. ~is_nil(v)
    BY DEF TruthDiverges
  <1>3. CASE is_int(v)
    BY <1>2, <1>3
       DEF JitTruth, is_truthy, Numeric, is_int, is_float, TYPE_INT, TYPE_FLOAT
  <1>4. CASE is_float(v)
    <2>1. Num(v.low) # 0 <=> v.low # 0
      BY <1>1, <1>4, HalfAssumption DEF TruthDiverges, FlipSign, Num, Magnitude, Low
    <2> QED BY <1>2, <1>4, <2>1
            DEF JitTruth, is_truthy, Numeric, is_int, is_float, TYPE_INT, TYPE_FLOAT
  <1>5. CASE ~Numeric(v)
    <2>1. v.type # TYPE_OBJ
      BY DEF TruthDiverges, set_array, RegisterValues, TYPE_OBJ
    <2> QED BY <1>2, <1>5, <2>1 DEF JitTruth, is_truthy, Numeric
  <1> QED BY <1>3, <1>4, <1>5 DEF Numeric

-----------------------------------------------------------------------------
(***************************************************************************)
(* What an instruction yields fits a register, or is an error.             *)
(***************************************************************************)
Outcomes == RegisterValues \cup {THROW, TRAP}

(* Whatever integer it is given, the low half keeps one of its values.     *)
LEMMA WrapType ==
  ASSUME NEW n \in Int
  PROVE  Wrap(n) \in Low
PROOF
  <1>1. 2 * Half \in Nat \ {0} /\ n + Half \in Int
    BY HalfAssumption
  <1>2. (n + Half) % (2 * Half) \in 0 .. 2 * Half - 1
    BY <1>1
  <1> QED BY <1>2, HalfAssumption DEF Wrap, Low

LEMMA SetTypes ==
  /\ \A n \in Int : set_int(n) \in RegisterValues
  /\ \A p \in Low : set_float(p) \in RegisterValues
  /\ \A p \in Low : set_callable(p) \in RegisterValues
  /\ Nil \in RegisterValues
  /\ \A b \in BOOLEAN : Truth(b) \in RegisterValues
PROOF
  <1>1. \A n \in Int : set_int(n) \in RegisterValues
    BY WrapType DEF set_int, RegisterValues, TYPE_INT
  <1>2. 0 \in Low
    BY HalfAssumption DEF Low
  <1> QED BY <1>1, <1>2
          DEF set_float, set_callable, Nil, Truth, RegisterValues,
              TYPE_FLOAT, TYPE_CALLABLE, TYPE_NIL

(* The results of the float unit are bit patterns of the low half.         *)
LEMMA FloatTypes ==
  /\ \A p \in Low : Magnitude(p) \in 0 .. NaN /\ Num(p) \in Int /\ FlipSign(p) \in Low
  /\ \A minus \in BOOLEAN : \A m \in Nat : Signed(minus, m) \in Low
  /\ NaN \in Low /\ NaN \in Nat
PROOF
  <1>1. NaN \in Low /\ NaN \in Nat /\ NaN >= 3
    BY HalfAssumption DEF NaN, Low
  <1>2. ASSUME NEW p \in Low
        PROVE  Magnitude(p) \in 0 .. NaN /\ Num(p) \in Int /\ FlipSign(p) \in Low
    BY HalfAssumption DEF Low, NaN, Magnitude, Num, FlipSign
  <1>3. ASSUME NEW minus \in BOOLEAN, NEW m \in Nat
        PROVE  Signed(minus, m) \in Low
    <2> DEFINE kept == IF m < NaN THEN m ELSE NaN - 1
    <2>1. kept \in 0 .. Half - 1
      BY <1>1, HalfAssumption DEF NaN
    <2>2. Signed(minus, m) = IF minus THEN kept - Half ELSE kept
      BY DEF Signed
    <2> HIDE DEF kept
    <2>3. kept \in Low /\ kept - Half \in Low
      BY <2>1, HalfAssumption DEF Low
    <2> QED BY <2>2, <2>3
  <1> QED BY <1>1, <1>2, <1>3

LEMMA FloatOpType ==
  ASSUME NEW p \in Low, NEW q \in Low, NEW op
  PROVE  FloatOp(op, p, q) \in Low
PROOF
  <1>1. \A r \in Low : FloatSum(p, r) \in Low
    <2> SUFFICES ASSUME NEW r \in Low PROVE FloatSum(p, r) \in Low
      OBVIOUS
    <2> DEFINE s == Num(p) + Num(r)
    <2>1. s \in Int
      BY FloatTypes
    <2>2. FloatSum(p, r) = IF s = 0 THEN Signed(p < 0 /\ r < 0, 0)
                           ELSE Signed(s < 0, IF s < 0 THEN -s ELSE s)
      BY DEF FloatSum
    <2> HIDE DEF s
    <2>3. (IF s < 0 THEN -s ELSE s) \in Nat /\ 0 \in Nat
      BY <2>1
    <2>4. (p < 0 /\ r < 0) \in BOOLEAN /\ (s < 0) \in BOOLEAN
      OBVIOUS
    <2>5. Signed(p < 0 /\ r < 0, 0) \in Low
      BY <2>3, <2>4, FloatTypes
    <2>6. Signed(s < 0, IF s < 0 THEN -s ELSE s) \in Low
      BY <2>3, <2>4, FloatTypes
    <2> QED BY <2>2, <2>5, <2>6
  <1>2. FloatProduct(p, q) \in Low
    <2>1. Magnitude(p) \in Nat /\ Magnitude(q) \in Nat
      BY FloatTypes
    <2>2. Magnitude(p) * Magnitude(q) \in Nat
      BY <2>1
    <2>3. ((p < 0) # (q < 0)) \in BOOLEAN
      OBVIOUS
    <2> QED BY <2>2, <2>3, FloatTypes DEF FloatProduct
  <1>3. FloatQuotient(p, q) \in Low
    <2> DEFINE minus == (p < 0) # (q < 0)
    <2>1. minus \in BOOLEAN
      OBVIOUS
    <2>2. FloatQuotient(p, q) =
            IF Num(q) # 0 THEN Signed(minus, Magnitude(p) \div Magnitude(q))
            ELSE IF Num(p) = 0 THEN NaN ELSE Signed(minus, NaN)
      BY DEF FloatQuotient
    <2> HIDE DEF minus
    <2>3. ASSUME Num(q) # 0
          PROVE  Magnitude(p) \div Magnitude(q) \in Nat
      <3>1. Magnitude(p) \in Nat /\ Magnitude(q) \in Nat
        BY FloatTypes
      <3>2. Magnitude(q) # 0
        BY <2>3, HalfAssumption DEF Num, Magnitude, Low
      <3> QED BY <3>1, <3>2
    <2> QED BY <2>1, <2>2, <2>3, FloatTypes
  <1>4. FlipSign(q) \in Low
    BY FloatTypes
  <1> QED BY <1>1, <1>2, <1>3, <1>4 DEF FloatOp

LEMMA IntOpType ==
  ASSUME NEW m \in Low, NEW n \in Low, NEW op \in {"ADD", "SUB", "MUL", "DIV", "MOD"}
  PROVE  IntOp(op, m, n) \in Outcomes
PROOF
  <1>1. m \in Int /\ n \in Int
    BY HalfAssumption DEF Low
  <1>2. m + n \in Int /\ m - n \in Int /\ m * n \in Int
    BY <1>1
  <1>3. ASSUME n # 0 PROVE Quotient(m, n) \in Int
    <2>1. Abs(m) \in Nat /\ Abs(n) \in Nat \ {0}
      BY <1>1, <1>3 DEF Abs
    <2>2. Abs(m) \div Abs(n) \in Nat
      BY <2>1
    <2> QED BY <2>2 DEF Quotient
  <1>4. ASSUME n # 0 PROVE m - n * Quotient(m, n) \in Int
    <2> DEFINE q == Quotient(m, n)
    <2>1. q \in Int
      BY <1>3, <1>4
    <2> HIDE DEF q
    <2>2. m - n * q \in Int
      BY <1>1, <2>1
    <2> QED BY <2>2 DEF q
  <1>5. IntQuotient(op, m, n) \in Outcomes
    BY <1>3, <1>4, SetTypes DEF IntQuotient, Outcomes
  <1> QED BY <1>2, <1>5, SetTypes DEF IntOp, Outcomes

(* A binary instruction of the interpreter yields a register value, an     *)
(* error or a trap.                                                        *)
LEMMA BinaryType ==
  ASSUME NEW v1 \in RegisterValues, NEW v2 \in RegisterValues, NEW op \in BinaryOps
  PROVE  Binary(op, v1, v2) \in Outcomes
PROOF
  <1>1. v1.low \in Low /\ v2.low \in Low
    BY DEF RegisterValues
  <1>2. THROW \in Outcomes /\ RegisterValues \subseteq Outcomes
    BY DEF Outcomes
  <1>3. op \in {"ADD", "SUB", "MUL", "DIV"} => Arith(op, v1, v2) \in Outcomes
    BY <1>1, <1>2, IntOpType, FloatOpType, SetTypes DEF Arith
  <1>4. op_mod(v1, v2) \in Outcomes
    BY <1>1, <1>2, IntOpType DEF op_mod
  <1>5. op_eq(v1, v2) \in Outcomes /\ op_neq(v1, v2) \in Outcomes
    <2>1. op_eq(v1, v2) \in RegisterValues
      BY SetTypes DEF op_eq
    <2>2. op_eq(v1, v2).low \in Int
      BY <2>1, HalfAssumption DEF RegisterValues, Low
    <2>3. 1 - op_eq(v1, v2).low \in Int
      BY <2>2
    <2> QED BY <1>2, <2>1, <2>3, SetTypes DEF op_neq
  <1>6. cmp(op, v1, v2) \in Outcomes
    BY <1>2, SetTypes DEF cmp, Truth
  <1>7. CASE op \in {"ADD", "SUB", "MUL", "DIV"}
    BY <1>3, <1>7 DEF Binary
  <1>8. CASE op = "MOD"
    BY <1>4, <1>8 DEF Binary
  <1>9. CASE op \in {"EQ", "NEQ"}
    BY <1>5, <1>9 DEF Binary
  <1>10. CASE op \in {"LT", "LE"}
    BY <1>6, <1>10 DEF Binary
  <1> QED BY <1>7, <1>8, <1>9, <1>10 DEF BinaryOps

(* So does the compiled instruction.                                       *)
LEMMA JitBinaryType ==
  ASSUME NEW v1 \in RegisterValues, NEW v2 \in RegisterValues, NEW op \in BinaryOps,
         NEW old \in Low
  PROVE  JitBinary(op, old, v1, v2) \in Outcomes
PROOF
  <1>1. v1.low \in Low /\ v2.low \in Low
    BY DEF RegisterValues
  <1>2. THROW \in Outcomes /\ RegisterValues \subseteq Outcomes
    BY DEF Outcomes
  <1>3. op \in {"ADD", "SUB", "MUL", "DIV"} => JitNumeric(op, v1, v2) \in Outcomes
    BY <1>1, <1>2, IntOpType, FloatOpType, SetTypes DEF JitNumeric
  <1>4. IntOp("MOD", v1.low, v2.low) \in Outcomes
    BY <1>1, IntOpType
  <1>5. \A b \in BOOLEAN : StoreByte(old, b) \in Int
    <2>1. old \in Int /\ Byte \in Nat \ {0}
      BY HalfAssumption, ByteAssumption DEF Low
    <2>2. old % Byte \in Int
      BY <2>1
    <2> QED BY <2>1, <2>2 DEF StoreByte
  <1>6. \A p, q : JitFloatCompare(op, old, p, q) \in RegisterValues
    <2> TAKE p, q
    <2> DEFINE b == op = "LE" /\ (IsNaN(p) \/ IsNaN(q) \/ Num(p) = Num(q))
    <2>1. JitFloatCompare(op, old, p, q) = set_int(StoreByte(old, b))
      BY DEF JitFloatCompare
    <2>2. b \in BOOLEAN
      OBVIOUS
    <2> HIDE DEF b
    <2> QED BY <1>5, <2>1, <2>2, SetTypes
  <1>7. JitCompare(op, old, v1, v2) \in Outcomes
    BY <1>2, <1>6, SetTypes DEF JitCompare, Truth
  <1>8. Truth(v1 = v2) \in Outcomes /\ Truth(v1 # v2) \in Outcomes
    BY <1>2, SetTypes
  <1>9. CASE op \in {"ADD", "SUB", "MUL", "DIV"}
    BY <1>3, <1>9 DEF JitBinary
  <1>10. CASE op = "MOD"
    BY <1>2, <1>4, <1>10 DEF JitBinary
  <1>11. CASE op \in {"EQ", "NEQ"}
    BY <1>8, <1>11 DEF JitBinary
  <1>12. CASE op \in {"LT", "LE"}
    BY <1>7, <1>12 DEF JitBinary
  <1> QED BY <1>9, <1>10, <1>11, <1>12 DEF BinaryOps

LEMMA NegType ==
  ASSUME NEW v \in RegisterValues
  PROVE  op_neg(v) \in Outcomes /\ JitNeg(v) \in Outcomes
PROOF
  <1>1. v.low \in Low /\ -v.low \in Int /\ 0 \in Low
    BY HalfAssumption DEF RegisterValues, Low
  <1>2. THROW \in Outcomes /\ RegisterValues \subseteq Outcomes
    BY DEF Outcomes
  <1>3. FlipSign(v.low) \in Low /\ FloatOp("SUB", 0, v.low) \in Low
    BY <1>1, FloatTypes, FloatOpType
  <1> QED BY <1>1, <1>2, <1>3, SetTypes DEF op_neg, JitNeg
===============================================================================
