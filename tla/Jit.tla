---------------------------------- MODULE Jit ---------------------------------
(***************************************************************************)
(* What the machine code that jit_runtime.cpp and jit_runtime.h generate   *)
(* for one bytecode instruction computes, and the operands on which that   *)
(* is not what the interpreter computes.  THROW stands for the error exit  *)
(* of an instruction, which returns ERR_TYPE from the compiled function.   *)
(***************************************************************************)
EXTENDS Arithmetic

CONSTANT Byte   \* the values of al, the 8-bit register; code: 2^8

ASSUME ByteAssumption == Byte \in 2 .. Half /\ Half % Byte = 0

(* The low half after a store of one byte: the other bits stay.            *)
StoreByte(old, b) == (old - (old % Byte)) + (IF b THEN 1 ELSE 0)

JitNumeric(op, v1, v2) ==
  IF is_int(v1) /\ is_int(v2) THEN IntOp(op, v1.low, v2.low)
  ELSE IF is_float(v1) /\ is_float(v2)
  THEN set_float(FloatOp(op, v1.low, v2.low)) ELSE THROW

(* comiss sets ZF for equal and for unordered operands and clears SF and   *)
(* OF: setl never sees a difference, setle sees ZF.  al is stored over the *)
(* low byte of the destination, whose old low half is old.                 *)
JitFloatCompare(op, old, p, q) ==
  LET zf == IsNaN(p) \/ IsNaN(q) \/ Num(p) = Num(q)
  IN set_int(StoreByte(old, op = "LE" /\ zf))

JitCompare(op, old, v1, v2) ==
  IF is_int(v1) /\ is_int(v2)
  THEN Truth(IF op = "LT" THEN v1.low < v2.low ELSE v1.low <= v2.low)
  ELSE IF is_float(v1) /\ is_float(v2)
  THEN JitFloatCompare(op, old, v1.low, v2.low) ELSE THROW

JitBinary(op, old, v1, v2) ==
  CASE op \in {"ADD", "SUB", "MUL", "DIV"} -> JitNumeric(op, v1, v2)
    [] op = "MOD" -> IF is_int(v1) /\ is_int(v2)
                     THEN IntOp("MOD", v1.low, v2.low) ELSE THROW
    [] op = "EQ"  -> Truth(v1 = v2)
    [] op = "NEQ" -> Truth(v1 # v2)
    [] op \in {"LT", "LE"} -> JitCompare(op, old, v1, v2)

(* A float is subtracted from +0.                                          *)
JitNeg(v) ==
  IF is_int(v) THEN set_int(-v.low)
  ELSE IF is_float(v) THEN set_float(FloatOp("SUB", 0, v.low)) ELSE THROW

(* Mutant: the low half alone decides.                                     *)
JitTruth_untyped(v) == v.low # 0

(* cjmp takes JMPT's branch, and not JMPF's, on: an int or a float whose   *)
(* bits are not 0, and any other value whose type is not TYPE_OBJ.         *)
JitTruth(v) ==
  IF Numeric(v) THEN v.low # 0 ELSE v.type # TYPE_OBJ

-----------------------------------------------------------------------------
(* The operands on which compiled code departs from the interpreter.       *)

SameClass(v1, v2) == get_class(v1) = get_class(v2)
BothFloat(v1, v2) == is_float(v1) /\ is_float(v2)
Garbage(old)      == StoreByte(old, FALSE) # 0

(* An error leaves the compiled function instead of being thrown.          *)
Fails(op, v1, v2) == Binary(op, v1, v2) = THROW

BinaryDiverges(op, old, v1, v2) ==
  \/ Fails(op, v1, v2)
  \/ /\ op \in {"EQ", "NEQ"}
     /\ v1.type # v2.type /\ v1.low = v2.low /\ v1.low < 0
  \/ /\ op \in {"LT", "LE"}
     /\ Numeric(v1) /\ SameClass(v1, v2) /\ v1.type # v2.type
  \/ /\ op \in {"LT", "LE"} /\ BothFloat(v1, v2)
     /\ FloatLess(v1.low, v2.low) \/ Garbage(old)
  \/ op = "LE" /\ BothFloat(v1, v2) /\ (IsNaN(v1.low) \/ IsNaN(v2.low))

NegDiverges(v) ==
  \/ ~Numeric(v)
  \/ is_float(v) /\ (v.low = 0 \/ IsNaN(v.low))

TruthDiverges(v) ==
  \/ is_float(v) /\ v.low = FlipSign(0)
  \/ is_nil(v)
  \/ v = set_array(0, v.low)
===============================================================================
