--------------------------- MODULE Refinement_proofs --------------------------
(***************************************************************************)
(* The machine with the JIT implements the interpreter as long as nothing  *)
(* that Departs names happens: the proof, for every program.               *)
(***************************************************************************)
EXTENDS Dispatch_proofs

(* The operators of the instance are the operators of the module.          *)
LEMMA PlainValues ==
  /\ Plain!THROW = THROW /\ Plain!TRAP = TRAP /\ Plain!Nil = Nil
  /\ Plain!RegisterValues = RegisterValues
  /\ \A x : /\ Plain!set_int(x) = set_int(x)
            /\ Plain!set_float(x) = set_float(x)
            /\ Plain!set_callable(x) = set_callable(x)
            /\ Plain!as_unmarked(x) = as_unmarked(x)
            /\ Plain!get_class(x) = get_class(x)
  /\ \A v : /\ Plain!is_int(v) <=> is_int(v)
            /\ Plain!is_float(v) <=> is_float(v)
            /\ Plain!is_callable(v) <=> is_callable(v)
            /\ Plain!is_nil(v) <=> is_nil(v)
            /\ Plain!Numeric(v) <=> Numeric(v)
BY DEF Plain!THROW, THROW, Plain!TRAP, TRAP, Plain!Nil, Nil,
       Plain!RegisterValues, RegisterValues, Plain!Low, Low, Plain!set_int,
       set_int, Plain!set_float, set_float, Plain!set_callable, set_callable,
       Plain!as_unmarked, as_unmarked, Plain!get_class, get_class,
       Plain!Wrap, Wrap, Plain!is_int, is_int, Plain!is_float, is_float,
       Plain!is_callable, is_callable, Plain!is_nil, is_nil, Plain!Numeric,
       Numeric, Plain!TYPE_INT, TYPE_INT, Plain!TYPE_FLOAT, TYPE_FLOAT,
       Plain!TYPE_CALLABLE, TYPE_CALLABLE, Plain!TYPE_NIL, TYPE_NIL

LEMMA PlainFloat ==
  ASSUME NEW p, NEW q
  PROVE  /\ Plain!Num(p) = Num(p) /\ Plain!FlipSign(p) = FlipSign(p)
         /\ Plain!FloatLess(p, q) <=> FloatLess(p, q)
         /\ Plain!FloatAtMost(p, q) <=> FloatAtMost(p, q)
         /\ Plain!IsNaN(p) <=> IsNaN(p)
         /\ Plain!Magnitude(p) = Magnitude(p)
         /\ Plain!FloatSum(p, q) = FloatSum(p, q)
         /\ Plain!FloatQuotient(p, q) = FloatQuotient(p, q)
         /\ Plain!FloatProduct(p, q) = FloatProduct(p, q)
BY Zenon DEF Plain!NaN, NaN, Plain!Magnitude, Magnitude, Plain!IsNaN, IsNaN,
       Plain!Num, Num, Plain!FlipSign, FlipSign, Plain!Signed, Signed,
       Plain!FloatSum, FloatSum, Plain!FloatProduct, FloatProduct,
       Plain!FloatQuotient, FloatQuotient,
       Plain!FloatLess, FloatLess, Plain!FloatAtMost, FloatAtMost

LEMMA PlainFloatOp ==
  ASSUME NEW op, NEW p, NEW q
  PROVE  Plain!FloatOp(op, p, q) = FloatOp(op, p, q)
PROOF
  <1>1. Plain!FloatSum(p, Plain!FlipSign(q)) = FloatSum(p, FlipSign(q))
    BY PlainFloat
  <1>2. CASE IsNaN(p) \/ IsNaN(q)
    BY <1>2, PlainFloat DEF Plain!FloatOp, FloatOp
  <1>3. CASE ~IsNaN(p) /\ ~IsNaN(q)
    <2>1. /\ Plain!FloatSum(p, q) = FloatSum(p, q)
          /\ Plain!FloatProduct(p, q) = FloatProduct(p, q)
          /\ Plain!FloatQuotient(p, q) = FloatQuotient(p, q)
      BY PlainFloat
    <2>2. ~Plain!IsNaN(p) /\ ~Plain!IsNaN(q)
      BY <1>3, PlainFloat
    <2> QED BY <1>1, <1>3, <2>1, <2>2 DEF Plain!FloatOp, FloatOp
  <1> QED BY <1>2, <1>3

LEMMA PlainIntOp ==
  ASSUME NEW op, NEW m, NEW n
  PROVE  Plain!IntOp(op, m, n) = IntOp(op, m, n)
PROOF
  <1>1. Plain!IntQuotient(op, m, n) = IntQuotient(op, m, n)
    BY Zenon, PlainValues
       DEF Plain!IntQuotient, IntQuotient,
       Plain!Quotient, Quotient, Plain!Abs, Abs
  <1> QED BY <1>1, PlainValues DEF Plain!IntOp, IntOp

LEMMA PlainBinary ==
  ASSUME NEW op, NEW v1, NEW v2
  PROVE  Plain!Binary(op, v1, v2) = Binary(op, v1, v2)
PROOF
  <1>1. Plain!Arith(op, v1, v2) = Arith(op, v1, v2)
    BY PlainValues, PlainFloatOp, PlainIntOp DEF Plain!Arith, Arith
  <1>2. Plain!op_mod(v1, v2) = op_mod(v1, v2)
    BY PlainValues, PlainIntOp DEF Plain!op_mod, op_mod
  <1>3. Plain!op_eq(v1, v2) = op_eq(v1, v2)
    BY PlainValues
       DEF Plain!op_eq, op_eq, Plain!Truth, Truth
  <1>4. Plain!op_neq(v1, v2) = op_neq(v1, v2)
    BY <1>3, PlainValues DEF Plain!op_neq, op_neq
  <1>5. Plain!cmp(op, v1, v2) = cmp(op, v1, v2)
    BY PlainValues, PlainFloat
       DEF Plain!cmp, cmp, Plain!Truth, Truth
  <1> QED BY <1>1, <1>2, <1>3, <1>4, <1>5 DEF Plain!Binary, Binary

LEMMA PlainUnary ==
  \A v : Plain!op_neg(v) = op_neg(v) /\ (Plain!is_truthy(v) <=> is_truthy(v))
BY PlainValues, PlainFloat
   DEF Plain!op_neg, op_neg, Plain!is_truthy, is_truthy

-----------------------------------------------------------------------------
(* A step of the interpreter loop, whose instruction is at ip.             *)
LEMMA Interpreted ==
  ASSUME jip = 0
  PROVE  /\ Plain!Instr = Instr
         /\ \A k : Plain!Goto(k) = Goto(k)
         /\ \A a : Plain!Reg(a) = Reg(a)
         /\ \A op : Plain!At(op) <=> At(op)
         /\ Plain!Running <=> Running
BY DEF Plain!Instr, Instr, Plain!Code, Code, Plain!Goto, Goto, Plain!Reg, Reg,
       Plain!At, At, Plain!Running, Running

LEMMA InterpretedMoves ==
  ASSUME jip = 0, jip' = 0
  PROVE  /\ \A a, v : Write(a, v) => Plain!Write(a, v)
         /\ \A t : Branch(t) => Plain!Branch(t)
         /\ \A r : PopFrame(r) => Plain!PopFrame(r)
         /\ Throw => Plain!Throw
PROOF
  <1>1. Throw => Plain!Throw
    BY DEF Throw, Plain!Throw
  <1>2. ASSUME NEW a, NEW v, Write(a, v)
        PROVE  Plain!Write(a, v)
    BY <1>1, <1>2, Interpreted, PlainValues DEF Write, Plain!Write
  <1>3. ASSUME NEW t, Branch(t)
        PROVE  Plain!Branch(t)
    BY <1>3, Interpreted DEF Branch, Plain!Branch
  <1>4. ASSUME NEW r, PopFrame(r)
        PROVE  Plain!PopFrame(r)
    BY <1>4 DEF PopFrame, Plain!PopFrame
  <1> QED BY <1>1, <1>2, <1>3, <1>4

LEMMA InterpretedSimple ==
  ASSUME jip = 0, jip' = 0, Simple
  PROVE  Plain!Simple
PROOF
  <1> USE Interpreted, InterpretedMoves, PlainValues
  <1>1. op_binary => Plain!op_binary
    BY PlainBinary DEF op_binary, Plain!op_binary, Plain!BinaryOps, BinaryOps
  <1>2. op_negate => Plain!op_negate
    BY PlainUnary DEF op_negate, Plain!op_negate
  <1>3. op_load => Plain!op_load
    BY DEF op_load, Plain!op_load
  <1>4. op_loadfunc => Plain!op_loadfunc
    BY DEF op_loadfunc, Plain!op_loadfunc
  <1>5. op_move => Plain!op_move
    BY DEF op_move, Plain!op_move
  <1>6. op_loadnil => Plain!op_loadnil
    BY DEF op_loadnil, Plain!op_loadnil
  <1>7. op_arrget => Plain!op_arrget
    BY DEF op_arrget, Plain!op_arrget
  <1>8. op_jmp => Plain!op_jmp
    BY DEF op_jmp, Plain!op_jmp
  <1>9. op_jmpt => Plain!op_jmpt
    BY PlainUnary DEF op_jmpt, Plain!op_jmpt
  <1>10. op_jmpf => Plain!op_jmpf
    BY PlainUnary DEF op_jmpf, Plain!op_jmpf
  <1>11. op_return => Plain!op_return
    BY DEF op_return, Plain!op_return
  <1>12. op_returnnil => Plain!op_returnnil
    BY DEF op_returnnil, Plain!op_returnnil
  <1>13. op_halt => Plain!op_halt
    BY DEF op_halt, Plain!op_halt
  <1> QED BY <1>1, <1>2, <1>3, <1>4, <1>5, <1>6, <1>7, <1>8, <1>9, <1>10,
             <1>11, <1>12, <1>13 DEF Simple, Plain!Simple

LEMMA InterpretedCall ==
  ASSUME jip = 0, NEW f, NEW first_arg, NEW num_args,
         CallHot(f, first_arg, num_args)
  PROVE  Plain!Call(f, first_arg, num_args)
PROOF
  <1>1. Plain!Refused(f, num_args) <=> Refused(f, num_args)
    BY DEF Refused, Plain!Refused
  <1>2. CASE Refused(f, num_args)
    BY <1>1, <1>2, InterpretedMoves DEF CallHot, Plain!Call
  <1>3. CASE ~Refused(f, num_args)
    <2>1. PushFrame(f, first_arg, num_args) /\ jip' \in {0, 1}
      BY <1>3 DEF CallHot, Heat, RunNative, Interpret
    <2>2. Plain!PushFrame(f, first_arg, num_args)
      BY <2>1, Interpreted, PlainValues DEF PushFrame, Plain!PushFrame,
         Plain!Cells, Cells
    <2> QED BY <1>1, <1>3, <2>2 DEF CallHot, Plain!Call
  <1> QED BY <1>2, <1>3

LEMMA StepPlain ==
  ASSUME Step, UNCHANGED <<program, loads>>
  PROVE  Plain!Next
PROOF
  <1>1. jip = 0
    BY DEF Step
  <1>2. CASE Simple /\ UNCHANGED jip
    BY <1>1, <1>2, InterpretedSimple DEF Plain!Next
  <1>3. CASE At("CALL") /\ CallHot(Instr.a, Instr.b, Instr.c)
    BY <1>1, <1>3, Interpreted, InterpretedCall DEF Plain!Next, Plain!op_call
  <1>4. CASE /\ At("INVOKEDYNAMIC") /\ is_callable(Reg(Instr.a))
             /\ CallHot(Reg(Instr.a).low, Instr.b, Instr.c)
    BY <1>1, <1>4, Interpreted, InterpretedCall, PlainValues
       DEF Plain!Next, Plain!op_invokedyn
  <1>5. CASE /\ At("INVOKEDYNAMIC") /\ ~is_callable(Reg(Instr.a))
             /\ Throw /\ UNCHANGED jip
    BY <1>1, <1>5, Interpreted, InterpretedMoves, PlainValues
       DEF Plain!Next, Plain!op_invokedyn
  <1> QED BY <1>2, <1>3, <1>4, <1>5 DEF Step
-----------------------------------------------------------------------------
(* A step of compiled code, which stands for the instruction of the loaded *)
(* program at jip.                                                         *)
Loyal == IInv /\ Compiled /\ ~Departs

LEMMA CompiledAt ==
  ASSUME Loyal
  PROVE  /\ jip \in Nat \ {0}
         /\ Plain!Instr = TInstr
         /\ \A k : Plain!Goto(k) = <<ip[1], jip + 1 + k>>
         /\ \A a : Plain!Reg(a) = Reg(a)
         /\ \A op : Plain!At(op) <=> TInstr.op = op
         /\ Plain!Running
PROOF
  <1>1. jip \in Nat \ {0}
    BY NextInside DEF Loyal
  <1>2. Target = Code(ip[1]) /\ Running
    BY DEF Loyal, Compiled, Departs
  <1> QED BY <1>1, <1>2
          DEF Plain!Instr, TInstr, Plain!Code, Code, Plain!Goto, Plain!Reg,
              Reg, Plain!At, Plain!Running, Running

LEMMA CompiledWrite ==
  ASSUME Loyal, NEW a, NEW v, v # THROW, JitWrite(a, v)
  PROVE  Plain!Write(a, v)
PROOF
  <1>1. jip \in Nat \ {0} /\ Plain!Goto(0) = <<ip[1], jip + 1>>
    BY CompiledAt
  <1>2. CASE v = TRAP
    BY <1>1, <1>2, PlainValues DEF JitWrite, Plain!Write
  <1>3. CASE v # TRAP
    BY <1>1, <1>3, PlainValues DEF JitWrite, Plain!Write
  <1> QED BY <1>2, <1>3

LEMMA CompiledBranch ==
  ASSUME Loyal, NEW taken \in BOOLEAN, JitBranch(taken),
         TInstr.op \in {"JMP", "JMPT", "JMPF"}, TInstr.op = "JMP" => taken
  PROVE  Plain!Branch(taken)
PROOF
  <1>1. jip' # 0 /\ jip' = jip + 1 + (IF taken THEN TInstr.b ELSE 0)
    <2>1. jip' \in DOMAIN Target
      BY NextInside DEF Loyal, JitBranch
    <2>2. 0 \notin DOMAIN Target
      BY NextInside DEF Loyal
    <2> QED BY <2>1, <2>2 DEF JitBranch
  <1>2. UNCHANGED <<ip, stack, fp, call_stack, status>>
    BY DEF JitBranch, frameVars
  <1> QED BY <1>1, <1>2, CompiledAt DEF Plain!Branch

LEMMA CompiledReturn ==
  ASSUME NEW r, invoke_jit_return(r)
  PROVE  Plain!PopFrame(r)
BY DEF invoke_jit_return, PopFrame, Plain!PopFrame

LEMMA CompiledInstr ==
  ASSUME Loyal, JitInstr
  PROVE  Plain!Simple
PROOF
  <1> DEFINE i == TInstr
  <1> HIDE DEF i
  <1> USE CompiledAt DEF i
  <1>1. ASSUME i.op \in BinaryOps,
               JitWrite(i.a, JitBinary(i.op, Reg(i.a).low, Reg(i.b), Reg(i.c)))
        PROVE  Plain!op_binary
    <2>1. {Reg(i.a), Reg(i.b), Reg(i.c)} \subseteq RegisterValues
      BY <1>1 DEF Loyal, Departs, Operands, BinaryOps
    <2>2. Reg(i.a).low \in Low
      BY <2>1 DEF RegisterValues
    <2>3. ~BinaryDiverges(i.op, Reg(i.a).low, Reg(i.b), Reg(i.c))
      BY <1>1 DEF Loyal, Departs
    <2>4. LET v == Binary(i.op, Reg(i.b), Reg(i.c))
          IN JitWrite(i.a, v) /\ v # THROW
      BY <1>1, <2>1, <2>2, <2>3, BinaryAgrees
    <2>5. Plain!Write(i.a, Binary(i.op, Reg(i.b), Reg(i.c)))
      BY <2>4, CompiledWrite
    <2> QED BY <1>1, <2>5, PlainBinary
            DEF Plain!op_binary, Plain!BinaryOps, BinaryOps
  <1>2. ASSUME i.op = "NEG", JitWrite(i.a, JitNeg(Reg(i.b)))
        PROVE  Plain!op_negate
    <2>1. Reg(i.b) \in RegisterValues /\ ~NegDiverges(Reg(i.b))
      BY <1>2 DEF Loyal, Departs, Operands, BinaryOps
    <2>2. Plain!Write(i.a, op_neg(Reg(i.b)))
      BY <1>2, <2>1, NegAgrees, CompiledWrite
    <2> QED BY <1>2, <2>2, PlainUnary DEF Plain!op_negate
  <1>3. ASSUME i.op = "LOADINT", JitWrite(i.a, set_int(i.b))
        PROVE  Plain!op_load
    <2>1. set_int(i.b) # THROW
      BY DEF set_int, THROW, TYPE_INT
    <2> QED BY <1>3, <2>1, CompiledWrite, PlainValues DEF Plain!op_load
  <1>4. ASSUME i.op = "MOVE", JitWrite(i.a, Reg(i.b))
        PROVE  Plain!op_move
    <2>1. Reg(i.b) # THROW
      BY <1>4 DEF Loyal, Departs, Operands, BinaryOps, RegisterValues, THROW
    <2> QED BY <1>4, <2>1, CompiledWrite DEF Plain!op_move
  <1>5. ASSUME i.op = "LOADNIL", JitWrite(i.a, Nil)
        PROVE  Plain!op_loadnil
    <2>1. Nil # THROW
      BY DEF Nil, THROW, TYPE_NIL
    <2> QED BY <1>5, <2>1, CompiledWrite, PlainValues DEF Plain!op_loadnil
  <1>6. ASSUME i.op = "JMP", JitBranch(TRUE)
        PROVE  Plain!op_jmp
    BY <1>6, CompiledBranch DEF Plain!op_jmp
  <1>7. ASSUME i.op \in {"JMPT", "JMPF"}
        PROVE  JitTruth(Reg(i.a)) <=> Plain!is_truthy(Reg(i.a))
    <2>1. Reg(i.a) \in RegisterValues /\ ~TruthDiverges(Reg(i.a))
      BY <1>7 DEF Loyal, Departs, Operands, BinaryOps
    <2> QED BY <2>1, TruthAgrees, PlainUnary
  <1>8. ASSUME i.op = "JMPT", JitBranch(JitTruth(Reg(i.a)))
        PROVE  Plain!op_jmpt
    <2>1. Plain!Branch(JitTruth(Reg(i.a)))
      BY <1>8, CompiledBranch DEF JitTruth
    <2> QED BY <1>7, <1>8, <2>1 DEF Plain!op_jmpt, Plain!Branch
  <1>9. ASSUME i.op = "JMPF", JitBranch(~JitTruth(Reg(i.a)))
        PROVE  Plain!op_jmpf
    <2>1. Plain!Branch(~JitTruth(Reg(i.a)))
      BY <1>9, CompiledBranch DEF JitTruth
    <2> QED BY <1>7, <1>9, <2>1 DEF Plain!op_jmpf, Plain!Branch
  <1>10. ASSUME i.op = "RETURN", invoke_jit_return(Reg(i.a))
         PROVE  Plain!op_return
    BY <1>10, CompiledReturn DEF Plain!op_return
  <1>11. ASSUME i.op = "RETURNNIL", invoke_jit_return(Nil)
         PROVE  Plain!op_returnnil
    BY <1>11, CompiledReturn, PlainValues DEF Plain!op_returnnil
  <1>12. i.op # "INVOKEDYNAMIC"
    BY DEF Loyal, Departs
  <1> QED BY <1>1, <1>2, <1>3, <1>4, <1>5, <1>6, <1>8, <1>9, <1>10, <1>11,
             <1>12 DEF JitInstr, Plain!Simple

LEMMA CompiledArrget ==
  ASSUME Loyal, TInstr.op = "ARRGET", NEW v \in Args, JitWrite(TInstr.a, v)
  PROVE  Plain!op_arrget
PROOF
  <1>1. v # THROW
    BY InterpreterAssumption DEF RegisterValues, THROW
  <1>2. Plain!Write(TInstr.a, v)
    BY <1>1, CompiledWrite
  <1> QED BY <1>2, CompiledAt DEF Plain!op_arrget

LEMMA JitPlain ==
  ASSUME IInv, JitStep, ~diverged', UNCHANGED <<program, loads>>
  PROVE  Plain!Next
PROOF
  <1>1. Loyal
    BY DEF Loyal, JitStep, JitArrget
  <1>2. JitInstr => Plain!Simple
    BY <1>1, CompiledInstr
  <1>3. TInstr.op = "ARRGET" /\ JitArrget(TInstr.a) => Plain!op_arrget
    BY <1>1, CompiledArrget DEF JitArrget
  <1> QED BY <1>2, <1>3 DEF JitStep, Plain!Next, Plain!Simple

LEMMA LoadPlain ==
  ASSUME IInv, initVM, UNCHANGED jip
  PROVE  Plain!Next
PROOF
  <1>1. jip = 0 /\ jip' = 0
    BY DEF IInv, PositionOK, initVM
  <1> QED BY <1>1 DEF initVM, Plain!initVM, Plain!Next

LEMMA NextPlain ==
  ASSUME IInv, [DispatchNext]_allVars
  PROVE  [diverged' \/ Plain!Next]_<<Plain!vars, diverged>>
PROOF
  <1>1. CASE Step /\ UNCHANGED <<program, loads>>
    BY <1>1, StepPlain
  <1>2. CASE JitStep /\ UNCHANGED <<program, loads>>
    BY <1>2, JitPlain
  <1>3. CASE initVM /\ UNCHANGED <<funcVars, jip, diverged>>
    BY <1>3, LoadPlain
  <1>4. CASE UNCHANGED allVars
    BY <1>4 DEF allVars, vars, frameVars, Plain!vars, Plain!frameVars
  <1> QED BY <1>1, <1>2, <1>3, <1>4 DEF DispatchNext

(* Whatever the program, the widths, the limits and the threshold: until   *)
(* compiled code departs from it as Departs says, the machine with the JIT *)
(* of vm.cpp and jit_runtime.cpp is the interpreter.                       *)
THEOREM Refinement == DispatchSpec => ImplementsInterpreter
PROOF
  <1>1. DispatchInit => Plain!Init
    BY DEF DispatchInit, Init, Plain!Init, Cells, Plain!Cells
  <1>2. IInv /\ [DispatchNext]_allVars
          => [diverged' \/ Plain!Next]_<<Plain!vars, diverged>>
    BY NextPlain
  <1> QED BY <1>1, <1>2, Invariance, PTL DEF DispatchSpec, ImplementsInterpreter
===============================================================================
