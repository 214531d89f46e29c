------------------------------ MODULE Registers ------------------------------
(***************************************************************************)
(* The register stack and the call frames of the interpreter (vm.cpp),     *)
(* with the instructions that touch nothing else.  A register holds an     *)
(* object id or Scalar.  Which instruction runs next is left open: the     *)
(* program is any program whose operands are below NumRegs.                *)
(***************************************************************************)
EXTENDS Values, Sequences

CONSTANTS
  StackSize,       \* bound of the model: registers, code: STACK_SIZE
  NumRegs,         \* register operands the program uses: 0 .. NumRegs - 1
  MaxStack,        \* Function::max_stack, the window of a frame
  CALL_MAX_SIZE,   \* frames the call stack may hold
  MaxArgs          \* bound of the model: arguments of a call

ASSUME RegistersAssumption ==
  /\ StackSize \in Nat /\ NumRegs \in Nat /\ MaxStack \in Nat
  /\ CALL_MAX_SIZE \in Nat /\ MaxArgs \in Nat
  /\ NumRegs <= StackSize /\ MaxStack <= StackSize

VARIABLES
  stack,       \* vm.stack
  fp,          \* vm.fp
  call_stack,  \* vm.call_stack, reduced to the base_ptr of each frame
  status       \* "start" until main is called; "running"; then "halted",
               \* "thrown" (a runtime_error the code raises) or "fault"

regVars == <<stack, fp, call_stack, status>>

Cells  == 0 .. StackSize - 1
RegOps == 0 .. NumRegs - 1

(* Bound of the model: a frame's registers and window lie in the stack.    *)
Fits(base) == base + NumRegs <= StackSize /\ base + MaxStack <= StackSize
Bases      == {base \in 0 .. StackSize : Fits(base)}

RegistersType ==
  /\ stack \in [Cells -> Value]
  /\ fp \in Bases
  /\ call_stack \in Seq(Bases)
  /\ status \in {"start", "running", "halted", "thrown", "fault"}

RegistersInit ==
  /\ stack = [r \in Cells |-> Scalar]
  /\ fp = 0
  /\ call_stack = <<>>
  /\ status = "start"

Executing == status = "running" /\ call_stack # <<>>

get_sp     == IF call_stack = <<>> THEN fp ELSE fp + MaxStack
StackRoots == {stack[r] : r \in 0 .. get_sp - 1} \ {Scalar}

Reg(a) == stack[fp + a]

SetReg(a, v) ==
  /\ stack' = [stack EXCEPT ![fp + a] = v]
  /\ UNCHANGED <<fp, call_stack, status>>

Throw ==
  /\ status' = "thrown"
  /\ UNCHANGED <<stack, fp, call_stack>>

-----------------------------------------------------------------------------
op_move(dst, src) == Executing /\ SetReg(dst, Reg(src))

(* Every instruction whose result is not an array: loads of constants and  *)
(* nil, arithmetic, comparisons, len and the counting natives.             *)
op_scalar(dst) == Executing /\ SetReg(dst, Scalar)

(* Mutant: a new frame keeps what its registers held before.               *)
PushFrame_noFill(first_arg, num_args) ==
  /\ fp + first_arg \in Bases
  /\ call_stack' = <<fp>> \o call_stack
  /\ fp' = fp + first_arg
  /\ UNCHANGED stack

(* PushFrame is the tail of op_call once its checks have passed: the new   *)
(* window is set to nil except for the arguments.                          *)
PushFrame(first_arg, num_args) ==
  LET base == fp + first_arg IN
  /\ base \in Bases
  /\ call_stack' = <<fp>> \o call_stack
  /\ fp' = base
  /\ stack' = [r \in Cells |->
                 IF r \in base + num_args .. base + MaxStack - 1
                 THEN Scalar ELSE stack[r]]

op_call(first_arg, num_args, arity) ==
  /\ Executing
  /\ first_arg + num_args <= NumRegs
  /\ IF num_args # arity \/ Len(call_stack) >= CALL_MAX_SIZE
     THEN Throw
     ELSE PushFrame(first_arg, num_args) /\ UNCHANGED status

(* The first instruction of the global code calls main with no arguments.  *)
call_main ==
  /\ status = "start"
  /\ PushFrame(0, 0)
  /\ status' = "running"

PopFrame(result) ==
  /\ stack' = [stack EXCEPT ![fp] = result]
  /\ fp' = Head(call_stack)
  /\ call_stack' = Tail(call_stack)
  /\ UNCHANGED status

op_return(result_reg) == Executing /\ PopFrame(Reg(result_reg))
op_returnnil          == Executing /\ PopFrame(Scalar)

op_halt ==
  /\ status = "running" /\ call_stack = <<>>
  /\ status' = "halted"
  /\ UNCHANGED <<stack, fp, call_stack>>

RegistersNext ==
  \/ \E dst, src \in RegOps : op_move(dst, src)
  \/ \E dst \in RegOps : op_scalar(dst)
  \/ \E b \in RegOps, c, arity \in 0 .. MaxArgs : op_call(b, c, arity)
  \/ call_main
  \/ \E r \in RegOps : op_return(r)
  \/ op_returnnil
  \/ op_halt
=============================================================================
