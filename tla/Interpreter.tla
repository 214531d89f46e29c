----------------------------- MODULE Interpreter -----------------------------
(***************************************************************************)
(* The interpreter loop of vm.cpp on a loaded program, with the JIT        *)
(* switched off: what a program means.  A program maps 0, the global code, *)
(* and each function to its arity and code; an instruction is a record of  *)
(* its opcode and operands.  Arrays are opaque here (ArrayVM models them): *)
(* reading one yields any value of Args or throws.                         *)
(***************************************************************************)
EXTENDS Jit, Sequences

CONSTANTS
  Programs,        \* the programs that may be loaded first
  Reloads,         \* the programs that may be loaded after another one
  Args,            \* values an array element may hold
  StackSize,       \* bound of the model: registers, code: STACK_SIZE
  MaxStack,        \* Function::max_stack, the window of a frame
  CALL_MAX_SIZE,   \* frames the call stack may hold
  MaxLoads         \* bound of the model: programs run one after the other

ASSUME InterpreterAssumption ==
  /\ StackSize \in Nat \ {0} /\ MaxStack \in 1 .. StackSize
  /\ CALL_MAX_SIZE \in Nat /\ MaxLoads \in Nat
  /\ Args \subseteq RegisterValues

(* A function is not empty, its jumps stay inside it (Compiler), and so    *)
(* does every instruction that has a successor.                            *)
Codes == UNION {{p[f].code : f \in DOMAIN p} : p \in Programs \cup Reloads}

ASSUME CodeAssumption ==
  \A code \in Codes :
    /\ Len(code) \in Nat \ {0} /\ DOMAIN code = 1 .. Len(code)
    /\ \A k \in DOMAIN code :
         /\ code[k].op \in {"JMP", "JMPT", "JMPF"} => k + 1 + code[k].b \in DOMAIN code
         /\ \/ code[k].op \in {"JMP", "RETURN", "RETURNNIL", "HALT"}
            \/ k + 1 \in DOMAIN code

VARIABLES
  program,     \* vm.functions and vm.code
  loads,       \* programs loaded so far
  stack,       \* vm.stack
  fp,          \* vm.fp
  ip,          \* vm.ip, as a function and the index of its next instruction
  call_stack,  \* vm.call_stack, the return_ip and base_ptr of each frame
  status       \* "running", "halted"; "thrown" after a runtime_error;
               \* "fault" and "terminated" when the process is gone

frameVars == <<stack, fp, ip, call_stack, status>>
vars == <<program, loads, frameVars>>

Cells   == 0 .. StackSize - 1
Running == status = "running"
Code(f) == program[f].code
Instr   == Code(ip[1])[ip[2]]
Reg(a)  == stack[fp + a]
Goto(k) == <<ip[1], ip[2] + 1 + k>>

Init ==
  /\ program \in Programs
  /\ loads = 1
  /\ stack = [r \in Cells |-> [type |-> 0, low |-> 0]]
  /\ fp = 0
  /\ ip = <<0, 1>>
  /\ call_stack = <<>>
  /\ status = "running"

-----------------------------------------------------------------------------
Throw == status' = "thrown" /\ UNCHANGED <<stack, fp, ip, call_stack>>

(* An instruction that only stores v, or fails.                            *)
Write(a, v) ==
  CASE v = THROW -> Throw
    [] v = TRAP  -> status' = "fault" /\ UNCHANGED <<stack, fp, ip, call_stack>>
    [] OTHER     -> /\ stack' = [stack EXCEPT ![fp + a] = v]
                    /\ ip' = Goto(0)
                    /\ UNCHANGED <<fp, call_stack, status>>

Branch(taken) ==
  /\ ip' = Goto(IF taken THEN Instr.b ELSE 0)
  /\ UNCHANGED <<stack, fp, call_stack, status>>

At(op) == Running /\ Instr.op = op

op_binary == Running /\ Instr.op \in BinaryOps
             /\ Write(Instr.a, Binary(Instr.op, Reg(Instr.b), Reg(Instr.c)))
op_negate == At("NEG") /\ Write(Instr.a, op_neg(Reg(Instr.b)))
op_load   == At("LOADINT") /\ Write(Instr.a, set_int(Instr.b))
op_loadfunc == At("LOADFUNC") /\ Write(Instr.a, set_callable(Instr.b))
op_move   == At("MOVE") /\ Write(Instr.a, Reg(Instr.b))
op_loadnil == At("LOADNIL") /\ Write(Instr.a, Nil)
op_arrget == At("ARRGET") /\ \E v \in Args \cup {THROW} : Write(Instr.a, v)
op_jmp    == At("JMP") /\ Branch(TRUE)
op_jmpt   == At("JMPT") /\ Branch(is_truthy(Reg(Instr.a)))
op_jmpf   == At("JMPF") /\ Branch(~is_truthy(Reg(Instr.a)))

-----------------------------------------------------------------------------
(* Mutant: one frame too many is let in.                                   *)
Refused_late(f, num_args) ==
  num_args # program[f].arity \/ Len(call_stack) > CALL_MAX_SIZE

Refused(f, num_args) ==
  num_args # program[f].arity \/ Len(call_stack) >= CALL_MAX_SIZE

(* The part of op_call that does not depend on how the callee will run.    *)
PushFrame(f, first_arg, num_args) ==
  LET base == fp + first_arg IN
  /\ call_stack' = <<[return_ip |-> Goto(0), base_ptr |-> fp]>> \o call_stack
  /\ fp' = base
  /\ ip' = <<f, 1>>
  /\ stack' = [r \in Cells |-> IF r \in base + num_args .. base + MaxStack - 1
                               THEN Nil ELSE stack[r]]
  /\ UNCHANGED status

(* A callable denotes a function of the program: LOADFUNC makes no other.  *)
Call(f, first_arg, num_args) ==
  f \in DOMAIN program \ {0} /\
  IF Refused(f, num_args) THEN Throw ELSE PushFrame(f, first_arg, num_args)

op_call == At("CALL") /\ Call(Instr.a, Instr.b, Instr.c)

op_invokedyn ==
  /\ At("INVOKEDYNAMIC")
  /\ IF is_callable(Reg(Instr.a))
     THEN Call(Reg(Instr.a).low, Instr.b, Instr.c) ELSE Throw

(* The caller resumes with result in register 0 of the popped frame.       *)
PopFrame(result) ==
  /\ stack' = [stack EXCEPT ![fp] = result]
  /\ fp' = Head(call_stack).base_ptr
  /\ ip' = Head(call_stack).return_ip
  /\ call_stack' = Tail(call_stack)
  /\ UNCHANGED status

op_return    == At("RETURN") /\ PopFrame(Reg(Instr.a))
op_returnnil == At("RETURNNIL") /\ PopFrame(Nil)

op_halt == At("HALT") /\ status' = "halted"
           /\ UNCHANGED <<stack, fp, ip, call_stack>>

(* BytecodeEmitter::initVM on a virtual machine that has stopped: ip, fp   *)
(* and the functions are set, what is on the call stack stays.             *)
initVM ==
  /\ status \in {"halted", "thrown"} /\ loads < MaxLoads
  /\ loads' = loads + 1
  /\ program' \in Reloads
  /\ fp' = 0 /\ ip' = <<0, 1>>
  /\ status' = "running"
  /\ UNCHANGED <<stack, call_stack>>

Simple ==
  \/ op_binary \/ op_negate \/ op_load \/ op_loadfunc \/ op_move \/ op_loadnil
  \/ op_arrget \/ op_jmp \/ op_jmpt \/ op_jmpf
  \/ op_return \/ op_returnnil \/ op_halt

Next ==
  \/ (Simple \/ op_call \/ op_invokedyn) /\ UNCHANGED <<program, loads>>
  \/ initVM

Spec == Init /\ [][Next]_vars
===============================================================================
