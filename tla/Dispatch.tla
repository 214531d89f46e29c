------------------------------- MODULE Dispatch -------------------------------
(***************************************************************************)
(* The virtual machine with the JIT switched on (op_call and invoke_jit of *)
(* vm.cpp, jit_runtime.cpp): a function called HOT_THRESHOLD times is      *)
(* compiled or banned, and compiled code runs in place of its bytecode.    *)
(***************************************************************************)
EXTENDS Interpreter

CONSTANT HOT_THRESHOLD
ASSUME HotAssumption == HOT_THRESHOLD \in Nat \ {0}

VARIABLES
  hotness,   \* Function::hotness, up to HOT_THRESHOLD: more tells no more
  banned,    \* Function::banned
  jitted,    \* Function::jitted, the code it was generated from, <<>> if none
  jip,       \* the next instruction of the compiled code that runs, 0 if none
  diverged   \* history: compiled code has departed from the interpreter

funcVars == <<hotness, banned, jitted>>
allVars  == <<vars, funcVars, jip, diverged>>

Funcs    == DOMAIN hotness
Compiled == Running /\ jip # 0
Target   == jitted[ip[1]]
TInstr   == Target[jip]

DispatchInit ==
  /\ Init
  /\ \E F \in {(UNION {DOMAIN p : p \in Programs \cup Reloads}) \ {0}} :
       /\ hotness = [f \in F |-> 0]
       /\ banned  = [f \in F |-> FALSE]
       /\ jitted  = [f \in F |-> <<>>]
  /\ jip = 0
  /\ diverged = FALSE

-----------------------------------------------------------------------------
(* compile gives up on the instructions it does not know.                  *)
compile_safe(code) ==
  IF \E i \in DOMAIN code : code[i].op \in {"CALL", "HALT", "LOADFUNC"}
  THEN <<>> ELSE code

Interpret == jip' = 0 /\ UNCHANGED diverged
RunNative == jip' = 1 /\ UNCHANGED diverged

(* Mutant: a function that cannot be compiled is not remembered.           *)
Heat_forgets(f) ==
  LET h == hotness[f] + 1
      hot == h >= HOT_THRESHOLD
      native == compile_safe(Code(f))
  IN /\ hotness' = [hotness EXCEPT ![f] = IF hot THEN HOT_THRESHOLD ELSE h]
     /\ UNCHANGED banned
     /\ IF hot /\ native # <<>>
        THEN jitted' = [jitted EXCEPT ![f] = native] /\ RunNative
        ELSE Interpret /\ UNCHANGED jitted

(* Mutant: whether the function is banned is not asked.                    *)
Heat_retries(f) ==
  LET h == hotness[f] + 1
      hot == h >= HOT_THRESHOLD
      native == compile_safe(Code(f))
  IN /\ hotness' = [hotness EXCEPT ![f] = IF hot THEN HOT_THRESHOLD ELSE h]
     /\ IF ~hot
        THEN Interpret /\ UNCHANGED <<banned, jitted>>
        ELSE IF native = <<>>
        THEN /\ banned' = [banned EXCEPT ![f] = TRUE]
             /\ Interpret /\ UNCHANGED jitted
        ELSE /\ jitted' = [jitted EXCEPT ![f] = native]
             /\ RunNative /\ UNCHANGED banned

(* A call of a function that has no compiled code.                         *)
Heat(f) ==
  LET h == hotness[f] + 1
      hot == h >= HOT_THRESHOLD
      native == compile_safe(Code(f))
  IN /\ hotness' = [hotness EXCEPT ![f] = IF hot THEN HOT_THRESHOLD ELSE h]
     /\ IF ~hot \/ banned[f]
        THEN Interpret /\ UNCHANGED <<banned, jitted>>
        ELSE IF native = <<>>
        THEN /\ banned' = [banned EXCEPT ![f] = TRUE]
             /\ Interpret /\ UNCHANGED jitted
        ELSE /\ jitted' = [jitted EXCEPT ![f] = native]
             /\ RunNative /\ UNCHANGED banned

CallHot(f, first_arg, num_args) ==
  f \in DOMAIN program \ {0} /\
  IF Refused(f, num_args)
  THEN Throw /\ UNCHANGED <<funcVars, jip, diverged>>
  ELSE /\ PushFrame(f, first_arg, num_args)
       /\ IF jitted[f] # <<>> THEN RunNative /\ UNCHANGED funcVars ELSE Heat(f)

Step ==
  /\ jip = 0
  /\ \/ Simple /\ UNCHANGED <<funcVars, jip, diverged>>
     \/ At("CALL") /\ CallHot(Instr.a, Instr.b, Instr.c)
     \/ /\ At("INVOKEDYNAMIC")
        /\ IF is_callable(Reg(Instr.a))
           THEN CallHot(Reg(Instr.a).low, Instr.b, Instr.c)
           ELSE Throw /\ UNCHANGED <<funcVars, jip, diverged>>

-----------------------------------------------------------------------------
(* Compiled code.  invoke_jit ignores what it returns and pops the frame:  *)
(* after an error register 0 of the callee is as the callee left it.       *)
invoke_jit_return(result) == PopFrame(result) /\ jip' = 0

JitWrite(a, v) ==
  CASE v = THROW -> invoke_jit_return(stack[fp])
    [] v = TRAP  -> /\ status' = "fault"
                    /\ UNCHANGED <<stack, fp, ip, call_stack, jip>>
    [] OTHER     -> /\ stack' = [stack EXCEPT ![fp + a] = v]
                    /\ jip' = jip + 1
                    /\ UNCHANGED <<fp, ip, call_stack, status>>

JitBranch(taken) ==
  /\ jip' = jip + 1 + (IF taken THEN TInstr.b ELSE 0)
  /\ UNCHANGED frameVars

(* The registers the compiled instruction reads.                           *)
Operands ==
  LET i == TInstr IN
  CASE i.op \in BinaryOps         -> {Reg(i.a), Reg(i.b), Reg(i.c)}
    [] i.op \in {"MOVE", "NEG"}   -> {Reg(i.b)}
    [] i.op \in {"JMPT", "JMPF"}  -> {Reg(i.a)}
    [] OTHER                      -> {}

(* When the compiled instruction departs from the interpreter's: in code   *)
(* of an earlier program, on the operands listed in Jit, in a call, and on *)
(* an operand beyond the stack, which nobody checks.                       *)
Departs ==
  LET i == TInstr IN
  \/ Target # Code(ip[1])
  \/ ~(Operands \subseteq RegisterValues)
  \/ i.op \in BinaryOps
     /\ BinaryDiverges(i.op, Reg(i.a).low, Reg(i.b), Reg(i.c))
  \/ i.op = "NEG" /\ NegDiverges(Reg(i.b))
  \/ i.op \in {"JMPT", "JMPF"} /\ TruthDiverges(Reg(i.a))
  \/ i.op = "INVOKEDYNAMIC"

(* A C++ exception has no way through compiled frames: it ends the process. *)
JitArrget(a) ==
  \/ /\ \E v \in Args : JitWrite(a, v)
     /\ diverged' = (diverged \/ Departs)
  \/ /\ status' = "terminated" /\ diverged' = TRUE
     /\ UNCHANGED <<stack, fp, ip, call_stack, jip>>

JitInstr ==
  LET i == TInstr IN
  \/ /\ i.op \in BinaryOps
     /\ JitWrite(i.a, JitBinary(i.op, Reg(i.a).low, Reg(i.b), Reg(i.c)))
  \/ i.op = "NEG" /\ JitWrite(i.a, JitNeg(Reg(i.b)))
  \/ i.op = "LOADINT" /\ JitWrite(i.a, set_int(i.b))
  \/ i.op = "MOVE" /\ JitWrite(i.a, Reg(i.b))
  \/ i.op = "LOADNIL" /\ JitWrite(i.a, Nil)
  \/ i.op = "JMP" /\ JitBranch(TRUE)
  \/ i.op = "JMPT" /\ JitBranch(JitTruth(Reg(i.a)))
  \/ i.op = "JMPF" /\ JitBranch(~JitTruth(Reg(i.a)))
  \/ i.op = "RETURN" /\ invoke_jit_return(Reg(i.a))
  \/ i.op = "RETURNNIL" /\ invoke_jit_return(Nil)
  \/ i.op = "INVOKEDYNAMIC" /\ JitBranch(FALSE)   \* no code is generated

JitStep ==
  /\ Compiled
  /\ \/ JitInstr /\ diverged' = (diverged \/ Departs)
     \/ TInstr.op = "ARRGET" /\ JitArrget(TInstr.a)
  /\ UNCHANGED funcVars

DispatchNext ==
  \/ (Step \/ JitStep) /\ UNCHANGED <<program, loads>>
  \/ initVM /\ UNCHANGED <<funcVars, jip, diverged>>

DispatchSpec == DispatchInit /\ [][DispatchNext]_allVars

-----------------------------------------------------------------------------
(* Every frame, address and flag has its type, and compiled code only runs *)
(* in a frame of a function that has some, inside that code.               *)
DispatchTypeOK ==
  /\ program \in Programs \cup Reloads
  /\ stack \in [Cells -> RegisterValues]
  /\ fp \in Cells
  /\ Len(call_stack) <= CALL_MAX_SIZE
  /\ \A k \in DOMAIN call_stack : call_stack[k].base_ptr \in Cells
  /\ status \in {"running", "halted", "thrown", "fault", "terminated"}
  /\ hotness \in [Funcs -> 0 .. HOT_THRESHOLD]
  /\ banned \in [Funcs -> BOOLEAN]
  /\ Running => ip[1] \in DOMAIN program /\ ip[2] \in DOMAIN Code(ip[1])
  /\ jip # 0 => ip[1] \in Funcs /\ jip \in DOMAIN Target

(* Whatever the order of the calls, and across programs, a function that   *)
(* has become hot has compiled code or is banned, never both, and none is  *)
(* either before it is hot.                                                *)
Settled ==
  \A f \in Funcs :
    /\ jitted[f] # <<>> => ~banned[f]
    /\ (jitted[f] # <<>> \/ banned[f]) <=> hotness[f] = HOT_THRESHOLD

(* op_call's decision is final: a function is compiled at most once and    *)
(* tried at most once (vm.cpp:289-305).                                    *)
Final ==
  [][\A f \in Funcs :
       banned[f] \/ jitted[f] # <<>> =>
         banned'[f] = banned[f] /\ jitted'[f] = jitted[f]]_allVars

(* Until it meets one of the departures listed in Jit and in Departs, the  *)
(* machine with the JIT does exactly what the interpreter does: the same   *)
(* registers, frames, results, errors and returns, one instruction at a    *)
(* time, whichever functions are compiled and whenever that happens.       *)
Plain == INSTANCE Interpreter WITH ip <- IF jip = 0 THEN ip ELSE <<ip[1], jip>>

ImplementsInterpreter ==
  Plain!Init /\ [][diverged' \/ Plain!Next]_<<Plain!vars, diverged>>

(* vm.h:83-86 on the operands the language can compare: after a < b on two *)
(* floats the result register holds 1 if a < b and 0 otherwise.            *)
FloatLessIsLess ==
  [][/\ Compiled /\ TInstr.op = "LT" /\ jip' = jip + 1
     /\ BothFloat(Reg(TInstr.b), Reg(TInstr.c))
     => stack'[fp + TInstr.a]
          = Truth(FloatLess(Reg(TInstr.b).low, Reg(TInstr.c).low))]_allVars

(* vm.h:113-117: a call runs the code at the function's entry_point, not   *)
(* code generated from what an earlier program had there.                  *)
RunsLoadedProgram == Compiled => Target = Code(ip[1])
===============================================================================
