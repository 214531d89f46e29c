---------------------------- MODULE Dispatch_proofs ---------------------------
(***************************************************************************)
(* Proofs about Dispatch, for every program, every width of a value, every *)
(* threshold and every size of the stacks.                                 *)
(***************************************************************************)
EXTENDS Dispatch, Jit_proofs

(* What the functions table holds.                                         *)
TableOK ==
  /\ hotness \in [Funcs -> 0 .. HOT_THRESHOLD]
  /\ banned \in [Funcs -> BOOLEAN]
  /\ jitted \in [Funcs -> Codes \cup {<<>>}]
  /\ program \in Programs \cup Reloads
  /\ \A p \in Programs \cup Reloads : DOMAIN p \ {0} \subseteq Funcs

(* Compiled code runs inside itself, and not in a machine that has halted. *)
PositionOK ==
  /\ jip # 0 => ip[1] \in Funcs /\ jip \in DOMAIN Target
  /\ status \in {"halted", "thrown"} => jip = 0

IInv == TableOK /\ Settled /\ PositionOK

-----------------------------------------------------------------------------
LEMMA CodeFacts ==
  ASSUME NEW code \in Codes
  PROVE  /\ 1 \in DOMAIN code
         /\ DOMAIN code \subseteq Nat \ {0}
         /\ code # <<>>
PROOF
  <1>1. Len(code) \in Nat \ {0} /\ DOMAIN code = 1 .. Len(code)
    BY CodeAssumption
  <1>2. code = <<>> => Len(code) = 0
    OBVIOUS
  <1> QED BY <1>1, <1>2

LEMMA InitSettled == DispatchInit => IInv
PROOF
  <1> SUFFICES ASSUME DispatchInit PROVE IInv
    OBVIOUS
  <1>1. TableOK
    BY HotAssumption DEF DispatchInit, Init, TableOK, Funcs
  <1>2. Settled
    BY HotAssumption DEF DispatchInit, Settled, Funcs
  <1>3. PositionOK
    BY DEF DispatchInit, Init, PositionOK
  <1> QED BY <1>1, <1>2, <1>3 DEF IInv

-----------------------------------------------------------------------------
(* A call of a function of the program that has no compiled code.          *)
LEMMA HeatTable ==
  ASSUME IInv, NEW f \in DOMAIN program \ {0}, jitted[f] = <<>>, Heat(f),
         UNCHANGED program
  PROVE  /\ TableOK' /\ Settled'
         /\ jip' # 0 => jip' \in DOMAIN jitted'[f]
PROOF
  <1> DEFINE native == compile_safe(Code(f))
             h == hotness[f] + 1
             hot == h >= HOT_THRESHOLD
  <1>1. f \in Funcs /\ Code(f) \in Codes
    BY DEF IInv, TableOK, Code, Codes
  <1>2. native \in {<<>>, Code(f)}
    BY DEF compile_safe
  <1>3. hotness[f] \in 0 .. HOT_THRESHOLD /\ banned[f] \in BOOLEAN
        /\ (banned[f] <=> hotness[f] = HOT_THRESHOLD)
    BY <1>1 DEF IInv, TableOK, Settled
  <1>4. hotness' = [hotness EXCEPT ![f] = IF hot THEN HOT_THRESHOLD ELSE h]
    BY DEF Heat
  <1>5. Funcs' = Funcs /\ hotness' \in [Funcs -> 0 .. HOT_THRESHOLD]
    BY <1>1, <1>3, <1>4, HotAssumption DEF IInv, TableOK, Funcs
  <1>6. CASE ~hot \/ banned[f]
    <2>1. UNCHANGED <<banned, jitted>> /\ jip' = 0
      BY <1>6 DEF Heat, Interpret
    <2>2. TableOK'
      BY <2>1, <1>5 DEF IInv, TableOK
    <2>3. ASSUME NEW g \in Funcs
          PROVE  hotness'[g] = HOT_THRESHOLD <=> hotness[g] = HOT_THRESHOLD
      BY <1>1, <1>3, <1>4, <1>6, HotAssumption DEF IInv, TableOK, Funcs
    <2> QED BY <2>1, <2>2, <2>3, <1>5 DEF IInv, Settled
  <1>7. CASE hot /\ ~banned[f] /\ native = <<>>
    <2>1. /\ banned' = [banned EXCEPT ![f] = TRUE]
          /\ jitted' = jitted /\ jip' = 0
      BY <1>7 DEF Heat, Interpret
    <2>2. hotness' = [hotness EXCEPT ![f] = HOT_THRESHOLD]
      BY <1>4, <1>7
    <2>3. TableOK'
      BY <2>1, <1>1, <1>5 DEF IInv, TableOK
    <2> QED BY <2>1, <2>2, <2>3, <1>1, <1>5 DEF IInv, Settled, TableOK, Funcs
  <1>8. CASE hot /\ ~banned[f] /\ native # <<>>
    <2>1. /\ jitted' = [jitted EXCEPT ![f] = native]
          /\ banned' = banned /\ jip' = 1
      BY <1>8 DEF Heat, RunNative
    <2>2. hotness' = [hotness EXCEPT ![f] = HOT_THRESHOLD]
      BY <1>4, <1>8
    <2>3. native \in Codes /\ 1 \in DOMAIN native
      BY <1>1, <1>2, <1>8, CodeFacts
    <2>4. TableOK'
      BY <2>1, <2>3, <1>1, <1>5 DEF IInv, TableOK
    <2> QED BY <2>1, <2>2, <2>3, <2>4, <1>1, <1>5, <1>8
            DEF IInv, Settled, TableOK, Funcs
  <1> QED BY <1>6, <1>7, <1>8

-----------------------------------------------------------------------------
(* Every other step of the machine leaves the table alone.                 *)
LEMMA TableStays ==
  ASSUME IInv, UNCHANGED <<funcVars, program>>
  PROVE  TableOK' /\ Settled'
PROOF
  <1> SUFFICES ASSUME hotness' = hotness, banned' = banned, jitted' = jitted,
                      program' = program
               PROVE  TableOK' /\ Settled'
    BY DEF funcVars
  <1> QED BY DEF IInv, TableOK, Settled, Funcs

LEMMA CallStep ==
  ASSUME IInv, Running, jip = 0, NEW f, NEW first_arg, NEW num_args,
         CallHot(f, first_arg, num_args), UNCHANGED program
  PROVE  IInv'
PROOF
  <1>1. CASE Refused(f, num_args)
    <2>1. UNCHANGED <<funcVars, program>> /\ jip' = 0
      BY <1>1 DEF CallHot
    <2> QED BY <2>1, TableStays DEF IInv, PositionOK
  <1>2. CASE ~Refused(f, num_args)
    <2>1. f \in DOMAIN program \ {0} /\ f \in Funcs
      BY <1>2 DEF CallHot, IInv, TableOK
    <2>2. ip'[1] = f /\ ~(status' \in {"halted", "thrown"})
      BY <1>2 DEF CallHot, PushFrame, Running
    <2>3. CASE jitted[f] # <<>>
      <3>1. UNCHANGED <<funcVars, program>> /\ jip' = 1
        BY <1>2, <2>3 DEF CallHot, RunNative
      <3>2. 1 \in DOMAIN jitted[f]
        BY <2>1, <2>3, CodeFacts DEF IInv, TableOK
      <3> QED BY <3>1, <3>2, <2>1, <2>2, TableStays
              DEF IInv, PositionOK, Target, funcVars, Funcs
    <2>4. CASE jitted[f] = <<>>
      <3>1. Heat(f)
        BY <1>2, <2>4 DEF CallHot
      <3>2. /\ TableOK' /\ Settled'
            /\ jip' # 0 => jip' \in DOMAIN jitted'[f]
        BY <2>1, <2>4, <3>1, HeatTable
      <3>3. Funcs' = Funcs
        BY <3>1, <2>1 DEF Heat, Funcs, IInv, TableOK
      <3> QED BY <3>2, <3>3, <2>1, <2>2 DEF IInv, PositionOK, Target
    <2> QED BY <2>3, <2>4
  <1> QED BY <1>1, <1>2

LEMMA StepKeeps ==
  ASSUME IInv, Step, UNCHANGED program
  PROVE  IInv'
PROOF
  <1>1. jip = 0
    BY DEF Step
  <1>2. CASE Simple /\ UNCHANGED <<funcVars, jip, diverged>>
    BY <1>1, <1>2, TableStays DEF IInv, PositionOK
  <1>3. CASE At("CALL") /\ CallHot(Instr.a, Instr.b, Instr.c)
    BY <1>1, <1>3, CallStep DEF At
  <1>4. CASE /\ At("INVOKEDYNAMIC")
             /\ CallHot(Reg(Instr.a).low, Instr.b, Instr.c)
    BY <1>1, <1>4, CallStep DEF At
  <1>5. CASE Throw /\ UNCHANGED <<funcVars, jip, diverged>>
    BY <1>1, <1>5, TableStays DEF IInv, PositionOK
  <1> QED BY <1>2, <1>3, <1>4, <1>5 DEF Step

-----------------------------------------------------------------------------
(* A compiled instruction: jip moves inside the code, or back to 0.        *)
LEMMA NextInside ==
  ASSUME IInv, Compiled
  PROVE  /\ jip \in Nat \ {0} /\ 0 \notin DOMAIN Target
         /\ TInstr.op \in {"JMP", "JMPT", "JMPF"}
              => jip + 1 + TInstr.b \in DOMAIN Target
         /\ TInstr.op \notin {"JMP", "RETURN", "RETURNNIL", "HALT"}
              => jip + 1 \in DOMAIN Target
PROOF
  <1>1. ip[1] \in Funcs /\ jip \in DOMAIN Target
    BY DEF IInv, PositionOK, Compiled
  <1>2. Target # <<>>
    <2> SUFFICES ASSUME Target = <<>> PROVE FALSE
      OBVIOUS
    <2> QED BY <1>1, Len(<<>>) = 0
  <1>3. Target \in Codes
    BY <1>1, <1>2 DEF IInv, TableOK, Target
  <1> QED BY <1>1, <1>3, CodeFacts, CodeAssumption DEF TInstr

LEMMA JitKeeps ==
  ASSUME IInv, JitStep, UNCHANGED program
  PROVE  IInv'
PROOF
  <1>1. TableOK' /\ Settled'
    BY TableStays DEF JitStep
  <1>2. ip[1] \in Funcs /\ Compiled
    BY DEF IInv, PositionOK, JitStep, Compiled
  <1>3. jitted' = jitted /\ Funcs' = Funcs
    BY DEF JitStep, funcVars, Funcs
  <1>4. ASSUME NEW k, jip' = k, UNCHANGED <<ip, status>>, k \in DOMAIN Target
        PROVE  PositionOK'
    BY <1>2, <1>3, <1>4 DEF PositionOK, Compiled, Running, Target
  <1>5. ASSUME NEW r, invoke_jit_return(r)
        PROVE  PositionOK'
    BY <1>5 DEF PositionOK, invoke_jit_return
  <1>6. ASSUME UNCHANGED <<ip, jip>>, status' \in {"fault", "terminated"}
        PROVE  PositionOK'
    BY <1>2, <1>3, <1>6 DEF PositionOK, Compiled, Target, IInv
  <1>7. ASSUME NEW a, NEW v, JitWrite(a, v),
               TInstr.op \notin {"JMP", "RETURN", "RETURNNIL", "HALT"}
        PROVE  PositionOK'
    BY <1>2, <1>4, <1>5, <1>6, <1>7, NextInside DEF JitWrite
  <1>8. ASSUME NEW taken \in BOOLEAN, JitBranch(taken),
               TInstr.op \in {"JMP", "JMPT", "JMPF", "INVOKEDYNAMIC"},
               TInstr.op = "JMP" => taken, TInstr.op = "INVOKEDYNAMIC" => ~taken
        PROVE  PositionOK'
    BY <1>2, <1>4, <1>8, NextInside DEF JitBranch, frameVars
  <1>9. ASSUME JitInstr PROVE PositionOK'
    BY <1>5, <1>7, <1>8, <1>9 DEF JitInstr, BinaryOps, JitTruth
  <1>10. ASSUME TInstr.op = "ARRGET", JitArrget(TInstr.a) PROVE PositionOK'
    BY <1>6, <1>7, <1>10 DEF JitArrget
  <1> QED BY <1>1, <1>9, <1>10 DEF IInv, JitStep

LEMMA LoadKeeps ==
  ASSUME IInv, initVM, UNCHANGED <<funcVars, jip, diverged>>
  PROVE  IInv'
PROOF
  <1> SUFFICES ASSUME hotness' = hotness, banned' = banned, jitted' = jitted,
                      jip' = jip, program' \in Reloads, jip = 0
               PROVE  IInv'
    BY DEF funcVars, initVM, IInv, PositionOK
  <1>1. TableOK'
    BY DEF IInv, TableOK, Funcs
  <1>2. Settled' /\ PositionOK'
    BY DEF IInv, Settled, PositionOK, Funcs
  <1> QED BY <1>1, <1>2 DEF IInv

LEMMA Inductive ==
  ASSUME IInv, [DispatchNext]_allVars
  PROVE  IInv'
PROOF
  <1>1. CASE (Step \/ JitStep) /\ UNCHANGED <<program, loads>>
    BY <1>1, StepKeeps, JitKeeps
  <1>2. CASE initVM /\ UNCHANGED <<funcVars, jip, diverged>>
    BY <1>2, LoadKeeps
  <1>3. CASE UNCHANGED allVars
    BY <1>3 DEF allVars, funcVars, vars, frameVars, IInv, TableOK, Settled,
                PositionOK, Funcs, Target
  <1> QED BY <1>1, <1>2, <1>3 DEF DispatchNext

LEMMA Invariance == DispatchSpec => []IInv
PROOF
  <1>1. IInv /\ [DispatchNext]_allVars => IInv'
    BY Inductive
  <1> QED BY <1>1, InitSettled, PTL DEF DispatchSpec

(* In every run of every sequence of programs, a function that has become  *)
(* hot has compiled code or is banned, never both (op_call of vm.cpp).     *)
THEOREM AlwaysSettled == DispatchSpec => []Settled
PROOF
  <1>1. IInv => Settled
    BY DEF IInv
  <1> QED BY <1>1, Invariance, PTL

-----------------------------------------------------------------------------
Kept ==
  \A f \in Funcs :
    banned[f] \/ jitted[f] # <<>> =>
      banned'[f] = banned[f] /\ jitted'[f] = jitted[f]

LEMMA TableKept ==
  ASSUME UNCHANGED funcVars
  PROVE  Kept
BY DEF Kept, funcVars

LEMMA CallDecides ==
  ASSUME IInv, NEW f, NEW first_arg, NEW num_args,
         CallHot(f, first_arg, num_args)
  PROVE  Kept
PROOF
  <1>1. CASE UNCHANGED funcVars
    BY <1>1, TableKept
  <1>2. CASE f \in DOMAIN program \ {0} /\ jitted[f] = <<>> /\ Heat(f)
    <2>1. f \in Funcs
      BY <1>2 DEF IInv, TableOK
    <2>2. banned[f] => UNCHANGED <<banned, jitted>>
      BY <1>2 DEF Heat
    <2>3. ASSUME NEW g \in Funcs, g # f
          PROVE  banned'[g] = banned[g] /\ jitted'[g] = jitted[g]
      BY <1>2, <2>1, <2>3 DEF Heat, IInv, TableOK
    <2> QED BY <1>2, <2>2, <2>3 DEF Kept
  <1> QED BY <1>1, <1>2 DEF CallHot

LEMMA Decided ==
  ASSUME IInv, [DispatchNext]_allVars
  PROVE  Kept
PROOF
  <1>1. CASE UNCHANGED funcVars
    BY <1>1, TableKept
  <1>2. CASE Step
    BY <1>1, <1>2, CallDecides DEF Step
  <1>3. CASE JitStep
    BY <1>1, <1>3 DEF JitStep
  <1> QED BY <1>1, <1>2, <1>3 DEF DispatchNext, allVars

(* A function that has been compiled, or found impossible to compile, is   *)
(* never taken up again, whatever is called and loaded after it (op_call). *)
THEOREM AlwaysFinal == DispatchSpec => Final
PROOF
  <1>1. IInv /\ [DispatchNext]_allVars => [Kept]_allVars
    BY Decided
  <1>2. DispatchSpec => [][Kept]_allVars
    BY <1>1, Invariance, PTL DEF DispatchSpec
  <1> QED BY <1>2 DEF Final, Kept

-----------------------------------------------------------------------------
(* What stale_code shows needs a second program: in the first one every    *)
(* function is compiled, if at all, from its own code.                     *)
OwnCode ==
  /\ loads \in Nat \ {0}
  /\ loads = 1 => \A f \in Funcs : jitted[f] \in {<<>>, Code(f)}

LEMMA HeatOwn ==
  ASSUME IInv, OwnCode, NEW f \in Funcs, Heat(f), UNCHANGED <<program, loads>>
  PROVE  OwnCode'
PROOF
  <1> DEFINE native == compile_safe(Code(f))
  <1>1. native \in {<<>>, Code(f)}
    BY DEF compile_safe
  <1>2. jitted' = jitted \/ jitted' = [jitted EXCEPT ![f] = native]
    BY DEF Heat
  <1>3. Funcs' = Funcs
    BY DEF Heat, Funcs, IInv, TableOK
  <1>4. ASSUME NEW g \in Funcs PROVE jitted'[g] \in {jitted[g], <<>>, Code(g)}
    BY <1>1, <1>2 DEF IInv, TableOK
  <1> QED BY <1>3, <1>4 DEF OwnCode, Code

LEMMA OwnStays ==
  ASSUME OwnCode, UNCHANGED <<funcVars, program, loads>>
  PROVE  OwnCode'
BY DEF OwnCode, Funcs, Code, funcVars

LEMMA CallOwn ==
  ASSUME IInv, OwnCode, NEW f, NEW first_arg, NEW num_args,
         CallHot(f, first_arg, num_args), UNCHANGED <<program, loads>>
  PROVE  OwnCode'
PROOF
  <1>1. CASE UNCHANGED funcVars
    BY <1>1, OwnStays
  <1>2. CASE f \in DOMAIN program \ {0} /\ Heat(f)
    BY <1>2, HeatOwn DEF IInv, TableOK
  <1> QED BY <1>1, <1>2 DEF CallHot

LEMMA OwnKeeps ==
  ASSUME IInv, OwnCode, [DispatchNext]_allVars
  PROVE  OwnCode'
PROOF
  <1>1. CASE Step /\ UNCHANGED <<program, loads>>
    BY <1>1, CallOwn, OwnStays DEF Step
  <1>2. CASE JitStep /\ UNCHANGED <<program, loads>>
    BY <1>2, OwnStays DEF JitStep
  <1>3. CASE initVM
    BY <1>3 DEF initVM, OwnCode
  <1>4. CASE UNCHANGED allVars
    BY <1>4, OwnStays DEF allVars, vars
  <1> QED BY <1>1, <1>2, <1>3, <1>4 DEF DispatchNext

(* As long as no second program is loaded, compiled code is generated from *)
(* the function it runs for (op_call and compile_safe of vm.cpp).          *)
THEOREM FirstProgramRuns == DispatchSpec => [](loads = 1 => RunsLoadedProgram)
PROOF
  <1>1. DispatchInit => OwnCode
    BY DEF DispatchInit, Init, OwnCode, Funcs
  <1>2. IInv /\ OwnCode /\ [DispatchNext]_allVars => OwnCode'
    BY OwnKeeps
  <1>3. IInv /\ OwnCode => (loads = 1 => RunsLoadedProgram)
    <2> SUFFICES ASSUME IInv, OwnCode, loads = 1, Compiled
                 PROVE  Target = Code(ip[1])
      BY DEF RunsLoadedProgram
    <2>1. ip[1] \in Funcs /\ jip \in DOMAIN Target
      BY DEF IInv, PositionOK, Compiled
    <2>2. Target # <<>>
      BY <2>1, DOMAIN <<>> = {}
    <2> QED BY <2>1, <2>2 DEF OwnCode, Target
  <1> QED BY <1>1, <1>2, <1>3, Invariance, PTL DEF DispatchSpec

-----------------------------------------------------------------------------
(***************************************************************************)
(* Types, and frames inside the stack.  Nobody checks that a frame lies in *)
(* the stack, so this holds of programs that fit it: operands name         *)
(* registers below W, the frame of a callee begins at most B registers     *)
(* above its caller's, and calls nest at most D deep, with room for the    *)
(* deepest frame.  The compiler adds no return to the global code (initVM  *)
(* of the emitter), and a callable has to fit a value.                     *)
(***************************************************************************)
RegistersOf(i) ==
  CASE i.op \in BinaryOps       -> {i.a, i.b, i.c}
    [] i.op \in {"NEG", "MOVE"} -> {i.a, i.b}
    [] i.op \in {"LOADINT", "LOADFUNC", "LOADNIL", "ARRGET", "JMPT", "JMPF",
                 "RETURN", "INVOKEDYNAMIC"} -> {i.a}
    [] OTHER -> {}

InstrFits(i, B, W) ==
  /\ RegistersOf(i) \subseteq 0 .. W - 1
  /\ i.op \in {"CALL", "INVOKEDYNAMIC"} => i.b \in 0 .. B
  /\ i.op = "LOADINT" => i.b \in Int
  /\ i.op = "LOADFUNC" => i.b \in Low

ProgramFits(p, B, W) ==
  /\ 0 \in DOMAIN p
  /\ \A k \in DOMAIN p[0].code : p[0].code[k].op \notin {"RETURN", "RETURNNIL"}
  /\ \A f \in DOMAIN p : \A k \in DOMAIN p[f].code : InstrFits(p[f].code[k], B, W)

Fits(D, B, W) ==
  /\ D \in Nat /\ B \in Nat /\ W \in Nat \ {0}
  /\ D * B + W <= StackSize
  /\ \A p \in Programs \cup Reloads : ProgramFits(p, B, W)

Position(q) == q[1] \in DOMAIN program /\ q[2] \in DOMAIN Code(q[1])

Frames == [return_ip : (Funcs \cup {0}) \X Nat, base_ptr : Cells]

FramesType ==
  /\ stack \in [Cells -> RegisterValues]
  /\ fp \in Cells
  /\ 0 \notin Funcs /\ ip \in (Funcs \cup {0}) \X Nat
  /\ call_stack \in Seq(Frames) /\ Len(call_stack) <= CALL_MAX_SIZE
  /\ status \in {"running", "halted", "thrown", "fault", "terminated"}

(* The d topmost frames are those of the program that runs: they lead back *)
(* to its global code, each begins at most B above the one it returns to.  *)
(* Frames below them are left by an earlier program that threw.            *)
AtDepth(d, B) ==
  /\ fp <= d * B
  /\ (d = 0) <=> (ip[1] = 0)
  /\ \A k \in 1 .. d :
       /\ Position(call_stack[k].return_ip)
       /\ call_stack[k].base_ptr <= (d - k) * B
       /\ (k = d) <=> (call_stack[k].return_ip[1] = 0)

Nested(B) ==
  Running => Position(ip) /\ \E d \in 0 .. Len(call_stack) : AtDepth(d, B)

FInv(B) == FramesType /\ Nested(B)

-----------------------------------------------------------------------------
(* Every instruction that can run is one of a program that fits.           *)
LEMMA CodeFits ==
  ASSUME NEW D, NEW B, NEW W, Fits(D, B, W),
         NEW code \in Codes, NEW k \in DOMAIN code
  PROVE  InstrFits(code[k], B, W)
BY DEF Codes, Fits, ProgramFits

LEMMA CodeOfProgram ==
  ASSUME IInv, NEW f \in DOMAIN program
  PROVE  Code(f) \in Codes /\ f \in Funcs \cup {0}
BY DEF IInv, TableOK, Code, Codes

LEMMA TargetCode ==
  ASSUME IInv, Compiled
  PROVE  /\ ip[1] \in Funcs /\ Target \in Codes /\ jip \in DOMAIN Target
PROOF
  <1>1. ip[1] \in Funcs /\ jip \in DOMAIN Target
    BY DEF IInv, PositionOK, Compiled
  <1>2. Target # <<>>
    <2> SUFFICES ASSUME Target = <<>> PROVE FALSE
      OBVIOUS
    <2> QED BY <1>1, Len(<<>>) = 0
  <1> QED BY <1>1, <1>2 DEF IInv, TableOK, Target

(* A frame that is d deep has room for its registers.                      *)
LEMMA Room ==
  ASSUME NEW D, NEW B, NEW W, Fits(D, B, W), NEW d \in Nat, d <= D
  PROVE  d * B \in Nat /\ d * B + W <= StackSize
PROOF
  <1>1. D \in Nat /\ B \in Nat /\ W \in Nat /\ D * B + W <= StackSize
    BY DEF Fits
  <1>2. StackSize \in Nat
    BY InterpreterAssumption
  <1>3. D - d \in Nat
    BY <1>1
  <1>4. (D - d) * B \in Nat /\ d * B \in Nat /\ D * B = d * B + (D - d) * B
    BY <1>1, <1>3
  <1> QED BY <1>1, <1>2, <1>4

LEMMA Registered ==
  ASSUME NEW D, NEW B, NEW W, Fits(D, B, W), FInv(B), Running,
         Len(call_stack) <= D, NEW a \in 0 .. W - 1
  PROVE  fp + a \in Cells /\ Reg(a) \in RegisterValues
PROOF
  <1>1. PICK d \in 0 .. Len(call_stack) : AtDepth(d, B)
    BY DEF FInv, Nested
  <1>2. Len(call_stack) \in Nat /\ D \in Nat /\ W \in Nat
    BY DEF FInv, FramesType, Fits
  <1>3. d \in Nat /\ d <= D
    BY <1>1, <1>2
  <1>4. d * B \in Nat /\ d * B + W <= StackSize
    BY <1>3, Room
  <1>5. fp \in Nat /\ fp <= d * B
    BY <1>1 DEF FInv, FramesType, Cells, AtDepth
  <1>6. StackSize \in Nat
    BY InterpreterAssumption
  <1>7. fp + a \in Cells
    BY <1>2, <1>4, <1>5, <1>6 DEF Cells
  <1> QED BY <1>7 DEF Reg, FInv, FramesType

-----------------------------------------------------------------------------
(* A step inside a frame.                                                  *)
LEMMA MoveFits ==
  ASSUME NEW B, IInv, FInv(B), Running, UNCHANGED <<program, fp, call_stack>>,
         Funcs' = Funcs, stack' \in [Cells -> RegisterValues],
         status' \in {"running", "halted", "thrown", "fault", "terminated"},
         \/ ip' = ip
         \/ \E n \in DOMAIN Code(ip[1]) : ip' = <<ip[1], n>>
  PROVE  FInv(B)'
PROOF
  <1>1. Position(ip) /\ ip \in (Funcs \cup {0}) \X Nat
    BY DEF FInv, FramesType, Nested
  <1>2. DOMAIN Code(ip[1]) \subseteq Nat
    BY <1>1, CodeOfProgram, CodeFacts DEF Position
  <1>3. ip' \in (Funcs \cup {0}) \X Nat /\ ip'[1] = ip[1] /\ Position(ip)'
    BY <1>1, <1>2 DEF Position, Code
  <1>4. Frames' = Frames
    BY DEF Frames
  <1>5. FramesType'
    BY <1>3, <1>4 DEF FInv, FramesType
  <1>6. PICK d \in 0 .. Len(call_stack) : AtDepth(d, B)
    BY DEF FInv, Nested
  <1>7. AtDepth(d, B)'
    BY <1>3, <1>6 DEF AtDepth, Position, Code
  <1> QED BY <1>3, <1>5, <1>6, <1>7 DEF FInv, Nested

(* A call: the new frame is one deeper.                                    *)
LEMMA PushFits ==
  ASSUME NEW D, NEW B, NEW W, Fits(D, B, W), IInv, FInv(B), Running,
         NEW f \in DOMAIN program \ {0}, NEW first_arg \in 0 .. B, NEW num_args,
         ~Refused(f, num_args), PushFrame(f, first_arg, num_args),
         ip[2] + 1 \in DOMAIN Code(ip[1]),
         program' = program, Funcs' = Funcs, Len(call_stack') <= D
  PROVE  FInv(B)'
PROOF
  <1> DEFINE top == [return_ip |-> <<ip[1], ip[2] + 1>>, base_ptr |-> fp]
  <1>1. /\ Position(ip) /\ ip \in (Funcs \cup {0}) \X Nat
        /\ fp \in Cells /\ call_stack \in Seq(Frames)
        /\ Len(call_stack) <= CALL_MAX_SIZE
    BY DEF FInv, FramesType, Nested
  <1>2. /\ call_stack' = <<top>> \o call_stack
        /\ fp' = fp + first_arg /\ ip' = <<f, 1>> /\ status' = status
    <2>1. Goto(0) = <<ip[1], ip[2] + 1>>
      BY <1>1 DEF Goto
    <2> QED BY <2>1 DEF PushFrame
  <1>3. top \in Frames
    BY <1>1 DEF Frames
  <1>4. /\ call_stack' \in Seq(Frames)
        /\ Len(call_stack') = Len(call_stack) + 1
        /\ call_stack'[1] = top
        /\ \A k \in 2 .. Len(call_stack') : call_stack'[k] = call_stack[k - 1]
    <2> HIDE DEF top
    <2> QED BY <1>1, <1>2, <1>3
  <1>5. Len(call_stack') <= CALL_MAX_SIZE
    <2>1. Len(call_stack) \in Nat /\ Len(call_stack) < CALL_MAX_SIZE
      BY <1>1, InterpreterAssumption DEF Refused
    <2> QED BY <1>4, <2>1, InterpreterAssumption
  <1>6. PICK d \in 0 .. Len(call_stack) : AtDepth(d, B)
    BY DEF FInv, Nested
  <1>7. /\ B \in Nat /\ D \in Nat /\ W \in Nat \ {0} /\ d \in Nat
        /\ d + 1 \in 0 .. Len(call_stack') /\ d + 1 <= D
    BY <1>1, <1>4, <1>6 DEF Fits
  <1>8. (d + 1) * B = d * B + B /\ d * B \in Nat
    BY <1>7
  <1>9. fp' <= (d + 1) * B /\ fp' \in Nat
    BY <1>1, <1>2, <1>6, <1>7, <1>8 DEF AtDepth, Cells
  <1>10. fp' \in Cells
    <2>1. d + 1 \in Nat
      BY <1>7
    <2>2. (d + 1) * B + W <= StackSize
      BY <1>7, <2>1, Room
    <2> QED BY <1>7, <1>8, <1>9, <2>2, InterpreterAssumption DEF Cells
  <1>11. Code(f) \in Codes /\ f \in Funcs /\ f # 0
    BY CodeOfProgram
  <1>12. Position(ip)' /\ ip'[1] = f /\ ip' \in (Funcs \cup {0}) \X Nat
    BY <1>2, <1>11, CodeFacts DEF Position, Code
  <1>13. stack' \in [Cells -> RegisterValues]
    BY SetTypes DEF PushFrame, FInv, FramesType
  <1>14. FramesType'
    <2>1. Frames' = Frames
      BY DEF Frames
    <2>2. 0 \notin Funcs
      BY DEF FInv, FramesType
    <2>3. status' \in {"running", "halted", "thrown", "fault", "terminated"}
      BY <1>2 DEF FInv, FramesType
    <2> QED BY <1>4, <1>5, <1>10, <1>12, <1>13, <2>1, <2>2, <2>3 DEF FramesType
  <1>15. ASSUME NEW k \in 1 .. d + 1
         PROVE  /\ Position(call_stack[k].return_ip)'
                /\ call_stack'[k].base_ptr <= (d + 1 - k) * B
                /\ (k = d + 1) <=> (call_stack'[k].return_ip[1] = 0)
    <2>1. CASE k = 1
      <3>1. call_stack'[k].return_ip = <<ip[1], ip[2] + 1>> /\ call_stack'[k].base_ptr = fp
        BY <1>4, <2>1
      <3>2. Position(call_stack[k].return_ip)'
        BY <1>1, <3>1 DEF Position, Code
      <3>3. call_stack'[k].base_ptr <= (d + 1 - k) * B
        BY <1>6, <1>7, <2>1, <3>1 DEF AtDepth
      <3>4. k = d + 1 <=> ip[1] = 0
        BY <1>6, <1>7, <2>1 DEF AtDepth
      <3> QED BY <3>1, <3>2, <3>3, <3>4
    <2>2. CASE k # 1
      <3>1. k - 1 \in 1 .. d /\ k \in 2 .. Len(call_stack')
        BY <1>7, <2>2
      <3>2. call_stack'[k] = call_stack[k - 1]
        BY <1>4, <3>1
      <3>3. /\ Position(call_stack[k - 1].return_ip)
            /\ call_stack[k - 1].base_ptr <= (d - (k - 1)) * B
            /\ k - 1 = d <=> call_stack[k - 1].return_ip[1] = 0
        BY <1>6, <3>1 DEF AtDepth
      <3>4. d - (k - 1) = d + 1 - k /\ (k - 1 = d <=> k = d + 1)
        BY <1>7
      <3> QED BY <3>2, <3>3, <3>4 DEF Position, Code
    <2> QED BY <2>1, <2>2
  <1>16. AtDepth(d + 1, B)'
    <2>1. (d + 1 = 0) <=> (ip'[1] = 0)
      BY <1>7, <1>11, <1>12
    <2>2. fp' <= (d + 1) * B
      BY <1>9
    <2>3. \A k \in 1 .. d + 1 :
            /\ Position(call_stack[k].return_ip)'
            /\ call_stack'[k].base_ptr <= (d + 1 - k) * B
            /\ (k = d + 1) <=> (call_stack'[k].return_ip[1] = 0)
      BY <1>15
    <2> QED BY <2>1, <2>2, <2>3 DEF AtDepth
  <1> QED BY <1>7, <1>12, <1>14, <1>16 DEF FInv, Nested

(* A return, which only a function executes: the frame below is resumed.   *)
LEMMA PopFits ==
  ASSUME NEW B \in Nat, IInv, FInv(B), Running, ip[1] # 0,
         NEW result \in RegisterValues, PopFrame(result),
         program' = program, Funcs' = Funcs
  PROVE  FInv(B)'
PROOF
  <1>1. /\ fp \in Cells /\ call_stack \in Seq(Frames)
        /\ Len(call_stack) <= CALL_MAX_SIZE /\ Len(call_stack) \in Nat
    BY DEF FInv, FramesType
  <1>2. PICK d \in 0 .. Len(call_stack) : AtDepth(d, B)
    BY DEF FInv, Nested
  <1>3. d \in 1 .. Len(call_stack) /\ d - 1 \in Nat
    BY <1>1, <1>2 DEF AtDepth
  <1>4. call_stack # <<>>
    BY <1>1, <1>3
  <1>5. /\ Head(call_stack) = call_stack[1] /\ call_stack[1] \in Frames
        /\ Tail(call_stack) \in Seq(Frames)
        /\ Len(Tail(call_stack)) = Len(call_stack) - 1
        /\ \A k \in 1 .. Len(call_stack) - 1 : Tail(call_stack)[k] = call_stack[k + 1]
    BY <1>1, <1>3, <1>4
  <1>6. /\ fp' = call_stack[1].base_ptr /\ ip' = call_stack[1].return_ip
        /\ call_stack' = Tail(call_stack) /\ status' = status
    BY <1>5 DEF PopFrame
  <1>7. stack' \in [Cells -> RegisterValues]
    BY DEF PopFrame, FInv, FramesType
  <1>8. FramesType'
    <2>1. Frames' = Frames
      BY DEF Frames
    <2>2. 0 \notin Funcs
      BY DEF FInv, FramesType
    <2>3. status' \in {"running", "halted", "thrown", "fault", "terminated"}
      BY <1>6 DEF FInv, FramesType
    <2>4. fp' \in Cells /\ ip' \in (Funcs \cup {0}) \X Nat
      BY <1>5, <1>6 DEF Frames
    <2>5. call_stack' \in Seq(Frames) /\ Len(call_stack') <= CALL_MAX_SIZE
      BY <1>1, <1>5, <1>6, InterpreterAssumption
    <2> QED BY <1>7, <2>1, <2>2, <2>3, <2>4, <2>5 DEF FramesType
  <1>9. /\ Position(call_stack[1].return_ip)
        /\ call_stack[1].base_ptr <= (d - 1) * B
        /\ 1 = d <=> call_stack[1].return_ip[1] = 0
    BY <1>2, <1>3 DEF AtDepth
  <1>10. Position(ip)' /\ fp' <= (d - 1) * B /\ (d - 1 = 0 <=> ip'[1] = 0)
    BY <1>3, <1>6, <1>9 DEF Position, Code
  <1>11. ASSUME NEW k \in 1 .. d - 1
         PROVE  /\ Position(call_stack[k].return_ip)'
                /\ call_stack'[k].base_ptr <= (d - 1 - k) * B
                /\ k = d - 1 <=> call_stack'[k].return_ip[1] = 0
    <2>1. k + 1 \in 1 .. d /\ k \in 1 .. Len(call_stack) - 1
      BY <1>1, <1>3
    <2>2. call_stack'[k] = call_stack[k + 1]
      BY <1>5, <1>6, <2>1
    <2>3. /\ Position(call_stack[k + 1].return_ip)
          /\ call_stack[k + 1].base_ptr <= (d - (k + 1)) * B
          /\ k + 1 = d <=> call_stack[k + 1].return_ip[1] = 0
      BY <1>2, <2>1 DEF AtDepth
    <2>4. d - (k + 1) = d - 1 - k /\ (k + 1 = d <=> k = d - 1)
      BY <1>3
    <2> QED BY <2>2, <2>3, <2>4 DEF Position, Code
  <1>12. AtDepth(d - 1, B)'
    BY <1>10, <1>11 DEF AtDepth
  <1>13. d - 1 \in 0 .. Len(call_stack')
    BY <1>1, <1>3, <1>5, <1>6
  <1> QED BY <1>8, <1>10, <1>12, <1>13 DEF FInv, Nested

-----------------------------------------------------------------------------
(* The registers an instruction that fits names.                           *)
LEMMA OperandsFit ==
  ASSUME NEW i, NEW B, NEW W, InstrFits(i, B, W)
  PROVE  LET R == 0 .. W - 1 IN
         /\ i.op \in BinaryOps => i.a \in R /\ i.b \in R /\ i.c \in R
         /\ i.op \in {"NEG", "MOVE"} => i.a \in R /\ i.b \in R
         /\ i.op \in {"LOADINT", "LOADFUNC", "LOADNIL", "ARRGET", "JMPT", "JMPF",
                      "RETURN", "INVOKEDYNAMIC"} => i.a \in R
PROOF
  <1>1. i.op \in BinaryOps => RegistersOf(i) = {i.a, i.b, i.c}
    BY DEF RegistersOf, BinaryOps
  <1>2. i.op \in {"NEG", "MOVE"} => RegistersOf(i) = {i.a, i.b}
    BY DEF RegistersOf, BinaryOps
  <1>3. i.op \in {"LOADINT", "LOADFUNC", "LOADNIL", "ARRGET", "JMPT", "JMPF",
                  "RETURN", "INVOKEDYNAMIC"} => RegistersOf(i) = {i.a}
    BY DEF RegistersOf, BinaryOps
  <1> QED BY <1>1, <1>2, <1>3 DEF InstrFits

(* The interpreter's instruction, and where it may go.                     *)
LEMMA InstrFacts ==
  ASSUME NEW D, NEW B, NEW W, Fits(D, B, W), IInv, FInv(B), Running
  PROVE  /\ InstrFits(Instr, B, W)
         /\ Goto(0) = <<ip[1], ip[2] + 1>>
         /\ Instr.op \notin {"JMP", "RETURN", "RETURNNIL", "HALT"}
              => ip[2] + 1 \in DOMAIN Code(ip[1])
         /\ Instr.op \in {"JMP", "JMPT", "JMPF"}
              => ip[2] + 1 + Instr.b \in DOMAIN Code(ip[1])
         /\ Instr.op \in {"RETURN", "RETURNNIL"} => ip[1] # 0
PROOF
  <1>1. Position(ip) /\ ip[2] \in Nat
    BY DEF FInv, Nested, FramesType
  <1>2. Code(ip[1]) \in Codes /\ ip[2] \in DOMAIN Code(ip[1])
    BY <1>1, CodeOfProgram DEF Position
  <1>3. InstrFits(Instr, B, W)
    BY <1>2, CodeFits DEF Instr
  <1>4. ip[1] = 0 => Instr.op \notin {"RETURN", "RETURNNIL"}
    BY <1>1 DEF Position, Code, Instr, Fits, ProgramFits, IInv, TableOK
  <1>5. Goto(0) = <<ip[1], ip[2] + 1>>
    BY <1>1 DEF Goto
  <1> QED BY <1>2, <1>3, <1>4, <1>5, CodeAssumption DEF Instr

LEMMA WriteFits ==
  ASSUME NEW D, NEW B, NEW W, Fits(D, B, W), IInv, FInv(B), Running,
         Len(call_stack) <= D, program' = program, Funcs' = Funcs,
         NEW a \in 0 .. W - 1, NEW v \in Outcomes, Write(a, v),
         ip[2] + 1 \in DOMAIN Code(ip[1])
  PROVE  FInv(B)'
PROOF
  <1>1. fp + a \in Cells
    BY Registered
  <1>2. stack \in [Cells -> RegisterValues]
    BY DEF FInv, FramesType
  <1>3. CASE UNCHANGED <<stack, fp, ip, call_stack>> /\ status' \in {"thrown", "fault"}
    BY <1>2, <1>3, MoveFits
  <1>4. CASE /\ v \in RegisterValues /\ stack' = [stack EXCEPT ![fp + a] = v]
             /\ ip' = Goto(0) /\ UNCHANGED <<fp, call_stack, status>>
    <2>1. stack' \in [Cells -> RegisterValues]
      BY <1>1, <1>2, <1>4
    <2>2. ip' = <<ip[1], ip[2] + 1>>
      BY <1>4, InstrFacts
    <2> QED BY <1>4, <2>1, <2>2, MoveFits DEF Running
  <1> QED BY <1>3, <1>4 DEF Write, Throw, Outcomes

LEMMA BranchFits ==
  ASSUME NEW D, NEW B, NEW W, Fits(D, B, W), IInv, FInv(B), Running,
         program' = program, Funcs' = Funcs, NEW taken \in BOOLEAN, Branch(taken),
         Instr.op \in {"JMP", "JMPT", "JMPF"}, Instr.op = "JMP" => taken
  PROVE  FInv(B)'
PROOF
  <1> DEFINE n == ip[2] + 1 + (IF taken THEN Instr.b ELSE 0)
  <1>1. ip' = <<ip[1], n>> /\ UNCHANGED <<stack, fp, call_stack, status>>
    BY DEF Branch, Goto
  <1>2. ip[2] \in Nat
    BY DEF FInv, FramesType
  <1>3. n \in DOMAIN Code(ip[1])
    BY <1>2, InstrFacts
  <1> HIDE DEF n
  <1> QED BY <1>1, <1>3, MoveFits DEF FInv, FramesType, Running

LEMMA ReturnFits ==
  ASSUME NEW D, NEW B, NEW W, Fits(D, B, W), IInv, FInv(B), Running,
         Len(call_stack) <= D, program' = program, Funcs' = Funcs,
         \/ op_return \/ op_returnnil
  PROVE  FInv(B)'
PROOF
  <1>1. ip[1] # 0
    BY InstrFacts DEF op_return, op_returnnil, At
  <1>2. PICK result \in RegisterValues : PopFrame(result)
    <2>1. CASE op_return
      <3>1. Instr.a \in 0 .. W - 1
        BY <2>1, InstrFacts, OperandsFit DEF op_return, At
      <3>2. Reg(Instr.a) \in RegisterValues
        BY <3>1, Registered
      <3> QED BY <2>1, <3>2 DEF op_return
    <2>2. CASE op_returnnil
      BY <2>2, SetTypes DEF op_returnnil
    <2> QED BY <2>1, <2>2
  <1> QED BY <1>1, <1>2, PopFits DEF Fits

(* Every instruction that is no call.                                      *)
LEMMA SimpleFits ==
  ASSUME NEW D, NEW B, NEW W, Fits(D, B, W), IInv, FInv(B),
         Len(call_stack) <= D, program' = program, Funcs' = Funcs, Simple
  PROVE  FInv(B)'
PROOF
  <1>1. Running
    BY DEF Simple, op_binary, op_negate, op_load, op_loadfunc, op_move, op_loadnil,
           op_arrget, op_jmp, op_jmpt, op_jmpf, op_return, op_returnnil, op_halt, At
  <1>2. RegisterValues \subseteq Outcomes /\ THROW \in Outcomes
    BY DEF Outcomes
  <1>3. InstrFits(Instr, B, W)
    BY <1>1, InstrFacts
  <1>4. ASSUME NEW a \in 0 .. W - 1, NEW v \in Outcomes, Write(a, v),
               Instr.op \notin {"JMP", "RETURN", "RETURNNIL", "HALT"}
        PROVE  FInv(B)'
    BY <1>1, <1>4, InstrFacts, WriteFits
  <1>5. CASE op_binary
    <2>1. /\ Instr.op \in BinaryOps /\ Instr.a \in 0 .. W - 1
          /\ Instr.b \in 0 .. W - 1 /\ Instr.c \in 0 .. W - 1
      BY <1>3, <1>5, OperandsFit DEF op_binary
    <2>2. Reg(Instr.b) \in RegisterValues /\ Reg(Instr.c) \in RegisterValues
      BY <1>1, <2>1, Registered
    <2>3. Binary(Instr.op, Reg(Instr.b), Reg(Instr.c)) \in Outcomes
      BY <2>1, <2>2, BinaryType
    <2>4. Instr.op \notin {"JMP", "RETURN", "RETURNNIL", "HALT"}
      BY <2>1 DEF BinaryOps
    <2> QED BY <1>4, <1>5, <2>1, <2>3, <2>4 DEF op_binary
  <1>6. CASE op_negate
    <2>1. Instr.op = "NEG" /\ Instr.a \in 0 .. W - 1 /\ Instr.b \in 0 .. W - 1
      BY <1>3, <1>6, OperandsFit DEF op_negate, At
    <2>2. op_neg(Reg(Instr.b)) \in Outcomes
      BY <1>1, <2>1, Registered, NegType
    <2> QED BY <1>4, <1>6, <2>1, <2>2 DEF op_negate
  <1>7. CASE op_load \/ op_loadfunc \/ op_loadnil
    <2>1. /\ Instr.op \in {"LOADINT", "LOADFUNC", "LOADNIL"} /\ Instr.a \in 0 .. W - 1
          /\ Instr.op = "LOADINT" => Instr.b \in Int
          /\ Instr.op = "LOADFUNC" => Instr.b \in Low
      BY <1>3, <1>7, OperandsFit DEF op_load, op_loadfunc, op_loadnil, At, InstrFits
    <2>2. /\ Instr.op = "LOADINT" => set_int(Instr.b) \in Outcomes
          /\ Instr.op = "LOADFUNC" => set_callable(Instr.b) \in Outcomes
          /\ Nil \in Outcomes
      BY <1>2, <2>1, SetTypes
    <2> QED BY <1>4, <1>7, <2>1, <2>2 DEF op_load, op_loadfunc, op_loadnil, At
  <1>8. CASE op_move
    <2>1. Instr.op = "MOVE" /\ Instr.a \in 0 .. W - 1 /\ Instr.b \in 0 .. W - 1
      BY <1>3, <1>8, OperandsFit DEF op_move, At
    <2>2. Reg(Instr.b) \in Outcomes
      BY <1>1, <1>2, <2>1, Registered
    <2> QED BY <1>4, <1>8, <2>1, <2>2 DEF op_move
  <1>9. CASE op_arrget
    <2>1. Instr.op = "ARRGET" /\ Instr.a \in 0 .. W - 1
      BY <1>3, <1>9, OperandsFit DEF op_arrget, At
    <2>2. Args \cup {THROW} \subseteq Outcomes
      BY <1>2, InterpreterAssumption
    <2> QED BY <1>4, <1>9, <2>1, <2>2 DEF op_arrget
  <1>10. CASE op_jmp \/ op_jmpt \/ op_jmpf
    <2>1. \A v : is_truthy(v) \in BOOLEAN
      BY DEF is_truthy
    <2> QED BY <1>1, <1>10, <2>1, BranchFits DEF op_jmp, op_jmpt, op_jmpf, At
  <1>11. CASE op_return \/ op_returnnil
    BY <1>1, <1>11, ReturnFits
  <1>12. CASE op_halt
    BY <1>1, <1>12, MoveFits DEF op_halt, FInv, FramesType
  <1> QED BY <1>5, <1>6, <1>7, <1>8, <1>9, <1>10, <1>11, <1>12 DEF Simple

-----------------------------------------------------------------------------
(* The table keeps its functions in every step.                            *)
LEMMA SameFuncs ==
  ASSUME IInv, Step \/ JitStep \/ UNCHANGED funcVars
  PROVE  Funcs' = Funcs
PROOF
  <1>1. CASE UNCHANGED funcVars
    BY <1>1 DEF funcVars, Funcs
  <1>2. ASSUME NEW f, Heat(f) PROVE Funcs' = Funcs
    BY <1>2 DEF Heat, Funcs, IInv, TableOK
  <1>3. ASSUME NEW f, NEW first_arg, NEW num_args, CallHot(f, first_arg, num_args)
        PROVE  Funcs' = Funcs
    BY <1>1, <1>2, <1>3 DEF CallHot
  <1>4. CASE Step
    BY <1>1, <1>3, <1>4 DEF Step
  <1>5. CASE JitStep
    BY <1>1, <1>5 DEF JitStep
  <1> QED BY <1>1, <1>4, <1>5

(* A call, whether the callee is interpreted or compiled.                  *)
LEMMA CallFits ==
  ASSUME NEW D, NEW B, NEW W, Fits(D, B, W), IInv, FInv(B), Running,
         Len(call_stack) <= D, Len(call_stack') <= D,
         program' = program, Funcs' = Funcs,
         Instr.op \in {"CALL", "INVOKEDYNAMIC"},
         NEW f, NEW num_args, CallHot(f, Instr.b, num_args)
  PROVE  FInv(B)'
PROOF
  <1>1. Instr.b \in 0 .. B /\ ip[2] + 1 \in DOMAIN Code(ip[1])
    BY InstrFacts DEF InstrFits
  <1>2. CASE Refused(f, num_args)
    BY <1>2, MoveFits DEF CallHot, Throw, FInv, FramesType
  <1>3. CASE ~Refused(f, num_args)
    <2>1. f \in DOMAIN program \ {0} /\ PushFrame(f, Instr.b, num_args)
      BY <1>3 DEF CallHot
    <2> QED BY <1>1, <1>3, <2>1, PushFits
  <1> QED BY <1>2, <1>3

LEMMA StepFits ==
  ASSUME NEW D, NEW B, NEW W, Fits(D, B, W), IInv, FInv(B),
         Len(call_stack) <= D, Len(call_stack') <= D, program' = program, Step
  PROVE  FInv(B)'
PROOF
  <1>1. Funcs' = Funcs
    BY SameFuncs
  <1>2. CASE Simple
    BY <1>1, <1>2, SimpleFits
  <1>3. CASE At("CALL") /\ CallHot(Instr.a, Instr.b, Instr.c)
    BY <1>1, <1>3, CallFits DEF At
  <1>4. CASE At("INVOKEDYNAMIC") /\ CallHot(Reg(Instr.a).low, Instr.b, Instr.c)
    BY <1>1, <1>4, CallFits DEF At
  <1>5. CASE At("INVOKEDYNAMIC") /\ Throw
    BY <1>1, <1>5, MoveFits DEF At, Throw, FInv, FramesType
  <1> QED BY <1>2, <1>3, <1>4, <1>5 DEF Step

-----------------------------------------------------------------------------
(* Compiled code: ip stays at the function's first instruction.            *)
LEMMA JitFits ==
  ASSUME NEW D, NEW B, NEW W, Fits(D, B, W), IInv, FInv(B),
         Len(call_stack) <= D, program' = program, JitStep
  PROVE  FInv(B)'
PROOF
  <1>1. Compiled /\ Running /\ Funcs' = Funcs
    BY SameFuncs DEF JitStep, Compiled
  <1>2. InstrFits(TInstr, B, W)
    BY <1>1, TargetCode, CodeFits DEF TInstr
  <1>3. ip[1] # 0
    BY <1>1, TargetCode DEF FInv, FramesType
  <1>4. RegisterValues \subseteq Outcomes
    BY DEF Outcomes
  <1>5. 0 \in 0 .. W - 1
    BY DEF Fits
  <1>6. stack[fp] \in RegisterValues /\ stack \in [Cells -> RegisterValues]
    BY DEF FInv, FramesType
  <1>7. ASSUME NEW result \in RegisterValues, invoke_jit_return(result)
        PROVE  FInv(B)'
    BY <1>1, <1>3, <1>7, PopFits DEF invoke_jit_return, Fits
  <1>8. ASSUME UNCHANGED <<fp, ip, call_stack>>, stack' \in [Cells -> RegisterValues],
               status' \in {"running", "fault", "terminated"}
        PROVE  FInv(B)'
    BY <1>1, <1>8, MoveFits
  <1>9. ASSUME NEW a \in 0 .. W - 1, NEW v \in Outcomes, JitWrite(a, v)
        PROVE  FInv(B)'
    <2>1. fp + a \in Cells
      BY <1>1, Registered
    <2>2. CASE v = THROW /\ invoke_jit_return(stack[fp])
      BY <1>6, <1>7, <2>2
    <2>3. CASE status' = "fault" /\ UNCHANGED <<stack, fp, ip, call_stack>>
      BY <1>6, <1>8, <2>3
    <2>4. CASE /\ v \in RegisterValues /\ stack' = [stack EXCEPT ![fp + a] = v]
               /\ UNCHANGED <<fp, ip, call_stack, status>>
      BY <1>1, <1>6, <1>8, <2>1, <2>4 DEF Running
    <2> QED BY <1>9, <2>2, <2>3, <2>4 DEF JitWrite, Outcomes
  <1>10. ASSUME NEW taken, JitBranch(taken)
         PROVE  FInv(B)'
    BY <1>1, <1>6, <1>8, <1>10 DEF JitBranch, frameVars, Running
  <1>11. CASE /\ TInstr.op \in BinaryOps
              /\ JitWrite(TInstr.a, JitBinary(TInstr.op, Reg(TInstr.a).low,
                                              Reg(TInstr.b), Reg(TInstr.c)))
    <2>1. /\ TInstr.a \in 0 .. W - 1 /\ TInstr.b \in 0 .. W - 1
          /\ TInstr.c \in 0 .. W - 1
      BY <1>2, <1>11, OperandsFit
    <2>2. /\ Reg(TInstr.a) \in RegisterValues /\ Reg(TInstr.b) \in RegisterValues
          /\ Reg(TInstr.c) \in RegisterValues
      BY <1>1, <2>1, Registered
    <2>3. Reg(TInstr.a).low \in Low
      BY <2>2 DEF RegisterValues
    <2>4. JitBinary(TInstr.op, Reg(TInstr.a).low, Reg(TInstr.b), Reg(TInstr.c))
            \in Outcomes
      BY <1>11, <2>2, <2>3, JitBinaryType
    <2> QED BY <1>9, <1>11, <2>1, <2>4
  <1>12. CASE TInstr.op = "NEG" /\ JitWrite(TInstr.a, JitNeg(Reg(TInstr.b)))
    <2>1. TInstr.a \in 0 .. W - 1 /\ TInstr.b \in 0 .. W - 1
      BY <1>2, <1>12, OperandsFit
    <2>2. JitNeg(Reg(TInstr.b)) \in Outcomes
      BY <1>1, <2>1, Registered, NegType
    <2> QED BY <1>9, <1>12, <2>1, <2>2
  <1>13. CASE TInstr.op = "LOADINT" /\ JitWrite(TInstr.a, set_int(TInstr.b))
    <2>1. TInstr.a \in 0 .. W - 1 /\ TInstr.b \in Int
      BY <1>2, <1>13, OperandsFit DEF InstrFits
    <2>2. set_int(TInstr.b) \in Outcomes
      BY <1>4, <2>1, SetTypes
    <2> QED BY <1>9, <1>13, <2>1, <2>2
  <1>14. CASE TInstr.op = "MOVE" /\ JitWrite(TInstr.a, Reg(TInstr.b))
    <2>1. TInstr.a \in 0 .. W - 1 /\ TInstr.b \in 0 .. W - 1
      BY <1>2, <1>14, OperandsFit
    <2>2. Reg(TInstr.b) \in Outcomes
      BY <1>1, <1>4, <2>1, Registered
    <2> QED BY <1>9, <1>14, <2>1, <2>2
  <1>15. CASE TInstr.op = "LOADNIL" /\ JitWrite(TInstr.a, Nil)
    <2>1. TInstr.a \in 0 .. W - 1
      BY <1>2, <1>15, OperandsFit
    <2>2. Nil \in Outcomes
      BY <1>4, SetTypes
    <2> QED BY <1>9, <1>15, <2>1, <2>2
  <1>16. CASE TInstr.op = "RETURN" /\ invoke_jit_return(Reg(TInstr.a))
    <2>1. TInstr.a \in 0 .. W - 1
      BY <1>2, <1>16, OperandsFit
    <2>2. Reg(TInstr.a) \in RegisterValues
      BY <1>1, <2>1, Registered
    <2> QED BY <1>7, <1>16, <2>2
  <1>17. CASE invoke_jit_return(Nil)
    BY <1>7, <1>17, SetTypes
  <1>18. CASE JitInstr
    BY <1>10, <1>11, <1>12, <1>13, <1>14, <1>15, <1>16, <1>17, <1>18 DEF JitInstr
  <1>19. CASE TInstr.op = "ARRGET" /\ JitArrget(TInstr.a)
    <2>1. TInstr.a \in 0 .. W - 1
      BY <1>2, <1>19, OperandsFit
    <2>2. Args \subseteq Outcomes
      BY <1>4, InterpreterAssumption
    <2> QED BY <1>6, <1>8, <1>9, <1>19, <2>1, <2>2 DEF JitArrget
  <1> QED BY <1>18, <1>19 DEF JitStep

(* The next program starts in its global code, above nothing: the frames   *)
(* an error left on the call stack are never returned to.                  *)
LEMMA LoadFits ==
  ASSUME NEW D, NEW B, NEW W, Fits(D, B, W), IInv, FInv(B), initVM,
         UNCHANGED funcVars
  PROVE  FInv(B)'
PROOF
  <1>1. Funcs' = Funcs /\ Frames' = Frames
    BY DEF funcVars, Funcs, Frames
  <1>2. 0 \in Cells
    BY InterpreterAssumption DEF Cells
  <1>3. program'[0].code \in Codes /\ 0 \in DOMAIN program'
    BY DEF initVM, Fits, ProgramFits, Codes
  <1>4. FramesType'
    BY <1>1, <1>2 DEF initVM, FInv, FramesType
  <1>5. Position(ip)'
    BY <1>3, CodeFacts DEF initVM, Position, Code
  <1>6. AtDepth(0, B)'
    <2>1. fp' = 0 /\ ip'[1] = 0 /\ B \in Nat
      BY DEF initVM, Fits
    <2> QED BY <2>1 DEF AtDepth
  <1>7. 0 \in 0 .. Len(call_stack')
    BY <1>4 DEF FramesType
  <1> QED BY <1>4, <1>5, <1>6, <1>7 DEF FInv, Nested

LEMMA InitFits ==
  ASSUME NEW D, NEW B, NEW W, Fits(D, B, W), DispatchInit
  PROVE  FInv(B)
PROOF
  <1>1. 0 \notin Funcs
    BY DEF DispatchInit, Funcs
  <1>2. program[0].code \in Codes /\ 0 \in DOMAIN program
    BY DEF DispatchInit, Init, Fits, ProgramFits, Codes
  <1>3. FramesType
    <2>1. 0 \in Cells /\ 0 \in Low /\ CALL_MAX_SIZE \in Nat
      BY InterpreterAssumption, HalfAssumption DEF Cells, Low
    <2>2. call_stack \in Seq(Frames) /\ Len(call_stack) = 0
      BY DEF DispatchInit, Init
    <2> QED BY <1>1, <2>1, <2>2 DEF DispatchInit, Init, FramesType, RegisterValues
  <1>4. Position(ip)
    BY <1>2, CodeFacts DEF DispatchInit, Init, Position, Code
  <1>5. AtDepth(0, B)
    <2>1. fp = 0 /\ ip[1] = 0 /\ B \in Nat
      BY DEF DispatchInit, Init, Fits
    <2> QED BY <2>1 DEF AtDepth
  <1>6. 0 \in 0 .. Len(call_stack)
    BY <1>3 DEF FramesType
  <1> QED BY <1>3, <1>4, <1>5, <1>6 DEF FInv, Nested

LEMMA NextFits ==
  ASSUME NEW D, NEW B, NEW W, Fits(D, B, W), IInv, FInv(B),
         Len(call_stack) <= D, Len(call_stack') <= D, [DispatchNext]_allVars
  PROVE  FInv(B)'
PROOF
  <1>1. CASE (Step \/ JitStep) /\ UNCHANGED <<program, loads>>
    BY <1>1, StepFits, JitFits
  <1>2. CASE initVM /\ UNCHANGED <<funcVars, jip, diverged>>
    BY <1>2, LoadFits
  <1>3. CASE UNCHANGED allVars
    BY <1>3 DEF allVars, funcVars, vars, frameVars, FInv, FramesType, Nested, AtDepth,
                Position, Code, Frames, Funcs, Running
  <1> QED BY <1>1, <1>2, <1>3 DEF DispatchNext

LEMMA FitsIsTyped ==
  ASSUME NEW B, IInv, FInv(B)
  PROVE  DispatchTypeOK
PROOF
  <1>1. \A k \in DOMAIN call_stack : call_stack[k].base_ptr \in Cells
    <2> SUFFICES ASSUME NEW k \in DOMAIN call_stack
                 PROVE  call_stack[k].base_ptr \in Cells
      OBVIOUS
    <2>1. call_stack \in Seq(Frames)
      BY DEF FInv, FramesType
    <2>2. call_stack[k] \in Frames
      <3> HIDE DEF Frames
      <3> QED BY <2>1
    <2> QED BY <2>2 DEF Frames
  <1>2. Running => ip[1] \in DOMAIN program /\ ip[2] \in DOMAIN Code(ip[1])
    BY DEF FInv, Nested, Position
  <1> QED BY <1>1, <1>2 DEF IInv, TableOK, PositionOK, FInv, FramesType, DispatchTypeOK

(* vm.cpp:278 limits how many frames there are, not where they lie.  In a  *)
(* run whose calls nest at most D deep, of programs whose frames begin at  *)
(* most B registers apart and use W registers, with D * B + W <= StackSize *)
(* every register the interpreter or compiled code touches is in the       *)
(* stack, every instruction pointer is in its function, and every frame    *)
(* returns to where it was called, through errors and reloads.             *)
THEOREM AlwaysTyped ==
  ASSUME NEW CONSTANT D, NEW CONSTANT B, NEW CONSTANT W, Fits(D, B, W)
  PROVE  DispatchSpec /\ [](Len(call_stack) <= D) => []DispatchTypeOK
PROOF
  <1> DEFINE Deep == Len(call_stack) <= D
  <1>1. DispatchInit => FInv(B)
    BY InitFits
  <1>2. IInv /\ FInv(B) /\ Deep /\ Deep' /\ [DispatchNext]_allVars => FInv(B)'
    BY NextFits
  <1>3. IInv /\ FInv(B) => DispatchTypeOK
    BY FitsIsTyped
  <1> QED BY <1>1, <1>2, <1>3, Invariance, PTL DEF DispatchSpec
===============================================================================
