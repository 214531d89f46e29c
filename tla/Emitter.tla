-------------------------------- MODULE Emitter -------------------------------
(***************************************************************************)
(* BytecodeEmitter's labels: jumps are emitted to labels that may come     *)
(* later, and are patched when the function ends (bytecode_emitter.cpp).   *)
(* code[i] is at offset i - 1 in the program.  An emitter is a record of   *)
(* the code of the current function, its pending jumps and its labels.     *)
(***************************************************************************)
EXTENDS Integers, Sequences

CONSTANT JUMP_MAX   \* longest jump that resolve accepts; code: 10000

ASSUME JumpAssumption == JUMP_MAX \in Nat

JumpOps == {"JMP", "JMPT", "JMPF"}

(* An instruction and its operands; e is what an EVAL evaluates.           *)
Instruction(op, a, b, e) == [op |-> op, a |-> a, b |-> b, e |-> e]

begin_func == [code |-> <<>>, pending |-> {}, labels |-> <<>>]

Here(em) == Len(em.code) + 1

add(em, op, a, b, e) ==
  [em EXCEPT !.code = Append(@, Instruction(op, a, b, e))]

emit_move(em, a, b) == IF a = b THEN em ELSE add(em, "MOVE", a, b, 0)

label(em, l) ==
  [em EXCEPT !.labels = [x \in DOMAIN @ \cup {l} |->
                           IF x = l THEN Here(em) ELSE @[x]]]

(* jmp_label, jmpt_label and jmpf_label.                                   *)
jump(em, op, a, l) ==
  [add(em, op, a, 0, 0) EXCEPT
     !.pending = @ \cup {[at |-> Here(em), label |-> l]}]

-----------------------------------------------------------------------------
(* resolve gives each pending jump its offset from the next instruction;   *)
(* it throws if a label is missing or too far away.                        *)
Offset(em, p) == em.labels[p.label] - p.at - 1

WellFormed(em) == \A p \in em.pending : p.label \in DOMAIN em.labels
Short(em)      == \A p \in em.pending : Offset(em, p) \in -JUMP_MAX .. JUMP_MAX
Resolves(em)   == WellFormed(em) /\ Short(em)

(* Mutant: offsets are counted from the jump.                              *)
resolve_from_jump(em) ==
  [i \in DOMAIN em.code |->
     IF \E p \in em.pending : p.at = i
     THEN [em.code[i] EXCEPT
             !.b = em.labels[(CHOOSE p \in em.pending : p.at = i).label] - i]
     ELSE em.code[i]]

resolve(em) ==
  [i \in DOMAIN em.code |->
     IF \E p \in em.pending : p.at = i
     THEN [em.code[i] EXCEPT
             !.b = Offset(em, CHOOSE p \in em.pending : p.at = i)]
     ELSE em.code[i]]

(* Every jump of code lands on one of its instructions.                    *)
JumpsInside(code) ==
  \A i \in DOMAIN code :
    code[i].op \in JumpOps => i + 1 + code[i].b \in DOMAIN code
===============================================================================
