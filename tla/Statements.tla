------------------------------ MODULE Statements ------------------------------
(***************************************************************************)
(* What statements mean, and what their code does.  A value is symbolic,   *)
(* and the outcomes of the tests a run meets are given: bits.  Both runs   *)
(* record the values they test, pass to natives and return.                *)
(***************************************************************************)
EXTENDS Compiler, SequencesExt

CONSTANTS Tests,     \* bound of the model: tests of a run
          Steps,     \* bound of the model: instructions of a run
          Registers  \* bound of the model: registers of a frame

ASSUME StatementsAssumption == {Tests, Steps, Registers} \subseteq Nat

Value(op, number, args) == [op |-> op, number |-> number, args |-> args]
Garbage == Value("garbage", 0, <<>>)

(* What the operators of assignments make of the old and the new value.    *)
Combined(op, old, new) ==
  CASE op = "="  -> new
    [] op = "+=" -> Value("ADD", 0, <<new, old>>)
    [] op = "-=" -> Value("SUB", 0, <<old, new>>)

Log(r, what, v) == [r EXCEPT !.trace = Append(@, <<what, v>>)]
Stop(r, how)    == [r EXCEPT !.how = how]

(* A test consumes a bit; without one the run is cut.                      *)
Tested(r, v) == [Log(r, "test", v) EXCEPT !.bits = Tail(@)]

-----------------------------------------------------------------------------
(* The statements.  env holds the variables that have been assigned; the   *)
(* names that a block or the body of a loop declares end with it.  Reading *)
(* a variable before it is assigned has no meaning: the run stops there.   *)
Defined(r, e) == e.kind = "var" => e.name \in DOMAIN r.env

ValueOf(r, e) ==
  CASE e.kind = "lit"      -> Value("lit", e.number, <<>>)
    [] e.kind = "function" -> Value(e.name, 0, <<>>)
    [] e.kind = "var"      -> r.env[e.name]

Bind(r, x, v) == [r EXCEPT !.env = (x :> v) @@ @]
Forget(r, outer) ==
  [r EXCEPT !.env = [x \in DOMAIN @ \cap DOMAIN outer.env |-> @[x]]]

RECURSIVE Execute(_, _), ExecuteAll(_, _), Repeat(_, _)

ExecuteAll(list, r) ==
  IF list = <<>> \/ r.how # "next" THEN r
  ELSE ExecuteAll(Tail(list), Execute(Head(list), r))

ExecuteBlock(b, r) ==
  LET after == ExecuteAll(b.list, r) IN IF b.braced THEN Forget(after, r) ELSE after

ExecuteAssign(i, r) ==
  IF ~Defined(r, i.e) \/ (i.op # "=" /\ i.x \notin DOMAIN r.env)
  THEN Stop(r, "undefined")
  ELSE Bind(r, i.x, Combined(i.op, IF i.op = "=" THEN Garbage ELSE r.env[i.x], ValueOf(r, i.e)))

(* One test of a loop, and what follows if it succeeds.                    *)
Repeat(loop, r) ==
  LET e     == loop[2]
      body  == ExecuteAll(loop[3].list, Tested(r, ValueOf(r, e)))
      again == Forget(ExecuteAll(loop[4], Forget(body, r)), r)
  IN CASE ~Defined(r, e) -> Stop(r, "undefined")
       [] Defined(r, e) /\ r.bits = <<>> -> Stop(r, "cut")
       [] Defined(r, e) /\ r.bits # <<>> /\ ~Head(r.bits) -> Tested(r, ValueOf(r, e))
       [] Defined(r, e) /\ r.bits # <<>> /\ Head(r.bits) ->
            CASE body.how = "break" -> Stop(body, "next")
              [] body.how = "next" /\ again.how = "next" -> Repeat(loop, again)
              [] body.how = "next" /\ again.how # "next" -> again
              [] OTHER -> body

Execute(s, r) ==
  LET p == s.parts IN
  CASE s.kind = "assign" -> ExecuteAssign(p, r)
    [] s.kind = "call"   -> IF Defined(r, p) THEN Log(r, "call", ValueOf(r, p))
                            ELSE Stop(r, "undefined")
    [] s.kind = "return" -> IF Defined(r, p) THEN Stop(Log(r, "return", ValueOf(r, p)), "return")
                            ELSE Stop(r, "undefined")
    [] s.kind = "break"  -> Stop(r, "break")
    [] s.kind = "if"     ->
         IF ~Defined(r, p[1]) THEN Stop(r, "undefined")
         ELSE IF r.bits = <<>> THEN Stop(r, "cut")
         ELSE ExecuteBlock(IF Head(r.bits) THEN p[2] ELSE p[3], Tested(r, ValueOf(r, p[1])))
    [] s.kind = "loop"   ->
         LET entered == ExecuteAll(p[1], r)
         IN IF entered.how = "next" THEN Forget(Repeat(p, entered), r) ELSE entered

Argument(k) == Value("argument", k, <<>>)

SourceRun(f, bits) ==
  LET env == [x \in {f.params[k] : k \in DOMAIN f.params} |->
                Argument(CHOOSE k \in DOMAIN f.params : f.params[k] = x)]
      r   == ExecuteAll(f.body, [env |-> env, trace |-> <<>>, bits |-> bits, how |-> "next"])
  IN IF r.how = "next" THEN Stop(Log(r, "return", Value("nil", 0, <<>>)), "return") ELSE r

-----------------------------------------------------------------------------
(* The code, from instruction pc on, for at most n instructions.           *)
Evaluated(r, i) ==
  CASE i.e.kind = "lit"      -> Value("lit", i.e.number, <<>>)
    [] i.e.kind = "function" -> Value(i.e.name, 0, <<>>)
    [] i.e.kind = "var"      -> r.regs[i.b]

Set(r, a, v) == [r EXCEPT !.regs[a] = v, !.pc = @ + 1]
Jump(r, i, taken) == [r EXCEPT !.pc = @ + 1 + (IF taken THEN i.b ELSE 0)]

ExecuteInstruction(r, i) ==
  CASE i.op = "EVAL"   -> Set(r, i.a, Evaluated(r, i))
    [] i.op = "MOVE"   -> Set(r, i.a, r.regs[i.b])
    [] i.op \in {"ADD", "SUB"} -> Set(r, i.a, Value(i.op, 0, <<r.regs[i.b[1]], r.regs[i.b[2]]>>))
    [] i.op = "NATIVE" -> Set(Log(r, "call", r.regs[i.b]), i.b, Garbage)
    [] i.op = "JMP"    -> Jump(r, i, TRUE)
    [] i.op = "RETURN" -> Stop(Log(r, "return", r.regs[i.a]), "return")
    [] i.op = "RETURNNIL" -> Stop(Log(r, "return", Value("nil", 0, <<>>)), "return")
    [] i.op \in {"JMPT", "JMPF"} ->
         IF r.bits = <<>> THEN Stop(r, "cut")
         ELSE Jump(Tested(r, r.regs[i.a]), i, Head(r.bits) = (i.op = "JMPT"))

RECURSIVE RunCode(_, _, _)
RunCode(code, r, n) ==
  IF r.how # "next" \/ n = 0 THEN r
  ELSE RunCode(code, ExecuteInstruction(r, code[r.pc]), n - 1)

CodeRun(f, bits) ==
  RunCode(f.code,
          [regs |-> [k \in 0 .. Registers |->
                       IF k < Len(f.params) THEN Argument(k + 1) ELSE Garbage],
           pc |-> 1, trace |-> <<>>, bits |-> bits, how |-> "next"],
          Steps)

-----------------------------------------------------------------------------
(* A function's code tests, calls and returns what its statements do, in   *)
(* the same order, for every outcome of the tests: through nested ifs and  *)
(* loops, breaks, returns, and variables of scopes that share registers    *)
(* (parser.cpp:270-552).  The exceptions: a program parsed after one that  *)
(* failed inside a loop, and a loop whose body gives a new meaning to a    *)
(* name of its header, which is compiled again behind the body.            *)
Follows ==
  open = <<>> /\ functions # <<>> /\ stale = 0 /\ ~rebound =>
    LET f == back(functions) IN
    \A bits \in [1 .. Tests -> BOOLEAN] :
      LET s == SourceRun(f, bits)
          c == CodeRun(f, bits)
      IN /\ IsPrefix(s.trace, c.trace)
         /\ s.how # "undefined" => c.how = s.how /\ c.trace = s.trace

(* parser.cpp:492: break statements are allowed only inside loops: no       *)
(* function that is compiled has one elsewhere.                            *)
RECURSIVE BreaksOut(_)
BreaksOut(list) ==
  \E s \in ToSet(list) :
    \/ s.kind = "break"
    \/ s.kind = "if" /\ (BreaksOut(s.parts[2].list) \/ BreaksOut(s.parts[3].list))

BreakOnlyInLoops == \A k \in DOMAIN functions : ~BreaksOut(functions[k].body)
===============================================================================
