---------------------------- MODULE ExpressionCode ----------------------------
(***************************************************************************)
(* The code generator of expr_semantic.cpp, the registers it takes from    *)
(* VarManager, and a symbolic machine that runs its code: a register holds *)
(* the expression it is the value of.                                      *)
(***************************************************************************)
EXTENDS Expressions

CONSTANT Registers   \* bound of the model: registers of a frame

ASSUME RegistersAssumption == Registers \in Nat

(* The names in scope: variables in registers, functions, natives.         *)
VariableAt == [v \in {"x", "y"} |-> IF v = "x" THEN 0 ELSE 1]
Functions  == {"f"}
Natives    == {"n"}
FirstFree  == 2

(* The state of the generator: levels.back().sp, the code so far, and      *)
(* whether it has thrown.                                                  *)
Gen(sp, code) == [sp |-> sp, code |-> code, ok |-> TRUE]
Fail(g)       == [g EXCEPT !.ok = FALSE]
last(g)       == g.sp - 1
Push(g)       == [g EXCEPT !.sp = @ + 1]
Drop(g, k)    == [g EXCEPT !.sp = @ - k]
Emit(g, op, a, b, c) ==
  [g EXCEPT !.code = Append(@, [op |-> op, a |-> a, b |-> b, c |-> c])]

emit_move(g, a, b) == IF a = b THEN g ELSE Emit(g, "MOVE", a, b, 0)

RECURSIVE check_lvalue(_)
check_lvalue(t) ==
  \/ t.op \in Identifiers
  \/ t.op \in {"call", "get"} /\ check_lvalue(t.kids[1])

(* Mutant: > is compiled as <.                                             *)
get_func_unswapped(g, op) ==
  LET a == last(g) - 1 IN Emit(g, IF op = ">" THEN "<" ELSE op, a, a, last(g))

(* An operator takes the two topmost registers and leaves its result in    *)
(* the lower one; > and >= are < and <= of the operands exchanged.         *)
get_func(g, op) ==
  LET a == last(g) - 1 IN
  CASE op = ">"  -> Emit(g, "<", a, last(g), a)
    [] op = ">=" -> Emit(g, "<=", a, last(g), a)
    [] OTHER     -> Emit(g, op, a, a, last(g))

eval_var(g, name) ==
  LET h == Push(g) IN
  CASE name \in DOMAIN VariableAt -> emit_move(h, last(h), VariableAt[name])
    [] name \in Functions -> Emit(h, "LOADFUNC", last(h), name, 0)
    [] OTHER -> Fail(g)   \* not found, or a native used as a value

RECURSIVE eval_expr(_, _), eval_all(_, _)

eval_all(g, trees) ==
  IF trees = <<>> THEN g
  ELSE LET h == eval_expr(g, Head(trees))
       IN IF h.ok THEN eval_all(h, Tail(trees)) ELSE h

eval_call(g, t) ==
  LET name   == t.kids[1].op
      native == name \in Natives \cup {"array"}
      callee == IF native THEN Push(g) ELSE eval_expr(g, t.kids[1])
      start  == last(callee)
      args   == Tail(t.kids)
      cnt    == Len(args)
      h      == eval_all(callee, args)
      called == Drop(Emit(h, IF native THEN "NATIVE" ELSE "INVOKEDYNAMIC",
                          IF native THEN name ELSE start, start + 1, cnt), cnt)
  IN CASE ~check_lvalue(t) \/ ~callee.ok -> Fail(g)
       [] check_lvalue(t) /\ callee.ok /\ ~h.ok -> h
       [] check_lvalue(t) /\ callee.ok /\ h.ok ->
            CASE name # "array" -> emit_move(called, last(called), last(called) + 1)
              [] name = "array" /\ cnt = 1 ->
                   LET d == Drop(h, 1) IN Emit(d, "ALLOC", last(d), start + 1, 0)
              [] name = "array" /\ cnt # 1 -> Fail(h)

eval_binary(g, t) ==
  LET h == eval_all(g, t.kids)
  IN IF h.ok THEN Drop(get_func(h, t.op), 1) ELSE h

eval_number(g, t) ==
  LET h == Push(g) IN Emit(h, "LOADINT", last(h), t.op, 0)

eval_neg(g, t) ==
  LET h == eval_all(g, t.kids)
  IN IF h.ok THEN Emit(h, "NEG", last(h), last(h), 0) ELSE h

eval_get(g, t) ==
  LET h == eval_all(g, t.kids)
  IN IF ~check_lvalue(t) THEN Fail(g)
     ELSE IF h.ok
     THEN Drop(Emit(h, "ARRGET", last(h) - 1, last(h) - 1, last(h)), 1) ELSE h

eval_expr(g, t) ==
  CASE t.op \in Identifiers   -> eval_var(g, t.op)
    [] t.op \in {"1", "-1"}   -> eval_number(g, t)
    [] t.op = "()"            -> g    \* a node type eval_expr does not know
    [] t.op = "call"          -> eval_call(g, t)
    [] t.op = "get"           -> eval_get(g, t)
    [] t.op = "neg"           -> eval_neg(g, t)
    [] OTHER                  -> eval_binary(g, t)

Generate(t) == eval_expr(Gen(FirstFree, <<>>), t)

-----------------------------------------------------------------------------
(* The symbolic machine.  regs is the frame, effects the results of the    *)
(* instructions that can throw or that act, in the order they ran.         *)
Garbage == Leaf("garbage")
Fresh   == [regs |-> [r \in 0 .. Registers |->
                        IF r < FirstFree
                        THEN Leaf(CHOOSE v \in DOMAIN VariableAt : VariableAt[v] = r)
                        ELSE Garbage],
            effects |-> <<>>]

Result(m, i) ==
  CASE i.op = "MOVE" -> m.regs[i.b]
    [] i.op \in {"LOADINT", "LOADFUNC"} -> Leaf(i.b)
    [] i.op = "NEG"   -> Node("neg", <<m.regs[i.b]>>)
    [] i.op = "ALLOC" -> Node("call", <<Leaf("array"), m.regs[i.b]>>)
    [] i.op = "ARRGET" -> Node("get", <<m.regs[i.b], m.regs[i.c]>>)
    [] i.op \in {"NATIVE", "INVOKEDYNAMIC"} ->
         Node("call", <<IF i.op = "NATIVE" THEN Leaf(i.a) ELSE m.regs[i.a]>>
                      \o [k \in 1 .. i.c |-> m.regs[i.b + k - 1]])
    [] OTHER -> Node(i.op, <<m.regs[i.b], m.regs[i.c]>>)

(* A callee's registers are those from its first argument on: it returns   *)
(* in the first and leaves anything in the others.                         *)
Exec(m, i) ==
  LET v == Result(m, i)
      silent == i.op \in {"MOVE", "LOADINT", "LOADFUNC"}
      target == IF i.op \in {"NATIVE", "INVOKEDYNAMIC"} THEN i.b ELSE i.a
  IN [regs |-> [r \in DOMAIN m.regs |->
                  CASE r = target -> v
                    [] r > target /\ i.op = "INVOKEDYNAMIC" -> Garbage
                    [] OTHER -> m.regs[r]],
      effects |-> IF silent THEN m.effects ELSE Append(m.effects, v)]

Run(code) == FoldLeft(Exec, Fresh, code)

(* What a tree means: its value with > written as <, and the results of    *)
(* its operations from the leftmost innermost one on.                      *)
RECURSIVE ValueOf(_), EffectsOf(_)
ValueOf(t) ==
  LET kids == [k \in DOMAIN t.kids |-> ValueOf(t.kids[k])] IN
  CASE t.op = ">"  -> Node("<", Reverse(kids))
    [] t.op = ">=" -> Node("<=", Reverse(kids))
    [] OTHER       -> Node(t.op, kids)

EffectsOf(t) ==
  IF t.kids = <<>> THEN <<>>
  ELSE Append(FlattenSeq([k \in DOMAIN t.kids |-> EffectsOf(t.kids[k])]), ValueOf(t))

RECURSIVE Operators(_)
Operators(t) == {t.op} \cup UNION {Operators(t.kids[k]) : k \in DOMAIN t.kids}

-----------------------------------------------------------------------------
(* A token sequence that grows as long as the parser asks for more.        *)
CONSTANT Alphabets   \* bounds of the model: sets of tokens, each with the
                     \* longest expression to be made of it

VARIABLE toks

ParserResult == parse_expression(toks)
Accepted == ParserResult.ok /\ ParserResult.next = Len(toks) + 1
Viable   == ParserResult.next > Len(toks)

Init == toks = <<>>
Next == /\ Viable
        /\ \E A \in Alphabets : \E t \in A.tokens :
             /\ Range(toks) \subseteq A.tokens /\ Len(toks) < A.longest
             /\ toks' = Append(toks, t)
Spec == Init /\ [][Next]_toks

(* The parser reads () and (x, y) as function signatures.                  *)
Signature == Accepted /\ "()" \in Operators(ParserResult.tree)

(* The trees the compiler takes further.                                   *)
Compiles == Accepted /\ Generate(ParserResult.tree).ok

(* The trees that a grammar gives the tokens are one at most; the parser   *)
(* accepts the tokens when there is one, and what compiles has that tree.  *)
Conforms(trees) ==
  /\ Cardinality(trees) <= 1
  /\ Accepted <=> trees # {}
  /\ Compiles => trees = {ParserResult.tree}

(* Precedence climbing does what its table says: the parser accepts        *)
(* exactly the expressions of the levels in rules[], with their one tree:  *)
(* precedence, left associativity, folded negative literals, argument      *)
(* lists (parser.cpp:69-261).                                              *)
ParsesTheTable == ~Signature => Conforms(Meanings(TableLevels, toks))

(* Wherever the accounts of the operators in parser.h:34-37 and :79-80, in *)
(* every reading of the second, name the same tree, the parser builds that *)
(* tree, although the rows of rules[] are out of order.  What the rows     *)
(* change, the place of == and != among themselves and beside the          *)
(* comparisons, is what the accounts dispute: of that nothing is said.     *)
ParsesTheGrammar ==
  LET accounts == {Meanings(G, toks) : G \in Readings}
  IN ~Signature /\ Cardinality(accounts) = 1 =>
       \A trees \in accounts : Conforms(trees)

(* The code of an expression leaves its value, and nothing else, in the    *)
(* next free register, whatever calls and indexing it nests; the variables *)
(* keep their registers and the operations run from left to right.         *)
ComputesTheTree ==
  Compiles /\ ~Signature =>
    LET g == Generate(ParserResult.tree)
        m == Run(g.code)
    IN /\ g.sp = FirstFree + 1
       /\ m.regs[FirstFree] = ValueOf(ParserResult.tree)
       /\ \A v \in DOMAIN VariableAt : m.regs[VariableAt[v]] = Leaf(v)
       /\ m.effects = EffectsOf(ParserResult.tree)
===============================================================================
