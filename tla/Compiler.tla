------------------------------- MODULE Compiler -------------------------------
(***************************************************************************)
(* The statement compiler: parser.cpp from parse_block on, VarManager's    *)
(* scopes and registers, and what a failed parse leaves behind.  The       *)
(* recursion of the parser is the stack open; an action is what it does    *)
(* between two decisions about the next token.  An expression is a literal *)
(* or a name: the code of any other, too, leaves its value in the next     *)
(* register and changes nothing else (ExpressionCode).                     *)
(***************************************************************************)
EXTENDS Emitter, FiniteSets

CONSTANTS
  Names,          \* identifiers
  FunctionNames,  \* the names functions may have
  Params,         \* parameter lists
  Exprs,          \* expressions that are tested, passed and returned
  Assignments,    \* assignments: a name, an operator, an expression
  Increments,     \* assignments that end the header of a for
  Cost,           \* of each kind of statement, in the bound
  MaxCost,        \* bound of the model: statements of a program, by cost
  LaterCost,      \* the same, of the second program and those after it
  MaxDepth,       \* bound of the model: constructs open at once
  MaxFunctions,   \* bound of the model: functions of a program
  MaxParses       \* bound of the model: programs parsed one after the other

Lit(k)  == [kind |-> "lit", name |-> "", number |-> k]
Name(x) == [kind |-> "name", name |-> x, number |-> 0]

AllExprs == {Lit(0)} \cup {Name(x) : x \in Names}
AllAssignments == [x : Names, op : {"=", "+=", "-="}, e : AllExprs]
Kinds == {"assign", "call", "return", "break", "if", "while", "for", "function"}

ASSUME CompilerAssumption ==
  /\ Params \subseteq Seq(Names)
  /\ Exprs \subseteq AllExprs
  /\ Assignments \subseteq AllAssignments /\ Increments \subseteq AllAssignments
  /\ Cost \in [Kinds -> Nat]
  /\ {MaxCost, LaterCost, MaxDepth, MaxFunctions, MaxParses} \subseteq Nat

VARIABLES
  emitter,     \* the emitter, for the current function
  functions,   \* the functions compiled so far, each with its statements
  scope,       \* VarManager
  loops,       \* the labels of the loops around the next statement
  jmp_uid,     \* the next label
  open,        \* the constructs being parsed, the function first
  expects,     \* "function" or the end; "statement"; "block": a statement or
               \* its end; "done": an unbraced body is complete; "else";
               \* "init" and "header" of a for
  status,      \* "parsing", "accepted"; "rejected" by parser_throws; "ill
               \* formed" and "too large" by resolve
  cost,        \* statements and functions of the program so far, by cost
  parses,      \* programs so far
  stale,       \* history: how many loops the parse began with
  rebound      \* history: a loop's body has changed a meaning in its header

parserVars == <<emitter, functions, scope, loops, jmp_uid, open, expects, status>>
historyVars == <<cost, parses, stale, rebound>>
vars == <<parserVars, historyVars>>

back(s)       == s[Len(s)]
ButBack(s)    == SubSeq(s, 1, Len(s) - 1)
Replace(s, x) == [s EXCEPT ![Len(s)] = x]

-----------------------------------------------------------------------------
(* VarManager: levels, each with its next free register and the names it   *)
(* declares, and the register of each name in scope.                       *)
VarManager == [levels |-> <<[sp |-> 0, vars |-> {}]>>, var_names |-> <<>>]

sp(s)        == back(s.levels).sp
is_var(s, x) == x \in DOMAIN s.var_names

new_scope(s) == [s EXCEPT !.levels = Append(@, [sp |-> sp(s), vars |-> {}])]

(* Mutant: the names of a closed scope stay.                               *)
close_scope_keeps(s) == [s EXCEPT !.levels = ButBack(@)]

close_scope(s) ==
  [levels    |-> ButBack(s.levels),
   var_names |-> [x \in DOMAIN s.var_names \ back(s.levels).vars |-> s.var_names[x]]]

push_var(s, x) ==
  [levels |-> Replace(s.levels, [sp   |-> sp(s) + 1,
                                 vars |-> back(s.levels).vars \cup {x}]),
   var_names |-> [y \in DOMAIN s.var_names \cup {x} |->
                    IF y = x THEN sp(s) ELSE s.var_names[y]]]

-----------------------------------------------------------------------------
(* Expressions, and what eval_expr finds for one.                          *)
(* A literal gets a number of its own.                                     *)
Expr(e) == IF e.kind = "lit" THEN Lit(cost) ELSE e

KnownFunctions == {functions[k].name : k \in DOMAIN functions}
                    \cup {open[k].name : k \in DOMAIN open}

Resolved(s, e) ==
  [e EXCEPT !.kind = CASE e.kind = "lit" -> "lit"
                       [] e.kind = "name" /\ is_var(s, e.name) -> "var"
                       [] e.kind = "name" /\ ~is_var(s, e.name) ->
                            IF e.name \in KnownFunctions THEN "function" ELSE "unknown"]

Known(s, e) == Resolved(s, e).kind # "unknown"

(* The value of e goes to register a.                                      *)
eval_into(em, s, a, e) ==
  add(em, "EVAL", a, IF Resolved(s, e).kind = "var" THEN s.var_names[e.name] ELSE 0,
      Resolved(s, e))

epush(em, s, e) == eval_into(em, s, sp(s), e)

(* push_assign, for i a name, an operator and an expression: a name that   *)
(* is not in scope is declared.                                            *)
Assignable(s, i) == Known(s, i.e) /\ (is_var(s, i.x) \/ i.op = "=")

ResolvedAssign(s, i) == [i EXCEPT !.e = Resolved(s, @)]

AssignScope(s, i) == IF is_var(s, i.x) THEN s ELSE push_var(s, i.x)

push_assign(em, s, i) ==
  LET pushed == epush(em, s, i.e)
      res    == s.var_names[i.x]
  IN CASE ~is_var(s, i.x)                -> pushed
       [] is_var(s, i.x) /\ i.op = "="   -> emit_move(pushed, res, sp(s))
       [] is_var(s, i.x) /\ i.op = "+="  -> add(pushed, "ADD", res, <<sp(s), res>>, 0)
       [] OTHER                          -> add(pushed, "SUB", res, <<res, sp(s)>>, 0)

-----------------------------------------------------------------------------
(* The constructs being parsed, and the statements they consist of, which  *)
(* are history.                                                            *)
Block(braced) == [braced |-> braced, list |-> <<>>]

Construct(kind, name) ==
  [kind |-> kind, name |-> name, l1 |-> 0, l2 |-> 0, e |-> Lit(0), at |-> Lit(0),
   inc |-> <<>>, incAt |-> <<>>, first |-> Block(FALSE), body |-> Block(TRUE)]

top == back(open)

Statement(kind, parts) == [kind |-> kind, parts |-> parts]

(* What is parsed next in the body b.                                      *)
Entered(b) == IF b.braced THEN "block" ELSE "statement"
Left(b)    == IF b.braced THEN "block" ELSE "done"

(* Statement s is complete; rest are the constructs that stay open.        *)
Complete(rest, s) ==
  /\ open' = Replace(rest, [back(rest) EXCEPT !.body.list = Append(@, s)])
  /\ expects' = Left(back(rest).body)

Expecting(what) == status = "parsing" /\ expects \in what

Counted(kind) ==
  /\ cost' = cost + Cost[kind]
  /\ cost' <= IF parses = 1 THEN MaxCost ELSE LaterCost

Begin ==
  /\ emitter' = begin_func /\ functions' = <<>> /\ scope' = VarManager
  /\ jmp_uid' = 0 /\ open' = <<>> /\ expects' = "function"

(* parser_throws: the recursion unwinds, and what was built is used no     *)
(* more.  loops stays.                                                     *)
Rejects(ls) == status' = "rejected" /\ loops' = ls /\ Begin

(* A simple statement.                                                     *)
Simple(ok, em, s, statement) ==
  /\ Expecting({"block", "statement"}) /\ Counted(statement.kind)
  /\ IF ok
     THEN /\ emitter' = em /\ scope' = s
          /\ Complete(open, statement)
          /\ UNCHANGED <<functions, loops, jmp_uid, status>>
     ELSE Rejects(loops)
  /\ UNCHANGED <<parses, stale, rebound>>

Assign ==
  \E i \in {[a EXCEPT !.e = Expr(@)] : a \in Assignments} :
    Simple(Assignable(scope, i), push_assign(emitter, scope, i), AssignScope(scope, i),
           Statement("assign", ResolvedAssign(scope, i)))

(* A call of a native: its argument, the call, the move of its result.     *)
Call ==
  \E e \in {Expr(e) : e \in Exprs} :
    LET r == sp(scope)
        called == add(eval_into(emitter, scope, r + 1, e), "NATIVE", 0, r + 1, 0)
    IN Simple(Known(scope, e), emit_move(called, r, r + 1), scope,
              Statement("call", Resolved(scope, e)))

parse_return ==
  \E e \in {Expr(e) : e \in Exprs} :
    Simple(Known(scope, e),
           add(epush(emitter, scope, e), "RETURN", sp(scope), 0, 0), scope,
           Statement("return", Resolved(scope, e)))

(* Mutant: break leaves the outermost loop.                                *)
break_label_outermost == loops[1].end

break_label == back(loops).end

parse_break ==
  Simple(loops # <<>>, jump(emitter, "JMP", 0, break_label), scope,
         Statement("break", <<>>))

-----------------------------------------------------------------------------
(* if and else.  A block is a scope, a single statement is none.           *)
open_body(s, braced)  == IF braced THEN new_scope(s) ELSE s
close_body(s, braced) == IF braced THEN close_scope(s) ELSE s

if_statement ==
  /\ Expecting({"block", "statement"}) /\ Counted("if") /\ Len(open) < MaxDepth
  /\ \E e \in {Expr(e) : e \in Exprs}, braced \in BOOLEAN :
       IF Known(scope, e)
       THEN /\ emitter' = jump(epush(emitter, scope, e), "JMPF", sp(scope), jmp_uid)
            /\ jmp_uid' = jmp_uid + 1
            /\ scope' = open_body(scope, braced)
            /\ open' = Append(open, [Construct("then", "") EXCEPT
                 !.l1 = jmp_uid, !.at = Resolved(scope, e), !.body = Block(braced)])
            /\ expects' = Entered(Block(braced))
            /\ UNCHANGED <<functions, loops, status>>
       ELSE Rejects(loops)
  /\ UNCHANGED <<parses, stale, rebound>>

(* The body of the innermost construct is complete.                        *)
BodyEnds(kinds) ==
  open # <<>> /\ top.kind \in kinds /\ Expecting({Left(top.body)})

end_then ==
  /\ BodyEnds({"then"})
  /\ scope' = close_body(scope, top.body.braced)
  /\ expects' = "else"
  /\ UNCHANGED <<emitter, functions, loops, jmp_uid, open, status, historyVars>>

parse_else ==
  /\ Expecting({"else"})
  /\ emitter' = label(jump(emitter, "JMP", 0, jmp_uid), top.l1)
  /\ jmp_uid' = jmp_uid + 1
  /\ \E braced \in BOOLEAN :
       /\ scope' = open_body(scope, braced)
       /\ open' = Replace(open, [top EXCEPT
            !.kind = "else", !.l2 = jmp_uid, !.first = top.body, !.body = Block(braced)])
       /\ expects' = Entered(Block(braced))
  /\ UNCHANGED <<functions, loops, status, historyVars>>

no_else ==
  /\ Expecting({"else"})
  /\ emitter' = label(emitter, top.l1)
  /\ Complete(ButBack(open), Statement("if", <<top.at, top.body, Block(FALSE)>>))
  /\ UNCHANGED <<functions, scope, loops, jmp_uid, status, historyVars>>

end_else ==
  /\ BodyEnds({"else"})
  /\ emitter' = label(emitter, top.l2)
  /\ scope' = close_body(scope, top.body.braced)
  /\ Complete(ButBack(open), Statement("if", <<top.at, top.first, top.body>>))
  /\ UNCHANGED <<functions, loops, jmp_uid, status, historyVars>>

-----------------------------------------------------------------------------
(* Loops.  The condition is compiled in front of the body and once more    *)
(* behind it, where the names of the body are in scope.                    *)
Labels(n) == [start |-> n, end |-> n + 1]

(* The header from the condition on; s is the scope of the loop, inc the   *)
(* part of a for behind the condition, under is what the loop is in.       *)
Header(under, construct, s, e, braced) ==
  IF Known(s, e)
  THEN /\ emitter' = label(jump(epush(emitter, s, e), "JMPF", sp(s), jmp_uid + 1), jmp_uid)
       /\ scope' = s
       /\ loops' = Append(loops, Labels(jmp_uid))
       /\ jmp_uid' = jmp_uid + 2
       /\ open' = Append(under, [construct EXCEPT
            !.l1 = jmp_uid, !.l2 = jmp_uid + 1, !.e = e, !.at = Resolved(s, e),
            !.body = Block(braced)])
       /\ expects' = Entered(Block(braced))
       /\ UNCHANGED <<functions, status>>
  ELSE Rejects(Append(loops, Labels(jmp_uid)))

parse_while ==
  /\ Expecting({"block", "statement"}) /\ Counted("while") /\ Len(open) < MaxDepth
  /\ \E e \in {Expr(e) : e \in Exprs}, braced \in BOOLEAN :
       Header(open, Construct("while", ""), new_scope(scope), e, braced)
  /\ UNCHANGED <<parses, stale, rebound>>

parse_for ==
  /\ Expecting({"block", "statement"}) /\ Counted("for") /\ Len(open) < MaxDepth
  /\ scope' = new_scope(scope)
  /\ open' = Append(open, Construct("for", ""))
  /\ expects' = "init"
  /\ UNCHANGED <<emitter, functions, loops, jmp_uid, status, parses, stale, rebound>>

for_init ==
  /\ Expecting({"init"})
  /\ \E i \in {[a EXCEPT !.e = Expr(@)] : a \in Assignments} :
       IF Assignable(scope, i)
       THEN /\ emitter' = push_assign(emitter, scope, i)
            /\ scope' = AssignScope(scope, i)
            /\ open' = Replace(open, [top EXCEPT !.first.list =
                 <<Statement("assign", ResolvedAssign(scope, i))>>])
            /\ expects' = "header"
            /\ UNCHANGED <<functions, loops, jmp_uid, status>>
       ELSE Rejects(loops)
  /\ UNCHANGED historyVars

no_init ==
  /\ Expecting({"init"})
  /\ expects' = "header"
  /\ UNCHANGED <<emitter, functions, scope, loops, jmp_uid, open, status, historyVars>>

(* The increment is only parsed here; it is compiled behind the body.      *)
for_header ==
  /\ Expecting({"header"})
  /\ \E e \in {Expr(e) : e \in Exprs}, i \in Increments, braced \in BOOLEAN :
       Header(ButBack(open),
              [top EXCEPT !.inc = <<i>>,
                          !.incAt = <<Assignable(scope, i), Resolved(scope, i.e)>>],
              scope, e, braced)
  /\ UNCHANGED historyVars

end_loop ==
  /\ BodyEnds({"while", "for"})
  /\ LET for  == top.kind = "for"
         i    == top.inc[1]
         s    == IF for THEN AssignScope(scope, i) ELSE scope
         body == IF for THEN push_assign(emitter, scope, i) ELSE emitter
         inc  == IF for
                 THEN <<Statement("assign", [x |-> i.x, op |-> i.op, e |-> top.incAt[2]])>>
                 ELSE <<>>
     IN IF (for => Assignable(scope, i)) /\ Known(s, top.e)
        THEN /\ emitter' = label(jump(epush(body, s, top.e), "JMPT", sp(s), top.l1), top.l2)
             /\ scope' = close_scope(s)
             /\ loops' = ButBack(loops)
             /\ Complete(ButBack(open),
                         Statement("loop", <<top.first.list, top.at, top.body, inc>>))
             /\ rebound' = \/ rebound
                           \/ Resolved(s, top.e) # top.at
                           \/ for /\ top.incAt # <<TRUE, Resolved(scope, i.e)>>
             /\ UNCHANGED <<functions, jmp_uid, status>>
        ELSE Rejects(loops) /\ UNCHANGED rebound
  /\ UNCHANGED <<cost, parses, stale>>

-----------------------------------------------------------------------------
(* Functions and programs.                                                 *)
PushParams(params) ==
  [levels |-> Append(scope.levels, [sp   |-> sp(scope) + Len(params),
                                    vars |-> {params[k] : k \in DOMAIN params}]),
   var_names |-> [x \in {params[k] : k \in DOMAIN params} |->
                    sp(scope) + (CHOOSE k \in DOMAIN params : params[k] = x) - 1]]

Distinct(params) == \A j, k \in DOMAIN params : params[j] = params[k] => j = k

parse_function ==
  /\ Expecting({"function"}) /\ Counted("function") /\ Len(functions) < MaxFunctions
  /\ \E name \in FunctionNames, params \in Params :
       IF name \notin KnownFunctions /\ Distinct(params)
       THEN /\ emitter' = begin_func
            /\ scope' = PushParams(params)
            /\ open' = <<[Construct("function", name) EXCEPT !.inc = params]>>
            /\ expects' = "block"
            /\ UNCHANGED <<functions, loops, jmp_uid, status>>
       ELSE Rejects(loops)
  /\ UNCHANGED <<parses, stale, rebound>>

(* The body is followed by a return of nil, and its jumps are patched.     *)
end_function ==
  /\ BodyEnds({"function"})
  /\ LET em == add(emitter, "RETURNNIL", 0, 0, 0) IN
     /\ status' = CASE ~WellFormed(em) -> "ill formed"
                    [] WellFormed(em) /\ ~Short(em) -> "too large"
                    [] Resolves(em) -> status
     /\ functions' = IF Resolves(em)
                     THEN Append(functions, [name |-> top.name, params |-> top.inc,
                                             code |-> resolve(em), body |-> top.body.list])
                     ELSE functions
  /\ scope' = close_scope(scope)
  /\ emitter' = begin_func
  /\ open' = <<>>
  /\ expects' = "function"
  /\ UNCHANGED <<loops, jmp_uid, historyVars>>

(* The end of the file: initVM wants a main.                               *)
parse_program_ends ==
  /\ Expecting({"function"})
  /\ status' = IF \E k \in DOMAIN functions : functions[k].name = "main"
               THEN "accepted" ELSE "rejected"
  /\ UNCHANGED <<emitter, functions, scope, loops, jmp_uid, open, expects, historyVars>>

(* A token that no rule expects, anywhere.                                 *)
syntax_error ==
  /\ status = "parsing"
  /\ Rejects(loops)
  /\ UNCHANGED historyVars

(* init_parser and parse_program for the next program: everything is fresh *)
(* but loops.                                                              *)
init_parser ==
  /\ status # "parsing" /\ parses < MaxParses
  /\ Begin /\ UNCHANGED loops
  /\ status' = "parsing"
  /\ parses' = parses + 1
  /\ cost' = 0
  /\ stale' = Len(loops)
  /\ rebound' = FALSE

Init ==
  /\ emitter = begin_func /\ functions = <<>> /\ scope = VarManager
  /\ loops = <<>> /\ jmp_uid = 0 /\ open = <<>>
  /\ expects = "function" /\ status = "parsing"
  /\ cost = 0 /\ parses = 1 /\ stale = 0 /\ rebound = FALSE

Next ==
  \/ Assign \/ Call \/ parse_return \/ parse_break
  \/ if_statement \/ end_then \/ parse_else \/ no_else \/ end_else
  \/ parse_while \/ parse_for \/ for_init \/ no_init \/ for_header \/ end_loop
  \/ parse_function \/ end_function \/ parse_program_ends
  \/ syntax_error \/ init_parser

Spec == Init /\ [][Next]_vars

-----------------------------------------------------------------------------
(* Every jump of every function lands on an instruction of that function   *)
(* (bytecode_emitter.cpp:137-152), and no label is ever missing unless an  *)
(* earlier parse failed inside a loop.                                     *)
JumpsLand ==
  /\ \A k \in DOMAIN functions : JumpsInside(functions[k].code)
  /\ status = "ill formed" => stale > 0

(* The loops a statement is in: open constructs whose header is compiled.  *)
OpenLoops ==
  {j \in DOMAIN open : /\ open[j].kind \in {"while", "for"}
                       /\ j = Len(open) => expects \notin {"init", "header"}}

(* A break is compiled exactly inside a loop, and it leaves the innermost  *)
(* one (parser.cpp:492-495), whatever loops, branches, unbraced bodies and *)
(* functions were opened and closed before, in every parse that began      *)
(* without labels of an earlier one.                                       *)
BreaksInnermost ==
  status = "parsing" /\ stale = 0 =>
    /\ (loops # <<>>) <=> (OpenLoops # {})
    /\ \A j \in OpenLoops :
         (\A k \in OpenLoops : k <= j) => break_label = open[j].l2

(* Two variables in scope never share a register, none has a register that *)
(* is handed out next, and a name in scope is declared by exactly one open *)
(* level: closing a level, which erases its names, loses no other variable *)
(* (var_manager.cpp:7-30).                                                 *)
VariablesApart ==
  LET names == DOMAIN scope.var_names IN
  /\ \A x, y \in names : scope.var_names[x] = scope.var_names[y] => x = y
  /\ \A x \in names : Cardinality({k \in DOMAIN scope.levels : x \in scope.levels[k].vars}) = 1
  /\ \A k \in DOMAIN scope.levels :
       /\ scope.levels[k].vars \subseteq names
       /\ \A x \in scope.levels[k].vars : scope.var_names[x] < scope.levels[k].sp
       /\ k > 1 => scope.levels[k - 1].sp <= scope.levels[k].sp
===============================================================================
