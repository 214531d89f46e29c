----------------------------- MODULE MCStatements -----------------------------
(***************************************************************************)
(* Programs for TLC: two names, one of which is also a function's, so that *)
(* it means something else once a variable has it; Cost lets the bound     *)
(* hold back the statements that branch most.                              *)
(***************************************************************************)
EXTENDS Statements

MCNames == {"x", "main"}
MCFunctions == {"main", "f"}
MCParams == {<<>>, <<"x">>}
MCExprs == {Name("x"), Name("main")}
MCAssignments == {[x |-> "x", op |-> "=", e |-> Lit(0)],
                  [x |-> "x", op |-> "-=", e |-> Name("x")],
                  [x |-> "main", op |-> "=", e |-> Lit(0)]}
MCIncrements == {[x |-> "x", op |-> "-=", e |-> Lit(0)]}
MCCost == [k \in Kinds |-> CASE k \in {"break", "call"} -> 1
                             [] k \in {"return", "assign", "while", "if"} -> 2
                             [] k \in {"for", "function"} -> 3]
===============================================================================
