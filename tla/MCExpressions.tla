----------------------------- MODULE MCExpressions -----------------------------
(***************************************************************************)
(* Many operators or many kinds of names in short expressions, few of them *)
(* in long ones, which nest calls in the arguments of calls.               *)
(***************************************************************************)
EXTENDS ExpressionCode

UpTo(n, tokens) == [tokens |-> tokens, longest |-> n]

Mixed ==
  {UpTo(5, {"x", "1", "-", "(", ")", "+", "%", "!=", "<", ">="}),
   UpTo(6, {"x", "y", "f", "n", "array", "u", "1", "(", ")", "[", "]", ","}),
   UpTo(6, {"x", "f", "(", ")", "-", "*", "[", "]", ">", "!="}),
   UpTo(8, {"x", "f", "(", ")", ",", ">"}),
   UpTo(8, {"x", "1", "-", "*", "=="}),
   UpTo(7, {"x", "==", "!=", "<", "(", ")"})}
===============================================================================
