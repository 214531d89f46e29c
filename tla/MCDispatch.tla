------------------------------ MODULE MCDispatch ------------------------------
(***************************************************************************)
(* Programs for TLC: main reads two values of any type from an array and   *)
(* calls function 2 with them, again and again; function 3 is called by    *)
(* function 2.                                                             *)
(***************************************************************************)
EXTENDS Dispatch

I(op, a, b, c) == [op |-> op, a |-> a, b |-> b, c |-> c]
Fn(n, code)    == [arity |-> n, code |-> code]

AnyValue ==
  {set_int(n) : n \in {0, 1, -1, -Half}} \cup
  {set_float(p) : p \in {0, 1, NaN, FlipSign(0), FlipSign(2)}} \cup
  {set_callable(2), Nil, set_array(0, 0), set_array(1, 0)}

Ints == {set_int(n) : n \in {0, 1, 2}}
Floats == {set_float(p) : p \in {0, 1, 2}}

Global == Fn(0, <<I("CALL", 1, 0, 0), I("HALT", 0, 0, 0)>>)

Main == Fn(0, <<I("ARRGET", 1, 0, 0), I("ARRGET", 2, 0, 0),
                I("CALL", 2, 1, 2), I("JMP", 0, -4, 0)>>)

(* main as the compiler emits it: the callee is in a register.             *)
MainByRegister ==
  Fn(0, <<I("LOADFUNC", 0, 2, 0), I("ARRGET", 1, 0, 0), I("ARRGET", 2, 0, 0),
          I("INVOKEDYNAMIC", 0, 1, 2), I("JMPT", 1, -5, 0),
          I("RETURNNIL", 0, 0, 0)>>)

Return(a)  == I("RETURN", a, 0, 0)
Leaf       == Fn(1, <<I("NEG", 0, 0, 0), Return(0)>>)
Bin(op)    == Fn(2, <<I(op, 0, 0, 1), Return(0)>>)

(* if (x) y = -y; and a loop while (x) { x = x - 1; }.                     *)
Choose(op) ==
  Fn(2, <<I(op, 0, 1, 0), I("NEG", 1, 1, 0), Return(1)>>)
Count ==
  Fn(2, <<I("LOADINT", 2, 1, 0), I("JMPF", 0, 2, 0), I("SUB", 0, 0, 2),
          I("JMPT", 0, -2, 0), I("RETURNNIL", 0, 0, 0)>>)
(* Registers beyond the arguments are nil whoever called before.           *)
Fresh == Fn(2, <<I("EQ", 0, 0, 2), I("MOVE", 2, 1, 0), Return(0)>>)
Fetch == Fn(2, <<I("LOADNIL", 2, 0, 0), I("JMP", 0, 0, 0),
                 I("ARRGET", 1, 0, 1), Return(1)>>)
Direct   == Fn(2, <<I("CALL", 3, 1, 1), Return(1)>>)
Dynamic  == Fn(2, <<I("INVOKEDYNAMIC", 0, 0, 2), Return(0)>>)
Endless  == Fn(2, <<I("CALL", 2, 0, 2), Return(0)>>)
WrongArity == Fn(2, <<I("CALL", 3, 1, 2), Return(1)>>)

As(m, f) == [k \in 0 .. 3 |-> CASE k = 0 -> Global [] k = 1 -> m
                                [] k = 2 -> f [] k = 3 -> Leaf]

Everything ==
  {As(Main, Bin(op)) : op \in BinaryOps} \cup
  {As(Main, f) : f \in {Choose("JMPT"), Choose("JMPF"), Count, Fresh, Fetch,
                        Direct, Endless, WrongArity}} \cup
  {As(MainByRegister, f) : f \in {Dynamic, Bin("LT"), Leaf}}

Less == {As(Main, Bin("LT"))}
Sum  == {As(Main, Bin("ADD"))}
Another == {As(Main, Bin("SUB")), As(MainByRegister, Direct)}
None == {}
===============================================================================
