-------------------------------- MODULE Values --------------------------------
(***************************************************************************)
(* The 64-bit Value of src/src/value.h as the collector and the register   *)
(* file tell values apart: an array is the object id in its low half (the  *)
(* length and mark bits that ride in the high half of a copy are never     *)
(* consulted), and Scalar stands for every int, float, callable and nil.   *)
(***************************************************************************)
EXTENDS Integers

CONSTANT MaxObjs   \* bound of the model: arrays a behaviour may allocate

ASSUME ValuesAssumption == MaxObjs \in Nat

Ids    == 1 .. MaxObjs
Scalar == 0
Value  == Ids \cup {Scalar}

(* The least set of arrays that contains R and is closed under edges, a    *)
(* set of pairs <<i, j>>: array i leads to array j.                        *)
Closed(edges, R) ==
  {S \in SUBSET Ids : R \subseteq S /\ \A e \in edges : e[1] \in S => e[2] \in S}

Closure(edges, R) ==
  LET closed == Closed(edges, R) IN {i \in Ids : \A S \in closed : i \in S}
===============================================================================
