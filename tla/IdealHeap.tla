------------------------------ MODULE IdealHeap ------------------------------
(***************************************************************************)
(* What the language promises of arrays, with no collector in sight: an    *)
(* array() is new, an element read is the last value stored, a fault never *)
(* happens, and the only thing memory management may do is to forget       *)
(* arrays that no register in scope can reach - during an allocation or    *)
(* on its own between two instructions.                                    *)
(***************************************************************************)
EXTENDS Registers

CONSTANTS MaxLen, Lens, Indices, StoresArrays

VARIABLES objs,       \* the arrays that exist
          len, slots, \* their lengths and elements
          allocated   \* the next id

heapVars == <<objs, len, slots, allocated>>

Init ==
  /\ RegistersInit
  /\ objs = {} /\ allocated = 1
  /\ len = [i \in Ids |-> 0]
  /\ slots = [i \in Ids |-> [k \in 1 .. MaxLen |-> Scalar]]

Elements(i) == {slots[i][k] : k \in 1 .. len[i]} \cap Ids

Reachable ==
  Closure(UNION {{i} \X Elements(i) : i \in Ids}, StackRoots)

(* Any set of unreachable arrays is forgotten, and an array n long is      *)
(* added for each id of news.                                              *)
Forgetting(news, n) ==
  /\ Reachable \cup news \subseteq objs' /\ objs' \subseteq objs \cup news
  /\ len' = [i \in Ids |-> IF i \in news THEN n ELSE IF i \in objs' THEN len[i] ELSE 0]
  /\ slots' = [i \in Ids |-> IF i \in objs' \ news THEN slots[i]
                             ELSE [k \in 1 .. MaxLen |-> Scalar]]

Alloc(dst, n) ==
  /\ Executing
  /\ allocated \in Ids
  /\ allocated' = allocated + 1
  /\ SetReg(dst, allocated)
  /\ Forgetting({allocated}, n)

Forget ==
  /\ status = "running"
  /\ UNCHANGED <<allocated, regVars>>
  /\ Forgetting({}, 0)

Element(arr, idx) == Reg(arr) \in Ids /\ idx \in 0 .. len[Reg(arr)] - 1

Get(dst, arr, idx) ==
  /\ Executing /\ Element(arr, idx)
  /\ SetReg(dst, slots[Reg(arr)][idx + 1])
  /\ UNCHANGED heapVars

Set(arr, idx, src) ==
  /\ Executing /\ Element(arr, idx)
  /\ StoresArrays \/ Reg(src) = Scalar
  /\ slots' = [slots EXCEPT ![Reg(arr)][idx + 1] = Reg(src)]
  /\ UNCHANGED <<objs, len, allocated, regVars>>

Next ==
  \/ \E dst \in RegOps, n \in Lens : Alloc(dst, n)
  \/ Forget
  \/ \E dst, arr \in RegOps, idx \in Indices : Get(dst, arr, idx)
  \/ \E arr, src \in RegOps, idx \in Indices : Set(arr, idx, src)
  \/ Executing /\ Throw /\ UNCHANGED heapVars
  \/ RegistersNext /\ UNCHANGED heapVars

Spec == Init /\ [][Next]_<<heapVars, regVars>>
=============================================================================
