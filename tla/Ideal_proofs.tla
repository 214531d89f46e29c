------------------------------ MODULE Ideal_proofs ------------------------------
(***************************************************************************)
(* The machine as an implementation of the arrays the language promises    *)
(* (IdealHeap), for every value of the constants.  Part one: a collection  *)
(* changes nothing of the arrays it leaves, in any graph.  Part two: so a  *)
(* step that loses no reachable array is a step of the ideal machine.      *)
(* Part three: exact lists count the arrays.  Part four: a program whose   *)
(* references stay within the generations loses no reachable array,        *)
(* whatever graph it builds, so it runs as the ideal machine does and      *)
(* counts its arrays; a flat program is one of these.                      *)
(***************************************************************************)
EXTENDS Flat_proofs, Graph_proofs

(* An array without storage has neither length nor elements.               *)
Cleared(h) ==
  \A i \in Ids : i \notin Usable(h) => h.len[i] = 0 /\ h.slots[i] = NoSlots

(* The collection that turned h into g added no array, and left the arrays *)
(* it kept as they were.                                                   *)
Forgets(h, g) ==
  /\ Usable(g) \subseteq Usable(h)
  /\ \A i \in Usable(g) : g.len[i] = h.len[i] /\ g.slots[i] = h.slots[i]
  /\ Cleared(g)

(* Two collections in a row.                                               *)
LEMMA ForgetsTwice ==
  ASSUME NEW h, NEW g, NEW k, Forgets(h, g), Forgets(g, k)
  PROVE  Forgets(h, k)
BY DEF Forgets

(* A heap that no collection touched.                                      *)
LEMMA ForgetsSame ==
  ASSUME NEW h, Cleared(h)
  PROVE  Forgets(h, h)
BY DEF Forgets

(* A sweep takes arrays out of the table and changes no other.             *)
LEMMA SweepForgets ==
  ASSUME NEW h, Cleared(h), NEW g, NEW freed,
         \A i \in Ids :
           /\ g.mem[i] = IF i \in freed THEN "none" ELSE h.mem[i]
           /\ g.len[i] = IF i \in freed THEN 0 ELSE h.len[i]
           /\ g.slots[i] = IF i \in freed THEN NoSlots ELSE h.slots[i]
  PROVE  Forgets(h, g)
<1>1. \A i \in Ids : i \in Usable(g) <=> i \in Usable(h) /\ i \notin freed
  BY DEF Usable
<1>2. Usable(g) \subseteq Ids BY DEF Usable
<1>3. Usable(g) \subseteq Usable(h) BY <1>1, <1>2
<1>4. \A i \in Usable(g) : g.len[i] = h.len[i] /\ g.slots[i] = h.slots[i]
  BY <1>1, <1>2
<1>5. Cleared(g) BY <1>1 DEF Cleared
<1>6. QED BY <1>3, <1>4, <1>5 DEF Forgets

(* major_gc() and large_gc().                                              *)
LEMMA MajorForgets ==
  ASSUME NEW h \in HeapType, Cleared(h), NEW R
  PROVE  Forgets(h, major_gc(h, R))
<1> DEFINE g == major_gc(h, R)
<1>1. \A i \in Ids :
        /\ g.mem[i] = IF i \in MajorFreed(h, R) THEN "none" ELSE h.mem[i]
        /\ g.len[i] = IF i \in MajorFreed(h, R) THEN 0 ELSE h.len[i]
        /\ g.slots[i] = IF i \in MajorFreed(h, R) THEN NoSlots ELSE h.slots[i]
  BY MajorFields
<1> HIDE DEF g
<1>2. Forgets(h, g) BY <1>1, SweepForgets
<1>3. QED BY <1>2 DEF g

LEMMA LargeForgets ==
  ASSUME NEW h \in HeapType, Cleared(h), NEW R
  PROVE  Forgets(h, large_gc(h, R))
<1> DEFINE g     == large_gc(h, R)
           freed == h.large_roots \ LargeKept(h, R)
<1>1. \A i \in Ids :
        /\ g.mem[i] = IF i \in freed THEN "none" ELSE h.mem[i]
        /\ g.len[i] = IF i \in freed THEN 0 ELSE h.len[i]
        /\ g.slots[i] = IF i \in freed THEN NoSlots ELSE h.slots[i]
  BY LargeFields
<1> HIDE DEF g, freed
<1>2. Forgets(h, g) BY <1>1, SweepForgets
<1>3. QED BY <1>2 DEF g

(* The evacuation of the arena, if it finds what it moves.                 *)
LEMMA EvacuatedForgets ==
  ASSUME NEW h \in HeapType, Cleared(h), NEW R, Evacuated(h, R).faults = {}
  PROVE  Forgets(h, Evacuated(h, R))
<1> DEFINE g     == Evacuated(h, R)
           moved == MinorMoved(h, R)
           dead  == h.young_roots \ moved
<1>1. \A i \in Ids :
        /\ g.mem[i] = IF i \in dead THEN "dangling"
                      ELSE IF i \in moved THEN "old" ELSE h.mem[i]
        /\ g.len[i] = IF i \in dead THEN 0 ELSE h.len[i]
        /\ g.slots[i] = IF i \in dead THEN NoSlots ELSE h.slots[i]
  BY EvacuatedFields
<1>2. moved \ Usable(h) \subseteq g.faults BY EvacuatedFields
<1>3. moved \subseteq Usable(h) BY <1>2
<1> HIDE DEF g, moved
<1>4. \A i \in Ids : i \in Usable(g) <=> i \in Usable(h) /\ i \notin dead
  BY <1>1, <1>3 DEF Usable
<1>5. Usable(g) \subseteq Ids BY DEF Usable
<1>6. Usable(g) \subseteq Usable(h) BY <1>4, <1>5
<1>7. \A i \in Usable(g) : g.len[i] = h.len[i] /\ g.slots[i] = h.slots[i]
  BY <1>1, <1>4, <1>5
<1>8. Cleared(g) BY <1>1, <1>4 DEF Cleared
<1>9. QED BY <1>6, <1>7, <1>8 DEF Forgets, g

(* minor_gc(), GC_CALL and the collections alloc_array() starts with.      *)
LEMMA MinorForgets ==
  ASSUME NEW h \in HeapType, Cleared(h), NEW R, minor_gc(h, R).faults = {}
  PROVE  Forgets(h, minor_gc(h, R))
<1> DEFINE r == Evacuated(h, R)
           g == major_gc(r, R)
<1>1. r \in HeapType BY EvacuatedFields
<1>2. r.faults \subseteq g.faults BY <1>1, MajorFields
<1>3. minor_gc(h, R) = g \/ minor_gc(h, R) = r BY MinorIs
<1>4. r.faults = {} BY <1>2, <1>3
<1>5. Forgets(h, r) BY <1>4, EvacuatedForgets
<1>6. Cleared(r) BY <1>5 DEF Forgets
<1> HIDE DEF r
<1>7. Forgets(r, g) BY <1>1, <1>6, MajorForgets
<1>8. Forgets(h, g) BY <1>5, <1>7, ForgetsTwice
<1>9. QED BY <1>3, <1>5, <1>8

LEMMA CallForgets ==
  ASSUME NEW h \in HeapType, Cleared(h), NEW R
  PROVE  Forgets(h, call(h, R))
<1> DEFINE l == large_gc(h, R)
<1>1. l \in HeapType /\ Forgets(h, l) BY LargeType, LargeForgets
<1>2. Cleared(l) BY <1>1 DEF Forgets
<1>3. call(h, R) = major_gc(l, R) BY DEF call
<1> HIDE DEF l
<1>4. Forgets(l, major_gc(l, R)) BY <1>1, <1>2, MajorForgets
<1>5. QED BY <1>1, <1>3, <1>4, ForgetsTwice

LEMMA BeforeAllocForgets ==
  ASSUME NEW h \in HeapType, Cleared(h), NEW n, NEW R, BeforeAlloc(h, n, R).faults = {}
  PROVE  Forgets(h, BeforeAlloc(h, n, R))
<1> DEFINE l == IF Cardinality(h.large_roots) >= LARGE_THRESHOLD
                THEN large_gc(h, R) ELSE h
<1>1. l \in HeapType /\ Forgets(h, l) BY LargeType, LargeForgets, ForgetsSame
<1>2. Cleared(l) BY <1>1 DEF Forgets
<1>3. BeforeAlloc(h, n, R) = IF ~IsLarge(n) /\ ArenaFull(l, n) THEN minor_gc(l, R) ELSE l
  BY DEF BeforeAlloc
<1> HIDE DEF l
<1>4. CASE BeforeAlloc(h, n, R) = l BY <1>1, <1>4
<1>5. CASE BeforeAlloc(h, n, R) = minor_gc(l, R)
  <2>1. Forgets(l, minor_gc(l, R)) BY <1>1, <1>2, <1>5, MinorForgets
  <2>2. QED BY <1>1, <1>5, <2>1, ForgetsTwice
<1>6. QED BY <1>3, <1>4, <1>5

(* The allocation of array i, n long, that turned h into a added that      *)
(* array and left the arrays it kept as they were.                         *)
Adds(h, a, i, n) ==
  /\ i \in Usable(a) /\ a.len[i] = n /\ a.slots[i] = NoSlots
  /\ \A j \in Usable(a) : j # i =>
       j \in Usable(h) /\ a.len[j] = h.len[j] /\ a.slots[j] = h.slots[j]
  /\ Cleared(a)

LEMMA AllocAdds ==
  ASSUME NEW h \in HeapType, h.allocated \in Ids, Cleared(h), NEW n \in 0 .. MaxLen,
         NEW R, alloc_array(h, n, R).faults = {}
  PROVE  Adds(h, alloc_array(h, n, R), h.allocated, n)
<1> DEFINE g == BeforeAlloc(h, n, R)
           i == h.allocated
           a == alloc_array(h, n, R)
<1>1. Allocated(g, i, n, a) BY AllocFields
<1>2. g.faults = {} BY <1>1 DEF Allocated
<1>3. Forgets(h, g) BY <1>2, BeforeAllocForgets
<1> HIDE DEF g, a
<1>4. i \in Usable(a) /\ a.len[i] = n /\ a.slots[i] = NoSlots
  BY <1>1 DEF Allocated, Usable
<1>5. \A j \in Ids : j # i =>
        /\ j \in Usable(a) <=> j \in Usable(g)
        /\ a.len[j] = g.len[j] /\ a.slots[j] = g.slots[j]
  BY <1>1 DEF Allocated, Usable
<1>6. Usable(a) \subseteq Ids BY DEF Usable
<1>7. \A j \in Usable(a) : j # i =>
        j \in Usable(h) /\ a.len[j] = h.len[j] /\ a.slots[j] = h.slots[j]
  BY <1>3, <1>5, <1>6 DEF Forgets
<1>8. Cleared(a) BY <1>3, <1>4, <1>5 DEF Forgets, Cleared
<1>9. QED BY <1>4, <1>7, <1>8 DEF Adds, a

-----------------------------------------------------------------------------
(* The operators of the instance are those of the machine.                 *)
LEMMA IdealRegisters ==
  /\ Ideal!Executing <=> Executing
  /\ Ideal!Throw <=> Throw
  /\ \A a : Ideal!Reg(a) = Reg(a)
  /\ \A a, v : Ideal!SetReg(a, v) <=> SetReg(a, v)
  /\ Ideal!Ids = Ids /\ Ideal!RegOps = RegOps /\ Ideal!Scalar = Scalar
  /\ Ideal!regVars = regVars /\ Ideal!StackRoots = StackRoots
BY DEF Ideal!Executing, Executing, Ideal!Throw, Throw, Ideal!Reg, Reg,
       Ideal!SetReg, SetReg, Ideal!Ids, Ids, Ideal!RegOps, RegOps, Ideal!Scalar,
       Scalar, Ideal!regVars, regVars, Ideal!StackRoots, StackRoots,
       Ideal!get_sp, get_sp

LEMMA IdealFrames ==
  /\ \A b, c : Ideal!PushFrame(b, c) <=> PushFrame(b, c)
  /\ \A v : Ideal!PopFrame(v) <=> PopFrame(v)
BY DEF Ideal!PushFrame, PushFrame, Ideal!PopFrame, PopFrame, Ideal!Bases, Bases,
       Ideal!Fits, Fits, Ideal!Cells, Cells, Ideal!Scalar, Scalar

LEMMA IdealRegistersNext ==
  ASSUME RegistersNext
  PROVE  Ideal!RegistersNext
<1>1. \A dst, src : op_move(dst, src) => Ideal!op_move(dst, src)
  BY IdealRegisters DEF op_move, Ideal!op_move
<1>2. \A dst : op_scalar(dst) => Ideal!op_scalar(dst)
  BY IdealRegisters DEF op_scalar, Ideal!op_scalar
<1>3. \A b, c, arity : op_call(b, c, arity) => Ideal!op_call(b, c, arity)
  BY IdealRegisters, IdealFrames DEF op_call, Ideal!op_call
<1>4. call_main => Ideal!call_main BY IdealFrames DEF call_main, Ideal!call_main
<1>5. \A r : op_return(r) => Ideal!op_return(r)
  BY IdealRegisters, IdealFrames DEF op_return, Ideal!op_return
<1>6. op_returnnil => Ideal!op_returnnil
  BY IdealRegisters, IdealFrames DEF op_returnnil, Ideal!op_returnnil
<1>7. op_halt => Ideal!op_halt BY DEF op_halt, Ideal!op_halt
<1>8. QED
  BY <1>1, <1>2, <1>3, <1>4, <1>5, <1>6, <1>7, IdealRegisters
  DEF RegistersNext, Ideal!RegistersNext

(* What the ideal machine calls reachable is what the collector does.      *)
LEMMA IdealReachable == Ideal!Reachable = Reach(heap, StackRoots)
<1>1. \A i : Ideal!Elements(i) = Children(heap, i)
  BY IdealRegisters DEF Ideal!Elements, Children
<1>2. \A E, R : Ideal!Closure(E, R) = Closure(E, R)
  BY IdealRegisters DEF Ideal!Closure, Closure, Ideal!Closed, Closed
<1>3. UNION {{i} \X Ideal!Elements(i) : i \in Ids} = Edges(heap) BY <1>1 DEF Edges
<1>4. QED BY <1>2, <1>3, IdealRegisters DEF Ideal!Reachable, Reach

(* A step of the machine seen through the arrays the table serves.         *)
IdealStep == [Ideal!Next]_<<Ideal!heapVars, Ideal!regVars>>

(* What the ideal machine may do to its arrays, in a collection and in an  *)
(* allocation.                                                             *)
LEMMA ForgettingIf ==
  ASSUME heap' \in HeapType, NEW news, NEW n,
         Reach(heap, StackRoots) \cup news \subseteq Usable(heap'),
         Usable(heap') \subseteq Usable(heap) \cup news,
         \A i \in Ids :
           /\ heap'.len[i] = IF i \in news THEN n
                             ELSE IF i \in Usable(heap') THEN heap.len[i] ELSE 0
           /\ heap'.slots[i] = IF i \in Usable(heap') \ news THEN heap.slots[i]
                               ELSE NoSlots
  PROVE  Ideal!Forgetting(news, n)
<1>1. /\ heap'.len = [i \in Ids |-> IF i \in news THEN n
                                    ELSE IF i \in Usable(heap') THEN heap.len[i] ELSE 0]
      /\ heap'.slots = [i \in Ids |-> IF i \in Usable(heap') \ news THEN heap.slots[i]
                                      ELSE NoSlots]
  BY DEF HeapType
<1>2. Usable(heap') = Usable(heap)' BY DEF Usable
<1>3. QED
  BY <1>1, <1>2, IdealReachable, IdealRegisters DEF Ideal!Forgetting, NoSlots

(* A collection that keeps what is reachable only forgets.                 *)
LEMMA ForgetIsIdeal ==
  ASSUME heap' \in HeapType, Cleared(heap), Forgets(heap, heap'), status = "running",
         heap'.allocated = heap.allocated, UNCHANGED regVars,
         Reach(heap, StackRoots) \subseteq Usable(heap')
  PROVE  Ideal!Forget
<1>1. \A i \in Ids :
        /\ heap'.len[i] = IF i \in {} THEN 0
                          ELSE IF i \in Usable(heap') THEN heap.len[i] ELSE 0
        /\ heap'.slots[i] = IF i \in Usable(heap') \ {} THEN heap.slots[i]
                            ELSE NoSlots
  BY DEF Forgets, Cleared
<1>2. Usable(heap') \subseteq Usable(heap) BY DEF Forgets
<1>3. Ideal!Forgetting({}, 0) BY <1>1, <1>2, ForgettingIf
<1>4. UNCHANGED <<heap.allocated, Ideal!regVars>> BY DEF Ideal!regVars, regVars
<1>5. QED BY <1>3, <1>4 DEF Ideal!Forget

(* An allocation that keeps what is reachable forgets and adds.            *)
LEMMA AddIsIdeal ==
  ASSUME heap' \in HeapType, heap.allocated \in Ids, NEW n, NEW dst, Executing,
         Adds(heap, heap', heap.allocated, n), SetReg(dst, heap.allocated),
         heap'.allocated = heap.allocated + 1,
         Reach(heap, StackRoots) \subseteq Usable(heap')
  PROVE  Ideal!Alloc(dst, n)
<1> DEFINE new == heap.allocated
<1>1. \A i \in Ids :
        /\ heap'.len[i] = IF i \in {new} THEN n
                          ELSE IF i \in Usable(heap') THEN heap.len[i] ELSE 0
        /\ heap'.slots[i] = IF i \in Usable(heap') \ {new} THEN heap.slots[i]
                            ELSE NoSlots
  BY DEF Adds, Cleared
<1>2. Usable(heap') \subseteq Usable(heap) \cup {new} /\ new \in Usable(heap')
  BY DEF Adds
<1>3. Ideal!Forgetting({new}, n) BY <1>1, <1>2, ForgettingIf
<1>4. QED BY <1>3, IdealRegisters DEF Ideal!Alloc

(* What is reachable survives the step.                                    *)
Survives == Reach(heap, StackRoots) \subseteq Usable(heap')

(* op_alloc and gc_call, when they fail nowhere and lose nothing.          *)
LEMMA AllocIsIdeal ==
  ASSUME Consistent, Cleared(heap), NEW dst \in RegOps, NEW n \in Lens,
         op_alloc(dst, n), status' # "fault"
  PROVE  Cleared(heap') /\ (Survives => Ideal!Alloc(dst, n))
<1> DEFINE h == alloc_array(heap, n, StackRoots)
<1>1. n \in 0 .. MaxLen BY ArrayVMAssumption
<1>2. heap \in HeapType /\ heap.allocated \in Ids /\ Executing /\ Sound(heap)
  BY DEF Consistent, TypeOK, op_alloc
<1>3. h.faults = {} /\ heap' = h /\ SetReg(dst, heap.allocated)
  BY DEF op_alloc, Faults, FaultStep
<1>4. Adds(heap, h, heap.allocated, n) BY <1>1, <1>2, <1>3, AllocAdds
<1>5. h \in HeapType /\ h.allocated = heap.allocated + 1 BY <1>1, <1>2, AllocSound
<1> HIDE DEF h
<1>6. Cleared(heap') BY <1>3, <1>4 DEF Adds
<1>7. Survives => Ideal!Alloc(dst, n)
  BY <1>2, <1>3, <1>4, <1>5, AddIsIdeal DEF Survives
<1>8. QED BY <1>6, <1>7

LEMMA GcIsIdeal ==
  ASSUME Consistent, Cleared(heap), gc_call, status' # "fault"
  PROVE  Cleared(heap') /\ (Survives => Ideal!Forget)
<1> DEFINE h == call(heap, StackRoots)
<1>1. heap \in HeapType /\ Sound(heap) /\ status = "running"
  BY DEF Consistent, TypeOK, gc_call
<1>2. heap' = h /\ UNCHANGED regVars
  BY DEF gc_call, FaultStep, regVars
<1>3. Forgets(heap, h) BY <1>1, CallForgets
<1>4. h \in HeapType /\ h.allocated = heap.allocated BY <1>1, CallTidies DEF Tidied
<1> HIDE DEF h
<1>5. Cleared(heap') BY <1>2, <1>3 DEF Forgets
<1>6. Survives => Ideal!Forget
  BY <1>1, <1>2, <1>3, <1>4, ForgetIsIdeal DEF Survives
<1>7. QED BY <1>5, <1>6

(* A step that changes neither heap nor the arrays in it.                  *)
LEMMA SameIsCleared ==
  ASSUME Cleared(heap), UNCHANGED heap
  PROVE  Cleared(heap') /\ UNCHANGED Ideal!heapVars
BY DEF Cleared, Ideal!heapVars, Usable

(* Throwing, in the middle of any instruction.                             *)
LEMMA ThrowIsIdeal ==
  ASSUME Cleared(heap), Executing, Throw, UNCHANGED heap
  PROVE  Ideal!Next /\ Cleared(heap')
BY SameIsCleared, IdealRegisters DEF Ideal!Next

(* An index in bounds.                                                     *)
LEMMA ElementIsIdeal ==
  ASSUME Consistent, NEW arr \in RegOps, NEW idx \in Indices, Reg(arr) \in Ids,
         InBounds(heap, Reg(arr), idx)
  PROVE  Ideal!Element(arr, idx)
<1>1. idx \in Int BY ArrayVMAssumption
<1>2. heap.len[Reg(arr)] \in 0 .. MaxLen BY DEF Consistent, TypeOK, HeapType
<1>3. idx \in 0 .. heap.len[Reg(arr)] - 1
  BY <1>1, <1>2, HeapAssumption DEF InBounds
<1>4. QED BY <1>3, IdealRegisters DEF Ideal!Element

(* op_arrget and op_arrset, when they do not fault.                        *)
LEMMA GetIsIdeal ==
  ASSUME Consistent, Cleared(heap), NEW dst \in RegOps, NEW arr \in RegOps,
         NEW idx \in Indices, op_arrget(dst, arr, idx), status' # "fault"
  PROVE  Ideal!Next /\ Cleared(heap')
<1>1. Executing BY DEF op_arrget
<1>2. CASE Throw /\ UNCHANGED heap BY <1>1, <1>2, ThrowIsIdeal
<1>3. CASE /\ Reg(arr) \in Ids /\ InBounds(heap, Reg(arr), idx)
           /\ SetReg(dst, heap.slots[Reg(arr)][idx + 1]) /\ UNCHANGED heap
  <2>1. Ideal!Element(arr, idx) BY <1>3, ElementIsIdeal
  <2>2. Ideal!Get(dst, arr, idx)
    BY <1>1, <1>3, <2>1, SameIsCleared, IdealRegisters DEF Ideal!Get
  <2>3. QED BY <1>3, <2>2, SameIsCleared, IdealRegisters DEF Ideal!Next
<1>4. QED BY <1>2, <1>3 DEF op_arrget, FaultStep

LEMMA SetIsIdeal ==
  ASSUME Consistent, Cleared(heap), NEW arr \in RegOps, NEW src \in RegOps,
         NEW idx \in Indices, op_arrset(arr, idx, src), status' # "fault"
  PROVE  Ideal!Next /\ Cleared(heap')
<1> DEFINE a == Reg(arr)
           slots == [heap.slots EXCEPT ![a][idx + 1] = Reg(src)]
<1>1. Executing /\ (StoresArrays \/ Reg(src) = Scalar) BY DEF op_arrset
<1>2. CASE Throw /\ UNCHANGED heap BY <1>1, <1>2, ThrowIsIdeal
<1>3. CASE /\ a \in Usable(heap) /\ a \in Ids /\ InBounds(heap, a, idx)
           /\ heap' = [heap EXCEPT !.slots[a][idx + 1] = Reg(src)]
           /\ UNCHANGED regVars
  <2>1. heap \in HeapType BY DEF Consistent, TypeOK
  <2>2. Ideal!Element(arr, idx) BY <1>3, ElementIsIdeal
  <2>3. heap' = [heap EXCEPT !.slots = slots] BY <1>3, <2>1 DEF HeapType
  <2>4. \A j \in Ids : j # a => slots[j] = heap.slots[j] BY <2>1 DEF HeapType
  <2>5. slots = [heap.slots EXCEPT ![a][idx + 1] = Reg(src)] OBVIOUS
  <2> HIDE DEF slots
  <2>6. /\ heap'.mem = heap.mem /\ heap'.len = heap.len /\ heap'.slots = slots
        /\ heap'.allocated = heap.allocated
    BY <2>1, <2>3 DEF HeapType
  <2>7. Usable(heap') = Usable(heap) BY <2>6 DEF Usable
  <2>8. UNCHANGED Usable(heap) BY <2>6 DEF Usable
  <2>9. Cleared(heap') BY <1>3, <2>4, <2>6, <2>7 DEF Cleared
  <2>10. heap'.slots = [heap.slots EXCEPT ![Ideal!Reg(arr)][idx + 1] = Ideal!Reg(src)]
    BY <2>5, <2>6, IdealRegisters
  <2>11. UNCHANGED <<Usable(heap), heap.len, heap.allocated, Ideal!regVars>>
    BY <1>3, <2>6, <2>8 DEF Ideal!regVars, regVars
  <2>12. Ideal!Executing /\ (StoresArrays \/ Ideal!Reg(src) = Ideal!Scalar)
    BY <1>1, IdealRegisters
  <2>13. Ideal!Set(arr, idx, src) BY <2>2, <2>10, <2>11, <2>12 DEF Ideal!Set
  <2>14. QED BY <2>9, <2>13, IdealRegisters DEF Ideal!Next
<1>4. QED BY <1>2, <1>3 DEF op_arrset, FaultStep

(* len().                                                                  *)
LEMMA LenIsIdeal ==
  ASSUME Cleared(heap), NEW r \in RegOps, cote_len(r), status' # "fault"
  PROVE  Ideal!Next /\ Cleared(heap')
<1>1. Executing /\ UNCHANGED heap BY DEF cote_len, FaultStep
<1>2. CASE Throw BY <1>1, <1>2, ThrowIsIdeal
<1>3. CASE SetReg(r, Scalar)
  <2>1. RegistersNext BY <1>1, <1>3 DEF RegistersNext, op_scalar
  <2>2. QED BY <1>1, <2>1, SameIsCleared, IdealRegistersNext DEF Ideal!Next
<1>4. QED BY <1>2, <1>3 DEF cote_len, FaultStep

(* What is reachable survives the step, if it may run a collection.        *)
LosesNothing ==
  /\ gc_call => Survives
  /\ \A dst \in RegOps, n \in Lens : op_alloc(dst, n) => Survives

(* Every step that does not fault keeps the arrays without storage cleared *)
(* and, if it loses nothing, is a step of the ideal machine.               *)
LEMMA NextIsIdeal ==
  ASSUME Consistent, Cleared(heap), Next, status' # "fault"
  PROVE  Cleared(heap') /\ (LosesNothing => Ideal!Next)
<1>1. ASSUME NEW dst \in RegOps, NEW n \in Lens, op_alloc(dst, n)
      PROVE  Cleared(heap') /\ (LosesNothing => Ideal!Next)
  BY <1>1, AllocIsIdeal, IdealRegisters DEF Ideal!Next, LosesNothing
<1>2. ASSUME NEW dst \in RegOps, NEW arr \in RegOps, NEW idx \in Indices,
             op_arrget(dst, arr, idx)
      PROVE  Cleared(heap') /\ Ideal!Next
  BY <1>2, GetIsIdeal
<1>3. ASSUME NEW arr \in RegOps, NEW src \in RegOps, NEW idx \in Indices,
             op_arrset(arr, idx, src)
      PROVE  Cleared(heap') /\ Ideal!Next
  BY <1>3, SetIsIdeal
<1>4. ASSUME NEW r \in RegOps, cote_len(r)
      PROVE  Cleared(heap') /\ Ideal!Next
  BY <1>4, LenIsIdeal
<1>5. CASE type_error BY <1>5, ThrowIsIdeal DEF type_error
<1>6. CASE gc_call BY <1>6, GcIsIdeal DEF Ideal!Next, LosesNothing
<1>7. CASE RegisterStep
  BY <1>7, SameIsCleared, IdealRegistersNext DEF RegisterStep, Ideal!Next
<1>8. QED BY <1>1, <1>2, <1>3, <1>4, <1>5, <1>6, <1>7 DEF Next

(* A step that faults leaves the heap alone.                               *)
LEMMA FaultIsLast ==
  ASSUME Next, status' = "fault"
  PROVE  UNCHANGED heap
<1>1. ASSUME NEW dst \in RegOps, NEW n \in Lens, op_alloc(dst, n)
      PROVE  UNCHANGED heap
  BY <1>1 DEF op_alloc, FaultStep, SetReg, Executing
<1>2. ASSUME NEW arr \in RegOps, NEW src \in RegOps, NEW idx \in Indices,
             op_arrset(arr, idx, src)
      PROVE  UNCHANGED heap
  BY <1>2 DEF op_arrset, FaultStep, Executing, regVars
<1>3. CASE gc_call BY <1>3 DEF gc_call, FaultStep
<1>4. (\/ \E dst, arr \in RegOps, idx \in Indices : op_arrget(dst, arr, idx)
       \/ \E r \in RegOps : cote_len(r)
       \/ type_error \/ RegisterStep) => UNCHANGED heap
  BY DEF op_arrget, cote_len, type_error, RegisterStep, FaultStep
<1>5. QED BY <1>1, <1>2, <1>3, <1>4 DEF Next

(* The inductive invariant of the refinement, and its step.                *)
LEMMA StepIsIdeal ==
  ASSUME Consistent, Cleared(heap), [Next]_vars
  PROVE  /\ Consistent' /\ Cleared(heap')
         /\ (Next => status' # "fault" /\ LosesNothing) => IdealStep
<1>1. Consistent' BY StepIsGood
<1>2. Cleared(heap')
  BY NextIsIdeal, FaultIsLast, SameIsCleared DEF vars
<1>3. CASE UNCHANGED vars
  <2>1. UNCHANGED heap /\ UNCHANGED Ideal!regVars BY <1>3 DEF vars, Ideal!regVars
  <2>2. QED BY <1>1, <1>2, <2>1, SameIsCleared DEF IdealStep
<1>4. CASE Next BY <1>1, <1>2, <1>4, NextIsIdeal DEF IdealStep
<1>5. QED BY <1>3, <1>4

(* Both machines start alike.                                              *)
LEMMA InitIsIdeal ==
  ASSUME Init
  PROVE  Ideal!Init /\ Cleared(heap)
<1>1. heap = EmptyHeap /\ RegistersInit BY DEF Init
<1>2. Usable(heap) = {} BY <1>1 DEF EmptyHeap, Usable
<1>3. Cleared(heap) BY <1>1 DEF EmptyHeap, Cleared
<1>4. Ideal!RegistersInit
  BY <1>1 DEF RegistersInit, Ideal!RegistersInit, Ideal!Cells, Cells, Ideal!Scalar, Scalar
<1>5. QED
  BY <1>1, <1>2, <1>3, <1>4, IdealRegisters DEF Ideal!Init, EmptyHeap, NoSlots

-----------------------------------------------------------------------------
(***************************************************************************)
(* Part three: counting.                                                   *)
(***************************************************************************)
(* Every set of arrays is finite.                                          *)
LEMMA IdsFinite ==
  ASSUME NEW S \in SUBSET Ids
  PROVE  IsFiniteSet(S)
<1>1. IsFiniteSet(Ids) BY ValuesAssumption, FS_Interval DEF Ids
<1>2. QED BY <1>1, FS_Subset

(* Two disjoint sets have together as many elements as one after the other.*)
LEMMA DisjointCount ==
  ASSUME NEW S, IsFiniteSet(S), NEW T, IsFiniteSet(T), S \cap T = {}
  PROVE  /\ IsFiniteSet(S \cup T)
         /\ Cardinality(S \cup T) = Cardinality(S) + Cardinality(T)
<1>1. /\ IsFiniteSet(S \cup T)
      /\ Cardinality(S \cup T)
           = Cardinality(S) + Cardinality(T) - Cardinality(S \cap T)
  BY FS_Union
<1>2. Cardinality(S \cap T) = 0 BY FS_EmptySet
<1>3. Cardinality(S) \in Nat /\ Cardinality(T) \in Nat BY FS_CardinalityType
<1>4. QED BY <1>1, <1>2, <1>3

(* The length of old_roots when each old array is in it once.              *)
LEMMA OldOnce ==
  ASSUME NEW h \in HeapType, Lists(h)
  PROVE  OldCount(h) = Cardinality({i \in Ids : h.mem[i] = "old"})
<1> DEFINE old     == {i \in Ids : h.mem[i] = "old"}
           entries == UNION {{i} \X (1 .. h.old_roots[i]) : i \in Ids}
<1>1. \A i \in Ids : 1 .. h.old_roots[i] = IF i \in old THEN {1} ELSE {}
  <2>1. \A i \in Ids : h.old_roots[i] = IF i \in old THEN 1 ELSE 0 BY DEF Lists
  <2> HIDE DEF old
  <2>2. 1 .. 1 = {1} /\ 1 .. 0 = {} OBVIOUS
  <2>3. QED BY <2>1, <2>2
<1>2. entries = old \X {1}
  <2>1. entries = UNION {{i} \X IF i \in old THEN {1} ELSE {} : i \in Ids} BY <1>1
  <2>2. old \subseteq Ids OBVIOUS
  <2> HIDE DEF old, entries
  <2>3. QED BY <2>1, <2>2
<1>3. IsFiniteSet(old) BY IdsFinite
<1> HIDE DEF old, entries
<1>4. IsFiniteSet({1}) /\ Cardinality({1}) = 1 BY FS_Singleton
<1>5. Cardinality(old \X {1}) = Cardinality(old) * 1 BY <1>3, <1>4, FS_Product
<1>6. Cardinality(old) \in Nat BY <1>3, FS_CardinalityType
<1>7. Cardinality(entries) = Cardinality(old) BY <1>2, <1>5, <1>6
<1>8. QED BY <1>7 DEF OldCount, entries, old

(* Exact lists together hold each usable array once.                       *)
LEMMA ListsCount ==
  ASSUME heap \in HeapType, Lists(heap)
  PROVE  CountsObjects
<1> DEFINE young == {i \in Ids : heap.mem[i] = "young"}
           old   == {i \in Ids : heap.mem[i] = "old"}
           large == {i \in Ids : heap.mem[i] = "large"}
<1>1. heap.young_roots = young /\ heap.large_roots = large BY DEF Lists, HeapType
<1>2. OldCount(heap) = Cardinality(old) BY OldOnce
<1>3. Usable(heap) = (young \cup old) \cup large BY DEF Usable
<1>4. young \cap old = {} /\ (young \cup old) \cap large = {} OBVIOUS
<1>5. IsFiniteSet(young) /\ IsFiniteSet(old) /\ IsFiniteSet(large) BY IdsFinite
<1> HIDE DEF young, old, large
<1>6. /\ IsFiniteSet(young \cup old)
      /\ Cardinality(young \cup old) = Cardinality(young) + Cardinality(old)
  BY <1>4, <1>5, DisjointCount
<1>7. Cardinality((young \cup old) \cup large)
        = Cardinality(young \cup old) + Cardinality(large)
  BY <1>4, <1>5, <1>6, DisjointCount
<1>8. QED BY <1>1, <1>2, <1>3, <1>6, <1>7 DEF CountsObjects, GET_OBJECTS

-----------------------------------------------------------------------------
(***************************************************************************)
(* Part four: references within the generations.                           *)
(***************************************************************************)
(* The inductive invariant.  Frames nest, or a return could bring a        *)
(* register back into scope that no collection saw.                        *)
Tended ==
  /\ Consistent /\ Cleared(heap) /\ FramesNest
  /\ ListedOnce /\ ReachableUsable /\ status # "fault"

(* What a step leaves reachable lies in any set that holds the roots and   *)
(* is closed under elements.                                               *)
LEMMA ReachableIn ==
  ASSUME NEW S \in SUBSET Ids, StackRoots' \subseteq S,
         \A i \in S : Children(heap', i) \subseteq S, S \subseteq Usable(heap')
  PROVE  ReachableUsable'
<1>1. Reach(heap', StackRoots') \subseteq S BY ReachLeast
<1>2. Reach(heap, StackRoots)' = Reach(heap', StackRoots')
  BY DEF Reach, Closure, Closed, Edges, Children
<1>3. Usable(heap)' = Usable(heap') BY DEF Usable
<1>4. QED BY <1>1, <1>2, <1>3 DEF ReachableUsable

(* The part of the invariant that has to be shown of each instruction.     *)
Held == FramesNest' /\ ListedOnce' /\ ReachableUsable' /\ status' # "fault"

(* A step that leaves the heap alone and brings only what was reachable    *)
(* into scope.                                                             *)
LEMMA SameHeld ==
  ASSUME Tended, UNCHANGED heap, FramesNest', status' # "fault",
         StackRoots' \subseteq Reach(heap, StackRoots)
  PROVE  Held
<1> DEFINE S == Reach(heap, StackRoots)
<1>1. StackRoots \in SUBSET Ids BY RootsAreIds DEF Tended, Consistent, TypeOK
<1>2. S \in SUBSET Ids /\ \A i \in S : Children(heap, i) \subseteq S
  BY <1>1, ReachClosed
<1>3. S \subseteq Usable(heap) BY DEF Tended, ReachableUsable
<1> HIDE DEF S
<1>4. ReachableUsable' BY <1>2, <1>3, ReachableIn DEF S
<1>5. ListedOnce' BY DEF Tended, ListedOnce
<1>6. QED BY <1>4, <1>5 DEF Held

(* Raising a runtime_error, and every other step that leaves heap and      *)
(* roots alone.                                                            *)
LEMMA RootsHeld ==
  ASSUME Tended, UNCHANGED heap, FramesNest', status' # "fault",
         StackRoots' \subseteq StackRoots
  PROVE  Held
<1>1. StackRoots \in SUBSET Ids BY RootsAreIds DEF Tended, Consistent, TypeOK
<1>2. StackRoots \subseteq Reach(heap, StackRoots) BY <1>1, ReachClosed
<1>3. QED BY <1>2, SameHeld

LEMMA ThrowHeld ==
  ASSUME Tended, Throw, UNCHANGED heap
  PROVE  Held
<1>1. FramesNest' BY DEF Tended, FramesNest, Throw
<1>2. StackRoots' = StackRoots BY DEF Throw, StackRoots, get_sp
<1>3. QED BY <1>1, <1>2, RootsHeld DEF Throw

(* Writing to a register a scalar or what is reachable.                    *)
LEMMA SetRegHeld ==
  ASSUME Tended, UNCHANGED heap, NEW a \in RegOps, NEW v \in Value,
         v \in Reach(heap, StackRoots) \cup {Scalar}, SetReg(a, v)
  PROVE  Held
<1>1. RegistersType BY DEF Tended, Consistent, TypeOK
<1>2. StackRoots \subseteq Reach(heap, StackRoots) BY <1>1, RootsAreIds, ReachClosed
<1>3. StackRoots' \subseteq StackRoots \cup ({v} \ {Scalar}) BY <1>1, SetRegRoots
<1>4. FramesNest' /\ status' # "fault" BY DEF Tended, FramesNest, SetReg
<1>5. QED BY <1>2, <1>3, <1>4, SameHeld

(* op_alloc, with the collection it may run.                               *)
LEMMA AllocHeld ==
  ASSUME Tended, SameGeneration, NEW dst \in RegOps, NEW n \in Lens, op_alloc(dst, n)
  PROVE  Held
<1> DEFINE new == heap.allocated
           L   == Reach(heap, StackRoots)
           S   == L \cup {new}
<1>1. /\ Consistent /\ WithinGenerations
      /\ RegistersType /\ new \in Ids
  BY DEF Tended, Consistent, TypeOK, WithinGenerations, op_alloc
<1>2. /\ KeepsReachable /\ ListedOnce' /\ status' # "fault" /\ SetReg(dst, new)
      /\ Children(heap', new) = {} /\ new \in Usable(heap')
  BY <1>1, AllocExact DEF ExactStep
<1>3. /\ L \in SUBSET Ids /\ StackRoots \subseteq L
      /\ \A i \in L : Children(heap, i) \subseteq L
  BY <1>1, RootsAreIds, ReachClosed
<1>4. \A i \in L : i \in Usable(heap') /\ Children(heap', i) = Children(heap, i)
  BY <1>2 DEF KeepsReachable, Children, Usable
<1>5. FramesNest' BY <1>2 DEF Tended, FramesNest, SetReg
<1>6. StackRoots' \subseteq StackRoots \cup {new}
  BY <1>1, <1>2, IdsAreValues, SetRegRoots
<1>7. S \in SUBSET Ids /\ S \subseteq Usable(heap') /\ StackRoots' \subseteq S
  BY <1>1, <1>2, <1>3, <1>4, <1>6
<1>8. \A i \in S : Children(heap', i) \subseteq S BY <1>2, <1>3, <1>4
<1> HIDE DEF S
<1>9. ReachableUsable' BY <1>7, <1>8, ReachableIn
<1>10. QED BY <1>2, <1>5, <1>9 DEF Held

(* A collection between two instructions.                                  *)
LEMMA GcHeld ==
  ASSUME Tended, SameGeneration, gc_call
  PROVE  Held
<1> DEFINE L == Reach(heap, StackRoots)
<1>1. Consistent /\ WithinGenerations /\ RegistersType
  BY DEF Tended, Consistent, TypeOK, WithinGenerations
<1>2. KeepsReachable /\ ListedOnce' /\ status' # "fault"
  BY <1>1, GcExact DEF ExactStep
<1>3. /\ L \in SUBSET Ids /\ StackRoots \subseteq L
      /\ \A i \in L : Children(heap, i) \subseteq L
  BY <1>1, RootsAreIds, ReachClosed
<1>4. \A i \in L : i \in Usable(heap') /\ Children(heap', i) = Children(heap, i)
  BY <1>2 DEF KeepsReachable, Children, Usable
<1>5. UNCHANGED <<stack, fp, call_stack>> BY <1>2 DEF gc_call, FaultStep
<1>6. FramesNest' BY <1>5 DEF Tended, FramesNest
<1>7. StackRoots' = StackRoots BY <1>5 DEF StackRoots, get_sp
<1> HIDE DEF L
<1>8. ReachableUsable' BY <1>3, <1>4, <1>7, ReachableIn
<1>9. QED BY <1>2, <1>6, <1>8 DEF Held

(* op_arrget: the element of an array in scope is reachable.               *)
LEMMA GetHeld ==
  ASSUME InWindow, Tended, NEW dst \in RegOps, NEW arr \in RegOps, NEW idx \in Indices,
         op_arrget(dst, arr, idx)
  PROVE  Held
<1> DEFINE a == Reg(arr)
           v == heap.slots[a][idx + 1]
<1>1. Consistent /\ ReachableUsable /\ RegistersType /\ heap \in HeapType
  BY DEF Tended, Consistent, TypeOK
<1>2. status' # "fault" /\ UNCHANGED heap BY <1>1, AccessesExact
<1>3. CASE Throw BY <1>2, <1>3, ThrowHeld
<1>4. CASE a \in Ids /\ InBounds(heap, a, idx) /\ SetReg(dst, v)
  <2>1. idx + 1 \in 1 .. heap.len[a] /\ idx + 1 \in 1 .. MaxLen
    <3>1. idx \in Int BY ArrayVMAssumption
    <3>2. heap.len[a] \in 0 .. MaxLen BY <1>1, <1>4 DEF HeapType
    <3>3. QED BY <1>4, <3>1, <3>2, HeapAssumption DEF InBounds
  <2>2. v \in Value
    <3>1. heap.slots[a] \in [1 .. MaxLen -> Value] BY <1>1, <1>4 DEF HeapType
    <3>2. QED BY <2>1, <3>1
  <2>3. v \in Ids => v \in Children(heap, a) BY <2>1 DEF Children
  <2>4. a \in StackRoots BY <1>1, <1>4, RegIsRoot DEF op_arrget, Ids, Scalar
  <2>5. Children(heap, a) \subseteq Reach(heap, StackRoots)
    BY <1>1, <2>4, RootsAreIds, ReachClosed
  <2>6. v \in Reach(heap, StackRoots) \cup {Scalar} BY <2>2, <2>3, <2>5 DEF Value
  <2> HIDE DEF v
  <2>7. QED BY <1>2, <1>4, <2>2, <2>6, SetRegHeld
<1>5. QED BY <1>2, <1>3, <1>4 DEF op_arrget, FaultStep

(* op_arrset: what is stored was reachable already.                        *)
LEMMA SetHeld ==
  ASSUME InWindow, Tended, NEW arr \in RegOps, NEW src \in RegOps, NEW idx \in Indices,
         op_arrset(arr, idx, src)
  PROVE  Held
<1> DEFINE a == Reg(arr)
           L == Reach(heap, StackRoots)
           slots == [heap.slots EXCEPT ![a][idx + 1] = Reg(src)]
<1>1. /\ Consistent /\ ReachableUsable /\ RegistersType /\ heap \in HeapType
      /\ Executing
  BY DEF Tended, Consistent, TypeOK, op_arrset
<1>2. status' # "fault" BY <1>1, AccessesExact
<1>3. CASE Throw /\ UNCHANGED heap BY <1>3, ThrowHeld
<1>4. CASE /\ a \in Ids /\ UNCHANGED regVars
           /\ heap' = [heap EXCEPT !.slots[a][idx + 1] = Reg(src)]
  <2>1. heap' = [heap EXCEPT !.slots = slots] BY <1>1, <1>4 DEF HeapType
  <2>2. \A i \in Ids : i # a => slots[i] = heap.slots[i] BY <1>1 DEF HeapType
  <2>3. \A k \in 1 .. MaxLen : slots[a][k] = heap.slots[a][k] \/ slots[a][k] = Reg(src)
    BY <1>1, <1>4 DEF HeapType
  <2>4. Reg(src) \in StackRoots \/ Reg(src) = Scalar BY <1>1, RegIsRoot
  <2>5. /\ L \in SUBSET Ids /\ StackRoots \subseteq L /\ L \subseteq Usable(heap)
        /\ \A i \in L : Children(heap, i) \subseteq L
    BY <1>1, RootsAreIds, ReachClosed DEF ReachableUsable
  <2> HIDE DEF slots, L
  <2>6. /\ heap'.mem = heap.mem /\ heap'.len = heap.len /\ heap'.slots = slots
        /\ heap'.old_roots = heap.old_roots /\ heap'.large_roots = heap.large_roots
    BY <1>1, <2>1 DEF HeapType
  <2>7. L \subseteq Usable(heap') BY <2>5, <2>6 DEF Usable
  <2>8. ASSUME NEW i \in L PROVE Children(heap', i) \subseteq L
    <3>1. \A k \in 1 .. heap.len[i] : k \in 1 .. MaxLen
      BY <1>1, <2>5, HeapAssumption DEF HeapType
    <3>2. \A k \in 1 .. heap.len[i] :
            slots[i][k] = heap.slots[i][k] \/ slots[i][k] = Reg(src)
      BY <2>2, <2>3, <2>5, <3>1
    <3>3. Scalar \notin Ids BY DEF Scalar, Ids
    <3>4. \A c \in Children(heap', i) : c \in Children(heap, i) \/ c \in StackRoots
      BY <2>4, <2>6, <3>2, <3>3 DEF Children
    <3>5. QED BY <2>5, <3>4
  <2>9. StackRoots' = StackRoots /\ FramesNest'
    BY <1>4 DEF regVars, StackRoots, get_sp, Tended, FramesNest
  <2>10. ReachableUsable' BY <2>5, <2>7, <2>8, <2>9, ReachableIn
  <2>11. ListedOnce' BY <2>6 DEF Tended, ListedOnce
  <2>12. QED BY <1>2, <2>9, <2>10, <2>11 DEF Held
<1>5. QED BY <1>2, <1>3, <1>4 DEF op_arrset, FaultStep

(* len().                                                                  *)
LEMMA LenHeld ==
  ASSUME InWindow, Tended, NEW r \in RegOps, cote_len(r)
  PROVE  Held
<1>1. UNCHANGED heap /\ status' # "fault"
  BY AccessesExact DEF Tended
<1>2. CASE Throw BY <1>1, <1>2, ThrowHeld
<1>3. CASE SetReg(r, Scalar) BY <1>1, <1>3, IdsAreValues, SetRegHeld
<1>4. QED BY <1>1, <1>2, <1>3 DEF cote_len, FaultStep

(* Every step keeps the invariant.                                         *)
LEMMA StepTended ==
  ASSUME InWindow, Tended, SameGeneration, [Next]_vars
  PROVE  Tended'
<1>1. Consistent' /\ Cleared(heap)'
  <2>1. Cleared(heap') <=> Cleared(heap)' BY DEF Cleared, Usable
  <2>2. QED BY <2>1, StepIsIdeal DEF Tended
<1>2. Held
  <2>1. CASE UNCHANGED vars
    <3>1. StackRoots' = StackRoots /\ FramesNest' /\ status' # "fault"
      BY <2>1 DEF vars, StackRoots, get_sp, Tended, FramesNest
    <3>2. QED BY <2>1, <3>1, RootsHeld DEF vars
  <2>2. CASE \E dst \in RegOps, n \in Lens : op_alloc(dst, n) BY <2>2, AllocHeld
  <2>3. CASE \E dst, arr \in RegOps, idx \in Indices : op_arrget(dst, arr, idx)
    BY <2>3, GetHeld
  <2>4. CASE \E arr, src \in RegOps, idx \in Indices : op_arrset(arr, idx, src)
    BY <2>4, SetHeld
  <2>5. CASE \E r \in RegOps : cote_len(r) BY <2>5, LenHeld
  <2>6. CASE type_error BY <2>6, ThrowHeld DEF type_error
  <2>7. CASE gc_call BY <2>7, GcHeld
  <2>8. CASE RegisterStep
    <3>1. RegistersType /\ FramesNest BY DEF Tended, Consistent, TypeOK
    <3>2. QED BY <2>8, <3>1, RegisterStepRoots, RootsHeld DEF RegisterStep
  <2>9. QED BY <2>1, <2>2, <2>3, <2>4, <2>5, <2>6, <2>7, <2>8 DEF Next
<1>3. QED BY <1>1, <1>2 DEF Tended, Held

(* Every step is one of the ideal machine.                                 *)
LEMMA TendedIsIdeal ==
  ASSUME Tended, Tended', SameGeneration, [Next]_vars
  PROVE  IdealStep
<1>1. Consistent /\ Cleared(heap) /\ WithinGenerations
  BY DEF Tended, WithinGenerations
<1>2. KeepsReachable => Survives BY DEF KeepsReachable, Survives, Usable
<1>3. gc_call => Survives BY <1>1, <1>2, GcExact DEF ExactStep
<1>4. \A dst \in RegOps, n \in Lens : op_alloc(dst, n) => Survives
  BY <1>1, <1>2, AllocExact DEF ExactStep
<1>5. status' # "fault" BY DEF Tended
<1>6. QED BY <1>1, <1>3, <1>4, <1>5, StepIsIdeal DEF LosesNothing

LEMMA InitTended ==
  ASSUME Init
  PROVE  Tended
<1>1. heap = EmptyHeap /\ RegistersInit BY DEF Init
<1>2. Consistent /\ Cleared(heap) BY InitConsistent, InitIsIdeal
<1>3. get_sp = 0 BY <1>1 DEF RegistersInit, get_sp
<1>4. StackRoots = {} BY <1>3 DEF StackRoots
<1>5. ReachableUsable BY <1>4, ReachNothing DEF ReachableUsable
<1>6. FramesNest /\ status # "fault" BY <1>1 DEF RegistersInit, FramesNest
<1>7. ListedOnce BY <1>1 DEF EmptyHeap, ListedOnce
<1>8. QED BY <1>2, <1>5, <1>6, <1>7 DEF Tended

LEMMA TendedCounts ==
  ASSUME Tended
  PROVE  CountsObjects
<1>1. heap \in HeapType /\ Sound(heap) BY DEF Tended, Consistent, TypeOK
<1>2. Lists(heap) BY <1>1 DEF Tended, ListedOnce, Lists, Sound, HeapType
<1>3. QED BY <1>1, <1>2, ListsCount

(* As long as no reachable array refers to one of another generation, and  *)
(* whatever graph the arrays form: a program whose operands lie in the     *)
(* window of its frame never faults, no collection frees or loses an array *)
(* it can reach, and GET_OBJECTS is the number of arrays in memory.        *)
THEOREM WithinSafe ==
  InWindow => (Spec /\ []SameGeneration =>
                 [](ReachableUsable /\ CountsObjects /\ status # "fault"))
<1> SUFFICES ASSUME InWindow
             PROVE  Spec /\ []SameGeneration =>
                      [](ReachableUsable /\ CountsObjects /\ status # "fault")
  OBVIOUS
<1>1. Init => Tended BY InitTended
<1>2. Tended /\ SameGeneration /\ [Next]_vars => Tended' BY StepTended
<1>3. Tended => ReachableUsable /\ CountsObjects /\ status # "fault"
  BY TendedCounts DEF Tended
<1>4. QED BY <1>1, <1>2, <1>3, PTL DEF Spec

(* And the program runs as the ideal machine does: a new array is new, an  *)
(* element read is the last one stored, and a collection forgets only what *)
(* cannot be reached.                                                      *)
THEOREM WithinIsIdeal ==
  InWindow => (Spec /\ []SameGeneration => ImplementsIdeal)
<1> SUFFICES ASSUME InWindow PROVE Spec /\ []SameGeneration => ImplementsIdeal
  OBVIOUS
<1>1. Init => Tended /\ Ideal!Init BY InitTended, InitIsIdeal
<1>2. Tended /\ SameGeneration /\ [Next]_vars => Tended' BY StepTended
<1>3. Tended /\ SameGeneration /\ [Next]_vars
        => [Ideal!Next]_<<Ideal!heapVars, Ideal!regVars>>
  BY <1>2, TendedIsIdeal DEF IdealStep
<1>4. QED BY <1>1, <1>2, <1>3, PTL DEF Spec, ImplementsIdeal, Ideal!Spec

(* A program that stores only scalars into arrays has no references.       *)
LEMMA FlatIsWithin ==
  ASSUME FlatHeap(heap), heap \in HeapType
  PROVE  SameGeneration
<1>1. 0 \notin Ids BY DEF Ids
<1>2. ASSUME NEW i \in Ids PROVE Children(heap, i) = {}
  <2>1. heap.slots[i] = NoSlots BY DEF FlatHeap
  <2>2. \A k \in 1 .. heap.len[i] : NoSlots[k] = 0
    BY HeapAssumption DEF HeapType, NoSlots, Scalar
  <2>3. QED BY <1>1, <2>1, <2>2 DEF Children
<1>3. QED BY <1>2 DEF SameGeneration, Usable

LEMMA FlatAlwaysWithin == FlatProgram => (Spec => []SameGeneration)
<1> SUFFICES ASSUME FlatProgram PROVE Spec => []SameGeneration OBVIOUS
<1>1. TypeOK /\ FlatInv => SameGeneration
  BY FlatIsWithin DEF TypeOK, FlatInv
<1>2. QED BY <1>1, TypeCorrect, FlatSafe, PTL

(* The arrays of a program that stores only scalars into arrays and whose  *)
(* operands lie in the window get_sp() covers are the arrays the language  *)
(* promises, whatever it allocates and whenever collections come.          *)
THEOREM FlatIsIdeal == FlatProgram => (Spec => ImplementsIdeal)
BY FlatAlwaysWithin, WithinIsIdeal DEF FlatProgram

(* The native GET_OBJECTS of such a program is always the number of arrays *)
(* in memory.                                                              *)
THEOREM FlatCounting == FlatProgram => (Spec => []CountsObjects)
<1> SUFFICES ASSUME FlatProgram PROVE Spec => []CountsObjects OBVIOUS
<1>1. Spec => [](ReachableUsable /\ CountsObjects /\ status # "fault")
  BY FlatAlwaysWithin, WithinSafe DEF FlatProgram
<1>2. QED BY <1>1, PTL
=============================================================================
