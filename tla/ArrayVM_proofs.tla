---------------------------- MODULE ArrayVM_proofs ----------------------------
(***************************************************************************)
(* Type correctness of the interpreter over the collector, for every value *)
(* of the constants.  A heap is built by a few field updates in a row; for *)
(* each phase of a collection one lemma says that its result is a heap     *)
(* again, and one what it leaves in the fields later lemmas read.          *)
(***************************************************************************)
EXTENDS ArrayVM, TLAPS

(* Taking arrays out of the table leaves a well-typed heap.                *)
LEMMA DiscardType ==
  ASSUME NEW h \in HeapType, NEW D, NEW to \in Places
  PROVE  Discard(h, D, to) \in HeapType
<1> DEFINE mem   == [i \in Ids |-> IF i \in D THEN to ELSE h.mem[i]]
           len   == [i \in Ids |-> IF i \in D THEN 0 ELSE h.len[i]]
           slots == [i \in Ids |-> IF i \in D THEN NoSlots ELSE h.slots[i]]
<1>1. mem \in [Ids -> Places] BY DEF HeapType
<1>2. len \in [Ids -> 0 .. MaxLen] BY HeapAssumption DEF HeapType
<1>3. NoSlots \in [1 .. MaxLen -> Value] BY DEF NoSlots, Value
<1>4. slots \in [Ids -> [1 .. MaxLen -> Value]] BY <1>3 DEF HeapType
<1>5. h.marked \ D \in SUBSET Ids BY DEF HeapType
<1> HIDE DEF mem, len, slots
<1>6. QED BY <1>1, <1>2, <1>4, <1>5 DEF HeapType, Discard, mem, len, slots

(* Clearing marks leaves a well-typed heap.                                *)
LEMMA UnmarkType ==
  ASSUME NEW h \in HeapType, NEW D
  PROVE  Unmark(h, D) \in HeapType
BY DEF HeapType, Unmark

(* Marking visits array ids only.                                          *)
LEMMA TraversedType ==
  ASSUME NEW h, NEW roots
  PROVE  Traversed(h, roots) \in SUBSET Ids
BY DEF Traversed, Closure

(* The marking phase mark() leaves a well-typed heap.                      *)
LEMMA MarkType ==
  ASSUME NEW h \in HeapType, NEW roots
  PROVE  mark(h, roots) \in HeapType
<1> DEFINE T == Traversed(h, roots)
           reads == T \cup UNION {Children(h, i) : i \in T}
<1>1. T \in SUBSET Ids BY TraversedType
<1>2. reads \subseteq Ids BY <1>1 DEF Children
<1> HIDE DEF T, reads
<1>3. QED BY <1>1, <1>2 DEF HeapType, mark, T, reads

(* What each step of a collection leaves in the fields of the heap.        *)
LEMMA UnmarkFields ==
  ASSUME NEW h \in HeapType, NEW D
  PROVE  LET u == Unmark(h, D) IN
         /\ u.mem = h.mem /\ u.marked = h.marked \ D
         /\ u.len = h.len /\ u.slots = h.slots
         /\ u.young_roots = h.young_roots /\ u.large_roots = h.large_roots
         /\ u.old_roots = h.old_roots /\ u.allocated = h.allocated
         /\ u.used = h.used /\ u.faults = h.faults
BY DEF Unmark, HeapType

(* Taking arrays out of the table touches none of the root lists.          *)
LEMMA DiscardKeeps ==
  ASSUME NEW h \in HeapType, NEW D, NEW to
  PROVE  LET d == Discard(h, D, to) IN
         /\ d.marked = h.marked \ D
         /\ d.young_roots = h.young_roots /\ d.large_roots = h.large_roots
         /\ d.old_roots = h.old_roots /\ d.allocated = h.allocated
         /\ d.used = h.used /\ d.faults = h.faults
BY DEF Discard, HeapType

(* Taking arrays out of the table changes the entries of those arrays      *)
(* alone.                                                                  *)
LEMMA DiscardRemoves ==
  ASSUME NEW h \in HeapType, NEW D, NEW to, NEW i \in Ids
  PROVE  LET d == Discard(h, D, to) IN
         /\ d.mem[i] = IF i \in D THEN to ELSE h.mem[i]
         /\ d.len[i] = IF i \in D THEN 0 ELSE h.len[i]
         /\ d.slots[i] = IF i \in D THEN NoSlots ELSE h.slots[i]
BY DEF Discard, HeapType

(* The headers a search that visits T reads.                               *)
Reads(h, T) == T \cup UNION {Children(h, i) : i \in T}

(* mark() adds the marks of what it visits and the faults of what it       *)
(* reads, and changes nothing else.                                        *)
LEMMA MarkFields ==
  ASSUME NEW h \in HeapType, NEW roots
  PROVE  LET m == mark(h, roots)
             T == Traversed(h, roots) IN
         /\ m.mem = h.mem /\ m.marked = h.marked \cup T
         /\ m.len = h.len /\ m.slots = h.slots
         /\ m.young_roots = h.young_roots /\ m.large_roots = h.large_roots
         /\ m.old_roots = h.old_roots /\ m.allocated = h.allocated
         /\ m.used = h.used
         /\ m.faults = h.faults \cup (Reads(h, T) \ Usable(h))
<1> DEFINE T == Traversed(h, roots)
           x == h.marked \cup T
           f == h.faults \cup (Reads(h, T) \ Usable(h))
<1>1. mark(h, roots) = [h EXCEPT !.marked = x, !.faults = f] BY DEF mark, Reads
<1> HIDE DEF x, f
<1>2. QED BY <1>1 DEF HeapType, x, f

(* major_gc() leaves a well-typed heap, allocates nothing and leaves the   *)
(* arena as full as it was.                                                *)
LEMMA MajorType ==
  ASSUME NEW h \in HeapType, NEW roots
  PROVE  /\ major_gc(h, roots) \in HeapType
         /\ major_gc(h, roots).allocated = h.allocated
         /\ major_gc(h, roots).used = h.used
<1> DEFINE listed == OldListed(h)
           m      == mark(Unmark(h, listed), roots)
           kept   == listed \cap m.marked
           freed  == {i \in listed : i \notin kept \/ h.old_roots[i] > 1}
           failed == {i \in listed : \/ h.mem[i] = "none"
                                     \/ h.old_roots[i] > IF i \in kept THEN 2 ELSE 1}
           swept  == Unmark(Discard(m, freed, "none"), kept)
           counts == [i \in Ids |-> IF i \in kept THEN 1 ELSE 0]
<1>1. m \in HeapType BY UnmarkType, MarkType
<1>2. swept \in HeapType BY <1>1, DiscardType, UnmarkType DEF Places
<1>3. swept.allocated = h.allocated /\ swept.used = h.used
  BY <1>1, UnmarkType, MarkType, DiscardType, UnmarkFields, DiscardKeeps, MarkFields
  DEF Places
<1>4. counts \in [Ids -> Nat] OBVIOUS
<1>5. failed \subseteq Ids BY DEF OldListed
<1>6. major_gc(h, roots) = [swept EXCEPT !.old_roots = counts, !.faults = @ \cup failed]
  BY DEF major_gc
<1> HIDE DEF swept, counts, failed
<1>7. QED BY <1>2, <1>3, <1>4, <1>5, <1>6, ZenonT(60) DEF HeapType

(* minor_gc() moves array ids only.                                        *)
LEMMA MovedType ==
  ASSUME NEW m, NEW heads
  PROVE  Moved(m, heads) \in SUBSET Ids
BY DEF Moved, Reach, Closure

(* rebind_mem() leaves a well-typed heap and allocates nothing.            *)
LEMMA RebindType ==
  ASSUME NEW m \in HeapType, NEW heads
  PROVE  /\ rebind_mem(m, heads) \in HeapType
         /\ rebind_mem(m, heads).allocated = m.allocated
<1> DEFINE moved  == Moved(m, heads)
           mem    == [i \in Ids |-> IF i \in moved THEN "old" ELSE m.mem[i]]
           counts == [i \in Ids |-> m.old_roots[i] + IF i \in moved THEN 1 ELSE 0]
           u      == Unmark(m, LoopHeads(m, heads))
<1>1. moved \in SUBSET Ids BY MovedType
<1>2. mem \in [Ids -> Places] BY DEF HeapType, Places
<1>3. counts \in [Ids -> Nat] BY DEF HeapType
<1>4. /\ u \in HeapType /\ u.mem = m.mem /\ u.old_roots = m.old_roots
      /\ u.allocated = m.allocated
  BY UnmarkType DEF Unmark, HeapType
<1>5. rebind_mem(m, heads) = [u EXCEPT !.mem = mem, !.old_roots = counts,
                                       !.faults = @ \cup (moved \ Usable(m))]
  BY <1>4 DEF rebind_mem
<1> HIDE DEF moved, mem, counts, u
<1>6. QED BY <1>1, <1>2, <1>3, <1>4, <1>5, ZenonT(60) DEF HeapType

(* Releasing the arena empties it.                                         *)
LEMMA ReleaseType ==
  ASSUME NEW m \in HeapType, NEW dead
  PROVE  /\ release(m, dead) \in HeapType
         /\ release(m, dead).allocated = m.allocated
         /\ release(m, dead).used = 0
<1> DEFINE d == Discard(m, dead, "dangling")
<1>1. d \in HeapType BY DiscardType DEF Places
<1>2. d.allocated = m.allocated BY DiscardKeeps
<1>3. release(m, dead) = [d EXCEPT !.young_roots = {}, !.used = 0] BY DEF release
<1>4. 0 \in 0 .. YOUNG_THRESHOLD - 1 BY HeapAssumption
<1> HIDE DEF d
<1>5. QED BY <1>1, <1>2, <1>3, <1>4 DEF HeapType

(* minor_gc(), with the major_gc() it may end in, leaves a well-typed heap *)
(* and an empty arena.                                                     *)
LEMMA MinorType ==
  ASSUME NEW h \in HeapType, NEW roots
  PROVE  /\ minor_gc(h, roots) \in HeapType
         /\ minor_gc(h, roots).allocated = h.allocated
         /\ minor_gc(h, roots).used = 0
<1> DEFINE m     == mark(Unmark(h, h.young_roots), roots)
           heads == h.young_roots \cap m.marked
           b     == rebind_mem(m, heads)
           r     == release(b, h.young_roots \ Moved(m, heads))
<1>1. m \in HeapType /\ m.allocated = h.allocated
  <2>1. Unmark(h, h.young_roots) \in HeapType
        /\ Unmark(h, h.young_roots).allocated = h.allocated
    BY UnmarkType, UnmarkFields
  <2>2. QED BY <2>1, MarkType, MarkFields
<1>2. b \in HeapType /\ b.allocated = h.allocated BY <1>1, RebindType
<1>3. r \in HeapType /\ r.allocated = h.allocated /\ r.used = 0 BY <1>2, ReleaseType
<1>4. minor_gc(h, roots) = IF OldCount(r) >= MAJOR_THRESHOLD
                           THEN major_gc(r, roots) ELSE r
  BY DEF minor_gc
<1> HIDE DEF r
<1>5. QED BY <1>3, <1>4, MajorType

(* large_gc() leaves a well-typed heap, allocates nothing and leaves the   *)
(* arena as full as it was.                                                *)
LEMMA LargeType ==
  ASSUME NEW h \in HeapType, NEW roots
  PROVE  /\ large_gc(h, roots) \in HeapType
         /\ large_gc(h, roots).allocated = h.allocated
         /\ large_gc(h, roots).used = h.used
<1> DEFINE own  == {i \in h.large_roots : h.mem[i] = "large"}
           m    == mark(Unmark(h, own), roots)
           kept == own \cap m.marked
           s    == Unmark(Discard(m, h.large_roots \ kept, "none"), kept)
<1>1. m \in HeapType BY UnmarkType, MarkType
<1>2. s \in HeapType BY <1>1, DiscardType, UnmarkType DEF Places
<1>3. s.allocated = h.allocated /\ s.used = h.used
  BY <1>1, UnmarkType, MarkType, DiscardType, UnmarkFields, DiscardKeeps, MarkFields
  DEF Places
<1>4. kept \subseteq Ids BY DEF HeapType
<1>5. large_gc(h, roots) = [s EXCEPT !.large_roots = kept] BY DEF large_gc
<1> HIDE DEF kept, s
<1>6. QED BY <1>2, <1>3, <1>4, <1>5 DEF HeapType

(* GC_CALL leaves a well-typed heap.                                       *)
LEMMA CallType ==
  ASSUME NEW h \in HeapType, NEW roots
  PROVE  call(h, roots) \in HeapType
BY LargeType, MajorType DEF call
-----------------------------------------------------------------------------
(* Allocation.  The new id is the first unused one, and the arena has room *)
(* for the array that is put into it.                                      *)
LEMMA BeforeAllocType ==
  ASSUME NEW h \in HeapType, NEW n \in 0 .. MaxLen, NEW roots
  PROVE  LET g == BeforeAlloc(h, n, roots) IN
         /\ g \in HeapType
         /\ g.allocated = h.allocated
         /\ ~IsLarge(n) => g.used + n + 1 < YOUNG_THRESHOLD
<1> DEFINE l == IF Cardinality(h.large_roots) >= LARGE_THRESHOLD
                THEN large_gc(h, roots) ELSE h
           g == IF ~IsLarge(n) /\ ArenaFull(l, n) THEN minor_gc(l, roots) ELSE l
<1>1. l \in HeapType /\ l.allocated = h.allocated BY LargeType
<1>2. g = BeforeAlloc(h, n, roots) BY DEF BeforeAlloc
<1> HIDE DEF l
<1>3. g \in HeapType /\ g.allocated = h.allocated BY <1>1, MinorType
<1>4. ASSUME ~IsLarge(n) PROVE g.used + n + 1 < YOUNG_THRESHOLD
  <2>1. n + 1 < YOUNG_THRESHOLD BY <1>4, HeapAssumption DEF IsLarge
  <2>2. CASE ArenaFull(l, n) BY <2>1, <2>2, <1>1, <1>4, MinorType, HeapAssumption
  <2>3. CASE ~ArenaFull(l, n)
    <3>1. l.used \in 0 .. YOUNG_THRESHOLD - 1 BY <1>1 DEF HeapType
    <3>2. QED BY <2>3, <3>1, HeapAssumption DEF ArenaFull
  <2>4. QED BY <2>2, <2>3
<1> HIDE DEF g
<1>5. QED BY <1>2, <1>3, <1>4

(* A header put in the table takes the next id and touches neither root    *)
(* list.                                                                   *)
LEMMA NewArrayType ==
  ASSUME NEW h \in HeapType, h.allocated \in Ids,
         NEW n \in 0 .. MaxLen, NEW place \in Places
  PROVE  /\ NewArray(h, n, place) \in HeapType
         /\ NewArray(h, n, place).allocated = h.allocated + 1
         /\ NewArray(h, n, place).used = h.used
         /\ NewArray(h, n, place).young_roots = h.young_roots
         /\ NewArray(h, n, place).large_roots = h.large_roots
<1> DEFINE i     == h.allocated
           mem   == [h.mem EXCEPT ![i] = place]
           marks == h.marked \cup {i}
           len   == [h.len EXCEPT ![i] = n]
           slots == [h.slots EXCEPT ![i] = NoSlots]
           next  == i + 1
<1>1. mem \in [Ids -> Places] BY DEF HeapType
<1>2. len \in [Ids -> 0 .. MaxLen] BY DEF HeapType
<1>3. NoSlots \in [1 .. MaxLen -> Value] BY DEF NoSlots, Value
<1>4. slots \in [Ids -> [1 .. MaxLen -> Value]] BY <1>3 DEF HeapType
<1>5. next \in 1 .. MaxObjs + 1 BY ValuesAssumption DEF Ids
<1>6. marks \in SUBSET Ids BY DEF HeapType
<1>7. NewArray(h, n, place) =
        [h EXCEPT !.mem = mem, !.marked = marks, !.len = len, !.slots = slots,
                  !.allocated = next]
  BY DEF NewArray, HeapType
<1> HIDE DEF mem, marks, len, slots, next
<1>8. NewArray(h, n, place) \in HeapType
  BY <1>1, <1>2, <1>4, <1>5, <1>6, <1>7 DEF HeapType
<1>9. /\ NewArray(h, n, place).allocated = next
      /\ NewArray(h, n, place).used = h.used
      /\ NewArray(h, n, place).young_roots = h.young_roots
      /\ NewArray(h, n, place).large_roots = h.large_roots
  BY <1>7 DEF HeapType
<1>10. QED BY <1>8, <1>9 DEF next

(* alloc_array() leaves a well-typed heap: the arena never overflows.      *)
LEMMA AllocArrayType ==
  ASSUME NEW h \in HeapType, h.allocated \in Ids, NEW n \in 0 .. MaxLen, NEW roots
  PROVE  alloc_array(h, n, roots) \in HeapType
<1> DEFINE g == BeforeAlloc(h, n, roots)
<1>1. /\ g \in HeapType /\ g.allocated \in Ids
      /\ ~IsLarge(n) => g.used + n + 1 < YOUNG_THRESHOLD
  BY BeforeAllocType
<1>2. alloc_array(h, n, roots) = IF IsLarge(n) THEN alloc_large(g, n) ELSE alloc_young(g, n)
  BY DEF alloc_array
<1> HIDE DEF g
<1>3. CASE IsLarge(n)
  <2> DEFINE a == NewArray(g, n, "large")
             l == a.large_roots \cup {g.allocated}
  <2>1. a \in HeapType BY <1>1, NewArrayType DEF Places
  <2>2. alloc_large(g, n) = [a EXCEPT !.large_roots = l] BY DEF alloc_large
  <2>3. l \in SUBSET Ids BY <1>1, <2>1 DEF HeapType
  <2> HIDE DEF a, l
  <2>4. QED BY <1>2, <1>3, <2>1, <2>2, <2>3, ZenonT(60) DEF HeapType
<1>4. CASE ~IsLarge(n)
  <2> DEFINE a == NewArray(g, n, "young")
             y == a.young_roots \cup {g.allocated}
             u == a.used + n + 1
  <2>1. a \in HeapType /\ a.used = g.used BY <1>1, NewArrayType DEF Places
  <2>2. alloc_young(g, n) = [a EXCEPT !.young_roots = y, !.used = u]
    BY <2>1 DEF alloc_young, HeapType
  <2>3. y \in SUBSET Ids BY <1>1, <2>1 DEF HeapType
  <2>4. g.used \in 0 .. YOUNG_THRESHOLD - 1 BY <1>1 DEF HeapType
  <2>5. u \in 0 .. YOUNG_THRESHOLD - 1 BY <1>1, <1>4, <2>1, <2>4, HeapAssumption
  <2> HIDE DEF a, y, u
  <2>6. alloc_young(g, n) \in HeapType BY <2>1, <2>2, <2>3, <2>5 DEF HeapType
  <2>7. QED BY <1>2, <1>4, <2>6
<1>5. QED BY <1>3, <1>4
-----------------------------------------------------------------------------
(* Registers.                                                              *)
LEMMA RegInStack ==
  ASSUME RegistersType, NEW a \in RegOps
  PROVE  fp + a \in Cells /\ Reg(a) \in Value
BY RegistersAssumption DEF RegistersType, RegOps, Cells, Bases, Fits, Reg

(* A frame's operands lie in its window, which get_sp() covers.            *)
InWindow == NumRegs <= MaxStack

(* A register below get_sp() is in the stack and holds a root or a scalar. *)
LEMMA RootOf ==
  ASSUME RegistersType, NEW r \in 0 .. get_sp - 1
  PROVE  r \in Cells /\ (stack[r] \in StackRoots \/ stack[r] = Scalar)
<1>1. get_sp \in 0 .. StackSize
  BY RegistersAssumption DEF RegistersType, get_sp, Bases, Fits
<1>2. QED BY <1>1, RegistersAssumption DEF StackRoots, Cells

(* A register operand in the window designates a root or a scalar.         *)
LEMMA RegIsRoot ==
  ASSUME RegistersType, Executing, InWindow, NEW a \in RegOps
  PROVE  /\ fp + a \in 0 .. get_sp - 1
         /\ Reg(a) \in StackRoots \/ Reg(a) = Scalar
<1>1. fp + a \in 0 .. get_sp - 1
  BY RegistersAssumption
  DEF RegistersType, Executing, InWindow, RegOps, get_sp, Bases, Fits
<1>2. QED BY <1>1, RootOf DEF Reg

(* Writing a register keeps registers and frames well typed.               *)
LEMMA SetRegType ==
  ASSUME RegistersType, NEW a \in RegOps, NEW v \in Value, SetReg(a, v)
  PROVE  RegistersType'
BY RegInStack DEF RegistersType, SetReg

(* Raising a runtime_error keeps registers and frames well typed.          *)
LEMMA ThrowType ==
  ASSUME RegistersType, Throw
  PROVE  RegistersType'
BY DEF RegistersType, Throw

(* The frame a call opens lies inside the stack.                           *)
LEMMA PushFrameType ==
  ASSUME RegistersType, NEW b, NEW c, PushFrame(b, c)
  PROVE  /\ stack' \in [Cells -> Value]
         /\ fp' \in Bases
         /\ call_stack' \in Seq(Bases)
BY DEF RegistersType, PushFrame, Value

(* Returning restores the base of a frame inside the stack.                *)
LEMMA PopFrameType ==
  ASSUME RegistersType, Executing, NEW v \in Value, PopFrame(v)
  PROVE  RegistersType'
<1>1. fp \in Cells \/ stack' = stack
  BY DEF RegistersType, PopFrame, Cells
<1>2. Head(call_stack) \in Bases /\ Tail(call_stack) \in Seq(Bases)
  BY DEF RegistersType, Executing
<1>3. stack' \in [Cells -> Value] BY <1>1 DEF RegistersType, PopFrame
<1>4. QED BY <1>2, <1>3 DEF RegistersType, PopFrame

(* Every instruction that leaves the heap alone keeps registers and frames *)
(* well typed.                                                             *)
LEMMA RegistersStepType ==
  ASSUME RegistersType, RegistersNext
  PROVE  RegistersType'
<1>1. Scalar \in Value BY DEF Value
<1>2. ASSUME NEW dst \in RegOps, NEW src \in RegOps, op_move(dst, src)
      PROVE  RegistersType'
  BY <1>2, RegInStack, SetRegType DEF op_move
<1>3. ASSUME NEW dst \in RegOps, op_scalar(dst) PROVE RegistersType'
  BY <1>1, <1>3, SetRegType DEF op_scalar
<1>4. ASSUME NEW b \in RegOps, NEW c \in 0 .. MaxArgs, NEW arity \in 0 .. MaxArgs,
             op_call(b, c, arity)
      PROVE  RegistersType'
  BY <1>4, ThrowType, PushFrameType DEF op_call, RegistersType
<1>5. CASE call_main BY <1>5, PushFrameType DEF call_main, RegistersType
<1>6. ASSUME NEW r \in RegOps, op_return(r) PROVE RegistersType'
  BY <1>6, RegInStack, PopFrameType DEF op_return
<1>7. CASE op_returnnil BY <1>1, <1>7, PopFrameType DEF op_returnnil
<1>8. CASE op_halt BY <1>8 DEF op_halt, RegistersType
<1>9. QED BY <1>2, <1>3, <1>4, <1>5, <1>6, <1>7, <1>8 DEF RegistersNext
-----------------------------------------------------------------------------
(* Steps of the virtual machine.                                           *)
LEMMA FaultStepType ==
  ASSUME TypeOK, FaultStep
  PROVE  TypeOK'
BY DEF TypeOK, FaultStep, RegistersType

(* A step is well typed if its registers are and it leaves the heap alone. *)
LEMMA HeapUnchangedType ==
  ASSUME TypeOK, RegistersType', UNCHANGED heap
  PROVE  TypeOK'
BY DEF TypeOK

(* An instruction that raises a runtime_error is well typed.               *)
LEMMA ThrowStepType ==
  ASSUME TypeOK, Throw, UNCHANGED heap
  PROVE  TypeOK'
BY ThrowType, HeapUnchangedType DEF TypeOK

(* Array ids and scalars are values.                                       *)
LEMMA IdsAreValues == Ids \subseteq Value /\ Scalar \in Value
BY DEF Value

(* op_alloc keeps the machine well typed.                                  *)
LEMMA AllocStepType ==
  ASSUME TypeOK, NEW dst \in RegOps, NEW n \in Lens, op_alloc(dst, n)
  PROVE  TypeOK'
<1> DEFINE h == alloc_array(heap, n, StackRoots)
<1>1. n \in 0 .. MaxLen BY ArrayVMAssumption
<1>2. heap \in HeapType /\ heap.allocated \in Ids /\ RegistersType
  BY DEF TypeOK, op_alloc
<1>3. h \in HeapType BY <1>1, <1>2, AllocArrayType
<1>4. FaultStep \/ (heap' = h /\ SetReg(dst, heap.allocated)) BY DEF op_alloc
<1> HIDE DEF h
<1>5. QED BY <1>2, <1>3, <1>4, IdsAreValues, SetRegType, FaultStepType DEF TypeOK

(* op_arrget keeps the machine well typed: an index in bounds yields a     *)
(* value.                                                                  *)
LEMMA GetStepType ==
  ASSUME TypeOK, NEW dst \in RegOps, NEW arr \in RegOps, NEW idx \in Indices,
         op_arrget(dst, arr, idx)
  PROVE  TypeOK'
<1>1. CASE FaultStep BY <1>1, FaultStepType
<1>2. CASE Throw /\ UNCHANGED heap BY <1>2, ThrowStepType
<1>3. CASE /\ Reg(arr) \in Ids /\ InBounds(heap, Reg(arr), idx)
           /\ SetReg(dst, heap.slots[Reg(arr)][idx + 1]) /\ UNCHANGED heap
  <2>1. idx + 1 \in 1 .. MaxLen
    <3>1. idx \in Int BY ArrayVMAssumption
    <3>2. heap.len[Reg(arr)] \in 0 .. MaxLen BY <1>3 DEF TypeOK, HeapType
    <3>3. QED BY <1>3, <3>1, <3>2, HeapAssumption DEF InBounds
  <2>2. heap.slots[Reg(arr)][idx + 1] \in Value BY <1>3, <2>1, ZenonT(60) DEF TypeOK, HeapType
  <2>3. QED BY <1>3, <2>2, SetRegType, HeapUnchangedType DEF TypeOK
<1>4. QED BY <1>1, <1>2, <1>3 DEF op_arrget

(* op_arrset keeps the machine well typed.                                 *)
LEMMA SetStepType ==
  ASSUME TypeOK, NEW arr \in RegOps, NEW idx \in Indices, NEW src \in RegOps,
         op_arrset(arr, idx, src)
  PROVE  TypeOK'
<1> DEFINE a == Reg(arr)
           slots == [heap.slots EXCEPT ![a] = [heap.slots[a] EXCEPT ![idx + 1] = Reg(src)]]
<1>1. CASE FaultStep BY <1>1, FaultStepType
<1>2. CASE Throw /\ UNCHANGED heap BY <1>2, ThrowStepType
<1>3. CASE /\ a \in Ids
           /\ heap' = [heap EXCEPT !.slots[a][idx + 1] = Reg(src)]
           /\ UNCHANGED regVars
  <2>1. Reg(src) \in Value BY RegInStack DEF TypeOK
  <2>2. heap.slots[a] \in [1 .. MaxLen -> Value] BY <1>3 DEF TypeOK, HeapType
  <2>3. slots \in [Ids -> [1 .. MaxLen -> Value]] BY <1>3, <2>1, <2>2 DEF TypeOK, HeapType
  <2>4. heap' = [heap EXCEPT !.slots = slots] BY <1>3 DEF TypeOK, HeapType
  <2> HIDE DEF slots
  <2>5. heap' \in HeapType BY <2>3, <2>4 DEF TypeOK, HeapType
  <2>6. QED BY <1>3, <2>5 DEF TypeOK, RegistersType, regVars
<1>4. QED BY <1>1, <1>2, <1>3 DEF op_arrset

(* len() keeps the machine well typed.                                     *)
LEMMA LenStepType ==
  ASSUME TypeOK, NEW r \in RegOps, cote_len(r)
  PROVE  TypeOK'
BY FaultStepType, ThrowStepType, SetRegType, HeapUnchangedType, IdsAreValues
DEF cote_len, TypeOK

(* A collection between two instructions keeps the machine well typed.     *)
LEMMA GcStepType ==
  ASSUME TypeOK, gc_call
  PROVE  TypeOK'
<1> DEFINE h == call(heap, StackRoots)
<1>1. h \in HeapType BY CallType DEF TypeOK
<1>2. FaultStep \/ (heap' = h /\ UNCHANGED regVars) BY DEF gc_call, regVars
<1> HIDE DEF h
<1>3. QED BY <1>1, <1>2, FaultStepType DEF TypeOK, RegistersType, regVars

(* The machine starts well typed.                                          *)
LEMMA InitType ==
  ASSUME Init
  PROVE  TypeOK
<1>1. NoSlots \in [1 .. MaxLen -> Value] BY DEF NoSlots, Value
<1>2. EmptyHeap \in HeapType
  BY <1>1, HeapAssumption, ValuesAssumption DEF EmptyHeap, HeapType, Places
<1>3. RegistersType
  BY IdsAreValues, RegistersAssumption
  DEF Init, RegistersInit, RegistersType, Cells, Bases, Fits
<1>4. QED BY <1>2, <1>3 DEF Init, TypeOK

(* Every step of the machine keeps it well typed.                          *)
LEMMA StepType ==
  ASSUME TypeOK, [Next]_vars
  PROVE  TypeOK'
<1>1. CASE UNCHANGED vars BY <1>1 DEF vars, TypeOK, RegistersType
<1>2. CASE Next
  <2>1. CASE \E dst \in RegOps, n \in Lens : op_alloc(dst, n)
    BY <2>1, AllocStepType
  <2>2. CASE \E dst, arr \in RegOps, idx \in Indices : op_arrget(dst, arr, idx)
    BY <2>2, GetStepType
  <2>3. CASE \E arr, src \in RegOps, idx \in Indices : op_arrset(arr, idx, src)
    BY <2>3, SetStepType
  <2>4. CASE \E r \in RegOps : cote_len(r) BY <2>4, LenStepType
  <2>5. CASE type_error BY <2>5, ThrowStepType DEF type_error
  <2>6. CASE gc_call BY <2>6, GcStepType
  <2>7. CASE RegisterStep
    BY <2>7, RegistersStepType, HeapUnchangedType DEF RegisterStep, TypeOK
  <2>8. QED BY <1>2, <2>1, <2>2, <2>3, <2>4, <2>5, <2>6, <2>7 DEF Next
<1>3. QED BY <1>1, <1>2

(* Every reachable state is well typed: in particular used stays below the *)
(* limit asserted by YoungArena::allocate, registers and frames stay       *)
(* inside the stack, and no collection leaves an ill-formed heap.          *)
THEOREM TypeCorrect == Spec => []TypeOK
<1>1. Init => TypeOK BY InitType
<1>2. TypeOK /\ [Next]_vars => TypeOK' BY StepType
<1>3. QED BY <1>1, <1>2, PTL DEF Spec
===============================================================================
