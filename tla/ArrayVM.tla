------------------------------- MODULE ArrayVM -------------------------------
(***************************************************************************)
(* The interpreter's array instructions over the collector: registers and  *)
(* frames (Registers) share the heap (GarbageCollector), whose roots are   *)
(* the registers below get_sp().  Every step is one instruction with the   *)
(* collection it may run in the middle, or the collection that the run     *)
(* loop makes between two instructions.                                    *)
(***************************************************************************)
EXTENDS GarbageCollector, Registers

CONSTANTS
  Lens,         \* lengths the program passes to array()
  Indices,      \* index operands the program uses; may be out of bounds
  StoresArrays, \* FALSE: the program stores only scalars into arrays
  CallsGC       \* FALSE: it never calls GC_CALL and ends before the run loop does

ASSUME ArrayVMAssumption ==
  /\ Lens \subseteq 0 .. MaxLen
  /\ Indices \subseteq Int
  /\ StoresArrays \in BOOLEAN /\ CallsGC \in BOOLEAN

VARIABLE heap

vars == <<heap, stack, fp, call_stack, status>>

Init == heap = EmptyHeap /\ RegistersInit

(* The heap a step leaves, unless it ends the process in a fault.          *)
Faults(h)     == h.faults # {}
FaultStep     == status' = "fault" /\ UNCHANGED <<heap, stack, fp, call_stack>>

-----------------------------------------------------------------------------
(* array(n): the result goes to dst after whatever collection it took.     *)
op_alloc(dst, n) ==
  /\ Executing
  /\ heap.allocated \in Ids
  /\ LET h == alloc_array(heap, n, StackRoots) IN
       IF Faults(h) THEN FaultStep
       ELSE heap' = h /\ SetReg(dst, heap.allocated)

InBounds(h, i, idx) == idx >= 0 /\ idx < h.len[i]

(* An element that is an array is read through its header (mem.at).        *)
op_arrget(dst, arr, idx) ==
  /\ Executing
  /\ IF Reg(arr) \notin Ids THEN Throw /\ UNCHANGED heap
     ELSE IF Reg(arr) \notin Usable(heap) THEN FaultStep
     ELSE IF ~InBounds(heap, Reg(arr), idx) THEN Throw /\ UNCHANGED heap
     ELSE LET v == heap.slots[Reg(arr)][idx + 1] IN
          IF v \in Ids \ Usable(heap) THEN FaultStep
          ELSE SetReg(dst, v) /\ UNCHANGED heap

op_arrset(arr, idx, src) ==
  /\ Executing
  /\ StoresArrays \/ Reg(src) = Scalar
  /\ IF Reg(arr) \notin Ids THEN Throw /\ UNCHANGED heap
     ELSE IF Reg(arr) \notin Usable(heap) THEN FaultStep
     ELSE IF ~InBounds(heap, Reg(arr), idx) THEN Throw /\ UNCHANGED heap
     ELSE /\ heap' = [heap EXCEPT !.slots[Reg(arr)][idx + 1] = Reg(src)]
          /\ UNCHANGED regVars

(* The native len(r): reads the length from the array's header.            *)
cote_len(r) ==
  /\ Executing
  /\ IF Reg(r) \notin Ids THEN Throw /\ UNCHANGED heap
     ELSE IF Reg(r) \notin Usable(heap) THEN FaultStep
     ELSE SetReg(r, Scalar) /\ UNCHANGED heap

(* The index operand is not an int: both instructions raise the same error *)
(* before they look at the array; so does any other ill-typed instruction. *)
type_error == Executing /\ Throw /\ UNCHANGED heap

(* GC_CALL, and the collection of the run loop every GC_CALL_INTERVAL      *)
(* instructions, which may fall before any instruction.                    *)
gc_call ==
  /\ CallsGC /\ status = "running"
  /\ UNCHANGED <<stack, fp, call_stack>>
  /\ LET h == call(heap, StackRoots) IN
       IF Faults(h) THEN FaultStep
       ELSE heap' = h /\ UNCHANGED status

RegisterStep == RegistersNext /\ UNCHANGED heap

Next ==
  \/ \E dst \in RegOps, n \in Lens : op_alloc(dst, n)
  \/ \E dst, arr \in RegOps, idx \in Indices : op_arrget(dst, arr, idx)
  \/ \E arr, src \in RegOps, idx \in Indices : op_arrset(arr, idx, src)
  \/ \E r \in RegOps : cote_len(r)
  \/ type_error
  \/ gc_call
  \/ RegisterStep

Spec == Init /\ [][Next]_vars

-----------------------------------------------------------------------------
(***************************************************************************)
(* Properties.                                                             *)
(***************************************************************************)
(* Every variable holds a value of its type; frames lie inside the stack.  *)
TypeOK == heap \in HeapType /\ RegistersType

(* The cells young arrays take: <<i, 0>> is the header of array i.         *)
ArenaCells(h) == {c \in h.young_roots \X (0 .. MaxLen) : c[2] <= h.len[c[1]]}

(* The arena never overflows: `used' is exactly what the young arrays take *)
(* and stays below the limit asserted in YoungArena::allocate, through     *)
(* every interleaving of allocations and collections.                      *)
Arena ==
  /\ heap.used = Cardinality(ArenaCells(heap))
  /\ heap.used < YOUNG_THRESHOLD

(* Table and root lists agree in the direction freeing depends on: an      *)
(* array in storage is in the list that would free it, whatever moved it,  *)
(* and no sweep of the other lists can reach an array of the arena or one  *)
(* still to be created.                                                    *)
Registry ==
  /\ heap.young_roots = {i \in Ids : heap.mem[i] = "young"}
  /\ {i \in Ids : heap.mem[i] = "large"} \subseteq heap.large_roots
  /\ {i \in Ids : heap.mem[i] = "old"} \subseteq OldListed(heap)
  /\ \A i \in OldListed(heap) \cup heap.large_roots :
       i < heap.allocated /\ heap.mem[i] # "young"

(* A new array cannot be confused with an older one: no register, element  *)
(* or table entry already uses an id that is still to be handed out.       *)
FreshIds ==
  /\ \A i \in heap.allocated .. MaxObjs : heap.mem[i] = "none"
  /\ \A r \in Cells : stack[r] < heap.allocated
  /\ \A j \in Ids : \A c \in Children(heap, j) : c < heap.allocated

(* Every array a register in scope holds can be used: no collection frees  *)
(* or loses it, at any depth of calls.                                     *)
RootsUsable == StackRoots \subseteq Usable(heap)

(* Why RootsUsable holds of a program that stores only scalars into arrays *)
(* and whose operands lie in the window of their frame (the inductive      *)
(* invariant of its proof): elements lead nowhere, each list is exactly    *)
(* its generation, ids still to be handed out are unused, and the frames   *)
(* that can be returned to lie below fp, so that a register that comes     *)
(* back into scope was always a root.                                      *)
FlatHeap(h) ==
  /\ \A i \in Ids : h.slots[i] = NoSlots
  /\ h.young_roots = {i \in Ids : h.mem[i] = "young"}
  /\ h.large_roots = {i \in Ids : h.mem[i] = "large"}
  /\ \A i \in Ids : h.old_roots[i] = IF h.mem[i] = "old" THEN 1 ELSE 0
  /\ \A i \in Ids : i >= h.allocated => h.mem[i] = "none"
  /\ h.faults = {}

FramesNest ==
  /\ \A k \in 1 .. Len(call_stack) : call_stack[k] <= fp
  /\ \A j, k \in 1 .. Len(call_stack) : j < k => call_stack[k] <= call_stack[j]

FlatInv == FlatHeap(heap) /\ FramesNest /\ RootsUsable /\ status # "fault"

(* What the program can reach through registers and elements is usable.    *)
ReachableUsable == Reach(heap, StackRoots) \subseteq Usable(heap)

GET_OBJECTS ==
  Cardinality(heap.young_roots) + OldCount(heap) + Cardinality(heap.large_roots)

(* The native GET_OBJECTS is the number of arrays in memory.               *)
CountsObjects == GET_OBJECTS = Cardinality(Usable(heap))

(* No array that the program reaches refers to one of another generation.  *)
SameGeneration ==
  \A i \in Usable(heap) : \A c \in Children(heap, i) \cap Usable(heap) :
    heap.mem[c] = heap.mem[i] \/ i \notin Reach(heap, StackRoots)

(* Each old array is listed once, and no list has an array of another.     *)
ListedOnce ==
  /\ \A i \in Ids : heap.old_roots[i] = IF heap.mem[i] = "old" THEN 1 ELSE 0
  /\ \A i \in heap.large_roots : heap.mem[i] = "large"

WithinGenerations == ListedOnce /\ SameGeneration /\ ReachableUsable

KeepsReachable ==
  \A i \in Reach(heap, StackRoots) :
    /\ i \in Usable(heap)'
    /\ heap'.len[i] = heap.len[i] /\ heap'.slots[i] = heap.slots[i]

OldOrLarge(h) == {i \in Ids : h.mem[i] \in {"old", "large"}}

(* Only a collection changes the table or a mark, or adds what was born.   *)
Collects == heap'.mem # heap.mem \/ heap'.marked # heap.marked

(* While references stay within the generations, nothing the program does  *)
(* faults, a collection keeps every reachable array with its contents and  *)
(* lists none twice, and one that is not part of an allocation (gc_call)   *)
(* leaves no unreachable array outside the arena.                          *)
ExactWithinGenerations ==
  [][(Collects \/ status' = "fault") /\ WithinGenerations =>
       /\ status' # "fault"
       /\ KeepsReachable /\ ListedOnce'
       /\ heap'.allocated = heap.allocated =>
            OldOrLarge(heap') \subseteq Reach(heap, StackRoots)]_vars

Gone == {"none", "dangling"}

(* An array that is gone never comes back, and arrays only age: a minor    *)
(* collection may move any array to old storage, nothing moves it out.     *)
AgesOnly ==
  [][\A i \in Ids :
       /\ heap.mem[i] = "old" => heap'.mem[i] \in {"old", "none"}
       /\ heap.mem[i] = "large" => heap'.mem[i] \in {"large", "old", "none"}
       /\ (i < heap.allocated /\ heap.mem[i] \in Gone) => heap'.mem[i] \in Gone]_vars

(* The array instructions over the collector are the arrays the language   *)
(* promises: IdealHeap, seen through the arrays the table still serves.    *)
Ideal == INSTANCE IdealHeap WITH
  objs <- Usable(heap), len <- heap.len, slots <- heap.slots,
  allocated <- heap.allocated

ImplementsIdeal == Ideal!Spec

(* While the interpreter runs, the collection of the run loop comes again  *)
(* and again.  This is WF_vars(gc_call) with ENABLED <<gc_call>>_vars      *)
(* written out as TickDue, which TLC evaluates much faster.                *)
TickDue  == CallsGC /\ status = "running" /\ call(heap, StackRoots) # heap
FairSpec == Spec /\ ([]<>~TickDue \/ []<><<gc_call>>_vars)

(* As long as the program runs there is again and again a moment at which  *)
(* no unreachable array is left outside the arena: garbage never stays.    *)
GarbageFreed ==
  []<>(status = "running" => OldOrLarge(heap) \subseteq Reach(heap, StackRoots))
=============================================================================
