--------------------------- MODULE GarbageCollector ---------------------------
(***************************************************************************)
(* The generational collector of src/src/heap.h, as operators on a record. *)
(*                                                                         *)
(* Arrays are named by the object id that the header of every array        *)
(* carries (object_ptr): ids count up from 1 and are never reused.  A heap *)
(* is a record with the fields                                             *)
(*   mem         where the global table mem sends an id: "young", "old" or *)
(*               "large" storage, "none" if the id has no entry (mem.at    *)
(*               throws), "dangling" if the entry still points into a      *)
(*               released young arena (reading it is undefined behaviour)  *)
(*   marked      the ids whose header, the one mem designates, is marked   *)
(*   len, slots  the array's length and elements                           *)
(*   young_roots, large_roots   the two root lists (no duplicates)         *)
(*   old_roots   the third list, as the number of times it holds each id   *)
(*   allocated   allocated_, the next id; used, the cells of the arena     *)
(*   faults      the ids whose read failed: an uncaught std::out_of_range  *)
(*               or an access through a dangling entry                     *)
(* An element is a Value.  Fields of an id without a readable array are    *)
(* reset to defaults.                                                      *)
(***************************************************************************)
EXTENDS Values, FiniteSets, FiniteSetsExt

CONSTANTS
  MaxLen,           \* bound of the model: longest array
  YOUNG_THRESHOLD,  \* cells of the young arena
  MAJOR_THRESHOLD,  \* entries of old_roots that trigger major_gc
  LARGE_THRESHOLD   \* entries of large_roots that trigger large_gc

ASSUME HeapAssumption ==
  /\ MaxLen \in Nat
  /\ YOUNG_THRESHOLD \in Nat \ {0, 1}
  /\ MAJOR_THRESHOLD \in Nat /\ LARGE_THRESHOLD \in Nat

Places == {"none", "young", "old", "large", "dangling"}

NoSlots == [k \in 1 .. MaxLen |-> Scalar]

HeapType ==
  [mem : [Ids -> Places], marked : SUBSET Ids,
   len : [Ids -> 0 .. MaxLen], slots : [Ids -> [1 .. MaxLen -> Value]],
   young_roots : SUBSET Ids, large_roots : SUBSET Ids, old_roots : [Ids -> Nat],
   allocated : 1 .. MaxObjs + 1, used : 0 .. YOUNG_THRESHOLD - 1, faults : SUBSET Ids]

EmptyHeap ==
  [mem |-> [i \in Ids |-> "none"], marked |-> {},
   len |-> [i \in Ids |-> 0], slots |-> [i \in Ids |-> NoSlots],
   young_roots |-> {}, large_roots |-> {}, old_roots |-> [i \in Ids |-> 0],
   allocated |-> 1, used |-> 0, faults |-> {}]

(***************************************************************************)
(* Graph of the heap.                                                      *)
(***************************************************************************)
Usable(h)      == {i \in Ids : h.mem[i] \in {"young", "old", "large"}}
Children(h, i) == {h.slots[i][k] : k \in 1 .. h.len[i]} \cap Ids
Edges(h)       == UNION {{i} \X Children(h, i) : i \in Ids}
Reach(h, R)    == Closure(Edges(h), R)

(* Leaves the table without the ids of D; to says what their entry becomes *)
(* ("none": erased, "dangling": left behind).                              *)
Discard(h, D, to) ==
  [h EXCEPT !.mem    = [i \in Ids |-> IF i \in D THEN to ELSE h.mem[i]],
            !.marked = @ \ D,
            !.len    = [i \in Ids |-> IF i \in D THEN 0 ELSE h.len[i]],
            !.slots  = [i \in Ids |-> IF i \in D THEN NoSlots ELSE h.slots[i]]]

Unmark(h, D) == [h EXCEPT !.marked = @ \ D]

(***************************************************************************)
(* mark(): every array found on the stack is unmarked and traversed, and   *)
(* the depth-first search stops at a header that is already marked - from  *)
(* this search, an earlier collection or birth.  So the search follows the *)
(* edges to arrays that carry no mark, in whatever order the stack has.    *)
(* It reads the header of every array it meets through mem.at.             *)
(***************************************************************************)
(* Mutant: mark() without its recursive call.                              *)
Traversed_shallow(h, roots) == roots \cap Ids

Traversed(h, roots) ==
  Closure({e \in Edges(h) : e[2] \notin h.marked}, roots)

mark(h, roots) ==
  LET T     == Traversed(h, roots)
      reads == T \cup UNION {Children(h, i) : i \in T}
  IN [h EXCEPT !.marked = @ \cup T, !.faults = @ \cup (reads \ Usable(h))]

(***************************************************************************)
(* major_gc(): old_roots is unmarked through mem.at, the stack is marked,  *)
(* and the list is swept one entry at a time.  A survivor is unmarked as   *)
(* it is kept, so a second entry of the same id finds it unmarked, frees   *)
(* it, and a third fails in mem.at.                                        *)
(***************************************************************************)
(* Mutant: the sweep starts at the second entry.                           *)
OldListed_skipsFirst(h) == {i \in Ids : h.old_roots[i] > 1}
OldListed(h) == {i \in Ids : h.old_roots[i] > 0}

major_gc(h, roots) ==
  LET listed == OldListed(h)
      m      == mark(Unmark(h, listed), roots)
      kept   == listed \cap m.marked
      freed  == {i \in listed : i \notin kept \/ h.old_roots[i] > 1}
      failed == {i \in listed : \/ h.mem[i] = "none"
                                \/ h.old_roots[i] > IF i \in kept THEN 2 ELSE 1}
  IN [Unmark(Discard(m, freed, "none"), kept) EXCEPT
        !.old_roots = [i \in Ids |-> IF i \in kept THEN 1 ELSE 0],
        !.faults = @ \cup failed]

OldCount(h) == Cardinality(UNION {{i} \X (1 .. h.old_roots[i]) : i \in Ids})

(***************************************************************************)
(* minor_gc(): the young headers alone are unmarked, the stack is marked,  *)
(* and in creation order each marked young array is moved by rebind_mem,   *)
(* which also moves and registers again EVERYTHING reachable from it, old  *)
(* and large arrays included.  Only the arrays the loop itself starts from *)
(* are unmarked.  The arena is released under the entries of the dead.     *)
(***************************************************************************)
Moved(m, heads) == Reach(m, heads)

LoopHeads(m, heads) ==
  {i \in heads : \A g \in heads : g < i => i \notin Reach(m, {g})}

rebind_mem(m, heads) ==
  LET moved == Moved(m, heads)
  IN [Unmark(m, LoopHeads(m, heads)) EXCEPT
        !.mem       = [i \in Ids |-> IF i \in moved THEN "old" ELSE @[i]],
        !.old_roots = [i \in Ids |-> @[i] + IF i \in moved THEN 1 ELSE 0],
        !.faults    = @ \cup (moved \ Usable(m))]

(* Mutants: release forgets to clear its list, or restarts the ids.        *)
release_keepsRoots(m, dead) == [Discard(m, dead, "dangling") EXCEPT !.used = 0]
release_restartsIds(m, dead) ==
  [Discard(m, dead, "dangling") EXCEPT !.young_roots = {}, !.used = 0, !.allocated = 1]

release(m, dead) ==
  [Discard(m, dead, "dangling") EXCEPT !.young_roots = {}, !.used = 0]

minor_gc(h, roots) ==
  LET m     == mark(Unmark(h, h.young_roots), roots)
      heads == h.young_roots \cap m.marked
      r     == release(rebind_mem(m, heads), h.young_roots \ Moved(m, heads))
  IN IF OldCount(r) >= MAJOR_THRESHOLD THEN major_gc(r, roots) ELSE r

(***************************************************************************)
(* large_gc(): a header whose array rebind_mem has moved away (mem[id] is  *)
(* no longer "large") is still in the list, is never marked again, and so  *)
(* takes the entry of the moved array with it.                             *)
(***************************************************************************)
large_gc(h, roots) ==
  LET own  == {i \in h.large_roots : h.mem[i] = "large"}
      m    == mark(Unmark(h, own), roots)
      kept == own \cap m.marked
  IN [Unmark(Discard(m, h.large_roots \ kept, "none"), kept)
        EXCEPT !.large_roots = kept]

(* GC_CALL and the interval of the run loop.                               *)
call(h, roots) == major_gc(large_gc(h, roots), roots)

(***************************************************************************)
(* Allocation.  A header is born marked (set_array's default).             *)
(***************************************************************************)
(* Mutant: allocated_ is not advanced.                                     *)
NewArray_sameId(h, n, place) ==
  LET i == h.allocated
  IN [h EXCEPT !.mem[i] = place, !.marked = @ \cup {i}, !.len[i] = n, !.slots[i] = NoSlots]

NewArray(h, n, place) ==
  LET i == h.allocated
  IN [h EXCEPT !.mem[i] = place, !.marked = @ \cup {i}, !.len[i] = n,
               !.slots[i] = NoSlots, !.allocated = i + 1]

(* Mutant: the large array is not pushed to large_roots.                   *)
alloc_large_unlisted(h, n) == NewArray(h, n, "large")

alloc_large(h, n) ==
  [NewArray(h, n, "large") EXCEPT !.large_roots = @ \cup {h.allocated}]

(* Mutant: the header's cell is not counted.                               *)
alloc_young_noHeader(h, n) ==
  [NewArray(h, n, "young") EXCEPT !.young_roots = @ \cup {h.allocated},
                                  !.used = @ + n]

alloc_young(h, n) ==
  [NewArray(h, n, "young") EXCEPT !.young_roots = @ \cup {h.allocated},
                                  !.used = @ + n + 1]

IsLarge(n) == n + 1 >= YOUNG_THRESHOLD

(* Mutant: room for the header is forgotten.                               *)
ArenaFull_noHeader(h, n) == h.used + n > YOUNG_THRESHOLD
ArenaFull(h, n) == h.used + n + 1 >= YOUNG_THRESHOLD

BeforeAlloc(h, n, roots) ==
  LET l == IF Cardinality(h.large_roots) >= LARGE_THRESHOLD
           THEN large_gc(h, roots) ELSE h
  IN IF ~IsLarge(n) /\ ArenaFull(l, n)
     THEN minor_gc(l, roots) ELSE l

alloc_array(h, n, roots) ==
  LET g == BeforeAlloc(h, n, roots)
  IN IF IsLarge(n) THEN alloc_large(g, n) ELSE alloc_young(g, n)
===============================================================================
