------------------------------ MODULE Graph_proofs ------------------------------
(***************************************************************************)
(* The collector under programs that build any graph of arrays, for every  *)
(* value of the constants.  Part one says what each collection leaves in   *)
(* every field of the heap; part two that the root lists, the table, the   *)
(* ids and the arena stay consistent and that arrays only age; part three  *)
(* that a heap whose references stay within the generations is collected   *)
(* exactly.                                                                *)
(***************************************************************************)
EXTENDS ArrayVM_proofs, FiniteSetTheorems

(* What mark() leaves once the headers of D have been unmarked.            *)
LEMMA UnmarkMark ==
  ASSUME NEW h \in HeapType, NEW D, NEW R
  PROVE  LET T == Traversed(Unmark(h, D), R)
             m == mark(Unmark(h, D), R) IN
         /\ m \in HeapType
         /\ m.mem = h.mem /\ m.len = h.len /\ m.slots = h.slots
         /\ m.marked = (h.marked \ D) \cup T
         /\ m.young_roots = h.young_roots /\ m.large_roots = h.large_roots
         /\ m.old_roots = h.old_roots /\ m.allocated = h.allocated
         /\ m.used = h.used
         /\ m.faults = h.faults \cup (Reads(h, T) \ Usable(h))
<1> DEFINE u == Unmark(h, D)
           T == Traversed(u, R)
<1>1. u \in HeapType BY UnmarkType
<1>2. /\ u.mem = h.mem /\ u.marked = h.marked \ D /\ u.len = h.len
      /\ u.slots = h.slots /\ u.young_roots = h.young_roots
      /\ u.large_roots = h.large_roots /\ u.old_roots = h.old_roots
      /\ u.allocated = h.allocated /\ u.used = h.used /\ u.faults = h.faults
  BY UnmarkFields
<1>3. Reads(u, T) = Reads(h, T) /\ Usable(u) = Usable(h)
  BY <1>2 DEF Reads, Children, Usable
<1> HIDE DEF u
<1>4. QED BY <1>1, <1>2, <1>3, MarkType, MarkFields DEF u

(* What major_gc() keeps and frees of the arrays it lists.                 *)
MajorSeen(h, R)  == Traversed(Unmark(h, OldListed(h)), R)
MajorKept(h, R)  == OldListed(h) \cap MajorSeen(h, R)
MajorFreed(h, R) == {i \in OldListed(h) : i \notin MajorKept(h, R) \/ h.old_roots[i] > 1}

(* The entries of its list that fail in mem.at.                            *)
MajorFailed(h, R) ==
  {i \in OldListed(h) : \/ h.mem[i] = "none"
                        \/ h.old_roots[i] > IF i \in MajorKept(h, R) THEN 2 ELSE 1}

(* What major_gc() leaves in the fields of the heap.                       *)
LEMMA MajorFields ==
  ASSUME NEW h \in HeapType, NEW R
  PROVE  LET g == major_gc(h, R)
             freed == MajorFreed(h, R) IN
         /\ \A i \in Ids :
              /\ g.mem[i] = IF i \in freed THEN "none" ELSE h.mem[i]
              /\ g.len[i] = IF i \in freed THEN 0 ELSE h.len[i]
              /\ g.slots[i] = IF i \in freed THEN NoSlots ELSE h.slots[i]
              /\ g.old_roots[i] = IF i \in MajorKept(h, R) THEN 1 ELSE 0
         /\ g.young_roots = h.young_roots /\ g.large_roots = h.large_roots
         /\ g.allocated = h.allocated /\ g.used = h.used
         /\ g.faults = h.faults \cup (Reads(h, MajorSeen(h, R)) \ Usable(h))
                         \cup MajorFailed(h, R)
<1> DEFINE listed == OldListed(h)
           T      == MajorSeen(h, R)
           m      == mark(Unmark(h, listed), R)
           kept   == MajorKept(h, R)
           freed  == MajorFreed(h, R)
           failed == MajorFailed(h, R)
           d      == Discard(m, freed, "none")
           s      == Unmark(d, kept)
           counts == [i \in Ids |-> IF i \in kept THEN 1 ELSE 0]
           g      == major_gc(h, R)
<1>1. /\ m \in HeapType
      /\ m.mem = h.mem /\ m.len = h.len /\ m.slots = h.slots
      /\ m.marked = (h.marked \ listed) \cup T
      /\ m.young_roots = h.young_roots /\ m.large_roots = h.large_roots
      /\ m.allocated = h.allocated /\ m.used = h.used
      /\ m.faults = h.faults \cup (Reads(h, T) \ Usable(h))
  BY UnmarkMark DEF MajorSeen
<1>2. kept = listed \cap m.marked BY <1>1 DEF MajorKept
<1>3. g = [s EXCEPT !.old_roots = counts, !.faults = @ \cup failed]
  BY <1>2 DEF major_gc, MajorFreed, MajorFailed
<1> HIDE DEF m, kept, freed, failed, listed, T
<1>4. /\ d \in HeapType
      /\ d.young_roots = m.young_roots /\ d.large_roots = m.large_roots
      /\ d.allocated = m.allocated /\ d.used = m.used /\ d.faults = m.faults
  BY <1>1, DiscardType, DiscardKeeps DEF Places
<1>5. \A i \in Ids : /\ d.mem[i] = IF i \in freed THEN "none" ELSE m.mem[i]
                     /\ d.len[i] = IF i \in freed THEN 0 ELSE m.len[i]
                     /\ d.slots[i] = IF i \in freed THEN NoSlots ELSE m.slots[i]
  BY <1>1, DiscardRemoves
<1> HIDE DEF d
<1>6. /\ s \in HeapType /\ s.mem = d.mem /\ s.len = d.len /\ s.slots = d.slots
      /\ s.young_roots = d.young_roots /\ s.large_roots = d.large_roots
      /\ s.allocated = d.allocated /\ s.used = d.used /\ s.faults = d.faults
  BY <1>4, UnmarkType, UnmarkFields
<1>7. counts \in [Ids -> Nat] OBVIOUS
<1> HIDE DEF s, g, counts
<1>8. /\ g.mem = s.mem /\ g.len = s.len /\ g.slots = s.slots
      /\ g.young_roots = s.young_roots /\ g.large_roots = s.large_roots
      /\ g.allocated = s.allocated /\ g.used = s.used /\ g.old_roots = counts
      /\ g.faults = s.faults \cup failed
  BY <1>3, <1>6, <1>7 DEF HeapType
<1>9. \A i \in Ids : counts[i] = IF i \in kept THEN 1 ELSE 0 BY DEF counts
<1>10. \A i \in Ids : /\ g.mem[i] = IF i \in freed THEN "none" ELSE h.mem[i]
                      /\ g.len[i] = IF i \in freed THEN 0 ELSE h.len[i]
                      /\ g.slots[i] = IF i \in freed THEN NoSlots ELSE h.slots[i]
  BY <1>1, <1>5, <1>6, <1>8
<1>11. g.faults = h.faults \cup (Reads(h, T) \ Usable(h)) \cup failed
  BY <1>1, <1>4, <1>6, <1>8
<1>12. QED
  BY <1>1, <1>4, <1>6, <1>8, <1>9, <1>10, <1>11 DEF g, kept, freed, failed, T

(* What large_gc() keeps of the arrays it lists.                           *)
LargeOwn(h)     == {i \in h.large_roots : h.mem[i] = "large"}
LargeSeen(h, R) == Traversed(Unmark(h, LargeOwn(h)), R)
LargeKept(h, R) == LargeOwn(h) \cap LargeSeen(h, R)

(* What large_gc() leaves in the fields of the heap.                       *)
LEMMA LargeFields ==
  ASSUME NEW h \in HeapType, NEW R
  PROVE  LET g == large_gc(h, R)
             freed == h.large_roots \ LargeKept(h, R) IN
         /\ \A i \in Ids :
              /\ g.mem[i] = IF i \in freed THEN "none" ELSE h.mem[i]
              /\ g.len[i] = IF i \in freed THEN 0 ELSE h.len[i]
              /\ g.slots[i] = IF i \in freed THEN NoSlots ELSE h.slots[i]
         /\ g.young_roots = h.young_roots /\ g.large_roots = LargeKept(h, R)
         /\ g.old_roots = h.old_roots
         /\ g.allocated = h.allocated /\ g.used = h.used
         /\ g.faults = h.faults \cup (Reads(h, LargeSeen(h, R)) \ Usable(h))
<1> DEFINE own   == LargeOwn(h)
           T     == LargeSeen(h, R)
           m     == mark(Unmark(h, own), R)
           kept  == LargeKept(h, R)
           freed == h.large_roots \ kept
           d     == Discard(m, freed, "none")
           s     == Unmark(d, kept)
           g     == large_gc(h, R)
<1>1. /\ m \in HeapType
      /\ m.mem = h.mem /\ m.len = h.len /\ m.slots = h.slots
      /\ m.marked = (h.marked \ own) \cup T
      /\ m.young_roots = h.young_roots /\ m.old_roots = h.old_roots
      /\ m.allocated = h.allocated /\ m.used = h.used
      /\ m.faults = h.faults \cup (Reads(h, T) \ Usable(h))
  BY UnmarkMark DEF LargeSeen
<1>2. kept = own \cap m.marked BY <1>1 DEF LargeKept
<1>3. g = [s EXCEPT !.large_roots = kept] BY <1>2 DEF large_gc, LargeOwn
<1>4. kept \subseteq Ids BY DEF LargeKept, LargeOwn, HeapType
<1> HIDE DEF m, kept, freed, own, T
<1>5. /\ d \in HeapType
      /\ d.young_roots = m.young_roots /\ d.old_roots = m.old_roots
      /\ d.allocated = m.allocated /\ d.used = m.used /\ d.faults = m.faults
  BY <1>1, DiscardType, DiscardKeeps DEF Places
<1>6. \A i \in Ids : /\ d.mem[i] = IF i \in freed THEN "none" ELSE m.mem[i]
                     /\ d.len[i] = IF i \in freed THEN 0 ELSE m.len[i]
                     /\ d.slots[i] = IF i \in freed THEN NoSlots ELSE m.slots[i]
  BY <1>1, DiscardRemoves
<1> HIDE DEF d
<1>7. /\ s \in HeapType /\ s.mem = d.mem /\ s.len = d.len /\ s.slots = d.slots
      /\ s.young_roots = d.young_roots /\ s.old_roots = d.old_roots
      /\ s.allocated = d.allocated /\ s.used = d.used /\ s.faults = d.faults
  BY <1>5, UnmarkType, UnmarkFields
<1> HIDE DEF s, g
<1>8. /\ g.mem = s.mem /\ g.len = s.len /\ g.slots = s.slots
      /\ g.young_roots = s.young_roots /\ g.large_roots = kept
      /\ g.old_roots = s.old_roots
      /\ g.allocated = s.allocated /\ g.used = s.used /\ g.faults = s.faults
  BY <1>3, <1>4, <1>7 DEF HeapType
<1>9. \A i \in Ids : /\ g.mem[i] = IF i \in freed THEN "none" ELSE h.mem[i]
                     /\ g.len[i] = IF i \in freed THEN 0 ELSE h.len[i]
                     /\ g.slots[i] = IF i \in freed THEN NoSlots ELSE h.slots[i]
  BY <1>1, <1>6, <1>7, <1>8
<1>10. g.faults = h.faults \cup (Reads(h, T) \ Usable(h))
  BY <1>1, <1>5, <1>7, <1>8
<1>11. QED BY <1>1, <1>5, <1>7, <1>8, <1>9, <1>10 DEF g, kept, freed, T

(* minor_gc() before the major_gc() it may end in: the arena evacuated.    *)
Evacuated(h, R) ==
  LET m     == mark(Unmark(h, h.young_roots), R)
      heads == h.young_roots \cap m.marked
  IN release(rebind_mem(m, heads), h.young_roots \ Moved(m, heads))

MinorSeen(h, R)  == Traversed(Unmark(h, h.young_roots), R)
MinorMoved(h, R) == Reach(h, h.young_roots \cap MinorSeen(h, R))

(* minor_gc() is the evacuation followed, or not, by a major collection.   *)
LEMMA MinorIs ==
  ASSUME NEW h, NEW R
  PROVE  minor_gc(h, R) = IF OldCount(Evacuated(h, R)) >= MAJOR_THRESHOLD
                          THEN major_gc(Evacuated(h, R), R) ELSE Evacuated(h, R)
BY DEF minor_gc, Evacuated

(* The graph of the heap is made of lengths and elements alone.            *)
LEMMA SameEdges ==
  ASSUME NEW h, NEW g, g.len = h.len, g.slots = h.slots
  PROVE  Edges(g) = Edges(h) /\ \A R : Reach(g, R) = Reach(h, R)
BY DEF Edges, Children, Reach

(* What the evacuation of the arena leaves in the fields of the heap.      *)
LEMMA EvacuatedFields ==
  ASSUME NEW h \in HeapType, NEW R
  PROVE  LET r     == Evacuated(h, R)
             moved == MinorMoved(h, R)
             dead  == h.young_roots \ moved IN
         /\ r \in HeapType /\ moved \in SUBSET Ids
         /\ \A i \in Ids :
              /\ r.mem[i] = IF i \in dead THEN "dangling"
                            ELSE IF i \in moved THEN "old" ELSE h.mem[i]
              /\ r.len[i] = IF i \in dead THEN 0 ELSE h.len[i]
              /\ r.slots[i] = IF i \in dead THEN NoSlots ELSE h.slots[i]
              /\ r.old_roots[i] = h.old_roots[i] + IF i \in moved THEN 1 ELSE 0
         /\ r.young_roots = {} /\ r.large_roots = h.large_roots
         /\ r.allocated = h.allocated /\ r.used = 0
         /\ r.faults = h.faults \cup (Reads(h, MinorSeen(h, R)) \ Usable(h))
                         \cup (moved \ Usable(h))
<1> DEFINE young  == h.young_roots
           T      == MinorSeen(h, R)
           m      == mark(Unmark(h, young), R)
           heads  == young \cap m.marked
           moved  == MinorMoved(h, R)
           dead   == young \ moved
           mem    == [i \in Ids |-> IF i \in moved THEN "old" ELSE m.mem[i]]
           counts == [i \in Ids |-> m.old_roots[i] + IF i \in moved THEN 1 ELSE 0]
           u      == Unmark(m, LoopHeads(m, heads))
           b      == rebind_mem(m, heads)
           d      == Discard(b, dead, "dangling")
           r      == Evacuated(h, R)
<1>1. /\ m \in HeapType
      /\ m.mem = h.mem /\ m.len = h.len /\ m.slots = h.slots
      /\ m.marked = (h.marked \ young) \cup T
      /\ m.large_roots = h.large_roots /\ m.old_roots = h.old_roots
      /\ m.allocated = h.allocated
      /\ m.faults = h.faults \cup (Reads(h, T) \ Usable(h))
  BY UnmarkMark DEF MinorSeen
<1>2. heads = young \cap T BY <1>1
<1>3. Moved(m, heads) = moved
  <2> HIDE DEF m
  <2>1. Reach(m, young \cap T) = Reach(h, young \cap T) BY <1>1, SameEdges
  <2>2. QED BY <1>2, <2>1 DEF Moved, MinorMoved
<1>4. moved \in SUBSET Ids BY DEF MinorMoved, Reach, Closure
<1>5. Usable(m) = Usable(h) BY <1>1 DEF Usable
<1> HIDE DEF m, moved, heads, T
<1>6. /\ u \in HeapType /\ u.mem = m.mem /\ u.len = m.len /\ u.slots = m.slots
      /\ u.old_roots = m.old_roots /\ u.large_roots = m.large_roots
      /\ u.allocated = m.allocated /\ u.faults = m.faults
  BY <1>1, UnmarkType, UnmarkFields
<1>7. b = [u EXCEPT !.mem = mem, !.old_roots = counts,
                    !.faults = @ \cup (moved \ Usable(m))]
  BY <1>3, <1>6 DEF rebind_mem
<1>8. mem \in [Ids -> Places] /\ counts \in [Ids -> Nat]
  BY <1>1 DEF HeapType, Places
<1> HIDE DEF u, b, mem, counts
<1>9. /\ b.mem = mem /\ b.old_roots = counts /\ b.len = m.len /\ b.slots = m.slots
      /\ b.large_roots = m.large_roots /\ b.allocated = m.allocated
      /\ b.faults = m.faults \cup (moved \ Usable(m))
  BY <1>6, <1>7, <1>8 DEF HeapType
<1>10. b \in HeapType BY <1>1, RebindType DEF b
<1>11. /\ d \in HeapType /\ d.large_roots = b.large_roots
       /\ d.old_roots = b.old_roots /\ d.allocated = b.allocated
       /\ d.faults = b.faults
  BY <1>10, DiscardType, DiscardKeeps DEF Places
<1>12. \A i \in Ids : /\ d.mem[i] = IF i \in dead THEN "dangling" ELSE b.mem[i]
                      /\ d.len[i] = IF i \in dead THEN 0 ELSE b.len[i]
                      /\ d.slots[i] = IF i \in dead THEN NoSlots ELSE b.slots[i]
  BY <1>10, DiscardRemoves
<1>13. r = [d EXCEPT !.young_roots = {}, !.used = 0]
  BY <1>3 DEF Evacuated, release, b, m, heads
<1>14. r \in HeapType
  <2>1. 0 \in 0 .. YOUNG_THRESHOLD - 1 BY HeapAssumption
  <2> HIDE DEF d, r
  <2>2. QED BY <1>11, <1>13, <2>1 DEF HeapType
<1> HIDE DEF d, r, dead
<1>15. /\ r.mem = d.mem /\ r.len = d.len /\ r.slots = d.slots
       /\ r.old_roots = d.old_roots /\ r.large_roots = d.large_roots
       /\ r.young_roots = {} /\ r.used = 0
       /\ r.allocated = d.allocated /\ r.faults = d.faults
  BY <1>11, <1>13 DEF HeapType
<1>16. \A i \in Ids : /\ mem[i] = IF i \in moved THEN "old" ELSE m.mem[i]
                      /\ counts[i] = m.old_roots[i] + IF i \in moved THEN 1 ELSE 0
  BY DEF mem, counts
<1>17. \A i \in Ids :
         /\ r.mem[i] = IF i \in dead THEN "dangling"
                       ELSE IF i \in moved THEN "old" ELSE h.mem[i]
         /\ r.len[i] = IF i \in dead THEN 0 ELSE h.len[i]
         /\ r.slots[i] = IF i \in dead THEN NoSlots ELSE h.slots[i]
  BY <1>1, <1>9, <1>12, <1>15, <1>16
<1>18. \A i \in Ids : r.old_roots[i] = h.old_roots[i] + IF i \in moved THEN 1 ELSE 0
  BY <1>1, <1>9, <1>11, <1>15, <1>16
<1>19. r.faults = h.faults \cup (Reads(h, T) \ Usable(h)) \cup (moved \ Usable(h))
  BY <1>1, <1>5, <1>9, <1>11, <1>15
<1>20. r.large_roots = h.large_roots /\ r.allocated = h.allocated
  BY <1>1, <1>9, <1>11, <1>15
<1>21. QED BY <1>4, <1>14, <1>15, <1>17, <1>18, <1>19, <1>20 DEF r, moved, dead, T

(* What alloc_array() leaves in the fields of the heap, once the           *)
(* collections it starts with have left g.                                 *)
Allocated(g, i, n, a) ==
  /\ a \in HeapType
  /\ \A j \in Ids :
       /\ a.mem[j] = IF j # i THEN g.mem[j]
                     ELSE IF IsLarge(n) THEN "large" ELSE "young"
       /\ a.len[j] = IF j = i THEN n ELSE g.len[j]
       /\ a.slots[j] = IF j = i THEN NoSlots ELSE g.slots[j]
  /\ a.young_roots = IF IsLarge(n) THEN g.young_roots ELSE g.young_roots \cup {i}
  /\ a.large_roots = IF IsLarge(n) THEN g.large_roots \cup {i} ELSE g.large_roots
  /\ a.old_roots = g.old_roots /\ a.faults = g.faults
  /\ a.allocated = i + 1
  /\ a.used = IF IsLarge(n) THEN g.used ELSE g.used + n + 1

(* alloc_array() puts the new array in the table and in its list.          *)
LEMMA AllocFields ==
  ASSUME NEW h \in HeapType, h.allocated \in Ids, NEW n \in 0 .. MaxLen, NEW R
  PROVE  Allocated(BeforeAlloc(h, n, R), h.allocated, n, alloc_array(h, n, R))
<1> DEFINE g     == BeforeAlloc(h, n, R)
           i     == h.allocated
           place == IF IsLarge(n) THEN "large" ELSE "young"
           mem   == [g.mem EXCEPT ![i] = place]
           len   == [g.len EXCEPT ![i] = n]
           slots == [g.slots EXCEPT ![i] = NoSlots]
           w     == NewArray(g, n, place)
           a     == alloc_array(h, n, R)
<1>1. g \in HeapType /\ g.allocated = i BY BeforeAllocType
<1>2. w = [g EXCEPT !.mem = mem, !.marked = @ \cup {i}, !.len = len,
                    !.slots = slots, !.allocated = i + 1]
  <2> HIDE DEF g, place
  <2>1. QED BY <1>1 DEF NewArray, HeapType
<1>3. a = IF IsLarge(n)
          THEN [w EXCEPT !.large_roots = @ \cup {i}]
          ELSE [w EXCEPT !.young_roots = @ \cup {i}, !.used = @ + n + 1]
  BY <1>1 DEF alloc_array, alloc_large, alloc_young
<1>4. w \in HeapType
  <2> HIDE DEF g, place
  <2>1. place \in Places BY DEF place, Places
  <2>2. QED BY <1>1, <2>1, NewArrayType
<1>5. \A j \in Ids : /\ mem[j] = IF j = i THEN place ELSE g.mem[j]
                     /\ len[j] = IF j = i THEN n ELSE g.len[j]
                     /\ slots[j] = IF j = i THEN NoSlots ELSE g.slots[j]
  <2> HIDE DEF g, place
  <2>1. QED BY <1>1 DEF HeapType
<1> HIDE DEF g, w, mem, len, slots, a, place
<1>6. /\ w.mem = mem /\ w.len = len /\ w.slots = slots
      /\ w.young_roots = g.young_roots /\ w.large_roots = g.large_roots
      /\ w.old_roots = g.old_roots /\ w.faults = g.faults
      /\ w.allocated = i + 1 /\ w.used = g.used
  BY <1>1, <1>2 DEF HeapType
<1>7. /\ a.mem = w.mem /\ a.len = w.len /\ a.slots = w.slots
      /\ a.old_roots = w.old_roots /\ a.faults = w.faults
      /\ a.allocated = w.allocated
      /\ a.young_roots = IF IsLarge(n) THEN w.young_roots ELSE w.young_roots \cup {i}
      /\ a.large_roots = IF IsLarge(n) THEN w.large_roots \cup {i} ELSE w.large_roots
      /\ a.used = IF IsLarge(n) THEN w.used ELSE w.used + n + 1
  BY <1>3, <1>4 DEF HeapType
<1>8. a \in HeapType BY AllocArrayType DEF a
<1>9. Allocated(g, i, n, a) BY <1>5, <1>6, <1>7, <1>8 DEF place, Allocated
<1>10. QED BY <1>9 DEF a, g
-----------------------------------------------------------------------------
(***************************************************************************)
(* Part two: lists, table, ids and arena.                                  *)
(***************************************************************************)
(* Registry, FreshIds and Arena as far as they are about the heap.         *)
Sound(h) ==
  /\ h.young_roots = {i \in Ids : h.mem[i] = "young"}
  /\ \A i \in Ids : h.mem[i] = "large" => i \in h.large_roots
  /\ \A i \in Ids : h.mem[i] = "old" => h.old_roots[i] > 0
  /\ \A i \in Ids : h.old_roots[i] > 0 \/ i \in h.large_roots
                      => i < h.allocated /\ h.mem[i] # "young"
  /\ \A i \in Ids : i >= h.allocated => h.mem[i] = "none"
  /\ \A i \in Ids : \A c \in Children(h, i) : c < h.allocated
  /\ h.used = Cardinality(ArenaCells(h))

(* How the entries of the table may change in a step.                      *)
Ages(h, g) ==
  \A i \in Ids :
    /\ h.mem[i] = "old" => g.mem[i] \in {"old", "none"}
    /\ h.mem[i] = "large" => g.mem[i] \in {"large", "old", "none"}
    /\ i < h.allocated /\ h.mem[i] = "none" => g.mem[i] = "none"
    /\ i < h.allocated /\ h.mem[i] = "dangling" => g.mem[i] \in Gone

(* What a collection does to a sound heap h: the result g is sound, hands  *)
(* out the same ids, forgets no failure, and if nothing failed arrays only *)
(* aged.                                                                   *)
Tidied(h, g) ==
  /\ g \in HeapType /\ Sound(g)
  /\ g.allocated = h.allocated
  /\ h.faults \subseteq g.faults
  /\ g.faults = {} => Ages(h, g)

(* A heap that no collection touched.                                      *)
LEMMA TidiedSame ==
  ASSUME NEW h \in HeapType, Sound(h)
  PROVE  Tidied(h, h)
BY DEF Tidied, Ages, Gone

(* Two collections in a row.                                               *)
LEMMA TidiedTwice ==
  ASSUME NEW h \in HeapType, Sound(h), NEW g, NEW k, Tidied(h, g), Tidied(g, k)
  PROVE  Tidied(h, k)
<1>1. /\ k \in HeapType /\ Sound(k) /\ k.allocated = h.allocated
      /\ h.faults \subseteq k.faults
  BY DEF Tidied
<1>2. ASSUME k.faults = {} PROVE Ages(h, k)
  <2>1. Ages(h, g) /\ Ages(g, k) /\ g.allocated = h.allocated BY <1>2 DEF Tidied
  <2>2. \A i \in Ids : h.mem[i] \in {"old", "large"} => i < h.allocated
    BY DEF Sound
  <2>3. QED BY <2>1, <2>2 DEF Ages, Gone
<1>3. QED BY <1>1, <1>2 DEF Tidied

(* The arena holds the same cells if its arrays are the same.              *)
LEMMA SameArena ==
  ASSUME NEW h, NEW g, g.young_roots = h.young_roots,
         \A i \in h.young_roots : g.len[i] = h.len[i]
  PROVE  ArenaCells(g) = ArenaCells(h)
BY DEF ArenaCells

(* An array taken out of the table leads nowhere, the others lead where    *)
(* they led.                                                               *)
LEMMA FewerChildren ==
  ASSUME NEW h \in HeapType, NEW g, NEW D, NEW i \in Ids,
         g.len[i] = IF i \in D THEN 0 ELSE h.len[i],
         g.slots[i] = IF i \in D THEN NoSlots ELSE h.slots[i]
  PROVE  Children(g, i) = IF i \in D THEN {} ELSE Children(h, i)
<1>1. CASE i \in D
  <2>1. 1 .. g.len[i] = {} BY <1>1
  <2>2. QED BY <1>1, <2>1 DEF Children
<1>2. CASE i \notin D BY <1>2 DEF Children
<1>3. QED BY <1>1, <1>2

(* major_gc() keeps the heap sound.                                        *)
LEMMA MajorTidies ==
  ASSUME NEW h \in HeapType, Sound(h), NEW R
  PROVE  Tidied(h, major_gc(h, R))
<1> DEFINE g     == major_gc(h, R)
           freed == MajorFreed(h, R)
           kept  == MajorKept(h, R)
<1>1. /\ g.young_roots = h.young_roots /\ g.large_roots = h.large_roots
      /\ g.allocated = h.allocated /\ g.used = h.used
      /\ h.faults \subseteq g.faults
  BY MajorFields
<1>2. \A i \in Ids :
        /\ g.mem[i] = IF i \in freed THEN "none" ELSE h.mem[i]
        /\ g.len[i] = IF i \in freed THEN 0 ELSE h.len[i]
        /\ g.slots[i] = IF i \in freed THEN NoSlots ELSE h.slots[i]
        /\ g.old_roots[i] = IF i \in kept THEN 1 ELSE 0
  BY MajorFields
<1>3. g \in HeapType BY MajorType
<1>4. \A i \in Ids : i \in kept \/ i \in freed => h.old_roots[i] > 0
  BY DEF MajorKept, MajorFreed, OldListed
<1>5. \A i \in Ids : h.old_roots[i] > 0 => i \in kept \/ i \in freed
  BY DEF MajorFreed, OldListed
<1>6. \A i \in Ids : i \in freed => h.mem[i] # "young" BY <1>4 DEF Sound
<1> HIDE DEF g, freed, kept
<1>7. g.young_roots = {i \in Ids : g.mem[i] = "young"} BY <1>1, <1>2, <1>6 DEF Sound
<1>8. \A i \in Ids : g.mem[i] = "large" => i \in g.large_roots BY <1>1, <1>2 DEF Sound
<1>9. \A i \in Ids : g.mem[i] = "old" => g.old_roots[i] > 0 BY <1>2, <1>5 DEF Sound
<1>10. \A i \in Ids : g.old_roots[i] > 0 \/ i \in g.large_roots
                        => i < g.allocated /\ g.mem[i] # "young"
  BY <1>1, <1>2, <1>4 DEF Sound
<1>11. \A i \in Ids : i >= g.allocated => g.mem[i] = "none" BY <1>1, <1>2 DEF Sound
<1>12. \A i \in Ids : \A c \in Children(g, i) : c < g.allocated
  BY <1>1, <1>2, FewerChildren DEF Sound
<1>13. ArenaCells(g) = ArenaCells(h)
  <2>1. \A i \in h.young_roots : g.len[i] = h.len[i] BY <1>2, <1>6 DEF Sound
  <2>2. QED BY <1>1, <2>1, SameArena
<1>14. Sound(g)
  BY <1>1, <1>7, <1>8, <1>9, <1>10, <1>11, <1>12, <1>13 DEF Sound
<1>15. Ages(h, g) BY <1>2 DEF Ages, Gone
<1>16. QED BY <1>1, <1>3, <1>14, <1>15 DEF Tidied, g

(* large_gc() keeps the heap sound.                                        *)
LEMMA LargeTidies ==
  ASSUME NEW h \in HeapType, Sound(h), NEW R
  PROVE  Tidied(h, large_gc(h, R))
<1> DEFINE g     == large_gc(h, R)
           kept  == LargeKept(h, R)
           freed == h.large_roots \ kept
<1>1. /\ g.young_roots = h.young_roots /\ g.large_roots = kept
      /\ g.old_roots = h.old_roots
      /\ g.allocated = h.allocated /\ g.used = h.used
      /\ h.faults \subseteq g.faults
  BY LargeFields
<1>2. \A i \in Ids :
        /\ g.mem[i] = IF i \in freed THEN "none" ELSE h.mem[i]
        /\ g.len[i] = IF i \in freed THEN 0 ELSE h.len[i]
        /\ g.slots[i] = IF i \in freed THEN NoSlots ELSE h.slots[i]
  BY LargeFields
<1>3. g \in HeapType BY LargeType
<1>4. kept \subseteq h.large_roots BY DEF LargeKept, LargeOwn
<1>5. \A i \in Ids : i \in freed => h.mem[i] # "young" BY DEF Sound
<1> HIDE DEF g, kept
<1>6. g.young_roots = {i \in Ids : g.mem[i] = "young"} BY <1>1, <1>2, <1>5 DEF Sound
<1>7. \A i \in Ids : g.mem[i] = "large" => i \in g.large_roots BY <1>1, <1>2 DEF Sound
<1>8. \A i \in Ids : g.mem[i] = "old" => g.old_roots[i] > 0 BY <1>1, <1>2 DEF Sound
<1>9. \A i \in Ids : g.old_roots[i] > 0 \/ i \in g.large_roots
                       => i < g.allocated /\ g.mem[i] # "young"
  BY <1>1, <1>2, <1>4 DEF Sound
<1>10. \A i \in Ids : i >= g.allocated => g.mem[i] = "none" BY <1>1, <1>2 DEF Sound
<1>11. \A i \in Ids : \A c \in Children(g, i) : c < g.allocated
  <2> HIDE DEF freed
  <2>1. QED BY <1>1, <1>2, FewerChildren DEF Sound
<1>12. ArenaCells(g) = ArenaCells(h)
  <2>1. \A i \in h.young_roots : g.len[i] = h.len[i] BY <1>2, <1>5 DEF Sound
  <2>2. QED BY <1>1, <2>1, SameArena
<1>13. Sound(g)
  BY <1>1, <1>6, <1>7, <1>8, <1>9, <1>10, <1>11, <1>12 DEF Sound
<1>14. Ages(h, g) BY <1>2 DEF Ages, Gone
<1>15. QED BY <1>1, <1>3, <1>13, <1>14 DEF Tidied, g

(* A closed set that holds the roots holds all that they lead to.          *)
LEMMA ClosureLeast ==
  ASSUME NEW edges, NEW R, NEW S \in SUBSET Ids, R \subseteq S,
         \A e \in edges : e[1] \in S => e[2] \in S
  PROVE  Closure(edges, R) \subseteq S
BY DEF Closure, Closed

(* The edges of the heap, one by one.                                      *)
LEMMA EdgesAre ==
  ASSUME NEW h, NEW e \in Edges(h)
  PROVE  e[1] \in Ids /\ e[2] \in Children(h, e[1]) /\ e[2] \in Ids
BY DEF Edges, Children

(* minor_gc() moves arrays that have been created, no matter what state    *)
(* they are in.                                                            *)
LEMMA MovedAreBorn ==
  ASSUME NEW h \in HeapType, Sound(h), NEW R
  PROVE  \A i \in MinorMoved(h, R) : i < h.allocated
<1> DEFINE born == {i \in Ids : i < h.allocated}
           heads == h.young_roots \cap MinorSeen(h, R)
<1>1. heads \subseteq born
  <2>1. \A i \in heads : i \in Ids /\ h.mem[i] = "young" BY DEF Sound
  <2>2. h.allocated \in Int BY DEF HeapType
  <2>3. \A i \in heads : ~(i >= h.allocated) BY <2>1 DEF Sound
  <2>4. QED BY <2>1, <2>2, <2>3 DEF Ids
<1>2. \A e \in Edges(h) : e[1] \in born => e[2] \in born
  BY EdgesAre DEF Sound
<1> HIDE DEF heads
<1>3. Closure(Edges(h), heads) \subseteq born BY <1>1, <1>2, ClosureLeast
<1>4. QED BY <1>3 DEF MinorMoved, Reach, heads

(* minor_gc(), with the major_gc() it may end in, keeps the heap sound.    *)
LEMMA EvacuatedTidies ==
  ASSUME NEW h \in HeapType, Sound(h), NEW R
  PROVE  Tidied(h, Evacuated(h, R))
<1> DEFINE g     == Evacuated(h, R)
           moved == MinorMoved(h, R)
           dead  == h.young_roots \ moved
<1>1. /\ g \in HeapType /\ moved \in SUBSET Ids
      /\ g.young_roots = {} /\ g.large_roots = h.large_roots
      /\ g.allocated = h.allocated /\ g.used = 0
      /\ h.faults \subseteq g.faults /\ moved \ Usable(h) \subseteq g.faults
  BY EvacuatedFields
<1>2. \A i \in Ids :
        /\ g.mem[i] = IF i \in dead THEN "dangling"
                      ELSE IF i \in moved THEN "old" ELSE h.mem[i]
        /\ g.len[i] = IF i \in dead THEN 0 ELSE h.len[i]
        /\ g.slots[i] = IF i \in dead THEN NoSlots ELSE h.slots[i]
        /\ g.old_roots[i] = h.old_roots[i] + IF i \in moved THEN 1 ELSE 0
  BY EvacuatedFields
<1>3. \A i \in moved : i < h.allocated BY MovedAreBorn
<1>4. \A i \in Ids : h.old_roots[i] \in Nat BY DEF HeapType
<1>5. \A i \in Ids : i \in h.young_roots <=> h.mem[i] = "young" BY DEF Sound
<1> HIDE DEF g, moved
<1>6. {i \in Ids : g.mem[i] = "young"} = {} BY <1>2, <1>5
<1>7. \A i \in Ids : g.mem[i] = "large" => i \in g.large_roots BY <1>1, <1>2 DEF Sound
<1>8. \A i \in Ids : g.mem[i] = "old" => g.old_roots[i] > 0
  <2> HIDE DEF dead
  <2>1. QED BY <1>2, <1>4 DEF Sound
<1>9. \A i \in Ids : g.old_roots[i] > 0 \/ i \in g.large_roots
                       => i < g.allocated /\ g.mem[i] # "young"
  <2>1. \A i \in Ids : g.mem[i] # "young" BY <1>6
  <2> HIDE DEF dead
  <2>2. \A i \in Ids : g.old_roots[i] > 0 => h.old_roots[i] > 0 \/ i \in moved
    BY <1>2, <1>4
  <2>3. QED BY <1>1, <1>3, <2>1, <2>2 DEF Sound
<1>10. \A i \in Ids : i >= g.allocated => g.mem[i] = "none"
  <2>1. h.allocated \in Int BY DEF HeapType
  <2>2. \A i \in Ids : i >= h.allocated => i \notin moved BY <1>3, <2>1 DEF Ids
  <2>3. \A i \in Ids : i >= h.allocated => h.mem[i] = "none" BY DEF Sound
  <2>4. \A i \in Ids : i >= h.allocated => i \notin dead BY <1>5, <2>3
  <2> HIDE DEF dead
  <2>5. QED BY <1>1, <1>2, <2>2, <2>3, <2>4
<1>11. \A i \in Ids : \A c \in Children(g, i) : c < g.allocated
  <2> HIDE DEF dead
  <2>1. QED BY <1>1, <1>2, FewerChildren DEF Sound
<1>12. g.used = Cardinality(ArenaCells(g))
  <2>1. ArenaCells(g) = {} BY <1>1 DEF ArenaCells
  <2>2. QED BY <1>1, <2>1, FS_EmptySet
<1>13. Sound(g)
  BY <1>1, <1>6, <1>7, <1>8, <1>9, <1>10, <1>11, <1>12 DEF Sound
<1>14. ASSUME g.faults = {} PROVE Ages(h, g)
  <2>1. \A i \in moved : h.mem[i] \in {"young", "old", "large"}
    BY <1>1, <1>14 DEF Usable
  <2>2. \A i \in dead : h.mem[i] = "young" BY <1>5 DEF Sound
  <2> HIDE DEF dead
  <2>3. QED BY <1>2, <2>1, <2>2 DEF Ages, Gone
<1>15. QED BY <1>1, <1>13, <1>14 DEF Tidied, g

(* minor_gc(), with the major_gc() it may end in, keeps the heap sound.    *)
LEMMA MinorTidies ==
  ASSUME NEW h \in HeapType, Sound(h), NEW R
  PROVE  Tidied(h, minor_gc(h, R))
<1> DEFINE r == Evacuated(h, R)
<1>1. Tidied(h, r) BY EvacuatedTidies
<1>2. r \in HeapType /\ Sound(r) BY <1>1 DEF Tidied
<1> HIDE DEF r
<1>3. Tidied(r, major_gc(r, R)) BY <1>2, MajorTidies
<1>4. Tidied(h, major_gc(r, R)) BY <1>1, <1>3, TidiedTwice
<1>5. QED BY <1>1, <1>4, MinorIs DEF r

(* GC_CALL keeps the heap sound.                                           *)
LEMMA CallTidies ==
  ASSUME NEW h \in HeapType, Sound(h), NEW R
  PROVE  Tidied(h, call(h, R))
<1>1. Tidied(h, large_gc(h, R)) BY LargeTidies
<1>2. large_gc(h, R) \in HeapType /\ Sound(large_gc(h, R)) BY <1>1 DEF Tidied
<1>3. Tidied(large_gc(h, R), major_gc(large_gc(h, R), R)) BY <1>2, MajorTidies
<1>4. QED BY <1>1, <1>3, TidiedTwice DEF call

(* The collections alloc_array() starts with keep the heap sound.          *)
LEMMA BeforeAllocTidies ==
  ASSUME NEW h \in HeapType, Sound(h), NEW n, NEW R
  PROVE  Tidied(h, BeforeAlloc(h, n, R))
<1> DEFINE l == IF Cardinality(h.large_roots) >= LARGE_THRESHOLD
                THEN large_gc(h, R) ELSE h
<1>1. Tidied(h, l) BY TidiedSame, LargeTidies
<1>2. l \in HeapType /\ Sound(l) BY <1>1 DEF Tidied
<1>3. BeforeAlloc(h, n, R) = IF ~IsLarge(n) /\ ArenaFull(l, n) THEN minor_gc(l, R) ELSE l
  BY DEF BeforeAlloc
<1> HIDE DEF l
<1>4. Tidied(l, minor_gc(l, R)) BY <1>2, MinorTidies
<1>5. Tidied(h, minor_gc(l, R)) BY <1>1, <1>4, TidiedTwice
<1>6. QED BY <1>1, <1>3, <1>5

(* A young array n long adds n + 1 cells to the arena.                     *)
LEMMA ArenaGrows ==
  ASSUME NEW g \in HeapType, NEW a \in HeapType, NEW i \in Ids, NEW n \in 0 .. MaxLen,
         i \notin g.young_roots, a.young_roots = g.young_roots \cup {i},
         \A j \in Ids : a.len[j] = IF j = i THEN n ELSE g.len[j]
  PROVE  Cardinality(ArenaCells(a)) = Cardinality(ArenaCells(g)) + n + 1
<1> DEFINE new == {i} \X (0 .. n)
<1>1. g.young_roots \subseteq Ids BY DEF HeapType
<1>2. MaxLen \in Nat BY HeapAssumption
<1>3. ArenaCells(a) = ArenaCells(g) \cup new
  <2>1. ASSUME NEW c \in a.young_roots \X (0 .. MaxLen)
        PROVE  c[2] <= a.len[c[1]] <=> c \in ArenaCells(g) \cup new
    <3>1. c = <<c[1], c[2]>> /\ c[1] \in g.young_roots \cup {i} /\ c[2] \in 0 .. MaxLen
      OBVIOUS
    <3>2. CASE c[1] = i
      <4>1. a.len[c[1]] = n BY <3>2
      <4>2. c \in new <=> c[2] \in 0 .. n BY <3>1, <3>2
      <4>3. c \notin ArenaCells(g) BY <3>2 DEF ArenaCells
      <4>4. QED BY <1>2, <3>1, <4>1, <4>2, <4>3
    <3>3. CASE c[1] # i
      <4>1. c[1] \in g.young_roots /\ c[1] \in Ids BY <1>1, <3>1, <3>3
      <4>2. a.len[c[1]] = g.len[c[1]] BY <3>3, <4>1
      <4>3. c \notin new BY <3>3
      <4>4. c \in g.young_roots \X (0 .. MaxLen) BY <3>1, <4>1
      <4>5. QED BY <4>2, <4>3, <4>4 DEF ArenaCells
    <3>4. QED BY <3>2, <3>3
  <2>2. ArenaCells(g) \cup new \subseteq a.young_roots \X (0 .. MaxLen)
    BY <1>2 DEF ArenaCells
  <2>3. QED BY <2>1, <2>2 DEF ArenaCells
<1>4. ArenaCells(g) \cap new = {} BY DEF ArenaCells
<1>5. IsFiniteSet(ArenaCells(g))
  <2>1. IsFiniteSet(Ids) BY ValuesAssumption, FS_Interval DEF Ids
  <2>2. IsFiniteSet(g.young_roots) BY <1>1, <2>1, FS_Subset
  <2>3. IsFiniteSet(0 .. MaxLen) BY <1>2, FS_Interval
  <2>4. IsFiniteSet(g.young_roots \X (0 .. MaxLen)) BY <2>2, <2>3, FS_Product
  <2>5. ArenaCells(g) \subseteq g.young_roots \X (0 .. MaxLen) BY DEF ArenaCells
  <2>6. QED BY <2>4, <2>5, FS_Subset
<1>6. IsFiniteSet(new) /\ Cardinality(new) = n + 1
  <2>1. IsFiniteSet({i}) /\ Cardinality({i}) = 1 BY FS_Singleton
  <2>2. IsFiniteSet(0 .. n) /\ Cardinality(0 .. n) = n + 1
    BY <1>2, FS_Interval
  <2>3. IsFiniteSet(new) /\ Cardinality(new) = 1 * (n + 1)
    BY <2>1, <2>2, FS_Product
  <2>4. QED BY <1>2, <2>3
<1>7. Cardinality(ArenaCells(g) \cap new) = 0 BY <1>4, FS_EmptySet
<1>8. Cardinality(ArenaCells(g)) \in Nat BY <1>5, FS_CardinalityType
<1> HIDE DEF new
<1>9. Cardinality(ArenaCells(g) \cup new)
        = Cardinality(ArenaCells(g)) + Cardinality(new) - Cardinality(ArenaCells(g) \cap new)
  BY <1>5, <1>6, FS_Union
<1>10. QED BY <1>2, <1>3, <1>6, <1>7, <1>8, <1>9

(* alloc_array() keeps the heap sound: the new id is in no list and no     *)
(* element, and its array gets the cells it needs.                         *)
LEMMA AllocSound ==
  ASSUME NEW h \in HeapType, Sound(h), h.allocated \in Ids, NEW n \in 0 .. MaxLen, NEW R
  PROVE  LET a == alloc_array(h, n, R) IN
         /\ a \in HeapType /\ Sound(a) /\ a.allocated = h.allocated + 1
         /\ a.faults = {} => Ages(h, a)
<1> DEFINE g == BeforeAlloc(h, n, R)
           i == h.allocated
           a == alloc_array(h, n, R)
<1>1. Tidied(h, g) BY BeforeAllocTidies
<1>2. g \in HeapType /\ Sound(g) /\ g.allocated = i BY <1>1 DEF Tidied
<1>3. Allocated(g, i, n, a) BY AllocFields
<1> HIDE DEF g, a
<1>4. /\ \A j \in Ids :
           /\ a.mem[j] = IF j # i THEN g.mem[j]
                         ELSE IF IsLarge(n) THEN "large" ELSE "young"
           /\ a.len[j] = IF j = i THEN n ELSE g.len[j]
           /\ a.slots[j] = IF j = i THEN NoSlots ELSE g.slots[j]
      /\ a.young_roots = IF IsLarge(n) THEN g.young_roots ELSE g.young_roots \cup {i}
      /\ a.large_roots = IF IsLarge(n) THEN g.large_roots \cup {i} ELSE g.large_roots
      /\ a.old_roots = g.old_roots /\ a.faults = g.faults
      /\ a.allocated = i + 1
      /\ a.used = IF IsLarge(n) THEN g.used ELSE g.used + n + 1
      /\ a \in HeapType
  BY <1>3 DEF Allocated
<1>5. /\ i \in Int /\ g.mem[i] = "none" /\ i \notin g.young_roots
      /\ ~(g.old_roots[i] > 0) /\ i \notin g.large_roots
  BY <1>2 DEF Sound, Ids
<1>6. a.young_roots = {j \in Ids : a.mem[j] = "young"} BY <1>2, <1>4, <1>5 DEF Sound
<1>7. \A j \in Ids : a.mem[j] = "large" => j \in a.large_roots
  BY <1>2, <1>4, <1>5 DEF Sound
<1>8. \A j \in Ids : a.mem[j] = "old" => a.old_roots[j] > 0
  BY <1>2, <1>4, <1>5 DEF Sound
<1>9. \A j \in Ids : a.old_roots[j] > 0 \/ j \in a.large_roots
                       => j < a.allocated /\ a.mem[j] # "young"
  <2>1. ASSUME NEW j \in Ids, a.old_roots[j] > 0 \/ j \in a.large_roots
        PROVE  j < i + 1 /\ a.mem[j] # "young"
    <3>1. CASE j = i BY <1>4, <1>5, <2>1, <3>1
    <3>2. CASE j # i
      <4>1. g.old_roots[j] > 0 \/ j \in g.large_roots BY <1>4, <2>1, <3>2
      <4>2. j < i /\ g.mem[j] # "young" BY <1>2, <4>1 DEF Sound
      <4>3. QED BY <1>4, <1>5, <3>2, <4>2 DEF Ids
    <3>3. QED BY <3>1, <3>2
  <2>2. QED BY <1>4, <2>1
<1>10. \A j \in Ids : j >= a.allocated => a.mem[j] = "none"
  BY <1>2, <1>4, <1>5 DEF Sound, Ids
<1>11. \A j \in Ids : \A c \in Children(a, j) : c < a.allocated
  <2>1. ASSUME NEW j \in Ids, NEW c \in Children(a, j) PROVE c < i + 1
    <3>1. c \in Ids /\ \E k \in 1 .. a.len[j] : c = a.slots[j][k]
      BY <2>1 DEF Children
    <3>2. CASE j = i
      <4>1. a.slots[j] = NoSlots /\ a.len[j] = n BY <1>4, <3>2
      <4>2. c = Scalar BY <3>1, <4>1, HeapAssumption DEF NoSlots
      <4>3. QED BY <3>1, <4>2 DEF Ids, Scalar
    <3>3. CASE j # i
      <4>1. a.slots[j] = g.slots[j] /\ a.len[j] = g.len[j] BY <1>4, <3>3
      <4>2. c \in Children(g, j) BY <2>1, <4>1 DEF Children
      <4>3. c < i BY <1>2, <4>2 DEF Sound
      <4>4. QED BY <1>5, <3>1, <4>3 DEF Ids
    <3>4. QED BY <3>2, <3>3
  <2>2. QED BY <1>4, <2>1
<1>12. a.used = Cardinality(ArenaCells(a))
  <2>1. CASE IsLarge(n)
    <3>1. \A j \in g.young_roots : a.len[j] = g.len[j]
      BY <1>2, <1>4, <1>5 DEF HeapType
    <3>2. ArenaCells(a) = ArenaCells(g) BY <1>4, <2>1, <3>1, SameArena
    <3>3. QED BY <1>2, <1>4, <2>1, <3>2 DEF Sound
  <2>2. CASE ~IsLarge(n)
    <3>1. Cardinality(ArenaCells(a)) = Cardinality(ArenaCells(g)) + n + 1
      BY <1>2, <1>4, <1>5, <2>2, ArenaGrows
    <3>2. QED BY <1>2, <1>4, <2>2, <3>1 DEF Sound
  <2>3. QED BY <2>1, <2>2
<1>13. Sound(a)
  BY <1>6, <1>7, <1>8, <1>9, <1>10, <1>11, <1>12 DEF Sound
<1>14. ASSUME a.faults = {} PROVE Ages(h, a)
  <2>1. Ages(h, g) BY <1>1, <1>4, <1>14 DEF Tidied
  <2>2. h.mem[i] = "none" BY DEF Sound, Ids
  <2>3. QED BY <1>4, <1>5, <2>1, <2>2 DEF Ages
<1>15. QED BY <1>4, <1>13, <1>14 DEF a
-----------------------------------------------------------------------------
(* The steps of the machine.                                               *)
StackIsBorn == \A r \in Cells : stack[r] < heap.allocated

(* The inductive invariant.                                                *)
Consistent == TypeOK /\ Sound(heap) /\ heap.faults = {} /\ StackIsBorn

(* A step keeps the invariant and lets arrays only age.                    *)
StepGood ==
  Sound(heap)' /\ heap'.faults = {} /\ StackIsBorn' /\ Ages(heap, heap')

(* The steps that leave the heap alone and write only what is in the       *)
(* registers already, or a scalar.                                         *)
LEMMA HeapSame ==
  ASSUME Consistent, UNCHANGED heap, StackIsBorn'
  PROVE  StepGood
BY DEF StepGood, Consistent, Ages, Gone

(* Writing an id that has been handed out to a register keeps StackIsBorn. *)
LEMMA SetRegBorn ==
  ASSUME Consistent, NEW dst \in RegOps, NEW v \in Value, SetReg(dst, v),
         v < heap'.allocated, heap'.allocated >= heap.allocated, heap'.allocated \in Int
  PROVE  StackIsBorn'
<1>1. \A r \in Cells : stack'[r] = stack[r] \/ stack'[r] = v
  BY DEF SetReg, Consistent, TypeOK, RegistersType
<1>2. \A r \in Cells : stack[r] < heap.allocated /\ stack[r] \in Int
  BY DEF Consistent, StackIsBorn, TypeOK, RegistersType, Value, Ids, Scalar
<1>3. heap.allocated \in Int BY DEF Consistent, TypeOK, HeapType
<1>4. QED BY <1>1, <1>2, <1>3 DEF StackIsBorn

(* An instruction that moves a value between registers, or writes a scalar.*)
LEMMA WriteGood ==
  ASSUME Consistent, UNCHANGED heap, NEW dst \in RegOps, NEW v \in Value,
         v < heap.allocated, SetReg(dst, v)
  PROVE  StepGood
<1>1. heap.allocated \in Int BY DEF Consistent, TypeOK, HeapType
<1>2. StackIsBorn' BY <1>1, SetRegBorn
<1>3. QED BY <1>2, HeapSame

(* What a register holds is Scalar or has been handed out.                 *)
LEMMA RegBorn ==
  ASSUME Consistent, NEW a \in RegOps
  PROVE  Reg(a) \in Value /\ Reg(a) < heap.allocated
BY RegInStack DEF Consistent, TypeOK, StackIsBorn, Reg

(* So is Scalar.                                                           *)
LEMMA ScalarBorn ==
  ASSUME Consistent
  PROVE  Scalar \in Value /\ Scalar < heap.allocated
BY ValuesAssumption DEF Consistent, TypeOK, HeapType, Scalar, Value

(* A step that leaves heap and registers alone.                            *)
LEMMA FrozenGood ==
  ASSUME Consistent, UNCHANGED <<heap, stack>>
  PROVE  StepGood
BY HeapSame DEF Consistent, StackIsBorn

(* op_alloc, with the collection it may run.                               *)
LEMMA AllocGood ==
  ASSUME Consistent, NEW dst \in RegOps, NEW n \in Lens, op_alloc(dst, n)
  PROVE  StepGood
<1> DEFINE h == alloc_array(heap, n, StackRoots)
<1>1. n \in 0 .. MaxLen BY ArrayVMAssumption
<1>2. heap \in HeapType /\ Sound(heap) /\ heap.allocated \in Ids
  BY DEF Consistent, TypeOK, op_alloc
<1>3. /\ h \in HeapType /\ Sound(h) /\ h.allocated = heap.allocated + 1
      /\ h.faults = {} => Ages(heap, h)
  BY <1>1, <1>2, AllocSound
<1>4. FaultStep \/ (h.faults = {} /\ heap' = h /\ SetReg(dst, heap.allocated))
  BY DEF op_alloc, Faults
<1> HIDE DEF h
<1>5. CASE FaultStep BY <1>5, FrozenGood DEF FaultStep
<1>6. CASE h.faults = {} /\ heap' = h /\ SetReg(dst, heap.allocated)
  <2>1. heap.allocated \in Value BY <1>2, IdsAreValues
  <2>2. heap.allocated \in Int BY <1>2 DEF Ids
  <2>3. StackIsBorn' BY <1>3, <1>6, <2>1, <2>2, SetRegBorn
  <2>4. QED BY <1>3, <1>6, <2>3 DEF StepGood
<1>7. QED BY <1>4, <1>5, <1>6

(* op_arrget: an element in bounds is an id that has been handed out.      *)
LEMMA GetGood ==
  ASSUME Consistent, NEW dst \in RegOps, NEW arr \in RegOps, NEW idx \in Indices,
         op_arrget(dst, arr, idx)
  PROVE  StepGood
<1> DEFINE a == Reg(arr)
           v == heap.slots[a][idx + 1]
<1>1. CASE FaultStep BY <1>1, FrozenGood DEF FaultStep
<1>2. CASE Throw /\ UNCHANGED heap BY <1>2, FrozenGood DEF Throw
<1>3. CASE a \in Ids /\ InBounds(heap, a, idx) /\ SetReg(dst, v) /\ UNCHANGED heap
  <2>1. idx + 1 \in 1 .. heap.len[a] /\ idx + 1 \in 1 .. MaxLen
    <3>1. idx \in Int BY ArrayVMAssumption
    <3>2. heap.len[a] \in 0 .. MaxLen BY <1>3 DEF Consistent, TypeOK, HeapType
    <3>3. QED BY <1>3, <3>1, <3>2, HeapAssumption DEF InBounds
  <2>2. v \in Value
    <3>1. heap.slots \in [Ids -> [1 .. MaxLen -> Value]]
      BY DEF Consistent, TypeOK, HeapType
    <3>2. heap.slots[a] \in [1 .. MaxLen -> Value] BY <1>3, <3>1
    <3>3. QED BY <2>1, <3>2
  <2>3. v \in Ids => v \in Children(heap, a) BY <2>1 DEF Children
  <2>4. v < heap.allocated
    BY <1>3, <2>2, <2>3, ScalarBorn DEF Consistent, Sound, Value
  <2>5. QED BY <1>3, <2>2, <2>4, WriteGood
<1>4. QED BY <1>1, <1>2, <1>3 DEF op_arrget

(* op_arrset: what it stores was in a register.                            *)
LEMMA SetGood ==
  ASSUME Consistent, NEW arr \in RegOps, NEW idx \in Indices, NEW src \in RegOps,
         op_arrset(arr, idx, src)
  PROVE  StepGood
<1> DEFINE a == Reg(arr)
           row == [heap.slots[a] EXCEPT ![idx + 1] = Reg(src)]
           slots == [heap.slots EXCEPT ![a] = row]
           g == heap'
<1>1. CASE FaultStep BY <1>1, FrozenGood DEF FaultStep
<1>2. CASE Throw /\ UNCHANGED heap BY <1>2, FrozenGood DEF Throw
<1>3. CASE /\ a \in Ids
           /\ heap' = [heap EXCEPT !.slots[a][idx + 1] = Reg(src)]
           /\ UNCHANGED regVars
  <2>1. heap \in HeapType /\ Sound(heap) BY DEF Consistent, TypeOK
  <2>2. g = [heap EXCEPT !.slots = slots] BY <1>3, <2>1 DEF HeapType
  <2>3. heap.slots[a] \in [1 .. MaxLen -> Value] BY <1>3, <2>1 DEF HeapType
  <2>4. \A k \in 1 .. MaxLen : row[k] = heap.slots[a][k] \/ row[k] = Reg(src)
    BY <2>3
  <2>5. \A j \in Ids : slots[j] = IF j = a THEN row ELSE heap.slots[j]
    BY <1>3, <2>1 DEF HeapType
  <2> HIDE DEF slots, row, g
  <2>6. /\ g.mem = heap.mem /\ g.len = heap.len /\ g.slots = slots
        /\ g.faults = heap.faults
        /\ g.young_roots = heap.young_roots /\ g.large_roots = heap.large_roots
        /\ g.old_roots = heap.old_roots /\ g.allocated = heap.allocated
        /\ g.used = heap.used
    BY <2>1, <2>2 DEF HeapType
  <2>7. Reg(src) < heap.allocated BY RegBorn
  <2>8. ASSUME NEW j \in Ids, NEW c \in Children(g, j) PROVE c < g.allocated
    <3>1. CASE j = a
      <4>1. PICK k \in 1 .. heap.len[a] : c = row[k]
        BY <2>5, <2>6, <2>8, <3>1 DEF Children
      <4>2. k \in 1 .. MaxLen
        <5>1. heap.len[a] \in 0 .. MaxLen BY <1>3, <2>1 DEF HeapType
        <5>2. QED BY <5>1, HeapAssumption
      <4>3. CASE c = Reg(src) BY <2>6, <2>7, <4>3
      <4>4. CASE c = heap.slots[a][k]
        <5>1. c \in Children(heap, a) BY <2>8, <4>4 DEF Children
        <5>2. QED BY <1>3, <2>1, <2>6, <5>1 DEF Sound
      <4>5. QED BY <2>4, <4>1, <4>2, <4>3, <4>4
    <3>2. CASE j # a
      <4>1. c \in Children(heap, j) BY <2>5, <2>6, <2>8, <3>2 DEF Children
      <4>2. QED BY <2>1, <2>6, <4>1 DEF Sound
    <3>3. QED BY <3>1, <3>2
  <2>9. ArenaCells(g) = ArenaCells(heap) BY <2>6, SameArena
  <2>10. Sound(g) BY <2>1, <2>6, <2>8, <2>9 DEF Sound
  <2>11. Ages(heap, g) BY <2>6 DEF Ages, Gone
  <2>12. StackIsBorn'
    BY <1>3, <2>6 DEF Consistent, StackIsBorn, regVars, g
  <2>13. QED BY <2>6, <2>10, <2>11, <2>12 DEF StepGood, Consistent, g
<1>4. QED BY <1>1, <1>2, <1>3 DEF op_arrset

(* len().                                                                  *)
LEMMA LenGood ==
  ASSUME Consistent, NEW r \in RegOps, cote_len(r)
  PROVE  StepGood
<1>1. CASE FaultStep BY <1>1, FrozenGood DEF FaultStep
<1>2. CASE Throw /\ UNCHANGED heap BY <1>2, FrozenGood DEF Throw
<1>3. CASE SetReg(r, Scalar) /\ UNCHANGED heap BY <1>3, ScalarBorn, WriteGood
<1>4. QED BY <1>1, <1>2, <1>3 DEF cote_len

(* A collection between two instructions.                                  *)
LEMMA GcGood ==
  ASSUME Consistent, gc_call
  PROVE  StepGood
<1> DEFINE h == call(heap, StackRoots)
<1>1. Tidied(heap, h) BY CallTidies DEF Consistent, TypeOK
<1>2. FaultStep \/ (h.faults = {} /\ heap' = h) BY DEF gc_call, Faults
<1>3. UNCHANGED stack BY DEF gc_call
<1> HIDE DEF h
<1>4. CASE FaultStep BY <1>4, FrozenGood DEF FaultStep
<1>5. CASE h.faults = {} /\ heap' = h
  <2>1. Sound(h) /\ Ages(heap, h) /\ h.allocated = heap.allocated
    BY <1>1, <1>5 DEF Tidied
  <2>2. StackIsBorn' BY <1>3, <1>5, <2>1 DEF Consistent, StackIsBorn
  <2>3. QED BY <1>5, <2>1, <2>2 DEF StepGood
<1>6. QED BY <1>2, <1>4, <1>5

(* Opening a frame fills its window with nil.                              *)
LEMMA PushFrameGood ==
  ASSUME Consistent, UNCHANGED heap, NEW b, NEW c, PushFrame(b, c)
  PROVE  StepGood
<1>1. \A r \in Cells : stack'[r] = Scalar \/ stack'[r] = stack[r] BY DEF PushFrame
<1>2. StackIsBorn' BY <1>1, ScalarBorn DEF Consistent, StackIsBorn
<1>3. QED BY <1>2, HeapSame

(* Closing a frame writes its result.                                      *)
LEMMA PopFrameGood ==
  ASSUME Consistent, UNCHANGED heap, NEW v, v < heap.allocated, PopFrame(v)
  PROVE  StepGood
<1>1. \A r \in Cells : stack'[r] = v \/ stack'[r] = stack[r]
  BY DEF PopFrame, Consistent, TypeOK, RegistersType
<1>2. StackIsBorn' BY <1>1 DEF Consistent, StackIsBorn
<1>3. QED BY <1>2, HeapSame

(* Every instruction that leaves the heap alone.                           *)
LEMMA RegisterStepGood ==
  ASSUME Consistent, RegisterStep
  PROVE  StepGood
<1> USE DEF RegisterStep
<1>1. ASSUME NEW dst \in RegOps, NEW src \in RegOps, op_move(dst, src)
      PROVE  StepGood
  BY <1>1, RegBorn, WriteGood DEF op_move
<1>2. ASSUME NEW dst \in RegOps, op_scalar(dst) PROVE StepGood
  BY <1>2, ScalarBorn, WriteGood DEF op_scalar
<1>3. ASSUME NEW b \in RegOps, NEW c \in 0 .. MaxArgs, NEW arity \in 0 .. MaxArgs,
             op_call(b, c, arity)
      PROVE  StepGood
  <2>1. CASE Throw BY <2>1, FrozenGood DEF Throw
  <2>2. CASE PushFrame(b, c) BY <2>2, PushFrameGood
  <2>3. QED BY <1>3, <2>1, <2>2 DEF op_call
<1>4. CASE call_main BY <1>4, PushFrameGood DEF call_main
<1>5. ASSUME NEW r \in RegOps, op_return(r) PROVE StepGood
  BY <1>5, RegBorn, PopFrameGood DEF op_return
<1>6. CASE op_returnnil BY <1>6, ScalarBorn, PopFrameGood DEF op_returnnil
<1>7. CASE op_halt BY <1>7, FrozenGood DEF op_halt
<1>8. QED BY <1>1, <1>2, <1>3, <1>4, <1>5, <1>6, <1>7 DEF RegistersNext

(* Every step of the machine.                                              *)
LEMMA StepIsGood ==
  ASSUME Consistent, [Next]_vars
  PROVE  StepGood /\ Consistent'
<1>1. StepGood
  <2>1. CASE UNCHANGED vars BY <2>1, FrozenGood DEF vars
  <2>2. CASE \E dst \in RegOps, n \in Lens : op_alloc(dst, n) BY <2>2, AllocGood
  <2>3. CASE \E dst, arr \in RegOps, idx \in Indices : op_arrget(dst, arr, idx)
    BY <2>3, GetGood
  <2>4. CASE \E arr, src \in RegOps, idx \in Indices : op_arrset(arr, idx, src)
    BY <2>4, SetGood
  <2>5. CASE \E r \in RegOps : cote_len(r) BY <2>5, LenGood
  <2>6. CASE type_error BY <2>6, FrozenGood DEF type_error, Throw
  <2>7. CASE gc_call BY <2>7, GcGood
  <2>8. CASE RegisterStep BY <2>8, RegisterStepGood
  <2>9. QED BY <2>1, <2>2, <2>3, <2>4, <2>5, <2>6, <2>7, <2>8 DEF Next
<1>2. TypeOK' BY StepType DEF Consistent
<1>3. QED BY <1>1, <1>2 DEF Consistent, StepGood

(* The machine starts with an empty heap and nil in every register.        *)
LEMMA InitConsistent ==
  ASSUME Init
  PROVE  Consistent
<1>1. heap = EmptyHeap /\ stack = [r \in Cells |-> Scalar]
  BY DEF Init, RegistersInit
<1>2. ArenaCells(heap) = {} BY <1>1 DEF EmptyHeap, ArenaCells
<1>3. Cardinality(ArenaCells(heap)) = 0 BY <1>2, FS_EmptySet
<1>4. \A i \in Ids : Children(heap, i) = {}
  <2>1. \A i \in Ids : 1 .. heap.len[i] = {} BY <1>1 DEF EmptyHeap
  <2>2. QED BY <2>1 DEF Children
<1>5. /\ heap.young_roots = {} /\ heap.large_roots = {}
      /\ heap.used = 0 /\ heap.allocated = 1
      /\ \A i \in Ids : heap.mem[i] = "none" /\ heap.old_roots[i] = 0
  BY <1>1 DEF EmptyHeap
<1>6. Sound(heap) BY <1>3, <1>4, <1>5 DEF Sound
<1>7. StackIsBorn BY <1>1 DEF EmptyHeap, StackIsBorn, Scalar
<1>8. heap.faults = {} BY <1>1 DEF EmptyHeap
<1>9. QED BY <1>6, <1>7, <1>8, InitType DEF Consistent

(* The three invariants follow from the inductive one.                     *)
LEMMA ConsistentImplies ==
  ASSUME Consistent
  PROVE  Registry /\ FreshIds /\ Arena
<1>1. heap \in HeapType /\ Sound(heap) BY DEF Consistent, TypeOK
<1>2. Registry
  BY <1>1 DEF Sound, Registry, OldListed, HeapType
<1>3. FreshIds
  <2>1. \A i \in heap.allocated .. MaxObjs : i \in Ids /\ i >= heap.allocated
    BY <1>1, ValuesAssumption DEF HeapType, Ids
  <2>2. QED BY <1>1, <2>1 DEF Sound, FreshIds, Consistent, StackIsBorn
<1>4. Arena BY <1>1, HeapAssumption DEF Sound, Arena, HeapType
<1>5. QED BY <1>2, <1>3, <1>4

(* Whatever graph of arrays a program builds, and however collections and  *)
(* allocations interleave: an array in storage is in the list that would   *)
(* free it, and no sweep of the other lists can reach an array of the      *)
(* arena or one still to be created.                                       *)
THEOREM RegistryAlways == Spec => []Registry
<1>1. Consistent /\ [Next]_vars => Consistent' BY StepIsGood
<1>2. Init => Consistent BY InitConsistent
<1>3. Consistent => Registry BY ConsistentImplies
<1>4. QED BY <1>1, <1>2, <1>3, PTL DEF Spec

(* No register, element or table entry ever names an array before it is    *)
(* created: a new array cannot be confused with an older one.              *)
THEOREM FreshAlways == Spec => []FreshIds
<1>1. Consistent /\ [Next]_vars => Consistent' BY StepIsGood
<1>2. Init => Consistent BY InitConsistent
<1>3. Consistent => FreshIds BY ConsistentImplies
<1>4. QED BY <1>1, <1>2, <1>3, PTL DEF Spec

(* The counter `used' of the arena is exactly the cells of the arrays in   *)
(* it, headers included, and stays below the asserted limit.               *)
THEOREM ArenaAlways == Spec => []Arena
<1>1. Consistent /\ [Next]_vars => Consistent' BY StepIsGood
<1>2. Init => Consistent BY InitConsistent
<1>3. Consistent => Arena BY ConsistentImplies
<1>4. QED BY <1>1, <1>2, <1>3, PTL DEF Spec

(* Arrays only age, and one that is gone never comes back: a collection    *)
(* that would put a lost array back in the table fails first.              *)
THEOREM AgesAlways == Spec => AgesOnly
<1> DEFINE Step == \A i \in Ids :
       /\ heap.mem[i] = "old" => heap'.mem[i] \in {"old", "none"}
       /\ heap.mem[i] = "large" => heap'.mem[i] \in {"large", "old", "none"}
       /\ (i < heap.allocated /\ heap.mem[i] \in Gone) => heap'.mem[i] \in Gone
<1>1. Consistent /\ [Next]_vars => Consistent' BY StepIsGood
<1>2. Init => Consistent BY InitConsistent
<1>3. Consistent /\ [Next]_vars => [Step]_vars
  <2>1. Ages(heap, heap') => Step BY DEF Ages, Gone
  <2>2. QED BY <2>1, StepIsGood DEF StepGood
<1> HIDE DEF Step
<1>4. Spec => [][Step]_vars BY <1>1, <1>2, <1>3, PTL DEF Spec
<1>5. QED BY <1>4 DEF AgesOnly, Step
-----------------------------------------------------------------------------
(***************************************************************************)
(* Part three: a heap whose references stay within the generations.        *)
(***************************************************************************)
(* What is reachable holds the roots and all that it leads to.             *)
LEMMA ReachClosed ==
  ASSUME NEW h, NEW R \in SUBSET Ids
  PROVE  /\ Reach(h, R) \in SUBSET Ids /\ R \subseteq Reach(h, R)
         /\ \A i \in Reach(h, R) : Children(h, i) \subseteq Reach(h, R)
<1>1. Reach(h, R) \in SUBSET Ids BY DEF Reach, Closure
<1>2. R \subseteq Reach(h, R) BY DEF Reach, Closure, Closed
<1>3. ASSUME NEW i \in Reach(h, R), NEW c \in Children(h, i)
      PROVE  c \in Reach(h, R)
  <2>1. c \in Ids BY <1>3 DEF Children
  <2>2. i \in Ids BY <1>1, <1>3
  <2>3. <<i, c>> \in Edges(h) BY <1>3, <2>2 DEF Edges
  <2>4. ASSUME NEW S \in Closed(Edges(h), R) PROVE c \in S
    <3>1. i \in S BY <1>3, <2>4 DEF Reach, Closure
    <3>2. <<i, c>>[1] \in S => <<i, c>>[2] \in S BY <2>3, <2>4 DEF Closed
    <3>3. QED BY <3>1, <3>2
  <2>5. QED BY <2>1, <2>4 DEF Reach, Closure
<1>4. QED BY <1>1, <1>2, <1>3

(* It is the least such set.                                               *)
LEMMA ReachLeast ==
  ASSUME NEW h, NEW R, NEW S \in SUBSET Ids, R \subseteq S,
         \A i \in S : Children(h, i) \subseteq S
  PROVE  Reach(h, R) \subseteq S
<1>1. \A e \in Edges(h) : e[1] \in S => e[2] \in S BY EdgesAre
<1>2. QED BY <1>1, ClosureLeast DEF Reach

(* Nothing is reachable from no roots.                                     *)
LEMMA ReachNothing ==
  ASSUME NEW h
  PROVE  Reach(h, {}) = {}
BY ReachLeast

(* A heap that has the same arrays wherever the roots lead has them        *)
(* reachable, and no others.                                               *)
LEMMA ReachSame ==
  ASSUME NEW h, NEW g, NEW R \in SUBSET Ids,
         \A i \in Reach(h, R) : Children(g, i) = Children(h, i)
  PROVE  Reach(g, R) = Reach(h, R)
<1>1. Reach(g, R) \subseteq Reach(h, R) BY ReachClosed, ReachLeast
<1>2. \A i \in Reach(g, R) : Children(h, i) \subseteq Reach(g, R)
  BY <1>1, ReachClosed
<1>3. Reach(h, R) \subseteq Reach(g, R) BY <1>2, ReachClosed, ReachLeast
<1>4. QED BY <1>1, <1>3

(* A search goes no further than what is reachable, whatever marks it      *)
(* finds.                                                                  *)
LEMMA SeenReachable ==
  ASSUME NEW h \in HeapType, NEW D, NEW R \in SUBSET Ids
  PROVE  /\ Traversed(Unmark(h, D), R) \subseteq Reach(h, R)
         /\ Reads(h, Traversed(Unmark(h, D), R)) \subseteq Reach(h, R)
<1> DEFINE u == Unmark(h, D)
           L == Reach(h, R)
           T == Traversed(u, R)
<1>1. u.len = h.len /\ u.slots = h.slots BY UnmarkFields
<1> HIDE DEF u
<1>2. Edges(u) = Edges(h) BY <1>1, SameEdges
<1>3. \A e \in Edges(h) : e[1] \in L => e[2] \in L BY EdgesAre, ReachClosed
<1>4. L \in SUBSET Ids /\ R \subseteq L BY ReachClosed
<1> HIDE DEF L
<1>5. \A e \in {x \in Edges(u) : x[2] \notin u.marked} : e[1] \in L => e[2] \in L
  BY <1>2, <1>3
<1>6. T \subseteq L BY <1>4, <1>5, ClosureLeast DEF Traversed
<1>7. Reads(h, T) \subseteq L BY <1>6, ReachClosed DEF Reads, L
<1>8. QED BY <1>6, <1>7 DEF u, L

(* A search that unmarks the arrays of D before it starts finds all of     *)
(* them that are reachable, if only arrays of D lead to them.              *)
LEMMA SeenOwn ==
  ASSUME NEW h \in HeapType, NEW D, NEW R \in SUBSET Ids,
         \A i \in Reach(h, R) : \A c \in Children(h, i) : c \in D => i \in D
  PROVE  Reach(h, R) \cap D \subseteq Traversed(Unmark(h, D), R)
<1> DEFINE u == Unmark(h, D)
           L == Reach(h, R)
           T == Traversed(u, R)
           E == {e \in Edges(u) : e[2] \notin u.marked}
           S == {i \in L : i \in D => i \in T}
<1>1. u.len = h.len /\ u.slots = h.slots /\ u.marked = h.marked \ D
  BY UnmarkFields
<1>2. L \in SUBSET Ids /\ R \subseteq L /\ \A i \in L : Children(h, i) \subseteq L
  BY ReachClosed
<1>3. \A i \in L : \A c \in Children(h, i) : c \in D => i \in D OBVIOUS
<1> HIDE DEF u, L
<1>4. T \in SUBSET Ids BY TraversedType
<1>5. R \subseteq T BY DEF Traversed, Closure, Closed
<1>6. ASSUME NEW i \in T, NEW c \in Children(h, i), c \in D PROVE c \in T
  <2>1. c \in Ids /\ i \in Ids BY <1>4, <1>6 DEF Children
  <2>2. <<i, c>> \in Edges(u) BY <1>1, <1>6, <2>1 DEF Edges, Children
  <2>3. <<i, c>> \in E BY <1>1, <1>6, <2>2
  <2>4. ASSUME NEW C \in Closed(E, R) PROVE c \in C
    <3>1. i \in C BY <1>6, <2>4 DEF Traversed, Closure
    <3> HIDE DEF E
    <3>2. <<i, c>>[1] \in C => <<i, c>>[2] \in C BY <2>3, <2>4 DEF Closed
    <3>3. QED BY <3>1, <3>2
  <2>5. QED BY <2>1, <2>4 DEF Traversed, Closure
<1> HIDE DEF T
<1>7. S \in SUBSET Ids /\ R \subseteq S BY <1>2, <1>5
<1>8. \A i \in S : Children(h, i) \subseteq S BY <1>2, <1>3, <1>6
<1>9. L \subseteq S
  <2> HIDE DEF S
  <2>1. QED BY <1>7, <1>8, ReachLeast DEF L
<1>10. QED BY <1>9 DEF u, L, T

(* WithinGenerations, and no failed access, of a heap h and the roots R.   *)
Lists(h) ==
  /\ \A i \in Ids : i \in h.young_roots <=> h.mem[i] = "young"
  /\ \A i \in Ids : i \in h.large_roots <=> h.mem[i] = "large"
  /\ \A i \in Ids : h.old_roots[i] = IF h.mem[i] = "old" THEN 1 ELSE 0

Within(h, R) ==
  \A i \in Reach(h, R) : \A c \in Children(h, i) : h.mem[c] = h.mem[i]

Sane(h, R) ==
  /\ h \in HeapType /\ Lists(h) /\ h.faults = {}
  /\ Reach(h, R) \subseteq Usable(h) /\ Within(h, R)

(* The collection that turned h into g kept all that R leads to.           *)
Keeps(h, g, R) ==
  /\ Sane(g, R)
  /\ Reach(g, R) = Reach(h, R)
  /\ \A i \in Reach(h, R) : g.len[i] = h.len[i] /\ g.slots[i] = h.slots[i]

(* Two collections in a row.                                               *)
LEMMA KeepsTwice ==
  ASSUME NEW h, NEW g, NEW k, NEW R, Keeps(h, g, R), Keeps(g, k, R)
  PROVE  Keeps(h, k, R)
BY DEF Keeps

(* A heap that no collection touched.                                      *)
LEMMA KeepsSame ==
  ASSUME NEW h, NEW R, Sane(h, R)
  PROVE  Keeps(h, h, R)
BY DEF Keeps

(* Enough to keep what is reachable: nothing failed, the lists are still   *)
(* those of the generations, and of the reachable arrays none changed and  *)
(* those of one generation are still in one.                               *)
LEMMA KeepsIf ==
  ASSUME NEW h, NEW g \in HeapType, NEW R \in SUBSET Ids, Lists(g), g.faults = {},
         Within(h, R),
         \A i, j \in Reach(h, R) : h.mem[i] = h.mem[j] => g.mem[i] = g.mem[j],
         \A i \in Reach(h, R) : /\ i \in Usable(g)
                                /\ g.len[i] = h.len[i] /\ g.slots[i] = h.slots[i]
  PROVE  Keeps(h, g, R)
<1>1. \A i \in Reach(h, R) : Children(g, i) = Children(h, i) BY DEF Children
<1>2. Reach(g, R) = Reach(h, R) BY <1>1, ReachSame
<1>3. Within(g, R) BY <1>1, <1>2, ReachClosed DEF Within
<1>4. QED BY <1>2, <1>3 DEF Keeps, Sane

(* major_gc() keeps what is reachable, and of the old arrays no others.    *)
LEMMA MajorKeeps ==
  ASSUME NEW h, NEW R \in SUBSET Ids, Sane(h, R)
  PROVE  LET g == major_gc(h, R) IN
         /\ Keeps(h, g, R)
         /\ \A i \in Ids : g.mem[i] = "old" => i \in Reach(h, R)
         /\ \A i \in Ids : g.mem[i] = "large" => h.mem[i] = "large"
<1> DEFINE g      == major_gc(h, R)
           L      == Reach(h, R)
           T      == MajorSeen(h, R)
           listed == OldListed(h)
           kept   == MajorKept(h, R)
           freed  == MajorFreed(h, R)
<1>1. /\ h \in HeapType /\ Lists(h) /\ h.faults = {} /\ L \subseteq Usable(h)
      /\ Within(h, R)
  BY DEF Sane
<1>2. \A i \in Ids :
        /\ g.mem[i] = IF i \in freed THEN "none" ELSE h.mem[i]
        /\ g.len[i] = IF i \in freed THEN 0 ELSE h.len[i]
        /\ g.slots[i] = IF i \in freed THEN NoSlots ELSE h.slots[i]
        /\ g.old_roots[i] = IF i \in kept THEN 1 ELSE 0
  BY <1>1, MajorFields
<1>3. /\ g.young_roots = h.young_roots /\ g.large_roots = h.large_roots
      /\ g.faults = h.faults \cup (Reads(h, T) \ Usable(h)) \cup MajorFailed(h, R)
  BY <1>1, MajorFields
<1>4. g \in HeapType BY <1>1, MajorType
<1>5. T \subseteq L /\ Reads(h, T) \subseteq L
  BY <1>1, SeenReachable DEF MajorSeen
<1>6. listed = {i \in Ids : h.mem[i] = "old"} BY <1>1 DEF OldListed, Lists
<1>7. L \in SUBSET Ids /\ \A i \in L : Children(h, i) \subseteq L BY ReachClosed
<1>8. kept = listed \cap T BY DEF MajorKept
<1>9. freed = listed \ kept
  BY <1>1, <1>6 DEF MajorFreed, Lists
<1>10. MajorFailed(h, R) = {} BY <1>1, <1>6 DEF MajorFailed, Lists
<1>11. L \cap listed \subseteq T
  <2>1. \A i \in L : \A c \in Children(h, i) : c \in listed => i \in listed
    BY <1>1, <1>6, <1>7 DEF Within
  <2>2. QED BY <1>1, <2>1, SeenOwn DEF MajorSeen
<1>12. \A i \in L : i \notin freed BY <1>8, <1>9, <1>11
<1> HIDE DEF g, L, T, listed, kept, freed
<1>13. \A i \in Ids : i \in freed => h.mem[i] = "old" /\ i \notin kept BY <1>6, <1>9
<1>14. \A i \in Ids : g.mem[i] = "old" <=> i \in kept
  BY <1>2, <1>6, <1>8, <1>9, <1>13
<1>15. Lists(g)
  <2>1. \A i \in Ids : i \in g.young_roots <=> g.mem[i] = "young"
    BY <1>1, <1>2, <1>3, <1>13 DEF Lists
  <2>2. \A i \in Ids : i \in g.large_roots <=> g.mem[i] = "large"
    BY <1>1, <1>2, <1>3, <1>13 DEF Lists
  <2>3. \A i \in Ids : g.old_roots[i] = IF g.mem[i] = "old" THEN 1 ELSE 0
    BY <1>2, <1>14
  <2>4. QED BY <2>1, <2>2, <2>3 DEF Lists
<1>16. g.faults = {} BY <1>1, <1>3, <1>5, <1>10
<1>17. \A i \in L : /\ i \in Usable(g) /\ g.mem[i] = h.mem[i]
                    /\ g.len[i] = h.len[i] /\ g.slots[i] = h.slots[i]
  BY <1>1, <1>2, <1>7, <1>12 DEF Usable
<1>18. Keeps(h, g, R) BY <1>1, <1>4, <1>15, <1>16, <1>17, KeepsIf DEF L
<1>19. \A i \in Ids : g.mem[i] = "old" => i \in L BY <1>5, <1>8, <1>14
<1>20. \A i \in Ids : g.mem[i] = "large" => h.mem[i] = "large" BY <1>2
<1>21. QED BY <1>18, <1>19, <1>20 DEF g, L

(* large_gc() keeps what is reachable, and of the large arrays no others.  *)
LEMMA LargeKeeps ==
  ASSUME NEW h, NEW R \in SUBSET Ids, Sane(h, R)
  PROVE  LET g == large_gc(h, R) IN
         /\ Keeps(h, g, R)
         /\ \A i \in Ids : g.mem[i] = "large" => i \in Reach(h, R)
<1> DEFINE g     == large_gc(h, R)
           L     == Reach(h, R)
           T     == LargeSeen(h, R)
           kept  == LargeKept(h, R)
           freed == h.large_roots \ kept
<1>1. /\ h \in HeapType /\ Lists(h) /\ h.faults = {} /\ L \subseteq Usable(h)
      /\ Within(h, R)
  BY DEF Sane
<1>2. \A i \in Ids :
        /\ g.mem[i] = IF i \in freed THEN "none" ELSE h.mem[i]
        /\ g.len[i] = IF i \in freed THEN 0 ELSE h.len[i]
        /\ g.slots[i] = IF i \in freed THEN NoSlots ELSE h.slots[i]
  BY <1>1, LargeFields
<1>3. /\ g.young_roots = h.young_roots /\ g.large_roots = kept
      /\ g.old_roots = h.old_roots
      /\ g.faults = h.faults \cup (Reads(h, T) \ Usable(h))
  BY <1>1, LargeFields
<1>4. g \in HeapType BY <1>1, LargeType
<1>5. T \subseteq L /\ Reads(h, T) \subseteq L
  BY <1>1, SeenReachable DEF LargeSeen
<1>6. h.large_roots \in SUBSET Ids BY <1>1 DEF HeapType
<1>7. LargeOwn(h) = h.large_roots BY <1>1, <1>6 DEF LargeOwn, Lists
<1>8. L \in SUBSET Ids /\ \A i \in L : Children(h, i) \subseteq L BY ReachClosed
<1>9. kept = h.large_roots \cap T BY <1>7 DEF LargeKept
<1>10. L \cap h.large_roots \subseteq T
  <2>1. \A i \in L : \A c \in Children(h, i) : c \in h.large_roots => i \in h.large_roots
    BY <1>1, <1>8 DEF Within, Lists
  <2>2. QED BY <1>1, <1>7, <2>1, SeenOwn DEF LargeSeen
<1>11. \A i \in L : i \notin freed BY <1>9, <1>10
<1> HIDE DEF g, L, T, kept
<1>12. \A i \in Ids : i \in freed => h.mem[i] = "large" /\ i \notin kept
  BY <1>1 DEF Lists
<1>13. Lists(g)
  <2>1. \A i \in Ids : i \in g.young_roots <=> g.mem[i] = "young"
    BY <1>1, <1>2, <1>3, <1>12 DEF Lists
  <2>2. \A i \in Ids : i \in g.large_roots <=> g.mem[i] = "large"
    BY <1>1, <1>2, <1>3, <1>9, <1>12 DEF Lists
  <2>3. \A i \in Ids : g.old_roots[i] = IF g.mem[i] = "old" THEN 1 ELSE 0
    BY <1>1, <1>2, <1>3, <1>12 DEF Lists
  <2>4. QED BY <2>1, <2>2, <2>3 DEF Lists
<1>14. g.faults = {} BY <1>1, <1>3, <1>5
<1>15. \A i \in L : /\ i \in Usable(g) /\ g.mem[i] = h.mem[i]
                    /\ g.len[i] = h.len[i] /\ g.slots[i] = h.slots[i]
  BY <1>1, <1>2, <1>8, <1>11 DEF Usable
<1>16. Keeps(h, g, R) BY <1>1, <1>4, <1>13, <1>14, <1>15, KeepsIf DEF L
<1>17. \A i \in Ids : g.mem[i] = "large" => i \in L
  BY <1>3, <1>5, <1>9, <1>13 DEF Lists
<1>18. QED BY <1>16, <1>17 DEF g, L

(* The evacuation of the arena keeps what is reachable: it moves the       *)
(* reachable young arrays, and nothing else.                               *)
LEMMA EvacuatedKeeps ==
  ASSUME NEW h, NEW R \in SUBSET Ids, Sane(h, R)
  PROVE  Keeps(h, Evacuated(h, R), R)
<1> DEFINE g     == Evacuated(h, R)
           L     == Reach(h, R)
           T     == MinorSeen(h, R)
           young == h.young_roots
           moved == MinorMoved(h, R)
           dead  == young \ moved
<1>1. /\ h \in HeapType /\ Lists(h) /\ h.faults = {} /\ L \subseteq Usable(h)
      /\ Within(h, R)
  BY DEF Sane
<1>2. \A i \in Ids :
        /\ g.mem[i] = IF i \in dead THEN "dangling"
                      ELSE IF i \in moved THEN "old" ELSE h.mem[i]
        /\ g.len[i] = IF i \in dead THEN 0 ELSE h.len[i]
        /\ g.slots[i] = IF i \in dead THEN NoSlots ELSE h.slots[i]
        /\ g.old_roots[i] = h.old_roots[i] + IF i \in moved THEN 1 ELSE 0
  BY <1>1, EvacuatedFields
<1>3. /\ g \in HeapType /\ g.young_roots = {} /\ g.large_roots = h.large_roots
      /\ g.faults = h.faults \cup (Reads(h, T) \ Usable(h)) \cup (moved \ Usable(h))
  BY <1>1, EvacuatedFields
<1>4. T \subseteq L /\ Reads(h, T) \subseteq L
  BY <1>1, SeenReachable DEF MinorSeen, HeapType
<1>5. L \in SUBSET Ids /\ \A i \in L : Children(h, i) \subseteq L BY ReachClosed
<1>6. young \in SUBSET Ids BY <1>1 DEF HeapType
<1>7. \A i \in L : \A c \in Children(h, i) : c \in young <=> i \in young
  BY <1>1, <1>5 DEF Within, Lists
<1>8. young \cap T = young \cap L
  <2>1. L \cap young \subseteq T BY <1>1, <1>7, SeenOwn DEF MinorSeen
  <2>2. QED BY <1>4, <2>1
<1>9. moved = young \cap L
  <2> DEFINE S == young \cap L
  <2>1. S \in SUBSET Ids /\ \A i \in S : Children(h, i) \subseteq S BY <1>5, <1>6, <1>7
  <2>2. moved = Reach(h, S) BY <1>8 DEF MinorMoved
  <2> HIDE DEF S, moved
  <2>3. Reach(h, S) \subseteq S BY <2>1, ReachLeast
  <2>4. S \subseteq Reach(h, S) BY <2>1, ReachClosed
  <2>5. QED BY <2>2, <2>3, <2>4 DEF S
<1> HIDE DEF g, L, T, moved
<1>10. \A i \in Ids : /\ i \in moved => h.mem[i] = "young" /\ h.old_roots[i] = 0
                      /\ i \in dead => h.mem[i] = "young" /\ h.old_roots[i] = 0
                      /\ h.mem[i] = "young" => i \in moved \/ i \in dead
  BY <1>1, <1>9 DEF Lists
<1>11. Lists(g)
  <2>1. \A i \in Ids : g.mem[i] # "young" BY <1>2, <1>10
  <2>2. \A i \in Ids : g.mem[i] = "large" <=> h.mem[i] = "large" BY <1>2, <1>10
  <2>3. \A i \in Ids : g.old_roots[i] = IF g.mem[i] = "old" THEN 1 ELSE 0
    <3>1. \A i \in Ids : h.old_roots[i] = IF h.mem[i] = "old" THEN 1 ELSE 0
      BY <1>1 DEF Lists
    <3>2. QED BY <1>2, <1>10, <3>1
  <2>4. QED BY <1>1, <1>3, <2>1, <2>2, <2>3 DEF Lists
<1>12. g.faults = {} BY <1>1, <1>3, <1>4, <1>9
<1>13. ASSUME NEW i \in L
       PROVE  /\ i \in Usable(g)
              /\ g.mem[i] = IF h.mem[i] = "young" THEN "old" ELSE h.mem[i]
              /\ g.len[i] = h.len[i] /\ g.slots[i] = h.slots[i]
  <2>1. i \in Ids /\ i \in Usable(h) BY <1>1, <1>5
  <2>2. i \notin dead BY <1>9
  <2>3. i \in moved <=> h.mem[i] = "young" BY <1>1, <1>9, <2>1 DEF Lists
  <2>4. /\ g.mem[i] = IF h.mem[i] = "young" THEN "old" ELSE h.mem[i]
        /\ g.len[i] = h.len[i] /\ g.slots[i] = h.slots[i]
    BY <1>2, <2>1, <2>2, <2>3
  <2>5. i \in Usable(g) BY <2>1, <2>4 DEF Usable
  <2>6. QED BY <2>4, <2>5
<1>14. \A i, j \in L : h.mem[i] = h.mem[j] => g.mem[i] = g.mem[j] BY <1>13
<1>15. \A i \in L : i \in Usable(g) /\ g.len[i] = h.len[i] /\ g.slots[i] = h.slots[i]
  BY <1>13
<1>16. Keeps(h, g, R) BY <1>1, <1>3, <1>11, <1>12, <1>14, <1>15, KeepsIf DEF L
<1>17. QED BY <1>16 DEF g

(* minor_gc() keeps what is reachable.                                     *)
LEMMA MinorKeeps ==
  ASSUME NEW h, NEW R \in SUBSET Ids, Sane(h, R)
  PROVE  Keeps(h, minor_gc(h, R), R)
<1> DEFINE r == Evacuated(h, R)
<1>1. Keeps(h, r, R) BY EvacuatedKeeps
<1>2. Sane(r, R) BY <1>1 DEF Keeps
<1> HIDE DEF r
<1>3. Keeps(r, major_gc(r, R), R) BY <1>2, MajorKeeps
<1>4. Keeps(h, major_gc(r, R), R) BY <1>1, <1>3, KeepsTwice
<1>5. QED BY <1>1, <1>4, MinorIs DEF r

(* GC_CALL keeps what is reachable, and outside the arena nothing else.    *)
LEMMA CallKeeps ==
  ASSUME NEW h, NEW R \in SUBSET Ids, Sane(h, R)
  PROVE  Keeps(h, call(h, R), R) /\ OldOrLarge(call(h, R)) \subseteq Reach(h, R)
<1> DEFINE l == large_gc(h, R)
           g == major_gc(l, R)
<1>1. Keeps(h, l, R) /\ \A i \in Ids : l.mem[i] = "large" => i \in Reach(h, R)
  BY LargeKeeps
<1>2. Sane(l, R) /\ Reach(l, R) = Reach(h, R) BY <1>1 DEF Keeps
<1> HIDE DEF l
<1>3. /\ Keeps(l, g, R)
      /\ \A i \in Ids : g.mem[i] = "old" => i \in Reach(l, R)
      /\ \A i \in Ids : g.mem[i] = "large" => l.mem[i] = "large"
  BY <1>2, MajorKeeps
<1>4. call(h, R) = g BY DEF call, l
<1> HIDE DEF g
<1>5. Keeps(h, g, R) BY <1>1, <1>3, KeepsTwice
<1>6. OldOrLarge(g) \subseteq Reach(h, R) BY <1>1, <1>2, <1>3 DEF OldOrLarge
<1>7. QED BY <1>4, <1>5, <1>6

(* The collections alloc_array() starts with keep what is reachable.       *)
LEMMA BeforeAllocKeeps ==
  ASSUME NEW h, NEW R \in SUBSET Ids, NEW n, Sane(h, R)
  PROVE  Keeps(h, BeforeAlloc(h, n, R), R)
<1> DEFINE l == IF Cardinality(h.large_roots) >= LARGE_THRESHOLD
                THEN large_gc(h, R) ELSE h
<1>1. Keeps(h, l, R) BY KeepsSame, LargeKeeps
<1>2. Sane(l, R) BY <1>1 DEF Keeps
<1>3. BeforeAlloc(h, n, R) = IF ~IsLarge(n) /\ ArenaFull(l, n) THEN minor_gc(l, R) ELSE l
  BY DEF BeforeAlloc
<1> HIDE DEF l
<1>4. Keeps(l, minor_gc(l, R), R) BY <1>2, MinorKeeps
<1>5. Keeps(h, minor_gc(l, R), R) BY <1>1, <1>4, KeepsTwice
<1>6. QED BY <1>1, <1>3, <1>5

(* alloc_array() fails nowhere and leaves the reachable arrays as they     *)
(* were and the lists exact, whatever collections it starts with.          *)
LEMMA AllocKeeps ==
  ASSUME NEW h, NEW R \in SUBSET Ids, Sane(h, R), Sound(h), h.allocated \in Ids,
         NEW n \in 0 .. MaxLen
  PROVE  LET a == alloc_array(h, n, R)
             new == h.allocated IN
         /\ a.faults = {} /\ Lists(a) /\ new \in Usable(a) /\ Children(a, new) = {}
         /\ a.allocated = new + 1
         /\ \A i \in Reach(h, R) :
              i \in Usable(a) /\ a.len[i] = h.len[i] /\ a.slots[i] = h.slots[i]
<1> DEFINE g == BeforeAlloc(h, n, R)
           new == h.allocated
           a == alloc_array(h, n, R)
<1>1. h \in HeapType BY DEF Sane
<1>2. Keeps(h, g, R) BY BeforeAllocKeeps
<1>3. Tidied(h, g) BY <1>1, BeforeAllocTidies
<1>4. Allocated(g, new, n, a) BY <1>1, AllocFields
<1>5. g.mem[new] = "none"
  BY <1>1, <1>3 DEF Tidied, Sound, HeapType
<1>6. Reach(h, R) \in SUBSET Ids BY ReachClosed
<1> HIDE DEF g, a
<1>7. a.faults = {} BY <1>2, <1>4 DEF Keeps, Sane, Allocated
<1>8. ASSUME NEW i \in Reach(h, R)
      PROVE  i \in Usable(a) /\ a.len[i] = h.len[i] /\ a.slots[i] = h.slots[i]
  <2>1. i \in Usable(g) /\ g.len[i] = h.len[i] /\ g.slots[i] = h.slots[i]
    BY <1>2, <1>8 DEF Keeps, Sane
  <2>2. i # new BY <1>5, <2>1 DEF Usable
  <2>3. a.mem[i] = g.mem[i] /\ a.len[i] = g.len[i] /\ a.slots[i] = g.slots[i]
    BY <1>4, <1>6, <1>8, <2>2 DEF Allocated
  <2>4. QED BY <2>1, <2>3 DEF Usable
<1>9. /\ new \in Usable(a) /\ a.slots[new] = NoSlots /\ a.len[new] = n
      /\ a.allocated = new + 1
  BY <1>4 DEF Allocated, Usable
<1>10. Children(a, new) = {}
  <2>1. \A k \in 1 .. n : NoSlots[k] = 0 BY HeapAssumption DEF NoSlots, Scalar
  <2>2. 0 \notin Ids BY DEF Ids
  <2>3. QED BY <1>9, <2>1, <2>2 DEF Children
<1>11. Lists(a)
  <2>1. Lists(g) BY <1>2 DEF Keeps, Sane
  <2>2. new \notin g.young_roots /\ new \notin g.large_roots /\ g.old_roots[new] = 0
    BY <1>5, <2>1 DEF Lists
  <2>3. \A i \in Ids : i # new => a.mem[i] = g.mem[i] BY <1>4 DEF Allocated
  <2>4. a.mem[new] = IF IsLarge(n) THEN "large" ELSE "young" BY <1>4 DEF Allocated
  <2>5. /\ a.old_roots = g.old_roots
        /\ a.young_roots = IF IsLarge(n) THEN g.young_roots ELSE g.young_roots \cup {new}
        /\ a.large_roots = IF IsLarge(n) THEN g.large_roots \cup {new} ELSE g.large_roots
    BY <1>4 DEF Allocated
  <2> HIDE DEF new
  <2>6. QED BY <2>1, <2>2, <2>3, <2>4, <2>5 DEF Lists
<1>12. QED BY <1>7, <1>8, <1>9, <1>10, <1>11 DEF a

(* The registers in scope hold arrays or scalars.                          *)
LEMMA RootsAreIds ==
  ASSUME RegistersType
  PROVE  StackRoots \in SUBSET Ids
BY RootOf DEF StackRoots, RegistersType, Value

(* The hypothesis of ExactWithinGenerations, in a consistent heap.         *)
LEMMA WithinIsSane ==
  ASSUME Consistent, WithinGenerations
  PROVE  Sane(heap, StackRoots)
<1>1. heap \in HeapType /\ Sound(heap) /\ heap.faults = {} /\ RegistersType
  BY DEF Consistent, TypeOK
<1>2. Lists(heap)
  BY <1>1 DEF WithinGenerations, ListedOnce, Lists, Sound, HeapType
<1>3. Reach(heap, StackRoots) \subseteq Usable(heap)
  BY DEF WithinGenerations, ReachableUsable
<1>4. Within(heap, StackRoots)
  <2>1. StackRoots \in SUBSET Ids BY <1>1, RootsAreIds
  <2>2. \A i \in Reach(heap, StackRoots) :
          Children(heap, i) \subseteq Reach(heap, StackRoots)
    BY <2>1, ReachClosed
  <2>3. QED BY <1>3, <2>2 DEF WithinGenerations, SameGeneration, Within
<1>5. QED BY <1>1, <1>2, <1>3, <1>4 DEF Sane

(* What ExactWithinGenerations says of a step that collects or faults.     *)
ExactStep ==
  /\ status' # "fault"
  /\ KeepsReachable /\ ListedOnce'
  /\ heap'.allocated = heap.allocated =>
       OldOrLarge(heap') \subseteq Reach(heap, StackRoots)

(* An array operand can be used, and so can every element of it.           *)
LEMMA OperandUsable ==
  ASSUME InWindow, Consistent, ReachableUsable, Executing, NEW a \in RegOps,
         Reg(a) \in Ids
  PROVE  /\ Reg(a) \in Usable(heap)
         /\ \A c \in Children(heap, Reg(a)) : c \in Usable(heap)
<1>1. Reg(a) \in StackRoots
  BY RegIsRoot DEF Consistent, TypeOK, Ids, Scalar
<1>2. StackRoots \in SUBSET Ids BY RootsAreIds DEF Consistent, TypeOK
<1>3. Reach(heap, StackRoots) \subseteq Usable(heap)
  BY DEF ReachableUsable
<1>4. QED BY <1>1, <1>2, <1>3, ReachClosed

(* op_alloc: all that was reachable is there, the new array besides.       *)
LEMMA AllocExact ==
  ASSUME Consistent, WithinGenerations, NEW dst \in RegOps, NEW n \in Lens,
         op_alloc(dst, n)
  PROVE  /\ ExactStep
         /\ SetReg(dst, heap.allocated)
         /\ Children(heap', heap.allocated) = {} /\ heap.allocated \in Usable(heap')
<1> DEFINE h == alloc_array(heap, n, StackRoots)
           new == heap.allocated
<1>1. n \in 0 .. MaxLen BY ArrayVMAssumption
<1>2. StackRoots \in SUBSET Ids BY RootsAreIds DEF Consistent, TypeOK
<1>3. new \in Ids /\ Sound(heap) BY DEF op_alloc, Consistent
<1>4. /\ h.faults = {} /\ Lists(h) /\ new \in Usable(h) /\ Children(h, new) = {}
      /\ h.allocated = new + 1
      /\ \A i \in Reach(heap, StackRoots) :
           i \in Usable(h) /\ h.len[i] = heap.len[i] /\ h.slots[i] = heap.slots[i]
  BY <1>1, <1>2, <1>3, WithinIsSane, AllocKeeps
<1>5. heap' = h /\ SetReg(dst, new) BY <1>4 DEF op_alloc, Faults
<1>6. status = "running" BY DEF op_alloc, Executing
<1>7. new \in Nat BY <1>3 DEF Ids
<1> HIDE DEF h
<1>8. KeepsReachable BY <1>4, <1>5 DEF KeepsReachable, Usable
<1>9. ListedOnce'
  <2>1. heap' \in HeapType BY AllocStepType DEF Consistent, TypeOK
  <2>2. \A i \in h.large_roots : i \in Ids BY <1>5, <2>1 DEF HeapType
  <2>3. QED BY <1>4, <1>5, <2>2 DEF ListedOnce, Lists
<1>10. heap'.allocated # heap.allocated BY <1>4, <1>5, <1>7
<1>11. QED BY <1>4, <1>5, <1>6, <1>8, <1>9, <1>10 DEF SetReg, ExactStep

(* A collection between two instructions.                                  *)
LEMMA GcExact ==
  ASSUME Consistent, WithinGenerations, gc_call
  PROVE  /\ ExactStep
         /\ heap' = call(heap, StackRoots)
         /\ Reach(heap', StackRoots) = Reach(heap, StackRoots)
<1> DEFINE h == call(heap, StackRoots)
<1>1. StackRoots \in SUBSET Ids BY RootsAreIds DEF Consistent, TypeOK
<1>2. Keeps(heap, h, StackRoots) /\ OldOrLarge(h) \subseteq Reach(heap, StackRoots)
  BY <1>1, WithinIsSane, CallKeeps
<1>3. h.faults = {} BY <1>2 DEF Keeps, Sane
<1>4. heap' = h /\ status' = "running" BY <1>3 DEF gc_call, Faults
<1> HIDE DEF h
<1>5. Reach(heap, StackRoots) \subseteq Usable(h) BY <1>2 DEF Keeps, Sane
<1>6. KeepsReachable BY <1>2, <1>4, <1>5 DEF Keeps, KeepsReachable, Usable
<1>7. ListedOnce' BY <1>2, <1>4 DEF Keeps, Sane, Lists, ListedOnce, HeapType
<1>8. QED BY <1>2, <1>4, <1>6, <1>7 DEF ExactStep, Keeps, h

(* The instructions that read and write arrays find them in place.         *)
LEMMA AccessesExact ==
  ASSUME InWindow, Consistent, ReachableUsable
  PROVE  /\ \A dst, arr \in RegOps, idx \in Indices :
              op_arrget(dst, arr, idx) => heap' = heap /\ status' # "fault"
         /\ \A arr, src \in RegOps, idx \in Indices :
              op_arrset(arr, idx, src) => ~Collects /\ status' # "fault"
         /\ \A r \in RegOps : cote_len(r) => heap' = heap /\ status' # "fault"
<1>1. ASSUME NEW dst \in RegOps, NEW arr \in RegOps, NEW idx \in Indices,
             op_arrget(dst, arr, idx)
      PROVE  heap' = heap /\ status' # "fault"
  <2> DEFINE a == Reg(arr)
             v == heap.slots[a][idx + 1]
  <2>1. Executing /\ status = "running" BY <1>1 DEF op_arrget, Executing
  <2>2. a \in Ids => a \in Usable(heap) BY <2>1, OperandUsable
  <2>3. CASE Throw /\ UNCHANGED heap BY <2>3 DEF Throw
  <2>4. CASE a \in Ids /\ InBounds(heap, a, idx)
    <3>1. idx + 1 \in 1 .. heap.len[a]
      <4>1. idx \in Int BY ArrayVMAssumption
      <4>2. heap.len[a] \in 0 .. MaxLen BY <2>4 DEF Consistent, TypeOK, HeapType
      <4>3. QED BY <2>4, <4>1, <4>2, HeapAssumption DEF InBounds
    <3>2. v \in Ids => v \in Children(heap, a) BY <3>1 DEF Children
    <3>3. v \notin Ids \ Usable(heap) BY <2>1, <2>4, <3>2, OperandUsable
    <3>4. SetReg(dst, v) /\ UNCHANGED heap BY <1>1, <2>2, <2>4, <3>3 DEF op_arrget
    <3>5. QED BY <2>1, <3>4 DEF SetReg
  <2>5. QED BY <1>1, <2>2, <2>3, <2>4 DEF op_arrget
<1>2. ASSUME NEW arr \in RegOps, NEW src \in RegOps, NEW idx \in Indices,
             op_arrset(arr, idx, src)
      PROVE  ~Collects /\ status' # "fault"
  <2> DEFINE a == Reg(arr)
             slots == [heap.slots EXCEPT ![a][idx + 1] = Reg(src)]
  <2>1. Executing /\ status = "running" BY <1>2 DEF op_arrset, Executing
  <2>2. a \in Ids => a \in Usable(heap) BY <2>1, OperandUsable
  <2>3. CASE Throw /\ UNCHANGED heap BY <2>3 DEF Throw, Collects
  <2>4. CASE heap' = [heap EXCEPT !.slots[a][idx + 1] = Reg(src)] /\ UNCHANGED regVars
    <3>1. heap \in HeapType BY DEF Consistent, TypeOK
    <3>2. heap' = [heap EXCEPT !.slots = slots] BY <2>4, <3>1 DEF HeapType
    <3> HIDE DEF slots
    <3>3. ~Collects BY <3>1, <3>2 DEF HeapType, Collects
    <3>4. QED BY <2>1, <2>4, <3>3 DEF regVars
  <2>5. QED BY <1>2, <2>2, <2>3, <2>4 DEF op_arrset
<1>3. ASSUME NEW r \in RegOps, cote_len(r)
      PROVE  heap' = heap /\ status' # "fault"
  <2>1. Executing /\ status = "running" BY <1>3 DEF cote_len, Executing
  <2>2. Reg(r) \in Ids => Reg(r) \in Usable(heap) BY <2>1, OperandUsable
  <2>3. QED BY <1>3, <2>1, <2>2 DEF cote_len, Throw, SetReg
<1>4. QED BY <1>1, <1>2, <1>3

(* The instructions that leave the heap alone do not fault.                *)
LEMMA RegisterStepExact ==
  ASSUME RegisterStep
  PROVE  heap' = heap /\ status' # "fault"
BY DEF RegisterStep, RegistersNext, op_move, op_scalar, op_call, call_main, op_return,
       op_returnnil, op_halt, Executing, SetReg, Throw, PushFrame, PopFrame

(* Every step of the machine.                                              *)
LEMMA StepExact ==
  ASSUME InWindow, Consistent, WithinGenerations, Next
  PROVE  status' # "fault" /\ (Collects => ExactStep)
<1>1. ReachableUsable BY DEF WithinGenerations
<1>2. heap' = heap => ~Collects BY DEF Collects
<1>3. CASE gc_call BY <1>3, GcExact DEF ExactStep
<1>4. CASE \E dst \in RegOps, n \in Lens : op_alloc(dst, n)
  BY <1>4, AllocExact DEF ExactStep
<1>5. CASE \E dst, arr \in RegOps, idx \in Indices : op_arrget(dst, arr, idx)
  BY <1>1, <1>2, <1>5, AccessesExact
<1>6. CASE \E arr, src \in RegOps, idx \in Indices : op_arrset(arr, idx, src)
  BY <1>1, <1>6, AccessesExact
<1>7. CASE \E r \in RegOps : cote_len(r) BY <1>1, <1>2, <1>7, AccessesExact
<1>8. CASE type_error BY <1>2, <1>8 DEF type_error, Throw
<1>9. CASE RegisterStep BY <1>2, <1>9, RegisterStepExact
<1>10. QED BY <1>3, <1>4, <1>5, <1>6, <1>7, <1>8, <1>9 DEF Next

(* As long as no reachable array refers to one of another generation and   *)
(* each is listed once, whatever graph they form: no step of a program     *)
(* whose operands lie in the window of its frame faults, a collection      *)
(* leaves every reachable array as it was and lists none twice, and        *)
(* gc_call leaves nothing unreachable outside the arena.                   *)
THEOREM ExactAlways == InWindow => (Spec => ExactWithinGenerations)
<1> SUFFICES ASSUME InWindow PROVE Spec => ExactWithinGenerations OBVIOUS
<1> DEFINE Step == (Collects \/ status' = "fault") /\ WithinGenerations => ExactStep
<1>1. Consistent /\ [Next]_vars => Consistent' BY StepIsGood
<1>2. Init => Consistent BY InitConsistent
<1>3. Consistent /\ [Next]_vars => [Step]_vars BY StepExact
<1> HIDE DEF Step
<1>4. Spec => [][Step]_vars BY <1>1, <1>2, <1>3, PTL DEF Spec
<1>5. QED BY <1>4 DEF ExactWithinGenerations, Step, ExactStep
===============================================================================
