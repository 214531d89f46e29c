------------------------------ MODULE Flat_proofs ------------------------------
(***************************************************************************)
(* Safety of the collector for programs that store only scalars into       *)
(* arrays: for every value of the constants, the registers in scope hold   *)
(* usable arrays and no access faults.  In a flat heap marking visits      *)
(* exactly the roots, so each collection frees exactly the unreachable     *)
(* arrays of its list; and the frames nest, so that a register a return    *)
(* brings back into scope was a root all along.                            *)
(***************************************************************************)
EXTENDS ArrayVM_proofs

(* The elements of a flat heap lead to no array.                           *)
LEMMA FlatChildren ==
  ASSUME NEW h \in HeapType, FlatHeap(h), NEW i \in Ids
  PROVE  Children(h, i) = {}
<1>1. h.slots[i] = NoSlots /\ h.len[i] \in 0 .. MaxLen BY DEF FlatHeap, HeapType
<1>2. \A k \in 1 .. h.len[i] : h.slots[i][k] = 0
  BY <1>1, HeapAssumption DEF NoSlots, Scalar
<1>3. 0 \notin Ids BY DEF Ids
<1>4. QED BY <1>2, <1>3 DEF Children

(* A flat heap has no edges.                                               *)
LEMMA FlatEdges ==
  ASSUME NEW h \in HeapType, FlatHeap(h)
  PROVE  Edges(h) = {}
BY FlatChildren DEF Edges

(* The closure of a set under no edges is that set.                        *)
LEMMA FlatClosure ==
  ASSUME NEW R \in SUBSET Ids
  PROVE  Closure({}, R) = R
BY DEF Closure, Closed

(* In a flat heap marking visits exactly the roots.                        *)
LEMMA FlatTraversed ==
  ASSUME NEW h \in HeapType, FlatHeap(h), NEW R \in SUBSET Ids
  PROVE  Traversed(h, R) = R
<1>1. {e \in Edges(h) : e[2] \notin h.marked} = {} BY FlatEdges
<1>2. QED BY <1>1, FlatClosure DEF Traversed

(* In a flat heap nothing but the roots is reachable.                      *)
LEMMA FlatReach ==
  ASSUME NEW h \in HeapType, FlatHeap(h), NEW R \in SUBSET Ids
  PROVE  Reach(h, R) = R
BY FlatEdges, FlatClosure DEF Reach

-----------------------------------------------------------------------------
(* A collection of a flat heap leaves a flat heap in which the roots are   *)
(* still usable.                                                           *)
Collected(g, h, R) ==
  /\ g \in HeapType /\ FlatHeap(g)
  /\ R \subseteq Usable(g)
  /\ g.allocated = h.allocated

(* Clearing marks keeps a heap flat.                                       *)
LEMMA FlatUnmark ==
  ASSUME NEW h \in HeapType, FlatHeap(h), NEW D
  PROVE  FlatHeap(Unmark(h, D)) /\ Usable(Unmark(h, D)) = Usable(h)
BY UnmarkFields DEF FlatHeap, Usable

(* Marking a flat heap from usable roots marks exactly them and faults on  *)
(* nothing.                                                                *)
LEMMA FlatMark ==
  ASSUME NEW h \in HeapType, FlatHeap(h), NEW R, R \subseteq Usable(h)
  PROVE  /\ FlatHeap(mark(h, R)) /\ Usable(mark(h, R)) = Usable(h)
         /\ mark(h, R).marked = h.marked \cup R
<1> DEFINE m == mark(h, R)
<1>1. R \in SUBSET Ids BY DEF Usable
<1>2. Traversed(h, R) = R BY <1>1, FlatTraversed
<1>3. \A i \in R : Children(h, i) = {} BY <1>1, FlatChildren
<1>4. Reads(h, R) = R BY <1>3 DEF Reads
<1>5. m.faults = {} BY <1>2, <1>4, MarkFields DEF FlatHeap
<1>6. QED BY <1>2, <1>5, MarkFields DEF FlatHeap, Usable

(* major_gc() keeps a flat heap flat and every root usable.                *)
LEMMA FlatMajor ==
  ASSUME NEW h \in HeapType, FlatHeap(h), NEW R, R \subseteq Usable(h)
  PROVE  Collected(major_gc(h, R), h, R)
<1> DEFINE listed == OldListed(h)
           u      == Unmark(h, listed)
           m      == mark(u, R)
           kept   == listed \cap m.marked
           freed  == {i \in listed : i \notin kept \/ h.old_roots[i] > 1}
           failed == {i \in listed : \/ h.mem[i] = "none"
                                     \/ h.old_roots[i] > IF i \in kept THEN 2 ELSE 1}
           d      == Discard(m, freed, "none")
           s      == Unmark(d, kept)
           counts == [i \in Ids |-> IF i \in kept THEN 1 ELSE 0]
           g      == major_gc(h, R)
<1>1. listed = {i \in Ids : h.mem[i] = "old"} BY DEF OldListed, FlatHeap
<1>2. u \in HeapType /\ FlatHeap(u) /\ R \subseteq Usable(u)
      /\ u.marked = h.marked \ listed
      /\ u.mem = h.mem
  BY UnmarkType, FlatUnmark, UnmarkFields
<1>3. m \in HeapType /\ FlatHeap(m) /\ m.marked = u.marked \cup R
      /\ m.mem = u.mem /\ m.old_roots = u.old_roots
      /\ m.allocated = u.allocated
  BY <1>2, MarkType, FlatMark, MarkFields
<1>4. kept = listed \cap R BY <1>2, <1>3
<1>5. freed = listed \ R BY <1>4, <1>1 DEF FlatHeap
<1>6. failed = {} BY <1>1 DEF FlatHeap
<1>7. d \in HeapType BY <1>3, DiscardType DEF Places
<1>8. s \in HeapType /\ s.mem = d.mem /\ s.slots = d.slots /\ s.faults = d.faults
      /\ s.young_roots = d.young_roots /\ s.large_roots = d.large_roots
      /\ s.allocated = d.allocated
  BY <1>7, UnmarkType, UnmarkFields
<1>9. g = [s EXCEPT !.old_roots = counts, !.faults = @ \cup failed]
  BY DEF major_gc
<1>10. counts \in [Ids -> Nat] OBVIOUS
<1> HIDE DEF counts, g, s, failed
<1>11. /\ g.mem = s.mem /\ g.slots = s.slots /\ g.faults = s.faults
       /\ g.young_roots = s.young_roots /\ g.large_roots = s.large_roots
       /\ g.allocated = s.allocated /\ g.old_roots = counts
  BY <1>6, <1>8, <1>9, <1>10 DEF HeapType
<1>12. \A i \in Ids : /\ g.mem[i] = IF i \in freed THEN "none" ELSE h.mem[i]
                      /\ g.slots[i] = NoSlots
  <2> HIDE DEF freed, kept, listed
  <2>1. ASSUME NEW i \in Ids
        PROVE  /\ d.mem[i] = IF i \in freed THEN "none" ELSE m.mem[i]
               /\ d.slots[i] = IF i \in freed THEN NoSlots ELSE m.slots[i]
    BY <1>3, DiscardRemoves
  <2>2. \A i \in Ids : m.slots[i] = NoSlots BY <1>3 DEF FlatHeap
  <2>3. QED BY <1>2, <1>3, <1>8, <1>11, <2>1, <2>2
<1>13. /\ g.young_roots = m.young_roots /\ g.large_roots = m.large_roots
       /\ g.allocated = h.allocated /\ g.faults = {}
  <2>1. u.allocated = h.allocated BY UnmarkFields
  <2>2. m.faults = {} BY <1>3 DEF FlatHeap
  <2>3. QED BY <1>3, <1>8, <1>11, <2>1, <2>2, DiscardKeeps
<1>14. \A i \in Ids : g.old_roots[i] = IF g.mem[i] = "old" THEN 1 ELSE 0
  BY <1>1, <1>4, <1>5, <1>11, <1>12 DEF counts
<1>15. /\ g.young_roots = {i \in Ids : g.mem[i] = "young"}
       /\ g.large_roots = {i \in Ids : g.mem[i] = "large"}
  <2>1. m.young_roots = {i \in Ids : h.mem[i] = "young"}
        /\ m.large_roots = {i \in Ids : h.mem[i] = "large"}
    BY <1>2, <1>3 DEF FlatHeap
  <2>2. QED BY <1>1, <1>5, <1>12, <1>13, <2>1
<1>16. FlatHeap(g)
  <2>1. \A i \in Ids : i >= g.allocated => g.mem[i] = "none"
    BY <1>12, <1>13 DEF FlatHeap
  <2>2. QED BY <1>12, <1>13, <1>14, <1>15, <2>1 DEF FlatHeap
<1>17. R \subseteq Usable(g) BY <1>5, <1>12 DEF Usable
<1>18. QED BY <1>13, <1>16, <1>17, MajorType DEF Collected, g

(* large_gc() keeps a flat heap flat and every root usable.                *)
LEMMA FlatLarge ==
  ASSUME NEW h \in HeapType, FlatHeap(h), NEW R, R \subseteq Usable(h)
  PROVE  Collected(large_gc(h, R), h, R)
<1> DEFINE own   == {i \in h.large_roots : h.mem[i] = "large"}
           u     == Unmark(h, own)
           m     == mark(u, R)
           kept  == own \cap m.marked
           freed == h.large_roots \ kept
           d     == Discard(m, freed, "none")
           s     == Unmark(d, kept)
           g     == large_gc(h, R)
<1>1. own = {i \in Ids : h.mem[i] = "large"} /\ own = h.large_roots BY DEF FlatHeap
<1>2. u \in HeapType /\ FlatHeap(u) /\ R \subseteq Usable(u)
      /\ u.marked = h.marked \ own /\ u.mem = h.mem
      /\ u.allocated = h.allocated
  BY UnmarkType, FlatUnmark, UnmarkFields
<1>3. m \in HeapType /\ FlatHeap(m) /\ m.marked = u.marked \cup R
      /\ m.mem = u.mem /\ m.allocated = u.allocated
  BY <1>2, MarkType, FlatMark, MarkFields, ZenonT(60)
<1>4. kept = own \cap R BY <1>2, <1>3
<1>5. freed = own \ R BY <1>4, <1>1
<1>6. d \in HeapType BY <1>3, DiscardType DEF Places
<1>7. s \in HeapType /\ s.mem = d.mem /\ s.slots = d.slots /\ s.faults = d.faults
      /\ s.young_roots = d.young_roots /\ s.old_roots = d.old_roots
      /\ s.allocated = d.allocated
  BY <1>6, UnmarkType, UnmarkFields
<1>8. g = [s EXCEPT !.large_roots = kept] BY DEF large_gc
<1>9. \A i \in Ids : /\ d.mem[i] = IF i \in freed THEN "none" ELSE m.mem[i]
                     /\ d.slots[i] = IF i \in freed THEN NoSlots ELSE m.slots[i]
  <2> HIDE DEF freed, m
  <2>1. QED BY <1>3, DiscardRemoves
<1>10. /\ d.young_roots = m.young_roots /\ d.old_roots = m.old_roots
       /\ d.allocated = m.allocated /\ d.faults = m.faults
  BY <1>3, DiscardKeeps
<1> HIDE DEF own, u, m, kept, freed, d, g, s
<1>11. /\ g.mem = s.mem /\ g.slots = s.slots /\ g.faults = s.faults
       /\ g.young_roots = s.young_roots /\ g.old_roots = s.old_roots
       /\ g.allocated = s.allocated /\ g.large_roots = kept
  BY <1>7, <1>8 DEF HeapType
<1>12. \A i \in Ids : /\ g.mem[i] = IF i \in freed THEN "none" ELSE h.mem[i]
                      /\ g.slots[i] = NoSlots
  BY <1>2, <1>3, <1>7, <1>9, <1>11 DEF FlatHeap
<1>13. g.allocated = h.allocated /\ g.faults = {}
  BY <1>2, <1>3, <1>7, <1>10, <1>11 DEF FlatHeap
<1>14. \A i \in Ids : g.old_roots[i] = IF g.mem[i] = "old" THEN 1 ELSE 0
  BY <1>1, <1>2, <1>3, <1>5, <1>7, <1>10, <1>11, <1>12 DEF FlatHeap
<1>15. g.young_roots = {i \in Ids : g.mem[i] = "young"}
  BY <1>1, <1>2, <1>3, <1>5, <1>7, <1>10, <1>11, <1>12 DEF FlatHeap
<1>16. g.large_roots = {i \in Ids : g.mem[i] = "large"}
  BY <1>1, <1>4, <1>5, <1>11, <1>12
<1>17. FlatHeap(g)
  <2>1. \A i \in Ids : i >= g.allocated => g.mem[i] = "none"
    BY <1>12, <1>13 DEF FlatHeap
  <2>2. QED BY <1>12, <1>13, <1>14, <1>15, <1>16, <2>1 DEF FlatHeap
<1>18. R \subseteq Usable(g) BY <1>1, <1>5, <1>12 DEF Usable
<1>19. QED BY <1>13, <1>17, <1>18, LargeType DEF Collected, g

(* The arena after minor_gc: the live young arrays are old, the dead ones  *)
(* dangle, everything else is where it was.                                *)
LEMMA FlatRebind ==
  ASSUME NEW m \in HeapType, FlatHeap(m), NEW heads, heads \subseteq m.young_roots
  PROVE  LET b == rebind_mem(m, heads) IN
         /\ b \in HeapType
         /\ \A i \in Ids : b.mem[i] = IF i \in heads THEN "old" ELSE m.mem[i]
         /\ \A i \in Ids : b.old_roots[i] = m.old_roots[i] + IF i \in heads THEN 1 ELSE 0
         /\ b.slots = m.slots /\ b.large_roots = m.large_roots
         /\ b.allocated = m.allocated /\ b.faults = {}
<1> DEFINE mem    == [i \in Ids |-> IF i \in heads THEN "old" ELSE m.mem[i]]
           counts == [i \in Ids |-> m.old_roots[i] + IF i \in heads THEN 1 ELSE 0]
           u      == Unmark(m, LoopHeads(m, heads))
           b      == rebind_mem(m, heads)
<1>1. heads \in SUBSET Ids /\ heads \subseteq Usable(m) BY DEF FlatHeap, Usable
<1>2. Moved(m, heads) = heads BY <1>1, FlatReach DEF Moved
<1>3. /\ u \in HeapType /\ u.mem = m.mem /\ u.old_roots = m.old_roots
      /\ u.slots = m.slots /\ u.large_roots = m.large_roots
      /\ u.allocated = m.allocated /\ u.faults = {}
  BY UnmarkType, UnmarkFields DEF FlatHeap
<1>4. b = [u EXCEPT !.mem = mem, !.old_roots = counts, !.faults = @ \cup {}]
  BY <1>1, <1>2, <1>3 DEF rebind_mem
<1>5. mem \in [Ids -> Places] /\ counts \in [Ids -> Nat] BY DEF HeapType, Places
<1> HIDE DEF mem, counts, u
<1>6. /\ b.mem = mem /\ b.old_roots = counts
      /\ b.slots = m.slots /\ b.large_roots = m.large_roots
      /\ b.allocated = m.allocated /\ b.faults = {}
  BY <1>3, <1>4, <1>5 DEF HeapType
<1> HIDE DEF b
<1>7. QED BY <1>6, RebindType DEF b, mem, counts

(* minor_gc() keeps a flat heap flat and every root usable.                *)
LEMMA FlatMinor ==
  ASSUME NEW h \in HeapType, FlatHeap(h), NEW R, R \subseteq Usable(h)
  PROVE  Collected(minor_gc(h, R), h, R)
<1> DEFINE young == h.young_roots
           u     == Unmark(h, young)
           m     == mark(u, R)
           heads == young \cap m.marked
           dead  == young \ Moved(m, heads)
           b     == rebind_mem(m, heads)
           d     == Discard(b, dead, "dangling")
           r     == release(b, dead)
<1>1. young = {i \in Ids : h.mem[i] = "young"} BY DEF FlatHeap
<1>2. u \in HeapType /\ FlatHeap(u) /\ R \subseteq Usable(u)
      /\ u.marked = h.marked \ young /\ u.mem = h.mem
      /\ u.allocated = h.allocated
  BY UnmarkType, FlatUnmark, UnmarkFields
<1>3. m \in HeapType /\ FlatHeap(m) /\ m.marked = u.marked \cup R
      /\ m.mem = u.mem /\ m.allocated = u.allocated
  BY <1>2, MarkType, FlatMark, MarkFields
<1>4. heads = young \cap R BY <1>2, <1>3
<1>5. heads \in SUBSET Ids /\ heads \subseteq m.young_roots
  BY <1>1, <1>2, <1>3 DEF FlatHeap
<1>6. Moved(m, heads) = heads BY <1>3, <1>5, FlatReach DEF Moved
<1>7. dead = young \ R BY <1>4, <1>6
<1>8. /\ b \in HeapType
      /\ \A i \in Ids : b.mem[i] = IF i \in heads THEN "old" ELSE m.mem[i]
      /\ \A i \in Ids : b.old_roots[i] = m.old_roots[i] + IF i \in heads THEN 1 ELSE 0
      /\ b.slots = m.slots /\ b.large_roots = m.large_roots
      /\ b.allocated = m.allocated /\ b.faults = {}
  <2> HIDE DEF m, heads
  <2>1. QED BY <1>3, <1>5, FlatRebind
<1>9. d \in HeapType /\ d.old_roots = b.old_roots /\ d.large_roots = b.large_roots
      /\ d.allocated = b.allocated /\ d.faults = b.faults
  BY <1>8, DiscardType, DiscardKeeps DEF Places
<1>10. \A i \in Ids : /\ d.mem[i] = IF i \in dead THEN "dangling" ELSE b.mem[i]
                      /\ d.slots[i] = IF i \in dead THEN NoSlots ELSE b.slots[i]
  <2> HIDE DEF dead, b
  <2>1. QED BY <1>8, DiscardRemoves
<1>11. r = [d EXCEPT !.young_roots = {}, !.used = 0] BY DEF release
<1>12. r \in HeapType BY <1>8, ReleaseType
<1>13. minor_gc(h, R) = IF OldCount(r) >= MAJOR_THRESHOLD THEN major_gc(r, R) ELSE r
  BY DEF minor_gc
<1> HIDE DEF young, u, m, heads, dead, b, d, r
<1>14. /\ r.mem = d.mem /\ r.slots = d.slots /\ r.old_roots = d.old_roots
       /\ r.large_roots = d.large_roots /\ r.allocated = h.allocated
       /\ r.faults = {} /\ r.young_roots = {}
  BY <1>2, <1>3, <1>8, <1>9, <1>11 DEF HeapType
<1>15. \A i \in Ids :
         /\ r.mem[i] = IF i \in young
                       THEN IF i \in R THEN "old" ELSE "dangling"
                       ELSE h.mem[i]
         /\ r.slots[i] = NoSlots
         /\ r.old_roots[i] = IF i \in heads THEN 1 ELSE IF h.mem[i] = "old" THEN 1 ELSE 0
  <2>1. ASSUME NEW i \in Ids
        PROVE r.mem[i] = IF i \in young
                       THEN IF i \in R THEN "old" ELSE "dangling"
                       ELSE h.mem[i]
    BY <1>2, <1>3, <1>4, <1>7, <1>8, <1>10, <1>14
  <2>2. ASSUME NEW i \in Ids PROVE r.slots[i] = NoSlots
    BY <1>3, <1>8, <1>10, <1>14 DEF FlatHeap
  <2>3. ASSUME NEW i \in Ids
        PROVE r.old_roots[i] = IF i \in heads THEN 1 ELSE IF h.mem[i] = "old" THEN 1 ELSE 0
    <3>1. m.old_roots[i] = IF h.mem[i] = "old" THEN 1 ELSE 0
      BY <1>2, <1>3 DEF FlatHeap
    <3>2. i \in heads => h.mem[i] = "young" BY <1>1, <1>4
    <3>3. r.old_roots[i] = m.old_roots[i] + IF i \in heads THEN 1 ELSE 0
      BY <1>8, <1>9, <1>14
    <3>4. QED BY <3>1, <3>2, <3>3
  <2>4. QED BY <2>1, <2>2, <2>3
<1>16. \A i \in Ids : r.old_roots[i] = IF r.mem[i] = "old" THEN 1 ELSE 0
  BY <1>1, <1>4, <1>15
<1>17. r.large_roots = {i \in Ids : r.mem[i] = "large"}
  <2>1. r.large_roots = {i \in Ids : h.mem[i] = "large"}
    BY <1>2, <1>3, <1>8, <1>9, <1>14 DEF FlatHeap
  <2>2. QED BY <1>1, <1>15, <2>1
<1>18. {i \in Ids : r.mem[i] = "young"} = {} BY <1>1, <1>15
<1>19. \A i \in Ids : i >= r.allocated => r.mem[i] = "none"
  BY <1>1, <1>14, <1>15 DEF FlatHeap
<1>20. FlatHeap(r) BY <1>14, <1>15, <1>16, <1>17, <1>18, <1>19 DEF FlatHeap
<1>21. R \subseteq Usable(r) BY <1>1, <1>15 DEF Usable
<1>22. QED
  BY <1>12, <1>13, <1>14, <1>20, <1>21, FlatMajor DEF Collected

(* GC_CALL keeps a flat heap flat and every root usable.                   *)
LEMMA FlatCall ==
  ASSUME NEW h \in HeapType, FlatHeap(h), NEW R, R \subseteq Usable(h)
  PROVE  Collected(call(h, R), h, R)
BY FlatLarge, FlatMajor DEF call, Collected

(* The collections alloc_array makes first keep a flat heap flat and every *)
(* root usable.                                                            *)
LEMMA FlatBeforeAlloc ==
  ASSUME NEW h \in HeapType, FlatHeap(h), NEW n, NEW R, R \subseteq Usable(h)
  PROVE  Collected(BeforeAlloc(h, n, R), h, R)
BY FlatLarge, FlatMinor DEF BeforeAlloc, Collected
-----------------------------------------------------------------------------
(* Allocation adds one usable array and keeps the heap flat.               *)
LEMMA NewArrayFields ==
  ASSUME NEW h \in HeapType, h.allocated \in Ids,
         NEW n \in 0 .. MaxLen, NEW place \in Places
  PROVE  LET a == NewArray(h, n, place) IN
         /\ a \in HeapType
         /\ a.mem = [h.mem EXCEPT ![h.allocated] = place]
         /\ a.slots = [h.slots EXCEPT ![h.allocated] = NoSlots]
         /\ a.young_roots = h.young_roots /\ a.large_roots = h.large_roots
         /\ a.old_roots = h.old_roots /\ a.faults = h.faults
         /\ a.allocated = h.allocated + 1 /\ a.used = h.used
<1> DEFINE i     == h.allocated
           mem   == [h.mem EXCEPT ![i] = place]
           marks == h.marked \cup {i}
           len   == [h.len EXCEPT ![i] = n]
           slots == [h.slots EXCEPT ![i] = NoSlots]
           next  == i + 1
           a     == NewArray(h, n, place)
<1>1. a = [h EXCEPT !.mem = mem, !.marked = marks, !.len = len, !.slots = slots,
                    !.allocated = next]
  BY DEF NewArray, HeapType
<1> HIDE DEF mem, marks, len, slots, next, a
<1>2. /\ a.mem = mem /\ a.slots = slots
      /\ a.young_roots = h.young_roots /\ a.large_roots = h.large_roots
      /\ a.old_roots = h.old_roots /\ a.faults = h.faults
      /\ a.allocated = next /\ a.used = h.used
  BY <1>1 DEF HeapType
<1>3. QED BY <1>2, NewArrayType DEF a, mem, slots, next

(* alloc_array() keeps a flat heap flat, keeps every root usable and       *)
(* returns a usable array.                                                 *)
LEMMA FlatAlloc ==
  ASSUME NEW h \in HeapType, h.allocated \in Ids, FlatHeap(h),
         NEW n \in 0 .. MaxLen, NEW R, R \subseteq Usable(h)
  PROVE  LET a == alloc_array(h, n, R) IN
         /\ FlatHeap(a)
         /\ R \cup {h.allocated} \subseteq Usable(a)
<1> DEFINE g     == BeforeAlloc(h, n, R)
           i     == h.allocated
           place == IF IsLarge(n) THEN "large" ELSE "young"
           w     == NewArray(g, n, place)
           a     == alloc_array(h, n, R)
<1>1. g \in HeapType /\ FlatHeap(g) /\ R \subseteq Usable(g) /\ g.allocated = i
  BY FlatBeforeAlloc DEF Collected
<1>2. w \in HeapType /\ w.mem = [g.mem EXCEPT ![i] = place]
      /\ w.slots = [g.slots EXCEPT ![i] = NoSlots]
      /\ w.young_roots = g.young_roots /\ w.large_roots = g.large_roots
      /\ w.old_roots = g.old_roots /\ w.faults = g.faults
      /\ w.allocated = i + 1 /\ w.used = g.used
  <2> HIDE DEF g, place
  <2>1. place \in Places BY DEF Places, place
  <2>2. QED BY <1>1, <2>1, NewArrayFields
<1>3. a = IF IsLarge(n)
          THEN [w EXCEPT !.large_roots = @ \cup {i}]
          ELSE [w EXCEPT !.young_roots = @ \cup {i}, !.used = @ + n + 1]
  BY <1>1 DEF alloc_array, alloc_large, alloc_young
<1> HIDE DEF a, w, g
<1>4. /\ a.mem = w.mem /\ a.slots = w.slots /\ a.old_roots = w.old_roots
      /\ a.faults = w.faults /\ a.allocated = w.allocated
      /\ a.young_roots = IF IsLarge(n) THEN w.young_roots ELSE w.young_roots \cup {i}
      /\ a.large_roots = IF IsLarge(n) THEN w.large_roots \cup {i} ELSE w.large_roots
  BY <1>2, <1>3 DEF HeapType
<1>5. g.mem[i] = "none" BY <1>1 DEF FlatHeap, Ids
<1>6. \A j \in Ids : /\ a.mem[j] = IF j = i THEN place ELSE g.mem[j]
                     /\ a.slots[j] = NoSlots
  BY <1>1, <1>2, <1>4, SMTT(30) DEF HeapType, FlatHeap
<1>7. \A j \in Ids : a.old_roots[j] = IF a.mem[j] = "old" THEN 1 ELSE 0
  BY <1>1, <1>2, <1>4, <1>5, <1>6 DEF FlatHeap
<1>8. a.young_roots = {j \in Ids : a.mem[j] = "young"}
  BY <1>1, <1>2, <1>4, <1>5, <1>6 DEF FlatHeap
<1>9. a.large_roots = {j \in Ids : a.mem[j] = "large"}
  BY <1>1, <1>2, <1>4, <1>5, <1>6 DEF FlatHeap
<1>10. \A j \in Ids : j >= a.allocated => a.mem[j] = "none"
  BY <1>1, <1>2, <1>4, <1>6 DEF FlatHeap, Ids
<1>11. a.faults = {} BY <1>1, <1>2, <1>4 DEF FlatHeap
<1>12. FlatHeap(a) BY <1>6, <1>7, <1>8, <1>9, <1>10, <1>11 DEF FlatHeap
<1>13. R \cup {i} \subseteq Usable(a) BY <1>1, <1>5, <1>6 DEF Usable
<1>14. QED BY <1>12, <1>13 DEF a
-----------------------------------------------------------------------------
(* Registers: what each instruction does to the roots and to the frames.   *)
(* Writing a register adds at most the written value to the roots.         *)
LEMMA SetRegRoots ==
  ASSUME RegistersType, NEW a \in RegOps, NEW v \in Value, SetReg(a, v)
  PROVE  StackRoots' \subseteq StackRoots \cup ({v} \ {Scalar})
<1>1. get_sp' = get_sp BY DEF SetReg, get_sp
<1>2. ASSUME NEW r \in 0 .. get_sp - 1
      PROVE  stack'[r] = stack[r] \/ stack'[r] = v
  BY <1>2, RootOf DEF SetReg, RegistersType
<1>3. QED BY <1>1, <1>2 DEF StackRoots

(* A call brings no new array into scope: what its window covers beyond    *)
(* the arguments is nil.                                                   *)
LEMMA PushFrameRoots ==
  ASSUME RegistersType, NEW b \in Nat, NEW c \in Nat, PushFrame(b, c),
         fp + b + c <= get_sp
  PROVE  StackRoots' \subseteq StackRoots
<1>1. fp' = fp + b /\ fp' \in Nat /\ fp \in Nat BY DEF PushFrame, RegistersType, Bases
<1>2. get_sp' = fp' + MaxStack
  BY DEF PushFrame, get_sp, RegistersType
<1>3. ASSUME NEW r \in 0 .. get_sp' - 1
      PROVE  stack'[r] = Scalar \/ stack'[r] \in StackRoots
  <2>1. r \in Cells
    BY <1>1, <1>2, <1>3, RegistersAssumption
    DEF PushFrame, Bases, Fits, Cells
  <2>2. CASE r >= fp' + c
    <3>1. r \in fp + b + c .. fp + b + MaxStack - 1
      BY <1>1, <1>2, <1>3, <2>2, RegistersAssumption
    <3>2. QED BY <2>1, <3>1 DEF PushFrame
  <2>3. CASE r < fp' + c
    <3>1. r \in 0 .. get_sp - 1
      BY <1>1, <1>3, <2>3, RegistersAssumption DEF get_sp, RegistersType, Bases, Cells
    <3>2. stack'[r] = stack[r]
      BY <1>1, <2>1, <2>3 DEF PushFrame, Cells
    <3>3. QED BY <3>1, <3>2, RootOf
  <2>4. QED BY <1>1, <2>1, <2>2, <2>3 DEF Cells
<1>4. QED BY <1>3 DEF StackRoots

(* A call keeps the frames nested.                                         *)
LEMMA PushFrameNests ==
  ASSUME RegistersType, FramesNest, NEW b \in Nat, NEW c, PushFrame(b, c)
  PROVE  FramesNest'
<1>1. fp' = fp + b /\ fp \in Nat BY DEF PushFrame, RegistersType, Bases
<1>2. call_stack \in Seq(Nat) BY DEF RegistersType, Bases
<1>3. call_stack' = <<fp>> \o call_stack BY DEF PushFrame
<1>4. /\ Len(call_stack') = Len(call_stack) + 1
      /\ call_stack'[1] = fp
      /\ \A k \in 2 .. Len(call_stack') : call_stack'[k] = call_stack[k - 1]
  BY <1>1, <1>2, <1>3
<1>5. \A k \in 1 .. Len(call_stack) : call_stack[k] \in Nat BY <1>2
<1>6. ASSUME NEW k \in 1 .. Len(call_stack') PROVE call_stack'[k] <= fp
  <2>1. CASE k = 1 BY <1>1, <1>4, <2>1
  <2>2. CASE k # 1
    <3>1. k - 1 \in 1 .. Len(call_stack) BY <1>2, <1>4, <2>2
    <3>2. QED BY <1>4, <2>2, <3>1 DEF FramesNest
  <2>3. QED BY <2>1, <2>2
<1>7. ASSUME NEW j \in 1 .. Len(call_stack'), NEW k \in 1 .. Len(call_stack'), j < k
      PROVE  call_stack'[k] <= call_stack'[j]
  <2>1. CASE j = 1 BY <1>4, <1>6, <2>1
  <2>2. CASE j # 1
    <3>1. j - 1 \in 1 .. Len(call_stack) /\ k - 1 \in 1 .. Len(call_stack)
      BY <1>2, <1>4, <1>7, <2>2
    <3>2. call_stack[k - 1] <= call_stack[j - 1] BY <1>7, <3>1 DEF FramesNest
    <3>3. QED BY <1>4, <1>7, <2>2, <3>2
  <2>3. QED BY <2>1, <2>2
<1>8. ASSUME NEW k \in 1 .. Len(call_stack') PROVE call_stack'[k] <= fp'
  <2>1. call_stack'[k] \in Nat BY <1>1, <1>2, <1>3, <1>8
  <2>2. QED BY <1>1, <1>6, <2>1
<1>9. QED BY <1>7, <1>8 DEF FramesNest

(* A return brings no new array into scope but its result, and keeps the   *)
(* frames nested.                                                          *)
LEMMA PopFrameRoots ==
  ASSUME RegistersType, Executing, FramesNest,
         NEW v \in Value, v \in StackRoots \cup {Scalar}, PopFrame(v)
  PROVE  StackRoots' \subseteq StackRoots /\ FramesNest'
<1>1. /\ fp' = call_stack[1] /\ call_stack' = Tail(call_stack)
      /\ call_stack \in Seq(Nat) /\ Len(call_stack) >= 1
      /\ fp \in Nat /\ fp' \in Nat
  BY DEF PopFrame, RegistersType, Executing, Bases
<1>2. fp' <= fp BY <1>1 DEF FramesNest
<1>3. get_sp' <= get_sp /\ get_sp' \in Nat /\ get_sp \in Nat
  BY <1>1, <1>2, RegistersAssumption DEF get_sp, Executing
<1>4. ASSUME NEW r \in 0 .. get_sp' - 1
      PROVE  stack'[r] = Scalar \/ stack'[r] \in StackRoots
  <2>1. r \in 0 .. get_sp - 1
    BY <1>1, <1>2, <1>4, RegistersAssumption DEF get_sp, Executing
  <2>2. stack'[r] = stack[r] \/ stack'[r] = v
    BY <2>1, RootOf DEF PopFrame, RegistersType
  <2>3. QED BY <2>1, <2>2, RootOf
<1>5. StackRoots' \subseteq StackRoots BY <1>4 DEF StackRoots
<1>6. /\ Len(call_stack') = Len(call_stack) - 1
      /\ \A k \in 1 .. Len(call_stack') : call_stack'[k] = call_stack[k + 1]
  BY <1>1
<1>7. ASSUME NEW k \in 1 .. Len(call_stack') PROVE call_stack'[k] <= fp'
  <2>1. 1 \in 1 .. Len(call_stack) /\ k + 1 \in 1 .. Len(call_stack) /\ 1 < k + 1
    BY <1>1, <1>6
  <2>2. QED BY <1>1, <1>6, <2>1 DEF FramesNest
<1>8. ASSUME NEW j \in 1 .. Len(call_stack'), NEW k \in 1 .. Len(call_stack'), j < k
      PROVE  call_stack'[k] <= call_stack'[j]
  <2>1. j + 1 \in 1 .. Len(call_stack) /\ k + 1 \in 1 .. Len(call_stack) /\ j + 1 < k + 1
    BY <1>1, <1>6, <1>8
  <2>2. QED BY <1>6, <2>1 DEF FramesNest
<1>9. QED BY <1>5, <1>7, <1>8 DEF FramesNest

(* No instruction that leaves the heap alone brings an array into scope    *)
(* that was not; the frames stay nested.                                   *)
LEMMA RegisterStepRoots ==
  ASSUME InWindow, RegistersType, FramesNest, RegistersNext
  PROVE  StackRoots' \subseteq StackRoots /\ FramesNest' /\ status' # "fault"
<1> DEFINE Good == StackRoots' \subseteq StackRoots /\ FramesNest' /\ status' # "fault"
<1>1. Scalar \in Value BY IdsAreValues
<1>2. ASSUME Executing, NEW a \in RegOps, NEW v \in Value,
             v \in StackRoots \cup {Scalar}, SetReg(a, v)
      PROVE  Good
  BY <1>2, SetRegRoots DEF SetReg, FramesNest, Executing
<1>3. ASSUME NEW dst \in RegOps, NEW src \in RegOps, op_move(dst, src)
      PROVE  Good
  <2>1. Reg(src) \in Value /\ Reg(src) \in StackRoots \cup {Scalar}
    BY <1>3, RegInStack, RegIsRoot DEF op_move
  <2>2. QED BY <1>2, <1>3, <2>1 DEF op_move
<1>4. ASSUME NEW dst \in RegOps, op_scalar(dst) PROVE Good
  BY <1>1, <1>2, <1>4 DEF op_scalar
<1>5. ASSUME NEW b \in RegOps, NEW c \in 0 .. MaxArgs, NEW arity \in 0 .. MaxArgs,
             op_call(b, c, arity)
      PROVE  Good
  <2>1. CASE Throw BY <2>1 DEF Throw, StackRoots, get_sp, FramesNest
  <2>2. CASE PushFrame(b, c) /\ UNCHANGED status
    <3>1. b \in Nat /\ c \in Nat BY RegistersAssumption DEF RegOps
    <3>2. fp + b + c <= get_sp
      BY <1>5, <3>1, RegistersAssumption
      DEF op_call, InWindow, get_sp, Executing, RegistersType, Bases
    <3>3. status' # "fault" BY <1>5, <2>2 DEF op_call, Executing
    <3>4. QED BY <2>2, <3>1, <3>2, <3>3, PushFrameRoots, PushFrameNests
  <2>3. QED BY <1>5, <2>1, <2>2 DEF op_call
<1>6. CASE call_main
  <2>1. PushFrame(0, 0) /\ status' # "fault" BY <1>6 DEF call_main
  <2>2. fp + 0 + 0 <= get_sp
    BY RegistersAssumption DEF get_sp, RegistersType, Bases
  <2>3. QED BY <2>1, <2>2, PushFrameRoots, PushFrameNests
<1>7. ASSUME Executing, NEW v \in Value, v \in StackRoots \cup {Scalar}, PopFrame(v)
      PROVE  Good
  BY <1>7, PopFrameRoots DEF PopFrame, Executing
<1>8. ASSUME NEW r \in RegOps, op_return(r) PROVE Good
  <2>1. Reg(r) \in Value /\ Reg(r) \in StackRoots \cup {Scalar}
    BY <1>8, RegInStack, RegIsRoot DEF op_return
  <2>2. QED BY <1>7, <1>8, <2>1 DEF op_return
<1>9. CASE op_returnnil BY <1>1, <1>7, <1>9 DEF op_returnnil
<1>10. CASE op_halt BY <1>10 DEF op_halt, StackRoots, get_sp, FramesNest
<1>11. QED BY <1>3, <1>4, <1>5, <1>6, <1>8, <1>9, <1>10 DEF RegistersNext

-----------------------------------------------------------------------------
(* The steps of the machine.                                               *)
FlatProgram == StoresArrays = FALSE /\ InWindow

Safe == TypeOK /\ FlatInv

(* A step that leaves the heap alone and brings no new array into scope.   *)
LEMMA RootsShrink ==
  ASSUME Safe, UNCHANGED heap, FramesNest', status' # "fault",
         StackRoots' \subseteq StackRoots
  PROVE  FlatInv'
BY DEF Safe, FlatInv, RootsUsable, FlatHeap, Usable

(* Raising a runtime_error keeps the invariant.                            *)
LEMMA ThrowSafe ==
  ASSUME Safe, Throw, UNCHANGED heap
  PROVE  FlatInv'
<1>1. FramesNest' BY DEF Safe, FlatInv, FramesNest, Throw
<1>2. StackRoots' = StackRoots BY DEF Throw, StackRoots, get_sp
<1>3. QED BY <1>1, <1>2, RootsShrink DEF Throw

(* Writing a root or a scalar to a register keeps the invariant.           *)
LEMMA SetRegSafe ==
  ASSUME Safe, UNCHANGED heap, NEW a \in RegOps, NEW v \in Value,
         v \in StackRoots \cup {Scalar}, SetReg(a, v)
  PROVE  FlatInv'
<1>1. FramesNest' BY DEF Safe, FlatInv, FramesNest, SetReg
<1>2. StackRoots' \subseteq StackRoots BY SetRegRoots DEF Safe, TypeOK
<1>3. status' # "fault" BY DEF SetReg, Safe, FlatInv
<1>4. QED BY <1>1, <1>2, <1>3, RootsShrink

(* Every instruction that leaves the heap alone keeps the invariant.       *)
LEMMA RegisterStepSafe ==
  ASSUME InWindow, Safe, RegisterStep
  PROVE  FlatInv'
BY RegisterStepRoots, RootsShrink DEF Safe, TypeOK, FlatInv, RegisterStep

(* op_alloc, with the collection it may run, keeps the invariant.          *)
LEMMA AllocSafe ==
  ASSUME Safe, NEW dst \in RegOps, NEW n \in Lens, op_alloc(dst, n)
  PROVE  FlatInv'
<1> DEFINE h == alloc_array(heap, n, StackRoots)
           i == heap.allocated
<1>1. n \in 0 .. MaxLen BY ArrayVMAssumption
<1>2. heap \in HeapType /\ i \in Ids /\ FlatHeap(heap) /\ StackRoots \subseteq Usable(heap)
      /\ RegistersType
  BY DEF Safe, TypeOK, FlatInv, RootsUsable, op_alloc
<1>3. FlatHeap(h) /\ StackRoots \cup {i} \subseteq Usable(h)
  BY <1>1, <1>2, FlatAlloc
<1>4. h.faults = {} BY <1>3 DEF FlatHeap
<1>5. heap' = h /\ SetReg(dst, i) BY <1>4 DEF op_alloc, Faults
<1> HIDE DEF h
<1>6. StackRoots' \subseteq StackRoots \cup {i}
  BY <1>2, <1>5, SetRegRoots, IdsAreValues
<1>7. FramesNest' /\ status' # "fault"
  BY <1>5 DEF Safe, FlatInv, FramesNest, SetReg
<1>8. QED BY <1>3, <1>5, <1>6, <1>7 DEF FlatInv, RootsUsable, FlatHeap, Usable

(* An array operand of an instruction can be used.                         *)
LEMMA UsableReg ==
  ASSUME InWindow, Safe, Executing, NEW a \in RegOps
  PROVE  Reg(a) \in Ids => Reg(a) \in Usable(heap)
<1>1. Reg(a) \in StackRoots \/ Reg(a) = Scalar BY RegIsRoot DEF Safe, TypeOK
<1>2. QED BY <1>1 DEF Safe, FlatInv, RootsUsable, Ids, Scalar

(* op_arrget keeps the invariant.                                          *)
LEMMA GetSafe ==
  ASSUME InWindow, Safe, NEW dst \in RegOps, NEW arr \in RegOps, NEW idx \in Indices,
         op_arrget(dst, arr, idx)
  PROVE  FlatInv'
<1> DEFINE a == Reg(arr)
           v == heap.slots[a][idx + 1]
<1>1. a \in Ids => a \in Usable(heap) BY UsableReg DEF op_arrget
<1>2. CASE Throw /\ UNCHANGED heap BY <1>2, ThrowSafe
<1>3. CASE a \in Ids /\ InBounds(heap, a, idx)
  <2>1. idx + 1 \in 1 .. MaxLen
    <3>1. idx \in Int BY ArrayVMAssumption
    <3>2. heap.len[a] \in 0 .. MaxLen BY <1>3 DEF Safe, TypeOK, HeapType
    <3>3. QED BY <1>3, <3>1, <3>2, HeapAssumption DEF InBounds
  <2>2. heap.slots[a] = NoSlots BY <1>3 DEF Safe, FlatInv, FlatHeap
  <2>3. v = Scalar BY <2>1, <2>2 DEF NoSlots
  <2>4. SetReg(dst, v) /\ UNCHANGED heap
    <3>1. v \notin Ids BY <2>3 DEF Ids, Scalar
    <3>2. QED BY <1>1, <1>3, <3>1 DEF op_arrget
  <2>5. SetReg(dst, Scalar) BY <2>3, <2>4
  <2>6. QED BY <2>4, <2>5, SetRegSafe, IdsAreValues
<1>4. QED BY <1>1, <1>2, <1>3 DEF op_arrget

(* op_arrset of a scalar keeps the invariant.                              *)
LEMMA SetSafe ==
  ASSUME FlatProgram, Safe, NEW arr \in RegOps, NEW idx \in Indices, NEW src \in RegOps,
         op_arrset(arr, idx, src)
  PROVE  FlatInv'
<1> DEFINE a == Reg(arr)
<1>1. a \in Ids => a \in Usable(heap) BY UsableReg DEF op_arrset, FlatProgram
<1>2. CASE Throw /\ UNCHANGED heap BY <1>2, ThrowSafe
<1>3. CASE /\ a \in Ids
           /\ heap' = [heap EXCEPT !.slots[a][idx + 1] = Reg(src)]
           /\ UNCHANGED regVars
  <2>1. Reg(src) = Scalar BY DEF op_arrset, FlatProgram
  <2>2. heap.slots[a] = NoSlots BY <1>3 DEF Safe, FlatInv, FlatHeap
  <2>3. [heap.slots[a] EXCEPT ![idx + 1] = Scalar] = heap.slots[a]
    BY <2>2 DEF NoSlots
  <2>4. heap' = [heap EXCEPT !.slots = [@ EXCEPT ![a] = heap.slots[a]]]
    BY <1>3, <2>1, <2>3
  <2>5. heap' = heap BY <1>3, <2>4 DEF Safe, TypeOK, HeapType
  <2>6. StackRoots' = StackRoots /\ FramesNest' /\ status' # "fault"
    BY <1>3 DEF regVars, StackRoots, get_sp, Safe, FlatInv, FramesNest
  <2>7. QED BY <2>5, <2>6, RootsShrink
<1>4. QED BY <1>1, <1>2, <1>3 DEF op_arrset

(* len() keeps the invariant.                                              *)
LEMMA LenSafe ==
  ASSUME InWindow, Safe, NEW r \in RegOps, cote_len(r)
  PROVE  FlatInv'
<1>1. Reg(r) \in Ids => Reg(r) \in Usable(heap) BY UsableReg DEF cote_len
<1>2. CASE Throw /\ UNCHANGED heap BY <1>2, ThrowSafe
<1>3. CASE SetReg(r, Scalar) /\ UNCHANGED heap BY <1>3, SetRegSafe, IdsAreValues
<1>4. QED BY <1>1, <1>2, <1>3 DEF cote_len

(* A collection between two instructions keeps the invariant.              *)
LEMMA GcSafe ==
  ASSUME Safe, gc_call
  PROVE  FlatInv'
<1> DEFINE h == call(heap, StackRoots)
<1>1. Collected(h, heap, StackRoots)
  BY FlatCall DEF Safe, TypeOK, FlatInv, RootsUsable
<1>2. FlatHeap(h) /\ StackRoots \subseteq Usable(h) BY <1>1 DEF Collected
<1>3. h.faults = {} BY <1>2 DEF FlatHeap
<1>4. heap' = h /\ UNCHANGED regVars BY <1>3 DEF gc_call, Faults, regVars
<1> HIDE DEF h
<1>5. StackRoots' = StackRoots /\ FramesNest' /\ status' # "fault"
  BY <1>4 DEF regVars, StackRoots, get_sp, Safe, FlatInv, FramesNest
<1>6. QED BY <1>2, <1>4, <1>5 DEF FlatInv, RootsUsable, FlatHeap, Usable

(* Every step of the machine keeps the invariant.                          *)
LEMMA StepSafe ==
  ASSUME FlatProgram, Safe, [Next]_vars
  PROVE  Safe'
<1>1. TypeOK' BY StepType DEF Safe
<1>2. FlatInv'
  <2> USE DEF FlatProgram
  <2>1. CASE UNCHANGED vars
    <3>1. StackRoots' = StackRoots /\ FramesNest' /\ status' # "fault"
      BY <2>1 DEF vars, StackRoots, get_sp, Safe, FlatInv, FramesNest
    <3>2. QED BY <2>1, <3>1, RootsShrink DEF vars
  <2>2. CASE \E dst \in RegOps, n \in Lens : op_alloc(dst, n) BY <2>2, AllocSafe
  <2>3. CASE \E dst, arr \in RegOps, idx \in Indices : op_arrget(dst, arr, idx)
    BY <2>3, GetSafe
  <2>4. CASE \E arr, src \in RegOps, idx \in Indices : op_arrset(arr, idx, src)
    BY <2>4, SetSafe
  <2>5. CASE \E r \in RegOps : cote_len(r) BY <2>5, LenSafe
  <2>6. CASE type_error BY <2>6, ThrowSafe DEF type_error
  <2>7. CASE gc_call BY <2>7, GcSafe
  <2>8. CASE RegisterStep BY <2>8, RegisterStepSafe
  <2>9. QED BY <2>1, <2>2, <2>3, <2>4, <2>5, <2>6, <2>7, <2>8 DEF Next
<1>3. QED BY <1>1, <1>2 DEF Safe

(* The machine starts in the invariant.                                    *)
LEMMA InitSafe ==
  ASSUME Init
  PROVE  Safe
<1>1. heap = EmptyHeap /\ RegistersInit BY DEF Init
<1>2. get_sp = 0 BY <1>1 DEF RegistersInit, get_sp
<1>3. StackRoots = {} BY <1>2 DEF StackRoots
<1>4. FramesNest BY <1>1 DEF RegistersInit, FramesNest
<1>5. FlatHeap(heap) BY <1>1 DEF EmptyHeap, FlatHeap
<1>6. status # "fault" BY <1>1 DEF RegistersInit
<1>7. QED BY <1>3, <1>4, <1>5, <1>6, InitType DEF Safe, FlatInv, RootsUsable

(* In a program that stores only scalars into arrays and whose operands    *)
(* lie in the window get_sp() covers, no interleaving of allocations,      *)
(* calls, returns and collections frees or loses an array that a register  *)
(* in scope holds, the root lists stay exact, and no access ever faults.   *)
THEOREM FlatSafe == FlatProgram => (Spec => []FlatInv)
<1> SUFFICES ASSUME FlatProgram PROVE Spec => []FlatInv OBVIOUS
<1>1. Init => Safe BY InitSafe
<1>2. Safe /\ [Next]_vars => Safe' BY StepSafe
<1>3. Safe => FlatInv BY DEF Safe
<1>4. QED BY <1>1, <1>2, <1>3, PTL DEF Spec

(* The same for RootsUsable by itself: what the collections of heap.h      *)
(* promise the registers of such a program.                                *)
THEOREM RootsSafe == FlatProgram => (Spec => []RootsUsable)
<1> SUFFICES ASSUME FlatProgram PROVE Spec => []RootsUsable OBVIOUS
<1>1. FlatInv => RootsUsable BY DEF FlatInv
<1>2. Spec => []FlatInv BY FlatSafe
<1>3. QED BY <1>1, <1>2, PTL
===============================================================================
