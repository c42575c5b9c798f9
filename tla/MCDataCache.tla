---------------------------- MODULE MCDataCache ----------------------------
(* Items of one byte, which UpdateSize may make two. *)
EXTENDS DataCache, TLC
OneEach == [x \in Item |-> 1]
Two == {2}
Symmetry == Permutations(Thread) \cup Permutations(Item)

\* Bound: two locks of clients or open frames at a time, one once two size changes crossed.
Holds == Cardinality({h \in Thread \X Item : holds[h[1]][h[2]] > 0})
FewLocks == Holds + Cardinality(FramesInUse) <= IF crossed THEN 1 ELSE 2
=============================================================================
