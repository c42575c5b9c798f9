--------------------------- MODULE MCDataManager ---------------------------
EXTENDS DataManager, TLC
OneEach == [x \in Item |-> 1]
Symmetry == Permutations(Thread) \cup Permutations(Item)
SizesMC == {1, 3}
TargetsMC == {1}
PurgeMC == {1}
=============================================================================
