---------------------------- MODULE ResourcePool ----------------------------
(***************************************************************************)
(* What CDataManager promises, without lists, handles or memory: a set of  *)
(* resources that are cached, dropped and then destroyed, each once, and a *)
(* count of locks that keeps a resource from being dropped unless a caller *)
(* asks for that.                                                          *)
(***************************************************************************)
EXTENDS Naturals

CONSTANT Item

VARIABLES cached,    \* resources a handle leads to
          locks,     \* [Item -> Nat], the lock counts
          dropped,   \* resources no longer cached, whose storage still exists
          destroyed, \* resources whose storage is gone
          forced     \* a caller has broken locks or flushed locked resources

poolVars == <<cached, locks, dropped, destroyed, forced>>

Init ==
  /\ cached = {} /\ dropped = {} /\ destroyed = {}
  /\ locks = [x \in Item |-> 0]
  /\ forced = FALSE

Create(x, n) ==
  /\ x \notin cached \cup dropped \cup destroyed
  /\ n \in {0, 1}
  /\ cached' = cached \cup {x}
  /\ locks' = [locks EXCEPT ![x] = n]
  /\ UNCHANGED <<dropped, destroyed, forced>>

Lock(x) ==
  /\ x \in cached
  /\ locks' = [locks EXCEPT ![x] = @ + 1]
  /\ UNCHANGED <<cached, dropped, destroyed, forced>>

Unlock(x) ==
  /\ x \in cached /\ locks[x] > 0
  /\ locks' = [locks EXCEPT ![x] = @ - 1]
  /\ UNCHANGED <<cached, dropped, destroyed, forced>>

\* Only unlocked resources leave, unless a caller forces it.
Drop(S) ==
  /\ S \subseteq cached /\ S # {}
  /\ (\A x \in S : locks[x] = 0) \/ forced'
  /\ forced => forced'
  /\ cached' = cached \ S
  /\ dropped' = dropped \cup S
  /\ locks' = [x \in Item |-> IF x \in S THEN 0 ELSE locks[x]]
  /\ UNCHANGED destroyed

BreakLocks(S) ==
  /\ S \subseteq cached
  /\ locks' = [x \in Item |-> IF x \in S THEN 0 ELSE locks[x]]
  /\ forced' = TRUE
  /\ UNCHANGED <<cached, dropped, destroyed>>

Destroy(x) ==
  /\ x \in dropped
  /\ dropped' = dropped \ {x}
  /\ destroyed' = destroyed \cup {x}
  /\ UNCHANGED <<cached, locks, forced>>

Next ==
  \/ \E x \in Item : Lock(x) \/ Unlock(x) \/ Destroy(x) \/ \E n \in {0, 1} : Create(x, n)
  \/ \E S \in SUBSET Item : Drop(S) \/ BreakLocks(S)

Spec == Init /\ [][Next]_poolVars

=============================================================================
