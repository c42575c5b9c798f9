-------------------------- MODULE ThreadPoolProofs --------------------------
(***************************************************************************)
(* Proofs about the job queues and the thread pool. First, Pop of a        *)
(* CJobQueue finds the item it took off the count, whatever the number of  *)
(* threads, queues, jobs and priorities: QInv is inductive. Threads that   *)
(* look for an item and items that lie in the queues are counted per       *)
(* priority, up to it. Then the pool, for any numbers of workers, clients, *)
(* jobs and priorities: it uses its queues as JobQueue says, and no job is *)
(* executed or aborted twice. The last part is about the state of the pool *)
(* between its steps: what a thread can be at and for which operation, how *)
(* the workers are suspended and resumed, and where the references of a    *)
(* job are held.                                                           *)
(***************************************************************************)
EXTENDS ThreadPool, FiniteSums, SequenceTheorems

\* The items of a queue are finitely many: the part QInv has to be strengthened by.
FinitelyMany == \A q \in Queue : IsFiniteSet(Places(q, TopPriority))

IInv == QInv /\ FinitelyMany

-----------------------------------------------------------------------------
(* The counted sets *)

\* A place is a priority and an index into its queue.
LEMMA PlacesDef ==
  ASSUME NEW q, NEW p, NEW x
  PROVE  x \in Places(q, p) <=>
           \E i \in 0 .. p : \E k \in 1 .. Len(items[q][i]) : x = <<i, k>>
BY DEF Places

\* The places up to a priority are among all, so they are finitely many too.
LEMMA PlacesFinite ==
  ASSUME FinitelyMany, NEW q \in Queue, NEW p \in -1 .. TopPriority
  PROVE  IsFiniteSet(Places(q, p)) /\ Cardinality(Places(q, p)) \in Nat
<1>1. Places(q, p) \subseteq Places(q, TopPriority)
  <2>1. 0 .. p \subseteq 0 .. TopPriority
    BY PriorityAssumption
  <2>2. QED
    BY <2>1, PlacesDef
<1>2. IsFiniteSet(Places(q, TopPriority))
  BY DEF FinitelyMany
<1>3. QED
  BY <1>1, <1>2, FS_Subset, FS_CardinalityType

\* The sets of threads are finite.
LEMMA ThreadsFinite ==
  ASSUME NEW q, NEW p
  PROVE  /\ IsFiniteSet(Scanners(q, p)) /\ Cardinality(Scanners(q, p)) \in Nat
         /\ IsFiniteSet(Counters(q)) /\ Cardinality(Counters(q)) \in Nat
<1>1. Scanners(q, p) \subseteq Thread /\ Counters(q) \subseteq Thread
  BY DEF Scanners, Counters
<1>2. QED
  BY <1>1, ThreadAssumption, FS_Subset, FS_CardinalityType

\* And so they are in the next state.
LEMMA ThreadsFiniteNext ==
  ASSUME NEW q, NEW p
  PROVE  /\ IsFiniteSet(Scanners(q, p)') /\ Cardinality(Scanners(q, p)') \in Nat
         /\ IsFiniteSet(Counters(q)') /\ Cardinality(Counters(q)') \in Nat
<1>1. Scanners(q, p)' \subseteq Thread /\ Counters(q)' \subseteq Thread
  BY DEF Scanners, Counters
<1>2. QED
  BY <1>1, ThreadAssumption, FS_Subset, FS_CardinalityType

\* What one more, or one less, does to the number of elements.
LEMMA OneMore ==
  ASSUME NEW S, IsFiniteSet(S), NEW x, x \notin S
  PROVE  /\ IsFiniteSet(S \cup {x})
         /\ Cardinality(S \cup {x}) = Cardinality(S) + 1
BY FS_AddElement

\* A finite set without one of its elements.
LEMMA OneLess ==
  ASSUME NEW S, IsFiniteSet(S), NEW x \in S
  PROVE  /\ IsFiniteSet(S \ {x})
         /\ Cardinality(S \ {x}) = Cardinality(S) - 1
BY FS_RemoveElement

\* The values of access are told apart by where the thread is.
LEMMA AccessKinds ==
  ASSUME NEW q, NEW r, NEW p
  PROVE  /\ Outside.at = "outside"
         /\ Counting(q).at = "counting" /\ Counting(q).queue = q
         /\ Scanning(q, p).at = "scanning" /\ Scanning(q, p).queue = q
         /\ Scanning(q, p).priority = p
         /\ Outside # Counting(q) /\ Scanning(q, p) # Counting(r)
         /\ Outside # Scanning(q, p)
BY DEF Outside, Counting, Scanning

\* What a thread inside Push or Pop is at.
LEMMA AccessCases ==
  ASSUME QTypeOK, NEW t \in Thread
  PROVE  /\ access[t].at = "counting" =>
              \E q \in Queue : access[t] = Counting(q)
         /\ access[t].at = "scanning" =>
              \E q \in Queue : \E p \in -1 .. TopPriority : access[t] = Scanning(q, p)
<1>1. \/ access[t] = Outside
      \/ \E q \in Queue : access[t] = Counting(q)
      \/ \E q \in Queue : \E p \in -1 .. TopPriority : access[t] = Scanning(q, p)
  BY DEF QTypeOK, Whereabouts
<1>2. QED
  BY <1>1, AccessKinds

-----------------------------------------------------------------------------
(* What the queues and the threads of the next state are *)

\* A place more, at its priority.
LEMMA PlacesPushed ==
  ASSUME QTypeOK, NEW q \in Queue, NEW l \in Priority, NEW j \in Job,
         items' = [items EXCEPT ![q][l] = Append(@, j)],
         NEW r \in Queue, NEW p \in -1 .. TopPriority
  PROVE  LET new == <<l, Len(items[q][l]) + 1>>
         IN  /\ new \notin Places(q, p)
             /\ Places(r, p)' = IF r = q /\ l <= p THEN Places(r, p) \cup {new}
                                ELSE Places(r, p)
<1> DEFINE new == <<l, Len(items[q][l]) + 1>>
<1>1. /\ \A i \in Priority : items[r][i] \in Seq(Job) /\ items[q][i] \in Seq(Job)
      /\ 0 .. p \subseteq Priority
  BY PriorityAssumption DEF QTypeOK, Priority
<1>2. \A i \in Priority :
        Len(items'[r][i]) = IF r = q /\ i = l THEN Len(items[r][i]) + 1 ELSE Len(items[r][i])
  <2> SUFFICES ASSUME NEW i \in Priority
               PROVE  Len(items'[r][i]) = IF r = q /\ i = l THEN Len(items[r][i]) + 1
                                          ELSE Len(items[r][i])
    OBVIOUS
  <2>1. CASE r = q /\ i = l
    <3>1. items'[r][i] = Append(items[q][l], j)
      BY <2>1 DEF QTypeOK
    <3>2. QED
      BY <1>1, <2>1, <3>1
  <2>2. CASE ~(r = q /\ i = l)
    <3>1. items'[r][i] = items[r][i]
      BY <2>2 DEF QTypeOK
    <3>2. QED
      BY <2>2, <3>1
  <2>3. QED
    BY <2>1, <2>2
<1>3. new \notin Places(q, p)
  <2> SUFFICES ASSUME new \in Places(q, p)
               PROVE  FALSE
    OBVIOUS
  <2>1. PICK i \in 0 .. p : \E k \in 1 .. Len(items[q][i]) : new = <<i, k>>
    BY PlacesDef
  <2>1a. PICK k \in 1 .. Len(items[q][i]) : new = <<i, k>>
    BY <2>1
  <2>2. QED
    BY <1>1, <2>1a
<1>4. ASSUME NEW x
      PROVE  x \in Places(r, p)' <=>
               \E i \in 0 .. p : \E k \in 1 .. Len(items'[r][i]) : x = <<i, k>>
  BY DEF Places
<1>5. CASE r = q /\ l <= p
  <2>1. ASSUME NEW x \in Places(r, p)'
        PROVE  x \in Places(r, p) \cup {new}
    <3>1. PICK i \in 0 .. p : \E k \in 1 .. Len(items'[r][i]) : x = <<i, k>>
      BY <1>4
    <3>1a. PICK k \in 1 .. Len(items'[r][i]) : x = <<i, k>>
      BY <3>1
    <3>2. \/ k \in 1 .. Len(items[r][i])
          \/ i = l /\ k = Len(items[r][i]) + 1
      BY <1>1, <1>2, <3>1a
    <3>3. QED
      BY <1>5, <3>1a, <3>2, PlacesDef
  <2>2. ASSUME NEW x \in Places(r, p)
        PROVE  x \in Places(r, p)'
    <3>1. PICK i \in 0 .. p : \E k \in 1 .. Len(items[r][i]) : x = <<i, k>>
      BY PlacesDef
    <3>1a. PICK k \in 1 .. Len(items[r][i]) : x = <<i, k>>
      BY <3>1
    <3>2. k \in 1 .. Len(items'[r][i])
      BY <1>1, <1>2, <3>1a
    <3>3. QED
      BY <1>4, <3>1a, <3>2
  <2>3. new \in Places(r, p)'
    <3>1. l \in 0 .. p /\ Len(items[q][l]) + 1 \in 1 .. Len(items'[r][l])
      BY <1>1, <1>2, <1>5 DEF Priority
    <3>2. QED
      BY <1>4, <3>1
  <2>4. QED
    BY <1>3, <1>5, <2>1, <2>2, <2>3
<1>6. CASE ~(r = q /\ l <= p)
  <2>1. \A i \in 0 .. p : Len(items'[r][i]) = Len(items[r][i])
    BY <1>1, <1>2, <1>6 DEF Priority
  <2>2. ASSUME NEW x
        PROVE  x \in Places(r, p)' <=> x \in Places(r, p)
    <3>1. x \in Places(r, p)' => \E i \in 0 .. p : \E k \in 1 .. Len(items[r][i]) : x = <<i, k>>
      BY <1>4, <2>1
    <3>2. ASSUME NEW i \in 0 .. p, NEW k \in 1 .. Len(items[r][i]), x = <<i, k>>
          PROVE  x \in Places(r, p)'
      BY <1>4, <2>1, <3>2
    <3>3. x \in Places(r, p) <=> \E i \in 0 .. p : \E k \in 1 .. Len(items[r][i]) : x = <<i, k>>
      BY PlacesDef
    <3>4. QED
      BY ONLY <3>1, <3>2, <3>3
  <2>2a. Places(r, p)' = Places(r, p)
    BY <2>2
  <2>3. QED
    BY <1>3, <1>6, <2>2a
<1>7. QED
  BY <1>5, <1>6

Taken(q, l) == items' = [items EXCEPT ![q][l] = Tail(@)]

\* A place less, at its priority.
LEMMA PlacesTaken ==
  ASSUME QTypeOK, NEW q \in Queue, NEW l \in Priority,
         items[q][l] # <<>>,
         Taken(q, l),
         NEW r \in Queue, NEW p \in -1 .. TopPriority
  PROVE  LET last == <<l, Len(items[q][l])>>
         IN  /\ l <= p => last \in Places(q, p)
             /\ Places(r, p)' = IF r = q /\ l <= p THEN Places(r, p) \ {last}
                                ELSE Places(r, p)
<1> DEFINE last == <<l, Len(items[q][l])>>
<1>1. /\ \A i \in Priority : items[r][i] \in Seq(Job) /\ items[q][i] \in Seq(Job)
      /\ 0 .. p \subseteq Priority
      /\ Len(items[q][l]) \in Nat /\ Len(items[q][l]) > 0
  <2>1. /\ \A i \in Priority : items[r][i] \in Seq(Job) /\ items[q][i] \in Seq(Job)
        /\ 0 .. p \subseteq Priority
    BY PriorityAssumption DEF QTypeOK, Priority
  <2>2. QED
    BY <2>1
<1>2. \A i \in Priority :
        Len(items'[r][i]) = IF r = q /\ i = l THEN Len(items[r][i]) - 1 ELSE Len(items[r][i])
  <2> SUFFICES ASSUME NEW i \in Priority
               PROVE  Len(items'[r][i]) = IF r = q /\ i = l THEN Len(items[r][i]) - 1
                                          ELSE Len(items[r][i])
    OBVIOUS
  <2>1. CASE r = q /\ i = l
    <3>1. items'[r][i] = Tail(items[q][l])
      BY <2>1 DEF QTypeOK, Taken
    <3>2. Len(Tail(items[q][l])) = Len(items[q][l]) - 1
      BY <1>1, HeadTailProperties
    <3>3. QED
      BY <2>1, <3>1, <3>2
  <2>2. CASE ~(r = q /\ i = l)
    <3>1. items'[r][i] = items[r][i]
      BY <2>2 DEF QTypeOK, Taken
    <3>2. QED
      BY <2>2, <3>1
  <2>3. QED
    BY <2>1, <2>2
<1>3. l <= p => last \in Places(q, p)
  <2>1. l <= p => l \in 0 .. p /\ Len(items[q][l]) \in 1 .. Len(items[q][l])
    BY <1>1 DEF Priority
  <2>2. QED
    BY <2>1, PlacesDef
<1>4. ASSUME NEW x
      PROVE  x \in Places(r, p)' <=>
               \E i \in 0 .. p : \E k \in 1 .. Len(items'[r][i]) : x = <<i, k>>
  BY DEF Places
<1>5. CASE r = q /\ l <= p
  <2>1. ASSUME NEW x \in Places(r, p)'
        PROVE  x \in Places(r, p) \ {last}
    <3>1. PICK i \in 0 .. p : \E k \in 1 .. Len(items'[r][i]) : x = <<i, k>>
      BY <1>4
    <3>1a. PICK k \in 1 .. Len(items'[r][i]) : x = <<i, k>>
      BY <3>1
    <3>2. k \in 1 .. Len(items[r][i]) /\ <<i, k>> # last
      BY SMTT(30), <1>1, <1>2, <1>5, <3>1a
    <3>3. QED
      BY <3>1a, <3>2, PlacesDef
  <2>2. ASSUME NEW x \in Places(r, p), x # last
        PROVE  x \in Places(r, p)'
    <3>1. PICK i \in 0 .. p : \E k \in 1 .. Len(items[r][i]) : x = <<i, k>>
      BY PlacesDef
    <3>1a. PICK k \in 1 .. Len(items[r][i]) : x = <<i, k>>
      BY <3>1
    <3>2. k \in 1 .. Len(items'[r][i])
      BY <1>1, <1>2, <1>5, <2>2, <3>1a
    <3>3. QED
      BY <1>4, <3>1a, <3>2
  <2>3. QED
    BY <1>3, <1>5, <2>1, <2>2
<1>6. CASE ~(r = q /\ l <= p)
  <2>1. \A i \in 0 .. p : Len(items'[r][i]) = Len(items[r][i])
    BY SMTT(30), <1>1, <1>2, <1>6 DEF Priority
  <2>2. ASSUME NEW x
        PROVE  x \in Places(r, p)' <=> x \in Places(r, p)
    <3>1. x \in Places(r, p)' => \E i \in 0 .. p : \E k \in 1 .. Len(items[r][i]) : x = <<i, k>>
      BY <1>4, <2>1
    <3>2. ASSUME NEW i \in 0 .. p, NEW k \in 1 .. Len(items[r][i]), x = <<i, k>>
          PROVE  x \in Places(r, p)'
      BY <1>4, <2>1, <3>2
    <3>3. ASSUME NEW i \in 0 .. p, NEW k \in 1 .. Len(items[r][i]), x = <<i, k>>
          PROVE  x \in Places(r, p)
      BY <3>3 DEF Places
    <3>4. x \in Places(r, p) => \E i \in 0 .. p : \E k \in 1 .. Len(items[r][i]) : x = <<i, k>>
      BY DEF Places
    <3>5. QED
      BY ONLY <3>1, <3>2, <3>3, <3>4
  <2>2a. Places(r, p)' = Places(r, p)
    BY <2>2
  <2>3. QED
    BY <1>3, <1>6, <2>2a
<1>7. QED
  BY <1>5, <1>6

Moves(t, where) == access' = [access EXCEPT ![t] = where]

\* The threads that look for an item and those that have one to count, when t moves
\* to `where'.
LEMMA ThreadMoves ==
  ASSUME QTypeOK, NEW t \in Thread, NEW where,
         Moves(t, where),
         NEW q, NEW p
  PROVE  /\ Scanners(q, p)' =
              (Scanners(q, p) \ {t})
                \cup (IF where.at = "scanning" /\ where.queue = q /\ where.priority <= p
                      THEN {t} ELSE {})
         /\ Counters(q)' =
              (Counters(q) \ {t}) \cup (IF where = Counting(q) THEN {t} ELSE {})
<1>1. /\ access'[t] = where
      /\ \A u \in Thread : u # t => access'[u] = access[u]
  BY DEF QTypeOK, Moves
<1>2. Scanners(q, p)' = {u \in Thread : access'[u].at = "scanning" /\ access'[u].queue = q
                                         /\ access'[u].priority <= p}
  BY DEF Scanners
<1>3. Counters(q)' = {u \in Thread : access'[u] = Counting(q)}
  BY DEF Counters, Counting
<1>4. QED
  BY <1>1, <1>2, <1>3 DEF Scanners, Counters

\* The three places a thread may go.
LEMMA GoesOutside ==
  ASSUME QTypeOK, NEW t \in Thread,
         Moves(t, Outside),
         NEW q, NEW p
  PROVE  Scanners(q, p)' = Scanners(q, p) \ {t} /\ Counters(q)' = Counters(q) \ {t}
<1> DEFINE where == Outside
<1>1. where.at # "scanning" /\ where # Counting(q)
  BY AccessKinds
<1>2. Moves(t, where)
  OBVIOUS
<1> HIDE DEF where
<1>3. QED
  BY <1>1, <1>2, ThreadMoves

\* A thread that goes to count an item in queue r.
LEMMA GoesCounting ==
  ASSUME QTypeOK, NEW t \in Thread, NEW r,
         Moves(t, Counting(r)),
         NEW q, NEW p
  PROVE  /\ Scanners(q, p)' = Scanners(q, p) \ {t}
         /\ Counters(q)' = (Counters(q) \ {t}) \cup (IF q = r THEN {t} ELSE {})
<1> DEFINE where == Counting(r)
<1>1. where.at # "scanning" /\ (where = Counting(q) <=> q = r)
  BY AccessKinds
<1>2. Moves(t, where)
  OBVIOUS
<1> HIDE DEF where
<1>3. QED
  BY <1>1, <1>2, ThreadMoves

\* A thread that goes to look into queue r, from priority l down.
LEMMA GoesScanning ==
  ASSUME QTypeOK, NEW t \in Thread, NEW r, NEW l,
         Moves(t, Scanning(r, l)),
         NEW q, NEW p
  PROVE  /\ Scanners(q, p)' =
              (Scanners(q, p) \ {t}) \cup (IF q = r /\ l <= p THEN {t} ELSE {})
         /\ Counters(q)' = Counters(q) \ {t}
<1> DEFINE where == Scanning(r, l)
<1>1. /\ where.at = "scanning" /\ where.queue = r /\ where.priority = l
      /\ where # Counting(q)
  BY AccessKinds
<1>2. Moves(t, where)
  OBVIOUS
<1> HIDE DEF where
<1>3. QED
  BY <1>1, <1>2, ThreadMoves

\* Where a thread may be, and that it stays among those.
LEMMA AccessTyped ==
  ASSUME QTypeOK, NEW t \in Thread, NEW where,
         \/ where = Outside
         \/ \E q \in Queue : where = Counting(q)
         \/ \E q \in Queue : \E p \in -1 .. TopPriority : where = Scanning(q, p),
         Moves(t, where)
  PROVE  access' \in [Thread -> Whereabouts]
<1>1. where \in Whereabouts
  BY DEF Whereabouts
<1>2. QED
  BY <1>1 DEF QTypeOK, Moves

-----------------------------------------------------------------------------
(* Each step keeps the strengthened invariant *)

\* The initial state has neither items nor threads to account for.
LEMMA QInitInv == QInit => IInv
<1> SUFFICES ASSUME QInit
             PROVE  IInv
  OBVIOUS
<1>1. QTypeOK
  BY DEF QInit, QTypeOK, Whereabouts
<1>2. \A q \in Queue : \A p \in -1 .. TopPriority :
        Places(q, p) = {} /\ Scanners(q, p) = {} /\ Counters(q) = {}
  <2> SUFFICES ASSUME NEW q \in Queue, NEW p \in -1 .. TopPriority
               PROVE  Places(q, p) = {} /\ Scanners(q, p) = {} /\ Counters(q) = {}
    OBVIOUS
  <2>1. \A i \in 0 .. p : Len(items[q][i]) = 0
    BY PriorityAssumption DEF QInit, Priority
  <2>2. \A x : x \notin Places(q, p)
    BY <2>1, PlacesDef
  <2>3. Scanners(q, p) = {} /\ Counters(q) = {}
    BY SMTT(30), AccessKinds DEF QInit, Scanners, Counters
  <2>4. QED
    BY <2>2, <2>3
<1>3. Cardinality({}) = 0 /\ IsFiniteSet({})
  BY FS_EmptySet
<1>4. TopPriority \in -1 .. TopPriority
  BY PriorityAssumption
<1>5. \A q \in Queue : nItems[q] = 0
  BY DEF QInit
<1>6. EnoughBelow
  BY <1>2, <1>3 DEF EnoughBelow
<1>7. AllAccounted
  BY <1>2, <1>3, <1>4, <1>5 DEF AllAccounted
<1>8. FinitelyMany
  BY <1>2, <1>3, <1>4 DEF FinitelyMany
<1>9. QED
  BY <1>1, <1>6, <1>7, <1>8 DEF IInv, QInv

\* Push adds an item and a thread that has it to count.
LEMMA PushItemInv ==
  ASSUME IInv, NEW t \in Thread, NEW q \in Queue, NEW l \in Priority, NEW j \in Job,
         PushItem(t, q, l, j)
  PROVE  IInv'
<1> USE DEF IInv, QInv
<1>1. QTypeOK'
  <2>1. Append(items[q][l], j) \in Seq(Job)
    BY DEF QTypeOK
  <2>2. items' \in [Queue -> [Priority -> Seq(Job)]] /\ Moves(t, Counting(q))
    BY <2>1 DEF QTypeOK, PushItem, Moves
  <2>3. access' \in [Thread -> Whereabouts]
    BY <2>2, AccessTyped
  <2>4. nItems' \in [Queue -> Nat] /\ available' \in [Queue -> BOOLEAN]
    BY DEF QTypeOK, PushItem
  <2>5. QED
    BY <2>2, <2>3, <2>4 DEF QTypeOK
<1>2. /\ items' = [items EXCEPT ![q][l] = Append(@, j)]
      /\ Moves(t, Counting(q))
      /\ access[t] = Outside /\ nItems' = nItems
      /\ l \in -1 .. TopPriority /\ TopPriority \in -1 .. TopPriority /\ l <= TopPriority
  BY PriorityAssumption DEF PushItem, Priority, Moves
<1>3. ASSUME NEW r \in Queue, NEW p \in -1 .. TopPriority
      PROVE  /\ IsFiniteSet(Places(r, p)')
             /\ Cardinality(Places(r, p)') =
                  Cardinality(Places(r, p)) + (IF r = q /\ l <= p THEN 1 ELSE 0)
             /\ Scanners(r, p)' = Scanners(r, p)
             /\ IF r = q THEN Cardinality(Counters(r)') = Cardinality(Counters(r)) + 1
                         ELSE Counters(r)' = Counters(r)
  <2> DEFINE new == <<l, Len(items[q][l]) + 1>>
  <2>1. /\ new \notin Places(q, p)
        /\ Places(r, p)' = IF r = q /\ l <= p THEN Places(r, p) \cup {new} ELSE Places(r, p)
    BY <1>2, PlacesPushed
  <2>2. IsFiniteSet(Places(r, p)) /\ Cardinality(Places(r, p)) \in Nat
    BY PlacesFinite
  <2>3. /\ IsFiniteSet(Places(r, p)')
        /\ Cardinality(Places(r, p)') =
             Cardinality(Places(r, p)) + (IF r = q /\ l <= p THEN 1 ELSE 0)
    BY <2>1, <2>2, OneMore
  <2>4. t \notin Scanners(r, p) /\ t \notin Counters(r)
    BY <1>2, AccessKinds DEF Scanners, Counters
  <2>5. /\ Scanners(r, p)' = Scanners(r, p)
        /\ Counters(r)' = Counters(r) \cup (IF r = q THEN {t} ELSE {})
    BY SMTT(30), <1>2, <2>4, GoesCounting
  <2>6. IF r = q THEN Cardinality(Counters(r)') = Cardinality(Counters(r)) + 1
                ELSE Counters(r)' = Counters(r)
    BY <2>4, <2>5, ThreadsFinite, OneMore
  <2>7. QED
    BY <2>3, <2>5, <2>6
<1>4. EnoughBelow'
  <2> SUFFICES ASSUME NEW r \in Queue, NEW p \in -1 .. TopPriority
               PROVE  Cardinality(Scanners(r, p)') <= Cardinality(Places(r, p)')
    BY DEF EnoughBelow
  <2>1. Cardinality(Scanners(r, p)) <= Cardinality(Places(r, p))
    BY DEF EnoughBelow
  <2>2. QED
    BY <1>3, <2>1, PlacesFinite, ThreadsFinite
<1>5. AllAccounted'
  <2> SUFFICES ASSUME NEW r \in Queue
               PROVE  Cardinality(Places(r, TopPriority)') =
                        nItems'[r] + Cardinality(Scanners(r, TopPriority)')
                          + Cardinality(Counters(r)')
    BY DEF AllAccounted
  <2>1. Cardinality(Places(r, TopPriority)) =
          nItems[r] + Cardinality(Scanners(r, TopPriority)) + Cardinality(Counters(r))
    BY DEF AllAccounted
  <2>2. Cardinality(Places(r, TopPriority)') = Cardinality(Places(r, TopPriority))
                                                 + (IF r = q THEN 1 ELSE 0)
    BY <1>2, <1>3
  <2>3. Cardinality(Counters(r)') = Cardinality(Counters(r)) + (IF r = q THEN 1 ELSE 0)
    BY <1>2, <1>3, ThreadsFinite
  <2>4. Scanners(r, TopPriority)' = Scanners(r, TopPriority)
    BY <1>2, <1>3
  <2>5. nItems[r] \in Nat
    BY DEF QTypeOK
  <2>6. QED
    BY <1>2, <2>1, <2>2, <2>3, <2>4, <2>5, ThreadsFinite
<1>6. FinitelyMany'
  BY <1>2, <1>3 DEF FinitelyMany
<1>7. QED
  BY <1>1, <1>4, <1>5, <1>6

\* Counting turns a thread that has an item to count into an item counted.
LEMMA CountItemInv ==
  ASSUME IInv, NEW t \in Thread, CountItem(t)
  PROVE  IInv'
<1> USE DEF IInv, QInv
<1>1. PICK q \in Queue : access[t] = Counting(q)
  BY AccessCases DEF CountItem
<1>1a. access[t].queue = q
  BY <1>1, AccessKinds
<1>2. /\ items' = items
      /\ Moves(t, Outside)
      /\ nItems' = [nItems EXCEPT ![q] = @ + 1]
      /\ available' = [available EXCEPT ![q] = @ \/ nItems[q] + 1 = 1]
      /\ TopPriority \in -1 .. TopPriority
  BY <1>1a, PriorityAssumption DEF CountItem, Moves
<1>3. QTypeOK'
  <2>1. access' \in [Thread -> Whereabouts]
    BY <1>2, AccessTyped
  <2>2. nItems' \in [Queue -> Nat]
    BY <1>2 DEF QTypeOK
  <2>3. available' \in [Queue -> BOOLEAN]
    BY <1>2 DEF QTypeOK
  <2>4. QED
    BY <1>2, <2>1, <2>2, <2>3 DEF QTypeOK
<1>4. ASSUME NEW r \in Queue, NEW p \in -1 .. TopPriority
      PROVE  /\ Places(r, p)' = Places(r, p)
             /\ Scanners(r, p)' = Scanners(r, p)
             /\ IF r = q THEN Cardinality(Counters(r)') = Cardinality(Counters(r)) - 1
                         ELSE Counters(r)' = Counters(r)
  <2>1. Places(r, p)' = Places(r, p)
    BY <1>2 DEF Places
  <2>2. t \notin Scanners(r, p) /\ (t \in Counters(r) <=> r = q)
    BY <1>1, AccessKinds DEF Scanners, Counters
  <2>3. Scanners(r, p)' = Scanners(r, p) /\ Counters(r)' = Counters(r) \ {t}
    BY <1>2, <2>2, GoesOutside
  <2>4. QED
    BY <2>1, <2>2, <2>3, ThreadsFinite, OneLess
<1>5. EnoughBelow'
  <2> SUFFICES ASSUME NEW r \in Queue, NEW p \in -1 .. TopPriority
               PROVE  Cardinality(Scanners(r, p)') <= Cardinality(Places(r, p)')
    BY DEF EnoughBelow
  <2>1. QED
    BY <1>4 DEF EnoughBelow
<1>6. AllAccounted'
  <2> SUFFICES ASSUME NEW r \in Queue
               PROVE  Cardinality(Places(r, TopPriority)') =
                        nItems'[r] + Cardinality(Scanners(r, TopPriority)')
                          + Cardinality(Counters(r)')
    BY DEF AllAccounted
  <2>1. Cardinality(Places(r, TopPriority)) =
          nItems[r] + Cardinality(Scanners(r, TopPriority)) + Cardinality(Counters(r))
    BY DEF AllAccounted
  <2>2. /\ nItems[r] \in Nat /\ nItems' = [nItems EXCEPT ![q] = nItems[q] + 1]
        /\ nItems'[r] = nItems[r] + (IF r = q THEN 1 ELSE 0)
    BY <1>2 DEF QTypeOK
  <2>3. /\ Places(r, TopPriority)' = Places(r, TopPriority)
        /\ Scanners(r, TopPriority)' = Scanners(r, TopPriority)
    BY <1>2, <1>4
  <2>4. /\ Cardinality(Counters(r)) \in Nat
        /\ Cardinality(Scanners(r, TopPriority)) \in Nat
        /\ Cardinality(Counters(r)') = Cardinality(Counters(r)) - (IF r = q THEN 1 ELSE 0)
    BY <1>2, <1>4, ThreadsFinite
  <2>5. QED
    BY <2>1, <2>2, <2>3, <2>4
<1>7. FinitelyMany'
  BY <1>2, <1>4 DEF FinitelyMany
<1>8. QED
  BY <1>3, <1>5, <1>6, <1>7

\* Taking an item off the count turns it into a thread that looks for one.
LEMMA ReserveInv ==
  ASSUME IInv, NEW t \in Thread, NEW q \in Queue, Reserve(t, q)
  PROVE  IInv'
<1> USE DEF IInv, QInv
<1>1. /\ items' = items
      /\ Moves(t, Scanning(q, TopPriority))
      /\ access[t] = Outside
      /\ nItems' = [nItems EXCEPT ![q] = @ - 1] /\ nItems[q] # 0
      /\ available' = [available EXCEPT ![q] = @ /\ nItems[q] - 1 # 0]
      /\ TopPriority \in -1 .. TopPriority
  BY PriorityAssumption DEF Reserve, Moves
<1>2. QTypeOK'
  <2>1. access' \in [Thread -> Whereabouts]
    BY <1>1, AccessTyped
  <2>2. nItems' \in [Queue -> Nat]
    BY <1>1 DEF QTypeOK
  <2>3. available' \in [Queue -> BOOLEAN]
    BY <1>1 DEF QTypeOK
  <2>4. QED
    BY <1>1, <2>1, <2>2, <2>3 DEF QTypeOK
<1>3. ASSUME NEW r \in Queue, NEW p \in -1 .. TopPriority
      PROVE  /\ Places(r, p)' = Places(r, p)
             /\ Cardinality(Scanners(r, p)') =
                  Cardinality(Scanners(r, p))
                    + (IF r = q /\ p = TopPriority THEN 1 ELSE 0)
             /\ Counters(r)' = Counters(r)
  <2>1. Places(r, p)' = Places(r, p)
    BY <1>1 DEF Places
  <2>2. t \notin Scanners(r, p) /\ t \notin Counters(r)
    BY <1>1, AccessKinds DEF Scanners, Counters
  <2>3. /\ Scanners(r, p)' =
             Scanners(r, p) \cup (IF r = q /\ p = TopPriority THEN {t} ELSE {})
        /\ Counters(r)' = Counters(r)
    <3>1. TopPriority <= p <=> p = TopPriority
      BY PriorityAssumption
    <3>2. QED
      BY <1>1, <2>2, <3>1, GoesScanning
  <2>4. CASE r = q /\ p = TopPriority
    BY <2>1, <2>2, <2>3, <2>4, ThreadsFinite, OneMore
  <2>5. CASE ~(r = q /\ p = TopPriority)
    <3>1. Scanners(r, p)' = Scanners(r, p) \cup {}
      BY <2>3, <2>5
    <3>2. Scanners(r, p)' = Scanners(r, p)
      BY <3>1
    <3>3. Cardinality(Scanners(r, p)) \in Nat
      BY ThreadsFinite
    <3>4. Cardinality(Scanners(r, p)') = Cardinality(Scanners(r, p)) + 0
      BY <3>2, <3>3
    <3>5. QED
      BY <2>1, <2>3, <2>5, <3>4
  <2>6. QED
    BY <2>4, <2>5
<1>4. ASSUME NEW r \in Queue
      PROVE  Cardinality(Places(r, TopPriority)) =
               nItems[r] + Cardinality(Scanners(r, TopPriority)) + Cardinality(Counters(r))
  BY DEF AllAccounted
<1>5. EnoughBelow'
  <2> SUFFICES ASSUME NEW r \in Queue, NEW p \in -1 .. TopPriority
               PROVE  Cardinality(Scanners(r, p)') <= Cardinality(Places(r, p)')
    BY DEF EnoughBelow
  <2>1. Cardinality(Scanners(r, p)) <= Cardinality(Places(r, p))
    BY DEF EnoughBelow
  <2>2. CASE r = q /\ p = TopPriority
    <3>1. nItems[q] \in Nat /\ nItems[q] > 0
      BY <1>1 DEF QTypeOK
    <3>2. Cardinality(Scanners(r, p)) + 1 <= Cardinality(Places(r, p))
      BY <1>4, <2>2, <3>1, ThreadsFinite, PlacesFinite
    <3>3. QED
      BY <1>3, <2>2, <3>2
  <2>3. CASE ~(r = q /\ p = TopPriority)
    <3>1. Cardinality(Scanners(r, p)') = Cardinality(Scanners(r, p))
      BY <1>3, <2>3, ThreadsFinite
    <3>2. QED
      BY <1>3, <2>1, <3>1
  <2>4. QED
    BY <2>2, <2>3
<1>6. AllAccounted'
  <2> SUFFICES ASSUME NEW r \in Queue
               PROVE  Cardinality(Places(r, TopPriority)') =
                        nItems'[r] + Cardinality(Scanners(r, TopPriority)')
                          + Cardinality(Counters(r)')
    BY DEF AllAccounted
  <2>1. Cardinality(Scanners(r, TopPriority)') =
          Cardinality(Scanners(r, TopPriority)) + (IF r = q THEN 1 ELSE 0)
    BY <1>1, <1>3
  <2>2. nItems'[r] = nItems[r] - (IF r = q THEN 1 ELSE 0) /\ nItems[r] \in Nat
    BY <1>1 DEF QTypeOK
  <2>3. QED
    BY <1>1, <1>3, <1>4, <2>1, <2>2, ThreadsFinite
<1>7. FinitelyMany'
  BY <1>1, <1>3 DEF FinitelyMany
<1>8. QED
  BY <1>2, <1>5, <1>6, <1>7

\* A queue that is empty holds none of the items below its priority, or at it: whoever
\* looks on below finds as many items as the threads that look at it and below.
LEMMA SkipInv ==
  ASSUME IInv, NEW t \in Thread, Skip(t)
  PROVE  IInv'
<1> USE DEF IInv, QInv
<1>1. PICK q \in Queue : \E p \in -1 .. TopPriority : access[t] = Scanning(q, p)
  BY AccessCases DEF Skip
<1>2. PICK l \in -1 .. TopPriority : access[t] = Scanning(q, l)
  BY <1>1
<1>3. access[t].queue = q /\ access[t].priority = l
  BY <1>2, AccessKinds
<1>3a. PICK m \in -2 .. TopPriority : m = l - 1
  BY PriorityAssumption
<1>4. /\ items' = items /\ nItems' = nItems /\ available' = available
      /\ l >= 0 /\ m \in -1 .. TopPriority
      /\ items[q][l] = <<>>
      /\ TopPriority \in -1 .. TopPriority
  BY <1>3, <1>3a, PriorityAssumption DEF Skip, Level
<1>5. Moves(t, Scanning(q, m))
  <2>1. access' = [access EXCEPT ![t] = [access[t] EXCEPT !.priority = m]]
    BY <1>3, <1>3a DEF Skip
  <2>2. [Scanning(q, l) EXCEPT !.priority = m] = Scanning(q, m)
    BY DEF Scanning
  <2>3. QED
    BY <1>2, <2>1, <2>2 DEF Moves
<1>6. QTypeOK'
  <2>1. access' \in [Thread -> Whereabouts]
    BY <1>4, <1>5, AccessTyped
  <2>2. QED
    BY <1>4, <2>1 DEF QTypeOK
<1>7. ASSUME NEW r \in Queue, NEW p \in -1 .. TopPriority
      PROVE  /\ Places(r, p)' = Places(r, p)
             /\ r = q /\ p = m => Scanners(r, p)' = Scanners(r, p) \cup {t}
             /\ ~(r = q /\ p = m) => Scanners(r, p)' = Scanners(r, p)
             /\ Counters(r)' = Counters(r)
  <2>1. Places(r, p)' = Places(r, p)
    BY <1>4 DEF Places
  <2>2. t \notin Counters(r) /\ (t \in Scanners(r, p) <=> r = q /\ l <= p)
    BY <1>2, AccessKinds DEF Scanners, Counters
  <2>3. /\ Scanners(r, p)' =
             (Scanners(r, p) \ {t}) \cup (IF r = q /\ m <= p THEN {t} ELSE {})
        /\ Counters(r)' = Counters(r)
    BY <1>5, <2>2, GoesScanning
  <2>4. m <= p <=> l <= p \/ p = m
    BY <1>3a
  <2>5. CASE r = q /\ p = m
    <3>1. Scanners(r, p)' = Scanners(r, p) \cup {t}
      BY <1>3a, <2>2, <2>3, <2>5
    <3>2. QED
      BY <2>1, <2>3, <2>5, <3>1
  <2>6. CASE ~(r = q /\ p = m)
    <3>1. Scanners(r, p)' = Scanners(r, p)
      BY <2>2, <2>3, <2>4, <2>6
    <3>2. QED
      BY <2>1, <2>3, <2>6, <3>1
  <2>7. QED
    BY <2>5, <2>6
<1>8. /\ Places(q, m) = Places(q, l)
      /\ Scanners(q, m) \cup {t} \subseteq Scanners(q, l)
  <2>1. Len(items[q][l]) = 0
    BY <1>4
  <2>2. \A x : x \in Places(q, l) <=> x \in Places(q, m)
    <3>1. ASSUME NEW x \in Places(q, l)
          PROVE  x \in Places(q, m)
      <4>1. PICK i \in 0 .. l : \E k \in 1 .. Len(items[q][i]) : x = <<i, k>>
        BY PlacesDef
      <4>2. i # l
        BY <2>1, <4>1
      <4>3. i \in 0 .. m
        BY <1>3a, <4>2
      <4>4. QED
        BY <4>1, <4>3, PlacesDef
    <3>2. ASSUME NEW x \in Places(q, m)
          PROVE  x \in Places(q, l)
      <4>1. PICK i \in 0 .. m : \E k \in 1 .. Len(items[q][i]) : x = <<i, k>>
        BY PlacesDef
      <4>2. i \in 0 .. l
        BY <1>3a
      <4>3. QED
        BY <4>1, <4>2, PlacesDef
    <3>3. QED
      BY <3>1, <3>2
  <2>3. Scanners(q, m) \cup {t} \subseteq Scanners(q, l)
    <3>1. ASSUME NEW u \in Scanners(q, m)
          PROVE  u \in Scanners(q, l)
      <4>1. PICK r \in Queue : \E p \in -1 .. TopPriority : access[u] = Scanning(r, p)
        BY AccessCases DEF Scanners
      <4>2. access[u].priority \in -1 .. TopPriority
        BY <4>1, AccessKinds
      <4>3. access[u].priority <= l
        BY <1>3a, <4>2 DEF Scanners
      <4>4. QED
        BY <4>3 DEF Scanners
    <3>2. t \in Scanners(q, l)
      BY <1>2, AccessKinds DEF Scanners
    <3>3. QED
      BY <3>1, <3>2
  <2>4. QED
    BY <2>2, <2>3
<1>9. EnoughBelow'
  <2> SUFFICES ASSUME NEW r \in Queue, NEW p \in -1 .. TopPriority
               PROVE  Cardinality(Scanners(r, p)') <= Cardinality(Places(r, p)')
    BY DEF EnoughBelow
  <2>1. CASE r = q /\ p = m
    <3>1. Scanners(r, p)' \subseteq Scanners(q, l)
      BY <1>7, <1>8, <2>1
    <3>2. Cardinality(Scanners(r, p)') <= Cardinality(Scanners(q, l))
      BY <3>1, ThreadsFinite, FS_Subset
    <3>3. Cardinality(Scanners(q, l)) <= Cardinality(Places(q, l))
      BY DEF EnoughBelow
    <3>4. Places(r, p)' = Places(q, l)
      BY <1>7, <1>8, <2>1
    <3>5. QED
      BY <3>2, <3>3, <3>4, ThreadsFinite, ThreadsFiniteNext, PlacesFinite
  <2>2. CASE ~(r = q /\ p = m)
    <3>1. Scanners(r, p)' = Scanners(r, p) /\ Places(r, p)' = Places(r, p)
      BY <1>7, <2>2
    <3>2. QED
      BY <3>1 DEF EnoughBelow
  <2>3. QED
    BY <2>1, <2>2
<1>10. AllAccounted' /\ FinitelyMany'
  <2>1. \A r \in Queue : /\ Places(r, TopPriority)' = Places(r, TopPriority)
                         /\ Scanners(r, TopPriority)' = Scanners(r, TopPriority)
                         /\ Counters(r)' = Counters(r)
    <3> SUFFICES ASSUME NEW r \in Queue
                 PROVE  /\ Places(r, TopPriority)' = Places(r, TopPriority)
                        /\ Scanners(r, TopPriority)' = Scanners(r, TopPriority)
                        /\ Counters(r)' = Counters(r)
      OBVIOUS
    <3>1. TopPriority # m
      BY <1>3a, PriorityAssumption
    <3>2. QED
      BY <1>4, <1>7, <3>1
  <2>2. QED
    BY <1>4, <2>1 DEF AllAccounted, FinitelyMany
<1>11. QED
  BY <1>6, <1>9, <1>10

\* Taking an item off its queue takes away as many places as threads that look for one
\* at its priority and above, and fewer places than that below.
LEMMA TakeInv ==
  ASSUME IInv, NEW t \in Thread, Take(t)
  PROVE  IInv'
<1> USE DEF IInv, QInv
<1>1. PICK q \in Queue : \E p \in -1 .. TopPriority : access[t] = Scanning(q, p)
  BY AccessCases DEF Take
<1>2. PICK l \in -1 .. TopPriority : access[t] = Scanning(q, l)
  BY <1>1
<1>3. access[t].queue = q /\ access[t].priority = l
  BY <1>2, AccessKinds
<1>4. /\ Taken(q, l) /\ nItems' = nItems /\ available' = available
      /\ Moves(t, Outside)
      /\ l \in Priority /\ items[q][l] # <<>>
      /\ TopPriority \in -1 .. TopPriority /\ l <= TopPriority
  BY <1>3, PriorityAssumption DEF Take, Level, Moves, Taken, Priority
<1>5. QTypeOK'
  <2>1. items[q][l] \in Seq(Job)
    BY <1>4 DEF QTypeOK
  <2>2. Tail(items[q][l]) \in Seq(Job)
    BY <1>4, <2>1, HeadTailProperties
  <2>3. items' \in [Queue -> [Priority -> Seq(Job)]]
    BY <1>4, <2>2 DEF QTypeOK, Taken
  <2>4. access' \in [Thread -> Whereabouts]
    BY <1>4, AccessTyped
  <2>5. QED
    BY <1>4, <2>3, <2>4 DEF QTypeOK
<1>6. ASSUME NEW r \in Queue, NEW p \in -1 .. TopPriority
      PROVE  /\ IsFiniteSet(Places(r, p)')
             /\ r = q /\ l <= p =>
                  /\ Cardinality(Places(r, p)') = Cardinality(Places(r, p)) - 1
                  /\ Cardinality(Scanners(r, p)') = Cardinality(Scanners(r, p)) - 1
             /\ ~(r = q /\ l <= p) =>
                  Places(r, p)' = Places(r, p) /\ Scanners(r, p)' = Scanners(r, p)
             /\ Counters(r)' = Counters(r)
  <2> DEFINE last == <<l, Len(items[q][l])>>
  <2>1. /\ l <= p => last \in Places(q, p)
        /\ Places(r, p)' = IF r = q /\ l <= p THEN Places(r, p) \ {last} ELSE Places(r, p)
    BY <1>4, PlacesTaken
  <2>2. IsFiniteSet(Places(r, p))
    BY PlacesFinite
  <2>3. t \notin Counters(r) /\ (t \in Scanners(r, p) <=> r = q /\ l <= p)
    BY <1>2, AccessKinds DEF Scanners, Counters
  <2>4. Scanners(r, p)' = Scanners(r, p) \ {t} /\ Counters(r)' = Counters(r) \ {t}
    BY <1>4, GoesOutside
  <2>5. Counters(r)' = Counters(r)
    BY <2>3, <2>4
  <2>6. CASE r = q /\ l <= p
    <3>1. Places(r, p)' = Places(r, p) \ {last} /\ last \in Places(r, p)
      BY <2>1, <2>6
    <3>2. /\ IsFiniteSet(Places(r, p)')
          /\ Cardinality(Places(r, p)') = Cardinality(Places(r, p)) - 1
      BY <2>2, <3>1, OneLess
    <3>3. Cardinality(Scanners(r, p)') = Cardinality(Scanners(r, p)) - 1
      BY <2>3, <2>4, <2>6, ThreadsFinite, OneLess
    <3>4. QED
      BY <2>5, <2>6, <3>2, <3>3
  <2>7. CASE ~(r = q /\ l <= p)
    <3>1. Places(r, p)' = Places(r, p)
      BY <2>1, <2>7
    <3>2. Scanners(r, p)' = Scanners(r, p)
      BY <2>3, <2>4, <2>7
    <3>3. QED
      BY <2>2, <2>5, <2>7, <3>1, <3>2
  <2>8. QED
    BY <2>6, <2>7
<1>7. EnoughBelow'
  <2> SUFFICES ASSUME NEW r \in Queue, NEW p \in -1 .. TopPriority
               PROVE  Cardinality(Scanners(r, p)') <= Cardinality(Places(r, p)')
    BY DEF EnoughBelow
  <2>1. Cardinality(Scanners(r, p)) <= Cardinality(Places(r, p))
    BY DEF EnoughBelow
  <2>2. QED
    BY <1>6, <2>1, PlacesFinite, ThreadsFinite
<1>8. AllAccounted'
  <2> SUFFICES ASSUME NEW r \in Queue
               PROVE  Cardinality(Places(r, TopPriority)') =
                        nItems[r] + Cardinality(Scanners(r, TopPriority)')
                          + Cardinality(Counters(r)')
    BY <1>4 DEF AllAccounted
  <2>1. Cardinality(Places(r, TopPriority)) =
          nItems[r] + Cardinality(Scanners(r, TopPriority)) + Cardinality(Counters(r))
    BY DEF AllAccounted
  <2>2. nItems[r] \in Nat /\ nItems'[r] = nItems[r] /\ Counters(r)' = Counters(r)
    BY <1>4, <1>6 DEF QTypeOK
  <2>3. CASE r = q
    <3>1. /\ Cardinality(Places(r, TopPriority)') = Cardinality(Places(r, TopPriority)) - 1
          /\ Cardinality(Scanners(r, TopPriority)') = Cardinality(Scanners(r, TopPriority)) - 1
      BY <1>4, <1>6, <2>3
    <3>2. /\ Cardinality(Counters(r)) \in Nat
          /\ Cardinality(Scanners(r, TopPriority)) \in Nat
      BY ThreadsFinite
    <3>3. QED
      BY <2>1, <2>2, <3>1, <3>2
  <2>4. CASE r # q
    <3>1. /\ Places(r, TopPriority)' = Places(r, TopPriority)
          /\ Scanners(r, TopPriority)' = Scanners(r, TopPriority)
      BY <1>4, <1>6, <2>4
    <3>2. QED
      BY <2>1, <2>2, <3>1
  <2>5. QED
    BY <2>3, <2>4
<1>9. FinitelyMany'
  BY <1>4, <1>6 DEF FinitelyMany
<1>10. QED
  BY <1>5, <1>7, <1>8, <1>9

\* Flush empties the queues while no thread is inside them.
LEMMA FlushInv ==
  ASSUME IInv, NEW queues \in SUBSET Queue, Flush(queues)
  PROVE  IInv'
<1> USE DEF IInv, QInv
<1>1. /\ items' = [q \in Queue |-> IF q \in queues THEN [p \in Priority |-> <<>>]
                                    ELSE items[q]]
      /\ nItems' = [q \in Queue |-> IF q \in queues THEN 0 ELSE nItems[q]]
      /\ available' = [q \in Queue |-> q \notin queues /\ available[q]]
      /\ access' = access
      /\ TopPriority \in -1 .. TopPriority
  BY PriorityAssumption DEF Flush
<1>2. QTypeOK'
  <2>1. [p \in Priority |-> <<>>] \in [Priority -> Seq(Job)]
    OBVIOUS
  <2>2. items' \in [Queue -> [Priority -> Seq(Job)]]
    <3> DEFINE none == [p \in Priority |-> <<>>]
    <3>1. items' = [q \in Queue |-> IF q \in queues THEN none ELSE items[q]]
      BY <1>1
    <3> HIDE DEF none
    <3>2. none \in [Priority -> Seq(Job)]
      BY <2>1 DEF none
    <3>3. QED
      BY <3>1, <3>2 DEF QTypeOK
  <2>3. QED
    BY <1>1, <2>2 DEF QTypeOK
<1>3. ASSUME NEW r \in Queue, NEW p \in -1 .. TopPriority
      PROVE  /\ r \in queues => Places(r, p)' = {} /\ Scanners(r, p)' = {} /\ Counters(r)' = {}
             /\ r \notin queues => /\ Places(r, p)' = Places(r, p)
                         /\ Scanners(r, p)' = Scanners(r, p)
                         /\ Counters(r)' = Counters(r)
  <2>1. Scanners(r, p)' = Scanners(r, p) /\ Counters(r)' = Counters(r)
    BY <1>1 DEF Scanners, Counters
  <2>2. r \in queues => Scanners(r, p) = {} /\ Counters(r) = {}
    BY AccessKinds DEF Scanners, Counters, Flush, Inside
  <2>3. r \in queues => Places(r, p)' = {}
    <3>1. ASSUME r \in queues, NEW x \in Places(r, p)'
          PROVE  FALSE
      <4>1. PICK i \in 0 .. p : \E k \in 1 .. Len(items'[r][i]) : x = <<i, k>>
        BY <3>1 DEF Places
      <4>2. Len(items'[r][i]) = 0
        BY <1>1, <3>1, PriorityAssumption DEF QTypeOK, Priority
      <4>3. QED
        BY <4>1, <4>2
    <3>2. QED
      BY <3>1
  <2>4. r \notin queues => Places(r, p)' = Places(r, p)
    <3>1. r \notin queues => items'[r] = items[r]
      BY <1>1 DEF QTypeOK
    <3>2. QED
      BY <3>1 DEF Places
  <2>5. QED
    BY <2>1, <2>2, <2>3, <2>4
<1>4. Cardinality({}) = 0 /\ IsFiniteSet({})
  BY FS_EmptySet
<1>5. EnoughBelow'
  <2> SUFFICES ASSUME NEW r \in Queue, NEW p \in -1 .. TopPriority
               PROVE  Cardinality(Scanners(r, p)') <= Cardinality(Places(r, p)')
    BY DEF EnoughBelow
  <2>1. CASE r \in queues
    BY <1>3, <1>4, <2>1
  <2>2. CASE r \notin queues
    BY <1>3, <2>2 DEF EnoughBelow
  <2>3. QED
    BY <2>1, <2>2
<1>6. AllAccounted'
  <2> SUFFICES ASSUME NEW r \in Queue
               PROVE  Cardinality(Places(r, TopPriority)') =
                        nItems'[r] + Cardinality(Scanners(r, TopPriority)')
                          + Cardinality(Counters(r)')
    BY DEF AllAccounted
  <2>1. CASE r \in queues
    <3>1. nItems'[r] = 0
      BY <1>1, <2>1 DEF QTypeOK
    <3>2. /\ Places(r, TopPriority)' = {}
          /\ Scanners(r, TopPriority)' = {}
          /\ Counters(r)' = {}
      BY <1>1, <1>3, <2>1
    <3>3. QED
      BY <1>4, <3>1, <3>2
  <2>2. CASE r \notin queues
    <3>1. nItems'[r] = nItems[r]
      BY <1>1, <2>2 DEF QTypeOK
    <3>2. QED
      BY <1>1, <1>3, <2>2, <3>1 DEF AllAccounted
  <2>3. QED
    BY <2>1, <2>2
<1>7. FinitelyMany'
  BY <1>1, <1>3, <1>4 DEF FinitelyMany
<1>8. QED
  BY <1>2, <1>5, <1>6, <1>7

\* A step that leaves the queues alone.
LEMMA StutterInv ==
  ASSUME IInv, UNCHANGED qvars
  PROVE  IInv'
<1>1. QTypeOK'
  BY DEF IInv, QInv, QTypeOK, qvars
<1>2. EnoughBelow' /\ AllAccounted' /\ FinitelyMany'
  <2>1. /\ items' = items /\ nItems' = nItems /\ access' = access
    BY DEF qvars
  <2>2. \A r, p : /\ Places(r, p)' = Places(r, p)
                  /\ Scanners(r, p)' = Scanners(r, p)
                  /\ Counters(r)' = Counters(r)
    BY <2>1 DEF Places, Scanners, Counters
  <2>3. QED
    BY <2>1, <2>2 DEF IInv, QInv, EnoughBelow, AllAccounted, FinitelyMany
<1>3. QED
  BY <1>1, <1>2 DEF IInv, QInv

\* Every step of the queues keeps the invariant.
LEMMA QNextInv ==
  ASSUME IInv, [QNext]_qvars
  PROVE  IInv'
<1>1. CASE \E t \in Thread : QStep(t)
  <2>1. PICK t \in Thread : QStep(t)
    BY <1>1
  <2>2. CASE \E q \in Queue, p \in Priority, j \in Job : PushItem(t, q, p, j)
    BY <2>2, PushItemInv
  <2>3. CASE CountItem(t)
    BY <2>3, CountItemInv
  <2>4. CASE \E q \in Queue : Reserve(t, q)
    BY <2>4, ReserveInv
  <2>5. CASE Skip(t)
    BY <2>5, SkipInv
  <2>6. CASE Take(t)
    BY <2>6, TakeInv
  <2>7. QED
    BY <2>1, <2>2, <2>3, <2>4, <2>5, <2>6 DEF QStep
<1>2. CASE \E queues \in SUBSET Queue : Flush(queues)
  BY <1>2, FlushInv
<1>3. CASE UNCHANGED qvars
  BY <1>3, StutterInv
<1>4. QED
  BY <1>1, <1>2, <1>3 DEF QNext

\* A thread that looks for an item in the last queue and found none before finds it
\* there: below the last queue there are no places, so no thread looks below it.
LEMMA ItemFound == IInv => ExpectedItem
<1> SUFFICES ASSUME IInv, NEW t \in Thread, access[t].at = "scanning"
             PROVE  access[t].priority >= 0
  BY DEF ExpectedItem
<1>1. QTypeOK /\ EnoughBelow
  BY DEF IInv, QInv
<1>2. PICK q \in Queue : \E p \in -1 .. TopPriority : access[t] = Scanning(q, p)
  BY <1>1, AccessCases
<1>3. PICK p \in -1 .. TopPriority : access[t] = Scanning(q, p)
  BY <1>2
<1>4. ASSUME p = -1
      PROVE  FALSE
  <2>1. t \in Scanners(q, -1)
    BY <1>3, <1>4, AccessKinds DEF Scanners
  <2>2. Places(q, -1) = {}
    <3>1. \A x : x \notin Places(q, -1)
      BY PlacesDef
    <3>2. QED
      BY <3>1
  <2>3. Cardinality(Places(q, -1)) = 0
    BY <2>2, FS_EmptySet
  <2>4. -1 \in -1 .. TopPriority
    BY PriorityAssumption
  <2>5. Cardinality(Scanners(q, -1)) <= 0
    BY <1>1, <2>3, <2>4 DEF EnoughBelow
  <2>6. Scanners(q, -1) = {}
    BY <2>5, ThreadsFinite, FS_EmptySet
  <2>7. QED
    BY <2>1, <2>6
<1>5. QED
  BY <1>3, <1>4, AccessKinds

-----------------------------------------------------------------------------
\* The queues keep an item for every thread that took one off the count, and account
\* for every item.
THEOREM QueuesAddUp == QSpec => []QInv
<1>1. QInit => IInv
  BY QInitInv
<1>2. IInv /\ [QNext]_qvars => IInv'
  BY QNextInv
<1>3. IInv => QInv
  BY DEF IInv
<1>4. QED
  BY <1>1, <1>2, <1>3, PTL DEF QSpec

\* The assertion of Pop, "Expected at least one queue item", never fails.
THEOREM ItemExpected == QSpec => []ExpectedItem
<1>1. QInit => IInv
  BY QInitInv
<1>2. IInv /\ [QNext]_qvars => IInv'
  BY QNextInv
<1>3. IInv => ExpectedItem
  BY ItemFound
<1>4. QED
  BY <1>1, <1>2, <1>3, PTL DEF QSpec

-----------------------------------------------------------------------------
(* The pool *)

Status == {"UNSERVICED", "PENDING", "INPROGRESS", "OK", "ABORTED"}
Where == {"free", "wait", "exited", "scan", "check", "lock", "begin", "run", "signal",
          "release", "pop", "pop shared", "finish", "suspend", "suspended", "count",
          "yield", "help", "block", "enter", "call", "settle", "drain", "pop next", "crashed",
          "resume", "join"}
Mode == {"service", "execute", "abort", "discard"}
Op == {"none", "wait", "suspend", "abort all", "execute all", "stop", "resume"}
\* Workers, queues or jobs, and the places in queues, that a thread goes through.
Todo == Queue \cup Job \cup (Queue \X Priority)
ThreadRecord == [at : Where, job : Job \cup {NoJob}, mode : Mode, op : Op,
                 todo : SUBSET Todo]
JobRecord == [status : Status, owner : Thread \cup {Nobody}, done : BOOLEAN,
              priority : Priority, calls : Nat, refs : Int, lost : Nat]

Typed ==
  /\ thread \in [Thread -> ThreadRecord]
  /\ job \in [Job -> JobRecord]
  /\ pool.threads \subseteq Worker

\* Operations on the whole pool that end in the suspension of its workers.
Whole == {"suspend", "abort all", "execute all"}
\* Where a thread owns the mutex of the job it is at.
Owning == {"begin", "run", "signal"}

\* A thread that works on the workers or the queues is on an operation on the whole pool;
\* one that services a job is at one.
InOrder(r) ==
  /\ r.at \in {"enter", "settle"} => r.op \in Whole
  /\ r.at = "call" => r.op \in Whole \cup {"stop"}
  /\ r.at = "drain" => r.op \in Whole \ {"suspend"}
  /\ r.at \in InService => r.job \in Job

ThreadsInOrder == \A t \in Thread : InOrder(thread[t])

\* The mutex of a job is owned by one thread, which alone executes or signals it.
OwnersAlone ==
  \A t \in Thread :
    /\ thread[t].at \in Owning => job[Mine(t)].owner = t
    /\ thread[t].at = "run" => job[Mine(t)].status = "INPROGRESS"
    /\ thread[t].at = "signal" => IsFinished(Mine(t))

\* A job's status tells whether it was executed or aborted.
JobsInOrder ==
  \A j \in Job :
    /\ job[j].calls = IF CanExecute(j) THEN 0 ELSE 1
    /\ job[j].done => IsFinished(j)

PInv == Typed /\ ThreadsInOrder /\ OwnersAlone /\ JobsInOrder

Becomes(t, r) == thread' = [thread EXCEPT ![t] = r]

-----------------------------------------------------------------------------
(* What the steps of a single thread have in common *)

\* A step of a thread that owns no job, before or after, and leaves the jobs alone.
LEMMA MoveInv ==
  ASSUME PInv, NEW t \in Thread, NEW r \in ThreadRecord, Becomes(t, r),
         job' = job, pool'.threads \subseteq Worker,
         InOrder(r), r.at \notin Owning
  PROVE  PInv'
<1>1. /\ thread'[t] = r
      /\ \A u \in Thread : u # t => thread'[u] = thread[u]
      /\ thread' \in [Thread -> ThreadRecord]
  BY DEF PInv, Typed, Becomes
<1>2. Typed'
  BY <1>1 DEF PInv, Typed
<1>3. ThreadsInOrder'
  BY <1>1 DEF PInv, ThreadsInOrder, InOrder
<1>4. OwnersAlone'
  BY <1>1 DEF PInv, OwnersAlone, Mine, IsFinished, Owning
<1>5. JobsInOrder'
  BY DEF PInv, JobsInOrder, IsFinished, CanExecute
<1>6. QED
  BY <1>2, <1>3, <1>4, <1>5 DEF PInv

\* Jobs of which nothing changes that the invariant is about: references, priorities, and
\* a status that is not that of a job being executed or finished.
JobsKept ==
  /\ job' \in [Job -> JobRecord]
  /\ \A j \in Job :
       /\ job'[j].owner = job[j].owner
       /\ job[j].status = "INPROGRESS" => job'[j].status = "INPROGRESS"
       /\ IsFinished(j) => IsFinished(j)'
       /\ job'[j].calls = IF CanExecute(j)' THEN 0 ELSE 1
       /\ job'[j].done => IsFinished(j)'

\* A step of a thread that owns no job, before or after, and keeps the jobs so.
LEMMA KeepInv ==
  ASSUME PInv, NEW t \in Thread, NEW r \in ThreadRecord, Becomes(t, r),
         JobsKept, pool'.threads \subseteq Worker,
         InOrder(r), r.at \notin Owning
  PROVE  PInv'
<1>1. /\ thread'[t] = r
      /\ \A u \in Thread : u # t => thread'[u] = thread[u]
      /\ thread' \in [Thread -> ThreadRecord]
  BY DEF PInv, Typed, Becomes
<1>2. Typed'
  BY <1>1 DEF PInv, Typed, JobsKept
<1>3. ThreadsInOrder'
  BY <1>1 DEF PInv, ThreadsInOrder, InOrder
<1>4. OwnersAlone'
  <2> SUFFICES ASSUME NEW u \in Thread
               PROVE  /\ thread'[u].at \in Owning => job'[thread'[u].job].owner = u
                      /\ thread'[u].at = "run" => job'[thread'[u].job].status = "INPROGRESS"
                      /\ thread'[u].at = "signal" =>
                           job'[thread'[u].job].status \in {"OK", "ABORTED"}
    BY DEF OwnersAlone, Mine, IsFinished
  <2>1. CASE thread'[u].at \in Owning
    <3>1. u # t /\ thread'[u] = thread[u]
      BY <1>1, <2>1
    <3>2. thread[u].job \in Job
      BY <2>1, <3>1 DEF PInv, ThreadsInOrder, InOrder, InService, Owning, Mine
    <3>3. QED
      BY <2>1, <3>1, <3>2 DEF PInv, OwnersAlone, Mine, IsFinished, JobsKept
  <2>2. CASE thread'[u].at \notin Owning
    BY <2>2 DEF Owning
  <2>3. QED
    BY <2>1, <2>2
<1>5. JobsInOrder'
  BY DEF JobsKept, JobsInOrder
<1>6. QED
  BY <1>2, <1>3, <1>4, <1>5 DEF PInv

\* A record of a job in which at most references, priority and being pending differ.
OnlyCounted(s, old) ==
  /\ s.owner = old.owner /\ s.calls = old.calls /\ s.done = old.done
  /\ s.status = old.status \/ (s.status = "PENDING" /\ old.status = "UNSERVICED")

\* Such a change of one job breaks nothing that is known of jobs and their owners.
LEMMA CountedKept ==
  ASSUME PInv, NEW j \in Job, NEW s \in JobRecord, job' = [job EXCEPT ![j] = s],
         OnlyCounted(s, job[j])
  PROVE  JobsKept
<1>1. /\ job'[j] = s
      /\ \A k \in Job : k # j => job'[k] = job[k]
      /\ job' \in [Job -> JobRecord]
  BY DEF PInv, Typed
<1>2. ASSUME NEW k \in Job
      PROVE  OnlyCounted(job'[k], job[k])
  BY <1>1 DEF OnlyCounted
<1>3. QED
  BY <1>1, <1>2 DEF PInv, JobsInOrder, JobsKept, OnlyCounted, IsFinished, CanExecute

\* A step of a thread that changes the job it is at, which no other thread owns.
LEMMA ServiceInv ==
  ASSUME PInv, NEW t \in Thread, NEW r \in ThreadRecord, Becomes(t, r),
         NEW j \in Job, NEW s \in JobRecord, job' = [job EXCEPT ![j] = s],
         pool'.threads \subseteq Worker,
         InOrder(r),
         \A u \in Thread : u # t /\ thread[u].at \in Owning => Mine(u) # j,
         r.at \in Owning => r.job = j /\ s.owner = t,
         r.at = "run" => s.status = "INPROGRESS",
         r.at = "signal" => s.status \in {"OK", "ABORTED"},
         s.calls = IF s.status \in {"UNSERVICED", "PENDING"} THEN 0 ELSE 1,
         s.done => s.status \in {"OK", "ABORTED"}
  PROVE  PInv'
<1>1. /\ thread'[t] = r
      /\ \A u \in Thread : u # t => thread'[u] = thread[u]
      /\ thread' \in [Thread -> ThreadRecord]
  BY DEF PInv, Typed, Becomes
<1>2. /\ job'[j] = s
      /\ \A k \in Job : k # j => job'[k] = job[k]
      /\ job' \in [Job -> JobRecord]
  BY DEF PInv, Typed
<1>3. Typed'
  BY <1>1, <1>2 DEF PInv, Typed
<1>4. ThreadsInOrder'
  BY <1>1 DEF PInv, ThreadsInOrder, InOrder
<1>5. OwnersAlone'
  <2> SUFFICES ASSUME NEW u \in Thread
               PROVE  /\ thread'[u].at \in Owning => job'[thread'[u].job].owner = u
                      /\ thread'[u].at = "run" => job'[thread'[u].job].status = "INPROGRESS"
                      /\ thread'[u].at = "signal" =>
                           job'[thread'[u].job].status \in {"OK", "ABORTED"}
    BY DEF OwnersAlone, Mine, IsFinished
  <2>1. CASE u = t
    BY <1>1, <1>2, <2>1 DEF Owning
  <2>2. CASE u # t
    <3>1. CASE thread[u].at \in Owning
      <4>1. thread[u].job \in Job /\ thread[u].job # j
        BY <2>2, <3>1 DEF PInv, ThreadsInOrder, InOrder, InService, Owning, Mine
      <4>2. QED
        BY <1>1, <1>2, <2>2, <4>1 DEF PInv, OwnersAlone, Mine, IsFinished
    <3>2. CASE thread[u].at \notin Owning
      BY <1>1, <2>2, <3>2 DEF Owning
    <3>3. QED
      BY <3>1, <3>2
  <2>3. QED
    BY <2>1, <2>2
<1>6. JobsInOrder'
  BY <1>2 DEF PInv, JobsInOrder, IsFinished, CanExecute
<1>7. QED
  BY <1>3, <1>4, <1>5, <1>6 DEF PInv

\* The owner of a job is alone.
LEMMA OwnerIsAlone ==
  ASSUME PInv, NEW t \in Thread, NEW j \in Job, job[j].owner \in {t, Nobody}
  PROVE  \A u \in Thread : u # t /\ thread[u].at \in Owning => Mine(u) # j
BY PoolAssumption DEF PInv, OwnersAlone

\* A thread goes on with what it is at.
LEMMA GotoInv ==
  ASSUME PInv, NEW t \in Thread, NEW where \in Where, Goto(t, where),
         job' = job, pool'.threads \subseteq Worker,
         where \notin Owning \cup {"enter", "settle", "call"},
         where = "drain" => thread[t].op \in Whole \ {"suspend"},
         where \in InService => Mine(t) \in Job
  PROVE  PInv'
<1> DEFINE r == [thread[t] EXCEPT !.at = where]
<1>1. thread[t] \in ThreadRecord /\ InOrder(thread[t])
  BY DEF PInv, Typed, ThreadsInOrder
<1>2. /\ r \in ThreadRecord /\ r.at = where /\ r.op = thread[t].op /\ r.todo = thread[t].todo
      /\ r.job = thread[t].job
  BY <1>1 DEF ThreadRecord
<1>3. Becomes(t, r)
  BY DEF Goto, Becomes
<1> HIDE DEF r
<1>4. InOrder(r) /\ r.at \notin Owning
  BY <1>1, <1>2 DEF InOrder, Mine
<1>5. QED
  BY <1>2, <1>3, <1>4, MoveInv

\* A thread goes on with what it is at, for each of a set of workers, queues or places.
LEMMA GotoAllInv ==
  ASSUME PInv, NEW t \in Thread, NEW where \in Where, NEW set \in SUBSET Todo,
         GotoAll(t, where, set),
         job' = job, pool'.threads \subseteq Worker,
         where \in {"enter", "settle"} => thread[t].op \in Whole,
         where = "call" => thread[t].op \in Whole \cup {"stop"},
         where = "drain" => thread[t].op \in Whole \ {"suspend"},
         where \notin InService
  PROVE  PInv'
<1> DEFINE r == [thread[t] EXCEPT !.at = where, !.todo = set]
<1>1. thread[t] \in ThreadRecord
  BY DEF PInv, Typed
<1>2. r \in ThreadRecord /\ r.at = where /\ r.op = thread[t].op /\ r.todo = set
  BY <1>1 DEF ThreadRecord
<1>3. Becomes(t, r)
  BY DEF GotoAll, Becomes
<1> HIDE DEF r
<1>4. InOrder(r) /\ r.at \notin Owning
  BY <1>2 DEF InOrder, InService, Owning
<1>5. QED
  BY <1>2, <1>3, <1>4, MoveInv

\* A thread begins something.
LEMMA StartInv ==
  ASSUME PInv, NEW t \in Thread, NEW where \in Where, NEW j \in Job \cup {NoJob},
         NEW mode \in Mode, NEW op \in Op, Start(t, where, j, mode, op),
         job' = job, pool'.threads \subseteq Worker,
         where \notin Owning \cup {"call", "settle", "drain"},
         where = "enter" => op \in Whole,
         where \in InService => j \in Job
  PROVE  PInv'
<1> DEFINE r == [at |-> where, job |-> j, mode |-> mode, op |-> op, todo |-> {}]
<1>1. /\ r \in ThreadRecord /\ r.at = where /\ r.op = op /\ r.todo = {} /\ r.job = j
  BY DEF ThreadRecord
<1>2. Becomes(t, r)
  BY DEF Start, Becomes
<1> HIDE DEF r
<1>3. InOrder(r) /\ r.at \notin Owning
  BY <1>1 DEF InOrder
<1>4. QED
  BY <1>1, <1>2, <1>3, MoveInv

\* What LeaveJob makes of the thread.
LEMMA LeaveJobRecord ==
  ASSUME PInv, NEW t \in Thread, LeaveJob(t)
  PROVE  \E r \in ThreadRecord :
           Becomes(t, r) /\ InOrder(r) /\ r.at \notin InService
<1> DEFINE where == Back(t)
<1> DEFINE mode == IF where = "free" THEN "service" ELSE thread[t].mode
<1> DEFINE r == [thread[t] EXCEPT !.at = where, !.job = NoJob, !.mode = mode]
<1>1. thread[t] \in ThreadRecord /\ InOrder(thread[t])
  BY DEF PInv, Typed, ThreadsInOrder
<1>2. /\ where \in {"finish", "yield", "drain", "free"}
      /\ where = "drain" => thread[t].op \in Whole \ {"suspend"}
  BY DEF Back, Whole
<1>3. Becomes(t, r)
  BY DEF LeaveJob, Becomes
<1>3a. where \in Where /\ mode \in Mode
  BY <1>1, <1>2 DEF ThreadRecord, Where, Mode
<1> HIDE DEF where, mode
<1>4. /\ r \in ThreadRecord /\ r.at = where /\ r.op = thread[t].op
      /\ r.todo = thread[t].todo
  BY <1>1, <1>3a DEF ThreadRecord
<1> HIDE DEF r
<1>5. InOrder(r) /\ r.at \notin InService
  BY <1>1, <1>2, <1>4 DEF InOrder, InService
<1>6. QED
  BY <1>3, <1>4, <1>5

\* What Through makes of the thread.
LEMMA ThroughRecord ==
  ASSUME PInv, NEW t \in Thread, Through(t), Mine(t) \in Job
  PROVE  \E r \in ThreadRecord :
           Becomes(t, r) /\ InOrder(r) /\ r.at \notin Owning
<1>1. CASE Releasing(t)
  <2> DEFINE where == "release"
  <2> DEFINE r == [thread[t] EXCEPT !.at = where]
  <2>0. where \in Where /\ where \in InService \ Owning
        /\ where \notin {"enter", "settle", "call", "drain"}
    BY DEF InService, Owning, Where
  <2>1. thread[t] \in ThreadRecord /\ InOrder(thread[t])
    BY DEF PInv, Typed, ThreadsInOrder
  <2>2. /\ r \in ThreadRecord /\ r.at = where /\ r.op = thread[t].op
        /\ r.todo = thread[t].todo /\ r.job = thread[t].job
    <3> HIDE DEF where
    <3>1. QED
      BY <2>0, <2>1 DEF ThreadRecord
  <2>3. Becomes(t, r)
    BY <1>1 DEF Through, Goto, Becomes
  <2> HIDE DEF r, where
  <2>4. InOrder(r) /\ r.at \notin Owning
    BY <2>0, <2>1, <2>2 DEF InOrder, Mine
  <2>5. QED
    BY <2>2, <2>3, <2>4
<1>2. CASE ~Releasing(t)
  <2>1. LeaveJob(t)
    BY <1>2 DEF Through
  <2>2. PICK r \in ThreadRecord : Becomes(t, r) /\ InOrder(r) /\ r.at \notin InService
    BY <2>1, LeaveJobRecord
  <2>3. r.at \notin Owning
    BY <2>2 DEF Owning, InService
  <2>4. QED
    BY <2>2, <2>3
<1>3. QED
  BY <1>1, <1>2

-----------------------------------------------------------------------------
(* Each action keeps PInv *)

\* Workers and clients are threads, and their queues are queues.
LEMMA Names ==
  /\ Worker \subseteq Thread /\ Client \subseteq Thread
  /\ Worker \subseteq Queue /\ Shared \in Queue
  /\ \A j \in Job : Target(j) \in Queue
BY PoolAssumption DEF Target

\* The item at the head of a queue is a job.
LEMMA HeadIsJob ==
  ASSUME QTypeOK, NEW t \in Thread, Take(t)
  PROVE  Head(Level(t)) \in Job
<1>1. PICK q \in Queue : \E p \in -1 .. TopPriority : access[t] = Scanning(q, p)
  BY AccessCases DEF Take
<1>2. PICK p \in -1 .. TopPriority : access[t] = Scanning(q, p)
  BY <1>1
<1>3. Level(t) = items[q][p] /\ p \in Priority /\ Level(t) # <<>>
  BY <1>2, AccessKinds DEF Take, Level, Priority
<1>4. items[q][p] \in Seq(Job)
  BY <1>3 DEF QTypeOK
<1>5. QED
  BY <1>3, <1>4, HeadTailProperties

\* Looking for an item, and finding one.
LEMMA ScanInv ==
  ASSUME PInv, QTypeOK, NEW t \in Thread, Scan(t)
  PROVE  PInv'
<1>1. job' = job
  BY DEF Scan
<1>2. CASE Skip(t) /\ UNCHANGED <<thread, pool>>
  BY <1>1, <1>2 DEF PInv, Typed, ThreadsInOrder, OwnersAlone, JobsInOrder, Mine, IsFinished,
                    CanExecute
<1>3. CASE /\ Take(t)
           /\ thread' = [thread EXCEPT ![t].at = "check", ![t].job = Head(Level(t))]
           /\ pool' = [pool EXCEPT !.idle = @ \ {t}]
  <2> DEFINE j == Head(Level(t))
  <2> DEFINE where == "check"
  <2> DEFINE r == [thread[t] EXCEPT !.at = where, !.job = j]
  <2>1. j \in Job
    BY <1>3, HeadIsJob
  <2>2. Becomes(t, r)
    BY <1>3 DEF Becomes
  <2>3. where \in Where /\ where \notin Owning \cup {"enter", "settle", "call", "drain"}
    BY DEF Where, Owning
  <2>4. thread[t] \in ThreadRecord /\ InOrder(thread[t])
    BY DEF PInv, Typed, ThreadsInOrder
  <2> HIDE DEF where, j
  <2>5. /\ r \in ThreadRecord /\ r.at = where /\ r.job = j /\ r.op = thread[t].op
        /\ r.todo = thread[t].todo
    BY <2>1, <2>3, <2>4 DEF ThreadRecord
  <2>6. pool'.threads \subseteq Worker
    BY <1>3 DEF PInv, Typed
  <2> HIDE DEF r
  <2>7. InOrder(r) /\ r.at \notin Owning
    BY <2>1, <2>3, <2>4, <2>5 DEF InOrder
  <2>8. QED
    BY <1>1, <2>2, <2>5, <2>6, <2>7, MoveInv
<1>4. QED
  BY <1>2, <1>3 DEF Scan

\* A thread that services a job is at one.
LEMMA AtJob ==
  ASSUME PInv, NEW t \in Thread, thread[t].at \in InService
  PROVE  Mine(t) \in Job /\ job[Mine(t)] \in JobRecord
BY DEF PInv, Typed, ThreadsInOrder, InOrder, Mine

\* The check of a job: ServiceJobAndRelease, Execute and Abort look whether it is finished.
LEMMA CheckInv ==
  ASSUME PInv, NEW t \in Thread, Check(t)
  PROVE  PInv'
<1>1. Mine(t) \in Job
  BY AtJob DEF Check, At, InService
<1>2. job' = job /\ pool'.threads \subseteq Worker
  BY DEF Check, PInv, Typed
<1>3. CASE IsFinished(Mine(t))
  <2>1. PICK r \in ThreadRecord : Becomes(t, r) /\ InOrder(r) /\ r.at \notin Owning
    BY <1>1, <1>3, ThroughRecord DEF Check
  <2>2. QED
    BY <1>2, <2>1, MoveInv
<1>4. CASE ~IsFinished(Mine(t))
  <2>1. Goto(t, "lock")
    BY <1>4 DEF Check
  <2>2. "lock" \in Where /\ "lock" \notin Owning \cup {"enter", "settle", "call", "drain"}
    BY DEF Where, Owning
  <2>3. QED
    BY <1>1, <1>2, <2>1, <2>2, GotoInv
<1>5. QED
  BY <1>3, <1>4

\* The record of a thread that goes on at its job.
LEMMA AtJobRecord ==
  ASSUME PInv, NEW t \in Thread, NEW where \in InService, Goto(t, where), Mine(t) \in Job
  PROVE  \E r \in ThreadRecord :
           Becomes(t, r) /\ InOrder(r) /\ r.at = where /\ r.job = Mine(t)
<1> DEFINE r == [thread[t] EXCEPT !.at = where]
<1>1. thread[t] \in ThreadRecord /\ InOrder(thread[t])
  BY DEF PInv, Typed, ThreadsInOrder
<1>2. where \in Where /\ where \notin {"enter", "settle", "call", "drain"}
  BY DEF Where, InService
<1>3. /\ r \in ThreadRecord /\ r.at = where /\ r.op = thread[t].op /\ r.todo = thread[t].todo
      /\ r.job = Mine(t)
  BY <1>1, <1>2 DEF ThreadRecord, Mine
<1>4. Becomes(t, r)
  BY DEF Goto, Becomes
<1> HIDE DEF r
<1>5. InOrder(r)
  BY <1>1, <1>2, <1>3 DEF InOrder
<1>6. QED
  BY <1>3, <1>4, <1>5

\* TryLock and AUTO_LOCK: the owner is alone.
LEMMA LockInv ==
  ASSUME PInv, NEW t \in Thread, Lock(t)
  PROVE  PInv'
<1>1. Mine(t) \in Job /\ job[Mine(t)] \in JobRecord
  BY AtJob DEF Lock, At, InService
<1>2. pool'.threads \subseteq Worker
  BY DEF Lock, PInv, Typed
<1>3. CASE /\ job[Mine(t)].owner = Nobody
           /\ job' = [job EXCEPT ![Mine(t)].owner = t]
           /\ Goto(t, "begin")
  <2> DEFINE s == [job[Mine(t)] EXCEPT !.owner = t]
  <2>1. job' = [job EXCEPT ![Mine(t)] = s]
    BY <1>3
  <2>2. /\ s \in JobRecord /\ s.owner = t /\ s.status = job[Mine(t)].status
        /\ s.calls = job[Mine(t)].calls /\ s.done = job[Mine(t)].done
    BY <1>1 DEF JobRecord
  <2>3. /\ s.calls = IF s.status \in {"UNSERVICED", "PENDING"} THEN 0 ELSE 1
        /\ s.done => s.status \in {"OK", "ABORTED"}
    BY <1>1, <2>2 DEF PInv, JobsInOrder, CanExecute, IsFinished
  <2>4. \A u \in Thread : u # t /\ thread[u].at \in Owning => Mine(u) # Mine(t)
    BY <1>1, <1>3, OwnerIsAlone
  <2>5. PICK r \in ThreadRecord : Becomes(t, r) /\ InOrder(r) /\ r.at = "begin" /\ r.job = Mine(t)
    BY <1>1, <1>3, AtJobRecord DEF InService
  <2> HIDE DEF s
  <2>6. QED
    BY <1>1, <1>2, <2>1, <2>2, <2>3, <2>4, <2>5, ServiceInv
<1>4. CASE Goto(t, "release") /\ UNCHANGED job
  <2>1. "release" \in Where /\ "release" \notin Owning \cup {"enter", "settle", "call", "drain"}
    BY DEF Where, Owning
  <2>2. QED
    BY <1>1, <1>2, <1>4, <2>1, GotoInv
<1>5. QED
  BY <1>3, <1>4 DEF Lock

\* The switch on the status under the lock: this is where a job is called.
LEMMA BeginInv ==
  ASSUME PInv, NEW t \in Thread, Begin(t)
  PROVE  PInv'
<1>1. Mine(t) \in Job /\ job[Mine(t)] \in JobRecord /\ job[Mine(t)].owner = t
  <2>1. thread[t].at \in InService /\ thread[t].at \in Owning
    BY DEF Begin, At, InService, Owning
  <2>2. QED
    BY <2>1, AtJob DEF PInv, OwnersAlone
<1>2. pool'.threads \subseteq Worker
  BY DEF Begin, PInv, Typed
<1>3. \A u \in Thread : u # t /\ thread[u].at \in Owning => Mine(u) # Mine(t)
  BY <1>1, OwnerIsAlone
<1>4. /\ job[Mine(t)].calls = IF CanExecute(Mine(t)) THEN 0 ELSE 1
      /\ job[Mine(t)].done => IsFinished(Mine(t))
  BY <1>1 DEF PInv, JobsInOrder
<1>5. CASE CanExecute(Mine(t))
  <2> DEFINE status == IF Servicing(t) THEN "INPROGRESS" ELSE "ABORTED"
  <2> DEFINE where == IF Servicing(t) THEN "run" ELSE "signal"
  <2> DEFINE calls == job[Mine(t)].calls + 1
  <2> DEFINE s == [job[Mine(t)] EXCEPT !.calls = calls, !.status = status]
  <2>1. job' = [job EXCEPT ![Mine(t)] = s] /\ Goto(t, where)
    BY <1>5 DEF Begin
  <2>2. /\ status \in Status \ {"UNSERVICED", "PENDING"} /\ where \in InService
        /\ where = "run" => status = "INPROGRESS"
        /\ where = "signal" => status \in {"OK", "ABORTED"}
    BY DEF Status, InService
  <2>3. ~job[Mine(t)].done /\ calls = 1
    BY <1>4, <1>5 DEF IsFinished, CanExecute
  <2> HIDE DEF status, where, calls
  <2>4. /\ s \in JobRecord /\ s.owner = t /\ s.status = status /\ s.calls = 1 /\ ~s.done
    BY <1>1, <2>2, <2>3 DEF JobRecord
  <2>5. PICK r \in ThreadRecord : Becomes(t, r) /\ InOrder(r) /\ r.at = where /\ r.job = Mine(t)
    BY <1>1, <2>1, <2>2, AtJobRecord
  <2> HIDE DEF s
  <2>6. QED
    BY ZenonT(30), <1>1, <1>2, <1>3, <2>1, <2>2, <2>4, <2>5, ServiceInv
<1>6. CASE ~CanExecute(Mine(t))
  <2> DEFINE s == [job[Mine(t)] EXCEPT !.owner = Nobody]
  <2>1. job' = [job EXCEPT ![Mine(t)] = s] /\ Through(t)
    BY <1>6 DEF Begin
  <2>2. /\ s \in JobRecord /\ s.status = job[Mine(t)].status
        /\ s.calls = job[Mine(t)].calls /\ s.done = job[Mine(t)].done
    BY <1>1 DEF JobRecord
  <2>3. /\ s.calls = IF s.status \in {"UNSERVICED", "PENDING"} THEN 0 ELSE 1
        /\ s.done => s.status \in {"OK", "ABORTED"}
    BY <1>4, <2>2 DEF CanExecute, IsFinished
  <2>4. PICK r \in ThreadRecord : Becomes(t, r) /\ InOrder(r) /\ r.at \notin Owning
    BY <1>1, <2>1, ThroughRecord
  <2>5. r.at # "run" /\ r.at # "signal"
    BY <2>4 DEF Owning
  <2> HIDE DEF s
  <2>6. QED
    BY <1>1, <1>2, <1>3, <2>1, <2>2, <2>3, <2>4, <2>5, ServiceInv
<1>7. QED
  BY <1>5, <1>6

\* DoExecute returns.
LEMMA RunInv ==
  ASSUME PInv, NEW t \in Thread, Run(t)
  PROVE  PInv'
<1>1. /\ Mine(t) \in Job /\ job[Mine(t)] \in JobRecord /\ job[Mine(t)].owner = t
      /\ job[Mine(t)].status = "INPROGRESS"
  <2>1. thread[t].at \in InService /\ thread[t].at \in Owning /\ thread[t].at = "run"
    BY DEF Run, At, InService, Owning
  <2>2. QED
    BY <2>1, AtJob DEF PInv, OwnersAlone
<1>2. pool'.threads \subseteq Worker
  BY DEF Run, PInv, Typed
<1>3. \A u \in Thread : u # t /\ thread[u].at \in Owning => Mine(u) # Mine(t)
  BY <1>1, OwnerIsAlone
<1>4. job[Mine(t)].calls = 1
  BY <1>1 DEF PInv, JobsInOrder, CanExecute
<1> DEFINE s == [job[Mine(t)] EXCEPT !.status = "OK"]
<1>5. job' = [job EXCEPT ![Mine(t)] = s] /\ Goto(t, "signal")
  BY DEF Run
<1>6. s \in JobRecord /\ s.owner = t /\ s.status = "OK" /\ s.calls = 1
  BY <1>1, <1>4 DEF JobRecord, Status
<1>7. PICK r \in ThreadRecord : Becomes(t, r) /\ InOrder(r) /\ r.at = "signal" /\ r.job = Mine(t)
  BY <1>1, <1>5, AtJobRecord DEF InService
<1> HIDE DEF s
<1>8. QED
  BY <1>1, <1>2, <1>3, <1>5, <1>6, <1>7, ServiceInv

\* The event is set and the lock released.
LEMMA SignalInv ==
  ASSUME PInv, NEW t \in Thread, Signal(t)
  PROVE  PInv'
<1>1. /\ Mine(t) \in Job /\ job[Mine(t)] \in JobRecord /\ job[Mine(t)].owner = t
      /\ IsFinished(Mine(t))
  <2>1. thread[t].at \in InService /\ thread[t].at \in Owning /\ thread[t].at = "signal"
    BY DEF Signal, At, InService, Owning
  <2>2. QED
    BY <2>1, AtJob DEF PInv, OwnersAlone
<1>2. pool'.threads \subseteq Worker
  BY DEF Signal, PInv, Typed
<1>3. \A u \in Thread : u # t /\ thread[u].at \in Owning => Mine(u) # Mine(t)
  BY <1>1, OwnerIsAlone
<1>4. job[Mine(t)].calls = 1 /\ job[Mine(t)].status \in {"OK", "ABORTED"}
  BY <1>1 DEF PInv, JobsInOrder, CanExecute, IsFinished
<1> DEFINE s == [job[Mine(t)] EXCEPT !.done = TRUE, !.owner = Nobody]
<1>5. job' = [job EXCEPT ![Mine(t)] = s] /\ Through(t)
  BY DEF Signal
<1>6. s \in JobRecord /\ s.status \in {"OK", "ABORTED"} /\ s.calls = 1
  BY <1>1, <1>4 DEF JobRecord
<1>7. PICK r \in ThreadRecord : Becomes(t, r) /\ InOrder(r) /\ r.at \notin Owning
  BY <1>1, <1>5, ThroughRecord
<1>8. r.at # "run" /\ r.at # "signal"
  BY <1>7 DEF Owning
<1> HIDE DEF s
<1>9. QED
  BY <1>1, <1>2, <1>3, <1>5, <1>6, <1>7, <1>8, ServiceInv

\* The reference of ServiceJobAndRelease is given back.
LEMMA ReleaseInv ==
  ASSUME PInv, NEW t \in Thread, Release(t)
  PROVE  PInv'
<1>1. Mine(t) \in Job /\ job[Mine(t)] \in JobRecord
  BY AtJob DEF Release, At, InService
<1>2. PICK r \in ThreadRecord : Becomes(t, r) /\ InOrder(r) /\ r.at \notin InService
  BY LeaveJobRecord DEF Release
<1>3. r.at \notin Owning /\ thread[t].at \notin Owning
  BY <1>2 DEF Release, At, Owning, InService
<1>4. JobsKept
  <2> DEFINE refs == job[Mine(t)].refs - 1
  <2> DEFINE s == [job[Mine(t)] EXCEPT !.refs = refs]
  <2>1. refs \in Int
    BY <1>1 DEF JobRecord
  <2>2. job' = [job EXCEPT ![Mine(t)] = s]
    BY DEF Release
  <2> HIDE DEF refs
  <2>3. s \in JobRecord /\ OnlyCounted(s, job[Mine(t)])
    BY <1>1, <2>1 DEF JobRecord, OnlyCounted
  <2> HIDE DEF s
  <2>4. QED
    BY <1>1, <2>2, <2>3, CountedKept
<1>5. pool'.threads \subseteq Worker
  BY DEF Release, PInv, Typed
<1>6. QED
  BY <1>2, <1>3, <1>4, <1>5, KeepInv

\* Where a thread has neither a job nor workers to see to.
Aside == {"free", "wait", "exited", "scan", "pop", "pop shared", "finish", "suspend",
          "suspended", "count", "yield", "help", "block", "pop next", "crashed", "resume",
          "join"}

\* Such places are none of those the invariant speaks of.
LEMMA AsideIs ==
  ASSUME NEW where \in Aside
  PROVE  /\ where \in Where
         /\ where \notin Owning \cup {"enter", "settle", "call", "drain"}
         /\ where \notin InService
BY DEF Aside, Where, Owning, InService

\* A thread that goes where it has neither a job nor workers to see to.
LEMMA GotoAside ==
  ASSUME PInv, NEW t \in Thread, NEW where \in Aside, Goto(t, where),
         job' = job, pool'.threads \subseteq Worker
  PROVE  PInv'
BY AsideIs, GotoInv

\* The same when it starts something, or ends it.
LEMMA StartAside ==
  ASSUME PInv, NEW t \in Thread, NEW where \in Aside,
         NEW mode \in Mode, NEW op \in Op, Start(t, where, NoJob, mode, op),
         job' = job, pool'.threads \subseteq Worker
  PROVE  PInv'
BY AsideIs, StartInv

\* Taking an item off the count of a queue, or finding that there is none.
LEMMA PopInv ==
  ASSUME PInv, NEW t \in Thread, NEW where \in Aside, NEW q,
         Pop(t, q, Goto(t, where)), pool'.threads \subseteq Worker
  PROVE  PInv'
<1>1. job' = job
  BY DEF Pop
<1>2. CASE Goto(t, "scan")
  <2>1. "scan" \in Aside
    BY DEF Aside
  <2>2. QED
    BY <1>1, <1>2, <2>1, GotoAside
<1>3. CASE Goto(t, where)
  BY <1>1, <1>3, GotoAside
<1>4. QED
  BY <1>2, <1>3 DEF Pop

\* Every step of a worker keeps the invariant.
LEMMA WorkInv ==
  ASSUME PInv, QTypeOK, NEW w \in Worker, Work(w)
  PROVE  PInv'
<1>1. w \in Thread
  BY Names
<1>2. pool.threads \subseteq Worker
  BY DEF PInv, Typed
<1>3. CASE Service(w)
  BY <1>1, <1>3, ScanInv, CheckInv, LockInv, BeginInv, RunInv, SignalInv, ReleaseInv DEF Service
<1>4. CASE Wake(w)
  <2>1. "pop" \in Aside
    BY DEF Aside
  <2>2. QED
    BY <1>1, <1>2, <1>4, <2>1, GotoAside DEF Wake
<1>5. CASE PopDirect(w)
  <2>1. "pop shared" \in Aside
    BY DEF Aside
  <2>2. Pop(w, w, Goto(w, "pop shared")) /\ pool' = pool
    BY <1>5 DEF PopDirect
  <2>3. QED
    BY <1>1, <1>2, <2>1, <2>2, PopInv
<1>6. CASE PopShared(w)
  <2>1. "wait" \in Aside /\ "scan" \in Aside
    BY DEF Aside
  <2>2. job' = job
    BY <1>6 DEF PopShared, Pop
  <2>3. CASE Goto(w, "scan")
    <3>1. thread'[w].at = "scan"
      BY <1>1, <2>3 DEF Goto, PInv, Typed, ThreadRecord
    <3>2. pool' = pool
      BY <1>6, <3>1 DEF PopShared
    <3>3. QED
      BY <1>1, <1>2, <2>1, <2>2, <2>3, <3>2, GotoAside
  <2>4. CASE BackToWait(w)
    <3>1. pool'.threads = pool.threads /\ Goto(w, "wait")
      BY <2>4 DEF BackToWait
    <3>2. QED
      BY <1>1, <1>2, <2>1, <2>2, <3>1, GotoAside
  <2>5. QED
    BY <1>6, <2>3, <2>4 DEF PopShared, Pop
<1>7. CASE Finish(w)
  <2>1. "wait" \in Aside /\ "pop" \in Aside
    BY DEF Aside
  <2>2. job' = job /\ pool'.threads \subseteq Worker /\ (Goto(w, "wait") \/ Goto(w, "pop"))
    <3>0a. ASSUME pool' = [pool EXCEPT !.idle = @ \cup {w}]
           PROVE  pool'.threads = pool.threads
      BY <3>0a
    <3>1. pool' = pool \/ pool' = [pool EXCEPT !.idle = @ \cup {w}]
      BY <1>7 DEF Finish, BackToWait
    <3>2. pool'.threads = pool.threads
      BY <3>0a, <3>1
    <3>3. QED
      BY <1>2, <1>7, <3>2 DEF Finish, BackToWait
  <2>3. QED
    BY <1>1, <2>1, <2>2, GotoAside
<1>8. CASE Reply(w)
  <2>1. "suspend" \in Aside /\ "exited" \in Aside
    BY DEF Aside
  <2>2. job' = job /\ pool'.threads \subseteq Worker /\ (Goto(w, "suspend") \/ Goto(w, "exited"))
    <3>0a. ASSUME pool' = [pool EXCEPT !.idle = @ \ {w}]
           PROVE  pool'.threads = pool.threads
      BY <3>0a
    <3>1. pool' = pool \/ pool' = [pool EXCEPT !.idle = @ \ {w}]
      BY <1>8 DEF Reply
    <3>2. pool'.threads = pool.threads
      BY <3>0a, <3>1
    <3>3. QED
      BY <1>2, <1>8, <3>2 DEF Reply
  <2>3. QED
    BY <1>1, <2>1, <2>2, GotoAside
<1>9. CASE SuspendSelf(w)
  <2>1. "suspended" \in Aside
    BY DEF Aside
  <2>2. QED
    BY <1>1, <1>2, <1>9, <2>1, GotoAside DEF SuspendSelf
<1>10. CASE Awaken(w)
  <2>1. "wait" \in Aside
    BY DEF Aside
  <2>2. QED
    BY <1>1, <1>2, <1>10, <2>1, GotoAside DEF Awaken
<1>11. QED
  BY <1>3, <1>4, <1>5, <1>6, <1>7, <1>8, <1>9, <1>10 DEF Work

\* Adding a job, or adding it again with another priority.
LEMMA AddedInv ==
  ASSUME PInv, NEW c \in Client, NEW j \in Job, NEW s \in JobRecord,
         job' = [job EXCEPT ![j] = s], OnlyCounted(s, job[j]),
         Start(c, "count", j, "service", "none"), pool' = pool
  PROVE  PInv'
<1> DEFINE r == [at |-> "count", job |-> j, mode |-> "service", op |-> "none", todo |-> {}]
<1>1. r \in ThreadRecord /\ InOrder(r) /\ r.at \notin Owning
  BY DEF ThreadRecord, Where, Mode, Op, InOrder, Owning, Whole
<1>2. Becomes(c, r)
  BY DEF Start, Becomes
<1>3. c \in Thread /\ pool'.threads \subseteq Worker
  BY Names DEF PInv, Typed
<1> HIDE DEF r
<1>4. QED
  BY <1>1, <1>2, <1>3, CountedKept, KeepInv

\* AddJob: the job is pending and counted once more in its references.
LEMMA AddJobInv ==
  ASSUME PInv, NEW c \in Client, NEW j \in Job, AddJob(c, j)
  PROVE  PInv' /\ Urgency(j) \in Priority
<1>1. job[j] \in JobRecord
  BY DEF PInv, Typed
<1>2. Urgency(j) \in Priority
  BY <1>1, PriorityAssumption DEF Urgency, Priority, JobRecord
<1> DEFINE refs == job[j].refs + 1
<1> DEFINE priority == Urgency(j)
<1> DEFINE s == [job[j] EXCEPT !.status = "PENDING", !.priority = priority, !.refs = refs]
<1>3. refs \in Int
  BY <1>1 DEF JobRecord
<1>4. job' = [job EXCEPT ![j] = s] /\ Start(c, "count", j, "service", "none") /\ pool' = pool
  BY DEF AddJob
<1>5. job[j].status = "UNSERVICED"
  BY DEF AddJob
<1> HIDE DEF refs, priority
<1>6. s \in JobRecord /\ OnlyCounted(s, job[j])
  BY <1>1, <1>2, <1>3, <1>5 DEF JobRecord, OnlyCounted, Status, priority
<1> HIDE DEF s
<1>7. QED
  BY <1>2, <1>4, <1>6, AddedInv

\* ChangePriority: as AddJob, the status aside.
LEMMA ChangePriorityInv ==
  ASSUME PInv, NEW c \in Client, NEW j \in Job, NEW p \in Priority, ChangePriority(c, j, p)
  PROVE  PInv'
<1>1. job[j] \in JobRecord
  BY DEF PInv, Typed
<1> DEFINE refs == job[j].refs + 1
<1> DEFINE s == [job[j] EXCEPT !.priority = p, !.refs = refs]
<1>2. refs \in Int
  BY <1>1 DEF JobRecord
<1>3. job' = [job EXCEPT ![j] = s] /\ Start(c, "count", j, "service", "none") /\ pool' = pool
  BY DEF ChangePriority
<1> HIDE DEF refs
<1>4. s \in JobRecord /\ OnlyCounted(s, job[j])
  BY <1>1, <1>2 DEF JobRecord, OnlyCounted
<1> HIDE DEF s
<1>5. QED
  BY <1>3, <1>4, AddedInv

\* A thread that begins to service a job of its own accord.
LEMMA StartCheck ==
  ASSUME PInv, NEW c \in Client, NEW j \in Job, NEW mode \in Mode,
         Start(c, "check", j, mode, "none"), job' = job, pool' = pool
  PROVE  PInv'
<1>1. /\ "check" \in Where /\ "none" \in Op
      /\ "check" \notin Owning \cup {"call", "settle", "drain"} /\ "check" # "enter"
  BY DEF Where, Op, Owning
<1>2. c \in Thread /\ pool'.threads \subseteq Worker
  BY Names DEF PInv, Typed
<1>3. QED
  BY <1>1, <1>2, StartInv

\* The client's Release moves no thread.
LEMMA LetGoInv ==
  ASSUME PInv, NEW c \in Client, NEW j \in Job, LetGo(c, j)
  PROVE  PInv'
<1>1. job[j] \in JobRecord
  BY DEF PInv, Typed
<1> DEFINE refs == job[j].refs - 1
<1> DEFINE s == [job[j] EXCEPT !.refs = refs]
<1>2. refs \in Int
  BY <1>1 DEF JobRecord
<1>3. job' = [job EXCEPT ![j] = s] /\ thread' = thread /\ pool' = pool
  BY DEF LetGo
<1> HIDE DEF refs
<1>4. s \in JobRecord /\ OnlyCounted(s, job[j])
  BY <1>1, <1>2 DEF JobRecord, OnlyCounted
<1> HIDE DEF s
<1>5. JobsKept
  BY <1>3, <1>4, CountedKept
<1>6. Typed' /\ ThreadsInOrder'
  BY <1>3, <1>5 DEF PInv, Typed, ThreadsInOrder, JobsKept
<1>7. OwnersAlone'
  <2> SUFFICES ASSUME NEW u \in Thread
               PROVE  /\ thread[u].at \in Owning => job'[thread[u].job].owner = u
                      /\ thread[u].at = "run" => job'[thread[u].job].status = "INPROGRESS"
                      /\ thread[u].at = "signal" =>
                           job'[thread[u].job].status \in {"OK", "ABORTED"}
    BY <1>3 DEF OwnersAlone, Mine, IsFinished
  <2>1. CASE thread[u].at \in Owning
    <3>1. thread[u].job \in Job
      BY <2>1 DEF PInv, ThreadsInOrder, InOrder, InService, Owning, Mine
    <3>2. QED
      BY <1>5, <2>1, <3>1 DEF PInv, OwnersAlone, Mine, IsFinished, JobsKept
  <2>2. CASE thread[u].at \notin Owning
    BY <2>2 DEF Owning
  <2>3. QED
    BY <2>1, <2>2
<1>8. JobsInOrder'
  BY <1>5 DEF JobsKept, JobsInOrder
<1>9. QED
  BY <1>6, <1>7, <1>8 DEF PInv

\* A client that waits for a job.
LEMMA WaitForFinishInv ==
  ASSUME PInv, NEW c \in Client, NEW j \in Job, WaitForFinish(c, j)
  PROVE  PInv'
<1> DEFINE r == [at |-> "yield", job |-> NoJob, mode |-> "service", op |-> "wait",
                 todo |-> {j}]
<1>1. r \in ThreadRecord /\ InOrder(r) /\ r.at \notin Owning
  BY DEF ThreadRecord, Todo, Where, Mode, Op, InOrder, Owning, Whole, InService
<1>2. Becomes(c, r) /\ job' = job /\ pool'.threads \subseteq Worker
  BY DEF WaitForFinish, Becomes, PInv, Typed
<1> HIDE DEF r
<1>3. QED
  BY <1>1, <1>2, Names, MoveInv

\* A client begins an operation on the whole pool.
LEMMA BulkInv ==
  ASSUME PInv, NEW c \in Client, NEW op \in Whole, Bulk(c, op)
  PROVE  PInv'
<1> DEFINE mode == IF op = "abort all" THEN "discard" ELSE "service"
<1>1. mode \in Mode /\ op \in Op
  BY DEF Mode, Op, Whole
<1>2. Start(c, "enter", NoJob, mode, op) /\ job' = job /\ pool'.threads \subseteq Worker
  BY DEF Bulk, PInv, Typed
<1> HIDE DEF mode
<1>3. /\ "enter" \in Where
      /\ "enter" \notin Owning \cup {"call", "settle", "drain"} /\ "enter" \notin InService
  BY DEF Where, Owning, InService
<1>4. QED
  BY <1>1, <1>2, <1>3, Names, StartInv

\* The end of SuspendExecution.
LEMMA SuspendedInv ==
  ASSUME PInv, NEW c \in Client, Suspended(c), thread[c].op \in Whole,
         job' = job, pool'.threads \subseteq Worker
  PROVE  PInv'
<1>1. CASE thread[c].op = "suspend"
  <2>1. Start(c, "free", NoJob, "service", "none")
    BY <1>1 DEF Suspended
  <2>2. "free" \in Aside /\ "service" \in Mode /\ "none" \in Op
    BY DEF Aside, Mode, Op
  <2>3. QED
    BY <2>1, <2>2, Names, StartAside
<1>2. CASE thread[c].op # "suspend"
  <2>1. GotoAll(c, "drain", ToDrain(thread[c].op))
    BY <1>2 DEF Suspended
  <2>2. ToDrain(thread[c].op) \in SUBSET Todo
    BY Names DEF PInv, Typed, ToDrain, Todo
  <2>3. "drain" \in Where /\ "drain" \notin InService
    BY DEF Where, InService
  <2>4. QED
    BY <1>2, <2>1, <2>2, <2>3, Names, GotoAllInv
<1>3. QED
  BY <1>1, <1>2

\* The record of a thread on an operation on the whole pool.
LEMMA WholeRecord ==
  ASSUME PInv, NEW c \in Client
  PROVE  /\ c \in Thread /\ thread[c] \in ThreadRecord /\ InOrder(thread[c])
         /\ pool.threads \in SUBSET Todo /\ pool.threads \subseteq Worker
BY Names DEF PInv, Typed, ThreadsInOrder, Todo

\* SuspendExecution under its mutex.
LEMMA EnterInv ==
  ASSUME PInv, NEW c \in Client, Enter(c)
  PROVE  PInv'
<1>1. thread[c].op \in Whole
  BY WholeRecord DEF Enter, At, InOrder
<1>2. CASE /\ pool' = [pool EXCEPT !.suspending = c]
           /\ GotoAll(c, "call", pool.threads)
  <2>1. "call" \in Where /\ "call" \notin InService
    BY DEF Where, InService
  <2>2. pool'.threads = pool.threads /\ job' = job
    BY <1>2 DEF Enter
  <2>3. QED
    BY <1>1, <1>2, <2>1, <2>2, WholeRecord, GotoAllInv
<1>3. CASE /\ pool' = [pool EXCEPT !.nSuspend = @ + 1]
           /\ Suspended(c)
  <2>1. pool'.threads = pool.threads /\ job' = job
    BY <1>3 DEF Enter
  <2>2. QED
    BY <1>1, <1>3, <2>1, WholeRecord, SuspendedInv
<1>4. QED
  BY <1>2, <1>3 DEF Enter

\* A worker is called.
LEMMA CallWorkerInv ==
  ASSUME PInv, NEW c \in Client, CallWorker(c)
  PROVE  PInv'
<1>1. job' = job /\ pool' = pool
  BY DEF CallWorker
<1>2. thread[c].op \in Whole \cup {"stop"} /\ thread[c].at = "call"
  BY WholeRecord DEF CallWorker, At, InOrder
<1>3. CASE \E w \in thread[c].todo :
             thread' = [thread EXCEPT ![c].todo = @ \ {w}]
  <2>1. PICK w \in thread[c].todo : thread' = [thread EXCEPT ![c].todo = @ \ {w}]
    BY <1>3
  <2> DEFINE todo == thread[c].todo \ {w}
  <2> DEFINE r == [thread[c] EXCEPT !.todo = todo]
  <2>2. Becomes(c, r)
    BY <2>1 DEF Becomes
  <2>3. todo \in SUBSET Todo
    BY WholeRecord DEF ThreadRecord
  <2> HIDE DEF todo
  <2>4. /\ r \in ThreadRecord /\ r.at = "call" /\ r.op = thread[c].op /\ r.todo = todo
    BY <1>2, <2>3, WholeRecord DEF ThreadRecord
  <2> HIDE DEF r
  <2>5. InOrder(r) /\ r.at \notin Owning
    BY <1>2, <2>3, <2>4, WholeRecord DEF InOrder, InService, Owning
  <2>6. QED
    BY <1>1, <2>2, <2>4, <2>5, WholeRecord, MoveInv
<1>4. CASE GotoAll(c, IF thread[c].op = "stop" THEN "join" ELSE "settle", pool.threads)
  <2> DEFINE where == IF thread[c].op = "stop" THEN "join" ELSE "settle"
  <2>1. /\ where \in Where /\ where \notin InService \cup {"enter", "call", "drain"}
        /\ where = "settle" => thread[c].op \in Whole
    BY <1>2 DEF Where, InService
  <2> HIDE DEF where
  <2>2. GotoAll(c, where, pool.threads)
    BY <1>4 DEF where
  <2>3. QED
    BY <1>1, <2>1, <2>2, WholeRecord, GotoAllInv
<1>5. QED
  BY <1>3, <1>4 DEF CallWorker

\* All workers are suspended.
LEMMA SettleInv ==
  ASSUME PInv, NEW c \in Client, Settle(c)
  PROVE  PInv'
<1>1. thread[c].op \in Whole
  BY WholeRecord DEF Settle, At, InOrder
<1>2. pool'.threads = pool.threads /\ job' = job /\ Suspended(c)
  BY DEF Settle
<1>3. QED
  BY <1>1, <1>2, WholeRecord, SuspendedInv

Drains(c) == AbortNext(c) \/ CountNext(c) \/ ExecuteNext(c) \/ Drained(c)

\* Where a client goes on that empties the queues.
DrainsTo(c) ==
  \/ \E q \in Queue : Reserve(c, q) /\ Goto(c, "scan")
  \/ /\ UNCHANGED qvars
     /\ \/ At(c, "drain") /\ thread[c].op = "execute all" /\ Goto(c, "pop next")
        \/ At(c, "drain") /\ Goto(c, "resume")
        \/ At(c, "pop next") /\ Goto(c, "crashed")
        \/ At(c, "drain") /\ \E set \in SUBSET thread[c].todo : GotoAll(c, "drain", set)

\* AbortAll and ExecuteAll leave everything else alone.
LEMMA DrainMoves ==
  ASSUME NEW c \in Client, Drains(c)
  PROVE  /\ UNCHANGED <<job, client, worker, pool>>
         /\ thread[c].at \in {"drain", "pop next"}
         /\ DrainsTo(c)
<1>1. CASE AbortNext(c)
  BY <1>1 DEF AbortNext, Pop, DrainsTo, At
<1>2. CASE CountNext(c)
  <2>1. PICK q \in Queue, p \in Priority :
          IF items[q][p] = <<>> THEN GotoAll(c, "drain", thread[c].todo \ {<<q, p>>})
                                ELSE Goto(c, "pop next")
    BY <1>2 DEF CountNext
  <2>2. thread[c].todo \ {<<q, p>>} \in SUBSET thread[c].todo
    OBVIOUS
  <2>3. QED
    BY <1>2, <2>1, <2>2 DEF CountNext, DrainsTo, At
<1>3. CASE ExecuteNext(c)
  BY <1>3 DEF ExecuteNext, Pop, DrainsTo, At
<1>4. CASE Drained(c)
  BY <1>4 DEF Drained, DrainsTo, At
<1>5. QED
  BY <1>1, <1>2, <1>3, <1>4 DEF Drains

\* AbortAll and ExecuteAll empty the queues.
LEMMA DrainInv ==
  ASSUME PInv, NEW c \in Client, Drains(c)
  PROVE  PInv'
<1>1. job' = job /\ pool' = pool /\ DrainsTo(c)
  BY DrainMoves
<1>2. CASE \E where \in {"scan", "pop next", "resume", "crashed"} : Goto(c, where)
  <2>1. {"scan", "pop next", "resume", "crashed"} \subseteq Aside
    BY DEF Aside
  <2>2. QED
    BY <1>1, <1>2, <2>1, WholeRecord, GotoAside
<1>3. CASE At(c, "drain") /\ \E set \in SUBSET thread[c].todo : GotoAll(c, "drain", set)
  <2>1. PICK set \in SUBSET thread[c].todo : GotoAll(c, "drain", set)
    BY <1>3
  <2>2. set \in SUBSET Todo
    BY WholeRecord DEF ThreadRecord
  <2>3. "drain" \in Where /\ "drain" \notin InService
    BY DEF Where, InService
  <2>4. thread[c].op \in Whole \ {"suspend"}
    BY <1>3, WholeRecord DEF InOrder, At
  <2>5. QED
    BY <1>1, <2>1, <2>2, <2>3, <2>4, WholeRecord, GotoAllInv
<1>4. QED
  BY <1>1, <1>2, <1>3 DEF DrainsTo

\* Stop begins.
LEMMA StopInv ==
  ASSUME PInv, NEW c \in Client, Stop(c)
  PROVE  PInv'
<1> DEFINE r == [thread[c] EXCEPT !.at = "call", !.todo = pool.threads, !.op = "stop"]
<1>1. Becomes(c, r) /\ job' = job /\ pool' = pool
  BY DEF Stop, Becomes
<1>2. "call" \in Where /\ "stop" \in Op /\ "stop" \notin Whole
      /\ "call" \notin InService \cup Owning
  BY DEF Where, Op, Whole, InService, Owning
<1>3. r \in ThreadRecord /\ r.at = "call" /\ r.op = "stop"
  BY <1>2, WholeRecord DEF ThreadRecord
<1> HIDE DEF r
<1>4. InOrder(r) /\ r.at \notin Owning
  BY <1>2, <1>3 DEF InOrder
<1>5. QED
  BY <1>1, <1>3, <1>4, WholeRecord, MoveInv

\* A job is in finitely many places of queues.
LEMMA EntriesFinite ==
  ASSUME FinitelyMany, NEW queues \in SUBSET Queue, NEW j
  PROVE  /\ IsFiniteSet(EntriesOf(queues, j)) /\ Cardinality(EntriesOf(queues, j)) \in Nat
         /\ \A q \in Queue : IsFiniteSet(Entries(q, j)) /\ Cardinality(Entries(q, j)) \in Nat
<1>1. ASSUME NEW q \in Queue
      PROVE  IsFiniteSet(Entries(q, j)) /\ Cardinality(Entries(q, j)) \in Nat
  <2>1. Entries(q, j) \subseteq Places(q, TopPriority)
    BY DEF Entries
  <2>2. QED
    BY <2>1, FS_Subset, FS_CardinalityType DEF FinitelyMany
<1>2. IsFiniteSet(queues)
  <2>1. IsFiniteSet(Worker)
    BY Names, ThreadAssumption, FS_Subset
  <2>2. IsFiniteSet(Queue)
    BY <2>1, FS_AddElement, PoolAssumption
  <2>3. QED
    BY <2>2, FS_Subset
<1> DEFINE some(q) == {<<q, e>> : e \in Entries(q, j)}
           parts == {some(q) : q \in queues}
<1>3. ASSUME NEW q \in queues
      PROVE  IsFiniteSet(some(q))
  <2> DEFINE f == [e \in Entries(q, j) |-> <<q, e>>]
  <2>1. f \in Surjection(Entries(q, j), some(q))
    BY DEF Surjection
  <2>2. QED
    BY <1>1, <2>1, FS_Surjection
<1>4. IsFiniteSet(parts)
  <2> DEFINE f == [q \in queues |-> some(q)]
  <2> HIDE DEF some
  <2>1. f \in Surjection(queues, parts)
    BY DEF Surjection
  <2>2. QED
    BY <1>2, <2>1, FS_Surjection
<1>5. \A S \in parts : IsFiniteSet(S)
  <2> HIDE DEF some
  <2>1. QED
    BY <1>3
<1>6. IsFiniteSet(UNION parts)
  BY <1>4, <1>5, FS_UNION
<1>7. EntriesOf(queues, j) = UNION parts
  BY DEF EntriesOf
<1> HIDE DEF parts
<1>8. QED
  BY <1>1, <1>6, <1>7, FS_CardinalityType

\* Stop aborts what is left in the shared queue; what is left in the others is lost.
LEMMA JoinInv ==
  ASSUME PInv, FinitelyMany, NEW c \in Client, Join(c)
  PROVE  PInv'
<1> DEFINE r == [at |-> "free", job |-> NoJob, mode |-> "service", op |-> "none", todo |-> {}]
<1>1. r \in ThreadRecord /\ InOrder(r) /\ r.at \notin Owning
  BY DEF ThreadRecord, Where, Mode, Op, InOrder, Owning, Whole, InService
<1>2. Becomes(c, r) /\ pool'.threads \subseteq Worker /\ c \in Thread
  <2>1. pool' = [pool EXCEPT !.threads = {}, !.idle = {}]
    BY DEF Join
  <2>2. pool'.threads \subseteq Worker
    BY <2>1
  <2>3. QED
    BY <2>2, Names DEF Join, Start, Becomes
<1>3. JobsKept
  <2> DEFINE Aborts(j) == Entries(Shared, j) # {} /\ CanExecute(j)
  <2>1. \A j \in Job :
          job'[j] = [job[j] EXCEPT
                       !.refs = @ - Cardinality(Entries(Shared, j)),
                       !.lost = @ + Cardinality(EntriesOf(pool.threads, j)),
                       !.status = IF Aborts(j) THEN "ABORTED" ELSE @,
                       !.calls = IF Aborts(j) THEN @ + 1 ELSE @,
                       !.done = @ \/ Aborts(j)]
    BY DEF Join
  <2>2. job' = [j \in Job |-> job'[j]]
    BY DEF Join
  <2>3. ASSUME NEW j \in Job
        PROVE  /\ job'[j] \in JobRecord
               /\ job'[j].owner = job[j].owner
               /\ job[j].status = "INPROGRESS" => job'[j].status = "INPROGRESS"
               /\ IsFinished(j) => IsFinished(j)'
               /\ job'[j].calls = IF CanExecute(j)' THEN 0 ELSE 1
               /\ job'[j].done => IsFinished(j)'
    <3>1. job[j] \in JobRecord
      BY DEF PInv, Typed
    <3>2. /\ job[j].calls = IF CanExecute(j) THEN 0 ELSE 1
          /\ job[j].done => IsFinished(j)
      BY DEF PInv, JobsInOrder
    <3>3. PICK refs \in Int : refs = job[j].refs - Cardinality(Entries(Shared, j))
      <4>1. Entries(Shared, j) \subseteq Places(Shared, TopPriority)
        BY DEF Entries
      <4>2. Cardinality(Entries(Shared, j)) \in Nat
        BY <4>1, Names, FS_Subset, FS_CardinalityType DEF FinitelyMany
      <4>3. job[j].refs \in Int
        BY <3>1 DEF JobRecord
      <4>4. QED
        BY <4>2, <4>3
    <3>3a. PICK lost \in Nat : lost = job[j].lost + Cardinality(EntriesOf(pool.threads, j))
      <4>1. pool.threads \subseteq Queue
        BY Names DEF PInv, Typed
      <4>2. Cardinality(EntriesOf(pool.threads, j)) \in Nat
        BY <4>1, EntriesFinite
      <4>3. job[j].lost \in Nat
        BY <3>1 DEF JobRecord
      <4>4. QED
        BY <4>2, <4>3
    <3>4. CASE Aborts(j)
      <4> DEFINE status == "ABORTED"
      <4> DEFINE done == TRUE
      <4> DEFINE calls == job[j].calls + 1
      <4> DEFINE s == [job[j] EXCEPT !.refs = refs, !.lost = lost, !.status = status,
                                     !.calls = calls, !.done = done]
      <4>1. status \in {"OK", "ABORTED"} /\ status \in Status
            /\ status \notin {"UNSERVICED", "PENDING"}
        BY DEF Status
      <4>2. calls = 1 /\ done \in BOOLEAN
        BY <3>2, <3>4
      <4>3. job'[j] = s
        BY <2>1, <3>3, <3>3a, <3>4
      <4>4. job[j].status \notin {"INPROGRESS", "OK", "ABORTED"}
        BY <3>4 DEF CanExecute
      <4> HIDE DEF status, calls, done
      <4>5. s \in JobRecord /\ s.owner = job[j].owner /\ s.status = status /\ s.calls = calls
        BY <3>1, <4>1, <4>2 DEF JobRecord
      <4> HIDE DEF s
      <4>6. QED
        BY <4>1, <4>2, <4>3, <4>4, <4>5 DEF CanExecute, IsFinished
    <3>5. CASE ~Aborts(j)
      <4>2. /\ job'[j] \in JobRecord
            /\ job'[j].owner = job[j].owner /\ job'[j].status = job[j].status
            /\ job'[j].calls = job[j].calls /\ job'[j].done = job[j].done
        <5> HIDE DEF Aborts
        <5>1. job'[j] = [job[j] EXCEPT !.refs = refs, !.lost = lost,
                                       !.status = job[j].status,
                                       !.calls = job[j].calls,
                                       !.done = (job[j].done \/ FALSE)]
          BY <2>1, <3>3, <3>3a, <3>5
        <5>2. job[j].done \/ FALSE <=> job[j].done
          OBVIOUS
        <5>3. QED
          BY ZenonT(30), <3>1, <3>3, <3>3a, <5>1, <5>2 DEF JobRecord
      <4>3. QED
        BY <3>2, <4>2 DEF CanExecute, IsFinished
    <3>6. QED
      BY <3>4, <3>5
  <2>4. QED
    BY <2>1, <2>2, <2>3 DEF JobsKept
<1>4. QED
  BY <1>1, <1>2, <1>3, KeepInv

\* The steps of a client that leave the jobs alone and take it aside.
LEMMA AsideInv ==
  ASSUME PInv, NEW c \in Client,
         Count(c) \/ Yield(c) \/ Help(c) \/ EndWait(c) \/ Resume(c) \/ EndSuspend(c)
  PROVE  PInv'
<1>1. /\ "free" \in Aside /\ "help" \in Aside /\ "block" \in Aside /\ "resume" \in Aside
      /\ "service" \in Mode /\ "none" \in Op /\ "resume" \in Op
  BY DEF Aside, Mode, Op
<1>2. c \in Thread /\ pool.threads \subseteq Worker
  BY WholeRecord
<1>3. CASE Count(c)
  BY <1>1, <1>2, <1>3, StartAside DEF Count
<1>4. CASE Yield(c)
  BY <1>1, <1>2, <1>4, GotoAside DEF Yield
<1>5. CASE Help(c)
  <2>1. Pop(c, Shared, Goto(c, "block")) /\ pool' = pool
    BY <1>5 DEF Help
  <2>2. QED
    BY <1>1, <1>2, <2>1, PopInv
<1>6. CASE EndWait(c)
  BY <1>1, <1>2, <1>6, StartAside DEF EndWait
<1>7. CASE Resume(c)
  <2>1. pool' = [pool EXCEPT !.nSuspend = @ - 1]
    BY <1>7 DEF Resume
  <2>2. pool'.threads = pool.threads
    BY <2>1
  <2>3. QED
    BY <1>1, <1>2, <1>7, <2>2, StartAside DEF Resume
<1>8. CASE EndSuspend(c)
  BY <1>1, <1>2, <1>8, StartAside DEF EndSuspend
<1>9. QED
  BY <1>3, <1>4, <1>5, <1>6, <1>7, <1>8

\* Every step of a client in what it has begun keeps the invariant.
LEMMA ContinueInv ==
  ASSUME PInv, IInv, NEW c \in Client, Continue(c)
  PROVE  PInv'
<1>1. c \in Thread /\ QTypeOK /\ FinitelyMany
  BY Names DEF IInv, QInv
<1>2. CASE Service(c)
  BY <1>1, <1>2, ScanInv, CheckInv, LockInv, BeginInv, RunInv, SignalInv, ReleaseInv DEF Service
<1>3. QED
  BY <1>1, <1>2, AsideInv, EnterInv, CallWorkerInv, SettleInv, DrainInv, JoinInv
     DEF Continue, Drains

\* So does every operation it begins.
LEMMA BeginsInv ==
  ASSUME PInv, NEW c \in Client, Begins(c)
  PROVE  PInv'
<1>1. ASSUME NEW j \in Job, AddInline(c, j)
      PROVE  PInv'
  <2>1. "execute" \in Mode
    BY DEF Mode
  <2>2. QED
    BY <1>1, <2>1, StartCheck DEF AddInline
<1>2. ASSUME NEW j \in Job, NEW mode \in {"execute", "abort"}, ExecuteOrAbort(c, j, mode)
      PROVE  PInv'
  <2>1. mode \in Mode
    BY DEF Mode
  <2>2. QED
    BY <1>2, <2>1, StartCheck DEF ExecuteOrAbort
<1>3. ASSUME NEW op \in {"suspend", "abort all", "execute all"}, Bulk(c, op)
      PROVE  PInv'
  BY <1>3, BulkInv DEF Whole
<1>4. QED
  BY <1>1, <1>2, <1>3, AddJobInv, LetGoInv, WaitForFinishInv, ChangePriorityInv, StopInv
     DEF Begins

\* A step that changes nothing.
LEMMA IdleInv ==
  ASSUME PInv, UNCHANGED vars
  PROVE  PInv'
BY DEF PInv, Typed, ThreadsInOrder, OwnersAlone, JobsInOrder, Mine, IsFinished, CanExecute, vars

\* Every step of the pool keeps the invariant.
LEMMA PNextInv ==
  ASSUME PInv, IInv, [Next]_vars
  PROVE  PInv'
BY WorkInv, ContinueInv, BeginsInv, IdleInv DEF Next, IInv, QInv

\* The invariant of threads and jobs holds in a started pool.
LEMMA PInitInv == Init => PInv
<1> SUFFICES ASSUME Init
             PROVE  PInv
  OBVIOUS
<1>1. PICK threads \in SUBSET Worker :
        /\ pool = [threads |-> threads, nSuspend |-> 0, suspending |-> Nobody, idle |-> threads]
        /\ thread = [t \in Thread |->
                       [at |-> IF t \in Client THEN "free"
                               ELSE IF t \in threads THEN "wait" ELSE "exited",
                        job |-> NoJob, mode |-> "service", op |-> "none", todo |-> {}]]
  BY DEF Init
<1>2. ASSUME NEW t \in Thread
      PROVE  /\ thread[t] \in ThreadRecord /\ InOrder(thread[t])
             /\ thread[t].at \notin Owning
  <2> DEFINE where == IF t \in Client THEN "free" ELSE IF t \in threads THEN "wait" ELSE "exited"
  <2> DEFINE mode == "service"
  <2> DEFINE op == "none"
  <2>1. thread[t] = [at |-> where, job |-> NoJob, mode |-> mode, op |-> op, todo |-> {}]
    BY <1>1
  <2>2. where \in Aside /\ mode \in Mode /\ op \in Op /\ op \notin Whole
    BY DEF Aside, Mode, Op, Whole
  <2> HIDE DEF where, mode, op
  <2>3. QED
    BY <2>1, <2>2, AsideIs DEF ThreadRecord, InOrder
<1>3. ASSUME NEW j \in Job
      PROVE  /\ job[j] \in JobRecord /\ job[j].status = "UNSERVICED"
             /\ job[j].calls = 0 /\ job[j].done = FALSE
  <2> DEFINE refs == IF \E c \in Client : j \in client[c].held THEN 1 ELSE 0
  <2>1. /\ job[j] = [status |-> "UNSERVICED", owner |-> Nobody, done |-> FALSE,
                     priority |-> 0, calls |-> 0, lost |-> 0, refs |-> refs]
        /\ refs \in Int
    BY DEF Init
  <2> HIDE DEF refs
  <2>2. 0 \in Priority
    BY PriorityAssumption DEF Priority
  <2>3. QED
    BY <2>1, <2>2 DEF JobRecord, Status
<1>4. job = [j \in Job |-> job[j]] /\ thread = [t \in Thread |-> thread[t]]
  BY <1>1 DEF Init
<1>5. Typed
  BY <1>1, <1>2, <1>3, <1>4 DEF Typed
<1>6. ThreadsInOrder /\ OwnersAlone
  BY <1>2 DEF ThreadsInOrder, OwnersAlone, Owning
<1>7. JobsInOrder
  BY <1>3 DEF JobsInOrder, CanExecute
<1>8. QED
  BY <1>5, <1>6, <1>7 DEF PInv

-----------------------------------------------------------------------------
(* The pool's use of its queues *)

\* A look into a queue is a step of JobQueue.
LEMMA ScanStep ==
  ASSUME NEW t \in Thread, Scan(t)
  PROVE  [QNext]_qvars
BY DEF Scan, QNext, QStep

\* Servicing a job leaves the queues alone otherwise.
LEMMA ServiceStep ==
  ASSUME NEW t \in Thread, Service(t)
  PROVE  [QNext]_qvars
BY ScanStep DEF Service, Check, Lock, Begin, Run, Signal, Release

\* The queues as a worker uses them.
LEMMA WorkStep ==
  ASSUME NEW w \in Worker, Work(w)
  PROVE  [QNext]_qvars
<1>1. w \in Thread /\ w \in Queue /\ Shared \in Queue
  BY Names
<1>2. CASE Service(w)
  BY <1>1, <1>2, ServiceStep
<1>3. CASE PopDirect(w) \/ PopShared(w)
  <2>1. (\E q \in Queue : Reserve(w, q)) \/ UNCHANGED qvars
    BY <1>1, <1>3 DEF PopDirect, PopShared, Pop
  <2>2. QED
    BY <1>1, <2>1 DEF QNext, QStep
<1>4. CASE Wake(w) \/ Finish(w) \/ Reply(w) \/ SuspendSelf(w) \/ Awaken(w)
  BY <1>4 DEF Wake, Finish, Reply, SuspendSelf, Awaken
<1>5. QED
  BY <1>2, <1>3, <1>4 DEF Work

\* The queues as a client uses them in what it has begun; Join flushes them.
LEMMA ContinueStep ==
  ASSUME PInv, NEW c \in Client, Continue(c)
  PROVE  [QNext]_qvars
<1>1. c \in Thread /\ Shared \in Queue
  BY Names
<1>2. CASE Service(c)
  BY <1>1, <1>2, ServiceStep
<1>3. CASE Help(c) \/ Drains(c)
  <2>1. (\E q \in Queue : Reserve(c, q)) \/ UNCHANGED qvars
    BY <1>1, <1>3, DrainMoves DEF Help, Pop, DrainsTo
  <2>2. QED
    BY <1>1, <2>1 DEF QNext, QStep
<1>4. CASE Count(c)
  BY <1>1, <1>4 DEF Count, QNext, QStep
<1>5. CASE Join(c)
  <2>1. pool.threads \cup {Shared} \in SUBSET Queue
    BY Names DEF PInv, Typed
  <2>2. QED
    BY <1>5, <2>1 DEF Join, QNext
<1>6. CASE \/ Yield(c) \/ EndWait(c) \/ Enter(c) \/ CallWorker(c) \/ Settle(c) \/ Resume(c)
           \/ EndSuspend(c)
  BY <1>6 DEF Yield, EndWait, Enter, CallWorker, Settle, Resume, EndSuspend
<1>7. QED
  BY <1>2, <1>3, <1>4, <1>5, <1>6 DEF Continue, Drains

\* The queues as operations that begin use them: AddJob and ChangePriority push.
LEMMA BeginsStep ==
  ASSUME PInv, NEW c \in Client, Begins(c)
  PROVE  [QNext]_qvars
<1>1. c \in Thread /\ Shared \in Queue /\ \A j \in Job : Target(j) \in Queue
  BY Names
<1>2. ASSUME NEW j \in Job, AddJob(c, j)
      PROVE  [QNext]_qvars
  <2>1. Urgency(j) \in Priority
    BY <1>2, AddJobInv
  <2>2. PushItem(c, Target(j), Urgency(j), j)
    BY <1>2 DEF AddJob
  <2>3. QED
    BY <1>1, <2>1, <2>2 DEF QNext, QStep
<1>3. ASSUME NEW j \in Job, NEW p \in Priority, ChangePriority(c, j, p)
      PROVE  [QNext]_qvars
  BY <1>1, <1>3 DEF ChangePriority, QNext, QStep
<1>4. ASSUME NEW j \in Job, AddInline(c, j) \/ LetGo(c, j) \/ WaitForFinish(c, j)
      PROVE  [QNext]_qvars
  BY <1>4 DEF AddInline, LetGo, WaitForFinish
<1>5. ASSUME NEW j \in Job, NEW mode, ExecuteOrAbort(c, j, mode)
      PROVE  [QNext]_qvars
  BY <1>5 DEF ExecuteOrAbort
<1>6. ASSUME NEW op, Bulk(c, op)
      PROVE  [QNext]_qvars
  BY <1>6 DEF Bulk
<1>7. CASE Stop(c)
  BY <1>7 DEF Stop
<1>8. QED
  BY <1>2, <1>3, <1>4, <1>5, <1>6, <1>7 DEF Begins

\* Whatever the pool does is a step of the queues, or none.
LEMMA PoolStep ==
  ASSUME PInv, [Next]_vars
  PROVE  [QNext]_qvars
<1>1. CASE UNCHANGED vars
  BY <1>1 DEF vars, qvars
<1>2. QED
  BY <1>1, WorkStep, ContinueStep, BeginsStep DEF Next

-----------------------------------------------------------------------------
PoolInv == PInv /\ IInv

\* The whole invariant, that of the queues included, holds at first.
LEMMA PoolInitInv == Init => PoolInv
BY PInitInv, QInitInv DEF Init, PoolInv

\* Every step of the pool keeps it.
LEMMA PoolNextInv == PoolInv /\ [Next]_vars => PoolInv'
BY PNextInv, PoolStep, QNextInv DEF PoolInv

\* The pool uses its queues as JobQueue says: what is proved of them holds in it.
THEOREM PoolUsesQueues == Spec => QSpec
<1>1. Init => PoolInv /\ QInit
  BY PoolInitInv DEF Init
<1>2. PoolInv /\ [Next]_vars => PoolInv'
  BY PoolNextInv
<1>3. PoolInv /\ [Next]_vars => [QNext]_qvars
  BY PoolStep DEF PoolInv
<1>4. QED
  BY <1>1, <1>2, <1>3, PTL DEF Spec, QSpec

\* The assertion of Pop, "Expected at least one queue item", never fails, whoever
\* takes from the queues: workers, clients that wait, and those that drain them.
THEOREM PoolItemExpected == Spec => []ExpectedItem
BY PoolUsesQueues, ItemExpected, PTL

\* No job is executed or aborted twice, and it is signalled when that is over.
THEOREM JobsCalledOnce == Spec => []CalledOnce
<1>1. PoolInv => CalledOnce
  <2> SUFFICES ASSUME PoolInv, NEW j \in Job
               PROVE  /\ job[j].calls <= 1
                      /\ IsFinished(j) => job[j].calls = 1
                      /\ job[j].done => IsFinished(j)
    BY DEF CalledOnce
  <2>1. /\ job[j].calls = IF CanExecute(j) THEN 0 ELSE 1
        /\ job[j].done => IsFinished(j)
    BY DEF PoolInv, PInv, JobsInOrder
  <2>2. QED
    BY <2>1 DEF CanExecute, IsFinished
<1>2. QED
  BY <1>1, PoolInitInv, PoolNextInv, PTL DEF Spec

-----------------------------------------------------------------------------
(* The state of the pool between its steps *)

\* Modes in which a thread gives back a reference.
Give == {"service", "discard"}

\* Where a client can be in each operation, and how it treats the jobs it meets there.
ClientAt(r) ==
  /\ r.op = "none" => r.at \in {"free", "count"} \cup InService
  /\ r.op = "wait" => r.at \in {"yield", "help", "block", "scan"} \cup InService
                      /\ r.mode = "service"
  /\ r.op = "suspend" => r.at \in {"enter", "call", "settle"}
  /\ r.op \in {"abort all", "execute all"} =>
       /\ r.at \in {"enter", "call", "settle", "drain", "pop next", "crashed", "scan", "resume"}
                     \cup InService
       /\ r.mode \in Give
  /\ r.at \in {"pop next", "crashed"} => r.op = "execute all"
  /\ r.op = "stop" => r.at \in {"call", "join"}
  /\ r.op = "resume" => r.at = "resume"
  /\ r.at = "release" => r.mode \in Give

WorkerAt(r) ==
  /\ r.op = "none" /\ r.mode = "service"
  /\ r.at \in {"wait", "pop", "pop shared", "scan", "finish", "suspend", "suspended", "exited"}
              \cup InService

InPlaces ==
  /\ \A w \in Worker : WorkerAt(thread[w]) /\ (thread[w].at # "exited" => w \in pool.threads)
  /\ \A c \in Client : ClientAt(thread[c])

AccessAgrees == \A t \in Thread : At(t, "scan") <=> access[t].at = "scanning"

OwnersKnown ==
  \A j \in Job : \A t \in Thread :
    job[j].owner = t => thread[t].at \in Owning /\ Mine(t) = j

Recorded ==
  /\ pool \in [threads : SUBSET Worker, nSuspend : Int, suspending : Client \cup {Nobody},
               idle : SUBSET Worker]
  /\ pool.idle \subseteq pool.threads
  /\ worker \in [Worker -> [call : {"none", "suspend", "exit"}, awake : BOOLEAN]]
  /\ client \in [Client -> [held : SUBSET Job, suspends : Nat, bulk : Int]]

\* A client that holds the mutex of the suspension, and calls or awaits the workers.
Bulky(r) == r.at \in {"call", "settle"} /\ r.op # "stop"
Stopping(c) == thread[c].op = "stop"
\* A worker that nobody has called.
Quiet(w) == worker[w].call = "none" /\ worker[w].awake /\ thread[w].at # "suspend"

\* A client counted in m_nSuspend by the operation it is in.
Holding(r) ==
  \/ r.op = "resume"
  \/ r.op \in {"abort all", "execute all"} /\ r.at \notin {"enter", "call", "settle"}
Suspensions ==
  [c \in Client |-> client[c].suspends + IF Holding(thread[c]) THEN 1 ELSE 0]

\* One client at a time suspends the workers, while the pool is not suspended; it calls
\* workers nobody has called; the count is that of the suspensions not yet ended.
OneSuspends ==
  /\ \A c \in Client : pool.suspending = c <=> Bulky(thread[c])
  /\ pool.suspending # Nobody => pool.nSuspend = 0
  /\ pool.nSuspend = SumFunctionOnSet(Suspensions, Client)

Targets ==
  \A c \in Client :
    /\ thread[c].at = "call" =>
         thread[c].todo \subseteq pool.threads /\ \A w \in thread[c].todo : Quiet(w)
    /\ thread[c].at \in {"settle", "join"} => thread[c].todo = pool.threads

StopsAlone ==
  \A c \in Client :
    Stopping(c) => pool.nSuspend = 0 /\ \A d \in Client \ {c} : thread[d].at = "free"

Awakened ==
  /\ pool.nSuspend = 0 /\ pool.suspending = Nobody /\ (\A c \in Client : ~Stopping(c)) =>
       \A w \in pool.threads : Quiet(w)
  /\ pool.nSuspend > 0 => \A w \in pool.threads : ~worker[w].awake
  /\ \A w \in Worker :
       /\ ~worker[w].awake => At(w, "suspended") /\ worker[w].call = "none"
       /\ At(w, "suspend") => worker[w].call = "none"

SInv ==
  /\ Recorded /\ InPlaces /\ AccessAgrees /\ OwnersKnown
  /\ OneSuspends /\ Targets /\ StopsAlone /\ Awakened

-----------------------------------------------------------------------------
(* What a step does to the record of its thread *)

Alone(t) == \A u \in Thread : u # t => thread'[u] = thread[u]

\* A thread goes on elsewhere with what it has.
LEMMA GotoFields ==
  ASSUME PInv, NEW t \in Thread, NEW where, Goto(t, where)
  PROVE  /\ Alone(t) /\ thread'[t].at = where
         /\ thread'[t].job = thread[t].job /\ thread'[t].mode = thread[t].mode
         /\ thread'[t].op = thread[t].op /\ thread'[t].todo = thread[t].todo
BY DEF PInv, Typed, ThreadRecord, Goto, Alone

\* A client goes on with a set of workers or queues to work through.
LEMMA GotoAllFields ==
  ASSUME PInv, NEW t \in Thread, NEW where, NEW set, GotoAll(t, where, set)
  PROVE  /\ Alone(t) /\ thread'[t].at = where
         /\ thread'[t].job = thread[t].job /\ thread'[t].mode = thread[t].mode
         /\ thread'[t].op = thread[t].op /\ thread'[t].todo = set
BY DEF PInv, Typed, ThreadRecord, GotoAll, Alone

\* A thread begins something, or is done with everything.
LEMMA StartFields ==
  ASSUME PInv, NEW t \in Thread, NEW where, NEW j, NEW mode, NEW op,
         Start(t, where, j, mode, op)
  PROVE  /\ Alone(t) /\ thread'[t].at = where
         /\ thread'[t].job = j /\ thread'[t].mode = mode
         /\ thread'[t].op = op /\ thread'[t].todo = {}
BY DEF PInv, Typed, Start, Alone

\* A thread leaves its job.
LEMMA LeaveJobFields ==
  ASSUME PInv, NEW t \in Thread, LeaveJob(t)
  PROVE  /\ Alone(t) /\ thread'[t].at = Back(t)
         /\ thread'[t].job = NoJob
         /\ thread'[t].mode = IF Back(t) = "free" THEN "service" ELSE thread[t].mode
         /\ thread'[t].op = thread[t].op /\ thread'[t].todo = thread[t].todo
<1> DEFINE where == Back(t)
<1> DEFINE mode == IF where = "free" THEN "service" ELSE thread[t].mode
<1>1. thread' = [thread EXCEPT ![t] = [thread[t] EXCEPT !.at = where, !.job = NoJob,
                                                        !.mode = mode]]
  BY DEF LeaveJob
<1>2. thread[t] \in ThreadRecord /\ thread \in [Thread -> ThreadRecord]
  BY DEF PInv, Typed
<1> HIDE DEF where, mode
<1>3. /\ Alone(t) /\ thread'[t].at = where /\ thread'[t].job = NoJob /\ thread'[t].mode = mode
      /\ thread'[t].op = thread[t].op /\ thread'[t].todo = thread[t].todo
  BY <1>1, <1>2 DEF ThreadRecord, Alone
<1>4. QED
  BY <1>3 DEF where, mode

\* A thread takes a job from a queue.
LEMMA TakeFields ==
  ASSUME PInv, NEW t \in Thread, NEW j,
         thread' = [thread EXCEPT ![t].at = "check", ![t].job = j]
  PROVE  /\ Alone(t) /\ thread'[t].at = "check"
         /\ thread'[t].job = j /\ thread'[t].mode = thread[t].mode
         /\ thread'[t].op = thread[t].op /\ thread'[t].todo = thread[t].todo
BY DEF PInv, Typed, ThreadRecord, Alone

\* A thread that is through with its job.
LEMMA ThroughFields ==
  ASSUME PInv, NEW t \in Thread, Through(t)
  PROVE  /\ Alone(t) /\ thread'[t].op = thread[t].op /\ thread'[t].todo = thread[t].todo
         /\ \/ /\ thread'[t].at = "release" /\ thread'[t].mode = thread[t].mode
               /\ thread[t].mode \in Give /\ thread'[t].job = thread[t].job
            \/ /\ thread'[t].at = Back(t) /\ thread[t].mode \notin Give
               /\ thread'[t].mode = IF Back(t) = "free" THEN "service" ELSE thread[t].mode
<1>1. CASE Releasing(t)
  BY <1>1, GotoFields DEF Through, Releasing, Give
<1>2. CASE ~Releasing(t)
  BY <1>2, LeaveJobFields DEF Through, Releasing, Give
<1>3. QED
  BY <1>1, <1>2

\* A step of a thread in the service of a job, other than looking for one in vain.
LEMMA ServiceFields ==
  ASSUME PInv, NEW t \in Thread, Service(t), ~Skip(t)
  PROVE  /\ Alone(t) /\ thread'[t].op = thread[t].op /\ thread'[t].todo = thread[t].todo
         /\ thread[t].at \in InService \cup {"scan"}
         /\ \/ /\ thread'[t].at \in InService /\ thread'[t].mode = thread[t].mode
               /\ thread'[t].at = "release" => thread[t].mode \in Give
            \/ /\ thread'[t].at = Back(t)
               /\ thread'[t].mode = IF Back(t) = "free" THEN "service" ELSE thread[t].mode
<1>0. /\ "release" \in InService /\ "check" \in InService /\ "lock" \in InService
      /\ "begin" \in InService /\ "run" \in InService /\ "signal" \in InService
  BY DEF InService
<1>1. CASE Scan(t)
  BY <1>0, <1>1, TakeFields DEF Scan, At
<1>2. CASE Check(t)
  BY <1>0, <1>2, ThroughFields, GotoFields DEF Check, At
<1>3. CASE Lock(t)
  BY <1>0, <1>3, GotoFields DEF Lock, At, Give
<1>4. CASE Begin(t)
  <2>1. CASE Through(t)
    BY <1>0, <1>4, <2>1, ThroughFields DEF Begin, At
  <2>2. CASE Goto(t, "run") \/ Goto(t, "signal")
    BY <1>0, <1>4, <2>2, GotoFields DEF Begin, At
  <2>3. QED
    BY <1>4, <2>1, <2>2 DEF Begin
<1>5. CASE Run(t)
  BY <1>0, <1>5, GotoFields DEF Run, At
<1>6. CASE Signal(t)
  BY <1>0, <1>6, ThroughFields DEF Signal, At
<1>7. CASE Release(t)
  BY <1>0, <1>7, LeaveJobFields DEF Release, At
<1>8. QED
  BY <1>1, <1>2, <1>3, <1>4, <1>5, <1>6, <1>7 DEF Service

-----------------------------------------------------------------------------
(* What the steps of a single thread have in common *)

\* The places hold when the one thread that moves is in its place.
LEMMA PlacesKept ==
  ASSUME InPlaces, NEW t \in Thread, Alone(t), pool'.threads = pool.threads,
         t \in Worker => WorkerAt(thread'[t]) /\ (thread'[t].at # "exited" => t \in pool.threads),
         t \in Client => ClientAt(thread'[t])
  PROVE  InPlaces'
<1>1. ASSUME NEW w \in Worker
      PROVE  WorkerAt(thread'[w]) /\ (thread'[w].at # "exited" => w \in pool.threads)
  <2>1. w \in Thread /\ WorkerAt(thread[w]) /\ (thread[w].at # "exited" => w \in pool.threads)
    BY Names DEF InPlaces
  <2>2. CASE w # t
    <3>1. thread'[w] = thread[w]
      BY <2>1, <2>2 DEF Alone
    <3>2. QED
      BY <2>1, <3>1
  <2>3. QED
    BY <2>2
<1>2. ASSUME NEW c \in Client
      PROVE  ClientAt(thread'[c])
  <2>1. c \in Thread /\ ClientAt(thread[c])
    BY Names DEF InPlaces
  <2>2. CASE c # t
    <3>1. thread'[c] = thread[c]
      BY <2>1, <2>2 DEF Alone
    <3>2. QED
      BY <2>1, <3>1
  <2>3. QED
    BY <2>2
<1>3. QED
  BY <1>1, <1>2 DEF InPlaces

\* A thread is in Pop where the queues say so.
LEMMA AccessKept ==
  ASSUME AccessAgrees, NEW t \in Thread, Alone(t),
         \A u \in Thread : u # t => access'[u] = access[u],
         thread'[t].at = "scan" <=> access'[t].at = "scanning"
  PROVE  AccessAgrees'
BY DEF AccessAgrees, Alone, At

\* Owners remain known when the thread that moves still owns what it is said to own.
LEMMA OwnersKept ==
  ASSUME OwnersKnown, NEW t \in Thread, Alone(t),
         \A j \in Job : \A u \in Thread :
           job'[j].owner = u =>
             IF u = t THEN thread'[t].at \in Owning /\ thread'[t].job = j
             ELSE job[j].owner = u
  PROVE  OwnersKnown'
BY DEF OwnersKnown, Alone, Mine

\* A step that has nothing to do with the suspension of the pool.
LEMMA SuspensionKept ==
  ASSUME SInv, NEW t \in Thread, Alone(t), worker' = worker,
         \A c \in Client : client'[c].suspends = client[c].suspends,
         pool'.threads = pool.threads, pool'.nSuspend = pool.nSuspend,
         pool'.suspending = pool.suspending,
         thread'[t].at \notin {"call", "settle", "join", "suspend"},
         t \in Worker => worker[t].awake,
         t \in Client => /\ thread[t].at \notin {"call", "settle", "join"}
                         /\ \A c \in Client : ~Stopping(c)
                         /\ thread'[t].op # "stop"
                         /\ Holding(thread'[t]) <=> Holding(thread[t])
  PROVE  OneSuspends' /\ Targets' /\ StopsAlone' /\ Awakened'
<1>0. Worker \subseteq Thread /\ Client \subseteq Thread /\ Worker \cap Client = {}
  BY Names, PoolAssumption
<1>1. ASSUME NEW c \in Client
      PROVE  Bulky(thread'[c]) <=> Bulky(thread[c])
  BY <1>0 DEF Alone, Bulky
<1>2. ASSUME NEW c \in Client
      PROVE  Holding(thread'[c]) <=> Holding(thread[c])
  <2>1. CASE c = t
    BY <2>1
  <2>2. CASE c # t
    BY <1>0, <2>2 DEF Alone
  <2>3. QED
    BY <2>1, <2>2
<1>3. Suspensions' = Suspensions
  BY <1>2 DEF Suspensions
<1>4. OneSuspends'
  BY <1>1, <1>3 DEF SInv, OneSuspends
<1>5. ASSUME NEW w \in Worker
      PROVE  /\ Quiet(w) => Quiet(w)'
             /\ At(w, "suspend")' => At(w, "suspend")
             /\ ~worker[w].awake => thread'[w] = thread[w]
  BY <1>0 DEF Quiet, Alone, At
<1>6. pool.threads \subseteq Worker
  BY DEF SInv, Recorded
<1>7. Targets'
  <2> SUFFICES ASSUME NEW c \in Client
               PROVE  /\ thread'[c].at = "call" =>
                           /\ thread'[c].todo \subseteq pool'.threads
                           /\ \A w \in thread'[c].todo : Quiet(w)'
                      /\ thread'[c].at \in {"settle", "join"} => thread'[c].todo = pool'.threads
    BY DEF Targets
  <2>1. CASE c = t
    BY <2>1
  <2>2. CASE c # t
    <3>1. thread'[c] = thread[c]
      BY <1>0, <2>2 DEF Alone
    <3>2. QED
      BY <1>5, <1>6, <3>1 DEF SInv, Targets
  <2>3. QED
    BY <2>1, <2>2
<1>8. StopsAlone'
  <2>1. CASE t \in Client
    BY <1>0, <2>1 DEF StopsAlone, Stopping, Alone
  <2>2. CASE t \notin Client
    BY <1>0, <2>2 DEF SInv, StopsAlone, Stopping, Alone
  <2>3. QED
    BY <2>1, <2>2
<1>9. Awakened'
  <2>1. \A c \in Client : Stopping(c) => Stopping(c)'
    BY <1>0 DEF Stopping, Alone
  <2>2. ASSUME NEW w \in Worker, ~worker[w].awake
        PROVE  At(w, "suspended")' /\ worker[w].call = "none"
    BY <1>5, <2>2 DEF SInv, Awakened, At
  <2>3. ASSUME NEW w \in Worker, At(w, "suspend")'
        PROVE  worker[w].call = "none"
    BY <1>5, <2>3 DEF SInv, Awakened
  <2>4. QED
    BY <1>5, <1>6, <2>1, <2>2, <2>3 DEF SInv, Awakened
<1>10. QED
  BY <1>4, <1>7, <1>8, <1>9

\* While a client is under way, nobody stops the pool.
LEMMA NobodyStops ==
  ASSUME SInv, NEW t \in Client, thread[t].at \notin {"free", "call", "join"}
  PROVE  \A c \in Client : ~Stopping(c)
<1>1. ClientAt(thread[t])
  BY DEF SInv, InPlaces
<1>2. QED
  BY <1>1 DEF SInv, StopsAlone, Stopping, ClientAt

\* A worker that is not suspended is awake, and one of the pool's.
LEMMA WorkerAwake ==
  ASSUME SInv, NEW w \in Worker
  PROVE  /\ thread[w].at # "suspended" => worker[w].awake
         /\ thread[w].at # "exited" => w \in pool.threads
         /\ WorkerAt(thread[w])
BY DEF SInv, Awakened, InPlaces, At

\* The fields of the pool, of which idle changes.
LEMMA IdleFields ==
  ASSUME Recorded, NEW set \in SUBSET pool.threads,
         pool' = [pool EXCEPT !.idle = set]
  PROVE  /\ pool'.threads = pool.threads /\ pool'.nSuspend = pool.nSuspend
         /\ pool'.suspending = pool.suspending /\ pool'.idle = set
         /\ pool' \in [threads : SUBSET Worker, nSuspend : Int,
                       suspending : Client \cup {Nobody}, idle : SUBSET Worker]
         /\ pool'.idle \subseteq pool'.threads
<1>1. pool \in [threads : SUBSET Worker, nSuspend : Int,
                suspending : Client \cup {Nobody}, idle : SUBSET Worker]
  BY DEF Recorded
<1>2. set \in SUBSET Worker
  BY <1>1
<1>3. QED
  BY <1>1, <1>2

\* The owners, when the step of a thread locks or unlocks the job it is at, or none.
LEMMA OwnerMoves ==
  ASSUME PInv, SInv, NEW t \in Thread, Alone(t),
         \/ /\ \A j \in Job : job'[j].owner = job[j].owner
            /\ \/ thread[t].at \notin Owning
               \/ thread'[t].at \in Owning /\ thread'[t].job = thread[t].job
         \/ /\ \A j \in Job \ {Mine(t)} : job'[j].owner = job[j].owner
            /\ \/ job'[Mine(t)].owner = Nobody
               \/ /\ job'[Mine(t)].owner = t /\ thread[t].at \notin Owning
                  /\ thread'[t].at \in Owning /\ thread'[t].job = Mine(t)
  PROVE  OwnersKnown'
<1>1. Nobody \notin Thread
  BY PoolAssumption
<1>2. \A j \in Job : job[j].owner = t => thread[t].at \in Owning /\ Mine(t) = j
  BY DEF SInv, OwnersKnown
<1>3. OwnersKnown
  BY DEF SInv
<1>4. ASSUME NEW j \in Job, NEW u \in Thread, job'[j].owner = u
      PROVE  IF u = t THEN thread'[t].at \in Owning /\ thread'[t].job = j
             ELSE job[j].owner = u
  <2>1. CASE j = Mine(t)
    BY <1>1, <1>2, <1>4, <2>1 DEF Mine
  <2>2. CASE j # Mine(t)
    BY <1>1, <1>2, <1>4, <2>2 DEF Mine
  <2>3. QED
    BY <2>1, <2>2
<1>5. QED
  BY <1>3, <1>4, OwnersKept

\* A job of which one field changes.
LEMMA OwnerFields ==
  ASSUME PInv, NEW j \in Job
  PROVE  /\ \A u : job' = [job EXCEPT ![j].owner = u] =>
                    job'[j].owner = u /\ \A k \in Job \ {j} : job'[k].owner = job[k].owner
         /\ \A u, e : job' = [job EXCEPT ![j].done = e, ![j].owner = u] =>
                    job'[j].owner = u /\ \A k \in Job \ {j} : job'[k].owner = job[k].owner
         /\ \A e, n : job' = [job EXCEPT ![j].calls = n, ![j].status = e] =>
                    \A k \in Job : job'[k].owner = job[k].owner
         /\ \A e : job' = [job EXCEPT ![j].status = e] =>
                    \A k \in Job : job'[k].owner = job[k].owner
         /\ \A n : job' = [job EXCEPT ![j].refs = n] =>
                    \A k \in Job : job'[k].owner = job[k].owner
         /\ \A e, p, n : job' = [job EXCEPT ![j].status = e, ![j].priority = p, ![j].refs = n] =>
                    \A k \in Job : job'[k].owner = job[k].owner
         /\ \A p, n : job' = [job EXCEPT ![j].priority = p, ![j].refs = n] =>
                    \A k \in Job : job'[k].owner = job[k].owner
<1>1. job[j] \in JobRecord /\ job \in [Job -> JobRecord]
  BY DEF PInv, Typed
<1>2. ASSUME NEW u,
             job' = [job EXCEPT ![j].owner = u]
      PROVE  job'[j].owner = u /\ \A k \in Job \ {j} : job'[k].owner = job[k].owner
  BY <1>1, <1>2 DEF JobRecord
<1>3. ASSUME NEW u, NEW e,
             job' = [job EXCEPT ![j].done = e, ![j].owner = u]
      PROVE  job'[j].owner = u /\ \A k \in Job \ {j} : job'[k].owner = job[k].owner
  BY <1>1, <1>3 DEF JobRecord
<1>4. ASSUME NEW e, NEW n,
             job' = [job EXCEPT ![j].calls = n, ![j].status = e]
      PROVE  \A k \in Job : job'[k].owner = job[k].owner
  BY <1>1, <1>4 DEF JobRecord
<1>5. ASSUME NEW e,
             job' = [job EXCEPT ![j].status = e]
      PROVE  \A k \in Job : job'[k].owner = job[k].owner
  BY <1>1, <1>5 DEF JobRecord
<1>6. ASSUME NEW n,
             job' = [job EXCEPT ![j].refs = n]
      PROVE  \A k \in Job : job'[k].owner = job[k].owner
  BY <1>1, <1>6 DEF JobRecord
<1>7. ASSUME NEW e, NEW p, NEW n,
             job' = [job EXCEPT ![j].status = e, ![j].priority = p, ![j].refs = n]
      PROVE  \A k \in Job : job'[k].owner = job[k].owner
  BY <1>1, <1>7 DEF JobRecord
<1>8. ASSUME NEW p, NEW n,
             job' = [job EXCEPT ![j].priority = p, ![j].refs = n]
      PROVE  \A k \in Job : job'[k].owner = job[k].owner
  BY <1>1, <1>8 DEF JobRecord
<1>9. QED
  BY <1>2, <1>3, <1>4, <1>5, <1>6, <1>7, <1>8

-----------------------------------------------------------------------------
(* Each action keeps SInv *)

\* Owners, as a thread services a job.
LEMMA ServiceOwners ==
  ASSUME PInv, SInv, NEW t \in Thread, Service(t), ~Skip(t)
  PROVE  OwnersKnown'
<1>0. /\ "release" \notin Owning /\ "check" \notin Owning /\ "lock" \notin Owning
      /\ "scan" \notin Owning
      /\ "begin" \in Owning /\ "run" \in Owning /\ "signal" \in Owning
  BY DEF Owning
<1>1. CASE Scan(t)
  BY <1>0, <1>1, ServiceFields, OwnerMoves DEF Scan, At
<1>2. CASE Check(t)
  BY <1>0, <1>2, ServiceFields, OwnerMoves DEF Check, At
<1>j. ASSUME thread[t].at \in InService
      PROVE  Mine(t) \in Job
  BY <1>j, AtJob
<1>3. CASE Lock(t)
  <2>0. Mine(t) \in Job
    BY <1>3, <1>j DEF Lock, At, InService
  <2>1. CASE job' = [job EXCEPT ![Mine(t)].owner = t] /\ Goto(t, "begin")
    <3>1. job'[Mine(t)].owner = t /\ \A k \in Job \ {Mine(t)} : job'[k].owner = job[k].owner
      BY <2>0, <2>1, OwnerFields
    <3>2. thread'[t].at \in Owning /\ thread'[t].job = Mine(t) /\ Alone(t)
      BY <1>0, <2>1, GotoFields DEF Mine
    <3>3. thread[t].at \notin Owning
      BY <1>0, <1>3 DEF Lock, At
    <3>4. QED
      BY <3>1, <3>2, <3>3, OwnerMoves
  <2>2. CASE Goto(t, "release") /\ UNCHANGED job
    BY <1>0, <1>3, <2>2, GotoFields, OwnerMoves DEF Lock, At
  <2>3. QED
    BY <1>3, <2>1, <2>2 DEF Lock
<1>4. CASE Begin(t)
  <2>0. Mine(t) \in Job
    BY <1>4, <1>j DEF Begin, At, InService
  <2>1. CASE /\ job' = [job EXCEPT ![Mine(t)].calls = @ + 1,
                                   ![Mine(t)].status = IF Servicing(t) THEN "INPROGRESS"
                                                       ELSE "ABORTED"]
             /\ Goto(t, IF Servicing(t) THEN "run" ELSE "signal")
    <3>1. \A k \in Job : job'[k].owner = job[k].owner
      BY <2>0, <2>1, OwnerFields
    <3>2. thread'[t].at \in Owning /\ thread'[t].job = thread[t].job /\ Alone(t)
      BY <1>0, <2>1, GotoFields
    <3>3. QED
      BY <3>1, <3>2, OwnerMoves
  <2>2. CASE job' = [job EXCEPT ![Mine(t)].owner = Nobody]
    BY <1>4, <2>0, <2>2, ServiceFields, OwnerFields, OwnerMoves
  <2>3. QED
    BY <1>4, <2>1, <2>2 DEF Begin
<1>5. CASE Run(t)
  <2>0. Mine(t) \in Job /\ job' = [job EXCEPT ![Mine(t)].status = "OK"] /\ Goto(t, "signal")
    BY <1>5, <1>j DEF Run, At, InService
  <2>1. \A k \in Job : job'[k].owner = job[k].owner
    BY <2>0, OwnerFields
  <2>2. QED
    BY <1>0, <2>0, <2>1, GotoFields, OwnerMoves
<1>6. CASE Signal(t)
  <2>0. Mine(t) \in Job /\ job' = [job EXCEPT ![Mine(t)].done = TRUE, ![Mine(t)].owner = Nobody]
    BY <1>6, <1>j DEF Signal, At, InService
  <2>1. QED
    BY <1>6, <2>0, ServiceFields, OwnerFields, OwnerMoves
<1>7. CASE Release(t)
  <2>0. Mine(t) \in Job /\ job' = [job EXCEPT ![Mine(t)].refs = @ - 1]
    BY <1>7, <1>j DEF Release, At, InService
  <2>1. \A k \in Job : job'[k].owner = job[k].owner
    BY <2>0, OwnerFields
  <2>2. QED
    BY <1>0, <1>7, <2>1, ServiceFields, OwnerMoves DEF Release, At
<1>8. QED
  BY <1>1, <1>2, <1>3, <1>4, <1>5, <1>6, <1>7 DEF Service

\* Looking into one queue after the other is all a step of Scan is, until there is an item.
LEMMA SkipAccess ==
  ASSUME QTypeOK, NEW t \in Thread, Skip(t)
  PROVE  \A u \in Thread : access'[u].at = access[u].at
BY AccessCases, AccessKinds DEF Skip, QTypeOK, Scanning

\* Threads are in a queue when they look for a job, and else outside or counting one.
LEMMA AccessMoves ==
  ASSUME QTypeOK, AccessAgrees, NEW t \in Thread, Alone(t),
         \/ access' = access /\ thread[t].at # "scan" /\ thread'[t].at # "scan"
         \/ (\E q \in Queue : Reserve(t, q)) /\ thread'[t].at = "scan"
         \/ /\ \/ \E q \in Queue, p \in Priority, j \in Job : PushItem(t, q, p, j)
               \/ CountItem(t) \/ Take(t)
            /\ thread'[t].at # "scan"
  PROVE  AccessAgrees'
<1>1. access \in [Thread -> Whereabouts]
  BY DEF QTypeOK
<1>2. CASE access' = access /\ thread[t].at # "scan" /\ thread'[t].at # "scan"
  BY <1>2, AccessKept DEF AccessAgrees, At
<1>3. CASE (\E q \in Queue : Reserve(t, q)) /\ thread'[t].at = "scan"
  <2>1. PICK q \in Queue : Reserve(t, q)
    BY <1>3
  <2>2. access' = [access EXCEPT ![t] = Scanning(q, TopPriority)]
    BY <2>1 DEF Reserve
  <2>3. access'[t].at = "scanning" /\ \A u \in Thread : u # t => access'[u] = access[u]
    BY <1>1, <2>2, AccessKinds
  <2>4. QED
    BY <1>3, <2>3, AccessKept
<1>4. CASE /\ \/ \E q \in Queue, p \in Priority, j \in Job : PushItem(t, q, p, j)
              \/ CountItem(t) \/ Take(t)
           /\ thread'[t].at # "scan"
  <2>1. CASE CountItem(t) \/ Take(t)
    <3>1. access' = [access EXCEPT ![t] = Outside]
      BY <2>1 DEF CountItem, Take
    <3>2. access'[t].at # "scanning" /\ \A u \in Thread : u # t => access'[u] = access[u]
      BY <1>1, <3>1, AccessKinds
    <3>3. QED
      BY <1>4, <3>2, AccessKept
  <2>2. CASE \E q \in Queue, p \in Priority, j \in Job : PushItem(t, q, p, j)
    <3>1. PICK q \in Queue : access' = [access EXCEPT ![t] = Counting(q)]
      BY <2>2 DEF PushItem
    <3>2. access'[t].at # "scanning" /\ \A u \in Thread : u # t => access'[u] = access[u]
      BY <1>1, <3>1, AccessKinds
    <3>3. QED
      BY <1>4, <3>2, AccessKept
  <2>3. QED
    BY <1>4, <2>1, <2>2
<1>5. QED
  BY <1>2, <1>3, <1>4

\* The service of a job.
LEMMA ServiceKeeps ==
  ASSUME PInv, QTypeOK, SInv, NEW t \in Thread, Service(t)
  PROVE  SInv'
<1>0. worker' = worker /\ client' = client
  BY DEF Service, Scan, Check, Lock, Begin, Run, Signal, Release
<1>1. ASSUME Skip(t)
      PROVE  SInv'
  <2>1. At(t, "scan") /\ UNCHANGED <<thread, pool, job>>
    <3>1. thread[t].at = "scan"
      <4>1. access[t].at = "scanning"
        BY <1>1 DEF Skip
      <4>2. QED
        BY <4>1 DEF SInv, AccessAgrees, At
    <3>2. Scan(t)
      BY <3>1 DEF Service, Check, Lock, Begin, Run, Signal, Release, At
    <3>3. access' # [access EXCEPT ![t] = Outside]
      <4>1. access'[t].at = "scanning"
        BY <1>1, SkipAccess DEF Skip
      <4>2. QED
        BY ZenonT(30), <4>1, AccessKinds DEF QTypeOK
    <3>4. QED
      BY <3>1, <3>2, <3>3 DEF Scan, Take, At
  <2>2. AccessAgrees'
    BY <1>1, <2>1, SkipAccess DEF SInv, AccessAgrees, At
  <2>3. InPlaces' /\ OwnersKnown' /\ Recorded'
    BY <1>0, <2>1 DEF SInv, InPlaces, OwnersKnown, Recorded, WorkerAt, ClientAt, Mine
  <2>4. Suspensions' = Suspensions
    BY <1>0, <2>1 DEF Suspensions, Holding
  <2>5. OneSuspends' /\ Targets' /\ StopsAlone' /\ Awakened'
    BY <1>0, <2>1, <2>4 DEF SInv, OneSuspends, Targets, StopsAlone, Awakened, Bulky, Quiet,
                            Stopping, At
  <2>6. QED
    BY <2>2, <2>3, <2>5 DEF SInv
<1>2. ASSUME ~Skip(t)
      PROVE  SInv'
  <2>1. /\ Alone(t) /\ thread'[t].op = thread[t].op /\ thread'[t].todo = thread[t].todo
        /\ thread[t].at \in InService \cup {"scan"}
        /\ \/ /\ thread'[t].at \in InService /\ thread'[t].mode = thread[t].mode
              /\ thread'[t].at = "release" => thread[t].mode \in Give
           \/ /\ thread'[t].at = Back(t)
              /\ thread'[t].mode = IF Back(t) = "free" THEN "service" ELSE thread[t].mode
    BY <1>2, ServiceFields
  <2>2. /\ pool'.threads = pool.threads /\ pool'.nSuspend = pool.nSuspend
        /\ pool'.suspending = pool.suspending /\ Recorded'
    <3>1. CASE pool' = pool
      BY <1>0, <3>1 DEF SInv, Recorded
    <3>2. CASE pool' = [pool EXCEPT !.idle = @ \ {t}]
      <4>1. pool.idle \ {t} \in SUBSET pool.threads /\ Recorded
        BY DEF SInv, Recorded
      <4>2. QED
        BY <1>0, <3>2, <4>1, IdleFields DEF Recorded
    <3>3. QED
      BY <1>2, <3>1, <3>2 DEF Service, Scan, Check, Lock, Begin, Run, Signal, Release
  <2>3. /\ Back(t) \in {"finish", "yield", "drain", "free"}
        /\ thread[t].at \notin {"call", "settle", "join", "enter", "free", "exited", "suspended"}
        /\ thread'[t].at \notin {"call", "settle", "join", "enter", "suspend", "scan"}
    BY <2>1 DEF Back, InService
  <2>4. AccessAgrees'
    <3>1. CASE Scan(t)
      <4>1. Take(t)
        BY <1>2, <3>1 DEF Scan
      <4>2. QED
        BY <2>1, <2>3, <4>1, AccessMoves DEF SInv
    <3>2. CASE ~Scan(t)
      <4>1. access' = access /\ thread[t].at # "scan"
        BY <3>2 DEF Service, Check, Lock, Begin, Run, Signal, Release, At, qvars
      <4>2. QED
        BY <2>1, <2>3, <4>1, AccessMoves DEF SInv
    <3>3. QED
      BY <3>1, <3>2
  <2>5. OwnersKnown'
    BY <1>2, ServiceOwners
  <2>6. t \in Worker => WorkerAt(thread'[t]) /\ t \in pool.threads /\ worker[t].awake
    <3> SUFFICES ASSUME t \in Worker
                 PROVE  WorkerAt(thread'[t]) /\ t \in pool.threads /\ worker[t].awake
      OBVIOUS
    <3>1. WorkerAt(thread[t]) /\ t \in pool.threads /\ worker[t].awake
      BY <2>3, WorkerAwake
    <3>2. Back(t) = "finish"
      BY DEF Back
    <3>3. QED
      BY <2>1, <3>1, <3>2 DEF WorkerAt, InService
  <2>7. ASSUME t \in Client
        PROVE  /\ ClientAt(thread'[t]) /\ \A c \in Client : ~Stopping(c)
               /\ thread'[t].op # "stop"
               /\ Holding(thread'[t]) <=> Holding(thread[t])
    <3>1. ClientAt(thread[t]) /\ t \notin Worker
      BY <2>7, PoolAssumption DEF SInv, InPlaces
    <3>2. thread[t].op \in {"none", "wait", "abort all", "execute all"}
      <4>1. thread[t].op \in Op
        BY <2>7, WholeRecord DEF ThreadRecord
      <4>2. QED
        BY <2>1, <3>1, <4>1 DEF ClientAt, Op, InService
    <3>3. /\ thread[t].op = "none" => Back(t) = "free"
          /\ thread[t].op = "wait" => Back(t) = "yield"
          /\ thread[t].op \in {"abort all", "execute all"} => Back(t) = "drain"
      BY <3>1, <3>2 DEF Back
    <3>4. ClientAt(thread'[t])
      BY <2>1, <3>1, <3>2, <3>3 DEF ClientAt, InService, Give
    <3>5. \A c \in Client : ~Stopping(c)
      BY <2>3, <2>7, NobodyStops
    <3>6. Holding(thread'[t]) <=> Holding(thread[t])
      BY <2>1, <2>3 DEF Holding
    <3>7. QED
      BY <2>1, <3>2, <3>4, <3>5, <3>6
  <2>8. InPlaces'
    BY <2>1, <2>2, <2>6, <2>7, PlacesKept DEF SInv
  <2>9. OneSuspends' /\ Targets' /\ StopsAlone' /\ Awakened'
    BY <1>0, <2>1, <2>2, <2>3, <2>6, <2>7, SuspensionKept
  <2>10. QED
    BY <2>2, <2>4, <2>5, <2>8, <2>9 DEF SInv
<1>3. QED
  BY <1>1, <1>2

\* The steps of a worker that is neither called nor suspended, nor at a job.
LEMMA WorkerKeeps ==
  ASSUME PInv, QTypeOK, SInv, NEW w \in Worker, Alone(w),
         worker' = worker, client' = client, job' = job,
         pool' = pool \/ pool' = [pool EXCEPT !.idle = @ \cup {w}],
         thread[w].at \in {"wait", "pop", "pop shared", "finish", "suspended"},
         thread'[w].at \in {"wait", "pop", "pop shared", "scan"},
         thread'[w].op = thread[w].op, thread'[w].mode = thread[w].mode,
         worker[w].awake,
         IF thread'[w].at = "scan" THEN \E q \in Queue : Reserve(w, q) ELSE access' = access
  PROVE  SInv'
<1>1. w \in Thread /\ w \notin Client
  BY Names, PoolAssumption
<1>2. WorkerAt(thread[w]) /\ w \in pool.threads
  BY WorkerAwake
<1>3. /\ pool'.threads = pool.threads /\ pool'.nSuspend = pool.nSuspend
      /\ pool'.suspending = pool.suspending /\ Recorded'
  <2>1. CASE pool' = pool
    BY <2>1 DEF SInv, Recorded
  <2>2. CASE pool' = [pool EXCEPT !.idle = @ \cup {w}]
    <3>1. pool.idle \cup {w} \in SUBSET pool.threads /\ Recorded
      BY <1>2 DEF SInv, Recorded
    <3>2. QED
      BY <2>2, <3>1, IdleFields DEF Recorded
  <2>3. QED
    BY <2>1, <2>2
<1>4. AccessAgrees'
  BY <1>1, AccessMoves DEF SInv
<1>5. OwnersKnown'
  BY <1>1, OwnerMoves DEF Owning
<1>6. WorkerAt(thread'[w])
  BY <1>2 DEF WorkerAt
<1>7. InPlaces'
  BY <1>1, <1>2, <1>3, <1>6, PlacesKept DEF SInv
<1>8. OneSuspends' /\ Targets' /\ StopsAlone' /\ Awakened'
  BY <1>1, <1>3, SuspensionKept
<1>9. QED
  BY <1>3, <1>4, <1>5, <1>7, <1>8 DEF SInv

\* The record of a worker of which one field changes.
LEMMA WorkerFields ==
  ASSUME Recorded, NEW w \in Worker
  PROVE  /\ \A a \in BOOLEAN : worker' = [worker EXCEPT ![w].awake = a] =>
              /\ worker' \in [Worker -> [call : {"none", "suspend", "exit"}, awake : BOOLEAN]]
              /\ worker'[w].awake = a /\ worker'[w].call = worker[w].call
              /\ \A v \in Worker : v # w => worker'[v] = worker[v]
         /\ \A a \in {"none", "suspend", "exit"} : worker' = [worker EXCEPT ![w].call = a] =>
              /\ worker' \in [Worker -> [call : {"none", "suspend", "exit"}, awake : BOOLEAN]]
              /\ worker'[w].call = a /\ worker'[w].awake = worker[w].awake
              /\ \A v \in Worker : v # w => worker'[v] = worker[v]
<1> DEFINE R == [call : {"none", "suspend", "exit"}, awake : BOOLEAN]
<1>1. worker \in [Worker -> R] /\ worker[w] \in R
  BY DEF Recorded
<1>2. ASSUME NEW r \in R, worker' = [worker EXCEPT ![w] = r]
      PROVE  /\ worker' \in [Worker -> R] /\ worker'[w] = r
             /\ \A v \in Worker : v # w => worker'[v] = worker[v]
  <2> HIDE DEF R
  <2>1. QED
    BY <1>1, <1>2
<1>3. ASSUME NEW a \in BOOLEAN
      PROVE  LET r == [worker[w] EXCEPT !.awake = a]
             IN  r \in R /\ r.awake = a /\ r.call = worker[w].call
  BY <1>1
<1>4. ASSUME NEW a \in {"none", "suspend", "exit"}
      PROVE  LET r == [worker[w] EXCEPT !.call = a]
             IN  r \in R /\ r.call = a /\ r.awake = worker[w].awake
  BY <1>1
<1>5. ASSUME NEW a \in BOOLEAN, worker' = [worker EXCEPT ![w].awake = a]
      PROVE  /\ worker' \in [Worker -> R]
             /\ worker'[w].awake = a /\ worker'[w].call = worker[w].call
             /\ \A v \in Worker : v # w => worker'[v] = worker[v]
  <2> DEFINE r == [worker[w] EXCEPT !.awake = a]
  <2>1. r \in R /\ r.awake = a /\ r.call = worker[w].call
    BY <1>3
  <2>2. worker' = [worker EXCEPT ![w] = r]
    BY <1>5
  <2> HIDE DEF r, R
  <2>3. QED
    BY <1>2, <2>1, <2>2
<1>6. ASSUME NEW a \in {"none", "suspend", "exit"}, worker' = [worker EXCEPT ![w].call = a]
      PROVE  /\ worker' \in [Worker -> R]
             /\ worker'[w].call = a /\ worker'[w].awake = worker[w].awake
             /\ \A v \in Worker : v # w => worker'[v] = worker[v]
  <2> DEFINE r == [worker[w] EXCEPT !.call = a]
  <2>1. r \in R /\ r.call = a /\ r.awake = worker[w].awake
    BY <1>4
  <2>2. worker' = [worker EXCEPT ![w] = r]
    BY <1>6
  <2> HIDE DEF r, R
  <2>3. QED
    BY <1>2, <2>1, <2>2
<1>7. QED
  BY <1>5, <1>6

\* A called worker that answers or suspends itself: it was not quiet.
LEMMA CalledKeeps ==
  ASSUME PInv, QTypeOK, SInv, NEW w \in Worker, Alone(w), client' = client, job' = job,
         access' = access,
         Recorded', \A v \in Worker : v # w => worker'[v] = worker[v],
         pool' = pool \/ pool' = [pool EXCEPT !.idle = @ \ {w}],
         ~Quiet(w), thread[w].at \in {"wait", "suspend"},
         thread'[w].at \in {"suspend", "suspended", "exited"},
         thread'[w].op = thread[w].op, thread'[w].mode = thread[w].mode,
         worker'[w].call = "none",
         worker'[w].awake = (thread'[w].at # "suspended")
  PROVE  SInv'
<1>1. w \in Thread /\ w \notin Client /\ Client \subseteq Thread /\ Worker \subseteq Thread
  BY Names, PoolAssumption
<1>2. WorkerAt(thread[w]) /\ w \in pool.threads /\ worker[w].awake
  BY WorkerAwake
<1>3. /\ pool'.threads = pool.threads /\ pool'.nSuspend = pool.nSuspend
      /\ pool'.suspending = pool.suspending
  <2>1. CASE pool' = pool
    BY <2>1
  <2>2. CASE pool' = [pool EXCEPT !.idle = @ \ {w}]
    <3>1. pool.idle \ {w} \in SUBSET pool.threads /\ Recorded
      BY DEF SInv, Recorded
    <3>2. QED
      BY <2>2, <3>1, IdleFields
  <2>3. QED
    BY <2>1, <2>2
<1>4. AccessAgrees'
  BY <1>1, AccessMoves DEF SInv
<1>5. OwnersKnown'
  BY <1>1, OwnerMoves DEF Owning
<1>6. WorkerAt(thread'[w])
  BY <1>2 DEF WorkerAt
<1>7. InPlaces'
  BY <1>1, <1>2, <1>3, <1>6, PlacesKept DEF SInv
<1>8. \A c \in Client : thread'[c] = thread[c]
  BY <1>1 DEF Alone
<1>9. \A v \in Worker : v # w => (Quiet(v)' <=> Quiet(v)) /\ thread'[v] = thread[v]
  BY <1>1 DEF Quiet, Alone
<1>10. OneSuspends' /\ StopsAlone'
  <2>1. Suspensions' = Suspensions
    BY <1>8 DEF Suspensions
  <2>2. OneSuspends'
    BY <1>3, <1>8, <2>1 DEF SInv, OneSuspends
  <2>3. StopsAlone'
    BY <1>3, <1>8 DEF SInv, StopsAlone, Stopping
  <2>4. QED
    BY <2>2, <2>3
<1>11. Targets'
  BY <1>3, <1>8, <1>9 DEF SInv, Targets, Recorded
<1>12. Awakened'
  <2>1. ~(pool.nSuspend = 0 /\ pool.suspending = Nobody /\ \A c \in Client : ~Stopping(c))
    BY <1>2 DEF SInv, Awakened
  <2>2. pool.nSuspend > 0 => FALSE
    BY <1>2 DEF SInv, Awakened
  <2>3. ASSUME NEW v \in Worker
        PROVE  /\ ~worker'[v].awake => At(v, "suspended")' /\ worker'[v].call = "none"
               /\ At(v, "suspend")' => worker'[v].call = "none"
    <3>1. CASE v = w
      BY <3>1 DEF At
    <3>2. CASE v # w
      BY <1>9, <3>2 DEF SInv, Awakened, At
    <3>3. QED
      BY <3>1, <3>2
  <2>4. \A c \in Client : Stopping(c)' <=> Stopping(c)
    BY <1>8 DEF Stopping
  <2>5. QED
    BY <1>3, <2>1, <2>2, <2>3, <2>4 DEF Awakened
<1>13. QED
  BY <1>4, <1>5, <1>7, <1>10, <1>11, <1>12 DEF SInv

\* Every step of a worker keeps SInv.
LEMMA WorkKeeps ==
  ASSUME PInv, QTypeOK, SInv, NEW w \in Worker, Work(w)
  PROVE  SInv'
<1>1. w \in Thread /\ w \in Queue /\ Shared \in Queue
  BY Names
<1>2. CASE Service(w)
  BY <1>1, <1>2, ServiceKeeps
<1>3. CASE Wake(w)
  <2>1. /\ thread[w].at = "wait" /\ job' = job /\ client' = client /\ worker' = worker
        /\ pool' = pool /\ access' = access /\ Goto(w, "pop")
    BY <1>3 DEF Wake, At, qvars
  <2>2. /\ Alone(w) /\ thread'[w].at = "pop"
        /\ thread'[w].op = thread[w].op /\ thread'[w].mode = thread[w].mode
    BY <1>1, <2>1, GotoFields
  <2>3. worker[w].awake
    BY <2>1, WorkerAwake
  <2>4. QED
    BY <2>1, <2>2, <2>3, WorkerKeeps
<1>4. CASE PopDirect(w)
  <2>1. /\ thread[w].at = "pop" /\ job' = job /\ client' = client /\ worker' = worker
        /\ pool' = pool
        /\ \/ Reserve(w, w) /\ Goto(w, "scan")
           \/ access' = access /\ Goto(w, "pop shared")
    BY <1>4 DEF PopDirect, Pop, At, qvars
  <2>2. /\ Alone(w) /\ thread'[w].op = thread[w].op /\ thread'[w].mode = thread[w].mode
        /\ \/ Reserve(w, w) /\ thread'[w].at = "scan"
           \/ access' = access /\ thread'[w].at = "pop shared"
    BY <1>1, <2>1, GotoFields
  <2>3. worker[w].awake
    BY <2>1, WorkerAwake
  <2>4. QED
    BY <1>1, <2>1, <2>2, <2>3, WorkerKeeps
<1>5. CASE PopShared(w)
  <2>1. thread[w].at = "pop shared" /\ job' = job /\ client' = client /\ worker' = worker
    BY <1>5 DEF PopShared, Pop, At
  <2>2. CASE Reserve(w, Shared) /\ Goto(w, "scan")
    <3>1. Alone(w) /\ thread'[w].at = "scan" /\ thread'[w].op = thread[w].op
          /\ thread'[w].mode = thread[w].mode
      BY <1>1, <2>2, GotoFields
    <3>2. pool' = pool
      BY <1>5, <3>1 DEF PopShared
    <3>3. QED
      BY <1>1, <2>1, <2>2, <3>1, <3>2, WorkerAwake, WorkerKeeps
  <2>3. CASE BackToWait(w) /\ UNCHANGED qvars
    <3>1. Alone(w) /\ thread'[w].at = "wait" /\ thread'[w].op = thread[w].op
          /\ thread'[w].mode = thread[w].mode
      BY <1>1, <2>3, GotoFields DEF BackToWait
    <3>2. QED
      BY <1>1, <2>1, <2>3, <3>1, WorkerAwake, WorkerKeeps DEF BackToWait, qvars
  <2>4. QED
    BY <1>5, <2>2, <2>3 DEF PopShared, Pop
<1>6. CASE Finish(w)
  <2>1. /\ thread[w].at = "finish" /\ job' = job /\ client' = client /\ worker' = worker
        /\ access' = access
        /\ pool' = pool \/ pool' = [pool EXCEPT !.idle = @ \cup {w}]
        /\ Goto(w, "wait") \/ Goto(w, "pop")
    BY <1>6 DEF Finish, BackToWait, At, qvars
  <2>2. /\ Alone(w) /\ thread'[w].op = thread[w].op /\ thread'[w].mode = thread[w].mode
        /\ thread'[w].at \in {"wait", "pop"}
    BY <1>1, <2>1, GotoFields
  <2>3. worker[w].awake
    BY <2>1, WorkerAwake
  <2>4. QED
    BY <2>1, <2>2, <2>3, WorkerKeeps
<1>7. CASE Reply(w)
  <2>1. /\ thread[w].at = "wait" /\ job' = job /\ client' = client /\ access' = access
        /\ worker[w].call # "none" /\ worker' = [worker EXCEPT ![w].call = "none"]
        /\ \/ Goto(w, "suspend") /\ pool' = pool
           \/ Goto(w, "exited") /\ pool' = [pool EXCEPT !.idle = @ \ {w}]
    BY <1>7 DEF Reply, At, qvars
  <2>2. /\ Alone(w) /\ thread'[w].at \in {"suspend", "exited"}
        /\ thread'[w].op = thread[w].op /\ thread'[w].mode = thread[w].mode
    BY <1>1, <2>1, GotoFields
  <2>3. /\ worker' \in [Worker -> [call : {"none", "suspend", "exit"}, awake : BOOLEAN]]
        /\ worker'[w].call = "none" /\ worker'[w].awake = worker[w].awake
        /\ \A v \in Worker : v # w => worker'[v] = worker[v]
    BY <2>1, WorkerFields DEF SInv
  <2>4. worker[w].awake
    BY <2>1, WorkerAwake
  <2>5. Recorded'
    <3>1. CASE pool' = pool
      BY <2>1, <2>3, <3>1 DEF SInv, Recorded
    <3>2. CASE pool' = [pool EXCEPT !.idle = @ \ {w}]
      <4>1. pool.idle \ {w} \in SUBSET pool.threads /\ Recorded
        BY DEF SInv, Recorded
      <4>2. QED
        BY <2>1, <2>3, <3>2, <4>1, IdleFields DEF Recorded
    <3>3. QED
      BY <2>1, <3>1, <3>2
  <2>6. ~Quiet(w)
    BY <2>1 DEF Quiet
  <2>7. worker'[w].awake = (thread'[w].at # "suspended")
    BY <2>2, <2>3, <2>4
  <2>8. QED
    BY <2>1, <2>2, <2>3, <2>5, <2>6, <2>7, CalledKeeps
<1>8. CASE SuspendSelf(w)
  <2>1. /\ thread[w].at = "suspend" /\ job' = job /\ client' = client /\ access' = access
        /\ worker' = [worker EXCEPT ![w].awake = FALSE] /\ pool' = pool
        /\ Goto(w, "suspended")
    BY <1>8 DEF SuspendSelf, At, qvars
  <2>2. /\ Alone(w) /\ thread'[w].at = "suspended"
        /\ thread'[w].op = thread[w].op /\ thread'[w].mode = thread[w].mode
    BY <1>1, <2>1, GotoFields
  <2>3. /\ worker' \in [Worker -> [call : {"none", "suspend", "exit"}, awake : BOOLEAN]]
        /\ worker'[w].call = worker[w].call /\ worker'[w].awake = FALSE
        /\ \A v \in Worker : v # w => worker'[v] = worker[v]
    BY <2>1, WorkerFields DEF SInv
  <2>4. worker[w].call = "none" /\ ~Quiet(w)
    BY <2>1 DEF SInv, Awakened, At, Quiet
  <2>5. Recorded'
    BY <2>1, <2>3 DEF SInv, Recorded
  <2>6. worker'[w].awake = (thread'[w].at # "suspended")
    BY <2>2, <2>3
  <2>7. QED
    BY <2>1, <2>2, <2>3, <2>4, <2>5, <2>6, CalledKeeps
<1>9. CASE Awaken(w)
  <2>1. /\ thread[w].at = "suspended" /\ job' = job /\ client' = client /\ worker' = worker
        /\ pool' = pool /\ access' = access /\ Goto(w, "wait") /\ worker[w].awake
    BY <1>9 DEF Awaken, At, qvars
  <2>2. /\ Alone(w) /\ thread'[w].at = "wait"
        /\ thread'[w].op = thread[w].op /\ thread'[w].mode = thread[w].mode
    BY <1>1, <2>1, GotoFields
  <2>3. QED
    BY <2>1, <2>2, WorkerKeeps
<1>10. QED
  BY <1>2, <1>3, <1>4, <1>5, <1>6, <1>7, <1>8, <1>9 DEF Work

-----------------------------------------------------------------------------
(* Clients *)

\* The operation of a client, by where it is.
LEMMA ClientOps ==
  ASSUME PInv, SInv, NEW c \in Client
  PROVE  /\ c \in Thread /\ c \notin Worker /\ thread[c].op \in Op /\ ClientAt(thread[c])
         /\ thread[c].at \in {"free", "count"} => thread[c].op = "none"
         /\ thread[c].at \in {"yield", "help", "block"} => thread[c].op = "wait"
         /\ thread[c].at = "enter" => thread[c].op \in Whole
         /\ thread[c].at = "settle" => thread[c].op \in Whole
         /\ thread[c].at = "call" => thread[c].op \in Whole \cup {"stop"}
         /\ thread[c].at = "drain" => thread[c].op \in Whole \ {"suspend"}
         /\ thread[c].at \in {"pop next", "crashed"} => thread[c].op = "execute all"
         /\ thread[c].at = "resume" => thread[c].op \in (Whole \ {"suspend"}) \cup {"resume"}
         /\ thread[c].at = "join" => thread[c].op = "stop"
<1>1. c \in Thread /\ c \notin Worker /\ thread[c].op \in Op
  BY WholeRecord, PoolAssumption DEF ThreadRecord
<1>2. ClientAt(thread[c])
  BY DEF SInv, InPlaces
<1>3. thread[c].at \in {"free", "count"} => thread[c].op = "none"
  BY <1>1, <1>2 DEF ClientAt, Op, InService, Whole
<1>4. thread[c].at \in {"yield", "help", "block"} => thread[c].op = "wait"
  BY <1>1, <1>2 DEF ClientAt, Op, InService, Whole
<1>5. thread[c].at \in {"enter", "settle"} => thread[c].op \in Whole
  BY <1>1, <1>2 DEF ClientAt, Op, InService, Whole
<1>6. thread[c].at = "call" => thread[c].op \in Whole \cup {"stop"}
  BY <1>1, <1>2 DEF ClientAt, Op, InService, Whole
<1>7. thread[c].at = "drain" => thread[c].op \in Whole \ {"suspend"}
  BY <1>1, <1>2 DEF ClientAt, Op, InService, Whole
<1>8. thread[c].at = "resume" => thread[c].op \in (Whole \ {"suspend"}) \cup {"resume"}
  BY <1>1, <1>2 DEF ClientAt, Op, InService, Whole
<1>9. thread[c].at = "join" => thread[c].op = "stop"
  BY <1>1, <1>2 DEF ClientAt, Op, InService, Whole
<1>10. thread[c].at \in {"pop next", "crashed"} => thread[c].op = "execute all"
  BY <1>2 DEF ClientAt
<1>11. QED
  BY <1>1, <1>2, <1>3, <1>4, <1>5, <1>6, <1>7, <1>8, <1>9, <1>10

\* The steps of a client that have nothing to do with the suspension of the pool.
LEMMA ClientKeeps ==
  ASSUME PInv, QTypeOK, SInv, NEW c \in Client, Alone(c),
         worker' = worker, pool' = pool, Recorded',
         \A d \in Client : client'[d].suspends = client[d].suspends,
         \A j \in Job : job'[j].owner = job[j].owner,
         ClientAt(thread'[c]),
         thread[c].at \notin Owning \cup {"call", "settle", "join"},
         thread'[c].at \notin {"call", "settle", "join", "suspend"},
         thread'[c].op # "stop",
         Holding(thread'[c]) <=> Holding(thread[c]),
         thread[c].at = "free" => \A d \in Client : ~Stopping(d),
         \/ access' = access /\ thread[c].at # "scan" /\ thread'[c].at # "scan"
         \/ (\E q \in Queue : Reserve(c, q)) /\ thread'[c].at = "scan"
         \/ /\ (\E q \in Queue, p \in Priority, j \in Job : PushItem(c, q, p, j)) \/ CountItem(c)
            /\ thread'[c].at # "scan"
  PROVE  SInv'
<1>1. c \in Thread /\ c \notin Worker
  BY ClientOps
<1>2. AccessAgrees'
  BY <1>1, AccessMoves DEF SInv
<1>3. OwnersKnown'
  BY <1>1, OwnerMoves
<1>4. InPlaces'
  BY <1>1, PlacesKept DEF SInv
<1>5. \A d \in Client : ~Stopping(d)
  BY NobodyStops
<1>6. OneSuspends' /\ Targets' /\ StopsAlone' /\ Awakened'
  BY <1>1, <1>5, SuspensionKept
<1>7. QED
  BY <1>2, <1>3, <1>4, <1>6 DEF SInv

\* The record of a client of which one field changes.
LEMMA ClientFields ==
  ASSUME Recorded, NEW c \in Client
  PROVE  /\ \A n \in Nat : client' = [client EXCEPT ![c].suspends = n] =>
              /\ client' \in [Client -> [held : SUBSET Job, suspends : Nat, bulk : Int]]
              /\ client'[c].suspends = n /\ client'[c].held = client[c].held
              /\ \A d \in Client : d # c => client'[d] = client[d]
         /\ \A S \in SUBSET Job : client' = [client EXCEPT ![c].held = S] =>
              /\ client' \in [Client -> [held : SUBSET Job, suspends : Nat, bulk : Int]]
              /\ client'[c].held = S
              /\ \A d \in Client : d # c => client'[d] = client[d]
              /\ \A d \in Client : client'[d].suspends = client[d].suspends
         /\ \A n \in Int : client' = [client EXCEPT ![c].bulk = n] =>
              /\ client' \in [Client -> [held : SUBSET Job, suspends : Nat, bulk : Int]]
              /\ \A d \in Client : client'[d].suspends = client[d].suspends
                                   /\ client'[d].held = client[d].held
<1> DEFINE R == [held : SUBSET Job, suspends : Nat, bulk : Int]
<1>1. client \in [Client -> R] /\ client[c] \in R
  BY DEF Recorded
<1>2. ASSUME NEW r \in R, client' = [client EXCEPT ![c] = r]
      PROVE  /\ client' \in [Client -> R] /\ client'[c] = r
             /\ \A d \in Client : d # c => client'[d] = client[d]
  <2> HIDE DEF R
  <2>1. QED
    BY <1>1, <1>2
<1>3. ASSUME NEW n \in Nat, client' = [client EXCEPT ![c].suspends = n]
      PROVE  /\ client' \in [Client -> R]
             /\ client'[c].suspends = n /\ client'[c].held = client[c].held
             /\ \A d \in Client : d # c => client'[d] = client[d]
  <2> DEFINE r == [client[c] EXCEPT !.suspends = n]
  <2>1. r \in R /\ r.suspends = n /\ r.held = client[c].held
    BY <1>1
  <2>2. client' = [client EXCEPT ![c] = r]
    BY <1>3
  <2> HIDE DEF r, R
  <2>3. QED
    BY <1>2, <2>1, <2>2
<1>4. ASSUME NEW S \in SUBSET Job, client' = [client EXCEPT ![c].held = S]
      PROVE  /\ client' \in [Client -> R] /\ client'[c].held = S
             /\ \A d \in Client : d # c => client'[d] = client[d]
             /\ \A d \in Client : client'[d].suspends = client[d].suspends
  <2> DEFINE r == [client[c] EXCEPT !.held = S]
  <2>1. r \in R /\ r.held = S /\ r.suspends = client[c].suspends
    BY <1>1
  <2>2. client' = [client EXCEPT ![c] = r]
    BY <1>4
  <2> HIDE DEF r, R
  <2>3. QED
    BY <1>2, <2>1, <2>2
<1>5. ASSUME NEW n \in Int, client' = [client EXCEPT ![c].bulk = n]
      PROVE  /\ client' \in [Client -> R]
             /\ \A d \in Client : client'[d].suspends = client[d].suspends
                                  /\ client'[d].held = client[d].held
  <2> DEFINE r == [client[c] EXCEPT !.bulk = n]
  <2>1. r \in R /\ r.held = client[c].held /\ r.suspends = client[c].suspends
    BY <1>1
  <2>2. client' = [client EXCEPT ![c] = r]
    BY <1>5
  <2> HIDE DEF r, R
  <2>3. QED
    BY <1>2, <2>1, <2>2
<1>6. QED
  BY <1>3, <1>4, <1>5

\* Records stay what they are when the pool and the workers are left alone.
LEMMA RecordedKept ==
  ASSUME Recorded, worker' = worker, pool' = pool,
         client' = client \/ client' \in [Client -> [held : SUBSET Job, suspends : Nat, bulk : Int]]
  PROVE  Recorded'
BY DEF Recorded

\* A client that may begin something is in nothing.
LEMMA FreeIs ==
  ASSUME PInv, SInv, NEW c \in Client, Free(c)
  PROVE  /\ c \in Thread /\ thread[c].at = "free" /\ thread[c].op = "none"
         /\ ~Holding(thread[c]) /\ ClientAt(thread[c])
         /\ thread[c].at \notin Owning \cup {"call", "settle", "join", "scan"}
         /\ \A d \in Client : ~Stopping(d)
<1>1. c \in Thread /\ thread[c].at = "free" /\ thread[c].op = "none" /\ ClientAt(thread[c])
  BY ClientOps DEF Free, At
<1>2. \A d \in Client : ~Stopping(d)
  BY DEF Free, Stopping
<1>3. QED
  BY <1>1, <1>2 DEF Holding, Owning

\* A client begins to service a job of its own accord, or to wait for one.
LEMMA StartsKeeps ==
  ASSUME PInv, QTypeOK, SInv, NEW c \in Client, NEW j \in Job,
         \/ AddInline(c, j) \/ ExecuteOrAbort(c, j, "execute") \/ ExecuteOrAbort(c, j, "abort")
         \/ WaitForFinish(c, j)
  PROVE  SInv'
<1>1. /\ Free(c) /\ worker' = worker /\ pool' = pool /\ client' = client /\ job' = job
      /\ access' = access
  BY DEF AddInline, ExecuteOrAbort, WaitForFinish, qvars
<1>2. /\ Alone(c)
      /\ \/ thread'[c].at = "check" /\ thread'[c].op = "none"
         \/ thread'[c].at = "yield" /\ thread'[c].op = "wait" /\ thread'[c].mode = "service"
  <2>1. CASE WaitForFinish(c, j)
    BY <2>1, Names DEF WaitForFinish, PInv, Typed, Alone
  <2>2. CASE AddInline(c, j) \/ ExecuteOrAbort(c, j, "execute") \/ ExecuteOrAbort(c, j, "abort")
    BY <2>2, Names, StartFields DEF AddInline, ExecuteOrAbort
  <2>3. QED
    BY <2>1, <2>2
<1>3. ClientAt(thread'[c]) /\ ~Holding(thread'[c])
  BY <1>2 DEF ClientAt, InService, Holding
<1>4. Recorded'
  BY <1>1, RecordedKept DEF SInv
<1>5. QED
  BY <1>1, <1>2, <1>3, <1>4, FreeIs, ClientKeeps

\* A client pushes a job.
LEMMA PushesKeeps ==
  ASSUME PInv, QTypeOK, SInv, NEW c \in Client, NEW j \in Job, NEW p \in Priority,
         AddJob(c, j) \/ ChangePriority(c, j, p)
  PROVE  SInv'
<1>1. /\ Free(c) /\ worker' = worker /\ pool' = pool /\ client' = client
      /\ Start(c, "count", j, "service", "none")
  BY DEF AddJob, ChangePriority
<1>2. Alone(c) /\ thread'[c].at = "count" /\ thread'[c].op = "none"
  BY <1>1, Names, StartFields
<1>3. ClientAt(thread'[c]) /\ ~Holding(thread'[c])
  BY <1>2 DEF ClientAt, InService, Holding
<1>4. Recorded'
  BY <1>1, RecordedKept DEF SInv
<1>5. \A k \in Job : job'[k].owner = job[k].owner
  <2>1. CASE AddJob(c, j)
    <3>1. job' = [job EXCEPT ![j].status = "PENDING", ![j].priority = Urgency(j),
                             ![j].refs = @ + 1]
      BY <2>1 DEF AddJob
    <3>2. QED
      BY <3>1, OwnerFields
  <2>2. CASE ChangePriority(c, j, p)
    <3>1. job' = [job EXCEPT ![j].priority = p, ![j].refs = @ + 1]
      BY <2>2 DEF ChangePriority
    <3>2. QED
      BY <3>1, OwnerFields
  <2>3. QED
    BY <2>1, <2>2
<1>6. \E q \in Queue, l \in Priority, k \in Job : PushItem(c, q, l, k)
  <2>1. CASE AddJob(c, j)
    BY <2>1, AddJobInv, Names DEF AddJob
  <2>2. CASE ChangePriority(c, j, p)
    BY <2>2, Names DEF ChangePriority
  <2>3. QED
    BY <2>1, <2>2
<1>7. QED
  BY <1>1, <1>2, <1>3, <1>4, <1>5, <1>6, FreeIs, ClientKeeps

\* The client's Release.
LEMMA LetGoKeeps ==
  ASSUME PInv, QTypeOK, SInv, NEW c \in Client, NEW j \in Job, LetGo(c, j)
  PROVE  SInv'
<1>1. /\ Free(c) /\ worker' = worker /\ pool' = pool /\ access' = access /\ thread' = thread
      /\ client' = [client EXCEPT ![c].held = @ \ {j}]
      /\ job' = [job EXCEPT ![j].refs = @ - 1]
  BY DEF LetGo, qvars
<1>2. \A k \in Job : job'[k].owner = job[k].owner
  BY <1>1, OwnerFields
<1>3. /\ client' \in [Client -> [held : SUBSET Job, suspends : Nat, bulk : Int]]
      /\ \A d \in Client : client'[d].suspends = client[d].suspends
  <2>1. client[c].held \ {j} \in SUBSET Job
    BY DEF SInv, Recorded
  <2>2. QED
    BY <1>1, <2>1, ClientFields DEF SInv
<1>4. Recorded'
  BY <1>1, <1>3, RecordedKept DEF SInv
<1>5. Alone(c)
  BY <1>1 DEF Alone
<1>6. QED
  <2>1. /\ thread[c].at = "free" /\ thread[c].op = "none" /\ ClientAt(thread[c])
        /\ thread[c].at \notin Owning /\ \A d \in Client : ~Stopping(d)
    BY <1>1, FreeIs
  <2>2. thread'[c] = thread[c]
    BY <1>1
  <2>3. QED
    BY <1>1, <1>2, <1>3, <1>4, <1>5, <2>1, <2>2, ClientKeeps

\* The end of an operation that has nothing to do with the suspension, and what a client
\* does while it waits.
LEMMA WaitsKeeps ==
  ASSUME PInv, QTypeOK, SInv, NEW c \in Client,
         Count(c) \/ Yield(c) \/ Help(c) \/ EndWait(c)
  PROVE  SInv'
<1>0. Shared \in Queue
  BY Names
<1>1. /\ worker' = worker /\ pool' = pool /\ client' = client /\ job' = job
  BY DEF Count, Yield, Help, EndWait, Pop
<1>2. Recorded'
  BY <1>1, RecordedKept DEF SInv
<1>3. /\ thread[c].at \in {"count", "yield", "help", "block"}
      /\ thread[c].op \in {"none", "wait"} /\ ClientAt(thread[c]) /\ c \in Thread
  <2>1. thread[c].at \in {"count", "yield", "help", "block"}
    BY DEF Count, Yield, Help, EndWait, At
  <2>2. QED
    BY <2>1, ClientOps
<1>4. thread[c].at \notin Owning
  BY <1>3 DEF Owning
<1>5. CASE Count(c) \/ EndWait(c)
  <2>1. Start(c, "free", NoJob, "service", "none")
        /\ (CountItem(c) \/ access' = access)
    BY <1>5 DEF Count, EndWait, qvars
  <2>2. Alone(c) /\ thread'[c].at = "free" /\ thread'[c].op = "none"
    BY <1>3, <2>1, StartFields
  <2>3. ClientAt(thread'[c]) /\ ~Holding(thread'[c]) /\ ~Holding(thread[c])
    BY <1>3, <2>2 DEF ClientAt, Holding
  <2>4. QED
    BY <1>1, <1>2, <1>3, <1>4, <2>1, <2>2, <2>3, ClientKeeps
<1>6. CASE Yield(c) \/ Help(c)
  <2>1. \/ (Goto(c, "help") \/ Goto(c, "block")) /\ access' = access
        \/ Goto(c, "scan") /\ Reserve(c, Shared)
    BY <1>6 DEF Yield, Help, Pop, qvars
  <2>2. thread[c].op = "wait"
    <3>1. thread[c].at \in {"yield", "help", "block"}
      BY <1>6 DEF Yield, Help, At
    <3>2. QED
      BY <3>1, ClientOps
  <2>3. /\ Alone(c) /\ thread'[c].op = thread[c].op /\ thread'[c].mode = thread[c].mode
        /\ \/ thread'[c].at \in {"help", "block"} /\ access' = access
           \/ thread'[c].at = "scan" /\ Reserve(c, Shared)
    BY <1>3, <2>1, GotoFields
  <2>4. ClientAt(thread'[c]) /\ ~Holding(thread'[c]) /\ ~Holding(thread[c])
    BY <1>3, <2>2, <2>3 DEF ClientAt, Holding
  <2>5. QED
    BY <1>0, <1>1, <1>2, <1>3, <1>4, <2>2, <2>3, <2>4, ClientKeeps
<1>7. QED
  BY <1>5, <1>6

\* A client empties the queues of the suspended pool.
LEMMA DrainKeeps ==
  ASSUME PInv, QTypeOK, SInv, NEW c \in Client, Drains(c)
  PROVE  SInv'
<1>1. /\ worker' = worker /\ pool' = pool /\ client' = client /\ job' = job
      /\ thread[c].at \in {"drain", "pop next"} /\ DrainsTo(c)
  BY DrainMoves
<1>2. Recorded'
  BY <1>1, RecordedKept DEF SInv
<1>3. thread[c].op \in {"abort all", "execute all"} /\ ClientAt(thread[c]) /\ c \in Thread
  BY <1>1, ClientOps DEF Whole
<1>4. /\ Alone(c) /\ thread'[c].op = thread[c].op /\ thread'[c].mode = thread[c].mode
      /\ \/ thread'[c].at \in {"resume", "drain"} /\ access' = access
         \/ /\ thread'[c].at \in {"pop next", "crashed"} /\ access' = access
            /\ thread[c].op = "execute all"
         \/ thread'[c].at = "scan" /\ \E q \in Queue : Reserve(c, q)
  <2>1. CASE \E q \in Queue : Reserve(c, q) /\ Goto(c, "scan")
    BY <1>3, <2>1, GotoFields
  <2>2. CASE UNCHANGED qvars /\ At(c, "pop next") /\ Goto(c, "crashed")
    BY <1>3, <2>2, GotoFields, ClientOps DEF qvars, At
  <2>3. CASE /\ UNCHANGED qvars /\ thread[c].op = "execute all"
             /\ Goto(c, "pop next")
    BY <1>3, <2>3, GotoFields DEF qvars
  <2>4. CASE UNCHANGED qvars /\ Goto(c, "resume")
    BY <1>3, <2>4, GotoFields DEF qvars
  <2>5. CASE UNCHANGED qvars /\ \E set : GotoAll(c, "drain", set)
    BY <1>3, <2>5, GotoAllFields DEF qvars
  <2>6. QED
    BY <1>1, <2>1, <2>2, <2>3, <2>4, <2>5 DEF DrainsTo
<1>5. ClientAt(thread'[c]) /\ Holding(thread'[c]) /\ Holding(thread[c])
      /\ thread[c].at \notin Owning
  BY <1>1, <1>3, <1>4 DEF ClientAt, Holding, Owning
<1>6. QED
  BY <1>1, <1>2, <1>3, <1>4, <1>5, ClientKeeps

\* An operation on the whole pool begins.
LEMMA BulkKeeps ==
  ASSUME PInv, QTypeOK, SInv, NEW c \in Client, NEW op \in Whole, Bulk(c, op)
  PROVE  SInv'
<1>1. /\ Free(c) /\ worker' = worker /\ pool' = pool /\ job' = job /\ access' = access
      /\ client' = [client EXCEPT ![c].bulk = @ - 1]
      /\ Start(c, "enter", NoJob, IF op = "abort all" THEN "discard" ELSE "service", op)
  BY DEF Bulk, Begun, qvars
<1>2. /\ client' \in [Client -> [held : SUBSET Job, suspends : Nat, bulk : Int]]
      /\ \A d \in Client : client'[d].suspends = client[d].suspends
  <2>1. client[c].bulk - 1 \in Int
    BY DEF SInv, Recorded
  <2>2. QED
    BY <1>1, <2>1, ClientFields DEF SInv
<1>3. Recorded'
  BY <1>1, <1>2, RecordedKept DEF SInv
<1>4. /\ Alone(c) /\ thread'[c].at = "enter" /\ thread'[c].op = op
      /\ thread'[c].mode = IF op = "abort all" THEN "discard" ELSE "service"
  BY <1>1, Names, StartFields
<1>5. ClientAt(thread'[c]) /\ ~Holding(thread'[c]) /\ op # "stop"
  BY <1>4 DEF ClientAt, Holding, Give, Whole
<1>6. QED
  BY <1>1, <1>2, <1>3, <1>4, <1>5, FreeIs, ClientKeeps

-----------------------------------------------------------------------------
(* The suspension and the end of the pool *)

\* The suspensions are counted one client at a time.
LEMMA SuspensionsNat ==
  ASSUME Recorded
  PROVE  /\ IsFiniteSet(Client) /\ \A c \in Client : Suspensions[c] \in Nat
         /\ SumFunctionOnSet(Suspensions, Client) \in Nat
         /\ \A c \in Client : Suspensions[c] <= SumFunctionOnSet(Suspensions, Client)
         /\ (\A c \in Client : Suspensions[c] = 0) => SumFunctionOnSet(Suspensions, Client) = 0
<1>1. IsFiniteSet(Client)
  BY Names, ThreadAssumption, FS_Subset
<1>2. \A c \in Client : Suspensions[c] \in Nat
  BY DEF Suspensions, Recorded
<1> DEFINE f == Suspensions
<1> HIDE DEF f
<1>3. \A c \in Client : f[c] \in Nat
  BY <1>2 DEF f
<1>4. SumFunctionOnSet(f, Client) \in Nat /\ \A c \in Client : f[c] <= SumFunctionOnSet(f, Client)
  BY <1>1, <1>3, SumNat
<1>5. (\A c \in Client : f[c] = 0) => SumFunctionOnSet(f, Client) = 0
  <2> SUFFICES ASSUME \A c \in Client : f[c] = 0
               PROVE  SumFunctionOnSet(f, Client) = 0
    OBVIOUS
  <2>1. ~(SumFunctionOnSet(f, Client) > 0)
    BY <1>1, <1>3, SumPositive
  <2>2. QED
    BY <1>4, <2>1
<1>6. QED
  BY <1>1, <1>2, <1>4, <1>5 DEF f

\* The count of suspensions follows the one client whose share of it changes.
LEMMA SuspensionsMove ==
  ASSUME Recorded, Recorded', NEW c \in Client,
         \A d \in Client : d # c => Suspensions'[d] = Suspensions[d]
  PROVE  SumFunctionOnSet(Suspensions, Client)' =
           SumFunctionOnSet(Suspensions, Client) + (Suspensions'[c] - Suspensions[c])
<1> DEFINE f == Suspensions
           g == Suspensions'
<1>1. IsFiniteSet(Client) /\ \A d \in Client : f[d] \in Int
  BY SuspensionsNat
<1>2. g[c] \in Int
  BY DEF Suspensions, Recorded
<1>3. \A d \in Client : d # c => g[d] = f[d]
  OBVIOUS
<1>4. SumFunctionOnSet(Suspensions, Client)' = SumFunctionOnSet(g, Client)
  OBVIOUS
<1> HIDE DEF f, g
<1>5. SumFunctionOnSet(g, Client) = SumFunctionOnSet(f, Client) + (g[c] - f[c])
  BY <1>1, <1>2, <1>3, SumChange
<1>6. QED
  BY <1>4, <1>5 DEF f, g

\* What the steps of a client that suspends, resumes or stops the pool have in common.
LEMMA ApartKeeps ==
  ASSUME PInv, QTypeOK, SInv, NEW c \in Client, Alone(c),
         access' = access, \A j \in Job : job'[j].owner = job[j].owner,
         thread[c].at \notin Owning \cup {"scan"}, thread'[c].at # "scan",
         ClientAt(thread'[c])
  PROVE  /\ AccessAgrees' /\ OwnersKnown'
         /\ pool'.threads = pool.threads => InPlaces'
         /\ \A w \in Worker : thread'[w] = thread[w] /\ At(w, "suspend")' = At(w, "suspend")
         /\ \A d \in Client : d # c => thread'[d] = thread[d]
<1>1. c \in Thread /\ c \notin Worker /\ Worker \subseteq Thread /\ Client \subseteq Thread
  BY ClientOps, Names
<1>2. AccessAgrees'
  BY <1>1, AccessMoves DEF SInv
<1>3. OwnersKnown'
  BY <1>1, OwnerMoves
<1>4. pool'.threads = pool.threads => InPlaces'
  BY <1>1, PlacesKept DEF SInv
<1>5. /\ \A w \in Worker : thread'[w] = thread[w]
      /\ \A d \in Client : d # c => thread'[d] = thread[d]
  BY <1>1 DEF Alone
<1>6. QED
  BY <1>2, <1>3, <1>4, <1>5 DEF At

\* The fields of the pool, of which the suspension changes.
LEMMA PoolFields ==
  ASSUME Recorded
  PROVE  /\ \A c \in Client : pool' = [pool EXCEPT !.suspending = c] =>
              /\ pool' \in [threads : SUBSET Worker, nSuspend : Int,
                            suspending : Client \cup {Nobody}, idle : SUBSET Worker]
              /\ pool'.threads = pool.threads /\ pool'.idle = pool.idle
              /\ pool'.nSuspend = pool.nSuspend /\ pool'.suspending = c
         /\ \A n \in Int : pool' = [pool EXCEPT !.nSuspend = n] =>
              /\ pool' \in [threads : SUBSET Worker, nSuspend : Int,
                            suspending : Client \cup {Nobody}, idle : SUBSET Worker]
              /\ pool'.threads = pool.threads /\ pool'.idle = pool.idle
              /\ pool'.nSuspend = n /\ pool'.suspending = pool.suspending
         /\ \A n \in Int : pool' = [pool EXCEPT !.nSuspend = n, !.suspending = Nobody] =>
              /\ pool' \in [threads : SUBSET Worker, nSuspend : Int,
                            suspending : Client \cup {Nobody}, idle : SUBSET Worker]
              /\ pool'.threads = pool.threads /\ pool'.idle = pool.idle
              /\ pool'.nSuspend = n /\ pool'.suspending = Nobody
<1>1. pool \in [threads : SUBSET Worker, nSuspend : Int,
                suspending : Client \cup {Nobody}, idle : SUBSET Worker]
  BY DEF Recorded
<1>2. QED
  BY <1>1

\* While nobody holds the suspension and nobody stops the pool, no other client waits for
\* workers.
LEMMA NoneAtWorkers ==
  ASSUME PInv, SInv, NEW c, pool.suspending \in {c, Nobody},
         \A d \in Client : ~Stopping(d)
  PROVE  \A d \in Client : d # c => /\ thread[d].at \notin {"call", "settle", "join"}
                                    /\ ~Bulky(thread[d])
<1> SUFFICES ASSUME NEW d \in Client, d # c
             PROVE  thread[d].at \notin {"call", "settle", "join"} /\ ~Bulky(thread[d])
  OBVIOUS
<1>1. d # Nobody
  BY PoolAssumption
<1>2. ~Bulky(thread[d])
  BY <1>1 DEF SInv, OneSuspends
<1>3. thread[d].op # "stop"
  BY DEF Stopping
<1>4. QED
  BY <1>2, <1>3, ClientOps DEF Bulky

\* The end of SuspendExecution: the workers sleep, and one suspension more is counted.
LEMMA SuspendedKeeps ==
  ASSUME PInv, QTypeOK, SInv, NEW c \in Client, Suspended(c),
         thread[c].at \in {"enter", "settle"},
         pool.suspending \in {c, Nobody},
         pool' \in [threads : SUBSET Worker, nSuspend : Int,
                    suspending : Client \cup {Nobody}, idle : SUBSET Worker],
         pool'.threads = pool.threads, pool'.idle = pool.idle, pool'.suspending = Nobody,
         pool'.nSuspend = pool.nSuspend + 1,
         \A w \in pool.threads : ~worker[w].awake,
         worker' = worker, access' = access, job' = job
  PROVE  SInv'
<1>1. /\ c \in Thread /\ thread[c].op \in Whole /\ ClientAt(thread[c])
      /\ thread[c].at \notin Owning \cup {"scan"} /\ Nobody \notin Client
  BY ClientOps, PoolAssumption DEF Owning
<1>2. \A d \in Client : ~Stopping(d)
  BY NobodyStops
<1>3. /\ Alone(c) /\ thread'[c].at \in {"free", "drain"} /\ thread'[c].op # "stop"
      /\ ClientAt(thread'[c])
      /\ client' \in [Client -> [held : SUBSET Job, suspends : Nat, bulk : Int]]
      /\ \A d \in Client : d # c => client'[d] = client[d]
      /\ Suspensions'[c] = Suspensions[c] + 1
  <2>0. /\ client \in [Client -> [held : SUBSET Job, suspends : Nat, bulk : Int]]
        /\ client[c].suspends \in Nat
    BY DEF SInv, Recorded
  <2>1. CASE thread[c].op = "suspend"
    <3>1. /\ client' = [client EXCEPT ![c].suspends = @ + 1]
          /\ Start(c, "free", NoJob, "service", "none")
      BY <2>1 DEF Suspended
    <3>2. /\ client' \in [Client -> [held : SUBSET Job, suspends : Nat, bulk : Int]]
          /\ client'[c].suspends = client[c].suspends + 1
          /\ \A d \in Client : d # c => client'[d] = client[d]
      <4>1. client[c].suspends + 1 \in Nat
        BY <2>0
      <4>2. QED
        BY <3>1, <4>1, ClientFields DEF SInv
    <3>3. Alone(c) /\ thread'[c].at = "free" /\ thread'[c].op = "none"
      BY <1>1, <3>1, StartFields
    <3>4. ~Holding(thread'[c]) /\ ~Holding(thread[c]) /\ ClientAt(thread'[c])
      BY <2>1, <3>3 DEF Holding, ClientAt
    <3>5. Suspensions'[c] = Suspensions[c] + 1
      BY <2>0, <3>2, <3>4 DEF Suspensions
    <3>6. QED
      BY <3>2, <3>3, <3>4, <3>5
  <2>2. CASE thread[c].op # "suspend"
    <3>1. client' = client /\ GotoAll(c, "drain", ToDrain(thread[c].op))
      BY <2>2 DEF Suspended
    <3>2. /\ Alone(c) /\ thread'[c].at = "drain" /\ thread'[c].op = thread[c].op
          /\ thread'[c].mode = thread[c].mode
      BY <1>1, <3>1, GotoAllFields
    <3>3. thread[c].op \in {"abort all", "execute all"}
      BY <1>1, <2>2 DEF Whole
    <3>4. Holding(thread'[c]) /\ ~Holding(thread[c]) /\ ClientAt(thread'[c])
      BY <1>1, <3>2, <3>3 DEF Holding, ClientAt
    <3>5. Suspensions'[c] = Suspensions[c] + 1
      BY <2>0, <3>1, <3>4 DEF Suspensions
    <3>6. QED
      BY <2>0, <3>1, <3>2, <3>3, <3>4, <3>5
  <2>3. QED
    BY <2>1, <2>2
<1>4. AccessAgrees' /\ OwnersKnown' /\ InPlaces'
      /\ (\A w \in Worker : thread'[w] = thread[w] /\ At(w, "suspend")' = At(w, "suspend"))
      /\ \A d \in Client : d # c => thread'[d] = thread[d]
  BY <1>1, <1>3, ApartKeeps
<1>5. Recorded'
  BY <1>3 DEF SInv, Recorded
<1>6. SumFunctionOnSet(Suspensions, Client)' = SumFunctionOnSet(Suspensions, Client) + 1
  <2>1. \A d \in Client : d # c => Suspensions'[d] = Suspensions[d]
    BY <1>3, <1>4 DEF Suspensions
  <2>2. SumFunctionOnSet(Suspensions, Client)' =
           SumFunctionOnSet(Suspensions, Client) + (Suspensions'[c] - Suspensions[c])
    BY <1>5, <2>1, SuspensionsMove DEF SInv
  <2>3. Suspensions[c] \in Nat /\ SumFunctionOnSet(Suspensions, Client) \in Nat
    BY SuspensionsNat DEF SInv
  <2>4. QED
    BY <1>3, <2>2, <2>3
<1>7. \A d \in Client : /\ thread'[d].at \notin {"call", "settle", "join"}
                        /\ ~Bulky(thread'[d]) /\ ~Stopping(d)'
  <2>1. ~Bulky(thread'[c]) /\ ~Stopping(c)'
    BY <1>3 DEF Bulky, Stopping
  <2>2. ASSUME NEW d \in Client, d # c
        PROVE  /\ thread'[d].at \notin {"call", "settle", "join"}
               /\ ~Bulky(thread'[d]) /\ ~Stopping(d)'
    BY <1>2, <1>4, <2>2, NoneAtWorkers DEF Stopping
  <2>3. QED
    BY <1>3, <2>1, <2>2
<1>8. OneSuspends'
  BY <1>1, <1>6, <1>7 DEF SInv, OneSuspends
<1>9. Targets' /\ StopsAlone'
  BY <1>7 DEF Targets, StopsAlone
<1>10. Awakened'
  <2>1. pool'.nSuspend > 0
    <3>1. pool.nSuspend \in Nat
      BY SuspensionsNat DEF SInv, OneSuspends
    <3>2. QED
      BY <3>1
  <2>2. \A w \in Worker : At(w, "suspended")' = At(w, "suspended")
    BY <1>4 DEF At
  <2>3. QED
    BY <1>4, <2>1, <2>2 DEF SInv, Awakened
<1>11. QED
  BY <1>4, <1>5, <1>8, <1>9, <1>10 DEF SInv

\* The workers are as they were, and so is the count.
LEMMA SuspensionsSame ==
  ASSUME \A d \in Client : client'[d].suspends = client[d].suspends,
         \A d \in Client : Holding(thread'[d]) <=> Holding(thread[d])
  PROVE  SumFunctionOnSet(Suspensions, Client)' = SumFunctionOnSet(Suspensions, Client)
<1>1. Suspensions' = Suspensions
  BY DEF Suspensions
<1>2. QED
  BY <1>1

\* SuspendExecution under its mutex.
LEMMA EnterKeeps ==
  ASSUME PInv, QTypeOK, SInv, NEW c \in Client, Enter(c)
  PROVE  SInv'
<1>1. /\ thread[c].at = "enter" /\ pool.suspending = Nobody
      /\ access' = access /\ job' = job /\ worker' = worker
  BY DEF Enter, At, qvars
<1>2. /\ c \in Thread /\ thread[c].op \in Whole /\ ClientAt(thread[c])
      /\ thread[c].at \notin Owning \cup {"scan"} /\ Nobody \notin Client
  BY <1>1, ClientOps, PoolAssumption DEF Owning
<1>3. \A d \in Client : ~Stopping(d)
  BY <1>1, NobodyStops
<1>4. pool.nSuspend \in Nat
  BY SuspensionsNat DEF SInv, OneSuspends
<1>5. CASE /\ pool.nSuspend = 0
           /\ pool' = [pool EXCEPT !.suspending = c]
           /\ GotoAll(c, "call", pool.threads)
           /\ UNCHANGED client
  <2>1. /\ Alone(c) /\ thread'[c].at = "call" /\ thread'[c].todo = pool.threads
        /\ thread'[c].op = thread[c].op /\ thread'[c].mode = thread[c].mode
    BY <1>2, <1>5, GotoAllFields
  <2>2. ClientAt(thread'[c]) /\ Bulky(thread'[c]) /\ ~Holding(thread'[c]) /\ ~Holding(thread[c])
        /\ ~Stopping(c)'
    BY <1>1, <1>2, <2>1 DEF ClientAt, Bulky, Holding, Whole, Stopping
  <2>3. /\ pool' \in [threads : SUBSET Worker, nSuspend : Int,
                      suspending : Client \cup {Nobody}, idle : SUBSET Worker]
        /\ pool'.threads = pool.threads /\ pool'.idle = pool.idle
        /\ pool'.nSuspend = pool.nSuspend /\ pool'.suspending = c
    BY <1>5, PoolFields DEF SInv
  <2>4. AccessAgrees' /\ OwnersKnown' /\ InPlaces'
        /\ (\A w \in Worker : thread'[w] = thread[w] /\ At(w, "suspend")' = At(w, "suspend"))
        /\ \A d \in Client : d # c => thread'[d] = thread[d]
    BY <1>1, <1>2, <2>1, <2>2, <2>3, ApartKeeps
  <2>5. Recorded'
    BY <1>1, <1>5, <2>3 DEF SInv, Recorded
  <2>6. \A d \in Client : d # c => /\ thread'[d].at \notin {"call", "settle", "join"}
                                   /\ ~Bulky(thread'[d]) /\ ~Stopping(d)'
    <3> SUFFICES ASSUME NEW d \in Client, d # c
                 PROVE  /\ thread'[d].at \notin {"call", "settle", "join"}
                        /\ ~Bulky(thread'[d]) /\ ~Stopping(d)'
      OBVIOUS
    <3>1. thread[d].at \notin {"call", "settle", "join"} /\ ~Bulky(thread[d])
      <4>1. pool.suspending \in {c, Nobody}
        BY <1>1
      <4>2. QED
        BY <1>3, <4>1, NoneAtWorkers DEF Stopping
    <3>2. ~Stopping(d)'
      BY <1>3, <2>4 DEF Stopping
    <3>3. QED
      BY <2>4, <3>1, <3>2
  <2>7. OneSuspends'
    <3>1. SumFunctionOnSet(Suspensions, Client)' = SumFunctionOnSet(Suspensions, Client)
      <4>1. \A d \in Client : Holding(thread'[d]) <=> Holding(thread[d])
        BY <2>2, <2>4
      <4>2. QED
        BY <1>5, <4>1, SuspensionsSame
    <3>2. QED
      BY <1>5, <2>2, <2>3, <2>6, <3>1 DEF SInv, OneSuspends
  <2>8. \A w \in pool.threads : w \in Worker /\ Quiet(w) /\ Quiet(w)'
    <3>1. \A w \in pool.threads : w \in Worker /\ Quiet(w)
      BY <1>1, <1>3, <1>5 DEF SInv, Awakened, Recorded
    <3>2. QED
      BY <1>1, <2>4, <3>1 DEF Quiet
  <2>9. Targets'
    BY <2>1, <2>3, <2>6, <2>8 DEF Targets
  <2>10. StopsAlone'
    BY <2>2, <2>6 DEF StopsAlone
  <2>11. Awakened'
    <3>1. \A w \in Worker : At(w, "suspended")' = At(w, "suspended")
      BY <2>4 DEF At
    <3>2. QED
      BY <1>1, <1>2, <1>5, <2>3, <2>4, <3>1 DEF SInv, Awakened
  <2>12. QED
    BY <2>4, <2>5, <2>7, <2>9, <2>10, <2>11 DEF SInv
<1>6. CASE /\ pool.nSuspend # 0
           /\ pool' = [pool EXCEPT !.nSuspend = @ + 1]
           /\ Suspended(c)
  <2>1. /\ pool' \in [threads : SUBSET Worker, nSuspend : Int,
                      suspending : Client \cup {Nobody}, idle : SUBSET Worker]
        /\ pool'.threads = pool.threads /\ pool'.idle = pool.idle
        /\ pool'.nSuspend = pool.nSuspend + 1 /\ pool'.suspending = Nobody
    <3>1. pool.nSuspend + 1 \in Int
      BY <1>4
    <3>2. QED
      BY <1>1, <1>6, <3>1, PoolFields DEF SInv
  <2>2. \A w \in pool.threads : ~worker[w].awake
    <3>1. pool.nSuspend > 0
      BY <1>4, <1>6
    <3>2. QED
      BY <3>1 DEF SInv, Awakened
  <2>3. QED
    BY <1>1, <1>6, <2>1, <2>2, SuspendedKeeps
<1>7. QED
  BY <1>5, <1>6 DEF Enter

\* The workers are suspended.
LEMMA SettleKeeps ==
  ASSUME PInv, QTypeOK, SInv, NEW c \in Client, Settle(c)
  PROVE  SInv'
<1>1. /\ thread[c].at = "settle" /\ access' = access /\ job' = job /\ worker' = worker
      /\ \A w \in thread[c].todo : ~worker[w].awake
      /\ pool' = [pool EXCEPT !.nSuspend = @ + 1, !.suspending = Nobody]
      /\ Suspended(c)
  BY DEF Settle, At, qvars
<1>2. thread[c].todo = pool.threads
  BY <1>1 DEF SInv, Targets
<1>3. pool.suspending = c
  <2>1. thread[c].op \in Whole
    BY <1>1, ClientOps
  <2>2. Bulky(thread[c])
    BY <1>1, <2>1 DEF Bulky, Whole
  <2>3. QED
    BY <2>2 DEF SInv, OneSuspends
<1>4. pool.nSuspend \in Nat
  BY SuspensionsNat DEF SInv, OneSuspends
<1>5. /\ pool' \in [threads : SUBSET Worker, nSuspend : Int,
                    suspending : Client \cup {Nobody}, idle : SUBSET Worker]
      /\ pool'.threads = pool.threads /\ pool'.idle = pool.idle
      /\ pool'.nSuspend = pool.nSuspend + 1 /\ pool'.suspending = Nobody
  <2>1. pool.nSuspend + 1 \in Int
    BY <1>4
  <2>2. QED
    BY <1>1, <2>1, PoolFields DEF SInv
<1>6. QED
  BY <1>1, <1>2, <1>3, <1>5, SuspendedKeeps

\* A client that calls the workers is the only one, and the pool is not suspended.
LEMMA CallerAlone ==
  ASSUME PInv, SInv, NEW c \in Client, thread[c].at = "call"
  PROVE  /\ pool.nSuspend = 0 /\ thread[c].op \in Whole \cup {"stop"}
         /\ pool.suspending = c \/ Stopping(c)
         /\ \A d \in Client : d # c => thread[d].at \notin {"call", "settle", "join"}
<1>1. c \in Thread /\ thread[c].op \in Whole \cup {"stop"} /\ c # Nobody
  BY ClientOps, PoolAssumption
<1>2. CASE thread[c].op = "stop"
  <2>1. Stopping(c)
    BY <1>2 DEF Stopping
  <2>2. pool.nSuspend = 0 /\ \A d \in Client \ {c} : thread[d].at = "free"
    BY <2>1 DEF SInv, StopsAlone
  <2>3. QED
    BY <1>1, <2>1, <2>2
<1>3. CASE thread[c].op # "stop"
  <2>1. pool.suspending = c /\ pool.nSuspend = 0
    <3>1. Bulky(thread[c])
      BY <1>3 DEF Bulky
    <3>2. QED
      BY <1>1, <3>1 DEF SInv, OneSuspends
  <2>2. \A d \in Client : ~Stopping(d)
    <3> SUFFICES ASSUME NEW d \in Client, Stopping(d)
                 PROVE  FALSE
      OBVIOUS
    <3>1. d # c
      BY <1>3 DEF Stopping
    <3>2. thread[c].at = "free"
      BY <3>1 DEF SInv, StopsAlone
    <3>3. QED
      BY <3>2
  <2>3. \A d \in Client : d # c => thread[d].at \notin {"call", "settle", "join"}
    BY <2>1, <2>2, NoneAtWorkers DEF Stopping
  <2>4. QED
    BY <1>1, <2>1, <2>3
<1>4. QED
  BY <1>2, <1>3

\* CallWorker for one worker after the other.
LEMMA CallWorkerKeeps ==
  ASSUME PInv, QTypeOK, SInv, NEW c \in Client, CallWorker(c)
  PROVE  SInv'
<1>1. /\ thread[c].at = "call" /\ access' = access /\ job' = job /\ client' = client
      /\ pool' = pool
  BY DEF CallWorker, At, qvars
<1>2. /\ c \in Thread /\ thread[c].op \in Whole \cup {"stop"} /\ ClientAt(thread[c])
      /\ thread[c].at \notin Owning \cup {"scan"}
  BY <1>1, ClientOps DEF Owning
<1>3. /\ pool.nSuspend = 0
      /\ pool.suspending = c \/ Stopping(c)
      /\ \A d \in Client : d # c => thread[d].at \notin {"call", "settle", "join"}
  BY <1>1, CallerAlone
<1>4. /\ thread[c].todo \subseteq pool.threads /\ \A w \in thread[c].todo : w \in Worker /\ Quiet(w)
  BY <1>1 DEF SInv, Targets, Recorded
<1>5. /\ Alone(c) /\ thread'[c].op = thread[c].op /\ thread'[c].mode = thread[c].mode
      /\ \/ /\ thread'[c].at = "call"
            /\ \E w \in thread[c].todo :
                 /\ worker' = [worker EXCEPT ![w].call = IF thread[c].op = "stop" THEN "exit"
                                                         ELSE "suspend"]
                 /\ thread'[c].todo = thread[c].todo \ {w}
         \/ /\ thread'[c].at = IF thread[c].op = "stop" THEN "join" ELSE "settle"
            /\ thread'[c].todo = pool.threads
            /\ worker' = worker
  <2>1. CASE \E w \in thread[c].todo :
               /\ worker' = [worker EXCEPT ![w].call = IF thread[c].op = "stop" THEN "exit"
                                                       ELSE "suspend"]
               /\ thread' = [thread EXCEPT ![c].todo = @ \ {w}]
    <3>1. PICK w \in thread[c].todo :
               /\ worker' = [worker EXCEPT ![w].call = IF thread[c].op = "stop" THEN "exit"
                                                       ELSE "suspend"]
               /\ thread' = [thread EXCEPT ![c].todo = @ \ {w}]
      BY <2>1
    <3>2. /\ Alone(c) /\ thread'[c].op = thread[c].op /\ thread'[c].mode = thread[c].mode
          /\ thread'[c].at = "call" /\ thread'[c].todo = thread[c].todo \ {w}
      BY <1>1, <1>2, <3>1 DEF PInv, Typed, ThreadRecord, Alone
    <3>3. QED
      BY <3>1, <3>2
  <2>2. CASE /\ thread[c].todo = {}
             /\ GotoAll(c, IF thread[c].op = "stop" THEN "join" ELSE "settle", pool.threads)
             /\ UNCHANGED worker
    BY <1>2, <2>2, GotoAllFields
  <2>3. QED
    BY <2>1, <2>2 DEF CallWorker
<1>6. /\ ClientAt(thread'[c]) /\ thread'[c].at \in {"call", "settle", "join"}
      /\ Bulky(thread'[c]) <=> Bulky(thread[c])
      /\ Holding(thread'[c]) <=> Holding(thread[c])
      /\ Stopping(c)' <=> Stopping(c)
  BY <1>1, <1>2, <1>5 DEF ClientAt, Bulky, Holding, Stopping, Whole
<1>7. AccessAgrees' /\ OwnersKnown' /\ InPlaces'
      /\ (\A w \in Worker : thread'[w] = thread[w] /\ At(w, "suspend")' = At(w, "suspend"))
      /\ \A d \in Client : d # c => thread'[d] = thread[d]
  BY <1>1, <1>2, <1>5, <1>6, ApartKeeps
<1>8. OneSuspends'
  <2>1. \A d \in Client : Bulky(thread'[d]) <=> Bulky(thread[d])
    BY <1>6, <1>7
  <2>2. \A d \in Client : Holding(thread'[d]) <=> Holding(thread[d])
    BY <1>6, <1>7
  <2>3. SumFunctionOnSet(Suspensions, Client)' = SumFunctionOnSet(Suspensions, Client)
    BY <1>1, <2>2, SuspensionsSame
  <2>4. QED
    BY <1>1, <2>1, <2>3 DEF SInv, OneSuspends
<1>9. StopsAlone'
  <2>1. ASSUME NEW d \in Client, Stopping(d)'
        PROVE  pool'.nSuspend = 0 /\ \A e \in Client \ {d} : thread'[e].at = "free"
    <3>1. Stopping(d)
      BY <1>6, <1>7, <2>1 DEF Stopping
    <3>2. d = c
      BY <1>1, <3>1 DEF SInv, StopsAlone
    <3>3. QED
      BY <1>1, <1>7, <3>1, <3>2 DEF SInv, StopsAlone
  <2>2. QED
    BY <2>1 DEF StopsAlone
<1>10. Awakened' /\ Targets' /\ Recorded'
  <2>1. ~(pool.suspending = Nobody /\ \A d \in Client : ~Stopping(d)')
    BY <1>3, <1>6, PoolAssumption
  <2>2. \A w \in Worker : At(w, "suspended")' = At(w, "suspended")
    BY <1>7 DEF At
  <2>3. CASE worker' = worker
    <3>1. Awakened'
      BY <1>1, <1>3, <1>7, <2>1, <2>2, <2>3 DEF SInv, Awakened
    <3>2. \A w \in Worker : Quiet(w)' <=> Quiet(w)
      BY <1>7, <2>3 DEF Quiet
    <3>3. Targets'
      <4>1. thread'[c].at = "call" => thread'[c].todo \subseteq thread[c].todo
        BY <1>2, <1>5
      <4>2. thread'[c].at \in {"settle", "join"} => thread'[c].todo = pool.threads
        BY <1>5
      <4>3. QED
        BY <1>1, <1>3, <1>4, <1>7, <3>2, <4>1, <4>2 DEF Targets
    <3>4. QED
      BY <1>1, <2>3, <3>1, <3>3 DEF SInv, Recorded
  <2>4. CASE worker' # worker
    <3> DEFINE call == IF thread[c].op = "stop" THEN "exit" ELSE "suspend"
    <3>1. PICK w \in thread[c].todo : /\ worker' = [worker EXCEPT ![w].call = call]
                                      /\ thread'[c].todo = thread[c].todo \ {w}
                                      /\ thread'[c].at = "call"
      BY <1>5, <2>4
    <3>2. w \in Worker /\ Quiet(w) /\ call \in {"none", "suspend", "exit"}
      BY <1>4
    <3> HIDE DEF call
    <3>3. /\ worker' \in [Worker -> [call : {"none", "suspend", "exit"}, awake : BOOLEAN]]
          /\ worker'[w].call = call /\ worker'[w].awake = worker[w].awake
          /\ \A v \in Worker : v # w => worker'[v] = worker[v]
      BY <3>1, <3>2, WorkerFields DEF SInv
    <3>4. Recorded'
      BY <1>1, <3>3 DEF SInv, Recorded
    <3>5. \A v \in Worker : v # w => (Quiet(v)' <=> Quiet(v))
      BY <1>7, <3>3 DEF Quiet
    <3>6. Targets'
      BY <1>1, <1>3, <1>4, <1>7, <3>1, <3>5 DEF Targets
    <3>7. Awakened'
      <4>1. worker[w].awake /\ ~At(w, "suspend")
        BY <3>2 DEF Quiet, At
      <4>2. ASSUME NEW v \in Worker
            PROVE  /\ ~worker'[v].awake => At(v, "suspended")' /\ worker'[v].call = "none"
                   /\ At(v, "suspend")' => worker'[v].call = "none"
        <5>1. CASE v = w
          BY <1>7, <3>3, <4>1, <5>1
        <5>2. CASE v # w
          BY <1>7, <2>2, <3>3, <5>2 DEF SInv, Awakened
        <5>3. QED
          BY <5>1, <5>2
      <4>3. QED
        BY <1>1, <1>3, <2>1, <4>2 DEF Awakened
    <3>8. QED
      BY <3>4, <3>6, <3>7
  <2>5. QED
    BY <2>3, <2>4
<1>11. QED
  BY <1>7, <1>8, <1>9, <1>10 DEF SInv

\* ResumeExecution: the workers go on when the last suspension ends.
LEMMA ResumeKeeps ==
  ASSUME PInv, QTypeOK, SInv, NEW c \in Client, Resume(c)
  PROVE  SInv'
<1>1. /\ thread[c].at = "resume" /\ access' = access /\ job' = job /\ client' = client
      /\ pool.suspending = Nobody
      /\ pool' = [pool EXCEPT !.nSuspend = @ - 1]
      /\ worker' = [w \in Worker |-> [worker[w] EXCEPT !.awake = @ \/ pool.nSuspend = 1]]
      /\ Start(c, "free", NoJob, "service", "none")
  BY DEF Resume, At, qvars
<1>2. /\ c \in Thread /\ thread[c].op \in (Whole \ {"suspend"}) \cup {"resume"}
      /\ thread[c].at \notin Owning \cup {"scan"} /\ Nobody \notin Client
  BY <1>1, ClientOps, PoolAssumption DEF Owning
<1>3. /\ Alone(c) /\ thread'[c].at = "free" /\ thread'[c].op = "none"
  BY <1>1, <1>2, StartFields
<1>4. ClientAt(thread'[c]) /\ Holding(thread[c]) /\ ~Holding(thread'[c])
  BY <1>1, <1>2, <1>3 DEF ClientAt, Holding, Whole
<1>5. \A d \in Client : ~Stopping(d)
  BY <1>1, NobodyStops
<1>6. pool.nSuspend \in Nat /\ pool.nSuspend > 0 /\ Suspensions[c] \in Nat
  <2>1. Suspensions[c] > 0
    BY <1>4 DEF Suspensions, SInv, Recorded
  <2>2. /\ Suspensions[c] \in Nat /\ Suspensions[c] <= SumFunctionOnSet(Suspensions, Client)
        /\ SumFunctionOnSet(Suspensions, Client) \in Nat
    BY SuspensionsNat DEF SInv
  <2>3. pool.nSuspend = SumFunctionOnSet(Suspensions, Client)
    BY DEF SInv, OneSuspends
  <2>4. QED
    BY <2>1, <2>2, <2>3
<1>7. /\ pool' \in [threads : SUBSET Worker, nSuspend : Int,
                    suspending : Client \cup {Nobody}, idle : SUBSET Worker]
      /\ pool'.threads = pool.threads /\ pool'.idle = pool.idle
      /\ pool'.nSuspend = pool.nSuspend - 1 /\ pool'.suspending = Nobody
  <2>1. pool.nSuspend - 1 \in Int
    BY <1>6
  <2>2. QED
    BY <1>1, <2>1, PoolFields DEF SInv
<1>8. /\ worker' \in [Worker -> [call : {"none", "suspend", "exit"}, awake : BOOLEAN]]
      /\ \A w \in Worker : /\ worker'[w].call = worker[w].call
                           /\ worker'[w].awake <=> worker[w].awake \/ pool.nSuspend = 1
  <2>1. ASSUME NEW w \in Worker
        PROVE  /\ worker'[w] \in [call : {"none", "suspend", "exit"}, awake : BOOLEAN]
               /\ worker'[w].call = worker[w].call
               /\ worker'[w].awake <=> worker[w].awake \/ pool.nSuspend = 1
    <3> DEFINE a == worker[w].awake \/ pool.nSuspend = 1
    <3>1. worker[w] \in [call : {"none", "suspend", "exit"}, awake : BOOLEAN]
      BY DEF SInv, Recorded
    <3>2. worker'[w] = [worker[w] EXCEPT !.awake = a] /\ a \in BOOLEAN
      BY <1>1
    <3>3. worker'[w].awake = a /\ worker'[w].call = worker[w].call
          /\ worker'[w] \in [call : {"none", "suspend", "exit"}, awake : BOOLEAN]
      <4> HIDE DEF a
      <4>1. QED
        BY <3>1, <3>2
    <3>4. QED
      BY <3>3
  <2>2. worker' = [w \in Worker |-> worker'[w]]
    BY <1>1
  <2>3. QED
    BY <2>1, <2>2
<1>9. Recorded'
  BY <1>1, <1>7, <1>8 DEF SInv, Recorded
<1>10. AccessAgrees' /\ OwnersKnown' /\ InPlaces'
       /\ (\A w \in Worker : thread'[w] = thread[w] /\ At(w, "suspend")' = At(w, "suspend"))
       /\ \A d \in Client : d # c => thread'[d] = thread[d]
  BY <1>1, <1>2, <1>3, <1>4, <1>7, ApartKeeps
<1>11. SumFunctionOnSet(Suspensions, Client)' = SumFunctionOnSet(Suspensions, Client) - 1
  <2>1. \A d \in Client : d # c => Suspensions'[d] = Suspensions[d]
    BY <1>1, <1>10 DEF Suspensions
  <2>2. SumFunctionOnSet(Suspensions, Client)' =
           SumFunctionOnSet(Suspensions, Client) + (Suspensions'[c] - Suspensions[c])
    BY <1>9, <2>1, SuspensionsMove DEF SInv
  <2>3. Suspensions'[c] = Suspensions[c] - 1
    BY <1>1, <1>4 DEF Suspensions, SInv, Recorded
  <2>4. SumFunctionOnSet(Suspensions, Client) \in Nat
    BY SuspensionsNat DEF SInv
  <2>5. QED
    BY <1>6, <2>2, <2>3, <2>4
<1>12. \A d \in Client : /\ thread'[d].at \notin {"call", "settle", "join"}
                         /\ ~Bulky(thread'[d]) /\ ~Stopping(d)'
  <2>1. ~Bulky(thread'[c]) /\ ~Stopping(c)'
    BY <1>3 DEF Bulky, Stopping
  <2>2. ASSUME NEW d \in Client, d # c
        PROVE  /\ thread'[d].at \notin {"call", "settle", "join"}
               /\ ~Bulky(thread'[d]) /\ ~Stopping(d)'
    <3>1. pool.suspending \in {c, Nobody}
      BY <1>1
    <3>2. thread[d].at \notin {"call", "settle", "join"} /\ ~Bulky(thread[d])
      BY <1>5, <2>2, <3>1, NoneAtWorkers DEF Stopping
    <3>3. ~Stopping(d)'
      BY <1>5, <1>10, <2>2 DEF Stopping
    <3>4. QED
      BY <1>10, <2>2, <3>2, <3>3
  <2>3. QED
    BY <1>3, <2>1, <2>2
<1>13. OneSuspends'
  BY <1>2, <1>7, <1>11, <1>12 DEF SInv, OneSuspends
<1>14. Targets' /\ StopsAlone'
  BY <1>12 DEF Targets, StopsAlone
<1>15. Awakened'
  <2>1. \A w \in pool.threads : ~worker[w].awake /\ w \in Worker
    BY <1>6 DEF SInv, Awakened, Recorded
  <2>2. ASSUME NEW w \in Worker
        PROVE  /\ At(w, "suspended")' = At(w, "suspended")
               /\ ~worker'[w].awake => At(w, "suspended")' /\ worker'[w].call = "none"
               /\ At(w, "suspend")' => worker'[w].call = "none"
               /\ ~worker[w].awake => thread'[w].at = "suspended" /\ worker[w].call = "none"
    BY <1>8, <1>10 DEF SInv, Awakened, At
  <2>3. pool'.nSuspend = 0 => \A w \in pool.threads : Quiet(w)'
    <3>1. pool'.nSuspend = 0 => pool.nSuspend = 1
      BY <1>6, <1>7
    <3>2. QED
      BY <1>8, <2>1, <2>2, <3>1 DEF Quiet
  <2>4. pool'.nSuspend > 0 => \A w \in pool.threads : ~worker'[w].awake
    <3>1. pool'.nSuspend > 0 => pool.nSuspend # 1
      BY <1>6, <1>7
    <3>2. QED
      BY <1>8, <2>1, <3>1
  <2>5. QED
    BY <1>7, <2>2, <2>3, <2>4 DEF Awakened
<1>16. QED
  BY <1>9, <1>10, <1>13, <1>14, <1>15 DEF SInv

\* A client that suspended the pool begins to resume it: it is counted as before.
LEMMA EndSuspendKeeps ==
  ASSUME PInv, QTypeOK, SInv, NEW c \in Client, EndSuspend(c)
  PROVE  SInv'
<1>1. /\ Free(c) /\ access' = access /\ job' = job /\ worker' = worker /\ pool' = pool
      /\ client[c].suspends > 0
      /\ client' = [client EXCEPT ![c].suspends = @ - 1]
      /\ Start(c, "resume", NoJob, "service", "resume")
  BY DEF EndSuspend, qvars
<1>2. /\ c \in Thread /\ thread[c].at = "free" /\ thread[c].op = "none"
      /\ ~Holding(thread[c]) /\ thread[c].at \notin Owning \cup {"call", "settle", "join", "scan"}
      /\ \A d \in Client : ~Stopping(d)
  BY <1>1, FreeIs
<1>3. Alone(c) /\ thread'[c].at = "resume" /\ thread'[c].op = "resume"
  BY <1>1, <1>2, StartFields
<1>4. ClientAt(thread'[c]) /\ Holding(thread'[c]) /\ ~Bulky(thread'[c]) /\ ~Stopping(c)'
      /\ ~Bulky(thread[c])
  BY <1>2, <1>3 DEF ClientAt, Holding, Bulky, Stopping
<1>5. /\ client' \in [Client -> [held : SUBSET Job, suspends : Nat, bulk : Int]]
      /\ client'[c].suspends = client[c].suspends - 1
      /\ \A d \in Client : d # c => client'[d] = client[d]
      /\ client[c].suspends \in Nat
  <2>1. client[c].suspends \in Nat
    BY DEF SInv, Recorded
  <2>2. client[c].suspends - 1 \in Nat
    BY <1>1, <2>1
  <2>3. QED
    BY <1>1, <2>1, <2>2, ClientFields DEF SInv
<1>6. Recorded'
  BY <1>1, <1>5 DEF SInv, Recorded
<1>7. AccessAgrees' /\ OwnersKnown' /\ InPlaces'
      /\ (\A w \in Worker : thread'[w] = thread[w] /\ At(w, "suspend")' = At(w, "suspend"))
      /\ \A d \in Client : d # c => thread'[d] = thread[d]
  BY <1>1, <1>2, <1>3, <1>4, ApartKeeps
<1>8. SumFunctionOnSet(Suspensions, Client)' = SumFunctionOnSet(Suspensions, Client)
  <2>1. \A d \in Client : d # c => Suspensions'[d] = Suspensions[d]
    BY <1>5, <1>7 DEF Suspensions
  <2>2. Suspensions'[c] = Suspensions[c]
    BY <1>2, <1>4, <1>5 DEF Suspensions
  <2>3. Suspensions' = Suspensions
    BY <2>1, <2>2 DEF Suspensions
  <2>4. QED
    BY <2>3
<1>9. OneSuspends'
  <2>1. \A d \in Client : Bulky(thread'[d]) <=> Bulky(thread[d])
    BY <1>4, <1>7
  <2>2. QED
    BY <1>1, <1>8, <2>1 DEF SInv, OneSuspends
<1>10. \A d \in Client : ~Stopping(d)'
  BY <1>2, <1>4, <1>7 DEF Stopping
<1>11. \A w \in Worker : (Quiet(w)' <=> Quiet(w)) /\ At(w, "suspended")' = At(w, "suspended")
  BY <1>1, <1>7 DEF Quiet, At
<1>12. Targets' /\ StopsAlone'
  <2>1. thread'[c].at \notin {"call", "settle", "join"}
    BY <1>3
  <2>2. Targets'
    BY <1>1, <1>7, <1>11, <2>1 DEF SInv, Targets, Recorded
  <2>3. QED
    BY <1>10, <2>2 DEF StopsAlone
<1>13. Awakened'
  BY <1>1, <1>2, <1>7, <1>11 DEF SInv, Awakened, Recorded
<1>14. QED
  BY <1>6, <1>7, <1>9, <1>12, <1>13 DEF SInv

\* Stop begins, with everybody at rest.
LEMMA StopKeeps ==
  ASSUME PInv, QTypeOK, SInv, NEW c \in Client, Stop(c)
  PROVE  SInv'
<1>1. /\ \A d \in Client : Free(d) /\ client[d].suspends = 0
      /\ access' = access /\ job' = job /\ worker' = worker /\ pool' = pool
      /\ client' = [client EXCEPT ![c].bulk = @ - 1]
      /\ thread' = [thread EXCEPT ![c].at = "call", ![c].todo = pool.threads, ![c].op = "stop"]
  BY DEF Stop, Begun, qvars
<1>2. \A d \in Client : /\ d \in Thread /\ thread[d].at = "free" /\ thread[d].op = "none"
                        /\ ~Holding(thread[d]) /\ ~Stopping(d) /\ ~Bulky(thread[d])
  BY <1>1, FreeIs DEF Bulky
<1>3. /\ Alone(c) /\ thread'[c].at = "call" /\ thread'[c].op = "stop"
      /\ thread'[c].todo = pool.threads
  BY <1>1, <1>2 DEF PInv, Typed, ThreadRecord, Alone
<1>4. /\ ClientAt(thread'[c]) /\ ~Holding(thread'[c]) /\ ~Bulky(thread'[c])
      /\ thread[c].at \notin Owning \cup {"scan"}
  BY <1>2, <1>3 DEF ClientAt, Holding, Bulky, Owning
<1>5. /\ client' \in [Client -> [held : SUBSET Job, suspends : Nat, bulk : Int]]
      /\ \A d \in Client : client'[d].suspends = client[d].suspends
  <2>1. client[c].bulk - 1 \in Int
    BY DEF SInv, Recorded
  <2>2. QED
    BY <1>1, <2>1, ClientFields DEF SInv
<1>6. Recorded'
  BY <1>1, <1>5, RecordedKept DEF SInv
<1>7. AccessAgrees' /\ OwnersKnown' /\ InPlaces'
      /\ (\A w \in Worker : thread'[w] = thread[w] /\ At(w, "suspend")' = At(w, "suspend"))
      /\ \A d \in Client : d # c => thread'[d] = thread[d]
  BY <1>1, <1>3, <1>4, ApartKeeps
<1>8. pool.nSuspend = 0
  <2>1. \A d \in Client : Suspensions[d] = 0
    BY <1>1, <1>2 DEF Suspensions
  <2>2. QED
    BY <2>1, SuspensionsNat DEF SInv, OneSuspends
<1>9. pool.suspending = Nobody
  BY <1>2 DEF SInv, OneSuspends, Recorded
<1>10. \A w \in pool.threads : w \in Worker /\ Quiet(w)
  BY <1>2, <1>8, <1>9 DEF SInv, Awakened, Recorded
<1>11. \A w \in Worker : (Quiet(w)' <=> Quiet(w)) /\ At(w, "suspended")' = At(w, "suspended")
  BY <1>1, <1>7 DEF Quiet, At
<1>12. OneSuspends'
  <2>1. \A d \in Client : Bulky(thread'[d]) <=> Bulky(thread[d])
    BY <1>2, <1>4, <1>7
  <2>2. \A d \in Client : Holding(thread'[d]) <=> Holding(thread[d])
    BY <1>2, <1>4, <1>7
  <2>3. SumFunctionOnSet(Suspensions, Client)' = SumFunctionOnSet(Suspensions, Client)
    BY <1>5, <2>2, SuspensionsSame
  <2>4. QED
    BY <1>1, <2>1, <2>3 DEF SInv, OneSuspends
<1>13. Targets'
  BY <1>1, <1>2, <1>3, <1>7, <1>10, <1>11 DEF Targets
<1>14. StopsAlone'
  BY <1>1, <1>2, <1>7, <1>8 DEF StopsAlone, Stopping
<1>15. Awakened'
  <2>1. Stopping(c)'
    BY <1>3 DEF Stopping
  <2>2. QED
    BY <1>1, <1>7, <1>8, <1>11, <2>1 DEF SInv, Awakened
<1>16. QED
  BY <1>6, <1>7, <1>12, <1>13, <1>14, <1>15 DEF SInv

\* Stop ends: no worker is left.
LEMMA JoinKeeps ==
  ASSUME PInv, QTypeOK, SInv, NEW c \in Client, Join(c)
  PROVE  SInv'
<1>1. /\ thread[c].at = "join" /\ access' = access /\ client' = client /\ worker' = worker
      /\ \A w \in thread[c].todo : thread[w].at = "exited"
      /\ pool' = [pool EXCEPT !.threads = {}, !.idle = {}]
      /\ Start(c, "free", NoJob, "service", "none")
  BY DEF Join, At, Flush
<1>2. /\ c \in Thread /\ thread[c].op = "stop" /\ Stopping(c)
      /\ thread[c].at \notin Owning \cup {"scan"}
  BY <1>1, ClientOps DEF Owning, Stopping
<1>3. Alone(c) /\ thread'[c].at = "free" /\ thread'[c].op = "none"
  BY <1>1, <1>2, StartFields
<1>4. /\ ClientAt(thread'[c]) /\ ~Holding(thread'[c]) /\ ~Bulky(thread'[c]) /\ ~Stopping(c)'
      /\ ~Holding(thread[c]) /\ ~Bulky(thread[c])
  BY <1>2, <1>3 DEF ClientAt, Holding, Bulky, Stopping
<1>5. \A j \in Job : job'[j].owner = job[j].owner
  <2> SUFFICES ASSUME NEW j \in Job
               PROVE  job'[j].owner = job[j].owner
    OBVIOUS
  <2> DEFINE aborts == Entries(Shared, j) # {} /\ CanExecute(j)
             refs == job[j].refs - Cardinality(Entries(Shared, j))
             lost == job[j].lost + Cardinality(EntriesOf(pool.threads, j))
             status == IF aborts THEN "ABORTED" ELSE job[j].status
             calls == IF aborts THEN job[j].calls + 1 ELSE job[j].calls
             done == job[j].done \/ aborts
  <2>1. job'[j] = [job[j] EXCEPT !.refs = refs, !.lost = lost, !.status = status,
                                 !.calls = calls, !.done = done]
    BY DEF Join
  <2>2. job[j] \in JobRecord
    BY DEF PInv, Typed
  <2> HIDE DEF aborts, refs, lost, status, calls, done
  <2>3. QED
    BY <2>1, <2>2 DEF JobRecord
<1>6. /\ pool' \in [threads : SUBSET Worker, nSuspend : Int,
                    suspending : Client \cup {Nobody}, idle : SUBSET Worker]
      /\ pool'.threads = {} /\ pool'.idle = {}
      /\ pool'.nSuspend = pool.nSuspend /\ pool'.suspending = pool.suspending
  <2>1. pool \in [threads : SUBSET Worker, nSuspend : Int,
                  suspending : Client \cup {Nobody}, idle : SUBSET Worker]
    BY DEF SInv, Recorded
  <2>2. QED
    BY <1>1, <2>1
<1>7. Recorded'
  BY <1>1, <1>6 DEF SInv, Recorded
<1>8. AccessAgrees' /\ OwnersKnown'
      /\ (\A w \in Worker : thread'[w] = thread[w] /\ At(w, "suspend")' = At(w, "suspend"))
      /\ \A d \in Client : d # c => thread'[d] = thread[d]
  BY <1>1, <1>2, <1>3, <1>4, <1>5, ApartKeeps
<1>9. \A d \in Client : d # c => thread[d].at = "free" /\ thread[d].op = "none"
  BY <1>2, ClientOps DEF SInv, StopsAlone
<1>10. InPlaces'
  <2>1. ASSUME NEW w \in Worker
        PROVE  WorkerAt(thread'[w]) /\ thread'[w].at = "exited"
    <3>1. thread[c].todo = pool.threads
      BY <1>1 DEF SInv, Targets
    <3>2. WorkerAt(thread[w]) /\ thread[w].at = "exited"
      BY <1>1, <3>1, WorkerAwake
    <3>3. QED
      BY <1>8, <3>2
  <2>2. ASSUME NEW d \in Client
        PROVE  ClientAt(thread'[d])
    <3>1. ClientAt(thread[d])
      BY ClientOps
    <3>2. CASE d = c
      BY <1>4, <3>2
    <3>3. CASE d # c
      <4>1. thread'[d] = thread[d]
        BY <1>8, <3>3
      <4>2. QED
        BY <3>1, <4>1
    <3>4. QED
      BY <3>2, <3>3
  <2>3. QED
    BY <2>1, <2>2 DEF InPlaces
<1>11. OneSuspends'
  <2>1. \A d \in Client : Bulky(thread'[d]) <=> Bulky(thread[d])
    BY <1>4, <1>8
  <2>2. \A d \in Client : Holding(thread'[d]) <=> Holding(thread[d])
    BY <1>4, <1>8
  <2>3. SumFunctionOnSet(Suspensions, Client)' = SumFunctionOnSet(Suspensions, Client)
    BY <1>1, <2>2, SuspensionsSame
  <2>4. QED
    BY <1>6, <2>1, <2>3 DEF SInv, OneSuspends
<1>12. \A d \in Client : thread'[d].at = "free" /\ ~Stopping(d)'
  BY <1>3, <1>4, <1>8, <1>9 DEF Stopping
<1>13. Targets' /\ StopsAlone'
  BY <1>12 DEF Targets, StopsAlone
<1>14. Awakened'
  <2>1. \A w \in Worker : At(w, "suspended")' = At(w, "suspended")
    BY <1>8 DEF At
  <2>2. QED
    BY <1>1, <1>6, <1>8, <2>1 DEF SInv, Awakened
<1>15. QED
  BY <1>7, <1>8, <1>10, <1>11, <1>13, <1>14 DEF SInv

-----------------------------------------------------------------------------
(* The invariant of the pool's state *)

\* Every step of a client in what it has begun keeps it.
LEMMA ContinueKeeps ==
  ASSUME PInv, QTypeOK, SInv, NEW c \in Client, Continue(c)
  PROVE  SInv'
<1>1. c \in Thread
  BY Names
<1>2. CASE Service(c)
  BY <1>1, <1>2, ServiceKeeps
<1>3. CASE Count(c) \/ Yield(c) \/ Help(c) \/ EndWait(c)
  BY <1>3, WaitsKeeps
<1>4. QED
  BY <1>2, <1>3, EnterKeeps, CallWorkerKeeps, SettleKeeps, DrainKeeps, ResumeKeeps,
     EndSuspendKeeps, JoinKeeps DEF Continue, Drains

\* So does every operation it begins.
LEMMA BeginsKeeps ==
  ASSUME PInv, QTypeOK, SInv, NEW c \in Client, Begins(c)
  PROVE  SInv'
<1>1. ASSUME NEW j \in Job,
             \/ AddInline(c, j) \/ WaitForFinish(c, j)
             \/ \E mode \in {"execute", "abort"} : ExecuteOrAbort(c, j, mode)
      PROVE  SInv'
  BY <1>1, StartsKeeps
<1>2. ASSUME NEW j \in Job, AddJob(c, j)
      PROVE  SInv'
  <2>1. 0 \in Priority
    BY PriorityAssumption DEF Priority
  <2>2. QED
    BY <1>2, <2>1, PushesKeeps
<1>3. ASSUME NEW j \in Job, NEW p \in Priority, ChangePriority(c, j, p)
      PROVE  SInv'
  BY <1>3, PushesKeeps
<1>4. ASSUME NEW op \in {"suspend", "abort all", "execute all"}, Bulk(c, op)
      PROVE  SInv'
  BY <1>4, BulkKeeps DEF Whole
<1>5. QED
  BY <1>1, <1>2, <1>3, <1>4, LetGoKeeps, StopKeeps DEF Begins

\* A step that changes nothing.
LEMMA IdleKeeps ==
  ASSUME SInv, UNCHANGED vars
  PROVE  SInv'
<1>1. /\ access' = access /\ thread' = thread /\ job' = job /\ client' = client
      /\ worker' = worker /\ pool' = pool
  BY DEF vars
<1>2. Recorded' /\ InPlaces' /\ AccessAgrees' /\ OwnersKnown'
  BY <1>1 DEF SInv, Recorded, InPlaces, AccessAgrees, OwnersKnown, At, Mine
<1>3. Suspensions' = Suspensions
  BY <1>1 DEF Suspensions
<1>4. OneSuspends' /\ Targets' /\ StopsAlone' /\ Awakened'
  BY <1>1, <1>3 DEF SInv, OneSuspends, Targets, StopsAlone, Awakened, Quiet, Stopping, At
<1>5. QED
  BY <1>2, <1>4 DEF SInv

\* Every step of the pool keeps it.
LEMMA StateNextInv ==
  ASSUME PInv, QTypeOK, SInv, [Next]_vars
  PROVE  SInv'
BY WorkKeeps, ContinueKeeps, BeginsKeeps, IdleKeeps DEF Next

\* It holds in a started pool.
LEMMA StateInitInv == Init => SInv
<1> SUFFICES ASSUME Init
             PROVE  SInv
  OBVIOUS
<1>1. PICK threads \in SUBSET Worker :
        /\ pool = [threads |-> threads, nSuspend |-> 0, suspending |-> Nobody, idle |-> threads]
        /\ thread = [t \in Thread |->
                       [at |-> IF t \in Client THEN "free"
                               ELSE IF t \in threads THEN "wait" ELSE "exited",
                        job |-> NoJob, mode |-> "service", op |-> "none", todo |-> {}]]
  BY DEF Init
<1>2. ASSUME NEW t \in Thread
      PROVE  /\ thread[t].at = IF t \in Client THEN "free"
                               ELSE IF t \in threads THEN "wait" ELSE "exited"
             /\ thread[t].mode = "service" /\ thread[t].op = "none"
  BY <1>1
<1>3. /\ pool.threads = threads /\ pool.nSuspend = 0 /\ pool.suspending = Nobody
      /\ Worker \subseteq Thread /\ Client \subseteq Thread /\ Worker \cap Client = {}
      /\ Nobody \notin Thread
  BY <1>1, Names, PoolAssumption
<1>4. \A w \in Worker : worker[w] = [call |-> "none", awake |-> TRUE]
  BY DEF Init
<1>5. Recorded
  <2>1. pool \in [threads : SUBSET Worker, nSuspend : Int, suspending : Client \cup {Nobody},
                  idle : SUBSET Worker] /\ pool.idle \subseteq pool.threads
    BY <1>1
  <2>2. worker \in [Worker -> [call : {"none", "suspend", "exit"}, awake : BOOLEAN]]
    BY DEF Init
  <2>3. client \in [Client -> [held : SUBSET Job, suspends : Nat, bulk : Int]]
    <3>1. client \in [Client -> [held : SUBSET Job, suspends : {0}, bulk : 0 .. MaxBulk]]
      BY DEF Init
    <3>2. \A c \in Client : client[c] \in [held : SUBSET Job, suspends : Nat, bulk : Int]
      BY <3>1, PoolAssumption
    <3>3. QED
      BY <3>1, <3>2
  <2>4. QED
    BY <2>1, <2>2, <2>3 DEF Recorded
<1>6. InPlaces
  BY <1>2, <1>3 DEF InPlaces, WorkerAt, ClientAt
<1>7. AccessAgrees
  <2>1. \A t \in Thread : access[t].at = "outside"
    BY AccessKinds DEF Init, QInit
  <2>2. QED
    BY <1>2, <2>1 DEF AccessAgrees, At
<1>8. OwnersKnown
  <2>1. \A j \in Job : job[j].owner = Nobody
    BY DEF Init
  <2>2. QED
    BY <1>3, <2>1 DEF OwnersKnown
<1>9. \A c \in Client : /\ thread[c].at = "free" /\ ~Bulky(thread[c]) /\ ~Holding(thread[c])
                        /\ ~Stopping(c)
  BY <1>2, <1>3 DEF Bulky, Holding, Stopping
<1>10. OneSuspends
  <2>1. \A c \in Client : Suspensions[c] = 0
    <3>1. \A c \in Client : client[c].suspends = 0
      BY DEF Init
    <3>2. QED
      BY <1>9, <3>1 DEF Suspensions
  <2>2. SumFunctionOnSet(Suspensions, Client) = 0
    BY <1>5, <2>1, SuspensionsNat
  <2>3. QED
    BY <1>3, <1>9, <2>2 DEF OneSuspends
<1>11. Targets /\ StopsAlone
  BY <1>9 DEF Targets, StopsAlone
<1>12. Awakened
  BY <1>2, <1>3, <1>4 DEF Awakened, Quiet, At
<1>13. QED
  BY <1>5, <1>6, <1>7, <1>8, <1>10, <1>11, <1>12 DEF SInv

StateInv == PoolInv /\ SInv

\* The whole invariant is that of the queues, of the jobs and of the suspension.
LEMMA StateInductive ==
  /\ Init => StateInv
  /\ StateInv /\ [Next]_vars => StateInv'
<1>1. Init => StateInv
  BY PoolInitInv, StateInitInv DEF StateInv
<1>2. StateInv /\ [Next]_vars => StateInv'
  BY PoolNextInv, StateNextInv DEF StateInv, PoolInv, IInv, QInv
<1>3. QED
  BY <1>1, <1>2

\* While the pool is suspended, by however many clients, every worker is, and stays so.
THEOREM WorkersStaySuspended == Spec => []SuspendedStill
<1>1. StateInv => SuspendedStill
  BY DEF StateInv, SInv, Awakened, Recorded, SuspendedStill
<1>2. QED
  BY <1>1, StateInductive, PTL DEF Spec

\* The assertion of Call, that no call is pending, never fails.
THEOREM WorkersCalledOnce == Spec => []CallsAlone
<1>1. StateInv => CallsAlone
  BY DEF StateInv, SInv, Targets, Quiet, CallsAlone, At
<1>2. QED
  BY <1>1, StateInductive, PTL DEF Spec

-----------------------------------------------------------------------------
(* A pool that one client uses *)

\* The other clients have nothing to do; the one that executes all jobs is never where it
\* pops a job that is not there.
Lone(c) ==
  /\ \A d \in Client \ {c} : /\ client[d].held = {} /\ client[d].bulk = 0
                             /\ client[d].suspends = 0 /\ thread[d].at = "free"
  /\ \A t \in Thread : access[t].at = "counting" => thread[t].at = "count"
  /\ thread[c].at = "pop next" =>
       \A q \in Queue, p \in Priority : Turn(c, q, p) => items[q][p] # <<>>
  /\ thread[c].at # "crashed"

\* It is the turn of one priority of one queue.
LEMMA TurnAlone ==
  ASSUME NEW c, NEW q \in Queue, NEW r \in Queue, NEW p \in Priority, NEW o \in Priority,
         Turn(c, q, p), Turn(c, r, o)
  PROVE  q = r /\ p = o
<1>1. p \in Int /\ o \in Int
  BY PriorityAssumption DEF Priority
<1>2. /\ <<q, p>> \in thread[c].todo /\ <<r, o>> \in thread[c].todo
      /\ p < o \/ (p = o /\ ~Ahead(q, r))
      /\ o < p \/ (o = p /\ ~Ahead(r, q))
  BY DEF Turn
<1>3. p = o /\ ~Ahead(q, r) /\ ~Ahead(r, q)
  BY <1>1, <1>2
<1>4. q = r
  <2>1. CASE q = Shared \/ r = Shared
    BY <1>3, <2>1 DEF Ahead
  <2>2. CASE q # Shared /\ r # Shared
    <3>1. q \in Worker /\ r \in Worker
      BY <2>2, PoolAssumption
    <3>2. Index[q] \in Nat /\ Index[r] \in Nat
      BY <3>1, PoolAssumption
    <3>3. Index[q] = Index[r]
      BY <1>3, <2>2, <3>2 DEF Ahead
    <3>4. QED
      BY <3>1, <3>3, PoolAssumption
  <2>3. QED
    BY <2>1, <2>2
<1>5. QED
  BY <1>3, <1>4

\* A client without jobs, suspensions and operations left does nothing.
LEMMA OthersStill ==
  ASSUME NEW c \in Client, Lone(c), NEW d \in Client \ {c}
  PROVE  ~Continue(d) /\ ~Begins(d)
<1>1. /\ thread[d].at = "free" /\ client[d].held = {} /\ client[d].bulk = 0
      /\ client[d].suspends = 0
  BY DEF Lone
<1>2. ~Service(d)
  BY <1>1 DEF Service, Scan, Check, Lock, Begin, Run, Signal, Release, At
<1>3. ~Count(d) /\ ~Yield(d) /\ ~Help(d) /\ ~EndWait(d) /\ ~Enter(d)
  BY <1>1 DEF Count, Yield, Help, EndWait, Enter, At
<1>4. ~CallWorker(d) /\ ~Settle(d) /\ ~Resume(d) /\ ~EndSuspend(d) /\ ~Join(d)
  BY <1>1 DEF CallWorker, Settle, Resume, EndSuspend, Join, At
<1>5. ~Drains(d)
  BY <1>1 DEF Drains, AbortNext, CountNext, ExecuteNext, Drained, At
<1>6. ~Begins(d)
  BY <1>1 DEF Begins, AddInline, AddJob, LetGo, WaitForFinish, ChangePriority, ExecuteOrAbort,
              Bulk, Stop, Begun, Held
<1>7. QED
  BY <1>2, <1>3, <1>4, <1>5, <1>6 DEF Continue, Drains

\* While a client is in AbortAll or ExecuteAll no worker does anything.
LEMMA WorkersStill ==
  ASSUME SInv, NEW c \in Client, Holding(thread[c]), NEW w \in Worker
  PROVE  thread[w].at \in {"suspended", "exited"} /\ ~Work(w)
<1>1. pool.nSuspend > 0
  <2>1. /\ Suspensions[c] \in Nat /\ Suspensions[c] <= pool.nSuspend /\ pool.nSuspend \in Nat
    BY SuspensionsNat DEF SInv, OneSuspends
  <2>2. client[c].suspends \in Nat
    BY DEF SInv, Recorded
  <2>3. Suspensions[c] = client[c].suspends + 1
    BY DEF Suspensions
  <2>4. QED
    BY <2>1, <2>2, <2>3
<1>2. CASE w \in pool.threads
  <2>1. thread[w].at = "suspended" /\ ~worker[w].awake
    BY <1>1, <1>2 DEF SInv, Awakened, At
  <2>2. QED
    BY <2>1 DEF Work, Service, Scan, Check, Lock, Begin, Run, Signal, Release, Wake, PopDirect,
                PopShared, Finish, Reply, SuspendSelf, Awaken, At
<1>3. CASE w \notin pool.threads
  <2>1. thread[w].at = "exited"
    BY <1>3 DEF SInv, InPlaces
  <2>2. QED
    BY <2>1 DEF Work, Service, Scan, Check, Lock, Begin, Run, Signal, Release, Wake, PopDirect,
                PopShared, Finish, Reply, SuspendSelf, Awaken, At
<1>4. QED
  BY <1>2, <1>3

\* An item that the client sees in a queue is counted, since nobody else is in the queues.
LEMMA ItemCounted ==
  ASSUME PInv, IInv, SInv, NEW c \in Client, Lone(c), NEW q \in Queue, NEW p \in Priority
  PROVE  thread[c].at = "pop next" /\ items[q][p] # <<>> => nItems[q] # 0
<1>1. QTypeOK /\ IsFiniteSet(Places(q, TopPriority))
  BY DEF IInv, QInv, FinitelyMany
<1>2. ASSUME thread[c].at = "pop next"
      PROVE  \A t \in Thread : thread[t].at \notin {"scan", "count"}
  <2>1. Holding(thread[c])
    BY <1>2, ClientOps DEF Holding
  <2>2. \A w \in Worker : thread[w].at \in {"suspended", "exited"}
    BY <2>1, WorkersStill
  <2>3. \A d \in Client : thread[d].at \in {"free", "pop next"}
    BY <1>2 DEF Lone
  <2>4. QED
    BY <2>2, <2>3, PoolAssumption
<1>3. ASSUME thread[c].at = "pop next"
      PROVE  Scanners(q, TopPriority) = {} /\ Counters(q) = {}
  <2>1. \A t \in Thread : access[t].at \notin {"scanning", "counting"}
    BY <1>2, <1>3 DEF Lone, SInv, AccessAgrees, At
  <2>2. \A t \in Thread : access[t] # Counting(q)
    <3>1. Counting(q).at = "counting"
      BY DEF Counting
    <3>2. QED
      BY <2>1, <3>1
  <2>3. QED
    BY <2>1, <2>2 DEF Scanners, Counters
<1>4. ASSUME items[q][p] # <<>>
      PROVE  <<p, 1>> \in Places(q, TopPriority)
  <2>1. items[q][p] \in Seq(Job) /\ p \in 0 .. TopPriority
    BY <1>1 DEF QTypeOK, Priority
  <2>2. Len(items[q][p]) \in Nat /\ Len(items[q][p]) # 0
    BY <1>4, <2>1, LenProperties, EmptySeq
  <2>3. \A n \in Nat : n # 0 => 1 \in 1 .. n
    OBVIOUS
  <2>4. QED
    BY <2>1, <2>2, <2>3, PlacesDef
<1>5. items[q][p] # <<>> => Cardinality(Places(q, TopPriority)) # 0
  BY <1>1, <1>4, FS_EmptySet
<1>6. thread[c].at = "pop next" => Cardinality(Places(q, TopPriority)) = nItems[q]
  <2>1. nItems[q] \in Nat
    BY <1>1 DEF QTypeOK
  <2>2. Cardinality(Places(q, TopPriority)) =
          nItems[q] + Cardinality(Scanners(q, TopPriority)) + Cardinality(Counters(q))
    BY DEF IInv, QInv, AllAccounted
  <2>3. thread[c].at = "pop next" =>
          Cardinality(Scanners(q, TopPriority)) = 0 /\ Cardinality(Counters(q)) = 0
    BY <1>3, FS_EmptySet
  <2>4. \A n, k, m \in Nat : \A z : z = n + k + m /\ k = 0 /\ m = 0 => z = n
    OBVIOUS
  <2>5. QED
    BY <2>1, <2>2, <2>3, <2>4, ThreadsFinite
<1>7. QED
  BY <1>5, <1>6

\* What is to be shown of a step of the client that uses the pool, or of a worker.
LEMMA LoneKept ==
  ASSUME PInv, NEW c \in Client, Lone(c), NEW t \in Thread, Alone(t),
         t \in Client => t = c,
         \A d \in Client : d # c => client'[d] = client[d],
         \A u \in Thread : u # t => access'[u] = access[u],
         access'[t].at = "counting" => thread'[t].at = "count",
         thread'[c].at = "pop next" =>
           \A q \in Queue, p \in Priority : Turn(c, q, p)' => items'[q][p] # <<>>,
         thread'[c].at # "crashed"
  PROVE  Lone(c)'
<1>1. Client \subseteq Thread
  BY Names
<1>2. ASSUME NEW d \in Client, d # c
      PROVE  thread'[d] = thread[d] /\ client'[d] = client[d]
  <2>1. d \in Thread /\ d # t
    BY <1>1, <1>2
  <2>2. QED
    BY <1>2, <2>1 DEF Alone
<1>3. \A u \in Thread : access'[u].at = "counting" => thread'[u].at = "count"
  BY DEF Lone, Alone
<1>4. ASSUME NEW d \in Client \ {c}
      PROVE  /\ client'[d].held = {} /\ client'[d].bulk = 0
             /\ client'[d].suspends = 0 /\ thread'[d].at = "free"
  <2>1. /\ client[d].held = {} /\ client[d].bulk = 0
        /\ client[d].suspends = 0 /\ thread[d].at = "free"
    BY DEF Lone
  <2>2. thread'[d] = thread[d] /\ client'[d] = client[d]
    BY <1>2
  <2>3. QED
    BY <2>1, <2>2
<1>5. QED
  BY <1>3, <1>4 DEF Lone, Turn

\* A thread in the service of a job neither counts nor pops.
LEMMA ServiceLone ==
  ASSUME PInv, QTypeOK, SInv, NEW c \in Client, Lone(c), NEW t \in Thread, Service(t),
         t \in Client => t = c, thread[c].at = "pop next" => t = c
  PROVE  Lone(c)'
<1>1. client' = client /\ thread[t].at \in InService \cup {"scan"}
  BY DEF Service, Scan, Check, Lock, Begin, Run, Signal, Release, At, InService
<1>2. thread[c].at # "pop next"
  BY <1>1 DEF InService
<1>3. /\ Alone(t)
      /\ thread'[t].at \in InService \cup {"finish", "yield", "drain", "free", "scan"}
  <2>1. CASE Skip(t)
    <3>1. access'[t] # Outside
      BY ZenonT(30), <2>1, SkipAccess, AccessKinds DEF Skip
    <3>2. ~Take(t)
      BY <2>1, <3>1 DEF Skip, Take
    <3>3. thread' = thread \/ ~Scan(t)
      BY <3>2 DEF Scan
    <3>4. access[t].at = "scanning"
      BY <2>1 DEF Skip
    <3>5. thread[t].at = "scan"
      BY <3>4 DEF SInv, AccessAgrees, At
    <3>6. Scan(t)
      BY <3>5 DEF Service, Check, Lock, Begin, Run, Signal, Release, At
    <3>7. QED
      BY <1>1, <3>3, <3>6 DEF Alone
  <2>2. CASE ~Skip(t)
    BY <2>2, ServiceFields DEF Back
  <2>3. QED
    BY <2>1, <2>2
<1>4. /\ \A u \in Thread : u # t => access'[u] = access[u]
      /\ access'[t].at = "counting" => access' = access
  <2>1. CASE Scan(t)
    <3>1. CASE Skip(t)
      <4>1. access'[t].at = access[t].at
        BY <3>1, SkipAccess
      <4>2. /\ access[t].at = "scanning"
            /\ access' = [access EXCEPT ![t].priority = @ - 1]
        BY <3>1 DEF Skip
      <4>3. QED
        BY <4>1, <4>2 DEF QTypeOK
    <3>2. CASE Take(t)
      BY <3>2 DEF Take, QTypeOK, Outside
    <3>3. QED
      BY <2>1, <3>1, <3>2 DEF Scan
  <2>2. CASE ~Scan(t)
    BY <2>2 DEF Service, Check, Lock, Begin, Run, Signal, Release, qvars
  <2>3. QED
    BY <2>1, <2>2
<1>5. access'[t].at # "counting"
  <2>1. access'[t].at = "counting" => thread[t].at = "count"
    BY <1>4 DEF Lone
  <2>2. QED
    BY <1>1, <2>1 DEF InService
<1>6. thread'[c].at \notin {"pop next", "crashed"}
  <2>1. CASE t = c
    BY <1>3, <2>1 DEF InService
  <2>2. CASE t # c
    BY <1>2, <1>3, <2>2, Names DEF Alone, Lone
  <2>3. QED
    BY <2>1, <2>2
<1>7. QED
  BY <1>1, <1>3, <1>4, <1>5, <1>6, LoneKept

\* Taking an item off the count, and leaving the queues alone, counts nothing.
LEMMA AccessLone ==
  ASSUME QTypeOK, NEW c, Lone(c), NEW t \in Thread,
         \/ (\E q \in Queue : Reserve(t, q))
         \/ access' = access /\ thread[t].at # "count"
         \/ CountItem(t)
  PROVE  /\ \A u \in Thread : u # t => access'[u] = access[u]
         /\ access'[t].at # "counting"
<1>1. CASE \E q \in Queue : Reserve(t, q)
  BY <1>1 DEF Reserve, QTypeOK, Scanning
<1>2. CASE access' = access /\ thread[t].at # "count"
  BY <1>2 DEF Lone
<1>3. CASE CountItem(t)
  BY ZenonT(30), <1>3, AccessKinds DEF CountItem, QTypeOK
<1>4. QED
  BY <1>1, <1>2, <1>3

\* The workers do not come in between when the client has seen an item.
LEMMA WorkLone ==
  ASSUME PInv, QTypeOK, SInv, NEW c \in Client, Lone(c), NEW w \in Worker, Work(w)
  PROVE  Lone(c)'
<1>1. w \in Thread /\ c \in Thread /\ w \notin Client /\ w # c /\ w \in Queue /\ Shared \in Queue
  BY Names, PoolAssumption
<1>2. thread[c].at # "pop next"
  <2>1. thread[c].at = "pop next" => Holding(thread[c])
    BY ClientOps DEF Holding
  <2>2. QED
    BY <2>1, WorkersStill
<1>3. CASE Service(w)
  BY <1>1, <1>2, <1>3, ServiceLone
<1>4. CASE \/ Wake(w) \/ PopDirect(w) \/ PopShared(w)
           \/ Finish(w) \/ Reply(w) \/ SuspendSelf(w) \/ Awaken(w)
  <2>1. /\ thread[w].at # "count" /\ client' = client
        /\ (\E q \in Queue : Reserve(w, q)) \/ access' = access
    BY <1>1, <1>4 DEF Wake, PopDirect, PopShared, Finish, Reply, SuspendSelf, Awaken, Pop, qvars, At
  <2>2. \E where : Goto(w, where)
    BY <1>4 DEF Wake, PopDirect, PopShared, Finish, Reply, SuspendSelf, Awaken, Pop, BackToWait
  <2>3. Alone(w)
    BY <1>1, <2>2, GotoFields
  <2>4. thread'[c] = thread[c]
    BY <1>1, <2>3 DEF Alone
  <2>5. /\ \A u \in Thread : u # w => access'[u] = access[u]
        /\ access'[w].at # "counting"
    BY <1>1, <2>1, AccessLone
  <2>6. thread'[c].at \notin {"pop next", "crashed"}
    BY <1>2, <2>4 DEF Lone
  <2>7. QED
    BY <1>1, <2>1, <2>3, <2>5, <2>6, LoneKept
<1>5. QED
  BY <1>3, <1>4 DEF Work

\* The client counts an item before it pops one, and finds one then.
LEMMA DrainLone ==
  ASSUME PInv, IInv, SInv, NEW c \in Client, Lone(c), Drains(c)
  PROVE  Lone(c)'
<1>1. c \in Thread /\ QTypeOK
  BY Names DEF IInv, QInv
<1>2. /\ client' = client /\ thread[c].at \in {"drain", "pop next"} /\ DrainsTo(c)
  BY DrainMoves
<1>3. /\ \A u \in Thread : u # c => access'[u] = access[u]
      /\ access'[c].at # "counting"
  BY <1>1, <1>2, AccessLone DEF DrainsTo, qvars
<1>4. Alone(c)
  BY <1>1, <1>2, GotoFields, GotoAllFields DEF DrainsTo
<1>5. thread'[c].at # "crashed"
  <2>1. CASE ExecuteNext(c)
    <3>1. PICK q \in Queue, p \in Priority : Turn(c, q, p) /\ Pop(c, q, Goto(c, "crashed"))
      BY <2>1 DEF ExecuteNext
    <3>2. thread[c].at = "pop next"
      BY <2>1 DEF ExecuteNext, At
    <3>3. items[q][p] # <<>>
      BY <3>1, <3>2 DEF Lone
    <3>4. nItems[q] # 0
      BY <3>2, <3>3, ItemCounted
    <3>5. Goto(c, "scan")
      BY <3>1, <3>4 DEF Pop
    <3>6. thread'[c].at = "scan"
      BY <1>1, <3>5, GotoFields
    <3>7. QED
      BY <3>6
  <2>2. CASE ~ExecuteNext(c)
    <3>1. \/ \E where \in {"scan", "resume", "pop next"} : Goto(c, where)
          \/ \E set : GotoAll(c, "drain", set)
      BY <2>2 DEF Drains, AbortNext, CountNext, Drained, Pop
    <3>2. CASE \E where \in {"scan", "resume", "pop next"} : Goto(c, where)
      <4>1. thread'[c].at \in {"scan", "resume", "pop next"}
        BY <1>1, <3>2, GotoFields
      <4>2. QED
        BY <4>1
    <3>3. CASE \E set : GotoAll(c, "drain", set)
      <4>1. thread'[c].at = "drain"
        BY <1>1, <3>3, GotoAllFields
      <4>2. QED
        BY <4>1
    <3>4. QED
      BY <3>1, <3>2, <3>3
  <2>3. QED
    BY <2>1, <2>2
<1>6. ASSUME thread'[c].at = "pop next", NEW q \in Queue, NEW p \in Priority, Turn(c, q, p)'
      PROVE  items'[q][p] # <<>>
  <2>0. /\ \A where : Goto(c, where) => where = "pop next"
        /\ \A set : ~GotoAll(c, "drain", set)
    <3>1. ASSUME NEW where, Goto(c, where)
          PROVE  where = "pop next"
      <4>1. thread'[c].at = where
        BY <1>1, <3>1, GotoFields
      <4>2. QED
        BY <1>6, <4>1
    <3>2. ASSUME NEW set, GotoAll(c, "drain", set)
          PROVE  FALSE
      <4>1. thread'[c].at = "drain"
        BY <1>1, <3>2, GotoAllFields
      <4>2. QED
        BY <1>6, <4>1
    <3>3. QED
      BY <3>1, <3>2
  <2>1. CountNext(c)
    <3>1. ~AbortNext(c)
      BY <2>0 DEF AbortNext, Pop
    <3>2. ~ExecuteNext(c)
      BY <2>0 DEF ExecuteNext, Pop
    <3>3. ~Drained(c)
      BY <2>0 DEF Drained
    <3>4. QED
      BY <3>1, <3>2, <3>3 DEF Drains
  <2>2. PICK r \in Queue, o \in Priority :
          /\ Turn(c, r, o)
          /\ IF items[r][o] = <<>> THEN GotoAll(c, "drain", thread[c].todo \ {<<r, o>>})
                                   ELSE Goto(c, "pop next")
    BY <2>1 DEF CountNext
  <2>3. items[r][o] # <<>> /\ Goto(c, "pop next")
    BY <2>0, <2>2
  <2>4. thread'[c].todo = thread[c].todo
    BY <1>1, <2>3, GotoFields
  <2>5. Turn(c, q, p)
    BY <1>6, <2>4 DEF Turn
  <2>6. q = r /\ p = o
    BY <2>2, <2>5, TurnAlone
  <2>7. items' = items
    BY <2>1 DEF CountNext, qvars
  <2>8. QED
    BY <2>3, <2>6, <2>7
<1>7. QED
  BY <1>1, <1>2, <1>3, <1>4, <1>5, <1>6, LoneKept

\* Whatever else the client is in.
LEMMA ContinueLone ==
  ASSUME PInv, IInv, SInv, NEW c \in Client, Lone(c), Continue(c)
  PROVE  Lone(c)'
<1>1. c \in Thread /\ QTypeOK /\ Shared \in Queue
  BY Names DEF IInv, QInv
<1>2. CASE Service(c)
  BY <1>1, <1>2, ServiceLone
<1>3. CASE Drains(c)
  BY <1>3, DrainLone
<1>4. CASE \/ Count(c) \/ Yield(c) \/ Help(c) \/ EndWait(c) \/ Enter(c) \/ CallWorker(c)
           \/ Settle(c) \/ Resume(c) \/ EndSuspend(c) \/ Join(c)
  <2>1. \/ \E where \in {"help", "block", "scan"} : Goto(c, where)
        \/ \E where \in {"call", "join", "settle", "drain"} : \E set : GotoAll(c, where, set)
        \/ \E where \in {"free", "resume"} : \E op : Start(c, where, NoJob, "service", op)
        \/ /\ thread[c].at = "call"
           /\ \E set : thread' = [thread EXCEPT ![c].todo = set]
    <3>1. CASE Count(c) \/ EndWait(c) \/ Resume(c) \/ EndSuspend(c) \/ Join(c)
      BY <3>1 DEF Count, EndWait, Resume, EndSuspend, Join
    <3>2. CASE Yield(c) \/ Help(c)
      BY <3>2 DEF Yield, Help, Pop
    <3>3. CASE Enter(c) \/ Settle(c)
      BY <3>3 DEF Enter, Settle, Suspended
    <3>4. CASE CallWorker(c)
      BY <3>4 DEF CallWorker, At
    <3>5. QED
      BY <1>4, <3>1, <3>2, <3>3, <3>4
  <2>2. Alone(c) /\ thread'[c].at \notin {"pop next", "crashed"}
    <3>1. CASE \E where \in {"help", "block", "scan"} : Goto(c, where)
      BY <1>1, <3>1, GotoFields
    <3>2. CASE \E where \in {"call", "join", "settle", "drain"} : \E set : GotoAll(c, where, set)
      BY <1>1, <3>2, GotoAllFields
    <3>3. CASE \E where \in {"free", "resume"} : \E op : Start(c, where, NoJob, "service", op)
      BY <1>1, <3>3, StartFields
    <3>4. CASE /\ thread[c].at = "call"
               /\ \E set : thread' = [thread EXCEPT ![c].todo = set]
      BY <1>1, <3>4 DEF PInv, Typed, ThreadRecord, Alone
    <3>5. QED
      BY <2>1, <3>1, <3>2, <3>3, <3>4
  <2>3. /\ \A u \in Thread : u # c => access'[u] = access[u]
        /\ access'[c].at # "counting"
    <3>1. CASE Count(c)
      BY <1>1, <3>1, AccessLone DEF Count
    <3>2. CASE Help(c)
      BY <1>1, <3>2, AccessLone DEF Help, Pop, qvars, At
    <3>3. CASE \/ Yield(c) \/ EndWait(c) \/ Enter(c) \/ CallWorker(c)
               \/ Settle(c) \/ Resume(c) \/ EndSuspend(c) \/ Join(c)
      <4>1. access' = access /\ thread[c].at # "count"
        BY <3>3 DEF Yield, EndWait, Enter, CallWorker, Settle, Resume, EndSuspend, Join, Free,
                    Flush, qvars, At
      <4>2. QED
        BY <1>1, <4>1, AccessLone
    <3>4. QED
      BY <1>4, <3>1, <3>2, <3>3
  <2>4. \A d \in Client : d # c => client'[d] = client[d]
    <3>1. \/ client' = client
          \/ client' = [client EXCEPT ![c].suspends = @ + 1]
          \/ client' = [client EXCEPT ![c].suspends = @ - 1]
      BY <1>4 DEF Count, Yield, Help, EndWait, Enter, CallWorker, Settle, Suspended, Resume,
                  EndSuspend, Join, Pop
    <3>2. client \in [Client -> [held : SUBSET Job, suspends : Nat, bulk : Int]]
      BY DEF SInv, Recorded
    <3>3. QED
      BY <3>1, <3>2
  <2>5. QED
    BY <1>1, <2>2, <2>3, <2>4, LoneKept
<1>5. QED
  BY <1>2, <1>3, <1>4 DEF Continue, Drains

\* Whatever it begins.
LEMMA BeginsLone ==
  ASSUME PInv, QTypeOK, SInv, NEW c \in Client, Lone(c), Begins(c)
  PROVE  Lone(c)'
<1>1. c \in Thread
  BY Names
<1>2. ASSUME NEW j \in Job, LetGo(c, j)
      PROVE  Lone(c)'
  <2>1. /\ thread' = thread /\ access' = access /\ thread[c].at = "free"
        /\ client' = [client EXCEPT ![c].held = @ \ {j}]
    BY <1>2 DEF LetGo, Free, At, qvars
  <2>2. client \in [Client -> [held : SUBSET Job, suspends : Nat, bulk : Int]]
    BY DEF SInv, Recorded
  <2>3. \A d \in Client : d # c => client'[d] = client[d]
    BY <2>1, <2>2
  <2>4. access[c].at # "counting"
    BY <1>1, <2>1 DEF Lone
  <2>5. QED
    BY <1>1, <2>1, <2>3, <2>4, LoneKept DEF Alone
<1>3. ASSUME \/ \E j \in Job : AddInline(c, j) \/ WaitForFinish(c, j)
             \/ \E j \in Job : \E mode \in {"execute", "abort"} : ExecuteOrAbort(c, j, mode)
             \/ \E op \in Whole : Bulk(c, op)
             \/ Stop(c)
      PROVE  Lone(c)'
  <2>1. /\ access' = access /\ thread[c].at = "free"
        /\ client' = client \/ client' = [client EXCEPT ![c].bulk = @ - 1]
    BY <1>3 DEF AddInline, WaitForFinish, ExecuteOrAbort, Bulk, Stop, Free, At, Begun, qvars
  <2>2. client \in [Client -> [held : SUBSET Job, suspends : Nat, bulk : Int]]
    BY DEF SInv, Recorded
  <2>3. \A d \in Client : d # c => client'[d] = client[d]
    BY <2>1, <2>2
  <2>4. access[c].at # "counting"
    BY <1>1, <2>1 DEF Lone
  <2>5. Alone(c) /\ thread'[c].at \in {"check", "yield", "enter", "call"}
    <3>1. CASE \E j \in Job : AddInline(c, j)
      BY <1>1, <3>1, StartFields DEF AddInline
    <3>2. CASE \E j \in Job : WaitForFinish(c, j)
      BY <1>1, <3>2 DEF WaitForFinish, PInv, Typed, Alone
    <3>3. CASE \E j \in Job : \E mode \in {"execute", "abort"} : ExecuteOrAbort(c, j, mode)
      BY <1>1, <3>3, StartFields DEF ExecuteOrAbort
    <3>4. CASE \E op \in Whole : Bulk(c, op)
      BY <1>1, <3>4, StartFields DEF Bulk
    <3>5. CASE Stop(c)
      BY <1>1, <3>5 DEF Stop, PInv, Typed, ThreadRecord, Alone
    <3>6. QED
      BY <1>3, <3>1, <3>2, <3>3, <3>4, <3>5
  <2>6. QED
    BY <1>1, <2>1, <2>3, <2>4, <2>5, LoneKept
<1>4. ASSUME NEW j \in Job,
             AddJob(c, j) \/ \E p \in Priority : ChangePriority(c, j, p)
      PROVE  Lone(c)'
  <2>1. /\ client' = client /\ Start(c, "count", j, "service", "none")
        /\ \E q, p : PushItem(c, q, p, j)
    BY <1>4 DEF AddJob, ChangePriority
  <2>2. Alone(c) /\ thread'[c].at = "count"
    BY <1>1, <2>1, StartFields
  <2>3. \A u \in Thread : u # c => access'[u] = access[u]
    BY <2>1 DEF PushItem, QTypeOK
  <2>4. QED
    BY <1>1, <2>1, <2>2, <2>3, LoneKept
<1>5. QED
  BY <1>2, <1>3, <1>4 DEF Begins, Whole

\* The state of the pool, and one client that uses it.
LoneInv == StateInv /\ \E c \in Client : Lone(c)

\* Nobody else comes to use it.
LEMMA LoneInductive ==
  /\ Init /\ (\E c \in Client : OnlyUser(c)) => LoneInv
  /\ LoneInv /\ [Next]_vars => LoneInv'
<1>1. ASSUME Init, NEW c \in Client, OnlyUser(c)
      PROVE  Lone(c)
  <2>1. /\ \A d \in Client : thread[d].at = "free"
        /\ \A t \in Thread : access[t].at # "counting"
    <3>1. PICK threads \in SUBSET Worker :
            thread = [t \in Thread |->
                        [at |-> IF t \in Client THEN "free"
                                ELSE IF t \in threads THEN "wait" ELSE "exited",
                         job |-> NoJob, mode |-> "service", op |-> "none", todo |-> {}]]
      BY <1>1 DEF Init
    <3>2. \A t \in Thread : access[t] = Outside
      BY <1>1 DEF Init, QInit
    <3>3. \A d \in Client : thread[d].at = "free"
      BY <3>1, Names
    <3>4. QED
      BY <3>2, <3>3 DEF Outside
  <2>2. \A d \in Client : client[d].suspends = 0
    BY <1>1 DEF Init
  <2>3. QED
    BY <1>1, <2>1, <2>2, Names DEF Lone, OnlyUser
<1>2. ASSUME StateInv, NEW c \in Client, Lone(c), [Next]_vars
      PROVE  Lone(c)'
  <2>1. PInv /\ IInv /\ QTypeOK /\ SInv
    BY <1>2 DEF StateInv, PoolInv, IInv, QInv
  <2>2. CASE UNCHANGED vars
    BY <1>2, <2>2 DEF vars, Lone, Turn
  <2>3. ASSUME NEW d \in Client, Continue(d) \/ Begins(d)
        PROVE  Lone(c)'
    <3>1. d = c
      BY <1>2, <2>3, OthersStill
    <3>2. QED
      BY <1>2, <2>1, <2>3, <3>1, ContinueLone, BeginsLone
  <2>4. QED
    BY <1>2, <2>1, <2>2, <2>3, WorkLone DEF Next
<1>3. QED
  BY <1>1, <1>2, StateInductive DEF LoneInv

\* While one client is the only one to use the pool, ExecuteAll services no job that is not
\* there: what it counts it finds, since the workers are suspended.
THEOREM CountedJobsThere == Spec => JobsThere
<1>1. LoneInv => ~Crashed
  <2> SUFFICES ASSUME NEW c \in Client, Lone(c), NEW d \in Client
               PROVE  thread[d].at # "crashed"
    BY DEF LoneInv, Crashed, At
  <2>1. QED
    BY DEF Lone
<1>2. QED
  BY <1>1, LoneInductive, PTL DEF Spec, JobsThere

-----------------------------------------------------------------------------
(* The references of a job *)

Holders(j) == {c \in Client : Held(c, j)}
Queued(j) == EntriesOf(Queue, j)
Serving(j) == {t \in Thread : thread[t].at \in InService /\ Releasing(t) /\ Mine(t) = j}

\* A job is queued at a place of a queue.
QueuedMeans ==
  \A j \in Job : \A x :
    x \in Queued(j) <=>
      \E q \in Queue : \E i \in Priority : \E k \in 1 .. Len(items[q][i]) :
        x = <<q, <<i, k>>>> /\ items[q][i][k] = j

\* Queued(j) are the places that hold j.
LEMMA QueuedIs == QueuedMeans
<1> SUFFICES ASSUME NEW j \in Job, NEW x
             PROVE  x \in Queued(j) <=>
                      \E q \in Queue : \E i \in Priority : \E k \in 1 .. Len(items[q][i]) :
                        x = <<q, <<i, k>>>> /\ items[q][i][k] = j
  BY DEF QueuedMeans
<1>1. ASSUME NEW q \in Queue, NEW e
      PROVE  e \in Entries(q, j) <=>
               \E i \in Priority : \E k \in 1 .. Len(items[q][i]) :
                 e = <<i, k>> /\ items[q][i][k] = j
  BY PlacesDef DEF Entries, Priority
<1>2. x \in Queued(j) <=> \E q \in Queue : \E e \in Entries(q, j) : x = <<q, e>>
  BY DEF Queued, EntriesOf
<1>3. QED
  BY <1>1, <1>2

\* And so it is in the next state.
LEMMA QueuedWillBe == QueuedMeans'
BY QueuedIs, PTL

\* It is queued at finitely many.
LEMMA QueuedFinite ==
  ASSUME FinitelyMany, NEW j
  PROVE  /\ IsFiniteSet(Queued(j)) /\ Cardinality(Queued(j)) \in Nat
         /\ \A q \in Queue : IsFiniteSet(Entries(q, j)) /\ Cardinality(Entries(q, j)) \in Nat
BY EntriesFinite DEF Queued

\* A job that is pushed is queued once more.
LEMMA QueuedPushed ==
  ASSUME QTypeOK, FinitelyMany, NEW q \in Queue, NEW p \in Priority, NEW j0 \in Job,
         items' = [items EXCEPT ![q][p] = Append(@, j0)], NEW j \in Job
  PROVE  Cardinality(Queued(j)') = Cardinality(Queued(j)) + IF j = j0 THEN 1 ELSE 0
<1> DEFINE n == Len(items[q][p]) + 1
           new == <<q, <<p, n>>>>
<1>1. items[q][p] \in Seq(Job) /\ items \in [Queue -> [Priority -> Seq(Job)]]
  BY DEF QTypeOK
<1>2. /\ items'[q][p] = Append(items[q][p], j0)
      /\ \A r \in Queue, i \in Priority : r # q \/ i # p => items'[r][i] = items[r][i]
  BY <1>1
<1>3. /\ Len(items'[q][p]) = n /\ n \in Nat /\ items'[q][p][n] = j0
      /\ \A k \in 1 .. Len(items[q][p]) : items'[q][p][k] = items[q][p][k]
      /\ 1 .. n = (1 .. Len(items[q][p])) \cup {n} /\ n \notin 1 .. Len(items[q][p])
  BY <1>1, <1>2, AppendProperties
<1> HIDE DEF n
<1>4. new \notin Queued(j)
  BY <1>3, QueuedIs DEF QueuedMeans
<1>5. ASSUME NEW x
      PROVE  x \in Queued(j)' <=> x \in Queued(j) \/ (j = j0 /\ x = new)
  <2>1. ASSUME x \in Queued(j)'
        PROVE  x \in Queued(j) \/ (j = j0 /\ x = new)
    <3>1. PICK r \in Queue : \E i \in Priority : \E k \in 1 .. Len(items'[r][i]) :
                               x = <<r, <<i, k>>>> /\ items'[r][i][k] = j
      BY <2>1, QueuedWillBe DEF QueuedMeans
    <3>2. PICK i \in Priority : \E k \in 1 .. Len(items'[r][i]) :
                               x = <<r, <<i, k>>>> /\ items'[r][i][k] = j
      BY <3>1
    <3>3. PICK k \in 1 .. Len(items'[r][i]) : x = <<r, <<i, k>>>> /\ items'[r][i][k] = j
      BY <3>2
    <3>4. CASE r = q /\ i = p /\ k = n
      BY <1>3, <3>3, <3>4
    <3>5. CASE ~(r = q /\ i = p /\ k = n)
      <4>1. k \in 1 .. Len(items[r][i]) /\ items[r][i][k] = j
        BY <1>2, <1>3, <3>3, <3>5
      <4>2. QED
        BY <3>3, <4>1, QueuedIs DEF QueuedMeans
    <3>6. QED
      BY <3>4, <3>5
  <2>2. ASSUME x \in Queued(j)
        PROVE  x \in Queued(j)'
    <3>1. PICK r \in Queue : \E i \in Priority : \E k \in 1 .. Len(items[r][i]) :
                               x = <<r, <<i, k>>>> /\ items[r][i][k] = j
      BY <2>2, QueuedIs DEF QueuedMeans
    <3>2. PICK i \in Priority : \E k \in 1 .. Len(items[r][i]) :
                               x = <<r, <<i, k>>>> /\ items[r][i][k] = j
      BY <3>1
    <3>3. PICK k \in 1 .. Len(items[r][i]) : x = <<r, <<i, k>>>> /\ items[r][i][k] = j
      BY <3>2
    <3>4. k \in 1 .. Len(items'[r][i]) /\ items'[r][i][k] = j
      BY <1>2, <1>3, <3>3
    <3>5. QED
      BY <3>3, <3>4, QueuedWillBe DEF QueuedMeans
  <2>3. ASSUME j = j0, x = new
        PROVE  x \in Queued(j)'
    <3>1. n \in 1 .. Len(items'[q][p]) /\ items'[q][p][n] = j
      BY <1>3, <2>3
    <3>2. QED
      BY <2>3, <3>1, QueuedWillBe DEF QueuedMeans
  <2>4. QED
    BY <2>1, <2>2, <2>3
<1> HIDE DEF new
<1>6. IsFiniteSet(Queued(j)) /\ Cardinality(Queued(j)) \in Nat
  BY QueuedFinite
<1>7. CASE j = j0
  <2>1. Queued(j)' = Queued(j) \cup {new}
    BY <1>5, <1>7
  <2>2. QED
    BY <1>4, <1>6, <1>7, <2>1, OneMore
<1>8. CASE j # j0
  <2>1. Queued(j)' = Queued(j)
    BY <1>5, <1>8
  <2>2. QED
    BY <1>6, <1>8, <2>1
<1>9. QED
  BY <1>7, <1>8

\* A job that is taken is queued once less: the items behind it move up.
LEMMA QueuedTaken ==
  ASSUME QTypeOK, FinitelyMany, NEW q \in Queue, NEW p \in Priority, items[q][p] # <<>>,
         items' = [items EXCEPT ![q][p] = Tail(@)], NEW j \in Job
  PROVE  Cardinality(Queued(j)') =
           Cardinality(Queued(j)) - IF j = Head(items[q][p]) THEN 1 ELSE 0
<1> DEFINE n == Len(items[q][p])
           first == <<q, <<p, 1>>>>
           rest == Queued(j) \ {first}
           back(x) == IF x[1] = q /\ x[2][1] = p THEN <<q, <<p, x[2][2] - 1>>>> ELSE x
           f == [x \in rest |-> back(x)]
<1>1. items[q][p] \in Seq(Job) /\ items \in [Queue -> [Priority -> Seq(Job)]]
  BY DEF QTypeOK
<1>2. /\ items'[q][p] = Tail(items[q][p])
      /\ \A r \in Queue, i \in Priority : r # q \/ i # p => items'[r][i] = items[r][i]
  BY <1>1
<1>3. /\ n \in Nat /\ n > 0 /\ Len(items'[q][p]) = n - 1
      /\ \A k \in 1 .. n - 1 : items'[q][p][k] = items[q][p][k + 1]
      /\ Head(items[q][p]) = items[q][p][1]
  BY <1>1, <1>2, HeadTailProperties
<1> HIDE DEF n
<1>4. first \in Queued(j) <=> j = Head(items[q][p])
  <2>1. ASSUME first \in Queued(j)
        PROVE  j = Head(items[q][p])
    BY <1>3, <2>1, QueuedIs DEF QueuedMeans
  <2>2. ASSUME j = Head(items[q][p])
        PROVE  first \in Queued(j)
    <3>1. 1 \in 1 .. Len(items[q][p])
      BY <1>3 DEF n
    <3>2. QED
      BY <1>3, <2>2, <3>1, QueuedIs DEF QueuedMeans
  <2>3. QED
    BY <2>1, <2>2
<1>5. ASSUME NEW x \in rest
      PROVE  \E r \in Queue : \E i \in Priority : \E k \in 1 .. Len(items[r][i]) :
               /\ x = <<r, <<i, k>>>> /\ items[r][i][k] = j
               /\ ~(r = q /\ i = p /\ k = 1)
  <2>1. x \in Queued(j) /\ x # first
    OBVIOUS
  <2>2. QED
    BY <2>1, QueuedIs DEF QueuedMeans
<1>6. ASSUME NEW x \in rest
      PROVE  back(x) \in Queued(j)'
  <2>1. PICK r \in Queue : \E i \in Priority : \E k \in 1 .. Len(items[r][i]) :
               /\ x = <<r, <<i, k>>>> /\ items[r][i][k] = j
               /\ ~(r = q /\ i = p /\ k = 1)
    BY <1>5
  <2>2. PICK i \in Priority : \E k \in 1 .. Len(items[r][i]) :
               /\ x = <<r, <<i, k>>>> /\ items[r][i][k] = j
               /\ ~(r = q /\ i = p /\ k = 1)
    BY <2>1
  <2>3. PICK k \in 1 .. Len(items[r][i]) :
               /\ x = <<r, <<i, k>>>> /\ items[r][i][k] = j
               /\ ~(r = q /\ i = p /\ k = 1)
    BY <2>2
  <2>4. CASE r = q /\ i = p
    <3>1. k \in Nat /\ k > 1 /\ k <= n
      BY <1>3, <2>3, <2>4 DEF n
    <3>2. k - 1 \in 1 .. Len(items'[q][p]) /\ items'[q][p][k - 1] = j
      <4>1. k - 1 \in 1 .. n - 1 /\ (k - 1) + 1 = k
        BY <1>3, <3>1
      <4>2. items'[q][p][k - 1] = items[q][p][(k - 1) + 1]
        BY <1>3, <4>1
      <4>3. QED
        BY <1>3, <2>3, <2>4, <4>1, <4>2
    <3>3. back(x) = <<q, <<p, k - 1>>>>
      BY <2>3, <2>4
    <3>4. QED
      BY <3>2, <3>3, QueuedWillBe DEF QueuedMeans
  <2>5. CASE ~(r = q /\ i = p)
    <3>1. items'[r][i] = items[r][i]
      BY <1>2, <2>5
    <3>2. back(x) = x
      BY <2>3, <2>5
    <3>3. QED
      BY <2>3, <3>1, <3>2, QueuedWillBe DEF QueuedMeans
  <2>6. QED
    BY <2>4, <2>5
<1>7. ASSUME NEW y \in Queued(j)'
      PROVE  \E x \in rest : back(x) = y
  <2>1. PICK r \in Queue : \E i \in Priority : \E k \in 1 .. Len(items'[r][i]) :
               y = <<r, <<i, k>>>> /\ items'[r][i][k] = j
    BY QueuedWillBe DEF QueuedMeans
  <2>2. PICK i \in Priority : \E k \in 1 .. Len(items'[r][i]) :
               y = <<r, <<i, k>>>> /\ items'[r][i][k] = j
    BY <2>1
  <2>3. PICK k \in 1 .. Len(items'[r][i]) : y = <<r, <<i, k>>>> /\ items'[r][i][k] = j
    BY <2>2
  <2>4. CASE r = q /\ i = p
    <3>1. k \in Nat /\ k >= 1 /\ k <= n - 1
      BY <1>3, <2>3, <2>4
    <3>2. k + 1 \in 1 .. Len(items[q][p]) /\ items[q][p][k + 1] = j
      BY <1>3, <2>3, <2>4, <3>1 DEF n
    <3>3. <<q, <<p, k + 1>>>> \in Queued(j)
      BY <3>2, QueuedIs DEF QueuedMeans
    <3>4. <<q, <<p, k + 1>>>> # first
      BY <3>1
    <3>5. back(<<q, <<p, k + 1>>>>) = y
      BY <2>3, <2>4, <3>1
    <3>6. QED
      BY <3>3, <3>4, <3>5
  <2>5. CASE ~(r = q /\ i = p)
    <3>1. items'[r][i] = items[r][i]
      BY <1>2, <2>5
    <3>2. y \in Queued(j)
      BY <2>3, <3>1, QueuedIs DEF QueuedMeans
    <3>3. y # first
      BY <2>3, <2>5
    <3>4. back(y) = y
      BY <2>3, <2>5
    <3>5. QED
      BY <3>2, <3>3, <3>4
  <2>6. QED
    BY <2>4, <2>5
<1>8. ASSUME NEW x \in rest, NEW y \in rest, back(x) = back(y)
      PROVE  x = y
  <2>1. /\ \E r, i : \E k \in Nat : x = <<r, <<i, k>>>>
        /\ \E r, i : \E k \in Nat : y = <<r, <<i, k>>>>
    BY <1>5, <1>1
  <2>2. QED
    BY <1>8, <2>1
<1>9. f \in Bijection(rest, Queued(j)')
  <2> HIDE DEF rest, back
  <2>1. f \in [rest -> Queued(j)'] /\ \A x \in rest : f[x] = back(x)
    BY <1>6
  <2>2. \A x, y \in rest : f[x] = f[y] => x = y
    BY <1>8, <2>1
  <2>3. \A y \in Queued(j)' : \E x \in rest : f[x] = y
    BY <1>7, <2>1
  <2> HIDE DEF f
  <2>4. f \in Injection(rest, Queued(j)') /\ f \in Surjection(rest, Queued(j)')
    BY <2>1, <2>2, <2>3 DEF Injection, Surjection, IsInjective
  <2>5. QED
    BY <2>4 DEF Bijection
<1>10. IsFiniteSet(Queued(j)) /\ Cardinality(Queued(j)) \in Nat
  BY QueuedFinite
<1> HIDE DEF f, first
<1>11. IsFiniteSet(rest)
       /\ Cardinality(rest) = IF first \in Queued(j) THEN Cardinality(Queued(j)) - 1
                              ELSE Cardinality(Queued(j))
  BY <1>10, FS_RemoveElement
<1> HIDE DEF rest
<1>12. Cardinality(Queued(j)') = Cardinality(rest)
  BY <1>9, <1>11, FS_Bijection DEF ExistsBijection
<1>13. QED
  BY <1>4, <1>10, <1>11, <1>12

\* The jobs of queues that are flushed are not queued there any more.
LEMMA QueuedFlushed ==
  ASSUME FinitelyMany, NEW queues \in SUBSET Queue,
         items' = [q \in Queue |-> IF q \in queues THEN [p \in Priority |-> <<>>] ELSE items[q]],
         NEW j \in Job
  PROVE  Cardinality(Queued(j)') = Cardinality(Queued(j)) - Cardinality(EntriesOf(queues, j))
<1> DEFINE gone == EntriesOf(queues, j)
<1>1. /\ \A q \in queues : \A i \in Priority : items'[q][i] = <<>>
      /\ \A r \in Queue : r \notin queues => items'[r] = items[r]
  OBVIOUS
<1>2. gone \subseteq Queued(j)
  BY DEF Queued, EntriesOf
<1>3. ASSUME NEW x
      PROVE  x \in gone <=> \E q \in queues : \E i \in Priority :
                              \E k \in 1 .. Len(items[q][i]) :
                                x = <<q, <<i, k>>>> /\ items[q][i][k] = j
  <2>1. ASSUME NEW q \in queues, NEW e
        PROVE  e \in Entries(q, j) <=>
                 \E i \in Priority : \E k \in 1 .. Len(items[q][i]) :
                   e = <<i, k>> /\ items[q][i][k] = j
    BY PlacesDef DEF Entries, Priority
  <2>2. x \in gone <=> \E q \in queues : \E e \in Entries(q, j) : x = <<q, e>>
    BY DEF EntriesOf
  <2> HIDE DEF gone
  <2>3. QED
    BY <2>1, <2>2
<1> HIDE DEF gone
<1>5. ASSUME NEW x
      PROVE  x \in Queued(j)' <=> x \in Queued(j) \ gone
  <2>1. ASSUME x \in Queued(j)'
        PROVE  x \in Queued(j) \ gone
    <3>1. PICK r \in Queue : \E i \in Priority : \E k \in 1 .. Len(items'[r][i]) :
                               x = <<r, <<i, k>>>> /\ items'[r][i][k] = j
      BY <2>1, QueuedWillBe DEF QueuedMeans
    <3>2. PICK i \in Priority : \E k \in 1 .. Len(items'[r][i]) :
                               x = <<r, <<i, k>>>> /\ items'[r][i][k] = j
      BY <3>1
    <3>3. PICK k \in 1 .. Len(items'[r][i]) : x = <<r, <<i, k>>>> /\ items'[r][i][k] = j
      BY <3>2
    <3>4. r \notin queues
      BY <1>1, <3>3
    <3>5. x \in Queued(j)
      BY <1>1, <3>3, <3>4, QueuedIs DEF QueuedMeans
    <3>6. x \notin gone
      BY <1>3, <3>3, <3>4
    <3>7. QED
      BY <3>5, <3>6
  <2>2. ASSUME x \in Queued(j), x \notin gone
        PROVE  x \in Queued(j)'
    <3>1. PICK r \in Queue : \E i \in Priority : \E k \in 1 .. Len(items[r][i]) :
                               x = <<r, <<i, k>>>> /\ items[r][i][k] = j
      BY <2>2, QueuedIs DEF QueuedMeans
    <3>2. r \notin queues
      BY <1>3, <2>2, <3>1
    <3>3. QED
      BY <1>1, <3>1, <3>2, QueuedWillBe DEF QueuedMeans
  <2>3. QED
    BY <2>1, <2>2
<1>6. Queued(j)' = Queued(j) \ gone
  BY <1>5
<1>7. IsFiniteSet(Queued(j)) /\ Queued(j) \cap gone = gone
  BY <1>2, QueuedFinite
<1>8. Cardinality(Queued(j) \ gone) = Cardinality(Queued(j)) - Cardinality(gone)
  BY <1>7, FS_Difference
<1>9. QED
  BY <1>6, <1>8 DEF gone

\* The places of a job in a queue apart from others are counted with theirs.
LEMMA EntriesApart ==
  ASSUME FinitelyMany, NEW queues \in SUBSET Queue, NEW q \in Queue, q \notin queues, NEW j
  PROVE  Cardinality(EntriesOf(queues \cup {q}, j)) =
           Cardinality(EntriesOf(queues, j)) + Cardinality(Entries(q, j))
<1> DEFINE here == {<<q, e>> : e \in Entries(q, j)}
           f == [e \in Entries(q, j) |-> <<q, e>>]
           there == EntriesOf(queues, j)
<1>1. IsFiniteSet(Entries(q, j)) /\ IsFiniteSet(there)
  BY EntriesFinite
<1>2. f \in Bijection(Entries(q, j), here)
  BY DEF Bijection, Injection, Surjection, IsInjective
<1>3. there \cap here = {} /\ EntriesOf(queues \cup {q}, j) = there \cup here
  BY DEF EntriesOf
<1> HIDE DEF f, here, there
<1>4. IsFiniteSet(here) /\ Cardinality(here) = Cardinality(Entries(q, j))
  BY <1>1, <1>2, FS_Bijection DEF ExistsBijection
<1>5. Cardinality(there \cup here) = Cardinality(there) + Cardinality(here)
  BY <1>1, <1>3, <1>4, FS_Union, FS_EmptySet, FS_CardinalityType
<1>6. QED
  BY <1>3, <1>4, <1>5 DEF there

\* The job whose reference a thread is to give back.
Serves(r) == IF r.at \in InService /\ r.mode \in Give THEN r.job ELSE NoJob

\* Serving(j) are the threads that are to give back a reference of j.
LEMMA ServingIs ==
  ASSUME NEW j \in Job
  PROVE  /\ Serving(j) = {t \in Thread : Serves(thread[t]) = j}
         /\ Serving(j)' = {t \in Thread : Serves(thread'[t]) = j}
         /\ IsFiniteSet(Serving(j)) /\ IsFiniteSet(Serving(j)')
         /\ Cardinality(Serving(j)) \in Nat /\ Cardinality(Serving(j)') \in Nat
<1>1. j # NoJob
  BY PoolAssumption
<1>2. Serving(j) = {t \in Thread : Serves(thread[t]) = j}
  BY <1>1 DEF Serving, Serves, Releasing, Mine, Give
<1>3. Serving(j)' = {t \in Thread : Serves(thread'[t]) = j}
  BY <1>1 DEF Serving, Serves, Releasing, Mine, Give
<1>4. Serving(j) \subseteq Thread /\ Serving(j)' \subseteq Thread
  BY <1>2, <1>3
<1>5. QED
  BY <1>2, <1>3, <1>4, ThreadAssumption, FS_Subset, FS_CardinalityType

\* A thread begins, ends or goes on with its service of a job.
LEMMA ServingMoves ==
  ASSUME NEW t \in Thread, Alone(t), NEW j \in Job
  PROVE  Cardinality(Serving(j)') =
           Cardinality(Serving(j)) - (IF Serves(thread[t]) = j THEN 1 ELSE 0)
                                   + (IF Serves(thread'[t]) = j THEN 1 ELSE 0)
<1> DEFINE S == Serving(j)
           T == Serving(j)'
<1>1. /\ t \in S <=> Serves(thread[t]) = j
      /\ t \in T <=> Serves(thread'[t]) = j
      /\ S \ {t} = T \ {t}
      /\ IsFiniteSet(S) /\ IsFiniteSet(T) /\ Cardinality(S) \in Nat /\ Cardinality(T) \in Nat
  BY ServingIs DEF Alone
<1>2. /\ Cardinality(S \ {t}) = Cardinality(S) - IF t \in S THEN 1 ELSE 0
      /\ Cardinality(T \ {t}) = Cardinality(T) - IF t \in T THEN 1 ELSE 0
  <2> HIDE DEF S, T
  <2>1. Cardinality(S \ {t}) = Cardinality(S) - IF t \in S THEN 1 ELSE 0
    <3>1. Cardinality(S \ {t}) = IF t \in S THEN Cardinality(S) - 1 ELSE Cardinality(S)
      BY <1>1, FS_RemoveElement
    <3>2. QED
      BY <1>1, <3>1
  <2>2. Cardinality(T \ {t}) = Cardinality(T) - IF t \in T THEN 1 ELSE 0
    <3>1. Cardinality(T \ {t}) = IF t \in T THEN Cardinality(T) - 1 ELSE Cardinality(T)
      BY <1>1, FS_RemoveElement
    <3>2. QED
      BY <1>1, <3>1
  <2>3. QED
    BY <2>1, <2>2
<1> HIDE DEF S, T
<1>3. Cardinality(T) = Cardinality(S) - (IF Serves(thread[t]) = j THEN 1 ELSE 0)
                                      + (IF Serves(thread'[t]) = j THEN 1 ELSE 0)
  BY <1>1, <1>2
<1>4. QED
  BY <1>3 DEF S, T

\* A job has finitely many holders.
LEMMA HoldersFinite ==
  ASSUME NEW j
  PROVE  IsFiniteSet(Holders(j)) /\ Cardinality(Holders(j)) \in Nat
<1>1. Holders(j) \subseteq Thread
  BY Names DEF Holders
<1>2. QED
  BY <1>1, ThreadAssumption, FS_Subset, FS_CardinalityType

\* The references of a job that somebody still has to give back.
Due(j) == job[j].refs - job[j].lost

\* RefsAddUp in terms of these sets.
RefsAre ==
  \A j \in Job :
    Due(j) = Cardinality(Holders(j)) + Cardinality(Queued(j)) + Cardinality(Serving(j))

\* RefsAddUp says so of Holders, Queued and Serving, and no count is below zero.
LEMMA RefsMean ==
  ASSUME PInv, FinitelyMany, RefsAre
  PROVE  RefsAddUp /\ \A j \in Job : job[j].refs \in Nat /\ job[j].lost \in Nat
<1> SUFFICES ASSUME NEW j \in Job
             PROVE  /\ job[j].refs = Cardinality(Holders(j)) + Cardinality(Queued(j))
                                       + Cardinality(Serving(j)) + job[j].lost
                    /\ job[j].refs \in Nat /\ job[j].lost \in Nat
  BY DEF RefsAddUp, Holders, Queued, Serving
<1>1. job[j].refs \in Int /\ job[j].lost \in Nat
  BY DEF PInv, Typed, JobRecord
<1>2. /\ Cardinality(Holders(j)) \in Nat /\ Cardinality(Queued(j)) \in Nat
      /\ Cardinality(Serving(j)) \in Nat
  BY HoldersFinite, QueuedFinite, ServingIs
<1>3. job[j].refs - job[j].lost =
        Cardinality(Holders(j)) + Cardinality(Queued(j)) + Cardinality(Serving(j))
  BY DEF RefsAre, Due
<1>4. QED
  BY <1>1, <1>2, <1>3

\* A step of one thread that moves no reference.
StaysWith(t) ==
  /\ Alone(t) /\ items' = items
  /\ \A c \in Client : client'[c].held = client[c].held
  /\ \A j \in Job : Due(j)' = Due(j)
  /\ Serves(thread'[t]) = Serves(thread[t])

\* Such a step keeps the references adding up.
LEMMA StayingKeeps ==
  ASSUME RefsAre, NEW t \in Thread, StaysWith(t)
  PROVE  RefsAre'
<1> SUFFICES ASSUME NEW j \in Job
             PROVE  Due(j)' =
                      Cardinality(Holders(j)') + Cardinality(Queued(j)') + Cardinality(Serving(j)')
  BY DEF RefsAre
<1>1. Holders(j)' = Holders(j)
  BY DEF StaysWith, Holders, Held
<1>2. Queued(j)' = Queued(j)
  BY DEF StaysWith, Queued, EntriesOf, Entries, Places
<1>3. Serving(j)' = Serving(j)
  <2>1. \A u \in Thread : Serves(thread'[u]) = Serves(thread[u])
    BY DEF StaysWith, Alone
  <2>2. /\ Serving(j) = {u \in Thread : Serves(thread[u]) = j}
        /\ Serving(j)' = {u \in Thread : Serves(thread'[u]) = j}
    BY ServingIs
  <2>3. \A u \in Thread : u \in Serving(j)' <=> u \in Serving(j)
    BY ONLY <2>1, <2>2
  <2>4. Serving(j) \subseteq Thread /\ Serving(j)' \subseteq Thread
    BY ONLY <2>2
  <2> QED BY ONLY <2>3, <2>4
<1>4. QED
  BY <1>1, <1>2, <1>3 DEF RefsAre, StaysWith

\* Updates of a job that leave its references alone.
LEMMA RefsFields ==
  ASSUME PInv, NEW j \in Job
  PROVE  /\ \A u : job' = [job EXCEPT ![j].owner = u] =>
                    \A k \in Job : Due(k)' = Due(k)
         /\ \A u, e : job' = [job EXCEPT ![j].done = e, ![j].owner = u] =>
                    \A k \in Job : Due(k)' = Due(k)
         /\ \A e, n : job' = [job EXCEPT ![j].calls = n, ![j].status = e] =>
                    \A k \in Job : Due(k)' = Due(k)
         /\ \A e : job' = [job EXCEPT ![j].status = e] =>
                    \A k \in Job : Due(k)' = Due(k)
<1>1. job[j] \in JobRecord /\ job \in [Job -> JobRecord]
  BY DEF PInv, Typed
<1>2. ASSUME NEW u,
             job' = [job EXCEPT ![j].owner = u]
      PROVE  \A k \in Job : Due(k)' = Due(k)
  BY <1>1, <1>2 DEF JobRecord, Due
<1>3. ASSUME NEW u, NEW e,
             job' = [job EXCEPT ![j].done = e, ![j].owner = u]
      PROVE  \A k \in Job : Due(k)' = Due(k)
  BY <1>1, <1>3 DEF JobRecord, Due
<1>4. ASSUME NEW n, NEW e,
             job' = [job EXCEPT ![j].calls = n, ![j].status = e]
      PROVE  \A k \in Job : Due(k)' = Due(k)
  BY <1>1, <1>4 DEF JobRecord, Due
<1>5. ASSUME NEW e,
             job' = [job EXCEPT ![j].status = e]
      PROVE  \A k \in Job : Due(k)' = Due(k)
  BY <1>1, <1>5 DEF JobRecord, Due
<1>6. QED
  BY <1>2, <1>3, <1>4, <1>5

\* A reference is given back.
LEMMA RefsLess ==
  ASSUME PInv, NEW j \in Job, job' = [job EXCEPT ![j].refs = @ - 1]
  PROVE  \A k \in Job : Due(k)' = Due(k) - IF k = j THEN 1 ELSE 0
<1>1. job[j] \in JobRecord /\ job \in [Job -> JobRecord] /\ \A k \in Job : job[k].refs \in Int /\ job[k].lost \in Nat
  BY DEF PInv, Typed, JobRecord
<1>2. /\ job'[j].refs = job[j].refs - 1 /\ job'[j].lost = job[j].lost
      /\ \A k \in Job : k # j => job'[k] = job[k]
  BY <1>1 DEF JobRecord
<1>3. QED
  BY <1>1, <1>2 DEF Due

\* A reference goes with the job that is pushed.
LEMMA RefsMore ==
  ASSUME PInv, NEW j \in Job
  PROVE  /\ \A e, p :
              job' = [job EXCEPT ![j].status = e, ![j].priority = p, ![j].refs = @ + 1] =>
                \A k \in Job : Due(k)' = Due(k) + IF k = j THEN 1 ELSE 0
         /\ \A p :
              job' = [job EXCEPT ![j].priority = p, ![j].refs = @ + 1] =>
                \A k \in Job : Due(k)' = Due(k) + IF k = j THEN 1 ELSE 0
<1>1. job[j] \in JobRecord /\ job \in [Job -> JobRecord] /\ \A k \in Job : job[k].refs \in Int /\ job[k].lost \in Nat
  BY DEF PInv, Typed, JobRecord
<1>2. ASSUME NEW e, NEW p,
             job' = [job EXCEPT ![j].status = e, ![j].priority = p, ![j].refs = @ + 1]
      PROVE  \A k \in Job : Due(k)' = Due(k) + IF k = j THEN 1 ELSE 0
  <2>1. /\ job'[j].refs = job[j].refs + 1 /\ job'[j].lost = job[j].lost
        /\ \A k \in Job : k # j => job'[k] = job[k]
    BY <1>1, <1>2 DEF JobRecord
  <2>2. QED
    BY <1>1, <2>1 DEF Due
<1>3. ASSUME NEW p, job' = [job EXCEPT ![j].priority = p, ![j].refs = @ + 1]
      PROVE  \A k \in Job : Due(k)' = Due(k) + IF k = j THEN 1 ELSE 0
  <2>1. /\ job'[j].refs = job[j].refs + 1 /\ job'[j].lost = job[j].lost
        /\ \A k \in Job : k # j => job'[k] = job[k]
    BY <1>1, <1>3 DEF JobRecord
  <2>2. QED
    BY <1>1, <2>1 DEF Due
<1>4. QED
  BY <1>2, <1>3

\* A thread that goes on with its job, to the release when it has to.
LEMMA ThroughServes ==
  ASSUME PInv, NEW t \in Thread, thread[t].at \in InService,
         \/ Through(t)
         \/ \E where \in InService : Goto(t, where)
  PROVE  Alone(t) /\ Serves(thread'[t]) = Serves(thread[t])
<1>1. CASE Through(t)
  <2>1. "release" \in InService /\ Back(t) \notin InService
    BY DEF Back, InService
  <2>2. QED
    BY <1>1, <2>1, ThroughFields DEF Serves
<1>2. CASE \E where \in InService : Goto(t, where)
  BY <1>2, GotoFields DEF Serves
<1>3. QED
  BY <1>1, <1>2

\* The steps on a job before its release.
LEMMA JobStays ==
  ASSUME PInv, NEW t \in Thread,
         Check(t) \/ Lock(t) \/ Begin(t) \/ Run(t) \/ Signal(t)
  PROVE  StaysWith(t)
<1>1. /\ "release" \in InService /\ "check" \in InService /\ "lock" \in InService
      /\ "begin" \in InService /\ "run" \in InService /\ "signal" \in InService
  BY DEF InService
<1>2. thread[t].at \in InService /\ items' = items /\ client' = client
  BY <1>1 DEF Check, Lock, Begin, Run, Signal, At, qvars
<1>3. Mine(t) \in Job
  BY <1>2 DEF PInv, ThreadsInOrder, InOrder, Mine
<1>4. Through(t) \/ \E where \in InService : Goto(t, where)
  BY <1>1 DEF Check, Lock, Begin, Run, Signal
<1>5. \A j \in Job : Due(j)' = Due(j)
  <2>1. CASE Check(t)
    BY <2>1 DEF Check, Due
  <2>2. CASE Lock(t)
    BY <1>3, <2>2, RefsFields DEF Lock, Due
  <2>3. CASE Begin(t)
    <3> DEFINE n == job[Mine(t)].calls + 1
               e == IF Servicing(t) THEN "INPROGRESS" ELSE "ABORTED"
    <3>1. \/ job' = [job EXCEPT ![Mine(t)].calls = n, ![Mine(t)].status = e]
          \/ job' = [job EXCEPT ![Mine(t)].owner = Nobody]
      BY <2>3 DEF Begin
    <3> HIDE DEF n, e
    <3>2. CASE job' = [job EXCEPT ![Mine(t)].calls = n, ![Mine(t)].status = e]
      BY <1>3, <3>2, RefsFields
    <3>3. CASE job' = [job EXCEPT ![Mine(t)].owner = Nobody]
      BY <1>3, <3>3, RefsFields
    <3>4. QED
      BY <3>1, <3>2, <3>3
  <2>4. CASE Run(t)
    BY <1>3, <2>4, RefsFields DEF Run
  <2>5. CASE Signal(t)
    BY <1>3, <2>5, RefsFields DEF Signal
  <2>6. QED
    BY <2>1, <2>2, <2>3, <2>4, <2>5
<1>6. Alone(t) /\ Serves(thread'[t]) = Serves(thread[t])
  BY <1>2, <1>4, ThroughServes
<1>7. QED
  BY <1>2, <1>5, <1>6 DEF StaysWith

\* A thread that looks for a job, or releases one, gives back a reference when it is done.
LEMMA GivesBack ==
  ASSUME PInv, SInv, NEW t \in Thread, thread[t].at \in {"scan", "release"}
  PROVE  thread[t].mode \in Give
<1>1. CASE t \in Worker
  BY <1>1 DEF SInv, InPlaces, WorkerAt, Give
<1>2. CASE t \in Client
  <2>1. ClientAt(thread[t]) /\ thread[t].op \in Op
    BY <1>2, ClientOps
  <2>2. CASE thread[t].at = "release"
    BY <2>1, <2>2 DEF ClientAt
  <2>3. CASE thread[t].at = "scan"
    BY <2>1, <2>3 DEF ClientAt, Op, Give, InService
  <2>4. QED
    BY <2>2, <2>3
<1>3. QED
  BY <1>1, <1>2, PoolAssumption

\* The reference of the queue becomes that of the thread that takes the job.
LEMMA TakeMoves ==
  ASSUME PInv, QTypeOK, FinitelyMany, SInv, RefsAre, NEW t \in Thread, Scan(t)
  PROVE  RefsAre'
<1> "check" \in InService /\ "scan" \notin InService
  BY DEF InService
<1>1. thread[t].at = "scan" /\ client' = client /\ job' = job
  BY DEF Scan, At
<1>2. CASE Skip(t) /\ UNCHANGED <<thread, pool>>
  <2>1. StaysWith(t)
    BY <1>1, <1>2 DEF Skip, StaysWith, Alone, Due
  <2>2. QED
    BY <2>1, StayingKeeps
<1>3. CASE /\ Take(t)
           /\ thread' = [thread EXCEPT ![t].at = "check", ![t].job = Head(Level(t))]
  <2> DEFINE q == access[t].queue
             p == access[t].priority
  <2>1. q \in Queue /\ p \in Priority
    <3>1. access[t] \in Whereabouts /\ access[t].at = "scanning" /\ p >= 0
      BY <1>3 DEF QTypeOK, Take
    <3>2. q \in Queue /\ p \in -1 .. TopPriority
      BY <3>1 DEF Whereabouts, Outside, Counting, Scanning
    <3>3. QED
      BY <3>1, <3>2, PriorityAssumption DEF Priority
  <2>2. items[q][p] # <<>> /\ items' = [items EXCEPT ![q][p] = Tail(@)]
    BY <1>3 DEF Take, Level
  <2>3. Head(items[q][p]) \in Job
    BY <2>1, <2>2 DEF QTypeOK
  <2>4. /\ Alone(t) /\ thread'[t].at = "check" /\ thread'[t].job = Head(items[q][p])
        /\ thread'[t].mode = thread[t].mode
    BY <1>3, TakeFields DEF Level
  <2>5. Serves(thread[t]) = NoJob /\ Serves(thread'[t]) = Head(items[q][p])
    BY <1>1, <2>4, GivesBack DEF Serves
  <2> HIDE DEF q, p
  <2> SUFFICES ASSUME NEW j \in Job
               PROVE  Due(j)' =
                        Cardinality(Holders(j)') + Cardinality(Queued(j)') + Cardinality(Serving(j)')
    BY DEF RefsAre
  <2>6. Holders(j)' = Holders(j) /\ Cardinality(Holders(j)) \in Nat
    BY <1>1, HoldersFinite DEF Holders, Held
  <2>7. /\ Cardinality(Queued(j)') =
             Cardinality(Queued(j)) - IF j = Head(items[q][p]) THEN 1 ELSE 0
        /\ Cardinality(Queued(j)) \in Nat
    BY <2>1, <2>2, QueuedTaken, QueuedFinite
  <2>8. /\ Cardinality(Serving(j)') =
             Cardinality(Serving(j)) + IF j = Head(items[q][p]) THEN 1 ELSE 0
        /\ Cardinality(Serving(j)) \in Nat
    BY <2>4, <2>5, ServingMoves, ServingIs, PoolAssumption
  <2>9. Due(j)' = Cardinality(Holders(j)) + Cardinality(Queued(j)) + Cardinality(Serving(j))
    BY <1>1 DEF RefsAre, Due
  <2>10. QED
    BY <2>6, <2>7, <2>8, <2>9
<1>4. QED
  BY <1>2, <1>3 DEF Scan

\* The thread gives back the reference.
LEMMA ReleaseMoves ==
  ASSUME PInv, QTypeOK, FinitelyMany, SInv, RefsAre, NEW t \in Thread, Release(t)
  PROVE  RefsAre'
<1> "release" \in InService /\ Back(t) \notin InService
  BY DEF InService, Back
<1>1. /\ thread[t].at = "release" /\ client' = client /\ items' = items
      /\ job' = [job EXCEPT ![Mine(t)].refs = @ - 1]
  BY DEF Release, At, qvars
<1>2. Mine(t) \in Job
  BY <1>1 DEF PInv, ThreadsInOrder, InOrder, Mine
<1>3. Alone(t) /\ thread'[t].at = Back(t)
  BY LeaveJobFields DEF Release
<1>4. Serves(thread[t]) = Mine(t) /\ Serves(thread'[t]) = NoJob
  BY <1>1, <1>3, GivesBack DEF Serves, Mine
<1> SUFFICES ASSUME NEW j \in Job
             PROVE  Due(j)' =
                      Cardinality(Holders(j)') + Cardinality(Queued(j)') + Cardinality(Serving(j)')
  BY DEF RefsAre
<1>5. Holders(j)' = Holders(j) /\ Cardinality(Holders(j)) \in Nat
  BY <1>1, HoldersFinite DEF Holders, Held
<1>6. Queued(j)' = Queued(j) /\ Cardinality(Queued(j)) \in Nat
  <2>1. Queued(j)' = Queued(j)
    BY <1>1 DEF Queued, EntriesOf, Entries, Places
  <2>2. QED
    BY <2>1, QueuedFinite
<1>7. /\ Cardinality(Serving(j)') =
           Cardinality(Serving(j)) - IF j = Mine(t) THEN 1 ELSE 0
      /\ Cardinality(Serving(j)) \in Nat
  BY <1>3, <1>4, ServingMoves, ServingIs, PoolAssumption
<1>8. Due(j) = Cardinality(Holders(j)) + Cardinality(Queued(j)) + Cardinality(Serving(j))
  BY DEF RefsAre
<1>9. Due(j)' = Due(j) - IF j = Mine(t) THEN 1 ELSE 0
  BY <1>1, <1>2, RefsLess
<1>10. QED
  BY <1>5, <1>6, <1>7, <1>8, <1>9

\* All the steps of a thread in the service of a job.
LEMMA ServiceRefs ==
  ASSUME PInv, QTypeOK, FinitelyMany, SInv, RefsAre, NEW t \in Thread, Service(t)
  PROVE  RefsAre'
BY JobStays, StayingKeeps, TakeMoves, ReleaseMoves DEF Service

\* A step of a thread that gives no reference back, before or after.
LEMMA OutsideKeeps ==
  ASSUME RefsAre, NEW t \in Thread, Alone(t), items' = items, job' = job,
         \A c \in Client : client'[c].held = client[c].held,
         thread[t].at \notin InService,
         thread'[t].at \notin InService \/ thread'[t].mode \notin Give
  PROVE  RefsAre'
<1>1. Serves(thread[t]) = NoJob /\ Serves(thread'[t]) = NoJob
  BY DEF Serves
<1>2. StaysWith(t)
  BY <1>1 DEF StaysWith, Due
<1>3. QED
  BY <1>2, StayingKeeps

\* The steps of a worker between its jobs.
LEMMA WorkRefs ==
  ASSUME PInv, QTypeOK, FinitelyMany, SInv, RefsAre, NEW w \in Worker, Work(w)
  PROVE  RefsAre'
<1>0. w \in Thread
  BY Names
<1>1. CASE Service(w)
  BY <1>0, <1>1, ServiceRefs
<1>2. CASE \/ Wake(w) \/ PopDirect(w) \/ PopShared(w)
           \/ Finish(w) \/ Reply(w) \/ SuspendSelf(w) \/ Awaken(w)
  <2>1. /\ thread[w].at \in {"wait", "pop", "pop shared", "finish", "suspend", "suspended"}
        /\ items' = items /\ job' = job /\ client' = client
    BY <1>2 DEF Wake, PopDirect, PopShared, Finish, Reply, SuspendSelf, Awaken, Pop, Reserve,
                qvars, At
  <2>2. \E where \in {"pop", "scan", "pop shared", "wait", "suspend", "exited", "suspended"} :
          Goto(w, where)
    BY <1>2 DEF Wake, PopDirect, PopShared, Finish, Reply, SuspendSelf, Awaken, Pop, BackToWait
  <2>3. Alone(w) /\ thread'[w].at \in {"pop", "scan", "pop shared", "wait", "suspend",
                                       "exited", "suspended"}
    BY <1>0, <2>2, GotoFields
  <2>4. thread[w].at \notin InService /\ thread'[w].at \notin InService
    BY <2>1, <2>3 DEF InService
  <2>5. QED
    BY <1>0, <2>1, <2>3, <2>4, OutsideKeeps
<1>3. QED
  BY <1>1, <1>2 DEF Work

\* A client that pushes a job adds the reference of the queue.
LEMMA PushMoves ==
  ASSUME PInv, QTypeOK, FinitelyMany, SInv, RefsAre, NEW c \in Client, NEW j \in Job,
         NEW p \in Priority, AddJob(c, j) \/ ChangePriority(c, j, p)
  PROVE  RefsAre'
<1>1. /\ Free(c) /\ client' = client /\ Start(c, "count", j, "service", "none")
  BY DEF AddJob, ChangePriority
<1>2. Alone(c) /\ thread'[c].at = "count" /\ thread[c].at = "free" /\ c \in Thread
  BY <1>1, Names, StartFields DEF Free, At
<1>3. Serves(thread[c]) = NoJob /\ Serves(thread'[c]) = NoJob
  BY <1>2 DEF Serves, InService
<1>4. \A k \in Job : Due(k)' = Due(k) + IF k = j THEN 1 ELSE 0
  <2>1. CASE AddJob(c, j)
    <3>1. job' = [job EXCEPT ![j].status = "PENDING", ![j].priority = Urgency(j),
                             ![j].refs = @ + 1]
      BY <2>1 DEF AddJob
    <3>2. QED
      BY <3>1, RefsMore
  <2>2. CASE ChangePriority(c, j, p)
    <3>1. job' = [job EXCEPT ![j].priority = p, ![j].refs = @ + 1]
      BY <2>2 DEF ChangePriority
    <3>2. QED
      BY <3>1, RefsMore
  <2>3. QED
    BY <2>1, <2>2
<1>5. PICK q \in Queue, l \in Priority : PushItem(c, q, l, j)
  <2>1. CASE AddJob(c, j)
    BY <2>1, AddJobInv, Names DEF AddJob
  <2>2. CASE ChangePriority(c, j, p)
    BY <2>2, Names DEF ChangePriority
  <2>3. QED
    BY <2>1, <2>2
<1>6. items' = [items EXCEPT ![q][l] = Append(@, j)]
  BY <1>5 DEF PushItem
<1> SUFFICES ASSUME NEW k \in Job
             PROVE  Due(k)' =
                      Cardinality(Holders(k)') + Cardinality(Queued(k)') + Cardinality(Serving(k)')
  BY DEF RefsAre
<1>7. Holders(k)' = Holders(k) /\ Cardinality(Holders(k)) \in Nat
  BY <1>1, HoldersFinite DEF Holders, Held
<1>8. Cardinality(Queued(k)') = Cardinality(Queued(k)) + IF k = j THEN 1 ELSE 0
  BY <1>6, QueuedPushed, ZenonT(60)
<1>9. Cardinality(Queued(k)) \in Nat
  BY QueuedFinite
<1>10. Serving(k)' = Serving(k) /\ Cardinality(Serving(k)) \in Nat
  BY <1>2, <1>3, ServingIs DEF Alone
<1>11. Due(k) = Cardinality(Holders(k)) + Cardinality(Queued(k)) + Cardinality(Serving(k))
  BY DEF RefsAre
<1>12. QED
  BY <1>4, <1>7, <1>8, <1>9, <1>10, <1>11

\* A client that lets go of a job gives back the reference it held.
LEMMA LetGoMoves ==
  ASSUME PInv, QTypeOK, FinitelyMany, SInv, RefsAre, NEW c \in Client, NEW j \in Job,
         LetGo(c, j)
  PROVE  RefsAre'
<1>1. /\ c \in Holders(j) /\ items' = items /\ thread' = thread
      /\ client' = [client EXCEPT ![c].held = @ \ {j}]
      /\ job' = [job EXCEPT ![j].refs = @ - 1]
  BY DEF LetGo, Holders, qvars
<1>2. \A k \in Job : Due(k)' = Due(k) - IF k = j THEN 1 ELSE 0
  BY <1>1, RefsLess
<1>3. /\ client'[c].held = client[c].held \ {j}
      /\ \A d \in Client : d # c => client'[d] = client[d]
  <2>1. client \in [Client -> [held : SUBSET Job, suspends : Nat, bulk : Int]]
    BY DEF SInv, Recorded
  <2>2. QED
    BY <1>1, <2>1
<1> SUFFICES ASSUME NEW k \in Job
             PROVE  Due(k)' =
                      Cardinality(Holders(k)') + Cardinality(Queued(k)') + Cardinality(Serving(k)')
  BY DEF RefsAre
<1>4. Holders(k)' = IF k = j THEN Holders(k) \ {c} ELSE Holders(k)
  BY <1>1, <1>3 DEF Holders, Held
<1>5. /\ Cardinality(Holders(k)') = Cardinality(Holders(k)) - IF k = j THEN 1 ELSE 0
      /\ Cardinality(Holders(k)) \in Nat
  <2>1. IsFiniteSet(Holders(k)) /\ Cardinality(Holders(k)) \in Nat
    BY HoldersFinite
  <2>2. CASE k = j
    BY <1>1, <1>4, <2>1, <2>2, OneLess
  <2>3. CASE k # j
    BY <1>4, <2>1, <2>3
  <2>4. QED
    BY <2>1, <2>2, <2>3
<1>6. Queued(k)' = Queued(k) /\ Serving(k)' = Serving(k)
  BY <1>1 DEF Queued, EntriesOf, Entries, Places, Serving, Releasing, Mine
<1>7. Cardinality(Queued(k)) \in Nat
  BY QueuedFinite
<1>8. Cardinality(Serving(k)) \in Nat
  BY ServingIs
<1>9. Due(k) = Cardinality(Holders(k)) + Cardinality(Queued(k)) + Cardinality(Serving(k))
  BY DEF RefsAre
<1>10. QED
  BY <1>2, <1>5, <1>6, <1>7, <1>8, <1>9

\* The shared queue gives its references back, the direct ones lose theirs.
LEMMA JoinMoves ==
  ASSUME PInv, QTypeOK, FinitelyMany, SInv, RefsAre, NEW c \in Client, Join(c)
  PROVE  RefsAre'
<1>1. /\ thread[c].at = "join" /\ client' = client
      /\ items' = [q \in Queue |-> IF q \in pool.threads \cup {Shared}
                                    THEN [p \in Priority |-> <<>>] ELSE items[q]]
      /\ Start(c, "free", NoJob, "service", "none")
  BY DEF Join, At, Flush
<1>2. /\ Alone(c) /\ thread'[c].at = "free" /\ c \in Thread /\ Shared \in Queue
      /\ pool.threads \in SUBSET Queue /\ Shared \notin pool.threads
  BY <1>1, Names, StartFields, PoolAssumption DEF PInv, Typed
<1>3. Serves(thread[c]) = NoJob /\ Serves(thread'[c]) = NoJob
  BY <1>1, <1>2 DEF Serves, InService
<1> SUFFICES ASSUME NEW j \in Job
             PROVE  Due(j)' =
                      Cardinality(Holders(j)') + Cardinality(Queued(j)') + Cardinality(Serving(j)')
  BY DEF RefsAre
<1>4. /\ job'[j].refs = job[j].refs - Cardinality(Entries(Shared, j))
      /\ job'[j].lost = job[j].lost + Cardinality(EntriesOf(pool.threads, j))
  <2> DEFINE aborts == Entries(Shared, j) # {} /\ CanExecute(j)
             refs == job[j].refs - Cardinality(Entries(Shared, j))
             lost == job[j].lost + Cardinality(EntriesOf(pool.threads, j))
             status == IF aborts THEN "ABORTED" ELSE job[j].status
             calls == IF aborts THEN job[j].calls + 1 ELSE job[j].calls
             done == job[j].done \/ aborts
  <2>1. job'[j] = [job[j] EXCEPT !.refs = refs, !.lost = lost, !.status = status,
                                 !.calls = calls, !.done = done]
    BY DEF Join
  <2>2. job[j] \in JobRecord
    BY DEF PInv, Typed
  <2> HIDE DEF aborts, refs, lost, status, calls, done
  <2>3. job'[j].refs = refs /\ job'[j].lost = lost
    BY <2>1, <2>2 DEF JobRecord
  <2>4. QED
    BY <2>3 DEF refs, lost
<1>5. Holders(j)' = Holders(j) /\ Cardinality(Holders(j)) \in Nat
  BY <1>1, HoldersFinite DEF Holders, Held
<1>6. /\ Cardinality(Queued(j)') =
           Cardinality(Queued(j))
             - (Cardinality(EntriesOf(pool.threads, j)) + Cardinality(Entries(Shared, j)))
      /\ Cardinality(Queued(j)) \in Nat /\ Cardinality(Entries(Shared, j)) \in Nat
      /\ Cardinality(EntriesOf(pool.threads, j)) \in Nat
  <2>1. Cardinality(Queued(j)') =
          Cardinality(Queued(j)) - Cardinality(EntriesOf(pool.threads \cup {Shared}, j))
    BY <1>1, <1>2, QueuedFlushed
  <2>2. QED
    BY <1>2, <2>1, QueuedFinite, EntriesFinite, EntriesApart
<1>7. Serving(j)' = Serving(j) /\ Cardinality(Serving(j)) \in Nat
  BY SMTT(30), <1>2, <1>3, ServingIs DEF Alone
<1>8. Due(j) = Cardinality(Holders(j)) + Cardinality(Queued(j)) + Cardinality(Serving(j))
  BY DEF RefsAre
<1>9. job[j].refs \in Int /\ job[j].lost \in Nat
  BY DEF PInv, Typed, JobRecord
<1>10. QED
  BY <1>4, <1>5, <1>6, <1>7, <1>8, <1>9 DEF Due

\* What a client begins, other than to push or let go of a job, moves no reference.
LEMMA BeginsStays ==
  ASSUME PInv, SInv, RefsAre, NEW c \in Client,
         \/ \E j \in Job : AddInline(c, j) \/ WaitForFinish(c, j)
         \/ \E j \in Job : \E mode \in {"execute", "abort"} : ExecuteOrAbort(c, j, mode)
         \/ \E op \in Whole : Bulk(c, op)
         \/ Stop(c)
  PROVE  RefsAre'
<1>1. /\ Free(c) /\ items' = items /\ job' = job
      /\ client' = client \/ client' = [client EXCEPT ![c].bulk = @ - 1]
  BY DEF AddInline, WaitForFinish, ExecuteOrAbort, Bulk, Stop, Begun, qvars
<1>2. \A d \in Client : client'[d].held = client[d].held
  <2>1. client[c].bulk - 1 \in Int
    BY DEF SInv, Recorded
  <2>2. QED
    BY <1>1, <2>1, ClientFields DEF SInv
<1>3. c \in Thread /\ thread[c].at = "free"
  BY <1>1, FreeIs
<1>4. Alone(c) /\ (thread'[c].at \notin InService \/ thread'[c].mode \notin Give)
  <2>1. CASE \E j \in Job : AddInline(c, j)
    BY <1>3, <2>1, StartFields DEF AddInline, Give
  <2>2. CASE \E j \in Job : WaitForFinish(c, j)
    BY <1>3, <2>2 DEF WaitForFinish, PInv, Typed, Alone, InService
  <2>3. CASE \E j \in Job : \E mode \in {"execute", "abort"} : ExecuteOrAbort(c, j, mode)
    BY <1>3, <2>3, StartFields DEF ExecuteOrAbort, Give
  <2>4. CASE \E op \in Whole : Bulk(c, op)
    BY ZenonT(30), <1>3, <2>4, StartFields DEF Bulk, InService
  <2>5. CASE Stop(c)
    BY <1>3, <2>5 DEF Stop, PInv, Typed, ThreadRecord, Alone, InService
  <2>6. QED
    BY <2>1, <2>2, <2>3, <2>4, <2>5
<1>5. thread[c].at \notin InService
  BY <1>3 DEF InService
<1>6. QED
  BY <1>1, <1>2, <1>3, <1>4, <1>5, OutsideKeeps

\* What a client goes on with outside the service of a job moves none either.
LEMMA ContinueStays ==
  ASSUME PInv, SInv, RefsAre, NEW c \in Client,
         \/ Count(c) \/ Yield(c) \/ Help(c) \/ EndWait(c) \/ Enter(c) \/ CallWorker(c)
         \/ Settle(c) \/ Drains(c) \/ Resume(c) \/ EndSuspend(c)
  PROVE  RefsAre'
<1>0. c \in Thread
  BY Names
<1>1. /\ thread[c].at \notin InService
      /\ items' = items /\ job' = job
      /\ \/ client' = client
         \/ client' = [client EXCEPT ![c].suspends = @ + 1]
         \/ client' = [client EXCEPT ![c].suspends = @ - 1]
  <2>1. CASE Count(c)
    BY <2>1 DEF Count, CountItem, At, InService
  <2>2. CASE Yield(c) \/ EndWait(c)
    BY <2>2 DEF Yield, EndWait, At, InService, qvars
  <2>3. CASE Help(c)
    BY <2>3 DEF Help, Pop, Reserve, At, InService, qvars
  <2>4. CASE Enter(c) \/ Settle(c)
    BY <2>4 DEF Enter, Settle, Suspended, At, InService, qvars
  <2>5. CASE CallWorker(c)
    BY <2>5 DEF CallWorker, At, InService, qvars
  <2>6. CASE Drains(c)
    BY <2>6, DrainMoves DEF DrainsTo, Reserve, InService, qvars
  <2>7. CASE Resume(c)
    BY <2>7 DEF Resume, At, InService, qvars
  <2>8. CASE EndSuspend(c)
    BY <2>8 DEF EndSuspend, Free, At, InService, qvars
  <2>9. QED
    BY <2>1, <2>2, <2>3, <2>4, <2>5, <2>6, <2>7, <2>8
<1>2. \A d \in Client : client'[d].held = client[d].held
  <2>1. client \in [Client -> [held : SUBSET Job, suspends : Nat, bulk : Int]]
    BY DEF SInv, Recorded
  <2>2. CASE client' = [client EXCEPT ![c].suspends = @ + 1]
    BY <2>1, <2>2
  <2>3. CASE client' = [client EXCEPT ![c].suspends = @ - 1]
    BY <2>1, <2>3
  <2>4. QED
    BY <1>1, <2>2, <2>3
<1>3. \/ \E where \in {"help", "block", "scan", "pop next", "crashed", "resume"} : Goto(c, where)
      \/ \E where \in {"call", "join", "settle", "drain"} : \E set : GotoAll(c, where, set)
      \/ \E where \in {"free", "resume"} : \E op : Start(c, where, NoJob, "service", op)
      \/ /\ thread[c].at = "call"
         /\ \E set : thread' = [thread EXCEPT ![c].todo = set]
  <2>1. CASE Count(c) \/ EndWait(c)
    BY <2>1 DEF Count, EndWait
  <2>2. CASE Yield(c) \/ Help(c)
    BY <2>2 DEF Yield, Help, Pop
  <2>3. CASE Enter(c) \/ Settle(c)
    BY <2>3 DEF Enter, Settle, Suspended
  <2>4. CASE CallWorker(c)
    BY <2>4 DEF CallWorker, At
  <2>5. CASE Drains(c)
    BY <2>5, DrainMoves DEF DrainsTo
  <2>6. CASE Resume(c) \/ EndSuspend(c)
    BY <2>6 DEF Resume, EndSuspend
  <2>7. QED
    BY <2>1, <2>2, <2>3, <2>4, <2>5, <2>6
<1>4. Alone(c) /\ thread'[c].at \notin InService
  <2>1. CASE \E where \in {"help", "block", "scan", "pop next", "crashed", "resume"} :
               Goto(c, where)
    BY <1>0, <2>1, GotoFields DEF InService
  <2>2. CASE \E where \in {"call", "join", "settle", "drain"} : \E set : GotoAll(c, where, set)
    BY <1>0, <2>2, GotoAllFields DEF InService
  <2>3. CASE \E where \in {"free", "resume"} : \E op : Start(c, where, NoJob, "service", op)
    BY <1>0, <2>3, StartFields DEF InService
  <2>4. CASE /\ thread[c].at = "call"
             /\ \E set : thread' = [thread EXCEPT ![c].todo = set]
    BY <1>0, <2>4 DEF InService, PInv, Typed, ThreadRecord, Alone
  <2>5. QED
    BY <1>3, <2>1, <2>2, <2>3, <2>4
<1>5. QED
  BY <1>0, <1>1, <1>2, <1>4, OutsideKeeps

\* Every step keeps the references adding up.
LEMMA RefsNext ==
  ASSUME PInv, QTypeOK, FinitelyMany, SInv, RefsAre, [Next]_vars
  PROVE  RefsAre'
<1>1. CASE \E w \in Worker : Work(w)
  BY <1>1, WorkRefs
<1>2. ASSUME NEW c \in Client, Continue(c)
      PROVE  RefsAre'
  <2>1. CASE Service(c)
    BY <2>1, Names, ServiceRefs
  <2>2. CASE Join(c)
    BY <2>2, JoinMoves
  <2>3. CASE \/ Count(c) \/ Yield(c) \/ Help(c) \/ EndWait(c) \/ Enter(c) \/ CallWorker(c)
             \/ Settle(c) \/ Drains(c) \/ Resume(c) \/ EndSuspend(c)
    BY <2>3, ContinueStays
  <2>4. QED
    BY <1>2, <2>1, <2>2, <2>3 DEF Continue, Drains
<1>3. ASSUME NEW c \in Client, Begins(c)
      PROVE  RefsAre'
  <2>1. 0 \in Priority
    BY PriorityAssumption DEF Priority
  <2>2. CASE \E j \in Job : AddJob(c, j) \/ \E p \in Priority : ChangePriority(c, j, p)
    BY <2>1, <2>2, PushMoves
  <2>3. CASE \E j \in Job : LetGo(c, j)
    BY <2>3, LetGoMoves
  <2>4. CASE \/ \E j \in Job : AddInline(c, j) \/ WaitForFinish(c, j)
             \/ \E j \in Job : \E mode \in {"execute", "abort"} : ExecuteOrAbort(c, j, mode)
             \/ \E op \in Whole : Bulk(c, op)
             \/ Stop(c)
    BY <2>4, BeginsStays
  <2>5. QED
    BY <1>3, <2>2, <2>3, <2>4 DEF Begins, Whole
<1>4. CASE UNCHANGED vars
  BY <1>4 DEF vars, RefsAre, Due, Holders, Held, Queued, EntriesOf, Entries, Places, Serving,
              Releasing, Mine
<1>5. QED
  BY <1>1, <1>2, <1>3, <1>4 DEF Next

\* At first the only references are those of the clients that hold the jobs.
LEMMA RefsInit == Init => RefsAre
<1> SUFFICES ASSUME Init, NEW j \in Job
             PROVE  Due(j) =
                      Cardinality(Holders(j)) + Cardinality(Queued(j)) + Cardinality(Serving(j))
  BY DEF RefsAre
<1>1. Queued(j) = {}
  <2>1. \A q \in Queue : \A i \in Priority : items[q][i] = <<>>
    BY DEF Init, QInit
  <2>2. \A x : x \notin Queued(j)
    BY <2>1, QueuedIs DEF QueuedMeans
  <2>3. QED
    BY <2>2
<1>2. Serving(j) = {}
  <2>1. \A t \in Thread : thread[t].at \in {"free", "wait", "exited"}
    BY DEF Init
  <2>2. QED
    BY <2>1 DEF Serving, InService
<1>3. Due(j) = IF Holders(j) # {} THEN 1 ELSE 0
  BY DEF Init, Holders, Held, Due
<1>4. \A c, d \in Holders(j) : c = d
  BY DEF Init, Holders, Held
<1>5. Cardinality(Holders(j)) = IF Holders(j) # {} THEN 1 ELSE 0
  <2>1. CASE Holders(j) = {}
    BY <2>1, FS_EmptySet
  <2>2. CASE Holders(j) # {}
    <3>1. PICK c : c \in Holders(j)
      BY <2>2
    <3>2. Holders(j) = {c}
      BY <1>4, <3>1
    <3>3. QED
      BY <2>2, <3>2, FS_Singleton
  <2>3. QED
    BY <2>1, <2>2
<1>6. Cardinality({}) = 0
  BY FS_EmptySet
<1>7. QED
  BY <1>1, <1>2, <1>3, <1>5, <1>6

\* References and state together.
RefsInv == StateInv /\ RefsAre

\* Both together are inductive.
LEMMA RefsInductive ==
  /\ Init => RefsInv
  /\ RefsInv /\ [Next]_vars => RefsInv'
BY StateInductive, RefsInit, RefsNext DEF RefsInv, StateInv, PoolInv, IInv, QInv

\* No thread touches a job that is gone: a job's count is that of its holders, of the
\* queues it is in and of the threads that service it, and what Stop lost of it with the
\* direct queues, which is all that may be left over.
THEOREM ReferencesAddUp == Spec => []RefsAddUp
<1>1. RefsInv => RefsAddUp
  BY RefsMean DEF RefsInv, StateInv, PoolInv, IInv
<1>2. QED
  BY <1>1, RefsInductive, PTL DEF Spec

\* The pool's records are what the code declares them to be: among others, no count of
\* references or suspensions goes below zero, and a mutex is owned where it is used.
THEOREM PoolTypeCorrect == Spec => []TypeOK
<1>1. RefsInv => TypeOK
  <2> SUFFICES ASSUME RefsInv
               PROVE  TypeOK
    OBVIOUS
  <2>1. PInv /\ QTypeOK /\ FinitelyMany /\ SInv /\ RefsAre
    BY DEF RefsInv, StateInv, PoolInv, IInv, QInv
  <2>2. \A t \in Thread : At(t, "scan") <=> access[t].at = "scanning"
    BY <2>1 DEF SInv, AccessAgrees
  <2>3. \A t \in Thread : thread[t].at \in InService => Mine(t) \in Job
    BY <2>1 DEF PInv, ThreadsInOrder, InOrder, Mine
  <2>4. ASSUME NEW j \in Job
        PROVE  /\ job[j].status \in {"UNSERVICED", "PENDING", "INPROGRESS", "OK", "ABORTED"}
               /\ job[j].refs \in Nat /\ job[j].lost \in Nat
               /\ \A t \in Thread :
                    job[j].owner = t <=> /\ thread[t].at \in {"begin", "run", "signal"}
                                         /\ Mine(t) = j
    <3>1. job[j].status \in {"UNSERVICED", "PENDING", "INPROGRESS", "OK", "ABORTED"}
      BY <2>1 DEF PInv, Typed, JobRecord, Status
    <3>2. job[j].refs \in Nat /\ job[j].lost \in Nat
      BY <2>1, RefsMean
    <3>3. ASSUME NEW t \in Thread
          PROVE  job[j].owner = t <=> /\ thread[t].at \in {"begin", "run", "signal"}
                                      /\ Mine(t) = j
      BY <2>1 DEF SInv, OwnersKnown, PInv, OwnersAlone, Owning
    <3>4. QED
      BY <3>1, <3>2, <3>3
  <2>5. pool.nSuspend \in Nat /\ pool.idle \subseteq pool.threads
    BY <2>1, SuspensionsNat DEF SInv, OneSuspends, Recorded
  <2>6. QED
    BY <2>1, <2>2, <2>3, <2>4, <2>5 DEF TypeOK
<1>2. QED
  BY <1>1, RefsInductive, PTL DEF Spec

=============================================================================
