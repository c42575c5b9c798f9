------------------------- MODULE DataManagerProofs --------------------------
(***************************************************************************)
(* Proofs about DataManager, for any number of threads, resources, sizes   *)
(* and bounds. First the lists and handles, on the invariant ListTypeOK,   *)
(* ListsAgree and HandlesCounted: the handle of a resource was made with a *)
(* serial number its element had then, and if the element has not been     *)
(* freed since it still holds that resource. Without it, freeing an        *)
(* element says nothing about the handles that name it. The second half    *)
(* is about storage, locks and the abstract pool.                          *)
(***************************************************************************)
EXTENDS DataManager, FiniteSums, SequenceTheorems

-----------------------------------------------------------------------------
(* Lists *)

\* Elements of a list of numbers are numbers.
LEMMA InListNat ==
  ASSUME NEW list \in Seq(Nat)
  PROVE  InList(list) \subseteq Nat /\ DOMAIN list = 1 .. Len(list) /\ Len(list) \in Nat
BY DEF InList

\* u is f, on 1 .. n, without position k.
IsWithout(u, f, n, k) ==
  /\ n \in Nat /\ k \in 1 .. n
  /\ DOMAIN f = 1 .. n /\ DOMAIN u = 1 .. n - 1
  /\ \A j \in 1 .. n - 1 : u[j] = IF j < k THEN f[j] ELSE f[j + 1]

\* Taking position k out of a list, on plain functions.
LEMMA UnlinkedFunction ==
  ASSUME NEW n, NEW f, NEW k, NEW u, Once(f), IsWithout(u, f, n, k)
  PROVE  Once(u) /\ InList(u) = InList(f) \ {f[k]}
<1> USE DEF IsWithout
<1>1. \A j \in 1 .. n - 1 : \E m \in 1 .. n : m # k /\ u[j] = f[m]
  <2> TAKE j \in 1 .. n - 1
  <2>1. CASE j < k
    <3>1. j \in 1 .. n /\ j # k /\ u[j] = f[j]
      BY <2>1
    <3> QED BY <3>1
  <2>2. CASE j >= k
    <3>1. j + 1 \in 1 .. n /\ j + 1 # k /\ u[j] = f[j + 1]
      BY <2>2
    <3> QED BY <3>1
  <2> QED BY <2>1, <2>2
<1>2. \A m \in 1 .. n : m # k => \E j \in 1 .. n - 1 : u[j] = f[m]
  <2> TAKE m \in 1 .. n
  <2>1. CASE m < k
    <3>1. m \in 1 .. n - 1 /\ u[m] = f[m]
      BY <2>1
    <3> QED BY <3>1
  <2>2. CASE m > k
    <3>1. m - 1 \in 1 .. n - 1 /\ ~(m - 1 < k) /\ m - 1 + 1 = m
      BY <2>2
    <3>2. u[m - 1] = f[m - 1 + 1]
      BY <3>1
    <3> QED BY <3>1, <3>2
  <2> QED BY <2>1, <2>2
<1>3. \A i, j \in 1 .. n - 1 : i # j => u[i] # u[j]
  <2> DEFINE pos(j) == IF j < k THEN j ELSE j + 1
  <2>1. \A j \in 1 .. n - 1 : pos(j) \in 1 .. n /\ u[j] = f[pos(j)]
    OBVIOUS
  <2>2. \A i, j \in 1 .. n - 1 : i # j => pos(i) # pos(j)
    OBVIOUS
  <2> QED BY <2>1, <2>2 DEF Once
<1>4. \A m \in 1 .. n : m # k => f[m] # f[k]
  BY DEF Once
<1>5. DOMAIN f = 1 .. n /\ DOMAIN u = 1 .. n - 1 /\ k \in 1 .. n
  OBVIOUS
<1> HIDE DEF IsWithout
<1>6. Once(u)
  BY <1>3, <1>5 DEF Once
<1>7. ASSUME NEW x \in InList(u) PROVE x \in InList(f) \ {f[k]}
  <2>1. PICK j \in 1 .. n - 1 : x = u[j]
    BY <1>5 DEF InList
  <2>2. PICK m \in 1 .. n : m # k /\ u[j] = f[m]
    BY <1>1
  <2> QED BY <2>1, <2>2, <1>4, <1>5 DEF InList
<1>8. ASSUME NEW x \in InList(f) \ {f[k]} PROVE x \in InList(u)
  <2>1. PICK m \in 1 .. n : x = f[m] /\ m # k
    BY <1>5 DEF InList
  <2>2. PICK j \in 1 .. n - 1 : u[j] = f[m]
    BY <1>2, <2>1
  <2> QED BY <2>1, <2>2, <1>5 DEF InList
<1> QED BY <1>6, <1>7, <1>8

\* Unlink takes one element out and keeps the others.
LEMMA UnlinkedList ==
  ASSUME NEW list \in Seq(Nat), Once(list), NEW i \in InList(list)
  PROVE  /\ Unlinked(list, i) \in Seq(Nat)
         /\ Once(Unlinked(list, i))
         /\ InList(Unlinked(list, i)) = InList(list) \ {i}
<1> DEFINE k == CHOOSE k \in DOMAIN list : list[k] = i
           n == Len(list)
           l1 == SubSeq(list, 1, k - 1)
           l2 == SubSeq(list, k + 1, n)
<1>1. n \in Nat /\ DOMAIN list = 1 .. n /\ \A j \in 1 .. n : list[j] \in Nat
  OBVIOUS
<1>2. k \in 1 .. n /\ list[k] = i
  BY <1>1 DEF InList
<1>3. Unlinked(list, i) = l1 \o l2
  BY DEF Unlinked
<1> HIDE DEF k, n
<1>4. /\ l1 \in Seq(Nat) /\ Len(l1) = k - 1
      /\ \A j \in 1 .. k - 1 : l1[j] = list[j]
  <2>1. \A j \in 1 .. k - 1 : list[j] \in Nat
    BY <1>1, <1>2
  <2>2. 1 \in Int /\ k - 1 \in Int
    BY <1>2
  <2>3. /\ l1 \in Seq(Nat)
        /\ Len(l1) = IF 1 <= k - 1 THEN (k - 1) - 1 + 1 ELSE 0
        /\ \A j \in 1 .. (k - 1) - 1 + 1 : l1[j] = list[1 + j - 1]
    BY <2>1, <2>2, SubSeqProperties
  <2> HIDE DEF l1
  <2> QED BY <1>1, <1>2, <2>3
<1>5. /\ l2 \in Seq(Nat) /\ Len(l2) = n - k
      /\ \A j \in 1 .. n - k : l2[j] = list[k + j]
  <2>1. \A j \in k + 1 .. n : list[j] \in Nat
    BY <1>1, <1>2
  <2>2. k + 1 \in Int /\ n \in Int
    BY <1>1, <1>2
  <2>3. /\ l2 \in Seq(Nat)
        /\ Len(l2) = IF k + 1 <= n THEN n - (k + 1) + 1 ELSE 0
        /\ \A j \in 1 .. n - (k + 1) + 1 : l2[j] = list[(k + 1) + j - 1]
    BY <2>1, <2>2, SubSeqProperties
  <2> HIDE DEF l2
  <2>4. Len(l2) = n - k
    BY <1>1, <1>2, <2>3
  <2>5. ASSUME NEW j \in 1 .. n - k PROVE l2[j] = list[k + j]
    <3>1. j \in 1 .. n - (k + 1) + 1 /\ (k + 1) + j - 1 = k + j
      BY <1>1, <1>2
    <3> QED BY <3>1, <2>3
  <2> QED BY <2>3, <2>4, <2>5
<1> HIDE DEF l1, l2
<1>6. /\ l1 \o l2 \in Seq(Nat) /\ Len(l1 \o l2) = Len(l1) + Len(l2)
      /\ \A j \in 1 .. Len(l1) + Len(l2) :
           (l1 \o l2)[j] = IF j <= Len(l1) THEN l1[j] ELSE l2[j - Len(l1)]
  BY <1>4, <1>5, ConcatProperties
<1> DEFINE u == l1 \o l2
<1>7. u \in Seq(Nat) /\ DOMAIN u = 1 .. n - 1
  <2>1. Len(l1) + Len(l2) = n - 1
    BY <1>1, <1>2, <1>4, <1>5
  <2> QED BY <1>6, <2>1
<1>8. ASSUME NEW j \in 1 .. n - 1
      PROVE  u[j] = IF j < k THEN list[j] ELSE list[j + 1]
  <2>1. j \in 1 .. Len(l1) + Len(l2) /\ Len(l1) = k - 1
    BY <1>1, <1>2, <1>4, <1>5
  <2>2. CASE j < k
    <3>1. j <= Len(l1) /\ j \in 1 .. k - 1
      BY <2>1, <2>2, <1>1, <1>2
    <3> QED BY <3>1, <2>1, <2>2, <1>4, <1>6
  <2>3. CASE j >= k
    <3>1. ~(j <= Len(l1)) /\ j - Len(l1) \in 1 .. n - k /\ k + (j - Len(l1)) = j + 1
      BY <2>1, <2>3, <1>1, <1>2
    <3>2. u[j] = l2[j - Len(l1)]
      BY <3>1, <2>1, <1>6
    <3>3. l2[j - Len(l1)] = list[k + (j - Len(l1))]
      BY <3>1, <1>5
    <3>4. ~(j < k)
      BY <2>3, <1>2
    <3> QED BY <3>1, <3>2, <3>3, <3>4
  <2>4. j < k \/ j >= k
    BY <1>1, <1>2
  <2> HIDE DEF u
  <2>5. CASE j < k
    BY <2>2, <2>5
  <2>6. CASE j >= k
    <3>1. ~(j < k)
      BY <2>6, <1>1, <1>2
    <3> QED BY <2>3, <2>6, <3>1
  <2> QED BY <2>4, <2>5, <2>6
<1> HIDE DEF u
<1>9. IsWithout(u, list, n, k)
  BY <1>1, <1>2, <1>7, <1>8 DEF IsWithout
<1>10. Once(u) /\ InList(u) = InList(list) \ {list[k]}
  BY <1>9, UnlinkedFunction
<1> QED BY <1>2, <1>3, <1>7, <1>10 DEF u

\* Two functions on intervals, one behind the other.
IsJoined(u, f, g, a, b) ==
  /\ a \in Nat /\ b \in Nat
  /\ DOMAIN f = 1 .. a /\ DOMAIN g = 1 .. b /\ DOMAIN u = 1 .. a + b
  /\ \A j \in 1 .. a + b : u[j] = IF j <= a THEN f[j] ELSE g[j - a]

\* An element of the joined function is one of the first or of the second.
LEMMA ConcatFunction ==
  ASSUME NEW a, NEW b, NEW f, NEW g, NEW u, IsJoined(u, f, g, a, b),
         Once(f), Once(g), InList(f) \cap InList(g) = {}
  PROVE  Once(u) /\ InList(u) = InList(f) \cup InList(g)
<1> USE DEF IsJoined
<1>1. \A j \in 1 .. a : j \in 1 .. a + b /\ u[j] = f[j]
  OBVIOUS
<1>2. \A j \in 1 .. b : j + a \in 1 .. a + b /\ u[j + a] = g[j]
  <2> TAKE j \in 1 .. b
  <2>1. j + a \in 1 .. a + b /\ ~(j + a <= a) /\ (j + a) - a = j
    OBVIOUS
  <2>2. u[j + a] = g[(j + a) - a]
    BY <2>1
  <2> QED BY <2>1, <2>2
<1>3. \A j \in 1 .. a + b : j \in 1 .. a \/ \E m \in 1 .. b : j = m + a
  <2> TAKE j \in 1 .. a + b
  <2>1. CASE j > a
    <3>1. j - a \in 1 .. b /\ j = (j - a) + a
      BY <2>1
    <3> QED BY <3>1
  <2> QED BY <2>1
<1>4. \A j \in 1 .. a, m \in 1 .. b : f[j] # g[m]
  BY DEF InList
<1>5. \A i, j \in 1 .. a + b : i # j => u[i] # u[j]
  <2> TAKE i, j \in 1 .. a + b
  <2>1. CASE i \in 1 .. a /\ j \in 1 .. a
    BY <2>1, <1>1 DEF Once
  <2>2. CASE i \in 1 .. a /\ \E m \in 1 .. b : j = m + a
    BY <2>2, <1>1, <1>2, <1>4
  <2>3. CASE (\E m \in 1 .. b : i = m + a) /\ j \in 1 .. a
    BY <2>3, <1>1, <1>2, <1>4
  <2>4. CASE (\E m \in 1 .. b : i = m + a) /\ (\E m \in 1 .. b : j = m + a)
    <3>1. PICK m \in 1 .. b : i = m + a
      BY <2>4
    <3>2. PICK l \in 1 .. b : j = l + a
      BY <2>4
    <3>3. \A p, q \in 1 .. b : p # q => g[p] # g[q]
      BY DEF Once
    <3>4. u[i] = g[m] /\ u[j] = g[l]
      BY <3>1, <3>2, <1>2
    <3>5. i # j => m # l
      BY <3>1, <3>2
    <3> QED BY <3>3, <3>4, <3>5
  <2>5. \/ i \in 1 .. a \/ \E m \in 1 .. b : i = m + a
    BY <1>3
  <2>6. \/ j \in 1 .. a \/ \E m \in 1 .. b : j = m + a
    BY <1>3
  <2> HIDE DEF IsJoined
  <2> QED BY <2>1, <2>2, <2>3, <2>4, <2>5, <2>6
<1>6. Once(u)
  BY <1>5 DEF Once
<1>7. InList(u) \subseteq InList(f) \cup InList(g)
  BY <1>1, <1>2, <1>3 DEF InList
<1>8. InList(f) \cup InList(g) \subseteq InList(u)
  BY <1>1, <1>2 DEF InList
<1> QED BY <1>6, <1>7, <1>8

\* Two lists without a common element, one behind the other.
LEMMA ConcatList ==
  ASSUME NEW l1 \in Seq(Nat), NEW l2 \in Seq(Nat), Once(l1), Once(l2),
         InList(l1) \cap InList(l2) = {}
  PROVE  /\ l1 \o l2 \in Seq(Nat)
         /\ Once(l1 \o l2)
         /\ InList(l1 \o l2) = InList(l1) \cup InList(l2)
<1> DEFINE a == Len(l1)
           b == Len(l2)
           u == l1 \o l2
<1>1. a \in Nat /\ b \in Nat /\ DOMAIN l1 = 1 .. a /\ DOMAIN l2 = 1 .. b
  OBVIOUS
<1>2. u \in Seq(Nat) /\ Len(u) = a + b
      /\ \A j \in 1 .. a + b : u[j] = IF j <= a THEN l1[j] ELSE l2[j - a]
  BY ConcatProperties
<1>3. DOMAIN u = 1 .. a + b
  BY <1>2
<1> HIDE DEF a, b, u
<1>4. IsJoined(u, l1, l2, a, b)
  BY <1>1, <1>2, <1>3 DEF IsJoined
<1>5. Once(u) /\ InList(u) = InList(l1) \cup InList(l2)
  BY <1>4, ConcatFunction
<1> QED BY <1>2, <1>5 DEF u

\* A list of one element ...
LEMMA SingleList ==
  ASSUME NEW i \in Nat
  PROVE  <<i>> \in Seq(Nat) /\ Once(<<i>>) /\ InList(<<i>>) = {i}
BY DEF Once, InList

\* ... and the list of none.
LEMMA EmptyList == <<>> \in Seq(Nat) /\ Once(<<>>) /\ InList(<<>>) = {}
BY DEF Once, InList

\* LinkToTail of an element that is not in the list.
LEMMA AppendList ==
  ASSUME NEW list \in Seq(Nat), Once(list), NEW i \in Nat, i \notin InList(list)
  PROVE  /\ Append(list, i) \in Seq(Nat)
         /\ Once(Append(list, i))
         /\ InList(Append(list, i)) = InList(list) \cup {i}
<1>1. Append(list, i) = list \o <<i>>
  BY AppendIsConcat
<1>2. InList(list) \cap InList(<<i>>) = {}
  BY SingleList
<1> QED BY <1>1, <1>2, SingleList, ConcatList

\* Taking the head off a list.
LEMMA TailList ==
  ASSUME NEW list \in Seq(Nat), Once(list), list # <<>>
  PROVE  /\ Tail(list) \in Seq(Nat)
         /\ Once(Tail(list))
         /\ Head(list) \in InList(list)
         /\ InList(Tail(list)) = InList(list) \ {Head(list)}
<1> DEFINE n == Len(list)
           u == Tail(list)
<1>1. n \in Nat /\ 1 \in 1 .. n /\ DOMAIN list = 1 .. n /\ Head(list) = list[1]
  OBVIOUS
<1>2. u \in Seq(Nat) /\ DOMAIN u = 1 .. n - 1
  BY <1>1
<1>3. \A j \in 1 .. n - 1 : u[j] = list[j + 1]
  BY <1>1
<1> HIDE DEF n, u
<1>4. \A j \in 1 .. n - 1 : u[j] = IF j < 1 THEN list[j] ELSE list[j + 1]
  BY <1>3
<1>5. IsWithout(u, list, n, 1)
  BY <1>1, <1>2, <1>4 DEF IsWithout
<1>7. Once(u) /\ InList(u) = InList(list) \ {list[1]}
  BY <1>5, UnlinkedFunction
<1>6. list[1] \in InList(list)
  BY <1>1 DEF InList
<1> QED BY <1>1, <1>2, <1>6, <1>7 DEF u

-----------------------------------------------------------------------------
(* The inductive invariant *)

\* A handle was made with the serial its element had after r reuses, and the
\* element still holds that resource if it has not been reused since.
HandlesCounted ==
  /\ \A i \in Index : elem[i].reuses < SerialMod
  /\ \A x \in Item : issued[x] # NoHandle =>
       /\ issued[x].index \in Index
       /\ \E r \in 0 .. elem[issued[x].index].reuses :
            /\ issued[x].serial = (1 + r) % SerialMod
            /\ r = elem[issued[x].index].reuses => elem[issued[x].index].store = x

\* A thread only ever inserts resources.
Continues(c) == c.pc \in {"idle", "insert", "notify"} /\ (c.pc = "insert" => c.item \in Item)
Loops(c) == c.pc \in {"used", "available", "evict"} /\ Continues(c.then)
Resumes(c) == Continues(c) \/ (c.pc = "used" /\ Loops(c))
Works(c) ==
  \/ Continues(c) \/ Loops(c) \/ c.pc = "purge"
  \/ c.pc = "destroy" /\ Resumes(c.next)
TasksOK == DOMAIN task = Thread /\ \A t \in Thread : Works(task[t])

ListInv == ListTypeOK /\ ListsAgree /\ HandlesCounted
IInv == ListInv /\ TasksOK

-----------------------------------------------------------------------------
(* Elements and handles *)

\* Before the serial number comes round, it tells how often an element was used.
LEMMA SerialTells ==
  ASSUME NEW r \in 0 .. SerialMod - 1, NEW s \in 0 .. SerialMod - 1,
         (1 + r) % SerialMod = (1 + s) % SerialMod
  PROVE  r = s
<1> DEFINE M == SerialMod
<1>1. M \in Nat \ {0}
  BY ManagerAssumption
<1>2. \A a \in 0 .. M - 1 : a % M = a
  BY <1>1
<1>3. M % M = 0
  BY <1>1
<1>4. 1 + r = M \/ 1 + r \in 1 .. M - 1
  BY <1>1
<1>5. 1 + s = M \/ 1 + s \in 1 .. M - 1
  BY <1>1
<1>6. \A a \in 1 .. M - 1 : a % M = a /\ a # 0
  BY <1>1, <1>2
<1> QED BY <1>1, <1>3, <1>4, <1>5, <1>6

\* A handle that is found leads to the element that holds its resource.
LEMMA FoundHolds ==
  ASSUME ListInv, NEW x \in Item, Found(x) # NoIndex
  PROVE  /\ issued[x] # NoHandle
         /\ Found(x) \in Index
         /\ elem[Found(x)] \in Element
         /\ elem[Found(x)].store = x
<1> USE DEF ListInv, ListTypeOK
<1> DEFINE h == issued[x]
           i == h.index
<1>1. Found(x) = i /\ i \in Index /\ Serial(elem[i]) = h.serial
  BY DEF Found, FromHandle, Index
<1>2. i \in 1 .. Len(elem) /\ elem[i] \in Element
  BY <1>1 DEF Index
<1>3. h # NoHandle
  BY <1>2 DEF NoHandle
<1>4. elem[i].reuses \in 0 .. SerialMod - 1
  <2>1. elem[i].reuses < SerialMod
    BY <1>1 DEF HandlesCounted
  <2>2. elem[i].reuses \in Nat
    BY <1>2 DEF Element
  <2>3. SerialMod \in Nat
    BY ManagerAssumption
  <2> QED BY ONLY <2>1, <2>2, <2>3
<1>5. PICK r \in 0 .. elem[i].reuses :
        h.serial = (1 + r) % SerialMod /\ (r = elem[i].reuses => elem[i].store = x)
  BY <1>3 DEF HandlesCounted
<1>6. r \in 0 .. SerialMod - 1
  BY <1>4, <1>5, ManagerAssumption
<1>7. (1 + r) % SerialMod = (1 + elem[i].reuses) % SerialMod
  BY <1>1, <1>5 DEF Serial
<1>8. r = elem[i].reuses
  BY <1>4, <1>6, <1>7, SerialTells
<1> QED BY <1>1, <1>2, <1>3, <1>5, <1>8

\* Two fields of an element change.
LEMMA FreedElement ==
  ASSUME NEW e \in Element, NEW n \in Nat
  PROVE  [e EXCEPT !.reuses = n, !.store = NoItem] \in Element
BY DEF Element

\* Freed changes the elements of the list and no other.
LEMMA FreedElements ==
  ASSUME NEW elems \in Seq(Element), NEW list
  PROVE  /\ Freed(elems, list) \in Seq(Element)
         /\ DOMAIN Freed(elems, list) = DOMAIN elems
         /\ \A i \in DOMAIN elems :
              /\ i \notin InList(list) => Freed(elems, list)[i] = elems[i]
              /\ i \in InList(list) =>
                   /\ Freed(elems, list)[i].store = NoItem
                   /\ Freed(elems, list)[i].reuses = elems[i].reuses + 1
                   /\ Freed(elems, list)[i].lockCount = elems[i].lockCount
<1> DEFINE new(i) == IF i \in InList(list)
                     THEN [elems[i] EXCEPT !.reuses = @ + 1, !.store = NoItem] ELSE elems[i]
<1>1. DOMAIN elems = 1 .. Len(elems) /\ Len(elems) \in Nat
      /\ \A i \in DOMAIN elems : elems[i] \in Element
  OBVIOUS
<1>2. \A i \in DOMAIN elems : new(i) \in Element
  <2> TAKE i \in DOMAIN elems
  <2>1. elems[i] \in Element /\ elems[i].reuses + 1 \in Nat
    BY <1>1 DEF Element
  <2>2. [elems[i] EXCEPT !.reuses = @ + 1, !.store = NoItem] \in Element
    BY <2>1, FreedElement
  <2> QED BY <2>2, <1>1
<1>3. Freed(elems, list) = [i \in 1 .. Len(elems) |-> new(i)]
  BY <1>1 DEF Freed
<1>4. Freed(elems, list) \in Seq(Element)
  <2> HIDE DEF new
  <2>1. [i \in 1 .. Len(elems) |-> new(i)] \in [1 .. Len(elems) -> Element]
    BY <1>1, <1>2
  <2> QED BY <1>1, <1>3, <2>1, SeqDef
<1> QED BY <1>1, <1>3, <1>4 DEF Element

\* Broken changes the lock counts of the list and nothing else.
LEMMA BrokenElements ==
  ASSUME NEW elems \in Seq(Element), NEW list
  PROVE  /\ Broken(elems, list) \in Seq(Element)
         /\ DOMAIN Broken(elems, list) = DOMAIN elems
         /\ \A i \in DOMAIN elems :
              /\ i \notin InList(list) => Broken(elems, list)[i] = elems[i]
              /\ i \in InList(list) =>
                   /\ Broken(elems, list)[i].store = elems[i].store
                   /\ Broken(elems, list)[i].reuses = elems[i].reuses
                   /\ Broken(elems, list)[i].lockCount = 0
<1> DEFINE new(i) == IF i \in InList(list) THEN [elems[i] EXCEPT !.lockCount = 0] ELSE elems[i]
<1>1. DOMAIN elems = 1 .. Len(elems) /\ Len(elems) \in Nat
      /\ \A i \in DOMAIN elems : elems[i] \in Element
  OBVIOUS
<1>2. \A i \in DOMAIN elems : new(i) \in Element
  <2> TAKE i \in DOMAIN elems
  <2>1. elems[i] \in [lockCount : Nat, reuses : Nat, store : Item \cup {NoItem}]
    BY <1>1 DEF Element
  <2>2. [elems[i] EXCEPT !.lockCount = 0] \in Element
    BY <2>1 DEF Element
  <2> QED BY <2>2, <1>1
<1>3. Broken(elems, list) = [i \in 1 .. Len(elems) |-> new(i)]
  BY <1>1 DEF Broken
<1>4. Broken(elems, list) \in Seq(Element)
  <2> HIDE DEF new
  <2>1. [i \in 1 .. Len(elems) |-> new(i)] \in [1 .. Len(elems) -> Element]
    BY <1>1, <1>2
  <2> QED BY <1>1, <1>3, <2>1, SeqDef
<1> QED BY <1>1, <1>3, <1>4 DEF Element

\* One lock count changes.
CountedTo(elems, i, n, new) ==
  /\ new \in Seq(Element) /\ DOMAIN new = DOMAIN elems
  /\ new[i].lockCount = n
  /\ \A j \in DOMAIN elems : j # i => new[j] = elems[j]
  /\ \A j \in DOMAIN elems : new[j].store = elems[j].store /\ new[j].reuses = elems[j].reuses

\* EXCEPT is such a change.
LEMMA CountedElement ==
  ASSUME NEW elems \in Seq(Element), NEW i \in DOMAIN elems, NEW n \in Nat
  PROVE  CountedTo(elems, i, n, [elems EXCEPT ![i].lockCount = n])
<1> DEFINE new == [elems EXCEPT ![i].lockCount = n]
<1>1. elems[i] \in Element
  OBVIOUS
<1>2. [elems[i] EXCEPT !.lockCount = n] \in Element
  BY <1>1 DEF Element
<1>3. new = [elems EXCEPT ![i] = [elems[i] EXCEPT !.lockCount = n]]
  OBVIOUS
<1>4. new \in Seq(Element) /\ DOMAIN new = DOMAIN elems
  BY <1>2, <1>3
<1>5. new[i] = [elems[i] EXCEPT !.lockCount = n] /\ \A j \in DOMAIN elems : j # i => new[j] = elems[j]
  BY <1>3
<1>6. new[i].lockCount = n /\ new[i].store = elems[i].store /\ new[i].reuses = elems[i].reuses
  BY <1>1, <1>5 DEF Element
<1> HIDE DEF new
<1>7. CountedTo(elems, i, n, new)
  BY <1>4, <1>5, <1>6 DEF CountedTo
<1> QED BY <1>7 DEF new

\* Every element is in one list, and every list is made of elements.
LEMMA ListsPartition ==
  ASSUME ListTypeOK, ListsAgree
  PROVE  /\ Index = 1 .. Len(elem) /\ Len(elem) \in Nat
         /\ InList(lru) \subseteq Index /\ InList(locked) \subseteq Index
         /\ InList(free) \subseteq Index
         /\ InList(lru) \cap InList(locked) = {}
         /\ InList(lru) \cap InList(free) = {}
         /\ InList(locked) \cap InList(free) = {}
         /\ \A i \in Index : elem[i] \in Element
<1> USE DEF ListTypeOK, ListsAgree
<1>1. elem \in Seq(Element) /\ Index = DOMAIN elem
  BY DEF Index
<1>2. Index = 1 .. Len(elem) /\ Len(elem) \in Nat /\ \A i \in Index : elem[i] \in Element
  BY <1>1
<1>3. \A i \in Index : elem[i].lockCount \in Nat
  BY <1>2 DEF Element
<1> QED BY <1>2, <1>3

\* A step that reuses elements without repeating serial numbers keeps handles.
LEMMA HandlesKept ==
  ASSUME HandlesCounted, issued' = issued, ListTypeOK, elem' \in Seq(Element),
         DOMAIN elem' = DOMAIN elem,
         \A i \in Index : /\ elem'[i].reuses >= elem[i].reuses
                          /\ elem'[i].reuses = elem[i].reuses => elem'[i].store = elem[i].store
                          /\ elem'[i].reuses < SerialMod
  PROVE  HandlesCounted'
<1>1. \A i \in Index : elem[i].reuses \in Nat /\ elem'[i].reuses \in Nat
  <2>1. elem \in Seq(Element) /\ Index = DOMAIN elem
    BY DEF ListTypeOK, Index
  <2>2. \A i \in Index : elem[i] \in Element /\ elem'[i] \in Element
    BY <2>1
  <2> QED BY <2>2 DEF Element
<1>2. Index' = Index
  BY DEF Index
<1>3. ASSUME NEW x \in Item, issued[x] # NoHandle
      PROVE  /\ issued[x].index \in Index
             /\ \E r \in 0 .. elem'[issued[x].index].reuses :
                  /\ issued[x].serial = (1 + r) % SerialMod
                  /\ r = elem'[issued[x].index].reuses => elem'[issued[x].index].store = x
  <2> DEFINE i == issued[x].index
  <2>1. i \in Index
    BY <1>3 DEF HandlesCounted
  <2>2. PICK r \in 0 .. elem[i].reuses :
          issued[x].serial = (1 + r) % SerialMod /\ (r = elem[i].reuses => elem[i].store = x)
    BY <1>3 DEF HandlesCounted
  <2>3. r \in 0 .. elem'[i].reuses
    BY <1>1, <2>1, <2>2
  <2>4. r = elem'[i].reuses => elem'[i].store = x
    BY <1>1, <2>1, <2>2
  <2> QED BY <2>1, <2>2, <2>3, <2>4
<1> QED BY <1>2, <1>3 DEF HandlesCounted

\* A step that leaves the lists, the elements and the handles alone.
LEMMA NothingMoves ==
  ASSUME ListInv, UNCHANGED <<listVars, issued>>
  PROVE  ListInv'
<1>1. lru' = lru /\ locked' = locked /\ free' = free /\ elem' = elem /\ issued' = issued
  BY DEF listVars
<1>2. ListTypeOK'
  BY <1>1 DEF ListInv, ListTypeOK
<1>3. ListsAgree'
  BY <1>1 DEF ListInv, ListsAgree, Index
<1>4. HandlesCounted'
  BY <1>1 DEF ListInv, HandlesCounted, Index
<1> QED BY <1>2, <1>3, <1>4 DEF ListInv

\* A step that puts elements S on the free list.
Frees(S) ==
  /\ issued' = issued /\ S \subseteq Index /\ S \cap InList(free) = {}
  /\ lru' \in Seq(Nat) /\ locked' \in Seq(Nat) /\ free' \in Seq(Nat)
  /\ Once(lru') /\ Once(locked') /\ Once(free')
  /\ InList(lru') = InList(lru) \ S /\ InList(locked') = InList(locked) \ S
  /\ InList(free') = InList(free) \cup S
  /\ elem' \in Seq(Element) /\ DOMAIN elem' = DOMAIN elem
  /\ \A i \in Index :
       /\ i \notin S => elem'[i] = elem[i]
       /\ i \in S => /\ elem'[i].store = NoItem /\ elem'[i].lockCount = 0
                     /\ elem'[i].reuses = elem[i].reuses + 1
                     /\ elem'[i].reuses < SerialMod

\* It keeps the invariant.
LEMMA FreeingStep ==
  ASSUME ListInv, NEW S, Frees(S)
  PROVE  ListInv'
<1> USE DEF Frees
<1>0. ListTypeOK /\ ListsAgree /\ HandlesCounted
  BY DEF ListInv
<1>1. Index' = Index
  BY DEF Index
<1>2. \A i \in Index : elem[i] \in Element
  BY <1>0, ListsPartition
<1>3. ListTypeOK'
  BY <1>0 DEF ListTypeOK
<1>4. ListsAgree'
  BY <1>0, <1>1 DEF ListsAgree
<1>5. \A i \in Index : elem[i].reuses \in Nat /\ elem[i].reuses < SerialMod
  BY <1>0, <1>2 DEF Element, HandlesCounted
<1>6. HandlesCounted'
  BY <1>0, <1>5, HandlesKept
<1> QED BY <1>3, <1>4, <1>6 DEF ListInv

\* A step that changes lock counts and moves elements between the other lists.
Relinks ==
  /\ issued' = issued /\ free' = free
  /\ lru' \in Seq(Nat) /\ locked' \in Seq(Nat) /\ Once(lru') /\ Once(locked')
  /\ elem' \in Seq(Element) /\ DOMAIN elem' = DOMAIN elem
  /\ \A i \in Index : elem'[i].store = elem[i].store /\ elem'[i].reuses = elem[i].reuses
  /\ \A i \in InList(free) : elem'[i].lockCount = 0
  /\ InList(lru') \cup InList(locked') = InList(lru) \cup InList(locked)
  /\ \A i \in InList(lru') : elem'[i].lockCount = 0
  /\ \A i \in InList(locked') : elem'[i].lockCount > 0

\* It keeps the invariant.
LEMMA RelinkingStep ==
  ASSUME ListInv, Relinks
  PROVE  ListInv'
<1> USE DEF Relinks
<1>0. ListTypeOK /\ ListsAgree /\ HandlesCounted
  BY DEF ListInv
<1>1. Index' = Index
  BY DEF Index
<1>2. \A i \in Index : elem[i] \in Element
  BY <1>0, ListsPartition
<1>3. ListTypeOK'
  BY <1>0 DEF ListTypeOK
<1>4. ListsAgree'
  <2>1. \A i \in Index : elem[i].lockCount \in Nat
    BY <1>2 DEF Element
  <2>2. InList(lru) \cup InList(locked) = {i \in Index : elem[i].store # NoItem}
    BY <1>0, <2>1 DEF ListsAgree
  <2>3. InList(free) = {i \in Index : elem[i].store = NoItem}
    BY <1>0 DEF ListsAgree
  <2>4. InList(lru') \cup InList(locked') = {i \in Index : elem'[i].store # NoItem}
    BY <2>2
  <2>5. \A i \in Index : elem'[i].store = NoItem => elem'[i].lockCount = 0
    BY <2>3
  <2>6. InList(lru') = {i \in Index : elem'[i].store # NoItem /\ elem'[i].lockCount = 0}
    BY <2>4
  <2>7. InList(locked') = {i \in Index : elem'[i].store # NoItem /\ elem'[i].lockCount > 0}
    BY <2>4
  <2>8. InList(free') = {i \in Index : elem'[i].store = NoItem /\ elem'[i].lockCount = 0}
    BY <2>3, <2>5
  <2>9. Once(free')
    BY <1>0 DEF ListsAgree
  <2> QED BY <1>1, <2>5, <2>6, <2>7, <2>8, <2>9 DEF ListsAgree
<1>5. \A i \in Index : elem[i].reuses \in Nat /\ elem[i].reuses < SerialMod
  BY <1>0, <1>2 DEF Element, HandlesCounted
<1>6. HandlesCounted'
  BY <1>0, <1>5, HandlesKept
<1> QED BY <1>3, <1>4, <1>6 DEF ListInv

-----------------------------------------------------------------------------
(* One lemma per operation *)

\* A step that gives element i to resource x, with n locks.
StoresIn(i, x, n) ==
  /\ i \in Nat /\ DOMAIN elem' = Index \cup {i}
  /\ elem'[i].store = x /\ elem'[i].lockCount = n
  /\ i \in Index => elem[i].store = NoItem
  /\ \A j \in Index \ {i} : elem'[j] = elem[j]
  /\ issued' = [issued EXCEPT ![x] = [serial |-> Serial(elem'[i]), index |-> i]]

\* CreateHandle takes a free element or a new one.
LEMMA InsertStep ==
  ASSUME ListInv, NEW t \in Thread, Insert(t), task[t].item \in Item
  PROVE  /\ ListInv'
         /\ StoresIn(NextIndex, task[t].item, IF task[t].lock THEN 1 ELSE 0)
<1> DEFINE x == task[t].item
           i == NextIndex
           e == [NextElement EXCEPT !.store = x,
                                    !.lockCount = IF task[t].lock THEN @ + 1 ELSE @]
<1>0. ListTypeOK /\ ListsAgree /\ HandlesCounted
  BY DEF ListInv
<1>1. NextElement \in Element /\ NextElement.lockCount = 0 /\ NextElement.store = NoItem
      /\ NextElement.reuses < SerialMod
  <2>1. CASE free = <<>>
    BY <2>1, ManagerAssumption DEF NextElement, NewElement, Element
  <2>2. CASE free # <<>>
    <3>1. i \in InList(free) /\ NextElement = elem[i]
      BY <2>2, <1>0, TailList DEF NextElement, NextIndex, ListsAgree, ListTypeOK
    <3>2. i \in Index /\ elem[i] \in Element
      BY <3>1, <1>0, ListsPartition
    <3> QED BY <3>1, <3>2, <1>0 DEF ListsAgree, HandlesCounted
  <2> QED BY <2>1, <2>2
<1>2. /\ e \in Element /\ e.store = x /\ e.reuses = NextElement.reuses
      /\ e.lockCount = IF task[t].lock THEN 1 ELSE 0
  <2> DEFINE c == IF task[t].lock THEN 1 ELSE 0
  <2> HIDE DEF x
  <2>1. x \in Item /\ c \in Nat
    BY DEF x
  <2>2. c = IF task[t].lock THEN NextElement.lockCount + 1 ELSE NextElement.lockCount
    BY <1>1
  <2>3. e = [NextElement EXCEPT !.store = x, !.lockCount = c]
    BY <2>2
  <2> HIDE DEF e, c
  <2>4. e \in Element /\ e.store = x /\ e.lockCount = c /\ e.reuses = NextElement.reuses
    BY <1>1, <2>1, <2>3 DEF Element
  <2> QED BY <2>4 DEF c
<1>3. /\ elem' = IF free = <<>> THEN Append(elem, e) ELSE [elem EXCEPT ![i] = e]
      /\ free' = IF free = <<>> THEN free ELSE Tail(free)
      /\ locked' = IF task[t].lock THEN Append(locked, i) ELSE locked
      /\ lru' = IF task[t].lock THEN lru ELSE Append(lru, i)
      /\ issued' = [issued EXCEPT ![x] = [serial |-> Serial(e), index |-> i]]
  BY DEF Insert
<1> HIDE DEF e, x
<1>4. /\ i \in Nat /\ i \notin InList(lru) \cup InList(locked)
      /\ elem' \in Seq(Element) /\ DOMAIN elem' = Index \cup {i} /\ elem'[i] = e
      /\ \A j \in Index \ {i} : elem'[j] = elem[j]
      /\ free' \in Seq(Nat) /\ Once(free') /\ InList(free') = InList(free) \ {i}
      /\ i \in Index => elem[i].store = NoItem /\ elem[i].reuses = e.reuses
  <2>0. elem \in Seq(Element) /\ Index = 1 .. Len(elem) /\ Len(elem) \in Nat
    BY <1>0, ListsPartition DEF ListTypeOK
  <2>1. CASE free = <<>>
    <3>1. i = Len(elem) + 1
      BY <2>1 DEF NextIndex
    <3>2. elem' = Append(elem, e)
      BY <1>3, <2>1
    <3>3. elem' \in Seq(Element) /\ DOMAIN elem' = 1 .. Len(elem) + 1
          /\ elem'[i] = e /\ \A j \in 1 .. Len(elem) : elem'[j] = elem[j]
      BY <1>2, <2>0, <3>1, <3>2
    <3>4. i \in Nat /\ i \notin Index /\ 1 .. Len(elem) + 1 = Index \cup {i}
      BY <2>0, <3>1
    <3>5. free' = free
      BY <1>3, <2>1
    <3>6. InList(lru) \subseteq Index /\ InList(locked) \subseteq Index
          /\ InList(free) \subseteq Index
      BY <1>0, ListsPartition
    <3> QED BY <1>0, <2>0, <3>3, <3>4, <3>5, <3>6 DEF ListTypeOK, ListsAgree
  <2>2. CASE free # <<>>
    <3>1. i = Head(free) /\ NextElement = elem[i]
      BY <2>2 DEF NextIndex, NextElement
    <3>2. /\ free' \in Seq(Nat) /\ Once(free') /\ InList(free') = InList(free) \ {i}
          /\ i \in InList(free)
      BY <1>0, <1>3, <2>2, <3>1, TailList DEF ListTypeOK, ListsAgree
    <3>3. i \in Index /\ i \notin InList(lru) \cup InList(locked)
      BY <1>0, <3>2, ListsPartition
    <3>4. elem' = [elem EXCEPT ![i] = e]
      BY <1>3, <2>2
    <3>5. elem' \in Seq(Element) /\ DOMAIN elem' = Index /\ elem'[i] = e
          /\ \A j \in Index \ {i} : elem'[j] = elem[j]
      BY <1>2, <2>0, <3>3, <3>4
    <3> QED BY <1>1, <1>2, <2>0, <3>1, <3>2, <3>3, <3>5
  <2> QED BY <2>1, <2>2
<1> HIDE DEF i
<1>5. /\ lru' \in Seq(Nat) /\ Once(lru')
      /\ InList(lru') = IF task[t].lock THEN InList(lru) ELSE InList(lru) \cup {i}
      /\ locked' \in Seq(Nat) /\ Once(locked')
      /\ InList(locked') = IF task[t].lock THEN InList(locked) \cup {i} ELSE InList(locked)
  <2>1. lru \in Seq(Nat) /\ locked \in Seq(Nat) /\ Once(lru) /\ Once(locked)
    BY <1>0 DEF ListTypeOK, ListsAgree
  <2>2. CASE task[t].lock
    BY <2>1, <2>2, <1>3, <1>4, AppendList
  <2>3. CASE ~task[t].lock
    BY <2>1, <2>3, <1>3, <1>4, AppendList
  <2> QED BY <2>2, <2>3
<1>6. x \in Item /\ x # NoItem
  BY ManagerAssumption DEF x
<1>7. Index' = Index \cup {i}
  BY <1>4 DEF Index
<1>8. ListTypeOK'
  <2>1. e.reuses \in Nat /\ Serial(e) \in Nat
    BY <1>2, ManagerAssumption DEF Element, Serial
  <2>2. issued' \in [Item -> Handle]
    BY <1>0, <1>3, <1>4, <1>6, <2>1 DEF ListTypeOK, Handle
  <2> QED BY <1>4, <1>5, <2>2 DEF ListTypeOK
<1>9. ListsAgree'
  <2>1. \A j \in Index \cup {i} : elem'[j] = IF j = i THEN e ELSE elem[j]
    BY <1>4
  <2>2. e.store # NoItem /\ e.lockCount = IF task[t].lock THEN 1 ELSE 0
    BY <1>2, <1>6
  <2>3. InList(lru') = {j \in Index' : elem'[j].store # NoItem /\ elem'[j].lockCount = 0}
    BY <1>0, <1>4, <1>5, <1>7, <2>1, <2>2 DEF ListsAgree
  <2>4. InList(locked') = {j \in Index' : elem'[j].store # NoItem /\ elem'[j].lockCount > 0}
    BY <1>0, <1>4, <1>5, <1>7, <2>1, <2>2 DEF ListsAgree
  <2>5. InList(free') = {j \in Index' : elem'[j].store = NoItem /\ elem'[j].lockCount = 0}
    BY <1>0, <1>4, <1>7, <2>1, <2>2 DEF ListsAgree
  <2>6. \A j \in Index' : elem'[j].store = NoItem => elem'[j].lockCount = 0
    BY <1>0, <1>7, <2>1, <2>2 DEF ListsAgree
  <2> QED BY <1>4, <1>5, <2>3, <2>4, <2>5, <2>6 DEF ListsAgree
<1>10. HandlesCounted'
  <2>1. \A j \in Index' : elem'[j].reuses < SerialMod
    BY <1>0, <1>1, <1>2, <1>4, <1>7 DEF HandlesCounted
  <2>2. ASSUME NEW y \in Item, issued'[y] # NoHandle
        PROVE  /\ issued'[y].index \in Index'
               /\ \E r \in 0 .. elem'[issued'[y].index].reuses :
                    /\ issued'[y].serial = (1 + r) % SerialMod
                    /\ r = elem'[issued'[y].index].reuses => elem'[issued'[y].index].store = y
    <3>1. CASE y = x
      <4>1. issued'[y] = [serial |-> Serial(e), index |-> i]
        BY <1>0, <1>3, <1>6, <3>1 DEF ListTypeOK
      <4>2. e.reuses \in 0 .. e.reuses
        BY <1>2 DEF Element
      <4> QED BY <1>2, <1>4, <1>7, <3>1, <4>1, <4>2 DEF Serial
    <3>2. CASE y # x
      <4>1. issued'[y] = issued[y]
        BY <1>0, <1>3, <3>2 DEF ListTypeOK
      <4> DEFINE k == issued[y].index
      <4>2. k \in Index
        BY <2>2, <4>1, <1>0 DEF HandlesCounted
      <4>3. PICK r \in 0 .. elem[k].reuses :
              issued[y].serial = (1 + r) % SerialMod /\ (r = elem[k].reuses => elem[k].store = y)
        BY <2>2, <4>1, <1>0 DEF HandlesCounted
      <4>4. elem'[k].reuses = elem[k].reuses
        BY <1>4, <4>2
      <4>5. y # NoItem
        BY ManagerAssumption
      <4>6. r = elem[k].reuses => elem'[k].store = y
        BY <1>4, <4>2, <4>3, <4>5
      <4> QED BY <1>7, <4>1, <4>2, <4>3, <4>4, <4>6
    <3> QED BY <3>1, <3>2
  <2> QED BY <2>1, <2>2 DEF HandlesCounted
<1>11. StoresIn(i, x, IF task[t].lock THEN 1 ELSE 0)
  BY <1>2, <1>3, <1>4 DEF StoresIn
<1> QED BY <1>8, <1>9, <1>10, <1>11 DEF ListInv, i, x

\* Evict moves the head of the LRU list to the free list.
LEMMA EvictStep ==
  ASSUME ListInv, NEW t \in Thread, Evict(t)
  PROVE  IF lru = <<>> THEN UNCHANGED <<listVars, issued>> ELSE Frees({Head(lru)})
<1>0. ListTypeOK /\ ListsAgree
  BY DEF ListInv
<1>1. CASE lru = <<>>
  BY <1>1 DEF Evict, listVars, historyVars
<1>2. CASE lru # <<>>
  <2> DEFINE victim == <<Head(lru)>>
             S == {Head(lru)}
  <2>1. /\ MayFree(victim) /\ lru' = Tail(lru) /\ free' = free \o victim
        /\ elem' = Freed(elem, victim) /\ locked' = locked /\ issued' = issued
    BY <1>2 DEF Evict, historyVars
  <2>2. /\ lru' \in Seq(Nat) /\ Once(lru') /\ Head(lru) \in InList(lru)
        /\ InList(lru') = InList(lru) \ S
    BY <1>0, <1>2, <2>1, TailList DEF ListTypeOK, ListsAgree
  <2>3. Head(lru) \in Nat
    BY <1>0, <2>2, ListsPartition
  <2>4. victim \in Seq(Nat) /\ Once(victim) /\ InList(victim) = S
    BY <2>3, SingleList
  <2>5. S \subseteq Index /\ S \cap InList(free) = {} /\ InList(locked) = InList(locked) \ S
    BY <1>0, <2>2, ListsPartition
  <2> HIDE DEF victim, S
  <2>6. free' \in Seq(Nat) /\ Once(free') /\ InList(free') = InList(free) \cup S
    BY <1>0, <2>1, <2>4, <2>5, ConcatList DEF ListTypeOK, ListsAgree
  <2>7. elem \in Seq(Element) /\ Index = DOMAIN elem
    BY <1>0 DEF ListTypeOK, Index
  <2>8. elem' \in Seq(Element) /\ DOMAIN elem' = DOMAIN elem
    BY <2>1, <2>7, FreedElements
  <2>9. \A i \in Index :
          /\ i \notin S => elem'[i] = elem[i]
          /\ i \in S => /\ elem'[i].store = NoItem /\ elem'[i].lockCount = 0
                        /\ elem'[i].reuses = elem[i].reuses + 1
                        /\ elem'[i].reuses < SerialMod
    <3>1. \A i \in Index :
            /\ i \notin S => elem'[i] = elem[i]
            /\ i \in S => /\ elem'[i].store = NoItem
                          /\ elem'[i].reuses = elem[i].reuses + 1
                          /\ elem'[i].lockCount = elem[i].lockCount
      BY <2>1, <2>4, <2>7, FreedElements
    <3>2. \A i \in S : elem[i].lockCount = 0 /\ elem[i].reuses + 1 < SerialMod
      BY <1>0, <2>1, <2>2, <2>4 DEF ListsAgree, MayFree, S
    <3> QED BY <3>1, <3>2
  <2>10. locked' \in Seq(Nat) /\ Once(locked') /\ InList(locked') = InList(locked) \ S
    BY <1>0, <2>1, <2>5 DEF ListTypeOK, ListsAgree
  <2> QED BY <2>1, <2>2, <2>5, <2>6, <2>8, <2>9, <2>10, <1>2 DEF S, Frees
<1> QED BY <1>1, <1>2

\* A lock takes the element off the LRU list if it is the first.
LEMMA LockStep ==
  ASSUME ListInv, NEW t \in Thread, NEW x \in Item, LockResource(t, x)
  PROVE  Relinks /\ CountedTo(elem, Found(x), elem[Found(x)].lockCount + 1, elem')
<1> DEFINE i == Found(x)
<1>0. ListTypeOK /\ ListsAgree
  BY DEF ListInv
<1>1. /\ elem' = [elem EXCEPT ![i].lockCount = @ + 1]
      /\ IF elem[i].lockCount = 0
         THEN lru' = Unlinked(lru, i) /\ locked' = Append(locked, i)
         ELSE UNCHANGED <<lru, locked>>
      /\ free' = free /\ issued' = issued
  BY DEF LockResource
<1>2. i \in Index /\ elem[i] \in Element /\ elem[i].store # NoItem
  <2>1. Found(x) # NoIndex
    BY DEF LockResource, IsFound
  <2> QED BY <2>1, FoundHolds, ManagerAssumption
<1> HIDE DEF i
<1>3. elem \in Seq(Element) /\ Index = DOMAIN elem /\ elem[i].lockCount \in Nat
      /\ elem[i].lockCount + 1 \in Nat
  BY <1>0, <1>2 DEF ListTypeOK, Index, Element
<1>4. /\ elem' \in Seq(Element) /\ DOMAIN elem' = DOMAIN elem
      /\ elem'[i].lockCount = elem[i].lockCount + 1
      /\ \A j \in Index : j # i => elem'[j] = elem[j]
      /\ \A j \in Index : elem'[j].store = elem[j].store /\ elem'[j].reuses = elem[j].reuses
  <2>1. CountedTo(elem, i, elem[i].lockCount + 1, elem')
    BY <1>1, <1>2, <1>3, CountedElement
  <2> QED BY <2>1, <1>3 DEF CountedTo
<1>5. i \notin InList(free)
  BY <1>0, <1>2 DEF ListsAgree
<1>6. \A j \in InList(free) : elem'[j].lockCount = 0
  BY <1>0, <1>4, <1>5, ListsPartition DEF ListsAgree
<1>7. \A j \in InList(lru) : elem[j].lockCount = 0 /\ j \in Index
  BY <1>0, ListsPartition DEF ListsAgree
<1>8. \A j \in InList(locked) : elem[j].lockCount > 0 /\ j \in Index
  BY <1>0, ListsPartition DEF ListsAgree
<1>9. ASSUME elem[i].lockCount = 0 PROVE Relinks
  <2>1. i \in InList(lru) /\ i \notin InList(locked) /\ i \in Nat
    BY <1>0, <1>2, <1>9, ListsPartition DEF ListsAgree
  <2>6. lru' = Unlinked(lru, i) /\ locked' = Append(locked, i)
    BY <1>1, <1>9
  <2>2. lru' \in Seq(Nat) /\ Once(lru') /\ InList(lru') = InList(lru) \ {i}
    BY <1>0, <2>1, <2>6, UnlinkedList DEF ListTypeOK, ListsAgree
  <2>3. locked' \in Seq(Nat) /\ Once(locked') /\ InList(locked') = InList(locked) \cup {i}
    BY <1>0, <2>1, <2>6, AppendList DEF ListTypeOK, ListsAgree
  <2>4. \A j \in InList(lru') : elem'[j].lockCount = 0
    BY <1>4, <1>7, <1>8, <1>9, <2>2
  <2>5. \A j \in InList(locked') : elem'[j].lockCount > 0
    BY <1>4, <1>7, <1>8, <1>9, <2>1, <2>3
  <2>7. InList(lru') \cup InList(locked') = InList(lru) \cup InList(locked)
    BY <2>1, <2>2, <2>3
  <2> QED BY <1>1, <1>3, <1>4, <1>6, <2>2, <2>3, <2>4, <2>5, <2>7 DEF Relinks
<1>10. ASSUME elem[i].lockCount # 0 PROVE Relinks
  <2>1. i \in InList(locked) /\ i \notin InList(lru)
    BY <1>0, <1>2, <1>3, <1>10 DEF ListsAgree
  <2>2. lru' = lru /\ locked' = locked
    BY <1>1, <1>10
  <2>3. \A j \in InList(lru') : elem'[j].lockCount = 0
    BY <1>3, <1>4, <1>7, <1>8, <2>1, <2>2
  <2>4. \A j \in InList(locked') : elem'[j].lockCount > 0
    BY <1>3, <1>4, <1>7, <1>8, <2>1, <2>2
  <2>5. lru' \in Seq(Nat) /\ locked' \in Seq(Nat) /\ Once(lru') /\ Once(locked')
    BY <1>0, <2>2 DEF ListTypeOK, ListsAgree
  <2>6. InList(lru') \cup InList(locked') = InList(lru) \cup InList(locked)
    BY <2>2
  <2> QED BY <1>1, <1>3, <1>4, <1>6, <2>3, <2>4, <2>5, <2>6 DEF Relinks
<1>11. Relinks
  BY <1>9, <1>10
<1>12. CountedTo(elem, i, elem[i].lockCount + 1, elem')
  BY <1>3, <1>4 DEF CountedTo
<1> QED BY <1>11, <1>12 DEF i

\* The last unlock puts the element at the end of the LRU list.
LEMMA UnlockStep ==
  ASSUME ListInv, NEW t \in Thread, NEW x \in Item, UnlockResource(t, x)
  PROVE  IF Found(x) # NoIndex /\ elem[Found(x)].lockCount > 0
         THEN Relinks /\ CountedTo(elem, Found(x), elem[Found(x)].lockCount - 1, elem')
         ELSE UNCHANGED <<listVars, issued>>
<1> DEFINE i == Found(x)
<1>0. ListTypeOK /\ ListsAgree
  BY DEF ListInv
<1>1. CASE ~(i # NoIndex /\ elem[i].lockCount > 0)
  BY <1>1 DEF UnlockResource, listVars
<1>2. CASE i # NoIndex /\ elem[i].lockCount > 0
  <2>1. /\ elem' = [elem EXCEPT ![i].lockCount = @ - 1]
        /\ IF elem[i].lockCount = 1
           THEN locked' = Unlinked(locked, i) /\ lru' = Append(lru, i)
           ELSE UNCHANGED <<lru, locked>>
        /\ free' = free /\ issued' = issued
    BY <1>2 DEF UnlockResource
  <2>2. i \in Index /\ elem[i] \in Element /\ elem[i].store # NoItem
    BY <1>2, FoundHolds, ManagerAssumption
  <2> HIDE DEF i
  <2>3. elem \in Seq(Element) /\ Index = DOMAIN elem /\ elem[i].lockCount \in Nat
        /\ elem[i].lockCount - 1 \in Nat
    BY <1>0, <1>2, <2>2 DEF ListTypeOK, Index, Element
  <2>4. /\ elem' \in Seq(Element) /\ DOMAIN elem' = DOMAIN elem
        /\ elem'[i].lockCount = elem[i].lockCount - 1
        /\ \A j \in Index : j # i => elem'[j] = elem[j]
        /\ \A j \in Index : elem'[j].store = elem[j].store /\ elem'[j].reuses = elem[j].reuses
    <3>1. CountedTo(elem, i, elem[i].lockCount - 1, elem')
      BY <2>1, <2>2, <2>3, CountedElement
    <3> QED BY <3>1, <2>3 DEF CountedTo
  <2>5. i \in InList(locked) /\ i \notin InList(lru) /\ i \notin InList(free) /\ i \in Nat
    BY <1>0, <1>2, <2>2, ListsPartition DEF ListsAgree
  <2>6. \A j \in InList(free) : elem'[j].lockCount = 0
    BY <1>0, <2>4, <2>5, ListsPartition DEF ListsAgree
  <2>7. \A j \in InList(lru) : elem[j].lockCount = 0 /\ j \in Index
    BY <1>0, ListsPartition DEF ListsAgree
  <2>8. \A j \in InList(locked) : elem[j].lockCount > 0 /\ j \in Index
    BY <1>0, ListsPartition DEF ListsAgree
  <2>9. ASSUME elem[i].lockCount = 1 PROVE Relinks
    <3>5. locked' = Unlinked(locked, i) /\ lru' = Append(lru, i)
      BY <2>1, <2>9
    <3>1. locked' \in Seq(Nat) /\ Once(locked') /\ InList(locked') = InList(locked) \ {i}
      BY <1>0, <3>5, <2>5, UnlinkedList DEF ListTypeOK, ListsAgree
    <3>2. lru' \in Seq(Nat) /\ Once(lru') /\ InList(lru') = InList(lru) \cup {i}
      BY <1>0, <3>5, <2>5, AppendList DEF ListTypeOK, ListsAgree
    <3>3. \A j \in InList(lru') : elem'[j].lockCount = 0
      BY <2>4, <2>5, <2>7, <2>8, <2>9, <3>2
    <3>4. \A j \in InList(locked') : elem'[j].lockCount > 0
      BY <2>4, <2>5, <2>7, <2>8, <2>9, <3>1
    <3>6. InList(lru') \cup InList(locked') = InList(lru) \cup InList(locked)
      BY <2>5, <3>1, <3>2
    <3> QED BY <2>1, <2>3, <2>4, <2>6, <3>1, <3>2, <3>3, <3>4, <3>6 DEF Relinks
  <2>10. ASSUME elem[i].lockCount # 1 PROVE Relinks
    <3>1. lru' = lru /\ locked' = locked
      BY <2>1, <2>10
    <3>2. elem'[i].lockCount > 0
      BY <1>2, <2>3, <2>4, <2>10
    <3>3. \A j \in InList(lru') : elem'[j].lockCount = 0
      BY <2>4, <2>5, <2>7, <2>8, <3>1, <3>2
    <3>4. \A j \in InList(locked') : elem'[j].lockCount > 0
      BY <2>4, <2>5, <2>7, <2>8, <3>1, <3>2
    <3>5. lru' \in Seq(Nat) /\ locked' \in Seq(Nat) /\ Once(lru') /\ Once(locked')
      BY <1>0, <3>1 DEF ListTypeOK, ListsAgree
    <3>6. InList(lru') \cup InList(locked') = InList(lru) \cup InList(locked)
      BY <3>1
    <3> QED BY <2>1, <2>3, <2>4, <2>6, <3>3, <3>4, <3>5, <3>6 DEF Relinks
  <2>11. Relinks
    BY <2>9, <2>10
  <2>12. CountedTo(elem, i, elem[i].lockCount - 1, elem')
    BY <2>3, <2>4 DEF CountedTo
  <2> QED BY <1>2, <2>11, <2>12 DEF i
<1> QED BY <1>1, <1>2

\* BreakLock does what the last unlock does.
LEMMA BreakLockStep ==
  ASSUME ListInv, NEW t \in Thread, NEW x \in Item, BreakLock(t, x)
  PROVE  Relinks /\ CountedTo(elem, Found(x), 0, elem')
<1> DEFINE i == Found(x)
<1>0. ListTypeOK /\ ListsAgree
  BY DEF ListInv
<1>1. /\ elem' = Broken(elem, <<i>>) /\ locked' = Unlinked(locked, i) /\ lru' = Append(lru, i)
      /\ free' = free /\ issued' = issued /\ elem[i].lockCount > 0
  BY DEF BreakLock
<1>2. i \in Index /\ elem[i] \in Element /\ elem[i].store # NoItem
  <2>1. Found(x) # NoIndex
    BY DEF BreakLock, IsFound
  <2> QED BY <2>1, FoundHolds, ManagerAssumption
<1> HIDE DEF i
<1>3. i \in InList(locked) /\ i \notin InList(lru) /\ i \notin InList(free) /\ i \in Nat
  BY <1>0, <1>1, <1>2, ListsPartition DEF ListsAgree
<1>4. InList(<<i>>) = {i}
  BY <1>3, SingleList
<1>5. elem \in Seq(Element) /\ Index = DOMAIN elem
  BY <1>0 DEF ListTypeOK, Index
<1>6. /\ elem' \in Seq(Element) /\ DOMAIN elem' = DOMAIN elem
      /\ \A j \in Index : j # i => elem'[j] = elem[j]
      /\ elem'[i].lockCount = 0
      /\ \A j \in Index : elem'[j].store = elem[j].store /\ elem'[j].reuses = elem[j].reuses
  <2>1. /\ elem' \in Seq(Element) /\ DOMAIN elem' = DOMAIN elem
        /\ \A j \in Index :
             /\ j \notin {i} => elem'[j] = elem[j]
             /\ j \in {i} => /\ elem'[j].store = elem[j].store
                             /\ elem'[j].reuses = elem[j].reuses
                             /\ elem'[j].lockCount = 0
    BY <1>1, <1>4, <1>5, BrokenElements
  <2> QED BY <2>1, <1>2
<1>7. \A j \in InList(free) : elem'[j].lockCount = 0
  BY <1>0, <1>3, <1>6, ListsPartition DEF ListsAgree
<1>8. \A j \in InList(lru) : elem[j].lockCount = 0 /\ j \in Index
  BY <1>0, ListsPartition DEF ListsAgree
<1>9. \A j \in InList(locked) : elem[j].lockCount > 0 /\ j \in Index
  BY <1>0, ListsPartition DEF ListsAgree
<1>10. locked' \in Seq(Nat) /\ Once(locked') /\ InList(locked') = InList(locked) \ {i}
  BY <1>0, <1>1, <1>3, UnlinkedList DEF ListTypeOK, ListsAgree
<1>11. lru' \in Seq(Nat) /\ Once(lru') /\ InList(lru') = InList(lru) \cup {i}
  BY <1>0, <1>1, <1>3, AppendList DEF ListTypeOK, ListsAgree
<1>12. InList(lru') \cup InList(locked') = InList(lru) \cup InList(locked)
  BY <1>3, <1>10, <1>11
<1>13. \A j \in InList(lru') : elem'[j].lockCount = 0
  BY <1>6, <1>8, <1>11
<1>14. \A j \in InList(locked') : elem'[j].lockCount > 0
  BY <1>6, <1>9, <1>10
<1>15. Relinks
  BY <1>1, <1>5, <1>6, <1>7, <1>10, <1>11, <1>12, <1>13, <1>14 DEF Relinks
<1>16. CountedTo(elem, i, 0, elem')
  BY <1>5, <1>6 DEF CountedTo
<1> QED BY <1>15, <1>16 DEF i

\* BreakAllLocks moves the whole lock list.
LEMMA BreakAllLocksStep ==
  ASSUME ListInv, NEW t \in Thread, BreakAllLocks(t)
  PROVE  Relinks /\ \A i \in Index : elem'[i].lockCount = 0
<1>0. ListTypeOK /\ ListsAgree
  BY DEF ListInv
<1>1. /\ elem' = Broken(elem, locked) /\ locked' = <<>> /\ lru' = lru \o locked
      /\ free' = free /\ issued' = issued
  BY DEF BreakAllLocks
<1>2. elem \in Seq(Element) /\ Index = DOMAIN elem
  BY <1>0 DEF ListTypeOK, Index
<1>3. /\ elem' \in Seq(Element) /\ DOMAIN elem' = DOMAIN elem
      /\ \A j \in Index :
           /\ j \notin InList(locked) => elem'[j] = elem[j]
           /\ j \in InList(locked) => /\ elem'[j].store = elem[j].store
                                      /\ elem'[j].reuses = elem[j].reuses
                                      /\ elem'[j].lockCount = 0
  BY <1>1, <1>2, BrokenElements
<1>4. \A j \in InList(lru) \cup InList(free) : elem[j].lockCount = 0 /\ j \in Index
  BY <1>0, ListsPartition DEF ListsAgree
<1>5. InList(locked) \subseteq Index
  BY <1>0, ListsPartition
<1>6. \A j \in InList(lru) \cup InList(locked) \cup InList(free) : elem'[j].lockCount = 0
  BY <1>3, <1>4, <1>5
<1>7. lru' \in Seq(Nat) /\ Once(lru') /\ InList(lru') = InList(lru) \cup InList(locked)
  BY <1>0, <1>1, ConcatList, ListsPartition DEF ListTypeOK, ListsAgree
<1>8. locked' \in Seq(Nat) /\ Once(locked') /\ InList(locked') = {}
  BY <1>1, EmptyList
<1>9. \A j \in Index : elem'[j].store = elem[j].store /\ elem'[j].reuses = elem[j].reuses
  BY <1>3
<1>10. Relinks
  BY <1>1, <1>3, <1>6, <1>7, <1>8, <1>9 DEF Relinks
<1>11. Index \subseteq InList(lru) \cup InList(locked) \cup InList(free)
  BY <1>0, ListsPartition DEF ListsAgree, Element
<1> QED BY <1>6, <1>10, <1>11

\* A touched element moves to the end of the LRU list, a stale one to its head.
LEMMA TouchStep ==
  ASSUME ListInv, NEW t \in Thread, NEW x \in Item, TouchResource(t, x) \/ MarkAsStale(t, x)
  PROVE  Relinks /\ elem' = elem
<1> DEFINE i == Found(x)
           rest == Unlinked(lru, i)
<1>0. ListTypeOK /\ ListsAgree
  BY DEF ListInv
<1>1. /\ lru' = Append(rest, i) \/ lru' = <<i>> \o rest
      /\ locked' = locked /\ free' = free /\ elem' = elem /\ issued' = issued
      /\ Found(x) # NoIndex /\ elem[i].lockCount = 0
  BY DEF TouchResource, MarkAsStale, historyVars, IsFound
<1>2. i \in Index /\ elem[i].store # NoItem
  BY <1>1, FoundHolds, ManagerAssumption
<1> HIDE DEF i
<1>3. i \in InList(lru) /\ i \in Nat
  BY <1>0, <1>1, <1>2, ListsPartition DEF ListsAgree
<1>4. rest \in Seq(Nat) /\ Once(rest) /\ InList(rest) = InList(lru) \ {i}
  BY <1>0, <1>3, UnlinkedList DEF ListTypeOK, ListsAgree
<1> HIDE DEF rest
<1>5. lru' \in Seq(Nat) /\ Once(lru') /\ InList(lru') = InList(lru)
  <2>0. i \notin InList(rest) /\ InList(rest) \cup {i} = InList(lru)
    BY <1>3, <1>4
  <2>1. CASE lru' = Append(rest, i)
    <3>1. /\ Append(rest, i) \in Seq(Nat) /\ Once(Append(rest, i))
          /\ InList(Append(rest, i)) = InList(rest) \cup {i}
      BY <1>3, <1>4, <2>0, AppendList
    <3> QED BY <2>0, <2>1, <3>1
  <2>2. CASE lru' = <<i>> \o rest
    <3>1. <<i>> \in Seq(Nat) /\ Once(<<i>>) /\ InList(<<i>>) = {i}
      BY <1>3, SingleList
    <3>2. InList(<<i>>) \cap InList(rest) = {}
      BY <2>0, <3>1
    <3>3. /\ <<i>> \o rest \in Seq(Nat) /\ Once(<<i>> \o rest)
          /\ InList(<<i>> \o rest) = InList(<<i>>) \cup InList(rest)
      BY <1>4, <3>1, <3>2, ConcatList
    <3>4. InList(lru') = {i} \cup InList(rest)
      BY <2>2, <3>1, <3>3
    <3> QED BY <2>0, <2>2, <3>3, <3>4
  <2> QED BY <1>1, <2>1, <2>2
<1>6. locked' \in Seq(Nat) /\ Once(locked') /\ InList(locked') = InList(locked)
  BY <1>0, <1>1 DEF ListTypeOK, ListsAgree
<1>7. \A j \in InList(free) \cup InList(lru') : elem'[j].lockCount = 0
  BY <1>0, <1>1, <1>5 DEF ListsAgree
<1>8. \A j \in InList(locked') : elem'[j].lockCount > 0
  BY <1>0, <1>1, <1>6 DEF ListsAgree
<1>9. elem' \in Seq(Element) /\ DOMAIN elem' = DOMAIN elem
  BY <1>0, <1>1 DEF ListTypeOK
<1> QED BY <1>1, <1>5, <1>6, <1>7, <1>8, <1>9 DEF Relinks

\* DestroyResource takes the element from the list it is on, locked or not.
LEMMA DestroyResourceStep ==
  ASSUME ListInv, NEW t \in Thread, NEW x \in Item, DestroyResource(t, x)
  PROVE  Frees({Found(x)})
<1> DEFINE i == Found(x)
           broken == Broken(elem, <<i>>)
<1>0. ListTypeOK /\ ListsAgree
  BY DEF ListInv
<1>1. /\ MayFree(<<i>>) /\ elem' = Freed(broken, <<i>>) /\ free' = Append(free, i)
      /\ IF elem[i].lockCount > 0 THEN locked' = Unlinked(locked, i) /\ lru' = lru
                                  ELSE lru' = Unlinked(lru, i) /\ locked' = locked
      /\ issued' = issued
  BY DEF DestroyResource
<1>2. i \in Index /\ elem[i] \in Element /\ elem[i].store # NoItem
  <2>1. Found(x) # NoIndex
    BY DEF DestroyResource, IsFound
  <2> QED BY <2>1, FoundHolds, ManagerAssumption
<1> HIDE DEF i
<1>3. elem \in Seq(Element) /\ Index = DOMAIN elem /\ elem[i].lockCount \in Nat
  BY <1>0, <1>2 DEF ListTypeOK, Index, Element
<1>4. i \notin InList(free) /\ i \in Nat
  BY <1>0, <1>2, ListsPartition DEF ListsAgree
<1>5. InList(<<i>>) = {i}
  BY <1>4, SingleList
<1>6. /\ broken \in Seq(Element) /\ DOMAIN broken = Index
      /\ \A j \in Index : j # i => broken[j] = elem[j]
      /\ broken[i].lockCount = 0 /\ broken[i].reuses = elem[i].reuses
  BY <1>2, <1>3, <1>5, BrokenElements
<1> HIDE DEF broken
<1>7. /\ elem' \in Seq(Element) /\ DOMAIN elem' = DOMAIN elem
      /\ \A j \in Index : j # i => elem'[j] = broken[j]
      /\ elem'[i].store = NoItem /\ elem'[i].reuses = broken[i].reuses + 1
      /\ elem'[i].lockCount = broken[i].lockCount
  BY <1>1, <1>2, <1>3, <1>5, <1>6, FreedElements
<1>8. elem[i].reuses + 1 < SerialMod
  BY <1>1, <1>5 DEF MayFree
<1>9. free' \in Seq(Nat) /\ Once(free') /\ InList(free') = InList(free) \cup {i}
  BY <1>0, <1>1, <1>4, AppendList DEF ListTypeOK, ListsAgree
<1>10. /\ lru' \in Seq(Nat) /\ Once(lru') /\ InList(lru') = InList(lru) \ {i}
       /\ locked' \in Seq(Nat) /\ Once(locked') /\ InList(locked') = InList(locked) \ {i}
  <2>0. lru \in Seq(Nat) /\ Once(lru) /\ locked \in Seq(Nat) /\ Once(locked)
    BY <1>0 DEF ListTypeOK, ListsAgree
  <2>1. CASE elem[i].lockCount > 0
    <3>1. i \in InList(locked) /\ i \notin InList(lru)
      BY <1>0, <1>2, <2>1 DEF ListsAgree
    <3>2. locked' = Unlinked(locked, i) /\ lru' = lru
      BY <1>1, <2>1
    <3> QED BY <2>0, <3>1, <3>2, UnlinkedList
  <2>2. CASE elem[i].lockCount = 0
    <3>1. i \in InList(lru) /\ i \notin InList(locked)
      BY <1>0, <1>2, <2>2 DEF ListsAgree
    <3>2. lru' = Unlinked(lru, i) /\ locked' = locked
      BY <1>1, <2>2
    <3> QED BY <2>0, <3>1, <3>2, UnlinkedList
  <2> QED BY <2>1, <2>2, <1>3
<1>11. \A j \in Index :
         /\ j \notin {i} => elem'[j] = elem[j]
         /\ j \in {i} => /\ elem'[j].store = NoItem /\ elem'[j].lockCount = 0
                         /\ elem'[j].reuses = elem[j].reuses + 1
                         /\ elem'[j].reuses < SerialMod
  BY <1>6, <1>7, <1>8
<1>12. {i} \subseteq Index /\ {i} \cap InList(free) = {}
  BY <1>2, <1>4
<1>13. Frees({i})
  BY <1>1, <1>7, <1>9, <1>10, <1>11, <1>12 DEF Frees
<1> QED BY <1>13 DEF i

\* FlushAllUnlocked frees the LRU list.
LEMMA FlushAllUnlockedStep ==
  ASSUME ListInv, NEW t \in Thread, FlushAllUnlocked(t)
  PROVE  Frees(InList(lru))
<1> DEFINE S == InList(lru)
<1>0. ListTypeOK /\ ListsAgree
  BY DEF ListInv
<1>1. /\ MayFree(lru) /\ lru' = <<>> /\ free' = free \o lru /\ elem' = Freed(elem, lru)
      /\ locked' = locked /\ issued' = issued
  BY DEF FlushAllUnlocked, historyVars
<1>2. elem \in Seq(Element) /\ Index = DOMAIN elem
  BY <1>0 DEF ListTypeOK, Index
<1>3. S \subseteq Index /\ S \cap InList(free) = {} /\ InList(locked) = InList(locked) \ S
  BY <1>0, ListsPartition
<1>4. /\ elem' \in Seq(Element) /\ DOMAIN elem' = DOMAIN elem
      /\ \A j \in Index :
           /\ j \notin S => elem'[j] = elem[j]
           /\ j \in S => /\ elem'[j].store = NoItem
                         /\ elem'[j].reuses = elem[j].reuses + 1
                         /\ elem'[j].lockCount = elem[j].lockCount
  BY <1>1, <1>2, FreedElements
<1>5. \A j \in S : elem[j].lockCount = 0 /\ elem[j].reuses + 1 < SerialMod
  BY <1>0, <1>1 DEF MayFree, ListsAgree
<1>6. free' \in Seq(Nat) /\ Once(free') /\ InList(free') = InList(free) \cup S
  BY <1>0, <1>1, <1>3, ConcatList DEF ListTypeOK, ListsAgree
<1>7. lru' \in Seq(Nat) /\ Once(lru') /\ InList(lru') = S \ S
  BY <1>1, EmptyList
<1>8. locked' \in Seq(Nat) /\ Once(locked') /\ InList(locked') = InList(locked) \ S
  BY <1>0, <1>1, <1>3 DEF ListTypeOK, ListsAgree
<1>9. \A j \in Index :
        /\ j \notin S => elem'[j] = elem[j]
        /\ j \in S => /\ elem'[j].store = NoItem /\ elem'[j].lockCount = 0
                      /\ elem'[j].reuses = elem[j].reuses + 1
                      /\ elem'[j].reuses < SerialMod
  BY <1>4, <1>5
<1> QED BY <1>1, <1>3, <1>4, <1>6, <1>7, <1>8, <1>9 DEF Frees

\* FlushAll frees the lock list too.
LEMMA FlushAllStep ==
  ASSUME ListInv, NEW t \in Thread, FlushAll(t)
  PROVE  Frees(InList(lru) \cup InList(locked))
<1> DEFINE all == lru \o locked
           S == InList(lru) \cup InList(locked)
           broken == Broken(elem, locked)
<1>0. ListTypeOK /\ ListsAgree
  BY DEF ListInv
<1>1. /\ MayFree(all) /\ lru' = <<>> /\ locked' = <<>> /\ free' = free \o lru \o locked
      /\ elem' = Freed(broken, all) /\ issued' = issued
  BY DEF FlushAll
<1>2. elem \in Seq(Element) /\ Index = DOMAIN elem
  BY <1>0 DEF ListTypeOK, Index
<1>3. lru \in Seq(Nat) /\ locked \in Seq(Nat) /\ free \in Seq(Nat)
      /\ Once(lru) /\ Once(locked) /\ Once(free)
  BY <1>0 DEF ListTypeOK, ListsAgree
<1>4. S \subseteq Index /\ S \cap InList(free) = {} /\ InList(lru) \cap InList(locked) = {}
      /\ InList(free) \cap InList(lru) = {} /\ InList(locked) \cap InList(free) = {}
  BY <1>0, ListsPartition
<1>5. InList(all) = S
  BY <1>3, <1>4, ConcatList
<1>6. free' \in Seq(Nat) /\ Once(free') /\ InList(free') = InList(free) \cup S
  <2>1. /\ free \o lru \in Seq(Nat) /\ Once(free \o lru)
        /\ InList(free \o lru) = InList(free) \cup InList(lru)
    BY <1>3, <1>4, ConcatList
  <2>2. InList(free \o lru) \cap InList(locked) = {}
    BY <2>1, <1>4
  <2>3. /\ (free \o lru) \o locked \in Seq(Nat) /\ Once((free \o lru) \o locked)
        /\ InList((free \o lru) \o locked) = InList(free \o lru) \cup InList(locked)
    BY <1>3, <2>1, <2>2, ConcatList
  <2> QED BY <1>1, <2>1, <2>3
<1>7. /\ broken \in Seq(Element) /\ DOMAIN broken = Index
      /\ \A j \in Index :
           /\ j \notin InList(locked) => broken[j] = elem[j]
           /\ j \in InList(locked) => /\ broken[j].reuses = elem[j].reuses
                                      /\ broken[j].lockCount = 0
  BY <1>2, BrokenElements
<1> HIDE DEF all, broken
<1>8. /\ elem' \in Seq(Element) /\ DOMAIN elem' = DOMAIN elem
      /\ \A j \in Index :
           /\ j \notin S => elem'[j] = broken[j]
           /\ j \in S => /\ elem'[j].store = NoItem
                         /\ elem'[j].reuses = broken[j].reuses + 1
                         /\ elem'[j].lockCount = broken[j].lockCount
  BY <1>1, <1>2, <1>5, <1>7, FreedElements
<1>9. \A j \in S : elem[j].reuses + 1 < SerialMod
  BY <1>1, <1>5 DEF MayFree
<1>10. \A j \in InList(lru) : elem[j].lockCount = 0
  BY <1>0 DEF ListsAgree
<1>11. \A j \in Index :
         /\ j \notin S => elem'[j] = elem[j]
         /\ j \in S => /\ elem'[j].store = NoItem /\ elem'[j].lockCount = 0
                       /\ elem'[j].reuses = elem[j].reuses + 1
                       /\ elem'[j].reuses < SerialMod
  BY <1>4, <1>7, <1>8, <1>9, <1>10
<1>12. /\ lru' \in Seq(Nat) /\ Once(lru') /\ InList(lru') = InList(lru) \ S
       /\ locked' \in Seq(Nat) /\ Once(locked') /\ InList(locked') = InList(locked) \ S
  BY <1>1, EmptyList
<1> QED BY <1>1, <1>4, <1>6, <1>8, <1>11, <1>12 DEF Frees

-----------------------------------------------------------------------------
(* Threads *)

\* What threads have still to do keeps its shape.
LEMMA TasksKept ==
  ASSUME TasksOK, [Next]_vars
  PROVE  TasksOK'
<1>1. ASSUME NEW t \in Thread, NEW w, Works(w), Becomes(t, w)
      PROVE  TasksOK'
  BY <1>1 DEF TasksOK, Becomes
<1>2. CASE task' = task
  BY <1>2 DEF TasksOK
<1>3. CASE UNCHANGED vars
  BY <1>2, <1>3 DEF vars
<1>4. /\ Continues(Idle)
      /\ \A pc \in {"used", "available", "evict"} : \A bytes, then :
           Continues(then) => Works(Ensuring(pc, bytes, then)) /\ Loops(Ensuring(pc, bytes, then))
      /\ \A items, next : Resumes(next) => Works(Destroying(items, next))
      /\ \A w : Continues(w) \/ Loops(w) => Works(w)
      /\ \A bytes, then : Continues(then) => Resumes(Ensuring("used", bytes, then))
      /\ Resumes(Idle)
  <2>1. Continues(Idle)
    BY DEF Continues, Idle
  <2>2. \A pc, bytes, then : Continues(then) /\ pc \in {"used", "available", "evict"}
          => Loops(Ensuring(pc, bytes, then))
    BY DEF Loops, Ensuring
  <2>3. \A w : Continues(w) \/ Loops(w) => Works(w)
    BY DEF Works
  <2>4. \A items, next : Resumes(next) => Works(Destroying(items, next))
    BY DEF Works, Destroying
  <2>5. \A bytes, then : Continues(then) => Resumes(Ensuring("used", bytes, then))
    BY <2>2 DEF Resumes, Ensuring
  <2>6. Resumes(Idle)
    BY <2>1 DEF Resumes
  <2> QED BY <2>1, <2>2, <2>3, <2>4, <2>5, <2>6
<1>5. ASSUME NEW t \in Thread, task[t].pc \in {"used", "available", "evict"}
      PROVE  Continues(task[t].then)
  BY <1>5 DEF TasksOK, Works, Loops, Continues
<1>6. ASSUME NEW t \in Thread, TestUsed(t) PROVE TasksOK'
  <2>1. Continues(task[t].then)
    BY <1>5, <1>6 DEF TestUsed
  <2> DEFINE w == Ensuring(IF memUsed > target THEN "evict" ELSE "available",
                           task[t].bytes, task[t].then)
  <2>2. Works(w)
    BY <1>4, <2>1
  <2>3. Becomes(t, w)
    BY <1>6 DEF TestUsed
  <2> QED BY <1>1, <2>2, <2>3
<1>7. ASSUME NEW t \in Thread, TestAvailable(t) PROVE TasksOK'
  <2>1. Continues(task[t].then)
    BY <1>5, <1>7 DEF TestAvailable
  <2>2. CASE Becomes(t, Ensuring("evict", task[t].bytes, task[t].then))
    BY <1>1, <1>4, <2>1, <2>2
  <2>3. CASE Becomes(t, task[t].then)
    BY <1>1, <1>4, <2>1, <2>3
  <2> QED BY <1>7, <2>2, <2>3 DEF TestAvailable
<1>8. ASSUME NEW t \in Thread, Evict(t) PROVE TasksOK'
  <2>1. Continues(task[t].then)
    BY <1>5, <1>8 DEF Evict
  <2> DEFINE loop == Ensuring("used", task[t].bytes, task[t].then)
             w == Destroying(StoresOf(<<Head(lru)>>), loop)
  <2>2. CASE lru = <<>>
    <3>1. Becomes(t, task[t].then)
      BY <1>8, <2>2 DEF Evict
    <3> QED BY <1>1, <1>4, <2>1, <3>1
  <2>3. CASE lru # <<>>
    <3>1. Becomes(t, w)
      BY <1>8, <2>3 DEF Evict
    <3>2. Works(w)
      BY <1>4, <2>1
    <3> QED BY <1>1, <3>1, <3>2
  <2> QED BY <2>2, <2>3
<1>9. ASSUME NEW t \in Thread, DestroyResourceStorage(t) PROVE TasksOK'
  <2>1. Resumes(task[t].next) /\ Works(task[t].next)
    BY <1>9 DEF TasksOK, Works, Loops, Continues, Resumes, DestroyResourceStorage
  <2>2. CASE Becomes(t, task[t].next)
    BY <1>1, <1>4, <2>1, <2>2
  <2>3. CASE Becomes(t, Destroying(Tail(task[t].items), task[t].next))
    BY <1>1, <1>4, <2>1, <2>3
  <2> QED BY <1>9, <2>2, <2>3 DEF DestroyResourceStorage
<1>10. ASSUME NEW t \in Thread, NEW x \in Item, NEW lock \in BOOLEAN, CreateResource(t, x, lock)
       PROVE  TasksOK'
  <2> DEFINE insert == [pc |-> "insert", item |-> x, lock |-> lock]
  <2>1. Continues(insert)
    BY DEF Continues
  <2> HIDE DEF insert
  <2>2. Works(Ensuring("used", InitialSize[x], insert))
    BY <1>4, <2>1
  <2>3. Becomes(t, Ensuring("used", InitialSize[x], insert))
    BY <1>10 DEF CreateResource, insert
  <2> QED BY <1>1, <2>2, <2>3
<1>11. ASSUME NEW t \in Thread, NEW x \in Item, NEW n \in Sizes, Resize(t, x, n)
       PROVE  TasksOK'
  <2> DEFINE more == n - size[x]
             notify == [pc |-> "notify", item |-> x, old |-> size[x], new |-> n]
             grows == n > size[x]
  <2>1. Continues(notify)
    BY DEF Continues
  <2>2. Becomes(t, IF grows THEN Ensuring("used", more, notify) ELSE notify)
    BY <1>11 DEF Resize
  <2> HIDE DEF notify, more, grows
  <2>3. Works(notify) /\ Works(Ensuring("used", more, notify))
    BY <1>4, <2>1
  <2> QED BY <1>1, <2>2, <2>3
<1>12. ASSUME NEW t \in Thread,
              Insert(t) \/ NotifySizeChanged(t)
       PROVE  TasksOK'
  <2>1. Becomes(t, Idle)
    BY <1>12 DEF Insert, NotifySizeChanged
  <2> QED BY <1>1, <1>4, <2>1
<1>13. ASSUME NEW t \in Thread, FlushToTargetSize(t) \/ PurgeToGoal(t)
       PROVE  TasksOK'
  <2>1. PICK bytes : Becomes(t, Ensuring("used", bytes, Idle))
    BY <1>13 DEF FlushToTargetSize, PurgeToGoal
  <2> QED BY <1>1, <1>4, <2>1
<1>14. ASSUME NEW t \in Thread, NEW bytes, Purge(t, bytes) PROVE TasksOK'
  <2> DEFINE w == [pc |-> "purge", bytes |-> bytes, goal |-> (memUsed - bytes) % WordMod]
  <2>1. Works(w)
    BY DEF Works
  <2>2. Becomes(t, w)
    BY <1>14 DEF Purge
  <2> QED BY <1>1, <2>1, <2>2
<1>15. ASSUME NEW t \in Thread,
              FlushAllUnlocked(t) \/ FlushAll(t) \/ \E x \in Item : DestroyResource(t, x)
       PROVE  TasksOK'
  <2>1. PICK items : Becomes(t, Destroying(items, Idle))
    BY <1>15 DEF FlushAllUnlocked, FlushAll, DestroyResource
  <2> QED BY <1>1, <1>4, <2>1
<1>16. ASSUME NEW t \in Thread, BreakAllLocks(t) \/ \E n \in Targets : SetTargetSize(t, n)
       PROVE  TasksOK'
  BY <1>2, <1>16 DEF BreakAllLocks, SetTargetSize
<1>17. ASSUME NEW t \in Thread, NEW x \in Item,
              \/ LockResource(t, x) \/ UnlockResource(t, x) \/ BreakLock(t, x)
              \/ TouchResource(t, x) \/ MarkAsStale(t, x)
       PROVE  TasksOK'
  BY <1>2, <1>17 DEF LockResource, UnlockResource, BreakLock, TouchResource, MarkAsStale
<1> QED BY <1>3, <1>6, <1>7, <1>8, <1>9, <1>10, <1>11, <1>12, <1>13, <1>14, <1>15, <1>16, <1>17
        DEF Next

-----------------------------------------------------------------------------
(* Theorems *)

\* The strengthened invariant holds at the start ...
LEMMA InitIInv == Init => IInv
<1> SUFFICES ASSUME Init PROVE IInv
  OBVIOUS
<1>1. ListTypeOK
  BY DEF Init, ListTypeOK, Handle, NoHandle
<1>2. ListsAgree
  BY EmptyList DEF Init, ListsAgree, Index
<1>3. HandlesCounted
  BY DEF Init, HandlesCounted, Index
<1>4. TasksOK
  BY DEF Init, TasksOK, Works, Continues, Idle
<1> QED BY <1>1, <1>2, <1>3, <1>4 DEF IInv, ListInv

\* ... and is kept by every step.
LEMMA NextIInv == IInv /\ [Next]_vars => IInv'
<1> SUFFICES ASSUME IInv, [Next]_vars PROVE IInv'
  OBVIOUS
<1> USE DEF IInv
<1>1. TasksOK'
  BY TasksKept
<1>2. CASE UNCHANGED vars
  BY <1>1, <1>2, NothingMoves DEF vars, historyVars
<1>3. ASSUME NEW t \in Thread,
             \/ TestUsed(t) \/ TestAvailable(t) \/ DestroyResourceStorage(t)
             \/ PurgeToGoal(t) \/ NotifySizeChanged(t) \/ FlushToTargetSize(t)
             \/ \E n \in PurgeSizes : Purge(t, n)
             \/ \E n \in Targets : SetTargetSize(t, n)
             \/ \E x \in Item, lock \in BOOLEAN : CreateResource(t, x, lock)
             \/ \E x \in Item, n \in Sizes : Resize(t, x, n)
      PROVE  ListInv'
  <2>1. UNCHANGED <<listVars, issued>>
    BY <1>3 DEF TestUsed, TestAvailable, DestroyResourceStorage, PurgeToGoal,
                NotifySizeChanged, FlushToTargetSize, Purge, SetTargetSize, CreateResource,
                Resize, historyVars
  <2> QED BY <2>1, NothingMoves
<1>4. ASSUME NEW t \in Thread, Insert(t) PROVE ListInv'
  <2>1. task[t].item \in Item
    BY <1>4 DEF Insert, TasksOK, Works, Loops, Continues
  <2> QED BY <1>4, <2>1, InsertStep
<1>5. ASSUME NEW t \in Thread, Evict(t) \/ BreakAllLocks(t) \/ FlushAllUnlocked(t) \/ FlushAll(t)
      PROVE  ListInv'
  <2>1. CASE Evict(t)
    BY <2>1, EvictStep, FreeingStep, NothingMoves
  <2>2. CASE BreakAllLocks(t)
    BY <2>2, BreakAllLocksStep, RelinkingStep
  <2>3. CASE FlushAllUnlocked(t) \/ FlushAll(t)
    BY <2>3, FlushAllUnlockedStep, FlushAllStep, FreeingStep
  <2> QED BY <1>5, <2>1, <2>2, <2>3
<1>6. ASSUME NEW t \in Thread, NEW x \in Item,
             \/ LockResource(t, x) \/ UnlockResource(t, x) \/ BreakLock(t, x)
             \/ TouchResource(t, x) \/ MarkAsStale(t, x) \/ DestroyResource(t, x)
      PROVE  ListInv'
  <2>1. CASE LockResource(t, x) \/ BreakLock(t, x) \/ TouchResource(t, x) \/ MarkAsStale(t, x)
    BY <2>1, LockStep, BreakLockStep, TouchStep, RelinkingStep
  <2>2. CASE UnlockResource(t, x)
    BY <2>2, UnlockStep, RelinkingStep, NothingMoves
  <2>3. CASE DestroyResource(t, x)
    BY <2>3, DestroyResourceStep, FreeingStep
  <2> QED BY <1>6, <2>1, <2>2, <2>3
<1>7. ListInv'
  BY <1>2, <1>3, <1>4, <1>5, <1>6 DEF Next
<1> QED BY <1>1, <1>7

\* The handles of the invariant are those of HandlesNeverAliased.
LEMMA HandlesFollow == ListInv => HandlesNeverAliased
BY FoundHolds DEF HandlesNeverAliased, IsFound

\* The strengthened invariant is an invariant.
LEMMA IInvAlways == Spec => []IInv
BY InitIInv, NextIInv, PTL DEF Spec

\* The lists, the elements and the handles keep their types.
THEOREM ListTypeCorrect == Spec => []ListTypeOK
<1>1. IInv => ListTypeOK
  BY DEF IInv, ListInv
<1> QED BY IInvAlways, <1>1, PTL

\* Every element is linked once, into the list its lock count and its resource
\* say: no interleaving of the operations loses an element or links it twice.
THEOREM ListsAlwaysAgree == Spec => []ListsAgree
<1>1. IInv => ListsAgree
  BY DEF IInv, ListInv
<1> QED BY IInvAlways, <1>1, PTL

\* A handle leads to its own resource or nowhere, however often elements are
\* reused before the serial number comes round.
THEOREM HandlesCorrect == Spec => []HandlesNeverAliased
<1>1. IInv => HandlesNeverAliased
  BY HandlesFollow DEF IInv
<1> QED BY IInvAlways, <1>1, PTL

-----------------------------------------------------------------------------
(***************************************************************************)
(* On top of that invariant: the variables keep their types, storage is    *)
(* neither lost nor destroyed twice, locks protect, and the manager        *)
(* implements ResourcePool. The inductive invariant adds that the handle   *)
(* of a resource in the lists is the one its element would get now         *)
(* (Stored), so that no two elements hold the same resource; that storage  *)
(* exists only for resources with a handle and that what threads are about *)
(* to insert has none (Fresh); that lock counts add up (LocksCounted); and *)
(* that who changes the size of a resource has it locked until that is     *)
(* counted (UsedInv).                                                      *)
(***************************************************************************)

-----------------------------------------------------------------------------
(* Steps that drop a list of elements *)

\* The resources of the elements in a list.
LEMMA StoresList ==
  ASSUME ListInv, NEW list \in Seq(Nat),
         InList(list) \subseteq InList(lru) \cup InList(locked)
  PROVE  /\ StoresOf(list) \in Seq(Item) /\ Len(StoresOf(list)) = Len(list)
         /\ InList(StoresOf(list)) = {elem[i].store : i \in InList(list)}
         /\ InList(StoresOf(list)) \subseteq Item
         /\ IsFiniteSet(InList(StoresOf(list)))
<1> DEFINE n == Len(list)
           s == StoresOf(list)
<1>1. n \in Nat /\ DOMAIN list = 1 .. n
  OBVIOUS
<1>2. \A k \in 1 .. n : list[k] \in InList(list)
  BY <1>1 DEF InList
<1>3. \A i \in InList(list) : elem[i].store \in Item
  <2>1. \A i \in InList(list) : i \in Index /\ elem[i] \in Element /\ elem[i].store # NoItem
    BY ListsPartition DEF ListInv, ListsAgree
  <2> QED BY <2>1 DEF Element
<1>4. s = [k \in 1 .. n |-> elem[list[k]].store]
  BY <1>1 DEF StoresOf
<1>5. s \in [1 .. n -> Item]
  BY <1>2, <1>3, <1>4
<1>6. s \in Seq(Item) /\ Len(s) = n
  <2>1. s \in Seq(Item) /\ DOMAIN s = 1 .. n
    BY <1>1, <1>5
  <2> HIDE DEF s
  <2> QED BY <1>1, <2>1
<1>7. InList(s) = {elem[i].store : i \in InList(list)}
  BY <1>1, <1>4 DEF InList
<1>8. IsFiniteSet(InList(s))
  <2>1. s \in Surjection(1 .. n, InList(s))
    BY <1>5 DEF InList, Surjection
  <2>2. IsFiniteSet(1 .. n)
    BY <1>1, FS_Interval
  <2> QED BY <2>1, <2>2, FS_Surjection
<1> QED BY <1>3, <1>6, <1>7, <1>8

\* The elements of a list leave: what Evict, DestroyResource and both flushes do.
Drops(t, list, next) ==
  /\ list \in Seq(Nat) /\ Once(list) /\ list # <<>>
  /\ InList(list) \subseteq InList(lru) \cup InList(locked)
  /\ Frees(InList(list))
  /\ memUsed' = UsedWithout(list)
  /\ Becomes(t, Destroying(StoresOf(list), next))
  /\ (\A i \in InList(list) : elem[i].lockCount = 0) \/ forced'
  /\ forced => forced'
  /\ forced \in BOOLEAN => forced' \in BOOLEAN
  /\ UNCHANGED <<target, size, alive, issued, holds, crossed, touches>>

\* Evict drops the head of the LRU list, or goes on.
LEMMA EvictDrops ==
  ASSUME ListInv, NEW t \in Thread, Evict(t), lru # <<>>
  PROVE  Drops(t, <<Head(lru)>>, Ensuring("used", task[t].bytes, task[t].then))
<1>1. lru \in Seq(Nat) /\ Once(lru)
  BY DEF ListInv, ListTypeOK, ListsAgree
<1>2. Head(lru) \in InList(lru) /\ Head(lru) \in Nat
  BY <1>1, TailList, InListNat
<1>3. <<Head(lru)>> \in Seq(Nat) /\ Once(<<Head(lru)>>) /\ InList(<<Head(lru)>>) = {Head(lru)}
  BY <1>2, SingleList
<1>4. Frees({Head(lru)})
  BY EvictStep
<1>5. \A i \in InList(lru) : elem[i].lockCount = 0
  BY DEF ListInv, ListsAgree
<1>6. /\ memUsed' = UsedWithout(<<Head(lru)>>)
      /\ Becomes(t, Destroying(StoresOf(<<Head(lru)>>),
                               Ensuring("used", task[t].bytes, task[t].then)))
      /\ UNCHANGED <<target, size, alive, historyVars>>
  BY DEF Evict
<1> DEFINE victim == <<Head(lru)>>
<1>7. victim # <<>>
  OBVIOUS
<1> HIDE DEF victim
<1> QED BY <1>2, <1>3, <1>4, <1>5, <1>6, <1>7 DEF Drops, historyVars, victim

\* DestroyResource drops one element.
LEMMA DestroyDrops ==
  ASSUME ListInv, NEW t \in Thread, NEW x \in Item, DestroyResource(t, x)
  PROVE  Drops(t, <<Found(x)>>, Idle)
<1> DEFINE i == Found(x)
<1>1. i \in Index /\ elem[i] \in Element /\ elem[i].store # NoItem
  <2>1. Found(x) # NoIndex
    BY DEF DestroyResource, IsFound
  <2> QED BY <2>1, FoundHolds, ManagerAssumption
<1>2. i \in Nat /\ i \in InList(lru) \cup InList(locked)
  BY <1>1, ListsPartition DEF ListInv, ListsAgree, Element
<1>3. /\ memUsed' = UsedWithout(<<i>>)
      /\ forced' = (forced \/ elem[i].lockCount > 0)
      /\ Becomes(t, Destroying(StoresOf(<<i>>), Idle))
      /\ UNCHANGED <<target, size, alive, issued, holds, crossed, touches>>
  BY DEF DestroyResource
<1>4. Frees({i})
  BY DestroyResourceStep
<1>5. elem[i].lockCount \in Nat
  BY <1>1 DEF Element
<1> HIDE DEF i
<1>6. <<i>> \in Seq(Nat) /\ Once(<<i>>) /\ InList(<<i>>) = {i} /\ <<i>> # <<>>
  BY <1>2, SingleList
<1>7. (\A j \in InList(<<i>>) : elem[j].lockCount = 0) \/ forced'
  <2>1. CASE elem[i].lockCount > 0
    BY <1>3, <2>1, Zenon
  <2>2. CASE ~(elem[i].lockCount > 0)
    BY <1>5, <1>6, <2>2
  <2> QED BY <2>1, <2>2
<1>8. (forced => forced') /\ (forced \in BOOLEAN => forced' \in BOOLEAN)
  BY <1>3
<1>9. Drops(t, <<i>>, Idle)
  BY <1>2, <1>3, <1>4, <1>6, <1>7, <1>8 DEF Drops
<1> QED BY <1>9 DEF i

\* FlushAllUnlocked drops the LRU list.
LEMMA FlushUnlockedDrops ==
  ASSUME ListInv, NEW t \in Thread, FlushAllUnlocked(t)
  PROVE  Drops(t, lru, Idle)
<1>1. lru \in Seq(Nat) /\ Once(lru) /\ \A i \in InList(lru) : elem[i].lockCount = 0
  BY DEF ListInv, ListTypeOK, ListsAgree
<1>2. Frees(InList(lru))
  BY FlushAllUnlockedStep
<1> QED BY <1>1, <1>2 DEF FlushAllUnlocked, Drops, historyVars

\* FlushAll drops the LRU list and the lock list.
LEMMA FlushAllDrops ==
  ASSUME ListInv, NEW t \in Thread, FlushAll(t)
  PROVE  Drops(t, lru \o locked, Idle)
<1> DEFINE all == lru \o locked
<1>1. lru \in Seq(Nat) /\ Once(lru) /\ locked \in Seq(Nat) /\ Once(locked)
      /\ InList(lru) \cap InList(locked) = {}
  BY ListsPartition DEF ListInv, ListTypeOK, ListsAgree
<1>2. all \in Seq(Nat) /\ Once(all) /\ InList(all) = InList(lru) \cup InList(locked)
  BY <1>1, ConcatList
<1>3. Frees(InList(all))
  BY <1>2, FlushAllStep
<1>4. /\ memUsed' = UsedWithout(all) /\ all # <<>>
      /\ forced' = (forced \/ locked # <<>>)
      /\ Becomes(t, Destroying(StoresOf(all), Idle))
      /\ UNCHANGED <<target, size, alive, issued, holds, crossed, touches>>
  BY DEF FlushAll
<1>5. locked = <<>> => InList(locked) = {}
  BY EmptyList
<1>6. \A i \in InList(lru) : elem[i].lockCount = 0
  BY DEF ListInv, ListsAgree
<1> HIDE DEF all
<1>7. (\A i \in InList(all) : elem[i].lockCount = 0) \/ forced'
  BY <1>2, <1>4, <1>5, <1>6
<1>8. (forced => forced') /\ (forced \in BOOLEAN => forced' \in BOOLEAN)
  BY <1>4
<1>9. Drops(t, all, Idle)
  BY <1>2, <1>3, <1>4, <1>7, <1>8 DEF Drops
<1> QED BY <1>9 DEF all

-----------------------------------------------------------------------------
(* Types *)

\* A thread that has storage to destroy has some left.
Busy == {w \in Task : w.pc = "destroy" => w.items # <<>>}

\* The tail of a list that is not empty.
LEMMA TailOfAny ==
  ASSUME NEW S, NEW list \in Seq(S), list # <<>>
  PROVE  Tail(list) \in Seq(S) /\ Len(list) \in Nat \ {0} /\ Len(Tail(list)) = Len(list) - 1
OBVIOUS

\* What a thread may become has the type of a task ...
LEMMA TaskKinds ==
  /\ Idle \in Continuation
  /\ \A x \in Item, lock \in BOOLEAN :
       [pc |-> "insert", item |-> x, lock |-> lock] \in Continuation
  /\ \A x \in Item, m, n \in Nat :
       [pc |-> "notify", item |-> x, old |-> m, new |-> n] \in Continuation
  /\ \A pc \in {"used", "available", "evict"}, n \in Int, c \in Continuation :
       Ensuring(pc, n, c) \in Loop
  /\ \A items \in Seq(Item \cup {NoItem}), c \in Continuation \cup Loop :
       items # <<>> => Destroying(items, c) \in Busy
  /\ \A n, m \in Int : [pc |-> "purge", bytes |-> n, goal |-> m] \in Busy
  /\ Continuation \subseteq Busy /\ Loop \subseteq Busy
<1>1. Idle \in Continuation
  BY DEF Idle, Continuation
<1>2. \A x \in Item, lock \in BOOLEAN :
        [pc |-> "insert", item |-> x, lock |-> lock] \in Continuation
  BY DEF Continuation
<1>3. \A x \in Item, m, n \in Nat :
        [pc |-> "notify", item |-> x, old |-> m, new |-> n] \in Continuation
  BY DEF Continuation
<1>4. \A pc \in {"used", "available", "evict"}, n \in Int, c \in Continuation :
        Ensuring(pc, n, c) \in Loop
  BY DEF Ensuring, Loop
<1>5. ASSUME NEW items \in Seq(Item \cup {NoItem}), NEW c \in Continuation \cup Loop,
             items # <<>>
      PROVE  Destroying(items, c) \in Busy
  <2>1. Destroying(items, c) \in Task
    BY DEF Destroying, Task
  <2>2. Destroying(items, c).items # <<>>
    BY <1>5 DEF Destroying
  <2> QED BY <2>1, <2>2 DEF Busy
<1>6. \A n, m \in Int : [pc |-> "purge", bytes |-> n, goal |-> m] \in Busy
  BY DEF Task, Busy
<1>7. Continuation \subseteq Busy
  <2>1. \A w \in Continuation : w.pc # "destroy"
    BY DEF Continuation
  <2> QED BY <2>1 DEF Busy, Task
<1>8. Loop \subseteq Busy
  <2>1. \A w \in Loop : w.pc # "destroy"
    BY DEF Loop
  <2> QED BY <2>1 DEF Busy, Task
<1> QED BY <1>1, <1>2, <1>3, <1>4, <1>5, <1>6, <1>7, <1>8

\* ... and a task of that type has parts of theirs.
LEMMA TaskParts ==
  ASSUME NEW w \in Busy
  PROVE  /\ w.pc \in {"used", "available", "evict"} =>
              w.bytes \in Int /\ w.then \in Continuation
         /\ w.pc = "destroy" => /\ w.items \in Seq(Item \cup {NoItem}) /\ w.items # <<>>
                                /\ w.next \in Continuation \cup Loop
         /\ w.pc = "insert" => w.item \in Item /\ w.lock \in BOOLEAN
         /\ w.pc = "notify" => w.item \in Item /\ w.old \in Nat /\ w.new \in Nat
         /\ w.pc = "purge" => w.bytes \in Int /\ w.goal \in Int
<1>1. CASE w \in Continuation
  BY <1>1 DEF Continuation
<1>2. CASE w \in Loop
  BY <1>2 DEF Loop
<1>3. CASE w \in [pc : {"purge"}, bytes : Int, goal : Int]
  BY <1>3
<1>4. CASE w \in [pc : {"destroy"}, items : Seq(Item \cup {NoItem}), next : Continuation \cup Loop]
  BY <1>4 DEF Busy
<1> QED BY <1>1, <1>2, <1>3, <1>4 DEF Task, Busy

TaskTypeOK == task \in [Thread -> Busy]
MemTypeOK ==
  /\ memUsed \in 0 .. WordMod - 1 /\ target \in Nat
  /\ size \in [Item -> Nat] /\ crossed \in BOOLEAN /\ touches \in 0 .. MaxTouches
HoldTypeOK ==
  /\ alive \subseteq Item
  /\ holds \in [Thread -> [Item -> Nat]]
  /\ forced \in BOOLEAN

\* A word is what is left of an integer.
LEMMA WordType == \A n \in Int : n % WordMod \in 0 .. WordMod - 1
BY ManagerAssumption

\* Used memory stays a word when resources leave.
LEMMA UsedWithoutType ==
  ASSUME ListInv, MemTypeOK, NEW list \in Seq(Nat),
         InList(list) \subseteq InList(lru) \cup InList(locked)
  PROVE  UsedWithout(list) \in 0 .. WordMod - 1
<1> DEFINE items == InList(StoresOf(list))
<1>1. items \subseteq Item /\ IsFiniteSet(items)
  BY StoresList
<1> HIDE DEF items
<1>2. \A x \in items : size[x] \in Nat
  BY <1>1 DEF MemTypeOK
<1>3. SumFunctionOnSet(size, items) \in Nat
  BY <1>1, <1>2, SumNat
<1> DEFINE bytes == SumFunctionOnSet(size, items)
<1>4. UsedWithout(list) = IF bytes > memUsed THEN 0 ELSE memUsed - bytes
  BY DEF UsedWithout, BytesOf, items
<1> HIDE DEF bytes
<1>5. bytes \in Nat
  BY <1>3 DEF bytes
<1> QED BY <1>4, <1>5, ManagerAssumption DEF MemTypeOK

\* The four actions that drop a list.
LEMMA DropsOne ==
  ASSUME ListInv, NEW t \in Thread,
         \/ Evict(t) /\ lru # <<>>
         \/ FlushAllUnlocked(t) \/ FlushAll(t) \/ \E x \in Item : DestroyResource(t, x)
  PROVE  \E list, next :
           /\ Drops(t, list, next)
           /\ \/ next = Idle
              \/ next = Ensuring("used", task[t].bytes, task[t].then) /\ Evict(t)
<1>1. CASE Evict(t) /\ lru # <<>>
  BY <1>1, EvictDrops
<1>2. CASE FlushAllUnlocked(t)
  BY <1>2, FlushUnlockedDrops
<1>3. CASE FlushAll(t)
  BY <1>3, FlushAllDrops
<1>4. CASE \E x \in Item : DestroyResource(t, x)
  BY <1>4, DestroyDrops
<1> QED BY <1>1, <1>2, <1>3, <1>4

\* Every step leaves threads with tasks.
LEMMA TaskTypes ==
  ASSUME ListInv, TaskTypeOK, MemTypeOK, [Next]_vars
  PROVE  TaskTypeOK'
<1>1. ASSUME NEW t \in Thread, NEW w \in Busy, Becomes(t, w)
      PROVE  TaskTypeOK'
  BY <1>1 DEF TaskTypeOK, Becomes
<1>2. ASSUME task' = task PROVE TaskTypeOK'
  BY <1>2 DEF TaskTypeOK
<1>3. \A t \in Thread : task[t] \in Busy
  BY DEF TaskTypeOK
<1>4. /\ \A n \in Int : n % WordMod \in Int
      /\ memUsed \in Int /\ target \in Int /\ \A x \in Item : size[x] \in Int
  <2>1. \A n \in Int : n % WordMod \in Int
    BY WordType
  <2>2. memUsed \in Int
    BY ManagerAssumption DEF MemTypeOK
  <2> QED BY <2>1, <2>2 DEF MemTypeOK
<1>5. ASSUME NEW t \in Thread, TestUsed(t) PROVE TaskTypeOK'
  <2>1. task[t].bytes \in Int /\ task[t].then \in Continuation
    BY <1>3, <1>5, TaskParts DEF TestUsed
  <2> DEFINE pc == IF memUsed > target THEN "evict" ELSE "available"
  <2>2. pc \in {"used", "available", "evict"}
    OBVIOUS
  <2>3. Becomes(t, Ensuring(pc, task[t].bytes, task[t].then))
    BY <1>5 DEF TestUsed
  <2> HIDE DEF pc
  <2>4. Ensuring(pc, task[t].bytes, task[t].then) \in Busy
    BY <2>1, <2>2, TaskKinds
  <2> QED BY <1>1, <2>3, <2>4
<1>6. ASSUME NEW t \in Thread, TestAvailable(t) PROVE TaskTypeOK'
  <2>1. task[t].bytes \in Int /\ task[t].then \in Continuation
    BY <1>3, <1>6, TaskParts DEF TestAvailable
  <2>2. Ensuring("evict", task[t].bytes, task[t].then) \in Busy /\ task[t].then \in Busy
    BY <2>1, TaskKinds
  <2>3. \/ Becomes(t, Ensuring("evict", task[t].bytes, task[t].then))
        \/ Becomes(t, task[t].then)
    BY <1>6 DEF TestAvailable
  <2> QED BY <1>1, <2>2, <2>3
<1>7. ASSUME NEW t \in Thread, Evict(t) \/ FlushAllUnlocked(t) \/ FlushAll(t)
                               \/ \E x \in Item : DestroyResource(t, x)
      PROVE  TaskTypeOK'
  <2>1. CASE Evict(t) /\ lru = <<>>
    <3>1. task[t].then \in Continuation /\ Becomes(t, task[t].then)
      BY <1>3, <2>1, TaskParts DEF Evict
    <3> QED BY <1>1, <3>1, TaskKinds
  <2>2. CASE ~(Evict(t) /\ lru = <<>>)
    <3>1. PICK list, next :
            /\ Drops(t, list, next)
            /\ \/ next = Idle
               \/ next = Ensuring("used", task[t].bytes, task[t].then) /\ Evict(t)
      BY <1>7, <2>2, DropsOne
    <3>2. next \in Continuation \cup Loop
      <4>1. CASE next = Idle
        BY <4>1, TaskKinds
      <4>2. CASE next = Ensuring("used", task[t].bytes, task[t].then) /\ Evict(t)
        <5>1. task[t].bytes \in Int /\ task[t].then \in Continuation
          BY <1>3, <4>2, TaskParts DEF Evict
        <5> QED BY <4>2, <5>1, TaskKinds
      <4> QED BY <3>1, <4>1, <4>2
    <3>3. Becomes(t, Destroying(StoresOf(list), next))
      BY <3>1 DEF Drops
    <3>4. StoresOf(list) \in Seq(Item \cup {NoItem}) /\ StoresOf(list) # <<>>
      <4>1. list \in Seq(Nat) /\ InList(list) \subseteq InList(lru) \cup InList(locked)
            /\ list # <<>>
        BY <3>1 DEF Drops
      <4>2. StoresOf(list) \in Seq(Item) /\ Len(StoresOf(list)) = Len(list)
        BY <4>1, StoresList
      <4> QED BY <4>1, <4>2
    <3>5. Destroying(StoresOf(list), next) \in Busy
      BY <3>2, <3>4, TaskKinds
    <3> QED BY <1>1, <3>3, <3>5
  <2> QED BY <2>1, <2>2
<1>8. ASSUME NEW t \in Thread, DestroyResourceStorage(t) PROVE TaskTypeOK'
  <2> DEFINE items == task[t].items
             next == task[t].next
  <2>1. items \in Seq(Item \cup {NoItem}) /\ items # <<>> /\ next \in Continuation \cup Loop
    BY <1>3, <1>8, TaskParts DEF DestroyResourceStorage
  <2>2. Becomes(t, next) \/ (Len(items) # 1 /\ Becomes(t, Destroying(Tail(items), next)))
    BY <1>8 DEF DestroyResourceStorage
  <2> HIDE DEF items, next
  <2>3. CASE Becomes(t, next)
    <3>1. next \in Busy
      BY <2>1, TaskKinds
    <3> QED BY <1>1, <2>3, <3>1
  <2>4. CASE Len(items) # 1 /\ Becomes(t, Destroying(Tail(items), next))
    <3>1. Tail(items) \in Seq(Item \cup {NoItem}) /\ Len(Tail(items)) # 0
      BY <2>1, <2>4, TailOfAny
    <3>2. Tail(items) # <<>>
      <4>1. \A list : Len(list) # 0 => list # <<>>
        OBVIOUS
      <4> QED BY <3>1, <4>1
    <3>3. Destroying(Tail(items), next) \in Busy
      BY <2>1, <3>1, <3>2, TaskKinds
    <3> QED BY <1>1, <2>4, <3>3
  <2> QED BY <2>2, <2>3, <2>4
<1>9. ASSUME NEW t \in Thread, NEW x \in Item, NEW lock \in BOOLEAN, CreateResource(t, x, lock)
      PROVE  TaskTypeOK'
  <2> DEFINE insert == [pc |-> "insert", item |-> x, lock |-> lock]
  <2>1. Becomes(t, Ensuring("used", InitialSize[x], insert))
    BY <1>9 DEF CreateResource
  <2>2. insert \in Continuation /\ InitialSize[x] \in Int
    BY TaskKinds, ManagerAssumption
  <2> HIDE DEF insert
  <2>3. Ensuring("used", InitialSize[x], insert) \in Busy
    BY <2>2, TaskKinds
  <2> QED BY <1>1, <2>1, <2>3
<1>10. ASSUME NEW t \in Thread, NEW x \in Item, NEW n \in Sizes, Resize(t, x, n)
       PROVE  TaskTypeOK'
  <2> DEFINE more == n - size[x]
             notify == [pc |-> "notify", item |-> x, old |-> size[x], new |-> n]
             grows == n > size[x]
  <2>1. Becomes(t, IF grows THEN Ensuring("used", more, notify) ELSE notify)
    BY <1>10 DEF Resize
  <2>2. more \in Int /\ size[x] \in Nat /\ n \in Nat
    BY ManagerAssumption DEF MemTypeOK
  <2>3. notify \in Continuation
    BY <2>2, TaskKinds
  <2> HIDE DEF notify, more, grows
  <2>4. Ensuring("used", more, notify) \in Busy /\ notify \in Busy
    BY <2>2, <2>3, TaskKinds
  <2> QED BY <1>1, <2>1, <2>4
<1>11. ASSUME NEW t \in Thread, Insert(t) \/ NotifySizeChanged(t) PROVE TaskTypeOK'
  <2>1. Becomes(t, Idle)
    BY <1>11 DEF Insert, NotifySizeChanged
  <2>2. Idle \in Busy
    BY TaskKinds
  <2> QED BY <1>1, <2>1, <2>2
<1>12. ASSUME NEW t \in Thread, FlushToTargetSize(t) \/ PurgeToGoal(t) PROVE TaskTypeOK'
  <2>1. \E n \in Int : Becomes(t, Ensuring("used", n, Idle))
    <3>1. CASE FlushToTargetSize(t)
      BY <3>1 DEF FlushToTargetSize
    <3>2. CASE PurgeToGoal(t)
      <4> DEFINE goal == IF task[t].bytes > memUsed THEN 0 ELSE task[t].goal
      <4>1. Becomes(t, Ensuring("used", (target - goal) % WordMod, Idle))
        BY <3>2 DEF PurgeToGoal
      <4>2. goal \in Int
        BY <1>3, <3>2, TaskParts DEF PurgeToGoal
      <4> HIDE DEF goal
      <4>3. target - goal \in Int
        BY <1>4, <4>2
      <4> QED BY <1>4, <4>1, <4>3
    <3> QED BY <1>12, <3>1, <3>2
  <2>2. PICK n \in Int : Becomes(t, Ensuring("used", n, Idle))
    BY <2>1
  <2>3. Ensuring("used", n, Idle) \in Busy
    BY TaskKinds
  <2> QED BY <1>1, <2>2, <2>3
<1>13. ASSUME NEW t \in Thread, NEW bytes \in PurgeSizes, Purge(t, bytes) PROVE TaskTypeOK'
  <2> DEFINE goal == (memUsed - bytes) % WordMod
  <2>1. Becomes(t, [pc |-> "purge", bytes |-> bytes, goal |-> goal])
    BY <1>13 DEF Purge
  <2>2. bytes \in Int /\ memUsed - bytes \in Int
    BY <1>4, ManagerAssumption
  <2>3. goal \in Int
    BY <1>4, <2>2
  <2> HIDE DEF goal
  <2>4. [pc |-> "purge", bytes |-> bytes, goal |-> goal] \in Busy
    BY <2>2, <2>3, TaskKinds
  <2> QED BY <1>1, <2>1, <2>4
<1>14. ASSUME NEW t \in Thread, BreakAllLocks(t) \/ \E n \in Targets : SetTargetSize(t, n)
       PROVE  TaskTypeOK'
  BY <1>2, <1>14 DEF BreakAllLocks, SetTargetSize
<1>15. ASSUME NEW t \in Thread, NEW x \in Item,
              \/ LockResource(t, x) \/ UnlockResource(t, x) \/ BreakLock(t, x)
              \/ TouchResource(t, x) \/ MarkAsStale(t, x)
       PROVE  TaskTypeOK'
  BY <1>2, <1>15 DEF LockResource, UnlockResource, BreakLock, TouchResource, MarkAsStale
<1>16. CASE UNCHANGED vars
  BY <1>2, <1>16 DEF vars
<1> QED BY <1>5, <1>6, <1>7, <1>8, <1>9, <1>10, <1>11, <1>12, <1>13, <1>14, <1>15, <1>16
        DEF Next

\* Every step keeps sizes and used memory.
LEMMA MemTypes ==
  ASSUME ListInv, MemTypeOK, TaskTypeOK, [Next]_vars
  PROVE  MemTypeOK'
<1>1. ASSUME UNCHANGED <<target, size, crossed, touches>>, memUsed' \in 0 .. WordMod - 1
      PROVE  MemTypeOK'
  BY <1>1 DEF MemTypeOK
<1>2. ASSUME UNCHANGED <<memUsed, target, size, crossed, touches>> PROVE MemTypeOK'
  BY <1>2 DEF MemTypeOK
<1>3. memUsed \in Int
  BY ManagerAssumption DEF MemTypeOK
<1>4. ASSUME NEW t \in Thread, Evict(t) \/ FlushAllUnlocked(t) \/ FlushAll(t)
                               \/ \E x \in Item : DestroyResource(t, x)
      PROVE  MemTypeOK'
  <2>1. CASE Evict(t) /\ lru = <<>>
    BY <1>2, <2>1 DEF Evict, memVars, historyVars
  <2>2. CASE ~(Evict(t) /\ lru = <<>>)
    <3>1. PICK list, next : Drops(t, list, next)
      BY <1>4, <2>2, DropsOne
    <3>2. UsedWithout(list) \in 0 .. WordMod - 1
      <4>1. list \in Seq(Nat) /\ InList(list) \subseteq InList(lru) \cup InList(locked)
        BY <3>1 DEF Drops
      <4> QED BY <4>1, UsedWithoutType
    <3> QED BY <1>1, <3>1, <3>2 DEF Drops
  <2> QED BY <2>1, <2>2
<1>5. ASSUME NEW t \in Thread, Insert(t) PROVE MemTypeOK'
  <2>1. memUsed' = (memUsed + size[task[t].item]) % WordMod
        /\ UNCHANGED <<target, size, crossed, touches>>
    BY <1>5 DEF Insert
  <2>2. task[t].item \in Item
    BY <1>5, TaskParts DEF Insert, TaskTypeOK
  <2>3. memUsed + size[task[t].item] \in Int
    BY <1>3, <2>2 DEF MemTypeOK
  <2> QED BY <1>1, <2>1, <2>3, WordType
<1>6. ASSUME NEW t \in Thread, NotifySizeChanged(t) PROVE MemTypeOK'
  <2> DEFINE more == task[t].new - task[t].old
  <2>1. memUsed' = (memUsed + more) % WordMod /\ UNCHANGED <<target, size, crossed, touches>>
    BY <1>6 DEF NotifySizeChanged, historyVars
  <2>2. more \in Int
    BY <1>6, TaskParts DEF NotifySizeChanged, TaskTypeOK
  <2> HIDE DEF more
  <2>3. memUsed + more \in Int
    BY <1>3, <2>2
  <2> QED BY <1>1, <2>1, <2>3, WordType
<1>7. ASSUME NEW t \in Thread, NEW n \in Targets, SetTargetSize(t, n) PROVE MemTypeOK'
  BY <1>7, ManagerAssumption DEF MemTypeOK, SetTargetSize
<1>8. ASSUME NEW t \in Thread, NEW x \in Item, NEW n \in Sizes, Resize(t, x, n)
      PROVE  MemTypeOK'
  <2>1. /\ size' = [size EXCEPT ![x] = n] /\ touches' = touches + 1 /\ touches < MaxTouches
        /\ UNCHANGED <<memUsed, target>>
        /\ crossed' = (crossed \/ \E u \in Thread : Resizing(u, x))
    BY <1>8 DEF Resize, memVars
  <2>2. n \in Nat
    BY ManagerAssumption
  <2>3. size' \in [Item -> Nat]
    BY <2>1, <2>2 DEF MemTypeOK
  <2>4. touches' \in 0 .. MaxTouches
    BY <2>1, ManagerAssumption DEF MemTypeOK
  <2>5. crossed' \in BOOLEAN
    BY <2>1 DEF MemTypeOK
  <2> QED BY <2>1, <2>3, <2>4, <2>5 DEF MemTypeOK
<1>9. ASSUME NEW t \in Thread,
             \/ TestUsed(t) \/ TestAvailable(t) \/ DestroyResourceStorage(t)
             \/ PurgeToGoal(t) \/ FlushToTargetSize(t) \/ BreakAllLocks(t)
             \/ \E n \in PurgeSizes : Purge(t, n)
             \/ \E x \in Item, lock \in BOOLEAN : CreateResource(t, x, lock)
             \/ \E x \in Item :
                  \/ LockResource(t, x) \/ UnlockResource(t, x) \/ BreakLock(t, x)
                  \/ TouchResource(t, x) \/ MarkAsStale(t, x)
      PROVE  MemTypeOK'
  <2>1. UNCHANGED <<memUsed, target, size, crossed, touches>>
    BY <1>9 DEF TestUsed, TestAvailable, DestroyResourceStorage, PurgeToGoal, FlushToTargetSize,
                BreakAllLocks, Purge, CreateResource, LockResource, UnlockResource, BreakLock,
                TouchResource, MarkAsStale, memVars, historyVars
  <2> QED BY <1>2, <2>1
<1>10. CASE UNCHANGED vars
  BY <1>2, <1>10 DEF vars, memVars, historyVars
<1> QED BY <1>4, <1>5, <1>6, <1>7, <1>8, <1>9, <1>10 DEF Next

\* Every step keeps the storage and the locks typed.
LEMMA HoldTypes ==
  ASSUME ListInv, HoldTypeOK, TaskTypeOK, [Next]_vars
  PROVE  HoldTypeOK'
<1>1. ASSUME UNCHANGED <<alive, holds, forced>> PROVE HoldTypeOK'
  BY <1>1 DEF HoldTypeOK
<1>2. ASSUME UNCHANGED <<alive, holds>>, forced' \in BOOLEAN PROVE HoldTypeOK'
  BY <1>2 DEF HoldTypeOK
<1>3. ASSUME UNCHANGED <<alive, forced>>, NEW t \in Thread, NEW x \in Item, NEW n \in Nat,
             holds' = [holds EXCEPT ![t][x] = n]
      PROVE  HoldTypeOK'
  BY <1>3 DEF HoldTypeOK
<1>4. \A t \in Thread, x \in Item : holds[t][x] \in Nat
  BY DEF HoldTypeOK
<1>5. ASSUME NEW t \in Thread, Evict(t) \/ FlushAllUnlocked(t) \/ FlushAll(t)
                               \/ \E x \in Item : DestroyResource(t, x)
      PROVE  HoldTypeOK'
  <2>1. CASE Evict(t) /\ lru = <<>>
    BY <1>1, <2>1 DEF Evict, historyVars
  <2>2. CASE ~(Evict(t) /\ lru = <<>>)
    <3>1. PICK list, next : Drops(t, list, next)
      BY <1>5, <2>2, DropsOne
    <3>2. UNCHANGED <<alive, holds>> /\ (forced \in BOOLEAN => forced' \in BOOLEAN)
      BY <3>1 DEF Drops
    <3>3. forced' \in BOOLEAN
      BY <3>2 DEF HoldTypeOK
    <3> QED BY <1>2, <3>2, <3>3
  <2> QED BY <2>1, <2>2
<1>6. ASSUME NEW t \in Thread, Insert(t) PROVE HoldTypeOK'
  <2> DEFINE x == task[t].item
             n == IF task[t].lock THEN 1 ELSE 0
  <2>1. /\ alive' = alive \cup {x} /\ holds' = [holds EXCEPT ![t][x] = n]
        /\ forced' = forced
    BY <1>6 DEF Insert
  <2>2. x \in Item
    BY <1>6, TaskParts DEF Insert, TaskTypeOK
  <2>3. n \in Nat
    OBVIOUS
  <2> HIDE DEF x, n
  <2>4. holds' \in [Thread -> [Item -> Nat]]
    BY <2>1, <2>2, <2>3 DEF HoldTypeOK
  <2>5. alive' \subseteq Item
    BY <2>1, <2>2 DEF HoldTypeOK
  <2> QED BY <2>1, <2>4, <2>5 DEF HoldTypeOK
<1>7. ASSUME NEW t \in Thread, NEW x \in Item, LockResource(t, x) PROVE HoldTypeOK'
  <2> DEFINE y == elem[Found(x)].store
  <2>1. /\ holds' = [holds EXCEPT ![t][y] = @ + 1]
        /\ UNCHANGED <<alive, forced>> /\ Found(x) # NoIndex
    BY <1>7 DEF LockResource, IsFound
  <2>2. y = x
    BY <2>1, FoundHolds
  <2> DEFINE n == holds[t][x] + 1
  <2>3. n \in Nat
    BY <1>4
  <2> HIDE DEF y
  <2>4. holds' = [holds EXCEPT ![t][x] = n]
    BY <2>1, <2>2
  <2> HIDE DEF n
  <2> QED BY <1>3, <2>1, <2>3, <2>4
<1>8. ASSUME NEW t \in Thread, NEW x \in Item, UnlockResource(t, x) PROVE HoldTypeOK'
  <2> DEFINE n == holds[t][x] - 1
  <2>1. /\ holds' = [holds EXCEPT ![t][x] = n] /\ holds[t][x] > 0
        /\ UNCHANGED <<alive, forced>>
    BY <1>8 DEF UnlockResource
  <2>2. n \in Nat
    BY <1>4, <2>1
  <2> HIDE DEF n
  <2> QED BY <1>3, <2>1, <2>2
<1>9. ASSUME NEW t \in Thread, DestroyResourceStorage(t) PROVE HoldTypeOK'
  BY <1>9 DEF DestroyResourceStorage, historyVars, HoldTypeOK
<1>10. ASSUME NEW t \in Thread, BreakAllLocks(t) \/ \E x \in Item : BreakLock(t, x)
       PROVE  HoldTypeOK'
  <2>1. UNCHANGED <<alive, holds>> /\ forced' = TRUE
    BY <1>10 DEF BreakAllLocks, BreakLock
  <2> QED BY <1>2, <2>1
<1>11. ASSUME NEW t \in Thread,
              \/ TestUsed(t) \/ TestAvailable(t) \/ PurgeToGoal(t) \/ NotifySizeChanged(t)
              \/ FlushToTargetSize(t) \/ \E n \in PurgeSizes : Purge(t, n)
              \/ \E n \in Targets : SetTargetSize(t, n)
              \/ \E x \in Item, lock \in BOOLEAN : CreateResource(t, x, lock)
              \/ \E x \in Item, n \in Sizes : Resize(t, x, n)
              \/ \E x \in Item : TouchResource(t, x) \/ MarkAsStale(t, x)
       PROVE  HoldTypeOK'
  <2>1. UNCHANGED <<alive, holds, forced>>
    BY <1>11 DEF TestUsed, TestAvailable, PurgeToGoal, NotifySizeChanged, FlushToTargetSize,
                 Purge, SetTargetSize, CreateResource, Resize, TouchResource, MarkAsStale,
                 historyVars
  <2> QED BY <1>1, <2>1
<1>12. CASE UNCHANGED vars
  BY <1>1, <1>12 DEF vars, historyVars
<1> QED BY <1>5, <1>6, <1>7, <1>8, <1>9, <1>10, <1>11, <1>12 DEF Next

TypeInv == IInv /\ TaskTypeOK /\ MemTypeOK /\ HoldTypeOK

\* The variables have their types at the start.
LEMMA InitTypeInv == Init => TypeInv
<1> SUFFICES ASSUME Init PROVE TypeInv
  OBVIOUS
<1>1. TaskTypeOK
  BY TaskKinds DEF Init, TaskTypeOK
<1>2. MemTypeOK
  <2>1. memUsed = 0 /\ target = InitialTarget /\ size = InitialSize /\ touches = 0
    BY DEF Init
  <2>2. crossed \in BOOLEAN
    BY DEF Init
  <2>3. memUsed \in 0 .. WordMod - 1 /\ touches \in 0 .. MaxTouches
    BY <2>1, ManagerAssumption
  <2> QED BY <2>1, <2>2, <2>3, ManagerAssumption DEF MemTypeOK
<1>3. HoldTypeOK
  BY DEF Init, HoldTypeOK
<1> QED BY <1>1, <1>2, <1>3, InitIInv DEF TypeInv

\* Every step keeps the types.
LEMMA NextTypeInv == TypeInv /\ [Next]_vars => TypeInv'
BY NextIInv, TaskTypes, MemTypes, HoldTypes DEF TypeInv, IInv

\* The variables of the manager keep their types: what a thread carries through
\* EnsureCapacity fits the loop, and used memory stays a word.
THEOREM TypeCorrect == Spec => []TypeOK
<1>1. TypeInv => TypeOK
  BY DEF TypeInv, TypeOK, IInv, ListInv, TaskTypeOK, MemTypeOK, HoldTypeOK, Busy
<1> QED BY InitTypeInv, NextTypeInv, <1>1, PTL DEF Spec

-----------------------------------------------------------------------------
(* Which resources the elements hold *)

\* The handle of a resource in the lists is the one its element would get now.
Stored == \A i \in Index : elem[i].store # NoItem => issued[elem[i].store] = ToHandle(i)

\* No two elements hold the same resource.
LEMMA StoredOnce ==
  ASSUME Stored, NEW i \in Index, NEW j \in Index,
         elem[i].store # NoItem, elem[i].store = elem[j].store
  PROVE  i = j
<1>1. ToHandle(i) = ToHandle(j)
  BY DEF Stored
<1>2. ToHandle(i).index = i /\ ToHandle(j).index = j
  BY DEF ToHandle
<1> QED BY <1>1, <1>2

\* A handle leads somewhere just when its resource is in the lists.
LEMMA FoundCached ==
  ASSUME ListInv, Stored, NEW x \in Item
  PROVE  /\ IsFound(x) <=> x \in Cached
         /\ \A i \in Index : elem[i].store = x => IsFound(x) /\ Found(x) = i
<1>1. x # NoItem
  BY ManagerAssumption
<1>2. ASSUME NEW i \in Index, elem[i].store = x PROVE IsFound(x) /\ Found(x) = i
  <2>1. issued[x] = ToHandle(i)
    BY <1>1, <1>2 DEF Stored
  <2>2. issued[x].index = i /\ issued[x].serial = Serial(elem[i])
    BY <2>1 DEF ToHandle
  <2>3. i # 0
    BY ListsPartition DEF ListInv
  <2>4. Found(x) = i
    BY <2>2 DEF Found, FromHandle, Index
  <2>5. issued[x] # NoHandle
    BY <2>2, <2>3 DEF NoHandle
  <2> QED BY <2>3, <2>4, <2>5 DEF IsFound, NoIndex
<1>3. x \in Cached <=> \E i \in Index : elem[i].store = x
  BY <1>1 DEF Cached, Index
<1>4. IsFound(x) => \E i \in Index : elem[i].store = x
  BY FoundHolds DEF IsFound
<1> QED BY <1>2, <1>3, <1>4

\* Resources in the lists are resources.
LEMMA CachedItems ==
  ASSUME ListInv
  PROVE  /\ Cached \subseteq Item
         /\ \A x : x \in Cached <=> x # NoItem /\ \E i \in Index : elem[i].store = x
<1>1. \A i \in Index : elem[i] \in Element
  BY ListsPartition DEF ListInv
<1> QED BY <1>1 DEF Cached, Index, Element

\* Relinking moves no resource.
LEMMA RelinksStores ==
  ASSUME Stored, Relinks
  PROVE  Stored' /\ Cached' = Cached
<1>1. /\ issued' = issued /\ DOMAIN elem' = DOMAIN elem /\ Index' = Index
      /\ \A i \in Index : elem'[i].store = elem[i].store /\ elem'[i].reuses = elem[i].reuses
  BY DEF Relinks, Index
<1>2. \A i \in Index : ToHandle(i)' = ToHandle(i)
  BY <1>1 DEF ToHandle, Serial
<1>3. Stored'
  BY <1>1, <1>2 DEF Stored
<1>4. Cached' = Cached
  BY <1>1 DEF Cached, Index
<1> QED BY <1>3, <1>4

\* Freeing elements takes their resources out of the lists, and no other.
LEMMA FreesStores ==
  ASSUME Stored, NEW S, Frees(S), \A i \in S : elem[i].store # NoItem
  PROVE  Stored' /\ Cached' = Cached \ {elem[i].store : i \in S}
<1>1. /\ issued' = issued /\ S \subseteq Index /\ DOMAIN elem' = DOMAIN elem /\ Index' = Index
      /\ \A i \in Index : /\ i \notin S => elem'[i] = elem[i]
                          /\ i \in S => elem'[i].store = NoItem
  BY DEF Frees, Index
<1>2. \A i \in Index \ S : ToHandle(i)' = ToHandle(i)
  BY <1>1 DEF ToHandle
<1>3. Stored'
  BY <1>1, <1>2 DEF Stored
<1>4. ASSUME NEW x \in Cached' PROVE x \in Cached \ {elem[i].store : i \in S}
  <2>1. PICK i \in Index : elem'[i].store = x /\ x # NoItem
    BY <1>1 DEF Cached, Index
  <2>2. i \notin S /\ elem[i].store = x
    BY <1>1, <2>1
  <2>3. x \in Cached
    BY <2>1, <2>2 DEF Cached, Index
  <2>4. \A j \in S : elem[j].store # x
    BY <1>1, <2>1, <2>2, StoredOnce
  <2> QED BY <2>3, <2>4
<1>5. ASSUME NEW x \in Cached \ {elem[i].store : i \in S} PROVE x \in Cached'
  <2>1. PICK i \in Index : elem[i].store = x /\ x # NoItem
    BY DEF Cached, Index
  <2>2. i \notin S
    BY <2>1, <1>5
  <2>3. elem'[i].store = x /\ i \in DOMAIN elem'
    BY <1>1, <2>1, <2>2 DEF Index
  <2> QED BY <2>1, <2>3 DEF Cached
<1> QED BY <1>3, <1>4, <1>5

\* An element is given to a resource without a handle.
LEMMA InsertStores ==
  ASSUME ListInv, Stored, NEW i, NEW x \in Item, NEW n, StoresIn(i, x, n),
         issued[x] = NoHandle
  PROVE  Stored' /\ Cached' = Cached \cup {x}
<1>1. /\ DOMAIN elem' = Index \cup {i} /\ Index' = Index \cup {i}
      /\ elem'[i].store = x
      /\ i \in Index => elem[i].store = NoItem
      /\ \A j \in Index \ {i} : elem'[j] = elem[j]
      /\ issued' = [issued EXCEPT ![x] = [serial |-> Serial(elem'[i]), index |-> i]]
  BY DEF StoresIn, Index
<1>2. x # NoItem
  BY ManagerAssumption
<1>3. \A y \in Item : y # x => issued'[y] = issued[y]
  BY <1>1 DEF ListInv, ListTypeOK
<1>4. issued'[x] = [serial |-> Serial(elem'[i]), index |-> i]
  BY <1>1 DEF ListInv, ListTypeOK
<1>5. \A j \in Index : elem[j] \in Element
  BY ListsPartition DEF ListInv
<1>6. \A j \in Index : elem[j].store # x
  <2> SUFFICES ASSUME NEW j \in Index, elem[j].store = x PROVE FALSE
    OBVIOUS
  <2>1. IsFound(x)
    BY FoundCached
  <2> QED BY <2>1 DEF IsFound
<1>7. ASSUME NEW j \in Index', elem'[j].store # NoItem
      PROVE  issued'[elem'[j].store] = ToHandle(j)'
  <2>1. CASE j = i
    BY <1>1, <1>4, <2>1 DEF ToHandle
  <2>2. CASE j # i
    <3>1. j \in Index /\ elem'[j] = elem[j]
      BY <1>1, <2>2
    <3>2. elem[j].store \in Item /\ elem[j].store # x
      BY <1>5, <1>6, <1>7, <3>1 DEF Element
    <3>3. issued[elem[j].store] = ToHandle(j)
      BY <1>7, <3>1 DEF Stored
    <3>4. ToHandle(j)' = ToHandle(j)
      BY <3>1 DEF ToHandle
    <3> QED BY <1>3, <3>1, <3>2, <3>3, <3>4
  <2> QED BY <2>1, <2>2
<1>8. Stored'
  BY <1>7 DEF Stored
<1>9. ASSUME NEW y \in Cached' PROVE y \in Cached \cup {x}
  <2>1. PICK j \in Index \cup {i} : elem'[j].store = y /\ y # NoItem
    BY <1>1 DEF Cached
  <2> QED BY <1>1, <2>1 DEF Cached, Index
<1>10. ASSUME NEW y \in Cached \cup {x} PROVE y \in Cached'
  <2>1. CASE y = x
    BY <1>1, <1>2, <2>1 DEF Cached
  <2>2. CASE y # x
    <3>1. PICK j \in Index : elem[j].store = y /\ y # NoItem
      BY <2>2 DEF Cached, Index
    <3>2. elem'[j].store = y /\ j \in DOMAIN elem'
      BY <1>1, <3>1
    <3> QED BY <3>1, <3>2 DEF Cached
  <2> QED BY <2>1, <2>2
<1> QED BY <1>8, <1>9, <1>10

\* A step that leaves lists and handles alone.
LEMMA StillStores ==
  ASSUME Stored, UNCHANGED <<listVars, issued>>
  PROVE  Stored' /\ Cached' = Cached
<1>1. elem' = elem /\ issued' = issued
  BY DEF listVars
<1> QED BY <1>1 DEF Stored, Cached, Index, ToHandle

-----------------------------------------------------------------------------
(* What threads will insert and destroy *)

\* Rest and Pending of a task, and the resource it will insert.
RestOf(c) ==
  IF c.pc \in {"used", "available", "evict"} THEN c.then
  ELSE IF c.pc = "destroy" THEN IF c.next.pc = "used" THEN c.next.then ELSE c.next
  ELSE c
DueOf(c) == IF RestOf(c).pc = "insert" THEN {RestOf(c).item} ELSE {}
PendingOf(c) == IF c.pc = "destroy" THEN InList(c.items) ELSE {}
Due(t) == DueOf(task[t])

\* They are what the model says.
LEMMA RestIs == \A t : Rest(t) = RestOf(task[t]) /\ Pending(t) = PendingOf(task[t])
<1> TAKE t
<1>1. ASSUME task[t].pc \in {"used", "available", "evict"} PROVE Rest(t) = RestOf(task[t])
  BY <1>1 DEF Rest, RestOf
<1>2. ASSUME task[t].pc = "destroy" PROVE Rest(t) = RestOf(task[t])
  BY <1>2 DEF Rest, RestOf
<1>3. ASSUME task[t].pc \notin {"used", "available", "evict", "destroy"} PROVE Rest(t) = RestOf(task[t])
  BY <1>3 DEF Rest, RestOf
<1>4. Pending(t) = PendingOf(task[t])
  BY DEF Pending, PendingOf
<1> QED BY <1>1, <1>2, <1>3, <1>4

\* What there is to do in each kind of task.
LEMMA RestParts ==
  /\ \A c : Continues(c) => RestOf(c) = c
  /\ \A pc \in {"used", "available", "evict"} : \A bytes, then :
       RestOf(Ensuring(pc, bytes, then)) = then
  /\ \A items : RestOf(Destroying(items, Idle)) = Idle
  /\ \A items, bytes, then : RestOf(Destroying(items, Ensuring("used", bytes, then))) = then
  /\ DueOf(Idle) = {}
<1>1. \A c : Continues(c) => RestOf(c) = c
  BY DEF Continues, RestOf
<1>2. \A pc \in {"used", "available", "evict"} : \A bytes, then :
        RestOf(Ensuring(pc, bytes, then)) = then
  BY DEF Ensuring, RestOf
<1>3. \A items : RestOf(Destroying(items, Idle)) = Idle
  BY DEF Destroying, Idle, RestOf
<1>4. \A items, bytes, then : RestOf(Destroying(items, Ensuring("used", bytes, then))) = then
  BY DEF Destroying, Ensuring, RestOf
<1>5. RestOf(Idle) = Idle
  BY DEF RestOf, Idle
<1>6. DueOf(Idle) = {}
  BY <1>5 DEF DueOf, Idle
<1> QED BY <1>1, <1>2, <1>3, <1>4, <1>6

\* Thread t, which has nothing to destroy, goes on to w, which destroys nothing
\* and inserts nothing new.
Proceeds(t, w) ==
  /\ Becomes(t, w)
  /\ DueOf(w) \subseteq Due(t)
  /\ task[t].pc # "destroy" /\ w.pc # "destroy"

\* The steps outside the lock, but for starting to create and destroying.
LEMMA ProceedSteps ==
  ASSUME TasksOK, NEW t \in Thread,
         \/ TestUsed(t) \/ TestAvailable(t) \/ (Evict(t) /\ lru = <<>>)
         \/ PurgeToGoal(t) \/ NotifySizeChanged(t) \/ FlushToTargetSize(t)
         \/ \E n \in PurgeSizes : Purge(t, n)
         \/ \E x \in Item, n \in Sizes : Resize(t, x, n)
  PROVE  /\ \E w : Proceeds(t, w)
         /\ UNCHANGED <<listVars, issued, alive, holds, forced>>
<1>1. Works(task[t])
  BY DEF TasksOK
<1>2. ASSUME task[t].pc \in {"used", "available", "evict"}
      PROVE  /\ Continues(task[t].then) /\ Due(t) = DueOf(task[t].then)
             /\ task[t].then.pc # "destroy"
  <2>1. Continues(task[t].then)
    BY <1>1, <1>2 DEF Works, Loops, Continues
  <2>2. RestOf(task[t]) = task[t].then
    BY <1>2 DEF RestOf
  <2>3. RestOf(task[t].then) = task[t].then
    BY <2>1, RestParts
  <2> QED BY <2>1, <2>2, <2>3 DEF Due, DueOf, Continues
<1>3. UNCHANGED <<listVars, issued, alive, holds, forced>>
  <2>1. CASE \/ TestUsed(t) \/ TestAvailable(t) \/ PurgeToGoal(t) \/ NotifySizeChanged(t)
             \/ FlushToTargetSize(t) \/ \E n \in PurgeSizes : Purge(t, n)
             \/ \E x \in Item, n \in Sizes : Resize(t, x, n)
    BY <2>1 DEF TestUsed, TestAvailable, PurgeToGoal, NotifySizeChanged, FlushToTargetSize,
                Purge, Resize, historyVars
  <2>2. CASE Evict(t) /\ lru = <<>>
    BY <2>2 DEF Evict, historyVars
  <2> QED BY <2>1, <2>2
<1>4. ASSUME NEW w, Becomes(t, w), DueOf(w) = {}, task[t].pc # "destroy", w.pc # "destroy"
      PROVE  \E v : Proceeds(t, v)
  BY <1>4 DEF Proceeds
<1>5. CASE TestUsed(t)
  <2> DEFINE pc == IF memUsed > target THEN "evict" ELSE "available"
             w == Ensuring(pc, task[t].bytes, task[t].then)
  <2>1. pc \in {"used", "available", "evict"}
    OBVIOUS
  <2>2. Becomes(t, w) /\ task[t].pc = "used"
    BY <1>5 DEF TestUsed
  <2> HIDE DEF pc
  <2>3. RestOf(w) = task[t].then
    BY <2>1, RestParts
  <2>4. DueOf(w) = Due(t)
    BY <1>2, <2>2, <2>3, RestParts DEF DueOf
  <2>5. w.pc = pc
    BY DEF Ensuring
  <2> HIDE DEF w
  <2>6. Proceeds(t, w)
    BY <2>1, <2>2, <2>4, <2>5 DEF Proceeds
  <2> QED BY <1>3, <2>6
<1>6. CASE TestAvailable(t)
  <2>0. task[t].pc = "available"
    BY <1>6 DEF TestAvailable
  <2>1. CASE Becomes(t, task[t].then)
    BY <1>2, <1>3, <2>0, <2>1 DEF Proceeds
  <2>2. CASE Becomes(t, Ensuring("evict", task[t].bytes, task[t].then))
    <3> DEFINE w == Ensuring("evict", task[t].bytes, task[t].then)
    <3>1. RestOf(w) = task[t].then
      BY RestParts
    <3>2. DueOf(w) = Due(t)
      BY <1>2, <2>0, <3>1, RestParts DEF DueOf
    <3>3. w.pc = "evict"
      BY DEF Ensuring
    <3> HIDE DEF w
    <3>4. Becomes(t, w)
      BY <2>2 DEF w
    <3>5. Proceeds(t, w)
      BY <2>0, <3>2, <3>3, <3>4 DEF Proceeds
    <3> QED BY <1>3, <3>5
  <2> QED BY <1>6, <2>1, <2>2 DEF TestAvailable
<1>7. CASE Evict(t) /\ lru = <<>>
  <2>1. task[t].pc = "evict" /\ Becomes(t, task[t].then)
    BY <1>7 DEF Evict
  <2>2. Proceeds(t, task[t].then)
    BY <1>2, <2>1 DEF Proceeds
  <2> QED BY <1>3, <2>2
<1>8. CASE PurgeToGoal(t) \/ FlushToTargetSize(t)
  <2>1. PICK bytes : Becomes(t, Ensuring("used", bytes, Idle))
    BY <1>8 DEF FlushToTargetSize, PurgeToGoal
  <2>2. task[t].pc # "destroy"
    BY <1>8 DEF FlushToTargetSize, PurgeToGoal, IsIdle, Idle
  <2>3. RestOf(Ensuring("used", bytes, Idle)) = Idle
    BY RestParts
  <2>4. DueOf(Ensuring("used", bytes, Idle)) = {} /\ Ensuring("used", bytes, Idle).pc = "used"
    BY <2>3 DEF DueOf, Ensuring, Idle
  <2> QED BY <1>3, <1>4, <2>1, <2>2, <2>4
<1>9. CASE NotifySizeChanged(t)
  <2>1. Becomes(t, Idle) /\ task[t].pc = "notify" /\ Idle.pc = "idle"
    BY <1>9 DEF NotifySizeChanged, Idle
  <2> QED BY <1>3, <1>4, <2>1, RestParts
<1>10. ASSUME NEW n \in PurgeSizes, Purge(t, n) PROVE \E v : Proceeds(t, v)
  <2> DEFINE w == [pc |-> "purge", bytes |-> n, goal |-> (memUsed - n) % WordMod]
  <2>1. Becomes(t, w) /\ task[t].pc # "destroy"
    BY <1>10 DEF Purge, IsIdle, Idle
  <2>2. w.pc = "purge"
    OBVIOUS
  <2> HIDE DEF w
  <2>3. DueOf(w) = {}
    BY <2>2 DEF DueOf, RestOf
  <2> QED BY <1>4, <2>1, <2>2, <2>3
<1>11. ASSUME NEW x \in Item, NEW n \in Sizes, Resize(t, x, n) PROVE \E v : Proceeds(t, v)
  <2> DEFINE more == n - size[x]
             notify == [pc |-> "notify", item |-> x, old |-> size[x], new |-> n]
             grows == n > size[x]
  <2>1. /\ Becomes(t, IF grows THEN Ensuring("used", more, notify) ELSE notify)
        /\ task[t].pc # "destroy"
    BY <1>11 DEF Resize, IsIdle, Idle
  <2>2. notify.pc = "notify"
    OBVIOUS
  <2> HIDE DEF notify, more, grows
  <2>3. RestOf(Ensuring("used", more, notify)) = notify /\ RestOf(notify) = notify
    BY <2>2, RestParts DEF RestOf
  <2>4. DueOf(notify) = {} /\ DueOf(Ensuring("used", more, notify)) = {}
        /\ Ensuring("used", more, notify).pc = "used"
    BY <2>2, <2>3 DEF DueOf, Ensuring
  <2> QED BY <1>4, <2>1, <2>2, <2>4
<1> QED BY <1>3, <1>5, <1>6, <1>7, <1>8, <1>9, <1>10, <1>11

\* The threads other than the one that goes on have the same to do.
LEMMA OthersWait ==
  ASSUME TasksOK, NEW t \in Thread, NEW w, Becomes(t, w)
  PROVE  /\ Due(t)' = DueOf(w) /\ Pending(t)' = PendingOf(w) /\ task'[t] = w
         /\ \A u \in Thread \ {t} :
              Due(u)' = Due(u) /\ Pending(u)' = Pending(u) /\ task'[u] = task[u]
<1>1. task'[t] = w /\ \A u \in Thread \ {t} : task'[u] = task[u]
  BY DEF TasksOK, Becomes
<1>2. \A u : Pending(u)' = PendingOf(task'[u]) /\ Due(u)' = DueOf(task'[u])
  BY DEF Pending, PendingOf, Due
<1>3. \A u : Pending(u) = PendingOf(task[u]) /\ Due(u) = DueOf(task[u])
  BY RestIs DEF Due
<1> QED BY <1>1, <1>2, <1>3

-----------------------------------------------------------------------------
(* New resources are new *)

\* Storage exists for resources with a handle only, and what a thread is about
\* to insert has none and is inserted by no other.
Fresh ==
  /\ \A x \in alive : issued[x] # NoHandle
  /\ \A t \in Thread : \A x \in Due(t) :
       issued[x] = NoHandle /\ \A u \in Thread \ {t} : x \notin Due(u)

\* A step after which no thread has more to insert.
LEMMA FreshKept ==
  ASSUME Fresh, issued' = issued, alive' \subseteq alive,
         \A u \in Thread : Due(u)' \subseteq Due(u)
  PROVE  Fresh'
<1>1. \A x \in alive' : issued'[x] # NoHandle
  BY DEF Fresh
<1>2. ASSUME NEW t \in Thread, NEW x \in Due(t)'
      PROVE  issued'[x] = NoHandle /\ \A u \in Thread \ {t} : x \notin Due(u)'
  <2>1. x \in Due(t)
    BY <1>2
  <2> QED BY <2>1 DEF Fresh
<1> QED BY <1>1, <1>2 DEF Fresh

\* CreateResource takes a resource that has no handle and that nobody inserts.
LEMMA CreateFresh ==
  ASSUME TasksOK, Fresh, NEW t \in Thread, NEW x \in Item, NEW lock, CreateResource(t, x, lock)
  PROVE  /\ Fresh'
         /\ \E w : Becomes(t, w) /\ w.pc # "destroy"
         /\ task[t].pc # "destroy"
         /\ UNCHANGED <<listVars, issued, alive, holds, forced>>
<1> DEFINE insert == [pc |-> "insert", item |-> x, lock |-> lock]
           w == Ensuring("used", InitialSize[x], insert)
<1>1. /\ Becomes(t, w) /\ Unused(x) /\ task[t].pc # "destroy"
      /\ UNCHANGED <<listVars, issued, alive, holds, forced>>
  BY DEF CreateResource, IsIdle, Idle, historyVars
<1>2. insert.pc = "insert" /\ insert.item = x
  OBVIOUS
<1> HIDE DEF insert
<1>3. RestOf(w) = insert
  BY RestParts
<1>4. DueOf(w) = {x} /\ w.pc = "used"
  BY <1>2, <1>3 DEF DueOf, Ensuring
<1> HIDE DEF w
<1>5. Due(t)' = {x} /\ \A u \in Thread \ {t} : Due(u)' = Due(u)
  BY <1>1, <1>4, OthersWait
<1>6. issued[x] = NoHandle /\ \A u \in Thread : x \notin Due(u)
  BY <1>1, RestIs DEF Unused, Due, DueOf
<1>7. \A y \in alive' : issued'[y] # NoHandle
  BY <1>1 DEF Fresh
<1>8. ASSUME NEW v \in Thread, NEW y \in Due(v)'
      PROVE  issued'[y] = NoHandle /\ \A u \in Thread \ {v} : y \notin Due(u)'
  <2>1. CASE v = t
    BY <1>1, <1>5, <1>6, <2>1
  <2>2. CASE v # t
    <3>1. y \in Due(v) /\ y # x
      BY <1>5, <1>6, <2>2
    <3> QED BY <1>1, <1>5, <3>1 DEF Fresh
  <2> QED BY <2>1, <2>2
<1>9. Fresh'
  BY <1>7, <1>8 DEF Fresh
<1> QED BY <1>1, <1>4, <1>9

\* What threads are to insert are resources.
LEMMA DueItems ==
  ASSUME TasksOK, NEW t \in Thread
  PROVE  Due(t) \subseteq Item
<1>1. Works(task[t])
  BY DEF TasksOK
<1>2. Continues(RestOf(task[t])) \/ task[t].pc = "purge"
  BY <1>1 DEF Works, Loops, Resumes, Continues, RestOf
<1> QED BY <1>2 DEF Due, DueOf, Continues, RestOf

\* Insert gives the resource its handle and its storage.
LEMMA InsertFresh ==
  ASSUME ListInv, TasksOK, Fresh, alive \subseteq Item,
         NEW t \in Thread, Insert(t), task[t].item \in Item
  PROVE  /\ Fresh'
         /\ issued[task[t].item] = NoHandle
         /\ Becomes(t, Idle) /\ task[t].pc = "insert"
         /\ alive' = alive \cup {task[t].item}
<1> DEFINE x == task[t].item
<1>1. /\ Becomes(t, Idle) /\ task[t].pc = "insert" /\ alive' = alive \cup {x}
      /\ StoresIn(NextIndex, x, IF task[t].lock THEN 1 ELSE 0)
  BY InsertStep DEF Insert
<1>2. Due(t) = {x}
  BY <1>1 DEF Due, DueOf, RestOf
<1>3. issued[x] = NoHandle /\ \A u \in Thread \ {t} : x \notin Due(u)
  BY <1>2 DEF Fresh
<1>4. /\ \A y \in Item : y # x => issued'[y] = issued[y]
      /\ issued'[x].index = NextIndex
  BY <1>1 DEF StoresIn, ListInv, ListTypeOK
<1>5. NextIndex # 0
  <2>1. CASE free = <<>>
    BY <2>1, ListsPartition DEF NextIndex, ListInv
  <2>2. CASE free # <<>>
    BY <2>2, ListsPartition, TailList DEF NextIndex, ListInv, ListTypeOK, ListsAgree
  <2> QED BY <2>1, <2>2
<1>6. issued'[x] # NoHandle
  BY <1>4, <1>5 DEF NoHandle
<1>7. Due(t)' = {} /\ \A u \in Thread \ {t} : Due(u)' = Due(u)
  BY <1>1, OthersWait, RestParts
<1> HIDE DEF x
<1>8. \A y \in alive' : issued'[y] # NoHandle
  BY <1>1, <1>4, <1>6 DEF Fresh
<1>9. ASSUME NEW v \in Thread, NEW y \in Due(v)'
       PROVE  issued'[y] = NoHandle /\ \A u \in Thread \ {v} : y \notin Due(u)'
  <2>1. v # t /\ y \in Due(v) /\ y # x
    BY <1>3, <1>7
  <2>2. issued'[y] = NoHandle
    BY <1>4, <2>1, DueItems DEF Fresh
  <2>3. \A u \in Thread \ {v} : y \notin Due(u)'
    BY <1>7, <2>1 DEF Fresh
  <2> QED BY <2>2, <2>3
<1>10. Fresh'
  BY <1>8, <1>9 DEF Fresh
<1> QED BY <1>1, <1>3, <1>10 DEF x

-----------------------------------------------------------------------------
(* Storage *)

\* Thread t goes on to w, which destroys what t has still to destroy.
LEMMA StorageStill ==
  ASSUME TasksOK, StorageOwned, Cached' = Cached, alive' = alive,
         \/ task' = task
         \/ \E t \in Thread : \E w : Becomes(t, w) /\ task[t].pc # "destroy" /\ w.pc # "destroy"
  PROVE  StorageOwned'
<1>1. \A u \in Thread : Pending(u)' = Pending(u) /\ (task'[u].pc = "destroy" => task'[u] = task[u])
  <2>1. CASE task' = task
    BY <2>1 DEF Pending
  <2>2. ASSUME NEW t \in Thread, NEW w, Becomes(t, w), task[t].pc # "destroy", w.pc # "destroy"
        PROVE  \A u \in Thread : /\ Pending(u)' = Pending(u)
                                 /\ task'[u].pc = "destroy" => task'[u] = task[u]
    <3>1. Pending(t) = {} /\ PendingOf(w) = {}
      BY <2>2 DEF Pending, PendingOf
    <3> QED BY <2>2, <3>1, OthersWait
  <2> QED BY <2>1, <2>2
<1>2. UNION {Pending(t) : t \in Thread}' = UNION {Pending(t) : t \in Thread}
  BY <1>1
<1>3. \A t \in Thread : /\ Pending(t) \cap Cached = {}
                        /\ task[t].pc = "destroy" => Once(task[t].items)
                        /\ \A u \in Thread \ {t} : Pending(t) \cap Pending(u) = {}
  BY DEF StorageOwned
<1>4. \A t \in Thread : /\ Pending(t)' \cap Cached' = {}
                        /\ task'[t].pc = "destroy" => Once(task'[t].items)
                        /\ \A u \in Thread \ {t} : Pending(t)' \cap Pending(u)' = {}
  BY <1>1, <1>3
<1>5. alive' = Cached' \cup UNION {Pending(t) : t \in Thread}'
  BY <1>2 DEF StorageOwned
<1> QED BY <1>4, <1>5 DEF StorageOwned

\* Insert makes storage for a resource that had none.
LEMMA StorageInsert ==
  ASSUME TasksOK, StorageOwned, NEW x, x \notin alive,
         Cached' = Cached \cup {x}, alive' = alive \cup {x},
         NEW t \in Thread, Becomes(t, Idle), task[t].pc = "insert"
  PROVE  StorageOwned'
<1>1. PendingOf(Idle) = {} /\ Pending(t) = {}
  BY DEF PendingOf, Pending, Idle
<1>2. /\ \A u \in Thread : Pending(u)' = Pending(u)
      /\ \A u \in Thread : task'[u].pc = "destroy" => task'[u] = task[u]
  BY <1>1, OthersWait DEF Idle
<1>3. UNION {Pending(u) : u \in Thread}' = UNION {Pending(u) : u \in Thread}
  BY <1>2
<1>4. /\ alive = Cached \cup UNION {Pending(u) : u \in Thread}
      /\ \A v \in Thread : /\ Pending(v) \cap Cached = {}
                           /\ task[v].pc = "destroy" => Once(task[v].items)
                           /\ \A u \in Thread \ {v} : Pending(v) \cap Pending(u) = {}
  BY DEF StorageOwned
<1>5. \A u \in Thread : x \notin Pending(u)
  BY <1>4
<1>6. \A v \in Thread : /\ Pending(v)' \cap Cached' = {}
                        /\ task'[v].pc = "destroy" => Once(task'[v].items)
                        /\ \A u \in Thread \ {v} : Pending(v)' \cap Pending(u)' = {}
  BY <1>2, <1>4, <1>5
<1>7. alive' = Cached' \cup UNION {Pending(u) : u \in Thread}'
  BY <1>3, <1>4
<1> QED BY <1>6, <1>7 DEF StorageOwned

\* The resources of elements that are linked once are there once.
LEMMA StoresOnce ==
  ASSUME ListInv, Stored, NEW list \in Seq(Nat), Once(list),
         InList(list) \subseteq InList(lru) \cup InList(locked)
  PROVE  Once(StoresOf(list))
<1> DEFINE s == StoresOf(list)
<1>1. DOMAIN s = DOMAIN list /\ \A k \in DOMAIN list : s[k] = elem[list[k]].store
  BY DEF StoresOf
<1>2. \A k \in DOMAIN list : list[k] \in Index /\ elem[list[k]].store # NoItem
  <2>1. \A i \in InList(lru) \cup InList(locked) : i \in Index /\ elem[i].store # NoItem
    BY DEF ListInv, ListsAgree
  <2> QED BY <2>1 DEF InList
<1> HIDE DEF s
<1>3. \A k, l \in DOMAIN list : k # l => s[k] # s[l]
  BY <1>1, <1>2, StoredOnce DEF Once
<1> QED BY <1>1, <1>3 DEF Once, s

\* Dropped resources leave the lists and are to be destroyed by the thread that
\* dropped them.
LEMMA StorageDrops ==
  ASSUME ListInv, TasksOK, Stored, StorageOwned,
         NEW t \in Thread, NEW list, NEW next, Drops(t, list, next), task[t].pc # "destroy"
  PROVE  StorageOwned'
<1> DEFINE S == InList(list)
           D == {elem[i].store : i \in S}
           w == Destroying(StoresOf(list), next)
<1>1. /\ list \in Seq(Nat) /\ Once(list) /\ S \subseteq InList(lru) \cup InList(locked)
      /\ Frees(S) /\ Becomes(t, w) /\ alive' = alive
  BY DEF Drops
<1>2. \A i \in S : i \in Index /\ elem[i].store # NoItem
  BY <1>1 DEF ListInv, ListsAgree
<1>3. Cached' = Cached \ D
  BY <1>1, <1>2, FreesStores
<1>4. D \subseteq Cached
  BY <1>2 DEF Cached, Index
<1>5. InList(StoresOf(list)) = D
  BY <1>1, StoresList
<1>6. Once(StoresOf(list))
  BY <1>1, StoresOnce
<1>7. w.pc = "destroy" /\ w.items = StoresOf(list)
  BY DEF Destroying
<1> HIDE DEF w, D
<1>8. PendingOf(w) = D /\ Pending(t) = {}
  BY <1>5, <1>7 DEF PendingOf, Pending
<1>9. /\ Pending(t)' = D /\ task'[t] = w
      /\ \A u \in Thread \ {t} : Pending(u)' = Pending(u) /\ task'[u] = task[u]
  BY <1>1, <1>8, OthersWait
<1>10. /\ alive = Cached \cup UNION {Pending(u) : u \in Thread}
       /\ \A v \in Thread : /\ Pending(v) \cap Cached = {}
                            /\ task[v].pc = "destroy" => Once(task[v].items)
                            /\ \A u \in Thread \ {v} : Pending(v) \cap Pending(u) = {}
  BY DEF StorageOwned
<1>11. UNION {Pending(u) : u \in Thread}' = D \cup UNION {Pending(u) : u \in Thread}
  <2>1. \A u \in Thread : Pending(u)' = IF u = t THEN D ELSE Pending(u)
    BY <1>9
  <2> QED BY <1>8, <2>1
<1>12. \A v \in Thread : /\ Pending(v)' \cap Cached' = {}
                         /\ \A u \in Thread \ {v} : Pending(v)' \cap Pending(u)' = {}
  BY <1>3, <1>4, <1>9, <1>10
<1>13. \A v \in Thread : task'[v].pc = "destroy" => Once(task'[v].items)
  BY <1>6, <1>7, <1>9, <1>10
<1>14. alive' = Cached' \cup UNION {Pending(u) : u \in Thread}'
  BY <1>1, <1>3, <1>4, <1>10, <1>11
<1> QED BY <1>12, <1>13, <1>14 DEF StorageOwned

\* The head of a list in which everything is once is not in its tail.
LEMMA TailOnce ==
  ASSUME NEW S, NEW list \in Seq(S), list # <<>>, Once(list)
  PROVE  /\ Once(Tail(list)) /\ Head(list) \in InList(list)
         /\ InList(Tail(list)) = InList(list) \ {Head(list)}
         /\ Len(list) = 1 => InList(list) = {Head(list)}
<1> DEFINE n == Len(list)
           u == Tail(list)
<1>1. n \in Nat \ {0} /\ DOMAIN list = 1 .. n /\ Head(list) = list[1]
  OBVIOUS
<1>2. DOMAIN u = 1 .. n - 1 /\ \A k \in 1 .. n - 1 : u[k] = list[k + 1]
  BY <1>1
<1> HIDE DEF u, n
<1>3. \A k, l \in 1 .. n : k # l => list[k] # list[l]
  BY <1>1 DEF Once
<1>4. Once(u)
  <2>1. ASSUME NEW k \in 1 .. n - 1, NEW l \in 1 .. n - 1, k # l PROVE u[k] # u[l]
    <3>1. k + 1 \in 1 .. n /\ l + 1 \in 1 .. n /\ k + 1 # l + 1
      BY <1>1, <2>1
    <3> QED BY <1>2, <1>3, <3>1
  <2> QED BY <1>2, <2>1 DEF Once
<1>5. ASSUME NEW x \in InList(u) PROVE x \in InList(list) \ {list[1]}
  <2>1. PICK k \in 1 .. n - 1 : x = u[k]
    BY <1>2 DEF InList
  <2>2. k + 1 \in 1 .. n /\ k + 1 # 1 /\ 1 \in 1 .. n /\ x = list[k + 1]
    BY <1>1, <1>2, <2>1
  <2>3. x # list[1]
    BY <1>3, <2>2
  <2> QED BY <1>1, <2>2, <2>3 DEF InList
<1>6. ASSUME NEW x \in InList(list) \ {list[1]} PROVE x \in InList(u)
  <2>1. PICK k \in 1 .. n : x = list[k]
    BY <1>1 DEF InList
  <2>2. k - 1 \in 1 .. n - 1 /\ (k - 1) + 1 = k
    BY <1>1, <2>1
  <2>3. u[k - 1] = x
    BY <1>2, <2>1, <2>2
  <2> QED BY <1>2, <2>2, <2>3 DEF InList
<1>7. 1 \in 1 .. n
  BY <1>1
<1>8. list[1] \in InList(list)
  BY <1>1, <1>7 DEF InList
<1>9. n = 1 => InList(list) = {list[1]}
  BY <1>1 DEF InList
<1> QED BY <1>1, <1>4, <1>5, <1>6, <1>8, <1>9 DEF u, n

\* Storage is destroyed by the thread that dropped the resource.
LEMMA StorageDestroy ==
  ASSUME ListInv, TasksOK, TaskTypeOK, StorageOwned, Cached' = Cached,
         NEW t \in Thread, DestroyResourceStorage(t)
  PROVE  /\ StorageOwned'
         /\ \E x \in alive \ Cached : alive' = alive \ {x}
         /\ \A u \in Thread : Due(u)' = Due(u)
<1> DEFINE items == task[t].items
           next == task[t].next
           x == Head(items)
           w == IF Len(items) = 1 THEN next ELSE Destroying(Tail(items), next)
<1>1. /\ task[t].pc = "destroy" /\ alive' = alive \ {x} /\ Becomes(t, w)
      /\ items \in Seq(Item \cup {NoItem}) /\ items # <<>>
  BY TaskParts DEF DestroyResourceStorage, TaskTypeOK
<1>2. /\ alive = Cached \cup UNION {Pending(u) : u \in Thread}
      /\ \A v \in Thread : /\ Pending(v) \cap Cached = {}
                           /\ task[v].pc = "destroy" => Once(task[v].items)
                           /\ \A u \in Thread \ {v} : Pending(v) \cap Pending(u) = {}
  BY DEF StorageOwned
<1>3. Pending(t) = InList(items)
  BY <1>1 DEF Pending
<1>4. Resumes(next)
  BY <1>1 DEF TasksOK, Works, Continues, Loops
<1>5. next.pc # "destroy" /\ (Continues(next) \/ (next.pc = "used" /\ Continues(next.then)))
  BY <1>4 DEF Resumes, Continues, Loops
<1>6. Due(t) = DueOf(next)
  <2>1. RestOf(task[t]) = IF next.pc = "used" THEN next.then ELSE next
    BY <1>1 DEF RestOf
  <2>2. CASE next.pc = "used"
    <3>1. RestOf(next) = next.then
      BY <2>2 DEF RestOf
    <3> QED BY <2>1, <2>2, <3>1 DEF Due, DueOf
  <2>3. CASE next.pc # "used"
    <3>1. RestOf(next) = next
      BY <1>5, <2>3, RestParts
    <3> QED BY <2>1, <2>3, <3>1 DEF Due, DueOf
  <2> QED BY <2>2, <2>3
<1>7. Once(items)
  BY <1>1, <1>2
<1> HIDE DEF items, next
<1>8. /\ Once(Tail(items)) /\ x \in InList(items)
      /\ InList(Tail(items)) = InList(items) \ {x}
      /\ Len(items) = 1 => InList(items) = {x}
  BY <1>1, <1>7, TailOnce
<1>9. /\ PendingOf(w) = InList(items) \ {x}
      /\ w.pc = "destroy" => Once(w.items)
      /\ DueOf(w) = Due(t)
  <2>1. CASE Len(items) = 1
    <3>1. w = next
      BY <2>1
    <3> QED BY <1>5, <1>6, <1>8, <2>1, <3>1 DEF PendingOf
  <2>2. CASE Len(items) # 1
    <3>1. w = Destroying(Tail(items), next)
      BY <2>2
    <3> HIDE DEF w
    <3>2. w.pc = "destroy" /\ w.items = Tail(items) /\ w.next = next
      BY <3>1 DEF Destroying
    <3>3. DueOf(w) = DueOf(task[t])
      BY <1>1, <3>2 DEF DueOf, RestOf, next
    <3> QED BY <1>8, <3>2, <3>3 DEF PendingOf, Due
  <2> QED BY <2>1, <2>2
<1> HIDE DEF w, x
<1>10. /\ Pending(t)' = Pending(t) \ {x} /\ task'[t] = w /\ Due(t)' = Due(t)
       /\ \A u \in Thread \ {t} :
            Pending(u)' = Pending(u) /\ task'[u] = task[u] /\ Due(u)' = Due(u)
  BY <1>1, <1>3, <1>9, OthersWait
<1>11. x \in Pending(t)
  BY <1>3, <1>8
<1>12. \A u \in Thread : Pending(u)' = Pending(u) \ {x}
  BY <1>2, <1>10, <1>11
<1>13. UNION {Pending(u) : u \in Thread}' = (UNION {Pending(u) : u \in Thread}) \ {x}
  BY <1>12
<1>14. x \in alive \ Cached
  BY <1>2, <1>11
<1>15. alive' = Cached' \cup UNION {Pending(u) : u \in Thread}'
  BY <1>1, <1>2, <1>13, <1>14
<1>16. \A v \in Thread : /\ Pending(v)' \cap Cached' = {}
                         /\ \A u \in Thread \ {v} : Pending(v)' \cap Pending(u)' = {}
  BY <1>2, <1>12
<1>17. \A v \in Thread : task'[v].pc = "destroy" => Once(task'[v].items)
  BY <1>2, <1>9, <1>10
<1>18. StorageOwned'
  BY <1>15, <1>16, <1>17 DEF StorageOwned
<1> QED BY <1>1, <1>10, <1>14, <1>18

-----------------------------------------------------------------------------
(* Locks *)

\* Until somebody breaks locks: the lock count of an element is the number of
\* locks on its resource that threads have not returned, and there are none on
\* a resource outside the lists.
LocksCounted ==
  ~forced =>
    \A x \in Item : /\ \A i \in Index : elem[i].store = x => elem[i].lockCount = Locks(x)
                    /\ x \notin Cached => Locks(x) = 0

\* Locks counts what each thread holds.
LEMMA LocksNat ==
  ASSUME HoldTypeOK, NEW x \in Item
  PROVE  Locks(x) \in Nat /\ \A t \in Thread : holds[t][x] <= Locks(x)
<1> DEFINE f == [t \in Thread |-> holds[t][x]]
<1>1. IsFiniteSet(Thread)
  BY ManagerAssumption
<1>2. DOMAIN f = Thread /\ \A t \in Thread : f[t] = holds[t][x] /\ f[t] \in Nat
  BY DEF HoldTypeOK
<1>3. Locks(x) = SumFunctionOnSet(f, Thread)
  BY DEF Locks, SumFunction
<1> HIDE DEF f
<1>4. SumFunctionOnSet(f, Thread) \in Nat /\ \A t \in Thread : f[t] <= SumFunctionOnSet(f, Thread)
  BY <1>1, <1>2, SumNat
<1> QED BY <1>2, <1>3, <1>4

\* A thread that takes or returns locks on x changes the number for x, and no other.
LEMMA LocksAt ==
  ASSUME HoldTypeOK, NEW t \in Thread, NEW x \in Item, NEW n \in Nat,
         holds' = [holds EXCEPT ![t][x] = n]
  PROVE  /\ Locks(x)' = Locks(x) + (n - holds[t][x])
         /\ \A y \in Item : y # x => Locks(y)' = Locks(y)
<1>1. IsFiniteSet(Thread)
  BY ManagerAssumption
<1>2. /\ holds'[t][x] = n
      /\ \A u \in Thread, y \in Item : u # t \/ y # x => holds'[u][y] = holds[u][y]
      /\ \A u \in Thread, y \in Item : holds[u][y] \in Nat
  BY DEF HoldTypeOK
<1> DEFINE f(y) == [u \in Thread |-> holds[u][y]]
           g(y) == [u \in Thread |-> holds'[u][y]]
<1>3. \A y \in Item : /\ Locks(y) = SumFunctionOnSet(f(y), Thread)
                      /\ Locks(y)' = SumFunctionOnSet(g(y), Thread)
  BY DEF Locks, SumFunction
<1>4. \A y \in Item, u \in Thread : f(y)[u] = holds[u][y] /\ g(y)[u] = holds'[u][y]
  OBVIOUS
<1> HIDE DEF f, g
<1>5. SumFunctionOnSet(g(x), Thread) = SumFunctionOnSet(f(x), Thread) + (g(x)[t] - f(x)[t])
  BY <1>1, <1>2, <1>4, SumChange
<1>6. ASSUME NEW y \in Item, y # x
      PROVE  SumFunctionOnSet(g(y), Thread) = SumFunctionOnSet(f(y), Thread)
  <2>1. \A u \in Thread : g(y)[u] = f(y)[u]
    BY <1>2, <1>4, <1>6
  <2> QED BY <1>1, <2>1, SumAgree
<1> QED BY <1>2, <1>3, <1>4, <1>5, <1>6

\* A step that leaves the numbers of locks alone.
LEMMA LocksStill ==
  ASSUME holds' = holds
  PROVE  \A x : Locks(x)' = Locks(x)
BY DEF Locks

\* Locks are broken or locked resources destroyed.
LEMMA CountedForced ==
  ASSUME forced'
  PROVE  LocksCounted'
BY DEF LocksCounted

\* A step that changes neither lock counts nor resources.
LEMMA CountedStill ==
  ASSUME LocksCounted, elem' = elem, holds' = holds, forced' = forced
  PROVE  LocksCounted'
<1>1. Index' = Index /\ Cached' = Cached
  BY DEF Index, Cached
<1> QED BY <1>1, LocksStill DEF LocksCounted

\* A step that drops elements drops none that is locked.
LEMMA CountedDrops ==
  ASSUME ListInv, Stored, LocksCounted, NEW t \in Thread, NEW list, NEW next,
         Drops(t, list, next)
  PROVE  LocksCounted'
<1> DEFINE S == InList(list)
<1>1. /\ list \in Seq(Nat) /\ S \subseteq InList(lru) \cup InList(locked)
      /\ Frees(S) /\ holds' = holds
      /\ ~forced' => ~forced /\ \A i \in S : elem[i].lockCount = 0
  BY DEF Drops
<1>2. \A i \in S : i \in Index /\ elem[i].store # NoItem
  BY <1>1 DEF ListInv, ListsAgree
<1>3. Cached' = Cached \ {elem[i].store : i \in S}
  BY <1>1, <1>2, FreesStores
<1>4. /\ Index' = Index
      /\ \A i \in Index : /\ i \notin S => elem'[i] = elem[i]
                          /\ i \in S => elem'[i].store = NoItem
  BY <1>1 DEF Frees, Index
<1> HIDE DEF S
<1> SUFFICES ASSUME ~forced', NEW x \in Item
             PROVE  /\ \A i \in Index' : elem'[i].store = x => elem'[i].lockCount = Locks(x)'
                    /\ x \notin Cached' => Locks(x)' = 0
  BY DEF LocksCounted
<1>5. Locks(x)' = Locks(x)
  BY <1>1, LocksStill
<1>6. /\ \A i \in Index : elem[i].store = x => elem[i].lockCount = Locks(x)
      /\ x \notin Cached => Locks(x) = 0
  BY <1>1 DEF LocksCounted
<1>7. x # NoItem
  BY ManagerAssumption
<1>8. \A i \in Index' : elem'[i].store = x => elem'[i].lockCount = Locks(x)'
  BY <1>4, <1>5, <1>6, <1>7
<1>9. ASSUME x \notin Cached' PROVE Locks(x)' = 0
  <2>1. CASE x \notin Cached
    BY <1>5, <1>6, <2>1
  <2>2. CASE x \in Cached
    <3>1. PICK i \in S : elem[i].store = x
      BY <1>3, <1>9, <2>2
    <3> QED BY <1>1, <1>2, <1>5, <1>6, <3>1
  <2> QED BY <2>1, <2>2
<1> QED BY <1>8, <1>9

\* A new resource is locked by the thread that makes it, or by none.
LEMMA CountedInsert ==
  ASSUME ListInv, Stored, HoldTypeOK, LocksCounted,
         NEW t \in Thread, NEW i, NEW x \in Item, NEW n \in {0, 1}, StoresIn(i, x, n),
         issued[x] = NoHandle, holds' = [holds EXCEPT ![t][x] = n], forced' = forced
  PROVE  LocksCounted'
<1>1. /\ Index' = Index \cup {i} /\ elem'[i].store = x /\ elem'[i].lockCount = n
      /\ \A j \in Index \ {i} : elem'[j] = elem[j]
  BY DEF StoresIn, Index
<1>2. Cached' = Cached \cup {x}
  BY InsertStores
<1>3. x \notin Cached
  BY FoundCached DEF IsFound
<1> SUFFICES ASSUME ~forced', NEW y \in Item
             PROVE  /\ \A j \in Index' : elem'[j].store = y => elem'[j].lockCount = Locks(y)'
                    /\ y \notin Cached' => Locks(y)' = 0
  BY DEF LocksCounted
<1>4. /\ \A j \in Index : elem[j].store = y => elem[j].lockCount = Locks(y)
      /\ y \notin Cached => Locks(y) = 0
      /\ Locks(x) = 0
  BY <1>3 DEF LocksCounted
<1>5. n \in Nat
  OBVIOUS
<1>6. /\ Locks(x)' = Locks(x) + (n - holds[t][x])
      /\ y # x => Locks(y)' = Locks(y)
  BY <1>5, LocksAt
<1>7. holds[t][x] = 0
  <2>1. holds[t][x] \in Nat /\ holds[t][x] <= 0
    BY <1>4, LocksNat DEF HoldTypeOK
  <2> QED BY <2>1
<1>8. Locks(x)' = n
  BY <1>4, <1>5, <1>6, <1>7
<1>9. \A j \in Index : elem[j].store # x
  BY <1>3, CachedItems, ManagerAssumption
<1>10. CASE y = x
  <2>1. \A j \in Index' : elem'[j].store = x => j = i
    BY <1>1, <1>9
  <2> QED BY <1>1, <1>2, <1>8, <1>10, <2>1
<1>11. CASE y # x
  BY <1>1, <1>2, <1>4, <1>6, <1>11
<1> QED BY <1>10, <1>11

\* A thread takes a lock on x, or returns it, and its element counts it.
LEMMA CountedLock ==
  ASSUME ListInv, Stored, HoldTypeOK, LocksCounted, Relinks,
         NEW t \in Thread, NEW x \in Item, NEW k \in {1, -1}, holds[t][x] + k \in Nat,
         holds' = [holds EXCEPT ![t][x] = holds[t][x] + k],
         Found(x) # NoIndex, CountedTo(elem, Found(x), elem[Found(x)].lockCount + k, elem'),
         forced' = forced
  PROVE  LocksCounted'
<1> DEFINE i == Found(x)
<1>1. i \in Index /\ elem[i] \in Element /\ elem[i].store = x
  BY FoundHolds
<1>2. /\ Index' = Index /\ elem'[i].lockCount = elem[i].lockCount + k
      /\ \A j \in Index : j # i => elem'[j] = elem[j]
      /\ \A j \in Index : elem'[j].store = elem[j].store
  BY DEF CountedTo, Index
<1> HIDE DEF i
<1>3. Cached' = Cached
  BY RelinksStores
<1> SUFFICES ASSUME ~forced', NEW y \in Item
             PROVE  /\ \A j \in Index' : elem'[j].store = y => elem'[j].lockCount = Locks(y)'
                    /\ y \notin Cached' => Locks(y)' = 0
  BY DEF LocksCounted
<1> DEFINE n == holds[t][x] + k
<1>4. n \in Nat /\ holds' = [holds EXCEPT ![t][x] = n] /\ holds[t][x] \in Nat
  BY DEF HoldTypeOK
<1>5. n - holds[t][x] = k
  BY <1>4
<1> HIDE DEF n
<1>6. Locks(x)' = Locks(x) + k /\ (y # x => Locks(y)' = Locks(y))
  BY <1>4, <1>5, LocksAt
<1>7. /\ \A j \in Index : elem[j].store = y => elem[j].lockCount = Locks(y)
      /\ y \notin Cached => Locks(y) = 0
      /\ elem[i].lockCount = Locks(x)
  BY <1>1 DEF LocksCounted
<1>8. \A j \in Index : elem[j].store = x => j = i
  BY <1>1, StoredOnce, ManagerAssumption
<1>9. x \in Cached
  BY <1>1, CachedItems, ManagerAssumption
<1>10. CASE y = x
  BY <1>2, <1>3, <1>6, <1>7, <1>8, <1>9, <1>10
<1>11. CASE y # x
  BY <1>1, <1>2, <1>3, <1>6, <1>7, <1>11
<1> QED BY <1>10, <1>11

-----------------------------------------------------------------------------
(* The pool *)

\* The lock count of the element that holds a resource.
CountIn(elems, x) ==
  IF \E i \in DOMAIN elems : elems[i].store = x
  THEN elems[CHOOSE i \in DOMAIN elems : elems[i].store = x].lockCount ELSE 0
Counts == [x \in Item |-> CountIn(elem, x)]
Gone == {x \in Item : issued[x] # NoHandle} \ alive

\* A step of the pool in the terms of the manager.
LEMMA PoolSteps ==
  /\ \A x \in Item, n \in {0, 1} :
       /\ x \notin Cached \cup (alive \ Cached) \cup Gone
       /\ Cached' = Cached \cup {x} /\ Counts' = [Counts EXCEPT ![x] = n]
       /\ alive' \ Cached' = alive \ Cached /\ Gone' = Gone /\ forced' = forced
       => Pool!Next
  /\ \A x \in Item, k \in {1, -1} :
       /\ x \in Cached /\ (k = -1 => Counts[x] > 0)
       /\ Counts' = [Counts EXCEPT ![x] = @ + k]
       /\ Cached' = Cached /\ alive' = alive /\ Gone' = Gone /\ forced' = forced
       => Pool!Next
  /\ \A S \in SUBSET Item :
       /\ S \subseteq Cached /\ S # {}
       /\ (\A x \in S : Counts[x] = 0) \/ forced'
       /\ forced => forced'
       /\ Cached' = Cached \ S /\ alive' \ Cached' = (alive \ Cached) \cup S
       /\ Counts' = [x \in Item |-> IF x \in S THEN 0 ELSE Counts[x]]
       /\ Gone' = Gone
       => Pool!Next
  /\ \A S \in SUBSET Item :
       /\ S \subseteq Cached
       /\ Counts' = [x \in Item |-> IF x \in S THEN 0 ELSE Counts[x]]
       /\ forced' = TRUE
       /\ Cached' = Cached /\ alive' = alive /\ Gone' = Gone
       => Pool!Next
  /\ \A x \in Item :
       /\ x \in alive \ Cached
       /\ alive' \ Cached' = (alive \ Cached) \ {x} /\ Gone' = Gone \cup {x}
       /\ Cached' = Cached /\ Counts' = Counts /\ forced' = forced
       => Pool!Next
  /\ Cached' = Cached /\ alive' = alive /\ Counts' = Counts /\ Gone' = Gone /\ forced' = forced
       => UNCHANGED Pool!poolVars
<1> DEFINE locks == [x \in Item |-> IF \E i \in Index : elem[i].store = x
                     THEN elem[CHOOSE i \in Index : elem[i].store = x].lockCount ELSE 0]
<1>1. locks = Counts /\ locks' = Counts'
  BY DEF Counts, CountIn, Index
<1> HIDE DEF locks
<1>2. ASSUME NEW x \in Item, NEW n \in {0, 1},
             x \notin Cached \cup (alive \ Cached) \cup Gone,
             Cached' = Cached \cup {x}, Counts' = [Counts EXCEPT ![x] = n],
             alive' \ Cached' = alive \ Cached, Gone' = Gone, forced' = forced
      PROVE  Pool!Next
  <2>1. locks' = [locks EXCEPT ![x] = n]
    BY <1>1, <1>2
  <2>2. Pool!Create(x, n)
    BY <1>2, <2>1 DEF Pool!Create, Gone, locks
  <2> QED BY <2>2 DEF Pool!Next
<1>3. ASSUME NEW x \in Item, NEW k \in {1, -1}, x \in Cached, k = -1 => Counts[x] > 0,
             Counts' = [Counts EXCEPT ![x] = @ + k],
             Cached' = Cached, alive' = alive, Gone' = Gone, forced' = forced
      PROVE  Pool!Next
  <2>1. CASE k = 1
    <3>1. locks' = [locks EXCEPT ![x] = @ + 1]
      BY <1>1, <1>3, <2>1
    <3>2. Pool!Lock(x)
      BY <1>3, <3>1 DEF Pool!Lock, Gone, locks
    <3> QED BY <3>2 DEF Pool!Next
  <2>2. CASE k = -1
    <3>1. locks' = [locks EXCEPT ![x] = @ - 1] /\ locks[x] > 0
      <4>1. \A n : n + -1 = n - 1
        OBVIOUS
      <4> QED BY <1>1, <1>3, <2>2, <4>1
    <3>2. Pool!Unlock(x)
      BY <1>3, <3>1 DEF Pool!Unlock, Gone, locks
    <3> QED BY <3>2 DEF Pool!Next
  <2> QED BY <1>3, <2>1, <2>2
<1>4. ASSUME NEW S \in SUBSET Item, S \subseteq Cached, S # {},
             (\A x \in S : Counts[x] = 0) \/ forced', forced => forced',
             Cached' = Cached \ S, alive' \ Cached' = (alive \ Cached) \cup S,
             Counts' = [x \in Item |-> IF x \in S THEN 0 ELSE Counts[x]], Gone' = Gone
      PROVE  Pool!Next
  <2>1. /\ locks' = [x \in Item |-> IF x \in S THEN 0 ELSE locks[x]]
        /\ (\A x \in S : locks[x] = 0) \/ forced'
    BY <1>1, <1>4
  <2>2. Pool!Drop(S)
    BY <1>4, <2>1 DEF Pool!Drop, Gone, locks
  <2> QED BY <2>2 DEF Pool!Next
<1>5. ASSUME NEW S \in SUBSET Item, S \subseteq Cached,
             Counts' = [x \in Item |-> IF x \in S THEN 0 ELSE Counts[x]], forced' = TRUE,
             Cached' = Cached, alive' = alive, Gone' = Gone
      PROVE  Pool!Next
  <2>1. locks' = [x \in Item |-> IF x \in S THEN 0 ELSE locks[x]]
    BY <1>1, <1>5
  <2>2. Pool!BreakLocks(S)
    BY <1>5, <2>1 DEF Pool!BreakLocks, Gone, locks
  <2> QED BY <2>2 DEF Pool!Next
<1>6. ASSUME NEW x \in Item, x \in alive \ Cached,
             alive' \ Cached' = (alive \ Cached) \ {x}, Gone' = Gone \cup {x},
             Cached' = Cached, Counts' = Counts, forced' = forced
      PROVE  Pool!Next
  <2>1. locks' = locks
    BY <1>1, <1>6
  <2>2. Pool!Destroy(x)
    BY <1>6, <2>1 DEF Pool!Destroy, Gone, locks
  <2> QED BY <2>2 DEF Pool!Next
<1>7. ASSUME Cached' = Cached, alive' = alive, Counts' = Counts, Gone' = Gone, forced' = forced
      PROVE  UNCHANGED Pool!poolVars
  <2>1. locks' = locks
    BY <1>1, <1>7
  <2> QED BY <1>7, <2>1 DEF Pool!poolVars, Gone, locks
<1> QED BY <1>2, <1>3, <1>4, <1>5, <1>6, <1>7

\* A resource has the lock count of its element, and none outside the lists.
LEMMA CountsOf ==
  ASSUME NEW elems, NEW x,
         \A i, j \in DOMAIN elems : elems[i].store = x /\ elems[j].store = x => i = j
  PROVE  /\ \A i \in DOMAIN elems : elems[i].store = x => CountIn(elems, x) = elems[i].lockCount
         /\ (\A i \in DOMAIN elems : elems[i].store # x) => CountIn(elems, x) = 0
<1>1. ASSUME NEW i \in DOMAIN elems, elems[i].store = x
      PROVE  CountIn(elems, x) = elems[i].lockCount
  <2> DEFINE j == CHOOSE j \in DOMAIN elems : elems[j].store = x
  <2>1. j \in DOMAIN elems /\ elems[j].store = x
    BY <1>1
  <2> HIDE DEF j
  <2>2. j = i
    BY <1>1, <2>1
  <2>3. CountIn(elems, x) = elems[j].lockCount
    BY <1>1 DEF CountIn, j
  <2> QED BY <2>2, <2>3
<1>2. (\A i \in DOMAIN elems : elems[i].store # x) => CountIn(elems, x) = 0
  BY DEF CountIn
<1> QED BY <1>1, <1>2

\* So it is before a step ...
LEMMA CountsAre ==
  ASSUME Stored, NEW x \in Item
  PROVE  /\ Counts[x] = CountIn(elem, x)
         /\ \A i \in Index : elem[i].store = x => CountIn(elem, x) = elem[i].lockCount
         /\ (\A i \in Index : elem[i].store # x) => CountIn(elem, x) = 0
<1>1. x # NoItem
  BY ManagerAssumption
<1>2. \A i, j \in Index : elem[i].store = x /\ elem[j].store = x => i = j
  BY <1>1, StoredOnce
<1> QED BY <1>2, CountsOf DEF Counts, Index

\* ... and after it.
LEMMA CountsBecome ==
  ASSUME Stored', NEW x \in Item
  PROVE  /\ Counts'[x] = CountIn(elem', x)
         /\ \A i \in Index' : elem'[i].store = x => CountIn(elem', x) = elem'[i].lockCount
         /\ (\A i \in Index' : elem'[i].store # x) => CountIn(elem', x) = 0
<1>1. x # NoItem
  BY ManagerAssumption
<1>2. \A i \in Index' : elem'[i].store = x => issued'[x] = ToHandle(i)'
  BY <1>1 DEF Stored
<1>3. \A i : ToHandle(i)'.index = i
  BY DEF ToHandle
<1>4. \A i, j \in Index' : elem'[i].store = x /\ elem'[j].store = x => i = j
  BY <1>2, <1>3
<1> QED BY <1>4, CountsOf DEF Counts, Index

-----------------------------------------------------------------------------
(* The invariant and the pool, by kinds of steps *)

Sound == Stored /\ Fresh /\ StorageOwned /\ LocksCounted
PoolInv == TypeInv /\ Sound

\* Storage exists for every resource in the lists, and those have a handle.
LEMMA CachedAlive ==
  ASSUME Sound
  PROVE  Cached \subseteq alive
BY DEF Sound, StorageOwned

\* A step that leaves the resources, the lock counts and the storage alone.
LEMMA StillKind ==
  ASSUME PoolInv, NEW t \in Thread, elem' = elem,
         UNCHANGED <<issued, alive, holds, forced>>,
         task' = task \/ \E w : Proceeds(t, w)
  PROVE  Sound' /\ UNCHANGED Pool!poolVars
<1>1. ListInv /\ TasksOK /\ Stored /\ Fresh /\ StorageOwned /\ LocksCounted
  BY DEF PoolInv, TypeInv, IInv, Sound
<1>2. Stored' /\ Cached' = Cached /\ Counts' = Counts /\ Gone' = Gone
  BY <1>1 DEF Stored, Cached, Index, ToHandle, Counts, Gone
<1>3. LocksCounted'
  BY <1>1, CountedStill
<1>4. \A u \in Thread : Due(u)' \subseteq Due(u)
  <2>1. CASE task' = task
    BY <2>1 DEF Due
  <2>2. ASSUME NEW w, Proceeds(t, w) PROVE \A u \in Thread : Due(u)' \subseteq Due(u)
    BY <1>1, <2>2, OthersWait DEF Proceeds
  <2> QED BY <2>1, <2>2
<1>5. Fresh'
  BY <1>1, <1>4, FreshKept
<1>6. StorageOwned'
  BY <1>1, <1>2, StorageStill DEF Proceeds
<1> QED BY <1>2, <1>3, <1>5, <1>6, PoolSteps DEF Sound

\* CreateResource leaves the pool alone.
LEMMA CreateKind ==
  ASSUME PoolInv, NEW t \in Thread, NEW x \in Item, NEW lock, CreateResource(t, x, lock)
  PROVE  Sound' /\ UNCHANGED Pool!poolVars
<1>1. ListInv /\ TasksOK /\ Stored /\ Fresh /\ StorageOwned /\ LocksCounted
  BY DEF PoolInv, TypeInv, IInv, Sound
<1>2. /\ Fresh' /\ \E w : Becomes(t, w) /\ w.pc # "destroy"
      /\ task[t].pc # "destroy"
      /\ UNCHANGED <<listVars, issued, alive, holds, forced>>
  BY <1>1, CreateFresh
<1>3. elem' = elem
  BY <1>2 DEF listVars
<1>4. Stored' /\ Cached' = Cached /\ Counts' = Counts /\ Gone' = Gone
  BY <1>1, <1>2, <1>3 DEF Stored, Cached, Index, ToHandle, Counts, Gone
<1>5. LocksCounted'
  BY <1>1, <1>2, <1>3, CountedStill
<1>6. StorageOwned'
  BY <1>1, <1>2, <1>4, StorageStill
<1> QED BY <1>2, <1>4, <1>5, <1>6, PoolSteps DEF Sound

\* Insert puts the resource into the pool.
LEMMA InsertKind ==
  ASSUME PoolInv, NEW t \in Thread, Insert(t)
  PROVE  Sound' /\ Pool!Next
<1> DEFINE x == task[t].item
           n == IF task[t].lock THEN 1 ELSE 0
<1>1. ListInv /\ TasksOK /\ Stored /\ Fresh /\ StorageOwned /\ LocksCounted
      /\ HoldTypeOK /\ TaskTypeOK
  BY DEF PoolInv, TypeInv, IInv, Sound
<1>2. x \in Item
  BY <1>1, TaskParts DEF Insert, TaskTypeOK
<1>3. /\ Fresh' /\ issued[x] = NoHandle /\ Becomes(t, Idle) /\ task[t].pc = "insert"
      /\ alive' = alive \cup {x}
  BY <1>1, <1>2, InsertFresh DEF HoldTypeOK
<1>4. StoresIn(NextIndex, x, n)
  BY <1>1, <1>2, InsertStep
<1>5. holds' = [holds EXCEPT ![t][x] = n] /\ forced' = forced
  BY DEF Insert
<1>6. n \in {0, 1}
  OBVIOUS
<1> HIDE DEF x, n
<1>7. Stored' /\ Cached' = Cached \cup {x}
  BY <1>1, <1>2, <1>3, <1>4, InsertStores
<1>8. LocksCounted'
  BY <1>1, <1>2, <1>3, <1>4, <1>5, <1>6, CountedInsert
<1>9. x \notin alive
  BY <1>1, <1>3 DEF Fresh
<1>10. StorageOwned'
  BY <1>1, <1>3, <1>7, <1>9, StorageInsert
<1>11. x \notin Cached
  BY <1>1, <1>2, <1>3, FoundCached DEF IsFound
<1>12. x \notin Gone /\ Gone' = Gone
  <2>1. \A y \in Item : y # x => issued'[y] = issued[y]
    BY <1>1, <1>4 DEF StoresIn, ListInv, ListTypeOK
  <2> QED BY <1>3, <2>1 DEF Gone
<1>13. Counts' = [Counts EXCEPT ![x] = n]
  <2>1. /\ Index' = Index \cup {NextIndex} /\ elem'[NextIndex].store = x
        /\ elem'[NextIndex].lockCount = n
        /\ NextIndex \in Index => elem[NextIndex].store = NoItem
        /\ \A j \in Index \ {NextIndex} : elem'[j] = elem[j]
    BY <1>4 DEF StoresIn, Index
  <2>2. CountIn(elem', x) = n
    BY <1>2, <1>7, <2>1, CountsBecome
  <2>3. ASSUME NEW y \in Item, y # x PROVE CountIn(elem', y) = CountIn(elem, y)
    <3>0. y # NoItem
      BY ManagerAssumption
    <3>1. CASE \E i \in Index : elem[i].store = y
      <4>1. PICK i \in Index : elem[i].store = y
        BY <3>1
      <4>2. i \in Index' /\ elem'[i] = elem[i]
        BY <2>1, <3>0, <4>1
      <4> QED BY <1>1, <1>7, <4>1, <4>2, CountsAre, CountsBecome
    <3>2. CASE ~\E i \in Index : elem[i].store = y
      <4>1. \A i \in Index' : elem'[i].store # y
        BY <2>1, <2>3, <3>2
      <4> QED BY <1>1, <1>7, <3>2, <4>1, CountsAre, CountsBecome
    <3> QED BY <3>1, <3>2
  <2> QED BY <2>2, <2>3 DEF Counts
<1>14. alive' \ Cached' = alive \ Cached
  BY <1>3, <1>7, <1>9, <1>11
<1>15. Pool!Next
  BY <1>2, <1>5, <1>6, <1>7, <1>9, <1>11, <1>12, <1>13, <1>14, PoolSteps
<1> QED BY <1>3, <1>7, <1>8, <1>10, <1>15 DEF Sound

\* Dropped elements take their resources out of the pool.
LEMMA DropKind ==
  ASSUME PoolInv, NEW t \in Thread, task[t].pc # "destroy", NEW list, NEW next,
         Drops(t, list, next), DueOf(Destroying(StoresOf(list), next)) \subseteq Due(t)
  PROVE  Sound' /\ Pool!Next
<1> DEFINE S == InList(list)
           D == {elem[i].store : i \in S}
           w == Destroying(StoresOf(list), next)
<1>1. ListInv /\ TasksOK /\ Stored /\ Fresh /\ StorageOwned /\ LocksCounted
  BY DEF PoolInv, TypeInv, IInv, Sound
<1>2. /\ list \in Seq(Nat) /\ S \subseteq InList(lru) \cup InList(locked) /\ list # <<>>
      /\ Frees(S) /\ Becomes(t, w) /\ UNCHANGED <<alive, issued>>
      /\ (\A i \in S : elem[i].lockCount = 0) \/ forced'
      /\ forced => forced'
  BY DEF Drops
<1>3. \A i \in S : i \in Index /\ elem[i].store # NoItem
  BY <1>1, <1>2 DEF ListInv, ListsAgree
<1>4. Stored' /\ Cached' = Cached \ D
  BY <1>1, <1>2, <1>3, FreesStores
<1>5. D \subseteq Cached /\ D \subseteq Item /\ S # {}
  <2>1. D \subseteq Cached
    BY <1>3 DEF Cached, Index
  <2>2. list[1] \in S
    BY <1>2 DEF InList
  <2> QED BY <1>1, <2>1, <2>2, CachedItems
<1>6. LocksCounted'
  BY <1>1, CountedDrops
<1>7. StorageOwned'
  BY <1>1, StorageDrops
<1>8. Fresh'
  <2>1. \A u \in Thread : Due(u)' \subseteq Due(u)
    <3> HIDE DEF w
    <3>1. DueOf(w) \subseteq Due(t)
      BY DEF w
    <3> QED BY <1>1, <1>2, <3>1, OthersWait
  <2> QED BY <1>1, <1>2, <2>1, FreshKept
<1>9. D # {}
  BY <1>5
<1>10. /\ Index' = Index
       /\ \A i \in Index : /\ i \notin S => elem'[i] = elem[i]
                           /\ i \in S => elem'[i].store = NoItem
  BY <1>2 DEF Frees, Index
<1>11. \A x \in D : Counts[x] = 0 \/ forced'
  <2> SUFFICES ASSUME NEW i \in S PROVE Counts[elem[i].store] = 0 \/ forced'
    OBVIOUS
  <2>1. elem[i].store \in Item /\ i \in Index
    BY <1>3, <1>5
  <2>2. Counts[elem[i].store] = elem[i].lockCount
    BY <1>1, <2>1, CountsAre
  <2> QED BY <1>2, <2>2
<1>12. (\A x \in D : Counts[x] = 0) \/ forced'
  BY <1>11
<1>13. ASSUME NEW x \in Item
       PROVE  CountIn(elem', x) = IF x \in D THEN 0 ELSE CountIn(elem, x)
  <2>0. x # NoItem
    BY ManagerAssumption
  <2>1. CASE \E i \in Index \ S : elem[i].store = x
    <3>1. PICK i \in Index \ S : elem[i].store = x
      BY <2>1
    <3>2. x \notin D
      BY <1>1, <1>3, <2>0, <3>1, StoredOnce
    <3>3. i \in Index' /\ elem'[i] = elem[i]
      BY <1>10, <3>1
    <3> QED BY <1>1, <1>4, <3>1, <3>2, <3>3, CountsAre, CountsBecome
  <2>2. CASE ~\E i \in Index \ S : elem[i].store = x
    <3>1. \A i \in Index' : elem'[i].store # x
      BY <1>10, <2>0, <2>2
    <3>2. x \notin D => \A i \in Index : elem[i].store # x
      BY <2>2
    <3> QED BY <1>1, <1>4, <3>1, <3>2, CountsAre, CountsBecome
  <2> QED BY <2>1, <2>2
<1> HIDE DEF S, D, w
<1>14. Counts' = [x \in Item |-> IF x \in D THEN 0 ELSE Counts[x]]
  <2>1. \A x \in Item : Counts[x] = CountIn(elem, x)
    BY DEF Counts
  <2>2. Counts' = [x \in Item |-> CountIn(elem', x)]
    BY DEF Counts
  <2> QED BY <1>13, <2>1, <2>2
<1>15. Cached \subseteq alive
  BY CachedAlive DEF PoolInv
<1>16. alive' \ Cached' = (alive \ Cached) \cup D /\ Gone' = Gone
  BY <1>2, <1>4, <1>5, <1>15 DEF Gone
<1>17. D \in SUBSET Item
  BY <1>5
<1>18. Pool!Next
  BY <1>2, <1>4, <1>5, <1>9, <1>12, <1>14, <1>16, <1>17, PoolSteps
<1> QED BY <1>4, <1>6, <1>7, <1>8, <1>18 DEF Sound

\* A step that relinks elements and leaves the threads to what they do.
LEMMA RelinkKind ==
  ASSUME PoolInv, Relinks, UNCHANGED <<task, alive, issued>>, LocksCounted'
  PROVE  Sound' /\ Cached' = Cached /\ Gone' = Gone /\ alive' = alive
<1>1. ListInv /\ TasksOK /\ Stored /\ Fresh /\ StorageOwned
  BY DEF PoolInv, TypeInv, IInv, Sound
<1>2. Stored' /\ Cached' = Cached
  BY <1>1, RelinksStores
<1>3. Fresh'
  <2>1. \A u \in Thread : Due(u)' \subseteq Due(u)
    BY DEF Due
  <2> QED BY <1>1, <2>1, FreshKept
<1>4. StorageOwned'
  BY <1>1, <1>2, StorageStill
<1> QED BY <1>2, <1>3, <1>4 DEF Sound, Gone

\* What relinking does to the lock counts.
LEMMA RelinkCounts ==
  ASSUME Stored, Stored', Relinks, Cached' = Cached, NEW x \in Item
  PROVE  /\ \A i \in Index : elem[i].store = x =>
              CountIn(elem', x) = elem'[i].lockCount /\ CountIn(elem, x) = elem[i].lockCount
         /\ (\A i \in Index : elem[i].store # x) => CountIn(elem', x) = CountIn(elem, x)
<1>1. Index' = Index /\ \A i \in Index : elem'[i].store = elem[i].store
  BY DEF Relinks, Index
<1> QED BY <1>1, CountsAre, CountsBecome

\* LockResource and UnlockResource lock and unlock a resource of the pool.
LEMMA CountKind ==
  ASSUME PoolInv, Relinks, UNCHANGED <<task, alive, issued, forced>>, LocksCounted',
         NEW x \in Item, NEW k \in {1, -1}, Found(x) # NoIndex,
         k = -1 => elem[Found(x)].lockCount > 0,
         CountedTo(elem, Found(x), elem[Found(x)].lockCount + k, elem')
  PROVE  Sound' /\ Pool!Next
<1>1. ListInv /\ Stored
  BY DEF PoolInv, TypeInv, IInv, Sound
<1>2. Sound' /\ Cached' = Cached /\ Gone' = Gone /\ alive' = alive /\ Stored'
  BY RelinkKind DEF Sound
<1> DEFINE i == Found(x)
<1>3. i \in Index /\ elem[i].store = x
  BY <1>1, FoundHolds
<1>4. /\ elem'[i].lockCount = elem[i].lockCount + k
      /\ \A j \in Index : j # i => elem'[j] = elem[j]
      /\ k = -1 => elem[i].lockCount > 0
  BY DEF CountedTo, Index
<1> HIDE DEF i
<1>5. x \in Cached
  BY <1>1, <1>3, CachedItems, ManagerAssumption
<1>6. CountIn(elem', x) = CountIn(elem, x) + k /\ CountIn(elem, x) = elem[i].lockCount
  BY <1>1, <1>2, <1>3, <1>4, RelinkCounts
<1>7. ASSUME NEW y \in Item, y # x PROVE CountIn(elem', y) = CountIn(elem, y)
  <2>1. CASE \E j \in Index : elem[j].store = y
    <3>1. PICK j \in Index : elem[j].store = y
      BY <2>1
    <3>2. elem'[j] = elem[j]
      BY <1>3, <1>4, <1>7, <3>1
    <3> QED BY <1>1, <1>2, <3>1, <3>2, RelinkCounts
  <2>2. CASE ~\E j \in Index : elem[j].store = y
    BY <1>1, <1>2, <2>2, RelinkCounts
  <2> QED BY <2>1, <2>2
<1>8. Counts' = [Counts EXCEPT ![x] = @ + k] /\ Counts[x] = CountIn(elem, x)
  BY <1>6, <1>7 DEF Counts
<1>9. Pool!Next
  BY <1>2, <1>4, <1>5, <1>6, <1>8, PoolSteps
<1> QED BY <1>2, <1>9

\* BreakLock and BreakAllLocks break locks of resources of the pool.
LEMMA BreakKind ==
  ASSUME PoolInv, Relinks, UNCHANGED <<task, alive, issued>>, forced' = TRUE,
         NEW S \in SUBSET Index,
         \A i \in Index : /\ i \in S => elem'[i].lockCount = 0
                          /\ i \notin S => elem'[i].lockCount = elem[i].lockCount
  PROVE  Sound' /\ Pool!Next
<1> DEFINE D == {elem[i].store : i \in S} \cap Cached
<1>1. ListInv /\ Stored
  BY DEF PoolInv, TypeInv, IInv, Sound
<1>2. Sound' /\ Cached' = Cached /\ Gone' = Gone /\ alive' = alive /\ Stored'
  <2>1. LocksCounted'
    BY CountedForced
  <2> QED BY <2>1, RelinkKind DEF Sound
<1>3. D \in SUBSET Item /\ D \subseteq Cached
  BY <1>1, CachedItems
<1>4. ASSUME NEW x \in Item
      PROVE  CountIn(elem', x) = IF x \in D THEN 0 ELSE CountIn(elem, x)
  <2>0. x # NoItem
    BY ManagerAssumption
  <2>1. CASE \E i \in Index : elem[i].store = x
    <3>1. PICK i \in Index : elem[i].store = x
      BY <2>1
    <3>2. CountIn(elem', x) = elem'[i].lockCount /\ CountIn(elem, x) = elem[i].lockCount
      BY <1>1, <1>2, <3>1, RelinkCounts
    <3>3. x \in D <=> i \in S
      <4>1. x \in Cached
        BY <1>1, <2>0, <3>1, CachedItems
      <4>2. \A j \in S : elem[j].store = x => j = i
        BY <1>1, <2>0, <3>1, StoredOnce
      <4> QED BY <3>1, <4>1, <4>2
    <3> HIDE DEF D
    <3> QED BY <3>1, <3>2, <3>3
  <2>2. CASE ~\E i \in Index : elem[i].store = x
    <3>1. x \notin D
      BY <2>2
    <3> HIDE DEF D
    <3> QED BY <1>1, <1>2, <2>2, <3>1, RelinkCounts
  <2> QED BY <2>1, <2>2
<1> HIDE DEF D
<1>5. Counts' = [x \in Item |-> IF x \in D THEN 0 ELSE Counts[x]]
  <2>1. \A x \in Item : Counts[x] = CountIn(elem, x)
    BY DEF Counts
  <2>2. Counts' = [x \in Item |-> CountIn(elem', x)]
    BY DEF Counts
  <2> QED BY <1>4, <2>1, <2>2
<1>6. Pool!Next
  BY <1>2, <1>3, <1>5, PoolSteps
<1> QED BY <1>2, <1>6

\* DestroyResourceStorage destroys a resource the pool has dropped.
LEMMA DestroyKind ==
  ASSUME PoolInv, NEW t \in Thread, DestroyResourceStorage(t)
  PROVE  Sound' /\ Pool!Next
<1>1. ListInv /\ TasksOK /\ TaskTypeOK /\ Stored /\ Fresh /\ StorageOwned /\ LocksCounted
      /\ HoldTypeOK
  BY DEF PoolInv, TypeInv, IInv, Sound
<1>2. UNCHANGED <<listVars, issued, holds, forced>>
  BY DEF DestroyResourceStorage, historyVars
<1>3. elem' = elem
  BY <1>2 DEF listVars
<1>4. Stored' /\ Cached' = Cached /\ Counts' = Counts
  BY <1>1, <1>2, <1>3 DEF Stored, Cached, Index, ToHandle, Counts
<1>5. /\ StorageOwned' /\ \A u \in Thread : Due(u)' = Due(u)
      /\ \E x \in alive \ Cached : alive' = alive \ {x}
  BY <1>1, <1>4, StorageDestroy
<1>6. PICK x \in alive \ Cached : alive' = alive \ {x}
  BY <1>5
<1>7. LocksCounted'
  BY <1>1, <1>2, <1>3, CountedStill
<1>8. Fresh'
  BY <1>1, <1>2, <1>5, <1>6, FreshKept
<1>9. x \in Item /\ issued[x] # NoHandle
  BY <1>1 DEF HoldTypeOK, Fresh
<1>10. Gone' = Gone \cup {x} /\ alive' \ Cached' = (alive \ Cached) \ {x}
  BY <1>2, <1>4, <1>6, <1>9 DEF Gone
<1>11. Pool!Next
  BY <1>2, <1>4, <1>6, <1>9, <1>10, PoolSteps
<1> QED BY <1>4, <1>5, <1>7, <1>8, <1>11 DEF Sound

-----------------------------------------------------------------------------
(* Every step *)

\* The actions that drop a list leave the thread no more to insert than before.
LEMMA DropStep ==
  ASSUME PoolInv, NEW t \in Thread,
         \/ Evict(t) /\ lru # <<>>
         \/ FlushAllUnlocked(t) \/ FlushAll(t) \/ \E x \in Item : DestroyResource(t, x)
  PROVE  Sound' /\ Pool!Next
<1>1. ListInv /\ TasksOK
  BY DEF PoolInv, TypeInv, IInv
<1>2. PICK list, next :
        /\ Drops(t, list, next)
        /\ \/ next = Idle
           \/ next = Ensuring("used", task[t].bytes, task[t].then) /\ Evict(t)
  BY <1>1, DropsOne
<1>3. task[t].pc # "destroy"
  <2>1. IsIdle(t) => task[t].pc # "destroy"
    BY DEF IsIdle, Idle
  <2>2. CASE Evict(t) /\ lru # <<>>
    BY <2>2 DEF Evict
  <2>3. CASE FlushAllUnlocked(t) \/ FlushAll(t) \/ \E x \in Item : DestroyResource(t, x)
    BY <2>1, <2>3 DEF FlushAllUnlocked, FlushAll, DestroyResource
  <2> QED BY <2>2, <2>3
<1>4. DueOf(Destroying(StoresOf(list), next)) \subseteq Due(t)
  <2> DEFINE w == Destroying(StoresOf(list), next)
  <2>1. CASE next = Idle
    <3>1. RestOf(w) = Idle
      BY <2>1, RestParts
    <3> HIDE DEF w
    <3>2. DueOf(w) = {}
      BY <3>1 DEF DueOf, Idle
    <3> QED BY <3>2 DEF w
  <2>2. CASE next = Ensuring("used", task[t].bytes, task[t].then) /\ Evict(t)
    <3>1. RestOf(w) = task[t].then
      BY <2>2, RestParts
    <3>2. RestOf(task[t]) = task[t].then
      BY <2>2 DEF Evict, RestOf
    <3> HIDE DEF w
    <3>3. DueOf(w) = Due(t)
      BY <3>1, <3>2 DEF DueOf, Due
    <3> QED BY <3>3 DEF w
  <2> QED BY <1>2, <2>1, <2>2
<1> QED BY <1>2, <1>3, <1>4, DropKind

\* The lock of LockResource.
LEMMA LockKind ==
  ASSUME PoolInv, NEW t \in Thread, NEW x \in Item, LockResource(t, x)
  PROVE  Sound' /\ Pool!Next
<1>1. ListInv /\ Stored /\ LocksCounted /\ HoldTypeOK
  BY DEF PoolInv, TypeInv, IInv, Sound
<1>2. Relinks /\ CountedTo(elem, Found(x), elem[Found(x)].lockCount + 1, elem')
  BY <1>1, LockStep
<1>3. /\ Found(x) # NoIndex /\ UNCHANGED <<task, alive, issued, forced>>
      /\ holds' = [holds EXCEPT ![t][elem[Found(x)].store] = @ + 1]
  BY DEF LockResource, IsFound
<1>4. elem[Found(x)].store = x
  BY <1>1, <1>3, FoundHolds
<1>5. holds' = [holds EXCEPT ![t][x] = holds[t][x] + 1] /\ holds[t][x] + 1 \in Nat
  <2>1. holds[t][x] \in Nat
    BY <1>1 DEF HoldTypeOK
  <2>2. holds' = [holds EXCEPT ![t][x] = @ + 1]
    BY <1>3, <1>4
  <2> QED BY <2>1, <2>2
<1>6. LocksCounted'
  BY <1>1, <1>2, <1>3, <1>5, CountedLock
<1> QED BY <1>2, <1>3, <1>6, CountKind

\* The unlock of UnlockResource, which may come after its locks were broken.
LEMMA UnlockKind ==
  ASSUME PoolInv, NEW t \in Thread, NEW x \in Item, UnlockResource(t, x)
  PROVE  Sound' /\ [Pool!Next]_Pool!poolVars
<1>1. ListInv /\ Stored /\ LocksCounted /\ HoldTypeOK
  BY DEF PoolInv, TypeInv, IInv, Sound
<1>2. /\ UNCHANGED <<task, alive, issued, forced>> /\ holds[t][x] > 0
      /\ holds' = [holds EXCEPT ![t][x] = @ - 1]
  BY DEF UnlockResource
<1>3. /\ holds[t][x] \in Nat /\ holds[t][x] + -1 \in Nat
      /\ holds' = [holds EXCEPT ![t][x] = holds[t][x] + -1]
  <2>1. holds[t][x] \in Nat
    BY <1>1 DEF HoldTypeOK
  <2>2. holds[t][x] - 1 = holds[t][x] + -1
    BY <2>1
  <2>3. holds[t][x] + -1 \in Nat
    BY <1>2, <2>1
  <2>4. holds' = [holds EXCEPT ![t][x] = holds[t][x] - 1]
    BY <1>2
  <2> QED BY <2>1, <2>2, <2>3, <2>4
<1>4. CASE Found(x) # NoIndex /\ elem[Found(x)].lockCount > 0
  <2>1. Relinks /\ CountedTo(elem, Found(x), elem[Found(x)].lockCount - 1, elem')
    BY <1>1, <1>4, UnlockStep
  <2>2. elem[Found(x)].lockCount - 1 = elem[Found(x)].lockCount + -1
    <3>1. elem[Found(x)].lockCount \in Nat
      BY <1>1, <1>4, FoundHolds DEF Element
    <3> QED BY <3>1
  <2>3. CountedTo(elem, Found(x), elem[Found(x)].lockCount + -1, elem')
    BY <2>1, <2>2
  <2>4. LocksCounted'
    BY <1>1, <1>2, <1>3, <1>4, <2>1, <2>3, CountedLock
  <2> QED BY <1>2, <1>4, <2>1, <2>3, <2>4, CountKind
<1>5. CASE ~(Found(x) # NoIndex /\ elem[Found(x)].lockCount > 0)
  <2>1. UNCHANGED <<listVars, issued>>
    BY <1>1, <1>5, UnlockStep
  <2>2. elem' = elem
    BY <2>1 DEF listVars
  <2>3. forced
    <3> SUFFICES ASSUME ~forced PROVE FALSE
      OBVIOUS
    <3>1. Locks(x) > 0
      BY <1>1, <1>2, <1>3, LocksNat
    <3>2. x \in Cached
      BY <1>1, <3>1 DEF LocksCounted
    <3>3. PICK i \in Index : elem[i].store = x
      BY <1>1, <3>2, CachedItems
    <3>4. Found(x) = i /\ Found(x) # NoIndex
      BY <1>1, <3>3, FoundCached DEF IsFound
    <3>5. elem[i].lockCount = Locks(x)
      BY <1>1, <3>3 DEF LocksCounted
    <3> QED BY <1>5, <3>1, <3>4, <3>5
  <2>4. LocksCounted'
    BY <1>2, <2>3, CountedForced
  <2>5. Stored /\ Fresh /\ StorageOwned /\ TasksOK
    BY DEF PoolInv, TypeInv, IInv, Sound
  <2>6. Stored' /\ Cached' = Cached /\ Counts' = Counts /\ Gone' = Gone
    BY <1>2, <2>1, <2>2, <2>5 DEF Stored, Cached, Index, ToHandle, Counts, Gone
  <2>7. Fresh'
    <3>1. \A u \in Thread : Due(u)' \subseteq Due(u)
      BY <1>2 DEF Due
    <3> QED BY <1>2, <2>5, <3>1, FreshKept
  <2>8. StorageOwned'
    BY <1>2, <2>5, <2>6, StorageStill
  <2> QED BY <1>2, <2>4, <2>6, <2>7, <2>8, PoolSteps DEF Sound
<1> QED BY <1>4, <1>5

\* Breaking one lock or all of them.
LEMMA BreakStep ==
  ASSUME PoolInv, NEW t \in Thread, BreakAllLocks(t) \/ \E x \in Item : BreakLock(t, x)
  PROVE  Sound' /\ Pool!Next
<1>1. ListInv
  BY DEF PoolInv, TypeInv, IInv
<1>2. UNCHANGED <<task, alive, issued>> /\ forced' = TRUE
  BY DEF BreakAllLocks, BreakLock
<1>3. CASE BreakAllLocks(t)
  <2>1. Relinks /\ \A i \in Index : elem'[i].lockCount = 0
    BY <1>1, <1>3, BreakAllLocksStep
  <2>2. Index \in SUBSET Index
    OBVIOUS
  <2> QED BY <1>2, <2>1, <2>2, BreakKind
<1>4. ASSUME NEW x \in Item, BreakLock(t, x) PROVE Sound' /\ Pool!Next
  <2>1. Relinks /\ CountedTo(elem, Found(x), 0, elem')
    BY <1>1, <1>4, BreakLockStep
  <2>2. Found(x) \in Index
    BY <1>1, <1>4, FoundHolds DEF BreakLock, IsFound
  <2> DEFINE S == {Found(x)}
  <2>3. S \in SUBSET Index
    BY <2>2
  <2>4. \A i \in Index : /\ i \in S => elem'[i].lockCount = 0
                         /\ i \notin S => elem'[i].lockCount = elem[i].lockCount
    BY <2>1 DEF CountedTo, Index
  <2> HIDE DEF S
  <2> QED BY <1>2, <2>1, <2>3, <2>4, BreakKind
<1> QED BY <1>3, <1>4

\* TouchResource, MarkAsStale, SetTargetSize, and what goes on outside the lock.
LEMMA QuietStep ==
  ASSUME PoolInv, NEW t \in Thread,
         \/ TestUsed(t) \/ TestAvailable(t) \/ (Evict(t) /\ lru = <<>>)
         \/ PurgeToGoal(t) \/ NotifySizeChanged(t) \/ FlushToTargetSize(t)
         \/ \E n \in PurgeSizes : Purge(t, n)
         \/ \E x \in Item, n \in Sizes : Resize(t, x, n)
         \/ \E n \in Targets : SetTargetSize(t, n)
         \/ \E x \in Item : TouchResource(t, x) \/ MarkAsStale(t, x)
  PROVE  Sound' /\ UNCHANGED Pool!poolVars
<1>1. ListInv /\ TasksOK
  BY DEF PoolInv, TypeInv, IInv
<1>2. CASE \E n \in Targets : SetTargetSize(t, n)
  <2>1. elem' = elem /\ task' = task /\ UNCHANGED <<issued, alive, holds, forced>>
    BY <1>2 DEF SetTargetSize, listVars
  <2> QED BY <2>1, StillKind
<1>3. CASE \E x \in Item : TouchResource(t, x) \/ MarkAsStale(t, x)
  <2>1. elem' = elem
    BY <1>1, <1>3, TouchStep
  <2>2. task' = task /\ UNCHANGED <<issued, alive, holds, forced>>
    BY <1>3 DEF TouchResource, MarkAsStale, historyVars
  <2> QED BY <2>1, <2>2, StillKind
<1>4. CASE \/ TestUsed(t) \/ TestAvailable(t) \/ (Evict(t) /\ lru = <<>>)
           \/ PurgeToGoal(t) \/ NotifySizeChanged(t) \/ FlushToTargetSize(t)
           \/ \E n \in PurgeSizes : Purge(t, n)
           \/ \E x \in Item, n \in Sizes : Resize(t, x, n)
  <2>1. (\E w : Proceeds(t, w)) /\ UNCHANGED <<listVars, issued, alive, holds, forced>>
    BY <1>1, <1>4, ProceedSteps
  <2>2. elem' = elem
    BY <2>1 DEF listVars
  <2> QED BY <2>1, <2>2, StillKind
<1> QED BY <1>2, <1>3, <1>4

\* Every step of the manager keeps the invariant and is a step of the pool, or
\* none.
LEMMA NextSound ==
  ASSUME PoolInv, [Next]_vars
  PROVE  Sound' /\ [Pool!Next]_Pool!poolVars
<1> DEFINE Ok == Sound' /\ [Pool!Next]_Pool!poolVars
<1>1. Sound' /\ Pool!Next => Ok
  OBVIOUS
<1>2. Sound' /\ UNCHANGED Pool!poolVars => Ok
  OBVIOUS
<1>3. ASSUME NEW t \in Thread,
             \/ Evict(t) \/ FlushAllUnlocked(t) \/ FlushAll(t)
             \/ \E x \in Item : DestroyResource(t, x)
      PROVE  Ok
  <2>1. CASE Evict(t) /\ lru = <<>>
    BY <1>2, <2>1, QuietStep
  <2>2. CASE ~(Evict(t) /\ lru = <<>>)
    BY <1>1, <1>3, <2>2, DropStep
  <2> QED BY <2>1, <2>2
<1>4. ASSUME NEW t \in Thread,
             \/ TestUsed(t) \/ TestAvailable(t)
             \/ PurgeToGoal(t) \/ NotifySizeChanged(t) \/ FlushToTargetSize(t)
             \/ \E n \in PurgeSizes : Purge(t, n)
             \/ \E x \in Item, n \in Sizes : Resize(t, x, n)
             \/ \E n \in Targets : SetTargetSize(t, n)
             \/ \E x \in Item : TouchResource(t, x) \/ MarkAsStale(t, x)
      PROVE  Ok
  BY <1>2, <1>4, QuietStep
<1>5. ASSUME NEW t \in Thread, BreakAllLocks(t) \/ \E x \in Item : BreakLock(t, x)
      PROVE  Ok
  BY <1>1, <1>5, BreakStep
<1>6. ASSUME NEW t \in Thread, NEW x \in Item, LockResource(t, x) PROVE Ok
  BY <1>1, <1>6, LockKind
<1>7. ASSUME NEW t \in Thread, NEW x \in Item, UnlockResource(t, x) PROVE Ok
  BY <1>7, UnlockKind
<1>8. ASSUME NEW t \in Thread, NEW x \in Item, NEW lock \in BOOLEAN, CreateResource(t, x, lock)
      PROVE  Ok
  BY <1>2, <1>8, CreateKind
<1>9. ASSUME NEW t \in Thread, Insert(t) PROVE Ok
  BY <1>1, <1>9, InsertKind
<1>10. ASSUME NEW t \in Thread, DestroyResourceStorage(t) PROVE Ok
  BY <1>1, <1>10, DestroyKind
<1>11. CASE UNCHANGED vars
  <2>1. Stored /\ Fresh /\ StorageOwned /\ LocksCounted /\ TasksOK
    BY DEF PoolInv, TypeInv, IInv, Sound
  <2>2. elem' = elem /\ UNCHANGED <<issued, alive, holds, forced, task>>
    BY <1>11 DEF vars, listVars, historyVars
  <2>3. Stored' /\ Cached' = Cached /\ Counts' = Counts /\ Gone' = Gone
    BY <2>1, <2>2 DEF Stored, Cached, Index, ToHandle, Counts, Gone
  <2>4. LocksCounted' /\ Fresh'
    <3>1. \A u \in Thread : Due(u)' \subseteq Due(u)
      BY <2>2 DEF Due
    <3> QED BY <2>1, <2>2, <3>1, CountedStill, FreshKept
  <2>5. StorageOwned'
    BY <2>1, <2>2, <2>3, StorageStill
  <2> QED BY <1>2, <2>2, <2>3, <2>4, <2>5, PoolSteps DEF Sound
<1> QED BY <1>3, <1>4, <1>5, <1>6, <1>7, <1>8, <1>9, <1>10, <1>11 DEF Next

\* At the start there is nothing.
LEMMA InitSound == Init => Sound /\ Pool!Init
<1> SUFFICES ASSUME Init PROVE Sound /\ Pool!Init
  OBVIOUS
<1>1. /\ Index = {} /\ alive = {} /\ forced = FALSE /\ elem = <<>>
      /\ \A t \in Thread : task[t] = Idle
      /\ \A x \in Item : issued[x] = NoHandle
      /\ holds = [t \in Thread |-> [x \in Item |-> 0]]
  BY DEF Init, Index
<1>2. Cached = {} /\ Stored
  BY <1>1 DEF Cached, Stored, Index
<1>3. Fresh
  BY <1>1, RestParts DEF Fresh, Due
<1>4. StorageOwned
  BY <1>1, <1>2 DEF StorageOwned, Pending, Idle
<1>5. LocksCounted
  <2>1. HoldTypeOK
    BY InitTypeInv DEF TypeInv
  <2>2. ASSUME NEW x \in Item PROVE Locks(x) = 0
    <3> DEFINE f == [t \in Thread |-> holds[t][x]]
    <3>1. \A t \in Thread : f[t] = 0
      BY <1>1
    <3>2. Locks(x) = SumFunctionOnSet(f, Thread)
      BY DEF Locks, SumFunction
    <3> HIDE DEF f
    <3>3. IsFiniteSet(Thread) /\ \A t \in Thread : f[t] \in Int
      BY <3>1, ManagerAssumption
    <3>4. ~(SumFunctionOnSet(f, Thread) > 0)
      BY <3>1, <3>3, SumPositive
    <3>5. Locks(x) \in Nat
      BY <2>1, LocksNat
    <3> QED BY <3>2, <3>4, <3>5
  <2> QED BY <1>1, <2>2 DEF LocksCounted
<1>6. Pool!Init
  BY <1>1, <1>2 DEF Pool!Init
<1> QED BY <1>2, <1>3, <1>4, <1>5, <1>6 DEF Sound

\* The strengthened invariant is an invariant.
LEMMA PoolInvAlways == Spec => []PoolInv
<1>1. Init => PoolInv
  BY InitTypeInv, InitSound DEF PoolInv
<1>2. PoolInv /\ [Next]_vars => PoolInv'
  <2> SUFFICES ASSUME PoolInv, [Next]_vars PROVE TypeInv' /\ Sound'
    BY DEF PoolInv
  <2>1. TypeInv'
    BY NextTypeInv DEF PoolInv
  <2> QED BY <2>1, NextSound
<1> QED BY <1>1, <1>2, PTL DEF Spec

\* Storage exists for the resources in the lists and for those a thread is still
\* to destroy: DestroyResourceStorage, called outside the lock, neither loses a
\* resource nor gets one twice.
THEOREM StorageCorrect == Spec => []StorageOwned
<1>1. PoolInv => StorageOwned
  BY DEF PoolInv, Sound
<1> QED BY PoolInvAlways, <1>1, PTL

\* Until somebody breaks locks, a locked resource stays in the lists with its
\* storage, and its lock count is the number of locks not returned.
THEOREM LocksAlwaysProtect == Spec => []LocksProtect
<1>1. PoolInv => LocksProtect
  <2> SUFFICES ASSUME PoolInv, ~forced, NEW x \in Item
               PROVE  /\ Locks(x) > 0 => IsFound(x) /\ x \in alive
                      /\ IsFound(x) => elem[Found(x)].lockCount = Locks(x)
    BY DEF LocksProtect
  <2>1. ListInv /\ Stored /\ LocksCounted /\ Cached \subseteq alive
    BY CachedAlive DEF PoolInv, TypeInv, IInv, Sound
  <2>2. Locks(x) > 0 => IsFound(x) /\ x \in alive
    BY <2>1, FoundCached DEF LocksCounted
  <2>3. ASSUME IsFound(x) PROVE elem[Found(x)].lockCount = Locks(x)
    <3>1. Found(x) \in Index /\ elem[Found(x)].store = x
      BY <2>1, <2>3, FoundHolds DEF IsFound
    <3> QED BY <2>1, <3>1 DEF LocksCounted
  <2> QED BY <2>2, <2>3
<1> QED BY PoolInvAlways, <1>1, PTL

\* The manager implements the pool: whatever the threads do in which order, a
\* resource is created, dropped and destroyed once, in that order, and while it
\* is locked it is dropped only when a caller forces it.
THEOREM PoolImplemented == Spec => ImplementsPool
<1>1. Init => Pool!Init
  BY InitSound
<1>2. PoolInv /\ [Next]_vars => [Pool!Next]_Pool!poolVars
  BY NextSound
<1> QED BY PoolInvAlways, <1>1, <1>2, PTL DEF Spec, ImplementsPool, Pool!Spec

-----------------------------------------------------------------------------
(* Used memory *)

\* What threads have to do after a step.
LEMMA RestWill == \A t : Rest(t)' = RestOf(task'[t])
<1> TAKE t
<1>1. ASSUME task'[t].pc \in {"used", "available", "evict"} PROVE Rest(t)' = RestOf(task'[t])
  BY <1>1 DEF Rest, RestOf
<1>2. ASSUME task'[t].pc = "destroy" PROVE Rest(t)' = RestOf(task'[t])
  BY <1>2 DEF Rest, RestOf
<1>3. ASSUME task'[t].pc \notin {"used", "available", "evict", "destroy"}
      PROVE  Rest(t)' = RestOf(task'[t])
  BY <1>3 DEF Rest, RestOf
<1> QED BY <1>1, <1>2, <1>3

\* Thread t has the same change of size to notify as before, or none as before.
Keeps(t) ==
  \/ Rest(t)' = Rest(t)
  \/ Rest(t).pc # "notify" /\ Rest(t)'.pc # "notify"

\* Every thread does, but for the one that changes a size or notifies it.
LEMMA AllKeep ==
  ASSUME TasksOK, [Next]_vars,
         \A t \in Thread : ~NotifySizeChanged(t) /\ \A x \in Item, n \in Sizes : ~Resize(t, x, n)
  PROVE  \A u \in Thread : Keeps(u)
<1>1. ASSUME NEW t \in Thread, NEW w, Becomes(t, w),
             \/ RestOf(w) = RestOf(task[t])
             \/ RestOf(w).pc # "notify" /\ RestOf(task[t]).pc # "notify"
      PROVE  \A u \in Thread : Keeps(u)
  <2>1. task'[t] = w /\ \A u \in Thread \ {t} : task'[u] = task[u]
    BY <1>1 DEF TasksOK, Becomes
  <2> QED BY <1>1, <2>1, RestIs, RestWill DEF Keeps
<1>2. ASSUME task' = task PROVE \A u \in Thread : Keeps(u)
  BY <1>2, RestIs, RestWill DEF Keeps
<1>3. \A t \in Thread : IsIdle(t) => RestOf(task[t]).pc # "notify"
  BY DEF IsIdle, Idle, RestOf
<1>4. \A t \in Thread : Works(task[t])
  BY DEF TasksOK
<1>5. ASSUME NEW t \in Thread, task[t].pc \in {"used", "available", "evict"}
      PROVE  RestOf(task[t]) = task[t].then /\ RestOf(task[t].then) = task[t].then
  <2>1. Continues(task[t].then)
    BY <1>4, <1>5 DEF Works, Loops, Continues
  <2> QED BY <1>5, <2>1, RestParts DEF RestOf
<1>6. RestOf(Idle).pc # "notify"
  BY DEF RestOf, Idle
<1>7. ASSUME NEW t \in Thread, TestUsed(t) PROVE \A u \in Thread : Keeps(u)
  <2> DEFINE pc == IF memUsed > target THEN "evict" ELSE "available"
  <2>1. pc \in {"used", "available", "evict"}
    OBVIOUS
  <2>2. Becomes(t, Ensuring(pc, task[t].bytes, task[t].then)) /\ task[t].pc = "used"
    BY <1>7 DEF TestUsed
  <2> HIDE DEF pc
  <2>3. RestOf(Ensuring(pc, task[t].bytes, task[t].then)) = RestOf(task[t])
    BY <1>5, <2>1, <2>2, RestParts
  <2> QED BY <1>1, <2>2, <2>3
<1>8. ASSUME NEW t \in Thread, TestAvailable(t) PROVE \A u \in Thread : Keeps(u)
  <2>1. task[t].pc = "available"
    BY <1>8 DEF TestAvailable
  <2>2. RestOf(Ensuring("evict", task[t].bytes, task[t].then)) = RestOf(task[t])
        /\ RestOf(task[t].then) = RestOf(task[t])
    BY <1>5, <2>1, RestParts
  <2>3. \/ Becomes(t, Ensuring("evict", task[t].bytes, task[t].then))
        \/ Becomes(t, task[t].then)
    BY <1>8 DEF TestAvailable
  <2> QED BY <1>1, <2>2, <2>3
<1>9. ASSUME NEW t \in Thread, Evict(t) PROVE \A u \in Thread : Keeps(u)
  <2>1. task[t].pc = "evict"
    BY <1>9 DEF Evict
  <2>2. CASE lru = <<>>
    <3>1. Becomes(t, task[t].then)
      BY <1>9, <2>2 DEF Evict
    <3> QED BY <1>1, <1>5, <2>1, <3>1
  <2>3. CASE lru # <<>>
    <3> DEFINE w == Destroying(StoresOf(<<Head(lru)>>),
                               Ensuring("used", task[t].bytes, task[t].then))
    <3>1. Becomes(t, w)
      BY <1>9, <2>3 DEF Evict
    <3>2. RestOf(w) = task[t].then
      BY RestParts
    <3> HIDE DEF w
    <3> QED BY <1>1, <1>5, <2>1, <3>1, <3>2
  <2> QED BY <2>2, <2>3
<1>10. ASSUME NEW t \in Thread, DestroyResourceStorage(t) PROVE \A u \in Thread : Keeps(u)
  <2> DEFINE next == task[t].next
             w == IF Len(task[t].items) = 1 THEN next
                  ELSE Destroying(Tail(task[t].items), next)
  <2>1. Becomes(t, w) /\ task[t].pc = "destroy"
    BY <1>10 DEF DestroyResourceStorage
  <2>2. Resumes(next)
    BY <1>4, <2>1 DEF Works, Continues, Loops
  <2>3. RestOf(task[t]) = IF next.pc = "used" THEN next.then ELSE next
    BY <2>1 DEF RestOf
  <2> HIDE DEF next
  <2>4. RestOf(next) = IF next.pc = "used" THEN next.then ELSE next
    <3>1. CASE Continues(next)
      BY <3>1, RestParts DEF Continues
    <3>2. CASE next.pc = "used"
      BY <3>2 DEF RestOf
    <3> QED BY <2>2, <3>1, <3>2 DEF Resumes
  <2>5. RestOf(w) = RestOf(task[t])
    <3>1. CASE Len(task[t].items) = 1
      BY <2>3, <2>4, <3>1
    <3>2. CASE Len(task[t].items) # 1
      <4>1. RestOf(Destroying(Tail(task[t].items), next)) =
              IF next.pc = "used" THEN next.then ELSE next
        BY DEF RestOf, Destroying
      <4> QED BY <2>3, <3>2, <4>1
    <3> QED BY <3>1, <3>2
  <2> HIDE DEF w
  <2> QED BY <1>1, <2>1, <2>5
<1>11. ASSUME NEW t \in Thread, Insert(t) PROVE \A u \in Thread : Keeps(u)
  <2>1. Becomes(t, Idle) /\ task[t].pc = "insert"
    BY <1>11 DEF Insert
  <2>2. RestOf(task[t]).pc # "notify"
    BY <2>1 DEF RestOf
  <2> QED BY <1>1, <1>6, <2>1, <2>2
<1>12. ASSUME NEW t \in Thread, PurgeToGoal(t) \/ FlushToTargetSize(t)
       PROVE  \A u \in Thread : Keeps(u)
  <2>1. PICK bytes : Becomes(t, Ensuring("used", bytes, Idle))
    BY <1>12 DEF FlushToTargetSize, PurgeToGoal
  <2>2. RestOf(task[t]).pc # "notify"
    BY <1>3, <1>12 DEF FlushToTargetSize, PurgeToGoal, RestOf
  <2>3. RestOf(Ensuring("used", bytes, Idle)) = Idle
    BY RestParts
  <2>4. Idle.pc # "notify"
    BY DEF Idle
  <2> QED BY <1>1, <2>1, <2>2, <2>3, <2>4
<1>13. ASSUME NEW t \in Thread, NEW n \in PurgeSizes, Purge(t, n)
       PROVE  \A u \in Thread : Keeps(u)
  <2> DEFINE w == [pc |-> "purge", bytes |-> n, goal |-> (memUsed - n) % WordMod]
  <2>1. Becomes(t, w) /\ RestOf(task[t]).pc # "notify"
    BY <1>3, <1>13 DEF Purge
  <2>2. w.pc = "purge"
    OBVIOUS
  <2> HIDE DEF w
  <2>3. RestOf(w).pc # "notify"
    BY <2>2 DEF RestOf
  <2> QED BY <1>1, <2>1, <2>3
<1>14. ASSUME NEW t \in Thread, NEW x \in Item, NEW lock \in BOOLEAN, CreateResource(t, x, lock)
       PROVE  \A u \in Thread : Keeps(u)
  <2> DEFINE insert == [pc |-> "insert", item |-> x, lock |-> lock]
  <2>1. Becomes(t, Ensuring("used", InitialSize[x], insert)) /\ RestOf(task[t]).pc # "notify"
    BY <1>3, <1>14 DEF CreateResource
  <2>2. insert.pc # "notify"
    OBVIOUS
  <2> HIDE DEF insert
  <2>3. RestOf(Ensuring("used", InitialSize[x], insert)).pc # "notify"
    BY <2>2, RestParts
  <2> QED BY <1>1, <2>1, <2>3
<1>15. ASSUME NEW t \in Thread,
              FlushAllUnlocked(t) \/ FlushAll(t) \/ \E x \in Item : DestroyResource(t, x)
       PROVE  \A u \in Thread : Keeps(u)
  <2>1. PICK items : Becomes(t, Destroying(items, Idle))
    BY <1>15 DEF FlushAllUnlocked, FlushAll, DestroyResource
  <2>2. IsIdle(t)
    BY <1>15 DEF FlushAllUnlocked, FlushAll, DestroyResource
  <2>3. RestOf(Destroying(items, Idle)) = Idle
    BY RestParts
  <2>4. Idle.pc # "notify"
    BY DEF Idle
  <2> QED BY <1>1, <1>3, <2>1, <2>2, <2>3, <2>4
<1>16. ASSUME NEW t \in Thread, BreakAllLocks(t) \/ \E n \in Targets : SetTargetSize(t, n)
       PROVE  \A u \in Thread : Keeps(u)
  BY <1>2, <1>16 DEF BreakAllLocks, SetTargetSize
<1>17. ASSUME NEW t \in Thread, NEW x \in Item,
              \/ LockResource(t, x) \/ UnlockResource(t, x) \/ BreakLock(t, x)
              \/ TouchResource(t, x) \/ MarkAsStale(t, x)
       PROVE  \A u \in Thread : Keeps(u)
  BY <1>2, <1>17 DEF LockResource, UnlockResource, BreakLock, TouchResource, MarkAsStale
<1>18. CASE UNCHANGED vars
  BY <1>2, <1>18 DEF vars
<1> QED BY <1>7, <1>8, <1>9, <1>10, <1>11, <1>12, <1>13, <1>14, <1>15, <1>16, <1>17, <1>18
        DEF Next

\* Who changes the size of a resource has a lock on it; until two do at once,
\* the size is the one that is to be notified, and used memory is the total.
UsedInv ==
  /\ \A t \in Thread, x \in Item : Resizing(t, x) => holds[t][x] > 0
  /\ ~crossed => \A t \in Thread, x \in Item : Resizing(t, x) =>
                   size[x] = Rest(t).new /\ \A u \in Thread : Resizing(u, x) => u = t
  /\ UsedIsTotal

\* What the manager has been told fits m_memUsed.
Fits == SumFunctionOnSet(Told, Cached) < WordMod

\* A change of size is between natural numbers.
LEMMA RestTypes ==
  ASSUME TaskTypeOK, TasksOK, NEW t \in Thread, NEW x \in Item, Resizing(t, x)
  PROVE  Rest(t).old \in Nat /\ Rest(t).new \in Nat
<1>1. task[t] \in Busy
  BY DEF TaskTypeOK
<1>2. Rest(t) = RestOf(task[t])
  BY RestIs
<1>3. \A w \in Continuation \cup Loop : w \in Busy
  BY TaskKinds
<1>4. \A w \in Busy : w.pc = "notify" => w.old \in Nat /\ w.new \in Nat
  BY TaskParts
<1>5. RestOf(task[t]) \in Busy
  <2>1. CASE task[t].pc \in {"used", "available", "evict"}
    BY <1>1, <1>3, <2>1, TaskParts DEF RestOf
  <2>2. CASE task[t].pc = "destroy"
    <3>1. task[t].next \in Continuation \cup Loop
      BY <1>1, <2>2, TaskParts
    <3>2. task[t].next \in Busy
      BY <1>3, <3>1
    <3>3. task[t].next.pc = "used" => task[t].next.then \in Continuation
      BY <3>2, TaskParts
    <3> QED BY <1>3, <2>2, <3>2, <3>3 DEF RestOf
  <2>3. CASE task[t].pc \notin {"used", "available", "evict", "destroy"}
    BY <1>1, <2>3 DEF RestOf
  <2> QED BY <2>1, <2>2, <2>3
<1> QED BY <1>2, <1>4, <1>5 DEF Resizing

\* What the manager has been told of a resource whose size one thread changes, or
\* none ...
ToldOf ==
  \A x \in Item :
    (\A t, u \in Thread : Resizing(t, x) /\ Resizing(u, x) => t = u) =>
      /\ \A t \in Thread : Resizing(t, x) => Told[x] = Rest(t).old
      /\ (\A t \in Thread : ~Resizing(t, x)) => Told[x] = size[x]

\* In this state and the next one, Told is what its definition says.
LEMMA ToldIs == ToldOf
<1> SUFFICES ASSUME NEW x \in Item,
                    \A t, u \in Thread : Resizing(t, x) /\ Resizing(u, x) => t = u
             PROVE  /\ \A t \in Thread : Resizing(t, x) => Told[x] = Rest(t).old
                    /\ (\A t \in Thread : ~Resizing(t, x)) => Told[x] = size[x]
  BY DEF ToldOf
<1>1. ASSUME NEW t \in Thread, Resizing(t, x) PROVE Told[x] = Rest(t).old
  <2> DEFINE u == CHOOSE u \in Thread : Resizing(u, x)
  <2>1. u \in Thread /\ Resizing(u, x)
    BY <1>1
  <2> HIDE DEF u
  <2>2. u = t
    BY <1>1, <2>1
  <2>3. Told[x] = Rest(u).old
    BY <1>1 DEF Told, u
  <2> QED BY <2>2, <2>3
<1> QED BY <1>1 DEF Told

\* ... and will have been after a step.
LEMMA ToldWill == ToldOf'
BY ToldIs, PTL

\* The resources in the lists are finitely many, and the manager has been told a
\* natural number for each.
LEMMA ToldNat ==
  ASSUME TypeInv, UsedInv, ~crossed
  PROVE  /\ IsFiniteSet(Cached) /\ Cached \subseteq Item
         /\ \A x \in Item : Told[x] \in Nat
<1>1. ListInv /\ TasksOK /\ TaskTypeOK /\ MemTypeOK
  BY DEF TypeInv, IInv
<1>2. IsFiniteSet(Cached)
  <2> DEFINE stores == [i \in Index |-> elem[i].store]
             S == {stores[i] : i \in Index}
  <2>1. stores \in Surjection(Index, S)
    BY DEF Surjection
  <2>2. IsFiniteSet(Index)
    BY <1>1, ListsPartition, FS_Interval DEF ListInv
  <2>3. IsFiniteSet(S)
    BY <2>1, <2>2, FS_Surjection
  <2>4. Cached \subseteq S
    BY DEF Cached, Index
  <2> QED BY <2>3, <2>4, FS_Subset
<1>3. ASSUME NEW x \in Item PROVE Told[x] \in Nat
  <2>1. CASE \E t \in Thread : Resizing(t, x)
    BY <1>1, <2>1, ToldIs, RestTypes DEF UsedInv, ToldOf
  <2>2. CASE ~\E t \in Thread : Resizing(t, x)
    BY <1>1, <2>2, ToldIs DEF MemTypeOK, ToldOf
  <2> QED BY <2>1, <2>2
<1> QED BY <1>1, <1>2, <1>3, CachedItems

\* Until locks are broken, a resource whose size is changed is in the lists and
\* locked.
LEMMA ResizedLocked ==
  ASSUME PoolInv, UsedInv, ~forced, NEW t \in Thread, NEW x \in Item, Resizing(t, x)
  PROVE  /\ x \in Cached
         /\ \A i \in Index : elem[i].store = x => elem[i].lockCount # 0
<1>1. LocksCounted /\ HoldTypeOK
  BY DEF PoolInv, TypeInv, Sound
<1>2. Locks(x) \in Nat /\ Locks(x) # 0
  <2>1. holds[t][x] > 0 /\ holds[t][x] \in Nat
    BY <1>1 DEF UsedInv, HoldTypeOK
  <2>2. Locks(x) \in Nat /\ holds[t][x] <= Locks(x)
    BY <1>1, LocksNat
  <2> QED BY <2>1, <2>2
<1> QED BY <1>1, <1>2 DEF LocksCounted

\* The first two parts of the invariant, when every thread keeps what it has to
\* notify and the locks it needs for that.
LEMMA KeepsResizing ==
  ASSUME UsedInv, \A t \in Thread : Keeps(t), size' = size, crossed' = crossed,
         \A t \in Thread, x \in Item : Resizing(t, x) => holds'[t][x] = holds[t][x]
  PROVE  /\ \A t \in Thread, x \in Item : Resizing(t, x)' => holds'[t][x] > 0
         /\ ~crossed' => \A t \in Thread, x \in Item : Resizing(t, x)' =>
                size'[x] = Rest(t)'.new /\ \A u \in Thread : Resizing(u, x)' => u = t
         /\ ~crossed' => \A x \in Item : Told'[x] = Told[x]
<1>1. \A t \in Thread, x \in Item :
        /\ Resizing(t, x)' <=> Resizing(t, x)
        /\ Resizing(t, x) => Rest(t)' = Rest(t)
  BY DEF Keeps, Resizing
<1>2. \A t \in Thread, x \in Item : Resizing(t, x)' => holds'[t][x] > 0
  BY <1>1 DEF UsedInv
<1>3. ASSUME ~crossed'
      PROVE  \A t \in Thread, x \in Item : Resizing(t, x)' =>
               size'[x] = Rest(t)'.new /\ \A u \in Thread : Resizing(u, x)' => u = t
  BY <1>1, <1>3 DEF UsedInv
<1>4. ASSUME ~crossed', NEW x \in Item PROVE Told'[x] = Told[x]
  <2>1. \A t, u \in Thread : Resizing(t, x)' /\ Resizing(u, x)' => t = u
    BY <1>3, <1>4
  <2>2. CASE \E t \in Thread : Resizing(t, x)
    <3>1. PICK t \in Thread : Resizing(t, x)
      BY <2>2
    <3>2. Told[x] = Rest(t).old
      BY <1>4, <3>1, ToldIs DEF UsedInv, ToldOf
    <3>3. Resizing(t, x)' /\ Rest(t)' = Rest(t)
      BY <1>1, <3>1
    <3>4. Told'[x] = Rest(t)'.old
      BY <2>1, <3>3, ToldWill DEF ToldOf
    <3> QED BY <3>2, <3>3, <3>4
  <2>3. CASE ~\E t \in Thread : Resizing(t, x)
    <3>1. Told[x] = size[x]
      BY <1>4, <2>3, ToldIs DEF UsedInv, ToldOf
    <3>2. \A t \in Thread : ~Resizing(t, x)'
      BY <1>1, <2>3
    <3>3. Told'[x] = size'[x]
      BY <2>1, <3>2, ToldWill DEF ToldOf
    <3> QED BY <3>1, <3>3
  <2> QED BY <2>2, <2>3
<1> QED BY <1>2, <1>3, <1>4

\* A step that leaves the resources and used memory alone.
LEMMA UsedStill ==
  ASSUME PoolInv, UsedInv, \A t \in Thread : Keeps(t),
         UNCHANGED <<size, crossed, memUsed, Cached>>, forced => forced',
         \A t \in Thread, x \in Item : Resizing(t, x) => holds'[t][x] = holds[t][x]
  PROVE  UsedInv'
<1>1. /\ \A t \in Thread, x \in Item : Resizing(t, x)' => holds'[t][x] > 0
      /\ ~crossed' => \A t \in Thread, x \in Item : Resizing(t, x)' =>
             size'[x] = Rest(t)'.new /\ \A u \in Thread : Resizing(u, x)' => u = t
      /\ ~crossed' => \A x \in Item : Told'[x] = Told[x]
  BY KeepsResizing
<1>2. ASSUME ~forced', ~crossed' PROVE memUsed' = SumFunctionOnSet(Told', Cached')
  <2>1. IsFiniteSet(Cached) /\ Cached \subseteq Item
    BY <1>2, ToldNat DEF PoolInv
  <2>2. \A x \in Cached : Told'[x] = Told[x]
    BY <1>1, <1>2, <2>1
  <2> DEFINE f == Told
             g == Told'
             S == Cached
  <2> HIDE DEF f, g, S
  <2>3. SumFunctionOnSet(f, S) = SumFunctionOnSet(g, S)
    BY <2>1, <2>2, SumAgree DEF f, g, S
  <2>4. memUsed = SumFunctionOnSet(Told, Cached)
    BY <1>2 DEF UsedInv, UsedIsTotal
  <2> QED BY <2>3, <2>4 DEF f, g, S
<1>3. UsedIsTotal'
  BY <1>2 DEF UsedIsTotal
<1> QED BY <1>1, <1>3 DEF UsedInv

\* Dropped resources are counted with the size they have.
LEMMA UsedDrops ==
  ASSUME PoolInv, UsedInv, \A t \in Thread : Keeps(t),
         NEW t \in Thread, NEW list, NEW next, Drops(t, list, next)
  PROVE  UsedInv'
<1> DEFINE S == InList(list)
           D == {elem[i].store : i \in S}
<1>1. ListInv /\ Stored
  BY DEF PoolInv, TypeInv, IInv, Sound
<1>2. /\ list \in Seq(Nat) /\ S \subseteq InList(lru) \cup InList(locked)
      /\ Frees(S) /\ memUsed' = UsedWithout(list)
      /\ (\A i \in S : elem[i].lockCount = 0) \/ forced'
      /\ forced => forced'
      /\ size' = size /\ holds' = holds /\ crossed' = crossed
  BY DEF Drops
<1>3. \A i \in S : i \in Index /\ elem[i].store # NoItem
  BY <1>1, <1>2 DEF ListInv, ListsAgree
<1>4. Cached' = Cached \ D
  BY <1>1, <1>2, <1>3, FreesStores
<1>5. D \subseteq Cached
  BY <1>3 DEF Cached, Index
<1>6. InList(StoresOf(list)) = D
  BY <1>1, <1>2, StoresList
<1>7. /\ \A u \in Thread, x \in Item : Resizing(u, x)' => holds'[u][x] > 0
      /\ ~crossed' => \A u \in Thread, x \in Item : Resizing(u, x)' =>
             size'[x] = Rest(u)'.new /\ \A v \in Thread : Resizing(v, x)' => v = u
      /\ ~crossed' => \A x \in Item : Told'[x] = Told[x]
  BY <1>2, KeepsResizing
<1>8. ASSUME ~forced', ~crossed' PROVE memUsed' = SumFunctionOnSet(Told', Cached')
  <2>1. /\ IsFiniteSet(Cached) /\ Cached \subseteq Item
        /\ \A x \in Item : Told[x] \in Nat
    BY <1>2, <1>8, ToldNat DEF PoolInv
  <2>2. \A x \in D : Told[x] = size[x]
    <3> SUFFICES ASSUME NEW i \in S PROVE Told[elem[i].store] = size[elem[i].store]
      OBVIOUS
    <3>1. elem[i].store \in Item /\ i \in Index /\ elem[i].lockCount = 0
      BY <1>2, <1>3, <1>5, <1>8, <2>1
    <3>2. \A u \in Thread : ~Resizing(u, elem[i].store)
      BY <1>2, <1>8, <3>1, ResizedLocked
    <3> QED BY <3>1, <3>2, ToldIs DEF ToldOf
  <2> DEFINE f == Told
             g == Told'
             C == Cached
  <2>3. memUsed = SumFunctionOnSet(f, C)
    BY <1>2, <1>8 DEF UsedInv, UsedIsTotal
  <2>4. memUsed' = IF SumFunctionOnSet(size, D) > memUsed THEN 0
                   ELSE memUsed - SumFunctionOnSet(size, D)
    BY <1>2, <1>6 DEF UsedWithout, BytesOf
  <2>5. \A x \in C : g[x] = f[x]
    BY <1>7, <1>8, <2>1
  <2>6. /\ IsFiniteSet(C) /\ D \in SUBSET C /\ IsFiniteSet(D) /\ IsFiniteSet(C \ D)
        /\ \A x \in C : f[x] \in Nat
        /\ \A x \in D : f[x] = size[x]
    <3>1. D \in SUBSET C
      BY <1>5
    <3> HIDE DEF D
    <3> QED BY <2>1, <2>2, <3>1, FS_Subset
  <2> HIDE DEF f, g, C, D, S
  <2>7. SumFunctionOnSet(f, C) = SumFunctionOnSet(f, D) + SumFunctionOnSet(f, C \ D)
    BY <2>6, SumParts
  <2>8. SumFunctionOnSet(f, D) = SumFunctionOnSet(size, D)
    BY <2>6, SumAgree
  <2>9. SumFunctionOnSet(f, C \ D) = SumFunctionOnSet(g, C \ D)
    BY <2>5, <2>6, SumAgree
  <2>10. SumFunctionOnSet(f, D) \in Nat
    BY <2>6, SumNat
  <2>11. SumFunctionOnSet(f, C \ D) \in Nat
    BY <2>6, SumNat
  <2>12. memUsed' = SumFunctionOnSet(g, C \ D)
    BY <2>3, <2>4, <2>7, <2>8, <2>9, <2>10, <2>11
  <2> QED BY <1>4, <2>12 DEF g, C
<1>9. UsedIsTotal'
  BY <1>8 DEF UsedIsTotal
<1> QED BY <1>7, <1>9 DEF UsedInv

\* A new resource is counted with the size it has.
LEMMA UsedInsert ==
  ASSUME PoolInv, UsedInv, \A t \in Thread : Keeps(t), Fits',
         NEW t \in Thread, Insert(t)
  PROVE  UsedInv'
<1> DEFINE x == task[t].item
           n == IF task[t].lock THEN 1 ELSE 0
<1>1. ListInv /\ TasksOK /\ TaskTypeOK /\ MemTypeOK /\ HoldTypeOK /\ Stored /\ Fresh
  BY DEF PoolInv, TypeInv, IInv, Sound
<1>2. x \in Item
  BY <1>1, TaskParts DEF Insert, TaskTypeOK
<1>3. issued[x] = NoHandle
  BY <1>1, <1>2, InsertFresh DEF HoldTypeOK
<1>4. StoresIn(NextIndex, x, n)
  BY <1>1, <1>2, InsertStep
<1>5. /\ memUsed' = (memUsed + size[x]) % WordMod
      /\ holds' = [holds EXCEPT ![t][x] = n]
      /\ task[t].pc = "insert"
      /\ UNCHANGED <<size, crossed, forced>>
  BY DEF Insert
<1> HIDE DEF x, n
<1>6. Cached' = Cached \cup {x} /\ x \notin Cached
  BY <1>1, <1>2, <1>3, <1>4, InsertStores, FoundCached DEF IsFound
<1>7. \A y \in Item : ~Resizing(t, y)
  BY <1>5, RestIs DEF Resizing, RestOf
<1>8. \A u \in Thread, y \in Item : Resizing(u, y) => holds'[u][y] = holds[u][y]
  <2>1. \A u \in Thread \ {t} : holds'[u] = holds[u]
    BY <1>1, <1>5 DEF HoldTypeOK
  <2> QED BY <1>7, <2>1
<1>9. /\ \A u \in Thread, y \in Item : Resizing(u, y)' => holds'[u][y] > 0
      /\ ~crossed' => \A u \in Thread, y \in Item : Resizing(u, y)' =>
             size'[y] = Rest(u)'.new /\ \A v \in Thread : Resizing(v, y)' => v = u
      /\ ~crossed' => \A y \in Item : Told'[y] = Told[y]
  BY <1>5, <1>8, KeepsResizing
<1>10. ASSUME ~forced', ~crossed' PROVE memUsed' = SumFunctionOnSet(Told', Cached')
  <2>1. /\ IsFiniteSet(Cached) /\ Cached \subseteq Item
        /\ \A y \in Item : Told[y] \in Nat
    BY <1>5, <1>10, ToldNat DEF PoolInv
  <2>2. Told[x] = size[x]
    <3>1. \A u \in Thread : ~Resizing(u, x)
      BY <1>2, <1>5, <1>6, <1>10, ResizedLocked
    <3> QED BY <1>2, <3>1, ToldIs DEF ToldOf
  <2> DEFINE f == Told
             g == Told'
             C == Cached
             D == Cached'
  <2>3. memUsed = SumFunctionOnSet(f, C) /\ SumFunctionOnSet(g, D) < WordMod
    BY <1>5, <1>10 DEF UsedInv, UsedIsTotal, Fits
  <2>4. D = C \cup {x} /\ x \notin C /\ x \in D /\ D \ {x} = C
    BY <1>6
  <2>5. \A y \in D : g[y] = f[y] /\ g[y] \in Nat
    BY <1>2, <1>6, <1>9, <1>10, <2>1
  <2>6. f[x] = size[x]
    BY <2>2
  <2>7. IsFiniteSet(C)
    BY <2>1
  <2> HIDE DEF f, g, C, D
  <2>8. IsFiniteSet(D)
    BY <2>4, <2>7, FS_AddElement
  <2>9. SumFunctionOnSet(g, D) = g[x] + SumFunctionOnSet(g, D \ {x})
    <3>1. \A y \in D : g[y] \in Int
      BY <2>5
    <3> QED BY <2>4, <2>8, <3>1, SumRemove
  <2>10. SumFunctionOnSet(g, C) = SumFunctionOnSet(f, C)
    BY <2>4, <2>5, <2>7, SumAgree
  <2>11. SumFunctionOnSet(g, D) = memUsed + size[x]
    <3>1. g[x] = size[x] /\ g[x] \in Nat
      BY <2>4, <2>5, <2>6
    <3>2. SumFunctionOnSet(g, C) \in Nat
      BY <2>4, <2>5, <2>7, SumNat
    <3>3. SumFunctionOnSet(g, D \ {x}) = SumFunctionOnSet(g, C)
      BY <2>4
    <3>4. memUsed = SumFunctionOnSet(g, C)
      BY <2>3, <2>10
    <3> HIDE DEF x
    <3> QED BY <2>9, <3>1, <3>2, <3>3, <3>4
  <2>12. SumFunctionOnSet(g, D) \in Nat
    BY <2>5, <2>8, SumNat
  <2>13. \A m \in Nat : m < WordMod => m % WordMod = m
    BY ManagerAssumption
  <2>14. memUsed' = SumFunctionOnSet(g, D)
    BY <1>5, <2>3, <2>11, <2>12, <2>13
  <2> QED BY <2>14 DEF g, D
<1>11. UsedIsTotal'
  BY <1>10 DEF UsedIsTotal
<1> QED BY <1>9, <1>11 DEF UsedInv

\* A change of size is not counted until it is notified.
LEMMA UsedResize ==
  ASSUME PoolInv, UsedInv, NEW t \in Thread, NEW x \in Item, NEW n \in Sizes, Resize(t, x, n)
  PROVE  UsedInv'
<1> DEFINE notify == [pc |-> "notify", item |-> x, old |-> size[x], new |-> n]
           grows == n > size[x]
           w == IF grows THEN Ensuring("used", n - size[x], notify) ELSE notify
<1>1. ListInv /\ TasksOK /\ MemTypeOK
  BY DEF PoolInv, TypeInv, IInv
<1>2. /\ Becomes(t, w) /\ IsIdle(t) /\ holds[t][x] > 0
      /\ size' = [size EXCEPT ![x] = n]
      /\ crossed' = (crossed \/ \E u \in Thread : Resizing(u, x))
      /\ UNCHANGED <<holds, forced, memUsed, elem>>
  BY DEF Resize, memVars, listVars
<1>3. notify.pc = "notify" /\ notify.item = x /\ notify.old = size[x] /\ notify.new = n
  OBVIOUS
<1> HIDE DEF notify, grows
<1>4. RestOf(w) = notify
  <2>1. RestOf(notify) = notify
    BY <1>3 DEF RestOf
  <2>2. RestOf(Ensuring("used", n - size[x], notify)) = notify
    BY RestParts
  <2> QED BY <2>1, <2>2
<1> HIDE DEF w
<1>5. Rest(t)' = notify /\ \A u \in Thread \ {t} : Rest(u)' = Rest(u)
  <2>1. task'[t] = w /\ \A u \in Thread \ {t} : task'[u] = task[u]
    BY <1>1, <1>2 DEF TasksOK, Becomes
  <2> QED BY <1>4, <2>1, RestIs, RestWill
<1>6. \A y \in Item : ~Resizing(t, y)
  BY <1>2, RestIs DEF Resizing, RestOf, IsIdle, Idle
<1>7. /\ \A u \in Thread \ {t}, y \in Item : Resizing(u, y)' <=> Resizing(u, y)
      /\ \A y \in Item : Resizing(t, y)' <=> y = x
  BY <1>3, <1>5 DEF Resizing
<1>8. size'[x] = n /\ \A y \in Item : y # x => size'[y] = size[y]
  BY <1>1, <1>2 DEF MemTypeOK
<1>9. \A u \in Thread, y \in Item : Resizing(u, y)' => holds'[u][y] > 0
  BY <1>2, <1>7 DEF UsedInv
<1>10. ASSUME ~crossed', NEW u \in Thread, NEW y \in Item, Resizing(u, y)'
       PROVE  size'[y] = Rest(u)'.new /\ \A v \in Thread : Resizing(v, y)' => v = u
  <2>1. ~crossed /\ \A v \in Thread : ~Resizing(v, x)
    BY <1>2, <1>10
  <2>2. CASE y = x
    <3>1. u = t /\ \A v \in Thread : Resizing(v, y)' => v = t
      BY <1>7, <1>10, <2>1, <2>2
    <3> QED BY <1>3, <1>5, <1>8, <2>2, <3>1
  <2>3. CASE y # x
    <3>1. u # t /\ Resizing(u, y) /\ \A v \in Thread : Resizing(v, y)' => Resizing(v, y)
      BY <1>7, <1>10, <2>3
    <3> QED BY <1>5, <1>8, <2>1, <2>3, <3>1 DEF UsedInv
  <2> QED BY <2>2, <2>3
<1>11. ASSUME ~crossed', NEW y \in Item PROVE Told'[y] = Told[y]
  <2>1. ~crossed /\ \A v \in Thread : ~Resizing(v, x)
    BY <1>2, <1>11
  <2>2. \A u, v \in Thread : Resizing(u, y)' /\ Resizing(v, y)' => u = v
    BY <1>10, <1>11
  <2>3. \A u, v \in Thread : Resizing(u, y) /\ Resizing(v, y) => u = v
    BY <2>1 DEF UsedInv
  <2>4. CASE y = x
    <3>1. Told[y] = size[x]
      BY <2>1, <2>3, <2>4, ToldIs DEF ToldOf
    <3>2. Told'[y] = Rest(t)'.old
      BY <1>7, <2>2, <2>4, ToldWill DEF ToldOf
    <3> QED BY <1>3, <1>5, <3>1, <3>2
  <2>5. CASE y # x /\ \E u \in Thread : Resizing(u, y)
    <3>1. PICK u \in Thread : Resizing(u, y)
      BY <2>5
    <3>2. u # t /\ Resizing(u, y)'
      BY <1>6, <1>7, <3>1
    <3>3. Told[y] = Rest(u).old
      BY <2>3, <3>1, ToldIs DEF ToldOf
    <3>4. Told'[y] = Rest(u)'.old
      BY <2>2, <3>2, ToldWill DEF ToldOf
    <3> QED BY <1>5, <3>2, <3>3, <3>4
  <2>6. CASE y # x /\ ~\E u \in Thread : Resizing(u, y)
    <3>1. Told[y] = size[y]
      BY <2>3, <2>6, ToldIs DEF ToldOf
    <3>2. \A u \in Thread : ~Resizing(u, y)'
      BY <1>7, <2>6
    <3>3. Told'[y] = size'[y]
      BY <2>2, <3>2, ToldWill DEF ToldOf
    <3> QED BY <1>8, <2>6, <3>1, <3>3
  <2> QED BY <2>4, <2>5, <2>6
<1>12. Cached' = Cached
  BY <1>2 DEF Cached
<1>13. ASSUME ~forced', ~crossed' PROVE memUsed' = SumFunctionOnSet(Told', Cached')
  <2>1. ~crossed /\ ~forced
    BY <1>2, <1>13
  <2>2. IsFiniteSet(Cached) /\ Cached \subseteq Item
    BY <2>1, ToldNat DEF PoolInv
  <2> DEFINE f == Told
             g == Told'
             C == Cached
  <2>3. \A y \in C : g[y] = f[y]
    BY <1>11, <1>13, <2>2
  <2>4. memUsed = SumFunctionOnSet(f, C) /\ IsFiniteSet(C)
    BY <2>1, <2>2 DEF UsedInv, UsedIsTotal
  <2> HIDE DEF f, g, C
  <2>5. SumFunctionOnSet(f, C) = SumFunctionOnSet(g, C)
    BY <2>3, <2>4, SumAgree
  <2> QED BY <1>2, <1>12, <2>4, <2>5 DEF g, C
<1>14. UsedIsTotal'
  BY <1>13 DEF UsedIsTotal
<1> QED BY <1>9, <1>10, <1>14 DEF UsedInv

\* NotifySizeChanged counts it.
LEMMA UsedNotify ==
  ASSUME PoolInv, UsedInv, Fits', NEW t \in Thread, NotifySizeChanged(t)
  PROVE  UsedInv'
<1> DEFINE more == task[t].new - task[t].old
<1>1. ListInv /\ TasksOK /\ TaskTypeOK /\ MemTypeOK
  BY DEF PoolInv, TypeInv, IInv
<1>2. /\ Becomes(t, Idle) /\ task[t].pc = "notify"
      /\ memUsed' = (memUsed + more) % WordMod
      /\ UNCHANGED <<holds, forced, crossed, size, elem>>
  BY DEF NotifySizeChanged, listVars, historyVars
<1>3. /\ task[t].old \in Nat /\ task[t].new \in Nat
      /\ \E x \in Item : x = task[t].item
  BY <1>1, <1>2, TaskParts DEF TaskTypeOK
<1> PICK x \in Item : x = task[t].item
  BY <1>3
<1>4. Rest(t) = task[t] /\ Resizing(t, x) /\ \A y \in Item : Resizing(t, y) => y = x
  BY <1>2, RestIs DEF RestOf, Resizing
<1>5. Rest(t)' = Idle /\ \A u \in Thread \ {t} : Rest(u)' = Rest(u)
  <2>1. task'[t] = Idle /\ \A u \in Thread \ {t} : task'[u] = task[u]
    BY <1>1, <1>2 DEF TasksOK, Becomes
  <2>2. RestOf(Idle) = Idle
    BY DEF RestOf, Idle
  <2> QED BY <2>1, <2>2, RestIs, RestWill
<1>6. /\ \A u \in Thread \ {t}, y \in Item : Resizing(u, y)' <=> Resizing(u, y)
      /\ \A y \in Item : ~Resizing(t, y)'
  BY <1>5 DEF Resizing, Idle
<1>7. \A u \in Thread, y \in Item : Resizing(u, y)' => holds'[u][y] > 0
  BY <1>2, <1>6 DEF UsedInv
<1>8. ASSUME ~crossed', NEW u \in Thread, NEW y \in Item, Resizing(u, y)'
      PROVE  size'[y] = Rest(u)'.new /\ \A v \in Thread : Resizing(v, y)' => v = u
  <2>1. u # t /\ Resizing(u, y) /\ \A v \in Thread : Resizing(v, y)' => Resizing(v, y)
    BY <1>6, <1>8
  <2> QED BY <1>2, <1>5, <1>8, <2>1 DEF UsedInv
<1>9. ASSUME ~crossed' PROVE Told[x] = task[t].old /\ Told'[x] = task[t].new
  <2>1. \A u, v \in Thread : Resizing(u, x) /\ Resizing(v, x) => u = v
    BY <1>2, <1>3, <1>9 DEF UsedInv
  <2>2. ASSUME NEW u \in Thread PROVE ~Resizing(u, x)'
    <3>1. CASE u = t
      BY <1>3, <1>6, <3>1
    <3>2. CASE u # t
      <4>1. ~Resizing(u, x)
        BY <1>4, <2>1, <3>2
      <4>2. Resizing(u, x)' <=> Resizing(u, x)
        BY <1>3, <1>6, <3>2
      <4> QED BY <4>1, <4>2
    <3> QED BY <3>1, <3>2
  <2>3. Told[x] = Rest(t).old
    BY <1>3, <1>4, <2>1, ToldIs DEF ToldOf
  <2>4. Told'[x] = size'[x]
    <3>1. \A u, v \in Thread : Resizing(u, x)' /\ Resizing(v, x)' => u = v
      BY <2>2
    <3> QED BY <1>3, <2>2, <3>1, ToldWill DEF ToldOf
  <2>5. size[x] = Rest(t).new
    BY <1>2, <1>3, <1>4, <1>9 DEF UsedInv
  <2> QED BY <1>2, <1>4, <2>3, <2>4, <2>5
<1>10. ASSUME ~crossed', NEW y \in Item, y # x PROVE Told'[y] = Told[y]
  <2>1. \A u, v \in Thread : Resizing(u, y)' /\ Resizing(v, y)' => u = v
    BY <1>8, <1>10
  <2>2. \A u, v \in Thread : Resizing(u, y) /\ Resizing(v, y) => u = v
    BY <1>2, <1>10 DEF UsedInv
  <2>3. CASE \E u \in Thread : Resizing(u, y)
    <3>1. PICK u \in Thread : Resizing(u, y)
      BY <2>3
    <3>2. u # t /\ Resizing(u, y)'
      BY <1>4, <1>6, <1>10, <3>1
    <3>3. Told[y] = Rest(u).old
      BY <2>2, <3>1, ToldIs DEF ToldOf
    <3>4. Told'[y] = Rest(u)'.old
      BY <2>1, <3>2, ToldWill DEF ToldOf
    <3> QED BY <1>5, <3>2, <3>3, <3>4
  <2>4. CASE ~\E u \in Thread : Resizing(u, y)
    <3>1. Told[y] = size[y]
      BY <2>2, <2>4, ToldIs DEF ToldOf
    <3>2. \A u \in Thread : ~Resizing(u, y)'
      BY <1>6, <2>4
    <3>3. Told'[y] = size'[y]
      BY <2>1, <3>2, ToldWill DEF ToldOf
    <3> QED BY <1>2, <3>1, <3>3
  <2> QED BY <2>3, <2>4
<1>11. Cached' = Cached
  BY <1>2 DEF Cached
<1>12. ASSUME ~forced', ~crossed' PROVE memUsed' = SumFunctionOnSet(Told', Cached')
  <2>1. /\ IsFiniteSet(Cached) /\ Cached \subseteq Item
        /\ \A y \in Item : Told[y] \in Nat
    BY <1>2, <1>12, ToldNat DEF PoolInv
  <2>2. x \in Cached
    BY <1>2, <1>3, <1>4, <1>12, ResizedLocked
  <2> DEFINE f == Told
             g == Told'
             C == Cached
  <2>3. memUsed = SumFunctionOnSet(f, C) /\ SumFunctionOnSet(g, C) < WordMod
    BY <1>2, <1>11, <1>12 DEF UsedInv, UsedIsTotal, Fits
  <2>4. /\ IsFiniteSet(C) /\ x \in C
        /\ \A y \in C : f[y] \in Nat /\ (y # x => g[y] = f[y])
        /\ f[x] = task[t].old /\ g[x] = task[t].new
    BY <1>9, <1>10, <1>12, <2>1, <2>2
  <2> HIDE DEF f, g, C
  <2>5. SumFunctionOnSet(g, C) = SumFunctionOnSet(f, C) + (g[x] - f[x])
    <3>1. g[x] \in Int /\ \A y \in C : f[y] \in Int
      BY <1>3, <2>4
    <3> QED BY <2>4, <3>1, SumChange
  <2>6. SumFunctionOnSet(g, C) \in Nat
    <3>1. \A y \in C : g[y] \in Nat
      BY <1>3, <2>4
    <3> QED BY <2>4, <3>1, SumNat
  <2>7. \A m \in Nat : m < WordMod => m % WordMod = m
    BY ManagerAssumption
  <2>8. memUsed + more = SumFunctionOnSet(g, C)
    BY <2>3, <2>4, <2>5
  <2> HIDE DEF more
  <2>9. memUsed' = SumFunctionOnSet(g, C)
    BY <1>2, <2>3, <2>6, <2>7, <2>8
  <2> QED BY <1>11, <2>9 DEF g, C
<1>13. UsedIsTotal'
  BY <1>12 DEF UsedIsTotal
<1> QED BY <1>7, <1>8, <1>13 DEF UsedInv

\* Every step keeps used memory the total, if that fits.
LEMMA NextUsed ==
  ASSUME PoolInv, UsedInv, Fits', [Next]_vars
  PROVE  UsedInv'
<1>1. ListInv /\ TasksOK /\ HoldTypeOK /\ Stored /\ TaskTypeOK /\ StorageOwned
  BY DEF PoolInv, TypeInv, IInv, Sound
<1>2. CASE \E t \in Thread : \E x \in Item, n \in Sizes : Resize(t, x, n)
  BY <1>2, UsedResize
<1>3. CASE \E t \in Thread : NotifySizeChanged(t)
  BY <1>3, UsedNotify
<1>4. CASE ~\E t \in Thread :
             NotifySizeChanged(t) \/ \E x \in Item, n \in Sizes : Resize(t, x, n)
  <2>1. \A u \in Thread : Keeps(u)
    BY <1>1, <1>4, AllKeep
  <2>2. ASSUME UNCHANGED <<size, crossed, memUsed, elem>>, forced => forced',
               \A u \in Thread, x \in Item : Resizing(u, x) => holds'[u][x] = holds[u][x]
        PROVE  UsedInv'
    <3>1. Cached' = Cached
      BY <2>2 DEF Cached
    <3> QED BY <2>1, <2>2, <3>1, UsedStill
  <2>3. ASSUME UNCHANGED <<size, crossed, memUsed, elem, holds>>, forced => forced'
        PROVE  UsedInv'
    BY <2>2, <2>3
  <2>4. ASSUME NEW t \in Thread,
               \/ Evict(t) /\ lru # <<>>
               \/ FlushAllUnlocked(t) \/ FlushAll(t) \/ \E x \in Item : DestroyResource(t, x)
        PROVE  UsedInv'
    <3>1. PICK list, next : Drops(t, list, next)
      BY <1>1, <2>4, DropsOne
    <3> QED BY <2>1, <3>1, UsedDrops
  <2>5. ASSUME NEW t \in Thread, Insert(t) PROVE UsedInv'
    BY <2>1, <2>5, UsedInsert
  <2>6. ASSUME NEW t \in Thread,
               \/ TestUsed(t) \/ TestAvailable(t) \/ (Evict(t) /\ lru = <<>>)
               \/ DestroyResourceStorage(t) \/ PurgeToGoal(t) \/ FlushToTargetSize(t)
               \/ \E n \in PurgeSizes : Purge(t, n)
               \/ \E n \in Targets : SetTargetSize(t, n)
               \/ \E x \in Item, lock \in BOOLEAN : CreateResource(t, x, lock)
        PROVE  UsedInv'
    <3>1. UNCHANGED <<size, crossed, memUsed, elem, holds, forced>>
      <4>1. CASE Evict(t) /\ lru = <<>>
        BY <4>1 DEF Evict, listVars, memVars, historyVars
      <4>2. CASE TestUsed(t) \/ TestAvailable(t) \/ DestroyResourceStorage(t) \/ PurgeToGoal(t)
        BY <4>2 DEF TestUsed, TestAvailable, DestroyResourceStorage, PurgeToGoal,
                    listVars, memVars, historyVars
      <4>3. CASE \/ FlushToTargetSize(t) \/ \E n \in PurgeSizes : Purge(t, n)
                 \/ \E n \in Targets : SetTargetSize(t, n)
                 \/ \E x \in Item, lock \in BOOLEAN : CreateResource(t, x, lock)
        BY <4>3 DEF FlushToTargetSize, Purge, SetTargetSize, CreateResource,
                    listVars, memVars, historyVars
      <4> QED BY <2>6, <4>1, <4>2, <4>3
    <3> QED BY <2>3, <3>1
  <2>7. ASSUME NEW t \in Thread, NEW x \in Item, LockResource(t, x) \/ UnlockResource(t, x)
        PROVE  UsedInv'
    <3>1. IsIdle(t) /\ UNCHANGED <<size, crossed, memUsed, forced>>
      BY <2>7 DEF LockResource, UnlockResource, memVars
    <3>2. \A y \in Item : ~Resizing(t, y)
      BY <3>1, RestIs DEF Resizing, RestOf, IsIdle, Idle
    <3>3. \E y, n : holds' = [holds EXCEPT ![t][y] = n]
      BY <2>7 DEF LockResource, UnlockResource
    <3>4. \A u \in Thread, y \in Item : Resizing(u, y) => holds'[u][y] = holds[u][y]
      <4>1. \A u \in Thread \ {t} : holds'[u] = holds[u]
        BY <1>1, <3>3 DEF HoldTypeOK
      <4> QED BY <3>2, <4>1
    <3>5. Cached' = Cached
      <4>1. CASE LockResource(t, x)
        BY <1>1, <4>1, LockStep, RelinksStores
      <4>2. CASE UnlockResource(t, x) /\ Found(x) # NoIndex /\ elem[Found(x)].lockCount > 0
        BY <1>1, <4>2, UnlockStep, RelinksStores
      <4>3. CASE UnlockResource(t, x) /\ ~(Found(x) # NoIndex /\ elem[Found(x)].lockCount > 0)
        BY <1>1, <4>3, UnlockStep, StillStores
      <4> QED BY <2>7, <4>1, <4>2, <4>3
    <3> QED BY <2>1, <3>1, <3>4, <3>5, UsedStill
  <2>8. ASSUME NEW t \in Thread,
               \/ BreakAllLocks(t)
               \/ \E x \in Item : BreakLock(t, x) \/ TouchResource(t, x) \/ MarkAsStale(t, x)
        PROVE  UsedInv'
    <3>1. UNCHANGED <<size, crossed, memUsed, holds>> /\ (forced' = forced \/ forced' = TRUE)
      <4>1. CASE BreakAllLocks(t)
        BY <4>1 DEF BreakAllLocks, memVars
      <4>2. CASE \E x \in Item : BreakLock(t, x)
        BY <4>2 DEF BreakLock, memVars
      <4>3. CASE \E x \in Item : TouchResource(t, x) \/ MarkAsStale(t, x)
        BY <4>3 DEF TouchResource, MarkAsStale, memVars, historyVars
      <4> QED BY <2>8, <4>1, <4>2, <4>3
    <3>2. Relinks
      BY <1>1, <2>8, BreakAllLocksStep, BreakLockStep, TouchStep
    <3>3. Cached' = Cached
      BY <1>1, <3>2, RelinksStores
    <3>4. forced => forced'
      BY <3>1
    <3> QED BY <2>1, <3>1, <3>3, <3>4, UsedStill
  <2>9. CASE UNCHANGED vars
    BY <2>3, <2>9 DEF vars, listVars, memVars, historyVars
  <2> QED BY <1>4, <2>4, <2>5, <2>6, <2>7, <2>8, <2>9 DEF Next
<1> QED BY <1>2, <1>3, <1>4

\* At the start nothing is used.
LEMMA InitUsed == Init => UsedInv
<1> SUFFICES ASSUME Init PROVE UsedInv
  OBVIOUS
<1>1. memUsed = 0 /\ elem = <<>> /\ \A t \in Thread : task[t] = Idle
  BY DEF Init
<1>2. \A t \in Thread, x \in Item : ~Resizing(t, x)
  BY <1>1, RestIs, RestParts DEF Resizing, RestOf, Idle
<1>3. Cached = {}
  BY <1>1 DEF Cached
<1>4. IsFiniteSet({})
  BY FS_EmptySet
<1>5. SumFunctionOnSet(Told, {}) = 0
  BY <1>4, SumPick
<1> QED BY <1>1, <1>2, <1>3, <1>5 DEF UsedInv, UsedIsTotal

\* As long as the sizes of the resources in the lists fit a word, and until
\* somebody breaks locks or two threads change the size of one resource at once,
\* m_memUsed is their sum: evictions, flushes and late notifications of other
\* threads, in whatever order, neither lose nor count any byte twice.
THEOREM UsedCorrect == Spec /\ []Fits => []UsedIsTotal
<1>1. UsedInv => UsedIsTotal
  BY DEF UsedInv
<1>2. PoolInv /\ UsedInv /\ Fits' /\ [Next]_vars => UsedInv'
  BY NextUsed
<1> QED BY <1>1, <1>2, InitUsed, PoolInvAlways, PTL DEF Spec

=============================================================================
