-------------------------- MODULE DataCacheProofs --------------------------
(***************************************************************************)
(* Proofs about DataCache, for every set of threads and items and every    *)
(* limit. The steps the threads have still to do are part of the state:    *)
(* what is due is summed over them, and every step changes the list of one *)
(* thread, at its head. The first part is about such sums, and about the   *)
(* lists of items.                                                         *)
(***************************************************************************)
EXTENDS DataCache, FiniteSums, SequenceTheorems

-----------------------------------------------------------------------------
(* Sums over sequences *)

\* The sum of what W makes of the elements of s.
Total(W, s) == SumFunctionOnSet([i \in DOMAIN s |-> W[s[i]]], DOMAIN s)

\* It is the sum of finitely many integers.
LEMMA TotalOf ==
  ASSUME NEW A, NEW s \in Seq(A), NEW W, \A a \in A : W[a] \in Int
  PROVE  /\ DOMAIN s = 1 .. Len(s) /\ Len(s) \in Nat /\ IsFiniteSet(DOMAIN s)
         /\ \A i \in DOMAIN s : s[i] \in A /\ [j \in DOMAIN s |-> W[s[j]]][i] \in Int
         /\ Total(W, s) \in Int
<1>1. DOMAIN s = 1 .. Len(s) /\ Len(s) \in Nat /\ \A i \in DOMAIN s : s[i] \in A
  BY LenProperties, ElementOfSeq
<1>2. IsFiniteSet(DOMAIN s)
  BY <1>1, FS_Interval
<1>3. \A i \in DOMAIN s : [j \in DOMAIN s |-> W[s[j]]][i] \in Int
  BY <1>1
<1>4. Total(W, s) \in Int
  BY <1>2, <1>3, SumInt DEF Total
<1> QED BY <1>1, <1>2, <1>3, <1>4

\* The elements of two sequences, one behind the other.
LEMMA TotalConcat ==
  ASSUME NEW A, NEW s \in Seq(A), NEW r \in Seq(A), NEW W, \A a \in A : W[a] \in Int
  PROVE  Total(W, s \o r) = Total(W, s) + Total(W, r)
<1> DEFINE q == s \o r
           D == DOMAIN q
           S == DOMAIN s
           R == DOMAIN r
           fq == [i \in D |-> W[q[i]]]
           fs == [i \in S |-> W[s[i]]]
           fr == [i \in R |-> W[r[i]]]
           m == Len(s)
           n == Len(r)
<1>1. /\ S = 1 .. m /\ R = 1 .. n /\ m \in Nat /\ n \in Nat
      /\ IsFiniteSet(S) /\ IsFiniteSet(R)
      /\ \A i \in S : s[i] \in A
      /\ \A i \in R : r[i] \in A
  BY TotalOf
<1>2. q \in Seq(A) /\ Len(q) = m + n
      /\ \A i \in 1 .. m + n : q[i] = IF i <= m THEN s[i] ELSE r[i - m]
  BY ConcatProperties
<1>3. D = 1 .. m + n /\ IsFiniteSet(D) /\ \A i \in D : fq[i] \in Int
  <2> HIDE DEF q
  <2>1. D = 1 .. m + n
    BY <1>2, LenProperties
  <2>2. m + n \in Int /\ IsFiniteSet(1 .. m + n)
    BY <1>1, FS_Interval
  <2>3. \A i \in D : q[i] \in A
    BY <1>2, <2>1, ElementOfSeq
  <2> QED BY <2>1, <2>2, <2>3
<1> HIDE DEF q, m, n
<1>4. \A i \in S : i \in D /\ fq[i] = fs[i]
  BY <1>1, <1>2, <1>3
<1>5. \A i \in D \ S : i - m \in R /\ fq[i] = fr[i - m]
  BY <1>1, <1>2, <1>3
<1>6. \A i \in S : fs[i] \in Int
  BY <1>1
<1>7. \A i \in R : fr[i] \in Int
  BY <1>1
<1>8. \A i \in R : i + m \in D \ S /\ (i + m) - m = i
  BY <1>1, <1>3
<1> HIDE DEF fq, fs, fr, D, S, R
<1>9. SumFunctionOnSet(fq, D)
        = SumFunctionOnSet(fq, S) + SumFunctionOnSet(fq, D \ S)
  <2>1. S \in SUBSET D /\ IsFiniteSet(D)
    BY <1>3, <1>4
  <2>2. \A i \in D : fq[i] \in Int
    BY <1>3
  <2> QED BY <2>1, <2>2, SumParts
<1>10. SumFunctionOnSet(fq, S) = SumFunctionOnSet(fs, S)
  BY <1>1, <1>4, SumAgree
<1>11. SumFunctionOnSet(fq, D \ S) = SumFunctionOnSet(fr, R)
  <2> DEFINE T == D \ S
             h == [i \in T |-> i - m]
  <2>1. h \in [T -> R] /\ \A i \in T : fq[i] = fr[h[i]]
    BY <1>5
  <2>2. \A i, j \in T : h[i] = h[j] => i = j
    BY <1>1, <1>3
  <2>3. \A i \in R : \E j \in T : h[j] = i
    BY <1>8
  <2>4. IsFiniteSet(T)
    BY <1>3, FS_Subset
  <2> HIDE DEF T, h
  <2>5. SumFunctionOnSet(fq, T) = SumFunctionOnSet(fr, R)
    BY <1>1, <1>7, <2>1, <2>2, <2>3, <2>4, SumMoved
  <2> QED BY <2>5 DEF T
<1>12. Total(W, q) = SumFunctionOnSet(fq, D) /\ Total(W, s) = SumFunctionOnSet(fs, S)
       /\ Total(W, r) = SumFunctionOnSet(fr, R)
  BY DEF Total, fq, fs, fr, D, S, R
<1> QED BY <1>9, <1>10, <1>11, <1>12 DEF q

\* The elements of the empty sequence, and of one with one element.
LEMMA TotalShort ==
  ASSUME NEW A, NEW a \in A, NEW W, W[a] \in Int
  PROVE  Total(W, <<>>) = 0 /\ Total(W, <<a>>) = W[a]
<1>1. Total(W, <<>>) = 0
  <2>1. DOMAIN <<>> = {}
    OBVIOUS
  <2> QED BY <2>1, SumEmpty DEF Total
<1> DEFINE f == [i \in {1} |-> W[a]]
<1>2. Total(W, <<a>>) = SumFunctionOnSet(f, {1})
  <2>1. DOMAIN <<a>> = {1} /\ [i \in DOMAIN <<a>> |-> W[<<a>>[i]]] = f
    OBVIOUS
  <2> HIDE DEF f
  <2> QED BY <2>1 DEF Total
<1>3. SumFunctionOnSet(f, {1}) = f[1] + SumFunctionOnSet(f, {1} \ {1})
  <2>1. IsFiniteSet({1}) /\ \A x \in {1} : f[x] \in Int
    BY FS_Singleton
  <2> HIDE DEF f
  <2> QED BY <2>1, SumRemove
<1>4. {1} \ {1} = {} /\ f[1] = W[a]
  OBVIOUS
<1> HIDE DEF f
<1>5. SumFunctionOnSet(f, {1} \ {1}) = 0
  BY <1>4, SumEmpty
<1>6. Total(W, <<a>>) = W[a] + 0
  BY <1>2, <1>3, <1>4, <1>5
<1> QED BY <1>1, <1>6

\* The first element apart.
LEMMA TotalHead ==
  ASSUME NEW A, NEW s \in Seq(A), s # <<>>, NEW W, \A a \in A : W[a] \in Int
  PROVE  Total(W, s) = W[Head(s)] + Total(W, Tail(s))
<1>1. Head(s) \in A /\ Tail(s) \in Seq(A) /\ s = <<Head(s)>> \o Tail(s)
  BY HeadTailProperties
<1> DEFINE one == <<Head(s)>>
<1>2. one \in Seq(A) /\ Total(W, one) = W[Head(s)]
  BY <1>1, TotalShort
<1> HIDE DEF one
<1>3. Total(W, one \o Tail(s)) = Total(W, one) + Total(W, Tail(s))
  BY ZenonT(30), <1>1, <1>2, TotalConcat
<1> QED BY <1>1, <1>2, <1>3 DEF one

\* The sum depends on the values only.
LEMMA TotalAgree ==
  ASSUME NEW A, NEW s \in Seq(A), NEW W, \A a \in A : W[a] \in Int,
         NEW V, \A i \in DOMAIN s : V[s[i]] = W[s[i]]
  PROVE  Total(V, s) = Total(W, s)
<1> DEFINE f == [i \in DOMAIN s |-> W[s[i]]]
           g == [i \in DOMAIN s |-> V[s[i]]]
<1>1. f = g
  OBVIOUS
<1> QED BY <1>1 DEF Total

\* Zeros.
LEMMA TotalZeros ==
  ASSUME NEW A, NEW s \in Seq(A), NEW W, \A a \in A : W[a] \in Int,
         \A i \in DOMAIN s : W[s[i]] = 0
  PROVE  Total(W, s) = 0
<1> DEFINE f == [i \in DOMAIN s |-> W[s[i]]]
<1>1. \A i \in DOMAIN s : f[i] = 0
  OBVIOUS
<1>2. IsFiniteSet(DOMAIN s)
  BY TotalOf
<1> HIDE DEF f
<1>3. SumFunctionOnSet(f, DOMAIN s) = 0
  BY <1>1, <1>2, SumZeros
<1> QED BY <1>3 DEF Total, f

\* Numbers have a sum that none of them exceeds.
LEMMA TotalNat ==
  ASSUME NEW A, NEW s \in Seq(A), NEW W, \A a \in A : W[a] \in Nat
  PROVE  Total(W, s) \in Nat /\ \A i \in DOMAIN s : W[s[i]] <= Total(W, s)
<1> DEFINE f == [i \in DOMAIN s |-> W[s[i]]]
<1>1. IsFiniteSet(DOMAIN s) /\ \A i \in DOMAIN s : f[i] \in Nat
  BY TotalOf
<1>2. \A i \in DOMAIN s : f[i] = W[s[i]]
  OBVIOUS
<1> HIDE DEF f
<1>3. SumFunctionOnSet(f, DOMAIN s) \in Nat
      /\ \A i \in DOMAIN s : f[i] <= SumFunctionOnSet(f, DOMAIN s)
  BY <1>1, SumNat
<1>4. Total(W, s) = SumFunctionOnSet(f, DOMAIN s)
  BY DEF Total, f
<1> QED BY <1>2, <1>3, <1>4

\* A sequence without repetition is summed like the set of its elements.
LEMMA TotalOfSet ==
  ASSUME NEW A, NEW s \in Seq(A), NEW W, \A a \in A : W[a] \in Int,
         \A i, j \in DOMAIN s : s[i] = s[j] => i = j
  PROVE  /\ IsFiniteSet({s[i] : i \in DOMAIN s})
         /\ Total(W, s) = SumFunctionOnSet(W, {s[i] : i \in DOMAIN s})
<1> DEFINE f == [i \in DOMAIN s |-> W[s[i]]]
           R == {s[i] : i \in DOMAIN s}
<1>1. /\ IsFiniteSet(DOMAIN s)
      /\ \A i \in DOMAIN s : s[i] \in A /\ f[i] \in Int /\ f[i] = W[s[i]]
  BY TotalOf
<1>2. s \in [DOMAIN s -> R] /\ R \subseteq A
  BY <1>1, LenProperties
<1>3. s \in Surjection(DOMAIN s, R)
  BY <1>2 DEF Surjection
<1> HIDE DEF f
<1>4. IsFiniteSet(R)
  <2> HIDE DEF R
  <2> QED BY <1>1, <1>3, FS_Surjection
<1>5. \A x \in R : W[x] \in Int
  BY <1>2
<1>6. \A x \in R : \E i \in DOMAIN s : s[i] = x
  OBVIOUS
<1> HIDE DEF R
<1>7. SumFunctionOnSet(f, DOMAIN s) = SumFunctionOnSet(W, R)
  BY <1>1, <1>2, <1>4, <1>5, <1>6, SumMoved
<1> QED BY <1>4, <1>7 DEF Total, f, R

-----------------------------------------------------------------------------
(* Without *)

\* g[k] is what is kept of the first k elements.
IsKept(g, n, list, items) ==
  g = [k \in 0 .. n |->
         IF k = 0 THEN <<>>
         ELSE IF list[k] \in items THEN g[k - 1] ELSE Append(g[k - 1], list[k])]

\* The value of such a function at k, once.
LEMMA IsKeptAt ==
  ASSUME NEW g, NEW n, NEW list, NEW items, IsKept(g, n, list, items), NEW k \in 0 .. n
  PROVE  g[k] = IF k = 0 THEN <<>>
                ELSE IF list[k] \in items THEN g[k - 1] ELSE Append(g[k - 1], list[k])
BY DEF IsKept

\* There is one for every length.
LEMMA KeptExists ==
  ASSUME NEW n \in Nat, NEW list, NEW items
  PROVE  \E g : IsKept(g, n, list, items)
<1> DEFINE Bad == {k \in 0 .. n : ~\E g : IsKept(g, k, list, items)}
<1> SUFFICES ASSUME Bad # {} PROVE FALSE
  BY DEF Bad
<1>0. Bad \in SUBSET Nat
  OBVIOUS
<1>1. PICK k \in Bad : \A d \in Bad : k <= d
  <2> HIDE DEF Bad
  <2> QED BY <1>0, LeastNumber
<1>2. k \in 0 .. n /\ ~\E g : IsKept(g, k, list, items)
  BY <1>1
<1>3. CASE k = 0
  <2> DEFINE g == [j \in 0 .. 0 |-> <<>>]
  <2>1. IsKept(g, 0, list, items)
    BY DEF IsKept
  <2> QED BY <1>2, <1>3, <2>1
<1>4. CASE k # 0
  <2>1. k - 1 \in 0 .. n /\ ~(k <= k - 1)
    BY <1>2, <1>4
  <2>2. PICK g : IsKept(g, k - 1, list, items)
    BY <1>1, <2>1
  <2> DEFINE last == IF list[k] \in items THEN g[k - 1] ELSE Append(g[k - 1], list[k])
             h == [j \in 0 .. k |-> IF j = k THEN last ELSE g[j]]
  <2>3. \A j \in 0 .. k - 1 :
          g[j] = IF j = 0 THEN <<>>
                 ELSE IF list[j] \in items THEN g[j - 1] ELSE Append(g[j - 1], list[j])
    BY <2>2, IsKeptAt
  <2>4. \A j \in 0 .. k - 1 : j \in 0 .. k /\ j # k /\ h[j] = g[j]
    BY <1>2
  <2>5. \A j \in 0 .. k : j # k /\ j # 0 => j \in 0 .. k - 1 /\ j - 1 \in 0 .. k - 1
    BY <1>2
  <2>6. k \in 0 .. k /\ h[k] = last /\ k - 1 \in 0 .. k - 1 /\ 0 \in 0 .. k - 1
    BY <1>2, <1>4
  <2> HIDE DEF h
  <2>7. \A j \in 0 .. k :
          h[j] = IF j = 0 THEN <<>>
                 ELSE IF list[j] \in items THEN h[j - 1] ELSE Append(h[j - 1], list[j])
    <3>1. \A j \in 0 .. k : j # k /\ j # 0 =>
            h[j] = IF list[j] \in items THEN h[j - 1] ELSE Append(h[j - 1], list[j])
      BY <2>3, <2>4, <2>5
    <3>2. h[0] = <<>>
      BY <2>3, <2>4, <2>6
    <3>3. h[k] = IF list[k] \in items THEN h[k - 1] ELSE Append(h[k - 1], list[k])
      BY <2>4, <2>6
    <3> QED BY <1>4, <3>1, <3>2, <3>3
  <2>8. h = [j \in 0 .. k |-> h[j]]
    BY DEF h
  <2>9. IsKept(h, k, list, items)
    BY <2>7, <2>8 DEF IsKept
  <2> QED BY <1>2, <2>9
<1> QED BY <1>3, <1>4

\* Without is the last value of such a function.
LEMMA WithoutIs ==
  ASSUME NEW list, Len(list) \in Nat, NEW items
  PROVE  \E g : /\ IsKept(g, Len(list), list, items)
                /\ Without(list, items) = g[Len(list)]
<1> DEFINE g == CHOOSE f : IsKept(f, Len(list), list, items)
<1>1. IsKept(g, Len(list), list, items)
  BY KeptExists
<1>2. Without(list, items) = g[Len(list)]
  BY DEF Without, IsKept
<1> QED BY <1>1, <1>2

\* The elements of a list are found once each.
Distinct(s) == \A i, j \in DOMAIN s : s[i] = s[j] => i = j

\* An element is appended.
LEMMA AppendedOne ==
  ASSUME NEW A, NEW s \in Seq(A), NEW a \in A
  PROVE  /\ Append(s, a) \in Seq(A)
         /\ ToSet(Append(s, a)) = ToSet(s) \cup {a}
         /\ Distinct(s) /\ a \notin ToSet(s) => Distinct(Append(s, a))
<1> DEFINE r == Append(s, a)
           n == Len(s)
<1>1. /\ r \in Seq(A) /\ Len(r) = n + 1 /\ n \in Nat
      /\ \A i \in 1 .. n : r[i] = s[i]
      /\ r[n + 1] = a
  BY AppendProperties, LenProperties
<1>2. DOMAIN r = 1 .. n + 1 /\ DOMAIN s = 1 .. n
  BY <1>1, LenProperties
<1> HIDE DEF r, n
<1>3. \A i \in 1 .. n + 1 : i \in 1 .. n \/ i = n + 1
  BY <1>1
<1>4. \A i \in 1 .. n : i \in 1 .. n + 1 /\ i # n + 1
  BY <1>1
<1>5. n + 1 \in 1 .. n + 1
  BY <1>1
<1>6. ToSet(r) = ToSet(s) \cup {a}
  BY <1>1, <1>2, <1>3, <1>4, <1>5 DEF ToSet
<1>7. Distinct(s) /\ a \notin ToSet(s) => Distinct(r)
  BY <1>1, <1>2, <1>3 DEF ToSet, Distinct
<1> QED BY <1>1, <1>6, <1>7 DEF r

\* What Without keeps.
LEMMA WithoutKeeps ==
  ASSUME NEW A, NEW list \in Seq(A), NEW items
  PROVE  /\ Without(list, items) \in Seq(A)
         /\ ToSet(Without(list, items)) = ToSet(list) \ items
         /\ Distinct(list) => Distinct(Without(list, items))
<1> DEFINE n == Len(list)
           Upto(k) == {list[i] : i \in 1 .. k}
<1>1. n \in Nat /\ DOMAIN list = 1 .. n /\ \A i \in 1 .. n : list[i] \in A
  BY LenProperties, ElementOfSeq
<1>2. PICK g : IsKept(g, n, list, items) /\ Without(list, items) = g[n]
  BY <1>1, WithoutIs
<1> DEFINE Good(k) == /\ g[k] \in Seq(A)
                      /\ ToSet(g[k]) = Upto(k) \ items
                      /\ Distinct(list) => Distinct(g[k])
           Bad == {k \in 0 .. n : ~Good(k)}
<1> HIDE DEF n
<1>3. \A k \in 0 .. n :
        g[k] = IF k = 0 THEN <<>>
               ELSE IF list[k] \in items THEN g[k - 1] ELSE Append(g[k - 1], list[k])
  BY <1>2, IsKeptAt
<1>4. Bad = {}
  <2> SUFFICES ASSUME Bad # {} PROVE FALSE
    OBVIOUS
  <2>0. Bad \in SUBSET Nat
    BY <1>1
  <2>1. PICK k \in Bad : \A d \in Bad : k <= d
    <3> HIDE DEF Bad
    <3> QED BY <2>0, LeastNumber
  <2>2. k \in 0 .. n /\ ~Good(k)
    BY <2>1
  <2>3. CASE k = 0
    <3>1. g[0] = <<>> /\ Upto(0) = {}
      BY <1>1, <1>3
    <3>2. <<>> \in Seq(A) /\ ToSet(<<>>) = {} /\ Distinct(<<>>)
      BY DEF ToSet, Distinct
    <3>3. Good(0)
      BY <3>1, <3>2
    <3> QED BY <2>2, <2>3, <3>3
  <2>4. CASE k # 0
    <3>1. k - 1 \in 0 .. n /\ ~(k <= k - 1) /\ k \in 1 .. n
      BY <1>1, <2>2, <2>4
    <3>2. Good(k - 1)
      BY <2>1, <3>1
    <3>3. Upto(k) = Upto(k - 1) \cup {list[k]}
      <4>1. \A i \in 1 .. k : i \in 1 .. k - 1 \/ i = k
        BY <1>1, <3>1
      <4>2. \A i \in 1 .. k - 1 : i \in 1 .. k
        BY <1>1, <3>1
      <4>3. k \in 1 .. k
        BY <1>1, <3>1
      <4> QED BY <4>1, <4>2, <4>3
    <3>4. Distinct(list) => list[k] \notin Upto(k - 1)
      <4>1. \A i \in 1 .. k - 1 : i \in 1 .. n /\ i # k
        BY <1>1, <3>1
      <4> QED BY <1>1, <3>1, <4>1 DEF Distinct
    <3>5. list[k] \in A
      BY <1>1, <3>1
    <3>6. g[k] = IF list[k] \in items THEN g[k - 1] ELSE Append(g[k - 1], list[k])
      BY <1>3, <2>2, <2>4
    <3> HIDE DEF Upto, Bad
    <3>7. CASE list[k] \in items
      BY <2>2, <3>2, <3>3, <3>6, <3>7
    <3>8. CASE list[k] \notin items
      <4> DEFINE s == g[k - 1]
                 a == list[k]
      <4>1. s \in Seq(A) /\ ToSet(s) = Upto(k - 1) \ items /\ (Distinct(list) => Distinct(s))
        BY <3>2
      <4>2. g[k] = Append(s, a) /\ a \in A
        BY <3>5, <3>6, <3>8
      <4> HIDE DEF s
      <4>3. /\ Append(s, a) \in Seq(A) /\ ToSet(Append(s, a)) = ToSet(s) \cup {a}
            /\ Distinct(s) /\ a \notin ToSet(s) => Distinct(Append(s, a))
        BY <4>1, <4>2, AppendedOne
      <4>4. Good(k)
        BY <3>3, <3>4, <3>8, <4>1, <4>2, <4>3
      <4> QED BY <2>2, <4>4
    <3> QED BY <3>7, <3>8
  <2> QED BY <2>3, <2>4
<1>5. Good(n)
  <2>1. n \in 0 .. n
    BY <1>1
  <2> QED BY <1>4, <2>1
<1>6. Upto(n) = ToSet(list)
  BY <1>1 DEF ToSet
<1> QED BY <1>2, <1>5, <1>6

-----------------------------------------------------------------------------
(* Lists *)

\* Two lists, one behind the other.
LEMMA Concatenated ==
  ASSUME NEW A, NEW s \in Seq(A), NEW r \in Seq(A)
  PROVE  /\ s \o r \in Seq(A)
         /\ ToSet(s \o r) = ToSet(s) \cup ToSet(r)
         /\ Distinct(s) /\ Distinct(r) /\ ToSet(s) \cap ToSet(r) = {} => Distinct(s \o r)
<1> DEFINE q == s \o r
           m == Len(s)
           n == Len(r)
<1>1. /\ q \in Seq(A) /\ Len(q) = m + n
      /\ \A i \in 1 .. m + n : q[i] = IF i <= m THEN s[i] ELSE r[i - m]
  BY ConcatProperties
<1>2. /\ m \in Nat /\ n \in Nat
      /\ DOMAIN s = 1 .. m /\ DOMAIN r = 1 .. n
  BY LenProperties
<1>3. DOMAIN q = 1 .. m + n
  <2> HIDE DEF q
  <2> QED BY <1>1, LenProperties
<1> HIDE DEF q, m, n
<1>4. \A i \in 1 .. m : i \in 1 .. m + n /\ q[i] = s[i]
  BY <1>1, <1>2
<1>5. \A i \in 1 .. n : i + m \in 1 .. m + n /\ q[i + m] = r[i]
  BY <1>1, <1>2
<1>6. \A i \in 1 .. m + n : i \in 1 .. m \/ (i - m \in 1 .. n /\ (i - m) + m = i)
  BY <1>2
<1>7. ToSet(q) = ToSet(s) \cup ToSet(r)
  <2>1. \A i \in 1 .. m + n : q[i] \in ToSet(s) \cup ToSet(r)
    <3> SUFFICES ASSUME NEW i \in 1 .. m + n PROVE q[i] \in ToSet(s) \cup ToSet(r)
      OBVIOUS
    <3>1. CASE i \in 1 .. m
      BY <1>2, <1>4, <3>1 DEF ToSet
    <3>2. CASE i - m \in 1 .. n /\ (i - m) + m = i
      <4>1. q[i] = r[i - m]
        BY <1>5, <3>2
      <4> QED BY <1>2, <3>2, <4>1 DEF ToSet
    <3> QED BY <1>6, <3>1, <3>2
  <2>2. \A i \in 1 .. m : s[i] \in ToSet(q)
    BY <1>3, <1>4 DEF ToSet
  <2>3. \A i \in 1 .. n : r[i] \in ToSet(q)
    BY <1>3, <1>5 DEF ToSet
  <2> QED BY <1>2, <1>3, <2>1, <2>2, <2>3 DEF ToSet
<1>8. ASSUME Distinct(s), Distinct(r), ToSet(s) \cap ToSet(r) = {} PROVE Distinct(q)
  <2> SUFFICES ASSUME NEW i \in 1 .. m + n, NEW j \in 1 .. m + n, q[i] = q[j] PROVE i = j
    BY <1>3 DEF Distinct
  <2>1. CASE i \in 1 .. m /\ j \in 1 .. m
    BY <1>2, <1>4, <1>8, <2>1 DEF Distinct
  <2>2. CASE i \in 1 .. m /\ j \notin 1 .. m
    <3>1. j - m \in 1 .. n /\ q[j] = r[j - m] /\ q[i] = s[i]
      BY <1>4, <1>5, <1>6, <2>2
    <3> QED BY <1>2, <1>8, <2>2, <3>1 DEF ToSet
  <2>3. CASE i \notin 1 .. m /\ j \in 1 .. m
    <3>1. i - m \in 1 .. n /\ q[i] = r[i - m] /\ q[j] = s[j]
      BY <1>4, <1>5, <1>6, <2>3
    <3> QED BY <1>2, <1>8, <2>3, <3>1 DEF ToSet
  <2>4. CASE i \notin 1 .. m /\ j \notin 1 .. m
    <3>1. i - m \in 1 .. n /\ q[i] = r[i - m] /\ j - m \in 1 .. n /\ q[j] = r[j - m]
      BY <1>5, <1>6, <2>4
    <3>2. i - m = j - m
      BY <1>2, <1>8, <3>1 DEF Distinct
    <3> QED BY <1>2, <3>2
  <2> QED BY <2>1, <2>2, <2>3, <2>4
<1> QED BY <1>1, <1>7, <1>8 DEF q

\* The first k elements.
LEMMA FirstOnes ==
  ASSUME NEW A, NEW s \in Seq(A), NEW k \in 0 .. Len(s)
  PROVE  /\ SubSeq(s, 1, k) \in Seq(A)
         /\ ToSet(SubSeq(s, 1, k)) \subseteq ToSet(s)
         /\ Distinct(s) => Distinct(SubSeq(s, 1, k))
<1> DEFINE r == SubSeq(s, 1, k)
<1>1. Len(s) \in Nat /\ DOMAIN s = 1 .. Len(s) /\ \A i \in 1 .. k : s[i] \in A
  BY LenProperties, ElementOfSeq
<1>2. /\ r \in Seq(A)
      /\ Len(r) = IF 1 <= k THEN k - 1 + 1 ELSE 0
      /\ \A i \in 1 .. k - 1 + 1 : r[i] = s[1 + i - 1]
  <2>1. 1 \in Int /\ k \in Int
    BY <1>1
  <2> QED BY <1>1, <2>1, SubSeqProperties
<1>3. Len(r) = k /\ \A i \in 1 .. k : r[i] = s[i] /\ i \in DOMAIN s
  BY <1>1, <1>2
<1>4. DOMAIN r = 1 .. k
  <2> HIDE DEF r
  <2> QED BY <1>2, <1>3, LenProperties
<1> HIDE DEF r
<1>5. ToSet(r) \subseteq ToSet(s) /\ (Distinct(s) => Distinct(r))
  BY <1>3, <1>4 DEF ToSet, Distinct
<1> QED BY <1>2, <1>5 DEF r

\* One element, and none.
LEMMA ShortLists ==
  ASSUME NEW A
  PROVE  /\ <<>> \in Seq(A) /\ ToSet(<<>>) = {} /\ Distinct(<<>>)
         /\ \A a \in A : <<a>> \in Seq(A) /\ ToSet(<<a>>) = {a} /\ Distinct(<<a>>)
<1>1. <<>> \in Seq(A) /\ ToSet(<<>>) = {} /\ Distinct(<<>>)
  BY DEF ToSet, Distinct
<1>2. \A a \in A : <<a>> \in Seq(A) /\ ToSet(<<a>>) = {a} /\ Distinct(<<a>>)
  <2> SUFFICES ASSUME NEW a \in A
               PROVE  <<a>> \in Seq(A) /\ ToSet(<<a>>) = {a} /\ Distinct(<<a>>)
    OBVIOUS
  <2>1. <<a>> \in Seq(A) /\ DOMAIN <<a>> = {1} /\ <<a>>[1] = a
    OBVIOUS
  <2> QED BY <2>1 DEF ToSet, Distinct
<1> QED BY <1>1, <1>2

\* The only element.
LEMMA OneElement == \A a : \A i \in DOMAIN <<a>> : <<a>>[i] = a
OBVIOUS

\* The first element and the others.
LEMMA HeadApart ==
  ASSUME NEW A, NEW s \in Seq(A), s # <<>>
  PROVE  /\ Head(s) \in A /\ Head(s) \in ToSet(s) /\ Tail(s) \in Seq(A)
         /\ s = <<Head(s)>> \o Tail(s)
         /\ Distinct(s) => ToSet(Tail(s)) = ToSet(s) \ {Head(s)} /\ Distinct(Tail(s))
<1> DEFINE r == Tail(s)
           n == Len(s)
<1>1. Head(s) \in A /\ r \in Seq(A) /\ s = <<Head(s)>> \o r /\ Len(r) = n - 1
  BY HeadTailProperties
<1>2. n \in Nat \ {0} /\ DOMAIN s = 1 .. n /\ Head(s) = s[1]
  BY LenProperties, EmptySeq
<1>3. DOMAIN r = 1 .. n - 1 /\ \A i \in 1 .. n - 1 : r[i] = s[i + 1] /\ i + 1 \in 1 .. n
  BY <1>2
<1> HIDE DEF r, n
<1>4. Head(s) \in ToSet(s)
  BY <1>2 DEF ToSet
<1>5. ASSUME Distinct(s) PROVE ToSet(r) = ToSet(s) \ {Head(s)} /\ Distinct(r)
  <2>1. \A i \in 1 .. n - 1 : r[i] \in ToSet(s) \ {Head(s)}
    <3> SUFFICES ASSUME NEW i \in 1 .. n - 1 PROVE r[i] \in ToSet(s) \ {Head(s)}
      OBVIOUS
    <3>1. i + 1 \in 1 .. n /\ i + 1 # 1 /\ 1 \in 1 .. n /\ r[i] = s[i + 1]
      BY <1>2, <1>3
    <3>2. s[i + 1] # s[1]
      BY <1>2, <1>5, <3>1 DEF Distinct
    <3> QED BY <1>2, <3>1, <3>2 DEF ToSet
  <2>2. \A i \in 1 .. n : i # 1 => i - 1 \in 1 .. n - 1 /\ (i - 1) + 1 = i
    BY <1>2
  <2>3. \A i \in 1 .. n : i # 1 => s[i] \in ToSet(r)
    <3>1. \A i \in 1 .. n : i # 1 => s[i] = r[i - 1]
      BY <1>3, <2>2
    <3> QED BY <1>3, <2>2, <3>1 DEF ToSet
  <2>4. Distinct(r)
    <3> SUFFICES ASSUME NEW i \in 1 .. n - 1, NEW j \in 1 .. n - 1, r[i] = r[j] PROVE i = j
      BY <1>3 DEF Distinct
    <3>1. s[i + 1] = s[j + 1]
      BY <1>3
    <3>2. i + 1 = j + 1
      BY <1>2, <1>3, <1>5, <3>1 DEF Distinct
    <3> QED BY <1>2, <3>2
  <2>5. \A i \in 1 .. n : s[i] # Head(s) => i # 1
    BY <1>2
  <2>6. ToSet(r) \subseteq ToSet(s) \ {Head(s)}
    <3>1. \A x \in ToSet(r) : \E i \in 1 .. n - 1 : x = r[i]
      BY <1>3 DEF ToSet
    <3> QED BY <2>1, <3>1
  <2>7. ToSet(s) \ {Head(s)} \subseteq ToSet(r)
    <3>1. \A x \in ToSet(s) : \E i \in 1 .. n : x = s[i]
      BY <1>2 DEF ToSet
    <3> QED BY <2>3, <2>5, <3>1
  <2> QED BY <2>4, <2>6, <2>7
<1> QED BY <1>1, <1>4, <1>5 DEF r

\* The orders SetToSeqs gives the elements of a set.
LEMMA Orders ==
  ASSUME NEW S, IsFiniteSet(S), NEW s \in SetToSeqs(S)
  PROVE  s \in Seq(S) /\ Distinct(s) /\ ToSet(s) \subseteq S
<1>1. Cardinality(S) \in Nat
  BY FS_CardinalityType
<1>2. /\ s \in [1 .. Cardinality(S) -> S]
      /\ \A i, j \in 1 .. Cardinality(S) : i # j => s[i] # s[j]
  BY DEF SetToSeqs
<1> DEFINE n == Cardinality(S)
<1> HIDE DEF n
<1>3. s \in [1 .. n -> S] /\ n \in Nat /\ \A i, j \in 1 .. n : i # j => s[i] # s[j]
  BY <1>1, <1>2 DEF n
<1>4. s \in Seq(S)
  BY <1>3
<1>5. DOMAIN s = 1 .. n
  BY <1>3
<1> QED BY <1>3, <1>4, <1>5 DEF Distinct, ToSet

-----------------------------------------------------------------------------
(* The steps of a call *)

Field == {"bytes", "items"}
Status == [Field -> 0 .. WordMod - 1]

RoomStep == [op : {"limitBytes", "limitItems", "ensure", "purge", "purgeItems"}, n : Nat]
ItemStep == [op : {"lock", "pin", "link", "unpin", "destroy", "remove"}, item : Item]
SizedStep == [op : {"insert", "resize"}, item : Item, n : Nat \ {0}]
SetStep == [op : {"setSize"}, item : Item, n : Nat \ {0}, old : Nat]
ChangeStep == [op : {"notify"}, item : Item, n : Int]
NoteStep == [op : {"note"}, bytes : Int, items : Int]
StoreStep == [op : {"store"}, delta : NoteStep, seen : Status]
FlushStep == [op : {"flush", "endFlush"}]
Step ==
  UNION {RoomStep, ItemStep, SizedStep, SetStep, ChangeStep, NoteStep, StoreStep, FlushStep}

\* What may come before an item is inserted: room is made and changes are noted.
Quick == {"limitBytes", "limitItems", "ensure", "purge", "purgeItems", "note", "store",
          "destroy"}
QuickStep == {s \in Step : s.op \in Quick}

\* Whether a step is that operation on x.
Is(op, x) == [s \in Step |-> IF s.op = op /\ s.item = x THEN 1 ELSE 0]

\* What an item counts for.
Value(f) == IF f = "bytes" THEN size ELSE [x \in Item |-> 1]

\* What a step will add to a counter of the status.
Owes(f) ==
  [s \in Step |->
     IF s.op = "note" THEN s[f]
     ELSE IF s.op = "store" THEN s.delta[f]
     ELSE IF s.op = "destroy" THEN -Value(f)[s.item]
     ELSE IF s.op = "notify" /\ f = "bytes" THEN s.n
     ELSE 0]

\* What W makes of all the steps still to do.
Owing(W) == SumFunctionOnSet([t \in Thread |-> Total(W, todo[t])], Thread)

-----------------------------------------------------------------------------
(* The invariant *)

Types ==
  /\ lru \in Seq(Item) /\ count \in [Item -> Nat] /\ used \in 0 .. WordMod - 1
  /\ size \in [Item -> Nat]
  /\ own \in Status /\ all \in Status
  /\ frame \in [Thread -> [depth : 0 .. MaxDepth, list : Seq(Item)]]
  /\ inFlush \in BOOLEAN /\ forced \in BOOLEAN /\ crashed \in BOOLEAN /\ crossed \in BOOLEAN
  /\ todo \in [Thread -> Seq(Step)]
  /\ discards \in [Item -> Nat]
  /\ holds \in [Thread -> [Item -> Nat]]

\* The unlocked items are in the list, once; so are the items linked into a frame.
Lists ==
  /\ Distinct(lru) /\ ToSet(lru) \cap Locked = {}
  /\ \A t \in Thread : /\ Distinct(frame[t].list)
                       /\ frame[t].depth = 0 => frame[t].list = <<>>
  /\ Cardinality(FramesInUse) <= Slots

\* An item is inserted before the steps that need it, and no other is returned then.
Ordered(s) ==
  \A i, j \in DOMAIN s :
    s[j].op = "insert" => /\ i < j => s[i].op \in Quick
                          /\ s[i].op = "unpin" => s[i].item = s[j].item

\* An item that is linked or resized is locked for that: the next step returns the lock.
Followed(s, added, depth) ==
  \A i \in DOMAIN s :
    s[i].op \in {"link", "resize", "setSize"} =>
      /\ i + 1 \in DOMAIN s /\ s[i + 1].op = "unpin" /\ s[i + 1].item = s[i].item
      /\ s[i].item \in added
      /\ s[i].op = "link" => depth # 0

\* The lock on an item to be inserted is returned once.
Announced(s, added) ==
  \A x \in Item \ added : Total(Is("unpin", x), s) = Total(Is("insert", x), s)

Ready(s, added, depth) == Ordered(s) /\ Followed(s, added, depth) /\ Announced(s, added)

Todo == \A t \in Thread : Ready(todo[t], Added, frame[t].depth)

\* An item is added once. Then it is cached, or about to be destroyed, or was discarded.
Left(x) == (IF x \in Cached THEN 1 ELSE 0) + Owing(Is("destroy", x)) + discards[x]
Once(x) == IF x \in Added THEN 1 ELSE 0
Life(x) == Left(x) = Once(x) /\ Owing(Is("insert", x)) + Once(x) <= 1

\* The counters of the status that can be relied on.
Sure == IF crossed THEN {"items"} ELSE Field

\* The shared status and what the steps still to do will add to it are what is cached.
Noted ==
  ~crashed \/ AllIdle =>
    \A f \in Sure :
      (all[f] + Owing(Owes(f))) % WordMod = SumFunctionOnSet(Value(f), Cached) % WordMod

\* A thread's locks on x.
InFrame(t, x) == IF x \in ToSet(frame[t].list) THEN 1 ELSE 0
Share(t, x) == holds[t][x] + Total(Is("unpin", x), todo[t]) + InFrame(t, x)

Kept(x) ==
  /\ x \in Added => count[x] = SumFunctionOnSet([t \in Thread |-> Share(t, x)], Thread)
  /\ x \notin Added => \A t \in Thread : holds[t][x] = 0 /\ x \notin ToSet(frame[t].list)

Safe == ~forced => ~crashed /\ \A x \in Item : Kept(x)

Inv == Types /\ Lists /\ Todo /\ (\A x \in Item : Life(x)) /\ Noted /\ Safe

-----------------------------------------------------------------------------
(* What a step weighs *)

\* The constants.
LEMMA Constants ==
  /\ IsFiniteSet(Thread) /\ IsFiniteSet(Item)
  /\ InitialSize \in [Item -> Nat \ {0}] /\ NewSizes \subseteq Nat \ {0}
  /\ MaxBytes \in Nat /\ MaxItems \in Nat /\ MaxDepth \in Nat
  /\ Slots \in Nat \ {0}
  /\ WordMod \in Nat \ {0, 1}
BY CacheAssumption

\* A step's operation tells what it is.
LEMMA Kinds ==
  \A s \in Step :
    /\ s.op \in {"limitBytes", "limitItems", "ensure", "purge", "purgeItems"} => s \in RoomStep
    /\ s.op \in {"lock", "pin", "link", "unpin", "destroy", "remove"} => s \in ItemStep
    /\ s.op \in {"insert", "resize"} => s \in SizedStep
    /\ s.op = "setSize" => s \in SetStep
    /\ s.op = "notify" => s \in ChangeStep
    /\ s.op = "note" => s \in NoteStep
    /\ s.op = "store" => s \in StoreStep
<1> SUFFICES ASSUME NEW s \in Step
             PROVE  /\ s.op \in {"limitBytes", "limitItems", "ensure", "purge", "purgeItems"}
                         => s \in RoomStep
                    /\ s.op \in {"lock", "pin", "link", "unpin", "destroy", "remove"}
                         => s \in ItemStep
                    /\ s.op \in {"insert", "resize"} => s \in SizedStep
                    /\ s.op = "setSize" => s \in SetStep
                    /\ s.op = "notify" => s \in ChangeStep
                    /\ s.op = "note" => s \in NoteStep
                    /\ s.op = "store" => s \in StoreStep
  OBVIOUS
<1>1. /\ s \in RoomStep => s.op \in {"limitBytes", "limitItems", "ensure", "purge", "purgeItems"}
      /\ s \in ItemStep => s.op \in {"lock", "pin", "link", "unpin", "destroy", "remove"}
      /\ s \in SizedStep => s.op \in {"insert", "resize"}
      /\ s \in SetStep => s.op = "setSize"
      /\ s \in ChangeStep => s.op = "notify"
      /\ s \in NoteStep => s.op = "note"
      /\ s \in StoreStep => s.op = "store"
      /\ s \in FlushStep => s.op \in {"flush", "endFlush"}
  BY DEF RoomStep, ItemStep, SizedStep, SetStep, ChangeStep, NoteStep, StoreStep, FlushStep
<1>2. \/ s \in RoomStep \/ s \in ItemStep \/ s \in SizedStep \/ s \in SetStep
      \/ s \in ChangeStep \/ s \in NoteStep \/ s \in StoreStep \/ s \in FlushStep
  BY DEF Step
<1> QED BY <1>1, <1>2

\* The kinds of steps are steps.
LEMMA KindsAreSteps ==
  /\ RoomStep \subseteq QuickStep /\ NoteStep \subseteq QuickStep /\ StoreStep \subseteq QuickStep
  /\ QuickStep \subseteq Step
  /\ ItemStep \subseteq Step /\ SizedStep \subseteq Step /\ SetStep \subseteq Step
  /\ ChangeStep \subseteq Step /\ FlushStep \subseteq Step
<1>1. \A s \in RoomStep : s.op \in {"limitBytes", "limitItems", "ensure", "purge", "purgeItems"}
  BY DEF RoomStep
<1>2. \A s \in NoteStep : s.op = "note"
  BY DEF NoteStep
<1>3. \A s \in StoreStep : s.op = "store"
  BY DEF StoreStep
<1> QED BY <1>1, <1>2, <1>3 DEF QuickStep, Quick, Step

\* Steps count as zero or one.
LEMMA IsType ==
  \A op, x : \A s \in Step : Is(op, x)[s] \in Nat
BY DEF Is

\* Steps owe integers.
LEMMA OwesType ==
  ASSUME Types, NEW f \in Field
  PROVE  /\ Value(f) \in [Item -> Nat]
         /\ \A s \in Step : Owes(f)[s] \in Int
<1>1. Value(f) \in [Item -> Nat]
  BY DEF Types, Value
<1>2. \A s \in NoteStep : s[f] \in Int
  BY DEF NoteStep, Field
<1>3. ASSUME NEW s \in Step PROVE Owes(f)[s] \in Int
  <2>1. s.op = "note" => s[f] \in Int
    BY <1>2, Kinds
  <2>2. s.op = "store" => s.delta[f] \in Int
    <3>1. s.op = "store" => s.delta \in NoteStep
      BY Kinds DEF StoreStep
    <3> QED BY <1>2, <3>1
  <2>3. s.op = "destroy" => -Value(f)[s.item] \in Int
    <3>1. s.op = "destroy" => s.item \in Item
      BY Kinds DEF ItemStep
    <3> QED BY <1>1, <3>1
  <2>4. s.op = "notify" => s.n \in Int
    BY Kinds DEF ChangeStep
  <2> QED BY <2>1, <2>2, <2>3, <2>4 DEF Owes
<1> QED BY <1>1, <1>3

-----------------------------------------------------------------------------
(* What a thread has to do *)

\* Two lists of steps, one behind the other, element by element.
LEMMA BothParts ==
  ASSUME NEW A, NEW s \in Seq(A), NEW r \in Seq(A)
  PROVE  /\ \A i \in DOMAIN s : i \in DOMAIN (s \o r) /\ (s \o r)[i] = s[i]
         /\ \A i \in DOMAIN r : /\ i + Len(s) \in DOMAIN (s \o r)
                                /\ (s \o r)[i + Len(s)] = r[i]
         /\ \A i \in DOMAIN (s \o r) :
              \/ i \in DOMAIN s
              \/ i - Len(s) \in DOMAIN r /\ i = (i - Len(s)) + Len(s) /\ i > Len(s)
         /\ \A i \in DOMAIN s : i <= Len(s)
         /\ DOMAIN s \subseteq Nat /\ DOMAIN r \subseteq Nat \ {0} /\ DOMAIN (s \o r) \subseteq Nat
         /\ Len(s) \in Nat
<1> DEFINE q == s \o r
           m == Len(s)
           n == Len(r)
<1>1. /\ q \in Seq(A) /\ Len(q) = m + n
      /\ \A i \in 1 .. m + n : q[i] = IF i <= m THEN s[i] ELSE r[i - m]
  BY ConcatProperties
<1>2. m \in Nat /\ n \in Nat /\ DOMAIN s = 1 .. m /\ DOMAIN r = 1 .. n
  BY LenProperties
<1>3. DOMAIN q = 1 .. m + n
  <2> HIDE DEF q
  <2> QED BY <1>1, LenProperties
<1> HIDE DEF q, m, n
<1>4. \A i \in 1 .. m : i \in 1 .. m + n /\ q[i] = s[i]
  BY <1>1, <1>2
<1>5. \A i \in 1 .. n : i + m \in 1 .. m + n /\ q[i + m] = r[i]
  BY <1>1, <1>2
<1>6. \A i \in 1 .. m + n : i \in 1 .. m \/ (i - m \in 1 .. n /\ i = (i - m) + m /\ i > m)
  BY <1>2
<1>7. (\A i \in 1 .. m : i <= m) /\ 1 .. m \subseteq Nat /\ 1 .. n \subseteq Nat \ {0}
      /\ 1 .. m + n \subseteq Nat
  BY <1>2
<1> QED BY <1>2, <1>3, <1>4, <1>5, <1>6, <1>7 DEF q, m, n

\* What the steps still to do bring with them stays good when the first are done.
LEMMA RestReady ==
  ASSUME NEW cur \in Seq(Step), NEW rest \in Seq(Step), NEW added, NEW depth,
         Ready(cur \o rest, added, depth)
  PROVE  /\ Ordered(rest) /\ Followed(rest, added, depth)
         /\ (\E i \in DOMAIN cur : cur[i].op \notin Quick) =>
              \A i \in DOMAIN rest : rest[i].op # "insert"
<1> DEFINE q == cur \o rest
           m == Len(cur)
<1>1. /\ \A i \in DOMAIN cur : i \in DOMAIN q /\ q[i] = cur[i] /\ i <= m
      /\ \A i \in DOMAIN rest : i + m \in DOMAIN q /\ q[i + m] = rest[i]
      /\ \A i \in DOMAIN q :
           i \in DOMAIN cur \/ (i - m \in DOMAIN rest /\ i = (i - m) + m /\ i > m)
      /\ DOMAIN cur \subseteq Nat /\ DOMAIN rest \subseteq Nat \ {0} /\ m \in Nat
  BY BothParts
<1>2. Ordered(q) /\ Followed(q, added, depth)
  BY DEF Ready
<1> HIDE DEF q, m
<1>3. Ordered(rest)
  <2> SUFFICES ASSUME NEW i \in DOMAIN rest, NEW j \in DOMAIN rest, rest[j].op = "insert"
               PROVE  /\ i < j => rest[i].op \in Quick
                      /\ rest[i].op = "unpin" => rest[i].item = rest[j].item
    BY DEF Ordered
  <2>1. i < j => i + m < j + m
    BY <1>1
  <2>2. /\ i + m < j + m => rest[i].op \in Quick
        /\ rest[i].op = "unpin" => rest[i].item = rest[j].item
    BY <1>1, <1>2 DEF Ordered
  <2> QED BY <2>1, <2>2
<1>4. Followed(rest, added, depth)
  <2> SUFFICES ASSUME NEW i \in DOMAIN rest, rest[i].op \in {"link", "resize", "setSize"}
               PROVE  /\ i + 1 \in DOMAIN rest /\ rest[i + 1].op = "unpin"
                      /\ rest[i + 1].item = rest[i].item
                      /\ rest[i].item \in added
                      /\ rest[i].op = "link" => depth # 0
    BY DEF Followed
  <2>1. i + m \in DOMAIN q /\ q[i + m] = rest[i]
    BY <1>1
  <2>2. /\ (i + m) + 1 \in DOMAIN q /\ q[(i + m) + 1].op = "unpin"
        /\ q[(i + m) + 1].item = rest[i].item
        /\ rest[i].item \in added
        /\ rest[i].op = "link" => depth # 0
    BY <1>2, <2>1 DEF Followed
  <2>3. (i + m) + 1 = (i + 1) + m /\ ((i + m) + 1) - m = i + 1 /\ ~((i + m) + 1 <= m)
    BY <1>1
  <2>4. i + 1 \in DOMAIN rest
    BY <1>1, <2>2, <2>3
  <2>5. q[(i + m) + 1] = rest[i + 1]
    BY <1>1, <2>3, <2>4
  <2> QED BY <2>2, <2>4, <2>5
<1>5. ASSUME NEW i \in DOMAIN cur, cur[i].op \notin Quick, NEW j \in DOMAIN rest,
             rest[j].op = "insert"
      PROVE  FALSE
  <2>1. i < j + m
    BY <1>1
  <2> QED BY <1>1, <1>2, <1>5, <2>1 DEF Ordered
<1> QED BY <1>3, <1>4, <1>5

\* Steps put before the rest.
LEMMA FrontReady ==
  ASSUME NEW front \in Seq(Step), NEW rest \in Seq(Step), NEW added, NEW depth,
         Ordered(front), Followed(front, added, depth),
         Ordered(rest), Followed(rest, added, depth),
         \/ \A i \in DOMAIN front : front[i].op \in Quick
         \/ /\ \A i \in DOMAIN front : front[i].op # "insert"
            /\ \A i \in DOMAIN rest : rest[i].op # "insert",
         Announced(front \o rest, added)
  PROVE  Ready(front \o rest, added, depth)
<1> DEFINE q == front \o rest
           m == Len(front)
<1>1. /\ \A i \in DOMAIN front : i \in DOMAIN q /\ q[i] = front[i] /\ i <= m
      /\ \A i \in DOMAIN rest : i + m \in DOMAIN q /\ q[i + m] = rest[i]
      /\ \A i \in DOMAIN q :
           i \in DOMAIN front \/ (i - m \in DOMAIN rest /\ i = (i - m) + m /\ i > m)
      /\ DOMAIN front \subseteq Nat /\ DOMAIN rest \subseteq Nat \ {0} /\ m \in Nat
  BY SMTT(30), BothParts
<1> HIDE DEF q, m
<1>2. Ordered(q)
  <2> SUFFICES ASSUME NEW i \in DOMAIN q, NEW j \in DOMAIN q, q[j].op = "insert"
               PROVE  /\ i < j => q[i].op \in Quick
                      /\ q[i].op = "unpin" => q[i].item = q[j].item
    BY DEF Ordered
  <2>1. "insert" \notin Quick /\ "unpin" \notin Quick
    BY DEF Quick
  <2>2. j \notin DOMAIN front
    BY <1>1, <2>1
  <2>3. j - m \in DOMAIN rest /\ q[j] = rest[j - m] /\ j = (j - m) + m
    BY <1>1, <2>2
  <2>4. \A k \in DOMAIN front : front[k].op \in Quick
    BY <2>3
  <2>5. CASE i \in DOMAIN front
    BY <1>1, <2>1, <2>4, <2>5
  <2>6. CASE i \notin DOMAIN front
    <3>1. i - m \in DOMAIN rest /\ q[i] = rest[i - m] /\ i = (i - m) + m
      BY <1>1, <2>6
    <3>2. i < j => i - m < j - m
      BY <1>1, <2>3, <3>1
    <3>3. /\ i - m < j - m => rest[i - m].op \in Quick
          /\ rest[i - m].op = "unpin" => rest[i - m].item = rest[j - m].item
      BY <2>3, <3>1 DEF Ordered
    <3> QED BY <2>3, <3>1, <3>2, <3>3
  <2> QED BY <2>5, <2>6
<1>3. Followed(q, added, depth)
  <2> SUFFICES ASSUME NEW i \in DOMAIN q, q[i].op \in {"link", "resize", "setSize"}
               PROVE  /\ i + 1 \in DOMAIN q /\ q[i + 1].op = "unpin"
                      /\ q[i + 1].item = q[i].item
                      /\ q[i].item \in added
                      /\ q[i].op = "link" => depth # 0
    BY DEF Followed
  <2>1. CASE i \in DOMAIN front
    BY <1>1, <2>1 DEF Followed
  <2>2. CASE i \notin DOMAIN front
    <3>1. i - m \in DOMAIN rest /\ q[i] = rest[i - m] /\ i = (i - m) + m
      BY <1>1, <2>2
    <3>2. /\ (i - m) + 1 \in DOMAIN rest /\ rest[(i - m) + 1].op = "unpin"
          /\ rest[(i - m) + 1].item = q[i].item
          /\ q[i].item \in added
          /\ q[i].op = "link" => depth # 0
      BY <3>1 DEF Followed
    <3>3. i + 1 = ((i - m) + 1) + m
      BY <1>1, <3>1
    <3>4. i + 1 \in DOMAIN q /\ q[i + 1] = rest[(i - m) + 1]
      BY <1>1, <3>2, <3>3
    <3> QED BY <3>2, <3>4
  <2> QED BY <2>1, <2>2
<1> QED BY <1>2, <1>3 DEF Ready, q

\* Nothing is lost when there are more items, and a frame.
LEMMA ReadyGrows ==
  ASSUME NEW s, NEW added, NEW more, added \subseteq more, NEW depth, NEW deeper,
         depth # 0 => deeper # 0, Ready(s, added, depth)
  PROVE  Ready(s, more, deeper)
BY DEF Ready, Followed, Announced

\* A list without an operation does not count it.
LEMMA CountsNone ==
  ASSUME NEW s \in Seq(Step), NEW op, NEW x, \A i \in DOMAIN s : s[i].op # op
  PROVE  Total(Is(op, x), s) = 0
<1>1. \A i \in DOMAIN s : s[i] \in Step
  BY LenProperties, ElementOfSeq
<1>2. \A i \in DOMAIN s : Is(op, x)[s[i]] = 0
  BY <1>1 DEF Is
<1>3. \A a \in Step : Is(op, x)[a] \in Int
  BY IsType
<1> QED BY <1>2, <1>3, TotalZeros

\* Nor does it owe anything, without the operations that do.
LEMMA OwesNone ==
  ASSUME Types, NEW f \in Field, NEW s \in Seq(Step),
         \A i \in DOMAIN s : s[i].op \notin {"note", "store", "destroy", "notify"}
  PROVE  Total(Owes(f), s) = 0
<1> DEFINE W == Owes(f)
<1>1. \A i \in DOMAIN s : s[i] \in Step
  BY LenProperties, ElementOfSeq
<1>2. \A i \in DOMAIN s : W[s[i]] = 0
  BY <1>1 DEF Owes
<1>3. \A a \in Step : W[a] \in Int
  BY OwesType
<1> HIDE DEF W
<1>4. Total(W, s) = 0
  BY <1>2, <1>3, TotalZeros
<1> QED BY <1>4 DEF W

\* The locks on items to be inserted are returned whatever replaces the head of the list.
LEMMA AnnouncedStill ==
  ASSUME NEW cur \in Seq(Step), NEW front \in Seq(Step), NEW rest \in Seq(Step),
         NEW added, Announced(cur \o rest, added),
         \A x \in Item \ added : Total(Is("unpin", x), cur) = Total(Is("insert", x), cur),
         \A x \in Item \ added : Total(Is("unpin", x), front) = Total(Is("insert", x), front)
  PROVE  Announced(front \o rest, added)
<1> SUFFICES ASSUME NEW x \in Item \ added
             PROVE  Total(Is("unpin", x), front \o rest) = Total(Is("insert", x), front \o rest)
  BY DEF Announced
<1> DEFINE U == Is("unpin", x)
           V == Is("insert", x)
<1>1. \A a \in Step : U[a] \in Int
  BY IsType
<1>2. \A a \in Step : V[a] \in Int
  BY IsType
<1>3. Total(U, front) = Total(V, front) /\ Total(U, cur) = Total(V, cur)
  OBVIOUS
<1>4. Total(U, cur \o rest) = Total(V, cur \o rest)
  BY DEF Announced
<1> HIDE DEF U, V
<1>5. /\ Total(U, front \o rest) = Total(U, front) + Total(U, rest)
      /\ Total(U, cur \o rest) = Total(U, cur) + Total(U, rest)
  BY <1>1, TotalConcat
<1>6. /\ Total(V, front \o rest) = Total(V, front) + Total(V, rest)
      /\ Total(V, cur \o rest) = Total(V, cur) + Total(V, rest)
  BY <1>2, TotalConcat
<1>7. Total(U, rest) \in Int /\ Total(U, cur) \in Int
  BY <1>1, TotalOf
<1>8. Total(V, rest) \in Int /\ Total(V, cur) \in Int
  BY <1>2, TotalOf
<1>9. Total(U, front \o rest) = Total(V, front \o rest)
  <2>1. Total(U, cur) + Total(U, rest) = Total(U, cur) + Total(V, rest)
    BY <1>3, <1>4, <1>5, <1>6
  <2>2. Total(U, rest) = Total(V, rest)
    BY <1>7, <1>8, <2>1
  <2> QED BY <1>3, <1>5, <1>6, <2>2
<1> QED BY <1>9 DEF U, V

\* Steps that no other step goes with, in front of the rest, keep it good.
LEMMA PlainReady ==
  ASSUME NEW cur \in Seq(Step), NEW front \in Seq(Step), NEW rest \in Seq(Step),
         NEW added, NEW depth, Ready(cur \o rest, added, depth),
         \A i \in DOMAIN front : front[i].op \notin {"insert", "unpin", "link", "resize", "setSize"},
         \/ \A i \in DOMAIN front : front[i].op \in Quick
         \/ \A i \in DOMAIN rest : rest[i].op # "insert",
         \A x \in Item \ added : Total(Is("unpin", x), cur) = Total(Is("insert", x), cur)
  PROVE  Ready(front \o rest, added, depth)
<1>1. Ordered(front) /\ Followed(front, added, depth)
  BY DEF Ordered, Followed
<1>2. Ordered(rest) /\ Followed(rest, added, depth)
  BY RestReady
<1>3. Announced(front \o rest, added)
  <2>1. \A i \in DOMAIN front : front[i].op # "unpin"
    OBVIOUS
  <2>2. \A i \in DOMAIN front : front[i].op # "insert"
    OBVIOUS
  <2>3. \A x : Total(Is("unpin", x), front) = 0
    BY <2>1, CountsNone
  <2>4. \A x : Total(Is("insert", x), front) = 0
    BY <2>2, CountsNone
  <2>5. Announced(cur \o rest, added)
    BY DEF Ready
  <2>6. \A x \in Item \ added : Total(Is("unpin", x), front) = Total(Is("insert", x), front)
    BY <2>3, <2>4
  <2> QED BY <2>5, <2>6, AnnouncedStill
<1> QED BY <1>1, <1>2, <1>3, FrontReady

\* What is replaced at the head of a thread's list.
Replaces(t, cur, front, rest) ==
  /\ cur \in Seq(Step) /\ front \in Seq(Step) /\ rest \in Seq(Step)
  /\ todo[t] = cur \o rest
  /\ todo' = [todo EXCEPT ![t] = front \o rest]

\* A list changes the sum by what it gains at its head.
LEMMA OwingReplaced ==
  ASSUME todo \in [Thread -> Seq(Step)], NEW t \in Thread, NEW cur, NEW front, NEW rest,
         Replaces(t, cur, front, rest), NEW W, \A s \in Step : W[s] \in Int
  PROVE  /\ SumFunctionOnSet([u \in Thread |-> Total(W, todo'[u])], Thread)
              = Owing(W) + (Total(W, front) - Total(W, cur))
         /\ Owing(W) \in Int /\ Total(W, front) \in Int /\ Total(W, cur) \in Int
<1> DEFINE f == [u \in Thread |-> Total(W, todo[u])]
           g == [u \in Thread |-> Total(W, todo'[u])]
<1>1. /\ cur \in Seq(Step) /\ front \in Seq(Step) /\ rest \in Seq(Step)
      /\ todo[t] = cur \o rest
      /\ todo'[t] = front \o rest
      /\ \A u \in Thread : u # t => todo'[u] = todo[u]
  BY DEF Replaces
<1>2. /\ Total(W, front \o rest) = Total(W, front) + Total(W, rest)
      /\ Total(W, cur \o rest) = Total(W, cur) + Total(W, rest)
  BY <1>1, TotalConcat
<1>3. Total(W, front) \in Int /\ Total(W, cur) \in Int /\ Total(W, rest) \in Int
  BY <1>1, TotalOf
<1>4. \A u \in Thread : f[u] \in Int
  <2>1. \A u \in Thread : todo[u] \in Seq(Step)
    OBVIOUS
  <2>2. \A u \in Thread : Total(W, todo[u]) \in Int
    BY <2>1, TotalOf
  <2> QED BY <2>2
<1>5. f[t] = Total(W, cur) + Total(W, rest) /\ g[t] = Total(W, front) + Total(W, rest)
  BY <1>1, <1>2
<1>6. \A u \in Thread : u # t => g[u] = f[u]
  BY <1>1
<1> HIDE DEF f, g
<1>7. SumFunctionOnSet(g, Thread) = SumFunctionOnSet(f, Thread) + (g[t] - f[t])
  <2>1. g[t] \in Int
    BY <1>3, <1>5
  <2>2. IsFiniteSet(Thread)
    BY Constants
  <2> QED BY <1>4, <1>6, <2>1, <2>2, SumChange
<1>8. SumFunctionOnSet(f, Thread) \in Int
  BY <1>4, Constants, SumInt
<1>9. SumFunctionOnSet(g, Thread) = SumFunctionOnSet(f, Thread) + (Total(W, front) - Total(W, cur))
  BY <1>3, <1>5, <1>7, <1>8
<1> QED BY <1>3, <1>8, <1>9 DEF Owing, f, g

\* A sum of numbers is no less than any of them.
LEMMA OwingNat ==
  ASSUME todo \in [Thread -> Seq(Step)], NEW W, \A s \in Step : W[s] \in Nat
  PROVE  /\ Owing(W) \in Nat
         /\ \A t \in Thread : /\ Total(W, todo[t]) \in Nat /\ Total(W, todo[t]) <= Owing(W)
                              /\ \A i \in DOMAIN todo[t] : W[todo[t][i]] <= Total(W, todo[t])
<1> DEFINE f == [u \in Thread |-> Total(W, todo[u])]
<1>1. \A t \in Thread : todo[t] \in Seq(Step)
  OBVIOUS
<1>2. \A t \in Thread : /\ Total(W, todo[t]) \in Nat
                        /\ \A i \in DOMAIN todo[t] : W[todo[t][i]] <= Total(W, todo[t])
  BY <1>1, TotalNat
<1>3. \A t \in Thread : f[t] \in Nat /\ f[t] = Total(W, todo[t])
  BY <1>2
<1>4. Owing(W) = SumFunctionOnSet(f, Thread)
  BY DEF Owing
<1> HIDE DEF f
<1>5. SumFunctionOnSet(f, Thread) \in Nat
      /\ \A t \in Thread : f[t] <= SumFunctionOnSet(f, Thread)
  BY <1>3, Constants, SumNat
<1> QED BY <1>2, <1>3, <1>4, <1>5

\* When a sum is 0 nobody has such a step to do.
LEMMA OwingNone ==
  ASSUME todo \in [Thread -> Seq(Step)], NEW op, NEW x, Owing(Is(op, x)) = 0,
         NEW t \in Thread, NEW i \in DOMAIN todo[t]
  PROVE  ~(todo[t][i].op = op /\ todo[t][i].item = x)
<1> DEFINE W == Is(op, x)
<1>1. \A s \in Step : W[s] \in Nat
  BY IsType
<1>2. todo[t][i] \in Step
  <2>1. todo[t] \in Seq(Step)
    OBVIOUS
  <2> QED BY <2>1, LenProperties, ElementOfSeq
<1> HIDE DEF W
<1>3. /\ Total(W, todo[t]) \in Nat /\ Total(W, todo[t]) <= Owing(W)
      /\ W[todo[t][i]] <= Total(W, todo[t]) /\ W[todo[t][i]] \in Nat
  BY <1>1, <1>2, OwingNat
<1>4. Owing(W) = 0
  BY DEF W
<1>5. W[todo[t][i]] = 0
  BY <1>3, <1>4
<1> QED BY <1>2, <1>5 DEF W, Is

-----------------------------------------------------------------------------
(* The life of an item *)

\* What an item that is cached, and what one that is to be destroyed, is not as well.
LEMMA LifeParts ==
  ASSUME Types, NEW x \in Item, Life(x)
  PROVE  /\ Owing(Is("destroy", x)) \in Nat /\ Owing(Is("insert", x)) \in Nat
         /\ discards[x] \in Nat /\ discards[x] <= 1
         /\ x \in Cached => x \in Added /\ Owing(Is("destroy", x)) = 0 /\ discards[x] = 0
         /\ Owing(Is("destroy", x)) # 0 => x \in Added /\ x \notin Cached /\ discards[x] = 0
         /\ Owing(Is("destroy", x)) <= 1
         /\ x \in Added => Owing(Is("insert", x)) = 0
         /\ x \in Added /\ x \notin Cached /\ Owing(Is("destroy", x)) = 0 => discards[x] = 1
<1>1. Owing(Is("destroy", x)) \in Nat
  <2>1. \A s \in Step : Is("destroy", x)[s] \in Nat
    BY IsType
  <2> QED BY <2>1, OwingNat DEF Types
<1>2. Owing(Is("insert", x)) \in Nat
  <2>1. \A s \in Step : Is("insert", x)[s] \in Nat
    BY IsType
  <2> QED BY <2>1, OwingNat DEF Types
<1>3. discards[x] \in Nat
  BY DEF Types
<1> DEFINE c == IF x \in Cached THEN 1 ELSE 0
           d == Owing(Is("destroy", x))
           e == discards[x]
           i == Owing(Is("insert", x))
           a == Once(x)
<1>4. c + d + e = a /\ i + a <= 1
  BY DEF Life, Left
<1>5. /\ c \in {0, 1} /\ a \in {0, 1}
      /\ x \in Cached <=> c = 1
      /\ x \in Added <=> a = 1
  BY DEF Once
<1>6. d \in Nat /\ i \in Nat /\ e \in Nat
  BY <1>1, <1>2, <1>3
<1> HIDE DEF c, d, e, i, a
<1>7. /\ e <= 1 /\ d <= 1
      /\ c = 1 => a = 1 /\ d = 0 /\ e = 0
      /\ d # 0 => a = 1 /\ c # 1 /\ e = 0
      /\ a = 1 => i = 0
      /\ a = 1 /\ c # 1 /\ d = 0 => e = 1
  BY <1>4, <1>5, <1>6
<1> QED BY <1>5, <1>6, <1>7 DEF d, e, i

\* A step that moves an item within its life.
LEMMA LifeKept ==
  ASSUME Types, NEW t \in Thread, NEW cur, NEW front, NEW rest, Replaces(t, cur, front, rest),
         NEW x \in Item, Life(x), discards'[x] \in Nat, (x \in Added)' <=> x \in Added,
         (IF (x \in Cached)' THEN 1 ELSE 0) + Total(Is("destroy", x), front) + discards'[x]
           = (IF x \in Cached THEN 1 ELSE 0) + Total(Is("destroy", x), cur) + discards[x],
         Total(Is("insert", x), front) = Total(Is("insert", x), cur)
  PROVE  Life(x)'
<1> DEFINE D == Is("destroy", x)
           I == Is("insert", x)
<1>1. \A s \in Step : D[s] \in Int
  BY IsType
<1>2. \A s \in Step : I[s] \in Int
  BY IsType
<1> HIDE DEF D, I
<1>3. /\ Owing(D)' = Owing(D) + (Total(D, front) - Total(D, cur))
      /\ Owing(D) \in Int /\ Total(D, front) \in Int /\ Total(D, cur) \in Int
  BY <1>1, OwingReplaced DEF Types, Owing
<1>4. /\ Owing(I)' = Owing(I) + (Total(I, front) - Total(I, cur))
      /\ Owing(I) \in Int /\ Total(I, front) \in Int /\ Total(I, cur) \in Int
  BY <1>2, OwingReplaced DEF Types, Owing
<1> DEFINE c == IF x \in Cached THEN 1 ELSE 0
           c1 == IF (x \in Cached)' THEN 1 ELSE 0
<1>5. c \in Int /\ c1 \in Int /\ discards[x] \in Int /\ discards'[x] \in Int
  BY DEF Types
<1>6. c1 + Total(D, front) + discards'[x] = c + Total(D, cur) + discards[x]
  BY DEF D
<1>7. c + Owing(D) + discards[x] = Once(x) /\ Owing(I) + Once(x) <= 1
  BY DEF D, I, Life, Left
<1>8. Total(I, front) = Total(I, cur)
  BY DEF I
<1>9. Once(x)' = Once(x)
  BY DEF Once
<1> HIDE DEF c, c1
<1>10. c1 + Owing(D)' + discards'[x] = c + Owing(D) + discards[x]
  BY <1>3, <1>5, <1>6
<1>11. Owing(I)' = Owing(I)
  BY <1>4, <1>8
<1>12. c1 + Owing(D)' + discards'[x] = Once(x)' /\ Owing(I)' + Once(x)' <= 1
  BY <1>7, <1>9, <1>10, <1>11
<1> QED BY <1>12 DEF D, I, c1, Life, Left

-----------------------------------------------------------------------------
(* Counters that wrap *)

\* Division with a remainder.
LEMMA Divided ==
  ASSUME NEW n \in Int
  PROVE  /\ n \div WordMod \in Int /\ n % WordMod \in 0 .. WordMod - 1
         /\ n = WordMod * (n \div WordMod) + (n % WordMod)
BY Constants

\* Numbers apart by a multiple have the same remainder.
LEMMA Remainders ==
  ASSUME NEW n \in Int, NEW k \in Int
  PROVE  (n + WordMod * k) % WordMod = n % WordMod
<1> DEFINE m == n + WordMod * k
           q == n \div WordMod
           r == n % WordMod
           p == m \div WordMod
           s == m % WordMod
           W == WordMod
<1>1. W \in Nat /\ W > 0
  BY Constants
<1>2. m \in Int
  BY <1>1
<1>3. q \in Int /\ r \in 0 .. W - 1 /\ n = W * q + r
  BY Divided
<1>4. p \in Int /\ s \in 0 .. W - 1 /\ m = W * p + s
  BY <1>2, Divided
<1>5. m = n + W * k
  OBVIOUS
<1> HIDE DEF m, q, r, p, s, W
<1>6. PICK d \in Int : d = q + k - p
  BY <1>3, <1>4
<1>7. W * d = s - r
  BY <1>1, <1>3, <1>4, <1>5, <1>6
<1>8. d = 0
  <2>1. CASE d >= 1
    <3>1. W * d >= W
      BY <1>1, <2>1
    <3> QED BY <1>1, <1>3, <1>4, <1>7, <3>1
  <2>2. CASE d <= -1
    <3>1. W * d <= -W
      BY <1>1, <2>2
    <3> QED BY <1>1, <1>3, <1>4, <1>7, <3>1
  <2> QED BY <1>6, <2>1, <2>2
<1>9. s = r
  BY <1>1, <1>3, <1>4, <1>7, <1>8
<1> QED BY <1>9 DEF m, r, s, W

\* The remainders of sums.
LEMMA RemainderSum ==
  ASSUME NEW n \in Int, NEW m \in Int
  PROVE  ((n % WordMod) + m) % WordMod = (n + m) % WordMod
<1> DEFINE q == n \div WordMod
<1>1. q \in Int /\ n % WordMod \in Int /\ n = WordMod * q + (n % WordMod)
  BY Divided
<1>2. PICK a \in Int : a = (n % WordMod) + m
  BY <1>1
<1> HIDE DEF q
<1>3. n + m = a + WordMod * q
  BY <1>1, <1>2, Constants
<1>4. (a + WordMod * q) % WordMod = a % WordMod
  BY <1>1, Remainders
<1> QED BY <1>2, <1>3, <1>4

\* Equal remainders stay equal when the same is added.
LEMMA SameRemainder ==
  ASSUME NEW n \in Int, NEW m \in Int, n % WordMod = m % WordMod, NEW k \in Int
  PROVE  (n + k) % WordMod = (m + k) % WordMod
<1>1. (n + k) % WordMod = ((n % WordMod) + k) % WordMod
  BY RemainderSum
<1>2. (m + k) % WordMod = ((m % WordMod) + k) % WordMod
  BY RemainderSum
<1> QED BY <1>1, <1>2

-----------------------------------------------------------------------------
(* What is noted *)

\* What is cached is a finite set of items, of some value.
LEMMA CachedItems ==
  ASSUME Types
  PROVE  /\ ToSet(lru) \subseteq Item /\ Locked \subseteq Item /\ Cached \subseteq Item
         /\ IsFiniteSet(Cached)
         /\ \A f \in Field : SumFunctionOnSet(Value(f), Cached) \in Int
<1>1. ToSet(lru) \subseteq Item
  <2>1. lru \in Seq(Item)
    BY DEF Types
  <2> QED BY <2>1, LenProperties, ElementOfSeq DEF ToSet
<1>2. Locked \subseteq Item /\ Cached \subseteq Item
  BY <1>1 DEF Locked, Cached
<1>3. IsFiniteSet(Cached)
  BY <1>2, Constants, FS_Subset
<1>4. ASSUME NEW f \in Field PROVE SumFunctionOnSet(Value(f), Cached) \in Int
  <2>1. Value(f) \in [Item -> Nat]
    BY OwesType
  <2>2. \A x \in Cached : Value(f)[x] \in Int
    BY <1>2, <2>1
  <2> QED BY <1>3, <2>2, SumInt
<1> QED BY <1>1, <1>2, <1>3, <1>4

\* A step after which the status and what is owed have changed like what is cached.
LEMMA NotedKept ==
  ASSUME Types, Types', NEW t \in Thread, NEW cur, NEW front, NEW rest,
         Replaces(t, cur, front, rest), Noted, ~crashed, size' = size, crossed' = crossed,
         \A f \in Field : \E k \in Int :
           /\ all'[f] % WordMod = (all[f] + k) % WordMod
           /\ k + (Total(Owes(f), front) - Total(Owes(f), cur))
                = SumFunctionOnSet(Value(f), Cached') - SumFunctionOnSet(Value(f), Cached)
  PROVE  Noted'
<1>0. Sure' = Sure /\ Sure \subseteq Field
  BY DEF Sure, Field
<1> SUFFICES ASSUME NEW f \in Sure
             PROVE  ((all[f] + Owing(Owes(f))) % WordMod
                       = SumFunctionOnSet(Value(f), Cached) % WordMod)'
  BY <1>0 DEF Noted
<1> f \in Field
  BY <1>0
<1>1. Value(f)' = Value(f) /\ Owes(f)' = Owes(f)
  BY DEF Value, Owes
<1>2. PICK V : V = Owes(f)
  OBVIOUS
<1>3. PICK L : L = Value(f)
  OBVIOUS
<1>4. \A s \in Step : V[s] \in Int
  BY <1>2, OwesType
<1>5. PICK k \in Int :
        /\ all'[f] % WordMod = (all[f] + k) % WordMod
        /\ k + (Total(Owes(f), front) - Total(Owes(f), cur))
             = SumFunctionOnSet(Value(f), Cached') - SumFunctionOnSet(Value(f), Cached)
  OBVIOUS
<1> DEFINE a == all[f]
           a1 == all'[f]
           o == Owing(V)
           o1 == Owing(V)'
           c == SumFunctionOnSet(L, Cached)
           c1 == SumFunctionOnSet(L, Cached')
<1>6. a \in Int /\ a1 \in Int
  BY DEF Types, Status
<1>7. /\ o1 = o + (Total(V, front) - Total(V, cur))
      /\ o \in Int /\ Total(V, front) \in Int /\ Total(V, cur) \in Int
  BY <1>4, OwingReplaced DEF Types, Owing
<1>8. c \in Int /\ c1 \in Int
  <2>1. c \in Int
    BY <1>3, CachedItems
  <2>2. Cached' \subseteq Item
    <3>1. \A i \in DOMAIN lru' : lru'[i] \in Item
      BY LenProperties, ElementOfSeq DEF Types
    <3> QED BY <3>1 DEF Cached, Locked, ToSet
  <2>3. Value(f) \in [Item -> Nat]
    BY OwesType
  <2>4. IsFiniteSet(Cached')
    BY <2>2, Constants, FS_Subset
  <2>5. \A x \in Cached' : L[x] \in Int
    BY <1>3, <2>2, <2>3
  <2> QED BY <2>1, <2>4, <2>5, SumInt
<1>9. (a + o) % WordMod = c % WordMod
  BY <1>2, <1>3 DEF Noted
<1>10. a1 % WordMod = (a + k) % WordMod
  BY <1>5
<1>11. k + (Total(V, front) - Total(V, cur)) = c1 - c
  BY <1>2, <1>3, <1>5
<1> HIDE DEF a, a1, o, o1, c, c1
<1>12. (a1 + o1) % WordMod = ((a + k) + o1) % WordMod
  <2>1. a + k \in Int /\ o1 \in Int
    BY <1>5, <1>6, <1>7
  <2> QED BY ZenonT(30), <1>6, <1>10, <2>1, SameRemainder
<1>13. (a + k) + o1 = (a + o) + (c1 - c)
  BY <1>5, <1>6, <1>7, <1>8, <1>11
<1>14. ((a + o) + (c1 - c)) % WordMod = (c + (c1 - c)) % WordMod
  <2>1. a + o \in Int /\ c1 - c \in Int
    BY <1>6, <1>7, <1>8
  <2> QED BY <1>8, <1>9, <2>1, SameRemainder
<1>15. c + (c1 - c) = c1
  BY <1>8
<1>16. (a1 + o1) % WordMod = c1 % WordMod
  BY <1>12, <1>13, <1>14, <1>15
<1>17. (all[f])' = a1 /\ Owing(Owes(f))' = o1 /\ SumFunctionOnSet(Value(f), Cached)' = c1
  BY <1>1, <1>2, <1>3 DEF a1, o1, c1, Owing
<1> QED BY <1>16, <1>17

-----------------------------------------------------------------------------
(* The locks on an item *)

\* A step that changes the lock count of an item like its thread's share.
LEMMA LocksKept ==
  ASSUME Types, Types', NEW t \in Thread, NEW cur, NEW front, NEW rest,
         Replaces(t, cur, front, rest), NEW x \in Item, Kept(x), (x \in Added)' <=> x \in Added,
         \A u \in Thread : u # t => holds'[u][x] = holds[u][x] /\ frame'[u] = frame[u],
         x \in Added => count'[x] - count[x] = (holds'[t][x] - holds[t][x])
                          + (Total(Is("unpin", x), front) - Total(Is("unpin", x), cur))
                          + (InFrame(t, x)' - InFrame(t, x)),
         x \notin Added => holds'[t][x] = holds[t][x] /\ InFrame(t, x)' <= InFrame(t, x)
  PROVE  Kept(x)'
<1> DEFINE U == Is("unpin", x)
           f == [u \in Thread |-> Share(u, x)]
           g == [u \in Thread |-> Share(u, x)']
<1>1. \A s \in Step : U[s] \in Int
  BY IsType
<1>2. /\ cur \in Seq(Step) /\ front \in Seq(Step) /\ rest \in Seq(Step)
      /\ todo[t] = cur \o rest
      /\ todo'[t] = front \o rest
      /\ \A u \in Thread : u # t => todo'[u] = todo[u]
  BY DEF Replaces, Types
<1>3. /\ \A u \in Thread : holds[u][x] \in Int /\ holds'[u][x] \in Int
      /\ \A u \in Thread : InFrame(u, x) \in {0, 1} /\ InFrame(u, x)' \in {0, 1}
      /\ count[x] \in Int /\ count'[x] \in Int
  BY DEF Types, InFrame
<1>4. \A u \in Thread : Total(U, todo[u]) \in Int
  <2>1. \A u \in Thread : todo[u] \in Seq(Step)
    BY DEF Types
  <2> QED BY <1>1, <2>1, TotalOf
<1>5. \A u \in Thread : f[u] = holds[u][x] + Total(U, todo[u]) + InFrame(u, x)
  BY DEF Share
<1>6. \A u \in Thread : g[u] = holds'[u][x] + Total(U, todo'[u]) + InFrame(u, x)'
  BY DEF Share
<1>7. /\ Total(U, front \o rest) = Total(U, front) + Total(U, rest)
      /\ Total(U, cur \o rest) = Total(U, cur) + Total(U, rest)
  BY <1>1, <1>2, TotalConcat
<1>8. Total(U, front) \in Int /\ Total(U, cur) \in Int /\ Total(U, rest) \in Int
  BY <1>1, <1>2, TotalOf
<1>9. \A u \in Thread : u # t => InFrame(u, x)' = InFrame(u, x)
  BY DEF InFrame
<1>10. CASE x \in Added
  <2>1. count[x] = SumFunctionOnSet(f, Thread)
    BY <1>10 DEF Kept
  <2>2. count'[x] - count[x] = (holds'[t][x] - holds[t][x]) + (Total(U, front) - Total(U, cur))
                                 + (InFrame(t, x)' - InFrame(t, x))
    BY <1>10
  <2> HIDE DEF U, f, g
  <2>3. \A u \in Thread : f[u] \in Int
    BY <1>3, <1>4, <1>5
  <2>4. /\ f[t] = holds[t][x] + (Total(U, cur) + Total(U, rest)) + InFrame(t, x)
        /\ g[t] = holds'[t][x] + (Total(U, front) + Total(U, rest)) + InFrame(t, x)'
    BY <1>2, <1>5, <1>6, <1>7
  <2>5. g[t] \in Int
    BY <1>3, <1>8, <2>4
  <2>6. \A u \in Thread : u # t => g[u] = f[u]
    BY <1>2, <1>5, <1>6, <1>9
  <2>7. IsFiniteSet(Thread)
    BY Constants
  <2>8. SumFunctionOnSet(g, Thread) = SumFunctionOnSet(f, Thread) + (g[t] - f[t])
    BY <2>3, <2>5, <2>6, <2>7, SumChange
  <2>9. g[t] - f[t] = count'[x] - count[x]
    BY <1>3, <1>8, <2>2, <2>4
  <2>10. SumFunctionOnSet(g, Thread) = count'[x]
    BY <1>3, <2>1, <2>8, <2>9
  <2> QED BY <1>10, <2>10 DEF Kept, g
<1>11. CASE x \notin Added
  <2>1. \A u \in Thread : holds[u][x] = 0 /\ x \notin ToSet(frame[u].list)
    BY <1>11 DEF Kept
  <2>2. \A u \in Thread : holds'[u][x] = 0 /\ InFrame(u, x)' # 1
    BY <1>3, <1>9, <1>11, <2>1 DEF InFrame
  <2> QED BY <1>11, <2>2 DEF Kept, InFrame
<1> QED BY <1>10, <1>11

\* A thread's locks on an item that was added are counted.
LEMMA ShareCounted ==
  ASSUME Types, NEW t \in Thread, NEW x \in Item, Kept(x)
  PROVE  /\ holds[t][x] \in Nat /\ Total(Is("unpin", x), todo[t]) \in Nat
         /\ InFrame(t, x) \in {0, 1} /\ (InFrame(t, x) = 1 <=> x \in ToSet(frame[t].list))
         /\ x \in Added => holds[t][x] + Total(Is("unpin", x), todo[t]) + InFrame(t, x) <= count[x]
<1> DEFINE U == Is("unpin", x)
           f == [u \in Thread |-> Share(u, x)]
<1>1. \A s \in Step : U[s] \in Nat
  BY IsType
<1>2. \A u \in Thread : Total(U, todo[u]) \in Nat
  <2>1. \A u \in Thread : todo[u] \in Seq(Step)
    BY DEF Types
  <2> QED BY <1>1, <2>1, TotalNat
<1>3. \A u \in Thread : /\ holds[u][x] \in Nat /\ InFrame(u, x) \in {0, 1}
                        /\ (InFrame(u, x) = 1 <=> x \in ToSet(frame[u].list))
  BY DEF Types, InFrame
<1>4. \A u \in Thread : f[u] = holds[u][x] + Total(U, todo[u]) + InFrame(u, x)
  BY DEF Share
<1>5. x \in Added => count[x] = SumFunctionOnSet(f, Thread)
  BY DEF Kept
<1> HIDE DEF U, f
<1>6. \A u \in Thread : f[u] \in Nat
  BY <1>2, <1>3, <1>4
<1>7. f[t] <= SumFunctionOnSet(f, Thread)
  BY <1>6, Constants, SumNat
<1> QED BY <1>2, <1>3, <1>4, <1>5, <1>7 DEF U

-----------------------------------------------------------------------------
(* Steps of a call *)

\* The step a thread is at is the first of its list, and replaced by others.
LEMMA HeadStep ==
  ASSUME Types, NEW t \in Thread, NEW op, At(t, op)
  PROVE  /\ ~crashed /\ Current(t) \in Step /\ Current(t).op = op
         /\ <<Current(t)>> \in Seq(Step) /\ Tail(todo[t]) \in Seq(Step)
         /\ todo[t] = <<Current(t)>> \o Tail(todo[t])
         /\ \A front \in Seq(Step) :
              Calls(t, front \o Tail(todo[t])) => Replaces(t, <<Current(t)>>, front, Tail(todo[t]))
<1>1. todo[t] \in Seq(Step) /\ todo[t] # <<>>
  BY DEF At, Types
<1>2. /\ Current(t) \in Step /\ Tail(todo[t]) \in Seq(Step)
      /\ todo[t] = <<Current(t)>> \o Tail(todo[t])
  BY <1>1, HeadApart DEF Current
<1>3. <<Current(t)>> \in Seq(Step)
  BY <1>2, ShortLists
<1> QED BY <1>2, <1>3 DEF At, Current, Calls, Replaces

\* A thread that is in no call begins one.
LEMMA StartStep ==
  ASSUME Types, NEW t \in Thread, todo[t] = <<>>, NEW front \in Seq(Step), Calls(t, front)
  PROVE  Replaces(t, <<>>, front, <<>>)
<1>1. <<>> \in Seq(Step)
  BY ShortLists
<1>2. front \o <<>> = front
  OBVIOUS
<1>3. <<>> \o <<>> = <<>>
  OBVIOUS
<1> QED BY <1>1, <1>2, <1>3 DEF Calls, Replaces

\* Steps are put before all others, or none are.
LEMMA PutBefore ==
  ASSUME Types, NEW t \in Thread
  PROVE  /\ \A front \in Seq(Step) :
              Calls(t, front \o todo[t]) => Replaces(t, <<>>, front, todo[t])
         /\ todo' = todo => Replaces(t, <<>>, <<>>, todo[t])
<1>1. todo[t] \in Seq(Step) /\ <<>> \in Seq(Step)
  BY ShortLists DEF Types
<1>2. <<>> \o todo[t] = todo[t]
  BY <1>1
<1>3. todo = [todo EXCEPT ![t] = todo[t]]
  BY DEF Types
<1> QED BY <1>1, <1>2, <1>3 DEF Calls, Replaces

\* A thread's list stays good, and those of the others.
LEMMA TodoKept ==
  ASSUME Types, Todo, NEW t \in Thread, NEW cur, NEW front, NEW rest,
         Replaces(t, cur, front, rest), Added \subseteq Added',
         \A u \in Thread : u # t => frame'[u].depth = frame[u].depth,
         Ready(front \o rest, Added', frame'[t].depth)
  PROVE  Todo'
<1> SUFFICES ASSUME NEW u \in Thread PROVE Ready(todo'[u], Added', frame'[u].depth)
  BY DEF Todo
<1>1. CASE u = t
  BY <1>1 DEF Replaces, Types
<1>2. CASE u # t
  <2>1. todo'[u] = todo[u]
    BY <1>2 DEF Replaces, Types
  <2>2. Ready(todo[u], Added, frame[u].depth)
    BY DEF Todo
  <2> QED BY <1>2, <2>1, <2>2, ReadyGrows
<1> QED BY <1>1, <1>2

\* In particular when the steps that come need no others.
LEMMA TodoPlain ==
  ASSUME Types, Todo, NEW t \in Thread, NEW cur, NEW front, NEW rest,
         Replaces(t, cur, front, rest), Added' = Added,
         \A u \in Thread : frame'[u].depth = frame[u].depth,
         \A i \in DOMAIN cur : cur[i].op \notin {"insert", "unpin"},
         \A i \in DOMAIN front : front[i].op \notin {"insert", "unpin", "link", "resize", "setSize"},
         \/ \A i \in DOMAIN front : front[i].op \in Quick
         \/ \E i \in DOMAIN cur : cur[i].op \notin Quick
         \/ rest = <<>>
  PROVE  Todo'
<1>1. cur \in Seq(Step) /\ front \in Seq(Step) /\ rest \in Seq(Step)
  BY DEF Replaces
<1>2. Ready(cur \o rest, Added, frame[t].depth)
  BY DEF Replaces, Todo
<1>3. \A x \in Item \ Added : Total(Is("unpin", x), cur) = Total(Is("insert", x), cur)
  <2>1. \A i \in DOMAIN cur : cur[i].op # "unpin"
    OBVIOUS
  <2>2. \A i \in DOMAIN cur : cur[i].op # "insert"
    OBVIOUS
  <2>3. \A x : Total(Is("unpin", x), cur) = 0
    BY <1>1, <2>1, CountsNone
  <2>4. \A x : Total(Is("insert", x), cur) = 0
    BY <1>1, <2>2, CountsNone
  <2> QED BY <2>3, <2>4
<1>4. \/ \A i \in DOMAIN front : front[i].op \in Quick
      \/ \A i \in DOMAIN rest : rest[i].op # "insert"
  BY <1>1, <1>2, RestReady
<1>5. Ready(front \o rest, Added, frame[t].depth)
  BY <1>1, <1>2, <1>3, <1>4, PlainReady
<1> QED BY <1>5, TodoKept

\* A step that leaves the cached items what they are: they live on.
LEMMA SameLife ==
  ASSUME Inv, Types', NEW t \in Thread, NEW cur, NEW front, NEW rest,
         Replaces(t, cur, front, rest), ~crashed,
         Cached' = Cached, size' = size, discards' = discards,
         \A i \in DOMAIN cur : cur[i].op \notin {"insert", "destroy"},
         \A i \in DOMAIN front : front[i].op \notin {"insert", "destroy"}
  PROVE  \A x \in Item : Life(x)'
<1>1. Types /\ \A x \in Item : Life(x)
  BY DEF Inv
<1>2. cur \in Seq(Step) /\ front \in Seq(Step)
  BY DEF Replaces
<1>3. \A x : Total(Is("insert", x), cur) = 0 /\ Total(Is("insert", x), front) = 0
  <2>1. \A i \in DOMAIN cur : cur[i].op # "insert"
    OBVIOUS
  <2>2. \A i \in DOMAIN front : front[i].op # "insert"
    OBVIOUS
  <2> QED BY <1>2, <2>1, <2>2, CountsNone
<1>4. \A x : Total(Is("destroy", x), cur) = 0 /\ Total(Is("destroy", x), front) = 0
  <2>1. \A i \in DOMAIN cur : cur[i].op # "destroy"
    OBVIOUS
  <2>2. \A i \in DOMAIN front : front[i].op # "destroy"
    OBVIOUS
  <2> QED BY <1>2, <2>1, <2>2, CountsNone
<1>5. ASSUME NEW x \in Item PROVE Life(x)'
  <2>1. discards'[x] \in Nat
    BY DEF Types
  <2>2. (x \in Added)' <=> x \in Added
    BY DEF Added
  <2>3. (IF (x \in Cached)' THEN 1 ELSE 0) = (IF x \in Cached THEN 1 ELSE 0)
    OBVIOUS
  <2>4. Life(x)
    BY <1>1
  <2>5. /\ Total(Is("destroy", x), front) = Total(Is("destroy", x), cur)
        /\ Total(Is("insert", x), front) = Total(Is("insert", x), cur)
    BY <1>3, <1>4
  <2>6. (IF (x \in Cached)' THEN 1 ELSE 0) + Total(Is("destroy", x), front) + discards'[x]
          = (IF x \in Cached THEN 1 ELSE 0) + Total(Is("destroy", x), cur) + discards[x]
    BY <2>3, <2>5
  <2> QED BY <1>1, <2>1, <2>2, <2>4, <2>5, <2>6, LifeKept
<1> QED BY <1>5

\* A step that leaves the cached items what they are, and notes nothing.
LEMMA SameCache ==
  ASSUME Inv, Types', NEW t \in Thread, NEW cur, NEW front, NEW rest,
         Replaces(t, cur, front, rest), ~crashed,
         Cached' = Cached, size' = size, discards' = discards, all' = all, crossed' = crossed,
         \A i \in DOMAIN cur : cur[i].op \notin {"insert", "destroy"},
         \A i \in DOMAIN front : front[i].op \notin {"insert", "destroy"},
         \A f \in Field : Total(Owes(f), front) = Total(Owes(f), cur)
  PROVE  (\A x \in Item : Life(x)') /\ Noted'
<1>1. Types /\ Noted /\ \A x \in Item : Life(x)
  BY DEF Inv
<1>2. cur \in Seq(Step) /\ front \in Seq(Step)
  BY DEF Replaces
<1>5. \A x \in Item : Life(x)'
  BY SameLife
<1>6. Noted'
  <2> SUFFICES ASSUME NEW f \in Field
               PROVE  \E k \in Int :
                        /\ all'[f] % WordMod = (all[f] + k) % WordMod
                        /\ k + (Total(Owes(f), front) - Total(Owes(f), cur))
                             = SumFunctionOnSet(Value(f), Cached')
                                 - SumFunctionOnSet(Value(f), Cached)
    BY <1>1, NotedKept
  <2>1. \A s \in Step : Owes(f)[s] \in Int
    BY <1>1, OwesType
  <2>2. Total(Owes(f), front) \in Int /\ Total(Owes(f), cur) \in Int
    BY <1>2, <2>1, TotalOf
  <2>3. Total(Owes(f), front) - Total(Owes(f), cur) = 0
    BY <2>2
  <2>4. SumFunctionOnSet(Value(f), Cached') - SumFunctionOnSet(Value(f), Cached) = 0
    BY <1>1, CachedItems
  <2>5. all'[f] % WordMod = (all[f] + 0) % WordMod
    BY <1>1 DEF Types, Status
  <2> QED BY <2>3, <2>4, <2>5
<1> QED BY <1>5, <1>6

\* A step that leaves the locks what they are.
LEMMA SameLocks ==
  ASSUME Inv, Types', NEW t \in Thread, NEW cur, NEW front, NEW rest,
         Replaces(t, cur, front, rest), UNCHANGED <<count, size, frame, holds>>, ~forced,
         \A i \in DOMAIN cur : cur[i].op # "unpin",
         \A i \in DOMAIN front : front[i].op # "unpin"
  PROVE  \A x \in Item : Kept(x)'
<1> SUFFICES ASSUME NEW x \in Item PROVE Kept(x)'
  OBVIOUS
<1>1. Types /\ Kept(x)
  BY DEF Inv, Safe
<1>2. Total(Is("unpin", x), front) = 0 /\ Total(Is("unpin", x), cur) = 0
  <2>1. cur \in Seq(Step) /\ front \in Seq(Step)
    BY DEF Replaces
  <2> QED BY <2>1, CountsNone
<1>3. InFrame(t, x)' = InFrame(t, x) /\ InFrame(t, x) \in {0, 1}
  BY DEF InFrame
<1>4. holds[t][x] \in Int /\ count[x] \in Int
  BY <1>1 DEF Types
<1>5. count'[x] - count[x] = (holds'[t][x] - holds[t][x])
        + (Total(Is("unpin", x), front) - Total(Is("unpin", x), cur))
        + (InFrame(t, x)' - InFrame(t, x))
  BY <1>2, <1>3, <1>4
<1>6. InFrame(t, x)' <= InFrame(t, x) /\ holds'[t][x] = holds[t][x]
  BY <1>3
<1>7. (x \in Added)' <=> x \in Added
  BY DEF Added
<1> QED BY <1>1, <1>5, <1>6, <1>7, LocksKept

\* A step that leaves the lists, the frames and the locks what they are.
LEMMA QuietStep ==
  ASSUME Inv, NEW t \in Thread, NEW cur, NEW front, NEW rest,
         Replaces(t, cur, front, rest), ~crashed,
         UNCHANGED <<lru, count, size, all, frame, discards, holds, forced, crashed, crossed>>,
         used' \in 0 .. WordMod - 1, own' \in Status, inFlush' \in BOOLEAN,
         \A i \in DOMAIN cur : cur[i].op \notin {"insert", "unpin", "destroy"},
         \A i \in DOMAIN front : front[i].op \notin {"insert", "unpin", "destroy", "link", "resize", "setSize"},
         \/ \A i \in DOMAIN front : front[i].op \in Quick
         \/ \E i \in DOMAIN cur : cur[i].op \notin Quick
         \/ rest = <<>>,
         \A f \in Field : Total(Owes(f), front) = Total(Owes(f), cur)
  PROVE  Inv'
<1>1. cur \in Seq(Step) /\ front \in Seq(Step) /\ rest \in Seq(Step)
  BY DEF Replaces
<1>2. Types'
  <2>1. front \o rest \in Seq(Step)
    BY <1>1, ConcatProperties
  <2>2. todo' \in [Thread -> Seq(Step)]
    BY <2>1 DEF Replaces, Inv, Types
  <2> QED BY <2>2 DEF Inv, Types, Status
<1>3. Cached' = Cached /\ Added' = Added /\ Locked' = Locked /\ FramesInUse' = FramesInUse
  BY DEF Cached, Locked, Added, FramesInUse
<1>4. Lists'
  BY <1>3 DEF Inv, Lists
<1>5. Todo'
  <2>1. Types /\ Todo
    BY DEF Inv
  <2>2. \A i \in DOMAIN cur : cur[i].op \notin {"insert", "unpin"}
    OBVIOUS
  <2>3. \A i \in DOMAIN front : front[i].op \notin {"insert", "unpin", "link", "resize", "setSize"}
    OBVIOUS
  <2> QED BY <1>3, <2>1, <2>2, <2>3, TodoPlain
<1>6. (\A x \in Item : Life(x)') /\ Noted'
  <2>1. \A i \in DOMAIN cur : cur[i].op \notin {"insert", "destroy"}
    OBVIOUS
  <2>2. \A i \in DOMAIN front : front[i].op \notin {"insert", "destroy"}
    OBVIOUS
  <2> QED BY <1>2, <1>3, <2>1, <2>2, SameCache
<1>7. Safe'
  <2>1. \A i \in DOMAIN cur : cur[i].op # "unpin"
    OBVIOUS
  <2>2. \A i \in DOMAIN front : front[i].op # "unpin"
    OBVIOUS
  <2> QED BY <1>2, <2>1, <2>2, SameLocks DEF Safe
<1> QED BY <1>2, <1>4, <1>5, <1>6, <1>7 DEF Inv

\* Such a step owes nothing, and neither do those that come for it.
LEMMA QuietHead ==
  ASSUME Inv, NEW t \in Thread, NEW op, At(t, op), NEW front \in Seq(Step), Continues(t, front),
         UNCHANGED <<lruVars, size, statusVars, frame, historyVars>>, inFlush' \in BOOLEAN,
         op \notin {"insert", "unpin", "destroy", "note", "store", "notify"},
         \A i \in DOMAIN front : front[i].op \notin {"insert", "unpin", "destroy", "link",
                                                     "resize", "setSize", "note", "store", "notify"},
         op \notin Quick \/ \A i \in DOMAIN front : front[i].op \in Quick
  PROVE  Inv'
<1> DEFINE s == Current(t)
           rest == Tail(todo[t])
<1>1. Types
  BY DEF Inv
<1>2. ~crashed /\ s.op = op /\ <<s>> \in Seq(Step) /\ Replaces(t, <<s>>, front, rest)
  BY <1>1, HeadStep DEF Continues
<1> HIDE DEF s, rest
<1>3. \A i \in DOMAIN <<s>> : <<s>>[i] = s
  OBVIOUS
<1>4. UNCHANGED <<lru, count, size, all, frame, discards, holds, forced, crashed, crossed>>
  BY DEF lruVars, statusVars, historyVars
<1>5. used' \in 0 .. WordMod - 1 /\ own' \in Status
  BY <1>1 DEF lruVars, statusVars, Types
<1>6. ASSUME NEW f \in Field PROVE Total(Owes(f), front) = Total(Owes(f), <<s>>)
  <2>1. \A i \in DOMAIN <<s>> : <<s>>[i].op \notin {"note", "store", "destroy", "notify"}
    BY <1>2, <1>3
  <2>2. \A i \in DOMAIN front : front[i].op \notin {"note", "store", "destroy", "notify"}
    OBVIOUS
  <2>3. Total(Owes(f), <<s>>) = 0
    BY <1>1, <1>2, <2>1, OwesNone
  <2>4. Total(Owes(f), front) = 0
    BY <1>1, <2>2, OwesNone
  <2> QED BY <2>3, <2>4
<1>7. \A i \in DOMAIN <<s>> : <<s>>[i].op \notin {"insert", "unpin", "destroy"}
  BY <1>2, <1>3
<1>8. \A i \in DOMAIN front : front[i].op \notin {"insert", "unpin", "destroy", "link", "resize", "setSize"}
  OBVIOUS
<1>9. \/ \A i \in DOMAIN front : front[i].op \in Quick
      \/ \E i \in DOMAIN <<s>> : <<s>>[i].op \notin Quick
  <2>1. 1 \in DOMAIN <<s>> /\ <<s>>[1] = s
    OBVIOUS
  <2> QED BY <1>2, <2>1
<1> QED BY <1>2, <1>4, <1>5, <1>6, <1>7, <1>8, <1>9, QuietStep

\* A call begins with such steps.
LEMMA QuietStart ==
  ASSUME Inv, NEW t \in Thread, IsIdle(t), NEW front \in Seq(Step), Calls(t, front),
         UNCHANGED <<lruVars, size, statusVars, frame, inFlush, historyVars>>,
         \A i \in DOMAIN front : front[i].op \notin {"insert", "unpin", "destroy", "link",
                                                     "resize", "setSize", "note", "store", "notify"}
  PROVE  Inv'
<1>1. Types
  BY DEF Inv
<1>2. ~crashed /\ Replaces(t, <<>>, front, <<>>)
  BY <1>1, StartStep DEF IsIdle
<1>3. \A i \in DOMAIN <<>> : FALSE
  OBVIOUS
<1>4. UNCHANGED <<lru, count, size, all, frame, discards, holds, forced, crashed, crossed>>
  BY DEF lruVars, statusVars, historyVars
<1>5. used' \in 0 .. WordMod - 1 /\ own' \in Status /\ inFlush' \in BOOLEAN
  BY <1>1 DEF lruVars, statusVars, Types
<1>6. ASSUME NEW f \in Field PROVE Total(Owes(f), front) = Total(Owes(f), <<>>)
  <2>1. \A i \in DOMAIN front : front[i].op \notin {"note", "store", "destroy", "notify"}
    OBVIOUS
  <2>2. Total(Owes(f), front) = 0
    BY <1>1, <2>1, OwesNone
  <2>3. <<>> \in Seq(Step)
    BY ShortLists
  <2>4. Total(Owes(f), <<>>) = 0
    BY <1>1, <1>3, <2>3, OwesNone
  <2> QED BY <2>2, <2>4
<1>7. \A i \in DOMAIN front : front[i].op \notin {"insert", "unpin", "destroy", "link", "resize", "setSize"}
  OBVIOUS
<1> QED BY <1>2, <1>3, <1>4, <1>5, <1>6, <1>7, QuietStep

\* Room is made in three steps.
LEMMA RoomSteps ==
  ASSUME NEW n \in Nat
  PROVE  /\ \A op \in {"limitBytes", "limitItems", "ensure", "purge", "purgeItems"} :
              Room(op, n) \in Step /\ Room(op, n).op = op
         /\ EnsureCapacity(n) \in Seq(Step)
         /\ \A i \in DOMAIN EnsureCapacity(n) :
              EnsureCapacity(n)[i].op \in {"limitBytes", "limitItems", "ensure"}
<1>1. \A op \in {"limitBytes", "limitItems", "ensure", "purge", "purgeItems"} :
        Room(op, n) \in RoomStep /\ Room(op, n).op = op
  BY DEF Room, RoomStep
<1>2. \A op \in {"limitBytes", "limitItems", "ensure", "purge", "purgeItems"} :
        Room(op, n) \in Step /\ Room(op, n).op = op
  BY <1>1, KindsAreSteps
<1>3. PICK a : a = Room("limitBytes", n)
  OBVIOUS
<1>4. PICK b : b = Room("limitItems", n)
  OBVIOUS
<1>5. PICK c : c = Room("ensure", n)
  OBVIOUS
<1>6. /\ a \in Step /\ b \in Step /\ c \in Step
      /\ a.op = "limitBytes" /\ b.op = "limitItems" /\ c.op = "ensure"
  BY <1>2, <1>3, <1>4, <1>5
<1>7. EnsureCapacity(n) = <<a, b, c>>
  BY <1>3, <1>4, <1>5 DEF EnsureCapacity
<1>8. <<a, b, c>> \in Seq(Step)
  BY <1>6
<1>9. \A i \in DOMAIN <<a, b, c>> : <<a, b, c>>[i] \in {a, b, c}
  OBVIOUS
<1>10. \A i \in DOMAIN <<a, b, c>> :
         <<a, b, c>>[i].op \in {"limitBytes", "limitItems", "ensure"}
  BY <1>6, <1>9
<1> QED BY <1>2, <1>7, <1>8, <1>10

\* An item's steps.
LEMMA ItemSteps ==
  ASSUME NEW x \in Item, NEW op \in {"lock", "pin", "link", "unpin", "destroy", "remove"}
  PROVE  /\ OnItem(op, x) \in Step /\ OnItem(op, x) \in ItemStep
         /\ OnItem(op, x).op = op /\ OnItem(op, x).item = x
         /\ <<OnItem(op, x)>> \in Seq(Step)
<1>1. OnItem(op, x) \in ItemStep /\ OnItem(op, x).op = op /\ OnItem(op, x).item = x
  BY DEF OnItem, ItemStep
<1> QED BY <1>1, KindsAreSteps, ShortLists

-----------------------------------------------------------------------------
(* Steps that change nothing but what is to do *)

\* LimitBytes.
LEMMA LimitBytesKeeps ==
  ASSUME Inv, NEW t \in Thread, LimitBytes(t)
  PROVE  Inv'
<1> DEFINE s == Current(t)
           bytes == (own.bytes + s.n) % WordMod
           front == IF bytes > MaxBytes THEN <<Room("purge", bytes - MaxBytes)>> ELSE <<>>
<1>1. Types /\ At(t, "limitBytes") /\ Continues(t, front)
      /\ UNCHANGED <<lruVars, size, statusVars, frame, inFlush, historyVars>>
  BY DEF Inv, LimitBytes
<1>2. s \in RoomStep
  BY <1>1, HeadStep, Kinds
<1>3. bytes \in Nat
  <2>1. own.bytes + s.n \in Int
    BY <1>1, <1>2 DEF Types, Status, Field, RoomStep
  <2> QED BY <2>1, Divided
<1> HIDE DEF bytes
<1>4. front \in Seq(Step) /\ \A i \in DOMAIN front : front[i].op = "purge"
  <2>1. CASE bytes > MaxBytes
    <3>1. bytes - MaxBytes \in Nat
      BY <1>3, <2>1, Constants
    <3>2. PICK r : r = Room("purge", bytes - MaxBytes)
      OBVIOUS
    <3>3. r \in Step /\ r.op = "purge"
      BY <3>1, <3>2, RoomSteps
    <3>4. front = <<r>>
      BY <2>1, <3>2
    <3>5. \A i \in DOMAIN <<r>> : <<r>>[i] = r
      OBVIOUS
    <3> QED BY <3>3, <3>4, <3>5, ShortLists
  <2>2. CASE ~(bytes > MaxBytes)
    BY <2>2, ShortLists
  <2> QED BY <2>1, <2>2
<1> HIDE DEF front
<1>5. inFlush' \in BOOLEAN
  BY <1>1 DEF Types
<1>6. /\ \A i \in DOMAIN front : front[i].op \notin {"insert", "unpin", "destroy", "link",
                                                      "resize", "setSize", "note", "store", "notify"}
      /\ \A i \in DOMAIN front : front[i].op \in Quick
  BY <1>4 DEF Quick
<1> QED BY <1>1, <1>4, <1>5, <1>6, QuietHead

\* LimitItems.
LEMMA LimitItemsKeeps ==
  ASSUME Inv, NEW t \in Thread, LimitItems(t)
  PROVE  Inv'
<1> DEFINE n == own.items - MaxItems + 1
           front == IF own.items >= MaxItems THEN <<Room("purgeItems", n)>> ELSE <<>>
<1>1. Types /\ At(t, "limitItems") /\ Continues(t, front)
      /\ UNCHANGED <<lruVars, size, statusVars, frame, inFlush, historyVars>>
  BY DEF Inv, LimitItems
<1>2. own.items \in Int
  BY <1>1 DEF Types, Status, Field
<1>3. front \in Seq(Step) /\ \A i \in DOMAIN front : front[i].op = "purgeItems"
  <2>1. CASE own.items >= MaxItems
    <3>1. n \in Nat
      BY <1>2, <2>1, Constants
    <3>2. PICK r : r = Room("purgeItems", n)
      OBVIOUS
    <3>3. r \in Step /\ r.op = "purgeItems"
      BY <3>1, <3>2, RoomSteps
    <3>4. front = <<r>>
      BY <2>1, <3>2
    <3>5. \A i \in DOMAIN <<r>> : <<r>>[i] = r
      OBVIOUS
    <3> QED BY <3>3, <3>4, <3>5, ShortLists
  <2>2. CASE ~(own.items >= MaxItems)
    BY <2>2, ShortLists
  <2> QED BY <2>1, <2>2
<1> HIDE DEF front
<1>4. inFlush' \in BOOLEAN
  BY <1>1 DEF Types
<1>5. /\ \A i \in DOMAIN front : front[i].op \notin {"insert", "unpin", "destroy", "link",
                                                      "resize", "setSize", "note", "store", "notify"}
      /\ \A i \in DOMAIN front : front[i].op \in Quick
  BY <1>3 DEF Quick
<1> QED BY <1>1, <1>3, <1>4, <1>5, QuietHead

\* A step that finds nothing to do and leaves all but the list as it is.
LEMMA NothingToDo ==
  ASSUME Inv, NEW t \in Thread, NEW op, At(t, op), Continues(t, <<>>),
         op \notin {"insert", "unpin", "destroy", "note", "store", "notify"},
         UNCHANGED <<lruVars, size, statusVars, frame, historyVars>>, inFlush' \in BOOLEAN
  PROVE  Inv'
<1>1. <<>> \in Seq(Step)
  BY ShortLists
<1>2. \A i \in DOMAIN <<>> : FALSE
  OBVIOUS
<1> QED BY <1>1, <1>2, QuietHead

\* The end of a flush of the section.
LEMMA EndFlushKeeps ==
  ASSUME Inv, NEW t \in Thread, EndFlush(t)
  PROVE  Inv'
<1>1. inFlush' \in BOOLEAN
  BY DEF EndFlush
<1> QED BY <1>1, NothingToDo DEF EndFlush

\* FrameLock and RemoveItem begin a call.
LEMMA ItemCallKeeps ==
  ASSUME Inv, NEW t \in Thread, NEW x \in Item, FrameLock(t, x) \/ RemoveItem(t, x)
  PROVE  Inv'
<1>1. PICK op \in {"pin", "remove"} : Calls(t, <<OnItem(op, x)>>)
  BY DEF FrameLock, RemoveItem
<1>2. IsIdle(t) /\ UNCHANGED <<lruVars, size, statusVars, frame, inFlush, historyVars>>
  BY DEF FrameLock, RemoveItem, Starts
<1>3. PICK s : s = OnItem(op, x)
  OBVIOUS
<1>4. s.op \in {"pin", "remove"} /\ <<s>> \in Seq(Step) /\ Calls(t, <<s>>)
  <2>1. op \in {"lock", "pin", "link", "unpin", "destroy", "remove"}
    OBVIOUS
  <2> QED BY <1>1, <1>3, <2>1, ItemSteps
<1>5. \A i \in DOMAIN <<s>> : <<s>>[i].op \notin {"insert", "unpin", "destroy", "link", "resize", "setSize",
                                                   "note", "store", "notify"}
  BY <1>4, OneElement
<1> QED BY <1>2, <1>4, <1>5, QuietStart

\* LoadStatus: what is noted is owed until it is stored.
LEMMA LoadStatusKeeps ==
  ASSUME Inv, NEW t \in Thread, LoadStatus(t)
  PROVE  Inv'
<1> DEFINE s == Current(t)
           w == [op |-> "store", delta |-> s, seen |-> own]
           rest == Tail(todo[t])
<1>1. Types /\ At(t, "note") /\ Continues(t, <<w>>)
      /\ UNCHANGED <<lruVars, size, statusVars, frame, inFlush, historyVars>>
  BY DEF Inv, LoadStatus
<1>2. s \in NoteStep /\ s \in Step /\ s.op = "note" /\ ~crashed
  BY <1>1, HeadStep, Kinds
<1>3. w \in StoreStep /\ w \in Step /\ w.op = "store" /\ w.delta = s
  <2>1. w \in StoreStep
    BY <1>1, <1>2 DEF StoreStep, Types
  <2> QED BY <2>1, KindsAreSteps
<1> HIDE DEF w, rest, s
<1>4. <<w>> \in Seq(Step) /\ <<s>> \in Seq(Step)
  BY <1>2, <1>3, ShortLists
<1>5. Replaces(t, <<s>>, <<w>>, rest)
  BY <1>1, <1>4, HeadStep DEF Continues, s, rest
<1>6. ASSUME NEW f \in Field PROVE Total(Owes(f), <<w>>) = Total(Owes(f), <<s>>)
  <2>1. Owes(f)[w] = Owes(f)[s]
    BY <1>2, <1>3 DEF Owes
  <2>2. Owes(f)[s] \in Int /\ Owes(f)[w] \in Int
    BY <1>1, <1>2, <1>3, OwesType
  <2>3. Total(Owes(f), <<w>>) = Owes(f)[w]
    BY <1>3, <2>2, TotalShort
  <2>4. Total(Owes(f), <<s>>) = Owes(f)[s]
    BY <1>2, <2>2, TotalShort
  <2> QED BY <2>1, <2>3, <2>4
<1>7. /\ UNCHANGED <<lru, count, size, all, frame, discards, holds, forced, crashed, crossed>>
      /\ used' \in 0 .. WordMod - 1 /\ own' \in Status /\ inFlush' \in BOOLEAN
  BY <1>1 DEF lruVars, statusVars, historyVars, Types
<1>8. /\ \A i \in DOMAIN <<s>> : <<s>>[i] = s
      /\ \A i \in DOMAIN <<w>> : <<w>>[i] = w
  BY OneElement
<1>9. /\ \A i \in DOMAIN <<s>> : <<s>>[i].op \notin {"insert", "unpin", "destroy"}
      /\ \A i \in DOMAIN <<w>> : <<w>>[i].op \notin {"insert", "unpin", "destroy", "link", "resize", "setSize"}
      /\ \A i \in DOMAIN <<w>> : <<w>>[i].op \in Quick
  BY <1>2, <1>3, <1>8 DEF Quick
<1> QED BY <1>2, <1>5, <1>6, <1>7, <1>9, QuietStep

\* NotifySizeChanged: the change of a size is owed until it is noted.
LEMMA NotifySizeChangedKeeps ==
  ASSUME Inv, NEW t \in Thread, NotifySizeChanged(t)
  PROVE  Inv'
<1> DEFINE s == Current(t)
           w == NoteSizeChanged(s.n)
           rest == Tail(todo[t])
<1>1. /\ Types /\ At(t, "notify") /\ Continues(t, <<w>>)
      /\ used' = (used + s.n) % WordMod
      /\ UNCHANGED <<lru, count, size, statusVars, frame, inFlush, historyVars>>
  BY DEF Inv, NotifySizeChanged
<1>2. s \in ChangeStep /\ s \in Step /\ s.op = "notify" /\ ~crashed
  BY <1>1, HeadStep, Kinds
<1>3. s.n \in Int
  BY <1>2 DEF ChangeStep
<1>4. used' \in 0 .. WordMod - 1
  <2>1. used + s.n \in Int
    BY <1>1, <1>3 DEF Types
  <2> QED BY <1>1, <2>1, Divided
<1>5. w \in NoteStep /\ w \in Step /\ w.op = "note" /\ w.bytes = s.n /\ w.items = 0
  <2>1. w \in NoteStep /\ w.op = "note" /\ w.bytes = s.n /\ w.items = 0
    BY <1>3 DEF NoteSizeChanged, Note, NoteStep
  <2> QED BY <2>1, KindsAreSteps
<1> HIDE DEF w, rest, s
<1>6. <<w>> \in Seq(Step) /\ <<s>> \in Seq(Step)
  BY <1>2, <1>5, ShortLists
<1>7. Replaces(t, <<s>>, <<w>>, rest)
  BY <1>1, <1>6, HeadStep DEF Continues, s, rest
<1>8. ASSUME NEW f \in Field PROVE Total(Owes(f), <<w>>) = Total(Owes(f), <<s>>)
  <2>1. Owes(f)[w] = Owes(f)[s]
    <3>1. CASE f = "bytes"
      BY <1>2, <1>5, <3>1 DEF Owes
    <3>2. CASE f = "items"
      BY <1>2, <1>5, <3>2 DEF Owes
    <3> QED BY <3>1, <3>2 DEF Field
  <2>2. Owes(f)[s] \in Int /\ Owes(f)[w] \in Int
    BY <1>1, <1>2, <1>5, OwesType
  <2>3. Total(Owes(f), <<w>>) = Owes(f)[w]
    BY <1>5, <2>2, TotalShort
  <2>4. Total(Owes(f), <<s>>) = Owes(f)[s]
    BY <1>2, <2>2, TotalShort
  <2> QED BY <2>1, <2>3, <2>4
<1>9. /\ UNCHANGED <<lru, count, size, all, frame, discards, holds, forced, crashed, crossed>>
      /\ own' \in Status /\ inFlush' \in BOOLEAN
  BY <1>1 DEF statusVars, historyVars, Types
<1>10. /\ \A i \in DOMAIN <<s>> : <<s>>[i] = s
       /\ \A i \in DOMAIN <<w>> : <<w>>[i] = w
  BY OneElement
<1>11. /\ \A i \in DOMAIN <<s>> : <<s>>[i].op \notin {"insert", "unpin", "destroy"}
       /\ \A i \in DOMAIN <<w>> : <<w>>[i].op \notin {"insert", "unpin", "destroy", "link", "resize", "setSize"}
       /\ \A i \in DOMAIN <<w>> : <<w>>[i].op \in Quick
  BY <1>2, <1>5, <1>10 DEF Quick
<1> QED BY <1>2, <1>4, <1>7, <1>8, <1>9, <1>11, QuietStep

\* StoreStatus pays what is owed.
LEMMA StoreStatusKeeps ==
  ASSUME Inv, NEW t \in Thread, StoreStatus(t)
  PROVE  Inv'
<1> DEFINE s == Current(t)
           rest == Tail(todo[t])
<1>1. /\ Types /\ At(t, "store") /\ Continues(t, <<>>)
      /\ own' = Plus(s.seen, s.delta) /\ all' = Plus(all, s.delta)
      /\ UNCHANGED <<lruVars, size, frame, inFlush, historyVars>>
  BY DEF Inv, StoreStatus
<1>2. s \in StoreStep /\ s \in Step /\ s.op = "store" /\ <<s>> \in Seq(Step) /\ ~crashed
  BY <1>1, HeadStep, Kinds
<1>3. /\ s.seen \in Status /\ s.delta \in NoteStep
      /\ \A f \in Field : s.delta[f] \in Int /\ Owes(f)[s] = s.delta[f]
  <2>1. s.seen \in Status /\ s.delta \in NoteStep
    BY <1>2 DEF StoreStep
  <2>2. \A f \in Field : Owes(f)[s] = s.delta[f]
    BY <1>2 DEF Owes
  <2>3. \A f \in Field : Owes(f)[s] \in Int
    BY <1>1, <1>2, OwesType
  <2> QED BY <2>1, <2>2, <2>3
<1> HIDE DEF s, rest
<1>4. Replaces(t, <<s>>, <<>>, rest)
  BY <1>1, HeadStep, ShortLists DEF Continues, s, rest
<1>5. /\ own' \in Status /\ all' \in Status
      /\ \A f \in Field : all'[f] = (all[f] + s.delta[f]) % WordMod
  <2>1. /\ DOMAIN s.seen = Field /\ DOMAIN all = Field
        /\ \A f \in Field : s.seen[f] \in Int /\ all[f] \in Int
    BY <1>1, <1>3 DEF Types, Status
  <2>2. /\ own' = [f \in Field |-> (s.seen[f] + s.delta[f]) % WordMod]
        /\ all' = [f \in Field |-> (all[f] + s.delta[f]) % WordMod]
    BY <1>1, <2>1 DEF Plus
  <2>3. \A f \in Field : s.seen[f] + s.delta[f] \in Int /\ all[f] + s.delta[f] \in Int
    BY <1>3, <2>1
  <2>4. \A f \in Field : /\ (s.seen[f] + s.delta[f]) % WordMod \in 0 .. WordMod - 1
                         /\ (all[f] + s.delta[f]) % WordMod \in 0 .. WordMod - 1
    BY <2>3, Divided
  <2> QED BY <2>2, <2>4 DEF Status
<1>6. \A i \in DOMAIN <<s>> : <<s>>[i].op = "store"
  BY <1>2, OneElement
<1>7. \A i \in DOMAIN <<>> : FALSE
  OBVIOUS
<1>8. /\ Cached' = Cached /\ Added' = Added /\ Locked' = Locked /\ FramesInUse' = FramesInUse
      /\ size' = size /\ discards' = discards /\ forced' = forced /\ crashed' = crashed
      /\ crossed' = crossed
      /\ UNCHANGED <<count, size, frame, holds>>
      /\ \A u \in Thread : frame'[u].depth = frame[u].depth
  BY <1>1 DEF Cached, Locked, Added, FramesInUse, lruVars, historyVars
<1>9. Types'
  <2>1. <<>> \o rest \in Seq(Step)
    BY <1>4, ConcatProperties DEF Replaces
  <2>2. todo' \in [Thread -> Seq(Step)]
    BY <1>1, <1>4, <2>1 DEF Replaces, Types
  <2> QED BY <1>1, <1>5, <2>2 DEF lruVars, historyVars, Types
<1>10. Lists'
  BY <1>1, <1>8 DEF Inv, Lists, lruVars
<1>11. Todo'
  <2>1. Todo /\ \A i \in DOMAIN <<s>> : <<s>>[i].op \notin {"insert", "unpin"}
    BY <1>6 DEF Inv
  <2> QED BY <1>1, <1>4, <1>7, <1>8, <2>1, TodoPlain
<1>12. \A x \in Item : Life(x)'
  <2>1. \A i \in DOMAIN <<s>> : <<s>>[i].op \notin {"insert", "destroy"}
    BY <1>6
  <2> QED BY <1>2, <1>4, <1>7, <1>8, <1>9, <2>1, SameLife
<1>13. Noted'
  <2> SUFFICES ASSUME NEW f \in Field
               PROVE  \E k \in Int :
                        /\ all'[f] % WordMod = (all[f] + k) % WordMod
                        /\ k + (Total(Owes(f), <<>>) - Total(Owes(f), <<s>>))
                             = SumFunctionOnSet(Value(f), Cached')
                                 - SumFunctionOnSet(Value(f), Cached)
    <3>1. Noted
      BY DEF Inv
    <3> QED BY <1>1, <1>2, <1>4, <1>8, <1>9, <3>1, NotedKept
  <2>1. PICK k \in Int : k = s.delta[f]
    BY <1>3
  <2>2. Total(Owes(f), <<>>) = 0 /\ Total(Owes(f), <<s>>) = k
    BY <1>2, <1>3, <2>1, TotalShort
  <2>3. SumFunctionOnSet(Value(f), Cached') - SumFunctionOnSet(Value(f), Cached) = 0
    BY <1>1, <1>8, CachedItems
  <2>4. all[f] + k \in Int /\ all'[f] = (all[f] + k) % WordMod
    BY SMTT(30), <1>1, <1>5, <2>1 DEF Types, Status
  <2>5. (((all[f] + k) % WordMod) + 0) % WordMod = (all[f] + k + 0) % WordMod
    BY <2>4, RemainderSum
  <2>6. (all[f] + k) % WordMod \in Int
    BY <2>4, Divided
  <2>7. all'[f] % WordMod = (all[f] + k) % WordMod
    BY <2>4, <2>5, <2>6
  <2>8. k + (0 - k) = 0
    OBVIOUS
  <2> QED BY <2>2, <2>3, <2>7, <2>8
<1>14. Safe'
  <2>1. ~forced => \A x \in Item : Kept(x)'
    <3>1. \A i \in DOMAIN <<s>> : <<s>>[i].op # "unpin"
      BY <1>6
    <3> QED BY <1>4, <1>7, <1>8, <1>9, <3>1, SameLocks
  <2> QED BY <1>2, <1>8, <2>1 DEF Safe
<1> QED BY <1>9, <1>10, <1>11, <1>12, <1>13, <1>14 DEF Inv

-----------------------------------------------------------------------------
(* Locks *)

\* What is cached was added.
LEMMA CachedAdded ==
  ASSUME Inv
  PROVE  Cached \subseteq Added /\ Cached \subseteq Item /\ Types
<1>1. Types /\ Cached \subseteq Item
  BY CachedItems DEF Inv
<1>2. ASSUME NEW x \in Cached PROVE x \in Added
  <2>1. Life(x)
    BY <1>1 DEF Inv
  <2> QED BY <1>1, <1>2, <2>1, LifeParts
<1> QED BY <1>1, <1>2

\* The steps of a lock neither move items nor note anything.
LEMMA LockCache ==
  ASSUME Inv, Types', NEW t \in Thread, NEW cur, NEW front, NEW rest,
         Replaces(t, cur, front, rest), ~crashed,
         Cached' = Cached, UNCHANGED <<size, discards, all, crossed>>,
         \A i \in DOMAIN cur : cur[i].op \notin {"insert", "destroy", "note", "store", "notify"},
         \A i \in DOMAIN front : front[i].op \notin {"insert", "destroy", "note", "store", "notify"}
  PROVE  (\A x \in Item : Life(x)') /\ Noted'
<1>1. Types /\ cur \in Seq(Step) /\ front \in Seq(Step)
  BY DEF Inv, Replaces
<1>2. ASSUME NEW f \in Field PROVE Total(Owes(f), front) = Total(Owes(f), cur)
  <2>1. \A i \in DOMAIN cur : cur[i].op \notin {"note", "store", "destroy", "notify"}
    OBVIOUS
  <2>2. \A i \in DOMAIN front : front[i].op \notin {"note", "store", "destroy", "notify"}
    OBVIOUS
  <2>3. Total(Owes(f), cur) = 0
    BY <1>1, <2>1, OwesNone
  <2>4. Total(Owes(f), front) = 0
    BY <1>1, <2>2, OwesNone
  <2> QED BY <2>3, <2>4
<1>3. \A i \in DOMAIN cur : cur[i].op \notin {"insert", "destroy"}
  OBVIOUS
<1>4. \A i \in DOMAIN front : front[i].op \notin {"insert", "destroy"}
  OBVIOUS
<1> QED BY <1>2, <1>3, <1>4, SameCache

\* Relocked moves an item to where its lock count says.
LEMMA RelockedItem ==
  ASSUME Inv, NEW x \in Item, NEW n \in Nat, Relocked(x, n)
  PROVE  /\ lru' \in Seq(Item) /\ count' \in [Item -> Nat]
         /\ count'[x] = n /\ \A y \in Item : y # x => count'[y] = count[y]
         /\ Distinct(lru') /\ ToSet(lru') \cap Locked' = {}
         /\ Cached' = Cached \cup {x}
<1> DEFINE others == Without(lru, {x})
           end == IF n = 0 THEN <<x>> ELSE <<>>
<1>1. /\ lru \in Seq(Item) /\ count \in [Item -> Nat]
      /\ Distinct(lru) /\ ToSet(lru) \cap Locked = {}
  BY DEF Inv, Types, Lists
<1>2. /\ others \in Seq(Item) /\ ToSet(others) = ToSet(lru) \ {x} /\ Distinct(others)
  BY <1>1, WithoutKeeps
<1>3. /\ end \in Seq(Item) /\ ToSet(end) = (IF n = 0 THEN {x} ELSE {}) /\ Distinct(end)
  <2>1. CASE n = 0
    BY <2>1, ShortLists
  <2>2. CASE n # 0
    BY <2>2, ShortLists
  <2> QED BY <2>1, <2>2
<1>4. /\ count' = [count EXCEPT ![x] = n]
      /\ lru' = others \o end
  BY DEF Relocked
<1> HIDE DEF others, end
<1>5. /\ lru' \in Seq(Item)
      /\ ToSet(lru') = ToSet(others) \cup ToSet(end)
      /\ ToSet(others) \cap ToSet(end) = {} => Distinct(lru')
  BY <1>2, <1>3, <1>4, Concatenated
<1>6. /\ count' \in [Item -> Nat] /\ count'[x] = n
      /\ \A y \in Item : y # x => count'[y] = count[y]
  BY <1>1, <1>4
<1>7. Locked' = (Locked \ {x}) \cup (IF n = 0 THEN {} ELSE {x})
  BY <1>1, <1>6 DEF Locked
<1>8. ToSet(lru') = (ToSet(lru) \ {x}) \cup (IF n = 0 THEN {x} ELSE {})
  BY <1>2, <1>3, <1>5
<1>9. ToSet(lru') \cap Locked' = {}
  BY <1>1, <1>7, <1>8
<1>10. Cached' = Cached \cup {x}
  BY <1>7, <1>8 DEF Cached
<1> QED BY <1>2, <1>3, <1>5, <1>6, <1>9, <1>10

\* What is to do stays a list of steps.
LEMMA ListTypes ==
  ASSUME Types, NEW t \in Thread, NEW cur, NEW front, NEW rest, Replaces(t, cur, front, rest)
  PROVE  todo' \in [Thread -> Seq(Step)]
<1>1. front \o rest \in Seq(Step)
  BY ConcatProperties DEF Replaces
<1> QED BY <1>1 DEF Replaces, Types

\* The frames are what they should be.
Frames ==
  /\ frame \in [Thread -> [depth : 0 .. MaxDepth, list : Seq(Item)]]
  /\ \A t \in Thread : /\ Distinct(frame[t].list)
                       /\ frame[t].depth = 0 => frame[t].list = <<>>
  /\ Cardinality(FramesInUse) <= Slots

\* The items are where their lock counts say, and the cached ones are the same.
Relisted ==
  /\ lru' \in Seq(Item) /\ count' \in [Item -> Nat]
  /\ Distinct(lru') /\ ToSet(lru') \cap Locked' = {}
  /\ Cached' = Cached

\* Steps that neither move items nor note anything.
LockSteps(s) ==
  \A i \in DOMAIN s : s[i].op \notin {"insert", "destroy", "note", "store", "notify"}

\* How the lock count of x should change when t does cur and has front to do for it.
Change(t, cur, front, x) ==
  (holds'[t][x] - holds[t][x])
    + (Total(Is("unpin", x), front) - Total(Is("unpin", x), cur))
    + (InFrame(t, x)' - InFrame(t, x))

\* Only t's locks change, and the lock counts with them.
Balanced(t, cur, front) ==
  /\ \A u \in Thread : u # t => holds'[u] = holds[u] /\ frame'[u] = frame[u]
  /\ \A x \in Item :
       /\ x \in Added => count'[x] - count[x] = Change(t, cur, front, x)
       /\ x \notin Added => holds'[t][x] = holds[t][x] /\ InFrame(t, x)' <= InFrame(t, x)

\* A step that moves items between the list and the locks, or locks between the calls, the
\* clients and the frames.
LEMMA LockStep ==
  ASSUME Inv, NEW t \in Thread, NEW cur, NEW front, NEW rest,
         Replaces(t, cur, front, rest), ~crashed, Relisted,
         UNCHANGED <<used, size, statusVars, inFlush, discards, crossed>>, Frames', Todo',
         holds' \in [Thread -> [Item -> Nat]], forced' \in BOOLEAN, crashed' \in BOOLEAN,
         LockSteps(cur), LockSteps(front),
         ~forced' => ~forced /\ ~crashed' /\ Balanced(t, cur, front)
  PROVE  Inv'
<1>1. Types
  BY DEF Inv
<1>2. Types'
  <2>1. todo' \in [Thread -> Seq(Step)]
    BY <1>1, ListTypes
  <2> QED BY <1>1, <2>1 DEF Types, Frames, Relisted, statusVars
<1>3. Lists'
  BY DEF Lists, Frames, Relisted
<1>4. (\A x \in Item : Life(x)') /\ Noted'
  <2>1. UNCHANGED <<size, discards, all>> /\ Cached' = Cached
    BY DEF statusVars, Relisted
  <2>2. /\ \A i \in DOMAIN cur : cur[i].op \notin {"insert", "destroy", "note", "store", "notify"}
        /\ \A i \in DOMAIN front :
             front[i].op \notin {"insert", "destroy", "note", "store", "notify"}
    BY DEF LockSteps
  <2> QED BY <1>2, <2>1, <2>2, LockCache
<1>5. Safe'
  <2> SUFFICES ASSUME ~forced' PROVE \A x \in Item : Kept(x)'
    BY DEF Safe
  <2> SUFFICES ASSUME NEW x \in Item PROVE Kept(x)'
    OBVIOUS
  <2>1. Kept(x)
    BY DEF Inv, Safe
  <2>2. (x \in Added)' <=> x \in Added
    BY DEF Added
  <2>3. \A u \in Thread : u # t => holds'[u][x] = holds[u][x] /\ frame'[u] = frame[u]
    BY DEF Balanced
  <2>4. /\ x \in Added => count'[x] - count[x] = Change(t, cur, front, x)
        /\ x \notin Added => holds'[t][x] = holds[t][x] /\ InFrame(t, x)' <= InFrame(t, x)
    BY DEF Balanced
  <2> QED BY <1>1, <1>2, <2>1, <2>2, <2>3, <2>4, LocksKept DEF Change
<1> QED BY <1>2, <1>3, <1>4, <1>5 DEF Inv

\* Relocking an item is such a step.
LEMMA RelockedCached ==
  ASSUME Inv, NEW x \in Cached, NEW n \in Nat, Relocked(x, n)
  PROVE  /\ Relisted /\ count'[x] = n
         /\ \A y \in Item : y # x => count'[y] = count[y]
<1>1. x \in Item /\ Cached \cup {x} = Cached
  BY CachedAdded
<1> QED BY <1>1, RelockedItem DEF Relisted

\* So is a step that relocks none.
LEMMA NotRelisted ==
  ASSUME Inv, UNCHANGED <<lru, count>>
  PROVE  Relisted
BY DEF Inv, Types, Lists, Relisted, Cached, Locked

\* A frame that stays what it is.
LEMMA SameFrames ==
  ASSUME Inv, frame' = frame
  PROVE  /\ Frames' /\ \A t \in Thread : frame'[t].depth = frame[t].depth
         /\ \A t \in Thread : \A x : InFrame(t, x)' = InFrame(t, x) /\ InFrame(t, x) \in {0, 1}
BY DEF Inv, Types, Lists, Frames, FramesInUse, InFrame

\* A step outside of a call leaves what is to do.
LEMMA NoCall ==
  ASSUME Inv, NEW t \in Thread, todo' = todo, size' = size,
         \A u \in Thread : todo[u] # <<>> => frame'[u].depth = frame[u].depth
  PROVE  /\ Replaces(t, <<>>, <<>>, todo[t]) /\ Todo'
         /\ \A x : Total(Is("unpin", x), <<>>) = 0
         /\ LockSteps(<<>>)
<1>1. Types /\ Todo
  BY DEF Inv
<1>2. \A i \in DOMAIN <<>> : FALSE
  OBVIOUS
<1>3. Todo'
  <2> SUFFICES ASSUME NEW u \in Thread PROVE Ready(todo[u], Added, frame'[u].depth)
    BY DEF Todo, Added
  <2>1. CASE todo[u] = <<>>
    <3>1. Ready(<<>>, Added, frame[u].depth)
      BY <1>1, <2>1 DEF Todo
    <3>2. Ready(<<>>, Added, frame'[u].depth)
      BY <1>2, <3>1 DEF Ready, Ordered, Followed, Announced
    <3> QED BY <2>1, <3>2
  <2>2. CASE todo[u] # <<>>
    BY <1>1, <2>2 DEF Todo
  <2> QED BY <2>1, <2>2
<1>4. \A x : Total(Is("unpin", x), <<>>) = 0
  BY <1>2, ShortLists, CountsNone
<1> QED BY <1>1, <1>2, <1>3, <1>4, PutBefore DEF LockSteps

\* LockItems.
LEMMA LockItemsKeeps ==
  ASSUME Inv, NEW t \in Thread, NEW items \in SUBSET Cached, LockItems(t, items)
  PROVE  Inv'
<1>1. /\ ~crashed /\ ~forced
      /\ count' = [x \in Item |-> IF x \in items THEN count[x] + 1 ELSE count[x]]
      /\ lru' = Without(lru, items)
      /\ holds' = [holds EXCEPT ![t] = [x \in Item |-> IF x \in items THEN @[x] + 1 ELSE @[x]]]
      /\ UNCHANGED <<used, size, statusVars, frame, inFlush, todo, discards, forced, crashed,
                     crossed>>
  BY DEF LockItems, Starts, IsIdle
<1>2. Types /\ Cached \subseteq Added /\ Cached \subseteq Item
  BY CachedAdded
<1>3. lru \in Seq(Item) /\ Distinct(lru) /\ ToSet(lru) \cap Locked = {}
  BY DEF Inv, Types, Lists
<1>4. lru' \in Seq(Item) /\ ToSet(lru') = ToSet(lru) \ items /\ Distinct(lru')
  BY <1>1, <1>3, WithoutKeeps
<1>5. /\ count' \in [Item -> Nat]
      /\ \A x \in Item : count'[x] = IF x \in items THEN count[x] + 1 ELSE count[x]
  BY <1>1, <1>2 DEF Types
<1>6. /\ holds' \in [Thread -> [Item -> Nat]]
      /\ \A u \in Thread : u # t => holds'[u] = holds[u]
      /\ \A x \in Item : holds'[t][x] = IF x \in items THEN holds[t][x] + 1 ELSE holds[t][x]
  BY <1>1, <1>2 DEF Types
<1>7. Locked' = Locked \cup items
  BY <1>2, <1>5 DEF Locked, Types
<1>8. Cached' = Cached /\ ToSet(lru') \cap Locked' = {}
  BY <1>3, <1>4, <1>7 DEF Cached
<1>9. Relisted
  BY <1>4, <1>5, <1>8 DEF Relisted
<1>10. Frames' /\ \A u \in Thread : frame'[u].depth = frame[u].depth
  BY <1>1, SameFrames
<1>11. /\ Replaces(t, <<>>, <<>>, todo[t]) /\ Todo' /\ LockSteps(<<>>)
       /\ \A x : Total(Is("unpin", x), <<>>) = 0
  BY <1>1, <1>10, NoCall
<1>12. ASSUME NEW x \in Item
       PROVE  /\ count'[x] - count[x] = Change(t, <<>>, <<>>, x)
              /\ x \notin Added => holds'[t][x] = holds[t][x] /\ InFrame(t, x)' <= InFrame(t, x)
  <2>1. Total(Is("unpin", x), <<>>) = 0
    BY <1>11
  <2>2. InFrame(t, x)' = InFrame(t, x) /\ InFrame(t, x) \in {0, 1}
    BY <1>1, SameFrames
  <2>3. holds[t][x] \in Int /\ count[x] \in Int
    BY <1>2 DEF Types
  <2>4. /\ count'[x] = IF x \in items THEN count[x] + 1 ELSE count[x]
        /\ holds'[t][x] = IF x \in items THEN holds[t][x] + 1 ELSE holds[t][x]
    BY <1>5, <1>6
  <2>5. x \notin Added => x \notin items
    BY <1>2
  <2> QED BY <2>1, <2>2, <2>3, <2>4, <2>5 DEF Change
<1>13. Balanced(t, <<>>, <<>>)
  <2>1. \A u \in Thread : u # t => holds'[u] = holds[u] /\ frame'[u] = frame[u]
    BY <1>1, <1>6
  <2> QED BY <1>12, <2>1 DEF Balanced
<1>14. forced' \in BOOLEAN /\ crashed' \in BOOLEAN
  BY <1>1, <1>2 DEF Types
<1> QED BY <1>1, <1>6, <1>9, <1>10, <1>11, <1>13, <1>14, LockStep

\* Reorder.
LEMMA ReorderKeeps ==
  ASSUME Inv, NEW t \in Thread, NEW x \in Item, Reorder(t, x)
  PROVE  Inv'
<1> DEFINE others == Without(lru, {x})
<1>1. /\ ~crashed /\ ~forced /\ x \in ToSet(lru)
      /\ lru' = Append(others, x) \/ lru' = <<x>> \o others
      /\ UNCHANGED <<count, used, size, statusVars, frame, inFlush, todo, historyVars>>
  BY DEF Reorder, Starts, IsIdle
<1>2. lru \in Seq(Item) /\ Distinct(lru) /\ ToSet(lru) \cap Locked = {} /\ Types
  BY DEF Inv, Types, Lists
<1>3. others \in Seq(Item) /\ ToSet(others) = ToSet(lru) \ {x} /\ Distinct(others)
  BY <1>2, WithoutKeeps
<1>4. PICK one : one = <<x>> /\ one \in Seq(Item) /\ ToSet(one) = {x} /\ Distinct(one)
  BY ShortLists
<1> HIDE DEF others
<1>5. lru' \in Seq(Item) /\ ToSet(lru') = ToSet(lru) /\ Distinct(lru')
  <2>1. x \notin ToSet(others) /\ ToSet(others) \cup {x} = ToSet(lru)
    BY <1>1, <1>3
  <2>2. /\ Append(others, x) \in Seq(Item) /\ ToSet(Append(others, x)) = ToSet(others) \cup {x}
        /\ Distinct(Append(others, x))
    BY <1>3, <2>1, AppendedOne
  <2>3. /\ one \o others \in Seq(Item) /\ ToSet(one \o others) = ToSet(one) \cup ToSet(others)
        /\ ToSet(one) \cap ToSet(others) = {} => Distinct(one \o others)
    BY ZenonT(30), <1>3, <1>4, Concatenated
  <2> QED BY <1>1, <1>4, <2>1, <2>2, <2>3
<1>6. /\ Locked' = Locked /\ Cached' = Cached
      /\ UNCHANGED <<used, size, statusVars, inFlush, discards, todo, count, frame, holds,
                     forced, crashed, crossed>>
  BY <1>1, <1>5 DEF Locked, Cached, historyVars
<1>7. Relisted
  BY <1>2, <1>5, <1>6 DEF Relisted, Types
<1>8. Frames' /\ \A u \in Thread : frame'[u].depth = frame[u].depth
  BY <1>6, SameFrames
<1>9. /\ Replaces(t, <<>>, <<>>, todo[t]) /\ Todo' /\ LockSteps(<<>>)
      /\ \A y : Total(Is("unpin", y), <<>>) = 0
  BY <1>6, <1>8, NoCall
<1>10. Balanced(t, <<>>, <<>>)
  <2> SUFFICES ASSUME NEW y \in Item
               PROVE  /\ count'[y] - count[y] = Change(t, <<>>, <<>>, y)
                      /\ holds'[t][y] = holds[t][y] /\ InFrame(t, y)' <= InFrame(t, y)
    BY <1>6 DEF Balanced
  <2>1. Total(Is("unpin", y), <<>>) = 0
    BY <1>9
  <2>2. InFrame(t, y)' = InFrame(t, y) /\ InFrame(t, y) \in {0, 1}
    BY <1>6, SameFrames
  <2>3. /\ holds[t][y] \in Int /\ count[y] \in Int
        /\ holds'[t][y] = holds[t][y] /\ count'[y] = count[y]
    BY <1>2, <1>6 DEF Types
  <2> QED BY <2>1, <2>2, <2>3 DEF Change
<1>11. /\ holds' \in [Thread -> [Item -> Nat]]
       /\ forced' \in BOOLEAN /\ crashed' \in BOOLEAN
  BY <1>2, <1>6 DEF Types
<1> QED BY <1>1, <1>6, <1>7, <1>8, <1>9, <1>10, <1>11, LockStep

\* BreakLock.
LEMMA BreakLockKeeps ==
  ASSUME Inv, NEW t \in Thread, NEW x \in Item, BreakLock(t, x)
  PROVE  Inv'
<1>1. /\ ~crashed /\ x \in Locked /\ Relocked(x, 0) /\ forced' = TRUE
      /\ UNCHANGED <<used, size, statusVars, frame, inFlush, todo, discards, holds, crashed,
                     crossed>>
  BY DEF BreakLock, Starts, IsIdle
<1>2. Relisted
  BY <1>1, RelockedCached DEF Cached
<1>3. Frames' /\ \A u \in Thread : frame'[u].depth = frame[u].depth
  BY <1>1, SameFrames
<1>4. Replaces(t, <<>>, <<>>, todo[t]) /\ Todo' /\ LockSteps(<<>>)
  BY <1>1, <1>3, NoCall
<1>5. holds' \in [Thread -> [Item -> Nat]] /\ crashed' \in BOOLEAN
  BY <1>1 DEF Inv, Types
<1> QED BY <1>1, <1>2, <1>3, <1>4, <1>5, LockStep

\* BeginFrameLocking.
LEMMA BeginFrameLockingKeeps ==
  ASSUME Inv, NEW t \in Thread, BeginFrameLocking(t)
  PROVE  Inv'
<1>1. /\ ~crashed /\ ~forced /\ todo[t] = <<>> /\ frame[t].depth < MaxDepth
      /\ frame[t] = NoFrame => Cardinality(FramesInUse) < Slots
      /\ frame' = [frame EXCEPT ![t].depth = @ + 1]
      /\ UNCHANGED <<lru, count, used, size, statusVars, inFlush, todo, discards, holds, forced,
                     crashed, crossed>>
  BY DEF BeginFrameLocking, Starts, IsIdle, lruVars, historyVars
<1>2. Types
  BY DEF Inv
<1>3. /\ frame[t].depth \in 0 .. MaxDepth /\ frame[t].list \in Seq(Item)
      /\ frame'[t] = [depth |-> frame[t].depth + 1, list |-> frame[t].list]
      /\ \A u \in Thread : u # t => frame'[u] = frame[u]
  BY <1>1, <1>2 DEF Types
<1>4. frame' \in [Thread -> [depth : 0 .. MaxDepth, list : Seq(Item)]]
  <2>1. frame[t].depth + 1 \in 0 .. MaxDepth
    BY <1>1, <1>3, Constants
  <2> QED BY <1>1, <1>2, <1>3, <2>1 DEF Types
<1>5. /\ frame'[t].depth = frame[t].depth + 1 /\ frame'[t].list = frame[t].list
      /\ frame'[t].depth # 0
  BY <1>3
<1>6. FramesInUse' = FramesInUse \cup {t} /\ t \in FramesInUse'
  <2>1. frame'[t] # NoFrame
    BY <1>5 DEF NoFrame
  <2> QED BY <1>3, <2>1 DEF FramesInUse
<1>7. Cardinality(FramesInUse') <= Slots
  <2>1. IsFiniteSet(FramesInUse) /\ Cardinality(FramesInUse) \in Nat
    BY Constants, FS_Subset, FS_CardinalityType DEF FramesInUse
  <2>2. CASE t \in FramesInUse
    BY <1>6, <2>2 DEF Inv, Lists
  <2>3. CASE t \notin FramesInUse
    <3>1. Cardinality(FramesInUse) < Slots
      BY <1>1, <2>3 DEF FramesInUse
    <3>2. Cardinality(FramesInUse') = Cardinality(FramesInUse) + 1
      BY <1>6, <2>1, <2>3, FS_AddElement
    <3> QED BY <2>1, <3>1, <3>2, Constants
  <2> QED BY <2>2, <2>3
<1>8. Frames'
  <2>1. ASSUME NEW u \in Thread
        PROVE  Distinct(frame'[u].list) /\ (frame'[u].depth = 0 => frame'[u].list = <<>>)
    BY <1>3, <1>5 DEF Inv, Lists
  <2> QED BY <1>4, <1>7, <2>1 DEF Frames
<1>9. \A u \in Thread : todo[u] # <<>> => frame'[u].depth = frame[u].depth
  BY <1>1, <1>3
<1>10. /\ Replaces(t, <<>>, <<>>, todo[t]) /\ Todo' /\ LockSteps(<<>>)
       /\ \A y : Total(Is("unpin", y), <<>>) = 0
  BY <1>1, <1>9, NoCall
<1>11. Relisted
  BY <1>1, <1>2 DEF Relisted, Locked, Cached, Inv, Lists, Types
<1>12. /\ holds' \in [Thread -> [Item -> Nat]]
       /\ forced' \in BOOLEAN /\ crashed' \in BOOLEAN
  BY <1>1, <1>2 DEF Types
<1>13. Balanced(t, <<>>, <<>>)
  <2> SUFFICES ASSUME NEW y \in Item
               PROVE  /\ count'[y] - count[y] = Change(t, <<>>, <<>>, y)
                      /\ holds'[t][y] = holds[t][y] /\ InFrame(t, y)' <= InFrame(t, y)
    BY <1>1, <1>3 DEF Balanced
  <2>1. Total(Is("unpin", y), <<>>) = 0
    BY <1>10
  <2>2. InFrame(t, y)' = InFrame(t, y) /\ InFrame(t, y) \in {0, 1}
    BY <1>5 DEF InFrame
  <2>3. /\ holds[t][y] \in Int /\ count[y] \in Int
        /\ holds'[t][y] = holds[t][y] /\ count'[y] = count[y]
    BY <1>1, <1>2 DEF Types
  <2> QED BY <2>1, <2>2, <2>3 DEF Change
<1> QED BY <1>1, <1>8, <1>10, <1>11, <1>12, <1>13, LockStep

-----------------------------------------------------------------------------
(* Locks of a call *)

\* One step counts as one.
LEMMA CountsOne ==
  ASSUME NEW s \in Step, NEW op
  PROVE  \A x : Total(Is(op, x), <<s>>) = IF s.op = op /\ s.item = x THEN 1 ELSE 0
<1> SUFFICES ASSUME NEW x
             PROVE  Total(Is(op, x), <<s>>) = IF s.op = op /\ s.item = x THEN 1 ELSE 0
  OBVIOUS
<1>1. Is(op, x)[s] \in Int
  BY IsType
<1>2. Total(Is(op, x), <<s>>) = Is(op, x)[s]
  BY <1>1, TotalShort
<1> QED BY <1>2 DEF Is

\* A step still to do is counted.
LEMMA CountsSome ==
  ASSUME NEW s \in Seq(Step), NEW i \in DOMAIN s
  PROVE  Total(Is(s[i].op, s[i].item), s) >= 1
<1> DEFINE W == Is(s[i].op, s[i].item)
<1>1. \A a \in Step : W[a] \in Nat
  BY IsType
<1>2. s[i] \in Step
  BY LenProperties, ElementOfSeq
<1>3. W[s[i]] = 1
  BY <1>2 DEF Is
<1> HIDE DEF W
<1>4. Total(W, s) \in Nat /\ W[s[i]] <= Total(W, s)
  BY <1>1, TotalNat
<1> QED BY <1>3, <1>4 DEF W

\* An item that a thread links, resizes or returns the lock of was added, and is locked for it.
LEMMA PinnedItem ==
  ASSUME Inv, NEW t \in Thread, NEW op \in {"link", "resize", "setSize", "unpin"}, At(t, op)
  PROVE  /\ Current(t).item \in Item /\ Current(t).item \in Added
         /\ op = "link" => frame[t].depth # 0
         /\ ~forced => Current(t).item \in Locked
<1> DEFINE s == Current(t)
           rest == Tail(todo[t])
           x == s.item
<1>1. Types /\ Ready(todo[t], Added, frame[t].depth)
  BY DEF Inv, Todo
<1>2. /\ s \in Step /\ s.op = op /\ <<s>> \in Seq(Step) /\ rest \in Seq(Step)
      /\ todo[t] = <<s>> \o rest
  BY <1>1, HeadStep
<1>3. x \in Item
  <2>1. s \in ItemStep \/ s \in SizedStep \/ s \in SetStep
    BY <1>2, Kinds
  <2> QED BY <2>1 DEF ItemStep, SizedStep, SetStep
<1>4. 1 \in DOMAIN todo[t] /\ todo[t][1] = s
  BY <1>2
<1>5. todo[t] \in Seq(Step)
  BY <1>1 DEF Types
<1> HIDE DEF s, rest, x
<1>6. Total(Is("unpin", x), todo[t]) >= 1 /\ x \in Added /\ (op = "link" => frame[t].depth # 0)
  <2>1. CASE op # "unpin"
    <3>1. /\ 1 + 1 \in DOMAIN todo[t] /\ todo[t][1 + 1].op = "unpin"
          /\ todo[t][1 + 1].item = x /\ x \in Added
          /\ op = "link" => frame[t].depth # 0
      <4>1. todo[t][1].op = op /\ op \in {"link", "resize", "setSize"} /\ todo[t][1].item = x
        BY <1>2, <1>4, <2>1 DEF x
      <4> QED BY <1>1, <1>4, <4>1 DEF Ready, Followed
    <3>2. Total(Is("unpin", x), todo[t]) >= 1
      BY <1>5, <3>1, CountsSome
    <3> QED BY <3>1, <3>2
  <2>2. CASE op = "unpin"
    <3>1. Total(Is("unpin", x), todo[t]) >= 1
      <4>1. todo[t][1].op = "unpin" /\ todo[t][1].item = x
        BY <1>2, <1>4, <2>2 DEF x
      <4> QED BY <1>4, <1>5, <4>1, CountsSome
    <3>2. Total(Is("insert", x), todo[t]) = 0
      <4>1. \A i \in DOMAIN <<s>> : <<s>>[i] = s
        BY OneElement
      <4>2. 1 \in DOMAIN <<s>> /\ <<s>>[1] = s
        OBVIOUS
      <4>3. \A i \in DOMAIN rest : rest[i].op # "insert"
        <5>1. \E i \in DOMAIN <<s>> : <<s>>[i].op \notin Quick
          BY <1>2, <2>2, <4>2 DEF Quick
        <5>2. Ready(<<s>> \o rest, Added, frame[t].depth)
          BY <1>1, <1>2
        <5> QED BY <1>2, <5>1, <5>2, RestReady
      <4>4. \A i \in DOMAIN <<s>> : <<s>>[i].op # "insert"
        BY <1>2, <2>2, <4>1
      <4>5. \A i \in DOMAIN (<<s>> \o rest) : (<<s>> \o rest)[i].op # "insert"
        BY <1>2, <4>3, <4>4, BothParts
      <4>6. \A i \in DOMAIN todo[t] : todo[t][i].op # "insert"
        BY <1>2, <4>5
      <4> QED BY <1>5, <4>6, CountsNone
    <3>3. x \in Added
      BY <1>1, <1>3, <3>1, <3>2 DEF Ready, Announced
    <3> QED BY <2>2, <3>1, <3>3
  <2> QED BY <2>1, <2>2
<1>7. ASSUME ~forced PROVE x \in Locked
  <2>1. Kept(x)
    BY <1>3, <1>7 DEF Inv, Safe
  <2>2. /\ holds[t][x] \in Nat /\ Total(Is("unpin", x), todo[t]) \in Nat
        /\ InFrame(t, x) \in {0, 1}
        /\ holds[t][x] + Total(Is("unpin", x), todo[t]) + InFrame(t, x) <= count[x]
    BY <1>1, <1>3, <1>6, <2>1, ShareCounted
  <2>3. count[x] \in Nat
    BY <1>1, <1>3 DEF Types
  <2>4. count[x] > 0
    BY <1>6, <2>2, <2>3
  <2> QED BY <1>3, <2>4 DEF Locked
<1> QED BY <1>3, <1>6, <1>7 DEF x, s

\* The first step of a thread is done, and items are locked and unlocked for it.
LEMMA LockHead ==
  ASSUME Inv, NEW t \in Thread, NEW op, At(t, op), NEW front \in Seq(Step), Continues(t, front),
         op \notin {"insert", "destroy", "note", "store", "notify"}, LockSteps(front),
         Relisted, UNCHANGED <<used, size, statusVars, inFlush, discards, forced, crossed>>,
         Frames', Todo', holds' \in [Thread -> [Item -> Nat]], crashed' \in BOOLEAN,
         ~forced => ~crashed' /\ Balanced(t, <<Current(t)>>, front)
  PROVE  Inv'
<1>1. Types
  BY DEF Inv
<1>2. PICK cur : cur = <<Current(t)>>
  OBVIOUS
<1>3. ~crashed /\ Current(t).op = op /\ Replaces(t, cur, front, Tail(todo[t]))
  BY <1>1, <1>2, HeadStep DEF Continues
<1>4. LockSteps(cur)
  BY <1>2, <1>3, OneElement DEF LockSteps
<1>5. forced' \in BOOLEAN /\ forced' = forced
  BY <1>1 DEF Types
<1>6. ~forced => ~crashed' /\ Balanced(t, cur, front)
  BY <1>2
<1> QED BY <1>3, <1>4, <1>5, <1>6, LockStep

\* Unpin.
LEMMA UnpinKeeps ==
  ASSUME Inv, NEW t \in Thread, Unpin(t)
  PROVE  Inv'
<1> DEFINE s == Current(t)
           x == s.item
           rest == Tail(todo[t])
<1>1. /\ At(t, "unpin") /\ Continues(t, <<>>) /\ Types
      /\ UNCHANGED <<used, size, statusVars, frame, inFlush, discards, holds, forced, crashed, crossed>>
      /\ IF count[x] > 0 THEN Relocked(x, count[x] - 1) ELSE UNCHANGED <<lru, count>>
  BY DEF Unpin, Inv, historyVars
<1>2. /\ ~crashed /\ s \in Step /\ s.op = "unpin"
      /\ <<s>> \in Seq(Step) /\ rest \in Seq(Step) /\ todo[t] = <<s>> \o rest
      /\ Replaces(t, <<s>>, <<>>, rest)
  BY <1>1, HeadStep, ShortLists DEF Continues
<1>3. x \in Item /\ x \in Added /\ (~forced => x \in Locked)
  BY <1>1, PinnedItem
<1>4. count[x] \in Nat /\ \A y \in Item : count[y] \in Int /\ holds[t][y] \in Int
  BY <1>1, <1>3 DEF Types
<1>5. /\ Relisted
      /\ ~forced => \A y \in Item : count'[y] - count[y] = IF y = x THEN -1 ELSE 0
  <2>1. CASE count[x] > 0
    <3>1. count[x] - 1 \in Nat /\ Relocked(x, count[x] - 1) /\ x \in Cached
      BY <1>1, <1>3, <1>4, <2>1 DEF Cached, Locked
    <3>2. /\ Relisted /\ count'[x] = count[x] - 1
          /\ \A y \in Item : y # x => count'[y] = count[y]
      BY <3>1, RelockedCached
    <3>3. \A y \in Item : count'[y] - count[y] = IF y = x THEN -1 ELSE 0
      BY <1>4, <3>2
    <3> QED BY <3>2, <3>3
  <2>2. CASE ~(count[x] > 0)
    <3>1. forced /\ UNCHANGED <<lru, count>>
      BY <1>1, <1>3, <2>2 DEF Locked
    <3> QED BY <3>1, NotRelisted
  <2> QED BY <2>1, <2>2
<1>6. Frames' /\ \A u \in Thread : frame'[u].depth = frame[u].depth
  BY <1>1, SameFrames
<1>7. \A y : Total(Is("unpin", y), <<s>>) = IF x = y THEN 1 ELSE 0
  BY <1>2, CountsOne
<1>8. <<>> \in Seq(Step) /\ \A i \in DOMAIN <<>> : FALSE
  BY ShortLists
<1>9. \A op, y : Total(Is(op, y), <<>>) = 0
  BY <1>8, CountsNone
<1>10. Todo'
  <2>1. Ready(<<s>> \o rest, Added, frame[t].depth)
    BY <1>2 DEF Inv, Todo
  <2>2. \A y \in Item \ Added : Total(Is("unpin", y), <<s>>) = Total(Is("insert", y), <<s>>)
    <3>1. \A y : Total(Is("insert", y), <<s>>) = 0
      BY <1>2, CountsOne
    <3> QED BY <1>3, <1>7, <3>1
  <2>3. Ready(<<>> \o rest, Added, frame[t].depth)
    BY <1>2, <1>8, <2>1, <2>2, PlainReady
  <2>4. Added' = Added /\ Todo
    BY <1>1 DEF Added, Inv
  <2> QED BY <1>1, <1>2, <1>6, <2>3, <2>4, TodoKept
<1>11. holds' \in [Thread -> [Item -> Nat]] /\ crashed' \in BOOLEAN /\ ~crashed'
  BY <1>1, <1>2 DEF Types
<1>12. ASSUME ~forced PROVE Balanced(t, <<s>>, <<>>)
  <2> SUFFICES ASSUME NEW y \in Item
               PROVE  /\ count'[y] - count[y] = Change(t, <<s>>, <<>>, y)
                      /\ holds'[t][y] = holds[t][y] /\ InFrame(t, y)' <= InFrame(t, y)
    BY <1>1 DEF Balanced
  <2>1. InFrame(t, y)' = InFrame(t, y) /\ InFrame(t, y) \in {0, 1}
    BY <1>1, SameFrames
  <2>2. Total(Is("unpin", y), <<>>) = 0 /\ Total(Is("unpin", y), <<s>>) = IF x = y THEN 1 ELSE 0
    BY <1>7, <1>9
  <2>3. holds[t][y] \in Int /\ holds'[t][y] = holds[t][y]
    BY <1>1, <1>4
  <2>4. count'[y] - count[y] = IF y = x THEN -1 ELSE 0
    BY <1>5, <1>12
  <2> QED BY <2>1, <2>2, <2>3, <2>4 DEF Change
<1>13. LockSteps(<<>>)
  BY <1>8 DEF LockSteps
<1>14. "unpin" \notin {"insert", "destroy", "note", "store", "notify"}
  OBVIOUS
<1>15. ~forced => ~crashed' /\ Balanced(t, <<Current(t)>>, <<>>)
  BY <1>11, <1>12
<1> HIDE DEF s, x, rest
<1> QED BY <1>1, <1>5, <1>6, <1>8, <1>10, <1>11, <1>13, <1>14, <1>15, LockHead

\* The number of locks a client has on an item changes.
LEMMA HeldChanged ==
  ASSUME Types, NEW t \in Thread, NEW x \in Item, NEW n \in Nat,
         holds' = [holds EXCEPT ![t] = [holds[t] EXCEPT ![x] = n]]
  PROVE  /\ holds' \in [Thread -> [Item -> Nat]]
         /\ \A u \in Thread : u # t => holds'[u] = holds[u]
         /\ holds'[t][x] = n /\ \A y \in Item : y # x => holds'[t][y] = holds[t][y]
<1>1. holds \in [Thread -> [Item -> Nat]]
  BY DEF Types
<1>2. PICK h : h = [holds[t] EXCEPT ![x] = n]
  OBVIOUS
<1>3. h \in [Item -> Nat] /\ h[x] = n /\ \A y \in Item : y # x => h[y] = holds[t][y]
  BY <1>1, <1>2
<1>4. holds' = [holds EXCEPT ![t] = h]
  BY <1>2
<1> QED BY <1>1, <1>3, <1>4

\* LockAdded.
LEMMA LockAddedKeeps ==
  ASSUME Inv, NEW t \in Thread, LockAdded(t)
  PROVE  Inv'
<1> DEFINE s == Current(t)
           x == s.item
           rest == Tail(todo[t])
<1>1. /\ At(t, "lock") /\ Continues(t, <<>>) /\ Types
      /\ UNCHANGED <<used, size, statusVars, frame, inFlush, discards, forced, crashed, crossed>>
      /\ IF x \in Cached
         THEN Relocked(x, count[x] + 1) /\ holds' = [holds EXCEPT ![t][x] = @ + 1]
         ELSE UNCHANGED <<lru, count, holds>>
  BY DEF LockAdded, Inv
<1>2. /\ ~crashed /\ s \in Step /\ s.op = "lock" /\ s \in ItemStep
      /\ Replaces(t, <<s>>, <<>>, rest)
  BY <1>1, HeadStep, ShortLists, Kinds DEF Continues
<1>3. x \in Item /\ Cached \subseteq Added
  BY <1>2, CachedAdded DEF ItemStep
<1>4. CASE x \notin Cached
  <2>1. UNCHANGED <<lruVars, size, statusVars, frame, historyVars>>
    BY <1>1, <1>4 DEF lruVars, historyVars
  <2>2. inFlush' \in BOOLEAN
    BY <1>1 DEF Types
  <2> QED BY <1>1, <2>1, <2>2, NothingToDo
<1>5. CASE x \in Cached
  <2> HIDE DEF s, x, rest
  <2>1. /\ count[x] + 1 \in Nat /\ \A y \in Item : count[y] \in Int /\ holds[t][y] \in Int
        /\ Relocked(x, count[x] + 1)
    <3>1. count \in [Item -> Nat] /\ holds \in [Thread -> [Item -> Nat]]
      BY <1>1 DEF Types
    <3>2. Relocked(x, count[x] + 1)
      BY <1>1, <1>5
    <3>3. count[x] \in Nat /\ \A y \in Item : count[y] \in Nat /\ holds[t][y] \in Nat
      BY <1>3, <3>1
    <3>4. QED
      BY <3>2, <3>3
  <2>2. /\ Relisted /\ count'[x] = count[x] + 1
        /\ \A y \in Item : y # x => count'[y] = count[y]
    BY <1>5, <2>1, RelockedCached
  <2>3. /\ holds' \in [Thread -> [Item -> Nat]]
        /\ \A u \in Thread : u # t => holds'[u] = holds[u]
        /\ holds'[t][x] = holds[t][x] + 1 /\ \A y \in Item : y # x => holds'[t][y] = holds[t][y]
    <3>1. holds' = [holds EXCEPT ![t] = [holds[t] EXCEPT ![x] = holds[t][x] + 1]]
      BY <1>1, <1>5
    <3>2. holds[t][x] + 1 \in Nat
      BY <1>1, <1>3 DEF Types
    <3> QED BY <1>1, <1>3, <3>1, <3>2, HeldChanged
  <2>4. Frames' /\ \A u \in Thread : frame'[u].depth = frame[u].depth /\ frame'[u] = frame[u]
    BY <1>1, SameFrames
  <2>5. <<>> \in Seq(Step) /\ LockSteps(<<>>) /\ \A i \in DOMAIN <<>> : FALSE
    BY ShortLists DEF LockSteps
  <2>6. \A y : Total(Is("unpin", y), <<s>>) = 0 /\ Total(Is("unpin", y), <<>>) = 0
    <3>1. \A y : Total(Is("unpin", y), <<s>>) = 0
      BY <1>2, CountsOne
    <3>2. \A y : Total(Is("unpin", y), <<>>) = 0
      BY <2>5, CountsNone
    <3> QED BY <3>1, <3>2
  <2>7. Todo'
    <3>1. Added' = Added /\ Todo
      BY <1>1 DEF Added, Inv
    <3>2. \A i \in DOMAIN <<s>> : <<s>>[i].op \notin {"insert", "unpin"}
      BY <1>2, OneElement
    <3>3. /\ \A i \in DOMAIN <<>> : <<>>[i].op \notin {"insert", "unpin", "link", "resize", "setSize"}
          /\ \A i \in DOMAIN <<>> : <<>>[i].op \in Quick
      BY <2>5
    <3>4. \A u \in Thread : frame'[u].depth = frame[u].depth
      BY <2>4
    <3> QED BY <1>1, <1>2, <3>1, <3>2, <3>3, <3>4, TodoPlain
  <2>8. Balanced(t, <<s>>, <<>>)
    <3>1. ASSUME NEW y \in Item
          PROVE  /\ count'[y] - count[y] = Change(t, <<s>>, <<>>, y)
                 /\ y \notin Added => holds'[t][y] = holds[t][y]
                 /\ InFrame(t, y)' <= InFrame(t, y)
      <4>1. InFrame(t, y)' = InFrame(t, y) /\ InFrame(t, y) \in {0, 1}
        BY <1>1, SameFrames
      <4>2. Total(Is("unpin", y), <<>>) = 0 /\ Total(Is("unpin", y), <<s>>) = 0
        BY <2>6
      <4>3. holds[t][y] \in Int /\ count[y] \in Int
        BY <2>1
      <4>4. CASE y = x
        <5>1. count'[y] = count[y] + 1 /\ holds'[t][y] = holds[t][y] + 1 /\ y \in Added
          BY <1>3, <1>5, <2>2, <2>3, <4>4
        <5> QED BY <4>1, <4>2, <4>3, <5>1 DEF Change
      <4>5. CASE y # x
        <5>1. count'[y] = count[y] /\ holds'[t][y] = holds[t][y]
          BY <2>2, <2>3, <4>5
        <5> QED BY <4>1, <4>2, <4>3, <5>1 DEF Change
      <4> QED BY <4>4, <4>5
    <3> QED BY <2>3, <2>4, <3>1 DEF Balanced
  <2>9. crashed' \in BOOLEAN /\ ~crashed'
    BY <1>1, <1>2 DEF Types
  <2>10. ~forced => ~crashed' /\ Balanced(t, <<Current(t)>>, <<>>)
    BY <2>8, <2>9 DEF s
  <2>11. "lock" \notin {"insert", "destroy", "note", "store", "notify"}
    OBVIOUS
  <2> QED BY <1>1, <2>2, <2>3, <2>4, <2>5, <2>7, <2>9, <2>10, <2>11, LockHead
<1> QED BY <1>4, <1>5

\* Two steps.
LEMMA TwoSteps ==
  ASSUME NEW a \in Step, NEW b \in Step
  PROVE  /\ <<a, b>> \in Seq(Step) /\ DOMAIN <<a, b>> = {1, 2}
         /\ <<a, b>>[1] = a /\ <<a, b>>[2] = b
         /\ \A op, x : Total(Is(op, x), <<a, b>>) = (IF a.op = op /\ a.item = x THEN 1 ELSE 0)
                                                      + (IF b.op = op /\ b.item = x THEN 1 ELSE 0)
<1>1. <<a, b>> \in Seq(Step) /\ <<a>> \in Seq(Step) /\ <<b>> \in Seq(Step)
  OBVIOUS
<1>2. /\ DOMAIN <<a, b>> = {1, 2} /\ <<a, b>>[1] = a /\ <<a, b>>[2] = b
  OBVIOUS
<1>3. <<a, b>> = <<a>> \o <<b>>
  <2>1. PICK one : one = <<a>>
    OBVIOUS
  <2>2. PICK two : two = <<b>>
    OBVIOUS
  <2>3. /\ one \in Seq(Step) /\ Len(one) = 1 /\ one[1] = a
        /\ two \in Seq(Step) /\ Len(two) = 1 /\ two[1] = b
    BY <1>1, <2>1, <2>2
  <2>4. /\ one \o two \in Seq(Step) /\ Len(one \o two) = 2
        /\ (one \o two)[1] = a /\ (one \o two)[2] = b
    BY <2>3, ConcatProperties
  <2>5. <<a, b>> \in Seq(Step) /\ Len(<<a, b>>) = 2 /\ <<a, b>>[1] = a /\ <<a, b>>[2] = b
    BY <1>1
  <2>6. one \o two = <<a, b>>
    <3>1. \A i \in 1 .. 2 : (one \o two)[i] = <<a, b>>[i]
      BY <2>4, <2>5
    <3> QED BY <2>4, <2>5, <3>1, SeqEqual
  <2> QED BY <2>1, <2>2, <2>6
<1>4. ASSUME NEW op, NEW x
      PROVE  Total(Is(op, x), <<a, b>>) = (IF a.op = op /\ a.item = x THEN 1 ELSE 0)
                                            + (IF b.op = op /\ b.item = x THEN 1 ELSE 0)
  <2> DEFINE W == Is(op, x)
  <2>1. \A s \in Step : W[s] \in Int
    BY IsType
  <2>2. /\ Total(W, <<a>>) = IF a.op = op /\ a.item = x THEN 1 ELSE 0
        /\ Total(W, <<b>>) = IF b.op = op /\ b.item = x THEN 1 ELSE 0
    BY CountsOne
  <2> HIDE DEF W
  <2>3. PICK one : one = <<a>>
    OBVIOUS
  <2>4. PICK two : two = <<b>>
    OBVIOUS
  <2>5. Total(W, one \o two) = Total(W, one) + Total(W, two)
    BY <1>1, <2>1, <2>3, <2>4, TotalConcat
  <2>6. Total(W, <<a, b>>) = Total(W, <<a>>) + Total(W, <<b>>)
    BY <1>3, <2>3, <2>4, <2>5
  <2> QED BY <2>2, <2>6 DEF W
<1> QED BY <1>1, <1>2, <1>4

\* An item is linked, or resized, and then unlocked.
LEMMA PinReady ==
  ASSUME NEW cur \in Seq(Step), NEW rest \in Seq(Step), NEW added, NEW depth,
         Ready(cur \o rest, added, depth), \A i \in DOMAIN rest : rest[i].op # "insert",
         \A x \in Item \ added : Total(Is("unpin", x), cur) = Total(Is("insert", x), cur),
         NEW a \in Step, a.op \in {"link", "resize", "setSize"}, a.item \in added,
         NEW b \in Step, b.op = "unpin", b.item = a.item, a.op = "link" => depth # 0
  PROVE  Ready(<<a, b>> \o rest, added, depth)
<1>1. PICK front : front = <<a, b>>
  OBVIOUS
<1>2. /\ front \in Seq(Step) /\ DOMAIN front = {1, 2} /\ front[1] = a /\ front[2] = b
      /\ \A op, x : Total(Is(op, x), front) = (IF a.op = op /\ a.item = x THEN 1 ELSE 0)
                                                + (IF b.op = op /\ b.item = x THEN 1 ELSE 0)
  BY <1>1, TwoSteps
<1>3. Ordered(front)
  <2>1. \A j \in DOMAIN front : front[j].op # "insert"
    BY <1>2
  <2> QED BY <2>1 DEF Ordered
<1>4. Followed(front, added, depth)
  <2> SUFFICES ASSUME NEW i \in DOMAIN front, front[i].op \in {"link", "resize", "setSize"}
               PROVE  /\ i + 1 \in DOMAIN front /\ front[i + 1].op = "unpin"
                      /\ front[i + 1].item = front[i].item /\ front[i].item \in added
                      /\ front[i].op = "link" => depth # 0
    BY DEF Followed
  <2>1. i = 1
    BY <1>2
  <2> QED BY <1>2, <2>1
<1>5. Ordered(rest) /\ Followed(rest, added, depth)
  BY RestReady
<1>6. Announced(front \o rest, added)
  <2>1. \A x \in Item \ added : Total(Is("unpin", x), front) = Total(Is("insert", x), front)
    BY <1>2
  <2>2. Announced(cur \o rest, added)
    BY DEF Ready
  <2> QED BY <1>2, <2>1, <2>2, AnnouncedStill
<1> QED BY <1>1, <1>2, <1>3, <1>4, <1>5, <1>6, FrontReady

\* Pin.
LEMMA PinKeeps ==
  ASSUME Inv, NEW t \in Thread, Pin(t)
  PROVE  Inv'
<1> DEFINE s == Current(t)
           x == s.item
           rest == Tail(todo[t])
           a == OnItem("link", x)
           b == OnItem("unpin", x)
<1>1. /\ At(t, "pin") /\ Types
      /\ UNCHANGED <<used, size, statusVars, frame, inFlush, discards, holds, forced, crashed, crossed>>
      /\ IF frame[t] # NoFrame /\ x \in Cached
         THEN Relocked(x, count[x] + 1) /\ Continues(t, <<a, b>>)
         ELSE Continues(t, <<>>) /\ UNCHANGED <<lru, count>>
  BY DEF Pin, Inv, historyVars
<1>2. /\ ~crashed /\ s \in Step /\ s.op = "pin" /\ s \in ItemStep
      /\ <<s>> \in Seq(Step) /\ rest \in Seq(Step) /\ todo[t] = <<s>> \o rest
  BY <1>1, HeadStep, Kinds
<1>3. x \in Item /\ Cached \subseteq Added
  BY <1>2, CachedAdded DEF ItemStep
<1>4. CASE ~(frame[t] # NoFrame /\ x \in Cached)
  <2>1. UNCHANGED <<lruVars, size, statusVars, frame, historyVars>>
    BY <1>1, <1>4 DEF lruVars, historyVars, Pin
  <2>2. inFlush' \in BOOLEAN
    BY <1>1 DEF Types
  <2> QED BY <1>1, <1>4, <2>1, <2>2, NothingToDo
<1>5. CASE frame[t] # NoFrame /\ x \in Cached
  <2>1. /\ a \in Step /\ a.op = "link" /\ a.item = x
        /\ b \in Step /\ b.op = "unpin" /\ b.item = x
    BY <1>3, ItemSteps
  <2> HIDE DEF x, rest, a, b
  <2>2. PICK front : front = <<a, b>>
    OBVIOUS
  <2>3. /\ front \in Seq(Step) /\ DOMAIN front = {1, 2} /\ front[1] = a /\ front[2] = b
        /\ \A op, y : Total(Is(op, y), front) = (IF a.op = op /\ a.item = y THEN 1 ELSE 0)
                                                  + (IF b.op = op /\ b.item = y THEN 1 ELSE 0)
    BY <2>1, <2>2, TwoSteps
  <2>4. Continues(t, front) /\ Relocked(x, count[x] + 1)
    BY <1>1, <1>5, <2>2
  <2>5. Replaces(t, <<s>>, front, rest)
    BY <1>1, <2>3, <2>4, HeadStep DEF Continues, rest
  <2>6. count[x] + 1 \in Nat /\ \A y \in Item : count[y] \in Int /\ holds[t][y] \in Int
    BY <1>1, <1>3 DEF Types
  <2>7. Relisted /\ count'[x] = count[x] + 1 /\ \A y \in Item : y # x => count'[y] = count[y]
    BY <1>5, <2>4, <2>6, RelockedCached
  <2>8. /\ Frames' /\ \A u \in Thread : frame'[u].depth = frame[u].depth
    BY <1>1, SameFrames
  <2>9. LockSteps(front)
    BY <2>1, <2>3 DEF LockSteps
  <2>10. \A op, y : Total(Is(op, y), <<s>>) = IF s.op = op /\ s.item = y THEN 1 ELSE 0
    BY <1>2, CountsOne
  <2>11. Todo'
    <3>1. Ready(<<s>> \o rest, Added, frame[t].depth) /\ Lists /\ Todo
      BY <1>2 DEF Inv, Todo
    <3>2. frame[t].depth # 0
      <4>1. frame[t] = [depth |-> frame[t].depth, list |-> frame[t].list]
        BY <1>1 DEF Types
      <4> QED BY <1>5, <3>1, <4>1 DEF Lists, NoFrame
    <3>3. \A i \in DOMAIN rest : rest[i].op # "insert"
      <4>1. 1 \in DOMAIN <<s>> /\ <<s>>[1] = s
        OBVIOUS
      <4>2. \E i \in DOMAIN <<s>> : <<s>>[i].op \notin Quick
        BY <1>2, <4>1 DEF Quick
      <4> QED BY <1>2, <3>1, <4>2, RestReady
    <3>4. \A y \in Item \ Added : Total(Is("unpin", y), <<s>>) = Total(Is("insert", y), <<s>>)
      BY <1>2, <2>10
    <3>5. Ready(<<a, b>> \o rest, Added, frame[t].depth)
      BY <1>2, <1>3, <1>5, <2>1, <3>1, <3>2, <3>3, <3>4, PinReady
    <3>6. Ready(front \o rest, Added', frame'[t].depth) /\ Added' = Added
      BY <1>1, <2>2, <3>5 DEF Added
    <3> QED BY <1>1, <2>5, <2>8, <3>1, <3>6, TodoKept
  <2>12. ASSUME ~forced PROVE Balanced(t, <<s>>, front)
    <3> SUFFICES ASSUME NEW y \in Item
                 PROVE  /\ count'[y] - count[y] = Change(t, <<s>>, front, y)
                        /\ holds'[t][y] = holds[t][y] /\ InFrame(t, y)' <= InFrame(t, y)
      BY <1>1 DEF Balanced
    <3>1. InFrame(t, y)' = InFrame(t, y) /\ InFrame(t, y) \in {0, 1}
      BY <1>1, SameFrames
    <3>2. /\ Total(Is("unpin", y), front) = IF x = y THEN 1 ELSE 0
          /\ Total(Is("unpin", y), <<s>>) = 0
      BY <1>2, <2>1, <2>3, <2>10
    <3>3. holds[t][y] \in Int /\ holds'[t][y] = holds[t][y] /\ count[y] \in Int
      BY <1>1, <2>6
    <3>4. count'[y] = IF x = y THEN count[y] + 1 ELSE count[y]
      BY <2>7
    <3> QED BY <3>1, <3>2, <3>3, <3>4 DEF Change
  <2>13. holds' \in [Thread -> [Item -> Nat]] /\ crashed' \in BOOLEAN /\ ~crashed'
    BY <1>1, <1>2 DEF Types
  <2>14. "pin" \notin {"insert", "destroy", "note", "store", "notify"}
    OBVIOUS
  <2>15. ~forced => ~crashed' /\ Balanced(t, <<Current(t)>>, front)
    BY <2>12, <2>13
  <2> HIDE DEF s
  <2> QED BY <1>1, <2>3, <2>4, <2>7, <2>8, <2>9, <2>11, <2>13, <2>14, <2>15, LockHead
<1> QED BY <1>4, <1>5

\* The list of a frame changes.
LEMMA FrameList ==
  ASSUME Inv, NEW t \in Thread, NEW list \in Seq(Item), Distinct(list),
         frame[t].depth = 0 => list = <<>>,
         frame' = [frame EXCEPT ![t] = [frame[t] EXCEPT !.list = list]]
  PROVE  /\ Frames' /\ frame'[t].list = list /\ \A u \in Thread : u # t => frame'[u] = frame[u]
         /\ \A u \in Thread : frame'[u].depth = frame[u].depth
<1>1. frame \in [Thread -> [depth : 0 .. MaxDepth, list : Seq(Item)]]
  BY DEF Inv, Types
<1>2. /\ frame'[t] = [depth |-> frame[t].depth, list |-> list]
      /\ \A u \in Thread : u # t => frame'[u] = frame[u]
      /\ frame' \in [Thread -> [depth : 0 .. MaxDepth, list : Seq(Item)]]
  BY <1>1
<1>3. frame'[t].depth = frame[t].depth /\ frame'[t].list = list
  BY <1>2
<1>4. \A u \in Thread : frame'[u].depth = frame[u].depth
  BY <1>2, <1>3
<1>5. ASSUME NEW u \in Thread
      PROVE  Distinct(frame'[u].list) /\ (frame'[u].depth = 0 => frame'[u].list = <<>>)
  BY <1>2, <1>3 DEF Inv, Lists
<1>6. FramesInUse' = FramesInUse
  <2>1. frame[t] = [depth |-> frame[t].depth, list |-> frame[t].list]
    BY <1>1
  <2>2. frame[t] = NoFrame <=> frame[t].depth = 0
    BY <2>1 DEF Inv, Lists, NoFrame
  <2>3. frame'[t] = NoFrame <=> frame[t].depth = 0
    BY <1>2 DEF NoFrame
  <2> QED BY <1>2, <2>2, <2>3 DEF FramesInUse
<1> QED BY <1>2, <1>3, <1>4, <1>5, <1>6 DEF Frames, Inv, Lists

\* Link.
LEMMA LinkKeeps ==
  ASSUME Inv, NEW t \in Thread, Link(t)
  PROVE  Inv'
<1> DEFINE s == Current(t)
           x == s.item
           rest == Tail(todo[t])
           list == frame[t].list
<1>1. /\ At(t, "link") /\ Types /\ Continues(t, <<>>)
      /\ UNCHANGED <<used, size, statusVars, inFlush, discards, holds, forced, crossed>>
      /\ crashed' = (x \notin Cached)
      /\ IF x \in Cached /\ x \notin ToSet(list) THEN Linked(t, x)
         ELSE UNCHANGED <<lru, count, frame>>
  BY DEF Link, Inv
<1>2. /\ s \in Step /\ s.op = "link" /\ Replaces(t, <<s>>, <<>>, rest)
  BY <1>1, HeadStep, ShortLists DEF Continues
<1>3. x \in Item /\ x \in Added /\ frame[t].depth # 0 /\ (~forced => x \in Cached)
  BY <1>1, PinnedItem DEF Cached
<1>4. list \in Seq(Item) /\ Distinct(list)
  BY <1>1 DEF Types, Inv, Lists
<1> HIDE DEF s, x, rest, list
<1>5. /\ \A y \in Item : count[y] \in Int /\ holds[t][y] \in Int
      /\ holds' \in [Thread -> [Item -> Nat]] /\ crashed' \in BOOLEAN
  BY <1>1 DEF Types
<1>6. <<>> \in Seq(Step) /\ LockSteps(<<>>) /\ \A i \in DOMAIN <<>> : FALSE
  BY ShortLists DEF LockSteps
<1>7. \A y : Total(Is("unpin", y), <<s>>) = 0 /\ Total(Is("unpin", y), <<>>) = 0
  <2>1. \A y : Total(Is("unpin", y), <<s>>) = 0
    BY <1>2, CountsOne
  <2>2. \A y : Total(Is("unpin", y), <<>>) = 0
    BY <1>6, CountsNone
  <2> QED BY <2>1, <2>2
<1>8. /\ Relisted /\ Frames' /\ \A u \in Thread : frame'[u].depth = frame[u].depth
      /\ \A u \in Thread : u # t => frame'[u] = frame[u]
      /\ \A y \in Item : /\ InFrame(t, y) \in {0, 1} /\ InFrame(t, y)' \in {0, 1}
                         /\ count'[y] - count[y] = InFrame(t, y)' - InFrame(t, y)
                         /\ y # x => InFrame(t, y)' = InFrame(t, y)
  <2>1. CASE x \in Cached /\ x \notin ToSet(list)
    <3>1. Relocked(x, count[x] + 1) /\ frame' = [frame EXCEPT ![t].list = <<x>> \o @]
      BY <1>1, <2>1 DEF Linked
    <3>2. PICK longer : longer = <<x>> \o list
      OBVIOUS
    <3>3. longer \in Seq(Item) /\ ToSet(longer) = {x} \cup ToSet(list) /\ Distinct(longer)
      <4>1. PICK one : one = <<x>> /\ one \in Seq(Item) /\ ToSet(one) = {x} /\ Distinct(one)
        BY <1>3, ShortLists
      <4>2. ToSet(one) \cap ToSet(list) = {}
        BY <2>1, <4>1
      <4>3. /\ one \o list \in Seq(Item) /\ ToSet(one \o list) = ToSet(one) \cup ToSet(list)
            /\ Distinct(one) /\ Distinct(list) /\ ToSet(one) \cap ToSet(list) = {}
                 => Distinct(one \o list)
        <5>1. one \in Seq(Item) /\ list \in Seq(Item)
          BY <1>4, <4>1
        <5> QED BY <5>1, Concatenated
      <4> QED BY <1>4, <3>2, <4>1, <4>2, <4>3
    <3>4. frame' = [frame EXCEPT ![t] = [frame[t] EXCEPT !.list = longer]]
      BY <3>1, <3>2 DEF list
    <3>5. /\ Frames' /\ frame'[t].list = longer
          /\ \A u \in Thread : u # t => frame'[u] = frame[u]
          /\ \A u \in Thread : frame'[u].depth = frame[u].depth
      BY <1>3, <3>3, <3>4, FrameList
    <3>6. count[x] + 1 \in Nat
      BY <1>1, <1>3 DEF Types
    <3>7. Relisted /\ count'[x] = count[x] + 1 /\ \A y \in Item : y # x => count'[y] = count[y]
      BY <2>1, <3>1, <3>6, RelockedCached
    <3>8. \A y : /\ InFrame(t, y) = IF y \in ToSet(list) THEN 1 ELSE 0
                 /\ InFrame(t, y)' = IF y \in {x} \cup ToSet(list) THEN 1 ELSE 0
      BY <3>3, <3>5 DEF InFrame, list
    <3>9. ASSUME NEW y \in Item
          PROVE  /\ InFrame(t, y) \in {0, 1} /\ InFrame(t, y)' \in {0, 1}
                 /\ count'[y] - count[y] = InFrame(t, y)' - InFrame(t, y)
                 /\ y # x => InFrame(t, y)' = InFrame(t, y)
      <4>1. CASE y = x
        <5>1. InFrame(t, y) = 0 /\ InFrame(t, y)' = 1
          BY <2>1, <3>8, <4>1
        <5> QED BY <1>5, <3>7, <4>1, <5>1
      <4>2. CASE y # x
        <5>1. InFrame(t, y)' = InFrame(t, y) /\ InFrame(t, y) \in {0, 1}
          BY <3>8, <4>2
        <5>2. count'[y] = count[y] /\ count[y] \in Int
          BY <1>5, <3>7, <4>2
        <5> QED BY <5>1, <5>2
      <4> QED BY <4>1, <4>2
    <3> QED BY <3>5, <3>7, <3>9
  <2>2. CASE ~(x \in Cached /\ x \notin ToSet(list))
    <3>1. UNCHANGED <<lru, count, frame>>
      BY <1>1, <2>2
    <3>2. Relisted /\ Frames'
      BY <3>1, NotRelisted, SameFrames
    <3>3. \A y \in Item : /\ InFrame(t, y) \in {0, 1} /\ InFrame(t, y)' = InFrame(t, y)
                          /\ count'[y] = count[y] /\ count[y] \in Int
      BY <1>5, <3>1, SameFrames
    <3> QED BY <3>1, <3>2, <3>3
  <2> QED BY <2>1, <2>2
<1>9. Todo'
  <2>1. Added' = Added /\ Todo
    BY <1>1 DEF Added, Inv
  <2>2. \A i \in DOMAIN <<s>> : <<s>>[i].op \notin {"insert", "unpin"}
    BY <1>2, OneElement
  <2>3. /\ \A i \in DOMAIN <<>> : <<>>[i].op \notin {"insert", "unpin", "link", "resize", "setSize"}
        /\ \A i \in DOMAIN <<>> : <<>>[i].op \in Quick
    BY <1>6
  <2>4. \A u \in Thread : frame'[u].depth = frame[u].depth
    BY <1>8
  <2> QED BY <1>1, <1>2, <2>1, <2>2, <2>3, <2>4, TodoPlain
<1>10. Balanced(t, <<s>>, <<>>)
  <2>1. ASSUME NEW y \in Item
        PROVE  /\ count'[y] - count[y] = Change(t, <<s>>, <<>>, y)
               /\ y \notin Added => holds'[t][y] = holds[t][y] /\ InFrame(t, y)' <= InFrame(t, y)
    <3>1. /\ InFrame(t, y) \in {0, 1} /\ InFrame(t, y)' \in {0, 1}
          /\ count'[y] - count[y] = InFrame(t, y)' - InFrame(t, y)
          /\ y # x => InFrame(t, y)' = InFrame(t, y)
      BY <1>8
    <3>2. Total(Is("unpin", y), <<>>) = 0 /\ Total(Is("unpin", y), <<s>>) = 0
      BY <1>7
    <3>3. holds[t][y] \in Int /\ holds'[t][y] = holds[t][y]
      BY <1>1, <1>5
    <3>4. count'[y] - count[y] = Change(t, <<s>>, <<>>, y)
      BY <3>1, <3>2, <3>3 DEF Change
    <3>5. y \notin Added => InFrame(t, y)' <= InFrame(t, y)
      BY <1>3, <3>1
    <3> QED BY <3>3, <3>4, <3>5
  <2> QED BY <1>1, <1>8, <2>1 DEF Balanced
<1>11. ~forced => ~crashed' /\ Balanced(t, <<Current(t)>>, <<>>)
  BY <1>1, <1>3, <1>10 DEF s
<1>12. "link" \notin {"insert", "destroy", "note", "store", "notify"}
  OBVIOUS
<1> QED BY <1>1, <1>5, <1>6, <1>8, <1>9, <1>11, <1>12, LockHead

\* UpdateSize.
LEMMA UpdateSizeKeeps ==
  ASSUME Inv, NEW t \in Thread, NEW x \in Item, NEW n \in NewSizes, UpdateSize(t, x, n)
  PROVE  Inv'
<1> DEFINE a == Sized("resize", x, n)
           b == OnItem("unpin", x)
<1>1. /\ Types /\ ~forced /\ ~crashed /\ todo[t] = <<>> /\ x \in Cached
      /\ Relocked(x, count[x] + 1) /\ Calls(t, <<a, b>>)
      /\ UNCHANGED <<used, size, statusVars, frame, inFlush, discards, holds, forced, crashed, crossed>>
  BY DEF UpdateSize, Starts, IsIdle, Inv
<1>2. /\ a \in Step /\ a.op = "resize" /\ a.item = x
      /\ b \in Step /\ b.op = "unpin" /\ b.item = x
  <2>1. a \in SizedStep /\ a.op = "resize" /\ a.item = x
    BY Constants DEF Sized, SizedStep
  <2> QED BY <2>1, KindsAreSteps, ItemSteps
<1> HIDE DEF a, b
<1>3. PICK front : front = <<a, b>>
  OBVIOUS
<1>4. /\ front \in Seq(Step) /\ DOMAIN front = {1, 2} /\ front[1] = a /\ front[2] = b
      /\ \A op, y : Total(Is(op, y), front) = (IF a.op = op /\ a.item = y THEN 1 ELSE 0)
                                                + (IF b.op = op /\ b.item = y THEN 1 ELSE 0)
  BY <1>2, <1>3, TwoSteps
<1>5. Replaces(t, <<>>, front, <<>>)
  BY <1>1, <1>3, <1>4, StartStep
<1>6. count[x] + 1 \in Nat /\ \A y \in Item : count[y] \in Int /\ holds[t][y] \in Int
  BY <1>1 DEF Types
<1>7. Relisted /\ count'[x] = count[x] + 1 /\ \A y \in Item : y # x => count'[y] = count[y]
  BY <1>1, <1>6, RelockedCached
<1>8. Frames' /\ \A u \in Thread : frame'[u].depth = frame[u].depth
  BY <1>1, SameFrames
<1>9. <<>> \in Seq(Step) /\ LockSteps(<<>>) /\ \A i \in DOMAIN <<>> : FALSE
  BY ShortLists DEF LockSteps
<1>10. LockSteps(front)
  BY <1>2, <1>4 DEF LockSteps
<1>11. \A op, y : Total(Is(op, y), <<>>) = 0
  BY <1>9, CountsNone
<1>12. Todo'
  <2>1. Todo /\ Added' = Added /\ x \in Added
    BY <1>1, CachedAdded DEF Inv, Added
  <2>2. Ready(<<>> \o <<>>, Added, frame[t].depth)
    BY <1>1, <1>5, <2>1 DEF Todo, Replaces
  <2>3. Ready(<<a, b>> \o <<>>, Added, frame[t].depth)
    BY <1>2, <1>9, <1>11, <2>1, <2>2, PinReady
  <2>4. Ready(front \o <<>>, Added', frame'[t].depth)
    BY <1>3, <1>8, <2>1, <2>3
  <2> QED BY <1>1, <1>5, <1>8, <2>1, <2>4, TodoKept
<1>13. Balanced(t, <<>>, front)
  <2> SUFFICES ASSUME NEW y \in Item
               PROVE  /\ count'[y] - count[y] = Change(t, <<>>, front, y)
                      /\ holds'[t][y] = holds[t][y] /\ InFrame(t, y)' <= InFrame(t, y)
    BY <1>1 DEF Balanced
  <2>1. InFrame(t, y)' = InFrame(t, y) /\ InFrame(t, y) \in {0, 1}
    BY <1>1, SameFrames
  <2>2. /\ Total(Is("unpin", y), front) = IF x = y THEN 1 ELSE 0
        /\ Total(Is("unpin", y), <<>>) = 0
    BY <1>2, <1>4, <1>11
  <2>3. holds[t][y] \in Int /\ holds'[t][y] = holds[t][y] /\ count[y] \in Int
    BY <1>1, <1>6
  <2>4. count'[y] = IF x = y THEN count[y] + 1 ELSE count[y]
    BY <1>7
  <2> QED BY <2>1, <2>2, <2>3, <2>4 DEF Change
<1>14. /\ holds' \in [Thread -> [Item -> Nat]]
       /\ forced' \in BOOLEAN /\ crashed' \in BOOLEAN
  BY <1>1 DEF Types
<1> QED BY <1>1, <1>5, <1>7, <1>8, <1>9, <1>10, <1>12, <1>13, <1>14, LockStep

\* What is done after an unlock: room is made.
LEMMA AfterUnlockSteps ==
  ASSUME NEW x
  PROVE  /\ AfterUnlock(x) \in Seq(Step)
         /\ \A i \in DOMAIN AfterUnlock(x) :
              AfterUnlock(x)[i].op \in {"limitBytes", "limitItems", "ensure"}
<1>1. CASE count[x] <= 1
  <2>1. AfterUnlock(x) = EnsureCapacity(0)
    BY <1>1 DEF AfterUnlock
  <2> QED BY <2>1, RoomSteps
<1>2. CASE ~(count[x] <= 1)
  <2>1. AfterUnlock(x) = <<>>
    BY <1>2 DEF AfterUnlock
  <2> QED BY <2>1, ShortLists
<1> QED BY <1>1, <1>2

\* Steps that make room neither insert, destroy nor note anything, and return no lock.
LEMMA RoomOnly ==
  ASSUME NEW front \in Seq(Step),
         \A i \in DOMAIN front : front[i].op \in {"limitBytes", "limitItems", "ensure"}
  PROVE  /\ LockSteps(front) /\ \A x : Total(Is("unpin", x), front) = 0
         /\ \A i \in DOMAIN front : front[i].op \notin {"insert", "unpin", "link", "resize", "setSize"}
         /\ \A i \in DOMAIN front : front[i].op \in Quick
<1>1. \A i \in DOMAIN front : front[i].op # "unpin"
  OBVIOUS
<1>2. \A x : Total(Is("unpin", x), front) = 0
  BY <1>1, CountsNone
<1>3. LockSteps(front)
  BY DEF LockSteps
<1>4. \A i \in DOMAIN front : front[i].op \in Quick
  BY DEF Quick
<1>5. \A i \in DOMAIN front : front[i].op \notin {"insert", "unpin", "link", "resize", "setSize"}
  OBVIOUS
<1> QED BY <1>2, <1>3, <1>4, <1>5

\* Unlock.
LEMMA UnlockKeeps ==
  ASSUME Inv, NEW t \in Thread, NEW x \in Item, Unlock(t, x)
  PROVE  Inv'
<1>1. /\ Types /\ ~crashed /\ todo[t] = <<>> /\ holds[t][x] > 0
      /\ holds' = [holds EXCEPT ![t][x] = @ - 1]
      /\ UNCHANGED <<used, size, statusVars, frame, inFlush, discards, forced, crossed>>
      /\ IF x \in Cached
         THEN /\ IF count[x] > 0 THEN Relocked(x, count[x] - 1) ELSE UNCHANGED <<lru, count>>
              /\ Calls(t, AfterUnlock(x))
              /\ crashed' = crashed
         ELSE crashed' = TRUE /\ UNCHANGED <<lru, count, todo>>
  BY DEF Unlock, IsIdle, Inv
<1>2. /\ count[x] \in Nat /\ holds[t][x] \in Nat /\ holds[t][x] - 1 \in Nat
      /\ \A y \in Item : count[y] \in Int /\ holds[t][y] \in Int
      /\ forced' \in BOOLEAN /\ crashed' \in BOOLEAN
  <2>1. count[x] \in Nat /\ holds[t][x] \in Nat
    BY <1>1 DEF Types
  <2>2. \A y \in Item : count[y] \in Int /\ holds[t][y] \in Int
    BY <1>1 DEF Types
  <2>3. holds[t][x] - 1 \in Nat
    BY <1>1, <2>1
  <2>4. forced' \in BOOLEAN /\ crashed' \in BOOLEAN
    BY <1>1 DEF Types
  <2> QED BY <2>1, <2>2, <2>3, <2>4
<1>3. /\ holds' \in [Thread -> [Item -> Nat]]
      /\ \A u \in Thread : u # t => holds'[u] = holds[u]
      /\ holds'[t][x] = holds[t][x] - 1 /\ \A y \in Item : y # x => holds'[t][y] = holds[t][y]
  <2>1. holds' = [holds EXCEPT ![t] = [holds[t] EXCEPT ![x] = holds[t][x] - 1]]
    BY <1>1
  <2>2. PICK n \in Nat : n = holds[t][x] - 1
    BY <1>2
  <2>3. holds' = [holds EXCEPT ![t] = [holds[t] EXCEPT ![x] = n]]
    BY <2>1, <2>2
  <2>4. Types
    BY <1>1
  <2> QED BY ZenonT(30), <2>2, <2>3, <2>4, HeldChanged
<1>4. ~forced => x \in Added /\ x \in Cached /\ count[x] > 0
  <2> SUFFICES ASSUME ~forced PROVE x \in Added /\ x \in Cached /\ count[x] > 0
    OBVIOUS
  <2>1. Kept(x)
    BY DEF Inv, Safe
  <2>2. x \in Added
    BY <1>1, <2>1 DEF Kept
  <2>3. /\ holds[t][x] \in Nat /\ Total(Is("unpin", x), todo[t]) \in Nat
        /\ InFrame(t, x) \in {0, 1}
        /\ holds[t][x] + Total(Is("unpin", x), todo[t]) + InFrame(t, x) <= count[x]
    BY <1>1, <2>1, <2>2, ShareCounted
  <2>4. count[x] > 0
    BY <1>1, <1>2, <2>3
  <2> QED BY <2>2, <2>4 DEF Cached, Locked
<1>5. Frames' /\ \A u \in Thread : frame'[u].depth = frame[u].depth /\ frame'[u] = frame[u]
  BY <1>1, SameFrames
<1>6. /\ Relisted
      /\ ~forced => \A y \in Item : count'[y] - count[y] = IF y = x THEN -1 ELSE 0
  <2>1. CASE x \in Cached /\ count[x] > 0
    <3>1. count[x] - 1 \in Nat /\ Relocked(x, count[x] - 1)
      BY <1>1, <1>2, <2>1
    <3>2. /\ Relisted /\ count'[x] = count[x] - 1
          /\ \A y \in Item : y # x => count'[y] = count[y]
      BY <2>1, <3>1, RelockedCached
    <3>3. \A y \in Item : count'[y] - count[y] = IF y = x THEN -1 ELSE 0
      BY <1>2, <3>2
    <3> QED BY <3>2, <3>3
  <2>2. CASE ~(x \in Cached /\ count[x] > 0)
    <3>1. forced /\ UNCHANGED <<lru, count>>
      BY <1>1, <1>4, <2>2
    <3> QED BY <3>1, NotRelisted
  <2> QED BY <2>1, <2>2
<1>7. ASSUME NEW front, \A y : Total(Is("unpin", y), front) = 0,
             \A y : Total(Is("unpin", y), <<>>) = 0, ~forced
      PROVE  Balanced(t, <<>>, front)
  <2> SUFFICES ASSUME NEW y \in Item
               PROVE  /\ count'[y] - count[y] = Change(t, <<>>, front, y)
                      /\ y \notin Added => holds'[t][y] = holds[t][y]
                      /\ InFrame(t, y)' <= InFrame(t, y)
    BY <1>3, <1>5 DEF Balanced
  <2>1. InFrame(t, y)' = InFrame(t, y) /\ InFrame(t, y) \in {0, 1}
    BY <1>1, SameFrames
  <2>2. Total(Is("unpin", y), <<>>) = 0 /\ Total(Is("unpin", y), front) = 0
    BY <1>7
  <2>3. holds[t][y] \in Int /\ holds'[t][y] - holds[t][y] = IF y = x THEN -1 ELSE 0
    BY SMTT(30), <1>2, <1>3
  <2>4. count'[y] - count[y] = IF y = x THEN -1 ELSE 0
    BY <1>6, <1>7
  <2>5. holds'[t][y] \in Int
    BY <1>3
  <2>6. count'[y] - count[y] = Change(t, <<>>, front, y)
    BY <2>1, <2>2, <2>3, <2>4, <2>5 DEF Change
  <2> QED BY <1>3, <1>4, <1>7, <2>1, <2>6
<1>8. CASE x \notin Cached
  <2>1. forced
    BY <1>4, <1>8
  <2>2. /\ Replaces(t, <<>>, <<>>, todo[t]) /\ Todo' /\ LockSteps(<<>>)
    BY <1>1, <1>5, <1>8, NoCall
  <2>3. forced'
    BY <1>1, <2>1
  <2> QED BY <1>1, <1>2, <1>3, <1>5, <1>6, <2>2, <2>3, LockStep
<1>9. CASE x \in Cached
  <2>1. PICK front : front = AfterUnlock(x)
    OBVIOUS
  <2>2. /\ front \in Seq(Step)
        /\ \A i \in DOMAIN front : front[i].op \in {"limitBytes", "limitItems", "ensure"}
    BY <2>1, AfterUnlockSteps
  <2>3. /\ LockSteps(front) /\ \A y : Total(Is("unpin", y), front) = 0
        /\ \A i \in DOMAIN front : front[i].op \notin {"insert", "unpin", "link", "resize", "setSize"}
        /\ \A i \in DOMAIN front : front[i].op \in Quick
    BY <2>2, RoomOnly
  <2>4. Replaces(t, <<>>, front, <<>>)
    BY <1>1, <1>9, <2>1, <2>2, StartStep
  <2>5. /\ <<>> \in Seq(Step) /\ LockSteps(<<>>)
        /\ \A i \in DOMAIN <<>> : <<>>[i].op \notin {"insert", "unpin"}
    BY ShortLists DEF LockSteps
  <2>6. \A y : Total(Is("unpin", y), <<>>) = 0
    BY <2>5, CountsNone
  <2>7. Todo'
    <3>1. Added' = Added /\ Todo
      BY <1>1 DEF Added, Inv
    <3>2. \A u \in Thread : frame'[u].depth = frame[u].depth
      BY <1>5
    <3> QED BY <1>1, <2>3, <2>4, <2>5, <3>1, <3>2, TodoPlain
  <2>8. ~forced' => ~forced /\ ~crashed' /\ Balanced(t, <<>>, front)
    BY <1>1, <1>7, <1>9, <2>3, <2>6
  <2> QED BY <1>1, <1>2, <1>3, <1>5, <1>6, <2>3, <2>4, <2>5, <2>7, <2>8, LockStep
<1> QED BY <1>8, <1>9

\* A function on the first numbers is a sequence.
LEMMA Enumerated ==
  ASSUME NEW n \in Nat, NEW q, q = [i \in 1 .. n |-> q[i]], NEW A, \A i \in 1 .. n : q[i] \in A
  PROVE  q \in Seq(A) /\ Len(q) = n /\ DOMAIN q = 1 .. n
<1>1. q \in [1 .. n -> A]
  OBVIOUS
<1>2. q \in Seq(A)
  BY <1>1, SeqDef
<1> QED BY <1>2, LenProperties

\* q is flattened in g, one list after the other.
IsFlat(g, n, q) == g = [i \in 1 .. n |-> IF i = 1 THEN q[i] ELSE g[i - 1] \o q[i]]

\* There is one for every number of lists.
LEMMA FlatExists ==
  ASSUME NEW n \in Nat, NEW q
  PROVE  \E g : IsFlat(g, n, q)
<1> DEFINE Bad == {k \in 0 .. n : ~\E g : IsFlat(g, k, q)}
<1> SUFFICES ASSUME Bad # {} PROVE FALSE
  BY DEF Bad
<1>0. Bad \in SUBSET Nat
  OBVIOUS
<1>1. PICK k \in Bad : \A d \in Bad : k <= d
  <2> HIDE DEF Bad
  <2> QED BY <1>0, LeastNumber
<1>2. k \in 0 .. n /\ ~\E g : IsFlat(g, k, q)
  BY <1>1
<1>3. CASE k = 0
  <2> DEFINE g == [j \in 1 .. 0 |-> <<>>]
  <2>1. 1 .. 0 = {}
    OBVIOUS
  <2>2. IsFlat(g, 0, q)
    BY <2>1 DEF IsFlat
  <2> QED BY <1>2, <1>3, <2>2
<1>4. CASE k # 0
  <2>1. k - 1 \in 0 .. n /\ ~(k <= k - 1)
    BY <1>2, <1>4
  <2>2. PICK g : IsFlat(g, k - 1, q)
    BY <1>1, <2>1
  <2> DEFINE last == IF k = 1 THEN q[k] ELSE g[k - 1] \o q[k]
             h == [j \in 1 .. k |-> IF j = k THEN last ELSE g[j]]
  <2>3. \A j \in 1 .. k - 1 : g[j] = IF j = 1 THEN q[j] ELSE g[j - 1] \o q[j]
    BY <2>2 DEF IsFlat
  <2>4. \A j \in 1 .. k - 1 : j \in 1 .. k /\ j # k /\ h[j] = g[j]
    BY <1>2
  <2>5. \A j \in 1 .. k : /\ j # k => j \in 1 .. k - 1
                          /\ j # 1 => j - 1 \in 1 .. k - 1
    BY <1>2
  <2>6. k \in 1 .. k /\ h[k] = last
    BY <1>2, <1>4
  <2> HIDE DEF h
  <2>7. \A j \in 1 .. k : h[j] = IF j = 1 THEN q[j] ELSE h[j - 1] \o q[j]
    <3>1. \A j \in 1 .. k : j # k => h[j] = IF j = 1 THEN q[j] ELSE h[j - 1] \o q[j]
      BY <2>3, <2>4, <2>5
    <3>2. h[k] = IF k = 1 THEN q[k] ELSE h[k - 1] \o q[k]
      BY <2>4, <2>5, <2>6
    <3> QED BY <3>1, <3>2
  <2>8. h = [j \in 1 .. k |-> h[j]]
    BY DEF h
  <2>9. IsFlat(h, k, q)
    BY <2>7, <2>8 DEF IsFlat
  <2> QED BY <1>2, <2>9
<1> QED BY <1>3, <1>4

\* Lists of elements of B, one after the other, are one.
LEMMA Flattened ==
  ASSUME NEW B, NEW q \in Seq(Seq(B))
  PROVE  FlattenSeq(q) \in Seq(B)
<1> DEFINE n == Len(q)
<1>1. n \in Nat /\ \A i \in 1 .. n : q[i] \in Seq(B)
  BY LenProperties, ElementOfSeq
<1>2. CASE n = 0
  <2>1. FlattenSeq(q) = q
    BY <1>2 DEF FlattenSeq
  <2>2. q = <<>>
    BY <1>2, EmptySeq
  <2> QED BY <2>1, <2>2, EmptySeq
<1>3. CASE n # 0
  <2> DEFINE g == CHOOSE f : IsFlat(f, n, q)
  <2>1. FlattenSeq(q) = g[n]
    BY <1>3 DEF FlattenSeq, IsFlat
  <2>2. IsFlat(g, n, q)
    BY <1>1, FlatExists
  <2> HIDE DEF g
  <2>3. \A i \in 1 .. n : g[i] = IF i = 1 THEN q[i] ELSE g[i - 1] \o q[i]
    BY <2>2 DEF IsFlat
  <2> HIDE DEF n
  <2> DEFINE Bad == {k \in 1 .. n : g[k] \notin Seq(B)}
  <2>4. Bad = {}
    <3> SUFFICES ASSUME Bad # {} PROVE FALSE
      OBVIOUS
    <3>1. Bad \in SUBSET Nat
      OBVIOUS
    <3>2. PICK k \in Bad : \A d \in Bad : k <= d
      <4> HIDE DEF Bad
      <4> QED BY <3>1, LeastNumber
    <3>3. k \in 1 .. n /\ g[k] \notin Seq(B) /\ q[k] \in Seq(B)
      BY <1>1, <3>2
    <3>4. CASE k = 1
      BY <2>3, <3>3, <3>4
    <3>5. CASE k # 1
      <4>1. k - 1 \in 1 .. n /\ ~(k <= k - 1)
        BY <1>1, <3>3, <3>5
      <4>2. g[k - 1] \in Seq(B)
        BY <3>2, <4>1
      <4>3. g[k] = g[k - 1] \o q[k]
        BY <2>3, <3>3, <3>5
      <4> QED BY <3>3, <4>2, <4>3, ConcatProperties
    <3> QED BY <3>4, <3>5
  <2>5. n \in 1 .. n
    BY <1>1, <1>3
  <2> QED BY <2>1, <2>4, <2>5
<1> QED BY <1>2, <1>3

\* What is done after unlocks of several items: room is made.
LEMMA AfterUnlocks ==
  ASSUME NEW list \in Seq(Item), NEW front,
         front = FlattenSeq([i \in DOMAIN list |-> AfterUnlock(list[i])])
  PROVE  /\ front \in Seq(Step)
         /\ \A i \in DOMAIN front : front[i].op \in {"limitBytes", "limitItems", "ensure"}
<1> DEFINE B == {s \in Step : s.op \in {"limitBytes", "limitItems", "ensure"}}
           q == [i \in DOMAIN list |-> AfterUnlock(list[i])]
           n == Len(list)
<1>1. DOMAIN list = 1 .. n /\ n \in Nat
  BY LenProperties
<1>2. ASSUME NEW x PROVE AfterUnlock(x) \in Seq(B)
  <2>1. PICK s : s = AfterUnlock(x)
    OBVIOUS
  <2>2. s \in Seq(Step) /\ \A i \in DOMAIN s : s[i].op \in {"limitBytes", "limitItems", "ensure"}
    BY <2>1, AfterUnlockSteps
  <2>3. Len(s) \in Nat /\ DOMAIN s = 1 .. Len(s) /\ s \in [1 .. Len(s) -> Step]
    BY <2>2, LenProperties
  <2>4. \A i \in 1 .. Len(s) : s[i] \in B
    BY <2>2, <2>3
  <2>5. s = [i \in 1 .. Len(s) |-> s[i]]
    BY <2>3
  <2> HIDE DEF B
  <2> QED BY <2>1, <2>3, <2>4, <2>5, Enumerated
<1>3. q \in Seq(Seq(B))
  <2>1. q = [i \in 1 .. n |-> q[i]] /\ \A i \in 1 .. n : q[i] \in Seq(B)
    BY <1>1, <1>2
  <2> HIDE DEF q, n, B
  <2> QED BY <1>1, <2>1, Enumerated
<1>4. front \in Seq(B)
  <2>1. front = FlattenSeq(q)
    OBVIOUS
  <2> HIDE DEF q, B
  <2> QED BY <1>3, <2>1, Flattened
<1>5. front \in Seq(Step)
  <2>1. B \subseteq Step
    OBVIOUS
  <2> HIDE DEF B
  <2> QED BY <1>4, <2>1, SeqMonotonic
<1>6. \A i \in DOMAIN front : front[i] \in B
  <2> HIDE DEF B
  <2> QED BY <1>4, LenProperties, ElementOfSeq
<1> QED BY <1>5, <1>6

\* Nothing to do is good whatever there is.
LEMMA NothingReady ==
  \A added, depth : Ready(<<>>, added, depth) /\ Ready(<<>> \o <<>>, added, depth)
<1>1. \A i \in DOMAIN <<>> : FALSE
  OBVIOUS
<1>2. \A op, x : Total(Is(op, x), <<>>) = 0
  BY <1>1, ShortLists, CountsNone
<1>3. <<>> \o <<>> = <<>>
  OBVIOUS
<1>4. \A added, depth : Ready(<<>>, added, depth)
  BY <1>1, <1>2 DEF Ready, Ordered, Followed, Announced
<1> QED BY <1>3, <1>4

\* An inner EndFrameLocking.
LEMMA EndInnerKeeps ==
  ASSUME Inv, NEW t \in Thread, EndFrameLocking(t), frame[t].depth > 1
  PROVE  Inv'
<1>1. /\ Types /\ ~crashed /\ todo[t] = <<>>
      /\ frame' = [frame EXCEPT ![t].depth = @ - 1]
      /\ UNCHANGED <<lru, count, used, size, statusVars, inFlush, todo, discards, holds, forced,
                     crashed, crossed>>
  BY DEF EndFrameLocking, IsIdle, Inv
<1>2. /\ frame[t].depth \in 0 .. MaxDepth /\ frame[t].list \in Seq(Item)
      /\ frame'[t] = [depth |-> frame[t].depth - 1, list |-> frame[t].list]
      /\ \A u \in Thread : u # t => frame'[u] = frame[u]
  BY <1>1 DEF Types
<1>3. frame' \in [Thread -> [depth : 0 .. MaxDepth, list : Seq(Item)]]
  <2>1. frame[t].depth - 1 \in 0 .. MaxDepth
    BY <1>2, Constants
  <2> QED BY <1>1, <1>2, <2>1 DEF Types
<1>4. /\ frame'[t].depth = frame[t].depth - 1 /\ frame'[t].list = frame[t].list
      /\ frame'[t].depth # 0 /\ frame[t].depth # 0
  BY <1>2
<1>5. FramesInUse' = FramesInUse
  <2>1. NoFrame.depth = 0
    BY DEF NoFrame
  <2>2. frame'[t] # NoFrame /\ frame[t] # NoFrame
    BY <1>4, <2>1
  <2> QED BY <1>2, <2>2 DEF FramesInUse
<1>6. Frames'
  <2>1. ASSUME NEW u \in Thread
        PROVE  Distinct(frame'[u].list) /\ (frame'[u].depth = 0 => frame'[u].list = <<>>)
    BY <1>2, <1>4 DEF Inv, Lists
  <2> QED BY <1>3, <1>5, <2>1 DEF Frames, Inv, Lists
<1>7. \A u \in Thread : todo[u] # <<>> => frame'[u].depth = frame[u].depth
  BY <1>1, <1>2
<1>8. /\ Replaces(t, <<>>, <<>>, todo[t]) /\ Todo' /\ LockSteps(<<>>)
      /\ \A y : Total(Is("unpin", y), <<>>) = 0
  BY <1>1, <1>7, NoCall
<1>9. Relisted
  BY <1>1, NotRelisted
<1>10. /\ holds' \in [Thread -> [Item -> Nat]]
       /\ forced' \in BOOLEAN /\ crashed' \in BOOLEAN
  BY <1>1 DEF Types
<1>11. Balanced(t, <<>>, <<>>)
  <2> SUFFICES ASSUME NEW y \in Item
               PROVE  /\ count'[y] - count[y] = Change(t, <<>>, <<>>, y)
                      /\ holds'[t][y] = holds[t][y] /\ InFrame(t, y)' <= InFrame(t, y)
    BY <1>1, <1>2 DEF Balanced
  <2>1. Total(Is("unpin", y), <<>>) = 0
    BY <1>8
  <2>2. InFrame(t, y)' = InFrame(t, y) /\ InFrame(t, y) \in {0, 1}
    BY <1>4 DEF InFrame
  <2>3. /\ holds[t][y] \in Int /\ count[y] \in Int
        /\ holds'[t][y] = holds[t][y] /\ count'[y] = count[y]
    BY <1>1 DEF Types
  <2> QED BY <2>1, <2>2, <2>3 DEF Change
<1> QED BY <1>1, <1>6, <1>8, <1>9, <1>10, <1>11, LockStep

\* A thread gives up its frame.
LEMMA FrameEnds ==
  ASSUME Inv, NEW t \in Thread, frame' = [frame EXCEPT ![t] = NoFrame]
  PROVE  /\ Frames' /\ \A u \in Thread : u # t => frame'[u] = frame[u]
         /\ \A y : InFrame(t, y)' = 0
<1>1. Types /\ Lists
  BY DEF Inv
<1>2. /\ frame'[t] = NoFrame /\ \A u \in Thread : u # t => frame'[u] = frame[u]
      /\ NoFrame.depth = 0 /\ NoFrame.list = <<>>
  BY <1>1 DEF Types, NoFrame
<1>3. <<>> \in Seq(Item) /\ ToSet(<<>>) = {} /\ Distinct(<<>>)
  BY ShortLists
<1>4. frame' \in [Thread -> [depth : 0 .. MaxDepth, list : Seq(Item)]]
  <2>1. NoFrame \in [depth : 0 .. MaxDepth, list : Seq(Item)]
    BY <1>3, Constants DEF NoFrame
  <2> QED BY <1>1, <2>1 DEF Types
<1>5. Cardinality(FramesInUse') <= Slots
  <2>1. FramesInUse' \subseteq FramesInUse
    BY <1>2 DEF FramesInUse
  <2>2. IsFiniteSet(FramesInUse)
    BY Constants, FS_Subset DEF FramesInUse
  <2>3. Cardinality(FramesInUse') <= Cardinality(FramesInUse) /\ IsFiniteSet(FramesInUse')
    BY <2>1, <2>2, FS_Subset
  <2>4. Cardinality(FramesInUse') \in Nat /\ Cardinality(FramesInUse) \in Nat
    BY <2>2, <2>3, FS_CardinalityType
  <2>5. Cardinality(FramesInUse) <= Slots
    BY <1>1 DEF Lists
  <2> QED BY <2>3, <2>4, <2>5, Constants
<1>6. ASSUME NEW u \in Thread
      PROVE  Distinct(frame'[u].list) /\ (frame'[u].depth = 0 => frame'[u].list = <<>>)
  <2>1. CASE u = t
    BY <1>2, <1>3, <2>1
  <2>2. CASE u # t
    BY <1>1, <1>2, <2>2 DEF Lists
  <2> QED BY <2>1, <2>2
<1>7. Frames'
  BY <1>4, <1>5, <1>6 DEF Frames
<1>8. \A y : InFrame(t, y)' = 0
  BY <1>2, <1>3 DEF InFrame
<1> QED BY <1>2, <1>7, <1>8

\* The items of a list are unlocked, together.
LEMMA UnlockedTogether ==
  ASSUME Inv, NEW list \in Seq(Item), Distinct(list), NEW freed,
         freed = Without(list, {x \in Item : count[x] > 1}),
         count' = [x \in Item |-> IF x \in ToSet(list) /\ count[x] > 0
                                  THEN count[x] - 1 ELSE count[x]],
         lru' = lru \o Without(freed, Item \ Locked)
  PROVE  Relisted /\ freed \in Seq(Item)
<1>1. /\ lru \in Seq(Item) /\ count \in [Item -> Nat] /\ Distinct(lru)
      /\ ToSet(lru) \cap Locked = {} /\ ToSet(lru) \subseteq Item
  BY CachedItems DEF Inv, Types, Lists
<1>2. PICK many : many = {x \in Item : count[x] > 1}
  OBVIOUS
<1>3. /\ freed \in Seq(Item) /\ Distinct(freed)
      /\ ToSet(freed) = ToSet(list) \ many
  BY <1>2, WithoutKeeps
<1>4. PICK free : free = Item \ Locked
  OBVIOUS
<1>5. PICK last : last = Without(freed, free)
  OBVIOUS
<1>6. /\ last \in Seq(Item) /\ Distinct(last) /\ ToSet(last) = ToSet(freed) \ free
      /\ lru' = lru \o last
  BY <1>3, <1>4, <1>5, WithoutKeeps
<1>7. \A x \in ToSet(list) : x \in Item
  BY LenProperties, ElementOfSeq DEF ToSet
<1>8. \A x \in Item : x \in ToSet(last) <=> x \in ToSet(list) /\ count[x] = 1
  <2> SUFFICES ASSUME NEW x \in Item
               PROVE  x \in ToSet(last) <=> x \in ToSet(list) /\ count[x] = 1
    OBVIOUS
  <2>1. count[x] \in Nat /\ (x \in many <=> count[x] > 1) /\ (x \in free <=> ~(count[x] > 0))
    BY <1>1, <1>2, <1>4 DEF Locked
  <2>2. x \in ToSet(last) <=> x \in ToSet(list) /\ x \notin many /\ x \notin free
    BY <1>3, <1>6
  <2>3. count[x] = 1 <=> ~(count[x] > 1) /\ count[x] > 0
    BY <2>1
  <2> QED BY <2>1, <2>2, <2>3
<1>9. ToSet(last) \subseteq Item
  BY <1>3, <1>6, <1>7
<1>10. \A x \in Item : /\ count'[x] \in Nat
                       /\ count'[x] > 0 <=> count[x] > 0 /\ x \notin ToSet(last)
  BY <1>1, <1>8
<1>11. count' \in [Item -> Nat]
  BY <1>1
<1>12. Locked' = Locked \ ToSet(last)
  BY <1>10 DEF Locked
<1>13. ToSet(last) \subseteq Locked
  BY <1>1, <1>8, <1>9 DEF Locked
<1>14. /\ lru' \in Seq(Item) /\ ToSet(lru') = ToSet(lru) \cup ToSet(last) /\ Distinct(lru')
  <2>1. /\ ToSet(lru) \cap ToSet(last) = {}
        /\ lru \in Seq(Item) /\ Distinct(lru) /\ last \in Seq(Item) /\ Distinct(last)
    BY <1>1, <1>6, <1>13
  <2>2. /\ lru \o last \in Seq(Item) /\ ToSet(lru \o last) = ToSet(lru) \cup ToSet(last)
        /\ Distinct(lru \o last)
    BY <2>1, Concatenated
  <2> QED BY <1>6, <2>2
<1>15. ToSet(lru') \cap Locked' = {} /\ Cached' = Cached
  BY <1>1, <1>12, <1>13, <1>14 DEF Cached
<1> QED BY <1>3, <1>11, <1>14, <1>15 DEF Relisted

\* The outermost EndFrameLocking.
LEMMA EndOuterKeeps ==
  ASSUME Inv, NEW t \in Thread, EndFrameLocking(t), ~(frame[t].depth > 1)
  PROVE  Inv'
<1> DEFINE list == frame[t].list
           items == ToSet(list)
           freed == Without(list, {x \in Item : count[x] > 1})
<1>1. /\ Types /\ ~crashed /\ todo[t] = <<>>
      /\ frame' = [frame EXCEPT ![t] = NoFrame]
      /\ UNCHANGED <<used, size, statusVars, inFlush, discards, holds, forced, crossed>>
      /\ crashed' = ~(items \subseteq Cached)
      /\ items \subseteq Cached =>
           /\ count' = [x \in Item |-> IF x \in items /\ count[x] > 0
                                       THEN count[x] - 1 ELSE count[x]]
           /\ lru' = lru \o Without(freed, Item \ Locked)
           /\ Calls(t, FlattenSeq([i \in DOMAIN freed |-> AfterUnlock(freed[i])]))
      /\ ~(items \subseteq Cached) => UNCHANGED <<lru, count, todo>>
  BY DEF EndFrameLocking, IsIdle, Inv
<1>2. list \in Seq(Item) /\ Distinct(list) /\ \A y \in items : y \in Item
  <2>1. list \in Seq(Item) /\ Distinct(list)
    BY <1>1 DEF Types, Inv, Lists
  <2> QED BY <2>1, LenProperties, ElementOfSeq DEF ToSet
<1>3. \A y : InFrame(t, y) = IF y \in items THEN 1 ELSE 0
  BY DEF InFrame
<1>4. ~forced => \A y \in items : y \in Added /\ count[y] > 0 /\ y \in Cached
  <2> SUFFICES ASSUME ~forced, NEW y \in Item, y \in items
               PROVE  y \in Added /\ count[y] > 0 /\ y \in Cached
    BY <1>2
  <2>1. Kept(y)
    BY DEF Inv, Safe
  <2>2. y \in Added
    BY <2>1 DEF Kept
  <2>3. /\ holds[t][y] \in Nat /\ Total(Is("unpin", y), todo[t]) \in Nat
        /\ InFrame(t, y) = 1
        /\ holds[t][y] + Total(Is("unpin", y), todo[t]) + InFrame(t, y) <= count[y]
    BY <1>1, <1>3, <2>1, <2>2, ShareCounted
  <2>4. count[y] \in Nat
    BY <1>1 DEF Types
  <2>5. count[y] > 0
    BY <2>3, <2>4
  <2> QED BY <2>2, <2>5 DEF Cached, Locked
<1>5. freed = Without(list, {x \in Item : count[x] > 1})
  OBVIOUS
<1> HIDE DEF list, items, freed
<1>6. /\ Frames' /\ \A u \in Thread : u # t => frame'[u] = frame[u]
      /\ \A y : InFrame(t, y)' = 0
  BY <1>1, FrameEnds
<1>7. /\ holds' \in [Thread -> [Item -> Nat]]
      /\ forced' \in BOOLEAN /\ crashed' \in BOOLEAN
      /\ \A y \in Item : count[y] \in Nat /\ holds[t][y] \in Int
  <2>1. holds' \in [Thread -> [Item -> Nat]] /\ forced' \in BOOLEAN
    BY <1>1 DEF Types
  <2>2. \A y \in Item : count[y] \in Nat /\ holds[t][y] \in Int
    BY <1>1 DEF Types
  <2>3. crashed' \in BOOLEAN
    BY <1>1
  <2> QED BY <2>1, <2>2, <2>3
<1>8. CASE ~(items \subseteq Cached)
  <2>1. forced' /\ UNCHANGED <<lru, count, todo, size>>
    BY <1>1, <1>4, <1>8
  <2>2. \A u \in Thread : todo[u] # <<>> => frame'[u].depth = frame[u].depth
    BY <1>1, <1>6
  <2>3. Replaces(t, <<>>, <<>>, todo[t]) /\ Todo' /\ LockSteps(<<>>)
    BY <2>1, <2>2, NoCall
  <2>4. Relisted
    BY <2>1, NotRelisted
  <2> QED BY <1>1, <1>6, <1>7, <2>1, <2>3, <2>4, LockStep
<1>9. CASE items \subseteq Cached
  <2>1. /\ count' = [x \in Item |-> IF x \in items /\ count[x] > 0
                                    THEN count[x] - 1 ELSE count[x]]
        /\ lru' = lru \o Without(freed, Item \ Locked)
        /\ Calls(t, FlattenSeq([i \in DOMAIN freed |-> AfterUnlock(freed[i])]))
    BY <1>1, <1>9
  <2>2. Relisted /\ freed \in Seq(Item)
    BY <1>2, <1>5, <2>1, UnlockedTogether DEF items
  <2>3. PICK front : front = FlattenSeq([i \in DOMAIN freed |-> AfterUnlock(freed[i])])
    OBVIOUS
  <2>4. /\ front \in Seq(Step)
        /\ \A i \in DOMAIN front : front[i].op \in {"limitBytes", "limitItems", "ensure"}
    BY <2>2, <2>3, AfterUnlocks
  <2>5. /\ LockSteps(front) /\ \A y : Total(Is("unpin", y), front) = 0
        /\ \A i \in DOMAIN front : front[i].op \notin {"insert", "unpin", "link", "resize", "setSize"}
        /\ \A i \in DOMAIN front : front[i].op \in Quick
    BY <2>4, RoomOnly
  <2>6. Replaces(t, <<>>, front, <<>>)
    BY <1>1, <2>1, <2>3, <2>4, StartStep
  <2>7. /\ <<>> \in Seq(Step) /\ LockSteps(<<>>)
        /\ \A i \in DOMAIN <<>> : FALSE
    BY ShortLists DEF LockSteps
  <2>8. \A op, y : Total(Is(op, y), <<>>) = 0
    BY <2>7, CountsNone
  <2>9. Todo'
    <3>1. Added' = Added /\ Todo
      BY <1>1 DEF Added, Inv
    <3>2. Ready(<<>> \o <<>>, Added, frame'[t].depth)
      BY NothingReady
    <3>3. \A y \in Item \ Added : Total(Is("unpin", y), <<>>) = Total(Is("insert", y), <<>>)
      BY <2>8
    <3>4. Ready(front \o <<>>, Added, frame'[t].depth)
      BY <2>4, <2>5, <2>7, <3>2, <3>3, PlainReady
    <3> QED BY <1>1, <1>6, <2>6, <3>1, <3>4, TodoKept
  <2>10. ASSUME ~forced PROVE Balanced(t, <<>>, front)
    <3>1. ASSUME NEW y \in Item
          PROVE  /\ count'[y] - count[y] = Change(t, <<>>, front, y)
                 /\ holds'[t][y] = holds[t][y] /\ InFrame(t, y)' <= InFrame(t, y)
      <4>1. Total(Is("unpin", y), <<>>) = 0 /\ Total(Is("unpin", y), front) = 0
        BY <2>5, <2>8
      <4>2. holds[t][y] \in Int /\ holds'[t][y] = holds[t][y] /\ count[y] \in Nat
        BY <1>1, <1>7
      <4>3. InFrame(t, y)' = 0 /\ InFrame(t, y) = IF y \in items THEN 1 ELSE 0
        BY <1>3, <1>6
      <4>4. count'[y] = IF y \in items THEN count[y] - 1 ELSE count[y]
        BY <1>4, <2>1, <2>10
      <4> QED BY <4>1, <4>2, <4>3, <4>4 DEF Change
    <3> QED BY <1>1, <1>6, <3>1 DEF Balanced
  <2>11. ~forced' => ~forced /\ ~crashed' /\ Balanced(t, <<>>, front)
    BY <1>1, <1>9, <2>10
  <2> QED BY <1>1, <1>6, <1>7, <2>2, <2>5, <2>6, <2>7, <2>9, <2>11, LockStep
<1> QED BY <1>8, <1>9

\* EndFrameLocking.
LEMMA EndFrameLockingKeeps ==
  ASSUME Inv, NEW t \in Thread, EndFrameLocking(t)
  PROVE  Inv'
BY EndInnerKeeps, EndOuterKeeps

-----------------------------------------------------------------------------
(* Items leave *)

\* Steps that neither insert an item nor go with a lock on it.
FreeSteps(s) == \A i \in DOMAIN s : s[i].op \notin {"insert", "unpin", "link", "resize", "setSize"}

\* Items leave the cache: they are discarded or are to be destroyed, and that is noted or will be.
Leaves(items, cur, front) ==
  /\ items \subseteq Cached /\ Cached' = Cached \ items
  /\ \A x \in Item :
       Total(Is("destroy", x), front) + discards'[x]
         = (Total(Is("destroy", x), cur) + discards[x]) + (IF x \in items THEN 1 ELSE 0)
  /\ \A f \in Field :
       Total(Owes(f), front) - Total(Owes(f), cur) = -SumFunctionOnSet(Value(f), items)

\* The locks stay what they are.
SameShares(t) ==
  /\ \A u \in Thread : u # t => frame'[u] = frame[u]
  /\ \A x \in Item : count'[x] = count[x] /\ InFrame(t, x)' = InFrame(t, x)

\* A step after which some items are not cached any more.
LEMMA LeaveStep ==
  ASSUME Inv, NEW t \in Thread, NEW cur, NEW front, NEW rest,
         Replaces(t, cur, front, rest), ~crashed,
         UNCHANGED <<size, own, all, holds, crashed, crossed>>, NEW items, Leaves(items, cur, front),
         lru' \in Seq(Item), count' \in [Item -> Nat], Distinct(lru'),
         ToSet(lru') \cap Locked' = {}, Frames',
         \A u \in Thread : frame'[u].depth = frame[u].depth,
         used' \in 0 .. WordMod - 1, inFlush' \in BOOLEAN, forced' \in BOOLEAN,
         discards' \in [Item -> Nat], FreeSteps(cur), FreeSteps(front),
         \/ \A i \in DOMAIN front : front[i].op \in Quick
         \/ \E i \in DOMAIN cur : cur[i].op \notin Quick
         \/ rest = <<>>,
         ~forced' => ~forced /\ SameShares(t)
  PROVE  Inv'
<1>1. Types /\ Noted /\ Todo /\ \A x \in Item : Life(x)
  BY DEF Inv
<1>2. cur \in Seq(Step) /\ front \in Seq(Step) /\ rest \in Seq(Step)
  BY DEF Replaces
<1>3. Types'
  <2>1. todo' \in [Thread -> Seq(Step)]
    BY <1>1, ListTypes
  <2> QED BY <1>1, <2>1 DEF Types, Frames
<1>4. Lists'
  BY DEF Lists, Frames
<1>5. Added' = Added
  BY DEF Added
<1>6. /\ \A i \in DOMAIN cur : cur[i].op \notin {"insert", "unpin"}
      /\ \A i \in DOMAIN front : front[i].op \notin {"insert", "unpin", "link", "resize", "setSize"}
      /\ \A i \in DOMAIN front : front[i].op \notin {"insert", "unpin"}
  BY DEF FreeSteps
<1>7. Todo'
  BY <1>1, <1>5, <1>6, TodoPlain
<1>8. \A x : /\ Total(Is("insert", x), front) = 0 /\ Total(Is("insert", x), cur) = 0
             /\ Total(Is("unpin", x), front) = 0 /\ Total(Is("unpin", x), cur) = 0
  BY <1>2, <1>6, CountsNone
<1>9. ASSUME NEW x \in Item PROVE Life(x)'
  <2>1. /\ Life(x) /\ discards'[x] \in Nat /\ discards[x] \in Nat
        /\ (x \in Added)' <=> x \in Added
        /\ (x \in Cached)' <=> x \in Cached /\ x \notin items
        /\ x \in items => x \in Cached
    BY <1>1, <1>5 DEF Types, Leaves
  <2>2. Total(Is("insert", x), front) = Total(Is("insert", x), cur)
    BY <1>8
  <2>3. Total(Is("destroy", x), front) \in Int /\ Total(Is("destroy", x), cur) \in Int
    <3>1. \A s \in Step : Is("destroy", x)[s] \in Int
      BY IsType
    <3> QED BY <1>2, <3>1, TotalOf
  <2>4. Total(Is("destroy", x), front) + discards'[x]
          = (Total(Is("destroy", x), cur) + discards[x]) + (IF x \in items THEN 1 ELSE 0)
    BY DEF Leaves
  <2>5. (IF (x \in Cached)' THEN 1 ELSE 0) + Total(Is("destroy", x), front) + discards'[x]
          = (IF x \in Cached THEN 1 ELSE 0) + Total(Is("destroy", x), cur) + discards[x]
    <3>1. PICK a \in Int, b \in Int, d \in Int, e \in Int :
            /\ a = Total(Is("destroy", x), front) /\ b = Total(Is("destroy", x), cur)
            /\ d = discards[x] /\ e = discards'[x]
      BY <2>1, <2>3
    <3>2. a + e = (b + d) + (IF x \in items THEN 1 ELSE 0)
      BY <2>4, <3>1
    <3>3. CASE x \in items
      <4>1. (IF (x \in Cached)' THEN 1 ELSE 0) = 0 /\ (IF x \in Cached THEN 1 ELSE 0) = 1
        BY <2>1, <3>3
      <4>2. 0 + a + e = 1 + b + d
        BY <3>2, <3>3
      <4> QED BY <3>1, <4>1, <4>2
    <3>4. CASE x \notin items
      <4>1. PICK c \in Int : c = IF x \in Cached THEN 1 ELSE 0
        OBVIOUS
      <4>2. (IF (x \in Cached)' THEN 1 ELSE 0) = c
        BY <2>1, <3>4, <4>1
      <4>3. c + a + e = c + b + d
        BY <3>2, <3>4
      <4> QED BY <3>1, <4>1, <4>2, <4>3
    <3> QED BY <3>3, <3>4
  <2> QED BY <1>1, <2>1, <2>2, <2>5, LifeKept
<1>10. Noted'
  <2> SUFFICES ASSUME NEW f \in Field
               PROVE  \E k \in Int :
                        /\ all'[f] % WordMod = (all[f] + k) % WordMod
                        /\ k + (Total(Owes(f), front) - Total(Owes(f), cur))
                             = SumFunctionOnSet(Value(f), Cached')
                                 - SumFunctionOnSet(Value(f), Cached)
    BY <1>1, <1>3, NotedKept
  <2>1. /\ IsFiniteSet(Cached) /\ Cached \subseteq Item
        /\ SumFunctionOnSet(Value(f), Cached) \in Int
    BY <1>1, CachedItems
  <2>2. \A x \in Cached : Value(f)[x] \in Int
    BY <1>1, <2>1, OwesType
  <2>3. SumFunctionOnSet(Value(f), Cached)
          = SumFunctionOnSet(Value(f), items) + SumFunctionOnSet(Value(f), Cached \ items)
    BY <2>1, <2>2, SumParts DEF Leaves
  <2>4. /\ Cached' = Cached \ items
        /\ Total(Owes(f), front) - Total(Owes(f), cur) = -SumFunctionOnSet(Value(f), items)
    BY DEF Leaves
  <2>5. /\ SumFunctionOnSet(Value(f), items) \in Int
        /\ SumFunctionOnSet(Value(f), Cached') \in Int
    <3>1. IsFiniteSet(items) /\ IsFiniteSet(Cached') /\ items \subseteq Cached
          /\ Cached' \subseteq Cached
      BY <2>1, FS_Subset DEF Leaves
    <3>2. \A x \in items : Value(f)[x] \in Int
      BY <2>2, <3>1
    <3>3. \A x \in Cached' : Value(f)[x] \in Int
      BY <2>2, <3>1
    <3> QED BY <3>1, <3>2, <3>3, SumInt
  <2>6. 0 + (Total(Owes(f), front) - Total(Owes(f), cur))
          = SumFunctionOnSet(Value(f), Cached') - SumFunctionOnSet(Value(f), Cached)
    BY <2>1, <2>3, <2>4, <2>5
  <2>7. all'[f] % WordMod = (all[f] + 0) % WordMod
    BY <1>1 DEF Types, Status
  <2> QED BY <2>6, <2>7
<1>11. Safe'
  <2> SUFFICES ASSUME ~forced' PROVE ~crashed' /\ \A x \in Item : Kept(x)'
    BY DEF Safe
  <2> SUFFICES ASSUME NEW x \in Item PROVE Kept(x)'
    OBVIOUS
  <2>1. Kept(x) /\ SameShares(t)
    BY DEF Inv, Safe
  <2>2. \A u \in Thread : u # t => holds'[u][x] = holds[u][x] /\ frame'[u] = frame[u]
    BY <2>1 DEF SameShares
  <2>3. count'[x] = count[x] /\ InFrame(t, x)' = InFrame(t, x) /\ holds'[t][x] = holds[t][x]
    BY <2>1 DEF SameShares
  <2>4. count[x] \in Int /\ holds[t][x] \in Int /\ InFrame(t, x) \in {0, 1}
    BY <1>1 DEF Types, InFrame
  <2>5. Total(Is("unpin", x), front) = 0 /\ Total(Is("unpin", x), cur) = 0
    BY <1>8
  <2>6. count'[x] - count[x] = (holds'[t][x] - holds[t][x])
          + (Total(Is("unpin", x), front) - Total(Is("unpin", x), cur))
          + (InFrame(t, x)' - InFrame(t, x))
    BY <2>3, <2>4, <2>5
  <2>7. InFrame(t, x)' <= InFrame(t, x)
    BY <2>3, <2>4
  <2>8. (x \in Added)' <=> x \in Added
    BY <1>5
  <2> QED BY <1>1, <1>3, <2>1, <2>2, <2>3, <2>6, <2>7, <2>8, LocksKept
<1> QED BY <1>3, <1>4, <1>7, <1>9, <1>10, <1>11 DEF Inv

\* The memory that items leave behind.
LEMMA UsedLess ==
  ASSUME Types, NEW items \in SUBSET Item
  PROVE  UsedWithout(items) \in 0 .. WordMod - 1
<1>1. IsFiniteSet(items) /\ \A x \in items : size[x] \in Nat
  BY Constants, FS_Subset DEF Types
<1>2. BytesOf(items) \in Nat
  BY <1>1, SumNat DEF BytesOf
<1>3. used \in Nat /\ used <= WordMod - 1 /\ WordMod \in Nat
  BY Constants DEF Types
<1> QED BY <1>2, <1>3 DEF UsedWithout

\* A step for each item of a list, that counts or owes what V says of the item.
LEMMA TotalMapped ==
  ASSUME NEW list \in Seq(Item), Distinct(list), NEW q, DOMAIN q = DOMAIN list,
         NEW W, NEW V, \A x \in Item : V[x] \in Int, \A i \in DOMAIN list : W[q[i]] = V[list[i]]
  PROVE  IsFiniteSet(ToSet(list)) /\ Total(W, q) = SumFunctionOnSet(V, ToSet(list))
<1> DEFINE f == [i \in DOMAIN q |-> W[q[i]]]
           g == [i \in DOMAIN list |-> V[list[i]]]
<1>1. f = g
  OBVIOUS
<1>2. Total(W, q) = Total(V, list)
  BY <1>1 DEF Total
<1>3. \A i, j \in DOMAIN list : list[i] = list[j] => i = j
  BY DEF Distinct
<1>4. /\ IsFiniteSet({list[i] : i \in DOMAIN list})
      /\ Total(V, list) = SumFunctionOnSet(V, {list[i] : i \in DOMAIN list})
  BY <1>3, TotalOfSet
<1> QED BY <1>2, <1>4 DEF ToSet

\* A step that destroys an item, or notes that it left, owes what the item counted for.
LEMMA OwedForItem ==
  ASSUME Types, NEW f \in Field, NEW x \in Item
  PROVE  /\ NoteRemove(x) \in Step /\ NoteRemove(x).op = "note"
         /\ Owes(f)[NoteRemove(x)] = -Value(f)[x]
         /\ Owes(f)[OnItem("destroy", x)] = -Value(f)[x]
         /\ Value(f)[x] \in Int
<1>1. size[x] \in Nat /\ -size[x] \in Int /\ -1 \in Int
  BY DEF Types
<1>2. /\ NoteRemove(x) = [op |-> "note", bytes |-> -size[x], items |-> -1]
      /\ NoteRemove(x) \in NoteStep
  BY <1>1 DEF NoteRemove, Note, NoteStep
<1>3. NoteRemove(x) \in Step
  BY <1>2, KindsAreSteps
<1>4. Owes(f)[NoteRemove(x)] = NoteRemove(x)[f]
  BY <1>2, <1>3 DEF Owes
<1>5. NoteRemove(x)[f] = -Value(f)[x]
  <2>1. CASE f = "bytes"
    <3>1. NoteRemove(x).bytes = -size[x] /\ Value(f) = size
      BY <1>2, <2>1 DEF Value
    <3> QED BY <2>1, <3>1
  <2>2. CASE f = "items"
    <3>1. NoteRemove(x).items = -1
      BY <1>2
    <3>2. Value(f) = [y \in Item |-> 1]
      BY <2>2 DEF Value
    <3> QED BY <2>2, <3>1, <3>2
  <2> QED BY <2>1, <2>2 DEF Field
<1>6. /\ OnItem("destroy", x) \in Step /\ OnItem("destroy", x).op = "destroy"
      /\ OnItem("destroy", x).item = x
  BY ItemSteps
<1>7. Owes(f)[OnItem("destroy", x)] = -Value(f)[x]
  BY <1>6 DEF Owes
<1>8. Value(f)[x] \in Int
  BY OwesType
<1> QED BY <1>2, <1>3, <1>4, <1>5, <1>7, <1>8

\* The steps that destroy the items of a list.
LEMMA DestroysList ==
  ASSUME Types, NEW list \in Seq(Item), Distinct(list)
  PROVE  /\ Destroys(list) \in Seq(Step)
         /\ \A i \in DOMAIN Destroys(list) : Destroys(list)[i].op = "destroy"
         /\ \A x \in Item : Total(Is("destroy", x), Destroys(list))
                              = IF x \in ToSet(list) THEN 1 ELSE 0
         /\ \A f \in Field :
              Total(Owes(f), Destroys(list)) = -SumFunctionOnSet(Value(f), ToSet(list))
<1> DEFINE q == Destroys(list)
           n == Len(list)
<1>1. n \in Nat /\ DOMAIN list = 1 .. n /\ \A i \in 1 .. n : list[i] \in Item
  BY LenProperties, ElementOfSeq
<1>2. q = [i \in 1 .. n |-> OnItem("destroy", list[i])]
  BY <1>1 DEF Destroys
<1> HIDE DEF q, n
<1>3. \A i \in 1 .. n : q[i] \in Step /\ q[i].op = "destroy" /\ q[i].item = list[i]
                        /\ q[i] = OnItem("destroy", list[i])
  BY <1>1, <1>2, ItemSteps
<1>4. q \in Seq(Step) /\ DOMAIN q = 1 .. n
  <2>1. q = [i \in 1 .. n |-> q[i]]
    BY <1>2
  <2> QED BY <1>1, <1>3, <2>1, Enumerated
<1>5. ASSUME NEW x \in Item
      PROVE  Total(Is("destroy", x), q) = IF x \in ToSet(list) THEN 1 ELSE 0
  <2> DEFINE V == [y \in Item |-> IF y = x THEN 1 ELSE 0]
  <2>1. \A i \in 1 .. n : Is("destroy", x)[q[i]] = V[list[i]]
    BY <1>1, <1>3 DEF Is
  <2>2. \A y \in Item : V[y] = (IF y = x THEN 1 ELSE 0) /\ V[y] \in Int
    OBVIOUS
  <2> HIDE DEF V
  <2>3. IsFiniteSet(ToSet(list)) /\ Total(Is("destroy", x), q) = SumFunctionOnSet(V, ToSet(list))
    BY <1>1, <1>4, <2>1, <2>2, TotalMapped
  <2>4. \A y \in ToSet(list) : y \in Item
    BY <1>1 DEF ToSet
  <2>5. CASE x \notin ToSet(list)
    <3>1. \A y \in ToSet(list) : V[y] = 0
      BY <2>2, <2>4, <2>5
    <3> QED BY <2>3, <2>5, <3>1, SumZeros
  <2>6. CASE x \in ToSet(list)
    <3>1. \A y \in ToSet(list) : V[y] = IF y \in {x} THEN 1 ELSE 0
      BY <2>2, <2>4
    <3>2. {x} \in SUBSET ToSet(list) /\ Cardinality({x}) = 1
      BY <2>6, FS_Singleton
    <3> QED BY <2>3, <2>6, <3>1, <3>2, SumCounts
  <2> QED BY <2>5, <2>6
<1>6. ASSUME NEW f \in Field
      PROVE  Total(Owes(f), q) = -SumFunctionOnSet(Value(f), ToSet(list))
  <2> DEFINE V == [y \in Item |-> -Value(f)[y]]
  <2>1. \A y \in Item : V[y] = -Value(f)[y] /\ Value(f)[y] \in Int /\ V[y] \in Int
    BY OwedForItem
  <2> HIDE DEF V
  <2>2. \A i \in 1 .. n : Owes(f)[q[i]] = V[list[i]]
    BY <1>1, <1>3, <2>1, OwedForItem
  <2>3. IsFiniteSet(ToSet(list)) /\ Total(Owes(f), q) = SumFunctionOnSet(V, ToSet(list))
    <3>1. PICK W : W = Owes(f)
      OBVIOUS
    <3>2. \A y \in Item : V[y] \in Int
      BY <2>1
    <3>3. \A i \in DOMAIN list : W[q[i]] = V[list[i]]
      BY <1>1, <2>2, <3>1
    <3>4. IsFiniteSet(ToSet(list)) /\ Total(W, q) = SumFunctionOnSet(V, ToSet(list))
      <4>1. list \in Seq(Item) /\ Distinct(list) /\ DOMAIN q = DOMAIN list
        BY <1>1, <1>4
      <4> QED BY <3>2, <3>3, <4>1, TotalMapped
    <3> QED BY <3>1, <3>4
  <2>4. \A y \in ToSet(list) : y \in Item
    BY <1>1 DEF ToSet
  <2>5. SumFunctionOnSet(V, ToSet(list)) = -SumFunctionOnSet(Value(f), ToSet(list))
    BY <2>1, <2>3, <2>4, SumMinus
  <2> QED BY <2>3, <2>5
<1> QED BY <1>3, <1>4, <1>5, <1>6 DEF q

\* The notes that the items of a list left.
LEMMA NotesList ==
  ASSUME Types, NEW list \in Seq(Item), Distinct(list)
  PROVE  /\ DiscardNotes(list) \in Seq(Step)
         /\ \A i \in DOMAIN DiscardNotes(list) : DiscardNotes(list)[i].op = "note"
         /\ \A f \in Field :
              Total(Owes(f), DiscardNotes(list)) = -SumFunctionOnSet(Value(f), ToSet(list))
<1> DEFINE q == DiscardNotes(list)
           n == Len(list)
<1>1. n \in Nat /\ DOMAIN list = 1 .. n /\ \A i \in 1 .. n : list[i] \in Item
  BY LenProperties, ElementOfSeq
<1>2. q = [i \in 1 .. n |-> NoteRemove(list[i])]
  BY <1>1 DEF DiscardNotes
<1> HIDE DEF q, n
<1>3. \A i \in 1 .. n : q[i] = NoteRemove(list[i]) /\ q[i] \in Step /\ q[i].op = "note"
  <2>1. "bytes" \in Field
    BY DEF Field
  <2> QED BY <1>1, <1>2, <2>1, OwedForItem
<1>4. q \in Seq(Step) /\ DOMAIN q = 1 .. n
  <2>1. q = [i \in 1 .. n |-> q[i]]
    BY <1>2
  <2> QED BY <1>1, <1>3, <2>1, Enumerated
<1>5. ASSUME NEW f \in Field
      PROVE  Total(Owes(f), q) = -SumFunctionOnSet(Value(f), ToSet(list))
  <2> DEFINE V == [y \in Item |-> -Value(f)[y]]
  <2>1. \A y \in Item : V[y] = -Value(f)[y] /\ Value(f)[y] \in Int /\ V[y] \in Int
    BY OwedForItem
  <2> HIDE DEF V
  <2>2. \A i \in 1 .. n : Owes(f)[q[i]] = V[list[i]]
    BY <1>1, <1>3, <2>1, OwedForItem
  <2>3. IsFiniteSet(ToSet(list)) /\ Total(Owes(f), q) = SumFunctionOnSet(V, ToSet(list))
    <3>1. PICK W : W = Owes(f)
      OBVIOUS
    <3>2. \A y \in Item : V[y] \in Int
      BY <2>1
    <3>3. \A i \in DOMAIN list : W[q[i]] = V[list[i]]
      BY <1>1, <2>2, <3>1
    <3>4. DOMAIN q = DOMAIN list
      BY <1>1, <1>4
    <3>5. IsFiniteSet(ToSet(list)) /\ Total(W, q) = SumFunctionOnSet(V, ToSet(list))
      BY <3>2, <3>3, <3>4, TotalMapped
    <3> QED BY <3>1, <3>5
  <2>4. \A y \in ToSet(list) : y \in Item
    BY <1>1 DEF ToSet
  <2>5. SumFunctionOnSet(V, ToSet(list)) = -SumFunctionOnSet(Value(f), ToSet(list))
    BY <2>1, <2>3, <2>4, SumMinus
  <2> QED BY <2>3, <2>5
<1> QED BY <1>3, <1>4, <1>5 DEF q

\* A round of the manager's EnsureCapacity, whose oldest item is to be destroyed.
LEMMA EnsureKeeps ==
  ASSUME Inv, NEW t \in Thread, Ensure(t)
  PROVE  Inv'
<1>1. /\ Types /\ At(t, "ensure") /\ ~crashed
      /\ UNCHANGED <<count, size, own, all, frame, inFlush, discards, holds, forced, crashed, crossed>>
  BY DEF Ensure, At, Inv, statusVars, historyVars
<1>2. CASE ~(lru # <<>> /\ (used > Target \/ Target - used < Current(t).n))
  <2>1. Continues(t, <<>>) /\ UNCHANGED <<lruVars, size, statusVars, frame, historyVars>>
    BY <1>2 DEF Ensure, lruVars
  <2>2. inFlush' \in BOOLEAN
    BY <1>1 DEF Types
  <2>3. "ensure" \notin {"insert", "unpin", "destroy", "note", "store", "notify"}
    OBVIOUS
  <2> QED BY <1>1, <2>1, <2>2, <2>3, NothingToDo
<1>3. CASE lru # <<>> /\ (used > Target \/ Target - used < Current(t).n)
  <2> DEFINE x == Head(lru)
  <2>1. /\ lru # <<>> /\ lru' = Tail(lru) /\ used' = UsedWithout({x})
        /\ Calls(t, Destroys(<<x>>) \o todo[t])
    BY <1>3 DEF Ensure
  <2>2. lru \in Seq(Item) /\ Distinct(lru) /\ ToSet(lru) \cap Locked = {}
    BY <1>1 DEF Types, Inv, Lists
  <2>3. /\ x \in Item /\ x \in ToSet(lru) /\ Tail(lru) \in Seq(Item)
        /\ ToSet(Tail(lru)) = ToSet(lru) \ {x} /\ Distinct(Tail(lru))
    BY <2>1, <2>2, HeadApart
  <2> HIDE DEF x
  <2>4. PICK one : one = <<x>>
    OBVIOUS
  <2>5. one \in Seq(Item) /\ ToSet(one) = {x} /\ Distinct(one)
    BY <2>3, <2>4, ShortLists
  <2>6. PICK front : front = Destroys(one)
    OBVIOUS
  <2>7. /\ front \in Seq(Step) /\ \A i \in DOMAIN front : front[i].op = "destroy"
        /\ \A y \in Item : Total(Is("destroy", y), front) = IF y \in {x} THEN 1 ELSE 0
        /\ \A f \in Field : Total(Owes(f), front) = -SumFunctionOnSet(Value(f), {x})
    BY <1>1, <2>5, <2>6, DestroysList
  <2>8. Replaces(t, <<>>, front, todo[t])
    BY <1>1, <2>1, <2>4, <2>6, <2>7, PutBefore
  <2>9. <<>> \in Seq(Step) /\ \A i \in DOMAIN <<>> : FALSE
    BY ShortLists
  <2>10. FreeSteps(<<>>) /\ FreeSteps(front) /\ \A i \in DOMAIN front : front[i].op \in Quick
    BY <2>7, <2>9 DEF FreeSteps, Quick
  <2>11. Locked' = Locked /\ x \in Cached /\ Cached' = Cached \ {x}
    <3>1. Locked' = Locked
      BY <1>1 DEF Locked
    <3> QED BY <2>1, <2>2, <2>3, <3>1 DEF Cached
  <2>12. Leaves({x}, <<>>, front)
    <3>1. ASSUME NEW y \in Item
          PROVE  Total(Is("destroy", y), front) + discards'[y]
                   = (Total(Is("destroy", y), <<>>) + discards[y]) + (IF y \in {x} THEN 1 ELSE 0)
      <4>1. Total(Is("destroy", y), <<>>) = 0
        BY <2>9, CountsNone
      <4>2. discards'[y] = discards[y] /\ discards[y] \in Nat
        BY <1>1 DEF Types
      <4>3. Total(Is("destroy", y), front) = IF y \in {x} THEN 1 ELSE 0
        BY <2>7
      <4> QED BY <4>1, <4>2, <4>3
    <3>2. ASSUME NEW f \in Field
          PROVE  Total(Owes(f), front) - Total(Owes(f), <<>>) = -SumFunctionOnSet(Value(f), {x})
      <4>1. Total(Owes(f), <<>>) = 0
        BY <1>1, <2>9, OwesNone
      <4>2. Total(Owes(f), front) = -SumFunctionOnSet(Value(f), {x})
        BY <2>7
      <4>3. Total(Owes(f), front) \in Int
        <5>1. \A s \in Step : Owes(f)[s] \in Int
          BY <1>1, OwesType
        <5> QED BY <2>7, <5>1, TotalOf
      <4> QED BY <4>1, <4>2, <4>3
    <3> QED BY <2>11, <3>1, <3>2 DEF Leaves
  <2>13. used' \in 0 .. WordMod - 1
    BY <1>1, <2>1, <2>3, UsedLess
  <2>14. /\ Frames' /\ \A u \in Thread : frame'[u].depth = frame[u].depth
         /\ \A y : InFrame(t, y)' = InFrame(t, y)
    BY <1>1, SameFrames
  <2>15. SameShares(t)
    BY <1>1, <2>14 DEF SameShares
  <2>16. /\ lru' \in Seq(Item) /\ Distinct(lru') /\ ToSet(lru') \cap Locked' = {}
         /\ count' \in [Item -> Nat] /\ inFlush' \in BOOLEAN /\ forced' \in BOOLEAN
         /\ discards' \in [Item -> Nat]
    BY <1>1, <2>1, <2>2, <2>3, <2>11 DEF Types
  <2> QED BY <1>1, <2>8, <2>10, <2>12, <2>13, <2>14, <2>15, <2>16, LeaveStep
<1> QED BY <1>2, <1>3

\* DestroyResource: the client hears of it, and it is to be noted.
LEMMA DestroyResourceKeeps ==
  ASSUME Inv, NEW t \in Thread, DestroyResource(t)
  PROVE  Inv'
<1> DEFINE s == Current(t)
           x == s.item
           rest == Tail(todo[t])
<1>1. /\ Types /\ Lists /\ At(t, "destroy") /\ Continues(t, <<NoteRemove(x)>>)
      /\ discards' = Discarded({x})
      /\ UNCHANGED <<lru, count, used, size, own, all, frame, inFlush, holds, forced, crashed, crossed>>
  BY DEF DestroyResource, Inv, lruVars, statusVars
<1>2. /\ ~crashed /\ s \in Step /\ s.op = "destroy" /\ s \in ItemStep
      /\ <<s>> \in Seq(Step)
      /\ \A front \in Seq(Step) :
           Calls(t, front \o Tail(todo[t])) => Replaces(t, <<s>>, front, rest)
  BY <1>1, HeadStep, Kinds
<1>3. x \in Item
  BY <1>2 DEF ItemStep
<1> HIDE DEF s, x, rest
<1>4. PICK a : a = NoteRemove(x)
  OBVIOUS
<1>5. /\ a \in Step /\ a.op = "note"
      /\ \A f \in Field : Owes(f)[a] = -Value(f)[x] /\ Value(f)[x] \in Int
  <2>1. "bytes" \in Field
    BY DEF Field
  <2> QED BY <1>1, <1>3, <1>4, <2>1, OwedForItem
<1>6. <<a>> \in Seq(Step)
  BY <1>5, ShortLists
<1>7. Replaces(t, <<s>>, <<a>>, rest)
  BY <1>1, <1>2, <1>4, <1>6 DEF Continues
<1>8. /\ FreeSteps(<<s>>) /\ FreeSteps(<<a>>)
      /\ \A i \in DOMAIN <<a>> : <<a>>[i].op \in Quick
  <2>1. FreeSteps(<<s>>)
    BY <1>2, OneElement DEF FreeSteps
  <2>2. FreeSteps(<<a>>)
    BY <1>5, OneElement DEF FreeSteps
  <2>3. \A i \in DOMAIN <<a>> : <<a>>[i].op \in Quick
    BY <1>5, OneElement DEF Quick
  <2> QED BY <2>1, <2>2, <2>3
<1>9. Leaves({}, <<s>>, <<a>>)
  <2>1. ASSUME NEW y \in Item
        PROVE  Total(Is("destroy", y), <<a>>) + discards'[y]
                 = (Total(Is("destroy", y), <<s>>) + discards[y]) + (IF y \in {} THEN 1 ELSE 0)
    <3>1. Total(Is("destroy", y), <<a>>) = 0
      BY <1>5, CountsOne
    <3>2. Total(Is("destroy", y), <<s>>) = IF x = y THEN 1 ELSE 0
      BY <1>2, CountsOne DEF x
    <3>3. /\ discards[y] \in Nat
          /\ discards'[y] = IF x = y THEN discards[y] + 1 ELSE discards[y]
      BY <1>1 DEF Types, Discarded
    <3> QED BY <3>1, <3>2, <3>3
  <2>2. ASSUME NEW f \in Field
        PROVE  Total(Owes(f), <<a>>) - Total(Owes(f), <<s>>) = -SumFunctionOnSet(Value(f), {})
    <3>1. \A e \in Step : Owes(f)[e] \in Int
      BY <1>1, OwesType
    <3>2. Total(Owes(f), <<a>>) = Owes(f)[a] /\ Total(Owes(f), <<s>>) = Owes(f)[s]
      BY <1>2, <1>5, <3>1, TotalShort
    <3>3. Owes(f)[s] = -Value(f)[x]
      BY <1>2 DEF Owes, x
    <3>4. SumFunctionOnSet(Value(f), {}) = 0
      BY SumEmpty
    <3>5. Total(Owes(f), <<a>>) = Total(Owes(f), <<s>>) /\ Total(Owes(f), <<a>>) \in Int
      BY <1>5, <3>1, <3>2, <3>3
    <3> QED BY <3>4, <3>5
  <2>3. Cached' = Cached \ {} /\ {} \subseteq Cached
    BY <1>1 DEF Cached, Locked
  <2> QED BY <2>1, <2>2, <2>3 DEF Leaves
<1>10. /\ Frames' /\ \A u \in Thread : frame'[u].depth = frame[u].depth
       /\ \A y : InFrame(t, y)' = InFrame(t, y)
  BY <1>1, SameFrames
<1>11. SameShares(t)
  BY <1>1, <1>10 DEF SameShares
<1>12. discards' \in [Item -> Nat]
  BY <1>1 DEF Types, Discarded
<1>13. Locked' = Locked
  BY <1>1 DEF Locked
<1>14. /\ lru' \in Seq(Item) /\ Distinct(lru') /\ ToSet(lru') \cap Locked' = {}
       /\ count' \in [Item -> Nat] /\ inFlush' \in BOOLEAN /\ forced' \in BOOLEAN
       /\ used' \in 0 .. WordMod - 1
  BY <1>1, <1>13 DEF Types, Lists
<1> QED BY <1>1, <1>2, <1>7, <1>8, <1>9, <1>10, <1>11, <1>12, <1>14, LeaveStep

\* A list without elements is empty.
LEMMA NoElements ==
  ASSUME NEW A, NEW s \in Seq(A), ToSet(s) = {}
  PROVE  s = <<>>
<1>1. DOMAIN s = {}
  BY DEF ToSet
<1>2. Len(s) \in Nat /\ DOMAIN s = 1 .. Len(s)
  BY LenProperties
<1>3. ~(Len(s) \in Nat \ {0})
  <2> SUFFICES ASSUME Len(s) \in Nat \ {0} PROVE FALSE
    OBVIOUS
  <2>1. 1 \in 1 .. Len(s)
    OBVIOUS
  <2> QED BY <1>1, <1>2, <2>1
<1> QED BY <1>3, EmptySeq

\* Items are discarded, under the mutex: their thread's frame is relieved of them.
LEMMA DiscardKeeps ==
  ASSUME Inv, NEW t \in Thread, ~crashed, NEW cur \in Seq(Step), NEW rest \in Seq(Step),
         todo[t] = cur \o rest, FreeSteps(cur), LockSteps(cur),
         NEW list \in Seq(Item), Distinct(list), ToSet(list) \subseteq Cached,
         DiscardItems(t, list, rest)
  PROVE  Inv'
<1>1. PICK items : items = ToSet(list)
  OBVIOUS
<1>2. /\ Types /\ Lists /\ lru' = Without(lru, items)
      /\ count' = [x \in Item |-> IF x \in items THEN 0 ELSE count[x]]
      /\ used' = UsedWithout(items)
      /\ discards' = Discarded(items)
      /\ frame' = [frame EXCEPT ![t].list = Without(@, items)]
      /\ forced' = (forced \/ items \cap Locked # {})
      /\ Calls(t, DiscardNotes(list) \o rest)
      /\ UNCHANGED <<size, own, all, inFlush, holds, crashed, crossed>>
  BY <1>1 DEF DiscardItems, Inv, statusVars
<1>3. /\ items \subseteq Cached /\ items \subseteq Item /\ Cached \subseteq Added
      /\ \A x \in Item : count[x] \in Nat
  BY <1>1, <1>2, CachedAdded DEF Types
<1>4. /\ lru' \in Seq(Item) /\ ToSet(lru') = ToSet(lru) \ items /\ Distinct(lru')
  BY <1>2, WithoutKeeps DEF Types, Lists
<1>5. count' \in [Item -> Nat] /\ \A x \in Item : count'[x] = IF x \in items THEN 0 ELSE count[x]
  BY <1>2, <1>3
<1>6. Locked' = Locked \ items
  BY <1>3, <1>5 DEF Locked
<1>7. ToSet(lru') \cap Locked' = {} /\ Cached' = Cached \ items
  BY <1>2, <1>4, <1>6 DEF Lists, Cached
<1>8. PICK front : front = DiscardNotes(list)
  OBVIOUS
<1>9. /\ front \in Seq(Step) /\ \A i \in DOMAIN front : front[i].op = "note"
      /\ \A f \in Field : Total(Owes(f), front) = -SumFunctionOnSet(Value(f), items)
  BY <1>1, <1>2, <1>8, NotesList
<1>10. Replaces(t, cur, front, rest)
  BY <1>2, <1>8, <1>9 DEF Replaces, Calls
<1>11. FreeSteps(front) /\ \A i \in DOMAIN front : front[i].op \in Quick
  BY <1>9 DEF FreeSteps, Quick
<1>12. Leaves(items, cur, front)
  <2>1. ASSUME NEW y \in Item
        PROVE  Total(Is("destroy", y), front) + discards'[y]
                 = (Total(Is("destroy", y), cur) + discards[y]) + (IF y \in items THEN 1 ELSE 0)
    <3>1. Total(Is("destroy", y), front) = 0
      <4>1. \A i \in DOMAIN front : front[i].op # "destroy"
        BY <1>9
      <4> QED BY <1>9, <4>1, CountsNone
    <3>2. Total(Is("destroy", y), cur) = 0
      <4>1. \A i \in DOMAIN cur : cur[i].op # "destroy"
        BY DEF LockSteps
      <4> QED BY <4>1, CountsNone
    <3>3. /\ discards[y] \in Nat
          /\ discards'[y] = IF y \in items THEN discards[y] + 1 ELSE discards[y]
      BY <1>2 DEF Types, Discarded
    <3> QED BY <3>1, <3>2, <3>3
  <2>2. ASSUME NEW f \in Field
        PROVE  Total(Owes(f), front) - Total(Owes(f), cur) = -SumFunctionOnSet(Value(f), items)
    <3>1. Total(Owes(f), cur) = 0
      <4>1. \A i \in DOMAIN cur : cur[i].op \notin {"note", "store", "destroy", "notify"}
        BY DEF LockSteps
      <4> QED BY <1>2, <4>1, OwesNone
    <3>2. Total(Owes(f), front) = -SumFunctionOnSet(Value(f), items)
      BY <1>9
    <3>3. Total(Owes(f), front) \in Int
      <4>1. \A s \in Step : Owes(f)[s] \in Int
        BY <1>2, OwesType
      <4> QED BY <1>9, <4>1, TotalOf
    <3> QED BY <3>1, <3>2, <3>3
  <2> QED BY <1>3, <1>7, <2>1, <2>2 DEF Leaves
<1>13. PICK fewer : fewer = Without(frame[t].list, items)
  OBVIOUS
<1>14. frame[t].list \in Seq(Item) /\ Distinct(frame[t].list)
       /\ (frame[t].depth = 0 => frame[t].list = <<>>)
  BY <1>2 DEF Types, Lists
<1>15. /\ fewer \in Seq(Item) /\ Distinct(fewer)
       /\ ToSet(fewer) = ToSet(frame[t].list) \ items
  BY <1>13, <1>14, WithoutKeeps
<1>16. frame[t].depth = 0 => fewer = <<>>
  <2> SUFFICES ASSUME frame[t].depth = 0 PROVE fewer = <<>>
    OBVIOUS
  <2>1. ToSet(frame[t].list) = {}
    BY <1>14, ShortLists
  <2>2. ToSet(fewer) = {}
    BY <1>15, <2>1
  <2> QED BY <1>15, <2>2, NoElements
<1>17. frame' = [frame EXCEPT ![t] = [frame[t] EXCEPT !.list = fewer]]
  BY <1>2, <1>13
<1>18. /\ Frames' /\ frame'[t].list = fewer /\ \A u \in Thread : u # t => frame'[u] = frame[u]
       /\ \A u \in Thread : frame'[u].depth = frame[u].depth
  BY <1>15, <1>16, <1>17, FrameList
<1>19. ASSUME ~forced' PROVE ~forced /\ SameShares(t)
  <2>1. ~forced /\ items \cap Locked = {}
    BY <1>2, <1>19
  <2>2. ASSUME NEW x \in Item
        PROVE  count'[x] = count[x] /\ InFrame(t, x)' = InFrame(t, x)
    <3>1. CASE x \notin items
      <4>1. x \in ToSet(fewer) <=> x \in ToSet(frame[t].list)
        BY <1>15, <3>1
      <4> QED BY <1>5, <1>18, <3>1, <4>1 DEF InFrame
    <3>2. CASE x \in items
      <4>1. count[x] = 0
        BY <1>3, <2>1, <3>2 DEF Locked
      <4>2. Kept(x) /\ x \in Added
        BY <1>3, <2>1, <3>2 DEF Inv, Safe
      <4>3. /\ holds[t][x] \in Nat /\ Total(Is("unpin", x), todo[t]) \in Nat
            /\ InFrame(t, x) \in {0, 1}
            /\ holds[t][x] + Total(Is("unpin", x), todo[t]) + InFrame(t, x) <= count[x]
        BY <1>2, <4>2, ShareCounted
      <4>4. InFrame(t, x) = 0
        BY <4>1, <4>3
      <4>5. InFrame(t, x)' = 0
        BY <1>15, <1>18, <3>2 DEF InFrame
      <4> QED BY <1>5, <3>2, <4>1, <4>4, <4>5
    <3> QED BY <3>1, <3>2
  <2> QED BY <1>18, <2>1, <2>2 DEF SameShares
<1>20. used' \in 0 .. WordMod - 1
  BY <1>2, <1>3, UsedLess
<1>21. /\ inFlush' \in BOOLEAN /\ forced' \in BOOLEAN /\ discards' \in [Item -> Nat]
  BY <1>2 DEF Types, Discarded
<1> QED BY <1>2, <1>4, <1>5, <1>7, <1>10, <1>11, <1>12, <1>18, <1>19, <1>20, <1>21, LeaveStep

\* The first step of a thread discards items.
LEMMA DiscardHead ==
  ASSUME Inv, NEW t \in Thread, NEW op \in {"purge", "purgeItems", "remove"}, At(t, op),
         NEW list \in Seq(Item), Distinct(list), ToSet(list) \subseteq Cached,
         DiscardItems(t, list, Tail(todo[t]))
  PROVE  Inv'
<1>1. PICK cur : cur = <<Current(t)>>
  OBVIOUS
<1>2. /\ ~crashed /\ Current(t).op = op /\ cur \in Seq(Step) /\ Tail(todo[t]) \in Seq(Step)
      /\ todo[t] = cur \o Tail(todo[t])
  BY <1>1, HeadStep DEF Inv
<1>3. FreeSteps(cur)
  BY <1>1, <1>2, OneElement DEF FreeSteps
<1>4. LockSteps(cur)
  BY <1>1, <1>2, OneElement DEF LockSteps
<1> QED BY <1>2, <1>3, <1>4, DiscardKeeps

\* The oldest items may be discarded.
LEMMA OldestOnes ==
  ASSUME Inv, NEW k \in 0 .. Len(lru)
  PROVE  /\ SubSeq(lru, 1, k) \in Seq(Item) /\ Distinct(SubSeq(lru, 1, k))
         /\ ToSet(SubSeq(lru, 1, k)) \subseteq Cached
<1>1. lru \in Seq(Item) /\ Distinct(lru)
  BY DEF Inv, Types, Lists
<1>2. /\ SubSeq(lru, 1, k) \in Seq(Item)
      /\ ToSet(SubSeq(lru, 1, k)) \subseteq ToSet(lru)
      /\ Distinct(lru) => Distinct(SubSeq(lru, 1, k))
  BY <1>1, FirstOnes
<1> QED BY <1>1, <1>2 DEF Cached

\* The least of some numbers is one of them.
LEMMA MinOf ==
  ASSUME NEW S \in SUBSET Nat, S # {}
  PROVE  Min(S) \in S /\ \A y \in S : Min(S) <= y
BY LeastNumber DEF Min

\* Purge.
LEMMA PurgeKeeps ==
  ASSUME Inv, NEW t \in Thread, Purge(t)
  PROVE  Inv'
<1> DEFINE enough == {k \in 0 .. Len(lru) : BytesOf(ToSet(SubSeq(lru, 1, k))) >= Current(t).n}
           k == IF enough = {} THEN Len(lru) ELSE Min(enough)
<1>1. At(t, "purge") /\ DiscardItems(t, SubSeq(lru, 1, k), Tail(todo[t]))
  BY DEF Purge
<1>2. Len(lru) \in Nat
  BY LenProperties DEF Inv, Types
<1>3. k \in 0 .. Len(lru)
  <2>1. enough \in SUBSET Nat /\ enough \subseteq 0 .. Len(lru)
    OBVIOUS
  <2>2. enough # {} => Min(enough) \in enough
    <3> HIDE DEF enough
    <3> QED BY <2>1, MinOf
  <2>3. Len(lru) \in 0 .. Len(lru)
    BY <1>2
  <2> HIDE DEF enough
  <2>4. CASE enough = {}
    BY <2>3, <2>4
  <2>5. CASE enough # {}
    BY <2>1, <2>2, <2>5
  <2> QED BY <2>4, <2>5
<1> HIDE DEF k
<1>4. PICK list : list = SubSeq(lru, 1, k)
  OBVIOUS
<1>5. list \in Seq(Item) /\ Distinct(list) /\ ToSet(list) \subseteq Cached
  BY <1>3, <1>4, OldestOnes
<1>6. DiscardItems(t, list, Tail(todo[t]))
  BY <1>1, <1>4
<1> QED BY <1>1, <1>5, <1>6, DiscardHead

\* PurgeItems.
LEMMA PurgeItemsKeeps ==
  ASSUME Inv, NEW t \in Thread, PurgeItems(t)
  PROVE  Inv'
<1> DEFINE n == Current(t).n
           k == Min({Len(lru), n})
<1>1. At(t, "purgeItems") /\ DiscardItems(t, SubSeq(lru, 1, k), Tail(todo[t])) /\ Types
  BY DEF PurgeItems, Inv
<1>2. Len(lru) \in Nat
  BY <1>1, LenProperties DEF Types
<1>3. n \in Nat
  <2>1. Current(t) \in Step /\ Current(t).op = "purgeItems"
    BY <1>1, HeadStep
  <2>2. Current(t) \in RoomStep
    BY <2>1, Kinds
  <2> QED BY <2>2 DEF RoomStep
<1> HIDE DEF n
<1>4. k \in 0 .. Len(lru)
  <2>1. {Len(lru), n} \in SUBSET Nat /\ {Len(lru), n} # {}
    BY <1>2, <1>3
  <2>2. k \in {Len(lru), n} /\ k <= Len(lru)
    BY <2>1, MinOf
  <2> HIDE DEF k
  <2> QED BY <1>2, <1>3, <2>2
<1> HIDE DEF k
<1>5. PICK list : list = SubSeq(lru, 1, k)
  OBVIOUS
<1>6. list \in Seq(Item) /\ Distinct(list) /\ ToSet(list) \subseteq Cached
  BY <1>4, <1>5, OldestOnes
<1>7. DiscardItems(t, list, Tail(todo[t]))
  BY <1>1, <1>5
<1> QED BY <1>1, <1>6, <1>7, DiscardHead

\* RemoveUnchecked: the item may have been locked by now.
LEMMA RemoveUncheckedKeeps ==
  ASSUME Inv, NEW t \in Thread, RemoveUnchecked(t)
  PROVE  Inv'
<1> DEFINE x == Current(t).item
<1>1. /\ At(t, "remove")
      /\ DiscardItems(t, IF x \in Cached THEN <<x>> ELSE <<>>, Tail(todo[t]))
  BY DEF RemoveUnchecked
<1>2. x \in Item
  <2>1. Current(t) \in Step /\ Current(t).op = "remove"
    BY <1>1, HeadStep DEF Inv
  <2>2. Current(t) \in ItemStep
    BY <2>1, Kinds
  <2> QED BY <2>2 DEF ItemStep
<1> HIDE DEF x
<1>3. PICK list : list = IF x \in Cached THEN <<x>> ELSE <<>>
  OBVIOUS
<1>4. list \in Seq(Item) /\ Distinct(list) /\ ToSet(list) \subseteq Cached
  <2>1. CASE x \in Cached
    <3>1. <<x>> \in Seq(Item) /\ ToSet(<<x>>) = {x} /\ Distinct(<<x>>)
      BY <1>2, ShortLists
    <3>2. list = <<x>>
      BY <1>3, <2>1
    <3> QED BY <2>1, <3>1, <3>2
  <2>2. CASE x \notin Cached
    <3>1. <<>> \in Seq(Item) /\ ToSet(<<>>) = {} /\ Distinct(<<>>)
      BY ShortLists
    <3>2. list = <<>>
      BY <1>3, <2>2
    <3> QED BY <3>1, <3>2
  <2> QED BY <2>1, <2>2
<1>5. DiscardItems(t, list, Tail(todo[t]))
  BY <1>1, <1>3
<1> QED BY <1>1, <1>4, <1>5, DiscardHead

\* The items of a flush: the unlocked ones, and the locked ones too, or not.
LEMMA FlushedOnes ==
  ASSUME Inv, NEW list \in LockedToFlush
  PROVE  /\ list \in Seq(Item) /\ ToSet(list) \subseteq Locked
         /\ lru \o list \in Seq(Item) /\ Distinct(lru \o list)
         /\ ToSet(lru \o list) = ToSet(lru) \cup ToSet(list)
         /\ ToSet(lru \o list) \subseteq Cached /\ ToSet(lru \o list) \subseteq Item
<1>1. /\ lru \in Seq(Item) /\ Distinct(lru) /\ ToSet(lru) \cap Locked = {}
      /\ Locked \subseteq Item /\ Cached \subseteq Item
  BY CachedItems DEF Inv, Types, Lists
<1>2. list \in Seq(Item) /\ Distinct(list) /\ ToSet(list) \subseteq Locked
  <2>1. CASE list = <<>>
    <3>1. <<>> \in Seq(Item) /\ ToSet(<<>>) = {} /\ Distinct(<<>>)
      BY ShortLists
    <3> QED BY <2>1, <3>1
  <2>2. CASE list \in SetToSeqs(Locked)
    <3>1. IsFiniteSet(Locked)
      BY <1>1, Constants, FS_Subset
    <3>2. list \in Seq(Locked) /\ Distinct(list) /\ ToSet(list) \subseteq Locked
      BY <2>2, <3>1, Orders
    <3> QED BY <1>1, <3>2, SeqMonotonic
  <2> QED BY <2>1, <2>2 DEF LockedToFlush
<1>3. ToSet(lru) \cap ToSet(list) = {}
  BY <1>1, <1>2
<1>4. /\ lru \o list \in Seq(Item) /\ Distinct(lru \o list)
      /\ ToSet(lru \o list) = ToSet(lru) \cup ToSet(list)
  BY <1>1, <1>2, <1>3, Concatenated
<1>5. ToSet(lru \o list) \subseteq Cached
  BY <1>2, <1>4 DEF Cached
<1> QED BY <1>1, <1>2, <1>4, <1>5

\* Flush of the section.
LEMMA FlushKeeps ==
  ASSUME Inv, NEW t \in Thread, Flush(t)
  PROVE  Inv'
<1>1. PICK list \in LockedToFlush : DiscardItems(t, lru \o list, <<>>)
  BY DEF Flush
<1>2. ~crashed /\ todo[t] = <<>>
  BY DEF Flush, Starts, IsIdle
<1>3. PICK gone : gone = lru \o list
  OBVIOUS
<1>4. gone \in Seq(Item) /\ Distinct(gone) /\ ToSet(gone) \subseteq Cached
  BY <1>3, FlushedOnes
<1>5. /\ <<>> \in Seq(Step) /\ todo[t] = <<>> \o <<>>
      /\ FreeSteps(<<>>) /\ LockSteps(<<>>)
  BY <1>2, ShortLists DEF FreeSteps, LockSteps
<1>6. DiscardItems(t, gone, <<>>)
  BY <1>1, <1>3
<1> QED BY <1>2, <1>4, <1>5, <1>6, DiscardKeeps

\* A flush of the cache begins and ends with a step.
LEMMA FlushingStep ==
  ASSUME NEW op \in {"flush", "endFlush"}
  PROVE  Flushing(op) \in Step /\ Flushing(op).op = op
<1>1. Flushing(op) \in FlushStep /\ Flushing(op).op = op
  BY DEF Flushing, FlushStep
<1> QED BY <1>1, KindsAreSteps

\* FlushCache.
LEMMA FlushCacheKeeps ==
  ASSUME Inv, NEW t \in Thread, FlushCache(t)
  PROVE  Inv'
<1>1. PICK s : s = Flushing("flush")
  OBVIOUS
<1>2. /\ IsIdle(t) /\ Calls(t, <<s>>)
      /\ UNCHANGED <<lruVars, size, statusVars, frame, inFlush, historyVars>>
  BY <1>1 DEF FlushCache, Starts
<1>3. s \in Step /\ s.op = "flush" /\ <<s>> \in Seq(Step)
  BY <1>1, FlushingStep, ShortLists
<1>4. \A i \in DOMAIN <<s>> : <<s>>[i].op \notin {"insert", "unpin", "destroy", "link", "resize",
                                                   "setSize", "note", "store", "notify"}
  BY <1>3, OneElement
<1> QED BY <1>2, <1>3, <1>4, QuietStart

\* EnterFlush: what is flushed is to be destroyed, by callbacks.
LEMMA EnterFlushKeeps ==
  ASSUME Inv, NEW t \in Thread, EnterFlush(t)
  PROVE  Inv'
<1> DEFINE s == Current(t)
           rest == Tail(todo[t])
<1>0. PICK list \in LockedToFlush :
        /\ count' = [x \in Item |-> IF x \in ToSet(list) THEN 0 ELSE count[x]]
        /\ used' = UsedWithout(ToSet(lru \o list))
        /\ forced' = (forced \/ list # <<>>)
        /\ Continues(t, Destroys(lru \o list) \o <<Flushing("endFlush")>>)
  BY DEF EnterFlush
<1>1. PICK gone : gone = lru \o list
  OBVIOUS
<1>2. /\ Types /\ Lists /\ At(t, "flush")
      /\ lru' = <<>>
      /\ count' = [x \in Item |-> IF x \in ToSet(list) THEN 0 ELSE count[x]]
      /\ used' = UsedWithout(ToSet(gone))
      /\ forced' = (forced \/ list # <<>>)
      /\ Continues(t, Destroys(gone) \o <<Flushing("endFlush")>>)
      /\ inFlush' = TRUE
      /\ UNCHANGED <<size, own, all, frame, discards, holds, crashed, crossed>>
  BY <1>0, <1>1 DEF EnterFlush, Inv, statusVars
<1>24. /\ ~crashed /\ s \in Step /\ s.op = "flush" /\ <<s>> \in Seq(Step)
       /\ \A q \in Seq(Step) : Calls(t, q \o Tail(todo[t])) => Replaces(t, <<s>>, q, rest)
  BY <1>2, HeadStep
<1> HIDE DEF s, rest
<1>3. /\ list \in Seq(Item) /\ ToSet(list) \subseteq Locked
      /\ gone \in Seq(Item) /\ Distinct(gone) /\ ToSet(gone) = ToSet(lru) \cup ToSet(list)
      /\ ToSet(gone) \subseteq Cached /\ ToSet(gone) \subseteq Item
  BY <1>1, FlushedOnes
<1>4. \A x \in Item : count[x] \in Nat
  BY <1>2 DEF Types
<1>5. /\ count' \in [Item -> Nat]
      /\ \A x \in Item : count'[x] = IF x \in ToSet(list) THEN 0 ELSE count[x]
  BY <1>2, <1>4
<1>6. Locked' = Locked \ ToSet(list)
  BY <1>4, <1>5 DEF Locked
<1>7. lru' \in Seq(Item) /\ ToSet(lru') = {} /\ Distinct(lru')
  BY <1>2, ShortLists
<1>8. Cached' = Cached \ ToSet(gone)
  BY <1>2, <1>3, <1>6, <1>7 DEF Cached, Lists
<1>9. PICK dead : dead = Destroys(gone)
  OBVIOUS
<1>10. /\ dead \in Seq(Step) /\ \A i \in DOMAIN dead : dead[i].op = "destroy"
       /\ \A x \in Item : Total(Is("destroy", x), dead) = IF x \in ToSet(gone) THEN 1 ELSE 0
       /\ \A f \in Field : Total(Owes(f), dead) = -SumFunctionOnSet(Value(f), ToSet(gone))
  BY <1>2, <1>3, <1>9, DestroysList
<1>11. PICK end : end = <<Flushing("endFlush")>>
  OBVIOUS
<1>12. end \in Seq(Step) /\ \A i \in DOMAIN end : end[i].op = "endFlush"
  <2>1. Flushing("endFlush") \in Step /\ Flushing("endFlush").op = "endFlush"
    BY FlushingStep
  <2>2. end \in Seq(Step)
    BY <1>11, <2>1, ShortLists
  <2> QED BY <1>11, <2>1, <2>2, OneElement
<1>13. PICK front : front = dead \o end
  OBVIOUS
<1>14. front \in Seq(Step)
  BY <1>10, <1>12, <1>13, ConcatProperties
<1>15. Replaces(t, <<s>>, front, rest)
  BY <1>2, <1>9, <1>11, <1>13, <1>14, <1>24 DEF Continues
<1>16. \A i \in DOMAIN front : front[i].op \in {"destroy", "endFlush"}
  BY <1>10, <1>12, <1>13, BothParts
<1>17. /\ \A i \in DOMAIN <<s>> : <<s>>[i].op = "flush"
       /\ 1 \in DOMAIN <<s>> /\ <<s>>[1] = s /\ s.op \notin Quick
  BY <1>24, OneElement DEF Quick
<1>18. FreeSteps(front) /\ FreeSteps(<<s>>)
  BY <1>16, <1>17 DEF FreeSteps
<1>19. Leaves(ToSet(gone), <<s>>, front)
  <2>1. ASSUME NEW y \in Item
        PROVE  Total(Is("destroy", y), front) + discards'[y]
                 = (Total(Is("destroy", y), <<s>>) + discards[y])
                     + (IF y \in ToSet(gone) THEN 1 ELSE 0)
    <3>1. Total(Is("destroy", y), <<s>>) = 0
      <4>1. \A i \in DOMAIN <<s>> : <<s>>[i].op # "destroy"
        BY <1>17
      <4> QED BY <1>24, <4>1, CountsNone
    <3>2. Total(Is("destroy", y), end) = 0
      <4>1. \A i \in DOMAIN end : end[i].op # "destroy"
        BY <1>12
      <4> QED BY <1>12, <4>1, CountsNone
    <3>3. discards'[y] = discards[y] /\ discards[y] \in Nat
      BY <1>2 DEF Types
    <3>4. Total(Is("destroy", y), dead \o end)
            = Total(Is("destroy", y), dead) + Total(Is("destroy", y), end)
      <4>1. \A k \in Step : Is("destroy", y)[k] \in Int
        BY IsType
      <4> QED BY <1>10, <1>12, <4>1, TotalConcat
    <3>5. Total(Is("destroy", y), dead) = IF y \in ToSet(gone) THEN 1 ELSE 0
      BY <1>10
    <3> QED BY <1>13, <3>1, <3>2, <3>3, <3>4, <3>5
  <2>2. ASSUME NEW f \in Field
        PROVE  Total(Owes(f), front) - Total(Owes(f), <<s>>)
                 = -SumFunctionOnSet(Value(f), ToSet(gone))
    <3>1. \A k \in Step : Owes(f)[k] \in Int
      BY <1>2, OwesType
    <3>2. Total(Owes(f), <<s>>) = 0
      <4>1. \A i \in DOMAIN <<s>> : <<s>>[i].op \notin {"note", "store", "destroy", "notify"}
        BY <1>17
      <4> QED BY <1>2, <1>24, <4>1, OwesNone
    <3>3. Total(Owes(f), end) = 0
      <4>1. \A i \in DOMAIN end : end[i].op \notin {"note", "store", "destroy", "notify"}
        BY <1>12
      <4> QED BY <1>2, <1>12, <4>1, OwesNone
    <3>4. Total(Owes(f), dead \o end) = Total(Owes(f), dead) + Total(Owes(f), end)
      BY <1>10, <1>12, <3>1, TotalConcat
    <3>5. /\ Total(Owes(f), dead) = -SumFunctionOnSet(Value(f), ToSet(gone))
          /\ Total(Owes(f), dead) \in Int
      BY <1>10, <3>1, TotalOf
    <3> QED BY <1>13, <3>2, <3>3, <3>4, <3>5
  <2> QED BY <1>3, <1>8, <2>1, <2>2 DEF Leaves
<1>20. /\ Frames' /\ \A u \in Thread : frame'[u].depth = frame[u].depth
       /\ \A y : InFrame(t, y)' = InFrame(t, y)
  BY <1>2, SameFrames
<1>21. ASSUME ~forced' PROVE ~forced /\ SameShares(t)
  <2>1. ~forced /\ list = <<>>
    BY <1>2, <1>21
  <2>2. ToSet(list) = {}
    BY <2>1, ShortLists
  <2>3. \A x \in Item : count'[x] = count[x]
    BY <1>5, <2>2
  <2>4. \A u \in Thread : frame'[u] = frame[u]
    BY <1>2
  <2> QED BY <1>20, <2>1, <2>3, <2>4 DEF SameShares
<1>22. used' \in 0 .. WordMod - 1
  BY <1>2, <1>3, UsedLess
<1>23. inFlush' \in BOOLEAN /\ forced' \in BOOLEAN /\ discards' \in [Item -> Nat]
  BY <1>2 DEF Types
<1>25. \E i \in DOMAIN <<s>> : <<s>>[i].op \notin Quick
  BY <1>17
<1> QED
  BY <1>2, <1>5, <1>7, <1>15, <1>18, <1>19, <1>20, <1>21, <1>22, <1>23, <1>24, <1>25, LeaveStep

-----------------------------------------------------------------------------
(* Sizes *)

\* What an item counts for changes with its size, and what the other steps owe does not.
LEMMA OwesResized ==
  ASSUME Types, Types', NEW f \in Field, NEW x \in Item,
         \A y \in Item : y # x => size'[y] = size[y],
         NEW V, V = Owes(f), NEW W, W = Owes(f)'
  PROVE  /\ \A y \in Item : y # x => Value(f)'[y] = Value(f)[y]
         /\ \A s \in Step : ~(s.op = "destroy" /\ s.item = x) => W[s] = V[s]
<1>1. ASSUME NEW y \in Item, y # x PROVE Value(f)'[y] = Value(f)[y]
  <2>1. CASE f = "bytes"
    <3>1. Value(f) = size /\ Value(f)' = size'
      BY <2>1 DEF Value
    <3> QED BY <1>1, <3>1
  <2>2. CASE f # "bytes"
    <3>1. Value(f)' = Value(f)
      BY <2>2 DEF Value
    <3> QED BY <3>1
  <2> QED BY <2>1, <2>2
<1>2. ASSUME NEW s \in Step, ~(s.op = "destroy" /\ s.item = x) PROVE W[s] = V[s]
  <2>1. PICK A : A = Value(f)
    OBVIOUS
  <2>2. PICK B : B = Value(f)'
    OBVIOUS
  <2>3. V = [e \in Step |-> IF e.op = "note" THEN e[f]
                            ELSE IF e.op = "store" THEN e.delta[f]
                            ELSE IF e.op = "destroy" THEN -A[e.item]
                            ELSE IF e.op = "notify" /\ f = "bytes" THEN e.n
                            ELSE 0]
    BY <2>1 DEF Owes
  <2>4. W = [e \in Step |-> IF e.op = "note" THEN e[f]
                            ELSE IF e.op = "store" THEN e.delta[f]
                            ELSE IF e.op = "destroy" THEN -B[e.item]
                            ELSE IF e.op = "notify" /\ f = "bytes" THEN e.n
                            ELSE 0]
    BY <2>2 DEF Owes
  <2>5. s.op = "destroy" => s.item \in Item /\ s.item # x
    <3>1. s.op = "destroy" => s \in ItemStep
      BY Kinds
    <3> QED BY <1>2, <3>1 DEF ItemStep
  <2>6. s.op = "destroy" => B[s.item] = A[s.item]
    BY <1>1, <2>1, <2>2, <2>5
  <2> QED BY <2>3, <2>4, <2>6
<1> QED BY <1>1, <1>2

\* A step that sets the size of an item, which is not to be destroyed.
LEMMA NotedResized ==
  ASSUME Types, Types', NEW t \in Thread, NEW cur, NEW front, NEW rest,
         Replaces(t, cur, front, rest), Noted, ~crashed, all' = all, crossed => crossed',
         NEW x \in Item,
         \A y \in Item : y # x => size'[y] = size[y], Owing(Is("destroy", x)) = 0,
         \A i \in DOMAIN front : front[i].op # "destroy",
         \A f \in Sure' :
           Total(Owes(f), front) - Total(Owes(f), cur)
             = SumFunctionOnSet(Value(f), Cached)' - SumFunctionOnSet(Value(f), Cached)
  PROVE  Noted'
<1>0. Sure' \subseteq Sure /\ Sure \subseteq Field
  BY DEF Sure, Field
<1> SUFFICES ASSUME NEW f \in Sure'
             PROVE  ((all[f] + Owing(Owes(f))) % WordMod
                       = SumFunctionOnSet(Value(f), Cached) % WordMod)'
  BY DEF Noted
<1> f \in Sure /\ f \in Field
  BY <1>0
<1>1. PICK V : V = Owes(f)
  OBVIOUS
<1>2. PICK W : W = Owes(f)'
  OBVIOUS
<1>3. \A s \in Step : V[s] \in Int
  BY <1>1, OwesType
<1>4. \A s \in Step : ~(s.op = "destroy" /\ s.item = x) => W[s] = V[s]
  BY <1>1, <1>2, OwesResized
<1>5. /\ cur \in Seq(Step) /\ front \in Seq(Step) /\ rest \in Seq(Step)
      /\ todo[t] = cur \o rest
      /\ todo'[t] = front \o rest
      /\ \A u \in Thread : u # t => todo'[u] = todo[u]
  BY DEF Replaces, Types
<1>6. \A u \in Thread : \A i \in DOMAIN todo[u] : ~(todo[u][i].op = "destroy" /\ todo[u][i].item = x)
  BY OwingNone DEF Types
<1>7. \A u \in Thread : \A i \in DOMAIN todo'[u] :
        ~(todo'[u][i].op = "destroy" /\ todo'[u][i].item = x)
  <2>1. \A i \in DOMAIN rest : ~(rest[i].op = "destroy" /\ rest[i].item = x)
    <3>1. \A i \in DOMAIN rest : i + Len(cur) \in DOMAIN todo[t] /\ todo[t][i + Len(cur)] = rest[i]
      BY <1>5, BothParts
    <3> QED BY <1>6, <3>1
  <2>2. \A i \in DOMAIN (front \o rest) :
          ~((front \o rest)[i].op = "destroy" /\ (front \o rest)[i].item = x)
    BY <1>5, <2>1, BothParts
  <2> SUFFICES ASSUME NEW u \in Thread
               PROVE  \A i \in DOMAIN todo'[u] :
                        ~(todo'[u][i].op = "destroy" /\ todo'[u][i].item = x)
    OBVIOUS
  <2>3. CASE u = t
    BY <1>5, <2>2, <2>3
  <2>4. CASE u # t
    BY <1>5, <1>6, <2>4
  <2> QED BY <2>3, <2>4
<1>8. \A u \in Thread : Total(W, todo'[u]) = Total(V, todo'[u])
  <2> SUFFICES ASSUME NEW u \in Thread PROVE Total(W, todo'[u]) = Total(V, todo'[u])
    OBVIOUS
  <2>1. PICK s : s = todo'[u]
    OBVIOUS
  <2>2. s \in Seq(Step)
    BY <2>1 DEF Types
  <2>3. \A i \in DOMAIN s : s[i] \in Step
    BY <2>2, LenProperties, ElementOfSeq
  <2>4. \A i \in DOMAIN s : W[s[i]] = V[s[i]]
    BY <1>4, <1>7, <2>1, <2>3
  <2> QED BY <1>3, <2>1, <2>2, <2>4, TotalAgree
<1> DEFINE o == Owing(V)
           o1 == SumFunctionOnSet([u \in Thread |-> Total(V, todo'[u])], Thread)
           c == SumFunctionOnSet(Value(f), Cached)
           c1 == SumFunctionOnSet(Value(f), Cached)'
           a == all[f]
<1>9. Owing(Owes(f))' = o1
  <2>1. Owing(Owes(f))' = SumFunctionOnSet([u \in Thread |-> Total(W, todo'[u])], Thread)
    BY <1>2 DEF Owing
  <2>2. [u \in Thread |-> Total(W, todo'[u])] = [u \in Thread |-> Total(V, todo'[u])]
    BY <1>8
  <2> QED BY <2>1, <2>2
<1>10. /\ o1 = o + (Total(V, front) - Total(V, cur))
       /\ o \in Int /\ Total(V, front) \in Int /\ Total(V, cur) \in Int
  BY <1>3, OwingReplaced DEF Types
<1>11. Total(V, front) - Total(V, cur) = c1 - c
  BY <1>1
<1>12. a \in Int /\ c \in Int /\ c1 \in Int
  <2>1. a \in Int /\ c \in Int
    <3>1. a \in Int
      BY DEF Types, Status
    <3>2. c \in Int
      BY CachedItems
    <3> QED BY <3>1, <3>2
  <2>2. IsFiniteSet(Cached') /\ Cached' \subseteq Item
    <3>1. \A i \in DOMAIN lru' : lru'[i] \in Item
      BY SMTT(30), LenProperties, ElementOfSeq DEF Types
    <3>2. Cached' \subseteq Item
      BY <3>1 DEF Cached, Locked, ToSet
    <3> QED BY <3>2, Constants, FS_Subset
  <2>3. \A y \in Cached' : Value(f)'[y] \in Int
    <3>1. CASE f = "bytes"
      BY <2>2, <3>1 DEF Value, Types
    <3>2. CASE f # "bytes"
      BY <2>2, <3>2 DEF Value
    <3> QED BY <3>1, <3>2
  <2>4. PICK L : L = Value(f)'
    OBVIOUS
  <2>5. SumFunctionOnSet(L, Cached') \in Int
    BY <2>2, <2>3, <2>4, SumInt
  <2> QED BY <2>1, <2>4, <2>5
<1>13. (a + o) % WordMod = c % WordMod
  BY <1>1 DEF Noted
<1>14. (all[f])' = a
  OBVIOUS
<1>15. SumFunctionOnSet(Value(f), Cached)' = c1
  OBVIOUS
<1> HIDE DEF a, o, o1, c, c1
<1>16. a + o1 = (a + o) + (c1 - c) /\ c + (c1 - c) = c1
  BY <1>10, <1>11, <1>12
<1>17. ((a + o) + (c1 - c)) % WordMod = (c + (c1 - c)) % WordMod
  <2>1. a + o \in Int /\ c1 - c \in Int
    BY <1>10, <1>12
  <2> QED BY <1>12, <1>13, <2>1, SameRemainder
<1>18. (a + o1) % WordMod = c1 % WordMod
  BY <1>16, <1>17
<1> QED BY <1>9, <1>14, <1>15, <1>18

\* The steps that a change of a size brings.
LEMMA ResizeSteps ==
  ASSUME Types, NEW x \in Item, NEW m \in Int, NEW front,
         front = (IF m > 0 THEN <<Room("ensure", m)>> ELSE <<>>) \o
                 <<Sized("notify", x, m)>>
  PROVE  /\ front \in Seq(Step)
         /\ \A i \in DOMAIN front : front[i].op \in {"ensure", "notify"}
         /\ \A f \in Field : Total(Owes(f), front) = IF f = "bytes" THEN m ELSE 0
<1>1. PICK a : a = IF m > 0 THEN <<Room("ensure", m)>> ELSE <<>>
  OBVIOUS
<1>2. PICK b : b = <<Sized("notify", x, m)>>
  OBVIOUS
<1>3. a \in Seq(Step) /\ \A i \in DOMAIN a : a[i].op = "ensure"
  <2>1. CASE m > 0
    <3>1. PICK s : s = Room("ensure", m)
      OBVIOUS
    <3>2. s \in Step /\ s.op = "ensure"
      <4>1. m \in Nat
        BY <2>1
      <4> QED BY <3>1, <4>1, RoomSteps
    <3>3. a = <<s>>
      BY <1>1, <2>1, <3>1
    <3> QED BY <3>2, <3>3, ShortLists, OneElement
  <2>2. CASE ~(m > 0)
    BY <1>1, <2>2, ShortLists
  <2> QED BY <2>1, <2>2
<1>4. /\ b \in Seq(Step) /\ \A i \in DOMAIN b : b[i].op = "notify"
      /\ \A f \in Field : Total(Owes(f), b) = IF f = "bytes" THEN m ELSE 0
  <2>1. PICK s : s = Sized("notify", x, m)
    OBVIOUS
  <2>2. s \in Step /\ s.op = "notify" /\ s.n = m
    <3>1. s \in ChangeStep /\ s.op = "notify" /\ s.n = m
      BY <2>1 DEF Sized, ChangeStep
    <3> QED BY <3>1, KindsAreSteps
  <2>3. b = <<s>>
    BY <1>2, <2>1
  <2>4. b \in Seq(Step) /\ \A i \in DOMAIN b : b[i].op = "notify"
    BY <2>2, <2>3, ShortLists, OneElement
  <2>5. ASSUME NEW f \in Field
        PROVE  Total(Owes(f), b) = IF f = "bytes" THEN m ELSE 0
    <3>1. Owes(f)[s] = IF f = "bytes" THEN m ELSE 0
      BY <2>2 DEF Owes
    <3>2. Owes(f)[s] \in Int
      BY <2>2, OwesType
    <3>3. Total(Owes(f), <<s>>) = Owes(f)[s]
      BY <2>2, <3>2, TotalShort
    <3> QED BY <2>3, <3>1, <3>3
  <2> QED BY <2>4, <2>5
<1>5. front = a \o b
  BY <1>1, <1>2
<1>6. a \o b \in Seq(Step) /\ \A i \in DOMAIN (a \o b) : (a \o b)[i].op \in {"ensure", "notify"}
  <2>1. a \in Seq(Step) /\ b \in Seq(Step)
    BY <1>3, <1>4
  <2>2. a \o b \in Seq(Step)
    BY <2>1, ConcatProperties
  <2>3. ASSUME NEW i \in DOMAIN (a \o b)
        PROVE  (a \o b)[i].op \in {"ensure", "notify"}
    <3>1. CASE i \in DOMAIN a
      <4>1. (a \o b)[i] = a[i] /\ a[i].op = "ensure"
        BY <1>3, <2>1, <3>1, BothParts
      <4> QED BY <4>1
    <3>2. CASE i - Len(a) \in DOMAIN b /\ i = (i - Len(a)) + Len(a)
      <4>1. PICK j \in DOMAIN b : i = j + Len(a)
        BY <3>2
      <4>2. (a \o b)[i] = b[j] /\ b[j].op = "notify"
        BY <1>4, <2>1, <4>1, BothParts
      <4> QED BY <4>2
    <3> QED BY <2>1, <3>1, <3>2, BothParts
  <2> QED BY <2>2, <2>3
<1>7. ASSUME NEW f \in Field
      PROVE  Total(Owes(f), front) = IF f = "bytes" THEN m ELSE 0
  <2>1. \A s \in Step : Owes(f)[s] \in Int
    BY OwesType
  <2>2. Total(Owes(f), a \o b) = Total(Owes(f), a) + Total(Owes(f), b)
    BY <1>3, <1>4, <2>1, TotalConcat
  <2>3. Total(Owes(f), a) = 0
    <3>1. \A i \in DOMAIN a : a[i].op \notin {"note", "store", "destroy", "notify"}
      BY <1>3
    <3>2. a \in Seq(Step)
      BY <1>3
    <3> QED BY <3>1, <3>2, OwesNone
  <2>4. PICK v \in Int : v = IF f = "bytes" THEN m ELSE 0
    OBVIOUS
  <2>5. Total(Owes(f), b) = v
    BY <1>4, <2>4
  <2>6. Total(Owes(f), a \o b) = v
    BY <2>2, <2>3, <2>5
  <2> QED BY <1>5, <2>4, <2>6
<1> QED BY <1>5, <1>6, <1>7

\* What is cached counts for more, or less, when a size is set.
LEMMA CachedResized ==
  ASSUME Types, Types', NEW x \in Cached, \A y \in Item : y # x => size'[y] = size[y],
         NEW f \in Field
  PROVE  SumFunctionOnSet(Value(f)', Cached) - SumFunctionOnSet(Value(f), Cached)
           = IF f = "bytes" THEN size'[x] - size[x] ELSE 0
<1>1. PICK A : A = Value(f)
  OBVIOUS
<1>2. PICK B : B = Value(f)'
  OBVIOUS
<1>3. /\ Cached \subseteq Item /\ IsFiniteSet(Cached)
      /\ SumFunctionOnSet(A, Cached) \in Int
  BY <1>1, CachedItems
<1>4. \A y \in Item : A[y] \in Int /\ B[y] \in Int /\ (y # x => B[y] = A[y])
  <2>1. CASE f = "bytes"
    BY <1>1, <1>2, <2>1 DEF Value, Types
  <2>2. CASE f # "bytes"
    BY <1>1, <1>2, <2>2 DEF Value
  <2> QED BY <2>1, <2>2
<1>5. SumFunctionOnSet(B, Cached) = SumFunctionOnSet(A, Cached) + (B[x] - A[x])
  <2>1. \A y \in Cached : A[y] \in Int
    BY <1>3, <1>4
  <2>2. B[x] \in Int /\ \A y \in Cached : y # x => B[y] = A[y]
    BY <1>3, <1>4
  <2> QED BY <1>3, <2>1, <2>2, SumChange
<1>6. B[x] - A[x] = IF f = "bytes" THEN size'[x] - size[x] ELSE 0
  <2>1. CASE f = "bytes"
    BY <1>1, <1>2, <2>1 DEF Value
  <2>2. CASE f # "bytes"
    <3>1. A = [y \in Item |-> 1] /\ B = [y \in Item |-> 1]
      BY <1>1, <1>2, <2>2 DEF Value
    <3> QED BY <1>3, <2>2, <3>1
  <2> QED BY <2>1, <2>2
<1>7. A[x] \in Int /\ B[x] \in Int
  BY <1>3, <1>4
<1> QED BY <1>1, <1>2, <1>3, <1>5, <1>6, <1>7

\* A size is read before it is set: the lock on the item is still the next to be returned.
LEMMA SetReady ==
  ASSUME NEW s \in Step, s.op = "resize", NEW a \in Step, a.op = "setSize", a.item = s.item,
         NEW rest \in Seq(Step), NEW added, NEW depth, Ready(<<s>> \o rest, added, depth)
  PROVE  Ready(<<a>> \o rest, added, depth)
<1>1. PICK cur : cur = <<s>>
  OBVIOUS
<1>2. PICK front : front = <<a>>
  OBVIOUS
<1>3. /\ cur \in Seq(Step) /\ DOMAIN cur = {1} /\ cur[1] = s /\ Len(cur) = 1
      /\ front \in Seq(Step) /\ DOMAIN front = {1} /\ front[1] = a /\ Len(front) = 1
  BY <1>1, <1>2
<1>4. PICK q : q = cur \o rest
  OBVIOUS
<1>5. PICK w : w = front \o rest
  OBVIOUS
<1>6. Ready(q, added, depth) /\ Ordered(q) /\ Followed(q, added, depth)
  BY <1>1, <1>4 DEF Ready
<1>7. /\ 1 \in DOMAIN q /\ q[1] = s
      /\ \A i \in DOMAIN rest : i + 1 \in DOMAIN q /\ q[i + 1] = rest[i]
      /\ \A i \in DOMAIN q : i = 1 \/ (i - 1 \in DOMAIN rest /\ i = (i - 1) + 1 /\ i > 1)
      /\ DOMAIN rest \subseteq Nat \ {0}
  <2>1. /\ \A i \in DOMAIN cur : i \in DOMAIN q /\ q[i] = cur[i]
        /\ \A i \in DOMAIN rest : i + Len(cur) \in DOMAIN q /\ q[i + Len(cur)] = rest[i]
        /\ \A i \in DOMAIN q : \/ i \in DOMAIN cur
                              \/ /\ i - Len(cur) \in DOMAIN rest
                                 /\ i = (i - Len(cur)) + Len(cur) /\ i > Len(cur)
        /\ DOMAIN rest \subseteq Nat \ {0}
    <3>1. cur \in Seq(Step) /\ rest \in Seq(Step)
      BY <1>3
    <3> QED BY SMTT(30), <1>4, <3>1, BothParts
  <2> QED BY <1>3, <2>1
<1>8. /\ 1 \in DOMAIN w /\ w[1] = a
      /\ \A i \in DOMAIN rest : i + 1 \in DOMAIN w /\ w[i + 1] = rest[i]
      /\ \A i \in DOMAIN w : i = 1 \/ (i - 1 \in DOMAIN rest /\ i = (i - 1) + 1 /\ i > 1)
  <2>1. /\ \A i \in DOMAIN front : i \in DOMAIN w /\ w[i] = front[i]
        /\ \A i \in DOMAIN rest : i + Len(front) \in DOMAIN w /\ w[i + Len(front)] = rest[i]
        /\ \A i \in DOMAIN w : \/ i \in DOMAIN front
                              \/ /\ i - Len(front) \in DOMAIN rest
                                 /\ i = (i - Len(front)) + Len(front) /\ i > Len(front)
    <3>1. front \in Seq(Step) /\ rest \in Seq(Step)
      BY <1>3
    <3> QED BY SMTT(30), <1>5, <3>1, BothParts
  <2> QED BY <1>3, <2>1
<1>9. \A i \in DOMAIN w : i \in DOMAIN q /\ (i # 1 => w[i] = q[i])
  BY <1>7, <1>8
<1>10. \A i \in DOMAIN q : i \in DOMAIN w
  BY <1>7, <1>8
<1>11. Ordered(w)
  <2>1. \A i \in DOMAIN rest : rest[i].op # "insert"
    <3>1. \E i \in DOMAIN cur : cur[i].op \notin Quick
      BY <1>3 DEF Quick
    <3>2. Ready(cur \o rest, added, depth)
      BY <1>4, <1>6
    <3> QED BY <1>3, <3>1, <3>2, RestReady
  <2>2. \A i \in DOMAIN w : w[i].op # "insert"
    BY <1>8, <2>1
  <2> QED BY <2>2 DEF Ordered
<1>12. Followed(w, added, depth)
  <2> SUFFICES ASSUME NEW i \in DOMAIN w, w[i].op \in {"link", "resize", "setSize"}
               PROVE  /\ i + 1 \in DOMAIN w /\ w[i + 1].op = "unpin"
                      /\ w[i + 1].item = w[i].item /\ w[i].item \in added
                      /\ w[i].op = "link" => depth # 0
    BY DEF Followed
  <2>1. /\ i \in DOMAIN q /\ q[i].op \in {"link", "resize", "setSize"} /\ q[i].item = w[i].item
        /\ w[i].op = "link" => q[i].op = "link"
    BY <1>7, <1>8, <1>9
  <2>2. /\ i + 1 \in DOMAIN q /\ q[i + 1].op = "unpin" /\ q[i + 1].item = w[i].item
        /\ w[i].item \in added /\ (w[i].op = "link" => depth # 0)
    BY <1>6, <2>1 DEF Followed
  <2>3. i + 1 # 1
    BY <1>7, <1>8
  <2> QED BY <1>9, <1>10, <2>2, <2>3
<1>13. Announced(w, added)
  <2>1. ASSUME NEW op \in {"insert", "unpin"}, NEW x
        PROVE  Total(Is(op, x), front) = 0 /\ Total(Is(op, x), cur) = 0
    BY <1>1, <1>2, CountsOne
  <2>2. Announced(cur \o rest, added)
    BY <1>4, <1>6 DEF Ready
  <2>3. \A x \in Item \ added : Total(Is("unpin", x), cur) = Total(Is("insert", x), cur)
    BY <2>1
  <2>4. \A x \in Item \ added : Total(Is("unpin", x), front) = Total(Is("insert", x), front)
    BY <2>1
  <2> QED BY <1>3, <1>5, <2>2, <2>3, <2>4, AnnouncedStill
<1> QED BY <1>2, <1>5, <1>11, <1>12, <1>13 DEF Ready

\* ReadSize.
LEMMA ReadSizeKeeps ==
  ASSUME Inv, NEW t \in Thread, ReadSize(t)
  PROVE  Inv'
<1> DEFINE s == Current(t)
           x == s.item
           n == s.n
           rest == Tail(todo[t])
<1>1. PICK a : a = SetTo(x, n, size[x])
  OBVIOUS
<1>2. PICK front : front = IF size[x] = n THEN <<>> ELSE <<a>>
  OBVIOUS
<1>3. /\ Types /\ Lists /\ Todo /\ At(t, "resize") /\ Continues(t, front)
      /\ crashed' = (x \notin Cached)
      /\ UNCHANGED <<lru, count, used, size, own, all, frame, inFlush, discards, holds, forced, crossed>>
  BY <1>1, <1>2 DEF ReadSize, Inv, lruVars, statusVars
<1>4. /\ ~crashed /\ s \in Step /\ s.op = "resize" /\ s \in SizedStep
      /\ <<s>> \in Seq(Step) /\ rest \in Seq(Step) /\ todo[t] = <<s>> \o rest
      /\ \A q \in Seq(Step) : Calls(t, q \o Tail(todo[t])) => Replaces(t, <<s>>, q, rest)
  BY <1>3, HeadStep, Kinds
<1>5. x \in Item /\ (~forced => x \in Cached)
  BY <1>3, PinnedItem DEF Cached
<1>6. a \in Step /\ a.op = "setSize" /\ a.item = x
  <2>1. n \in Nat \ {0} /\ size[x] \in Nat
    BY <1>3, <1>4, <1>5 DEF SizedStep, Types
  <2>2. a \in SetStep /\ a.op = "setSize" /\ a.item = x
    BY <1>1, <1>5, <2>1 DEF SetTo, SetStep
  <2> QED BY <2>2, KindsAreSteps
<1> HIDE DEF s, x, n, rest
<1>7. front \in Seq(Step) /\ \A i \in DOMAIN front : front[i].op = "setSize"
  <2>1. CASE size[x] = n
    BY <1>2, <2>1, ShortLists
  <2>2. CASE size[x] # n
    BY <1>2, <1>6, <2>2, ShortLists, OneElement
  <2> QED BY <2>1, <2>2
<1>8. Replaces(t, <<s>>, front, rest)
  BY <1>3, <1>4, <1>7 DEF Continues
<1>9. \A i \in DOMAIN <<s>> : <<s>>[i].op = "resize"
  BY <1>4, OneElement
<1>10. Cached' = Cached /\ Locked' = Locked /\ Added' = Added /\ FramesInUse' = FramesInUse
  BY <1>3 DEF Cached, Locked, Added, FramesInUse
<1>11. Types'
  <2>1. todo' \in [Thread -> Seq(Step)]
    BY <1>3, <1>8, ListTypes
  <2>2. crashed' \in BOOLEAN
    BY <1>3
  <2> QED BY <1>3, <2>1, <2>2 DEF Types
<1>12. Lists'
  BY <1>3, <1>10 DEF Lists
<1>13. Todo'
  <2>1. Ready(<<s>> \o rest, Added, frame[t].depth)
    BY <1>3, <1>4 DEF Todo
  <2>2. Ready(front \o rest, Added, frame[t].depth)
    <3>1. CASE size[x] = n
      <4>1. front = <<>> /\ <<>> \in Seq(Step) /\ \A i \in DOMAIN <<>> : FALSE
        BY <1>2, <3>1, ShortLists
      <4>2. \A y \in Item \ Added : Total(Is("unpin", y), <<s>>) = Total(Is("insert", y), <<s>>)
        BY <1>4, CountsOne
      <4>3. \A i \in DOMAIN <<>> : /\ <<>>[i].op \notin {"insert", "unpin", "link", "resize", "setSize"}
                                   /\ <<>>[i].op \in Quick
        BY <4>1
      <4>4. Ready(<<>> \o rest, Added, frame[t].depth)
        BY <1>4, <2>1, <4>1, <4>2, <4>3, PlainReady
      <4> QED BY <4>1, <4>4
    <3>2. CASE size[x] # n
      <4>1. a.item = s.item
        BY <1>6 DEF x
      <4>2. Ready(<<a>> \o rest, Added, frame[t].depth)
        BY <1>4, <1>6, <2>1, <4>1, SetReady
      <4> QED BY <1>2, <3>2, <4>2
    <3> QED BY <3>1, <3>2
  <2>3. Ready(front \o rest, Added', frame'[t].depth)
    BY <1>3, <1>10, <2>2
  <2>4. \A u \in Thread : u # t => frame'[u].depth = frame[u].depth
    BY <1>3
  <2> QED BY <1>3, <1>8, <1>10, <2>3, <2>4, TodoKept
<1>14. (\A y \in Item : Life(y)') /\ Noted'
  <2>1. \A i \in DOMAIN <<s>> : <<s>>[i].op \notin {"insert", "destroy"}
    BY <1>9
  <2>2. \A i \in DOMAIN front : front[i].op \notin {"insert", "destroy"}
    BY <1>7
  <2>3. ASSUME NEW f \in Field PROVE Total(Owes(f), front) = Total(Owes(f), <<s>>)
    <3>1. \A i \in DOMAIN <<s>> : <<s>>[i].op \notin {"note", "store", "destroy", "notify"}
      BY <1>9
    <3>2. \A i \in DOMAIN front : front[i].op \notin {"note", "store", "destroy", "notify"}
      BY <1>7
    <3> QED BY <1>3, <1>4, <1>7, <3>1, <3>2, OwesNone
  <2> QED BY <1>3, <1>4, <1>8, <1>10, <1>11, <2>1, <2>2, <2>3, SameCache
<1>15. Safe'
  <2>1. \A i \in DOMAIN <<s>> : <<s>>[i].op # "unpin"
    BY <1>9
  <2>2. \A i \in DOMAIN front : front[i].op # "unpin"
    BY <1>7
  <2>3. UNCHANGED <<count, size, frame, holds, forced>>
    BY <1>3
  <2>4. ~forced => \A y \in Item : Kept(y)'
    BY <1>8, <1>11, <2>1, <2>2, <2>3, SameLocks
  <2>5. ~forced => ~crashed'
    BY <1>3, <1>5
  <2> QED BY <2>3, <2>4, <2>5 DEF Safe
<1> QED BY <1>11, <1>12, <1>13, <1>14, <1>15 DEF Inv

\* Resize: what is noted is the change, unless the size is not the one read any more.
LEMMA ResizeKeeps ==
  ASSUME Inv, NEW t \in Thread, Resize(t)
  PROVE  Inv'
<1> DEFINE s == Current(t)
           x == s.item
           n == s.n
           m == n - s.old
           rest == Tail(todo[t])
<1>1. PICK front : front = (IF m > 0 THEN <<Room("ensure", m)>> ELSE <<>>) \o
                           <<Sized("notify", x, m)>>
  OBVIOUS
<1>2. /\ Types /\ Lists /\ Todo /\ Noted /\ At(t, "setSize") /\ Continues(t, front)
      /\ size' = [size EXCEPT ![x] = n] /\ crashed' = (x \notin Cached)
      /\ crossed' = (crossed \/ size[x] # s.old)
      /\ UNCHANGED <<lru, count, used, own, all, frame, inFlush, discards, holds, forced>>
  BY <1>1 DEF Resize, Inv, lruVars, statusVars
<1>3. /\ ~crashed /\ s \in Step /\ s.op = "setSize" /\ s \in SetStep
      /\ <<s>> \in Seq(Step) /\ rest \in Seq(Step) /\ todo[t] = <<s>> \o rest
      /\ \A q \in Seq(Step) : Calls(t, q \o Tail(todo[t])) => Replaces(t, <<s>>, q, rest)
  BY <1>2, HeadStep, Kinds
<1>4. x \in Item /\ x \in Added /\ (~forced => x \in Cached)
  BY <1>2, PinnedItem DEF Cached
<1>5. n \in Nat \ {0} /\ size[x] \in Nat /\ s.old \in Nat
  BY <1>2, <1>3, <1>4 DEF SetStep, Types
<1>6. m \in Int
  BY <1>5
<1> HIDE DEF s, x, n, m, rest
<1>7. /\ front \in Seq(Step)
      /\ \A i \in DOMAIN front : front[i].op \in {"ensure", "notify"}
      /\ \A f \in Field : Total(Owes(f), front) = IF f = "bytes" THEN m ELSE 0
  BY <1>1, <1>2, <1>4, <1>6, ResizeSteps
<1>8. Replaces(t, <<s>>, front, rest)
  BY <1>2, <1>3, <1>7 DEF Continues
<1>9. /\ size'[x] = n /\ \A y \in Item : y # x => size'[y] = size[y]
      /\ size' \in [Item -> Nat]
  BY <1>2, <1>4, <1>5 DEF Types
<1>10. Added' = Added
  BY <1>4, <1>5, <1>9 DEF Added
<1>11. Cached' = Cached /\ Locked' = Locked /\ FramesInUse' = FramesInUse
  BY <1>2 DEF Cached, Locked, FramesInUse
<1>12. Types'
  <2>1. todo' \in [Thread -> Seq(Step)]
    BY <1>2, <1>8, ListTypes
  <2>2. crashed' \in BOOLEAN /\ crossed' \in BOOLEAN
    BY <1>2 DEF Types
  <2> QED BY <1>2, <1>9, <2>1, <2>2 DEF Types
<1>13. Lists'
  BY <1>2, <1>11 DEF Lists
<1>14. Todo'
  <2>1. \A u \in Thread : frame'[u].depth = frame[u].depth
    BY <1>2
  <2>2. \A i \in DOMAIN <<s>> : <<s>>[i].op \notin {"insert", "unpin"}
    BY <1>3, OneElement
  <2>3. \A i \in DOMAIN front : front[i].op \notin {"insert", "unpin", "link", "resize", "setSize"}
    BY <1>7
  <2>4. \E i \in DOMAIN <<s>> : <<s>>[i].op \notin Quick
    <3>1. 1 \in DOMAIN <<s>> /\ <<s>>[1] = s
      OBVIOUS
    <3> QED BY <1>3, <3>1 DEF Quick
  <2> QED BY <1>2, <1>8, <1>10, <2>1, <2>2, <2>3, <2>4, TodoPlain
<1>15. ASSUME NEW op \in {"insert", "destroy", "unpin"}, NEW y
       PROVE  Total(Is(op, y), front) = 0 /\ Total(Is(op, y), <<s>>) = 0
  <2>1. Total(Is(op, y), <<s>>) = 0
    BY <1>3, CountsOne
  <2>2. \A i \in DOMAIN front : front[i].op # op
    BY <1>7
  <2> QED BY <1>7, <2>1, <2>2, CountsNone
<1>16. ASSUME NEW y \in Item PROVE Life(y)'
  <2>1. /\ Life(y) /\ discards'[y] \in Nat /\ discards'[y] = discards[y]
        /\ (y \in Added)' <=> y \in Added
        /\ (y \in Cached)' <=> y \in Cached
    BY <1>2, <1>10, <1>11 DEF Types, Inv
  <2>2. /\ Total(Is("insert", y), front) = Total(Is("insert", y), <<s>>)
        /\ Total(Is("destroy", y), front) = Total(Is("destroy", y), <<s>>)
    BY <1>15
  <2>3. (IF (y \in Cached)' THEN 1 ELSE 0) + Total(Is("destroy", y), front) + discards'[y]
          = (IF y \in Cached THEN 1 ELSE 0) + Total(Is("destroy", y), <<s>>) + discards[y]
    BY <2>1, <2>2
  <2> QED BY <1>2, <1>8, <2>1, <2>2, <2>3, LifeKept
<1>17. Noted'
  <2>1. CASE x \in Cached
    <3>1. Owing(Is("destroy", x)) = 0
      BY <1>2, <1>4, <2>1, LifeParts DEF Inv
    <3>2. \A i \in DOMAIN front : front[i].op # "destroy"
      BY <1>7
    <3>3. ASSUME NEW f \in Sure'
          PROVE  Total(Owes(f), front) - Total(Owes(f), <<s>>)
                   = SumFunctionOnSet(Value(f), Cached)' - SumFunctionOnSet(Value(f), Cached)
      <4> f \in Field
        BY DEF Sure, Field
      <4>1. SumFunctionOnSet(Value(f)', Cached) - SumFunctionOnSet(Value(f), Cached)
              = IF f = "bytes" THEN size'[x] - size[x] ELSE 0
        BY <1>2, <1>9, <1>12, <2>1, CachedResized
      <4>2. SumFunctionOnSet(Value(f), Cached)' = SumFunctionOnSet(Value(f)', Cached)
        BY <1>11
      <4>3. Total(Owes(f), <<s>>) = 0
        <5>1. \A i \in DOMAIN <<s>> : <<s>>[i].op \notin {"note", "store", "destroy", "notify"}
          BY <1>3, OneElement
        <5> QED BY <1>2, <1>3, <5>1, OwesNone
      <4>4. Total(Owes(f), front) = IF f = "bytes" THEN m ELSE 0
        BY <1>7
      <4>5. f = "bytes" => m = size'[x] - size[x]
        BY <1>2, <1>9 DEF m, Sure
      <4> QED BY <1>6, <4>1, <4>2, <4>3, <4>4, <4>5
    <3> QED BY ZenonT(30), <1>2, <1>3, <1>4, <1>8, <1>9, <1>12, <3>1, <3>2, <3>3, NotedResized
  <2>2. CASE x \notin Cached
    <3>1. crashed'
      BY <1>2, <2>2
    <3>2. rest # <<>>
      <4>1. Ready(todo[t], Added, frame[t].depth)
        BY <1>2 DEF Todo
      <4>2. 1 \in DOMAIN todo[t] /\ todo[t][1].op = "setSize"
        BY <1>3
      <4>3. 1 + 1 \in DOMAIN todo[t]
        BY <4>1, <4>2 DEF Ready, Followed
      <4>4. rest = <<>> => todo[t] = <<s>>
        BY <1>3
      <4>5. 1 + 1 \notin DOMAIN <<s>>
        OBVIOUS
      <4> QED BY <4>3, <4>4, <4>5
    <3>3. todo'[t] # <<>>
      <4>1. todo'[t] = front \o rest
        BY <1>2, <1>8 DEF Replaces, Types
      <4> QED BY <1>3, <1>7, <3>2, <4>1, ConcatEqualIffEmpty
    <3> QED BY <3>1, <3>3 DEF Noted, AllIdle
  <2> QED BY <2>1, <2>2
<1>18. Safe'
  <2> SUFFICES ASSUME ~forced' PROVE ~crashed' /\ \A y \in Item : Kept(y)'
    BY DEF Safe
  <2>1. ~forced /\ ~crashed'
    BY <1>2, <1>4
  <2>2. ASSUME NEW y \in Item PROVE Kept(y)'
    <3>1. Kept(y)
      BY <2>1 DEF Inv, Safe
    <3>2. InFrame(t, y)' = InFrame(t, y) /\ InFrame(t, y) \in {0, 1}
      BY <1>2 DEF InFrame
    <3>3. holds[t][y] \in Int /\ count[y] \in Int /\ holds'[t][y] = holds[t][y] /\ count'[y] = count[y]
      BY <1>2 DEF Types
    <3>4. Total(Is("unpin", y), front) = 0 /\ Total(Is("unpin", y), <<s>>) = 0
      BY <1>15
    <3>5. count'[y] - count[y] = (holds'[t][y] - holds[t][y])
            + (Total(Is("unpin", y), front) - Total(Is("unpin", y), <<s>>))
            + (InFrame(t, y)' - InFrame(t, y))
      BY <3>2, <3>3, <3>4
    <3>6. InFrame(t, y)' <= InFrame(t, y)
      BY <3>2
    <3>7. (y \in Added)' <=> y \in Added
      BY <1>10
    <3>8. \A u \in Thread : u # t => holds'[u][y] = holds[u][y] /\ frame'[u] = frame[u]
      BY <1>2
    <3> QED BY <1>2, <1>8, <1>12, <3>1, <3>3, <3>5, <3>6, <3>7, <3>8, LocksKept
  <2> QED BY <2>1, <2>2
<1> QED BY <1>12, <1>13, <1>14, <1>16, <1>17, <1>18 DEF Inv

-----------------------------------------------------------------------------
(* Adding *)

\* An item to be inserted was never added, and this call alone will insert it.
LEMMA InsertedItem ==
  ASSUME Inv, NEW t \in Thread, At(t, "insert")
  PROVE  LET x == Current(t).item
         IN  /\ x \in Item /\ x \notin Added /\ x \notin Cached
             /\ Owing(Is("insert", x)) = 1 /\ Owing(Is("destroy", x)) = 0
             /\ discards[x] = 0 /\ Current(t).n \in Nat \ {0}
<1> DEFINE s == Current(t)
           x == s.item
<1>1. Types /\ todo \in [Thread -> Seq(Step)] /\ todo[t] \in Seq(Step)
  BY DEF Inv, Types
<1>2. /\ s \in Step /\ s.op = "insert" /\ s \in SizedStep
      /\ Tail(todo[t]) \in Seq(Step) /\ todo[t] = <<s>> \o Tail(todo[t])
  BY <1>1, HeadStep, Kinds
<1>3. x \in Item /\ s.n \in Nat \ {0}
  BY <1>2 DEF SizedStep
<1>4. 1 \in DOMAIN todo[t] /\ todo[t][1].op = "insert" /\ todo[t][1].item = x
  BY <1>2
<1> HIDE DEF s, x
<1>5. Total(Is("insert", x), todo[t]) >= 1
  BY <1>1, <1>4, CountsSome
<1>6. /\ Owing(Is("insert", x)) \in Nat /\ Total(Is("insert", x), todo[t]) \in Nat
      /\ Total(Is("insert", x), todo[t]) <= Owing(Is("insert", x))
  BY <1>1, IsType, OwingNat
<1>7. Left(x) = Once(x) /\ Owing(Is("insert", x)) + Once(x) <= 1 /\ Once(x) \in {0, 1}
  BY <1>3 DEF Inv, Life, Once
<1>8. Owing(Is("insert", x)) = 1 /\ Once(x) = 0
  BY <1>5, <1>6, <1>7
<1>9. x \notin Added
  BY <1>8 DEF Once
<1>10. Owing(Is("destroy", x)) \in Nat /\ discards[x] \in Nat
  BY <1>1, <1>3, IsType, OwingNat DEF Types
<1>11. x \notin Cached /\ Owing(Is("destroy", x)) = 0 /\ discards[x] = 0
  BY <1>7, <1>8, <1>10 DEF Left
<1> QED BY <1>3, <1>8, <1>9, <1>11 DEF x, s

\* The note that an item was added.
LEMMA NoteAddStep ==
  ASSUME NEW n \in Nat \ {0}
  PROVE  /\ NoteAdd(n) \in Step /\ NoteAdd(n).op = "note" /\ "note" \in Quick
         /\ \A f \in Field : Owes(f)[NoteAdd(n)] = IF f = "bytes" THEN n ELSE 1
<1>1. NoteAdd(n) \in NoteStep
  BY DEF NoteAdd, Note, NoteStep
<1>2. NoteAdd(n) \in Step
  BY <1>1, KindsAreSteps
<1>3. NoteAdd(n).op = "note" /\ NoteAdd(n)["bytes"] = n /\ NoteAdd(n)["items"] = 1
  BY DEF NoteAdd, Note
<1>4. \A f \in Field : Owes(f)[NoteAdd(n)] = NoteAdd(n)[f]
  BY <1>2, <1>3 DEF Owes
<1> QED BY <1>2, <1>3, <1>4 DEF Field, Quick

\* What is cached counts for more when an item is inserted.
LEMMA CachedInserted ==
  ASSUME Types, Types', NEW x \in Item, x \notin Cached, Cached' = Cached \cup {x},
         \A y \in Item : y # x => size'[y] = size[y], NEW f \in Field
  PROVE  SumFunctionOnSet(Value(f), Cached)' - SumFunctionOnSet(Value(f), Cached)
           = IF f = "bytes" THEN size'[x] ELSE 1
<1>1. PICK A : A = Value(f)
  OBVIOUS
<1>2. PICK B : B = Value(f)'
  OBVIOUS
<1>3. /\ Cached \subseteq Item /\ IsFiniteSet(Cached) /\ IsFiniteSet(Cached \cup {x})
      /\ SumFunctionOnSet(A, Cached) \in Int
  BY <1>1, CachedItems, FS_AddElement
<1>4. \A y \in Item : B[y] \in Int
  <2>1. CASE f = "bytes"
    BY <1>2, <2>1 DEF Value, Types
  <2>2. CASE f # "bytes"
    BY <1>2, <2>2 DEF Value
  <2> QED BY <2>1, <2>2
<1>5. \A y \in Cached : B[y] = A[y]
  <2>1. CASE f = "bytes"
    BY <1>1, <1>2, <1>3, <2>1 DEF Value
  <2>2. CASE f # "bytes"
    BY <1>1, <1>2, <2>2 DEF Value
  <2> QED BY <2>1, <2>2
<1>6. PICK D : D = Cached
  OBVIOUS
<1>7. SumFunctionOnSet(B, D) = SumFunctionOnSet(A, D)
  BY <1>3, <1>5, <1>6, SumAgree
<1>8. SumFunctionOnSet(B, D \cup {x}) = B[x] + SumFunctionOnSet(B, (D \cup {x}) \ {x})
  <2>1. \A y \in D \cup {x} : B[y] \in Int
    BY <1>3, <1>4, <1>6
  <2> QED BY <1>3, <1>6, <2>1, SumRemove
<1>9. (D \cup {x}) \ {x} = D
  BY <1>6
<1>10. B[x] = IF f = "bytes" THEN size'[x] ELSE 1
  <2>1. CASE f = "bytes"
    BY <1>2, <2>1 DEF Value
  <2>2. CASE f # "bytes"
    BY <1>2, <2>2 DEF Value
  <2> QED BY <2>1, <2>2
<1>11. SumFunctionOnSet(Value(f), Cached)' = SumFunctionOnSet(B, D \cup {x})
  BY <1>2, <1>6
<1>12. PICK e \in Int : e = SumFunctionOnSet(A, D)
  BY <1>3, <1>6
<1>13. PICK b \in Int : b = B[x]
  BY <1>4
<1>14. SumFunctionOnSet(Value(f), Cached)' = b + e
  BY <1>7, <1>8, <1>9, <1>11, <1>12, <1>13
<1>15. SumFunctionOnSet(Value(f), Cached) = e
  BY <1>1, <1>6, <1>12
<1>16. (b + e) - e = b
  BY <1>12, <1>13
<1>17. SumFunctionOnSet(Value(f), Cached)' - SumFunctionOnSet(Value(f), Cached) = b
  BY <1>14, <1>15, <1>16
<1> QED BY <1>10, <1>13, <1>17

\* Insert.
LEMMA InsertKeeps ==
  ASSUME Inv, NEW t \in Thread, Insert(t)
  PROVE  Inv'
<1> DEFINE s == Current(t)
           rest == Tail(todo[t])
<1>1. PICK x, n, front : x = s.item /\ n = s.n /\ front = <<NoteAdd(n)>>
  OBVIOUS
<1>2. /\ Types /\ Lists /\ Todo /\ Noted /\ At(t, "insert") /\ Continues(t, front)
      /\ size' = [size EXCEPT ![x] = n] /\ count' = [count EXCEPT ![x] = 1]
      /\ used' = (used + n) % WordMod
      /\ UNCHANGED <<lru, own, all, frame, inFlush, discards, holds, forced, crashed, crossed>>
  BY <1>1 DEF Insert, Inv, historyVars, statusVars
<1>3. /\ ~crashed /\ s \in Step /\ s.op = "insert"
      /\ <<s>> \in Seq(Step) /\ rest \in Seq(Step) /\ todo[t] = <<s>> \o rest
      /\ \A q \in Seq(Step) : Calls(t, q \o Tail(todo[t])) => Replaces(t, <<s>>, q, rest)
  BY <1>2, HeadStep
<1>4. /\ x \in Item /\ x \notin Added /\ x \notin Cached
      /\ Owing(Is("insert", x)) = 1 /\ Owing(Is("destroy", x)) = 0
      /\ discards[x] = 0 /\ n \in Nat \ {0}
  BY <1>1, <1>2, InsertedItem
<1> HIDE DEF s, rest
<1>5. /\ front \in Seq(Step) /\ \A i \in DOMAIN front : front[i].op = "note" /\ front[i].op \in Quick
      /\ \A f \in Field : Owes(f)[NoteAdd(n)] = IF f = "bytes" THEN n ELSE 1
      /\ NoteAdd(n) \in Step
  <2>1. NoteAdd(n) \in Step /\ NoteAdd(n).op = "note" /\ "note" \in Quick
    BY <1>4, NoteAddStep
  <2>2. \A f \in Field : Owes(f)[NoteAdd(n)] = IF f = "bytes" THEN n ELSE 1
    BY <1>4, NoteAddStep
  <2>3. PICK a : a = NoteAdd(n)
    OBVIOUS
  <2>4. front \in Seq(Step)
    BY <1>1, <2>1, <2>3, ShortLists
  <2>5. \A i \in DOMAIN front : front[i] = a
    BY <1>1, <2>3, OneElement
  <2> QED BY <2>1, <2>2, <2>3, <2>4, <2>5
<1>6. Replaces(t, <<s>>, front, rest)
  BY <1>2, <1>3, <1>5 DEF Continues
<1>7. /\ size'[x] = n /\ \A y \in Item : y # x => size'[y] = size[y]
      /\ count'[x] = 1 /\ \A y \in Item : y # x => count'[y] = count[y]
      /\ size' \in [Item -> Nat] /\ count' \in [Item -> Nat]
  BY <1>2, <1>4 DEF Types
<1>8. Added' = Added \cup {x} /\ Locked' = Locked \cup {x} /\ Cached' = Cached \cup {x}
  <2>1. Added' = Added \cup {x}
    BY <1>4, <1>7 DEF Added
  <2>2. Locked' = Locked \cup {x}
    BY <1>4, <1>7 DEF Locked
  <2>3. Cached' = Cached \cup {x}
    BY <1>2, <2>2 DEF Cached
  <2> QED BY <2>1, <2>2, <2>3
<1>9. FramesInUse' = FramesInUse
  BY <1>2 DEF FramesInUse
<1>10. Types'
  <2>1. todo' \in [Thread -> Seq(Step)]
    BY <1>2, <1>6, ListTypes
  <2>2. used' \in 0 .. WordMod - 1
    <3>1. used + n \in Int
      BY <1>2, <1>4 DEF Types
    <3> QED BY <1>2, <3>1, Divided
  <2> QED BY <1>2, <1>7, <2>1, <2>2 DEF Types
<1>11. Lists'
  <2>1. ToSet(lru) \cap Locked' = {}
    BY <1>2, <1>4, <1>8 DEF Lists, Cached
  <2> QED BY <1>2, <1>9, <2>1 DEF Lists
<1>12. \A op, y : Total(Is(op, y), <<s>>) = IF s.op = op /\ s.item = y THEN 1 ELSE 0
  BY <1>3, CountsOne
<1>13. ASSUME NEW op \in {"insert", "destroy", "unpin"}, NEW y
       PROVE  Total(Is(op, y), front) = 0
  <2>1. \A i \in DOMAIN front : front[i].op # op
    BY <1>5
  <2> QED BY <1>5, <2>1, CountsNone
<1>14. Todo'
  <2>1. Ready(<<s>> \o rest, Added, frame[t].depth)
    BY <1>2, <1>3 DEF Todo
  <2>2. Ready(<<s>> \o rest, Added', frame[t].depth)
    <3>1. Added \subseteq Added'
      BY <1>8
    <3> QED BY <2>1, <3>1, ReadyGrows
  <2>3. \A y \in Item \ Added' : Total(Is("unpin", y), <<s>>) = Total(Is("insert", y), <<s>>)
    <3>1. \A y \in Item \ Added' : s.item # y
      BY <1>1, <1>8
    <3> QED BY <1>12, <3>1
  <2>4. \A i \in DOMAIN front : front[i].op \notin {"insert", "unpin", "link", "resize", "setSize"}
    BY <1>5
  <2>5. PICK added : added = Added'
    OBVIOUS
  <2>6. Ready(front \o rest, added, frame[t].depth)
    BY <1>3, <1>5, <2>2, <2>3, <2>4, <2>5, PlainReady
  <2>7. Added \subseteq Added' /\ Ready(front \o rest, Added', frame'[t].depth)
    BY <1>2, <1>8, <2>5, <2>6
  <2>8. \A u \in Thread : u # t => frame'[u].depth = frame[u].depth
    BY <1>2
  <2> QED BY <1>2, <1>6, <2>7, <2>8, TodoKept
<1>15. ASSUME NEW op \in {"insert", "destroy", "unpin"}
       PROVE  Owing(Is(op, x))' = Owing(Is(op, x)) - (IF op = "insert" THEN 1 ELSE 0)
              /\ Owing(Is(op, x)) \in Int
  <2>1. PICK W : W = Is(op, x)
    OBVIOUS
  <2>2. \A a \in Step : W[a] \in Int
    BY <2>1, IsType
  <2>3. /\ SumFunctionOnSet([u \in Thread |-> Total(W, todo'[u])], Thread)
             = Owing(W) + (Total(W, front) - Total(W, <<s>>))
        /\ Owing(W) \in Int
    BY <1>2, <1>6, <2>2, OwingReplaced DEF Types
  <2>4. Total(W, front) = 0 /\ Total(W, <<s>>) = IF op = "insert" THEN 1 ELSE 0
    BY <1>1, <1>3, <1>12, <1>13, <2>1
  <2>5. Owing(Is(op, x))' = SumFunctionOnSet([u \in Thread |-> Total(W, todo'[u])], Thread)
    BY <2>1 DEF Owing
  <2> QED BY <2>1, <2>3, <2>4, <2>5
<1>16. ASSUME NEW y \in Item PROVE Life(y)'
  <2>1. CASE y # x
    <3>1. /\ Life(y) /\ discards'[y] \in Nat /\ discards'[y] = discards[y]
          /\ (y \in Added)' <=> y \in Added
          /\ (y \in Cached)' <=> y \in Cached
      BY <1>2, <1>8, <2>1 DEF Types, Inv
    <3>2. /\ Total(Is("insert", y), front) = Total(Is("insert", y), <<s>>)
          /\ Total(Is("destroy", y), front) = Total(Is("destroy", y), <<s>>)
      BY <1>1, <1>3, <1>12, <1>13, <2>1
    <3>3. (IF (y \in Cached)' THEN 1 ELSE 0) + Total(Is("destroy", y), front) + discards'[y]
            = (IF y \in Cached THEN 1 ELSE 0) + Total(Is("destroy", y), <<s>>) + discards[y]
      BY <3>1, <3>2
    <3> QED BY <1>2, <1>6, <3>1, <3>2, <3>3, LifeKept
  <2>2. CASE y = x
    <3>1. Owing(Is("insert", x))' = 0 /\ Owing(Is("destroy", x))' = 0
      BY <1>4, <1>15
    <3>2. discards'[x] = 0 /\ (x \in Cached)' /\ (x \in Added)'
      BY <1>2, <1>4, <1>8
    <3>3. Left(x)' = 1 /\ Once(x)' = 1
      BY <3>1, <3>2 DEF Left, Once
    <3> QED BY <2>2, <3>1, <3>3 DEF Life
  <2> QED BY <2>1, <2>2
<1>17. Noted'
  <2>1. ASSUME NEW f \in Field
        PROVE  Total(Owes(f), front) - Total(Owes(f), <<s>>)
                 = SumFunctionOnSet(Value(f), Cached)' - SumFunctionOnSet(Value(f), Cached)
    <3>1. SumFunctionOnSet(Value(f), Cached)' - SumFunctionOnSet(Value(f), Cached)
            = IF f = "bytes" THEN size'[x] ELSE 1
      BY <1>2, <1>4, <1>7, <1>8, <1>10, CachedInserted
    <3>2. Total(Owes(f), <<s>>) = 0
      <4>1. \A i \in DOMAIN <<s>> : <<s>>[i].op \notin {"note", "store", "destroy", "notify"}
        BY <1>3, OneElement
      <4> QED BY <1>2, <1>3, <4>1, OwesNone
    <3>3. PICK v \in Int : v = IF f = "bytes" THEN n ELSE 1
      BY <1>4
    <3>4. Owes(f)[NoteAdd(n)] = v
      BY <1>5, <3>3
    <3>5. Total(Owes(f), <<NoteAdd(n)>>) = Owes(f)[NoteAdd(n)]
      BY <1>5, <3>4, TotalShort
    <3>6. Total(Owes(f), front) = v
      BY <1>1, <3>4, <3>5
    <3> QED BY <1>7, <3>1, <3>2, <3>3, <3>6
  <2>2. \A i \in DOMAIN front : front[i].op # "destroy"
    BY <1>5
  <2>3. \A f \in Sure' : f \in Field
    BY DEF Sure, Field
  <2> QED BY <1>2, <1>3, <1>4, <1>6, <1>7, <1>10, <2>1, <2>2, <2>3, NotedResized
<1>18. ASSUME ~forced PROVE Kept(x)'
  <2>1. \A u \in Thread : holds[u][x] = 0 /\ x \notin ToSet(frame[u].list)
    BY <1>4, <1>18 DEF Inv, Safe, Kept
  <2>2. \A u \in Thread : Total(Is("unpin", x), todo[u]) = Total(Is("insert", x), todo[u])
    BY <1>2, <1>4 DEF Todo, Ready, Announced
  <2>3. Owing(Is("unpin", x)) = 1
    <3>1. [u \in Thread |-> Total(Is("unpin", x), todo[u])]
            = [u \in Thread |-> Total(Is("insert", x), todo[u])]
      BY <2>2
    <3> QED BY <1>4, <3>1 DEF Owing
  <2>4. Owing(Is("unpin", x))' = 1
    BY <1>15, <2>3
  <2>5. \A u \in Thread : Total(Is("unpin", x), todo'[u]) \in Int
    <3>1. \A u \in Thread : todo'[u] \in Seq(Step)
      BY <1>10 DEF Types
    <3> QED BY <3>1, IsType, TotalNat
  <2>6. \A u \in Thread : holds'[u][x] = 0 /\ InFrame(u, x)' = 0
    BY <1>2, <2>1 DEF InFrame
  <2>7. \A u \in Thread : Share(u, x)' = Total(Is("unpin", x), todo'[u])
    BY <2>5, <2>6 DEF Share
  <2>8. [u \in Thread |-> Share(u, x)'] = [u \in Thread |-> Total(Is("unpin", x), todo'[u])]
    BY <2>7
  <2>9. SumFunctionOnSet([u \in Thread |-> Share(u, x)'], Thread) = 1
    BY <2>4, <2>8 DEF Owing
  <2> QED BY <1>7, <1>8, <2>9 DEF Kept
<1>19. ASSUME NEW y \in Item, y # x, ~forced PROVE Kept(y)'
  <2>1. Kept(y)
    BY <1>19 DEF Inv, Safe
  <2>2. InFrame(t, y)' = InFrame(t, y) /\ InFrame(t, y) \in {0, 1}
    BY <1>2 DEF InFrame
  <2>3. holds[t][y] \in Int /\ count[y] \in Int /\ holds'[t][y] = holds[t][y] /\ count'[y] = count[y]
    BY <1>2, <1>7, <1>19 DEF Types
  <2>4. Total(Is("unpin", y), front) = 0 /\ Total(Is("unpin", y), <<s>>) = 0
    BY <1>3, <1>12, <1>13
  <2>5. count'[y] - count[y] = (holds'[t][y] - holds[t][y])
          + (Total(Is("unpin", y), front) - Total(Is("unpin", y), <<s>>))
          + (InFrame(t, y)' - InFrame(t, y))
    BY <2>2, <2>3, <2>4
  <2>6. InFrame(t, y)' <= InFrame(t, y)
    BY <2>2
  <2>7. (y \in Added)' <=> y \in Added
    BY <1>8, <1>19
  <2>8. \A u \in Thread : u # t => holds'[u][y] = holds[u][y] /\ frame'[u] = frame[u]
    BY <1>2
  <2> QED BY <1>2, <1>6, <1>10, <2>1, <2>3, <2>5, <2>6, <2>7, <2>8, LocksKept
<1>20. Safe'
  BY <1>2, <1>3, <1>18, <1>19 DEF Safe
<1> QED BY <1>10, <1>11, <1>14, <1>16, <1>17, <1>20 DEF Inv

\* A list that makes room, inserts x and returns k locks on it.
Adds(q, x, k) ==
  /\ q \in Seq(Step) /\ Ordered(q)
  /\ \A i \in DOMAIN q :
       /\ q[i].op \in {"limitBytes", "limitItems", "ensure", "insert", "lock", "pin", "unpin"}
       /\ q[i].op \in {"insert", "unpin"} => q[i].item = x
  /\ \A y : Total(Is("insert", y), q) = IF x = y THEN 1 ELSE 0
  /\ \A y : Total(Is("unpin", y), q) = IF x = y THEN k ELSE 0

\* Such a list begins with what makes room, and the insertion.
LEMMA AddsFirst ==
  ASSUME NEW x \in Item, NEW n \in Nat \ {0}
  PROVE  Adds(EnsureCapacity(n) \o <<Sized("insert", x, n)>>, x, 0)
<1>1. PICK a : a = EnsureCapacity(n)
  OBVIOUS
<1>2. PICK s : s = Sized("insert", x, n)
  OBVIOUS
<1>3. s \in Step /\ s.op = "insert" /\ s.item = x
  <2>1. s \in SizedStep /\ s.op = "insert" /\ s.item = x
    BY <1>2 DEF Sized, SizedStep
  <2> QED BY <2>1, KindsAreSteps
<1>4. PICK b : b = <<s>>
  OBVIOUS
<1>5. b \in Seq(Step) /\ \A i \in DOMAIN b : b[i] = s
  BY <1>3, <1>4, ShortLists, OneElement
<1>6. a \in Seq(Step) /\ \A i \in DOMAIN a : a[i].op \in {"limitBytes", "limitItems", "ensure"}
  <2>1. n \in Nat
    OBVIOUS
  <2> QED BY <1>1, <2>1, RoomSteps
<1>7. PICK q : q = a \o b
  OBVIOUS
<1>8. q \in Seq(Step)
  BY <1>5, <1>6, <1>7, ConcatProperties
<1>9. PICK m : m = Len(a)
  OBVIOUS
<1>10. /\ \A i \in DOMAIN a : i \in DOMAIN q /\ q[i] = a[i] /\ i <= m
       /\ \A i \in DOMAIN b : i + m \in DOMAIN q /\ q[i + m] = b[i]
       /\ \A i \in DOMAIN q :
            i \in DOMAIN a \/ (i - m \in DOMAIN b /\ i = (i - m) + m /\ i > m)
       /\ DOMAIN a \subseteq Nat /\ DOMAIN b \subseteq Nat \ {0} /\ m \in Nat
  BY <1>5, <1>6, <1>7, <1>9, BothParts
<1>11. \A i \in DOMAIN q : (i \in DOMAIN a /\ q[i] = a[i]) \/ (i = 1 + m /\ q[i] = s)
  <2> SUFFICES ASSUME NEW i \in DOMAIN q, i \notin DOMAIN a PROVE i = 1 + m /\ q[i] = s
    BY <1>10
  <2>1. i - m \in DOMAIN b /\ i = (i - m) + m
    BY <1>10
  <2>2. DOMAIN b = {1}
    BY <1>4
  <2> QED BY <1>5, <1>10, <2>1, <2>2
<1>12. Ordered(q)
  <2> SUFFICES ASSUME NEW i \in DOMAIN q, NEW j \in DOMAIN q, q[j].op = "insert"
               PROVE  /\ i < j => q[i].op \in Quick
                      /\ q[i].op = "unpin" => q[i].item = q[j].item
    BY DEF Ordered
  <2>1. CASE i \in DOMAIN a /\ q[i] = a[i]
    BY <1>6, <2>1 DEF Quick
  <2>2. CASE i = 1 + m /\ q[i] = s
    <3>1. j = 1 + m
      BY <1>6, <1>11
    <3> QED BY <1>3, <1>10, <2>2, <3>1
  <2> QED BY <1>11, <2>1, <2>2
<1>13. \A i \in DOMAIN q :
         /\ q[i].op \in {"limitBytes", "limitItems", "ensure", "insert", "lock", "pin", "unpin"}
         /\ q[i].op \in {"insert", "unpin"} => q[i].item = x
  BY <1>3, <1>6, <1>11
<1>14. ASSUME NEW op \in {"insert", "unpin"}, NEW y
       PROVE  Total(Is(op, y), q) = IF op = "insert" /\ x = y THEN 1 ELSE 0
  <2>1. \A i \in DOMAIN a : a[i].op # op
    BY <1>6
  <2>2. Total(Is(op, y), a) = 0
    BY <1>6, <2>1, CountsNone
  <2>3. Total(Is(op, y), b) = IF s.op = op /\ s.item = y THEN 1 ELSE 0
    BY <1>3, <1>4, CountsOne
  <2>4. PICK W : W = Is(op, y)
    OBVIOUS
  <2>5. \A r \in Step : W[r] \in Int
    BY <2>4, IsType
  <2>6. Total(W, a \o b) = Total(W, a) + Total(W, b)
    BY <1>5, <1>6, <2>5, TotalConcat
  <2> QED BY <1>3, <1>7, <2>2, <2>3, <2>4, <2>6
<1>15. Adds(q, x, 0)
  BY <1>8, <1>12, <1>13, <1>14 DEF Adds
<1> QED BY <1>1, <1>2, <1>4, <1>7, <1>15

\* More is done with the item that was inserted.
LEMMA AddsMore ==
  ASSUME NEW q, NEW x, Adds(q, x, 0), NEW w \in Seq(Step), NEW k \in Int,
         \A i \in DOMAIN w : w[i].op \in {"lock", "pin", "unpin"} /\ w[i].item = x,
         \A y : Total(Is("unpin", y), w) = IF x = y THEN k ELSE 0
  PROVE  Adds(q \o w, x, k)
<1>1. /\ q \in Seq(Step) /\ Ordered(q)
      /\ \A i \in DOMAIN q :
           /\ q[i].op \in {"limitBytes", "limitItems", "ensure", "insert", "lock", "pin", "unpin"}
           /\ q[i].op \in {"insert", "unpin"} => q[i].item = x
      /\ \A y : Total(Is("insert", y), q) = IF x = y THEN 1 ELSE 0
      /\ \A y : Total(Is("unpin", y), q) = IF x = y THEN 0 ELSE 0
  BY DEF Adds
<1>2. PICK r : r = q \o w
  OBVIOUS
<1>3. PICK m : m = Len(q)
  OBVIOUS
<1>4. r \in Seq(Step)
  BY <1>1, <1>2, ConcatProperties
<1>5. /\ \A i \in DOMAIN q : i \in DOMAIN r /\ r[i] = q[i] /\ i <= m
      /\ \A i \in DOMAIN w : i + m \in DOMAIN r /\ r[i + m] = w[i]
      /\ \A i \in DOMAIN r :
           i \in DOMAIN q \/ (i - m \in DOMAIN w /\ i = (i - m) + m /\ i > m)
      /\ DOMAIN q \subseteq Nat /\ DOMAIN r \subseteq Nat /\ m \in Nat
  BY SMTT(30), <1>1, <1>2, <1>3, BothParts
<1>6. \A i \in DOMAIN r :
        \/ i \in DOMAIN q /\ r[i] = q[i]
        \/ i > m /\ r[i].op \in {"lock", "pin", "unpin"} /\ r[i].item = x
  <2> SUFFICES ASSUME NEW i \in DOMAIN r, i \notin DOMAIN q
               PROVE  i > m /\ r[i].op \in {"lock", "pin", "unpin"} /\ r[i].item = x
    BY <1>5
  <2>1. i - m \in DOMAIN w /\ i = (i - m) + m /\ i > m
    BY <1>5
  <2>2. r[i] = w[i - m]
    BY <1>5, <2>1
  <2> QED BY <2>1, <2>2
<1>7. Ordered(r)
  <2> SUFFICES ASSUME NEW i \in DOMAIN r, NEW j \in DOMAIN r, r[j].op = "insert"
               PROVE  /\ i < j => r[i].op \in Quick
                      /\ r[i].op = "unpin" => r[i].item = r[j].item
    BY DEF Ordered
  <2>1. j \in DOMAIN q /\ r[j] = q[j] /\ j <= m /\ q[j].op = "insert" /\ q[j].item = x
    BY <1>1, <1>5, <1>6
  <2>2. CASE i \in DOMAIN q /\ r[i] = q[i]
    BY <1>1, <2>1, <2>2 DEF Ordered
  <2>3. CASE i > m /\ r[i].op \in {"lock", "pin", "unpin"} /\ r[i].item = x
    <3>1. ~(i < j)
      BY <1>5, <2>1, <2>3
    <3> QED BY <2>1, <2>3, <3>1
  <2> QED BY <1>6, <2>2, <2>3
<1>8. \A i \in DOMAIN r :
        /\ r[i].op \in {"limitBytes", "limitItems", "ensure", "insert", "lock", "pin", "unpin"}
        /\ r[i].op \in {"insert", "unpin"} => r[i].item = x
  BY <1>1, <1>6
<1>9. ASSUME NEW op, NEW y
      PROVE  Total(Is(op, y), r) = Total(Is(op, y), q) + Total(Is(op, y), w)
  <2>1. PICK W : W = Is(op, y)
    OBVIOUS
  <2>2. \A a \in Step : W[a] \in Int
    BY <2>1, IsType
  <2>3. Total(W, q \o w) = Total(W, q) + Total(W, w)
    BY <1>1, <2>2, TotalConcat
  <2> QED BY <1>2, <2>1, <2>3
<1>10. \A y : Total(Is("insert", y), r) = IF x = y THEN 1 ELSE 0
  <2>1. \A i \in DOMAIN w : w[i].op # "insert"
    OBVIOUS
  <2>2. \A y : Total(Is("insert", y), w) = 0
    BY <2>1, CountsNone
  <2> QED BY <1>1, <1>9, <2>2
<1>11. \A y : Total(Is("unpin", y), r) = IF x = y THEN k ELSE 0
  <2> SUFFICES ASSUME NEW y PROVE Total(Is("unpin", y), r) = IF x = y THEN k ELSE 0
    OBVIOUS
  <2>1. Total(Is("unpin", y), q) = 0
    BY <1>1
  <2>2. PICK v \in Int : v = IF x = y THEN k ELSE 0
    OBVIOUS
  <2>3. Total(Is("unpin", y), w) = v
    BY <2>2
  <2>4. Total(Is("unpin", y), r) = 0 + v
    BY <1>9, <2>1, <2>3
  <2> QED BY <2>2, <2>4
<1>12. Adds(r, x, k)
  BY <1>4, <1>7, <1>8, <1>10, <1>11 DEF Adds
<1> QED BY <1>2, <1>12

\* Nothing, or one step.
LEMMA AddsOne ==
  ASSUME NEW q, NEW x \in Item, Adds(q, x, 0), NEW op \in {"lock", "pin", "unpin"}
  PROVE  /\ Adds(q \o <<>>, x, 0)
         /\ Adds(q \o <<OnItem(op, x)>>, x, IF op = "unpin" THEN 1 ELSE 0)
<1>1. PICK none : none = <<>>
  OBVIOUS
<1>2. none \in Seq(Step) /\ \A i \in DOMAIN none : FALSE
  BY <1>1, ShortLists
<1>3. \A y : Total(Is("unpin", y), none) = IF x = y THEN 0 ELSE 0
  <2>1. \A i \in DOMAIN none : none[i].op # "unpin"
    BY <1>2
  <2> QED BY <1>2, <2>1, CountsNone
<1>4. Adds(q \o none, x, 0)
  <2>1. \A i \in DOMAIN none : none[i].op \in {"lock", "pin", "unpin"} /\ none[i].item = x
    BY <1>2
  <2> QED BY <1>2, <1>3, <2>1, AddsMore
<1>5. PICK s : s = OnItem(op, x)
  OBVIOUS
<1>6. s \in Step /\ s.op = op /\ s.item = x
  <2>1. op \in {"lock", "pin", "link", "unpin", "destroy", "remove"}
    OBVIOUS
  <2> QED BY <1>5, <2>1, ItemSteps
<1>7. PICK one : one = <<s>>
  OBVIOUS
<1>8. one \in Seq(Step) /\ \A i \in DOMAIN one : one[i] = s
  BY <1>6, <1>7, ShortLists, OneElement
<1>9. PICK k \in Int : k = IF op = "unpin" THEN 1 ELSE 0
  OBVIOUS
<1>10. \A y : Total(Is("unpin", y), one) = IF x = y THEN k ELSE 0
  <2>1. \A y : Total(Is("unpin", y), one) = IF s.op = "unpin" /\ s.item = y THEN 1 ELSE 0
    BY <1>6, <1>7, CountsOne
  <2> QED BY <1>6, <1>9, <2>1
<1>11. \A i \in DOMAIN one : one[i].op \in {"lock", "pin", "unpin"} /\ one[i].item = x
  BY <1>6, <1>8
<1>12. Adds(q \o one, x, k)
  BY <1>8, <1>10, <1>11, AddsMore
<1> QED BY <1>1, <1>4, <1>5, <1>7, <1>9, <1>12

\* The steps of AddEx, from the first to the return of the lock.
LEMMA AddsWhole ==
  ASSUME NEW x \in Item, NEW n \in Nat \ {0}, NEW lock \in BOOLEAN, NEW pin \in BOOLEAN,
         NEW front, front = EnsureCapacity(n) \o <<Sized("insert", x, n)>> \o
                            (IF lock THEN <<OnItem("lock", x)>> ELSE <<>>) \o
                            (IF pin THEN <<OnItem("pin", x)>> ELSE <<>>) \o <<OnItem("unpin", x)>>
  PROVE  Adds(front, x, 1)
<1>1. PICK a : a = EnsureCapacity(n) \o <<Sized("insert", x, n)>>
  OBVIOUS
<1>2. PICK b : b = a \o (IF lock THEN <<OnItem("lock", x)>> ELSE <<>>)
  OBVIOUS
<1>3. PICK c : c = b \o (IF pin THEN <<OnItem("pin", x)>> ELSE <<>>)
  OBVIOUS
<1>4. "lock" # "unpin" /\ "pin" # "unpin"
  OBVIOUS
<1>5. Adds(a, x, 0)
  BY <1>1, AddsFirst
<1>6. Adds(b, x, 0)
  <2>1. CASE lock
    <3>1. b = a \o <<OnItem("lock", x)>>
      BY <1>2, <2>1
    <3> QED BY <1>4, <1>5, <3>1, AddsOne
  <2>2. CASE ~lock
    <3>1. b = a \o <<>>
      BY <1>2, <2>2
    <3> QED BY <1>5, <3>1, AddsOne
  <2> QED BY <2>1, <2>2
<1>7. Adds(c, x, 0)
  <2>1. CASE pin
    <3>1. c = b \o <<OnItem("pin", x)>>
      BY <1>3, <2>1
    <3> QED BY <1>4, <1>6, <3>1, AddsOne
  <2>2. CASE ~pin
    <3>1. c = b \o <<>>
      BY <1>3, <2>2
    <3> QED BY <1>6, <3>1, AddsOne
  <2> QED BY <2>1, <2>2
<1>8. front = c \o <<OnItem("unpin", x)>>
  BY <1>1, <1>2, <1>3
<1> QED BY <1>7, <1>8, AddsOne

\* An item that no call will insert.
LEMMA NotInserted ==
  ASSUME Types, NEW x \in Item,
         \A u \in Thread : \A i \in DOMAIN todo[u] :
           todo[u][i].op = "insert" => todo[u][i].item # x
  PROVE  Owing(Is("insert", x)) = 0
<1> DEFINE W == Is("insert", x)
           f == [u \in Thread |-> Total(W, todo[u])]
<1>1. \A a \in Step : W[a] \in Int
  BY IsType
<1>2. ASSUME NEW u \in Thread PROVE Total(W, todo[u]) = 0
  <2>1. todo[u] \in Seq(Step)
    BY DEF Types
  <2>2. \A i \in DOMAIN todo[u] : todo[u][i] \in Step
    BY <2>1, LenProperties, ElementOfSeq
  <2>3. \A i \in DOMAIN todo[u] : W[todo[u][i]] = 0
    BY <2>2 DEF Is
  <2> HIDE DEF W
  <2> QED BY <1>1, <2>1, <2>3, TotalZeros
<1> HIDE DEF W
<1>3. \A u \in Thread : f[u] = 0
  BY <1>2
<1> HIDE DEF f
<1>4. SumFunctionOnSet(f, Thread) = 0
  BY <1>3, Constants, SumZeros
<1> QED BY <1>4 DEF Owing, f, W

\* AddEx.
LEMMA AddExKeeps ==
  ASSUME Inv, NEW t \in Thread, NEW x \in Item, NEW flag \in BOOLEAN, AddEx(t, x, flag)
  PROVE  Inv'
<1>1. PICK n, pin, front :
        /\ n = InitialSize[x] /\ pin = (frame[t] # NoFrame)
        /\ front = EnsureCapacity(n) \o <<Sized("insert", x, n)>> \o
                   (IF flag THEN <<OnItem("lock", x)>> ELSE <<>>) \o
                   (IF pin THEN <<OnItem("pin", x)>> ELSE <<>>) \o <<OnItem("unpin", x)>>
  OBVIOUS
<1>2. /\ Types /\ Lists /\ Todo /\ Noted /\ ~crashed /\ ~forced /\ todo[t] = <<>>
      /\ Calls(t, front) /\ x \notin Added
      /\ \A u \in Thread : \A i \in DOMAIN todo[u] :
           todo[u][i].op = "insert" => todo[u][i].item # x
      /\ UNCHANGED <<lru, count, used, size, own, all, frame, inFlush, discards, holds, forced,
                     crashed, crossed>>
  <2>1. Calls(t, front)
    BY <1>1 DEF AddEx
  <2> QED BY <2>1 DEF AddEx, Starts, IsIdle, Inv, lruVars, statusVars, historyVars
<1>3. n \in Nat \ {0} /\ pin \in BOOLEAN
  BY <1>1, Constants
<1>4. Adds(front, x, 1)
  BY <1>1, <1>3, AddsWhole
<1>5. /\ front \in Seq(Step) /\ Ordered(front)
      /\ \A i \in DOMAIN front :
           front[i].op \in {"limitBytes", "limitItems", "ensure", "insert", "lock", "pin", "unpin"}
      /\ \A y : Total(Is("insert", y), front) = IF x = y THEN 1 ELSE 0
      /\ \A y : Total(Is("unpin", y), front) = IF x = y THEN 1 ELSE 0
  BY <1>4 DEF Adds
<1>6. Replaces(t, <<>>, front, <<>>) /\ front \o <<>> = front
  <2>1. front \o <<>> = front
    BY <1>5
  <2> QED BY <1>2, <1>5, <2>1, StartStep
<1>7. Added' = Added /\ Locked' = Locked /\ Cached' = Cached /\ FramesInUse' = FramesInUse
  BY <1>2 DEF Added, Locked, Cached, FramesInUse
<1>8. Types'
  <2>1. todo' \in [Thread -> Seq(Step)]
    BY <1>2, <1>6, ListTypes
  <2> QED BY <1>2, <2>1 DEF Types
<1>9. Lists'
  BY <1>2, <1>7 DEF Lists
<1>10. Todo'
  <2>1. Followed(front, Added, frame[t].depth)
    BY <1>5 DEF Followed
  <2>2. Announced(front, Added)
    BY <1>5 DEF Announced
  <2>3. Ready(front \o <<>>, Added, frame[t].depth)
    BY <1>5, <1>6, <2>1, <2>2 DEF Ready
  <2>4. Added \subseteq Added' /\ Ready(front \o <<>>, Added', frame'[t].depth)
    BY <1>2, <1>7, <2>3
  <2>5. \A u \in Thread : u # t => frame'[u].depth = frame[u].depth
    BY <1>2
  <2> QED BY <1>2, <1>6, <2>4, <2>5, TodoKept
<1>11. PICK none : none = <<>>
  OBVIOUS
<1>12. none \in Seq(Step) /\ \A i \in DOMAIN none : FALSE
  BY <1>11, ShortLists
<1>13. \A op, y : Total(Is(op, y), none) = 0
  <2> SUFFICES ASSUME NEW op, NEW y PROVE Total(Is(op, y), none) = 0
    OBVIOUS
  <2>1. \A i \in DOMAIN none : none[i].op # op
    BY <1>12
  <2> QED BY <1>12, <2>1, CountsNone
<1>14. \A y : Total(Is("destroy", y), front) = 0
  <2>1. \A i \in DOMAIN front : front[i].op # "destroy"
    BY <1>5
  <2> QED BY <1>5, <2>1, CountsNone
<1>15. Replaces(t, none, front, none)
  BY <1>6, <1>11
<1>16. ASSUME NEW y \in Item PROVE Life(y)'
  <2>1. /\ Life(y) /\ discards'[y] \in Nat /\ discards'[y] = discards[y]
        /\ (y \in Added)' <=> y \in Added
        /\ (y \in Cached)' <=> y \in Cached
    BY <1>2, <1>7 DEF Types, Inv
  <2>2. CASE y # x
    <3>1. /\ Total(Is("insert", y), front) = Total(Is("insert", y), none)
          /\ Total(Is("destroy", y), front) = Total(Is("destroy", y), none)
      BY <1>5, <1>13, <1>14, <2>2
    <3>2. (IF (y \in Cached)' THEN 1 ELSE 0) + Total(Is("destroy", y), front) + discards'[y]
            = (IF y \in Cached THEN 1 ELSE 0) + Total(Is("destroy", y), none) + discards[y]
      BY <2>1, <3>1
    <3> QED BY <1>2, <1>15, <2>1, <3>1, <3>2, LifeKept
  <2>3. CASE y = x
    <3>1. ASSUME NEW op \in {"insert", "destroy"}
          PROVE  /\ Owing(Is(op, x))' = Owing(Is(op, x)) + (IF op = "insert" THEN 1 ELSE 0)
                 /\ Owing(Is(op, x)) \in Int
      <4>1. PICK W : W = Is(op, x)
        OBVIOUS
      <4>2. \A a \in Step : W[a] \in Int
        BY <4>1, IsType
      <4>3. /\ SumFunctionOnSet([u \in Thread |-> Total(W, todo'[u])], Thread)
                  = Owing(W) + (Total(W, front) - Total(W, none))
            /\ Owing(W) \in Int
        BY <1>2, <1>15, <4>2, OwingReplaced DEF Types
      <4>4. Total(W, none) = 0 /\ Total(W, front) = IF op = "insert" THEN 1 ELSE 0
        BY <1>5, <1>13, <1>14, <4>1
      <4>5. Owing(Is(op, x))' = SumFunctionOnSet([u \in Thread |-> Total(W, todo'[u])], Thread)
        BY <4>1 DEF Owing
      <4> QED BY <4>1, <4>3, <4>4, <4>5
    <3>2. Owing(Is("insert", x)) = 0
      BY <1>2, NotInserted
    <3>3. Owing(Is("insert", x))' = 1 /\ Owing(Is("destroy", x))' = Owing(Is("destroy", x))
      BY <3>1, <3>2
    <3>4. Left(x)' = Left(x) /\ Once(x)' = Once(x)
      BY <1>2, <1>7, <3>3 DEF Left, Once
    <3>5. Left(x) = Once(x) /\ Once(x) = 0
      BY <1>2, <2>1, <2>3 DEF Life, Once
    <3>6. Left(x)' = 0 /\ Once(x)' = 0
      BY <3>4, <3>5
    <3> QED BY <2>3, <3>3, <3>6 DEF Life
  <2> QED BY <2>2, <2>3
<1>17. Noted'
  <2>1. ASSUME NEW f \in Field
        PROVE  \E k \in Int :
                 /\ all'[f] % WordMod = (all[f] + k) % WordMod
                 /\ k + (Total(Owes(f), front) - Total(Owes(f), none))
                      = SumFunctionOnSet(Value(f), Cached') - SumFunctionOnSet(Value(f), Cached)
    <3>1. Total(Owes(f), front) = 0
      <4>1. \A i \in DOMAIN front : front[i].op \notin {"note", "store", "destroy", "notify"}
        BY <1>5
      <4> QED BY <1>2, <1>5, <4>1, OwesNone
    <3>2. Total(Owes(f), none) = 0
      <4>1. \A i \in DOMAIN none : none[i].op \notin {"note", "store", "destroy", "notify"}
        BY <1>12
      <4> QED BY <1>2, <1>12, <4>1, OwesNone
    <3>3. SumFunctionOnSet(Value(f), Cached) \in Int
      BY <1>2, CachedItems
    <3>4. all[f] \in Int /\ all'[f] = all[f]
      BY <1>2 DEF Types, Status
    <3>5. PICK v : v = SumFunctionOnSet(Value(f), Cached)
      OBVIOUS
    <3>6. SumFunctionOnSet(Value(f), Cached') = v
      BY <1>7, <3>5
    <3>7. 0 + (Total(Owes(f), front) - Total(Owes(f), none))
            = SumFunctionOnSet(Value(f), Cached') - SumFunctionOnSet(Value(f), Cached)
      BY <3>1, <3>2, <3>3, <3>5, <3>6
    <3>8. all'[f] % WordMod = (all[f] + 0) % WordMod
      BY <3>4
    <3> QED BY <3>7, <3>8
  <2>2. size' = size
    BY <1>2
  <2> QED BY <1>2, <1>8, <1>15, <2>1, <2>2, NotedKept
<1>18. ASSUME NEW y \in Item PROVE Kept(y)'
  <2>1. Kept(y)
    BY <1>2 DEF Inv, Safe
  <2>2. InFrame(t, y)' = InFrame(t, y) /\ InFrame(t, y) \in {0, 1}
    BY <1>2 DEF InFrame
  <2>3. holds[t][y] \in Int /\ count[y] \in Int /\ holds'[t][y] = holds[t][y] /\ count'[y] = count[y]
    BY <1>2 DEF Types
  <2>4. ASSUME y \in Added
        PROVE  count'[y] - count[y] = (holds'[t][y] - holds[t][y])
                 + (Total(Is("unpin", y), front) - Total(Is("unpin", y), none))
                 + (InFrame(t, y)' - InFrame(t, y))
    <3>1. Total(Is("unpin", y), front) = 0 /\ Total(Is("unpin", y), none) = 0
      BY <1>2, <1>5, <1>13, <2>4
    <3> QED BY <2>2, <2>3, <3>1
  <2>5. InFrame(t, y)' <= InFrame(t, y)
    BY <2>2
  <2>6. (y \in Added)' <=> y \in Added
    BY <1>7
  <2>7. \A u \in Thread : u # t => holds'[u][y] = holds[u][y] /\ frame'[u] = frame[u]
    BY <1>2
  <2> QED BY <1>2, <1>8, <1>15, <2>1, <2>3, <2>4, <2>5, <2>6, <2>7, LocksKept
<1>19. Safe'
  BY <1>2, <1>18 DEF Safe
<1> QED BY <1>8, <1>9, <1>10, <1>16, <1>17, <1>19 DEF Inv

-----------------------------------------------------------------------------
(* The invariant holds *)

\* It holds at first: nothing is cached, and nothing is to do.
LEMMA InitKeeps ==
  ASSUME Init
  PROVE  Inv
<1>1. Types
  <2>1. \A A : <<>> \in Seq(A)
    BY ShortLists
  <2>2. StatusZero \in Status
    <3>1. StatusZero = [f \in Field |-> 0]
      BY DEF StatusZero, Field
    <3>2. 0 \in 0 .. WordMod - 1
      BY Constants
    <3> QED BY <3>1, <3>2 DEF Status
  <2>3. 0 \in 0 .. WordMod - 1 /\ 0 \in 0 .. MaxDepth
    BY Constants
  <2>4. NoFrame \in [depth : 0 .. MaxDepth, list : Seq(Item)]
    BY <2>1, <2>3 DEF NoFrame
  <2>5. /\ lru \in Seq(Item) /\ count \in [Item -> Nat] /\ used \in 0 .. WordMod - 1
        /\ size \in [Item -> Nat] /\ own \in Status /\ all \in Status
    BY <2>1, <2>2, <2>3 DEF Init
  <2>6. /\ frame \in [Thread -> [depth : 0 .. MaxDepth, list : Seq(Item)]]
        /\ inFlush \in BOOLEAN /\ forced \in BOOLEAN /\ crashed \in BOOLEAN /\ crossed \in BOOLEAN
    BY <2>4 DEF Init
  <2>7. todo \in [Thread -> Seq(Step)] /\ discards \in [Item -> Nat] /\ holds \in [Thread -> [Item -> Nat]]
    BY <2>1 DEF Init
  <2> QED BY <2>5, <2>6, <2>7 DEF Types
<1>2. lru = <<>> /\ Locked = {} /\ Cached = {} /\ Added = {}
  <2>1. ToSet(<<>>) = {}
    BY ShortLists
  <2> QED BY <2>1 DEF Init, Locked, Cached, Added
<1>3. /\ \A t \in Thread : /\ frame[t] = NoFrame /\ frame[t].list = <<>>
                           /\ ToSet(frame[t].list) = {} /\ Distinct(frame[t].list)
      /\ FramesInUse = {}
  <2>1. \A t \in Thread : frame[t] = NoFrame /\ frame[t].list = <<>>
    BY DEF Init, NoFrame
  <2>2. ToSet(<<>>) = {} /\ Distinct(<<>>)
    BY ShortLists
  <2> QED BY <2>1, <2>2 DEF FramesInUse
<1>4. Lists
  <2>1. Distinct(lru)
    BY <1>2, ShortLists
  <2>2. Cardinality(FramesInUse) <= Slots
    BY <1>3, Constants, FS_EmptySet
  <2> QED BY <1>2, <1>3, <2>1, <2>2 DEF Lists
<1>5. \A t \in Thread : todo[t] = <<>>
  BY DEF Init
<1>6. Todo
  BY <1>5, NothingReady DEF Todo
<1>7. ASSUME NEW W, \A s \in Step : W[s] \in Int
      PROVE  Owing(W) = 0
  <2> DEFINE f == [t \in Thread |-> Total(W, todo[t])]
  <2>1. Total(W, <<>>) = 0
    <3>1. <<>> \in Seq(Step) /\ \A i \in DOMAIN <<>> : W[<<>>[i]] = 0
      BY ShortLists
    <3> QED BY <1>7, <3>1, TotalZeros
  <2>2. \A t \in Thread : f[t] = 0
    BY <1>5, <2>1
  <2> HIDE DEF f
  <2>3. SumFunctionOnSet(f, Thread) = 0
    BY <2>2, Constants, SumZeros
  <2> QED BY <2>3 DEF f, Owing
<1>8. \A op, x : Owing(Is(op, x)) = 0
  <2> SUFFICES ASSUME NEW op, NEW x PROVE Owing(Is(op, x)) = 0
    OBVIOUS
  <2>1. \A s \in Step : Is(op, x)[s] \in Int
    BY IsType
  <2> QED BY <1>7, <2>1
<1>9. ASSUME NEW x \in Item PROVE Life(x)
  <2>1. discards[x] = 0
    BY DEF Init
  <2> QED BY <1>2, <1>8, <2>1 DEF Life, Left, Once
<1>10. Noted
  <2> SUFFICES ASSUME NEW f \in Sure
               PROVE  (all[f] + Owing(Owes(f))) % WordMod
                        = SumFunctionOnSet(Value(f), Cached) % WordMod
    BY DEF Noted
  <2> f \in Field
    BY DEF Sure, Field
  <2>1. \A s \in Step : Owes(f)[s] \in Int
    BY <1>1, OwesType
  <2>2. Owing(Owes(f)) = 0
    BY <1>7, <2>1
  <2>3. all[f] = 0
    <3>1. StatusZero[f] = 0
      BY DEF StatusZero, Field
    <3> QED BY <3>1 DEF Init
  <2>4. SumFunctionOnSet(Value(f), Cached) = 0
    BY <1>2, SumEmpty
  <2> QED BY <2>2, <2>3, <2>4
<1>11. Safe
  <2>1. ASSUME NEW x \in Item PROVE Kept(x)
    BY <1>2, <1>3 DEF Kept, Init
  <2> QED BY <2>1 DEF Safe, Init
<1> QED BY <1>1, <1>4, <1>6, <1>9, <1>10, <1>11 DEF Inv

\* It is about the variables.
LEMMA SameKeeps ==
  ASSUME Inv, UNCHANGED vars
  PROVE  Inv'
<1>1. /\ UNCHANGED <<lru, count, used, size, own, all, frame, inFlush, todo, discards, holds>>
      /\ UNCHANGED <<forced, crashed, crossed>>
  BY DEF vars, lruVars, statusVars, historyVars
<1>2. /\ Locked' = Locked /\ Cached' = Cached /\ Added' = Added /\ FramesInUse' = FramesInUse
      /\ AllIdle' = AllIdle
  BY <1>1 DEF Locked, Cached, Added, FramesInUse, AllIdle
<1>3. Types'
  BY <1>1 DEF Inv, Types
<1>4. Lists'
  BY <1>1, <1>2 DEF Inv, Lists
<1>5. Todo'
  BY <1>1, <1>2 DEF Inv, Todo
<1>6. \A W : SumFunctionOnSet([t \in Thread |-> Total(W, todo'[t])], Thread) = Owing(W)
  BY <1>1 DEF Owing
<1>7. ASSUME NEW x \in Item PROVE Life(x)'
  <2>1. \A op : Owing(Is(op, x))' = Owing(Is(op, x))
    BY <1>1 DEF Owing
  <2>2. Life(x)
    BY DEF Inv
  <2> QED BY <1>1, <1>2, <2>1, <2>2 DEF Life, Left, Once
<1>8. Noted'
  <2>1. \A f : Value(f)' = Value(f)
    BY <1>1 DEF Value
  <2>2. \A f : Owes(f)' = Owes(f)
    BY <2>1 DEF Owes
  <2>3. \A f : Owing(Owes(f))' = Owing(Owes(f))
    BY <1>1, <2>2 DEF Owing
  <2>4. Sure' = Sure /\ Noted
    BY <1>1 DEF Sure, Inv
  <2> QED BY <1>1, <1>2, <2>1, <2>3, <2>4 DEF Noted
<1>9. Safe'
  <2>1. ASSUME NEW x \in Item PROVE Kept(x)' <=> Kept(x)
    <3>1. \A t : Share(t, x)' = Share(t, x)
      BY <1>1 DEF Share, InFrame
    <3> QED BY <1>1, <1>2, <3>1 DEF Kept
  <2> QED BY <1>1, <2>1 DEF Inv, Safe
<1> QED BY <1>3, <1>4, <1>5, <1>7, <1>8, <1>9 DEF Inv

\* Every step keeps it.
LEMMA NextKeeps ==
  ASSUME Inv, Next
  PROVE  Inv'
<1>1. PICK t \in Thread :
        \/ LoadStatus(t) \/ StoreStatus(t) \/ DestroyResource(t)
        \/ LimitBytes(t) \/ LimitItems(t) \/ Purge(t) \/ PurgeItems(t) \/ Ensure(t)
        \/ Insert(t) \/ LockAdded(t) \/ Pin(t) \/ Link(t) \/ Unpin(t)
        \/ RemoveUnchecked(t) \/ EndFlush(t) \/ ReadSize(t) \/ Resize(t)
        \/ NotifySizeChanged(t)
        \/ \E x \in Item, flag \in BOOLEAN : AddEx(t, x, flag)
        \/ \E items \in SUBSET Cached : LockItems(t, items)
        \/ \E x \in Item : Unlock(t, x) \/ BreakLock(t, x) \/ Reorder(t, x) \/ FrameLock(t, x)
        \/ BeginFrameLocking(t) \/ EndFrameLocking(t)
        \/ \E x \in Item : RemoveItem(t, x)
        \/ Flush(t) \/ FlushCache(t) \/ EnterFlush(t)
        \/ \E x \in Item, n \in NewSizes : UpdateSize(t, x, n)
  BY DEF Next
<1>2. CASE LoadStatus(t) \/ StoreStatus(t) \/ DestroyResource(t)
  BY <1>2, LoadStatusKeeps, StoreStatusKeeps, DestroyResourceKeeps
<1>3. CASE LimitBytes(t) \/ LimitItems(t) \/ Purge(t) \/ PurgeItems(t) \/ Ensure(t)
  BY <1>3, LimitBytesKeeps, LimitItemsKeeps, PurgeKeeps, PurgeItemsKeeps, EnsureKeeps
<1>4. CASE Insert(t) \/ LockAdded(t) \/ Pin(t) \/ Link(t) \/ Unpin(t)
  BY <1>4, InsertKeeps, LockAddedKeeps, PinKeeps, LinkKeeps, UnpinKeeps
<1>5. CASE RemoveUnchecked(t) \/ EndFlush(t) \/ ReadSize(t) \/ Resize(t) \/ NotifySizeChanged(t)
  BY <1>5, RemoveUncheckedKeeps, EndFlushKeeps, ReadSizeKeeps, ResizeKeeps, NotifySizeChangedKeeps
<1>6. CASE \E x \in Item, flag \in BOOLEAN : AddEx(t, x, flag)
  BY <1>6, AddExKeeps
<1>7. CASE \E items \in SUBSET Cached : LockItems(t, items)
  BY <1>7, LockItemsKeeps
<1>8. CASE \E x \in Item : Unlock(t, x) \/ BreakLock(t, x) \/ Reorder(t, x) \/ FrameLock(t, x)
  BY <1>8, UnlockKeeps, BreakLockKeeps, ReorderKeeps, ItemCallKeeps
<1>9. CASE BeginFrameLocking(t) \/ EndFrameLocking(t)
  BY <1>9, BeginFrameLockingKeeps, EndFrameLockingKeeps
<1>10. CASE \E x \in Item : RemoveItem(t, x)
  BY <1>10, ItemCallKeeps
<1>11. CASE Flush(t) \/ FlushCache(t) \/ EnterFlush(t)
  BY <1>11, FlushKeeps, FlushCacheKeeps, EnterFlushKeeps
<1>12. CASE \E x \in Item, n \in NewSizes : UpdateSize(t, x, n)
  BY <1>12, UpdateSizeKeeps
<1> QED BY <1>1, <1>2, <1>3, <1>4, <1>5, <1>6, <1>7, <1>8, <1>9, <1>10, <1>11, <1>12

\* What every call relies on, in every reachable state: the invariant of this module.
THEOREM CacheInvariant == Spec => []Inv
<1>1. Init => Inv
  BY InitKeeps
<1>2. Inv /\ [Next]_vars => Inv'
  BY NextKeeps, SameKeeps
<1> QED BY <1>1, <1>2, PTL DEF Spec

-----------------------------------------------------------------------------
(* What the clients are promised *)

\* Type invariant: the variables keep their types, and no more threads than there are
\* slots have a frame.
THEOREM CacheTypeOK == Spec => []TypeOK
<1>1. Inv => TypeOK
  <2> SUFFICES ASSUME Inv PROVE TypeOK
    OBVIOUS
  <2>1. DOMAIN StatusZero = Field
    BY DEF StatusZero, Field
  <2>2. {own, all} \subseteq [DOMAIN StatusZero -> 0 .. WordMod - 1]
    BY <2>1 DEF Inv, Types, Status
  <2> QED BY <2>2 DEF Inv, Types, Lists, TypeOK
<1> QED BY <1>1, CacheInvariant, PTL

\* When nobody is in a call no step is owed anything.
LEMMA IdleOwesNothing ==
  ASSUME AllIdle, NEW W, \A s \in Step : W[s] \in Int
  PROVE  Owing(W) = 0
<1> DEFINE f == [t \in Thread |-> Total(W, todo[t])]
<1>1. Total(W, <<>>) = 0
  <2>1. <<>> \in Seq(Step) /\ \A i \in DOMAIN <<>> : W[<<>>[i]] = 0
    BY ShortLists
  <2> QED BY <2>1, TotalZeros
<1>2. \A t \in Thread : f[t] = 0
  BY <1>1 DEF AllIdle
<1> HIDE DEF f
<1>3. SumFunctionOnSet(f, Thread) = 0
  BY <1>2, Constants, SumZeros
<1> QED BY <1>3 DEF f, Owing

\* When no call is under way the shared status has counted the items that are cached,
\* and their bytes unless two calls of UpdateSize crossed: the notes of several threads'
\* adds, discards, callbacks and size changes come after the fact and lose nothing.
THEOREM CacheStatusCounts == Spec => []SharedStatusCounts
<1>1. Inv => SharedStatusCounts
  <2> SUFFICES ASSUME Inv, AllIdle
               PROVE  /\ all.items = Cardinality(Cached) % WordMod
                      /\ crossed \/ all.bytes = BytesOf(Cached) % WordMod
    BY DEF SharedStatusCounts
  <2>1. Types
    BY DEF Inv
  <2>2. ASSUME NEW f \in Sure
        PROVE  all[f] = SumFunctionOnSet(Value(f), Cached) % WordMod
    <3> f \in Field
      BY DEF Sure, Field
    <3>1. \A s \in Step : Owes(f)[s] \in Int
      BY <2>1, OwesType
    <3>2. Owing(Owes(f)) = 0
      BY <3>1, IdleOwesNothing
    <3>3. all[f] \in 0 .. WordMod - 1
      BY <2>1 DEF Types, Status
    <3>4. (all[f] + 0) % WordMod = SumFunctionOnSet(Value(f), Cached) % WordMod
      BY <3>2 DEF Inv, Noted
    <3>5. (all[f] + 0) % WordMod = all[f]
      BY <3>3, Constants
    <3> QED BY <3>4, <3>5
  <2>3. SumFunctionOnSet(Value("items"), Cached) = Cardinality(Cached)
    <3>1. PICK V : V = Value("items")
      OBVIOUS
    <3>2. IsFiniteSet(Cached) /\ Cached \subseteq Item
      BY <2>1, CachedItems
    <3>3. \A x \in Cached : V[x] = IF x \in Cached THEN 1 ELSE 0
      BY <3>1, <3>2 DEF Value
    <3>4. SumFunctionOnSet(V, Cached) = Cardinality(Cached)
      BY <3>2, <3>3, SumCounts
    <3> QED BY <3>1, <3>4
  <2>4. SumFunctionOnSet(Value("bytes"), Cached) = BytesOf(Cached)
    BY DEF Value, BytesOf
  <2>5. all.items = all["items"] /\ all.bytes = all["bytes"]
    OBVIOUS
  <2>6. "items" \in Sure /\ (crossed \/ "bytes" \in Sure)
    BY DEF Sure, Field
  <2> QED BY <2>2, <2>3, <2>4, <2>5, <2>6
<1> QED BY <1>1, CacheInvariant, PTL

\* An item leaves once and the client hears of it once: not while the item is
\* still cached, and not twice when eviction, removal and flushes compete.
THEOREM CacheDiscardsOnce == Spec => []DiscardedOnce
<1>1. Inv => DiscardedOnce
  <2> SUFFICES ASSUME Inv, NEW x \in Item
               PROVE  /\ discards[x] <= 1
                      /\ x \in Cached => discards[x] = 0
                      /\ AllIdle /\ x \in Added \ Cached => discards[x] = 1
    BY DEF DiscardedOnce
  <2>1. /\ discards[x] <= 1
        /\ x \in Cached => discards[x] = 0
        /\ x \in Added /\ x \notin Cached /\ Owing(Is("destroy", x)) = 0 => discards[x] = 1
    BY LifeParts DEF Inv
  <2>2. AllIdle => Owing(Is("destroy", x)) = 0
    <3>1. \A s \in Step : Is("destroy", x)[s] \in Int
      BY IsType
    <3> QED BY <3>1, IdleOwesNothing
  <2> QED BY <2>1, <2>2
<1> QED BY <1>1, CacheInvariant, PTL

\* The unlocks still to do for an item that is cached, as they are counted one by one.
LEMMA UnpinsCounted ==
  ASSUME Inv, NEW t \in Thread, NEW x \in Item, x \in Added
  PROVE  Total(Is("unpin", x), todo[t])
           = Cardinality({i \in DOMAIN todo[t] :
                            todo[t][i].op = "unpin" /\ todo[t][i].item = x
                            /\ \A j \in 1 .. i - 1 : todo[t][j].op # "insert"})
<1>1. PICK s : s = todo[t]
  OBVIOUS
<1>2. s \in Seq(Step) /\ todo \in [Thread -> Seq(Step)]
  BY <1>1 DEF Inv, Types
<1>3. PICK W : W = Is("unpin", x)
  OBVIOUS
<1>4. /\ DOMAIN s = 1 .. Len(s) /\ Len(s) \in Nat /\ IsFiniteSet(DOMAIN s)
      /\ \A i \in DOMAIN s : s[i] \in Step
  <2>1. \A a \in Step : W[a] \in Int
    BY <1>3, IsType
  <2> QED BY <1>2, <2>1, TotalOf
<1>5. ASSUME NEW i \in DOMAIN s, s[i].op = "unpin", s[i].item = x, NEW j \in 1 .. i - 1
      PROVE  s[j].op # "insert"
  <2> SUFFICES ASSUME s[j].op = "insert" PROVE FALSE
    OBVIOUS
  <2>1. j \in DOMAIN s
    BY <1>4
  <2>2. s[j].item = x
    <3>1. Ordered(s)
      BY <1>1 DEF Inv, Todo, Ready
    <3> QED BY <1>5, <2>1, <3>1 DEF Ordered
  <2>3. Owing(Is("insert", x)) = 0
    BY LifeParts DEF Inv
  <2> QED BY <1>1, <1>2, <2>1, <2>2, <2>3, OwingNone
<1> DEFINE T == {i \in DOMAIN s : s[i].op = "unpin" /\ s[i].item = x
                                  /\ \A j \in 1 .. i - 1 : s[j].op # "insert"}
           f == [i \in DOMAIN s |-> W[s[i]]]
<1>6. \A i \in DOMAIN s : f[i] = IF i \in T THEN 1 ELSE 0
  <2>1. \A i \in DOMAIN s : i \in T <=> (s[i].op = "unpin" /\ s[i].item = x)
    BY <1>5
  <2>2. \A i \in DOMAIN s : W[s[i]] = IF s[i].op = "unpin" /\ s[i].item = x THEN 1 ELSE 0
    BY <1>3, <1>4 DEF Is
  <2> QED BY <2>1, <2>2
<1>7. T \in SUBSET DOMAIN s
  OBVIOUS
<1> HIDE DEF T, f
<1>8. SumFunctionOnSet(f, DOMAIN s) = Cardinality(T)
  BY <1>4, <1>6, <1>7, SumCounts
<1>9. Total(W, s) = Cardinality(T)
  BY <1>8 DEF Total, f
<1> QED BY <1>1, <1>3, <1>9 DEF T

\* Until somebody breaks locks: the lock count of an item is the locks of the
\* clients, one for each frame it is linked into, and those of calls under way.
THEOREM CacheLocksAddUp == Spec => []LocksAddUp
<1>1. Inv => LocksAddUp
  <2> SUFFICES ASSUME Inv, ~forced, NEW x \in Cached
               PROVE  LET pins(t) == Cardinality({i \in DOMAIN todo[t] :
                               todo[t][i].op = "unpin" /\ todo[t][i].item = x
                               /\ \A j \in 1 .. i - 1 : todo[t][j].op # "insert"})
                          frames == Cardinality({t \in Thread : x \in ToSet(frame[t].list)})
                      IN  count[x] = frames
                            + SumFunctionOnSet([t \in Thread |-> holds[t][x] + pins(t)], Thread)
    BY DEF LocksAddUp
  <2> DEFINE pins(t) == Cardinality({i \in DOMAIN todo[t] :
                               todo[t][i].op = "unpin" /\ todo[t][i].item = x
                               /\ \A j \in 1 .. i - 1 : todo[t][j].op # "insert"})
             F == {t \in Thread : x \in ToSet(frame[t].list)}
             a == [t \in Thread |-> InFrame(t, x)]
             b == [t \in Thread |-> holds[t][x] + pins(t)]
             c == [t \in Thread |-> Share(t, x)]
  <2>1. x \in Item /\ x \in Added /\ Types
    BY CachedAdded
  <2>2. Kept(x)
    BY <2>1 DEF Inv, Safe
  <2>3. count[x] = SumFunctionOnSet(c, Thread)
    BY <2>1, <2>2 DEF Kept
  <2>4. ASSUME NEW t \in Thread
        PROVE  /\ a[t] \in Int /\ b[t] \in Int /\ c[t] = a[t] + b[t]
               /\ a[t] = IF t \in F THEN 1 ELSE 0
    <3>1. Total(Is("unpin", x), todo[t]) = pins(t)
      BY <2>1, UnpinsCounted
    <3>2. holds[t][x] \in Nat /\ Total(Is("unpin", x), todo[t]) \in Nat /\ InFrame(t, x) \in {0, 1}
      BY <2>1, <2>2, ShareCounted
    <3> HIDE DEF pins
    <3>3. c[t] = holds[t][x] + Total(Is("unpin", x), todo[t]) + InFrame(t, x)
      BY DEF Share
    <3>4. a[t] = InFrame(t, x) /\ b[t] = holds[t][x] + pins(t)
      OBVIOUS
    <3>5. a[t] = IF t \in F THEN 1 ELSE 0
      BY <3>4 DEF InFrame
    <3> HIDE DEF a, b, c, F
    <3>6. a[t] \in Int /\ b[t] \in Int
      BY <3>1, <3>2, <3>4
    <3>7. c[t] = a[t] + b[t]
      BY <3>1, <3>2, <3>3, <3>4
    <3> QED BY <3>5, <3>6, <3>7
  <2>5. F \in SUBSET Thread
    OBVIOUS
  <2> HIDE DEF a, b, c, F
  <2>6. SumFunctionOnSet(c, Thread) = SumFunctionOnSet(a, Thread) + SumFunctionOnSet(b, Thread)
    BY <2>4, Constants, SumPlus
  <2>7. SumFunctionOnSet(a, Thread) = Cardinality(F)
    BY <2>4, <2>5, Constants, SumCounts
  <2>8. count[x] = Cardinality(F) + SumFunctionOnSet(b, Thread)
    BY <2>3, <2>6, <2>7
  <2> QED BY <2>8 DEF F, b
<1> QED BY <1>1, CacheInvariant, PTL

\* Until somebody breaks locks: no frame, handle or call uses an item that is gone.
THEOREM CacheNothingDangles == Spec => []NothingDangles
<1>1. Inv => NothingDangles
  BY DEF Inv, Safe, NothingDangles
<1> QED BY <1>1, CacheInvariant, PTL

=============================================================================
