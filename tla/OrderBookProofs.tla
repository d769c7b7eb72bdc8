---- MODULE OrderBookProofs ----
(***************************************************************************)
(* Proofs about OrderBook: that what its five invariants say of the linked *)
(* lists, levels, indexes and reservations holds after every call, and     *)
(* that orders come to cross only by the match limit, for any number of    *)
(* prices, orders and traders.                                             *)
(*                                                                         *)
(* The inductive invariant BookInv says of each linked list which sequence *)
(* it is: the ids of a level, the live prices of a side.  The functions    *)
(* that walk the pointers are then shown to return that sequence, and each *)
(* operation to insert into it or remove from it.                          *)
(***************************************************************************)
EXTENDS OrderBook, DataInduction, SequenceTheorems

----------------------------------------------------------------------------
(* Doubly linked lists, as sequences. *)

\* What comes after the i-th element: 0 is nothing.
NextIn(s, i) == IF i = Len(s) THEN 0 ELSE s[i + 1]
\* What comes before the i-th element.
PrevIn(s, i) == IF i = 1 THEN 0 ELSE s[i - 1]
\* Where the list begins.
FirstOf(s) == IF Len(s) = 0 THEN 0 ELSE s[1]
\* Where the list ends.
LastOf(s) == IF Len(s) = 0 THEN 0 ELSE s[Len(s)]

\* The pointers link the elements in the order of s, which names none twice.
LinkedAs(s, next, prev) ==
  /\ \A i \in 1 .. Len(s) : next[s[i]] = NextIn(s, i) /\ prev[s[i]] = PrevIn(s, i)
  /\ \A i, j \in 1 .. Len(s) : s[i] = s[j] => i = j

\* The sequence less its i-th element.
Without(s, i) == [j \in 1 .. Len(s) - 1 |-> IF j < i THEN s[j] ELSE s[j + 1]]

\* Pointers after the i-th element was unlinked.
Unlinked(s, i, next, prev, next2, prev2) ==
  \A j \in 1 .. Len(s) : j # i =>
    /\ next2[s[j]] = IF j + 1 = i THEN NextIn(s, i) ELSE next[s[j]]
    /\ prev2[s[j]] = IF j = i + 1 THEN PrevIn(s, i) ELSE prev[s[j]]

\* Removing an element of a sequence.
LEMMA WithoutIsSeq ==
  ASSUME NEW D, NEW s \in Seq(D), NEW i \in 1 .. Len(s),
         \A j, k \in 1 .. Len(s) : s[j] = s[k] => j = k
  PROVE  /\ Without(s, i) \in Seq(D) /\ Len(Without(s, i)) = Len(s) - 1
         /\ Range(Without(s, i)) = Range(s) \ {s[i]}
         /\ \A j \in 1 .. Len(s) - 1 : Without(s, i)[j] = IF j < i THEN s[j] ELSE s[j + 1]
<1>. DEFINE r == Without(s, i)
            n == Len(s) - 1
<1>1. n \in Nat /\ r \in [1 .. n -> D] /\ \A j \in 1 .. n : r[j] = IF j < i THEN s[j] ELSE s[j + 1]
  BY DEF Without
<1>2. r \in Seq(D) /\ Len(r) = n
  <2>. HIDE DEF r, n
  <2>. QED  BY <1>1
<1>3. Range(r) = {r[j] : j \in 1 .. n} /\ Range(s) = {s[j] : j \in 1 .. Len(s)}
  BY <1>1, <1>2 DEF Range
<1>4. ASSUME NEW x \in Range(r) PROVE x \in Range(s) \ {s[i]}
  <2>1. PICK j \in 1 .. n : x = r[j]
    BY <1>3
  <2>2. CASE j < i
    BY <1>1, <1>3, <2>1, <2>2
  <2>3. CASE ~(j < i)
    <3>1. j + 1 \in 1 .. Len(s) /\ j + 1 # i /\ i \in 1 .. Len(s) /\ x = s[j + 1]
      BY <1>1, <2>1, <2>3
    <3>2. s[j + 1] # s[i]
      BY <3>1
    <3>. QED  BY <1>3, <3>1, <3>2
  <2>. QED  BY <2>2, <2>3
<1>5. ASSUME NEW x \in Range(s) \ {s[i]} PROVE x \in Range(r)
  <2>1. PICK j \in 1 .. Len(s) : x = s[j] /\ j # i
    BY <1>3
  <2>2. CASE j < i
    <3>1. j \in 1 .. n /\ r[j] = x
      BY <1>1, <2>1, <2>2
    <3>. QED  BY <1>3, <3>1
  <2>3. CASE ~(j < i)
    <3>1. j - 1 \in 1 .. n /\ r[j - 1] = x
      BY <1>1, <2>1, <2>3
    <3>. QED  BY <1>3, <3>1
  <2>. QED  BY <2>2, <2>3
<1>. QED  BY <1>1, <1>2, <1>4, <1>5

\* It stays linked when its neighbours are linked to one another.
LEMMA UnlinkedIsLinked ==
  ASSUME NEW D, NEW s \in Seq(D), NEW i \in 1 .. Len(s), NEW next, NEW prev, NEW next2, NEW prev2,
         LinkedAs(s, next, prev), Unlinked(s, i, next, prev, next2, prev2)
  PROVE  /\ LinkedAs(Without(s, i), next2, prev2)
         /\ FirstOf(Without(s, i)) = IF i = 1 THEN NextIn(s, i) ELSE FirstOf(s)
         /\ LastOf(Without(s, i)) = IF i = Len(s) THEN PrevIn(s, i) ELSE LastOf(s)
<1>. DEFINE r == Without(s, i)
            n == Len(s)
<1>1. /\ Len(r) = n - 1 /\ n \in Nat
      /\ \A j \in 1 .. n - 1 : r[j] = IF j < i THEN s[j] ELSE s[j + 1]
  BY WithoutIsSeq DEF LinkedAs
<1>2. \A j \in 1 .. n : next[s[j]] = NextIn(s, j) /\ prev[s[j]] = PrevIn(s, j)
  BY DEF LinkedAs
<1>3. \A j, k \in 1 .. n : s[j] = s[k] => j = k
  BY DEF LinkedAs
<1>4. \A j \in 1 .. n : j # i =>
        /\ next2[s[j]] = IF j + 1 = i THEN NextIn(s, i) ELSE NextIn(s, j)
        /\ prev2[s[j]] = IF j = i + 1 THEN PrevIn(s, i) ELSE PrevIn(s, j)
  BY <1>2 DEF Unlinked
<1>. HIDE DEF r
<1>5. ASSUME NEW j \in 1 .. n - 1
      PROVE  next2[r[j]] = NextIn(r, j) /\ prev2[r[j]] = PrevIn(r, j)
  <2>1. CASE j < i
    <3>1. r[j] = s[j] /\ j \in 1 .. n /\ j # i
      BY <1>1, <2>1
    <3>2. /\ next2[s[j]] = (IF j + 1 = i THEN NextIn(s, i) ELSE NextIn(s, j))
          /\ prev2[s[j]] = PrevIn(s, j)
      BY <1>4, <2>1, <3>1
    <3>3. PrevIn(r, j) = PrevIn(s, j)
      BY <1>1, <2>1 DEF PrevIn
    <3>4. NextIn(r, j) = IF j + 1 = i THEN NextIn(s, i) ELSE NextIn(s, j)
      BY <1>1, <2>1 DEF NextIn
    <3>. QED  BY <3>1, <3>2, <3>3, <3>4
  <2>2. CASE ~(j < i)
    <3>1. r[j] = s[j + 1] /\ j + 1 \in 1 .. n /\ j + 1 # i
      BY <1>1, <2>2
    <3>2. /\ next2[s[j + 1]] = NextIn(s, j + 1)
          /\ prev2[s[j + 1]] = (IF j + 1 = i + 1 THEN PrevIn(s, i) ELSE PrevIn(s, j + 1))
      BY <1>4, <2>2, <3>1
    <3>3. NextIn(r, j) = NextIn(s, j + 1)
      BY <1>1, <2>2 DEF NextIn
    <3>4. PrevIn(r, j) = IF j + 1 = i + 1 THEN PrevIn(s, i) ELSE PrevIn(s, j + 1)
      BY <1>1, <2>2 DEF PrevIn
    <3>. QED  BY <3>1, <3>2, <3>3, <3>4
  <2>. QED  BY <2>1, <2>2
<1>6. \A j, k \in 1 .. n - 1 : r[j] = r[k] => j = k
  BY <1>1, <1>3
<1>7. LinkedAs(r, next2, prev2)
  BY <1>1, <1>5, <1>6 DEF LinkedAs
<1>8. FirstOf(r) = IF i = 1 THEN NextIn(s, i) ELSE FirstOf(s)
  BY <1>1 DEF FirstOf, NextIn
<1>9. LastOf(r) = IF i = Len(s) THEN PrevIn(s, i) ELSE LastOf(s)
  BY <1>1 DEF LastOf, PrevIn
<1>. QED  BY <1>7, <1>8, <1>9 DEF r

\* x put behind the first k elements.
Inserted(s, k, x) ==
  [j \in 1 .. Len(s) + 1 |-> IF j <= k THEN s[j] ELSE IF j = k + 1 THEN x ELSE s[j - 1]]

\* Pointers after x was linked in behind the first k elements.
LinkedIn(s, k, x, next, prev, next2, prev2) ==
  /\ next2[x] = IF k = Len(s) THEN 0 ELSE s[k + 1]
  /\ prev2[x] = IF k = 0 THEN 0 ELSE s[k]
  /\ \A j \in 1 .. Len(s) : /\ next2[s[j]] = IF j = k THEN x ELSE next[s[j]]
                            /\ prev2[s[j]] = IF j = k + 1 THEN x ELSE prev[s[j]]

\* Inserting an element into a sequence.
LEMMA InsertedIsSeq ==
  ASSUME NEW D, NEW s \in Seq(D), NEW k \in 0 .. Len(s), NEW x \in D
  PROVE  /\ Inserted(s, k, x) \in Seq(D) /\ Len(Inserted(s, k, x)) = Len(s) + 1
         /\ Range(Inserted(s, k, x)) = Range(s) \cup {x}
         /\ \A j \in 1 .. Len(s) + 1 :
              Inserted(s, k, x)[j] = IF j <= k THEN s[j] ELSE IF j = k + 1 THEN x ELSE s[j - 1]
<1>. DEFINE r == Inserted(s, k, x)
            n == Len(s) + 1
<1>1. /\ n \in Nat /\ r \in [1 .. n -> D]
      /\ \A j \in 1 .. n : r[j] = IF j <= k THEN s[j] ELSE IF j = k + 1 THEN x ELSE s[j - 1]
  BY DEF Inserted
<1>2. r \in Seq(D) /\ Len(r) = n
  <2>. HIDE DEF r, n
  <2>. QED  BY <1>1
<1>3. Range(r) = {r[j] : j \in 1 .. n} /\ Range(s) = {s[j] : j \in 1 .. Len(s)}
  BY <1>1, <1>2 DEF Range
<1>4. ASSUME NEW y \in Range(r) PROVE y \in Range(s) \cup {x}
  <2>1. PICK j \in 1 .. n : y = r[j]
    BY <1>3
  <2>. QED  BY <1>1, <1>3, <2>1
<1>5. ASSUME NEW y \in Range(s) PROVE y \in Range(r)
  <2>1. PICK j \in 1 .. Len(s) : y = s[j]
    BY <1>3
  <2>2. CASE j <= k
    <3>1. j \in 1 .. n /\ r[j] = y
      BY <1>1, <2>1, <2>2
    <3>. QED  BY <1>3, <3>1
  <2>3. CASE ~(j <= k)
    <3>1. j + 1 \in 1 .. n /\ r[j + 1] = y
      BY <1>1, <2>1, <2>3
    <3>. QED  BY <1>3, <3>1
  <2>. QED  BY <2>2, <2>3
<1>6. x \in Range(r)
  <2>1. k + 1 \in 1 .. n /\ r[k + 1] = x
    BY <1>1
  <2>. QED  BY <1>3, <2>1
<1>. QED  BY <1>1, <1>2, <1>4, <1>5, <1>6

\* A new element linked in.
LEMMA LinkedInIsLinked ==
  ASSUME NEW D, NEW s \in Seq(D), NEW k \in 0 .. Len(s), NEW x \in D, x \notin Range(s),
         NEW next, NEW prev, NEW next2, NEW prev2,
         LinkedAs(s, next, prev), LinkedIn(s, k, x, next, prev, next2, prev2)
  PROVE  /\ LinkedAs(Inserted(s, k, x), next2, prev2)
         /\ FirstOf(Inserted(s, k, x)) = IF k = 0 THEN x ELSE FirstOf(s)
         /\ LastOf(Inserted(s, k, x)) = IF k = Len(s) THEN x ELSE LastOf(s)
<1>. DEFINE r == Inserted(s, k, x)
            n == Len(s)
<1>1. /\ Len(r) = n + 1 /\ n \in Nat
      /\ \A j \in 1 .. n + 1 : r[j] = IF j <= k THEN s[j] ELSE IF j = k + 1 THEN x ELSE s[j - 1]
  BY InsertedIsSeq
<1>2. \A j \in 1 .. n : next[s[j]] = NextIn(s, j) /\ prev[s[j]] = PrevIn(s, j)
  BY DEF LinkedAs
<1>3. (\A i, j \in 1 .. n : s[i] = s[j] => i = j) /\ \A i \in 1 .. n : s[i] # x
  BY DEF LinkedAs, Range
<1>4. /\ next2[x] = (IF k = n THEN 0 ELSE s[k + 1]) /\ prev2[x] = (IF k = 0 THEN 0 ELSE s[k])
      /\ \A j \in 1 .. n : /\ next2[s[j]] = IF j = k THEN x ELSE NextIn(s, j)
                           /\ prev2[s[j]] = IF j = k + 1 THEN x ELSE PrevIn(s, j)
  BY <1>2 DEF LinkedIn
<1>. HIDE DEF r
<1>5. ASSUME NEW j \in 1 .. n + 1
      PROVE  next2[r[j]] = NextIn(r, j) /\ prev2[r[j]] = PrevIn(r, j)
  <2>1. CASE j <= k
    <3>1. r[j] = s[j] /\ j \in 1 .. n /\ j # k + 1
      BY <1>1, <2>1
    <3>2. next2[s[j]] = (IF j = k THEN x ELSE NextIn(s, j)) /\ prev2[s[j]] = PrevIn(s, j)
      BY <1>4, <3>1
    <3>3. PrevIn(r, j) = PrevIn(s, j)
      BY <1>1, <2>1 DEF PrevIn
    <3>4. NextIn(r, j) = IF j = k THEN x ELSE NextIn(s, j)
      BY <1>1, <2>1 DEF NextIn
    <3>. QED  BY <3>1, <3>2, <3>3, <3>4
  <2>2. CASE j = k + 1
    <3>1. r[j] = x /\ j \in 1 .. n + 1
      BY <1>1, <2>2
    <3>2. NextIn(r, j) = IF k = n THEN 0 ELSE s[k + 1]
      <4>1. CASE k = n
        BY <1>1, <2>2, <4>1 DEF NextIn
      <4>2. CASE k # n
        <5>1. j + 1 \in 1 .. n + 1 /\ ~(j + 1 <= k) /\ j + 1 # k + 1 /\ (j + 1) - 1 = k + 1
          BY <1>1, <2>2, <4>2
        <5>2. r[j + 1] = s[k + 1]
          BY <1>1, <5>1
        <5>. QED  BY <1>1, <2>2, <4>2, <5>2 DEF NextIn
      <4>. QED  BY <4>1, <4>2
    <3>3. PrevIn(r, j) = IF k = 0 THEN 0 ELSE s[k]
      <4>1. CASE k = 0
        BY <2>2, <4>1 DEF PrevIn
      <4>2. CASE k # 0
        <5>1. j - 1 \in 1 .. n + 1 /\ j - 1 <= k /\ j - 1 = k /\ j # 1
          BY <1>1, <2>2, <4>2
        <5>2. r[j - 1] = s[k]
          BY <1>1, <5>1
        <5>. QED  BY <4>2, <5>1, <5>2 DEF PrevIn
      <4>. QED  BY <4>1, <4>2
    <3>. QED  BY <1>4, <3>1, <3>2, <3>3
  <2>3. CASE j > k + 1
    <3>1. r[j] = s[j - 1] /\ j - 1 \in 1 .. n /\ j - 1 # k
      BY <1>1, <2>3
    <3>2. /\ next2[s[j - 1]] = NextIn(s, j - 1)
          /\ prev2[s[j - 1]] = (IF j - 1 = k + 1 THEN x ELSE PrevIn(s, j - 1))
      BY <1>4, <3>1
    <3>3. NextIn(r, j) = NextIn(s, j - 1)
      BY <1>1, <2>3 DEF NextIn
    <3>4. PrevIn(r, j) = IF j - 1 = k + 1 THEN x ELSE PrevIn(s, j - 1)
      BY <1>1, <2>3 DEF PrevIn
    <3>. QED  BY <3>1, <3>2, <3>3, <3>4
  <2>. QED  BY <2>1, <2>2, <2>3
<1>6. ASSUME NEW i \in 1 .. n + 1, NEW j \in 1 .. n + 1, r[i] = r[j] PROVE i = j
  <2>. DEFINE Old(l) == IF l <= k THEN l ELSE l - 1
  <2>1. ASSUME NEW l \in 1 .. n + 1, l # k + 1
        PROVE  Old(l) \in 1 .. n /\ r[l] = s[Old(l)]
    BY <1>1, <2>1
  <2>2. r[k + 1] = x /\ k + 1 \in 1 .. n + 1
    BY <1>1
  <2>3. CASE i = k + 1 \/ j = k + 1
    <3>. HIDE DEF Old
    <3>. QED  BY <1>3, <1>6, <2>1, <2>2, <2>3
  <2>4. CASE i # k + 1 /\ j # k + 1
    <3>1. Old(i) = Old(j)
      <4>. HIDE DEF Old
      <4>. QED  BY <1>3, <1>6, <2>1, <2>4
    <3>. QED  BY <1>1, <2>4, <3>1
  <2>. QED  BY <2>3, <2>4
<1>7. LinkedAs(r, next2, prev2)
  BY <1>1, <1>5, <1>6 DEF LinkedAs
<1>8. FirstOf(r) = IF k = 0 THEN x ELSE FirstOf(s)
  BY <1>1 DEF FirstOf
<1>9. LastOf(r) = IF k = Len(s) THEN x ELSE LastOf(s)
  BY <1>1 DEF LastOf
<1>. QED  BY <1>7, <1>8, <1>9 DEF r

\* f[x] is what one meets from x on.
Walks(f, dom, next) == f = [x \in dom |-> IF x = 0 THEN <<>> ELSE <<x>> \o f[next[x]]]

\* Every x is the at[x]-th element of the list Q[x].
ListsAll(Q, at, dom, next) ==
  \A x \in dom \ {0} :
    /\ Q[x] \in Seq(dom) /\ at[x] \in 1 .. Len(Q[x]) /\ Q[x][at[x]] = x
    /\ next[x] \in dom
    /\ next[x] = 0 => at[x] = Len(Q[x])
    /\ next[x] # 0 => at[x] < Len(Q[x]) /\ Q[next[x]] = Q[x] /\ at[next[x]] = at[x] + 1

\* The rest of a sequence.
LEMMA RestOfSeq ==
  ASSUME NEW D, NEW s \in Seq(D), NEW i \in 1 .. Len(s)
  PROVE  /\ SubSeq(s, i, Len(s)) \in Seq(D)
         /\ i < Len(s) => SubSeq(s, i, Len(s)) = <<s[i]>> \o SubSeq(s, i + 1, Len(s))
         /\ i = Len(s) => SubSeq(s, i, Len(s)) = <<s[i]>> \o <<>>
         /\ SubSeq(s, 1, Len(s)) = s
<1>. DEFINE n == Len(s)
<1>1. n \in Nat /\ n \in i .. n /\ \A j \in i .. n : s[j] \in D
  OBVIOUS
<1>2. SubSeq(s, i, n) \in Seq(D)
  BY <1>1, SubSeqProperties
<1>3. SubSeq(s, i, n) = <<s[i]>> \o SubSeq(s, i + 1, n)
  BY <1>1, SubSeqRecursiveFirst
<1>4. i = n => SubSeq(s, i + 1, n) = <<>>
  BY <1>1, SubSeqEmpty
<1>5. SubSeq(s, 1, n) = s
  BY SubSeqFull
<1>. QED  BY <1>2, <1>3, <1>4, <1>5

\* Then the walks over the pointers exist: the definition of f is not circular.
LEMMA WalkExists ==
  ASSUME NEW dom, 0 \in dom, NEW next, NEW Q, NEW at, ListsAll(Q, at, dom, next)
  PROVE  \E f : Walks(f, dom, next)
<1>. DEFINE Onward(x) == SubSeq(Q[x], at[x], Len(Q[x]))
            f == [x \in dom |-> IF x = 0 THEN <<>> ELSE Onward(x)]
<1>1. ASSUME NEW x \in dom \ {0} PROVE f[x] = <<x>> \o f[next[x]]
  <2>1. /\ Q[x] \in Seq(dom) /\ at[x] \in 1 .. Len(Q[x]) /\ Q[x][at[x]] = x
        /\ next[x] \in dom /\ f[x] = Onward(x)
    BY DEF ListsAll
  <2>2. CASE next[x] = 0
    <3>1. at[x] = Len(Q[x]) /\ f[next[x]] = <<>>
      BY <2>2 DEF ListsAll
    <3>2. ASSUME NEW q, NEW a, q \in Seq(dom), a \in 1 .. Len(q), a = Len(q)
          PROVE  SubSeq(q, a, Len(q)) = <<q[a]>> \o <<>>
      BY <3>2, RestOfSeq
    <3>3. Onward(x) = <<Q[x][at[x]]>> \o <<>>
      BY <2>1, <3>1, <3>2
    <3>. HIDE DEF f, Onward
    <3>. QED  BY <2>1, <3>1, <3>3
  <2>3. CASE next[x] # 0
    <3>1. /\ at[x] < Len(Q[x]) /\ Q[next[x]] = Q[x] /\ at[next[x]] = at[x] + 1
          /\ f[next[x]] = Onward(next[x])
      BY <2>1, <2>3 DEF ListsAll
    <3>2. Onward(x) = <<Q[x][at[x]]>> \o SubSeq(Q[x], at[x] + 1, Len(Q[x]))
      <4>. HIDE DEF f
      <4>. QED  BY <2>1, <3>1, RestOfSeq
    <3>3. Onward(next[x]) = SubSeq(Q[x], at[x] + 1, Len(Q[x]))
      BY <3>1
    <3>. HIDE DEF f, Onward
    <3>. QED  BY <2>1, <3>1, <3>2, <3>3
  <2>. QED  BY <2>2, <2>3
<1>. QED  BY <1>1 DEF Walks

\* A walk from the first element of a list is the list.
LEMMA WalkIsList ==
  ASSUME NEW dom, 0 \in dom, NEW s \in Seq(dom \ {0}), NEW next,
         \A i \in 1 .. Len(s) : next[s[i]] = NextIn(s, i),
         NEW f, Walks(f, dom, next)
  PROVE  f[FirstOf(s)] = s
<1>. DEFINE n == Len(s)
            T == {k \in Nat : k < n => f[s[n - k]] = SubSeq(s, n - k, n)}
<1>1. n \in Nat /\ \A i \in 1 .. n : s[i] \in dom /\ s[i] # 0
  OBVIOUS
<1>2. f[0] = <<>> /\ \A i \in 1 .. n : f[s[i]] = <<s[i]>> \o f[next[s[i]]]
  BY <1>1 DEF Walks
<1>3. 0 \in T
  <2>1. SUFFICES ASSUME 0 < n PROVE f[s[n]] = SubSeq(s, n, n)
    BY <1>1
  <2>2. n \in 1 .. n /\ next[s[n]] = 0
    BY <1>1, <2>1 DEF NextIn
  <2>3. f[s[n]] = <<s[n]>> \o <<>>
    BY <1>2, <2>2
  <2>. QED  BY <2>2, <2>3, RestOfSeq
<1>4. ASSUME NEW k \in Nat, k \in T PROVE k + 1 \in T
  <2>1. SUFFICES ASSUME k + 1 < n PROVE f[s[n - (k + 1)]] = SubSeq(s, n - (k + 1), n)
    BY <1>1
  <2>. DEFINE i == n - (k + 1)
  <2>2. i \in 1 .. n /\ i < n /\ i + 1 = n - k /\ i + 1 \in 1 .. n /\ i # n
    BY <1>1, <2>1
  <2>3. next[s[i]] = s[i + 1]
    BY <2>2 DEF NextIn
  <2>4. f[s[i + 1]] = SubSeq(s, i + 1, n)
    <3>1. k < n /\ f[s[n - k]] = SubSeq(s, n - k, n)
      BY <1>1, <1>4, <2>1
    <3>. HIDE DEF i, T
    <3>. QED  BY <2>2, <3>1
  <2>5. f[s[i]] = <<s[i]>> \o SubSeq(s, i + 1, n)
    BY <1>2, <2>2, <2>3, <2>4
  <2>. HIDE DEF i
  <2>6. f[s[i]] = SubSeq(s, i, n)
    BY <2>2, <2>5, RestOfSeq
  <2>. QED  BY <2>6 DEF i
<1>5. \A k \in Nat : k \in T
  <2>. HIDE DEF T
  <2>. QED  BY <1>3, <1>4, SetInduction
<1>6. CASE n = 0
  BY <1>2, <1>6 DEF FirstOf
<1>7. CASE n # 0
  <2>1. n - 1 \in T /\ n - (n - 1) = 1 /\ n - 1 \in Nat /\ n - 1 < n /\ 1 \in 1 .. n
    BY <1>1, <1>5, <1>7
  <2>2. f[s[1]] = SubSeq(s, 1, n)
    BY <2>1
  <2>. QED  BY <1>7, <2>1, <2>2, RestOfSeq DEF FirstOf
<1>. QED  BY <1>6, <1>7

----------------------------------------------------------------------------
(* Levels and their queues. *)

\* The nextOrderId field of the orders.
NextOf(orders) == [x \in 0 .. MaxOrders |-> orders[x].next]
\* The prevOrderId field of the orders.
PrevOf(orders) == [x \in 0 .. MaxOrders |-> orders[x].prev]
\* What the orders are for.
AmountsOf(orders) == [id \in Ids |-> orders[id].amount]

\* id is one of the orders of a level.
Belongs(orders, side, p, id) ==
  orders[id].trader # NULL /\ orders[id].side = side /\ orders[id].price = p

\* Ids ascend: earlier orders come first.
Ascending(s) == \A i, j \in 1 .. Len(s) : i < j => s[i] < s[j]

\* s is the queue of a level.
QueueIs(orders, side, p, s) ==
  /\ s \in Seq(Ids) /\ Ascending(s)
  /\ LinkedAs(s, NextOf(orders), PrevOf(orders))
  /\ Range(s) = {id \in Ids : Belongs(orders, side, p, id)}

\* What is stored about a level with the queue s.
LevelOf(orders, s) ==
  IF Len(s) = 0 THEN NoLevel
  ELSE [total |-> SumFunctionOnSet(AmountsOf(orders), Range(s)),
        first |-> FirstOf(s), last |-> LastOf(s), exists |-> TRUE]

\* A level is stored as its queue says.
LevelGood(orders, level, side, p) ==
  \E s : QueueIs(orders, side, p, s) /\ level = LevelOf(orders, s)

\* Every order is empty or one of a level; X are ids whose amount may be 0.
OrdersGood(orders, nextId, X) ==
  /\ orders \in [0 .. MaxOrders -> Orders]
  /\ nextId \in 1 .. MaxOrders + 1
  /\ \A id \in 0 .. MaxOrders :
       \/ orders[id] = NoOrder
       \/ /\ id \in 1 .. nextId - 1
          /\ orders[id].trader \in Traders /\ orders[id].price \in Prices
          /\ orders[id].side \in SidesOf[orders[id].trader]
          /\ id \in X \/ orders[id].amount # 0

\* All levels of a book.
LevelsGood(orders, levels) ==
  /\ levels \in [Sides -> [Prices -> Levels]]
  /\ \A side \in Sides, p \in Prices : LevelGood(orders, levels[side][p], side, p)

\* The numbers of the constants.
LEMMA BookConstants ==
  /\ MaxOrders \in Nat /\ Ids = 1 .. MaxOrders /\ 0 \notin Ids /\ 0 \in 0 .. MaxOrders
  /\ 0 \notin Prices /\ NULL \notin Traders /\ IsFiniteSet(Ids) /\ Prices \subseteq Nat
  /\ 0 .. MaxOrders = Ids \cup {0} /\ (0 .. MaxOrders) \ {0} = Ids
<1>1. MaxOrders \in Nat /\ Prices \subseteq Nat \ {0} /\ NULL \notin Traders
  BY BookAssumption
<1>2. Ids = 1 .. MaxOrders /\ IsFiniteSet(1 .. MaxOrders)
  BY <1>1, FS_Interval DEF Ids
<1>. QED  BY <1>1, <1>2

\* A resting order is one of a level, which exists.
LEMMA OrderIsQueued ==
  ASSUME NEW orders, NEW nextId, NEW X, OrdersGood(orders, nextId, X),
         NEW levels, LevelsGood(orders, levels), NEW id \in 0 .. MaxOrders,
         orders[id].trader # NULL
  PROVE  /\ id \in Ids /\ orders[id].side \in Sides /\ orders[id].price \in Prices
         /\ orders[id].trader \in Traders
         /\ \E s : /\ QueueIs(orders, orders[id].side, orders[id].price, s)
                   /\ levels[orders[id].side][orders[id].price] = LevelOf(orders, s)
                   /\ \E i \in 1 .. Len(s) : s[i] = id
<1>1. orders[id] # NoOrder
  BY DEF NoOrder
<1>2. /\ id \in Ids /\ orders[id].trader \in Traders /\ orders[id].price \in Prices
      /\ orders[id].side \in Sides
  BY <1>1, BookConstants DEF OrdersGood, Orders
<1>3. PICK s : /\ QueueIs(orders, orders[id].side, orders[id].price, s)
               /\ levels[orders[id].side][orders[id].price] = LevelOf(orders, s)
  BY <1>2 DEF LevelsGood, LevelGood
<1>4. id \in Range(s) /\ s \in Seq(Ids)
  BY <1>2, <1>3 DEF QueueIs, Belongs
<1>5. \E i \in 1 .. Len(s) : s[i] = id
  BY <1>4 DEF Range
<1>. QED  BY <1>2, <1>3, <1>5

\* Following the pointers from the first order of a level gives its queue.
LEMMA ChainIsQueue ==
  ASSUME NEW b, NEW nextId, NEW X, OrdersGood(b.orders, nextId, X), LevelsGood(b.orders, b.levels),
         NEW side, NEW p, NEW s, QueueIs(b.orders, side, p, s)
  PROVE  Chain(b, FirstOf(s)) = s
<1>. DEFINE orders == b.orders
            next == NextOf(orders)
            dom == 0 .. MaxOrders
            Rests(x) == orders[x].trader # NULL
            Has(x, q) == QueueIs(orders, orders[x].side, orders[x].price, q)
            Q == [x \in dom |-> IF Rests(x) THEN CHOOSE q : Has(x, q) ELSE <<x>>]
            at == [x \in dom |-> CHOOSE i : i \in 1 .. Len(Q[x]) /\ Q[x][i] = x]
            Loop(f) == f = [x \in 0 .. MaxOrders |->
                              IF x = 0 THEN <<>> ELSE <<x>> \o f[b.orders[x].next]]
            loop == CHOOSE f : Loop(f)
<1>1. Chain(b, FirstOf(s)) = loop[FirstOf(s)]
  BY Zenon DEF Chain
<1>2. ASSUME NEW x \in dom \ {0}
      PROVE  /\ Q[x] \in Seq(Ids) /\ at[x] \in 1 .. Len(Q[x]) /\ Q[x][at[x]] = x
             /\ Rests(x) => Has(x, Q[x])
             /\ ~Rests(x) => Q[x] = <<x>>
  <2>1. x \in dom /\ x \in Ids
    BY BookConstants
  <2>2. Q[x] \in Seq(Ids) /\ (\E i \in 1 .. Len(Q[x]) : Q[x][i] = x) /\ (Rests(x) => Has(x, Q[x]))
    <3>1. CASE Rests(x)
      <4>1. PICK q : Has(x, q) /\ \E i \in 1 .. Len(q) : q[i] = x
        BY <2>1, <3>1, OrderIsQueued
      <4>2. Q[x] = CHOOSE r : Has(x, r)
        BY <3>1, <2>1
      <4>3. Has(x, Q[x])
        <5>. HIDE DEF Has, Q
        <5>. QED  BY <4>1, <4>2
      <4>4. Range(q) = Range(Q[x]) /\ q \in Seq(Ids) /\ Q[x] \in Seq(Ids)
        <5>. HIDE DEF Q
        <5>. QED  BY <4>1, <4>3 DEF QueueIs
      <4>5. x \in Range(Q[x])
        <5>. HIDE DEF Q, Has
        <5>. QED  BY <4>1, <4>4 DEF Range
      <4>6. \E i \in 1 .. Len(Q[x]) : Q[x][i] = x
        <5>. HIDE DEF Q, Has
        <5>. QED  BY <4>4, <4>5 DEF Range
      <4>. QED  BY <4>3, <4>4, <4>6
    <3>2. CASE ~Rests(x)
      <4>1. Q[x] = <<x>> /\ 1 \in 1 .. Len(<<x>>) /\ <<x>> \in Seq(Ids) /\ <<x>>[1] = x
        BY <2>1, <3>2
      <4>. QED  BY <3>2, <4>1
    <3>. QED  BY <3>1, <3>2
  <2>3. at[x] = CHOOSE i : i \in 1 .. Len(Q[x]) /\ Q[x][i] = x
    BY <2>1
  <2>4. ~Rests(x) => Q[x] = <<x>>
    BY <2>1
  <2>. HIDE DEF at, Q
  <2>. QED  BY <2>2, <2>3, <2>4
<1>3. ASSUME NEW x \in dom, ~Rests(x) PROVE orders[x].next = 0
  <2>1. orders[x].trader = NULL
    BY <1>3
  <2>2. orders[x] = NoOrder \/ orders[x].trader \in Traders
    BY DEF OrdersGood
  <2>3. orders[x] = NoOrder
    BY <2>1, <2>2, BookConstants
  <2>. QED  BY <2>3 DEF NoOrder
<1>4. \A x \in dom : next[x] = orders[x].next /\ orders[x].next \in dom
  BY DEF OrdersGood, Orders, NextOf
<1>5. ListsAll(Q, at, dom, next)
  <2>1. SUFFICES ASSUME NEW x \in dom \ {0}
                 PROVE  /\ Q[x] \in Seq(dom) /\ next[x] \in dom
                        /\ next[x] = 0 => at[x] = Len(Q[x])
                        /\ next[x] # 0 => /\ at[x] < Len(Q[x]) /\ Q[next[x]] = Q[x]
                                          /\ at[next[x]] = at[x] + 1
    <3>. HIDE DEF Q, at, Rests, Has
    <3>. QED  BY <1>2 DEF ListsAll
  <2>2. next[x] \in dom
    BY <1>4
  <2>3. CASE ~Rests(x)
    <3>1. next[x] = 0
      BY <1>3, <1>4, <2>3
    <3>2. Q[x] = <<x>> /\ at[x] \in 1 .. Len(Q[x]) /\ Q[x] \in Seq(Ids)
      <4>. HIDE DEF Q, at
      <4>. QED  BY <1>2, <2>3
    <3>3. Len(Q[x]) = 1 /\ Ids \subseteq dom
      <4>. HIDE DEF Q
      <4>. QED  BY <3>2, BookConstants
    <3>. HIDE DEF Q, at
    <3>. QED  BY <2>2, <3>1, <3>2, <3>3
  <2>4. CASE Rests(x)
    <3>1. /\ Q[x] \in Seq(Ids) /\ at[x] \in 1 .. Len(Q[x]) /\ Q[x][at[x]] = x /\ Has(x, Q[x])
      <4>. HIDE DEF Q, at, Has
      <4>. QED  BY <1>2, <2>4
    <3>. DEFINE q == Q[x]
                i == at[x]
    <3>2. next[q[i]] = NextIn(q, i) /\ \A j, k \in 1 .. Len(q) : q[j] = q[k] => j = k
      <4>. HIDE DEF Q, at
      <4>. QED  BY <3>1 DEF QueueIs, LinkedAs
    <3>3. \A j \in 1 .. Len(q) : q[j] # 0 /\ q[j] \in dom
      <4>. HIDE DEF Q, at, Has
      <4>. QED  BY <3>1, BookConstants
    <3>4. next[x] = 0 => i = Len(q)
      <4>. HIDE DEF Q, at, Has
      <4>. QED  BY <3>1, <3>2, <3>3 DEF NextIn
    <3>5. ASSUME next[x] # 0 PROVE i < Len(q) /\ Q[next[x]] = Q[x] /\ at[next[x]] = i + 1
      <4>1. i # Len(q) /\ next[x] = q[i + 1] /\ i + 1 \in 1 .. Len(q)
        <5>. HIDE DEF Q, at, Has
        <5>. QED  BY <3>1, <3>2, <3>5 DEF NextIn
      <4>. DEFINE y == q[i + 1]
      <4>2. y \in Range(q) /\ y \in dom \ {0}
        <5>. HIDE DEF Q, at, Has
        <5>. QED  BY <3>1, <3>3, <4>1 DEF Range
      <4>3. Belongs(orders, orders[x].side, orders[x].price, y)
        <5>. HIDE DEF Q, at
        <5>. QED  BY <3>1, <4>2 DEF QueueIs
      <4>4. Rests(y) /\ orders[y].side = orders[x].side /\ orders[y].price = orders[x].price
        <5>. HIDE DEF Q, at, Has, y
        <5>. QED  BY <4>3 DEF Belongs
      <4>5. Q[y] = CHOOSE r : Has(y, r)
        <5>. HIDE DEF y, Has
        <5>. QED  BY <4>2, <4>4
      <4>6. Q[x] = CHOOSE r : Has(x, r)
        <5>. HIDE DEF Has
        <5>. QED  BY <2>4
      <4>7. Q[y] = Q[x]
        <5>1. (CHOOSE r : Has(y, r)) = (CHOOSE r : Has(x, r))
          <6>. HIDE DEF Q, at, y
          <6>. QED  BY <4>4
        <5>. HIDE DEF Q, Has, y
        <5>. QED  BY <4>5, <4>6, <5>1
      <4>8. at[y] \in 1 .. Len(q) /\ q[at[y]] = y
        <5>. HIDE DEF Q, at, Has, y
        <5>. QED  BY <1>2, <4>2, <4>7
      <4>9. at[y] = i + 1
        <5>. HIDE DEF Q, at, Has
        <5>. QED  BY <3>2, <4>1, <4>8
      <4>. HIDE DEF Q, at, Has
      <4>. QED  BY <3>1, <4>1, <4>7, <4>9
    <3>6. Q[x] \in Seq(dom)
      <4>1. q \in Seq(Ids) /\ \A j \in 1 .. Len(q) : q[j] \in dom
        <5>. HIDE DEF Q, at, Has
        <5>. QED  BY <3>1, <3>3
      <4>. HIDE DEF q, dom
      <4>2. q \in Seq(dom)
        BY <4>1
      <4>. QED  BY <4>2 DEF q
    <3>. HIDE DEF Q, at, Has, dom
    <3>. QED  BY <2>2, <3>4, <3>5, <3>6
  <2>. HIDE DEF Q, at, Has
  <2>. QED  BY <2>3, <2>4
<1>6. PICK f : Walks(f, dom, next)
  <2>. HIDE DEF Q, at, next
  <2>. QED  BY <1>5, WalkExists, BookConstants
<1>7. \A g : Loop(g) <=> Walks(g, dom, next)
  <2>1. \A g : [x \in dom |-> IF x = 0 THEN <<>> ELSE <<x>> \o g[b.orders[x].next]]
             = [x \in dom |-> IF x = 0 THEN <<>> ELSE <<x>> \o g[next[x]]]
    <3>. HIDE DEF next
    <3>. QED  BY <1>4
  <2>. HIDE DEF next
  <2>. QED  BY <2>1, Zenon DEF Walks
<1>8. Loop(loop)
  <2>. HIDE DEF Loop
  <2>. QED  BY <1>6, <1>7, Zenon
<1>. HIDE DEF loop
<1>9. s \in Seq(dom \ {0}) /\ \A i \in 1 .. Len(s) : next[s[i]] = NextIn(s, i)
  BY BookConstants DEF QueueIs, LinkedAs
<1>. HIDE DEF Q, at, next, Loop
<1>10. loop[FirstOf(s)] = s
  <2>1. Walks(loop, dom, next)
    BY <1>7, <1>8
  <2>2. 0 \in dom
    BY BookConstants
  <2>. HIDE DEF dom
  <2>. QED  BY <1>9, <2>1, <2>2, WalkIsList
<1>. QED  BY <1>1, <1>10

----------------------------------------------------------------------------
(* The list of prices of a side. *)

\* The price pointers of both sides.
Pointers == [Sides -> [Prices -> Prices0]]

\* The better prices come first.
InOrder(side, s) == \A i, j \in 1 .. Len(s) : i < j => Ahead(side, s[i], s[j])

\* s is the list of the live prices; other prices have no pointers.
PricesAre(levels, next, prev, side, s) ==
  /\ s \in Seq(Prices)
  /\ LinkedAs(s, next[side], prev[side])
  /\ Range(s) = {p \in Prices : levels[side][p].exists}
  /\ InOrder(side, s)
  /\ \A p \in Prices \ Range(s) : next[side][p] = 0 /\ prev[side][p] = 0

\* Two prices are the same or one is ahead.
LEMMA AheadIsOrder ==
  ASSUME NEW side \in Sides, NEW p \in Prices, NEW q \in Prices
  PROVE  /\ p = q \/ Ahead(side, p, q) \/ Ahead(side, q, p)
         /\ ~(Ahead(side, p, q) /\ Ahead(side, q, p)) /\ ~Ahead(side, p, p)
         /\ \A r \in Prices : Ahead(side, p, q) /\ Ahead(side, q, r) => Ahead(side, p, r)
BY BookConstants DEF Ahead, Sides

\* Following the pointers from the first price gives the list.
LEMMA LinkedIsList ==
  ASSUME NEW b, NEW side \in Sides, b.next \in Pointers, NEW s,
         PricesAre(b.levels, b.next, b.prev, side, s)
  PROVE  Linked(b, side, FirstOf(s)) = s /\ Linked(b, side, 0) = <<>>
<1>. DEFINE next == b.next[side]
            dom == Prices0
            Q == [x \in dom |-> IF x \in Range(s) THEN s ELSE <<x>>]
            at == [x \in dom |->
                    IF x \in Range(s) THEN CHOOSE i : i \in 1 .. Len(s) /\ s[i] = x ELSE 1]
            Loop(f) == f = [q \in Prices0 |-> IF q = 0 THEN <<>> ELSE <<q>> \o f[b.next[side][q]]]
            loop == CHOOSE f : Loop(f)
<1>1. \A x : Linked(b, side, x) = loop[x]
  BY Zenon DEF Linked
<1>2. /\ s \in Seq(Prices) /\ LinkedAs(s, next, b.prev[side]) /\ next \in [Prices -> Prices0]
      /\ \A p \in Prices \ Range(s) : next[p] = 0
      /\ 0 \in dom /\ dom \ {0} = Prices
  <2>. HIDE DEF Q, at, Loop, loop
  <2>1. 0 \in dom /\ dom \ {0} = Prices
    BY BookConstants DEF Prices0
  <2>2. next \in [Prices -> Prices0]
    BY DEF Pointers
  <2>. QED  BY <2>1, <2>2 DEF PricesAre
<1>3. ListsAll(Q, at, dom, next)
  <2>1. SUFFICES ASSUME NEW x \in Prices
                 PROVE  /\ Q[x] \in Seq(dom) /\ at[x] \in 1 .. Len(Q[x]) /\ Q[x][at[x]] = x
                        /\ next[x] \in dom
                        /\ next[x] = 0 => at[x] = Len(Q[x])
                        /\ next[x] # 0 => /\ at[x] < Len(Q[x]) /\ Q[next[x]] = Q[x]
                                          /\ at[next[x]] = at[x] + 1
    <3>. HIDE DEF Q, at, next, dom
    <3>. QED  BY <1>2 DEF ListsAll
  <2>2. next[x] \in dom /\ x \in dom
    <3>. HIDE DEF next
    <3>. QED  BY <1>2 DEF Prices0
  <2>3. CASE x \notin Range(s)
    <3>1. next[x] = 0
      <4>. HIDE DEF next
      <4>. QED  BY <1>2, <2>3
    <3>2. Q[x] = <<x>> /\ at[x] = 1
      BY <2>2, <2>3
    <3>. HIDE DEF Q, at, next, dom
    <3>. QED  BY <2>2, <3>1, <3>2
  <2>4. CASE x \in Range(s)
    <3>1. Q[x] = s /\ at[x] = CHOOSE i : i \in 1 .. Len(s) /\ s[i] = x
      BY <2>2, <2>4
    <3>2. \E i : i \in 1 .. Len(s) /\ s[i] = x
      BY <1>2, <2>4 DEF Range
    <3>3. at[x] \in 1 .. Len(s) /\ s[at[x]] = x
      <4>. HIDE DEF at, Q
      <4>. QED  BY <3>1, <3>2
    <3>. DEFINE i == at[x]
    <3>4. next[s[i]] = NextIn(s, i) /\ \A j, k \in 1 .. Len(s) : s[j] = s[k] => j = k
      <4>. HIDE DEF at, Q, next
      <4>. QED  BY <1>2, <3>3 DEF LinkedAs
    <3>5. \A j \in 1 .. Len(s) : s[j] # 0 /\ s[j] \in dom /\ s[j] \in Range(s)
      <4>. HIDE DEF at, Q, next
      <4>. QED  BY <1>2, BookConstants DEF Range
    <3>6. next[x] = 0 => i = Len(s)
      <4>. HIDE DEF at, Q, next
      <4>. QED  BY <1>2, <3>3, <3>4, <3>5 DEF NextIn
    <3>7. ASSUME next[x] # 0 PROVE i < Len(s) /\ Q[next[x]] = s /\ at[next[x]] = i + 1
      <4>1. i < Len(s) /\ next[x] = s[i + 1] /\ i + 1 \in 1 .. Len(s)
        <5>. HIDE DEF at, Q, next
        <5>. QED  BY <1>2, <3>3, <3>4, <3>7 DEF NextIn
      <4>. DEFINE y == s[i + 1]
      <4>2. y \in Range(s) /\ y \in dom
        <5>. HIDE DEF at, Q, next
        <5>. QED  BY <3>5, <4>1
      <4>3. Q[y] = s /\ at[y] = CHOOSE j : j \in 1 .. Len(s) /\ s[j] = y
        <5>. HIDE DEF y
        <5>. QED  BY <4>2
      <4>4. at[y] \in 1 .. Len(s) /\ s[at[y]] = y
        <5>. HIDE DEF at, Q
        <5>. QED  BY <4>1, <4>3
      <4>. HIDE DEF at, Q, next
      <4>. QED  BY <3>4, <4>1, <4>3, <4>4
    <3>8. s \in Seq(dom)
      <4>. HIDE DEF at, Q, next
      <4>. QED  BY <1>2, <3>5
    <3>. HIDE DEF at, Q, next, dom
    <3>. QED  BY <2>2, <3>1, <3>3, <3>6, <3>7, <3>8
  <2>. QED  BY <2>3, <2>4
<1>. HIDE DEF Q, at
<1>4. PICK f : Walks(f, dom, next)
  <2>. HIDE DEF next, dom
  <2>. QED  BY <1>2, <1>3, WalkExists
<1>5. \A g : Loop(g) <=> Walks(g, dom, next)
  BY Zenon DEF Walks
<1>6. Loop(loop)
  <2>. HIDE DEF Loop
  <2>. QED  BY <1>4, <1>5, Zenon
<1>. HIDE DEF loop
<1>7. Walks(loop, dom, next)
  BY <1>5, <1>6
<1>8. s \in Seq(dom \ {0}) /\ \A i \in 1 .. Len(s) : next[s[i]] = NextIn(s, i)
  <2>. HIDE DEF next, dom
  <2>. QED  BY <1>2 DEF LinkedAs
<1>9. loop[FirstOf(s)] = s
  <2>. HIDE DEF next, dom, Loop
  <2>. QED  BY <1>2, <1>7, <1>8, WalkIsList
<1>10. loop[0] = <<>>
  <2>. HIDE DEF next, Loop
  <2>. QED  BY <1>2, <1>7 DEF Walks
<1>. QED  BY <1>1, <1>9, <1>10

\* A search for a live level stops where it starts, or finds nothing.
LEMMA LiveFromIsLive ==
  ASSUME NEW b, NEW side \in Sides, b.next \in Pointers, NEW s,
         PricesAre(b.levels, b.next, b.prev, side, s)
  PROVE  LiveFrom(b, side, 0) = 0 /\ \A p \in Range(s) : LiveFrom(b, side, p) = p
<1>. DEFINE Loop(f) == f = [q \in Prices0 |->
               IF q = 0 THEN 0
               ELSE IF LevelExists(b, side, q) THEN q ELSE f[b.next[side][q]]]
            loop == CHOOSE f : Loop(f)
            g == [q \in Prices0 |-> IF q \in Range(s) THEN q ELSE 0]
<1>1. \A x : LiveFrom(b, side, x) = loop[x]
  BY Zenon DEF LiveFrom
<1>2. /\ \A q \in Prices : LevelExists(b, side, q) <=> q \in Range(s)
      /\ \A q \in Prices \ Range(s) : b.next[side][q] = 0
      /\ Prices0 = Prices \cup {0} /\ 0 \notin Prices /\ 0 \notin Range(s)
      /\ Range(s) \subseteq Prices
  BY BookConstants DEF PricesAre, LevelExists, Prices0
<1>3. Loop(g)
  BY <1>2
<1>4. Loop(loop)
  <2>. HIDE DEF Loop
  <2>. QED  BY <1>3, Zenon
<1>. HIDE DEF loop, g
<1>. QED  BY <1>1, <1>2, <1>4

\* Behind the last price there is none.
LEMMA NothingBehind ==
  ASSUME NEW b, NEW side \in Sides, b.next \in Pointers, NEW s,
         PricesAre(b.levels, b.next, b.prev, side, s), b.head[side] = FirstOf(s),
         NEW p \in Prices, b.next[side][p] = 0, \A q \in Range(s) : ~Ahead(side, p, q)
  PROVE  NextPrice(b, side, p) = 0
<1>1. LiveFrom(b, side, b.next[side][p]) = 0
  BY LiveFromIsLive
<1>2. Linked(b, side, b.head[side]) = s
  BY LinkedIsList
<1>3. {q \in Range(s) : LevelExists(b, side, q) /\ Ahead(side, p, q)} = {}
  OBVIOUS
<1>. QED  BY <1>1, <1>2, <1>3 DEF NextPrice

----------------------------------------------------------------------------
(* Removing and inserting a price. *)

\* The storage of a book has these fields.
IsBook(b) ==
  b \in [orders: {b.orders}, levels: {b.levels}, next: {b.next}, prev: {b.prev}, head: {b.head},
         best: {b.best}, listed: {b.listed}, index: {b.index}, reserved: {b.reserved},
         nextId: {b.nextId}, ok: {b.ok}]

\* Nothing but the list of prices of a side is changed.
PricesChange(b, c, side) ==
  /\ IsBook(c)
  /\ c.next = [b.next EXCEPT ![side] = c.next[side]]
  /\ c.prev = [b.prev EXCEPT ![side] = c.prev[side]]
  /\ c.head = [b.head EXCEPT ![side] = c.head[side]]
  /\ c.next[side] \in [Prices -> Prices0] /\ c.prev[side] \in [Prices -> Prices0]
  /\ c.head[side] \in Prices0
  /\ c.orders = b.orders /\ c.levels = b.levels /\ c.best = b.best /\ c.listed = b.listed
  /\ c.index = b.index /\ c.reserved = b.reserved /\ c.nextId = b.nextId /\ c.ok = b.ok

\* The levels of a side but for one price.
SameLive(before, after, side, p) ==
  \A q \in Prices \ {p} : after[side][q].exists = before[side][q].exists

\* The i-th price has left the list.
PriceLeaves(b, c, side, s, i) ==
  /\ PricesChange(b, c, side)
  /\ c.head[side] = IF i = 1 THEN NextIn(s, i) ELSE b.head[side]
  /\ PricesAre(b.levels, c.next, c.prev, side, Without(s, i))

\* A price leaves the list when its level is gone.
LEMMA RemovingPrice ==
  ASSUME NEW b, IsBook(b), NEW side \in Sides, NEW levels, NEW s, NEW i \in 1 .. Len(s),
         b.next \in Pointers, b.prev \in Pointers, b.head \in [Sides -> Prices0],
         PricesAre(levels, b.next, b.prev, side, s),
         SameLive(levels, b.levels, side, s[i]), ~b.levels[side][s[i]].exists
  PROVE  PriceLeaves(b, RemovePrice(b, side, s[i]), side, s, i)
<1>. DEFINE p == s[i]
            c == RemovePrice(b, side, p)
            next == b.next[side]
            prev == b.prev[side]
            before == prev[p]
            after == next[p]
            next2 == [q \in Prices |-> IF q = p THEN 0 ELSE IF q = before THEN after ELSE next[q]]
            prev2 == [q \in Prices |-> IF q = p THEN 0 ELSE IF q = after THEN before ELSE prev[q]]
            head2 == IF before = 0 THEN after ELSE b.head[side]
            r == Without(s, i)
<1>1. /\ s \in Seq(Prices) /\ LinkedAs(s, next, prev) /\ p \in Prices /\ p \in Range(s)
      /\ next \in [Prices -> Prices0] /\ prev \in [Prices -> Prices0] /\ InOrder(side, s)
      /\ Range(s) = {q \in Prices : levels[side][q].exists}
      /\ \A q \in Prices \ Range(s) : next[q] = 0 /\ prev[q] = 0
  BY DEF PricesAre, Pointers, Range
<1>2. before = PrevIn(s, i) /\ after = NextIn(s, i) /\ before \in Prices0 /\ after \in Prices0
  <2>. HIDE DEF next, prev
  <2>. QED  BY <1>1 DEF LinkedAs
<1>3. /\ IsBook(c)
      /\ c.next = [b.next EXCEPT ![side] = next2] /\ c.prev = [b.prev EXCEPT ![side] = prev2]
      /\ c.head = [b.head EXCEPT ![side] = head2]
      /\ c.orders = b.orders /\ c.levels = b.levels /\ c.best = b.best /\ c.listed = b.listed
      /\ c.index = b.index /\ c.reserved = b.reserved /\ c.nextId = b.nextId /\ c.ok = b.ok
  <2>. DEFINE d == [b EXCEPT !.next[side] = next2, !.prev[side] = prev2, !.head[side] = head2]
  <2>1. c = d
    BY DEF RemovePrice
  <2>. HIDE DEF c, next2, prev2, head2
  <2>2. /\ d.next = [b.next EXCEPT ![side] = next2] /\ d.prev = [b.prev EXCEPT ![side] = prev2]
        /\ d.head = [b.head EXCEPT ![side] = head2]
        /\ d.orders = b.orders /\ d.levels = b.levels /\ d.best = b.best /\ d.listed = b.listed
        /\ d.index = b.index /\ d.reserved = b.reserved /\ d.nextId = b.nextId /\ d.ok = b.ok
    BY DEF IsBook
  <2>3. IsBook(d)
    BY DEF IsBook
  <2>. QED  BY <2>1, <2>2, <2>3
<1>. HIDE DEF c
<1>4. c.next[side] = next2 /\ c.prev[side] = prev2 /\ c.head[side] = head2
  <2>. HIDE DEF next2, prev2, head2
  <2>. QED  BY <1>3 DEF Pointers
<1>5. next2 \in [Prices -> Prices0] /\ prev2 \in [Prices -> Prices0] /\ head2 \in Prices0
  <2>1. 0 \in Prices0
    BY DEF Prices0
  <2>. HIDE DEF before, after, next, prev
  <2>. QED  BY <1>1, <1>2, <2>1
<1>6. \A j \in 1 .. Len(s) : s[j] \in Prices /\ s[j] # 0 /\ s[j] \in Range(s)
  BY <1>1, BookConstants DEF Range
<1>7. \A j, k \in 1 .. Len(s) : s[j] = s[k] => j = k
  BY <1>1 DEF LinkedAs
<1>8. \A x \in Prices : /\ next2[x] = IF x = p THEN 0 ELSE IF x = before THEN after ELSE next[x]
                        /\ prev2[x] = IF x = p THEN 0 ELSE IF x = after THEN before ELSE prev[x]
  <2>. HIDE DEF before, after, next, prev
  <2>. QED  BY <1>1
<1>. HIDE DEF next2, prev2, head2
<1>9. Unlinked(s, i, next, prev, next2, prev2)
  <2>1. SUFFICES ASSUME NEW j \in 1 .. Len(s), j # i
                 PROVE  /\ next2[s[j]] = IF j + 1 = i THEN NextIn(s, i) ELSE next[s[j]]
                        /\ prev2[s[j]] = IF j = i + 1 THEN PrevIn(s, i) ELSE prev[s[j]]
    <3>. HIDE DEF next, prev
    <3>. QED  BY DEF Unlinked
  <2>2. s[j] # p /\ s[j] \in Prices
    BY <1>6, <1>7, <2>1
  <2>3. s[j] = before <=> j + 1 = i
    <3>. HIDE DEF before, after
    <3>. QED  BY <1>1, <1>2, <1>6, <1>7 DEF PrevIn
  <2>4. s[j] = after <=> j = i + 1
    <3>. HIDE DEF before, after
    <3>. QED  BY <1>1, <1>2, <1>6, <1>7 DEF NextIn
  <2>. HIDE DEF before, after, next, prev
  <2>. QED  BY <1>2, <1>8, <2>2, <2>3, <2>4
<1>10. LinkedAs(r, next2, prev2)
  <2>. HIDE DEF r, next, prev
  <2>. QED  BY <1>1, <1>9, UnlinkedIsLinked DEF r
<1>11. /\ r \in Seq(Prices) /\ Len(r) = Len(s) - 1 /\ Range(r) = Range(s) \ {p}
       /\ \A j \in 1 .. Len(s) - 1 : r[j] = IF j < i THEN s[j] ELSE s[j + 1]
  BY <1>1, <1>7, WithoutIsSeq
<1>. HIDE DEF r
<1>12. InOrder(side, r)
  <2>1. SUFFICES ASSUME NEW j \in 1 .. Len(s) - 1, NEW k \in 1 .. Len(s) - 1, j < k
                 PROVE  Ahead(side, r[j], r[k])
    BY <1>1, <1>11 DEF InOrder
  <2>2. /\ (j \in 1 .. Len(s) /\ j + 1 \in 1 .. Len(s)) /\ k \in 1 .. Len(s)
        /\ k + 1 \in 1 .. Len(s)
    BY <1>1
  <2>. QED  BY <1>1, <1>11, <2>1, <2>2 DEF InOrder
<1>13. Range(r) = {q \in Prices : b.levels[side][q].exists}
  BY <1>1, <1>11 DEF SameLive
<1>14. \A q \in Prices \ Range(r) : next2[q] = 0 /\ prev2[q] = 0
  <2>1. SUFFICES ASSUME NEW q \in Prices \ Range(r) PROVE next2[q] = 0 /\ prev2[q] = 0
    OBVIOUS
  <2>2. CASE q = p
    BY <1>8, <2>2
  <2>3. CASE q # p
    <3>1. q \notin Range(s)
      BY <1>11, <2>3
    <3>2. (before # 0 => before \in Range(s)) /\ (after # 0 => after \in Range(s))
      <4>. HIDE DEF before, after
      <4>. QED  BY <1>1, <1>2, <1>6 DEF PrevIn, NextIn
    <3>3. next[q] = 0 /\ prev[q] = 0
      <4>. HIDE DEF next, prev
      <4>. QED  BY <1>1, <3>1
    <3>4. q # before /\ q # after
      <4>. HIDE DEF before, after, next, prev
      <4>. QED  BY <3>1, <3>2, BookConstants
    <3>. HIDE DEF before, after, next, prev
    <3>. QED  BY <1>8, <2>3, <3>3, <3>4
  <2>. QED  BY <2>2, <2>3
<1>15. PricesAre(b.levels, c.next, c.prev, side, r)
  BY <1>4, <1>10, <1>11, <1>12, <1>13, <1>14 DEF PricesAre
<1>16. head2 = IF i = 1 THEN NextIn(s, i) ELSE b.head[side]
  BY <1>1, <1>2, <1>6 DEF head2, PrevIn
<1>17. PricesChange(b, c, side)
  <2>. HIDE DEF next, prev, before, after
  <2>. QED  BY <1>3, <1>4, <1>5 DEF PricesChange
<1>. QED  BY <1>4, <1>15, <1>16, <1>17 DEF c, r, PriceLeaves

----------------------------------------------------------------------------
(* An order leaves its level. *)

\* What a queue says about its orders.
LEMMA QueueFacts ==
  ASSUME NEW orders, orders \in [0 .. MaxOrders -> Orders], NEW side, NEW p, NEW s,
         QueueIs(orders, side, p, s)
  PROVE  /\ Len(s) \in Nat /\ Range(s) \subseteq Ids /\ IsFiniteSet(Range(s))
         /\ \A i \in 1 .. Len(s) : /\ s[i] \in Ids /\ s[i] \in 0 .. MaxOrders /\ s[i] # 0
                                   /\ s[i] \in Range(s) /\ Belongs(orders, side, p, s[i])
                                   /\ orders[s[i]].next = NextIn(s, i)
                                   /\ orders[s[i]].prev = PrevIn(s, i)
         /\ \A i, j \in 1 .. Len(s) : s[i] = s[j] => i = j
         /\ \A x \in Range(s) : \E i \in 1 .. Len(s) : s[i] = x
         /\ \A x \in Ids : x \in Range(s) <=> Belongs(orders, side, p, x)
         /\ SumFunctionOnSet(AmountsOf(orders), Range(s)) \in Nat
         /\ LevelOf(orders, s) \in Levels
<1>1. /\ s \in Seq(Ids) /\ LinkedAs(s, NextOf(orders), PrevOf(orders))
      /\ Range(s) = {id \in Ids : Belongs(orders, side, p, id)}
  BY DEF QueueIs
<1>2. Range(s) \subseteq Ids /\ IsFiniteSet(Range(s))
  BY <1>1, BookConstants, FS_Subset
<1>3. Range(s) = {s[i] : i \in 1 .. Len(s)} /\ Len(s) \in Nat
  BY <1>1 DEF Range
<1>4. \A x \in Ids : x \in 0 .. MaxOrders /\ x # 0
  BY BookConstants
<1>5. \A x \in 0 .. MaxOrders :
        /\ NextOf(orders)[x] = orders[x].next
        /\ PrevOf(orders)[x] = orders[x].prev
  BY DEF NextOf, PrevOf
<1>6. \A x \in Range(s) : AmountsOf(orders)[x] \in Nat
  BY <1>2, <1>4 DEF AmountsOf, Orders
<1>7. SumFunctionOnSet(AmountsOf(orders), Range(s)) \in Nat
  BY <1>2, <1>6, SumIsNat
<1>8. \A i \in 1 .. Len(s) : s[i] \in Ids /\ s[i] \in Range(s)
  BY <1>2, <1>3
<1>9. ASSUME Len(s) # 0 PROVE 1 \in 1 .. Len(s) /\ Len(s) \in 1 .. Len(s)
  BY <1>3, <1>9
<1>10. LevelOf(orders, s) \in Levels
  <2>1. CASE Len(s) = 0
    <3>1. 0 \in 0 .. MaxOrders
      BY BookConstants
    <3>. QED  BY <2>1, <3>1 DEF LevelOf, Levels, NoLevel
  <2>2. CASE Len(s) # 0
    <3>1. FirstOf(s) \in 0 .. MaxOrders /\ LastOf(s) \in 0 .. MaxOrders
      BY <1>4, <1>8, <1>9, <2>2 DEF FirstOf, LastOf
    <3>. QED  BY <1>7, <2>2, <3>1 DEF LevelOf, Levels
  <2>. QED  BY <2>1, <2>2
<1>11. ASSUME NEW i \in 1 .. Len(s)
       PROVE  /\ s[i] \in 0 .. MaxOrders /\ s[i] # 0 /\ Belongs(orders, side, p, s[i])
              /\ orders[s[i]].next = NextIn(s, i) /\ orders[s[i]].prev = PrevIn(s, i)
  <2>1. s[i] \in Ids /\ s[i] \in Range(s) /\ s[i] \in 0 .. MaxOrders
    BY <1>4, <1>8
  <2>2. NextOf(orders)[s[i]] = NextIn(s, i) /\ PrevOf(orders)[s[i]] = PrevIn(s, i)
    BY <1>1 DEF LinkedAs
  <2>. QED  BY <1>1, <1>4, <1>5, <2>1, <2>2
<1>12. \A i, j \in 1 .. Len(s) : s[i] = s[j] => i = j
  BY <1>1 DEF LinkedAs
<1>. QED  BY <1>1, <1>2, <1>3, <1>7, <1>8, <1>10, <1>11, <1>12

\* A level without orders, and no other, has nothing on it.
LEMMA LevelIsEmpty ==
  ASSUME NEW orders, orders \in [0 .. MaxOrders -> Orders], NEW side, NEW p, NEW s,
         QueueIs(orders, side, p, s), \A x \in Range(s) : orders[x].amount # 0
  PROVE  /\ LevelOf(orders, s).total = 0 <=> Len(s) = 0
         /\ LevelOf(orders, s).exists <=> Len(s) # 0
         /\ SumFunctionOnSet(AmountsOf(orders), Range(s)) = 0 <=> Len(s) = 0
<1>. DEFINE sum == SumFunctionOnSet(AmountsOf(orders), Range(s))
<1>1. /\ IsFiniteSet(Range(s)) /\ Range(s) \subseteq Ids /\ sum \in Nat /\ Len(s) \in Nat
      /\ \A i \in 1 .. Len(s) : s[i] \in Range(s)
      /\ \A x \in Range(s) : \E i \in 1 .. Len(s) : s[i] = x
  BY QueueFacts
<1>2. CASE Len(s) = 0
  <2>1. Range(s) = {}
    BY <1>1, <1>2
  <2>2. sum = 0
    BY <2>1, SumOfNothing
  <2>. QED  BY <1>2, <2>2 DEF LevelOf, NoLevel
<1>3. CASE Len(s) # 0
  <2>1. s[1] \in Range(s)
    BY <1>1, <1>3
  <2>2. \A x \in Range(s) : AmountsOf(orders)[x] = orders[x].amount /\ orders[x].amount \in Nat
    BY <1>1, BookConstants DEF AmountsOf, Orders
  <2>3. AmountsOf(orders)[s[1]] <= sum /\ AmountsOf(orders)[s[1]] # 0
    BY <1>1, <2>1, <2>2, SumCoversElement
  <2>4. sum # 0
    BY <1>1, <2>1, <2>2, <2>3
  <2>. QED  BY <1>3, <2>4 DEF LevelOf
<1>. QED  BY <1>2, <1>3

\* The same order, but for its place on the level.
SameTerms(o, q) ==
  /\ q.trader = o.trader /\ q.side = o.side /\ q.price = o.price
  /\ q.amount = o.amount /\ q.margin = o.margin

\* The neighbours of id are linked to one another, and id is deleted.
Leaves(orders, after, id) ==
  /\ after \in [0 .. MaxOrders -> Orders] /\ after[id] = NoOrder
  /\ \A x \in (0 .. MaxOrders) \ {id} :
       /\ SameTerms(orders[x], after[x])
       /\ after[x].next = IF x = orders[id].prev /\ x # 0 THEN orders[id].next ELSE orders[x].next
       /\ after[x].prev = IF x = orders[id].next /\ x # 0 THEN orders[id].prev ELSE orders[x].prev

\* The orders of s are the same, and no other order joins them.
SameQueue(orders, after, side, p, s) ==
  /\ \A x \in Range(s) : /\ after[x].next = orders[x].next /\ after[x].prev = orders[x].prev
                         /\ after[x].amount = orders[x].amount
  /\ \A x \in Ids : Belongs(after, side, p, x) <=> Belongs(orders, side, p, x)

\* Levels have the same queue when the orders on it are the same.
LEMMA QueueStays ==
  ASSUME NEW orders, orders \in [0 .. MaxOrders -> Orders],
         NEW after, after \in [0 .. MaxOrders -> Orders], NEW side, NEW p, NEW s,
         QueueIs(orders, side, p, s), SameQueue(orders, after, side, p, s)
  PROVE  QueueIs(after, side, p, s) /\ LevelOf(after, s) = LevelOf(orders, s)
<1>1. /\ IsFiniteSet(Range(s)) /\ Range(s) \subseteq Ids /\ Len(s) \in Nat
      /\ \A i \in 1 .. Len(s) : s[i] \in Range(s) /\ s[i] \in 0 .. MaxOrders
      /\ \A i, j \in 1 .. Len(s) : s[i] = s[j] => i = j
  BY QueueFacts
<1>2. \A x \in 0 .. MaxOrders : NextOf(after)[x] = after[x].next /\ PrevOf(after)[x] = after[x].prev
  BY DEF NextOf, PrevOf
<1>3. LinkedAs(s, NextOf(after), PrevOf(after))
  <2>1. \A x \in Range(s) :
          /\ NextOf(after)[x] = NextOf(orders)[x]
          /\ PrevOf(after)[x] = PrevOf(orders)[x]
    BY <1>1, <1>2, BookConstants DEF NextOf, PrevOf, SameQueue
  <2>2. \A i \in 1 .. Len(s) : /\ NextOf(orders)[s[i]] = NextIn(s, i)
                              /\ PrevOf(orders)[s[i]] = PrevIn(s, i)
    BY DEF QueueIs, LinkedAs
  <2>. QED  BY <1>1, <2>1, <2>2 DEF LinkedAs
<1>4. s \in Seq(Ids) /\ Ascending(s) /\ Range(s) = {id \in Ids : Belongs(orders, side, p, id)}
  BY DEF QueueIs
<1>5. Range(s) = {id \in Ids : Belongs(after, side, p, id)}
  BY <1>4 DEF SameQueue
<1>6. QueueIs(after, side, p, s)
  BY <1>3, <1>4, <1>5 DEF QueueIs
<1>7. \A x \in Ids :
        /\ AmountsOf(after)[x] = after[x].amount
        /\ AmountsOf(orders)[x] = orders[x].amount
                     /\ orders[x].amount \in Int
  BY BookConstants DEF AmountsOf, Orders
<1>8. SumFunctionOnSet(AmountsOf(orders), Range(s)) = SumFunctionOnSet(AmountsOf(after), Range(s))
  <2>1. Ints(AmountsOf(orders), Range(s))
    BY <1>1, <1>7 DEF Ints
  <2>2. \A x \in Range(s) : AmountsOf(orders)[x] = AmountsOf(after)[x]
    BY <1>1, <1>7 DEF SameQueue
  <2>. QED  BY <1>1, <2>1, <2>2, SumCongruence
<1>. QED  BY <1>6, <1>8 DEF LevelOf

\* What is stored about a level that an order has left.
Relinked(level, o) ==
  LET total == Minus(level.total, o.amount)
  IN IF total = 0 THEN NoLevel
     ELSE [total |-> total, first |-> IF o.prev = 0 THEN o.next ELSE level.first,
           last |-> IF o.next = 0 THEN o.prev ELSE level.last, exists |-> level.exists]

\* Of the orders of s only id may be filled.
OthersUnfilled(orders, s, id) == \A x \in Range(s) : x = id \/ orders[x].amount # 0

\* The queue of a level loses its i-th order.
QueueLoses(orders, after, side, p, s, i) ==
  /\ QueueIs(after, side, p, Without(s, i))
  /\ LevelOf(after, Without(s, i)) = Relinked(LevelOf(orders, s), orders[s[i]])

\* The queue of its level loses the order, and nothing else.
LEMMA QueueWithout ==
  ASSUME NEW orders, orders \in [0 .. MaxOrders -> Orders], NEW after, NEW id \in Ids,
         NEW side, NEW p, NEW s, QueueIs(orders, side, p, s), NEW i \in 1 .. Len(s), s[i] = id,
         Leaves(orders, after, id), OthersUnfilled(orders, s, id)
  PROVE  QueueLoses(orders, after, side, p, s, i)
<1>. DEFINE r == Without(s, i)
            o == orders[id]
            sum == SumFunctionOnSet(AmountsOf(orders), Range(s))
            sum2 == SumFunctionOnSet(AmountsOf(after), Range(r))
<1>1. /\ IsFiniteSet(Range(s)) /\ Range(s) \subseteq Ids /\ Len(s) \in Nat /\ sum \in Nat
      /\ \A j \in 1 .. Len(s) : s[j] \in Range(s) /\ s[j] \in 0 .. MaxOrders /\ s[j] # 0
      /\ \A x \in Ids : x \in Range(s) <=> Belongs(orders, side, p, x)
      /\ \A j, k \in 1 .. Len(s) : s[j] = s[k] => j = k
  BY QueueFacts
<1>2. s \in Seq(Ids) /\ LinkedAs(s, NextOf(orders), PrevOf(orders))
  BY DEF QueueIs
<1>3. \A x \in 0 .. MaxOrders :
        /\ NextOf(orders)[x] = orders[x].next
        /\ PrevOf(orders)[x] = orders[x].prev
        /\ NextOf(after)[x] = after[x].next
        /\ PrevOf(after)[x] = after[x].prev
  BY DEF NextOf, PrevOf
<1>4. o.next = NextIn(s, i) /\ o.prev = PrevIn(s, i)
  BY <1>1, <1>2, <1>3 DEF LinkedAs
<1>5. /\ r \in Seq(Ids) /\ Len(r) = Len(s) - 1 /\ Range(r) = Range(s) \ {id}
  BY <1>1, <1>2, WithoutIsSeq
<1>. HIDE DEF r, o
<1>6. Unlinked(s, i, NextOf(orders), PrevOf(orders), NextOf(after), PrevOf(after))
  <2>1. SUFFICES ASSUME NEW j \in 1 .. Len(s), j # i
                 PROVE  /\ NextOf(after)[s[j]] =
                               IF j + 1 = i THEN NextIn(s, i) ELSE NextOf(orders)[s[j]]
                        /\ PrevOf(after)[s[j]] =
                               IF j = i + 1 THEN PrevIn(s, i) ELSE PrevOf(orders)[s[j]]
    BY DEF Unlinked
  <2>2. s[j] # id /\ s[j] \in 0 .. MaxOrders /\ s[j] # 0
    BY <1>1, <2>1
  <2>3. /\ after[s[j]].next = IF s[j] = o.prev THEN o.next ELSE orders[s[j]].next
        /\ after[s[j]].prev = IF s[j] = o.next THEN o.prev ELSE orders[s[j]].prev
    BY <2>2 DEF Leaves, o
  <2>4. s[j] = o.prev <=> j + 1 = i
    BY <1>1, <1>4, <2>1, <2>2 DEF PrevIn
  <2>5. s[j] = o.next <=> j = i + 1
    BY <1>1, <1>4, <2>1, <2>2 DEF NextIn
  <2>. QED  BY <1>3, <1>4, <2>2, <2>3, <2>4, <2>5
<1>7. /\ LinkedAs(r, NextOf(after), PrevOf(after))
      /\ FirstOf(r) = IF i = 1 THEN NextIn(s, i) ELSE FirstOf(s)
      /\ LastOf(r) = IF i = Len(s) THEN PrevIn(s, i) ELSE LastOf(s)
  BY <1>2, <1>6, UnlinkedIsLinked DEF r
<1>8. \A x \in Ids : Belongs(after, side, p, x) <=> x # id /\ Belongs(orders, side, p, x)
  <2>1. SUFFICES ASSUME NEW x \in Ids
                 PROVE  Belongs(after, side, p, x) <=> x # id /\ Belongs(orders, side, p, x)
    OBVIOUS
  <2>2. CASE x = id
    <3>1. after[id].trader = NULL
      BY DEF Leaves, NoOrder
    <3>. QED  BY <2>2, <3>1 DEF Belongs
  <2>3. CASE x # id
    <3>1. SameTerms(orders[x], after[x])
      BY <2>3, BookConstants DEF Leaves
    <3>. QED  BY <2>3, <3>1 DEF Belongs, SameTerms
  <2>. QED  BY <2>2, <2>3
<1>9. Range(r) = {x \in Ids : Belongs(after, side, p, x)}
  BY <1>1, <1>5, <1>8
<1>10. QueueIs(after, side, p, r)
  <2>1. Ascending(s) /\ \A j \in 1 .. Len(s) - 1 : r[j] = IF j < i THEN s[j] ELSE s[j + 1]
    BY <1>1, <1>2, WithoutIsSeq DEF QueueIs, r
  <2>2. Ascending(r)
    <3>1. SUFFICES ASSUME NEW j \in 1 .. Len(r), NEW k \in 1 .. Len(r), j < k PROVE r[j] < r[k]
      BY DEF Ascending
    <3>2. /\ j \in 1 .. Len(s) /\ k \in 1 .. Len(s)
          /\ j + 1 \in 1 .. Len(s) /\ k + 1 \in 1 .. Len(s)
          /\ j < k /\ j + 1 < k + 1 /\ j < k + 1 /\ (j < i \/ ~(k < i))
      BY <1>1, <1>5, <3>1
    <3>3. s[j] < s[k] /\ s[j + 1] < s[k + 1] /\ s[j] < s[k + 1]
      BY <2>1, <3>2 DEF Ascending
    <3>. QED  BY <1>5, <2>1, <3>2, <3>3
  <2>. QED  BY <1>5, <1>7, <1>9, <2>2 DEF QueueIs
<1>11. /\ \A x \in Ids :
            /\ AmountsOf(orders)[x] = orders[x].amount
            /\ AmountsOf(after)[x] = after[x].amount
       /\ \A x \in Ids : orders[x].amount \in Nat
       /\ \A x \in Range(r) : after[x].amount = orders[x].amount /\ x \in Ids
  <2>1. \A x \in Ids : x \in 0 .. MaxOrders
    BY BookConstants
  <2>2. \A x \in Ids : orders[x].amount \in Nat
    BY <2>1 DEF Orders
  <2>3. \A x \in Range(r) : x \in Ids /\ x # id
    BY <1>1, <1>5
  <2>4. \A x \in Range(r) : after[x].amount = orders[x].amount
    BY <2>1, <2>3 DEF Leaves, SameTerms
  <2>. QED  BY <2>2, <2>3, <2>4 DEF AmountsOf
<1>12. sum = o.amount + sum2
  <2>1. Ints(AmountsOf(orders), Range(s)) /\ id \in Range(s)
    BY <1>1, <1>11 DEF Ints
  <2>2. sum = AmountsOf(orders)[id] + SumFunctionOnSet(AmountsOf(orders), Range(s) \ {id})
    BY <1>1, <2>1, SumSplit
  <2>3. SumFunctionOnSet(AmountsOf(orders), Range(r)) = sum2
    <3>1. IsFiniteSet(Range(r)) /\ Ints(AmountsOf(orders), Range(r))
      BY <1>1, <1>5, <1>11, FS_Subset DEF Ints
    <3>2. \A x \in Range(r) : AmountsOf(orders)[x] = AmountsOf(after)[x]
      BY <1>11
    <3>. QED  BY <3>1, <3>2, SumCongruence
  <2>4. AmountsOf(orders)[id] = o.amount
    BY <1>11 DEF o
  <2>. QED  BY <1>5, <2>2, <2>3, <2>4
<1>13. after \in [0 .. MaxOrders -> Orders] /\ \A x \in Range(r) : after[x].amount # 0
  BY <1>1, <1>5, <1>11 DEF Leaves, OthersUnfilled
<1>14. (LevelOf(after, r).total = 0 <=> Len(r) = 0) /\ (sum2 = 0 <=> Len(r) = 0) /\ sum2 \in Nat
  <2>1. sum2 \in Nat
    BY <1>10, <1>13, QueueFacts
  <2>2. (LevelOf(after, r).total = 0 <=> Len(r) = 0) /\ (sum2 = 0 <=> Len(r) = 0)
    BY <1>10, <1>13, LevelIsEmpty
  <2>. QED  BY <2>1, <2>2
<1>15. Minus(sum, o.amount) = sum2
  <2>1. o.amount \in Nat
    BY <1>11 DEF o
  <2>. HIDE DEF sum, sum2
  <2>. QED  BY <1>12, <1>14, <2>1 DEF Minus
<1>16. LevelOf(orders, s) =
         [total |-> sum, first |-> FirstOf(s), last |-> LastOf(s), exists |-> TRUE]
  BY <1>1 DEF LevelOf
<1>17. LevelOf(after, r) = Relinked(LevelOf(orders, s), o)
  <2>1. o.prev = 0 <=> i = 1
    BY <1>1, <1>4 DEF PrevIn
  <2>2. o.next = 0 <=> i = Len(s)
    BY <1>1, <1>4 DEF NextIn
  <2>3. /\ FirstOf(r) = IF o.prev = 0 THEN o.next ELSE FirstOf(s)
        /\ LastOf(r) = IF o.next = 0 THEN o.prev ELSE LastOf(s)
    BY <1>4, <1>7, <2>1, <2>2
  <2>4. LevelOf(after, r) = IF sum2 = 0 THEN NoLevel
                            ELSE [total |-> sum2, first |-> FirstOf(r), last |-> LastOf(r),
                                  exists |-> TRUE]
    BY <1>14 DEF LevelOf
  <2>5. Relinked(LevelOf(orders, s), o)
          = IF sum2 = 0 THEN NoLevel
            ELSE [total |-> sum2, first |-> IF o.prev = 0 THEN o.next ELSE FirstOf(s),
                  last |-> IF o.next = 0 THEN o.prev ELSE LastOf(s), exists |-> TRUE]
    <3>. DEFINE first2 == IF o.prev = 0 THEN o.next ELSE FirstOf(s)
                last2 == IF o.next = 0 THEN o.prev ELSE LastOf(s)
    <3>. HIDE DEF sum, sum2
    <3>1. PICK yes : yes = TRUE
      OBVIOUS
    <3>. DEFINE level == [total |-> sum, first |-> FirstOf(s), last |-> LastOf(s), exists |-> yes]
    <3>2. LevelOf(orders, s) = level
      BY <1>16, <3>1, Zenon
    <3>3. Minus(level.total, o.amount) = sum2
      BY <1>15
    <3>4. /\ first2 = IF o.prev = 0 THEN o.next ELSE level.first
          /\ last2 = IF o.next = 0 THEN o.prev ELSE level.last
          /\ level.exists = yes
      OBVIOUS
    <3>5. Relinked(level, o)
            = IF sum2 = 0 THEN NoLevel
              ELSE [total |-> sum2, first |-> first2, last |-> last2, exists |-> yes]
      <4>. HIDE DEF first2, last2, level
      <4>1. Relinked(level, o)
              = IF sum2 = 0 THEN NoLevel
                ELSE [total |-> sum2, first |-> first2, last |-> last2, exists |-> level.exists]
        BY <3>3, <3>4 DEF Relinked
      <4>. QED  BY <3>4, <4>1
    <3>. HIDE DEF first2, last2, level
    <3>. QED  BY <3>1, <3>2, <3>5, Zenon DEF first2, last2
  <2>. HIDE DEF sum2
  <2>. QED  BY <2>3, <2>4, <2>5
<1>. QED  BY <1>10, <1>17 DEF r, o, QueueLoses

\* Neighbours of an order rest on its level.
LEMMA NeighboursRest ==
  ASSUME NEW orders, orders \in [0 .. MaxOrders -> Orders], NEW side, NEW p, NEW s,
         QueueIs(orders, side, p, s), NEW i \in 1 .. Len(s),
         NEW x \in 0 .. MaxOrders, x # 0, x = orders[s[i]].prev \/ x = orders[s[i]].next
  PROVE  x \in Range(s) /\ x # s[i]
<1>1. /\ Len(s) \in Nat /\ \A j \in 1 .. Len(s) : s[j] \in Range(s) /\ s[j] \in 0 .. MaxOrders
      /\ \A j, k \in 1 .. Len(s) : s[j] = s[k] => j = k
  BY QueueFacts
<1>2. NextOf(orders)[s[i]] = NextIn(s, i) /\ PrevOf(orders)[s[i]] = PrevIn(s, i)
  BY DEF QueueIs, LinkedAs
<1>3. orders[s[i]].next = NextIn(s, i) /\ orders[s[i]].prev = PrevIn(s, i)
  BY <1>1, <1>2 DEF NextOf, PrevOf
<1>4. CASE x = NextIn(s, i)
  <2>1. i + 1 \in 1 .. Len(s) /\ x = s[i + 1] /\ i + 1 # i
    BY <1>1, <1>4 DEF NextIn
  <2>. QED  BY <1>1, <2>1
<1>5. CASE x = PrevIn(s, i)
  <2>1. i - 1 \in 1 .. Len(s) /\ x = s[i - 1] /\ i - 1 # i
    BY <1>1, <1>5 DEF PrevIn
  <2>. QED  BY <1>1, <2>1
<1>. QED  BY <1>3, <1>4, <1>5

\* The other orders stay as they were.
LEMMA OrdersLeave ==
  ASSUME NEW orders, NEW nextId, NEW id \in Ids, NEW X, X \subseteq {id},
         OrdersGood(orders, nextId, X), NEW side, NEW p, NEW s, QueueIs(orders, side, p, s),
         NEW i \in 1 .. Len(s), s[i] = id, NEW after, Leaves(orders, after, id)
  PROVE  OrdersGood(after, nextId, {})
<1>1. /\ orders \in [0 .. MaxOrders -> Orders] /\ nextId \in 1 .. MaxOrders + 1
      /\ after \in [0 .. MaxOrders -> Orders] /\ after[id] = NoOrder
  BY DEF OrdersGood, Leaves
<1>2. ASSUME NEW x \in 0 .. MaxOrders
      PROVE  \/ after[x] = NoOrder
             \/ /\ x \in 1 .. nextId - 1
                /\ after[x].trader \in Traders /\ after[x].price \in Prices
                /\ after[x].side \in SidesOf[after[x].trader]
                /\ after[x].amount # 0
  <2>1. CASE x = id
    BY <1>1, <2>1
  <2>2. CASE x # id /\ orders[x] = NoOrder
    <3>1. x = 0 \/ (x # orders[id].prev /\ x # orders[id].next)
      <4>1. SUFFICES ASSUME x # 0, x = orders[id].prev \/ x = orders[id].next PROVE FALSE
        OBVIOUS
      <4>2. x \in Range(s)
        BY <1>1, <4>1, NeighboursRest
      <4>3. Belongs(orders, side, p, x)
        BY <4>2 DEF QueueIs
      <4>. QED  BY <2>2, <4>3 DEF Belongs, NoOrder
    <3>2. after[x].next = orders[x].next /\ after[x].prev = orders[x].prev
      BY <2>2, <3>1 DEF Leaves
    <3>3. SameTerms(orders[x], after[x])
      BY <2>2 DEF Leaves
    <3>4. after[x] \in Orders /\ orders[x] \in Orders
      BY <1>1
    <3>5. after[x] = orders[x]
      BY <3>2, <3>3, <3>4 DEF SameTerms, Orders
    <3>. QED  BY <2>2, <3>5
  <2>3. CASE x # id /\ orders[x] # NoOrder
    <3>1. /\ x \in 1 .. nextId - 1 /\ orders[x].trader \in Traders /\ orders[x].price \in Prices
          /\ orders[x].side \in SidesOf[orders[x].trader] /\ orders[x].amount # 0
      BY <2>3 DEF OrdersGood
    <3>2. SameTerms(orders[x], after[x])
      BY <2>3 DEF Leaves
    <3>. QED  BY <3>1, <3>2 DEF SameTerms
  <2>. QED  BY <2>1, <2>2, <2>3
<1>. QED  BY <1>1, <1>2 DEF OrdersGood

\* The level is stored as it was, without the order.
LevelsLeave(orders, levels, levels2, id) ==
  LET side == orders[id].side
      p == orders[id].price
  IN levels2 = [levels EXCEPT ![side][p] = Relinked(levels[side][p], orders[id])]

\* Other levels stay, and this one exists as long as there is something on it.
LevelShrinks(levels, levels2, side, p) ==
  /\ \A x \in Sides \ {side} : levels2[x] = levels[x]
  /\ SameLive(levels, levels2, side, p)
  /\ levels2[side][p].total = 0 <=> ~levels2[side][p].exists

\* All levels are as they should be again.
LEMMA LevelsStayGood ==
  ASSUME NEW orders, NEW nextId, NEW id \in Ids, NEW X, X \subseteq {id},
         OrdersGood(orders, nextId, X), NEW levels, LevelsGood(orders, levels),
         orders[id].trader # NULL, NEW after, Leaves(orders, after, id),
         NEW levels2, LevelsLeave(orders, levels, levels2, id)
  PROVE  /\ OrdersGood(after, nextId, {}) /\ LevelsGood(after, levels2)
         /\ LevelShrinks(levels, levels2, orders[id].side, orders[id].price)
<1>. DEFINE side == orders[id].side
            p == orders[id].price
<1>1. id \in 0 .. MaxOrders
  BY BookConstants
<1>2. side \in Sides /\ p \in Prices
  BY <1>1, OrderIsQueued
<1>3. PICK s : /\ QueueIs(orders, side, p, s) /\ levels[side][p] = LevelOf(orders, s)
               /\ \E i \in 1 .. Len(s) : s[i] = id
  BY <1>1, OrderIsQueued
<1>4. PICK i \in 1 .. Len(s) : s[i] = id
  BY <1>3
<1>. DEFINE r == Without(s, i)
<1>5. /\ orders \in [0 .. MaxOrders -> Orders] /\ after \in [0 .. MaxOrders -> Orders]
      /\ levels \in [Sides -> [Prices -> Levels]]
  BY DEF OrdersGood, Leaves, LevelsGood
<1>6. OrdersGood(after, nextId, {})
  BY <1>3, <1>4, OrdersLeave
<1>7. \A x \in 0 .. MaxOrders : orders[x].trader # NULL => x = id \/ orders[x].amount # 0
  BY DEF OrdersGood, NoOrder
<1>8. OthersUnfilled(orders, s, id)
  BY <1>3, <1>7, BookConstants DEF QueueIs, Belongs, OthersUnfilled
<1>9. QueueIs(after, side, p, r) /\ LevelOf(after, r) = Relinked(levels[side][p], orders[id])
  <2>1. orders \in [0 .. MaxOrders -> Orders] /\ QueueIs(orders, side, p, s)
    BY <1>3, <1>5
  <2>2. QueueLoses(orders, after, side, p, s, i)
    <3>. HIDE DEF side, p
    <3>. QED  BY <1>4, <1>8, <2>1, QueueWithout
  <2>. QED  BY <1>3, <1>4, <2>2 DEF QueueLoses
<1>. HIDE DEF r
<1>10. levels2[side][p] = LevelOf(after, r) /\ LevelOf(after, r) \in Levels
  <2>1. LevelOf(after, r) \in Levels
    BY <1>5, <1>9, QueueFacts
  <2>2. levels2[side][p] = Relinked(levels[side][p], orders[id])
    BY <1>2, <1>5 DEF LevelsLeave
  <2>. QED  BY <1>9, <2>1, <2>2
<1>11. /\ levels2 \in [Sides -> [Prices -> Levels]]
       /\ \A x \in Sides, q \in Prices : (x = side /\ q = p) \/ levels2[x][q] = levels[x][q]
       /\ \A x \in Sides \ {side} : levels2[x] = levels[x]
  BY <1>2, <1>5, <1>9, <1>10 DEF LevelsLeave
<1>12. ASSUME NEW x \in Sides, NEW q \in Prices PROVE LevelGood(after, levels2[x][q], x, q)
  <2>1. CASE x = side /\ q = p
    BY <1>9, <1>10, <2>1 DEF LevelGood
  <2>2. CASE ~(x = side /\ q = p)
    <3>1. PICK t : QueueIs(orders, x, q, t) /\ levels[x][q] = LevelOf(orders, t)
      BY DEF LevelsGood, LevelGood
    <3>2. ASSUME NEW y \in Ids PROVE Belongs(after, x, q, y) <=> Belongs(orders, x, q, y)
      <4>1. CASE y = id
        BY <2>2, <4>1 DEF Belongs, Leaves, NoOrder
      <4>2. CASE y # id
        <5>1. SameTerms(orders[y], after[y])
          BY <4>2, BookConstants DEF Leaves
        <5>. QED  BY <5>1 DEF Belongs, SameTerms
      <4>. QED  BY <4>1, <4>2
    <3>3. ASSUME NEW y \in Range(t)
          PROVE  /\ after[y].next = orders[y].next /\ after[y].prev = orders[y].prev
                 /\ after[y].amount = orders[y].amount
      <4>1. Belongs(orders, x, q, y) /\ y \in Ids
        BY <3>1 DEF QueueIs
      <4>2. y # id /\ y \in 0 .. MaxOrders
        BY <2>2, <4>1, BookConstants DEF Belongs
      <4>3. ~Belongs(orders, side, p, y)
        BY <2>2, <4>1 DEF Belongs
      <4>4. y \notin Range(s)
        BY <1>3, <4>3 DEF QueueIs
      <4>5. y = 0 \/ (y # orders[id].prev /\ y # orders[id].next)
        BY <1>3, <1>4, <1>5, <4>2, <4>4, NeighboursRest
      <4>. QED  BY <4>2, <4>5 DEF Leaves, SameTerms
    <3>4. QueueIs(after, x, q, t) /\ LevelOf(after, t) = LevelOf(orders, t)
      <4>1. SameQueue(orders, after, x, q, t)
        BY <3>2, <3>3 DEF SameQueue
      <4>. QED  BY <1>5, <3>1, <4>1, QueueStays
    <3>5. levels2[x][q] = levels[x][q]
      BY <1>11, <2>2
    <3>. QED  BY <3>1, <3>4, <3>5 DEF LevelGood
  <2>. QED  BY <2>1, <2>2
<1>13. LevelsGood(after, levels2)
  BY <1>11, <1>12 DEF LevelsGood
<1>14. SameLive(levels, levels2, side, p)
  BY <1>2, <1>11 DEF SameLive
<1>15. LevelOf(after, r).total = 0 <=> ~LevelOf(after, r).exists
  <2>1. \A x \in Range(r) : after[x].amount # 0
    <3>1. ASSUME NEW x \in Range(r) PROVE after[x].amount # 0
      <4>1. x \in Ids /\ Belongs(after, side, p, x)
        BY <1>9 DEF QueueIs
      <4>2. after[x].trader # NULL /\ x \in 0 .. MaxOrders
        BY <4>1, BookConstants DEF Belongs
      <4>. QED  BY <1>6, <4>2 DEF OrdersGood, NoOrder
    <3>. QED  BY <3>1
  <2>2. /\ LevelOf(after, r).total = 0 <=> Len(r) = 0
        /\ LevelOf(after, r).exists <=> Len(r) # 0
    <3>. HIDE DEF side, p
    <3>. QED  BY <1>5, <1>9, <2>1, LevelIsEmpty
  <2>. QED  BY <2>2
<1>16. levels2[side][p].total = 0 <=> ~levels2[side][p].exists
  BY <1>10, <1>15
<1>. QED  BY <1>6, <1>11, <1>13, <1>14, <1>16 DEF LevelShrinks

----------------------------------------------------------------------------
(* The invariant of the book, and of its stages within a call. *)

\* The margin an order needs.
Reservation(o) == IF o.trader # NULL THEN MarginRequired(o.amount, o.price, o.side) ELSE 0

\* What is reserved is what the orders need, but for those of E.
ReservedGood(orders, reserved, E) ==
  /\ reserved \in [Ids -> Nat]
  /\ \A id \in Ids \ E : reserved[id] = Reservation(orders[id])

\* A trader's list names ids, and the index their places.
ListIs(list, index, ids) ==
  /\ list \in Seq(Ids) /\ index \in [Ids -> Nat]
  /\ Range(list) = ids
  /\ \A i, j \in 1 .. Len(list) : list[i] = list[j] => i = j
  /\ \A i \in 1 .. Len(list) : index[list[i]] = i
  /\ \A id \in Ids \ ids : index[id] = 0

\* The orders of a trader.
OrdersOf(orders, t) == {id \in Ids : orders[id].trader = t}

\* Every trader's list.
ListsGood(orders, listed, index) ==
  /\ listed \in [Traders -> Seq(Ids)] /\ index \in [Traders -> [Ids -> Nat]]
  /\ \A t \in Traders : ListIs(listed[t], index[t], OrdersOf(orders, t))

\* The list of prices of a side starts at its head, unless the head is one of
\* those of a closed market: lost is {} while the market is open and {0} after.
HeadGood(b, lost, side) ==
  \E s : /\ PricesAre(b.levels, b.next, b.prev, side, s)
         /\ b.head[side] = FirstOf(s) \/ b.head[side] \in lost

\* The lists of prices of both sides.
PricesGood(b, lost) ==
  /\ b.next \in Pointers /\ b.prev \in Pointers /\ b.head \in [Sides -> Prices0]
  /\ \A side \in Sides : HeadGood(b, lost, side)

\* The parts of a book, but for the best prices.  E are ids whose reservation
\* does not follow an order, X those of filled orders still on their level.
Sound(b, lost, E, X) ==
  /\ IsBook(b) /\ b.ok /\ b.best \in [Sides -> Prices0]
  /\ OrdersGood(b.orders, b.nextId, X) /\ LevelsGood(b.orders, b.levels)
  /\ PricesGood(b, lost)
  /\ ListsGood(b.orders, b.listed, b.index)
  /\ ReservedGood(b.orders, b.reserved, E \cup X)

\* The orders without id.
Erased(orders, id) == [orders EXCEPT ![id] = NoOrder]

\* id has left its level, but is not deleted yet.
Leaving(b, lost, E, id) ==
  /\ IsBook(b) /\ b.ok /\ b.best \in [Sides -> Prices0]
  /\ b.orders \in [0 .. MaxOrders -> Orders] /\ b.orders[id].trader \in Traders
  /\ OrdersGood(Erased(b.orders, id), b.nextId, {})
  /\ LevelsGood(Erased(b.orders, id), b.levels)
  /\ PricesGood(b, lost)
  /\ ListsGood(b.orders, b.listed, b.index)
  /\ ReservedGood(Erased(b.orders, id), b.reserved, E \cup {id})

\* What unlinking an order does to the storage.
OnlyUnlinked(b, c, id) ==
  /\ IsBook(c) /\ c.orders \in [0 .. MaxOrders -> Orders]
  /\ Leaves(b.orders, Erased(c.orders, id), id) /\ SameTerms(b.orders[id], c.orders[id])
  /\ LevelsLeave(b.orders, b.levels, c.levels, id)
  /\ c.next = b.next /\ c.prev = b.prev /\ c.head = b.head /\ c.best = b.best
  /\ c.listed = b.listed /\ c.index = b.index /\ c.reserved = b.reserved
  /\ c.nextId = b.nextId /\ c.ok = b.ok

\* The predecessor of an order is the one it points to.
LEMMA PredecessorIsPrev ==
  ASSUME NEW b, NEW nextId, NEW X, OrdersGood(b.orders, nextId, X),
         LevelsGood(b.orders, b.levels), NEW id \in Ids, b.orders[id].trader # NULL
  PROVE  Predecessor(b, id) = b.orders[id].prev
<1>. DEFINE o == b.orders[id]
<1>1. PICK s : /\ QueueIs(b.orders, o.side, o.price, s)
               /\ b.levels[o.side][o.price] = LevelOf(b.orders, s)
               /\ \E i \in 1 .. Len(s) : s[i] = id
  BY OrderIsQueued, BookConstants
<1>2. PICK i \in 1 .. Len(s) : s[i] = id
  BY <1>1
<1>3. b.orders \in [0 .. MaxOrders -> Orders]
  BY DEF OrdersGood
<1>4. Len(s) \in Nat /\ \A j \in 1 .. Len(s) : s[j] # 0
  BY <1>1, <1>3, QueueFacts
<1>5. PrevOf(b.orders)[id] = PrevIn(s, i) /\ PrevOf(b.orders)[id] = o.prev
  <2>1. id \in 0 .. MaxOrders
    BY BookConstants
  <2>2. PrevOf(b.orders)[id] = o.prev
    BY <2>1 DEF PrevOf
  <2>. QED  BY <1>1, <1>2, <2>2 DEF QueueIs, LinkedAs
<1>6. o.prev = 0 => b.levels[o.side][o.price].first = id
  <2>1. o.prev = 0 => i = 1
    BY <1>4, <1>5 DEF PrevIn
  <2>2. LevelOf(b.orders, s).first = s[1]
    BY <1>4 DEF LevelOf, FirstOf
  <2>. QED  BY <1>1, <1>2, <2>1, <2>2
<1>7. ~(o.prev = 0 /\ b.levels[o.side][o.price].first # id)
  BY <1>6
<1>. QED  BY <1>7, Zenon DEF Predecessor

\* removeOrderFromLevel.
LEMMA UnlinkingOrder ==
  ASSUME NEW b, IsBook(b), NEW nextId, NEW X, OrdersGood(b.orders, nextId, X),
         LevelsGood(b.orders, b.levels), NEW id \in Ids, b.orders[id].trader # NULL
  PROVE  OnlyUnlinked(b, UnlinkOrder(b, id), id)
<1>. DEFINE o == b.orders[id]
            c == UnlinkOrder(b, id)
            Moved(x) == [b.orders[x] EXCEPT
                           !.next = IF x = id THEN 0 ELSE IF x = o.prev /\ x # 0 THEN o.next ELSE @,
                           !.prev = IF x = id THEN 0 ELSE IF x = o.next /\ x # 0 THEN o.prev ELSE @]
            orders2 == [x \in 0 .. MaxOrders |-> Moved(x)]
            levels2 == [b.levels EXCEPT ![o.side][o.price]
                          = Relinked(b.levels[o.side][o.price], o)]
<1>1. /\ b.orders \in [0 .. MaxOrders -> Orders] /\ DOMAIN b.orders = 0 .. MaxOrders
      /\ id \in 0 .. MaxOrders /\ 0 \in 0 .. MaxOrders /\ id # 0
  BY BookConstants DEF OrdersGood
<1>2. Predecessor(b, id) = o.prev
  BY PredecessorIsPrev
<1>3. c = [b EXCEPT !.orders = orders2, !.levels = levels2]
  <2>1. orders2 = [x \in DOMAIN b.orders |-> Moved(x)]
    BY <1>1
  <2>. HIDE DEF orders2
  <2>. QED  BY <1>2, <2>1 DEF UnlinkOrder, Relinked
<1>. HIDE DEF orders2, levels2, c
<1>4. /\ c.orders = orders2 /\ c.levels = levels2 /\ IsBook(c)
      /\ c.next = b.next /\ c.prev = b.prev /\ c.head = b.head /\ c.best = b.best
      /\ c.listed = b.listed /\ c.index = b.index /\ c.reserved = b.reserved
      /\ c.nextId = b.nextId /\ c.ok = b.ok
  BY <1>3 DEF IsBook
<1>5. ASSUME NEW x \in 0 .. MaxOrders
      PROVE  /\ orders2[x] \in Orders /\ SameTerms(b.orders[x], orders2[x])
             /\ orders2[x].next = IF x = id THEN 0 ELSE IF x = o.prev /\ x # 0 THEN o.next
                                                   ELSE b.orders[x].next
             /\ orders2[x].prev = IF x = id THEN 0 ELSE IF x = o.next /\ x # 0 THEN o.prev
                                                   ELSE b.orders[x].prev
  <2>1. b.orders[x] \in Orders /\ o \in Orders /\ orders2[x] = Moved(x)
    BY <1>1 DEF orders2
  <2>. DEFINE q == b.orders[x]
              next2 == IF x = id THEN 0 ELSE IF x = o.prev /\ x # 0 THEN o.next ELSE q.next
              prev2 == IF x = id THEN 0 ELSE IF x = o.next /\ x # 0 THEN o.prev ELSE q.prev
  <2>2. next2 \in 0 .. MaxOrders /\ prev2 \in 0 .. MaxOrders
    BY <1>1, <2>1 DEF Orders
  <2>3. orders2[x] = [q EXCEPT !.next = next2, !.prev = prev2]
    BY <2>1
  <2>4. q \in Orders
    BY <2>1
  <2>. HIDE DEF q, next2, prev2
  <2>5. /\ orders2[x] \in Orders /\ SameTerms(q, orders2[x]) /\ orders2[x].next = next2
        /\ orders2[x].prev = prev2
    BY <2>2, <2>3, <2>4 DEF Orders, SameTerms
  <2>. QED  BY <2>5 DEF q, next2, prev2
<1>6. orders2 \in [0 .. MaxOrders -> Orders]
  <2>1. orders2 = [x \in 0 .. MaxOrders |-> orders2[x]]
    BY DEF orders2
  <2>. QED  BY <1>5, <2>1
<1>7. Leaves(b.orders, Erased(orders2, id), id)
  <2>1. Erased(orders2, id) \in [0 .. MaxOrders -> Orders]
    <3>1. NoOrder \in Orders
      BY <1>1 DEF NoOrder, Orders, Prices0, Sides
    <3>. QED  BY <1>6, <3>1 DEF Erased
  <2>2. /\ Erased(orders2, id)[id] = NoOrder
        /\ \A x \in (0 .. MaxOrders) \ {id} : Erased(orders2, id)[x] = orders2[x]
    BY <1>1, <1>6 DEF Erased
  <2>. QED  BY <1>5, <2>1, <2>2 DEF Leaves
<1>8. LevelsLeave(b.orders, b.levels, levels2, id)
  BY DEF LevelsLeave, levels2
<1>. QED  BY <1>1, <1>4, <1>5, <1>6, <1>7, <1>8 DEF OnlyUnlinked, c

\* The list of prices of another side is not touched.
LEMMA OtherHeadStays ==
  ASSUME NEW b, NEW c, NEW lost, NEW side \in Sides, HeadGood(b, lost, side),
         c.levels[side] = b.levels[side], c.next[side] = b.next[side],
         c.prev[side] = b.prev[side], c.head[side] = b.head[side]
  PROVE  HeadGood(c, lost, side)
<1>1. PICK s : /\ PricesAre(b.levels, b.next, b.prev, side, s)
               /\ b.head[side] = FirstOf(s) \/ b.head[side] \in lost
  BY DEF HeadGood
<1>2. PricesAre(c.levels, c.next, c.prev, side, s)
  BY <1>1 DEF PricesAre
<1>. QED  BY <1>1, <1>2 DEF HeadGood

\* An order's price is one of the list.
LEMMA PriceIsListed ==
  ASSUME NEW orders, NEW nextId, NEW X, OrdersGood(orders, nextId, X),
         NEW levels, LevelsGood(orders, levels), NEW id \in Ids, orders[id].trader # NULL
  PROVE  levels[orders[id].side][orders[id].price].exists
<1>1. PICK s : /\ QueueIs(orders, orders[id].side, orders[id].price, s)
               /\ levels[orders[id].side][orders[id].price] = LevelOf(orders, s)
               /\ \E i \in 1 .. Len(s) : s[i] = id
  BY OrderIsQueued, BookConstants
<1>2. orders \in [0 .. MaxOrders -> Orders]
  BY DEF OrdersGood
<1>3. Len(s) # 0
  BY <1>1, <1>2, QueueFacts
<1>. QED  BY <1>1, <1>3 DEF LevelOf

\* What a call has done to the rest of the book.
TakenOff(b, c, lost, id) ==
  LET side == b.orders[id].side
      p == b.orders[id].price
  IN /\ \A x \in 0 .. MaxOrders : SameTerms(b.orders[x], c.orders[x])
     /\ c.nextId = b.nextId /\ c.best = b.best
     /\ \A x \in Sides \ {side} : c.head[x] = b.head[x]
     /\ lost = {} /\ (c.levels[side][p].exists \/ p # b.head[side]) => c.head[side] = b.head[side]

\* The list of prices is good, and nothing else of u is changed.
PriceDropped(b, u, c, lost, side, p) ==
  /\ IsBook(c) /\ PricesGood(c, lost)
  /\ c.orders = u.orders /\ c.levels = u.levels /\ c.best = u.best /\ c.listed = u.listed
  /\ c.index = u.index /\ c.reserved = u.reserved /\ c.nextId = u.nextId /\ c.ok = u.ok
  /\ \A x \in Sides \ {side} : c.head[x] = b.head[x]
  /\ lost = {} /\ (c.levels[side][p].exists \/ p # b.head[side]) => c.head[side] = b.head[side]

\* The price of an emptied level leaves the list of prices.
LEMMA DroppingPrice ==
  ASSUME NEW b, NEW lost, NEW E, NEW X, Sound(b, lost, E, X), NEW id \in Ids, X \subseteq {id},
         b.orders[id].trader # NULL, NEW u, OnlyUnlinked(b, u, id),
         NEW c
  PROVE  c = DropIfEmpty(u, b.orders[id].side, b.orders[id].price)
         => PriceDropped(b, u, c, lost, b.orders[id].side, b.orders[id].price)
<1>1. SUFFICES ASSUME c = DropIfEmpty(u, b.orders[id].side, b.orders[id].price)
               PROVE  PriceDropped(b, u, c, lost, b.orders[id].side, b.orders[id].price)
  OBVIOUS
<1>. DEFINE side == b.orders[id].side
            p == b.orders[id].price
<1>2. side \in Sides /\ p \in Prices
  BY OrderIsQueued, BookConstants DEF Sound
<1>3. /\ OrdersGood(b.orders, b.nextId, X) /\ LevelsGood(b.orders, b.levels)
      /\ PricesGood(b, lost)
  BY DEF Sound
<1>4. /\ IsBook(u) /\ Leaves(b.orders, Erased(u.orders, id), id)
      /\ LevelsLeave(b.orders, b.levels, u.levels, id)
      /\ u.next = b.next /\ u.prev = b.prev /\ u.head = b.head
  BY DEF OnlyUnlinked
<1>5. /\ \A x \in Sides \ {side} : u.levels[x] = b.levels[x]
      /\ SameLive(b.levels, u.levels, side, p)
      /\ u.levels[side][p].total = 0 <=> ~u.levels[side][p].exists
  <2>1. LevelShrinks(b.levels, u.levels, b.orders[id].side, b.orders[id].price)
    BY <1>3, <1>4, LevelsStayGood
  <2>. QED  BY <2>1 DEF LevelShrinks
<1>6. b.levels[side][p].exists
  BY <1>3, PriceIsListed
<1>7. /\ u.next \in Pointers /\ u.prev \in Pointers /\ u.head \in [Sides -> Prices0]
      /\ \A x \in Sides : HeadGood(b, lost, x)
  BY <1>3, <1>4 DEF PricesGood
<1>8. PICK s : /\ PricesAre(b.levels, b.next, b.prev, side, s)
               /\ b.head[side] = FirstOf(s) \/ b.head[side] \in lost
  BY <1>2, <1>7 DEF HeadGood
<1>9. CASE u.levels[side][p].total # 0
  <2>1. c = u /\ u.levels[side][p].exists
    BY <1>1, <1>5, <1>9 DEF DropIfEmpty
  <2>2. PricesAre(u.levels, u.next, u.prev, side, s)
    <3>1. \A q \in Prices : u.levels[side][q].exists <=> b.levels[side][q].exists
      <4>. HIDE DEF side, p
      <4>. QED  BY <1>5, <1>6, <2>1 DEF SameLive
    <3>. HIDE DEF side, p
    <3>. QED  BY <1>4, <1>8, <3>1 DEF PricesAre
  <2>3. HeadGood(u, lost, side)
    BY <1>4, <1>8, <2>2 DEF HeadGood
  <2>4. ASSUME NEW x \in Sides \ {side} PROVE HeadGood(u, lost, x)
    <3>. HIDE DEF side, p
    <3>. QED  BY <1>4, <1>5, <1>7, OtherHeadStays
  <2>5. PricesGood(u, lost)
    BY <1>7, <2>3, <2>4 DEF PricesGood
  <2>. QED  BY <1>4, <2>1, <2>5 DEF PriceDropped
<1>10. CASE u.levels[side][p].total = 0
  <2>1. c = RemovePrice(u, side, p) /\ ~u.levels[side][p].exists
    BY <1>1, <1>5, <1>10 DEF DropIfEmpty
  <2>2. PICK i \in 1 .. Len(s) : s[i] = p
    <3>1. p \in Range(s) /\ s \in Seq(Prices)
      BY <1>2, <1>6, <1>8 DEF PricesAre
    <3>. QED  BY <3>1 DEF Range
  <2>3. PricesAre(b.levels, u.next, u.prev, side, s)
    BY <1>4, <1>8
  <2>4. /\ PricesChange(u, c, side)
        /\ c.head[side] = IF i = 1 THEN NextIn(s, i) ELSE u.head[side]
        /\ PricesAre(u.levels, c.next, c.prev, side, Without(s, i))
    <3>. HIDE DEF side, p
    <3>1. PriceLeaves(u, RemovePrice(u, side, s[i]), side, s, i)
      BY <1>2, <1>4, <1>5, <1>7, <2>1, <2>2, <2>3, RemovingPrice
    <3>. QED  BY <2>1, <2>2, <3>1 DEF PriceLeaves
  <2>5. /\ c.orders = u.orders /\ c.levels = u.levels /\ c.best = u.best /\ c.listed = u.listed
        /\ c.index = u.index /\ c.reserved = u.reserved /\ c.nextId = u.nextId /\ c.ok = u.ok
        /\ IsBook(c)
        /\ c.next \in Pointers /\ c.prev \in Pointers /\ c.head \in [Sides -> Prices0]
        /\ \A x \in Sides \ {side} : /\ c.next[x] = u.next[x] /\ c.prev[x] = u.prev[x]
                                     /\ c.head[x] = u.head[x]
    <3>. HIDE DEF side, p
    <3>1. c.next \in Pointers /\ \A x \in Sides \ {side} : c.next[x] = u.next[x]
      <4>. DEFINE v == c.next[side]
                  Row == [Prices -> Prices0]
      <4>1. c.next = [u.next EXCEPT ![side] = v] /\ v \in Row
        BY <2>4 DEF PricesChange
      <4>2. u.next \in [Sides -> Row]
        BY <1>7 DEF Pointers
      <4>. HIDE DEF v, Row
      <4>3. c.next \in [Sides -> Row] /\ \A x \in Sides \ {side} : c.next[x] = u.next[x]
        BY <1>2, <4>1, <4>2
      <4>. QED  BY <4>3 DEF Row, Pointers
    <3>2. c.prev \in Pointers /\ \A x \in Sides \ {side} : c.prev[x] = u.prev[x]
      <4>. DEFINE v == c.prev[side]
                  Row == [Prices -> Prices0]
      <4>1. c.prev = [u.prev EXCEPT ![side] = v] /\ v \in Row
        BY <2>4 DEF PricesChange
      <4>2. u.prev \in [Sides -> Row]
        BY <1>7 DEF Pointers
      <4>. HIDE DEF v, Row
      <4>3. c.prev \in [Sides -> Row] /\ \A x \in Sides \ {side} : c.prev[x] = u.prev[x]
        BY <1>2, <4>1, <4>2
      <4>. QED  BY <4>3 DEF Row, Pointers
    <3>3. c.head \in [Sides -> Prices0] /\ \A x \in Sides \ {side} : c.head[x] = u.head[x]
      BY <1>2, <1>7, <2>4 DEF PricesChange
    <3>. QED  BY <2>4, <3>1, <3>2, <3>3, Zenon DEF PricesChange
  <2>6. ASSUME NEW x \in Sides \ {side} PROVE HeadGood(c, lost, x)
    <3>. HIDE DEF side, p
    <3>. QED  BY <1>4, <1>5, <1>7, <2>5, OtherHeadStays
  <2>7. s \in Seq(Prices) /\ LinkedAs(s, u.next[side], u.prev[side])
    BY <2>3 DEF PricesAre
  <2>8. FirstOf(Without(s, i)) = IF i = 1 THEN NextIn(s, i) ELSE FirstOf(s)
    <3>1. /\ Len(s) \in Nat /\ \A j, k \in 1 .. Len(s) : s[j] = s[k] => j = k
      BY <2>7 DEF LinkedAs
    <3>2. /\ Len(Without(s, i)) = Len(s) - 1
          /\ \A j \in 1 .. Len(s) - 1 : Without(s, i)[j] = IF j < i THEN s[j] ELSE s[j + 1]
      BY <2>7, <3>1, WithoutIsSeq
    <3>. HIDE DEF side, p
    <3>. QED  BY <3>1, <3>2 DEF FirstOf, NextIn
  <2>9. HeadGood(c, lost, side)
    <3>1. PricesAre(c.levels, c.next, c.prev, side, Without(s, i))
      BY <2>4, <2>5
    <3>2. c.head[side] = FirstOf(Without(s, i)) \/ c.head[side] \in lost
      BY <1>4, <1>8, <2>4, <2>8
    <3>. QED  BY <3>1, <3>2 DEF HeadGood
  <2>10. PricesGood(c, lost)
    BY <2>5, <2>6, <2>9 DEF PricesGood
  <2>11. lost = {} /\ (c.levels[side][p].exists \/ p # b.head[side]) => c.head[side] = b.head[side]
    <3>1. ~c.levels[side][p].exists
      BY <2>1, <2>5
    <3>2. ASSUME lost = {}, i = 1 PROVE p = b.head[side]
      <4>1. b.head[side] = FirstOf(s)
        BY <1>8, <3>2
      <4>. HIDE DEF side, p
      <4>. QED  BY <2>2, <3>2, <4>1 DEF FirstOf
    <3>. HIDE DEF side, p
    <3>. QED  BY <1>4, <2>4, <3>1, <3>2
  <2>. QED  BY <1>4, <2>5, <2>10, <2>11 DEF PriceDropped
<1>. QED  BY <1>9, <1>10

\* _removeOrderFromLevel.
LEMMA RemovingFromLevel ==
  ASSUME NEW b, NEW lost, NEW E, NEW X, Sound(b, lost, E, X), NEW id \in Ids, X \subseteq {id},
         b.orders[id].trader # NULL
  PROVE  /\ Leaving(RemoveFromLevel(b, id), lost, E, id)
         /\ TakenOff(b, RemoveFromLevel(b, id), lost, id)
<1>. DEFINE side == b.orders[id].side
            p == b.orders[id].price
            u == UnlinkOrder(b, id)
            c == RemoveFromLevel(b, id)
<1>1. /\ IsBook(b) /\ b.ok /\ b.best \in [Sides -> Prices0]
      /\ OrdersGood(b.orders, b.nextId, X) /\ LevelsGood(b.orders, b.levels)
      /\ ListsGood(b.orders, b.listed, b.index) /\ ReservedGood(b.orders, b.reserved, E \cup X)
  BY DEF Sound
<1>2. OnlyUnlinked(b, u, id)
  BY <1>1, UnlinkingOrder
<1>3. c = DropIfEmpty(u, side, p)
  BY DEF RemoveFromLevel
<1>. HIDE DEF u, c
<1>4. /\ IsBook(c) /\ PricesGood(c, lost)
      /\ c.orders = u.orders /\ c.levels = u.levels /\ c.best = u.best /\ c.listed = u.listed
      /\ c.index = u.index /\ c.reserved = u.reserved /\ c.nextId = u.nextId /\ c.ok = u.ok
      /\ \A x \in Sides \ {side} : c.head[x] = b.head[x]
      /\ lost = {} /\ (c.levels[side][p].exists \/ p # b.head[side]) => c.head[side] = b.head[side]
  <2>1. PriceDropped(b, u, c, lost, b.orders[id].side, b.orders[id].price)
    BY <1>2, <1>3, DroppingPrice
  <2>. QED  BY <2>1 DEF PriceDropped
<1>5. /\ u.orders \in [0 .. MaxOrders -> Orders]
      /\ Leaves(b.orders, Erased(u.orders, id), id) /\ SameTerms(b.orders[id], u.orders[id])
      /\ LevelsLeave(b.orders, b.levels, u.levels, id)
      /\ u.best = b.best /\ u.listed = b.listed /\ u.index = b.index /\ u.reserved = b.reserved
      /\ u.nextId = b.nextId /\ u.ok = b.ok
  BY <1>2 DEF OnlyUnlinked
<1>6. OrdersGood(Erased(u.orders, id), b.nextId, {}) /\ LevelsGood(Erased(u.orders, id), u.levels)
  BY <1>1, <1>5, LevelsStayGood
<1>7. \A x \in (0 .. MaxOrders) \ {id} : Erased(u.orders, id)[x] = u.orders[x]
  BY <1>5 DEF Erased
<1>8. \A x \in 0 .. MaxOrders : SameTerms(b.orders[x], u.orders[x])
  BY <1>5, <1>7 DEF Leaves
<1>9. u.orders[id].trader \in Traders
  <2>1. b.orders[id].trader \in Traders
    BY <1>1, OrderIsQueued, BookConstants
  <2>. QED  BY <1>5, <2>1 DEF SameTerms
<1>10. ListsGood(u.orders, b.listed, b.index)
  <2>1. ASSUME NEW t \in Traders PROVE OrdersOf(u.orders, t) = OrdersOf(b.orders, t)
    BY <1>8, BookConstants DEF OrdersOf, SameTerms
  <2>. QED  BY <1>1, <2>1 DEF ListsGood
<1>11. ReservedGood(Erased(u.orders, id), b.reserved, E \cup {id})
  <2>1. ASSUME NEW x \in Ids \ (E \cup {id})
        PROVE  b.reserved[x] = Reservation(Erased(u.orders, id)[x])
    <3>1. b.reserved[x] = Reservation(b.orders[x])
      BY <1>1 DEF ReservedGood
    <3>2. SameTerms(b.orders[x], u.orders[x]) /\ Erased(u.orders, id)[x] = u.orders[x]
      BY <1>7, <1>8, BookConstants
    <3>. QED  BY <3>1, <3>2 DEF SameTerms, Reservation
  <2>. QED  BY <1>1, <2>1 DEF ReservedGood
<1>12. Leaving(c, lost, E, id)
  BY <1>1, <1>4, <1>5, <1>6, <1>9, <1>10, <1>11 DEF Leaving
<1>13. TakenOff(b, c, lost, id)
  BY <1>4, <1>5, <1>8 DEF TakenOff
<1>. QED  BY <1>12, <1>13 DEF c

----------------------------------------------------------------------------
(* The lists of the traders. *)

\* The last entry has taken the place of id, and the list is shorter by one.
Popped(list, index, id, list2, index2) ==
  LET n == Len(list)
      moved == list[n]
  IN /\ list2 = SubSeq([list EXCEPT ![index[id]] = moved], 1, n - 1)
     /\ index2 = [[index EXCEPT ![moved] = index[id]] EXCEPT ![id] = 0]

\* Where an order is in the list.
LEMMA PlaceInList ==
  ASSUME NEW list, NEW index, NEW ids, ListIs(list, index, ids), NEW id \in ids
  PROVE  index[id] \in 1 .. Len(list) /\ list[index[id]] = id
<1>1. list \in Seq(Ids) /\ id \in Range(list) /\ \A i \in 1 .. Len(list) : index[list[i]] = i
  BY DEF ListIs
<1>2. PICK i \in 1 .. Len(list) : list[i] = id
  BY <1>1 DEF Range
<1>. QED  BY <1>1, <1>2

\* removeOrderFromUserList.
LEMMA PoppedIsList ==
  ASSUME NEW list, NEW index, NEW ids, ListIs(list, index, ids), NEW id \in ids,
         NEW list2, NEW index2, Popped(list, index, id, list2, index2)
  PROVE  ListIs(list2, index2, ids \ {id})
<1>. DEFINE n == Len(list)
            at == index[id]
            moved == list[n]
            swapped == [list EXCEPT ![at] = moved]
<1>1. /\ list \in Seq(Ids) /\ index \in [Ids -> Nat] /\ Range(list) = ids
      /\ \A i, j \in 1 .. n : list[i] = list[j] => i = j
      /\ \A i \in 1 .. n : index[list[i]] = i
      /\ \A x \in Ids \ ids : index[x] = 0
  BY DEF ListIs
<1>2. at \in 1 .. n /\ list[at] = id
  BY PlaceInList
<1>3. /\ n \in Nat /\ n # 0 /\ n \in 1 .. n /\ (\A i \in 1 .. n : list[i] \in Ids)
      /\ moved \in Ids /\ id \in Ids
  BY <1>1, <1>2
<1>4. /\ swapped \in Seq(Ids) /\ Len(swapped) = n
      /\ \A i \in 1 .. n : swapped[i] = IF i = at THEN moved ELSE list[i]
  <2>. HIDE DEF at, moved
  <2>. QED  BY <1>1, <1>2, <1>3
<1>5. /\ list2 \in Seq(Ids) /\ Len(list2) = n - 1
      /\ \A i \in 1 .. n - 1 : list2[i] = IF i = at THEN moved ELSE list[i]
  <2>1. list2 = SubSeq(swapped, 1, n - 1)
    BY DEF Popped
  <2>. HIDE DEF swapped, at, moved, n
  <2>2. \A i \in 1 .. n - 1 : i \in 1 .. n /\ swapped[i] \in Ids
    BY <1>3, <1>4
  <2>3. list2 = [i \in 1 .. n - 1 |-> swapped[i]]
    BY <1>3, <1>4, <2>1
  <2>4. list2 \in [1 .. n - 1 -> Ids] /\ n - 1 \in Nat
    BY <1>3, <2>2, <2>3
  <2>. QED  BY <1>4, <2>2, <2>3, <2>4
<1>6. /\ index2 \in [Ids -> Nat]
      /\ \A x \in Ids : index2[x] = IF x = id THEN 0 ELSE IF x = moved THEN at ELSE index[x]
  <2>1. index2 = [[index EXCEPT ![moved] = at] EXCEPT ![id] = 0]
    BY DEF Popped
  <2>2. at \in Nat
    BY <1>2, <1>3
  <2>. HIDE DEF at, moved, n
  <2>. QED  BY <1>1, <1>3, <2>1, <2>2
<1>. HIDE DEF swapped, at, n
<1>7. \A i \in 1 .. n - 1 : i \in 1 .. n /\ i # n
  BY <1>3
<1>8. ASSUME NEW i \in 1 .. n - 1, NEW j \in 1 .. n - 1, list2[i] = list2[j] PROVE i = j
  <2>. DEFINE From(k) == IF k = at THEN n ELSE k
  <2>1. /\ list2[i] = list[From(i)] /\ From(i) \in 1 .. n
        /\ list2[j] = list[From(j)] /\ From(j) \in 1 .. n
    BY <1>3, <1>5, <1>7 DEF moved
  <2>2. From(i) = From(j)
    <3>. HIDE DEF From
    <3>. QED  BY <1>1, <1>8, <2>1
  <2>. QED  BY <1>7, <2>2
<1>9. \A i \in 1 .. n - 1 : index2[list2[i]] = i
  <2>1. SUFFICES ASSUME NEW i \in 1 .. n - 1 PROVE index2[list2[i]] = i
    OBVIOUS
  <2>2. CASE i = at
    <3>1. list2[i] = moved /\ moved # id
      BY <1>1, <1>2, <1>3, <1>5, <1>7, <2>2
    <3>. QED  BY <1>3, <1>6, <2>2, <3>1
  <2>3. CASE i # at
    <3>1. /\ list2[i] = list[i] /\ list[i] # id /\ list[i] # moved /\ list[i] \in Ids
          /\ index[list[i]] = i
      BY <1>1, <1>2, <1>3, <1>5, <1>7, <2>3
    <3>. QED  BY <1>6, <3>1
  <2>. QED  BY <2>2, <2>3
<1>10. Range(list2) = ids \ {id}
  <2>1. Range(list2) = {list2[i] : i \in 1 .. n - 1} /\ ids = {list[i] : i \in 1 .. n}
    BY <1>1, <1>5 DEF Range, n
  <2>2. ASSUME NEW x \in Range(list2) PROVE x \in ids \ {id}
    <3>1. PICK i \in 1 .. n - 1 : x = list2[i]
      BY <2>1
    <3>2. CASE i = at
      <4>1. x = list[n] /\ n # at
        BY <1>5, <1>7, <3>1, <3>2 DEF moved
      <4>. QED  BY <1>1, <1>2, <1>3, <2>1, <4>1
    <3>3. CASE i # at
      <4>1. x = list[i] /\ i \in 1 .. n
        BY <1>5, <1>7, <3>1, <3>3
      <4>. QED  BY <1>1, <1>2, <2>1, <3>3, <4>1
    <3>. QED  BY <3>2, <3>3
  <2>3. ASSUME NEW x \in ids \ {id} PROVE x \in Range(list2)
    <3>1. PICK i \in 1 .. n : x = list[i]
      BY <2>1
    <3>2. i # at
      BY <1>2, <3>1
    <3>3. CASE i = n
      <4>1. at \in 1 .. n - 1 /\ list2[at] = x
        BY <1>2, <1>3, <1>5, <3>1, <3>2, <3>3 DEF moved
      <4>. QED  BY <2>1, <4>1
    <3>4. CASE i # n
      <4>1. i \in 1 .. n - 1 /\ list2[i] = x
        BY <1>3, <1>5, <3>1, <3>2, <3>4
      <4>. QED  BY <2>1, <4>1
    <3>. QED  BY <3>3, <3>4
  <2>. QED  BY <2>2, <2>3
<1>11. \A x \in Ids \ (ids \ {id}) : index2[x] = 0
  <2>1. moved \in ids
    BY <1>1, <1>3 DEF Range, moved, n
  <2>. QED  BY <1>1, <1>6, <2>1
<1>. QED  BY <1>5, <1>6, <1>8, <1>9, <1>10, <1>11 DEF ListIs

\* A new entry at the end.
LEMMA AppendedIsList ==
  ASSUME NEW list, NEW index, NEW ids, ListIs(list, index, ids), NEW id \in Ids, id \notin ids
  PROVE  ListIs(Append(list, id), [index EXCEPT ![id] = Len(list) + 1], ids \cup {id})
<1>. DEFINE n == Len(list)
            list2 == Append(list, id)
            index2 == [index EXCEPT ![id] = n + 1]
<1>1. /\ list \in Seq(Ids) /\ index \in [Ids -> Nat] /\ Range(list) = ids /\ n \in Nat
      /\ \A i, j \in 1 .. n : list[i] = list[j] => i = j
      /\ \A i \in 1 .. n : index[list[i]] = i
      /\ \A x \in Ids \ ids : index[x] = 0
      /\ \A i \in 1 .. n : list[i] \in Ids
  BY DEF ListIs
<1>2. /\ list2 \in Seq(Ids) /\ Len(list2) = n + 1
      /\ \A i \in 1 .. n + 1 : list2[i] = IF i = n + 1 THEN id ELSE list[i]
  BY <1>1
<1>3. /\ index2 \in [Ids -> Nat]
      /\ \A x \in Ids : index2[x] = IF x = id THEN n + 1 ELSE index[x]
  <2>. HIDE DEF n
  <2>. QED  BY <1>1
<1>. HIDE DEF list2, index2
<1>4. Range(list) = {list[i] : i \in 1 .. n} /\ Range(list2) = {list2[i] : i \in 1 .. n + 1}
  BY <1>1, <1>2 DEF Range
<1>5. \A i \in 1 .. n : list[i] # id
  BY <1>1, <1>4
<1>6. \A i \in 1 .. n + 1 : i = n + 1 \/ i \in 1 .. n
  BY <1>1
<1>7. /\ \A i, j \in 1 .. n + 1 : list2[i] = list2[j] => i = j
      /\ \A i \in 1 .. n + 1 : index2[list2[i]] = i
  <2>1. ASSUME NEW i \in 1 .. n + 1, NEW j \in 1 .. n + 1, list2[i] = list2[j] PROVE i = j
    BY <1>1, <1>2, <1>5, <1>6, <2>1
  <2>2. ASSUME NEW i \in 1 .. n + 1 PROVE index2[list2[i]] = i
    <3>1. CASE i = n + 1
      BY <1>2, <1>3, <3>1
    <3>2. CASE i # n + 1
      <4>1. i \in 1 .. n /\ list2[i] = list[i] /\ list[i] \in Ids
        BY <1>1, <1>2, <1>6, <3>2
      <4>. QED  BY <1>1, <1>3, <1>5, <4>1
    <3>. QED  BY <3>1, <3>2
  <2>. QED  BY <2>1, <2>2
<1>8. Range(list2) = ids \cup {id}
  <2>1. n + 1 \in 1 .. n + 1 /\ \A i \in 1 .. n : i \in 1 .. n + 1 /\ i # n + 1
    BY <1>1
  <2>2. list2[n + 1] = id /\ \A i \in 1 .. n : list2[i] = list[i]
    BY <1>2, <2>1
  <2>3. ASSUME NEW x \in Range(list2) PROVE x \in ids \cup {id}
    <3>1. PICK i \in 1 .. n + 1 : x = list2[i]
      BY <1>4
    <3>2. CASE i = n + 1
      BY <2>2, <3>1, <3>2
    <3>3. CASE i \in 1 .. n
      BY <1>1, <1>4, <2>2, <3>1, <3>3
    <3>. QED  BY <1>6, <3>2, <3>3
  <2>4. ASSUME NEW x \in ids PROVE x \in Range(list2)
    <3>1. PICK i \in 1 .. n : x = list[i]
      BY <1>1, <1>4
    <3>. QED  BY <1>4, <2>1, <2>2, <3>1
  <2>5. id \in Range(list2)
    BY <1>4, <2>1, <2>2
  <2>. QED  BY <2>3, <2>4, <2>5
<1>9. \A x \in Ids \ (ids \cup {id}) : index2[x] = 0
  BY <1>1, <1>3
<1>. QED  BY <1>2, <1>3, <1>7, <1>8, <1>9 DEF ListIs, list2, index2

\* removeOrderFromUserList takes the order off the list of its trader.
OnlyUnlisted(b, c, t, id) ==
  /\ IsBook(c)
  /\ \E list, index : /\ Popped(b.listed[t], b.index[t], id, list, index)
                      /\ c.listed = [b.listed EXCEPT ![t] = list]
                      /\ c.index = [b.index EXCEPT ![t] = index]
  /\ c.orders = b.orders /\ c.levels = b.levels /\ c.next = b.next /\ c.prev = b.prev
  /\ c.head = b.head /\ c.best = b.best /\ c.reserved = b.reserved /\ c.nextId = b.nextId
  /\ c.ok = b.ok

\* The index gives a place in the list, so nothing reverts.
LEMMA UnlistingOrder ==
  ASSUME NEW b, IsBook(b), NEW t, NEW ids, ListIs(b.listed[t], b.index[t], ids), NEW id \in ids
  PROVE  OnlyUnlisted(b, UnlistOrder(b, t, id), t, id)
<1>. DEFINE list == b.listed[t]
            at == b.index[t][id]
            n == Len(list)
            moved == list[n]
            list2 == SubSeq([list EXCEPT ![at] = moved], 1, n - 1)
            index2 == [[b.index[t] EXCEPT ![moved] = at] EXCEPT ![id] = 0]
            c == UnlistOrder(b, t, id)
<1>1. at \in 1 .. n /\ n \in Nat
  <2>1. list \in Seq(Ids)
    BY DEF ListIs
  <2>2. n \in Nat
    BY <2>1
  <2>. QED  BY <2>2, PlaceInList
<1>2. at # 0 /\ ~(at > n) /\ n # 0
  <2>. HIDE DEF at, n
  <2>. QED  BY <1>1
<1>3. c = [b EXCEPT !.listed[t] = list2, !.index[t] = index2]
  BY <1>2 DEF UnlistOrder
<1>4. Popped(list, b.index[t], id, list2, index2)
  BY DEF Popped
<1>. HIDE DEF list2, index2, c
<1>5. /\ IsBook(c) /\ c.listed = [b.listed EXCEPT ![t] = list2]
      /\ c.index = [b.index EXCEPT ![t] = index2]
      /\ c.orders = b.orders /\ c.levels = b.levels /\ c.next = b.next /\ c.prev = b.prev
      /\ c.head = b.head /\ c.best = b.best /\ c.reserved = b.reserved /\ c.nextId = b.nextId
      /\ c.ok = b.ok
  BY <1>3 DEF IsBook
<1>. QED  BY <1>4, <1>5 DEF OnlyUnlisted, c

\* Then the lists are good for the orders without it.
LEMMA UnlistedIsGood ==
  ASSUME NEW b, NEW c, NEW orders, orders \in [0 .. MaxOrders -> Orders],
         ListsGood(orders, b.listed, b.index), NEW id \in Ids, NEW t \in Traders,
         orders[id].trader = t, OnlyUnlisted(b, c, t, id)
  PROVE  ListsGood(Erased(orders, id), c.listed, c.index)
<1>1. PICK list, index : /\ Popped(b.listed[t], b.index[t], id, list, index)
                         /\ c.listed = [b.listed EXCEPT ![t] = list]
                         /\ c.index = [b.index EXCEPT ![t] = index]
  BY DEF OnlyUnlisted
<1>2. /\ b.listed \in [Traders -> Seq(Ids)] /\ b.index \in [Traders -> [Ids -> Nat]]
      /\ \A x \in Traders : ListIs(b.listed[x], b.index[x], OrdersOf(orders, x))
  BY DEF ListsGood
<1>3. id \in OrdersOf(orders, t)
  BY DEF OrdersOf
<1>4. ListIs(list, index, OrdersOf(orders, t) \ {id})
  BY <1>1, <1>2, <1>3, PoppedIsList
<1>5. list \in Seq(Ids) /\ index \in [Ids -> Nat]
  BY <1>4 DEF ListIs
<1>6. /\ c.listed \in [Traders -> Seq(Ids)] /\ c.index \in [Traders -> [Ids -> Nat]]
      /\ c.listed[t] = list /\ c.index[t] = index
      /\ \A x \in Traders \ {t} : c.listed[x] = b.listed[x] /\ c.index[x] = b.index[x]
  BY <1>1, <1>2, <1>5
<1>7. \A x \in Traders : OrdersOf(Erased(orders, id), x) = OrdersOf(orders, x) \ {id}
  <2>1. ASSUME NEW x \in Traders, NEW y \in Ids
        PROVE  Erased(orders, id)[y].trader = x <=> y # id /\ orders[y].trader = x
    <3>1. Erased(orders, id)[y] = IF y = id THEN NoOrder ELSE orders[y]
      BY BookConstants DEF Erased
    <3>2. NoOrder.trader = NULL /\ x # NULL
      BY BookConstants DEF NoOrder
    <3>. QED  BY <3>1, <3>2
  <2>. QED  BY <2>1 DEF OrdersOf
<1>8. ASSUME NEW x \in Traders
      PROVE ListIs(c.listed[x], c.index[x], OrdersOf(Erased(orders, id), x))
  <2>1. CASE x = t
    BY <1>4, <1>6, <1>7, <2>1
  <2>2. CASE x # t
    <3>1. id \notin OrdersOf(orders, x)
      BY <2>2 DEF OrdersOf
    <3>2. OrdersOf(Erased(orders, id), x) = OrdersOf(orders, x)
      BY <1>7, <3>1
    <3>. QED  BY <1>2, <1>6, <2>2, <3>2
  <2>. QED  BY <2>1, <2>2
<1>. QED  BY <1>6, <1>8 DEF ListsGood

\* What deleting an order does to the storage.
OnlyDeleted(b, c, id) ==
  /\ c.orders = Erased(b.orders, id)
  /\ c.levels = b.levels /\ c.next = b.next /\ c.prev = b.prev /\ c.head = b.head
  /\ c.best = b.best /\ c.nextId = b.nextId

\* The price lists do not depend on the rest of the book.
LEMMA PricesStayGood ==
  ASSUME NEW b, NEW c, NEW lost, PricesGood(b, lost), c.levels = b.levels, c.next = b.next,
         c.prev = b.prev, c.head = b.head
  PROVE  PricesGood(c, lost)
BY DEF PricesGood, HeadGood

\* An order that has left its level is deleted.
LEMMA DeletingOrder ==
  ASSUME NEW b, NEW lost, NEW E, NEW id \in Ids, Leaving(b, lost, E, id)
  PROVE  /\ Sound(DeleteOrder(b, id), lost, E, {})
         /\ OnlyDeleted(b, DeleteOrder(b, id), id)
<1>. DEFINE t == b.orders[id].trader
            a == [b EXCEPT !.reserved[id] = 0]
            u == UnlistOrder(a, t, id)
            c == DeleteOrder(b, id)
<1>1. /\ IsBook(b) /\ b.ok /\ b.best \in [Sides -> Prices0]
      /\ b.orders \in [0 .. MaxOrders -> Orders] /\ t \in Traders
      /\ OrdersGood(Erased(b.orders, id), b.nextId, {})
      /\ LevelsGood(Erased(b.orders, id), b.levels)
      /\ PricesGood(b, lost)
      /\ ListsGood(b.orders, b.listed, b.index)
      /\ ReservedGood(Erased(b.orders, id), b.reserved, E \cup {id})
  BY DEF Leaving
<1>2. /\ IsBook(a) /\ a.reserved = [b.reserved EXCEPT ![id] = 0]
      /\ a.orders = b.orders /\ a.levels = b.levels /\ a.next = b.next /\ a.prev = b.prev
      /\ a.head = b.head /\ a.best = b.best /\ a.nextId = b.nextId
      /\ a.ok = b.ok /\ a.listed = b.listed /\ a.index = b.index
  BY <1>1 DEF IsBook
<1>3. c = [u EXCEPT !.orders[id] = NoOrder]
  BY DEF DeleteOrder
<1>4. OnlyUnlisted(a, u, t, id)
  <2>1. id \in OrdersOf(b.orders, t) /\ ListIs(a.listed[t], a.index[t], OrdersOf(b.orders, t))
    <3>. HIDE DEF a
    <3>. QED  BY <1>1, <1>2 DEF ListsGood, OrdersOf
  <2>. HIDE DEF a, t
  <2>. QED  BY <1>2, <2>1, UnlistingOrder
<1>. HIDE DEF a, u, c
<1>5. /\ IsBook(u) /\ u.orders = a.orders /\ u.levels = a.levels /\ u.next = a.next
      /\ u.prev = a.prev /\ u.head = a.head /\ u.best = a.best /\ u.reserved = a.reserved
      /\ u.nextId = a.nextId /\ u.ok = a.ok
  BY <1>4 DEF OnlyUnlisted
<1>6. /\ IsBook(c) /\ c.orders = Erased(u.orders, id) /\ c.levels = u.levels /\ c.next = u.next
      /\ c.prev = u.prev /\ c.head = u.head /\ c.best = u.best /\ c.reserved = u.reserved
      /\ c.nextId = u.nextId /\ c.ok = u.ok /\ c.listed = u.listed /\ c.index = u.index
  BY <1>3, <1>5 DEF IsBook, Erased
<1>7. ListsGood(c.orders, c.listed, c.index)
  <2>1. ListsGood(Erased(b.orders, id), u.listed, u.index)
    <3>1. ListsGood(b.orders, a.listed, a.index)
      BY <1>1, <1>2
    <3>. QED  BY <1>1, <1>4, <3>1, UnlistedIsGood
  <2>. QED  BY <1>2, <1>5, <1>6, <2>1
<1>8. ReservedGood(c.orders, c.reserved, E)
  <2>1. c.orders = Erased(b.orders, id) /\ c.reserved = [b.reserved EXCEPT ![id] = 0]
    BY <1>2, <1>5, <1>6
  <2>2. /\ b.reserved \in [Ids -> Nat]
        /\ \A x \in Ids \ (E \cup {id}) : b.reserved[x] = Reservation(Erased(b.orders, id)[x])
    BY <1>1 DEF ReservedGood
  <2>3. Erased(b.orders, id)[id] = NoOrder
    BY <1>1, BookConstants DEF Erased
  <2>4. Reservation(NoOrder) = 0
    BY DEF Reservation, NoOrder
  <2>. HIDE DEF t
  <2>. QED  BY <2>1, <2>2, <2>3, <2>4 DEF ReservedGood
<1>9. PricesGood(c, lost)
  <2>1. /\ c.levels = b.levels /\ c.next = b.next /\ c.prev = b.prev /\ c.head = b.head
    BY <1>2, <1>5, <1>6
  <2>. QED  BY <1>1, <2>1, PricesStayGood
<1>10. OnlyDeleted(b, c, id)
  BY <1>2, <1>5, <1>6 DEF OnlyDeleted
<1>11. E \cup {} = E
  OBVIOUS
<1>12. Sound(c, lost, E, {})
  BY <1>1, <1>2, <1>5, <1>6, <1>7, <1>8, <1>9, <1>11 DEF Sound
<1>. QED  BY <1>10, <1>12 DEF c

----------------------------------------------------------------------------
(* Filling an order. *)

\* Of the order's amount that much is left.
LeftAfter(o, left, amount) == o.amount = left + amount

\* id has `left' left, and nothing else about the orders is new.
Reduces(orders, after, id, left) ==
  /\ after \in [0 .. MaxOrders -> Orders]
  /\ \A x \in (0 .. MaxOrders) \ {id} : after[x] = orders[x]
  /\ after[id].trader = orders[id].trader /\ after[id].side = orders[id].side
  /\ after[id].price = orders[id].price /\ after[id].next = orders[id].next
  /\ after[id].prev = orders[id].prev /\ after[id].amount = left

\* The level of the order has less on it.
TotalLess(level, amount) == [level EXCEPT !.total = Minus(level.total, amount)]
\* Only that level changes.
LevelsReduce(orders, levels, levels2, id, amount) ==
  LET side == orders[id].side
      p == orders[id].price
  IN levels2 = [levels EXCEPT ![side][p] = TotalLess(levels[side][p], amount)]

\* The order stays in the queue of its level.
ReducedQueue(orders, after, side, p, s, amount) ==
  /\ QueueIs(after, side, p, s)
  /\ LevelOf(after, s) = TotalLess(LevelOf(orders, s), amount)

\* A queue with an order that has less left.
LEMMA QueueReduced ==
  ASSUME NEW orders, orders \in [0 .. MaxOrders -> Orders], NEW after, NEW id \in Ids,
         NEW side, NEW p, NEW s, QueueIs(orders, side, p, s), id \in Range(s),
         NEW left \in Nat, NEW amount \in Nat, LeftAfter(orders[id], left, amount),
         Reduces(orders, after, id, left)
  PROVE  ReducedQueue(orders, after, side, p, s, amount)
<1>. DEFINE sum == SumFunctionOnSet(AmountsOf(orders), Range(s))
            sum2 == SumFunctionOnSet(AmountsOf(after), Range(s))
<1>1. /\ IsFiniteSet(Range(s)) /\ Range(s) \subseteq Ids /\ Len(s) \in Nat /\ sum \in Nat
      /\ \A x \in Range(s) : \E i \in 1 .. Len(s) : s[i] = x
  BY QueueFacts
<1>2. /\ after \in [0 .. MaxOrders -> Orders]
      /\ \A x \in 0 .. MaxOrders :
           /\ after[x].trader = orders[x].trader
           /\ after[x].side = orders[x].side
           /\ after[x].price = orders[x].price
           /\ after[x].next = orders[x].next
                                   /\ after[x].prev = orders[x].prev
      /\ \A x \in (0 .. MaxOrders) \ {id} : after[x].amount = orders[x].amount
      /\ after[id].amount = left
  BY DEF Reduces
<1>3. NextOf(after) = NextOf(orders) /\ PrevOf(after) = PrevOf(orders)
  BY <1>2 DEF NextOf, PrevOf
<1>4. \A x \in Ids : Belongs(after, side, p, x) <=> Belongs(orders, side, p, x)
  BY <1>2, BookConstants DEF Belongs
<1>5. QueueIs(after, side, p, s)
  <2>1. {x \in Ids : Belongs(after, side, p, x)} = {x \in Ids : Belongs(orders, side, p, x)}
    BY <1>4
  <2>. QED  BY <1>3, <2>1 DEF QueueIs
<1>6. sum2 = sum - amount
  <2>1. \A x \in Ids :
          /\ AmountsOf(orders)[x] = orders[x].amount
          /\ AmountsOf(after)[x] = after[x].amount
                       /\ orders[x].amount \in Int /\ after[x].amount \in Int
    <3>1. \A x \in Ids : x \in 0 .. MaxOrders
      BY BookConstants
    <3>2. \A f \in [0 .. MaxOrders -> Orders] : \A x \in 0 .. MaxOrders : f[x].amount \in Int
      BY DEF Orders
    <3>3. \A x \in 0 .. MaxOrders : orders[x].amount \in Int /\ after[x].amount \in Int
      BY <1>2, <3>2, Zenon
    <3>. QED  BY <3>1, <3>3 DEF AmountsOf
  <2>2. Ints(AmountsOf(orders), Range(s)) /\ AmountsOf(after)[id] \in Int
    BY <1>1, <2>1 DEF Ints
  <2>3. AgreeBut(AmountsOf(orders), AmountsOf(after), Range(s), id)
    BY <1>1, <1>2, <2>1, BookConstants DEF AgreeBut
  <2>4. sum2 = sum - AmountsOf(orders)[id] + AmountsOf(after)[id]
    BY <1>1, <2>2, <2>3, SumAfterChange
  <2>5. AmountsOf(orders)[id] = left + amount /\ AmountsOf(after)[id] = left
    BY <1>2, <2>1 DEF LeftAfter
  <2>. HIDE DEF sum, sum2
  <2>. QED  BY <1>1, <2>4, <2>5
<1>7. sum2 \in Nat
  BY <1>2, <1>5, QueueFacts
<1>8. Minus(sum, amount) = sum2
  <2>. HIDE DEF sum, sum2
  <2>. QED  BY <1>1, <1>6, <1>7 DEF Minus
<1>9. Len(s) # 0
  BY <1>1
<1>10. LevelOf(after, s) = TotalLess(LevelOf(orders, s), amount)
  <2>1. PICK yes : yes = TRUE
    OBVIOUS
  <2>. DEFINE level == [total |-> sum, first |-> FirstOf(s), last |-> LastOf(s), exists |-> yes]
              level2 == [total |-> sum2, first |-> FirstOf(s), last |-> LastOf(s), exists |-> yes]
  <2>. HIDE DEF sum, sum2
  <2>2. LevelOf(orders, s) = level /\ LevelOf(after, s) = level2
    BY <1>9, <2>1, Zenon DEF LevelOf, sum, sum2
  <2>3. [level EXCEPT !.total = sum2] = level2
    OBVIOUS
  <2>4. level.total = sum
    OBVIOUS
  <2>. HIDE DEF level, level2
  <2>. QED  BY <1>8, <2>2, <2>3, <2>4 DEF TotalLess
<1>. QED  BY <1>5, <1>10 DEF ReducedQueue

\* No level appears or disappears.
SameLevels(levels, levels2) ==
  \A side \in Sides, p \in Prices : levels2[side][p].exists = levels[side][p].exists

\* The orders and the levels, with an order that has less left.
LEMMA ReducedIsGood ==
  ASSUME NEW orders, NEW nextId, OrdersGood(orders, nextId, {}), NEW levels,
         LevelsGood(orders, levels), NEW id \in Ids, orders[id].trader # NULL,
         NEW left \in Nat, NEW amount \in Nat, LeftAfter(orders[id], left, amount),
         NEW after, Reduces(orders, after, id, left), NEW X, left # 0 \/ id \in X,
         NEW levels2, LevelsReduce(orders, levels, levels2, id, amount)
  PROVE  OrdersGood(after, nextId, X) /\ LevelsGood(after, levels2) /\ SameLevels(levels, levels2)
<1>. DEFINE side == orders[id].side
            p == orders[id].price
<1>1. /\ orders \in [0 .. MaxOrders -> Orders] /\ after \in [0 .. MaxOrders -> Orders]
      /\ levels \in [Sides -> [Prices -> Levels]] /\ nextId \in 1 .. MaxOrders + 1
      /\ id \in 0 .. MaxOrders
  BY BookConstants DEF OrdersGood, LevelsGood, Reduces
<1>2. side \in Sides /\ p \in Prices
  BY <1>1, OrderIsQueued
<1>3. PICK s : /\ QueueIs(orders, orders[id].side, orders[id].price, s)
               /\ levels[orders[id].side][orders[id].price] = LevelOf(orders, s)
               /\ \E i \in 1 .. Len(s) : s[i] = id
  BY <1>1, OrderIsQueued, BookConstants
<1>4. id \in Range(s)
  BY <1>1, <1>3, QueueFacts
<1>5. OrdersGood(after, nextId, X)
  <2>1. ASSUME NEW x \in 0 .. MaxOrders
        PROVE  \/ after[x] = NoOrder
               \/ /\ x \in 1 .. nextId - 1
                  /\ after[x].trader \in Traders /\ after[x].price \in Prices
                  /\ after[x].side \in SidesOf[after[x].trader]
                  /\ x \in X \/ after[x].amount # 0
    <3>1. CASE x = id
      <4>1. orders[id] # NoOrder
        BY DEF NoOrder
      <4>2. /\ id \in 1 .. nextId - 1
            /\ orders[id].trader \in Traders /\ orders[id].price \in Prices
            /\ orders[id].side \in SidesOf[orders[id].trader]
        BY <1>1, <4>1 DEF OrdersGood
      <4>. QED  BY <3>1, <4>2 DEF Reduces
    <3>2. CASE x # id
      BY <3>2 DEF Reduces, OrdersGood
    <3>. QED  BY <3>1, <3>2
  <2>. QED  BY <1>1, <2>1 DEF OrdersGood
<1>6. QueueIs(after, side, p, s) /\ LevelOf(after, s) = TotalLess(levels[side][p], amount)
  <2>1. ReducedQueue(orders, after, side, p, s, amount)
    <3>1. QueueIs(orders, side, p, s)
      BY <1>3
    <3>. HIDE DEF side, p
    <3>. QED  BY <1>1, <1>4, <3>1, QueueReduced
  <2>. QED  BY <1>3, <2>1 DEF ReducedQueue
<1>7. levels2[side][p] = LevelOf(after, s) /\ LevelOf(after, s) \in Levels
  <2>1. LevelOf(after, s) \in Levels
    BY <1>1, <1>6, QueueFacts
  <2>2. levels2[side][p] = TotalLess(levels[side][p], amount)
    BY <1>1, <1>2 DEF LevelsReduce
  <2>. QED  BY <1>6, <2>1, <2>2
<1>8. /\ levels2 \in [Sides -> [Prices -> Levels]]
      /\ \A x \in Sides, q \in Prices : (x = side /\ q = p) \/ levels2[x][q] = levels[x][q]
  BY <1>1, <1>2, <1>6, <1>7 DEF LevelsReduce
<1>9. ASSUME NEW x \in Sides, NEW q \in Prices PROVE LevelGood(after, levels2[x][q], x, q)
  <2>1. CASE x = side /\ q = p
    BY <1>6, <1>7, <2>1 DEF LevelGood
  <2>2. CASE ~(x = side /\ q = p)
    <3>1. PICK t : QueueIs(orders, x, q, t) /\ levels[x][q] = LevelOf(orders, t)
      BY DEF LevelsGood, LevelGood
    <3>2. SameQueue(orders, after, x, q, t)
      <4>1. \A y \in Ids : Belongs(after, x, q, y) <=> Belongs(orders, x, q, y)
        BY BookConstants DEF Belongs, Reduces
      <4>2. \A y \in Range(t) : y \in Ids /\ Belongs(orders, x, q, y)
        BY <3>1 DEF QueueIs
      <4>3. \A y \in Range(t) : y # id /\ y \in 0 .. MaxOrders
        BY <2>2, <4>2, BookConstants DEF Belongs
      <4>. QED  BY <4>1, <4>3 DEF SameQueue, Reduces
    <3>3. QueueIs(after, x, q, t) /\ LevelOf(after, t) = LevelOf(orders, t)
      BY <1>1, <3>1, <3>2, QueueStays
    <3>. QED  BY <1>8, <2>2, <3>1, <3>3 DEF LevelGood
  <2>. QED  BY <2>1, <2>2
<1>10. LevelsGood(after, levels2)
  BY <1>8, <1>9 DEF LevelsGood
<1>11. SameLevels(levels, levels2)
  <2>1. levels2[side][p].exists = levels[side][p].exists
    <3>1. levels2[side][p] = TotalLess(levels[side][p], amount) /\ levels[side][p] \in Levels
      BY <1>1, <1>2, <1>6, <1>7
    <3>. DEFINE level == levels[side][p]
    <3>. HIDE DEF level
    <3>2. TotalLess(level, amount).exists = level.exists
      BY <3>1 DEF TotalLess, Levels, level
    <3>. QED  BY <3>1, <3>2 DEF level
  <2>. QED  BY <1>8, <2>1 DEF SameLevels
<1>. QED  BY <1>5, <1>10, <1>11

\* What a reduction leaves as it was.
RestSame(b, c) ==
  /\ IsBook(c)
  /\ c.next = b.next /\ c.prev = b.prev /\ c.head = b.head /\ c.best = b.best
  /\ c.listed = b.listed /\ c.index = b.index /\ c.nextId = b.nextId /\ c.ok = b.ok

\* What two steps leave as it was.
LEMMA RestSameTwice ==
  ASSUME NEW b, NEW c, NEW d, RestSame(b, c), RestSame(c, d)
  PROVE  RestSame(b, d)
BY Zenon DEF RestSame

\* The lists of prices depend on which levels exist, and on nothing else of them.
LEMMA SameLevelsSamePrices ==
  ASSUME NEW b, NEW c, NEW lost, PricesGood(b, lost), SameLevels(b.levels, c.levels),
         c.next = b.next, c.prev = b.prev, c.head = b.head
  PROVE  PricesGood(c, lost)
<1>1. ASSUME NEW side \in Sides PROVE HeadGood(c, lost, side)
  <2>1. PICK s : /\ PricesAre(b.levels, b.next, b.prev, side, s)
                 /\ b.head[side] = FirstOf(s) \/ b.head[side] \in lost
    BY DEF PricesGood, HeadGood
  <2>2. {p \in Prices : c.levels[side][p].exists} = {p \in Prices : b.levels[side][p].exists}
    BY DEF SameLevels
  <2>3. PricesAre(c.levels, c.next, c.prev, side, s)
    BY <2>1, <2>2 DEF PricesAre
  <2>. QED  BY <2>1, <2>3 DEF HeadGood
<1>. QED  BY <1>1 DEF PricesGood

\* The book with an order that has less left, and the reservation that goes with it.
LEMMA ReducingOrder ==
  ASSUME NEW b, NEW lost, NEW E, Sound(b, lost, E, {}), NEW id \in Ids, b.orders[id].trader # NULL,
         NEW left \in Nat, NEW amount \in Nat, LeftAfter(b.orders[id], left, amount),
         NEW X, left # 0 \/ id \in X,
         NEW c, RestSame(b, c), Reduces(b.orders, c.orders, id, left),
         LevelsReduce(b.orders, b.levels, c.levels, id, amount),
         ReservedGood(c.orders, c.reserved, E \cup X)
  PROVE  Sound(c, lost, E, X)
<1>1. /\ IsBook(b) /\ b.ok /\ b.best \in [Sides -> Prices0]
      /\ OrdersGood(b.orders, b.nextId, {}) /\ LevelsGood(b.orders, b.levels)
      /\ PricesGood(b, lost) /\ ListsGood(b.orders, b.listed, b.index)
  BY DEF Sound
<1>2. /\ OrdersGood(c.orders, b.nextId, X) /\ LevelsGood(c.orders, c.levels)
      /\ SameLevels(b.levels, c.levels)
  BY <1>1, ReducedIsGood
<1>3. PricesGood(c, lost)
  BY <1>1, <1>2, SameLevelsSamePrices DEF RestSame
<1>4. ListsGood(c.orders, c.listed, c.index)
  <2>1. \A x \in Ids : c.orders[x].trader = b.orders[x].trader
    BY BookConstants DEF Reduces
  <2>2. \A t \in Traders : OrdersOf(c.orders, t) = OrdersOf(b.orders, t)
    BY <2>1 DEF OrdersOf
  <2>. QED  BY <1>1, <2>2 DEF ListsGood, RestSame
<1>. QED  BY <1>1, <1>2, <1>3, <1>4 DEF Sound, RestSame

\* An order with another amount.
LEMMA AmountChanges ==
  ASSUME NEW orders \in [0 .. MaxOrders -> Orders], NEW id \in 0 .. MaxOrders,
         NEW left \in Nat, NEW after, after = [orders EXCEPT ![id].amount = left]
  PROVE  Reduces(orders, after, id, left)
<1>1. \A o \in Orders : /\ [o EXCEPT !.amount = left] \in Orders
                        /\ [o EXCEPT !.amount = left].trader = o.trader
                        /\ [o EXCEPT !.amount = left].side = o.side
                        /\ [o EXCEPT !.amount = left].price = o.price
                        /\ [o EXCEPT !.amount = left].next = o.next
                        /\ [o EXCEPT !.amount = left].prev = o.prev
                        /\ [o EXCEPT !.amount = left].amount = left
  BY DEF Orders
<1>2. /\ after \in [0 .. MaxOrders -> Orders]
      /\ after[id] = [orders[id] EXCEPT !.amount = left]
      /\ \A x \in (0 .. MaxOrders) \ {id} : after[x] = orders[x]
  BY <1>1
<1>. QED  BY <1>1, <1>2 DEF Reduces

\* An order with another amount and margin.
LEMMA TermsChange ==
  ASSUME NEW orders \in [0 .. MaxOrders -> Orders], NEW id \in 0 .. MaxOrders,
         NEW left \in Nat, NEW margin \in Nat, NEW after,
         after = [[orders EXCEPT ![id].amount = left] EXCEPT ![id].margin = margin]
  PROVE  Reduces(orders, after, id, left)
<1>. DEFINE f == [orders EXCEPT ![id].amount = left]
<1>1. Reduces(orders, f, id, left)
  BY AmountChanges
<1>. HIDE DEF f
<1>2. \A o \in Orders : /\ [o EXCEPT !.margin = margin] \in Orders
                        /\ [o EXCEPT !.margin = margin].trader = o.trader
                        /\ [o EXCEPT !.margin = margin].side = o.side
                        /\ [o EXCEPT !.margin = margin].price = o.price
                        /\ [o EXCEPT !.margin = margin].next = o.next
                        /\ [o EXCEPT !.margin = margin].prev = o.prev
                        /\ [o EXCEPT !.margin = margin].amount = o.amount
  BY DEF Orders
<1>3. f \in [0 .. MaxOrders -> Orders] /\ after = [f EXCEPT ![id].margin = margin]
  BY <1>1 DEF Reduces, f
<1>4. /\ after \in [0 .. MaxOrders -> Orders]
      /\ after[id] = [f[id] EXCEPT !.margin = margin]
      /\ \A x \in (0 .. MaxOrders) \ {id} : after[x] = f[x]
  <2>. DEFINE o == [f[id] EXCEPT !.margin = margin]
  <2>1. o \in Orders
    BY <1>2, <1>3
  <2>2. after = [f EXCEPT ![id] = o]
    BY <1>3
  <2>. HIDE DEF o
  <2>3. /\ after \in [0 .. MaxOrders -> Orders] /\ after[id] = o
        /\ \A x \in (0 .. MaxOrders) \ {id} : after[x] = f[x]
    BY <1>3, <2>1, <2>2
  <2>. QED  BY <2>3 DEF o
<1>. QED  BY <1>1, <1>2, <1>3, <1>4 DEF Reduces

\* The same trader, side and price.
SamePlace(o, q) == q.trader = o.trader /\ q.side = o.side /\ q.price = o.price

\* Orders have gone, and but for those of U, no other has changed.
Thins(b, c, U) ==
  /\ c.nextId = b.nextId
  /\ \A x \in 0 .. MaxOrders :
       /\ x \in U \/ SameTerms(b.orders[x], c.orders[x])
       /\ c.orders[x].trader = NULL \/ SamePlace(b.orders[x], c.orders[x])

\* Orders have gone, and none has come or moved.
Fewer(b, c) ==
  \A x \in 0 .. MaxOrders : c.orders[x].trader = NULL \/ SamePlace(b.orders[x], c.orders[x])

\* Orders have gone, and the others have kept their terms.
Removes(b, c) ==
  /\ c.nextId = b.nextId
  /\ \A x \in 0 .. MaxOrders : c.orders[x].trader = NULL \/ SameTerms(b.orders[x], c.orders[x])

\* Nothing, one order, or more.
LEMMA RemovingSome ==
  ASSUME NEW b, NEW c
  PROVE  /\ Removes(b, b)
         /\ \A id : Thins(b, c, {id}) /\ c.orders[id].trader = NULL => Removes(b, c)
         /\ \A d : Removes(b, c) /\ Removes(c, d) => Removes(b, d)
<1>1. Removes(b, b)
  BY DEF Removes, SameTerms
<1>2. ASSUME NEW id, Thins(b, c, {id}), c.orders[id].trader = NULL PROVE Removes(b, c)
  BY <1>2 DEF Thins, Removes
<1>3. ASSUME NEW d, Removes(b, c), Removes(c, d) PROVE Removes(b, d)
  BY <1>3 DEF Removes, SameTerms
<1>. QED  BY <1>1, <1>2, <1>3

\* What one call leads to, the next may go on from.
LEMMA ThinsTwice ==
  ASSUME NEW b, NEW c, NEW d, NEW U, NEW V, Thins(b, c, U), Thins(c, d, V)
  PROVE  Thins(b, d, U \cup V)
BY DEF Thins, SameTerms, SamePlace

\* An order that leaves its level and is deleted.
LEMMA RemovingOrder ==
  ASSUME NEW b, NEW lost, NEW E, NEW X, Sound(b, lost, E, X), NEW id \in Ids, X \subseteq {id},
         b.orders[id].trader # NULL,
         NEW c, c = DeleteOrder(RemoveFromLevel(b, id), id)
  PROVE  /\ Sound(c, lost, E, {}) /\ c.best = b.best
         /\ Thins(b, c, {id}) /\ c.orders[id].trader = NULL
<1>. DEFINE u == RemoveFromLevel(b, id)
<1>1. Leaving(u, lost, E, id) /\ TakenOff(b, u, lost, id)
  BY RemovingFromLevel
<1>. HIDE DEF u
<1>2. Sound(c, lost, E, {}) /\ OnlyDeleted(u, c, id)
  BY <1>1, DeletingOrder DEF u
<1>3. u.orders \in [0 .. MaxOrders -> Orders]
  BY <1>1 DEF Leaving
<1>4. \A x \in 0 .. MaxOrders : c.orders[x] = IF x = id THEN NoOrder ELSE u.orders[x]
  BY <1>2, <1>3 DEF OnlyDeleted, Erased
<1>5. NoOrder.trader = NULL
  BY DEF NoOrder
<1>6. /\ \A x \in 0 .. MaxOrders : SameTerms(b.orders[x], u.orders[x])
      /\ u.nextId = b.nextId /\ u.best = b.best
  BY <1>1 DEF TakenOff
<1>7. c.nextId = u.nextId /\ c.best = u.best
  BY <1>2 DEF OnlyDeleted
<1>8. c.orders[id].trader = NULL
  BY <1>4, <1>5, BookConstants
<1>9. Thins(b, c, {id})
  <2>1. ASSUME NEW x \in 0 .. MaxOrders
        PROVE  /\ x \in {id} \/ SameTerms(b.orders[x], c.orders[x])
               /\ c.orders[x].trader = NULL \/ SamePlace(b.orders[x], c.orders[x])
    <3>1. CASE x = id
      BY <1>8, <3>1
    <3>2. CASE x # id
      <4>1. SameTerms(b.orders[x], c.orders[x])
        BY <1>4, <1>6, <3>2
      <4>. QED  BY <4>1 DEF SameTerms, SamePlace
    <3>. QED  BY <3>1, <3>2
  <2>. QED  BY <1>6, <1>7, <2>1 DEF Thins
<1>. QED  BY <1>2, <1>6, <1>7, <1>8, <1>9

\* Of an order that is filled the level loses what it had left.
LEMMA FillingWhole ==
  ASSUME NEW b, NEW lost, NEW E, Sound(b, lost, E, {}), NEW id \in Ids, b.orders[id].trader # NULL,
         NEW amount, amount = b.orders[id].amount, NEW c, c = Fill(b, id, amount)
  PROVE  /\ Sound(c, lost, E, {}) /\ c.best = b.best
         /\ Thins(b, c, {id}) /\ c.orders[id].trader = NULL
<1>. DEFINE side == b.orders[id].side
            p == b.orders[id].price
            d == [TakeFromLevel(b, id, amount) EXCEPT !.orders[id].amount = 0]
<1>1. /\ IsBook(b) /\ OrdersGood(b.orders, b.nextId, {}) /\ LevelsGood(b.orders, b.levels)
      /\ ReservedGood(b.orders, b.reserved, E \cup {})
  BY DEF Sound
<1>2. /\ b.orders \in [0 .. MaxOrders -> Orders] /\ b.levels \in [Sides -> [Prices -> Levels]]
      /\ id \in 0 .. MaxOrders
  BY <1>1, BookConstants DEF OrdersGood, LevelsGood
<1>3. amount \in Nat /\ b.orders[id] \in Orders
  BY <1>2 DEF Orders
<1>4. amount - amount = 0
  BY <1>3
<1>5. c = DeleteOrder(RemoveFromLevel(d, id), id)
  BY <1>4 DEF Fill
<1>6. /\ RestSame(b, d) /\ d.reserved = b.reserved
      /\ d.orders = [b.orders EXCEPT ![id].amount = 0]
      /\ d.levels = [b.levels EXCEPT ![side][p].total = Minus(@, amount)]
  BY <1>1 DEF TakeFromLevel, RestSame, IsBook
<1>. HIDE DEF d
<1>7. Reduces(b.orders, d.orders, id, 0)
  BY <1>2, <1>6, AmountChanges
<1>8. LevelsReduce(b.orders, b.levels, d.levels, id, amount)
  BY <1>2, <1>6 DEF LevelsReduce, TotalLess
<1>9. LeftAfter(b.orders[id], 0, amount)
  BY <1>3 DEF LeftAfter
<1>10. ReservedGood(d.orders, d.reserved, E \cup {id})
  BY <1>1, <1>2, <1>6, <1>7, BookConstants DEF ReservedGood, Reduces
<1>11. Sound(d, lost, E, {id})
  BY <1>3, <1>6, <1>7, <1>8, <1>9, <1>10, ReducingOrder
<1>12. /\ d.best = b.best /\ d.nextId = b.nextId
       /\ \A x \in (0 .. MaxOrders) \ {id} : d.orders[x] = b.orders[x]
       /\ SamePlace(b.orders[id], d.orders[id])
  BY <1>6, <1>7 DEF RestSame, Reduces, SamePlace
<1>13. d.orders[id].trader # NULL
  BY <1>12 DEF SamePlace
<1>14. /\ Sound(c, lost, E, {}) /\ c.best = d.best
       /\ Thins(d, c, {id}) /\ c.orders[id].trader = NULL
  BY <1>5, <1>11, <1>13, RemovingOrder
<1>15. Thins(b, d, {id})
  BY <1>12 DEF Thins, SameTerms, SamePlace
<1>16. Thins(b, c, {id} \cup {id})
  BY <1>14, <1>15, ThinsTwice
<1>. QED  BY <1>12, <1>14, <1>16

\* Of an order that is filled in part the rest stays, with the margin it needs.
LEMMA FillingPart ==
  ASSUME NEW b, NEW lost, NEW E, Sound(b, lost, E, {}), NEW id \in Ids, b.orders[id].trader # NULL,
         NEW amount \in Nat, amount < b.orders[id].amount, NEW c, c = Fill(b, id, amount)
  PROVE  /\ Sound(c, lost, E, {}) /\ c.best = b.best /\ Thins(b, c, {id})
         /\ c.orders[id].amount = b.orders[id].amount - amount
<1>. DEFINE side == b.orders[id].side
            p == b.orders[id].price
            left == b.orders[id].amount - amount
            margin == MarginRequired(left, p, side)
            d == TakeFromLevel(b, id, amount)
<1>1. /\ IsBook(b) /\ OrdersGood(b.orders, b.nextId, {}) /\ LevelsGood(b.orders, b.levels)
      /\ ReservedGood(b.orders, b.reserved, E \cup {})
  BY DEF Sound
<1>2. /\ b.orders \in [0 .. MaxOrders -> Orders] /\ b.levels \in [Sides -> [Prices -> Levels]]
      /\ id \in 0 .. MaxOrders
  BY <1>1, BookConstants DEF OrdersGood, LevelsGood
<1>3. b.orders[id].amount \in Nat /\ b.orders[id] \in Orders
  BY <1>2 DEF Orders
<1>4. left \in Nat /\ left # 0
  BY <1>3
<1>5. side \in Sides /\ p \in Prices /\ p \in Nat
  BY <1>1, <1>2, OrderIsQueued, BookConstants
<1>6. margin \in Nat
  <2>. HIDE DEF left, side, p
  <2>. QED  BY <1>4, <1>5, BookAssumption DEF MarginRequired
<1>7. /\ IsBook(d) /\ d.orders = b.orders /\ d.reserved = b.reserved
      /\ d.levels = [b.levels EXCEPT ![side][p].total = Minus(@, amount)]
      /\ d.next = b.next /\ d.prev = b.prev /\ d.head = b.head /\ d.best = b.best
      /\ d.listed = b.listed /\ d.index = b.index /\ d.nextId = b.nextId /\ d.ok = b.ok
  BY <1>1 DEF TakeFromLevel, IsBook
<1>8. c = Resize(d, id, left)
  BY <1>4 DEF Fill
<1>. HIDE DEF d
<1>9. /\ c.orders = [[b.orders EXCEPT ![id].amount = left] EXCEPT ![id].margin = margin]
      /\ c.reserved = [b.reserved EXCEPT ![id] = margin]
      /\ c.levels = d.levels /\ RestSame(b, c)
  <2>. DEFINE d1 == [d EXCEPT !.orders[id].amount = left]
              d2 == [d1 EXCEPT !.orders[id].margin = margin]
  <2>1. MarginRequired(left, d.orders[id].price, d.orders[id].side) = margin
    BY <1>7
  <2>2. c = [d2 EXCEPT !.reserved[id] = margin]
    <3>. HIDE DEF margin, left
    <3>. QED  BY <1>8, <2>1 DEF Resize
  <2>. HIDE DEF margin, left
  <2>3. RestSame(d, d1) /\ d1.orders = [d.orders EXCEPT ![id].amount = left]
        /\ d1.reserved = d.reserved /\ d1.levels = d.levels
    BY <1>7 DEF RestSame, IsBook
  <2>. HIDE DEF d1
  <2>4. RestSame(d1, d2) /\ d2.orders = [d1.orders EXCEPT ![id].margin = margin]
        /\ d2.reserved = d1.reserved /\ d2.levels = d1.levels
    BY <2>3 DEF RestSame, IsBook
  <2>. HIDE DEF d2
  <2>5. RestSame(d2, c) /\ c.orders = d2.orders
        /\ c.reserved = [d2.reserved EXCEPT ![id] = margin] /\ c.levels = d2.levels
    BY <2>2, <2>4 DEF RestSame, IsBook
  <2>6. RestSame(b, c)
    <3>1. RestSame(b, d)
      BY <1>7 DEF RestSame
    <3>. QED  BY <2>3, <2>4, <2>5, <3>1, RestSameTwice
  <2>7. c.orders = [[d.orders EXCEPT ![id].amount = left] EXCEPT ![id].margin = margin]
    BY <2>3, <2>4, <2>5
  <2>8. c.reserved = [d.reserved EXCEPT ![id] = margin] /\ c.levels = d.levels
    BY <2>3, <2>4, <2>5
  <2>. QED  BY <1>7, <2>6, <2>7, <2>8
<1>. HIDE DEF margin, left
<1>10. Reduces(b.orders, c.orders, id, left)
  BY <1>2, <1>4, <1>6, <1>9, TermsChange
<1>11. LevelsReduce(b.orders, b.levels, c.levels, id, amount)
  BY <1>2, <1>7, <1>9 DEF LevelsReduce, TotalLess
<1>12. LeftAfter(b.orders[id], left, amount)
  BY <1>3 DEF LeftAfter, left
<1>13. ReservedGood(c.orders, c.reserved, E \cup {})
  <2>1. Reservation(c.orders[id]) = margin
    BY <1>10 DEF Reservation, Reduces, margin
  <2>. QED  BY <1>1, <1>2, <1>6, <1>9, <1>10, <2>1, BookConstants DEF ReservedGood, Reduces
<1>14. Sound(c, lost, E, {})
  BY <1>4, <1>9, <1>10, <1>11, <1>12, <1>13, ReducingOrder
<1>15. Thins(b, c, {id})
  BY <1>9, <1>10 DEF Thins, SameTerms, SamePlace, RestSame, Reduces
<1>16. c.orders[id].amount = b.orders[id].amount - amount
  BY <1>10 DEF Reduces, left
<1>. QED  BY <1>9, <1>14, <1>15, <1>16 DEF RestSame

\* The cached best price of a side is the head of its list, until the market
\* is settled and they are forgotten.
BestIs(b, lost, side) == b.best[side] = IF lost = {} THEN b.head[side] ELSE 0

\* It is so on both sides.
BestsAre(b, lost) == \A side \in Sides : BestIs(b, lost, side)

\* The head of a list is a live price or 0, and what FindNewBest finds.
LEMMA HeadIsLive ==
  ASSUME NEW b, PricesGood(b, {}), NEW side \in Sides
  PROVE  FindNewBest(b, side) = b.head[side]
<1>1. PICK s : PricesAre(b.levels, b.next, b.prev, side, s) /\ b.head[side] = FirstOf(s)
  BY DEF PricesGood, HeadGood
<1>2. LiveFrom(b, side, 0) = 0 /\ \A p \in Range(s) : LiveFrom(b, side, p) = p
  BY <1>1, LiveFromIsLive DEF PricesGood
<1>3. s \in Seq(Prices)
  BY <1>1 DEF PricesAre
<1>4. FirstOf(s) = 0 \/ FirstOf(s) \in Range(s)
  <2>1. CASE Len(s) = 0
    BY <2>1 DEF FirstOf
  <2>2. CASE Len(s) # 0
    <3>1. 1 \in DOMAIN s
      BY <1>3, <2>2
    <3>. QED  BY <2>2, <3>1 DEF FirstOf, Range
  <2>. QED  BY <2>1, <2>2
<1>. QED  BY <1>1, <1>2, <1>4 DEF FindNewBest

\* The best price is replaced when its level has gone.
LEMMA ReplacingBest ==
  ASSUME NEW b, NEW lost \in {{}, {0}}, NEW E, Sound(b, lost, E, {}), BestsAre(b, lost),
         NEW id \in Ids, b.orders[id].trader # NULL,
         NEW u, u = RemoveFromLevel(b, id), NEW c, c = RemoveFromBook(b, id)
  PROVE  /\ Leaving(c, lost, E, id) /\ BestsAre(c, lost)
         /\ c.orders = u.orders /\ c.nextId = u.nextId
<1>. DEFINE side == b.orders[id].side
            p == b.orders[id].price
<1>1. Leaving(u, lost, E, id) /\ TakenOff(b, u, lost, id)
  BY RemovingFromLevel
<1>2. side \in Sides /\ p \in Prices
  <2>1. /\ OrdersGood(b.orders, b.nextId, {}) /\ LevelsGood(b.orders, b.levels)
        /\ id \in 0 .. MaxOrders
    BY BookConstants DEF Sound
  <2>. QED  BY <2>1, OrderIsQueued
<1>3. c = ReplaceBest(u, side, p)
  BY DEF RemoveFromBook
<1>4. /\ IsBook(u) /\ u.ok /\ u.best \in [Sides -> Prices0] /\ PricesGood(u, lost)
      /\ u.orders \in [0 .. MaxOrders -> Orders] /\ u.orders[id].trader \in Traders
      /\ OrdersGood(Erased(u.orders, id), u.nextId, {})
      /\ LevelsGood(Erased(u.orders, id), u.levels)
      /\ ListsGood(u.orders, u.listed, u.index)
      /\ ReservedGood(Erased(u.orders, id), u.reserved, E \cup {id})
  BY <1>1 DEF Leaving
<1>5. /\ u.best = b.best
      /\ \A x \in Sides \ {side} : u.head[x] = b.head[x]
      /\ lost = {} /\ (u.levels[side][p].exists \/ p # b.head[side]) => u.head[side] = b.head[side]
  BY <1>1 DEF TakenOff
<1>6. \A x \in Sides : u.best[x] = IF lost = {} THEN b.head[x] ELSE 0
  BY <1>5 DEF BestsAre, BestIs
<1>7. CASE p = u.best[side] /\ ~LevelExists(u, side, p)
  <2>1. lost = {} /\ p = b.head[side]
    BY <1>2, <1>6, <1>7, BookConstants
  <2>2. FindNewBest(u, side) = u.head[side]
    BY <1>2, <1>4, <2>1, HeadIsLive
  <2>3. c = [u EXCEPT !.best = [u.best EXCEPT ![side] = u.head[side]]]
    BY <1>3, <1>7, <2>2 DEF ReplaceBest
  <2>4. u.head \in [Sides -> Prices0]
    BY <1>4 DEF PricesGood
  <2>5. /\ IsBook(c) /\ c.best = [u.best EXCEPT ![side] = u.head[side]]
        /\ c.orders = u.orders /\ c.levels = u.levels /\ c.next = u.next /\ c.prev = u.prev
        /\ c.head = u.head /\ c.listed = u.listed /\ c.index = u.index
        /\ c.reserved = u.reserved /\ c.nextId = u.nextId /\ c.ok = u.ok
    BY <1>4, <2>3 DEF IsBook
  <2>6. c.best \in [Sides -> Prices0]
    BY <1>2, <1>4, <2>4, <2>5
  <2>7. PricesGood(c, lost)
    BY <1>4, <2>5, PricesStayGood
  <2>8. Leaving(c, lost, E, id)
    BY <1>4, <2>5, <2>6, <2>7 DEF Leaving
  <2>9. \A x \in Sides : c.best[x] = c.head[x]
    <3>1. u.best \in [Sides -> Prices0] /\ c.best = [u.best EXCEPT ![side] = u.head[side]]
      BY <1>4, <2>5
    <3>2. \A x \in Sides : x = side \/ u.best[x] = u.head[x]
      BY <1>5, <1>6, <2>1
    <3>. HIDE DEF side
    <3>3. \A x \in Sides : c.best[x] = IF x = side THEN u.head[side] ELSE u.best[x]
      BY <3>1
    <3>. QED  BY <2>5, <3>2, <3>3
  <2>. QED  BY <2>1, <2>5, <2>8, <2>9 DEF BestsAre, BestIs
<1>8. CASE ~(p = u.best[side] /\ ~LevelExists(u, side, p))
  <2>1. c = u
    BY <1>3, <1>8 DEF ReplaceBest
  <2>2. ASSUME NEW x \in Sides PROVE u.best[x] = IF lost = {} THEN u.head[x] ELSE 0
    <3>1. CASE lost = {}
      BY <1>2, <1>5, <1>6, <1>8, <3>1 DEF LevelExists
    <3>2. CASE lost # {}
      BY <1>6, <3>2
    <3>. QED  BY <3>1, <3>2
  <2>. QED  BY <1>1, <2>1, <2>2 DEF BestsAre, BestIs
<1>. QED  BY <1>7, <1>8

\* An order is cancelled.
LEMMA CancellingOrder ==
  ASSUME NEW b, NEW lost \in {{}, {0}}, NEW E, Sound(b, lost, E, {}), BestsAre(b, lost),
         NEW id \in Ids, b.orders[id].trader # NULL,
         NEW c, c = CancelOrderIn(b, id)
  PROVE  /\ Sound(c, lost, E, {}) /\ BestsAre(c, lost)
         /\ Thins(b, c, {id}) /\ c.orders[id].trader = NULL
<1>. DEFINE u == RemoveFromLevel(b, id)
            v == RemoveFromBook(b, id)
<1>1. TakenOff(b, u, lost, id)
  BY RemovingFromLevel
<1>2. /\ Leaving(v, lost, E, id) /\ BestsAre(v, lost)
      /\ v.orders = u.orders /\ v.nextId = u.nextId
  BY ReplacingBest
<1>. HIDE DEF u, v
<1>3. Sound(c, lost, E, {}) /\ OnlyDeleted(v, c, id)
  BY <1>2, DeletingOrder DEF CancelOrderIn, v
<1>4. BestsAre(c, lost)
  BY <1>2, <1>3 DEF BestsAre, BestIs, OnlyDeleted
<1>5. v.orders \in [0 .. MaxOrders -> Orders]
  BY <1>2 DEF Leaving
<1>6. \A x \in 0 .. MaxOrders : c.orders[x] = IF x = id THEN NoOrder ELSE v.orders[x]
  BY <1>3, <1>5 DEF OnlyDeleted, Erased
<1>7. c.orders[id].trader = NULL
  BY <1>6, BookConstants DEF NoOrder
<1>8. c.nextId = b.nextId
  BY <1>1, <1>2, <1>3 DEF TakenOff, OnlyDeleted
<1>9. ASSUME NEW x \in 0 .. MaxOrders
      PROVE  /\ x \in {id} \/ SameTerms(b.orders[x], c.orders[x])
             /\ c.orders[x].trader = NULL \/ SamePlace(b.orders[x], c.orders[x])
  <2>1. CASE x = id
    BY <1>7, <2>1
  <2>2. CASE x # id
    <3>1. SameTerms(b.orders[x], c.orders[x])
      BY <1>1, <1>2, <1>6, <2>2 DEF TakenOff
    <3>. QED  BY <3>1 DEF SameTerms, SamePlace
  <2>. QED  BY <2>1, <2>2
<1>10. Thins(b, c, {id})
  BY <1>8, <1>9 DEF Thins
<1>. QED  BY <1>3, <1>4, <1>7, <1>10

----------------------------------------------------------------------------
(* Cancelling many orders. *)

\* A good book has the types of the storage.
LEMMA SoundIsStored ==
  ASSUME NEW b, NEW lost, NEW E, NEW X, Sound(b, lost, E, X)
  PROVE  b \in Storage
<1>1. /\ b.orders \in [0 .. MaxOrders -> Orders] /\ b.levels \in [Sides -> [Prices -> Levels]]
      /\ b.next \in [Sides -> [Prices -> Prices0]] /\ b.prev \in [Sides -> [Prices -> Prices0]]
      /\ b.head \in [Sides -> Prices0] /\ b.best \in [Sides -> Prices0]
      /\ b.listed \in [Traders -> Seq(Ids)] /\ b.index \in [Traders -> [Ids -> Nat]]
      /\ b.reserved \in [Ids -> Nat] /\ b.nextId \in 1 .. MaxOrders + 1
  BY DEF Sound, OrdersGood, LevelsGood, PricesGood, ListsGood, ReservedGood, Pointers
<1>2. b.ok \in BOOLEAN
  BY DEF Sound
<1>. QED  BY <1>1, <1>2 DEF Sound, IsBook, Storage

\* x is the book b after orders of U were cancelled.
Cancelled(b, x, lost, U) ==
  Sound(x, lost, {}, {}) /\ BestsAre(x, lost) /\ Thins(b, x, U) /\ Removes(b, x)

\* One more order.
LEMMA CancellingOneMore ==
  ASSUME NEW b, NEW lost \in {{}, {0}}, NEW U, NEW x, Cancelled(b, x, lost, U),
         NEW id \in Ids, id \notin U, b.orders[id].trader # NULL
  PROVE  Cancelled(b, CancelOrderIn(x, id), lost, U \cup {id})
<1>1. x.orders[id].trader # NULL
  BY BookConstants DEF Cancelled, Thins, SameTerms
<1>. DEFINE c == CancelOrderIn(x, id)
<1>2. /\ Sound(c, lost, {}, {}) /\ BestsAre(c, lost) /\ Thins(x, c, {id})
      /\ c.orders[id].trader = NULL
  BY <1>1, CancellingOrder DEF Cancelled
<1>. HIDE DEF c
<1>3. Thins(b, c, U \cup {id})
  BY <1>2, ThinsTwice DEF Cancelled
<1>4. Removes(b, c)
  BY <1>2, RemovingSome DEF Cancelled
<1>. QED  BY <1>2, <1>3, <1>4 DEF Cancelled, c

\* Fewer changes than U.
LEMMA ThinsMore ==
  ASSUME NEW b, NEW c, NEW U, NEW V, Thins(b, c, U), U \subseteq V
  PROVE  Thins(b, c, V)
BY DEF Thins

\* Nothing has happened.
LEMMA ThinsNothing ==
  ASSUME NEW b, NEW U
  PROVE  Thins(b, b, U)
BY DEF Thins, SameTerms, SamePlace

\* The orders of a level.
LEMMA CancellingChain ==
  ASSUME NEW b, NEW lost \in {{}, {0}}, NEW U, NEW x0, Cancelled(b, x0, lost, U),
         NEW chain \in Seq(Ids), \A i, j \in 1 .. Len(chain) : chain[i] = chain[j] => i = j,
         \A i \in 1 .. Len(chain) : chain[i] \notin U /\ b.orders[chain[i]].trader # NULL
  PROVE  Cancelled(b, CancelChain(x0, chain), lost, U \cup Range(chain))
<1>. DEFINE n == Len(chain)
            Turn(x, k) == CancelOrderIn(x, chain[k])
            Loop(f) == f = [k \in 0 .. n |-> IF k = 0 THEN x0 ELSE Turn(f[k - 1], k)]
            loop == CHOOSE f : Loop(f)
            S == [k \in 0 .. n |->
                 {x \in Storage : Cancelled(b, x, lost, U \cup {chain[j] : j \in 1 .. k})}]
            G == [k \in 1 .. n |-> [x \in S[k - 1] |-> Turn(x, k)]]
<1>1. CancelChain(x0, chain) = loop[n]
  BY Zenon DEF CancelChain
<1>2. /\ n \in Nat /\ x0 \in S[0]
      /\ \A k \in 1 .. n : \A x \in S[k - 1] : Turn(x, k) \in S[k]
  <2>1. n \in Nat
    OBVIOUS
  <2>. DEFINE V(k) == U \cup {chain[j] : j \in 1 .. k}
  <2>2. x0 \in S[0]
    <3>1. V(0) = U
      OBVIOUS
    <3>2. x0 \in Storage
      BY SoundIsStored DEF Cancelled
    <3>. QED  BY <3>1, <3>2
  <2>3. ASSUME NEW k \in 1 .. n, NEW x \in S[k - 1] PROVE Turn(x, k) \in S[k]
    <3>1. /\ k - 1 \in 0 .. n /\ k \in 0 .. n /\ \A j \in 1 .. k - 1 : j \in 1 .. n /\ j # k
          /\ 1 .. k = (1 .. k - 1) \cup {k} /\ k \in 1 .. Len(chain)
      BY <2>1
    <3>2. Cancelled(b, x, lost, V(k - 1))
      BY <3>1
    <3>3. chain[k] \in Ids /\ chain[k] \notin V(k - 1) /\ b.orders[chain[k]].trader # NULL
      BY <3>1
    <3>4. V(k) = V(k - 1) \cup {chain[k]}
      BY <3>1
    <3>5. Cancelled(b, Turn(x, k), lost, V(k))
      <4>. HIDE DEF V
      <4>1. Cancelled(b, CancelOrderIn(x, chain[k]), lost, V(k - 1) \cup {chain[k]})
        BY <3>2, <3>3, CancellingOneMore
      <4>. QED  BY <3>4, <4>1
    <3>6. Turn(x, k) \in Storage
      <4>. HIDE DEF Turn
      <4>. QED  BY <3>5, SoundIsStored DEF Cancelled
    <3>. HIDE DEF Turn, n
    <3>. QED  BY <3>1, <3>5, <3>6
  <2>. QED  BY <2>1, <2>2, <2>3
<1>. HIDE DEF Turn, S, n
<1>3. LeadsOn(S, n, G)
  BY <1>2 DEF LeadsOn
<1>4. PICK f : Runs(f, S, x0, n, G)
  <2>. HIDE DEF G
  <2>. QED  BY <1>2, <1>3, RunExists
<1>5. Loop(f)
  <2>1. \A k \in 1 .. n : f[k] = Turn(f[k - 1], k)
    <3>1. \A k \in 1 .. n : k - 1 \in 0 .. n
      BY <1>2
    <3>. QED  BY <1>4, <3>1 DEF Runs
  <2>2. f = [k \in 0 .. n |-> f[k]] /\ f[0] = x0
    BY <1>4 DEF Runs
  <2>3. \A k \in 0 .. n : k = 0 \/ k \in 1 .. n
    BY <1>2
  <2>4. \A k \in 0 .. n : f[k] = IF k = 0 THEN x0 ELSE Turn(f[k - 1], k)
    BY <2>1, <2>2, <2>3, Zenon
  <2>. QED  BY <2>2, <2>4
<1>6. Loop(loop)
  <2>. HIDE DEF Loop
  <2>. QED  BY <1>5, Zenon
<1>. HIDE DEF loop
<1>7. loop[0] = x0 /\ \A k \in 1 .. n : loop[k] = Turn(loop[k - 1], k)
  BY <1>2, <1>6
<1>8. \A k \in 0 .. n : loop[k] \in S[k]
  <2>1. loop[0] \in S[0] /\ \A k \in 1 .. n : loop[k - 1] \in S[k - 1] => loop[k] \in S[k]
    BY <1>2, <1>7
  <2>. QED  BY <1>2, <2>1, TurnByTurn
<1>9. loop[n] \in S[n]
  BY <1>2, <1>8
<1>10. U \cup {chain[j] : j \in 1 .. n} = U \cup Range(chain)
  BY DEF Range, n
<1>11. Cancelled(b, loop[n], lost, U \cup {chain[j] : j \in 1 .. n})
  BY <1>2, <1>9 DEF S
<1>. QED  BY <1>1, <1>10, <1>11

\* The orders of all levels of a side.
LEMMA CancellingSide ==
  ASSUME NEW b, NEW lost \in {{}, {0}}, Sound(b, lost, {}, {}), BestsAre(b, lost),
         NEW side \in Sides, NEW c, c = CancelSide(b, side)
  PROVE  Sound(c, lost, {}, {}) /\ BestsAre(c, lost) /\ Fewer(b, c) /\ Removes(b, c)
<1>. DEFINE prices == Linked(b, side, b.head[side])
            U(k) == {id \in Ids : \E j \in 1 .. k : Belongs(b.orders, side, prices[j], id)}
<1>1. /\ OrdersGood(b.orders, b.nextId, {}) /\ LevelsGood(b.orders, b.levels) /\ PricesGood(b, lost)
  BY DEF Sound
<1>2. prices \in Seq(Prices) /\ \A i, j \in 1 .. Len(prices) : prices[i] = prices[j] => i = j
  <2>1. PICK s : /\ PricesAre(b.levels, b.next, b.prev, side, s)
                 /\ b.head[side] = FirstOf(s) \/ b.head[side] \in lost
    BY <1>1 DEF PricesGood, HeadGood
  <2>2. Linked(b, side, FirstOf(s)) = s /\ Linked(b, side, 0) = <<>>
    BY <1>1, <2>1, LinkedIsList DEF PricesGood
  <2>3. prices = s \/ prices = <<>>
    BY <2>1, <2>2
  <2>4. s \in Seq(Prices) /\ \A i, j \in 1 .. Len(s) : s[i] = s[j] => i = j
    BY <2>1 DEF PricesAre, LinkedAs
  <2>. HIDE DEF prices
  <2>5. CASE prices = s
    BY <2>4, <2>5
  <2>6. CASE prices = <<>>
    BY <2>6
  <2>. QED  BY <2>3, <2>5, <2>6
<1>. HIDE DEF prices
<1>. DEFINE n == Len(prices)
            Turn(x, k) == IF LevelExists(b, side, prices[k])
                          THEN CancelChain(x, Chain(b, b.levels[side][prices[k]].first)) ELSE x
            Loop(f) == f = [k \in 0 .. n |-> IF k = 0 THEN b ELSE Turn(f[k - 1], k)]
            loop == CHOOSE f : Loop(f)
            S == [k \in 0 .. n |-> {x \in Storage : Cancelled(b, x, lost, U(k))}]
            G == [k \in 1 .. n |-> [x \in S[k - 1] |-> Turn(x, k)]]
<1>3. CancelSide(b, side) = loop[n]
  BY Zenon DEF CancelSide, prices
<1>4. /\ n \in Nat /\ b \in S[0]
      /\ \A k \in 1 .. n : \A x \in S[k - 1] : Turn(x, k) \in S[k]
  <2>1. n \in Nat
    BY <1>2
  <2>2. b \in S[0]
    <3>1. b \in Storage /\ Thins(b, b, U(0)) /\ Removes(b, b)
      BY SoundIsStored, ThinsNothing, RemovingSome
    <3>. HIDE DEF U
    <3>. QED  BY <2>1, <3>1 DEF Cancelled
  <2>3. ASSUME NEW k \in 1 .. n, NEW x \in S[k - 1] PROVE Turn(x, k) \in S[k]
    <3>1. /\ k - 1 \in 0 .. n /\ k \in 0 .. n /\ \A j \in 1 .. k - 1 : j \in 1 .. n /\ j # k
          /\ \A j \in 1 .. k : j \in 1 .. k - 1 \/ j = k
          /\ \A j \in 1 .. k - 1 : j \in 1 .. k
          /\ k \in 1 .. Len(prices) /\ k \in 1 .. k
      BY <2>1
    <3>2. Cancelled(b, x, lost, U(k - 1))
      <4>. HIDE DEF U
      <4>. QED  BY <3>1
    <3>3. prices[k] \in Prices /\ \A j \in 1 .. k - 1 : prices[j] # prices[k]
      BY <1>2, <3>1
    <3>4. U(k - 1) \subseteq U(k)
      BY <3>1
    <3>5. Cancelled(b, Turn(x, k), lost, U(k))
      <4>1. CASE ~LevelExists(b, side, prices[k])
        <5>1. Turn(x, k) = x
          BY <4>1
        <5>. HIDE DEF U, Turn
        <5>. QED  BY <3>2, <3>4, <5>1, ThinsMore DEF Cancelled
      <4>2. CASE LevelExists(b, side, prices[k])
        <5>1. PICK s : /\ QueueIs(b.orders, side, prices[k], s)
                       /\ b.levels[side][prices[k]] = LevelOf(b.orders, s)
          BY <1>1, <3>3 DEF LevelsGood, LevelGood
        <5>2. LevelOf(b.orders, s).first = FirstOf(s)
          BY DEF LevelOf, FirstOf, NoLevel
        <5>3. Chain(b, b.levels[side][prices[k]].first) = s
          BY <1>1, <5>1, <5>2, ChainIsQueue
        <5>4. Turn(x, k) = CancelChain(x, s)
          BY <4>2, <5>3
        <5>5. /\ s \in Seq(Ids) /\ \A i, j \in 1 .. Len(s) : s[i] = s[j] => i = j
              /\ Range(s) = {id \in Ids : Belongs(b.orders, side, prices[k], id)}
          BY <5>1 DEF QueueIs, LinkedAs
        <5>6. \A i \in 1 .. Len(s) : s[i] \in Range(s)
          BY <5>5 DEF Range
        <5>7. \A i \in 1 .. Len(s) : s[i] \notin U(k - 1) /\ b.orders[s[i]].trader # NULL
          <6>1. \A id \in Range(s) : \A j \in 1 .. k - 1 : ~Belongs(b.orders, side, prices[j], id)
            BY <3>3, <5>5 DEF Belongs
          <6>2. \A id \in Range(s) : b.orders[id].trader # NULL
            BY <5>5 DEF Belongs
          <6>. QED  BY <5>6, <6>1, <6>2
        <5>8. U(k - 1) \cup Range(s) \subseteq U(k)
          BY <3>1, <5>5
        <5>9. Cancelled(b, CancelChain(x, s), lost, U(k - 1) \cup Range(s))
          <6>1. ASSUME NEW V, Cancelled(b, x, lost, V),
                       \A i \in 1 .. Len(s) : s[i] \notin V /\ b.orders[s[i]].trader # NULL
                PROVE  Cancelled(b, CancelChain(x, s), lost, V \cup Range(s))
            BY <5>5, <6>1, CancellingChain
          <6>. HIDE DEF U
          <6>. QED  BY <3>2, <5>7, <6>1
        <5>. HIDE DEF U, Turn
        <5>. QED  BY <5>4, <5>8, <5>9, ThinsMore DEF Cancelled
      <4>. QED  BY <4>1, <4>2
    <3>6. Turn(x, k) \in Storage
      <4>. HIDE DEF Turn, U
      <4>. QED  BY <3>5, SoundIsStored DEF Cancelled
    <3>. HIDE DEF Turn, n, U
    <3>. QED  BY <3>1, <3>5, <3>6
  <2>. HIDE DEF Turn, S, n
  <2>. QED  BY <2>1, <2>2, <2>3
<1>. HIDE DEF Turn, S, n
<1>5. LeadsOn(S, n, G)
  BY <1>4 DEF LeadsOn
<1>6. PICK f : Runs(f, S, b, n, G)
  <2>. HIDE DEF G
  <2>. QED  BY <1>4, <1>5, RunExists
<1>7. Loop(f)
  <2>1. \A k \in 1 .. n : f[k] = Turn(f[k - 1], k)
    <3>1. \A k \in 1 .. n : k - 1 \in 0 .. n
      BY <1>4
    <3>. QED  BY <1>6, <3>1 DEF Runs
  <2>2. f = [k \in 0 .. n |-> f[k]] /\ f[0] = b
    BY <1>6 DEF Runs
  <2>3. \A k \in 0 .. n : k = 0 \/ k \in 1 .. n
    BY <1>4
  <2>4. \A k \in 0 .. n : f[k] = IF k = 0 THEN b ELSE Turn(f[k - 1], k)
    BY <2>1, <2>2, <2>3, Zenon
  <2>. QED  BY <2>2, <2>4
<1>8. Loop(loop)
  <2>. HIDE DEF Loop
  <2>. QED  BY <1>7, Zenon
<1>. HIDE DEF loop
<1>9. loop[0] = b /\ \A k \in 1 .. n : loop[k] = Turn(loop[k - 1], k)
  BY <1>4, <1>8
<1>10. \A k \in 0 .. n : loop[k] \in S[k]
  <2>1. loop[0] \in S[0] /\ \A k \in 1 .. n : loop[k - 1] \in S[k - 1] => loop[k] \in S[k]
    BY <1>4, <1>9
  <2>. QED  BY <1>4, <2>1, TurnByTurn
<1>11. loop[n] \in S[n]
  BY <1>4, <1>10
<1>12. Cancelled(b, loop[n], lost, U(n))
  <2>. HIDE DEF U
  <2>. QED  BY <1>4, <1>11 DEF S
<1>13. Fewer(b, loop[n])
  <2>. HIDE DEF U
  <2>. QED  BY <1>12 DEF Cancelled, Thins, Fewer
<1>. QED  BY <1>3, <1>12, <1>13 DEF Cancelled

----------------------------------------------------------------------------
(* The live prices of a side decide what the head of its list is. *)

\* A price is live when orders rest on it.
LEMMA LiveHasOrders ==
  ASSUME NEW b, NEW nextId, OrdersGood(b.orders, nextId, {}), LevelsGood(b.orders, b.levels),
         NEW side \in Sides, NEW p \in Prices
  PROVE  p \in Live(b, side) <=> \E id \in Ids : Belongs(b.orders, side, p, id)
<1>1. b.orders \in [0 .. MaxOrders -> Orders]
  BY DEF OrdersGood
<1>2. PICK s : QueueIs(b.orders, side, p, s) /\ b.levels[side][p] = LevelOf(b.orders, s)
  BY DEF LevelsGood, LevelGood
<1>3. \A x \in Ids : x \in Range(s) <=> Belongs(b.orders, side, p, x)
  BY <1>1, <1>2, QueueFacts
<1>4. /\ Range(s) \subseteq Ids /\ Len(s) \in Nat
      /\ \A x \in Range(s) : \E i \in 1 .. Len(s) : s[i] = x
  BY <1>1, <1>2, QueueFacts
<1>5. \A i \in 1 .. Len(s) : s[i] \in Range(s)
  BY <1>1, <1>2, QueueFacts
<1>6. \A x \in Range(s) : b.orders[x].amount # 0
  <2>1. NoOrder.trader = NULL
    BY DEF NoOrder
  <2>2. ASSUME NEW x \in Range(s) PROVE x \in 0 .. MaxOrders /\ b.orders[x].trader # NULL
    BY <1>3, <1>4, BookConstants DEF Belongs
  <2>. QED  BY <2>1, <2>2 DEF OrdersGood
<1>7. LevelOf(b.orders, s).exists <=> Len(s) # 0
  BY <1>1, <1>2, <1>6, LevelIsEmpty
<1>8. p \in Live(b, side) <=> LevelOf(b.orders, s).exists
  BY <1>2, Zenon DEF Live, LevelExists
<1>9. Len(s) # 0 <=> \E x \in Range(s) : TRUE
  BY <1>4, <1>5
<1>. QED  BY <1>3, <1>4, <1>7, <1>8, <1>9

\* p is the foremost live price, or 0 when there is none.
IsHead(b, side, p) ==
  IF Live(b, side) = {} THEN p = 0
  ELSE p \in Live(b, side) /\ \A q \in Live(b, side) : q = p \/ Ahead(side, p, q)

\* n comes next after p among the live prices, 0 when none does.
IsAfter(b, side, p, n) ==
  IF n = 0 THEN \A q \in Live(b, side) : ~Ahead(side, p, q)
  ELSE /\ n \in Live(b, side) /\ Ahead(side, p, n)
       /\ \A q \in Live(b, side) : Ahead(side, p, q) => q = n \/ Ahead(side, n, q)

\* The list of prices as a sequence of the live ones.
LEMMA ListOfLive ==
  ASSUME NEW b, NEW side \in Sides, NEW s, PricesAre(b.levels, b.next, b.prev, side, s)
  PROVE  /\ s \in Seq(Prices) /\ Len(s) \in Nat /\ Live(b, side) = Range(s)
         /\ \A i \in 1 .. Len(s) : s[i] \in Prices /\ s[i] \in Live(b, side)
         /\ \A p \in Live(b, side) : \E i \in 1 .. Len(s) : s[i] = p
         /\ \A i, j \in 1 .. Len(s) : i < j => Ahead(side, s[i], s[j])
         /\ \A i \in 1 .. Len(s) : b.next[side][s[i]] = NextIn(s, i)
         /\ \A p \in Prices \ Live(b, side) : b.next[side][p] = 0
<1>1. s \in Seq(Prices) /\ Len(s) \in Nat
  BY DEF PricesAre
<1>2. Live(b, side) = Range(s)
  BY DEF PricesAre, Live, LevelExists
<1>3. \A i \in 1 .. Len(s) : s[i] \in Prices /\ s[i] \in Range(s)
  BY <1>1 DEF Range
<1>4. \A p \in Range(s) : \E i \in 1 .. Len(s) : s[i] = p
  BY <1>1 DEF Range
<1>. QED  BY <1>1, <1>2, <1>3, <1>4 DEF PricesAre, InOrder, LinkedAs

\* The head of the list of an open market is the foremost live price.
LEMMA HeadIsFirst ==
  ASSUME NEW b, PricesGood(b, {}), NEW side \in Sides
  PROVE  IsHead(b, side, b.head[side])
<1>1. PICK s : PricesAre(b.levels, b.next, b.prev, side, s) /\ b.head[side] = FirstOf(s)
  BY DEF PricesGood, HeadGood
<1>2. /\ s \in Seq(Prices) /\ Len(s) \in Nat /\ Live(b, side) = Range(s)
      /\ \A i \in 1 .. Len(s) : s[i] \in Prices /\ s[i] \in Live(b, side)
      /\ \A p \in Live(b, side) : \E i \in 1 .. Len(s) : s[i] = p
      /\ \A i, j \in 1 .. Len(s) : i < j => Ahead(side, s[i], s[j])
  BY <1>1, ListOfLive
<1>3. CASE Len(s) = 0
  <2>1. Live(b, side) = {} /\ FirstOf(s) = 0
    BY <1>2, <1>3 DEF FirstOf
  <2>. QED  BY <1>1, <2>1 DEF IsHead
<1>4. CASE Len(s) # 0
  <2>1. FirstOf(s) = s[1] /\ 1 \in 1 .. Len(s)
    BY <1>2, <1>4 DEF FirstOf
  <2>2. \A i \in 1 .. Len(s) : i = 1 \/ 1 < i
    BY <1>2
  <2>3. s[1] \in Live(b, side) /\ \A q \in Live(b, side) : q = s[1] \/ Ahead(side, s[1], q)
    <3>. HIDE DEF Live, Ahead
    <3>. QED  BY <1>2, <2>1, <2>2
  <2>. QED  BY <1>1, <2>1, <2>3 DEF IsHead
<1>. QED  BY <1>3, <1>4

\* There is one foremost price.
LEMMA HeadIsUnique ==
  ASSUME NEW b, NEW c, NEW side \in Sides, Live(c, side) = Live(b, side), NEW p, IsHead(b, side, p),
         NEW q, IsHead(c, side, q)
  PROVE  p = q
<1>1. Live(b, side) \subseteq Prices
  BY DEF Live
<1>2. CASE Live(b, side) = {}
  BY <1>2 DEF IsHead
<1>3. CASE Live(b, side) # {}
  <2>1. /\ p \in Live(b, side) /\ q \in Live(b, side)
        /\ p = q \/ (Ahead(side, p, q) /\ Ahead(side, q, p))
    BY <1>3 DEF IsHead
  <2>2. p \in Prices /\ q \in Prices
    BY <1>1, <2>1
  <2>. QED  BY <2>1, <2>2, AheadIsOrder
<1>. QED  BY <1>2, <1>3

\* The same, of one book.
LEMMA OneHead ==
  ASSUME NEW b, NEW side \in Sides, NEW p, IsHead(b, side, p), NEW q, IsHead(b, side, q)
  PROVE  p = q
<1>1. Live(b, side) = Live(b, side)
  OBVIOUS
<1>. QED  BY <1>1, HeadIsUnique, Zenon

\* The pointer of a live price leads to the next one, another price has none.
LEMMA NextIsAfter ==
  ASSUME NEW b, NEW lost, PricesGood(b, lost), NEW side \in Sides, NEW p \in Prices
  PROVE  IF p \in Live(b, side) THEN IsAfter(b, side, p, b.next[side][p])
         ELSE b.next[side][p] = 0
<1>1. PICK s : PricesAre(b.levels, b.next, b.prev, side, s)
  BY DEF PricesGood, HeadGood
<1>2. /\ s \in Seq(Prices) /\ Len(s) \in Nat /\ Live(b, side) = Range(s)
      /\ \A i \in 1 .. Len(s) : s[i] \in Prices /\ s[i] \in Live(b, side)
      /\ \A x \in Live(b, side) : \E i \in 1 .. Len(s) : s[i] = x
      /\ \A i, j \in 1 .. Len(s) : i < j => Ahead(side, s[i], s[j])
      /\ \A i \in 1 .. Len(s) : b.next[side][s[i]] = NextIn(s, i)
      /\ \A x \in Prices \ Live(b, side) : b.next[side][x] = 0
  BY <1>1, ListOfLive
<1>3. ASSUME p \in Live(b, side) PROVE IsAfter(b, side, p, b.next[side][p])
  <2>1. PICK i \in 1 .. Len(s) : s[i] = p
    BY <1>2, <1>3
  <2>2. b.next[side][p] = NextIn(s, i)
    BY <1>2, <2>1
  <2>3. \A j \in 1 .. Len(s) : j <= i => ~Ahead(side, p, s[j])
    <3>1. \A j \in 1 .. Len(s) : j <= i => j = i \/ j < i
      BY <1>2
    <3>2. \A q \in Prices : Ahead(side, q, p) => ~Ahead(side, p, q)
      BY AheadIsOrder
    <3>3. ~Ahead(side, p, p)
      BY AheadIsOrder
    <3>. QED  BY <1>2, <2>1, <3>1, <3>2, <3>3
  <2>4. CASE i = Len(s)
    <3>1. \A j \in 1 .. Len(s) : j <= i
      BY <1>2, <2>4
    <3>2. \A q \in Live(b, side) : ~Ahead(side, p, q)
      <4>. HIDE DEF Live, Ahead
      <4>. QED  BY <1>2, <2>3, <3>1
    <3>. QED  BY <2>2, <2>4, <3>2 DEF NextIn, IsAfter
  <2>5. CASE i # Len(s)
    <3>. DEFINE n == s[i + 1]
    <3>1. i + 1 \in 1 .. Len(s) /\ i < i + 1 /\ NextIn(s, i) = n
      BY <1>2, <2>5 DEF NextIn
    <3>2. n \in Prices /\ n \in Live(b, side) /\ Ahead(side, p, n)
      BY <1>2, <2>1, <3>1
    <3>3. \A j \in 1 .. Len(s) : j <= i \/ j = i + 1 \/ i + 1 < j
      BY <1>2
    <3>4. \A j \in 1 .. Len(s) : Ahead(side, p, s[j]) => s[j] = n \/ Ahead(side, n, s[j])
      <4>. HIDE DEF Ahead, Live
      <4>. QED  BY <1>2, <2>3, <3>1, <3>3
    <3>5. n # 0
      BY <3>2, BookConstants
    <3>6. \A q \in Live(b, side) : Ahead(side, p, q) => q = n \/ Ahead(side, n, q)
      <4>. HIDE DEF Ahead, Live, n
      <4>. QED  BY <1>2, <3>4
    <3>. HIDE DEF n
    <3>. QED  BY <2>2, <3>1, <3>2, <3>5, <3>6 DEF IsAfter
  <2>. QED  BY <2>4, <2>5
<1>. QED  BY <1>2, <1>3

\* When the foremost price has gone, the next one is the foremost.
LEMMA NextIsHead ==
  ASSUME NEW b, NEW c, NEW side \in Sides, NEW p \in Live(b, side), IsHead(b, side, p),
         NEW n, IsAfter(b, side, p, n), Live(c, side) = Live(b, side) \ {p}
  PROVE  IsHead(c, side, n)
<1>1. p \in Prices /\ 0 \notin Prices /\ Live(b, side) \subseteq Prices
  BY BookConstants DEF Live
<1>2. \A q \in Live(b, side) : q = p \/ Ahead(side, p, q)
  BY DEF IsHead
<1>3. ~Ahead(side, p, p)
  BY <1>1, AheadIsOrder
<1>4. CASE n = 0
  <2>1. Live(c, side) = {}
    BY <1>2, <1>4 DEF IsAfter
  <2>. QED  BY <1>4, <2>1 DEF IsHead
<1>5. CASE n # 0
  <2>1. n \in Live(c, side) /\ \A q \in Live(c, side) : q = n \/ Ahead(side, n, q)
    BY <1>2, <1>3, <1>5 DEF IsAfter
  <2>. QED  BY <2>1 DEF IsHead
<1>. QED  BY <1>4, <1>5

\* n is where the pointer of p leads.
LeadsTo(b, side, p, n) == n = b.next[side][p]

\* The price to go on with is the next one of before: that pointer, and when it
\* is 0, the search behind an emptied level finds nothing.
LEMMA NextLevelIsNext ==
  ASSUME NEW b, NEW c, PricesGood(b, {}), PricesGood(c, {}), NEW side \in Sides,
         NEW p \in Live(b, side), Live(c, side) \subseteq Live(b, side)
  PROVE  LeadsTo(b, side, p, NextLevel(b, c, side, p))
<1>1. p \in Prices /\ 0 \notin Prices
  BY BookConstants DEF Live
<1>2. IsAfter(b, side, p, b.next[side][p])
  BY <1>1, NextIsAfter
<1>3. CASE b.next[side][p] = 0
  <2>1. \A q \in Live(c, side) : ~Ahead(side, p, q)
    BY <1>2, <1>3 DEF IsAfter
  <2>2. c.next[side][p] = 0
    <3>1. IF p \in Live(c, side) THEN IsAfter(c, side, p, c.next[side][p])
          ELSE c.next[side][p] = 0
      BY <1>1, NextIsAfter
    <3>. QED  BY <2>1, <3>1 DEF IsAfter
  <2>3. PICK s : PricesAre(c.levels, c.next, c.prev, side, s) /\ c.head[side] = FirstOf(s)
    BY DEF PricesGood, HeadGood
  <2>4. \A q \in Range(s) : ~Ahead(side, p, q)
    BY <2>1, <2>3, ListOfLive
  <2>5. NextPrice(c, side, p) = 0
    BY <1>1, <2>2, <2>3, <2>4, NothingBehind DEF PricesGood
  <2>. QED  BY <1>3, <2>5 DEF NextLevel, LeadsTo
<1>4. CASE b.next[side][p] # 0
  BY <1>4 DEF NextLevel, LeadsTo
<1>. QED  BY <1>3, <1>4

----------------------------------------------------------------------------
(* Matching: the orders of a level. *)

\* The states of the matching.
Meeting == [book: Storage, price: Prices0, left: Nat, fills: Nat]

\* Nothing is left of the taker, or it has used up its matches.
Stuck(m) == m.left = 0 \/ m.fills = MaxMatches

\* The orders of which there is less after.
Lessened(orders, after) == {id \in Ids : after[id].amount < orders[id].amount}

\* k orders have less left, or are gone, and no other has changed.
Counted(b, c, k) ==
  /\ Thins(b, c, Lessened(b.orders, c.orders))
  /\ Cardinality(Lessened(b.orders, c.orders)) = k

\* Nothing was filled.
LEMMA CountedNothing ==
  ASSUME NEW b, b.orders \in [0 .. MaxOrders -> Orders]
  PROVE  Lessened(b.orders, b.orders) = {} /\ Counted(b, b, 0)
<1>1. \A id \in Ids : b.orders[id].amount \in Nat
  BY BookConstants DEF Orders
<1>2. Lessened(b.orders, b.orders) = {}
  BY <1>1 DEF Lessened
<1>3. Thins(b, b, {}) /\ Cardinality({}) = 0
  BY ThinsNothing, FS_EmptySet
<1>. QED  BY <1>2, <1>3 DEF Counted

\* No order is counted twice when those of the first time are gone.
LEMMA CountedTwice ==
  ASSUME NEW b, b.orders \in [0 .. MaxOrders -> Orders],
         NEW c, c.orders \in [0 .. MaxOrders -> Orders],
         NEW d, d.orders \in [0 .. MaxOrders -> Orders],
         NEW j \in Nat, Counted(b, c, j), NEW k \in Nat, Counted(c, d, k),
         \A id \in Lessened(b.orders, c.orders) : id \notin Lessened(c.orders, d.orders)
  PROVE  /\ Counted(b, d, j + k)
         /\ \A id \in Lessened(b.orders, d.orders) :
              id \in Lessened(b.orders, c.orders) \/ id \in Lessened(c.orders, d.orders)
<1>. DEFINE L == Lessened(b.orders, c.orders)
            M == Lessened(c.orders, d.orders)
<1>1. \A id \in Ids : /\ id \in 0 .. MaxOrders /\ b.orders[id].amount \in Nat
                      /\ c.orders[id].amount \in Nat /\ d.orders[id].amount \in Nat
  BY BookConstants DEF Orders
<1>2. Thins(b, c, L) /\ Thins(c, d, M) /\ Cardinality(L) = j /\ Cardinality(M) = k
  BY DEF Counted
<1>3. /\ \A id \in Ids \ L : c.orders[id].amount = b.orders[id].amount
      /\ \A id \in Ids \ M : d.orders[id].amount = c.orders[id].amount
  BY <1>1, <1>2 DEF Thins, SameTerms
<1>4. /\ \A id \in L : id \in Ids /\ c.orders[id].amount < b.orders[id].amount /\ id \notin M
      /\ \A id \in M : id \in Ids /\ d.orders[id].amount < c.orders[id].amount /\ id \notin L
  BY DEF Lessened
<1>5. ASSUME NEW id \in Ids
      PROVE  d.orders[id].amount < b.orders[id].amount <=> id \in L \cup M
  BY <1>1, <1>3, <1>4
<1>6. Lessened(b.orders, d.orders) = L \cup M
  <2>. HIDE DEF L, M
  <2>. QED  BY <1>4, <1>5 DEF Lessened
<1>7. IsFiniteSet(L) /\ IsFiniteSet(M) /\ L \cap M = {}
  <2>1. IsFiniteSet(Ids)
    BY BookConstants, FS_Interval DEF Ids
  <2>. QED  BY <1>4, <2>1, FS_Subset DEF Lessened
<1>8. Cardinality(L \cup M) = j + k
  <2>. HIDE DEF L, M
  <2>1. Cardinality(L \cup M) = Cardinality(L) + Cardinality(M) - Cardinality({})
    BY <1>7, FS_Union
  <2>. QED  BY <1>2, <2>1, FS_EmptySet
<1>9. Thins(b, d, L \cup M)
  BY <1>2, ThinsTwice
<1>. QED  BY <1>6, <1>8, <1>9 DEF Counted

\* x is what has become of m when the orders of U were met: all are gone,
\* unless the matching is stuck.
MetSo(m, x, E, U) ==
  /\ U \subseteq Ids /\ m \in Meeting /\ x \in Meeting /\ x.price = m.price
  /\ Sound(x.book, {}, E, {}) /\ x.book.best = m.book.best
  /\ Thins(m.book, x.book, U)
  /\ m.fills <= x.fills /\ Counted(m.book, x.book, x.fills - m.fills)
  /\ Stuck(x) \/ \A id \in U : x.book.orders[id].trader = NULL
  /\ Stuck(m) => x = m

\* One more fill, which leaves book c and that much of the taker.
Filling(x, y, c, left) ==
  y = [[[x EXCEPT !.book = c] EXCEPT !.left = left] EXCEPT !.fills = x.fills + 1]

\* A state of the matching at the same price, with another book and remainder.
FilledTo(x, y, c, left) ==
  /\ y \in Meeting /\ y.book = c /\ y.price = x.price /\ y.left = left
  /\ y.fills = x.fills + 1

\* A state of the matching with other values.
LEMMA MeetingChanges ==
  ASSUME NEW x \in Meeting, NEW c \in Storage, NEW left \in Nat, NEW y,
         Filling(x, y, c, left)
  PROVE  FilledTo(x, y, c, left)
<1>. DEFINE x1 == [x EXCEPT !.book = c]
            x2 == [x1 EXCEPT !.left = left]
<1>1. /\ x1 \in Meeting /\ x1.book = c /\ x1.price = x.price /\ x1.left = x.left
      /\ x1.fills = x.fills
  BY DEF Meeting
<1>. HIDE DEF x1
<1>2. /\ x2 \in Meeting /\ x2.book = c /\ x2.price = x.price /\ x2.left = left
      /\ x2.fills = x.fills
  BY <1>1 DEF Meeting
<1>3. y = [x2 EXCEPT !.fills = x2.fills + 1]
  <2>1. y = [x2 EXCEPT !.fills = x.fills + 1]
    BY DEF x1, Filling
  <2>. HIDE DEF x2
  <2>. QED  BY <1>2, <2>1
<1>. HIDE DEF x2
<1>. QED  BY <1>2, <1>3 DEF Meeting, FilledTo

\* Of an order that is gone nothing is left.
LEMMA GoneIsNothing ==
  ASSUME NEW orders, NEW nextId, NEW X, OrdersGood(orders, nextId, X),
         NEW id \in Ids, orders[id].trader = NULL
  PROVE  orders[id].amount = 0
<1>1. orders[id] = NoOrder
  BY BookConstants, BookAssumption DEF OrdersGood
<1>. QED  BY <1>1 DEF NoOrder

\* What a fill of some of the order leads to, rest being left of the taker.
FilledSo(b, c, E, id, left, rest) ==
  /\ Sound(c, {}, E, {}) /\ c.best = b.best /\ Thins(b, c, {id})
  /\ rest \in Nat
  /\ rest = 0 \/ c.orders[id].trader = NULL
  /\ left = 0 \/ c.orders[id].amount < b.orders[id].amount

\* A fill of some of the order.
LEMMA FillingSome ==
  ASSUME NEW b, NEW E, Sound(b, {}, E, {}), NEW id \in Ids, b.orders[id].trader # NULL,
         NEW left \in Nat, NEW fill, fill = Min2(left, b.orders[id].amount),
         NEW c, c = Fill(b, id, fill), NEW rest, rest = left - fill
  PROVE  FilledSo(b, c, E, id, left, rest)
<1>1. OrdersGood(b.orders, b.nextId, {}) /\ id \in 0 .. MaxOrders
  BY BookConstants DEF Sound
<1>2. b.orders[id].amount \in Nat /\ b.orders[id].amount # 0
  <2>1. NoOrder.trader = NULL
    BY DEF NoOrder
  <2>. QED  BY <1>1, <2>1 DEF OrdersGood, Orders
<1>3. CASE left < b.orders[id].amount
  <2>1. fill = left /\ left - fill = 0
    BY <1>2, <1>3 DEF Min2
  <2>2. /\ Sound(c, {}, E, {}) /\ c.best = b.best /\ Thins(b, c, {id})
        /\ c.orders[id].amount = b.orders[id].amount - fill
    BY <1>3, <2>1, FillingPart
  <2>3. left = 0 \/ c.orders[id].amount < b.orders[id].amount
    BY <1>2, <2>1, <2>2
  <2>. QED  BY <2>1, <2>2, <2>3 DEF FilledSo
<1>4. CASE ~(left < b.orders[id].amount)
  <2>1. fill = b.orders[id].amount
    BY <1>4 DEF Min2
  <2>2. fill \in Nat /\ left - fill \in Nat
    BY <1>2, <1>4, <2>1
  <2>3. /\ Sound(c, {}, E, {}) /\ c.best = b.best
        /\ Thins(b, c, {id}) /\ c.orders[id].trader = NULL
    BY <2>1, FillingWhole
  <2>4. c.orders[id].amount = 0
    BY <2>3, GoneIsNothing DEF Sound
  <2>. QED  BY <1>2, <2>2, <2>3, <2>4 DEF FilledSo
<1>. QED  BY <1>3, <1>4

\* It counts once.
LEMMA FillCounts ==
  ASSUME NEW b, NEW c, NEW E, Sound(b, {}, E, {}), Sound(c, {}, E, {}), NEW id \in Ids,
         Thins(b, c, {id}), c.orders[id].amount < b.orders[id].amount, NEW k, k = 1
  PROVE  Counted(b, c, k)
<1>1. c.orders \in [0 .. MaxOrders -> Orders] /\ b.orders \in [0 .. MaxOrders -> Orders]
  BY DEF Sound, OrdersGood
<1>2. ASSUME NEW x \in Ids PROVE c.orders[x].amount < b.orders[x].amount <=> x = id
  <2>1. x \in 0 .. MaxOrders /\ b.orders[x].amount \in Nat /\ c.orders[x].amount \in Nat
    BY <1>1, BookConstants DEF Orders
  <2>2. x = id \/ c.orders[x].amount = b.orders[x].amount
    BY <2>1 DEF Thins, SameTerms
  <2>. QED  BY <2>1, <2>2
<1>3. Lessened(b.orders, c.orders) = {id}
  BY <1>2 DEF Lessened
<1>. QED  BY <1>3, FS_Singleton DEF Counted

\* Only an order that was met has less left.
LEMMA LessenedAreMet ==
  ASSUME NEW b, b.orders \in [0 .. MaxOrders -> Orders], NEW c, NEW U, Thins(b, c, U),
         NEW id \in Lessened(b.orders, c.orders)
  PROVE  id \in U
<1>1. id \in Ids /\ id \in 0 .. MaxOrders /\ c.orders[id].amount < b.orders[id].amount
  BY BookConstants DEF Lessened
<1>2. b.orders[id].amount \in Nat
  BY <1>1 DEF Orders
<1>. QED  BY <1>1, <1>2 DEF Thins, SameTerms

\* One more order, which is not the taker's own.
LEMMA MeetingOneMore ==
  ASSUME NEW m, NEW E, NEW U, NEW x, MetSo(m, x, E, U), NEW t, NEW id \in Ids, id \notin U,
         m.book.orders[id].trader # NULL, m.book.orders[id].trader # t
  PROVE  MetSo(m, Meet(x, id, t), E, U \cup {id})
<1>. DEFINE b == x.book
            fill == Min2(x.left, b.orders[id].amount)
            c == Fill(b, id, fill)
            rest == x.left - fill
            y == Meet(x, id, t)
<1>1. /\ U \subseteq Ids /\ m \in Meeting /\ x \in Meeting /\ x.price = m.price
      /\ Sound(b, {}, E, {}) /\ b.best = m.book.best
      /\ Thins(m.book, b, U)
      /\ m.fills <= x.fills /\ Counted(m.book, b, x.fills - m.fills)
      /\ Stuck(x) \/ \A i \in U : b.orders[i].trader = NULL
      /\ Stuck(m) => x = m
  BY DEF MetSo
<1>2. /\ x.left \in Nat /\ x.fills \in Nat /\ m.fills \in Nat
      /\ m.book.orders \in [0 .. MaxOrders -> Orders] /\ b.orders \in [0 .. MaxOrders -> Orders]
  <2>1. x.left \in Nat /\ x.fills \in Nat /\ m.fills \in Nat /\ m.book \in Storage
    BY <1>1 DEF Meeting
  <2>2. m.book.orders \in [0 .. MaxOrders -> Orders] /\ b.orders \in [0 .. MaxOrders -> Orders]
    BY <1>1, <2>1 DEF Storage, Sound, OrdersGood
  <2>. QED  BY <2>1, <2>2
<1>3. b.orders[id].trader = m.book.orders[id].trader
  BY <1>1, BookConstants DEF Thins, SameTerms
<1>4. CASE Stuck(x)
  <2>1. y = x
    BY <1>4 DEF Meet, Stuck
  <2>2. Thins(m.book, b, U \cup {id})
    BY <1>1, ThinsMore
  <2>. QED  BY <1>1, <1>4, <2>1, <2>2 DEF MetSo
<1>5. CASE ~Stuck(x)
  <2>1. ~Stuck(m)
    BY <1>1, <1>5
  <2>2. FilledSo(b, c, E, id, x.left, rest)
    <3>1. /\ fill = Min2(x.left, b.orders[id].amount) /\ c = Fill(b, id, fill)
          /\ rest = x.left - fill /\ b.orders[id].trader # NULL
      BY <1>3
    <3>. HIDE DEF fill, c, b, rest
    <3>. QED  BY <1>1, <1>2, <3>1, FillingSome
  <2>3. y = [x EXCEPT !.book = c, !.left = rest, !.fills = x.fills + 1]
    BY <1>3, <1>5 DEF Meet, Stuck
  <2>. HIDE DEF c, fill, rest
  <2>4. Filling(x, y, c, rest)
    BY <2>3 DEF Filling
  <2>. HIDE DEF y
  <2>5. c \in Storage
    BY <2>2, SoundIsStored DEF FilledSo
  <2>6. /\ y \in Meeting /\ y.book = c /\ y.price = x.price /\ y.left = rest
        /\ y.fills = x.fills + 1
    <3>1. x \in Meeting /\ rest \in Nat
      BY <1>1, <2>2 DEF FilledSo
    <3>. HIDE DEF b
    <3>. QED  BY <2>4, <2>5, <3>1, MeetingChanges DEF FilledTo
  <2>7. Thins(m.book, c, U \cup {id})
    BY <1>1, <2>2, ThinsTwice DEF FilledSo
  <2>8. Stuck(y) \/ \A i \in U \cup {id} : c.orders[i].trader = NULL
    <3>1. CASE rest = 0
      BY <2>6, <3>1 DEF Stuck
    <3>2. CASE c.orders[id].trader = NULL
      <4>1. \A i \in 0 .. MaxOrders : b.orders[i].trader = NULL => c.orders[i].trader = NULL
        BY <2>2 DEF FilledSo, Thins, SamePlace
      <4>2. \A i \in U : c.orders[i].trader = NULL
        BY <1>1, <1>5, <4>1, BookConstants
      <4>. QED  BY <3>2, <4>2
    <3>. QED  BY <2>2, <3>1, <3>2 DEF FilledSo
  <2>9. Counted(m.book, c, y.fills - m.fills) /\ m.fills <= y.fills
    <3>1. /\ Counted(m.book, b, x.fills - m.fills) /\ x.fills - m.fills \in Nat
          /\ \A k : k = 1 => Counted(b, c, k)
      <4>1. x.left # 0
        BY <1>5 DEF Stuck
      <4>2. ASSUME NEW k, k = 1 PROVE Counted(b, c, k)
        BY <1>1, <2>2, <4>1, <4>2, FillCounts DEF FilledSo
      <4>. QED  BY <1>1, <1>2, <4>2
    <3>2. c.orders \in [0 .. MaxOrders -> Orders]
      BY <2>2 DEF FilledSo, Sound, OrdersGood
    <3>3. ASSUME NEW i \in Lessened(m.book.orders, b.orders)
          PROVE  i \notin Lessened(b.orders, c.orders)
      <4>1. i \in U
        BY <1>1, <1>2, <3>3, LessenedAreMet
      <4>2. b.orders[i].trader = NULL /\ i \in Ids
        BY <1>1, <1>5, <4>1
      <4>3. b.orders[i].amount = 0
        BY <1>1, <4>2, GoneIsNothing DEF Sound
      <4>4. c.orders[i].amount \in Nat
        BY <3>2, <4>2, BookConstants DEF Orders
      <4>. QED  BY <4>3, <4>4 DEF Lessened
    <3>4. Counted(m.book, c, (x.fills - m.fills) + 1)
      <4>. DEFINE a == m.book
                  j == x.fills - m.fills
      <4>1. /\ a.orders \in [0 .. MaxOrders -> Orders] /\ b.orders \in [0 .. MaxOrders -> Orders]
            /\ Counted(a, b, j) /\ j \in Nat
            /\ \A i \in Lessened(a.orders, b.orders) : i \notin Lessened(b.orders, c.orders)
        BY <1>2, <3>1, <3>3
      <4>. HIDE DEF a, b, j
      <4>2. ASSUME NEW k, k = 1 PROVE Counted(a, c, j + k)
        <5>1. k \in Nat
          BY <4>2
        <5>2. Counted(b, c, k)
          BY <3>1, <4>2
        <5>. QED  BY <3>2, <4>1, <5>1, <5>2, CountedTwice
      <4>. QED  BY <4>2 DEF a, j
    <3>5. y.fills - m.fills = (x.fills - m.fills) + 1 /\ m.fills <= y.fills
      BY <1>1, <1>2, <2>6
    <3>. QED  BY <3>4, <3>5
  <2>10. MetSo(m, y, E, U \cup {id})
    BY <1>1, <2>1, <2>2, <2>6, <2>7, <2>8, <2>9 DEF MetSo, FilledSo
  <2>. QED  BY <2>10 DEF y
<1>. QED  BY <1>4, <1>5

\* T holds m, and what any turn of the inner loop makes of a state of T.
MeetsInside(m, E, t, chain, T) ==
  /\ m \in T
  /\ \A k \in 1 .. Len(chain), x \in T :
       MetSo(m, x, E, {chain[j] : j \in 1 .. k - 1}) => Meet(x, chain[k], t) \in T

\* The orders of a level, and whatever else holds throughout the loop.
LEMMA MeetingInside ==
  ASSUME NEW m \in Meeting, NEW E, Sound(m.book, {}, E, {}), NEW t, NEW chain \in Seq(Ids),
         \A i, j \in 1 .. Len(chain) : chain[i] = chain[j] => i = j,
         \A i \in 1 .. Len(chain) : /\ m.book.orders[chain[i]].trader # NULL
                                    /\ m.book.orders[chain[i]].trader # t,
         NEW T, MeetsInside(m, E, t, chain, T)
  PROVE  MetSo(m, MeetAll(m, chain, t), E, Range(chain)) /\ MeetAll(m, chain, t) \in T
<1>. DEFINE n == Len(chain)
            Turn(x, k) == Meet(x, chain[k], t)
            Loop(f) == f = [k \in 0 .. n |-> IF k = 0 THEN m ELSE Turn(f[k - 1], k)]
            loop == CHOOSE f : Loop(f)
            S == [k \in 0 .. n |-> {x \in Meeting \cap T :
                                     MetSo(m, x, E, {chain[j] : j \in 1 .. k})}]
            G == [k \in 1 .. n |-> [x \in S[k - 1] |-> Turn(x, k)]]
<1>1. MeetAll(m, chain, t) = loop[n]
  BY Zenon DEF MeetAll
<1>2. /\ n \in Nat /\ m \in S[0]
      /\ \A k \in 1 .. n : \A x \in S[k - 1] : Turn(x, k) \in S[k]
  <2>1. n \in Nat
    OBVIOUS
  <2>. DEFINE V(k) == {chain[j] : j \in 1 .. k}
  <2>2. m \in S[0]
    <3>1. V(0) = {}
      OBVIOUS
    <3>2. Thins(m.book, m.book, {})
      BY ThinsNothing
    <3>3. m.fills <= m.fills /\ Counted(m.book, m.book, m.fills - m.fills)
      <4>1. m.fills \in Nat /\ m.book.orders \in [0 .. MaxOrders -> Orders]
        BY DEF Meeting, Sound, OrdersGood
      <4>2. m.fills <= m.fills /\ m.fills - m.fills = 0
        BY <4>1
      <4>. QED  BY <4>1, <4>2, CountedNothing
    <3>4. MetSo(m, m, E, V(0))
      <4>. HIDE DEF V
      <4>. QED  BY <3>1, <3>2, <3>3 DEF MetSo
    <3>5. m \in T
      BY DEF MeetsInside
    <3>. QED  BY <2>1, <3>4, <3>5
  <2>3. ASSUME NEW k \in 1 .. n, NEW x \in S[k - 1] PROVE Turn(x, k) \in S[k]
    <3>1. /\ k - 1 \in 0 .. n /\ k \in 0 .. n /\ \A j \in 1 .. k - 1 : j \in 1 .. n /\ j # k
          /\ 1 .. k = (1 .. k - 1) \cup {k} /\ k \in 1 .. Len(chain)
      BY <2>1
    <3>2. MetSo(m, x, E, V(k - 1))
      BY <3>1
    <3>3. /\ chain[k] \in Ids /\ chain[k] \notin V(k - 1)
          /\ m.book.orders[chain[k]].trader # NULL /\ m.book.orders[chain[k]].trader # t
      BY <3>1
    <3>4. V(k) = V(k - 1) \cup {chain[k]}
      BY <3>1
    <3>5. MetSo(m, Turn(x, k), E, V(k))
      <4>. HIDE DEF V
      <4>1. MetSo(m, Meet(x, chain[k], t), E, V(k - 1) \cup {chain[k]})
        BY <3>2, <3>3, MeetingOneMore
      <4>. QED  BY <3>4, <4>1
    <3>6. Turn(x, k) \in Meeting
      <4>. HIDE DEF Turn
      <4>. QED  BY <3>5 DEF MetSo
    <3>7. Turn(x, k) \in T
      <4>1. x \in T
        BY <3>1
      <4>. QED  BY <3>1, <3>2, <4>1 DEF MeetsInside
    <3>. HIDE DEF Turn, n
    <3>. QED  BY <3>1, <3>5, <3>6, <3>7
  <2>. QED  BY <2>1, <2>2, <2>3
<1>. HIDE DEF Turn, S, n
<1>3. LeadsOn(S, n, G)
  BY <1>2 DEF LeadsOn
<1>4. PICK f : Runs(f, S, m, n, G)
  <2>. HIDE DEF G
  <2>. QED  BY <1>2, <1>3, RunExists
<1>5. Loop(f)
  <2>1. \A k \in 1 .. n : f[k] = Turn(f[k - 1], k)
    <3>1. \A k \in 1 .. n : k - 1 \in 0 .. n
      BY <1>2
    <3>. QED  BY <1>4, <3>1 DEF Runs
  <2>2. f = [k \in 0 .. n |-> f[k]] /\ f[0] = m
    BY <1>4 DEF Runs
  <2>3. \A k \in 0 .. n : k = 0 \/ k \in 1 .. n
    BY <1>2
  <2>4. \A k \in 0 .. n : f[k] = IF k = 0 THEN m ELSE Turn(f[k - 1], k)
    BY <2>1, <2>2, <2>3, Zenon
  <2>. QED  BY <2>2, <2>4
<1>6. Loop(loop)
  <2>. HIDE DEF Loop
  <2>. QED  BY <1>5, Zenon
<1>. HIDE DEF loop
<1>7. loop[0] = m /\ \A k \in 1 .. n : loop[k] = Turn(loop[k - 1], k)
  BY <1>2, <1>6
<1>8. \A k \in 0 .. n : loop[k] \in S[k]
  <2>1. loop[0] \in S[0] /\ \A k \in 1 .. n : loop[k - 1] \in S[k - 1] => loop[k] \in S[k]
    BY <1>2, <1>7
  <2>. QED  BY <1>2, <2>1, TurnByTurn
<1>9. loop[n] \in S[n]
  BY <1>2, <1>8
<1>10. {chain[j] : j \in 1 .. n} = Range(chain)
  BY DEF Range, n
<1>11. MetSo(m, loop[n], E, {chain[j] : j \in 1 .. n}) /\ loop[n] \in T
  BY <1>2, <1>9 DEF S
<1>. QED  BY <1>1, <1>10, <1>11

\* The orders of a level.
LEMMA MeetingAll ==
  ASSUME NEW m \in Meeting, NEW E, Sound(m.book, {}, E, {}), NEW t, NEW chain \in Seq(Ids),
         \A i, j \in 1 .. Len(chain) : chain[i] = chain[j] => i = j,
         \A i \in 1 .. Len(chain) : /\ m.book.orders[chain[i]].trader # NULL
                                    /\ m.book.orders[chain[i]].trader # t
  PROVE  MetSo(m, MeetAll(m, chain, t), E, Range(chain))
<1>1. ASSUME NEW k \in 1 .. Len(chain), NEW x, MetSo(m, x, E, {chain[j] : j \in 1 .. k - 1})
      PROVE  Meet(x, chain[k], t) \in Meeting
  <2>. DEFINE U == {chain[j] : j \in 1 .. k - 1}
  <2>1. /\ chain[k] \in Ids /\ chain[k] \notin U
        /\ m.book.orders[chain[k]].trader # NULL /\ m.book.orders[chain[k]].trader # t
    OBVIOUS
  <2>2. MetSo(m, x, E, U)
    BY <1>1
  <2>. HIDE DEF U
  <2>3. MetSo(m, Meet(x, chain[k], t), E, U \cup {chain[k]})
    BY <2>1, <2>2, MeetingOneMore
  <2>. QED  BY <2>3 DEF MetSo
<1>2. MeetsInside(m, E, t, chain, Meeting)
  BY <1>1 DEF MeetsInside
<1>. QED  BY <1>2, MeetingInside

\* The orders of a level.
OrdersAt(orders, side, p) == {id \in Ids : Belongs(orders, side, p, id)}

\* c has the live prices of b, except perhaps p, which has gone when its orders have.
LiveButFor(b, c, maker, p) ==
  /\ \A side \in Sides \ {maker} : Live(c, side) = Live(b, side)
  /\ Live(c, maker) = Live(b, maker) \/ Live(c, maker) = Live(b, maker) \ {p}
  /\ (\A id \in OrdersAt(b.orders, maker, p) : c.orders[id].trader = NULL)
       => p \notin Live(c, maker)

\* The live prices after orders of one price have gone.
LEMMA LiveAfter ==
  ASSUME NEW b, NEW nextId, OrdersGood(b.orders, nextId, {}), LevelsGood(b.orders, b.levels),
         NEW c, NEW nextId2, OrdersGood(c.orders, nextId2, {}), LevelsGood(c.orders, c.levels),
         NEW maker \in Sides, NEW p \in Prices,
         Thins(b, c, OrdersAt(b.orders, maker, p))
  PROVE  LiveButFor(b, c, maker, p)
<1>. DEFINE U == {id \in Ids : Belongs(b.orders, maker, p, id)}
<1>1. Thins(b, c, U)
  BY DEF OrdersAt
<1>2. ASSUME NEW side \in Sides, NEW q \in Prices, side # maker \/ q # p
      PROVE  q \in Live(c, side) <=> q \in Live(b, side)
  <2>1. ASSUME NEW id \in Ids
        PROVE  Belongs(c.orders, side, q, id) <=> Belongs(b.orders, side, q, id)
    <3>1. /\ id \in U \/ SameTerms(b.orders[id], c.orders[id])
          /\ c.orders[id].trader = NULL \/ SamePlace(b.orders[id], c.orders[id])
      BY <1>1, BookConstants DEF Thins
    <3>2. CASE id \in U
      BY <1>2, <3>1, <3>2 DEF SamePlace, Belongs
    <3>3. CASE SameTerms(b.orders[id], c.orders[id])
      BY <3>3 DEF SameTerms, Belongs
    <3>. QED  BY <3>1, <3>2, <3>3
  <2>2. q \in Live(b, side) <=> \E id \in Ids : Belongs(b.orders, side, q, id)
    BY LiveHasOrders
  <2>3. q \in Live(c, side) <=> \E id \in Ids : Belongs(c.orders, side, q, id)
    BY LiveHasOrders
  <2>. QED  BY <2>1, <2>2, <2>3
<1>3. ASSUME p \in Live(c, maker)
      PROVE  \E id \in U : c.orders[id].trader # NULL
  <2>1. PICK id \in Ids : Belongs(c.orders, maker, p, id)
    BY <1>3, LiveHasOrders
  <2>2. c.orders[id].trader # NULL /\ SamePlace(b.orders[id], c.orders[id])
    BY <1>1, <2>1, BookConstants DEF Belongs, Thins
  <2>3. id \in U
    BY <2>1, <2>2 DEF Belongs, SamePlace
  <2>. QED  BY <2>2, <2>3
<1>4. p \in Live(c, maker) => p \in Live(b, maker)
  <2>1. ASSUME p \in Live(c, maker) PROVE p \in Live(b, maker)
    <3>1. \E id \in Ids : Belongs(b.orders, maker, p, id)
      BY <1>3, <2>1
    <3>. QED  BY <3>1, LiveHasOrders
  <2>. QED  BY <2>1
<1>5. \A side \in Sides : Live(c, side) \subseteq Prices /\ Live(b, side) \subseteq Prices
  BY DEF Live
<1>6. \A side \in Sides \ {maker} : Live(c, side) = Live(b, side)
  <2>. HIDE DEF Live
  <2>. QED  BY <1>2, <1>5
<1>7. Live(c, maker) = Live(b, maker) \/ Live(c, maker) = Live(b, maker) \ {p}
  <2>1. \A q \in Prices : q = p \/ (q \in Live(c, maker) <=> q \in Live(b, maker))
    BY <1>2
  <2>. HIDE DEF Live
  <2>. QED  BY <1>4, <1>5, <2>1
<1>. QED  BY <1>3, <1>6, <1>7 DEF LiveButFor, OrdersAt

\* Only the best price of a side is another one.
BestSet(c, d, side, v) ==
  /\ IsBook(d) /\ d.best = [c.best EXCEPT ![side] = v]
  /\ d.orders = c.orders /\ d.levels = c.levels /\ d.next = c.next /\ d.prev = c.prev
  /\ d.head = c.head /\ d.listed = c.listed /\ d.index = c.index
  /\ d.reserved = c.reserved /\ d.nextId = c.nextId /\ d.ok = c.ok

\* Such a change leaves a sound book.
LEMMA BestSetIsSound ==
  ASSUME NEW c, NEW lost, NEW E, Sound(c, lost, E, {}), NEW side \in Sides, NEW v \in Prices0,
         NEW d, BestSet(c, d, side, v)
  PROVE  Sound(d, lost, E, {})
<1>1. c.best \in [Sides -> Prices0] /\ PricesGood(c, lost)
  BY DEF Sound
<1>2. d.best \in [Sides -> Prices0]
  BY <1>1 DEF BestSet
<1>3. PricesGood(d, lost)
  BY <1>1, PricesStayGood DEF BestSet
<1>. QED  BY <1>2, <1>3 DEF Sound, BestSet

\* The best price when the matching leaves a level.
BestLeft(met, maker, n) ==
  IF met.book.best[maker] = met.price /\ ~LevelExists(met.book, maker, met.price)
  THEN n ELSE met.book.best[maker]

\* The matching goes on to the price n: only the cached best price has changed.
LeftSo(met, r, maker, n) ==
  /\ r \in Meeting /\ r.price = n /\ r.left = met.left /\ r.fills = met.fills
  /\ BestSet(met.book, r.book, maker, BestLeft(met, maker, n))

\* The matching goes on to the next level.
LEMMA LeavingLevel ==
  ASSUME NEW met \in Meeting, NEW E, Sound(met.book, {}, E, {}), NEW maker \in Sides,
         NEW n \in Prices0
  PROVE  LeftSo(met, LeaveLevel(met, maker, n), maker, n)
<1>. DEFINE c == met.book
            v == BestLeft(met, maker, n)
            d == [c EXCEPT !.best = [c.best EXCEPT ![maker] = v]]
            r1 == [met EXCEPT !.price = n]
            r == LeaveLevel(met, maker, n)
<1>1. IsBook(c) /\ c.best \in [Sides -> Prices0] /\ c \in Storage
  BY SoundIsStored DEF Sound
<1>2. v \in Prices0
  BY <1>1 DEF BestLeft
<1>3. BestSet(c, d, maker, v)
  <2>. HIDE DEF v, c
  <2>. QED  BY <1>1 DEF BestSet, IsBook
<1>4. d \in Storage
  <2>. HIDE DEF d, v, c
  <2>1. Sound(d, {}, E, {})
    BY <1>2, <1>3, BestSetIsSound DEF c
  <2>. QED  BY <2>1, SoundIsStored
<1>5. r1 \in Meeting /\ r1.book = c /\ r1.price = n /\ r1.left = met.left /\ r1.fills = met.fills
  BY DEF Meeting
<1>6. r = [r1 EXCEPT !.book = d]
  BY DEF LeaveLevel, BestLeft
<1>. HIDE DEF r1, d, c, v, r
<1>7. r \in Meeting /\ r.book = d /\ r.price = n /\ r.left = met.left /\ r.fills = met.fills
  BY <1>4, <1>5, <1>6 DEF Meeting
<1>. QED  BY <1>3, <1>7 DEF LeftSo, r, c, v

\* Each trader is on one side of the market.
OneSided == \A t \in Traders : SidesOf[t] # Sides

\* Of every order that has less left than in book b0 nothing is left.
LessIsNone(b0, b) ==
  \A id \in Lessened(b0.orders, b.orders) : b.orders[id].trader = NULL

\* A state of the matching of book b0: the next level is the best one, and what
\* was filled has gone, unless the matching is stuck.
Matched(b0, m, maker, E) ==
  /\ m \in Meeting /\ Sound(m.book, {}, E, {}) /\ BestsAre(m.book, {})
  /\ Thins(b0, m.book, Ids)
  /\ m.price = 0 \/ m.price \in Live(m.book, maker)
  /\ Stuck(m) \/ m.price = m.book.head[maker]
  /\ b0.orders \in [0 .. MaxOrders -> Orders] /\ Counted(b0, m.book, m.fills)
  /\ Stuck(m) \/ LessIsNone(b0, m.book)

\* The two sides.
LEMMA SidesAreTwo ==
  ASSUME NEW side \in Sides
  PROVE  Other(side) \in Sides /\ Other(side) # side /\ Sides = {side, Other(side)}
BY DEF Sides, Other

\* No order of the other side is the taker's own.
LEMMA NoOwnOrders ==
  ASSUME OneSided, NEW t \in Traders, NEW side \in SidesOf[t], NEW orders, NEW nextId, NEW X,
         OrdersGood(orders, nextId, X), NEW id \in Ids, orders[id].trader # NULL,
         orders[id].side = Other(side)
  PROVE  orders[id].trader # t
<1>1. SidesOf[t] \subseteq Sides /\ side \in Sides
  BY BookAssumption DEF Sides
<1>2. Sides = {side, Other(side)}
  BY <1>1, SidesAreTwo
<1>3. NoOrder.trader = NULL
  BY DEF NoOrder
<1>4. orders[id].side \in SidesOf[orders[id].trader]
  BY <1>3, BookConstants DEF OrdersGood
<1>5. ASSUME orders[id].trader = t PROVE FALSE
  <2>1. SidesOf[t] = Sides
    BY <1>1, <1>2, <1>4, <1>5
  <2>. QED  BY <2>1 DEF OneSided
<1>. QED  BY <1>5

\* The best prices after a level was left.
LEMMA BestsAfter ==
  ASSUME NEW b, NEW c, NEW d, NEW maker \in Sides, NEW v, PricesGood(b, {}), PricesGood(c, {}),
         BestsAre(b, {}), c.best = b.best, c.best \in [Sides -> Prices0],
         \A side \in Sides \ {maker} : Live(c, side) = Live(b, side),
         BestSet(c, d, maker, v), v = c.head[maker]
  PROVE  BestsAre(d, {})
<1>1. ASSUME NEW side \in Sides PROVE d.best[side] = d.head[side]
  <2>1. d.best[side] = (IF side = maker THEN v ELSE c.best[side]) /\ d.head = c.head
    BY DEF BestSet
  <2>2. CASE side = maker
    BY <2>1, <2>2
  <2>3. CASE side # maker
    <3>1. c.best[side] = b.head[side]
      BY DEF BestsAre, BestIs
    <3>2. IsHead(b, side, b.head[side]) /\ IsHead(c, side, c.head[side])
      BY HeadIsFirst
    <3>3. Live(c, side) = Live(b, side)
      BY <2>3
    <3>4. b.head[side] = c.head[side]
      BY <3>2, <3>3, HeadIsUnique
    <3>. QED  BY <2>1, <2>3, <3>1, <3>4
  <2>. QED  BY <2>2, <2>3
<1>. QED  BY <1>1 DEF BestsAre, BestIs

\* The count goes on at the next level.
LEMMA MeetingCounts ==
  ASSUME NEW b0, NEW m, NEW maker, NEW E, Matched(b0, m, maker, E), NEW x, NEW U, MetSo(m, x, E, U)
  PROVE  /\ Counted(b0, x.book, x.fills)
         /\ Stuck(x) \/ LessIsNone(b0, x.book)
<1>. DEFINE b == m.book
            c == x.book
            j == m.fills
            k == x.fills - m.fills
<1>1. /\ b0.orders \in [0 .. MaxOrders -> Orders] /\ Sound(b, {}, E, {}) /\ Sound(c, {}, E, {})
      /\ Counted(b0, b, j) /\ (Stuck(m) \/ LessIsNone(b0, b))
  BY DEF Matched, MetSo
<1>2. CASE Stuck(m)
  BY <1>1, <1>2 DEF MetSo
<1>3. CASE ~Stuck(m)
  <2>1. /\ b.orders \in [0 .. MaxOrders -> Orders] /\ c.orders \in [0 .. MaxOrders -> Orders]
        /\ OrdersGood(b.orders, b.nextId, {})
    BY <1>1 DEF Sound, OrdersGood
  <2>2. j \in Nat /\ k \in Nat /\ j + k = x.fills
    <3>1. j \in Nat /\ x.fills \in Nat /\ m.fills <= x.fills
      BY DEF Matched, MetSo, Meeting
    <3>. QED  BY <3>1
  <2>3. Counted(b, c, k) /\ Thins(b, c, U) /\ (Stuck(x) \/ \A id \in U : c.orders[id].trader = NULL)
    BY DEF MetSo
  <2>. HIDE DEF b, c, j, k
  <2>4. LessIsNone(b0, b)
    BY <1>1, <1>3
  <2>5. ASSUME NEW id \in Lessened(b0.orders, b.orders) PROVE id \notin Lessened(b.orders, c.orders)
    <3>1. id \in Ids /\ b.orders[id].trader = NULL
      BY <2>4 DEF Lessened, LessIsNone
    <3>2. b.orders[id].amount = 0
      BY <2>1, <3>1, GoneIsNothing
    <3>3. c.orders[id].amount \in Nat
      BY <2>1, <3>1, BookConstants DEF Orders
    <3>. QED  BY <3>2, <3>3 DEF Lessened
  <2>6. /\ Counted(b0, c, j + k)
        /\ \A id \in Lessened(b0.orders, c.orders) :
             id \in Lessened(b0.orders, b.orders) \/ id \in Lessened(b.orders, c.orders)
    <3>1. j \in Nat /\ k \in Nat
      BY <2>2
    <3>2. Counted(b0, b, j) /\ Counted(b, c, k) /\ b0.orders \in [0 .. MaxOrders -> Orders]
      BY <1>1, <2>3
    <3>. QED  BY <2>1, <2>5, <3>1, <3>2, CountedTwice
  <2>7. ASSUME ~Stuck(x), NEW id \in Lessened(b0.orders, c.orders) PROVE c.orders[id].trader = NULL
    <3>1. CASE id \in Lessened(b0.orders, b.orders)
      <4>1. id \in 0 .. MaxOrders /\ b.orders[id].trader = NULL
        BY <2>4, <3>1, BookConstants DEF Lessened, LessIsNone
      <4>. QED  BY <2>3, <4>1 DEF Thins, SamePlace
    <3>2. CASE id \in Lessened(b.orders, c.orders)
      <4>1. id \in U
        BY <2>1, <2>3, <3>2, LessenedAreMet
      <4>. QED  BY <2>3, <2>7, <4>1
    <3>. QED  BY <2>6, <2>7, <3>1, <3>2
  <2>8. Stuck(x) \/ LessIsNone(b0, c)
    BY <2>7 DEF LessIsNone
  <2>9. Counted(b0, c, x.fills)
    BY <2>2, <2>6
  <2>. QED  BY <2>8, <2>9 DEF c
<1>. QED  BY <1>2, <1>3

\* The level has gone, unless the matching is stuck.
Advanced(m, r, maker) ==
  Stuck(r) \/ (~Stuck(m) /\ Live(r.book, maker) = Live(m.book, maker) \ {m.price})

\* A turn at a live level: its orders are met, and the matching leaves it for n.
LevelTurn(m, t, maker, chain, met, n, r) ==
  /\ chain = Chain(m.book, m.book.levels[maker][m.price].first)
  /\ met = MeetAll(m, chain, t)
  /\ n = NextLevel(m.book, met.book, maker, m.price)
  /\ r = LeaveLevel(met, maker, n)

\* The level is left when all its orders were met.
LEMMA VisitingLive ==
  ASSUME OneSided, NEW t \in Traders, NEW side \in SidesOf[t], NEW b0, NEW E, NEW m,
         Matched(b0, m, Other(side), E), m.price # 0, NEW chain, NEW met, NEW n, NEW r,
         LevelTurn(m, t, Other(side), chain, met, n, r)
  PROVE  Matched(b0, r, Other(side), E) /\ Advanced(m, r, Other(side))
<1>. DEFINE maker == Other(side)
            b == m.book
            c == met.book
            p == m.price
            U == OrdersAt(b.orders, maker, p)
<1>1. side \in Sides /\ maker \in Sides
  <2>1. side \in Sides
    BY BookAssumption DEF Sides
  <2>. QED  BY <2>1, SidesAreTwo
<1>2. /\ m \in Meeting /\ Sound(b, {}, E, {}) /\ BestsAre(b, {}) /\ Thins(b0, b, Ids)
      /\ p \in Live(b, maker) /\ p \in Prices
      /\ Stuck(m) \/ p = b.head[maker]
  BY DEF Matched, Live
<1>3. /\ OrdersGood(b.orders, b.nextId, {}) /\ LevelsGood(b.orders, b.levels) /\ PricesGood(b, {})
      /\ b.best \in [Sides -> Prices0]
  BY <1>2 DEF Sound
<1>4. PICK s : QueueIs(b.orders, maker, p, s) /\ b.levels[maker][p] = LevelOf(b.orders, s)
  BY <1>1, <1>2, <1>3 DEF LevelsGood, LevelGood
<1>5. chain = s
  <2>1. LevelOf(b.orders, s).first = FirstOf(s)
    BY DEF LevelOf, FirstOf, NoLevel
  <2>2. Chain(b, FirstOf(s)) = s
    BY <1>3, <1>4, ChainIsQueue
  <2>. QED  BY <1>4, <2>1, <2>2 DEF LevelTurn
<1>6. MetSo(m, met, E, U)
  <2>1. /\ s \in Seq(Ids) /\ \A i, j \in 1 .. Len(s) : s[i] = s[j] => i = j
    BY <1>4 DEF QueueIs, LinkedAs
  <2>2. Range(s) = U
    BY <1>4 DEF QueueIs, OrdersAt
  <2>3. \A i \in 1 .. Len(s) : s[i] \in U
    <3>1. \A i \in 1 .. Len(s) : s[i] \in Range(s)
      BY <1>3, <1>4, QueueFacts DEF OrdersGood
    <3>. QED  BY <2>2, <3>1
  <2>4. \A id \in U : id \in Ids /\ b.orders[id].trader # NULL /\ b.orders[id].trader # t
    BY <1>3, NoOwnOrders DEF Belongs, OrdersAt
  <2>5. \A i \in 1 .. Len(s) : b.orders[s[i]].trader # NULL /\ b.orders[s[i]].trader # t
    BY <2>3, <2>4
  <2>6. MetSo(m, MeetAll(m, s, t), E, Range(s))
    <3>. HIDE DEF U
    <3>. QED  BY <1>2, <2>1, <2>5, MeetingAll
  <2>. QED  BY <1>5, <2>2, <2>6 DEF LevelTurn
<1>. HIDE DEF U
<1>7. /\ met \in Meeting /\ met.price = p /\ Sound(c, {}, E, {}) /\ c.best = b.best
      /\ Thins(b, c, U)
      /\ Stuck(met) \/ \A id \in U : c.orders[id].trader = NULL
  BY <1>6 DEF MetSo
<1>8. Stuck(m) => met = m
  BY <1>6 DEF MetSo
<1>9. /\ OrdersGood(c.orders, c.nextId, {}) /\ LevelsGood(c.orders, c.levels) /\ PricesGood(c, {})
      /\ c.best \in [Sides -> Prices0]
  BY <1>7 DEF Sound
<1>10. LiveButFor(b, c, maker, p)
  <2>1. /\ maker \in Sides /\ p \in Prices
        /\ OrdersGood(b.orders, b.nextId, {}) /\ LevelsGood(b.orders, b.levels)
        /\ OrdersGood(c.orders, c.nextId, {}) /\ LevelsGood(c.orders, c.levels)
        /\ Thins(b, c, OrdersAt(b.orders, maker, p))
    BY <1>1, <1>2, <1>3, <1>7, <1>9 DEF U
  <2>. HIDE DEF b, c, p, maker
  <2>. QED  BY <2>1, LiveAfter
<1>11. /\ \A x \in Sides \ {maker} : Live(c, x) = Live(b, x)
       /\ Live(c, maker) = Live(b, maker) \/ Live(c, maker) = Live(b, maker) \ {p}
       /\ (\A id \in U : c.orders[id].trader = NULL) => p \notin Live(c, maker)
  BY <1>10 DEF LiveButFor, U
<1>12. n = b.next[maker][p] /\ IsAfter(b, maker, p, n) /\ n \in Prices0
  <2>1. NextLevel(b, c, maker, p) = b.next[maker][p]
    <3>1. Live(c, maker) \subseteq Live(b, maker)
      BY <1>11
    <3>2. LeadsTo(b, maker, p, NextLevel(b, c, maker, p))
      <4>. HIDE DEF b, c, p, maker
      <4>. QED  BY <1>1, <1>2, <1>3, <1>9, <3>1, NextLevelIsNext
    <3>. QED  BY <3>2 DEF LeadsTo
  <2>2. IsAfter(b, maker, p, b.next[maker][p])
    BY <1>1, <1>2, <1>3, NextIsAfter
  <2>3. b.next[maker][p] \in Prices0
    BY <1>1, <1>2, <1>3 DEF PricesGood, Pointers
  <2>. QED  BY <2>1, <2>2, <2>3 DEF LevelTurn
<1>13. LeftSo(met, r, maker, n)
  BY <1>1, <1>7, <1>12, LeavingLevel DEF LevelTurn
<1>. DEFINE d == r.book
            v == BestLeft(met, maker, n)
<1>14. /\ r \in Meeting /\ r.price = n /\ r.left = met.left /\ r.fills = met.fills
       /\ BestSet(c, d, maker, v)
  BY <1>13 DEF LeftSo
<1>15. v \in Prices0
  BY <1>1, <1>9, <1>12 DEF BestLeft
<1>16. Sound(d, {}, E, {})
  BY <1>1, <1>7, <1>14, <1>15, BestSetIsSound
<1>17. /\ d.orders = c.orders /\ d.nextId = c.nextId /\ d.head = c.head
       /\ Live(d, maker) = Live(c, maker)
  BY <1>14 DEF BestSet, Live, LevelExists
<1>18. Thins(b0, d, Ids)
  <2>1. Thins(b0, c, Ids \cup U)
    <3>1. Thins(b0, b, Ids) /\ Thins(b, c, U)
      BY <1>2, <1>7
    <3>. HIDE DEF b, c
    <3>. QED  BY <3>1, ThinsTwice
  <2>2. Ids \cup U = Ids
    BY DEF U, OrdersAt
  <2>3. Thins(b0, c, Ids)
    BY <2>1, <2>2
  <2>. QED  BY <1>17, <2>3 DEF Thins
<1>19. /\ b0.orders \in [0 .. MaxOrders -> Orders] /\ Counted(b0, d, r.fills)
       /\ Stuck(r) \/ LessIsNone(b0, d)
  <2>1. Counted(b0, c, met.fills) /\ (Stuck(met) \/ LessIsNone(b0, c))
    BY <1>6, MeetingCounts
  <2>2. Stuck(r) <=> Stuck(met)
    BY <1>14 DEF Stuck
  <2>3. Counted(b0, d, met.fills)
    BY <1>17, <2>1 DEF Counted, Thins
  <2>4. LessIsNone(b0, c) => LessIsNone(b0, d)
    BY <1>17 DEF LessIsNone
  <2>5. b0.orders \in [0 .. MaxOrders -> Orders]
    BY DEF Matched
  <2>. QED  BY <1>14, <2>1, <2>2, <2>3, <2>4, <2>5
<1>20. p \in Live(c, maker) <=> LevelExists(c, maker, p)
  BY <1>2 DEF Live
<1>21. b.best[maker] = b.head[maker]
  BY <1>1, <1>2 DEF BestsAre, BestIs
<1>22. IsHead(b, maker, b.head[maker]) /\ IsHead(c, maker, c.head[maker])
  BY <1>1, <1>3, <1>9, HeadIsFirst
<1>23. CASE p \in Live(c, maker)
  <2>1. Live(c, maker) = Live(b, maker) /\ Stuck(met)
    BY <1>7, <1>11, <1>23
  <2>2. v = c.best[maker]
    BY <1>7, <1>20, <1>23 DEF BestLeft
  <2>3. v = c.head[maker]
    <3>1. b.head[maker] = c.head[maker]
      <4>. DEFINE h == b.head[maker]
                  k == c.head[maker]
      <4>1. maker \in Sides /\ Live(c, maker) = Live(b, maker)
            /\ IsHead(b, maker, h) /\ IsHead(c, maker, k)
        BY <1>1, <1>22, <2>1
      <4>. HIDE DEF b, c, maker, h, k
      <4>2. h = k
        BY <4>1, HeadIsUnique
      <4>. QED  BY <4>2 DEF h, k
    <3>. QED  BY <1>7, <1>21, <2>2, <3>1
  <2>4. BestsAre(d, {})
    BY <1>1, <1>2, <1>3, <1>7, <1>9, <1>11, <1>14, <2>3, BestsAfter
  <2>5. n = 0 \/ n \in Live(d, maker)
    BY <1>12, <1>17, <2>1 DEF IsAfter
  <2>6. Stuck(r)
    BY <1>14, <2>1 DEF Stuck
  <2>. QED  BY <1>14, <1>16, <1>18, <1>19, <2>4, <2>5, <2>6 DEF Matched, Advanced
<1>24. CASE p \notin Live(c, maker)
  <2>1. p = b.head[maker] /\ Live(c, maker) = Live(b, maker) \ {p}
    BY <1>2, <1>8, <1>11, <1>24
  <2>2. IsHead(c, maker, n)
    BY <1>1, <1>2, <1>12, <1>22, <2>1, NextIsHead
  <2>3. n = c.head[maker]
    <3>. DEFINE h == c.head[maker]
    <3>1. /\ maker \in Sides
          /\ IsHead(c, maker, n) /\ IsHead(c, maker, h)
      BY <1>1, <1>22, <2>2
    <3>. HIDE DEF b, c, maker, h
    <3>2. n = h
      BY <3>1, OneHead
    <3>. QED  BY <3>2 DEF h
  <2>4. v = n
    BY <1>7, <1>20, <1>21, <1>24, <2>1 DEF BestLeft
  <2>5. BestsAre(d, {})
    <3>1. v = c.head[maker]
      BY <2>3, <2>4
    <3>. HIDE DEF b, c, d, v, maker
    <3>. QED  BY <1>1, <1>2, <1>3, <1>7, <1>9, <1>11, <1>14, <3>1, BestsAfter
  <2>6. n = 0 \/ n \in Live(d, maker)
    BY <1>17, <2>2 DEF IsHead
  <2>7. Matched(b0, r, maker, E)
    BY <1>14, <1>16, <1>17, <1>18, <1>19, <2>3, <2>5, <2>6 DEF Matched
  <2>8. Stuck(m) => Stuck(r)
    BY <1>8, <1>14 DEF Stuck
  <2>9. Live(d, maker) = Live(b, maker) \ {p}
    BY <1>17, <2>1
  <2>. QED  BY <2>7, <2>8, <2>9 DEF Advanced
<1>. QED  BY <1>23, <1>24

\* The matching is over.
Done(m, side, limit) == Stuck(m) \/ m.price = 0 \/ ~Accepts(side, limit, m.price)

\* Until then every turn takes away a live level.
Proceeds(m, r, side, limit) ==
  \/ Done(r, side, limit)
  \/ /\ ~Done(m, side, limit) /\ m.price \in Live(m.book, Other(side))
     /\ Live(r.book, Other(side)) = Live(m.book, Other(side)) \ {m.price}

\* One turn of the outer loop.
LEMMA Visiting ==
  ASSUME OneSided, NEW t \in Traders, NEW side \in SidesOf[t], NEW b0, NEW E, NEW m,
         Matched(b0, m, Other(side), E), NEW limit
  PROVE  /\ Matched(b0, VisitLevel(m, t, side, limit), Other(side), E)
         /\ Proceeds(m, VisitLevel(m, t, side, limit), side, limit)
<1>. DEFINE maker == Other(side)
            chain == Chain(m.book, m.book.levels[maker][m.price].first)
            met == MeetAll(m, chain, t)
            n == NextLevel(m.book, met.book, maker, m.price)
            r == LeaveLevel(met, maker, n)
<1>1. CASE m.left = 0 \/ m.price = 0 \/ ~Accepts(side, limit, m.price)
  <2>1. VisitLevel(m, t, side, limit) = m
    BY <1>1 DEF VisitLevel
  <2>2. Done(m, side, limit)
    BY <1>1 DEF Done, Stuck
  <2>. QED  BY <2>1, <2>2 DEF Proceeds
<1>2. CASE ~(m.left = 0 \/ m.price = 0 \/ ~Accepts(side, limit, m.price))
  <2>1. LevelExists(m.book, maker, m.price) /\ m.price \in Live(m.book, maker)
    BY <1>2 DEF Matched, Live
  <2>2. VisitLevel(m, t, side, limit) = r
    BY <1>2, <2>1 DEF VisitLevel
  <2>3. LevelTurn(m, t, maker, chain, met, n, r)
    BY DEF LevelTurn
  <2>4. Matched(b0, r, maker, E) /\ Advanced(m, r, maker)
    <3>. HIDE DEF chain, met, n, r
    <3>. QED  BY <1>2, <2>3, VisitingLive
  <2>. HIDE DEF r
  <2>5. Proceeds(m, r, side, limit)
    BY <1>2, <2>1, <2>4 DEF Proceeds, Advanced, Done
  <2>. QED  BY <2>2, <2>4, <2>5
<1>. QED  BY <1>1, <1>2

\* The best prices of an open market need no refreshing.
LEMMA RefreshingNothing ==
  ASSUME NEW b, BestsAre(b, {}), NEW side \in Sides
  PROVE  Refresh(b, side) = b
BY DEF Refresh, BestsAre, BestIs

\* The matching is over, or no more than k levels are left to visit.
WithinTurns(m, side, limit, k) ==
  Done(m, side, limit) \/ Cardinality(Live(m.book, Other(side))) <= k

\* Each turn is one fewer.
LEMMA TurnsPass ==
  ASSUME NEW m, NEW r, NEW side, NEW limit, NEW k \in Int,
         Proceeds(m, r, side, limit), WithinTurns(m, side, limit, k)
  PROVE  WithinTurns(r, side, limit, k - 1)
<1>. DEFINE L == Live(m.book, Other(side))
<1>1. CASE Done(r, side, limit)
  BY <1>1 DEF WithinTurns
<1>2. CASE ~Done(r, side, limit)
  <2>1. m.price \in L /\ Live(r.book, Other(side)) = L \ {m.price} /\ Cardinality(L) <= k
    BY <1>2 DEF Proceeds, WithinTurns
  <2>2. IsFiniteSet(L)
    BY FS_Subset, BookAssumption DEF Live
  <2>. HIDE DEF L
  <2>3. Cardinality(L \ {m.price}) = Cardinality(L) - 1 /\ Cardinality(L) \in Nat
    BY <2>1, <2>2, FS_RemoveElement, FS_CardinalityType
  <2>. QED  BY <2>1, <2>3 DEF WithinTurns
<1>. QED  BY <1>1, <1>2

\* T holds the state in which a matching begins, and what any turn of the outer
\* loop makes of a state of T.
VisitsInside(b, E, t, side, limit, amount, T) ==
  /\ [book |-> b, price |-> b.best[Other(side)], left |-> amount, fills |-> 0] \in T
  /\ \A x \in T : Matched(b, x, Other(side), E) => VisitLevel(x, t, side, limit) \in T

\* The matching of an order, which is on one side, with those of the other, and
\* whatever else holds throughout.
LEMMA MatchingInside ==
  ASSUME OneSided, NEW t \in Traders, NEW side \in SidesOf[t], NEW b, NEW E,
         Sound(b, {}, E, {}), BestsAre(b, {}), NEW amount \in Nat, NEW limit,
         NEW T, VisitsInside(b, E, t, side, limit, amount, T)
  PROVE  /\ Matched(b, Match(b, t, side, limit, amount), Other(side), E)
         /\ Done(Match(b, t, side, limit, amount), side, limit)
         /\ Match(b, t, side, limit, amount) \in T
<1>. DEFINE maker == Other(side)
            start == [book |-> b, price |-> b.best[maker], left |-> amount, fills |-> 0]
<1>1. side \in Sides /\ maker \in Sides
  <2>1. side \in Sides
    BY BookAssumption DEF Sides
  <2>. QED  BY <2>1, SidesAreTwo
<1>2. Refresh(b, maker) = b
  BY <1>1, RefreshingNothing
<1>3. Matched(b, start, maker, E)
  <2>1. /\ b \in Storage /\ b.best \in [Sides -> Prices0] /\ PricesGood(b, {})
    BY SoundIsStored DEF Sound
  <2>2. start \in Meeting
    BY <1>1, <2>1 DEF Meeting
  <2>3. b.best[maker] = b.head[maker]
    BY <1>1 DEF BestsAre, BestIs
  <2>4. b.head[maker] = 0 \/ b.head[maker] \in Live(b, maker)
    BY <1>1, <2>1, HeadIsFirst DEF IsHead
  <2>5. start.book = b /\ start.price = b.head[maker]
    BY <2>3
  <2>6. Thins(b, b, Ids)
    BY ThinsNothing
  <2>7. /\ b.orders \in [0 .. MaxOrders -> Orders] /\ Counted(b, b, start.fills)
        /\ LessIsNone(b, b)
    <3>1. b.orders \in [0 .. MaxOrders -> Orders]
      BY DEF Sound, OrdersGood
    <3>2. Lessened(b.orders, b.orders) = {} /\ Counted(b, b, 0)
      BY <3>1, CountedNothing
    <3>3. start.fills = 0
      OBVIOUS
    <3>. QED  BY <3>1, <3>2, <3>3 DEF LessIsNone
  <2>. HIDE DEF start, maker
  <2>. QED  BY <2>2, <2>4, <2>5, <2>6, <2>7 DEF Matched
<1>4. start \in T
  BY DEF VisitsInside
<1>. HIDE DEF start
<1>. DEFINE n == 2 * Cardinality(Prices)
            Turn(x, k) == VisitLevel(x, t, side, limit)
            Loop(f) == f = [k \in 0 .. n |-> IF k = 0 THEN start ELSE Turn(f[k - 1], k)]
            loop == CHOOSE f : Loop(f)
            S == [k \in 0 .. n |-> {x \in Meeting \cap T :
                                     /\ Matched(b, x, maker, E)
                                     /\ WithinTurns(x, side, limit, n - k)}]
            G == [k \in 1 .. n |-> [x \in S[k - 1] |-> Turn(x, k)]]
<1>5. Match(b, t, side, limit, amount) = loop[n]
  BY <1>2, Zenon DEF Match, start, maker
<1>6. /\ n \in Nat /\ start \in S[0]
      /\ \A k \in 1 .. n : \A x \in S[k - 1] : Turn(x, k) \in S[k]
  <2>1. n \in Nat /\ Cardinality(Prices) \in Nat
    BY FS_CardinalityType, BookAssumption
  <2>2. start \in S[0]
    <3>1. Cardinality(Live(start.book, maker)) <= n
      <4>1. Live(start.book, maker) \subseteq Prices
        BY DEF Live
      <4>2. /\ Cardinality(Live(start.book, maker)) <= Cardinality(Prices)
            /\ Cardinality(Live(start.book, maker)) \in Nat
        BY <4>1, FS_Subset, FS_CardinalityType, BookAssumption
      <4>. QED  BY <2>1, <4>2
    <3>2. WithinTurns(start, side, limit, n - 0)
      BY <2>1, <3>1 DEF WithinTurns
    <3>3. start \in Meeting
      BY <1>3 DEF Matched
    <3>. HIDE DEF n, maker
    <3>. QED  BY <1>3, <1>4, <2>1, <3>2, <3>3
  <2>3. ASSUME NEW k \in 1 .. n, NEW x \in S[k - 1] PROVE Turn(x, k) \in S[k]
    <3>1. k - 1 \in 0 .. n /\ k \in 0 .. n
      BY <2>1
    <3>2. Matched(b, x, maker, E) /\ WithinTurns(x, side, limit, n - (k - 1))
      BY <3>1
    <3>3. Matched(b, Turn(x, k), maker, E) /\ Proceeds(x, Turn(x, k), side, limit)
      BY <3>2, Visiting
    <3>4. Turn(x, k) \in Meeting
      <4>. HIDE DEF Turn
      <4>. QED  BY <3>3 DEF Matched
    <3>5. Turn(x, k) \in T
      <4>1. x \in T
        BY <3>1
      <4>. QED  BY <3>2, <4>1 DEF VisitsInside
    <3>. DEFINE j == n - (k - 1)
    <3>6. j \in Int /\ j - 1 = n - k
      BY <2>1
    <3>7. WithinTurns(x, side, limit, j)
      BY <3>2
    <3>. HIDE DEF Turn, n, j
    <3>8. WithinTurns(Turn(x, k), side, limit, j - 1)
      BY <3>3, <3>6, <3>7, TurnsPass
    <3>9. WithinTurns(Turn(x, k), side, limit, n - k)
      BY <3>6, <3>8
    <3>. QED  BY <3>1, <3>3, <3>4, <3>5, <3>9
  <2>. QED  BY <2>1, <2>2, <2>3
<1>. HIDE DEF Turn, S, n
<1>7. LeadsOn(S, n, G)
  BY <1>6 DEF LeadsOn
<1>8. PICK f : Runs(f, S, start, n, G)
  <2>. HIDE DEF G
  <2>. QED  BY <1>6, <1>7, RunExists
<1>9. Loop(f)
  <2>1. \A k \in 1 .. n : f[k] = Turn(f[k - 1], k)
    <3>1. \A k \in 1 .. n : k - 1 \in 0 .. n
      BY <1>6
    <3>. QED  BY <1>8, <3>1 DEF Runs
  <2>2. f = [k \in 0 .. n |-> f[k]] /\ f[0] = start
    BY <1>8 DEF Runs
  <2>3. \A k \in 0 .. n : k = 0 \/ k \in 1 .. n
    BY <1>6
  <2>4. \A k \in 0 .. n : f[k] = IF k = 0 THEN start ELSE Turn(f[k - 1], k)
    BY <2>1, <2>2, <2>3, Zenon
  <2>. QED  BY <2>2, <2>4
<1>10. Loop(loop)
  <2>. HIDE DEF Loop
  <2>. QED  BY <1>9, Zenon
<1>. HIDE DEF loop
<1>11. loop[0] = start /\ \A k \in 1 .. n : loop[k] = Turn(loop[k - 1], k)
  BY <1>6, <1>10
<1>12. \A k \in 0 .. n : loop[k] \in S[k]
  <2>1. loop[0] \in S[0] /\ \A k \in 1 .. n : loop[k - 1] \in S[k - 1] => loop[k] \in S[k]
    BY <1>6, <1>11
  <2>. QED  BY <1>6, <2>1, TurnByTurn
<1>13. loop[n] \in S[n]
  BY <1>6, <1>12
<1>14. /\ Matched(b, loop[n], maker, E) /\ WithinTurns(loop[n], side, limit, n - n)
       /\ loop[n] \in T
  BY <1>6, <1>13 DEF S
<1>15. Done(loop[n], side, limit)
  <2>. DEFINE m == loop[n]
              L == Live(m.book, maker)
  <2>1. CASE Cardinality(L) <= 0
    <3>1. IsFiniteSet(L)
      BY FS_Subset, BookAssumption DEF Live
    <3>. HIDE DEF L
    <3>2. L = {}
      BY <2>1, <3>1, FS_CardinalityType, FS_EmptySet
    <3>3. m.price = 0
      BY <1>14, <3>2 DEF Matched, L
    <3>. QED  BY <3>3 DEF Done
  <2>2. n - n = 0
    BY <1>6
  <2>. QED  BY <1>14, <2>1, <2>2 DEF WithinTurns
<1>. QED  BY <1>5, <1>14, <1>15

\* The matching of an order, which is on one side, with those of the other.
LEMMA Matching ==
  ASSUME OneSided, NEW t \in Traders, NEW side \in SidesOf[t], NEW b, NEW E,
         Sound(b, {}, E, {}), BestsAre(b, {}), NEW amount \in Nat, NEW limit
  PROVE  /\ Matched(b, Match(b, t, side, limit, amount), Other(side), E)
         /\ Done(Match(b, t, side, limit, amount), side, limit)
<1>. DEFINE start == [book |-> b, price |-> b.best[Other(side)], left |-> amount, fills |-> 0]
<1>1. \A x : Matched(b, x, Other(side), E)
               => Matched(b, VisitLevel(x, t, side, limit), Other(side), E)
  BY Visiting
<1>2. VisitsInside(b, E, t, side, limit, amount, Meeting \cup {start})
  BY <1>1, Zenon DEF VisitsInside, Matched
<1>. QED  BY <1>2, MatchingInside

----------------------------------------------------------------------------
(* A new price. *)

\* p belongs behind the first k prices of s.
PlaceOf(side, s, p, k) ==
  /\ k \in 0 .. Len(s)
  /\ \A j \in 1 .. Len(s) : IF j <= k THEN Ahead(side, s[j], p) ELSE Ahead(side, p, s[j])

\* Each new price has a place among those of a list.
LEMMA PlaceExists ==
  ASSUME NEW side \in Sides, NEW s \in Seq(Prices), InOrder(side, s), NEW p \in Prices \ Range(s)
  PROVE  \E k : PlaceOf(side, s, p, k)
<1>. DEFINE Is(j, k) == IF j <= k THEN Ahead(side, s[j], p) ELSE Ahead(side, p, s[j])
            T == {m \in Nat : m <= Len(s) => \E k \in 0 .. m : \A j \in 1 .. m : Is(j, k)}
<1>1. /\ Len(s) \in Nat /\ \A j \in 1 .. Len(s) : s[j] \in Prices /\ s[j] # p
      /\ \A i, j \in 1 .. Len(s) : i < j => Ahead(side, s[i], s[j])
  BY DEF Range, InOrder
<1>2. 0 \in T
  OBVIOUS
<1>3. ASSUME NEW m \in Nat, m \in T PROVE m + 1 \in T
  <2>1. SUFFICES ASSUME m + 1 <= Len(s) PROVE \E k \in 0 .. m + 1 : \A j \in 1 .. m + 1 : Is(j, k)
    OBVIOUS
  <2>2. PICK k \in 0 .. m : \A j \in 1 .. m : Is(j, k)
    BY <1>1, <1>3, <2>1
  <2>3. /\ m + 1 \in 1 .. Len(s) /\ \A j \in 1 .. m : j \in 1 .. Len(s) /\ j < m + 1
        /\ \A j \in 1 .. m + 1 : j \in 1 .. m \/ j = m + 1
        /\ k \in 0 .. m + 1 /\ ~(m + 1 <= k) /\ m + 1 \in 0 .. m + 1
        /\ \A j \in 1 .. m + 1 : j <= m + 1
    BY <1>1, <2>1
  <2>4. s[m + 1] \in Prices /\ (Ahead(side, s[m + 1], p) \/ Ahead(side, p, s[m + 1]))
    BY <1>1, <2>3, AheadIsOrder
  <2>5. CASE Ahead(side, p, s[m + 1])
    <3>1. \A j \in 1 .. m + 1 : Is(j, k)
      <4>1. Is(m + 1, k)
        BY <2>3, <2>5
      <4>. HIDE DEF Is
      <4>. QED  BY <2>2, <2>3, <4>1
    <3>. HIDE DEF Is
    <3>. QED  BY <2>3, <3>1
  <2>6. CASE Ahead(side, s[m + 1], p)
    <3>1. ASSUME NEW j \in 1 .. m PROVE Ahead(side, s[j], p)
      <4>1. Ahead(side, s[j], s[m + 1]) /\ s[j] \in Prices
        BY <1>1, <2>3
      <4>. QED  BY <2>4, <2>6, <4>1, AheadIsOrder
    <3>2. \A j \in 1 .. m + 1 : Ahead(side, s[j], p)
      <4>. HIDE DEF Ahead
      <4>. QED  BY <2>3, <2>6, <3>1
    <3>3. \A j \in 1 .. m + 1 : Is(j, m + 1)
      <4>. HIDE DEF Ahead
      <4>. QED  BY <2>3, <3>2
    <3>. HIDE DEF Is
    <3>. QED  BY <2>3, <3>3
  <2>. QED  BY <2>4, <2>5, <2>6
<1>4. \A m \in Nat : m \in T
  <2>. HIDE DEF T
  <2>. QED  BY <1>2, <1>3, SetInduction
<1>5. PICK k \in 0 .. Len(s) : \A j \in 1 .. Len(s) : Is(j, k)
  <2>1. Len(s) \in T /\ Len(s) <= Len(s)
    <3>. HIDE DEF T
    <3>. QED  BY <1>1, <1>4
  <2>. HIDE DEF Is
  <2>. QED  BY <2>1
<1>. QED  BY <1>5 DEF PlaceOf

\* The search for the price to insert p after.
Searches(f, side, next, p) ==
  f = [q \in Prices |-> IF next[q] = 0 \/ ~Ahead(side, next[q], p) THEN q ELSE f[next[q]]]

\* The list with p at its place is sorted.
LEMMA InsertedInOrder ==
  ASSUME NEW side \in Sides, NEW s \in Seq(Prices), InOrder(side, s), NEW p \in Prices,
         NEW k, PlaceOf(side, s, p, k)
  PROVE  InOrder(side, Inserted(s, k, p))
<1>. DEFINE r == Inserted(s, k, p)
<1>1. /\ k \in 0 .. Len(s) /\ Len(s) \in Nat
      /\ \A j \in 1 .. Len(s) : j <= k => Ahead(side, s[j], p)
      /\ \A j \in 1 .. Len(s) : ~(j <= k) => Ahead(side, p, s[j])
      /\ \A i, j \in 1 .. Len(s) : i < j => Ahead(side, s[i], s[j])
  BY DEF PlaceOf, InOrder
<1>2. /\ Len(r) = Len(s) + 1
      /\ \A j \in 1 .. Len(s) + 1 :
           r[j] = IF j <= k THEN s[j] ELSE IF j = k + 1 THEN p ELSE s[j - 1]
  BY <1>1, InsertedIsSeq
<1>. HIDE DEF r
<1>3. ASSUME NEW i \in 1 .. Len(s) + 1, NEW j \in 1 .. Len(s) + 1, i < j
      PROVE  Ahead(side, r[i], r[j])
  <2>. HIDE DEF Ahead
  <2>1. CASE j <= k
    <3>1. i \in 1 .. Len(s) /\ j \in 1 .. Len(s) /\ i <= k
      BY <1>1, <1>3, <2>1
    <3>. QED  BY <1>1, <1>2, <1>3, <2>1, <3>1
  <2>2. CASE j = k + 1
    <3>1. i \in 1 .. Len(s) /\ i <= k /\ ~(j <= k)
      BY <1>1, <1>3, <2>2
    <3>. QED  BY <1>1, <1>2, <2>2, <3>1
  <2>3. CASE k + 1 < j
    <3>1. j - 1 \in 1 .. Len(s) /\ ~(j <= k) /\ j # k + 1 /\ ~(j - 1 <= k)
      BY <1>1, <1>3, <2>3
    <3>2. r[j] = s[j - 1]
      BY <1>2, <3>1
    <3>3. CASE i <= k
      <4>1. i \in 1 .. Len(s) /\ i < j - 1 /\ r[i] = s[i]
        BY <1>1, <1>2, <1>3, <2>3, <3>3
      <4>. QED  BY <1>1, <3>1, <3>2, <4>1
    <3>4. CASE i = k + 1
      <4>1. r[i] = p
        BY <1>1, <1>2, <3>4
      <4>. QED  BY <1>1, <3>1, <3>2, <4>1
    <3>5. CASE k + 1 < i
      <4>1. i - 1 \in 1 .. Len(s) /\ i - 1 < j - 1 /\ r[i] = s[i - 1]
        BY <1>1, <1>2, <1>3, <3>5
      <4>. QED  BY <1>1, <3>1, <3>2, <4>1
    <3>. QED  BY <1>1, <3>3, <3>4, <3>5
  <2>. QED  BY <1>1, <2>1, <2>2, <2>3
<1>. QED  BY <1>2, <1>3 DEF InOrder, r

\* The search ends at the place of p.
LEMMA SearchEnds ==
  ASSUME NEW side \in Sides, NEW s \in Seq(Prices), NEW p \in Prices, NEW k, PlaceOf(side, s, p, k),
         k # 0, NEW next, \A i \in 1 .. Len(s) : next[s[i]] = NextIn(s, i),
         NEW f, Searches(f, side, next, p)
  PROVE  f[s[1]] = s[k]
<1>. DEFINE T == {m \in Nat : m < k => f[s[k - m]] = s[k]}
<1>1. /\ k \in 1 .. Len(s) /\ Len(s) \in Nat
      /\ \A j \in 1 .. Len(s) : j <= k => Ahead(side, s[j], p)
      /\ \A j \in 1 .. Len(s) : ~(j <= k) => Ahead(side, p, s[j])
      /\ \A j \in 1 .. Len(s) : s[j] \in Prices
  BY DEF PlaceOf
<1>2. \A q \in Prices : f[q] = IF next[q] = 0 \/ ~Ahead(side, next[q], p) THEN q ELSE f[next[q]]
  <2>. HIDE DEF Ahead
  <2>. QED  BY DEF Searches
<1>3. \A q \in Prices : q # 0
  BY BookConstants
<1>4. 0 \in T
  <2>1. NextIn(s, k) = 0 \/ ~Ahead(side, NextIn(s, k), p)
    <3>1. CASE k = Len(s)
      BY <3>1 DEF NextIn
    <3>2. CASE k # Len(s)
      <4>1. k + 1 \in 1 .. Len(s) /\ ~(k + 1 <= k) /\ NextIn(s, k) = s[k + 1]
        BY <1>1, <3>2 DEF NextIn
      <4>2. Ahead(side, p, s[k + 1]) /\ s[k + 1] \in Prices
        BY <1>1, <4>1
      <4>. QED  BY <4>1, <4>2, AheadIsOrder
    <3>. QED  BY <3>1, <3>2
  <2>2. s[k] \in Prices /\ next[s[k]] = NextIn(s, k)
    BY <1>1
  <2>3. f[s[k]] = s[k]
    <3>. HIDE DEF Ahead
    <3>. QED  BY <1>2, <2>1, <2>2
  <2>4. k - 0 = k
    BY <1>1
  <2>. QED  BY <2>3, <2>4
<1>5. ASSUME NEW m \in Nat, m \in T PROVE m + 1 \in T
  <2>1. SUFFICES ASSUME m + 1 < k PROVE f[s[k - (m + 1)]] = s[k]
    OBVIOUS
  <2>. DEFINE j == k - (m + 1)
  <2>2. /\ j \in 1 .. Len(s) /\ j + 1 \in 1 .. Len(s) /\ j + 1 <= k /\ j # Len(s)
        /\ j + 1 = k - m /\ m < k
    BY <1>1, <2>1
  <2>. HIDE DEF j
  <2>3. f[s[j + 1]] = s[k]
    BY <1>5, <2>2
  <2>4. next[s[j]] = s[j + 1] /\ s[j] \in Prices /\ s[j + 1] # 0 /\ Ahead(side, s[j + 1], p)
    BY <1>1, <1>3, <2>2 DEF NextIn
  <2>5. f[s[j]] = s[k]
    <3>. HIDE DEF Ahead
    <3>. QED  BY <1>2, <2>3, <2>4
  <2>. QED  BY <2>5 DEF j
<1>6. \A m \in Nat : m \in T
  <2>. HIDE DEF T
  <2>. QED  BY <1>4, <1>5, SetInduction
<1>7. k - 1 \in Nat /\ k - 1 < k /\ k - (k - 1) = 1
  BY <1>1
<1>. QED  BY <1>6, <1>7

\* The search exists: it never goes in a circle.
LEMMA SearchExists ==
  ASSUME NEW side \in Sides, NEW s \in Seq(Prices), NEW p \in Prices, NEW k, PlaceOf(side, s, p, k),
         k # 0, NEW next, NEW prev, LinkedAs(s, next, prev),
         \A q \in Prices \ Range(s) : next[q] = 0
  PROVE  \E f : Searches(f, side, next, p)
<1>. DEFINE g == [q \in Prices |-> IF \E i \in 1 .. Len(s) : s[i] = q /\ i < k THEN s[k] ELSE q]
<1>1. /\ k \in 1 .. Len(s) /\ Len(s) \in Nat
      /\ \A j \in 1 .. Len(s) : j <= k => Ahead(side, s[j], p)
      /\ \A j \in 1 .. Len(s) : ~(j <= k) => Ahead(side, p, s[j])
      /\ \A j \in 1 .. Len(s) : s[j] \in Prices /\ s[j] # 0
  BY BookConstants DEF PlaceOf
<1>2. /\ \A i \in 1 .. Len(s) : next[s[i]] = NextIn(s, i)
      /\ \A i, j \in 1 .. Len(s) : s[i] = s[j] => i = j
  BY DEF LinkedAs
<1>3. \A i \in 1 .. Len(s) : g[s[i]] = IF i < k THEN s[k] ELSE s[i]
  BY <1>1, <1>2
<1>4. \A q \in Prices \ Range(s) : g[q] = q
  BY <1>1 DEF Range
<1>. HIDE DEF g
<1>5. ASSUME NEW q \in Prices
      PROVE  g[q] = IF next[q] = 0 \/ ~Ahead(side, next[q], p) THEN q ELSE g[next[q]]
  <2>. HIDE DEF Ahead
  <2>1. CASE q \notin Range(s)
    BY <1>4, <2>1
  <2>2. CASE q \in Range(s)
    <3>1. PICK i \in 1 .. Len(s) : s[i] = q
      BY <2>2 DEF Range
    <3>2. CASE i < k
      <4>1. i + 1 \in 1 .. Len(s) /\ i + 1 <= k /\ i # Len(s) /\ (i + 1 < k \/ i + 1 = k)
        BY <1>1, <3>2
      <4>2. next[q] = s[i + 1] /\ s[i + 1] # 0 /\ Ahead(side, s[i + 1], p)
        BY <1>1, <1>2, <3>1, <4>1 DEF NextIn
      <4>3. g[s[i + 1]] = s[k] /\ g[q] = s[k]
        BY <1>3, <3>1, <3>2, <4>1
      <4>. QED  BY <4>2, <4>3
    <3>3. CASE ~(i < k)
      <4>1. g[q] = q
        BY <1>3, <3>1, <3>3
      <4>2. next[q] = 0 \/ ~Ahead(side, next[q], p)
        <5>1. CASE i = Len(s)
          BY <1>2, <3>1, <5>1 DEF NextIn
        <5>2. CASE i # Len(s)
          <6>1. i + 1 \in 1 .. Len(s) /\ ~(i + 1 <= k) /\ next[q] = s[i + 1]
            BY <1>1, <1>2, <3>1, <3>3, <5>2 DEF NextIn
          <6>2. Ahead(side, p, s[i + 1]) /\ s[i + 1] \in Prices
            BY <1>1, <6>1
          <6>. QED  BY <6>1, <6>2, AheadIsOrder
        <5>. QED  BY <5>1, <5>2
      <4>. QED  BY <4>1, <4>2
    <3>. QED  BY <3>2, <3>3
  <2>. QED  BY <2>1, <2>2
<1>6. Searches(g, side, next, p)
  <2>1. g = [q \in Prices |-> g[q]]
    BY DEF g
  <2>. HIDE DEF Ahead
  <2>. QED  BY <1>5, <2>1 DEF Searches
<1>. QED  BY <1>6

\* p has entered the list of prices.
PriceEnters(b, c, side, p) ==
  /\ PricesChange(b, c, side)
  /\ HeadGood(c, {}, side)
  /\ c.head[side] = IF b.head[side] = 0 \/ Ahead(side, p, b.head[side]) THEN p ELSE b.head[side]

\* The list of a side has other pointers and another head.
Repointed(b, c, side, next2, prev2, head2) ==
  /\ IsBook(c)
  /\ c.next = [b.next EXCEPT ![side] = next2] /\ c.prev = [b.prev EXCEPT ![side] = prev2]
  /\ c.head = [b.head EXCEPT ![side] = head2]
  /\ c.orders = b.orders /\ c.levels = b.levels /\ c.best = b.best /\ c.listed = b.listed
  /\ c.index = b.index /\ c.reserved = b.reserved /\ c.nextId = b.nextId /\ c.ok = b.ok

\* A book before p, whose level is new, has entered the list.
Entering(b, side, levels, s, p) ==
  /\ IsBook(b) /\ side \in Sides
  /\ b.next \in Pointers /\ b.prev \in Pointers /\ b.head \in [Sides -> Prices0]
  /\ PricesAre(levels, b.next, b.prev, side, s) /\ b.head[side] = FirstOf(s)
  /\ p \in Prices \ Range(s)
  /\ SameLive(levels, b.levels, side, p) /\ b.levels[side][p].exists

\* p is linked in at its place.
LEMMA EnteringAt ==
  ASSUME NEW b, NEW side, NEW levels, NEW s, NEW p, Entering(b, side, levels, s, p),
         NEW k, PlaceOf(side, s, p, k), NEW c, NEW next2, NEW prev2, NEW head2,
         Repointed(b, c, side, next2, prev2, head2),
         next2 \in [Prices -> Prices0], prev2 \in [Prices -> Prices0],
         LinkedIn(s, k, p, b.next[side], b.prev[side], next2, prev2),
         \A q \in Prices \ (Range(s) \cup {p}) : next2[q] = 0 /\ prev2[q] = 0,
         head2 = IF k = 0 THEN p ELSE b.head[side]
  PROVE  PriceEnters(b, c, side, p)
<1>. DEFINE r == Inserted(s, k, p)
<1>1. /\ side \in Sides /\ b.next \in Pointers /\ b.prev \in Pointers
      /\ b.head \in [Sides -> Prices0]
      /\ s \in Seq(Prices) /\ LinkedAs(s, b.next[side], b.prev[side]) /\ InOrder(side, s)
      /\ Range(s) = {q \in Prices : levels[side][q].exists}
      /\ b.head[side] = FirstOf(s) /\ p \in Prices \ Range(s)
      /\ \A q \in Prices \ {p} : b.levels[side][q].exists = levels[side][q].exists
      /\ b.levels[side][p].exists
  BY DEF Entering, PricesAre, SameLive
<1>2. k \in 0 .. Len(s) /\ Len(s) \in Nat
  BY <1>1 DEF PlaceOf
<1>3. head2 \in Prices0
  BY <1>1 DEF Prices0
<1>4. c.next[side] = next2 /\ c.prev[side] = prev2 /\ c.head[side] = head2
  BY <1>1 DEF Repointed, Pointers
<1>5. PricesChange(b, c, side)
  BY <1>3, <1>4 DEF Repointed, PricesChange
<1>6. r \in Seq(Prices) /\ Range(r) = Range(s) \cup {p}
  <2>1. s \in Seq(Prices) /\ k \in 0 .. Len(s) /\ p \in Prices
    BY <1>1, <1>2
  <2>. QED  BY <2>1, InsertedIsSeq
<1>7. LinkedAs(r, next2, prev2) /\ FirstOf(r) = IF k = 0 THEN p ELSE FirstOf(s)
  BY <1>1, <1>2, LinkedInIsLinked
<1>8. InOrder(side, r)
  BY <1>1, InsertedInOrder
<1>9. Range(r) = {q \in Prices : c.levels[side][q].exists}
  <2>1. c.levels = b.levels
    BY DEF Repointed
  <2>. HIDE DEF r
  <2>. QED  BY <1>1, <1>6, <2>1
<1>10. PricesAre(c.levels, c.next, c.prev, side, r)
  <2>. HIDE DEF r
  <2>. QED  BY <1>4, <1>6, <1>7, <1>8, <1>9 DEF PricesAre
<1>11. c.head[side] = FirstOf(r)
  <2>. HIDE DEF r
  <2>. QED  BY <1>1, <1>4, <1>7
<1>12. HeadGood(c, {}, side)
  BY <1>10, <1>11 DEF HeadGood
<1>13. k = 0 <=> b.head[side] = 0 \/ Ahead(side, p, b.head[side])
  <2>1. CASE Len(s) = 0
    BY <1>1, <1>2, <2>1 DEF FirstOf
  <2>2. CASE Len(s) # 0
    <3>1. 1 \in 1 .. Len(s) /\ b.head[side] = s[1] /\ s[1] \in Prices /\ s[1] # 0
      BY <1>1, <1>2, <2>2, BookConstants DEF FirstOf
    <3>2. CASE k = 0
      <4>1. Ahead(side, p, s[1])
        BY <1>2, <3>1, <3>2 DEF PlaceOf
      <4>. QED  BY <3>1, <3>2, <4>1
    <3>3. CASE k # 0
      <4>1. 1 <= k
        BY <1>2, <3>3
      <4>2. Ahead(side, s[1], p)
        BY <3>1, <4>1 DEF PlaceOf
      <4>3. ~Ahead(side, p, s[1])
        BY <1>1, <3>1, <4>2, AheadIsOrder
      <4>. QED  BY <3>1, <3>3, <4>3
    <3>. QED  BY <3>2, <3>3
  <2>. QED  BY <2>1, <2>2
<1>. QED  BY <1>4, <1>5, <1>12, <1>13 DEF PriceEnters

\* The first price of an empty list, and one before the head.
LEMMA EnteringFirst ==
  ASSUME NEW b, NEW side, NEW levels, NEW s, NEW p, Entering(b, side, levels, s, p),
         PlaceOf(side, s, p, 0)
  PROVE  PriceEnters(b, InsertPrice(b, side, p), side, p)
<1>. DEFINE head == b.head[side]
            next == b.next[side]
            prev == b.prev[side]
            c == InsertPrice(b, side, p)
<1>1. /\ side \in Sides /\ next \in [Prices -> Prices0] /\ prev \in [Prices -> Prices0]
      /\ s \in Seq(Prices) /\ LinkedAs(s, next, prev)
      /\ head = FirstOf(s) /\ p \in Prices \ Range(s) /\ p \in Prices0 /\ 0 \in Prices0
      /\ \A q \in Prices \ Range(s) : next[q] = 0 /\ prev[q] = 0
      /\ IsBook(b) /\ b.next \in Pointers /\ b.prev \in Pointers
  BY DEF Entering, PricesAre, Pointers, Prices0
<1>2. /\ Len(s) \in Nat
      /\ \A j \in 1 .. Len(s) : s[j] \in Prices /\ s[j] # p /\ s[j] \in Range(s) /\ s[j] # 0
  BY <1>1, BookConstants DEF Range
<1>3. CASE Len(s) = 0
  <2>1. head = 0
    BY <1>1, <1>3 DEF FirstOf
  <2>2. c = [b EXCEPT !.head[side] = p]
    BY <2>1, Zenon DEF InsertPrice
  <2>. HIDE DEF c
  <2>3. Repointed(b, c, side, next, prev, p)
    <3>1. b.next = [b.next EXCEPT ![side] = next] /\ b.prev = [b.prev EXCEPT ![side] = prev]
      BY <1>1 DEF Pointers
    <3>. HIDE DEF next, prev
    <3>. QED  BY <1>1, <2>2, <3>1 DEF IsBook, Repointed
  <2>4. LinkedIn(s, 0, p, next, prev, next, prev)
    BY <1>1, <1>3 DEF LinkedIn
  <2>5. \A q \in Prices \ (Range(s) \cup {p}) : next[q] = 0 /\ prev[q] = 0
    BY <1>1
  <2>6. p = IF 0 = 0 THEN p ELSE b.head[side]
    OBVIOUS
  <2>7. PriceEnters(b, c, side, p)
    BY <1>1, <2>3, <2>4, <2>5, <2>6, EnteringAt
  <2>. QED  BY <2>7 DEF c
<1>4. CASE Len(s) # 0
  <2>. DEFINE next2 == [next EXCEPT ![p] = head]
              prev2 == [prev EXCEPT ![head] = p]
  <2>1. 1 \in 1 .. Len(s) /\ head = s[1] /\ head # 0 /\ Ahead(side, p, head) /\ head \in Prices
    BY <1>1, <1>2, <1>4 DEF FirstOf, PlaceOf
  <2>2. c = [b EXCEPT !.next[side][p] = head, !.prev[side][head] = p, !.head[side] = p]
    BY <2>1, Zenon DEF InsertPrice
  <2>3. Repointed(b, c, side, next2, prev2, p)
    <3>1. c = [b EXCEPT !.next[side] = next2, !.prev[side] = prev2, !.head[side] = p]
      BY <2>2
    <3>. HIDE DEF next2, prev2, c
    <3>. QED  BY <1>1, <3>1 DEF IsBook, Repointed
  <2>4. next2 \in [Prices -> Prices0] /\ prev2 \in [Prices -> Prices0]
    <3>. HIDE DEF next, prev, head
    <3>1. head \in Prices0
      BY <2>1 DEF Prices0
    <3>. QED  BY <1>1, <2>1, <3>1
  <2>5. \A q \in Prices : /\ next2[q] = IF q = p THEN head ELSE next[q]
                          /\ prev2[q] = IF q = head THEN p ELSE prev[q]
    <3>. HIDE DEF next, prev, head
    <3>. QED  BY <1>1, <2>1
  <2>6. LinkedIn(s, 0, p, next, prev, next2, prev2)
    <3>1. next2[p] = s[1] /\ prev2[p] = 0
      BY <1>1, <1>2, <2>1, <2>5
    <3>2. ASSUME NEW j \in 1 .. Len(s)
          PROVE  next2[s[j]] = next[s[j]] /\ prev2[s[j]] = IF j = 1 THEN p ELSE prev[s[j]]
      <4>1. s[j] = s[1] <=> j = 1
        BY <1>1, <2>1 DEF LinkedAs
      <4>. HIDE DEF next, prev, next2, prev2, head
      <4>. QED  BY <1>2, <2>1, <2>5, <4>1
    <3>3. \A j \in 1 .. Len(s) : j # 0 /\ (j = 0 + 1 <=> j = 1)
      BY <1>2
    <3>4. 0 # Len(s) /\ s[0 + 1] = s[1]
      BY <1>4
    <3>. HIDE DEF next, prev, next2, prev2, head
    <3>. QED  BY <3>1, <3>2, <3>3, <3>4 DEF LinkedIn
  <2>7. \A q \in Prices \ (Range(s) \cup {p}) : next2[q] = 0 /\ prev2[q] = 0
    <3>1. head \in Range(s)
      BY <1>2, <2>1
    <3>. HIDE DEF next, prev, next2, prev2, head
    <3>. QED  BY <1>1, <2>5, <3>1
  <2>8. p = IF 0 = 0 THEN p ELSE b.head[side]
    OBVIOUS
  <2>9. PriceEnters(b, c, side, p)
    <3>. HIDE DEF next2, prev2, c
    <3>. QED  BY <1>1, <2>3, <2>4, <2>6, <2>7, <2>8, EnteringAt
  <2>. QED  BY <2>9
<1>. QED  BY <1>3, <1>4

\* A price behind the k-th of the list.
LEMMA EnteringBehind ==
  ASSUME NEW b, NEW side, NEW levels, NEW s, NEW p, Entering(b, side, levels, s, p),
         NEW k, PlaceOf(side, s, p, k), k # 0
  PROVE  PriceEnters(b, InsertPrice(b, side, p), side, p)
<1>. DEFINE head == b.head[side]
            next == b.next[side]
            prev == b.prev[side]
            c == InsertPrice(b, side, p)
            Loop(f) == f = [q \in Prices |->
               IF b.next[side][q] = 0 \/ ~Ahead(side, b.next[side][q], p)
               THEN q ELSE f[b.next[side][q]]]
            loop == CHOOSE f : Loop(f)
            at == loop[head]
            then == b.next[side][at]
            next2 == [next EXCEPT ![at] = p, ![p] = then]
            prev2 == [q \in Prices |-> IF q = p THEN at ELSE IF q = then THEN p ELSE prev[q]]
<1>1. /\ side \in Sides /\ next \in [Prices -> Prices0] /\ prev \in [Prices -> Prices0]
      /\ s \in Seq(Prices) /\ LinkedAs(s, next, prev)
      /\ head = FirstOf(s) /\ p \in Prices \ Range(s) /\ p \in Prices /\ p \in Prices0
      /\ 0 \in Prices0
      /\ \A q \in Prices \ Range(s) : next[q] = 0 /\ prev[q] = 0
      /\ IsBook(b) /\ b.next \in Pointers /\ b.prev \in Pointers
  BY DEF Entering, PricesAre, Pointers, Prices0
<1>2. /\ Len(s) \in Nat
      /\ \A j \in 1 .. Len(s) : s[j] \in Prices /\ s[j] # p /\ s[j] \in Range(s) /\ s[j] # 0
  BY <1>1, BookConstants DEF Range
<1>3. k \in 1 .. Len(s) /\ 1 \in 1 .. Len(s) /\ Len(s) # 0
  BY <1>2 DEF PlaceOf
<1>4. head = s[1] /\ head \in Prices /\ head # 0 /\ Ahead(side, head, p)
  BY <1>1, <1>2, <1>3 DEF FirstOf, PlaceOf
<1>5. ~Ahead(side, p, head)
  BY <1>1, <1>4, AheadIsOrder
<1>6. \E f : Loop(f)
  <2>1. \E f : Searches(f, side, next, p)
    BY <1>1, SearchExists
  <2>. QED  BY <2>1, Zenon DEF Searches
<1>7. Loop(loop)
  <2>. HIDE DEF Loop
  <2>. QED  BY <1>6, Zenon
<1>8. Searches(loop, side, next, p)
  BY <1>7, Zenon DEF Searches
<1>9. c = [b EXCEPT !.next[side] = next2, !.prev[side] = prev2]
  BY <1>4, <1>5, Zenon DEF InsertPrice
<1>10. at = s[k]
  <2>1. \A i \in 1 .. Len(s) : next[s[i]] = NextIn(s, i)
    BY <1>1 DEF LinkedAs
  <2>. HIDE DEF loop, next, prev, head
  <2>2. loop[s[1]] = s[k]
    BY <1>1, <1>8, <2>1, SearchEnds
  <2>. QED  BY <1>4, <2>2
<1>11. at \in Prices /\ at # p /\ then = NextIn(s, k) /\ then \in Prices0 /\ then # p
  <2>1. then = NextIn(s, k)
    BY <1>1, <1>3, <1>10 DEF LinkedAs
  <2>2. NextIn(s, k) = 0 \/ \E j \in 1 .. Len(s) : NextIn(s, k) = s[j]
    BY <1>2, <1>3 DEF NextIn
  <2>. HIDE DEF at, then
  <2>. QED  BY <1>1, <1>2, <1>3, <1>10, <2>1, <2>2, BookConstants DEF Prices0
<1>. HIDE DEF loop, at, then
<1>12. \A q \in Prices : /\ next2[q] = IF q = p THEN then ELSE IF q = at THEN p ELSE next[q]
                         /\ prev2[q] = IF q = p THEN at ELSE IF q = then THEN p ELSE prev[q]
  <2>. HIDE DEF next, prev
  <2>. QED  BY <1>1, <1>11
<1>13. next2 \in [Prices -> Prices0] /\ prev2 \in [Prices -> Prices0]
  <2>1. at \in Prices0
    BY <1>11 DEF Prices0
  <2>. HIDE DEF next, prev
  <2>. QED  BY <1>1, <1>11, <2>1
<1>14. Repointed(b, c, side, next2, prev2, head)
  <2>1. b.head \in [Sides -> Prices0]
    BY DEF Entering
  <2>2. b.head = [b.head EXCEPT ![side] = head]
    BY <1>1, <2>1
  <2>. HIDE DEF next2, prev2, c, head
  <2>. QED  BY <1>1, <1>9, <2>2 DEF IsBook, Repointed
<1>. HIDE DEF next2, prev2, c, next, prev
<1>15. LinkedIn(s, k, p, next, prev, next2, prev2)
  <2>1. next2[p] = IF k = Len(s) THEN 0 ELSE s[k + 1]
    BY <1>1, <1>11, <1>12 DEF NextIn
  <2>2. prev2[p] = IF k = 0 THEN 0 ELSE s[k]
    BY <1>1, <1>10, <1>12
  <2>3. \A i, j \in 1 .. Len(s) : s[i] = s[j] => i = j
    BY <1>1 DEF LinkedAs
  <2>4. ASSUME NEW j \in 1 .. Len(s)
        PROVE  /\ next2[s[j]] = IF j = k THEN p ELSE next[s[j]]
               /\ prev2[s[j]] = IF j = k + 1 THEN p ELSE prev[s[j]]
    <3>1. s[j] = at <=> j = k
      BY <1>3, <1>10, <2>3
    <3>2. s[j] = then <=> j = k + 1
      <4>1. CASE k = Len(s)
        <5>1. then = 0 /\ j # k + 1
          BY <1>2, <1>11, <4>1 DEF NextIn
        <5>. QED  BY <1>2, <5>1
      <4>2. CASE k # Len(s)
        <5>1. then = s[k + 1] /\ k + 1 \in 1 .. Len(s)
          BY <1>2, <1>3, <1>11, <4>2 DEF NextIn
        <5>. QED  BY <2>3, <5>1
      <4>. QED  BY <4>1, <4>2
    <3>. QED  BY <1>2, <1>12, <3>1, <3>2
  <2>. QED  BY <2>1, <2>2, <2>4 DEF LinkedIn
<1>16. \A q \in Prices \ (Range(s) \cup {p}) : next2[q] = 0 /\ prev2[q] = 0
  <2>1. at \in Range(s) /\ (then = 0 \/ then \in Range(s))
    <3>1. NextIn(s, k) = 0 \/ \E j \in 1 .. Len(s) : NextIn(s, k) = s[j]
      BY <1>2, <1>3 DEF NextIn
    <3>. QED  BY <1>2, <1>3, <1>10, <1>11, <3>1
  <2>2. 0 \notin Prices
    BY BookConstants
  <2>. QED  BY <1>1, <1>12, <2>1, <2>2
<1>17. head = IF k = 0 THEN p ELSE b.head[side]
  OBVIOUS
<1>18. LinkedIn(s, k, p, b.next[side], b.prev[side], next2, prev2)
  BY <1>15 DEF next, prev
<1>19. PriceEnters(b, c, side, p)
  <2>. HIDE DEF head
  <2>. QED  BY <1>13, <1>14, <1>16, <1>17, <1>18, EnteringAt
<1>. QED  BY <1>19 DEF c

\* A new price.
LEMMA InsertingPrice ==
  ASSUME NEW b, NEW side, NEW levels, NEW s, NEW p, Entering(b, side, levels, s, p)
  PROVE  PriceEnters(b, InsertPrice(b, side, p), side, p)
<1>1. side \in Sides /\ s \in Seq(Prices) /\ InOrder(side, s) /\ p \in Prices \ Range(s)
  BY DEF Entering, PricesAre
<1>2. PICK k : PlaceOf(side, s, p, k)
  BY <1>1, PlaceExists
<1>3. CASE k = 0
  BY <1>2, <1>3, EnteringFirst
<1>4. CASE k # 0
  BY <1>2, <1>4, EnteringBehind
<1>. QED  BY <1>3, <1>4

----------------------------------------------------------------------------
(* An order joins a level. *)

\* id has come behind the order `last', or as the only one when that is 0.
Joins(orders, after, id, last) ==
  /\ after \in [0 .. MaxOrders -> Orders]
  /\ after[id].next = 0 /\ after[id].prev = last
  /\ \A x \in (0 .. MaxOrders) \ {id} :
       /\ SameTerms(orders[x], after[x])
       /\ after[x].next = IF x = last /\ x # 0 THEN id ELSE orders[x].next
       /\ after[x].prev = orders[x].prev

\* The level with one more order.
LevelGains(level, id, amount) ==
  [total |-> level.total + amount, first |-> IF level.first = 0 THEN id ELSE level.first,
   last |-> id, exists |-> TRUE]

\* The order is last in the queue, and its level counts it.
QueueGains(orders, after, side, p, s, id) ==
  /\ QueueIs(after, side, p, Inserted(s, Len(s), id))
  /\ LevelOf(after, Inserted(s, Len(s), id)) = LevelGains(LevelOf(orders, s), id, after[id].amount)

\* The queue of its level ends with the new order.
LEMMA QueueJoined ==
  ASSUME NEW orders, orders \in [0 .. MaxOrders -> Orders], NEW after, NEW id \in Ids,
         NEW side, NEW p, NEW s, QueueIs(orders, side, p, s), orders[id].trader = NULL,
         Joins(orders, after, id, LastOf(s)), Belongs(after, side, p, id),
         \A x \in Range(s) : x < id
  PROVE  QueueGains(orders, after, side, p, s, id)
<1>. DEFINE r == Inserted(s, Len(s), id)
            sum == SumFunctionOnSet(AmountsOf(orders), Range(s))
            sum2 == SumFunctionOnSet(AmountsOf(after), Range(r))
            amount == after[id].amount
<1>1. /\ IsFiniteSet(Range(s)) /\ Range(s) \subseteq Ids /\ Len(s) \in Nat /\ sum \in Nat
      /\ \A j \in 1 .. Len(s) : s[j] \in Range(s) /\ s[j] \in 0 .. MaxOrders /\ s[j] # 0
      /\ \A x \in Ids : x \in Range(s) <=> Belongs(orders, side, p, x)
      /\ \A i, j \in 1 .. Len(s) : s[i] = s[j] => i = j
  BY QueueFacts
<1>2. /\ s \in Seq(Ids) /\ LinkedAs(s, NextOf(orders), PrevOf(orders))
      /\ Len(s) \in 0 .. Len(s) /\ id \notin Range(s)
  BY <1>1 DEF QueueIs, Belongs
<1>3. \A x \in 0 .. MaxOrders :
        /\ NextOf(orders)[x] = orders[x].next
        /\ PrevOf(orders)[x] = orders[x].prev
        /\ NextOf(after)[x] = after[x].next
        /\ PrevOf(after)[x] = after[x].prev
  BY DEF NextOf, PrevOf
<1>4. r \in Seq(Ids) /\ Len(r) = Len(s) + 1 /\ Range(r) = Range(s) \cup {id}
  <2>1. s \in Seq(Ids)
    BY <1>2
  <2>2. PICK k \in 0 .. Len(s) : k = Len(s)
    BY <1>2
  <2>3. /\ Inserted(s, k, id) \in Seq(Ids) /\ Len(Inserted(s, k, id)) = Len(s) + 1
        /\ Range(Inserted(s, k, id)) = Range(s) \cup {id}
    BY <2>1, InsertedIsSeq
  <2>. QED  BY <2>2, <2>3
<1>. HIDE DEF r
<1>5. LinkedIn(s, Len(s), id, NextOf(orders), PrevOf(orders), NextOf(after), PrevOf(after))
  <2>1. NextOf(after)[id] = 0 /\ PrevOf(after)[id] = IF Len(s) = 0 THEN 0 ELSE s[Len(s)]
    BY <1>3, BookConstants DEF Joins, LastOf
  <2>2. ASSUME NEW j \in 1 .. Len(s)
        PROVE  /\ NextOf(after)[s[j]] = IF j = Len(s) THEN id ELSE NextOf(orders)[s[j]]
               /\ PrevOf(after)[s[j]] = PrevOf(orders)[s[j]]
               /\ j # Len(s) + 1
    <3>1. s[j] \in (0 .. MaxOrders) \ {id} /\ s[j] # 0
      BY <1>1, <1>2
    <3>2. s[j] = LastOf(s) <=> j = Len(s)
      BY <1>1 DEF LastOf
    <3>. QED  BY <1>1, <1>3, <3>1, <3>2 DEF Joins
  <2>. QED  BY <2>1, <2>2 DEF LinkedIn
<1>6. /\ LinkedAs(r, NextOf(after), PrevOf(after))
      /\ FirstOf(r) = IF Len(s) = 0 THEN id ELSE FirstOf(s)
      /\ LastOf(r) = id
  <2>1. /\ LinkedAs(r, NextOf(after), PrevOf(after))
        /\ FirstOf(r) = IF Len(s) = 0 THEN id ELSE FirstOf(s)
        /\ LastOf(r) = IF Len(s) = Len(s) THEN id ELSE LastOf(s)
    BY <1>2, <1>5, LinkedInIsLinked DEF r
  <2>. QED  BY <2>1
<1>7. \A x \in Ids : Belongs(after, side, p, x) <=> x = id \/ Belongs(orders, side, p, x)
  <2>1. SUFFICES ASSUME NEW x \in Ids
                 PROVE  Belongs(after, side, p, x) <=> x = id \/ Belongs(orders, side, p, x)
    OBVIOUS
  <2>2. CASE x = id
    BY <2>2
  <2>3. CASE x # id
    <3>1. SameTerms(orders[x], after[x])
      BY <2>3, BookConstants DEF Joins
    <3>. QED  BY <2>3, <3>1 DEF Belongs, SameTerms
  <2>. QED  BY <2>2, <2>3
<1>8. QueueIs(after, side, p, r)
  <2>1. Range(r) = {x \in Ids : Belongs(after, side, p, x)}
    BY <1>1, <1>4, <1>7
  <2>2. Ascending(s) /\ \A j \in 1 .. Len(s) + 1 : r[j] = IF j <= Len(s) THEN s[j] ELSE id
    <3>1. PICK k \in 0 .. Len(s) : k = Len(s)
      BY <1>2
    <3>2. \A j \in 1 .. Len(s) + 1 :
            /\ Inserted(s, k, id)[j] = IF j <= k THEN s[j] ELSE IF j = k + 1 THEN id ELSE s[j - 1]
      BY <1>2, InsertedIsSeq
    <3>. QED  BY <1>1, <3>1, <3>2 DEF QueueIs, r
  <2>3. Ascending(r)
    <3>1. SUFFICES ASSUME NEW j \in 1 .. Len(r), NEW k \in 1 .. Len(r), j < k PROVE r[j] < r[k]
      BY DEF Ascending
    <3>2. j \in 1 .. Len(s) /\ j <= Len(s) /\ r[j] = s[j] /\ r[j] < id
      BY <1>1, <1>4, <2>2, <3>1
    <3>3. CASE k <= Len(s)
      BY <1>1, <1>4, <2>2, <3>1, <3>2, <3>3 DEF Ascending
    <3>4. CASE ~(k <= Len(s))
      BY <1>4, <2>2, <3>2, <3>4
    <3>. QED  BY <3>3, <3>4
  <2>. QED  BY <1>4, <1>6, <2>1, <2>3 DEF QueueIs
<1>9. /\ \A x \in Ids :
           /\ AmountsOf(orders)[x] = orders[x].amount
           /\ AmountsOf(after)[x] = after[x].amount
      /\ \A x \in Ids : after[x].amount \in Nat /\ orders[x].amount \in Nat
      /\ \A x \in Range(s) : after[x].amount = orders[x].amount
  <2>1. \A x \in Ids : x \in 0 .. MaxOrders
    BY BookConstants
  <2>2. \A f \in [0 .. MaxOrders -> Orders] : \A x \in 0 .. MaxOrders : f[x].amount \in Nat
    BY DEF Orders
  <2>3. \A x \in 0 .. MaxOrders : after[x].amount \in Nat /\ orders[x].amount \in Nat
    BY <2>2, Zenon DEF Joins
  <2>4. \A x \in Range(s) : after[x].amount = orders[x].amount
    BY <1>1, <1>2, <2>1 DEF Joins, SameTerms
  <2>. QED  BY <2>1, <2>3, <2>4 DEF AmountsOf
<1>10. sum2 = sum + amount /\ sum2 \in Nat /\ amount \in Nat
  <2>1. Ints(AmountsOf(after), Ids) /\ Range(s) \in SUBSET Ids /\ IsFiniteSet(Ids)
    BY <1>1, <1>9, BookConstants DEF Ints
  <2>2. sum2 = AmountsOf(after)[id] + SumFunctionOnSet(AmountsOf(after), Range(s))
    BY <1>2, <1>4, <2>1, SumWith
  <2>3. SumFunctionOnSet(AmountsOf(orders), Range(s)) = SumFunctionOnSet(AmountsOf(after), Range(s))
    <3>1. /\ Ints(AmountsOf(orders), Range(s))
          /\ \A x \in Range(s) : AmountsOf(orders)[x] = AmountsOf(after)[x]
      BY <1>1, <1>9 DEF Ints
    <3>. QED  BY <1>1, <3>1, SumCongruence
  <2>4. AmountsOf(after)[id] = amount /\ amount \in Nat
    BY <1>9
  <2>. HIDE DEF sum2, amount
  <2>. QED  BY <1>1, <2>2, <2>3, <2>4
<1>11. LevelOf(after, r) = LevelGains(LevelOf(orders, s), id, amount)
  <2>1. LevelOf(after, r) =
          [total |-> sum2, first |-> FirstOf(r), last |-> LastOf(r), exists |-> TRUE]
    <3>1. Len(r) # 0
      BY <1>1, <1>4
    <3>. QED  BY <3>1, Zenon DEF LevelOf
  <2>2. LevelOf(orders, s).total = sum
    <3>1. CASE Len(s) = 0
      <4>1. Range(s) = {}
        BY <3>1 DEF Range
      <4>2. SumFunctionOnSet(AmountsOf(orders), {}) = 0
        BY SumOfNothing
      <4>. QED  BY <3>1, <4>1, <4>2 DEF LevelOf, NoLevel
    <3>2. CASE Len(s) # 0
      BY <3>2 DEF LevelOf
    <3>. QED  BY <3>1, <3>2
  <2>3. LevelOf(orders, s).first = FirstOf(s) /\ (FirstOf(s) = 0 <=> Len(s) = 0)
    BY <1>1 DEF LevelOf, NoLevel, FirstOf
  <2>4. (IF LevelOf(orders, s).first = 0 THEN id ELSE LevelOf(orders, s).first) = FirstOf(r)
    BY <1>6, <2>3
  <2>5. LevelOf(orders, s).total + amount = sum2
    BY <1>10, <2>2
  <2>6. LevelGains(LevelOf(orders, s), id, amount)
          = [total |-> sum2, first |-> FirstOf(r), last |-> LastOf(r), exists |-> TRUE]
    <3>. HIDE DEF sum2, amount
    <3>. QED  BY <1>6, <2>4, <2>5, Zenon DEF LevelGains
  <2>. QED  BY <2>1, <2>6, Zenon
<1>. QED  BY <1>8, <1>11 DEF QueueGains, r

\* A level has one more order, and no other level has changed.
LevelGrows(levels, levels2, side, p) ==
  /\ \A x \in Sides \ {side} : levels2[x] = levels[x]
  /\ SameLive(levels, levels2, side, p)
  /\ levels2[side][p].exists

\* id is an order with these terms, which no level has yet.
NewOrder(orders, nextId, after, id) ==
  /\ orders[id] = NoOrder /\ id = nextId - 1
  /\ after[id].trader \in Traders /\ after[id].price \in Prices
  /\ after[id].side \in SidesOf[after[id].trader]
  /\ after[id].amount # 0

\* Its level, and the last order there.
PlacedOn(after, levels, id, side, p, last) ==
  side = after[id].side /\ p = after[id].price /\ last = levels[side][p].last

\* Its level is stored with it.
LevelsGain(levels, levels2, side, p, id, amount) ==
  levels2 = [levels EXCEPT ![side][p] = LevelGains(levels[side][p], id, amount)]

\* All levels are as they should be with the new order.
LEMMA LevelsJoined ==
  ASSUME NEW orders, NEW nextId, OrdersGood(orders, nextId, {}), NEW levels,
         LevelsGood(orders, levels), NEW id \in Ids, NEW after, NewOrder(orders, nextId, after, id),
         NEW side, NEW p, NEW last, PlacedOn(after, levels, id, side, p, last),
         Joins(orders, after, id, last),
         NEW levels2, LevelsGain(levels, levels2, side, p, id, after[id].amount)
  PROVE  /\ OrdersGood(after, nextId, {}) /\ LevelsGood(after, levels2)
         /\ LevelGrows(levels, levels2, side, p)
<1>1. /\ side = after[id].side /\ p = after[id].price /\ last = levels[side][p].last
      /\ levels2 = [levels EXCEPT ![side][p] = LevelGains(levels[side][p], id, after[id].amount)]
  BY DEF PlacedOn, LevelsGain
<1>2. /\ orders \in [0 .. MaxOrders -> Orders] /\ after \in [0 .. MaxOrders -> Orders]
      /\ levels \in [Sides -> [Prices -> Levels]] /\ nextId \in 1 .. MaxOrders + 1
      /\ id \in 0 .. MaxOrders /\ NULL \notin Traders
  BY BookConstants DEF OrdersGood, LevelsGood, Joins
<1>3. side \in Sides /\ p \in Prices
  <2>1. \A f \in [0 .. MaxOrders -> Orders] : \A x \in 0 .. MaxOrders : f[x].side \in Sides
    BY DEF Orders
  <2>2. after[id].side \in Sides
    BY <1>2, <2>1, Zenon
  <2>. QED  BY <1>1, <2>2 DEF NewOrder
<1>4. PICK s : QueueIs(orders, side, p, s) /\ levels[side][p] = LevelOf(orders, s)
  BY <1>3 DEF LevelsGood, LevelGood
<1>5. orders[id].trader = NULL /\ Belongs(after, side, p, id)
  BY <1>1, <1>2 DEF NewOrder, NoOrder, Belongs
<1>6. LevelOf(orders, s).last = LastOf(s)
  BY DEF LevelOf, LastOf, NoLevel
<1>7. QueueGains(orders, after, side, p, s, id)
  <2>1. Joins(orders, after, id, LastOf(s))
    BY <1>1, <1>4, <1>6
  <2>2. \A x \in Range(s) : x < id
    <3>1. SUFFICES ASSUME NEW x \in Range(s) PROVE x < id
      OBVIOUS
    <3>2. x \in Ids /\ x \in 0 .. MaxOrders /\ orders[x].trader # NULL
      BY <1>4, <3>1, BookConstants DEF QueueIs, Belongs
    <3>3. orders[x] # NoOrder /\ x # id
      BY <1>5, <3>2 DEF NoOrder
    <3>4. x \in 1 .. nextId - 1 /\ id = nextId - 1
      BY <3>2, <3>3 DEF OrdersGood, NewOrder
    <3>. QED  BY <1>2, <3>3, <3>4
  <2>. QED  BY <1>2, <1>4, <1>5, <2>1, <2>2, QueueJoined
<1>. DEFINE r == Inserted(s, Len(s), id)
            level2 == LevelGains(levels[side][p], id, after[id].amount)
<1>8. QueueIs(after, side, p, r) /\ LevelOf(after, r) = level2
  BY <1>4, <1>7 DEF QueueGains
<1>9. level2 \in Levels
  BY <1>2, <1>8, QueueFacts
<1>10. level2.exists
  BY DEF LevelGains
<1>. HIDE DEF r, level2
<1>11. /\ levels2 \in [Sides -> [Prices -> Levels]] /\ levels2[side][p] = level2
       /\ \A x \in Sides, q \in Prices : (x = side /\ q = p) \/ levels2[x][q] = levels[x][q]
       /\ \A x \in Sides \ {side} : levels2[x] = levels[x]
  <2>1. levels2 = [levels EXCEPT ![side][p] = level2]
    BY <1>1 DEF level2
  <2>. QED  BY <1>2, <1>3, <1>9, <2>1
<1>12. LevelGrows(levels, levels2, side, p)
  BY <1>3, <1>10, <1>11 DEF LevelGrows, SameLive
<1>13. OrdersGood(after, nextId, {})
  <2>1. ASSUME NEW x \in 0 .. MaxOrders
        PROVE  \/ after[x] = NoOrder
               \/ /\ x \in 1 .. nextId - 1
                  /\ after[x].trader \in Traders /\ after[x].price \in Prices
                  /\ after[x].side \in SidesOf[after[x].trader]
                  /\ x \in {} \/ after[x].amount # 0
    <3>1. CASE x = id
      BY <1>2, <3>1, BookConstants DEF NewOrder
    <3>2. CASE x # id
      <4>1. SameTerms(orders[x], after[x]) /\ after[x].prev = orders[x].prev
            /\ after[x].next = IF x = last /\ x # 0 THEN id ELSE orders[x].next
        BY <3>2 DEF Joins
      <4>2. CASE orders[x] = NoOrder
        <5>1. ~(x = last /\ x # 0)
          <6>1. CASE Len(s) = 0
            BY <1>1, <1>4, <1>6, <6>1 DEF LastOf
          <6>2. CASE Len(s) # 0
            <7>1. Len(s) \in 1 .. Len(s) /\ LastOf(s) = s[Len(s)]
              BY <1>2, <1>4, <6>2, QueueFacts DEF LastOf
            <7>2. Belongs(orders, side, p, LastOf(s))
              BY <1>2, <1>4, <7>1, QueueFacts
            <7>. QED  BY <1>1, <1>4, <1>6, <4>2, <7>2 DEF Belongs, NoOrder
          <6>. QED  BY <6>1, <6>2
        <5>2. /\ after[x].trader = NULL /\ after[x].side = "buy" /\ after[x].price = 0
              /\ after[x].amount = 0 /\ after[x].margin = 0 /\ after[x].next = 0
              /\ after[x].prev = 0
          BY <4>1, <4>2, <5>1 DEF SameTerms, NoOrder
        <5>3. after[x] \in Orders
          BY <1>2
        <5>4. after[x] = NoOrder
          BY <5>2, <5>3 DEF NoOrder, Orders
        <5>. QED  BY <5>4
      <4>3. CASE orders[x] # NoOrder
        <5>1. /\ x \in 1 .. nextId - 1
              /\ orders[x].trader \in Traders /\ orders[x].price \in Prices
              /\ orders[x].side \in SidesOf[orders[x].trader]
              /\ orders[x].amount # 0
          BY <4>3 DEF OrdersGood
        <5>. QED  BY <4>1, <5>1 DEF SameTerms
      <4>. QED  BY <4>2, <4>3
    <3>. QED  BY <3>1, <3>2
  <2>. QED  BY <1>2, <2>1 DEF OrdersGood
<1>14. ASSUME NEW x \in Sides, NEW q \in Prices PROVE LevelGood(after, levels2[x][q], x, q)
  <2>1. CASE x = side /\ q = p
    BY <1>8, <1>11, <2>1 DEF LevelGood
  <2>2. CASE ~(x = side /\ q = p)
    <3>1. PICK t : QueueIs(orders, x, q, t) /\ levels[x][q] = LevelOf(orders, t)
      BY DEF LevelsGood, LevelGood
    <3>2. \A y \in Range(t) : y \in Ids /\ Belongs(orders, x, q, y)
      BY <3>1 DEF QueueIs
    <3>3. \A y \in Range(t) : y \in (0 .. MaxOrders) \ {id}
      BY <1>5, <3>2, BookConstants DEF Belongs
    <3>4. \A y \in Range(t) : ~(y = last /\ y # 0)
      <4>1. CASE Len(s) = 0
        BY <1>1, <1>4, <1>6, <4>1 DEF LastOf
      <4>2. CASE Len(s) # 0
        <5>1. Len(s) \in 1 .. Len(s) /\ LastOf(s) = s[Len(s)]
          BY <1>2, <1>4, <4>2, QueueFacts DEF LastOf
        <5>2. Belongs(orders, side, p, LastOf(s))
          BY <1>2, <1>4, <5>1, QueueFacts
        <5>. QED  BY <1>1, <1>4, <1>6, <2>2, <3>2, <5>2 DEF Belongs
      <4>. QED  BY <4>1, <4>2
    <3>5. \A y \in Range(t) : /\ after[y].next = orders[y].next /\ after[y].prev = orders[y].prev
                              /\ after[y].amount = orders[y].amount
      BY <3>3, <3>4 DEF Joins, SameTerms
    <3>6. \A y \in Ids : Belongs(after, x, q, y) <=> Belongs(orders, x, q, y)
      <4>1. SUFFICES ASSUME NEW y \in Ids
                     PROVE  Belongs(after, x, q, y) <=> Belongs(orders, x, q, y)
        OBVIOUS
      <4>2. CASE y = id
        BY <1>5, <2>2, <4>2 DEF Belongs
      <4>3. CASE y # id
        <5>1. SameTerms(orders[y], after[y])
          BY <4>3, BookConstants DEF Joins
        <5>. QED  BY <5>1 DEF Belongs, SameTerms
      <4>. QED  BY <4>2, <4>3
    <3>7. SameQueue(orders, after, x, q, t)
      BY <3>5, <3>6 DEF SameQueue
    <3>8. QueueIs(after, x, q, t) /\ LevelOf(after, t) = LevelOf(orders, t)
      BY <1>2, <3>1, <3>7, QueueStays
    <3>. QED  BY <1>11, <2>2, <3>1, <3>8 DEF LevelGood
  <2>. QED  BY <2>1, <2>2
<1>15. LevelsGood(after, levels2)
  BY <1>11, <1>14 DEF LevelsGood
<1>. QED  BY <1>12, <1>13, <1>15

\* id is a new order, listed and with its margin reserved, but on no level yet.
Unplaced(b, id) ==
  /\ Leaving(b, {}, {}, id)
  /\ NewOrder(Erased(b.orders, id), b.nextId, b.orders, id)
  /\ b.orders[id].next = 0 /\ b.orders[id].prev = 0
  /\ b.reserved[id] = Reservation(b.orders[id])

\* The head of a list of prices that p is one of.
HeadWith(b, side, p) ==
  IF b.head[side] = 0 \/ Ahead(side, p, b.head[side]) THEN p ELSE b.head[side]

\* The order is on its level.
Added(b, u, id) ==
  LET side == b.orders[id].side
      p == b.orders[id].price
  IN /\ IsBook(u)
     /\ OrdersGood(u.orders, b.nextId, {}) /\ LevelsGood(u.orders, u.levels)
     /\ PricesGood(u, {})
     /\ \A x \in 0 .. MaxOrders : SameTerms(b.orders[x], u.orders[x])
     /\ \A x \in Sides \ {side} : u.head[x] = b.head[x]
     /\ u.head[side] = HeadWith(b, side, p)
     /\ u.best = b.best /\ u.listed = b.listed /\ u.index = b.index
     /\ u.reserved = b.reserved /\ u.nextId = b.nextId /\ u.ok = b.ok

\* What is known of the order and of its level.
LEMMA UnplacedFacts ==
  ASSUME NEW b, NEW id \in Ids, Unplaced(b, id)
  PROVE  /\ b.orders[id].side \in Sides /\ b.orders[id].price \in Prices
         /\ b.orders[id].amount \in Nat /\ b.orders \in [0 .. MaxOrders -> Orders]
         /\ b.levels \in [Sides -> [Prices -> Levels]] /\ IsBook(b)
         /\ \A x \in (0 .. MaxOrders) \ {id} : Erased(b.orders, id)[x] = b.orders[x]
         /\ Erased(b.orders, id)[id] = NoOrder
<1>1. b.orders \in [0 .. MaxOrders -> Orders] /\ id \in 0 .. MaxOrders
  BY BookConstants DEF Unplaced, Leaving
<1>2. \A f \in [0 .. MaxOrders -> Orders] : \A x \in 0 .. MaxOrders :
        f[x].side \in Sides /\ f[x].amount \in Nat
  BY DEF Orders
<1>3. b.orders[id].side \in Sides /\ b.orders[id].amount \in Nat
  BY <1>1, <1>2, Zenon
<1>4. /\ b.orders[id].price \in Prices /\ IsBook(b)
      /\ b.levels \in [Sides -> [Prices -> Levels]]
  BY DEF Unplaced, NewOrder, Leaving, LevelsGood
<1>5. /\ \A x \in (0 .. MaxOrders) \ {id} : Erased(b.orders, id)[x] = b.orders[x]
      /\ Erased(b.orders, id)[id] = NoOrder
  BY <1>1 DEF Erased
<1>. QED  BY <1>1, <1>3, <1>4, <1>5

\* What AddToBook does to the level, if that is new, and before the price is.
WithFirst(b, b1, id, side, p) ==
  /\ side = b.orders[id].side /\ p = b.orders[id].price /\ ~b.levels[side][p].exists
  /\ b1 = [b EXCEPT !.levels[side][p] =
             [total |-> b.orders[id].amount, first |-> id, last |-> id, exists |-> TRUE]]

\* The first order of a level, whose price is new.
LEMMA AddingFirst ==
  ASSUME NEW b, NEW id \in Ids, Unplaced(b, id), NEW side, NEW p, NEW b1,
         WithFirst(b, b1, id, side, p)
  PROVE  Added(b, InsertPrice(b1, side, p), id)
<1>. DEFINE orders == Erased(b.orders, id)
            amount == b.orders[id].amount
            u == InsertPrice(b1, side, p)
<1>1. side = b.orders[id].side /\ p = b.orders[id].price
  BY DEF WithFirst
<1>2. /\ side \in Sides /\ p \in Prices /\ amount \in Nat /\ b.orders \in [0 .. MaxOrders -> Orders]
      /\ b.levels \in [Sides -> [Prices -> Levels]] /\ IsBook(b)
      /\ \A x \in (0 .. MaxOrders) \ {id} : orders[x] = b.orders[x]
  BY <1>1, UnplacedFacts
<1>3. OrdersGood(orders, b.nextId, {}) /\ LevelsGood(orders, b.levels) /\ PricesGood(b, {})
  BY DEF Unplaced, Leaving
<1>4. b.levels[side][p] = NoLevel
  <2>1. PICK q : QueueIs(orders, side, p, q) /\ b.levels[side][p] = LevelOf(orders, q)
    BY <1>2, <1>3 DEF LevelsGood, LevelGood
  <2>2. Len(q) = 0
    BY <2>1 DEF LevelOf, WithFirst
  <2>. QED  BY <2>1, <2>2 DEF LevelOf
<1>5. PICK fresh : fresh = LevelGains(b.levels[side][p], id, amount)
  OBVIOUS
<1>6. b1 = [b EXCEPT !.levels[side][p] = fresh]
  <2>1. NoLevel.total + amount = amount /\ NoLevel.first = 0
    BY <1>2 DEF NoLevel
  <2>2. (IF NoLevel.first = 0 THEN id ELSE NoLevel.first) = id
    BY <2>1
  <2>3. fresh = [total |-> amount, first |-> id, last |-> id, exists |-> TRUE]
    BY <1>4, <1>5, <2>1, <2>2, Zenon DEF LevelGains
  <2>. QED  BY <2>3, Zenon DEF WithFirst
<1>7. /\ IsBook(b1) /\ b1.levels = [b.levels EXCEPT ![side][p] = fresh]
      /\ b1.orders = b.orders /\ b1.next = b.next /\ b1.prev = b.prev /\ b1.head = b.head
      /\ b1.best = b.best /\ b1.listed = b.listed /\ b1.index = b.index
      /\ b1.reserved = b.reserved /\ b1.nextId = b.nextId /\ b1.ok = b.ok
  <2>. HIDE DEF amount
  <2>. QED  BY <1>2, <1>6 DEF IsBook
<1>8. Joins(orders, b.orders, id, b.levels[side][p].last)
  <2>1. b.levels[side][p].last = 0
    BY <1>4 DEF NoLevel
  <2>. HIDE DEF orders
  <2>2. \A x \in (0 .. MaxOrders) \ {id} : SameTerms(orders[x], b.orders[x])
    BY <1>2 DEF SameTerms
  <2>. QED  BY <1>2, <2>1, <2>2 DEF Joins, Unplaced
<1>9. NewOrder(orders, b.nextId, b.orders, id)
  BY DEF Unplaced
<1>10. /\ OrdersGood(b.orders, b.nextId, {}) /\ LevelsGood(b.orders, b1.levels)
       /\ LevelGrows(b.levels, b1.levels, side, p)
  <2>1. LevelsGain(b.levels, b1.levels, side, p, id, b.orders[id].amount)
    BY <1>5, <1>7 DEF LevelsGain
  <2>2. PICK last : last = b.levels[side][p].last
    OBVIOUS
  <2>3. PlacedOn(b.orders, b.levels, id, side, p, last)
    BY <1>1, <2>2 DEF PlacedOn
  <2>4. Joins(orders, b.orders, id, last)
    BY <1>8, <2>2
  <2>. HIDE DEF orders
  <2>. QED  BY <1>3, <1>9, <2>1, <2>3, <2>4, LevelsJoined
<1>11. PICK s : PricesAre(b.levels, b.next, b.prev, side, s) /\ b.head[side] = FirstOf(s)
  BY <1>2, <1>3 DEF PricesGood, HeadGood
<1>12. p \in Prices \ Range(s)
  <2>1. Range(s) = {q \in Prices : b.levels[side][q].exists}
    BY <1>11 DEF PricesAre
  <2>2. ~b.levels[side][p].exists
    BY DEF WithFirst
  <2>. QED  BY <1>2, <2>1, <2>2
<1>13. Entering(b1, side, b.levels, s, p)
  BY <1>2, <1>3, <1>7, <1>10, <1>11, <1>12 DEF Entering, PricesGood, LevelGrows
<1>14. PriceEnters(b1, u, side, p)
  BY <1>13, InsertingPrice
<1>. HIDE DEF u
<1>15. /\ IsBook(u) /\ u.orders = b.orders /\ u.levels = b1.levels /\ u.best = b.best
       /\ u.listed = b.listed /\ u.index = b.index /\ u.reserved = b.reserved
       /\ u.nextId = b.nextId /\ u.ok = b.ok /\ HeadGood(u, {}, side)
  BY <1>7, <1>14 DEF PriceEnters, PricesChange
<1>16. u.head[side] = HeadWith(b, side, p)
  BY <1>7, <1>14 DEF PriceEnters, HeadWith
<1>17. /\ u.next = [b.next EXCEPT ![side] = u.next[side]]
       /\ u.prev = [b.prev EXCEPT ![side] = u.prev[side]]
       /\ u.head = [b.head EXCEPT ![side] = u.head[side]]
       /\ u.next[side] \in [Prices -> Prices0] /\ u.prev[side] \in [Prices -> Prices0]
       /\ u.head[side] \in Prices0
  <2>1. PricesChange(b1, u, side)
    BY <1>14 DEF PriceEnters
  <2>2. b1.next = b.next /\ b1.prev = b.prev /\ b1.head = b.head
    BY <1>7
  <2>3. /\ u.next = [b1.next EXCEPT ![side] = u.next[side]]
        /\ u.prev = [b1.prev EXCEPT ![side] = u.prev[side]]
        /\ u.head = [b1.head EXCEPT ![side] = u.head[side]]
        /\ u.next[side] \in [Prices -> Prices0] /\ u.prev[side] \in [Prices -> Prices0]
        /\ u.head[side] \in Prices0
    BY <2>1, Zenon DEF PricesChange
  <2>. QED  BY <2>2, <2>3, Zenon
<1>18. b.next \in Pointers /\ b.prev \in Pointers /\ b.head \in [Sides -> Prices0]
  BY <1>3 DEF PricesGood
<1>19. /\ u.next \in Pointers /\ u.prev \in Pointers /\ u.head \in [Sides -> Prices0]
       /\ \A x \in Sides \ {side} : /\ u.next[x] = b.next[x] /\ u.prev[x] = b.prev[x]
                                    /\ u.head[x] = b.head[x]
  <2>1. u.next \in Pointers /\ \A x \in Sides \ {side} : u.next[x] = b.next[x]
    BY <1>17, <1>18 DEF Pointers
  <2>2. u.prev \in Pointers /\ \A x \in Sides \ {side} : u.prev[x] = b.prev[x]
    BY <1>17, <1>18 DEF Pointers
  <2>3. u.head \in [Sides -> Prices0] /\ \A x \in Sides \ {side} : u.head[x] = b.head[x]
    BY <1>17, <1>18
  <2>. QED  BY <2>1, <2>2, <2>3
<1>20. PricesGood(u, {})
  <2>1. ASSUME NEW x \in Sides PROVE HeadGood(u, {}, x)
    <3>1. CASE x = side
      BY <1>15, <3>1
    <3>2. CASE x # side
      <4>1. HeadGood(b, {}, x)
        BY <1>3 DEF PricesGood
      <4>2. u.levels[x] = b.levels[x] /\ u.next[x] = b.next[x] /\ u.prev[x] = b.prev[x]
            /\ u.head[x] = b.head[x]
        BY <1>10, <1>15, <1>19, <3>2 DEF LevelGrows
      <4>. QED  BY <4>1, <4>2, OtherHeadStays
    <3>. QED  BY <3>1, <3>2
  <2>. QED  BY <1>19, <2>1 DEF PricesGood
<1>21. \A x \in 0 .. MaxOrders : SameTerms(b.orders[x], u.orders[x])
  BY <1>15 DEF SameTerms
<1>22. Added(b, u, id)
  BY <1>1, <1>10, <1>15, <1>16, <1>19, <1>20, <1>21 DEF Added
<1>. QED  BY <1>22 DEF u

\* What AddToBook does to a level that has orders.
WithLast(b, u, id, side, p, level) ==
  /\ side = b.orders[id].side /\ p = b.orders[id].price /\ level = b.levels[side][p]
  /\ level.exists
  /\ u = [b EXCEPT !.orders[level.last].next = id, !.orders[id].prev = level.last,
                   !.levels[side][p].last = id,
                   !.levels[side][p].total = @ + b.orders[id].amount]

\* The order behind the last one of a level.
LEMMA AddingBehind ==
  ASSUME NEW b, NEW id \in Ids, Unplaced(b, id), NEW side, NEW p, NEW level, NEW u,
         WithLast(b, u, id, side, p, level)
  PROVE  Added(b, u, id)
<1>. DEFINE orders == Erased(b.orders, id)
            amount == b.orders[id].amount
            last == level.last
<1>1. side = b.orders[id].side /\ p = b.orders[id].price /\ level = b.levels[side][p]
  BY DEF WithLast
<1>2. /\ side \in Sides /\ p \in Prices /\ amount \in Nat /\ b.orders \in [0 .. MaxOrders -> Orders]
      /\ b.levels \in [Sides -> [Prices -> Levels]] /\ IsBook(b)
      /\ \A x \in (0 .. MaxOrders) \ {id} : orders[x] = b.orders[x]
      /\ orders[id] = NoOrder /\ id \in 0 .. MaxOrders
  BY <1>1, UnplacedFacts, BookConstants
<1>3. OrdersGood(orders, b.nextId, {}) /\ LevelsGood(orders, b.levels) /\ PricesGood(b, {})
  BY DEF Unplaced, Leaving
<1>4. PICK q : QueueIs(orders, side, p, q) /\ level = LevelOf(orders, q)
  BY <1>1, <1>2, <1>3 DEF LevelsGood, LevelGood
<1>5. /\ last \in 0 .. MaxOrders /\ last # 0 /\ last # id
      /\ level.first # 0 /\ level.exists = TRUE
  <2>1. Len(q) # 0
    BY <1>4 DEF LevelOf, NoLevel, WithLast
  <2>2. last = LastOf(q) /\ level.first = FirstOf(q) /\ level.exists = TRUE
    BY <1>4, <2>1 DEF LevelOf
  <2>3. orders \in [0 .. MaxOrders -> Orders]
    BY <1>3 DEF OrdersGood
  <2>. HIDE DEF orders, last
  <2>4. Len(q) \in 1 .. Len(q) /\ 1 \in 1 .. Len(q)
    BY <1>4, <2>1, <2>3, QueueFacts
  <2>5. /\ q[Len(q)] \in 0 .. MaxOrders /\ q[Len(q)] # 0 /\ q[1] # 0
        /\ Belongs(orders, side, p, q[Len(q)])
    BY <1>4, <2>3, <2>4, QueueFacts
  <2>6. last # id
    <3>1. last = q[Len(q)]
      BY <2>1, <2>2 DEF LastOf
    <3>2. orders[last].trader # NULL
      BY <2>5, <3>1 DEF Belongs
    <3>. QED  BY <1>2, <3>2 DEF NoOrder
  <2>. QED  BY <2>1, <2>2, <2>5, <2>6 DEF LastOf, FirstOf
<1>. HIDE DEF last
<1>. DEFINE f1 == [b.orders EXCEPT ![last].next = id]
            f2 == [f1 EXCEPT ![id].prev = last]
            l1 == [b.levels EXCEPT ![side][p].last = id]
            l2 == [l1 EXCEPT ![side][p].total = b.levels[side][p].total + amount]
            grown == LevelGains(level, id, amount)
<1>6. /\ IsBook(u) /\ u.orders = f2 /\ u.levels = l2
      /\ u.next = b.next /\ u.prev = b.prev /\ u.head = b.head
      /\ u.best = b.best /\ u.listed = b.listed /\ u.index = b.index
      /\ u.reserved = b.reserved /\ u.nextId = b.nextId /\ u.ok = b.ok
  <2>1. u = [[[[b EXCEPT !.orders[last].next = id] EXCEPT !.orders[id].prev = last]
               EXCEPT !.levels[side][p].last = id]
               EXCEPT !.levels[side][p].total = b.levels[side][p].total + b.orders[id].amount]
    BY DEF last, WithLast
  <2>. DEFINE c1 == [b EXCEPT !.orders[last].next = id]
              c2 == [c1 EXCEPT !.orders[id].prev = last]
              c3 == [c2 EXCEPT !.levels[side][p].last = id]
  <2>2. /\ IsBook(c1) /\ c1.orders = f1 /\ c1.levels = b.levels
        /\ c1.next = b.next /\ c1.prev = b.prev /\ c1.head = b.head
        /\ c1.best = b.best /\ c1.listed = b.listed /\ c1.index = b.index
        /\ c1.reserved = b.reserved /\ c1.nextId = b.nextId /\ c1.ok = b.ok
    BY <1>2 DEF IsBook
  <2>. HIDE DEF c1, f1
  <2>3. /\ IsBook(c2) /\ c2.orders = f2 /\ c2.levels = b.levels
        /\ c2.next = b.next /\ c2.prev = b.prev /\ c2.head = b.head
        /\ c2.best = b.best /\ c2.listed = b.listed /\ c2.index = b.index
        /\ c2.reserved = b.reserved /\ c2.nextId = b.nextId /\ c2.ok = b.ok
    BY <2>2 DEF IsBook
  <2>. HIDE DEF c2, f2
  <2>4. /\ IsBook(c3) /\ c3.orders = f2 /\ c3.levels = l1
        /\ c3.next = b.next /\ c3.prev = b.prev /\ c3.head = b.head
        /\ c3.best = b.best /\ c3.listed = b.listed /\ c3.index = b.index
        /\ c3.reserved = b.reserved /\ c3.nextId = b.nextId /\ c3.ok = b.ok
    BY <2>3 DEF IsBook
  <2>5. u = [c3 EXCEPT !.levels[side][p].total = b.levels[side][p].total + amount]
    BY <2>1, Zenon DEF c1, c2, c3
  <2>. HIDE DEF c3, l1, amount
  <2>. QED  BY <2>4, <2>5 DEF IsBook
<1>7. /\ f2 \in [0 .. MaxOrders -> Orders]
      /\ f2[id] = [b.orders[id] EXCEPT !.prev = last]
      /\ f2[last] = [b.orders[last] EXCEPT !.next = id]
      /\ \A x \in (0 .. MaxOrders) \ {id, last} : f2[x] = b.orders[x]
  <2>1. \A o \in Orders : [o EXCEPT !.next = id] \in Orders /\ [o EXCEPT !.prev = last] \in Orders
    BY <1>2, <1>5 DEF Orders
  <2>2. b.orders[last] \in Orders /\ b.orders[id] \in Orders
    BY <1>2, <1>5
  <2>3. PICK o1 : o1 = [b.orders[last] EXCEPT !.next = id]
    OBVIOUS
  <2>4. PICK o2 : o2 = [b.orders[id] EXCEPT !.prev = last]
    OBVIOUS
  <2>5. o1 \in Orders /\ o2 \in Orders
    BY <2>1, <2>2, <2>3, <2>4
  <2>6. f1 = [b.orders EXCEPT ![last] = o1]
    BY <2>3
  <2>. HIDE DEF f1
  <2>7. f1[id] = b.orders[id] /\ f1 \in [0 .. MaxOrders -> Orders]
    BY <1>2, <1>5, <2>5, <2>6
  <2>8. f2 = [f1 EXCEPT ![id] = o2]
    BY <2>4, <2>7
  <2>. HIDE DEF f2
  <2>9. f2 \in [0 .. MaxOrders -> Orders] /\ f2[id] = o2 /\ f2[last] = o1
        /\ \A x \in (0 .. MaxOrders) \ {id, last} : f2[x] = b.orders[x]
    BY <1>2, <1>5, <2>5, <2>6, <2>7, <2>8
  <2>. QED  BY <2>3, <2>4, <2>9
<1>. HIDE DEF f1, f2
<1>8. /\ f2[id].next = 0 /\ f2[id].prev = last
      /\ \A x \in 0 .. MaxOrders : SameTerms(b.orders[x], f2[x])
      /\ \A x \in (0 .. MaxOrders) \ {id} :
           /\ f2[x].next = IF x = last /\ x # 0 THEN id ELSE b.orders[x].next
           /\ f2[x].prev = b.orders[x].prev
  <2>1. b.orders[id] \in Orders /\ b.orders[last] \in Orders /\ b.orders[id].next = 0
    BY <1>2, <1>5 DEF Unplaced
  <2>2. \A o \in Orders :
          /\ SameTerms(o, [o EXCEPT !.next = id])
          /\ [o EXCEPT !.next = id].next = id
                          /\ [o EXCEPT !.next = id].prev = o.prev
    BY DEF Orders, SameTerms
  <2>3. \A o \in Orders :
          /\ SameTerms(o, [o EXCEPT !.prev = last])
          /\ [o EXCEPT !.prev = last].prev = last
                          /\ [o EXCEPT !.prev = last].next = o.next
    BY DEF Orders, SameTerms
  <2>4. /\ SameTerms(b.orders[id], f2[id]) /\ f2[id].next = 0 /\ f2[id].prev = last
        /\ SameTerms(b.orders[last], f2[last]) /\ f2[last].next = id
        /\ f2[last].prev = b.orders[last].prev
    <3>1. /\ SameTerms(b.orders[id], f2[id]) /\ f2[id].prev = last
          /\ f2[id].next = b.orders[id].next
      BY <1>7, <2>1, <2>3
    <3>2. /\ SameTerms(b.orders[last], f2[last]) /\ f2[last].next = id
          /\ f2[last].prev = b.orders[last].prev
      BY <1>7, <2>1, <2>2
    <3>. QED  BY <2>1, <3>1, <3>2
  <2>5. \A x \in (0 .. MaxOrders) \ {id, last} :
          /\ SameTerms(b.orders[x], f2[x]) /\ f2[x].next = b.orders[x].next
          /\ f2[x].prev = b.orders[x].prev
    BY <1>7 DEF SameTerms
  <2>. QED  BY <1>5, <2>4, <2>5
<1>9. Joins(orders, f2, id, last)
  <2>1. ASSUME NEW x \in (0 .. MaxOrders) \ {id}
        PROVE  /\ SameTerms(orders[x], f2[x])
               /\ f2[x].next = IF x = last /\ x # 0 THEN id ELSE orders[x].next
               /\ f2[x].prev = orders[x].prev
    BY <1>2, <1>8
  <2>. HIDE DEF orders
  <2>. QED  BY <1>7, <1>8, <2>1 DEF Joins
<1>10. SameTerms(b.orders[id], f2[id])
  BY <1>2, <1>8
<1>11. /\ NewOrder(orders, b.nextId, f2, id) /\ f2[id].amount = amount /\ f2[id].side = side
       /\ f2[id].price = p
  BY <1>1, <1>10 DEF Unplaced, NewOrder, SameTerms
<1>12. l2 = [b.levels EXCEPT ![side][p] = grown]
  <2>1. PICK yes : yes = TRUE
    OBVIOUS
  <2>2. level \in [total: Nat, first: 0 .. MaxOrders, last: 0 .. MaxOrders, exists: BOOLEAN]
    BY <1>1, <1>2 DEF Levels
  <2>3. level.exists = yes
    BY <1>5, <2>1
  <2>4. level = [total |-> level.total, first |-> level.first, last |-> level.last, exists |-> yes]
    BY <2>2, <2>3
  <2>5. grown = [total |-> level.total + amount, first |-> level.first, last |-> id, exists |-> yes]
    <3>1. (IF level.first = 0 THEN id ELSE level.first) = level.first
      BY <1>5
    <3>. QED  BY <2>1, <3>1, Zenon DEF LevelGains
  <2>6. [[level EXCEPT !.last = id] EXCEPT !.total = level.total + amount] = grown
    <3>. DEFINE n == level.total + amount
                plain == [total |-> level.total, first |-> level.first, last |-> level.last,
                          exists |-> yes]
    <3>1. [[plain EXCEPT !.last = id] EXCEPT !.total = n]
            = [total |-> n, first |-> level.first, last |-> id, exists |-> yes]
      <4>. DEFINE one == [total |-> level.total, first |-> level.first, last |-> id, exists |-> yes]
      <4>. HIDE DEF n
      <4>1. [plain EXCEPT !.last = id] = one
        OBVIOUS
      <4>2. [one EXCEPT !.total = n]
              = [total |-> n, first |-> level.first, last |-> id, exists |-> yes]
        OBVIOUS
      <4>. QED  BY <4>1, <4>2, Zenon
    <3>. QED  BY <2>4, <2>5, <3>1, Zenon
  <2>7. l1[side][p] = [level EXCEPT !.last = id]
    BY <1>1, <1>2
  <2>8. [level EXCEPT !.last = id].total = level.total
    BY <2>2
  <2>9. l2[side][p] = grown
    <3>1. l1 \in [Sides -> [Prices -> Levels]]
      <4>1. PICK z : z = [level EXCEPT !.last = id]
        OBVIOUS
      <4>2. z \in Levels
        BY <1>2, <2>2, <4>1 DEF Levels
      <4>3. l1 = [b.levels EXCEPT ![side][p] = z]
        BY <1>1, <4>1
      <4>. HIDE DEF l1
      <4>. QED  BY <1>2, <4>2, <4>3
    <3>. HIDE DEF l1, grown, amount
    <3>2. l2[side][p] = [l1[side][p] EXCEPT !.total = level.total + amount]
      BY <1>1, <1>2, <3>1
    <3>. QED  BY <2>6, <2>7, <3>2
  <2>10. PICK y : y = [level EXCEPT !.last = id]
    OBVIOUS
  <2>11. l1 = [b.levels EXCEPT ![side][p] = y]
    BY <1>1, <2>10
  <2>12. l2 = [l1 EXCEPT ![side][p] = [y EXCEPT !.total = level.total + amount]]
    <3>1. l1[side][p] = y
      BY <2>7, <2>10
    <3>. HIDE DEF l1, amount
    <3>. QED  BY <1>1, <3>1
  <2>13. [y EXCEPT !.total = level.total + amount] = grown
    BY <2>6, <2>10
  <2>. HIDE DEF l1, l2, grown, amount
  <2>14. l2 = [l1 EXCEPT ![side][p] = grown]
    BY <2>12, <2>13
  <2>. QED  BY <1>2, <2>11, <2>14
<1>. HIDE DEF l2, grown
<1>13. /\ OrdersGood(f2, b.nextId, {}) /\ LevelsGood(f2, l2)
       /\ LevelGrows(b.levels, l2, side, p)
  <2>1. LevelsGain(b.levels, l2, side, p, id, f2[id].amount)
    BY <1>1, <1>11, <1>12 DEF grown, LevelsGain
  <2>2. PlacedOn(f2, b.levels, id, side, p, last)
    BY <1>1, <1>11 DEF last, PlacedOn
  <2>. HIDE DEF orders
  <2>. QED  BY <1>3, <1>9, <1>11, <2>1, <2>2, LevelsJoined
<1>14. SameLevels(b.levels, l2)
  <2>1. \A x \in Sides, q2 \in Prices : l2[x][q2].exists = b.levels[x][q2].exists
    <3>1. l2[side][p].exists = b.levels[side][p].exists
      <4>1. l2[side][p] \in Levels
        BY <1>2, <1>13 DEF LevelsGood
      <4>2. l2[side][p].exists \in BOOLEAN /\ l2[side][p].exists
        BY <1>13, <4>1 DEF Levels, LevelGrows
      <4>. QED  BY <1>1, <1>5, <4>2
    <3>. QED  BY <1>13, <3>1 DEF LevelGrows, SameLive
  <2>. QED  BY <2>1 DEF SameLevels
<1>15. PricesGood(u, {})
  BY <1>3, <1>6, <1>14, SameLevelsSamePrices
<1>16. u.head[side] = HeadWith(b, side, p)
  <2>1. IsHead(b, side, b.head[side])
    BY <1>2, <1>3, HeadIsFirst
  <2>2. p \in Live(b, side)
    BY <1>1, <1>2 DEF Live, LevelExists, WithLast
  <2>3. b.head[side] \in Prices /\ (b.head[side] = p \/ Ahead(side, b.head[side], p))
    BY <2>1, <2>2 DEF IsHead, Live
  <2>4. b.head[side] # 0 /\ ~Ahead(side, p, b.head[side])
    <3>. DEFINE head == b.head[side]
    <3>1. head \in Prices /\ (head = p \/ Ahead(side, head, p))
      BY <2>3
    <3>. HIDE DEF head
    <3>2. head # 0 /\ ~Ahead(side, p, head)
      BY <1>2, <3>1, AheadIsOrder, BookConstants
    <3>. QED  BY <3>2 DEF head
  <2>. QED  BY <1>6, <2>4 DEF HeadWith
<1>. QED  BY <1>1, <1>6, <1>8, <1>13, <1>15, <1>16 DEF Added

\* The orders have changed in their pointers only.
KeepsTerms(b, c) ==
  c.nextId = b.nextId /\ \A x \in 0 .. MaxOrders : SameTerms(b.orders[x], c.orders[x])

\* The better price of the two is the best one.
LEMMA ImprovingBest ==
  ASSUME NEW b, NEW id \in Ids, Unplaced(b, id), BestsAre(b, {}), NEW u, Added(b, u, id)
  PROVE  LET c == ImproveBest(u, b.orders[id].side, b.orders[id].price)
         IN Sound(c, {}, {}, {}) /\ BestsAre(c, {}) /\ KeepsTerms(b, c)
<1>. DEFINE side == b.orders[id].side
            p == b.orders[id].price
            c == ImproveBest(u, side, p)
            v == HeadWith(b, side, p)
<1>1. side \in Sides /\ p \in Prices /\ b.orders \in [0 .. MaxOrders -> Orders]
  BY UnplacedFacts
<1>2. /\ IsBook(u) /\ OrdersGood(u.orders, b.nextId, {}) /\ LevelsGood(u.orders, u.levels)
      /\ PricesGood(u, {})
      /\ \A x \in 0 .. MaxOrders : SameTerms(b.orders[x], u.orders[x])
      /\ \A x \in Sides \ {side} : u.head[x] = b.head[x]
      /\ u.head[side] = v
      /\ u.best = b.best /\ u.listed = b.listed /\ u.index = b.index
      /\ u.reserved = b.reserved /\ u.nextId = b.nextId /\ u.ok = b.ok
  BY DEF Added
<1>3. /\ b.best \in [Sides -> Prices0] /\ b.ok
      /\ ListsGood(b.orders, b.listed, b.index)
      /\ ReservedGood(Erased(b.orders, id), b.reserved, {id})
  BY DEF Unplaced, Leaving
<1>4. \A x \in Sides : b.best[x] = b.head[x]
  BY DEF BestsAre, BestIs
<1>5. Sound(u, {}, {}, {})
  <2>1. u.orders \in [0 .. MaxOrders -> Orders]
    BY <1>2 DEF OrdersGood
  <2>2. ListsGood(u.orders, u.listed, u.index)
    <3>1. \A t \in Traders : OrdersOf(u.orders, t) = OrdersOf(b.orders, t)
      BY <1>2, BookConstants DEF OrdersOf, SameTerms
    <3>. QED  BY <1>2, <1>3, <3>1 DEF ListsGood
  <2>3. ReservedGood(u.orders, u.reserved, {})
    <3>1. u.reserved \in [Ids -> Nat]
      BY <1>2, <1>3 DEF ReservedGood
    <3>2. ASSUME NEW x \in Ids PROVE u.reserved[x] = Reservation(u.orders[x])
      <4>1. Reservation(u.orders[x]) = Reservation(b.orders[x])
        <5>1. SameTerms(b.orders[x], u.orders[x])
          BY <1>2, BookConstants
        <5>. QED  BY <5>1, Zenon DEF Reservation, SameTerms
      <4>2. CASE x = id
        BY <1>2, <4>1, <4>2 DEF Unplaced
      <4>3. CASE x # id
        <5>1. Erased(b.orders, id)[x] = b.orders[x]
          BY <4>3, UnplacedFacts, BookConstants
        <5>2. b.reserved[x] = Reservation(Erased(b.orders, id)[x])
          BY <1>3, <4>3 DEF ReservedGood
        <5>. QED  BY <1>2, <4>1, <5>1, <5>2
      <4>. QED  BY <4>2, <4>3
    <3>. QED  BY <3>1, <3>2 DEF ReservedGood
  <2>4. u.ok /\ u.best \in [Sides -> Prices0] /\ OrdersGood(u.orders, u.nextId, {})
    BY <1>2, <1>3
  <2>5. ReservedGood(u.orders, u.reserved, {} \cup {})
    BY <2>3 DEF ReservedGood
  <2>. QED  BY <1>2, <2>2, <2>4, <2>5 DEF Sound
<1>6. BestSet(u, c, side, v)
  <2>1. b.best[side] = b.head[side] /\ u.best = b.best
    BY <1>1, <1>2, <1>4
  <2>2. CASE u.best[side] = 0 \/ Ahead(side, p, u.best[side])
    <3>1. c = [u EXCEPT !.best[side] = p] /\ v = p
      BY <2>1, <2>2 DEF ImproveBest, HeadWith
    <3>. HIDE DEF c, v, side, p
    <3>. QED  BY <1>2, <3>1 DEF BestSet, IsBook
  <2>3. CASE ~(u.best[side] = 0 \/ Ahead(side, p, u.best[side]))
    <3>1. c = u /\ v = u.best[side]
      BY <2>1, <2>3 DEF ImproveBest, HeadWith
    <3>2. u.best = [u.best EXCEPT ![side] = v]
      BY <1>1, <1>2, <1>3, <3>1
    <3>. HIDE DEF c, v, side
    <3>. QED  BY <1>2, <3>1, <3>2 DEF BestSet
  <2>. QED  BY <2>2, <2>3
<1>7. v \in Prices0
  <2>1. u.head \in [Sides -> Prices0]
    BY <1>2 DEF PricesGood
  <2>. QED  BY <1>1, <1>2, <2>1
<1>. HIDE DEF c, v, side
<1>8. Sound(c, {}, {}, {})
  BY <1>1, <1>5, <1>6, <1>7, BestSetIsSound
<1>9. BestsAre(c, {})
  <2>1. \A x \in Sides : c.best[x] = c.head[x]
    BY <1>1, <1>2, <1>3, <1>4, <1>6 DEF BestSet
  <2>. QED  BY <2>1 DEF BestsAre, BestIs
<1>10. KeepsTerms(b, c)
  BY <1>2, <1>6 DEF BestSet, KeepsTerms
<1>. QED  BY <1>8, <1>9, <1>10 DEF c, side

\* _addToBuyBook and _addToSellBook.
LEMMA AddingToBook ==
  ASSUME NEW b, NEW id \in Ids, Unplaced(b, id), BestsAre(b, {})
  PROVE  /\ Sound(AddToBook(b, id), {}, {}, {}) /\ BestsAre(AddToBook(b, id), {})
         /\ KeepsTerms(b, AddToBook(b, id))
<1>. DEFINE side == b.orders[id].side
            p == b.orders[id].price
            level == b.levels[side][p]
            fresh == [total |-> b.orders[id].amount, first |-> id, last |-> id, exists |-> TRUE]
            b1 == [b EXCEPT !.levels[side][p] = fresh]
            first == InsertPrice(b1, side, p)
            behind == [b EXCEPT !.orders[level.last].next = id, !.orders[id].prev = level.last,
                                !.levels[side][p].last = id,
                                !.levels[side][p].total = @ + b.orders[id].amount]
<1>1. CASE ~level.exists
  <2>1. AddToBook(b, id) = ImproveBest(first, side, p)
    BY <1>1, Zenon DEF AddToBook
  <2>2. WithFirst(b, b1, id, side, p)
    BY <1>1, Zenon DEF WithFirst
  <2>. HIDE DEF b1
  <2>3. Added(b, first, id)
    BY <2>2, AddingFirst
  <2>. HIDE DEF first
  <2>. QED  BY <2>1, <2>3, ImprovingBest
<1>2. CASE level.exists
  <2>1. AddToBook(b, id) = ImproveBest(behind, side, p)
    BY <1>2, Zenon DEF AddToBook
  <2>2. WithLast(b, behind, id, side, p, level)
    BY <1>2, Zenon DEF WithLast
  <2>. HIDE DEF behind, side, p, level
  <2>3. Added(b, behind, id)
    BY <2>2, AddingBehind
  <2>. QED  BY <2>1, <2>3, ImprovingBest DEF side, p
<1>. QED  BY <1>1, <1>2

----------------------------------------------------------------------------
(* A new order rests. *)

\* The order of a call, as it is stored first.
HasTerms(q, t, side, price, amount) ==
  /\ q \in Orders
  /\ q.trader = t /\ q.side = side /\ q.price = price /\ q.amount = amount
  /\ q.margin = MarginRequired(amount, price, side) /\ q.next = 0 /\ q.prev = 0

\* A call of a trader with an order that the book can have.
MayPlace(t, side, price) == t \in Traders /\ side \in SidesOf[t] /\ price \in Prices

\* The order is stored, its margin reserved.
Stored(b, c, id, q) ==
  /\ IsBook(c) /\ c.orders = [b.orders EXCEPT ![id] = q]
  /\ c.reserved = [b.reserved EXCEPT ![id] = q.margin]
  /\ c.levels = b.levels /\ c.next = b.next /\ c.prev = b.prev /\ c.head = b.head
  /\ c.best = b.best /\ c.listed = b.listed /\ c.index = b.index
  /\ c.nextId = b.nextId /\ c.ok = b.ok

\* The list of a trader has a new entry.
ListedSo(listed, index, listed2, index2, t, id) ==
  /\ listed2 = [listed EXCEPT ![t] = Append(listed[t], id)]
  /\ index2 = [index EXCEPT ![t] = [index[t] EXCEPT ![id] = Len(listed[t]) + 1]]

\* And listed.
Entered(b, c, t, id) ==
  /\ IsBook(c) /\ c.orders = b.orders /\ c.reserved = b.reserved
  /\ c.levels = b.levels /\ c.next = b.next /\ c.prev = b.prev /\ c.head = b.head
  /\ c.best = b.best /\ c.nextId = b.nextId /\ c.ok = b.ok
  /\ ListedSo(b.listed, b.index, c.listed, c.index, t, id)

\* An id that no order has yet.
Unused(b, id) == id \in Ids /\ id = b.nextId - 1 /\ b.orders[id] = NoOrder

\* The list of a trader has the new order, and other lists stay.
LEMMA ListingOrder ==
  ASSUME NEW orders, orders \in [0 .. MaxOrders -> Orders], NEW id \in Ids, orders[id] = NoOrder,
         NEW after, after \in [0 .. MaxOrders -> Orders],
         \A x \in (0 .. MaxOrders) \ {id} : after[x] = orders[x],
         NEW t \in Traders, after[id].trader = t,
         NEW listed, NEW index, ListsGood(orders, listed, index),
         NEW listed2, NEW index2, ListedSo(listed, index, listed2, index2, t, id)
  PROVE  ListsGood(after, listed2, index2)
<1>1. /\ listed \in [Traders -> Seq(Ids)] /\ index \in [Traders -> [Ids -> Nat]]
      /\ \A x \in Traders : ListIs(listed[x], index[x], OrdersOf(orders, x))
  BY DEF ListsGood
<1>2. orders[id].trader = NULL
  BY DEF NoOrder
<1>3. id \notin OrdersOf(orders, t) /\ OrdersOf(after, t) = OrdersOf(orders, t) \cup {id}
  BY <1>2, BookConstants DEF OrdersOf
<1>4. \A x \in Traders \ {t} : OrdersOf(after, x) = OrdersOf(orders, x)
  BY <1>2, BookConstants DEF OrdersOf
<1>. DEFINE list == Append(listed[t], id)
            places == [index[t] EXCEPT ![id] = Len(listed[t]) + 1]
<1>5. ListIs(list, places, OrdersOf(after, t))
  <2>1. ListIs(listed[t], index[t], OrdersOf(orders, t))
    BY <1>1
  <2>. DEFINE l == listed[t]
              i == index[t]
              ids == OrdersOf(orders, t)
  <2>2. ListIs(l, i, ids) /\ id \notin ids
    BY <1>3, <2>1
  <2>. HIDE DEF l, i, ids
  <2>3. ListIs(Append(l, id), [i EXCEPT ![id] = Len(l) + 1], ids \cup {id})
    BY <2>2, AppendedIsList
  <2>. QED  BY <1>3, <2>3 DEF l, i, ids
<1>6. list \in Seq(Ids) /\ places \in [Ids -> Nat]
  <2>. HIDE DEF list, places
  <2>. QED  BY <1>5 DEF ListIs
<1>. HIDE DEF list, places
<1>7. listed2 = [listed EXCEPT ![t] = list] /\ index2 = [index EXCEPT ![t] = places]
  BY DEF list, places, ListedSo
<1>8. listed2 \in [Traders -> Seq(Ids)] /\ index2 \in [Traders -> [Ids -> Nat]]
  BY <1>1, <1>6, <1>7
<1>9. ASSUME NEW x \in Traders PROVE ListIs(listed2[x], index2[x], OrdersOf(after, x))
  <2>1. CASE x = t
    BY <1>1, <1>5, <1>7, <2>1
  <2>2. CASE x # t
    BY <1>1, <1>4, <1>7, <2>2
  <2>. QED  BY <2>1, <2>2
<1>. QED  BY <1>8, <1>9 DEF ListsGood

\* An order that rests is one that AddToBook can take.
LEMMA StoringOrder ==
  ASSUME NEW b, NEW id, Sound(b, {}, {id}, {}), BestsAre(b, {}), Unused(b, id),
         NEW t, NEW side, NEW price, MayPlace(t, side, price), NEW amount \in Nat, amount # 0,
         NEW q, HasTerms(q, t, side, price, amount),
         NEW c, Stored(b, c, id, q), NEW d, Entered(c, d, t, id)
  PROVE  Unplaced(d, id) /\ BestsAre(d, {})
<1>1. /\ id \in Ids /\ id \in 0 .. MaxOrders /\ id = b.nextId - 1 /\ b.orders[id] = NoOrder
      /\ t \in Traders /\ side \in SidesOf[t] /\ price \in Prices /\ t # NULL
  BY BookConstants DEF Unused, MayPlace
<1>2. /\ q \in Orders /\ q.trader = t /\ q.side = side /\ q.price = price /\ q.amount = amount
      /\ q.margin = MarginRequired(amount, price, side) /\ q.next = 0 /\ q.prev = 0
  BY DEF HasTerms
<1>3. /\ b.ok /\ b.best \in [Sides -> Prices0]
      /\ OrdersGood(b.orders, b.nextId, {}) /\ LevelsGood(b.orders, b.levels)
      /\ PricesGood(b, {}) /\ ListsGood(b.orders, b.listed, b.index)
      /\ ReservedGood(b.orders, b.reserved, {id} \cup {})
  BY DEF Sound
<1>4. b.orders \in [0 .. MaxOrders -> Orders] /\ b.reserved \in [Ids -> Nat]
  BY <1>3 DEF OrdersGood, ReservedGood
<1>5. /\ d.orders = [b.orders EXCEPT ![id] = q]
      /\ d.reserved = [b.reserved EXCEPT ![id] = q.margin]
      /\ d.levels = b.levels /\ d.next = b.next /\ d.prev = b.prev /\ d.head = b.head
      /\ d.best = b.best /\ d.nextId = b.nextId /\ d.ok = b.ok /\ IsBook(d)
      /\ ListedSo(b.listed, b.index, d.listed, d.index, t, id)
  BY DEF Stored, Entered
<1>6. /\ d.orders \in [0 .. MaxOrders -> Orders] /\ d.orders[id] = q
      /\ \A x \in (0 .. MaxOrders) \ {id} : d.orders[x] = b.orders[x]
  BY <1>1, <1>2, <1>4, <1>5
<1>7. Erased(d.orders, id) = b.orders
  BY <1>1, <1>4, <1>5 DEF Erased
<1>8. ListsGood(d.orders, d.listed, d.index)
  <2>. DEFINE f == d.orders
  <2>1. /\ f \in [0 .. MaxOrders -> Orders] /\ f[id].trader = t
        /\ \A x \in (0 .. MaxOrders) \ {id} : f[x] = b.orders[x]
    BY <1>2, <1>6
  <2>. HIDE DEF f
  <2>2. /\ id \in Ids /\ t \in Traders /\ b.orders \in [0 .. MaxOrders -> Orders]
        /\ b.orders[id] = NoOrder
    BY <1>1, <1>4
  <2>3. /\ ListsGood(b.orders, b.listed, b.index)
        /\ ListedSo(b.listed, b.index, d.listed, d.index, t, id)
    BY <1>3, <1>5
  <2>4. ListsGood(f, d.listed, d.index)
    BY <2>1, <2>2, <2>3, ListingOrder
  <2>. QED  BY <2>4 DEF f
<1>9. q.margin \in Nat
  BY <1>2 DEF Orders
<1>10. ReservedGood(b.orders, d.reserved, {id}) /\ d.reserved[id] = q.margin
  BY <1>1, <1>3, <1>4, <1>5, <1>9 DEF ReservedGood
<1>11. PricesGood(d, {})
  BY <1>3, <1>5, PricesStayGood
<1>12. Leaving(d, {}, {}, id)
  <2>1. ReservedGood(Erased(d.orders, id), d.reserved, {} \cup {id})
    BY <1>7, <1>10 DEF ReservedGood
  <2>2. OrdersGood(Erased(d.orders, id), d.nextId, {}) /\ LevelsGood(Erased(d.orders, id), d.levels)
    BY <1>3, <1>5, <1>7
  <2>. QED  BY <1>1, <1>2, <1>3, <1>5, <1>6, <1>8, <1>11, <2>1, <2>2 DEF Leaving
<1>13. NewOrder(Erased(d.orders, id), d.nextId, d.orders, id)
  BY <1>1, <1>2, <1>5, <1>6, <1>7 DEF NewOrder
<1>14. d.reserved[id] = Reservation(d.orders[id])
  BY <1>1, <1>2, <1>6, <1>10 DEF Reservation
<1>15. BestsAre(d, {})
  BY <1>5 DEF BestsAre, BestIs
<1>. QED  BY <1>2, <1>6, <1>12, <1>13, <1>14, <1>15 DEF Unplaced

\* An order with what was placed, left being left of it.
IsPlaced(o, t, side, price, left) ==
  o.trader = t /\ o.side = side /\ o.price = price /\ o.amount = left

\* The order, if anything is left of it, rests; the others keep their terms.
RestedSo(b, c, id, t, side, price, left) ==
  /\ \A x \in (0 .. MaxOrders) \ {id} : SameTerms(b.orders[x], c.orders[x])
  /\ c.nextId = b.nextId
  /\ \/ c.orders[id].trader = NULL /\ left = 0
     \/ IsPlaced(c.orders[id], t, side, price, left) /\ left # 0

\* Rest, of an order of which something is left.
LEMMA RestingSome ==
  ASSUME NEW b, NEW id, Sound(b, {}, {id}, {}), BestsAre(b, {}), Unused(b, id),
         NEW t, NEW side, NEW price, MayPlace(t, side, price), NEW amount \in Nat, amount # 0,
         NEW o, o \in Orders, o.trader = t, o.side = side, o.price = price, o.amount = amount,
         o.next = 0, o.prev = 0
  PROVE  /\ Sound(Rest(b, id, o), {}, {}, {}) /\ BestsAre(Rest(b, id, o), {})
         /\ RestedSo(b, Rest(b, id, o), id, t, side, price, amount)
<1>. DEFINE margin == MarginRequired(amount, price, side)
            q == [o EXCEPT !.margin = margin]
            c == [b EXCEPT !.orders[id] = q, !.reserved[id] = margin]
            d == ListOrder(c, t, id)
<1>1. /\ IsBook(b) /\ id \in Ids /\ t \in Traders /\ side \in Sides /\ price \in Nat
  BY BookConstants, BookAssumption DEF Sound, Unused, MayPlace, Sides
<1>2. margin \in Nat
  BY <1>1, BookAssumption DEF MarginRequired
<1>. HIDE DEF margin
<1>3. HasTerms(q, t, side, price, amount)
  <2>1. q \in Orders /\ q.margin = margin
    BY <1>2 DEF Orders
  <2>2. /\ q.trader = t /\ q.side = side /\ q.price = price /\ q.amount = amount
        /\ q.next = 0 /\ q.prev = 0
    BY DEF Orders
  <2>. HIDE DEF q
  <2>. QED  BY <2>1, <2>2 DEF HasTerms, margin
<1>4. Rest(b, id, o) = AddToBook(d, id)
  <2>1. o.amount > 0 /\ MarginRequired(o.amount, o.price, o.side) = margin /\ o.trader = t
    BY DEF margin
  <2>. QED  BY <2>1, Zenon DEF Rest, c, d, q
<1>5. Stored(b, c, id, q)
  <2>1. q.margin = margin
    BY DEF Orders
  <2>. HIDE DEF q
  <2>2. IsBook(c)
    BY <1>1 DEF IsBook
  <2>3. /\ c.orders = [b.orders EXCEPT ![id] = q]
        /\ c.reserved = [b.reserved EXCEPT ![id] = margin]
        /\ c.levels = b.levels /\ c.next = b.next /\ c.prev = b.prev /\ c.head = b.head
        /\ c.best = b.best /\ c.listed = b.listed /\ c.index = b.index
        /\ c.nextId = b.nextId /\ c.ok = b.ok
    BY <1>1 DEF IsBook
  <2>. HIDE DEF c
  <2>. QED  BY <2>1, <2>2, <2>3 DEF Stored
<1>. HIDE DEF c, q
<1>6. Entered(c, d, t, id)
  <2>1. IsBook(c) /\ c.listed = b.listed /\ c.index = b.index
    BY <1>5 DEF Stored
  <2>2. b.index \in [Traders -> [Ids -> Nat]]
    BY DEF Sound, ListsGood
  <2>. DEFINE n == Len(c.listed[t]) + 1
              d1 == [c EXCEPT !.listed[t] = Append(c.listed[t], id)]
  <2>3. /\ IsBook(d1) /\ d1.listed = [c.listed EXCEPT ![t] = Append(c.listed[t], id)]
        /\ d1.orders = c.orders /\ d1.reserved = c.reserved /\ d1.index = c.index
        /\ d1.levels = c.levels /\ d1.next = c.next /\ d1.prev = c.prev /\ d1.head = c.head
        /\ d1.best = c.best /\ d1.nextId = c.nextId /\ d1.ok = c.ok
    BY <2>1 DEF IsBook
  <2>4. d = [d1 EXCEPT !.index[t][id] = n]
    BY Zenon DEF ListOrder
  <2>. HIDE DEF d1, n, d
  <2>5. /\ IsBook(d) /\ d.listed = d1.listed
        /\ d.index = [d1.index EXCEPT ![t][id] = n]
        /\ d.orders = c.orders /\ d.reserved = c.reserved
        /\ d.levels = c.levels /\ d.next = c.next /\ d.prev = c.prev /\ d.head = c.head
        /\ d.best = c.best /\ d.nextId = c.nextId /\ d.ok = c.ok
    BY <2>3, <2>4 DEF IsBook
  <2>6. d.index = [c.index EXCEPT ![t] = [c.index[t] EXCEPT ![id] = n]]
    BY <1>1, <2>1, <2>2, <2>3, <2>5
  <2>7. ListedSo(c.listed, c.index, d.listed, d.index, t, id)
    BY <2>3, <2>5, <2>6, Zenon DEF ListedSo, n
  <2>. QED  BY <2>5, <2>7 DEF Entered
<1>. HIDE DEF d
<1>7. Unplaced(d, id) /\ BestsAre(d, {})
  BY <1>3, <1>5, <1>6, StoringOrder
<1>8. /\ Sound(AddToBook(d, id), {}, {}, {}) /\ BestsAre(AddToBook(d, id), {})
      /\ KeepsTerms(d, AddToBook(d, id))
  BY <1>1, <1>7, AddingToBook
<1>. DEFINE e == AddToBook(d, id)
<1>9. KeepsTerms(d, e)
  BY <1>8
<1>. HIDE DEF e
<1>10. RestedSo(b, e, id, t, side, price, amount)
  <2>1. /\ id \in 0 .. MaxOrders /\ b.orders \in [0 .. MaxOrders -> Orders]
        /\ d.orders = [b.orders EXCEPT ![id] = q]
    BY <1>1, <1>5, <1>6, BookConstants DEF Stored, Entered, Sound, OrdersGood
  <2>2. d.orders[id] = q /\ \A x \in (0 .. MaxOrders) \ {id} : d.orders[x] = b.orders[x]
    BY <2>1
  <2>3. SameTerms(q, e.orders[id])
    BY <1>9, <2>1, <2>2 DEF KeepsTerms
  <2>4. IsPlaced(e.orders[id], t, side, price, amount)
    BY <1>3, <2>3 DEF HasTerms, SameTerms, IsPlaced
  <2>5. e.nextId = b.nextId
    BY <1>5, <1>6, <1>9 DEF Stored, Entered, KeepsTerms
  <2>. QED  BY <1>9, <2>2, <2>4, <2>5 DEF KeepsTerms, RestedSo
<1>. QED  BY <1>4, <1>8, <1>10 DEF e

\* Of an order that is filled nothing stays reserved.
LEMMA RestingNone ==
  ASSUME NEW b, NEW id, Sound(b, {}, {id}, {}), BestsAre(b, {}), Unused(b, id),
         NEW o, o.amount = 0, NEW t, NEW side, NEW price, NEW left, left = 0
  PROVE  /\ Sound(Rest(b, id, o), {}, {}, {}) /\ BestsAre(Rest(b, id, o), {})
         /\ RestedSo(b, Rest(b, id, o), id, t, side, price, left)
<1>. DEFINE c == Rest(b, id, o)
<1>1. /\ IsBook(b) /\ b.ok /\ b.best \in [Sides -> Prices0]
      /\ OrdersGood(b.orders, b.nextId, {}) /\ LevelsGood(b.orders, b.levels)
      /\ PricesGood(b, {}) /\ ListsGood(b.orders, b.listed, b.index)
      /\ ReservedGood(b.orders, b.reserved, {id} \cup {})
  BY DEF Sound
<1>2. c = [b EXCEPT !.reserved[id] = 0]
  <2>1. ~(o.amount > 0)
    OBVIOUS
  <2>. QED  BY <2>1, Zenon DEF Rest
<1>. HIDE DEF c
<1>3. /\ IsBook(c) /\ c.reserved = [b.reserved EXCEPT ![id] = 0]
      /\ c.orders = b.orders /\ c.levels = b.levels /\ c.next = b.next /\ c.prev = b.prev
      /\ c.head = b.head /\ c.best = b.best /\ c.listed = b.listed /\ c.index = b.index
      /\ c.nextId = b.nextId /\ c.ok = b.ok
  BY <1>1, <1>2 DEF IsBook
<1>4. Reservation(b.orders[id]) = 0
  BY DEF Unused, Reservation, NoOrder
<1>5. ReservedGood(c.orders, c.reserved, {} \cup {})
  <2>1. id \in Ids /\ b.reserved \in [Ids -> Nat]
    BY <1>1 DEF ReservedGood, Unused
  <2>2. c.reserved \in [Ids -> Nat]
    BY <1>3, <2>1
  <2>3. ASSUME NEW x \in Ids PROVE c.reserved[x] = Reservation(c.orders[x])
    <3>1. x = id \/ b.reserved[x] = Reservation(b.orders[x])
      BY <1>1 DEF ReservedGood
    <3>. QED  BY <1>3, <1>4, <2>1, <3>1
  <2>. QED  BY <2>2, <2>3 DEF ReservedGood
<1>6. PricesGood(c, {})
  BY <1>1, <1>3, PricesStayGood
<1>7. BestsAre(c, {})
  BY <1>3 DEF BestsAre, BestIs
<1>8. Sound(c, {}, {}, {})
  BY <1>1, <1>3, <1>5, <1>6 DEF Sound
<1>9. RestedSo(b, c, id, t, side, price, left)
  <2>1. c.orders[id].trader = NULL
    BY <1>3 DEF Unused, NoOrder
  <2>. QED  BY <1>3, <2>1 DEF RestedSo, SameTerms
<1>. QED  BY <1>7, <1>8, <1>9 DEF c

\* The next id is given, and margin reserved for it.
IdTaken(b, c, E) ==
  /\ IsBook(c) /\ c.nextId = b.nextId + 1
  /\ c.reserved \in [Ids -> Nat] /\ \A x \in Ids \ E : c.reserved[x] = b.reserved[x]
  /\ c.orders = b.orders /\ c.levels = b.levels /\ c.next = b.next /\ c.prev = b.prev
  /\ c.head = b.head /\ c.best = b.best /\ c.listed = b.listed /\ c.index = b.index
  /\ c.ok = b.ok

\* That id is one no order has.
LEMMA TakingId ==
  ASSUME NEW b, Sound(b, {}, {}, {}), BestsAre(b, {}), NEW id, id = b.nextId, id <= MaxOrders,
         NEW E, E \subseteq {id}, NEW c, IdTaken(b, c, E)
  PROVE  Sound(c, {}, E, {}) /\ BestsAre(c, {}) /\ Unused(c, id)
<1>1. /\ b.ok /\ b.best \in [Sides -> Prices0]
      /\ OrdersGood(b.orders, b.nextId, {}) /\ LevelsGood(b.orders, b.levels)
      /\ PricesGood(b, {}) /\ ListsGood(b.orders, b.listed, b.index)
      /\ ReservedGood(b.orders, b.reserved, {} \cup {})
  BY DEF Sound
<1>2. /\ id \in 1 .. MaxOrders + 1 /\ b.orders \in [0 .. MaxOrders -> Orders]
      /\ MaxOrders \in Nat
  BY <1>1, BookConstants DEF OrdersGood
<1>3. id \in Ids /\ id \in 0 .. MaxOrders /\ id = c.nextId - 1
      /\ c.nextId \in 1 .. MaxOrders + 1
  BY <1>2, BookConstants DEF IdTaken
<1>4. b.orders[id] = NoOrder
  <2>1. id \notin 1 .. b.nextId - 1
    BY <1>2
  <2>. QED  BY <1>1, <1>3, <2>1 DEF OrdersGood
<1>5. OrdersGood(c.orders, c.nextId, {})
  <2>1. \A x \in 1 .. b.nextId - 1 : x \in 1 .. c.nextId - 1
    BY <1>2 DEF IdTaken
  <2>2. ASSUME NEW x \in 0 .. MaxOrders
        PROVE  \/ c.orders[x] = NoOrder
               \/ /\ x \in 1 .. c.nextId - 1
                  /\ c.orders[x].trader \in Traders /\ c.orders[x].price \in Prices
                  /\ c.orders[x].side \in SidesOf[c.orders[x].trader]
                  /\ x \in {} \/ c.orders[x].amount # 0
    <3>1. c.orders = b.orders
      BY DEF IdTaken
    <3>. QED  BY <1>1, <2>1, <3>1 DEF OrdersGood
  <2>3. c.orders \in [0 .. MaxOrders -> Orders]
    BY <1>2 DEF IdTaken
  <2>. QED  BY <1>3, <2>2, <2>3 DEF OrdersGood
<1>6. PricesGood(c, {})
  BY <1>1, PricesStayGood DEF IdTaken
<1>7. ReservedGood(c.orders, c.reserved, E \cup {})
  BY <1>1 DEF ReservedGood, IdTaken
<1>8. Sound(c, {}, E, {})
  BY <1>1, <1>5, <1>6, <1>7 DEF Sound, IdTaken
<1>9. BestsAre(c, {})
  BY DEF BestsAre, BestIs, IdTaken
<1>10. Unused(c, id)
  BY <1>3, <1>4 DEF Unused, IdTaken
<1>. QED  BY <1>8, <1>9, <1>10

\* When the matching is over for want of orders to match, no order of the other
\* side has a price that the limit accepts.
LEMMA NoneIsAccepted ==
  ASSUME NEW b, NEW m, NEW side \in Sides, NEW E, Matched(b, m, Other(side), E),
         NEW limit \in Nat, Done(m, side, limit), ~Stuck(m)
  PROVE  \A x \in Ids : \/ m.book.orders[x].trader = NULL
                       \/ m.book.orders[x].side = side
                       \/ ~Accepts(side, limit, m.book.orders[x].price)
<1>. DEFINE c == m.book
            maker == Other(side)
            h == c.head[maker]
<1>1. /\ Sound(c, {}, E, {}) /\ maker \in Sides /\ Sides = {side, maker}
      /\ m.price = h
  BY SidesAreTwo DEF Matched
<1>2. /\ OrdersGood(c.orders, c.nextId, {}) /\ LevelsGood(c.orders, c.levels)
      /\ PricesGood(c, {})
  BY <1>1 DEF Sound
<1>3. h = 0 \/ ~Accepts(side, limit, h)
  BY <1>1 DEF Done
<1>4. IsHead(c, maker, h)
  BY <1>1, <1>2, HeadIsFirst
<1>5. \A p \in Live(c, maker) : p \in Prices /\ p \in Nat /\ p # 0
  BY BookAssumption DEF Live
<1>6. ASSUME NEW p \in Live(c, maker) PROVE ~Accepts(side, limit, p)
  <2>1. h \in Live(c, maker) /\ (p = h \/ Ahead(maker, h, p))
    BY <1>4 DEF IsHead
  <2>2. ~Accepts(side, limit, h)
    BY <1>3, <1>5, <2>1
  <2>3. h \in Nat /\ p \in Nat
    BY <1>5, <2>1
  <2>. HIDE DEF h, c, maker
  <2>. QED  BY <2>1, <2>2, <2>3 DEF Accepts, Ahead, Other, Sides, maker
<1>7. ASSUME NEW x \in Ids, c.orders[x].trader # NULL, c.orders[x].side # side,
             Accepts(side, limit, c.orders[x].price)
      PROVE  FALSE
  <2>1. x \in 0 .. MaxOrders /\ c.orders[x] # NoOrder /\ c.orders \in [0 .. MaxOrders -> Orders]
    BY <1>2, <1>7, BookConstants DEF NoOrder, OrdersGood
  <2>2. c.orders[x].price \in Prices
    BY <1>2, <2>1 DEF OrdersGood
  <2>3. c.orders[x].side = maker
    <3>1. c.orders[x].side \in Sides
      BY <2>1 DEF Orders
    <3>. QED  BY <1>1, <1>7, <3>1
  <2>4. Belongs(c.orders, maker, c.orders[x].price, x)
    BY <1>7, <2>3 DEF Belongs
  <2>5. c.orders[x].price \in Live(c, maker)
    BY <1>1, <1>2, <2>2, <2>4, LiveHasOrders
  <2>. QED  BY <1>6, <1>7, <2>5
<1>. QED  BY <1>7 DEF c

\* What a limit order of book b leaves in book c.
PlacedSo(b, c, side, limit) ==
  LET id == b.nextId
  IN /\ \A x \in Ids \ {id} :
          c.orders[x].trader = NULL \/ SamePlace(b.orders[x], c.orders[x])
     /\ \/ c.orders[id].trader = NULL
        \/ /\ c.orders[id].side = side /\ c.orders[id].price = limit
           /\ \/ Cardinality(Lessened(b.orders, c.orders)) = MaxMatches
              \/ \A x \in Ids \ {id} : \/ c.orders[x].trader = NULL
                                      \/ c.orders[x].side = side
                                      \/ ~Accepts(side, limit, c.orders[x].price)

\* The new order rests beside orders it would match only at the limit of matches.
LEMMA PlacedAfterMatching ==
  ASSUME NEW b, NEW b1, NEW E, IdTaken(b, b1, E), NEW id, id = b.nextId, Unused(b1, id),
         NEW m, NEW side \in Sides, Matched(b1, m, Other(side), E),
         NEW limit \in Nat, Done(m, side, limit), Unused(m.book, id),
         NEW d, d.orders \in [0 .. MaxOrders -> Orders],
         NEW t, RestedSo(m.book, d, id, t, side, limit, m.left)
  PROVE  PlacedSo(b, d, side, limit)
<1>. DEFINE c == m.book
<1>1. /\ b.orders = b1.orders /\ id \in Ids /\ b1.orders[id] = NoOrder /\ c.orders[id] = NoOrder
      /\ Thins(b1, c, Ids) /\ \A x \in Ids : x \in 0 .. MaxOrders
  BY BookConstants DEF IdTaken, Unused, Matched
<1>2. \A x \in Ids \ {id} : SameTerms(c.orders[x], d.orders[x])
  BY <1>1 DEF RestedSo
<1>3. ASSUME NEW x \in Ids \ {id}
      PROVE  d.orders[x].trader = NULL \/ SamePlace(b.orders[x], d.orders[x])
  BY <1>1, <1>2 DEF Thins, SameTerms, SamePlace
<1>4. Lessened(b.orders, d.orders) = Lessened(b1.orders, c.orders)
  <2>1. NoOrder.amount = 0 /\ d.orders[id].amount \in Nat
    BY <1>1 DEF NoOrder, Orders
  <2>2. ASSUME NEW x \in Ids
        PROVE  d.orders[x].amount < b.orders[x].amount <=> c.orders[x].amount < b1.orders[x].amount
    <3>1. CASE x = id
      BY <1>1, <2>1, <3>1
    <3>2. CASE x # id
      BY <1>1, <1>2, <3>2 DEF SameTerms
    <3>. QED  BY <3>1, <3>2
  <2>. QED  BY <2>2 DEF Lessened
<1>5. CASE d.orders[id].trader = NULL
  BY <1>3, <1>5 DEF PlacedSo
<1>6. CASE d.orders[id].trader # NULL
  <2>1. d.orders[id].side = side /\ d.orders[id].price = limit /\ m.left # 0
    BY <1>6 DEF RestedSo, IsPlaced
  <2>2. CASE Stuck(m)
    <3>1. Cardinality(Lessened(b.orders, d.orders)) = MaxMatches
      BY <1>4, <2>1, <2>2 DEF Stuck, Matched, Counted
    <3>. QED  BY <1>3, <2>1, <3>1 DEF PlacedSo
  <2>3. CASE ~Stuck(m)
    <3>1. \A x \in Ids : \/ c.orders[x].trader = NULL \/ c.orders[x].side = side
                        \/ ~Accepts(side, limit, c.orders[x].price)
      BY <2>3, NoneIsAccepted
    <3>2. ASSUME NEW x \in Ids \ {id}
          PROVE  \/ d.orders[x].trader = NULL \/ d.orders[x].side = side
                 \/ ~Accepts(side, limit, d.orders[x].price)
      BY <1>2, <3>1 DEF SameTerms
    <3>. QED  BY <1>3, <2>1, <3>2 DEF PlacedSo
  <2>. QED  BY <2>2, <2>3
<1>. QED  BY <1>5, <1>6

\* m is what the matching of an order leaves of b, b1 being b when it begins.
MatchedWith(b, b1, m, E, t, side, limit, amount) ==
  /\ IdTaken(b, b1, E) /\ Sound(b1, {}, E, {}) /\ BestsAre(b1, {}) /\ Unused(b1, b.nextId)
  /\ m = Match(b1, t, side, limit, amount)
  /\ Matched(b1, m, Other(side), E) /\ Done(m, side, limit)

\* A limit order is matched, and what is left of it rests.
PlacedWith(b, c, t, side, limit, amount) ==
  \E b1, m : /\ MatchedWith(b, b1, m, {b.nextId}, t, side, limit, amount)
             /\ Unused(m.book, b.nextId)
             /\ RestedSo(m.book, c, b.nextId, t, side, limit, m.left)

\* _placeLimitOrder, stage by stage.
LEMMA PlacingStages ==
  ASSUME OneSided, NEW b, Sound(b, {}, {}, {}), BestsAre(b, {}), b.nextId <= MaxOrders,
         NEW t, NEW side, NEW price, MayPlace(t, side, price), NEW amount \in Nat,
         NEW c, c = PlaceLimitOrder(b, t, side, price, amount)
  PROVE  /\ Sound(c, {}, {}, {}) /\ BestsAre(c, {})
         /\ PlacedWith(b, c, t, side, price, amount)
<1>. DEFINE id == b.nextId
            margin == MarginRequired(amount, price, side)
            b1 == [b EXCEPT !.nextId = @ + 1, !.reserved[id] = margin]
            m == Match(b1, t, side, price, amount)
            o3 == [NoOrder EXCEPT !.trader = t, !.side = side, !.price = price]
            o == [o3 EXCEPT !.amount = m.left]
<1>1. /\ IsBook(b) /\ t \in Traders /\ side \in SidesOf[t] /\ side \in Sides
      /\ price \in Prices /\ price \in Nat
  BY BookConstants, BookAssumption DEF Sound, MayPlace, Sides
<1>2. margin \in Nat
  BY <1>1, BookAssumption DEF MarginRequired
<1>3. c = Rest(m.book, id, o)
  BY Zenon DEF PlaceLimitOrder, RestAfter
<1>. HIDE DEF margin
<1>4. IdTaken(b, b1, {id})
  <2>1. /\ IsBook(b1) /\ b1.nextId = id + 1 /\ b1.reserved = [b.reserved EXCEPT ![id] = margin]
        /\ b1.orders = b.orders /\ b1.levels = b.levels /\ b1.next = b.next /\ b1.prev = b.prev
        /\ b1.head = b.head /\ b1.best = b.best /\ b1.listed = b.listed /\ b1.index = b.index
        /\ b1.ok = b.ok
    BY <1>1 DEF IsBook
  <2>2. b.reserved \in [Ids -> Nat]
    BY DEF Sound, ReservedGood
  <2>. HIDE DEF b1, id
  <2>3. b1.reserved \in [Ids -> Nat] /\ \A x \in Ids \ {id} : b1.reserved[x] = b.reserved[x]
    BY <1>2, <2>1, <2>2
  <2>. QED  BY <2>1, <2>3 DEF IdTaken, id
<1>. HIDE DEF b1, o, o3
<1>5. Sound(b1, {}, {id}, {}) /\ BestsAre(b1, {}) /\ Unused(b1, id)
  BY <1>4, TakingId
<1>. HIDE DEF id
<1>6. Matched(b1, m, Other(side), {id}) /\ Done(m, side, price)
  BY <1>1, <1>5, Matching
<1>7. m = Match(b1, t, side, price, amount)
  OBVIOUS
<1>. HIDE DEF m
<1>8. /\ m.left \in Nat /\ Sound(m.book, {}, {id}, {}) /\ BestsAre(m.book, {})
      /\ Thins(b1, m.book, Ids)
  BY <1>6 DEF Matched, Meeting
<1>9. Unused(m.book, id)
  <2>1. /\ id \in Ids /\ id \in 0 .. MaxOrders /\ id = b1.nextId - 1
        /\ b1.orders[id].trader = NULL
    BY <1>5, BookConstants DEF Unused, NoOrder
  <2>2. m.book.nextId = b1.nextId /\ m.book.orders[id].trader = NULL
    BY <1>8, <2>1 DEF Thins, SamePlace
  <2>3. m.book.orders[id] = NoOrder
    <3>1. OrdersGood(m.book.orders, m.book.nextId, {})
      BY <1>8 DEF Sound
    <3>. QED  BY <2>1, <2>2, <3>1, BookConstants DEF OrdersGood
  <2>. QED  BY <2>1, <2>2, <2>3 DEF Unused
<1>10. /\ o \in Orders /\ o.trader = t /\ o.side = side /\ o.price = price /\ o.amount = m.left
       /\ o.next = 0 /\ o.prev = 0
  <2>1. o = [trader |-> t, side |-> side, price |-> price, amount |-> m.left,
             margin |-> 0, next |-> 0, prev |-> 0]
    <3>. DEFINE o1 == [NoOrder EXCEPT !.trader = t]
                o2 == [o1 EXCEPT !.side = side]
    <3>1. o1 = [trader |-> t, side |-> "buy", price |-> 0, amount |-> 0,
                margin |-> 0, next |-> 0, prev |-> 0]
      BY DEF NoOrder
    <3>2. o3 = [o2 EXCEPT !.price = price]
      BY DEF o3
    <3>. HIDE DEF o1
    <3>3. o2 = [trader |-> t, side |-> side, price |-> 0, amount |-> 0,
                margin |-> 0, next |-> 0, prev |-> 0]
      BY <3>1
    <3>. HIDE DEF o2
    <3>4. o3 = [trader |-> t, side |-> side, price |-> price, amount |-> 0,
                margin |-> 0, next |-> 0, prev |-> 0]
      BY <3>2, <3>3
    <3>. QED  BY <3>4 DEF o
  <2>2. price \in Prices0 /\ 0 \in 0 .. MaxOrders
    BY <1>1, BookConstants DEF Prices0
  <2>. QED  BY <1>1, <1>8, <2>1, <2>2 DEF Orders
<1>. DEFINE d == Rest(m.book, id, o)
<1>11. Sound(d, {}, {}, {}) /\ BestsAre(d, {}) /\ RestedSo(m.book, d, id, t, side, price, m.left)
  <2>. DEFINE bm == m.book
  <2>1. Sound(bm, {}, {id}, {}) /\ BestsAre(bm, {}) /\ Unused(bm, id)
    BY <1>8, <1>9
  <2>. HIDE DEF bm
  <2>2. CASE m.left = 0
    <3>1. /\ Sound(Rest(bm, id, o), {}, {}, {}) /\ BestsAre(Rest(bm, id, o), {})
          /\ RestedSo(bm, Rest(bm, id, o), id, t, side, price, m.left)
      BY <1>10, <2>1, <2>2, RestingNone
    <3>. QED  BY <3>1 DEF bm
  <2>3. CASE m.left # 0
    <3>1. PICK left \in Nat : left = m.left
      BY <1>8
    <3>2. left # 0 /\ o.amount = left
      BY <1>10, <2>3, <3>1
    <3>3. /\ Sound(Rest(bm, id, o), {}, {}, {}) /\ BestsAre(Rest(bm, id, o), {})
          /\ RestedSo(bm, Rest(bm, id, o), id, t, side, price, left)
      BY <1>10, <2>1, <3>2, RestingSome
    <3>. QED  BY <3>1, <3>3 DEF bm
  <2>. QED  BY <2>2, <2>3
<1>. HIDE DEF d
<1>12. PlacedWith(b, d, t, side, price, amount)
  <2>1. id = b.nextId
    BY DEF id
  <2>2. MatchedWith(b, b1, m, {id}, t, side, price, amount)
    BY <1>4, <1>5, <1>6, <1>7, <2>1 DEF MatchedWith
  <2>. QED  BY <1>9, <1>11, <2>1, <2>2 DEF PlacedWith
<1>. QED  BY <1>3, <1>11, <1>12 DEF d

\* _placeLimitOrder.
LEMMA PlacingOrder ==
  ASSUME OneSided, NEW b, Sound(b, {}, {}, {}), BestsAre(b, {}), b.nextId <= MaxOrders,
         NEW t, NEW side, NEW price, MayPlace(t, side, price), NEW amount \in Nat,
         NEW c, c = PlaceLimitOrder(b, t, side, price, amount)
  PROVE  Sound(c, {}, {}, {}) /\ BestsAre(c, {}) /\ PlacedSo(b, c, side, price)
<1>. DEFINE id == b.nextId
<1>1. Sound(c, {}, {}, {}) /\ BestsAre(c, {}) /\ PlacedWith(b, c, t, side, price, amount)
  BY PlacingStages
<1>2. PICK b1, m : /\ MatchedWith(b, b1, m, {id}, t, side, price, amount)
                   /\ Unused(m.book, id) /\ RestedSo(m.book, c, id, t, side, price, m.left)
  BY <1>1 DEF PlacedWith
<1>3. side \in Sides /\ price \in Nat
  BY BookConstants, BookAssumption DEF MayPlace, Sides
<1>4. c.orders \in [0 .. MaxOrders -> Orders]
  BY <1>1 DEF Sound, OrdersGood
<1>5. /\ IdTaken(b, b1, {id}) /\ Unused(b1, id) /\ Matched(b1, m, Other(side), {id})
      /\ Done(m, side, price) /\ id = b.nextId
  BY <1>2 DEF MatchedWith
<1>. HIDE DEF id
<1>6. PlacedSo(b, c, side, price)
  BY <1>2, <1>3, <1>4, <1>5, PlacedAfterMatching
<1>. QED  BY <1>1, <1>6

\* A market order leaves no order behind.
LEMMA MatchingOnly ==
  ASSUME OneSided, NEW b, Sound(b, {}, {}, {}), BestsAre(b, {}), b.nextId <= MaxOrders,
         NEW t \in Traders, NEW side \in SidesOf[t], NEW limit, NEW amount \in Nat,
         NEW c, c = Match([Refresh(b, Other(side)) EXCEPT !.nextId = @ + 1],
                          t, side, limit, amount).book
  PROVE  /\ Sound(c, {}, {}, {}) /\ BestsAre(c, {}) /\ Fewer(b, c)
         /\ \E b1, m : MatchedWith(b, b1, m, {}, t, side, limit, amount) /\ c = m.book
<1>. DEFINE b1 == [b EXCEPT !.nextId = @ + 1]
            m == Match(b1, t, side, limit, amount)
<1>1. IsBook(b) /\ side \in Sides
  BY BookAssumption DEF Sound, Sides
<1>2. Refresh(b, Other(side)) = b
  BY <1>1, SidesAreTwo, RefreshingNothing
<1>3. c = m.book
  BY <1>2
<1>4. IdTaken(b, b1, {})
  <2>1. /\ IsBook(b1) /\ b1.nextId = b.nextId + 1 /\ b1.reserved = b.reserved
        /\ b1.orders = b.orders /\ b1.levels = b.levels /\ b1.next = b.next /\ b1.prev = b.prev
        /\ b1.head = b.head /\ b1.best = b.best /\ b1.listed = b.listed /\ b1.index = b.index
        /\ b1.ok = b.ok
    BY <1>1 DEF IsBook
  <2>2. b.reserved \in [Ids -> Nat]
    BY DEF Sound, ReservedGood
  <2>. HIDE DEF b1
  <2>. QED  BY <2>1, <2>2 DEF IdTaken
<1>. HIDE DEF b1
<1>5. Sound(b1, {}, {}, {}) /\ BestsAre(b1, {}) /\ Unused(b1, b.nextId)
  BY <1>4, TakingId
<1>6. Matched(b1, m, Other(side), {}) /\ Done(m, side, limit)
  BY <1>5, Matching
<1>7. MatchedWith(b, b1, m, {}, t, side, limit, amount)
  BY <1>4, <1>5, <1>6 DEF MatchedWith
<1>. HIDE DEF m
<1>8. Fewer(b, c)
  BY <1>3, <1>4, <1>6 DEF IdTaken, Matched, Thins, Fewer
<1>. QED  BY <1>3, <1>6, <1>7, <1>8 DEF Matched

\* The best prices, and the heads, of a settled market are forgotten.
Forgotten(b, c) ==
  /\ IsBook(c) /\ c.best = [side \in Sides |-> 0]
  /\ \/ c.head = b.head
     \/ c.head = [side \in Sides |-> 0]
  /\ c.orders = b.orders /\ c.levels = b.levels /\ c.next = b.next /\ c.prev = b.prev
  /\ c.listed = b.listed /\ c.index = b.index /\ c.reserved = b.reserved
  /\ c.nextId = b.nextId /\ c.ok = b.ok

\* What is left is a good book of a settled market.
LEMMA Forgetting ==
  ASSUME NEW b, NEW lost \in {{}, {0}}, Sound(b, lost, {}, {}), NEW c,
         Forgotten(b, c)
  PROVE  Sound(c, {0}, {}, {}) /\ BestsAre(c, {0})
<1>1. /\ b.ok
      /\ OrdersGood(b.orders, b.nextId, {}) /\ LevelsGood(b.orders, b.levels)
      /\ PricesGood(b, lost) /\ ListsGood(b.orders, b.listed, b.index)
      /\ ReservedGood(b.orders, b.reserved, {} \cup {})
  BY DEF Sound
<1>2. \A x \in Sides : c.best[x] = 0
  BY DEF Forgotten
<1>3. BestsAre(c, {0})
  BY <1>2 DEF BestsAre, BestIs
<1>4. c.best \in [Sides -> Prices0] /\ c.head \in [Sides -> Prices0]
  BY <1>1 DEF Forgotten, Prices0, PricesGood
<1>5. ASSUME NEW side \in Sides PROVE HeadGood(c, {0}, side)
  <2>1. PICK s : /\ PricesAre(b.levels, b.next, b.prev, side, s)
                 /\ b.head[side] = FirstOf(s) \/ b.head[side] \in lost
    BY <1>1 DEF PricesGood, HeadGood
  <2>2. c.head[side] = b.head[side] \/ c.head[side] = 0
    BY DEF Forgotten
  <2>3. c.head[side] = FirstOf(s) \/ c.head[side] \in {0}
    BY <2>1, <2>2
  <2>4. PricesAre(c.levels, c.next, c.prev, side, s)
    BY <2>1 DEF Forgotten
  <2>. QED  BY <2>3, <2>4 DEF HeadGood
<1>6. PricesGood(c, {0})
  BY <1>1, <1>4, <1>5 DEF PricesGood, Forgotten
<1>. QED  BY <1>1, <1>3, <1>4, <1>6 DEF Sound, Forgotten

----------------------------------------------------------------------------
(* The inductive invariant. *)

\* A sound book with no order out of place, whose cached best prices are right.
Good(b, lost) == Sound(b, lost, {}, {}) /\ BestsAre(b, lost)

\* What a head may be, besides the first of its list: nothing while the market
\* is open, 0 when it is settled.
LostHeads(closed) == IF closed THEN {0} ELSE {}

\* It holds between any two calls.
BookInv == settled \in BOOLEAN /\ Good(book, LostHeads(settled))

\* The empty book.
LEMMA EmptyBook ==
  Init => BookInv
<1>. SUFFICES ASSUME Init PROVE BookInv
  OBVIOUS
<1>1. settled = FALSE /\ LostHeads(settled) = {}
  BY DEF Init, LostHeads
<1>2. /\ book.orders = [id \in 0 .. MaxOrders |-> NoOrder]
      /\ book.levels = [side \in Sides |-> [p \in Prices |-> NoLevel]]
      /\ book.next = [side \in Sides |-> [p \in Prices |-> 0]]
      /\ book.prev = [side \in Sides |-> [p \in Prices |-> 0]]
      /\ book.head = [side \in Sides |-> 0] /\ book.best = [side \in Sides |-> 0]
      /\ book.listed = [t \in Traders |-> <<>>]
      /\ book.index = [t \in Traders |-> [id \in Ids |-> 0]]
      /\ book.reserved = [id \in Ids |-> 0] /\ book.nextId = 1 /\ book.ok
  BY DEF Init
<1>3. IsBook(book)
  BY DEF Init, IsBook
<1>4. 0 \in 0 .. MaxOrders /\ 0 \in Prices0 /\ MaxOrders \in Nat /\ 1 \in 1 .. MaxOrders + 1
  BY BookConstants DEF Prices0
<1>5. NoOrder \in Orders /\ NoLevel \in Levels
  BY <1>4 DEF NoOrder, NoLevel, Orders, Levels, Sides
<1>6. OrdersGood(book.orders, book.nextId, {})
  <2>. HIDE DEF NoOrder
  <2>. QED  BY <1>2, <1>4, <1>5 DEF OrdersGood
<1>7. LevelsGood(book.orders, book.levels)
  <2>1. book.levels \in [Sides -> [Prices -> Levels]]
    BY <1>2, <1>5
  <2>2. ASSUME NEW side \in Sides, NEW p \in Prices
        PROVE  LevelGood(book.orders, book.levels[side][p], side, p)
    <3>1. QueueIs(book.orders, side, p, <<>>)
      <4>1. \A id \in Ids : ~Belongs(book.orders, side, p, id)
        <5>1. \A id \in Ids : book.orders[id].trader = NULL
          BY <1>2, BookConstants DEF NoOrder
        <5>. QED  BY <5>1 DEF Belongs
      <4>2. Range(<<>>) = {} /\ <<>> \in Seq(Ids) /\ Len(<<>>) = 0
        BY DEF Range
      <4>3. LinkedAs(<<>>, NextOf(book.orders), PrevOf(book.orders)) /\ Ascending(<<>>)
        BY <4>2 DEF LinkedAs, Ascending
      <4>. QED  BY <4>1, <4>2, <4>3 DEF QueueIs
    <3>2. book.levels[side][p] = LevelOf(book.orders, <<>>)
      BY <1>2 DEF LevelOf
    <3>. QED  BY <3>1, <3>2 DEF LevelGood
  <2>. QED  BY <2>1, <2>2 DEF LevelsGood
<1>8. PricesGood(book, {})
  <2>1. book.next \in Pointers /\ book.prev \in Pointers /\ book.head \in [Sides -> Prices0]
    BY <1>2, <1>4 DEF Pointers
  <2>2. ASSUME NEW side \in Sides PROVE HeadGood(book, {}, side)
    <3>1. Range(<<>>) = {} /\ <<>> \in Seq(Prices) /\ Len(<<>>) = 0
      BY DEF Range
    <3>2. \A p \in Prices : ~book.levels[side][p].exists
      BY <1>2 DEF NoLevel
    <3>3. PricesAre(book.levels, book.next, book.prev, side, <<>>)
      BY <1>2, <3>1, <3>2 DEF PricesAre, LinkedAs, InOrder
    <3>4. book.head[side] = FirstOf(<<>>)
      BY <1>2, <3>1 DEF FirstOf
    <3>. QED  BY <3>3, <3>4 DEF HeadGood
  <2>. QED  BY <2>1, <2>2 DEF PricesGood
<1>9. ListsGood(book.orders, book.listed, book.index)
  <2>1. book.listed \in [Traders -> Seq(Ids)] /\ book.index \in [Traders -> [Ids -> Nat]]
    BY <1>2
  <2>2. ASSUME NEW t \in Traders
        PROVE  ListIs(book.listed[t], book.index[t], OrdersOf(book.orders, t))
    <3>1. OrdersOf(book.orders, t) = {}
      BY <1>2, BookConstants DEF OrdersOf, NoOrder
    <3>2. Range(<<>>) = {} /\ <<>> \in Seq(Ids) /\ Len(<<>>) = 0
      BY DEF Range
    <3>3. book.listed[t] = <<>> /\ book.index[t] = [id \in Ids |-> 0]
      BY <1>2
    <3>. QED  BY <3>1, <3>2, <3>3 DEF ListIs
  <2>. QED  BY <2>1, <2>2 DEF ListsGood
<1>10. ReservedGood(book.orders, book.reserved, {} \cup {})
  BY <1>2, BookConstants DEF ReservedGood, Reservation, NoOrder
<1>11. Sound(book, {}, {}, {})
  <2>1. book.best \in [Sides -> Prices0]
    BY <1>2, <1>4
  <2>. QED  BY <1>2, <1>3, <1>6, <1>7, <1>8, <1>9, <1>10, <2>1 DEF Sound
<1>12. BestsAre(book, {})
  BY <1>2 DEF BestsAre, BestIs
<1>. QED  BY <1>1, <1>11, <1>12 DEF BookInv, Good

\* The orders of a call are those the book can have.
LEMMA OrderMayBePlaced ==
  ASSUME NEW b, NEW lost, Sound(b, lost, {}, {}), NEW id \in Ids, b.orders[id].trader # NULL,
         NEW price \in Prices
  PROVE  MayPlace(b.orders[id].trader, b.orders[id].side, price)
<1>1. OrdersGood(b.orders, b.nextId, {}) /\ id \in 0 .. MaxOrders /\ b.orders[id] # NoOrder
  BY BookConstants DEF Sound, NoOrder
<1>. QED  BY <1>1 DEF OrdersGood, MayPlace

\* Every call leaves a good book.
LEMMA BookInvIsKept ==
  ASSUME OneSided, BookInv, [Next]_vars
  PROVE  BookInv'
<1>. DEFINE lost == LostHeads(settled)
<1>1. settled \in BOOLEAN /\ Sound(book, lost, {}, {}) /\ BestsAre(book, lost)
  BY DEF BookInv, Good
<1>2. lost \in {{}, {0}} /\ (~settled => lost = {})
  BY <1>1 DEF LostHeads
<1>3. Amounts \subseteq Nat
  BY BookAssumption
<1>4. MarketActive => lost = {} /\ ~settled /\ book.nextId <= MaxOrders
  BY <1>2 DEF MarketActive
<1>. HIDE DEF lost
<1>5. ASSUME UNCHANGED settled, Sound(book', lost, {}, {}), BestsAre(book', lost) PROVE BookInv'
  BY <1>1, <1>5 DEF BookInv, Good, lost
<1>6. ASSUME NEW t \in Traders, NEW side \in SidesOf[t], NEW price \in Prices,
             NEW amount \in Amounts,
             PlaceMarginLimitOrder(t, side, price, amount)
      PROVE  BookInv'
  <2>1. MarketActive /\ book' = PlaceLimitOrder(book, t, side, price, amount) /\ UNCHANGED settled
    BY <1>6 DEF PlaceMarginLimitOrder, Commit
  <2>2. Sound(book, {}, {}, {}) /\ BestsAre(book, {}) /\ book.nextId <= MaxOrders /\ lost = {}
    BY <1>1, <1>4, <2>1
  <2>3. MayPlace(t, side, price) /\ amount \in Nat
    BY <1>3 DEF MayPlace
  <2>4. Sound(book', {}, {}, {}) /\ BestsAre(book', {})
    BY <2>1, <2>2, <2>3, PlacingOrder
  <2>. QED  BY <1>5, <2>1, <2>2, <2>4
<1>7. ASSUME NEW t \in Traders, NEW side \in SidesOf[t], NEW price \in Prices,
             NEW amount \in Amounts,
             PlaceMarginMarketOrder(t, side, price, amount)
      PROVE  BookInv'
  <2>1. /\ MarketActive /\ UNCHANGED settled
        /\ book' = Match([Refresh(book, Other(side)) EXCEPT !.nextId = @ + 1],
                         t, side, price, amount).book
    BY <1>7, Zenon DEF PlaceMarginMarketOrder, Commit
  <2>2. Sound(book, {}, {}, {}) /\ BestsAre(book, {}) /\ book.nextId <= MaxOrders /\ lost = {}
    BY <1>1, <1>4, <2>1
  <2>3. amount \in Nat
    BY <1>3
  <2>4. Sound(book', {}, {}, {}) /\ BestsAre(book', {})
    BY <2>1, <2>2, <2>3, MatchingOnly
  <2>. QED  BY <1>5, <2>1, <2>2, <2>4
<1>8. ASSUME NEW id \in Ids, CancelOrder(id) PROVE BookInv'
  <2>1. /\ book.orders[id].trader # NULL /\ UNCHANGED settled
        /\ book' = CancelOrderIn(book, id)
    BY <1>8 DEF CancelOrder, Commit, Resting
  <2>2. Sound(book', lost, {}, {}) /\ BestsAre(book', lost)
    BY <1>1, <1>2, <2>1, CancellingOrder
  <2>. QED  BY <1>5, <2>1, <2>2
<1>9. ASSUME NEW id \in Ids, NEW price \in Prices, NEW amount \in Amounts,
             ModifyOrder(id, price, amount)
      PROVE  BookInv'
  <2>. DEFINE t == book.orders[id].trader
              side == book.orders[id].side
              c == CancelOrderIn(book, id)
  <2>1. /\ MarketActive /\ UNCHANGED settled /\ t # NULL
        /\ book' = PlaceLimitOrder(c, t, side, price, amount)
    BY <1>9 DEF ModifyOrder, Commit, Resting
  <2>2. Sound(book, {}, {}, {}) /\ BestsAre(book, {}) /\ book.nextId <= MaxOrders /\ lost = {}
    BY <1>1, <1>4, <2>1
  <2>3. MayPlace(t, side, price) /\ amount \in Nat
    BY <1>3, <2>1, <2>2, OrderMayBePlaced
  <2>4. Sound(c, {}, {}, {}) /\ BestsAre(c, {}) /\ Thins(book, c, {id})
    BY <2>1, <2>2, CancellingOrder
  <2>5. c.nextId <= MaxOrders
    BY <2>2, <2>4 DEF Thins
  <2>. HIDE DEF c, t, side
  <2>6. Sound(book', {}, {}, {}) /\ BestsAre(book', {})
    BY <2>1, <2>3, <2>4, <2>5, PlacingOrder
  <2>. QED  BY <1>5, <2>1, <2>2, <2>6
<1>10. ASSUME AdminCancelAllRestingOrders PROVE BookInv'
  <2>. DEFINE c == CancelSide(book, "buy")
  <2>1. book' = CancelSide(c, "sell") /\ UNCHANGED settled
    BY <1>10 DEF AdminCancelAllRestingOrders, Commit
  <2>2. Sound(c, lost, {}, {}) /\ BestsAre(c, lost)
    BY <1>1, <1>2, CancellingSide DEF Sides
  <2>. HIDE DEF c
  <2>3. Sound(book', lost, {}, {}) /\ BestsAre(book', lost)
    BY <1>2, <2>1, <2>2, CancellingSide DEF Sides
  <2>. QED  BY <1>5, <2>1, <2>3
<1>11. IsBook(book)
  BY <1>1 DEF Sound
<1>12. CASE SettleMarket
  <2>1. Forgotten(book, book') /\ settled' = TRUE
    BY <1>11, <1>12 DEF SettleMarket, Forgotten, IsBook
  <2>2. Sound(book', {0}, {}, {}) /\ BestsAre(book', {0})
    BY <1>1, <1>2, <2>1, Forgetting
  <2>. QED  BY <2>1, <2>2 DEF BookInv, Good, LostHeads
<1>13. CASE CleanupSettledMarket
  <2>1. Forgotten(book, book') /\ settled' = settled /\ settled = TRUE
    BY <1>1, <1>11, <1>13 DEF CleanupSettledMarket, Forgotten, IsBook
  <2>2. Sound(book', {0}, {}, {}) /\ BestsAre(book', {0})
    BY <1>1, <1>2, <2>1, Forgetting
  <2>. QED  BY <2>1, <2>2 DEF BookInv, Good, LostHeads
<1>14. CASE UNCHANGED vars
  BY <1>14 DEF vars, BookInv
<1>. QED  BY <1>6, <1>7, <1>8, <1>9, <1>10, <1>12, <1>13, <1>14 DEF Next

----------------------------------------------------------------------------
(* What the invariant says. *)

\* A level and the resting orders of its price.
LEMMA LevelIsExact ==
  ASSUME BookInv, NEW side \in Sides, NEW p \in Prices
  PROVE  LET level == book.levels[side][p]
             ids == {id \in Resting(book) :
                       book.orders[id].side = side /\ book.orders[id].price = p}
             chain == Chain(book, level.first)
         IN /\ Range(chain) = ids /\ IsInjective(chain)
            /\ level.exists = (ids # {})
            /\ level.total = SumFunctionOnSet([id \in Ids |-> book.orders[id].amount], ids)
            /\ level.last = IF chain = <<>> THEN 0 ELSE chain[Len(chain)]
            /\ \A i \in DOMAIN chain :
                 book.orders[chain[i]].prev = IF i = 1 THEN 0 ELSE chain[i - 1]
<1>. DEFINE level == book.levels[side][p]
            ids == {id \in Resting(book) :
                      book.orders[id].side = side /\ book.orders[id].price = p}
            chain == Chain(book, level.first)
<1>1. OrdersGood(book.orders, book.nextId, {}) /\ LevelsGood(book.orders, book.levels)
  BY DEF BookInv, Good, Sound
<1>2. PICK s : QueueIs(book.orders, side, p, s) /\ level = LevelOf(book.orders, s)
  BY <1>1 DEF LevelsGood, LevelGood
<1>3. /\ book.orders \in [0 .. MaxOrders -> Orders]
      /\ Len(s) \in Nat /\ s \in Seq(Ids)
      /\ \A i \in 1 .. Len(s) : s[i] \in Range(s) /\ book.orders[s[i]].prev = PrevIn(s, i)
      /\ \A i, j \in 1 .. Len(s) : s[i] = s[j] => i = j
  <2>1. book.orders \in [0 .. MaxOrders -> Orders]
    BY <1>1 DEF OrdersGood
  <2>. QED  BY <1>2, <2>1, QueueFacts DEF QueueIs
<1>4. level.first = FirstOf(s) /\ level.last = LastOf(s)
  BY <1>2 DEF LevelOf, NoLevel, FirstOf, LastOf
<1>5. Chain(book, FirstOf(s)) = s
  BY <1>1, <1>2, ChainIsQueue
<1>6. chain = s
  BY <1>4, <1>5
<1>7. Range(s) = ids
  BY <1>2 DEF QueueIs, Belongs, Resting
<1>8. IsInjective(s)
  BY <1>3 DEF IsInjective
<1>9. Len(s) = 0 <=> ids = {}
  <2>1. CASE Len(s) = 0
    BY <1>7, <2>1 DEF Range
  <2>2. CASE Len(s) # 0
    <3>1. 1 \in 1 .. Len(s)
      BY <1>3, <2>2
    <3>. QED  BY <1>3, <1>7, <2>2, <3>1
  <2>. QED  BY <2>1, <2>2
<1>10. s = <<>> <=> Len(s) = 0
  BY <1>3
<1>11. level.exists = (ids # {})
  <2>1. CASE Len(s) = 0
    <3>1. level.exists = FALSE /\ ids = {}
      BY <1>2, <1>9, <2>1 DEF LevelOf, NoLevel
    <3>. HIDE DEF level, ids
    <3>. QED  BY <3>1
  <2>2. CASE Len(s) # 0
    <3>1. level.exists = TRUE /\ ids # {}
      BY <1>2, <1>9, <2>2 DEF LevelOf
    <3>. HIDE DEF level, ids
    <3>. QED  BY <3>1
  <2>. QED  BY <2>1, <2>2
<1>12. level.total = SumFunctionOnSet(AmountsOf(book.orders), ids)
  <2>1. CASE Len(s) = 0
    <3>1. level.total = 0 /\ ids = {}
      BY <1>2, <1>9, <2>1 DEF LevelOf, NoLevel
    <3>. HIDE DEF level, ids
    <3>. QED  BY <3>1, SumOfNothing
  <2>2. CASE Len(s) # 0
    BY <1>2, <1>7, <2>2 DEF LevelOf
  <2>. QED  BY <2>1, <2>2
<1>13. level.last = IF s = <<>> THEN 0 ELSE s[Len(s)]
  BY <1>4, <1>10 DEF LastOf
<1>14. \A i \in DOMAIN s : book.orders[s[i]].prev = IF i = 1 THEN 0 ELSE s[i - 1]
  BY <1>3 DEF PrevIn
<1>. HIDE DEF level, ids, chain
<1>15. /\ Range(chain) = ids /\ IsInjective(chain) /\ level.exists = (ids # {})
       /\ level.total = SumFunctionOnSet(AmountsOf(book.orders), ids)
       /\ level.last = IF chain = <<>> THEN 0 ELSE chain[Len(chain)]
       /\ \A i \in DOMAIN chain :
            book.orders[chain[i]].prev = IF i = 1 THEN 0 ELSE chain[i - 1]
  BY <1>6, <1>7, <1>8, <1>11, <1>12, <1>13, <1>14, Zenon
<1>. QED  BY <1>15, Zenon DEF level, ids, chain, AmountsOf

\* Every level.
LEMMA LevelsFollow ==
  BookInv => LevelsAreExact
<1>. SUFFICES ASSUME BookInv, NEW side \in Sides, NEW p \in Prices
              PROVE  LET level == book.levels[side][p]
                         ids == {id \in Resting(book) :
                                   book.orders[id].side = side /\ book.orders[id].price = p}
                         chain == Chain(book, level.first)
                     IN /\ Range(chain) = ids /\ IsInjective(chain)
                        /\ level.exists = (ids # {})
                        /\ level.total
                             = SumFunctionOnSet([id \in Ids |-> book.orders[id].amount], ids)
                        /\ level.last = IF chain = <<>> THEN 0 ELSE chain[Len(chain)]
                        /\ \A i \in DOMAIN chain :
                             book.orders[chain[i]].prev = IF i = 1 THEN 0 ELSE chain[i - 1]
  BY Zenon DEF LevelsAreExact
<1>. QED  BY LevelIsExact, Zenon

\* The list of prices of an open market.
LEMMA PricesFollow ==
  BookInv => PricesAreLinked
<1>. SUFFICES ASSUME BookInv, ~settled, NEW side \in Sides
              PROVE  LET list == Linked(book, side, book.head[side]) IN
                     /\ Range(list) = Live(book, side)
                     /\ \A i, j \in DOMAIN list : i < j => Ahead(side, list[i], list[j])
                     /\ \A i \in DOMAIN list :
                          book.prev[side][list[i]] = IF i = 1 THEN 0 ELSE list[i - 1]
                     /\ book.best[side] = IF list = <<>> THEN 0 ELSE list[1]
  BY Zenon DEF PricesAreLinked
<1>. DEFINE list == Linked(book, side, book.head[side])
<1>1. PricesGood(book, {}) /\ BestsAre(book, {})
  BY DEF BookInv, Good, Sound, LostHeads
<1>2. PICK s : /\ PricesAre(book.levels, book.next, book.prev, side, s)
               /\ book.head[side] = FirstOf(s)
  BY <1>1 DEF PricesGood, HeadGood
<1>3. Linked(book, side, FirstOf(s)) = s
  BY <1>1, <1>2, LinkedIsList DEF PricesGood
<1>4. list = s
  BY <1>2, <1>3
<1>5. /\ s \in Seq(Prices) /\ Len(s) \in Nat /\ DOMAIN s = 1 .. Len(s)
      /\ s = <<>> <=> Len(s) = 0
      /\ Live(book, side) = Range(s)
      /\ \A i \in 1 .. Len(s) : book.prev[side][s[i]] = PrevIn(s, i)
      /\ \A i, j \in 1 .. Len(s) : i < j => Ahead(side, s[i], s[j])
  BY <1>2 DEF PricesAre, InOrder, LinkedAs, Live, LevelExists
<1>6. book.best[side] = FirstOf(s)
  BY <1>1, <1>2 DEF BestsAre, BestIs
<1>. HIDE DEF list
<1>7. \A i \in DOMAIN s : book.prev[side][s[i]] = IF i = 1 THEN 0 ELSE s[i - 1]
  BY <1>5 DEF PrevIn
<1>8. book.best[side] = IF s = <<>> THEN 0 ELSE s[1]
  BY <1>5, <1>6 DEF FirstOf
<1>9. /\ Range(list) = Live(book, side)
      /\ \A i, j \in DOMAIN list : i < j => Ahead(side, list[i], list[j])
      /\ \A i \in DOMAIN list : book.prev[side][list[i]] = IF i = 1 THEN 0 ELSE list[i - 1]
      /\ book.best[side] = IF list = <<>> THEN 0 ELSE list[1]
  BY <1>4, <1>5, <1>7, <1>8, Zenon
<1>. QED  BY <1>9, Zenon DEF list

\* The lists of the traders.
LEMMA UserListsFollow ==
  BookInv => UserListsAreExact
<1>. SUFFICES ASSUME BookInv, NEW t \in Traders
              PROVE  LET list == book.listed[t] IN
                     /\ Range(list) = {id \in Resting(book) : book.orders[id].trader = t}
                     /\ \A id \in Ids :
                          IF id \in Range(list)
                          THEN book.index[t][id] \in DOMAIN list /\ list[book.index[t][id]] = id
                          ELSE book.index[t][id] = 0
                     /\ IsInjective(list)
  BY Zenon DEF UserListsAreExact
<1>. DEFINE list == book.listed[t]
            index == book.index[t]
            ids == OrdersOf(book.orders, t)
<1>1. ListIs(list, index, ids)
  BY DEF BookInv, Good, Sound, ListsGood
<1>2. ids = {id \in Resting(book) : book.orders[id].trader = t}
  BY BookConstants DEF OrdersOf, Resting
<1>. HIDE DEF list, index, ids
<1>3. /\ list \in Seq(Ids) /\ Range(list) = ids
      /\ \A i, j \in 1 .. Len(list) : list[i] = list[j] => i = j
      /\ \A id \in Ids \ ids : index[id] = 0
  BY <1>1 DEF ListIs
<1>4. \A id \in Ids : IF id \in Range(list)
                      THEN index[id] \in DOMAIN list /\ list[index[id]] = id
                      ELSE index[id] = 0
  BY <1>1, <1>3, PlaceInList
<1>5. IsInjective(list)
  BY <1>3 DEF IsInjective
<1>. QED  BY <1>2, <1>3, <1>4, <1>5 DEF list, index, ids

\* The reservations.
LEMMA ReservationsFollow ==
  BookInv => ReservationsMatchOrders
<1>. SUFFICES ASSUME BookInv, NEW id \in Ids
              PROVE  LET o == book.orders[id] IN
                     book.reserved[id] = IF id \in Resting(book)
                                         THEN MarginRequired(o.amount, o.price, o.side) ELSE 0
  BY DEF ReservationsMatchOrders
<1>1. book.reserved[id] = Reservation(book.orders[id])
  BY DEF BookInv, Good, Sound, ReservedGood
<1>2. id \in Resting(book) <=> book.orders[id].trader # NULL
  BY DEF Resting
<1>. QED  BY <1>1, <1>2 DEF Reservation

\* The types.
LEMMA TypesFollow ==
  BookInv => TypeOK
<1>. SUFFICES ASSUME BookInv PROVE TypeOK
  OBVIOUS
<1>1. Sound(book, LostHeads(settled), {}, {}) /\ settled \in BOOLEAN
  BY DEF BookInv, Good
<1>2. book \in Storage
  BY <1>1, SoundIsStored
<1>3. book.ok
  BY <1>1 DEF Sound
<1>. QED  BY <1>1, <1>2, <1>3 DEF TypeOK

----------------------------------------------------------------------------
(* Theorems.  They are of markets in which each trader is on one side only:  *)
(* an order of the taker's own that the matching meets is taken off its      *)
(* level twice (CancelOwn), and the invariants are not kept then.            *)

\* The invariant is inductive.
THEOREM BookIsGood ==
  ASSUME OneSided
  PROVE  Spec => []BookInv
<1>1. Init => BookInv
  BY EmptyBook
<1>2. BookInv /\ [Next]_vars => BookInv'
  BY BookInvIsKept
<1>. QED  BY <1>1, <1>2, PTL DEF Spec

\* Every field of the storage has its type, and no call that must revert is
\* committed: the index of a trader's order always gives a place in the list.
THEOREM BookTypes ==
  ASSUME OneSided
  PROVE  Spec => []TypeOK
<1>. QED  BY BookIsGood, TypesFollow, PTL

\* Matching, cancelling, modifying and settling keep the queues of all levels.
THEOREM BookLevels ==
  ASSUME OneSided
  PROVE  Spec => []LevelsAreExact
<1>. QED  BY BookIsGood, LevelsFollow, PTL

\* And, while the market is open, the sorted lists of prices and the cached
\* best prices.
THEOREM BookPrices ==
  ASSUME OneSided
  PROVE  Spec => []PricesAreLinked
<1>. QED  BY BookIsGood, PricesFollow, PTL

\* And the indexed lists of the traders.
THEOREM BookUserLists ==
  ASSUME OneSided
  PROVE  Spec => []UserListsAreExact
<1>. QED  BY BookIsGood, UserListsFollow, PTL

\* And the margin that is reserved for what is left of each order.
THEOREM BookReservations ==
  ASSUME OneSided
  PROVE  Spec => []ReservationsMatchOrders
<1>. QED  BY BookIsGood, ReservationsFollow, PTL

----------------------------------------------------------------------------
(* When orders that cross come to rest side by side. *)

\* Not when orders only go.
LEMMA FewerDoNotCross ==
  ASSUME NEW b, NEW c, Fewer(b, c), Crossed(c)
  PROVE  Crossed(b)
<1>1. PICK i, j \in Resting(c) :
        /\ c.orders[i].side = "buy" /\ c.orders[j].side = "sell"
        /\ c.orders[i].trader # c.orders[j].trader /\ c.orders[i].price >= c.orders[j].price
  BY DEF Crossed
<1>2. \A x \in Resting(c) : x \in Resting(b) /\ SamePlace(b.orders[x], c.orders[x])
  BY BookConstants DEF Resting, Fewer, SamePlace
<1>. QED  BY <1>1, <1>2 DEF Crossed, SamePlace

\* A limit order comes to rest beside one it would match only when it has used
\* up its matches.
LEMMA PlacedDoesNotCross ==
  ASSUME NEW b, NEW c, c.orders \in [0 .. MaxOrders -> Orders], NEW side, NEW limit \in Nat,
         PlacedSo(b, c, side, limit), Crossed(c), ~Crossed(b)
  PROVE  Cardinality(Lessened(b.orders, c.orders)) = MaxMatches
<1>. DEFINE id == b.nextId
<1>1. PICK i, j \in Resting(c) :
        /\ c.orders[i].side = "buy" /\ c.orders[j].side = "sell"
        /\ c.orders[i].trader # c.orders[j].trader /\ c.orders[i].price >= c.orders[j].price
  BY DEF Crossed
<1>2. /\ i \in Ids /\ c.orders[i].trader # NULL /\ c.orders[i].price \in Nat
      /\ j \in Ids /\ c.orders[j].trader # NULL /\ c.orders[j].price \in Nat
  <2>1. \A x \in 0 .. MaxOrders : c.orders[x].price \in Nat
    <3>1. \A p \in Prices0 : p \in Nat
      BY BookAssumption DEF Prices0
    <3>2. \A x \in 0 .. MaxOrders : c.orders[x].price \in Prices0
      BY DEF Orders
    <3>. QED  BY <3>1, <3>2
  <2>. QED  BY <2>1, BookConstants DEF Resting
<1>3. i = id \/ j = id
  <2>1. ASSUME i # id, j # id PROVE FALSE
    <3>1. SamePlace(b.orders[i], c.orders[i]) /\ SamePlace(b.orders[j], c.orders[j])
      BY <1>2, <2>1 DEF PlacedSo
    <3>2. i \in Resting(b) /\ j \in Resting(b)
      BY <1>2, <3>1 DEF Resting, SamePlace
    <3>3. Crossed(b)
      BY <1>1, <3>1, <3>2 DEF Crossed, SamePlace
    <3>. QED  BY <3>3
  <2>. QED  BY <2>1
<1>4. c.orders[id].side = side /\ c.orders[id].price = limit
  BY <1>2, <1>3 DEF PlacedSo
<1>5. PICK x \in Ids \ {id} : /\ c.orders[x].trader # NULL /\ c.orders[x].side # side
                             /\ Accepts(side, limit, c.orders[x].price)
  <2>1. CASE i = id
    <3>1. side = "buy" /\ j # id /\ c.orders[j].side # side
      BY <1>1, <1>4, <2>1
    <3>2. Accepts(side, limit, c.orders[j].price)
      BY <1>1, <1>2, <1>4, <2>1, <3>1 DEF Accepts, Ahead, Other
    <3>. QED  BY <1>2, <3>1, <3>2
  <2>2. CASE j = id
    <3>1. side = "sell" /\ i # id /\ c.orders[i].side # side
      BY <1>1, <1>4, <2>2
    <3>2. Accepts(side, limit, c.orders[i].price)
      BY <1>1, <1>2, <1>4, <2>2, <3>1 DEF Accepts, Ahead, Other
    <3>. QED  BY <1>2, <3>1, <3>2
  <2>. QED  BY <1>3, <2>1, <2>2
<1>6. c.orders[id].trader # NULL
  BY <1>2, <1>3
<1>. QED  BY <1>5, <1>6 DEF PlacedSo

\* The orders that CrossedOnlyByTheLimit counts.
LessOf(b, after) == {id \in Resting(b) : after[id].amount < b.orders[id].amount}

\* An order of which there is less was resting.
LEMMA LessenedRested ==
  ASSUME NEW b, NEW nextId, OrdersGood(b.orders, nextId, {}), NEW after,
         after \in [0 .. MaxOrders -> Orders]
  PROVE  LessOf(b, after) = Lessened(b.orders, after) /\ IsFiniteSet(LessOf(b, after))
<1>1. ASSUME NEW id \in Lessened(b.orders, after) PROVE id \in Resting(b)
  <2>1. id \in Ids /\ id \in 0 .. MaxOrders /\ after[id].amount < b.orders[id].amount
    BY BookConstants DEF Lessened
  <2>2. after[id].amount \in Nat
    BY <2>1 DEF Orders
  <2>3. b.orders[id].trader # NULL
    <3>1. ASSUME b.orders[id].trader = NULL PROVE FALSE
      <4>1. b.orders[id].amount = 0
        BY <2>1, <3>1, GoneIsNothing
      <4>. QED  BY <2>1, <2>2, <4>1
    <3>. QED  BY <3>1
  <2>. QED  BY <2>1, <2>3 DEF Resting
<1>2. LessOf(b, after) = Lessened(b.orders, after)
  BY <1>1 DEF LessOf, Lessened, Resting
<1>3. IsFiniteSet(Lessened(b.orders, after))
  <2>1. IsFiniteSet(Ids)
    BY BookConstants, FS_Interval DEF Ids
  <2>. QED  BY <2>1, FS_Subset DEF Lessened
<1>. QED  BY <1>2, <1>3

\* The orders of a call that have less left are as many, had one been cancelled first.
LEMMA LessenedAfterCancel ==
  ASSUME NEW b, b.orders \in [0 .. MaxOrders -> Orders], NEW c, NEW nextId,
         OrdersGood(c.orders, nextId, {}), NEW id \in Ids, Thins(b, c, {id}),
         c.orders[id].trader = NULL,
         NEW after, after \in [0 .. MaxOrders -> Orders]
  PROVE  Lessened(c.orders, after) \subseteq Lessened(b.orders, after)
<1>1. ASSUME NEW x \in Lessened(c.orders, after) PROVE x \in Lessened(b.orders, after)
  <2>1. x \in Ids /\ x \in 0 .. MaxOrders /\ after[x].amount < c.orders[x].amount
    BY BookConstants DEF Lessened
  <2>2. after[x].amount \in Nat
    BY <2>1 DEF Orders
  <2>3. x # id
    <3>1. c.orders[id].amount = 0
      BY GoneIsNothing
    <3>. QED  BY <2>1, <2>2, <3>1
  <2>4. c.orders[x].amount = b.orders[x].amount
    BY <2>1, <2>3 DEF Thins, SameTerms
  <2>. QED  BY <2>1, <2>4 DEF Lessened
<1>. QED  BY <1>1

\* What one step does.
LEMMA CrossingStep ==
  ASSUME OneSided, BookInv, [Next]_vars, Crossed(book'), ~Crossed(book)
  PROVE  Cardinality(LessOf(book, book'.orders)) >= MaxMatches
<1>. DEFINE lost == LostHeads(settled)
            less == LessOf(book, book'.orders)
<1>1. settled \in BOOLEAN /\ Sound(book, lost, {}, {}) /\ BestsAre(book, lost)
  BY DEF BookInv, Good
<1>2. lost \in {{}, {0}} /\ (~settled => lost = {})
  BY <1>1 DEF LostHeads
<1>3. Amounts \subseteq Nat /\ Prices \subseteq Nat /\ MaxMatches \in Nat
  BY BookAssumption
<1>4. MarketActive => lost = {} /\ ~settled /\ book.nextId <= MaxOrders
  BY <1>2 DEF MarketActive
<1>. HIDE DEF lost
<1>5. /\ OrdersGood(book.orders, book.nextId, {}) /\ book.orders \in [0 .. MaxOrders -> Orders]
      /\ book'.orders \in [0 .. MaxOrders -> Orders]
  <2>1. BookInv'
    BY BookInvIsKept
  <2>. QED  BY <1>1, <2>1 DEF BookInv, Good, Sound, OrdersGood
<1>6. less = Lessened(book.orders, book'.orders) /\ IsFiniteSet(less)
  BY <1>5, LessenedRested
<1>. HIDE DEF less
<1>7. ~Fewer(book, book')
  BY FewerDoNotCross
<1>8. ASSUME NEW t \in Traders, NEW side \in SidesOf[t], NEW price \in Prices,
             NEW amount \in Amounts,
             PlaceMarginLimitOrder(t, side, price, amount)
      PROVE  Cardinality(less) = MaxMatches
  <2>1. MarketActive /\ book' = PlaceLimitOrder(book, t, side, price, amount)
    BY <1>8 DEF PlaceMarginLimitOrder, Commit
  <2>2. Sound(book, {}, {}, {}) /\ BestsAre(book, {}) /\ book.nextId <= MaxOrders
    BY <1>1, <1>4, <2>1
  <2>3. MayPlace(t, side, price) /\ amount \in Nat /\ price \in Nat
    BY <1>3 DEF MayPlace
  <2>4. PlacedSo(book, book', side, price)
    BY <2>1, <2>2, <2>3, PlacingOrder
  <2>. QED  BY <1>5, <1>6, <2>3, <2>4, PlacedDoesNotCross
<1>9. ASSUME NEW t \in Traders, NEW side \in SidesOf[t], NEW price \in Prices,
             NEW amount \in Amounts,
             PlaceMarginMarketOrder(t, side, price, amount)
      PROVE  FALSE
  <2>1. /\ MarketActive
        /\ book' = Match([Refresh(book, Other(side)) EXCEPT !.nextId = @ + 1],
                         t, side, price, amount).book
    BY <1>9, Zenon DEF PlaceMarginMarketOrder, Commit
  <2>2. Sound(book, {}, {}, {}) /\ BestsAre(book, {}) /\ book.nextId <= MaxOrders
    BY <1>1, <1>4, <2>1
  <2>3. amount \in Nat
    BY <1>3
  <2>4. Fewer(book, book')
    BY <2>1, <2>2, <2>3, MatchingOnly
  <2>. QED  BY <1>7, <2>4
<1>10. ASSUME NEW id \in Ids, CancelOrder(id) PROVE FALSE
  <2>1. book.orders[id].trader # NULL /\ book' = CancelOrderIn(book, id)
    BY <1>10 DEF CancelOrder, Commit, Resting
  <2>2. Thins(book, book', {id})
    BY <1>1, <1>2, <2>1, CancellingOrder
  <2>. QED  BY <1>7, <2>2 DEF Thins, Fewer
<1>11. ASSUME NEW id \in Ids, NEW price \in Prices, NEW amount \in Amounts,
              ModifyOrder(id, price, amount)
       PROVE  Cardinality(less) >= MaxMatches
  <2>. DEFINE t == book.orders[id].trader
              side == book.orders[id].side
              c == CancelOrderIn(book, id)
  <2>1. MarketActive /\ t # NULL /\ book' = PlaceLimitOrder(c, t, side, price, amount)
    BY <1>11 DEF ModifyOrder, Commit, Resting
  <2>2. Sound(book, {}, {}, {}) /\ BestsAre(book, {}) /\ book.nextId <= MaxOrders
    BY <1>1, <1>4, <2>1
  <2>3. MayPlace(t, side, price) /\ amount \in Nat /\ price \in Nat
    BY <1>3, <2>1, <2>2, OrderMayBePlaced
  <2>4. /\ Sound(c, {}, {}, {}) /\ BestsAre(c, {}) /\ Thins(book, c, {id})
        /\ c.orders[id].trader = NULL
    BY <2>1, <2>2, CancellingOrder
  <2>5. c.nextId <= MaxOrders /\ Fewer(book, c)
    BY <2>2, <2>4 DEF Thins, Fewer
  <2>. HIDE DEF c, t, side
  <2>6. PlacedSo(c, book', side, price)
    BY <2>1, <2>3, <2>4, <2>5, PlacingOrder
  <2>7. ~Crossed(c)
    BY <2>5, FewerDoNotCross
  <2>. DEFINE some == Lessened(c.orders, book'.orders)
  <2>8. Cardinality(some) = MaxMatches
    BY <1>5, <2>3, <2>6, <2>7, PlacedDoesNotCross
  <2>9. some \subseteq less
    BY <1>5, <1>6, <2>4, LessenedAfterCancel DEF Sound
  <2>. HIDE DEF some
  <2>10. Cardinality(some) <= Cardinality(less) /\ Cardinality(less) \in Nat
    BY <1>6, <2>9, FS_Subset, FS_CardinalityType
  <2>. QED  BY <1>3, <2>8, <2>10
<1>12. ASSUME AdminCancelAllRestingOrders PROVE FALSE
  <2>. DEFINE c == CancelSide(book, "buy")
  <2>1. book' = CancelSide(c, "sell")
    BY <1>12 DEF AdminCancelAllRestingOrders, Commit
  <2>2. Sound(c, lost, {}, {}) /\ BestsAre(c, lost) /\ Fewer(book, c)
    BY <1>1, <1>2, CancellingSide DEF Sides
  <2>. HIDE DEF c
  <2>3. Fewer(c, book')
    BY <1>2, <2>1, <2>2, CancellingSide DEF Sides
  <2>. QED  BY <2>2, <2>3, FewerDoNotCross
<1>13. IsBook(book)
  BY <1>1 DEF Sound
<1>14. ASSUME book'.orders = book.orders PROVE FALSE
  BY <1>7, <1>14 DEF Fewer, SamePlace
<1>15. ASSUME SettleMarket PROVE FALSE
  <2>1. book'.orders = book.orders
    BY <1>13, <1>15 DEF SettleMarket, IsBook
  <2>. QED  BY <1>14, <2>1
<1>16. ASSUME CleanupSettledMarket PROVE FALSE
  <2>1. book'.orders = book.orders
    BY <1>13, <1>16 DEF CleanupSettledMarket, IsBook
  <2>. QED  BY <1>14, <2>1
<1>17. ASSUME UNCHANGED vars PROVE FALSE
  BY <1>14, <1>17 DEF vars
<1>18. Cardinality(less) >= MaxMatches
  <2>. DEFINE enough == Cardinality(less) >= MaxMatches
  <2>1. Cardinality(less) = MaxMatches => enough
    BY <1>3
  <2>2. ASSUME NEW t \in Traders, NEW side \in SidesOf[t], NEW price \in Prices,
               NEW amount \in Amounts,
               PlaceMarginLimitOrder(t, side, price, amount)
        PROVE  enough
    BY <1>8, <2>1, <2>2
  <2>3. ASSUME NEW id \in Ids, NEW price \in Prices, NEW amount \in Amounts,
               ModifyOrder(id, price, amount)
        PROVE  enough
    BY <1>11, <2>3
  <2>. HIDE DEF enough
  <2>4. enough
    BY <1>9, <1>10, <1>12, <1>15, <1>16, <1>17, <2>2, <2>3 DEF Next
  <2>. QED  BY <2>4 DEF enough
<1>. QED  BY <1>18 DEF less

\* Buyers and sellers who would trade come to rest side by side only through an
\* order that has used up its matches, whatever was cancelled and modified before.
THEOREM BookCrossesByTheLimit ==
  ASSUME OneSided
  PROVE  Spec => CrossedOnlyByTheLimit
<1>1. BookInv /\ [Next]_vars => (Crossed(book') /\ ~Crossed(book)
         => Cardinality({id \in Resting(book) : book'.orders[id].amount < book.orders[id].amount})
              >= MaxMatches)
  BY CrossingStep DEF LessOf
<1>. QED  BY <1>1, BookIsGood, PTL DEF CrossedOnlyByTheLimit, Spec
====
