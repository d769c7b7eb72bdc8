---------------------------- MODULE DataInduction ----------------------------
(***************************************************************************)
(* Induction over finite data, and sums over finite sets.  The induction   *)
(* theorems of the library take a predicate, so these state induction for  *)
(* a set: a property P(n) is proved as the membership of n in {n \in Nat : *)
(* P(n)}.                                                                  *)
(***************************************************************************)
EXTENDS Integers, FiniteSets, Functions, FiniteSetTheorems, WellFoundedInduction, TLAPS

\* Induction over the natural numbers, for a set instead of a predicate: a set
\* of numbers without a least element outside it is all of them.
LEMMA SetInduction ==
  ASSUME NEW T, 0 \in T, \A n \in Nat : n \in T => n + 1 \in T
  PROVE  \A n \in Nat : n \in T
<1>1. SUFFICES ASSUME Nat \ T # {} PROVE FALSE
  OBVIOUS
<1>2. PICK n \in Nat \ T : \A k \in Nat \ T : ~ (<<k, n>> \in OpToRel(<, Nat))
  BY <1>1, NatLessThanWellFounded, WFMin, Zenon
<1>3. \A k \in Nat \ T : ~ k < n
  BY <1>2 DEF OpToRel
<1>4. n # 0 /\ n - 1 \in Nat /\ n - 1 < n /\ (n - 1) + 1 = n
  OBVIOUS
<1>. QED
  BY <1>3, <1>4

\* G[i] is a function on S for every i from 1 to n.
Turns(S, n, G) == \A i \in 1 .. n, x \in S : G[i][x] \in S

\* f lists what n turns of G make of base.
Iterates(f, S, base, n, G) ==
  /\ f \in [0 .. n -> S]
  /\ f[0] = base
  /\ \A i \in 1 .. n : f[i] = G[i][f[i - 1]]

\* A loop of n turns that stays in S has a list of its results.
LEMMA IterationExists ==
  ASSUME NEW S, NEW base \in S, NEW n \in Nat, NEW G, Turns(S, n, G)
  PROVE  \E f : Iterates(f, S, base, n, G)
<1>. DEFINE Good(k, f) == f[0] = base /\ \A i \in 1 .. k : f[i] = G[i][f[i - 1]]
            T == {k \in Nat : k <= n => \E f \in [0 .. k -> S] : Good(k, f)}
<1>1. 0 \in T
  <2>1. [i \in 0 .. 0 |-> base] \in [0 .. 0 -> S] /\ Good(0, [i \in 0 .. 0 |-> base])
    OBVIOUS
  <2>. QED  BY <2>1
<1>2. ASSUME NEW k \in Nat, k \in T PROVE k + 1 \in T
  <2>1. SUFFICES ASSUME k + 1 <= n PROVE \E f \in [0 .. k + 1 -> S] : Good(k + 1, f)
    OBVIOUS
  <2>2. PICK f \in [0 .. k -> S] : Good(k, f)
    BY <1>2, <2>1
  <2>. DEFINE g == [i \in 0 .. k + 1 |-> IF i = k + 1 THEN G[k + 1][f[k]] ELSE f[i]]
  <2>3. g \in [0 .. k + 1 -> S]
    BY <2>1, <2>2 DEF Turns
  <2>4. Good(k + 1, g)
    BY <2>2
  <2>. QED  BY <2>3, <2>4
<1>3. \A k \in Nat : k \in T
  <2>. HIDE DEF T
  <2>. QED  BY <1>1, <1>2, SetInduction
<1>. QED  BY <1>3 DEF Iterates

----------------------------------------------------------------------------
(* Sums over finite sets. *)

\* The element of s that a fold takes first.
Picked(s) == CHOOSE x \in s : TRUE

\* f gives every member of S an integer.
Ints(f, S) == \A x \in S : f[x] \in Int

\* h gives s the sum that the fold gives it.
Partial(h, f, s) == h[s] = IF s = {} THEN 0 ELSE f[Picked(s)] + h[s \ {Picked(s)}]

\* h does so for every part of S.
Accumulates(h, f, S) == \A s \in SUBSET S : Partial(h, f, s)

\* h lists the sums of the parts of S.
SumsUp(h, f, S) == h \in [SUBSET S -> Int] /\ Accumulates(h, f, S)

\* A set that is not empty has a first element.
LEMMA PickedIsIn ==
  ASSUME NEW s, s # {}
  PROVE  Picked(s) \in s
BY DEF Picked

\* A finite set has one element less without one of its elements.
LEMMA WithoutPicked ==
  ASSUME NEW s, IsFiniteSet(s), NEW x \in s
  PROVE  /\ IsFiniteSet(s \ {x})
         /\ Cardinality(s \ {x}) \in Nat
         /\ Cardinality(s) = Cardinality(s \ {x}) + 1
<1>1. Cardinality(s) \in Nat
  BY FS_CardinalityType
<1>2. IsFiniteSet(s \ {x}) /\ Cardinality(s \ {x}) = Cardinality(s) - 1
  BY FS_RemoveElement
<1>3. Cardinality(s \ {x}) \in Nat
  BY <1>2, FS_CardinalityType
<1>. QED  BY <1>1, <1>2, <1>3

\* Every finite set has a list of the sums of its parts, by induction on their
\* cardinality.
LEMMA SumsExist ==
  ASSUME NEW S, IsFiniteSet(S), NEW f, Ints(f, S)
  PROVE  \E h : SumsUp(h, f, S)
<1>. DEFINE Small(n) == {s \in SUBSET S : Cardinality(s) <= n}
            Layer(h, n) == h \in [Small(n) -> Int] /\ \A s \in Small(n) : Partial(h, f, s)
            T == {n \in Nat : \E h : Layer(h, n)}
<1>1. \A s \in SUBSET S : IsFiniteSet(s) /\ Cardinality(s) \in Nat
                           /\ (Cardinality(s) = 0 <=> s = {})
  BY FS_Subset, FS_CardinalityType, FS_EmptySet
<1>2. 0 \in T
  <2>. DEFINE h == [s \in Small(0) |-> 0]
  <2>1. \A s \in Small(0) : s = {}
    BY <1>1
  <2>2. Layer(h, 0)
    BY <2>1 DEF Partial
  <2>. QED  BY <2>2
<1>3. ASSUME NEW n \in Nat, n \in T PROVE n + 1 \in T
  <2>1. PICK h : Layer(h, n)
    BY <1>3
  <2>. DEFINE g == [s \in Small(n + 1) |->
                     IF s = {} THEN 0 ELSE f[Picked(s)] + h[s \ {Picked(s)}]]
  <2>2. \A s \in Small(n + 1) : s # {} => s \ {Picked(s)} \in Small(n)
    <3>1. SUFFICES ASSUME NEW s \in Small(n + 1), s # {} PROVE s \ {Picked(s)} \in Small(n)
      OBVIOUS
    <3>2. Picked(s) \in s /\ s \ {Picked(s)} \in SUBSET S
      BY <3>1, PickedIsIn
    <3>3. Cardinality(s \ {Picked(s)}) \in Nat /\ Cardinality(s) = Cardinality(s \ {Picked(s)}) + 1
      BY <1>1, <3>2, WithoutPicked
    <3>. QED  BY <3>1, <3>2, <3>3
  <2>3. \A s \in Small(n) : s \in Small(n + 1) /\ g[s] = h[s]
    <3>1. \A s \in Small(n) : s \in Small(n + 1)
      BY <1>1
    <3>. QED  BY <2>1, <3>1 DEF Partial
  <2>4. g \in [Small(n + 1) -> Int]
    <3>1. ASSUME NEW s \in Small(n + 1), s # {}
          PROVE  f[Picked(s)] + h[s \ {Picked(s)}] \in Int
      <4>1. f[Picked(s)] \in Int
        BY <3>1, PickedIsIn DEF Ints
      <4>2. h[s \ {Picked(s)}] \in Int
        BY <2>1, <2>2, <3>1
      <4>. QED  BY <4>1, <4>2
    <3>. HIDE DEF Small
    <3>. QED  BY <3>1
  <2>5. \A s \in Small(n + 1) : Partial(g, f, s)
    BY <2>2, <2>3 DEF Partial
  <2>6. Layer(g, n + 1)
    BY <2>4, <2>5
  <2>. HIDE DEF g, Layer
  <2>. QED  BY <2>6
<1>4. \A n \in Nat : n \in T
  <2>. HIDE DEF T
  <2>. QED  BY <1>2, <1>3, SetInduction
<1>5. PICK h : Layer(h, Cardinality(S))
  BY <1>1, <1>4
<1>6. Small(Cardinality(S)) = SUBSET S
  BY FS_Subset
<1>. QED  BY <1>5, <1>6 DEF SumsUp, Accumulates

\* There is one such list: two functions that agree have the same sums.
LEMMA SumsAgree ==
  ASSUME NEW S, IsFiniteSet(S), NEW f, NEW h, SumsUp(h, f, S),
         NEW R \in SUBSET S, NEW g, NEW k, Accumulates(k, g, R), \A x \in R : f[x] = g[x]
  PROVE  k[R] = h[R]
<1>. DEFINE T == {n \in Nat : \A s \in SUBSET R : Cardinality(s) <= n => k[s] = h[s]}
<1>1. \A s \in SUBSET R : IsFiniteSet(s) /\ Cardinality(s) \in Nat
                           /\ (Cardinality(s) = 0 <=> s = {})
  BY FS_Subset, FS_CardinalityType, FS_EmptySet
<1>2. k[{}] = 0 /\ h[{}] = 0
  BY DEF SumsUp, Accumulates, Partial
<1>6. 0 \in T
  BY <1>1, <1>2
<1>3. ASSUME NEW n \in Nat, n \in T, NEW s \in SUBSET R, Cardinality(s) <= n + 1, s # {}
      PROVE  k[s] = h[s]
  <2>1. Picked(s) \in s /\ s \ {Picked(s)} \in SUBSET R
    BY <1>3, PickedIsIn
  <2>2. Cardinality(s \ {Picked(s)}) \in Nat /\ Cardinality(s) = Cardinality(s \ {Picked(s)}) + 1
    BY <1>1, <2>1, WithoutPicked
  <2>3. k[s \ {Picked(s)}] = h[s \ {Picked(s)}] /\ f[Picked(s)] = g[Picked(s)]
    BY <1>3, <2>1, <2>2
  <2>. QED  BY <1>3, <2>3 DEF SumsUp, Accumulates, Partial
<1>4. \A n \in Nat : n \in T => n + 1 \in T
  BY <1>2, <1>3
<1>5. \A n \in Nat : n \in T
  <2>. HIDE DEF T
  <2>. QED  BY <1>4, <1>6, SetInduction
<1>. QED  BY <1>1, <1>5

\* SumFunctionOnSet gives the sum in that list: the function that it chooses
\* exists.
LEMMA SumIsThat ==
  ASSUME NEW S, IsFiniteSet(S), NEW f, Ints(f, S)
  PROVE  \E h : SumsUp(h, f, S) /\ SumFunctionOnSet(f, S) = h[S]
<1>. DEFINE Fold(h) == h = [s \in SUBSET S |->
                             IF s = {} THEN 0
                             ELSE f[CHOOSE x \in s : TRUE] + h[s \ {CHOOSE x \in s : TRUE}]]
            fold == CHOOSE h : Fold(h)
<1>1. PICK h : SumsUp(h, f, S)
  BY SumsExist
<1>2. Fold(h)
  BY <1>1 DEF SumsUp, Accumulates, Partial, Picked
<1>3. Fold(fold)
  <2>. HIDE DEF Fold
  <2>. QED  BY <1>2, Zenon
<1>4. SumFunctionOnSet(f, S) = fold[S]
  BY DEF SumFunctionOnSet, FoldFunctionOnSet, MapThenFoldSet
<1>. HIDE DEF fold
<1>5. Accumulates(fold, f, S)
  BY <1>3 DEF Accumulates, Partial, Picked
<1>6. fold[S] = h[S]
  BY <1>1, <1>5, SumsAgree
<1>. QED  BY <1>1, <1>4, <1>6

\* And the list gives every part of S its SumFunctionOnSet.
LEMMA SumOfPart ==
  ASSUME NEW S, IsFiniteSet(S), NEW f, Ints(f, S), NEW h, SumsUp(h, f, S), NEW R \in SUBSET S
  PROVE  h[R] = SumFunctionOnSet(f, R)
<1>1. IsFiniteSet(R)
  BY FS_Subset
<1>2. Ints(f, R)
  BY DEF Ints
<1>3. PICK k : SumsUp(k, f, R) /\ SumFunctionOnSet(f, R) = k[R]
  BY <1>1, <1>2, SumIsThat
<1>4. Accumulates(k, f, R)
  BY <1>3 DEF SumsUp
<1>5. k[R] = h[R]
  BY <1>4, SumsAgree
<1>. QED  BY <1>3, <1>5

\* A sum of integers is an integer.
LEMMA SumIsInt ==
  ASSUME NEW S, IsFiniteSet(S), NEW f, Ints(f, S)
  PROVE  SumFunctionOnSet(f, S) \in Int
<1>1. PICK h : SumsUp(h, f, S) /\ SumFunctionOnSet(f, S) = h[S]
  BY SumIsThat
<1>. QED  BY <1>1 DEF SumsUp

\* The sum over the empty set is zero.
LEMMA SumOfNothing ==
  ASSUME NEW f
  PROVE  SumFunctionOnSet(f, {}) = 0
<1>1. IsFiniteSet({}) /\ Ints(f, {})
  BY FS_EmptySet DEF Ints
<1>. QED  BY <1>1, SumIsThat DEF SumsUp, Accumulates, Partial

\* A sum depends on the values on the set only.
LEMMA SumCongruence ==
  ASSUME NEW S, IsFiniteSet(S), NEW f, NEW g, Ints(f, S), \A x \in S : f[x] = g[x]
  PROVE  SumFunctionOnSet(f, S) = SumFunctionOnSet(g, S)
<1>1. Ints(g, S)
  BY DEF Ints
<1>2. PICK h : SumsUp(h, f, S) /\ SumFunctionOnSet(f, S) = h[S]
  BY SumIsThat
<1>3. PICK k : SumsUp(k, g, S) /\ SumFunctionOnSet(g, S) = k[S]
  BY <1>1, SumIsThat
<1>4. Accumulates(k, g, S)
  BY <1>3 DEF SumsUp
<1>5. k[S] = h[S]
  BY <1>2, <1>4, SumsAgree
<1>. QED  BY <1>2, <1>3, <1>5

\* Any element may be taken out of a sum, whichever the fold takes first.
LEMMA SumSplit ==
  ASSUME NEW S, IsFiniteSet(S), NEW f, Ints(f, S), NEW x \in S
  PROVE  SumFunctionOnSet(f, S) = f[x] + SumFunctionOnSet(f, S \ {x})
<1>1. PICK h : SumsUp(h, f, S) /\ SumFunctionOnSet(f, S) = h[S]
  BY SumIsThat
<1>. DEFINE Splits(s) == \A y \in s : h[s] = f[y] + h[s \ {y}]
            T == {n \in Nat : \A s \in SUBSET S : Cardinality(s) = n => Splits(s)}
<1>2. \A s \in SUBSET S : IsFiniteSet(s) /\ Cardinality(s) \in Nat
                           /\ (Cardinality(s) = 0 <=> s = {})
  BY FS_Subset, FS_CardinalityType, FS_EmptySet
<1>3. \A s \in SUBSET S : s # {} => h[s] = f[Picked(s)] + h[s \ {Picked(s)}]
  BY <1>1 DEF SumsUp, Accumulates, Partial
<1>4. \A s \in SUBSET S : h[s] \in Int
  BY <1>1 DEF SumsUp
<1>5. 0 \in T
  BY <1>2
<1>6. ASSUME NEW n \in Nat, n \in T, NEW s \in SUBSET S, Cardinality(s) = n + 1, NEW y \in s
      PROVE  h[s] = f[y] + h[s \ {y}]
  <2>. DEFINE p == Picked(s)
  <2>1. p \in s /\ h[s] = f[p] + h[s \ {p}]
    BY <1>3, PickedIsIn
  <2>2. \A z \in s : s \ {z} \in SUBSET S /\ Cardinality(s \ {z}) = n
    <3>1. ASSUME NEW z \in s PROVE Cardinality(s \ {z}) = n
      <4>1. /\ Cardinality(s \ {z}) \in Nat
            /\ Cardinality(s) = Cardinality(s \ {z}) + 1
        BY <1>2, WithoutPicked
      <4>. QED  BY <1>6, <4>1
    <3>. QED  BY <3>1
  <2>. HIDE DEF p
  <2>3. CASE p # y
    <3>1. h[s \ {p}] = f[y] + h[(s \ {p}) \ {y}]
      BY <1>6, <2>1, <2>2, <2>3
    <3>2. h[s \ {y}] = f[p] + h[(s \ {y}) \ {p}]
      BY <1>6, <2>1, <2>2, <2>3
    <3>3. (s \ {p}) \ {y} = (s \ {y}) \ {p}
      OBVIOUS
    <3>4. f[p] \in Int /\ f[y] \in Int /\ h[(s \ {p}) \ {y}] \in Int
      BY <1>4, <2>1 DEF Ints
    <3>. DEFINE rest == h[(s \ {p}) \ {y}]
    <3>5. h[s] = f[p] + (f[y] + rest) /\ h[s \ {y}] = f[p] + rest
      BY <2>1, <3>1, <3>2, <3>3
    <3>6. f[p] \in Int /\ f[y] \in Int /\ rest \in Int
      BY <3>4
    <3>. HIDE DEF rest
    <3>7. f[p] + (f[y] + rest) = f[y] + (f[p] + rest)
      BY <3>6
    <3>. QED  BY <3>5, <3>7
  <2>. QED  BY <2>1, <2>3
<1>7. \A n \in Nat : n \in T => n + 1 \in T
  <2>1. ASSUME NEW n \in Nat, n \in T, NEW s \in SUBSET S, Cardinality(s) = n + 1
        PROVE  Splits(s)
    <3>. HIDE DEF T
    <3>. QED  BY <1>6, <2>1
  <2>. HIDE DEF Splits
  <2>. QED  BY <2>1
<1>8. \A n \in Nat : n \in T
  <2>. HIDE DEF T
  <2>. QED  BY <1>5, <1>7, SetInduction
<1>9. h[S] = f[x] + h[S \ {x}]
  BY <1>2, <1>8
<1>10. h[S \ {x}] = SumFunctionOnSet(f, S \ {x})
  BY <1>1, SumOfPart
<1>. QED  BY <1>1, <1>9, <1>10

\* A family of parts of S that stays closed when an element joins a part.
Grows(S, T) == \A s \in SUBSET S, x \in S : s \in T /\ x \notin s => s \cup {x} \in T

\* Induction over the parts of a finite set.
LEMMA SubsetInduction ==
  ASSUME NEW S, IsFiniteSet(S), NEW T, {} \in T, Grows(S, T)
  PROVE  S \in T
<1>. DEFINE N == {n \in Nat : \A s \in SUBSET S : Cardinality(s) = n => s \in T}
<1>1. \A s \in SUBSET S : IsFiniteSet(s) /\ Cardinality(s) \in Nat
                           /\ (Cardinality(s) = 0 <=> s = {})
  BY FS_Subset, FS_CardinalityType, FS_EmptySet
<1>2. 0 \in N
  BY <1>1
<1>3. ASSUME NEW n \in Nat, n \in N, NEW s \in SUBSET S, Cardinality(s) = n + 1
      PROVE  s \in T
  <2>1. s # {}
    BY <1>1, <1>3
  <2>. DEFINE x == Picked(s)
              r == s \ {x}
  <2>2. x \in s
    BY <2>1, PickedIsIn
  <2>3. Cardinality(r) \in Nat /\ Cardinality(s) = Cardinality(r) + 1
    <3>. HIDE DEF x
    <3>. QED  BY <1>1, <2>2, WithoutPicked
  <2>4. r \in T
    BY <1>3, <2>3
  <2>5. r \in SUBSET S /\ x \in S /\ x \notin r /\ s = r \cup {x}
    BY <2>2
  <2>. HIDE DEF x, r
  <2>. QED  BY <2>4, <2>5 DEF Grows
<1>4. \A n \in Nat : n \in N => n + 1 \in N
  BY <1>3
<1>5. \A n \in Nat : n \in N
  <2>. HIDE DEF N
  <2>. QED  BY <1>2, <1>4, SetInduction
<1>. QED  BY <1>1, <1>5

\* An element that joins a set joins its sum.
LEMMA SumWith ==
  ASSUME NEW S, IsFiniteSet(S), NEW f, Ints(f, S), NEW s \in SUBSET S, NEW x \in S, x \notin s
  PROVE  SumFunctionOnSet(f, s \cup {x}) = f[x] + SumFunctionOnSet(f, s)
<1>. DEFINE t == s \cup {x}
<1>1. t \in SUBSET S /\ x \in t /\ t \ {x} = s
  OBVIOUS
<1>. HIDE DEF t
<1>2. IsFiniteSet(t)
  BY <1>1, FS_Subset
<1>3. Ints(f, t)
  BY <1>1 DEF Ints
<1>4. SumFunctionOnSet(f, t) = f[x] + SumFunctionOnSet(f, t \ {x})
  BY <1>1, <1>2, <1>3, SumSplit
<1>. QED  BY <1>1, <1>4 DEF t

\* A sum of natural numbers is a natural number.
LEMMA SumIsNat ==
  ASSUME NEW S, IsFiniteSet(S), NEW f, \A x \in S : f[x] \in Nat
  PROVE  SumFunctionOnSet(f, S) \in Nat
<1>. DEFINE T == {s \in SUBSET S : SumFunctionOnSet(f, s) \in Nat}
<1>1. {} \in T
  BY SumOfNothing
<1>2. ASSUME NEW s \in SUBSET S, NEW x \in S, SumFunctionOnSet(f, s) \in Nat, x \notin s
      PROVE  SumFunctionOnSet(f, s \cup {x}) \in Nat
  <2>1. SumFunctionOnSet(f, s \cup {x}) = f[x] + SumFunctionOnSet(f, s)
    BY <1>2, SumWith DEF Ints
  <2>. QED  BY <1>2, <2>1
<1>3. Grows(S, T)
  BY <1>2 DEF Grows
<1>4. S \in T
  <2>. HIDE DEF T
  <2>. QED  BY <1>1, <1>3, SubsetInduction
<1>. QED  BY <1>4

\* No term of a sum of natural numbers exceeds it.
LEMMA SumCoversElement ==
  ASSUME NEW S, IsFiniteSet(S), NEW f, \A x \in S : f[x] \in Nat, NEW x \in S
  PROVE  f[x] <= SumFunctionOnSet(f, S)
<1>1. IsFiniteSet(S \ {x}) /\ Ints(f, S)
  BY FS_RemoveElement DEF Ints
<1>2. SumFunctionOnSet(f, S \ {x}) \in Nat
  BY <1>1, SumIsNat
<1>3. SumFunctionOnSet(f, S) = f[x] + SumFunctionOnSet(f, S \ {x})
  BY <1>1, SumSplit
<1>. QED  BY <1>2, <1>3

\* f and g agree on S, save for x.
AgreeBut(f, g, S, x) == \A y \in S \ {x} : g[y] = f[y]

\* When one term changes, the sum changes by as much.
LEMMA SumAfterChange ==
  ASSUME NEW S, IsFiniteSet(S), NEW f, Ints(f, S), NEW g, NEW x \in S, g[x] \in Int,
         AgreeBut(f, g, S, x)
  PROVE  SumFunctionOnSet(g, S) = SumFunctionOnSet(f, S) - f[x] + g[x]
<1>1. IsFiniteSet(S \ {x}) /\ Ints(f, S \ {x}) /\ Ints(g, S)
  BY FS_RemoveElement DEF Ints, AgreeBut
<1>2. SumFunctionOnSet(g, S \ {x}) = SumFunctionOnSet(f, S \ {x})
  BY <1>1, SumCongruence DEF AgreeBut
<1>3. SumFunctionOnSet(f, S) = f[x] + SumFunctionOnSet(f, S \ {x})
  BY SumSplit
<1>4. SumFunctionOnSet(g, S) = g[x] + SumFunctionOnSet(g, S \ {x})
  BY <1>1, SumSplit
<1>5. SumFunctionOnSet(f, S \ {x}) \in Int /\ f[x] \in Int
  BY <1>1, SumIsInt DEF Ints
<1>. QED  BY <1>2, <1>3, <1>4, <1>5

\* h is f less g.
LessOn(S, h, f, g) == \A x \in S : h[x] = f[x] - g[x]

\* The sum of the differences is the difference of the sums.
LEMMA SumOfDifference ==
  ASSUME NEW S, IsFiniteSet(S), NEW f, NEW g, NEW h, Ints(f, S), Ints(g, S), LessOn(S, h, f, g)
  PROVE  SumFunctionOnSet(h, S) = SumFunctionOnSet(f, S) - SumFunctionOnSet(g, S)
<1>. DEFINE F(s) == SumFunctionOnSet(f, s)
            G(s) == SumFunctionOnSet(g, s)
            H(s) == SumFunctionOnSet(h, s)
            T == {s \in SUBSET S : H(s) = F(s) - G(s)}
<1>1. {} \in T
  BY SumOfNothing
<1>2. Ints(h, S)
  BY DEF Ints, LessOn
<1>3. ASSUME NEW s \in SUBSET S, NEW x \in S, H(s) = F(s) - G(s), x \notin s
      PROVE  H(s \cup {x}) = F(s \cup {x}) - G(s \cup {x})
  <2>1. IsFiniteSet(s) /\ Ints(f, s) /\ Ints(g, s)
    BY FS_Subset DEF Ints
  <2>2. F(s) \in Int /\ G(s) \in Int
    BY <2>1, SumIsInt
  <2>3. F(s \cup {x}) = f[x] + F(s) /\ G(s \cup {x}) = g[x] + G(s) /\ H(s \cup {x}) = h[x] + H(s)
    BY <1>2, <1>3, SumWith
  <2>4. f[x] \in Int /\ g[x] \in Int /\ h[x] = f[x] - g[x]
    BY DEF Ints, LessOn
  <2>. HIDE DEF F, G, H
  <2>. QED  BY <1>3, <2>2, <2>3, <2>4
<1>4. Grows(S, T)
  <2>. HIDE DEF F, G, H
  <2>. QED  BY <1>3 DEF Grows
<1>5. S \in T
  <2>. HIDE DEF T
  <2>. QED  BY <1>1, <1>4, SubsetInduction
<1>. QED  BY <1>5

\* Terms that are zero do not count.
LEMMA SumInside ==
  ASSUME NEW S, IsFiniteSet(S), NEW f, Ints(f, S), NEW U \in SUBSET S,
         \A x \in S \ U : f[x] = 0
  PROVE  SumFunctionOnSet(f, S) = SumFunctionOnSet(f, U)
<1>. DEFINE T == {s \in SUBSET S : SumFunctionOnSet(f, s) = SumFunctionOnSet(f, s \cap U)}
<1>1. {} \in T
  OBVIOUS
<1>2. ASSUME NEW s \in SUBSET S, NEW x \in S, x \notin s,
             SumFunctionOnSet(f, s) = SumFunctionOnSet(f, s \cap U)
      PROVE  SumFunctionOnSet(f, s \cup {x}) = SumFunctionOnSet(f, (s \cup {x}) \cap U)
  <2>1. SumFunctionOnSet(f, s \cup {x}) = f[x] + SumFunctionOnSet(f, s)
    BY <1>2, SumWith
  <2>2. IsFiniteSet(s) /\ Ints(f, s)
    BY FS_Subset DEF Ints
  <2>3. SumFunctionOnSet(f, s) \in Int
    BY <2>2, SumIsInt
  <2>4. CASE x \in U
    <3>1. (s \cup {x}) \cap U = (s \cap U) \cup {x}
      BY <2>4
    <3>2. s \cap U \in SUBSET S /\ x \notin s \cap U
      BY <1>2
    <3>3. SumFunctionOnSet(f, (s \cap U) \cup {x}) = f[x] + SumFunctionOnSet(f, s \cap U)
      BY <3>2, SumWith
    <3>. QED  BY <1>2, <2>1, <3>1, <3>3
  <2>5. CASE x \notin U
    <3>1. (s \cup {x}) \cap U = s \cap U /\ f[x] = 0
      BY <2>5
    <3>2. \A n \in Int : f[x] + n = n
      BY <3>1
    <3>3. SumFunctionOnSet(f, s \cup {x}) = SumFunctionOnSet(f, s)
      BY <2>1, <2>3, <3>2
    <3>. QED  BY <1>2, <3>1, <3>3
  <2>. QED  BY <2>4, <2>5
<1>3. Grows(S, T)
  BY <1>2 DEF Grows
<1>4. S \in T
  <2>. HIDE DEF T
  <2>. QED  BY <1>1, <1>3, SubsetInduction
<1>5. S \cap U = U
  OBVIOUS
<1>. QED  BY <1>4, <1>5

\* f is at most g on S.
AtMostOn(S, f, g) == \A x \in S : f[x] <= g[x]

\* A sum grows with its terms.
LEMMA SumAtMost ==
  ASSUME NEW S, IsFiniteSet(S), NEW f, NEW g, Ints(f, S), Ints(g, S), AtMostOn(S, f, g)
  PROVE  SumFunctionOnSet(f, S) <= SumFunctionOnSet(g, S)
<1>. DEFINE h == [x \in S |-> g[x] - f[x]]
<1>1. LessOn(S, h, g, f) /\ \A x \in S : h[x] \in Nat
  BY DEF LessOn, AtMostOn, Ints
<1>. HIDE DEF h
<1>2. SumFunctionOnSet(h, S) = SumFunctionOnSet(g, S) - SumFunctionOnSet(f, S)
  BY <1>1, SumOfDifference
<1>3. SumFunctionOnSet(h, S) \in Nat
  BY <1>1, SumIsNat
<1>4. SumFunctionOnSet(g, S) \in Int /\ SumFunctionOnSet(f, S) \in Int
  BY SumIsInt
<1>. QED  BY <1>2, <1>3, <1>4

\* g is f with the terms of U gone.
ClearedOn(S, U, f, g) == \A x \in S : g[x] = IF x \in U THEN 0 ELSE f[x]

\* Then so is its sum.
LEMMA SumCleared ==
  ASSUME NEW S, IsFiniteSet(S), NEW U \in SUBSET S, NEW f, NEW g, Ints(f, S),
         ClearedOn(S, U, f, g)
  PROVE  SumFunctionOnSet(g, S) = SumFunctionOnSet(f, S) - SumFunctionOnSet(f, U)
<1>. DEFINE h == [x \in S |-> IF x \in U THEN f[x] ELSE 0]
<1>1. /\ LessOn(S, g, f, h) /\ Ints(h, S) /\ Ints(h, U)
      /\ \A x \in S \ U : h[x] = 0
      /\ \A x \in U : h[x] = f[x]
  BY DEF LessOn, ClearedOn, Ints
<1>. HIDE DEF h
<1>2. SumFunctionOnSet(g, S) = SumFunctionOnSet(f, S) - SumFunctionOnSet(h, S)
  BY <1>1, SumOfDifference
<1>3. SumFunctionOnSet(h, S) = SumFunctionOnSet(h, U)
  BY <1>1, SumInside
<1>4. SumFunctionOnSet(h, U) = SumFunctionOnSet(f, U)
  BY <1>1, FS_Subset, SumCongruence
<1>. QED  BY <1>2, <1>3, <1>4

\* The sum over two sets without a common element.
LEMMA SumUnion ==
  ASSUME NEW U, NEW V, IsFiniteSet(U \cup V), U \cap V = {}, NEW f, Ints(f, U \cup V)
  PROVE  SumFunctionOnSet(f, U \cup V) = SumFunctionOnSet(f, U) + SumFunctionOnSet(f, V)
<1>. DEFINE S == U \cup V
            g == [x \in S |-> IF x \in U THEN 0 ELSE f[x]]
<1>1. /\ U \in SUBSET S /\ V \in SUBSET S /\ IsFiniteSet(S) /\ Ints(f, S) /\ Ints(g, S)
      /\ ClearedOn(S, U, f, g)
      /\ \A x \in S \ V : g[x] = 0
      /\ \A x \in V : g[x] = f[x]
  BY DEF ClearedOn, Ints
<1>. HIDE DEF S, g
<1>2. SumFunctionOnSet(g, S) = SumFunctionOnSet(f, S) - SumFunctionOnSet(f, U)
  BY <1>1, SumCleared
<1>3. SumFunctionOnSet(g, S) = SumFunctionOnSet(g, V)
  BY <1>1, SumInside
<1>4. IsFiniteSet(V) /\ IsFiniteSet(U) /\ Ints(g, V) /\ Ints(f, U)
  BY <1>1, FS_Subset DEF Ints
<1>5. SumFunctionOnSet(g, V) = SumFunctionOnSet(f, V)
  BY <1>1, <1>4, SumCongruence
<1>6. SumFunctionOnSet(f, S) \in Int /\ SumFunctionOnSet(f, U) \in Int
  BY <1>1, <1>4, SumIsInt
<1>7. SumFunctionOnSet(f, S) = SumFunctionOnSet(f, U) + SumFunctionOnSet(f, V)
  BY <1>2, <1>3, <1>5, <1>6
<1>. QED  BY <1>7 DEF S

\* p is at most the part k of r of g.
SharesOn(S, p, g, k, r) == \A x \in S : p[x] \in Nat /\ g[x] \in Nat /\ r * p[x] <= k * g[x]

\* Shares rounded down add up to no more than the share of the sum.
LEMMA SumOfShares ==
  ASSUME NEW S, IsFiniteSet(S), NEW k \in Nat, NEW r \in Nat, NEW p, NEW g,
         SharesOn(S, p, g, k, r)
  PROVE  r * SumFunctionOnSet(p, S) <= k * SumFunctionOnSet(g, S)
<1>. DEFINE P(s) == SumFunctionOnSet(p, s)
            G(s) == SumFunctionOnSet(g, s)
            T == {s \in SUBSET S : r * P(s) <= k * G(s)}
<1>1. {} \in T
  BY SumOfNothing
<1>2. ASSUME NEW s \in SUBSET S, NEW x \in S, r * P(s) <= k * G(s), x \notin s
      PROVE  r * P(s \cup {x}) <= k * G(s \cup {x})
  <2>1. IsFiniteSet(s) /\ Ints(p, S) /\ Ints(g, S)
    BY FS_Subset DEF Ints, SharesOn
  <2>2. P(s) \in Nat /\ G(s) \in Nat
    BY <2>1, SumIsNat DEF SharesOn
  <2>3. P(s \cup {x}) = p[x] + P(s) /\ G(s \cup {x}) = g[x] + G(s)
    BY <1>2, <2>1, SumWith
  <2>4. p[x] \in Nat /\ g[x] \in Nat /\ r * p[x] <= k * g[x]
    BY DEF SharesOn
  <2>. HIDE DEF P, G
  <2>5. r * (p[x] + P(s)) = r * p[x] + r * P(s) /\ k * (g[x] + G(s)) = k * g[x] + k * G(s)
    BY <2>2, <2>4
  <2>6. /\ r * p[x] \in Nat /\ r * P(s) \in Nat /\ k * g[x] \in Nat /\ k * G(s) \in Nat
    BY <2>2, <2>4
  <2>. QED  BY <1>2, <2>3, <2>4, <2>5, <2>6
<1>3. Grows(S, T)
  <2>. HIDE DEF P, G
  <2>. QED  BY <1>2 DEF Grows
<1>4. S \in T
  <2>. HIDE DEF T
  <2>. QED  BY <1>1, <1>3, SubsetInduction
<1>. QED  BY <1>4

\* A sum of natural numbers over fewer of them is no greater.
LEMMA SumOfFewer ==
  ASSUME NEW D, IsFiniteSet(D), NEW I \in SUBSET D, NEW f, \A x \in D : f[x] \in Nat
  PROVE  /\ SumFunctionOnSet(f, I) \in Nat /\ SumFunctionOnSet(f, D) \in Nat
         /\ SumFunctionOnSet(f, I) <= SumFunctionOnSet(f, D)
<1>. DEFINE W == D \ I
<1>1. IsFiniteSet(I) /\ IsFiniteSet(W) /\ Ints(f, D)
  BY FS_Subset DEF Ints
<1>2. \A x \in W : f[x] \in Nat
  OBVIOUS
<1>3. I \cup W = D /\ I \cap W = {}
  OBVIOUS
<1>. HIDE DEF W
<1>4. SumFunctionOnSet(f, I) \in Nat /\ SumFunctionOnSet(f, W) \in Nat
  BY <1>1, <1>2, SumIsNat
<1>5. IsFiniteSet(I \cup W) /\ Ints(f, I \cup W)
  BY <1>1, <1>3
<1>6. SumFunctionOnSet(f, I \cup W) = SumFunctionOnSet(f, I) + SumFunctionOnSet(f, W)
  BY <1>3, <1>5, SumUnion
<1>7. SumFunctionOnSet(f, D) = SumFunctionOnSet(f, I) + SumFunctionOnSet(f, W)
  BY <1>3, <1>6
<1>. QED  BY <1>4, <1>7

\* A sum over the turns of a loop, turn by turn.
LEMMA SumOfTurns ==
  ASSUME NEW n \in Nat, NEW f \in [1 .. n -> Nat], NEW k \in 1 .. n
  PROVE  /\ SumFunctionOnSet(f, 1 .. k - 1) \in Nat
         /\ SumFunctionOnSet(f, 1 .. k) = f[k] + SumFunctionOnSet(f, 1 .. k - 1)
<1>1. IsFiniteSet(1 .. n)
  BY FS_Interval
<1>2. Ints(f, 1 .. n)
  BY DEF Ints
<1>3. /\ 1 .. k - 1 \in SUBSET (1 .. n) /\ k \notin 1 .. k - 1
      /\ 1 .. k = (1 .. k - 1) \cup {k}
  OBVIOUS
<1>. DEFINE s == 1 .. k - 1
<1>4. s \in SUBSET (1 .. n) /\ k \notin s
  BY <1>3
<1>. HIDE DEF s
<1>. DEFINE T == 1 .. n
<1>8. IsFiniteSet(T) /\ Ints(f, T) /\ s \in SUBSET T /\ k \in T
  BY <1>1, <1>2, <1>4
<1>. HIDE DEF T
<1>5. SumFunctionOnSet(f, s \cup {k}) = f[k] + SumFunctionOnSet(f, s)
  <2>1. \A R \in SUBSET T : \A x \in T : x \notin R =>
          SumFunctionOnSet(f, R \cup {x}) = f[x] + SumFunctionOnSet(f, R)
    BY <1>8, SumWith
  <2>. QED  BY <1>4, <1>8, <2>1
<1>6. IsFiniteSet(s) /\ \A i \in s : f[i] \in Nat
  BY <1>4, <1>8, FS_Subset DEF T
<1>7. SumFunctionOnSet(f, s) \in Nat
  BY <1>6, SumIsNat
<1>. QED  BY <1>3, <1>5, <1>7 DEF s

----------------------------------------------------------------------------
(* Loops. *)

\* What holds at the start of a loop, and in each turn if it did in the turn
\* before, holds in every turn.
LEMMA TurnByTurn ==
  ASSUME NEW n \in Nat, NEW S, NEW f, f[0] \in S[0],
         \A i \in 1 .. n : f[i - 1] \in S[i - 1] => f[i] \in S[i]
  PROVE  \A i \in 0 .. n : f[i] \in S[i]
<1>. DEFINE T == {i \in Nat : i <= n => f[i] \in S[i]}
<1>1. 0 \in T
  OBVIOUS
<1>2. ASSUME NEW i \in Nat, i \in T PROVE i + 1 \in T
  <2>1. i + 1 <= n => i + 1 \in 1 .. n /\ (i + 1) - 1 = i /\ i <= n
    OBVIOUS
  <2>. QED  BY <1>2, <2>1
<1>3. \A i \in Nat : i \in T
  <2>. HIDE DEF T
  <2>. QED  BY <1>1, <1>2, SetInduction
<1>. QED  BY <1>3

\* G[i] leads from S[i - 1] to S[i].
LeadsOn(S, n, G) == \A i \in 1 .. n : \A x \in S[i - 1] : G[i][x] \in S[i]

\* f lists what the turns of G make of base, the i-th of them in S[i].
Runs(f, S, base, n, G) ==
  /\ f = [i \in 0 .. n |-> f[i]]
  /\ f[0] = base
  /\ \A i \in 1 .. n : f[i] = G[i][f[i - 1]]
  /\ \A i \in 0 .. n : f[i] \in S[i]

\* Such a list exists.
LEMMA RunExists ==
  ASSUME NEW n \in Nat, NEW S, NEW base, base \in S[0], NEW G, LeadsOn(S, n, G)
  PROVE  \E f : Runs(f, S, base, n, G)
<1>. DEFINE T == {k \in Nat : k <= n => \E f : Runs(f, S, base, k, G)}
<1>1. 0 \in T
  <2>1. Runs([i \in 0 .. 0 |-> base], S, base, 0, G)
    BY DEF Runs
  <2>. QED  BY <2>1
<1>2. ASSUME NEW k \in Nat, k \in T PROVE k + 1 \in T
  <2>1. SUFFICES ASSUME k + 1 <= n PROVE \E f : Runs(f, S, base, k + 1, G)
    OBVIOUS
  <2>2. PICK f : Runs(f, S, base, k, G)
    BY <1>2, <2>1
  <2>. DEFINE g == [i \in 0 .. k + 1 |-> IF i = k + 1 THEN G[k + 1][f[k]] ELSE f[i]]
  <2>3. /\ \A i \in 0 .. k : i \in 0 .. k + 1 /\ i # k + 1
        /\ \A i \in 1 .. k + 1 : i - 1 \in 0 .. k /\ (i # k + 1 => i \in 1 .. k /\ i \in 0 .. k)
        /\ k + 1 \in 1 .. n /\ (k + 1) - 1 = k /\ k \in 0 .. k /\ k + 1 \in 0 .. k + 1
        /\ 0 \in 0 .. k
        /\ \A i \in 0 .. k + 1 : i = k + 1 \/ i \in 0 .. k
    BY <2>1
  <2>4. g[k + 1] = G[k + 1][f[k]] /\ \A i \in 0 .. k : g[i] = f[i]
    BY <2>3
  <2>5. g = [i \in 0 .. k + 1 |-> g[i]]
    OBVIOUS
  <2>. HIDE DEF g
  <2>6. g[0] = base /\ \A i \in 1 .. k + 1 : g[i] = G[i][g[i - 1]]
    BY <2>2, <2>3, <2>4 DEF Runs
  <2>7. \A i \in 0 .. k + 1 : g[i] \in S[i]
    BY <2>2, <2>3, <2>4 DEF Runs, LeadsOn
  <2>. QED  BY <2>5, <2>6, <2>7 DEF Runs
<1>3. \A k \in Nat : k \in T
  <2>. HIDE DEF T
  <2>. QED  BY <1>1, <1>2, SetInduction
<1>. QED  BY <1>3
=============================================================================
