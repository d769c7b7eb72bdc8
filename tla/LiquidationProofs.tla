-------------------------- MODULE LiquidationProofs --------------------------
(***************************************************************************)
(* Theorems about Liquidations, for any finite set of users, any markets,  *)
(* prices and fills.  A liquidation is a fold over its fills, and in it    *)
(* over the winners and over the makers.  Lemmas say what one turn does    *)
(* to sizes, haircuts, bad debt and money; then what the loops make of it; *)
(* then that the inductive invariant is kept.                              *)
(***************************************************************************)
EXTENDS Liquidations, BatchSettlementProofs

----------------------------------------------------------------------------
(* Who takes part in a loss. *)

\* Choosing elements of a sequence.
LEMMA AmongIsSeq ==
  ASSUME NEW U, NEW s \in Seq(U), NEW W
  PROVE  Among(s, W) \in Seq(U \cap W)
<1>. DEFINE n == Len(s)
            Turn(x, k) == IF s[k] \in W THEN Append(x, s[k]) ELSE x
            Loop(f) == f = [k \in 0 .. n |-> IF k = 0 THEN <<>> ELSE Turn(f[k - 1], k)]
            loop == CHOOSE f : Loop(f)
            S == [k \in 0 .. n |-> Seq(U \cap W)]
            G == [k \in 1 .. n |-> [x \in S[k - 1] |-> Turn(x, k)]]
<1>1. Among(s, W) = loop[n]
  BY Zenon DEF Among
<1>2. /\ n \in Nat /\ <<>> \in S[0]
      /\ \A k \in 1 .. n : \A x \in S[k - 1] : Turn(x, k) \in S[k]
  <2>1. \A k \in 1 .. n : s[k] \in U /\ k \in 0 .. n /\ k - 1 \in 0 .. n
    OBVIOUS
  <2>2. ASSUME NEW k \in 1 .. n, NEW x \in S[k - 1] PROVE Turn(x, k) \in S[k]
    <3>1. x \in Seq(U \cap W) /\ S[k] = Seq(U \cap W)
      BY <2>1
    <3>2. s[k] \in W => s[k] \in U \cap W
      BY <2>1
    <3>3. \A e \in U \cap W : Append(x, e) \in Seq(U \cap W)
      BY <3>1
    <3>. HIDE DEF S
    <3>. QED  BY <3>1, <3>2, <3>3
  <2>3. n \in Nat /\ <<>> \in S[0]
    OBVIOUS
  <2>. HIDE DEF n, S, Turn
  <2>. QED  BY <2>2, <2>3
<1>. HIDE DEF Turn, S, n
<1>3. LeadsOn(S, n, G)
  BY <1>2 DEF LeadsOn
<1>4. PICK f : Runs(f, S, <<>>, n, G)
  <2>. HIDE DEF G
  <2>. QED  BY <1>2, <1>3, RunExists
<1>5. Loop(f)
  <2>1. \A k \in 1 .. n : f[k] = Turn(f[k - 1], k)
    <3>1. \A k \in 1 .. n : k - 1 \in 0 .. n
      BY <1>2
    <3>. QED  BY <1>4, <3>1 DEF Runs
  <2>2. f = [k \in 0 .. n |-> f[k]] /\ f[0] = <<>>
    BY <1>4 DEF Runs
  <2>. QED  BY <1>2, <2>1, <2>2
<1>6. Loop(loop)
  <2>. HIDE DEF Loop
  <2>. QED  BY <1>5, Zenon
<1>. HIDE DEF loop
<1>7. loop[0] = <<>> /\ \A k \in 1 .. n : loop[k] = Turn(loop[k - 1], k)
  BY <1>2, <1>6
<1>8. \A k \in 0 .. n : loop[k] \in S[k]
  BY <1>2, <1>7, TurnByTurn
<1>. QED  BY <1>1, <1>2, <1>8 DEF S

\* Among integers there is a greatest one, and a first of the greatest.
LEMMA BestExists ==
  ASSUME NEW W, NEW s \in Seq(W), NEW score, \A v \in W : score[v] \in Int,
         NEW k \in 1 .. Len(s)
  PROVE  BestFrom(s, k, score) \in k .. Len(s)
<1>. DEFINE g == [i \in 1 .. Len(s) |-> score[s[i]]]
            Best(i, n) == \A j \in k .. n : g[i] > g[j] \/ (g[i] = g[j] /\ i <= j)
            T == {n \in Nat : k <= n /\ n <= Len(s) => \E i \in k .. n : Best(i, n)}
<1>1. \A i \in 1 .. Len(s) : g[i] = score[s[i]] /\ g[i] \in Int
  OBVIOUS
<1>. HIDE DEF g
<1>2. 0 \in T
  OBVIOUS
<1>3. ASSUME NEW n \in Nat, n \in T, k <= n + 1, n + 1 <= Len(s)
      PROVE  \E i \in k .. n + 1 : Best(i, n + 1)
  <2>1. k <= n + 1 /\ n + 1 <= Len(s)
    BY <1>3
  <2>2. CASE k = n + 1
    <3>1. Best(k, n + 1) /\ k \in k .. n + 1
      BY <1>1, <2>2
    <3>. QED  BY <3>1
  <2>3. CASE k <= n
    <3>1. PICK i \in k .. n : Best(i, n)
      BY <1>3, <2>1, <2>3
    <3>2. /\ \A j \in k .. n + 1 : (j \in k .. n \/ j = n + 1) /\ g[j] \in Int
          /\ i \in k .. n + 1 /\ n + 1 \in k .. n + 1 /\ i <= n + 1
      BY <1>1, <2>1, <2>3
    <3>3. CASE g[i] >= g[n + 1]
      <4>1. Best(i, n + 1)
        BY <3>1, <3>2, <3>3
      <4>. HIDE DEF Best
      <4>. QED  BY <3>2, <4>1
    <3>4. CASE g[i] < g[n + 1]
      <4>1. \A j \in k .. n : g[n + 1] > g[j]
        BY <3>1, <3>2, <3>4
      <4>2. Best(n + 1, n + 1)
        BY <3>2, <4>1
      <4>. HIDE DEF Best
      <4>. QED  BY <3>2, <4>2
    <3>. HIDE DEF Best
    <3>5. g[i] \in Int /\ g[n + 1] \in Int
      BY <3>2
    <3>. QED  BY <3>3, <3>4, <3>5
  <2>. HIDE DEF Best
  <2>. QED  BY <2>1, <2>2, <2>3
<1>4. \A n \in Nat : n \in T => n + 1 \in T
  <2>. HIDE DEF Best
  <2>. QED  BY <1>3
<1>5. \A n \in Nat : n \in T
  <2>. HIDE DEF T
  <2>. QED  BY <1>2, <1>4, SetInduction
<1>6. \E i \in k .. Len(s) : Best(i, Len(s))
  <2>. HIDE DEF Best
  <2>1. Len(s) \in Nat /\ k <= Len(s)
    OBVIOUS
  <2>. QED  BY <1>5, <2>1
<1>7. \E i \in k .. Len(s) : \A j \in k .. Len(s) :
        score[s[i]] > score[s[j]] \/ (score[s[i]] = score[s[j]] /\ i <= j)
  <2>1. \A j \in k .. Len(s) : j \in 1 .. Len(s)
    OBVIOUS
  <2>. QED  BY <1>1, <1>6, <2>1
<1>. QED  BY <1>7 DEF BestFrom

\* Sorting keeps the length, and the elements.
LEMMA RankedIsSeq ==
  ASSUME NEW W, NEW won \in Seq(W), NEW score, \A v \in W : score[v] \in Int
  PROVE  Ranked(won, score) \in Seq(W) /\ Len(Ranked(won, score)) = Len(won)
<1>. DEFINE n == Len(won)
            Turn(x, k) == LET best == BestFrom(x, k, score)
                          IN [x EXCEPT ![k] = x[best], ![best] = x[k]]
            Loop(f) == f = [k \in 0 .. n |-> IF k = 0 THEN won ELSE Turn(f[k - 1], k)]
            loop == CHOOSE f : Loop(f)
            S == [k \in 0 .. n |-> {s \in Seq(W) : Len(s) = n}]
            G == [k \in 1 .. n |-> [x \in S[k - 1] |-> Turn(x, k)]]
<1>1. Ranked(won, score) = loop[n]
  BY Zenon DEF Ranked
<1>2. /\ n \in Nat /\ won \in S[0]
      /\ \A k \in 1 .. n : \A x \in S[k - 1] : Turn(x, k) \in S[k]
  <2>1. n \in Nat /\ won \in S[0]
    OBVIOUS
  <2>2. ASSUME NEW k \in 1 .. n, NEW x \in S[k - 1] PROVE Turn(x, k) \in S[k]
    <3>1. x \in Seq(W) /\ Len(x) = n /\ k - 1 \in 0 .. n /\ k \in 0 .. n
      BY <2>2
    <3>. DEFINE best == BestFrom(x, k, score)
    <3>2. best \in k .. Len(x)
      BY <3>1, BestExists
    <3>. HIDE DEF best
    <3>3. [x EXCEPT ![k] = x[best], ![best] = x[k]] \in Seq(W)
      BY <3>1, <3>2
    <3>4. Len([x EXCEPT ![k] = x[best], ![best] = x[k]]) = n
      BY <3>1, <3>2
    <3>. QED  BY <3>1, <3>3, <3>4 DEF best
  <2>. HIDE DEF n, S, Turn
  <2>. QED  BY <2>1, <2>2
<1>. HIDE DEF Turn, S, n
<1>3. LeadsOn(S, n, G)
  BY <1>2 DEF LeadsOn
<1>4. PICK f : Runs(f, S, won, n, G)
  <2>. HIDE DEF G
  <2>. QED  BY <1>2, <1>3, RunExists
<1>5. Loop(f)
  <2>1. \A k \in 1 .. n : f[k] = Turn(f[k - 1], k)
    <3>1. \A k \in 1 .. n : k - 1 \in 0 .. n
      BY <1>2
    <3>. QED  BY <1>4, <3>1 DEF Runs
  <2>2. f = [k \in 0 .. n |-> f[k]] /\ f[0] = won
    BY <1>4 DEF Runs
  <2>3. \A k \in 0 .. n : k = 0 \/ k \in 1 .. n
    BY <1>2
  <2>4. \A k \in 0 .. n : f[k] = IF k = 0 THEN won ELSE Turn(f[k - 1], k)
    BY <2>1, <2>2, <2>3, Zenon
  <2>. QED  BY <2>2, <2>4
<1>6. Loop(loop)
  <2>. HIDE DEF Loop
  <2>. QED  BY <1>5, Zenon
<1>. HIDE DEF loop
<1>7. loop[0] = won /\ \A k \in 1 .. n : loop[k] = Turn(loop[k - 1], k)
  BY <1>2, <1>6
<1>8. \A k \in 0 .. n : loop[k] \in S[k]
  BY <1>2, <1>7, TurnByTurn
<1>. QED  BY <1>1, <1>2, <1>8 DEF S

----------------------------------------------------------------------------
(* Sharing a loss. *)

\* Of the loss, s.shares is assigned, within the capacities, and s.left is not.
Assigned(s, capacities, loss, N) ==
  /\ s \in [shares : [1 .. N -> Nat], left : Nat]
  /\ \A i \in 1 .. N : s.shares[i] <= capacities[i]
  /\ SumFunctionOnSet(s.shares, 1 .. N) + s.left = loss

\* The lesser of two numbers is a number at most each.
LEMMA LesserIsNat ==
  ASSUME NEW a \in Nat, NEW b \in Nat
  PROVE  Lesser(a, b) \in Nat /\ Lesser(a, b) <= a /\ Lesser(a, b) <= b
BY DEF Lesser

\* A winner takes a part of what is left.
LEMMA TakingAssigns ==
  ASSUME NEW N \in Nat, NEW capacities \in [1 .. N -> Nat], NEW loss \in Nat,
         NEW s, Assigned(s, capacities, loss, N), NEW i \in 1 .. N, NEW wanted \in Nat
  PROVE  Assigned(Take(s, i, wanted, capacities[i]), capacities, loss, N)
<1>. DEFINE n == Lesser(Lesser(wanted, s.left), capacities[i] - s.shares[i])
            shares == [s.shares EXCEPT ![i] = @ + n]
            t == [shares |-> shares, left |-> s.left - n]
<1>1. /\ s.shares \in [1 .. N -> Nat] /\ s.left \in Nat /\ capacities[i] \in Nat
      /\ s.shares[i] \in Nat /\ s.shares[i] <= capacities[i]
  BY DEF Assigned
<1>2. n \in Nat /\ n <= s.left /\ s.shares[i] + n <= capacities[i]
  <2>. DEFINE room == capacities[i] - s.shares[i]
  <2>1. room \in Nat
    BY <1>1
  <2>2. Lesser(wanted, s.left) \in Nat /\ Lesser(wanted, s.left) <= s.left
    BY <1>1, LesserIsNat
  <2>3. n \in Nat /\ n <= Lesser(wanted, s.left) /\ n <= room
    <3>. HIDE DEF room
    <3>. QED  BY <2>1, <2>2, LesserIsNat DEF room
  <2>. HIDE DEF n
  <2>. QED  BY <1>1, <2>2, <2>3
<1>3. Take(s, i, wanted, capacities[i]) = t
  BY DEF Take
<1>. HIDE DEF n
<1>4. shares \in [1 .. N -> Nat] /\ s.left - n \in Nat
  <2>1. \A a \in Nat : a + n \in Nat /\ (n <= a => a - n \in Nat)
    BY <1>2
  <2>. QED  BY <1>1, <1>2, <2>1
<1>5. shares[i] = s.shares[i] + n /\ \A j \in 1 .. N : j # i => shares[j] = s.shares[j]
  BY <1>1
<1>6. \A j \in 1 .. N : shares[j] <= capacities[j]
  <2>. HIDE DEF shares
  <2>. QED  BY <1>2, <1>5 DEF Assigned
<1>7. IsFiniteSet(1 .. N) /\ Ints(s.shares, 1 .. N) /\ Ints(shares, 1 .. N)
      /\ AgreeBut(s.shares, shares, 1 .. N, i)
  <2>1. IsFiniteSet(1 .. N)
    BY FS_Interval
  <2>. HIDE DEF shares
  <2>2. Ints(s.shares, 1 .. N)
    BY <1>1 DEF Ints
  <2>3. Ints(shares, 1 .. N)
    BY <1>4 DEF Ints
  <2>4. AgreeBut(s.shares, shares, 1 .. N, i)
    BY <1>5, Zenon DEF AgreeBut
  <2>. QED  BY <2>1, <2>2, <2>3, <2>4
<1>8. SumFunctionOnSet(shares, 1 .. N) = SumFunctionOnSet(s.shares, 1 .. N) + n
  <2>. HIDE DEF shares
  <2>1. shares[i] \in Int
    BY <1>7 DEF Ints
  <2>2. SumFunctionOnSet(shares, 1 .. N) =
          SumFunctionOnSet(s.shares, 1 .. N) - s.shares[i] + shares[i]
    BY <1>7, <2>1, SumAfterChange
  <2>3. SumFunctionOnSet(s.shares, 1 .. N) \in Int
    BY <1>7, SumIsInt
  <2>. QED  BY <1>1, <1>2, <1>5, <2>2, <2>3
<1>9. SumFunctionOnSet(s.shares, 1 .. N) \in Int
  BY <1>7, SumIsInt
<1>10. SumFunctionOnSet(shares, 1 .. N) + (s.left - n) = loss
  <2>. HIDE DEF shares
  <2>1. SumFunctionOnSet(s.shares, 1 .. N) + s.left = loss
    BY DEF Assigned
  <2>. QED  BY <1>1, <1>2, <1>8, <1>9, <2>1
<1>11. t \in [shares : [1 .. N -> Nat], left : Nat] /\ t.shares = shares /\ t.left = s.left - n
  <2>. HIDE DEF shares
  <2>. QED  BY <1>4
<1>. HIDE DEF t, shares
<1>. QED  BY <1>3, <1>6, <1>10, <1>11 DEF Assigned

\* So does everybody in turn.
LEMMA PassAssigns ==
  ASSUME NEW N \in Nat, NEW capacities \in [1 .. N -> Nat], NEW loss \in Nat,
         NEW start, Assigned(start, capacities, loss, N), NEW wanted \in [1 .. N -> Nat]
  PROVE  Assigned(Pass(start, wanted, capacities), capacities, loss, N)
<1>. DEFINE n == Len(capacities)
            Turn(x, i) == Take(x, i, wanted[i], capacities[i])
            Loop(f) == f = [i \in 0 .. n |-> IF i = 0 THEN start ELSE Turn(f[i - 1], i)]
            loop == CHOOSE f : Loop(f)
            S == [i \in 0 .. n |-> {s \in [shares : [1 .. N -> Nat], left : Nat] :
                                       Assigned(s, capacities, loss, N)}]
            G == [i \in 1 .. n |-> [x \in S[i - 1] |-> Turn(x, i)]]
<1>1. Pass(start, wanted, capacities) = loop[n]
  BY Zenon DEF Pass
<1>2. /\ n \in Nat /\ start \in S[0]
      /\ \A i \in 1 .. n : \A x \in S[i - 1] : Turn(x, i) \in S[i]
  <2>1. n = N
    OBVIOUS
  <2>. HIDE DEF n
  <2>2. n \in Nat /\ start \in S[0]
    BY <2>1 DEF Assigned
  <2>3. ASSUME NEW i \in 1 .. n, NEW x \in S[i - 1] PROVE Turn(x, i) \in S[i]
    <3>1. Assigned(x, capacities, loss, N) /\ i \in 0 .. n /\ wanted[i] \in Nat /\ i \in 1 .. N
      BY <2>1, <2>3
    <3>2. Assigned(Turn(x, i), capacities, loss, N)
      BY <3>1, TakingAssigns
    <3>. HIDE DEF Turn
    <3>. QED  BY <3>1, <3>2 DEF Assigned
  <2>. HIDE DEF S, Turn
  <2>. QED  BY <2>2, <2>3
<1>. HIDE DEF Turn, S, n
<1>3. LeadsOn(S, n, G)
  BY <1>2 DEF LeadsOn
<1>4. PICK f : Runs(f, S, start, n, G)
  <2>. HIDE DEF G
  <2>. QED  BY <1>2, <1>3, RunExists
<1>5. Loop(f)
  <2>1. \A i \in 1 .. n : f[i] = Turn(f[i - 1], i)
    <3>1. \A i \in 1 .. n : i - 1 \in 0 .. n
      BY <1>2
    <3>. QED  BY <1>4, <3>1 DEF Runs
  <2>2. f = [i \in 0 .. n |-> f[i]] /\ f[0] = start
    BY <1>4 DEF Runs
  <2>3. \A i \in 0 .. n : i = 0 \/ i \in 1 .. n
    BY <1>2
  <2>4. \A i \in 0 .. n : f[i] = IF i = 0 THEN start ELSE Turn(f[i - 1], i)
    BY <2>1, <2>2, <2>3, Zenon
  <2>. QED  BY <2>2, <2>4
<1>6. Loop(loop)
  <2>. HIDE DEF Loop
  <2>. QED  BY <1>5, Zenon
<1>. HIDE DEF loop
<1>7. loop[0] = start /\ \A i \in 1 .. n : loop[i] = Turn(loop[i - 1], i)
  BY <1>2, <1>6
<1>8. \A i \in 0 .. n : loop[i] \in S[i]
  BY <1>2, <1>7, TurnByTurn
<1>. QED  BY <1>1, <1>2, <1>8 DEF S

\* The shares of a loss are within the capacities, and add up to at most the loss.
LEMMA AssignedShares ==
  ASSUME NEW N \in Nat, NEW capacities \in [1 .. N -> Nat], NEW loss \in Nat,
         NEW notionals \in [1 .. N -> Nat], \E i \in 1 .. N : notionals[i] # 0
  PROVE  /\ Assign(loss, notionals, capacities) \in [1 .. N -> Nat]
         /\ SumFunctionOnSet(Assign(loss, notionals, capacities), 1 .. N) <= loss
<1>. DEFINE all == SumFunction(notionals)
            start == [shares |-> [i \in 1 .. N |-> 0], left |-> loss]
            wanted == [i \in 1 .. N |-> (loss * notionals[i]) \div all]
            first == FirstPass(loss, notionals, all, capacities)
            second == SecondPass(first, capacities)
<1>1. IsFiniteSet(1 .. N)
  BY FS_Interval
<1>2. all \in Nat \ {0}
  <2>1. all = SumFunctionOnSet(notionals, 1 .. N)
    BY DEF SumFunction
  <2>2. PICK i \in 1 .. N : notionals[i] # 0
    OBVIOUS
  <2>3. \A j \in 1 .. N : notionals[j] \in Nat
    OBVIOUS
  <2>4. SumFunctionOnSet(notionals, 1 .. N) \in Nat
    BY <1>1, <2>3, SumIsNat
  <2>5. notionals[i] <= SumFunctionOnSet(notionals, 1 .. N)
    BY <1>1, <2>3, SumCoversElement
  <2>. QED  BY <2>1, <2>2, <2>3, <2>4, <2>5
<1>3. wanted \in [1 .. N -> Nat]
  <2>1. ASSUME NEW i \in 1 .. N PROVE (loss * notionals[i]) \div all \in Nat
    <3>1. loss * notionals[i] \in Nat
      OBVIOUS
    <3>. HIDE DEF all
    <3>. QED  BY <1>2, <3>1, DivIsNat
  <2>. HIDE DEF all
  <2>. QED  BY <2>1
<1>4. Assigned(start, capacities, loss, N)
  <2>1. SumFunctionOnSet(start.shares, 1 .. N) = 0
    BY <1>1, SumOfZeros
  <2>. QED  BY <2>1 DEF Assigned
<1>5. first = Pass(start, wanted, capacities)
  BY DEF FirstPass
<1>. HIDE DEF start, wanted, first
<1>6. Assigned(first, capacities, loss, N)
  BY <1>3, <1>4, <1>5, PassAssigns
<1>7. [i \in 1 .. N |-> first.left] \in [1 .. N -> Nat]
  BY <1>6 DEF Assigned
<1>8. second = Pass(first, [i \in 1 .. N |-> first.left], capacities)
  BY DEF SecondPass
<1>9. Assigned(second, capacities, loss, N)
  <2>. HIDE DEF second
  <2>. QED  BY <1>6, <1>7, <1>8, PassAssigns
<1>10. Assign(loss, notionals, capacities) = second.shares
  BY DEF Assign, first
<1>. HIDE DEF second
<1>11. second.shares \in [1 .. N -> Nat] /\ second.left \in Nat
  BY <1>9 DEF Assigned
<1>12. SumFunctionOnSet(second.shares, 1 .. N) \in Nat
  <2>1. \A i \in 1 .. N : second.shares[i] \in Nat
    BY <1>11
  <2>. QED  BY <1>1, <2>1, SumIsNat
<1>13. SumFunctionOnSet(second.shares, 1 .. N) + second.left = loss
  BY <1>9 DEF Assigned
<1>. QED  BY <1>10, <1>11, <1>12, <1>13

----------------------------------------------------------------------------
(* The positions of one account. *)

\* An account with an exact index.
GoodAccount(a) == a \in AccountRecords /\ Exact(a.positions, a.index)

\* Size and haircut of a position are those in the slot that the index gives,
\* and a position has a size.
LEMMA PositionAtIndex ==
  ASSUME NEW a, GoodAccount(a), NEW m \in Markets
  PROVE  /\ a.index[m] \in Nat
         /\ a.index[m] = 0 => SizeIn(a, m) = 0 /\ HaircutIn(a, m) = 0
         /\ a.index[m] # 0 =>
              /\ a.index[m] \in 1 .. Len(a.positions)
              /\ a.positions[a.index[m]] \in Held
              /\ SizeIn(a, m) = a.positions[a.index[m]].size
              /\ HaircutIn(a, m) = a.positions[a.index[m]].haircut
         /\ SizeIn(a, m) \in Int /\ HaircutIn(a, m) \in Nat
         /\ SizeIn(a, m) = 0 <=> a.index[m] = 0
         /\ HasPosition(a, m) <=> a.index[m] # 0
<1>. DEFINE pos == a.positions[a.index[m]]
<1>1. a \in AccountRecords /\ Exact(a.positions, a.index)
  BY DEF GoodAccount
<1>2. a.index[m] \in Nat
  BY <1>1 DEF AccountRecords
<1>3. CASE a.index[m] = 0
  BY <1>1, <1>2, <1>3, PositionInIsIndexed DEF SizeIn, HaircutIn
<1>4. CASE a.index[m] # 0
  <2>1. /\ HasPosition(a, m) /\ a.index[m] \in 1 .. Len(a.positions)
        /\ PositionIn(a, m) = pos /\ pos \in Held
    BY <1>1, <1>4, PositionInIsIndexed
  <2>. HIDE DEF pos
  <2>2. pos.size \in Int \ {0} /\ pos.haircut \in Nat
    BY <2>1 DEF Held, PositionRecords
  <2>. QED  BY <1>2, <1>4, <2>1, <2>2 DEF SizeIn, HaircutIn, pos
<1>. QED  BY <1>3, <1>4

\* The slots of the position in m may differ, or be none in both.
SamePosition(a, b, m) ==
  \/ a.index[m] = 0 /\ b.index[m] = 0
  \/ /\ a.index[m] # 0 /\ b.index[m] # 0
     /\ b.positions[b.index[m]] = a.positions[a.index[m]]

\* Then the size and the haircut are the same.
LEMMA SamePositionIn ==
  ASSUME NEW a, GoodAccount(a), NEW b, GoodAccount(b), NEW m \in Markets, SamePosition(a, b, m)
  PROVE  SizeIn(b, m) = SizeIn(a, m) /\ HaircutIn(b, m) = HaircutIn(a, m)
<1>1. CASE a.index[m] = 0 /\ b.index[m] = 0
  BY <1>1, PositionAtIndex
<1>2. CASE /\ a.index[m] # 0 /\ b.index[m] # 0
           /\ b.positions[b.index[m]] = a.positions[a.index[m]]
  <2>1. /\ SizeIn(b, m) = b.positions[b.index[m]].size
        /\ HaircutIn(b, m) = b.positions[b.index[m]].haircut
    BY <1>2, PositionAtIndex
  <2>2. /\ SizeIn(a, m) = a.positions[a.index[m]].size
        /\ HaircutIn(a, m) = a.positions[a.index[m]].haircut
    BY <1>2, PositionAtIndex
  <2>. QED  BY <1>2, <2>1, <2>2
<1>. QED  BY <1>1, <1>2 DEF SamePosition

\* b has the positions of a, but for one of size n and haircut h in m.
Replaced(a, b, m, n, h) ==
  /\ GoodAccount(b)
  /\ SizeIn(b, m) = n /\ HaircutIn(b, m) = h
  /\ \A k \in Markets \ {m} :
       SizeIn(b, k) = SizeIn(a, k) /\ HaircutIn(b, k) = HaircutIn(a, k)

\* Writing a position into the slot of its market.
LEMMA SlotChanged ==
  ASSUME NEW a, GoodAccount(a), NEW m \in Markets, a.index[m] # 0,
         NEW p \in Held, p.market = m,
         NEW b \in AccountRecords, b.index = a.index,
         b.positions = [a.positions EXCEPT ![a.index[m]] = p]
  PROVE  Replaced(a, b, m, p.size, p.haircut)
<1>. DEFINE i == a.index[m]
<1>1. a.positions \in Seq(Held) /\ a.index \in [Markets -> Nat] /\ Exact(a.positions, a.index)
  BY DEF GoodAccount, AccountRecords
<1>2. i \in 1 .. Len(a.positions) /\ a.positions[i].market = m
  BY <1>1, SlotIsIndexed
<1>. HIDE DEF i
<1>3. /\ Len(b.positions) = Len(a.positions) /\ b.positions \in Seq(Held)
      /\ \A j \in 1 .. Len(a.positions) : b.positions[j] = IF j = i THEN p ELSE a.positions[j]
  BY <1>1, <1>2 DEF i
<1>4. \A j \in 1 .. Len(a.positions) : b.positions[j].market = a.positions[j].market
  BY <1>2, <1>3
<1>5. \A k \in Markets : Slots(b.positions, k) = Slots(a.positions, k)
  <2>1. DOMAIN b.positions = 1 .. Len(a.positions) /\ DOMAIN a.positions = 1 .. Len(a.positions)
    BY <1>1, <1>3
  <2>. QED  BY <1>4, <2>1 DEF Slots
<1>6. GoodAccount(b)
  BY <1>1, <1>5 DEF GoodAccount, Exact
<1>7. SizeIn(b, m) = p.size /\ HaircutIn(b, m) = p.haircut
  <2>1. b.positions[b.index[m]] = p
    BY <1>2, <1>3 DEF i
  <2>. QED  BY <1>6, <2>1, PositionAtIndex
<1>8. ASSUME NEW k \in Markets \ {m} PROVE SamePosition(a, b, k)
  <2>1. CASE a.index[k] = 0
    BY <2>1 DEF SamePosition
  <2>2. CASE a.index[k] # 0
    <3>1. a.index[k] \in 1 .. Len(a.positions) /\ a.positions[a.index[k]].market = k
      BY <1>1, <2>2, SlotIsIndexed
    <3>2. a.index[k] # i
      BY <1>2, <3>1
    <3>3. b.positions[a.index[k]] = a.positions[a.index[k]]
      BY <1>3, <3>1, <3>2
    <3>. QED  BY <2>2, <3>3 DEF SamePosition
  <2>. QED  BY <2>1, <2>2
<1>9. \A k \in Markets \ {m} : SizeIn(b, k) = SizeIn(a, k) /\ HaircutIn(b, k) = HaircutIn(a, k)
  BY <1>6, <1>8, SamePositionIn
<1>. QED  BY <1>6, <1>7, <1>9 DEF Replaced

\* After a swap-and-pop the index still leads to the same position.
LEMMA RemovalKeepsPositions ==
  ASSUME NEW positions \in Seq(Held), NEW index \in [Markets -> Nat],
         Exact(positions, index), NEW m \in Markets, index[m] # 0,
         NEW k \in Markets \ {m}, index[k] # 0
  PROVE  RemoveSlot(positions, index[m])[
             ReindexAfterRemoval(positions, index, index[m], index[m], m)[k]] =
           positions[index[k]]
<1>. DEFINE i == index[m]
            last == Len(positions)
            after == ReindexAfterRemoval(positions, index, i, i, m)
<1>1. i \in 1 .. last /\ positions[i].market = m
      /\ index[k] \in 1 .. last /\ positions[index[k]].market = k
  BY SlotIsIndexed
<1>2. \A j \in 1 .. last - 1 :
        RemoveSlot(positions, i)[j] = IF j = i THEN positions[last] ELSE positions[j]
  BY <1>1, RemovedSlot
<1>3. positions[last].market \in Markets /\ last \in 1 .. last
  <2>1. last \in 1 .. last
    BY <1>1
  <2>2. positions[last] \in Held
    BY <2>1
  <2>. QED  BY <2>1, <2>2 DEF Held, PositionRecords
<1>4. after[k] = IF i # last /\ positions[last].market = k THEN i ELSE index[k]
  BY <1>1, <1>3 DEF ReindexAfterRemoval
<1>. HIDE DEF after, i
<1>5. CASE i # last /\ positions[last].market = k
  <2>1. index[k] = last
    BY <1>3, <1>5 DEF Exact, Slots
  <2>. QED  BY <1>1, <1>2, <1>4, <1>5, <2>1 DEF i, after
<1>6. CASE ~(i # last /\ positions[last].market = k)
  <2>1. index[k] # i /\ index[k] # last
    BY <1>1, <1>6
  <2>2. index[k] \in 1 .. last - 1 /\ after[k] = index[k]
    BY <1>1, <1>4, <1>6, <2>1
  <2>3. RemoveSlot(positions, i)[index[k]] = positions[index[k]]
    BY <1>2, <2>1, <2>2
  <2>. QED  BY <2>2, <2>3 DEF i, after
<1>. QED  BY <1>5, <1>6

\* Removing the position of a market.
LEMMA SlotRemoved ==
  ASSUME NEW a, GoodAccount(a), NEW m \in Markets, a.index[m] # 0, NEW b \in AccountRecords,
         b.positions = RemoveSlot(a.positions, a.index[m]),
         b.index = ReindexAfterRemoval(a.positions, a.index, a.index[m], a.index[m], m)
  PROVE  Replaced(a, b, m, 0, 0)
<1>1. a.positions \in Seq(Held) /\ a.index \in [Markets -> Nat] /\ Exact(a.positions, a.index)
  BY DEF GoodAccount, AccountRecords
<1>2. /\ Exact(b.positions, b.index) /\ b.index[m] = 0
      /\ \A k \in Markets \ {m} : b.index[k] = 0 <=> a.index[k] = 0
  BY <1>1, RemovalKeepsExact
<1>3. GoodAccount(b)
  BY <1>2 DEF GoodAccount
<1>4. SizeIn(b, m) = 0 /\ HaircutIn(b, m) = 0
  BY <1>2, <1>3, PositionAtIndex
<1>5. ASSUME NEW k \in Markets \ {m} PROVE SamePosition(a, b, k)
  BY <1>1, <1>2, RemovalKeepsPositions DEF SamePosition
<1>6. \A k \in Markets \ {m} : SizeIn(b, k) = SizeIn(a, k) /\ HaircutIn(b, k) = HaircutIn(a, k)
  BY <1>3, <1>5, SamePositionIn
<1>. QED  BY <1>3, <1>4, <1>6 DEF Replaced

\* Appending a position.
LEMMA SlotAdded ==
  ASSUME NEW a, GoodAccount(a), NEW m \in Markets, a.index[m] = 0,
         NEW p \in Held, p.market = m,
         NEW b \in AccountRecords, b.positions = Append(a.positions, p),
         b.index = [a.index EXCEPT ![m] = Len(a.positions) + 1]
  PROVE  Replaced(a, b, m, p.size, p.haircut)
<1>. DEFINE n == Len(a.positions)
<1>1. a.positions \in Seq(Held) /\ a.index \in [Markets -> Nat] /\ Exact(a.positions, a.index)
  BY DEF GoodAccount, AccountRecords
<1>2. /\ Len(b.positions) = n + 1 /\ b.positions[n + 1] = p /\ n \in Nat
      /\ \A j \in 1 .. n : b.positions[j] = a.positions[j]
  BY <1>1
<1>3. b.index[m] = n + 1 /\ \A k \in Markets \ {m} : b.index[k] = a.index[k]
  BY <1>1
<1>4. ASSUME NEW k \in Markets
      PROVE  Slots(b.positions, k) = IF b.index[k] = 0 THEN {} ELSE {b.index[k]}
  <2>1. DOMAIN b.positions = 1 .. n + 1 /\ DOMAIN a.positions = 1 .. n
    <3>1. b.positions \in Seq(Held)
      BY DEF AccountRecords
    <3>. QED  BY <1>1, <1>2, <3>1
  <2>2. Slots(a.positions, k) = IF a.index[k] = 0 THEN {} ELSE {a.index[k]}
    BY <1>1 DEF Exact
  <2>3. Slots(b.positions, k) = Slots(a.positions, k) \cup (IF k = m THEN {n + 1} ELSE {})
    <3>1. \A j : j \in 1 .. n + 1 <=> j \in 1 .. n \/ j = n + 1
      BY <1>2
    <3>. HIDE DEF n
    <3>2. Slots(b.positions, k) = {j \in 1 .. n + 1 : b.positions[j].market = k}
      BY <2>1 DEF Slots
    <3>3. Slots(a.positions, k) = {j \in 1 .. n : a.positions[j].market = k}
      BY <2>1 DEF Slots
    <3>. QED  BY <1>2, <3>1, <3>2, <3>3
  <2>. HIDE DEF n
  <2>. QED  BY <1>2, <1>3, <2>2, <2>3
<1>. HIDE DEF n
<1>5. GoodAccount(b)
  BY <1>4 DEF GoodAccount, Exact
<1>6. SizeIn(b, m) = p.size /\ HaircutIn(b, m) = p.haircut
  <2>1. b.index[m] # 0 /\ b.positions[b.index[m]] = p
    BY <1>2, <1>3
  <2>. QED  BY <1>5, <2>1, PositionAtIndex
<1>7. ASSUME NEW k \in Markets \ {m} PROVE SamePosition(a, b, k)
  <2>1. b.index[k] = a.index[k]
    BY <1>3
  <2>2. CASE a.index[k] = 0
    BY <2>1, <2>2 DEF SamePosition
  <2>3. CASE a.index[k] # 0
    <3>1. a.index[k] \in 1 .. n
      BY <1>1, <2>3, SlotIsIndexed DEF n
    <3>2. b.positions[b.index[k]] = a.positions[a.index[k]]
      BY <1>2, <2>1, <3>1
    <3>. QED  BY <2>1, <2>3, <3>2 DEF SamePosition
  <2>. QED  BY <2>2, <2>3
<1>8. \A k \in Markets \ {m} : SizeIn(b, k) = SizeIn(a, k) /\ HaircutIn(b, k) = HaircutIn(a, k)
  BY <1>5, <1>7, SamePositionIn
<1>. QED  BY <1>5, <1>6, <1>8 DEF Replaced

\* b is a with delta traded in m; a position that is not closed keeps its haircut.
Traded(a, b, m, delta) ==
  \E h \in Nat : /\ Replaced(a, b, m, SizeIn(a, m) + delta, h)
                 /\ ~Closes(SizeIn(a, m), delta) => h = HaircutIn(a, m)

\* Netting trades in one market.
LEMMA NettingTrades ==
  ASSUME NEW a, GoodAccount(a), NEW m \in Markets,
         NEW delta \in Int \ {0}, NEW price \in Nat, NEW margin \in Nat,
         NEW n, n = Netting(a.positions, a.index, m, delta, price, margin),
         NEW b \in AccountRecords, b.positions = n.positions, b.index = n.index
  PROVE  Traded(a, b, m, delta)
<1>. DEFINE i == a.index[m]
            pos == a.positions[i]
<1>1. /\ a.positions \in Seq(Held) /\ a.index \in [Markets -> Nat]
      /\ Exact(a.positions, a.index)
  BY DEF GoodAccount, AccountRecords
<1>2. Slot(a.positions, a.index, m) = i /\ (i # 0 => Indexed(a.positions, a.index, m))
  BY <1>1, SlotIsIndexed
<1>3. CASE i = 0
  <2>. DEFINE new == [market |-> m, size |-> delta, entry |-> price, margin |-> margin,
                      haircut |-> 0, units |-> 0]
  <2>1. new \in Held /\ new.market = m /\ new.size = delta /\ new.haircut = 0
    BY DEF Held, PositionRecords
  <2>2. /\ n.positions = Append(a.positions, new)
        /\ n.index = [a.index EXCEPT ![m] = Len(a.positions) + 1]
    BY <1>2, <1>3 DEF Netting
  <2>. HIDE DEF new
  <2>3. Replaced(a, b, m, new.size, new.haircut)
    BY <1>3, <2>1, <2>2, SlotAdded
  <2>4. SizeIn(a, m) = 0 /\ HaircutIn(a, m) = 0
    BY <1>3, PositionAtIndex
  <2>5. SizeIn(a, m) + delta = delta
    BY <2>4
  <2>. QED  BY <2>1, <2>3, <2>4, <2>5 DEF Traded
<1>4. CASE i # 0
  <2>1. /\ pos \in Held /\ SizeIn(a, m) = pos.size /\ HaircutIn(a, m) = pos.haircut
        /\ pos.market = m
    BY <1>1, <1>4, PositionAtIndex, SlotIsIndexed
  <2>2. pos \in PositionRecords /\ pos.size \in Int /\ pos.size # 0 /\ pos.haircut \in Nat
    BY <2>1 DEF Held, PositionRecords
  <2>3. CASE pos.size + delta = 0
    <3>1. /\ n.positions = RemoveSlot(a.positions, i)
          /\ n.index = ReindexAfterRemoval(a.positions, a.index, i, i, m)
      BY <1>2, <1>4, <2>3 DEF Netting
    <3>2. Replaced(a, b, m, 0, 0)
      BY <1>4, <3>1, SlotRemoved
    <3>3. Closes(pos.size, delta)
      BY <2>2, <2>3 DEF Closes
    <3>. QED  BY <2>1, <2>3, <3>2, <3>3 DEF Traded
  <2>4. CASE pos.size + delta # 0
    <3>. DEFINE kept == WithoutShare(pos, delta)
                p == [kept EXCEPT
                        !.size = @ + delta, !.entry = NewEntry(pos, delta, price),
                        !.margin = margin]
    <3>1. /\ n.positions = [a.positions EXCEPT ![i] = p]
          /\ n.index = [a.index EXCEPT ![m] = i]
      BY <1>2, <1>4, <2>4 DEF Netting
    <3>2. n.index = a.index
      BY <1>1, <3>1
    <3>3. kept \in PositionRecords /\ kept.size = pos.size /\ kept.market = pos.market
      BY <2>2, WithoutShareKeeps
    <3>4. NewEntry(pos, delta, price) \in Nat
      BY <2>2, NewEntryIsNat
    <3>. HIDE DEF kept
    <3>5. /\ p \in Held /\ p.market = m /\ p.size = pos.size + delta
          /\ p.haircut = kept.haircut /\ p.haircut \in Nat
      <4>1. pos.size + delta \in Int \ {0} /\ pos.market = m
        BY <2>1, <2>2, <2>4
      <4>. HIDE DEF pos
      <4>. QED  BY <3>3, <3>4, <4>1 DEF Held, PositionRecords
    <3>6. Closes(pos.size, delta) \/ kept = pos
      BY DEF WithoutShare, PartlyCloses, kept
    <3>. HIDE DEF p, pos
    <3>7. Replaced(a, b, m, p.size, p.haircut)
      BY <1>4, <3>1, <3>2, <3>5, SlotChanged
    <3>. QED  BY <2>1, <3>5, <3>6, <3>7 DEF Traded
  <2>. QED  BY <2>3, <2>4
<1>. QED  BY <1>3, <1>4

----------------------------------------------------------------------------
(* The account of a liquidated trader, and of one who takes a haircut. *)

\* Subtraction that stops at zero.
LEMMA LessIsNat ==
  ASSUME NEW n \in Int, NEW d \in Int
  PROVE  Less(n, d) \in Nat /\ (n \in Nat /\ d \in Nat => Less(n, d) <= n)
BY DEF Less

\* The trading loss and the penalty of a close are natural numbers.
LEMMA LossIsNat ==
  ASSUME NEW pos \in Held, NEW n \in Nat, NEW price \in Nat
  PROVE  LossAt(pos, n, price) \in Nat /\ PenaltyOn(n, price) \in Nat
<1>1. pos.entry \in Nat
  BY DEF Held, PositionRecords
<1>2. Less(pos.entry, price) \in Nat /\ Less(price, pos.entry) \in Nat
  <2>1. pos.entry \in Int /\ price \in Int
    BY <1>1
  <2>. QED  BY <2>1, LessIsNat
<1>. DEFINE d == IF pos.size > 0 THEN Less(pos.entry, price) ELSE Less(price, pos.entry)
<1>3. d \in Nat
  BY <1>2
<1>4. LossAt(pos, n, price) \in Nat
  <2>1. d * n \in Nat
    <3>. HIDE DEF d
    <3>. QED  BY <1>3
  <2>2. (d * n) \div Unit \in Nat
    <3>. HIDE DEF d
    <3>. QED  BY <2>1, DivIsNat, UnitAssumption
  <2>. QED  BY <2>2 DEF LossAt
<1>5. PenaltyOn(n, price) \in Nat
  <2>1. Notional(n, price) \in Nat
    BY NotionalIsNat
  <2>2. Notional(n, price) * LiquidationPenaltyBps \in Nat
    BY <2>1 DEF LiquidationPenaltyBps
  <2>. QED  BY <2>2, DivIsNat DEF PenaltyOn, Bps
<1>. QED  BY <1>4, <1>5

\* What n closed units leave of a position.
SizeLeft(size, n) == IF size > 0 THEN size - n ELSE size + n

\* The margin of a reduced position is a number; a part of a position is a
\* position.
LEMMA ReducedIsTyped ==
  ASSUME NEW pos \in Held, NEW n \in Nat
  PROVE  /\ Reduced(pos, n).margin \in Nat
         /\ Reduced(pos, n).size = SizeLeft(pos.size, n)
         /\ Reduced(pos, n).haircut = pos.haircut
         /\ Reduced(pos, n).market = pos.market
         /\ n < Abs(pos.size) => Reduced(pos, n) \in Held
<1>. DEFINE size == SizeLeft(pos.size, n)
            margin == (Notional(size, pos.entry)
                         * (IF size >= 0 THEN Bps ELSE ShortMarginBps)) \div Bps
<1>1. pos \in PositionRecords /\ pos.size \in Int \ {0} /\ pos.entry \in Nat
  BY DEF Held, PositionRecords
<1>2. size \in Int /\ (n < Abs(pos.size) => size # 0)
  BY <1>1 DEF SizeLeft, Abs
<1>3. margin \in Nat
  <2>. HIDE DEF size
  <2>. DEFINE v == Notional(size, pos.entry)
              bps == IF size >= 0 THEN Bps ELSE ShortMarginBps
  <2>1. v \in Nat
    BY <1>1, <1>2, NotionalIsNat
  <2>2. bps \in Nat
    BY <1>2 DEF Bps, ShortMarginBps
  <2>3. v * bps \in Nat
    <3>. HIDE DEF v, bps
    <3>. QED  BY <2>1, <2>2
  <2>. HIDE DEF v, bps
  <2>4. (v * bps) \div Bps \in Nat
    BY <2>3, DivIsNat DEF Bps
  <2>. QED  BY <2>4 DEF v, bps
<1>4. Reduced(pos, n) = [pos EXCEPT !.size = size, !.margin = margin]
  BY DEF Reduced, SizeLeft
<1>. HIDE DEF size, margin
<1>5. /\ Reduced(pos, n).margin = margin /\ Reduced(pos, n).size = size
      /\ Reduced(pos, n).haircut = pos.haircut /\ Reduced(pos, n).market = pos.market
      /\ Reduced(pos, n) \in PositionRecords
  BY <1>1, <1>2, <1>3, <1>4 DEF PositionRecords
<1>. QED  BY <1>2, <1>3, <1>5 DEF Held, size

\* What is seized of a trader is there,
LEMMA SeizedIsThere ==
  ASSUME NEW a \in AccountRecords, NEW pos \in Held, NEW n \in Nat, NEW price \in Nat
  PROVE  Seized(a, pos, n, price) \in Nat /\ Seized(a, pos, n, price) <= Balance(a)
<1>1. LossAt(pos, n, price) + PenaltyOn(n, price) \in Nat
  <2>1. LossAt(pos, n, price) \in Nat /\ PenaltyOn(n, price) \in Nat
    BY LossIsNat
  <2>. QED  BY <2>1
<1>2. Less(pos.margin, Reduced(pos, n).margin) \in Nat
  <2>1. pos.margin \in Nat
    BY DEF Held, PositionRecords
  <2>2. pos.margin \in Int /\ Reduced(pos, n).margin \in Int
    BY <2>1, ReducedIsTyped
  <2>. QED  BY <2>2, LessIsNat
<1>3. Balance(a) \in Nat
  BY DEF Balance, AccountRecords
<1>4. /\ Lesser(Less(pos.margin, Reduced(pos, n).margin), Balance(a)) \in Nat
      /\ Lesser(Less(pos.margin, Reduced(pos, n).margin), Balance(a)) <= Balance(a)
  BY <1>2, <1>3, LesserIsNat
<1>. DEFINE most == Lesser(Less(pos.margin, Reduced(pos, n).margin), Balance(a))
            due == LossAt(pos, n, price) + PenaltyOn(n, price)
<1>5. Lesser(due, most) \in Nat /\ Lesser(due, most) <= most /\ most <= Balance(a) /\ most \in Nat
  <2>. HIDE DEF due, most
  <2>. QED  BY <1>1, <1>4, LesserIsNat DEF due, most
<1>6. Seized(a, pos, n, price) = Lesser(due, most)
  BY DEF Seized
<1>. HIDE DEF due, most
<1>. QED  BY <1>3, <1>5, <1>6

\* and it pays the loss before the penalty.
LEMMA PenaltyIsSeized ==
  ASSUME NEW a \in AccountRecords, NEW pos \in Held, NEW n \in Nat, NEW price \in Nat
  PROVE  /\ PenaltyPaid(a, pos, n, price) \in Nat
         /\ PenaltyPaid(a, pos, n, price) <= Seized(a, pos, n, price)
<1>. DEFINE seized == Seized(a, pos, n, price)
            loss == LossAt(pos, n, price)
<1>1. seized \in Nat
  BY SeizedIsThere
<1>2. loss \in Nat /\ PenaltyOn(n, price) \in Nat
  BY LossIsNat
<1>. HIDE DEF seized, loss
<1>3. Lesser(loss, seized) \in Nat /\ Lesser(loss, seized) <= seized
  BY <1>1, <1>2, LesserIsNat
<1>4. seized - Lesser(loss, seized) \in Nat /\ seized - Lesser(loss, seized) <= seized
  BY <1>1, <1>3
<1>. DEFINE rest == seized - Lesser(loss, seized)
<1>. HIDE DEF rest
<1>5. Lesser(PenaltyOn(n, price), rest) \in Nat /\ Lesser(PenaltyOn(n, price), rest) <= rest
      /\ rest <= seized /\ rest \in Nat
  BY <1>2, <1>4, LesserIsNat DEF rest
<1>6. PenaltyPaid(a, pos, n, price) = Lesser(PenaltyOn(n, price), rest)
  BY DEF PenaltyPaid, seized, loss, rest
<1>. QED  BY <1>1, <1>5, <1>6 DEF seized

\* The result that is recorded of a close is an integer.
LEMMA RealizedLiquidatingIsInt ==
  ASSUME NEW pos \in Held, NEW n \in Nat, NEW price \in Nat
  PROVE  RealizedLiquidating(pos, n, price) \in Int
<1>1. pos.size \in Int \ {0} /\ pos.entry \in Nat /\ pos.margin \in Nat
  BY DEF Held, PositionRecords
<1>. DEFINE raw == (price - pos.entry) * (IF pos.size > 0 THEN n ELSE -n)
            part == (pos.margin * n) \div Abs(pos.size)
<1>2. raw \in Int
  BY <1>1
<1>3. part \in Nat
  <2>1. Abs(pos.size) \in Nat \ {0} /\ pos.margin * n \in Nat
    BY <1>1 DEF Abs
  <2>. QED  BY <2>1, DivIsNat
<1>. HIDE DEF raw, part
<1>4. -(part * Unit) \in Int
  BY <1>3, UnitAssumption
<1>5. RealizedLiquidating(pos, n, price) =
        IF raw < -(part * Unit) THEN -(part * Unit) ELSE raw
  BY DEF RealizedLiquidating, raw, part
<1>. QED  BY <1>2, <1>4, <1>5

\* A payment takes what it says from the balance.
LEMMA PayingTakes ==
  ASSUME NEW a \in AccountRecords, NEW amount \in Nat
  PROVE  Balance(PayFromFunds(a, amount)) = Balance(a) - amount
<1>1. a.credit \in Nat /\ a.collateral \in Nat
  BY DEF AccountRecords
<1>. DEFINE c == Lesser(amount, a.credit)
<1>2. c \in Nat
  BY <1>1, LesserIsNat
<1>3. PayFromFunds(a, amount) = [a EXCEPT !.credit = @ - c, !.collateral = @ - (amount - c)]
  BY DEF PayFromFunds
<1>. HIDE DEF c
<1>4. /\ PayFromFunds(a, amount).credit = a.credit - c
      /\ PayFromFunds(a, amount).collateral = a.collateral - (amount - c)
  BY <1>3 DEF AccountRecords
<1>. QED  BY <1>1, <1>2, <1>4 DEF Balance

\* Liquidated, of the position in slot i.
LiquidatedSlot(a, i, m, n, price) ==
  [PayFromFunds(a, Seized(a, a.positions[i], n, price)) EXCEPT
     !.positions = IF n = Abs(a.positions[i].size) THEN RemoveSlot(@, i)
                   ELSE [@ EXCEPT ![i] = Reduced(a.positions[i], n)],
     !.index = IF n = Abs(a.positions[i].size)
               THEN ReindexAfterRemoval(a.positions, @, i, i, m) ELSE @,
     !.pnl = @ + RealizedLiquidating(a.positions[i], n, price)]

\* A liquidation closes n units, and takes from the balance what is seized.
LEMMA LiquidatingReduces ==
  ASSUME NEW a, GoodAccount(a), NEW m \in Markets, SizeIn(a, m) # 0,
         NEW n \in Nat \ {0}, n <= Abs(SizeIn(a, m)), NEW price \in Nat
  PROVE  LET b == Liquidated(a, m, n, price)
         IN /\ Replaced(a, b, m, SizeLeft(SizeIn(a, m), n),
                        IF n = Abs(SizeIn(a, m)) THEN 0 ELSE HaircutIn(a, m))
            /\ Balance(b) = Balance(a) - Seized(a, PositionIn(a, m), n, price)
<1>. DEFINE i == a.index[m]
            pos == a.positions[i]
            seized == Seized(a, pos, n, price)
            paid == PayFromFunds(a, seized)
            closes == n = Abs(pos.size)
            positions == IF closes THEN RemoveSlot(a.positions, i)
                         ELSE [a.positions EXCEPT ![i] = Reduced(pos, n)]
            index == IF closes THEN ReindexAfterRemoval(a.positions, a.index, i, i, m)
                     ELSE a.index
            realized == RealizedLiquidating(pos, n, price)
            b == Liquidated(a, m, n, price)
<1>1. /\ a \in AccountRecords /\ a.positions \in Seq(Held) /\ a.index \in [Markets -> Nat]
      /\ Exact(a.positions, a.index) /\ a.pnl \in Int
  BY DEF GoodAccount, AccountRecords
<1>2. /\ i # 0 /\ i \in 1 .. Len(a.positions) /\ pos \in Held
      /\ SizeIn(a, m) = pos.size /\ HaircutIn(a, m) = pos.haircut
      /\ (CHOOSE j \in Slots(a.positions, m) : TRUE) = i
      /\ PositionIn(a, m) = pos
      /\ pos.market = m
  <2>1. /\ i # 0 /\ i \in 1 .. Len(a.positions) /\ pos \in Held
        /\ SizeIn(a, m) = pos.size /\ HaircutIn(a, m) = pos.haircut /\ HasPosition(a, m)
    BY PositionAtIndex
  <2>2. (CHOOSE j \in Slots(a.positions, m) : TRUE) = i /\ PositionIn(a, m) = pos
    BY <1>1, <2>1, PositionInIsIndexed
  <2>3. pos.market = m
    BY <1>1, <2>1, SlotIsIndexed
  <2>. QED  BY <2>1, <2>2, <2>3
<1>3. seized \in Nat /\ seized <= Balance(a)
  BY <1>1, <1>2, SeizedIsThere
<1>4. /\ paid \in AccountRecords /\ paid.positions = a.positions /\ paid.index = a.index
      /\ paid.pnl = a.pnl /\ Balance(paid) = Balance(a) - seized
  <2>1. seized <= a.credit + a.collateral
    BY <1>1, <1>3 DEF Balance, AccountRecords
  <2>. HIDE DEF seized
  <2>. QED  BY <1>1, <1>3, <2>1, Paying, PayingTakes DEF Books
<1>5. realized \in Int
  BY <1>2, RealizedLiquidatingIsInt
<1>6. b = [paid EXCEPT
             !.positions = IF closes THEN RemoveSlot(@, i) ELSE [@ EXCEPT ![i] = Reduced(pos, n)],
             !.index = IF closes THEN ReindexAfterRemoval(a.positions, @, i, i, m) ELSE @,
             !.pnl = @ + realized]
  <2>1. b = LiquidatedSlot(a, CHOOSE j \in Slots(a.positions, m) : TRUE, m, n, price)
    BY DEF Liquidated, LiquidatedSlot
  <2>2. b = LiquidatedSlot(a, i, m, n, price)
    <3>. HIDE DEF b, i
    <3>. QED  BY <1>2, <2>1
  <2>. HIDE DEF b
  <2>. QED  BY <2>2 DEF LiquidatedSlot
<1>7. b = [paid EXCEPT !.positions = positions, !.index = index, !.pnl = a.pnl + realized]
  <2>. HIDE DEF paid, realized, b, pos, i
  <2>. QED  BY <1>4, <1>6
<1>8. /\ Reduced(pos, n).size = SizeLeft(pos.size, n)
      /\ Reduced(pos, n).haircut = pos.haircut
      /\ Reduced(pos, n).market = pos.market
      /\ n < Abs(pos.size) => Reduced(pos, n) \in Held
  BY <1>2, ReducedIsTyped
<1>9. pos.size \in Int \ {0} /\ Abs(pos.size) \in Nat /\ n <= Abs(pos.size)
  <2>1. pos.size \in Int \ {0}
    BY <1>2 DEF Held, PositionRecords
  <2>. HIDE DEF pos
  <2>. QED  BY <1>2, <2>1 DEF Abs
<1>10. positions \in Seq(Held) /\ index \in [Markets -> Nat]
  <2>1. CASE closes
    <3>. HIDE DEF pos, i
    <3>. QED  BY <1>1, <1>2, <2>1, RemovalKeepsExact DEF i
  <2>2. CASE ~closes
    <3>1. Reduced(pos, n) \in Held
      BY <1>8, <1>9, <2>2
    <3>. HIDE DEF pos, i
    <3>. QED  BY <1>1, <1>2, <2>2, <3>1
  <2>. QED  BY <2>1, <2>2
<1>. HIDE DEF b, paid, realized, seized
<1>11. /\ b \in AccountRecords /\ b.positions = positions /\ b.index = index
       /\ Balance(b) = Balance(paid)
  <2>. HIDE DEF positions, index, pos, i
  <2>1. /\ b.positions = positions /\ b.index = index
        /\ b.collateral = paid.collateral /\ b.credit = paid.credit
    BY <1>4, <1>7 DEF AccountRecords
  <2>2. a.pnl + realized \in Int
    BY <1>1, <1>5
  <2>3. b \in AccountRecords
    BY <1>4, <1>7, <1>10, <2>2 DEF AccountRecords
  <2>. QED  BY <2>1, <2>3 DEF Balance
<1>12. Replaced(a, b, m, SizeLeft(pos.size, n), IF n = Abs(pos.size) THEN 0 ELSE pos.haircut)
  <2>1. CASE closes
    <3>1. Replaced(a, b, m, 0, 0)
      BY <1>2, <1>11, <2>1, SlotRemoved
    <3>2. SizeLeft(pos.size, n) = 0
      <4>. HIDE DEF pos
      <4>. QED  BY <1>9, <2>1 DEF SizeLeft, Abs
    <3>. QED  BY <2>1, <3>1, <3>2
  <2>2. CASE ~closes
    <3>1. Reduced(pos, n) \in Held
      BY <1>8, <1>9, <2>2
    <3>2. b.index = a.index /\ b.positions = [a.positions EXCEPT ![i] = Reduced(pos, n)]
      BY <1>11, <2>2
    <3>. DEFINE p == Reduced(pos, n)
    <3>3. p.market = m /\ p \in Held /\ p.size = SizeLeft(pos.size, n) /\ p.haircut = pos.haircut
      BY <1>2, <1>8, <3>1
    <3>. HIDE DEF p
    <3>4. Replaced(a, b, m, p.size, p.haircut)
      BY <1>2, <1>11, <3>2, <3>3, SlotChanged DEF p
    <3>. QED  BY <2>2, <3>3, <3>4
  <2>. QED  BY <2>1, <2>2
<1>. HIDE DEF pos
<1>. QED  BY <1>2, <1>4, <1>11, <1>12 DEF b, seized

\* A haircut is put on the position of the market, and takes no money.
LEMMA HaircutIsAdded ==
  ASSUME NEW a, GoodAccount(a), NEW m \in Markets, SizeIn(a, m) # 0, NEW amount \in Nat
  PROVE  LET b == Haircut(a, m, amount)
         IN /\ Replaced(a, b, m, SizeIn(a, m), HaircutIn(a, m) + amount)
            /\ Balance(b) = Balance(a)
<1>. DEFINE i == a.index[m]
            pos == a.positions[i]
            p == [pos EXCEPT !.haircut = @ + amount, !.units = Abs(pos.size)]
            b == Haircut(a, m, amount)
<1>1. /\ a \in AccountRecords /\ a.positions \in Seq(Held) /\ a.index \in [Markets -> Nat]
      /\ Exact(a.positions, a.index) /\ a.socialized \in Nat
  BY DEF GoodAccount, AccountRecords
<1>2. /\ i # 0 /\ i \in 1 .. Len(a.positions) /\ pos \in Held
      /\ SizeIn(a, m) = pos.size /\ HaircutIn(a, m) = pos.haircut
      /\ (CHOOSE j \in Slots(a.positions, m) : TRUE) = i
      /\ pos.market = m
  BY <1>1, PositionAtIndex, PositionInIsIndexed, SlotIsIndexed
<1>3. pos.size \in Int \ {0} /\ pos.haircut \in Nat /\ pos \in PositionRecords
  BY <1>2 DEF Held, PositionRecords
<1>4. CASE amount = 0
  <2>1. b = a
    BY <1>4, Zenon DEF Haircut
  <2>2. HaircutIn(a, m) + amount = HaircutIn(a, m)
    <3>. HIDE DEF pos
    <3>. QED  BY <1>2, <1>3, <1>4
  <2>3. Replaced(a, a, m, SizeIn(a, m), HaircutIn(a, m))
    BY DEF Replaced
  <2>. HIDE DEF b
  <2>. QED  BY <2>1, <2>2, <2>3 DEF b
<1>5. CASE amount # 0
  <2>1. b = [a EXCEPT !.positions[i].haircut = @ + amount,
                      !.positions[i].units = Abs(a.positions[i].size),
                      !.socialized = @ + amount]
    BY <1>2, <1>5, Zenon DEF Haircut
  <2>. DEFINE p1 == [pos EXCEPT !.haircut = @ + amount]
              a1 == [a EXCEPT !.positions[i].haircut = @ + amount]
              a2 == [a1 EXCEPT !.positions[i].units = Abs(a.positions[i].size)]
  <2>8. /\ a1 = [a EXCEPT !.positions = [a.positions EXCEPT ![i] = p1]]
        /\ a1.positions = [a.positions EXCEPT ![i] = p1]
    BY <1>1, <1>2 DEF AccountRecords
  <2>9. a2 = [a1 EXCEPT !.positions =
                [a1.positions EXCEPT ![i] = [p1 EXCEPT !.units = Abs(pos.size)]]]
    <3>1. a1.positions[i] = p1
      BY <1>1, <1>2, <2>8
    <3>. HIDE DEF a1, p1
    <3>. QED  BY <3>1
  <2>2. b = [a EXCEPT !.positions = [a.positions EXCEPT ![i] = p],
                      !.socialized = a.socialized + amount]
    <3>1. a2 = [a EXCEPT !.positions = [a.positions EXCEPT ![i] = p]]
      <4>1. [a1.positions EXCEPT ![i] = [p1 EXCEPT !.units = Abs(pos.size)]]
              = [a.positions EXCEPT ![i] = p]
        <5>1. [p1 EXCEPT !.units = Abs(pos.size)] = p
          OBVIOUS
        <5>. HIDE DEF p, p1, a1
        <5>. QED  BY <1>1, <2>8, <5>1
      <4>. HIDE DEF a1, a2, p, p1
      <4>. QED  BY <2>8, <2>9, <4>1
    <3>2. b = [a2 EXCEPT !.socialized = a2.socialized + amount]
      BY <2>1
    <3>3. a2.socialized = a.socialized
      <4>. HIDE DEF a2, p
      <4>. QED  BY <3>1
    <3>. HIDE DEF a2, b, p
    <3>. QED  BY <3>1, <3>2, <3>3
  <2>3. p \in Held /\ p.market = m /\ p.size = pos.size /\ p.haircut = pos.haircut + amount
    <3>1. Abs(pos.size) \in Nat /\ pos.haircut + amount \in Nat
      BY <1>3 DEF Abs
    <3>. HIDE DEF pos
    <3>. QED  BY <1>2, <1>3, <3>1 DEF Held, PositionRecords
  <2>. HIDE DEF b, p, pos
  <2>4. [a.positions EXCEPT ![i] = p] \in Seq(Held) /\ a.socialized + amount \in Nat
    BY <1>1, <1>2, <2>3
  <2>5. /\ b.positions = [a.positions EXCEPT ![i] = p] /\ b.index = a.index
        /\ b.collateral = a.collateral /\ b.credit = a.credit
    BY <1>1, <2>2 DEF AccountRecords
  <2>6. b \in AccountRecords
    BY <1>1, <2>2, <2>4 DEF AccountRecords
  <2>7. Replaced(a, b, m, p.size, p.haircut)
    BY <1>2, <2>3, <2>5, <2>6, SlotChanged
  <2>. QED  BY <1>2, <2>3, <2>5, <2>7 DEF Balance, b
<1>. QED  BY <1>4, <1>5

----------------------------------------------------------------------------
(* Haircuts of the winners. *)

\* Accounts with exact indices.
AccountsGood(accounts) == accounts \in [Accounts -> AccountRecords] /\ AccountsExact(accounts)

\* Each of them is good.
LEMMA GoodAccountOf ==
  ASSUME NEW accounts, AccountsGood(accounts), NEW v \in Accounts
  PROVE  GoodAccount(accounts[v])
BY DEF AccountsGood, AccountsExact, GoodAccount

\* The haircuts on the positions in m, user by user.
HaircutOf(accounts, m) == [u \in Users |-> HaircutIn(accounts[u], m)]

\* They are natural numbers, and HaircutsOn adds them up.
LEMMA HaircutsAreNat ==
  ASSUME NEW accounts, AccountsGood(accounts), NEW m \in Markets, NEW U \in SUBSET Users
  PROVE  /\ IsFiniteSet(U)
         /\ HaircutOf(accounts, m) \in [Users -> Nat]
         /\ Ints(HaircutOf(accounts, m), U)
         /\ HaircutsOn(accounts, m, U) = SumFunctionOnSet(HaircutOf(accounts, m), U)
         /\ HaircutsOn(accounts, m, U) \in Nat
<1>1. IsFiniteSet(U)
  BY VaultAssumption, FS_Subset
<1>2. \A u \in Users : HaircutIn(accounts[u], m) \in Nat
  <2>1. \A u \in Users : GoodAccount(accounts[u])
    BY GoodAccountOf DEF Accounts
  <2>. QED  BY <2>1, PositionAtIndex
<1>3. HaircutOf(accounts, m) \in [Users -> Nat]
  BY <1>2 DEF HaircutOf
<1>4. \A u \in U : HaircutOf(accounts, m)[u] \in Nat
  BY <1>3
<1>5. HaircutsOn(accounts, m, U) = SumFunctionOnSet(HaircutOf(accounts, m), U)
  BY DEF HaircutsOn, HaircutOf
<1>. QED  BY <1>1, <1>3, <1>4, <1>5, SumIsNat DEF Ints

\* The accounts before and after haircuts of the amount total on the positions
\* in m of others than the target.
Cut(before, after, m, target, total) ==
  /\ AccountsGood(after)
  /\ \A v \in Accounts : Balance(after[v]) = Balance(before[v])
  /\ \A v \in Users, k \in Markets : SizeIn(after[v], k) = SizeIn(before[v], k)
  /\ HaircutsOn(after, m, Users \ {target}) = HaircutsOn(before, m, Users \ {target}) + total

\* No haircut.
LEMMA NothingCut ==
  ASSUME NEW accounts, AccountsGood(accounts), NEW m \in Markets, NEW target
  PROVE  Cut(accounts, accounts, m, target, 0)
<1>1. HaircutsOn(accounts, m, Users \ {target}) \in Nat
  BY HaircutsAreNat
<1>. QED  BY <1>1 DEF Cut

\* One haircut, of somebody with a position.
LEMMA OneIsCut ==
  ASSUME NEW before, AccountsGood(before), NEW m \in Markets, NEW target,
         NEW v \in Users \ {target}, SizeIn(before[v], m) # 0, NEW amount \in Nat
  PROVE  Cut(before, [before EXCEPT ![v] = Haircut(@, m, amount)], m, target, amount)
<1>. DEFINE b == Haircut(before[v], m, amount)
            after == [before EXCEPT ![v] = Haircut(@, m, amount)]
<1>1. v \in Accounts /\ GoodAccount(before[v])
  BY GoodAccountOf DEF Accounts
<1>2. /\ Replaced(before[v], b, m, SizeIn(before[v], m), HaircutIn(before[v], m) + amount)
      /\ Balance(b) = Balance(before[v])
  BY <1>1, HaircutIsAdded
<1>. HIDE DEF b
<1>3. /\ after = [before EXCEPT ![v] = b] /\ after[v] = b
      /\ \A w \in Accounts \ {v} : after[w] = before[w]
  BY <1>1 DEF AccountsGood, b
<1>4. GoodAccount(b) /\ HaircutIn(b, m) = HaircutIn(before[v], m) + amount
  BY <1>2 DEF Replaced
<1>5. AccountsGood(after)
  <2>1. after \in [Accounts -> AccountRecords]
    BY <1>3, <1>4 DEF AccountsGood, GoodAccount
  <2>2. AccountsExact(after)
    <3>. HIDE DEF after
    <3>. QED  BY <1>1, <1>3, <1>4 DEF AccountsGood, AccountsExact, GoodAccount
  <2>. QED  BY <2>1, <2>2 DEF AccountsGood
<1>. HIDE DEF after
<1>6. \A w \in Accounts : Balance(after[w]) = Balance(before[w])
  BY <1>2, <1>3
<1>7. \A w \in Users, k \in Markets : SizeIn(after[w], k) = SizeIn(before[w], k)
  <2>1. \A k \in Markets : SizeIn(b, k) = SizeIn(before[v], k)
    BY <1>2 DEF Replaced
  <2>. QED  BY <1>3, <2>1 DEF Accounts
<1>8. HaircutsOn(after, m, Users \ {target}) = HaircutsOn(before, m, Users \ {target}) + amount
  <2>. DEFINE U == Users \ {target}
              f == HaircutOf(before, m)
              g == HaircutOf(after, m)
  <2>1. /\ IsFiniteSet(U) /\ Ints(f, U) /\ f \in [Users -> Nat]
        /\ HaircutsOn(before, m, U) = SumFunctionOnSet(f, U)
        /\ HaircutsOn(before, m, U) \in Nat
    BY HaircutsAreNat
  <2>2. HaircutsOn(after, m, U) = SumFunctionOnSet(g, U) /\ g \in [Users -> Nat]
    BY <1>5, HaircutsAreNat
  <2>3. \A w \in U \ {v} : g[w] = f[w]
    BY <1>3 DEF HaircutOf, Accounts
  <2>4. g[v] = f[v] + amount
    BY <1>3, <1>4 DEF HaircutOf
  <2>. HIDE DEF f, g, U
  <2>5. v \in U /\ g[v] \in Int /\ f[v] \in Nat
    BY <2>1, <2>2 DEF U
  <2>6. SumFunctionOnSet(g, U) = SumFunctionOnSet(f, U) - f[v] + g[v]
    BY <2>1, <2>3, <2>5, SumAfterChange DEF AgreeBut
  <2>7. SumFunctionOnSet(f, U) \in Int
    BY <2>1, SumIsInt
  <2>8. HaircutsOn(after, m, U) = HaircutsOn(before, m, U) + amount
    BY <2>1, <2>2, <2>4, <2>5, <2>6, <2>7
  <2>. QED  BY <2>8 DEF U
<1>. QED  BY <1>5, <1>6, <1>7, <1>8 DEF Cut, after

\* Haircuts add up.
LEMMA CutsAddUp ==
  ASSUME NEW x, AccountsGood(x), NEW y, NEW z, NEW m \in Markets, NEW target,
         NEW s \in Nat, NEW t \in Nat, Cut(x, y, m, target, s), Cut(y, z, m, target, t)
  PROVE  Cut(x, z, m, target, s + t)
<1>1. HaircutsOn(x, m, Users \ {target}) \in Nat
  BY HaircutsAreNat
<1>2. HaircutsOn(z, m, Users \ {target}) = HaircutsOn(x, m, Users \ {target}) + (s + t)
  BY <1>1 DEF Cut
<1>. QED  BY <1>2, Zenon DEF Cut

\* Winners take their shares.
LEMMA WinnersAreCut ==
  ASSUME NEW accounts, AccountsGood(accounts), NEW m \in Markets, NEW target,
         NEW winners \in Seq({v \in Users \ {target} : SizeIn(accounts[v], m) # 0}),
         NEW shares \in [1 .. Len(winners) -> Nat]
  PROVE  Cut(accounts, WithHaircuts(accounts, m, winners, shares), m, target,
             SumFunctionOnSet(shares, 1 .. Len(winners)))
<1>. DEFINE n == Len(winners)
            Turn(x, k) == [x EXCEPT ![winners[k]] = Haircut(@, m, shares[k])]
            Loop(f) == f = [k \in 0 .. n |-> IF k = 0 THEN accounts ELSE Turn(f[k - 1], k)]
            loop == CHOOSE f : Loop(f)
            S == [k \in 0 .. n |-> {b \in [Accounts -> AccountRecords] :
                     Cut(accounts, b, m, target, SumFunctionOnSet(shares, 1 .. k))}]
            G == [k \in 1 .. n |-> [x \in S[k - 1] |-> Turn(x, k)]]
<1>1. WithHaircuts(accounts, m, winners, shares) = loop[n]
  BY Zenon DEF WithHaircuts
<1>2. /\ n \in Nat /\ accounts \in S[0]
      /\ \A k \in 1 .. n : \A x \in S[k - 1] : Turn(x, k) \in S[k]
  <2>1. n \in Nat /\ accounts \in S[0]
    <3>1. 1 .. 0 = {} /\ SumFunctionOnSet(shares, {}) = 0
      BY SumOfNothing
    <3>. QED  BY <3>1, NothingCut DEF AccountsGood
  <2>2. ASSUME NEW k \in 1 .. n, NEW x \in S[k - 1]
        PROVE  Turn(x, k) \in S[k]
    <3>. DEFINE v == winners[k]
                s == SumFunctionOnSet(shares, 1 .. k - 1)
    <3>1. k - 1 \in 0 .. n /\ k \in 0 .. n
      BY <2>1
    <3>2. Cut(accounts, x, m, target, s)
      BY <3>1
    <3>3. v \in Users \ {target} /\ SizeIn(accounts[v], m) # 0 /\ shares[k] \in Nat
      OBVIOUS
    <3>4. AccountsGood(x) /\ SizeIn(x[v], m) # 0
      BY <3>2, <3>3 DEF Cut
    <3>5. Cut(x, Turn(x, k), m, target, shares[k])
      BY <3>3, <3>4, OneIsCut
    <3>6. s \in Nat /\ SumFunctionOnSet(shares, 1 .. k) = shares[k] + s
      BY <2>1, SumOfTurns
    <3>. HIDE DEF Turn, s
    <3>7. Cut(accounts, Turn(x, k), m, target, s + shares[k])
      BY <3>2, <3>3, <3>5, <3>6, CutsAddUp
    <3>8. Cut(accounts, Turn(x, k), m, target, SumFunctionOnSet(shares, 1 .. k))
      BY <3>3, <3>6, <3>7
    <3>. QED  BY <3>1, <3>8 DEF Cut, AccountsGood
  <2>. QED  BY <2>1, <2>2
<1>. HIDE DEF Turn, S, n
<1>3. LeadsOn(S, n, G)
  BY <1>2 DEF LeadsOn
<1>4. PICK f : Runs(f, S, accounts, n, G)
  <2>. HIDE DEF G
  <2>. QED  BY <1>2, <1>3, RunExists
<1>5. Loop(f)
  <2>1. \A k \in 1 .. n : f[k] = Turn(f[k - 1], k)
    <3>1. \A k \in 1 .. n : k - 1 \in 0 .. n
      BY <1>2
    <3>. QED  BY <1>4, <3>1 DEF Runs
  <2>2. f = [k \in 0 .. n |-> f[k]] /\ f[0] = accounts
    BY <1>4 DEF Runs
  <2>3. \A k \in 0 .. n : k = 0 \/ k \in 1 .. n
    BY <1>2
  <2>4. \A k \in 0 .. n : f[k] = IF k = 0 THEN accounts ELSE Turn(f[k - 1], k)
    BY <2>1, <2>2, <2>3, Zenon
  <2>. QED  BY <2>2, <2>4
<1>6. Loop(loop)
  <2>. HIDE DEF Loop
  <2>. QED  BY <1>5, Zenon
<1>. HIDE DEF loop
<1>7. loop[0] = accounts /\ \A k \in 1 .. n : loop[k] = Turn(loop[k - 1], k)
  BY <1>2, <1>6
<1>8. \A k \in 0 .. n : loop[k] \in S[k]
  BY <1>2, <1>7, TurnByTurn
<1>9. loop[n] \in S[n] /\ n \in 0 .. n
  BY <1>2, <1>8
<1>. QED  BY <1>1, <1>9 DEF S, n

----------------------------------------------------------------------------
(* Who the winners are, and what they can take. *)

\* A score is an integer.
LEMMA ScoreIsInt ==
  ASSUME NEW pos \in Held, NEW mark \in Nat
  PROVE  Score(pos, mark) \in Int
<1>1. pos.size \in Int /\ pos.entry \in Int /\ Abs(pos.size) \in Int
  BY DEF Held, PositionRecords, Abs
<1>2. (mark - pos.entry) \in Int
  BY <1>1
<1>3. (mark - pos.entry) * pos.size \in Int
  BY <1>1, <1>2
<1>4. ((mark - pos.entry) * pos.size) * Abs(pos.size) \in Int
  BY <1>1, <1>3
<1>. QED  BY <1>4 DEF Score

\* So is equity, and a capacity is a natural number.
LEMMA CapacityIsNat ==
  ASSUME NEW pos \in Held, NEW mark \in Nat
  PROVE  Capacity(pos, mark) \in Nat
<1>1. /\ pos.size \in Int /\ pos.entry \in Int /\ pos.margin \in Nat
      /\ MaintenanceBps \in Nat /\ Bps \in Nat \ {0}
  BY LiquidationAssumption DEF Held, PositionRecords, Bps
<1>2. (mark - pos.entry) * pos.size \in Int
  BY <1>1
<1>3. ToMoney((mark - pos.entry) * pos.size) \in Int
  BY <1>2, MoneyIsInt
<1>4. EquityAt(pos, mark) \in Int
  BY <1>1, <1>3 DEF EquityAt
<1>5. Notional(pos.size, mark) \in Nat
  BY <1>1, NotionalIsNat
<1>6. Notional(pos.size, mark) * MaintenanceBps \in Nat
  BY <1>1, <1>5
<1>7. MaintenanceAt(pos, mark) \in Nat
  BY <1>1, <1>6, DivIsNat DEF MaintenanceAt
<1>. QED  BY <1>4, <1>7, LessIsNat DEF Capacity

\* The state of a liquidation, with the type of each field.  The total of locked
\* margin may be negative; LiquidateDirect refuses that in the end.
ForcedLedgers ==
  [acct : [Accounts -> AccountRecords], list : Seq(Users), index : [Users -> Nat],
   locked : Int, badDebt : Nat, ok : BOOLEAN]

ForcedStates ==
  [ledger : ForcedLedgers, sharers : Seq(Users),
   pool : [collateral : Nat, credit : Nat], unpaid : Nat]

\* Indices and lists are exact in it.
GoodForced(x) ==
  /\ x \in ForcedStates
  /\ AccountsGood(x.ledger.acct)
  /\ TradersExact(x.ledger.list, x.ledger.index)

\* With their types.
LEMMA ForcedIsTyped ==
  ASSUME NEW x, GoodForced(x)
  PROVE  /\ AccountsGood(x.ledger.acct) /\ x.ledger \in ForcedLedgers
         /\ x.ledger.list \in Seq(Users) /\ x.ledger.index \in [Users -> Nat]
         /\ TradersExact(x.ledger.list, x.ledger.index)
         /\ x.ledger.locked \in Int /\ x.ledger.badDebt \in Nat
         /\ x.sharers \in Seq(Users) /\ x.unpaid \in Nat
         /\ x.pool \in [collateral : Nat, credit : Nat]
         /\ x.pool.collateral \in Nat /\ x.pool.credit \in Nat
BY DEF GoodForced, ForcedStates, ForcedLedgers

\* Candidates for a haircut are users.
LEMMA SharersAreUsers ==
  ASSUME NEW x, GoodForced(x), NEW m \in Markets
  PROVE  Sharers(x, m) \in Seq(Users)
<1>1. CASE x.sharers # <<>>
  BY <1>1, ForcedIsTyped DEF Sharers
<1>2. CASE x.sharers = <<>>
  <2>. DEFINE W == Holders(x.ledger.acct, m)
  <2>1. Among(Known, W) \in Seq(Users \cap W)
    BY LiquidationAssumption, AmongIsSeq
  <2>2. Sharers(x, m) = Among(Known, W)
    BY <1>2 DEF Sharers
  <2>. HIDE DEF W
  <2>3. Seq(Users \cap W) \subseteq Seq(Users)
    OBVIOUS
  <2>. QED  BY <2>1, <2>2, <2>3
<1>. QED  BY <1>1, <1>2

\* The others with a position.
OtherHolders(x, m, target) ==
  {v \in Users \ {target} : SizeIn(x.ledger.acct[v], m) # 0}

\* Winners are others with a position.
LEMMA WinnersHold ==
  ASSUME NEW x, GoodForced(x), NEW m \in Markets, NEW target, NEW mark \in Nat
  PROVE  Winners(x, m, target, mark) \in Seq(OtherHolders(x, m, target))
<1>. DEFINE H == Holders(x.ledger.acct, m)
            score == [v \in H |-> Score(PositionIn(x.ledger.acct[v], m), mark)]
            W == {v \in DOMAIN score \ {target} : score[v] > 0}
            O == OtherHolders(x, m, target)
            s == Sharers(x, m)
            won == Among(s, W)
            ranked == Ranked(won, score)
            n == Lesser(Len(won), MaxCandidates)
<1>1. Winners(x, m, target, mark) = SubSeq(ranked, 1, n)
  BY DEF Winners
<1>2. ASSUME NEW v \in H
      PROVE  /\ v \in Users /\ SizeIn(x.ledger.acct[v], m) # 0
             /\ score[v] \in Int
  <2>. DEFINE a == x.ledger.acct[v]
  <2>1. v \in Users /\ v \in Accounts /\ HasPosition(a, m)
    BY DEF Holders, Accounts
  <2>2. GoodAccount(a)
    BY <2>1, GoodAccountOf DEF GoodForced
  <2>3. SizeIn(a, m) # 0
    BY <2>1, <2>2, PositionAtIndex
  <2>4. PositionIn(a, m) \in Held
    BY <2>1, <2>2, PositionInIsIndexed DEF GoodAccount
  <2>5. score[v] = Score(PositionIn(a, m), mark)
    OBVIOUS
  <2>. HIDE DEF a, score
  <2>6. score[v] \in Int
    BY <2>4, <2>5, ScoreIsInt
  <2>. QED  BY <2>1, <2>3, <2>6 DEF a
<1>3. W \subseteq O /\ \A v \in W : score[v] \in Int
  BY <1>2 DEF OtherHolders
<1>4. s \in Seq(Users)
  BY SharersAreUsers
<1>. HIDE DEF s, W, O, score
<1>5. won \in Seq(Users \cap W)
  BY <1>4, AmongIsSeq
<1>6. won \in Seq(W)
  <2>. HIDE DEF won
  <2>. QED  BY <1>5
<1>7. ranked \in Seq(W) /\ Len(ranked) = Len(won)
  <2>. HIDE DEF won
  <2>. QED  BY <1>3, <1>6, RankedIsSeq
<1>8. n \in Nat /\ n <= Len(ranked)
  <2>1. Len(won) \in Nat
    <3>. HIDE DEF won
    <3>. QED  BY <1>6
  <2>2. MaxCandidates \in Nat
    BY LiquidationAssumption
  <2>3. n \in Nat /\ n <= Len(won)
    <3>. HIDE DEF won
    <3>. QED  BY <2>1, <2>2, LesserIsNat
  <2>. QED  BY <1>7, <2>3
<1>. HIDE DEF n, ranked, won
<1>9. SubSeq(ranked, 1, n) \in Seq(W)
  BY <1>7, <1>8
<1>10. SubSeq(ranked, 1, n) \in Seq(O)
  BY <1>3, <1>9
<1>. QED  BY <1>1, <1>10 DEF O

\* y is x after a loss was put on others than the target: as haircuts, and as
\* bad debt what is left.
Socialized(x, y, m, target, loss) ==
  /\ GoodForced(y)
  /\ y.ledger.list = x.ledger.list /\ y.ledger.index = x.ledger.index
  /\ y.ledger.locked = x.ledger.locked
  /\ y.pool = x.pool /\ y.unpaid = x.unpaid
  /\ \A v \in Accounts : Balance(y.ledger.acct[v]) = Balance(x.ledger.acct[v])
  /\ \A v \in Users, k \in Markets :
       SizeIn(y.ledger.acct[v], k) = SizeIn(x.ledger.acct[v], k)
  /\ HaircutsOn(y.ledger.acct, m, Users \ {target}) + y.ledger.badDebt =
       HaircutsOn(x.ledger.acct, m, Users \ {target}) + x.ledger.badDebt + loss

\* Shares that add up to at most the loss put it on others.
LEMMA SharingSocializes ==
  ASSUME NEW x, GoodForced(x), NEW m \in Markets, NEW target, NEW loss \in Nat,
         NEW winners \in Seq(OtherHolders(x, m, target)),
         NEW shares \in [1 .. Len(winners) -> Nat],
         SumFunctionOnSet(shares, 1 .. Len(winners)) <= loss
  PROVE  Socialized(x, ShareOut(x, m, loss, winners, shares), m, target, loss)
<1>. DEFINE accounts == WithHaircuts(x.ledger.acct, m, winners, shares)
            total == SumFunctionOnSet(shares, 1 .. Len(winners))
            rest == Less(loss, SumFunction(shares))
            y == ShareOut(x, m, loss, winners, shares)
<1>1. /\ x.ledger \in ForcedLedgers /\ x.ledger.badDebt \in Nat /\ AccountsGood(x.ledger.acct)
      /\ TradersExact(x.ledger.list, x.ledger.index)
  BY ForcedIsTyped
<1>2. Cut(x.ledger.acct, accounts, m, target, total)
  BY <1>1, WinnersAreCut DEF OtherHolders
<1>3. total \in Nat /\ rest = loss - total /\ rest \in Nat
  <2>1. IsFiniteSet(1 .. Len(winners)) /\ \A i \in 1 .. Len(winners) : shares[i] \in Nat
    <3>1. Len(winners) \in Nat
      OBVIOUS
    <3>2. IsFiniteSet(1 .. Len(winners))
      BY <3>1, FS_Interval
    <3>. QED  BY <3>2
  <2>2. total \in Nat
    BY <2>1, SumIsNat
  <2>3. SumFunction(shares) = total
    BY DEF SumFunction
  <2>. HIDE DEF total
  <2>. QED  BY <2>2, <2>3 DEF Less, total
<1>4. Sharers(x, m) \in Seq(Users)
  BY SharersAreUsers
<1>5. y = [x EXCEPT !.ledger.acct = accounts, !.ledger.badDebt = @ + rest,
                    !.sharers = Sharers(x, m)]
  BY DEF ShareOut
<1>. HIDE DEF y, accounts, total, rest
<1>6. accounts \in [Accounts -> AccountRecords] /\ AccountsGood(accounts)
  BY <1>2 DEF Cut, AccountsGood
<1>7. /\ y = [x EXCEPT !.ledger = [x.ledger EXCEPT !.acct = accounts,
                                                   !.badDebt = x.ledger.badDebt + rest],
                       !.sharers = Sharers(x, m)]
  BY <1>1, <1>5 DEF ForcedLedgers, GoodForced, ForcedStates
<1>. DEFINE l == [x.ledger EXCEPT !.acct = accounts, !.badDebt = x.ledger.badDebt + rest]
<1>8. /\ l \in ForcedLedgers /\ l.acct = accounts /\ l.badDebt = x.ledger.badDebt + rest
      /\ l.list = x.ledger.list /\ l.index = x.ledger.index /\ l.locked = x.ledger.locked
  <2>1. x.ledger.badDebt + rest \in Nat
    BY <1>1, <1>3
  <2>. QED  BY <1>1, <1>6, <2>1 DEF ForcedLedgers
<1>. HIDE DEF l
<1>9. y \in ForcedStates /\ y.ledger = l /\ y.pool = x.pool /\ y.unpaid = x.unpaid
  BY <1>4, <1>7, <1>8 DEF GoodForced, ForcedStates, l
<1>10. GoodForced(y)
  BY <1>1, <1>6, <1>8, <1>9 DEF GoodForced
<1>11. HaircutsOn(y.ledger.acct, m, Users \ {target}) + y.ledger.badDebt =
         HaircutsOn(x.ledger.acct, m, Users \ {target}) + x.ledger.badDebt + loss
  <2>1. HaircutsOn(x.ledger.acct, m, Users \ {target}) \in Nat
    BY <1>1, HaircutsAreNat
  <2>2. HaircutsOn(accounts, m, Users \ {target}) =
          HaircutsOn(x.ledger.acct, m, Users \ {target}) + total
    BY <1>2 DEF Cut
  <2>. QED  BY <1>1, <1>3, <1>8, <1>9, <2>1, <2>2
<1>12. /\ \A v \in Accounts : Balance(y.ledger.acct[v]) = Balance(x.ledger.acct[v])
       /\ \A v \in Users, k \in Markets :
            SizeIn(y.ledger.acct[v], k) = SizeIn(x.ledger.acct[v], k)
  BY <1>2, <1>8, <1>9 DEF Cut
<1>. QED  BY <1>8, <1>9, <1>10, <1>11, <1>12 DEF Socialized, y

\* So do the shares that the code computes.
LEMMA ApportioningSocializes ==
  ASSUME NEW x, GoodForced(x), NEW m \in Markets, NEW target, NEW loss \in Nat,
         NEW winners \in Seq(OtherHolders(x, m, target)), NEW mark \in Nat
  PROVE  Socialized(x, Apportion(x, m, loss, winners, mark), m, target, loss)
<1>. DEFINE N == Len(winners)
            held == [i \in DOMAIN winners |-> PositionIn(x.ledger.acct[winners[i]], m)]
            notionals == [i \in DOMAIN winners |-> Notional(held[i].size, mark)]
            capacities == [i \in DOMAIN winners |-> Capacity(held[i], mark)]
            none == \A i \in DOMAIN winners : notionals[i] = 0
            shares == IF none THEN notionals ELSE Assign(loss, notionals, capacities)
<1>1. Apportion(x, m, loss, winners, mark) = ShareOut(x, m, loss, winners, shares)
  BY DEF Apportion
<1>2. DOMAIN winners = 1 .. N /\ N \in Nat
  OBVIOUS
<1>3. ASSUME NEW i \in 1 .. N
      PROVE  held[i] \in Held
  <2>. DEFINE v == winners[i]
              a == x.ledger.acct[v]
  <2>1. v \in Users /\ v \in Accounts /\ SizeIn(a, m) # 0
    BY DEF OtherHolders, Accounts
  <2>2. GoodAccount(a)
    BY <2>1, GoodAccountOf, ForcedIsTyped
  <2>3. HasPosition(a, m)
    BY <2>1, <2>2, PositionAtIndex
  <2>4. PositionIn(a, m) \in Held
    BY <2>2, <2>3, PositionInIsIndexed DEF GoodAccount
  <2>. QED  BY <2>4
<1>4. \A i \in 1 .. N : held[i].size \in Int
  BY <1>3 DEF Held, PositionRecords
<1>. HIDE DEF held
<1>5. notionals \in [1 .. N -> Nat] /\ capacities \in [1 .. N -> Nat]
  <2>1. \A i \in 1 .. N : Notional(held[i].size, mark) \in Nat
    BY <1>4, NotionalIsNat
  <2>2. \A i \in 1 .. N : Capacity(held[i], mark) \in Nat
    BY <1>3, CapacityIsNat
  <2>. QED  BY <1>2, <2>1, <2>2
<1>. HIDE DEF notionals, capacities, N
<1>6. shares \in [1 .. N -> Nat] /\ SumFunctionOnSet(shares, 1 .. N) <= loss
  <2>1. CASE none
    <3>1. shares = notionals /\ \A i \in 1 .. N : shares[i] = 0
      BY <1>2, <2>1
    <3>2. SumFunctionOnSet(shares, 1 .. N) = 0
      <4>1. IsFiniteSet(1 .. N)
        BY <1>2, FS_Interval
      <4>. HIDE DEF shares, none
      <4>. QED  BY <3>1, <4>1, SumOfZeros
    <3>. QED  BY <1>5, <3>1, <3>2
  <2>2. CASE ~none
    <3>1. \E i \in 1 .. N : notionals[i] # 0
      BY <1>2, <2>2
    <3>2. shares = Assign(loss, notionals, capacities)
      BY <2>2
    <3>. HIDE DEF none, shares
    <3>. QED  BY <1>2, <1>5, <3>1, <3>2, AssignedShares
  <2>. QED  BY <2>1, <2>2
<1>. HIDE DEF shares
<1>7. Socialized(x, ShareOut(x, m, loss, winners, shares), m, target, loss)
  BY <1>6, SharingSocializes DEF N
<1>. QED  BY <1>1, <1>7

\* Socialising a loss puts it on others than the target, no more and no less.
LEMMA SocializingKeeps ==
  ASSUME NEW x, GoodForced(x), NEW m \in Markets, NEW target, NEW loss \in Nat,
         NEW mark \in Nat
  PROVE  Socialized(x, Socialize(x, m, loss, target, mark), m, target, loss)
<1>1. CASE loss = 0
  <2>1. Socialize(x, m, loss, target, mark) = x
    BY <1>1 DEF Socialize
  <2>2. HaircutsOn(x.ledger.acct, m, Users \ {target}) \in Nat /\ x.ledger.badDebt \in Nat
    BY ForcedIsTyped, HaircutsAreNat
  <2>. QED  BY <1>1, <2>1, <2>2 DEF Socialized
<1>2. CASE loss # 0
  <2>1. Socialize(x, m, loss, target, mark) =
          Apportion(x, m, loss, Winners(x, m, target, mark), mark)
    BY <1>2 DEF Socialize
  <2>. QED  BY <2>1, WinnersHold, ApportioningSocializes
<1>. QED  BY <1>1, <1>2

----------------------------------------------------------------------------
(* The leg of the liquidated trader. *)

\* The part of a loss that is socialised at once is at most what is not covered.
LEMMA AllowedIsUncovered ==
  ASSUME NEW pos \in Held, NEW n \in Nat, NEW price \in Nat, NEW anchor \in Nat,
         NEW seized \in Nat
  PROVE  /\ Allowed(pos, n, price, anchor, seized) \in Nat
         /\ Less(LossAt(pos, n, price), seized) \in Nat
         /\ Allowed(pos, n, price, anchor, seized) <= Less(LossAt(pos, n, price), seized)
<1>. DEFINE fair == IF pos.size > 0 THEN (IF price > anchor THEN price ELSE anchor)
                                    ELSE Lesser(price, anchor)
            loss == LossAt(pos, n, price)
            uncovered == Less(loss, seized)
            most == Less(LossAt(pos, n, fair), Lesser(loss, seized))
<1>1. fair \in Nat
  <2>1. Lesser(price, anchor) \in Nat
    BY LesserIsNat
  <2>. QED  BY <2>1
<1>2. Allowed(pos, n, price, anchor, seized) =
        IF n = Abs(pos.size) THEN uncovered ELSE Lesser(uncovered, most)
  BY DEF Allowed
<1>. HIDE DEF fair
<1>3. loss \in Nat /\ LossAt(pos, n, fair) \in Nat
  BY <1>1, LossIsNat
<1>. HIDE DEF loss
<1>4. Lesser(loss, seized) \in Nat
  BY <1>3, LesserIsNat
<1>5. uncovered \in Nat /\ most \in Nat
  BY <1>3, <1>4, LessIsNat
<1>. HIDE DEF uncovered, most
<1>6. Lesser(uncovered, most) \in Nat /\ Lesser(uncovered, most) <= uncovered
  BY <1>5, LesserIsNat
<1>7. /\ Allowed(pos, n, price, anchor, seized) \in Nat
      /\ Allowed(pos, n, price, anchor, seized) <= uncovered
  BY <1>2, <1>5, <1>6
<1>. QED  BY <1>5, <1>7 DEF uncovered, loss

\* The balances of the accounts, and the money in all of them.
BalanceOf(accounts) == [u \in Accounts |-> Balance(accounts[u])]
MoneyIn(accounts) == SumFunctionOnSet(BalanceOf(accounts), Accounts)

\* They are natural numbers.
LEMMA BalancesAreNat ==
  ASSUME NEW accounts, AccountsGood(accounts)
  PROVE  /\ IsFiniteSet(Accounts) /\ BalanceOf(accounts) \in [Accounts -> Nat]
         /\ Ints(BalanceOf(accounts), Accounts) /\ MoneyIn(accounts) \in Nat
<1>1. IsFiniteSet(Accounts)
  BY VaultAssumption, FS_AddElement DEF Accounts
<1>2. \A u \in Accounts : Balance(accounts[u]) \in Nat
  BY DEF AccountsGood, AccountRecords, Balance
<1>3. BalanceOf(accounts) \in [Accounts -> Nat]
  BY <1>2 DEF BalanceOf
<1>4. \A u \in Accounts : BalanceOf(accounts)[u] \in Nat
  BY <1>3
<1>. QED  BY <1>1, <1>3, <1>4, SumIsNat DEF Ints, MoneyIn

\* When one account changes, the money changes by as much.
LEMMA MoneyMoves ==
  ASSUME NEW before, AccountsGood(before), NEW after, AccountsGood(after), NEW u \in Accounts,
         \A v \in Accounts \ {u} : Balance(after[v]) = Balance(before[v])
  PROVE  /\ Balance(before[u]) \in Nat /\ Balance(after[u]) \in Nat
         /\ MoneyIn(after) = MoneyIn(before) - Balance(before[u]) + Balance(after[u])
<1>. DEFINE f == BalanceOf(before)
            g == BalanceOf(after)
<1>1. /\ IsFiniteSet(Accounts) /\ f \in [Accounts -> Nat] /\ Ints(f, Accounts)
      /\ g \in [Accounts -> Nat]
  BY BalancesAreNat
<1>2. f[u] = Balance(before[u]) /\ g[u] = Balance(after[u])
  BY DEF BalanceOf
<1>3. \A v \in Accounts \ {u} : g[v] = f[v]
  BY DEF BalanceOf
<1>. HIDE DEF f, g
<1>4. g[u] \in Nat /\ f[u] \in Nat
  BY <1>1
<1>5. SumFunctionOnSet(g, Accounts) = SumFunctionOnSet(f, Accounts) - f[u] + g[u]
  BY <1>1, <1>3, <1>4, SumAfterChange DEF AgreeBut
<1>. QED  BY <1>2, <1>4, <1>5 DEF MoneyIn, f, g

\* All the money of a market's state.
Money(x) == MoneyIn(x.ledger.acct) + PoolOf(x)

\* The losses put on others than u, less those that nobody paid.
Owed(x, m, u) == HaircutsOn(x.ledger.acct, m, Users \ {u}) + x.ledger.badDebt - x.unpaid

\* They are numbers.
LEMMA SumsOfForced ==
  ASSUME NEW x, GoodForced(x), NEW m \in Markets, NEW u
  PROVE  /\ MoneyIn(x.ledger.acct) \in Nat /\ PoolOf(x) \in Nat /\ Money(x) \in Nat
         /\ HaircutsOn(x.ledger.acct, m, Users \ {u}) \in Nat /\ Owed(x, m, u) \in Int
<1>1. /\ x.ledger.badDebt \in Nat /\ x.unpaid \in Nat
      /\ x.pool.collateral \in Nat /\ x.pool.credit \in Nat /\ AccountsGood(x.ledger.acct)
  BY ForcedIsTyped
<1>2. MoneyIn(x.ledger.acct) \in Nat
  BY <1>1, BalancesAreNat
<1>3. HaircutsOn(x.ledger.acct, m, Users \ {u}) \in Nat
  BY <1>1, HaircutsAreNat
<1>. QED  BY <1>1, <1>2, <1>3 DEF Money, Owed, PoolOf

\* y is x after the leg of the trader u, whose position in m has size n.
LiquidatedIn(x, y, m, u, n) ==
  /\ GoodForced(y)
  /\ y.ledger.list = x.ledger.list /\ y.ledger.index = x.ledger.index
  /\ SizeIn(y.ledger.acct[u], m) = n
  /\ \A k \in Markets \ {m} : SizeIn(y.ledger.acct[u], k) = SizeIn(x.ledger.acct[u], k)
  /\ \A v \in Users \ {u}, k \in Markets :
       SizeIn(y.ledger.acct[v], k) = SizeIn(x.ledger.acct[v], k)
  /\ Money(y) <= Money(x)
  /\ Owed(y, m, u) = Owed(x, m, u)

\* x with b as the account of u, and other sums.
WithLeg(x, u, b, locked, debt, fromCredit, fromCollateral, missing) ==
  [x EXCEPT
     !.ledger.acct[u] = b,
     !.ledger.locked = locked,
     !.ledger.badDebt = @ + debt,
     !.pool.credit = @ + fromCredit,
     !.pool.collateral = @ + fromCollateral,
     !.unpaid = @ + missing]

\* Its fields; paid is what its order book gets.
Recorded(x, y, u, b, debt, paid, missing) ==
  /\ GoodForced(y)
  /\ y.ledger.acct[u] = b
  /\ \A v \in Accounts \ {u} : y.ledger.acct[v] = x.ledger.acct[v]
  /\ y.ledger.list = x.ledger.list /\ y.ledger.index = x.ledger.index
  /\ y.ledger.badDebt = x.ledger.badDebt + debt
  /\ PoolOf(y) = PoolOf(x) + paid
  /\ y.unpaid = x.unpaid + missing

\* That is what it is.
LEMMA WithLegIsTyped ==
  ASSUME NEW x, GoodForced(x), NEW u \in Users, NEW b, GoodAccount(b), NEW locked \in Int,
         NEW debt \in Nat, NEW fromCredit \in Nat, NEW fromCollateral \in Nat,
         NEW missing \in Nat
  PROVE  Recorded(x, WithLeg(x, u, b, locked, debt, fromCredit, fromCollateral, missing),
                  u, b, debt, fromCredit + fromCollateral, missing)
<1>. DEFINE y == WithLeg(x, u, b, locked, debt, fromCredit, fromCollateral, missing)
            accounts == [x.ledger.acct EXCEPT ![u] = b]
            l == [x.ledger EXCEPT !.acct = accounts, !.locked = locked,
                                  !.badDebt = x.ledger.badDebt + debt]
            p == [collateral |-> x.pool.collateral + fromCollateral,
                  credit |-> x.pool.credit + fromCredit]
<1>1. /\ AccountsGood(x.ledger.acct) /\ x.ledger \in ForcedLedgers
      /\ TradersExact(x.ledger.list, x.ledger.index)
      /\ x.ledger.badDebt \in Nat /\ x.unpaid \in Nat
      /\ x.pool \in [collateral : Nat, credit : Nat]
      /\ x.pool.collateral \in Nat /\ x.pool.credit \in Nat
  BY ForcedIsTyped
<1>2. u \in Accounts /\ b \in AccountRecords /\ Exact(b.positions, b.index)
  BY DEF Accounts, GoodAccount
<1>3. /\ accounts \in [Accounts -> AccountRecords] /\ accounts[u] = b
      /\ \A v \in Accounts \ {u} : accounts[v] = x.ledger.acct[v]
  BY <1>1, <1>2 DEF AccountsGood
<1>4. AccountsGood(accounts)
  <2>. HIDE DEF accounts
  <2>. QED  BY <1>1, <1>2, <1>3 DEF AccountsGood, AccountsExact
<1>5. y = [x EXCEPT !.ledger = l, !.pool = p, !.unpaid = x.unpaid + missing]
  <2>1. y = [x EXCEPT
               !.ledger.acct = accounts,
               !.ledger.locked = locked,
               !.ledger.badDebt = @ + debt,
               !.pool.credit = @ + fromCredit,
               !.pool.collateral = @ + fromCollateral,
               !.unpaid = @ + missing]
    BY <1>1, <1>2 DEF WithLeg, GoodForced, ForcedStates, ForcedLedgers, AccountsGood
  <2>. DEFINE y1 == [x EXCEPT !.ledger.acct = accounts, !.ledger.locked = locked,
                              !.ledger.badDebt = @ + debt]
              y2 == [y1 EXCEPT !.pool.credit = @ + fromCredit,
                               !.pool.collateral = @ + fromCollateral]
  <2>2. y = [y2 EXCEPT !.unpaid = @ + missing]
    <3>. HIDE DEF y, accounts
    <3>. QED  BY <2>1
  <2>. HIDE DEF y, accounts
  <2>3. y1 = [x EXCEPT !.ledger = l]
    BY <1>1 DEF GoodForced, ForcedStates, ForcedLedgers
  <2>4. y1.pool = x.pool /\ y1.unpaid = x.unpaid
    OBVIOUS
  <2>. HIDE DEF y1, l
  <2>5. y2 = [y1 EXCEPT !.pool = p]
    <3>. DEFINE q == [x.pool EXCEPT !.credit = x.pool.credit + fromCredit]
                y3 == [y1 EXCEPT !.pool.credit = @ + fromCredit]
    <3>1. y3 = [y1 EXCEPT !.pool = q]
      BY <2>4
    <3>2. y3.pool = q
      BY <2>3, <3>1 DEF GoodForced, ForcedStates
    <3>3. y2 = [y3 EXCEPT !.pool = [q EXCEPT !.collateral = q.collateral + fromCollateral]]
      <4>1. y2 = [y3 EXCEPT !.pool.collateral = @ + fromCollateral]
        OBVIOUS
      <4>. HIDE DEF y2, y3, q
      <4>. QED  BY <3>2, <4>1
    <3>4. [q EXCEPT !.collateral = q.collateral + fromCollateral] = p
      <4>1. q = [collateral |-> x.pool.collateral, credit |-> x.pool.credit + fromCredit]
        BY <1>1
      <4>. HIDE DEF q
      <4>. QED  BY <4>1
    <3>. HIDE DEF y2, y3, q, p
    <3>. QED  BY <3>1, <3>3, <3>4
  <2>6. y2 = [x EXCEPT !.ledger = l, !.pool = p]
    <3>. HIDE DEF y2, p
    <3>. QED  BY <2>3, <2>5
  <2>. HIDE DEF y2, p
  <2>7. y2.unpaid = x.unpaid
    BY <2>6
  <2>. QED  BY <2>2, <2>6, <2>7
<1>. HIDE DEF y, accounts
<1>6. /\ l \in ForcedLedgers /\ l.acct = accounts /\ l.badDebt = x.ledger.badDebt + debt
      /\ l.list = x.ledger.list /\ l.index = x.ledger.index
  <2>1. x.ledger.badDebt + debt \in Nat
    BY <1>1
  <2>. QED  BY <1>1, <1>3, <2>1 DEF ForcedLedgers
<1>7. p \in [collateral : Nat, credit : Nat]
  BY <1>1
<1>. HIDE DEF l, p
<1>8. x.unpaid + missing \in Nat
  BY <1>1
<1>9. /\ y \in ForcedStates /\ y.ledger = l /\ y.pool = p /\ y.unpaid = x.unpaid + missing
  BY <1>5, <1>6, <1>7, <1>8 DEF GoodForced, ForcedStates
<1>10. GoodForced(y)
  BY <1>1, <1>4, <1>6, <1>9 DEF GoodForced
<1>11. PoolOf(y) = PoolOf(x) + (fromCredit + fromCollateral)
  <2>1. /\ y.pool.collateral = x.pool.collateral + fromCollateral
        /\ y.pool.credit = x.pool.credit + fromCredit
    BY <1>9 DEF p
  <2>. QED  BY <1>1, <2>1 DEF PoolOf
<1>12. Recorded(x, y, u, b, debt, fromCredit + fromCollateral, missing)
  BY <1>3, <1>6, <1>9, <1>10, <1>11 DEF Recorded
<1>. QED  BY <1>12 DEF y

\* The leg reduces the position of u, pays no more than it takes, and what it
\* leaves unpaid is put on others.
LEMMA LiquidatingKeeps ==
  ASSUME NEW x, GoodForced(x), NEW m \in Markets, NEW u \in Users,
         SizeIn(x.ledger.acct[u], m) # 0,
         NEW n \in Nat \ {0}, n <= Abs(SizeIn(x.ledger.acct[u], m)),
         NEW price \in Nat, NEW anchor \in Nat, NEW mark \in Nat
  PROVE  LiquidatedIn(x, LiquidationLeg(x, m, u, n, price, anchor, mark), m, u,
                      SizeLeft(SizeIn(x.ledger.acct[u], m), n))
<1>. DEFINE a == x.ledger.acct[u]
            pos == PositionIn(a, m)
            released == IF n = Abs(pos.size) THEN pos.margin
                        ELSE Less(pos.margin, Reduced(pos, n).margin)
            loss == LossAt(pos, n, price)
            seized == Seized(a, pos, n, price)
            penalty == PenaltyPaid(a, pos, n, price)
            fromCredit == Lesser(Less(Lesser(seized, a.credit), Lesser(loss, seized)), penalty)
            allowed == Allowed(pos, n, price, anchor, seized)
            debt == Less(loss, seized) - allowed
            b == Liquidated(a, m, n, price)
            locked == IF released <= x.ledger.locked THEN x.ledger.locked - released
                      ELSE x.ledger.locked
            y == WithLeg(x, u, b, locked, debt, fromCredit, penalty - fromCredit,
                         Less(loss, seized))
            z == LiquidationLeg(x, m, u, n, price, anchor, mark)
<1>1. /\ AccountsGood(x.ledger.acct) /\ x.ledger.locked \in Int
      /\ x.ledger.badDebt \in Nat /\ x.unpaid \in Nat /\ u \in Accounts
  BY ForcedIsTyped DEF Accounts
<1>2. GoodAccount(a)
  BY <1>1, GoodAccountOf
<1>3. pos \in Held /\ a \in AccountRecords /\ a.credit \in Nat /\ SizeIn(a, m) = pos.size
  <2>1. HasPosition(a, m)
    BY <1>2, PositionAtIndex
  <2>2. pos \in Held
    BY <1>2, <2>1, PositionInIsIndexed DEF GoodAccount
  <2>. QED  BY <1>2, <2>1, <2>2 DEF SizeIn, GoodAccount, AccountRecords
<1>4. z = Socialize(y, m, allowed, u, mark)
  BY Zenon DEF LiquidationLeg, WithLeg
<1>5. loss \in Nat /\ seized \in Nat /\ penalty \in Nat /\ penalty <= seized
  BY <1>3, LossIsNat, SeizedIsThere, PenaltyIsSeized
<1>6. allowed \in Nat /\ Less(loss, seized) \in Nat /\ debt \in Nat
  <2>1. /\ allowed \in Nat /\ Less(loss, seized) \in Nat /\ allowed <= Less(loss, seized)
    BY <1>3, <1>5, AllowedIsUncovered
  <2>. HIDE DEF allowed, loss, seized
  <2>. QED  BY <2>1
<1>7. released \in Nat
  <2>1. pos.margin \in Nat /\ Reduced(pos, n).margin \in Nat
    BY <1>3, ReducedIsTyped DEF Held, PositionRecords
  <2>2. Less(pos.margin, Reduced(pos, n).margin) \in Nat
    <3>. DEFINE g == pos.margin
                h == Reduced(pos, n).margin
    <3>1. g \in Int /\ h \in Int
      BY <2>1
    <3>. HIDE DEF g, h
    <3>2. Less(g, h) \in Nat
      BY <3>1, LessIsNat
    <3>. QED  BY <3>2 DEF g, h
  <2>. HIDE DEF pos
  <2>. QED  BY <2>1, <2>2
<1>8. fromCredit \in Nat /\ penalty - fromCredit \in Nat
  <2>. HIDE DEF loss, seized, penalty, a
  <2>1. Lesser(seized, a.credit) \in Nat /\ Lesser(loss, seized) \in Nat
    BY <1>3, <1>5, LesserIsNat
  <2>2. Less(Lesser(seized, a.credit), Lesser(loss, seized)) \in Nat
    BY <2>1, LessIsNat
  <2>3. fromCredit \in Nat /\ fromCredit <= penalty
    BY <1>5, <2>2, LesserIsNat
  <2>. HIDE DEF fromCredit
  <2>. QED  BY <1>5, <2>3
<1>9. locked \in Int
  <2>. HIDE DEF released
  <2>. QED  BY <1>1, <1>7
<1>10. /\ GoodAccount(b) /\ SizeIn(b, m) = SizeLeft(SizeIn(a, m), n)
       /\ \A k \in Markets \ {m} : SizeIn(b, k) = SizeIn(a, k)
       /\ Balance(b) = Balance(a) - seized
  BY <1>2, LiquidatingReduces DEF Replaced
<1>. HIDE DEF loss, seized, penalty, fromCredit, allowed, debt, b, locked, released, pos, z
<1>11. /\ GoodForced(y) /\ y.ledger.acct[u] = b
       /\ \A v \in Accounts \ {u} : y.ledger.acct[v] = x.ledger.acct[v]
       /\ y.ledger.list = x.ledger.list /\ y.ledger.index = x.ledger.index
       /\ y.ledger.badDebt = x.ledger.badDebt + debt
       /\ PoolOf(y) = PoolOf(x) + penalty
       /\ y.unpaid = x.unpaid + Less(loss, seized)
  <2>. DEFINE c == penalty - fromCredit
              missing == Less(loss, seized)
  <2>1. c \in Nat /\ missing \in Nat /\ fromCredit \in Nat
    BY <1>6, <1>8
  <2>2. y = WithLeg(x, u, b, locked, debt, fromCredit, c, missing)
    OBVIOUS
  <2>. HIDE DEF c, missing, y
  <2>3. GoodAccount(b) /\ locked \in Int /\ debt \in Nat
    BY <1>6, <1>9, <1>10
  <2>4. Recorded(x, y, u, b, debt, fromCredit + c, missing)
    BY <2>1, <2>2, <2>3, WithLegIsTyped
  <2>5. fromCredit + c = penalty
    BY <1>5, <1>8 DEF c
  <2>. QED  BY <2>4, <2>5 DEF Recorded, missing
<1>. HIDE DEF y
<1>12. Socialized(y, z, m, u, allowed)
  BY <1>4, <1>6, <1>11, SocializingKeeps
<1>13. /\ GoodForced(z) /\ z.ledger.list = x.ledger.list /\ z.ledger.index = x.ledger.index
       /\ z.pool = y.pool /\ z.unpaid = y.unpaid
       /\ \A v \in Accounts : Balance(z.ledger.acct[v]) = Balance(y.ledger.acct[v])
       /\ \A v \in Users, k \in Markets :
            SizeIn(z.ledger.acct[v], k) = SizeIn(y.ledger.acct[v], k)
       /\ HaircutsOn(z.ledger.acct, m, Users \ {u}) + z.ledger.badDebt =
            HaircutsOn(y.ledger.acct, m, Users \ {u}) + y.ledger.badDebt + allowed
  BY <1>11, <1>12 DEF Socialized
<1>14. /\ SizeIn(z.ledger.acct[u], m) = SizeLeft(SizeIn(a, m), n)
       /\ \A k \in Markets \ {m} : SizeIn(z.ledger.acct[u], k) = SizeIn(a, k)
       /\ \A v \in Users \ {u}, k \in Markets :
            SizeIn(z.ledger.acct[v], k) = SizeIn(x.ledger.acct[v], k)
  BY <1>10, <1>11, <1>13 DEF Accounts
<1>15. Money(z) <= Money(x)
  <2>1. /\ AccountsGood(y.ledger.acct) /\ AccountsGood(z.ledger.acct)
    BY <1>11, <1>13, ForcedIsTyped
  <2>2. \A v \in Accounts \ {u} : Balance(z.ledger.acct[v]) = Balance(x.ledger.acct[v])
    BY <1>11, <1>13
  <2>3. Balance(z.ledger.acct[u]) = Balance(a) - seized
    BY <1>1, <1>10, <1>11, <1>13
  <2>4. /\ Balance(a) \in Nat
        /\ MoneyIn(z.ledger.acct) = MoneyIn(x.ledger.acct) - Balance(a)
                                      + Balance(z.ledger.acct[u])
    BY <1>1, <2>1, <2>2, MoneyMoves
  <2>5. /\ MoneyIn(x.ledger.acct) \in Nat /\ MoneyIn(z.ledger.acct) \in Nat
        /\ PoolOf(x) \in Nat /\ PoolOf(y) \in Nat
    BY <1>11, <1>13, SumsOfForced
  <2>6. PoolOf(z) = PoolOf(x) + penalty
    <3>1. PoolOf(z) = PoolOf(y)
      BY <1>13 DEF PoolOf
    <3>. QED  BY <1>8, <1>5, <1>11, <2>5, <3>1
  <2>. HIDE DEF a
  <2>. QED  BY <1>5, <2>3, <2>4, <2>5, <2>6 DEF Money
<1>16. Owed(z, m, u) = Owed(x, m, u)
  <2>. DEFINE hx == HaircutsOn(x.ledger.acct, m, Users \ {u})
              hy == HaircutsOn(y.ledger.acct, m, Users \ {u})
              hz == HaircutsOn(z.ledger.acct, m, Users \ {u})
  <2>1. hx \in Nat /\ hy \in Nat /\ hz \in Nat
    BY <1>11, <1>13, SumsOfForced
  <2>2. hy = hx
    <3>1. /\ IsFiniteSet(Users \ {u})
          /\ Ints(HaircutOf(x.ledger.acct, m), Users \ {u})
          /\ hx = SumFunctionOnSet(HaircutOf(x.ledger.acct, m), Users \ {u})
          /\ hy = SumFunctionOnSet(HaircutOf(y.ledger.acct, m), Users \ {u})
      BY <1>1, <1>11, ForcedIsTyped, HaircutsAreNat
    <3>2. \A v \in Users \ {u} : HaircutOf(x.ledger.acct, m)[v] = HaircutOf(y.ledger.acct, m)[v]
      BY <1>11 DEF HaircutOf, Accounts
    <3>. HIDE DEF hx, hy
    <3>. QED  BY <3>1, <3>2, SumCongruence
  <2>3. hz + z.ledger.badDebt = hy + y.ledger.badDebt + allowed
    BY <1>13
  <2>4. z.ledger.badDebt \in Nat /\ y.ledger.badDebt = x.ledger.badDebt + debt
        /\ z.unpaid = x.unpaid + Less(loss, seized)
    BY <1>11, <1>13, ForcedIsTyped
  <2>5. debt = Less(loss, seized) - allowed
    BY DEF debt
  <2>. HIDE DEF hx, hy, hz
  <2>6. hz + z.ledger.badDebt - z.unpaid = hx + x.ledger.badDebt - x.unpaid
    <3>. DEFINE missing == Less(loss, seized)
                bx == x.ledger.badDebt
                by == y.ledger.badDebt
                bz == z.ledger.badDebt
                ux == x.unpaid
                uz == z.unpaid
    <3>1. missing \in Nat /\ bx \in Nat /\ ux \in Nat /\ bz \in Nat /\ allowed \in Nat
      BY <1>1, <1>6, <2>4
    <3>2. by = bx + debt /\ uz = ux + missing /\ debt = missing - allowed
          /\ hz + bz = hy + by + allowed
      BY <2>3, <2>4, <2>5
    <3>. HIDE DEF missing, bx, by, bz, ux, uz
    <3>3. hz + bz - uz = hx + bx - ux
      BY <2>1, <2>2, <3>1, <3>2
    <3>. QED  BY <3>3 DEF bz, uz, bx, ux
  <2>. QED  BY <2>6 DEF Owed, hx, hz
<1>. QED  BY <1>13, <1>14, <1>15, <1>16 DEF LiquidatedIn, z

----------------------------------------------------------------------------
(* The leg of a maker. *)

\* Booking a result takes money, or leaves it alone.
LEMMA BookingTakes ==
  ASSUME NEW a \in AccountRecords, NEW realized \in Int
  PROVE  /\ Balance(BookRealized(a, realized)) \in Nat
         /\ Balance(BookRealized(a, realized)) <= Balance(a)
<1>. DEFINE loss == IF realized < 0 THEN -ToMoney(realized) ELSE 0
            uncovered == UncoveredLoss(a, loss)
            paid == PayFromFunds(a, loss - uncovered)
            b == BookRealized(a, realized)
<1>1. b = [paid EXCEPT !.pnl = @ + realized]
  BY DEF BookRealized
<1>2. /\ a.credit \in Nat /\ a.collateral \in Nat /\ Balance(a) = a.collateral + a.credit
  BY DEF AccountRecords, Balance
<1>3. loss \in Nat
  BY MoneyIsInt
<1>. HIDE DEF loss
<1>4. loss - uncovered \in Nat /\ loss - uncovered <= a.credit + a.collateral
  BY <1>2, <1>3 DEF UncoveredLoss, Less
<1>. HIDE DEF uncovered
<1>5. Balance(paid) = Balance(a) - (loss - uncovered) /\ paid \in AccountRecords
  BY <1>4, PayingTakes, Paying
<1>. HIDE DEF paid, b
<1>6. Balance(b) = Balance(paid)
  BY <1>1, <1>5 DEF AccountRecords, Balance
<1>. QED  BY <1>2, <1>4, <1>5, <1>6 DEF b

\* Nothing is realised by a trade that does not close anything.
LEMMA OpeningRealizesNothing ==
  ASSUME NEW a, GoodAccount(a), NEW m \in Markets, NEW delta \in Int \ {0}, NEW price \in Nat,
         NEW margin \in Nat, ~Closes(SizeIn(a, m), delta)
  PROVE  Netting(a.positions, a.index, m, delta, price, margin).realized = 0
<1>. DEFINE i == Slot(a.positions, a.index, m)
            pos == a.positions[i]
            n == Netting(a.positions, a.index, m, delta, price, margin)
<1>1. a.positions \in Seq(Held) /\ a.index \in [Markets -> Nat] /\ Exact(a.positions, a.index)
  BY DEF GoodAccount, AccountRecords
<1>2. i = a.index[m]
  BY <1>1, SlotIsIndexed
<1>3. CASE i = 0
  BY <1>3 DEF Netting
<1>4. CASE i # 0
  <2>1. SizeIn(a, m) = pos.size
    BY <1>2, <1>4, PositionAtIndex
  <2>2. RealizedPnL(pos, delta, price) = 0
    BY <2>1 DEF RealizedPnL
  <2>3. n.realized = RealizedPnL(pos, delta, price)
    <3>. HIDE DEF i
    <3>1. CASE pos.size + delta = 0
      BY <1>4, <3>1 DEF Netting, i
    <3>2. CASE pos.size + delta # 0
      BY <1>4, <3>2 DEF Netting, i
    <3>. QED  BY <3>1, <3>2
  <2>. QED  BY <2>2, <2>3
<1>. QED  BY <1>3, <1>4

\* Sizes and haircuts are those of the positions.
LEMMA SizesAreOfPositions ==
  ASSUME NEW a, NEW b, a.positions = b.positions
  PROVE  \A k \in Markets : SizeIn(a, k) = SizeIn(b, k) /\ HaircutIn(a, k) = HaircutIn(b, k)
BY DEF SizeIn, HaircutIn, HasPosition, PositionIn

\* after is the ledger with delta traded in m by u: nobody else's positions
\* move, without a fee nobody gets money, and a trade that closes nothing leaves
\* no bad debt.
LegTraded(ledger, after, m, u, delta, fee) ==
  /\ Traded(ledger.acct[u], after.acct[u], m, delta)
  /\ \A v \in Accounts \ {u} :
       /\ after.acct[v].positions = ledger.acct[v].positions
       /\ fee = 0 => Balance(after.acct[v]) = Balance(ledger.acct[v])
  /\ fee = 0 => Balance(after.acct[u]) <= Balance(ledger.acct[u])
  /\ ~Closes(SizeIn(ledger.acct[u], m), delta) => after.badDebt = ledger.badDebt

\* Leg does that.
LEMMA LegTrades ==
  ASSUME NEW ledger, GoodLedger(ledger), NEW m \in Markets, NEW u \in Users,
         NEW delta \in Int \ {0}, NEW price \in Nat, NEW fee \in Nat
  PROVE  LegTraded(ledger, Leg(ledger, m, u, delta, price, fee), m, u, delta, fee)
<1>. DEFINE accounts == DeductFees(ledger.acct, u, fee)
            a == accounts[u]
            pos == PositionOf(a, m)
            margin == RequiredMargin(pos.size, pos.entry, delta, price)
            n == NettingOf(a, pos, m, delta, price)
            b == AfterLeg(a, n)
            after == Leg(ledger, m, u, delta, price, fee)
<1>1. /\ ledger.acct \in [Accounts -> AccountRecords] /\ ledger.badDebt \in Nat
      /\ AccountsExact(ledger.acct) /\ u \in Accounts
  BY DEF GoodLedger, LedgerRecords, Accounts
<1>2. /\ accounts \in [Accounts -> AccountRecords]
      /\ \A v \in Accounts : /\ accounts[v].positions = ledger.acct[v].positions
                             /\ accounts[v].index = ledger.acct[v].index
      /\ fee = 0 => accounts = ledger.acct
  <2>1. fee = 0 => accounts = ledger.acct
    BY DEF DeductFees
  <2>2. /\ accounts \in [Accounts -> AccountRecords]
        /\ \A v \in Accounts : /\ accounts[v].positions = ledger.acct[v].positions
                               /\ accounts[v].index = ledger.acct[v].index
    BY <1>1, FeesKeepBooks DEF Books
  <2>. QED  BY <2>1, <2>2
<1>3. GoodAccount(a) /\ a.positions = ledger.acct[u].positions
  BY <1>1, <1>2 DEF GoodAccount, AccountsExact
<1>4. margin \in Nat
  BY <1>3, PositionOfIsTyped, RequiredMarginIsNat DEF GoodAccount
<1>5. n = Netting(a.positions, a.index, m, delta, price, margin)
  BY DEF NettingOf
<1>6. /\ after.acct = [accounts EXCEPT ![u] = b]
      /\ after.badDebt = ledger.badDebt + LegBadDebt(a, n)
  BY DEF Leg
<1>. HIDE DEF accounts, a, pos, margin, n, after, b
<1>7. LegGood(a, n)
  <2>1. /\ a.positions \in Seq(Held) /\ a.index \in [Markets -> Nat]
        /\ Exact(a.positions, a.index) /\ a \in AccountRecords
    BY <1>3 DEF GoodAccount, AccountRecords
  <2>2. /\ n.positions \in Seq(Held) /\ n.index \in [Markets -> Nat]
        /\ n.realized \in Int /\ n.confiscated \in Nat
        /\ n.oldMargin \in Nat /\ n.newMargin \in Nat
    BY <1>4, <1>5, <2>1, NettingKeeps
  <2>. QED  BY <2>1, <2>2 DEF LegGood
<1>8. b \in AccountRecords /\ b.positions = n.positions /\ b.index = n.index
  BY <1>7, LegAccount DEF b
<1>9. Traded(a, b, m, delta)
  BY <1>3, <1>4, <1>5, <1>8, NettingTrades
<1>10. after.acct[u] = b /\ \A v \in Accounts \ {u} : after.acct[v] = accounts[v]
  BY <1>1, <1>2, <1>6
<1>11. \A k \in Markets : SizeIn(a, k) = SizeIn(ledger.acct[u], k)
                          /\ HaircutIn(a, k) = HaircutIn(ledger.acct[u], k)
  BY <1>3, SizesAreOfPositions
<1>12. Traded(ledger.acct[u], after.acct[u], m, delta)
  BY <1>9, <1>10, <1>11 DEF Traded, Replaced
<1>13. Balance(b) <= Balance(a)
  <2>1. NetRealized(n) \in Int /\ a \in AccountRecords
    BY <1>7, NetRealizedIsInt DEF LegGood
  <2>. DEFINE c == BookRealized(a, NetRealized(n))
  <2>2. Balance(c) <= Balance(a) /\ c \in AccountRecords
    BY <2>1, BookingTakes, BookingKeepsBooks
  <2>3. b = [c EXCEPT
               !.positions = n.positions, !.index = n.index,
               !.locked = LockMargin(a.locked, n),
               !.socialized = Less(@, n.confiscated)]
    BY DEF AfterLeg, b
  <2>. HIDE DEF c
  <2>4. Balance(b) = Balance(c)
    BY <2>2, <2>3 DEF AccountRecords, Balance
  <2>. QED  BY <2>2, <2>4
<1>14. ASSUME fee = 0
       PROVE  /\ Balance(after.acct[u]) <= Balance(ledger.acct[u])
              /\ \A v \in Accounts \ {u} : Balance(after.acct[v]) = Balance(ledger.acct[v])
  BY <1>1, <1>2, <1>10, <1>13, <1>14 DEF a
<1>15. ASSUME ~Closes(SizeIn(ledger.acct[u], m), delta)
       PROVE  after.badDebt = ledger.badDebt
  <2>1. n.realized = 0
    BY <1>3, <1>4, <1>5, <1>11, <1>15, OpeningRealizesNothing
  <2>2. LegBadDebt(a, n) = 0
    BY <2>1 DEF LegBadDebt
  <2>. QED  BY <1>1, <1>6, <2>2
<1>. QED  BY <1>2, <1>10, <1>12, <1>14, <1>15 DEF LegTraded, after

\* y is x after v has taken over delta in m, or x itself.
TakenIn(x, y, m, v, delta) ==
  /\ GoodForced(y)
  /\ HoldersListed(x.ledger.acct, x.ledger.index, m)
       => HoldersListed(y.ledger.acct, y.ledger.index, m)
  /\ \A w \in Users, k \in Markets :
       w # v \/ k # m => SizeIn(y.ledger.acct[w], k) = SizeIn(x.ledger.acct[w], k)
  /\ SizeIn(y.ledger.acct[v], m) \in
       {SizeIn(x.ledger.acct[v], m), SizeIn(x.ledger.acct[v], m) + delta}
  /\ FeeBps = 0 => Money(y) <= Money(x)
  /\ \/ \A u : Owed(y, m, u) = Owed(x, m, u)
     \/ /\ Closes(SizeIn(x.ledger.acct[v], m), delta)
        /\ SizeIn(y.ledger.acct[v], m) = SizeIn(x.ledger.acct[v], m) + delta

\* A maker's leg does that.
LEMMA TakingOverKeeps ==
  ASSUME NEW x, GoodForced(x), NEW m \in Markets, NEW v \in Users, NEW side \in {1, -1},
         NEW fill \in FillRecords
  PROVE  TakenIn(x, TakenOver(x, m, v, side, fill), m, v, side * fill.size)
<1>. DEFINE delta == side * fill.size
            fee == FeeOf(fill)
            l == Leg(x.ledger, m, v, delta, fill.price, fee)
            y == TakenOver(x, m, v, side, fill)
<1>1. /\ AccountsGood(x.ledger.acct) /\ x.ledger \in ForcedLedgers
      /\ x.ledger.locked \in Int /\ x.ledger.badDebt \in Nat
      /\ x.ledger.acct \in [Accounts -> AccountRecords]
      /\ v \in Accounts
  BY ForcedIsTyped DEF Accounts, AccountsGood
<1>2. CASE x.ledger.locked < 0
  <2>1. y = x
    BY <1>2 DEF TakenOver, GoodForced, ForcedStates
  <2>2. Money(x) \in Nat
    BY SumsOfForced
  <2>. QED  BY <2>1, <2>2 DEF TakenIn
<1>3. CASE ~(x.ledger.locked < 0)
  <2>1. /\ delta \in Int \ {0} /\ fill.price \in Nat /\ fill.size \in Nat
    BY DEF FillRecords
  <2>2. fee \in Nat /\ (FeeBps = 0 => fee = 0)
    <3>1. fee \in Nat /\ Notional(fill.size, fill.price) \in Nat
      BY FeeIsNat
    <3>. QED  BY <3>1 DEF FeeOf, Bps
  <2>3. GoodLedger(x.ledger)
    BY <1>1, <1>3 DEF GoodLedger, LedgerRecords, ForcedLedgers, GoodForced, AccountsGood
  <2>4. y = [x EXCEPT !.ledger = l]
    BY <1>3 DEF TakenOver
  <2>. HIDE DEF fee, delta
  <2>5. LegTraded(x.ledger, l, m, v, delta, fee)
    BY <2>1, <2>2, <2>3, LegTrades
  <2>6. /\ l.acct \in [Accounts -> AccountRecords] /\ AccountsExact(l.acct)
        /\ l.list \in Seq(Users) /\ l.index \in [Users -> Nat]
        /\ TradersExact(l.list, l.index)
        /\ l.locked \in Int /\ l.badDebt \in Nat /\ l.ok \in BOOLEAN
        /\ HoldersListed(x.ledger.acct, x.ledger.index, m) => HoldersListed(l.acct, l.index, m)
    BY <2>1, <2>2, <2>3, LegKeeps
  <2>7. l = [acct |-> l.acct, list |-> l.list, index |-> l.index, locked |-> l.locked,
             badDebt |-> l.badDebt, ok |-> l.ok]
    BY DEF Leg
  <2>. HIDE DEF l, y
  <2>8. l \in ForcedLedgers
    BY <2>6, <2>7 DEF ForcedLedgers
  <2>9. y \in ForcedStates /\ y.ledger = l /\ y.pool = x.pool /\ y.unpaid = x.unpaid
    BY <2>4, <2>8 DEF GoodForced, ForcedStates
  <2>10. GoodForced(y)
    BY <2>6, <2>9 DEF GoodForced, AccountsGood
  <2>11. /\ Traded(x.ledger.acct[v], l.acct[v], m, delta)
         /\ \A w \in Accounts \ {v} :
              /\ l.acct[w].positions = x.ledger.acct[w].positions
              /\ fee = 0 => Balance(l.acct[w]) = Balance(x.ledger.acct[w])
         /\ fee = 0 => Balance(l.acct[v]) <= Balance(x.ledger.acct[v])
         /\ ~Closes(SizeIn(x.ledger.acct[v], m), delta) => l.badDebt = x.ledger.badDebt
    BY <2>5, Zenon DEF LegTraded
  <2>12. PICK h \in Nat :
           /\ Replaced(x.ledger.acct[v], l.acct[v], m, SizeIn(x.ledger.acct[v], m) + delta, h)
           /\ ~Closes(SizeIn(x.ledger.acct[v], m), delta) => h = HaircutIn(x.ledger.acct[v], m)
    BY <2>11 DEF Traded
  <2>13. \A w \in Users \ {v}, k \in Markets :
           /\ SizeIn(l.acct[w], k) = SizeIn(x.ledger.acct[w], k)
           /\ HaircutIn(l.acct[w], k) = HaircutIn(x.ledger.acct[w], k)
    <3>1. \A w \in Users \ {v} : l.acct[w].positions = x.ledger.acct[w].positions
      BY <2>11 DEF Accounts
    <3>. QED  BY <3>1, SizesAreOfPositions
  <2>14. /\ SizeIn(l.acct[v], m) = SizeIn(x.ledger.acct[v], m) + delta
         /\ HaircutIn(l.acct[v], m) = h
         /\ \A k \in Markets \ {m} : SizeIn(l.acct[v], k) = SizeIn(x.ledger.acct[v], k)
    BY <2>12 DEF Replaced
  <2>15. \A w \in Users, k \in Markets :
           w # v \/ k # m => SizeIn(y.ledger.acct[w], k) = SizeIn(x.ledger.acct[w], k)
    BY <2>9, <2>13, <2>14
  <2>16. ASSUME FeeBps = 0 PROVE Money(y) <= Money(x)
    <3>1. AccountsGood(l.acct) /\ fee = 0
      BY <2>2, <2>6, <2>16 DEF AccountsGood
    <3>2. /\ Balance(x.ledger.acct[v]) \in Nat /\ Balance(l.acct[v]) \in Nat
          /\ MoneyIn(l.acct) = MoneyIn(x.ledger.acct) - Balance(x.ledger.acct[v])
                                 + Balance(l.acct[v])
      <4>1. \A w \in Accounts \ {v} : Balance(l.acct[w]) = Balance(x.ledger.acct[w])
        BY <2>11, <3>1
      <4>. QED  BY <1>1, <3>1, <4>1, MoneyMoves
    <3>3. Balance(l.acct[v]) <= Balance(x.ledger.acct[v])
      BY <2>11, <3>1
    <3>4. MoneyIn(x.ledger.acct) \in Nat /\ PoolOf(x) \in Nat /\ PoolOf(y) = PoolOf(x)
      BY <2>9, SumsOfForced DEF PoolOf
    <3>5. Money(y) = MoneyIn(l.acct) + PoolOf(x)
      BY <2>9, <3>4 DEF Money
    <3>. QED  BY <3>2, <3>3, <3>4, <3>5 DEF Money
  <2>17. ASSUME ~Closes(SizeIn(x.ledger.acct[v], m), delta), NEW u
         PROVE  Owed(y, m, u) = Owed(x, m, u)
    <3>1. \A w \in Users : HaircutIn(l.acct[w], m) = HaircutIn(x.ledger.acct[w], m)
      BY <2>12, <2>13, <2>14, <2>17
    <3>2. HaircutOf(l.acct, m) = HaircutOf(x.ledger.acct, m)
      BY <3>1 DEF HaircutOf
    <3>3. HaircutsOn(l.acct, m, Users \ {u}) = HaircutsOn(x.ledger.acct, m, Users \ {u})
      BY <3>2 DEF HaircutsOn, HaircutOf
    <3>4. l.badDebt = x.ledger.badDebt
      BY <2>11, <2>17
    <3>. QED  BY <2>9, <3>3, <3>4 DEF Owed
  <2>18. SizeIn(y.ledger.acct[v], m) = SizeIn(x.ledger.acct[v], m) + delta
    BY <2>9, <2>14
  <2>19. \/ \A u : Owed(y, m, u) = Owed(x, m, u)
         \/ Closes(SizeIn(x.ledger.acct[v], m), delta)
    BY <2>17
  <2>. QED  BY <2>6, <2>9, <2>10, <2>15, <2>16, <2>18, <2>19 DEF TakenIn, delta, y
<1>. QED  BY <1>2, <1>3

----------------------------------------------------------------------------
(* Rewards. *)

\* y is x with the amount paid from the pool to traders.
Rewarded(x, y, amount) ==
  /\ GoodForced(y)
  /\ y.ledger.list = x.ledger.list /\ y.ledger.index = x.ledger.index
  /\ y.ledger.badDebt = x.ledger.badDebt /\ y.unpaid = x.unpaid
  /\ \A v \in Accounts : /\ y.ledger.acct[v].positions = x.ledger.acct[v].positions
                         /\ y.ledger.acct[v].index = x.ledger.acct[v].index
  /\ PoolOf(y) = PoolOf(x) - amount
  /\ Money(y) = Money(x)

\* Payments add up.
LEMMA RewardsAddUp ==
  ASSUME NEW x, GoodForced(x), NEW y, NEW z, NEW s \in Nat, NEW t \in Nat,
         Rewarded(x, y, s), Rewarded(y, z, t)
  PROVE  Rewarded(x, z, s + t)
<1>1. PoolOf(x) \in Nat
  BY ForcedIsTyped DEF PoolOf
<1>2. PoolOf(z) = PoolOf(x) - (s + t)
  BY <1>1 DEF Rewarded
<1>3. \A v \in Accounts : /\ z.ledger.acct[v].positions = x.ledger.acct[v].positions
                          /\ z.ledger.acct[v].index = x.ledger.acct[v].index
  BY DEF Rewarded
<1>4. /\ GoodForced(z) /\ Money(z) = Money(x)
      /\ z.ledger.list = x.ledger.list /\ z.ledger.index = x.ledger.index
      /\ z.ledger.badDebt = x.ledger.badDebt /\ z.unpaid = x.unpaid
  BY DEF Rewarded
<1>. QED  BY <1>2, <1>3, <1>4 DEF Rewarded

\* Paying a maker no more than the pool has.
LEMMA PayingMaker ==
  ASSUME NEW x, GoodForced(x), NEW v \in Users, NEW amount \in Nat, amount <= PoolOf(x)
  PROVE  Rewarded(x, PayMaker(x, v, amount), amount)
<1>. DEFINE c == Lesser(amount, x.pool.credit)
            a == x.ledger.acct[v]
            b == [a EXCEPT !.credit = a.credit + c, !.collateral = a.collateral + (amount - c)]
            accounts == [x.ledger.acct EXCEPT ![v] = b]
            l == [x.ledger EXCEPT !.acct = accounts]
            p == [collateral |-> x.pool.collateral - (amount - c), credit |-> x.pool.credit - c]
            y == PayMaker(x, v, amount)
<1>1. /\ AccountsGood(x.ledger.acct) /\ x.ledger \in ForcedLedgers
      /\ TradersExact(x.ledger.list, x.ledger.index)
      /\ x.pool \in [collateral : Nat, credit : Nat]
      /\ x.pool.collateral \in Nat /\ x.pool.credit \in Nat
      /\ v \in Accounts
  BY ForcedIsTyped DEF Accounts
<1>2. c \in Nat /\ c <= amount /\ c <= x.pool.credit /\ amount - c <= x.pool.collateral
  <2>1. c \in Nat /\ c <= amount /\ c <= x.pool.credit
    BY <1>1, LesserIsNat
  <2>2. amount <= x.pool.collateral + x.pool.credit
    BY DEF PoolOf
  <2>. QED  BY <1>1, <2>1, <2>2 DEF Lesser
<1>3. /\ a \in AccountRecords /\ a.credit \in Nat /\ a.collateral \in Nat
      /\ Exact(a.positions, a.index)
  BY <1>1 DEF AccountsGood, AccountsExact, AccountRecords
<1>4. y = [x EXCEPT !.ledger = l, !.pool = p]
  <2>1. y = [x EXCEPT !.pool.credit = @ - c,
                      !.pool.collateral = @ - (amount - c),
                      !.ledger.acct[v].credit = @ + c,
                      !.ledger.acct[v].collateral = @ + (amount - c)]
    BY DEF PayMaker
  <2>. DEFINE y1 == [x EXCEPT !.pool.credit = x.pool.credit - c]
              y2 == [y1 EXCEPT !.pool.collateral = x.pool.collateral - (amount - c)]
              y3 == [y2 EXCEPT !.ledger.acct[v].credit = a.credit + c]
              q == [x.pool EXCEPT !.credit = x.pool.credit - c]
              b3 == [a EXCEPT !.credit = a.credit + c]
              accounts3 == [x.ledger.acct EXCEPT ![v] = b3]
              l3 == [x.ledger EXCEPT !.acct = accounts3]
  <2>2. y = [y3 EXCEPT !.ledger.acct[v].collateral = a.collateral + (amount - c)]
    <3>. HIDE DEF c, y
    <3>. QED  BY <2>1
  <2>. HIDE DEF c, y
  <2>3. y1 = [x EXCEPT !.pool = q] /\ y1.pool = q
    BY DEF GoodForced, ForcedStates
  <2>. HIDE DEF y1
  <2>4. [q EXCEPT !.collateral = x.pool.collateral - (amount - c)] = p
    <3>1. q = [collateral |-> x.pool.collateral, credit |-> x.pool.credit - c]
      BY <1>1
    <3>. HIDE DEF q
    <3>. QED  BY <3>1
  <2>5. y2 = [y1 EXCEPT !.pool = p]
    <3>. HIDE DEF q, p
    <3>. QED  BY <2>3, <2>4
  <2>. HIDE DEF y2
  <2>6. y2 = [x EXCEPT !.pool = p] /\ y2.ledger = x.ledger
    <3>. HIDE DEF q, p
    <3>1. y2 = [x EXCEPT !.pool = p]
      BY <2>3, <2>5
    <3>. QED  BY <3>1
  <2>7. y3 = [y2 EXCEPT !.ledger = l3]
    <3>. HIDE DEF p
    <3>. QED  BY <1>1, <2>6 DEF ForcedLedgers, AccountsGood
  <2>8. y3 = [x EXCEPT !.ledger = l3, !.pool = p] /\ y3.ledger = l3
    <3>. HIDE DEF p, l3, y3
    <3>1. y3 = [x EXCEPT !.ledger = l3, !.pool = p]
      BY <2>6, <2>7
    <3>. QED  BY <3>1 DEF GoodForced, ForcedStates
  <2>. HIDE DEF y3
  <2>9. l3.acct = accounts3 /\ accounts3[v] = b3 /\ b3.collateral = a.collateral
    BY <1>1, <1>3 DEF ForcedLedgers, AccountsGood, AccountRecords
  <2>10. y = [y3 EXCEPT !.ledger = [l3 EXCEPT !.acct = [accounts3 EXCEPT ![v] =
                [b3 EXCEPT !.collateral = a.collateral + (amount - c)]]]]
    <3>. HIDE DEF p, l3, accounts3, b3, a
    <3>. QED  BY <2>2, <2>8, <2>9
  <2>11. [b3 EXCEPT !.collateral = a.collateral + (amount - c)] = b
    <3>. HIDE DEF a
    <3>. QED  OBVIOUS
  <2>12. [accounts3 EXCEPT ![v] = b] = accounts
    <3>. HIDE DEF b, b3
    <3>. QED  OBVIOUS
  <2>13. [l3 EXCEPT !.acct = accounts] = l
    <3>. HIDE DEF accounts, accounts3
    <3>. QED  OBVIOUS
  <2>. HIDE DEF l, l3, accounts, accounts3, b, b3, p
  <2>. QED  BY <2>8, <2>10, <2>11, <2>12, <2>13
<1>. HIDE DEF y, c
<1>5. b \in AccountRecords /\ b.positions = a.positions /\ b.index = a.index
      /\ b.credit = a.credit + c /\ b.collateral = a.collateral + (amount - c)
  <2>1. a.credit + c \in Nat /\ a.collateral + (amount - c) \in Nat
    BY <1>2, <1>3
  <2>. HIDE DEF a
  <2>. QED  BY <1>3, <2>1 DEF AccountRecords
<1>. HIDE DEF b
<1>6. /\ accounts \in [Accounts -> AccountRecords] /\ accounts[v] = b
      /\ \A w \in Accounts \ {v} : accounts[w] = x.ledger.acct[w]
  BY <1>1, <1>5 DEF AccountsGood
<1>. HIDE DEF accounts
<1>7. /\ AccountsGood(accounts)
      /\ \A w \in Accounts : /\ accounts[w].positions = x.ledger.acct[w].positions
                             /\ accounts[w].index = x.ledger.acct[w].index
  BY <1>1, <1>5, <1>6 DEF AccountsGood, AccountsExact
<1>8. /\ l \in ForcedLedgers /\ l.acct = accounts /\ l.list = x.ledger.list
      /\ l.index = x.ledger.index /\ l.badDebt = x.ledger.badDebt
  BY <1>1, <1>6 DEF ForcedLedgers
<1>9. p \in [collateral : Nat, credit : Nat] /\ p.collateral + p.credit = PoolOf(x) - amount
  BY <1>1, <1>2 DEF PoolOf
<1>. HIDE DEF l, p
<1>10. y \in ForcedStates /\ y.ledger = l /\ y.pool = p /\ y.unpaid = x.unpaid
  BY <1>4, <1>8, <1>9 DEF GoodForced, ForcedStates
<1>11. GoodForced(y)
  BY <1>1, <1>7, <1>8, <1>10 DEF GoodForced
<1>12. PoolOf(y) = PoolOf(x) - amount
  BY <1>9, <1>10 DEF PoolOf
<1>13. Money(y) = Money(x)
  <2>1. \A w \in Accounts \ {v} : Balance(accounts[w]) = Balance(x.ledger.acct[w])
    BY <1>6
  <2>2. /\ Balance(a) \in Nat
        /\ MoneyIn(accounts) = MoneyIn(x.ledger.acct) - Balance(a) + Balance(accounts[v])
    BY <1>1, <1>7, <2>1, MoneyMoves
  <2>3. Balance(accounts[v]) = Balance(a) + amount
    BY <1>2, <1>3, <1>5, <1>6 DEF Balance
  <2>4. MoneyIn(x.ledger.acct) \in Nat /\ PoolOf(x) \in Nat
    BY <1>1, BalancesAreNat DEF PoolOf
  <2>5. Money(y) = MoneyIn(accounts) + PoolOf(y)
    BY <1>8, <1>10 DEF Money
  <2>. HIDE DEF a
  <2>. QED  BY <1>12, <2>2, <2>3, <2>4, <2>5 DEF Money
<1>. QED  BY <1>7, <1>8, <1>10, <1>11, <1>12, <1>13 DEF Rewarded, y

\* Fills of a liquidation, and their makers.
Matched(fills, makers) ==
  /\ fills \in Seq(FillRecords) \ {<<>>}
  /\ makers \in [DOMAIN fills -> Users]

\* The sizes, fill by fill, are positive, and so is their sum.
LEMMA SizesAreNat ==
  ASSUME NEW fills, NEW makers, Matched(fills, makers)
  PROVE  /\ Len(fills) \in Nat \ {0} /\ DOMAIN fills = 1 .. Len(fills)
         /\ IsFiniteSet(DOMAIN fills)
         /\ SizesOf(fills) \in [DOMAIN fills -> Nat \ {0}]
         /\ Ints(SizesOf(fills), DOMAIN fills)
         /\ SumFunction(SizesOf(fills)) = SumFunctionOnSet(SizesOf(fills), DOMAIN fills)
         /\ SumFunction(SizesOf(fills)) \in Nat \ {0}
<1>1. /\ Len(fills) \in Nat \ {0} /\ DOMAIN fills = 1 .. Len(fills)
      /\ \A i \in DOMAIN fills : fills[i] \in FillRecords
  BY DEF Matched
<1>2. IsFiniteSet(DOMAIN fills)
  BY <1>1, FS_Interval
<1>3. SizesOf(fills) \in [DOMAIN fills -> Nat \ {0}]
  BY <1>1 DEF SizesOf, FillRecords
<1>4. /\ \A i \in DOMAIN fills : SizesOf(fills)[i] \in Nat
      /\ DOMAIN SizesOf(fills) = DOMAIN fills
      /\ 1 \in DOMAIN fills /\ SizesOf(fills)[1] > 0
  BY <1>1, <1>3
<1>5. SumFunction(SizesOf(fills)) = SumFunctionOnSet(SizesOf(fills), DOMAIN fills)
  BY <1>4 DEF SumFunction
<1>6. SumFunctionOnSet(SizesOf(fills), DOMAIN fills) \in Nat
  BY <1>2, <1>4, SumIsNat
<1>7. SizesOf(fills)[1] <= SumFunctionOnSet(SizesOf(fills), DOMAIN fills)
  BY <1>2, <1>4, SumCoversElement
<1>8. SumFunctionOnSet(SizesOf(fills), DOMAIN fills) # 0
  BY <1>4, <1>6, <1>7
<1>. QED  BY <1>1, <1>2, <1>3, <1>4, <1>5, <1>6, <1>8 DEF Ints

\* The fills of the makers in V.
FillsOf(V, makers, fills) == {i \in DOMAIN fills : makers[i] \in V}

\* What each maker gave.
GivenBy(makers, fills) ==
  [v \in Users |-> SumFunctionOnSet(SizesOf(fills), {i \in DOMAIN fills : makers[i] = v})]

\* What some makers gave is the size of their fills.
LEMMA GivenByMakers ==
  ASSUME NEW fills, NEW makers, Matched(fills, makers), NEW V \in SUBSET Users
  PROVE  /\ GivenBy(makers, fills) \in [Users -> Nat]
         /\ SumFunctionOnSet(GivenBy(makers, fills), V) =
              SumFunctionOnSet(SizesOf(fills), FillsOf(V, makers, fills))
<1>. DEFINE given == GivenBy(makers, fills)
            sizes == SizesOf(fills)
            Total(U) == SumFunctionOnSet(sizes, FillsOf(U, makers, fills))
            T == {U \in SUBSET V : SumFunctionOnSet(given, U) = Total(U)}
<1>1. /\ IsFiniteSet(DOMAIN fills) /\ Ints(sizes, DOMAIN fills)
      /\ \A i \in DOMAIN fills : sizes[i] \in Nat
  BY SizesAreNat
<1>2. \A I \in SUBSET DOMAIN fills : IsFiniteSet(I) /\ Ints(sizes, I)
                                    /\ SumFunctionOnSet(sizes, I) \in Nat
  <2>. HIDE DEF sizes
  <2>1. \A I \in SUBSET DOMAIN fills : IsFiniteSet(I)
    BY <1>1, FS_Subset
  <2>. QED  BY <1>1, <2>1, SumIsNat DEF Ints
<1>3. /\ given \in [Users -> Nat]
      /\ \A v \in Users : given[v] = Total({v})
  <2>1. \A v \in Users : {i \in DOMAIN fills : makers[i] = v} \in SUBSET DOMAIN fills
    OBVIOUS
  <2>2. \A v \in Users : {i \in DOMAIN fills : makers[i] = v} = FillsOf({v}, makers, fills)
    BY DEF FillsOf
  <2>. HIDE DEF sizes
  <2>. QED  BY <1>2, <2>1, <2>2 DEF GivenBy, sizes
<1>. HIDE DEF given, sizes
<1>4. IsFiniteSet(V) /\ Ints(given, V)
  BY <1>3, VaultAssumption, FS_Subset DEF Ints
<1>5. {} \in T
  <2>1. FillsOf({}, makers, fills) = {}
    BY DEF FillsOf
  <2>. QED  BY <2>1, SumOfNothing
<1>6. ASSUME NEW U \in SUBSET V, NEW v \in V, U \in T, v \notin U
      PROVE  U \cup {v} \in T
  <2>1. SumFunctionOnSet(given, U \cup {v}) = given[v] + SumFunctionOnSet(given, U)
    BY <1>4, <1>6, SumWith
  <2>. DEFINE A == FillsOf(U, makers, fills)
              B == FillsOf({v}, makers, fills)
  <2>2. /\ FillsOf(U \cup {v}, makers, fills) = A \cup B /\ A \cap B = {}
        /\ A \cup B \in SUBSET DOMAIN fills /\ A \in SUBSET DOMAIN fills
        /\ B \in SUBSET DOMAIN fills
    BY <1>6 DEF FillsOf
  <2>. HIDE DEF A, B
  <2>3. IsFiniteSet(A \cup B) /\ Ints(sizes, A \cup B)
    BY <1>2, <2>2
  <2>4. SumFunctionOnSet(sizes, A \cup B) =
          SumFunctionOnSet(sizes, A) + SumFunctionOnSet(sizes, B)
    BY <2>2, <2>3, SumUnion
  <2>5. Total(U \cup {v}) = Total(U) + Total({v})
    BY <2>2, <2>4 DEF A, B
  <2>6. Total(U) \in Nat /\ Total({v}) \in Nat
    BY <1>2, <2>2 DEF A, B
  <2>. HIDE DEF Total
  <2>. QED  BY <1>3, <1>6, <2>1, <2>5, <2>6
<1>7. V \in T
  <2>. HIDE DEF T
  <2>. QED  BY <1>4, <1>5, <1>6, SubsetInduction DEF Grows
<1>. QED  BY <1>3, <1>7 DEF given, sizes

\* The rewards of the makers, as they are rounded down.
SharesOf(amount, makers, fills) == [v \in Users |-> ShareOf(v, amount, makers, fills)]

\* Those of some makers add up to no more than there is to hand out.
LEMMA SharesAreCovered ==
  ASSUME NEW fills, NEW makers, Matched(fills, makers), NEW V \in SUBSET Users,
         NEW amount \in Nat
  PROVE  /\ SharesOf(amount, makers, fills) \in [Users -> Nat]
         /\ IsFiniteSet(V) /\ Ints(SharesOf(amount, makers, fills), V)
         /\ SumFunctionOnSet(SharesOf(amount, makers, fills), V) \in Nat
         /\ SumFunctionOnSet(SharesOf(amount, makers, fills), V) <= amount
<1>. DEFINE given == GivenBy(makers, fills)
            shares == SharesOf(amount, makers, fills)
            all == SumFunction(SizesOf(fills))
<1>1. /\ all \in Nat \ {0} /\ given \in [Users -> Nat] /\ IsFiniteSet(V)
      /\ \A v \in Users : given[v] \in Nat
  <2>1. given \in [Users -> Nat] /\ all \in Nat \ {0}
    BY GivenByMakers, SizesAreNat
  <2>2. IsFiniteSet(V)
    BY VaultAssumption, FS_Subset
  <2>. QED  BY <2>1, <2>2
<1>2. \A v \in Users : shares[v] = (amount * given[v]) \div all
  BY DEF SharesOf, ShareOf, GivenBy
<1>3. \A v \in Users : amount * given[v] \in Nat
  BY <1>1
<1>4. \A v \in Users : shares[v] \in Nat /\ all * shares[v] <= amount * given[v]
  <2>. HIDE DEF shares, given, all
  <2>1. TAKE v \in Users
  <2>. DEFINE p == amount * given[v]
  <2>2. p \in Nat /\ shares[v] = p \div all
    BY <1>2, <1>3
  <2>. HIDE DEF p
  <2>3. p \div all \in Nat /\ all * (p \div all) <= p
    BY <1>1, <2>2, DivIsNat, DivTimes
  <2>. QED  BY <2>2, <2>3 DEF p
<1>5. shares \in [Users -> Nat]
  BY <1>4 DEF SharesOf
<1>. HIDE DEF shares, given, all
<1>6. /\ Ints(shares, V) /\ SumFunctionOnSet(shares, V) \in Nat
      /\ SharesOn(V, shares, given, amount, all)
  <2>1. \A v \in V : shares[v] \in Nat
    BY <1>4
  <2>2. SumFunctionOnSet(shares, V) \in Nat
    BY <1>1, <2>1, SumIsNat
  <2>. QED  BY <1>1, <1>4, <2>1, <2>2 DEF Ints, SharesOn
<1>7. all * SumFunctionOnSet(shares, V) <= amount * SumFunctionOnSet(given, V)
  BY <1>1, <1>6, SumOfShares
<1>8. SumFunctionOnSet(given, V) \in Nat /\ SumFunctionOnSet(given, V) <= all
  <2>. DEFINE D == DOMAIN fills
              I == FillsOf(V, makers, fills)
              sizes == SizesOf(fills)
  <2>1. /\ IsFiniteSet(D) /\ \A i \in D : sizes[i] \in Nat
        /\ all = SumFunctionOnSet(sizes, D) /\ I \in SUBSET D
    BY SizesAreNat DEF all, FillsOf
  <2>2. SumFunctionOnSet(given, V) = SumFunctionOnSet(sizes, I)
    BY GivenByMakers DEF given
  <2>. HIDE DEF D, I, sizes
  <2>3. /\ SumFunctionOnSet(sizes, I) \in Nat
        /\ SumFunctionOnSet(sizes, I) <= SumFunctionOnSet(sizes, D)
    BY <2>1, SumOfFewer
  <2>. QED  BY <2>1, <2>2, <2>3
<1>9. all * SumFunctionOnSet(shares, V) <= all * amount
  <2>. DEFINE s == SumFunctionOnSet(shares, V)
              g == SumFunctionOnSet(given, V)
  <2>1. s \in Nat /\ g \in Nat /\ g <= all /\ all \in Nat /\ all * s <= amount * g
    BY <1>1, <1>6, <1>7, <1>8
  <2>. HIDE DEF s, g
  <2>2. amount * g <= amount * all
    BY <2>1
  <2>3. amount * g \in Nat /\ amount * all \in Nat /\ all * s \in Nat
    BY <2>1
  <2>4. amount * all = all * amount
    BY <2>1
  <2>5. all * s <= all * amount
    <3>. DEFINE e1 == amount * g
                e2 == amount * all
                e3 == all * s
                e4 == all * amount
    <3>1. e1 \in Nat /\ e2 \in Nat /\ e3 \in Nat /\ e3 <= e1 /\ e1 <= e2 /\ e2 = e4
      BY <2>1, <2>2, <2>3, <2>4
    <3>. HIDE DEF e1, e2, e3, e4
    <3>2. e3 <= e4
      BY <3>1
    <3>. QED  BY <3>2 DEF e3, e4
  <2>. QED  BY <2>5 DEF s
<1>10. SumFunctionOnSet(shares, V) <= amount
  BY <1>1, <1>6, <1>9, Cancel
<1>. QED  BY <1>1, <1>5, <1>6, <1>10 DEF shares

\* The shares come out of the pool.
LEMMA SharesArePaid ==
  ASSUME NEW z, GoodForced(z), NEW fills, NEW makers, Matched(fills, makers)
  PROVE  \E amount \in 0 .. PoolOf(z) :
           Rewarded(z, RewardShares(z, PoolOf(z), makers, fills), amount)
<1>. DEFINE all == PoolOf(z)
            share == SharesOf(all, makers, fills)
            Rewarding(k) == {makers[j] : j \in 1 .. k}
            Amount(k) == SumFunctionOnSet(share, Rewarding(k))
<1>. DEFINE n == Len(fills)
            Turn(x, k) == IF \E j \in 1 .. k - 1 : makers[j] = makers[k] THEN x
                          ELSE PayMaker(x, makers[k], ShareOf(makers[k], all, makers, fills))
            Loop(f) == f = [k \in 0 .. n |-> IF k = 0 THEN z ELSE Turn(f[k - 1], k)]
            loop == CHOOSE f : Loop(f)
            S == [k \in 0 .. n |-> {y \in ForcedStates : Rewarded(z, y, Amount(k))}]
            G == [k \in 1 .. n |-> [x \in S[k - 1] |-> Turn(x, k)]]
<1>1. RewardShares(z, PoolOf(z), makers, fills) = loop[n]
  BY Zenon DEF RewardShares
<1>2. /\ n \in Nat /\ z \in S[0]
      /\ \A k \in 1 .. n : \A x \in S[k - 1] : Turn(x, k) \in S[k]
  <2>1. /\ n \in Nat /\ all \in Nat /\ DOMAIN fills = 1 .. n
        /\ \A i \in 1 .. n : makers[i] \in Users
    BY SizesAreNat, ForcedIsTyped DEF PoolOf, Matched
  <2>2. \A i \in 1 .. n : ShareOf(makers[i], all, makers, fills) = share[makers[i]]
    BY <2>1 DEF SharesOf
  <2>. HIDE DEF all, share, n
  <2>3. \A V \in SUBSET Users :
          /\ share \in [Users -> Nat] /\ IsFiniteSet(V) /\ Ints(share, V)
          /\ SumFunctionOnSet(share, V) \in Nat /\ SumFunctionOnSet(share, V) <= all
    BY <2>1, SharesAreCovered DEF share
  <2>4. \A k \in 0 .. n : Rewarding(k) \in SUBSET Users
    BY <2>1
  <2>5. \A k \in 0 .. n : Amount(k) \in Nat /\ Amount(k) <= all
    <3>. HIDE DEF Rewarding
    <3>. QED  BY <2>3, <2>4
  <2>6. z \in S[0]
    <3>1. Rewarding(0) = {}
      OBVIOUS
    <3>2. Amount(0) = 0
      BY <3>1, SumOfNothing
    <3>3. PoolOf(z) - 0 = PoolOf(z)
      BY <2>1 DEF all
    <3>4. Rewarded(z, z, 0)
      BY <3>3 DEF Rewarded
    <3>5. 0 \in 0 .. n /\ z \in ForcedStates
      BY <2>1 DEF GoodForced
    <3>. HIDE DEF Amount
    <3>. QED  BY <3>2, <3>4, <3>5
  <2>7. ASSUME NEW k \in 1 .. n, NEW x \in S[k - 1]
        PROVE  Turn(x, k) \in S[k]
    <3>. DEFINE v == makers[k]
    <3>1. k \in Nat /\ k - 1 \in 0 .. n /\ k \in 0 .. n /\ v \in Users
      BY <2>1
    <3>2. x \in ForcedStates /\ Rewarded(z, x, Amount(k - 1))
      <4>. HIDE DEF Amount
      <4>. QED  BY <2>7, <3>1
    <3>3. 1 .. k = 1 .. (k - 1) \cup {k}
      BY <3>1
    <3>4. Rewarding(k) = Rewarding(k - 1) \cup {v}
      BY <3>3
    <3>5. v \in Rewarding(k - 1) <=> \E j \in 1 .. (k - 1) : makers[j] = makers[k]
      OBVIOUS
    <3>. HIDE DEF Rewarding
    <3>6. CASE v \in Rewarding(k - 1)
      <4>1. Turn(x, k) = x
        BY <3>5, <3>6
      <4>2. Rewarding(k) = Rewarding(k - 1)
        BY <3>4, <3>6
      <4>3. Rewarded(z, x, Amount(k))
        BY <3>2, <4>2
      <4>. HIDE DEF Amount, Turn
      <4>. QED  BY <3>1, <3>2, <4>1, <4>3
    <3>7. CASE v \notin Rewarding(k - 1)
      <4>1. Turn(x, k) = PayMaker(x, v, share[v])
        BY <2>2, <3>5, <3>7
      <4>2. Amount(k) = share[v] + Amount(k - 1)
        <5>1. /\ IsFiniteSet(Users) /\ Ints(share, Users)
              /\ Rewarding(k - 1) \in SUBSET Users
          BY <2>3, <2>4, <3>1
        <5>2. SumFunctionOnSet(share, Rewarding(k - 1) \cup {v})
                = share[v] + SumFunctionOnSet(share, Rewarding(k - 1))
          BY <3>1, <3>7, <5>1, SumWith
        <5>. QED  BY <3>4, <5>2
      <4>3. share[v] \in Nat
        BY <2>3, <3>1
      <4>4. /\ Amount(k) \in Nat /\ Amount(k - 1) \in Nat
            /\ Amount(k) <= all
        BY <2>5, <3>1
      <4>5. GoodForced(x) /\ PoolOf(x) = all - Amount(k - 1)
        BY <3>2 DEF Rewarded, all
      <4>. HIDE DEF Amount, Turn, v
      <4>6. share[v] <= PoolOf(x)
        BY <2>1, <4>2, <4>3, <4>4, <4>5
      <4>7. Rewarded(x, PayMaker(x, v, share[v]), share[v])
        BY <3>1, <4>3, <4>5, <4>6, PayingMaker
      <4>8. Rewarded(z, PayMaker(x, v, share[v]), Amount(k - 1) + share[v])
        BY <3>2, <4>3, <4>4, <4>7, RewardsAddUp
      <4>9. Amount(k) = Amount(k - 1) + share[v]
        BY <4>2, <4>3, <4>4
      <4>10. Rewarded(z, Turn(x, k), Amount(k))
        BY <4>1, <4>8, <4>9
      <4>11. Turn(x, k) \in ForcedStates
        BY <4>10 DEF Rewarded, GoodForced
      <4>. QED  BY <3>1, <4>10, <4>11
    <3>. QED  BY <3>6, <3>7
  <2>. QED  BY <2>1, <2>6, <2>7
<1>. HIDE DEF Turn, S, n
<1>3. LeadsOn(S, n, G)
  BY <1>2 DEF LeadsOn
<1>4. PICK f : Runs(f, S, z, n, G)
  <2>. HIDE DEF G
  <2>. QED  BY <1>2, <1>3, RunExists
<1>5. Loop(f)
  <2>1. \A k \in 1 .. n : f[k] = Turn(f[k - 1], k)
    <3>1. \A k \in 1 .. n : k - 1 \in 0 .. n
      BY <1>2
    <3>. QED  BY <1>4, <3>1 DEF Runs
  <2>2. f = [k \in 0 .. n |-> f[k]] /\ f[0] = z
    BY <1>4 DEF Runs
  <2>3. \A k \in 0 .. n : k = 0 \/ k \in 1 .. n
    BY <1>2
  <2>4. \A k \in 0 .. n : f[k] = IF k = 0 THEN z ELSE Turn(f[k - 1], k)
    BY <2>1, <2>2, <2>3, Zenon
  <2>. QED  BY <2>2, <2>4
<1>6. Loop(loop)
  <2>. HIDE DEF Loop
  <2>. QED  BY <1>5, Zenon
<1>. HIDE DEF loop
<1>7. loop[0] = z /\ \A k \in 1 .. n : loop[k] = Turn(loop[k - 1], k)
  BY <1>2, <1>6
<1>8. \A k \in 0 .. n : loop[k] \in S[k]
  BY <1>2, <1>7, TurnByTurn
<1>9. loop[n] \in S[n] /\ n \in 0 .. n
  BY <1>2, <1>8
<1>10. Rewarded(z, loop[n], Amount(n)) /\ Amount(n) \in 0 .. all
  <2>1. /\ n \in Nat /\ \A i \in 1 .. n : makers[i] \in Users
        /\ all \in Nat
    BY SizesAreNat, ForcedIsTyped DEF PoolOf, Matched, n
  <2>2. Rewarding(n) \in SUBSET Users
    BY <2>1
  <2>3. Amount(n) \in Nat /\ Amount(n) <= all
    <3>. HIDE DEF Rewarding, all
    <3>. QED  BY <2>1, <2>2, SharesAreCovered
  <2>4. Rewarded(z, loop[n], Amount(n))
    <3>. HIDE DEF Amount, all, share
    <3>. QED  BY <1>9 DEF S
  <2>. HIDE DEF Amount, all
  <2>. QED  BY <2>1, <2>3, <2>4
<1>. HIDE DEF Amount
<1>. QED  BY <1>1, <1>10

\* In the end the pool is empty.
LEMMA RewardingEmptiesPool ==
  ASSUME NEW z, GoodForced(z), NEW fills, NEW makers, Matched(fills, makers)
  PROVE  /\ Rewarded(z, Reward(z, makers, fills), PoolOf(z))
         /\ Reward(z, makers, fills).pool = [collateral |-> 0, credit |-> 0]
<1>. DEFINE y == RewardShares(z, PoolOf(z), makers, fills)
            w == PayMaker(y, makers[1], PoolOf(y))
<1>1. PICK amount \in 0 .. PoolOf(z) : Rewarded(z, y, amount)
  BY SharesArePaid
<1>2. Reward(z, makers, fills) = w
  BY DEF Reward, RewardFirst
<1>. HIDE DEF y
<1>3. /\ GoodForced(y) /\ PoolOf(y) \in Nat /\ PoolOf(z) \in Nat
      /\ PoolOf(y) = PoolOf(z) - amount
  <2>1. GoodForced(y) /\ PoolOf(y) = PoolOf(z) - amount
    BY <1>1 DEF Rewarded
  <2>. QED  BY <2>1, ForcedIsTyped DEF PoolOf
<1>4. makers[1] \in Users
  BY SizesAreNat DEF Matched
<1>5. Rewarded(y, w, PoolOf(y))
  BY <1>3, <1>4, PayingMaker
<1>. HIDE DEF w
<1>6. amount \in Nat /\ amount + PoolOf(y) = PoolOf(z)
  BY <1>3
<1>7. Rewarded(z, w, PoolOf(z))
  <2>1. Rewarded(z, w, amount + PoolOf(y))
    BY <1>1, <1>3, <1>5, <1>6, RewardsAddUp
  <2>. QED  BY <1>6, <2>1
<1>8. w.pool = [collateral |-> 0, credit |-> 0]
  <2>1. PoolOf(w) = 0
    BY <1>3, <1>7 DEF Rewarded
  <2>2. w.pool \in [collateral : Nat, credit : Nat]
    BY <1>7, ForcedIsTyped DEF Rewarded
  <2>3. w.pool.collateral = 0 /\ w.pool.credit = 0
    BY <2>1, <2>2 DEF PoolOf
  <2>. QED  BY <2>2, <2>3
<1>. QED  BY <1>2, <1>7, <1>8

----------------------------------------------------------------------------
(* One fill after the other. *)

\* A user has a position when its size is not zero, which is when it is indexed.
LEMMA SizeIsIndexed ==
  ASSUME NEW accounts, AccountsGood(accounts), NEW v \in Users, NEW m \in Markets
  PROVE  /\ SizeIn(accounts[v], m) \in Int
         /\ SizeIn(accounts[v], m) = 0 <=> accounts[v].index[m] = 0
         /\ HasPosition(accounts[v], m) <=> accounts[v].index[m] # 0
         /\ HaircutIn(accounts[v], m) \in Nat
<1>1. GoodAccount(accounts[v])
  BY GoodAccountOf DEF Accounts
<1>. QED  BY <1>1, PositionAtIndex

\* size after n have been traded against side.
Against(side, size, n) == IF side = 1 THEN size - n ELSE size + n

\* What was size has gone to the side, if anywhere.
Toward(side, before, after) == IF side = 1 THEN before <= after ELSE after <= before

\* x is what fills of n altogether make of z, in a liquidation of u, whose
\* position is on the given side.
Filled(z, x, m, u, side, n) ==
  /\ GoodForced(x)
  /\ HoldersListed(x.ledger.acct, x.ledger.index, m)
  /\ SizeIn(x.ledger.acct[u], m) = Against(side, SizeIn(z.ledger.acct[u], m), n)
  /\ \A v \in Users, k \in Markets \ {m} :
       SizeIn(x.ledger.acct[v], k) = SizeIn(z.ledger.acct[v], k)
  /\ \A v \in Users \ {u} :
       Toward(side, SizeIn(z.ledger.acct[v], m), SizeIn(x.ledger.acct[v], m))
  /\ FeeBps = 0 => Money(x) <= Money(z)
  /\ \/ Owed(x, m, u) = Owed(z, m, u)
     \/ \E v \in Users \ {u} :
          Closes(SizeIn(z.ledger.acct[v], m),
                 SizeIn(x.ledger.acct[v], m) - SizeIn(z.ledger.acct[v], m))

\* Whoever has closed a position stays one who has, and a maker who closes one
\* in its turn has closed one.
LEMMA StaysClosed ==
  ASSUME NEW side \in {1, -1}, NEW z \in Int, NEW x \in Int, NEW y \in Int,
         Toward(side, z, x), NEW size \in Nat \ {0}
  PROVE  /\ y = x + side * size => Toward(side, z, y)
         /\ y = x + side * size /\ Closes(z, x - z) => Closes(z, y - z)
         /\ y = x + side * size /\ Closes(x, side * size) => Closes(z, y - z)
<1>1. CASE side = 1
  BY <1>1 DEF Toward, Closes
<1>2. CASE side = -1
  BY <1>2 DEF Toward, Closes
<1>. QED  BY <1>1, <1>2

\* One more fill.
LEMMA OneMoreFill ==
  ASSUME NEW z, GoodForced(z), NEW m \in Markets, NEW u \in Users, NEW side \in {1, -1},
         side = 1 <=> SizeIn(z.ledger.acct[u], m) > 0,
         NEW n \in Nat, NEW x, Filled(z, x, m, u, side, n), NEW fill \in FillRecords,
         n + fill.size <= Abs(SizeIn(z.ledger.acct[u], m)),
         NEW maker \in Users \ {u}, NEW anchor \in Nat, NEW mark \in Nat
  PROVE  Filled(z, AfterForced(x, m, u, side, fill, maker, anchor, mark), m, u, side,
                n + fill.size)
<1>. DEFINE w == LiquidationLeg(x, m, u, fill.size, fill.price, anchor, mark)
            y == TakenOver(w, m, maker, side, fill)
            delta == side * fill.size
            Z(v) == SizeIn(z.ledger.acct[v], m)
            X(v) == SizeIn(x.ledger.acct[v], m)
            W(v) == SizeIn(w.ledger.acct[v], m)
            Y(v) == SizeIn(y.ledger.acct[v], m)
<1>1. AfterForced(x, m, u, side, fill, maker, anchor, mark) = y
  BY DEF AfterForced
<1>2. /\ fill.size \in Nat \ {0} /\ fill.price \in Nat /\ delta \in Int
      /\ maker \in Users /\ maker # u
  BY DEF FillRecords
<1>3. /\ GoodForced(x) /\ AccountsGood(x.ledger.acct) /\ AccountsGood(z.ledger.acct)
      /\ X(u) = Against(side, Z(u), n)
  BY ForcedIsTyped DEF Filled
<1>. HIDE DEF w, y
<1>4. \A v \in Users : Z(v) \in Int /\ X(v) \in Int
  BY <1>3, SizeIsIndexed
<1>5. /\ X(u) # 0 /\ fill.size <= Abs(X(u))
      /\ SizeLeft(X(u), fill.size) = Against(side, Z(u), n + fill.size)
  <2>1. Z(u) \in Int /\ (side = 1 <=> Z(u) > 0) /\ n + fill.size <= Abs(Z(u))
    BY <1>4
  <2>. HIDE DEF X, Z
  <2>2. CASE side = 1
    BY <1>2, <1>3, <2>1, <2>2 DEF Against, SizeLeft, Abs
  <2>3. CASE side = -1
    BY <1>2, <1>3, <2>1, <2>3 DEF Against, SizeLeft, Abs
  <2>. QED  BY <2>2, <2>3
<1>6. LiquidatedIn(x, w, m, u, SizeLeft(X(u), fill.size))
  BY <1>2, <1>3, <1>5, LiquidatingKeeps DEF w
<1>7. GoodForced(w)
  BY <1>6 DEF LiquidatedIn
<1>8. TakenIn(w, y, m, maker, delta)
  BY <1>2, <1>7, TakingOverKeeps DEF y
<1>9. /\ GoodForced(y) /\ AccountsGood(w.ledger.acct) /\ AccountsGood(y.ledger.acct)
  BY <1>7, <1>8, ForcedIsTyped DEF TakenIn
<1>10. \A v \in Users : W(v) \in Int /\ Y(v) \in Int
  BY <1>9, SizeIsIndexed
<1>11. W(u) = Against(side, Z(u), n + fill.size) /\ \A v \in Users \ {u} : W(v) = X(v)
  BY <1>5, <1>6 DEF LiquidatedIn
<1>12. /\ Y(maker) = X(maker) \/ Y(maker) = X(maker) + delta
       /\ \A v \in Users \ {maker} : Y(v) = W(v)
  BY <1>2, <1>8, <1>11 DEF TakenIn
<1>13. HoldersListed(y.ledger.acct, y.ledger.index, m)
  <2>1. \A v \in Users : w.ledger.acct[v].index[m] # 0 => x.ledger.acct[v].index[m] # 0
    <3>1. \A v \in Users : W(v) # 0 => X(v) # 0
      BY <1>5, <1>11
    <3>. HIDE DEF W, X
    <3>2. \A v \in Users : /\ W(v) = 0 <=> w.ledger.acct[v].index[m] = 0
                           /\ X(v) = 0 <=> x.ledger.acct[v].index[m] = 0
      BY <1>3, <1>9, SizeIsIndexed DEF W, X
    <3>. QED  BY <3>1, <3>2
  <2>2. HoldersListed(w.ledger.acct, w.ledger.index, m)
    BY <1>6, <2>1 DEF Filled, HoldersListed, LiquidatedIn
  <2>. QED  BY <1>8, <2>2 DEF TakenIn
<1>14. Y(u) = Against(side, Z(u), n + fill.size)
  BY <1>2, <1>11, <1>12
<1>15. ASSUME NEW v \in Users, NEW k \in Markets \ {m}
       PROVE  SizeIn(y.ledger.acct[v], k) = SizeIn(z.ledger.acct[v], k)
  <2>1. SizeIn(y.ledger.acct[v], k) = SizeIn(w.ledger.acct[v], k)
    BY <1>8 DEF TakenIn
  <2>2. SizeIn(w.ledger.acct[v], k) = SizeIn(x.ledger.acct[v], k)
    BY <1>6 DEF LiquidatedIn
  <2>3. SizeIn(x.ledger.acct[v], k) = SizeIn(z.ledger.acct[v], k)
    BY DEF Filled
  <2>. QED  BY <2>1, <2>2, <2>3
<1>16. \A v \in Users \ {u} : Toward(side, Z(v), X(v))
  BY DEF Filled
<1>17. \A v \in Users \ {u} : Y(v) = X(v) \/ Y(v) = X(v) + delta
  BY <1>11, <1>12
<1>. HIDE DEF X, W, Y, Z
<1>18. \A v \in Users \ {u} :
         /\ Toward(side, Z(v), Y(v))
         /\ Closes(Z(v), X(v) - Z(v)) => Closes(Z(v), Y(v) - Z(v))
  BY <1>2, <1>4, <1>10, <1>16, <1>17, StaysClosed
<1>19. FeeBps = 0 => Money(y) <= Money(z)
  <2>1. Money(y) \in Nat /\ Money(w) \in Nat /\ Money(x) \in Nat /\ Money(z) \in Nat
    BY <1>3, <1>7, <1>9, SumsOfForced
  <2>2. /\ FeeBps = 0 => Money(y) <= Money(w)
        /\ Money(w) <= Money(x)
        /\ FeeBps = 0 => Money(x) <= Money(z)
    BY <1>6, <1>8 DEF TakenIn, LiquidatedIn, Filled
  <2>. QED  BY <2>1, <2>2
<1>20. \/ Owed(y, m, u) = Owed(x, m, u)
       \/ Closes(X(maker), delta) /\ Y(maker) = X(maker) + delta
  <2>1. \/ Owed(y, m, u) = Owed(w, m, u)
        \/ Closes(W(maker), delta) /\ Y(maker) = W(maker) + delta
    BY <1>8 DEF TakenIn, W, Y
  <2>2. Owed(w, m, u) = Owed(x, m, u)
    BY <1>6 DEF LiquidatedIn
  <2>. QED  BY <1>2, <1>11, <2>1, <2>2
<1>21. \/ Owed(y, m, u) = Owed(z, m, u)
       \/ \E v \in Users \ {u} : Closes(Z(v), Y(v) - Z(v))
  <2>1. CASE Closes(X(maker), delta) /\ Y(maker) = X(maker) + delta
    <3>1. Closes(Z(maker), Y(maker) - Z(maker))
      BY <1>2, <1>4, <1>10, <1>16, <2>1, StaysClosed
    <3>. QED  BY <1>2, <3>1
  <2>2. CASE Owed(y, m, u) = Owed(x, m, u)
    <3>1. \/ Owed(x, m, u) = Owed(z, m, u)
          \/ \E v \in Users \ {u} : Closes(Z(v), X(v) - Z(v))
      BY DEF Filled, X, Z
    <3>. QED  BY <1>18, <2>2, <3>1
  <2>. QED  BY <1>20, <2>1, <2>2
<1>. QED
  <2>1. /\ SizeIn(y.ledger.acct[u], m) = Against(side, SizeIn(z.ledger.acct[u], m), n + fill.size)
        /\ \A v \in Users \ {u} :
             Toward(side, SizeIn(z.ledger.acct[v], m), SizeIn(y.ledger.acct[v], m))
        /\ \/ Owed(y, m, u) = Owed(z, m, u)
           \/ \E v \in Users \ {u} :
                Closes(SizeIn(z.ledger.acct[v], m),
                       SizeIn(y.ledger.acct[v], m) - SizeIn(z.ledger.acct[v], m))
    BY <1>14, <1>18, <1>21 DEF Z, Y
  <2>. QED  BY <1>1, <1>9, <1>13, <1>15, <1>19, <2>1 DEF Filled

\* The size of the first k fills.
SizeTo(fills, k) == SumFunctionOnSet(SizesOf(fills), 1 .. k)

\* It adds up.
LEMMA SizesAddUp ==
  ASSUME NEW fills, NEW makers, Matched(fills, makers)
  PROVE  /\ SizeTo(fills, 0) = 0
         /\ SizeTo(fills, Len(fills)) = SumFunction(SizesOf(fills))
         /\ \A k \in 1 .. Len(fills) :
              /\ SizeTo(fills, k - 1) \in Nat
              /\ SizeTo(fills, k) = SizeTo(fills, k - 1) + fills[k].size
              /\ SizeTo(fills, k) <= SumFunction(SizesOf(fills))
<1>. DEFINE n == Len(fills)
            sizes == SizesOf(fills)
            D == DOMAIN fills
<1>1. /\ n \in Nat \ {0} /\ D = 1 .. n /\ IsFiniteSet(D)
      /\ sizes \in [D -> Nat \ {0}] /\ Ints(sizes, D)
      /\ SumFunction(sizes) = SumFunctionOnSet(sizes, D)
      /\ \A k \in D : sizes[k] = fills[k].size
  BY SizesAreNat DEF SizesOf
<1>. HIDE DEF n, sizes, D
<1>2. \A k \in D : sizes[k] \in Nat
  BY <1>1
<1>3. 1 .. 0 = {} /\ SumFunctionOnSet(sizes, 1 .. 0) = 0
  BY SumOfNothing
<1>4. ASSUME NEW k \in 1 .. n
      PROVE  /\ SumFunctionOnSet(sizes, 1 .. k - 1) \in Nat
             /\ SumFunctionOnSet(sizes, 1 .. k) =
                  SumFunctionOnSet(sizes, 1 .. k - 1) + sizes[k]
             /\ SumFunctionOnSet(sizes, 1 .. k) <= SumFunctionOnSet(sizes, D)
  <2>. DEFINE I == 1 .. k
              J == 1 .. k - 1
  <2>1. /\ I \in SUBSET D /\ J \in SUBSET D /\ k \in D /\ k \notin J /\ I = J \cup {k}
    BY <1>1
  <2>. HIDE DEF I, J
  <2>2. SumFunctionOnSet(sizes, I) \in Nat /\ SumFunctionOnSet(sizes, J) \in Nat
        /\ SumFunctionOnSet(sizes, I) <= SumFunctionOnSet(sizes, D)
    BY <1>1, <1>2, <2>1, SumOfFewer
  <2>3. SumFunctionOnSet(sizes, J \cup {k}) = sizes[k] + SumFunctionOnSet(sizes, J)
    <3>1. \A s \in SUBSET D, x \in D :
            x \notin s =>
              SumFunctionOnSet(sizes, s \cup {x}) = sizes[x] + SumFunctionOnSet(sizes, s)
      <4>1. IsFiniteSet(D) /\ Ints(sizes, D)
        BY <1>1
      <4>. QED  BY <4>1, SumWith
    <3>. QED  BY <2>1, <3>1
  <2>4. sizes[k] \in Nat
    BY <1>2, <2>1
  <2>5. SumFunctionOnSet(sizes, I) = SumFunctionOnSet(sizes, J) + sizes[k]
    BY <2>1, <2>2, <2>3, <2>4
  <2>. QED  BY <2>2, <2>5 DEF I, J
<1>5. \A k \in 1 .. n : k \in D
  BY <1>1
<1>6. SizeTo(fills, 0) = 0
  BY <1>3 DEF SizeTo, sizes
<1>7. SizeTo(fills, n) = SumFunction(sizes)
  BY <1>1 DEF SizeTo, sizes
<1>8. \A k \in 1 .. n :
        /\ SizeTo(fills, k - 1) \in Nat
        /\ SizeTo(fills, k) = SizeTo(fills, k - 1) + fills[k].size
        /\ SizeTo(fills, k) <= SumFunction(sizes)
  BY <1>1, <1>4, <1>5 DEF SizeTo, sizes
<1>. QED  BY <1>6, <1>7, <1>8 DEF n, sizes

\* A liquidation of u in m may be matched with fills of makers.
Matching(u, m, fills, makers) ==
  /\ Matched(fills, makers)
  /\ makers \in [DOMAIN fills -> Users \ {u}]
  /\ SumFunction(SizesOf(fills)) <= Abs(SizeIn(acct[u], m))

\* All fills are made, one after the other.
LEMMA AllFillsAreMade ==
  ASSUME NEW m \in Markets, GoodForced(StartOf(m)), AllListed(m), NEW u \in Users,
         HasPosition(acct[u], m), NEW fills, NEW makers, Matching(u, m, fills, makers),
         NEW mark \in Nat, NEW then \in Nat
  PROVE  Filled(StartOf(m), AfterAllForced(m, u, fills, makers, mark, then), m, u,
                SideOf(PositionIn(acct[u], m)), SumFunction(SizesOf(fills)))
<1>. DEFINE z == StartOf(m)
            side == SideOf(PositionIn(acct[u], m))
<1>. DEFINE n == Len(fills)
            Turn(x, k) == AfterForced(x, m, u, side, fills[k], makers[k], mark,
                                      IF k = 1 THEN mark ELSE then)
            Loop(f) == f = [k \in 0 .. n |-> IF k = 0 THEN z ELSE Turn(f[k - 1], k)]
            loop == CHOOSE f : Loop(f)
            S == [k \in 0 .. n |->
                    {y \in ForcedStates : Filled(z, y, m, u, side, SizeTo(fills, k))}]
            G == [k \in 1 .. n |-> [x \in S[k - 1] |-> Turn(x, k)]]
<1>1. AfterAllForced(m, u, fills, makers, mark, then) = loop[n]
  BY Zenon DEF AfterAllForced
<1>2. /\ n \in Nat /\ z \in S[0]
      /\ \A k \in 1 .. n : \A x \in S[k - 1] : Turn(x, k) \in S[k]
  <2>1. /\ n \in Nat /\ DOMAIN fills = 1 .. n
        /\ \A k \in 1 .. n : makers[k] \in Users \ {u} /\ fills[k] \in FillRecords
    BY SizesAreNat DEF Matching, Matched
  <2>2. /\ z.ledger.acct = acct /\ z.ledger.index = traderIndex[m]
        /\ z.ledger = LedgerOf(m)
    BY DEF StartOf, LedgerOf
  <2>3. /\ side \in {1, -1} /\ (side = 1 <=> SizeIn(z.ledger.acct[u], m) > 0)
    BY <2>2 DEF SideOf, SizeIn
  <2>4. /\ SizeTo(fills, 0) = 0
        /\ \A k \in 1 .. n : /\ SizeTo(fills, k - 1) \in Nat
                             /\ SizeTo(fills, k) = SizeTo(fills, k - 1) + fills[k].size
                             /\ SizeTo(fills, k) <= Abs(SizeIn(z.ledger.acct[u], m))
    <3>. DEFINE most == Abs(SizeIn(acct[u], m))
                total == SumFunction(SizesOf(fills))
    <3>1. total \in Nat /\ total <= most
      BY SizesAreNat DEF Matching
    <3>2. most \in Int
      <4>1. SizeIn(acct[u], m) \in Int
        BY <2>2, SizeIsIndexed, ForcedIsTyped
      <4>. QED  BY <4>1 DEF Abs
    <3>. HIDE DEF most, total
    <3>3. /\ SizeTo(fills, 0) = 0
          /\ \A k \in 1 .. n : /\ SizeTo(fills, k - 1) \in Nat
                               /\ SizeTo(fills, k) = SizeTo(fills, k - 1) + fills[k].size
                               /\ SizeTo(fills, k) <= total
      BY SizesAddUp DEF Matching, total
    <3>4. \A k \in 1 .. n : SizeTo(fills, k) \in Nat
      BY <2>1, <3>3 DEF FillRecords
    <3>5. \A k \in 1 .. n : SizeTo(fills, k) <= most
      BY <3>1, <3>2, <3>3, <3>4
    <3>. QED  BY <2>2, <3>3, <3>5 DEF most
  <2>. HIDE DEF z, side, n
  <2>5. Filled(z, z, m, u, side, 0)
    <3>1. HoldersListed(z.ledger.acct, z.ledger.index, m)
      BY <2>2 DEF AllListed
    <3>2. GoodForced(z) /\ AccountsGood(z.ledger.acct)
      BY ForcedIsTyped DEF z
    <3>3. \A v \in Users : SizeIn(z.ledger.acct[v], m) \in Int
      BY <3>2, SizeIsIndexed
    <3>4. SizeIn(z.ledger.acct[u], m) = Against(side, SizeIn(z.ledger.acct[u], m), 0)
      BY <3>3 DEF Against
    <3>5. \A v \in Users :
            Toward(side, SizeIn(z.ledger.acct[v], m), SizeIn(z.ledger.acct[v], m))
      BY <3>3 DEF Toward
    <3>6. Money(z) <= Money(z)
      <4>1. Money(z) \in Nat
        BY <3>2, SumsOfForced
      <4>. QED  BY <4>1
    <3>. QED  BY <3>1, <3>2, <3>4, <3>5, <3>6 DEF Filled
  <2>6. z \in S[0]
    <3>1. 0 \in 0 .. n /\ z \in ForcedStates
      BY <2>1, <2>5 DEF Filled, GoodForced
    <3>2. Filled(z, z, m, u, side, SizeTo(fills, 0))
      BY <2>4, <2>5
    <3>. QED  BY <3>1, <3>2
  <2>7. ASSUME NEW k \in 1 .. n, NEW x \in S[k - 1]
        PROVE  Turn(x, k) \in S[k]
    <3>1. k - 1 \in 0 .. n /\ k \in 0 .. n
      BY <2>1
    <3>2. Filled(z, x, m, u, side, SizeTo(fills, k - 1))
      BY <2>7, <3>1
    <3>3. (IF k = 1 THEN mark ELSE then) \in Nat
      OBVIOUS
    <3>4. Turn(x, k) = AfterForced(x, m, u, side, fills[k], makers[k], mark,
                                   IF k = 1 THEN mark ELSE then)
      OBVIOUS
    <3>5. /\ SizeTo(fills, k - 1) \in Nat
          /\ SizeTo(fills, k) = SizeTo(fills, k - 1) + fills[k].size
          /\ SizeTo(fills, k) <= Abs(SizeIn(z.ledger.acct[u], m))
          /\ makers[k] \in Users \ {u} /\ fills[k] \in FillRecords
      BY <2>1, <2>4
    <3>. HIDE DEF Turn
    <3>. DEFINE price == IF k = 1 THEN mark ELSE then
    <3>. HIDE DEF price
    <3>6. GoodForced(z)
      BY DEF z
    <3>7. Filled(z, AfterForced(x, m, u, side, fills[k], makers[k], mark, price), m, u, side,
                 SizeTo(fills, k - 1) + fills[k].size)
      BY <2>3, <3>2, <3>3, <3>5, <3>6, OneMoreFill DEF price
    <3>8. Filled(z, Turn(x, k), m, u, side, SizeTo(fills, k))
      BY <3>4, <3>5, <3>7 DEF price
    <3>9. Turn(x, k) \in ForcedStates
      BY <3>8 DEF Filled, GoodForced
    <3>. QED  BY <3>1, <3>8, <3>9
  <2>. QED  BY <2>1, <2>6, <2>7
<1>. HIDE DEF Turn, S, n
<1>3. LeadsOn(S, n, G)
  BY <1>2 DEF LeadsOn
<1>4. PICK f : Runs(f, S, z, n, G)
  <2>. HIDE DEF G
  <2>. QED  BY <1>2, <1>3, RunExists
<1>5. Loop(f)
  <2>1. \A k \in 1 .. n : f[k] = Turn(f[k - 1], k)
    <3>1. \A k \in 1 .. n : k - 1 \in 0 .. n
      BY <1>2
    <3>. QED  BY <1>4, <3>1 DEF Runs
  <2>2. f = [k \in 0 .. n |-> f[k]] /\ f[0] = z
    BY <1>4 DEF Runs
  <2>3. \A k \in 0 .. n : k = 0 \/ k \in 1 .. n
    BY <1>2
  <2>4. \A k \in 0 .. n : f[k] = IF k = 0 THEN z ELSE Turn(f[k - 1], k)
    BY <2>1, <2>2, <2>3, Zenon
  <2>. QED  BY <2>2, <2>4
<1>6. Loop(loop)
  <2>. HIDE DEF Loop
  <2>. QED  BY <1>5, Zenon
<1>. HIDE DEF loop
<1>7. loop[0] = z /\ \A k \in 1 .. n : loop[k] = Turn(loop[k - 1], k)
  BY <1>2, <1>6
<1>8. \A k \in 0 .. n : loop[k] \in S[k]
  BY <1>2, <1>7, TurnByTurn
<1>9. loop[n] \in S[n] /\ n \in 0 .. n
  BY <1>2, <1>8
<1>10. Filled(z, loop[n], m, u, side, SizeTo(fills, n))
  <2>. HIDE DEF z, side
  <2>. QED  BY <1>9 DEF S
<1>11. SizeTo(fills, n) = SumFunction(SizesOf(fills))
  BY SizesAddUp DEF Matching, n
<1>. HIDE DEF loop
<1>. QED  BY <1>1, <1>10, <1>11

----------------------------------------------------------------------------
(* The inductive invariant. *)

\* The part about the vault.  Everybody with a position is on the list, whatever
\* liquidations leave on it besides; a settled market has no positions.
VaultInv ==
  /\ GoodVault
  /\ \A m \in Markets \ settled : AllListed(m)
  /\ \A m \in settled, v \in Users : acct[v].index[m] = 0
  /\ batch = [m \in Markets |-> NoBatch]
  /\ disturbed \subseteq Markets

\* No money of anybody.
NoMoney == [collateral |-> 0, credit |-> 0]

\* The part about liquidations.
BooksInv ==
  /\ sharers \in [Markets -> Seq(Users)]
  /\ pool = [m \in Markets |-> NoMoney]
  /\ unpaid \in [Markets -> Nat]
  /\ count \in 0 .. MaxLiquidations

LiqInv == VaultInv /\ BooksInv

\* It holds at the start,
LEMMA LiqInitIsGood == LiqInit => LiqInv
<1>. SUFFICES ASSUME LiqInit PROVE LiqInv
  OBVIOUS
<1>1. GoodVault /\ \A m \in Markets : Listed(m)
  BY StartIsGood DEF LiqInit, Init
<1>2. settled = {}
  BY DEF LiqInit, Init, LedgerInit
<1>3. VaultInv
  BY <1>1, <1>2 DEF VaultInv, LiqInit, Init, Listed, AllListed
<1>4. count \in 0 .. MaxLiquidations
  BY LiquidationAssumption DEF LiqInit
<1>. QED  BY <1>3, <1>4 DEF LiqInv, BooksInv, LiqInit, NoMoney

\* users keep it,
LEMMA UserKeepsLiq ==
  ASSUME LiqInv, UserStep, UNCHANGED liqVars
  PROVE  LiqInv'
<1>1. VaultKept /\ batch' = batch
  BY UserKeeps DEF LiqInv, VaultInv, UserStep
<1>2. disturbed' \subseteq Markets
  BY DEF LiqInv, VaultInv, UserStep
<1>3. GoodVault' /\ settled' = settled
  BY <1>1 DEF VaultKept
<1>4. \A m \in Markets \ settled : AllListed(m)'
  BY <1>1 DEF VaultKept, LiqInv, VaultInv
<1>5. \A m \in settled, v \in Users : acct'[v].index[m] = 0
  BY <1>1 DEF VaultKept, LiqInv, VaultInv
<1>6. VaultInv'
  BY <1>1, <1>2, <1>3, <1>4, <1>5 DEF LiqInv, VaultInv
<1>. QED  BY <1>6 DEF LiqInv, BooksInv, liqVars

\* and settlements of markets.
LEMMA SettleKeepsLiq ==
  ASSUME LiqInv, NEW m \in Markets, NEW price \in Nat, SettleMarket(m, price),
         UNCHANGED liqVars
  PROVE  LiqInv'
<1>. DEFINE U == Elements(traders[m])
            scale == ScaleFor(Gains(U, m, price), Debits(U, m, price))
<1>1. /\ traders \in [Markets -> Seq(Users)] /\ GoodVault
      /\ traderIndex \in [Markets -> [Users -> Nat]]
  BY DEF LiqInv, VaultInv, GoodVault
<1>2. U \in SUBSET Users
  BY <1>1 DEF Elements
<1>3. Gains(U, m, price) \in Nat /\ Debits(U, m, price) \in Nat
  <2>. HIDE DEF U
  <2>1. 0 \in Nat
    OBVIOUS
  <2>. QED  BY <1>1, <1>2, <2>1, SumsAreNat
<1>4. scale \in Nat
  <2>. HIDE DEF U
  <2>. QED  BY <1>3, ScaleIsNat
<1>5. /\ ApplySettlement(U, m, price, scale)
      /\ traders' = [traders EXCEPT ![m] = <<>>]
      /\ traderIndex' = [traderIndex EXCEPT ![m] =
           [u \in Users |-> IF u \in U THEN 0 ELSE traderIndex[m][u]]]
      /\ settled' = settled \union {m} /\ m \notin settled
      /\ disturbed' = disturbed \union {k \in Markets \ {m} : Settling(k)}
      /\ UNCHANGED <<net, batch>>
  BY DEF SettleMarket
<1>6. ASSUME NEW v \in Users, v \notin U PROVE acct[v].index[m] = 0
  <2>1. HoldersListed(acct, traderIndex[m], m) /\ TradersExact(traders[m], traderIndex[m])
    BY <1>5 DEF LiqInv, VaultInv, GoodVault, AllListed
  <2>2. {i \in DOMAIN traders[m] : traders[m][i] = v} = {}
    BY <1>6 DEF Elements
  <2>3. traderIndex[m][v] = 0
    BY <2>1, <2>2 DEF TradersExact
  <2>. QED  BY <2>1, <2>3 DEF HoldersListed
<1>. HIDE DEF U, scale
<1>7. Settled(U, m, price, scale)
  BY <1>1, <1>2, <1>4, <1>5, ApplyingKeeps
<1>8. /\ traders' \in [Markets -> Seq(Users)]
      /\ traderIndex' \in [Markets -> [Users -> Nat]]
      /\ \A k \in Markets \ {m} : traders'[k] = traders[k] /\ traderIndex'[k] = traderIndex[k]
  BY <1>1, <1>5
<1>9. GoodVault'
  <2>1. \A k \in Markets \ settled' : TradersExact(traders'[k], traderIndex'[k])
    BY <1>1, <1>5, <1>8 DEF GoodVault
  <2>2. settled' \subseteq Markets /\ net' \in Int
    BY <1>1, <1>5 DEF GoodVault
  <2>. QED  BY <1>7, <1>8, <2>1, <2>2 DEF GoodVault, Settled, AccountsExact, TradersExact
<1>10. ASSUME NEW k \in Markets \ settled' PROVE AllListed(k)'
  <2>1. k \in Markets \ settled /\ k \in Markets \ {m} /\ AllListed(k)
    BY <1>5 DEF LiqInv, VaultInv
  <2>. QED  BY <1>7, <1>8, <2>1 DEF Settled, AllListed, HoldersListed
<1>11. ASSUME NEW k \in settled', NEW v \in Users PROVE acct'[v].index[k] = 0
  <2>1. CASE k # m
    <3>1. k \in settled /\ k \in Markets \ {m}
      BY <1>1, <1>5, <2>1 DEF GoodVault
    <3>. QED  BY <1>7, <3>1 DEF Settled, LiqInv, VaultInv
  <2>2. CASE k = m /\ v \in U
    BY <1>7, <2>2 DEF Settled
  <2>3. CASE k = m /\ v \notin U
    <3>1. acct'[v] = acct[v]
      BY <1>5, <2>3 DEF ApplySettlement, Accounts
    <3>. QED  BY <1>6, <2>3, <3>1
  <2>. QED  BY <2>1, <2>2, <2>3
<1>12. disturbed' \subseteq Markets /\ batch' = batch
  BY <1>5 DEF LiqInv, VaultInv
<1>13. VaultInv'
  BY <1>9, <1>10, <1>11, <1>12 DEF LiqInv, VaultInv
<1>. QED  BY <1>13 DEF LiqInv, BooksInv, liqVars

----------------------------------------------------------------------------
(* The liquidation as a whole. *)

\* Rewards change neither sizes nor what is owed.
LEMMA RewardedStaysFilled ==
  ASSUME NEW z, GoodForced(z), NEW m \in Markets, NEW u \in Users, NEW side, NEW n,
         NEW x, Filled(z, x, m, u, side, n), NEW y, NEW amount, Rewarded(x, y, amount)
  PROVE  Filled(z, y, m, u, side, n)
<1>1. \A v \in Users : /\ y.ledger.acct[v].positions = x.ledger.acct[v].positions
                       /\ y.ledger.acct[v].index = x.ledger.acct[v].index
  BY DEF Rewarded, Accounts
<1>2. \A v \in Users, k \in Markets :
        /\ SizeIn(y.ledger.acct[v], k) = SizeIn(x.ledger.acct[v], k)
        /\ HaircutIn(y.ledger.acct[v], k) = HaircutIn(x.ledger.acct[v], k)
  BY <1>1, SizesAreOfPositions
<1>3. HaircutsOn(y.ledger.acct, m, Users \ {u}) = HaircutsOn(x.ledger.acct, m, Users \ {u})
  <2>1. [v \in Users |-> HaircutIn(y.ledger.acct[v], m)] =
          [v \in Users |-> HaircutIn(x.ledger.acct[v], m)]
    BY <1>2
  <2>. QED  BY <2>1 DEF HaircutsOn
<1>4. Owed(y, m, u) = Owed(x, m, u)
  BY <1>3 DEF Owed, Rewarded
<1>5. HoldersListed(y.ledger.acct, y.ledger.index, m)
  BY <1>1 DEF Filled, HoldersListed, Rewarded
<1>6. GoodForced(y) /\ Money(y) = Money(x)
  BY DEF Rewarded
<1>. QED  BY <1>2, <1>4, <1>5, <1>6 DEF Filled

\* What a liquidation starts from is good.
LEMMA StartOfIsGood ==
  ASSUME LiqInv, NEW m \in Markets \ settled
  PROVE  /\ GoodForced(StartOf(m)) /\ AllListed(m)
         /\ StartOf(m).ledger.acct = acct /\ StartOf(m).pool = NoMoney
         /\ StartOf(m).ledger.badDebt = badDebt[m] /\ StartOf(m).unpaid = unpaid[m]
<1>1. GoodVault
  BY DEF LiqInv, VaultInv
<1>2. GoodLedger(LedgerOf(m)) /\ LedgerOf(m).acct = acct /\ LedgerOf(m).badDebt = badDebt[m]
  BY <1>1, LedgerIsGood DEF LedgerOf
<1>3. LedgerOf(m) \in ForcedLedgers
  BY <1>2 DEF GoodLedger, LedgerRecords, ForcedLedgers
<1>4. /\ StartOf(m).ledger = LedgerOf(m) /\ StartOf(m).pool = NoMoney
      /\ StartOf(m).unpaid = unpaid[m] /\ StartOf(m).sharers = sharers[m]
      /\ StartOf(m) \in [ledger : {LedgerOf(m)}, sharers : Seq(Users),
                         pool : {NoMoney}, unpaid : Nat]
  BY DEF StartOf, LiqInv, BooksInv
<1>5. NoMoney \in [collateral : Nat, credit : Nat]
  BY DEF NoMoney
<1>6. StartOf(m) \in ForcedStates
  BY <1>3, <1>4, <1>5 DEF ForcedStates
<1>7. GoodForced(StartOf(m))
  BY <1>2, <1>4, <1>6 DEF GoodForced, GoodLedger, AccountsGood, LedgerRecords
<1>. QED  BY <1>2, <1>4, <1>7 DEF LiqInv, VaultInv

\* y is what a liquidation of u in m, on the given side and of n, leaves.
LiquidatedTo(y, m, u, side, n) ==
  /\ side \in {1, -1} /\ n \in Nat \ {0}
  /\ side = 1 <=> SizeIn(acct[u], m) > 0
  /\ SizeIn(acct[u], m) # 0
  /\ n <= Abs(SizeIn(acct[u], m))
  /\ Filled(StartOf(m), y, m, u, side, n)
  /\ y.pool = NoMoney
  /\ y.ledger.locked >= 0
  /\ acct' = y.ledger.acct
  /\ totalLocked' = y.ledger.locked
  /\ traders' = [traders EXCEPT ![m] = y.ledger.list]
  /\ traderIndex' = [traderIndex EXCEPT ![m] = y.ledger.index]
  /\ badDebt' = [badDebt EXCEPT ![m] = y.ledger.badDebt]
  /\ sharers' = [sharers EXCEPT ![m] = y.sharers]
  /\ pool' = [pool EXCEPT ![m] = y.pool]
  /\ unpaid' = [unpaid EXCEPT ![m] = y.unpaid]
  /\ count < MaxLiquidations /\ count' = count + 1
  /\ disturbed' = disturbed \union {k \in Markets : Settling(k)}
  /\ UNCHANGED <<settled, net, batch>>

\* A liquidation does that.
LEMMA LiquidationEnds ==
  ASSUME LiqInv, NEW u \in Users, NEW m \in Markets, NEW fills \in Forced,
         NEW makers \in [DOMAIN fills -> Users \ {u}], NEW mark \in Marks, NEW then \in Marks,
         LiquidateDirect(u, m, fills, makers, mark, then)
  PROVE  /\ m \notin settled
         /\ \E side \in {1, -1}, n \in Nat \ {0}, y \in ForcedStates :
              LiquidatedTo(y, m, u, side, n)
<1>. DEFINE z == StartOf(m)
            side == SideOf(PositionIn(acct[u], m))
            n == SumFunction(SizesOf(fills))
            x == AfterAllForced(m, u, fills, makers, mark, then)
            y == Reward(x, makers, fills)
<1>1. HasPosition(acct[u], m) /\ n <= Abs(PositionIn(acct[u], m).size)
  BY DEF LiquidateDirect
<1>2. AccountsGood(acct) /\ GoodVault
  BY DEF LiqInv, VaultInv, GoodVault, AccountsGood
<1>3. SizeIn(acct[u], m) = PositionIn(acct[u], m).size
  BY <1>1 DEF SizeIn
<1>4. SizeIn(acct[u], m) # 0 /\ m \notin settled
  <2>1. acct[u].index[m] # 0
    BY <1>1, <1>2, SizeIsIndexed
  <2>2. SizeIn(acct[u], m) # 0
    BY <1>2, <2>1, SizeIsIndexed
  <2>. QED  BY <2>1, <2>2 DEF LiqInv, VaultInv
<1>5. /\ GoodForced(z) /\ AllListed(m)
  BY <1>4, StartOfIsGood
<1>6. Matched(fills, makers)
  BY LiquidationAssumption DEF Matched
<1>7. Matching(u, m, fills, makers)
  BY <1>1, <1>3, <1>6 DEF Matching
<1>8. n \in Nat \ {0}
  BY <1>6, SizesAreNat
<1>9. mark \in Nat /\ then \in Nat
  BY LiquidationAssumption
<1>10. side \in {1, -1} /\ (side = 1 <=> SizeIn(acct[u], m) > 0)
  BY <1>3 DEF SideOf
<1>11. Filled(z, x, m, u, side, n)
  BY <1>1, <1>5, <1>7, <1>9, AllFillsAreMade
<1>12. GoodForced(x)
  BY <1>11 DEF Filled
<1>13. Rewarded(x, y, PoolOf(x)) /\ y.pool = NoMoney
  BY <1>6, <1>12, RewardingEmptiesPool DEF NoMoney
<1>14. Filled(z, y, m, u, side, n)
  <2>. HIDE DEF x, y, z, side, n
  <2>. QED  BY <1>5, <1>11, <1>13, RewardedStaysFilled
<1>15. LiquidatedTo(y, m, u, side, n)
  <2>1. /\ y.ledger.locked >= 0
        /\ acct' = y.ledger.acct
        /\ totalLocked' = y.ledger.locked
        /\ traders' = [traders EXCEPT ![m] = y.ledger.list]
        /\ traderIndex' = [traderIndex EXCEPT ![m] = y.ledger.index]
        /\ badDebt' = [badDebt EXCEPT ![m] = y.ledger.badDebt]
        /\ sharers' = [sharers EXCEPT ![m] = y.sharers]
        /\ pool' = [pool EXCEPT ![m] = y.pool]
        /\ unpaid' = [unpaid EXCEPT ![m] = y.unpaid]
        /\ count < MaxLiquidations /\ count' = count + 1
        /\ disturbed' = disturbed \union {k \in Markets : Settling(k)}
        /\ UNCHANGED <<settled, net, batch>>
    BY DEF LiquidateDirect
  <2>2. n <= Abs(SizeIn(acct[u], m))
    BY <1>1, <1>3
  <2>. HIDE DEF x, y, z, side, n
  <2>. QED  BY <1>4, <1>8, <1>10, <1>13, <1>14, <2>1, <2>2 DEF LiquidatedTo, z
<1>16. y \in ForcedStates
  BY <1>14 DEF Filled, GoodForced
<1>. HIDE DEF x, y, side, n
<1>. QED  BY <1>4, <1>8, <1>10, <1>15, <1>16

\* Liquidations keep the invariant.
LEMMA LiquidationKeepsLiq ==
  ASSUME LiqInv, NEW u \in Users, NEW m \in Markets \ settled, NEW side \in {1, -1},
         NEW n \in Nat \ {0}, NEW y \in ForcedStates, LiquidatedTo(y, m, u, side, n)
  PROVE  LiqInv'
<1>1. /\ GoodVault /\ AccountsGood(acct)
      /\ \A k \in Markets \ settled : AllListed(k)
  BY DEF LiqInv, VaultInv, GoodVault, AccountsGood
<1>2. /\ Filled(StartOf(m), y, m, u, side, n) /\ y.pool = NoMoney /\ y.ledger.locked >= 0
      /\ acct' = y.ledger.acct
      /\ totalLocked' = y.ledger.locked
      /\ traders' = [traders EXCEPT ![m] = y.ledger.list]
      /\ traderIndex' = [traderIndex EXCEPT ![m] = y.ledger.index]
      /\ badDebt' = [badDebt EXCEPT ![m] = y.ledger.badDebt]
      /\ sharers' = [sharers EXCEPT ![m] = y.sharers]
      /\ pool' = [pool EXCEPT ![m] = y.pool]
      /\ unpaid' = [unpaid EXCEPT ![m] = y.unpaid]
      /\ count < MaxLiquidations /\ count' = count + 1
      /\ disturbed' = disturbed \union {k \in Markets : Settling(k)}
      /\ settled' = settled /\ net' = net /\ batch' = batch
  BY DEF LiquidatedTo
<1>3. GoodForced(y) /\ StartOf(m).ledger.acct = acct
  BY <1>2, StartOfIsGood DEF Filled
<1>4. /\ AccountsGood(y.ledger.acct) /\ y.ledger.list \in Seq(Users)
      /\ y.ledger.index \in [Users -> Nat] /\ y.ledger.locked \in Int
      /\ TradersExact(y.ledger.list, y.ledger.index)
      /\ y.ledger.badDebt \in Nat /\ y.sharers \in Seq(Users) /\ y.unpaid \in Nat
  BY <1>3, ForcedIsTyped
<1>5. /\ acct' \in [Accounts -> AccountRecords] /\ AccountsExact(acct')
      /\ AccountsGood(acct')
  BY <1>2, <1>4 DEF AccountsGood
<1>6. /\ totalLocked' \in Nat /\ badDebt' \in [Markets -> Nat]
      /\ traders' \in [Markets -> Seq(Users)] /\ traders'[m] = y.ledger.list
      /\ traderIndex' \in [Markets -> [Users -> Nat]] /\ traderIndex'[m] = y.ledger.index
      /\ \A k \in Markets \ {m} : traders'[k] = traders[k] /\ traderIndex'[k] = traderIndex[k]
  BY <1>1, <1>2, <1>4 DEF GoodVault
<1>7. GoodVault'
  <2>1. \A k \in Markets \ settled' : TradersExact(traders'[k], traderIndex'[k])
    BY <1>1, <1>2, <1>4, <1>6 DEF GoodVault
  <2>2. settled' \subseteq Markets /\ net' \in Int
    BY <1>1, <1>2 DEF GoodVault
  <2>. QED  BY <1>5, <1>6, <2>1, <2>2 DEF GoodVault, AccountsExact, TradersExact
<1>8. \A v \in Users, k \in Markets \ {m} : acct'[v].index[k] = 0 <=> acct[v].index[k] = 0
  <2>1. \A v \in Users, k \in Markets \ {m} : SizeIn(acct'[v], k) = SizeIn(acct[v], k)
    BY <1>2, <1>3 DEF Filled
  <2>2. \A v \in Users, k \in Markets : SizeIn(acct'[v], k) = 0 <=> acct'[v].index[k] = 0
    BY <1>5, SizeIsIndexed
  <2>3. \A v \in Users, k \in Markets : SizeIn(acct[v], k) = 0 <=> acct[v].index[k] = 0
    BY <1>1, SizeIsIndexed
  <2>. QED  BY <2>1, <2>2, <2>3
<1>9. ASSUME NEW k \in Markets \ settled PROVE AllListed(k)'
  <2>1. CASE k = m
    BY <1>2, <1>6, <2>1 DEF Filled, AllListed
  <2>2. CASE k # m
    BY <1>1, <1>6, <1>8, <2>2 DEF AllListed, HoldersListed
  <2>. QED  BY <2>1, <2>2
<1>10. \A k \in settled, v \in Users : acct'[v].index[k] = 0
  BY <1>1, <1>8 DEF LiqInv, VaultInv, GoodVault
<1>11. disturbed' \subseteq Markets
  BY <1>2 DEF LiqInv, VaultInv
<1>12. VaultInv'
  BY <1>2, <1>7, <1>9, <1>10, <1>11 DEF LiqInv, VaultInv
<1>13. BooksInv'
  <2>1. /\ sharers \in [Markets -> Seq(Users)] /\ unpaid \in [Markets -> Nat]
        /\ count \in 0 .. MaxLiquidations /\ pool = [k \in Markets |-> NoMoney]
    BY DEF LiqInv, BooksInv
  <2>2. sharers' \in [Markets -> Seq(Users)] /\ unpaid' \in [Markets -> Nat]
    BY <1>2, <1>4, <2>1
  <2>3. count' \in 0 .. MaxLiquidations
    BY <1>2, <2>1, LiquidationAssumption
  <2>4. pool' = [k \in Markets |-> NoMoney]
    BY <1>2, <2>1
  <2>. QED  BY <2>2, <2>3, <2>4 DEF BooksInv, NoMoney
<1>. QED  BY <1>12, <1>13 DEF LiqInv

\* What the steps are.
LEMMA LiqSteps ==
  ASSUME LiqInv, [LiqNext]_<<vars, liqVars>>
  PROVE  \/ UserStep /\ UNCHANGED liqVars
         \/ \E m \in Markets, price \in Nat : SettleMarket(m, price) /\ UNCHANGED liqVars
         \/ UNCHANGED <<vars, liqVars>>
         \/ \E m \in Markets \ settled, u \in Users, side \in {1, -1}, n \in Nat \ {0},
               y \in ForcedStates : LiquidatedTo(y, m, u, side, n)
<1>1. Expiring \subseteq Markets /\ SettlementPrices \subseteq Nat
  BY SettlementAssumption
<1>2. ASSUME NEW u \in Users, NEW m \in Markets, NEW fills \in Forced, NEW mark \in Marks,
             NEW makers \in [DOMAIN fills -> Users \ {u}],
             NEW then \in IF Len(fills) = 1 THEN {mark} ELSE Marks,
             LiquidateDirect(u, m, fills, makers, mark, then)
      PROVE  m \in Markets \ settled
             /\ \E side \in {1, -1}, n \in Nat \ {0}, y \in ForcedStates :
                  LiquidatedTo(y, m, u, side, n)
  <2>1. then \in Marks
    OBVIOUS
  <2>. QED  BY <1>2, <2>1, LiquidationEnds
<1>3. CASE UserStep /\ UNCHANGED liqVars
  BY <1>3
<1>4. ASSUME NEW m \in Expiring, NEW price \in SettlementPrices,
             SettleMarket(m, price) /\ UNCHANGED liqVars
      PROVE  \E k \in Markets, p \in Nat : SettleMarket(k, p) /\ UNCHANGED liqVars
  BY <1>1, <1>4
<1>5. CASE UNCHANGED <<vars, liqVars>>
  BY <1>5
<1>. QED  BY <1>2, <1>3, <1>4, <1>5 DEF LiqNext

\* Every step keeps the invariant.
LEMMA LiqStepKeeps == LiqInv /\ [LiqNext]_<<vars, liqVars>> => LiqInv'
<1>. SUFFICES ASSUME LiqInv, [LiqNext]_<<vars, liqVars>> PROVE LiqInv'
  OBVIOUS
<1>1. CASE UserStep /\ UNCHANGED liqVars
  BY <1>1, UserKeepsLiq
<1>2. ASSUME NEW m \in Markets, NEW price \in Nat, SettleMarket(m, price) /\ UNCHANGED liqVars
      PROVE  LiqInv'
  BY <1>2, SettleKeepsLiq
<1>3. CASE UNCHANGED <<vars, liqVars>>
  BY <1>3 DEF LiqInv, VaultInv, BooksInv, GoodVault, AccountsExact, TradersExact, AllListed,
              HoldersListed, vars, liqVars
<1>4. ASSUME NEW m \in Markets \ settled, NEW u \in Users, NEW side \in {1, -1},
             NEW n \in Nat \ {0}, NEW y \in ForcedStates, LiquidatedTo(y, m, u, side, n)
      PROVE  LiqInv'
  BY <1>4, LiquidationKeepsLiq
<1>. QED  BY <1>1, <1>2, <1>3, <1>4, LiqSteps

\* So it holds of every behaviour.
LEMMA LiqInvHolds == LiqSpec => []LiqInv
<1>. QED  BY LiqInitIsGood, LiqStepKeeps, PTL DEF LiqSpec

----------------------------------------------------------------------------
(* Theorems. *)

\* Every variable keeps its range: in particular no order book pays makers what
\* it has not got, however fills, penalties and rewards are rounded.
THEOREM LiqTypeCorrect == LiqSpec => []LiqTypeOK
<1>1. LiqInv => LiqTypeOK
  <2>. SUFFICES ASSUME LiqInv PROVE LiqTypeOK
    OBVIOUS
  <2>1. GoodVault
    BY DEF LiqInv, VaultInv
  <2>2. ASSUME NEW u \in Accounts
        PROVE  LET a == acct[u]
               IN /\ {a.collateral, a.credit, a.locked, a.reserved, a.socialized} \subseteq Nat
                  /\ a.pnl \in Int
                  /\ \A i \in DOMAIN a.positions :
                       a.positions[i] \in PositionRecords /\ a.positions[i].size # 0
                  /\ a.index \in [Markets -> Nat]
                  /\ a.orders \in [Orders -> Nat]
    <3>1. acct[u] \in AccountRecords
      BY <2>1 DEF GoodVault
    <3>2. acct[u].positions \in Seq(Held)
      BY <3>1 DEF AccountRecords
    <3>3. \A i \in DOMAIN acct[u].positions : acct[u].positions[i] \in Held
      BY <3>2
    <3>. QED  BY <3>1, <3>3 DEF AccountRecords, Held
  <2>3. \A m \in Markets : Elements(traders[m]) \subseteq Users
    BY <2>1 DEF GoodVault, Elements
  <2>4. \A m \in Markets : batch[m].phase \in Phases
    BY DEF LiqInv, VaultInv, NoBatch, Phases
  <2>5. TypeOK
    BY <2>1, <2>2, <2>3, <2>4 DEF LiqInv, VaultInv, GoodVault, TypeOK
  <2>6. \A m \in Markets : /\ Elements(sharers[m]) \subseteq Users
                           /\ pool[m] \in [collateral : Nat, credit : Nat]
                           /\ unpaid[m] \in Nat
    BY DEF LiqInv, BooksInv, NoMoney, Elements
  <2>. QED  BY <2>5, <2>6 DEF LiqTypeOK, LiqInv, BooksInv
<1>. QED  BY <1>1, LiqInvHolds, PTL

\* However liquidations close, reduce and hand over positions, the index of an
\* account names the slot of each market's position, and no market has two.
THEOREM LiqIndexNamesSlots == LiqSpec => []IndexIsExact
<1>1. LiqInv => IndexIsExact
  BY DEF LiqInv, VaultInv, GoodVault, AccountsExact, Exact, IndexIsExact, Accounts
<1>. QED  BY <1>1, LiqInvHolds, PTL

\* A liquidated trader may stay on the list of a market, but no liquidation
\* leaves anybody with a position off it, or on it twice: a settlement finds all.
THEOREM HoldersStayListed == LiqSpec => []HoldersAreListed
<1>1. LiqInv => HoldersAreListed
  <2>. SUFFICES ASSUME LiqInv, NEW m \in Markets \ settled, NEW u \in Users
                PROVE  /\ HasPosition(acct[u], m) => traderIndex[m][u] # 0
                       /\ {i \in DOMAIN traders[m] : traders[m][i] = u} =
                            IF traderIndex[m][u] = 0 THEN {} ELSE {traderIndex[m][u]}
    BY DEF HoldersAreListed
  <2>1. AllListed(m) /\ TradersExact(traders[m], traderIndex[m]) /\ AccountsGood(acct)
    BY DEF LiqInv, VaultInv, GoodVault, AccountsGood
  <2>2. HasPosition(acct[u], m) => acct[u].index[m] # 0
    BY <2>1, SizeIsIndexed
  <2>. QED  BY <2>1, <2>2 DEF AllListed, HoldersListed, TradersExact
<1>. QED  BY <1>1, LiqInvHolds, PTL

\* Nothing of a seized penalty stays with an order book: the makers of a
\* liquidation are paid all of it, and those of the next one none of it.
THEOREM PenaltiesGoToMakers == LiqSpec => []PenaltiesArePaidOut
<1>1. LiqInv => PenaltiesArePaidOut
  BY DEF LiqInv, BooksInv, NoMoney, PenaltiesArePaidOut
<1>. QED  BY <1>1, LiqInvHolds, PTL

\* A step that counts is a liquidation.
LEMMA CountedSteps ==
  ASSUME LiqInv, [LiqNext]_<<vars, liqVars>>, count' # count
  PROVE  \E m \in Markets \ settled, u \in Users, side \in {1, -1}, n \in Nat \ {0},
            y \in ForcedStates : LiquidatedTo(y, m, u, side, n)
BY LiqSteps DEF liqVars

\* A liquidation pays out no more money than it takes, if there is no fee.
LEMMA LiquidationTakes ==
  ASSUME FeeBps = 0, LiqInv, NEW m \in Markets \ settled, NEW u \in Users, NEW side, NEW n,
         NEW y, LiquidatedTo(y, m, u, side, n)
  PROVE  SumFunctionOnSet([v \in Accounts |-> Balance(acct'[v])], Accounts)
           <= SumFunctionOnSet([v \in Accounts |-> Balance(acct[v])], Accounts)
<1>. DEFINE z == StartOf(m)
<1>1. /\ GoodForced(z) /\ z.ledger.acct = acct /\ z.pool = NoMoney
  BY StartOfIsGood
<1>2. /\ Filled(z, y, m, u, side, n) /\ y.pool = NoMoney /\ acct' = y.ledger.acct
  BY DEF LiquidatedTo
<1>. HIDE DEF z
<1>3. Money(y) <= Money(z) /\ GoodForced(y)
  BY <1>2 DEF Filled
<1>4. PoolOf(y) = 0 /\ PoolOf(z) = 0
  BY <1>1, <1>2 DEF PoolOf, NoMoney
<1>5. MoneyIn(y.ledger.acct) \in Nat /\ MoneyIn(z.ledger.acct) \in Nat
  BY <1>1, <1>3, SumsOfForced
<1>6. MoneyIn(y.ledger.acct) <= MoneyIn(z.ledger.acct)
  BY <1>3, <1>4, <1>5 DEF Money
<1>7. /\ MoneyIn(acct) = SumFunctionOnSet([v \in Accounts |-> Balance(acct[v])], Accounts)
      /\ MoneyIn(y.ledger.acct) =
           SumFunctionOnSet([v \in Accounts |-> Balance(y.ledger.acct[v])], Accounts)
  BY DEF MoneyIn, BalanceOf
<1>. QED  BY <1>1, <1>2, <1>6, <1>7

\* Without fees, no liquidation creates money: whatever its makers are rewarded
\* with has been taken from the liquidated trader, over any number of fills.
THEOREM RewardsComeFromSeized ==
  ASSUME FeeBps = 0
  PROVE  LiqSpec => RewardsAreSeized
<1>. DEFINE Takes == count' # count =>
              SumFunctionOnSet([u \in Accounts |-> Balance(acct'[u])], Accounts)
                <= SumFunctionOnSet([u \in Accounts |-> Balance(acct[u])], Accounts)
<1>1. LiqInv /\ [LiqNext]_<<vars, liqVars>> => Takes
  <2>. SUFFICES ASSUME LiqInv, [LiqNext]_<<vars, liqVars>>, count' # count PROVE Takes
    OBVIOUS
  <2>1. PICK m \in Markets \ settled, u \in Users, side \in {1, -1}, n \in Nat \ {0},
             y \in ForcedStates : LiquidatedTo(y, m, u, side, n)
    BY CountedSteps
  <2>. QED  BY <2>1, LiquidationTakes
<1>. HIDE DEF Takes
<1>2. LiqSpec => [][Takes]_<<vars, liqVars>>
  BY <1>1, LiqInvHolds, PTL DEF LiqSpec
<1>. QED  BY <1>2, PTL DEF RewardsAreSeized, Takes

\* In a liquidation only u closes, unless a maker does; other markets rest.
LEMMA LossIsShared ==
  ASSUME LiqInv, NEW m \in Markets \ settled, NEW u \in Users, NEW side \in {1, -1},
         NEW n \in Nat \ {0}, NEW y, LiquidatedTo(y, m, u, side, n),
         NEW k \in Markets, Cardinality(Shrinking(k)) = 1
  PROVE  unpaid'[k] - unpaid[k] =
           (HaircutsOn(acct', k, Users \ Shrinking(k)) - HaircutsOn(acct, k, Users \ Shrinking(k)))
           + (badDebt'[k] - badDebt[k])
<1>. DEFINE z == StartOf(m)
<1>1. /\ GoodForced(z) /\ z.ledger.acct = acct
      /\ z.ledger.badDebt = badDebt[m] /\ z.unpaid = unpaid[m]
  BY StartOfIsGood
<1>2. /\ Filled(z, y, m, u, side, n) /\ acct' = y.ledger.acct
      /\ badDebt' = [badDebt EXCEPT ![m] = y.ledger.badDebt]
      /\ unpaid' = [unpaid EXCEPT ![m] = y.unpaid]
      /\ side = 1 <=> SizeIn(acct[u], m) > 0
      /\ SizeIn(acct[u], m) # 0
      /\ n <= Abs(SizeIn(acct[u], m))
  BY DEF LiquidatedTo
<1>. HIDE DEF z
<1>3. GoodForced(y) /\ AccountsGood(y.ledger.acct) /\ AccountsGood(acct)
  BY <1>1, <1>2, ForcedIsTyped DEF Filled
<1>4. \A v \in Users, j \in Markets :
        SizeIn(acct[v], j) \in Int /\ SizeIn(y.ledger.acct[v], j) \in Int
  BY <1>3, SizeIsIndexed
<1>5. \A j \in Markets :
        Shrinking(j) = {v \in Users : Closes(SizeIn(acct[v], j),
                                             SizeIn(y.ledger.acct[v], j) - SizeIn(acct[v], j))}
  BY <1>2 DEF Shrinking
<1>6. k = m
  <2>. SUFFICES ASSUME k # m PROVE FALSE
    OBVIOUS
  <2>1. \A v \in Users : SizeIn(y.ledger.acct[v], k) = SizeIn(acct[v], k)
    BY <1>1, <1>2 DEF Filled
  <2>2. \A v \in Users :
          ~Closes(SizeIn(acct[v], k), SizeIn(y.ledger.acct[v], k) - SizeIn(acct[v], k))
    BY <1>4, <2>1 DEF Closes
  <2>3. Shrinking(k) = {}
    BY <1>5, <2>2
  <2>. QED  BY <2>3, FS_EmptySet
<1>7. u \in Shrinking(m)
  <2>. DEFINE s == SizeIn(acct[u], m)
              t == SizeIn(y.ledger.acct[u], m)
  <2>1. t = Against(side, s, n)
    BY <1>1, <1>2 DEF Filled
  <2>2. s \in Int /\ t \in Int
    BY <1>4
  <2>3. Closes(s, t - s)
    <3>1. s # 0 /\ (side = 1 <=> s > 0)
      BY <1>2
    <3>. HIDE DEF s, t
    <3>. QED  BY <2>1, <2>2, <3>1 DEF Closes, Against
  <2>. QED  BY <1>5, <2>3
<1>8. Shrinking(m) = {u}
  <2>1. IsFiniteSet(Shrinking(m))
    BY VaultAssumption, FS_Subset DEF Shrinking
  <2>2. \E w : Shrinking(m) = {w}
    BY <1>6, <2>1, FS_Singleton
  <2>. QED  BY <1>7, <2>2
<1>9. Owed(y, m, u) = Owed(z, m, u)
  <2>1. \A v \in Users \ {u} :
          ~Closes(SizeIn(acct[v], m), SizeIn(y.ledger.acct[v], m) - SizeIn(acct[v], m))
    BY <1>5, <1>8
  <2>. QED  BY <1>1, <1>2, <2>1 DEF Filled
<1>10. /\ HaircutsOn(acct, m, Users \ {u}) \in Nat
       /\ HaircutsOn(y.ledger.acct, m, Users \ {u}) \in Nat
       /\ z.ledger.badDebt \in Nat /\ z.unpaid \in Nat
       /\ y.ledger.badDebt \in Nat /\ y.unpaid \in Nat
  BY <1>1, <1>3, SumsOfForced, ForcedIsTyped
<1>11. /\ unpaid'[m] = y.unpaid /\ badDebt'[m] = y.ledger.badDebt
  BY <1>2 DEF LiqInv, VaultInv, BooksInv, GoodVault
<1>12. y.unpaid - z.unpaid =
         (HaircutsOn(y.ledger.acct, m, Users \ {u}) - HaircutsOn(acct, m, Users \ {u}))
         + (y.ledger.badDebt - z.ledger.badDebt)
  BY <1>1, <1>9, <1>10 DEF Owed
<1>. QED  BY <1>1, <1>2, <1>6, <1>8, <1>11, <1>12

\* What a liquidated trader does not pay of a loss is found, to the unit, in the
\* haircuts of the others and in the bad debt of the market: no rounding of the
\* two passes, no capacity and no anchor price loses or doubles any of it.
THEOREM LossesAreAccountedFor == LiqSpec => UncoveredLossIsShared
<1>. DEFINE Shares == count' # count => \A m \in Markets : Cardinality(Shrinking(m)) = 1 =>
       unpaid'[m] - unpaid[m] =
         (HaircutsOn(acct', m, Users \ Shrinking(m)) - HaircutsOn(acct, m, Users \ Shrinking(m)))
         + (badDebt'[m] - badDebt[m])
<1>1. LiqInv /\ [LiqNext]_<<vars, liqVars>> => Shares
  <2>. SUFFICES ASSUME LiqInv, [LiqNext]_<<vars, liqVars>>, count' # count PROVE Shares
    OBVIOUS
  <2>1. PICK m \in Markets \ settled, u \in Users, side \in {1, -1}, n \in Nat \ {0},
             y \in ForcedStates : LiquidatedTo(y, m, u, side, n)
    BY CountedSteps
  <2>. QED  BY <2>1, LossIsShared
<1>. HIDE DEF Shares
<1>2. LiqSpec => [][Shares]_<<vars, liqVars>>
  BY <1>1, LiqInvHolds, PTL DEF LiqSpec
<1>. QED  BY <1>2 DEF UncoveredLossIsShared, Shares
=============================================================================
