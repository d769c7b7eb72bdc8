------------------------ MODULE OrderBookRefinement -------------------------
(***************************************************************************)
(* OrderBook implements PriorityBook: what its linked lists hold are two   *)
(* queues in price-time priority, and every call does to the queues what   *)
(* the promise says, for any number of prices, orders and traders.         *)
(*                                                                         *)
(* A queue in price-time priority is determined by the set of its orders   *)
(* (PriorityIsUnique).  So of each operation it is enough to show which    *)
(* orders, with which amounts, it leaves on which side.                    *)
(***************************************************************************)
EXTENDS OrderBookProofs

----------------------------------------------------------------------------
(* Queues in price-time priority. *)

\* An order of a queue of the promise.
Entries == [id: Nat, trader: Traders, price: Prices, amount: Nat]

\* Of two orders of a side, o is served before r.
Prior(side, o, r) == Ahead(side, o.price, r.price) \/ (o.price = r.price /\ o.id < r.id)

\* A queue of orders, the one to be served first at its head.
InPriority(side, q) ==
  q \in Seq(Entries) /\ \A i, j \in 1 .. Len(q) : i < j => Prior(side, q[i], q[j])

\* The order in which orders are served is a strict one.
LEMMA PriorIsOrder ==
  ASSUME NEW side \in Sides, NEW o \in Entries, NEW r \in Entries
  PROVE  /\ ~(Prior(side, o, r) /\ Prior(side, r, o)) /\ ~Prior(side, o, o)
         /\ \A u \in Entries : Prior(side, o, r) /\ Prior(side, r, u) => Prior(side, o, u)
<1>1. o.price \in Nat /\ r.price \in Nat /\ o.id \in Nat /\ r.id \in Nat
  BY BookConstants DEF Entries
<1>2. ~(Prior(side, o, r) /\ Prior(side, r, o)) /\ ~Prior(side, o, o)
  BY <1>1 DEF Prior, Ahead
<1>3. ASSUME NEW u \in Entries, Prior(side, o, r), Prior(side, r, u) PROVE Prior(side, o, u)
  <2>1. u.price \in Nat /\ u.id \in Nat
    BY BookConstants DEF Entries
  <2>. QED  BY <1>1, <1>3, <2>1 DEF Prior, Ahead
<1>. QED  BY <1>2, <1>3

\* The members of a queue.
LEMMA InRange ==
  ASSUME NEW D, NEW q \in Seq(D)
  PROVE  /\ Len(q) \in Nat /\ Range(q) \subseteq D
         /\ \A i \in 1 .. Len(q) : q[i] \in D /\ q[i] \in Range(q)
         /\ \A x \in Range(q) : \E i \in 1 .. Len(q) : q[i] = x
BY DEF Range

\* Two queues, one behind the other.
LEMMA JoinedInPriority ==
  ASSUME NEW side \in Sides, NEW q, InPriority(side, q), NEW r, InPriority(side, r),
         \A x \in Range(q), y \in Range(r) : Prior(side, x, y)
  PROVE  InPriority(side, q \o r) /\ Range(q \o r) = Range(q) \cup Range(r)
<1>. DEFINE s == q \o r
            n == Len(q)
<1>1. q \in Seq(Entries) /\ r \in Seq(Entries)
  BY DEF InPriority
<1>2. /\ s \in Seq(Entries) /\ Len(s) = n + Len(r) /\ n \in Nat /\ Len(r) \in Nat
      /\ \A i \in 1 .. Len(s) : s[i] = IF i <= n THEN q[i] ELSE r[i - n]
  BY <1>1
<1>3. ASSUME NEW i \in 1 .. Len(s), NEW j \in 1 .. Len(s), i < j PROVE Prior(side, s[i], s[j])
  <2>1. CASE j <= n
    BY <1>2, <1>3, <2>1 DEF InPriority
  <2>2. CASE i > n
    <3>1. i - n \in 1 .. Len(r) /\ j - n \in 1 .. Len(r) /\ i - n < j - n
      BY <1>2, <1>3, <2>2
    <3>. QED  BY <1>2, <1>3, <2>2, <3>1 DEF InPriority
  <2>3. CASE i <= n /\ j > n
    <3>1. i \in 1 .. Len(q) /\ j - n \in 1 .. Len(r)
      BY <1>2, <1>3, <2>3
    <3>2. q[i] \in Range(q) /\ r[j - n] \in Range(r)
      BY <1>1, <3>1, InRange
    <3>. QED  BY <1>2, <2>3, <3>2
  <2>. QED  BY <1>2, <2>1, <2>2, <2>3
<1>4. ASSUME NEW x \in Range(s) PROVE x \in Range(q) \cup Range(r)
  <2>1. PICK i \in 1 .. Len(s) : s[i] = x
    BY <1>2, <1>4, InRange
  <2>2. i \in 1 .. Len(q) \/ i - n \in 1 .. Len(r)
    BY <1>2
  <2>3. (i <= n => i \in 1 .. Len(q)) /\ (i > n => i - n \in 1 .. Len(r))
    BY <1>2
  <2>. QED  BY <1>1, <1>2, <2>1, <2>3, InRange
<1>5. ASSUME NEW x \in Range(q) PROVE x \in Range(s)
  <2>1. PICK i \in 1 .. Len(q) : q[i] = x
    BY <1>1, <1>5, InRange
  <2>2. i \in 1 .. Len(s) /\ s[i] = x
    BY <1>2, <2>1
  <2>. QED  BY <1>2, <2>2, InRange
<1>6. ASSUME NEW x \in Range(r) PROVE x \in Range(s)
  <2>1. PICK i \in 1 .. Len(r) : r[i] = x
    BY <1>1, <1>6, InRange
  <2>2. i + n \in 1 .. Len(s) /\ s[i + n] = x
    BY <1>2, <2>1
  <2>. QED  BY <1>2, <2>2, InRange
<1>. HIDE DEF s
<1>7. Range(s) = Range(q) \cup Range(r)
  BY <1>4, <1>5, <1>6
<1>8. InPriority(side, s)
  BY <1>2, <1>3 DEF InPriority
<1>. QED  BY <1>7, <1>8 DEF s

\* An order alone is a queue.
LEMMA OneInPriority ==
  ASSUME NEW side, NEW o \in Entries
  PROVE  InPriority(side, <<o>>) /\ Range(<<o>>) = {o}
<1>1. <<o>> \in Seq(Entries) /\ Len(<<o>>) = 1 /\ <<o>>[1] = o
  OBVIOUS
<1>. QED  BY <1>1 DEF InPriority, Range

\* A queue with one more order at its end.
LEMMA AppendedInPriority ==
  ASSUME NEW side \in Sides, NEW q, InPriority(side, q), NEW o \in Entries,
         \A x \in Range(q) : Prior(side, x, o)
  PROVE  InPriority(side, Append(q, o)) /\ Range(Append(q, o)) = Range(q) \cup {o}
<1>1. InPriority(side, <<o>>) /\ Range(<<o>>) = {o}
  BY OneInPriority
<1>2. q \in Seq(Entries)
  BY DEF InPriority
<1>3. Append(q, o) = q \o <<o>>
  BY <1>2
<1>4. \A x \in Range(q), y \in Range(<<o>>) : Prior(side, x, y)
  BY <1>1
<1>. QED  BY <1>1, <1>3, <1>4, JoinedInPriority

\* The order of a queue is determined by its members.
LEMMA PriorityIsUnique ==
  ASSUME NEW side \in Sides, NEW q, InPriority(side, q), NEW r, InPriority(side, r),
         Range(q) = Range(r)
  PROVE  q = r
<1>. DEFINE T == {k \in Nat : \A i \in 1 .. k : (i <= Len(q) \/ i <= Len(r))
                                 => i <= Len(q) /\ i <= Len(r) /\ q[i] = r[i]}
<1>1. q \in Seq(Entries) /\ r \in Seq(Entries) /\ Len(q) \in Nat /\ Len(r) \in Nat
  BY DEF InPriority
<1>2. 0 \in T
  OBVIOUS
<1>3. ASSUME NEW u, NEW v, InPriority(side, u), InPriority(side, v), Range(u) = Range(v),
             NEW k \in Nat, k + 1 <= Len(u),
             \A i \in 1 .. k : i <= Len(u) /\ i <= Len(v) /\ u[i] = v[i]
      PROVE  \E a \in 1 .. Len(v) : v[a] = u[k + 1] /\ k + 1 <= a
  <2>1. u \in Seq(Entries) /\ v \in Seq(Entries) /\ Len(u) \in Nat /\ k + 1 \in 1 .. Len(u)
    BY <1>3 DEF InPriority
  <2>2. u[k + 1] \in Range(v) /\ u[k + 1] \in Entries
    BY <1>3, <2>1, InRange
  <2>3. PICK a \in 1 .. Len(v) : v[a] = u[k + 1]
    BY <2>1, <2>2, InRange
  <2>4. ASSUME a <= k PROVE FALSE
    <3>1. a \in 1 .. k /\ a \in 1 .. Len(u) /\ a < k + 1
      BY <1>3, <2>1, <2>4
    <3>2. u[a] = u[k + 1]
      BY <1>3, <2>3, <3>1
    <3>3. Prior(side, u[a], u[k + 1])
      BY <1>3, <2>1, <3>1 DEF InPriority
    <3>. QED  BY <2>2, <3>2, <3>3, PriorIsOrder
  <2>5. a \in Nat
    OBVIOUS
  <2>. QED  BY <2>3, <2>4, <2>5
<1>4. ASSUME NEW k \in Nat, k \in T PROVE k + 1 \in T
  <2>. DEFINE n == k + 1
  <2>1. \A i \in 1 .. k : (i <= Len(q) \/ i <= Len(r)) => i <= Len(q) /\ i <= Len(r) /\ q[i] = r[i]
    BY <1>4
  <2>2. SUFFICES ASSUME n <= Len(q) \/ n <= Len(r)
                 PROVE  n <= Len(q) /\ n <= Len(r) /\ q[n] = r[n]
    BY <2>1
  <2>3. \A i \in 1 .. k : i <= Len(q) /\ i <= Len(r) /\ q[i] = r[i] /\ r[i] = q[i]
    BY <1>1, <2>1, <2>2
  <2>4. n <= Len(q) => \E a \in 1 .. Len(r) : r[a] = q[n] /\ n <= a
    BY <1>3, <2>3
  <2>5. n <= Len(r) => \E a \in 1 .. Len(q) : q[a] = r[n] /\ n <= a
    BY <1>3, <2>3
  <2>6. n <= Len(q) /\ n <= Len(r) /\ n \in 1 .. Len(q) /\ n \in 1 .. Len(r)
    BY <1>1, <2>2, <2>4, <2>5
  <2>7. PICK a \in 1 .. Len(r) : r[a] = q[n] /\ n <= a
    BY <2>4, <2>6
  <2>8. PICK c \in 1 .. Len(q) : q[c] = r[n] /\ n <= c
    BY <2>5, <2>6
  <2>9. ASSUME a # n, c # n PROVE FALSE
    <3>1. n < a /\ n < c
      BY <2>7, <2>8, <2>9
    <3>2. Prior(side, r[n], r[a]) /\ Prior(side, q[n], q[c])
      BY <2>6, <3>1 DEF InPriority
    <3>3. q[n] \in Entries /\ r[n] \in Entries
      BY <1>1, <2>6, InRange
    <3>. QED  BY <2>7, <2>8, <3>2, <3>3, PriorIsOrder
  <2>. QED  BY <2>6, <2>7, <2>8, <2>9
<1>5. \A k \in Nat : k \in T
  <2>. HIDE DEF T
  <2>. QED  BY <1>2, <1>4, SetInduction
<1>6. ASSUME NEW i \in Nat, i # 0, i <= Len(q) \/ i <= Len(r)
      PROVE  i <= Len(q) /\ i <= Len(r) /\ q[i] = r[i]
  <2>1. i \in T /\ i \in 1 .. i
    BY <1>5, <1>6
  <2>. QED  BY <1>6, <2>1
<1>7. Len(q) = Len(r)
  <2>1. Len(q) # 0 => Len(q) <= Len(r)
    BY <1>1, <1>6
  <2>2. Len(r) # 0 => Len(r) <= Len(q)
    BY <1>1, <1>6
  <2>. QED  BY <1>1, <2>1, <2>2
<1>8. \A i \in 1 .. Len(q) : q[i] = r[i]
  BY <1>1, <1>6
<1>. QED  BY <1>1, <1>7, <1>8

\* Some of the orders of a queue.
LEMMA SomeInPriority ==
  ASSUME NEW side \in Sides, NEW q, InPriority(side, q), NEW U
  PROVE  InPriority(side, Promise!Only(q, U)) /\ Range(Promise!Only(q, U)) = Range(q) \cap U
<1>. DEFINE n == Len(q)
            Turn(s, k) == IF q[k] \in U THEN Append(s, q[k]) ELSE s
            Loop(f) == f = [k \in 0 .. n |->
                              IF k = 0 THEN <<>>
                              ELSE IF q[k] \in U THEN Append(f[k - 1], q[k]) ELSE f[k - 1]]
            loop == CHOOSE f : Loop(f)
            Seen(k) == {q[j] : j \in 1 .. k}
            Fits(s, k) == InPriority(side, s) /\ Range(s) = Seen(k) \cap U
            S == [k \in 0 .. n |-> {s \in Seq(Entries) : Fits(s, k)}]
            G == [k \in 1 .. n |-> [s \in S[k - 1] |-> Turn(s, k)]]
<1>1. Promise!Only(q, U) = loop[n]
  BY Zenon DEF Promise!Only
<1>2. /\ n \in Nat /\ q \in Seq(Entries)
      /\ \A k \in 1 .. n : q[k] \in Entries
      /\ \A j, k \in 1 .. n : j < k => Prior(side, q[j], q[k])
  BY InRange DEF InPriority
<1>3. <<>> \in S[0]
  <2>1. <<>> \in Seq(Entries) /\ Len(<<>>) = 0 /\ Range(<<>>) = {}
    BY DEF Range
  <2>2. Seen(0) = {}
    OBVIOUS
  <2>3. InPriority(side, <<>>)
    BY <2>1 DEF InPriority
  <2>4. Fits(<<>>, 0)
    <3>. HIDE DEF Seen
    <3>. QED  BY <2>1, <2>2, <2>3
  <2>. HIDE DEF Fits
  <2>. QED  BY <1>2, <2>1, <2>4
<1>4. ASSUME NEW k \in 1 .. n, NEW s \in S[k - 1] PROVE Turn(s, k) \in S[k]
  <2>1. /\ k - 1 \in 0 .. n /\ k \in 0 .. n /\ 1 .. k = (1 .. k - 1) \cup {k}
        /\ \A j \in 1 .. k - 1 : j \in 1 .. n /\ j < k
    BY <1>2
  <2>2. Fits(s, k - 1)
    <3>. HIDE DEF Fits
    <3>. QED  BY <2>1
  <2>3. Seen(k) = Seen(k - 1) \cup {q[k]}
    BY <2>1
  <2>4. \A x \in Seen(k - 1) : Prior(side, x, q[k])
    BY <1>2, <2>1
  <2>. HIDE DEF Seen
  <2>5. q[k] \in U => InPriority(side, Append(s, q[k]))
                      /\ Range(Append(s, q[k])) = Range(s) \cup {q[k]}
    <3>1. InPriority(side, s) /\ \A x \in Range(s) : Prior(side, x, q[k])
      BY <2>2, <2>4
    <3>2. q[k] \in Entries
      BY <1>2
    <3>. QED  BY <3>1, <3>2, AppendedInPriority
  <2>6. Fits(Turn(s, k), k)
    BY <2>2, <2>3, <2>5
  <2>7. Turn(s, k) \in Seq(Entries)
    BY <2>6 DEF InPriority
  <2>. HIDE DEF Turn, Fits
  <2>. QED  BY <2>1, <2>6, <2>7
<1>. HIDE DEF S
<1>5. LeadsOn(S, n, G)
  <2>. HIDE DEF Turn
  <2>. QED  BY <1>4 DEF LeadsOn
<1>6. PICK f : Runs(f, S, <<>>, n, G)
  <2>. HIDE DEF G
  <2>. QED  BY <1>2, <1>3, <1>5, RunExists
<1>7. Loop(f)
  <2>1. \A k \in 1 .. n : f[k] = Turn(f[k - 1], k)
    <3>1. \A k \in 1 .. n : k - 1 \in 0 .. n
      BY <1>2
    <3>. HIDE DEF Turn
    <3>. QED  BY <1>6, <3>1 DEF Runs
  <2>2. f = [k \in 0 .. n |-> f[k]] /\ f[0] = <<>>
    BY <1>6 DEF Runs
  <2>3. \A k \in 0 .. n : k = 0 \/ k \in 1 .. n
    BY <1>2
  <2>4. \A k \in 0 .. n : f[k] = IF k = 0 THEN <<>> ELSE Turn(f[k - 1], k)
    <3>. HIDE DEF Turn
    <3>. QED  BY <2>1, <2>2, <2>3, Zenon
  <2>. QED  BY <2>2, <2>4
<1>8. Loop(loop)
  <2>. HIDE DEF Loop
  <2>. QED  BY <1>7, Zenon
<1>. HIDE DEF loop
<1>9. loop[0] = <<>> /\ \A k \in 1 .. n : loop[k] = Turn(loop[k - 1], k)
  <2>1. \A k \in 1 .. n : k \in 0 .. n /\ k # 0
    BY <1>2
  <2>2. 0 \in 0 .. n
    BY <1>2
  <2>3. \A k \in 0 .. n : loop[k] = IF k = 0 THEN <<>> ELSE Turn(loop[k - 1], k)
    BY <1>8, Zenon
  <2>. HIDE DEF Turn
  <2>. QED  BY <2>1, <2>2, <2>3
<1>10. \A k \in 0 .. n : loop[k] \in S[k]
  <2>. HIDE DEF Turn
  <2>1. loop[0] \in S[0] /\ \A k \in 1 .. n : loop[k - 1] \in S[k - 1] => loop[k] \in S[k]
    BY <1>3, <1>4, <1>9
  <2>. QED  BY <1>2, <2>1, TurnByTurn
<1>11. loop[n] \in S[n]
  BY <1>2, <1>10
<1>12. Fits(loop[n], n)
  <2>. HIDE DEF Fits, n
  <2>. QED  BY <1>2, <1>11 DEF S
<1>13. Seen(n) = Range(q)
  BY <1>2 DEF Range
<1>. QED  BY <1>1, <1>12, <1>13

\* A new order takes its place in a queue behind those of its price.
LEMMA EnqueuedInPriority ==
  ASSUME NEW side \in Sides, NEW q, InPriority(side, q), NEW o \in Entries,
         \A x \in Range(q) : x.id < o.id
  PROVE  /\ InPriority(side, Promise!Enqueue(q, side, o))
         /\ Range(Promise!Enqueue(q, side, o)) = Range(q) \cup {o}
<1>. DEFINE R == Range(q)
            W == {r \in R : Ahead(side, o.price, r.price)}
            u == Promise!Only(q, R \ W)
            v == Promise!Only(q, W)
<1>1. Promise!Enqueue(q, side, o) = u \o <<o>> \o v
  BY Zenon DEF Promise!Enqueue, Promise!Ahead, Ahead, Promise!Range, Range
<1>2. /\ InPriority(side, u) /\ Range(u) = R \cap (R \ W)
      /\ InPriority(side, v) /\ Range(v) = R \cap W
  <2>. HIDE DEF R, W
  <2>. QED  BY SomeInPriority DEF R
<1>3. InPriority(side, <<o>>) /\ Range(<<o>>) = {o}
  BY OneInPriority
<1>4. \A x \in R : x \in Entries
  BY InRange DEF InPriority
<1>5. ASSUME NEW x \in R \ W PROVE Prior(side, x, o)
  <2>1. ~Ahead(side, o.price, x.price) /\ x.id < o.id /\ x.price \in Prices /\ o.price \in Prices
    BY <1>4 DEF Entries
  <2>. QED  BY <2>1, AheadIsOrder DEF Prior
<1>6. ASSUME NEW y \in W PROVE Prior(side, o, y)
  BY DEF Prior
<1>7. ASSUME NEW x \in R \ W, NEW y \in W PROVE Prior(side, x, y)
  <2>1. Prior(side, x, o) /\ Prior(side, o, y)
    BY <1>5, <1>6
  <2>. QED  BY <1>4, <2>1, PriorIsOrder
<1>. HIDE DEF u, v, W, R
<1>8. InPriority(side, u \o <<o>>) /\ Range(u \o <<o>>) = Range(u) \cup {o}
  <2>1. \A x \in Range(u), y \in Range(<<o>>) : Prior(side, x, y)
    BY <1>2, <1>3, <1>5
  <2>. QED  BY <1>2, <1>3, <2>1, JoinedInPriority
<1>9. \A x \in Range(u \o <<o>>), y \in Range(v) : Prior(side, x, y)
  BY <1>2, <1>6, <1>7, <1>8
<1>10. /\ InPriority(side, (u \o <<o>>) \o v)
       /\ Range((u \o <<o>>) \o v) = Range(u \o <<o>>) \cup Range(v)
  BY <1>2, <1>8, <1>9, JoinedInPriority
<1>11. Range(u) \cup {o} \cup Range(v) = R \cup {o}
  BY <1>2 DEF W
<1>. QED  BY <1>1, <1>8, <1>10, <1>11 DEF R

\* What an incoming order has met so far: the orders kept, what is left, the fills.
Takings == [kept: Seq(Entries), left: Nat, fills: Nat]

\* The orders kept are some of the first k of the queue, perhaps with less left.
Taken(maker, q, k, s) ==
  /\ s \in Takings /\ InPriority(maker, s.kept)
  /\ \A x \in Range(s.kept) : \E j \in 1 .. k : x.id = q[j].id /\ x.price = q[j].price

\* o with that much left.
Reduced(o, left) == [o EXCEPT !.amount = left]

\* One order of the queue is kept, met or met in part.
LEMMA TakingCases ==
  ASSUME NEW s \in Takings, NEW o \in Entries, NEW t, NEW side, NEW limit,
         NEW r, r = Promise!Meet(s, o, t, side, limit)
  PROVE  \/ /\ s.left = 0 \/ s.fills = MaxMatches \/ ~Accepts(side, limit, o.price)
            /\ r = [s EXCEPT !.kept = Append(s.kept, o)]
         \/ /\ ~(s.left = 0 \/ s.fills = MaxMatches \/ ~Accepts(side, limit, o.price))
            /\ \/ o.trader = t /\ r = s
               \/ /\ o.trader # t /\ s.left >= o.amount
                  /\ r = [kept |-> s.kept, left |-> s.left - o.amount, fills |-> s.fills + 1]
               \/ /\ o.trader # t /\ s.left < o.amount
                  /\ r = [kept |-> Append(s.kept, Reduced(o, o.amount - s.left)),
                          left |-> 0, fills |-> s.fills + 1]
<1>. DEFINE over == s.left = 0 \/ s.fills = MaxMatches \/ ~Accepts(side, limit, o.price)
            fill == IF s.left < o.amount THEN s.left ELSE o.amount
            kept == IF fill = o.amount THEN s.kept
                    ELSE Append(s.kept, [o EXCEPT !.amount = @ - fill])
<1>1. s.left \in Nat /\ o.amount \in Nat
  BY DEF Takings, Entries
<1>2. r = IF over THEN [s EXCEPT !.kept = Append(s.kept, o)]
          ELSE IF o.trader = t THEN s
          ELSE [kept |-> kept, left |-> s.left - fill, fills |-> s.fills + 1]
  BY Zenon DEF Promise!Meet, Promise!Accepts, Accepts, Promise!Ahead, Ahead, Promise!Other, Other
<1>. HIDE DEF over
<1>3. CASE over
  BY <1>2, <1>3 DEF over
<1>4. CASE ~over /\ o.trader = t
  BY <1>2, <1>4 DEF over
<1>5. CASE ~over /\ o.trader # t /\ s.left >= o.amount
  <2>1. fill = o.amount
    BY <1>1, <1>5
  <2>. HIDE DEF fill
  <2>2. r = [kept |-> s.kept, left |-> s.left - o.amount, fills |-> s.fills + 1]
    BY <1>2, <1>5, <2>1
  <2>. QED  BY <1>5, <2>2 DEF over
<1>6. CASE ~over /\ o.trader # t /\ s.left < o.amount
  <2>1. fill = s.left /\ fill # o.amount /\ s.left - s.left = 0
    BY <1>1, <1>6
  <2>. HIDE DEF fill
  <2>2. kept = Append(s.kept, [o EXCEPT !.amount = o.amount - s.left])
    BY <2>1
  <2>. HIDE DEF kept
  <2>3. r = [kept |-> Append(s.kept, Reduced(o, o.amount - s.left)),
             left |-> 0, fills |-> s.fills + 1]
    BY <1>2, <1>6, <2>1, <2>2 DEF Reduced
  <2>. QED  BY <1>6, <2>3 DEF over
<1>7. s.left < o.amount \/ s.left >= o.amount
  BY <1>1
<1>. QED  BY <1>3, <1>4, <1>5, <1>6, <1>7

\* One order more.
LEMMA TakingOne ==
  ASSUME NEW maker \in Sides, NEW q, InPriority(maker, q), NEW k \in 1 .. Len(q),
         NEW s, Taken(maker, q, k - 1, s), NEW t, NEW side, NEW limit,
         NEW r, r = Promise!Meet(s, q[k], t, side, limit)
  PROVE  Taken(maker, q, k, r)
<1>. DEFINE o == q[k]
<1>1. /\ Len(q) \in Nat /\ k \in 1 .. k
      /\ \A j \in 1 .. k - 1 : j \in 1 .. Len(q) /\ j \in 1 .. k /\ j < k
      /\ \A j \in 1 .. Len(q) : q[j] \in Entries
  BY InRange DEF InPriority
<1>2. o \in Entries /\ s \in Takings
  BY <1>1 DEF Taken
<1>3. ASSUME NEW u \in Entries, u.id = o.id, u.price = o.price
      PROVE  /\ Append(s.kept, u) \in Seq(Entries) /\ InPriority(maker, Append(s.kept, u))
             /\ \A x \in Range(Append(s.kept, u)) :
                  \E j \in 1 .. k : x.id = q[j].id /\ x.price = q[j].price
  <2>1. ASSUME NEW x \in Range(s.kept) PROVE Prior(maker, x, u)
    <3>1. PICK j \in 1 .. k - 1 : x.id = q[j].id /\ x.price = q[j].price
      BY <2>1 DEF Taken
    <3>2. Prior(maker, q[j], q[k])
      BY <1>1, <3>1 DEF InPriority
    <3>. QED  BY <1>3, <3>1, <3>2 DEF Prior
  <2>2. /\ InPriority(maker, Append(s.kept, u))
        /\ Range(Append(s.kept, u)) = Range(s.kept) \cup {u}
    BY <2>1, AppendedInPriority DEF Taken
  <2>. QED  BY <1>1, <1>3, <2>2 DEF Taken, InPriority
<1>4. \A x \in Range(s.kept) : \E j \in 1 .. k : x.id = q[j].id /\ x.price = q[j].price
  BY <1>1 DEF Taken
<1>5. InPriority(maker, s.kept) /\ s.kept \in Seq(Entries) /\ s.left \in Nat /\ s.fills \in Nat
  BY DEF Taken, Takings, InPriority
<1>6. CASE r = [s EXCEPT !.kept = Append(s.kept, o)]
  <2>1. r.kept = Append(s.kept, o) /\ (Append(s.kept, o) \in Seq(Entries) => r \in Takings)
    BY <1>2, <1>6 DEF Takings
  <2>. QED  BY <1>2, <1>3, <2>1 DEF Taken
<1>7. CASE r = s
  BY <1>2, <1>4, <1>5, <1>7 DEF Taken
<1>8. CASE /\ s.left >= o.amount
           /\ r = [kept |-> s.kept, left |-> s.left - o.amount, fills |-> s.fills + 1]
  <2>1. r.kept = s.kept /\ r \in Takings
    BY <1>2, <1>5, <1>8 DEF Takings, Entries
  <2>. QED  BY <1>4, <1>5, <2>1 DEF Taken
<1>9. CASE /\ s.left < o.amount
           /\ r = [kept |-> Append(s.kept, Reduced(o, o.amount - s.left)),
                   left |-> 0, fills |-> s.fills + 1]
  <2>. DEFINE u == Reduced(o, o.amount - s.left)
  <2>1. o.amount - s.left \in Nat
    BY <1>2, <1>5, <1>9 DEF Entries
  <2>2. u \in Entries /\ u.id = o.id /\ u.price = o.price
    <3>1. ASSUME NEW w \in Entries, NEW left \in Nat
          PROVE  /\ Reduced(w, left) \in Entries
                 /\ Reduced(w, left).id = w.id /\ Reduced(w, left).price = w.price
      BY DEF Entries, Reduced
    <3>. HIDE DEF o
    <3>. QED  BY <1>2, <2>1, <3>1
  <2>. HIDE DEF u
  <2>3. Append(s.kept, u) \in Seq(Entries)
    BY <1>3, <2>2
  <2>4. r.kept = Append(s.kept, u) /\ r \in Takings
    BY <1>5, <1>9, <2>3 DEF Takings, u
  <2>. QED  BY <1>3, <2>2, <2>4 DEF Taken
<1>. HIDE DEF o
<1>10. r = Promise!Meet(s, o, t, side, limit)
  BY DEF o
<1>. QED  BY <1>2, <1>6, <1>7, <1>8, <1>9, <1>10, TakingCases

\* M lists what an order has met, order by order of the queue.
TakesSo(M, maker, q, t, side, limit, amount) ==
  /\ M[0] = [kept |-> <<>>, left |-> amount, fills |-> 0]
  /\ \A k \in 1 .. Len(q) : M[k] = Promise!Meet(M[k - 1], q[k], t, side, limit)
  /\ \A k \in 0 .. Len(q) : Taken(maker, q, k, M[k])

\* Take gives the last of them.
LEMMA TakingAll ==
  ASSUME NEW maker \in Sides, NEW q, InPriority(maker, q), NEW t, NEW side, NEW limit,
         NEW amount \in Nat
  PROVE  \E M : /\ TakesSo(M, maker, q, t, side, limit, amount)
                /\ Promise!Take(q, t, side, limit, amount) = M[Len(q)]
<1>. DEFINE n == Len(q)
            start == [kept |-> <<>>, left |-> amount, fills |-> 0]
            Turn(s, k) == Promise!Meet(s, q[k], t, side, limit)
            Loop(f) == f = [k \in 0 .. n |-> IF k = 0 THEN start ELSE Turn(f[k - 1], k)]
            loop == CHOOSE f : Loop(f)
            S == [k \in 0 .. n |-> {s \in Takings : Taken(maker, q, k, s)}]
            G == [k \in 1 .. n |-> [s \in S[k - 1] |-> Turn(s, k)]]
<1>1. Promise!Take(q, t, side, limit, amount) = loop[n]
  BY Zenon DEF Promise!Take
<1>2. n \in Nat /\ \A k \in 1 .. n : k - 1 \in 0 .. n /\ k \in 0 .. n /\ k # 0
  BY DEF InPriority
<1>3. start \in S[0]
  <2>1. <<>> \in Seq(Entries) /\ Len(<<>>) = 0 /\ Range(<<>>) = {}
    BY DEF Range
  <2>2. InPriority(maker, <<>>)
    BY <2>1 DEF InPriority
  <2>3. start \in Takings /\ start.kept = <<>>
    BY <2>1 DEF Takings
  <2>. HIDE DEF start
  <2>4. Taken(maker, q, 0, start)
    BY <2>1, <2>2, <2>3 DEF Taken
  <2>. QED  BY <1>2, <2>3, <2>4
<1>4. ASSUME NEW k \in 1 .. n, NEW s \in S[k - 1] PROVE Turn(s, k) \in S[k]
  <2>1. Taken(maker, q, k - 1, s)
    BY <1>2
  <2>2. Taken(maker, q, k, Turn(s, k))
    BY <2>1, TakingOne
  <2>. HIDE DEF Turn
  <2>3. Turn(s, k) \in Takings
    BY <2>2 DEF Taken
  <2>. QED  BY <1>2, <2>2, <2>3
<1>. HIDE DEF Turn, S, start, n
<1>5. LeadsOn(S, n, G)
  BY <1>4 DEF LeadsOn
<1>6. PICK f : Runs(f, S, start, n, G)
  <2>. HIDE DEF G
  <2>. QED  BY <1>2, <1>3, <1>5, RunExists
<1>7. Loop(f)
  <2>1. \A k \in 1 .. n : f[k] = Turn(f[k - 1], k)
    BY <1>2, <1>6 DEF Runs
  <2>2. f = [k \in 0 .. n |-> f[k]] /\ f[0] = start
    BY <1>6 DEF Runs
  <2>3. \A k \in 0 .. n : k = 0 \/ k \in 1 .. n
    BY <1>2
  <2>4. \A k \in 0 .. n : f[k] = IF k = 0 THEN start ELSE Turn(f[k - 1], k)
    BY <2>1, <2>2, <2>3, Zenon
  <2>. QED  BY <2>2, <2>4
<1>8. Loop(loop)
  <2>. HIDE DEF Loop
  <2>. QED  BY <1>7, Zenon
<1>. HIDE DEF loop
<1>9. loop[0] = start /\ \A k \in 1 .. n : loop[k] = Turn(loop[k - 1], k)
  BY <1>2, <1>8
<1>10. \A k \in 0 .. n : loop[k] \in S[k]
  <2>1. loop[0] \in S[0] /\ \A k \in 1 .. n : loop[k - 1] \in S[k - 1] => loop[k] \in S[k]
    BY <1>3, <1>4, <1>9
  <2>. QED  BY <1>2, <2>1, TurnByTurn
<1>11. \A k \in 0 .. n : Taken(maker, q, k, loop[k])
  BY <1>10 DEF S
<1>12. TakesSo(loop, maker, q, t, side, limit, amount)
  BY <1>9, <1>11 DEF TakesSo, n, start, Turn
<1>. QED  BY <1>1, <1>12 DEF n

----------------------------------------------------------------------------
(* The queue of a side, level by level. *)

\* h[s] joins the sequences C[x] of the members x of s, which pick takes in turn.
Concatenates(h, S, pick, C) ==
  h = [s \in SUBSET S |-> IF s = {} THEN <<>> ELSE C[pick[s]] \o h[s \ {pick[s]}]]

\* pick takes a member of every part of S that has one.
Picks(pick, S) == \A s \in SUBSET S : s # {} => pick[s] \in s

\* A finite set has an h, by induction on the cardinality of its parts.
LEMMA JoinsExist ==
  ASSUME NEW S, IsFiniteSet(S), NEW pick, Picks(pick, S), NEW C
  PROVE  \E h : Concatenates(h, S, pick, C)
<1>. DEFINE Small(n) == {s \in SUBSET S : Cardinality(s) <= n}
            Joint(h, s) == IF s = {} THEN <<>> ELSE C[pick[s]] \o h[s \ {pick[s]}]
            Layer(h, n) == h = [s \in Small(n) |-> Joint(h, s)]
            T == {n \in Nat : \E h : Layer(h, n)}
<1>1. \A s \in SUBSET S : /\ IsFiniteSet(s) /\ Cardinality(s) \in Nat
                          /\ Cardinality(s) = 0 <=> s = {}
  BY FS_Subset, FS_CardinalityType, FS_EmptySet
<1>2. \A s \in Small(0) : s = {}
  BY <1>1
<1>3. 0 \in T
  <2>. DEFINE h == [s \in Small(0) |-> <<>>]
  <2>1. Layer(h, 0)
    BY <1>2
  <2>. QED  BY <2>1
<1>4. ASSUME NEW n \in Nat, NEW s \in Small(n + 1), s # {} PROVE s \ {pick[s]} \in Small(n)
  <2>1. pick[s] \in s /\ s \ {pick[s]} \in SUBSET S
    BY <1>4 DEF Picks
  <2>2. Cardinality(s \ {pick[s]}) \in Nat /\ Cardinality(s) = Cardinality(s \ {pick[s]}) + 1
    BY <1>1, <2>1, WithoutPicked
  <2>. QED  BY <2>1, <2>2
<1>5. ASSUME NEW n \in Nat, n \in T PROVE n + 1 \in T
  <2>1. PICK h : Layer(h, n)
    BY <1>5
  <2>. DEFINE g == [s \in Small(n + 1) |-> Joint(h, s)]
  <2>2. \A s \in Small(n) : s \in Small(n + 1) /\ g[s] = h[s]
    <3>1. \A s \in Small(n) : s \in Small(n + 1)
      BY <1>1
    <3>2. \A s \in Small(n) : h[s] = Joint(h, s)
      BY <2>1
    <3>. HIDE DEF Small, Joint
    <3>. QED  BY <3>1, <3>2
  <2>3. \A s \in Small(n + 1) : Joint(h, s) = Joint(g, s)
    <3>. HIDE DEF Small, g
    <3>. QED  BY <1>4, <2>2
  <2>4. Layer(g, n + 1)
    <3>. HIDE DEF Small, Joint
    <3>. QED  BY <2>3
  <2>. HIDE DEF g, Layer
  <2>. QED  BY <2>4
<1>6. \A n \in Nat : n \in T
  <2>. HIDE DEF T
  <2>. QED  BY <1>3, <1>5, SetInduction
<1>7. PICK h : Layer(h, Cardinality(S))
  BY <1>1, <1>6
<1>8. Small(Cardinality(S)) = SUBSET S
  BY FS_Subset
<1>. QED  BY <1>7, <1>8, Zenon DEF Concatenates

\* A set of prices has a foremost one.
LEMMA ForemostIsFirst ==
  ASSUME NEW side \in Sides, NEW ps \in SUBSET Prices, ps # {}
  PROVE  /\ Foremost(side, ps) \in ps
         /\ \A q \in ps : Foremost(side, ps) = q \/ Ahead(side, Foremost(side, ps), q)
<1>. DEFINE First(s, p) == \A q \in s : p = q \/ Ahead(side, p, q)
            T == {s \in SUBSET ps : s = {} \/ \E p \in s : First(s, p)}
<1>1. ASSUME NEW s \in SUBSET ps, NEW x \in ps, s \in T, x \notin s PROVE s \cup {x} \in T
  <2>1. CASE s = {}
    BY <2>1
  <2>2. CASE s # {}
    <3>1. PICK p \in s : First(s, p)
      BY <1>1, <2>2
    <3>2. x \in Prices /\ p \in Prices /\ \A q \in s : q \in Prices
      BY <3>1
    <3>3. CASE Ahead(side, x, p)
      <4>1. First(s \cup {x}, x)
        BY <3>1, <3>2, <3>3, AheadIsOrder
      <4>. QED  BY <4>1
    <3>4. CASE ~Ahead(side, x, p)
      <4>1. First(s \cup {x}, p)
        BY <3>1, <3>2, <3>4, AheadIsOrder
      <4>. QED  BY <4>1
    <3>. QED  BY <3>3, <3>4
  <2>. QED  BY <2>1, <2>2
<1>2. ps \in T
  <2>1. Grows(ps, T) /\ {} \in T
    <3>. HIDE DEF First
    <3>1. {} \in T
      OBVIOUS
    <3>. HIDE DEF T
    <3>. QED  BY <1>1, <3>1 DEF Grows
  <2>2. IsFiniteSet(ps)
    BY FS_Subset, BookAssumption
  <2>. HIDE DEF T
  <2>. QED  BY <2>1, <2>2, SubsetInduction
<1>3. \E p \in ps : First(ps, p)
  BY <1>2
<1>. QED  BY <1>3 DEF Foremost

\* An order of the book as one of a queue.
Entry(b, id) == [id |-> id, trader |-> b.orders[id].trader,
                 price |-> b.orders[id].price, amount |-> b.orders[id].amount]

\* The orders of a side.
SideIds(b, side) == {id \in Ids : b.orders[id].trader # NULL /\ b.orders[id].side = side}

\* As those of a queue.
EntriesOf(b, side) == {Entry(b, id) : id \in SideIds(b, side)}

\* A sequence of ids as one of orders.
Described(b, s) == [i \in DOMAIN s |-> Entry(b, s[i])]

\* The orders of a sequence of ids.
LEMMA DescribedOrders ==
  ASSUME NEW b, NEW nextId, OrdersGood(b.orders, nextId, {}), NEW s \in Seq(Ids),
         \A i \in 1 .. Len(s) : b.orders[s[i]].trader # NULL
  PROVE  /\ Described(b, s) \in Seq(Entries) /\ Len(Described(b, s)) = Len(s)
         /\ \A i \in 1 .. Len(s) : Described(b, s)[i] = Entry(b, s[i])
         /\ Range(Described(b, s)) = {Entry(b, x) : x \in Range(s)}
<1>1. ASSUME NEW id \in Ids, b.orders[id].trader # NULL PROVE Entry(b, id) \in Entries
  <2>1. id \in Nat /\ id \in 0 .. MaxOrders
    BY BookConstants
  <2>2. b.orders[id].trader \in Traders /\ b.orders[id].price \in Prices
    BY <1>1, <2>1 DEF OrdersGood, NoOrder
  <2>3. b.orders[id].amount \in Nat
    BY <2>1 DEF OrdersGood, Orders
  <2>. QED  BY <2>1, <2>2, <2>3 DEF Entry, Entries
<1>2. DOMAIN s = 1 .. Len(s) /\ Len(s) \in Nat /\ \A i \in 1 .. Len(s) : s[i] \in Ids
  OBVIOUS
<1>. DEFINE d == Described(b, s)
<1>3. d = [i \in 1 .. Len(s) |-> Entry(b, s[i])]
  BY <1>2 DEF Described
<1>4. \A i \in 1 .. Len(s) : Entry(b, s[i]) \in Entries
  BY <1>1, <1>2
<1>. HIDE DEF d
<1>5. d \in Seq(Entries) /\ Len(d) = Len(s) /\ \A i \in 1 .. Len(s) : d[i] = Entry(b, s[i])
  BY <1>2, <1>3, <1>4
<1>6. Range(d) = {Entry(b, x) : x \in Range(s)}
  BY <1>2, <1>3 DEF Range
<1>. QED  BY <1>5, <1>6 DEF d

\* The queue of a level is in priority.
LEMMA LevelInPriority ==
  ASSUME NEW b, NEW nextId, OrdersGood(b.orders, nextId, {}), NEW side \in Sides, NEW p \in Prices,
         NEW s, QueueIs(b.orders, side, p, s)
  PROVE  /\ s \in Seq(Ids) /\ InPriority(side, Described(b, s))
         /\ Range(s) = OrdersAt(b.orders, side, p)
         /\ \A x \in Range(Described(b, s)) : x.price = p
<1>. DEFINE d == Described(b, s)
<1>1. /\ s \in Seq(Ids) /\ Range(s) = OrdersAt(b.orders, side, p) /\ Ascending(s)
  BY DEF QueueIs, OrdersAt
<1>2. \A i \in 1 .. Len(s) : /\ s[i] \in Ids
                             /\ b.orders[s[i]].trader # NULL /\ b.orders[s[i]].price = p
  <2>1. \A i \in 1 .. Len(s) : s[i] \in Range(s) /\ s[i] \in Ids
    BY <1>1, InRange
  <2>. QED  BY <1>1, <2>1 DEF OrdersAt, Belongs
<1>3. /\ d \in Seq(Entries) /\ Len(d) = Len(s)
      /\ \A i \in 1 .. Len(s) : d[i] = Entry(b, s[i])
  BY <1>1, <1>2, DescribedOrders
<1>. HIDE DEF d
<1>4. \A i \in 1 .. Len(s) : d[i].id = s[i] /\ d[i].price = p
  <2>1. \A id : Entry(b, id).id = id /\ Entry(b, id).price = b.orders[id].price
    BY DEF Entry
  <2>. QED  BY <1>2, <1>3, <2>1
<1>5. InPriority(side, d)
  BY <1>1, <1>3, <1>4 DEF InPriority, Ascending, Prior
<1>6. \A x \in Range(d) : x.price = p
  BY <1>3, <1>4, InRange
<1>. QED  BY <1>1, <1>5, <1>6 DEF d

\* The orders of a side with these prices.
IdsAt(b, side, ps) == {id \in SideIds(b, side) : b.orders[id].price \in ps}

\* s names them, level by level.
NamesAll(b, side, ps, s) ==
  /\ s \in Seq(Ids) /\ Range(s) = IdsAt(b, side, ps)
  /\ InPriority(side, Described(b, s))

\* The orders of two sequences of ids.
LEMMA DescribedJoined ==
  ASSUME NEW b, NEW c \in Seq(Ids), NEW d \in Seq(Ids)
  PROVE  Described(b, c \o d) = Described(b, c) \o Described(b, d)
<1>. DEFINE s == c \o d
            u == Described(b, c)
            v == Described(b, d)
<1>1. /\ Len(c) \in Nat /\ Len(d) \in Nat /\ Len(s) = Len(c) + Len(d) /\ s \in Seq(Ids)
      /\ \A i \in 1 .. Len(s) : s[i] = IF i <= Len(c) THEN c[i] ELSE d[i - Len(c)]
  OBVIOUS
<1>2. ASSUME NEW r \in Seq(Ids)
      PROVE  /\ Described(b, r) = [i \in 1 .. Len(r) |-> Entry(b, r[i])]
             /\ \A i \in 1 .. Len(r) : Described(b, r)[i] = Entry(b, r[i])
             /\ Described(b, r) \in Seq({Entry(b, id) : id \in Ids})
             /\ Len(Described(b, r)) = Len(r)
  <2>. DEFINE E(x) == Entry(b, x)
  <2>. HIDE DEF E
  <2>1. [i \in 1 .. Len(r) |-> E(r[i])] \in Seq({E(id) : id \in Ids})
    OBVIOUS
  <2>2. DOMAIN r = 1 .. Len(r) /\ Len(r) \in Nat
    OBVIOUS
  <2>3. Described(b, r) = [i \in 1 .. Len(r) |-> E(r[i])]
    BY <2>2 DEF Described, E
  <2>4. Len([i \in 1 .. Len(r) |-> E(r[i])]) = Len(r)
    BY <2>2
  <2>. QED  BY <2>1, <2>3, <2>4 DEF E
<1>3. u \o v = [i \in 1 .. Len(s) |-> IF i <= Len(c) THEN u[i] ELSE v[i - Len(c)]]
  <2>. HIDE DEF u, v
  <2>1. u \in Seq({Entry(b, id) : id \in Ids}) /\ Len(u) = Len(c)
    BY <1>2 DEF u
  <2>2. v \in Seq({Entry(b, id) : id \in Ids}) /\ Len(v) = Len(d)
    BY <1>2 DEF v
  <2>3. ASSUME NEW D, u \in Seq(D), v \in Seq(D)
        PROVE  u \o v = [i \in 1 .. Len(u) + Len(v) |-> IF i <= Len(u) THEN u[i] ELSE v[i - Len(u)]]
    <3>1. u \o v \in Seq(D) /\ Len(u \o v) = Len(u) + Len(v)
      BY <2>3
    <3>2. u \o v = [i \in 1 .. Len(u) + Len(v) |-> (u \o v)[i]]
      <4>1. \A w \in Seq(D) : w = [i \in 1 .. Len(w) |-> w[i]]
        OBVIOUS
      <4>. DEFINE w == u \o v
      <4>2. w \in Seq(D) /\ Len(w) = Len(u) + Len(v)
        BY <3>1
      <4>. HIDE DEF w
      <4>3. w = [i \in 1 .. Len(u) + Len(v) |-> w[i]]
        BY <4>1, <4>2
      <4>. QED  BY <4>3 DEF w
    <3>3. \A i \in 1 .. Len(u) + Len(v) : (u \o v)[i] = IF i <= Len(u) THEN u[i] ELSE v[i - Len(u)]
      BY <2>3
    <3>. QED  BY <3>2, <3>3
  <2>. QED  BY <1>1, <2>1, <2>2, <2>3
<1>4. \A i \in 1 .. Len(s) : Described(b, s)[i] = IF i <= Len(c) THEN u[i] ELSE v[i - Len(c)]
  <2>. TAKE i \in 1 .. Len(s)
  <2>1. Described(b, s)[i] = Entry(b, s[i])
    BY <1>1, <1>2
  <2>2. CASE i <= Len(c)
    <3>1. i \in 1 .. Len(c) /\ s[i] = c[i]
      BY <1>1, <2>2
    <3>. QED  BY <1>2, <2>1, <2>2, <3>1
  <2>3. CASE ~(i <= Len(c))
    <3>1. i - Len(c) \in 1 .. Len(d) /\ s[i] = d[i - Len(c)]
      BY <1>1, <2>3
    <3>. QED  BY <1>2, <2>1, <2>3, <3>1
  <2>. QED  BY <2>2, <2>3
<1>5. Described(b, s) = [i \in 1 .. Len(s) |-> Described(b, s)[i]]
  BY <1>1, <1>2
<1>. HIDE DEF u, v, s
<1>6. Described(b, s) = u \o v
  BY <1>3, <1>4, <1>5
<1>. QED  BY <1>6 DEF u, v, s

\* One level before those of other prices, which come after its own.
LEMMA LevelNamed ==
  ASSUME NEW b, NEW nextId, OrdersGood(b.orders, nextId, {}), LevelsGood(b.orders, b.levels),
         NEW side \in Sides, NEW ps \in SUBSET Prices, NEW p \in ps,
         \A q \in ps : p = q \/ Ahead(side, p, q),
         NEW d, NamesAll(b, side, ps \ {p}, d)
  PROVE  NamesAll(b, side, ps, Chain(b, b.levels[side][p].first) \o d)
<1>1. PICK s : QueueIs(b.orders, side, p, s) /\ b.levels[side][p] = LevelOf(b.orders, s)
  BY DEF LevelsGood, LevelGood
<1>2. b.levels[side][p].first = FirstOf(s)
  BY <1>1 DEF LevelOf, NoLevel, FirstOf
<1>3. Chain(b, b.levels[side][p].first) = s
  BY <1>1, <1>2, ChainIsQueue
<1>4. /\ s \in Seq(Ids) /\ InPriority(side, Described(b, s))
      /\ Range(s) = OrdersAt(b.orders, side, p)
      /\ \A x \in Range(Described(b, s)) : x.price = p
  BY <1>1, LevelInPriority
<1>5. d \in Seq(Ids) /\ Range(d) = IdsAt(b, side, ps \ {p}) /\ InPriority(side, Described(b, d))
  BY DEF NamesAll
<1>6. \A i \in 1 .. Len(d) : b.orders[d[i]].trader # NULL /\ b.orders[d[i]].price \in ps \ {p}
  <2>1. \A i \in 1 .. Len(d) : d[i] \in Range(d)
    BY <1>5, InRange
  <2>. QED  BY <1>5, <2>1 DEF IdsAt, SideIds
<1>7. Range(Described(b, d)) = {Entry(b, x) : x \in Range(d)}
  BY <1>5, <1>6, DescribedOrders
<1>8. \A x \in Range(Described(b, d)) : x.price \in ps \ {p}
  <2>1. \A id : Entry(b, id).price = b.orders[id].price
    BY DEF Entry
  <2>. QED  BY <1>5, <1>7, <2>1 DEF IdsAt
<1>9. \A x \in Range(Described(b, s)), y \in Range(Described(b, d)) : Prior(side, x, y)
  BY <1>4, <1>8 DEF Prior
<1>10. InPriority(side, Described(b, s) \o Described(b, d))
  BY <1>4, <1>5, <1>9, JoinedInPriority
<1>11. InPriority(side, Described(b, s \o d))
  BY <1>4, <1>5, <1>10, DescribedJoined
<1>12. Range(s \o d) = Range(s) \cup Range(d) /\ s \o d \in Seq(Ids)
  BY <1>4, <1>5, RangeConcatenation
<1>13. IdsAt(b, side, ps) = OrdersAt(b.orders, side, p) \cup IdsAt(b, side, ps \ {p})
  BY DEF IdsAt, SideIds, OrdersAt, Belongs
<1>. QED  BY <1>3, <1>4, <1>5, <1>11, <1>12, <1>13 DEF NamesAll

\* The queue of a side holds its orders, the one to be served first at its head.
LEMMA QueueInPriority ==
  ASSUME NEW b, NEW nextId, OrdersGood(b.orders, nextId, {}), LevelsGood(b.orders, b.levels),
         NEW side \in Sides
  PROVE  InPriority(side, QueueOf(b, side)) /\ Range(QueueOf(b, side)) = EntriesOf(b, side)
<1>. DEFINE Next2(f, ps) == IF ps = {} THEN <<>>
                            ELSE LET p == Foremost(side, ps)
                                 IN Chain(b, b.levels[side][p].first) \o f[ps \ {p}]
            Walk(f) == f = [ps \in SUBSET Prices |-> Next2(f, ps)]
            walk == CHOOSE f : Walk(f)
            pick == [ps \in SUBSET Prices |-> Foremost(side, ps)]
            C == [p \in Prices |-> Chain(b, b.levels[side][p].first)]
            T == {n \in Nat : \A ps \in SUBSET Prices :
                    Cardinality(ps) <= n => NamesAll(b, side, ps, walk[ps])}
<1>1. QueueOf(b, side) = Described(b, walk[Live(b, side)])
  BY Zenon DEF QueueOf, Described, Entry
<1>2. \A ps \in SUBSET Prices : ps # {} => Foremost(side, ps) \in ps
  BY ForemostIsFirst
<1>3. Picks(pick, Prices)
  BY <1>2 DEF Picks
<1>4. IsFiniteSet(Prices)
  BY BookAssumption
<1>5. PICK h : Concatenates(h, Prices, pick, C)
  <2>. HIDE DEF pick, C
  <2>. QED  BY <1>3, <1>4, JoinsExist
<1>6. Walk(h)
  <2>1. h = [ps \in SUBSET Prices |-> IF ps = {} THEN <<>> ELSE C[pick[ps]] \o h[ps \ {pick[ps]}]]
    BY <1>5 DEF Concatenates
  <2>2. \A ps \in SUBSET Prices :
          (IF ps = {} THEN <<>> ELSE C[pick[ps]] \o h[ps \ {pick[ps]}]) = Next2(h, ps)
    <3>. TAKE ps \in SUBSET Prices
    <3>1. CASE ps = {}
      BY <3>1
    <3>2. CASE ps # {}
      <4>1. pick[ps] = Foremost(side, ps)
        OBVIOUS
      <4>2. Foremost(side, ps) \in Prices
        BY <1>2, <3>2
      <4>3. C[Foremost(side, ps)] = Chain(b, b.levels[side][Foremost(side, ps)].first)
        BY <4>2
      <4>. HIDE DEF pick, C
      <4>. QED  BY <3>2, <4>1, <4>3
    <3>. QED  BY <3>1, <3>2
  <2>. HIDE DEF Next2, pick, C
  <2>. QED  BY <2>1, <2>2
<1>7. Walk(walk)
  <2>. HIDE DEF Walk
  <2>. QED  BY <1>6, Zenon
<1>. HIDE DEF walk
<1>8. \A ps \in SUBSET Prices : walk[ps] = Next2(walk, ps)
  <2>. HIDE DEF Next2
  <2>. QED  BY <1>7, Zenon
<1>9. NamesAll(b, side, {}, <<>>)
  <2>1. Described(b, <<>>) = <<>> /\ Range(<<>>) = {} /\ <<>> \in Seq(Ids)
    BY DEF Described, Range
  <2>2. InPriority(side, <<>>)
    BY DEF InPriority
  <2>3. IdsAt(b, side, {}) = {}
    BY DEF IdsAt
  <2>. QED  BY <2>1, <2>2, <2>3 DEF NamesAll
<1>10. \A ps \in SUBSET Prices : IsFiniteSet(ps) /\ Cardinality(ps) \in Nat
                                 /\ (Cardinality(ps) = 0 <=> ps = {})
  BY <1>4, FS_Subset, FS_CardinalityType, FS_EmptySet
<1>11. 0 \in T
  <2>1. ASSUME NEW ps \in SUBSET Prices, Cardinality(ps) <= 0 PROVE NamesAll(b, side, ps, walk[ps])
    <3>1. ps = {}
      BY <1>10, <2>1
    <3>. QED  BY <1>8, <1>9, <3>1
  <2>. QED  BY <2>1
<1>12. ASSUME NEW n \in Nat, n \in T PROVE n + 1 \in T
  <2>1. ASSUME NEW ps \in SUBSET Prices, Cardinality(ps) <= n + 1
        PROVE  NamesAll(b, side, ps, walk[ps])
    <3>1. CASE ps = {}
      BY <1>8, <1>9, <3>1
    <3>2. CASE ps # {}
      <4>. DEFINE p == Foremost(side, ps)
                  rest == ps \ {p}
      <4>1. p \in ps /\ \A q \in ps : p = q \/ Ahead(side, p, q)
        BY <3>2, ForemostIsFirst
      <4>. HIDE DEF p
      <4>2. Cardinality(rest) \in Nat /\ Cardinality(ps) = Cardinality(rest) + 1
        BY <1>10, <4>1, WithoutPicked
      <4>3. rest \in SUBSET Prices /\ Cardinality(rest) <= n
        BY <2>1, <4>2
      <4>4. NamesAll(b, side, rest, walk[rest])
        BY <1>12, <4>3
      <4>5. NamesAll(b, side, ps, Chain(b, b.levels[side][p].first) \o walk[rest])
        BY <4>1, <4>4, LevelNamed
      <4>6. walk[ps] = Chain(b, b.levels[side][p].first) \o walk[rest]
        BY <1>8, <3>2 DEF p
      <4>. QED  BY <4>5, <4>6
    <3>. QED  BY <3>1, <3>2
  <2>. QED  BY <2>1
<1>13. \A n \in Nat : n \in T
  <2>. HIDE DEF T
  <2>. QED  BY <1>11, <1>12, SetInduction
<1>. DEFINE live == Live(b, side)
<1>14. NamesAll(b, side, live, walk[live])
  <2>1. live \in SUBSET Prices
    BY DEF Live
  <2>. HIDE DEF live
  <2>2. Cardinality(live) \in T /\ Cardinality(live) <= Cardinality(live)
    BY <1>10, <1>13, <2>1
  <2>. QED  BY <2>1, <2>2
<1>15. IdsAt(b, side, live) = SideIds(b, side)
  <2>1. ASSUME NEW id \in SideIds(b, side) PROVE b.orders[id].price \in live
    <3>1. id \in Ids /\ id \in 0 .. MaxOrders /\ b.orders[id].trader # NULL
          /\ b.orders[id].side = side
      BY <2>1, BookConstants DEF SideIds
    <3>2. b.orders[id].price \in Prices
      BY <3>1 DEF OrdersGood, NoOrder
    <3>3. Belongs(b.orders, side, b.orders[id].price, id)
      BY <3>1 DEF Belongs
    <3>. QED  BY <3>1, <3>2, <3>3, LiveHasOrders
  <2>. QED  BY <2>1 DEF IdsAt
<1>. HIDE DEF live
<1>. DEFINE s == walk[live]
<1>16. s \in Seq(Ids) /\ Range(s) = SideIds(b, side) /\ InPriority(side, Described(b, s))
  BY <1>14, <1>15 DEF NamesAll
<1>. HIDE DEF s
<1>17. Range(Described(b, s)) = EntriesOf(b, side)
  <2>1. \A i \in 1 .. Len(s) : s[i] \in Range(s)
    BY <1>16, InRange
  <2>2. \A i \in 1 .. Len(s) : b.orders[s[i]].trader # NULL
    BY <1>16, <2>1 DEF SideIds
  <2>. QED  BY <1>16, <2>2, DescribedOrders DEF EntriesOf
<1>. QED  BY <1>1, <1>16, <1>17 DEF s, live

----------------------------------------------------------------------------
(* The matching takes from the front of the queue. *)

\* The orders of a book that are good on their own.
OrdersFine(b) == \E nextId : OrdersGood(b.orders, nextId, {})

\* Which of a side's orders are which.
LEMMA EntryFacts ==
  ASSUME NEW b, OrdersFine(b), NEW side \in Sides
  PROVE  /\ \A id : /\ Entry(b, id).id = id /\ Entry(b, id).trader = b.orders[id].trader
                    /\ Entry(b, id).price = b.orders[id].price
                    /\ Entry(b, id).amount = b.orders[id].amount
         /\ \A id \in SideIds(b, side) : /\ Entry(b, id) \in Entries /\ Entry(b, id).amount # 0
                                         /\ b.orders[id].trader \in Traders /\ id \in Ids
                                         /\ b.orders[id].price \in Prices
         /\ EntriesOf(b, side) \subseteq Entries
<1>1. PICK nextId : OrdersGood(b.orders, nextId, {})
  BY DEF OrdersFine
<1>2. \A id : /\ Entry(b, id).id = id /\ Entry(b, id).trader = b.orders[id].trader
              /\ Entry(b, id).price = b.orders[id].price
              /\ Entry(b, id).amount = b.orders[id].amount
  BY DEF Entry
<1>3. ASSUME NEW id \in SideIds(b, side)
      PROVE  /\ Entry(b, id) \in Entries /\ Entry(b, id).amount # 0
             /\ b.orders[id].trader \in Traders /\ id \in Ids /\ b.orders[id].price \in Prices
  <2>1. id \in Ids /\ id \in Nat /\ id \in 0 .. MaxOrders /\ b.orders[id].trader # NULL
    BY BookConstants DEF SideIds
  <2>2. b.orders[id].trader \in Traders /\ b.orders[id].price \in Prices /\ b.orders[id].amount # 0
    BY <1>1, <2>1 DEF OrdersGood, NoOrder
  <2>3. b.orders[id].amount \in Nat
    BY <1>1, <2>1 DEF OrdersGood, Orders
  <2>4. Entry(b, id) \in Entries
    BY <2>1, <2>2, <2>3 DEF Entry, Entries
  <2>. QED  BY <1>2, <2>1, <2>2, <2>4
<1>. QED  BY <1>2, <1>3 DEF EntriesOf

\* Orders with the same terms are the same entries.
LEMMA SameTermsSameEntry ==
  ASSUME NEW b, NEW c, NEW id, SameTerms(b.orders[id], c.orders[id])
  PROVE  /\ Entry(c, id) = Entry(b, id)
         /\ \A side : id \in SideIds(c, side) <=> id \in SideIds(b, side)
BY DEF SameTerms, Entry, SideIds

\* The entries of a side without an order that has gone.
LEMMA EntriesWithout ==
  ASSUME NEW b, OrdersFine(b), NEW c, NEW id \in Ids, b.orders[id].trader # NULL,
         Thins(b, c, {id}), c.orders[id].trader = NULL
  PROVE  /\ EntriesOf(c, b.orders[id].side) = EntriesOf(b, b.orders[id].side) \ {Entry(b, id)}
         /\ \A side : side # b.orders[id].side => EntriesOf(c, side) = EntriesOf(b, side)
<1>1. \A x \in Ids : x # id => SameTerms(b.orders[x], c.orders[x])
  BY BookConstants DEF Thins
<1>2. \A x \in Ids : \A side : x # id
        => /\ Entry(c, x) = Entry(b, x)
           /\ x \in SideIds(c, side) <=> x \in SideIds(b, side)
  BY <1>1, SameTermsSameEntry
<1>3. \A side : id \notin SideIds(c, side)
  BY DEF SideIds
<1>4. \A side : SideIds(b, side) \subseteq Ids /\ SideIds(c, side) \subseteq Ids
  BY DEF SideIds
<1>5. \A x, y : Entry(b, x) = Entry(b, y) => x = y
  BY DEF Entry
<1>6. \A side : SideIds(c, side) = SideIds(b, side) \ {id}
  BY <1>2, <1>3, <1>4
<1>7. \A side : side # b.orders[id].side => id \notin SideIds(b, side)
  BY DEF SideIds
<1>8. \A side : \A x \in SideIds(c, side) : Entry(c, x) = Entry(b, x)
  BY <1>2, <1>4, <1>6
<1>9. \A side : EntriesOf(c, side) = EntriesOf(b, side) \ {Entry(b, id)}
  <2>. TAKE side
  <2>1. EntriesOf(c, side) = {Entry(b, x) : x \in SideIds(b, side) \ {id}}
    BY <1>6, <1>8 DEF EntriesOf
  <2>. QED  BY <1>5, <2>1 DEF EntriesOf
<1>10. \A side : side # b.orders[id].side => Entry(b, id) \notin EntriesOf(b, side)
  BY <1>5, <1>7 DEF EntriesOf
<1>. QED  BY <1>9, <1>10

\* And with one that has less left.
LEMMA EntriesReduced ==
  ASSUME NEW b, OrdersFine(b), NEW c, NEW id \in Ids, b.orders[id].trader # NULL,
         Thins(b, c, {id}), c.orders[id].trader # NULL
  PROVE  /\ EntriesOf(c, b.orders[id].side)
              = (EntriesOf(b, b.orders[id].side) \ {Entry(b, id)}) \cup {Entry(c, id)}
         /\ \A side : side # b.orders[id].side => EntriesOf(c, side) = EntriesOf(b, side)
         /\ Entry(c, id) = Reduced(Entry(b, id), c.orders[id].amount)
<1>1. \A x \in Ids : x # id => SameTerms(b.orders[x], c.orders[x])
  BY BookConstants DEF Thins
<1>2. \A x \in Ids : \A side : x # id
        => /\ Entry(c, x) = Entry(b, x)
           /\ x \in SideIds(c, side) <=> x \in SideIds(b, side)
  BY <1>1, SameTermsSameEntry
<1>3. SamePlace(b.orders[id], c.orders[id])
  BY BookConstants DEF Thins
<1>4. \A side : id \in SideIds(c, side) <=> id \in SideIds(b, side)
  BY <1>3 DEF SideIds, SamePlace
<1>5. \A side : SideIds(b, side) \subseteq Ids /\ SideIds(c, side) \subseteq Ids
  BY DEF SideIds
<1>6. \A x, y : Entry(b, x) = Entry(b, y) => x = y
  BY DEF Entry
<1>7. \A side : SideIds(c, side) = SideIds(b, side)
  BY <1>2, <1>4, <1>5
<1>8. \A side : side # b.orders[id].side => id \notin SideIds(b, side)
  BY DEF SideIds
<1>9. id \in SideIds(b, b.orders[id].side)
  BY DEF SideIds
<1>10. \A side : \A x \in SideIds(b, side) : x # id => Entry(c, x) = Entry(b, x)
  BY <1>2, <1>5
<1>11. \A side : side # b.orders[id].side => EntriesOf(c, side) = EntriesOf(b, side)
  BY <1>7, <1>8, <1>10 DEF EntriesOf
<1>12. EntriesOf(c, b.orders[id].side)
         = (EntriesOf(b, b.orders[id].side) \ {Entry(b, id)}) \cup {Entry(c, id)}
  BY <1>6, <1>7, <1>9, <1>10 DEF EntriesOf
<1>13. Entry(c, id) = Reduced(Entry(b, id), c.orders[id].amount)
  BY <1>3 DEF Entry, Reduced, SamePlace
<1>. QED  BY <1>11, <1>12, <1>13

\* The orders of the queue behind the first k.
Behind(q, k) == {q[j] : j \in k + 1 .. Len(q)}

\* m is what the promise makes of the first k orders of the queue q of book b.
MetFirst(b, q, M, side, m, k) ==
  /\ m.left = M[k].left /\ m.fills = M[k].fills
  /\ EntriesOf(m.book, Other(side)) = Range(M[k].kept) \cup Behind(q, k)
  /\ Stuck(m) \/ M[k].kept = <<>>
  /\ EntriesOf(m.book, side) = EntriesOf(b, side)

\* Of some first orders.
MetSome(b, q, M, side, m) == \E k \in 0 .. Len(q) : MetFirst(b, q, M, side, m, k)

\* id is the resting order of a side that is served first.
IsForemost(b, side, id) ==
  /\ id \in SideIds(b, side)
  /\ \A x \in SideIds(b, side) : x = id \/ Prior(side, Entry(b, id), Entry(b, x))

\* What is behind the first k of a queue.
LEMMA BehindFacts ==
  ASSUME NEW side \in Sides, NEW q, InPriority(side, q), NEW k \in 0 .. Len(q)
  PROVE  /\ \A x \in Behind(q, k) : \E j \in 1 .. Len(q) : q[j] = x /\ j > k
         /\ Behind(q, 0) = Range(q) /\ Behind(q, Len(q)) = {}
         /\ k < Len(q) => /\ Behind(q, k) = Behind(q, k + 1) \cup {q[k + 1]}
                          /\ q[k + 1] \notin Behind(q, k + 1)
                          /\ q[k + 1] \in Entries
<1>1. q \in Seq(Entries) /\ Len(q) \in Nat
  BY DEF InPriority
<1>2. \A i \in 1 .. Len(q) : q[i] \in Entries
  BY <1>1
<1>3. \A x \in Behind(q, k) : \E j \in 1 .. Len(q) : q[j] = x /\ j > k
  BY <1>1 DEF Behind
<1>4. Behind(q, 0) = Range(q) /\ Behind(q, Len(q)) = {}
  BY <1>1 DEF Behind, Range
<1>5. ASSUME k < Len(q)
      PROVE  /\ Behind(q, k) = Behind(q, k + 1) \cup {q[k + 1]}
             /\ q[k + 1] \notin Behind(q, k + 1) /\ q[k + 1] \in Entries
  <2>1. k + 1 .. Len(q) = (k + 2 .. Len(q)) \cup {k + 1} /\ k + 1 \in 1 .. Len(q)
    BY <1>1, <1>5
  <2>2. Behind(q, k) = Behind(q, k + 1) \cup {q[k + 1]}
    <3>1. (k + 1) + 1 = k + 2
      OBVIOUS
    <3>. QED  BY <2>1, <3>1 DEF Behind
  <2>3. ASSUME NEW j \in k + 2 .. Len(q), q[j] = q[k + 1] PROVE FALSE
    <3>1. j \in 1 .. Len(q) /\ k + 1 < j
      OBVIOUS
    <3>2. Prior(side, q[k + 1], q[j])
      BY <2>1, <3>1 DEF InPriority
    <3>. QED  BY <1>2, <2>1, <2>3, <3>2, PriorIsOrder
  <2>4. q[k + 1] \notin Behind(q, k + 1)
    BY <2>3 DEF Behind
  <2>. QED  BY <1>2, <2>1, <2>2, <2>4
<1>. QED  BY <1>3, <1>4, <1>5

\* While the matching is not stuck, the order that is served first is the next
\* one of the queue.
LEMMA ForemostIsNext ==
  ASSUME NEW side \in Sides, NEW b, OrdersFine(b), NEW q, InPriority(side, q),
         NEW k \in 0 .. Len(q),
         EntriesOf(b, side) = Behind(q, k), NEW id, IsForemost(b, side, id)
  PROVE  k < Len(q) /\ q[k + 1] = Entry(b, id)
<1>1. q \in Seq(Entries) /\ Len(q) \in Nat /\ \A i \in 1 .. Len(q) : q[i] \in Entries
  BY DEF InPriority
<1>2. Entry(b, id) \in Behind(q, k)
  BY DEF IsForemost, EntriesOf
<1>3. PICK j \in 1 .. Len(q) : q[j] = Entry(b, id) /\ j > k
  BY <1>2, BehindFacts
<1>4. k < Len(q) /\ k + 1 \in 1 .. Len(q) /\ k + 1 <= j
  BY <1>1, <1>3
<1>5. q[k + 1] \in EntriesOf(b, side)
  BY <1>4, BehindFacts
<1>6. PICK x \in SideIds(b, side) : q[k + 1] = Entry(b, x)
  BY <1>5 DEF EntriesOf
<1>7. CASE x = id
  BY <1>4, <1>6, <1>7
<1>8. CASE x # id
  <2>1. Prior(side, q[j], q[k + 1])
    BY <1>3, <1>6, <1>8 DEF IsForemost
  <2>2. k + 1 = j \/ Prior(side, q[k + 1], q[j])
    BY <1>3, <1>4 DEF InPriority
  <2>. QED  BY <1>1, <1>3, <1>4, <2>1, <2>2, PriorIsOrder
<1>. QED  BY <1>7, <1>8

\* Of the entry of id there is less, and the others stay.
LessAt(b, c, id, amount) ==
  LET e == Entry(b, id)
      maker == b.orders[id].side
  IN /\ EntriesOf(c, maker)
          = (EntriesOf(b, maker) \ {e}) \cup {Reduced(e, b.orders[id].amount - amount)}
     /\ \A side : side # maker => EntriesOf(c, side) = EntriesOf(b, side)

\* A fill of some of an order.
LEMMA FillingLess ==
  ASSUME NEW b, NEW E, Sound(b, {}, E, {}), NEW id \in Ids, b.orders[id].trader # NULL,
         NEW amount \in Nat, amount < b.orders[id].amount, NEW c, c = Fill(b, id, amount)
  PROVE  LessAt(b, c, id, amount)
<1>1. /\ Sound(c, {}, E, {}) /\ Thins(b, c, {id})
      /\ c.orders[id].amount = b.orders[id].amount - amount
  BY FillingPart
<1>2. b.orders[id].amount \in Nat /\ OrdersFine(b)
  <2>1. id \in 0 .. MaxOrders
    BY BookConstants
  <2>. QED  BY <2>1 DEF Sound, OrdersFine, OrdersGood, Orders
<1>3. c.orders[id].amount # 0
  BY <1>1, <1>2
<1>4. c.orders[id].trader # NULL
  <2>1. OrdersGood(c.orders, c.nextId, {})
    BY <1>1 DEF Sound
  <2>. QED  BY <1>3, <2>1, GoneIsNothing
<1>5. /\ EntriesOf(c, b.orders[id].side)
           = (EntriesOf(b, b.orders[id].side) \ {Entry(b, id)}) \cup {Entry(c, id)}
      /\ \A side : side # b.orders[id].side => EntriesOf(c, side) = EntriesOf(b, side)
      /\ Entry(c, id) = Reduced(Entry(b, id), c.orders[id].amount)
  BY <1>1, <1>2, <1>4, EntriesReduced
<1>. QED  BY <1>1, <1>5 DEF LessAt

\* The book, and the promise, meet one more order.
LEMMA MeetingNext ==
  ASSUME NEW side \in Sides, NEW b, NEW q, InPriority(Other(side), q), NEW t, NEW limit, NEW amount,
         NEW M, TakesSo(M, Other(side), q, t, side, limit, amount),
         NEW E, NEW x \in Meeting, Sound(x.book, {}, E, {}), ~Stuck(x),
         NEW k \in 0 .. Len(q), MetFirst(b, q, M, side, x, k),
         NEW id, IsForemost(x.book, Other(side), id), x.book.orders[id].trader # t,
         Accepts(side, limit, x.book.orders[id].price)
  PROVE  k + 1 \in 0 .. Len(q) /\ MetFirst(b, q, M, side, Meet(x, id, t), k + 1)
<1>. DEFINE maker == Other(side)
            o == q[k + 1]
            s == M[k]
            r == M[k + 1]
            c == Meet(x, id, t).book
            have == x.book.orders[id].amount
            fill == Min2(x.left, have)
<1>1. maker \in Sides /\ maker # side
  BY SidesAreTwo
<1>2. OrdersFine(x.book)
  BY DEF OrdersFine, Sound
<1>3. s.kept = <<>> /\ Range(<<>>) = {} /\ x.left = s.left /\ x.fills = s.fills
      /\ EntriesOf(x.book, maker) = Behind(q, k) /\ EntriesOf(x.book, side) = EntriesOf(b, side)
  BY DEF MetFirst, Range
<1>4. k < Len(q) /\ o = Entry(x.book, id)
  BY <1>1, <1>2, <1>3, ForemostIsNext
<1>5. Len(q) \in Nat /\ k + 1 \in 1 .. Len(q) /\ k + 1 \in 0 .. Len(q) /\ (k + 1) - 1 = k
  BY <1>4 DEF InPriority
<1>6. id \in SideIds(x.book, maker) /\ id \in Ids
  BY DEF IsForemost, SideIds
<1>7. /\ o \in Entries /\ o.amount = have /\ o.trader = x.book.orders[id].trader
      /\ o.price = x.book.orders[id].price /\ have # 0 /\ have \in Nat
  BY <1>1, <1>2, <1>4, <1>6, EntryFacts DEF Entries
<1>8. x.book.orders[id].trader # NULL /\ x.book.orders[id].side = maker
  BY <1>6 DEF SideIds
<1>9. s \in Takings /\ r = Promise!Meet(s, o, t, side, limit)
  <2>1. s \in Takings
    BY DEF TakesSo, Taken
  <2>2. M[k + 1] = Promise!Meet(M[(k + 1) - 1], q[k + 1], t, side, limit)
    BY <1>5 DEF TakesSo
  <2>. QED  BY <1>5, <2>1, <2>2
<1>10. s.left # 0 /\ s.fills # MaxMatches /\ s.left \in Nat /\ s.fills \in Nat
  BY <1>3, <1>9 DEF Stuck, Takings
<1>11. \/ /\ s.left >= have
          /\ r = [kept |-> s.kept, left |-> s.left - have, fills |-> s.fills + 1]
       \/ /\ s.left < have
          /\ r = [kept |-> Append(s.kept, Reduced(o, have - s.left)),
                  left |-> 0, fills |-> s.fills + 1]
  <2>. HIDE DEF o, s, r, have
  <2>1. Accepts(side, limit, o.price) /\ o.trader # t
    BY <1>7
  <2>. QED  BY <1>7, <1>9, <1>10, <2>1, TakingCases
<1>12. Meet(x, id, t) = [x EXCEPT !.book = Fill(x.book, id, fill), !.left = x.left - fill,
                                  !.fills = x.fills + 1]
  BY DEF Meet, Stuck
<1>13. /\ c = Fill(x.book, id, fill) /\ Meet(x, id, t).left = x.left - fill
       /\ Meet(x, id, t).fills = x.fills + 1
  <2>. DEFINE y == [[[x EXCEPT !.book = Fill(x.book, id, fill)] EXCEPT !.left = x.left - fill]
                     EXCEPT !.fills = x.fills + 1]
  <2>1. Meet(x, id, t) = y
    BY <1>12
  <2>2. \A u, v, w : LET z == [[[x EXCEPT !.book = u] EXCEPT !.left = v] EXCEPT !.fills = w]
                     IN z.book = u /\ z.left = v /\ z.fills = w
    BY DEF Meeting
  <2>. QED  BY <2>1, <2>2
<1>. HIDE DEF o, s, r, c, have
<1>14. CASE s.left >= have
  <2>1. fill = have /\ have <= s.left
    BY <1>3, <1>7, <1>10, <1>14 DEF Min2
  <2>2. c = Fill(x.book, id, x.book.orders[id].amount)
    BY <1>13, <2>1 DEF have
  <2>3. Thins(x.book, c, {id}) /\ c.orders[id].trader = NULL
    BY <1>6, <1>8, <2>2, FillingWhole
  <2>4. EntriesOf(c, maker) = Behind(q, k) \ {o} /\ EntriesOf(c, side) = EntriesOf(b, side)
    BY <1>1, <1>2, <1>3, <1>4, <1>6, <1>8, <2>3, EntriesWithout
  <2>5. EntriesOf(c, maker) = Behind(q, k + 1)
    BY <1>1, <1>4, <2>4, BehindFacts DEF o
  <2>6. r = [kept |-> s.kept, left |-> s.left - have, fills |-> s.fills + 1]
    BY <1>7, <1>10, <1>11, <1>14
  <2>7. r.kept = <<>> /\ Meet(x, id, t).left = r.left /\ Meet(x, id, t).fills = r.fills
    BY <1>3, <1>13, <2>1, <2>6
  <2>. QED  BY <1>3, <1>5, <2>4, <2>5, <2>7 DEF MetFirst, r, c
<1>15. CASE s.left < have
  <2>1. fill = s.left /\ s.left < have
    BY <1>3, <1>7, <1>10, <1>15 DEF Min2
  <2>2. c = Fill(x.book, id, s.left) /\ s.left < x.book.orders[id].amount
    BY <1>13, <2>1 DEF have
  <2>. DEFINE u == Reduced(o, have - s.left)
  <2>3. LessAt(x.book, c, id, s.left)
    BY <1>6, <1>8, <1>10, <2>2, FillingLess
  <2>4. /\ EntriesOf(c, maker) = (Behind(q, k) \ {o}) \cup {u}
        /\ EntriesOf(c, side) = EntriesOf(b, side)
    BY <1>1, <1>3, <1>4, <1>8, <2>3 DEF LessAt, have
  <2>5. EntriesOf(c, maker) = Behind(q, k + 1) \cup {u}
    BY <1>1, <1>4, <2>4, BehindFacts DEF o
  <2>6. r = [kept |-> Append(s.kept, u), left |-> 0, fills |-> s.fills + 1]
    BY <1>7, <1>10, <1>11, <1>15
  <2>. HIDE DEF u
  <2>7. Range(Append(<<>>, u)) = {u}
    BY DEF Range
  <2>8. /\ r.kept = Append(<<>>, u) /\ Meet(x, id, t).left = 0 /\ r.left = 0
        /\ Meet(x, id, t).fills = r.fills
    BY <1>3, <1>10, <1>13, <2>1, <2>6
  <2>9. EntriesOf(c, maker) = Range(r.kept) \cup Behind(q, k + 1)
    BY <2>5, <2>7, <2>8
  <2>. QED  BY <1>5, <2>4, <2>8, <2>9 DEF MetFirst, r, c, Stuck
<1>. QED  BY <1>7, <1>10, <1>14, <1>15

\* Of the queue of the best level the first order that is left is served first.
LEMMA FirstOfLevel ==
  ASSUME NEW side \in Sides, NEW b, OrdersFine(b), NEW p \in Prices,
         IsHead(b, side, p), p \in Live(b, side),
         \A x \in SideIds(b, side) : b.orders[x].price \in Live(b, side),
         NEW s, QueueIs(b.orders, side, p, s), NEW k \in 1 .. Len(s),
         NEW c, Thins(b, c, {s[j] : j \in 1 .. k - 1}),
         \A j \in 1 .. k - 1 : c.orders[s[j]].trader = NULL
  PROVE  IsForemost(c, side, s[k])
<1>. DEFINE id == s[k]
            U == {s[j] : j \in 1 .. k - 1}
<1>1. /\ s \in Seq(Ids) /\ Len(s) \in Nat /\ Ascending(s)
      /\ \A i, j \in 1 .. Len(s) : s[i] = s[j] => i = j
      /\ Range(s) = {x \in Ids : Belongs(b.orders, side, p, x)}
  BY DEF QueueIs, LinkedAs
<1>2. id \in Ids /\ Belongs(b.orders, side, p, id) /\ id \notin U
  <2>1. id \in Range(s)
    BY <1>1, InRange
  <2>2. \A j \in 1 .. k - 1 : j \in 1 .. Len(s) /\ j # k
    BY <1>1
  <2>. QED  BY <1>1, <2>1, <2>2
<1>3. SameTerms(b.orders[id], c.orders[id])
  BY <1>2, BookConstants DEF Thins
<1>4. id \in SideIds(c, side) /\ c.orders[id].price = p
  BY <1>2, <1>3 DEF SideIds, SameTerms, Belongs
<1>5. ASSUME NEW x \in SideIds(c, side), x # id
      PROVE  Ahead(side, p, c.orders[x].price) \/ (p = c.orders[x].price /\ id < x)
  <2>1. x \in Ids /\ c.orders[x].trader # NULL /\ c.orders[x].side = side /\ x \notin U
    BY <1>5 DEF SideIds
  <2>2. SameTerms(b.orders[x], c.orders[x])
    BY <2>1, BookConstants DEF Thins
  <2>3. x \in SideIds(b, side) /\ b.orders[x].price = c.orders[x].price
    BY <2>1, <2>2 DEF SideIds, SameTerms
  <2>4. c.orders[x].price = p \/ Ahead(side, p, c.orders[x].price)
    BY <2>3 DEF IsHead
  <2>5. CASE c.orders[x].price = p
    <3>1. x \in Range(s)
      BY <1>1, <2>1, <2>3, <2>5 DEF Belongs, SideIds
    <3>2. PICK j \in 1 .. Len(s) : s[j] = x
      BY <1>1, <3>1, InRange
    <3>3. j # k /\ ~(j \in 1 .. k - 1)
      BY <1>5, <2>1, <3>2
    <3>4. k < j
      BY <3>3
    <3>. QED  BY <1>1, <2>5, <3>2, <3>4 DEF Ascending
  <2>. QED  BY <2>4, <2>5
<1>6. \A x : Entry(c, x).id = x /\ Entry(c, x).price = c.orders[x].price
  BY DEF Entry
<1>. HIDE DEF id
<1>7. IsForemost(c, side, id)
  BY <1>4, <1>5, <1>6 DEF IsForemost, Prior
<1>. QED  BY <1>7 DEF id

\* An order of a book rests on a live level.
LEMMA OrdersAreLive ==
  ASSUME NEW b, NEW nextId, OrdersGood(b.orders, nextId, {}), LevelsGood(b.orders, b.levels),
         NEW side \in Sides, NEW x \in SideIds(b, side)
  PROVE  b.orders[x].price \in Live(b, side)
<1>1. x \in Ids /\ x \in 0 .. MaxOrders /\ b.orders[x].trader # NULL /\ b.orders[x].side = side
  BY BookConstants DEF SideIds
<1>2. b.orders[x].price \in Prices
  BY <1>1 DEF OrdersGood, NoOrder
<1>3. Belongs(b.orders, side, b.orders[x].price, x)
  BY <1>1 DEF Belongs
<1>. QED  BY <1>1, <1>2, <1>3, LiveHasOrders

\* What the promise makes of a queue of book b, and the side it is on.
Promises(b, q, M, t, side, limit, amount) ==
  InPriority(Other(side), q) /\ TakesSo(M, Other(side), q, t, side, limit, amount)

\* The orders of the best level are met as the promise meets them.
LEMMA LevelIsMet ==
  ASSUME OneSided, NEW t \in Traders, NEW side \in SidesOf[t], NEW b0, NEW E, NEW m,
         Matched(b0, m, Other(side), E), m.price # 0, NEW limit, Accepts(side, limit, m.price),
         NEW q, NEW M, NEW amount, Promises(b0, q, M, t, side, limit, amount),
         MetSome(b0, q, M, side, m),
         NEW s, QueueIs(m.book.orders, Other(side), m.price, s)
  PROVE  MetSome(b0, q, M, side, MeetAll(m, s, t))
<1>. DEFINE maker == Other(side)
            b == m.book
            p == m.price
            T == {x \in Meeting : MetSome(b0, q, M, side, x)}
<1>1. side \in Sides /\ maker \in Sides
  <2>1. side \in Sides
    BY BookAssumption DEF Sides
  <2>. QED  BY <2>1, SidesAreTwo
<1>2. /\ m \in Meeting /\ Sound(b, {}, E, {}) /\ p \in Live(b, maker) /\ p \in Prices
      /\ Stuck(m) \/ p = b.head[maker]
  BY DEF Matched, Live
<1>3. /\ OrdersGood(b.orders, b.nextId, {}) /\ LevelsGood(b.orders, b.levels) /\ PricesGood(b, {})
  BY <1>2 DEF Sound
<1>4. /\ s \in Seq(Ids) /\ \A i, j \in 1 .. Len(s) : s[i] = s[j] => i = j
      /\ Len(s) \in Nat /\ Range(s) = {x \in Ids : Belongs(b.orders, maker, p, x)}
  BY DEF QueueIs, LinkedAs
<1>5. \A i \in 1 .. Len(s) : s[i] \in Ids /\ Belongs(b.orders, maker, p, s[i])
  <2>1. \A i \in 1 .. Len(s) : s[i] \in Range(s)
    BY <1>4, InRange
  <2>. QED  BY <1>4, <2>1
<1>6. \A id \in Ids : Belongs(b.orders, maker, p, id) => b.orders[id].trader # t
  BY <1>3, NoOwnOrders DEF Belongs
<1>7. ASSUME NEW k \in 1 .. Len(s), NEW x \in T, MetSo(m, x, E, {s[j] : j \in 1 .. k - 1})
      PROVE  Meet(x, s[k], t) \in T
  <2>. DEFINE U == {s[j] : j \in 1 .. k - 1}
  <2>1. CASE Stuck(x)
    <3>1. Meet(x, s[k], t) = x
      BY <2>1 DEF Meet, Stuck
    <3>. QED  BY <3>1
  <2>2. CASE ~Stuck(x)
    <3>1. /\ Sound(x.book, {}, E, {}) /\ Thins(b, x.book, U) /\ ~Stuck(m)
          /\ \A j \in 1 .. k - 1 : x.book.orders[s[j]].trader = NULL
      BY <1>7, <2>2 DEF MetSo
    <3>2. IsHead(b, maker, p)
      BY <1>1, <1>2, <1>3, <3>1, HeadIsFirst
    <3>3. \A z \in SideIds(b, maker) : b.orders[z].price \in Live(b, maker)
      BY <1>1, <1>3, OrdersAreLive
    <3>4. IsForemost(x.book, maker, s[k])
      <4>1. OrdersFine(b)
        BY <1>3 DEF OrdersFine
      <4>. HIDE DEF b, p, maker
      <4>2. QueueIs(b.orders, maker, p, s)
        BY DEF b, p, maker
      <4>. QED  BY <1>1, <1>2, <3>1, <3>2, <3>3, <4>1, <4>2, FirstOfLevel
    <3>5. s[k] \notin U /\ s[k] \in Ids
      <4>1. \A j \in 1 .. k - 1 : j \in 1 .. Len(s) /\ j # k
        BY <1>4
      <4>. QED  BY <1>4, <1>5, <4>1
    <3>6. SameTerms(b.orders[s[k]], x.book.orders[s[k]])
      BY <3>1, <3>5, BookConstants DEF Thins
    <3>7. x.book.orders[s[k]].trader # t /\ x.book.orders[s[k]].price = p
          /\ b.orders[s[k]].trader # NULL /\ b.orders[s[k]].trader # t
      BY <1>5, <1>6, <3>5, <3>6 DEF SameTerms, Belongs
    <3>8. Meet(x, s[k], t) \in Meeting
      <4>1. MetSo(m, Meet(x, s[k], t), E, U \cup {s[k]})
        <5>. HIDE DEF U, T
        <5>1. MetSo(m, x, E, U)
          BY <1>7 DEF U
        <5>. QED  BY <3>5, <3>7, <5>1, MeetingOneMore
      <4>. QED  BY <4>1 DEF MetSo
    <3>9. PICK k0 \in 0 .. Len(q) : MetFirst(b0, q, M, side, x, k0)
      BY DEF MetSome
    <3>10. k0 + 1 \in 0 .. Len(q) /\ MetFirst(b0, q, M, side, Meet(x, s[k], t), k0 + 1)
      <4>1. x \in Meeting /\ Accepts(side, limit, x.book.orders[s[k]].price)
        BY <3>7
      <4>. HIDE DEF T, U, b, p
      <4>. QED  BY <1>1, <2>2, <3>1, <3>4, <3>7, <3>9, <4>1, MeetingNext DEF Promises
    <3>. QED  BY <3>8, <3>10 DEF MetSome
  <2>. QED  BY <2>1, <2>2
<1>8. MeetsInside(m, E, t, s, T)
  <2>1. m \in T
    BY <1>2
  <2>. HIDE DEF T
  <2>. QED  BY <1>7, <2>1 DEF MeetsInside
<1>9. MeetAll(m, s, t) \in T
  <2>1. \A i \in 1 .. Len(s) : m.book.orders[s[i]].trader # NULL /\ m.book.orders[s[i]].trader # t
    BY <1>5, <1>6 DEF Belongs
  <2>. HIDE DEF T
  <2>. QED  BY <1>2, <1>4, <1>8, <2>1, MeetingInside
<1>. QED  BY <1>9

\* The entries of a side depend on the orders only.
LEMMA SameOrdersSameEntries ==
  ASSUME NEW b, NEW c, c.orders = b.orders
  PROVE  \A side : EntriesOf(c, side) = EntriesOf(b, side)
BY DEF EntriesOf, SideIds, Entry

\* Leaving a level changes nothing of that.
LEMMA LeavingKeeps ==
  ASSUME NEW met \in Meeting, NEW maker, NEW n, NEW r, r = LeaveLevel(met, maker, n)
  PROVE  r.left = met.left /\ r.fills = met.fills /\ r.book.orders = met.book.orders
<1>. DEFINE c == met.book
            v == BestLeft(met, maker, n)
            d == [c EXCEPT !.best = [c.best EXCEPT ![maker] = v]]
            r1 == [met EXCEPT !.price = n]
<1>1. c \in Storage
  BY DEF Meeting
<1>2. d.orders = c.orders
  <2>. HIDE DEF v
  <2>1. \A w : [c EXCEPT !.best = w].orders = c.orders
    <3>. HIDE DEF c
    <3>. QED  BY <1>1 DEF Storage
  <2>. QED  BY <2>1
<1>3. /\ r1 \in [book: Storage, price: {n}, left: Nat, fills: Nat]
      /\ r1.left = met.left /\ r1.fills = met.fills
  BY DEF Meeting
<1>4. r = [r1 EXCEPT !.book = d]
  BY DEF LeaveLevel, BestLeft
<1>. HIDE DEF r1, d, c, v
<1>5. r.book = d /\ r.left = met.left /\ r.fills = met.fills
  BY <1>3, <1>4
<1>. QED  BY <1>2, <1>5 DEF c

\* One turn of the outer loop.
LEMMA VisitingMeets ==
  ASSUME OneSided, NEW t \in Traders, NEW side \in SidesOf[t], NEW b0, NEW E, NEW m,
         Matched(b0, m, Other(side), E), NEW limit,
         NEW q, NEW M, NEW amount, Promises(b0, q, M, t, side, limit, amount),
         MetSome(b0, q, M, side, m)
  PROVE  MetSome(b0, q, M, side, VisitLevel(m, t, side, limit))
<1>. DEFINE maker == Other(side)
            b == m.book
            p == m.price
            chain == Chain(b, b.levels[maker][p].first)
            met == MeetAll(m, chain, t)
            n == NextLevel(b, met.book, maker, p)
            r == LeaveLevel(met, maker, n)
<1>1. CASE m.left = 0 \/ p = 0 \/ ~Accepts(side, limit, p)
  <2>1. VisitLevel(m, t, side, limit) = m
    BY <1>1 DEF VisitLevel
  <2>. QED  BY <2>1
<1>2. CASE ~(m.left = 0 \/ p = 0 \/ ~Accepts(side, limit, p))
  <2>1. LevelExists(b, maker, p) /\ p \in Prices
    BY <1>2 DEF Matched, Live
  <2>2. VisitLevel(m, t, side, limit) = r
    BY <1>2, <2>1 DEF VisitLevel
  <2>3. side \in Sides /\ maker \in Sides
    <3>1. side \in Sides
      BY BookAssumption DEF Sides
    <3>. QED  BY <3>1, SidesAreTwo
  <2>4. /\ m \in Meeting /\ Sound(b, {}, E, {})
        /\ OrdersGood(b.orders, b.nextId, {}) /\ LevelsGood(b.orders, b.levels)
    BY DEF Matched, Sound
  <2>5. PICK s : QueueIs(b.orders, maker, p, s) /\ b.levels[maker][p] = LevelOf(b.orders, s)
    BY <2>1, <2>3, <2>4 DEF LevelsGood, LevelGood
  <2>6. chain = s
    <3>1. LevelOf(b.orders, s).first = FirstOf(s)
      BY DEF LevelOf, FirstOf, NoLevel
    <3>2. Chain(b, FirstOf(s)) = s
      BY <2>4, <2>5, ChainIsQueue
    <3>. QED  BY <2>5, <3>1, <3>2
  <2>7. MetSome(b0, q, M, side, met)
    <3>1. MetSome(b0, q, M, side, MeetAll(m, s, t))
      BY <1>2, <2>5, LevelIsMet
    <3>. QED  BY <2>6, <3>1
  <2>8. met \in Meeting
    <3>1. /\ s \in Seq(Ids) /\ \A i, j \in 1 .. Len(s) : s[i] = s[j] => i = j
          /\ Range(s) = {x \in Ids : Belongs(b.orders, maker, p, x)}
      BY <2>5 DEF QueueIs, LinkedAs
    <3>2. \A i \in 1 .. Len(s) : b.orders[s[i]].trader # NULL /\ b.orders[s[i]].trader # t
      <4>1. \A i \in 1 .. Len(s) : s[i] \in Range(s)
        BY <3>1, InRange
      <4>2. \A id \in Ids : Belongs(b.orders, maker, p, id)
              => b.orders[id].trader # NULL /\ b.orders[id].trader # t
        BY <2>4, NoOwnOrders DEF Belongs
      <4>. QED  BY <3>1, <4>1, <4>2
    <3>3. MetSo(m, MeetAll(m, s, t), E, Range(s))
      BY <2>4, <3>1, <3>2, MeetingAll
    <3>. QED  BY <2>6, <3>3 DEF MetSo
  <2>. HIDE DEF met, n, chain
  <2>9. r.left = met.left /\ r.fills = met.fills /\ r.book.orders = met.book.orders
    BY <2>8, LeavingKeeps
  <2>. HIDE DEF r
  <2>10. \A z : EntriesOf(r.book, z) = EntriesOf(met.book, z)
    BY <2>9, SameOrdersSameEntries
  <2>11. MetSome(b0, q, M, side, r)
    BY <2>7, <2>9, <2>10 DEF MetSome, MetFirst, Stuck
  <2>. QED  BY <2>2, <2>11
<1>. QED  BY <1>1, <1>2

\* What is refused, or comes too late, stays in the queue as it is.
LEMMA RestIsKept ==
  ASSUME NEW maker \in Sides, NEW q, InPriority(maker, q), NEW t, NEW side, NEW limit, NEW amount,
         NEW M, TakesSo(M, maker, q, t, side, limit, amount), NEW k \in 0 .. Len(q),
         \/ M[k].left = 0 \/ M[k].fills = MaxMatches
         \/ \A o \in Behind(q, k) : ~Accepts(side, limit, o.price)
  PROVE  /\ Range(M[Len(q)].kept) = Range(M[k].kept) \cup Behind(q, k)
         /\ M[Len(q)].left = M[k].left
<1>. DEFINE Upto(j) == {q[i] : i \in k + 1 .. j}
            Same(j) == /\ Range(M[j].kept) = Range(M[k].kept) \cup Upto(j)
                       /\ M[j].left = M[k].left /\ M[j].fills = M[k].fills
            T == {i \in Nat : k + i <= Len(q) => Same(k + i)}
<1>1. Len(q) \in Nat /\ k \in Nat /\ \A i \in 1 .. Len(q) : q[i] \in Entries
  BY DEF InPriority
<1>2. 0 \in T
  <2>1. k + 0 = k /\ Upto(k) = {}
    BY <1>1
  <2>. QED  BY <2>1
<1>3. ASSUME NEW i \in Nat, i \in T PROVE i + 1 \in T
  <2>. DEFINE j == k + i
  <2>1. SUFFICES ASSUME j + 1 <= Len(q) PROVE Same(j + 1)
    <3>1. k + (i + 1) = j + 1
      BY <1>1
    <3>. HIDE DEF Same, j
    <3>. QED  BY <3>1
  <2>2. /\ j \in 0 .. Len(q) /\ j + 1 \in 1 .. Len(q) /\ (j + 1) - 1 = j
        /\ j + 1 \in k + 1 .. Len(q)
        /\ k + 1 .. j + 1 = (k + 1 .. j) \cup {j + 1}
    BY <1>1, <2>1
  <2>3. Same(j)
    <3>1. j <= Len(q)
      BY <2>2
    <3>. HIDE DEF Same
    <3>. QED  BY <1>3, <3>1
  <2>. HIDE DEF j
  <2>. DEFINE o == q[j + 1]
  <2>4. o \in Entries /\ o \in Behind(q, k) /\ M[j] \in Takings /\ M[j].kept \in Seq(Entries)
    <3>1. Taken(maker, q, j, M[j])
      BY <2>2 DEF TakesSo
    <3>. QED  BY <1>1, <2>2, <3>1 DEF Taken, Takings, Behind
  <2>5. M[j + 1] = Promise!Meet(M[j], o, t, side, limit)
    BY <2>2 DEF TakesSo
  <2>6. M[j].left = 0 \/ M[j].fills = MaxMatches \/ ~Accepts(side, limit, o.price)
    BY <2>3, <2>4
  <2>. HIDE DEF o
  <2>7. M[j + 1] = [M[j] EXCEPT !.kept = Append(M[j].kept, o)]
    <3>1. ASSUME NEW s \in Takings,
                 s.left = 0 \/ s.fills = MaxMatches \/ ~Accepts(side, limit, o.price),
                 NEW r, r = Promise!Meet(s, o, t, side, limit)
          PROVE  r = [s EXCEPT !.kept = Append(s.kept, o)]
      BY <2>4, <3>1, TakingCases
    <3>. QED  BY <2>4, <2>5, <2>6, <3>1
  <2>8. /\ M[j + 1].kept = Append(M[j].kept, o) /\ M[j + 1].left = M[j].left
        /\ M[j + 1].fills = M[j].fills
    BY <2>4, <2>7 DEF Takings
  <2>9. Range(Append(M[j].kept, o)) = Range(M[j].kept) \cup {o}
    <3>1. ASSUME NEW s \in Seq(Entries) PROVE Range(Append(s, o)) = Range(s) \cup {o}
      BY AppendProperties, <2>4 DEF Range
    <3>. QED  BY <2>4, <3>1
  <2>10. Upto(j + 1) = Upto(j) \cup {o}
    BY <2>2 DEF o
  <2>. HIDE DEF Upto
  <2>. QED  BY <2>3, <2>8, <2>9, <2>10
<1>4. \A i \in Nat : i \in T
  <2>. HIDE DEF T
  <2>. QED  BY <1>2, <1>3, SetInduction
<1>5. Same(Len(q))
  <2>1. Len(q) - k \in T /\ k + (Len(q) - k) = Len(q)
    <3>1. Len(q) - k \in Nat /\ k + (Len(q) - k) = Len(q)
      BY <1>1
    <3>. HIDE DEF T
    <3>. QED  BY <1>4, <3>1
  <2>. HIDE DEF Same
  <2>. QED  BY <1>1, <2>1
<1>6. Upto(Len(q)) = Behind(q, k)
  BY DEF Behind
<1>. QED  BY <1>5, <1>6

\* What the matching leaves is what the promise takes.
TakesAll(b, m, t, side, limit, amount) ==
  LET taken == Promise!Take(QueueOf(b, Other(side)), t, side, limit, amount)
  IN /\ QueueOf(m.book, Other(side)) = taken.kept /\ m.left = taken.left
     /\ QueueOf(m.book, side) = QueueOf(b, side)

\* The orders of a sound book make two queues.
LEMMA QueuesAreGood ==
  ASSUME NEW b, NEW lost, NEW E, Sound(b, lost, E, {}), NEW side \in Sides
  PROVE  InPriority(side, QueueOf(b, side)) /\ Range(QueueOf(b, side)) = EntriesOf(b, side)
<1>1. OrdersGood(b.orders, b.nextId, {}) /\ LevelsGood(b.orders, b.levels)
  BY DEF Sound
<1>. QED  BY <1>1, QueueInPriority

\* Which are determined by those orders.
LEMMA QueueIsUnique ==
  ASSUME NEW b, NEW lost, NEW E, Sound(b, lost, E, {}), NEW side \in Sides,
         NEW q, InPriority(side, q), Range(q) = EntriesOf(b, side)
  PROVE  QueueOf(b, side) = q
BY QueuesAreGood, PriorityIsUnique

\* The whole matching of an order.
LEMMA MatchingTakes ==
  ASSUME OneSided, NEW t \in Traders, NEW side \in SidesOf[t], NEW b, NEW E,
         Sound(b, {}, E, {}), BestsAre(b, {}), NEW amount \in Nat, NEW limit \in Nat,
         NEW m, m = Match(b, t, side, limit, amount)
  PROVE  TakesAll(b, m, t, side, limit, amount)
<1>. DEFINE maker == Other(side)
            q == QueueOf(b, maker)
            start == [book |-> b, price |-> b.best[maker], left |-> amount, fills |-> 0]
<1>1. side \in Sides /\ maker \in Sides /\ maker # side
  <2>1. side \in Sides
    BY BookAssumption DEF Sides
  <2>. QED  BY <2>1, SidesAreTwo
<1>2. InPriority(maker, q) /\ Range(q) = EntriesOf(b, maker)
  BY <1>1, QueuesAreGood
<1>. HIDE DEF q
<1>3. PICK M : /\ TakesSo(M, maker, q, t, side, limit, amount)
               /\ Promise!Take(q, t, side, limit, amount) = M[Len(q)]
  BY <1>1, <1>2, TakingAll
<1>. DEFINE T == {x \in Meeting \cup {start} : MetSome(b, q, M, side, x)}
            taken == M[Len(q)]
<1>4. Len(q) \in Nat
  BY <1>2 DEF InPriority
<1>5. start \in T
  <2>1. M[0].kept = <<>> /\ M[0].left = amount /\ M[0].fills = 0
    BY <1>3 DEF TakesSo
  <2>2. Range(<<>>) = {} /\ Behind(q, 0) = EntriesOf(b, maker)
    <3>1. 0 \in 0 .. Len(q)
      BY <1>4
    <3>2. Behind(q, 0) = Range(q)
      BY <1>1, <1>2, <3>1, BehindFacts
    <3>3. Range(<<>>) = {}
      BY DEF Range
    <3>. QED  BY <1>2, <3>2, <3>3
  <2>3. start.left = amount /\ start.fills = 0 /\ start.book = b
    OBVIOUS
  <2>. HIDE DEF start
  <2>4. MetFirst(b, q, M, side, start, 0)
    BY <2>1, <2>2, <2>3 DEF MetFirst
  <2>. QED  BY <1>4, <2>4 DEF MetSome
<1>6. VisitsInside(b, E, t, side, limit, amount, T)
  <2>1. ASSUME NEW x \in T, Matched(b, x, maker, E) PROVE VisitLevel(x, t, side, limit) \in T
    <3>1. MetSome(b, q, M, side, VisitLevel(x, t, side, limit))
      BY <1>2, <1>3, <2>1, VisitingMeets DEF Promises
    <3>2. Matched(b, VisitLevel(x, t, side, limit), maker, E)
      BY <2>1, Visiting
    <3>3. VisitLevel(x, t, side, limit) \in Meeting
      BY <3>2 DEF Matched
    <3>. QED  BY <3>1, <3>3
  <2>. HIDE DEF T
  <2>. QED  BY <1>5, <2>1 DEF VisitsInside
<1>7. Matched(b, m, maker, E) /\ Done(m, side, limit) /\ m \in T
  <2>. HIDE DEF T
  <2>. QED  BY <1>6, MatchingInside
<1>8. Sound(m.book, {}, E, {})
  BY <1>7 DEF Matched
<1>9. PICK k \in 0 .. Len(q) : MetFirst(b, q, M, side, m, k)
  BY <1>7 DEF MetSome
<1>. HIDE DEF T
<1>10. /\ m.left = M[k].left /\ m.fills = M[k].fills
       /\ EntriesOf(m.book, maker) = Range(M[k].kept) \cup Behind(q, k)
       /\ EntriesOf(m.book, side) = EntriesOf(b, side)
  BY <1>9 DEF MetFirst
<1>11. \/ M[k].left = 0 \/ M[k].fills = MaxMatches
       \/ \A o \in Behind(q, k) : ~Accepts(side, limit, o.price)
  <2>1. CASE Stuck(m)
    BY <1>10, <2>1 DEF Stuck
  <2>2. CASE ~Stuck(m)
    <3>1. \A x \in Ids : \/ m.book.orders[x].trader = NULL
                         \/ m.book.orders[x].side = side
                         \/ ~Accepts(side, limit, m.book.orders[x].price)
      BY <1>1, <1>7, <2>2, NoneIsAccepted
    <3>2. \A o \in EntriesOf(m.book, maker) : ~Accepts(side, limit, o.price)
      <4>1. \A x \in SideIds(m.book, maker) : ~Accepts(side, limit, m.book.orders[x].price)
        BY <1>1, <3>1 DEF SideIds
      <4>2. \A x : Entry(m.book, x).price = m.book.orders[x].price
        BY DEF Entry
      <4>. QED  BY <4>1, <4>2 DEF EntriesOf
    <3>. QED  BY <1>10, <3>2
  <2>. QED  BY <2>1, <2>2
<1>12. Range(taken.kept) = Range(M[k].kept) \cup Behind(q, k) /\ taken.left = M[k].left
  BY <1>1, <1>2, <1>3, <1>11, RestIsKept
<1>13. InPriority(maker, taken.kept)
  <2>1. Taken(maker, q, Len(q), M[Len(q)])
    BY <1>3, <1>4 DEF TakesSo
  <2>. QED  BY <2>1 DEF Taken
<1>14. QueueOf(m.book, maker) = taken.kept
  BY <1>1, <1>8, <1>10, <1>12, <1>13, QueueIsUnique
<1>15. QueueOf(m.book, side) = QueueOf(b, side)
  BY <1>1, <1>8, <1>10, QueuesAreGood, QueueIsUnique
<1>. QED  BY <1>3, <1>10, <1>12, <1>14, <1>15 DEF TakesAll, q

----------------------------------------------------------------------------
(* The calls. *)

\* The two queues of a book.
Abs(b) == [side \in Sides |-> QueueOf(b, side)]

\* The orders of b that c has no more.
GoneFrom(b, c) == {id \in Ids : b.orders[id].trader # NULL /\ c.orders[id].trader = NULL}

\* Orders that are cancelled leave their queue.
LEMMA RemovingIsCancelling ==
  ASSUME NEW b, NEW lost, NEW E, Sound(b, lost, E, {}), NEW c, NEW lost2, NEW E2,
         Sound(c, lost2, E2, {}), Removes(b, c)
  PROVE  /\ Abs(c) = Promise!Cancelled(Abs(b), GoneFrom(b, c))
         /\ GoneFrom(b, c) \subseteq Promise!Ids(Abs(b))
<1>. DEFINE ids == GoneFrom(b, c)
            Left(side) == {o \in Range(QueueOf(b, side)) : o.id \notin ids}
<1>1. ASSUME NEW side \in Sides
      PROVE  QueueOf(c, side) = Promise!Only(QueueOf(b, side), Left(side))
  <2>1. InPriority(side, QueueOf(b, side)) /\ Range(QueueOf(b, side)) = EntriesOf(b, side)
    BY QueuesAreGood
  <2>2. /\ InPriority(side, Promise!Only(QueueOf(b, side), Left(side)))
        /\ Range(Promise!Only(QueueOf(b, side), Left(side))) = Left(side)
    <3>1. Left(side) \subseteq Range(QueueOf(b, side))
      OBVIOUS
    <3>. HIDE DEF Left
    <3>. QED  BY <2>1, <3>1, SomeInPriority
  <2>3. \A x \in Ids : x \in SideIds(c, side) <=> x \in SideIds(b, side) /\ x \notin ids
    <3>. TAKE x \in Ids
    <3>1. c.orders[x].trader = NULL \/ SameTerms(b.orders[x], c.orders[x])
      BY BookConstants DEF Removes
    <3>. QED  BY <3>1 DEF SideIds, SameTerms, GoneFrom
  <2>4. \A x \in Ids : x \in SideIds(c, side) => Entry(c, x) = Entry(b, x)
    <3>1. \A x \in Ids : x \in SideIds(c, side) => SameTerms(b.orders[x], c.orders[x])
      BY BookConstants DEF Removes, SideIds
    <3>. QED  BY <3>1, SameTermsSameEntry
  <2>5. SideIds(b, side) \subseteq Ids /\ SideIds(c, side) \subseteq Ids
    BY DEF SideIds
  <2>6. \A x : Entry(b, x).id = x
    BY DEF Entry
  <2>7. EntriesOf(c, side) = Left(side)
    BY <2>1, <2>3, <2>4, <2>5, <2>6 DEF EntriesOf
  <2>. HIDE DEF Left
  <2>. QED  BY <2>2, <2>7, QueueIsUnique
<1>2. Abs(c) = Promise!Cancelled(Abs(b), ids)
  <2>1. \A side \in Sides : Abs(b)[side] = QueueOf(b, side)
    BY DEF Abs
  <2>2. Promise!Cancelled(Abs(b), ids)
          = [side \in Sides |->
               Promise!Only(Abs(b)[side], {o \in Range(Abs(b)[side]) : o.id \notin ids})]
    BY Zenon DEF Promise!Cancelled, Promise!Sides, Sides, Promise!Range, Range
  <2>3. \A side \in Sides :
          Promise!Only(Abs(b)[side], {o \in Range(Abs(b)[side]) : o.id \notin ids})
            = QueueOf(c, side)
    BY <1>1, <2>1
  <2>. QED  BY <2>2, <2>3 DEF Abs
<1>3. ids \subseteq Promise!Ids(Abs(b))
  <2>1. ASSUME NEW id \in ids PROVE \E side \in Sides : \E o \in Range(Abs(b)[side]) : o.id = id
    <3>1. id \in Ids /\ id \in 0 .. MaxOrders /\ b.orders[id].trader # NULL
      BY <2>1, BookConstants DEF GoneFrom
    <3>. DEFINE side == b.orders[id].side
    <3>2. side \in Sides
      BY <3>1 DEF Sound, OrdersGood, Orders
    <3>3. Entry(b, id) \in EntriesOf(b, side) /\ Entry(b, id).id = id
      BY <3>1 DEF EntriesOf, SideIds, Entry
    <3>4. Abs(b)[side] = QueueOf(b, side) /\ Range(QueueOf(b, side)) = EntriesOf(b, side)
      BY <3>2, QueuesAreGood DEF Abs
    <3>. QED  BY <3>2, <3>3, <3>4
  <2>2. Promise!Ids(Abs(b)) = UNION {{o.id : o \in Range(Abs(b)[side])} : side \in Sides}
    BY Zenon DEF Promise!Ids, Promise!Sides, Sides, Promise!Range, Range
  <2>. QED  BY <2>1, <2>2
<1>. QED  BY <1>2, <1>3

\* The queues depend on the orders only.
LEMMA SameOrdersSameQueues ==
  ASSUME NEW b, NEW lost, NEW E, Sound(b, lost, E, {}), NEW c, NEW lost2, NEW E2,
         Sound(c, lost2, E2, {}), c.orders = b.orders
  PROVE  Abs(c) = Abs(b) /\ \A side \in Sides : QueueOf(c, side) = QueueOf(b, side)
<1>1. ASSUME NEW side \in Sides PROVE QueueOf(c, side) = QueueOf(b, side)
  <2>1. InPriority(side, QueueOf(b, side)) /\ Range(QueueOf(b, side)) = EntriesOf(b, side)
    BY QueuesAreGood
  <2>2. EntriesOf(c, side) = EntriesOf(b, side)
    BY SameOrdersSameEntries
  <2>. QED  BY <2>1, <2>2, QueueIsUnique
<1>. QED  BY <1>1 DEF Abs

\* A new order among those of the queues.
NewEntry(id, t, price, left) == [id |-> id, trader |-> t, price |-> price, amount |-> left]

\* What the promise makes of an order that comes in.
PlacedQueue(b, id, t, side, limit, rest, taken, z) ==
  IF z # side THEN taken.kept
  ELSE IF rest /\ taken.left > 0
       THEN Promise!Enqueue(QueueOf(b, side), side, NewEntry(id, t, limit, taken.left))
       ELSE QueueOf(b, side)

\* What the promise takes from the other queue.
TakenOf(b, t, side, limit, amount) ==
  Promise!Take(QueueOf(b, Other(side)), t, side, limit, amount)

\* Both queues.
PlacedQueues(b, id, t, side, limit, rest, taken) ==
  [z \in Sides |-> PlacedQueue(b, id, t, side, limit, rest, taken, z)]

\* On each side.
LEMMA PlacedSideBySide ==
  ASSUME NEW b, NEW id, NEW t, NEW side \in Sides, NEW limit, NEW amount, NEW rest
  PROVE  Promise!Placed(Abs(b), id, t, side, limit, amount, rest)
           = PlacedQueues(b, id, t, side, limit, rest, TakenOf(b, t, side, limit, amount))
<1>. DEFINE taken == TakenOf(b, t, side, limit, amount)
            maker == Other(side)
            q == Abs(b)
            o == NewEntry(id, t, limit, taken.left)
            u == IF rest /\ taken.left > 0 THEN Promise!Enqueue(q[side], side, o) ELSE q[side]
<1>1. maker \in Sides /\ maker # side /\ Sides = {side, maker}
  BY SidesAreTwo
<1>2. q = [z \in Sides |-> q[z]] /\ q[side] = QueueOf(b, side) /\ q[maker] = QueueOf(b, maker)
  BY <1>1 DEF Abs
<1>. HIDE DEF q
<1>3. Promise!Other(side) = maker
  BY DEF Promise!Other, Other
<1>4. taken = Promise!Take(q[maker], t, side, limit, amount)
  BY <1>2 DEF TakenOf
<1>. HIDE DEF taken
<1>5. Promise!Placed(q, id, t, side, limit, amount, rest)
        = [q EXCEPT ![maker] = taken.kept,
                    ![side] = IF rest /\ taken.left > 0 THEN Promise!Enqueue(@, side, o) ELSE @]
  BY <1>3, <1>4, Zenon DEF Promise!Placed, NewEntry
<1>6. [q EXCEPT ![maker] = taken.kept,
                ![side] = IF rest /\ taken.left > 0 THEN Promise!Enqueue(@, side, o) ELSE @]
        = [z \in Sides |-> IF z = maker THEN taken.kept ELSE u]
  <2>. HIDE DEF o, maker
  <2>. QED  BY <1>1, <1>2
<1>7. \A z \in Sides : (IF z = maker THEN taken.kept ELSE u)
                         = PlacedQueue(b, id, t, side, limit, rest, taken, z)
  <2>1. maker \in Sides /\ maker # side /\ \A z \in Sides : z = maker <=> z # side
    BY <1>1
  <2>. HIDE DEF maker
  <2>2. u = IF rest /\ taken.left > 0
            THEN Promise!Enqueue(QueueOf(b, side), side, NewEntry(id, t, limit, taken.left))
            ELSE QueueOf(b, side)
    BY <1>2, Zenon
  <2>. HIDE DEF u
  <2>. QED  BY <2>1, <2>2, Zenon DEF PlacedQueue
<1>. HIDE DEF u, maker
<1>8. [z \in Sides |-> IF z = maker THEN taken.kept ELSE u]
        = [z \in Sides |-> PlacedQueue(b, id, t, side, limit, rest, taken, z)]
  BY <1>7
<1>. QED  BY <1>5, <1>6, <1>8 DEF q, PlacedQueues, taken

\* The remainder of an order is dropped.
Drops(b, id, t, side, limit, amount, taken) ==
  Promise!Placed(Abs(b), id, t, side, limit, amount, FALSE)
    = PlacedQueues(b, id, t, side, limit, FALSE, taken)

\* Of an order that does not rest.
LEMMA TakenOnly ==
  ASSUME NEW b, NEW id, NEW t, NEW side \in Sides, NEW limit, NEW amount
  PROVE  Drops(b, id, t, side, limit, amount, TakenOf(b, t, side, limit, amount))
<1>1. PICK rest : rest = FALSE
  OBVIOUS
<1>2. Promise!Placed(Abs(b), id, t, side, limit, amount, rest)
        = PlacedQueues(b, id, t, side, limit, rest, TakenOf(b, t, side, limit, amount))
  BY PlacedSideBySide
<1>. QED  BY <1>1, <1>2, Zenon DEF Drops

\* The remainder of an order rests.
Rests(b, id, t, side, limit, amount, taken) ==
  Promise!Placed(Abs(b), id, t, side, limit, amount, TRUE)
    = PlacedQueues(b, id, t, side, limit, TRUE, taken)

\* And of an order that rests.
LEMMA TakenAndRested ==
  ASSUME NEW b, NEW id, NEW t, NEW side \in Sides, NEW limit, NEW amount
  PROVE  Rests(b, id, t, side, limit, amount, TakenOf(b, t, side, limit, amount))
<1>1. PICK rest : rest = TRUE
  OBVIOUS
<1>2. Promise!Placed(Abs(b), id, t, side, limit, amount, rest)
        = PlacedQueues(b, id, t, side, limit, rest, TakenOf(b, t, side, limit, amount))
  BY PlacedSideBySide
<1>. QED  BY <1>1, <1>2, Zenon DEF Rests

\* The book after a matching has the queues the promise has.
LEMMA MatchedIsTaken ==
  ASSUME OneSided, NEW b, Sound(b, {}, {}, {}), NEW t \in Traders, NEW side \in SidesOf[t],
         NEW limit \in Nat, NEW amount \in Nat,
         NEW b1, NEW m, NEW E, MatchedWith(b, b1, m, E, t, side, limit, amount)
  PROVE  /\ TakesAll(b, m, t, side, limit, amount) /\ m.book.nextId = b.nextId + 1
         /\ Sound(m.book, {}, E, {}) /\ m.left \in Nat
<1>1. side \in Sides /\ Other(side) \in Sides
  <2>1. side \in Sides
    BY BookAssumption DEF Sides
  <2>. QED  BY <2>1, SidesAreTwo
<1>2. /\ Sound(b1, {}, E, {}) /\ BestsAre(b1, {}) /\ m = Match(b1, t, side, limit, amount)
      /\ b1.orders = b.orders /\ b1.nextId = b.nextId + 1 /\ Matched(b1, m, Other(side), E)
  BY DEF MatchedWith, IdTaken
<1>3. TakesAll(b1, m, t, side, limit, amount)
  BY <1>2, MatchingTakes
<1>4. \A z \in Sides : QueueOf(b1, z) = QueueOf(b, z)
  BY <1>2, SameOrdersSameQueues
<1>5. TakesAll(b, m, t, side, limit, amount)
  BY <1>1, <1>3, <1>4 DEF TakesAll
<1>6. Sound(m.book, {}, E, {}) /\ m.book.nextId = b1.nextId /\ m.left \in Nat
  BY <1>2 DEF Matched, Thins, Meeting
<1>. QED  BY <1>2, <1>5, <1>6

\* The promise has taken in a market order.
MarketOrderPlaced(b, c, t, side, limit, amount) ==
  /\ Abs(c) = Promise!Placed(Abs(b), b.nextId, t, side, limit, amount, FALSE)
  /\ c.nextId = b.nextId + 1

\* The promise has taken in a limit order.
LimitOrderPlaced(b, c, t, side, limit, amount) ==
  /\ Abs(c) = Promise!Placed(Abs(b), b.nextId, t, side, limit, amount, TRUE)
  /\ c.nextId = b.nextId + 1

\* A market order.
LEMMA MatchingIsPlacing ==
  ASSUME OneSided, NEW b, Sound(b, {}, {}, {}), NEW t \in Traders, NEW side \in SidesOf[t],
         NEW limit \in Nat, NEW amount \in Nat,
         NEW b1, NEW m, MatchedWith(b, b1, m, {}, t, side, limit, amount)
  PROVE  MarketOrderPlaced(b, m.book, t, side, limit, amount)
<1>1. side \in Sides /\ Other(side) \in Sides /\ Sides = {side, Other(side)}
  <2>1. side \in Sides
    BY BookAssumption DEF Sides
  <2>. QED  BY <2>1, SidesAreTwo
<1>2. TakesAll(b, m, t, side, limit, amount) /\ m.book.nextId = b.nextId + 1
  BY MatchedIsTaken
<1>. DEFINE taken == TakenOf(b, t, side, limit, amount)
<1>3. \A z \in Sides :
        QueueOf(m.book, z) = PlacedQueue(b, b.nextId, t, side, limit, FALSE, taken, z)
  <2>1. /\ QueueOf(m.book, Other(side)) = taken.kept
        /\ QueueOf(m.book, side) = QueueOf(b, side)
    BY <1>2, Zenon DEF TakesAll, TakenOf
  <2>. HIDE DEF taken
  <2>. QED  BY <1>1, <2>1, Zenon DEF PlacedQueue
<1>4. Drops(b, b.nextId, t, side, limit, amount, taken)
  BY <1>1, TakenOnly
<1>. HIDE DEF taken
<1>5. Abs(m.book) = PlacedQueues(b, b.nextId, t, side, limit, FALSE, taken)
  BY <1>3 DEF Abs, PlacedQueues
<1>. QED  BY <1>2, <1>4, <1>5, Zenon DEF MarketOrderPlaced, Drops

\* The entries after an order came to rest.
LEMMA RestedEntries ==
  ASSUME NEW b, NEW id, Unused(b, id), NEW t \in Traders, NEW side, NEW price, NEW left,
         NEW c, RestedSo(b, c, id, t, side, price, left)
  PROVE  /\ \A z : z # side => EntriesOf(c, z) = EntriesOf(b, z)
         /\ left = 0 => EntriesOf(c, side) = EntriesOf(b, side)
         /\ left # 0 => EntriesOf(c, side) = EntriesOf(b, side) \cup {NewEntry(id, t, price, left)}
<1>1. id \in Ids /\ b.orders[id].trader = NULL /\ id \in 0 .. MaxOrders
  BY BookConstants DEF Unused, NoOrder
<1>2. \A x \in Ids : x # id => SameTerms(b.orders[x], c.orders[x])
  BY BookConstants DEF RestedSo
<1>3. \A x \in Ids : \A z : x # id
        => /\ Entry(c, x) = Entry(b, x)
           /\ x \in SideIds(c, z) <=> x \in SideIds(b, z)
  BY <1>2, SameTermsSameEntry
<1>4. \A z : id \notin SideIds(b, z)
  BY <1>1 DEF SideIds
<1>5. \A z : SideIds(b, z) \subseteq Ids /\ SideIds(c, z) \subseteq Ids
  BY DEF SideIds
<1>6. \A z : id \notin SideIds(c, z) => EntriesOf(c, z) = EntriesOf(b, z)
  BY <1>3, <1>4, <1>5 DEF EntriesOf
<1>7. CASE c.orders[id].trader = NULL /\ left = 0
  <2>1. \A z : id \notin SideIds(c, z)
    BY <1>7 DEF SideIds
  <2>. QED  BY <1>6, <1>7, <2>1
<1>8. CASE IsPlaced(c.orders[id], t, side, price, left) /\ left # 0
  <2>1. \A z : id \in SideIds(c, z) <=> z = side
    BY <1>1, <1>8, BookConstants DEF SideIds, IsPlaced
  <2>2. Entry(c, id) = NewEntry(id, t, price, left)
    BY <1>8 DEF Entry, NewEntry, IsPlaced
  <2>3. SideIds(c, side) = SideIds(b, side) \cup {id}
    BY <1>3, <1>5, <2>1
  <2>4. EntriesOf(c, side) = EntriesOf(b, side) \cup {NewEntry(id, t, price, left)}
    BY <1>3, <1>4, <1>5, <2>2, <2>3 DEF EntriesOf
  <2>. QED  BY <1>6, <1>8, <2>1, <2>4
<1>. QED  BY <1>7, <1>8 DEF RestedSo

\* A limit order.
LEMMA PlacingIsPlacing ==
  ASSUME OneSided, NEW b, Sound(b, {}, {}, {}), NEW t \in Traders, NEW side \in SidesOf[t],
         NEW price \in Prices, NEW amount \in Nat,
         NEW c, Sound(c, {}, {}, {}), PlacedWith(b, c, t, side, price, amount)
  PROVE  LimitOrderPlaced(b, c, t, side, price, amount)
<1>. DEFINE id == b.nextId
            taken == TakenOf(b, t, side, price, amount)
            o == NewEntry(id, t, price, taken.left)
<1>1. side \in Sides /\ Other(side) \in Sides /\ Other(side) # side /\ Sides = {side, Other(side)}
  <2>1. side \in Sides
    BY BookAssumption DEF Sides
  <2>. QED  BY <2>1, SidesAreTwo
<1>2. PICK b1, m : /\ MatchedWith(b, b1, m, {b.nextId}, t, side, price, amount)
                   /\ Unused(m.book, b.nextId)
                   /\ RestedSo(m.book, c, b.nextId, t, side, price, m.left)
  BY DEF PlacedWith
<1>3. price \in Nat
  BY BookConstants
<1>4. /\ TakesAll(b, m, t, side, price, amount) /\ m.book.nextId = b.nextId + 1
      /\ Sound(m.book, {}, {b.nextId}, {}) /\ m.left \in Nat
  BY <1>2, <1>3, MatchedIsTaken
<1>5. c.nextId = b.nextId + 1
  BY <1>2, <1>4 DEF RestedSo
<1>6. /\ QueueOf(m.book, Other(side)) = taken.kept /\ m.left = taken.left
      /\ QueueOf(m.book, side) = QueueOf(b, side)
  BY <1>4, Zenon DEF TakesAll, TakenOf
<1>7. /\ \A z : z # side => EntriesOf(c, z) = EntriesOf(m.book, z)
      /\ m.left = 0 => EntriesOf(c, side) = EntriesOf(m.book, side)
      /\ m.left # 0 => EntriesOf(c, side) = EntriesOf(m.book, side)
                                              \cup {NewEntry(b.nextId, t, price, m.left)}
  BY <1>2, RestedEntries
<1>8. \A z \in Sides : /\ InPriority(z, QueueOf(m.book, z))
                       /\ Range(QueueOf(m.book, z)) = EntriesOf(m.book, z)
  BY <1>4, QueuesAreGood
<1>. HIDE DEF taken
<1>9. QueueOf(c, Other(side)) = taken.kept
  BY <1>1, <1>6, <1>7, <1>8, QueueIsUnique
<1>10. ASSUME m.left = 0
       PROVE  \A z \in Sides : QueueOf(c, z) = PlacedQueue(b, id, t, side, price, TRUE, taken, z)
  <2>1. QueueOf(c, side) = QueueOf(b, side)
    BY <1>1, <1>6, <1>7, <1>8, <1>10, QueueIsUnique
  <2>2. ~(taken.left > 0)
    BY <1>6, <1>10
  <2>. QED  BY <1>1, <1>9, <2>1, <2>2 DEF PlacedQueue
<1>11. ASSUME m.left # 0
       PROVE  \A z \in Sides : QueueOf(c, z) = PlacedQueue(b, id, t, side, price, TRUE, taken, z)
  <2>1. o \in Entries /\ o.id = b.nextId /\ o = NewEntry(b.nextId, t, price, m.left)
    <3>1. b.nextId \in Nat
      BY <1>2, BookConstants DEF Unused
    <3>. QED  BY <1>4, <1>6, <3>1 DEF NewEntry, Entries
  <2>2. \A x \in Range(QueueOf(b, side)) : x.id < o.id
    <3>1. ASSUME NEW x \in SideIds(m.book, side) PROVE x < b.nextId
      <4>1. x \in 0 .. MaxOrders /\ m.book.orders[x].trader # NULL
        BY <3>1, BookConstants DEF SideIds
      <4>2. x # b.nextId
        BY <1>2, <4>1 DEF Unused, NoOrder
      <4>3. x \in 1 .. m.book.nextId - 1
        BY <1>4, <4>1 DEF Sound, OrdersGood, NoOrder
      <4>4. b.nextId \in Nat
        BY <1>2, BookConstants DEF Unused
      <4>. QED  BY <1>4, <4>2, <4>3, <4>4
    <3>2. \A x : Entry(m.book, x).id = x
      BY DEF Entry
    <3>. QED  BY <1>1, <1>6, <1>8, <2>1, <3>1, <3>2 DEF EntriesOf
  <2>. HIDE DEF o
  <2>3. /\ InPriority(side, Promise!Enqueue(QueueOf(b, side), side, o))
        /\ Range(Promise!Enqueue(QueueOf(b, side), side, o)) = Range(QueueOf(b, side)) \cup {o}
    BY <1>1, <1>6, <1>8, <2>1, <2>2, EnqueuedInPriority
  <2>4. QueueOf(c, side) = Promise!Enqueue(QueueOf(b, side), side, o)
    BY <1>1, <1>6, <1>7, <1>8, <1>11, <2>1, <2>3, QueueIsUnique
  <2>5. taken.left > 0
    BY <1>4, <1>6, <1>11
  <2>. QED  BY <1>1, <1>9, <2>4, <2>5 DEF PlacedQueue, o
<1>12. Rests(b, b.nextId, t, side, price, amount, taken)
  BY <1>1, TakenAndRested DEF taken
<1>13. Abs(c) = PlacedQueues(b, id, t, side, price, TRUE, taken)
  BY <1>10, <1>11 DEF Abs, PlacedQueues
<1>. QED  BY <1>5, <1>12, <1>13, Zenon DEF LimitOrderPlaced, Rests

\* No queue changes.
QueuesKept(b, c) == c.nextId = b.nextId /\ Abs(c) = Abs(b)

\* Orders leave the queues.
OrdersCancelled(b, c) ==
  /\ c.nextId = b.nextId
  /\ \E ids \in SUBSET Promise!Ids(Abs(b)) : Abs(c) = Promise!Cancelled(Abs(b), ids)

\* An order comes in, perhaps in the place of another.
OrderComes(b, c) ==
  /\ c.nextId = b.nextId + 1
  /\ \E side \in Sides, limit \in Prices, amount \in Amounts :
       \/ \E trader \in Traders, rest \in BOOLEAN :
            Abs(c) = Promise!Placed(Abs(b), b.nextId, trader, side, limit, amount, rest)
       \/ \E o \in Range(Abs(b)[side]) :
            Abs(c) = Promise!Placed(Promise!Cancelled(Abs(b), {o.id}), b.nextId, o.trader, side,
                                    limit, amount, TRUE)

\* The promise allows a step from the queues of b to those of c.
Promised(b, c) == QueuesKept(b, c) \/ OrdersCancelled(b, c) \/ OrderComes(b, c)

\* Orders that only go have been cancelled.
LEMMA RemovingIsPromised ==
  ASSUME NEW b, NEW lost, NEW E, Sound(b, lost, E, {}), NEW c, NEW lost2, NEW E2,
         Sound(c, lost2, E2, {}), Removes(b, c)
  PROVE  Promised(b, c)
<1>1. /\ Abs(c) = Promise!Cancelled(Abs(b), GoneFrom(b, c))
      /\ GoneFrom(b, c) \subseteq Promise!Ids(Abs(b))
  BY RemovingIsCancelling
<1>2. c.nextId = b.nextId
  BY DEF Removes
<1>. QED  BY <1>1, <1>2, Zenon DEF Promised, OrdersCancelled

\* A limit order comes in.
LEMMA LimitOrderIsPromised ==
  ASSUME OneSided, NEW b, Sound(b, {}, {}, {}), BestsAre(b, {}), b.nextId <= MaxOrders,
         NEW t \in Traders, NEW side \in SidesOf[t], NEW price \in Prices, NEW amount \in Amounts,
         NEW c, c = PlaceLimitOrder(b, t, side, price, amount)
  PROVE  Promised(b, c)
<1>1. MayPlace(t, side, price) /\ amount \in Nat /\ side \in Sides
  BY BookAssumption DEF MayPlace, Sides
<1>2. Sound(c, {}, {}, {}) /\ PlacedWith(b, c, t, side, price, amount)
  BY <1>1, PlacingStages
<1>3. LimitOrderPlaced(b, c, t, side, price, amount)
  BY <1>1, <1>2, PlacingIsPlacing
<1>4. \E trader \in Traders, rest \in BOOLEAN :
        Abs(c) = Promise!Placed(Abs(b), b.nextId, trader, side, price, amount, rest)
  BY <1>3, Zenon DEF LimitOrderPlaced
<1>. QED  BY <1>1, <1>3, <1>4, Zenon DEF Promised, OrderComes, LimitOrderPlaced

\* A market order comes in.
LEMMA MarketOrderIsPromised ==
  ASSUME OneSided, NEW b, Sound(b, {}, {}, {}), BestsAre(b, {}), b.nextId <= MaxOrders,
         NEW t \in Traders, NEW side \in SidesOf[t], NEW limit \in Prices, NEW amount \in Amounts,
         NEW c, c = Match([Refresh(b, Other(side)) EXCEPT !.nextId = @ + 1],
                          t, side, limit, amount).book
  PROVE  Promised(b, c)
<1>1. amount \in Nat /\ limit \in Nat /\ side \in Sides
  BY BookAssumption DEF Sides
<1>2. PICK b1, m : MatchedWith(b, b1, m, {}, t, side, limit, amount) /\ c = m.book
  BY <1>1, MatchingOnly
<1>3. MarketOrderPlaced(b, m.book, t, side, limit, amount)
  BY <1>1, <1>2, MatchingIsPlacing
<1>4. \E trader \in Traders, rest \in BOOLEAN :
        Abs(c) = Promise!Placed(Abs(b), b.nextId, trader, side, limit, amount, rest)
  BY <1>2, <1>3, Zenon DEF MarketOrderPlaced
<1>. QED  BY <1>1, <1>2, <1>3, <1>4, Zenon DEF Promised, OrderComes, MarketOrderPlaced

\* An order comes in in the place of another, which is cancelled.
LEMMA ModifyingIsPromised ==
  ASSUME OneSided, NEW b, Sound(b, {}, {}, {}), BestsAre(b, {}), b.nextId <= MaxOrders,
         NEW id \in Ids, b.orders[id].trader # NULL,
         NEW price \in Prices, NEW amount \in Amounts,
         NEW c, c = PlaceLimitOrder(CancelOrderIn(b, id), b.orders[id].trader, b.orders[id].side,
                                    price, amount)
  PROVE  Promised(b, c)
<1>. DEFINE t == b.orders[id].trader
            side == b.orders[id].side
            b1 == CancelOrderIn(b, id)
            o == Entry(b, id)
<1>1. MayPlace(t, side, price) /\ amount \in Nat
  BY OrderMayBePlaced, BookAssumption
<1>2. t \in Traders /\ side \in SidesOf[t] /\ side \in Sides
  BY <1>1, BookAssumption DEF MayPlace, Sides
<1>3. /\ Sound(b1, {}, {}, {}) /\ BestsAre(b1, {}) /\ Thins(b, b1, {id})
      /\ b1.orders[id].trader = NULL
  BY CancellingOrder
<1>4. b1.nextId = b.nextId /\ Removes(b, b1)
  BY <1>3, RemovingSome DEF Thins
<1>5. GoneFrom(b, b1) = {id}
  <2>1. \A x \in Ids : x # id => b1.orders[x].trader = b.orders[x].trader
    BY <1>3, BookConstants DEF Thins, SameTerms
  <2>. HIDE DEF b1
  <2>. QED  BY <1>3, <2>1 DEF GoneFrom
<1>6. Abs(b1) = Promise!Cancelled(Abs(b), {id})
  <2>1. Abs(b1) = Promise!Cancelled(Abs(b), GoneFrom(b, b1))
    BY <1>3, <1>4, RemovingIsCancelling
  <2>. HIDE DEF b1
  <2>. QED  BY <1>5, <2>1
<1>7. o \in Range(Abs(b)[side]) /\ o.id = id /\ o.trader = t
  <2>1. o \in EntriesOf(b, side) /\ o.id = id /\ o.trader = t
    BY DEF EntriesOf, SideIds, Entry
  <2>2. Abs(b)[side] = QueueOf(b, side) /\ Range(QueueOf(b, side)) = EntriesOf(b, side)
    BY <1>2, QueuesAreGood DEF Abs
  <2>. QED  BY <2>1, <2>2
<1>8. c = PlaceLimitOrder(b1, t, side, price, amount)
  OBVIOUS
<1>. HIDE DEF b1, t, side, o
<1>9. Sound(c, {}, {}, {}) /\ PlacedWith(b1, c, t, side, price, amount)
  BY <1>1, <1>3, <1>4, <1>8, PlacingStages
<1>10. LimitOrderPlaced(b1, c, t, side, price, amount)
  BY <1>1, <1>2, <1>3, <1>9, PlacingIsPlacing
<1>11. Abs(c) = Promise!Placed(Promise!Cancelled(Abs(b), {o.id}), b.nextId, o.trader, side,
                               price, amount, TRUE)
  BY <1>4, <1>6, <1>7, <1>10, Zenon DEF LimitOrderPlaced
<1>12. c.nextId = b.nextId + 1
  BY <1>4, <1>10 DEF LimitOrderPlaced
<1>. QED  BY <1>2, <1>7, <1>11, <1>12, Zenon DEF Promised, OrderComes

\* Every step of the book is one the promise allows.
LEMMA StepIsPromised ==
  ASSUME OneSided, BookInv, [Next]_vars
  PROVE  Promised(book, book')
<1>. DEFINE lost == LostHeads(settled)
<1>1. settled \in BOOLEAN /\ Sound(book, lost, {}, {}) /\ BestsAre(book, lost)
  BY DEF BookInv, Good
<1>2. lost \in {{}, {0}} /\ (~settled => lost = {})
  BY <1>1 DEF LostHeads
<1>3. MarketActive => lost = {} /\ book.nextId <= MaxOrders
  BY <1>2 DEF MarketActive
<1>4. IsBook(book)
  BY <1>1 DEF Sound
<1>. HIDE DEF lost
<1>5. ASSUME NEW t \in Traders, NEW side \in SidesOf[t], NEW price \in Prices,
             NEW amount \in Amounts, PlaceMarginLimitOrder(t, side, price, amount)
      PROVE  Promised(book, book')
  <2>1. MarketActive /\ book' = PlaceLimitOrder(book, t, side, price, amount)
    BY <1>5 DEF PlaceMarginLimitOrder, Commit
  <2>2. Sound(book, {}, {}, {}) /\ BestsAre(book, {}) /\ book.nextId <= MaxOrders
    BY <1>1, <1>3, <2>1
  <2>. QED  BY <2>1, <2>2, LimitOrderIsPromised
<1>6. ASSUME NEW t \in Traders, NEW side \in SidesOf[t], NEW price \in Prices,
             NEW amount \in Amounts, PlaceMarginMarketOrder(t, side, price, amount)
      PROVE  Promised(book, book')
  <2>1. /\ MarketActive
        /\ book' = Match([Refresh(book, Other(side)) EXCEPT !.nextId = @ + 1],
                         t, side, price, amount).book
    BY <1>6, Zenon DEF PlaceMarginMarketOrder, Commit
  <2>2. Sound(book, {}, {}, {}) /\ BestsAre(book, {}) /\ book.nextId <= MaxOrders
    BY <1>1, <1>3, <2>1
  <2>. QED  BY <2>1, <2>2, MarketOrderIsPromised
<1>7. ASSUME NEW id \in Ids, CancelOrder(id) PROVE Promised(book, book')
  <2>1. book.orders[id].trader # NULL /\ book' = CancelOrderIn(book, id)
    BY <1>7 DEF CancelOrder, Commit, Resting
  <2>2. /\ Sound(book', lost, {}, {}) /\ Thins(book, book', {id})
        /\ book'.orders[id].trader = NULL
    BY <1>1, <1>2, <2>1, CancellingOrder
  <2>3. Removes(book, book')
    BY <2>2, RemovingSome
  <2>. QED  BY <1>1, <2>2, <2>3, RemovingIsPromised
<1>8. ASSUME NEW id \in Ids, NEW price \in Prices, NEW amount \in Amounts,
             ModifyOrder(id, price, amount)
      PROVE  Promised(book, book')
  <2>1. /\ MarketActive /\ book.orders[id].trader # NULL
        /\ book' = PlaceLimitOrder(CancelOrderIn(book, id), book.orders[id].trader,
                                   book.orders[id].side, price, amount)
    BY <1>8, Zenon DEF ModifyOrder, Commit, Resting
  <2>2. Sound(book, {}, {}, {}) /\ BestsAre(book, {}) /\ book.nextId <= MaxOrders
    BY <1>1, <1>3, <2>1
  <2>. QED  BY <2>1, <2>2, ModifyingIsPromised
<1>9. ASSUME AdminCancelAllRestingOrders PROVE Promised(book, book')
  <2>. DEFINE c == CancelSide(book, "buy")
  <2>1. book' = CancelSide(c, "sell")
    BY <1>9 DEF AdminCancelAllRestingOrders, Commit
  <2>2. Sound(c, lost, {}, {}) /\ BestsAre(c, lost) /\ Removes(book, c)
    BY <1>1, <1>2, CancellingSide DEF Sides
  <2>. HIDE DEF c
  <2>3. Sound(book', lost, {}, {}) /\ Removes(c, book')
    BY <1>2, <2>1, <2>2, CancellingSide DEF Sides
  <2>4. Removes(book, book')
    BY <2>2, <2>3, RemovingSome
  <2>. QED  BY <1>1, <2>3, <2>4, RemovingIsPromised
<1>10. ASSUME Forgotten(book, book') PROVE Promised(book, book')
  <2>1. Sound(book', {0}, {}, {}) /\ book'.orders = book.orders /\ book'.nextId = book.nextId
    BY <1>1, <1>2, <1>10, Forgetting DEF Forgotten
  <2>2. Abs(book') = Abs(book)
    BY <1>1, <2>1, SameOrdersSameQueues
  <2>. QED  BY <2>1, <2>2 DEF Promised, QueuesKept
<1>11. ASSUME SettleMarket PROVE Promised(book, book')
  <2>1. Forgotten(book, book')
    BY <1>4, <1>11 DEF SettleMarket, Forgotten, IsBook
  <2>. QED  BY <1>10, <2>1
<1>12. ASSUME CleanupSettledMarket PROVE Promised(book, book')
  <2>1. Forgotten(book, book')
    BY <1>4, <1>12 DEF CleanupSettledMarket, Forgotten, IsBook
  <2>. QED  BY <1>10, <2>1
<1>13. ASSUME UNCHANGED vars PROVE Promised(book, book')
  <2>1. book' = book
    BY <1>13 DEF vars
  <2>. QED  BY <2>1 DEF Promised, QueuesKept
<1>. HIDE DEF Promised
<1>. QED  BY <1>5, <1>6, <1>7, <1>8, <1>9, <1>11, <1>12, <1>13 DEF Next

\* No order: two empty queues.
LEMMA NothingIsPromised ==
  Init => Promise!Init
<1>. SUFFICES ASSUME Init PROVE Promise!Init
  OBVIOUS
<1>1. Sound(book, {}, {}, {})
  BY EmptyBook DEF BookInv, Good, LostHeads, Init
<1>2. book.orders = [id \in 0 .. MaxOrders |-> NoOrder] /\ book.nextId = 1
  BY DEF Init
<1>3. ASSUME NEW side \in Sides PROVE QueueOf(book, side) = <<>>
  <2>1. \A id \in Ids : id \notin SideIds(book, side)
    BY <1>2, BookConstants DEF SideIds, NoOrder
  <2>2. SideIds(book, side) = {}
    BY <2>1 DEF SideIds
  <2>3. EntriesOf(book, side) = {}
    BY <2>2 DEF EntriesOf
  <2>4. Range(QueueOf(book, side)) = {} /\ InPriority(side, QueueOf(book, side))
    BY <1>1, <2>3, QueuesAreGood
  <2>5. InPriority(side, <<>>) /\ Range(<<>>) = {}
    BY DEF InPriority, Range
  <2>. QED  BY <1>1, <2>3, <2>5, QueueIsUnique
<1>4. Abs(book) = [side \in Sides |-> <<>>]
  BY <1>3 DEF Abs
<1>5. book.nextId - 1 = 0
  BY <1>2
<1>. QED  BY <1>4, <1>5, Zenon DEF Promise!Init, Abs, Promise!Sides, Sides

\* A step of the book is a step of the promise.
LEMMA StepImplements ==
  ASSUME OneSided, BookInv, BookInv', [Next]_vars
  PROVE  [Promise!Next]_<<[side \in Sides |-> QueueOf(book, side)], book.nextId - 1>>
<1>1. Promised(book, book')
  BY StepIsPromised
<1>2. book.nextId \in Nat /\ book'.nextId \in Nat
  BY BookConstants DEF BookInv, Good, Sound, OrdersGood
<1>3. CASE QueuesKept(book, book')
  <2>1. Abs(book') = Abs(book) /\ book'.nextId = book.nextId
    BY <1>3 DEF QueuesKept
  <2>. QED  BY <2>1, Zenon DEF Abs
<1>4. CASE OrdersCancelled(book, book')
  <2>1. /\ book'.nextId - 1 = book.nextId - 1
        /\ \E ids \in SUBSET Promise!Ids(Abs(book)) :
             Abs(book') = Promise!Cancelled(Abs(book), ids)
    BY <1>4, Zenon DEF OrdersCancelled
  <2>. QED  BY <2>1, Zenon DEF Promise!Next, Abs
<1>5. CASE OrderComes(book, book')
  <2>1. book'.nextId - 1 = book.nextId - 1 + 1 /\ book.nextId = book'.nextId - 1
    BY <1>2, <1>5 DEF OrderComes
  <2>2. \E side \in Sides, limit \in Prices, amount \in Amounts :
          \/ \E trader \in Traders, rest \in BOOLEAN :
               Abs(book') = Promise!Placed(Abs(book), book'.nextId - 1, trader, side,
                                           limit, amount, rest)
          \/ \E o \in Range(Abs(book)[side]) :
               Abs(book') = Promise!Placed(Promise!Cancelled(Abs(book), {o.id}), book'.nextId - 1,
                                           o.trader, side, limit, amount, TRUE)
    BY <1>5, <2>1, Zenon DEF OrderComes
  <2>. QED  BY <2>1, <2>2, Zenon DEF Promise!Next, Abs, Promise!Sides, Sides, Promise!Range, Range
<1>. QED  BY <1>1, <1>3, <1>4, <1>5 DEF Promised

\* Linked lists, cached pointers and cached best prices implement two queues in
\* price-time priority: every call is one order coming in, orders being
\* cancelled, or both, and what it leaves is what the promise says it leaves.
THEOREM BookImplementsPromise ==
  ASSUME OneSided
  PROVE  Spec => ImplementsPriorityBook
<1>1. BookInv /\ BookInv' /\ [Next]_vars
        => [Promise!Next]_<<[side \in Sides |-> QueueOf(book, side)], book.nextId - 1>>
  BY StepImplements
<1>2. Init => Promise!Init
  BY NothingIsPromised
<1>. QED  BY <1>1, <1>2, BookIsGood, PTL DEF Spec, ImplementsPriorityBook, Promise!Spec
=============================================================================
