----------------------- MODULE TransactionQueue_proofs -----------------------
(***************************************************************************)
(* What the transaction queues of a node keep true, for any makers, any    *)
(* transactions, any limit on blocks and any number of other miners.       *)
(***************************************************************************)
EXTENDS TransactionQueue, FiniteSetTheorems, NaturalsInduction, TLAPS

-----------------------------------------------------------------------------
(* Functions defined by recursion on a number. *)

LEMMA LeastExists ==
  ASSUME NEW S \in SUBSET Nat, S # {}
  PROVE  \E m \in S : \A i \in S : m <= i
PROOF
  <1>1. PICK m \in S : \A i \in S : ~(<<i, m>> \in OpToRel(<, Nat))
    BY NatLessThanWellFounded, WFMin
  <1>2. ASSUME NEW i \in S, i < m PROVE FALSE
    BY <1>1, <1>2 DEF OpToRel
  <1> QED
    BY <1>2

(* What holds at 0 and passes from each number to the next holds up to n. *)
LEMMA UpTo ==
  ASSUME NEW n \in Nat, NEW Good, 0 \in Good, \A i \in 1..n : i - 1 \in Good => i \in Good
  PROVE  \A i \in 0..n : i \in Good
PROOF
  <1> DEFINE bad == { i \in 0..n : i \notin Good }
  <1>1. bad = {}
    <2> SUFFICES ASSUME bad # {} PROVE FALSE
      OBVIOUS
    <2>1. PICK k \in bad : \A i \in bad : k <= i
      <3>1. bad \in SUBSET Nat
        OBVIOUS
      <3> HIDE DEF bad
      <3> QED
        BY <3>1, LeastExists
    <2>2. k \in 1..n /\ k \notin Good /\ k - 1 \in 0..n /\ ~(k <= k - 1)
      OBVIOUS
    <2> QED
      BY <2>1, <2>2
  <1> QED
    BY <1>1

(* f starts with v, and each later value follows from the one before. *)
Iterates(f, v, step, n) ==
  f = [i \in 0..n |-> IF i = 0 THEN v ELSE step[<<f[i - 1], i>>]]

(* A recursion whose steps stay in V has a solution, and it stays in V. *)
LEMMA IterationExists ==
  ASSUME NEW V, NEW v \in V, NEW n \in Nat, NEW step \in [V \X (1..n) -> V]
  PROVE  \E f \in [0..n -> V] : Iterates(f, v, step, n)
PROOF
  <1> DEFINE Solved(k) == \E f \in [0..k -> V] : Iterates(f, v, step, k)
  <1> DEFINE Good == { k \in 0..n : Solved(k) }
  <1>1. \A k \in 0..n : k \in Good
    <2>1. 0 \in Good
      <3> DEFINE f == [i \in 0..0 |-> v]
      <3>1. f \in [0..0 -> V] /\ Iterates(f, v, step, 0)
        BY DEF Iterates
      <3> HIDE DEF f
      <3> QED
        BY <3>1
    <2>2. ASSUME NEW k \in 1..n, k - 1 \in Good PROVE k \in Good
      <3>1. k # 0 /\ k \in 0..n
        OBVIOUS
      <3>2. PICK f \in [0..(k - 1) -> V] : Iterates(f, v, step, k - 1)
        BY <2>2
      <3> DEFINE g == [i \in 0..k |-> IF i = k THEN step[<<f[k - 1], k>>] ELSE f[i]]
      <3>3. \A i \in 0..(k - 1) : f[i] \in V /\ f[i] = IF i = 0 THEN v ELSE step[<<f[i - 1], i>>]
        BY <3>2 DEF Iterates
      <3>4. ASSUME NEW i \in 0..k
            PROVE  g[i] \in V /\ g[i] = IF i = 0 THEN v ELSE step[<<g[i - 1], i>>]
        <4>1. CASE i = k
          <5>1. k - 1 \in 0..(k - 1) /\ k - 1 \in 0..k /\ k - 1 # k
            BY <3>1
          <5>2. g[k - 1] = f[k - 1] /\ f[k - 1] \in V
            BY <3>3, <5>1
          <5>3. g[i] = step[<<f[k - 1], k>>]
            BY <4>1
          <5>4. <<f[k - 1], k>> \in V \X (1..n)
            BY <3>1, <5>2
          <5> QED
            BY <3>1, <4>1, <5>2, <5>3, <5>4
        <4>2. CASE i # k
          <5>1. i \in 0..(k - 1) /\ g[i] = f[i]
            BY <3>1, <4>2
          <5>2. i # 0 => i - 1 \in 0..k /\ i - 1 # k /\ g[i - 1] = f[i - 1]
            BY <3>1, <4>2
          <5> QED
            BY <3>3, <5>1, <5>2
        <4> QED
          BY <4>1, <4>2
      <3>5. g \in [0..k -> V] /\ Iterates(g, v, step, k)
        BY <3>4 DEF Iterates
      <3> HIDE DEF g
      <3> QED
        BY <3>5
    <2> HIDE DEF Good
    <2> QED
      BY <2>1, <2>2, UpTo
  <1>2. n \in 0..n
    OBVIOUS
  <1>3. Solved(n)
    BY <1>1, <1>2
  <1> QED
    BY <1>3

-----------------------------------------------------------------------------
(* Sequences of transactions. *)

LEMMA Appended ==
  ASSUME NEW T, NEW s \in Seq(T), NEW t \in T
  PROVE  /\ Append(s, t) \in Seq(T) /\ Len(Append(s, t)) = Len(s) + 1
         /\ \A i \in 1..Len(s) : Append(s, t)[i] = s[i]
         /\ Append(s, t)[Len(s) + 1] = t
         /\ ToSet(Append(s, t)) = ToSet(s) \cup {t}
PROOF
  <1> DEFINE r == Append(s, t)
  <1> DEFINE n == Len(s)
  <1>1. /\ r \in Seq(T) /\ Len(r) = n + 1 /\ n \in Nat /\ r[n + 1] = t
        /\ \A i \in 1..n : r[i] = s[i]
    OBVIOUS
  <1>2. DOMAIN s = 1..n /\ DOMAIN r = 1..(n + 1)
    BY <1>1
  <1> HIDE DEF r, n
  <1>3. ToSet(r) \subseteq ToSet(s) \cup {t}
    BY <1>1, <1>2 DEF ToSet
  <1>4. ToSet(s) \cup {t} \subseteq ToSet(r)
    BY <1>1, <1>2 DEF ToSet
  <1> QED
    BY <1>1, <1>3, <1>4 DEF r, n

LEMMA Nonces ==
  ASSUME NEW t \in Transaction
  PROVE  t.nonce \in Nat /\ t.weight \in Nat \ {0} /\ t.maker \in Maker /\ t # None
BY QueueAssumption DEF Maker

LEMMA AppendIncreasing ==
  ASSUME NEW s \in Seq(Transaction), NEW t \in Transaction, Increasing(s),
         \A u \in ToSet(s) : u.nonce < t.nonce
  PROVE  Increasing(Append(s, t))
PROOF
  <1> DEFINE r == Append(s, t)
  <1> DEFINE n == Len(s)
  <1>1. /\ Len(r) = n + 1 /\ n \in Nat /\ r[n + 1] = t
        /\ \A i \in 1..n : r[i] = s[i] /\ s[i] \in Transaction /\ s[i] \in ToSet(s)
        /\ DOMAIN s = 1..n /\ DOMAIN r = 1..(n + 1)
    BY DEF ToSet
  <1> HIDE DEF r, n
  <1>2. ASSUME NEW i \in 1..(n + 1), NEW j \in 1..(n + 1), i < j
        PROVE  r[i].nonce < r[j].nonce
    <2>1. i \in 1..n
      BY <1>1, <1>2
    <2>2. CASE j = n + 1
      BY <1>1, <2>1, <2>2
    <2>3. CASE j # n + 1
      <3>1. j \in 1..n
        BY <1>1, <2>3
      <3> QED
        BY <1>1, <1>2, <2>1, <3>1 DEF Increasing
    <2> QED
      BY <2>2, <2>3
  <1>3. Increasing(r)
    BY <1>1, <1>2 DEF Increasing
  <1> QED
    BY <1>3 DEF r

(* Kept, one element after the other. *)
KeptSoFar(f, s, S) ==
  /\ f[0] = <<>>
  /\ \A i \in 1..Len(s) : f[i] = IF s[i] \in S THEN Append(f[i - 1], s[i]) ELSE f[i - 1]
  /\ Kept(s, S) = f[Len(s)]

LEMMA KeptUnrolls ==
  ASSUME NEW T, NEW s \in Seq(T), NEW S
  PROVE  \E f \in [0..Len(s) -> Seq(T)] : KeptSoFar(f, s, S)
PROOF
  <1> DEFINE n == Len(s)
  <1> DEFINE V == Seq(T)
  <1> DEFINE step == [p \in V \X (1..n) |-> IF s[p[2]] \in S THEN Append(p[1], s[p[2]]) ELSE p[1]]
  <1>1. n \in Nat /\ \A i \in 1..n : s[i] \in T
    OBVIOUS
  <1>2. step \in [V \X (1..n) -> V]
    OBVIOUS
  <1>3. <<>> \in V
    OBVIOUS
  <1>4. \A x \in V, i \in 1..n : step[<<x, i>>] = IF s[i] \in S THEN Append(x, s[i]) ELSE x
    OBVIOUS
  <1> HIDE DEF step, n
  <1>5. PICK g \in [0..n -> V] : Iterates(g, <<>>, step, n)
    <2> HIDE DEF V
    <2> QED
      BY <1>1, <1>2, <1>3, IterationExists
  <1> DEFINE Follows(f) ==
        f = [i \in 0..n |-> IF i = 0 THEN <<>>
                            ELSE IF s[i] \in S THEN Append(f[i - 1], s[i]) ELSE f[i - 1]]
  <1>6. Follows(g)
    <2>1. g = [i \in 0..n |-> IF i = 0 THEN <<>> ELSE step[<<g[i - 1], i>>]]
      BY <1>5 DEF Iterates
    <2>2. ASSUME NEW i \in 0..n
          PROVE  g[i] = IF i = 0 THEN <<>>
                        ELSE IF s[i] \in S THEN Append(g[i - 1], s[i]) ELSE g[i - 1]
      <3>1. CASE i = 0
        BY <2>1, <3>1
      <3>2. CASE i # 0
        <4>1. i \in 1..n /\ i - 1 \in 0..n
          BY <1>1, <3>2
        <4>2. g[i - 1] \in V
          BY <1>5, <4>1
        <4> HIDE DEF V
        <4> QED
          BY <1>4, <2>1, <3>2, <4>1, <4>2
      <3> QED
        BY <3>1, <3>2
    <2> QED
      BY <2>1, <2>2
  <1> DEFINE f == CHOOSE f : Follows(f)
  <1>7. Follows(f)
    <2> HIDE DEF Follows
    <2> QED
      BY <1>6
  <1>8. Kept(s, S) = f[n]
    BY DEF Kept, n
  <1> HIDE DEF f
  <1>9. f[0] = <<>> /\ \A i \in 1..n : f[i] = IF s[i] \in S THEN Append(f[i - 1], s[i]) ELSE f[i - 1]
    <2>1. f[0] = <<>>
      BY <1>1, <1>7
    <2>2. ASSUME NEW i \in 1..n
          PROVE  f[i] = IF s[i] \in S THEN Append(f[i - 1], s[i]) ELSE f[i - 1]
      <3>1. i \in 0..n /\ i # 0
        BY <1>1
      <3> QED
        BY <1>7, <3>1
    <2> QED
      BY <2>1, <2>2
  <1>10. f \in [0..n -> V]
    <2> DEFINE Good == { i \in 0..n : f[i] \in V }
    <2>1. 0 \in Good
      <3>1. 0 \in 0..n /\ f[0] \in V
        <4> HIDE DEF V
        <4> QED
          BY <1>1, <1>3, <1>9
      <3> HIDE DEF V
      <3> QED
        BY <3>1
    <2>2. ASSUME NEW i \in 1..n, i - 1 \in Good PROVE i \in Good
      <3>1. f[i - 1] \in V /\ s[i] \in T /\ i \in 0..n
        BY <1>1, <2>2
      <3>2. Append(f[i - 1], s[i]) \in V
        BY <3>1
      <3>3. f[i] \in V
        BY <1>9, <3>1, <3>2
      <3> QED
        BY <3>1, <3>3
    <2>3. \A i \in 0..n : i \in Good
      <3> HIDE DEF Good
      <3> QED
        BY <1>1, <2>1, <2>2, UpTo
    <2> QED
      BY <1>7, <2>3
  <1> HIDE DEF V
  <1>11. KeptSoFar(f, s, S)
    BY <1>8, <1>9 DEF n, KeptSoFar
  <1> QED
    BY <1>10, <1>11 DEF n, V

(* Kept keeps what it is asked to keep, and keeps the order of nonces. *)
LEMMA KeptFacts ==
  ASSUME NEW s \in Seq(Transaction), NEW S
  PROVE  /\ Kept(s, S) \in Seq(Transaction)
         /\ ToSet(Kept(s, S)) = ToSet(s) \cap S
         /\ Increasing(s) => Increasing(Kept(s, S))
PROOF
  <1> DEFINE n == Len(s)
  <1>0. PICK f \in [0..n -> Seq(Transaction)] : KeptSoFar(f, s, S)
    BY KeptUnrolls
  <1>1. /\ f[0] = <<>>
        /\ \A i \in 1..n : f[i] = IF s[i] \in S THEN Append(f[i - 1], s[i]) ELSE f[i - 1]
        /\ Kept(s, S) = f[n]
    BY <1>0 DEF KeptSoFar
  <1>2. n \in Nat /\ DOMAIN s = 1..n /\ \A i \in 1..n : s[i] \in Transaction
    OBVIOUS
  <1> HIDE DEF n
  <1> DEFINE First(i) == { s[j] : j \in 1..i }
  <1> DEFINE Good == { i \in 0..n : /\ ToSet(f[i]) = First(i) \cap S
                                    /\ Increasing(s) => Increasing(f[i]) }
  <1>3. 0 \in Good
    <2>1. ToSet(<<>>) = {} /\ Increasing(<<>>)
      BY DEF ToSet, Increasing
    <2>2. First(0) = {} /\ 0 \in 0..n
      BY <1>2
    <2> QED
      BY <1>1, <2>1, <2>2
  <1>4. ASSUME NEW i \in 1..n, i - 1 \in Good PROVE i \in Good
    <2>1. /\ i - 1 \in 0..n /\ i \in 0..n /\ s[i] \in Transaction
          /\ f[i - 1] \in Seq(Transaction)
          /\ ToSet(f[i - 1]) = First(i - 1) \cap S
          /\ Increasing(s) => Increasing(f[i - 1])
      <3>1. i - 1 \in 0..n /\ i \in 0..n /\ s[i] \in Transaction
        BY <1>2
      <3> HIDE DEF First
      <3>2. ToSet(f[i - 1]) = First(i - 1) \cap S /\ (Increasing(s) => Increasing(f[i - 1]))
        BY <1>4
      <3> QED
        BY <3>1, <3>2
    <2>2. First(i) = First(i - 1) \cup {s[i]}
      <3>1. 1..i = (1..(i - 1)) \cup {i}
        BY <1>2
      <3> QED
        BY <3>1
    <2> HIDE DEF First
    <2>3. CASE s[i] \in S
      <3>1. f[i] = Append(f[i - 1], s[i])
        BY <1>1, <2>3
      <3>2. ToSet(f[i]) = ToSet(f[i - 1]) \cup {s[i]}
        BY <2>1, <3>1, Appended
      <3>3. ASSUME Increasing(s) PROVE Increasing(f[i])
        <4>1. ASSUME NEW u \in ToSet(f[i - 1]) PROVE u.nonce < s[i].nonce
          <5>1. PICK j \in 1..(i - 1) : u = s[j]
            BY <2>1 DEF First
          <5>2. j \in DOMAIN s /\ i \in DOMAIN s /\ j < i
            BY <1>2
          <5> QED
            BY <3>3, <5>1, <5>2 DEF Increasing
        <4> QED
          BY <2>1, <3>1, <3>3, <4>1, AppendIncreasing
      <3> QED
        BY <2>1, <2>2, <2>3, <3>2, <3>3
    <2>4. CASE s[i] \notin S
      <3>1. f[i] = f[i - 1]
        BY <1>1, <2>4
      <3> QED
        BY <2>1, <2>2, <2>4, <3>1
    <2> QED
      BY <2>3, <2>4
  <1>5. n \in Good
    <2>1. n \in 0..n
      BY <1>2
    <2> HIDE DEF Good
    <2> QED
      BY <1>2, <1>3, <1>4, <2>1, UpTo
  <1>6. ToSet(s) = First(n)
    BY <1>2 DEF ToSet
  <1> HIDE DEF First
  <1>7. Kept(s, S) = f[n] /\ f[n] \in Seq(Transaction)
    BY <1>1, <1>5
  <1> QED
    BY <1>5, <1>6, <1>7

-----------------------------------------------------------------------------
(* Weights and blocks. *)

(* The weight of a block, one transaction after the other. *)
WeightSoFar(f, block) ==
  /\ f[0] = 0
  /\ \A i \in 1..Len(block) : f[i] = f[i - 1] + block[i].weight
  /\ Weight(block) = f[Len(block)]

LEMMA WeightUnrolls ==
  ASSUME NEW block \in Seq(Transaction)
  PROVE  \E f \in [0..Len(block) -> Nat] : WeightSoFar(f, block)
PROOF
  <1> DEFINE n == Len(block)
  <1> DEFINE step == [p \in Nat \X (1..n) |-> p[1] + block[p[2]].weight]
  <1>1. n \in Nat /\ \A i \in 1..n : block[i].weight \in Nat
    BY Nonces
  <1>2. step \in [Nat \X (1..n) -> Nat]
    BY <1>1
  <1>3. \A x \in Nat, i \in 1..n : step[<<x, i>>] = x + block[i].weight
    OBVIOUS
  <1> HIDE DEF step, n
  <1>4. PICK g \in [0..n -> Nat] : Iterates(g, 0, step, n)
    BY <1>1, <1>2, IterationExists
  <1> DEFINE Follows(f) == f = [i \in 0..n |-> IF i = 0 THEN 0 ELSE f[i - 1] + block[i].weight]
  <1>5. Follows(g)
    <2>1. g = [i \in 0..n |-> IF i = 0 THEN 0 ELSE step[<<g[i - 1], i>>]]
      BY <1>4 DEF Iterates
    <2>2. ASSUME NEW i \in 0..n
          PROVE  g[i] = IF i = 0 THEN 0 ELSE g[i - 1] + block[i].weight
      <3>1. CASE i = 0
        BY <2>1, <3>1
      <3>2. CASE i # 0
        <4>1. i \in 1..n /\ i - 1 \in 0..n
          BY <1>1, <3>2
        <4>2. g[i - 1] \in Nat
          BY <1>4, <4>1
        <4> QED
          BY <1>3, <2>1, <3>2, <4>1, <4>2
      <3> QED
        BY <3>1, <3>2
    <2> QED
      BY <2>1, <2>2
  <1> DEFINE f == CHOOSE f : Follows(f)
  <1>6. Follows(f)
    <2> HIDE DEF Follows
    <2> QED
      BY <1>5
  <1>7. Weight(block) = f[n]
    BY DEF Weight, n
  <1> HIDE DEF f
  <1>8. f[0] = 0 /\ 0 \in 0..n
    BY <1>1, <1>6
  <1>9. ASSUME NEW i \in 1..n PROVE f[i] = f[i - 1] + block[i].weight
    <2>1. i \in 0..n /\ i # 0
      BY <1>1
    <2> QED
      BY <1>6, <2>1
  <1>10. f \in [0..n -> Nat]
    <2> DEFINE Good == { i \in 0..n : f[i] \in Nat }
    <2>1. 0 \in Good
      BY <1>8
    <2>2. ASSUME NEW i \in 1..n, i - 1 \in Good PROVE i \in Good
      <3>1. f[i - 1] \in Nat /\ block[i].weight \in Nat /\ i \in 0..n
        BY <1>1, <2>2
      <3> QED
        BY <1>9, <3>1
    <2>3. \A i \in 0..n : i \in Good
      <3> HIDE DEF Good
      <3> QED
        BY <1>1, <2>1, <2>2, UpTo
    <2> QED
      BY <1>6, <2>3
  <1>11. WeightSoFar(f, block)
    BY <1>7, <1>8, <1>9 DEF n, WeightSoFar
  <1> QED
    BY <1>10, <1>11 DEF n

LEMMA WeightFacts ==
  /\ Weight(<<>>) = 0
  /\ \A block \in Seq(Transaction) :
       /\ Weight(block) \in Nat
       /\ \A t \in Transaction : Weight(Append(block, t)) = Weight(block) + t.weight
PROOF
  <1>1. Weight(<<>>) = 0
    <2> DEFINE empty == <<>>
    <2>1. empty \in Seq(Transaction) /\ Len(empty) = 0
      OBVIOUS
    <2> HIDE DEF empty
    <2>2. PICK f \in [0..Len(empty) -> Nat] : WeightSoFar(f, empty)
      BY <2>1, WeightUnrolls
    <2> QED
      BY <2>1, <2>2 DEF WeightSoFar, empty
  <1>2. ASSUME NEW block \in Seq(Transaction), NEW t \in Transaction
        PROVE  Weight(Append(block, t)) = Weight(block) + t.weight
    <2> DEFINE longer == Append(block, t)
    <2> DEFINE n == Len(block)
    <2>1. /\ longer \in Seq(Transaction) /\ Len(longer) = n + 1 /\ longer[n + 1] = t
          /\ n \in Nat /\ \A i \in 1..n : longer[i] = block[i]
      OBVIOUS
    <2>2. PICK f \in [0..n -> Nat] : WeightSoFar(f, block)
      BY WeightUnrolls
    <2> HIDE DEF longer
    <2>3. PICK g \in [0..Len(longer) -> Nat] : WeightSoFar(g, longer)
      BY <2>1, WeightUnrolls
    <2>4. /\ f[0] = 0 /\ Weight(block) = f[n]
          /\ \A i \in 1..n : f[i] = f[i - 1] + block[i].weight
      BY <2>2 DEF WeightSoFar
    <2>5. /\ g[0] = 0 /\ Weight(longer) = g[n + 1]
          /\ \A i \in 1..(n + 1) : g[i] = g[i - 1] + longer[i].weight
      BY <2>1, <2>3 DEF WeightSoFar
    <2> HIDE DEF n
    <2> DEFINE Same == { i \in 0..n : f[i] = g[i] }
    <2>6. 0 \in Same
      BY <2>1, <2>4, <2>5
    <2>7. ASSUME NEW i \in 1..n, i - 1 \in Same PROVE i \in Same
      <3>1. i \in 0..n /\ i \in 1..(n + 1) /\ f[i - 1] = g[i - 1] /\ longer[i] = block[i]
        BY <2>1, <2>7
      <3> QED
        BY <2>4, <2>5, <3>1
    <2>8. n \in Same
      <3>1. n \in 0..n
        BY <2>1
      <3> HIDE DEF Same
      <3> QED
        BY <2>1, <2>6, <2>7, <3>1, UpTo
    <2>9. g[n + 1] = g[n] + t.weight
      <3>1. n + 1 \in 1..(n + 1) /\ (n + 1) - 1 = n
        BY <2>1
      <3> QED
        BY <2>1, <2>5, <3>1
    <2> QED
      BY <2>4, <2>5, <2>8, <2>9 DEF longer
  <1>3. ASSUME NEW block \in Seq(Transaction) PROVE Weight(block) \in Nat
    <2>1. PICK f \in [0..Len(block) -> Nat] : WeightSoFar(f, block)
      BY WeightUnrolls
    <2> QED
      BY <2>1 DEF WeightSoFar
  <1> QED
    BY <1>1, <1>2, <1>3

(* The contents of a ledger, one block after the other. *)
FlatSoFar(f, blocks) ==
  /\ f[0] = <<>>
  /\ \A i \in 1..Len(blocks) : f[i] = f[i - 1] \o blocks[i]
  /\ FlattenSeq(blocks) = f[Len(blocks)]

LEMMA FlattenUnrolls ==
  ASSUME NEW T, NEW blocks \in Seq(Seq(T))
  PROVE  \E f \in [0..Len(blocks) -> Seq(T)] : FlatSoFar(f, blocks)
PROOF
  <1> DEFINE n == Len(blocks)
  <1> DEFINE V == Seq(T)
  <1> DEFINE step == [p \in V \X (1..n) |-> p[1] \o blocks[p[2]]]
  <1>1. n \in Nat /\ \A i \in 1..n : blocks[i] \in V
    OBVIOUS
  <1>2. \A x, y \in V : x \o y \in V
    OBVIOUS
  <1>3. <<>> \in V /\ \A x \in V : <<>> \o x = x
    OBVIOUS
  <1> HIDE DEF V
  <1>4. step \in [V \X (1..n) -> V]
    BY <1>1, <1>2
  <1>5. \A x \in V, i \in 1..n : step[<<x, i>>] = x \o blocks[i]
    OBVIOUS
  <1> HIDE DEF step, n
  <1>6. PICK g \in [0..n -> V] : Iterates(g, <<>>, step, n)
    BY <1>1, <1>3, <1>4, IterationExists
  <1>7. /\ 0 \in 0..n /\ g[0] = <<>>
        /\ \A i \in 1..n : i \in 0..n /\ i - 1 \in 0..n /\ g[i] = g[i - 1] \o blocks[i]
    <2>1. g = [i \in 0..n |-> IF i = 0 THEN <<>> ELSE step[<<g[i - 1], i>>]]
      BY <1>6 DEF Iterates
    <2>2. 0 \in 0..n /\ g[0] = <<>>
      BY <1>1, <2>1
    <2>3. ASSUME NEW i \in 1..n
          PROVE  i \in 0..n /\ i - 1 \in 0..n /\ g[i] = g[i - 1] \o blocks[i]
      <3>1. i \in 0..n /\ i - 1 \in 0..n /\ i # 0
        BY <1>1
      <3>2. g[i - 1] \in V
        BY <1>6, <3>1
      <3> QED
        BY <1>5, <2>1, <3>1, <3>2
    <2> QED
      BY <2>2, <2>3
  <1> DEFINE Follows(f) ==
        f = [i \in 1..n |-> IF i = 1 THEN blocks[i] ELSE f[i - 1] \o blocks[i]]
  <1> DEFINE h == [i \in 1..n |-> g[i]]
  <1>8. Follows(h)
    <2>1. ASSUME NEW i \in 1..n PROVE h[i] = IF i = 1 THEN blocks[i] ELSE h[i - 1] \o blocks[i]
      <3>1. CASE i = 1
        <4>1. i - 1 = 0 /\ h[i] = g[i] /\ blocks[i] \in V
          BY <1>1, <3>1
        <4>2. g[i] = g[i - 1] \o blocks[i] /\ g[i - 1] = <<>>
          BY <1>7, <4>1
        <4>3. g[i] = blocks[i]
          BY <1>3, <4>1, <4>2
        <4> HIDE DEF h
        <4> QED
          BY <3>1, <4>1, <4>3
      <3>2. CASE i # 1
        <4>1. i - 1 \in 1..n
          BY <1>1, <3>2
        <4> QED
          BY <1>7, <3>2, <4>1
      <3> QED
        BY <3>1, <3>2
    <2> QED
      BY <2>1
  <1> DEFINE f == CHOOSE f : Follows(f)
  <1>9. Follows(f)
    <2> HIDE DEF Follows, h
    <2> QED
      BY <1>8
  <1>10. FlattenSeq(blocks) = IF n = 0 THEN blocks ELSE f[n]
    BY DEF FlattenSeq, n
  <1> HIDE DEF f, h
  <1> DEFINE k == [i \in 0..n |-> IF i = 0 THEN <<>> ELSE f[i]]
  <1> DEFINE Good == { i \in 0..n : k[i] = g[i] }
  <1>11. 0 \in Good
    BY <1>7
  <1>12. ASSUME NEW i \in 1..n, i - 1 \in Good PROVE i \in Good
    <2>1. i \in 0..n /\ i - 1 \in 0..n /\ k[i - 1] = g[i - 1] /\ k[i] = f[i]
      BY <1>1, <1>12
    <2>2. f[i] = IF i = 1 THEN blocks[i] ELSE f[i - 1] \o blocks[i]
      BY <1>9
    <2>3. f[i] = k[i - 1] \o blocks[i]
      <3>1. CASE i = 1
        <4>1. k[i - 1] = <<>>
          BY <1>7, <3>1
        <4> QED
          BY <1>1, <1>3, <2>2, <3>1, <4>1
      <3>2. CASE i # 1
        <4>1. i - 1 # 0 /\ k[i - 1] = f[i - 1]
          BY <2>1, <3>2
        <4> QED
          BY <2>2, <3>2, <4>1
      <3> QED
        BY <3>1, <3>2
    <2> QED
      BY <1>7, <2>1, <2>3
  <1>13. \A i \in 0..n : k[i] = g[i]
    <2>1. \A i \in 0..n : i \in Good
      <3> HIDE DEF Good
      <3> QED
        BY <1>1, <1>11, <1>12, UpTo
    <2> QED
      BY <2>1
  <1>14. FlattenSeq(blocks) = g[n]
    <2>1. CASE n = 0
      <3>1. blocks = <<>>
        BY <2>1 DEF n
      <3> QED
        BY <1>7, <1>10, <2>1, <3>1
    <2>2. CASE n # 0
      <3>1. n \in 0..n /\ k[n] = f[n]
        BY <1>1, <2>2
      <3> QED
        BY <1>10, <1>13, <2>2, <3>1
    <2> QED
      BY <2>1, <2>2
  <1>15. FlatSoFar(g, blocks)
    BY <1>7, <1>14 DEF n, FlatSoFar
  <1> QED
    BY <1>6, <1>15 DEF n, V

LEMMA FlattenStart ==
  ASSUME NEW T, NEW blocks \in Seq(Seq(T)), NEW start \in Seq(Seq(T)), Len(start) <= Len(blocks),
         \A i \in 1..Len(start) : start[i] = blocks[i],
         NEW f, FlatSoFar(f, blocks)
  PROVE  FlattenSeq(start) = f[Len(start)]
PROOF
  <1> DEFINE n == Len(start)
  <1>1. n \in Nat /\ \A i \in 1..n : i \in 1..Len(blocks) /\ start[i] = blocks[i]
    OBVIOUS
  <1>2. PICK g \in [0..n -> Seq(T)] : FlatSoFar(g, start)
    BY FlattenUnrolls
  <1>3. /\ g[0] = <<>> /\ FlattenSeq(start) = g[n]
        /\ \A i \in 1..n : g[i] = g[i - 1] \o start[i]
    BY <1>2 DEF FlatSoFar
  <1>4. f[0] = <<>> /\ \A i \in 1..Len(blocks) : f[i] = f[i - 1] \o blocks[i]
    BY DEF FlatSoFar
  <1> HIDE DEF n
  <1> DEFINE Same == { i \in 0..n : f[i] = g[i] }
  <1>5. 0 \in Same
    BY <1>1, <1>3, <1>4
  <1>6. ASSUME NEW i \in 1..n, i - 1 \in Same PROVE i \in Same
    <2>1. i \in 0..n /\ f[i - 1] = g[i - 1]
      BY <1>1, <1>6
    <2> QED
      BY <1>1, <1>3, <1>4, <2>1
  <1>7. n \in Same
    <2>1. n \in 0..n
      BY <1>1
    <2> HIDE DEF Same
    <2> QED
      BY <1>1, <1>5, <1>6, <2>1, UpTo
  <1> QED
    BY <1>3, <1>7 DEF n

LEMMA FlattenAppended ==
  ASSUME NEW T, NEW blocks \in Seq(Seq(T)), NEW block \in Seq(T)
  PROVE  /\ FlattenSeq(blocks) \in Seq(T)
         /\ FlattenSeq(Append(blocks, block)) = FlattenSeq(blocks) \o block
PROOF
  <1> DEFINE longer == Append(blocks, block)
  <1> DEFINE n == Len(blocks)
  <1>1. /\ longer \in Seq(Seq(T)) /\ Len(longer) = n + 1 /\ longer[n + 1] = block
        /\ n \in Nat /\ \A i \in 1..n : blocks[i] = longer[i]
    OBVIOUS
  <1> HIDE DEF longer
  <1>2. PICK f \in [0..Len(longer) -> Seq(T)] : FlatSoFar(f, longer)
    BY <1>1, FlattenUnrolls
  <1>3. FlattenSeq(blocks) = f[n]
    BY <1>1, <1>2, FlattenStart
  <1> HIDE DEF n
  <1>4. n + 1 \in 1..(n + 1) /\ (n + 1) - 1 = n /\ n \in 0..(n + 1)
    BY <1>1
  <1>5. FlattenSeq(longer) = f[n + 1] /\ f[n + 1] = f[n] \o block
    BY <1>1, <1>2, <1>4 DEF FlatSoFar
  <1>6. f[n] \in Seq(T)
    BY <1>1, <1>2, <1>4
  <1> QED
    BY <1>3, <1>5, <1>6 DEF longer

(* p is how q starts. *)
StartOf(p, q) == Len(p) <= Len(q) /\ \A i \in 1..Len(p) : p[i] = q[i]

LEMMA FlattenCut ==
  ASSUME NEW T, NEW blocks \in Seq(Seq(T)), NEW h \in 0..Len(blocks)
  PROVE  StartOf(FlattenSeq(SubSeq(blocks, 1, h)), FlattenSeq(blocks))
PROOF
  <1> DEFINE n == Len(blocks)
  <1> DEFINE start == SubSeq(blocks, 1, h)
  <1>1. /\ start \in Seq(Seq(T)) /\ Len(start) = h /\ h <= n /\ n \in Nat /\ h \in Nat
        /\ \A i \in 1..h : start[i] = blocks[i]
        /\ \A i \in 1..n : blocks[i] \in Seq(T)
    OBVIOUS
  <1>2. PICK f \in [0..n -> Seq(T)] : FlatSoFar(f, blocks)
    BY FlattenUnrolls
  <1> HIDE DEF start
  <1>3. FlattenSeq(start) = f[h]
    BY <1>1, <1>2, FlattenStart
  <1>4. FlattenSeq(blocks) = f[n] /\ \A i \in 1..n : f[i] = f[i - 1] \o blocks[i]
    BY <1>2 DEF FlatSoFar
  <1> HIDE DEF n
  <1> DEFINE Good == { i \in 0..n : i < h \/ StartOf(f[h], f[i]) }
  <1>5. 0 \in Good
    <2>1. CASE h = 0
      <3>1. StartOf(f[h], f[0])
        <4>1. f[0] \in Seq(T)
          BY <1>1, <1>2
        <4> QED
          BY <2>1, <4>1 DEF StartOf
      <3> QED
        BY <1>1, <3>1
    <2>2. CASE h # 0
      BY <1>1, <2>2
    <2> QED
      BY <2>1, <2>2
  <1>6. ASSUME NEW i \in 1..n, i - 1 \in Good PROVE i \in Good
    <2>1. i \in 0..n /\ i - 1 \in 0..n /\ (i - 1 < h \/ StartOf(f[h], f[i - 1]))
      BY <1>1, <1>6
    <2>2. f[h] \in Seq(T) /\ f[i - 1] \in Seq(T) /\ f[i] = f[i - 1] \o blocks[i] /\ blocks[i] \in Seq(T)
      <3>1. h \in 0..n
        BY <1>1
      <3>2. f[h] \in Seq(T) /\ f[i - 1] \in Seq(T)
        BY <1>2, <2>1, <3>1
      <3>3. f[i] = f[i - 1] \o blocks[i] /\ blocks[i] \in Seq(T)
        BY <1>1, <1>4
      <3> QED
        BY <3>2, <3>3
    <2>3. CASE i < h
      BY <2>1, <2>3
    <2>4. CASE i = h
      BY <2>1, <2>2, <2>4 DEF StartOf
    <2>5. CASE i > h
      <3>1. StartOf(f[h], f[i - 1])
        BY <1>1, <2>1, <2>5
      <3> DEFINE p == f[h]
      <3> DEFINE q == f[i - 1]
      <3> DEFINE r == blocks[i]
      <3>2. p \in Seq(T) /\ q \in Seq(T) /\ r \in Seq(T) /\ StartOf(p, q)
        BY <2>2, <3>1
      <3> HIDE DEF p, q, r
      <3>3. StartOf(p, q \o r)
        BY <3>2 DEF StartOf
      <3> QED
        BY <2>1, <2>2, <3>3 DEF p, q, r
    <2> QED
      BY <1>1, <2>3, <2>4, <2>5
  <1>7. n \in Good
    <2>1. n \in 0..n
      BY <1>1
    <2> HIDE DEF Good
    <2> QED
      BY <1>1, <1>5, <1>6, <2>1, UpTo
  <1>8. StartOf(f[h], f[n])
    BY <1>1, <1>7
  <1> QED
    BY <1>3, <1>4, <1>8 DEF start

(* Each transaction fits after those before it. *)
Replays(all) == \A i \in DOMAIN all : Fits(all[i], ToSet(SubSeq(all, 1, i - 1)))

LEMMA SamePast ==
  ASSUME NEW T, NEW p \in Seq(T), NEW q \in Seq(T), NEW k \in Nat, k <= Len(p), k <= Len(q),
         \A i \in 1..k : p[i] = q[i]
  PROVE  ToSet(SubSeq(p, 1, k)) = ToSet(SubSeq(q, 1, k))
PROOF
  <1>1. SubSeq(p, 1, k) = [i \in 1..k |-> p[i]] /\ SubSeq(q, 1, k) = [i \in 1..k |-> q[i]]
    BY DEF SubSeq
  <1> QED
    BY <1>1

LEMMA ReplaysOn ==
  ASSUME NEW T, NEW all \in Seq(T), NEW t \in T, Replays(all), Fits(t, ToSet(all))
  PROVE  Replays(Append(all, t))
PROOF
  <1> DEFINE longer == Append(all, t)
  <1> DEFINE n == Len(all)
  <1>1. /\ longer \in Seq(T) /\ Len(longer) = n + 1 /\ longer[n + 1] = t /\ n \in Nat
        /\ \A i \in 1..n : longer[i] = all[i]
        /\ DOMAIN all = 1..n /\ DOMAIN longer = 1..(n + 1)
        /\ SubSeq(all, 1, n) = all
    OBVIOUS
  <1> HIDE DEF longer
  <1>2. ASSUME NEW k \in 0..n PROVE ToSet(SubSeq(longer, 1, k)) = ToSet(SubSeq(all, 1, k))
    <2>1. k \in Nat /\ k <= Len(longer) /\ k <= Len(all) /\ \A i \in 1..k : longer[i] = all[i]
      BY <1>1
    <2> QED
      BY <1>1, <2>1, SamePast
  <1> HIDE DEF n
  <1>3. ASSUME NEW i \in 1..(n + 1) PROVE Fits(longer[i], ToSet(SubSeq(longer, 1, i - 1)))
    <2>1. CASE i = n + 1
      <3>1. i - 1 = n /\ n \in 0..n
        BY <1>1, <2>1
      <3> QED
        BY <1>1, <1>2, <2>1, <3>1
    <2>2. CASE i # n + 1
      <3>1. i \in 1..n /\ i - 1 \in 0..n
        BY <1>1, <2>2
      <3>2. Fits(all[i], ToSet(SubSeq(all, 1, i - 1)))
        BY <1>1, <3>1 DEF Replays
      <3> QED
        BY <1>1, <1>2, <3>1, <3>2
    <2> QED
      BY <2>1, <2>2
  <1>4. Replays(longer)
    BY <1>1, <1>3 DEF Replays
  <1> QED
    BY <1>4 DEF longer

LEMMA StartReplays ==
  ASSUME NEW T, NEW p \in Seq(T), NEW q \in Seq(T), StartOf(p, q), Replays(q)
  PROVE  Replays(p)
PROOF
  <1>1. ASSUME NEW i \in DOMAIN p PROVE Fits(p[i], ToSet(SubSeq(p, 1, i - 1)))
    <2>1. /\ i \in DOMAIN q /\ p[i] = q[i] /\ i - 1 \in Nat /\ i - 1 <= Len(p) /\ i - 1 <= Len(q)
          /\ \A j \in 1..(i - 1) : p[j] = q[j]
      BY DEF StartOf
    <2>2. ToSet(SubSeq(p, 1, i - 1)) = ToSet(SubSeq(q, 1, i - 1))
      <3> DEFINE k == i - 1
      <3>1. k \in Nat /\ k <= Len(p) /\ k <= Len(q) /\ \A j \in 1..k : p[j] = q[j]
        BY <2>1
      <3> HIDE DEF k
      <3>2. ToSet(SubSeq(p, 1, k)) = ToSet(SubSeq(q, 1, k))
        BY <3>1, SamePast
      <3> QED
        BY <3>2 DEF k
    <2> QED
      BY <2>1, <2>2 DEF Replays
  <1> QED
    BY <1>1 DEF Replays

(* Appending to the last block, and what two sequences hold together. *)
LEMMA Joined ==
  ASSUME NEW T, NEW p \in Seq(T), NEW q \in Seq(T)
  PROVE  /\ p \o q \in Seq(T) /\ p \o <<>> = p
         /\ ToSet(p \o q) = ToSet(p) \cup ToSet(q)
         /\ \A t \in T : p \o Append(q, t) = Append(p \o q, t)
PROOF
  <1> DEFINE r == p \o q
  <1>1. r \in Seq(T) /\ p \o <<>> = p
    OBVIOUS
  <1>2. ASSUME NEW t \in T PROVE p \o Append(q, t) = Append(r, t)
    OBVIOUS
  <1>3. /\ Len(r) = Len(p) + Len(q) /\ Len(p) \in Nat /\ Len(q) \in Nat
        /\ \A i \in 1..Len(p) : r[i] = p[i]
        /\ \A i \in 1..Len(q) : r[Len(p) + i] = q[i]
        /\ DOMAIN p = 1..Len(p) /\ DOMAIN q = 1..Len(q) /\ DOMAIN r = 1..Len(r)
    OBVIOUS
  <1> HIDE DEF r
  <1>4. ToSet(r) \subseteq ToSet(p) \cup ToSet(q)
    <2>1. ASSUME NEW i \in 1..Len(r) PROVE r[i] \in ToSet(p) \cup ToSet(q)
      <3>1. CASE i \in 1..Len(p)
        BY <1>3, <3>1 DEF ToSet
      <3>2. CASE i \notin 1..Len(p)
        <4>1. i - Len(p) \in 1..Len(q) /\ Len(p) + (i - Len(p)) = i
          BY <1>3, <3>2
        <4>2. r[i] = q[i - Len(p)]
          BY <1>3, <4>1
        <4> QED
          BY <1>3, <4>1, <4>2 DEF ToSet
      <3> QED
        BY <3>1, <3>2
    <2> QED
      BY <1>3, <2>1 DEF ToSet
  <1>5. ToSet(p) \subseteq ToSet(r)
    <2>1. \A i \in 1..Len(p) : i \in 1..Len(r)
      BY <1>3
    <2> QED
      BY <1>3, <2>1 DEF ToSet
  <1>6. ToSet(q) \subseteq ToSet(r)
    <2>1. \A i \in 1..Len(q) : Len(p) + i \in 1..Len(r)
      BY <1>3
    <2> QED
      BY <1>3, <2>1 DEF ToSet
  <1> QED
    BY <1>1, <1>2, <1>4, <1>5, <1>6 DEF r

-----------------------------------------------------------------------------
(* The queue of one maker. *)

QueueRecord ==
  [queue : Seq(Transaction), lookup : SUBSET Transaction,
   status : {"OK", "ORDER", "ERROR", "IGNORE"}, blamed : Transaction \cup {None}]

Sound(q, m) ==
  /\ q \in QueueRecord
  /\ \A t \in ToSet(q.queue) : t.maker = m
  /\ m # Makerless => Increasing(q.queue)
  /\ Blocked(q) <=> q.blamed # None
  /\ q.status \in {"ORDER", "ERROR"} => q.queue = <<>>

LEMMA EmptySequence ==
  <<>> \in Seq(Transaction) /\ ToSet(<<>>) = {} /\ Increasing(<<>>)
BY DEF ToSet, Increasing

LEMMA NothingInside ==
  ASSUME NEW T, NEW s \in Seq(T), ToSet(s) = {}
  PROVE  s = <<>>
PROOF
  <1> SUFFICES ASSUME s # <<>> PROVE FALSE
    OBVIOUS
  <1>1. 1 \in DOMAIN s
    OBVIOUS
  <1> QED
    BY <1>1 DEF ToSet

LEMMA EmptySound ==
  ASSUME NEW m
  PROVE  Sound(EmptyQueue, m)
BY EmptySequence DEF Sound, QueueRecord, EmptyQueue, Blocked

LEMMA SoundFacts ==
  ASSUME NEW m, NEW q, Sound(q, m)
  PROVE  /\ q.queue \in Seq(Transaction) /\ q.lookup \subseteq Transaction
         /\ ToSet(q.queue) \subseteq Transaction
BY DEF Sound, QueueRecord, ToSet

(* What is pushed out makes room for something that comes no later. *)
LEMMA PushSound ==
  ASSUME NEW t \in Transaction, NEW q, Sound(q, t.maker)
  PROVE  /\ Sound(Push(q, t), t.maker)
         /\ t.maker # Makerless =>
              \A u \in ToSet(q.queue) :
                \/ u \in ToSet(Push(q, t).queue)
                \/ (t \in ToSet(Push(q, t).queue) /\ t.nonce <= u.nonce)
PROOF
  <1> DEFINE earlier == { u \in ToSet(q.queue) : t.maker = Makerless \/ u.nonce < t.nonce }
  <1> DEFINE kept == Kept(q.queue, earlier)
  <1> DEFINE pushed == Append(kept, t)
  <1> DEFINE r == Push(q, t)
  <1>1. q.queue \in Seq(Transaction) /\ q.lookup \subseteq Transaction /\ ToSet(q.queue) \subseteq Transaction
    BY SoundFacts
  <1>2. /\ kept \in Seq(Transaction) /\ ToSet(kept) = ToSet(q.queue) \cap earlier
        /\ Increasing(q.queue) => Increasing(kept)
    <2> HIDE DEF earlier
    <2> QED
      BY <1>1, KeptFacts
  <1>3. ToSet(kept) = earlier
    BY <1>2
  <1>4. /\ r.queue = pushed /\ r.lookup \subseteq Transaction /\ r.status = "OK" /\ r.blamed = None
        /\ r = [queue |-> r.queue, lookup |-> r.lookup, status |-> r.status, blamed |-> r.blamed]
    BY <1>1 DEF Push
  <1> HIDE DEF kept, r
  <1>5. pushed \in Seq(Transaction) /\ ToSet(pushed) = earlier \cup {t}
    BY <1>2, <1>3, Appended
  <1>6. t.maker # Makerless => Increasing(pushed)
    <2> SUFFICES ASSUME t.maker # Makerless PROVE Increasing(pushed)
      OBVIOUS
    <2>1. Increasing(kept)
      BY <1>2 DEF Sound
    <2>2. \A u \in ToSet(kept) : u.nonce < t.nonce
      BY <1>3
    <2> QED
      BY <1>2, <2>1, <2>2, AppendIncreasing
  <1>7. \A u \in ToSet(pushed) : u.maker = t.maker
    BY <1>5 DEF Sound
  <1> HIDE DEF pushed
  <1>8. Sound(r, t.maker)
    <2>1. r \in QueueRecord
      BY <1>4, <1>5 DEF QueueRecord
    <2>2. ~Blocked(r) /\ r.blamed = None /\ r.status \notin {"ORDER", "ERROR"}
      BY <1>4 DEF Blocked
    <2> QED
      BY <1>4, <1>6, <1>7, <2>1, <2>2 DEF Sound
  <1>9. ASSUME t.maker # Makerless, NEW u \in ToSet(q.queue)
        PROVE  u \in ToSet(r.queue) \/ (t \in ToSet(r.queue) /\ t.nonce <= u.nonce)
    <2>1. u.nonce \in Nat /\ t.nonce \in Nat
      BY <1>1, Nonces
    <2>2. CASE u.nonce < t.nonce
      BY <1>4, <1>5, <1>9, <2>2
    <2>3. CASE ~(u.nonce < t.nonce)
      BY <1>4, <1>5, <2>1, <2>3
    <2> QED
      BY <2>2, <2>3
  <1> QED
    BY <1>8, <1>9 DEF r

LEMMA RejectSound ==
  ASSUME NEW m, NEW q, Sound(q, m), NEW t \in Transaction, NEW status \in {"ORDER", "ERROR"}
  PROVE  Sound(Reject(q, status, t), m) /\ Reject(q, status, t).status = status
PROOF
  <1> DEFINE r == Reject(q, status, t)
  <1>1. r = [queue |-> <<>>, lookup |-> q.lookup, status |-> status, blamed |-> t]
    BY DEF Reject
  <1>2. r \in QueueRecord
    BY <1>1, SoundFacts, EmptySequence DEF QueueRecord
  <1>3. Blocked(r) /\ r.blamed # None /\ r.queue = <<>> /\ r.status = status
    BY <1>1, Nonces DEF Blocked
  <1> HIDE DEF r
  <1>4. Sound(r, m)
    BY <1>2, <1>3, EmptySequence DEF Sound
  <1> QED
    BY <1>3, <1>4 DEF r

LEMMA IgnoreSound ==
  ASSUME NEW m, NEW q, Sound(q, m), NEW t \in Transaction
  PROVE  Sound(Ignore(q, t), m) /\ Ignore(q, t).queue = q.queue
PROOF
  <1> DEFINE r == Ignore(q, t)
  <1>1. r = [queue |-> q.queue, lookup |-> q.lookup, status |-> "IGNORE", blamed |-> t]
    BY DEF Ignore
  <1>2. r \in QueueRecord
    BY <1>1, SoundFacts DEF QueueRecord
  <1>3. Blocked(r) /\ r.blamed # None /\ r.queue = q.queue /\ r.status \notin {"ORDER", "ERROR"}
    BY <1>1, Nonces DEF Blocked
  <1> HIDE DEF r
  <1>4. Sound(r, m)
    BY <1>2, <1>3 DEF Sound
  <1> QED
    BY <1>3, <1>4 DEF r

(* A prune drops nothing but what is spent. *)
LEMMA PruneSound ==
  ASSUME NEW m, NEW q, Sound(q, m), NEW spent
  PROVE  /\ Sound(Prune(q, spent), m)
         /\ \A t \in ToSet(q.queue) : IsSpent(spent, t) \/ t \in ToSet(Prune(q, spent).queue)
PROOF
  <1> DEFINE keep == { t \in ToSet(q.queue) : ~IsSpent(spent, t) }
  <1> DEFINE kept == Kept(q.queue, keep)
  <1> DEFINE r == Prune(q, spent)
  <1>1. /\ q.queue \in Seq(Transaction) /\ q.lookup \subseteq Transaction
        /\ ToSet(q.queue) \subseteq Transaction
        /\ q.status \in {"OK", "ORDER", "ERROR", "IGNORE"} /\ q.blamed \in Transaction \cup {None}
    BY SoundFacts DEF Sound, QueueRecord
  <1>2. /\ kept \in Seq(Transaction) /\ ToSet(kept) = ToSet(q.queue) \cap keep
        /\ Increasing(q.queue) => Increasing(kept)
    <2> HIDE DEF keep
    <2> QED
      BY <1>1, KeptFacts
  <1>3. ToSet(kept) = keep /\ keep \subseteq ToSet(q.queue)
    BY <1>2
  <1> DEFINE rest == [queue |-> kept, lookup |-> q.lookup \ (ToSet(q.queue) \ ToSet(kept)),
                      status |-> q.status, blamed |-> q.blamed]
  <1>4. r = IF kept = <<>> /\ ~Blocked(q) THEN EmptyQueue ELSE rest
    BY DEF Prune
  <1> HIDE DEF kept, r, keep
  <1>5. r.queue = kept
    BY <1>4 DEF EmptyQueue
  <1>6. Sound(rest, m)
    <2>1. rest \in QueueRecord
      BY <1>1, <1>2 DEF QueueRecord
    <2>2. /\ rest.queue = kept /\ rest.status = q.status /\ rest.blamed = q.blamed
          /\ Blocked(rest) <=> Blocked(q)
      BY DEF Blocked
    <2>3. /\ \A t \in ToSet(kept) : t.maker = m
          /\ m # Makerless => Increasing(kept)
          /\ Blocked(q) <=> q.blamed # None
      BY <1>2, <1>3 DEF Sound
    <2>4. q.status \in {"ORDER", "ERROR"} => kept = <<>>
      <3> SUFFICES ASSUME q.status \in {"ORDER", "ERROR"} PROVE kept = <<>>
        OBVIOUS
      <3>1. ToSet(q.queue) = {}
        BY EmptySequence DEF Sound
      <3>2. ToSet(kept) = {} /\ kept \in Seq(Transaction)
        BY <1>2, <3>1
      <3> QED
        BY <3>2, NothingInside
    <2> HIDE DEF rest
    <2> QED
      BY <2>1, <2>2, <2>3, <2>4 DEF Sound
  <1>7. Sound(r, m)
    <2> HIDE DEF rest
    <2> QED
      BY <1>4, <1>6, EmptySound
  <1>8. \A t \in ToSet(q.queue) : IsSpent(spent, t) \/ t \in ToSet(r.queue)
    BY <1>3, <1>5 DEF keep
  <1> QED
    BY <1>7, <1>8 DEF r

-----------------------------------------------------------------------------
(* fillBlock at work. *)

(* A filling only ever empties a queue by rejecting it. *)
LeftAlone(p, q) == q.queue = p.queue \/ q.status \in {"ORDER", "ERROR"}

(***************************************************************************)
(* What the fillings that start from queues qs, on a ledger with the       *)
(* transactions all, have in common.                                       *)
(***************************************************************************)
Fillings(qs, all) ==
  { s \in [queues : [Maker -> QueueRecord], block : Seq(Transaction), more : BOOLEAN] :
      /\ \A m \in Maker : Sound(s.queues[m], m) /\ LeftAlone(qs[m], s.queues[m])
      /\ Replays(all \o s.block)
      /\ Weight(s.block) <= MaxBlockWeight }

LEMMA FillingFacts ==
  ASSUME NEW qs, NEW all, NEW s \in Fillings(qs, all)
  PROVE  /\ s.queues \in [Maker -> QueueRecord] /\ s.block \in Seq(Transaction) /\ s.more \in BOOLEAN
         /\ \A m \in Maker : Sound(s.queues[m], m) /\ LeftAlone(qs[m], s.queues[m])
         /\ Replays(all \o s.block) /\ Weight(s.block) <= MaxBlockWeight
BY DEF Fillings

LEMMA FillingMade ==
  ASSUME NEW qs, NEW all, NEW q \in [Maker -> QueueRecord], NEW block \in Seq(Transaction),
         NEW more \in BOOLEAN,
         \A m \in Maker : Sound(q[m], m) /\ LeftAlone(qs[m], q[m]),
         Replays(all \o block), Weight(block) <= MaxBlockWeight
  PROVE  Filling(q, block, more) \in Fillings(qs, all)
PROOF
  <1> DEFINE s == Filling(q, block, more)
  <1>1. /\ s \in [queues : [Maker -> QueueRecord], block : Seq(Transaction), more : BOOLEAN]
        /\ s.queues = q /\ s.block = block
    BY DEF Filling
  <1> HIDE DEF s
  <1>2. s \in Fillings(qs, all)
    BY <1>1 DEF Fillings
  <1> QED
    BY <1>2 DEF s

(* One queue of a filling is replaced. *)
LEMMA QueueReplaced ==
  ASSUME NEW qs, NEW all, NEW s \in Fillings(qs, all), NEW m \in Maker,
         NEW q, Sound(q, m), LeftAlone(qs[m], q)
  PROVE  WithQueue(s, m, q) \in Fillings(qs, all)
PROOF
  <1> DEFINE r == [n \in Maker |-> IF n = m THEN q ELSE s.queues[n]]
  <1>1. WithQueue(s, m, q) = Filling(r, s.block, s.more)
    BY DEF WithQueue
  <1>2. q \in QueueRecord
    BY DEF Sound
  <1>3. /\ r \in [Maker -> QueueRecord]
        /\ \A n \in Maker : Sound(r[n], n) /\ LeftAlone(qs[n], r[n])
    BY <1>2, FillingFacts
  <1> HIDE DEF r
  <1> QED
    BY <1>1, <1>3, FillingFacts, FillingMade

LEMMA Rejected ==
  ASSUME NEW qs, NEW all, NEW s \in Fillings(qs, all), NEW m \in Maker, NEW t \in Transaction,
         NEW status \in {"ORDER", "ERROR"}
  PROVE  WithQueue(s, m, Reject(s.queues[m], status, t)) \in Fillings(qs, all)
PROOF
  <1> DEFINE q == Reject(s.queues[m], status, t)
  <1>1. Sound(q, m) /\ q.status = status
    BY FillingFacts, RejectSound
  <1> HIDE DEF q
  <1>2. LeftAlone(qs[m], q)
    BY <1>1 DEF LeftAlone
  <1>3. WithQueue(s, m, q) \in Fillings(qs, all)
    BY <1>1, <1>2, QueueReplaced
  <1> QED
    BY <1>3 DEF q

LEMMA Ignored ==
  ASSUME NEW qs, NEW all, NEW s \in Fillings(qs, all), NEW m \in Maker, NEW t \in Transaction,
         ~Blocked(s.queues[m])
  PROVE  WithQueue(s, m, Ignore(s.queues[m], t)) \in Fillings(qs, all)
PROOF
  <1> DEFINE q == Ignore(s.queues[m], t)
  <1>1. Sound(q, m) /\ q.queue = s.queues[m].queue
    BY FillingFacts, IgnoreSound
  <1> HIDE DEF q
  <1>2. LeftAlone(qs[m], q)
    BY <1>1, FillingFacts DEF LeftAlone, Blocked
  <1>3. WithQueue(s, m, q) \in Fillings(qs, all)
    BY <1>1, <1>2, QueueReplaced
  <1> QED
    BY <1>3 DEF q

(* What fits and is light enough joins the block. *)
LEMMA AddedFits ==
  ASSUME NEW qs, NEW all \in Seq(Transaction), NEW s \in Fillings(qs, all), NEW m \in Maker,
         NEW t \in Transaction, Fits(t, ToSet(all) \cup ToSet(s.block)),
         Weight(s.block) + t.weight <= MaxBlockWeight
  PROVE  Added(s, m, t, ToSet(all)) \in Fillings(qs, all)
PROOF
  <1> DEFINE block == Append(s.block, t)
  <1>1. PICK more \in BOOLEAN : Added(s, m, t, ToSet(all)) = Filling(s.queues, block, more)
    <2> DEFINE next == Found(m, s.queues[m], NextKey(m, ToSet(all), block)) # {}
    <2>1. s.more \/ next \in BOOLEAN
      BY FillingFacts
    <2>2. Added(s, m, t, ToSet(all)) = Filling(s.queues, block, s.more \/ next)
      BY DEF Added
    <2> HIDE DEF next
    <2> QED
      BY <2>1, <2>2
  <1>2. s.block \in Seq(Transaction) /\ Replays(all \o s.block)
    BY FillingFacts
  <1>3. block \in Seq(Transaction) /\ Weight(block) <= MaxBlockWeight
    BY <1>2, WeightFacts
  <1>4. Replays(all \o block)
    <2>1. /\ all \o s.block \in Seq(Transaction) /\ all \o block = Append(all \o s.block, t)
          /\ ToSet(all \o s.block) = ToSet(all) \cup ToSet(s.block)
      BY <1>2, Joined
    <2> HIDE DEF block
    <2> QED
      BY <1>2, <2>1, ReplaysOn
  <1> HIDE DEF block
  <1> QED
    BY <1>1, <1>3, <1>4, FillingFacts, FillingMade

LEMMA FoundFacts ==
  ASSUME NEW m \in Maker, NEW q, Sound(q, m), NEW all \in Seq(Transaction),
         NEW block \in Seq(Transaction)
  PROVE  Found(m, q, NextKey(m, ToSet(all), block)) \subseteq ToSet(q.queue)
PROOF
  <1> DEFINE key == NextKey(m, ToSet(all), block)
  <1>1. CASE m = Makerless
    <2> DEFINE own == { i \in DOMAIN block : block[i].maker = m }
    <2>1. key = Cardinality(own)
      BY <1>1 DEF NextKey
    <2>2. DOMAIN block = 1..Len(block) /\ Len(block) \in Nat
      OBVIOUS
    <2>3. IsFiniteSet(own)
      <3>1. own \subseteq 1..Len(block) /\ IsFiniteSet(1..Len(block))
        BY <2>2, FS_Interval
      <3> HIDE DEF own
      <3> QED
        BY <3>1, FS_Subset
    <2> HIDE DEF own
    <2>4. key \in Nat
      BY <2>1, <2>3, FS_CardinalityType
    <2> HIDE DEF key
    <2>5. q.queue \in Seq(Transaction)
      BY SoundFacts
    <2>6. key < Len(q.queue) => key + 1 \in DOMAIN q.queue
      BY <2>4, <2>5
    <2>7. Found(m, q, key) \subseteq ToSet(q.queue)
      BY <1>1, <2>6 DEF Found, ToSet
    <2> QED
      BY <2>7 DEF key
  <1>2. CASE m # Makerless
    BY <1>2 DEF Found
  <1> QED
    BY <1>1, <1>2

LEMMA TakeFills ==
  ASSUME NEW qs, NEW all \in Seq(Transaction), NEW s \in Fillings(qs, all), NEW m \in Maker,
         NEW t \in Transaction, ~Blocked(s.queues[m])
  PROVE  Take(s, m, t, ToSet(all)) \subseteq Fillings(qs, all)
PROOF
  <1> DEFINE q == s.queues[m]
  <1> DEFINE ignored == WithQueue(s, m, Ignore(q, t))
  <1> DEFINE rejected == WithQueue(s, m, Reject(q, "ERROR", t))
  <1> DEFINE joined == { x \in {Added(s, m, t, ToSet(all))} : Fits(t, ToSet(all) \cup ToSet(s.block)) }
  <1>1. t.weight \in Nat /\ t.generous \in BOOLEAN /\ Weight(s.block) \in Nat /\ MaxBlockWeight \in Nat
    BY FillingFacts, WeightFacts, QueueAssumption
  <1>2. ignored \in Fillings(qs, all)
    BY Ignored
  <1>3. rejected \in Fillings(qs, all)
    BY Rejected
  <1>4. Weight(s.block) + t.weight <= MaxBlockWeight => joined \subseteq Fillings(qs, all)
    BY AddedFits
  <1>5. Take(s, m, t, ToSet(all)) =
          CASE ~t.generous -> {ignored}
            [] t.generous /\ t.weight > MaxBlockWeight -> {rejected}
            [] t.generous /\ t.weight <= MaxBlockWeight /\ Weight(s.block) + t.weight > MaxBlockWeight -> {s}
            [] OTHER -> {rejected} \cup joined
    BY DEF Take
  <1> HIDE DEF ignored, rejected, joined
  <1>6. CASE ~t.generous
    BY <1>1, <1>2, <1>5, <1>6
  <1>7. CASE t.generous /\ t.weight > MaxBlockWeight
    BY <1>3, <1>5, <1>7
  <1>8. CASE t.generous /\ t.weight <= MaxBlockWeight /\ Weight(s.block) + t.weight > MaxBlockWeight
    <2>1. ~(t.weight > MaxBlockWeight)
      BY <1>1, <1>8
    <2> QED
      BY <1>5, <1>8, <2>1
  <1>9. CASE t.generous /\ t.weight <= MaxBlockWeight /\ ~(Weight(s.block) + t.weight > MaxBlockWeight)
    <2>1. ~(t.weight > MaxBlockWeight) /\ Weight(s.block) + t.weight <= MaxBlockWeight
      BY <1>1, <1>9
    <2>2. Take(s, m, t, ToSet(all)) = {rejected} \cup joined
      BY <1>5, <1>9, <2>1
    <2> QED
      BY <1>3, <1>4, <2>1, <2>2
  <1>10. t.weight > MaxBlockWeight \/ t.weight <= MaxBlockWeight
    BY <1>1
  <1> QED
    BY <1>6, <1>7, <1>8, <1>9, <1>10

LEMMA TurnFills ==
  ASSUME NEW qs, NEW all \in Seq(Transaction), NEW s \in Fillings(qs, all), NEW m \in Maker
  PROVE  Turn(s, m, ToSet(all)) \subseteq Fillings(qs, all)
PROOF
  <1> DEFINE q == s.queues[m]
  <1> DEFINE key == NextKey(m, ToSet(all), s.block)
  <1> DEFINE early == IF m = Makerless THEN <<>> ELSE TooEarly(q, key)
  <1> DEFINE found == Found(m, q, key)
  <1> DEFINE rejected == WithQueue(s, m, Reject(q, "ORDER", Head(early)))
  <1> DEFINE taken == UNION { Take(s, m, t, ToSet(all)) : t \in found }
  <1>1. Sound(q, m) /\ s.block \in Seq(Transaction) /\ ToSet(q.queue) \subseteq Transaction
    BY FillingFacts, SoundFacts
  <1>2. Turn(s, m, ToSet(all)) =
          CASE Blocked(q) \/ (early = <<>> /\ found = {}) -> {s}
            [] ~Blocked(q) /\ early # <<>> -> {rejected}
            [] OTHER -> taken
    BY DEF Turn
  <1>3. early # <<>> => rejected \in Fillings(qs, all)
    <2>1. early \in Seq(Transaction)
      <3>1. q.queue \in Seq(Transaction)
        BY <1>1, SoundFacts
      <3>2. TooEarly(q, key) \in Seq(Transaction)
        BY <3>1, KeptFacts DEF TooEarly
      <3> HIDE DEF key, q
      <3> QED
        BY <3>2
    <2> HIDE DEF early
    <2>2. early # <<>> => Head(early) \in Transaction
      BY <2>1
    <2> QED
      BY <2>2, Rejected
  <1>4. found \subseteq Transaction
    BY <1>1, FoundFacts
  <1> HIDE DEF early, found
  <1>5. ~Blocked(q) => taken \subseteq Fillings(qs, all)
    BY <1>4, TakeFills
  <1> HIDE DEF rejected, taken, q
  <1> QED
    BY <1>2, <1>3, <1>5

-----------------------------------------------------------------------------
(* The passes of fillBlock. *)

LEMMA PassFills ==
  ASSUME NEW qs, NEW all \in Seq(Transaction), NEW s \in Fillings(qs, all)
  PROVE  Pass(s, ToSet(all)) \subseteq Fillings(qs, all)
PROOF
  <1> DEFINE F == Fillings(qs, all)
  <1> DEFINE n == Len(Makers)
  <1> DEFINE start == {Filling(s.queues, s.block, FALSE)}
  <1> DEFINE step == [p \in (SUBSET F) \X (1..n) |-> UNION { Turn(x, Makers[p[2]], ToSet(all)) : x \in p[1] }]
  <1>1. n \in Nat /\ \A i \in 1..n : Makers[i] \in Maker
    BY QueueAssumption DEF Maker, ToSet
  <1>2. start \in SUBSET F
    <2>1. /\ s.queues \in [Maker -> QueueRecord] /\ s.block \in Seq(Transaction) /\ FALSE \in BOOLEAN
          /\ \A m \in Maker : Sound(s.queues[m], m) /\ LeftAlone(qs[m], s.queues[m])
          /\ Replays(all \o s.block) /\ Weight(s.block) <= MaxBlockWeight
      BY FillingFacts
    <2>2. Filling(s.queues, s.block, FALSE) \in F
      BY <2>1, FillingMade
    <2> QED
      BY <2>2
  <1>3. \A x \in F, i \in 1..n : Turn(x, Makers[i], ToSet(all)) \subseteq F
    BY <1>1, TurnFills
  <1> HIDE DEF F, n, start
  <1>4. step \in [(SUBSET F) \X (1..n) -> SUBSET F]
    BY <1>3
  <1>5. \A S \in SUBSET F, i \in 1..n :
          step[<<S, i>>] = UNION { Turn(x, Makers[i], ToSet(all)) : x \in S }
    OBVIOUS
  <1> HIDE DEF step
  <1>6. PICK g \in [0..n -> SUBSET F] : Iterates(g, start, step, n)
    BY <1>1, <1>2, <1>4, IterationExists
  <1> DEFINE Follows(f) ==
        f = [i \in 0..n |-> IF i = 0 THEN start
                            ELSE UNION { Turn(x, Makers[i], ToSet(all)) : x \in f[i - 1] }]
  <1>7. Follows(g)
    <2>1. g = [i \in 0..n |-> IF i = 0 THEN start ELSE step[<<g[i - 1], i>>]]
      BY <1>6 DEF Iterates
    <2>2. ASSUME NEW i \in 0..n
          PROVE  g[i] = IF i = 0 THEN start
                        ELSE UNION { Turn(x, Makers[i], ToSet(all)) : x \in g[i - 1] }
      <3>1. CASE i = 0
        BY <2>1, <3>1
      <3>2. CASE i # 0
        <4>1. i \in 1..n /\ i - 1 \in 0..n
          BY <1>1, <3>2
        <4>2. g[i - 1] \in SUBSET F /\ g[i] = step[<<g[i - 1], i>>]
          BY <1>6, <2>1, <3>2, <4>1
        <4> QED
          BY <1>5, <3>2, <4>1, <4>2
      <3> QED
        BY <3>1, <3>2
    <2> QED
      BY <2>1, <2>2
  <1> DEFINE f == CHOOSE f : Follows(f)
  <1>8. Follows(f)
    <2> HIDE DEF Follows
    <2> QED
      BY <1>7
  <1>9. Pass(s, ToSet(all)) = IF s.more THEN f[n] ELSE {s}
    BY DEF Pass, n, start
  <1> HIDE DEF f
  <1> DEFINE Good == { i \in 0..n : f[i] \subseteq F }
  <1>10. 0 \in Good
    BY <1>1, <1>2, <1>8
  <1>11. ASSUME NEW i \in 1..n, i - 1 \in Good PROVE i \in Good
    <2>1. i \in 0..n /\ i # 0 /\ f[i - 1] \subseteq F
      BY <1>1, <1>11
    <2>2. f[i] = UNION { Turn(x, Makers[i], ToSet(all)) : x \in f[i - 1] }
      BY <1>8, <2>1
    <2> QED
      BY <1>3, <2>1, <2>2
  <1>12. n \in Good
    <2>1. n \in 0..n
      BY <1>1
    <2> HIDE DEF Good
    <2> QED
      BY <1>1, <1>10, <1>11, <2>1, UpTo
  <1>13. f[n] \subseteq F /\ s \in F
    BY <1>12 DEF F
  <1> QED
    BY <1>9, <1>13 DEF F

(* Whatever fillBlock makes of sound queues is a filling that replays. *)
LEMMA FillFromFills ==
  ASSUME NEW qs \in [Maker -> QueueRecord], \A m \in Maker : Sound(qs[m], m),
         NEW all \in Seq(Transaction), Replays(all)
  PROVE  FillFrom(qs, ToSet(all)) \subseteq Fillings(qs, all)
PROOF
  <1> DEFINE F == Fillings(qs, all)
  <1> DEFINE n == Len(qs[Makerless].queue) + 2
  <1> DEFINE start == {Filling(qs, <<>>, TRUE)}
  <1> DEFINE step == [p \in (SUBSET F) \X (1..n) |-> UNION { Pass(x, ToSet(all)) : x \in p[1] }]
  <1>1. n \in Nat
    <2>1. Makerless \in Maker
      BY QueueAssumption DEF Maker
    <2>2. qs[Makerless].queue \in Seq(Transaction)
      BY <2>1, SoundFacts
    <2> QED
      BY <2>2
  <1>2. start \in SUBSET F
    <2>1. /\ <<>> \in Seq(Transaction) /\ TRUE \in BOOLEAN
          /\ \A m \in Maker : Sound(qs[m], m) /\ LeftAlone(qs[m], qs[m])
          /\ Replays(all \o <<>>) /\ Weight(<<>>) <= MaxBlockWeight
      BY EmptySequence, WeightFacts, Joined, QueueAssumption DEF LeftAlone
    <2>2. Filling(qs, <<>>, TRUE) \in F
      BY <2>1, FillingMade
    <2> QED
      BY <2>2
  <1>3. \A x \in F : Pass(x, ToSet(all)) \subseteq F
    BY PassFills
  <1> HIDE DEF F, n, start
  <1>4. step \in [(SUBSET F) \X (1..n) -> SUBSET F]
    BY <1>3
  <1>5. \A S \in SUBSET F, i \in 1..n :
          step[<<S, i>>] = UNION { Pass(x, ToSet(all)) : x \in S }
    OBVIOUS
  <1> HIDE DEF step
  <1>6. PICK g \in [0..n -> SUBSET F] : Iterates(g, start, step, n)
    BY <1>1, <1>2, <1>4, IterationExists
  <1> DEFINE Follows(f) ==
        f = [i \in 0..n |-> IF i = 0 THEN start
                            ELSE UNION { Pass(x, ToSet(all)) : x \in f[i - 1] }]
  <1>7. Follows(g)
    <2>1. g = [i \in 0..n |-> IF i = 0 THEN start ELSE step[<<g[i - 1], i>>]]
      BY <1>6 DEF Iterates
    <2>2. ASSUME NEW i \in 0..n
          PROVE  g[i] = IF i = 0 THEN start
                        ELSE UNION { Pass(x, ToSet(all)) : x \in g[i - 1] }
      <3>1. CASE i = 0
        BY <2>1, <3>1
      <3>2. CASE i # 0
        <4>1. i \in 1..n /\ i - 1 \in 0..n
          BY <1>1, <3>2
        <4>2. g[i - 1] \in SUBSET F /\ g[i] = step[<<g[i - 1], i>>]
          BY <1>6, <2>1, <3>2, <4>1
        <4> QED
          BY <1>5, <3>2, <4>1, <4>2
      <3> QED
        BY <3>1, <3>2
    <2> QED
      BY <2>1, <2>2
  <1> DEFINE f == CHOOSE f : Follows(f)
  <1>8. Follows(f)
    <2> HIDE DEF Follows
    <2> QED
      BY <1>7
  <1>9. FillFrom(qs, ToSet(all)) = f[n]
    BY DEF FillFrom, n, start
  <1> HIDE DEF f
  <1> DEFINE Good == { i \in 0..n : f[i] \subseteq F }
  <1>10. 0 \in Good
    BY <1>1, <1>2, <1>8
  <1>11. ASSUME NEW i \in 1..n, i - 1 \in Good PROVE i \in Good
    <2>1. i \in 0..n /\ i # 0 /\ f[i - 1] \subseteq F
      BY <1>1, <1>11
    <2>2. f[i] = UNION { Pass(x, ToSet(all)) : x \in f[i - 1] }
      BY <1>8, <2>1
    <2> QED
      BY <1>3, <2>1, <2>2
  <1>12. n \in Good
    <2>1. n \in 0..n
      BY <1>1
    <2> HIDE DEF Good
    <2> QED
      BY <1>1, <1>10, <1>11, <2>1, UpTo
  <1>13. f[n] \subseteq F
    BY <1>12 DEF F
  <1> QED
    BY <1>9, <1>13 DEF F

-----------------------------------------------------------------------------
(* The ledger. *)

LedgerOK(blocks) ==
  /\ blocks \in Seq(Seq(Transaction))
  /\ Replays(FlattenSeq(blocks))
  /\ \A i \in DOMAIN blocks : Weight(blocks[i]) <= MaxBlockWeight

LEMMA EmptyLedger == LedgerOK(<<>>)
PROOF
  <1>1. FlattenSeq(<<>>) = <<>> /\ <<>> \in Seq(Seq(Transaction))
    BY DEF FlattenSeq
  <1> QED
    BY <1>1 DEF LedgerOK, Replays

LEMMA LedgerGrows ==
  ASSUME NEW blocks, LedgerOK(blocks), NEW block \in Seq(Transaction),
         Replays(FlattenSeq(blocks) \o block), Weight(block) <= MaxBlockWeight
  PROVE  LedgerOK(Append(blocks, block)) /\ LedgerOK(WithBlock(blocks, block))
PROOF
  <1> DEFINE longer == Append(blocks, block)
  <1>1. blocks \in Seq(Seq(Transaction)) /\ \A i \in DOMAIN blocks : Weight(blocks[i]) <= MaxBlockWeight
    BY DEF LedgerOK
  <1>2. FlattenSeq(longer) = FlattenSeq(blocks) \o block
    BY <1>1, FlattenAppended
  <1>3. /\ longer \in Seq(Seq(Transaction))
        /\ \A i \in DOMAIN longer : longer[i] = block \/ (i \in DOMAIN blocks /\ longer[i] = blocks[i])
    BY <1>1
  <1> HIDE DEF longer
  <1>4. LedgerOK(longer)
    BY <1>1, <1>2, <1>3 DEF LedgerOK
  <1> QED
    BY <1>4 DEF longer, WithBlock

LEMMA LedgerShrinks ==
  ASSUME NEW blocks, LedgerOK(blocks), NEW h \in 0..Len(blocks)
  PROVE  LedgerOK(SubSeq(blocks, 1, h))
PROOF
  <1> DEFINE start == SubSeq(blocks, 1, h)
  <1>1. blocks \in Seq(Seq(Transaction)) /\ \A i \in DOMAIN blocks : Weight(blocks[i]) <= MaxBlockWeight
    BY DEF LedgerOK
  <1>2. start \in Seq(Seq(Transaction)) /\ \A i \in DOMAIN start : i \in DOMAIN blocks /\ start[i] = blocks[i]
    BY <1>1
  <1>3. StartOf(FlattenSeq(start), FlattenSeq(blocks))
    BY <1>1, FlattenCut
  <1> HIDE DEF start
  <1>4. FlattenSeq(start) \in Seq(Transaction) /\ FlattenSeq(blocks) \in Seq(Transaction)
    <2>1. <<>> \in Seq(Transaction)
      OBVIOUS
    <2> QED
      BY <1>1, <1>2, <2>1, FlattenAppended
  <1>5. Replays(FlattenSeq(start))
    BY <1>3, <1>4, StartReplays DEF LedgerOK
  <1>6. LedgerOK(start)
    BY <1>1, <1>2, <1>5 DEF LedgerOK
  <1> QED
    BY <1>6 DEF start

-----------------------------------------------------------------------------
(* Every step keeps the queues sound and the ledger replayable. *)

IInv ==
  /\ queues \in [Maker -> QueueRecord] /\ \A m \in Maker : Sound(queues[m], m)
  /\ LedgerOK(ledger)
  /\ submits \in 0..MaxSubmits /\ reverts \in 0..MaxReverts

LEMMA IInvImplies ==
  IInv => TypeOK /\ BlocksReplay
BY DEF IInv, TypeOK, BlocksReplay, LedgerOK, Replays, Sound, QueueRecord

LEMMA InitInv ==
  Init => IInv
PROOF
  <1> SUFFICES ASSUME Init PROVE IInv
    OBVIOUS
  <1>1. \A m \in Maker : Sound(EmptyQueue, m) /\ EmptyQueue \in QueueRecord
    BY EmptySound DEF Sound
  <1>2. /\ queues \in [Maker -> QueueRecord] /\ \A m \in Maker : Sound(queues[m], m)
    BY <1>1 DEF Init
  <1> QED
    BY <1>2, EmptyLedger, QueueAssumption DEF Init, IInv

LEMMA SubmitInv ==
  ASSUME IInv, NEW t \in Transaction, Submit(t)
  PROVE  IInv'
PROOF
  <1> DEFINE q == Push(queues[t.maker], t)
  <1>1. t.maker \in Maker /\ queues' = [queues EXCEPT ![t.maker] = q]
    BY Nonces DEF Submit
  <1>2. Sound(q, t.maker)
    BY <1>1, PushSound DEF IInv
  <1> HIDE DEF q
  <1>3. q \in QueueRecord
    BY <1>2 DEF Sound
  <1>4. queues' \in [Maker -> QueueRecord] /\ \A m \in Maker : Sound(queues'[m], m)
    BY <1>1, <1>2, <1>3 DEF IInv
  <1>5. submits' \in 0..MaxSubmits /\ ledger' = ledger /\ reverts' = reverts
    BY QueueAssumption DEF Submit, IInv
  <1> QED
    BY <1>4, <1>5 DEF IInv

(* What a node mines, it mined by a filling of its pruned queues. *)
LEMMA MineFills ==
  ASSUME IInv, Mine
  PROVE  \E qs \in [Maker -> QueueRecord] : \E filled \in Fillings(qs, FlattenSeq(ledger)) :
           /\ \A m \in Maker : qs[m] = Prune(queues[m], Contents(ledger))
           /\ queues' = filled.queues /\ ledger' = WithBlock(ledger, filled.block)
PROOF
  <1> DEFINE all == FlattenSeq(ledger)
  <1> DEFINE qs == [m \in Maker |-> Prune(queues[m], Contents(ledger))]
  <1>1. all \in Seq(Transaction) /\ Replays(all) /\ Contents(ledger) = ToSet(all)
    <2>1. <<>> \in Seq(Transaction) /\ ledger \in Seq(Seq(Transaction))
      BY DEF IInv, LedgerOK
    <2>2. all \in Seq(Transaction)
      BY <2>1, FlattenAppended
    <2> QED
      BY <2>2 DEF IInv, LedgerOK, Contents
  <1>2. ASSUME NEW m \in Maker PROVE Sound(Prune(queues[m], Contents(ledger)), m)
    BY PruneSound DEF IInv
  <1>3. qs \in [Maker -> QueueRecord] /\ \A m \in Maker : Sound(qs[m], m)
    BY <1>2 DEF Sound
  <1>4. \A m \in Maker : qs[m] = Prune(queues[m], Contents(ledger))
    OBVIOUS
  <1>5. PICK filled \in FillFrom(qs, Contents(ledger)) :
           queues' = filled.queues /\ ledger' = WithBlock(ledger, filled.block)
    BY DEF Mine, FillBlock
  <1> HIDE DEF qs, all
  <1>6. FillFrom(qs, ToSet(all)) \subseteq Fillings(qs, all)
    BY <1>1, <1>3, FillFromFills
  <1>7. filled \in Fillings(qs, all)
    BY <1>1, <1>5, <1>6
  <1> QED
    BY <1>3, <1>4, <1>5, <1>7 DEF all

LEMMA MineInv ==
  ASSUME IInv, Mine
  PROVE  IInv'
PROOF
  <1>0. PICK qs \in [Maker -> QueueRecord] : \E filled \in Fillings(qs, FlattenSeq(ledger)) :
           queues' = filled.queues /\ ledger' = WithBlock(ledger, filled.block)
    BY MineFills
  <1>1. PICK filled \in Fillings(qs, FlattenSeq(ledger)) :
           queues' = filled.queues /\ ledger' = WithBlock(ledger, filled.block)
    BY <1>0
  <1>2. /\ filled.queues \in [Maker -> QueueRecord] /\ filled.block \in Seq(Transaction)
        /\ \A m \in Maker : Sound(filled.queues[m], m)
        /\ Replays(FlattenSeq(ledger) \o filled.block) /\ Weight(filled.block) <= MaxBlockWeight
    BY FillingFacts
  <1>3. LedgerOK(WithBlock(ledger, filled.block))
    BY <1>2, LedgerGrows DEF IInv
  <1>4. submits' = submits /\ reverts' = reverts
    BY DEF Mine
  <1> QED
    BY <1>1, <1>2, <1>3, <1>4 DEF IInv

LEMMA ForeignInv ==
  ASSUME IInv, NEW t \in Transaction, Foreign(t)
  PROVE  IInv'
PROOF
  <1> DEFINE block == <<t>>
  <1> DEFINE all == FlattenSeq(ledger)
  <1>1. block \in Seq(Transaction) /\ block = Append(<<>>, t) /\ <<>> \in Seq(Transaction)
    OBVIOUS
  <1>2. all \in Seq(Transaction) /\ Replays(all)
    <2>1. ledger \in Seq(Seq(Transaction))
      BY DEF IInv, LedgerOK
    <2> QED
      BY <1>1, <2>1, FlattenAppended DEF IInv, LedgerOK
  <1>3. Fits(t, ToSet(all)) /\ Weight(block) <= MaxBlockWeight
    BY DEF Foreign, Verifies, Contents
  <1> HIDE DEF all, block
  <1>4. all \o block = Append(all, t)
    BY <1>1, <1>2, Joined
  <1>5. Replays(all \o block)
    BY <1>2, <1>3, <1>4, ReplaysOn
  <1>6. LedgerOK(Append(ledger, block))
    BY <1>1, <1>3, <1>5, LedgerGrows DEF IInv, all
  <1>7. ledger' = Append(ledger, block) /\ queues' = queues /\ submits' = submits /\ reverts' = reverts
    BY DEF Foreign, block
  <1> QED
    BY <1>6, <1>7 DEF IInv

LEMMA RevertInv ==
  ASSUME IInv, NEW h \in 0..(Len(ledger) - 1), Revert(h)
  PROVE  IInv'
PROOF
  <1>1. h \in 0..Len(ledger)
    BY DEF IInv, LedgerOK
  <1>2. LedgerOK(SubSeq(ledger, 1, h))
    BY <1>1, LedgerShrinks DEF IInv
  <1>3. reverts' \in 0..MaxReverts
    BY QueueAssumption DEF Revert, IInv
  <1> QED
    BY <1>2, <1>3 DEF Revert, IInv

LEMMA ResetInv ==
  ASSUME IInv, Reset
  PROVE  IInv'
PROOF
  <1>1. \A m \in Maker : Sound(EmptyQueue, m) /\ EmptyQueue \in QueueRecord
    BY EmptySound DEF Sound
  <1>2. queues' \in [Maker -> QueueRecord] /\ \A m \in Maker : Sound(queues'[m], m)
    BY <1>1 DEF Reset
  <1>3. reverts' \in 0..MaxReverts
    BY QueueAssumption DEF Reset, IInv
  <1> QED
    BY <1>2, <1>3, EmptyLedger DEF Reset, IInv

LEMMA NextInv ==
  IInv /\ [Next]_vars => IInv'
PROOF
  <1> SUFFICES ASSUME IInv, [Next]_vars PROVE IInv'
    OBVIOUS
  <1>1. CASE UNCHANGED vars
    BY <1>1 DEF vars, IInv
  <1>2. ASSUME NEW t \in Transaction, Submit(t) PROVE IInv'
    BY <1>2, SubmitInv
  <1>3. ASSUME NEW t \in Transaction, Foreign(t) PROVE IInv'
    BY <1>3, ForeignInv
  <1>4. CASE Mine
    BY <1>4, MineInv
  <1>5. ASSUME NEW h \in 0..(Len(ledger) - 1), Revert(h) PROVE IInv'
    BY <1>5, RevertInv
  <1>6. CASE Reset
    BY <1>6, ResetInv
  <1> QED
    BY <1>1, <1>2, <1>3, <1>4, <1>5, <1>6 DEF Next

LEMMA Invariance ==
  Spec => []IInv
BY InitInv, NextInv, PTL DEF Spec

(***************************************************************************)
(* The queues of a node keep their order and their makers, and hold        *)
(* nothing once they were rejected, whatever is submitted, mined by        *)
(* others, reverted or reset (TransactionMakerQueue).                      *)
(***************************************************************************)
THEOREM TypeCorrect ==
  Spec => []TypeOK
BY Invariance, IInvImplies, PTL

(***************************************************************************)
(* What fillBlock adds to a ledger, any other node can replay: nonces      *)
(* follow each other, nothing is applied twice and no block is too heavy,  *)
(* on every branch a node may have reverted to before it mined.            *)
(***************************************************************************)
THEOREM BlocksAlwaysReplay ==
  Spec => []BlocksReplay
BY Invariance, IInvImplies, PTL

-----------------------------------------------------------------------------
(* Why transactions leave their queues. *)

(* What it takes for an account's transaction to leave its queue. *)
Leaves(m, t) ==
  \/ t \in ToSet(queues'[m].queue)
  \/ t.nonce < Nonce(Contents(ledger), m)
  \/ \E u \in ToSet(queues'[m].queue) : u.nonce <= t.nonce
  \/ queues'[m].status \in {"ORDER", "ERROR"}
  \/ reverts' > reverts

LEMMA SubmitLeaves ==
  ASSUME IInv, NEW t \in Transaction, Submit(t), NEW m \in Account, NEW u \in ToSet(queues[m].queue)
  PROVE  Leaves(m, u)
PROOF
  <1>1. m \in Maker /\ m # Makerless
    BY QueueAssumption DEF Maker
  <1>2. t.maker \in Maker /\ queues' = [queues EXCEPT ![t.maker] = Push(queues[t.maker], t)]
    BY Nonces DEF Submit
  <1>3. CASE m = t.maker
    <2>1. queues'[m] = Push(queues[m], t)
      BY <1>1, <1>2, <1>3 DEF IInv
    <2>2. Sound(queues[m], t.maker) /\ t.maker # Makerless /\ u \in ToSet(queues[m].queue)
      BY <1>1, <1>3 DEF IInv
    <2>3. \/ u \in ToSet(Push(queues[m], t).queue)
          \/ (t \in ToSet(Push(queues[m], t).queue) /\ t.nonce <= u.nonce)
      BY <2>2, PushSound
    <2> QED
      BY <2>1, <2>3 DEF Leaves
  <1>4. CASE m # t.maker
    <2>1. queues'[m] = queues[m]
      BY <1>1, <1>2, <1>4 DEF IInv
    <2> QED
      BY <2>1 DEF Leaves
  <1> QED
    BY <1>3, <1>4

LEMMA MineLeaves ==
  ASSUME IInv, Mine, NEW m \in Account, NEW u \in ToSet(queues[m].queue)
  PROVE  Leaves(m, u)
PROOF
  <1>1. m \in Maker /\ u.maker = m
    BY QueueAssumption DEF Maker, IInv, Sound
  <1>2. PICK qs \in [Maker -> QueueRecord] : \E filled \in Fillings(qs, FlattenSeq(ledger)) :
           /\ \A n \in Maker : qs[n] = Prune(queues[n], Contents(ledger))
           /\ queues' = filled.queues
    BY MineFills
  <1>3. PICK filled \in Fillings(qs, FlattenSeq(ledger)) :
           /\ \A n \in Maker : qs[n] = Prune(queues[n], Contents(ledger))
           /\ queues' = filled.queues
    BY <1>2
  <1>4. LeftAlone(qs[m], queues'[m])
    BY <1>1, <1>3, FillingFacts
  <1>5. IsSpent(Contents(ledger), u) \/ u \in ToSet(qs[m].queue)
    BY <1>1, <1>3, PruneSound DEF IInv
  <1>6. CASE IsSpent(Contents(ledger), u)
    <2> DEFINE due == u.nonce < Nonce(Contents(ledger), m)
    <2>1. m # Makerless
      BY QueueAssumption
    <2>2. due
      BY <1>1, <1>6, <2>1 DEF IsSpent
    <2> QED
      BY <2>2 DEF Leaves
  <1>7. CASE u \in ToSet(qs[m].queue)
    BY <1>4, <1>7 DEF LeftAlone, Leaves
  <1> QED
    BY <1>5, <1>6, <1>7

LEMMA NextLeaves ==
  ASSUME IInv, Next, NEW m \in Account, NEW u \in ToSet(queues[m].queue)
  PROVE  Leaves(m, u)
PROOF
  <1>1. ASSUME NEW t \in Transaction, Submit(t) PROVE Leaves(m, u)
    BY <1>1, SubmitLeaves
  <1>2. ASSUME NEW t \in Transaction, Foreign(t) PROVE Leaves(m, u)
    BY <1>2 DEF Foreign, Leaves
  <1>3. CASE Mine
    BY <1>3, MineLeaves
  <1>4. ASSUME NEW h \in 0..(Len(ledger) - 1), Revert(h) PROVE Leaves(m, u)
    BY <1>4 DEF Revert, Leaves
  <1>5. CASE Reset
    BY <1>5 DEF Reset, Leaves, IInv
  <1> QED
    BY <1>1, <1>2, <1>3, <1>4, <1>5 DEF Next

(***************************************************************************)
(* No transaction of an account is lost in silence: neither prune nor      *)
(* fillBlock nor the push of another one drops it without one of the       *)
(* reasons its owner can see.                                              *)
(***************************************************************************)
THEOREM TransactionsLeaveForAReason ==
  Spec => LeavesForAReason
PROOF
  <1>1. IInv /\ [Next]_vars =>
          [ \A m \in Account : \A t \in ToSet(queues[m].queue) :
              \/ t \in ToSet(queues'[m].queue)
              \/ t.nonce < Nonce(Contents(ledger), m)
              \/ \E u \in ToSet(queues'[m].queue) : u.nonce <= t.nonce
              \/ queues'[m].status \in {"ORDER", "ERROR"}
              \/ reverts' > reverts ]_vars
    <2> SUFFICES ASSUME IInv, Next
                 PROVE  \A m \in Account : \A t \in ToSet(queues[m].queue) : Leaves(m, t)
      BY DEF Leaves
    <2> QED
      BY NextLeaves
  <1> QED
    BY <1>1, Invariance, PTL DEF Spec, LeavesForAReason

=============================================================================
