----------------------------- MODULE Sync_proofs -----------------------------
(***************************************************************************)
(* How a node learns the chains of others keeps its parts in agreement:    *)
(* what waits is waited for, searches and requests match, and no block is  *)
(* given up without a reason, for any number of miners, blocks, threads    *)
(* and faults.                                                             *)
(***************************************************************************)
EXTENDS Sync, BlockTreeData_proofs, FiniteSetTheorems, NaturalsInduction, TLAPS

-----------------------------------------------------------------------------
(* Functions defined by recursion on a number. *)

LEMMA LeastExists ==
  ASSUME NEW S \in SUBSET Nat, S # {}
  PROVE  \E m \in S : \A i \in S : m <= i
PROOF
  <1>1. PICK m \in S : \A i \in S : ~(<<i, m>> \in OpToRel(<, Nat))
    BY NatLessThanWellFounded, WFMin
  <1>2. ASSUME NEW i \in S, i < m PROVE FALSE
    BY <1>1, <1>2 DEF OpToRel
  <1> QED
    BY <1>2

(* What holds at 0 and passes from each number to the next holds up to n. *)
LEMMA UpTo ==
  ASSUME NEW n \in Nat, NEW Good, 0 \in Good, \A i \in 1..n : i - 1 \in Good => i \in Good
  PROVE  \A i \in 0..n : i \in Good
PROOF
  <1> DEFINE bad == { i \in 0..n : i \notin Good }
  <1>1. bad = {}
    <2> SUFFICES ASSUME bad # {} PROVE FALSE
      OBVIOUS
    <2>1. PICK k \in bad : \A i \in bad : k <= i
      <3>1. bad \in SUBSET Nat
        OBVIOUS
      <3> HIDE DEF bad
      <3> QED
        BY <3>1, LeastExists
    <2>2. k \in 1..n /\ k \notin Good /\ k - 1 \in 0..n /\ ~(k <= k - 1)
      OBVIOUS
    <2> QED
      BY <2>1, <2>2
  <1> QED
    BY <1>1

(* f starts with v, and each later value follows from the one before. *)
Iterates(f, v, step, n) ==
  f = [i \in 0..n |-> IF i = 0 THEN v ELSE step[<<f[i - 1], i>>]]

(* A recursion whose steps stay in V has a solution, and it stays in V. *)
LEMMA IterationExists ==
  ASSUME NEW V, NEW v \in V, NEW n \in Nat, NEW step \in [V \X (1..n) -> V]
  PROVE  \E f \in [0..n -> V] : Iterates(f, v, step, n)
PROOF
  <1> DEFINE Solved(k) == \E f \in [0..k -> V] : Iterates(f, v, step, k)
  <1> DEFINE Good == { k \in 0..n : Solved(k) }
  <1>1. \A k \in 0..n : k \in Good
    <2>1. 0 \in Good
      <3> DEFINE f == [i \in 0..0 |-> v]
      <3>1. f \in [0..0 -> V] /\ Iterates(f, v, step, 0)
        BY DEF Iterates
      <3> HIDE DEF f
      <3> QED
        BY <3>1
    <2>2. ASSUME NEW k \in 1..n, k - 1 \in Good PROVE k \in Good
      <3>1. k # 0 /\ k \in 0..n
        OBVIOUS
      <3>2. PICK f \in [0..(k - 1) -> V] : Iterates(f, v, step, k - 1)
        BY <2>2
      <3> DEFINE g == [i \in 0..k |-> IF i = k THEN step[<<f[k - 1], k>>] ELSE f[i]]
      <3>3. \A i \in 0..(k - 1) : f[i] \in V /\ f[i] = IF i = 0 THEN v ELSE step[<<f[i - 1], i>>]
        BY <3>2 DEF Iterates
      <3>4. ASSUME NEW i \in 0..k
            PROVE  g[i] \in V /\ g[i] = IF i = 0 THEN v ELSE step[<<g[i - 1], i>>]
        <4>1. CASE i = k
          <5>1. k - 1 \in 0..(k - 1) /\ k - 1 \in 0..k /\ k - 1 # k
            BY <3>1
          <5>2. g[k - 1] = f[k - 1] /\ f[k - 1] \in V
            BY <3>3, <5>1
          <5>3. g[i] = step[<<f[k - 1], k>>]
            BY <4>1
          <5>4. <<f[k - 1], k>> \in V \X (1..n)
            BY <3>1, <5>2
          <5> QED
            BY <3>1, <4>1, <5>2, <5>3, <5>4
        <4>2. CASE i # k
          <5>1. i \in 0..(k - 1) /\ g[i] = f[i]
            BY <3>1, <4>2
          <5>2. i # 0 => i - 1 \in 0..k /\ i - 1 # k /\ g[i - 1] = f[i - 1]
            BY <3>1, <4>2
          <5> QED
            BY <3>3, <5>1, <5>2
        <4> QED
          BY <4>1, <4>2
      <3>5. g \in [0..k -> V] /\ Iterates(g, v, step, k)
        BY <3>4 DEF Iterates
      <3> HIDE DEF g
      <3> QED
        BY <3>5
    <2> HIDE DEF Good
    <2> QED
      BY <2>1, <2>2, UpTo
  <1>2. n \in 0..n
    OBVIOUS
  <1>3. Solved(n)
    BY <1>1, <1>2
  <1> QED
    BY <1>3

-----------------------------------------------------------------------------
(* Numbers, sets and sequences. *)

LEMMA MinOfTwo ==
  ASSUME NEW m \in Nat, NEW n \in Nat
  PROVE  Min({m, n}) \in {m, n} /\ Min({m, n}) <= m /\ Min({m, n}) <= n
PROOF
  <1>1. \E x \in {m, n} : \A y \in {m, n} : x <= y
    <2>1. CASE m <= n
      BY <2>1
    <2>2. CASE ~(m <= n)
      BY <2>2
    <2> QED
      BY <2>1, <2>2
  <1>2. Min({m, n}) \in {m, n} /\ \A y \in {m, n} : Min({m, n}) <= y
    BY <1>1 DEF Min
  <1> QED
    BY <1>2

(* A set in some order: each element once. *)
LEMMA InSomeOrder ==
  ASSUME NEW S, IsFiniteSet(S)
  PROVE  /\ SetToSeq(S) \in Seq(S)
         /\ ToSet(SetToSeq(S)) = S
         /\ \A i, j \in 1..Len(SetToSeq(S)) : SetToSeq(S)[i] = SetToSeq(S)[j] => i = j
PROOF
  <1> DEFINE n == Cardinality(S)
  <1>1. n \in Nat /\ ExistsBijection(1..n, S)
    BY FS_CardinalityType
  <1> HIDE DEF n
  <1>2. PICK g \in Bijection(1..n, S) : TRUE
    BY <1>1 DEF ExistsBijection
  <1>3. g \in [1..n -> S] /\ IsInjective(g)
    BY <1>2 DEF Bijection, Injection
  <1>4. SetToSeq(S) \in [1..n -> S] /\ IsInjective(SetToSeq(S))
    BY <1>3 DEF SetToSeq, n
  <1> DEFINE s == SetToSeq(S)
  <1>5. s \in [1..n -> S] /\ IsInjective(s)
    BY <1>4
  <1> HIDE DEF s
  <1>6. s \in Seq(S) /\ Len(s) = n /\ DOMAIN s = 1..n
    BY <1>1, <1>5
  <1>7. \A i, j \in 1..n : s[i] = s[j] => i = j
    BY <1>5, <1>6 DEF IsInjective
  <1>8. ToSet(s) = S
    <2>1. s \in Injection(1..n, S)
      BY <1>5 DEF Injection
    <2>2. IsFiniteSet(1..n) /\ Cardinality(1..n) = n
      BY <1>1, FS_Interval
    <2>3. s \in Surjection(1..n, S)
      BY <2>1, <2>2, FS_Injection DEF n
    <2> QED
      BY <1>6, <2>3 DEF Surjection, ToSet
  <1> QED
    BY <1>6, <1>7, <1>8 DEF s

(* How often an element occurs in a sequence. *)
Occurs(s, x) == Cardinality({ i \in DOMAIN s : s[i] = x })

LEMMA OccursFacts ==
  ASSUME NEW T, NEW s \in Seq(T), NEW x
  PROVE  /\ IsFiniteSet({ i \in DOMAIN s : s[i] = x })
         /\ Occurs(s, x) \in Nat
         /\ Occurs(s, x) > 0 <=> x \in ToSet(s)
PROOF
  <1> DEFINE at == { i \in DOMAIN s : s[i] = x }
  <1>1. Len(s) \in Nat /\ DOMAIN s = 1..Len(s)
    OBVIOUS
  <1>2. IsFiniteSet(1..Len(s))
    BY <1>1, FS_Interval
  <1>3. at \in SUBSET (1..Len(s))
    BY <1>1
  <1>4. IsFiniteSet(at)
    <2> HIDE DEF at
    <2> QED
      BY <1>2, <1>3, FS_Subset
  <1>5. Cardinality(at) \in Nat /\ (Cardinality(at) = 0 <=> at = {})
    <2> HIDE DEF at
    <2> QED
      BY <1>4, FS_CardinalityType, FS_EmptySet
  <1>6. at # {} <=> x \in ToSet(s)
    BY DEF ToSet
  <1> QED
    BY <1>4, <1>5, <1>6 DEF Occurs

LEMMA OccursAppended ==
  ASSUME NEW T, NEW s \in Seq(T), NEW x, NEW y \in T
  PROVE  Occurs(Append(s, y), x) = Occurs(s, x) + IF x = y THEN 1 ELSE 0
PROOF
  <1> DEFINE n == Len(s)
  <1> DEFINE r == Append(s, y)
  <1> DEFINE at == { i \in DOMAIN s : s[i] = x }
  <1> DEFINE to == { i \in DOMAIN r : r[i] = x }
  <1>1. /\ n \in Nat /\ DOMAIN s = 1..n /\ DOMAIN r = 1..(n + 1) /\ r[n + 1] = y
        /\ \A i \in 1..n : r[i] = s[i]
    OBVIOUS
  <1>2. IsFiniteSet(at) /\ Cardinality(at) \in Nat
    BY OccursFacts DEF Occurs
  <1> HIDE DEF n, r
  <1>3. n + 1 \notin at
    BY <1>1
  <1>4. x = y => to = at \cup {n + 1}
    BY <1>1
  <1>5. x # y => to = at
    BY <1>1
  <1>6. Cardinality(at \cup {n + 1}) = Cardinality(at) + 1
    <2> HIDE DEF at
    <2> QED
      BY <1>2, <1>3, FS_AddElement
  <1>7. Cardinality(to) = Cardinality(at) + IF x = y THEN 1 ELSE 0
    <2>1. CASE x = y
      BY <1>4, <1>6, <2>1
    <2>2. CASE x # y
      BY <1>2, <1>5, <2>2
    <2> QED
      BY <2>1, <2>2
  <1> QED
    BY <1>7 DEF Occurs, r

LEMMA OccursInTail ==
  ASSUME NEW T, NEW s \in Seq(T), s # <<>>, NEW x
  PROVE  Occurs(s, x) = Occurs(Tail(s), x) + IF x = Head(s) THEN 1 ELSE 0
PROOF
  <1> DEFINE n == Len(s)
  <1> DEFINE r == Tail(s)
  <1> DEFINE at == { i \in DOMAIN r : r[i] = x }
  <1> DEFINE later == { i \in 2..n : s[i] = x }
  <1> DEFINE all == { i \in DOMAIN s : s[i] = x }
  <1>1. /\ n \in Nat \ {0} /\ DOMAIN s = 1..n /\ DOMAIN r = 1..(n - 1)
        /\ \A i \in 1..(n - 1) : r[i] = s[i + 1]
        /\ Head(s) = s[1] /\ r \in Seq(T)
    OBVIOUS
  <1>2. IsFiniteSet(at) /\ Cardinality(at) \in Nat
    BY <1>1, OccursFacts DEF Occurs
  <1> HIDE DEF n, r
  <1>3. IsFiniteSet(later) /\ Cardinality(later) = Cardinality(at)
    <2> DEFINE f == [i \in at |-> i + 1]
    <2>1. f \in [at -> later]
      BY <1>1
    <2>2. \A i, j \in at : f[i] = f[j] => i = j
      BY <1>1
    <2>3. \A j \in later : \E i \in at : f[i] = j
      <3> TAKE j \in later
      <3>1. j - 1 \in 1..(n - 1) /\ (j - 1) + 1 = j
        BY <1>1
      <3>2. j - 1 \in at
        BY <1>1, <3>1
      <3>3. f[j - 1] = j
        BY <3>1, <3>2
      <3> QED
        BY <3>2, <3>3
    <2>4. f \in Bijection(at, later)
      <3> HIDE DEF at, later
      <3>1. DOMAIN f = at
        OBVIOUS
      <3> HIDE DEF f
      <3> QED
        BY <2>1, <2>2, <2>3, <3>1 DEF Bijection, Injection, Surjection, IsInjective
    <2>5. ExistsBijection(at, later)
      BY <2>4 DEF ExistsBijection
    <2> HIDE DEF at, later
    <2> QED
      BY <1>2, <2>5, FS_Bijection
  <1>4. x = Head(s) => all = later \cup {1}
    BY <1>1
  <1>5. x # Head(s) => all = later
    BY <1>1
  <1>6. 1 \notin later
    BY <1>1
  <1>7. Cardinality(later \cup {1}) = Cardinality(later) + 1
    <2> HIDE DEF later
    <2> QED
      BY <1>3, <1>6, FS_AddElement
  <1>8. Cardinality(all) = Cardinality(at) + IF x = Head(s) THEN 1 ELSE 0
    <2> HIDE DEF at, later, all
    <2>1. CASE x = Head(s)
      BY <1>3, <1>4, <1>7, <2>1
    <2>2. CASE x # Head(s)
      BY <1>2, <1>3, <1>5, <2>2
    <2> QED
      BY <2>1, <2>2
  <1> QED
    BY <1>8 DEF Occurs, r

(* In a sequence of different elements each occurs once. *)
LEMMA OccursOnce ==
  ASSUME NEW T, NEW s \in Seq(T), \A i, j \in 1..Len(s) : s[i] = s[j] => i = j, NEW x
  PROVE  Occurs(s, x) = IF x \in ToSet(s) THEN 1 ELSE 0
PROOF
  <1>1. Len(s) \in Nat /\ DOMAIN s = 1..Len(s)
    OBVIOUS
  <1>2. CASE x \in ToSet(s)
    <2>1. PICK i \in 1..Len(s) : s[i] = x
      BY <1>1, <1>2 DEF ToSet
    <2>2. { j \in DOMAIN s : s[j] = x } = {i}
      BY <1>1, <2>1
    <2> QED
      BY <1>2, <2>2, FS_Singleton DEF Occurs
  <1>3. CASE x \notin ToSet(s)
    <2>1. { j \in DOMAIN s : s[j] = x } = {}
      BY <1>1, <1>3 DEF ToSet
    <2> QED
      BY <1>3, <2>1, FS_EmptySet DEF Occurs
  <1> QED
    BY <1>2, <1>3

-----------------------------------------------------------------------------
(* Heights and trees. *)

LEMMA HeightFacts ==
  ASSUME NEW b \in Block
  PROVE  /\ Height(b) \in Nat
         /\ Height(b) = 0 <=> b = Genesis
         /\ b # Genesis => Parent(b) \in Block /\ Height(b) = Height(Parent(b)) + 1
         /\ \A a \in Path(b) : /\ a \in Block /\ Height(a) <= Height(b)
                               /\ (Height(a) = Height(b) => Path(a) = Path(b))
PROOF
  <1>1. IsFiniteSet(Path(b)) /\ b \in Path(b) /\ Genesis \in Path(b) /\ Path(b) \subseteq Block
    BY SyncAssumption, TreeAssumption
  <1>2. Cardinality(Path(b)) \in Nat \ {0}
    BY <1>1, FS_CardinalityType, FS_EmptySet
  <1>3. Height(b) \in Nat /\ Cardinality(Path(b)) = Height(b) + 1
    BY <1>2 DEF Height
  <1>4. ASSUME NEW a \in Path(b)
        PROVE  a \in Block /\ Height(a) <= Height(b) /\ (Height(a) = Height(b) => Path(a) = Path(b))
    <2>1. a \in Block /\ Path(a) \subseteq Path(b) /\ IsFiniteSet(Path(a))
      BY <1>1, SyncAssumption, TreeAssumption
    <2>2. Cardinality(Path(a)) \in Nat
      BY <2>1, FS_CardinalityType
    <2>3. Cardinality(Path(a)) <= Cardinality(Path(b))
          /\ (Cardinality(Path(b)) = Cardinality(Path(a)) => Path(b) = Path(a))
      BY <1>1, <2>1, FS_Subset
    <2> QED
      BY <1>2, <2>1, <2>2, <2>3 DEF Height
  <1>5. CASE b = Genesis
    <2>1. Path(b) = {Genesis}
      BY <1>5, TreeAssumption
    <2>2. Cardinality(Path(b)) = 1
      BY <2>1, FS_Singleton
    <2> QED
      BY <1>3, <1>4, <1>5, <2>2
  <1>6. CASE b # Genesis
    <2>1. Parent(b) \in Block /\ b \notin Path(Parent(b)) /\ Path(b) = Path(Parent(b)) \cup {b}
      BY <1>6, TreeAssumption
    <2>2. IsFiniteSet(Path(Parent(b))) /\ Parent(b) \in Path(Parent(b))
      BY <2>1, SyncAssumption, TreeAssumption
    <2>3. Cardinality(Path(b)) = Cardinality(Path(Parent(b))) + 1
      BY <2>1, <2>2, FS_AddElement
    <2>4. Cardinality(Path(Parent(b))) \in Nat \ {0}
      BY <2>2, FS_CardinalityType, FS_EmptySet
    <2>5. Height(b) = Height(Parent(b)) + 1 /\ Height(b) # 0
      BY <2>3, <2>4 DEF Height
    <2> QED
      BY <1>3, <1>4, <1>6, <2>1, <2>5
  <1> QED
    BY <1>5, <1>6

(* A branch has a block at every height up to its own. *)
LEMMA EveryHeight ==
  ASSUME NEW b \in Block, NEW k \in 0..Height(b)
  PROVE  \E a \in Path(b) : Height(a) = k
PROOF
  <1> DEFINE n == Height(b)
  <1> DEFINE Full(a) == \A j \in 0..Height(a) : \E c \in Path(a) : Height(c) = j
  <1> DEFINE Good == { h \in 0..n : \A a \in Block : Height(a) = h => Full(a) }
  <1>1. n \in Nat
    BY HeightFacts
  <1>2. 0 \in Good
    <2>1. ASSUME NEW a \in Block, Height(a) = 0, NEW j \in 0..Height(a)
          PROVE  \E c \in Path(a) : Height(c) = j
      BY <2>1, TreeAssumption
    <2> QED
      BY <1>1, <2>1
  <1>3. ASSUME NEW i \in 1..n, i - 1 \in Good PROVE i \in Good
    <2>1. ASSUME NEW a \in Block, Height(a) = i, NEW j \in 0..i
          PROVE  \E c \in Path(a) : Height(c) = j
      <3>1. a # Genesis /\ Parent(a) \in Block /\ Height(Parent(a)) = i - 1
        BY <2>1, HeightFacts
      <3>2. Full(Parent(a))
        BY <1>3, <3>1
      <3>3. a \in Path(a) /\ Path(Parent(a)) \subseteq Path(a)
        BY <3>1, ParentFacts, TreeAssumption
      <3>4. CASE j = i
        BY <2>1, <3>3, <3>4
      <3>5. CASE j # i
        <4>1. j \in 0..Height(Parent(a))
          BY <3>1, <3>5
        <4> QED
          BY <3>2, <3>3, <4>1
      <3> QED
        BY <3>4, <3>5
    <2> QED
      BY <1>1, <2>1
  <1>4. n \in Good
    <2>1. n \in 0..n
      BY <1>1
    <2> HIDE DEF Good, n
    <2> QED
      BY <1>1, <1>2, <1>3, <2>1, UpTo
  <1> QED
    BY <1>4

(* Of the blocks of a branch, some have all the others below them. *)
LEMMA LastExists ==
  ASSUME NEW b \in Block, NEW S \in SUBSET Path(b), S # {}
  PROVE  \E c \in S : \A d \in S : d \in Path(c)
PROOF
  <1> DEFINE n == Height(b)
  <1> DEFINE depths == { n - Height(c) : c \in S }
  <1>1. n \in Nat /\ \A c \in S : c \in Block /\ Height(c) \in 0..n
    BY HeightFacts
  <1> HIDE DEF n
  <1>2. depths \in SUBSET Nat /\ depths # {}
    BY <1>1
  <1>3. PICK m \in depths : \A i \in depths : m <= i
    <2> HIDE DEF depths
    <2> QED
      BY <1>2, LeastExists
  <1>4. PICK c \in S : m = n - Height(c)
    BY <1>3
  <1>5. ASSUME NEW d \in S PROVE d \in Path(c)
    <2>1. n - Height(c) <= n - Height(d)
      BY <1>3, <1>4
    <2>2. Height(d) <= Height(c)
      BY <1>1, <2>1
    <2>3. d \in Path(c) \/ c \in Path(d)
      BY <1>1, TreeAssumption
    <2>4. CASE c \in Path(d)
      <3>1. Height(c) <= Height(d) /\ (Height(c) = Height(d) => Path(c) = Path(d))
        BY <1>1, <2>4, HeightFacts
      <3>2. Path(c) = Path(d)
        BY <1>1, <2>2, <3>1
      <3> QED
        BY <1>1, <3>2, TreeAssumption
    <2> QED
      BY <2>3, <2>4
  <1> QED
    BY <1>5

(* The ends that the step looks for exist. *)
LEMMA EndsExist ==
  ASSUME NEW T, WellFormed(T), NEW b \in T.nodes
  PROVE  /\ LedgerOf(T, b) \in Path(b) \cap T.complete
         /\ Trim(T, b) \in Path(b) \ T.missing
         /\ Path(b) \subseteq T.nodes
PROOF
  <1>1. /\ b \in Block /\ Path(b) \subseteq T.nodes /\ Genesis \in Path(b) /\ Genesis \in T.complete
        /\ Path(Genesis) = {Genesis}
    BY TreeAssumption DEF WellFormed, TreeType, PathsRecorded
  <1>2. Path(Genesis) \subseteq T.held
    BY <1>1 DEF WellFormed, CompleteExact
  <1>3. Genesis \notin T.missing
    BY <1>2 DEF WellFormed, MissingJustified
  <1>4. \E c \in Path(b) \cap T.complete : \A d \in Path(b) \cap T.complete : d \in Path(c)
    <2> DEFINE S == Path(b) \cap T.complete
    <2>1. S \in SUBSET Path(b) /\ S # {}
      BY <1>1
    <2>2. \E c \in S : \A d \in S : d \in Path(c)
      <3> HIDE DEF S
      <3> QED
        BY <1>1, <2>1, LastExists
    <2> QED
      BY <2>2
  <1>5. \E c \in Path(b) \ T.missing : \A d \in Path(b) \ T.missing : d \in Path(c)
    <2> DEFINE S == Path(b) \ T.missing
    <2>1. S \in SUBSET Path(b) /\ S # {}
      BY <1>1, <1>3
    <2>2. \E c \in S : \A d \in S : d \in Path(c)
      <3> HIDE DEF S
      <3> QED
        BY <1>1, <2>1, LastExists
    <2> QED
      BY <2>2
  <1> QED
    BY <1>1, <1>4, <1>5 DEF LedgerOf, Trim

(* Setting blocks missing that lack a body loses them and what is above them. *)
LEMMA BlocksLost ==
  ASSUME NEW T, WellFormed(T), NEW s \in Seq(T.nodes \ T.held)
  PROVE  LET U == SetAllMissing(T, s)
         IN  /\ WellFormed(U) /\ U.nodes = T.nodes /\ U.held = T.held
             /\ \A b \in U.missing : b \in T.missing \/ \E a \in ToSet(s) : a \in Path(b)
PROOF
  <1> DEFINE n == Len(s)
  <1> DEFINE Loses(U) == /\ WellFormed(U) /\ U.nodes = T.nodes /\ U.held = T.held
                         /\ \A b \in U.missing : b \in T.missing \/ \E a \in ToSet(s) : a \in Path(b)
  <1> DEFINE V == { U \in TreeType : Loses(U) }
  <1> DEFINE step == [p \in V \X (1..n) |-> SetMissing(p[1], s[p[2]])]
  <1>1. n \in Nat /\ \A i \in 1..n : s[i] \in T.nodes /\ s[i] \notin T.held /\ s[i] \in ToSet(s)
    BY DEF ToSet
  <1>2. T \in V
    BY DEF WellFormed
  <1>3. ASSUME NEW U \in V, NEW i \in 1..n PROVE SetMissing(U, s[i]) \in V
    <2> DEFINE W == SetMissing(U, s[i])
    <2>1. Loses(U)
      OBVIOUS
    <2>2. WellFormed(W)
      BY <1>1, <2>1, SetMissingWellFormed
    <2>3. /\ W.nodes = U.nodes /\ W.held = U.held
          /\ W.missing = U.missing \cup Reached(U, s[i], U.nodes \ U.missing)
      BY DEF SetMissing, WithStatus
    <2>4. ASSUME NEW b \in W.missing PROVE b \in T.missing \/ \E a \in ToSet(s) : a \in Path(b)
      BY <1>1, <2>1, <2>3, <2>4 DEF Reached
    <2> HIDE DEF W
    <2>5. W \in TreeType
      BY <2>2 DEF WellFormed
    <2> QED
      BY <2>1, <2>2, <2>3, <2>4, <2>5 DEF W
  <1> HIDE DEF n
  <1>4. step \in [V \X (1..n) -> V]
    BY <1>3
  <1>5. \A U \in V, i \in 1..n : step[<<U, i>>] = SetMissing(U, s[i])
    OBVIOUS
  <1> HIDE DEF step, V
  <1>6. PICK g \in [0..n -> V] : Iterates(g, T, step, n)
    BY <1>1, <1>2, <1>4, IterationExists
  <1> DEFINE Follows(h) == h = [i \in 0..n |-> IF i = 0 THEN T ELSE SetMissing(h[i - 1], s[i])]
  <1>7. Follows(g)
    <2>1. g = [i \in 0..n |-> IF i = 0 THEN T ELSE step[<<g[i - 1], i>>]]
      BY <1>6 DEF Iterates
    <2>2. ASSUME NEW i \in 0..n, i # 0 PROVE step[<<g[i - 1], i>>] = SetMissing(g[i - 1], s[i])
      <3>1. i \in 1..n /\ i - 1 \in 0..n
        BY <1>1, <2>2
      <3> QED
        BY <1>5, <1>6, <3>1
    <2> QED
      BY <2>1, <2>2
  <1> DEFINE f == CHOOSE h : Follows(h)
  <1>8. Follows(f)
    <2> HIDE DEF Follows
    <2> QED
      BY <1>7
  <1>9. SetAllMissing(T, s) = f[n]
    BY DEF SetAllMissing, n
  <1> HIDE DEF f
  <1> DEFINE Good == { i \in 0..n : f[i] \in V }
  <1>10. 0 \in Good
    BY <1>1, <1>2, <1>8
  <1>11. ASSUME NEW i \in 1..n, i - 1 \in Good PROVE i \in Good
    <2>1. i \in 0..n /\ i # 0 /\ f[i - 1] \in V
      BY <1>1, <1>11
    <2>2. f[i] = SetMissing(f[i - 1], s[i])
      BY <1>8, <2>1
    <2> QED
      BY <1>3, <2>1, <2>2
  <1>12. n \in Good
    <2>1. n \in 0..n
      BY <1>1
    <2> HIDE DEF Good
    <2> QED
      BY <1>1, <1>10, <1>11, <2>1, UpTo
  <1>13. f[n] \in V
    BY <1>12
  <1> QED
    BY <1>9, <1>13 DEF V

-----------------------------------------------------------------------------
(* Requests and the messenger. *)

LEMMA RequestFacts ==
  /\ \A u \in Url : InfoRequest(u) \in Request /\ NetworkRequest(u) \in Request
  /\ \A u \in Url, b \in Block : BlockRequest(u, b) \in Request
  /\ \A u \in Url, h \in { Height(b) : b \in Block } : HeadersRequest(u, h) \in Request
  /\ \A r \in Request :
       /\ r.kind \in Kind /\ r.url \in Url
       /\ r.kind = "info" => r = InfoRequest(r.url)
       /\ r.kind = "network" => r = NetworkRequest(r.url)
       /\ r.kind = "block" => r.hash \in Block /\ r = BlockRequest(r.url, r.hash)
       /\ r.kind = "headers" => /\ r.height \in { Height(b) : b \in Block }
                                /\ r = HeadersRequest(r.url, r.height)
BY DEF Request, Kind, InfoRequest, NetworkRequest, BlockRequest, HeadersRequest

(* The kinds are told apart, and so are the blocks asked for. *)
LEMMA RequestsDiffer ==
  /\ \A u, v, b, c : BlockRequest(u, b) = BlockRequest(v, c) <=> u = v /\ b = c
  /\ \A u, v, b : /\ BlockRequest(u, b) # InfoRequest(v) /\ BlockRequest(u, b) # NetworkRequest(v)
                  /\ BlockRequest(u, b).kind = "block" /\ BlockRequest(u, b).url = u
                  /\ BlockRequest(u, b).hash = b
  /\ \A u, v, b, h : BlockRequest(u, b) # HeadersRequest(v, h)
  /\ \A u : InfoRequest(u).kind = "info" /\ InfoRequest(u).url = u
  /\ \A u : NetworkRequest(u).kind = "network" /\ NetworkRequest(u).url = u
  /\ \A u, h : HeadersRequest(u, h).kind = "headers" /\ HeadersRequest(u, h).url = u
BY DEF InfoRequest, NetworkRequest, BlockRequest, HeadersRequest

LEMMA KindsFinite == IsFiniteSet(Kind)
PROOF
  <1>1. IsFiniteSet({"block"}) /\ IsFiniteSet({"headers"}) /\ IsFiniteSet({"info"})
        /\ IsFiniteSet({"network"})
    BY FS_Singleton
  <1>2. IsFiniteSet({"block"} \cup {"headers"}) /\ IsFiniteSet({"info"} \cup {"network"})
    BY <1>1, FS_Union
  <1>3. IsFiniteSet(({"block"} \cup {"headers"}) \cup ({"info"} \cup {"network"}))
    BY <1>2, FS_Union
  <1>4. Kind = ({"block"} \cup {"headers"}) \cup ({"info"} \cup {"network"})
    BY DEF Kind
  <1> QED
    BY <1>3, <1>4

(* Every messenger whose threads carry out finitely many requests. *)
Bag == UNION { [D -> Nat \ {0}] : D \in SUBSET Request }

Messengers ==
  { m \in [pending : [Kind -> Seq(Request)], running : Bag, leaving : Nat] :
      /\ \A k \in Kind : \A r \in ToSet(m.pending[k]) : r.kind = k
      /\ IsFiniteSet(DOMAIN m.running)
      /\ TotalActive(m) + m.leaving <= Threads }

LEMMA MessengersAre ==
  ASSUME NEW m
  PROVE  m \in Messengers <=> MessengerOK(m) /\ IsFiniteSet(DOMAIN m.running)
PROOF
  <1>1. ASSUME m \in Messengers PROVE MessengerOK(m) /\ IsFiniteSet(DOMAIN m.running)
    <2>1. PICK D \in SUBSET Request : m.running \in [D -> Nat \ {0}]
      BY <1>1 DEF Messengers, Bag
    <2>2. DOMAIN m.running = D
      BY <2>1
    <2> QED
      BY <1>1, <2>1, <2>2 DEF Messengers, MessengerOK
  <1>2. ASSUME MessengerOK(m), IsFiniteSet(DOMAIN m.running) PROVE m \in Messengers
    <2>1. m.running \in Bag
      BY <1>2 DEF MessengerOK, Bag
    <2> QED
      BY <1>2, <2>1 DEF Messengers, MessengerOK
  <1> QED
    BY <1>1, <1>2

(* What a function makes of a finite set is no larger. *)
LEMMA RangeFinite ==
  ASSUME NEW S, IsFiniteSet(S), NEW f, DOMAIN f = S, f = [x \in S |-> f[x]]
  PROVE  /\ IsFiniteSet({ f[x] : x \in S })
         /\ Cardinality({ f[x] : x \in S }) \in Nat
         /\ Cardinality({ f[x] : x \in S }) <= Cardinality(S)
PROOF
  <1> DEFINE T == { f[x] : x \in S }
  <1>1. f \in Surjection(S, T)
    BY DEF Surjection
  <1> HIDE DEF T
  <1>2. IsFiniteSet(T) /\ Cardinality(T) <= Cardinality(S) /\ Cardinality(T) \in Nat
    BY <1>1, FS_Surjection, FS_CardinalityType
  <1> QED
    BY <1>2 DEF T

LEMMA TasksFacts ==
  ASSUME NEW m, DOMAIN m.running \subseteq Request, m.running \in [DOMAIN m.running -> Nat \ {0}],
         IsFiniteSet(DOMAIN m.running)
  PROVE  /\ IsFiniteSet(Tasks(m)) /\ TotalActive(m) \in Nat
         /\ \A t : t \in Tasks(m) <=>
              \E r \in DOMAIN m.running : \E i \in 1..m.running[r] : t = <<r, i>>
PROOF
  <1> DEFINE D == DOMAIN m.running
  <1> DEFINE f == [r \in D |-> {r} \X (1..m.running[r])]
  <1> DEFINE S == { f[r] : r \in D }
  <1>1. IsFiniteSet(S)
    <2>1. IsFiniteSet(D) /\ DOMAIN f = D /\ f = [r \in D |-> f[r]]
      OBVIOUS
    <2> HIDE DEF D, f
    <2> QED
      BY <2>1, RangeFinite
  <1>2. \A T \in S : IsFiniteSet(T)
    <2>1. ASSUME NEW r \in D PROVE IsFiniteSet({r} \X (1..m.running[r]))
      <3>1. m.running[r] \in Nat
        OBVIOUS
      <3>2. IsFiniteSet({r})
        BY FS_Singleton
      <3>3. IsFiniteSet(1..m.running[r])
        BY <3>1, FS_Interval
      <3> QED
        BY <3>2, <3>3, FS_Product
    <2> QED
      BY <2>1
  <1>3. Tasks(m) = UNION S
    BY DEF Tasks
  <1>4. IsFiniteSet(UNION S)
    <2> HIDE DEF S
    <2> QED
      BY <1>1, <1>2, FS_UNION
  <1>5. IsFiniteSet(Tasks(m))
    BY <1>3, <1>4
  <1>6. TotalActive(m) \in Nat
    BY <1>5, FS_CardinalityType DEF TotalActive
  <1>7. \A t : t \in Tasks(m) <=> \E r \in DOMAIN m.running : \E i \in 1..m.running[r] : t = <<r, i>>
    BY DEF Tasks
  <1> QED
    BY <1>5, <1>6, <1>7

(* The same requests are under way, and the same threads are leaving. *)
SameRequests(m, n) ==
  /\ n.leaving = m.leaving
  /\ \A r \in Request : TimesAsked(n, r) = TimesAsked(m, r)

LEMMA TimesFacts ==
  ASSUME NEW m \in Messengers, NEW r \in Request
  PROVE  /\ TimesRunning(m, r) \in Nat /\ TimesWaiting(m, r) \in Nat /\ TimesAsked(m, r) \in Nat
         /\ TimesRunning(m, r) > 0 <=> r \in DOMAIN m.running
         /\ TimesWaiting(m, r) = Occurs(m.pending[r.kind], r)
         /\ TimesWaiting(m, r) > 0 <=> r \in ToSet(m.pending[r.kind])
         /\ r \in Unanswered(m) <=> TimesAsked(m, r) > 0
PROOF
  <1>1. MessengerOK(m) /\ r.kind \in Kind
    BY MessengersAre, RequestFacts
  <1>2. TimesRunning(m, r) \in Nat /\ (TimesRunning(m, r) > 0 <=> r \in DOMAIN m.running)
    BY <1>1 DEF MessengerOK, TimesRunning
  <1>3. m.pending[r.kind] \in Seq(Request)
    BY <1>1 DEF MessengerOK
  <1>4. TimesWaiting(m, r) = Occurs(m.pending[r.kind], r)
    BY DEF TimesWaiting, Occurs
  <1>5. TimesWaiting(m, r) \in Nat /\ (TimesWaiting(m, r) > 0 <=> r \in ToSet(m.pending[r.kind]))
    BY <1>3, <1>4, OccursFacts
  <1>6. r \in Unanswered(m) <=> r \in DOMAIN m.running \/ r \in ToSet(m.pending[r.kind])
    BY <1>1 DEF Unanswered, BagToSet, MessengerOK
  <1> QED
    BY <1>2, <1>4, <1>5, <1>6 DEF TimesAsked

LEMMA UnansweredRequests ==
  ASSUME NEW m \in Messengers
  PROVE  Unanswered(m) \subseteq Request
PROOF
  <1>1. MessengerOK(m)
    BY MessengersAre
  <1>2. ASSUME NEW k \in Kind PROVE ToSet(m.pending[k]) \subseteq Request
    BY <1>1 DEF MessengerOK, ToSet
  <1> QED
    BY <1>1, <1>2 DEF Unanswered, BagToSet, MessengerOK

(* Requests that get a thread are under way as before. *)
LEMMA StartKeeps ==
  ASSUME NEW m \in Messengers, NEW ks \in SUBSET Waiting(m),
         Cardinality(ks) <= AvailableThreads(m)
  PROVE  Start(m, ks) \in Messengers /\ SameRequests(m, Start(m, ks))
PROOF
  <1> DEFINE n == Start(m, ks)
  <1> DEFINE heads == { Head(m.pending[k]) : k \in ks }
  <1>1. /\ MessengerOK(m) /\ IsFiniteSet(DOMAIN m.running)
        /\ ks \subseteq Kind /\ \A k \in ks : m.pending[k] # <<>>
    BY MessengersAre DEF Waiting
  <1>2. ASSUME NEW k \in Kind
        PROVE  m.pending[k] \in Seq(Request) /\ \A r \in ToSet(m.pending[k]) : r.kind = k
    BY <1>1 DEF MessengerOK
  <1>3. ASSUME NEW k \in ks
        PROVE  /\ Head(m.pending[k]) \in Request /\ Head(m.pending[k]).kind = k
               /\ Tail(m.pending[k]) \in Seq(Request)
               /\ \A r \in ToSet(Tail(m.pending[k])) : r.kind = k
    <2> DEFINE s == m.pending[k]
    <2>1. s \in Seq(Request) /\ s # <<>> /\ \A r \in ToSet(s) : r.kind = k
      BY <1>1, <1>2
    <2> HIDE DEF s
    <2>2. Head(s) \in Request /\ Head(s) \in ToSet(s) /\ Tail(s) \in Seq(Request)
      BY <2>1 DEF ToSet
    <2>3. ToSet(Tail(s)) \subseteq ToSet(s)
      BY <2>1 DEF ToSet
    <2> QED
      BY <2>1, <2>2, <2>3 DEF s
  <1>4. \A r \in heads : r \in Request /\ r.kind \in ks /\ r = Head(m.pending[r.kind])
    BY <1>3
  <1>5. /\ n.pending = [k \in Kind |-> IF k \in ks THEN Tail(m.pending[k]) ELSE m.pending[k]]
        /\ n.leaving = m.leaving
        /\ n.running = m.running (+) SetToBag(heads)
        /\ n = [pending |-> n.pending, running |-> n.running, leaving |-> n.leaving]
    BY DEF Start
  <1>6. IsFiniteSet(heads) /\ Cardinality(heads) \in Nat /\ Cardinality(heads) <= Cardinality(ks)
    <2> DEFINE f == [k \in ks |-> Head(m.pending[k])]
    <2>1. IsFiniteSet(ks)
      <3>1. IsFiniteSet(Kind)
        BY KindsFinite
      <3> QED
        BY <1>1, <3>1, FS_Subset
    <2>2. heads = { f[k] : k \in ks } /\ DOMAIN f = ks /\ f = [k \in ks |-> f[k]]
      OBVIOUS
    <2> HIDE DEF f, heads
    <2> QED
      BY <2>1, <2>2, RangeFinite
  <1> HIDE DEF n, heads
  <1>7. /\ DOMAIN n.running = DOMAIN m.running \cup heads
        /\ \A r \in DOMAIN n.running :
             n.running[r] = TimesRunning(m, r) + IF r \in heads THEN 1 ELSE 0
    BY <1>5 DEF (+), SetToBag, TimesRunning
  <1>8. \A r \in Request : TimesRunning(m, r) \in Nat /\ (TimesRunning(m, r) > 0 <=> r \in DOMAIN m.running)
    BY TimesFacts
  <1>9. /\ DOMAIN n.running \subseteq Request /\ n.running \in [DOMAIN n.running -> Nat \ {0}]
        /\ IsFiniteSet(DOMAIN n.running)
    <2>1. DOMAIN n.running \subseteq Request
      BY <1>1, <1>4, <1>7 DEF MessengerOK
    <2>2. ASSUME NEW r \in DOMAIN n.running PROVE n.running[r] \in Nat \ {0}
      BY <1>7, <1>8, <2>1
    <2>3. n.running = [r \in DOMAIN n.running |-> n.running[r]]
      BY <1>5 DEF (+)
    <2>4. IsFiniteSet(DOMAIN n.running)
      <3>1. IsFiniteSet(DOMAIN m.running \cup heads)
        BY <1>1, <1>6, FS_Union
      <3> QED
        BY <1>7, <3>1
    <2> QED
      BY <2>1, <2>2, <2>3, <2>4
  <1>10. ASSUME NEW r \in Request PROVE TimesAsked(n, r) = TimesAsked(m, r)
    <2>1. TimesRunning(n, r) = TimesRunning(m, r) + IF r \in heads THEN 1 ELSE 0
      <3>1. CASE r \in DOMAIN n.running
        BY <1>7, <3>1 DEF TimesRunning
      <3>2. CASE r \notin DOMAIN n.running
        BY <1>7, <1>8, <3>2 DEF TimesRunning
      <3> QED
        BY <3>1, <3>2
    <2>2. r.kind \in Kind
      BY RequestFacts
    <2>3. TimesWaiting(m, r) = TimesWaiting(n, r) + IF r \in heads THEN 1 ELSE 0
      <3>1. CASE r.kind \in ks
        <4>1. r \in heads <=> r = Head(m.pending[r.kind])
          BY <1>4, <3>1 DEF heads
        <4>2. n.pending[r.kind] = Tail(m.pending[r.kind])
          BY <1>5, <2>2, <3>1
        <4>3. Occurs(m.pending[r.kind], r) = Occurs(Tail(m.pending[r.kind]), r)
                + IF r = Head(m.pending[r.kind]) THEN 1 ELSE 0
          BY <1>1, <1>2, <2>2, <3>1, OccursInTail
        <4> QED
          BY <4>1, <4>2, <4>3 DEF TimesWaiting, Occurs
      <3>2. CASE r.kind \notin ks
        <4>1. r \notin heads
          BY <1>4, <3>2
        <4>2. n.pending[r.kind] = m.pending[r.kind]
          BY <1>5, <2>2, <3>2
        <4>3. TimesWaiting(m, r) = TimesWaiting(n, r) /\ TimesWaiting(m, r) \in Nat
          BY <4>2, TimesFacts DEF TimesWaiting
        <4> QED
          BY <4>1, <4>3
      <3> QED
        BY <3>1, <3>2
    <2>4. TimesRunning(m, r) \in Nat /\ TimesWaiting(m, r) \in Nat
      BY TimesFacts
    <2>5. TimesWaiting(n, r) \in Nat
      <3>1. n.pending[r.kind] \in Seq(Request)
        BY <1>2, <1>3, <1>5, <2>2
      <3> QED
        BY <3>1, OccursFacts DEF TimesWaiting, Occurs
    <2> QED
      BY <2>1, <2>3, <2>4, <2>5 DEF TimesAsked
  <1>11. TotalActive(n) + n.leaving <= Threads
    <2> DEFINE g == [r \in heads |-> <<r, TimesRunning(m, r) + 1>>]
    <2> DEFINE new == { g[r] : r \in heads }
    <2>1. IsFiniteSet(new) /\ Cardinality(new) \in Nat /\ Cardinality(new) <= Cardinality(heads)
      <3>1. DOMAIN g = heads /\ g = [r \in heads |-> g[r]]
        OBVIOUS
      <3> HIDE DEF g
      <3> QED
        BY <1>6, <3>1, RangeFinite
    <2>2. IsFiniteSet(Tasks(m)) /\ TotalActive(m) \in Nat
          /\ \A t : t \in Tasks(m) <=> \E r \in DOMAIN m.running : \E i \in 1..m.running[r] : t = <<r, i>>
      BY <1>1, TasksFacts DEF MessengerOK
    <2>3. \A t : t \in Tasks(n) <=> \E r \in DOMAIN n.running : \E i \in 1..n.running[r] : t = <<r, i>>
      BY <1>9, TasksFacts
    <2>4. Tasks(n) \subseteq Tasks(m) \cup new
      <3>1. ASSUME NEW r \in DOMAIN n.running, NEW i \in 1..n.running[r], <<r, i>> \notin new
            PROVE  <<r, i>> \in Tasks(m)
        <4>1. r \in Request
          BY <1>9
        <4>2. i \in 1..TimesRunning(m, r)
          <5>1. CASE r \in heads
            <6>1. g[r] \in new /\ g[r] = <<r, TimesRunning(m, r) + 1>>
              BY <5>1
            <6>2. i # TimesRunning(m, r) + 1 /\ n.running[r] = TimesRunning(m, r) + 1
              BY <1>7, <3>1, <5>1, <6>1
            <6> QED
              BY <1>8, <4>1, <6>2
          <5>2. CASE r \notin heads
            BY <1>7, <1>8, <4>1, <5>2
          <5> QED
            BY <5>1, <5>2
        <4>3. r \in DOMAIN m.running /\ TimesRunning(m, r) = m.running[r]
          BY <1>8, <4>1, <4>2 DEF TimesRunning
        <4> QED
          BY <2>2, <4>2, <4>3
      <3> HIDE DEF new
      <3> QED
        BY <2>3, <3>1
    <2> HIDE DEF new
    <2>5. /\ IsFiniteSet(Tasks(m) \cup new)
          /\ Cardinality(Tasks(m) \cup new) = Cardinality(Tasks(m)) + Cardinality(new)
                                              - Cardinality(Tasks(m) \cap new)
          /\ Cardinality(Tasks(m) \cap new) \in Nat
      BY <2>1, <2>2, FS_Union, FS_Intersection, FS_CardinalityType
    <2>6. Cardinality(Tasks(n)) \in Nat /\ Cardinality(Tasks(n)) <= Cardinality(Tasks(m) \cup new)
      BY <2>4, <2>5, FS_Subset, FS_CardinalityType
    <2>7. m.leaving \in Nat /\ Threads \in Nat /\ Cardinality(ks) <= Threads - TotalActive(m) - m.leaving
      BY <1>1, MessengerAssumption DEF MessengerOK, AvailableThreads
    <2>8. Cardinality(new) <= Cardinality(ks) /\ Cardinality(ks) \in Int
      <3>1. IsFiniteSet(Kind)
        BY KindsFinite
      <3>2. Cardinality(ks) \in Nat
        BY <1>1, <3>1, FS_Subset, FS_CardinalityType
      <3> QED
        BY <1>6, <2>1, <3>2
    <2> QED
      BY <1>5, <2>1, <2>2, <2>5, <2>6, <2>7, <2>8 DEF TotalActive
  <1>12. MessengerOK(n)
    <2>1. n.pending \in [Kind -> Seq(Request)]
      BY <1>2, <1>3, <1>5
    <2>2. ASSUME NEW k \in Kind PROVE \A r \in ToSet(n.pending[k]) : r.kind = k
      BY <1>2, <1>3, <1>5
    <2>3. n.leaving \in Nat
      BY <1>1, <1>5 DEF MessengerOK
    <2> QED
      BY <1>5, <1>9, <1>11, <2>1, <2>2, <2>3 DEF MessengerOK
  <1>13. n \in Messengers
    BY <1>9, <1>12, MessengersAre
  <1> QED
    BY <1>5, <1>10, <1>13 DEF SameRequests, n

(* A messenger with the same requests as m. *)
Pumped(m) == { n \in Messengers : SameRequests(m, n) }

LEMMA PumpRoundKeeps ==
  ASSUME NEW m \in Messengers
  PROVE  PumpRound(m) \subseteq Pumped(m)
PROOF
  <1>1. MessengerOK(m) /\ IsFiniteSet(DOMAIN m.running)
    BY MessengersAre
  <1>2. m \in Pumped(m)
    BY DEF Pumped, SameRequests
  <1>3. AvailableThreads(m) \in Nat
    <2>1. TotalActive(m) \in Nat
      BY <1>1, TasksFacts DEF MessengerOK
    <2> QED
      BY <1>1, <2>1, MessengerAssumption DEF MessengerOK, AvailableThreads
  <1>4. ASSUME NEW queues \in SUBSET Waiting(m),
               NEW ks \in kSubset(Min({ AvailableThreads(m), Cardinality(queues) }), queues)
        PROVE  Start(m, ks) \in Pumped(m)
    <2>1. Cardinality(queues) \in Nat
      <3>1. queues \in SUBSET Kind
        BY DEF Waiting
      <3> QED
        BY <3>1, KindsFinite, FS_Subset, FS_CardinalityType
    <2>2. ks \in SUBSET Waiting(m) /\ Cardinality(ks) = Min({ AvailableThreads(m), Cardinality(queues) })
      BY DEF kSubset
    <2>3. Cardinality(ks) <= AvailableThreads(m)
      BY <1>3, <2>1, <2>2, MinOfTwo
    <2> QED
      BY <2>2, <2>3, StartKeeps DEF Pumped
  <1>5. \A under \in SUBSET Waiting(m) : (IF under # {} THEN under ELSE Waiting(m)) \in SUBSET Waiting(m)
    OBVIOUS
  <1> DEFINE resources == TotalActive(m) + AvailableThreads(m)
  <1> DEFINE under == { k \in Waiting(m) : ActiveCount(m, k) * TotalWeight < Weight(k) * resources }
  <1> DEFINE queues == IF under # {} THEN under ELSE Waiting(m)
  <1>6. queues \in SUBSET Waiting(m)
    <2>1. under \in SUBSET Waiting(m)
      OBVIOUS
    <2> HIDE DEF under
    <2> QED
      BY <1>5, <2>1
  <1>7. PumpRound(m) =
          IF Waiting(m) = {} \/ AvailableThreads(m) = 0 THEN {m}
          ELSE { Start(m, ks) : ks \in kSubset(Min({ AvailableThreads(m), Cardinality(queues) }), queues) }
    BY DEF PumpRound
  <1> HIDE DEF queues
  <1> QED
    BY <1>2, <1>4, <1>6, <1>7

LEMMA PumpQueuesKeeps ==
  ASSUME NEW m \in Messengers
  PROVE  PumpQueues(m) \subseteq Pumped(m)
PROOF
  <1> DEFINE n == Threads
  <1> DEFINE V == SUBSET Pumped(m)
  <1> DEFINE step == [p \in V \X (1..n) |-> UNION { PumpRound(x) : x \in p[1] }]
  <1>1. n \in Nat
    BY MessengerAssumption
  <1>2. {m} \in V
    BY DEF Pumped, SameRequests
  <1>3. ASSUME NEW S \in V PROVE UNION { PumpRound(x) : x \in S } \in V
    <2>1. ASSUME NEW x \in S, NEW y \in PumpRound(x) PROVE y \in Pumped(m)
      <3>1. x \in Messengers /\ SameRequests(m, x)
        BY DEF Pumped
      <3>2. y \in Messengers /\ SameRequests(x, y)
        BY <2>1, <3>1, PumpRoundKeeps DEF Pumped
      <3> QED
        BY <3>1, <3>2 DEF Pumped, SameRequests
    <2> QED
      BY <2>1
  <1> HIDE DEF n, V
  <1>4. step \in [V \X (1..n) -> V]
    BY <1>3
  <1>5. \A S \in V, i \in 1..n : step[<<S, i>>] = UNION { PumpRound(x) : x \in S }
    OBVIOUS
  <1> HIDE DEF step
  <1>6. PICK g \in [0..n -> V] : Iterates(g, {m}, step, n)
    BY <1>1, <1>2, <1>4, IterationExists
  <1> DEFINE Follows(h) == h = [i \in 0..n |-> IF i = 0 THEN {m} ELSE UNION { PumpRound(x) : x \in h[i - 1] }]
  <1>7. Follows(g)
    <2>1. g = [i \in 0..n |-> IF i = 0 THEN {m} ELSE step[<<g[i - 1], i>>]]
      BY <1>6 DEF Iterates
    <2>2. ASSUME NEW i \in 0..n, i # 0
          PROVE  step[<<g[i - 1], i>>] = UNION { PumpRound(x) : x \in g[i - 1] }
      <3>1. i \in 1..n /\ i - 1 \in 0..n
        BY <1>1, <2>2
      <3> QED
        BY <1>5, <1>6, <3>1
    <2> QED
      BY <2>1, <2>2
  <1> DEFINE f == CHOOSE h : Follows(h)
  <1>8. Follows(f)
    <2> HIDE DEF Follows
    <2> QED
      BY <1>7
  <1>9. PumpQueues(m) = f[n]
    BY DEF PumpQueues, n
  <1> HIDE DEF f
  <1> DEFINE Good == { i \in 0..n : f[i] \in V }
  <1>10. 0 \in Good
    BY <1>1, <1>2, <1>8
  <1>11. ASSUME NEW i \in 1..n, i - 1 \in Good PROVE i \in Good
    <2>1. i \in 0..n /\ i # 0 /\ f[i - 1] \in V
      BY <1>1, <1>11
    <2>2. f[i] = UNION { PumpRound(x) : x \in f[i - 1] }
      BY <1>8, <2>1
    <2> QED
      BY <1>3, <2>1, <2>2
  <1>12. n \in Good
    <2>1. n \in 0..n
      BY <1>1
    <2> HIDE DEF Good
    <2> QED
      BY <1>1, <1>10, <1>11, <2>1, UpTo
  <1>13. f[n] \in V
    BY <1>12
  <1> QED
    BY <1>9, <1>13 DEF V

(* A request that is made is under way once more. *)
LEMMA SendRequestAdds ==
  ASSUME NEW m \in Messengers, NEW q \in Request, NEW n \in SendRequest(m, q)
  PROVE  /\ n \in Messengers /\ n.leaving = m.leaving
         /\ \A r \in Request : TimesAsked(n, r) = TimesAsked(m, r) + IF r = q THEN 1 ELSE 0
PROOF
  <1> DEFINE s == m.pending[q.kind]
  <1> DEFINE p == [m EXCEPT !.pending[q.kind] = Append(s, q)]
  <1>1. MessengerOK(m) /\ IsFiniteSet(DOMAIN m.running) /\ q.kind \in Kind
    BY MessengersAre, RequestFacts
  <1>2. s \in Seq(Request) /\ \A r \in ToSet(s) : r.kind = q.kind
    BY <1>1 DEF MessengerOK
  <1>3. Append(s, q) \in Seq(Request) /\ \A r \in ToSet(Append(s, q)) : r.kind = q.kind
    <2> HIDE DEF s
    <2> QED
      BY <1>2 DEF ToSet
  <1>4. /\ p.pending = [m.pending EXCEPT ![q.kind] = Append(s, q)]
        /\ p.running = m.running /\ p.leaving = m.leaving
        /\ p = [pending |-> p.pending, running |-> p.running, leaving |-> p.leaving]
    <2>1. m = [pending |-> m.pending, running |-> m.running, leaving |-> m.leaving]
      BY <1>1 DEF MessengerOK
    <2> HIDE DEF s
    <2> QED
      BY <2>1
  <1>5. SendRequest(m, q) = PumpQueues(p)
    BY DEF SendRequest
  <1> HIDE DEF p, s
  <1>6. /\ p.pending[q.kind] = Append(s, q)
        /\ \A k \in Kind \ {q.kind} : p.pending[k] = m.pending[k]
        /\ p.pending \in [Kind -> Seq(Request)]
    BY <1>1, <1>3, <1>4 DEF MessengerOK
  <1>7. p \in Messengers
    <2>1. \A k \in Kind : \A r \in ToSet(p.pending[k]) : r.kind = k
      BY <1>1, <1>3, <1>6 DEF MessengerOK
    <2>2. Tasks(p) = Tasks(m)
      BY <1>4 DEF Tasks
    <2>3. MessengerOK(p)
      BY <1>1, <1>4, <1>6, <2>1, <2>2 DEF MessengerOK, TotalActive
    <2> QED
      BY <1>1, <1>4, <2>3, MessengersAre
  <1>8. ASSUME NEW r \in Request
        PROVE  TimesAsked(p, r) = TimesAsked(m, r) + IF r = q THEN 1 ELSE 0
    <2>1. TimesRunning(p, r) = TimesRunning(m, r)
      BY <1>4 DEF TimesRunning
    <2>2. TimesWaiting(p, r) = TimesWaiting(m, r) + IF r = q THEN 1 ELSE 0
      <3>1. CASE r.kind = q.kind
        <4>1. Occurs(Append(s, q), r) = Occurs(s, r) + IF r = q THEN 1 ELSE 0
          BY <1>2, OccursAppended
        <4> QED
          BY <1>6, <3>1, <4>1 DEF TimesWaiting, Occurs, s
      <3>2. CASE r.kind # q.kind
        <4>1. r # q /\ p.pending[r.kind] = m.pending[r.kind]
          BY <1>6, <3>2, RequestFacts
        <4> QED
          BY <4>1, TimesFacts DEF TimesWaiting
      <3> QED
        BY <3>1, <3>2
    <2>3. TimesRunning(m, r) \in Nat /\ TimesWaiting(m, r) \in Nat
      BY TimesFacts
    <2>4. CASE r = q
      BY <2>1, <2>2, <2>3, <2>4 DEF TimesAsked
    <2>5. CASE r # q
      BY <2>1, <2>2, <2>3, <2>5 DEF TimesAsked
    <2> QED
      BY <2>4, <2>5
  <1>9. n \in Messengers /\ SameRequests(p, n)
    BY <1>5, <1>7, PumpQueuesKeeps DEF Pumped
  <1> QED
    BY <1>4, <1>8, <1>9 DEF SameRequests

(* A sequence one longer. *)
LEMMA PrefixGrows ==
  ASSUME NEW T, NEW s \in Seq(T), NEW i \in 1..Len(s)
  PROVE  /\ SubSeq(s, 1, i - 1) \in Seq(T) /\ s[i] \in T
         /\ SubSeq(s, 1, i) = Append(SubSeq(s, 1, i - 1), s[i])
         /\ SubSeq(s, 1, 0) = <<>> /\ SubSeq(s, 1, Len(s)) = s
PROOF
  <1>1. Len(s) \in Nat /\ i \in Nat /\ i - 1 \in Nat /\ i <= Len(s) /\ s[i] \in T
    OBVIOUS
  <1> DEFINE a == SubSeq(s, 1, i)
  <1> DEFINE b == SubSeq(s, 1, i - 1)
  <1>2. b \in Seq(T) /\ Len(b) = i - 1 /\ \A j \in 1..(i - 1) : b[j] = s[j]
    BY <1>1
  <1>3. a \in Seq(T) /\ Len(a) = i /\ \A j \in 1..i : a[j] = s[j]
    BY <1>1
  <1> HIDE DEF a, b
  <1>4. a = Append(b, s[i])
    <2> DEFINE c == Append(b, s[i])
    <2>1. c \in Seq(T) /\ Len(c) = i
      BY <1>1, <1>2
    <2>2. c[i] = s[i] /\ \A j \in 1..(i - 1) : c[j] = b[j]
      BY <1>1, <1>2
    <2> HIDE DEF c
    <2>3. \A j \in 1..i : a[j] = c[j]
      <3>1. ASSUME NEW j \in 1..i PROVE a[j] = c[j]
        <4>1. CASE j = i
          BY <1>1, <1>3, <2>2, <4>1
        <4>2. CASE j # i
          <5>1. j \in 1..(i - 1)
            BY <1>1, <4>2
          <5> QED
            BY <1>2, <1>3, <2>2, <5>1
        <4> QED
          BY <4>1, <4>2
      <3> QED
        BY <3>1
    <2> QED
      BY <1>1, <1>3, <2>1, <2>3 DEF c
  <1>5. SubSeq(s, 1, 0) = <<>> /\ SubSeq(s, 1, Len(s)) = s
    OBVIOUS
  <1> QED
    BY <1>1, <1>2, <1>4, <1>5 DEF a, b

(* Requests that are made are under way as often as they are made. *)
LEMMA SendRequestsAdds ==
  ASSUME NEW m \in Messengers, NEW s \in Seq(Request), NEW x \in SendRequests(m, s)
  PROVE  /\ x \in Messengers /\ x.leaving = m.leaving
         /\ \A r \in Request : TimesAsked(x, r) = TimesAsked(m, r) + Occurs(s, r)
PROOF
  <1> DEFINE n == Len(s)
  <1> DEFINE V == SUBSET Messengers
  <1> DEFINE step == [p \in V \X (1..n) |-> UNION { SendRequest(y, s[p[2]]) : y \in p[1] }]
  <1>1. n \in Nat /\ \A i \in 1..n : s[i] \in Request
    OBVIOUS
  <1>2. {m} \in V
    OBVIOUS
  <1>3. ASSUME NEW S \in V, NEW i \in 1..n PROVE UNION { SendRequest(y, s[i]) : y \in S } \in V
    <2>1. ASSUME NEW y \in S, NEW z \in SendRequest(y, s[i]) PROVE z \in Messengers
      BY <1>1, SendRequestAdds
    <2> QED
      BY <2>1
  <1> HIDE DEF n, V
  <1>4. step \in [V \X (1..n) -> V]
    BY <1>3
  <1>5. \A S \in V, i \in 1..n : step[<<S, i>>] = UNION { SendRequest(y, s[i]) : y \in S }
    OBVIOUS
  <1> HIDE DEF step
  <1>6. PICK g \in [0..n -> V] : Iterates(g, {m}, step, n)
    BY <1>1, <1>2, <1>4, IterationExists
  <1> DEFINE Follows(h) == h = [i \in 0..n |-> IF i = 0 THEN {m} ELSE UNION { SendRequest(y, s[i]) : y \in h[i - 1] }]
  <1>7. Follows(g)
    <2>1. g = [i \in 0..n |-> IF i = 0 THEN {m} ELSE step[<<g[i - 1], i>>]]
      BY <1>6 DEF Iterates
    <2>2. ASSUME NEW i \in 0..n, i # 0
          PROVE  step[<<g[i - 1], i>>] = UNION { SendRequest(y, s[i]) : y \in g[i - 1] }
      <3>1. i \in 1..n /\ i - 1 \in 0..n
        BY <1>1, <2>2
      <3> QED
        BY <1>5, <1>6, <3>1
    <2> QED
      BY <2>1, <2>2
  <1> DEFINE f == CHOOSE h : Follows(h)
  <1>8. Follows(f)
    <2> HIDE DEF Follows
    <2> QED
      BY <1>7
  <1>9. SendRequests(m, s) = f[n]
    BY DEF SendRequests, n
  <1> HIDE DEF f
  <1> DEFINE Sent(i) == { y \in Messengers : /\ y.leaving = m.leaving
                                             /\ \A r \in Request : TimesAsked(y, r) = TimesAsked(m, r) + Occurs(SubSeq(s, 1, i), r) }
  <1> DEFINE Good == { i \in 0..n : f[i] \subseteq Sent(i) }
  <1>10. 0 \in Good
    <2>1. SubSeq(s, 1, 0) = <<>>
      OBVIOUS
    <2>2. ASSUME NEW r \in Request PROVE TimesAsked(m, r) = TimesAsked(m, r) + Occurs(<<>>, r)
      <3>1. Occurs(<<>>, r) = 0
        BY FS_EmptySet DEF Occurs
      <3> QED
        BY <3>1, TimesFacts
    <2>3. f[0] = {m} /\ 0 \in 0..n
      BY <1>1, <1>8
    <2> QED
      BY <2>1, <2>2, <2>3
  <1>11. ASSUME NEW i \in 1..n, i - 1 \in Good PROVE i \in Good
    <2>1. i \in 0..n /\ i # 0 /\ f[i - 1] \subseteq Sent(i - 1) /\ i - 1 \in 0..n
      BY <1>1, <1>11
    <2>2. f[i] = UNION { SendRequest(y, s[i]) : y \in f[i - 1] }
      BY <1>8, <2>1
    <2>3. ASSUME NEW y \in f[i - 1], NEW z \in SendRequest(y, s[i]) PROVE z \in Sent(i)
      <3>1. y \in Messengers /\ y.leaving = m.leaving
        BY <2>1
      <3>2. /\ z \in Messengers /\ z.leaving = y.leaving
            /\ \A r \in Request : TimesAsked(z, r) = TimesAsked(y, r) + IF r = s[i] THEN 1 ELSE 0
        BY <1>1, <2>3, <3>1, SendRequestAdds
      <3>3. ASSUME NEW r \in Request PROVE TimesAsked(z, r) = TimesAsked(m, r) + Occurs(SubSeq(s, 1, i), r)
        <4> DEFINE a == SubSeq(s, 1, i - 1)
        <4>1. TimesAsked(y, r) = TimesAsked(m, r) + Occurs(a, r)
          BY <2>1
        <4>2. a \in Seq(Request) /\ SubSeq(s, 1, i) = Append(a, s[i])
          BY PrefixGrows DEF n
        <4> HIDE DEF a
        <4>3. Occurs(SubSeq(s, 1, i), r) = Occurs(a, r) + IF r = s[i] THEN 1 ELSE 0
          <5>1. s[i] \in Request
            BY <1>1
          <5>2. Occurs(Append(a, s[i]), r) = Occurs(a, r) + IF r = s[i] THEN 1 ELSE 0
            <6> DEFINE q == s[i]
            <6> HIDE DEF q
            <6>1. q \in Request
              BY <5>1 DEF q
            <6>2. Occurs(Append(a, q), r) = Occurs(a, r) + IF r = q THEN 1 ELSE 0
              BY <4>2, <6>1, OccursAppended
            <6> QED
              BY <6>2 DEF q
          <5> QED
            BY <4>2, <5>2
        <4>4. Occurs(a, r) \in Nat /\ TimesAsked(m, r) \in Nat
          BY <4>2, OccursFacts, TimesFacts
        <4>5. CASE r = s[i]
          BY <3>2, <4>1, <4>3, <4>4, <4>5
        <4>6. CASE r # s[i]
          BY <3>2, <4>1, <4>3, <4>4, <4>6
        <4> QED
          BY <4>5, <4>6
      <3> QED
        BY <3>1, <3>2, <3>3
    <2> QED
      BY <2>1, <2>2, <2>3
  <1>12. n \in Good
    <2>1. n \in 0..n
      BY <1>1
    <2> HIDE DEF Good
    <2> QED
      BY <1>1, <1>10, <1>11, <2>1, UpTo
  <1>13. SubSeq(s, 1, n) = s
    BY DEF n
  <1> QED
    BY <1>9, <1>12, <1>13

LEMMA NoRequestsMade ==
  /\ NoRequests \in Messengers
  /\ \A r \in Request : TimesAsked(NoRequests, r) = 0
PROOF
  <1>1. /\ NoRequests.pending = [k \in Kind |-> <<>>] /\ NoRequests.leaving = 0
        /\ DOMAIN NoRequests.running = {}
        /\ NoRequests.running = [r \in {} |-> 1]
        /\ NoRequests = [pending |-> NoRequests.pending, running |-> NoRequests.running,
                         leaving |-> NoRequests.leaving]
    BY DEF NoRequests, EmptyBag, SetToBag
  <1>2. Tasks(NoRequests) = {}
    BY <1>1 DEF Tasks
  <1>3. TotalActive(NoRequests) = 0
    BY <1>2, FS_EmptySet DEF TotalActive
  <1>4. MessengerOK(NoRequests)
    <2>1. NoRequests.pending \in [Kind -> Seq(Request)]
      BY <1>1
    <2>2. \A k \in Kind : \A r \in ToSet(NoRequests.pending[k]) : r.kind = k
      BY <1>1 DEF ToSet
    <2>3. NoRequests.running \in [DOMAIN NoRequests.running -> Nat \ {0}]
      BY <1>1
    <2> QED
      BY <1>1, <1>3, <2>1, <2>2, <2>3, MessengerAssumption DEF MessengerOK
  <1>5. ASSUME NEW r \in Request PROVE TimesAsked(NoRequests, r) = 0
    <2>1. r.kind \in Kind
      BY RequestFacts
    <2>2. TimesRunning(NoRequests, r) = 0
      BY <1>1 DEF TimesRunning
    <2>3. TimesWaiting(NoRequests, r) = 0
      <3>1. NoRequests.pending[r.kind] = <<>>
        BY <1>1, <2>1
      <3>2. { i \in DOMAIN NoRequests.pending[r.kind] : NoRequests.pending[r.kind][i] = r } = {}
        BY <3>1
      <3> QED
        BY <3>2, FS_EmptySet DEF TimesWaiting
    <2> QED
      BY <2>2, <2>3 DEF TimesAsked
  <1>6. NoRequests \in Messengers
    BY <1>1, <1>4, FS_EmptySet, MessengersAre
  <1> QED
    BY <1>5, <1>6

(* A thread that ends its request takes one copy of it, and is leaving. *)
LEMMA CompleteRequestTakes ==
  ASSUME NEW m \in Messengers, NEW q \in DOMAIN m.running, NEW n \in CompleteRequest(m, q)
  PROVE  /\ n \in Messengers
         /\ TimesAsked(m, q) > 0
         /\ \A r \in Request : TimesAsked(n, r) = TimesAsked(m, r) - IF r = q THEN 1 ELSE 0
PROOF
  <1> DEFINE p == [pending |-> m.pending, running |-> m.running (-) SetToBag({q}),
                   leaving |-> m.leaving + 1]
  <1>1. MessengerOK(m) /\ IsFiniteSet(DOMAIN m.running) /\ q \in Request
    BY MessengersAre DEF MessengerOK
  <1>2. /\ p.pending = m.pending /\ p.leaving = m.leaving + 1
        /\ p.running = m.running (-) SetToBag({q})
        /\ p = [pending |-> p.pending, running |-> p.running, leaving |-> p.leaving]
    OBVIOUS
  <1>3. CompleteRequest(m, q) = PumpQueues(p)
    BY DEF CompleteRequest
  <1> HIDE DEF p
  <1>4. m.running \in [DOMAIN m.running -> Nat \ {0}] /\ DOMAIN m.running \subseteq Request
    BY <1>1 DEF MessengerOK
  <1>5. /\ DOMAIN p.running = { r \in DOMAIN m.running : r # q \/ m.running[r] > 1 }
        /\ p.running = [r \in DOMAIN p.running |-> p.running[r]]
        /\ \A r \in DOMAIN p.running : p.running[r] = IF r = q THEN m.running[r] - 1 ELSE m.running[r]
    <2> DEFINE B == [r \in DOMAIN m.running |-> IF r \in DOMAIN SetToBag({q}) THEN m.running[r] - SetToBag({q})[r] ELSE m.running[r]]
    <2>1. p.running = [r \in { d \in DOMAIN B : B[d] > 0 } |-> B[r]]
      BY <1>2 DEF (-)
    <2>2. DOMAIN B = DOMAIN m.running
          /\ \A r \in DOMAIN m.running : B[r] = IF r = q THEN m.running[r] - 1 ELSE m.running[r]
      BY DEF SetToBag
    <2> HIDE DEF B
    <2>3. \A r \in DOMAIN m.running : B[r] > 0 <=> r # q \/ m.running[r] > 1
      BY <1>4, <2>2
    <2> QED
      BY <2>1, <2>2, <2>3
  <1>6. /\ DOMAIN p.running \subseteq Request /\ p.running \in [DOMAIN p.running -> Nat \ {0}]
        /\ IsFiniteSet(DOMAIN p.running)
    <2>1. \A r \in DOMAIN p.running : p.running[r] \in Nat \ {0}
      BY <1>4, <1>5
    <2>2. DOMAIN p.running \subseteq DOMAIN m.running
      BY <1>5
    <2>3. IsFiniteSet(DOMAIN p.running)
      BY <1>1, <2>2, FS_Subset
    <2> QED
      BY <1>4, <1>5, <2>1, <2>2, <2>3
  <1>7. ASSUME NEW r \in Request
        PROVE  TimesRunning(p, r) = TimesRunning(m, r) - IF r = q THEN 1 ELSE 0
    <2>1. CASE r = q
      <3>1. m.running[q] \in Nat \ {0}
        BY <1>4
      <3>2. CASE m.running[q] > 1
        BY <1>5, <2>1, <3>1, <3>2 DEF TimesRunning
      <3>3. CASE ~(m.running[q] > 1)
        BY <1>5, <2>1, <3>1, <3>3 DEF TimesRunning
      <3> QED
        BY <3>2, <3>3
    <2>2. CASE r # q
      <3>1. TimesRunning(p, r) = TimesRunning(m, r) /\ TimesRunning(m, r) \in Nat
        BY <1>5, <2>2, TimesFacts DEF TimesRunning
      <3> QED
        BY <2>2, <3>1
    <2> QED
      BY <2>1, <2>2
  <1>8. TotalActive(p) = TotalActive(m) - 1 /\ TotalActive(m) \in Nat
    <2> DEFINE t == <<q, m.running[q]>>
    <2>1. /\ IsFiniteSet(Tasks(m)) /\ TotalActive(m) \in Nat
          /\ \A x : x \in Tasks(m) <=> \E r \in DOMAIN m.running : \E i \in 1..m.running[r] : x = <<r, i>>
      BY <1>1, <1>4, TasksFacts
    <2>2. \A x : x \in Tasks(p) <=> \E r \in DOMAIN p.running : \E i \in 1..p.running[r] : x = <<r, i>>
      BY <1>6, TasksFacts
    <2>3. t \in Tasks(m)
      <3>1. m.running[q] \in 1..m.running[q]
        BY <1>4
      <3> QED
        BY <2>1, <3>1
    <2>4. ASSUME NEW r \in DOMAIN m.running, NEW i \in 1..m.running[r], <<r, i>> # t
          PROVE  r \in DOMAIN p.running /\ i \in 1..p.running[r]
      <3>1. m.running[r] \in Nat \ {0}
        BY <1>4
      <3>2. CASE r = q
        <4>1. i # m.running[r] /\ m.running[r] > 1 /\ i \in 1..(m.running[r] - 1)
          BY <2>4, <3>1, <3>2
        <4> QED
          BY <1>5, <3>2, <4>1
      <3>3. CASE r # q
        BY <1>5, <3>3
      <3> QED
        BY <3>2, <3>3
    <2>5. ASSUME NEW r \in DOMAIN p.running, NEW i \in 1..p.running[r]
          PROVE  r \in DOMAIN m.running /\ i \in 1..m.running[r] /\ <<r, i>> # t
      <3>1. r \in DOMAIN m.running /\ m.running[r] \in Nat \ {0}
        BY <1>4, <1>5
      <3>2. CASE r = q
        <4>1. p.running[r] = m.running[r] - 1
          BY <1>5, <3>2
        <4>2. i \in 1..m.running[r] /\ i # m.running[r]
          BY <3>1, <4>1
        <4> QED
          BY <3>1, <3>2, <4>2
      <3>3. CASE r # q
        <4>1. p.running[r] = m.running[r]
          BY <1>5, <3>3
        <4> QED
          BY <3>1, <3>3, <4>1
      <3> QED
        BY <3>2, <3>3
    <2> HIDE DEF t
    <2>6. Tasks(p) = Tasks(m) \ {t}
      BY <2>1, <2>2, <2>4, <2>5
    <2>7. IsFiniteSet(Tasks(m) \ {t})
          /\ Cardinality(Tasks(m) \ {t}) = Cardinality(Tasks(m)) - 1
      BY <2>1, <2>3, FS_RemoveElement
    <2> QED
      BY <2>1, <2>6, <2>7 DEF TotalActive
  <1>9. p \in Messengers
    <2>1. m.leaving \in Nat /\ TotalActive(m) + m.leaving <= Threads
      BY <1>1 DEF MessengerOK
    <2>2. p.leaving \in Nat /\ TotalActive(p) + p.leaving <= Threads
      BY <1>2, <1>8, <2>1, MessengerAssumption
    <2>3. MessengerOK(p)
      BY <1>1, <1>2, <1>6, <2>2 DEF MessengerOK
    <2> QED
      BY <1>6, <2>3, MessengersAre
  <1>10. n \in Messengers /\ SameRequests(p, n)
    BY <1>3, <1>9, PumpQueuesKeeps DEF Pumped
  <1>11. ASSUME NEW r \in Request
         PROVE  TimesAsked(n, r) = TimesAsked(m, r) - IF r = q THEN 1 ELSE 0
    <2>1. TimesWaiting(p, r) = TimesWaiting(m, r)
      BY <1>2 DEF TimesWaiting
    <2>2. TimesAsked(n, r) = TimesAsked(p, r)
      BY <1>10 DEF SameRequests
    <2>3. TimesRunning(m, r) \in Nat /\ TimesWaiting(m, r) \in Nat
      BY TimesFacts
    <2>4. CASE r = q
      BY <1>7, <2>1, <2>2, <2>3, <2>4 DEF TimesAsked
    <2>5. CASE r # q
      BY <1>7, <2>1, <2>2, <2>3, <2>5 DEF TimesAsked
    <2> QED
      BY <2>4, <2>5
  <1>12. TimesAsked(m, q) > 0
    <2>1. TimesRunning(m, q) > 0 /\ TimesRunning(m, q) \in Nat /\ TimesWaiting(m, q) \in Nat
      BY <1>1, TimesFacts
    <2> QED
      BY <2>1 DEF TimesAsked
  <1> QED
    BY <1>10, <1>11, <1>12

LEMMA ThreadIdleKeeps ==
  ASSUME NEW m \in Messengers, m.leaving > 0
  PROVE  /\ ThreadIdle(m) \in Messengers
         /\ \A r \in Request : TimesAsked(ThreadIdle(m), r) = TimesAsked(m, r)
PROOF
  <1> DEFINE n == ThreadIdle(m)
  <1>1. MessengerOK(m) /\ IsFiniteSet(DOMAIN m.running)
    BY MessengersAre
  <1>2. /\ n.pending = m.pending /\ n.running = m.running /\ n.leaving = m.leaving - 1
        /\ n = [pending |-> n.pending, running |-> n.running, leaving |-> n.leaving]
    <2>1. m = [pending |-> m.pending, running |-> m.running, leaving |-> m.leaving]
      BY <1>1 DEF MessengerOK
    <2> QED
      BY <2>1 DEF ThreadIdle
  <1> HIDE DEF n
  <1>3. Tasks(n) = Tasks(m) /\ TotalActive(m) \in Nat
    <2>1. Tasks(n) = Tasks(m)
      BY <1>2 DEF Tasks
    <2>2. TotalActive(m) \in Nat
      BY <1>1, TasksFacts DEF MessengerOK
    <2> QED
      BY <2>1, <2>2
  <1>4. n.leaving \in Nat /\ TotalActive(n) + n.leaving <= Threads
    BY <1>1, <1>2, <1>3, MessengerAssumption DEF MessengerOK, TotalActive
  <1>5. n \in Messengers
    BY <1>1, <1>2, <1>4, MessengersAre DEF MessengerOK
  <1>6. \A r \in Request : TimesAsked(n, r) = TimesAsked(m, r)
    BY <1>2 DEF TimesAsked, TimesRunning, TimesWaiting
  <1> QED
    BY <1>5, <1>6 DEF n

-----------------------------------------------------------------------------
(* What a node knows of another miner. *)

Heights == { Height(b) : b \in Block }

LEMMA HeightsFacts ==
  /\ Heights \subseteq Nat /\ 0 \in Heights
  /\ \A b \in Block : Height(b) \in Heights
  /\ \A h \in Heights, k \in Nat : k <= h => k \in Heights
PROOF
  <1>1. \A b \in Block : Height(b) \in Nat /\ Height(b) \in Heights
    BY HeightFacts DEF Heights
  <1>2. 0 \in Heights
    BY <1>1, HeightFacts, TreeAssumption
  <1>3. ASSUME NEW h \in Heights, NEW k \in Nat, k <= h PROVE k \in Heights
    <2>1. PICK b \in Block : Height(b) = h
      BY DEF Heights
    <2>2. k \in 0..Height(b)
      BY <1>1, <1>3, <2>1
    <2>3. PICK a \in Path(b) : Height(a) = k
      BY <2>2, EveryHeight
    <2> QED
      BY <1>1, <2>3, HeightFacts
  <1> QED
    BY <1>1, <1>2, <1>3 DEF Heights

LEMMA UnknownKnown == Unknown \in RemoteState /\ Unknown.state = "OFFLINE"
BY HeightsFacts DEF Unknown, RemoteState, MinerState, Heights

(* update leaves a miner online or not, and waits only for what is asked. *)
LEMMA UpdatedFacts ==
  ASSUME NEW r \in RemoteState, NEW limit \in Nat
  PROVE  LET s == Updated(r, limit)
         IN  /\ s \in RemoteState /\ s.height = r.height
             /\ IsOnline(s) <=> IsOnline(r)
             /\ r.state = "OFFLINE" => s.state = "WAITING_FOR_INFO"
             /\ r.state = "ONLINE" => s.state \in {"ONLINE", "WAITING_FOR_HEADERS"}
             /\ r.state \notin {"OFFLINE", "ONLINE"} => s = r
PROOF
  <1> DEFINE s == Updated(r, limit)
  <1>1. CASE r.state = "OFFLINE"
    <2>1. s = [r EXCEPT !.state = "WAITING_FOR_INFO"]
      BY <1>1 DEF Updated
    <2> QED
      BY <1>1, <2>1 DEF RemoteState, MinerState, IsOnline
  <1>2. CASE r.state = "ONLINE" /\ r.height < limit
    <2>1. s = [r EXCEPT !.state = "WAITING_FOR_HEADERS"]
      BY <1>2 DEF Updated
    <2> QED
      BY <1>2, <2>1 DEF RemoteState, MinerState, IsOnline
  <1>3. CASE r.state # "OFFLINE" /\ ~(r.state = "ONLINE" /\ r.height < limit)
    <2>1. s = r
      BY <1>3 DEF Updated
    <2> QED
      BY <1>3, <2>1
  <1> QED
    BY <1>1, <1>2, <1>3

(* What reading headers makes of a miner, its tag and the tree. *)
Readings(T) ==
  { s \in [remote : RemoteState, row : Block \cup {None}, tree : TreeType, going : Going] :
      /\ WellFormed(s.tree) /\ T.nodes \subseteq s.tree.nodes /\ s.tree.held = T.held
      /\ s.row \in s.tree.nodes \cup {None}
      /\ \A b \in s.tree.missing : \E a \in Path(b) : a \in T.missing }

LEMMA ProcessHeaderFits ==
  ASSUME NEW T, NEW s \in Readings(T), NEW b \in Block \cup {Foreign}
  PROVE  ProcessHeader(s, b) \in Readings(T)
PROOF
  <1> DEFINE r == s.remote
  <1> DEFINE U == s.tree
  <1>1. /\ r \in RemoteState /\ s.row \in Block \cup {None} /\ s.going \in Going
        /\ WellFormed(U) /\ T.nodes \subseteq U.nodes /\ U.held = T.held /\ U \in TreeType
        /\ s.row \in U.nodes \cup {None}
        /\ \A c \in U.missing : \E a \in Path(c) : a \in T.missing
    BY DEF Readings
  <1>2. ASSUME NEW q \in RemoteState, NEW e \in Going PROVE Reading(q, s.row, U, e) \in Readings(T)
    BY <1>1, <1>2 DEF Readings, Reading
  <1> HIDE DEF r, U
  <1>3. CASE s.going # "on"
    BY <1>3 DEF ProcessHeader
  <1>4. CASE s.going = "on" /\ b = Foreign
    <2>1. SetError(r) \in RemoteState
      BY <1>1 DEF SetError, RemoteState, MinerState
    <2> QED
      BY <1>2, <1>4, <2>1 DEF ProcessHeader, Going, r, U
  <1>5. CASE s.going = "on" /\ b # Foreign /\ Appends(U, b)
    <2> DEFINE q == Connected(r, b)
    <2> DEFINE W == AffirmHeader(U, b)
    <2>1. ProcessHeader(s, b) = Reading(q, b, W, "on")
      BY <1>5 DEF ProcessHeader, r, U, Appends, ReadsAbsentParent
    <2>2. b \in Block /\ Height(b) \in Heights
      BY <1>5, HeightsFacts
    <2>3. q \in RemoteState
      BY <1>1, <2>2 DEF RemoteState, Heights, Connected
    <2>4. Genesis \in U.nodes
      BY <1>1 DEF WellFormed, CompleteExact
    <2>5. b \in U.nodes \/ (b # Genesis /\ Parent(b) \in U.nodes)
      BY <1>5, <2>4 DEF Appends
    <2>6. WellFormed(W) /\ W.nodes = U.nodes \cup {b} /\ W.held = U.held
      BY <1>1, <2>2, <2>5, AffirmHeaderWellFormed
    <2>7. ASSUME NEW c \in W.missing PROVE \E a \in Path(c) : a \in T.missing
      <3>1. CASE c \in U.missing
        BY <1>1, <3>1
      <3>2. CASE c \notin U.missing
        <4>1. c = b /\ b \notin U.nodes /\ Parent(b) \in U.missing
          BY <2>7, <3>2 DEF AffirmHeader, InsertHeader, Inherits
        <4>2. b # Genesis
          BY <2>4, <4>1
        <4>3. Path(Parent(b)) \subseteq Path(b)
          BY <2>2, <4>2, ParentFacts
        <4> QED
          BY <1>1, <4>1, <4>3
      <3> QED
        BY <3>1, <3>2
    <2> HIDE DEF q, W
    <2>8. W \in TreeType
      BY <2>6 DEF WellFormed
    <2> QED
      BY <1>1, <2>1, <2>2, <2>3, <2>6, <2>7, <2>8 DEF Readings, Reading, Going
  <1>6. CASE s.going = "on" /\ b # Foreign /\ ~Appends(U, b) /\ ReadsAbsentParent(U, b)
    <2>1. ProcessHeader(s, b) = Reading(r, s.row, U, "aborted")
      BY <1>6 DEF ProcessHeader, r, U
    <2> QED
      BY <1>1, <1>2, <2>1 DEF Going
  <1>7. CASE s.going = "on" /\ b # Foreign /\ ~Appends(U, b) /\ ~ReadsAbsentParent(U, b)
    <2>1. ProcessHeader(s, b) = Reading(r, s.row, U, "over")
      BY <1>7 DEF ProcessHeader, r, U
    <2> QED
      BY <1>1, <1>2, <2>1 DEF Going
  <1> QED
    BY <1>3, <1>4, <1>5, <1>6, <1>7

(* The headers are read one by one. *)
LEMMA HeadersReadBy ==
  ASSUME NEW T, WellFormed(T), NEW r \in RemoteState, NEW row \in T.nodes \cup {None},
         NEW headers \in Seq(Block \cup {Foreign})
  PROVE  \E f \in [0..Len(headers) -> Readings(T)] :
            /\ f[0] = Reading(r, row, T, "on") /\ ProcessHeaders(r, row, T, headers) = f[Len(headers)]
            /\ \A i \in 1..Len(headers) : f[i] = ProcessHeader(f[i - 1], headers[i])
PROOF
  <1> DEFINE n == Len(headers)
  <1> DEFINE V == Readings(T)
  <1> DEFINE start == Reading(r, row, T, "on")
  <1> DEFINE step == [p \in V \X (1..n) |-> ProcessHeader(p[1], headers[p[2]])]
  <1>1. n \in Nat /\ \A i \in 1..n : headers[i] \in Block \cup {Foreign}
    OBVIOUS
  <1>2. start \in V
    <2>1. T \in TreeType /\ row \in Block \cup {None}
      BY DEF WellFormed, TreeType
    <2>2. \A b \in T.missing : b \in Path(b)
      BY <2>1, TreeAssumption DEF TreeType
    <2> QED
      BY <2>1, <2>2 DEF Readings, Reading, Going
  <1>3. ASSUME NEW s \in V, NEW i \in 1..n PROVE ProcessHeader(s, headers[i]) \in V
    BY <1>1, ProcessHeaderFits
  <1> HIDE DEF n, V, start
  <1>4. step \in [V \X (1..n) -> V]
    BY <1>3
  <1>5. \A s \in V, i \in 1..n : step[<<s, i>>] = ProcessHeader(s, headers[i])
    OBVIOUS
  <1> HIDE DEF step
  <1>6. PICK g \in [0..n -> V] : Iterates(g, start, step, n)
    BY <1>1, <1>2, <1>4, IterationExists
  <1> DEFINE Follows(h) ==
        h = [i \in 0..n |-> IF i = 0 THEN start ELSE ProcessHeader(h[i - 1], headers[i])]
  <1>7. Follows(g)
    <2>1. g = [i \in 0..n |-> IF i = 0 THEN start ELSE step[<<g[i - 1], i>>]]
      BY <1>6 DEF Iterates
    <2>2. ASSUME NEW i \in 0..n, i # 0 PROVE step[<<g[i - 1], i>>] = ProcessHeader(g[i - 1], headers[i])
      <3>1. i \in 1..n /\ i - 1 \in 0..n
        BY <1>1, <2>2
      <3> QED
        BY <1>5, <1>6, <3>1
    <2> QED
      BY <2>1, <2>2
  <1> DEFINE f == CHOOSE h : Follows(h)
  <1>8. Follows(f)
    <2> HIDE DEF Follows
    <2> QED
      BY <1>7
  <1>9. ProcessHeaders(r, row, T, headers) = f[n]
    BY DEF ProcessHeaders, n, start
  <1> HIDE DEF f
  <1>10. f = [i \in 0..n |-> f[i]] /\ f[0] = start
    BY <1>1, <1>8
  <1>11. \A i \in 1..n : f[i] = ProcessHeader(f[i - 1], headers[i])
    <2>1. \A i \in 1..n : i \in 0..n /\ i # 0
      BY <1>1
    <2> QED
      BY <1>8, <2>1
  <1> DEFINE Good == { i \in 0..n : f[i] \in V }
  <1>12. \A i \in 0..n : i \in Good
    <2>1. 0 \in Good
      BY <1>1, <1>2, <1>10
    <2>2. ASSUME NEW i \in 1..n, i - 1 \in Good PROVE i \in Good
      <3>1. i \in 0..n /\ f[i - 1] \in V
        BY <1>1, <2>2
      <3> QED
        BY <1>3, <1>11, <3>1
    <2> HIDE DEF Good
    <2> QED
      BY <1>1, <2>1, <2>2, UpTo
  <1>13. f \in [0..n -> V]
    BY <1>10, <1>12
  <1> QED
    BY <1>9, <1>10, <1>11, <1>13 DEF V, n, start

LEMMA ProcessHeadersFits ==
  ASSUME NEW T, WellFormed(T), NEW r \in RemoteState, NEW row \in T.nodes \cup {None},
         NEW headers \in Seq(Block \cup {Foreign})
  PROVE  ProcessHeaders(r, row, T, headers) \in Readings(T)
PROOF
  <1>1. Len(headers) \in 0..Len(headers)
    OBVIOUS
  <1> QED
    BY <1>1, HeadersReadBy

LEMMA HeadersAnsweredFits ==
  ASSUME NEW T, WellFormed(T), NEW r \in RemoteState, NEW row \in T.nodes \cup {None},
         NEW headers \in Seq(Block \cup {Foreign})
  PROVE  /\ HeadersAnswered(r, row, T, headers) \in Readings(T)
         /\ HeadersAnswered(r, row, T, headers).remote.state =
              IF r.state = "WAITING_FOR_HEADERS" THEN "ONLINE" ELSE r.state
PROOF
  <1>1. CASE r.state # "WAITING_FOR_HEADERS"
    <2>1. HeadersAnswered(r, row, T, headers) = Reading(r, row, T, "over")
      BY <1>1 DEF HeadersAnswered
    <2>2. T \in TreeType /\ row \in Block \cup {None}
      BY DEF WellFormed, TreeType
    <2>3. \A b \in T.missing : b \in Path(b)
      BY <2>2, TreeAssumption DEF TreeType
    <2> QED
      BY <1>1, <2>1, <2>2, <2>3 DEF Readings, Reading, Going
  <1>2. CASE r.state = "WAITING_FOR_HEADERS"
    <2> DEFINE s == ProcessHeaders(r, row, T, headers)
    <2>1. s \in Readings(T)
      BY ProcessHeadersFits
    <2>2. HeadersAnswered(r, row, T, headers) = [s EXCEPT !.remote.state = "ONLINE"]
      BY <1>2 DEF HeadersAnswered
    <2> HIDE DEF s
    <2> DEFINE q == [s.remote EXCEPT !.state = "ONLINE"]
    <2>3. q \in RemoteState /\ q.state = "ONLINE"
      BY <2>1 DEF Readings, RemoteState, MinerState
    <2>4. s \in [remote : RemoteState, row : Block \cup {None}, tree : TreeType, going : Going]
      BY <2>1 DEF Readings
    <2>5. [s EXCEPT !.remote.state = "ONLINE"] = [s EXCEPT !.remote = q]
      OBVIOUS
    <2> HIDE DEF q
    <2>6. [s EXCEPT !.remote = q] \in Readings(T) /\ [s EXCEPT !.remote = q].remote = q
      BY <2>1, <2>3, <2>4 DEF Readings
    <2> QED
      BY <1>2, <2>2, <2>3, <2>5, <2>6
  <1> QED
    BY <1>1, <1>2

LEMMA InfoAnsweredFits ==
  ASSUME NEW r \in RemoteState, NEW row \in Block \cup {None}, NEW ours \in BOOLEAN
  PROVE  /\ InfoAnswered(r, row, ours) \in RemoteState
         /\ IF r.state = "WAITING_FOR_INFO" THEN InfoAnswered(r, row, ours).state \in {"ERROR", "ONLINE"}
            ELSE InfoAnswered(r, row, ours) = r
PROOF
  <1> DEFINE named == IF r.named THEN r ELSE [r EXCEPT !.named = TRUE, !.attached = TRUE]
  <1> DEFINE at == Cursor(named, row)
  <1> DEFINE q == [named EXCEPT !.state = "ONLINE", !.height = IF at = None THEN @ ELSE Height(at)]
  <1>1. /\ r.state \in MinerState /\ r.height \in Heights
        /\ r.named \in BOOLEAN /\ r.attached \in BOOLEAN
    BY DEF RemoteState, Heights
  <1>2. named \in RemoteState
    BY <1>1 DEF RemoteState
  <1>3. at \in Block \cup {None}
    BY <1>2 DEF Cursor
  <1>4. CASE r.state # "WAITING_FOR_INFO"
    BY <1>4 DEF InfoAnswered
  <1>5. CASE r.state = "WAITING_FOR_INFO" /\ ~ours
    <2>1. InfoAnswered(r, row, ours) = SetError(r)
      BY <1>5 DEF InfoAnswered
    <2> QED
      BY <1>5, <2>1 DEF SetError, RemoteState, MinerState
  <1>6. CASE r.state = "WAITING_FOR_INFO" /\ ours
    <2>1. InfoAnswered(r, row, ours) = q
      BY <1>6 DEF InfoAnswered
    <2> HIDE DEF named, at
    <2>2. at # None => Height(at) \in { Height(b) : b \in Block }
      BY <1>3
    <2>3. q \in RemoteState /\ q.state = "ONLINE"
      BY <1>2, <2>2 DEF RemoteState, MinerState
    <2> QED
      BY <1>6, <2>1, <2>3
  <1> QED
    BY <1>4, <1>5, <1>6

(* What another miner answers to a request for headers. *)
LEMMA HeadersFromFits ==
  ASSUME NEW tip \in Block, NEW h \in Heights
  PROVE  HeadersFrom(tip, h) \in Seq(Block)
PROOF
  <1> DEFINE top == Height(tip)
  <1> DEFINE base == Min({h, top})
  <1> DEFINE last == Min({base + Batch - 1, top})
  <1> DEFINE at(k) == CHOOSE b \in Path(tip) : Height(b) = k
  <1>1. h \in Nat /\ top \in Nat
    BY HeightFacts, HeightsFacts
  <1> HIDE DEF top
  <1>2. base \in Nat /\ base <= top
    BY <1>1, MinOfTwo
  <1> HIDE DEF base
  <1>3. last \in Nat /\ base <= last /\ last <= top
    <2>1. base + Batch - 1 \in Nat /\ base <= base + Batch - 1
      BY <1>2, RemoteMinerAssumption
    <2> DEFINE next == base + Batch - 1
    <2> HIDE DEF next
    <2>2. Min({next, top}) \in {next, top} /\ Min({next, top}) <= next /\ Min({next, top}) <= top
      BY <1>1, <2>1, MinOfTwo DEF next
    <2> QED
      BY <1>1, <1>2, <2>1, <2>2 DEF next
  <1> HIDE DEF last
  <1>4. ASSUME NEW k \in 0..top PROVE at(k) \in Block
    <2>1. \E b \in Path(tip) : Height(b) = k
      BY EveryHeight DEF top
    <2>2. at(k) \in Path(tip)
      BY <2>1
    <2> QED
      BY <2>2, HeightFacts
  <1> DEFINE n == last - base + 1
  <1>5. n \in Nat /\ \A i \in 1..n : base + i - 1 \in 0..top
    BY <1>1, <1>2, <1>3
  <1>6. HeadersFrom(tip, h) = [i \in 1..n |-> at(base + i - 1)]
    BY DEF HeadersFrom, base, last, top
  <1> HIDE DEF at, n
  <1>7. [i \in 1..n |-> at(base + i - 1)] \in [1..n -> Block]
    BY <1>4, <1>5
  <1> QED
    BY <1>5, <1>6, <1>7

-----------------------------------------------------------------------------
(* The headers of a branch. *)

(* The branch tip has a block at height h that the tree T knows. *)
Reaches(h, tip, T) == \E a \in Path(tip) \cap T.nodes : Height(a) = h

(* Headers of the branch tip, each above the one before, the first of them known. *)
Joined(headers, tip, T) ==
  \A i \in DOMAIN headers :
    IF tip = Foreign THEN headers[i] = Foreign
    ELSE headers[i] \in Path(tip) /\ IF i = 1 THEN headers[1] \in T.nodes
                                     ELSE Parent(headers[i]) = headers[i - 1]

(* A miner that has been followed along the branch tip, if that is one. *)
Along(tip, r, row, T) ==
  tip # Foreign => row \in Path(tip) \cup {None} /\ Reaches(r.height, tip, T)

LEMMA SameHeight ==
  ASSUME NEW tip \in Block, NEW a \in Path(tip), NEW b \in Path(tip), Height(a) = Height(b)
  PROVE  a = b
PROOF
  <1>1. a \in Block /\ b \in Block
    BY HeightFacts
  <1>2. ASSUME NEW c \in Block, NEW d \in Path(c), Height(c) = Height(d) PROVE c = d
    <2>1. CASE c = Genesis
      BY <2>1, TreeAssumption
    <2>2. CASE c # Genesis /\ c # d
      <3>1. Path(c) = Path(Parent(c)) \cup {c} /\ Parent(c) \in Block
        BY <2>2, TreeAssumption
      <3>2. d \in Path(Parent(c))
        BY <2>2, <3>1
      <3>3. d \in Block /\ Height(d) <= Height(Parent(c)) /\ Height(c) = Height(Parent(c)) + 1
        BY <2>2, <3>1, <3>2, HeightFacts
      <3>4. Height(d) \in Nat /\ Height(Parent(c)) \in Nat
        BY <3>1, <3>3, HeightFacts
      <3> QED
        BY <1>2, <3>3, <3>4
    <2> QED
      BY <2>1, <2>2
  <1>3. a \in Path(b) \/ b \in Path(a)
    BY TreeAssumption
  <1> QED
    BY <1>1, <1>2, <1>3

(* What another miner answers starts where it was asked to. *)
LEMMA HeadersFromJoined ==
  ASSUME NEW tip \in Block, NEW T, NEW h \in Heights, Reaches(h, tip, T)
  PROVE  Joined(HeadersFrom(tip, h), tip, T)
PROOF
  <1> DEFINE top == Height(tip)
  <1> DEFINE base == Min({h, top})
  <1> DEFINE last == Min({base + Batch - 1, top})
  <1> DEFINE at(k) == CHOOSE b \in Path(tip) : Height(b) = k
  <1>1. h \in Nat /\ top \in Nat /\ Foreign # tip
    BY HeightFacts, HeightsFacts, RemoteMinerAssumption
  <1>2. PICK a \in Path(tip) : a \in T.nodes /\ Height(a) = h
    BY DEF Reaches
  <1>3. h <= top
    BY <1>2, HeightFacts
  <1> HIDE DEF top
  <1>4. base = h
    <2>1. base \in {h, top} /\ base <= h /\ base <= top
      BY <1>1, MinOfTwo
    <2> HIDE DEF base
    <2> QED
      BY <1>1, <1>3, <2>1
  <1>5. last \in Nat /\ last <= top
    <2>1. base + Batch - 1 \in Nat
      BY <1>1, <1>4, RemoteMinerAssumption
    <2> DEFINE next == base + Batch - 1
    <2> HIDE DEF next
    <2>2. Min({next, top}) \in {next, top} /\ Min({next, top}) <= top
      BY <1>1, <2>1, MinOfTwo DEF next
    <2> QED
      BY <1>1, <2>1, <2>2 DEF next
  <1> HIDE DEF last, base
  <1>6. ASSUME NEW k \in 0..top PROVE at(k) \in Path(tip) /\ Height(at(k)) = k
    <2>1. \E b \in Path(tip) : Height(b) = k
      BY EveryHeight DEF top
    <2> QED
      BY <2>1
  <1> DEFINE n == last - base + 1
  <1> DEFINE hs == [i \in 1..n |-> at(base + i - 1)]
  <1>7. HeadersFrom(tip, h) = hs
    BY DEF HeadersFrom, base, last, top
  <1>8. \A i \in 1..n : h + i - 1 \in 0..top /\ (i # 1 => h + i - 2 \in 0..top)
    BY <1>1, <1>4, <1>5
  <1>9. DOMAIN hs = 1..n /\ \A i \in 1..n : hs[i] = at(h + i - 1)
    BY <1>4
  <1> HIDE DEF at, hs
  <1>10. ASSUME NEW i \in 1..n PROVE hs[i] \in Path(tip) /\ Height(hs[i]) = h + i - 1
    BY <1>6, <1>8, <1>9
  <1>11. ASSUME NEW i \in 1..n, i = 1 PROVE hs[i] \in T.nodes
    <2>1. Height(hs[i]) = Height(a) /\ hs[i] \in Path(tip)
      BY <1>1, <1>2, <1>10, <1>11
    <2> QED
      BY <1>2, <2>1, SameHeight
  <1>12. ASSUME NEW i \in 1..n, i # 1 PROVE Parent(hs[i]) = hs[i - 1]
    <2>1. i - 1 \in 1..n /\ h + i - 1 # 0
      <3>1. last - base + 1 \in Int
        BY <1>1, <1>4, <1>5
      <3> HIDE DEF n
      <3>2. n \in Int
        BY <3>1 DEF n
      <3> QED
        BY <1>1, <1>12, <3>2
    <2>2. /\ hs[i] \in Path(tip) /\ Height(hs[i]) = h + i - 1
          /\ hs[i - 1] \in Path(tip) /\ Height(hs[i - 1]) = h + (i - 1) - 1
      BY <1>10, <2>1
    <2>3. hs[i] \in Block
      BY <2>2, HeightFacts
    <2>4. hs[i] # Genesis /\ Parent(hs[i]) \in Block /\ Height(hs[i]) = Height(Parent(hs[i])) + 1
      BY <2>1, <2>2, <2>3, HeightFacts
    <2>5. Parent(hs[i]) \in Path(tip)
      <3>1. Parent(hs[i]) \in Path(hs[i]) /\ Path(hs[i]) \subseteq Path(tip)
        BY <2>2, <2>3, <2>4, TreeAssumption
      <3> QED
        BY <3>1
    <2>6. Height(Parent(hs[i])) \in Nat
      BY <2>4, HeightFacts
    <2>7. Height(Parent(hs[i])) = Height(hs[i - 1])
      BY <1>1, <2>2, <2>4, <2>6
    <2> QED
      BY <2>2, <2>5, <2>7, SameHeight
  <1> QED
    BY <1>1, <1>7, <1>9, <1>10, <1>11, <1>12 DEF Joined

(* They still do when the branch has grown, and more is known. *)
LEMMA JoinedStill ==
  ASSUME NEW headers, NEW tip, NEW T, NEW next, NEW U, Joined(headers, tip, T),
         T.nodes \subseteq U.nodes,
         next = tip \/ (next # Foreign /\ tip # Foreign /\ Path(tip) \subseteq Path(next))
  PROVE  Joined(headers, next, U)
BY DEF Joined

LEMMA ReachesStill ==
  ASSUME NEW h, NEW tip, NEW T, NEW next, NEW U, Reaches(h, tip, T),
         T.nodes \subseteq U.nodes, Path(tip) \subseteq Path(next)
  PROVE  Reaches(h, next, U)
BY DEF Reaches

LEMMA RootReached ==
  ASSUME NEW tip \in Block, NEW T, WellFormed(T)
  PROVE  Reaches(0, tip, T)
PROOF
  <1>1. Genesis \in T.nodes
    BY DEF WellFormed, CompleteExact
  <1>2. Genesis \in Path(tip) /\ Height(Genesis) = 0
    BY TreeAssumption, HeightFacts
  <1> QED
    BY <1>1, <1>2 DEF Reaches

(* A header whose parent is known is not the end of the process. *)
LEMMA ProcessHeaderJoined ==
  ASSUME NEW T, NEW s \in Readings(T), NEW tip \in Block \cup {Foreign}, NEW b,
         s.going # "aborted", Along(tip, s.remote, s.row, s.tree),
         IF tip = Foreign THEN b = Foreign
         ELSE b \in Path(tip) /\ (s.going = "on" => b \in s.tree.nodes \/ Parent(b) \in s.tree.nodes)
  PROVE  LET t == ProcessHeader(s, b)
         IN  /\ t.going # "aborted" /\ Along(tip, t.remote, t.row, t.tree)
             /\ tip # Foreign /\ t.going = "on" => b \in t.tree.nodes
PROOF
  <1> DEFINE t == ProcessHeader(s, b)
  <1>1. CASE s.going # "on"
    BY <1>1 DEF ProcessHeader
  <1>2. CASE s.going = "on" /\ tip = Foreign
    <2>1. t = Reading(SetError(s.remote), s.row, s.tree, "over")
      BY <1>2 DEF ProcessHeader
    <2> QED
      BY <1>2, <2>1 DEF Reading, Along
  <1>3. CASE s.going = "on" /\ tip # Foreign
    <2>1. b \in Block /\ b # Foreign
      BY <1>3, HeightFacts, RemoteMinerAssumption
    <2>2. ~ReadsAbsentParent(s.tree, b)
      BY <1>3 DEF ReadsAbsentParent
    <2>3. CASE Appends(s.tree, b)
      <3>1. t = Reading(Connected(s.remote, b), b, AffirmHeader(s.tree, b), "on")
        BY <1>3, <2>1, <2>2, <2>3 DEF ProcessHeader
      <3>2. WellFormed(s.tree) /\ s.remote \in RemoteState
        BY DEF Readings
      <3>3. Genesis \in s.tree.nodes
        BY <3>2 DEF WellFormed, CompleteExact
      <3>4. b \in s.tree.nodes \/ (b # Genesis /\ Parent(b) \in s.tree.nodes)
        BY <2>3, <3>3 DEF Appends
      <3>5. AffirmHeader(s.tree, b).nodes = s.tree.nodes \cup {b}
        BY <2>1, <3>2, <3>4, AffirmHeaderWellFormed
      <3>6. Connected(s.remote, b).height = Height(b)
        BY <3>2 DEF Connected, RemoteState
      <3>7. t.tree = AffirmHeader(s.tree, b) /\ t.row = b /\ t.going = "on" /\ t.remote.height = Height(b)
        BY <3>1, <3>6 DEF Reading
      <3> HIDE DEF t
      <3>8. b \in t.tree.nodes /\ b \in Path(tip)
        BY <1>3, <3>5, <3>7
      <3>9. Reaches(t.remote.height, tip, t.tree)
        BY <3>7, <3>8 DEF Reaches
      <3> QED
        BY <3>7, <3>8, <3>9 DEF Along, t
    <2>4. CASE ~Appends(s.tree, b)
      <3>1. t = Reading(s.remote, s.row, s.tree, "over")
        BY <1>3, <2>1, <2>2, <2>4 DEF ProcessHeader
      <3> QED
        BY <3>1 DEF Reading, Along
    <2> QED
      BY <2>3, <2>4
  <1> QED
    BY <1>1, <1>2, <1>3

(* Headers that are joined to what is known are read without an end of the process. *)
LEMMA HeadersAnsweredJoined ==
  ASSUME NEW T, WellFormed(T), NEW r \in RemoteState, NEW row \in T.nodes \cup {None},
         NEW headers \in Seq(Block \cup {Foreign}), NEW tip \in Block \cup {Foreign},
         Joined(headers, tip, T), Along(tip, r, row, T)
  PROVE  LET s == HeadersAnswered(r, row, T, headers)
         IN  s.going # "aborted" /\ Along(tip, s.remote, s.row, s.tree)
PROOF
  <1>1. CASE r.state # "WAITING_FOR_HEADERS"
    <2>1. HeadersAnswered(r, row, T, headers) = Reading(r, row, T, "over")
      BY <1>1 DEF HeadersAnswered
    <2> QED
      BY <2>1 DEF Reading, Along
  <1>2. CASE r.state = "WAITING_FOR_HEADERS"
    <2> DEFINE n == Len(headers)
    <2>1. n \in Nat /\ DOMAIN headers = 1..n
      OBVIOUS
    <2>2. PICK f \in [0..n -> Readings(T)] :
            /\ f[0] = Reading(r, row, T, "on") /\ ProcessHeaders(r, row, T, headers) = f[n]
            /\ \A i \in 1..n : f[i] = ProcessHeader(f[i - 1], headers[i])
      <3>1. \E f \in [0..Len(headers) -> Readings(T)] :
               /\ f[0] = Reading(r, row, T, "on")
               /\ ProcessHeaders(r, row, T, headers) = f[Len(headers)]
               /\ \A i \in 1..Len(headers) : f[i] = ProcessHeader(f[i - 1], headers[i])
        BY HeadersReadBy
      <3> QED
        BY <3>1
    <2> HIDE DEF n
    <2> DEFINE Fine(i) == /\ f[i].going # "aborted" /\ Along(tip, f[i].remote, f[i].row, f[i].tree)
                          /\ tip # Foreign /\ f[i].going = "on" /\ i # 0 => headers[i] \in f[i].tree.nodes
    <2> DEFINE Good == { i \in 0..n : Fine(i) }
    <2>3. 0 \in Good
      BY <2>1, <2>2 DEF Reading, Along
    <2>4. ASSUME NEW i \in 1..n, i - 1 \in Good PROVE i \in Good
      <3>1. /\ i \in 0..n /\ i # 0 /\ i - 1 \in 0..n /\ f[i - 1] \in Readings(T)
            /\ f[i] = ProcessHeader(f[i - 1], headers[i]) /\ i \in DOMAIN headers
        BY <2>1, <2>2
      <3>2. Fine(i - 1)
        BY <2>4
      <3> DEFINE s == f[i - 1]
      <3> DEFINE b == headers[i]
      <3>3. IF tip = Foreign THEN b = Foreign
            ELSE b \in Path(tip) /\ (s.going = "on" => b \in s.tree.nodes \/ Parent(b) \in s.tree.nodes)
        <4>1. CASE tip = Foreign
          BY <3>1, <4>1 DEF Joined
        <4>2. CASE tip # Foreign /\ i = 1
          <5>1. b \in Path(tip) /\ b \in T.nodes
            BY <3>1, <4>2 DEF Joined
          <5>2. T.nodes \subseteq s.tree.nodes
            BY <3>1 DEF Readings
          <5> QED
            BY <4>2, <5>1, <5>2
        <4>3. CASE tip # Foreign /\ i # 1
          <5>1. b \in Path(tip) /\ Parent(b) = headers[i - 1]
            BY <3>1, <4>3 DEF Joined
          <5>2. i - 1 # 0
            BY <4>3
          <5>3. s.going = "on" => headers[i - 1] \in s.tree.nodes
            BY <3>2, <4>3, <5>2
          <5> QED
            BY <4>3, <5>1, <5>3
        <4> QED
          BY <4>1, <4>2, <4>3
      <3>4. s \in Readings(T) /\ s.going # "aborted" /\ Along(tip, s.remote, s.row, s.tree)
        BY <3>1, <3>2
      <3> HIDE DEF s, b, Fine
      <3>5. LET t == ProcessHeader(s, b)
            IN  /\ t.going # "aborted" /\ Along(tip, t.remote, t.row, t.tree)
                /\ tip # Foreign /\ t.going = "on" => b \in t.tree.nodes
        BY <3>3, <3>4, ProcessHeaderJoined
      <3>6. Fine(i)
        BY <3>1, <3>5 DEF Fine, s, b
      <3> QED
        BY <3>1, <3>6
    <2>5. Fine(n)
      <3>1. n \in 0..n
        BY <2>1
      <3> HIDE DEF Good
      <3>2. n \in Good
        BY <2>1, <2>3, <2>4, <3>1, UpTo
      <3> QED
        BY <3>2 DEF Good
    <2> DEFINE p == f[n]
    <2>6. HeadersAnswered(r, row, T, headers) = [p EXCEPT !.remote.state = "ONLINE"]
      BY <1>2, <2>2 DEF HeadersAnswered
    <2>7. /\ p \in [remote : RemoteState, row : Block \cup {None}, tree : TreeType, going : Going]
          /\ p.going # "aborted" /\ Along(tip, p.remote, p.row, p.tree)
      BY <2>1, <2>2, <2>5 DEF Readings
    <2> HIDE DEF p
    <2> DEFINE q == [p.remote EXCEPT !.state = "ONLINE"]
    <2> DEFINE s == [p EXCEPT !.remote = q]
    <2>8. q.height = p.remote.height /\ HeadersAnswered(r, row, T, headers) = s
      BY <2>6, <2>7 DEF RemoteState
    <2> HIDE DEF q
    <2>9. s.remote = q /\ s.row = p.row /\ s.tree = p.tree /\ s.going = p.going
      BY <2>7
    <2> HIDE DEF s
    <2> QED
      BY <2>7, <2>8, <2>9 DEF Along
  <1> QED
    BY <1>1, <1>2

-----------------------------------------------------------------------------
(* What answers make of a node. *)

NodeRecords ==
  [remote : UNION { [D -> RemoteState] : D \in SUBSET Url }, completed : SUBSET Url,
   tree : TreeType, tag : [Url -> Block \cup {None}],
   pool : [search : UNION { [D -> SearchState] : D \in SUBSET Block }, waiting : SUBSET Block],
   searching : BOOLEAN]

(* A node whose parts fit each other. *)
NodeOK(n) ==
  /\ Seeds \subseteq n.completed /\ DOMAIN n.remote \subseteq n.completed /\ n.completed \subseteq Url
  /\ n.remote \in [DOMAIN n.remote -> RemoteState]
  /\ WellFormed(n.tree)
  /\ n.tag \in [Url -> n.tree.nodes \cup {None}]
  /\ PoolOK(n.pool, n.tree) /\ IsFiniteSet(Searched(n.pool))
  /\ n.searching \in BOOLEAN

Nodes == { n \in NodeRecords : NodeOK(n) }

LEMMA NodesAre ==
  ASSUME NEW n,
         n = [remote |-> n.remote, completed |-> n.completed, tree |-> n.tree, tag |-> n.tag,
              pool |-> n.pool, searching |-> n.searching],
         NodeOK(n)
  PROVE  n \in Nodes
PROOF
  <1>1. n.tree \in TreeType /\ n.tree.nodes \subseteq Block
    BY DEF NodeOK, WellFormed, TreeType
  <1>2. n.remote \in UNION { [D -> RemoteState] : D \in SUBSET Url }
    BY DEF NodeOK
  <1>3. n.tag \in [Url -> Block \cup {None}]
    BY <1>1 DEF NodeOK
  <1>4. n.pool \in [search : UNION { [D -> SearchState] : D \in SUBSET Block }, waiting : SUBSET Block]
    <2> DEFINE P == n.pool
    <2>1. /\ P = [search |-> P.search, waiting |-> P.waiting]
          /\ P.search \in [Searched(P) -> SearchState]
          /\ Searched(P) \in SUBSET Block /\ P.waiting \in SUBSET Block
      BY <1>1 DEF NodeOK, PoolOK
    <2> HIDE DEF P
    <2>2. P.search \in UNION { [D -> SearchState] : D \in SUBSET Block }
      BY <2>1
    <2> QED
      BY <2>1, <2>2 DEF P
  <1> QED
    BY <1>1, <1>2, <1>3, <1>4 DEF Nodes, NodeRecords, NodeOK

(* The searches after an answer to the request for b. *)
LEMMA SearchHeard ==
  ASSUME NEW T, NEW P, PoolOK(P, T), IsFiniteSet(Searched(P)),
         NEW u \in Url, NEW b, NEW found \in BOOLEAN
  PROVE  LET Q == UpdateBlockSearch(P, u, b, found)
         IN  /\ PoolOK(Q, T) /\ IsFiniteSet(Searched(Q))
             /\ Searched(Q) = IF found THEN Searched(P) \ {b} ELSE Searched(P)
             /\ \A c \in Searched(Q) :
                  /\ c # b => Q.search[c] = P.search[c]
                  /\ c = b => /\ Q.search[c].active = P.search[c].active \ {u}
                              /\ Q.search[c].completed = P.search[c].completed \cup {u}
                              /\ Q.search[c].retries = P.search[c].retries
PROOF
  <1> DEFINE Q == UpdateBlockSearch(P, u, b, found)
  <1>1. /\ P = [search |-> P.search, waiting |-> P.waiting]
        /\ P.search \in [Searched(P) -> SearchState] /\ DOMAIN P.search = Searched(P)
        /\ Searched(P) \subseteq T.nodes /\ P.waiting \subseteq Searched(P)
    BY DEF PoolOK, Searched
  <1>2. CASE b \notin Searched(P)
    BY <1>1, <1>2 DEF UpdateBlockSearch
  <1>3. CASE b \in Searched(P) /\ found
    <2>1. Q = [search |-> [c \in Searched(P) \ {b} |-> P.search[c]], waiting |-> P.waiting \ {b}]
      BY <1>3 DEF UpdateBlockSearch, Erase
    <2> HIDE DEF Q
    <2>2. /\ Q.search = [c \in Searched(P) \ {b} |-> P.search[c]] /\ Q.waiting = P.waiting \ {b}
          /\ Q = [search |-> Q.search, waiting |-> Q.waiting]
      BY <2>1
    <2>3. Searched(Q) = Searched(P) \ {b}
      BY <2>2 DEF Searched
    <2>4. IsFiniteSet(Searched(Q))
      BY <2>3, FS_Subset
    <2> QED
      BY <1>1, <1>3, <2>2, <2>3, <2>4 DEF PoolOK, Q
  <1>4. CASE b \in Searched(P) /\ ~found
    <2> DEFINE t == Lacks(P.search[b], u)
    <2> DEFINE S == [P.search EXCEPT ![b] = t]
    <2>1. Q = [P EXCEPT !.search = S]
      BY <1>4 DEF UpdateBlockSearch
    <2>2. P.search[b] \in SearchState
      BY <1>1, <1>4
    <2>3. /\ t \in SearchState /\ t.active = P.search[b].active \ {u}
          /\ t.completed = P.search[b].completed \cup {u} /\ t.retries = P.search[b].retries
      BY <2>2 DEF Lacks, SearchState
    <2> HIDE DEF Q, t
    <2>4. S \in [Searched(P) -> SearchState] /\ S[b] = t /\ \A c \in Searched(P) \ {b} : S[c] = P.search[c]
      BY <1>1, <1>4, <2>3
    <2> HIDE DEF S
    <2>5. Q.search = S /\ Q.waiting = P.waiting /\ Q = [search |-> Q.search, waiting |-> Q.waiting]
      BY <1>1, <2>1
    <2>6. Searched(Q) = Searched(P)
      BY <2>4, <2>5 DEF Searched
    <2> QED
      BY <1>1, <1>4, <2>3, <2>4, <2>5, <2>6 DEF PoolOK, Q
  <1> QED
    BY <1>2, <1>3, <1>4

LEMMA SetCompleteMissing ==
  ASSUME NEW T, NEW b PROVE StoreBlock(T, b).missing \subseteq T.missing
BY DEF StoreBlock, SetComplete, WithBody, WithStatus

(* The answer to a block request reaches the tree and the searches. *)
LEMMA BlockHeard ==
  ASSUME NEW n \in Nodes, NEW u \in Url, NEW a \in Response
  PROVE  LET m == HearsOfBlock(n, u, a)
         IN  /\ m \in Nodes /\ m.remote = n.remote /\ m.completed = n.completed /\ m.tag = n.tag
             /\ m.searching = n.searching
             /\ m.tree.nodes = n.tree.nodes /\ m.tree.missing \subseteq n.tree.missing
             /\ a.request.kind # "block" => m = n
             /\ a.request.kind = "block" =>
                  /\ m.pool = UpdateBlockSearch(n.pool, u, a.request.hash, a.found)
                  /\ a.found /\ a.request.hash \in n.tree.nodes
                       => m.tree.held = n.tree.held \cup {a.request.hash}
                  /\ ~(a.found /\ a.request.hash \in n.tree.nodes) => m.tree.held = n.tree.held
PROOF
  <1> DEFINE m == HearsOfBlock(n, u, a)
  <1> DEFINE b == a.request.hash
  <1> DEFINE T == IF a.found THEN StoreBlock(n.tree, b) ELSE n.tree
  <1> DEFINE P == UpdateBlockSearch(n.pool, u, b, a.found)
  <1>1. NodeOK(n) /\ n \in NodeRecords /\ a.found \in BOOLEAN
    BY DEF Nodes, Response
  <1>2. CASE a.request.kind # "block"
    BY <1>2 DEF HearsOfBlock
  <1>3. CASE a.request.kind = "block"
    <2>1. m = [n EXCEPT !.tree = T, !.pool = P]
      BY <1>3 DEF HearsOfBlock
    <2>2. /\ WellFormed(T) /\ T.nodes = n.tree.nodes /\ T.missing \subseteq n.tree.missing
          /\ a.found /\ b \in n.tree.nodes => T.held = n.tree.held \cup {b}
          /\ ~(a.found /\ b \in n.tree.nodes) => T.held = n.tree.held
      <3>1. WellFormed(n.tree)
        BY <1>1 DEF NodeOK
      <3>2. CASE a.found /\ b \in n.tree.nodes
        BY <3>1, <3>2, StoreBlockWellFormed, SetCompleteMissing
      <3>3. CASE ~(a.found /\ b \in n.tree.nodes)
        <4>1. T = n.tree
          BY <3>3 DEF StoreBlock
        <4> QED
          BY <3>1, <3>3, <4>1
      <3> QED
        BY <3>2, <3>3
    <2>3. PoolOK(n.pool, n.tree) /\ IsFiniteSet(Searched(n.pool))
      BY <1>1 DEF NodeOK
    <2> HIDE DEF b
    <2>4. PoolOK(P, n.tree) /\ IsFiniteSet(Searched(P))
      BY <1>1, <2>3, SearchHeard
    <2> HIDE DEF T, P, m
    <2>5. PoolOK(P, T)
      BY <2>2, <2>4 DEF PoolOK
    <2>6. /\ m.tree = T /\ m.pool = P /\ m.remote = n.remote /\ m.completed = n.completed
          /\ m.tag = n.tag /\ m.searching = n.searching
          /\ m = [remote |-> m.remote, completed |-> m.completed, tree |-> m.tree, tag |-> m.tag,
                  pool |-> m.pool, searching |-> m.searching]
      BY <1>1, <2>1 DEF NodeRecords
    <2>7. NodeOK(m)
      BY <1>1, <2>2, <2>4, <2>5, <2>6 DEF NodeOK
    <2>8. m \in Nodes
      BY <2>6, <2>7, NodesAre
    <2> QED
      BY <1>3, <2>2, <2>6, <2>8 DEF m, P, b
  <1> QED
    BY <1>2, <1>3

(* The answer to the search for miners. *)
LEMMA MinersHeard ==
  ASSUME NEW n \in Nodes, NEW a \in Response
  PROVE  LET m == HearsOfMiners(n, a)
         IN  /\ m \in Nodes /\ m.tree = n.tree /\ m.tag = n.tag /\ m.pool = n.pool
             /\ a.request.kind # "network" => m = n
             /\ a.request.kind = "network" => ~m.searching
             /\ DOMAIN n.remote \subseteq DOMAIN m.remote
             /\ \A v \in DOMAIN m.remote :
                  IF v \in DOMAIN n.remote THEN m.remote[v] = n.remote[v] ELSE m.remote[v] = Unknown
PROOF
  <1> DEFINE m == HearsOfMiners(n, a)
  <1> DEFINE new == a.urls \ n.completed
  <1> DEFINE R == [v \in new \cup DOMAIN n.remote |-> IF v \in new THEN Unknown ELSE n.remote[v]]
  <1>1. NodeOK(n) /\ n \in NodeRecords /\ a.urls \in SUBSET Url
    BY DEF Nodes, Response
  <1>2. CASE a.request.kind # "network"
    BY <1>2 DEF HearsOfMiners
  <1>3. CASE a.request.kind = "network"
    <2>1. m = [n EXCEPT !.searching = FALSE, !.completed = n.completed \cup new, !.remote = R]
      BY <1>3 DEF HearsOfMiners
    <2>2. DOMAIN n.remote \subseteq n.completed /\ n.remote \in [DOMAIN n.remote -> RemoteState]
      BY <1>1 DEF NodeOK
    <2>3. /\ DOMAIN R = new \cup DOMAIN n.remote
          /\ R = [v \in DOMAIN R |-> R[v]]
          /\ \A v \in DOMAIN R : R[v] = IF v \in new THEN Unknown ELSE n.remote[v]
      OBVIOUS
    <2>4. /\ \A v \in DOMAIN R : IF v \in DOMAIN n.remote THEN R[v] = n.remote[v] ELSE R[v] = Unknown
          /\ R \in [DOMAIN R -> RemoteState]
      <3>1. \A v \in DOMAIN R : IF v \in DOMAIN n.remote THEN R[v] = n.remote[v] ELSE R[v] = Unknown
        BY <2>2, <2>3
      <3>2. \A v \in DOMAIN R : R[v] \in RemoteState
        BY <2>2, <3>1, UnknownKnown
      <3> QED
        BY <2>3, <3>1, <3>2
    <2> HIDE DEF R, m
    <2>5. /\ m.tree = n.tree /\ m.pool = n.pool /\ m.remote = R /\ m.completed = n.completed \cup new
          /\ m.tag = n.tag /\ m.searching = FALSE
          /\ m = [remote |-> m.remote, completed |-> m.completed, tree |-> m.tree, tag |-> m.tag,
                  pool |-> m.pool, searching |-> m.searching]
      BY <1>1, <2>1 DEF NodeRecords
    <2>6. NodeOK(m)
      BY <1>1, <2>3, <2>4, <2>5 DEF NodeOK
    <2>7. m \in Nodes
      BY <2>5, <2>6, NodesAre
    <2> QED
      BY <1>3, <2>3, <2>4, <2>5, <2>7 DEF m
  <1> QED
    BY <1>2, <1>3

(* A node whose miners, tags and tree are changed. *)
LEMMA MinerChanged ==
  ASSUME NEW n \in Nodes, NEW m,
         m.remote \in [DOMAIN n.remote -> RemoteState], m.tag \in [Url -> m.tree.nodes \cup {None}],
         WellFormed(m.tree), n.tree.nodes \subseteq m.tree.nodes,
         m.pool = n.pool, m.completed = n.completed, m.searching = n.searching,
         m = [remote |-> m.remote, completed |-> m.completed, tree |-> m.tree, tag |-> m.tag,
              pool |-> m.pool, searching |-> m.searching]
  PROVE  m \in Nodes
PROOF
  <1>1. NodeOK(n)
    BY DEF Nodes
  <1>2. PoolOK(n.pool, m.tree)
    BY <1>1 DEF NodeOK, PoolOK
  <1>3. NodeOK(m)
    BY <1>1, <1>2 DEF NodeOK
  <1> QED
    BY <1>3, NodesAre

(* What an answer means to the miner it is from. *)
LEMMA MinerHeard ==
  ASSUME NEW n \in Nodes, NEW u \in DOMAIN n.remote, NEW a \in Response
  PROVE  LET m == Hears(n, u, a)
         IN  /\ m \in Nodes /\ DOMAIN m.remote = DOMAIN n.remote
             /\ \A v \in DOMAIN n.remote \ {u} : m.remote[v] = n.remote[v]
             /\ m.completed = n.completed /\ m.pool = n.pool /\ m.searching = n.searching
             /\ n.tree.nodes \subseteq m.tree.nodes /\ m.tree.held = n.tree.held
             /\ \A b \in m.tree.missing : \E c \in Path(b) : c \in n.tree.missing
             /\ a.error => m.remote[u].state = "OFFLINE"
             /\ ~a.error /\ a.request.kind = "info" =>
                  IF n.remote[u].state = "WAITING_FOR_INFO" THEN m.remote[u].state \in {"ERROR", "ONLINE"}
                  ELSE m.remote[u] = n.remote[u]
             /\ ~a.error /\ a.request.kind = "headers" =>
                  m.remote[u].state = IF n.remote[u].state = "WAITING_FOR_HEADERS" THEN "ONLINE"
                                      ELSE n.remote[u].state
             /\ ~a.error /\ a.request.kind \notin {"info", "headers"} => m = n
PROOF
  <1> DEFINE m == Hears(n, u, a)
  <1> DEFINE r == n.remote[u]
  <1> DEFINE s == HeadersAnswered(r, n.tag[u], n.tree, a.headers)
  <1>1. NodeOK(n) /\ n \in NodeRecords
    BY DEF Nodes
  <1>2. /\ WellFormed(n.tree) /\ r \in RemoteState /\ u \in Url
        /\ n.tag \in [Url -> n.tree.nodes \cup {None}] /\ n.tag[u] \in n.tree.nodes \cup {None}
        /\ n.tree.nodes \subseteq Block
    BY <1>1 DEF NodeOK, WellFormed, TreeType
  <1>3. a.error \in BOOLEAN /\ a.ours \in BOOLEAN /\ a.headers \in Seq(Block \cup {Foreign})
    BY DEF Response
  <1>4. \A b \in n.tree.missing : \E c \in Path(b) : c \in n.tree.missing
    BY <1>2, TreeAssumption DEF WellFormed, TreeType
  (* A change of the miner alone. *)
  <1>5. ASSUME NEW q \in RemoteState, NEW x, x = [n EXCEPT !.remote[u] = q]
        PROVE  /\ x \in Nodes /\ DOMAIN x.remote = DOMAIN n.remote /\ x.remote[u] = q
               /\ \A v \in DOMAIN n.remote \ {u} : x.remote[v] = n.remote[v]
               /\ x.completed = n.completed /\ x.pool = n.pool /\ x.searching = n.searching
               /\ x.tree = n.tree
    <2> DEFINE R == [n.remote EXCEPT ![u] = q]
    <2>1. x = [n EXCEPT !.remote = R]
      BY <1>5
    <2>2. /\ R \in [DOMAIN n.remote -> RemoteState] /\ R[u] = q
          /\ \A v \in DOMAIN n.remote \ {u} : R[v] = n.remote[v]
      BY <1>1 DEF NodeOK
    <2> HIDE DEF R
    <2>3. /\ x.remote = R /\ x.tag = n.tag /\ x.tree = n.tree
          /\ x.pool = n.pool /\ x.completed = n.completed /\ x.searching = n.searching
          /\ x = [remote |-> x.remote, completed |-> x.completed, tree |-> x.tree, tag |-> x.tag,
                  pool |-> x.pool, searching |-> x.searching]
      BY <1>1, <2>1 DEF NodeRecords
    <2>4. x \in Nodes
      BY <1>2, <2>2, <2>3, MinerChanged
    <2> QED
      BY <2>2, <2>3, <2>4
  <1>6. CASE a.error
    <2>1. m = [n EXCEPT !.remote[u] = ErrorAnswered(r)]
      BY <1>6 DEF Hears
    <2>2. ErrorAnswered(r) \in RemoteState /\ ErrorAnswered(r).state = "OFFLINE"
      BY <1>2 DEF ErrorAnswered, RemoteState, MinerState
    <2> HIDE DEF m, r
    <2> QED
      BY <1>4, <1>5, <1>6, <2>1, <2>2 DEF m
  <1>7. CASE ~a.error /\ a.request.kind = "info"
    <2> DEFINE q == InfoAnswered(r, n.tag[u], a.ours)
    <2>1. m = [n EXCEPT !.remote[u] = q]
      BY <1>7 DEF Hears
    <2>2. /\ q \in RemoteState
          /\ IF r.state = "WAITING_FOR_INFO" THEN q.state \in {"ERROR", "ONLINE"} ELSE q = r
      BY <1>2, <1>3, InfoAnsweredFits
    <2> HIDE DEF m, q
    <2>3. /\ m \in Nodes /\ DOMAIN m.remote = DOMAIN n.remote /\ m.remote[u] = q
          /\ \A v \in DOMAIN n.remote \ {u} : m.remote[v] = n.remote[v]
          /\ m.completed = n.completed /\ m.pool = n.pool /\ m.searching = n.searching
          /\ m.tree = n.tree
      BY <1>5, <2>1, <2>2
    <2> QED
      BY <1>4, <1>7, <2>2, <2>3 DEF m
  <1>8. CASE ~a.error /\ a.request.kind = "headers"
    <2>1. m = [n EXCEPT !.remote[u] = s.remote, !.tag[u] = s.row, !.tree = s.tree]
      BY <1>7, <1>8 DEF Hears
    <2>2. /\ s \in Readings(n.tree)
          /\ s.remote.state = IF r.state = "WAITING_FOR_HEADERS" THEN "ONLINE" ELSE r.state
      BY <1>2, <1>3, HeadersAnsweredFits
    <2> HIDE DEF m, s
    <2>3. /\ s.remote \in RemoteState /\ WellFormed(s.tree) /\ n.tree.nodes \subseteq s.tree.nodes
          /\ s.row \in s.tree.nodes \cup {None} /\ s.tree.held = n.tree.held
          /\ \A b \in s.tree.missing : \E c \in Path(b) : c \in n.tree.missing
      BY <2>2 DEF Readings
    <2> DEFINE R == [n.remote EXCEPT ![u] = s.remote]
    <2> DEFINE G == [n.tag EXCEPT ![u] = s.row]
    <2>4. m = [n EXCEPT !.remote = R, !.tag = G, !.tree = s.tree]
      BY <2>1
    <2>5. /\ R \in [DOMAIN n.remote -> RemoteState] /\ R[u] = s.remote
          /\ \A v \in DOMAIN n.remote \ {u} : R[v] = n.remote[v]
      BY <1>1, <2>3 DEF NodeOK
    <2>6. G \in [Url -> s.tree.nodes \cup {None}]
      BY <1>2, <2>3
    <2> HIDE DEF R, G
    <2>7. /\ m.remote = R /\ m.tag = G
          /\ m.tree = s.tree /\ m.pool = n.pool /\ m.completed = n.completed
          /\ m.searching = n.searching
          /\ m = [remote |-> m.remote, completed |-> m.completed, tree |-> m.tree, tag |-> m.tag,
                  pool |-> m.pool, searching |-> m.searching]
      BY <1>1, <2>4 DEF NodeRecords
    <2>8. m \in Nodes
      BY <2>3, <2>5, <2>6, <2>7, MinerChanged
    <2> QED
      BY <1>8, <2>2, <2>3, <2>5, <2>7, <2>8 DEF m
  <1>9. CASE ~a.error /\ a.request.kind \notin {"info", "headers"}
    <2>1. m = n
      BY <1>9 DEF Hears
    <2> QED
      BY <1>4, <1>9, <2>1
  <1> QED
    BY <1>3, <1>6, <1>7, <1>8, <1>9

(***************************************************************************)
(* How a node and the requests under way fit each other, when left[r] is   *)
(* how many copies of the request r have not reached the node's state.     *)
(***************************************************************************)
Awaited(left, n) ==
  /\ \A u \in DOMAIN n.remote :
       /\ n.remote[u].state = "WAITING_FOR_INFO" => left[InfoRequest(u)] > 0
       /\ n.remote[u].state = "WAITING_FOR_HEADERS" =>
            \E h \in Heights : left[HeadersRequest(u, h)] > 0
  /\ n.searching => \E u \in DOMAIN n.remote : left[NetworkRequest(u)] > 0

(* Requests for a block belong to its search; they outlive it only if the body is there. *)
Matching(left, n) ==
  /\ \A b \in Searched(n.pool) :
       /\ b \notin n.tree.held
       /\ \A u \in Url : left[BlockRequest(u, b)] = IF u \in n.pool.search[b].active THEN 1 ELSE 0
  /\ \A b \in Block \ (Searched(n.pool) \cup n.tree.held), u \in Url : left[BlockRequest(u, b)] = 0

(* Requests go to known miners; an address of the node itself is asked for its info only. *)
Reaching(left, n) ==
  /\ \A r \in Request : left[r] > 0 => IF r.url \in Own THEN r.kind = "info" ELSE r.url \in DOMAIN n.remote
  /\ \A u \in DOMAIN n.remote \cap Own : n.remote[u].state \in {"OFFLINE", "WAITING_FOR_INFO"}

Consistent(left, n) == Awaited(left, n) /\ Matching(left, n) /\ Reaching(left, n)

(* Only this node answers as itself, and it does unless it fails to answer. *)
Plausible(a) ==
  /\ a.own => a.request.url \in Own /\ ~a.error
  /\ a.request.url \in Own => a.own \/ a.error

(* What the answer a may have changed in the searches and in what is missing. *)
Since(m, n, a) ==
  /\ n.tree.nodes \subseteq m.tree.nodes
  /\ \A b \in m.tree.missing : \E c \in Path(b) : c \in n.tree.missing
  /\ Searched(m.pool) \subseteq Searched(n.pool)
  /\ \A b \in Searched(m.pool) :
       /\ m.pool.search[b].retries = n.pool.search[b].retries
       /\ \A u \in m.pool.search[b].completed \ n.pool.search[b].completed :
            a.request = BlockRequest(u, b) /\ ~a.found

LEMMA NothingSince ==
  ASSUME NEW n \in Nodes, NEW a, NEW m, m.tree = n.tree, m.pool = n.pool
  PROVE  Since(m, n, a)
PROOF
  <1>1. n.tree.missing \subseteq Block
    BY DEF Nodes, NodeOK, WellFormed, TreeType
  <1> QED
    BY <1>1, TreeAssumption DEF Since

LEMMA ReceiveFits ==
  ASSUME NEW n \in Nodes, NEW a \in Response
  PROVE  Receive(n, a) \in Nodes /\ Since(Receive(n, a), n, a)
PROOF
  <1> DEFINE u == a.request.url
  <1> DEFINE m == Receive(n, a)
  <1>1. NodeOK(n) /\ n \in NodeRecords /\ a.request \in Request /\ a.found \in BOOLEAN /\ u \in Url
    BY RequestFacts DEF Nodes, Response
  <1>2. CASE u \notin DOMAIN n.remote
    <2>1. m = n
      BY <1>2 DEF Receive
    <2> QED
      BY <2>1, NothingSince
  <1>3. CASE u \in DOMAIN n.remote /\ a.own
    <2> DEFINE R == [v \in DOMAIN n.remote \ {u} |-> n.remote[v]]
    <2>1. m = [n EXCEPT !.remote = R]
      BY <1>3 DEF Receive
    <2>2. DOMAIN R = DOMAIN n.remote \ {u} /\ R \in [DOMAIN R -> RemoteState]
      BY <1>1 DEF NodeOK
    <2> HIDE DEF R, m
    <2>3. /\ m.remote = R /\ m.tag = n.tag /\ m.tree = n.tree
          /\ m.pool = n.pool /\ m.completed = n.completed /\ m.searching = n.searching
          /\ m = [remote |-> m.remote, completed |-> m.completed, tree |-> m.tree, tag |-> m.tag,
                  pool |-> m.pool, searching |-> m.searching]
      BY <1>1, <2>1 DEF NodeRecords
    <2>4. NodeOK(m)
      BY <1>1, <2>2, <2>3 DEF NodeOK
    <2>5. m \in Nodes
      BY <2>3, <2>4, NodesAre
    <2> QED
      BY <2>3, <2>5, NothingSince DEF m
  <1>4. CASE u \in DOMAIN n.remote /\ ~a.own
    <2> DEFINE x == HearsOfBlock(n, u, a)
    <2> DEFINE y == HearsOfMiners(x, a)
    <2>1. m = Hears(y, u, a)
      BY <1>4 DEF Receive
    <2>2. /\ x \in Nodes /\ x.remote = n.remote /\ x.tree.nodes = n.tree.nodes
          /\ x.tree.missing \subseteq n.tree.missing
          /\ a.request.kind # "block" => x = n
          /\ a.request.kind = "block" => x.pool = UpdateBlockSearch(n.pool, u, a.request.hash, a.found)
      BY <1>1, BlockHeard
    <2> HIDE DEF x
    <2>3. y \in Nodes /\ DOMAIN x.remote \subseteq DOMAIN y.remote /\ y.tree = x.tree /\ y.pool = x.pool
      BY <2>2, MinersHeard
    <2> HIDE DEF y
    <2>4. /\ m \in Nodes /\ m.pool = y.pool /\ y.tree.nodes \subseteq m.tree.nodes
          /\ \A b \in m.tree.missing : \E c \in Path(b) : c \in y.tree.missing
      BY <1>4, <2>1, <2>2, <2>3, MinerHeard
    <2>5. CASE a.request.kind # "block"
      BY <2>2, <2>3, <2>4, <2>5 DEF Since
    <2>6. CASE a.request.kind = "block"
      <3> DEFINE b == a.request.hash
      <3>1. PoolOK(n.pool, n.tree) /\ IsFiniteSet(Searched(n.pool))
        BY <1>1 DEF NodeOK
      <3>2. a.request = BlockRequest(u, b)
        BY <1>1, <2>6, RequestFacts
      <3>3. m.pool = UpdateBlockSearch(n.pool, u, b, a.found)
        BY <2>2, <2>3, <2>4, <2>6
      <3> HIDE DEF b, m, u
      <3>4. /\ Searched(m.pool) = IF a.found THEN Searched(n.pool) \ {b} ELSE Searched(n.pool)
            /\ \A c \in Searched(m.pool) :
                 /\ c # b => m.pool.search[c] = n.pool.search[c]
                 /\ c = b => /\ m.pool.search[c].active = n.pool.search[c].active \ {u}
                             /\ m.pool.search[c].completed = n.pool.search[c].completed \cup {u}
                             /\ m.pool.search[c].retries = n.pool.search[c].retries
        BY <1>1, <3>1, <3>3, SearchHeard
      <3>5. ASSUME NEW c \in Searched(m.pool), NEW v \in m.pool.search[c].completed \ n.pool.search[c].completed
            PROVE  a.request = BlockRequest(v, c) /\ ~a.found
        BY <3>2, <3>4, <3>5
      <3>6. \A c \in Searched(m.pool) : m.pool.search[c].retries = n.pool.search[c].retries
        BY <3>4
      <3>7. Searched(m.pool) \subseteq Searched(n.pool)
        BY <3>4
      <3> QED
        BY <2>2, <2>3, <2>4, <3>5, <3>6, <3>7 DEF Since, m
    <2> QED
      BY <2>4, <2>5, <2>6
  <1> QED
    BY <1>2, <1>3, <1>4

Counts == [Request -> Nat]

(* Requests counted once less for q. *)
OneLess(next, left, q) == \A r \in Request : next[r] = left[r] - IF r = q THEN 1 ELSE 0

LEMMA OneLessFacts ==
  ASSUME NEW left \in Counts, NEW next \in Counts, NEW q \in Request, OneLess(next, left, q)
  PROVE  /\ next[q] = left[q] - 1
         /\ \A r \in Request : /\ next[r] \in Nat /\ left[r] \in Nat
                               /\ r # q => next[r] = left[r]
                               /\ next[r] > 0 => left[r] > 0
                               /\ left[r] = 0 => next[r] = 0
PROOF
  <1>1. \A r \in Request : next[r] \in Nat /\ left[r] \in Nat
    BY DEF Counts
  <1>2. \A r \in Request : r # q => next[r] = left[r]
    BY <1>1 DEF OneLess
  <1>3. next[q] = left[q] - 1
    BY <1>1 DEF OneLess
  <1> QED
    BY <1>1, <1>2, <1>3

(* An answer that is taken in keeps the node and the requests left consistent. *)
LEMMA ReceiveKeeps ==
  ASSUME NEW n \in Nodes, NEW a \in Response, Plausible(a),
         NEW left \in Counts, NEW next \in Counts, OneLess(next, left, a.request),
         left[a.request] > 0, Consistent(left, n)
  PROVE  Consistent(next, Receive(n, a))
PROOF
  <1> DEFINE q == a.request
  <1> DEFINE u == q.url
  <1> DEFINE m == Receive(n, a)
  <1>1. /\ NodeOK(n) /\ n \in NodeRecords /\ q \in Request /\ a.found \in BOOLEAN /\ u \in Url
        /\ a.error \in BOOLEAN
    BY RequestFacts DEF Nodes, Response
  <1>2. /\ next[q] = left[q] - 1
        /\ \A r \in Request : /\ next[r] \in Nat /\ left[r] \in Nat
                              /\ r # q => next[r] = left[r]
                              /\ next[r] > 0 => left[r] > 0
                              /\ left[r] = 0 => next[r] = 0
    BY <1>1, OneLessFacts
  <1>3. DOMAIN n.remote \subseteq Url /\ Searched(n.pool) \subseteq n.tree.nodes /\ n.tree.nodes \subseteq Block
    BY <1>1 DEF NodeOK, PoolOK, WellFormed, TreeType
  <1>4. Awaited(left, n) /\ Matching(left, n) /\ Reaching(left, n)
    BY DEF Consistent
  <1>5. IF u \in Own THEN q.kind = "info" ELSE u \in DOMAIN n.remote
    BY <1>1, <1>4 DEF Reaching
  (* The searches, when they and the bodies stay as they are. *)
  <1>6. ASSUME m.pool = n.pool, m.tree.held = n.tree.held, q.kind # "block"
        PROVE  Matching(next, m)
    <2>1. \A b \in Block, v \in Url : next[BlockRequest(v, b)] = left[BlockRequest(v, b)]
      BY <1>2, <1>6, RequestFacts, RequestsDiffer
    <2>2. \A b \in Searched(n.pool) : b \in Block
      BY <1>3
    <2> QED
      BY <1>4, <1>6, <2>1, <2>2 DEF Matching
  (* Requests of other kinds, or of other miners, are left as they were. *)
  <1>7. \A v \in Url : /\ q.kind # "info" \/ v # u => next[InfoRequest(v)] = left[InfoRequest(v)]
                       /\ q.kind # "network" => next[NetworkRequest(v)] = left[NetworkRequest(v)]
    BY <1>2, RequestFacts, RequestsDiffer
  <1>8. \A v \in Url, h \in Heights :
          q.kind # "headers" \/ v # u => next[HeadersRequest(v, h)] = left[HeadersRequest(v, h)]
    BY <1>2, RequestFacts, RequestsDiffer DEF Heights
  <1>9. CASE u \notin DOMAIN n.remote
    <2>1. m = n /\ q.kind = "info"
      BY <1>5, <1>9 DEF Receive
    <2>2. Matching(next, m)
      BY <1>6, <2>1
    <2>3. Reaching(next, m)
      BY <1>2, <1>4, <2>1 DEF Reaching
    <2>4. Awaited(next, m)
      <3>1. ASSUME NEW v \in DOMAIN n.remote
            PROVE  /\ n.remote[v].state = "WAITING_FOR_INFO" => next[InfoRequest(v)] > 0
                   /\ n.remote[v].state = "WAITING_FOR_HEADERS" => \E h \in Heights : next[HeadersRequest(v, h)] > 0
        BY <1>3, <1>4, <1>7, <1>8, <1>9, <3>1 DEF Awaited
      <3>2. n.searching => \E v \in DOMAIN n.remote : next[NetworkRequest(v)] > 0
        BY <1>3, <1>4, <1>7, <2>1 DEF Awaited
      <3> QED
        BY <2>1, <3>1, <3>2 DEF Awaited
    <2> QED
      BY <2>2, <2>3, <2>4 DEF Consistent
  <1>10. CASE u \in DOMAIN n.remote /\ a.own
    <2> DEFINE R == [v \in DOMAIN n.remote \ {u} |-> n.remote[v]]
    <2>1. m = [n EXCEPT !.remote = R]
      BY <1>10 DEF Receive
    <2>2. u \in Own /\ q.kind = "info"
      BY <1>5, <1>10 DEF Plausible
    <2>3. DOMAIN R = DOMAIN n.remote \ {u} /\ \A v \in DOMAIN R : R[v] = n.remote[v]
      OBVIOUS
    <2> HIDE DEF R
    <2>4. m.remote = R /\ m.tree = n.tree /\ m.pool = n.pool /\ m.searching = n.searching
      BY <1>1, <2>1 DEF NodeRecords
    <2> HIDE DEF m
    <2>5. Matching(next, m)
      BY <1>6, <2>2, <2>4
    <2>6. Reaching(next, m)
      <3>1. \A r \in Request : next[r] > 0 => IF r.url \in Own THEN r.kind = "info" ELSE r.url \in DOMAIN R
        BY <1>2, <1>4, <2>2, <2>3 DEF Reaching
      <3>2. \A v \in DOMAIN R \cap Own : R[v].state \in {"OFFLINE", "WAITING_FOR_INFO"}
        BY <1>4, <2>3 DEF Reaching
      <3> QED
        BY <2>4, <3>1, <3>2 DEF Reaching
    <2>7. Awaited(next, m)
      <3>1. ASSUME NEW v \in DOMAIN R
            PROVE  /\ R[v].state = "WAITING_FOR_INFO" => next[InfoRequest(v)] > 0
                   /\ R[v].state = "WAITING_FOR_HEADERS" => \E h \in Heights : next[HeadersRequest(v, h)] > 0
        BY <1>3, <1>4, <1>7, <1>8, <2>3 DEF Awaited
      <3>2. ASSUME n.searching PROVE \E v \in DOMAIN R : next[NetworkRequest(v)] > 0
        <4>1. PICK v \in DOMAIN n.remote : left[NetworkRequest(v)] > 0
          BY <1>4, <3>2 DEF Awaited
        <4>2. v \in Url /\ next[NetworkRequest(v)] > 0
          BY <1>3, <1>7, <2>2, <4>1
        <4>3. v \notin Own
          BY <1>4, <4>1, <4>2, RequestFacts, RequestsDiffer DEF Reaching
        <4> QED
          BY <2>2, <2>3, <4>1, <4>2, <4>3
      <3> QED
        BY <2>4, <3>1, <3>2 DEF Awaited
    <2> QED
      BY <2>5, <2>6, <2>7 DEF Consistent, m
  <1>11. CASE u \in DOMAIN n.remote /\ ~a.own
    <2> DEFINE x == HearsOfBlock(n, u, a)
    <2> DEFINE y == HearsOfMiners(x, a)
    <2>1. m = Hears(y, u, a)
      BY <1>11 DEF Receive
    <2>2. /\ x \in Nodes /\ x.remote = n.remote /\ x.searching = n.searching
          /\ q.kind # "block" => x = n
          /\ q.kind = "block" =>
               /\ x.pool = UpdateBlockSearch(n.pool, u, q.hash, a.found)
               /\ a.found /\ q.hash \in n.tree.nodes => x.tree.held = n.tree.held \cup {q.hash}
               /\ ~(a.found /\ q.hash \in n.tree.nodes) => x.tree.held = n.tree.held
      BY <1>1, BlockHeard
    <2> HIDE DEF x
    <2>3. /\ y \in Nodes /\ DOMAIN n.remote \subseteq DOMAIN y.remote /\ y.tree = x.tree /\ y.pool = x.pool
          /\ q.kind # "network" => y.searching = n.searching
          /\ q.kind = "network" => ~y.searching
          /\ \A v \in DOMAIN y.remote :
               IF v \in DOMAIN n.remote THEN y.remote[v] = n.remote[v] ELSE y.remote[v] = Unknown
      BY <2>2, MinersHeard
    <2> HIDE DEF y
    <2>4. /\ m \in Nodes /\ DOMAIN m.remote = DOMAIN y.remote
          /\ \A v \in DOMAIN y.remote \ {u} : m.remote[v] = y.remote[v]
          /\ m.pool = x.pool /\ m.searching = y.searching /\ m.tree.held = x.tree.held
          /\ a.error => m.remote[u].state = "OFFLINE"
          /\ ~a.error /\ q.kind = "info" =>
               IF y.remote[u].state = "WAITING_FOR_INFO" THEN m.remote[u].state \in {"ERROR", "ONLINE"}
               ELSE m.remote[u] = y.remote[u]
          /\ ~a.error /\ q.kind = "headers" =>
               m.remote[u].state = IF y.remote[u].state = "WAITING_FOR_HEADERS" THEN "ONLINE"
                                   ELSE y.remote[u].state
          /\ ~a.error /\ q.kind \notin {"info", "headers"} => m = y
      BY <1>11, <2>1, <2>2, <2>3, MinerHeard
    <2>5. DOMAIN m.remote \subseteq Url
      BY <2>4 DEF Nodes, NodeOK
    <2> HIDE DEF m, u, q
    <2>6. y.remote[u] = n.remote[u] /\ u \in DOMAIN m.remote
      BY <1>11, <2>3, <2>4
    <2>7. Reaching(next, m)
      <3>1. \A r \in Request : next[r] > 0 => IF r.url \in Own THEN r.kind = "info" ELSE r.url \in DOMAIN m.remote
        BY <1>2, <1>4, <2>3, <2>4 DEF Reaching
      <3>2. ASSUME NEW v \in DOMAIN m.remote \cap Own
            PROVE  m.remote[v].state \in {"OFFLINE", "WAITING_FOR_INFO"}
        <4>1. CASE v = u
          BY <1>11, <2>4, <3>2, <4>1 DEF Plausible, u, q
        <4>2. CASE v # u
          BY <1>4, <2>3, <2>4, <3>2, <4>2, UnknownKnown DEF Reaching
        <4> QED
          BY <4>1, <4>2
      <3> QED
        BY <3>1, <3>2 DEF Reaching
    <2>8. Awaited(next, m)
      <3>1. ASSUME NEW v \in DOMAIN m.remote, m.remote[v].state = "WAITING_FOR_INFO"
            PROVE  next[InfoRequest(v)] > 0
        <4>1. v \in DOMAIN n.remote /\ n.remote[v].state = "WAITING_FOR_INFO" /\ (v # u \/ q.kind # "info")
          <5>1. CASE v # u
            BY <2>3, <2>4, <3>1, <5>1, UnknownKnown
          <5>2. CASE v = u
            <6>1. ~a.error
              BY <2>4, <3>1, <5>2
            <6> QED
              BY <1>11, <2>3, <2>4, <2>6, <3>1, <5>2, <6>1
          <5> QED
            BY <5>1, <5>2
        <4>2. left[InfoRequest(v)] > 0
          BY <1>4, <4>1 DEF Awaited
        <4> QED
          BY <1>3, <1>7, <4>1, <4>2
      <3>2. ASSUME NEW v \in DOMAIN m.remote, m.remote[v].state = "WAITING_FOR_HEADERS"
            PROVE  \E h \in Heights : next[HeadersRequest(v, h)] > 0
        <4>1. v \in DOMAIN n.remote /\ n.remote[v].state = "WAITING_FOR_HEADERS" /\ (v # u \/ q.kind # "headers")
          <5>1. CASE v # u
            BY <2>3, <2>4, <3>2, <5>1, UnknownKnown
          <5>2. CASE v = u
            <6>1. ~a.error
              BY <2>4, <3>2, <5>2
            <6> QED
              BY <1>11, <2>3, <2>4, <2>6, <3>2, <5>2, <6>1
          <5> QED
            BY <5>1, <5>2
        <4>2. \E h \in Heights : left[HeadersRequest(v, h)] > 0
          BY <1>4, <4>1 DEF Awaited
        <4> QED
          BY <1>3, <1>8, <4>1, <4>2
      <3>3. ASSUME m.searching PROVE \E v \in DOMAIN m.remote : next[NetworkRequest(v)] > 0
        <4>1. q.kind # "network" /\ n.searching
          BY <2>3, <2>4, <3>3
        <4>2. PICK v \in DOMAIN n.remote : left[NetworkRequest(v)] > 0
          BY <1>4, <4>1 DEF Awaited
        <4> QED
          BY <1>3, <1>7, <2>3, <2>4, <4>1, <4>2
      <3> QED
        BY <3>1, <3>2, <3>3 DEF Awaited
    <2>9. Matching(next, m)
      <3>1. CASE q.kind # "block"
        BY <1>6, <2>2, <2>4, <3>1 DEF m, q
      <3>2. CASE q.kind = "block"
        <4> DEFINE b == q.hash
        <4>1. q = BlockRequest(u, b) /\ b \in Block
          BY <1>1, <3>2, RequestFacts DEF u
        <4>2. PoolOK(n.pool, n.tree) /\ IsFiniteSet(Searched(n.pool))
          BY <1>1 DEF NodeOK
        <4>3. /\ m.pool = UpdateBlockSearch(n.pool, u, b, a.found)
              /\ a.found /\ b \in n.tree.nodes => m.tree.held = n.tree.held \cup {b}
              /\ ~(a.found /\ b \in n.tree.nodes) => m.tree.held = n.tree.held
          BY <2>2, <2>4, <3>2
        <4> HIDE DEF b
        <4>4. /\ Searched(m.pool) = IF a.found THEN Searched(n.pool) \ {b} ELSE Searched(n.pool)
              /\ \A c \in Searched(m.pool) :
                   /\ c # b => m.pool.search[c] = n.pool.search[c]
                   /\ c = b => m.pool.search[c].active = n.pool.search[c].active \ {u}
          <5>1. u \in Url /\ a.found \in BOOLEAN
            BY <1>1
          <5> DEFINE found == a.found
          <5> DEFINE P == n.pool
          <5> HIDE DEF found, P
          <5>2. /\ Searched(m.pool) = IF found THEN Searched(P) \ {b} ELSE Searched(P)
                /\ \A c \in Searched(m.pool) :
                     /\ c # b => m.pool.search[c] = P.search[c]
                     /\ c = b => /\ m.pool.search[c].active = P.search[c].active \ {u}
                                 /\ m.pool.search[c].completed = P.search[c].completed \cup {u}
                                 /\ m.pool.search[c].retries = P.search[c].retries
            <6>1. PoolOK(P, n.tree) /\ IsFiniteSet(Searched(P)) /\ found \in BOOLEAN
              BY <4>2, <5>1 DEF found, P
            <6>2. m.pool = UpdateBlockSearch(P, u, b, found)
              BY <4>3 DEF found, P
            <6> QED
              BY <5>1, <6>1, <6>2, SearchHeard
          <5> QED
            BY <5>2 DEF found, P
        <4>5. \A c \in Block, v \in Url :
                /\ c # b \/ v # u => next[BlockRequest(v, c)] = left[BlockRequest(v, c)]
                /\ left[BlockRequest(v, c)] = 0 => next[BlockRequest(v, c)] = 0
          BY <1>2, <4>1, RequestFacts, RequestsDiffer
        <4>6. left[BlockRequest(u, b)] > 0 /\ next[BlockRequest(u, b)] = left[BlockRequest(u, b)] - 1
          BY <1>2, <4>1 DEF q
        <4>7. b \in Searched(n.pool) \/ b \in n.tree.held
          BY <1>1, <1>4, <4>1, <4>6 DEF Matching
        <4>8. ASSUME NEW c \in Searched(m.pool)
              PROVE  /\ c \notin m.tree.held
                     /\ \A v \in Url : next[BlockRequest(v, c)] = IF v \in m.pool.search[c].active THEN 1 ELSE 0
          <5>1. c \in Searched(n.pool) /\ c \in Block /\ c \notin n.tree.held
            BY <1>3, <1>4, <4>4 DEF Matching
          <5>2. c \notin m.tree.held
            BY <4>3, <4>4, <5>1
          <5>3. ASSUME NEW v \in Url
                PROVE  next[BlockRequest(v, c)] = IF v \in m.pool.search[c].active THEN 1 ELSE 0
            <6>1. left[BlockRequest(v, c)] = IF v \in n.pool.search[c].active THEN 1 ELSE 0
              BY <1>4, <5>1 DEF Matching
            <6>2. CASE c # b
              BY <4>4, <4>5, <5>1, <6>1, <6>2
            <6>3. CASE c = b /\ v # u
              BY <4>4, <4>5, <5>1, <6>1, <6>3
            <6>4. CASE c = b /\ v = u
              <7>1. left[BlockRequest(u, b)] = 1
                BY <4>6, <6>1, <6>4
              <7>2. u \notin m.pool.search[b].active
                BY <4>4, <6>4
              <7> QED
                BY <4>6, <6>4, <7>1, <7>2
            <6> QED
              BY <6>2, <6>3, <6>4
          <5> QED
            BY <5>2, <5>3
        <4>9. ASSUME NEW c \in Block \ (Searched(m.pool) \cup m.tree.held), NEW v \in Url
              PROVE  next[BlockRequest(v, c)] = 0
          <5>1. c \notin n.tree.held
            BY <4>3
          <5>2. c \notin Searched(n.pool)
            <6>1. SUFFICES ASSUME c \in Searched(n.pool) PROVE FALSE
              OBVIOUS
            <6>2. a.found /\ c = b /\ c \in n.tree.nodes
              BY <1>3, <4>4, <6>1
            <6> QED
              BY <4>3, <6>2
          <5>3. left[BlockRequest(v, c)] = 0
            BY <1>4, <5>1, <5>2 DEF Matching
          <5> QED
            BY <4>5, <5>3
        <4> QED
          BY <4>8, <4>9 DEF Matching
      <3> QED
        BY <3>1, <3>2
    <2> QED
      BY <2>7, <2>8, <2>9 DEF Consistent, m
  <1> QED
    BY <1>9, <1>10, <1>11

(* What follows the first i elements of a sequence. *)
Rest(s, i) == SubSeq(s, i + 1, Len(s))

LEMMA RestFacts ==
  ASSUME NEW T, NEW s \in Seq(T)
  PROVE  /\ Rest(s, 0) = s /\ Rest(s, Len(s)) = <<>>
         /\ \A i \in 1..Len(s) : /\ Rest(s, i - 1) \in Seq(T) /\ Rest(s, i - 1) # <<>>
                                 /\ Head(Rest(s, i - 1)) = s[i] /\ Tail(Rest(s, i - 1)) = Rest(s, i)
PROOF
  <1> DEFINE n == Len(s)
  <1>1. n \in Nat /\ \A i \in 1..n : s[i] \in T
    OBVIOUS
  <1>2. Rest(s, 0) = s /\ Rest(s, n) = <<>>
    BY DEF Rest
  <1>3. ASSUME NEW i \in 1..n
        PROVE  /\ Rest(s, i - 1) \in Seq(T) /\ Rest(s, i - 1) # <<>>
               /\ Head(Rest(s, i - 1)) = s[i] /\ Tail(Rest(s, i - 1)) = Rest(s, i)
    <2> DEFINE a == SubSeq(s, i, n)
    <2> DEFINE b == SubSeq(s, i + 1, n)
    <2>1. i \in Nat \ {0} /\ i <= n /\ (i - 1) + 1 = i
      BY <1>1
    <2>2. a \in Seq(T) /\ Len(a) = n - i + 1 /\ \A j \in 1..(n - i + 1) : a[j] = s[i + j - 1]
      BY <1>1, <2>1
    <2>3. b \in Seq(T) /\ Len(b) = n - i /\ \A j \in 1..(n - i) : b[j] = s[i + j]
      BY <1>1, <2>1
    <2>4. Rest(s, i - 1) = a /\ Rest(s, i) = b
      BY <2>1 DEF Rest
    <2> HIDE DEF a, b, n
    <2>5. a # <<>> /\ Head(a) = s[i]
      BY <1>1, <2>1, <2>2
    <2>6. Tail(a) = b
      <3> DEFINE c == Tail(a)
      <3>1. c \in Seq(T) /\ Len(c) = n - i /\ \A j \in 1..(n - i) : c[j] = a[j + 1]
        BY <1>1, <2>1, <2>2, <2>5
      <3>2. \A j \in 1..(n - i) : c[j] = b[j]
        <4>1. ASSUME NEW j \in 1..(n - i) PROVE c[j] = b[j]
          <5>1. j + 1 \in 1..(n - i + 1) /\ i + (j + 1) - 1 = i + j
            BY <1>1, <2>1
          <5> QED
            BY <2>2, <2>3, <3>1, <5>1
        <4> QED
          BY <4>1
      <3> HIDE DEF c
      <3>3. c = b
        BY <1>1, <2>1, <2>3, <3>1, <3>2
      <3> QED
        BY <3>3 DEF c
    <2> QED
      BY <2>2, <2>4, <2>5, <2>6
  <1> QED
    BY <1>2, <1>3

LEMMA AnswersRequests == \A a \in Response : a.request \in Request
BY DEF Response

(* The requests that the answers of a sequence are to. *)
Asks(s) == [i \in DOMAIN s |-> s[i].request]

LEMMA AsksFacts ==
  ASSUME NEW s \in Seq(Response)
  PROVE  /\ Asks(s) \in Seq(Request) /\ Len(Asks(s)) = Len(s)
         /\ \A i \in 1..Len(s) : Asks(s)[i] = s[i].request
         /\ \A r : Cardinality({ i \in DOMAIN s : s[i].request = r }) = Occurs(Asks(s), r)
         /\ \A a \in Response : Asks(Append(s, a)) = Append(Asks(s), a.request)
PROOF
  <1>1. Len(s) \in Nat /\ DOMAIN s = 1..Len(s) /\ \A i \in 1..Len(s) : s[i] \in Response /\ s[i].request \in Request
    BY AnswersRequests
  <1>2. /\ Asks(s) \in Seq(Request) /\ Len(Asks(s)) = Len(s) /\ DOMAIN Asks(s) = DOMAIN s
        /\ \A i \in 1..Len(s) : Asks(s)[i] = s[i].request
    BY <1>1 DEF Asks
  <1>3. ASSUME NEW r PROVE Cardinality({ i \in DOMAIN s : s[i].request = r }) = Occurs(Asks(s), r)
    <2>1. { i \in DOMAIN s : s[i].request = r } = { i \in DOMAIN Asks(s) : Asks(s)[i] = r }
      BY <1>1, <1>2
    <2> QED
      BY <2>1 DEF Occurs
  <1>4. ASSUME NEW a \in Response PROVE Asks(Append(s, a)) = Append(Asks(s), a.request)
    <2> DEFINE t == Append(s, a)
    <2> DEFINE n == Len(s)
    <2>1. n \in Nat /\ DOMAIN t = 1..(n + 1) /\ t[n + 1] = a /\ \A i \in 1..n : t[i] = s[i]
      OBVIOUS
    <2>2. a.request \in Request
      BY DEF Response
    <2> DEFINE v == Append(Asks(s), a.request)
    <2>3. /\ v \in Seq(Request) /\ Len(v) = n + 1 /\ v[n + 1] = a.request
          /\ \A i \in 1..n : v[i] = s[i].request
      BY <1>2, <2>1, <2>2
    <2> HIDE DEF t, n, v
    <2>4. Asks(t) = [i \in 1..(n + 1) |-> t[i].request]
      BY <2>1 DEF Asks
    <2>5. \A i \in 1..(n + 1) : v[i] = t[i].request
      <3>1. ASSUME NEW i \in 1..(n + 1) PROVE v[i] = t[i].request
        <4>1. CASE i = n + 1
          BY <2>1, <2>3, <4>1
        <4>2. CASE i # n + 1
          <5>1. i \in 1..n
            BY <2>1, <4>2
          <5> QED
            BY <2>1, <2>3, <5>1
        <4> QED
          BY <4>1, <4>2
      <3> QED
        BY <3>1
    <2>6. v = [i \in 1..(n + 1) |-> v[i]]
      BY <2>1, <2>3
    <2> QED
      BY <2>4, <2>5, <2>6 DEF t, v
  <1> QED
    BY <1>2, <1>3, <1>4

(* What the answers on hand may have changed in the searches and in what is missing. *)
Followed(n) ==
  /\ tree.nodes \subseteq n.tree.nodes
  /\ \A b \in n.tree.missing : \E c \in Path(b) : c \in tree.missing
  /\ Searched(n.pool) \subseteq Searched(pool)
  /\ \A b \in Searched(n.pool) :
       /\ n.pool.search[b].retries = pool.search[b].retries
       /\ n.pool.search[b].completed \subseteq pool.search[b].completed \cup AnsweredWithout(b)

LEMMA FollowedOn ==
  ASSUME NEW n \in Nodes, NEW m \in Nodes, inbox \in Seq(Response), NEW i \in DOMAIN inbox,
         Followed(n), Since(m, n, inbox[i])
  PROVE  Followed(m)
PROOF
  <1>1. /\ n.tree.missing \subseteq Block /\ m.tree.missing \subseteq Block
    BY DEF Nodes, NodeOK, WellFormed, TreeType
  <1>2. ASSUME NEW b \in m.tree.missing PROVE \E c \in Path(b) : c \in tree.missing
    <2>1. PICK c \in Path(b) : c \in n.tree.missing
      BY DEF Since
    <2>2. PICK d \in Path(c) : d \in tree.missing
      BY <2>1 DEF Followed
    <2> QED
      BY <1>1, <2>1, <2>2, TreeAssumption
  <1>3. inbox[i].request \in Request
    BY AnswersRequests
  <1>4. ASSUME NEW b \in Searched(m.pool)
        PROVE  /\ m.pool.search[b].retries = pool.search[b].retries
               /\ m.pool.search[b].completed \subseteq pool.search[b].completed \cup AnsweredWithout(b)
    <2>1. b \in Searched(n.pool)
      BY DEF Since
    <2>2. ASSUME NEW u \in m.pool.search[b].completed \ n.pool.search[b].completed
          PROVE  u \in AnsweredWithout(b)
      <3>1. inbox[i].request = BlockRequest(u, b) /\ ~inbox[i].found
        BY DEF Since
      <3>2. u \in Url
        BY <1>3, <3>1, RequestFacts, RequestsDiffer
      <3> QED
        BY <3>1, <3>2 DEF AnsweredWithout
    <2> QED
      BY <2>1, <2>2 DEF Since, Followed
  <1> QED
    BY <1>2, <1>4 DEF Since, Followed

(* The requests that have not been answered. *)
Unreturned == [r \in Request |-> TimesAsked(messenger, r)]

(* The requests that have not been answered, or whose answer is on hand. *)
Left == [r \in Request |-> Copies(r)]

(* The answers are taken in one by one. *)
LEMMA HeardBy ==
  ASSUME Before \in Nodes, inbox \in Seq(Response), NEW k \in 0..Len(inbox)
  PROVE  \E f : /\ f \in [0..k -> SUBSET Nodes] /\ f[0] = {Before} /\ Heard(k) = f[k]
                /\ \A i \in 1..k : f[i] = { Receive(y, inbox[i]) : y \in f[i - 1] }
PROOF
  <1> DEFINE V == SUBSET Nodes
  <1> DEFINE step == [p \in V \X (1..k) |-> { Receive(y, inbox[p[2]]) : y \in p[1] }]
  <1>1. k \in Nat /\ \A i \in 1..k : inbox[i] \in Response
    OBVIOUS
  <1>2. {Before} \in V
    OBVIOUS
  <1>3. ASSUME NEW S \in V, NEW i \in 1..k PROVE { Receive(y, inbox[i]) : y \in S } \in V
    BY <1>1, ReceiveFits
  <1> HIDE DEF V
  <1>6. step \in [V \X (1..k) -> V]
    BY <1>3
  <1>7. \A S \in V, i \in 1..k : step[<<S, i>>] = { Receive(y, inbox[i]) : y \in S }
    OBVIOUS
  <1> HIDE DEF step
  <1>8. PICK g \in [0..k -> V] : Iterates(g, {Before}, step, k)
    BY <1>1, <1>2, <1>6, IterationExists
  <1> DEFINE Follows(h) ==
        h = [i \in 0..k |-> IF i = 0 THEN {Before} ELSE { Receive(y, inbox[i]) : y \in h[i - 1] }]
  <1>9. Follows(g)
    <2>1. g = [i \in 0..k |-> IF i = 0 THEN {Before} ELSE step[<<g[i - 1], i>>]]
      BY <1>8 DEF Iterates
    <2>2. ASSUME NEW i \in 0..k, i # 0
          PROVE  step[<<g[i - 1], i>>] = { Receive(y, inbox[i]) : y \in g[i - 1] }
      <3>1. i \in 1..k /\ i - 1 \in 0..k
        BY <1>1, <2>2
      <3> QED
        BY <1>7, <1>8, <3>1
    <2> QED
      BY <2>1, <2>2
  <1> DEFINE f == CHOOSE h : Follows(h)
  <1>10. Follows(f)
    <2> HIDE DEF Follows
    <2> QED
      BY <1>9
  <1>11. Heard(k) = f[k]
    BY DEF Heard
  <1> HIDE DEF f
  <1>12. f = [i \in 0..k |-> f[i]] /\ f[0] = {Before}
    BY <1>1, <1>10
  <1>13. \A i \in 1..k : i \in 0..k /\ i # 0 /\ i - 1 \in 0..k
    BY <1>1
  <1>14. \A i \in 1..k : f[i] = { Receive(y, inbox[i]) : y \in f[i - 1] }
    BY <1>10, <1>13
  <1> DEFINE Good == { i \in 0..k : f[i] \in V }
  <1>15. \A i \in 0..k : i \in Good
    <2>1. 0 \in Good
      <3>1. 0 \in 0..k
        BY <1>1
      <3>2. f[0] = {Before}
        BY <1>12
      <3> QED
        BY <1>2, <3>1, <3>2
    <2>2. ASSUME NEW i \in 1..k, i - 1 \in Good PROVE i \in Good
      BY <1>3, <1>13, <1>14, <2>2
    <2> HIDE DEF Good
    <2> QED
      BY <1>1, <2>1, <2>2, UpTo
  <1>16. f \in [0..k -> V]
    BY <1>12, <1>15
  <1> QED
    BY <1>11, <1>12, <1>14, <1>16 DEF V

(* Every one of the answers leaves a node whose parts fit each other. *)
LEMMA HeardFits ==
  ASSUME Before \in Nodes, inbox \in Seq(Response), NEW k \in 0..Len(inbox), NEW x \in Heard(k)
  PROVE  x \in Nodes /\ tree.nodes \subseteq x.tree.nodes
PROOF
  <1>1. PICK f \in [0..k -> SUBSET Nodes] :
          /\ f[0] = {Before} /\ Heard(k) = f[k]
          /\ \A i \in 1..k : f[i] = { Receive(y, inbox[i]) : y \in f[i - 1] }
    BY HeardBy
  <1>2. k \in Nat /\ \A i \in 1..k : i \in 0..k /\ i - 1 \in 0..k /\ inbox[i] \in Response
    OBVIOUS
  <1> DEFINE Good == { i \in 0..k : \A y \in f[i] : tree.nodes \subseteq y.tree.nodes }
  <1>3. 0 \in Good
    BY <1>1, <1>2 DEF Before
  <1>4. ASSUME NEW i \in 1..k, i - 1 \in Good PROVE i \in Good
    <2>1. ASSUME NEW z \in f[i] PROVE tree.nodes \subseteq z.tree.nodes
      <3>0. PICK y \in f[i - 1] : z = Receive(y, inbox[i])
        BY <1>1
      <3>1. y \in Nodes /\ tree.nodes \subseteq y.tree.nodes
        BY <1>1, <1>2, <1>4
      <3>2. Since(Receive(y, inbox[i]), y, inbox[i])
        BY <1>2, <3>1, ReceiveFits
      <3> QED
        BY <3>0, <3>1, <3>2 DEF Since
    <2> QED
      BY <1>2, <2>1
  <1>5. k \in Good
    <2>1. k \in 0..k
      BY <1>2
    <2> HIDE DEF Good
    <2> QED
      BY <1>2, <1>3, <1>4, <2>1, UpTo
  <1> QED
    BY <1>1, <1>2, <1>5

(* All answers on hand are taken in. *)
LEMMA ReceivedKeeps ==
  ASSUME Before \in Nodes, inbox \in Seq(Response), messenger \in Messengers,
         \A i \in DOMAIN inbox : Plausible(inbox[i]), Consistent(Left, Before),
         NEW x \in Received
  PROVE  x \in Nodes /\ Consistent(Unreturned, x) /\ Followed(x)
PROOF
  <1> DEFINE n == Len(inbox)
  <1> DEFINE asks == Asks(inbox)
  <1>1. n \in Nat /\ DOMAIN inbox = 1..n /\ \A i \in 1..n : inbox[i] \in Response /\ inbox[i].request \in Request
    BY AnswersRequests
  <1>4. /\ asks \in Seq(Request) /\ Len(asks) = n /\ \A i \in 1..n : asks[i] = inbox[i].request
        /\ \A r \in Request : Copies(r) = TimesAsked(messenger, r) + Occurs(asks, r)
    BY AsksFacts DEF Copies
  <1>5. /\ Rest(asks, 0) = asks /\ Rest(asks, n) = <<>>
        /\ \A i \in 1..n : /\ Rest(asks, i - 1) \in Seq(Request) /\ Rest(asks, i - 1) # <<>>
                           /\ Head(Rest(asks, i - 1)) = inbox[i].request /\ Tail(Rest(asks, i - 1)) = Rest(asks, i)
    <2> HIDE DEF asks
    <2> QED
      BY <1>4, RestFacts
  <1>6. n \in 0..n
    BY <1>1
  <1>7. PICK f \in [0..n -> SUBSET Nodes] :
          /\ f[0] = {Before} /\ Heard(n) = f[n]
          /\ \A i \in 1..n : f[i] = { Receive(y, inbox[i]) : y \in f[i - 1] }
    BY <1>6, HeardBy
  <1>11. Received = f[n]
    BY <1>7 DEF Received
  <1> HIDE DEF n, asks
  <1> DEFINE still(i) == [r \in Request |-> TimesAsked(messenger, r) + Occurs(Rest(asks, i), r)]
  <1> DEFINE Fit(i) == { y \in Nodes : Consistent(still(i), y) /\ Followed(y) }
  <1> DEFINE Good == { i \in 0..n : f[i] \subseteq Fit(i) }
  <1>12. 0 \in Good
    <2>1. f[0] = {Before} /\ 0 \in 0..n
      BY <1>1, <1>7
    <2>2. Left = still(0)
      BY <1>4, <1>5 DEF Left
    <2>3. Followed(Before)
      <3>1. Before.tree = tree /\ Before.pool = pool
        BY DEF Before
      <3>2. tree.missing \subseteq Block
        BY <3>1 DEF Nodes, NodeOK, WellFormed, TreeType
      <3> HIDE DEF Before
      <3> QED
        BY <3>1, <3>2, TreeAssumption DEF Followed
    <2> HIDE DEF still
    <2> QED
      BY <2>1, <2>2, <2>3
  <1>13. ASSUME NEW i \in 1..n, i - 1 \in Good PROVE i \in Good
    <2>1. i \in 0..n /\ i # 0 /\ i - 1 \in 0..n /\ f[i - 1] \subseteq Fit(i - 1)
      BY <1>1, <1>13
    <2>2. f[i] = { Receive(y, inbox[i]) : y \in f[i - 1] }
      BY <1>7
    <2> DEFINE q == inbox[i].request
    <2>3. ASSUME NEW r \in Request
          PROVE  /\ TimesAsked(messenger, r) \in Nat
                 /\ Occurs(Rest(asks, i), r) \in Nat
                 /\ Occurs(Rest(asks, i - 1), r) = Occurs(Rest(asks, i), r) + IF r = q THEN 1 ELSE 0
      <3> DEFINE s == Rest(asks, i - 1)
      <3>1. s \in Seq(Request) /\ s # <<>> /\ Head(s) = q /\ Tail(s) = Rest(asks, i)
        BY <1>5
      <3> HIDE DEF s, q
      <3>2. Occurs(s, r) = Occurs(Tail(s), r) + IF r = Head(s) THEN 1 ELSE 0
        BY <3>1, OccursInTail
      <3>3. Tail(s) \in Seq(Request)
        BY <3>1
      <3>4. Occurs(Tail(s), r) \in Nat
        BY <3>3, OccursFacts
      <3>5. TimesAsked(messenger, r) \in Nat
        BY TimesFacts
      <3> QED
        BY <3>1, <3>2, <3>4, <3>5 DEF s
    <2>4. q \in Request /\ inbox[i] \in Response /\ Plausible(inbox[i]) /\ i \in DOMAIN inbox
      BY <1>1
    <2>5. ASSUME NEW r \in Request
          PROVE  /\ still(i - 1)[r] \in Nat /\ still(i)[r] \in Nat
                 /\ still(i)[r] = still(i - 1)[r] - IF r = q THEN 1 ELSE 0
      <3> HIDE DEF q
      <3>1. CASE r = q
        BY <2>3, <3>1
      <3>2. CASE r # q
        BY <2>3, <3>2
      <3> QED
        BY <3>1, <3>2
    <2>6. still(i - 1)[q] > 0
      BY <2>4, <2>5
    <2>7. still(i - 1) \in Counts /\ still(i) \in Counts /\ OneLess(still(i), still(i - 1), q)
      <3>1. still(i - 1) = [r \in Request |-> still(i - 1)[r]] /\ still(i) = [r \in Request |-> still(i)[r]]
        OBVIOUS
      <3> HIDE DEF still, q
      <3> QED
        BY <2>5, <3>1 DEF Counts, OneLess
    <2> HIDE DEF still
    <2>8. ASSUME NEW y \in f[i - 1] PROVE Receive(y, inbox[i]) \in Fit(i)
      <3>1. y \in Nodes /\ Consistent(still(i - 1), y) /\ Followed(y)
        BY <2>1
      <3>2. Receive(y, inbox[i]) \in Nodes /\ Since(Receive(y, inbox[i]), y, inbox[i])
        BY <2>4, <3>1, ReceiveFits
      <3>3. Consistent(still(i), Receive(y, inbox[i]))
        BY <2>4, <2>6, <2>7, <3>1, ReceiveKeeps
      <3>4. Followed(Receive(y, inbox[i]))
        BY <2>4, <3>1, <3>2, FollowedOn
      <3> QED
        BY <3>2, <3>3, <3>4
    <2> QED
      BY <2>1, <2>2, <2>8
  <1>14. n \in Good
    <2>1. n \in 0..n
      BY <1>1
    <2> HIDE DEF Good
    <2> QED
      BY <1>1, <1>12, <1>13, <2>1, UpTo
  <1>15. Unreturned = still(n)
    <2>1. \A r \in Request : TimesAsked(messenger, r) \in Nat
      BY TimesFacts
    <2>2. \A r : Occurs(<<>>, r) = 0
      <3>1. \A r : { i \in DOMAIN <<>> : <<>>[i] = r } = {}
        OBVIOUS
      <3> QED
        BY <3>1, FS_EmptySet DEF Occurs
    <2>3. \A r \in Request : TimesAsked(messenger, r) = TimesAsked(messenger, r) + Occurs(Rest(asks, n), r)
      BY <1>5, <2>1, <2>2
    <2> QED
      BY <2>3 DEF Unreturned
  <1> HIDE DEF still
  <1> QED
    BY <1>11, <1>14, <1>15

-----------------------------------------------------------------------------
(* What the node knows of the miners that have not left their branch. *)

Steady == Url \ (Own \cup moved)

(* Every such miner has been followed along its branch. *)
OnChain(n) ==
  \A u \in Steady : chain[u] # Foreign =>
    /\ n.tag[u] \in Path(chain[u]) \cup {None}
    /\ u \in DOMAIN n.remote => Reaches(n.remote[u].height, chain[u], n.tree)

(* An answer of such a miner to a request for headers is joined to what is known. *)
Expected(a, T) ==
  a.request.kind = "headers" /\ a.request.url \in Steady /\ ~a.error
    => Joined(a.headers, chain[a.request.url], T)

LEMMA TipsAre ==
  ASSUME chain \in [Url \ Own -> Chain], NEW u \in Steady
  PROVE  chain[u] \in Block \cup {Foreign}
BY SyncAssumption DEF Steady

(* What changes only one miner and its tag, and lets the tree grow. *)
LEMMA OnChainBut ==
  ASSUME NEW n, NEW m, NEW u, OnChain(n), n.tree.nodes \subseteq m.tree.nodes,
         \A v \in Steady \ {u} : m.tag[v] = n.tag[v],
         \A v \in (Steady \cap DOMAIN m.remote) \ {u} :
           v \in DOMAIN n.remote /\ m.remote[v] = n.remote[v],
         u \in Steady /\ chain[u] # Foreign =>
           /\ m.tag[u] \in Path(chain[u]) \cup {None}
           /\ u \in DOMAIN m.remote => Reaches(m.remote[u].height, chain[u], m.tree)
  PROVE  OnChain(m)
BY ReachesStill DEF OnChain

LEMMA InfoAnsweredOn ==
  ASSUME NEW T, NEW r \in RemoteState, NEW row \in T.nodes \cup {None}, NEW ours, NEW tip \in Block,
         row \in Path(tip) \cup {None}, Reaches(r.height, tip, T)
  PROVE  Reaches(InfoAnswered(r, row, ours).height, tip, T)
PROOF
  <1> DEFINE q == InfoAnswered(r, row, ours)
  <1>1. q.height = r.height \/ (row # None /\ q.height = Height(row))
    <2> DEFINE named == IF r.named THEN r ELSE [r EXCEPT !.named = TRUE, !.attached = TRUE]
    <2> DEFINE at == Cursor(named, row)
    <2> DEFINE x == [named EXCEPT !.state = "ONLINE", !.height = IF at = None THEN @ ELSE Height(at)]
    <2>1. CASE r.state # "WAITING_FOR_INFO"
      BY <2>1 DEF InfoAnswered
    <2>2. CASE r.state = "WAITING_FOR_INFO" /\ ~ours
      BY <2>2 DEF InfoAnswered, SetError, RemoteState
    <2>3. CASE r.state = "WAITING_FOR_INFO" /\ ours
      <3>1. named \in RemoteState /\ named.height = r.height
        BY DEF RemoteState
      <3>2. q = x
        BY <2>3 DEF InfoAnswered
      <3>3. at \in {row, None}
        BY DEF Cursor
      <3> HIDE DEF named, at
      <3>4. x.height = IF at = None THEN named.height ELSE Height(at)
        BY <3>1 DEF RemoteState
      <3> QED
        BY <3>1, <3>2, <3>3, <3>4
    <2> QED
      BY <2>1, <2>2, <2>3
  <1> HIDE DEF q
  <1>2. CASE q.height = r.height
    BY <1>2 DEF q
  <1>3. CASE row # None /\ q.height = Height(row)
    BY <1>3 DEF Reaches, q
  <1> QED
    BY <1>1, <1>2, <1>3

(* The headers that a miner answers with neither end the process nor lead off its branch. *)
LEMMA HeadersHeard ==
  ASSUME NEW n \in Nodes, NEW u \in DOMAIN n.remote \cap Steady, NEW a \in Response,
         chain \in [Url \ Own -> Chain], OnChain(n), Joined(a.headers, chain[u], n.tree)
  PROVE  LET s == HeadersAnswered(n.remote[u], n.tag[u], n.tree, a.headers)
         IN  s.going # "aborted" /\ Along(chain[u], s.remote, s.row, s.tree)
PROOF
  <1>1. /\ WellFormed(n.tree) /\ n.remote[u] \in RemoteState /\ n.tag[u] \in n.tree.nodes \cup {None}
        /\ a.headers \in Seq(Block \cup {Foreign}) /\ chain[u] \in Block \cup {Foreign}
    BY TipsAre DEF Nodes, NodeOK, Response, Steady
  <1>2. Along(chain[u], n.remote[u], n.tag[u], n.tree)
    BY DEF OnChain, Along
  <1> DEFINE r == n.remote[u]
  <1> DEFINE row == n.tag[u]
  <1> DEFINE T == n.tree
  <1> DEFINE tip == chain[u]
  <1> DEFINE headers == a.headers
  <1>3. /\ WellFormed(T) /\ r \in RemoteState /\ row \in T.nodes \cup {None}
        /\ headers \in Seq(Block \cup {Foreign}) /\ tip \in Block \cup {Foreign}
        /\ Joined(headers, tip, T) /\ Along(tip, r, row, T)
    BY <1>1, <1>2
  <1> HIDE DEF r, row, T, tip, headers
  <1>4. LET s == HeadersAnswered(r, row, T, headers)
        IN  s.going # "aborted" /\ Along(tip, s.remote, s.row, s.tree)
    BY <1>3, HeadersAnsweredJoined
  <1> QED
    BY <1>4 DEF r, row, T, tip, headers

(* What an answer means to the miner it is from keeps to that miner's branch. *)
LEMMA MinerHeardOn ==
  ASSUME NEW n \in Nodes, NEW u \in DOMAIN n.remote, NEW a \in Response, a.request.url = u,
         chain \in [Url \ Own -> Chain], OnChain(n), Expected(a, n.tree)
  PROVE  OnChain(Hears(n, u, a))
PROOF
  <1> DEFINE m == Hears(n, u, a)
  <1> DEFINE r == n.remote[u]
  <1> DEFINE s == HeadersAnswered(r, n.tag[u], n.tree, a.headers)
  <1>1. /\ NodeOK(n) /\ n \in NodeRecords /\ r \in RemoteState /\ u \in Url
        /\ n.tag \in [Url -> n.tree.nodes \cup {None}] /\ WellFormed(n.tree)
    BY DEF Nodes, NodeOK
  <1>2. /\ DOMAIN m.remote = DOMAIN n.remote /\ n.tree.nodes \subseteq m.tree.nodes
        /\ \A v \in DOMAIN n.remote \ {u} : m.remote[v] = n.remote[v]
    BY MinerHeard
  (* A change of the miner alone. *)
  <1>3. ASSUME NEW q \in RemoteState, m = [n EXCEPT !.remote[u] = q],
               u \in Steady /\ chain[u] # Foreign => Reaches(q.height, chain[u], n.tree)
        PROVE  OnChain(m)
    <2> DEFINE R == [n.remote EXCEPT ![u] = q]
    <2>1. m = [n EXCEPT !.remote = R]
      BY <1>3
    <2>2. R[u] = q
      BY <1>1
    <2> HIDE DEF R, m
    <2>3. m.remote = R /\ m.tag = n.tag /\ m.tree = n.tree
      BY <1>1, <2>1 DEF NodeRecords
    <2>4. u \in Steady /\ chain[u] # Foreign =>
            /\ m.tag[u] \in Path(chain[u]) \cup {None}
            /\ u \in DOMAIN m.remote => Reaches(m.remote[u].height, chain[u], m.tree)
      BY <1>3, <2>2, <2>3 DEF OnChain
    <2>5. /\ n.tree.nodes \subseteq m.tree.nodes /\ \A v \in Steady \ {u} : m.tag[v] = n.tag[v]
          /\ \A v \in (Steady \cap DOMAIN m.remote) \ {u} :
               v \in DOMAIN n.remote /\ m.remote[v] = n.remote[v]
      BY <1>2, <2>3
    <2> QED
      BY <2>4, <2>5, OnChainBut
  <1>4. ASSUME u \in Steady, chain[u] # Foreign
        PROVE  /\ n.tag[u] \in Path(chain[u]) \cup {None} /\ Reaches(r.height, chain[u], n.tree)
               /\ chain[u] \in Block
    BY <1>4, TipsAre DEF OnChain
  <1>5. CASE a.error
    <2>1. m = [n EXCEPT !.remote[u] = ErrorAnswered(r)]
      BY <1>5 DEF Hears
    <2>2. ErrorAnswered(r) \in RemoteState /\ ErrorAnswered(r).height = r.height
      BY <1>1 DEF ErrorAnswered, RemoteState, MinerState
    <2> HIDE DEF m, r
    <2> QED
      BY <1>3, <1>4, <2>1, <2>2 DEF m
  <1>6. CASE ~a.error /\ a.request.kind = "info"
    <2> DEFINE q == InfoAnswered(r, n.tag[u], a.ours)
    <2>1. m = [n EXCEPT !.remote[u] = q]
      BY <1>6 DEF Hears
    <2>2. n.tag[u] \in n.tree.nodes \cup {None} /\ n.tree.nodes \subseteq Block /\ a.ours \in BOOLEAN
      BY <1>1 DEF WellFormed, TreeType, Response
    <2>3. q \in RemoteState
      BY <1>1, <2>2, InfoAnsweredFits
    <2> HIDE DEF r
    <2>4. u \in Steady /\ chain[u] # Foreign => Reaches(q.height, chain[u], n.tree)
      BY <1>1, <1>4, <2>2, InfoAnsweredOn
    <2> HIDE DEF m, q
    <2> QED
      BY <1>3, <2>1, <2>3, <2>4 DEF m
  <1>7. CASE ~a.error /\ a.request.kind = "headers"
    <2>1. m = [n EXCEPT !.remote[u] = s.remote, !.tag[u] = s.row, !.tree = s.tree]
      BY <1>6, <1>7 DEF Hears
    <2>2. u \in Steady => Along(chain[u], s.remote, s.row, s.tree)
      BY <1>7, HeadersHeard DEF Expected
    <2> HIDE DEF m, s
    <2> DEFINE R == [n.remote EXCEPT ![u] = s.remote]
    <2> DEFINE G == [n.tag EXCEPT ![u] = s.row]
    <2>3. m = [n EXCEPT !.remote = R, !.tag = G, !.tree = s.tree]
      BY <2>1
    <2>4. R[u] = s.remote /\ G[u] = s.row /\ \A v \in Steady \ {u} : G[v] = n.tag[v]
      BY <1>1 DEF Steady
    <2> HIDE DEF R, G
    <2>5. m.remote = R /\ m.tag = G /\ m.tree = s.tree
      BY <1>1, <2>3 DEF NodeRecords
    <2>6. u \in Steady /\ chain[u] # Foreign =>
            /\ m.tag[u] \in Path(chain[u]) \cup {None}
            /\ u \in DOMAIN m.remote => Reaches(m.remote[u].height, chain[u], m.tree)
      BY <2>2, <2>4, <2>5 DEF Along
    <2>7. /\ n.tree.nodes \subseteq m.tree.nodes /\ \A v \in Steady \ {u} : m.tag[v] = n.tag[v]
          /\ \A v \in (Steady \cap DOMAIN m.remote) \ {u} :
               v \in DOMAIN n.remote /\ m.remote[v] = n.remote[v]
      BY <1>2, <2>4, <2>5
    <2>8. OnChain(m)
      BY <2>6, <2>7, OnChainBut
    <2> QED
      BY <2>8 DEF m
  <1>8. CASE ~a.error /\ a.request.kind \notin {"info", "headers"}
    <2>1. m = n
      BY <1>8 DEF Hears
    <2> QED
      BY <2>1
  <1>9. a.error \in BOOLEAN
    BY DEF Response
  <1> QED
    BY <1>5, <1>6, <1>7, <1>8, <1>9

(* An answer keeps the node to the branches, and does not end the process. *)
LEMMA ReceiveOn ==
  ASSUME NEW n \in Nodes, NEW a \in Response, Plausible(a),
         chain \in [Url \ Own -> Chain], OnChain(n), Expected(a, n.tree)
  PROVE  /\ OnChain(Receive(n, a))
         /\ Aborts(n, a) => a.request.url \in moved
PROOF
  <1> DEFINE u == a.request.url
  <1> DEFINE m == Receive(n, a)
  <1>1. NodeOK(n) /\ n \in NodeRecords /\ a.request \in Request /\ u \in Url
    BY RequestFacts DEF Nodes, Response
  <1>2. ASSUME Aborts(n, a), u \notin moved PROVE FALSE
    <2>1. /\ u \in DOMAIN n.remote /\ ~a.own /\ ~a.error /\ a.request.kind = "headers"
          /\ HeadersAnswered(n.remote[u], n.tag[u], n.tree, a.headers).going = "aborted"
      BY <1>2 DEF Aborts
    <2>2. u \in Steady
      BY <1>1, <1>2, <2>1 DEF Plausible, Steady
    <2>3. Joined(a.headers, chain[u], n.tree)
      BY <2>1, <2>2 DEF Expected
    <2> HIDE DEF u
    <2> QED
      BY <2>1, <2>2, <2>3, HeadersHeard
  <1>3. CASE u \notin DOMAIN n.remote
    <2>1. m = n
      BY <1>3 DEF Receive
    <2> QED
      BY <1>2, <2>1
  <1>4. CASE u \in DOMAIN n.remote /\ a.own
    <2> DEFINE R == [v \in DOMAIN n.remote \ {u} |-> n.remote[v]]
    <2>1. m = [n EXCEPT !.remote = R]
      BY <1>4 DEF Receive
    <2>2. DOMAIN R = DOMAIN n.remote \ {u} /\ \A v \in DOMAIN R : R[v] = n.remote[v]
      OBVIOUS
    <2> HIDE DEF R, m
    <2>3. m.remote = R /\ m.tag = n.tag /\ m.tree = n.tree
      BY <1>1, <2>1 DEF NodeRecords
    <2>4. OnChain(m)
      BY <2>2, <2>3 DEF OnChain
    <2> QED
      BY <1>2, <2>4 DEF m
  <1>5. CASE u \in DOMAIN n.remote /\ ~a.own
    <2> DEFINE x == HearsOfBlock(n, u, a)
    <2> DEFINE y == HearsOfMiners(x, a)
    <2>1. m = Hears(y, u, a)
      BY <1>5 DEF Receive
    <2>2. x \in Nodes /\ x.remote = n.remote /\ x.tag = n.tag /\ x.tree.nodes = n.tree.nodes
      BY <1>1, BlockHeard
    <2> HIDE DEF x
    <2>3. /\ y \in Nodes /\ DOMAIN x.remote \subseteq DOMAIN y.remote /\ y.tree = x.tree /\ y.tag = x.tag
          /\ \A v \in DOMAIN y.remote :
               IF v \in DOMAIN x.remote THEN y.remote[v] = x.remote[v] ELSE y.remote[v] = Unknown
      BY <2>2, MinersHeard
    <2> HIDE DEF y
    <2>4. OnChain(y)
      <3>1. WellFormed(y.tree)
        BY <2>3 DEF Nodes, NodeOK
      <3>2. ASSUME NEW v \in Steady, chain[v] # Foreign, v \in DOMAIN y.remote
            PROVE  Reaches(y.remote[v].height, chain[v], y.tree)
        <4>1. CASE v \in DOMAIN n.remote
          <5>1. y.remote[v] = n.remote[v] /\ Reaches(n.remote[v].height, chain[v], n.tree)
            BY <2>2, <2>3, <3>2, <4>1 DEF OnChain
          <5> QED
            BY <2>2, <2>3, <5>1 DEF Reaches
        <4>2. CASE v \notin DOMAIN n.remote
          <5>1. y.remote[v].height = 0
            BY <2>2, <2>3, <3>2, <4>2 DEF Unknown
          <5>2. chain[v] \in Block
            BY <3>2, TipsAre
          <5> QED
            BY <3>1, <5>1, <5>2, RootReached
        <4> QED
          BY <4>1, <4>2
      <3> QED
        BY <2>2, <2>3, <3>2 DEF OnChain
    <2>5. Expected(a, y.tree)
      BY <2>2, <2>3, JoinedStill DEF Expected
    <2>6. u \in DOMAIN y.remote
      BY <1>5, <2>2, <2>3
    <2> HIDE DEF m
    <2>7. OnChain(m)
      BY <2>1, <2>3, <2>4, <2>5, <2>6, MinerHeardOn
    <2> QED
      BY <1>2, <2>7 DEF m
  <1> QED
    BY <1>3, <1>4, <1>5

(* All the answers do. *)
LEMMA HeardOn ==
  ASSUME Before \in Nodes, inbox \in Seq(Response), chain \in [Url \ Own -> Chain], OnChain(Before),
         \A i \in DOMAIN inbox : Plausible(inbox[i]) /\ Expected(inbox[i], tree),
         NEW k \in 0..Len(inbox), NEW x \in Heard(k)
  PROVE  OnChain(x)
PROOF
  <1>1. PICK f \in [0..k -> SUBSET Nodes] :
          /\ f[0] = {Before} /\ Heard(k) = f[k]
          /\ \A i \in 1..k : f[i] = { Receive(y, inbox[i]) : y \in f[i - 1] }
    BY HeardBy
  <1>2. k \in Nat /\ \A i \in 1..k : /\ i \in 0..k /\ i - 1 \in 0..k /\ inbox[i] \in Response
                                     /\ i \in DOMAIN inbox
    OBVIOUS
  <1> DEFINE Good == { i \in 0..k : \A y \in f[i] : tree.nodes \subseteq y.tree.nodes /\ OnChain(y) }
  <1>3. 0 \in Good
    <2>1. f[0] = {Before} /\ Before.tree = tree /\ 0 \in 0..k
      BY <1>1, <1>2 DEF Before
    <2> QED
      BY <2>1
  <1>4. ASSUME NEW i \in 1..k, i - 1 \in Good PROVE i \in Good
    <2>1. ASSUME NEW z \in f[i] PROVE tree.nodes \subseteq z.tree.nodes /\ OnChain(z)
      <3>1. PICK y \in f[i - 1] : z = Receive(y, inbox[i])
        BY <1>1
      <3>2. y \in Nodes /\ tree.nodes \subseteq y.tree.nodes /\ OnChain(y)
        BY <1>1, <1>2, <1>4
      <3>3. Since(z, y, inbox[i])
        BY <1>2, <3>1, <3>2, ReceiveFits
      <3>4. Expected(inbox[i], y.tree)
        BY <1>2, <3>2, JoinedStill DEF Expected
      <3>5. OnChain(z)
        BY <1>2, <3>1, <3>2, <3>4, ReceiveOn
      <3> QED
        BY <3>2, <3>3, <3>5 DEF Since
    <2> QED
      BY <1>2, <2>1
  <1>5. k \in Good
    <2>1. k \in 0..k
      BY <1>2
    <2> HIDE DEF Good
    <2> QED
      BY <1>2, <1>3, <1>4, <2>1, UpTo
  <1> QED
    BY <1>1, <1>5

-----------------------------------------------------------------------------
(* What a step makes of the searches. *)

(* The searches of P are among those of Q, and the others of Q are new. *)
Extends(Q, P, T) ==
  /\ Searched(P) \subseteq Searched(Q)
  /\ \A c \in Searched(P) : Q.search[c] = P.search[c]
  /\ \A c \in Searched(Q) \ Searched(P) : Q.search[c] = Started /\ c \notin T.held

LEMMA StartedOK == Started \in SearchState
BY SearchAssumption DEF Started, SearchState

LEMMA BranchAffirmed ==
  ASSUME NEW T, WellFormed(T), NEW P, PoolOK(P, T), IsFiniteSet(Searched(P)), NEW b \in T.nodes
  PROVE  LET Q == AffirmBranchSearch(P, T, b)
         IN  PoolOK(Q, T) /\ IsFiniteSet(Searched(Q)) /\ Extends(Q, P, T)
PROOF
  <1> DEFINE lacking == Path(b) \ (T.complete \cup T.held)
  <1> DEFINE new == { c \in lacking : \A d \in lacking \cap Searched(P) : c \notin Path(d) }
  <1> DEFINE S == [c \in new \cup Searched(P) |-> IF c \in new THEN Started ELSE P.search[c]]
  <1> DEFINE Q == AffirmBranchSearch(P, T, b)
  <1>1. /\ P = [search |-> P.search, waiting |-> P.waiting]
        /\ P.search \in [Searched(P) -> SearchState]
        /\ Searched(P) \subseteq T.nodes /\ P.waiting \subseteq Searched(P)
    BY DEF PoolOK
  <1>2. Path(b) \subseteq T.nodes /\ T.nodes \subseteq Block /\ IsFiniteSet(Path(b))
    BY SyncAssumption DEF WellFormed, TreeType, PathsRecorded
  <1>3. new \subseteq T.nodes /\ new \cap T.held = {} /\ new \cap Searched(P) = {}
    BY <1>2, TreeAssumption
  <1>4. IsFiniteSet(new)
    <2>1. new \in SUBSET Path(b)
      OBVIOUS
    <2> HIDE DEF new
    <2> QED
      BY <1>2, <2>1, FS_Subset
  <1>5. Q = [search |-> S, waiting |-> P.waiting \cup new]
    BY DEF AffirmBranchSearch
  <1> HIDE DEF Q, new
  <1>6. /\ DOMAIN S = new \cup Searched(P) /\ S \in [DOMAIN S -> SearchState]
        /\ \A c \in Searched(P) : S[c] = P.search[c]
        /\ \A c \in DOMAIN S \ Searched(P) : S[c] = Started
    BY <1>1, <1>3, StartedOK
  <1> HIDE DEF S
  <1>7. Q.search = S /\ Q.waiting = P.waiting \cup new /\ Q = [search |-> Q.search, waiting |-> Q.waiting]
    BY <1>5
  <1>8. Searched(Q) = new \cup Searched(P)
    BY <1>6, <1>7 DEF Searched
  <1>9. IsFiniteSet(Searched(Q))
    BY <1>4, <1>8, FS_Union
  <1>10. PoolOK(Q, T)
    BY <1>1, <1>3, <1>6, <1>7, <1>8 DEF PoolOK
  <1>11. Extends(Q, P, T)
    BY <1>3, <1>6, <1>7, <1>8 DEF Extends
  <1> QED
    BY <1>9, <1>10, <1>11 DEF Q

LEMMA BranchesAffirmed ==
  ASSUME NEW T, WellFormed(T), NEW P, PoolOK(P, T), IsFiniteSet(Searched(P)),
         NEW tips \in Seq(T.nodes), best \in T.nodes
  PROVE  LET Q == Affirmed(P, T, tips)
         IN  PoolOK(Q, T) /\ IsFiniteSet(Searched(Q)) /\ Extends(Q, P, T)
PROOF
  <1> DEFINE all == Append(tips, best)
  <1> DEFINE n == Len(all)
  <1> DEFINE Fit(Q) == PoolOK(Q, T) /\ IsFiniteSet(Searched(Q)) /\ Extends(Q, P, T)
  <1> DEFINE V == { Q \in [search : UNION { [D -> SearchState] : D \in SUBSET T.nodes }, waiting : SUBSET T.nodes] : Fit(Q) }
  <1> DEFINE step == [p \in V \X (1..n) |-> AffirmBranchSearch(p[1], T, all[p[2]])]
  <1>1. n \in Nat /\ \A i \in 1..n : all[i] \in T.nodes
    <2>1. all \in Seq(T.nodes)
      OBVIOUS
    <2> HIDE DEF all
    <2> QED
      BY <2>1
  <1>2. ASSUME NEW Q, Fit(Q) PROVE Q \in V
    <2>1. /\ Q = [search |-> Q.search, waiting |-> Q.waiting]
          /\ Q.search \in [Searched(Q) -> SearchState]
          /\ Searched(Q) \in SUBSET T.nodes /\ Q.waiting \in SUBSET T.nodes
      BY <1>2 DEF PoolOK
    <2>2. Q.search \in UNION { [D -> SearchState] : D \in SUBSET T.nodes }
      BY <2>1
    <2> HIDE DEF Fit
    <2> QED
      BY <1>2, <2>1, <2>2
  <1>3. P \in V
    <2>1. Extends(P, P, T)
      BY DEF Extends
    <2> QED
      BY <1>2, <2>1
  <1>4. ASSUME NEW Q \in V, NEW i \in 1..n PROVE AffirmBranchSearch(Q, T, all[i]) \in V
    <2> DEFINE R == AffirmBranchSearch(Q, T, all[i])
    <2>1. PoolOK(Q, T) /\ IsFiniteSet(Searched(Q)) /\ Extends(Q, P, T)
      OBVIOUS
    <2>2. all[i] \in T.nodes
      BY <1>1
    <2>3. PoolOK(R, T) /\ IsFiniteSet(Searched(R)) /\ Extends(R, Q, T)
      <3> DEFINE b == all[i]
      <3>1. b \in T.nodes
        BY <2>2
      <3> HIDE DEF b, V
      <3>2. LET W == AffirmBranchSearch(Q, T, b) IN PoolOK(W, T) /\ IsFiniteSet(Searched(W)) /\ Extends(W, Q, T)
        BY <2>1, <3>1, BranchAffirmed
      <3> QED
        BY <3>2 DEF b
    <2> HIDE DEF R
    <2>4. Extends(R, P, T)
      BY <2>1, <2>3 DEF Extends
    <2>5. Fit(R)
      BY <2>3, <2>4
    <2> QED
      BY <1>2, <2>5 DEF R
  <1> HIDE DEF n, V, all
  <1>5. step \in [V \X (1..n) -> V]
    BY <1>4
  <1>6. \A Q \in V, i \in 1..n : step[<<Q, i>>] = AffirmBranchSearch(Q, T, all[i])
    OBVIOUS
  <1> HIDE DEF step
  <1>7. PICK g \in [0..n -> V] : Iterates(g, P, step, n)
    BY <1>1, <1>3, <1>5, IterationExists
  <1> DEFINE Follows(h) ==
        h = [i \in 0..n |-> IF i = 0 THEN P ELSE AffirmBranchSearch(h[i - 1], T, all[i])]
  <1>8. Follows(g)
    <2>1. g = [i \in 0..n |-> IF i = 0 THEN P ELSE step[<<g[i - 1], i>>]]
      BY <1>7 DEF Iterates
    <2>2. ASSUME NEW i \in 0..n, i # 0
          PROVE  step[<<g[i - 1], i>>] = AffirmBranchSearch(g[i - 1], T, all[i])
      <3>1. i \in 1..n /\ i - 1 \in 0..n
        BY <1>1, <2>2
      <3> QED
        BY <1>6, <1>7, <3>1
    <2> QED
      BY <2>1, <2>2
  <1> DEFINE f == CHOOSE h : Follows(h)
  <1>9. Follows(f)
    <2> HIDE DEF Follows
    <2> QED
      BY <1>8
  <1>10. Affirmed(P, T, tips) = f[n]
    BY DEF Affirmed, n, all
  <1> HIDE DEF f
  <1> DEFINE Good == { i \in 0..n : f[i] \in V }
  <1>11. 0 \in Good
    BY <1>1, <1>3, <1>9
  <1>12. ASSUME NEW i \in 1..n, i - 1 \in Good PROVE i \in Good
    <2>1. i \in 0..n /\ i # 0 /\ f[i - 1] \in V
      BY <1>1, <1>12
    <2>2. f[i] = AffirmBranchSearch(f[i - 1], T, all[i])
      BY <1>9, <2>1
    <2> QED
      BY <1>4, <2>1, <2>2
  <1>13. n \in Good
    <2>1. n \in 0..n
      BY <1>1
    <2> HIDE DEF Good
    <2> QED
      BY <1>1, <1>11, <1>12, <2>1, UpTo
  <1> QED
    BY <1>10, <1>13 DEF V

LEMMA ActivatedKeeps ==
  ASSUME NEW T, NEW P, PoolOK(P, T), NEW Q \in Activated(P)
  PROVE  PoolOK(Q, T) /\ Q.search = P.search /\ Searched(Q) = Searched(P)
PROOF
  <1>1. CASE Q = P
    BY <1>1
  <1>2. CASE Q # P
    <2>1. PICK bs : Q = [P EXCEPT !.waiting = P.waiting \ bs]
      BY <1>2 DEF Activated
    <2>2. P = [search |-> P.search, waiting |-> P.waiting]
      BY DEF PoolOK
    <2>3. /\ Q.search = P.search /\ Q.waiting = P.waiting \ bs
          /\ Q = [search |-> Q.search, waiting |-> Q.waiting]
      BY <2>1, <2>2
    <2>4. Searched(Q) = Searched(P)
      BY <2>3 DEF Searched
    <2> QED
      BY <2>3, <2>4 DEF PoolOK
  <1> QED
    BY <1>1, <1>2

(* How one search goes on. *)
LEMMA StepSearchFacts ==
  ASSUME NEW s \in SearchState, NEW b, NEW T, NEW remotes, NEW online \in SUBSET Url,
         NEW o \in StepSearch(s, b, T, remotes, online)
  PROVE  /\ o.end = "no" => /\ o.search \in SearchState /\ o.asked \subseteq online \ s.active
                            /\ o.search.active = s.active \cup o.asked
         /\ o.end # "no" => o.end \in {"found", "missing"}
         /\ o.end = "found" => b \in T.held
         /\ o.end = "missing" => /\ b \notin T.held /\ s.active = {} /\ online \subseteq s.completed
                                 /\ online = {} \/ s.retries = MaxRetries
PROOF
  <1>1. /\ s.active \in SUBSET Url /\ s.completed \in SUBSET Url /\ s.retries \in 0..MaxRetries
        /\ MaxRetries \in Nat
    BY SearchAssumption DEF SearchState
  <1> DEFINE extended(t) == { Outcome("no", [t EXCEPT !.active = @ \cup us], us) : us \in Asked(t, b, online) }
  <1>2. ASSUME NEW t \in SearchState, t.active = s.active, o \in extended(t)
        PROVE  /\ o.end = "no" /\ o.search \in SearchState /\ o.asked \subseteq online \ s.active
               /\ o.search.active = s.active \cup o.asked
    <2>1. PICK us \in Asked(t, b, online) : o = Outcome("no", [t EXCEPT !.active = @ \cup us], us)
      BY <1>2
    <2>2. us \subseteq online \ (t.active \cup t.completed)
      BY <2>1 DEF Asked, kSubset
    <2>3. [t EXCEPT !.active = @ \cup us] \in SearchState /\ [t EXCEPT !.active = @ \cup us].active = t.active \cup us
      BY <1>1, <1>2, <2>2 DEF SearchState
    <2>4. o.end = "no" /\ o.search = [t EXCEPT !.active = @ \cup us] /\ o.asked = us
      BY <2>1 DEF Outcome
    <2> QED
      BY <1>2, <2>2, <2>3, <2>4
  <1>3. CASE b \in T.held
    <2>1. o = Outcome("found", s, {})
      BY <1>3 DEF StepSearch
    <2> QED
      BY <1>3, <2>1 DEF Outcome
  <1>4. CASE b \notin T.held /\ remotes = {}
    <2>1. o = Outcome("no", s, {})
      BY <1>4 DEF StepSearch
    <2> QED
      BY <1>4, <2>1 DEF Outcome
  <1>5. CASE b \notin T.held /\ remotes # {} /\ ~Exhausted(s, online)
    <2>1. o \in extended(s)
      BY <1>5 DEF StepSearch
    <2> HIDE DEF extended
    <2> QED
      BY <1>2, <2>1
  <1>6. CASE b \notin T.held /\ remotes # {} /\ Exhausted(s, online)
    <2>1. CASE s.retries < MaxRetries /\ online # {}
      <3>1. o \in extended(Again(s))
        BY <1>6, <2>1 DEF StepSearch
      <3>2. Again(s) \in SearchState /\ Again(s).active = s.active
        BY <1>1, <2>1 DEF Again, SearchState
      <3> HIDE DEF extended
      <3> QED
        BY <1>2, <3>1, <3>2
    <2>2. CASE ~(s.retries < MaxRetries /\ online # {})
      <3>1. o = Outcome("missing", s, {})
        BY <1>6, <2>2 DEF StepSearch
      <3>2. online = {} \/ s.retries = MaxRetries
        BY <1>1, <2>2
      <3> QED
        BY <1>6, <3>1, <3>2 DEF Outcome, Exhausted
    <2> QED
      BY <2>1, <2>2
  <1> QED
    BY <1>3, <1>4, <1>5, <1>6

(* What the outcomes f of the active searches of P leave. *)
Outcomes(f, P, T, remotes, online) ==
  /\ DOMAIN f = ActiveSearches(P)
  /\ \A b \in ActiveSearches(P) : f[b] \in StepSearch(P.search[b], b, T, remotes, online)

LEMMA OutcomesExist ==
  ASSUME NEW P, NEW T, NEW remotes, NEW online, NEW after \in UpdateSearches(P, T, remotes, online)
  PROVE  \E f : Outcomes(f, P, T, remotes, online) /\ after = AfterSearches(P, T, f)
BY DEF UpdateSearches, Outcomes

(* What those outcomes make of the tree, of the searches, and of what is asked for. *)
LeftBy(A, f, P, T) ==
  LET over == { b \in ActiveSearches(P) : f[b].end # "no" }
  IN  /\ WellFormed(A.tree) /\ A.tree.nodes = T.nodes /\ A.tree.held = T.held
      /\ \A b \in A.tree.missing : \/ b \in T.missing
                                   \/ \E a \in ActiveSearches(P) : a \in Path(b) /\ f[a].end = "missing"
      /\ PoolOK(A.pool, A.tree) /\ IsFiniteSet(Searched(A.pool))
      /\ Searched(A.pool) = Searched(P) \ over
      /\ \A b \in Searched(A.pool) :
           A.pool.search[b] = IF b \in ActiveSearches(P) THEN f[b].search ELSE P.search[b]
      /\ A.requests \in Seq(Request)
      /\ \A r \in Request : Occurs(A.requests, r) =
           IF \E b \in ActiveSearches(P) : \E u \in f[b].asked : f[b].end = "no" /\ r = BlockRequest(u, b)
           THEN 1 ELSE 0

LEMMA AfterSearchesFacts ==
  ASSUME NEW T, WellFormed(T), NEW P, PoolOK(P, T), IsFiniteSet(Searched(P)),
         NEW remotes, NEW online \in SUBSET Url, NEW f, Outcomes(f, P, T, remotes, online)
  PROVE  LeftBy(AfterSearches(P, T, f), f, P, T)
PROOF
  <1> DEFINE active == ActiveSearches(P)
  <1> DEFINE over == { b \in active : f[b].end # "no" }
  <1> DEFINE going == { b \in active : f[b].end = "no" }
  <1> DEFINE gone == { b \in active : f[b].end = "missing" }
  <1> DEFINE lost == SetToSeq(gone)
  <1> DEFINE asks == UNION { { BlockRequest(u, b) : u \in f[b].asked } : b \in going }
  <1> DEFINE S == [b \in Searched(P) |-> IF b \in going THEN f[b].search ELSE P.search[b]]
  <1> DEFINE A == AfterSearches(P, T, f)
  <1>1. /\ P = [search |-> P.search, waiting |-> P.waiting]
        /\ P.search \in [Searched(P) -> SearchState]
        /\ Searched(P) \subseteq T.nodes /\ P.waiting \subseteq Searched(P) /\ T.nodes \subseteq Block
    BY DEF PoolOK, WellFormed, TreeType
  <1>2. active \subseteq Searched(P)
    BY DEF ActiveSearches
  <1>3. ASSUME NEW b \in active
        PROVE  /\ f[b].end = "no" => /\ f[b].search \in SearchState
                                     /\ f[b].asked \subseteq online \ P.search[b].active
               /\ f[b].end = "missing" => b \notin T.held
    <2>1. P.search[b] \in SearchState /\ f[b] \in StepSearch(P.search[b], b, T, remotes, online)
      BY <1>1, <1>2 DEF Outcomes
    <2> QED
      BY <2>1, StepSearchFacts
  <1>4. /\ A.pool = Erase([search |-> S, waiting |-> P.waiting], over)
        /\ A.tree = SetAllMissing(T, lost)
        /\ A.requests = SetToSeq(asks)
    <2>1. DOMAIN f = active
      BY DEF Outcomes
    <2> HIDE DEF active
    <2> QED
      BY <2>1 DEF AfterSearches
  <1>5. IsFiniteSet(active) /\ IsFiniteSet(gone) /\ IsFiniteSet(going)
    <2>1. IsFiniteSet(active)
      BY <1>2, FS_Subset
    <2>2. gone \in SUBSET active /\ going \in SUBSET active
      OBVIOUS
    <2> HIDE DEF gone, going, active
    <2> QED
      BY <2>1, <2>2, FS_Subset
  <1> HIDE DEF A
  (* The tree. *)
  <1>6. lost \in Seq(T.nodes \ T.held) /\ ToSet(lost) = gone
    <2>1. gone \in SUBSET (T.nodes \ T.held)
      BY <1>1, <1>2, <1>3
    <2> HIDE DEF gone
    <2>2. lost \in Seq(gone) /\ ToSet(lost) = gone
      BY <1>5, InSomeOrder
    <2> HIDE DEF lost
    <2> QED
      BY <2>1, <2>2
  <1>7. /\ WellFormed(A.tree) /\ A.tree.nodes = T.nodes /\ A.tree.held = T.held
        /\ \A b \in A.tree.missing : b \in T.missing \/ \E a \in gone : a \in Path(b)
    <2> HIDE DEF lost, gone
    <2> QED
      BY <1>4, <1>6, BlocksLost
  (* The searches. *)
  <1>8. /\ Searched(A.pool) = Searched(P) \ over
        /\ \A b \in Searched(A.pool) : A.pool.search[b] = IF b \in active THEN f[b].search ELSE P.search[b]
        /\ PoolOK(A.pool, A.tree) /\ IsFiniteSet(Searched(A.pool))
    <2> DEFINE Q == [search |-> S, waiting |-> P.waiting]
    <2>1. DOMAIN S = Searched(P) /\ \A b \in Searched(P) : S[b] = IF b \in going THEN f[b].search ELSE P.search[b]
      OBVIOUS
    <2>2. \A b \in Searched(P) : S[b] \in SearchState
      BY <1>1, <1>3, <2>1
    <2>3. Q.search = S /\ Q.waiting = P.waiting /\ Searched(Q) = Searched(P)
      BY <2>1 DEF Searched
    <2> HIDE DEF S, Q
    <2>4. A.pool = [search |-> [b \in Searched(P) \ over |-> S[b]], waiting |-> P.waiting \ over]
      BY <1>4, <2>3 DEF Erase, Q
    <2> HIDE DEF over
    <2>5. /\ A.pool.search = [b \in Searched(P) \ over |-> S[b]] /\ A.pool.waiting = P.waiting \ over
          /\ A.pool = [search |-> A.pool.search, waiting |-> A.pool.waiting]
      BY <2>4
    <2>6. Searched(A.pool) = Searched(P) \ over
      BY <2>5 DEF Searched
    <2>7. \A b \in Searched(A.pool) : A.pool.search[b] = S[b]
      BY <2>5, <2>6
    <2>8. \A b \in Searched(A.pool) : A.pool.search[b] = IF b \in active THEN f[b].search ELSE P.search[b]
      BY <2>1, <2>6, <2>7 DEF over
    <2>9. IsFiniteSet(Searched(A.pool))
      BY <2>6, FS_Subset
    <2>10. A.pool.search \in [Searched(A.pool) -> SearchState]
      BY <2>2, <2>5, <2>6
    <2>11. PoolOK(A.pool, A.tree)
      BY <1>1, <1>7, <2>5, <2>6, <2>10 DEF PoolOK
    <2> QED
      BY <2>6, <2>8, <2>9, <2>11
  (* The requests. *)
  <1>9. asks \subseteq Request
    BY <1>1, <1>2, <1>3, RequestFacts
  <1>10. IsFiniteSet(asks)
    <2> DEFINE pairs == Url \X going
    <2> DEFINE g == [p \in pairs |-> BlockRequest(p[1], p[2])]
    <2>1. IsFiniteSet(pairs)
      <3>1. IsFiniteSet(Url)
        BY SyncAssumption
      <3> HIDE DEF going
      <3> QED
        BY <1>5, <3>1, FS_Product
    <2>2. ASSUME NEW r \in asks
          PROVE  \E p \in pairs : r = g[p]
      <3>1. PICK b \in going : r \in { BlockRequest(u, b) : u \in f[b].asked }
        OBVIOUS
      <3>2. PICK u \in f[b].asked : r = BlockRequest(u, b)
        BY <3>1
      <3>3. u \in Url
        BY <1>3, <3>1, <3>2
      <3>4. <<u, b>> \in pairs /\ g[<<u, b>>] = BlockRequest(u, b)
        BY <3>1, <3>3
      <3> HIDE DEF g, pairs
      <3> QED
        BY <3>2, <3>4
    <2>3. DOMAIN g = pairs /\ g = [p \in pairs |-> g[p]]
      OBVIOUS
    <2> HIDE DEF g, pairs, asks
    <2>4. IsFiniteSet({ g[p] : p \in pairs })
      BY <2>1, <2>3, RangeFinite
    <2>5. asks \subseteq { g[p] : p \in pairs }
      BY <2>2
    <2> QED
      BY <2>4, <2>5, FS_Subset
  <1>11. A.requests \in Seq(Request) /\ \A r \in Request : Occurs(A.requests, r) = IF r \in asks THEN 1 ELSE 0
    <2> HIDE DEF asks
    <2> DEFINE s == SetToSeq(asks)
    <2>1. s \in Seq(asks) /\ ToSet(s) = asks /\ \A i, j \in 1..Len(s) : s[i] = s[j] => i = j
      BY <1>10, InSomeOrder
    <2>2. A.requests = s
      BY <1>4
    <2> HIDE DEF s
    <2>3. s \in Seq(Request)
      BY <1>9, <2>1
    <2> QED
      BY <2>1, <2>2, <2>3, OccursOnce
  <1>12. \A r : r \in asks <=>
           \E b \in active : \E u \in f[b].asked : f[b].end = "no" /\ r = BlockRequest(u, b)
    OBVIOUS
  <1> HIDE DEF asks
  <1>13. LeftBy(A, f, P, T)
    BY <1>7, <1>8, <1>11, <1>12 DEF LeftBy
  <1> QED
    BY <1>13 DEF A

-----------------------------------------------------------------------------
(* What a step asks for. *)

LEMMA AppendJoined ==
  ASSUME NEW T, NEW s \in Seq(T), NEW t \in Seq(T), NEW y \in T
  PROVE  s \o Append(t, y) = Append(s \o t, y)
OBVIOUS

LEMMA OccursJoined ==
  ASSUME NEW T, NEW s \in Seq(T), NEW t \in Seq(T), NEW x
  PROVE  s \o t \in Seq(T) /\ Occurs(s \o t, x) = Occurs(s, x) + Occurs(t, x)
PROOF
  <1> DEFINE n == Len(t)
  <1> DEFINE pre(i) == SubSeq(t, 1, i)
  <1> DEFINE Good == { i \in 0..n : Occurs(s \o pre(i), x) = Occurs(s, x) + Occurs(pre(i), x) }
  <1>1. n \in Nat /\ pre(0) = <<>> /\ pre(n) = t /\ s \o <<>> = s /\ <<>> \in Seq(T) /\ s \o t \in Seq(T)
    OBVIOUS
  <1>2. Occurs(<<>>, x) = 0
    <2>1. { i \in DOMAIN <<>> : <<>>[i] = x } = {}
      OBVIOUS
    <2> QED
      BY <2>1, FS_EmptySet DEF Occurs
  <1>3. Occurs(s, x) \in Nat
    BY OccursFacts
  <1>4. 0 \in Good
    <2>1. s \o pre(0) = s /\ 0 \in 0..n
      BY <1>1
    <2>2. pre(0) = <<>>
      BY <1>1
    <2> HIDE DEF pre
    <2>3. Occurs(s \o pre(0), x) = Occurs(s, x) + Occurs(pre(0), x)
      <3>1. Occurs(s \o pre(0), x) = Occurs(s, x) /\ Occurs(pre(0), x) = 0
        BY <1>2, <2>1, <2>2
      <3> QED
        BY <1>3, <3>1
    <2> QED
      BY <2>1, <2>3
  <1>5. ASSUME NEW i \in 1..n, i - 1 \in Good PROVE i \in Good
    <2>1. /\ pre(i - 1) \in Seq(T) /\ t[i] \in T /\ pre(i) = Append(pre(i - 1), t[i]) /\ i \in 0..n
      BY PrefixGrows
    <2>2. Occurs(s \o pre(i - 1), x) = Occurs(s, x) + Occurs(pre(i - 1), x)
      BY <1>5
    <2> HIDE DEF pre, Good
    <2> DEFINE v == pre(i - 1)
    <2> DEFINE y == t[i]
    <2>3. v \in Seq(T) /\ y \in T
      BY <2>1
    <2> HIDE DEF v, y
    <2>4. s \o v \in Seq(T) /\ s \o Append(v, y) = Append(s \o v, y)
      BY <2>3, AppendJoined
    <2> DEFINE w == s \o v
    <2>w. w \in Seq(T)
      BY <2>4
    <2> HIDE DEF w
    <2>5a. Occurs(Append(w, y), x) = Occurs(w, x) + IF x = y THEN 1 ELSE 0
      BY <2>3, <2>w, OccursAppended
    <2>5b. Occurs(Append(v, y), x) = Occurs(v, x) + IF x = y THEN 1 ELSE 0
      BY <2>3, OccursAppended
    <2>6. Occurs(w, x) \in Nat /\ Occurs(v, x) \in Nat
      BY <2>3, <2>w, OccursFacts
    <2>6a. Occurs(w, x) = Occurs(s, x) + Occurs(v, x) /\ s \o Append(v, y) = Append(w, y)
      BY <2>2, <2>4 DEF v, w
    <2>6b. Occurs(Append(w, y), x) = Occurs(s, x) + Occurs(Append(v, y), x)
      <3>1. CASE x = y
        BY <1>3, <2>5a, <2>5b, <2>6, <2>6a, <3>1
      <3>2. CASE x # y
        BY <1>3, <2>5a, <2>5b, <2>6, <2>6a, <3>2
      <3> QED
        BY <3>1, <3>2
    <2>6c. pre(i) = Append(v, y)
      BY <2>1 DEF v, y
    <2>7. Occurs(s \o pre(i), x) = Occurs(s, x) + Occurs(pre(i), x)
      BY <2>6a, <2>6b, <2>6c
    <2> QED
      BY <2>1, <2>7 DEF Good
  <1>6. n \in Good
    <2>1. n \in 0..n
      BY <1>1
    <2> HIDE DEF Good, n
    <2> QED
      BY <1>1, <1>4, <1>5, <2>1, UpTo
  <1> QED
    BY <1>1, <1>6

(* What is asked of the remote miners themselves: each request once. *)
Asking(R, limit, r) ==
  \E u \in DOMAIN R :
    \/ R[u].state = "OFFLINE" /\ r = InfoRequest(u)
    \/ /\ R[u].state = "ONLINE" /\ Updated(R[u], limit).state = "WAITING_FOR_HEADERS"
       /\ r = HeadersRequest(u, R[u].height)

LEMMA RequestsOfFacts ==
  ASSUME NEW R, R \in [DOMAIN R -> RemoteState], DOMAIN R \subseteq Url, NEW limit \in Nat
  PROVE  /\ RequestsOf(R, limit) \in Seq(Request)
         /\ \A r \in Request : Occurs(RequestsOf(R, limit), r) = IF Asking(R, limit, r) THEN 1 ELSE 0
PROOF
  <1> DEFINE offline == { u \in DOMAIN R : R[u].state = "OFFLINE" }
  <1> DEFINE behind == { u \in DOMAIN R : /\ R[u].state = "ONLINE"
                                          /\ Updated(R[u], limit).state = "WAITING_FOR_HEADERS" }
  <1> DEFINE f == [u \in offline |-> InfoRequest(u)]
  <1> DEFINE g == [u \in behind |-> HeadersRequest(u, R[u].height)]
  <1> DEFINE infos == { InfoRequest(u) : u \in offline }
  <1> DEFINE headers == { HeadersRequest(u, R[u].height) : u \in behind }
  <1> DEFINE all == infos \cup headers
  <1>1. RequestsOf(R, limit) = SetToSeq(all)
    BY DEF RequestsOf
  <1>2. IsFiniteSet(offline) /\ IsFiniteSet(behind)
    <2>1. IsFiniteSet(Url) /\ offline \in SUBSET Url /\ behind \in SUBSET Url
      BY SyncAssumption
    <2> HIDE DEF offline, behind
    <2> QED
      BY <2>1, FS_Subset
  <1>3. IsFiniteSet(infos)
    <2>1. infos = { f[u] : u \in offline } /\ DOMAIN f = offline /\ f = [u \in offline |-> f[u]]
      OBVIOUS
    <2> HIDE DEF f, offline, infos
    <2> QED
      BY <1>2, <2>1, RangeFinite
  <1>4. IsFiniteSet(headers)
    <2>1. headers = { g[u] : u \in behind } /\ DOMAIN g = behind /\ g = [u \in behind |-> g[u]]
      OBVIOUS
    <2> HIDE DEF g, behind, headers
    <2> QED
      BY <1>2, <2>1, RangeFinite
  <1>5. IsFiniteSet(all)
    <2> HIDE DEF infos, headers
    <2> QED
      BY <1>3, <1>4, FS_Union
  <1>6. all \subseteq Request
    <2>1. ASSUME NEW u \in behind
          PROVE  HeadersRequest(u, R[u].height) \in Request
      <3>1. Updated(R[u], limit) \in RemoteState
        BY UpdatedFacts
      <3>2. R[u].height \in { Height(b) : b \in Block } /\ u \in Url
        BY <3>1 DEF RemoteState
      <3> QED
        BY <3>2, RequestFacts
    <2>2. ASSUME NEW u \in offline PROVE InfoRequest(u) \in Request
      BY RequestFacts
    <2> QED
      BY <2>1, <2>2
  <1>7. \A r : r \in all <=> Asking(R, limit, r)
    BY DEF Asking
  <1> HIDE DEF all
  <1> DEFINE s == SetToSeq(all)
  <1>8. s \in Seq(all) /\ ToSet(s) = all /\ \A i, j \in 1..Len(s) : s[i] = s[j] => i = j
    BY <1>5, InSomeOrder
  <1> HIDE DEF s
  <1>9. s \in Seq(Request)
    BY <1>6, <1>8
  <1>10. \A r \in Request : Occurs(s, r) = IF r \in all THEN 1 ELSE 0
    BY <1>8, <1>9, OccursOnce
  <1> QED
    BY <1>1, <1>7, <1>9, <1>10 DEF s

(* What becomes of the searches of n, and what is asked for, in a step. *)
GoneOn(A, n, left, online) ==
  /\ WellFormed(A.tree) /\ A.tree.nodes = n.tree.nodes /\ A.tree.held = n.tree.held
  /\ PoolOK(A.pool, A.tree) /\ IsFiniteSet(Searched(A.pool))
  /\ A.requests \in Seq(Request)
  /\ \A r \in Request : Occurs(A.requests, r) > 0 => r.kind = "block" /\ r.url \in online
  /\ \A b \in Searched(A.pool) : b \notin A.tree.held
  /\ \A b \in Searched(A.pool), u \in Url :
       left[BlockRequest(u, b)] + Occurs(A.requests, BlockRequest(u, b))
         = IF u \in A.pool.search[b].active THEN 1 ELSE 0
  /\ \A b \in Block \ (Searched(A.pool) \cup A.tree.held), u \in Url :
       left[BlockRequest(u, b)] = 0 /\ Occurs(A.requests, BlockRequest(u, b)) = 0
  /\ \A b \in A.tree.missing :
       \/ b \in n.tree.missing \/ online = {}
       \/ \E a \in Path(b) : /\ a \in Searched(n.pool)
                             /\ n.pool.search[a].retries = MaxRetries
                             /\ online \subseteq n.pool.search[a].completed

(***************************************************************************)
(* The searches of a node n in a step: affirmed, activated, and each taken *)
(* further.  Requests and searches match as before, and what is given up   *)
(* had been asked for from everyone who is online.                         *)
(***************************************************************************)
LEMMA SearchesGoOn ==
  ASSUME NEW n \in Nodes, NEW left \in Counts, Matching(left, n), best \in n.tree.nodes,
         NEW tips \in Seq(n.tree.nodes), NEW online \in SUBSET Url, NEW remotes,
         NEW P \in Activated(Affirmed(n.pool, n.tree, tips)),
         NEW A \in UpdateSearches(P, n.tree, remotes, online)
  PROVE  GoneOn(A, n, left, online)
PROOF
  <1> DEFINE T == n.tree
  <1> DEFINE O == n.pool
  <1> DEFINE Q == Affirmed(O, T, tips)
  <1> DEFINE active == ActiveSearches(P)
  <1>1. /\ WellFormed(T) /\ PoolOK(O, T) /\ IsFiniteSet(Searched(O)) /\ T.nodes \subseteq Block
        /\ tips \in Seq(T.nodes) /\ best \in T.nodes
        /\ O.search \in [Searched(O) -> SearchState]
    BY DEF Nodes, NodeOK, PoolOK, WellFormed, TreeType
  <1>2. /\ \A b \in Searched(O) : b \notin T.held
        /\ \A b \in Searched(O), u \in Url :
             left[BlockRequest(u, b)] = IF u \in O.search[b].active THEN 1 ELSE 0
        /\ \A b \in Block \ (Searched(O) \cup T.held), u \in Url : left[BlockRequest(u, b)] = 0
    BY DEF Matching
  <1>3. P \in Activated(Q) /\ A \in UpdateSearches(P, T, remotes, online)
    OBVIOUS
  <1> HIDE DEF T, O
  <1>4. PoolOK(Q, T) /\ IsFiniteSet(Searched(Q)) /\ Extends(Q, O, T)
    BY <1>1, BranchesAffirmed
  <1> HIDE DEF Q
  <1>5. PoolOK(P, T) /\ P.search = Q.search /\ Searched(P) = Searched(Q)
    BY <1>3, <1>4, ActivatedKeeps
  <1>6. /\ PoolOK(P, T) /\ IsFiniteSet(Searched(P)) /\ Searched(O) \subseteq Searched(P)
        /\ \A b \in Searched(O) : P.search[b] = O.search[b]
        /\ \A b \in Searched(P) \ Searched(O) : P.search[b] = Started /\ b \notin T.held
        /\ Searched(P) \subseteq T.nodes /\ P.search \in [Searched(P) -> SearchState]
    BY <1>4, <1>5 DEF Extends, PoolOK
  <1>7. active \subseteq Searched(P)
    BY DEF ActiveSearches
  <1>8. PICK f : Outcomes(f, P, T, remotes, online) /\ A = AfterSearches(P, T, f)
    BY <1>3, OutcomesExist
  <1> DEFINE over == { b \in active : f[b].end # "no" }
  <1>9. /\ WellFormed(A.tree) /\ A.tree.nodes = T.nodes /\ A.tree.held = T.held
        /\ \A b \in A.tree.missing : \/ b \in T.missing
                                     \/ \E a \in active : a \in Path(b) /\ f[a].end = "missing"
        /\ PoolOK(A.pool, A.tree) /\ IsFiniteSet(Searched(A.pool))
        /\ Searched(A.pool) = Searched(P) \ over
        /\ \A b \in Searched(A.pool) :
             A.pool.search[b] = IF b \in active THEN f[b].search ELSE P.search[b]
        /\ A.requests \in Seq(Request)
        /\ \A r \in Request : Occurs(A.requests, r) =
             IF \E b \in active : \E u \in f[b].asked : f[b].end = "no" /\ r = BlockRequest(u, b)
             THEN 1 ELSE 0
    <2>1. LeftBy(A, f, P, T)
      BY <1>1, <1>6, <1>8, AfterSearchesFacts
    <2> QED
      BY <2>1 DEF LeftBy
  <1>10. ASSUME NEW b \in active
         PROVE  /\ f[b].end = "no" => /\ f[b].asked \subseteq online \ P.search[b].active
                                      /\ f[b].search.active = P.search[b].active \cup f[b].asked
                /\ f[b].end # "no" => f[b].end \in {"found", "missing"}
                /\ f[b].end = "found" => b \in T.held
                /\ f[b].end = "missing" => /\ P.search[b].active = {}
                                           /\ online \subseteq P.search[b].completed
                                           /\ online = {} \/ P.search[b].retries = MaxRetries
    <2>1. P.search[b] \in SearchState /\ f[b] \in StepSearch(P.search[b], b, T, remotes, online)
      BY <1>6, <1>7, <1>8 DEF Outcomes
    <2> QED
      BY <2>1, StepSearchFacts
  <1>11. \A b \in Searched(P) : P.search[b].active \subseteq Url
    BY <1>6 DEF SearchState
  <1> HIDE DEF active
  (* Requests made before belong to the searches of P. *)
  <1>12. ASSUME NEW b \in Searched(P), NEW u \in Url
         PROVE  left[BlockRequest(u, b)] = IF u \in P.search[b].active THEN 1 ELSE 0
    <2>1. CASE b \in Searched(O)
      BY <1>2, <1>6, <2>1
    <2>2. CASE b \notin Searched(O)
      <3>1. P.search[b].active = {}
        BY <1>6, <2>2 DEF Started
      <3>2. b \in Block \ (Searched(O) \cup T.held)
        BY <1>1, <1>6, <2>2
      <3> QED
        BY <1>2, <3>1, <3>2
    <2> QED
      BY <2>1, <2>2
  (* Requests made now. *)
  <1>13. ASSUME NEW b \in Block, NEW u \in Url
         PROVE  Occurs(A.requests, BlockRequest(u, b)) =
                  IF b \in active /\ f[b].end = "no" /\ u \in f[b].asked THEN 1 ELSE 0
    <2>1. BlockRequest(u, b) \in Request
      BY RequestFacts
    <2>2. (\E c \in active : \E v \in f[c].asked : f[c].end = "no" /\ BlockRequest(u, b) = BlockRequest(v, c))
             <=> b \in active /\ f[b].end = "no" /\ u \in f[b].asked
      BY RequestsDiffer
    <2> QED
      BY <1>9, <2>1, <2>2
  <1>14. ASSUME NEW b \in Searched(A.pool), NEW u \in Url
         PROVE  left[BlockRequest(u, b)] + Occurs(A.requests, BlockRequest(u, b))
                  = IF u \in A.pool.search[b].active THEN 1 ELSE 0
    <2>1. b \in Searched(P) /\ b \in Block /\ (b \in active => f[b].end = "no")
      BY <1>1, <1>6, <1>9
    <2>2. left[BlockRequest(u, b)] = IF u \in P.search[b].active THEN 1 ELSE 0
      BY <1>12, <2>1
    <2>3. CASE b \in active
      <3>1. /\ A.pool.search[b].active = P.search[b].active \cup f[b].asked
            /\ P.search[b].active \cap f[b].asked = {}
        BY <1>9, <1>10, <2>1, <2>3
      <3>2. Occurs(A.requests, BlockRequest(u, b)) = IF u \in f[b].asked THEN 1 ELSE 0
        BY <1>13, <2>1, <2>3
      <3> QED
        BY <2>2, <3>1, <3>2
    <2>4. CASE b \notin active
      <3>1. A.pool.search[b].active = P.search[b].active
        BY <1>9, <2>4
      <3>2. Occurs(A.requests, BlockRequest(u, b)) = 0
        BY <1>13, <2>1, <2>4
      <3> QED
        BY <2>2, <3>1, <3>2
    <2> QED
      BY <2>3, <2>4
  <1>15. ASSUME NEW b \in Block \ (Searched(A.pool) \cup A.tree.held), NEW u \in Url
         PROVE  left[BlockRequest(u, b)] = 0 /\ Occurs(A.requests, BlockRequest(u, b)) = 0
    <2>1. b \notin T.held /\ (b \notin Searched(P) \/ b \in over)
      BY <1>9
    <2>2. CASE b \notin Searched(P)
      <3>1. b \notin Searched(O) /\ b \notin active
        BY <1>6, <1>7, <2>2
      <3> QED
        BY <1>2, <1>13, <2>1, <3>1
    <2>3. CASE b \in over
      <3>1. b \in active /\ f[b].end = "missing"
        BY <1>10, <2>1, <2>3
      <3>2. b \in Searched(P) /\ P.search[b].active = {}
        BY <1>7, <1>10, <3>1
      <3> QED
        BY <1>12, <1>13, <3>1, <3>2
    <2> QED
      BY <2>1, <2>2, <2>3
  <1>16. ASSUME NEW b \in A.tree.missing
         PROVE  \/ b \in T.missing \/ online = {}
                \/ \E a \in Path(b) : /\ a \in Searched(O) /\ O.search[a].retries = MaxRetries
                                      /\ online \subseteq O.search[a].completed
    <2>1. CASE b \in T.missing
      BY <2>1
    <2>2. CASE b \notin T.missing
      <3>1. PICK a \in active : a \in Path(b) /\ f[a].end = "missing"
        BY <1>9, <2>2
      <3>2. /\ online \subseteq P.search[a].completed /\ a \in Searched(P)
            /\ online = {} \/ P.search[a].retries = MaxRetries
        BY <1>7, <1>10, <3>1
      <3>3. CASE a \in Searched(O)
        BY <1>6, <3>1, <3>2, <3>3
      <3>4. CASE a \notin Searched(O)
        <4>1. P.search[a].completed = {}
          BY <1>6, <3>2, <3>4 DEF Started
        <4> QED
          BY <3>2, <4>1
      <3> QED
        BY <3>3, <3>4
    <2> QED
      BY <2>1, <2>2
  <1>17. ASSUME NEW r \in Request, Occurs(A.requests, r) > 0 PROVE r.kind = "block" /\ r.url \in online
    <2>1. PICK b \in active : \E u \in f[b].asked : f[b].end = "no" /\ r = BlockRequest(u, b)
      BY <1>9, <1>17
    <2>2. PICK u \in f[b].asked : f[b].end = "no" /\ r = BlockRequest(u, b)
      BY <2>1
    <2> QED
      BY <1>10, <2>2, RequestsDiffer
  <1>18. \A b \in Searched(A.pool) : b \notin A.tree.held
    BY <1>2, <1>6, <1>9
  <1> QED
    BY <1>9, <1>14, <1>15, <1>16, <1>17, <1>18 DEF T, O, GoneOn

-----------------------------------------------------------------------------
(* The invariant. *)

(* What lies outside of the node's state, and whether the node runs. *)
WorldOK == /\ up \in BOOLEAN /\ moved \subseteq Url \ Own
           /\ chain \in [Url \ Own -> Chain] /\ faults \in 0..MaxFaults

(***************************************************************************)
(* The node's parts fit each other, and so do the node and the requests    *)
(* under way.                                                              *)
(***************************************************************************)
Sound ==
  /\ Before \in Nodes /\ messenger \in Messengers /\ inbox \in Seq(Response)
  /\ best \in tree.nodes
  /\ WorldOK
  /\ \A i \in DOMAIN inbox : Plausible(inbox[i])
  /\ Consistent(Left, Before)

(* The node and the requests that are left after a step. *)
NodeAfter == [remote |-> remote', completed |-> completed', tree |-> tree', tag |-> tag',
              pool |-> pool', searching |-> searching']
LeftAfter == [r \in Request |->
                TimesAsked(messenger', r) + Cardinality({ i \in DOMAIN inbox' : inbox'[i].request = r })]

LEMMA SoundAfter ==
  ASSUME NodeAfter \in Nodes, messenger' \in Messengers, inbox' \in Seq(Response),
         best' \in tree'.nodes, WorldOK',
         \A i \in DOMAIN inbox' : Plausible(inbox'[i]), Consistent(LeftAfter, NodeAfter)
  PROVE  Sound'
PROOF
  <1>1. Before' = NodeAfter
    BY DEF Before, NodeAfter
  <1>2. Left' = LeftAfter
    BY DEF Left, Copies, LeftAfter
  <1> QED
    BY <1>1, <1>2 DEF Sound

LEMMA LeftCounts ==
  ASSUME messenger \in Messengers, inbox \in Seq(Response)
  PROVE  /\ Left \in Counts /\ Unreturned \in Counts
         /\ \A r \in Request : /\ Left[r] = TimesAsked(messenger, r) + Occurs(Asks(inbox), r)
                               /\ TimesAsked(messenger, r) \in Nat /\ Occurs(Asks(inbox), r) \in Nat
PROOF
  <1>1. ASSUME NEW r \in Request
        PROVE  /\ Left[r] = TimesAsked(messenger, r) + Occurs(Asks(inbox), r)
               /\ TimesAsked(messenger, r) \in Nat /\ Occurs(Asks(inbox), r) \in Nat
    <2>1. Left[r] = TimesAsked(messenger, r) + Occurs(Asks(inbox), r)
      BY AsksFacts DEF Left, Copies
    <2>2. TimesAsked(messenger, r) \in Nat
      BY TimesFacts
    <2>3. Occurs(Asks(inbox), r) \in Nat
      BY AsksFacts, OccursFacts
    <2> QED
      BY <2>1, <2>2, <2>3
  <1>2. Left \in Counts
    BY <1>1 DEF Left, Counts
  <1>3. Unreturned \in Counts
    BY <1>1 DEF Unreturned, Counts
  <1> QED
    BY <1>1, <1>2, <1>3

LEMMA SoundMeans ==
  ASSUME Sound
  PROVE  TypeOK /\ NobodyWaitsInVain /\ SearchesMatchRequests
PROOF
  <1>1. /\ NodeOK(Before) /\ MessengerOK(messenger) /\ Consistent(Left, Before)
        /\ inbox \in Seq(Response) /\ messenger \in Messengers
    BY MessengersAre DEF Sound, Nodes
  <1>2. TypeOK
    BY <1>1 DEF Sound, WorldOK, NodeOK, Before, TypeOK, Remotes
  <1>3. ASSUME NEW r \in Request, Left[r] > 0 PROVE r \in InFlight
    <2>1. /\ Left[r] = TimesAsked(messenger, r) + Occurs(Asks(inbox), r)
          /\ TimesAsked(messenger, r) \in Nat /\ Occurs(Asks(inbox), r) \in Nat
      BY <1>1, LeftCounts
    <2>2. CASE TimesAsked(messenger, r) > 0
      BY <1>1, <2>2, TimesFacts DEF InFlight
    <2>3. CASE Occurs(Asks(inbox), r) > 0
      <3>1. Asks(inbox) \in Seq(Request) /\ Len(Asks(inbox)) = Len(inbox)
            /\ \A i \in 1..Len(inbox) : Asks(inbox)[i] = inbox[i].request
        BY <1>1, AsksFacts
      <3>2. r \in ToSet(Asks(inbox))
        BY <2>3, <3>1, OccursFacts
      <3>3. PICK i \in 1..Len(inbox) : inbox[i].request = r
        BY <3>1, <3>2 DEF ToSet
      <3> QED
        BY <1>1, <3>3 DEF InFlight, Seen
    <2> QED
      BY <1>3, <2>1, <2>2, <2>3
  <1>4. NobodyWaitsInVain
    <2>1. Awaited(Left, Before)
      BY <1>1 DEF Consistent
    <2>2. /\ Remotes \subseteq Url
          /\ \A u \in Remotes :
               /\ remote[u].state = "WAITING_FOR_INFO" => Left[InfoRequest(u)] > 0
               /\ remote[u].state = "WAITING_FOR_HEADERS" =>
                    \E h \in Heights : Left[HeadersRequest(u, h)] > 0
          /\ searching => \E u \in Remotes : Left[NetworkRequest(u)] > 0
      BY <1>2, <2>1 DEF Awaited, Before, Remotes, TypeOK
    <2>3. ASSUME NEW u \in Remotes
          PROVE  /\ remote[u].state = "WAITING_FOR_INFO" => InfoRequest(u) \in InFlight
                 /\ remote[u].state = "WAITING_FOR_HEADERS" =>
                      \E r \in InFlight : r.kind = "headers" /\ r.url = u
      <3>1. u \in Url /\ InfoRequest(u) \in Request
            /\ \A h \in Heights : HeadersRequest(u, h) \in Request
        BY <2>2, RequestFacts DEF Heights
      <3> QED
        BY <1>3, <2>2, <3>1, RequestsDiffer
    <2>4. ASSUME searching PROVE \E r \in InFlight : r.kind = "network" /\ r.url \in Remotes
      <3>1. PICK u \in Remotes : Left[NetworkRequest(u)] > 0
        BY <2>2, <2>4
      <3>2. NetworkRequest(u) \in Request
        BY <2>2, RequestFacts
      <3> QED
        BY <1>3, <3>1, <3>2, RequestsDiffer
    <2> QED
      BY <2>3, <2>4 DEF NobodyWaitsInVain
  <1>5. SearchesMatchRequests
    <2>1. \A b \in Searched(pool), u \in Url : Left[BlockRequest(u, b)] = IF u \in pool.search[b].active THEN 1 ELSE 0
      BY <1>1 DEF Consistent, Matching, Before
    <2>2. \A b \in Searched(pool) : b \in Block
      BY <1>2 DEF TypeOK, PoolOK, WellFormed, TreeType
    <2>3. ASSUME NEW b \in Searched(pool), NEW u \in Url
          PROVE  Copies(BlockRequest(u, b)) = IF u \in pool.search[b].active THEN 1 ELSE 0
      <3>1. BlockRequest(u, b) \in Request
        BY <2>2, RequestFacts
      <3>2. Left[BlockRequest(u, b)] = Copies(BlockRequest(u, b))
        BY <3>1 DEF Left
      <3> QED
        BY <2>1, <3>2
    <2> QED
      BY <2>3 DEF SearchesMatchRequests
  <1> QED
    BY <1>2, <1>4, <1>5

(* The node unchanged, and as many copies of every request. *)
LEMMA NothingHeard ==
  ASSUME Sound, UNCHANGED node, messenger' \in Messengers, inbox' \in Seq(Response),
         \A i \in DOMAIN inbox' : Plausible(inbox'[i]),
         WorldOK',
         \A r \in Request : LeftAfter[r] = Left[r]
  PROVE  Sound'
PROOF
  <1>1. NodeAfter = Before /\ best' = best /\ tree' = tree
    BY DEF NodeAfter, Before, node
  <1>2. LeftAfter = Left
    BY DEF LeftAfter, Left
  <1>3. Before \in Nodes /\ best \in tree.nodes /\ Consistent(Left, Before)
    BY DEF Sound
  <1> QED
    BY <1>1, <1>2, <1>3, SoundAfter

(* A request that ends with an answer is still one copy of it. *)
LEMMA AnswerMoves ==
  ASSUME messenger \in Messengers, inbox \in Seq(Response),
         NEW q \in DOMAIN messenger.running, NEW a \in Response, a.request = q,
         messenger' \in CompleteRequest(messenger, q), inbox' = Append(inbox, a)
  PROVE  /\ messenger' \in Messengers /\ inbox' \in Seq(Response)
         /\ \A r \in Request : LeftAfter[r] = Left[r]
PROOF
  <1>2. /\ messenger' \in Messengers
        /\ \A r \in Request : TimesAsked(messenger', r) = TimesAsked(messenger, r) - IF r = q THEN 1 ELSE 0
    BY CompleteRequestTakes
  <1>3. inbox' \in Seq(Response) /\ Asks(inbox') = Append(Asks(inbox), q) /\ q \in Request
    BY AsksFacts, AnswersRequests
  <1>5. ASSUME NEW r \in Request PROVE LeftAfter[r] = Left[r]
    <2>1. /\ Left[r] = TimesAsked(messenger, r) + Occurs(Asks(inbox), r)
          /\ TimesAsked(messenger, r) \in Nat /\ Occurs(Asks(inbox), r) \in Nat
      BY LeftCounts
    <2>2. LeftAfter[r] = TimesAsked(messenger', r) + Occurs(Asks(inbox'), r)
      BY <1>3, AsksFacts DEF LeftAfter
    <2>3. Occurs(Append(Asks(inbox), q), r) = Occurs(Asks(inbox), r) + IF r = q THEN 1 ELSE 0
      BY <1>3, AsksFacts, OccursAppended
    <2>4. Asks(inbox') = Append(Asks(inbox), q)
      BY <1>3
    <2>5. TimesAsked(messenger', r) = TimesAsked(messenger, r) - IF r = q THEN 1 ELSE 0
      BY <1>2
    <2>6. CASE r = q
      BY <2>1, <2>2, <2>3, <2>4, <2>5, <2>6
    <2>7. CASE r # q
      BY <2>1, <2>2, <2>3, <2>4, <2>5, <2>7
    <2> QED
      BY <2>6, <2>7
  <1> QED
    BY <1>2, <1>3, <1>5

LEMMA AnswerArrives ==
  ASSUME Sound, NEW q \in DOMAIN messenger.running, NEW a \in Response, a.request = q, Plausible(a),
         UNCHANGED node, messenger' \in CompleteRequest(messenger, q), inbox' = Append(inbox, a),
         WorldOK'
  PROVE  Sound'
PROOF
  <1>1. messenger \in Messengers /\ inbox \in Seq(Response) /\ \A i \in DOMAIN inbox : Plausible(inbox[i])
    BY DEF Sound
  <1>2. /\ messenger' \in Messengers /\ inbox' \in Seq(Response)
        /\ \A r \in Request : LeftAfter[r] = Left[r]
    BY <1>1, AnswerMoves
  <1>3. \A i \in DOMAIN inbox' : Plausible(inbox'[i])
    BY <1>1
  <1> QED
    BY <1>2, <1>3, NothingHeard

LEMMA AnswersFit ==
  ASSUME Sound, NEW q \in DOMAIN messenger.running
  PROVE  /\ q \in Request
         /\ \A a \in Answers(q) : a \in Response /\ a.request = q /\ Plausible(a)
         /\ Failed(q) \in Response /\ Failed(q).request = q /\ Plausible(Failed(q))
PROOF
  <1>1. /\ messenger \in Messengers /\ inbox \in Seq(Response) /\ Consistent(Left, Before)
        /\ chain \in [Url \ Own -> Chain]
    BY DEF Sound, WorldOK
  <1>2. q \in Request
    BY <1>1, MessengersAre DEF MessengerOK
  <1>3. q.url \in Url /\ q.kind \in Kind
    BY <1>2, RequestFacts
  <1>4. q.url \in Own => q.kind = "info"
    <2>1. TimesAsked(messenger, q) > 0
      <3>1. /\ TimesRunning(messenger, q) \in Nat /\ TimesWaiting(messenger, q) \in Nat
            /\ TimesRunning(messenger, q) > 0
        BY <1>1, <1>2, TimesFacts
      <3> QED
        BY <3>1 DEF TimesAsked
    <2>2. Left[q] > 0
      <3>1. /\ Left[q] = TimesAsked(messenger, q) + Occurs(Asks(inbox), q)
            /\ TimesAsked(messenger, q) \in Nat /\ Occurs(Asks(inbox), q) \in Nat
        BY <1>1, <1>2, LeftCounts
      <3> QED
        BY <2>1, <3>1
    <2> QED
      BY <1>1, <1>2, <2>2 DEF Consistent, Reaching
  <1>6. <<>> \in Seq(Block \cup {Foreign})
    OBVIOUS
  <1>7. Failed(q) \in Response /\ Failed(q).request = q /\ Plausible(Failed(q))
    <2>1. Failed(q) \in Response /\ Failed(q).request = q /\ Failed(q).own = FALSE /\ Failed(q).error = TRUE
      BY <1>2, <1>6 DEF Failed, Answer, Response
    <2> QED
      BY <2>1 DEF Plausible
  <1>8. ASSUME NEW a \in Answers(q) PROVE a \in Response /\ a.request = q /\ Plausible(a)
    <2>1. CASE q.kind = "info" /\ q.url \in Own
      <3>1. a = Answer(q, FALSE, TRUE, TRUE, <<>>, FALSE, {})
        BY <2>1 DEF Answers
      <3>2. a \in Response /\ a.request = q /\ a.own = TRUE /\ a.error = FALSE
        BY <1>2, <1>6, <3>1 DEF Answer, Response
      <3> QED
        BY <2>1, <3>2 DEF Plausible
    <2>2. CASE ~(q.kind = "info" /\ q.url \in Own)
      <3>1. q.url \notin Own
        BY <1>4, <2>2
      <3> DEFINE tip == chain[q.url]
      <3>2. tip \in Block \cup {Foreign}
        BY <1>1, <1>3, <3>1, SyncAssumption
      <3>3. CASE q.kind = "info"
        <4>1. a = Answer(q, FALSE, FALSE, tip # Foreign, <<>>, FALSE, {})
          BY <3>1, <3>3 DEF Answers
        <4>2. a \in Response /\ a.request = q /\ a.own = FALSE
          BY <1>2, <1>6, <4>1 DEF Answer, Response
        <4> QED
          BY <3>1, <4>2 DEF Plausible
      <3>4. CASE q.kind = "headers"
        <4> DEFINE headers == IF tip = Foreign THEN <<Foreign>> ELSE HeadersFrom(tip, q.height)
        <4>1. a = Answer(q, FALSE, FALSE, FALSE, headers, FALSE, {})
          BY <3>4 DEF Answers
        <4>2. q.height \in { Height(b) : b \in Block }
          BY <1>2, <3>4, RequestFacts
        <4>3. headers \in Seq(Block \cup {Foreign})
          <5>1. CASE tip = Foreign
            BY <5>1
          <5>2. CASE tip # Foreign
            <6>1. tip \in Block /\ q.height \in Heights
              BY <3>2, <4>2, <5>2 DEF Heights
            <6>2. HeadersFrom(tip, q.height) \in Seq(Block)
              <7> HIDE DEF tip
              <7> QED
                BY <6>1, HeadersFromFits
            <6> HIDE DEF tip
            <6> QED
              BY <5>2, <6>2
          <5> QED
            BY <5>1, <5>2
        <4> HIDE DEF headers
        <4>4. a \in Response /\ a.request = q /\ a.own = FALSE
          BY <1>2, <4>1, <4>3 DEF Answer, Response
        <4> QED
          BY <3>1, <4>4 DEF Plausible
      <3>5. CASE q.kind = "block"
        <4> DEFINE found == tip # Foreign /\ q.hash \in Path(tip)
        <4>1. a = Answer(q, FALSE, FALSE, FALSE, <<>>, found, {})
          BY <3>5 DEF Answers
        <4>2. found \in BOOLEAN
          OBVIOUS
        <4> HIDE DEF found
        <4>3. a \in Response /\ a.request = q /\ a.own = FALSE
          BY <1>2, <1>6, <4>1, <4>2 DEF Answer, Response
        <4> QED
          BY <3>1, <4>3 DEF Plausible
      <3>6. CASE q.kind = "network"
        <4>1. a = Answer(q, FALSE, FALSE, FALSE, <<>>, FALSE, Url)
          BY <3>6 DEF Answers
        <4>2. a \in Response /\ a.request = q /\ a.own = FALSE
          BY <1>2, <1>6, <4>1 DEF Answer, Response
        <4> QED
          BY <3>1, <4>2 DEF Plausible
      <3> QED
        BY <1>3, <3>3, <3>4, <3>5, <3>6 DEF Kind
    <2> QED
      BY <2>1, <2>2
  <1> QED
    BY <1>2, <1>7, <1>8

(* A node that has just been started, and has asked for nothing. *)
LEMMA FreshNode ==
  ASSUME NEW D \in SUBSET Url, Seeds \subseteq D, NEW T, WellFormed(T),
         NEW row \in [Url -> T.nodes \cup {None}], NEW left, \A r \in Request : left[r] = 0
  PROVE  LET n == [remote |-> [u \in D |-> Unknown], completed |-> D, tree |-> T, tag |-> row,
                   pool |-> NoSearch, searching |-> FALSE]
         IN  n \in Nodes /\ Consistent(left, n)
PROOF
  <1> DEFINE R == [u \in D |-> Unknown]
  <1> DEFINE n == [remote |-> R, completed |-> D, tree |-> T, tag |-> row,
                   pool |-> NoSearch, searching |-> FALSE]
  <1>1. DOMAIN R = D /\ R \in [D -> RemoteState] /\ \A u \in D : R[u].state = "OFFLINE"
    BY UnknownKnown
  <1>2. Searched(NoSearch) = {} /\ PoolOK(NoSearch, T) /\ IsFiniteSet(Searched(NoSearch))
    <2>1. Searched(NoSearch) = {}
      BY DEF Searched, NoSearch
    <2>2. PoolOK(NoSearch, T)
      BY <2>1 DEF PoolOK, NoSearch, Searched
    <2> QED
      BY <2>1, <2>2, FS_EmptySet
  <1> HIDE DEF R
  <1>3. /\ n.remote = R /\ n.completed = D /\ n.tree = T /\ n.tag = row /\ n.pool = NoSearch
        /\ n.searching = FALSE
        /\ n = [remote |-> n.remote, completed |-> n.completed, tree |-> n.tree, tag |-> n.tag,
                pool |-> n.pool, searching |-> n.searching]
    OBVIOUS
  <1> HIDE DEF n
  <1>4. NodeOK(n)
    BY <1>1, <1>2, <1>3 DEF NodeOK
  <1>5. n \in Nodes
    BY <1>3, <1>4, NodesAre
  <1>6. Awaited(left, n)
    BY <1>1, <1>3 DEF Awaited
  <1>7. Matching(left, n)
    BY <1>2, <1>3, RequestFacts DEF Matching
  <1>8. Reaching(left, n)
    BY <1>1, <1>3 DEF Reaching
  <1> QED
    BY <1>5, <1>6, <1>7, <1>8 DEF Consistent, n, R

LEMMA NobodyAnswered ==
  /\ <<>> \in Seq(Response) /\ DOMAIN <<>> = {}
  /\ \A r : Cardinality({ i \in DOMAIN <<>> : <<>>[i].request = r }) = 0
PROOF
  <1>1. <<>> \in Seq(Response) /\ DOMAIN <<>> = {}
    OBVIOUS
  <1>2. ASSUME NEW r PROVE Cardinality({ i \in DOMAIN <<>> : <<>>[i].request = r }) = 0
    <2>1. { i \in DOMAIN <<>> : <<>>[i].request = r } = {}
      BY <1>1
    <2> QED
      BY <2>1, FS_EmptySet
  <1> QED
    BY <1>1, <1>2

LEMMA InitSound == Init => Sound
PROOF
  <1> SUFFICES ASSUME Init PROVE Sound
    OBVIOUS
  <1>1. /\ remote = [u \in Seeds |-> Unknown] /\ completed = Seeds /\ tree = GenesisTree
        /\ tag = [u \in Url |-> None] /\ pool = NoSearch /\ searching = FALSE /\ best = Genesis
        /\ messenger = NoRequests /\ inbox = <<>> /\ up = TRUE /\ moved = {}
        /\ chain \in [Url \ Own -> Chain] /\ faults = 0
    BY DEF Init
  <1>2. WellFormed(tree) /\ best \in tree.nodes
    BY <1>1, GenesisWellFormed, TreeAssumption DEF GenesisTree
  <1>3. \A r \in Request : Left[r] = 0
    BY <1>1, NoRequestsMade, NobodyAnswered DEF Left, Copies
  <1>4. Before \in Nodes /\ Consistent(Left, Before)
    <2>1. /\ Seeds \in SUBSET Url
          /\ tag \in [Url -> tree.nodes \cup {None}]
      BY <1>1, SyncAssumption
    <2> QED
      BY <1>1, <1>2, <1>3, <2>1, FreshNode DEF Before
  <1>5. messenger \in Messengers /\ inbox \in Seq(Response) /\ \A i \in DOMAIN inbox : Plausible(inbox[i])
    BY <1>1, NoRequestsMade, NobodyAnswered
  <1>6. WorldOK
    BY <1>1, SyncAssumption DEF WorldOK
  <1> QED
    BY <1>1, <1>2, <1>4, <1>5, <1>6 DEF Sound

LEMMA WorldKept ==
  ASSUME Sound, [Next]_vars
  PROVE  WorldOK'
PROOF
  <1>1. WorldOK
    BY DEF Sound
  <1>2. Fault => faults' \in 0..MaxFaults
    BY <1>1, SyncAssumption DEF WorldOK, Fault
  <1>3. CASE Step \/ Idle \/ StartAgain \/ Restart \/ Abort \/ UNCHANGED vars
    BY <1>1, <1>2, <1>3 DEF WorldOK, Step, Idle, StartAgain, Restart, Abort, world, node, vars
  <1>4. ASSUME NEW r \in Request, Finish(r) \/ Fail(r) PROVE WorldOK'
    BY <1>1, <1>2, <1>4 DEF WorldOK, Finish, Fail, world, node
  <1>5. ASSUME NEW u \in Url \ Own, NEW b \in Chain, Grow(u, b) \/ Reorg(u, b) PROVE WorldOK'
    BY <1>1, <1>2, <1>5 DEF WorldOK, Grow, Reorg, node
  <1> QED
    BY <1>3, <1>4, <1>5 DEF Next

(* Headers cut short are still headers. *)
LEMMA CutFits ==
  ASSUME NEW a \in Response, Plausible(a), NEW b \in Cut(a)
  PROVE  b \in Response /\ b.request = a.request /\ Plausible(b)
PROOF
  <1>1. PICK k \in 0..(Len(a.headers) - 1) : b = [a EXCEPT !.headers = SubSeq(@, 1, k)]
    BY DEF Cut
  <1>2. a.headers \in Seq(Block \cup {Foreign})
    BY DEF Response
  <1> DEFINE some == SubSeq(a.headers, 1, k)
  <1>3. some \in Seq(Block \cup {Foreign}) /\ b = [a EXCEPT !.headers = some]
    BY <1>1, <1>2
  <1> HIDE DEF some
  <1>4. b \in Response /\ b.request = a.request /\ b.own = a.own /\ b.error = a.error
    BY <1>3 DEF Response
  <1> QED
    BY <1>4 DEF Plausible

LEMMA FinishKeeps ==
  ASSUME Sound, WorldOK', NEW r \in Request, Finish(r) \/ Fail(r)
  PROVE  Sound'
PROOF
  <1>1. /\ r \in DOMAIN messenger.running /\ messenger' \in CompleteRequest(messenger, r)
        /\ UNCHANGED node
    BY DEF Finish, Fail
  <1>2. PICK a : /\ inbox' = Append(inbox, a)
                 /\ a \in Answers(r) \/ a = Failed(r) \/ \E b \in Answers(r) : a \in Cut(b)
    BY DEF Finish, Fail
  <1>3. a \in Response /\ a.request = r /\ Plausible(a)
    BY <1>1, <1>2, AnswersFit, CutFits
  <1> QED
    BY <1>1, <1>2, <1>3, AnswerArrives

LEMMA IdleKeeps ==
  ASSUME Sound, WorldOK', Idle
  PROVE  Sound'
PROOF
  <1>1. /\ messenger \in Messengers /\ messenger.leaving > 0 /\ messenger' = ThreadIdle(messenger)
        /\ UNCHANGED <<node, inbox>>
    BY DEF Sound, Idle
  <1>2. /\ messenger' \in Messengers
        /\ \A r \in Request : TimesAsked(messenger', r) = TimesAsked(messenger, r)
    BY <1>1, ThreadIdleKeeps
  <1>3. \A r \in Request : LeftAfter[r] = Left[r]
    BY <1>1, <1>2 DEF LeftAfter, Left, Copies
  <1> QED
    BY <1>1, <1>2, <1>3, NothingHeard DEF Sound

(* What touches neither the node nor the requests. *)
LEMMA RestKeeps ==
  ASSUME Sound, WorldOK',
         UNCHANGED <<remote, completed, tree, tag, pool, searching, best, messenger, inbox>>
  PROVE  Sound'
PROOF
  <1>1. \A r \in Request : LeftAfter[r] = Left[r]
    BY DEF LeftAfter, Left, Copies
  <1>2. /\ messenger' \in Messengers /\ inbox' \in Seq(Response)
        /\ \A i \in DOMAIN inbox' : Plausible(inbox'[i])
    BY DEF Sound
  <1>3. NodeAfter = Before /\ LeftAfter = Left
    BY <1>1 DEF NodeAfter, Before, LeftAfter, Left
  <1>4. Before \in Nodes /\ best' \in tree'.nodes /\ Consistent(Left, Before)
    BY DEF Sound
  <1> QED
    BY <1>2, <1>3, <1>4, SoundAfter

LEMMA ForgetKeeps ==
  ASSUME Sound, WorldOK', Forget, WellFormed(tree'), tree.nodes \subseteq tree'.nodes,
         tag' \in [Url -> tree'.nodes \cup {None}]
  PROVE  Sound'
PROOF
  <1>1. PICK known \in {Seeds, Seeds \cup Remotes} :
          remote' = [u \in known |-> Unknown] /\ completed' = known
    BY DEF Forget
  <1>2. /\ pool' = NoSearch /\ searching' = FALSE /\ messenger' = NoRequests /\ inbox' = <<>>
        /\ best' = LedgerOf(tree, best)
    BY DEF Forget
  <1>3. TypeOK
    BY SoundMeans
  <1>4. /\ WellFormed(tree) /\ best \in tree.nodes /\ known \in SUBSET Url /\ Seeds \subseteq known
    BY <1>1, <1>3, SyncAssumption DEF TypeOK
  <1>5. best' \in tree'.nodes
    BY <1>2, <1>4, EndsExist
  <1>6. \A r \in Request : LeftAfter[r] = 0
    BY <1>2, NoRequestsMade, NobodyAnswered DEF LeftAfter
  <1>7. NodeAfter \in Nodes /\ Consistent(LeftAfter, NodeAfter)
    BY <1>1, <1>2, <1>4, <1>6, FreshNode DEF NodeAfter
  <1>8. /\ messenger' \in Messengers /\ inbox' \in Seq(Response)
        /\ \A i \in DOMAIN inbox' : Plausible(inbox'[i])
    BY <1>2, NoRequestsMade, NobodyAnswered
  <1> QED
    BY <1>5, <1>7, <1>8, SoundAfter

LEMMA RestartKeeps ==
  ASSUME Sound, WorldOK', Restart
  PROVE  Sound' /\ UNCHANGED tree
PROOF
  <1>1. Forget /\ tree' = tree /\ tag' = tag
    BY DEF Restart
  <1>2. WellFormed(tree) /\ tag \in [Url -> tree.nodes \cup {None}]
    BY SoundMeans DEF TypeOK
  <1> QED
    BY <1>1, <1>2, ForgetKeeps

(* What has been read when the process ends is in the tree. *)
LEMMA AbortKeeps ==
  ASSUME Sound, WorldOK', Abort
  PROVE  Sound' /\ { u \in DOMAIN remote' : IsOnline(remote'[u]) } = {}
PROOF
  <1>1. PICK k \in DOMAIN inbox : \E n \in Heard(k - 1) :
          tree' = Receive(n, inbox[k]).tree /\ tag' = Receive(n, inbox[k]).tag
    BY DEF Abort
  <1>2. PICK n \in Heard(k - 1) :
          tree' = Receive(n, inbox[k]).tree /\ tag' = Receive(n, inbox[k]).tag
    BY <1>1
  <1>3. Before \in Nodes /\ inbox \in Seq(Response)
    BY DEF Sound
  <1>4. k - 1 \in 0..Len(inbox) /\ inbox[k] \in Response
    BY <1>3
  <1>5. n \in Nodes /\ tree.nodes \subseteq n.tree.nodes
    BY <1>2, <1>3, <1>4, HeardFits
  <1>6. Receive(n, inbox[k]) \in Nodes /\ Since(Receive(n, inbox[k]), n, inbox[k])
    BY <1>4, <1>5, ReceiveFits
  <1>7. /\ WellFormed(tree') /\ tag' \in [Url -> tree'.nodes \cup {None}]
        /\ tree.nodes \subseteq tree'.nodes
    BY <1>2, <1>5, <1>6 DEF Nodes, NodeOK, Since
  <1>8. Forget
    BY DEF Abort
  <1>9. Sound'
    BY <1>7, <1>8, ForgetKeeps
  <1>10. { u \in DOMAIN remote' : IsOnline(remote'[u]) } = {}
    <2>1. PICK known : remote' = [u \in known |-> Unknown]
      BY <1>8 DEF Forget
    <2> QED
      BY <2>1 DEF IsOnline, Unknown
  <1> QED
    BY <1>9, <1>10

-----------------------------------------------------------------------------
(* The step. *)

(* What is asked for in a step by the search for miners. *)
Polls(n, online) ==
  IF n.searching \/ online = {} THEN {<<>>} ELSE { <<NetworkRequest(u)>> : u \in online }

LEMMA PollFacts ==
  ASSUME NEW n, n.searching \in BOOLEAN, NEW online \in SUBSET Url, NEW poll \in Polls(n, online)
  PROVE  /\ poll \in Seq(Request)
         /\ \A r \in Request : /\ Occurs(poll, r) \in Nat
                               /\ Occurs(poll, r) > 0 => r.kind = "network" /\ r.url \in online
         /\ poll # <<>> => \E u \in online : Occurs(poll, NetworkRequest(u)) > 0
PROOF
  <1>1. CASE poll = <<>>
    <2>1. poll \in Seq(Request) /\ ToSet(poll) = {}
      BY <1>1 DEF ToSet
    <2> QED
      BY <1>1, <2>1, OccursFacts
  <1>2. CASE poll # <<>>
    <2>1. PICK u \in online : poll = <<NetworkRequest(u)>>
      BY <1>2 DEF Polls
    <2> DEFINE q == NetworkRequest(u)
    <2>2. q \in Request /\ q.kind = "network" /\ q.url = u
      BY RequestFacts, RequestsDiffer
    <2> HIDE DEF q
    <2>3. poll = <<q>>
      BY <2>1 DEF q
    <2>4. poll \in Seq(Request) /\ ToSet(poll) = {q}
      BY <2>2, <2>3 DEF ToSet
    <2>5. \A r \in Request : Occurs(poll, r) \in Nat /\ (Occurs(poll, r) > 0 <=> r \in ToSet(poll))
      BY <2>4, OccursFacts
    <2>6. \A r \in Request : Occurs(poll, r) > 0 <=> r = q
      BY <2>4, <2>5
    <2>7. Occurs(poll, NetworkRequest(u)) > 0
      BY <2>2, <2>6 DEF q
    <2> QED
      BY <2>2, <2>4, <2>5, <2>6, <2>7
  <1> QED
    BY <1>1, <1>2

(* What a step does to a node n that has taken in the answers on hand. *)
GoesOn(n, online, limit, tips, P, A, poll) ==
  /\ online = { u \in DOMAIN n.remote : IsOnline(n.remote[u]) }
  /\ limit \in Nat
  /\ tips \in Seq(n.tree.nodes)
  /\ P \in Activated(Affirmed(n.pool, n.tree, tips))
  /\ A \in UpdateSearches(P, n.tree, DOMAIN n.remote, online)
  /\ poll \in Polls(n, online)
  /\ remote' = [u \in DOMAIN n.remote |-> Updated(n.remote[u], limit)]
  /\ completed' = n.completed /\ tag' = n.tag /\ inbox' = <<>>
  /\ pool' = A.pool /\ tree' = A.tree /\ searching' = (n.searching \/ poll # <<>>)
  /\ \E b \in n.tree.nodes : best' = Trim(A.tree, b)
  /\ messenger' \in SendRequests(messenger, RequestsOf(n.remote, limit) \o A.requests \o poll)
  /\ UNCHANGED world

LEMMA StepGoesOn ==
  ASSUME Sound, Step
  PROVE  \E n \in Received : \E online, limit, tips, P, A, poll : GoesOn(n, online, limit, tips, P, A, poll)
PROOF
  <1>1. /\ Before \in Nodes /\ inbox \in Seq(Response) /\ messenger \in Messengers
        /\ best \in tree.nodes /\ Consistent(Left, Before)
        /\ \A i \in DOMAIN inbox : Plausible(inbox[i])
    BY DEF Sound
  <1>2. PICK n \in Received :
          LET online == { u \in DOMAIN n.remote : IsOnline(n.remote[u]) }
              limit == Height(LedgerOf(tree, best)) + 1 + Lookahead
              cursor(u) == Cursor(n.remote[u], n.tag[u])
              missing == SetToSeq({ cursor(u) : u \in online } \cap n.tree.missing)
              tips == ({best} \cup { cursor(u) : u \in online }) \ {None}
          IN  /\ remote' = [u \in DOMAIN n.remote |-> Updated(n.remote[u], limit)]
              /\ completed' = n.completed
              /\ tag' = n.tag
              /\ inbox' = <<>>
              /\ \E P \in Activated(Affirmed(n.pool, n.tree, missing)), poll \in Polls(n, online) :
                 \E after \in UpdateSearches(P, n.tree, DOMAIN n.remote, online) :
                   /\ pool' = after.pool
                   /\ tree' = after.tree
                   /\ \E leaves \in { { Trim(after.tree, b) : b \in tips } } :
                        \E b \in leaves : IsBest(b, leaves) /\ best' = b
                   /\ searching' = (n.searching \/ poll # <<>>)
                   /\ \E requests \in {RequestsOf(n.remote, limit) \o after.requests \o poll} :
                        messenger' \in SendRequests(messenger, requests)
              /\ UNCHANGED world
    BY DEF Step, Polls
  <1> DEFINE online == { u \in DOMAIN n.remote : IsOnline(n.remote[u]) }
  <1> DEFINE limit == Height(LedgerOf(tree, best)) + 1 + Lookahead
  <1> DEFINE cursor(u) == Cursor(n.remote[u], n.tag[u])
  <1> DEFINE missing == SetToSeq({ cursor(u) : u \in online } \cap n.tree.missing)
  <1> DEFINE tips == ({best} \cup { cursor(u) : u \in online }) \ {None}
  <1> DEFINE Follows(A, poll) ==
               /\ pool' = A.pool /\ tree' = A.tree
               /\ \E leaves \in { { Trim(A.tree, b) : b \in tips } } :
                    \E b \in leaves : IsBest(b, leaves) /\ best' = b
               /\ searching' = (n.searching \/ poll # <<>>)
               /\ \E requests \in {RequestsOf(n.remote, limit) \o A.requests \o poll} :
                    messenger' \in SendRequests(messenger, requests)
  <1>3a. PICK P \in Activated(Affirmed(n.pool, n.tree, missing)), poll \in Polls(n, online) :
           \E A \in UpdateSearches(P, n.tree, DOMAIN n.remote, online) : Follows(A, poll)
    BY <1>2
  <1>3. PICK A \in UpdateSearches(P, n.tree, DOMAIN n.remote, online) : Follows(A, poll)
    BY <1>3a
  <1>4. n \in Nodes /\ Followed(n)
    BY <1>1, ReceivedKeeps
  <1>5. /\ WellFormed(n.tree) /\ n.tag \in [Url -> n.tree.nodes \cup {None}] /\ DOMAIN n.remote \subseteq Url
        /\ best \in n.tree.nodes /\ n.tree.missing \subseteq n.tree.nodes
    BY <1>1, <1>4 DEF Nodes, NodeOK, Followed, WellFormed, TreeType
  <1>6. limit \in Nat
    <2>1. WellFormed(tree)
      BY SoundMeans DEF TypeOK
    <2>2. LedgerOf(tree, best) \in Block
      BY <1>1, <2>1, EndsExist DEF WellFormed, TreeType
    <2> QED
      BY <2>2, HeightFacts, SyncAssumption
  <1>7. \A u \in online : cursor(u) \in n.tree.nodes \cup {None}
    BY <1>5 DEF Cursor
  <1>8. tips \subseteq n.tree.nodes
    BY <1>5, <1>7
  <1>9. missing \in Seq(n.tree.nodes)
    <2> DEFINE c == [u \in online |-> cursor(u)]
    <2> DEFINE all == { cursor(u) : u \in online }
    <2> DEFINE S == all \cap n.tree.missing
    <2>1. IsFiniteSet(online)
      <3>1. IsFiniteSet(Url) /\ online \in SUBSET Url
        BY <1>5, SyncAssumption
      <3> HIDE DEF online
      <3> QED
        BY <3>1, FS_Subset
    <2>2. all = { c[u] : u \in online } /\ DOMAIN c = online /\ c = [u \in online |-> c[u]]
      OBVIOUS
    <2>3. missing = SetToSeq(S)
      OBVIOUS
    <2> HIDE DEF c, all, online, missing, cursor
    <2>4. IsFiniteSet(all)
      BY <2>1, <2>2, RangeFinite
    <2>5. S \in SUBSET all /\ S \subseteq n.tree.nodes
      BY <1>5
    <2> HIDE DEF S
    <2>6. IsFiniteSet(S)
      BY <2>4, <2>5, FS_Subset
    <2>7. SetToSeq(S) \in Seq(S)
      BY <2>6, InSomeOrder
    <2> QED
      BY <2>3, <2>5, <2>7
  <1>10. \E b \in n.tree.nodes : best' = Trim(A.tree, b)
    BY <1>3, <1>8
  <1>11. messenger' \in SendRequests(messenger, RequestsOf(n.remote, limit) \o A.requests \o poll)
    BY <1>3
  <1>12. /\ remote' = [u \in DOMAIN n.remote |-> Updated(n.remote[u], limit)]
         /\ completed' = n.completed /\ tag' = n.tag /\ inbox' = <<>> /\ UNCHANGED world
    BY <1>2
  <1>13. online = { u \in DOMAIN n.remote : IsOnline(n.remote[u]) }
    OBVIOUS
  <1> HIDE DEF online, limit, missing
  <1>14. GoesOn(n, online, limit, missing, P, A, poll)
    BY <1>3, <1>3a, <1>6, <1>9, <1>10, <1>11, <1>12, <1>13 DEF GoesOn
  <1> QED
    BY <1>14

(* Requests as often under way as they were made, and once more for each that is made now. *)
LEMMA RequestsCounted ==
  ASSUME NEW R, R \in [DOMAIN R -> RemoteState], DOMAIN R \subseteq Url, NEW limit \in Nat,
         NEW s \in Seq(Request), NEW poll \in Seq(Request), messenger \in Messengers,
         messenger' \in SendRequests(messenger, RequestsOf(R, limit) \o s \o poll), inbox' = <<>>
  PROVE  /\ messenger' \in Messengers /\ inbox' \in Seq(Response)
         /\ \A r \in Request :
              /\ Unreturned[r] \in Nat /\ Occurs(s, r) \in Nat /\ Occurs(poll, r) \in Nat
              /\ LeftAfter[r] = Unreturned[r] + (IF Asking(R, limit, r) THEN 1 ELSE 0)
                                  + Occurs(s, r) + Occurs(poll, r)
PROOF
  <1> DEFINE own == RequestsOf(R, limit)
  <1> DEFINE all == own \o s \o poll
  <1>1. /\ own \in Seq(Request)
        /\ \A r \in Request : Occurs(own, r) = IF Asking(R, limit, r) THEN 1 ELSE 0
    BY RequestsOfFacts
  <1>2. messenger' \in SendRequests(messenger, all)
    OBVIOUS
  <1> HIDE DEF own
  <1> DEFINE both == own \o s
  <1>3. both \in Seq(Request) /\ \A r : Occurs(both, r) = Occurs(own, r) + Occurs(s, r)
    BY <1>1, OccursJoined
  <1> HIDE DEF both
  <1>4. (both \o poll) \in Seq(Request) /\ \A r : Occurs(both \o poll, r) = Occurs(both, r) + Occurs(poll, r)
    BY <1>3, OccursJoined
  <1>5. all \in Seq(Request) /\ \A r : Occurs(all, r) = Occurs(own, r) + Occurs(s, r) + Occurs(poll, r)
    BY <1>3, <1>4 DEF both
  <1> HIDE DEF all
  <1>6. /\ messenger' \in Messengers
        /\ \A r \in Request : TimesAsked(messenger', r) = TimesAsked(messenger, r) + Occurs(all, r)
    BY <1>2, <1>5, SendRequestsAdds
  <1>7. \A r \in Request : Occurs(s, r) \in Nat /\ Occurs(poll, r) \in Nat /\ TimesAsked(messenger, r) \in Nat
    BY OccursFacts, TimesFacts
  <1>8. ASSUME NEW r \in Request
        PROVE  LeftAfter[r] = Unreturned[r] + (IF Asking(R, limit, r) THEN 1 ELSE 0) + Occurs(s, r) + Occurs(poll, r)
    <2>1. Cardinality({ i \in DOMAIN inbox' : inbox'[i].request = r }) = 0
      BY NobodyAnswered
    <2>2. LeftAfter[r] = TimesAsked(messenger', r) /\ Unreturned[r] = TimesAsked(messenger, r)
      <3>1. TimesAsked(messenger', r) \in Nat
        BY <1>6, TimesFacts
      <3> QED
        BY <2>1, <3>1 DEF LeftAfter, Unreturned
    <2>3. TimesAsked(messenger', r) =
            TimesAsked(messenger, r) + (Occurs(own, r) + Occurs(s, r) + Occurs(poll, r))
      BY <1>5, <1>6
    <2>4. Occurs(own, r) = IF Asking(R, limit, r) THEN 1 ELSE 0
      BY <1>1
    <2>5. CASE Asking(R, limit, r)
      BY <1>7, <2>2, <2>3, <2>4, <2>5
    <2>6. CASE ~Asking(R, limit, r)
      BY <1>7, <2>2, <2>3, <2>4, <2>6
    <2> QED
      BY <2>5, <2>6
  <1>9. inbox' \in Seq(Response)
    BY NobodyAnswered
  <1> QED
    BY <1>6, <1>7, <1>8, <1>9 DEF Unreturned

LEMMA StepKeeps ==
  ASSUME Sound, WorldOK', NEW n \in Received, NEW online, NEW limit, NEW tips, NEW P, NEW A, NEW poll,
         GoesOn(n, online, limit, tips, P, A, poll)
  PROVE  Sound'
PROOF
  <1> DEFINE R == n.remote
  <1> DEFINE N == NodeAfter
  <1>1. /\ Before \in Nodes /\ inbox \in Seq(Response) /\ messenger \in Messengers
        /\ best \in tree.nodes /\ Consistent(Left, Before)
        /\ \A i \in DOMAIN inbox : Plausible(inbox[i])
    BY DEF Sound
  <1>2. n \in Nodes /\ Consistent(Unreturned, n) /\ Followed(n)
    BY <1>1, ReceivedKeeps
  <1>3. /\ NodeOK(n) /\ R \in [DOMAIN R -> RemoteState] /\ DOMAIN R \subseteq Url
        /\ n.searching \in BOOLEAN /\ best \in n.tree.nodes
    BY <1>1, <1>2 DEF Nodes, NodeOK, Followed
  <1>4. /\ online = { u \in DOMAIN R : IsOnline(R[u]) } /\ limit \in Nat /\ tips \in Seq(n.tree.nodes)
        /\ P \in Activated(Affirmed(n.pool, n.tree, tips))
        /\ A \in UpdateSearches(P, n.tree, DOMAIN R, online) /\ poll \in Polls(n, online)
        /\ remote' = [u \in DOMAIN R |-> Updated(R[u], limit)]
        /\ completed' = n.completed /\ tag' = n.tag /\ inbox' = <<>>
        /\ pool' = A.pool /\ tree' = A.tree /\ searching' = (n.searching \/ poll # <<>>)
        /\ \E b \in n.tree.nodes : best' = Trim(A.tree, b)
        /\ messenger' \in SendRequests(messenger, RequestsOf(R, limit) \o A.requests \o poll)
    BY DEF GoesOn
  <1>5. Unreturned \in Counts
    BY <1>1, LeftCounts
  <1>6. online \in SUBSET Url
    BY <1>3, <1>4
  <1>7. /\ WellFormed(A.tree) /\ A.tree.nodes = n.tree.nodes /\ A.tree.held = n.tree.held
        /\ PoolOK(A.pool, A.tree) /\ IsFiniteSet(Searched(A.pool))
        /\ A.requests \in Seq(Request)
        /\ \A r \in Request : Occurs(A.requests, r) > 0 => r.kind = "block" /\ r.url \in online
        /\ \A b \in Searched(A.pool) : b \notin A.tree.held
        /\ \A b \in Searched(A.pool), u \in Url :
             Unreturned[BlockRequest(u, b)] + Occurs(A.requests, BlockRequest(u, b))
               = IF u \in A.pool.search[b].active THEN 1 ELSE 0
        /\ \A b \in Block \ (Searched(A.pool) \cup A.tree.held), u \in Url :
             Unreturned[BlockRequest(u, b)] = 0 /\ Occurs(A.requests, BlockRequest(u, b)) = 0
    <2>1. Matching(Unreturned, n)
      BY <1>2 DEF Consistent
    <2> DEFINE remotes == DOMAIN n.remote
    <2>2. A \in UpdateSearches(P, n.tree, remotes, online)
      BY <1>4
    <2> HIDE DEF remotes
    <2>3. GoneOn(A, n, Unreturned, online)
      BY <1>2, <1>3, <1>4, <1>5, <1>6, <2>1, <2>2, SearchesGoOn
    <2> QED
      BY <2>3 DEF GoneOn
  <1>8. /\ poll \in Seq(Request)
        /\ \A r \in Request : Occurs(poll, r) > 0 => r.kind = "network" /\ r.url \in online
        /\ poll # <<>> => \E u \in online : Occurs(poll, NetworkRequest(u)) > 0
    BY <1>3, <1>4, <1>6, PollFacts
  <1>9. /\ messenger' \in Messengers /\ inbox' \in Seq(Response)
        /\ \A r \in Request :
              /\ Unreturned[r] \in Nat /\ Occurs(A.requests, r) \in Nat /\ Occurs(poll, r) \in Nat
              /\ LeftAfter[r] = Unreturned[r] + (IF Asking(R, limit, r) THEN 1 ELSE 0)
                                  + Occurs(A.requests, r) + Occurs(poll, r)
    BY <1>1, <1>3, <1>4, <1>7, <1>8, RequestsCounted
  <1>10. ASSUME NEW u \in DOMAIN R
         PROVE  /\ Updated(R[u], limit) \in RemoteState
                /\ R[u].state = "OFFLINE" => Updated(R[u], limit).state = "WAITING_FOR_INFO"
                /\ R[u].state = "ONLINE" => Updated(R[u], limit).state \in {"ONLINE", "WAITING_FOR_HEADERS"}
                /\ R[u].state \notin {"OFFLINE", "ONLINE"} => Updated(R[u], limit) = R[u]
                /\ R[u] \in RemoteState /\ Updated(R[u], limit).height = R[u].height
    <2>1. R[u] \in RemoteState /\ limit \in Nat
      BY <1>3, <1>4
    <2> DEFINE r == R[u]
    <2>2. r \in RemoteState
      BY <2>1
    <2> HIDE DEF r, R
    <2>3. /\ Updated(r, limit) \in RemoteState
          /\ r.state = "OFFLINE" => Updated(r, limit).state = "WAITING_FOR_INFO"
          /\ r.state = "ONLINE" => Updated(r, limit).state \in {"ONLINE", "WAITING_FOR_HEADERS"}
          /\ r.state \notin {"OFFLINE", "ONLINE"} => Updated(r, limit) = r
          /\ Updated(r, limit).height = r.height
      BY <2>1, <2>2, UpdatedFacts
    <2> QED
      BY <2>1, <2>3 DEF r
  <1>11. /\ N.remote = remote' /\ DOMAIN N.remote = DOMAIN R
         /\ \A u \in DOMAIN R : N.remote[u] = Updated(R[u], limit)
         /\ N.completed = n.completed /\ N.tree = A.tree /\ N.tag = n.tag /\ N.pool = A.pool
         /\ N.searching = searching' /\ N.searching = (n.searching \/ poll # <<>>)
         /\ N = [remote |-> N.remote, completed |-> N.completed, tree |-> N.tree, tag |-> N.tag,
                 pool |-> N.pool, searching |-> N.searching]
    BY <1>4 DEF NodeAfter
  <1> HIDE DEF R, N
  <1>12. N \in Nodes
    <2>1. N.remote \in [DOMAIN N.remote -> RemoteState]
      BY <1>4, <1>10, <1>11
    <2>2. /\ Seeds \subseteq N.completed /\ DOMAIN N.remote \subseteq N.completed /\ N.completed \subseteq Url
          /\ N.tag \in [Url -> N.tree.nodes \cup {None}]
      BY <1>3, <1>7, <1>11 DEF NodeOK, R
    <2>3. N.searching \in BOOLEAN
      BY <1>3, <1>11
    <2>4. NodeOK(N)
      BY <1>7, <1>11, <2>1, <2>2, <2>3 DEF NodeOK
    <2> QED
      BY <1>11, <2>4, NodesAre
  <1>13. best' \in tree'.nodes
    <2>1. PICK b \in A.tree.nodes : best' = Trim(A.tree, b)
      BY <1>4, <1>7
    <2> QED
      BY <1>4, <1>7, <2>1, EndsExist
  <1>14. ASSUME NEW r \in Request
         PROVE  /\ Unreturned[r] > 0 => LeftAfter[r] > 0
                /\ Asking(R, limit, r) => LeftAfter[r] > 0
                /\ Occurs(poll, r) > 0 => LeftAfter[r] > 0
                /\ LeftAfter[r] > 0 => \/ Unreturned[r] > 0 \/ Asking(R, limit, r)
                                       \/ Occurs(A.requests, r) > 0 \/ Occurs(poll, r) > 0
    <2>1. CASE Asking(R, limit, r)
      BY <1>9, <2>1
    <2>2. CASE ~Asking(R, limit, r)
      BY <1>9, <2>2
    <2> QED
      BY <2>1, <2>2
  <1>15. Awaited(LeftAfter, N)
    <2>1. /\ \A u \in DOMAIN R :
               /\ R[u].state = "WAITING_FOR_INFO" => Unreturned[InfoRequest(u)] > 0
               /\ R[u].state = "WAITING_FOR_HEADERS" => \E h \in Heights : Unreturned[HeadersRequest(u, h)] > 0
          /\ n.searching => \E u \in DOMAIN R : Unreturned[NetworkRequest(u)] > 0
      BY <1>2 DEF Consistent, Awaited, R
    <2>2. \A u \in DOMAIN R : /\ InfoRequest(u) \in Request /\ NetworkRequest(u) \in Request
                              /\ \A h \in Heights : HeadersRequest(u, h) \in Request
      BY <1>3, RequestFacts DEF Heights
    <2>3. ASSUME NEW u \in DOMAIN R, N.remote[u].state = "WAITING_FOR_INFO"
          PROVE  LeftAfter[InfoRequest(u)] > 0
      <3>1. CASE R[u].state = "OFFLINE"
        BY <1>14, <2>2, <3>1 DEF Asking
      <3>2. CASE R[u].state # "OFFLINE"
        <4>1. R[u].state = "WAITING_FOR_INFO"
          BY <1>10, <1>11, <2>3, <3>2
        <4> QED
          BY <1>14, <2>1, <2>2, <4>1
      <3> QED
        BY <3>1, <3>2
    <2>4. ASSUME NEW u \in DOMAIN R, N.remote[u].state = "WAITING_FOR_HEADERS"
          PROVE  \E h \in Heights : LeftAfter[HeadersRequest(u, h)] > 0
      <3>1. CASE R[u].state = "ONLINE"
        <4> DEFINE h == R[u].height
        <4>1. h \in Heights
          BY <1>10 DEF RemoteState, Heights
        <4>2. Updated(R[u], limit).state = "WAITING_FOR_HEADERS"
          BY <1>11, <2>4
        <4>3. Asking(R, limit, HeadersRequest(u, h))
          BY <3>1, <4>2 DEF Asking
        <4> HIDE DEF h
        <4> QED
          BY <1>14, <2>2, <4>1, <4>3
      <3>2. CASE R[u].state # "ONLINE"
        <4>1. R[u].state = "WAITING_FOR_HEADERS"
          BY <1>10, <1>11, <2>4, <3>2
        <4> QED
          BY <1>14, <2>1, <2>2, <4>1
      <3> QED
        BY <3>1, <3>2
    <2>5. ASSUME N.searching PROVE \E u \in DOMAIN R : LeftAfter[NetworkRequest(u)] > 0
      <3>1. CASE n.searching
        BY <1>14, <2>1, <2>2, <3>1
      <3>2. CASE ~n.searching
        <4>1. PICK u \in online : Occurs(poll, NetworkRequest(u)) > 0
          BY <1>8, <1>11, <2>5, <3>2
        <4>2. u \in DOMAIN R
          BY <1>4
        <4> QED
          BY <1>14, <2>2, <4>1, <4>2
      <3> QED
        BY <3>1, <3>2
    <2> QED
      BY <1>11, <2>3, <2>4, <2>5 DEF Awaited
  <1>16. Matching(LeftAfter, N)
    <2>1. ASSUME NEW b \in Block, NEW u \in Url
          PROVE  LeftAfter[BlockRequest(u, b)] =
                   Unreturned[BlockRequest(u, b)] + Occurs(A.requests, BlockRequest(u, b))
      <3> DEFINE q == BlockRequest(u, b)
      <3>1. q \in Request /\ q.kind = "block"
        BY RequestFacts, RequestsDiffer
      <3>2. ~Asking(R, limit, q)
        BY RequestsDiffer DEF Asking
      <3> HIDE DEF q
      <3>3. Occurs(poll, q) = 0
        <4>1. Occurs(poll, q) \in Nat /\ ~(Occurs(poll, q) > 0)
          BY <1>8, <1>9, <3>1
        <4> QED
          BY <4>1
      <3>4. LeftAfter[q] = Unreturned[q] + Occurs(A.requests, q)
        BY <1>9, <3>1, <3>2, <3>3
      <3> QED
        BY <3>4 DEF q
    <2>2. Searched(A.pool) \subseteq Block
      BY <1>7 DEF PoolOK, WellFormed, TreeType
    <2>3. \A b \in Searched(N.pool) :
            /\ b \notin N.tree.held
            /\ \A u \in Url : LeftAfter[BlockRequest(u, b)] = IF u \in N.pool.search[b].active THEN 1 ELSE 0
      BY <1>7, <1>11, <2>1, <2>2
    <2>4. \A b \in Block \ (Searched(N.pool) \cup N.tree.held), u \in Url : LeftAfter[BlockRequest(u, b)] = 0
      BY <1>7, <1>11, <2>1
    <2> QED
      BY <2>3, <2>4 DEF Matching
  <1>17. Reaching(LeftAfter, N)
    <2>1. /\ \A r \in Request : Unreturned[r] > 0 => IF r.url \in Own THEN r.kind = "info" ELSE r.url \in DOMAIN R
          /\ \A u \in DOMAIN R \cap Own : R[u].state \in {"OFFLINE", "WAITING_FOR_INFO"}
      BY <1>2 DEF Consistent, Reaching, R
    <2>2. online \cap Own = {} /\ online \subseteq DOMAIN R
      BY <1>4, <2>1 DEF IsOnline
    <2>3. ASSUME NEW r \in Request, LeftAfter[r] > 0
          PROVE  IF r.url \in Own THEN r.kind = "info" ELSE r.url \in DOMAIN R
      <3>1. CASE Unreturned[r] > 0
        BY <2>1, <3>1
      <3>2. CASE Asking(R, limit, r)
        <4>1. PICK u \in DOMAIN R :
                \/ R[u].state = "OFFLINE" /\ r = InfoRequest(u)
                \/ /\ R[u].state = "ONLINE" /\ r = HeadersRequest(u, R[u].height)
          BY <3>2 DEF Asking
        <4> QED
          BY <2>1, <4>1, RequestsDiffer
      <3>3. CASE Occurs(A.requests, r) > 0
        BY <1>7, <2>2, <3>3
      <3>4. CASE Occurs(poll, r) > 0
        BY <1>8, <2>2, <3>4
      <3> QED
        BY <1>14, <2>3, <3>1, <3>2, <3>3, <3>4
    <2>4. \A u \in DOMAIN R \cap Own : N.remote[u].state \in {"OFFLINE", "WAITING_FOR_INFO"}
      BY <1>10, <1>11, <2>1
    <2> QED
      BY <1>11, <2>3, <2>4 DEF Reaching
  <1>18. Consistent(LeftAfter, N)
    BY <1>15, <1>16, <1>17 DEF Consistent
  <1>19. \A i \in DOMAIN inbox' : Plausible(inbox'[i])
    BY <1>4, NobodyAnswered
  <1> QED
    BY <1>1, <1>4, <1>9, <1>12, <1>13, <1>18, <1>19, SoundAfter DEF N

(* The step behind GivesUpForAReason. *)
GivesUp ==
  LET online == { u \in DOMAIN remote' : IsOnline(remote'[u]) }
      GivenUp(a) == /\ a \in Searched(pool)
                    /\ pool.search[a].retries = MaxRetries
                    /\ online \subseteq pool.search[a].completed \cup AnsweredWithout(a)
  IN  \A b \in tree'.missing \ tree.missing :
        online = {} \/ \E a \in Path(b) : GivenUp(a) \/ a \in tree.missing

LEMMA StepGivesUp ==
  ASSUME Sound, NEW n \in Received, NEW online, NEW limit, NEW tips, NEW P, NEW A, NEW poll,
         GoesOn(n, online, limit, tips, P, A, poll)
  PROVE  GivesUp
PROOF
  <1>1. /\ Before \in Nodes /\ inbox \in Seq(Response) /\ messenger \in Messengers
        /\ best \in tree.nodes /\ Consistent(Left, Before)
        /\ \A i \in DOMAIN inbox : Plausible(inbox[i])
    BY DEF Sound
  <1>2. n \in Nodes /\ Consistent(Unreturned, n) /\ Followed(n)
    BY <1>1, ReceivedKeeps
  <1>3. /\ n.remote \in [DOMAIN n.remote -> RemoteState] /\ DOMAIN n.remote \subseteq Url
        /\ best \in n.tree.nodes
    BY <1>1, <1>2 DEF Nodes, NodeOK, Followed
  <1>4. /\ online = { u \in DOMAIN n.remote : IsOnline(n.remote[u]) } /\ limit \in Nat
        /\ tips \in Seq(n.tree.nodes)
        /\ P \in Activated(Affirmed(n.pool, n.tree, tips))
        /\ A \in UpdateSearches(P, n.tree, DOMAIN n.remote, online)
        /\ remote' = [u \in DOMAIN n.remote |-> Updated(n.remote[u], limit)]
        /\ tree' = A.tree
    BY DEF GoesOn
  <1>5. online \in SUBSET Url
    BY <1>3, <1>4
  <1>6. { u \in DOMAIN remote' : IsOnline(remote'[u]) } = online
    <2>1. \A u \in DOMAIN n.remote : IsOnline(Updated(n.remote[u], limit)) <=> IsOnline(n.remote[u])
      BY <1>3, <1>4, UpdatedFacts
    <2> QED
      BY <1>4, <2>1
  <1>7. GoneOn(A, n, Unreturned, online)
    <2> DEFINE remotes == DOMAIN n.remote
    <2>1. A \in UpdateSearches(P, n.tree, remotes, online)
      BY <1>4
    <2> HIDE DEF remotes
    <2>2. Unreturned \in Counts /\ Matching(Unreturned, n)
      BY <1>1, <1>2, LeftCounts DEF Consistent
    <2> QED
      BY <1>2, <1>3, <1>4, <1>5, <2>1, <2>2, SearchesGoOn
  <1>8. ASSUME NEW b \in A.tree.missing, online # {}
        PROVE  \E a \in Path(b) : \/ /\ a \in Searched(pool)
                                     /\ pool.search[a].retries = MaxRetries
                                     /\ online \subseteq pool.search[a].completed \cup AnsweredWithout(a)
                                  \/ a \in tree.missing
    <2>1. CASE b \in n.tree.missing
      BY <1>2, <2>1 DEF Followed
    <2>2. CASE b \notin n.tree.missing
      <3>1. PICK a \in Path(b) : /\ a \in Searched(n.pool)
                                 /\ n.pool.search[a].retries = MaxRetries
                                 /\ online \subseteq n.pool.search[a].completed
        BY <1>7, <1>8, <2>2 DEF GoneOn
      <3>2. /\ a \in Searched(pool) /\ n.pool.search[a].retries = pool.search[a].retries
            /\ n.pool.search[a].completed \subseteq pool.search[a].completed \cup AnsweredWithout(a)
        BY <1>2, <3>1 DEF Followed
      <3> QED
        BY <3>1, <3>2
    <2> QED
      BY <2>1, <2>2
  <1> QED
    BY <1>4, <1>6, <1>8 DEF GivesUp

LEMMA NextKeeps ==
  ASSUME Sound, [Next]_vars
  PROVE  Sound' /\ GivesUp
PROOF
  <1>0. WorldOK'
    BY WorldKept
  <1>1. ASSUME tree' = tree PROVE GivesUp
    BY <1>1 DEF GivesUp
  <1>2. CASE Step
    <2>1. PICK n \in Received : \E online, limit, tips, P, A, poll : GoesOn(n, online, limit, tips, P, A, poll)
      BY <1>2, StepGoesOn
    <2>2. PICK online, limit, tips, P, A, poll : GoesOn(n, online, limit, tips, P, A, poll)
      BY <2>1
    <2> QED
      BY <1>0, <2>2, StepKeeps, StepGivesUp
  <1>3. ASSUME NEW r \in Request, Finish(r) \/ Fail(r) PROVE Sound' /\ GivesUp
    BY <1>0, <1>1, <1>3, FinishKeeps DEF Finish, Fail, node
  <1>4. CASE Idle
    BY <1>0, <1>1, <1>4, IdleKeeps DEF Idle, node
  <1>5. ASSUME NEW u \in Url \ Own, NEW b \in Chain, Grow(u, b) \/ Reorg(u, b)
        PROVE  Sound' /\ GivesUp
    BY <1>0, <1>1, <1>5, RestKeeps DEF Grow, Reorg, node
  <1>6. CASE Restart
    BY <1>0, <1>1, <1>6, RestartKeeps
  <1>7. CASE Abort
    BY <1>0, <1>7, AbortKeeps DEF GivesUp
  <1>8. CASE StartAgain
    BY <1>0, <1>1, <1>8, RestKeeps DEF StartAgain
  <1>9. CASE UNCHANGED vars
    BY <1>0, <1>1, <1>9, RestKeeps DEF vars, node
  <1> QED
    BY <1>2, <1>3, <1>4, <1>5, <1>6, <1>7, <1>8, <1>9 DEF Next

LEMMA AlwaysSound == Spec => []Sound
PROOF
  <1>1. Init => Sound
    BY InitSound
  <1>2. Sound /\ [Next]_vars => Sound'
    BY NextKeeps
  <1> QED
    BY <1>1, <1>2, PTL DEF Spec

-----------------------------------------------------------------------------
(* Only a miner that has left its branch ends the process. *)

(***************************************************************************)
(* Heights asked from, and headers on hand, of the miners that have not    *)
(* left their branch lie on that branch, and start with a known block.     *)
(***************************************************************************)
OnTrack ==
  /\ OnChain(Before)
  /\ \A u \in Steady, h \in Heights :
       chain[u] # Foreign /\ Left[HeadersRequest(u, h)] > 0 => Reaches(h, chain[u], tree)
  /\ \A i \in DOMAIN inbox : Expected(inbox[i], tree)
  /\ AbortsOnlyOnReorg

LEMMA OnTrackAfter ==
  ASSUME \A u \in Steady' : chain'[u] # Foreign =>
           /\ tag'[u] \in Path(chain'[u]) \cup {None}
           /\ u \in DOMAIN remote' => Reaches(remote'[u].height, chain'[u], tree')
           /\ \A h \in Heights : LeftAfter[HeadersRequest(u, h)] > 0 => Reaches(h, chain'[u], tree'),
         \A i \in DOMAIN inbox' : Expected(inbox[i], tree)',
         AbortsOnlyOnReorg'
  PROVE  OnTrack'
PROOF
  <1>1. Before' = NodeAfter /\ NodeAfter.tag = tag' /\ NodeAfter.remote = remote' /\ NodeAfter.tree = tree'
    BY DEF Before, NodeAfter
  <1>2. Left' = LeftAfter
    BY DEF Left, Copies, LeftAfter
  <1>3. OnChain(Before)'
    BY <1>1 DEF OnChain
  <1>4. \A u \in Steady', h \in Heights :
          chain'[u] # Foreign /\ Left'[HeadersRequest(u, h)] > 0 => Reaches(h, chain'[u], tree')
    BY <1>2
  <1> QED
    BY <1>3, <1>4 DEF OnTrack

(* The node unchanged, whatever the others do but leave their branch. *)
LEMMA RestOn ==
  ASSUME OnTrack, UNCHANGED <<remote, tag, tree>>, \A r \in Request : LeftAfter[r] = Left[r],
         \A i \in DOMAIN inbox' : \/ i \in DOMAIN inbox /\ inbox'[i] = inbox[i]
                                  \/ Expected(inbox'[i], tree),
         \A u \in Steady' : /\ u \in Steady
                            /\ \/ chain'[u] = chain[u]
                               \/ chain[u] # Foreign /\ chain'[u] # Foreign /\ Path(chain[u]) \subseteq Path(chain'[u]),
         AbortsOnlyOnReorg'
  PROVE  OnTrack'
PROOF
  <1>1. Before.tag = tag /\ Before.remote = remote /\ Before.tree = tree
    BY DEF Before
  <1>2. ASSUME NEW u \in Steady', chain'[u] # Foreign
        PROVE  /\ tag'[u] \in Path(chain'[u]) \cup {None}
               /\ u \in DOMAIN remote' => Reaches(remote'[u].height, chain'[u], tree')
               /\ \A h \in Heights : LeftAfter[HeadersRequest(u, h)] > 0 => Reaches(h, chain'[u], tree')
    <2>1. u \in Steady /\ chain[u] # Foreign /\ Path(chain[u]) \subseteq Path(chain'[u]) /\ u \in Url
      BY <1>2 DEF Steady
    <2>2. /\ tag[u] \in Path(chain[u]) \cup {None}
          /\ u \in DOMAIN remote => Reaches(remote[u].height, chain[u], tree)
      BY <1>1, <2>1 DEF OnTrack, OnChain
    <2>3. ASSUME NEW h \in Heights, LeftAfter[HeadersRequest(u, h)] > 0 PROVE Reaches(h, chain[u], tree)
      <3>1. HeadersRequest(u, h) \in Request
        BY <2>1, RequestFacts DEF Heights
      <3> QED
        BY <2>1, <2>3, <3>1 DEF OnTrack
    <2> QED
      BY <2>1, <2>2, <2>3, ReachesStill
  <1>3. ASSUME NEW i \in DOMAIN inbox' PROVE Expected(inbox[i], tree)'
    <2>1. Expected(inbox'[i], tree)
      BY DEF OnTrack
    <2> QED
      BY <2>1, JoinedStill DEF Expected
  <1> QED
    BY <1>2, <1>3, OnTrackAfter

(* Headers cut short still start with a known block. *)
LEMMA CutExpected ==
  ASSUME NEW a \in Response, Expected(a, tree), NEW b \in Cut(a)
  PROVE  Expected(b, tree)
PROOF
  <1>1. PICK k \in 0..(Len(a.headers) - 1) : b = [a EXCEPT !.headers = SubSeq(@, 1, k)]
    BY DEF Cut
  <1>2. a.headers \in Seq(Block \cup {Foreign})
    BY DEF Response
  <1> DEFINE some == SubSeq(a.headers, 1, k)
  <1>3. k \in Nat /\ DOMAIN some = 1..k /\ \A i \in 1..k : some[i] = a.headers[i] /\ i \in DOMAIN a.headers
    BY <1>2
  <1>4. b = [a EXCEPT !.headers = some]
    BY <1>1
  <1> HIDE DEF some
  <1>5. b.request = a.request /\ b.error = a.error /\ b.headers = some
    BY <1>4 DEF Response
  <1>6. ASSUME NEW tip, Joined(a.headers, tip, tree) PROVE Joined(some, tip, tree)
    <2>1. \A i \in 1..k : i # 1 => i - 1 \in 1..k
      BY <1>3
    <2>2. \A i \in 1..k : IF i = 1 THEN some[1] = a.headers[1] ELSE some[i - 1] = a.headers[i - 1]
      BY <1>3, <2>1
    <2> QED
      BY <1>3, <1>6, <2>2 DEF Joined
  <1> QED
    BY <1>5, <1>6 DEF Expected

LEMMA FinishOn ==
  ASSUME Sound, OnTrack, NEW r \in Request, Finish(r) \/ Fail(r)
  PROVE  OnTrack'
PROOF
  <1>1. /\ r \in DOMAIN messenger.running /\ messenger' \in CompleteRequest(messenger, r)
        /\ UNCHANGED <<node, chain, moved>>
    BY DEF Finish, Fail, world
  <1>2. PICK a : /\ inbox' = Append(inbox, a)
                 /\ a \in Answers(r) \/ a = Failed(r) \/ \E b \in Answers(r) : a \in Cut(b)
    BY DEF Finish, Fail
  <1>3. /\ a \in Response /\ a.request = r
        /\ \A b \in Answers(r) : b \in Response /\ b.request = r
    BY <1>1, <1>2, AnswersFit, CutFits
  <1>4. /\ messenger \in Messengers /\ inbox \in Seq(Response)
        /\ chain \in [Url \ Own -> Chain]
    BY DEF Sound, WorldOK
  <1>5. \A q \in Request : LeftAfter[q] = Left[q]
    BY <1>1, <1>2, <1>3, <1>4, AnswerMoves
  <1>6. ASSUME NEW b \in Answers(r) PROVE Expected(b, tree)
    <2> SUFFICES ASSUME r.kind = "headers", r.url \in Steady PROVE Joined(b.headers, chain[r.url], tree)
      BY <1>3 DEF Expected
    <2> DEFINE tip == chain[r.url]
    <2> DEFINE headers == IF tip = Foreign THEN <<Foreign>> ELSE HeadersFrom(tip, r.height)
    <2>1. b.headers = headers
      <3>1. b = Answer(r, FALSE, FALSE, FALSE, headers, FALSE, {})
        BY <1>6 DEF Answers
      <3> HIDE DEF headers
      <3> QED
        BY <3>1 DEF Answer
    <2>2. tip \in Block \cup {Foreign}
      BY <1>4, TipsAre
    <2>3. CASE tip = Foreign
      <3>1. headers = <<Foreign>> /\ DOMAIN <<Foreign>> = {1} /\ <<Foreign>>[1] = Foreign
        BY <2>3
      <3> HIDE DEF headers, tip
      <3> QED
        BY <2>1, <2>3, <3>1 DEF Joined, tip
    <2>4. CASE tip # Foreign
      <3>1. r.height \in Heights /\ r = HeadersRequest(r.url, r.height)
        BY RequestFacts DEF Heights
      <3>2. Left[r] > 0
        <4>1. /\ TimesRunning(messenger, r) \in Nat /\ TimesWaiting(messenger, r) \in Nat
              /\ TimesRunning(messenger, r) > 0
          BY <1>1, <1>4, TimesFacts
        <4>2. /\ Left[r] = TimesAsked(messenger, r) + Occurs(Asks(inbox), r)
              /\ TimesAsked(messenger, r) \in Nat /\ Occurs(Asks(inbox), r) \in Nat
          BY <1>4, LeftCounts
        <4> QED
          BY <4>1, <4>2 DEF TimesAsked
      <3>3. Reaches(r.height, tip, tree)
        BY <2>4, <3>1, <3>2 DEF OnTrack
      <3>4. Joined(HeadersFrom(tip, r.height), tip, tree)
        <4> HIDE DEF tip
        <4> QED
          BY <2>2, <2>4, <3>1, <3>3, HeadersFromJoined
      <3> QED
        BY <2>1, <2>4, <3>4
    <2> QED
      BY <2>3, <2>4
  <1>7. Expected(a, tree)
    <2>1. Expected(Failed(r), tree)
      BY DEF Failed, Answer, Expected
    <2> QED
      BY <1>2, <1>3, <1>6, <2>1, CutExpected
  <1>8. \A i \in DOMAIN inbox' : (i \in DOMAIN inbox /\ inbox'[i] = inbox[i]) \/ inbox'[i] = a
    BY <1>2, <1>4
  <1>9. Steady' = Steady /\ AbortsOnlyOnReorg'
    BY <1>1 DEF Steady, node, OnTrack, AbortsOnlyOnReorg
  <1> QED
    BY <1>1, <1>5, <1>7, <1>8, <1>9, RestOn DEF node

(* Whoever stays on its branch may extend it. *)
LEMMA GrowOn ==
  ASSUME Sound, OnTrack, NEW u \in Url \ Own, NEW b \in Chain, Grow(u, b) \/ Reorg(u, b)
  PROVE  OnTrack'
PROOF
  <1>1. /\ UNCHANGED <<node, messenger, inbox>> /\ chain' = [chain EXCEPT ![u] = b]
        /\ b # chain[u] /\ moved \subseteq moved'
        /\ u \in moved' \/ GoesOnFrom(b, chain[u])
    BY DEF Grow, Reorg
  <1>2. chain \in [Url \ Own -> Chain]
    BY DEF Sound, WorldOK
  <1>3. \A r \in Request : LeftAfter[r] = Left[r]
    BY <1>1 DEF LeftAfter, Left, Copies
  <1>4. ASSUME NEW v \in Steady'
        PROVE  /\ v \in Steady
               /\ \/ chain'[v] = chain[v]
                  \/ chain[v] # Foreign /\ chain'[v] # Foreign /\ Path(chain[v]) \subseteq Path(chain'[v])
    <2>1. v \in Steady /\ v \in Url \ Own /\ v \notin moved'
      BY <1>1, <1>4 DEF Steady
    <2>2. CASE v # u
      BY <1>1, <1>2, <2>1, <2>2
    <2>3. CASE v = u
      <3>1. GoesOnFrom(b, chain[u]) /\ chain'[u] = b
        BY <1>1, <1>2, <2>1, <2>3
      <3>2. b \in Block /\ chain[u] \in Path(b)
        BY <3>1, SyncAssumption DEF GoesOnFrom
      <3>3. chain[u] \in Block /\ Path(chain[u]) \subseteq Path(b) /\ chain[u] # Foreign /\ b # Foreign
        BY <3>2, TreeAssumption, RemoteMinerAssumption
      <3> QED
        BY <2>1, <2>3, <3>1, <3>3
    <2> QED
      BY <2>2, <2>3
  <1>5. AbortsOnlyOnReorg'
    BY <1>1 DEF OnTrack, AbortsOnlyOnReorg, node
  <1>6. UNCHANGED <<remote, tag, tree>> /\ \A i \in DOMAIN inbox' : i \in DOMAIN inbox /\ inbox'[i] = inbox[i]
    BY <1>1 DEF node
  <1> QED
    BY <1>3, <1>4, <1>5, <1>6, RestOn

(* A node that has forgotten what it knew starts from the root. *)
LEMMA ForgetOn ==
  ASSUME Sound, Forget, WellFormed(tree'), UNCHANGED <<chain, moved>>, AbortsOnlyOnReorg',
         \A u \in Steady : chain[u] # Foreign => tag'[u] \in Path(chain[u]) \cup {None}
  PROVE  OnTrack'
PROOF
  <1>1. PICK known : remote' = [u \in known |-> Unknown]
    BY DEF Forget
  <1>2. messenger' = NoRequests /\ inbox' = <<>> /\ chain \in [Url \ Own -> Chain]
    BY DEF Forget, Sound, WorldOK
  <1>3. \A r \in Request : LeftAfter[r] = 0
    BY <1>2, NoRequestsMade, NobodyAnswered DEF LeftAfter
  <1>4. ASSUME NEW u \in Steady', chain'[u] # Foreign
        PROVE  /\ tag'[u] \in Path(chain'[u]) \cup {None}
               /\ u \in DOMAIN remote' => Reaches(remote'[u].height, chain'[u], tree')
               /\ \A h \in Heights : LeftAfter[HeadersRequest(u, h)] > 0 => Reaches(h, chain'[u], tree')
    <2>1. u \in Steady /\ chain'[u] = chain[u] /\ u \in Url /\ chain[u] \in Block
      BY <1>2, <1>4, TipsAre DEF Steady
    <2>2. \A h \in Heights : HeadersRequest(u, h) \in Request
      BY <2>1, RequestFacts DEF Heights
    <2>3. \A h \in Heights : ~(LeftAfter[HeadersRequest(u, h)] > 0)
      BY <1>3, <2>2
    <2>4. u \in DOMAIN remote' => remote'[u].height = 0
      BY <1>1 DEF Unknown
    <2>5. Reaches(0, chain[u], tree')
      BY <2>1, RootReached
    <2> QED
      BY <1>4, <2>1, <2>3, <2>4, <2>5
  <1>5. DOMAIN inbox' = {}
    BY <1>2
  <1> QED
    BY <1>4, <1>5, OnTrackAfter

(* The answer that ends the process is of a miner that has left its branch. *)
LEMMA AbortOn ==
  ASSUME Sound, OnTrack, Abort
  PROVE  OnTrack'
PROOF
  <1>1. PICK k \in DOMAIN inbox :
          /\ AbortsAt(k)
          /\ \E n \in Heard(k - 1) : tree' = Receive(n, inbox[k]).tree /\ tag' = Receive(n, inbox[k]).tag
    BY DEF Abort
  <1>2. /\ Before \in Nodes /\ inbox \in Seq(Response) /\ chain \in [Url \ Own -> Chain]
        /\ \A i \in DOMAIN inbox : Plausible(inbox[i])
    BY DEF Sound, WorldOK
  <1>3. OnChain(Before) /\ \A i \in DOMAIN inbox : Expected(inbox[i], tree)
    BY DEF OnTrack
  <1>4. k - 1 \in 0..Len(inbox) /\ inbox[k] \in Response
    BY <1>2
  <1>5. ASSUME NEW n \in Heard(k - 1)
        PROVE  /\ n \in Nodes /\ OnChain(Receive(n, inbox[k]))
               /\ Aborts(n, inbox[k]) => inbox[k].request.url \in moved
    <2>1. n \in Nodes /\ tree.nodes \subseteq n.tree.nodes
      BY <1>2, <1>4, HeardFits
    <2>2. OnChain(n)
      BY <1>2, <1>3, <1>4, HeardOn
    <2>3. Expected(inbox[k], n.tree)
      BY <1>3, <2>1, JoinedStill DEF Expected
    <2> QED
      BY <1>2, <1>4, <2>1, <2>2, <2>3, ReceiveOn
  <1>6. inbox[k].request.url \in moved
    BY <1>1, <1>5 DEF AbortsAt
  <1>7. PICK n \in Heard(k - 1) : tree' = Receive(n, inbox[k]).tree /\ tag' = Receive(n, inbox[k]).tag
    BY <1>1
  <1>8. n \in Nodes /\ OnChain(Receive(n, inbox[k]))
    BY <1>5
  <1>9. Receive(n, inbox[k]) \in Nodes
    BY <1>4, <1>8, ReceiveFits
  <1>10. WellFormed(tree')
    BY <1>7, <1>9 DEF Nodes, NodeOK
  <1>11. \A u \in Steady : chain[u] # Foreign => tag'[u] \in Path(chain[u]) \cup {None}
    BY <1>7, <1>8 DEF OnChain
  <1>12. Forget /\ UNCHANGED <<chain, moved>>
    BY DEF Abort, world
  <1>13. AbortsOnlyOnReorg'
    BY <1>6, <1>12 DEF AbortsOnlyOnReorg
  <1> QED
    BY <1>10, <1>11, <1>12, <1>13, ForgetOn

LEMMA StepOn ==
  ASSUME Sound, OnTrack, NEW n \in Received, NEW online, NEW limit, NEW tips, NEW P, NEW A, NEW poll,
         GoesOn(n, online, limit, tips, P, A, poll), AbortsOnlyOnReorg'
  PROVE  OnTrack'
PROOF
  <1> DEFINE R == n.remote
  <1>1. /\ Before \in Nodes /\ inbox \in Seq(Response) /\ messenger \in Messengers
        /\ best \in tree.nodes /\ Consistent(Left, Before) /\ chain \in [Url \ Own -> Chain]
        /\ \A i \in DOMAIN inbox : Plausible(inbox[i])
    BY DEF Sound, WorldOK
  <1>2. n \in Nodes /\ Consistent(Unreturned, n) /\ Followed(n)
    BY <1>1, ReceivedKeeps
  <1>3. /\ NodeOK(n) /\ R \in [DOMAIN R -> RemoteState] /\ DOMAIN R \subseteq Url
        /\ n.searching \in BOOLEAN /\ best \in n.tree.nodes /\ tree.nodes \subseteq n.tree.nodes
    BY <1>1, <1>2 DEF Nodes, NodeOK, Followed
  <1>4. /\ online = { u \in DOMAIN R : IsOnline(R[u]) } /\ limit \in Nat /\ tips \in Seq(n.tree.nodes)
        /\ P \in Activated(Affirmed(n.pool, n.tree, tips))
        /\ A \in UpdateSearches(P, n.tree, DOMAIN R, online) /\ poll \in Polls(n, online)
        /\ remote' = [u \in DOMAIN R |-> Updated(R[u], limit)]
        /\ tag' = n.tag /\ inbox' = <<>> /\ tree' = A.tree /\ UNCHANGED <<chain, moved>>
        /\ messenger' \in SendRequests(messenger, RequestsOf(R, limit) \o A.requests \o poll)
    BY DEF GoesOn, world
  <1>5. Unreturned \in Counts
    BY <1>1, LeftCounts
  <1>6. online \in SUBSET Url
    BY <1>3, <1>4
  <1>7. /\ A.tree.nodes = n.tree.nodes /\ A.requests \in Seq(Request)
        /\ \A r \in Request : Occurs(A.requests, r) > 0 => r.kind = "block"
    <2>1. Matching(Unreturned, n)
      BY <1>2 DEF Consistent
    <2> DEFINE remotes == DOMAIN n.remote
    <2>2. A \in UpdateSearches(P, n.tree, remotes, online)
      BY <1>4
    <2> HIDE DEF remotes
    <2>3. GoneOn(A, n, Unreturned, online)
      BY <1>2, <1>3, <1>4, <1>5, <1>6, <2>1, <2>2, SearchesGoOn
    <2> QED
      BY <2>3 DEF GoneOn
  <1>8. poll \in Seq(Request) /\ \A r \in Request : Occurs(poll, r) > 0 => r.kind = "network"
    BY <1>3, <1>4, <1>6, PollFacts
  <1>9. /\ messenger' \in Messengers /\ inbox' \in Seq(Response)
        /\ \A r \in Request :
              /\ Unreturned[r] \in Nat /\ Occurs(A.requests, r) \in Nat /\ Occurs(poll, r) \in Nat
              /\ LeftAfter[r] = Unreturned[r] + (IF Asking(R, limit, r) THEN 1 ELSE 0)
                                  + Occurs(A.requests, r) + Occurs(poll, r)
    <2>1. R \in [DOMAIN R -> RemoteState] /\ DOMAIN R \subseteq Url /\ limit \in Nat
      BY <1>3, <1>4
    <2>2. A.requests \in Seq(Request) /\ poll \in Seq(Request) /\ messenger \in Messengers
      BY <1>1, <1>7, <1>8
    <2> DEFINE s == A.requests
    <2>3. messenger' \in SendRequests(messenger, RequestsOf(R, limit) \o s \o poll) /\ inbox' = <<>>
      BY <1>4
    <2> HIDE DEF R, s
    <2>4. /\ messenger' \in Messengers /\ inbox' \in Seq(Response)
          /\ \A r \in Request :
                /\ Unreturned[r] \in Nat /\ Occurs(s, r) \in Nat /\ Occurs(poll, r) \in Nat
                /\ LeftAfter[r] = Unreturned[r] + (IF Asking(R, limit, r) THEN 1 ELSE 0)
                                    + Occurs(s, r) + Occurs(poll, r)
      BY <2>1, <2>2, <2>3, RequestsCounted DEF s
    <2> QED
      BY <2>4 DEF s
  <1>10. OnChain(n)
    <2>1. OnChain(Before) /\ \A i \in DOMAIN inbox : Expected(inbox[i], tree)
      BY DEF OnTrack
    <2>2. Len(inbox) \in 0..Len(inbox) /\ n \in Heard(Len(inbox))
      BY <1>1 DEF Received
    <2> QED
      BY <1>1, <2>1, <2>2, HeardOn
  <1>11. \A u \in DOMAIN R : Updated(R[u], limit).height = R[u].height
    <2>1. ASSUME NEW u \in DOMAIN R PROVE Updated(R[u], limit).height = R[u].height
      <3> DEFINE r == R[u]
      <3>1. r \in RemoteState
        BY <1>3
      <3> HIDE DEF r
      <3>2. Updated(r, limit).height = r.height
        BY <1>4, <3>1, UpdatedFacts
      <3> QED
        BY <3>2 DEF r
    <2> QED
      BY <2>1
  <1> HIDE DEF R
  <1>12. ASSUME NEW u \in Steady', chain'[u] # Foreign
         PROVE  /\ tag'[u] \in Path(chain'[u]) \cup {None}
                /\ u \in DOMAIN remote' => Reaches(remote'[u].height, chain'[u], tree')
                /\ \A h \in Heights : LeftAfter[HeadersRequest(u, h)] > 0 => Reaches(h, chain'[u], tree')
    <2>1. u \in Steady /\ chain'[u] = chain[u] /\ chain[u] # Foreign /\ u \in Url
      BY <1>4, <1>12 DEF Steady
    <2>2. /\ n.tag[u] \in Path(chain[u]) \cup {None}
          /\ u \in DOMAIN R => Reaches(R[u].height, chain[u], n.tree)
      BY <1>10, <2>1 DEF OnChain, R
    <2>3. u \in DOMAIN remote' => u \in DOMAIN R /\ remote'[u].height = R[u].height
      BY <1>4, <1>11
    <2>4. ASSUME NEW h, Reaches(h, chain[u], n.tree) PROVE Reaches(h, chain'[u], tree')
      BY <1>4, <1>7, <2>1, <2>4 DEF Reaches
    <2>5. ASSUME NEW h \in Heights, LeftAfter[HeadersRequest(u, h)] > 0
          PROVE  Reaches(h, chain[u], n.tree)
      <3> DEFINE q == HeadersRequest(u, h)
      <3>1. q \in Request /\ q.kind = "headers"
        BY <2>1, RequestFacts, RequestsDiffer DEF Heights
      <3>2. Asking(R, limit, q) => u \in DOMAIN R /\ h = R[u].height
        BY DEF Asking, HeadersRequest, InfoRequest
      <3> HIDE DEF q
      <3>3. CASE Asking(R, limit, q)
        BY <2>2, <3>2, <3>3
      <3>4. CASE ~Asking(R, limit, q)
        <4>1. Occurs(A.requests, q) = 0 /\ Occurs(poll, q) = 0
          <5>1. /\ ~(Occurs(A.requests, q) > 0) /\ ~(Occurs(poll, q) > 0)
                /\ Occurs(A.requests, q) \in Nat /\ Occurs(poll, q) \in Nat
            BY <1>7, <1>8, <1>9, <3>1
          <5> QED
            BY <5>1
        <4>2. Unreturned[q] > 0
          BY <1>9, <2>5, <3>1, <3>4, <4>1 DEF q
        <4>3. Left[q] > 0
          <5>1. /\ Left[q] = TimesAsked(messenger, q) + Occurs(Asks(inbox), q)
                /\ TimesAsked(messenger, q) \in Nat /\ Occurs(Asks(inbox), q) \in Nat
                /\ Unreturned[q] = TimesAsked(messenger, q)
            BY <1>1, <3>1, LeftCounts DEF Unreturned
          <5> QED
            BY <4>2, <5>1
        <4>4. Reaches(h, chain[u], tree)
          BY <2>1, <4>3 DEF OnTrack, q
        <4> QED
          BY <1>3, <4>4 DEF Reaches
      <3> QED
        BY <3>3, <3>4
    <2> QED
      BY <1>4, <2>1, <2>2, <2>3, <2>4, <2>5
  <1>13. DOMAIN inbox' = {}
    BY <1>4
  <1> QED
    BY <1>12, <1>13, OnTrackAfter

LEMMA NextOn ==
  ASSUME Sound, OnTrack, [Next]_vars
  PROVE  OnTrack'
PROOF
  <1>1. ASSUME UNCHANGED <<remote, tag, tree, messenger, inbox, chain, moved>>, AbortsOnlyOnReorg'
        PROVE  OnTrack'
    <2>1. /\ \A r \in Request : LeftAfter[r] = Left[r]
          /\ \A i \in DOMAIN inbox' : i \in DOMAIN inbox /\ inbox'[i] = inbox[i]
          /\ Steady' = Steady
      BY <1>1 DEF LeftAfter, Left, Copies, Steady
    <2> QED
      BY <1>1, <2>1, RestOn
  <1>2. AbortsOnlyOnReorg
    BY DEF OnTrack
  <1>3. CASE Step
    <2>1. PICK n \in Received : \E online, limit, tips, P, A, poll : GoesOn(n, online, limit, tips, P, A, poll)
      BY <1>3, StepGoesOn
    <2>2. PICK online, limit, tips, P, A, poll : GoesOn(n, online, limit, tips, P, A, poll)
      BY <2>1
    <2>3. AbortsOnlyOnReorg'
      BY <1>2, <1>3 DEF Step, world, AbortsOnlyOnReorg
    <2> QED
      BY <2>2, <2>3, StepOn
  <1>4. ASSUME NEW r \in Request, Finish(r) \/ Fail(r) PROVE OnTrack'
    BY <1>4, FinishOn
  <1>5. CASE Idle
    <2>1. /\ messenger \in Messengers /\ messenger.leaving > 0 /\ messenger' = ThreadIdle(messenger)
          /\ UNCHANGED <<remote, tag, tree, up, inbox, chain, moved>>
      BY <1>5 DEF Sound, Idle, node, world
    <2>2. \A r \in Request : TimesAsked(messenger', r) = TimesAsked(messenger, r)
      BY <2>1, ThreadIdleKeeps
    <2>3. \A r \in Request : LeftAfter[r] = Left[r]
      BY <2>1, <2>2 DEF LeftAfter, Left, Copies
    <2>4. Steady' = Steady /\ AbortsOnlyOnReorg'
      BY <1>2, <2>1 DEF Steady, AbortsOnlyOnReorg
    <2> QED
      BY <2>1, <2>3, <2>4, RestOn
  <1>6. ASSUME NEW u \in Url \ Own, NEW b \in Chain, Grow(u, b) \/ Reorg(u, b) PROVE OnTrack'
    BY <1>6, GrowOn
  <1>7. CASE Restart
    <2>1. Forget /\ UNCHANGED <<tree, tag, up, chain, moved>> /\ WellFormed(tree)
      BY <1>7, SoundMeans DEF Restart, TypeOK
    <2>2. \A u \in Steady : chain[u] # Foreign => tag'[u] \in Path(chain[u]) \cup {None}
      BY <2>1 DEF OnTrack, OnChain, Before
    <2>3. AbortsOnlyOnReorg'
      BY <1>2, <2>1 DEF AbortsOnlyOnReorg
    <2> QED
      BY <2>1, <2>2, <2>3, ForgetOn
  <1>8. CASE Abort
    BY <1>8, AbortOn
  <1>9. CASE StartAgain
    <2>1. AbortsOnlyOnReorg'
      BY <1>9 DEF StartAgain, AbortsOnlyOnReorg
    <2> QED
      BY <1>1, <1>9, <2>1 DEF StartAgain, world
  <1>10. CASE UNCHANGED vars
    BY <1>1, <1>2, <1>10 DEF vars, node, world, AbortsOnlyOnReorg
  <1> QED
    BY <1>3, <1>4, <1>5, <1>6, <1>7, <1>8, <1>9, <1>10 DEF Next

LEMMA InitOn == Init => OnTrack
PROOF
  <1> SUFFICES ASSUME Init PROVE OnTrack
    OBVIOUS
  <1>1. /\ remote = [u \in Seeds |-> Unknown] /\ tree = GenesisTree /\ tag = [u \in Url |-> None]
        /\ messenger = NoRequests /\ inbox = <<>> /\ up = TRUE
        /\ chain \in [Url \ Own -> Chain]
    BY DEF Init
  <1>2. \A r \in Request : Left[r] = 0
    BY <1>1, NoRequestsMade, NobodyAnswered DEF Left, Copies
  <1>3. ASSUME NEW u \in Steady, chain[u] # Foreign
        PROVE  /\ tag[u] = None /\ (u \in DOMAIN remote => Reaches(remote[u].height, chain[u], tree))
               /\ \A h \in Heights : ~(Left[HeadersRequest(u, h)] > 0)
    <2>1. chain[u] \in Block /\ u \in Url
      BY <1>1, <1>3, TipsAre DEF Steady
    <2>2. Reaches(0, chain[u], tree)
      BY <1>1, <2>1, GenesisWellFormed, RootReached
    <2>3. u \in DOMAIN remote => remote[u].height = 0
      BY <1>1 DEF Unknown
    <2>4. \A h \in Heights : HeadersRequest(u, h) \in Request
      BY <2>1, RequestFacts DEF Heights
    <2> QED
      BY <1>1, <1>2, <2>1, <2>2, <2>3, <2>4
  <1>4. OnChain(Before)
    BY <1>3 DEF OnChain, Before
  <1>5. DOMAIN inbox = {} /\ AbortsOnlyOnReorg
    BY <1>1 DEF AbortsOnlyOnReorg
  <1> QED
    BY <1>3, <1>4, <1>5 DEF OnTrack

-----------------------------------------------------------------------------

(***************************************************************************)
(* Whatever answers come, in whatever order, and whatever fails, the parts *)
(* of the node keep their kinds: tags, searches and the best branch name   *)
(* blocks of the tree, the tree stays well formed when headers, bodies and *)
(* missing blocks are recorded in it in the order of the answers, and no   *)
(* more is at work than there are threads.                                 *)
(***************************************************************************)
THEOREM TypeCorrect == Spec => []TypeOK
PROOF
  <1>1. Sound => TypeOK
    BY SoundMeans
  <1> QED
    BY <1>1, AlwaysSound, PTL

(***************************************************************************)
(* A remote miner in WAITING_FOR_INFO or WAITING_FOR_HEADERS, and a search *)
(* for more miners (mNetworkSearch), always has its request queued, being  *)
(* carried out, or answered and not yet read: nobody waits for an answer   *)
(* that cannot come.                                                       *)
(***************************************************************************)
THEOREM NobodyIsForgotten == Spec => []NobodyWaitsInVain
PROOF
  <1>1. Sound => NobodyWaitsInVain
    BY SoundMeans
  <1> QED
    BY <1>1, AlwaysSound, PTL

(***************************************************************************)
(* The assertion in BlockSearch::step holds, and its converse: the miners  *)
(* a search holds for asked (mActiveURLs) are the ones with exactly one    *)
(* copy of a request for its block under way, although searches end and    *)
(* start again while requests are queued, carried out and answered.        *)
(***************************************************************************)
THEOREM SearchesAgree == Spec => []SearchesMatchRequests
PROOF
  <1>1. Sound => SearchesMatchRequests
    BY SoundMeans
  <1> QED
    BY <1>1, AlwaysSound, PTL

(***************************************************************************)
(* No block is given up as missing while a miner that is online has not    *)
(* been asked for it, or for the block below it that was given up, or has  *)
(* not answered that it does not have it (BlockSearch::step, setMissing).  *)
(***************************************************************************)
THEOREM BlocksGivenUpForAReason == Spec => GivesUpForAReason
PROOF
  <1>1. Sound /\ [Next]_vars => [GivesUp]_vars
    BY NextKeeps
  <1>2. [][GivesUp]_vars => GivesUpForAReason
    BY DEF GivesUp, GivesUpForAReason
  <1> QED
    BY <1>1, <1>2, AlwaysSound, PTL DEF Spec

(***************************************************************************)
(* The assertion in BlockTreeCursor::getHeader fails in processHeaders     *)
(* only if some miner has left the branch it was on.  As long as chains    *)
(* just grow, the first header of every answer is in the tree and each of  *)
(* the others stands on the one before, whatever is lost, late, cut short  *)
(* or refused, and across restarts.                                        *)
(***************************************************************************)
THEOREM AbortsOnlyForAReason == Spec => []AbortsOnlyOnReorg
PROOF
  <1>1. Init => Sound /\ OnTrack
    BY InitSound, InitOn
  <1>2. Sound /\ OnTrack /\ [Next]_vars => (Sound /\ OnTrack)'
    BY NextKeeps, NextOn
  <1>3. OnTrack => AbortsOnlyOnReorg
    BY DEF OnTrack
  <1> QED
    BY <1>1, <1>2, <1>3, PTL DEF Spec

=============================================================================
