---------------------------- MODULE Mining_proofs ----------------------------
(***************************************************************************)
(* What improveBranch does to a branch, for every branch, clock, rewrite   *)
(* window and drawing of charms, and what every step of a mining node      *)
(* keeps true, for any number of other miners, blocks of any height and    *)
(* any drawing of charms, with crashes; and that the sampler finds what    *)
(* most of its leaves share.                                               *)
(***************************************************************************)
EXTENDS Mining, BranchOrder_proofs

Data == INSTANCE BlockTreeData_proofs

(* The ancestor of a branch at a height. *)
LEMMA AncestorFacts ==
  ASSUME NEW b \in Block, NEW h \in 0..Len(b)
  PROVE  /\ Ancestor(b, h) \in Block /\ Len(Ancestor(b, h)) = h
         /\ \A i \in 1..h : Ancestor(b, h)[i] = b[i]
BY DEF Ancestor, Block

LEMMA AncestorWhole ==
  ASSUME NEW b \in Block
  PROVE  Ancestor(b, Len(b)) = b
BY DEF Ancestor, Block

LEMMA AncestorTwice ==
  ASSUME NEW b \in Block, NEW h \in 0..Len(b), NEW g \in 0..h
  PROVE  Ancestor(Ancestor(b, h), g) = Ancestor(b, g)
PROOF
  <1>1. g \in 0..Len(b) /\ g \in 0..Len(Ancestor(b, h))
    BY AncestorFacts DEF Block
  <1> QED
    BY <1>1, AncestorFacts DEF Ancestor, Block

(* The path of a branch, by heights. *)
LEMMA PathFacts ==
  ASSUME NEW b \in Block
  PROVE  /\ Path(b) \subseteq Block
         /\ b \in Path(b) /\ Genesis \in Path(b)
         /\ \A a \in Path(b) : Len(a) \in 0..Len(b) /\ a = Ancestor(b, Len(a))
PROOF
  <1>1. Len(b) \in Nat
    BY DEF Block
  <1>2. \A h \in 0..Len(b) : Ancestor(b, h) \in Block /\ Len(Ancestor(b, h)) = h
    BY AncestorFacts
  <1>3. Ancestor(b, 0) = Genesis
    BY DEF Ancestor, Genesis, Block
  <1> QED
    BY <1>1, <1>2, <1>3, AncestorWhole DEF Path

(* Blocks that are identified by their pasts form a tree. *)
LEMMA BlocksFormATree ==
  /\ Genesis \in Block
  /\ Path(Genesis) = {Genesis}
  /\ \A b \in Block : b \in Path(b) /\ Genesis \in Path(b) /\ Path(b) \subseteq Block
  /\ \A b \in Block \ {Genesis} :
       /\ Parent(b) \in Block
       /\ b \notin Path(Parent(b))
       /\ Path(b) = Path(Parent(b)) \cup {b}
  /\ \A a, b \in Block : a \in Path(b) => Path(a) \subseteq Path(b)
  /\ \A a, b, c \in Block :
       a \in Path(c) /\ b \in Path(c) => a \in Path(b) \/ b \in Path(a)
PROOF
  <1>1. Genesis \in Block /\ Len(Genesis) = 0
    BY DEF Genesis, Block
  <1>2. Path(Genesis) = {Genesis}
    <2> SUFFICES ASSUME NEW a \in Path(Genesis) PROVE a = Genesis
      BY <1>1, PathFacts
    <2>1. a \in Block /\ Len(a) \in 0..Len(Genesis)
      BY <1>1, PathFacts
    <2>2. a \in Seq(Header) /\ Len(a) = 0
      BY <1>1, <2>1 DEF Block
    <2> QED
      BY <2>2 DEF Genesis
  <1>3. ASSUME NEW b \in Block, NEW a \in Block, a \in Path(b)
        PROVE  /\ Path(a) \subseteq Path(b)
               /\ \A c \in Path(b) : Len(c) <= Len(a) => c \in Path(a)
    <2>1. /\ Len(a) \in 0..Len(b) /\ a = Ancestor(b, Len(a))
          /\ Len(b) \in Nat
      BY <1>3, PathFacts DEF Block
    <2>2. \A g \in 0..Len(a) : g \in 0..Len(b) /\ Ancestor(a, g) = Ancestor(b, g)
      BY <2>1, AncestorTwice
    <2>3. \A c \in Path(b) : Len(c) \in 0..Len(b) /\ c = Ancestor(b, Len(c))
      BY PathFacts
    <2> QED
      BY <2>1, <2>2, <2>3 DEF Path
  <1>4. ASSUME NEW b \in Block \ {Genesis}
        PROVE  /\ Parent(b) \in Block
               /\ b \notin Path(Parent(b))
               /\ Path(b) = Path(Parent(b)) \cup {b}
    <2>1. Len(b) \in Nat \ {0}
      BY DEF Block, Genesis
    <2>2. Len(b) - 1 \in 0..Len(b) /\ Parent(b) = Ancestor(b, Len(b) - 1)
      BY <2>1 DEF Parent, Front, Ancestor
    <2>3. Parent(b) \in Block /\ Len(Parent(b)) = Len(b) - 1 /\ Parent(b) \in Path(b)
      BY <2>2, AncestorFacts DEF Path
    <2>4. b \notin Path(Parent(b))
      BY <2>1, <2>3, PathFacts
    <2>5. \A a \in Path(b) : Len(a) \in 0..Len(b) /\ a = Ancestor(b, Len(a))
      BY PathFacts
    <2>6. \A a \in Path(b) : a # b => Len(a) <= Len(b) - 1
      BY <2>1, <2>5, AncestorWhole
    <2> QED
      BY <1>3, <2>3, <2>4, <2>6, PathFacts
  <1>5. ASSUME NEW a \in Block, NEW b \in Block, NEW c \in Block, a \in Path(c), b \in Path(c)
        PROVE  a \in Path(b) \/ b \in Path(a)
    <2>1. Len(a) \in Nat /\ Len(b) \in Nat
      BY DEF Block
    <2> QED
      BY <1>3, <1>5, <2>1
  <1> QED
    BY <1>1, <1>2, <1>3, <1>4, <1>5, PathFacts

(* The operations on trees are those that BlockTreeData_proofs speaks of. *)
LEMMA SameOperations ==
  ASSUME NEW T, NEW b
  PROVE  /\ WellFormed(T) <=> Data!WellFormed(T)
         /\ GenesisTree = Data!GenesisTree
         /\ SetMissing(T, b) = Data!SetMissing(T, b)
         /\ StoreBlock(T, b) = Data!StoreBlock(T, b)
         /\ AffirmHeader(T, b) = Data!AffirmHeader(T, b)
         /\ AffirmBlock(T, b) = Data!AffirmBlock(T, b)
PROOF
  <1>1. WellFormed(T) <=> Data!WellFormed(T)
    BY DEF WellFormed, TreeType, PathsRecorded, CompleteExact, MissingClosed, MissingJustified,
           Data!WellFormed, Data!TreeType, Data!PathsRecorded, Data!CompleteExact,
           Data!MissingClosed, Data!MissingJustified
  <1>2. GenesisTree = Data!GenesisTree
    BY DEF GenesisTree, Data!GenesisTree
  <1>3. SetMissing(T, b) = Data!SetMissing(T, b)
    BY DEF SetMissing, WithStatus, Reached, Data!SetMissing, Data!WithStatus, Data!Reached
  <1>4. StoreBlock(T, b) = Data!StoreBlock(T, b)
    BY DEF StoreBlock, SetComplete, WithBody, WithStatus, Reached,
           Data!StoreBlock, Data!SetComplete, Data!WithBody, Data!WithStatus, Data!Reached
  <1>5. AffirmHeader(T, b) = Data!AffirmHeader(T, b)
    BY DEF AffirmHeader, InsertHeader, Inherits, Data!AffirmHeader, Data!InsertHeader, Data!Inherits
  <1>6. AffirmBlock(T, b) = Data!AffirmBlock(T, b)
    BY <1>4 DEF AffirmBlock, InsertBlock, Inherits, Data!AffirmBlock, Data!InsertBlock, Data!Inherits
  <1> QED
    BY <1>1, <1>2, <1>3, <1>4, <1>5, <1>6

(* The headers of the node's tree can be read by compare. *)
LEMMA HeadersReadable == Readable(Header)
BY DEF Readable, Header

(* Branches that agree up to a height and no further fork there. *)
LEMMA ForkAtDifference ==
  ASSUME NEW S, NEW a \in Seq(S), NEW b \in Seq(S), NEW h \in Nat,
         h <= Len(a), h <= Len(b), \A i \in 1..h : a[i] = b[i],
         h < Len(a) /\ h < Len(b) => a[h + 1] # b[h + 1]
  PROVE  RootHeight(a, b) = h
PROOF
  <1> DEFINE root == RootHeight(a, b)
  <1>1. h \in SharedHeights(a, b)
    BY DEF SharedHeights
  <1>2. /\ root \in Nat /\ root <= Len(a) /\ root <= Len(b)
        /\ \A i \in 1..root : a[i] = b[i]
    BY RootFacts DEF SharedHeights
  <1>3. h <= root
    BY <1>1, RootFacts
  <1> HIDE DEF root
  <1>4. ~(h < root)
    BY <1>2
  <1> QED
    BY <1>2, <1>3, <1>4 DEF root

(***************************************************************************)
(* improveBranch never makes a branch worse in the eyes of compare: what   *)
(* it returns beats what it was given, as long as no block of the branch   *)
(* is from the future.  A tail it gives up is too young to be worth more   *)
(* than one block.                                                         *)
(***************************************************************************)
THEOREM ImprovementPays ==
  ASSUME now \in Nat, \A c : NextCharm(c, Self) \in Nat,
         NEW b \in Block, Time(b) <= now, NEW consensusHeight \in Nat,
         Improve(b, consensusHeight) # b
  PROVE  Compare(Improve(b, consensusHeight), b) = -1
PROOF
  <1> DEFINE heights == ExtendFrom(b, consensusHeight)
  <1> DEFINE lowest == CHOOSE h \in heights : \A i \in heights : h <= i
  <1>1. heights # {} /\ Improve(b, consensusHeight) = OwnBlock(Ancestor(b, lowest), TRUE)
    BY DEF Improve
  <1>2. heights \in SUBSET Nat
    BY DEF ExtendFrom, Block
  <1>3. PICK h \in heights : h = lowest
    BY <1>1, <1>2, LeastExists
  <1> DEFINE c == OwnBlock(Ancestor(b, h), TRUE)
  <1> DEFINE own == [by |-> Self, at |-> now, charm |-> NextCharm(Ancestor(b, h), Self),
                     provisional |-> TRUE]
  <1> HIDE DEF lowest
  <1>4. /\ h \in 0..Len(b)
        /\ \A i \in (h + 1)..Len(b) : now - b[i].at < Window
        /\ h < Len(b) => NextCharm(Ancestor(b, h), Self) < b[h + 1].charm
    BY DEF ExtendFrom, Replaceable
  <1>5. own \in Header /\ own.charm = NextCharm(Ancestor(b, h), Self)
    BY DEF Header, Miner
  <1>6. b \in Seq(Header) /\ Len(b) \in Nat
    BY DEF Block
  <1>7. h < Len(b) => b[h + 1] \in Header /\ own.charm < b[h + 1].charm
    BY <1>4, <1>5, <1>6
  <1>8. h < Len(b) => b[h + 1] # own
    BY <1>5, <1>7 DEF Header
  <1> HIDE DEF own
  <1>9. c = Append(Ancestor(b, h), own) /\ Improve(b, consensusHeight) = c
    BY <1>1, <1>3 DEF OwnBlock, own
  <1> HIDE DEF c, heights
  <1>10. /\ c \in Seq(Header) /\ Len(c) = h + 1 /\ c[h + 1] = own
         /\ RootHeight(c, b) = h
    <2>1. Ancestor(b, h) \in Seq(Header) /\ Len(Ancestor(b, h)) = h
      BY <1>4, <1>6 DEF Ancestor
    <2>2. \A i \in 1..h : Ancestor(b, h)[i] = b[i]
      BY <1>4, <1>6 DEF Ancestor
    <2>3. c \in Seq(Header) /\ Len(c) = h + 1 /\ c[h + 1] = own
      BY <1>5, <1>9, <2>1
    <2>4. \A i \in 1..h : c[i] = b[i]
      BY <1>4, <1>5, <1>9, <2>1, <2>2
    <2>5. h < Len(b) => c[h + 1] # b[h + 1]
      BY <1>8, <2>3
    <2>6. h \in Nat /\ h <= Len(c) /\ h <= Len(b)
      BY <1>4, <1>6, <2>3
    <2>7. RootHeight(c, b) = h
      BY <1>6, <2>3, <2>4, <2>5, <2>6, ForkAtDifference
    <2> QED
      BY <2>3, <2>7
  <1>11. c # b
    BY <1>9
  <1>12. CASE h = Len(b)
    BY <1>9, <1>10, <1>11, <1>12 DEF Compare
  <1>13. CASE h < Len(b)
    <2>1. (IF Len(c) < Len(b) THEN Len(c) ELSE Len(b)) - h = 1
      BY <1>4, <1>6, <1>10, <1>13
    <2>2. DefeatCount(b, h) <= 1
      <3>1. b[h + 1].at \in Nat /\ Time(b) \in Nat
        BY <1>4, <1>6, <1>13, DefeatCountType, HeadersReadable
      <3>2. now - b[h + 1].at < Window
        BY <1>4, <1>6, <1>13
      <3>3. Time(b) - b[h + 1].at < Window /\ Time(b) - b[h + 1].at \in Int
        BY <3>1, <3>2, WindowAssumption
      <3>4. (Time(b) - b[h + 1].at) \div Window <= 0
        BY <3>3, WindowAssumption
      <3> QED
        BY <3>3, <3>4, WindowAssumption DEF DefeatCount
    <2>3. own.charm \in Nat /\ b[h + 1].charm \in Nat
      BY <1>5, <1>7, <1>13 DEF Header
    <2>4. Wins(c, b, h) = {h + 1}
      BY <1>4, <1>6, <1>7, <1>10, <1>13 DEF Wins
    <2>5. Wins(b, c, h) = {}
      <3> SUFFICES ASSUME NEW i \in Wins(b, c, h) PROVE FALSE
        OBVIOUS
      <3>1. i = h + 1 /\ b[h + 1].charm < own.charm
        BY <1>4, <1>6, <1>10 DEF Wins
      <3> QED
        BY <1>7, <1>13, <2>3, <3>1
    <2>6. Cardinality(Wins(b, c, h)) - Cardinality(Wins(c, b, h)) = 0 - 1
      BY <2>4, <2>5, FS_EmptySet, FS_Singleton
    <2>7. DefeatCount(b, h) \in Int /\ DefeatCount(c, h) \in Int
      BY <1>4, <1>6, <1>10, <1>13, DefeatCountType, HeadersReadable
    <2>8. ~(1 < Len(c) - h) /\ ~(1 < DefeatCount(b, h))
      BY <1>4, <1>10, <2>2, <2>7
    <2>9. CompareFork(c, b, h) = Sign(0 - 1)
      BY <2>1, <2>6, <2>8 DEF CompareFork
    <2>10. Sign(0 - 1) = -1
      BY DEF Sign
    <2>11. Compare(c, b) = CompareFork(c, b, h)
      BY <1>4, <1>6, <1>10, <1>11, <1>13 DEF Compare
    <2> QED
      BY <1>9, <2>9, <2>10, <2>11
  <1> QED
    BY <1>4, <1>6, <1>12, <1>13

-----------------------------------------------------------------------------

(* Charms are numbers, whatever they are. *)
CharmsDrawn == \A b, m : NextCharm(b, m) \in Nat

IInv == TypeOK /\ LedgerAvailable /\ DelaysKept

-----------------------------------------------------------------------------
(* Trees and chains. *)

(* Rows and bodies are never lost, so neither are complete branches. *)
LEMMA CompleteGrows ==
  ASSUME NEW T, NEW U, WellFormed(T), WellFormed(U),
         T.nodes \subseteq U.nodes, T.held \subseteq U.held
  PROVE  T.complete \subseteq U.complete
BY DEF WellFormed, CompleteExact

(* Blocks of a tree are blocks, and a complete block stands on complete ones. *)
LEMMA TreeFacts ==
  ASSUME NEW T, WellFormed(T)
  PROVE  /\ T.nodes \subseteq Block /\ T.complete \subseteq T.nodes
         /\ Genesis \in T.complete /\ Genesis \notin T.missing
         /\ \A b \in T.nodes : Path(b) \subseteq T.nodes
         /\ \A b \in T.complete : Path(b) \subseteq T.complete
PROOF
  <1>1. T.nodes \subseteq Block /\ T.complete \subseteq T.nodes /\ Genesis \in T.complete
    BY DEF WellFormed, TreeType, CompleteExact
  <1>2. \A b \in T.nodes : Path(b) \subseteq T.nodes
    BY DEF WellFormed, PathsRecorded
  <1>3. Genesis \notin T.missing
    BY <1>1 DEF WellFormed, CompleteExact, MissingJustified
  <1>4. ASSUME NEW b \in T.complete, NEW a \in Path(b) PROVE a \in T.complete
    <2>1. a \in T.nodes /\ b \in Block /\ a \in Block
      BY <1>1, <1>2
    <2>2. Path(a) \subseteq Path(b)
      BY <2>1, <1>4, BlocksFormATree
    <2> QED
      BY <2>1, <2>2 DEF WellFormed, CompleteExact
  <1> QED
    BY <1>1, <1>2, <1>3, <1>4

(***************************************************************************)
(* composeChain leads to the highest complete block of the branch, from    *)
(* whatever available ledger it starts.                                    *)
(***************************************************************************)
LEMMA ChainComposed ==
  ASSUME NEW T, WellFormed(T), NEW from \in T.complete, NEW b \in T.nodes
  PROVE  \E k \in 0..Len(b) :
           /\ ComposeChain(T, from, b) = Ancestor(b, k)
           /\ Ancestor(b, k) \in T.complete
           /\ \A h \in (k + 1)..Len(b) : Ancestor(b, h) \notin T.complete
PROOF
  <1> DEFINE root == RootHeight(from, b)
  <1> DEFINE pushed == { h \in (root + 1)..Len(b) : Ancestor(b, h) \in T.complete }
  <1>1. from \in Block /\ b \in Block /\ Len(b) \in Nat /\ Len(from) \in Nat
    BY TreeFacts DEF Block
  <1>2. /\ root \in 0..Len(from) /\ root \in 0..Len(b)
        /\ \A i \in 1..root : from[i] = b[i]
    BY <1>1, RootFacts DEF SharedHeights, Block
  <1>3. ComposeChain(T, from, b) = Ancestor(b, root + Cardinality(pushed))
    BY DEF ComposeChain
  <1> HIDE DEF root
  <1>4. Ancestor(b, root) \in T.complete
    <2>1. Ancestor(b, root) = Ancestor(from, root)
      BY <1>1, <1>2 DEF Ancestor, Block
    <2>2. Ancestor(from, root) \in Path(from)
      BY <1>2 DEF Path
    <2> QED
      BY <2>1, <2>2, TreeFacts
  <1> DEFINE heights == pushed \cup {root}
  <1>5. heights \in SUBSET (0..Len(b)) /\ heights # {}
    BY <1>1, <1>2
  <1>6. PICK k \in heights : \A h \in heights : h <= k
    BY <1>1, <1>5, GreatestExists
  <1>7. k \in 0..Len(b) /\ root <= k /\ Ancestor(b, k) \in T.complete
    BY <1>2, <1>4, <1>6
  <1>8. ASSUME NEW h \in (root + 1)..k PROVE h \in pushed
    <2>1. h \in 0..k /\ h \in (root + 1)..Len(b)
      BY <1>1, <1>2, <1>7
    <2>2. Ancestor(b, h) = Ancestor(Ancestor(b, k), h)
      BY <1>1, <1>7, <2>1, AncestorTwice
    <2>3. Ancestor(b, h) \in Path(Ancestor(b, k))
      BY <1>1, <1>7, <2>1, <2>2, AncestorFacts DEF Path
    <2> QED
      BY <1>7, <2>1, <2>3, TreeFacts
  <1>9. pushed = (root + 1)..k
    BY <1>1, <1>2, <1>6, <1>7, <1>8
  <1>10. root \in Int /\ k \in Int /\ root <= k
    BY <1>1, <1>2, <1>7
  <1>11. ComposeChain(T, from, b) = Ancestor(b, k)
    <2>1. Cardinality((root + 1)..k) =
            IF root + 1 > k THEN 0 ELSE k - (root + 1) + 1
      BY <1>10, FS_Interval
    <2>2. Cardinality((root + 1)..k) = k - root
      BY <1>10, <2>1
    <2> HIDE DEF pushed, heights
    <2>3. root + Cardinality(pushed) = k
      BY <1>9, <1>10, <2>2
    <2> QED
      BY <1>3, <2>3
  <1>12. \A h \in (k + 1)..Len(b) : Ancestor(b, h) \notin T.complete
    BY <1>1, <1>2, <1>6, <1>7
  <1> QED
    BY <1>7, <1>11, <1>12

-----------------------------------------------------------------------------
(* The choice of the best branch. *)

(* Trimming a branch leaves a block of the tree. *)
LEMMA Trimmed ==
  ASSUME WellFormed(tree), NEW b \in tree.nodes
  PROVE  Trim(b) \in tree.nodes
PROOF
  <1> DEFINE present == { h \in 0..Len(b) : Ancestor(b, h) \notin tree.missing }
  <1>1. b \in Block /\ Len(b) \in Nat
    BY TreeFacts DEF Block
  <1>2. 0 \in present
    <2>1. Ancestor(b, 0) = Genesis
      BY <1>1 DEF Ancestor, Genesis, Block
    <2> QED
      BY <1>1, <2>1, TreeFacts
  <1>3. PICK k \in present : \A h \in present : h <= k
    BY <1>1, <1>2, GreatestExists
  <1>4. \A i \in (k + 1)..Len(b) : Ancestor(b, i) \in tree.missing
    BY <1>1, <1>3
  <1>5. \E h \in 0..Len(b) : Trim(b) = Ancestor(b, h)
    BY <1>3, <1>4 DEF Trim
  <1>6. Trim(b) \in Path(b)
    BY <1>5 DEF Path
  <1> QED
    BY <1>6, TreeFacts

(* A sequence with one more element in front. *)
LEMMA Prepended ==
  ASSUME NEW S, NEW x \in S, NEW s \in Seq(S)
  PROVE  <<x>> \o s \in Seq(S) /\ Len(<<x>> \o s) \in Nat \ {0}
PROOF
  <1>1. <<x>> = Append(<<>>, x)
    OBVIOUS
  <1>2. <<x>> \in Seq(S) /\ Len(<<x>>) = 1
    BY <1>1
  <1> QED
    BY <1>2

(* The leaves of a step are blocks of the tree, and there is one. *)
LEMMA LeavesKnown ==
  ASSUME TypeOK, NEW online \in SUBSET WithCursor, NEW leaves \in LeafOrders(online)
  PROVE  leaves \in Seq(tree.nodes) /\ Len(leaves) \in Nat \ {0}
PROOF
  <1>1. PICK order \in SetToSeqs(online) :
          leaves = <<Trim(best)>> \o [i \in DOMAIN order |-> Trim(reported[order[i]])]
    BY DEF LeafOrders
  <1>2. Cardinality(online) \in Nat
    <2>1. online \subseteq Remote
      BY DEF WithCursor
    <2> QED
      BY <2>1, MiningAssumption, FS_Subset, FS_CardinalityType
  <1>3. order \in [1..Cardinality(online) -> online]
    BY DEF SetToSeqs
  <1>4. \A i \in DOMAIN order : reported[order[i]] \in tree.nodes
    BY <1>3 DEF TypeOK, WithCursor
  <1>5. Trim(best) \in tree.nodes /\ \A i \in DOMAIN order : Trim(reported[order[i]]) \in tree.nodes
    BY <1>4, Trimmed DEF TypeOK
  <1> DEFINE trims == [i \in DOMAIN order |-> Trim(reported[order[i]])]
  <1>6. trims \in Seq(tree.nodes)
    BY <1>2, <1>3, <1>5
  <1> HIDE DEF trims
  <1>7. PICK first \in tree.nodes : first = Trim(best)
    BY <1>5
  <1>8. leaves = <<first>> \o trims
    BY <1>1, <1>7 DEF trims
  <1> QED
    BY <1>6, <1>8, Prepended

(* Finitely many branches have a height that none of them exceeds. *)
LEMMA HeightsBounded ==
  ASSUME NEW leaves \in Seq(Block)
  PROVE  \E n \in Nat : \A i \in DOMAIN leaves : Len(leaves[i]) <= n
PROOF
  <1> DEFINE bounded(m) == \E n \in Nat : \A i \in 1..m : Len(leaves[i]) <= n
  <1> DEFINE unbounded == { m \in 0..Len(leaves) : ~bounded(m) }
  <1>1. Len(leaves) \in Nat /\ \A i \in 1..Len(leaves) : Len(leaves[i]) \in Nat
    BY DEF Block
  <1>2. bounded(0)
    OBVIOUS
  <1>3. ASSUME NEW m \in 1..Len(leaves), bounded(m - 1) PROVE bounded(m)
    <2>1. PICK n \in Nat : \A i \in 1..(m - 1) : Len(leaves[i]) <= n
      BY <1>3
    <2>2. Len(leaves[m]) \in Nat
      BY <1>1
    <2>3. n + Len(leaves[m]) \in Nat /\ \A i \in 1..m : Len(leaves[i]) <= n + Len(leaves[m])
      BY <1>1, <2>1, <2>2
    <2> QED
      BY <2>3
  <1> HIDE DEF bounded
  <1>4. unbounded = {}
    <2> SUFFICES ASSUME unbounded # {} PROVE FALSE
      OBVIOUS
    <2>1. PICK m \in unbounded : \A i \in unbounded : m <= i
      <3>1. unbounded \in SUBSET Nat
        BY <1>1
      <3> HIDE DEF unbounded
      <3> QED
        BY <3>1, LeastExists
    <2>2. m \in 1..Len(leaves) /\ m - 1 \in 0..Len(leaves)
      BY <1>1, <1>2, <2>1
    <2>3. m - 1 \notin unbounded
      BY <1>1, <2>1, <2>2
    <2> QED
      BY <1>3, <2>1, <2>2, <2>3
  <1>5. bounded(Len(leaves))
    BY <1>1, <1>4
  <1>6. DOMAIN leaves = 1..Len(leaves)
    OBVIOUS
  <1> QED
    BY <1>5, <1>6 DEF bounded

(* The consensus root exists, and a leaf stands on it. *)
LEMMA ConsensusReached ==
  ASSUME NEW leaves \in Seq(Block), Len(leaves) \in Nat \ {0}
  PROVE  /\ ConsensusRoot(leaves) \in Block
         /\ \E i \in 1..Len(leaves) : Len(ConsensusRoot(leaves)) <= Len(leaves[i])
PROOF
  <1> DEFINE below == UNION { Path(leaves[i]) : i \in DOMAIN leaves }
  <1> DEFINE shared == { b \in below : Support(b, leaves) > Len(leaves) \div 2 }
  <1>1. \A i \in DOMAIN leaves : leaves[i] \in Block
    OBVIOUS
  <1>2. below \subseteq Block
    BY <1>1, PathFacts
  <1>3. Genesis \in shared
    <2>1. 1 \in DOMAIN leaves /\ DOMAIN leaves = 1..Len(leaves)
      OBVIOUS
    <2>2. Genesis \in below
      BY <1>1, <2>1, PathFacts
    <2>3. \A i \in DOMAIN leaves : IsAncestor(Genesis, leaves[i])
      BY <1>1 DEF IsAncestor, Ancestor, Genesis, Block
    <2>4. Support(Genesis, leaves) = Cardinality(1..Len(leaves))
      <3>1. { i \in DOMAIN leaves : IsAncestor(Genesis, leaves[i]) } = 1..Len(leaves)
        BY <2>1, <2>3
      <3> QED
        BY <3>1 DEF Support
    <2>5. Cardinality(1..Len(leaves)) = Len(leaves)
      <3>1. 1 \in Int /\ Len(leaves) \in Int /\ Len(leaves) >= 1
        OBVIOUS
      <3>2. Cardinality(1..Len(leaves)) = IF 1 > Len(leaves) THEN 0 ELSE Len(leaves) - 1 + 1
        BY <3>1, FS_Interval
      <3> QED
        BY <3>1, <3>2
    <2>6. Len(leaves) > Len(leaves) \div 2
      OBVIOUS
    <2> QED
      BY <2>2, <2>4, <2>5, <2>6
  <1> HIDE DEF shared
  <1>4. shared \subseteq below
    BY DEF shared
  <1>5. PICK n \in Nat : \A i \in DOMAIN leaves : Len(leaves[i]) <= n
    BY HeightsBounded
  <1> DEFINE heights == { Len(b) : b \in shared }
  <1>6. heights \in SUBSET (0..n) /\ heights # {}
    <2>1. ASSUME NEW b \in shared PROVE Len(b) \in 0..n
      <3>1. PICK i \in DOMAIN leaves : b \in Path(leaves[i])
        BY <1>4
      <3>2. Len(b) \in 0..Len(leaves[i]) /\ Len(leaves[i]) \in Nat
        BY <1>1, <3>1, PathFacts DEF Block
      <3> QED
        BY <1>5, <3>2
    <2> QED
      BY <1>3, <2>1
  <1>7. PICK m \in heights : \A h \in heights : h <= m
    BY <1>6, GreatestExists
  <1>8. \E b \in shared : \A c \in shared : Len(c) <= Len(b)
    BY <1>7
  <1>9. ConsensusRoot(leaves) \in shared
    BY <1>8 DEF ConsensusRoot, shared
  <1>10. PICK i \in DOMAIN leaves : ConsensusRoot(leaves) \in Path(leaves[i])
    BY <1>4, <1>9
  <1>11. Len(ConsensusRoot(leaves)) \in 0..Len(leaves[i]) /\ i \in 1..Len(leaves)
    BY <1>1, <1>10, PathFacts
  <1> QED
    BY <1>1, <1>2, <1>4, <1>9, <1>11

(* Headers the node may put into its tree: above a block it knows, in time. *)
Timely(b) ==
  /\ b \in Block \ {Genesis}
  /\ Parent(b) \in tree.nodes
  /\ NextTime(Parent(b)) <= Last(b).at
  /\ Last(b).at <= now

Recordable == tree.nodes \cup { b \in Block : Timely(b) }

(* A new header on a branch. *)
LEMMA Extended ==
  ASSUME NEW b \in Block, NEW header \in Header
  PROVE  /\ Append(b, header) \in Block \ {Genesis}
         /\ Parent(Append(b, header)) = b
         /\ Last(Append(b, header)) = header
         /\ Len(Append(b, header)) = Len(b) + 1
PROOF
  <1> DEFINE c == Append(b, header)
  <1>1. b \in Seq(Header) /\ Len(b) \in Nat
    BY DEF Block
  <1>2. c \in Seq(Header) /\ Len(c) = Len(b) + 1 /\ c[Len(b) + 1] = header
    BY <1>1
  <1>3. c # <<>>
    BY <1>1, <1>2
  <1>4. SubSeq(c, 1, Len(b)) = b
    BY <1>1
  <1> HIDE DEF c
  <1>5. Front(c) = b /\ Last(c) = header
    BY <1>1, <1>2, <1>4 DEF Front, Last
  <1> QED
    BY <1>2, <1>3, <1>5 DEF Block, Genesis, Parent, c

(* This node's header on a branch whose delay has passed. *)
LEMMA OwnBlockTimely ==
  ASSUME TypeOK, CharmsDrawn, NEW b \in tree.nodes, NEW p \in BOOLEAN, NextTime(b) <= now
  PROVE  Timely(OwnBlock(b, p)) /\ Parent(OwnBlock(b, p)) = b
PROOF
  <1> DEFINE header == [by |-> Self, at |-> now, charm |-> NextCharm(b, Self), provisional |-> p]
  <1>1. b \in Block /\ now \in Nat
    BY TreeFacts DEF TypeOK
  <1>2. header \in Header
    BY <1>1 DEF Header, Miner, CharmsDrawn
  <1>3. header.at = now /\ OwnBlock(b, p) = Append(b, header)
    BY DEF OwnBlock
  <1> HIDE DEF header
  <1>4. /\ OwnBlock(b, p) \in Block \ {Genesis}
        /\ Parent(OwnBlock(b, p)) = b /\ Last(OwnBlock(b, p)).at = now
    BY <1>1, <1>2, <1>3, Extended
  <1> QED
    BY <1>1, <1>4 DEF Timely

(* improveBranch returns a branch of the tree or a header that may enter it. *)
LEMMA Improved ==
  ASSUME TypeOK, CharmsDrawn, NEW b \in tree.nodes, NEW height
  PROVE  Improve(b, height) \in Recordable
PROOF
  <1> DEFINE heights == ExtendFrom(b, height)
  <1> DEFINE lowest == CHOOSE h \in heights : \A i \in heights : h <= i
  <1>1. b \in Block /\ Len(b) \in Nat
    BY TreeFacts DEF TypeOK, Block
  <1>2. heights \in SUBSET Nat
    BY <1>1 DEF ExtendFrom
  <1>3. CASE Improve(b, height) = b
    BY <1>3 DEF Recordable
  <1>4. CASE Improve(b, height) # b
    <2>1. heights # {} /\ Improve(b, height) = OwnBlock(Ancestor(b, lowest), TRUE)
      BY <1>4 DEF Improve
    <2>2. PICK h \in heights : h = lowest
      <3>1. \E h \in heights : \A i \in heights : h <= i
        <4> HIDE DEF heights
        <4> QED
          BY <1>2, <2>1, LeastExists
      <3> QED
        BY <3>1
    <2>3. h \in 0..Len(b) /\ NextTime(Ancestor(b, h)) <= now
      BY DEF ExtendFrom
    <2>4. Ancestor(b, h) \in tree.nodes
      BY <2>3, TreeFacts DEF TypeOK, Path
    <2>5. Timely(OwnBlock(Ancestor(b, h), TRUE))
      BY <2>3, <2>4, OwnBlockTimely
    <2> HIDE DEF lowest
    <2> QED
      BY <2>1, <2>2, <2>5 DEF Recordable, Timely
  <1> QED
    BY <1>3, <1>4

(* One leaf cannot take away what was chosen, and counts if it is high enough. *)
LEMMA Challenged ==
  ASSUME TypeOK, CharmsDrawn, NEW leaf \in tree.nodes, NEW height \in Nat,
         NEW sofar \in Recordable \cup {None}
  PROVE  /\ Challenge(sofar, leaf, height) \in Recordable \cup {None}
         /\ sofar \in Recordable => Challenge(sofar, leaf, height) \in Recordable
         /\ height <= Len(leaf) => Challenge(sofar, leaf, height) \in Recordable
PROOF
  <1>1. Improve(leaf, height) \in Recordable
    BY Improved
  <1>2. Len(leaf) \in Nat
    BY TreeFacts DEF TypeOK, Block
  <1>3. None \notin Recordable
    BY TreeFacts, NoneAssumption DEF TypeOK, Recordable
  <1> QED
    BY <1>1, <1>2, <1>3 DEF Challenge

(***************************************************************************)
(* When one of the leaves reaches the consensus height, a branch is chosen *)
(* (assert ( bestCursor.hasHeader ()) holds), and it can be recorded.      *)
(***************************************************************************)
LEMMA Chosen ==
  ASSUME TypeOK, CharmsDrawn, NEW leaves \in Seq(tree.nodes), NEW height \in Nat,
         NEW j \in 1..Len(leaves), height <= Len(leaves[j])
  PROVE  ChooseBest(leaves, height) \in Recordable
PROOF
  <1> DEFINE Turn(sofar, i) == Challenge(sofar, leaves[i], height)
  <1> DEFINE Follows(f, n) == f = [i \in 0..n |-> IF i = 0 THEN None ELSE Turn(f[i - 1], i)]
  <1> DEFINE N == Len(leaves)
  <1>1. N \in Nat /\ \A i \in 1..N : leaves[i] \in tree.nodes
    OBVIOUS
  <1>2. ASSUME NEW x \in Recordable \cup {None}, NEW i \in 1..N
        PROVE  /\ Turn(x, i) \in Recordable \cup {None}
               /\ x \in Recordable => Turn(x, i) \in Recordable
               /\ i = j => Turn(x, i) \in Recordable
    BY <1>1, Challenged
  <1> HIDE DEF Turn, N
  <1>3. \A n \in 0..N : \E f : Follows(f, n)
    <2> DEFINE stuck == { n \in 0..N : ~ \E f : Follows(f, n) }
    <2> SUFFICES ASSUME stuck # {} PROVE FALSE
      OBVIOUS
    <2>1. stuck \in SUBSET Nat
      BY <1>1
    <2>2. PICK n \in stuck : \A i \in stuck : n <= i
      <3> HIDE DEF stuck
      <3> QED
        BY <2>1, LeastExists
    <2>3. n \in 0..N /\ ~ \E f : Follows(f, n)
      BY <2>2
    <2>4. CASE n = 0
      <3>1. Follows([i \in 0..0 |-> None], 0)
        OBVIOUS
      <3> QED
        BY <2>3, <2>4, <3>1
    <2>5. CASE n # 0
      <3>1. n \in Nat \ {0} /\ n - 1 \in 0..N
        BY <1>1, <2>3, <2>5
      <3>2. n - 1 \notin stuck
        BY <2>2, <3>1
      <3>3. PICK f : Follows(f, n - 1)
        BY <3>1, <3>2
      <3> DEFINE g == [i \in 0..n |-> IF i = n THEN Turn(f[n - 1], n) ELSE f[i]]
      <3>4. \A i \in 0..(n - 1) : f[i] = IF i = 0 THEN None ELSE Turn(f[i - 1], i)
        BY <3>3
      <3>5. ASSUME NEW i \in 0..n PROVE g[i] = IF i = 0 THEN None ELSE Turn(g[i - 1], i)
        <4>1. CASE i = n
          BY <3>1, <4>1
        <4>2. CASE i # n
          <5>1. i \in 0..(n - 1) /\ g[i] = f[i]
            BY <3>1, <4>2
          <5>2. i # 0 => i - 1 \in 0..n /\ i - 1 # n /\ g[i - 1] = f[i - 1]
            BY <3>1, <4>2
          <5> QED
            BY <3>4, <5>1, <5>2
        <4> QED
          BY <4>1, <4>2
      <3>6. Follows(g, n)
        BY <3>5
      <3> QED
        BY <2>3, <3>6
    <2> QED
      BY <2>4, <2>5
  <1> DEFINE chosen == CHOOSE f : Follows(f, N)
  <1>4. Follows(chosen, N)
    <2>1. N \in 0..N
      BY <1>1
    <2>2. \E f : Follows(f, N)
      BY <1>3, <2>1
    <2> HIDE DEF Follows
    <2> QED
      BY <2>2
  <1>5. ChooseBest(leaves, height) = chosen[N]
    BY DEF ChooseBest, N, Turn
  <1> HIDE DEF chosen
  <1>6. \A i \in 0..N : chosen[i] = IF i = 0 THEN None ELSE Turn(chosen[i - 1], i)
    BY <1>4
  <1> DEFINE Good(i) == chosen[i] \in Recordable \cup {None} /\ (j <= i => chosen[i] \in Recordable)
  <1>7. Good(0)
    BY <1>1, <1>6 DEF N
  <1>8. ASSUME NEW i \in 1..N, Good(i - 1) PROVE Good(i)
    <2>1. chosen[i] = Turn(chosen[i - 1], i) /\ i \in Nat /\ j \in Nat
      BY <1>1, <1>6, <1>8
    <2>2. PICK x \in Recordable \cup {None} : x = chosen[i - 1]
      BY <1>8
    <2>3. /\ Turn(x, i) \in Recordable \cup {None}
          /\ x \in Recordable => Turn(x, i) \in Recordable
          /\ i = j => Turn(x, i) \in Recordable
      BY <1>2
    <2>4. j <= i => j <= i - 1 \/ i = j
      BY <2>1
    <2> QED
      BY <1>8, <2>1, <2>2, <2>3, <2>4
  <1> HIDE DEF Good
  <1>9. \A i \in 0..N : Good(i)
    <2> DEFINE bad == { i \in 0..N : ~Good(i) }
    <2> SUFFICES ASSUME bad # {} PROVE FALSE
      OBVIOUS
    <2>1. bad \in SUBSET Nat
      BY <1>1
    <2>2. PICK i \in bad : \A k \in bad : i <= k
      <3> HIDE DEF bad
      <3> QED
        BY <2>1, LeastExists
    <2>3. i \in 1..N /\ i - 1 \in 0..N
      BY <1>1, <1>7, <2>2
    <2>4. i - 1 \notin bad
      BY <2>2, <2>3
    <2> QED
      BY <1>8, <2>2, <2>3, <2>4
  <1> QED
    BY <1>1, <1>5, <1>9 DEF Good, N

-----------------------------------------------------------------------------
(* The sampler. *)

(* What holds at 0 and passes from each number to the next holds up to n. *)
LEMMA UpTo ==
  ASSUME NEW n \in Nat, NEW Good, 0 \in Good, \A i \in 1..n : i - 1 \in Good => i \in Good
  PROVE  \A i \in 0..n : i \in Good
PROOF
  <1> DEFINE bad == { i \in 0..n : i \notin Good }
  <1>1. bad = {}
    <2> SUFFICES ASSUME bad # {} PROVE FALSE
      OBVIOUS
    <2>1. PICK k \in bad : \A i \in bad : k <= i
      <3>1. bad \in SUBSET Nat
        OBVIOUS
      <3> HIDE DEF bad
      <3> QED
        BY <3>1, LeastExists
    <2>2. k \in 1..n /\ k \notin Good /\ k - 1 \in 0..n /\ ~(k <= k - 1)
      OBVIOUS
    <2> QED
      BY <2>1, <2>2
  <1> QED
    BY <1>1

(* f starts with v, and each later value follows from the one before. *)
Iterates(f, v, step, n) ==
  f = [i \in 0..n |-> IF i = 0 THEN v ELSE step[<<f[i - 1], i>>]]

(* A recursion whose steps stay in V has a solution, and it stays in V. *)
LEMMA IterationExists ==
  ASSUME NEW V, NEW v \in V, NEW n \in Nat, NEW step \in [V \X (1..n) -> V]
  PROVE  \E f \in [0..n -> V] : Iterates(f, v, step, n)
PROOF
  <1> DEFINE Solved(k) == \E f \in [0..k -> V] : Iterates(f, v, step, k)
  <1> DEFINE Good == { k \in 0..n : Solved(k) }
  <1>1. \A k \in 0..n : k \in Good
    <2>1. 0 \in Good
      <3> DEFINE f == [i \in 0..0 |-> v]
      <3>1. f \in [0..0 -> V] /\ Iterates(f, v, step, 0)
        BY DEF Iterates
      <3> HIDE DEF f
      <3> QED
        BY <3>1
    <2>2. ASSUME NEW k \in 1..n, k - 1 \in Good PROVE k \in Good
      <3>1. k # 0 /\ k \in 0..n
        OBVIOUS
      <3>2. PICK f \in [0..(k - 1) -> V] : Iterates(f, v, step, k - 1)
        BY <2>2
      <3> DEFINE g == [i \in 0..k |-> IF i = k THEN step[<<f[k - 1], k>>] ELSE f[i]]
      <3>3. \A i \in 0..(k - 1) : f[i] \in V /\ f[i] = IF i = 0 THEN v ELSE step[<<f[i - 1], i>>]
        BY <3>2 DEF Iterates
      <3>4. ASSUME NEW i \in 0..k
            PROVE  g[i] \in V /\ g[i] = IF i = 0 THEN v ELSE step[<<g[i - 1], i>>]
        <4>1. CASE i = k
          <5>1. k - 1 \in 0..(k - 1) /\ k - 1 \in 0..k /\ k - 1 # k
            BY <3>1
          <5>2. g[k - 1] = f[k - 1] /\ f[k - 1] \in V
            BY <3>3, <5>1
          <5>3. g[i] = step[<<f[k - 1], k>>]
            BY <4>1
          <5>4. <<f[k - 1], k>> \in V \X (1..n)
            BY <3>1, <5>2
          <5> QED
            BY <3>1, <4>1, <5>2, <5>3, <5>4
        <4>2. CASE i # k
          <5>1. i \in 0..(k - 1) /\ g[i] = f[i]
            BY <3>1, <4>2
          <5>2. i # 0 => i - 1 \in 0..k /\ i - 1 # k /\ g[i - 1] = f[i - 1]
            BY <3>1, <4>2
          <5> QED
            BY <3>3, <5>1, <5>2
        <4> QED
          BY <4>1, <4>2
      <3>5. g \in [0..k -> V] /\ Iterates(g, v, step, k)
        BY <3>4 DEF Iterates
      <3> HIDE DEF g
      <3> QED
        BY <3>5
    <2> HIDE DEF Good
    <2> QED
      BY <2>1, <2>2, UpTo
  <1>2. n \in 0..n
    OBVIOUS
  <1>3. Solved(n)
    BY <1>1, <1>2
  <1> QED
    BY <1>3

(* The leaves that stand on b or above it. *)
Over(b, leaves) == { k \in DOMAIN leaves : IsAncestor(b, leaves[k]) }

Shared(b, leaves) == Support(b, leaves) > Len(leaves) \div 2

(* Where a leaf is when it has come down to a height. *)
RootAt(leaf, h) == Ancestor(leaf, IF Len(leaf) < h THEN Len(leaf) ELSE h)

LEMMA RootFalls ==
  ASSUME NEW leaf \in Block, NEW h \in Nat
  PROVE  /\ RootAt(leaf, h) \in Block
         /\ Len(leaf) < h => RootAt(leaf, h) = leaf /\ Len(RootAt(leaf, h)) # h
         /\ Len(leaf) >= h => RootAt(leaf, h) = Ancestor(leaf, h) /\ Len(RootAt(leaf, h)) = h
         /\ h > 0 /\ Len(leaf) < h => RootAt(leaf, h - 1) = leaf
         /\ h > 0 /\ Len(leaf) >= h => RootAt(leaf, h - 1) = Front(RootAt(leaf, h))
PROOF
  <1>1. Len(leaf) \in Nat
    BY DEF Block
  <1>2. CASE Len(leaf) < h
    <2>1. RootAt(leaf, h) = leaf
      BY <1>1, <1>2, AncestorWhole DEF RootAt
    <2>2. h > 0 => RootAt(leaf, h - 1) = leaf
      <3>1. CASE Len(leaf) < h - 1
        BY <1>1, <3>1, AncestorWhole DEF RootAt
      <3>2. CASE Len(leaf) = h - 1
        BY <1>1, <3>2, AncestorWhole DEF RootAt
      <3> QED
        BY <1>1, <1>2, <3>1, <3>2
    <2> QED
      BY <1>1, <1>2, <2>1, <2>2
  <1>3. CASE Len(leaf) >= h
    <2>1. h \in 0..Len(leaf) /\ RootAt(leaf, h) = Ancestor(leaf, h)
      BY <1>1, <1>3 DEF RootAt
    <2>2. Ancestor(leaf, h) \in Block /\ Len(Ancestor(leaf, h)) = h
      BY <2>1, AncestorFacts
    <2>3. ASSUME h > 0 PROVE RootAt(leaf, h - 1) = Front(RootAt(leaf, h))
      <3>1. h - 1 \in 0..h /\ RootAt(leaf, h - 1) = Ancestor(leaf, h - 1)
        BY <1>1, <1>3, <2>3 DEF RootAt
      <3>2. Front(Ancestor(leaf, h)) = Ancestor(Ancestor(leaf, h), h - 1)
        BY <2>2 DEF Front, Ancestor
      <3> QED
        BY <2>1, <3>1, <3>2, AncestorTwice
    <2> QED
      BY <1>1, <1>3, <2>1, <2>2, <2>3
  <1> QED
    BY <1>1, <1>2, <1>3

(* More than half of the leaves and more than half of them share a leaf. *)
LEMMA MajoritiesMeet ==
  ASSUME NEW n \in Nat, NEW A \in SUBSET (1..n), NEW B \in SUBSET (1..n),
         Cardinality(A) > n \div 2, Cardinality(B) > n \div 2
  PROVE  A \cap B # {}
PROOF
  <1>1. IsFiniteSet(1..n) /\ Cardinality(1..n) = n
    <2>1. 1 \in Int /\ n \in Int
      OBVIOUS
    <2>2. IsFiniteSet(1..n) /\ Cardinality(1..n) = IF 1 > n THEN 0 ELSE n - 1 + 1
      BY <2>1, FS_Interval
    <2> QED
      BY <2>2
  <1>2. IsFiniteSet(A) /\ IsFiniteSet(B) /\ Cardinality(A) \in Nat /\ Cardinality(B) \in Nat
    BY <1>1, FS_Subset, FS_CardinalityType
  <1>3. Cardinality(A \cup B) = Cardinality(A) + Cardinality(B) - Cardinality(A \cap B)
    BY <1>2, FS_Union
  <1>4. Cardinality(A \cup B) <= n
    <2>1. A \cup B \subseteq 1..n
      OBVIOUS
    <2>2. Cardinality(A \cup B) <= Cardinality(1..n)
      BY <1>1, <2>1, FS_Subset
    <2> QED
      BY <1>1, <2>2
  <1>5. SUFFICES ASSUME A \cap B = {} PROVE FALSE
    OBVIOUS
  <1>6. Cardinality(A \cap B) = 0
    BY <1>5, FS_EmptySet
  <1> QED
    BY <1>2, <1>3, <1>4, <1>6

(* What a sampler of n leaves can hold. *)
Nodes(n) == [1..n -> [root : Block, leaves : SUBSET (1..n)]]
Samplings(n) == [nodes : Nodes(n), found : SUBSET Block]

(* Every leaf belongs to one node. *)
Partition(nodes, n) ==
  /\ \A k \in 1..n : \E j \in 1..n : k \in nodes[j].leaves
  /\ \A i, j \in 1..n : \A k \in nodes[i].leaves : k \in nodes[j].leaves => i = j

(* The nodes up to the i-th have been visited at height h, and the ones    *)
(* there stand for all leaves above their old roots, too few of them.      *)
Gathered(nodes, leaves, h, i) ==
  \A j \in 1..i : \A k \in nodes[j].leaves :
    Len(leaves[k]) >= h =>
      /\ Over(Ancestor(leaves[k], h), leaves) \subseteq nodes[j].leaves
      /\ ~Shared(Ancestor(leaves[k], h), leaves)

(* The nodes up to the i-th have left height h, the others are at most there. *)
Lowered(nodes, leaves, h, i) ==
  \A j \in 1..Len(leaves) : \A k \in nodes[j].leaves :
    nodes[j].root = RootAt(leaves[k], IF j <= i THEN h - 1 ELSE h)

(* Nothing found so far, in the middle of the loop at height h. *)
Searching(s, leaves, h, i) ==
  /\ s \in Samplings(Len(leaves)) /\ s.found = {}
  /\ Partition(s.nodes, Len(leaves))
  /\ Lowered(s.nodes, leaves, h, i)
  /\ Gathered(s.nodes, leaves, h, i)
  /\ \A b \in Block : Shared(b, leaves) => Len(b) <= h

(* The deepest shared block is found. *)
Sampled(s, leaves) ==
  /\ s \in Samplings(Len(leaves))
  /\ \E b \in Block :
       /\ s.found = {b} /\ Shared(b, leaves)
       /\ \A c \in Block : Shared(c, leaves) => Len(c) <= Len(b)

(* A visit of a node at its height finds all leaves above its root. *)
LEMMA AllMerged ==
  ASSUME NEW leaves \in Seq(Block), NEW h \in Nat, NEW i \in 1..Len(leaves), NEW s,
         Searching(s, leaves, h, i - 1), s.nodes[i].leaves # {}, Len(s.nodes[i].root) = h
  PROVE  MergedLeaves(s.nodes, i) = Over(s.nodes[i].root, leaves)
PROOF
  <1> DEFINE n == Len(leaves)
  <1> DEFINE nodes == s.nodes
  <1> DEFINE root == s.nodes[i].root
  <1>1. n \in Nat /\ DOMAIN leaves = 1..n /\ \A k \in 1..n : leaves[k] \in Block /\ Len(leaves[k]) \in Nat
    BY DEF Block
  <1>2. nodes \in Nodes(n) /\ i \in 1..n
    BY DEF Searching, Samplings
  <1>3. /\ DOMAIN nodes = 1..n /\ root \in Block
        /\ \A j \in 1..n : nodes[j].leaves \in SUBSET (1..n)
    BY <1>2 DEF Nodes
  <1>4. ASSUME NEW j \in 1..n, NEW k \in nodes[j].leaves
        PROVE  /\ j >= i => nodes[j].root = RootAt(leaves[k], h)
               /\ j < i => nodes[j].root = RootAt(leaves[k], h - 1)
    <2>1. nodes[j].root = RootAt(leaves[k], IF j <= i - 1 THEN h - 1 ELSE h)
      BY <1>4 DEF Searching, Lowered
    <2>2. j >= i => ~(j <= i - 1)
      BY <1>2
    <2>3. j < i => j <= i - 1
      BY <1>2
    <2> QED
      BY <2>1, <2>2, <2>3
  <1>5. ASSUME NEW k \in 1..n
        PROVE  IsAncestor(root, leaves[k]) <=> Len(leaves[k]) >= h /\ RootAt(leaves[k], h) = root
    BY <1>1, <1>3, RootFalls DEF IsAncestor
  <1>6. ASSUME NEW j \in {i} \cup Twins(nodes, i), NEW k \in nodes[j].leaves
        PROVE  k \in Over(root, leaves)
    <2>1. j \in 1..n /\ j >= i /\ nodes[j].root = root
      BY <1>2, <1>3, <1>6 DEF Twins
    <2>2. k \in 1..n /\ RootAt(leaves[k], h) = root
      BY <1>3, <1>4, <2>1
    <2>3. Len(leaves[k]) >= h
      BY <1>1, <2>2, RootFalls
    <2> QED
      BY <1>1, <1>5, <2>2, <2>3 DEF Over
  <1>7. ASSUME NEW k \in Over(root, leaves)
        PROVE  \E j \in {i} \cup Twins(nodes, i) : k \in nodes[j].leaves
    <2>1. k \in 1..n /\ Len(leaves[k]) >= h /\ RootAt(leaves[k], h) = root /\ root = Ancestor(leaves[k], h)
      BY <1>1, <1>5, RootFalls DEF Over
    <2>2. PICK j \in 1..n : k \in nodes[j].leaves
      BY <2>1 DEF Searching, Partition
    <2>3. j >= i
      <3> SUFFICES ASSUME j < i PROVE FALSE
        BY <1>2, <2>2
      <3>1. j \in 1..(i - 1)
        BY <1>2, <2>2
      <3>2. Over(root, leaves) \subseteq nodes[j].leaves
        BY <2>1, <2>2, <3>1 DEF Searching, Gathered
      <3>3. PICK l \in nodes[i].leaves : TRUE
        OBVIOUS
      <3>4. l \in Over(root, leaves)
        BY <1>6
      <3>5. i = j
        BY <1>2, <2>2, <3>2, <3>3, <3>4 DEF Searching, Partition
      <3> QED
        BY <1>2, <3>5
    <2>4. nodes[j].root = root
      BY <1>4, <2>1, <2>2, <2>3
    <2> QED
      BY <1>2, <1>3, <2>2, <2>3, <2>4 DEF Twins
  <1> QED
    BY <1>6, <1>7 DEF MergedLeaves

(* A visit that merges what is behind a node and moves it down. *)
Moved(s, i, h) ==
  [j \in DOMAIN s.nodes |->
     IF j = i
     THEN SamplerNode(IF h > 0 THEN Front(s.nodes[i].root) ELSE s.nodes[i].root, MergedLeaves(s.nodes, i))
     ELSE IF j \in Twins(s.nodes, i) THEN SamplerNode(s.nodes[j].root, {}) ELSE s.nodes[j]]

Passed(s, i, h) == s.found # {} \/ s.nodes[i].leaves = {} \/ Len(s.nodes[i].root) # h

(* The three ways a visit ends. *)
Ends(s, i, h, m) ==
  /\ Passed(s, i, h) => Visit(s, i, h, m) = s
  /\ ~Passed(s, i, h) /\ Cardinality(MergedLeaves(s.nodes, i)) > m =>
       Visit(s, i, h, m) = Sampling(s.nodes, {s.nodes[i].root})
  /\ ~Passed(s, i, h) /\ ~(Cardinality(MergedLeaves(s.nodes, i)) > m) =>
       Visit(s, i, h, m) = Sampling(Moved(s, i, h), {})

LEMMA VisitEnds ==
  ASSUME NEW n \in Nat, NEW s \in Samplings(n), NEW i \in 1..n, NEW h \in Nat, NEW m \in Nat
  PROVE  Ends(s, i, h, m)
PROOF
  <1>1. s.nodes \in Nodes(n) /\ DOMAIN s.nodes = 1..n
    BY DEF Samplings, Nodes
  <1> DEFINE below == SamplerNode(IF h > 0 THEN Front(s.nodes[i].root) ELSE s.nodes[i].root,
                                  MergedLeaves(s.nodes, i))
  <1> DEFINE erased == [j \in DOMAIN s.nodes |->
                          IF j \in Twins(s.nodes, i) THEN SamplerNode(s.nodes[j].root, {}) ELSE s.nodes[j]]
  <1>2. [erased EXCEPT ![i] = below] = Moved(s, i, h)
    <2>1. DOMAIN erased = 1..n
      BY <1>1
    <2>2. [erased EXCEPT ![i] = below] = [j \in 1..n |-> IF j = i THEN below ELSE erased[j]]
      <3> HIDE DEF below, erased
      <3> QED
        BY <2>1
    <2> HIDE DEF below
    <2>3. [j \in 1..n |-> IF j = i THEN below ELSE erased[j]] =
            [j \in 1..n |-> IF j = i THEN below
               ELSE IF j \in Twins(s.nodes, i) THEN SamplerNode(s.nodes[j].root, {}) ELSE s.nodes[j]]
      BY <1>1
    <2> QED
      BY <1>1, <2>2, <2>3 DEF Moved, below
  <1> HIDE DEF below, erased
  <1> QED
    BY <1>2 DEF Ends, Visit, Passed, below, erased

LEMMA MovedFields ==
  ASSUME NEW n \in Nat, NEW s \in Samplings(n), NEW i \in 1..n, NEW h \in Nat, ~Passed(s, i, h)
  PROVE  LET moved == Moved(s, i, h)
         IN  /\ moved \in Nodes(n)
             /\ moved[i].leaves = MergedLeaves(s.nodes, i)
             /\ moved[i].root = IF h > 0 THEN Front(s.nodes[i].root) ELSE s.nodes[i].root
             /\ \A j \in 1..n : j \in Twins(s.nodes, i) => moved[j].leaves = {}
             /\ \A j \in 1..n : j # i /\ j \notin Twins(s.nodes, i) => moved[j] = s.nodes[j]
             /\ i \notin Twins(s.nodes, i)
PROOF
  <1> DEFINE moved == Moved(s, i, h)
  <1> DEFINE R == [root : Block, leaves : SUBSET (1..n)]
  <1>1. /\ s.nodes \in [1..n -> R] /\ DOMAIN s.nodes = 1..n
        /\ \A j \in 1..n : s.nodes[j] \in R
    BY DEF Samplings, Nodes
  <1>2. i \notin Twins(s.nodes, i) /\ Twins(s.nodes, i) \subseteq 1..n
    BY <1>1 DEF Twins
  <1>3. MergedLeaves(s.nodes, i) \in SUBSET (1..n)
    BY <1>1, <1>2 DEF MergedLeaves
  <1> DEFINE down == IF h > 0 THEN Front(s.nodes[i].root) ELSE s.nodes[i].root
  <1>4. down \in Block
    <2>1. s.nodes[i].root \in Block
      BY <1>1
    <2>2. ASSUME h > 0 PROVE Front(s.nodes[i].root) \in Block
      <3>1. Len(s.nodes[i].root) = h
        BY DEF Passed
      <3> QED
        BY <2>1, <2>2, <3>1 DEF Front, Block
    <2> QED
      BY <2>1, <2>2
  <1> HIDE DEF down
  <1>5. moved = [j \in 1..n |-> IF j = i THEN SamplerNode(down, MergedLeaves(s.nodes, i))
                  ELSE IF j \in Twins(s.nodes, i) THEN SamplerNode(s.nodes[j].root, {}) ELSE s.nodes[j]]
    BY <1>1 DEF Moved, down
  <1> HIDE DEF moved
  <1>6. SamplerNode(down, MergedLeaves(s.nodes, i)) \in R
    BY <1>3, <1>4 DEF SamplerNode
  <1>7. \A j \in 1..n : SamplerNode(s.nodes[j].root, {}) \in R
    BY <1>1 DEF SamplerNode
  <1>8. moved \in Nodes(n)
    BY <1>1, <1>5, <1>6, <1>7 DEF Nodes
  <1>9. moved[i] = SamplerNode(down, MergedLeaves(s.nodes, i))
    BY <1>5
  <1>10. \A j \in 1..n : j \in Twins(s.nodes, i) => moved[j] = SamplerNode(s.nodes[j].root, {})
    BY <1>2, <1>5
  <1>11. \A j \in 1..n : j # i /\ j \notin Twins(s.nodes, i) => moved[j] = s.nodes[j]
    BY <1>5
  <1>12. moved[i].leaves = MergedLeaves(s.nodes, i) /\ moved[i].root = down
    BY <1>9 DEF SamplerNode
  <1>13. \A j \in 1..n : j \in Twins(s.nodes, i) => moved[j].leaves = {}
    <2>1. \A r : SamplerNode(r, {}).leaves = {}
      BY DEF SamplerNode
    <2> QED
      BY <1>10, <2>1
  <1> QED
    BY <1>2, <1>8, <1>11, <1>12, <1>13 DEF moved, down

LEMMA VisitTyped ==
  ASSUME NEW n \in Nat, NEW s \in Samplings(n), NEW i \in 1..n, NEW h \in Nat, NEW m \in Nat
  PROVE  Visit(s, i, h, m) \in Samplings(n)
PROOF
  <1>1. s.nodes \in Nodes(n) /\ s.nodes[i].root \in Block
    BY DEF Samplings, Nodes
  <1>4. Ends(s, i, h, m)
    BY VisitEnds
  <1>2. CASE Passed(s, i, h)
    BY <1>2, <1>4 DEF Ends
  <1>3. CASE ~Passed(s, i, h)
    <2>1. Moved(s, i, h) \in Nodes(n)
      BY <1>3, MovedFields
    <2>2. /\ Sampling(Moved(s, i, h), {}) \in Samplings(n)
          /\ Sampling(s.nodes, {s.nodes[i].root}) \in Samplings(n)
      BY <1>1, <2>1 DEF Sampling, Samplings
    <2> QED
      BY <1>3, <1>4, <2>2 DEF Ends
  <1> QED
    BY <1>2, <1>3

LEMMA VisitKeeps ==
  ASSUME NEW leaves \in Seq(Block), NEW h \in Nat, NEW i \in 1..Len(leaves), NEW s,
         Searching(s, leaves, h, i - 1)
  PROVE  LET t == Visit(s, i, h, Len(leaves) \div 2)
         IN  Searching(t, leaves, h, i) \/ Sampled(t, leaves)
PROOF
  <1> DEFINE n == Len(leaves)
  <1> DEFINE m == n \div 2
  <1> DEFINE t == Visit(s, i, h, m)
  <1> DEFINE node == s.nodes[i]
  <1>1. /\ n \in Nat /\ m \in Nat /\ DOMAIN leaves = 1..n
        /\ \A k \in 1..n : leaves[k] \in Block /\ Len(leaves[k]) \in Nat
    BY DEF Block
  <1>2. /\ s \in Samplings(n) /\ s.nodes \in Nodes(n) /\ s.found = {} /\ i \in 1..n /\ i \in Nat
        /\ node.root \in Block
        /\ \A j \in 1..n : s.nodes[j].leaves \in SUBSET (1..n)
    BY DEF Searching, Samplings, Nodes
  <1>3. t \in Samplings(n) /\ Ends(s, i, h, m)
    <2> HIDE DEF n, m
    <2> QED
      BY <1>1, <1>2, VisitTyped, VisitEnds
  <1>4. CASE Passed(s, i, h)
    <2>1. t = s
      BY <1>3, <1>4 DEF Ends
    <2>2. ASSUME NEW k \in node.leaves
          PROVE  node.root = RootAt(leaves[k], h) /\ Len(leaves[k]) < h
      <3>1. node.root = RootAt(leaves[k], h)
        BY <1>2 DEF Searching, Lowered
      <3>2. Len(node.root) # h
        BY <1>2, <1>4 DEF Passed
      <3>3. leaves[k] \in Block /\ Len(leaves[k]) \in Nat
        BY <1>1, <1>2
      <3> QED
        BY <3>1, <3>2, <3>3, RootFalls
    <2>3. Lowered(s.nodes, leaves, h, i)
      <3> SUFFICES ASSUME NEW j \in 1..n, NEW k \in s.nodes[j].leaves
                   PROVE  s.nodes[j].root = RootAt(leaves[k], IF j <= i THEN h - 1 ELSE h)
        BY DEF Lowered
      <3>1. CASE j = i
        <4>1. Len(leaves[k]) < h /\ node.root = RootAt(leaves[k], h)
          BY <2>2, <3>1
        <4>2. leaves[k] \in Block /\ Len(leaves[k]) \in Nat
          BY <1>1, <1>2
        <4>3. RootAt(leaves[k], h - 1) = RootAt(leaves[k], h)
          BY <4>1, <4>2, RootFalls
        <4> QED
          BY <1>2, <3>1, <4>1, <4>3
      <3>2. CASE j # i
        <4>1. j <= i - 1 <=> j <= i
          BY <1>2, <3>2
        <4> QED
          BY <4>1 DEF Searching, Lowered
      <3> QED
        BY <3>1, <3>2
    <2>4. Gathered(s.nodes, leaves, h, i)
      <3> SUFFICES ASSUME NEW j \in 1..i, NEW k \in s.nodes[j].leaves, Len(leaves[k]) >= h
                   PROVE  /\ Over(Ancestor(leaves[k], h), leaves) \subseteq s.nodes[j].leaves
                          /\ ~Shared(Ancestor(leaves[k], h), leaves)
        BY DEF Gathered
      <3>1. k \in 1..n
        BY <1>2
      <3>2. j # i
        BY <1>1, <2>2, <3>1
      <3>3. j \in 1..(i - 1)
        BY <1>2, <3>2
      <3> QED
        BY <3>3 DEF Searching, Gathered
    <2> QED
      BY <2>1, <2>3, <2>4 DEF Searching
  <1>5. CASE ~Passed(s, i, h)
    <2>1. node.leaves # {} /\ Len(node.root) = h
      BY <1>5 DEF Passed
    <2>2. MergedLeaves(s.nodes, i) = Over(node.root, leaves)
      BY <2>1, AllMerged
    <2>3. Cardinality(MergedLeaves(s.nodes, i)) = Support(node.root, leaves)
      BY <2>2 DEF Support, Over
    <2>4. CASE Shared(node.root, leaves)
      <3>1. t = Sampling(s.nodes, {node.root})
        BY <1>3, <1>5, <2>3, <2>4 DEF Shared, Ends
      <3>2. t.found = {node.root}
        BY <3>1 DEF Sampling
      <3>3. \A c \in Block : Shared(c, leaves) => Len(c) <= Len(node.root)
        BY <2>1 DEF Searching
      <3> QED
        BY <1>2, <1>3, <2>4, <3>2, <3>3 DEF Sampled
    <2>5. CASE ~Shared(node.root, leaves)
      <3> DEFINE moved == Moved(s, i, h)
      <3>1. t = Sampling(moved, {})
        BY <1>3, <1>5, <2>3, <2>5 DEF Shared, Ends
      <3>2. /\ moved \in Nodes(n)
            /\ moved[i].leaves = Over(node.root, leaves)
            /\ moved[i].root = IF h > 0 THEN Front(node.root) ELSE node.root
            /\ \A j \in 1..n : j \in Twins(s.nodes, i) => moved[j].leaves = {}
            /\ \A j \in 1..n : j # i /\ j \notin Twins(s.nodes, i) => moved[j] = s.nodes[j]
            /\ i \notin Twins(s.nodes, i)
        BY <1>1, <1>2, <1>5, <2>2, MovedFields
      <3> HIDE DEF moved
      <3>3. ASSUME NEW k \in Over(node.root, leaves)
            PROVE  /\ k \in 1..n /\ leaves[k] \in Block /\ Len(leaves[k]) >= h
                   /\ node.root = Ancestor(leaves[k], h) /\ node.root = RootAt(leaves[k], h)
        BY <1>1, <1>2, <2>1, <3>3, RootFalls DEF Over, IsAncestor
      <3>4. h > 0
        <4> SUFFICES ASSUME h = 0 PROVE FALSE
          OBVIOUS
        <4>1. node.root = <<>>
          BY <1>2, <2>1 DEF Block
        <4>2. \A k \in 1..n : IsAncestor(<<>>, leaves[k])
          BY <1>1 DEF IsAncestor, Ancestor, Block
        <4>3. Over(node.root, leaves) = 1..n
          BY <1>1, <4>1, <4>2 DEF Over
        <4>4. Cardinality(1..n) = n
          <5>1. Cardinality(1..n) = IF 1 > n THEN 0 ELSE n - 1 + 1
            <6>1. 1 \in Int /\ n \in Int
              BY <1>1
            <6> HIDE DEF n
            <6> QED
              BY <6>1, FS_Interval
          <5> QED
            BY <1>1, <5>1
        <4>5. ~(n > n \div 2)
          BY <2>3, <2>2, <2>5, <4>3, <4>4 DEF Shared
        <4>6. n > 0
          BY <1>1, <1>2
        <4> QED
          BY <1>1, <4>5, <4>6
      <3>5. Partition(moved, n)
        <4>1. ASSUME NEW k \in 1..n PROVE \E j \in 1..n : k \in moved[j].leaves
          <5>1. PICK j \in 1..n : k \in s.nodes[j].leaves
            BY DEF Searching, Partition
          <5>2. CASE j \in {i} \cup Twins(s.nodes, i)
            <6>1. k \in MergedLeaves(s.nodes, i)
              BY <5>1, <5>2 DEF MergedLeaves
            <6> QED
              BY <1>2, <2>2, <3>2, <6>1
          <5>3. CASE j \notin {i} \cup Twins(s.nodes, i)
            BY <3>2, <5>1, <5>3
          <5> QED
            BY <5>2, <5>3
        <4>2. ASSUME NEW a \in 1..n, NEW k \in moved[a].leaves
              PROVE  /\ a = i => \E j \in {i} \cup Twins(s.nodes, i) : k \in s.nodes[j].leaves
                     /\ a # i => a \notin Twins(s.nodes, i) /\ k \in s.nodes[a].leaves
          <5>1. CASE a = i
            <6>1. k \in MergedLeaves(s.nodes, i)
              BY <2>2, <3>2, <4>2, <5>1
            <6>2. PICK j \in {i} \cup Twins(s.nodes, i) : k \in s.nodes[j].leaves
              BY <6>1 DEF MergedLeaves
            <6> QED
              BY <5>1, <6>2
          <5>2. CASE a # i
            BY <3>2, <4>2, <5>2
          <5> QED
            BY <5>1, <5>2
        <4>3. Twins(s.nodes, i) \subseteq 1..n
          BY <1>2 DEF Twins, Nodes
        <4>4. \A a, b \in 1..n : \A k \in s.nodes[a].leaves : k \in s.nodes[b].leaves => a = b
          BY DEF Searching, Partition
        <4>5. ASSUME NEW a \in 1..n, NEW b \in 1..n, NEW k \in moved[a].leaves, k \in moved[b].leaves
              PROVE  a = b
          <5>1. CASE a # i /\ b # i
            BY <4>2, <4>4, <4>5, <5>1
          <5>2. CASE a = i /\ b # i
            <6>1. PICK j \in {i} \cup Twins(s.nodes, i) : k \in s.nodes[j].leaves
              BY <4>2, <5>2
            <6>2. j \in 1..n /\ b \notin Twins(s.nodes, i) /\ k \in s.nodes[b].leaves
              BY <1>2, <4>2, <4>3, <4>5, <5>2
            <6> QED
              BY <4>4, <5>2, <6>1, <6>2
          <5>3. CASE a # i /\ b = i
            <6>1. PICK j \in {i} \cup Twins(s.nodes, i) : k \in s.nodes[j].leaves
              BY <4>2, <4>5, <5>3
            <6>2. j \in 1..n /\ a \notin Twins(s.nodes, i) /\ k \in s.nodes[a].leaves
              BY <1>2, <4>2, <4>3, <5>3
            <6> QED
              BY <4>4, <5>3, <6>1, <6>2
          <5> QED
            BY <5>1, <5>2, <5>3
        <4> QED
          BY <4>1, <4>5 DEF Partition
      <3>6. Lowered(moved, leaves, h, i)
        <4> SUFFICES ASSUME NEW j \in 1..n, NEW k \in moved[j].leaves
                     PROVE  moved[j].root = RootAt(leaves[k], IF j <= i THEN h - 1 ELSE h)
          BY DEF Lowered
        <4>1. CASE j = i
          <5>1. k \in Over(node.root, leaves)
            BY <3>2, <4>1
          <5>2. moved[j].root = Front(node.root)
            BY <3>2, <3>4, <4>1
          <5>3. RootAt(leaves[k], h - 1) = Front(node.root)
            BY <3>3, <3>4, <5>1, RootFalls
          <5> QED
            BY <1>2, <4>1, <5>2, <5>3
        <4>2. CASE j # i
          <5>1. moved[j] = s.nodes[j]
            BY <3>2, <4>2
          <5>2. j <= i - 1 <=> j <= i
            BY <1>2, <4>2
          <5>3. s.nodes[j].root = RootAt(leaves[k], IF j <= i - 1 THEN h - 1 ELSE h)
            BY <5>1 DEF Searching, Lowered
          <5> QED
            BY <5>1, <5>2, <5>3
        <4> QED
          BY <4>1, <4>2
      <3>7. Gathered(moved, leaves, h, i)
        <4> SUFFICES ASSUME NEW j \in 1..i, NEW k \in moved[j].leaves, Len(leaves[k]) >= h
                     PROVE  /\ Over(Ancestor(leaves[k], h), leaves) \subseteq moved[j].leaves
                            /\ ~Shared(Ancestor(leaves[k], h), leaves)
          BY DEF Gathered
        <4>1. CASE j = i
          <5>1. k \in Over(node.root, leaves)
            BY <3>2, <4>1
          <5>2. Ancestor(leaves[k], h) = node.root
            BY <3>3, <5>1
          <5> QED
            BY <2>5, <3>2, <4>1, <5>2
        <4>2. CASE j # i
          <5>1. j \in 1..(i - 1) /\ j \in 1..n
            BY <1>1, <1>2, <4>2
          <5>2. j \notin Twins(s.nodes, i)
            BY <1>2, <5>1 DEF Twins
          <5>3. moved[j] = s.nodes[j]
            BY <3>2, <4>2, <5>1, <5>2
          <5> QED
            BY <5>1, <5>3 DEF Searching, Gathered
        <4> QED
          BY <4>1, <4>2
      <3>8. t.nodes = moved /\ t.found = {}
        BY <3>1 DEF Sampling
      <3> QED
        BY <1>3, <3>5, <3>6, <3>7, <3>8 DEF Searching
    <2> QED
      BY <2>4, <2>5
  <1> QED
    BY <1>4, <1>5

(* A pass is a visit of every node in turn. *)
Visits(f, n, s, h, m) ==
  \A i \in 0..n : f[i] = IF i = 0 THEN s ELSE Visit(f[i - 1], i, h, m)

LEMMA PassVisits ==
  ASSUME NEW n \in Nat, NEW s \in Samplings(n), NEW h \in Nat, NEW m \in Nat
  PROVE  \E f \in [0..n -> Samplings(n)] : Pass(s, h, m) = f[n] /\ Visits(f, n, s, h, m)
PROOF
  <1> DEFINE V == Samplings(n)
  <1>1. Len(s.nodes) = n
    BY DEF Samplings, Nodes
  <1> DEFINE step == [p \in V \X (1..n) |-> Visit(p[1], p[2], h, m)]
  <1> DEFINE Recursion(f) == f = [i \in 0..n |-> IF i = 0 THEN s ELSE Visit(f[i - 1], i, h, m)]
  <1>2. \A t \in V : \A i \in 1..n : Visit(t, i, h, m) \in V /\ step[<<t, i>>] = Visit(t, i, h, m)
    <2> SUFFICES ASSUME NEW t \in V, NEW i \in 1..n
                 PROVE  Visit(t, i, h, m) \in V /\ step[<<t, i>>] = Visit(t, i, h, m)
      OBVIOUS
    <2>1. Visit(t, i, h, m) \in V
      BY VisitTyped
    <2>2. <<t, i>> \in V \X (1..n) /\ <<t, i>>[1] = t /\ <<t, i>>[2] = i
      OBVIOUS
    <2> HIDE DEF V
    <2> QED
      BY <2>1, <2>2
  <1>3. step \in [V \X (1..n) -> V]
    <2> SUFFICES ASSUME NEW p \in V \X (1..n) PROVE Visit(p[1], p[2], h, m) \in V
      OBVIOUS
    <2>1. p[1] \in V /\ p[2] \in 1..n
      OBVIOUS
    <2> QED
      BY <1>2, <2>1
  <1>4. PICK f \in [0..n -> V] : Iterates(f, s, step, n)
    <2> HIDE DEF step, V
    <2>1. s \in V
      BY DEF V
    <2> QED
      BY <1>3, <2>1, IterationExists
  <1>5. Recursion(f)
    <2>1. ASSUME NEW i \in 0..n PROVE f[i] = IF i = 0 THEN s ELSE Visit(f[i - 1], i, h, m)
      <3> HIDE DEF step, V
      <3>1. f[i] = IF i = 0 THEN s ELSE step[<<f[i - 1], i>>]
        BY <1>4 DEF Iterates
      <3>2. CASE i = 0
        BY <3>1, <3>2
      <3>3. CASE i # 0
        <4>1. i \in 1..n /\ i - 1 \in 0..n
          BY <3>3
        <4>2. f[i - 1] \in V
          BY <4>1
        <4> QED
          BY <1>2, <3>1, <3>3, <4>1, <4>2
      <3> QED
        BY <3>2, <3>3
    <2> QED
      BY <2>1
  <1> DEFINE visited == CHOOSE g : Recursion(g)
  <1>6. Recursion(visited)
    <2> HIDE DEF Recursion
    <2> QED
      BY <1>5
  <1>7. Pass(s, h, m) = visited[n]
    BY <1>1 DEF Pass
  <1> HIDE DEF visited
  <1>8. \A i \in 0..n : visited[i] = IF i = 0 THEN s ELSE Visit(visited[i - 1], i, h, m)
    BY <1>6
  <1>9. \A i \in 0..n : visited[i] \in V
    <2> HIDE DEF V
    <2> DEFINE Good == { i \in 0..n : visited[i] \in V }
    <2>1. 0 \in Good
      BY <1>8 DEF V
    <2>2. ASSUME NEW i \in 1..n, i - 1 \in Good PROVE i \in Good
      <3>1. visited[i] = Visit(visited[i - 1], i, h, m)
        BY <1>8
      <3>2. visited[i - 1] \in V
        BY <2>2
      <3>3. visited[i] \in V
        BY <1>2, <3>1, <3>2
      <3> QED
        BY <3>3
    <2> HIDE DEF Good
    <2>3. \A i \in 0..n : i \in Good
      BY <2>1, <2>2, UpTo
    <2> QED
      BY <2>3 DEF Good
  <1>10. visited \in [0..n -> V]
    <2> HIDE DEF V
    <2> QED
      BY <1>6, <1>9
  <1> QED
    BY <1>7, <1>8, <1>10 DEF Visits

LEMMA PassKeeps ==
  ASSUME NEW leaves \in Seq(Block), NEW h \in Nat, NEW s \in Samplings(Len(leaves)),
         Searching(s, leaves, h, 0) \/ Sampled(s, leaves)
  PROVE  LET t == Pass(s, h, Len(leaves) \div 2)
         IN  Searching(t, leaves, h, Len(leaves)) \/ Sampled(t, leaves)
PROOF
  <1> DEFINE n == Len(leaves)
  <1> DEFINE m == n \div 2
  <1>1. n \in Nat /\ m \in Nat
    OBVIOUS
  <1>2. PICK f \in [0..n -> Samplings(n)] :
          /\ Pass(s, h, m) = f[n]
          /\ \A i \in 0..n : f[i] = IF i = 0 THEN s ELSE Visit(f[i - 1], i, h, m)
    <2>1. s \in Samplings(n)
      OBVIOUS
    <2> HIDE DEF n, m
    <2>2. \E f \in [0..n -> Samplings(n)] : Pass(s, h, m) = f[n] /\ Visits(f, n, s, h, m)
      BY <1>1, <2>1, PassVisits
    <2> QED
      BY <2>2 DEF Visits
  <1> DEFINE Good == { i \in 0..n : Searching(f[i], leaves, h, i) \/ Sampled(f[i], leaves) }
  <1>3. 0 \in Good
    BY <1>1, <1>2
  <1>4. ASSUME NEW i \in 1..n, i - 1 \in Good PROVE i \in Good
    <2>1. f[i] = Visit(f[i - 1], i, h, m) /\ f[i - 1] \in Samplings(n)
      BY <1>2
    <2>2. CASE Searching(f[i - 1], leaves, h, i - 1)
      BY <2>1, <2>2, VisitKeeps
    <2>3. CASE Sampled(f[i - 1], leaves)
      <3>1. Passed(f[i - 1], i, h)
        BY <2>3 DEF Sampled, Passed
      <3>2. Ends(f[i - 1], i, h, m)
        <4> HIDE DEF m
        <4> QED
          BY <1>1, <2>1, VisitEnds
      <3> QED
        BY <2>1, <2>3, <3>1, <3>2 DEF Ends
    <2> QED
      BY <1>4, <2>2, <2>3
  <1> HIDE DEF Good, m
  <1>5. \A i \in 0..n : i \in Good
    BY <1>1, <1>3, <1>4, UpTo
  <1>6. n \in Good
    BY <1>1, <1>5
  <1> QED
    BY <1>2, <1>6 DEF Good, m

(* A block that is shared is below some leaf. *)
LEMMA SharedBelow ==
  ASSUME NEW leaves \in Seq(Block), NEW b \in Block, Shared(b, leaves)
  PROVE  \E k \in 1..Len(leaves) : IsAncestor(b, leaves[k])
PROOF
  <1>1. Cardinality(Over(b, leaves)) > Len(leaves) \div 2
    BY DEF Shared, Support, Over
  <1>2. Over(b, leaves) # {}
    <2>1. SUFFICES ASSUME Over(b, leaves) = {} PROVE FALSE
      OBVIOUS
    <2>2. Cardinality(Over(b, leaves)) = 0
      BY <2>1, FS_EmptySet
    <2>3. Len(leaves) \div 2 \in Nat
      OBVIOUS
    <2> QED
      BY <1>1, <2>2, <2>3
  <1>3. DOMAIN leaves = 1..Len(leaves)
    OBVIOUS
  <1> QED
    BY <1>2, <1>3 DEF Over

(* Every leaf stands on the genesis block. *)
LEMMA GenesisShared ==
  ASSUME NEW leaves \in Seq(Block), Len(leaves) > 0
  PROVE  Genesis \in Block /\ Len(Genesis) = 0 /\ Shared(Genesis, leaves)
PROOF
  <1> DEFINE n == Len(leaves)
  <1>1. n \in Nat /\ DOMAIN leaves = 1..n /\ \A k \in 1..n : leaves[k] \in Block
    OBVIOUS
  <1>2. \A k \in 1..n : IsAncestor(Genesis, leaves[k])
    BY <1>1 DEF IsAncestor, Ancestor, Genesis, Block
  <1>3. Cardinality(1..n) = n
    <2>1. 1 \in Int /\ n \in Int
      BY <1>1
    <2> HIDE DEF n
    <2>2. Cardinality(1..n) = IF 1 > n THEN 0 ELSE n - 1 + 1
      BY <2>1, FS_Interval
    <2> QED
      BY <1>1, <2>2
  <1>4. { k \in DOMAIN leaves : IsAncestor(Genesis, leaves[k]) } = 1..n
    BY <1>1, <1>2
  <1>5. n > n \div 2
    BY <1>1
  <1> QED
    BY <1>3, <1>4, <1>5, BlocksFormATree DEF Shared, Support, Genesis

(* What is at a height when all of it has been visited is too few. *)
LEMMA Descends ==
  ASSUME NEW leaves \in Seq(Block), Len(leaves) > 0, NEW h \in Nat, NEW s,
         Searching(s, leaves, h, Len(leaves))
  PROVE  h > 0 /\ Searching(s, leaves, h - 1, 0)
PROOF
  <1> DEFINE n == Len(leaves)
  <1>1. n \in Nat /\ \A k \in 1..n : leaves[k] \in Block /\ Len(leaves[k]) \in Nat
    BY DEF Block
  <1>2. ASSUME NEW b \in Block, Shared(b, leaves) PROVE Len(b) <= h - 1
    <2>1. Len(b) <= h /\ Len(b) \in Nat
      BY <1>2 DEF Searching, Block
    <2>2. SUFFICES ASSUME Len(b) = h PROVE FALSE
      BY <2>1
    <2>3. PICK k \in 1..n : IsAncestor(b, leaves[k])
      BY <1>2, SharedBelow
    <2>4. Len(leaves[k]) >= h /\ Ancestor(leaves[k], h) = b
      BY <1>1, <2>2, <2>3 DEF IsAncestor
    <2>5. PICK j \in 1..n : k \in s.nodes[j].leaves
      BY DEF Searching, Partition
    <2>6. ~Shared(Ancestor(leaves[k], h), leaves)
      BY <2>4, <2>5 DEF Searching, Gathered
    <2> QED
      BY <1>2, <2>4, <2>6
  <1>3. h > 0
    <2>1. 0 <= h - 1
      BY <1>2, GenesisShared
    <2> QED
      BY <2>1
  <1>4. Lowered(s.nodes, leaves, h - 1, 0)
    <2> SUFFICES ASSUME NEW j \in 1..n, NEW k \in s.nodes[j].leaves
                 PROVE  s.nodes[j].root = RootAt(leaves[k], IF j <= 0 THEN h - 1 - 1 ELSE h - 1)
      BY DEF Lowered
    <2>1. s.nodes[j].root = RootAt(leaves[k], IF j <= n THEN h - 1 ELSE h)
      BY DEF Searching, Lowered
    <2>2. j <= n /\ ~(j <= 0)
      OBVIOUS
    <2> QED
      BY <2>1, <2>2
  <1>5. Gathered(s.nodes, leaves, h - 1, 0)
    <2>1. 1..0 = {}
      OBVIOUS
    <2> QED
      BY <2>1 DEF Gathered
  <1> QED
    BY <1>2, <1>3, <1>4, <1>5 DEF Searching

(* The deepest shared block is the consensus root. *)
LEMMA DeepestShared ==
  ASSUME NEW leaves \in Seq(Block), NEW s, Sampled(s, leaves)
  PROVE  s.found = {ConsensusRoot(leaves)}
PROOF
  <1> DEFINE n == Len(leaves)
  <1>1. n \in Nat /\ DOMAIN leaves = 1..n /\ \A k \in 1..n : leaves[k] \in Block /\ Len(leaves[k]) \in Nat
    BY DEF Block
  <1>2. PICK b \in Block :
          /\ s.found = {b} /\ Shared(b, leaves)
          /\ \A c \in Block : Shared(c, leaves) => Len(c) <= Len(b)
    BY DEF Sampled
  <1> DEFINE shared == { c \in UNION { Path(leaves[i]) : i \in DOMAIN leaves } :
                           Support(c, leaves) > Len(leaves) \div 2 }
  <1>3. \A c \in shared : c \in Block /\ Shared(c, leaves)
    BY <1>1, PathFacts DEF Shared
  <1>4. b \in shared
    <2>1. PICK k \in 1..n : IsAncestor(b, leaves[k])
      BY <1>2, SharedBelow
    <2>2. Len(b) \in 0..Len(leaves[k]) /\ b = Ancestor(leaves[k], Len(b))
      BY <1>1, <2>1 DEF IsAncestor, Block
    <2>3. b \in Path(leaves[k])
      BY <2>2 DEF Path
    <2> QED
      BY <1>1, <1>2, <2>3 DEF Shared
  <1>5. \A c \in shared : Len(c) <= Len(b)
    BY <1>2, <1>3
  <1> DEFINE r == ConsensusRoot(leaves)
  <1> HIDE DEF shared
  <1>6. r = CHOOSE c \in shared : \A d \in shared : Len(d) <= Len(c)
    BY DEF ConsensusRoot, shared
  <1>7. r \in shared /\ \A d \in shared : Len(d) <= Len(r)
    BY <1>4, <1>5, <1>6
  <1> HIDE DEF r
  <1>8. r \in Block /\ Shared(r, leaves) /\ Len(r) = Len(b)
    <2>1. r \in Block /\ Shared(r, leaves)
      BY <1>3, <1>7
    <2>2. Len(r) <= Len(b) /\ Len(b) <= Len(r) /\ Len(r) \in Nat /\ Len(b) \in Nat
      BY <1>4, <1>5, <1>7, <2>1 DEF Block
    <2> QED
      BY <2>1, <2>2
  <1>9. Over(b, leaves) \cap Over(r, leaves) # {}
    <2>1. Over(b, leaves) \in SUBSET (1..n) /\ Over(r, leaves) \in SUBSET (1..n)
      BY <1>1 DEF Over
    <2>2. Cardinality(Over(b, leaves)) > n \div 2 /\ Cardinality(Over(r, leaves)) > n \div 2
      BY <1>2, <1>8 DEF Shared, Support, Over
    <2> HIDE DEF n
    <2> QED
      BY <1>1, <2>1, <2>2, MajoritiesMeet
  <1>10. PICK k \in Over(b, leaves) : k \in Over(r, leaves)
    BY <1>9
  <1>11. b = r
    BY <1>8, <1>10 DEF Over, IsAncestor
  <1> QED
    BY <1>2, <1>11 DEF r

(***************************************************************************)
(* The sampler, whatever its leaves are and however often each occurs,     *)
(* finds the deepest block that more than half of them share: it does not  *)
(* get to the end of its loop, where the code asserts false.               *)
(***************************************************************************)
THEOREM SampleFinds ==
  ASSUME NEW leaves \in Seq(Block), Len(leaves) > 0
  PROVE  Sample(leaves) = {ConsensusRoot(leaves)}
PROOF
  <1> DEFINE n == Len(leaves)
  <1> DEFINE m == n \div 2
  <1> DEFINE V == Samplings(n)
  <1> DEFINE heights == { Len(leaves[i]) : i \in DOMAIN leaves }
  <1> DEFINE top == Max(heights)
  <1> DEFINE start == Sampling([i \in DOMAIN leaves |-> SamplerNode(leaves[i], {i})], {})
  <1>1. /\ n \in Nat /\ m \in Nat /\ DOMAIN leaves = 1..n
        /\ \A k \in 1..n : leaves[k] \in Block /\ Len(leaves[k]) \in Nat
    BY DEF Block
  <1>2. top \in Nat /\ \A k \in 1..n : Len(leaves[k]) <= top
    <2>1. PICK c \in Nat : \A i \in DOMAIN leaves : Len(leaves[i]) <= c
      BY HeightsBounded
    <2>2. heights \in SUBSET (0..c) /\ heights # {}
      <3>1. heights \in SUBSET (0..c)
        BY <1>1, <2>1
      <3>2. 1 \in DOMAIN leaves
        BY <1>1
      <3> QED
        BY <3>1, <3>2
    <2> HIDE DEF heights
    <2>3. \E x \in heights : \A y \in heights : y <= x
      BY <2>2, GreatestExists
    <2>4. \E x \in heights : \A y \in heights : x >= y
      BY <2>2, <2>3
    <2>5. top \in heights /\ \A y \in heights : top >= y
      BY <2>4 DEF Max
    <2> HIDE DEF top
    <2>6. top \in Nat /\ \A y \in heights : y <= top
      <3>1. top \in 0..c /\ \A y \in heights : y \in 0..c /\ top >= y
        BY <2>2, <2>5
      <3> QED
        BY <3>1
    <2>7. \A k \in 1..n : Len(leaves[k]) \in heights
      BY <1>1 DEF heights
    <2> QED
      BY <2>6, <2>7
  <1> HIDE DEF top, heights
  <1>3. start \in V /\ Searching(start, leaves, top, 0)
    <2> DEFINE nodes == [i \in 1..n |-> SamplerNode(leaves[i], {i})]
    <2>1. start.nodes = nodes /\ start.found = {} /\ start = Sampling(nodes, {})
      BY <1>1 DEF Sampling
    <2>2. \A j \in 1..n : nodes[j].root = leaves[j] /\ nodes[j].leaves = {j}
      BY DEF SamplerNode
    <2>3. nodes \in Nodes(n)
      BY <1>1 DEF Nodes, SamplerNode
    <2> HIDE DEF nodes, start
    <2>4. start \in V
      BY <2>1, <2>3 DEF Samplings, Sampling
    <2>5. Partition(nodes, n)
      BY <2>2 DEF Partition
    <2>6. Gathered(nodes, leaves, top, 0)
      <3>1. 1..0 = {}
        OBVIOUS
      <3> QED
        BY <3>1 DEF Gathered
    <2>7. Lowered(nodes, leaves, top, 0)
      <3> SUFFICES ASSUME NEW j \in 1..n, NEW k \in nodes[j].leaves
                   PROVE  nodes[j].root = RootAt(leaves[k], IF j <= 0 THEN top - 1 ELSE top)
        BY DEF Lowered
      <3>1. k = j /\ nodes[j].root = leaves[j] /\ ~(j <= 0)
        BY <2>2
      <3>2. leaves[j] \in Block /\ Len(leaves[j]) \in Nat /\ Len(leaves[j]) <= top
        BY <1>1, <1>2
      <3>3. RootAt(leaves[j], top) = leaves[j]
        <4>1. CASE Len(leaves[j]) < top
          BY <1>2, <3>2, <4>1, RootFalls
        <4>2. CASE Len(leaves[j]) = top
          BY <3>2, <4>2, AncestorWhole DEF RootAt
        <4> QED
          BY <1>2, <3>2, <4>1, <4>2
      <3> QED
        BY <3>1, <3>3
    <2>8. ASSUME NEW b \in Block, Shared(b, leaves) PROVE Len(b) <= top
      <3>1. PICK k \in 1..n : IsAncestor(b, leaves[k])
        BY <2>8, SharedBelow
      <3>2. Len(b) <= Len(leaves[k]) /\ Len(b) \in Nat
        BY <3>1 DEF IsAncestor, Block
      <3> QED
        BY <1>1, <1>2, <3>2
    <2> QED
      BY <2>1, <2>4, <2>5, <2>6, <2>7, <2>8 DEF Searching
  <1> HIDE DEF start, V, m
  <1> DEFINE step == [p \in V \X (1..(top + 1)) |-> Pass(p[1], top + 1 - p[2], m)]
  <1> DEFINE Recursion(f) ==
        f = [k \in 0..(top + 1) |-> IF k = 0 THEN start ELSE Pass(f[k - 1], top + 1 - k, m)]
  <1>4. ASSUME NEW t \in V, NEW k \in 1..(top + 1)
        PROVE  Pass(t, top + 1 - k, m) \in V /\ step[<<t, k>>] = Pass(t, top + 1 - k, m)
    <2>1. top + 1 - k \in Nat
      BY <1>2
    <2>2. \E f \in [0..n -> Samplings(n)] : Pass(t, top + 1 - k, m) = f[n]
      <3> HIDE DEF n
      <3>1. t \in Samplings(n)
        BY DEF V
      <3> QED
        BY <1>1, <2>1, <3>1, PassVisits
    <2>3. Pass(t, top + 1 - k, m) \in V
      BY <1>1, <2>2 DEF V
    <2>4. <<t, k>> \in V \X (1..(top + 1)) /\ <<t, k>>[1] = t /\ <<t, k>>[2] = k
      OBVIOUS
    <2> QED
      BY <2>3, <2>4
  <1>5. step \in [V \X (1..(top + 1)) -> V]
    <2> SUFFICES ASSUME NEW p \in V \X (1..(top + 1)) PROVE Pass(p[1], top + 1 - p[2], m) \in V
      OBVIOUS
    <2>1. p[1] \in V /\ p[2] \in 1..(top + 1)
      OBVIOUS
    <2> QED
      BY <1>4, <2>1
  <1>6. PICK f \in [0..(top + 1) -> V] : Iterates(f, start, step, top + 1)
    <2> HIDE DEF step
    <2>1. top + 1 \in Nat
      BY <1>2
    <2> QED
      BY <1>3, <1>5, <2>1, IterationExists
  <1>7. Recursion(f)
    <2>1. ASSUME NEW k \in 0..(top + 1)
          PROVE  f[k] = IF k = 0 THEN start ELSE Pass(f[k - 1], top + 1 - k, m)
      <3> HIDE DEF step
      <3>1. f[k] = IF k = 0 THEN start ELSE step[<<f[k - 1], k>>]
        BY <1>6 DEF Iterates
      <3>2. CASE k = 0
        BY <3>1, <3>2
      <3>3. CASE k # 0
        <4>1. k \in 1..(top + 1) /\ k - 1 \in 0..(top + 1)
          BY <1>2, <3>3
        <4>2. f[k - 1] \in V
          BY <4>1
        <4> QED
          BY <1>4, <3>1, <3>3, <4>1, <4>2
      <3> QED
        BY <3>2, <3>3
    <2> QED
      BY <2>1
  <1> DEFINE passed == CHOOSE g : Recursion(g)
  <1>8. Recursion(passed)
    <2> HIDE DEF Recursion
    <2> QED
      BY <1>7
  <1>9. Sample(leaves) = passed[top + 1].found
    BY DEF Sample, top, heights, start, m
  <1> HIDE DEF passed
  <1>10. \A k \in 0..(top + 1) : passed[k] = IF k = 0 THEN start ELSE Pass(passed[k - 1], top + 1 - k, m)
    BY <1>8
  <1> DEFINE Goal(k) ==
        /\ passed[k] \in V
        /\ Sampled(passed[k], leaves) \/ (k <= top /\ Searching(passed[k], leaves, top - k, 0))
  <1> DEFINE Good == { k \in 0..(top + 1) : Goal(k) }
  <1>11. 0 \in Good
    <2>1. passed[0] = start /\ top - 0 = top /\ 0 <= top /\ 0 \in 0..(top + 1)
      BY <1>2, <1>10
    <2> QED
      BY <1>3, <2>1
  <1>12. ASSUME NEW k \in 1..(top + 1), k - 1 \in Good PROVE k \in Good
    <2> DEFINE h == top + 1 - k
    <2>1. h \in Nat /\ top - (k - 1) = h /\ k \in 0..(top + 1) /\ h - 1 = top - k
      BY <1>2
    <2>2. passed[k] = Pass(passed[k - 1], h, m)
      BY <1>2, <1>10
    <2>3. Goal(k - 1)
      BY <1>12
    <2>4. passed[k - 1] \in V
      BY <2>3
    <2>5. Searching(passed[k - 1], leaves, h, 0) \/ Sampled(passed[k - 1], leaves)
      BY <2>1, <2>3
    <2> HIDE DEF h
    <2>6. Searching(passed[k], leaves, h, n) \/ Sampled(passed[k], leaves)
      BY <2>1, <2>2, <2>4, <2>5, PassKeeps DEF V, m
    <2>7. passed[k] \in V
      BY <1>4, <2>2, <2>4 DEF h
    <2>8. ASSUME Searching(passed[k], leaves, h, n)
          PROVE  k <= top /\ Searching(passed[k], leaves, top - k, 0)
      <3>1. h > 0 /\ Searching(passed[k], leaves, h - 1, 0)
        BY <2>1, <2>8, Descends
      <3>2. k <= top
        BY <1>2, <3>1 DEF h
      <3> QED
        BY <2>1, <3>1, <3>2
    <2>9. Goal(k)
      BY <2>6, <2>7, <2>8
    <2> QED
      BY <2>1, <2>9
  <1> HIDE DEF Good
  <1>13. \A k \in 0..(top + 1) : k \in Good
    <2>1. top + 1 \in Nat
      BY <1>2
    <2> QED
      BY <1>11, <1>12, <2>1, UpTo
  <1>14. Goal(top + 1)
    <2>1. top + 1 \in 0..(top + 1)
      BY <1>2
    <2>2. top + 1 \in Good
      BY <1>13, <2>1
    <2> QED
      BY <2>2 DEF Good
  <1>15. Sampled(passed[top + 1], leaves)
    <2>1. ~(top + 1 <= top)
      BY <1>2
    <2> QED
      BY <1>14, <2>1
  <1> QED
    BY <1>9, <1>15, DeepestShared

-----------------------------------------------------------------------------
(* How a step ends. *)

(* A tree with more rows and bodies than the node's, the rows legal ones. *)
Grown(T) ==
  /\ WellFormed(T)
  /\ tree.nodes \subseteq T.nodes /\ tree.held \subseteq T.held
  /\ \A b \in T.nodes \ tree.nodes : Timely(b)

(* The chain that ends in l is the longest available part of b. *)
IsChainOf(l, b, T) ==
  \E k \in 0..Len(b) :
    /\ l = Ancestor(b, k) /\ l \in T.complete
    /\ \A h \in (k + 1)..Len(b) : Ancestor(b, h) \notin T.complete

(* Times of headers and blocks are numbers. *)
LEMMA TimesCount ==
  /\ \A b \in Block : Time(b) \in Nat /\ NextTime(b) \in Nat
  /\ \A b \in Block \ {Genesis} : Last(b).at \in Nat /\ Time(b) = Last(b).at
PROOF
  <1>1. ASSUME NEW b \in Block \ {Genesis} PROVE Last(b).at \in Nat /\ Time(b) = Last(b).at
    <2>1. b \in Seq(Header) /\ Len(b) \in Nat \ {0} /\ b # <<>>
      BY DEF Block, Genesis
    <2>2. b[Len(b)] \in Header
      BY <2>1
    <2> QED
      BY <2>1, <2>2 DEF Last, Time, Header
  <1>2. Time(Genesis) = 0
    BY DEF Time, Genesis
  <1>3. \A b \in Block : Time(b) \in Nat
    BY <1>1, <1>2
  <1> QED
    BY <1>1, <1>3, MiningAssumption DEF NextTime

(* What a step decides on before it makes a block. *)
LEMMA Decided ==
  ASSUME IInv, CharmsDrawn, NEW online \in SUBSET WithCursor, NEW leaves \in LeafOrders(online),
         NEW d, d = Decide(leaves)
  PROVE  /\ Grown(d.tree) /\ d.tree.complete = tree.complete
         /\ d.best \in d.tree.nodes /\ d.best \in Recordable
         /\ IsChainOf(d.ledger, d.best, d.tree)
PROOF
  <1> DEFINE root == ConsensusRoot(leaves)
  <1>1. WellFormed(tree) /\ ledger \in tree.complete /\ tree.nodes \subseteq Block
    BY TreeFacts DEF IInv, TypeOK, LedgerAvailable
  <1>2. leaves \in Seq(tree.nodes) /\ Len(leaves) \in Nat \ {0}
    BY LeavesKnown DEF IInv
  <1>3. leaves \in Seq(Block)
    BY <1>1, <1>2
  <1>4. root \in Block /\ \E i \in 1..Len(leaves) : Len(root) <= Len(leaves[i])
    BY <1>2, <1>3, ConsensusReached
  <1>5. Len(root) \in Nat
    BY <1>4 DEF Block
  <1> HIDE DEF root
  <1>6. ChooseBest(leaves, Len(root)) \in Recordable
    BY <1>2, <1>4, <1>5, Chosen DEF IInv
  <1>7. /\ d.best = ChooseBest(leaves, Len(root))
        /\ d.tree = AffirmHeader(tree, d.best)
        /\ d.ledger = ComposeChain(d.tree, ledger, d.best)
    BY DEF Decide, root
  <1>8. d.best \in Block /\ (d.best \in tree.nodes \/ Timely(d.best))
    BY <1>1, <1>6, <1>7 DEF Recordable
  <1>9. /\ WellFormed(d.tree) /\ d.tree.nodes = tree.nodes \cup {d.best}
        /\ d.tree.held = tree.held /\ d.tree.complete = tree.complete
    <2>1. Data!WellFormed(tree)
      BY <1>1, SameOperations
    <2>2. d.best \in tree.nodes \/ (d.best # Genesis /\ Parent(d.best) \in tree.nodes)
      BY <1>8 DEF Timely
    <2>3. /\ Data!WellFormed(Data!AffirmHeader(tree, d.best))
          /\ Data!AffirmHeader(tree, d.best).nodes = tree.nodes \cup {d.best}
          /\ Data!AffirmHeader(tree, d.best).held = tree.held
          /\ Data!AffirmHeader(tree, d.best).complete = tree.complete
      BY <1>8, <2>1, <2>2, BlocksFormATree, Data!AffirmHeaderWellFormed
    <2> QED
      BY <1>7, <2>3, SameOperations
  <1>10. Grown(d.tree)
    BY <1>8, <1>9 DEF Grown
  <1>11. IsChainOf(d.ledger, d.best, d.tree)
    BY <1>1, <1>7, <1>9, ChainComposed DEF IsChainOf
  <1> QED
    BY <1>6, <1>7, <1>9, <1>10, <1>11

(* The block that is made stands on the ledger, in time, and is available. *)
LEMMA Made ==
  ASSUME IInv, CharmsDrawn, NEW online \in SUBSET WithCursor, NEW leaves \in LeafOrders(online),
         NEW d, d = Decide(leaves), MayPublish(d), NEW o, o = Published(d)
  PROVE  Grown(o.tree) /\ o.best \in o.tree.nodes /\ IsChainOf(o.ledger, o.best, o.tree)
PROOF
  <1> DEFINE block == OwnBlock(d.ledger, FALSE)
  <1>1. /\ Grown(d.tree) /\ d.tree.complete = tree.complete
        /\ d.best \in Recordable
        /\ IsChainOf(d.ledger, d.best, d.tree)
    BY Decided
  <1>2. o.tree = AffirmBlock(d.tree, block) /\ o.ledger = block /\ o.best = block
    BY DEF Published
  <1>3. TypeOK /\ WellFormed(tree) /\ tree.complete \subseteq tree.nodes /\ tree.nodes \subseteq Block /\ now \in Nat
    BY TreeFacts DEF IInv, TypeOK
  <1>4. d.ledger \in tree.nodes /\ d.ledger \in d.tree.complete
    BY <1>1, <1>3 DEF IsChainOf
  <1>5. d.best \in Block \ {Genesis} /\ d.ledger = Parent(d.best)
    <2>1. d.best \in Block /\ Len(d.best) \in Nat
      BY <1>1, <1>3 DEF Recordable, Block
    <2>2. PICK k \in 0..Len(d.best) : d.ledger = Ancestor(d.best, k)
      BY <1>1 DEF IsChainOf
    <2>3. Len(d.ledger) = k
      BY <2>1, <2>2, AncestorFacts
    <2>4. Len(d.best) = Len(d.ledger) + 1 /\ d.best # <<>>
      BY DEF MayPublish, Provisional
    <2>5. k = Len(d.best) - 1
      BY <2>1, <2>3, <2>4
    <2> QED
      BY <2>1, <2>2, <2>4, <2>5 DEF Ancestor, Parent, Front, Genesis
  <1>6. NextTime(d.ledger) <= now
    <2>1. NextTime(Parent(d.best)) <= Last(d.best).at /\ Last(d.best).at <= now
      BY <1>1, <1>5 DEF Recordable, Timely, IInv, DelaysKept
    <2>2. NextTime(Parent(d.best)) \in Nat /\ Last(d.best).at \in Nat
      BY <1>3, <1>4, <1>5, TimesCount
    <2> QED
      BY <1>3, <1>5, <2>1, <2>2
  <1>7. Timely(block) /\ Parent(block) = d.ledger
    BY <1>3, <1>4, <1>6, OwnBlockTimely
  <1> HIDE DEF block
  <1>8. block \in Block \ {Genesis} /\ d.ledger \in d.tree.nodes
    BY <1>1, <1>4, <1>7 DEF Timely, Grown
  <1>9. /\ WellFormed(o.tree) /\ o.tree.nodes = d.tree.nodes \cup {block}
        /\ o.tree.held = d.tree.held \cup {block}
    <2>1. Data!WellFormed(d.tree)
      BY <1>1, SameOperations DEF Grown
    <2>2. /\ Data!WellFormed(Data!AffirmBlock(d.tree, block))
          /\ Data!AffirmBlock(d.tree, block).nodes = d.tree.nodes \cup {block}
          /\ Data!AffirmBlock(d.tree, block).held = d.tree.held \cup {block}
      BY <1>7, <1>8, <2>1, BlocksFormATree, Data!AffirmBlockWellFormed
    <2> QED
      BY <1>2, <2>2, SameOperations
  <1>10. Grown(o.tree)
    BY <1>1, <1>7, <1>9 DEF Grown
  <1>11. block \in o.tree.complete
    <2>1. Path(d.ledger) \subseteq d.tree.held
      BY <1>1, <1>4 DEF Grown, WellFormed, CompleteExact
    <2>2. Path(block) = Path(d.ledger) \cup {block}
      BY <1>7, <1>8, BlocksFormATree
    <2> QED
      BY <1>9, <2>1, <2>2 DEF WellFormed, CompleteExact
  <1>12. IsChainOf(block, block, o.tree)
    <2>1. Len(block) \in Nat /\ block = Ancestor(block, Len(block))
      BY <1>8, AncestorWhole DEF Block
    <2> QED
      BY <1>11, <2>1 DEF IsChainOf
  <1> QED
    BY <1>2, <1>9, <1>10, <1>12

(* However a step ends, the tree has grown and the ledger is available. *)
LEMMA Ended ==
  ASSUME IInv, CharmsDrawn, NEW online \in SUBSET WithCursor, NEW o \in Outcomes(online)
  PROVE  /\ Grown(o.tree) /\ o.best \in o.tree.nodes
         /\ o.ledger \in o.tree.complete
         /\ IsChainOf(o.ledger, o.best, o.tree)
PROOF
  <1>1. PICK leaves \in LeafOrders(online) :
          \/ MayPublish(Decide(leaves)) /\ o = Published(Decide(leaves))
          \/ o = Followed(Decide(leaves))
    BY DEF Outcomes
  <1>2. PICK d : d = Decide(leaves)
    OBVIOUS
  <1>3. CASE MayPublish(d) /\ o = Published(d)
    BY <1>2, <1>3, Made DEF IsChainOf
  <1>4. CASE o = Followed(d)
    <2>1. o.tree = d.tree /\ o.best = d.best /\ o.ledger = d.ledger
      BY <1>4 DEF Followed
    <2> QED
      BY <1>2, <2>1, Decided DEF IsChainOf
  <1> QED
    BY <1>1, <1>2, <1>3, <1>4

-----------------------------------------------------------------------------
(* The invariant. *)

(* It is kept when the tree grows and what is shown stays available. *)
LEMMA GrowthInv ==
  ASSUME IInv, Grown(tree'), now' \in 0..MaxTime, now <= now',
         best' \in tree'.nodes,
         reported' \in [Remote -> tree'.nodes \cup {None}],
         {ledger', persisted'} \cup served' \subseteq tree'.complete
  PROVE  IInv'
PROOF
  <1>1. WellFormed(tree') /\ tree'.complete \subseteq tree'.nodes /\ tree'.nodes \subseteq Block
    BY TreeFacts DEF Grown
  <1>2. TypeOK'
    BY <1>1 DEF TypeOK
  <1>3. LedgerAvailable'
    BY DEF LedgerAvailable
  <1>4. DelaysKept'
    <2> SUFFICES ASSUME NEW b \in tree'.nodes \ {Genesis}
                 PROVE  NextTime(Parent(b)) <= Last(b).at /\ Last(b).at <= now'
      BY DEF DelaysKept
    <2>1. NextTime(Parent(b)) <= Last(b).at /\ Last(b).at <= now
      BY DEF IInv, DelaysKept, Grown, Timely
    <2>2. Last(b).at \in Nat /\ now \in Nat /\ now' \in Nat
      BY <1>1, TimesCount DEF IInv, TypeOK
    <2> QED
      BY <2>1, <2>2
  <1> QED
    BY <1>2, <1>3, <1>4 DEF IInv

LEMMA InitInv == Init => IInv
PROOF
  <1> SUFFICES ASSUME Init PROVE IInv
    OBVIOUS
  <1>1. WellFormed(tree) /\ tree.nodes = {Genesis} /\ tree.complete = {Genesis}
    <2>1. Data!WellFormed(Data!GenesisTree)
      BY BlocksFormATree, Data!GenesisWellFormed
    <2>2. tree = GenesisTree /\ WellFormed(GenesisTree)
      BY <2>1, SameOperations DEF Init
    <2> QED
      BY <2>2 DEF GenesisTree
  <1>2. TypeOK
    BY <1>1, MiningAssumption DEF Init, TypeOK
  <1>3. LedgerAvailable /\ DelaysKept
    BY <1>1 DEF Init, LedgerAvailable, DelaysKept
  <1> QED
    BY <1>2, <1>3 DEF IInv

(* Rows that are only added leave everything else as available as it was. *)
LEMMA StillAvailable ==
  ASSUME IInv, Grown(tree')
  PROVE  /\ tree.nodes \subseteq tree'.nodes /\ tree.complete \subseteq tree'.complete
         /\ {ledger, persisted} \cup served \subseteq tree'.complete
         /\ best \in tree'.nodes
         /\ reported \in [Remote -> tree'.nodes \cup {None}]
PROOF
  <1>1. tree.nodes \subseteq tree'.nodes /\ tree.complete \subseteq tree'.complete
    BY CompleteGrows DEF IInv, TypeOK, Grown
  <1> QED
    BY <1>1 DEF IInv, TypeOK, LedgerAvailable

(* Another miner's header enters the tree. *)
LEMMA HeaderArrivesInv ==
  ASSUME IInv, CharmsDrawn, NEW r \in Remote, NEW b \in Reports, HeaderArrives(r, b)
  PROVE  IInv'
PROOF
  <1>1. TypeOK /\ WellFormed(tree) /\ tree.nodes \subseteq Block /\ now \in Nat
    BY TreeFacts DEF IInv, TypeOK
  <1>2. b \in Block
    <2>1. CASE b \in tree.nodes
      BY <1>1, <2>1
    <2>2. CASE b \notin tree.nodes
      <3>1. PICK c \in tree.nodes, m \in Remote, t \in 1..now :
              b = Append(c, [by |-> m, at |-> t, charm |-> NextCharm(c, m), provisional |-> FALSE])
        BY <2>2 DEF Reports
      <3>2. [by |-> m, at |-> t, charm |-> NextCharm(c, m), provisional |-> FALSE] \in Header
        BY <1>1 DEF Header, Miner, CharmsDrawn
      <3> QED
        BY <1>1, <3>1, <3>2, Extended
    <2> QED
      BY <2>1, <2>2
  <1>3. b \in tree.nodes \/ Timely(b)
    <2>1. Time(b) <= now /\ AppendOk(b)
      BY DEF HeaderArrives
    <2> QED
      BY <1>2, <2>1, TimesCount DEF AppendOk, Timely
  <1>4. WellFormed(tree') /\ tree'.nodes = tree.nodes \cup {b} /\ tree'.held = tree.held
    <2>1. Data!WellFormed(tree)
      BY <1>1, SameOperations
    <2>2. /\ Data!WellFormed(Data!AffirmHeader(tree, b))
          /\ Data!AffirmHeader(tree, b).nodes = tree.nodes \cup {b}
          /\ Data!AffirmHeader(tree, b).held = tree.held
      BY <1>2, <1>3, <2>1, BlocksFormATree, Data!AffirmHeaderWellFormed DEF Timely
    <2>3. tree' = Data!AffirmHeader(tree, b)
      BY SameOperations DEF HeaderArrives
    <2> QED
      BY <2>2, <2>3, SameOperations
  <1>5. Grown(tree')
    BY <1>3, <1>4 DEF Grown
  <1>6. reported' \in [Remote -> tree'.nodes \cup {None}]
    BY <1>4, <1>5, StillAvailable DEF HeaderArrives
  <1>7. UNCHANGED <<now, best, ledger, persisted, served>> /\ now \in 0..MaxTime
    BY DEF HeaderArrives, IInv, TypeOK
  <1> QED
    BY <1>1, <1>5, <1>6, <1>7, StillAvailable, GrowthInv

(* A body arrives for a known header, or will not. *)
LEMMA SearchEndsInv ==
  ASSUME IInv, NEW b \in tree.nodes, BlockArrives(b) \/ SearchFails(b)
  PROVE  IInv'
PROOF
  <1>1. Data!WellFormed(tree)
    BY SameOperations DEF IInv, TypeOK
  <1>2. CASE BlockArrives(b)
    <2>1. /\ Data!WellFormed(Data!StoreBlock(tree, b))
          /\ Data!StoreBlock(tree, b).nodes = tree.nodes
          /\ Data!StoreBlock(tree, b).held = tree.held \cup {b}
      BY <1>1, BlocksFormATree, Data!StoreBlockWellFormed
    <2>2. tree' = Data!StoreBlock(tree, b)
      BY <1>2, SameOperations DEF BlockArrives
    <2>3. Grown(tree')
      BY <2>1, <2>2, SameOperations DEF Grown
    <2>4. UNCHANGED <<now, best, ledger, reported, persisted, served>> /\ now \in 0..MaxTime
      BY <1>2 DEF BlockArrives, IInv, TypeOK
    <2> QED
      BY <2>3, <2>4, StillAvailable, GrowthInv
  <1>3. CASE SearchFails(b)
    <2>1. b \notin tree.held
      BY <1>3 DEF SearchFails
    <2>2. Data!WellFormed(Data!SetMissing(tree, b))
      BY <1>1, <2>1, BlocksFormATree, Data!SetMissingWellFormed
    <2>3. tree' = SetMissing(tree, b) /\ WellFormed(tree')
      BY <1>3, <2>2, SameOperations DEF SearchFails
    <2>4. Grown(tree')
      BY <2>3 DEF Grown, SetMissing, WithStatus
    <2>5. UNCHANGED <<now, best, ledger, reported, persisted, served>> /\ now \in 0..MaxTime
      BY <1>3 DEF SearchFails, IInv, TypeOK
    <2> QED
      BY <2>4, <2>5, StillAvailable, GrowthInv
  <1> QED
    BY <1>2, <1>3

(* A step runs to its end. *)
LEMMA StepInv ==
  ASSUME IInv, CharmsDrawn, NEW online \in SUBSET WithCursor, Step(online)
  PROVE  IInv'
PROOF
  <1>1. PICK o \in Outcomes(online) : tree' = o.tree /\ ledger' = o.ledger /\ best' = o.best
    BY DEF Step
  <1>2. Grown(tree') /\ best' \in tree'.nodes /\ ledger' \in tree'.complete
    BY <1>1, Ended
  <1>3. Path(ledger') \subseteq tree'.complete
    BY <1>2, TreeFacts DEF Grown
  <1>4. served' \subseteq tree'.complete /\ persisted' = ledger' /\ UNCHANGED <<now, reported>>
    BY <1>2, <1>3, StillAvailable DEF Step
  <1>5. now \in 0..MaxTime
    BY DEF IInv, TypeOK
  <1> QED
    BY <1>2, <1>4, <1>5, StillAvailable, GrowthInv

(* The node crashes and comes back. *)
LEMMA CrashInv ==
  ASSUME IInv, CharmsDrawn, NEW online \in SUBSET WithCursor, Crash(online)
  PROVE  IInv'
PROOF
  <1>1. Grown(tree') /\ persisted' \in tree'.complete
    <2>1. CASE UNCHANGED <<tree, persisted>>
      BY <2>1 DEF IInv, TypeOK, LedgerAvailable, Grown
    <2>2. CASE \E o \in Outcomes(online) : tree' = o.tree /\ persisted' \in {persisted, o.ledger}
      <3>1. PICK o \in Outcomes(online) : tree' = o.tree /\ persisted' \in {persisted, o.ledger}
        BY <2>2
      <3>2. Grown(tree') /\ o.ledger \in tree'.complete
        BY <3>1, Ended
      <3> QED
        BY <3>1, <3>2, StillAvailable
    <2> QED
      BY <2>1, <2>2 DEF Crash
  <1>2. ledger' = persisted' /\ best' = persisted' /\ UNCHANGED <<now, reported, served>>
    BY DEF Crash
  <1>3. persisted' \in tree'.nodes
    BY <1>1, TreeFacts DEF Grown
  <1>4. now \in 0..MaxTime
    BY DEF IInv, TypeOK
  <1> QED
    BY <1>1, <1>2, <1>3, <1>4, StillAvailable, GrowthInv

LEMMA NextInv ==
  ASSUME CharmsDrawn, IInv, [Next]_vars
  PROVE  IInv'
PROOF
  <1>1. CASE Tick
    <2>1. Grown(tree') /\ tree' = tree
      BY <1>1 DEF Tick, Grown, IInv, TypeOK
    <2>2. now' \in 0..MaxTime /\ now <= now'
      BY <1>1, MiningAssumption DEF Tick, IInv, TypeOK
    <2>3. UNCHANGED <<best, ledger, reported, persisted, served>>
      BY <1>1 DEF Tick
    <2> QED
      BY <2>1, <2>2, <2>3, StillAvailable, GrowthInv
  <1>2. CASE \E r \in Remote, b \in Reports : HeaderArrives(r, b)
    BY <1>2, HeaderArrivesInv
  <1>3. CASE \E b \in tree.nodes : BlockArrives(b) \/ SearchFails(b)
    BY <1>3, SearchEndsInv
  <1>4. CASE \E online \in SUBSET WithCursor : Step(online) \/ Crash(online)
    BY <1>4, StepInv, CrashInv
  <1>5. CASE UNCHANGED vars
    BY <1>5 DEF vars, IInv, TypeOK, LedgerAvailable, DelaysKept
  <1> QED
    BY <1>1, <1>2, <1>3, <1>4, <1>5 DEF Next

THEOREM Invariance ==
  ASSUME CharmsDrawn
  PROVE  Spec => []IInv
PROOF
  <1>1. Init => IInv
    BY InitInv
  <1>2. IInv /\ [Next]_vars => IInv'
    BY NextInv
  <1> QED
    BY <1>1, <1>2, PTL DEF Spec

(***************************************************************************)
(* The tree of a mining node stays well formed, and everything the node    *)
(* refers to is in it.                                                     *)
(***************************************************************************)
THEOREM TypeCorrect ==
  ASSUME CharmsDrawn
  PROVE  Spec => []TypeOK
PROOF
  <1>1. IInv => TypeOK
    BY DEF IInv
  <1> QED
    BY <1>1, Invariance, PTL

(***************************************************************************)
(* The ledger, the saved ledger and all that was ever served stand on      *)
(* available blocks, whatever other miners report, whenever searches fail  *)
(* and whenever the node crashes.                                          *)
(***************************************************************************)
THEOREM LedgerStaysAvailable ==
  ASSUME CharmsDrawn
  PROVE  Spec => []LedgerAvailable
PROOF
  <1>1. IInv => LedgerAvailable
    BY DEF IInv
  <1> QED
    BY <1>1, Invariance, PTL

(***************************************************************************)
(* The sampler finds the deepest block that most leaves share for any      *)
(* leaves that a mining node may have, in every order and number.          *)
(***************************************************************************)
THEOREM SamplesAreConsensus ==
  ASSUME CharmsDrawn
  PROVE  Spec => []SampleIsConsensus
PROOF
  <1>1. IInv => SampleIsConsensus
    <2> DEFINE cursors == {best, ledger, persisted} \cup { reported[r] : r \in WithCursor }
    <2> SUFFICES ASSUME IInv, NEW n \in 1..4, NEW leaves \in [1..n -> cursors]
                 PROVE  Sample(leaves) = {ConsensusRoot(leaves)}
      BY DEF SampleIsConsensus
    <2>1. cursors \subseteq Block
      BY TreeFacts DEF IInv, TypeOK, WithCursor
    <2> HIDE DEF cursors
    <2>2. leaves \in Seq(Block) /\ Len(leaves) > 0
      BY <2>1
    <2> QED
      BY <2>2, SampleFinds
  <1> QED
    BY <1>1, Invariance, PTL

(* No header in the tree comes too soon after its parent or from the future. *)
THEOREM DelaysAlwaysKept ==
  ASSUME CharmsDrawn
  PROVE  Spec => []DelaysKept
PROOF
  <1>1. IInv => DelaysKept
    BY DEF IInv
  <1> QED
    BY <1>1, Invariance, PTL

(* Replacing the end of any known branch with an own block always pays. *)
THEOREM ImprovementAlwaysPays ==
  ASSUME CharmsDrawn
  PROVE  Spec => []ImprovementIsReal
PROOF
  <1>1. IInv => ImprovementIsReal
    <2> SUFFICES ASSUME IInv, NEW b \in tree.nodes, NEW h \in 0..MaxHeight, Improve(b, h) # b
                 PROVE  Compare(Improve(b, h), b) = -1
      BY DEF ImprovementIsReal
    <2>1. b \in Block /\ now \in Nat /\ h \in Nat
      BY TreeFacts DEF IInv, TypeOK
    <2>2. Time(b) <= now
      <3>1. CASE b = Genesis
        BY <2>1, <3>1 DEF Time, Genesis
      <3>2. CASE b # Genesis
        BY <2>1, <3>2, TimesCount DEF IInv, DelaysKept
      <3> QED
        BY <3>1, <3>2
    <2> QED
      BY <2>1, <2>2, ImprovementPays DEF CharmsDrawn
  <1> QED
    BY <1>1, Invariance, PTL

(***************************************************************************)
(* A step always ends with the longest available part of the branch it     *)
(* chose for its ledger.                                                   *)
(***************************************************************************)
THEOREM LedgerAlwaysFollows ==
  ASSUME CharmsDrawn
  PROVE  Spec => LedgerFollowsBest
PROOF
  <1> DEFINE Follows ==
        (\E online \in SUBSET WithCursor : Step(online)) =>
          /\ IsAncestor(ledger', best')
          /\ \A h \in (Len(ledger') + 1)..Len(best') : Ancestor(best', h) \notin tree'.complete
  <1>1. IInv => Follows
    <2> SUFFICES ASSUME IInv, NEW online \in SUBSET WithCursor, Step(online)
                 PROVE  /\ IsAncestor(ledger', best')
                        /\ \A h \in (Len(ledger') + 1)..Len(best') :
                              Ancestor(best', h) \notin tree'.complete
      OBVIOUS
    <2>1. PICK o \in Outcomes(online) : tree' = o.tree /\ ledger' = o.ledger /\ best' = o.best
      BY DEF Step
    <2>2. IsChainOf(ledger', best', tree') /\ best' \in Block
      BY <2>1, Ended, TreeFacts DEF Grown
    <2>3. PICK k \in 0..Len(best') :
            /\ ledger' = Ancestor(best', k)
            /\ \A h \in (k + 1)..Len(best') : Ancestor(best', h) \notin tree'.complete
      BY <2>2 DEF IsChainOf
    <2>4. Len(ledger') = k /\ Len(best') \in Nat
      BY <2>2, <2>3, AncestorFacts DEF Block
    <2> QED
      BY <2>3, <2>4 DEF IsAncestor
  <1>2. IInv => [Follows]_vars
    BY <1>1
  <1> QED
    BY <1>2, Invariance, PTL DEF LedgerFollowsBest

=============================================================================
