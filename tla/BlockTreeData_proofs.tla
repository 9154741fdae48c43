------------------------- MODULE BlockTreeData_proofs -------------------------
(***************************************************************************)
(* Every operation on a block tree keeps it well formed, for every tree of *)
(* blocks: the facts that BlockTree and Mining are proved with.            *)
(***************************************************************************)
EXTENDS BlockTreeData, TLAPS

(* A tree that is not the genesis has its parent's path below its own. *)
LEMMA ParentFacts ==
  ASSUME NEW b \in Block \ {Genesis}
  PROVE  /\ Parent(b) \in Block
         /\ Parent(b) \in Path(b)
         /\ Path(b) = Path(Parent(b)) \cup {b}
         /\ Parent(b) # b
BY TreeAssumption

(* The tree a node starts with. *)
LEMMA GenesisWellFormed == WellFormed(GenesisTree)
BY TreeAssumption
   DEF GenesisTree, WellFormed, TreeType, PathsRecorded, CompleteExact,
       MissingClosed, MissingJustified

(* setBranchStatus ( MISSING ) on a block that has no body. *)
LEMMA SetMissingWellFormed ==
  ASSUME NEW T, WellFormed(T), NEW b \in T.nodes, b \notin T.held
  PROVE  WellFormed(SetMissing(T, b))
PROOF
  <1> DEFINE lost == Reached(T, b, T.nodes \ T.missing)
  <1> DEFINE U == SetMissing(T, b)
  <1>1. /\ U.nodes = T.nodes /\ U.held = T.held
        /\ U.complete = T.complete \ lost
        /\ U.missing = T.missing \cup lost
        /\ U \in TreeType
    BY DEF SetMissing, WithStatus, WellFormed, TreeType, Reached
  <1>2. lost = { d \in T.nodes : b \in Path(d) /\ \A a \in Path(d) : b \in Path(a) => a \in T.nodes \ T.missing }
    BY DEF Reached
  <1>3. /\ T.nodes \subseteq Block /\ T.held \subseteq T.nodes /\ T.missing \subseteq T.nodes
        /\ PathsRecorded(T) /\ CompleteExact(T) /\ MissingClosed(T) /\ MissingJustified(T)
        /\ Genesis \in T.complete
    BY DEF WellFormed, TreeType
  <1>4. \A d \in lost : ~ (Path(d) \subseteq T.held) /\ d \notin T.complete
    BY <1>2, <1>3 DEF CompleteExact
  <1>5. U.complete = T.complete
    BY <1>1, <1>4
  <1>6. MissingClosed(U)
    <2> SUFFICES ASSUME NEW c \in T.nodes \ {Genesis}, Parent(c) \in T.missing \cup lost, c \notin T.missing
                 PROVE  c \in lost
      BY <1>1 DEF MissingClosed
    <2>1. c \in Block \ {Genesis}
      BY <1>3
    <2>2. Parent(c) \in lost
      BY <1>3 DEF MissingClosed
    <2>3. b \in Path(c)
      BY <1>2, <2>1, <2>2, ParentFacts
    <2>4. \A a \in Path(c) : b \in Path(a) => a \in T.nodes \ T.missing
      BY <1>2, <2>1, <2>2, ParentFacts
    <2> QED
      BY <1>2, <2>3, <2>4
  <1> HIDE DEF lost, U
  <1> QED
    BY <1>1, <1>2, <1>3, <1>4, <1>5, <1>6
       DEF WellFormed, PathsRecorded, CompleteExact, MissingJustified, U

(* update ( block ): the body of a recorded header is stored. *)
LEMMA StoreBlockWellFormed ==
  ASSUME NEW T, WellFormed(T), NEW b \in T.nodes
  PROVE  /\ WellFormed(StoreBlock(T, b))
         /\ StoreBlock(T, b).nodes = T.nodes
         /\ StoreBlock(T, b).held = T.held \cup {b}
PROOF
  <1> DEFINE W == WithBody(T, b)
  <1> DEFINE done == Reached(W, b, W.held \ W.complete)
  <1> DEFINE U == StoreBlock(T, b)
  <1>1. /\ W.nodes = T.nodes /\ W.held = T.held \cup {b}
        /\ W.complete = T.complete /\ W.missing = T.missing
    BY DEF WithBody
  <1>2. done = { d \in T.nodes : /\ b \in Path(d)
                                 /\ \A a \in Path(d) : b \in Path(a) => a \in (T.held \cup {b}) \ T.complete }
    BY <1>1 DEF Reached
  <1>3. /\ T.nodes \subseteq Block /\ T.held \subseteq T.nodes
        /\ T.missing \subseteq T.nodes /\ T.complete \subseteq T.nodes
        /\ PathsRecorded(T) /\ CompleteExact(T) /\ MissingClosed(T) /\ MissingJustified(T)
        /\ Genesis \in T.complete
    BY DEF WellFormed, TreeType, CompleteExact
  <1>4. CASE b # Genesis /\ Parent(b) \notin T.complete
    <2>1. Parent(b) \in T.nodes
      BY <1>3, <1>4, ParentFacts DEF PathsRecorded
    <2>2. U = WithBody(T, b)
      BY <1>1, <1>4, <2>1 DEF StoreBlock, SetComplete
    <2>3. ~ (Path(Parent(b)) \subseteq T.held) /\ b \notin Path(Parent(b))
      BY <1>3, <1>4, <2>1, TreeAssumption DEF CompleteExact
    <2>4. PICK x \in Path(Parent(b)) : x \notin T.held \cup {b}
      BY <2>3
    <2>5. \A d \in T.nodes : b \in Path(d) => x \in Path(d)
      BY <1>3, <1>4, <2>4, TreeAssumption, ParentFacts
    <2>6. \A d \in T.nodes : Path(d) \subseteq T.held \cup {b} => Path(d) \subseteq T.held
      BY <2>4, <2>5
    <2> QED
      BY <1>1, <1>3, <2>2, <2>6
         DEF WellFormed, TreeType, WithBody, PathsRecorded, CompleteExact,
             MissingClosed, MissingJustified
  <1>5. CASE b = Genesis \/ Parent(b) \in T.complete
    <2>1. U = WithStatus(W, W.complete \cup done, W.missing \ done)
      BY <1>1, <1>5 DEF StoreBlock, SetComplete
    <2>2. /\ U.nodes = T.nodes /\ U.held = T.held \cup {b}
          /\ U.complete = T.complete \cup done /\ U.missing = T.missing \ done
          /\ U \in TreeType
      <3>1. done \subseteq T.nodes /\ b \in Block
        BY <1>2, <1>3
      <3> HIDE DEF done
      <3>2. U = [nodes |-> T.nodes, held |-> T.held \cup {b},
                 complete |-> T.complete \cup done, missing |-> T.missing \ done]
        BY <1>1, <2>1 DEF WithStatus
      <3> HIDE DEF U
      <3> QED
        BY <1>3, <3>1, <3>2 DEF TreeType
    <2>3. Path(b) \subseteq T.held \cup {b}
      BY <1>3, <1>5, TreeAssumption DEF CompleteExact
    <2>4. \A d \in done : Path(d) \subseteq T.held \cup {b}
      <3> SUFFICES ASSUME NEW d \in done, NEW a \in Path(d) PROVE a \in T.held \cup {b}
        OBVIOUS
      <3>1. d \in Block /\ b \in Block /\ a \in Block /\ b \in Path(d)
        BY <1>2, <1>3, TreeAssumption
      <3>2. a \in Path(b) \/ b \in Path(a)
        BY <3>1, TreeAssumption
      <3> QED
        BY <1>2, <2>3, <3>1, <3>2
    <2>5. ASSUME NEW d \in T.nodes, Path(d) \subseteq T.held \cup {b}, d \notin T.complete
          PROVE  d \in done
      <3>1. b \in Path(d) /\ b \notin T.held
        BY <1>3, <2>5 DEF CompleteExact
      <3>2. \A a \in Path(d) : b \in Path(a) => a \notin T.complete
        BY <1>3, <3>1 DEF CompleteExact
      <3> QED
        BY <1>2, <2>5, <3>1, <3>2
    <2>6. CompleteExact(U)
      <3>1. \A d \in T.complete : Path(d) \subseteq T.held \cup {b} /\ d \in T.nodes
        BY <1>3 DEF CompleteExact
      <3> QED
        BY <1>2, <2>2, <2>4, <2>5, <3>1 DEF CompleteExact
    <2>7. MissingClosed(U)
      <3> SUFFICES ASSUME NEW c \in T.nodes \ {Genesis}, Parent(c) \in T.missing, Parent(c) \notin done
                   PROVE  c \in T.missing /\ c \notin done
        BY <2>2 DEF MissingClosed
      <3>1. c \in T.missing
        BY <1>3 DEF MissingClosed
      <3>2. c \in Block \ {Genesis} /\ Parent(c) \in T.nodes
        BY <1>3
      <3>3. ASSUME c \in done PROVE FALSE
        <4>1. c # b
          BY <1>3, <1>5, <3>2 DEF CompleteExact, MissingJustified
        <4>2. b \in Path(Parent(c))
          BY <1>2, <3>2, <3>3, <4>1, ParentFacts
        <4>3. Parent(c) \in done
          BY <1>2, <3>2, <3>3, <4>2, ParentFacts
        <4> QED
          BY <4>3
      <3> QED
        BY <3>1, <3>3
    <2>8. MissingJustified(U)
      <3>1. T.missing \cap T.complete = {}
        BY <1>3 DEF CompleteExact, MissingJustified
      <3> QED
        BY <1>3, <2>2, <2>5, <3>1 DEF MissingJustified
    <2> HIDE DEF done, U
    <2> QED
      BY <1>1, <1>3, <2>2, <2>6, <2>7, <2>8 DEF WellFormed, PathsRecorded, U
  <1> QED
    BY <1>4, <1>5

(* INSERT of a header whose parent has a row. *)
LEMMA InsertHeaderWellFormed ==
  ASSUME NEW T, WellFormed(T), NEW b \in Block \ {Genesis},
         b \notin T.nodes, Parent(b) \in T.nodes
  PROVE  WellFormed(InsertHeader(T, b))
PROOF
  <1> DEFINE U == InsertHeader(T, b)
  <1>1. /\ U.nodes = T.nodes \cup {b} /\ U.held = T.held /\ U.complete = T.complete
        /\ U.missing = T.missing \cup Inherits(b, T.missing)
    BY DEF InsertHeader
  <1>2. /\ T.nodes \subseteq Block /\ T.held \subseteq T.nodes
        /\ T.missing \subseteq T.nodes /\ T.complete \subseteq T.nodes
        /\ PathsRecorded(T) /\ CompleteExact(T) /\ MissingClosed(T) /\ MissingJustified(T)
        /\ Genesis \in T.complete
    BY DEF WellFormed, TreeType, CompleteExact
  <1>3. PathsRecorded(U)
    BY <1>1, <1>2, ParentFacts DEF PathsRecorded
  <1>4. CompleteExact(U)
    BY <1>1, <1>2, TreeAssumption DEF CompleteExact
  <1>5. \A c \in T.nodes \ {Genesis} : Parent(c) \in T.nodes
    BY <1>2, ParentFacts DEF PathsRecorded
  <1>6. MissingClosed(U)
    BY <1>1, <1>2, <1>5, ParentFacts DEF MissingClosed, Inherits
  <1>7. MissingJustified(U)
    BY <1>1, <1>2, ParentFacts DEF MissingJustified, Inherits
  <1>8. U \in TreeType
    BY <1>2 DEF InsertHeader, TreeType, Inherits
  <1> QED
    BY <1>1, <1>2, <1>3, <1>4, <1>6, <1>7, <1>8 DEF WellFormed, Inherits

(* INSERT of a header and its block under a parent that has a row. *)
LEMMA InsertBlockWellFormed ==
  ASSUME NEW T, WellFormed(T), NEW b \in Block \ {Genesis},
         b \notin T.nodes, Parent(b) \in T.nodes
  PROVE  WellFormed(InsertBlock(T, b))
PROOF
  <1> DEFINE U == InsertBlock(T, b)
  <1>1. /\ U.nodes = T.nodes \cup {b} /\ U.held = T.held \cup {b}
        /\ U.complete = T.complete \cup Inherits(b, T.complete)
        /\ U.missing = T.missing \cup Inherits(b, T.missing)
    BY DEF InsertBlock
  <1>2. /\ T.nodes \subseteq Block /\ T.held \subseteq T.nodes
        /\ T.missing \subseteq T.nodes /\ T.complete \subseteq T.nodes
        /\ PathsRecorded(T) /\ CompleteExact(T) /\ MissingClosed(T) /\ MissingJustified(T)
        /\ Genesis \in T.complete
    BY DEF WellFormed, TreeType, CompleteExact
  <1>3. PathsRecorded(U)
    BY <1>1, <1>2, ParentFacts DEF PathsRecorded
  <1>4. \A d \in T.nodes : b \notin Path(d)
    BY <1>2 DEF PathsRecorded
  <1>5. Path(b) \subseteq T.held \cup {b} <=> Parent(b) \in T.complete
    BY <1>2, <1>4, ParentFacts, TreeAssumption DEF CompleteExact
  <1>6. CompleteExact(U)
    BY <1>1, <1>2, <1>4, <1>5 DEF CompleteExact, Inherits
  <1>7. \A c \in T.nodes \ {Genesis} : Parent(c) \in T.nodes
    BY <1>2, ParentFacts DEF PathsRecorded
  <1>8. MissingClosed(U)
    BY <1>1, <1>2, <1>7, ParentFacts DEF MissingClosed, Inherits
  <1>9. MissingJustified(U)
    <2>1. Parent(b) \in T.missing => Parent(b) \notin T.complete
      BY <1>2 DEF CompleteExact, MissingJustified
    <2> QED
      BY <1>1, <1>2, <1>4, <1>5, <2>1 DEF MissingJustified, Inherits
  <1>10. U \in TreeType
    BY <1>2 DEF InsertBlock, TreeType, Inherits
  <1> QED
    BY <1>1, <1>2, <1>3, <1>6, <1>8, <1>9, <1>10 DEF WellFormed, Inherits

(* affirm without a block, for a block that may be recorded. *)
LEMMA AffirmHeaderWellFormed ==
  ASSUME NEW T, WellFormed(T), NEW b \in Block,
         b \in T.nodes \/ (b # Genesis /\ Parent(b) \in T.nodes)
  PROVE  /\ WellFormed(AffirmHeader(T, b))
         /\ AffirmHeader(T, b).nodes = T.nodes \cup {b}
         /\ AffirmHeader(T, b).held = T.held
         /\ AffirmHeader(T, b).complete = T.complete
PROOF
  <1>1. CASE b \in T.nodes
    BY <1>1 DEF AffirmHeader
  <1>2. CASE b \notin T.nodes
    <2>1. AffirmHeader(T, b) = InsertHeader(T, b)
      BY <1>2 DEF AffirmHeader
    <2> QED
      BY <1>2, <2>1, InsertHeaderWellFormed DEF InsertHeader
  <1> QED
    BY <1>1, <1>2

(* affirm with a block, for a block that may be recorded. *)
LEMMA AffirmBlockWellFormed ==
  ASSUME NEW T, WellFormed(T), NEW b \in Block,
         b \in T.nodes \/ (b # Genesis /\ Parent(b) \in T.nodes)
  PROVE  /\ WellFormed(AffirmBlock(T, b))
         /\ AffirmBlock(T, b).nodes = T.nodes \cup {b}
         /\ AffirmBlock(T, b).held = T.held \cup {b}
PROOF
  <1>1. CASE b \notin T.nodes
    <2>1. AffirmBlock(T, b) = InsertBlock(T, b)
      BY <1>1 DEF AffirmBlock
    <2> QED
      BY <1>1, <2>1, InsertBlockWellFormed DEF InsertBlock
  <1>2. CASE b \in T.nodes /\ b \notin T.held
    BY <1>2, StoreBlockWellFormed DEF AffirmBlock
  <1>3. CASE b \in T.nodes /\ b \in T.held
    BY <1>3 DEF AffirmBlock
  <1> QED
    BY <1>1, <1>2, <1>3

(* What is left when branches that no tag refers to are forgotten. *)
LEMMA KeepPathsWellFormed ==
  ASSUME NEW T, WellFormed(T), NEW S \in SUBSET T.nodes, S # {}
  PROVE  /\ WellFormed(KeepPaths(T, S))
         /\ S \subseteq KeepPaths(T, S).nodes
         /\ KeepPaths(T, S).nodes \subseteq T.nodes
         /\ KeepPaths(T, S).held = T.held \cap KeepPaths(T, S).nodes
PROOF
  <1> DEFINE kept == UNION { Path(s) : s \in S }
  <1> DEFINE U == KeepPaths(T, S)
  <1>1. /\ U.nodes = T.nodes \cap kept /\ U.held = T.held \cap kept
        /\ U.complete = T.complete \cap kept /\ U.missing = T.missing \cap kept
    BY DEF KeepPaths
  <1>2. /\ T.nodes \subseteq Block /\ T.held \subseteq T.nodes
        /\ T.missing \subseteq T.nodes /\ T.complete \subseteq T.nodes
        /\ PathsRecorded(T) /\ CompleteExact(T) /\ MissingClosed(T) /\ MissingJustified(T)
        /\ Genesis \in T.complete
    BY DEF WellFormed, TreeType, CompleteExact
  <1>3. /\ S \subseteq kept
        /\ Genesis \in kept
        /\ \A b \in kept : Path(b) \subseteq kept
    <2>1. S \subseteq Block
      BY <1>2
    <2>2. \A s \in S : s \in Path(s) /\ Genesis \in Path(s)
      BY <2>1, TreeAssumption
    <2>3. ASSUME NEW s \in S, NEW b \in Path(s) PROVE Path(b) \subseteq kept
      BY <2>1, <2>3, TreeAssumption
    <2> QED
      BY <2>2, <2>3
  <1> HIDE DEF kept, U
  <1>4. U \in TreeType
    BY <1>2 DEF U, KeepPaths, TreeType
  <1>5. PathsRecorded(U)
    BY <1>1, <1>2, <1>3 DEF PathsRecorded
  <1>6. CompleteExact(U)
    BY <1>1, <1>2, <1>3 DEF CompleteExact
  <1>7. MissingClosed(U)
    BY <1>1, <1>2 DEF MissingClosed
  <1>8. MissingJustified(U)
    BY <1>1, <1>2 DEF MissingJustified
  <1>9. WellFormed(U)
    BY <1>1, <1>2, <1>3, <1>4, <1>5, <1>6, <1>7, <1>8 DEF WellFormed
  <1> QED
    BY <1>1, <1>2, <1>3, <1>9 DEF U

=============================================================================
