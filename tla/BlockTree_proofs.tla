--------------------------- MODULE BlockTree_proofs ---------------------------
(***************************************************************************)
(* Inv is an invariant of BlockTree for every set of blocks, in memory and *)
(* in the database, and the tree implements BranchAvailability.            *)
(***************************************************************************)
EXTENDS BlockTree, BlockTreeData_proofs

(* The first state of a node satisfies the invariant. *)
LEMMA InitInv == Init => Inv
PROOF
  <1> SUFFICES ASSUME Init PROVE Inv
    OBVIOUS
  <1>1. WellFormed(tree)
    BY GenesisWellFormed DEF Init
  <1>2. /\ tree = GenesisTree /\ tag \in [Tag -> {Genesis, None}]
        /\ \E t \in Tag : tag[t] = Genesis
    BY DEF Init
  <1> QED
    BY <1>1, <1>2, TreeAssumption, ProvisionalAssumption
       DEF Inv, TypeOK, WellFormed, GenesisTree, Tagged, Init

(* However an operation changes tree and tags, the rest is forgotten safely. *)
LEMMA BecomesInv ==
  ASSUME Inv, NEW T, WellFormed(T), T.held \cap Provisional = {},
         NEW tags \in [Tag -> Block \cup {None}],
         Tagged(tags) \subseteq T.nodes, Tagged(tags) # {},
         Becomes(T, tags)
  PROVE  /\ Inv'
         /\ tree'.nodes \subseteq T.nodes
         /\ tree'.held = T.held \cap tree'.nodes
         /\ ~forgetful => tree' = T
PROOF
  <1>1. /\ WellFormed(tree')
        /\ Tagged(tags) \subseteq tree'.nodes
        /\ tree'.nodes \subseteq T.nodes
        /\ tree'.held = T.held \cap tree'.nodes
        /\ ~forgetful => tree' = T
    <2>1. CASE forgetful
      BY <2>1, KeepPathsWellFormed DEF Becomes
    <2>2. CASE ~forgetful
      BY <2>2 DEF Becomes, WellFormed
    <2> QED
      BY <2>1, <2>2
  <1>2. tag' = tags /\ forgetful' = forgetful
    BY DEF Becomes
  <1>3. TypeOK'
    BY <1>1, <1>2 DEF Inv, TypeOK, WellFormed
  <1> QED
    BY <1>1, <1>2, <1>3 DEF Inv, Tagged

(* A tag moves to a block of the tree. *)
LEMMA Retag ==
  ASSUME Inv, NEW t \in Tag, NEW b \in Block, NEW T,
         tree.nodes \cup {b} \subseteq T.nodes
  PROVE  /\ [tag EXCEPT ![t] = b] \in [Tag -> Block \cup {None}]
         /\ Tagged([tag EXCEPT ![t] = b]) \subseteq T.nodes
         /\ Tagged([tag EXCEPT ![t] = b]) # {}
BY ProvisionalAssumption DEF Inv, TypeOK, Tagged

(***************************************************************************)
(* What an operation does: it makes T of the tree, which knows at most one *)
(* more header b and its body, before anything is forgotten.               *)
(***************************************************************************)
Makes(T, tags, b) ==
  /\ Becomes(T, tags)
  /\ WellFormed(T)
  /\ T.held \cap Provisional = {}
  /\ tags \in [Tag -> Block \cup {None}]
  /\ Tagged(tags) \subseteq T.nodes
  /\ Tagged(tags) # {}
  /\ b \in Block
  /\ Path(b) \ {b} \subseteq tree.nodes
  /\ \/ T.nodes = tree.nodes /\ T.held = tree.held
     \/ T.nodes = tree.nodes \cup {b} /\ T.held = tree.held
     \/ T.nodes = tree.nodes \cup {b} /\ T.held = tree.held \cup {b}

LEMMA Steps ==
  ASSUME Inv, Next
  PROVE  \E T, tags, b : Makes(T, tags, b)
PROOF
  <1>0. /\ WellFormed(tree)
        /\ tree.nodes \subseteq Block
        /\ tree.held \cap Provisional = {}
        /\ tag \in [Tag -> Block \cup {None}]
        /\ Tagged(tag) \subseteq tree.nodes /\ Tagged(tag) # {}
        /\ Genesis \in Block /\ Path(Genesis) \ {Genesis} \subseteq tree.nodes
        /\ \A b \in Block : CanAffirm(b) => Path(b) \ {b} \subseteq tree.nodes
    BY ParentFacts, TreeAssumption DEF Inv, TypeOK, WellFormed, TreeType, PathsRecorded, CanAffirm
  <1>1. ASSUME NEW t \in Tag, NEW b \in Block, HeaderArrives(t, b) \/ ProvisionalTagged(t, b)
        PROVE  /\ Becomes(AffirmHeader(tree, b), [tag EXCEPT ![t] = b])
               /\ CanAffirm(b)
               /\ WellFormed(AffirmHeader(tree, b))
               /\ AffirmHeader(tree, b).nodes = tree.nodes \cup {b}
               /\ AffirmHeader(tree, b).held = tree.held
    BY <1>0, <1>1, AffirmHeaderWellFormed DEF HeaderArrives, ProvisionalTagged, CanAffirm
  <1>2. ASSUME NEW t \in Tag, NEW b \in Block, BlockPushed(t, b)
        PROVE  /\ Becomes(AffirmBlock(tree, b), [tag EXCEPT ![t] = b])
               /\ CanAffirm(b) /\ b \notin Provisional
               /\ WellFormed(AffirmBlock(tree, b))
               /\ AffirmBlock(tree, b).nodes = tree.nodes \cup {b}
               /\ AffirmBlock(tree, b).held = tree.held \cup {b}
    BY <1>0, <1>2, AffirmBlockWellFormed DEF BlockPushed, CanAffirm
  <1>3. ASSUME NEW b \in Block, BlockArrives(b), b \in tree.nodes
        PROVE  /\ Becomes(StoreBlock(tree, b), tag)
               /\ CanAffirm(b) /\ b \notin Provisional
               /\ WellFormed(StoreBlock(tree, b))
               /\ StoreBlock(tree, b).nodes = tree.nodes \cup {b}
               /\ StoreBlock(tree, b).held = tree.held \cup {b}
    BY <1>0, <1>3, StoreBlockWellFormed DEF BlockArrives, CanAffirm
  <1>4. ASSUME NEW b \in Block, BlockArrives(b), b \notin tree.nodes
        PROVE  Becomes(tree, tag)
    BY <1>4 DEF BlockArrives, StoreBlock
  <1>5. ASSUME NEW b \in Block, SearchFails(b)
        PROVE  /\ Becomes(SetMissing(tree, b), tag)
               /\ WellFormed(SetMissing(tree, b))
               /\ SetMissing(tree, b).nodes = tree.nodes
               /\ SetMissing(tree, b).held = tree.held
    BY <1>0, <1>5, SetMissingWellFormed DEF SearchFails, SetMissing, WithStatus
  <1>6. ASSUME NEW t \in Tag, NEW b \in Block, MoveTag(t, b)
        PROVE  Becomes(tree, [tag EXCEPT ![t] = b]) /\ b \in tree.nodes
    BY <1>6 DEF MoveTag
  <1>7. ASSUME NEW t \in Tag, NEW b \in Block, HeaderArrives(t, b) \/ ProvisionalTagged(t, b)
        PROVE  Makes(AffirmHeader(tree, b), [tag EXCEPT ![t] = b], b)
    <2> DEFINE tags == [tag EXCEPT ![t] = b]
    <2>0. tree.nodes \cup {b} \subseteq AffirmHeader(tree, b).nodes
      BY <1>0, <1>1, <1>7
    <2>1. /\ tags \in [Tag -> Block \cup {None}]
          /\ Tagged(tags) \subseteq AffirmHeader(tree, b).nodes
          /\ Tagged(tags) # {}
      BY <2>0, Retag
    <2>2. Becomes(AffirmHeader(tree, b), tags)
      BY <1>1, <1>7
    <2> HIDE DEF tags
    <2>3. Makes(AffirmHeader(tree, b), tags, b)
      BY <1>0, <1>1, <1>7, <2>1, <2>2 DEF Makes
    <2> QED
      BY <2>3 DEF tags
  <1>8. ASSUME NEW t \in Tag, NEW b \in Block, BlockPushed(t, b)
        PROVE  Makes(AffirmBlock(tree, b), [tag EXCEPT ![t] = b], b)
    <2> DEFINE tags == [tag EXCEPT ![t] = b]
    <2>0. tree.nodes \cup {b} \subseteq AffirmBlock(tree, b).nodes
      BY <1>0, <1>2, <1>8
    <2>1. /\ tags \in [Tag -> Block \cup {None}]
          /\ Tagged(tags) \subseteq AffirmBlock(tree, b).nodes
          /\ Tagged(tags) # {}
      BY <2>0, Retag
    <2>2. Becomes(AffirmBlock(tree, b), tags)
      BY <1>2, <1>8
    <2> HIDE DEF tags
    <2>3. Makes(AffirmBlock(tree, b), tags, b)
      BY <1>0, <1>2, <1>8, <2>1, <2>2 DEF Makes
    <2> QED
      BY <2>3 DEF tags
  <1>9. ASSUME NEW b \in Block, BlockArrives(b)
        PROVE  Makes(StoreBlock(tree, b), tag, b) \/ Makes(tree, tag, Genesis)
    <2>1. CASE b \in tree.nodes
      BY <1>0, <1>3, <1>9, <2>1 DEF Makes
    <2>2. CASE b \notin tree.nodes
      BY <1>0, <1>4, <1>9, <2>2 DEF Makes
    <2> QED
      BY <2>1, <2>2
  <1>10. ASSUME NEW b \in Block, SearchFails(b)
         PROVE  Makes(SetMissing(tree, b), tag, Genesis)
    BY <1>0, <1>5, <1>10 DEF Makes
  <1>11. ASSUME NEW t \in Tag, NEW b \in Block, MoveTag(t, b)
         PROVE  Makes(tree, [tag EXCEPT ![t] = b], Genesis)
    <2> DEFINE tags == [tag EXCEPT ![t] = b]
    <2>0. tree.nodes \cup {b} \subseteq tree.nodes
      BY <1>0, <1>6, <1>11
    <2>1. /\ tags \in [Tag -> Block \cup {None}]
          /\ Tagged(tags) \subseteq tree.nodes
          /\ Tagged(tags) # {}
      BY <2>0, Retag
    <2>2. Becomes(tree, tags)
      BY <1>6, <1>11
    <2> HIDE DEF tags
    <2>3. Makes(tree, tags, Genesis)
      BY <1>0, <1>6, <1>11, <2>1, <2>2 DEF Makes
    <2> QED
      BY <2>3 DEF tags
  <1> QED
    BY <1>7, <1>8, <1>9, <1>10, <1>11 DEF Next

(* No operation breaks the invariant. *)
LEMMA NextInv == Inv /\ [Next]_vars => Inv'
PROOF
  <1> SUFFICES ASSUME Inv, [Next]_vars PROVE Inv'
    OBVIOUS
  <1>1. CASE Next
    BY <1>1, Steps, BecomesInv DEF Makes
  <1>2. CASE UNCHANGED vars
    BY <1>2 DEF vars, Inv, TypeOK, Tagged
  <1> QED
    BY <1>1, <1>2

(***************************************************************************)
(* Whatever order headers, bodies, failed searches and tags come in, the   *)
(* tree stays well formed.                                                 *)
(***************************************************************************)
THEOREM Invariance == Spec => []Inv
  BY InitInv, NextInv, PTL DEF Spec

(***************************************************************************)
(* The branch statuses never break: composeChain's repair of a block whose *)
(* parent is complete and whose own status is not is never needed.         *)
(***************************************************************************)
THEOREM StatusesNeverBreak == Spec => []CompleteIffPathHeld
PROOF
  <1>1. Inv => CompleteIffPathHeld
    BY DEF Inv, WellFormed, CompleteIffPathHeld
  <1> QED
    BY <1>1, Invariance, PTL

(* Trimming the missing blocks off the top of a branch trims all of them. *)
THEOREM MissingSpreads == Spec => []MissingDownClosed
PROOF
  <1>1. Inv => MissingDownClosed
    BY DEF Inv, WellFormed, MissingDownClosed
  <1> QED
    BY <1>1, Invariance, PTL

(* A branch is only ever given up for a body that the node does not have. *)
THEOREM MissingIsCaused == Spec => []MissingHasACause
PROOF
  <1>1. Inv => MissingHasACause
    BY DEF Inv, WellFormed, MissingHasACause
  <1> QED
    BY <1>1, Invariance, PTL

(***************************************************************************)
(* The incremental statuses answer as if availability were recomputed from *)
(* the stored bodies at every step, in memory as in the database.          *)
(***************************************************************************)
THEOREM Refinement == Spec => ImplementsAvailability
PROOF
  <1>1. Init => Availability!Init
    BY DEF Init, GenesisTree, Availability!Init
  <1>2. Inv /\ Inv' /\ [Next]_vars => [Availability!Next]_(Availability!vars)
    <2> SUFFICES ASSUME Inv, Inv', [Next]_vars
                 PROVE  [Availability!Next]_(Availability!vars)
      OBVIOUS
    <2> USE DEF Availability!vars
    <2>1. CASE Next
      <3>1. PICK T, tags, b : Makes(T, tags, b)
        BY <2>1, Steps
      <3>2. /\ tree'.nodes \subseteq T.nodes
            /\ tree'.held = T.held \cap tree'.nodes
            /\ ~forgetful => tree' = T
        BY <3>1, BecomesInv DEF Makes
      <3>3. /\ Genesis \in tree'.nodes
            /\ \A a \in tree'.nodes : Path(a) \subseteq tree'.nodes
            /\ tree'.complete = Availability!Available(tree'.nodes, tree'.held)
        BY DEF Inv, WellFormed, PathsRecorded, CompleteExact, Availability!Available
      <3>4. forgetful' = forgetful
        BY <3>1 DEF Makes, Becomes
      <3>5. Availability!Holds(T.nodes, T.held)
        BY <3>2, <3>3, <3>4 DEF Availability!Holds, Availability!Remains
      <3> QED
        BY <3>1, <3>5
           DEF Makes, Availability!Next, Availability!Learn, Availability!Obtain, Availability!Forget
    <2>2. CASE UNCHANGED vars
      BY <2>2 DEF vars
    <2> QED
      BY <2>1, <2>2
  <1> QED
    BY <1>1, <1>2, Invariance, PTL DEF Spec, ImplementsAvailability, Availability!Spec

=============================================================================
