------------------------------ MODULE BlockTree ------------------------------
(***************************************************************************)
(* The block tree as a component: one action per operation the node        *)
(* performs on it, in any order the callers may produce.  The node holds   *)
(* mBlockTreeMutex during a step, so operations do not overlap.            *)
(*                                                                         *)
(* A node without a database keeps its tree in memory.  That tree gives    *)
(* the same answers, but it is forgetful: a branch lives as long as a tag  *)
(* stands on it or above it, and loses its headers and bodies with the     *)
(* last one.                                                               *)
(***************************************************************************)
EXTENDS BlockTreeData

CONSTANTS
  Provisional,  \* headers of blocks this node intends to produce
  Tag,          \* names of the tags kept on the tree
  None          \* a tag that has no cursor

ASSUME ProvisionalAssumption ==
  /\ Provisional \subseteq Block \ {Genesis}
  /\ \A b \in Block \ {Genesis} : Parent(b) \notin Provisional
  /\ None \notin Block

VARIABLES
  tree,      \* the rows of the nodes table, or mNodes
  tag,       \* the rows of the tags table, or mTags
  forgetful  \* whether the tree is an InMemoryBlockTree

vars == <<tree, tag, forgetful>>

TypeOK ==
  /\ tree \in TreeType
  /\ tag \in [Tag -> Block \cup {None}]
  /\ forgetful \in BOOLEAN

(* setGenesis: the genesis block is affirmed, complete, and tagged. *)
Init ==
  /\ tree = GenesisTree
  /\ tag \in [Tag -> {Genesis, None}] /\ \E t \in Tag : tag[t] = Genesis
  /\ forgetful \in BOOLEAN

(* The nodes that tags stand on. *)
Tagged(tags) == { tags[t] : t \in Tag } \ {None}

(***************************************************************************)
(* The tree becomes T and the tags become tags; a tree in memory then      *)
(* loses what no tag refers to.                                            *)
(***************************************************************************)
Becomes(T, tags) ==
  /\ tag' = tags
  /\ tree' = IF forgetful THEN KeepPaths(T, Tagged(tags)) ELSE T
  /\ UNCHANGED forgetful

(* A header may be recorded when it, or its parent, already is. *)
CanAffirm(b) == b \in tree.nodes \/ (b # Genesis /\ Parent(b) \in tree.nodes)

(* A header arrives from another node and checkAppend accepts it. *)
HeaderArrives(t, b) ==
  /\ b \notin Provisional
  /\ CanAffirm(b)
  /\ Becomes(AffirmHeader(tree, b), [tag EXCEPT ![t] = b])

(* The node tags a provisional header of its own. *)
ProvisionalTagged(t, b) ==
  /\ b \in Provisional
  /\ CanAffirm(b)
  /\ Becomes(AffirmHeader(tree, b), [tag EXCEPT ![t] = b])

(* A block is pushed on the ledger and affirmed under the ledger tag. *)
BlockPushed(t, b) ==
  /\ b \notin Provisional
  /\ CanAffirm(b)
  /\ Becomes(AffirmBlock(tree, b), [tag EXCEPT ![t] = b])

(* A block body arrives in answer to a block request. *)
BlockArrives(b) ==
  /\ b \notin Provisional
  /\ Becomes(StoreBlock(tree, b), tag)

(* A block search ends without having found the block. *)
SearchFails(b) ==
  /\ b \in tree.nodes \ (tree.held \cup Provisional)
  /\ Becomes(SetMissing(tree, b), tag)

(* A tag is moved to the block another tag or cursor stands on. *)
MoveTag(t, b) ==
  /\ b \in tree.nodes
  /\ Becomes(tree, [tag EXCEPT ![t] = b])

Next ==
  \/ \E t \in Tag, b \in Block :
       \/ HeaderArrives(t, b)
       \/ ProvisionalTagged(t, b)
       \/ BlockPushed(t, b)
       \/ MoveTag(t, b)
  \/ \E b \in Block : BlockArrives(b) \/ SearchFails(b)

Spec == Init /\ [][Next]_vars

-----------------------------------------------------------------------------

(***************************************************************************)
(* A block is COMPLETE exactly when it and every ancestor has its body.    *)
(* composeChain pushes whatever is complete on the ledger, and searches    *)
(* stop at the first complete block: a status that lags hides a usable     *)
(* branch (the "broken branch status" Miner.cpp:149 repairs), one that     *)
(* runs ahead fails an assertion in pushBlock.                             *)
(***************************************************************************)
CompleteIffPathHeld == CompleteExact(tree)

(***************************************************************************)
(* Whatever hangs under a missing block is missing.  trimBranch only pops  *)
(* the missing blocks on top of a branch, so this is what makes the        *)
(* trimmed branch free of missing blocks.                                  *)
(***************************************************************************)
MissingDownClosed == MissingClosed(tree)

(***************************************************************************)
(* A missing block really lacks something: some block on its path has no   *)
(* body.  Otherwise the branch would be trimmed and never searched again.  *)
(***************************************************************************)
MissingHasACause == MissingJustified(tree)

(***************************************************************************)
(* The inductive invariant of the component: the tree is well formed, no   *)
(* provisional header ever gets a body, and tags stand on recorded rows,   *)
(* so a tree in memory never forgets the branch somebody is following.     *)
(***************************************************************************)
Inv ==
  /\ TypeOK
  /\ WellFormed(tree)
  /\ tree.held \cap Provisional = {}
  /\ Tagged(tag) \subseteq tree.nodes
  /\ Tagged(tag) # {}

(***************************************************************************)
(* Read through its three sets, the tree is a store that always knows      *)
(* which branches are available in full, and forgets none if it has a      *)
(* database.                                                               *)
(***************************************************************************)
Availability ==
  INSTANCE BranchAvailability
    WITH headers <- tree.nodes, bodies <- tree.held, ready <- tree.complete,
         forgets <- forgetful

ImplementsAvailability == Availability!Spec

=============================================================================
