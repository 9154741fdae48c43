--------------------------- MODULE BlockTreeData ---------------------------
(***************************************************************************)
(* The block tree of a mining node (AbstractBlockTree, kept in a database  *)
(* by SQLiteBlockTree or in memory by InMemoryBlockTree) as a value, and   *)
(* the operations that change it.  A tree is a record of sets of blocks:   *)
(*                                                                         *)
(*   nodes     blocks whose header has a row in the tree                   *)
(*   held      searchStatus '#': the block body is stored                  *)
(*   complete  branchStatus 'C'                                            *)
(*   missing   branchStatus '?'                                            *)
(*                                                                         *)
(* A node in neither complete nor missing has branchStatus 'N'.  'X'       *)
(* (invalid) is declared by the code but no caller ever sets it.           *)
(*                                                                         *)
(* Blocks are related by Parent; Path(b) is the set of blocks that         *)
(* following getParent from b visits, b and Genesis included.              *)
(***************************************************************************)
EXTENDS Naturals, FiniteSets

CONSTANTS
  Block,       \* every block that can ever exist, identified by its digest
  Genesis,     \* the block of height 0
  Parent(_),   \* getParent: the block named by prevDigest
  Path(_)      \* a block and its ancestors

(***************************************************************************)
(* Blocks form a tree rooted at Genesis: a digest covers prevDigest, so a  *)
(* block has one parent and no cycle can be built.                         *)
(***************************************************************************)
ASSUME TreeAssumption ==
  /\ Genesis \in Block
  /\ Path(Genesis) = {Genesis}
  /\ \A b \in Block : b \in Path(b) /\ Genesis \in Path(b) /\ Path(b) \subseteq Block
  /\ \A b \in Block \ {Genesis} :
       /\ Parent(b) \in Block
       /\ b \notin Path(Parent(b))
       /\ Path(b) = Path(Parent(b)) \cup {b}
  /\ \A a, b \in Block : a \in Path(b) => Path(a) \subseteq Path(b)
  /\ \A a, b, c \in Block :
       a \in Path(c) /\ b \in Path(c) => a \in Path(b) \/ b \in Path(a)

TreeType ==
  [nodes : SUBSET Block, held : SUBSET Block,
   complete : SUBSET Block, missing : SUBSET Block]

(* The tree of a node that has just recorded its genesis block. *)
GenesisTree ==
  [nodes |-> {Genesis}, held |-> {Genesis},
   complete |-> {Genesis}, missing |-> {}]

(* A visit that forgets to queue the children of the row it updates. *)
ReachedWithoutChildren(T, b, updated) == {b} \cap updated

(***************************************************************************)
(* The rows setBranchStatus visits: it starts at b and queues the children *)
(* of every row it updates, so it reaches a descendant d exactly when      *)
(* every block from b down to d is one of those it updates.                *)
(***************************************************************************)
Reached(T, b, updated) ==
  { d \in T.nodes : b \in Path(d) /\ \A a \in Path(d) : b \in Path(a) => a \in updated }

(* The tree T with the statuses of some rows changed. *)
WithStatus(T, complete, missing) ==
  [nodes |-> T.nodes, held |-> T.held, complete |-> complete, missing |-> missing]

(* A completion that does not ask whether the parent is complete. *)
SetCompleteUnguarded(T, b) ==
  LET done == Reached(T, b, T.held \ T.complete)
  IN  WithStatus(T, T.complete \cup done, T.missing \ done)

(* A completion that leaves the missing status of what it completes. *)
SetCompleteStillMissing(T, b) ==
  LET done == Reached(T, b, T.held \ T.complete)
  IN  IF b # Genesis /\ Parent(b) \in T.nodes /\ Parent(b) \notin T.complete
      THEN T
      ELSE WithStatus(T, T.complete \cup done, T.missing)

(***************************************************************************)
(* setBranchStatus ( b, COMPLETE ): refused while the parent row is not    *)
(* complete; a row without its block is skipped together with everything   *)
(* below it.                                                               *)
(***************************************************************************)
SetComplete(T, b) ==
  LET done == Reached(T, b, T.held \ T.complete)
  IN  IF b # Genesis /\ Parent(b) \in T.nodes /\ Parent(b) \notin T.complete
      THEN T
      ELSE WithStatus(T, T.complete \cup done, T.missing \ done)

(* setBranchStatus ( MISSING ): rows already missing stop the descent. *)
SetMissing(T, b) ==
  LET lost == Reached(T, b, T.nodes \ T.missing)
  IN  WithStatus(T, T.complete \ lost, T.missing \cup lost)

(* An INSERT that starts every new header as NEW. *)
InsertHeaderAsNew(T, b) ==
  [nodes |-> T.nodes \cup {b}, held |-> T.held,
   complete |-> T.complete, missing |-> T.missing]

(* b itself if its parent is in S: the status a new row inherits. *)
Inherits(b, S) == IF Parent(b) \in S THEN {b} ELSE {}

(***************************************************************************)
(* INSERT of a header that has no block yet: the row inherits the branch   *)
(* status of its parent, except that COMPLETE is not inherited.            *)
(***************************************************************************)
InsertHeader(T, b) ==
  [nodes |-> T.nodes \cup {b}, held |-> T.held,
   complete |-> T.complete, missing |-> T.missing \cup Inherits(b, T.missing)]

(* INSERT of a header together with its block: the parent's status as it is. *)
InsertBlock(T, b) ==
  [nodes |-> T.nodes \cup {b}, held |-> T.held \cup {b},
   complete |-> T.complete \cup Inherits(b, T.complete),
   missing |-> T.missing \cup Inherits(b, T.missing)]

(* The tree T once the body of b is stored, statuses as they were. *)
WithBody(T, b) ==
  [nodes |-> T.nodes, held |-> T.held \cup {b},
   complete |-> T.complete, missing |-> T.missing]

(* update ( block ): stores the body of a known header, then completes it. *)
StoreBlock(T, b) ==
  IF b \in T.nodes THEN SetComplete(WithBody(T, b), b) ELSE T

(* affirm with no block: a known header is left as it is. *)
AffirmHeader(T, b) ==
  IF b \in T.nodes THEN T ELSE InsertHeader(T, b)

(* affirm with a block: a known header gets its body unless it has one. *)
AffirmBlock(T, b) ==
  IF b \notin T.nodes THEN InsertBlock(T, b)
  ELSE IF b \notin T.held THEN StoreBlock(T, b) ELSE T

(* A tree that lets go of a node although a child still needs it. *)
KeepTagged(T, S) ==
  [nodes |-> T.nodes \cap S, held |-> T.held \cap S,
   complete |-> T.complete \cap S, missing |-> T.missing \cap S]

(***************************************************************************)
(* What is left of a tree of shared pointers when only the nodes S are     *)
(* pointed to: a node points to its parent, so the paths to S are kept.    *)
(***************************************************************************)
KeepPaths(T, S) ==
  LET kept == UNION { Path(b) : b \in S }
  IN  [nodes |-> T.nodes \cap kept, held |-> T.held \cap kept,
       complete |-> T.complete \cap kept, missing |-> T.missing \cap kept]

-----------------------------------------------------------------------------
(* What every operation keeps true of a tree. *)

(* No row hangs in the air: every ancestor of a node is a node. *)
PathsRecorded(T) == \A b \in T.nodes : Path(b) \subseteq T.nodes

(* COMPLETE means exactly that the block and all its ancestors have bodies. *)
CompleteExact(T) == T.complete = { b \in T.nodes : Path(b) \subseteq T.held }

(* Whatever hangs under a missing block is missing. *)
MissingClosed(T) ==
  \A b \in T.nodes \ {Genesis} : Parent(b) \in T.missing => b \in T.missing

(* A missing block lacks a body, its own or that of an ancestor. *)
MissingJustified(T) == \A b \in T.missing : ~ (Path(b) \subseteq T.held)

WellFormed(T) ==
  /\ T \in TreeType
  /\ Genesis \in T.complete
  /\ T.held \subseteq T.nodes
  /\ T.missing \subseteq T.nodes
  /\ PathsRecorded(T)
  /\ CompleteExact(T)
  /\ MissingClosed(T)
  /\ MissingJustified(T)

=============================================================================
