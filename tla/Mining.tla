------------------------------- MODULE Mining -------------------------------
(***************************************************************************)
(* One mining node (Miner) among others: it tracks the branch every other  *)
(* miner reports, picks the best branch, improves it with a block of its   *)
(* own where that is allowed, brings its ledger in line with it, and       *)
(* publishes its block once the network agrees on the block below.         *)
(*                                                                         *)
(* The network is open: other miners may report any legal header at any    *)
(* time, answer a block search or not, come online and go offline.  The    *)
(* node may crash between, or in the middle of, two steps.                 *)
(***************************************************************************)
EXTENDS BlockTreeSampler

CONSTANTS
  Self,            \* mMinerID
  Remote,          \* the other miners
  NextCharm(_, _), \* getNextCharm: the charm of a miner's block above a block
  Delay,           \* getBlockDelayInSeconds
  MinerHeight,     \* mMinerHeight: where the ledger made this node a miner
  None,            \* a tag without a cursor
  MayCrash,        \* whether the node may crash
  MaxHeight,       \* bound on the height of a block
  MaxTime,         \* bound on the clock
  MaxHeaders       \* bound on the headers of other miners in the tree

ASSUME MiningAssumption ==
  /\ Self \notin Remote /\ IsFiniteSet(Remote)
  /\ Delay \in Nat \ {0}
  /\ MinerHeight \in Nat
  /\ MayCrash \in BOOLEAN
  /\ MaxHeight \in Nat /\ MaxTime \in Nat /\ MaxHeaders \in Nat

Miner == Remote \cup {Self}

Header == [by : Miner, at : Nat, charm : Nat, provisional : BOOLEAN]

Block == Seq(Header)
Genesis == <<>>
Parent(b) == Front(b)
Path(b) == { Ancestor(b, h) : h \in 0..Len(b) }

ASSUME NoneAssumption == None \notin Block

INSTANCE BlockTreeData

VARIABLES
  now,        \* the clock the steps are called with
  tree,       \* mBlockTree
  best,       \* mBestBranchTag
  ledger,     \* the top block of mLedger, and mLedgerTag
  reported,   \* mTag of every remote miner
  persisted,  \* the ledger that saveChain stored last
  served      \* own blocks that have ever been visible to other miners

vars == <<now, tree, best, ledger, reported, persisted, served>>

Provisional(b) == b # <<>> /\ Last(b).provisional
Mine(b) == b # <<>> /\ Last(b).by = Self
NextTime(b) == Time(b) + Delay

TypeOK ==
  /\ now \in 0..MaxTime
  /\ WellFormed(tree)
  /\ best \in tree.nodes
  /\ ledger \in tree.nodes
  /\ persisted \in tree.nodes
  /\ reported \in [Remote -> tree.nodes \cup {None}]
  /\ served \subseteq tree.nodes

Init ==
  /\ now = 0
  /\ tree = GenesisTree
  /\ best = Genesis
  /\ ledger = Genesis
  /\ reported = [r \in Remote |-> None]
  /\ persisted = Genesis
  /\ served = {}

-----------------------------------------------------------------------------
(* The pieces of updateBestBranch. *)

(* trimMissingOrInvalidBranch *)
Trim(b) ==
  LET height == CHOOSE h \in 0..Len(b) :
                  /\ Ancestor(b, h) \notin tree.missing
                  /\ \A i \in (h + 1)..Len(b) : Ancestor(b, i) \in tree.missing
  IN  Ancestor(b, height)

(* How many leaves stand on b or above it. *)
Support(b, leaves) == Cardinality({ i \in DOMAIN leaves : IsAncestor(b, leaves[i]) })

(***************************************************************************)
(* sample: the deepest block that more than half of the leaves share.      *)
(***************************************************************************)
ConsensusRoot(leaves) ==
  LET shared == { b \in UNION { Path(leaves[i]) : i \in DOMAIN leaves } :
                    Support(b, leaves) > Len(leaves) \div 2 }
  IN  CHOOSE b \in shared : \A c \in shared : Len(c) <= Len(b)

(* prepareProvisional, prepareBlock: this node's header above b. *)
OwnBlock(b, provisional) ==
  Append(b, [by |-> Self, at |-> now, charm |-> NextCharm(b, Self), provisional |-> provisional])

(* A block of any age may be rewritten. *)
ReplaceableAnyAge(b, h, consensusHeight) ==
  /\ h >= consensusHeight
  /\ h > MinerHeight
  /\ b[h].by # Self

(* The block at height h of a branch may be rewritten with one of our own. *)
Replaceable(b, h, consensusHeight) ==
  /\ h >= consensusHeight
  /\ h > MinerHeight
  /\ now - b[h].at < Window
  /\ b[h].by # Self

(* Heights to extend from, whatever the block delay. *)
ExtendFromEarly(b, consensusHeight) ==
  { h \in 0..Len(b) :
      /\ \A i \in (h + 1)..Len(b) : Replaceable(b, i, consensusHeight)
      /\ Mine(Ancestor(b, h)) => Ancestor(b, h) \in tree.complete
      /\ h < Len(b) => NextCharm(Ancestor(b, h), Self) < b[h + 1].charm }

(* Heights to extend from, however charming the block that is there. *)
ExtendFromAnyCharm(b, consensusHeight) ==
  { h \in 0..Len(b) :
      /\ \A i \in (h + 1)..Len(b) : Replaceable(b, i, consensusHeight)
      /\ Mine(Ancestor(b, h)) => Ancestor(b, h) \in tree.complete
      /\ NextTime(Ancestor(b, h)) <= now }

(***************************************************************************)
(* The heights improveBranch may extend from: everything above can be      *)
(* replaced, the delay has passed, our block is the more charming one, and *)
(* it would not stand on a block of ours that is still incomplete.         *)
(***************************************************************************)
ExtendFrom(b, consensusHeight) ==
  { h \in 0..Len(b) :
      /\ \A i \in (h + 1)..Len(b) : Replaceable(b, i, consensusHeight)
      /\ Mine(Ancestor(b, h)) => Ancestor(b, h) \in tree.complete
      /\ NextTime(Ancestor(b, h)) <= now
      /\ h < Len(b) => NextCharm(Ancestor(b, h), Self) < b[h + 1].charm }

(* improveBranch: a provisional block at the lowest such height, if any. *)
Improve(b, consensusHeight) ==
  LET heights == ExtendFrom(b, consensusHeight)
      lowest == CHOOSE h \in heights : \A i \in heights : h <= i
  IN  IF RootHeight(ledger, b) < MinerHeight \/ heights = {}
      THEN b
      ELSE OwnBlock(Ancestor(b, lowest), TRUE)

(* One leaf: it is passed over below the consensus height, and otherwise    *)
(* improved and put beside the best so far; the earlier one stays if tied. *)
Challenge(sofar, leaf, consensusHeight) ==
  LET challenger == Improve(leaf, consensusHeight)
  IN  CASE Len(leaf) < consensusHeight -> sofar
        [] Len(leaf) >= consensusHeight /\ sofar = None -> challenger
        [] OTHER -> IF Compare(challenger, sofar) < 0 THEN challenger ELSE sofar

(* The best of the leaves, each improved. *)
ChooseBest(leaves, consensusHeight) ==
  LET chosen[i \in 0..Len(leaves)] ==
        IF i = 0 THEN None ELSE Challenge(chosen[i - 1], leaves[i], consensusHeight)
  IN  chosen[Len(leaves)]

(* A chain composed of whatever headers there are. *)
ComposeChainOfHeaders(T, from, b) == b

(* A chain composed only as far as the last common ancestor. *)
ComposeChainRevertOnly(T, from, b) == Ancestor(b, RootHeight(from, b))

(***************************************************************************)
(* composeChain: the ledger moves to the last common ancestor if it has    *)
(* to, then every complete block of the branch above it is pushed.         *)
(***************************************************************************)
ComposeChain(T, from, b) ==
  LET root == RootHeight(from, b)
      pushed == { h \in (root + 1)..Len(b) : Ancestor(b, h) \in T.complete }
  IN  Ancestor(b, root + Cardinality(pushed))

-----------------------------------------------------------------------------

(* Time passes between steps. *)
Tick ==
  /\ now < MaxTime
  /\ now' = now + 1
  /\ UNCHANGED <<tree, best, ledger, reported, persisted, served>>

(* checkAppend: the header of b may be recorded. *)
AppendOk(b) ==
  \/ b \in tree.nodes
  \/ /\ b # Genesis
     /\ Parent(b) \in tree.nodes
     /\ Last(b).at >= NextTime(Parent(b))

(***************************************************************************)
(* Blocks another miner may report next: one we know, or a new one of its  *)
(* own or of a third miner, above a block of ours it has seen or any block *)
(* we know that is not provisional.                                        *)
(***************************************************************************)
Reports ==
  LET known == { b \in tree.nodes : ~Provisional(b) /\ (Mine(b) => b \in served) }
      fresh == { Append(b, [by |-> m, at |-> t, charm |-> NextCharm(b, m), provisional |-> FALSE]) :
                   b \in { c \in known : Len(c) < MaxHeight }, m \in Remote, t \in 1..now }
  IN  IF Cardinality({ b \in tree.nodes : ~Mine(b) }) <= MaxHeaders THEN known \cup fresh ELSE known

(* processHeaders: a remote miner's headers are recorded and its tag moves. *)
HeaderArrives(r, b) ==
  /\ Time(b) <= now
  /\ AppendOk(b)
  /\ tree' = AffirmHeader(tree, b)
  /\ reported' = [reported EXCEPT ![r] = b]
  /\ UNCHANGED <<now, best, ledger, persisted, served>>

(* The answer to a block search brings the body of a header. *)
BlockArrives(b) ==
  /\ b \in tree.nodes \ tree.held
  /\ ~Provisional(b)
  /\ tree' = StoreBlock(tree, b)
  /\ UNCHANGED <<now, best, ledger, reported, persisted, served>>

(* A block search gives up. *)
SearchFails(b) ==
  /\ b \in tree.nodes \ (tree.held \cup tree.missing)
  /\ ~Provisional(b)
  /\ tree' = SetMissing(tree, b)
  /\ UNCHANGED <<now, best, ledger, reported, persisted, served>>

(***************************************************************************)
(* The orders in which the leaves of the online miners are sampled: the    *)
(* best branch comes first, the others in the order of a set of pointers.  *)
(***************************************************************************)
LeafOrders(online) ==
  { <<Trim(best)>> \o [i \in DOMAIN order |-> Trim(reported[order[i]])] : order \in SetToSeqs(online) }

WithCursor == { r \in Remote : reported[r] # None }

(***************************************************************************)
(* What a step computes before its block is pushed: the consensus root,    *)
(* the best branch, the tree that records it and the ledger that follows.  *)
(***************************************************************************)
Decide(leaves) ==
  LET root == ConsensusRoot(leaves)
      choice == ChooseBest(leaves, Len(root))
      recorded == AffirmHeader(tree, choice)
  IN  [root |-> root, best |-> choice, tree |-> recorded,
       ledger |-> ComposeChain(recorded, ledger, choice)]

(* The best branch ends in our provisional block and it is time to make it. *)
MayPublish(d) ==
  /\ Provisional(d.best)
  /\ Len(d.best) = Len(d.ledger) + 1
  /\ Provisional(d.root) \/ d.root = d.ledger

(* The own block made on top of the ledger, in the tree and in the ledger. *)
Published(d) ==
  LET block == OwnBlock(d.ledger, FALSE)
  IN  [tree |-> AffirmBlock(d.tree, block), ledger |-> block, best |-> block]

(* A choice of best branch that is not entered into the tree. *)
FollowedUnrecorded(d) == [tree |-> tree, ledger |-> d.ledger, best |-> d.best]

(* Nothing to publish: the ledger just follows the best branch. *)
Followed(d) == [tree |-> d.tree, ledger |-> d.ledger, best |-> d.best]

(***************************************************************************)
(* How updateBestBranch may end when it sees the miners online.  A node    *)
(* that sees no contributor and has no transaction may stay lazy.          *)
(***************************************************************************)
Outcomes(online) ==
  LET choices == { Decide(leaves) : leaves \in LeafOrders(online) }
  IN  { Published(d) : d \in { c \in choices : MayPublish(c) } } \cup
      { Followed(d) : d \in { c \in choices : MayPublish(c) => online = {} } }

(***************************************************************************)
(* A step that runs to its end: the chain is saved, and only then does the *)
(* locked ledger that other miners are answered from move on.              *)
(***************************************************************************)
Step(online) ==
  /\ \E o \in Outcomes(online) : tree' = o.tree /\ ledger' = o.ledger /\ best' = o.best
  /\ persisted' = ledger'
  /\ served' = served \cup { b \in Path(ledger') : Mine(b) }
  /\ UNCHANGED <<now, reported>>

(* The step of a miner that shows its block before it is stored anywhere. *)
CrashShown(online) ==
  /\ MayCrash
  /\ \E o \in Outcomes(online) :
       served' = served \cup { b \in Path(o.ledger) : Mine(b) }
  /\ ledger' = persisted
  /\ best' = persisted
  /\ UNCHANGED <<now, tree, reported, persisted>>

(***************************************************************************)
(* A crash and restart (persistLedger), between two steps, or in a step    *)
(* before or after saveChain but ahead of the locked ledger.  The ledger   *)
(* comes back as it was saved and best starts from it; the tree and its    *)
(* tags are in SQLite and keep what the step wrote.                        *)
(***************************************************************************)
Crash(online) ==
  /\ MayCrash
  /\ \/ UNCHANGED <<tree, persisted>>
     \/ \E o \in Outcomes(online) : tree' = o.tree /\ persisted' \in {persisted, o.ledger}
  /\ ledger' = persisted'
  /\ best' = persisted'
  /\ UNCHANGED <<now, reported, served>>

Next ==
  \/ Tick
  \/ \E r \in Remote, b \in Reports : HeaderArrives(r, b)
  \/ \E b \in tree.nodes : BlockArrives(b) \/ SearchFails(b)
  \/ \E online \in SUBSET WithCursor : Step(online) \/ Crash(online)

Spec == Init /\ [][Next]_vars

-----------------------------------------------------------------------------

(***************************************************************************)
(* The ledger, the saved ledger and everything served stand on blocks that *)
(* are available down to the genesis block.                                *)
(***************************************************************************)
LedgerAvailable ==
  {ledger, persisted} \cup served \subseteq tree.complete

(***************************************************************************)
(* Nobody ever sees two blocks of this node above the same block.          *)
(***************************************************************************)
NoEquivocation ==
  \A b, c \in served : Parent(b) = Parent(c) => b = c

(***************************************************************************)
(* Every header in the tree keeps the block delay, our own included: the   *)
(* block made from an old provisional takes the time of the step, and      *)
(* other nodes refuse a block that is TOO_SOON.                            *)
(***************************************************************************)
DelaysKept ==
  \A b \in tree.nodes \ {Genesis} : NextTime(Parent(b)) <= Last(b).at /\ Last(b).at <= now

(***************************************************************************)
(* The sampler finds the deepest block that most leaves share, whatever    *)
(* their order and however often each occurs: it never gets to the end of  *)
(* its loop, where it asserts false, and never stops above or below.       *)
(***************************************************************************)
SampleIsConsensus ==
  LET cursors == {best, ledger, persisted} \cup { reported[r] : r \in WithCursor }
  IN  \A n \in 1..4 : \A leaves \in [1..n -> cursors] : Sample(leaves) = {ConsensusRoot(leaves)}

(***************************************************************************)
(* Replacing the end of a branch by a block of our own pays: the new       *)
(* branch beats the old one, however long a tail it gives up.              *)
(***************************************************************************)
ImprovementIsReal ==
  \A b \in tree.nodes, h \in 0..MaxHeight :
    Improve(b, h) # b => Compare(Improve(b, h), b) = -1

(***************************************************************************)
(* Whatever branch is chosen, its ledger is its longest available part.    *)
(***************************************************************************)
LedgerFollowsBest ==
  [][ (\E online \in SUBSET WithCursor : Step(online)) =>
        /\ IsAncestor(ledger', best')
        /\ \A h \in (Len(ledger') + 1)..Len(best') : Ancestor(best', h) \notin tree'.complete ]_vars

=============================================================================
