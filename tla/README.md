# A verification project for the Volition mining node

The repository is a blockchain mining node in C++. This directory holds TLA+
models of what a node does, the TLC configurations that check them and the TLAPS
proofs of what matters most about them. Paths without a directory are under
`src/volition/`.

## The system

A node (`Miner`) runs one loop, `Miner::step`, once per tick of its activity
thread. A step receives what the messenger collected from other nodes, updates
remote miners, block searches and network searches, chooses the best branch of
its block tree, moves its ledger there, perhaps makes a block, saves the ledger,
refreshes what other threads may read and sends requests. HTTP handlers run on
other threads; locks make each of them exclude a step, or read a copy.

| Part | State | Operations | Talks to |
| --- | --- | --- | --- |
| `AbstractBlockTree`, `SQLiteBlockTree`, `InMemoryBlockTree` | rows of headers with a search status and a branch status; tags | affirm header, provisional or block; update with a body; set branch status; tag; forget (in memory) | called by all below |
| `BlockTreeCursor`, `HasBlockHeaderFields` | none | compare, find the fork, trim, charm, rewrite window | read the tree |
| `BlockTreeSampler` | the leaves and layers of one step | sample: what most leaves share | `Miner` |
| `Miner` | ledger, ledger tag, best tag, remote miners, release, locked ledger | step and its parts; restart; reset | everything |
| `RemoteMiner` | state, tag, height | update, receive response | messenger, tree |
| `BlockSearchPool` | pending and active searches | affirm, update, step, erase | messenger, tree |
| `HTTPMiningMessenger` | request queues, active counts, responses | send, pump, complete | thread pool, `Miner` |
| `TransactionQueue`, `TransactionMakerQueue` | per maker: queue, lookup, status | push, prune, fill a block, status | `Miner`, HTTP handler |
| `Block`, `BlockHeader` | header fields and body | apply, verify | `Ledger` |
| `Ledger`, `Ledger_Inventory`, `transactions/` | accounts, pools, assets, offers, inventory log | apply a block, apply a transaction | store |
| `MinerActivity`, locks, web API | mutexes, snapshot | run, shut down, handle a request | `Miner` |

What is hard in it: headers and bodies arrive in any order or never; the branch
chosen as best may lack its blocks; another miner may leave its branch between two
answers; the ledger is moved to it all the same and
moved back when the search fails; our own header is declared before the block
can be made; answers come late, or to a node that restarted; tree, ledger and
served copy are stored separately and a crash falls between them; transactions
wait while the ledger grows and shrinks under them; one transfer changes two
inventories, an offer and two logs. `PROJECT.json` lists each hazard at its line,
with the properties that cover it or the reason why none does.

What makes each part correct:

- *tree*: a block is COMPLETE exactly when everything below it is there; missing
  spreads upwards and only upwards; a tree that forgets never forgets what a tag
  or a search stands on;
- *order*: antisymmetric, decides between different miners, makes old blocks
  expensive to rewrite, and a leader keeps its lead by growing;
- *step*: ledger and served blocks are available; blocks keep their delay; an own
  block replaces only what it beats; the ledger follows the best branch; the
  sample is the consensus;
- *remote miners, searches, messenger*: nobody waits for an answer that cannot come;
  searches and requests agree; nothing is given up that could have been asked for;
  headers are only read above known ones; the node catches up;
- *transactions*: blocks replay on any node; nothing leaves a queue without a
  reason; nothing waits for ever;
- *ledger*: VOL is conserved, inventories list what is owned, offers are backed and
  listed, the log tells a client everything.

## Modules

| Module | What it is |
| --- | --- |
| `BranchAvailability` | abstract: a store that knows which blocks are available with all their ancestors, and may drop what nothing stands on |
| `BlockTreeData` | the tree as a value, its operations as operators, its well-formedness |
| `BlockTree` | the tree as a component: one action per operation; shown to implement `BranchAvailability` |
| `BranchOrder`, `BranchRace` | branches as sequences of headers, and `compare`; two branches growing in any order |
| `BlockTreeSampler` | the pass of `sample` over the layers of the tree |
| `Mining` | one node among others: the step, answers of the network, crashes. Composes the sampler, the order and `BlockTreeData` |
| `MiningMessenger`, `BlockSearchPool`, `RemoteMiner` | request queues and threads; block searches; one remote miner, as values with operators |
| `Sync` | the first half of a step, composed of the three above and `BlockTreeData`, with the other miners' answers, failures and restarts |
| `TransactionQueue` | the queues, `fillBlock` and the ledger they are mined into |
| `Inventory`, `Treasury` | assets, offers and the inventory log; balances, pools, fees and rewards, as values with operators |
| `Ledger` | blocks and their transactions, composed of the two above |
| `MC*` | the instances for TLC |
| `*_proofs` | see Proofs |

### The block tree

`tree` is a record of four sets of blocks. A row is in `nodes`; `held` is search
status `#`, `complete` and `missing` are branch statuses `C` and `?`, and a row in
neither is `N`. Status `X` (invalid) exists in the code but is never set. The work
list of `setBranchStatus` is modelled by the rows it reaches: it queues the children
of what it updates, so it gets to a descendant when every row in between was updated.
`affirm` with a header lets the new row inherit NEW or MISSING but not COMPLETE, with
a block whatever the parent has. `update` stores a body and then completes.
Operations do not overlap: the tree mutex is held for a step.

The tree in memory has the same operations. A node there lives as long as a tag,
a cursor or a child refers to it; `KeepPaths` is what is left when a tag moves or
is dropped. The tree in SQLite forgets nothing. The component is one or the other
(`forgetful`, fixed at the start), so what is checked and proved holds of both trees.

`SearchFails` here may hit any row without a body, which is more than the search
pool does; `MoveTag` stands for all the ways a tag is copied.

### The order

A block *is* the sequence of headers that leads to it, because its digest covers
`prevDigest`; so ancestors are prefixes and the root of two branches is their longest
common prefix. A header keeps its miner, time, charm and whether it is provisional.
The charm is a hash in the code; the models replace it by a small number, with an
operator parameter `NextCharm` for what a miner draws above a block. The rewrite
window and the block delay are the same in all headers.

### The step

`Mining` has a clock, the tree, the best tag, the ledger (its top block), the tags of
remote miners, the saved ledger and the set of own blocks ever visible to others.

- `HeaderArrives`, `BlockArrives`, `SearchFails` are what the messenger brings. Other
  miners are open: they may report any block we know that is not provisional (and, of
  ours, only what was served), or any legal new one, whose time is not in the future.
- `Step(online)` is `Miner::step` from `updateBestBranch` to `updateMinerStatus`:
  trim the leaves, sample, improve each leaf that reaches the consensus height, keep
  the best, record it, `composeChain`, and make the block if it is ours and the
  consensus root is the ledger. It then saves and shows the ledger. `online` is any
  set of remote miners with a tag.
- The leaves come from a `set` of shared pointers: the model takes every order, with
  the own best branch first as in the code. `compare` is not transitive, so orders
  do differ.
- The step uses `ConsensusRoot`, what `sample` is for. `BlockTreeSampler` has what it
  does, layer by layer from the highest leaf, with equal parents merged; in every
  state `SampleIsConsensus` compares the two, and `SamplesAreConsensus` proves them equal.
  A node's leaves are places in the sampler's list, as `mLeaves` is spliced and not counted.
- `Crash(online)` is a crash and restart (`persistLedger`): between steps, or in one,
  before or after `saveChain` but ahead of the locked ledger. The tree and its tags
  are on disk and keep what the step wrote; ledger and best tag come back from the
  saved ledger.

Left out: the mute flag and a node that is not a miner (the step then only follows);
a change of the miner height; `updateRelease`; broken branches in `composeChain`
(that repair is unreachable, by `StatusesNeverBreak`); persisting only every n-th
block, which is off by default.

### Learning other miners' chains

`Sync` is `Miner::step` up to the choice of the best branch, for which it takes any
order `Rank`; what the choice does is the subject of `Mining`. Miners are named by
their addresses, where the code has a second name, the miner ID, for the same.

- `Step` takes in all responses one after the other (`Receive`), updates the remote
  miners (`Updated`: ask for info, ask for headers), affirms searches for branches
  with missing blocks and for the best branch, activates and steps searches, polls a
  random miner for more miners, chooses a best branch and sends the requests.
- The tags are rows of the tree; a remote miner has a state, a height, and whether it
  has named itself and attached.
- Headers are read one by one (`ProcessHeader`): one that connects moves tag and height,
  one of another genesis is an error, one that is refused ends the batch. A header whose
  parent the tree lacks ends the *process*: `checkAppend` reads the parent's release
  (`AbstractBlockTree.cpp:103`) before it asks whether there is a parent (`:105`), and
  `getHeader` asserts it (`BlockTreeCursor.cpp:80`). `MISSING_PARENT` is thus never
  returned, and the rewind of `RemoteMiner.cpp:246-254` is dead code, which the model
  leaves out. `Abort` is such a step: answers and headers before that one are in the
  tree, `up` is FALSE, and what is not on disk is gone; `StartAgain` may follow.
- `Refused` are blocks whose release or time does not fit their parent's. That a header
  may be of a release the node does not accept yet is part of the release rollout.
- A search knows whom it asked, who did not have the block, and how often it started
  again; which miners of a sample it asks is any choice.
- `MiningMessenger` has the queue of pending requests per kind, their share of the
  threads, and threads that have ended a request but are not idle yet (`leaving`).
  The code pumps a queue when a request is added or completes, and then counts such a
  thread as busy. `Finish` is one end of a request: `enqueueResponse` and
  `completeRequest`, between which nothing reads what they write.
- Other miners are on a branch, which they extend (`Grow`), or on another network, of
  which only the genesis block is ever asked for. They may leave their branch (`Reorg`,
  remembered in `moved`), fail, and answer in any order. `Fail` is an error, a timeout,
  or a batch that is not read to its end, because headers in it are missing or from the
  future (`Cut`). After `Restart` the node has its tree and tags, and the addresses it
  saved, unless the crash left that file unreadable.
- A block request is answered with that block or with none. This is assumed of other
  miners: `Miner.cpp:1171-1175` stores whatever block came, under its own digest, and
  tells the search of the hash that was asked for.
- `Late = FALSE` leaves out steps that meet a `leaving` thread. A step sleeps at least
  a millisecond (`MinerActivity.cpp:57-63`), by which time a thread with nothing left
  to do is idle. The safety run does without it; liveness needs it, because a request
  that found no idle thread waits in its queue until another is sent.

### The transaction queue

One record per maker: `queue` in the order of its keys, `lookup` (the uuids that
`getTransactionStatus` finds), the status and the transaction blamed for it.
`FillBlock` is the set of outcomes of `fillBlock`: prune, then passes over the makers
in the order of their names until none asks for more; a transaction may fail for
reasons outside the model, so every `apply` may fail. The ledger is the sequence of
non-empty blocks; it grows by this node's and other nodes' blocks and shrinks by
`Revert`. The erasure of a queue without an account inside `fillBlock` cannot happen,
since the prune has emptied it before.

### The ledger

Each transaction that succeeds is one action, between `BeginBlock` (which lets offers
expire) and `EndBlock` (which rewards the miner). One that fails makes its block fail,
and the ledger is what it was. Blocks are of a release above 1, where `expireOffers2`
runs and a gratuity reaches its miner.

- `Inventory` follows `Ledger_Inventory.cpp` field by field: asset to owner, position
  and offer; inventory fields and their count per account, with what is left in
  fields above the count; offers, the list of open ones; the inventory log, as the
  union of the entries since its client last read it. Counts wrap at `Width`.
- A list of assets is what the code takes: nothing refuses one that names an asset
  twice. A transfer is a recursive function over the list, a move at a time.
- `RunScript` is a method that makes one call of the library (award, revoke, set a
  field, award VOL), whoever owns the asset. `ResetInventories` is
  `PublishSchemaAndReset` with a deck. Fees are any of a small set, where the code
  derives them from a price by the fee profile.
- `Treasury` has balances, the reward, prize and payout pools, the block's fees, and
  the ledger's own total: reward and its tax, payout by shares with the remainder to
  the pool, grants, gratuities and profit shares. `Ledger.cpp:156` writes the prize
  pool's field into the reward pool, and so does `CreateVOL`.

Ghosts: `known` is what a client would have built from the log, `View` what it should
see, `total` of `Treasury` also stands in the code.

## Runs

All runs take their values from the `.cfg`. `CHECK_DEADLOCK FALSE` is set where a
bound (height, time, transactions) stops the model; the tree and `Sync` run without it.

| Run | Shows | Bounds | States |
| --- | --- | --- | --- |
| `block_tree` | `Inv`, exact COMPLETE, missing spreads and has a cause, refinement | six blocks: a fork, a branch of three, a provisional; tags for best and ledger | 12 057 |
| `branch_race` | antisymmetric, ties, cost of rewriting, a leader that grows still leads | three miners, three blocks a side, times to 5, window 2 | 141 376 |
| `mining` | type, availability, delays, improvement, ledger follows best | two other miners, two blocks of height, two seconds, two foreign headers, window 1 | 127 333 |
| `mining_crash` | availability, improvement and sample with crashes | one other miner, window 2 | 34 037 |
| `mining_equivocation` | *violation*: two own blocks served above one block | one other miner, no crash | |
| `sync` | type, nobody waits in vain, searches match requests, only a reorg aborts, reasons to give up | three addresses (one our own), one thread, six blocks, late threads, one fault | 361 356 |
| `sync_live` | while it stays up: catches up, best branch becomes complete | one other miner, seven blocks, threads to spare, lookahead 1, one fault | 80 330 |
| `sync_abort` | *violation*: the assertion that a cursor has a header | one other miner, one fault | |
| `transaction_queue` | type, blocks replay, reasons to leave, nothing waits for ever | two accounts, a makerless queue, a stranger; three submissions; one revert or reset | |
| `transaction_queue_pending` | *violation*: PENDING means in queue | ann's three transactions | |
| `transaction_queue_order` | *violation*: only gaps are out of order | ann's three transactions | |
| `ledger` | type, books stay sound, log tells everything, open offers listed, VOL conserved | two accounts, two assets, four transactions in two blocks, room for one and for two assets | 219 922 |

Why the bounds are enough to mean something. In the tree, a fork with a branch of
three on it is the smallest where a status spreads to two children, stops at a row
without a body and resumes below; with two tags, a path is forgotten up to where the
other tag stands. In the race, three blocks a side with a window of 2 give defeat
counts of one to three and charm cycles. In `mining`, two foreign headers on two
heights suffice for a competing branch, a branch built on ours, a failed search, a
reverted own block and a majority against us; `MCMining` turns the charms with the
height so that nobody always wins. With window 1 blocks age out of it within the run;
with window 2 a tail of two is replaceable. `MCView` hides a row of a provisional
header that is not the best branch, when its time has passed or when it stands on a
complete block and is not missing: no later step tells such states apart.

In `sync`, a branch of three and one of two make a reorg whose fork is below the height
the node asks from, which aborts it, or still above, which does not; batches of two
headers make a branch take two requests; a refused block ends a batch; a block that its
miner no longer has is a search that ends in vain; one thread makes requests queue, and
the own address is a miner that is dropped while asked. In the live run, `d` takes the
place of `c`, so that a reorg by one block is one the node follows; chains grow from two
blocks to three, so a node that caught up falls behind again; and a lookahead of 1 stops
headers ahead of the ledger.

In the queue, ann has two transactions for one nonce and one for the next, bob one
that fills a block alone, one has no maker (it makes `fillBlock` go round again) and
eve has no account; three submissions let a replacement meet an earlier and a later
transaction. In the ledger, two assets are an inventory with a tail to fill a gap
from, four transactions are enough to award, offer, sell and take back; one account
has no room for both assets, so a sale that is paid for and not carried out occurs.
The run is constrained to sound books: what follows a use that breaks them (next
section) is not explored.

Fairness. `TransactionQueue`: weak fairness of `Mine`, as the step runs for ever on its
own thread, and a node with transactions is never lazy. `Sync`: weak fairness of
`Step \/ Abort` (a step is taken, whatever it reads), of threads becoming idle, and of
`Finish` of every request, as each has a timeout and `Fail` is bounded. Nothing else is
fair: submissions, foreign blocks, reverts, reorgs, growing chains, and starting a node
that has aborted. `CaughtUp` and `BestBecomesComplete` are therefore stated for
behaviours in which the node stays up in the end (`<>[]up`); in the others it is down or
aborts again and again, and `sync_abort` shows that they exist.
`NothingWaitsForever` leaves out a queue blocked over a gratuity, which stays by design
until its owner resubmits.

## What the runs say of the code

- `sync_abort`. Another miner that leaves its branch at a fork below the height the node
  asks from sends a header without a known parent, and the node aborts: it knows
  `g a b c`, the other moves to `g x y`, and the headers from height 3 are `y` alone. The
  tag is in SQLite, so the restarted node asks from the same height. `AbortsOnlyOnReorg`
  says that nothing else leads there.
- `mining_equivocation`. The node reverts its served block for a better branch whose
  bodies it does not have; when the search fails, it mines the height again. The guard
  at `Miner.cpp:283` sees only the branch being improved. By `TiesAreEquivocations`
  such pairs are the only branches that `compare` cannot decide.
  (The comment at `BlockTreeCursor.cpp:16` describes another tie rule than `compare`'s:
  an even score goes to the block right above the fork, not to the best ending block.)
- `transaction_queue_pending`. `mLookup` keeps replaced and rejected transactions.
- `transaction_queue_order`. Two transactions in order, without a gap, are cleared.
- `BooksStaySound` names what it excepts: a list that names an asset twice, and an
  asset revoked or an inventory reset while assets are on offer. The code refuses
  neither.
- `VOLIsConserved` excepts grants (the reward pool is overwritten and the fees of the
  grant are taken twice) and a stamp of several assets by an account that has the price
  and then lacks the fees. No test or document says otherwise of either, so these are
  exceptions of a property and not findings.

## Proofs

`tlapm` checks every proof; nothing is assumed but the named `ASSUME`s.

*Block tree* (`BlockTreeData_proofs`, `BlockTree_proofs`). From `TreeAssumption` (blocks
form a tree under the genesis block, and `Path` is the set of ancestors) and
`ProvisionalAssumption` (nothing stands on a provisional header, which has no body).
`Inv` is inductive: recorded paths, exact COMPLETE, downward closed and justified
MISSING. Exactness alone is not inductive, because completing `b` reaches its
descendants only through recorded rows. Each operation, forgetting included, gets a
lemma that it preserves `WellFormed`; theorems `Invariance`, `StatusesNeverBreak`,
`MissingSpreads`, `MissingIsCaused`, and `Refinement` to `BranchAvailability`.

*Order* (`BranchOrder_proofs`, `BranchRace_proofs`). `CompareAntisymmetric`: the fork
exists (a bounded non-empty set of heights has a greatest element), is the same from
both sides, and each case of `compare` mirrors. Lifted to `Spec` with the invariant
`IInv`, branches of legal headers and *every charm is its miner's at that height*; the
second part is what makes `TiesAreEquivocations` go through. `RewritesAlwaysCostBlocks`
rests on one fact of integer division, `SpansWindows`. `LeadsAlwaysGrow` is an action
property: a block on the longer branch leaves the fork and the scored stretch where they
were (`ForkStays`), and its defeat count can only grow with its time (`WindowsGrow`), so
either test that decided for it does so again (`ForkLeadGrows`).

*Steps* (`Mining_proofs`). From the assumptions on constants and
`CharmsDrawn` (a charm is a number). The invariant is `TypeOK`, `LedgerAvailable` and
`DelaysKept` together: the type invariant says that the tree holds whatever the node
refers to and is `WellFormed`, which the lemmas on the tree's operations need and
keep. On the way: `ChooseBest` is a recursive function, and that there is one that
follows its recursion is shown by a least counterexample over its prefixes; it returns
a branch and never `None`, as the assertion at `Miner.cpp:870` says, because the own
best branch reaches the consensus height; the blocks that `ComposeChain` pushes form
an interval, so that counting them ends at an available block. `ImprovementAlwaysPays`:
the lowest height to extend from has everything above it inside the rewrite window, so
the branch's defeat count there is one, the new branch is long enough by its single
block, and that block wins the only height that is scored.

*The sampler* (also `Mining_proofs`). `SampleFinds`: for every non-empty sequence of
leaves, `sample` returns the deepest block that more than half of them share, hence
`SamplesAreConsensus`. `Searching(s, leaves, h, i)` is what holds in the middle of the
loop at height `h`, when `i` nodes have been visited: every leaf is in one node, every
root is where its leaves are at that height (`Lowered`), nothing shared is above `h`, and
a visited node that was at `h` has all the leaves above its old root, too few of them
(`Gathered`). `Gathered` is the strengthening: a leaf that had been left in an earlier
node would be missing from the count of a later one. Two shared blocks of the same height
have a leaf in common, so there is one deepest.

*Inventories and offers* (`Ledger_proofs`). `Sound` is types, exact
inventories, unsold offers backed by their sellers, nothing owned before it is made,
and `OfferedTogether`: an asset that names an offer is in it with all that the offer
names. The last two are the strengthening: without `OfferedTogether` cancelling an offer
could free an asset of another. Exactness needs the pigeonhole principle (`PlacesTaken`:
`n` assets at distinct places below `n` take all of them), so that the tail that fills a
gap is an asset of the same owner. A transfer is a recursive function; its rounds exist
(`TransferRounds`) and each keeps what it has to (`Transferred`) by least
counterexamples, as is the list made by `expireOffers2` (`ExpiredFields`). Then one
lemma per operation, one step per transaction in `StepSound`, and

- `BooksAlwaysStaySound`: the property of the run, for any number of everything;
- `SoundHistories`: without the two uses above, books are sound from the start;
- `OpenOffersStayListed`: for every history, whether or not books are sound, since
  what happens to offers does not depend on who owns what (`KeepsOffers`);
- `LogAlwaysTells`: `LogTellsInventory` in histories without the two uses.  The invariant
  (`ClientsTold`) splits what a client will know into what it keeps and what it will be
  told (`Told`); every operation writes an entry for both the account an asset leaves and
  the one that gets it (`Announced`), and such entries add up (`TellsTransitively`).  It
  needs that what is on offer is still with its seller or with nobody, also after a sale
  to a buyer without room (`OfferedBySeller`), since only the seller is told of its end.

*VOL* (also `Ledger_proofs`). `VOLStaysConserved` speaks of every history, whether or not
its inventories are sound, so its invariant (`Accounted`) takes nothing from `Sound`: what
is on offer stays listed (`Posted`), owners are accounts or nobody and open offers exist
(`Regular`), and the books have their types with the profit share of a block a part of its
gratuities (`Fair`). The last is what lets a block be closed without taking more than was
paid. Every operation then leaves `Excess`, what is held minus what the ledger counts, as
it was. Sums over accounts are folds over a finite set; `SumUpdated` says what one changed
balance does to them, and the rest is arithmetic. `TypesInSoundHistories` has `TypeOK` of
the ledger for histories without the two uses above only: after them an inventory's count
may wrap around, as it does in the code.

*The transaction queue* (`TransactionQueue_proofs`). From `QueueAssumption`: makers are
listed once each, and transactions have a maker, a nonce and a positive weight. `IInv` is
sound queues (own makers, increasing nonces, blamed if and only if blocked, empty once
rejected) and a ledger that replays when its blocks are joined, none too heavy. `FillBlock`
is nested recursion over makers and their transactions; `Fillings(qs, all)` is what all
partial fillings have in common, and each loop stays in it, by `IterationExists` (a
recursion whose steps stay in a set has a solution that stays in it). A foreign block
enters under the guard with which other nodes accept it (`Verifies`).
`TransactionsLeaveForAReason` follows transactions through prune, the passes and the push
of another one with the same nonce.

*Learning other miners' chains* (`Sync_proofs`). `Left` counts, for every request, the
copies queued, carried out, or answered and not yet read. The invariant `Sound` is a node
whose parts fit each other (`Nodes`), a messenger of its kind (`Messengers`), answers that
can come (`Plausible`), and `Consistent(Left, Before)`:

- `Awaited`: whoever waits has a request left;
- `Matching`: a search holds for asked exactly those who have one copy of a request left,
  and a request outlives its search only if the body is there. `SearchesMatchRequests`
  alone is not inductive: a search that ends and starts again would find answers to
  requests it does not know of, were it not that only a stored block ends it early;
- `Reaching`: requests go to known miners, and an own address is asked for its info only.

A step takes in its answers one by one (`ReceiveKeeps` for one, `ReceivedKeeps` for all,
in terms of the answers still unread), then steps searches (`SearchesGoOn`) and sends what
it asked for (`SendRequestsAdds`: each request one copy more); `Finish` turns a copy
carried out into an answer and pumps the queue (`CompleteRequestTakes`: the count stays).
`NobodyIsForgotten`, `SearchesAgree`, `TypeCorrect` and the action property
`BlocksGivenUpForAReason` follow.

`AbortsOnlyForAReason` adds the invariant `OnTrack`, about every miner that has not left
its branch (`Steady`). Its tag is on its chain, and each height it is asked from is that
of a block of the chain the tree has (`OnChain`, `Reaches`); the headers on hand are a
stretch of the chain that starts with a known one (`Expected`, `Joined`). So one read late
or twice starts with a known header too, one cut short still does, and reading leaves the
height at a block of the chain (`HeadersAnsweredJoined`). Growth keeps all of it, because
a chain that grows keeps its past.

Only model-checked is liveness: `CaughtUp`, `BestBecomesComplete` and
`NothingWaitsForever`. That recursive definitions exist and keep an invariant is shown for
each one by least counterexamples over bounded prefixes; there is no general induction to
cite.

## Not modelled, and why

- *Accounts and keys, miner records, contact and policy changes, entitlements, entropy*:
  each sets fields that no other operation counts on. Fee profiles, reward scripts
  (`invokeReward`) and the schema: data for sequential interpretation.
- *Unfinished blocks*: every transaction of the repository has maturity 0, so there are none.
- *The rewind of a remote miner*: unreachable, see above.
- *A block that is not the one asked for*: answers to block requests are honest.
- *`expireOffers` of releases 0 and 1*, which `expireOffers2` replaced.
- *Unsigned overflow of VOL*: amounts are bounded by what there is.
- *A well-formed answer without the field it was asked for*
  (`HTTPMiningMessenger.cpp:300`): answers have their fields or are errors.
- *The release rollout and the change of the miner height*: they gate which headers and
  fields are legal, which here is given.
- *Locks and shutdown* (`MinerActivity`): the exclusion they give is assumed.
- *A network of several modelled nodes*: other miners are open in `Mining` and `Sync`,
  which covers what any of them may send, but not what they converge to.
- *The in-memory cursor cache, SQL transactions, Lua and the asset library,
  serialization, crypto, file system, the simulator*: data handling, libraries or a test
  bed. The versioned store under the ledger (padamose) is a submodule that is not in
  the repository.

Most lines of the repository are vendored, above all Lua, or the simulator's, so the share of lines
that the models map stays low however much of the node is covered.

## Plan

Done: the tree (both), the order, the sampler, the step, learning of chains, the
transaction queue, inventories and VOL. What would add most next, in this order:

1. Two modelled nodes that exchange their chains: convergence, and the end of the wait of
   a node that cannot publish because the consensus root is not its ledger.
2. The release rollout; miner registration and a miner height that changes.
3. `MinerActivity` and its two mutexes.
