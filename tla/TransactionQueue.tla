-------------------------- MODULE TransactionQueue --------------------------
(***************************************************************************)
(* The transactions waiting in a mining node (TransactionQueue, one        *)
(* TransactionMakerQueue per maker), and the ledger they are mined into.   *)
(*                                                                         *)
(* The ledger is kept as the sequence of its blocks that hold              *)
(* transactions: it makes no difference to a transaction whether an empty  *)
(* block is pushed or, by a lazy miner, dropped.  The ledger grows by this *)
(* node's blocks and by those of others, and shrinks when the node moves   *)
(* to another branch (composeChain).  HTTP handlers and steps exclude each *)
(* other by the miner lock, so each is one action.                         *)
(***************************************************************************)
EXTENDS Naturals, FiniteSets, SequencesExt

CONSTANTS
  Account,        \* makers with an account in the ledger
  Makerless,      \* the maker "" of transactions that need no account
  Stranger,       \* makers without an account
  Makers,         \* every maker, in the order mDatabase iterates over them
  Transaction,    \* what clients may submit
  None,           \* no transaction
  MaxBlockWeight, \* getMaxBlockWeight
  MaxSubmits,     \* bound on the number of submissions
  MaxReverts      \* bound on the number of times the ledger shrinks

ASSUME QueueAssumption ==
  /\ Makers \in Seq(Account \cup {Makerless} \cup Stranger)
  /\ ToSet(Makers) = Account \cup {Makerless} \cup Stranger
  /\ IsInjective(Makers)
  /\ Makerless \notin Account \cup Stranger /\ Account \cap Stranger = {}
  /\ \A t \in Transaction :
       /\ t.maker \in ToSet(Makers)
       /\ t.nonce \in Nat
       /\ t.weight \in Nat \ {0}
       /\ t.generous \in BOOLEAN      \* its gratuity reaches the minimum
  /\ None \notin Transaction
  /\ MaxBlockWeight \in Nat /\ MaxSubmits \in Nat /\ MaxReverts \in Nat

VARIABLES
  queues,   \* mDatabase; a maker that has no entry has EmptyQueue
  ledger,   \* the transactions of every block
  submits,
  reverts

vars == <<queues, ledger, submits, reverts>>

Maker == ToSet(Makers)

(***************************************************************************)
(* mQueue in the order of its keys (nonces, or positions for Makerless),   *)
(* mLookup, mQueueStatus (BLOCKED_ON_ERROR split by its cause) and the     *)
(* uuid of mTransactionStatus.                                             *)
(***************************************************************************)
EmptyQueue == [queue |-> <<>>, lookup |-> {}, status |-> "OK", blamed |-> None]

Blocked(q) == q.status # "OK"

Contents(blocks) == ToSet(FlattenSeq(blocks))

(* mTransactionNonce: every applied transaction of the account took one. *)
Nonce(applied, m) == Cardinality({ t \in applied : t.maker = m })

Increasing(s) == \A i, j \in DOMAIN s : i < j => s[i].nonce < s[j].nonce

TypeOK ==
  /\ queues \in [Maker -> [queue : Seq(Transaction), lookup : SUBSET Transaction,
                          status : {"OK", "ORDER", "ERROR", "IGNORE"},
                          blamed : Transaction \cup {None}]]
  /\ \A m \in Maker :
       /\ \A t \in ToSet(queues[m].queue) : t.maker = m
       /\ m # Makerless => Increasing(queues[m].queue)
       /\ Blocked(queues[m]) <=> queues[m].blamed # None
       /\ queues[m].status \in {"ORDER", "ERROR"} => queues[m].queue = <<>>
  /\ ledger \in Seq(Seq(Transaction))
  /\ submits \in 0..MaxSubmits /\ reverts \in 0..MaxReverts

Init ==
  /\ queues = [m \in Maker |-> EmptyQueue]
  /\ ledger = <<>>
  /\ submits = 0
  /\ reverts = 0

-----------------------------------------------------------------------------
(* TransactionMakerQueue *)

(* The elements of s that are in S, in the order of s. *)
Kept(s, S) ==
  LET kept[i \in 0..Len(s)] ==
        IF i = 0 THEN <<>>
        ELSE IF s[i] \in S THEN Append(kept[i - 1], s[i]) ELSE kept[i - 1]
  IN  kept[Len(s)]

(* A later transaction is kept when an earlier one is submitted after it. *)
PushUnordered(q, t) ==
  [queue |-> Append(Kept(q.queue, { u \in ToSet(q.queue) : u.nonce # t.nonce }), t),
   lookup |-> q.lookup \cup {t}, status |-> "OK", blamed |-> None]

(***************************************************************************)
(* pushTransaction: a transaction replaces the one with its nonce, whose   *)
(* uuid stays in mLookup, and drops the later ones.  The queue unblocks.   *)
(***************************************************************************)
Push(q, t) ==
  LET earlier == { u \in ToSet(q.queue) : t.maker = Makerless \/ u.nonce < t.nonce }
      later == { u \in ToSet(q.queue) : t.maker # Makerless /\ u.nonce > t.nonce }
  IN  [queue |-> Append(Kept(q.queue, earlier), t),
       lookup |-> (q.lookup \cup {t}) \ later, status |-> "OK", blamed |-> None]

(* setTransactionResult of a failure: mLookup keeps what mQueue loses. *)
Reject(q, status, t) ==
  [queue |-> <<>>, lookup |-> q.lookup, status |-> status, blamed |-> t]

(* ignoreTransaction *)
Ignore(q, t) ==
  [queue |-> q.queue, lookup |-> q.lookup, status |-> "IGNORE", blamed |-> t]

(* A prune that takes the next transaction as well. *)
IsSpentOrNext(applied, t) ==
  CASE t.maker \in Account -> t.nonce <= Nonce(applied, t.maker)
    [] t.maker = Makerless -> t \in applied
    [] OTHER -> TRUE

(***************************************************************************)
(* What prune removes: an account's transactions below its nonce, and      *)
(* without an account those that were applied, which for all but           *)
(* makerless transactions is taken to be so.                               *)
(***************************************************************************)
IsSpent(applied, t) ==
  CASE t.maker \in Account -> t.nonce < Nonce(applied, t.maker)
    [] t.maker = Makerless -> t \in applied
    [] OTHER -> TRUE

(* pruneTransactions of one maker's queue: an empty one is erased. *)
Prune(q, applied) ==
  LET kept == Kept(q.queue, { t \in ToSet(q.queue) : ~IsSpent(applied, t) })
  IN  IF kept = <<>> /\ ~Blocked(q) THEN EmptyQueue
      ELSE [queue |-> kept, lookup |-> q.lookup \ (ToSet(q.queue) \ ToSet(kept)),
            status |-> q.status, blamed |-> q.blamed]

(* checkTransactionOrder fails on the first transaction that is not yet due. *)
TooEarly(q, nonce) == Kept(q.queue, { t \in ToSet(q.queue) : t.nonce > nonce })

-----------------------------------------------------------------------------
(* TransactionQueue::fillBlock *)

(* fillBlock at work: the queues, the block so far, whether to pass again. *)
Filling(qs, block, more) == [queues |-> qs, block |-> block, more |-> more]

(* getWeight *)
Weight(block) ==
  LET sum[i \in 0..Len(block)] == IF i = 0 THEN 0 ELSE sum[i - 1] + block[i].weight
  IN  sum[Len(block)]

(* The key fillBlock looks up next: the account's nonce, or a position. *)
NextKey(m, applied, block) ==
  IF m = Makerless THEN Cardinality({ i \in DOMAIN block : block[i].maker = m })
  ELSE Nonce(applied \cup ToSet(block), m)

(* getTransaction ( positionOrNonce ): none or one. *)
Found(m, q, key) ==
  IF m = Makerless
  THEN IF key < Len(q.queue) THEN {q.queue[key + 1]} ELSE {}
  ELSE { t \in ToSet(q.queue) : t.nonce = key }

(***************************************************************************)
(* The ledger can take t: its nonce fits, or its key is a new one.  What   *)
(* else may make apply fail (funds, signature, expiry) is left open.       *)
(***************************************************************************)
Fits(t, applied) ==
  IF t.maker = Makerless THEN t \notin applied ELSE t.nonce = Nonce(applied, t.maker)

(* t joins the block; another pass is due if its maker has one more. *)
Added(s, m, t, applied) ==
  LET block == Append(s.block, t)
  IN  Filling(s.queues, block,
              s.more \/ Found(m, s.queues[m], NextKey(m, applied, block)) # {})

WithQueue(s, m, q) ==
  Filling([n \in Maker |-> IF n = m THEN q ELSE s.queues[n]], s.block, s.more)

(* A turn that trusts the block to have room. *)
TakeUnweighed(s, m, t, applied) ==
  LET q == s.queues[m]
  IN  IF ~t.generous THEN {WithQueue(s, m, Ignore(q, t))}
      ELSE {WithQueue(s, m, Reject(q, "ERROR", t))} \cup
           { x \in {Added(s, m, t, applied)} : Fits(t, applied \cup ToSet(s.block)) }

(***************************************************************************)
(* What may happen to the next transaction t of maker m: it is ignored for *)
(* its gratuity, refused for its weight, left for a later block, refused   *)
(* by the ledger, or added to the block.                                   *)
(***************************************************************************)
Take(s, m, t, applied) ==
  LET q == s.queues[m]
      rejected == WithQueue(s, m, Reject(q, "ERROR", t))
  IN  CASE ~t.generous -> {WithQueue(s, m, Ignore(q, t))}
        [] t.generous /\ t.weight > MaxBlockWeight -> {rejected}
        [] t.generous /\ t.weight <= MaxBlockWeight /\ Weight(s.block) + t.weight > MaxBlockWeight -> {s}
        [] OTHER -> {rejected} \cup
             { x \in {Added(s, m, t, applied)} : Fits(t, applied \cup ToSet(s.block)) }

(* The outcomes of one maker's turn in a pass over the queues. *)
Turn(s, m, applied) ==
  LET q == s.queues[m]
      key == NextKey(m, applied, s.block)
      early == IF m = Makerless THEN <<>> ELSE TooEarly(q, key)
      found == Found(m, q, key)
  IN  CASE Blocked(q) \/ (early = <<>> /\ found = {}) -> {s}
        [] ~Blocked(q) /\ early # <<>> -> {WithQueue(s, m, Reject(q, "ORDER", Head(early)))}
        [] OTHER -> UNION { Take(s, m, t, applied) : t \in found }

(* One pass, if the one before it found that there is more. *)
Pass(s, applied) ==
  LET turns[i \in 0..Len(Makers)] ==
        IF i = 0 THEN {Filling(s.queues, s.block, FALSE)}
        ELSE UNION { Turn(x, Makers[i], applied) : x \in turns[i - 1] }
  IN  IF s.more THEN turns[Len(Makers)] ELSE {s}

(***************************************************************************)
(* The outcomes of all passes over the queues.  Only the makerless queue   *)
(* can ask for more passes, one per transaction at most.                   *)
(***************************************************************************)
FillFrom(qs, applied) ==
  LET passes[i \in 0..(Len(qs[Makerless].queue) + 2)] ==
        IF i = 0 THEN {Filling(qs, <<>>, TRUE)}
        ELSE UNION { Pass(s, applied) : s \in passes[i - 1] }
  IN  passes[Len(qs[Makerless].queue) + 2]

(* A fillBlock that does not prune first. *)
FillBlockUnpruned == FillFrom(queues, Contents(ledger))

(* The outcomes of fillBlock. *)
FillBlock ==
  LET applied == Contents(ledger)
  IN  FillFrom([m \in Maker |-> Prune(queues[m], applied)], applied)

-----------------------------------------------------------------------------

WithBlock(blocks, block) == IF block = <<>> THEN blocks ELSE Append(blocks, block)

(* PUT of a transaction (TransactionHandler). *)
Submit(t) ==
  /\ submits < MaxSubmits
  /\ queues' = [queues EXCEPT ![t.maker] = Push(@, t)]
  /\ submits' = submits + 1
  /\ UNCHANGED <<ledger, reverts>>

(* prepareBlock and pushBlock: this node makes a block. *)
Mine ==
  /\ \E filled \in FillBlock :
       queues' = filled.queues /\ ledger' = WithBlock(ledger, filled.block)
  /\ UNCHANGED <<submits, reverts>>

(* What verify asks of the transactions of a block. *)
Verifies(block) == Weight(block) <= MaxBlockWeight

(* A block of another miner is pushed: one valid transaction is enough. *)
Foreign(t) ==
  /\ Verifies(<<t>>)
  /\ t.maker \notin Stranger
  /\ Fits(t, Contents(ledger))
  /\ ledger' = Append(ledger, <<t>>)
  /\ UNCHANGED <<queues, submits, reverts>>

(* The ledger is reverted to a block below (composeChain). *)
Revert(height) ==
  /\ reverts < MaxReverts
  /\ height < Len(ledger)
  /\ ledger' = SubSeq(ledger, 1, height)
  /\ reverts' = reverts + 1
  /\ UNCHANGED <<queues, submits>>

(* Miner::reset: both go back to the start. *)
Reset ==
  /\ reverts < MaxReverts
  /\ queues' = [m \in Maker |-> EmptyQueue]
  /\ ledger' = <<>>
  /\ reverts' = reverts + 1
  /\ UNCHANGED submits

Next ==
  \/ \E t \in Transaction : Submit(t) \/ Foreign(t)
  \/ Mine
  \/ \E height \in 0..(Len(ledger) - 1) : Revert(height)
  \/ Reset

(* A miner with transactions keeps making blocks. *)
Spec == Init /\ [][Next]_vars /\ WF_vars(Mine)

(* getTransactionStatus *)
Status(t) ==
  LET q == queues[t.maker]
  IN  CASE Blocked(q) -> IF q.status = "IGNORE" THEN "IGNORED" ELSE "REJECTED"
        [] ~Blocked(q) /\ t.maker \in Account /\ t \in Contents(ledger) -> "ACCEPTED"
        [] ~Blocked(q) /\ ~(t.maker \in Account /\ t \in Contents(ledger)) /\ t \in q.lookup -> "PENDING"
        [] OTHER -> "UNKNOWN"

-----------------------------------------------------------------------------

(***************************************************************************)
(* Any node that replays the blocks accepts them: every account's nonces   *)
(* follow each other, nothing is applied twice, no block is too heavy.     *)
(***************************************************************************)
BlocksReplay ==
  LET all == FlattenSeq(ledger)
  IN  /\ \A i \in DOMAIN all : Fits(all[i], ToSet(SubSeq(all, 1, i - 1)))
      /\ \A i \in DOMAIN ledger : Weight(ledger[i]) <= MaxBlockWeight

(***************************************************************************)
(* An account's transaction only leaves its queue because its nonce has    *)
(* been taken, because its owner submitted one at or before its nonce, or  *)
(* because the queue was rejected or the node was reset.                   *)
(***************************************************************************)
LeavesForAReason ==
  [][ \A m \in Account : \A t \in ToSet(queues[m].queue) :
        \/ t \in ToSet(queues'[m].queue)
        \/ t.nonce < Nonce(Contents(ledger), m)
        \/ \E u \in ToSet(queues'[m].queue) : u.nonce <= t.nonce
        \/ queues'[m].status \in {"ORDER", "ERROR"}
        \/ reverts' > reverts ]_vars

(***************************************************************************)
(* A transaction that nobody can take any more does not stay: it is mined, *)
(* refused or dropped, unless its queue is blocked over a gratuity.        *)
(***************************************************************************)
NothingWaitsForever ==
  \A t \in Transaction :
    (t \in ToSet(queues[t.maker].queue))
      ~> (t \notin ToSet(queues[t.maker].queue) \/ queues[t.maker].status = "IGNORE")

(***************************************************************************)
(* TransactionStatus.h:23: "PENDING,        // in queue".                  *)
(***************************************************************************)
PendingIsInQueue ==
  \A t \in Transaction : Status(t) = "PENDING" => t \in ToSet(queues[t.maker].queue)

(***************************************************************************)
(* TransactionMakerQueue.cpp:25: "Transactions submitted out of order."    *)
(* That is not said of a queue that starts at the account's nonce and has  *)
(* no gap.                                                                 *)
(***************************************************************************)
InOrder(s, nonce) == \A i \in DOMAIN s : s[i].nonce = nonce + i - 1

OutOfOrderIsSaidOfGaps ==
  [][ \A m \in Account :
        queues[m].status # "ORDER" /\ queues'[m].status = "ORDER" =>
          LET applied == Contents(ledger)
          IN  ~InOrder(Prune(queues[m], applied).queue, Nonce(applied, m)) ]_vars

=============================================================================
