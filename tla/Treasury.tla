------------------------------- MODULE Treasury -------------------------------
(***************************************************************************)
(* Where the VOL of a ledger is, as a value: the balance of every account, *)
(* the pools rewards and prizes are paid from, the pool that taxes and     *)
(* profit shares are paid out from, what the transactions of a block have  *)
(* paid so far (Block::applyTransactions), and how much VOL the ledger     *)
(* says there is in all (countVOL).                                        *)
(***************************************************************************)
EXTENDS Integers, FiniteSets, FiniteSetsExt, Functions

CONSTANTS
  Holder,        \* accounts with a balance
  FixedReward,   \* MonetaryPolicy: the mining reward, if the pool has it
  TaxDivisor,    \* MonetaryPolicy: one in TaxDivisor of a reward is tax
  Share          \* PayoutPolicy: the shares of the accounts, whole numbers

ASSUME TreasuryAssumption ==
  /\ FixedReward \in Nat
  /\ TaxDivisor \in Nat \ {0}
  /\ Share \in [Holder -> Nat] /\ \E x \in Holder : Share[x] > 0

NoFees == [gratuity |-> 0, profitShare |-> 0, transferTax |-> 0]

(* TransactionMaker::getFees: the profit share is a part of the gratuity. *)
Fees(f) == f.gratuity + f.transferTax

(* PayoutPolicy::mScale, which the shares add up to (isBalanced). *)
Scale == FoldFunction(+, 0, Share)

HasFunds(V, x, amount) == amount <= V.balance[x]

AddFunds(V, x, amount) == [V EXCEPT !.balance[x] = @ + amount]

(* A balance that may fall below zero. *)
SubFundsUnchecked(V, x, amount) == [V EXCEPT !.balance[x] = @ - amount]

(* subFunds: an account that has less keeps nothing. *)
SubFunds(V, x, amount) == [V EXCEPT !.balance[x] = IF amount <= @ THEN @ - amount ELSE 0]

Transfer(V, from, to, amount) == SubFunds(AddFunds(V, to, amount), from, amount)

(* postApply, and what applyTransactions adds up. *)
PayFees(V, x, f) ==
  [SubFunds(V, x, Fees(f)) EXCEPT
     !.block = [gratuity |-> @.gratuity + f.gratuity,
                profitShare |-> @.profitShare + f.profitShare,
                transferTax |-> @.transferTax + f.transferTax]]

(* createVOL for accounts alone: the reward pool is set to the prize pool. *)
CreateVOL(V, amount) == [V EXCEPT !.rewardPool = V.prizePool, !.total = @ + amount]

(* awardVOL: prizes come from their pool. *)
AwardVOL(V, x, amount) == [AddFunds(V, x, amount) EXCEPT !.prizePool = @ - amount]

(* A pool that is emptied by what was handed out of it. *)
PayoutAll(V, amount) ==
  LET pool == V.payoutPool + amount
      dist == pool \div Scale
  IN  [V EXCEPT !.balance = [x \in Holder |-> @[x] + Share[x] * dist], !.payoutPool = 0]

(* payout: what cannot be split stays in the pool. *)
Payout(V, amount) ==
  LET pool == V.payoutPool + amount
      dist == pool \div Scale
  IN  [V EXCEPT !.balance = [x \in Holder |-> @[x] + Share[x] * dist],
                !.payoutPool = pool - Scale * dist]

(***************************************************************************)
(* The end of a block: the miner gets the reward and the gratuities but    *)
(* for the profit share; taxes and the profit share are paid out.          *)
(***************************************************************************)
RewardMiner(V, miner) ==
  LET gross == Min({FixedReward, V.rewardPool})
      tax == gross \div TaxDivisor
      profit == gross - tax + V.block.gratuity
      paid == [V EXCEPT !.rewardPool = @ - gross, !.block = NoFees]
      earned == IF profit > 0 THEN AddFunds(paid, miner, profit - V.block.profitShare) ELSE paid
  IN  Payout(earned, tax + V.block.transferTax + V.block.profitShare)

(* The VOL that accounts, pools and the block hold. *)
HeldVOL(V) ==
  FoldFunction(+, 0, V.balance) + V.rewardPool + V.prizePool + V.payoutPool + Fees(V.block)

=============================================================================
