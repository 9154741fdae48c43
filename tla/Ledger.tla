-------------------------------- MODULE Ledger --------------------------------
(***************************************************************************)
(* The ledger of a chain as its blocks change it.  A block begins          *)
(* (Block::apply), its transactions are applied one after the other, and   *)
(* it ends with its miner's reward.  A transaction that fails makes its    *)
(* block fail, and the ledger is what it was before the block: only those  *)
(* that succeed are steps here.  Blocks are of a release above 1.          *)
(***************************************************************************)
EXTENDS Inventory, Treasury

CONSTANTS
  Client,      \* accounts whose client follows the inventory log
  Miner,       \* the account that makes the blocks
  Balance,     \* the balances at the beginning
  RewardPool,  \* the reward pool at the beginning
  PrizePool,   \* the prize pool at the beginning
  Price,       \* amounts that are sent or paid
  Fee,         \* the fees makers may offer
  Grant,       \* what an identity is worth
  MaxList,     \* bound on the assets of one transaction
  MaxOffers,   \* bound on the offers
  MaxTime,     \* bound on the blocks
  MaxApplied   \* bound on the transactions

ASSUME LedgerAssumption ==
  /\ IsFiniteSet(Account) /\ Holder = Account
  /\ Miner \in Account /\ Client \subseteq Account
  /\ Balance \in [Account -> Nat]
  /\ RewardPool \in Nat /\ PrizePool \in Nat /\ Grant \in Nat
  /\ Price \subseteq Nat
  /\ Fee \subseteq [gratuity : Nat, profitShare : Nat, transferTax : Nat]
  /\ \A f \in Fee : f.profitShare <= f.gratuity
  /\ MaxList \in Nat /\ MaxTime \in Nat

VARIABLES
  inventory,   \* assets and offers
  vol,         \* balances and pools
  identified,  \* accounts whose fingerprint has been used
  known,       \* what the client of an account knows of its inventory
  time,        \* the time of the block
  applying,    \* whether a block is being applied
  applied      \* how many transactions there have been

vars == <<inventory, vol, identified, known, time, applying, applied>>

Init ==
  /\ inventory = EmptyInventory
  /\ vol = [balance |-> Balance, rewardPool |-> RewardPool, prizePool |-> PrizePool,
            payoutPool |-> 0, block |-> NoFees,
            total |-> FoldFunction(+, 0, Balance) + RewardPool + PrizePool]
  /\ identified = {}
  /\ known = [x \in Client |-> {}]
  /\ time = 0
  /\ applying = FALSE
  /\ applied = 0

AssetList == UNION { [1..n -> Asset] : n \in 1..MaxList }

(***************************************************************************)
(* What every transaction does besides its own work I and V: the maker has *)
(* the fees and what it says it moves, and pays the fees at the end.       *)
(***************************************************************************)
Applied(x, fee, amount, I, V) ==
  /\ applying
  /\ applied < MaxApplied
  /\ HasFunds(vol, x, Fees(fee) + amount)
  /\ inventory' = I
  /\ vol' = PayFees(V, x, fee)
  /\ applied' = applied + 1
  /\ UNCHANGED <<known, time, applying>>

(* Assets that their owner x may send, offer or upgrade. *)
Free(x) == { a \in Owned(inventory, x) : inventory.offered[a] = NoOffer }

(* SendAssets *)
SendAssets(x, y, s, fee) ==
  /\ ToSet(s) \subseteq Free(x)
  /\ Applied(x, fee, 0, IF x = y THEN inventory ELSE TransferAssets(inventory, x, y, s), vol)
  /\ UNCHANGED identified

(* OfferAssets *)
MakeOffer(x, s, expiration, fee) ==
  /\ Len(inventory.offer) < MaxOffers
  /\ expiration > time
  /\ ToSet(s) \subseteq Free(x)
  /\ Applied(x, fee, 0, OfferAssets(inventory, x, s, expiration), vol)
  /\ UNCHANGED identified

(* CancelOffer, of the offer that a is in. *)
CancelOffer(x, a, fee) ==
  LET o == inventory.offered[a]
  IN  /\ o # NoOffer
      /\ inventory.offer[o].seller = x
      /\ Applied(x, fee, 0, ClearOffers(inventory, {o}), vol)
      /\ UNCHANGED identified

Sold(I, o, x) == [I EXCEPT !.offer[o].buyer = x]

(* BuyAssets: the price is paid whether or not the assets can be moved. *)
BuyAssets(x, o, price, fee) ==
  LET offer == inventory.offer[o]
  IN  /\ offer.seller \notin {Nobody, x}
      /\ offer.buyer = Nobody
      /\ offer.expiration > time
      /\ Applied(x, fee, price,
                 Sold(TransferAssets(inventory, offer.seller, x, offer.assets), o, x),
                 AddFunds(SubFunds(vol, x, price), offer.seller, price))
      /\ UNCHANGED identified

(* SendVOL *)
SendVOL(x, y, amount, fee) ==
  /\ x # y
  /\ Applied(x, fee, amount, inventory, Transfer(vol, x, y, amount))
  /\ UNCHANGED identified

(* UpgradeAssets *)
UpgradeAssets(x, S, fee) ==
  /\ S \subseteq Free(x)
  /\ Applied(x, fee, 0, ChangeAssets(inventory, x, S), vol)
  /\ UNCHANGED identified

(***************************************************************************)
(* StampAssets, with the stamp t: free for the owner of the stamp, and     *)
(* otherwise its price for each asset.  The maker is asked to have the     *)
(* fees and one price, and to have the price of all without the fees.      *)
(***************************************************************************)
StampAssets(x, t, s, price, fee) ==
  LET owner == inventory.owner[t]
      one == IF owner = x THEN 0 ELSE price
      all == one * Len(s)
  IN  /\ owner # Nobody
      /\ ToSet(s) \subseteq Owned(inventory, x)
      /\ HasFunds(vol, x, all)
      /\ Applied(x, fee, one, ChangeAssets(inventory, x, ToSet(s)), Transfer(vol, x, owner, all))
      /\ UNCHANGED identified

Awardable(quantity) == inventory.awarded + quantity <= Cardinality(Asset)

(* BetaGetAssets, with a schema of one asset. *)
GetAssets(x, quantity, fee) ==
  /\ Awardable(quantity)
  /\ HasRoom(inventory, x, quantity)
  /\ Applied(x, fee, 0, AwardAssets(inventory, x, quantity), vol)
  /\ UNCHANGED identified

(***************************************************************************)
(* RunScript, of a method that makes one call: it awards assets or VOL, or *)
(* sets a field of an asset or revokes it, whoever owns it.                *)
(***************************************************************************)
Revoke(x, a, fee) ==
  /\ inventory.owner[a] # Nobody
  /\ inventory.count[inventory.owner[a]] > 0
  /\ Applied(x, fee, 0, RevokeAsset(inventory, a), vol)

SetField(x, a, fee) ==
  /\ inventory.owner[a] # Nobody
  /\ Applied(x, fee, 0, ChangeAssets(inventory, inventory.owner[a], {a}), vol)

RunScript(x, y, fee) ==
  /\ \/ \E a \in Asset : Revoke(x, a, fee) \/ SetField(x, a, fee)
     \/ \E n \in 1..MaxList :
          /\ Awardable(n)
          /\ Applied(x, fee, 0, AwardAssets(inventory, y, n), vol)
     \/ \E p \in Price :
          /\ p <= vol.prizePool
          /\ Applied(x, fee, 0, inventory, AwardVOL(vol, y, p))
  /\ UNCHANGED identified

(* PublishSchemaAndReset, with a deck of so many assets for its maker. *)
ResetInventories(x, quantity, fee) ==
  /\ Awardable(quantity)
  /\ Applied(x, fee, 0, AwardAssets(ClearInventories(inventory), x, quantity), vol)
  /\ UNCHANGED identified

(* IdentifyAccount: the grant less the fees, and then the fees. *)
IdentifyAccount(x, fee) ==
  LET grant == IF x \in identified THEN 0 ELSE Grant
      granted == AddFunds(vol, x, grant - Fees(fee))
  IN  /\ grant >= Fees(fee)
      /\ Applied(x, fee, grant, inventory, IF grant > 0 THEN CreateVOL(granted, grant) ELSE granted)
      /\ identified' = identified \cup {x}

(* Block::apply, up to its transactions. *)
BeginBlock ==
  /\ ~applying
  /\ time < MaxTime
  /\ time' = time + 1
  /\ applying' = TRUE
  /\ inventory' = ExpireOffers(inventory, time + 1)
  /\ UNCHANGED <<vol, identified, known, applied>>

(* Block::applyTransactions, after them. *)
EndBlock ==
  /\ applying
  /\ applying' = FALSE
  /\ vol' = RewardMiner(vol, Miner)
  /\ UNCHANGED <<inventory, identified, known, time, applied>>

(* The client of an account reads its inventory log to the end. *)
ReadLog(x) ==
  /\ ~applying
  /\ inventory.log[x] # NothingLogged
  /\ known' = [known EXCEPT ![x] = Replayed(inventory, x, @)]
  /\ inventory' = [inventory EXCEPT !.log[x] = NothingLogged]
  /\ UNCHANGED <<vol, identified, time, applying, applied>>

Next ==
  \/ \E x \in Account, fee \in Fee :
       \/ \E y \in Account, s \in AssetList : SendAssets(x, y, s, fee)
       \/ \E s \in AssetList, e \in 1..(MaxTime + 1) : MakeOffer(x, s, e, fee)
       \/ \E a \in Asset : CancelOffer(x, a, fee)
       \/ \E o \in Offers(inventory), p \in Price : BuyAssets(x, o, p, fee)
       \/ \E y \in Account, p \in Price : SendVOL(x, y, p, fee)
       \/ \E S \in SUBSET Asset : UpgradeAssets(x, S, fee)
       \/ \E t \in Asset, s \in AssetList, p \in Price : StampAssets(x, t, s, p, fee)
       \/ \E n \in 1..MaxList : GetAssets(x, n, fee)
       \/ \E y \in Account : RunScript(x, y, fee)
       \/ \E n \in 0..MaxList : ResetInventories(x, n, fee)
       \/ IdentifyAccount(x, fee)
  \/ BeginBlock
  \/ EndBlock
  \/ \E x \in Client : ReadLog(x)

Spec == Init /\ [][Next]_vars

-----------------------------------------------------------------------------
(* Properties *)

(* Every field has its kind; counts and positions fit their width. *)
TypeOK ==
  /\ Typed(inventory)
  /\ ToSet(inventory.open) \subseteq Offers(inventory)
  /\ vol.balance \in [Account -> Nat]
  /\ {vol.rewardPool, vol.prizePool, vol.payoutPool} \subseteq Nat
  /\ vol.block.profitShare <= vol.block.gratuity

(* Two ways to take an asset that is on offer, which the code does not refuse. *)
TakesFromOffer ==
  \E x \in Account, fee \in Fee :
    \/ \E a \in Asset : inventory.offered[a] # NoOffer /\ Revoke(x, a, fee)
    \/ \E n \in 0..MaxList : Unsold(inventory) # {} /\ ResetInventories(x, n, fee)

(* Two uses of a list with a repeated asset, which it does not refuse either. *)
NamesAnAssetTwice ==
  \E x \in Account, fee \in Fee, s \in AssetList :
    /\ ~IsInjective(s)
    /\ \/ \E y \in Account : SendAssets(x, y, s, fee)
       \/ \E e \in 1..(MaxTime + 1) : MakeOffer(x, s, e, fee)

(***************************************************************************)
(* Inventories are exact, and unsold offers are backed by what the seller  *)
(* owns, and every step keeps it so: transfers that fill gaps from the     *)
(* tail of an inventory, sales, cancelled and expired offers in any order. *)
(* It breaks only where the code does not look: a list that names an asset *)
(* twice, and an asset taken away while it is on offer.                    *)
(***************************************************************************)
BooksStaySound ==
  [][ Sound(inventory) /\ ~TakesFromOffer /\ ~NamesAnAssetTwice => Sound(inventory') ]_vars

(***************************************************************************)
(* A client that follows the inventory log knows what its account owns,    *)
(* what of it has changed and what of it is on offer, once it has read the *)
(* log to its end: no transaction and no expiry goes untold, and entries   *)
(* read together tell what they would have told one by one.                *)
(***************************************************************************)
LogTellsInventory ==
  Sound(inventory) => \A x \in Client : Replayed(inventory, x, known[x]) = View(inventory, x)

(***************************************************************************)
(* Every offer that can still be bought is in the list of open offers,     *)
(* although the list is made anew by expireOffers2 from all offers and     *)
(* offers made in between are put at its end.                              *)
(***************************************************************************)
OpenOffersAreListed ==
  \A o \in Unsold(inventory) : inventory.offer[o].expiration > time => o \in ToSet(inventory.open)

(***************************************************************************)
(* VOL changes hands between accounts, pools and miners, and the ledger's  *)
(* own count of it stays as right or wrong as it was, whatever the fees,   *)
(* the taxes and the shares that do not divide.  Only two transactions put *)
(* it wrong: a grant, which loses the reward pool and has its fees paid    *)
(* twice, and several assets stamped by a maker who then lacks the fees.   *)
(***************************************************************************)
VOLIsConserved ==
  [][ \/ HeldVOL(vol') - vol'.total = HeldVOL(vol) - vol.total
      \/ \E x \in Account, fee \in Fee :
           \/ IdentifyAccount(x, fee)
           \/ \E t \in Asset, s \in AssetList, p \in Price :
                Len(s) > 1 /\ StampAssets(x, t, s, p, fee) ]_vars

=============================================================================
