------------------------------ MODULE MCLedger ------------------------------
(* Two accounts, one of which mines. *)
EXTENDS Ledger

MCBalance == [x \in Account |-> IF x = Miner THEN 0 ELSE 2]
MCShare == [x \in Account |-> 1]

(* There is no room for two assets at the miner's. *)
MCMaxAssets == [x \in Account |-> IF x = Miner THEN 1 ELSE 2]

MCFee == { NoFees, [gratuity |-> 1, profitShare |-> 1, transferTax |-> 0] }

(* Nothing is asked of what follows once inventories are broken. *)
SoundBooks == Sound(inventory)

=============================================================================
