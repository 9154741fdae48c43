------------------------- MODULE MCTransactionQueue -------------------------
(***************************************************************************)
(* ann has two transactions for her first nonce, one too mean to be mined, *)
(* and one for her second; bob has one that fills a block; two (one in the *)
(* crowd) need no account; eve has no account.                             *)
(***************************************************************************)
EXTENDS TransactionQueue

CONSTANTS ann, bob, eve

MCTransaction(m, nonce, weight, generous) ==
  [maker |-> m, nonce |-> nonce, weight |-> weight, generous |-> generous]

MCAnn ==
  { MCTransaction(ann, 0, 1, FALSE), MCTransaction(ann, 0, 1, TRUE),
    MCTransaction(ann, 1, 1, TRUE) }

MCEveryone ==
  MCAnn \cup
  { MCTransaction(bob, 0, 2, TRUE), MCTransaction(eve, 0, 1, TRUE),
    MCTransaction(Makerless, 0, 1, TRUE), MCTransaction(Makerless, 1, 1, TRUE) }

MCCrowd == MCEveryone \ { MCTransaction(Makerless, 1, 1, TRUE) }

MCMakers == <<Makerless, ann, bob, eve>>

=============================================================================
