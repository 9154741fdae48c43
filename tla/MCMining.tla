------------------------------ MODULE MCMining ------------------------------
(* Charms that turn with the height: nobody is always the most charming.   *)
EXTENDS Mining

CONSTANTS r1, r2

MCRank(m) == IF m = Self THEN 1 ELSE IF m = r1 THEN 0 ELSE 2

MCNextCharm(b, m) ==
  LET turn == Len(b) + Cardinality({ i \in DOMAIN b : b[i].by = Self })
  IN  (MCRank(m) + turn) % 3

(***************************************************************************)
(* Rows of provisional headers stay in the tree for good.  But for the one *)
(* best names, one is only ever read again when the same header is made    *)
(* anew: not once its time has passed, and without a difference when it    *)
(* stands on a complete block.  States that differ in these behave alike.  *)
(***************************************************************************)
MCView ==
  LET settled(b) == Parent(b) \in tree.complete /\ b \notin tree.missing
      dead == { b \in tree.nodes : Provisional(b) /\ b # best /\ (Last(b).at < now \/ settled(b)) }
  IN  <<now, tree.nodes \ dead, tree.held, tree.complete, tree.missing \ dead,
        best, ledger, reported, persisted, served>>

=============================================================================
