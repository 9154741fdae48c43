------------------------------- MODULE MCSync -------------------------------
(***************************************************************************)
(* Two branches above the genesis block, one of three blocks, one of two,  *)
(* and d, which takes the place of c.                                      *)
(***************************************************************************)
EXTENDS Sync

CONSTANTS u1, u2, u3

MCParent(b) ==
  CASE b = "b" -> "a"
    [] b \in {"c", "d"} -> "b"
    [] b = "y" -> "x"
    [] OTHER -> "g"

MCPath(b) ==
  CASE b = "g" -> {"g"}
    [] b = "a" -> {"g", "a"}
    [] b = "b" -> {"g", "a", "b"}
    [] b = "c" -> {"g", "a", "b", "c"}
    [] b = "d" -> {"g", "a", "b", "d"}
    [] b = "x" -> {"g", "x"}
    [] b = "y" -> {"g", "x", "y"}
    [] OTHER -> {b}

MCBy(b) == IF b \in {"a", "b", "c", "d"} THEN u1 ELSE u2

MCRank(b) == CASE b = "g" -> 0 [] b = "a" -> 1 [] b = "x" -> 2 [] b = "b" -> 3 [] b = "y" -> 4
    [] b = "d" -> 5 [] OTHER -> 6

=============================================================================
