---------------------------- MODULE MCBlockTree ----------------------------
(* A tree of six blocks with a fork, a branch of three, and a provisional. *)
EXTENDS BlockTree

MCParent(b) ==
  CASE b = "a" -> "g"
    [] b \in {"b", "c"} -> "a"
    [] b \in {"d", "p"} -> "b"
    [] OTHER -> "g"

MCPath(b) ==
  CASE b = "g" -> {"g"}
    [] b = "a" -> {"g", "a"}
    [] b = "b" -> {"g", "a", "b"}
    [] b = "c" -> {"g", "a", "c"}
    [] b = "d" -> {"g", "a", "b", "d"}
    [] b = "p" -> {"g", "a", "b", "p"}
    [] OTHER -> {b}

=============================================================================
