------------------------- MODULE BranchAvailability -------------------------
(***************************************************************************)
(* What the block tree promises its callers: it learns headers, obtains    *)
(* bodies, and at every moment knows which blocks are ready, that is,      *)
(* available together with all their ancestors.  A store that forgets may  *)
(* drop blocks, but no block whose descendant it keeps.  How the tree      *)
(* keeps its answer up to date (statuses that spread over children) and    *)
(* what it chooses to forget are left out.                                 *)
(***************************************************************************)
CONSTANTS Block, Genesis, Path(_)

VARIABLES headers, bodies, ready, forgets

vars == <<headers, bodies, ready, forgets>>

Available(hs, bs) == { b \in hs : Path(b) \subseteq bs }

Init ==
  /\ headers = {Genesis}
  /\ bodies = {Genesis}
  /\ ready = {Genesis}
  /\ forgets \in BOOLEAN

(* What may be left of the headers hs. *)
Remains(hs) ==
  IF forgets THEN { kept \in SUBSET hs : Genesis \in kept /\ \A b \in kept : Path(b) \subseteq kept }
  ELSE {hs}

(* The store holds hs and bs, but for what it forgets. *)
Holds(hs, bs) ==
  /\ headers' \in Remains(hs)
  /\ bodies' = bs \cap headers'
  /\ ready' = Available(headers', bodies')
  /\ UNCHANGED forgets

(* A header is recorded; nothing becomes ready by it. *)
Learn(b) ==
  /\ Path(b) \ {b} \subseteq headers
  /\ Holds(headers \cup {b}, bodies)

(* A body is stored; every block it was the last obstacle for is ready. *)
Obtain(b) ==
  /\ Path(b) \ {b} \subseteq headers
  /\ Holds(headers \cup {b}, bodies \cup {b})

(* Branches are forgotten. *)
Forget == Holds(headers, bodies)

Next == Forget \/ \E b \in Block : Learn(b) \/ Obtain(b)

Spec == Init /\ [][Next]_vars

=============================================================================
