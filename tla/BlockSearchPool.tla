--------------------------- MODULE BlockSearchPool ---------------------------
(***************************************************************************)
(* The searches for blocks whose header is known and whose body is not     *)
(* (BlockSearchPool, BlockSearch), as a value:                             *)
(*                                                                         *)
(*   search  mBlockSearchesByHash: for every block searched for, the       *)
(*           miners asked (active), those that did not have it             *)
(*           (completed), and how often all of them were asked again       *)
(*   waiting mPendingSearches                                              *)
(*                                                                         *)
(* The searches that do not wait are the active ones.                      *)
(***************************************************************************)
EXTENDS BlockTreeData, SequencesExt

CONSTANTS
  By(_),       \* the address of the miner that made a block
  SampleSize,  \* SAMPLE_SIZE: miners asked at a time
  MaxRetries,  \* MAX_RETRIES
  MaxSearches  \* mMaxSearches

ASSUME SearchAssumption ==
  /\ SampleSize \in Nat \ {0}
  /\ MaxRetries \in Nat
  /\ MaxSearches \in Nat

NoSearch == [search |-> [b \in {} |-> {}], waiting |-> {}]

Searched(P) == DOMAIN P.search

(* A search nobody has been asked for yet. *)
Started == [active |-> {}, completed |-> {}, retries |-> 0]

ActiveSearches(P) == Searched(P) \ P.waiting

(* An affirmation that stops at the first block it holds. *)
AffirmBranchSearchToHeld(P, T, b) ==
  LET new == { c \in Path(b) \ (T.complete \cup T.held) :
                 /\ \A d \in T.held \cap Path(b) : d \in Path(c)
                 /\ \A d \in Searched(P) \cap Path(b) : c \notin Path(d) }
  IN  [search |-> [c \in new \cup Searched(P) |-> IF c \in new THEN Started ELSE P.search[c]],
       waiting |-> P.waiting \cup new]

(***************************************************************************)
(* affirmBranchSearch: from the end of a branch down, blocks without a     *)
(* body get a search, until one is complete or is searched for already.    *)
(***************************************************************************)
AffirmBranchSearch(P, T, b) ==
  LET lacking == Path(b) \ (T.complete \cup T.held)
      new == { c \in lacking : \A d \in lacking \cap Searched(P) : c \notin Path(d) }
  IN  [search |-> [c \in new \cup Searched(P) |-> IF c \in new THEN Started ELSE P.search[c]],
       waiting |-> P.waiting \cup new]

(* erase *)
Erase(P, bs) ==
  [search |-> [b \in Searched(P) \ bs |-> P.search[b]], waiting |-> P.waiting \ bs]

(***************************************************************************)
(* extendSearch: which miners may be asked next.  The miner of the block   *)
(* is in the first batch if it can be.                                     *)
(***************************************************************************)
Asked(s, b, online) ==
  LET candidates == online \ (s.active \cup s.completed)
      size == IF Cardinality(s.active) >= SampleSize THEN 0
              ELSE Min({ SampleSize - Cardinality(s.active), Cardinality(candidates) })
  IN  { us \in kSubset(size, candidates) : size > 0 /\ By(b) \in candidates => By(b) \in us }

(* A search that ends with its first batch of miners. *)
ExhaustedAtOnce(s, online) == s.active = {} /\ (s.completed # {} \/ online = {})

(* Nobody is asked and nobody is left to ask: extendSearch returned false. *)
Exhausted(s, online) == s.active = {} /\ online \subseteq s.completed

Again(s) == [active |-> s.active, completed |-> {}, retries |-> s.retries + 1]

Outcome(end, s, asked) == [end |-> end, search |-> s, asked |-> asked]

(***************************************************************************)
(* step: how a search for b goes on.  It ends when the body is there, it   *)
(* asks more miners if it can, it asks them all again if it may, and it    *)
(* ends as missing when there is nobody to ask.                            *)
(***************************************************************************)
StepSearch(s, b, T, remotes, online) ==
  LET extended(t) == { Outcome("no", [t EXCEPT !.active = @ \cup us], us) : us \in Asked(t, b, online) }
  IN  CASE b \in T.held -> { Outcome("found", s, {}) }
        [] b \notin T.held /\ remotes = {} -> { Outcome("no", s, {}) }
        [] b \notin T.held /\ remotes # {} /\ ~Exhausted(s, online) -> extended(s)
        [] b \notin T.held /\ remotes # {} /\ Exhausted(s, online) ->
             IF s.retries < MaxRetries /\ online # {} THEN extended(Again(s))
             ELSE { Outcome("missing", s, {}) }

(* Waiting searches become active when few active ones are left, lowest first. *)
Activated(P) ==
  LET room == MaxSearches - Cardinality(ActiveSearches(P))
      lower(b) == { c \in P.waiting : Cardinality(Path(c)) < Cardinality(Path(b)) }
  IN  IF Cardinality(ActiveSearches(P)) >= MaxSearches \div 4 THEN {P}
      ELSE { [P EXCEPT !.waiting = @ \ bs] :
               bs \in { s \in kSubset(Min({room, Cardinality(P.waiting)}), P.waiting) :
                          \A b \in s : lower(b) \subseteq s } }

(* An answer that leaves the miner among those asked. *)
UpdateBlockSearchStillActive(P, u, b, found) ==
  IF b \notin Searched(P) THEN P
  ELSE IF found THEN Erase(P, {b})
  ELSE [P EXCEPT !.search[b].completed = @ \cup {u}]

(* A search when u turns out not to have the block. *)
Lacks(s, u) ==
  [active |-> s.active \ {u}, completed |-> s.completed \cup {u}, retries |-> s.retries]

(* updateBlockSearch: an answer to the request for b that miner u was sent. *)
UpdateBlockSearch(P, u, b, found) ==
  IF b \notin Searched(P) THEN P
  ELSE IF found THEN Erase(P, {b})
  ELSE [P EXCEPT !.search = [P.search EXCEPT ![b] = Lacks(P.search[b], u)]]

=============================================================================
