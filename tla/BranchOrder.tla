---------------------------- MODULE BranchOrder ----------------------------
(***************************************************************************)
(* Branches and the order consensus puts on them (AbstractBlockTree).      *)
(*                                                                         *)
(* A block is identified by the sequence of headers that leads to it: a    *)
(* digest covers prevDigest, so two blocks are the same exactly when their *)
(* whole pasts are.  Its parent is the sequence without the last header,   *)
(* its height the length, and <<>> is the genesis block, declared at time  *)
(* 0.  A header carries what the order reads:                              *)
(*                                                                         *)
(*   by     the miner        at           the time it was declared         *)
(*   charm  lower is better  provisional  TRUE for a header with no block  *)
(***************************************************************************)
EXTENDS Integers, Sequences, FiniteSets

CONSTANT Window   \* getRewriteWindow, the same in every header

ASSUME WindowAssumption == Window \in Nat \ {0}

Height(b) == Len(b)

(* The ancestor of b at a height (getParent, repeated). *)
Ancestor(b, height) == SubSeq(b, 1, height)

Time(b) == IF b = <<>> THEN 0 ELSE b[Len(b)].at

IsAncestor(a, b) == Len(a) <= Len(b) /\ Ancestor(b, Len(a)) = a

(* Heights up to which two blocks have the same ancestors. *)
SharedHeights(a, b) ==
  { h \in 0..Len(a) : h <= Len(b) /\ \A i \in 1..h : a[i] = b[i] }

(* findRoot: the height of the last common ancestor. *)
RootHeight(a, b) ==
  CHOOSE h \in SharedHeights(a, b) : \A i \in SharedHeights(a, b) : i <= h

(* A defeat count that is one block short. *)
DefeatCountShort(b, root) == (Time(b) - b[root + 1].at) \div Window

(***************************************************************************)
(* getRewriteDefeatCount: how many blocks a shorter branch forking at      *)
(* height root needs to be compared with b at all.                         *)
(***************************************************************************)
DefeatCount(b, root) == ((Time(b) - b[root + 1].at) \div Window) + 1

(* Heights at which a's header is strictly more charming than b's. *)
Wins(a, b, root) ==
  { h \in (root + 1)..Len(a) : h <= Len(b) /\ a[h].charm < b[h].charm }

(* BlockHeader::compare at one height: the sign of the charms. *)
CharmSign(a, b, h) ==
  IF a[h].charm < b[h].charm THEN -1 ELSE IF b[h].charm < a[h].charm THEN 1 ELSE 0

Sign(n) == IF n < 0 THEN -1 ELSE IF n > 0 THEN 1 ELSE 0

(* A comparison whose length test looks at one side only. *)
CompareForkOneSided(a, b, root) ==
  LET seg == (IF Len(a) < Len(b) THEN Len(a) ELSE Len(b)) - root
      score == Cardinality(Wins(b, a, root)) - Cardinality(Wins(a, b, root))
  IN  IF seg < Len(a) - root /\ seg < DefeatCount(a, root) THEN -1
      ELSE IF score = 0 THEN CharmSign(a, b, root + 1) ELSE Sign(score)

(* A comparison that leaves an even score undecided. *)
CompareForkUndecided(a, b, root) ==
  LET seg == (IF Len(a) < Len(b) THEN Len(a) ELSE Len(b)) - root
      score == Cardinality(Wins(b, a, root)) - Cardinality(Wins(a, b, root))
  IN  CASE seg < Len(a) - root /\ seg < DefeatCount(a, root) -> -1
        [] seg < Len(b) - root /\ seg < DefeatCount(b, root) -> 1
        [] OTHER -> Sign(score)

(* A comparison that sets the headers against each other from the tips. *)
CompareForkFromTips(a, b, root) ==
  LET seg == (IF Len(a) < Len(b) THEN Len(a) ELSE Len(b)) - root
      won(x, y) == { i \in 0..(seg - 1) : x[Len(x) - i].charm < y[Len(y) - i].charm }
      score == Cardinality(won(b, a)) - Cardinality(won(a, b))
  IN  CASE seg < Len(a) - root /\ seg < DefeatCount(a, root) -> -1
        [] seg < Len(b) - root /\ seg < DefeatCount(b, root) -> 1
        [] OTHER -> IF score = 0 THEN CharmSign(a, b, root + 1) ELSE Sign(score)

(***************************************************************************)
(* compare on a real fork, neither branch an ancestor of the other: a      *)
(* longer branch wins outright over one too short to defeat it; otherwise  *)
(* the common stretch is scored block by block, and an even score goes to  *)
(* the better block right above the fork, the last one the loop visits.    *)
(***************************************************************************)
CompareFork(a, b, root) ==
  LET seg == (IF Len(a) < Len(b) THEN Len(a) ELSE Len(b)) - root
      score == Cardinality(Wins(b, a, root)) - Cardinality(Wins(a, b, root))
  IN  CASE seg < Len(a) - root /\ seg < DefeatCount(a, root) -> -1
        [] seg < Len(b) - root /\ seg < DefeatCount(b, root) -> 1
        [] OTHER -> IF score = 0 THEN CharmSign(a, b, root + 1) ELSE Sign(score)

(* compare: -1 when a is better, 1 when b is, and the extension of a branch *)
(* is better than the branch.                                               *)
Compare(a, b) ==
  LET root == RootHeight(a, b)
  IN  IF a = b THEN 0
      ELSE IF root = Len(b) THEN -1
      ELSE IF root = Len(a) THEN 1
      ELSE CompareFork(a, b, root)

=============================================================================
