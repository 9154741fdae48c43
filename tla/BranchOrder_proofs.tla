------------------------- MODULE BranchOrder_proofs -------------------------
(***************************************************************************)
(* Facts about the order on branches: where two branches fork, that the    *)
(* order is antisymmetric, and what a branch must do to win outright.      *)
(***************************************************************************)
EXTENDS BranchOrder, WellFoundedInduction, FiniteSetTheorems, TLAPS

(* Headers that compare can read. *)
Readable(S) == \A header \in S : header.at \in Nat /\ header.charm \in Nat

(* A set of naturals that is not empty has a least element. *)
LEMMA LeastExists ==
  ASSUME NEW S \in SUBSET Nat, S # {}
  PROVE  \E m \in S : \A i \in S : m <= i
PROOF
  <1>1. PICK m \in S : \A i \in S : ~(<<i, m>> \in OpToRel(<, Nat))
    BY NatLessThanWellFounded, WFMin
  <1>2. ASSUME NEW i \in S, i < m PROVE FALSE
    <2>1. <<i, m>> \in Nat \X Nat /\ <<i, m>>[1] < <<i, m>>[2]
      BY <1>2
    <2>2. <<i, m>> \in OpToRel(<, Nat)
      BY <2>1 DEF OpToRel
    <2> QED
      BY <1>1, <2>2
  <1> QED
    BY <1>2

(* One that is bounded has a greatest element. *)
LEMMA GreatestExists ==
  ASSUME NEW n \in Nat, NEW S \in SUBSET (0..n), S # {}
  PROVE  \E m \in S : \A i \in S : i <= m
PROOF
  <1> DEFINE T == { n - i : i \in S }
  <1>1. \A i \in S : i \in Nat /\ n - i \in Nat
    OBVIOUS
  <1>2. T \in SUBSET Nat /\ T # {}
    BY <1>1
  <1>3. PICK x \in T : \A y \in T : x <= y
    BY <1>2, LeastExists
  <1>4. PICK m \in S : x = n - m
    OBVIOUS
  <1>5. \A i \in S : n - m <= n - i
    BY <1>3, <1>4
  <1> QED
    BY <1>1, <1>5

(* The fork of two branches is the greatest height they share. *)
LEMMA RootFacts ==
  ASSUME NEW S, NEW a \in Seq(S), NEW b \in Seq(S)
  PROVE  /\ RootHeight(a, b) \in SharedHeights(a, b)
         /\ \A i \in SharedHeights(a, b) : i <= RootHeight(a, b)
PROOF
  <1>1. SharedHeights(a, b) \in SUBSET (0..Len(a)) /\ 0 \in SharedHeights(a, b)
    BY DEF SharedHeights
  <1>2. Len(a) \in Nat
    OBVIOUS
  <1>3. \E h \in SharedHeights(a, b) : \A i \in SharedHeights(a, b) : i <= h
    BY <1>1, <1>2, GreatestExists
  <1> QED
    BY <1>3 DEF RootHeight

(* It does not matter which of the two branches is looked at first. *)
LEMMA SharedSymmetric ==
  ASSUME NEW S, NEW a \in Seq(S), NEW b \in Seq(S)
  PROVE  SharedHeights(a, b) = SharedHeights(b, a)
BY DEF SharedHeights

LEMMA RootSymmetric ==
  ASSUME NEW S, NEW a \in Seq(S), NEW b \in Seq(S)
  PROVE  RootHeight(a, b) = RootHeight(b, a)
BY SharedSymmetric DEF RootHeight

(* Branches that end at their fork are equal. *)
LEMMA SharedAll ==
  ASSUME NEW S, NEW a \in Seq(S), NEW b \in Seq(S),
         RootHeight(a, b) = Len(a), RootHeight(a, b) = Len(b)
  PROVE  a = b
PROOF
  <1>1. Len(a) = Len(b) /\ \A i \in 1..Len(a) : a[i] = b[i]
    BY RootFacts DEF SharedHeights
  <1> QED
    BY <1>1

(* Scores are numbers. *)
LEMMA WinsCounted ==
  ASSUME NEW S, NEW a \in Seq(S), NEW b \in Seq(S), NEW root \in Nat
  PROVE  Cardinality(Wins(a, b, root)) \in Nat
PROOF
  <1>1. Wins(a, b, root) \in SUBSET ((root + 1)..Len(a))
    BY DEF Wins
  <1>2. root + 1 \in Int /\ Len(a) \in Int
    OBVIOUS
  <1>3. IsFiniteSet((root + 1)..Len(a))
    BY <1>2, FS_Interval
  <1> QED
    BY <1>1, <1>3, FS_Subset, FS_CardinalityType

(* The defeat count is a number. *)
LEMMA DefeatCountType ==
  ASSUME NEW S, Readable(S), NEW a \in Seq(S), NEW root \in 0..(Len(a) - 1)
  PROVE  /\ Time(a) \in Nat /\ a[root + 1].at \in Nat
         /\ DefeatCount(a, root) \in Int
PROOF
  <1>1. a[root + 1] \in S /\ a[Len(a)] \in S /\ a # <<>>
    OBVIOUS
  <1>2. Time(a) \in Nat /\ a[root + 1].at \in Nat
    BY <1>1 DEF Time, Readable
  <1>3. (Time(a) - a[root + 1].at) \div Window \in Int
    BY <1>2, WindowAssumption
  <1> QED
    BY <1>2, <1>3 DEF DefeatCount

(* The order on a real fork is antisymmetric. *)
LEMMA ForkAntisymmetric ==
  ASSUME NEW S, Readable(S), NEW a \in Seq(S), NEW b \in Seq(S), NEW root \in Nat,
         root < Len(a), root < Len(b)
  PROVE  CompareFork(a, b, root) + CompareFork(b, a, root) = 0
PROOF
  <1> DEFINE m == Cardinality(Wins(a, b, root))
  <1> DEFINE n == Cardinality(Wins(b, a, root))
  <1> DEFINE seg == (IF Len(a) < Len(b) THEN Len(a) ELSE Len(b)) - root
  <1> DEFINE ges == (IF Len(b) < Len(a) THEN Len(b) ELSE Len(a)) - root
  <1>1. m \in Nat /\ n \in Nat
    BY WinsCounted
  <1>2. Len(a) \in Nat /\ Len(b) \in Nat /\ root \in 0..(Len(a) - 1) /\ root \in 0..(Len(b) - 1)
    OBVIOUS
  <1>3. DefeatCount(a, root) \in Int /\ DefeatCount(b, root) \in Int
    BY <1>2, DefeatCountType
  <1>4. a[root + 1] \in S /\ b[root + 1] \in S
    BY <1>2
  <1>5. CharmSign(a, b, root + 1) + CharmSign(b, a, root + 1) = 0
    BY <1>4 DEF CharmSign, Readable
  <1>6. seg = ges /\ seg \in Int
    BY <1>2
  <1>7. ~(seg < Len(a) - root /\ seg < Len(b) - root)
    BY <1>2
  <1>8. Sign(n - m) + Sign(m - n) = 0 /\ (n - m = 0 <=> m - n = 0)
    BY <1>1 DEF Sign
  <1>9. CompareFork(a, b, root) =
          (CASE seg < Len(a) - root /\ seg < DefeatCount(a, root) -> -1
             [] seg < Len(b) - root /\ seg < DefeatCount(b, root) -> 1
             [] OTHER -> IF n - m = 0 THEN CharmSign(a, b, root + 1) ELSE Sign(n - m))
    BY DEF CompareFork
  <1>10. CompareFork(b, a, root) =
          (CASE ges < Len(b) - root /\ ges < DefeatCount(b, root) -> -1
             [] ges < Len(a) - root /\ ges < DefeatCount(a, root) -> 1
             [] OTHER -> IF m - n = 0 THEN CharmSign(b, a, root + 1) ELSE Sign(m - n))
    BY DEF CompareFork
  <1> HIDE DEF m, n, seg, ges
  <1>11. CASE seg < Len(a) - root /\ seg < DefeatCount(a, root)
    BY <1>11, <1>2, <1>3, <1>6, <1>7, <1>9, <1>10
  <1>12. CASE seg < Len(b) - root /\ seg < DefeatCount(b, root)
    BY <1>12, <1>2, <1>3, <1>6, <1>7, <1>9, <1>10
  <1>13. CASE /\ ~(seg < Len(a) - root /\ seg < DefeatCount(a, root))
              /\ ~(seg < Len(b) - root /\ seg < DefeatCount(b, root))
    BY <1>13, <1>5, <1>6, <1>8, <1>9, <1>10
  <1> QED
    BY <1>11, <1>12, <1>13

(* So is the order on all branches. *)
LEMMA CompareAntisymmetric ==
  ASSUME NEW S, Readable(S), NEW a \in Seq(S), NEW b \in Seq(S)
  PROVE  Compare(a, b) + Compare(b, a) = 0
PROOF
  <1> DEFINE root == RootHeight(a, b)
  <1>1. root = RootHeight(b, a)
    BY RootSymmetric
  <1>2. root \in Nat /\ root <= Len(a) /\ root <= Len(b)
    BY RootFacts DEF SharedHeights
  <1> HIDE DEF root
  <1>3. CASE a = b
    <2>1. Compare(a, b) = 0 /\ Compare(b, a) = 0
      BY <1>3 DEF Compare
    <2> QED
      BY <2>1
  <1>4. CASE a # b /\ root = Len(b)
    <2>1. root # Len(a)
      BY <1>4, SharedAll DEF root
    <2>2. Compare(a, b) = -1
      BY <1>4 DEF Compare, root
    <2>3. Compare(b, a) = 1
      BY <1>1, <1>4, <2>1 DEF Compare, root
    <2> QED
      BY <2>2, <2>3
  <1>5. CASE a # b /\ root = Len(a)
    <2>1. root # Len(b)
      BY <1>5, SharedAll DEF root
    <2>2. Compare(a, b) = 1
      BY <1>5, <2>1 DEF Compare, root
    <2>3. Compare(b, a) = -1
      BY <1>1, <1>5 DEF Compare, root
    <2> QED
      BY <2>2, <2>3
  <1>6. CASE a # b /\ root # Len(a) /\ root # Len(b)
    <2>1. root < Len(a) /\ root < Len(b)
      BY <1>2, <1>6
    <2>2. CompareFork(a, b, root) + CompareFork(b, a, root) = 0
      BY <1>2, <2>1, ForkAntisymmetric
    <2>3. Compare(a, b) = CompareFork(a, b, root)
      BY <1>6 DEF Compare, root
    <2>4. Compare(b, a) = CompareFork(b, a, root)
      BY <1>1, <1>6 DEF Compare, root
    <2> QED
      BY <2>2, <2>3, <2>4
  <1> QED
    BY <1>3, <1>4, <1>5, <1>6

=============================================================================
