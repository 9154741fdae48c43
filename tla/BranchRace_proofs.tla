-------------------------- MODULE BranchRace_proofs --------------------------
(***************************************************************************)
(* What holds of every race between two branches, whatever the number of   *)
(* miners, the rewrite window, the block delay and the bounds.             *)
(***************************************************************************)
EXTENDS BranchRace, BranchOrder_proofs

(* Every charm of a branch is the one its miner has at that height. *)
Drawn(b) == \A h \in 1..Len(b) : b[h].charm = (b[h].by + ((h - 1) % 2)) % Miners

IInv == TypeOK /\ Drawn(left) /\ Drawn(right)

(* The headers of a race can be read by compare. *)
LEMMA HeadersReadable == Readable(Header)
BY RaceAssumption DEF Readable, Header, Miner

(* A block that follows a branch has a legal header and its miner's charm. *)
LEMMA NextBlocksAreLegal ==
  ASSUME NEW b \in Seq(Header), Drawn(b), NEW c \in NextBlocks(b)
  PROVE  c \in Seq(Header) /\ Drawn(c)
PROOF
  <1>1. PICK m \in Miner, t \in (Time(b) + Delay)..MaxTime :
          c = Append(b, [by |-> m, at |-> t, charm |-> NextCharm(b, m), provisional |-> FALSE])
    BY DEF NextBlocks
  <1> DEFINE header == [by |-> m, at |-> t, charm |-> NextCharm(b, m), provisional |-> FALSE]
  <1>2. Len(b) \in Nat /\ Time(b) \in Nat
    <2>1. CASE b = <<>>
      BY <2>1 DEF Time
    <2>2. CASE b # <<>>
      <3>1. b[Len(b)] \in Header
        BY <2>2
      <3>2. b[Len(b)].at \in Nat
        BY <3>1, HeadersReadable DEF Readable
      <3> QED
        BY <2>2, <3>2 DEF Time
    <2> QED
      BY <2>1, <2>2
  <1>3. t \in 0..MaxTime
    BY <1>2, RaceAssumption
  <1>4. NextCharm(b, m) \in Miner /\ NextCharm(b, m) = (m + (Len(b) % 2)) % Miners
    <2>1. m + (Len(b) % 2) \in Int
      BY <1>2, RaceAssumption DEF Miner
    <2> QED
      BY <2>1, RaceAssumption DEF NextCharm, Miner
  <1>5. header \in Header
    BY <1>3, <1>4 DEF Header
  <1>6. c \in Seq(Header) /\ Len(c) = Len(b) + 1 /\ c[Len(b) + 1] = header
    BY <1>1, <1>5
  <1>7. \A h \in 1..Len(b) : c[h] = b[h]
    BY <1>1, <1>5
  <1>8. Drawn(c)
    <2> SUFFICES ASSUME NEW h \in 1..Len(c)
                 PROVE  c[h].charm = (c[h].by + ((h - 1) % 2)) % Miners
      BY DEF Drawn
    <2>1. CASE h \in 1..Len(b)
      BY <1>7, <2>1 DEF Drawn
    <2>2. CASE h = Len(b) + 1
      <3>1. h - 1 = Len(b)
        BY <1>2, <2>2
      <3> QED
        BY <1>4, <1>6, <2>2, <3>1
    <2> QED
      BY <1>2, <1>6, <2>1, <2>2
  <1> QED
    BY <1>6, <1>8

(* The inductive invariant of the race. *)
LEMMA RaceInvariant == Spec => []IInv
PROOF
  <1>1. Init => IInv
    BY DEF Init, IInv, TypeOK, Drawn
  <1>2. IInv /\ [Next]_vars => IInv'
    <2> SUFFICES ASSUME IInv, [Next]_vars PROVE IInv'
      OBVIOUS
    <2>1. CASE ExtendLeft
      BY <2>1, NextBlocksAreLegal DEF IInv, TypeOK, ExtendLeft, Drawn
    <2>2. CASE ExtendRight
      BY <2>2, NextBlocksAreLegal DEF IInv, TypeOK, ExtendRight, Drawn
    <2>3. CASE UNCHANGED vars
      BY <2>3 DEF IInv, TypeOK, Drawn, vars
    <2> QED
      BY <2>1, <2>2, <2>3 DEF Next
  <1> QED
    BY <1>1, <1>2, PTL DEF Spec

(***************************************************************************)
(* compare gives opposite answers to the two nodes that hold the branches  *)
(* in opposite roles.                                                      *)
(***************************************************************************)
THEOREM AlwaysAntisymmetric == Spec => []Antisymmetric
PROOF
  <1>1. IInv => Antisymmetric
    BY HeadersReadable, CompareAntisymmetric DEF IInv, TypeOK, Antisymmetric
  <1> QED
    BY <1>1, RaceInvariant, PTL

(* Numbers of windows: x spans n of them, so it is not short of n. *)
LEMMA SpansWindows ==
  ASSUME NEW x \in Nat, NEW n \in Nat, NEW w \in Nat \ {0}, x >= n * w
  PROVE  n < (x \div w) + 1
PROOF
  <1> DEFINE q == x \div w
  <1>1. q \in Nat /\ x < (q + 1) * w
    OBVIOUS
  <1>2. q + 1 <= n => (q + 1) * w <= n * w
    BY <1>1
  <1> QED
    BY <1>1, <1>2

(***************************************************************************)
(* A branch of n blocks above the fork loses to a longer one that spans n  *)
(* rewrite windows there, however charming it is.                          *)
(***************************************************************************)
THEOREM RewritesAlwaysCostBlocks == Spec => []RewritesCostBlocks
PROOF
  <1>1. IInv => RewritesCostBlocks
    <2> DEFINE root == RootHeight(left, right)
    <2> DEFINE n == Len(right) - root
    <2> SUFFICES ASSUME IInv, n > 0, Len(left) > Len(right),
                        Time(left) - left[root + 1].at >= n * Window
                 PROVE  Compare(left, right) = -1
      BY DEF RewritesCostBlocks
    <2>1. left \in Seq(Header) /\ right \in Seq(Header)
      BY DEF IInv, TypeOK
    <2>2. root \in Nat /\ root <= Len(left) /\ root <= Len(right)
      BY <2>1, RootFacts DEF SharedHeights
    <2>3. root < Len(right) /\ root < Len(left) /\ left # right /\ n \in Nat
      BY <2>1, <2>2
    <2>4. Time(left) \in Nat /\ left[root + 1].at \in Nat
      BY <2>1, <2>2, <2>3, HeadersReadable, DefeatCountType
    <2>5. Time(left) - left[root + 1].at \in Nat
      <3>1. n * Window \in Nat
        BY <2>3, WindowAssumption
      <3> QED
        BY <2>4, <3>1
    <2>6. n < DefeatCount(left, root)
      BY <2>3, <2>5, WindowAssumption, SpansWindows DEF DefeatCount
    <2>7. (IF Len(left) < Len(right) THEN Len(left) ELSE Len(right)) - root = n
      BY <2>1
    <2>8. n < Len(left) - root
      BY <2>1, <2>2
    <2>9. ~(n < Len(right) - root)
      BY <2>1, <2>2
    <2>10. CompareFork(left, right, root) = -1
      BY <2>6, <2>7, <2>8, <2>9 DEF CompareFork
    <2> QED
      BY <2>2, <2>3, <2>10 DEF Compare
  <1> QED
    BY <1>1, RaceInvariant, PTL

(* Two miners never draw the same charm at the same height. *)
LEMMA CharmsAreDistinct ==
  ASSUME NEW m \in Miner, NEW n \in Miner, NEW p \in {0, 1},
         (m + p) % Miners = (n + p) % Miners
  PROVE  m = n
BY RaceAssumption DEF Miner

(***************************************************************************)
(* Only branches whose blocks above the fork are the same miner's can tie. *)
(***************************************************************************)
THEOREM TiesAreEquivocations == Spec => []TieMeansEquivocation
PROOF
  <1>1. IInv => TieMeansEquivocation
    <2> DEFINE root == RootHeight(left, right)
    <2> DEFINE l == left[root + 1]
    <2> DEFINE r == right[root + 1]
    <2> SUFFICES ASSUME IInv, Compare(left, right) = 0, left # right
                 PROVE  l.by = r.by
      BY DEF TieMeansEquivocation
    <2>1. left \in Seq(Header) /\ right \in Seq(Header)
      BY DEF IInv, TypeOK
    <2>2. root \in Nat /\ root <= Len(left) /\ root <= Len(right)
      BY <2>1, RootFacts DEF SharedHeights
    <2>3. root # Len(left) /\ root # Len(right) /\ CompareFork(left, right, root) = 0
      BY DEF Compare
    <2>4. root + 1 \in 1..Len(left) /\ root + 1 \in 1..Len(right)
      BY <2>1, <2>2, <2>3
    <2>5. CharmSign(left, right, root + 1) = 0
      <3> DEFINE score == Cardinality(Wins(right, left, root)) - Cardinality(Wins(left, right, root))
      <3>1. score \in Int
        <4>1. Cardinality(Wins(right, left, root)) \in Nat
          BY <2>1, <2>2, WinsCounted
        <4>2. Cardinality(Wins(left, right, root)) \in Nat
          BY <2>1, <2>2, WinsCounted
        <4> QED
          BY <4>1, <4>2
      <3>2. \/ score = 0 /\ CharmSign(left, right, root + 1) = 0
            \/ score # 0 /\ Sign(score) = 0
        BY <2>3 DEF CompareFork
      <3>3. score # 0 => Sign(score) # 0
        BY <3>1 DEF Sign
      <3> QED
        BY <3>2, <3>3
    <2>6. l \in Header /\ r \in Header
      BY <2>1, <2>4
    <2>7. l.charm = r.charm
      <3>1. l.charm \in Nat /\ r.charm \in Nat
        BY <2>6, HeadersReadable DEF Readable
      <3>2. ~(l.charm < r.charm) /\ ~(r.charm < l.charm)
        BY <2>5 DEF CharmSign
      <3> QED
        BY <3>1, <3>2
    <2>8. l.charm = (l.by + (root % 2)) % Miners /\ r.charm = (r.by + (root % 2)) % Miners
      <3>1. (root + 1) - 1 = root
        BY <2>2
      <3> QED
        BY <2>4, <3>1 DEF IInv, Drawn
    <2>9. l.by \in Miner /\ r.by \in Miner
      BY <2>6 DEF Header
    <2>10. root % 2 \in {0, 1}
      BY <2>2
    <2>11. (l.by + (root % 2)) % Miners = (r.by + (root % 2)) % Miners
      BY <2>7, <2>8
    <2> QED
      BY <2>9, <2>10, <2>11, CharmsAreDistinct
  <1> QED
    BY <1>1, RaceInvariant, PTL

(* The later of two times needs at least as many windows. *)
LEMMA WindowsGrow ==
  ASSUME NEW x \in Int, NEW y \in Int, NEW w \in Nat \ {0}, x <= y
  PROVE  (x \div w) <= (y \div w)
PROOF
  <1> DEFINE p == x \div w
  <1> DEFINE q == y \div w
  <1>1. p \in Int /\ p * w <= x
    OBVIOUS
  <1>2. q \in Int /\ y < (q + 1) * w
    OBVIOUS
  <1>3. p * w < (q + 1) * w
    BY <1>1, <1>2
  <1>4. q + 1 <= p => (q + 1) * w <= p * w
    BY <1>1, <1>2
  <1> QED
    BY <1>1, <1>2, <1>3, <1>4

(* One more block on a branch: the rest stays, and time does not go back. *)
LEMMA NextBlockGrows ==
  ASSUME NEW a \in Seq(Header), NEW c \in NextBlocks(a), c \in Seq(Header)
  PROVE  /\ Len(c) = Len(a) + 1
         /\ \A h \in 1..Len(a) : c[h] = a[h]
         /\ Time(a) \in Nat /\ Time(c) \in Nat /\ Time(a) <= Time(c)
PROOF
  <1>1. PICK m \in Miner, t \in (Time(a) + Delay)..MaxTime :
          c = Append(a, [by |-> m, at |-> t, charm |-> NextCharm(a, m), provisional |-> FALSE])
    BY DEF NextBlocks
  <1> DEFINE header == [by |-> m, at |-> t, charm |-> NextCharm(a, m), provisional |-> FALSE]
  <1>2. /\ Len(c) = Len(a) + 1 /\ c[Len(a) + 1] = header
        /\ \A h \in 1..Len(a) : c[h] = a[h]
    BY <1>1
  <1>3. Time(a) \in Nat
    <2>1. CASE a = <<>>
      BY <2>1 DEF Time
    <2>2. CASE a # <<>>
      <3>1. a[Len(a)] \in Header
        BY <2>2
      <3> QED
        BY <2>2, <3>1, HeadersReadable DEF Time, Readable
    <2> QED
      BY <2>1, <2>2
  <1>4. Time(c) = t
    BY <1>2 DEF Time
  <1> QED
    BY <1>2, <1>3, <1>4, RaceAssumption

(* Where the longer branch grows, the fork stays where it is. *)
LEMMA ForkStays ==
  ASSUME NEW a \in Seq(Header), NEW b \in Seq(Header), NEW c \in Seq(Header),
         Len(b) <= Len(a), Len(c) = Len(a) + 1, \A h \in 1..Len(a) : c[h] = a[h]
  PROVE  RootHeight(c, b) = RootHeight(a, b)
PROOF
  <1>1. SharedHeights(c, b) = SharedHeights(a, b)
    BY DEF SharedHeights
  <1> QED
    BY <1>1 DEF RootHeight

(* Where the leader of a fork grows, it still leads. *)
LEMMA ForkLeadGrows ==
  ASSUME NEW a \in Seq(Header), NEW b \in Seq(Header), NEW c \in Seq(Header), NEW root \in Nat,
         Len(b) <= Len(a), Len(c) = Len(a) + 1, \A h \in 1..Len(a) : c[h] = a[h],
         root < Len(b), Time(a) <= Time(c), CompareFork(a, b, root) = -1
  PROVE  CompareFork(c, b, root) = -1
PROOF
  <1>1. root < Len(a) /\ root < Len(c) /\ Len(b) < Len(c)
    OBVIOUS
  <1> DEFINE seg == Len(b) - root
  <1>2. /\ (IF Len(a) < Len(b) THEN Len(a) ELSE Len(b)) - root = seg
        /\ (IF Len(c) < Len(b) THEN Len(c) ELSE Len(b)) - root = seg
        /\ seg \in Nat /\ ~(seg < Len(b) - root)
    BY <1>1
  <1>3. CASE seg < Len(a) - root /\ seg < DefeatCount(a, root)
    <2>1. /\ DefeatCount(a, root) \in Int /\ DefeatCount(c, root) \in Int
          /\ Time(a) \in Nat /\ Time(c) \in Nat /\ a[root + 1].at \in Nat
      BY <1>1, HeadersReadable, DefeatCountType
    <2>2. c[root + 1] = a[root + 1]
      BY <1>1
    <2>3. Time(a) - a[root + 1].at \in Int /\ Time(c) - a[root + 1].at \in Int
          /\ Time(a) - a[root + 1].at <= Time(c) - a[root + 1].at
      BY <2>1
    <2> DEFINE x == Time(a) - a[root + 1].at
    <2> DEFINE y == Time(c) - a[root + 1].at
    <2>4. x \div Window <= y \div Window
      <3>1. x \in Int /\ y \in Int /\ x <= y
        BY <2>3
      <3> HIDE DEF x, y
      <3> QED
        BY <3>1, WindowAssumption, WindowsGrow
    <2>5. DefeatCount(a, root) = (x \div Window) + 1 /\ DefeatCount(c, root) = (y \div Window) + 1
      BY <2>2 DEF DefeatCount
    <2>6. x \div Window \in Int /\ y \div Window \in Int
      BY <2>3, WindowAssumption
    <2>7. seg < DefeatCount(c, root)
      BY <1>2, <1>3, <2>4, <2>5, <2>6
    <2>8. seg < Len(c) - root
      BY <1>1
    <2> QED
      BY <1>2, <2>7, <2>8 DEF CompareFork
  <1>4. CASE ~(seg < Len(a) - root /\ seg < DefeatCount(a, root))
    <2>1. Wins(c, b, root) = Wins(a, b, root) /\ Wins(b, c, root) = Wins(b, a, root)
      BY <1>1 DEF Wins
    <2>2. CharmSign(c, b, root + 1) = CharmSign(a, b, root + 1)
      <3>1. c[root + 1] = a[root + 1]
        BY <1>1
      <3> QED
        BY <3>1 DEF CharmSign
    <2> DEFINE score == Cardinality(Wins(b, a, root)) - Cardinality(Wins(a, b, root))
    <2>3. (IF score = 0 THEN CharmSign(a, b, root + 1) ELSE Sign(score)) = -1
      BY <1>2, <1>4 DEF CompareFork
    <2>4. \/ seg < Len(c) - root /\ seg < DefeatCount(c, root)
          \/ ~(seg < Len(c) - root /\ seg < DefeatCount(c, root))
      OBVIOUS
    <2> QED
      BY <1>2, <2>1, <2>2, <2>3, <2>4 DEF CompareFork
  <1> QED
    BY <1>3, <1>4

(* The leader that is not the shorter branch still leads with a block more. *)
LEMMA LeaderGrows ==
  ASSUME NEW a \in Seq(Header), NEW b \in Seq(Header), NEW c \in NextBlocks(a),
         c \in Seq(Header), Leads(a, b)
  PROVE  Leads(c, b)
PROOF
  <1> DEFINE root == RootHeight(a, b)
  <1>1. /\ Len(c) = Len(a) + 1 /\ \A h \in 1..Len(a) : c[h] = a[h]
        /\ Time(a) <= Time(c)
    BY NextBlockGrows
  <1>2. Len(b) <= Len(a) /\ Len(b) <= Len(c) /\ c # b
    BY <1>1 DEF Leads
  <1>3. RootHeight(c, b) = root
    BY <1>1, <1>2, ForkStays
  <1>4. root \in Nat /\ root <= Len(a) /\ root <= Len(b)
    BY RootFacts DEF SharedHeights
  <1>5. CASE root = Len(b)
    BY <1>2, <1>3, <1>5 DEF Leads, Compare
  <1>6. CASE root # Len(b)
    <2>1. root # Len(a) /\ root # Len(c) /\ CompareFork(a, b, root) = -1
      BY <1>1, <1>2, <1>4, <1>6 DEF Leads, Compare
    <2>2. root < Len(b)
      BY <1>4, <1>6
    <2>3. CompareFork(c, b, root) = -1
      BY <1>1, <1>2, <1>4, <2>1, <2>2, ForkLeadGrows
    <2> QED
      BY <1>2, <1>3, <1>6, <2>1, <2>3 DEF Leads, Compare
  <1> QED
    BY <1>5, <1>6

(***************************************************************************)
(* Only the other branch can take the lead from one that is not shorter:   *)
(* its own next block never does.                                          *)
(***************************************************************************)
THEOREM LeadsAlwaysGrow == Spec => LeadGrows
PROOF
  <1>1. ASSUME IInv, IInv', [Next]_vars
        PROVE  [ /\ Leads(left, right) /\ right' = right => Leads(left', right')
                 /\ Leads(right, left) /\ left' = left => Leads(right', left') ]_vars
    <2> USE <1>1
    <2>1. /\ left \in Seq(Header) /\ right \in Seq(Header)
          /\ left' \in Seq(Header) /\ right' \in Seq(Header)
      BY DEF IInv, TypeOK
    <2>2. CASE ExtendLeft
      <3>1. left' # left
        BY <2>1, <2>2, NextBlockGrows DEF ExtendLeft
      <3>2. Leads(left, right) => Leads(left', right)
        BY <2>1, <2>2, LeaderGrows DEF ExtendLeft
      <3> QED
        BY <3>1, <3>2, <2>2 DEF ExtendLeft
    <2>3. CASE ExtendRight
      <3>1. right' # right
        BY <2>1, <2>3, NextBlockGrows DEF ExtendRight
      <3>2. Leads(right, left) => Leads(right', left)
        BY <2>1, <2>3, LeaderGrows DEF ExtendRight
      <3> QED
        BY <3>1, <3>2, <2>3 DEF ExtendRight
    <2>4. CASE UNCHANGED vars
      BY <2>4
    <2> QED
      BY <2>2, <2>3, <2>4 DEF Next
  <1> QED
    BY <1>1, RaceInvariant, PTL DEF Spec, LeadGrows

=============================================================================
