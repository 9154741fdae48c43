---------------------------- MODULE Ledger_proofs ----------------------------
(***************************************************************************)
(* What the operations of an inventory and the transactions of a ledger    *)
(* keep true, for any number of accounts, assets, offers and transactions. *)
(***************************************************************************)
EXTENDS Ledger, FiniteSetTheorems, NaturalsInduction, TLAPS

-----------------------------------------------------------------------------
(* Assets and inventories. *)

(* A set of natural numbers has a least element. *)
LEMMA LeastExists ==
  ASSUME NEW S \in SUBSET Nat, S # {}
  PROVE  \E m \in S : \A i \in S : m <= i
PROOF
  <1>1. PICK m \in S : \A i \in S : ~(<<i, m>> \in OpToRel(<, Nat))
    BY NatLessThanWellFounded, WFMin
  <1>2. ASSUME NEW i \in S, i < m PROVE FALSE
    <2>1. <<i, m>> \in Nat \X Nat /\ <<i, m>>[1] < <<i, m>>[2]
      BY <1>2
    <2>2. <<i, m>> \in OpToRel(<, Nat)
      BY <2>1 DEF OpToRel
    <2> QED
      BY <1>1, <2>2
  <1> QED
    BY <1>2

LEMMA AssetFacts ==
  /\ IsFiniteSet(Asset) /\ Cardinality(Asset) \in Nat /\ Cardinality(Asset) < Width
  /\ Width \in Nat /\ Asset = 0..(Cardinality(Asset) - 1) /\ Asset \subseteq Nat
  /\ Nobody \notin Account /\ Nobody \notin Asset
PROOF
  <1>1. IsFiniteSet(Asset) /\ Cardinality(Asset) \in Nat
    BY InventoryAssumption, FS_CardinalityType
  <1> QED
    BY <1>1, InventoryAssumption

(* No account owns more assets than there are. *)
LEMMA OwnedFacts ==
  ASSUME NEW I, Typed(I), NEW x \in Account
  PROVE  /\ Owned(I, x) \in SUBSET Asset /\ IsFiniteSet(Owned(I, x))
         /\ Cardinality(Owned(I, x)) \in 0..Cardinality(Asset)
PROOF
  <1>1. Owned(I, x) \in SUBSET Asset
    BY DEF Owned
  <1>2. /\ IsFiniteSet(Owned(I, x))
        /\ Cardinality(Owned(I, x)) <= Cardinality(Asset)
    BY <1>1, AssetFacts, FS_Subset
  <1>3. Cardinality(Owned(I, x)) \in Nat
    BY <1>2, FS_CardinalityType
  <1> QED
    BY <1>1, <1>2, <1>3, AssetFacts

(* Every place of an exact inventory is taken by an asset that is owned. *)
LEMMA PlacesTaken ==
  ASSUME NEW I, Typed(I), NEW x \in Account, Exact(I, x), NEW i \in 0..(I.count[x] - 1)
  PROVE  I.slot[x][i] \in Owned(I, x) /\ I.position[I.slot[x][i]] = i
PROOF
  <1> DEFINE place == [a \in Owned(I, x) |-> I.position[a]]
  <1>1. I.count[x] \in Nat /\ I.count[x] = Cardinality(Owned(I, x))
    BY OwnedFacts, AssetFacts DEF Exact
  <1>2. ASSUME NEW a \in Owned(I, x) PROVE I.position[a] \in 0..(I.count[x] - 1)
    <2>1. a \in Asset /\ I.position[a] \in 0..(Width - 1)
      BY OwnedFacts DEF Typed, Index
    <2>2. I.position[a] < I.count[x]
      BY DEF Exact
    <2> QED
      BY <1>1, <2>1, <2>2
  <1>3. place \in Injection(Owned(I, x), 0..(I.count[x] - 1))
    <2>1. place \in [Owned(I, x) -> 0..(I.count[x] - 1)]
      BY <1>2
    <2>2. ASSUME NEW a \in Owned(I, x), NEW b \in Owned(I, x), place[a] = place[b] PROVE a = b
      BY <2>2 DEF Exact
    <2> QED
      BY <2>1, <2>2 DEF Injection, IsInjective
  <1>4. /\ IsFiniteSet(0..(I.count[x] - 1))
        /\ Cardinality(0..(I.count[x] - 1)) = I.count[x]
    BY <1>1, FS_Interval
  <1> HIDE DEF place
  <1>5. place \in Surjection(Owned(I, x), 0..(I.count[x] - 1))
    BY <1>1, <1>3, <1>4, FS_Injection
  <1>6. PICK a \in Owned(I, x) : place[a] = i
    BY <1>5 DEF Surjection
  <1> QED
    BY <1>6 DEF place, Exact

-----------------------------------------------------------------------------
(* Single assets. *)

(* What is left alone when inventories change hands. *)
SameOffers(I, J) == J.offer = I.offer /\ J.open = I.open /\ J.awarded = I.awarded

(* Where an asset is, and which is the last of its inventory. *)
LEMMA LastListed ==
  ASSUME NEW I, Typed(I), NEW x \in Account, Exact(I, x), NEW a \in Owned(I, x)
  PROVE  LET tail == I.slot[x][I.count[x] - 1]
         IN  /\ I.count[x] \in 1..Cardinality(Asset)
             /\ I.position[a] \in 0..(I.count[x] - 1)
             /\ tail \in Owned(I, x) /\ I.position[tail] = I.count[x] - 1
PROOF
  <1>1. a \in Asset /\ I.position[a] \in 0..(Width - 1) /\ I.position[a] < I.count[x]
    BY OwnedFacts DEF Typed, Index, Exact
  <1>2. I.count[x] \in 1..Cardinality(Asset) /\ I.position[a] \in 0..(I.count[x] - 1)
    BY <1>1, OwnedFacts, AssetFacts DEF Exact
  <1>3. I.count[x] - 1 \in 0..(I.count[x] - 1)
    BY <1>2
  <1>4. /\ I.slot[x][I.count[x] - 1] \in Owned(I, x)
        /\ I.position[I.slot[x][I.count[x] - 1]] = I.count[x] - 1
    BY <1>3, PlacesTaken
  <1> QED
    BY <1>2, <1>4

(* An asset is taken out of the inventory of its owner. *)
LEMMA TakenOut ==
  ASSUME NEW I, Typed(I), NEW x \in Account, Exact(I, x), NEW a \in Owned(I, x)
  PROVE  LET J == TakeOut(I, x, a)
             tail == I.slot[x][I.count[x] - 1]
         IN  /\ DOMAIN J = DOMAIN I /\ SameOffers(I, J)
             /\ J.owner = I.owner /\ J.offered = I.offered
             /\ J.count = [I.count EXCEPT ![x] = I.count[x] - 1]
             /\ J.position = [I.position EXCEPT ![tail] = I.position[a]]
             /\ J.slot = [I.slot EXCEPT ![x][I.position[a]] = tail]
PROOF
  <1> DEFINE p == I.position[a]
  <1> DEFINE tail == I.slot[x][I.count[x] - 1]
  <1> DEFINE F == [I EXCEPT !.slot[x][p] = tail, !.position[tail] = p]
  <1> DEFINE G == [F EXCEPT !.count[x] = (@ - 1) % Width]
  <1>1. I.count[x] \in 1..Cardinality(Asset) /\ p \in 0..(I.count[x] - 1)
    BY LastListed
  <1>2. p < I.count[x]
    BY <1>1
  <1>3. TakeOut(I, x, a) = G
    BY <1>2 DEF TakeOut, Filled
  <1>4. (I.count[x] - 1) % Width = I.count[x] - 1
    <2>1. I.count[x] - 1 \in 0..(Width - 1)
      BY <1>1, AssetFacts
    <2> QED
      BY <2>1, AssetFacts
  <1>5. DOMAIN I = {"owner", "position", "offered", "changed", "slot", "count", "log",
                    "offer", "open", "awarded"}
    BY DEF Typed, EmptyInventory
  <1> HIDE DEF p, tail
  <1>6. /\ DOMAIN F = DOMAIN I /\ F.offer = I.offer /\ F.open = I.open /\ F.awarded = I.awarded
        /\ F.owner = I.owner /\ F.offered = I.offered /\ F.count = I.count
        /\ F.position = [I.position EXCEPT ![tail] = p]
        /\ F.slot = [I.slot EXCEPT ![x][p] = tail]
    BY <1>5
  <1> HIDE DEF F
  <1>7. /\ DOMAIN G = DOMAIN F /\ G.offer = F.offer /\ G.open = F.open /\ G.awarded = F.awarded
        /\ G.owner = F.owner /\ G.offered = F.offered /\ G.position = F.position
        /\ G.slot = F.slot /\ G.count = [F.count EXCEPT ![x] = (F.count[x] - 1) % Width]
    BY <1>5, <1>6
  <1> HIDE DEF G
  <1> QED
    BY <1>1, <1>3, <1>4, <1>6, <1>7 DEF p, tail, SameOffers

(* A round of a transfer: what becomes of the fields. *)
LEMMA MovedFields ==
  ASSUME NEW I, Typed(I), InventoriesExact(I),
         NEW from \in Account, NEW to \in Account \ {from}, NEW a \in Owned(I, from)
  PROVE  LET J == MoveAsset(I, from, to, a)
             tail == I.slot[from][I.count[from] - 1]
             end == I.count[to]
             out == [I.position EXCEPT ![tail] = I.position[a]]
         IN  /\ DOMAIN J = DOMAIN I /\ SameOffers(I, J)
             /\ J.owner = [I.owner EXCEPT ![a] = to]
             /\ J.offered = [I.offered EXCEPT ![a] = NoOffer]
             /\ J.count = [[I.count EXCEPT ![from] = I.count[from] - 1] EXCEPT ![to] = end + 1]
             /\ J.position = [out EXCEPT ![a] = end]
             /\ J.slot = [[I.slot EXCEPT ![from][I.position[a]] = tail] EXCEPT ![to][end] = a]
             /\ end \in 0..(Cardinality(Asset) - 1)
PROOF
  <1> DEFINE tail == I.slot[from][I.count[from] - 1]
  <1> DEFINE end == I.count[to]
  <1> DEFINE O == TakeOut(I, from, a)
  <1> DEFINE G == [O EXCEPT !.owner[a] = to, !.offered[a] = NoOffer, !.position[a] = end,
                            !.slot[to][end] = a, !.count[to] = (@ + 1) % Width]
  <1>1. /\ DOMAIN O = DOMAIN I /\ SameOffers(I, O)
        /\ O.owner = I.owner /\ O.offered = I.offered
        /\ O.count = [I.count EXCEPT ![from] = I.count[from] - 1]
        /\ O.position = [I.position EXCEPT ![tail] = I.position[a]]
        /\ O.slot = [I.slot EXCEPT ![from][I.position[a]] = tail]
    <2>1. Exact(I, from)
      BY DEF InventoriesExact
    <2> QED
      BY <2>1, TakenOut
  <1>2. a \in Asset /\ a \notin Owned(I, to)
    BY OwnedFacts DEF Owned
  <1>3. end = Cardinality(Owned(I, to)) /\ end \in Nat
    BY OwnedFacts, AssetFacts DEF InventoriesExact, Exact
  <1>4. end + 1 \in 0..Cardinality(Asset)
    <2>1. Owned(I, to) \cup {a} \in SUBSET Asset
      BY <1>2, OwnedFacts
    <2>2. Cardinality(Owned(I, to) \cup {a}) = end + 1
      BY <1>2, <1>3, OwnedFacts, FS_AddElement
    <2>3. Cardinality(Owned(I, to) \cup {a}) <= Cardinality(Asset)
      BY <2>1, AssetFacts, FS_Subset
    <2> QED
      BY <1>3, <2>2, <2>3, AssetFacts
  <1>5. (end + 1) % Width = end + 1
    <2>1. end + 1 \in 0..(Width - 1)
      BY <1>4, AssetFacts
    <2> QED
      BY <2>1, AssetFacts
  <1>6. O.count[to] = end
    BY <1>1 DEF Typed
  <1>7. DOMAIN O = {"owner", "position", "offered", "changed", "slot", "count", "log",
                    "offer", "open", "awarded"}
    BY <1>1 DEF Typed, EmptyInventory
  <1>8. MoveAsset(I, from, to, a) = G
    BY DEF MoveAsset
  <1> HIDE DEF O, end, tail
  <1>9. /\ DOMAIN G = DOMAIN O /\ G.offer = O.offer /\ G.open = O.open /\ G.awarded = O.awarded
        /\ G.owner = [O.owner EXCEPT ![a] = to]
        /\ G.offered = [O.offered EXCEPT ![a] = NoOffer]
        /\ G.position = [O.position EXCEPT ![a] = end]
        /\ G.slot = [O.slot EXCEPT ![to][end] = a]
        /\ G.count = [O.count EXCEPT ![to] = (O.count[to] + 1) % Width]
    BY <1>7
  <1> HIDE DEF G
  <1>10. end \in 0..(Cardinality(Asset) - 1)
    BY <1>3, <1>4, AssetFacts
  <1> QED
    BY <1>1, <1>5, <1>6, <1>8, <1>9, <1>10 DEF SameOffers, end, tail

(* A round of a transfer keeps inventories exact. *)
LEMMA Moved ==
  ASSUME NEW I, Typed(I), InventoriesExact(I),
         NEW from \in Account, NEW to \in Account \ {from}, NEW a \in Owned(I, from)
  PROVE  LET J == MoveAsset(I, from, to, a)
         IN  /\ Typed(J) /\ InventoriesExact(J) /\ SameOffers(I, J)
             /\ J.owner = [I.owner EXCEPT ![a] = to]
             /\ J.offered = [I.offered EXCEPT ![a] = NoOffer]
PROOF
  <1> DEFINE J == MoveAsset(I, from, to, a)
  <1> DEFINE tail == I.slot[from][I.count[from] - 1]
  <1> DEFINE end == I.count[to]
  <1> DEFINE p == I.position[a]
  <1>1. /\ DOMAIN J = DOMAIN I /\ SameOffers(I, J)
        /\ J.owner = [I.owner EXCEPT ![a] = to]
        /\ J.offered = [I.offered EXCEPT ![a] = NoOffer]
        /\ J.count = [[I.count EXCEPT ![from] = I.count[from] - 1] EXCEPT ![to] = end + 1]
        /\ J.position = [[I.position EXCEPT ![tail] = p] EXCEPT ![a] = end]
        /\ J.slot = [[I.slot EXCEPT ![from][p] = tail] EXCEPT ![to][end] = a]
        /\ end \in 0..(Cardinality(Asset) - 1)
    BY MovedFields
  <1>2. /\ I.count[from] \in 1..Cardinality(Asset) /\ p \in 0..(I.count[from] - 1)
        /\ tail \in Owned(I, from) /\ I.position[tail] = I.count[from] - 1
    <2>1. Exact(I, from)
      BY DEF InventoriesExact
    <2> QED
      BY <2>1, LastListed
  <1> HIDE DEF J, tail, end, p
  <1>3. a \in Asset /\ tail \in Asset /\ end \in Index /\ end + 1 \in Index /\ p \in Index
        /\ I.count[from] - 1 \in Index /\ end \in Nat
    <2>1. a \in Asset /\ tail \in Asset
      BY <1>2, OwnedFacts
    <2> QED
      BY <1>1, <1>2, <2>1, AssetFacts DEF Index
  <1>4. Typed(J)
    <2>1. /\ J.owner \in [Asset -> Account \cup {Nobody}]
          /\ J.position \in [Asset -> Index]
          /\ J.count \in [Account -> Index]
          /\ J.offered \in [Asset -> Offers(I) \cup {NoOffer}]
      <3>1. /\ I.owner \in [Asset -> Account \cup {Nobody}]
            /\ I.position \in [Asset -> Index]
            /\ I.count \in [Account -> Index]
            /\ I.offered \in [Asset -> Offers(I) \cup {NoOffer}]
        BY DEF Typed
      <3> DEFINE L == [I.position EXCEPT ![tail] = p]
      <3>2. L \in [Asset -> Index] /\ J.position = [L EXCEPT ![a] = end]
        BY <1>1, <1>3, <3>1
      <3> HIDE DEF L
      <3>3. J.position \in [Asset -> Index]
        BY <1>3, <3>2
      <3> DEFINE M == [I.count EXCEPT ![from] = I.count[from] - 1]
      <3>4. M \in [Account -> Index] /\ J.count = [M EXCEPT ![to] = end + 1]
        BY <1>1, <1>3, <3>1
      <3> HIDE DEF M
      <3>5. J.count \in [Account -> Index]
        BY <1>3, <3>4
      <3> QED
        BY <1>1, <1>3, <3>1, <3>3, <3>5
    <2>2. J.slot \in [Account -> [Index -> Asset \cup {Nobody}]]
      <3> DEFINE L == [I.slot EXCEPT ![from][p] = tail]
      <3>1. L \in [Account -> [Index -> Asset \cup {Nobody}]]
        BY <1>3 DEF Typed
      <3>2. J.slot = [L EXCEPT ![to][end] = a]
        BY <1>1
      <3> HIDE DEF L
      <3> QED
        BY <1>3, <3>1, <3>2
    <2>3. Offers(J) = Offers(I)
      BY <1>1 DEF Offers, SameOffers
    <2> QED
      BY <1>1, <2>1, <2>2, <2>3 DEF Typed, SameOffers
  <1>5. ASSUME NEW x \in Account \ {from, to} PROVE Exact(J, x)
    <2>1. Owned(J, x) = Owned(I, x)
      BY <1>1, OwnedFacts DEF Owned, Typed
    <2>2. J.count[x] = I.count[x] /\ J.slot[x] = I.slot[x]
      BY <1>1 DEF Typed
    <2>3. ASSUME NEW b \in Owned(I, x) PROVE J.position[b] = I.position[b]
      <3>1. b \in Asset /\ b # a /\ b # tail
        BY <1>2 DEF Owned
      <3> QED
        BY <1>1, <1>3, <3>1 DEF Typed
    <2> QED
      BY <2>1, <2>2, <2>3 DEF InventoriesExact, Exact
  <1>6. Exact(J, to)
    <2>1. Owned(J, to) = Owned(I, to) \cup {a}
      BY <1>1, <1>3 DEF Owned, Typed
    <2>2. a \notin Owned(I, to)
      BY DEF Owned
    <2>3. Cardinality(Owned(J, to)) = end + 1
      <3>1. IsFiniteSet(Owned(I, to)) /\ end = Cardinality(Owned(I, to))
        BY OwnedFacts DEF InventoriesExact, Exact, end
      <3> QED
        BY <2>1, <2>2, <3>1, FS_AddElement
    <2>4. J.count[to] = end + 1
      BY <1>1 DEF Typed
    <2>5. /\ J.slot[to][end] = a
          /\ \A i \in Index \ {end} : J.slot[to][i] = I.slot[to][i]
      BY <1>1, <1>3 DEF Typed
    <2>6. J.position[a] = end
      BY <1>1, <1>3 DEF Typed
    <2>7. ASSUME NEW b \in Owned(I, to)
          PROVE  J.position[b] < end + 1 /\ J.slot[to][J.position[b]] = b
      <3>1. b \in Asset /\ b # a /\ b # tail
        BY <1>2, OwnedFacts DEF Owned
      <3>2. J.position[b] = I.position[b]
        BY <1>1, <1>3, <3>1 DEF Typed
      <3>3. I.position[b] < end /\ I.slot[to][I.position[b]] = b
        BY DEF InventoriesExact, Exact, end
      <3>4. I.position[b] \in Index
        BY <3>1 DEF Typed
      <3>5. J.slot[to][I.position[b]] = I.slot[to][I.position[b]]
        BY <1>1, <2>5, <3>3, <3>4 DEF Index
      <3> QED
        BY <1>1, <3>2, <3>3, <3>4, <3>5 DEF Index
    <2>8. end < end + 1
      BY <1>1
    <2> QED
      BY <2>1, <2>3, <2>4, <2>5, <2>6, <2>7, <2>8 DEF Exact
  <1>7. Exact(J, from)
    <2>1. Owned(J, from) = Owned(I, from) \ {a}
      BY <1>1, <1>3 DEF Owned, Typed
    <2>2. Cardinality(Owned(J, from)) = I.count[from] - 1
      BY <2>1, OwnedFacts, FS_RemoveElement DEF InventoriesExact, Exact
    <2>3. J.count[from] = I.count[from] - 1
      BY <1>1 DEF Typed
    <2>4. /\ J.slot[from][p] = tail
          /\ \A i \in Index \ {p} : J.slot[from][i] = I.slot[from][i]
      BY <1>1, <1>3 DEF Typed
    <2>5. ASSUME NEW b \in Owned(I, from) \ {a}
          PROVE  J.position[b] < I.count[from] - 1 /\ J.slot[from][J.position[b]] = b
      <3>1. b \in Asset /\ I.position[b] \in Index /\ I.count[from] \in Nat
        <4>1. b \in Asset /\ I.count[from] \in Nat
          BY <1>2, OwnedFacts, AssetFacts
        <4> QED
          BY <4>1 DEF Typed
      <3>2. /\ I.position[b] < I.count[from] /\ I.slot[from][I.position[b]] = b
            /\ I.slot[from][p] = a
        BY DEF InventoriesExact, Exact, p
      <3>3. CASE b = tail
        <4>1. J.position[b] = p
          BY <1>1, <1>3, <3>1, <3>3 DEF Typed
        <4>2. p # I.count[from] - 1
          BY <1>2, <3>2, <3>3
        <4> QED
          BY <1>2, <2>4, <3>3, <4>1, <4>2
      <3>4. CASE b # tail
        <4>1. J.position[b] = I.position[b]
          BY <1>1, <1>3, <3>1, <3>4 DEF Typed
        <4>2. I.position[b] # I.count[from] - 1
          BY <3>2, <3>4 DEF tail
        <4>3. I.position[b] # p
          BY <3>2
        <4>4. I.position[b] < I.count[from] - 1
          BY <3>1, <3>2, <4>2 DEF Index
        <4> QED
          BY <2>4, <3>1, <3>2, <4>1, <4>3, <4>4
      <3> QED
        BY <3>3, <3>4
    <2> QED
      BY <2>1, <2>2, <2>3, <2>5 DEF Exact
  <1>8. InventoriesExact(J)
    BY <1>5, <1>6, <1>7 DEF InventoriesExact
  <1> QED
    BY <1>1, <1>4, <1>8 DEF J

-----------------------------------------------------------------------------
(* Lists of assets. *)

(* Inventories that differ in what clients are told of them only. *)
SameBooks(I, J) ==
  /\ DOMAIN J = DOMAIN I /\ SameOffers(I, J)
  /\ J.owner = I.owner /\ J.position = I.position /\ J.offered = I.offered
  /\ J.slot = I.slot /\ J.count = I.count

LEMMA OnlyTold ==
  ASSUME NEW I, DOMAIN I = DOMAIN EmptyInventory, NEW x, NEW S, NEW D
  PROVE  SameBooks(I, Logged(I, x, S, D))
PROOF
  <1>1. DOMAIN I = {"owner", "position", "offered", "changed", "slot", "count", "log",
                    "offer", "open", "awarded"}
    BY DEF EmptyInventory
  <1> QED
    BY <1>1 DEF Logged, SameBooks, SameOffers

LEMMA SameBooksSound ==
  ASSUME NEW I, NEW J, SameBooks(I, J)
  PROVE  /\ Typed(I) => Typed(J)
         /\ InventoriesExact(I) => InventoriesExact(J)
         /\ Sound(I) => Sound(J)
PROOF
  <1>1. Typed(I) => Typed(J)
    BY DEF SameBooks, SameOffers, Typed, Offers
  <1>2. \A x : Owned(J, x) = Owned(I, x)
    BY DEF SameBooks, Owned
  <1>3. InventoriesExact(I) => InventoriesExact(J)
    BY <1>2 DEF SameBooks, InventoriesExact, Exact
  <1>4. Unsold(J) = Unsold(I)
    BY DEF SameBooks, SameOffers, Unsold, Offers
  <1>5. OffersBacked(I) => OffersBacked(J)
    BY <1>4 DEF SameBooks, SameOffers, OffersBacked, Backed
  <1>6. OfferedTogether(I) => OfferedTogether(J)
    BY DEF SameBooks, SameOffers, OfferedTogether
  <1>7. OnlyAwardedOwned(I) => OnlyAwardedOwned(J)
    BY DEF SameBooks, SameOffers, OnlyAwardedOwned
  <1> QED
    BY <1>1, <1>3, <1>5, <1>6, <1>7 DEF Sound

(* The assets S have gone to an account, and are not on offer there. *)
Gone(I, J, S, to) ==
  /\ SameOffers(I, J)
  /\ \A a \in Asset : /\ J.owner[a] = IF a \in S THEN to ELSE I.owner[a]
                      /\ J.offered[a] = IF a \in S THEN NoOffer ELSE I.offered[a]

(* A transfer is made of rounds, one for each asset of its list. *)
LEMMA TransferRounds ==
  ASSUME NEW I, NEW from, NEW to, NEW s \in Seq(Asset), HasRoom(I, to, Len(s))
  PROVE  \E after :
           /\ after[0] = I
           /\ \A i \in 1..Len(s) : after[i] = MoveAsset(after[i - 1], from, to, s[i])
           /\ TransferAssets(I, from, to, s) =
                Logged(Logged(after[Len(s)], from, {}, ToSet(s)), to, ToSet(s), {})
PROOF
  <1> DEFINE Turn(K, i) == MoveAsset(K, from, to, s[i])
  <1> DEFINE Follows(f, n) == f = [i \in 0..n |-> IF i = 0 THEN I ELSE Turn(f[i - 1], i)]
  <1> DEFINE N == Len(s)
  <1>1. N \in Nat
    OBVIOUS
  <1> HIDE DEF Turn, N
  <1>2. \A n \in 0..N : \E f : Follows(f, n)
    <2> DEFINE stuck == { n \in 0..N : ~ \E f : Follows(f, n) }
    <2> SUFFICES ASSUME stuck # {} PROVE FALSE
      OBVIOUS
    <2>1. stuck \in SUBSET Nat
      BY <1>1
    <2>2. PICK n \in stuck : \A i \in stuck : n <= i
      <3> HIDE DEF stuck
      <3> QED
        BY <2>1, LeastExists
    <2>3. n \in 0..N /\ ~ \E f : Follows(f, n)
      BY <2>2
    <2>4. CASE n = 0
      <3>1. Follows([i \in 0..0 |-> I], 0)
        OBVIOUS
      <3> QED
        BY <2>3, <2>4, <3>1
    <2>5. CASE n # 0
      <3>1. n \in Nat \ {0} /\ n - 1 \in 0..N
        BY <1>1, <2>3, <2>5
      <3>2. n - 1 \notin stuck
        BY <2>2, <3>1
      <3>3. PICK f : Follows(f, n - 1)
        BY <3>1, <3>2
      <3> DEFINE g == [i \in 0..n |-> IF i = n THEN Turn(f[n - 1], n) ELSE f[i]]
      <3>4. \A i \in 0..(n - 1) : f[i] = IF i = 0 THEN I ELSE Turn(f[i - 1], i)
        BY <3>3
      <3>5. ASSUME NEW i \in 0..n PROVE g[i] = IF i = 0 THEN I ELSE Turn(g[i - 1], i)
        <4>1. CASE i = n
          BY <3>1, <4>1
        <4>2. CASE i # n
          <5>1. i \in 0..(n - 1) /\ g[i] = f[i]
            BY <3>1, <4>2
          <5>2. i # 0 => i - 1 \in 0..n /\ i - 1 # n /\ g[i - 1] = f[i - 1]
            BY <3>1, <4>2
          <5> QED
            BY <3>4, <5>1, <5>2
        <4> QED
          BY <4>1, <4>2
      <3>6. Follows(g, n)
        BY <3>5
      <3> QED
        BY <2>3, <3>6
    <2> QED
      BY <2>4, <2>5
  <1> DEFINE after == CHOOSE f : Follows(f, N)
  <1>3. Follows(after, N)
    <2>1. N \in 0..N
      BY <1>1
    <2>2. \E f : Follows(f, N)
      BY <1>2, <2>1
    <2> HIDE DEF Follows
    <2> QED
      BY <2>2
  <1>4. TransferAssets(I, from, to, s) = Logged(Logged(after[N], from, {}, ToSet(s)), to, ToSet(s), {})
    BY DEF TransferAssets, N, Turn
  <1> HIDE DEF after
  <1>5. \A i \in 0..N : after[i] = IF i = 0 THEN I ELSE Turn(after[i - 1], i)
    BY <1>3
  <1>6. after[0] = I
    BY <1>1, <1>5
  <1>7. \A i \in 1..N : after[i] = Turn(after[i - 1], i)
    BY <1>1, <1>5
  <1> QED
    BY <1>4, <1>6, <1>7 DEF N, Turn

(***************************************************************************)
(* A transfer moves the assets it lists and no others, and keeps all       *)
(* inventories exact.                                                      *)
(***************************************************************************)
LEMMA Transferred ==
  ASSUME NEW I, Typed(I), InventoriesExact(I),
         NEW from \in Account, NEW to \in Account \ {from},
         NEW s \in Seq(Asset), IsInjective(s), ToSet(s) \subseteq Owned(I, from),
         HasRoom(I, to, Len(s))
  PROVE  LET J == TransferAssets(I, from, to, s)
         IN  Typed(J) /\ InventoriesExact(J) /\ Gone(I, J, ToSet(s), to)
PROOF
  <1> DEFINE Turn(K, i) == MoveAsset(K, from, to, s[i])
  <1> DEFINE N == Len(s)
  <1> DEFINE Moves(n) == { s[i] : i \in 1..n }
  <1> DEFINE Good(K, n) == Typed(K) /\ InventoriesExact(K) /\ Gone(I, K, Moves(n), to)
  <1>1. /\ N \in Nat /\ DOMAIN s = 1..N
        /\ \A i \in 1..N : s[i] \in Asset /\ s[i] \in Owned(I, from)
        /\ \A i, j \in 1..N : s[i] = s[j] => i = j
    BY DEF IsInjective, ToSet
  <1>2. Good(I, 0)
    <2>1. Moves(0) = {}
      OBVIOUS
    <2> QED
      BY <2>1 DEF Gone, SameOffers
  <1>3. ASSUME NEW n \in 1..N, NEW K, Good(K, n - 1) PROVE Good(Turn(K, n), n)
    <2>1. s[n] \in Asset /\ s[n] \notin Moves(n - 1)
      BY <1>1
    <2>2. K.owner[s[n]] = from
      BY <1>1, <1>3, <2>1 DEF Gone, Owned
    <2>3. s[n] \in Owned(K, from)
      BY <2>1, <2>2 DEF Owned
    <2>4. Typed(K) /\ InventoriesExact(K)
      BY <1>3
    <2>5. /\ Typed(Turn(K, n)) /\ InventoriesExact(Turn(K, n))
          /\ SameOffers(K, Turn(K, n))
          /\ Turn(K, n).owner = [K.owner EXCEPT ![s[n]] = to]
          /\ Turn(K, n).offered = [K.offered EXCEPT ![s[n]] = NoOffer]
      <3> HIDE DEF Good
      <3> QED
        BY <2>3, <2>4, Moved
    <2>6. Moves(n) = Moves(n - 1) \cup {s[n]}
      <3>1. 1..n = (1..(n - 1)) \cup {n}
        BY <1>1
      <3> QED
        BY <3>1
    <2>7. /\ K.owner \in [Asset -> Account \cup {Nobody}]
          /\ DOMAIN K.offered = Asset
      BY <1>3 DEF Typed
    <2> HIDE DEF Turn, Moves
    <2>8. Gone(I, Turn(K, n), Moves(n), to)
      BY <1>3, <2>1, <2>5, <2>6, <2>7 DEF Gone, SameOffers
    <2> QED
      BY <2>5, <2>8
  <1> HIDE DEF Turn, N, Good, Moves
  <1>4. PICK after :
          /\ after[0] = I
          /\ \A i \in 1..N : after[i] = Turn(after[i - 1], i)
          /\ TransferAssets(I, from, to, s) =
               Logged(Logged(after[N], from, {}, ToSet(s)), to, ToSet(s), {})
    BY TransferRounds DEF N, Turn
  <1>5. \A n \in 0..N : Good(after[n], n)
    <2> DEFINE bad == { n \in 0..N : ~ Good(after[n], n) }
    <2> SUFFICES ASSUME bad # {} PROVE FALSE
      OBVIOUS
    <2>1. bad \in SUBSET Nat
      BY <1>1
    <2>2. PICK n \in bad : \A i \in bad : n <= i
      <3> HIDE DEF bad
      <3> QED
        BY <2>1, LeastExists
    <2>3. n \in 0..N /\ n # 0
      BY <1>2, <1>4, <2>2
    <2>4. n \in 1..N /\ n - 1 \in 0..N /\ n - 1 \notin bad
      BY <1>1, <2>2, <2>3
    <2> QED
      BY <1>3, <1>4, <2>2, <2>4
  <1>6. Good(after[N], N)
    BY <1>1, <1>5
  <1>7. Moves(N) = ToSet(s)
    BY <1>1 DEF Moves, ToSet
  <1> DEFINE told == Logged(after[N], from, {}, ToSet(s))
  <1>8. SameBooks(after[N], told) /\ DOMAIN told = DOMAIN EmptyInventory
    BY <1>6, OnlyTold DEF Good, Typed, SameBooks
  <1>9. SameBooks(told, TransferAssets(I, from, to, s))
    <2> HIDE DEF told
    <2> QED
      BY <1>4, <1>8, OnlyTold DEF told
  <1>10. SameBooks(after[N], TransferAssets(I, from, to, s))
    BY <1>8, <1>9 DEF SameBooks, SameOffers
  <1> QED
    BY <1>6, <1>7, <1>10, SameBooksSound DEF Good, Gone, SameBooks, SameOffers

-----------------------------------------------------------------------------
(* Sound inventories. *)

LEMMA OfferFacts ==
  ASSUME NEW I, Typed(I), NEW o \in Offers(I)
  PROVE  /\ I.offer[o] \in Offer /\ I.offer[o].assets \in Seq(Asset)
         /\ ToSet(I.offer[o].assets) \subseteq Asset
         /\ I.offer[o].seller \in Account \cup {Nobody}
         /\ o \in 1..Len(I.offer) /\ o \in Nat /\ o # NoOffer
PROOF
  <1>1. I.offer \in Seq(Offer) /\ o \in 1..Len(I.offer)
    BY DEF Typed, Offers
  <1>2. I.offer[o] \in Offer /\ o \in Nat
    BY <1>1
  <1>3. I.offer[o].assets \in Seq(Asset) /\ I.offer[o].seller \in Account \cup {Nobody}
    BY <1>2 DEF Offer
  <1>4. ToSet(I.offer[o].assets) \subseteq Asset
    BY <1>3 DEF ToSet
  <1> QED
    BY <1>1, <1>2, <1>3, <1>4, InventoryAssumption

(***************************************************************************)
(* The assets S leave their offers, all those of an offer at once, and     *)
(* what belongs to offers that stay does not change hands.                 *)
(***************************************************************************)
Leave(I, J, S) ==
  /\ Offers(J) = Offers(I)
  /\ \A o \in Offers(I) : J.offer[o].assets = I.offer[o].assets
  /\ \A o \in Unsold(J) : /\ o \in Unsold(I) /\ J.offer[o].seller = I.offer[o].seller
                         /\ \A a \in ToSet(I.offer[o].assets) : a \notin S /\ J.owner[a] = I.owner[a]
  /\ \A a \in Asset : J.offered[a] = IF a \in S THEN NoOffer ELSE I.offered[a]
  /\ \A a \in S : I.offered[a] # NoOffer => ToSet(I.offer[I.offered[a]].assets) \subseteq S

LEMMA OffersStay ==
  ASSUME NEW I, Sound(I), NEW J, NEW S \in SUBSET Asset, Leave(I, J, S)
  PROVE  OffersBacked(J) /\ OfferedTogether(J)
PROOF
  <1>1. Typed(I) /\ OffersBacked(I) /\ OfferedTogether(I)
    BY DEF Sound
  <1>2. ASSUME NEW o \in Unsold(J) PROVE Backed(J, o)
    <2>1. o \in Unsold(I) /\ o \in Offers(I) /\ J.offer[o].assets = I.offer[o].assets
      BY DEF Leave, Unsold
    <2>2. ToSet(I.offer[o].assets) \subseteq Asset
      BY <1>1, <2>1, OfferFacts
    <2>3. Backed(I, o)
      BY <1>1, <2>1 DEF OffersBacked
    <2> QED
      BY <2>1, <2>2, <2>3 DEF Backed, Leave
  <1>3. ASSUME NEW a \in Asset, J.offered[a] # NoOffer
        PROVE  /\ a \in ToSet(J.offer[J.offered[a]].assets)
               /\ \A b \in ToSet(J.offer[J.offered[a]].assets) : J.offered[b] = J.offered[a]
    <2>1. a \notin S /\ J.offered[a] = I.offered[a] /\ I.offered[a] # NoOffer
      BY <1>3 DEF Leave
    <2>2. I.offered[a] \in Offers(I)
      BY <1>1, <2>1 DEF Typed
    <2> DEFINE listed == ToSet(I.offer[I.offered[a]].assets)
    <2>3. J.offer[J.offered[a]].assets = I.offer[I.offered[a]].assets
      BY <2>1, <2>2 DEF Leave
    <2>4. /\ a \in listed /\ listed \subseteq Asset
          /\ \A b \in listed : I.offered[b] = I.offered[a]
      BY <1>1, <2>1, <2>2, OfferFacts DEF OfferedTogether
    <2>5. ASSUME NEW b \in listed PROVE b \notin S
      BY <2>1, <2>4 DEF Leave
    <2> QED
      BY <2>1, <2>3, <2>4, <2>5 DEF Leave
  <1> QED
    BY <1>2, <1>3 DEF OffersBacked, OfferedTogether

(* Assets that are not on offer can be sent. *)
LEMMA SentSound ==
  ASSUME NEW I, Sound(I), NEW from \in Account, NEW to \in Account \ {from},
         NEW s \in Seq(Asset), IsInjective(s), ToSet(s) \subseteq Owned(I, from),
         \A a \in ToSet(s) : I.offered[a] = NoOffer
  PROVE  Sound(TransferAssets(I, from, to, s))
PROOF
  <1> DEFINE J == TransferAssets(I, from, to, s)
  <1>1. CASE ~HasRoom(I, to, Len(s))
    BY <1>1 DEF TransferAssets
  <1>2. CASE HasRoom(I, to, Len(s))
    <2>1. Typed(I) /\ InventoriesExact(I) /\ OnlyAwardedOwned(I) /\ OffersBacked(I)
      BY DEF Sound
    <2>2. Typed(J) /\ InventoriesExact(J) /\ Gone(I, J, ToSet(s), to)
      BY <1>2, <2>1, Transferred
    <2>3. ToSet(s) \in SUBSET Asset
      BY DEF Owned
    <2> HIDE DEF J
    <2>4. Unsold(J) = Unsold(I) /\ Offers(J) = Offers(I)
      BY <2>2 DEF Gone, SameOffers, Unsold, Offers
    <2>5. ASSUME NEW o \in Unsold(J), NEW a \in ToSet(I.offer[o].assets)
          PROVE  a \notin ToSet(s) /\ J.owner[a] = I.owner[a]
      <3>1. o \in Offers(I) /\ a \in Asset /\ o # NoOffer
        BY <2>1, <2>4, OfferFacts DEF Unsold
      <3>2. I.offered[a] = o
        BY <2>1, <2>4 DEF OffersBacked, Backed
      <3> QED
        BY <2>2, <3>1, <3>2 DEF Gone
    <2>6. Leave(I, J, ToSet(s))
      BY <2>2, <2>4, <2>5 DEF Leave, Gone, SameOffers
    <2>7. OnlyAwardedOwned(J)
      BY <2>1, <2>2, <2>3, AssetFacts DEF OnlyAwardedOwned, Gone, SameOffers, Owned
    <2> QED
      BY <2>2, <2>3, <2>6, <2>7, OffersStay DEF Sound, J
  <1> QED
    BY <1>1, <1>2

(* New assets go to the end of an inventory. *)
LEMMA AwardSound ==
  ASSUME NEW I, Sound(I), NEW x \in Account, NEW q \in Nat,
         I.awarded + q <= Cardinality(Asset)
  PROVE  Sound(AwardAssets(I, x, q))
PROOF
  <1> DEFINE J == AwardAssets(I, x, q)
  <1> DEFINE n == I.awarded
  <1> DEFINE c == I.count[x]
  <1> DEFINE new == { a \in Asset : n <= a /\ a < n + q }
  <1> DEFINE at(a) == c + a - n
  <1>1. Typed(I) /\ InventoriesExact(I) /\ OnlyAwardedOwned(I) /\ OffersBacked(I)
        /\ OfferedTogether(I)
    BY DEF Sound
  <1>2. /\ DOMAIN J = DOMAIN I
        /\ J.offer = I.offer /\ J.open = I.open /\ J.offered = I.offered
        /\ J.awarded = n + q
        /\ J.owner = [a \in Asset |-> IF a \in new THEN x ELSE I.owner[a]]
        /\ J.position = [a \in Asset |-> IF a \in new THEN at(a) ELSE I.position[a]]
        /\ J.slot = [I.slot EXCEPT ![x] =
             [i \in Index |-> IF \E a \in new : at(a) = i THEN n + i - c ELSE I.slot[x][i]]]
        /\ J.count = [I.count EXCEPT ![x] = c + q]
    <2> DEFINE owner == [a \in Asset |-> IF a \in new THEN x ELSE I.owner[a]]
    <2> DEFINE position == [a \in Asset |-> IF a \in new THEN at(a) ELSE I.position[a]]
    <2> DEFINE slots == [i \in Index |-> IF \E a \in new : at(a) = i THEN n + i - c ELSE I.slot[x][i]]
    <2> DEFINE G == [I EXCEPT !.owner = owner, !.position = position, !.slot[x] = slots,
                              !.count[x] = @ + q, !.awarded = @ + q]
    <2>1. J = Logged(G, x, new, {})
      BY DEF AwardAssets
    <2>2. DOMAIN I = {"owner", "position", "offered", "changed", "slot", "count", "log",
                      "offer", "open", "awarded"}
      BY <1>1 DEF Typed, EmptyInventory
    <2> HIDE DEF J, new, owner, position, slots
    <2>3. /\ DOMAIN G = DOMAIN I /\ G.offer = I.offer /\ G.open = I.open /\ G.offered = I.offered
          /\ G.awarded = n + q /\ G.owner = owner /\ G.position = position
          /\ G.slot = [I.slot EXCEPT ![x] = slots]
          /\ G.count = [I.count EXCEPT ![x] = c + q]
      BY <2>2
    <2> HIDE DEF G
    <2>4. SameBooks(G, Logged(G, x, new, {}))
      BY <1>1, <2>3, OnlyTold DEF Typed
    <2> QED
      BY <2>1, <2>3, <2>4 DEF SameBooks, SameOffers, owner, position, slots
  <1>3. /\ n \in 0..Cardinality(Asset) /\ c = Cardinality(Owned(I, x))
        /\ c \in Nat /\ Owned(I, x) \in SUBSET Asset /\ IsFiniteSet(Owned(I, x))
    <2>1. c = Cardinality(Owned(I, x)) /\ n \in 0..Cardinality(Asset)
      BY <1>1 DEF Typed, InventoriesExact, Exact
    <2> HIDE DEF c, n
    <2> QED
      BY <1>1, <2>1, OwnedFacts, AssetFacts
  <1>4. new = n..(n + q - 1) /\ new \in SUBSET Asset
    BY <1>3, AssetFacts
  <1>5. IsFiniteSet(new) /\ Cardinality(new) = q
    <2> DEFINE last == n + q - 1
    <2>1. n \in Int /\ last \in Int
      BY <1>3
    <2> HIDE DEF n, new, last
    <2>2. IsFiniteSet(n..last) /\ Cardinality(n..last) = IF n > last THEN 0 ELSE last - n + 1
      BY <2>1, FS_Interval
    <2> QED
      BY <1>3, <1>4, <2>1, <2>2 DEF last
  <1>6. \A a \in new : I.owner[a] = Nobody
    BY <1>1 DEF OnlyAwardedOwned
  <1>7. Owned(I, x) \cap new = {}
    BY <1>6, AssetFacts DEF Owned
  <1>8. /\ IsFiniteSet(Owned(I, x) \cup new)
        /\ Cardinality(Owned(I, x) \cup new) = c + q /\ c + q <= Cardinality(Asset)
    <2> HIDE DEF new, c
    <2> DEFINE owned == Owned(I, x)
    <2>1. IsFiniteSet(owned) /\ Cardinality(owned) = c /\ Cardinality(owned \cap new) = 0
      BY <1>3, <1>7, FS_EmptySet
    <2>2. Cardinality(Owned(I, x) \cup new) = c + q /\ IsFiniteSet(Owned(I, x) \cup new)
      <3> HIDE DEF owned
      <3>1. /\ IsFiniteSet(owned \cup new)
            /\ Cardinality(owned \cup new) = Cardinality(owned) + Cardinality(new) - Cardinality(owned \cap new)
        BY <1>5, <2>1, FS_Union
      <3>2. IsFiniteSet(owned \cup new) /\ Cardinality(owned \cup new) = c + q
        BY <1>3, <1>5, <2>1, <3>1
      <3> QED
        BY <3>2 DEF owned
    <2>3. Owned(I, x) \cup new \in SUBSET Asset
      BY <1>3, <1>4
    <2>4. Cardinality(Owned(I, x) \cup new) <= Cardinality(Asset)
      BY <2>3, AssetFacts, FS_Subset
    <2> QED
      BY <2>2, <2>4
  <1>9. \A a \in new : at(a) \in c..(c + q - 1) /\ at(a) \in Index
    BY <1>3, <1>4, <1>8, AssetFacts DEF Index
  <1> HIDE DEF J, n, c, new, at
  <1>10. Typed(J)
    <2>1. J.owner \in [Asset -> Account \cup {Nobody}]
      BY <1>1, <1>2 DEF Typed
    <2>2. J.position \in [Asset -> Index]
      BY <1>1, <1>2, <1>9 DEF Typed
    <2>3. J.count \in [Account -> Index]
      <3>1. c + q \in Index
        BY <1>3, <1>8, AssetFacts DEF Index
      <3> QED
        BY <1>1, <1>2, <3>1 DEF Typed
    <2>4. J.slot \in [Account -> [Index -> Asset \cup {Nobody}]]
      <3> DEFINE slots == [i \in Index |-> IF \E a \in new : at(a) = i THEN n + i - c ELSE I.slot[x][i]]
      <3>1. \A a \in new : n + at(a) - c = a
        BY <1>3, <1>4, AssetFacts DEF at
      <3>2. ASSUME NEW i \in Index PROVE slots[i] \in Asset \cup {Nobody}
        <4>1. I.slot[x][i] \in Asset \cup {Nobody}
          BY <1>1 DEF Typed
        <4> QED
          BY <1>4, <3>1, <4>1
      <3>3. slots \in [Index -> Asset \cup {Nobody}] /\ J.slot = [I.slot EXCEPT ![x] = slots]
        BY <1>2, <3>2
      <3> HIDE DEF slots
      <3> QED
        BY <1>1, <3>3 DEF Typed
    <2>5. J.awarded \in 0..Cardinality(Asset)
      BY <1>2, <1>3, AssetFacts DEF n
    <2> QED
      BY <1>1, <1>2, <2>1, <2>2, <2>3, <2>4, <2>5 DEF Typed, Offers
  <1>11. ASSUME NEW y \in Account \ {x} PROVE Exact(J, y)
    <2>1. Owned(J, y) = Owned(I, y)
      BY <1>2, <1>6, AssetFacts DEF Owned
    <2>2. J.count[y] = I.count[y] /\ J.slot[y] = I.slot[y]
      BY <1>1, <1>2 DEF Typed
    <2>3. \A a \in Owned(I, y) : J.position[a] = I.position[a]
      BY <1>2, <1>6, AssetFacts DEF Owned
    <2> QED
      BY <1>1, <2>1, <2>2, <2>3 DEF InventoriesExact, Exact
  <1>12. Exact(J, x)
    <2>1. Owned(J, x) = Owned(I, x) \cup new
      BY <1>2, <1>4 DEF Owned
    <2>2. J.count[x] = c + q
      BY <1>1, <1>2 DEF Typed
    <2>3. ASSUME NEW i \in Index
          PROVE  J.slot[x][i] = IF \E a \in new : at(a) = i THEN n + i - c ELSE I.slot[x][i]
      BY <1>1, <1>2 DEF Typed
    <2>4. ASSUME NEW a \in new PROVE J.position[a] < c + q /\ J.slot[x][J.position[a]] = a
      <3>1. a \in Asset /\ J.position[a] = at(a) /\ at(a) \in Index /\ at(a) < c + q
        BY <1>2, <1>3, <1>4, <1>9
      <3>2. n + at(a) - c = a
        BY <1>3, <3>1, AssetFacts DEF at
      <3> QED
        BY <2>3, <3>1, <3>2
    <2>5. ASSUME NEW a \in Owned(I, x) PROVE J.position[a] < c + q /\ J.slot[x][J.position[a]] = a
      <3>1. a \in Asset /\ J.position[a] = I.position[a]
        BY <1>2, <1>3, <1>7
      <3>2. I.position[a] \in Index /\ I.position[a] < c /\ I.slot[x][I.position[a]] = a
        BY <1>1, <3>1 DEF Typed, InventoriesExact, Exact, c
      <3>3. ~ \E b \in new : at(b) = I.position[a]
        BY <1>3, <1>9, <3>2 DEF Index
      <3>4. I.position[a] < c + q
        BY <1>3, <3>2, AssetFacts DEF Index
      <3> QED
        BY <2>3, <3>1, <3>2, <3>3, <3>4
    <2> QED
      BY <1>8, <2>1, <2>2, <2>4, <2>5 DEF Exact
  <1>13. OnlyAwardedOwned(J)
    <2>1. ASSUME NEW a \in Asset, n + q <= a PROVE J.owner[a] = Nobody
      <3>1. a \notin new /\ n <= a
        BY <1>3, <1>4, <2>1, AssetFacts
      <3> QED
        BY <1>1, <1>2, <3>1 DEF OnlyAwardedOwned, n
    <2> QED
      BY <1>2, <2>1 DEF OnlyAwardedOwned
  <1>14. Leave(I, J, {})
    <2>1. Unsold(J) = Unsold(I) /\ Offers(J) = Offers(I)
      BY <1>2 DEF Unsold, Offers
    <2>2. ASSUME NEW o \in Unsold(I), NEW a \in ToSet(I.offer[o].assets) PROVE J.owner[a] = I.owner[a]
      <3>1. o \in Offers(I) /\ a \in Asset
        BY <1>1, OfferFacts DEF Unsold
      <3>2. I.owner[a] # Nobody
        BY <1>1 DEF OffersBacked, Backed, Unsold
      <3> QED
        BY <1>2, <1>6, <3>1, <3>2
    <2> QED
      BY <1>2, <2>1, <2>2 DEF Leave
  <1>15. OffersBacked(J) /\ OfferedTogether(J)
    BY <1>14, OffersStay
  <1> QED
    BY <1>10, <1>11, <1>12, <1>13, <1>15 DEF Sound, InventoriesExact, J

(* An asset that is not on offer can be revoked. *)
LEMMA RevokeSound ==
  ASSUME NEW I, Sound(I), NEW x \in Account, NEW a \in Owned(I, x), I.offered[a] = NoOffer
  PROVE  Sound(RevokeAsset(I, a))
PROOF
  <1> DEFINE J == RevokeAsset(I, a)
  <1> DEFINE O == TakeOut(I, x, a)
  <1> DEFINE G == [O EXCEPT !.owner[a] = Nobody, !.position[a] = NullPosition]
  <1> DEFINE tail == I.slot[x][I.count[x] - 1]
  <1> DEFINE p == I.position[a]
  <1>1. Typed(I) /\ InventoriesExact(I) /\ OnlyAwardedOwned(I) /\ OffersBacked(I) /\ Exact(I, x)
    BY DEF Sound, InventoriesExact
  <1>2. a \in Asset /\ I.owner[a] = x /\ x # Nobody
    BY AssetFacts DEF Owned
  <1>3. /\ DOMAIN O = DOMAIN I /\ SameOffers(I, O)
        /\ O.owner = I.owner /\ O.offered = I.offered
        /\ O.count = [I.count EXCEPT ![x] = I.count[x] - 1]
        /\ O.position = [I.position EXCEPT ![tail] = p]
        /\ O.slot = [I.slot EXCEPT ![x][p] = tail]
    BY <1>1, TakenOut
  <1>4. /\ I.count[x] \in 1..Cardinality(Asset) /\ p \in 0..(I.count[x] - 1)
        /\ tail \in Owned(I, x) /\ I.position[tail] = I.count[x] - 1
    BY <1>1, LastListed
  <1>5. J = Logged(G, x, {}, {a})
    BY <1>2 DEF RevokeAsset
  <1>6. DOMAIN I = {"owner", "position", "offered", "changed", "slot", "count", "log",
                    "offer", "open", "awarded"}
    BY <1>1 DEF Typed, EmptyInventory
  <1> HIDE DEF J, O, tail, p
  <1>7. /\ DOMAIN G = DOMAIN O /\ SameOffers(O, G) /\ G.offered = O.offered
        /\ G.count = O.count /\ G.slot = O.slot
        /\ G.owner = [O.owner EXCEPT ![a] = Nobody]
        /\ G.position = [O.position EXCEPT ![a] = NullPosition]
    BY <1>3, <1>6 DEF SameOffers
  <1> HIDE DEF G
  <1>8. SameBooks(G, J)
    BY <1>1, <1>3, <1>5, <1>7, OnlyTold DEF Typed
  <1>9. /\ DOMAIN J = DOMAIN I /\ SameOffers(I, J) /\ J.offered = I.offered
        /\ J.owner = [I.owner EXCEPT ![a] = Nobody]
        /\ J.count = [I.count EXCEPT ![x] = I.count[x] - 1]
        /\ J.position = [[I.position EXCEPT ![tail] = p] EXCEPT ![a] = NullPosition]
        /\ J.slot = [I.slot EXCEPT ![x][p] = tail]
    BY <1>3, <1>7, <1>8 DEF SameBooks, SameOffers
  <1>10. /\ tail \in Asset /\ p \in Index /\ I.count[x] - 1 \in Index /\ NullPosition \in Index
    BY <1>1, <1>4, OwnedFacts, AssetFacts DEF Index, NullPosition
  <1>11. /\ I.owner \in [Asset -> Account \cup {Nobody}] /\ I.position \in [Asset -> Index]
         /\ I.slot \in [Account -> [Index -> Asset \cup {Nobody}]] /\ I.count \in [Account -> Index]
    BY <1>1 DEF Typed
  <1>12. Typed(J)
    <2> DEFINE L == [I.position EXCEPT ![tail] = p]
    <2>1. L \in [Asset -> Index] /\ J.position = [L EXCEPT ![a] = NullPosition]
      BY <1>9, <1>10, <1>11
    <2> HIDE DEF L
    <2>2. J.position \in [Asset -> Index]
      BY <1>2, <1>10, <2>1
    <2>3. /\ J.owner \in [Asset -> Account \cup {Nobody}] /\ J.count \in [Account -> Index]
          /\ J.slot \in [Account -> [Index -> Asset \cup {Nobody}]]
      BY <1>2, <1>9, <1>10, <1>11
    <2> QED
      BY <1>1, <1>9, <2>2, <2>3 DEF Typed, SameOffers, Offers
  <1>13. ASSUME NEW y \in Account \ {x} PROVE Exact(J, y)
    <2>1. Owned(J, y) = Owned(I, y)
      BY <1>2, <1>9, <1>11, AssetFacts DEF Owned
    <2>2. J.count[y] = I.count[y] /\ J.slot[y] = I.slot[y]
      BY <1>9, <1>11
    <2>3. ASSUME NEW b \in Owned(I, y) PROVE J.position[b] = I.position[b]
      <3>1. b \in Asset /\ b # a /\ b # tail
        BY <1>2, <1>4 DEF Owned
      <3> QED
        BY <1>9, <1>10, <1>11, <3>1
    <2> QED
      BY <1>1, <2>1, <2>2, <2>3 DEF InventoriesExact, Exact
  <1>14. Exact(J, x)
    <2>1. Owned(J, x) = Owned(I, x) \ {a}
      BY <1>2, <1>9, <1>11 DEF Owned
    <2>2. Cardinality(Owned(J, x)) = I.count[x] - 1
      BY <1>1, <2>1, OwnedFacts, FS_RemoveElement DEF Exact
    <2>3. J.count[x] = I.count[x] - 1
      BY <1>9, <1>11
    <2>4. /\ J.slot[x][p] = tail
          /\ \A i \in Index \ {p} : J.slot[x][i] = I.slot[x][i]
      BY <1>9, <1>10, <1>11
    <2>5. ASSUME NEW b \in Owned(I, x) \ {a}
          PROVE  J.position[b] < I.count[x] - 1 /\ J.slot[x][J.position[b]] = b
      <3>1. b \in Asset /\ I.position[b] \in Index /\ I.count[x] \in Nat
        <4>1. b \in Asset /\ I.count[x] \in Nat
          BY <1>1, <1>4, OwnedFacts, AssetFacts
        <4> QED
          BY <1>11, <4>1
      <3>2. /\ I.position[b] < I.count[x] /\ I.slot[x][I.position[b]] = b
            /\ I.slot[x][p] = a
        BY <1>1 DEF Exact, p
      <3>3. CASE b = tail
        <4>1. J.position[b] = p
          BY <1>9, <1>10, <1>11, <3>1, <3>3
        <4>2. p # I.count[x] - 1
          BY <1>4, <3>2, <3>3
        <4> QED
          BY <1>4, <2>4, <3>3, <4>1, <4>2
      <3>4. CASE b # tail
        <4>1. J.position[b] = I.position[b]
          BY <1>9, <1>10, <1>11, <3>1, <3>4
        <4>2. I.position[b] # I.count[x] - 1
          BY <3>2, <3>4 DEF tail
        <4>3. I.position[b] # p
          BY <3>2
        <4>4. I.position[b] < I.count[x] - 1
          BY <3>1, <3>2, <4>2 DEF Index
        <4> QED
          BY <2>4, <3>1, <3>2, <4>1, <4>3, <4>4
      <3> QED
        BY <3>3, <3>4
    <2> QED
      BY <2>1, <2>2, <2>3, <2>5 DEF Exact
  <1>15. OnlyAwardedOwned(J)
    BY <1>1, <1>2, <1>9, <1>11 DEF OnlyAwardedOwned, SameOffers
  <1>16. Leave(I, J, {})
    <2>1. Unsold(J) = Unsold(I) /\ Offers(J) = Offers(I)
      BY <1>9 DEF Unsold, Offers, SameOffers
    <2>2. ASSUME NEW o \in Unsold(I), NEW b \in ToSet(I.offer[o].assets) PROVE J.owner[b] = I.owner[b]
      <3>1. o \in Offers(I) /\ b \in Asset /\ o # NoOffer
        BY <1>1, OfferFacts DEF Unsold
      <3>2. I.offered[b] = o
        BY <1>1 DEF OffersBacked, Backed
      <3> QED
        BY <1>9, <1>11, <3>1, <3>2
    <2> QED
      BY <1>9, <2>1, <2>2 DEF Leave, SameOffers
  <1>17. OffersBacked(J) /\ OfferedTogether(J)
    BY <1>16, OffersStay
  <1> QED
    BY <1>12, <1>13, <1>14, <1>15, <1>17 DEF Sound, InventoriesExact, J

(* What no offer holds can be taken from all inventories. *)
LEMMA ClearSound ==
  ASSUME NEW I, Sound(I), Unsold(I) = {}
  PROVE  Sound(ClearInventories(I)) /\ ClearInventories(I).awarded = I.awarded
PROOF
  <1> DEFINE J == ClearInventories(I)
  <1> DEFINE all == UNION { Listed(I, x) : x \in Account }
  <1>1. Typed(I) /\ InventoriesExact(I) /\ OnlyAwardedOwned(I)
    BY DEF Sound
  <1>2. DOMAIN I = {"owner", "position", "offered", "changed", "slot", "count", "log",
                    "offer", "open", "awarded"}
    BY <1>1 DEF Typed, EmptyInventory
  <1>3. /\ DOMAIN J = DOMAIN I /\ SameOffers(I, J) /\ J.offered = I.offered /\ J.slot = I.slot
        /\ J.owner = [a \in Asset |-> IF a \in all THEN Nobody ELSE I.owner[a]]
        /\ J.position = [a \in Asset |-> IF a \in all THEN NullPosition ELSE I.position[a]]
        /\ J.count = [x \in Account |-> 0]
    <2> HIDE DEF all
    <2>1. ClearInventories(I) =
            [I EXCEPT !.owner = [a \in Asset |-> IF a \in all THEN Nobody ELSE @[a]],
                !.position = [a \in Asset |-> IF a \in all THEN NullPosition ELSE @[a]],
                !.count = [x \in Account |-> 0],
                !.log = [x \in Account |-> [additions |-> @[x].additions,
                                            deletions |-> @[x].deletions \cup Listed(I, x)]]]
      BY DEF ClearInventories, all
    <2> QED
      BY <1>2, <2>1 DEF SameOffers
  <1> HIDE DEF J
  <1>4. NullPosition \in Index /\ 0 \in Index
    BY AssetFacts DEF Index, NullPosition
  <1>5. Typed(J)
    BY <1>1, <1>3, <1>4 DEF Typed, SameOffers, Offers
  <1>6. ASSUME NEW x \in Account, NEW a \in Owned(I, x) PROVE a \in all
    <2>1. Exact(I, x)
      BY <1>1 DEF InventoriesExact
    <2>2. I.position[a] \in 0..(I.count[x] - 1) /\ I.slot[x][I.position[a]] = a
      BY <1>1, <2>1, LastListed DEF Exact
    <2> QED
      BY <2>2 DEF Listed
  <1> HIDE DEF all
  <1>7. ASSUME NEW x \in Account PROVE Owned(J, x) = {}
    BY <1>3, <1>6, AssetFacts DEF Owned
  <1>8. InventoriesExact(J)
    BY <1>3, <1>7, FS_EmptySet DEF InventoriesExact, Exact
  <1>9. OnlyAwardedOwned(J)
    BY <1>1, <1>3 DEF OnlyAwardedOwned, SameOffers
  <1>10. Leave(I, J, {})
    <2>1. Unsold(J) = {} /\ Offers(J) = Offers(I)
      BY <1>3 DEF Unsold, Offers, SameOffers
    <2> QED
      BY <1>3, <2>1 DEF Leave, SameOffers
  <1>11. OffersBacked(J) /\ OfferedTogether(J)
    BY <1>10, OffersStay
  <1> QED
    BY <1>3, <1>5, <1>8, <1>9, <1>11 DEF Sound, SameOffers, J

-----------------------------------------------------------------------------
(* Changes and offers. *)

LEMMA ChangeSound ==
  ASSUME NEW I, DOMAIN I = DOMAIN EmptyInventory, NEW x, NEW S
  PROVE  SameBooks(I, ChangeAssets(I, x, S))
PROOF
  <1> DEFINE G == [I EXCEPT !.changed = @ \cup S]
  <1>1. DOMAIN I = {"owner", "position", "offered", "changed", "slot", "count", "log",
                    "offer", "open", "awarded"}
    BY DEF EmptyInventory
  <1>2. SameBooks(I, G)
    BY <1>1 DEF SameBooks, SameOffers
  <1>3. ChangeAssets(I, x, S) = Logged(G, x, S, S)
    BY DEF ChangeAssets
  <1> HIDE DEF G
  <1>4. SameBooks(G, Logged(G, x, S, S))
    BY <1>2, OnlyTold DEF SameBooks
  <1> QED
    BY <1>2, <1>3, <1>4 DEF SameBooks, SameOffers

(* Which offer assets are part of, once those of S are part of o. *)
PartOf(I, S, o) == [a \in Asset |-> IF a \in S THEN o ELSE I.offered[a]]

(* The offers, once those of os have ended. *)
Ended(I, os) == [o \in Offers(I) |-> IF o \in os THEN [I.offer[o] EXCEPT !.seller = Nobody] ELSE I.offer[o]]

(* What an offer changes. *)
LEMMA OfferedFields ==
  ASSUME NEW I, DOMAIN I = DOMAIN EmptyInventory, NEW x, NEW s, NEW e
  PROVE  LET J == OfferAssets(I, x, s, e)
         IN  /\ DOMAIN J = DOMAIN I /\ J.awarded = I.awarded
             /\ J.owner = I.owner /\ J.position = I.position /\ J.slot = I.slot /\ J.count = I.count
             /\ J.offer = Append(I.offer, [seller |-> x, buyer |-> Nobody, expiration |-> e, assets |-> s])
             /\ J.open = Append(I.open, Len(I.offer) + 1)
             /\ J.offered = PartOf(I, ToSet(s), Len(I.offer) + 1)
PROOF
  <1> DEFINE o == Len(I.offer) + 1
  <1> DEFINE new == [seller |-> x, buyer |-> Nobody, expiration |-> e, assets |-> s]
  <1> DEFINE on == PartOf(I, ToSet(s), o)
  <1> DEFINE G == [I EXCEPT !.offered = on, !.offer = Append(@, new), !.open = Append(@, o)]
  <1>1. DOMAIN I = {"owner", "position", "offered", "changed", "slot", "count", "log",
                    "offer", "open", "awarded"}
    BY DEF EmptyInventory
  <1>2. OfferAssets(I, x, s, e) = Logged(G, x, ToSet(s), ToSet(s))
    BY DEF OfferAssets, PartOf
  <1> HIDE DEF o, new, on
  <1>3. /\ DOMAIN G = DOMAIN I /\ G.awarded = I.awarded
        /\ G.owner = I.owner /\ G.position = I.position /\ G.slot = I.slot /\ G.count = I.count
        /\ G.offer = Append(I.offer, new) /\ G.open = Append(I.open, o) /\ G.offered = on
    BY <1>1
  <1> HIDE DEF G
  <1>4. SameBooks(G, Logged(G, x, ToSet(s), ToSet(s)))
    BY <1>3, OnlyTold
  <1> QED
    BY <1>2, <1>3, <1>4 DEF SameBooks, SameOffers, o, new, on

(* What belongs to the seller and is not on offer can be offered. *)
LEMMA OfferSound ==
  ASSUME NEW I, Sound(I), NEW x \in Account, NEW s \in Seq(Asset), NEW e \in Nat,
         IsInjective(s), ToSet(s) \subseteq Owned(I, x),
         \A a \in ToSet(s) : I.offered[a] = NoOffer
  PROVE  Sound(OfferAssets(I, x, s, e))
PROOF
  <1> DEFINE J == OfferAssets(I, x, s, e)
  <1> DEFINE o == Len(I.offer) + 1
  <1> DEFINE new == [seller |-> x, buyer |-> Nobody, expiration |-> e, assets |-> s]
  <1>1. Typed(I) /\ InventoriesExact(I) /\ OnlyAwardedOwned(I) /\ OffersBacked(I) /\ OfferedTogether(I)
    BY DEF Sound
  <1>2. /\ DOMAIN J = DOMAIN I /\ J.awarded = I.awarded
        /\ J.owner = I.owner /\ J.position = I.position /\ J.slot = I.slot /\ J.count = I.count
        /\ J.offer = Append(I.offer, new) /\ J.open = Append(I.open, o)
        /\ J.offered = [a \in Asset |-> IF a \in ToSet(s) THEN o ELSE I.offered[a]]
    <2>1. DOMAIN I = DOMAIN EmptyInventory
      BY <1>1 DEF Typed
    <2> HIDE DEF J
    <2> QED
      BY <2>1, OfferedFields DEF J, PartOf
  <1> HIDE DEF J
  <1>3. I.offer \in Seq(Offer) /\ I.open \in Seq(Nat) /\ Offers(I) = 1..Len(I.offer)
    BY <1>1 DEF Typed, Offers
  <1>4. new \in Offer
    BY DEF Offer
  <1>5. /\ o \in Nat /\ o # NoOffer /\ o \notin Offers(I)
        /\ J.offer \in Seq(Offer) /\ J.open \in Seq(Nat)
        /\ Offers(J) = Offers(I) \cup {o}
        /\ J.offer[o] = new
        /\ \A i \in Offers(I) : J.offer[i] = I.offer[i]
    <2> HIDE DEF new
    <2>1. o \in Nat /\ o # NoOffer /\ o \notin Offers(I)
      BY <1>3, InventoryAssumption
    <2>2. J.offer \in Seq(Offer) /\ J.open \in Seq(Nat)
      BY <1>2, <1>3, <1>4, <2>1
    <2>3. Offers(J) = 1..o
      BY <1>2, <1>3, <1>4 DEF Offers
    <2>4. 1..o = Offers(I) \cup {o}
      BY <1>3
    <2>5. J.offer[o] = new /\ \A i \in Offers(I) : J.offer[i] = I.offer[i]
      BY <1>2, <1>3, <1>4
    <2> QED
      BY <2>1, <2>2, <2>3, <2>4, <2>5
  <1>6. new.assets = s /\ new.seller = x
    OBVIOUS
  <1> HIDE DEF o, new
  <1>7. Typed(J)
    BY <1>1, <1>2, <1>5 DEF Typed
  <1>8. InventoriesExact(J) /\ OnlyAwardedOwned(J)
    <2>1. \A y : Owned(J, y) = Owned(I, y)
      BY <1>2 DEF Owned
    <2> QED
      BY <1>1, <1>2, <2>1 DEF InventoriesExact, Exact, OnlyAwardedOwned
  <1>9. ToSet(s) \subseteq Asset
    BY DEF Owned
  <1>10. ASSUME NEW i \in Unsold(J) PROVE Backed(J, i)
    <2>1. CASE i = o
      <3>1. \A a \in ToSet(s) : J.owner[a] = x /\ J.offered[a] = o
        BY <1>2, <1>9 DEF Owned
      <3> QED
        BY <1>5, <1>6, <2>1, <3>1 DEF Backed
    <2>2. CASE i # o
      <3>1. i \in Offers(I) /\ J.offer[i] = I.offer[i] /\ i \in Unsold(I)
        BY <1>5, <2>2 DEF Unsold
      <3>2. Backed(I, i) /\ i # NoOffer /\ ToSet(I.offer[i].assets) \subseteq Asset
        BY <1>1, <3>1, OfferFacts DEF OffersBacked
      <3>3. \A a \in ToSet(I.offer[i].assets) : J.owner[a] = I.owner[a] /\ J.offered[a] = I.offered[a]
        BY <1>2, <3>2 DEF Backed
      <3> QED
        BY <3>1, <3>2, <3>3 DEF Backed
    <2> QED
      BY <2>1, <2>2
  <1>11. ASSUME NEW a \in Asset, J.offered[a] # NoOffer
         PROVE  /\ a \in ToSet(J.offer[J.offered[a]].assets)
                /\ \A b \in ToSet(J.offer[J.offered[a]].assets) : J.offered[b] = J.offered[a]
    <2>1. CASE a \in ToSet(s)
      BY <1>2, <1>5, <1>6, <1>9, <2>1
    <2>2. CASE a \notin ToSet(s)
      <3>1. J.offered[a] = I.offered[a] /\ I.offered[a] # NoOffer /\ I.offered[a] \in Offers(I)
        BY <1>1, <1>2, <1>11, <2>2 DEF Typed
      <3> DEFINE listed == ToSet(I.offer[I.offered[a]].assets)
      <3>2. /\ a \in listed /\ listed \subseteq Asset
            /\ \A b \in listed : I.offered[b] = I.offered[a]
        BY <1>1, <3>1, OfferFacts DEF OfferedTogether
      <3>3. J.offer[J.offered[a]].assets = I.offer[I.offered[a]].assets
        BY <1>5, <3>1
      <3> QED
        BY <1>2, <3>1, <3>2, <3>3
    <2> QED
      BY <2>1, <2>2
  <1> QED
    BY <1>7, <1>8, <1>10, <1>11 DEF Sound, OffersBacked, OfferedTogether, J

(* What the end of offers changes. *)
LEMMA ClearedFields ==
  ASSUME NEW I, DOMAIN I = DOMAIN EmptyInventory, NEW os
  PROVE  LET J == ClearOffers(I, os)
         IN  /\ DOMAIN J = DOMAIN I /\ J.awarded = I.awarded /\ J.open = I.open
             /\ J.owner = I.owner /\ J.position = I.position /\ J.slot = I.slot /\ J.count = I.count
             /\ J.offered = PartOf(I, AssetsOf(I, os), NoOffer)
             /\ J.offer = Ended(I, os)
PROOF
  <1>1. DOMAIN I = {"owner", "position", "offered", "changed", "slot", "count", "log",
                    "offer", "open", "awarded"}
    BY DEF EmptyInventory
  <1> DEFINE told(x) == AssetsOf(I, { o \in os : I.offer[o].seller = x })
  <1> DEFINE log == [x \in Account |-> [additions |-> I.log[x].additions \cup told(x),
                                        deletions |-> I.log[x].deletions \cup told(x)]]
  <1> DEFINE off == PartOf(I, AssetsOf(I, os), NoOffer)
  <1> DEFINE ended == Ended(I, os)
  <1>2. ClearOffers(I, os) = [I EXCEPT !.offered = off, !.offer = ended, !.log = log]
    BY DEF ClearOffers, PartOf, Ended
  <1> HIDE DEF log, off, ended
  <1>3. ClearOffers(I, os).offered = off /\ ClearOffers(I, os).offer = ended
    BY <1>1, <1>2
  <1> QED
    BY <1>1, <1>2, <1>3 DEF off, ended

(***************************************************************************)
(* Offers can end together, as long as what they list is still on offer in *)
(* them: it then is in no other offer.                                     *)
(***************************************************************************)
LEMMA ClearedSound ==
  ASSUME NEW I, Sound(I), NEW os \in SUBSET Offers(I),
         \A o \in os : \A a \in ToSet(I.offer[o].assets) : I.offered[a] = o
  PROVE  /\ Sound(ClearOffers(I, os))
         /\ Unsold(ClearOffers(I, os)) = Unsold(I) \ os
PROOF
  <1> DEFINE J == ClearOffers(I, os)
  <1> DEFINE S == AssetsOf(I, os)
  <1>1. Typed(I) /\ InventoriesExact(I) /\ OnlyAwardedOwned(I) /\ OffersBacked(I)
    BY DEF Sound
  <1>2. /\ DOMAIN J = DOMAIN I /\ J.awarded = I.awarded /\ J.open = I.open
        /\ J.owner = I.owner /\ J.position = I.position /\ J.slot = I.slot /\ J.count = I.count
        /\ J.offered = [a \in Asset |-> IF a \in S THEN NoOffer ELSE I.offered[a]]
        /\ J.offer = [o \in Offers(I) |-> IF o \in os THEN [I.offer[o] EXCEPT !.seller = Nobody]
                                          ELSE I.offer[o]]
    <2>1. DOMAIN I = DOMAIN EmptyInventory
      BY <1>1 DEF Typed
    <2> HIDE DEF J
    <2> QED
      BY <2>1, ClearedFields DEF J, PartOf, Ended
  <1> HIDE DEF J
  <1>3. ASSUME NEW a \in S PROVE a \in Asset /\ \E o \in os : a \in ToSet(I.offer[o].assets) /\ I.offered[a] = o
    BY <1>1, OfferFacts DEF AssetsOf
  <1>4. ASSUME NEW o \in Offers(I)
        PROVE  /\ J.offer[o] \in Offer /\ J.offer[o].assets = I.offer[o].assets
               /\ J.offer[o].buyer = I.offer[o].buyer
               /\ o \in os => J.offer[o].seller = Nobody
               /\ o \notin os => J.offer[o].seller = I.offer[o].seller
    <2>1. I.offer[o] \in Offer
      BY <1>1, OfferFacts
    <2> DEFINE end == [I.offer[o] EXCEPT !.seller = Nobody]
    <2>2. /\ end \in Offer /\ end.assets = I.offer[o].assets /\ end.buyer = I.offer[o].buyer
          /\ end.seller = Nobody
      BY <2>1 DEF Offer
    <2>3. J.offer[o] = IF o \in os THEN end ELSE I.offer[o]
      BY <1>2
    <2> HIDE DEF end
    <2> QED
      BY <2>1, <2>2, <2>3
  <1>5. Offers(J) = Offers(I) /\ J.offer \in Seq(Offer)
    <2>1. Len(I.offer) \in Nat /\ Offers(I) = 1..Len(I.offer)
      BY <1>1 DEF Typed, Offers
    <2>2. DOMAIN J.offer = Offers(I) /\ J.offer \in [1..Len(I.offer) -> Offer]
      BY <1>2, <1>4, <2>1
    <2> QED
      BY <2>1, <2>2 DEF Offers
  <1> HIDE DEF S
  <1>6. Typed(J)
    BY <1>1, <1>2, <1>5 DEF Typed
  <1>7. InventoriesExact(J) /\ OnlyAwardedOwned(J)
    <2>1. \A y : Owned(J, y) = Owned(I, y)
      BY <1>2 DEF Owned
    <2> QED
      BY <1>1, <1>2, <2>1 DEF InventoriesExact, Exact, OnlyAwardedOwned
  <1>8. Unsold(J) = Unsold(I) \ os
    BY <1>4, <1>5 DEF Unsold
  <1>9. Leave(I, J, S)
    <2>1. ASSUME NEW o \in Unsold(J), NEW a \in ToSet(I.offer[o].assets) PROVE a \notin S
      <3>1. o \notin os /\ I.offered[a] = o
        BY <1>1, <1>8 DEF OffersBacked, Backed
      <3> QED
        BY <1>3, <3>1
    <2>2. ASSUME NEW a \in S PROVE ToSet(I.offer[I.offered[a]].assets) \subseteq S
      BY <1>3 DEF S, AssetsOf
    <2>3. \A o \in Unsold(J) : o \in Unsold(I) /\ J.offer[o].seller = I.offer[o].seller
      BY <1>4, <1>8 DEF Unsold
    <2> QED
      BY <1>2, <1>4, <1>5, <2>1, <2>2, <2>3 DEF Leave
  <1>10. S \in SUBSET Asset
    BY <1>3
  <1>11. OffersBacked(J) /\ OfferedTogether(J)
    BY <1>9, <1>10, OffersStay
  <1> QED
    BY <1>6, <1>7, <1>8, <1>11 DEF Sound, J

-----------------------------------------------------------------------------
(* Offers that expire. *)

LEMMA AppendedElements ==
  ASSUME NEW S, NEW s \in Seq(S), NEW e \in S
  PROVE  Append(s, e) \in Seq(S) /\ ToSet(Append(s, e)) = ToSet(s) \cup {e}
PROOF
  <1>1. /\ Append(s, e) \in Seq(S) /\ DOMAIN Append(s, e) = 1..(Len(s) + 1)
        /\ DOMAIN s = 1..Len(s) /\ Len(s) \in Nat
        /\ \A i \in 1..Len(s) : Append(s, e)[i] = s[i]
        /\ Append(s, e)[Len(s) + 1] = e
    OBVIOUS
  <1>2. 1..(Len(s) + 1) = (1..Len(s)) \cup {Len(s) + 1}
    BY <1>1
  <1> QED
    BY <1>1, <1>2 DEF ToSet

Due(I, t) == { o \in Unsold(I) : I.offer[o].expiration <= t }

(* The new list of open offers has what is unsold and not due. *)
LEMMA ExpiredFields ==
  ASSUME NEW I, DOMAIN I = DOMAIN EmptyInventory, I.offer \in Seq(Offer), NEW t
  PROVE  LET J == ExpireOffers(I, t)
             C == ClearOffers(I, Due(I, t))
         IN  /\ DOMAIN J = DOMAIN C /\ J.offer = C.offer /\ J.awarded = C.awarded
             /\ J.owner = C.owner /\ J.position = C.position /\ J.offered = C.offered
             /\ J.slot = C.slot /\ J.count = C.count
             /\ J.open \in Seq(Nat) /\ ToSet(J.open) = Unsold(I) \ Due(I, t)
PROOF
  <1> DEFINE left == Unsold(I) \ Due(I, t)
  <1> DEFINE C == ClearOffers(I, Due(I, t))
  <1> DEFINE Turn(list, o) == IF o \in left THEN Append(list, o) ELSE list
  <1> DEFINE Rule(f, o) == CASE o = 0 -> <<>>
                             [] o # 0 /\ o \in left -> Append(f[o - 1], o)
                             [] OTHER -> f[o - 1]
  <1> DEFINE Follows(f, n) == f = [o \in 0..n |-> Rule(f, o)]
  <1> DEFINE N == Len(I.offer)
  <1> DEFINE Good(list, n) == list \in Seq(Nat) /\ ToSet(list) = left \cap 1..n
  <1>1. N \in Nat /\ left \in SUBSET (1..N)
    BY DEF Unsold, Offers
  <1>2. Good(<<>>, 0)
    BY DEF ToSet
  <1>3. ASSUME NEW n \in 1..N, NEW list, Good(list, n - 1) PROVE Good(Turn(list, n), n)
    <2>1. 1..n = (1..(n - 1)) \cup {n} /\ n \in Nat
      BY <1>1
    <2> HIDE DEF left
    <2> QED
      BY <1>3, <2>1, AppendedElements
  <1>4. ASSUME NEW f, NEW o PROVE Rule(f, o) = IF o = 0 THEN <<>> ELSE Turn(f[o - 1], o)
    OBVIOUS
  <1> HIDE DEF Rule, Turn, left, N, Good
  <1>5. \A n \in 0..N : \E f : Follows(f, n)
    <2> DEFINE stuck == { n \in 0..N : ~ \E f : Follows(f, n) }
    <2> SUFFICES ASSUME stuck # {} PROVE FALSE
      OBVIOUS
    <2>1. stuck \in SUBSET Nat
      BY <1>1
    <2>2. PICK n \in stuck : \A i \in stuck : n <= i
      <3> HIDE DEF stuck
      <3> QED
        BY <2>1, LeastExists
    <2>3. n \in 0..N /\ ~ \E f : Follows(f, n)
      BY <2>2
    <2>4. CASE n = 0
      <3> DEFINE f == [o \in 0..0 |-> <<>>]
      <3>1. \A o \in 0..0 : f[o] = Rule(f, o)
        BY <1>4
      <3>2. Follows(f, 0)
        BY <3>1
      <3> QED
        BY <2>3, <2>4, <3>2
    <2>5. CASE n # 0
      <3>1. n \in Nat \ {0} /\ n - 1 \in 0..N
        BY <1>1, <2>3, <2>5
      <3>2. n - 1 \notin stuck
        BY <2>2, <3>1
      <3>3. PICK f : Follows(f, n - 1)
        BY <3>1, <3>2
      <3> DEFINE g == [o \in 0..n |-> IF o = n THEN Turn(f[n - 1], n) ELSE f[o]]
      <3>4. \A o \in 0..(n - 1) : f[o] = IF o = 0 THEN <<>> ELSE Turn(f[o - 1], o)
        BY <1>4, <3>3
      <3>5. ASSUME NEW o \in 0..n PROVE g[o] = IF o = 0 THEN <<>> ELSE Turn(g[o - 1], o)
        <4>1. CASE o = n
          BY <3>1, <4>1
        <4>2. CASE o # n
          <5>1. o \in 0..(n - 1) /\ g[o] = f[o]
            BY <3>1, <4>2
          <5>2. o # 0 => o - 1 \in 0..n /\ o - 1 # n /\ g[o - 1] = f[o - 1]
            BY <3>1, <4>2
          <5> QED
            BY <3>4, <5>1, <5>2
        <4> QED
          BY <4>1, <4>2
      <3>6. \A o \in 0..n : g[o] = Rule(g, o)
        <4> HIDE DEF g
        <4> QED
          BY <1>4, <3>5
      <3>7. Follows(g, n)
        BY <3>6
      <3> QED
        BY <2>3, <3>7
    <2> QED
      BY <2>4, <2>5
  <1> DEFINE kept == CHOOSE f : Follows(f, N)
  <1>6. Follows(kept, N)
    <2>1. N \in 0..N
      BY <1>1
    <2>2. \E f : Follows(f, N)
      BY <1>5, <2>1
    <2> HIDE DEF Follows
    <2> QED
      BY <2>2
  <1>7. ExpireOffers(I, t) = [C EXCEPT !.open = kept[N]]
    BY DEF ExpireOffers, Due, N, Rule, left
  <1> HIDE DEF kept
  <1>8. \A o \in 0..N : kept[o] = IF o = 0 THEN <<>> ELSE Turn(kept[o - 1], o)
    BY <1>4, <1>6
  <1>9. \A n \in 0..N : Good(kept[n], n)
    <2> DEFINE bad == { n \in 0..N : ~ Good(kept[n], n) }
    <2> SUFFICES ASSUME bad # {} PROVE FALSE
      OBVIOUS
    <2>1. bad \in SUBSET Nat
      BY <1>1
    <2>2. PICK n \in bad : \A i \in bad : n <= i
      <3> HIDE DEF bad
      <3> QED
        BY <2>1, LeastExists
    <2>3. n \in 0..N /\ n # 0
      BY <1>2, <1>8, <2>2
    <2>4. n \in 1..N /\ n - 1 \in 0..N /\ n - 1 \notin bad
      BY <1>1, <2>2, <2>3
    <2> QED
      BY <1>3, <1>8, <2>2, <2>4
  <1>10. kept[N] \in Seq(Nat) /\ ToSet(kept[N]) = left
    <2>1. N \in 0..N
      BY <1>1
    <2>2. ToSet(kept[N]) = left \cap 1..N
      BY <1>9, <2>1 DEF Good
    <2>3. left \subseteq 1..N
      BY <1>1
    <2> QED
      BY <1>9, <2>1, <2>2, <2>3 DEF Good
  <1>11. DOMAIN C = {"owner", "position", "offered", "changed", "slot", "count", "log",
                     "offer", "open", "awarded"}
    <2>1. DOMAIN C = DOMAIN I
      BY ClearedFields
    <2> QED
      BY <2>1 DEF EmptyInventory
  <1> HIDE DEF C
  <1> QED
    BY <1>7, <1>10, <1>11 DEF C, left

LEMMA ExpiredSound ==
  ASSUME NEW I, Sound(I), NEW t
  PROVE  Sound(ExpireOffers(I, t))
PROOF
  <1> DEFINE J == ExpireOffers(I, t)
  <1> DEFINE C == ClearOffers(I, Due(I, t))
  <1>1. DOMAIN I = DOMAIN EmptyInventory /\ I.offer \in Seq(Offer) /\ OffersBacked(I)
    BY DEF Sound, Typed
  <1>2. /\ DOMAIN J = DOMAIN C /\ J.offer = C.offer /\ J.awarded = C.awarded
        /\ J.owner = C.owner /\ J.position = C.position /\ J.offered = C.offered
        /\ J.slot = C.slot /\ J.count = C.count /\ J.open \in Seq(Nat)
    BY <1>1, ExpiredFields
  <1>3. Sound(C)
    <2>1. Due(I, t) \in SUBSET Offers(I)
      BY DEF Due, Unsold
    <2>2. \A o \in Due(I, t) : \A a \in ToSet(I.offer[o].assets) : I.offered[a] = o
      BY <1>1 DEF Due, OffersBacked, Backed
    <2> QED
      BY <2>1, <2>2, ClearedSound
  <1> HIDE DEF J, C
  <1>4. Typed(J)
    BY <1>2, <1>3 DEF Sound, Typed, Offers
  <1>5. (\A x : Owned(J, x) = Owned(C, x)) /\ Unsold(J) = Unsold(C)
    BY <1>2 DEF Owned, Unsold, Offers
  <1>6. InventoriesExact(J) /\ OnlyAwardedOwned(J)
    BY <1>2, <1>3, <1>5 DEF Sound, InventoriesExact, Exact, OnlyAwardedOwned
  <1>7. OffersBacked(J) /\ OfferedTogether(J)
    BY <1>2, <1>3, <1>5 DEF Sound, OffersBacked, Backed, OfferedTogether
  <1> QED
    BY <1>4, <1>6, <1>7 DEF Sound, J

-----------------------------------------------------------------------------
(* Inventories stay sound. *)

(* Lists of assets of a transaction, and what their maker may move. *)
LEMMA ListFacts ==
  ASSUME NEW s \in AssetList
  PROVE  s \in Seq(Asset)
BY LedgerAssumption DEF AssetList

LEMMA BeginningSound == Sound(EmptyInventory)
PROOF
  <1> DEFINE I == EmptyInventory
  <1>1. /\ I.owner = [a \in Asset |-> Nobody] /\ I.position = [a \in Asset |-> 0]
        /\ I.offered = [a \in Asset |-> NoOffer]
        /\ I.slot = [x \in Account |-> [i \in Index |-> Nobody]]
        /\ I.count = [x \in Account |-> 0]
        /\ I.offer = <<>> /\ I.open = <<>> /\ I.awarded = 0 /\ DOMAIN I = DOMAIN EmptyInventory
    BY DEF EmptyInventory
  <1> HIDE DEF I
  <1>2. 0 \in Index
    BY AssetFacts DEF Index
  <1>3. Typed(I)
    BY <1>1, <1>2, AssetFacts DEF Typed
  <1>4. \A x \in Account : Owned(I, x) = {}
    BY <1>1, AssetFacts DEF Owned
  <1>5. InventoriesExact(I)
    BY <1>1, <1>4, FS_EmptySet DEF InventoriesExact, Exact
  <1>6. OnlyAwardedOwned(I) /\ OfferedTogether(I)
    BY <1>1 DEF OnlyAwardedOwned, OfferedTogether
  <1>7. OffersBacked(I)
    BY <1>1 DEF OffersBacked, Unsold, Offers
  <1> QED
    BY <1>3, <1>5, <1>6, <1>7 DEF Sound, I

(* A sale moves what the offer lists, if there is room, and ends it. *)
LEMMA SaleSound ==
  ASSUME NEW I, Sound(I), NEW o \in Unsold(I), NEW x \in Account, x # I.offer[o].seller
  PROVE  Sound(Sold(TransferAssets(I, I.offer[o].seller, x, I.offer[o].assets), o, x))
PROOF
  <1> DEFINE from == I.offer[o].seller
  <1> DEFINE s == I.offer[o].assets
  <1> DEFINE K == TransferAssets(I, from, x, s)
  <1> DEFINE J == Sold(K, o, x)
  <1> DEFINE S == IF HasRoom(I, x, Len(s)) THEN ToSet(s) ELSE {}
  <1>1. Typed(I) /\ InventoriesExact(I) /\ OnlyAwardedOwned(I) /\ OffersBacked(I)
    BY DEF Sound
  <1>2. o \in Offers(I) /\ o \in 1..Len(I.offer) /\ I.offer[o] \in Offer
        /\ s \in Seq(Asset) /\ ToSet(s) \subseteq Asset
        /\ from \in Account /\ x \in Account \ {from}
    BY <1>1, OfferFacts DEF Unsold
  <1>3. IsInjective(s) /\ ToSet(s) \subseteq Owned(I, from) /\ \A a \in ToSet(s) : I.offered[a] = o
    BY <1>1, <1>2 DEF OffersBacked, Backed, Owned
  <1> HIDE DEF from, s
  <1>4. Typed(K) /\ InventoriesExact(K) /\ Gone(I, K, S, x)
    <2>1. CASE HasRoom(I, x, Len(s))
      BY <1>1, <1>2, <1>3, <2>1, Transferred
    <2>2. CASE ~HasRoom(I, x, Len(s))
      BY <1>1, <2>2 DEF TransferAssets, Gone, SameOffers
    <2> QED
      BY <2>1, <2>2
  <1>5. S \in SUBSET ToSet(s) /\ S \in SUBSET Asset
    BY <1>2
  <1>6. S # {} => S = ToSet(s)
    OBVIOUS
  <1> HIDE DEF K, S
  <1>7. /\ DOMAIN J = DOMAIN K /\ J.open = K.open /\ J.awarded = K.awarded
        /\ J.owner = K.owner /\ J.position = K.position /\ J.offered = K.offered
        /\ J.slot = K.slot /\ J.count = K.count
        /\ J.offer = [K.offer EXCEPT ![o].buyer = x]
    <2>1. DOMAIN K = {"owner", "position", "offered", "changed", "slot", "count", "log",
                      "offer", "open", "awarded"}
      BY <1>4 DEF Typed, EmptyInventory
    <2> QED
      BY <2>1 DEF Sold
  <1>8. K.offer = I.offer /\ K.awarded = I.awarded
    BY <1>4 DEF Gone, SameOffers
  <1> DEFINE sale == [I.offer[o] EXCEPT !.buyer = x]
  <1>9. sale \in Offer /\ sale.assets = s /\ sale.buyer = x /\ sale.seller = from
    BY <1>2 DEF Offer, s, from
  <1>10. J.offer = [I.offer EXCEPT ![o] = sale]
    BY <1>7, <1>8
  <1> HIDE DEF J, sale
  <1>11. /\ J.offer \in Seq(Offer) /\ Offers(J) = Offers(I) /\ J.offer[o] = sale
         /\ \A i \in Offers(I) \ {o} : J.offer[i] = I.offer[i]
    BY <1>1, <1>2, <1>9, <1>10 DEF Typed, Offers
  <1>12. Typed(J)
    BY <1>4, <1>7, <1>8, <1>11 DEF Typed, Offers
  <1>13. InventoriesExact(J)
    <2>1. \A y : Owned(J, y) = Owned(K, y)
      BY <1>7 DEF Owned
    <2> QED
      BY <1>4, <1>7, <2>1 DEF InventoriesExact, Exact
  <1>14. OnlyAwardedOwned(J)
    BY <1>1, <1>3, <1>4, <1>5, <1>7, <1>8, <1>2, AssetFacts DEF OnlyAwardedOwned, Gone, Owned
  <1>15. Leave(I, J, S)
    <2>1. Unsold(J) = Unsold(I) \ {o}
      <3>1. x # Nobody
        BY AssetFacts
      <3> QED
        BY <1>9, <1>11, <3>1 DEF Unsold
    <2>2. ASSUME NEW i \in Unsold(J), NEW a \in ToSet(I.offer[i].assets)
          PROVE  a \notin S /\ J.owner[a] = I.owner[a]
      <3>1. i \in Offers(I) /\ i # o /\ a \in Asset /\ I.offered[a] = i
        BY <1>1, <2>1, OfferFacts DEF Unsold, OffersBacked, Backed
      <3>2. a \notin S
        BY <1>3, <1>5, <3>1
      <3> QED
        BY <1>4, <1>7, <3>1, <3>2 DEF Gone
    <2>3. \A i \in Offers(I) : J.offer[i].assets = I.offer[i].assets
      BY <1>9, <1>11 DEF s
    <2>4. \A i \in Unsold(J) : J.offer[i].seller = I.offer[i].seller
      BY <1>11, <2>1 DEF Unsold
    <2>5. \A a \in S : ToSet(I.offer[I.offered[a]].assets) \subseteq S
      BY <1>3, <1>5, <1>6 DEF s
    <2> QED
      BY <1>4, <1>7, <1>11, <2>1, <2>2, <2>3, <2>4, <2>5 DEF Leave, Gone
  <1>16. OffersBacked(J) /\ OfferedTogether(J)
    BY <1>5, <1>15, OffersStay
  <1> QED
    BY <1>12, <1>13, <1>14, <1>16 DEF Sound, J, K, from, s

(***************************************************************************)
(* Every step keeps sound inventories sound, but for the uses that the     *)
(* property names.                                                         *)
(***************************************************************************)
LEMMA StepSound ==
  ASSUME Next, Sound(inventory), ~TakesFromOffer, ~NamesAnAssetTwice
  PROVE  Sound(inventory')
PROOF
  <1> USE DEF Applied
  <1> DEFINE I == inventory
  <1>1. /\ DOMAIN I = DOMAIN EmptyInventory /\ Typed(I) /\ InventoriesExact(I)
        /\ OffersBacked(I) /\ OfferedTogether(I)
    BY DEF Sound, Typed
  <1>2. ASSUME NEW x \in Account, NEW fee \in Fee, NEW y \in Account, NEW s \in AssetList,
               SendAssets(x, y, s, fee)
        PROVE  Sound(inventory')
    <2>1. IsInjective(s)
      BY <1>2 DEF NamesAnAssetTwice
    <2>2. ToSet(s) \subseteq Owned(I, x) /\ \A a \in ToSet(s) : I.offered[a] = NoOffer
      BY <1>2 DEF SendAssets, Free
    <2>3. CASE x = y
      BY <1>2, <2>3 DEF SendAssets
    <2>4. CASE x # y
      <3>1. inventory' = TransferAssets(I, x, y, s)
        BY <1>2, <2>4 DEF SendAssets
      <3> QED
        BY <2>1, <2>2, <2>4, <3>1, ListFacts, SentSound
    <2> QED
      BY <2>3, <2>4
  <1>3. ASSUME NEW x \in Account, NEW fee \in Fee, NEW s \in AssetList, NEW e \in 1..(MaxTime + 1),
               MakeOffer(x, s, e, fee)
        PROVE  Sound(inventory')
    <2>1. IsInjective(s)
      BY <1>3 DEF NamesAnAssetTwice
    <2>2. /\ ToSet(s) \subseteq Owned(I, x) /\ \A a \in ToSet(s) : I.offered[a] = NoOffer
          /\ inventory' = OfferAssets(I, x, s, e)
      BY <1>3 DEF MakeOffer, Free
    <2>3. e \in Nat
      BY LedgerAssumption
    <2> QED
      BY <2>1, <2>2, <2>3, ListFacts, OfferSound
  <1>4. ASSUME NEW x \in Account, NEW fee \in Fee, NEW a \in Asset, CancelOffer(x, a, fee)
        PROVE  Sound(inventory')
    <2> DEFINE o == I.offered[a]
    <2>1. o # NoOffer /\ o \in Offers(I) /\ inventory' = ClearOffers(I, {o})
      BY <1>1, <1>4 DEF CancelOffer, Typed
    <2>2. \A b \in ToSet(I.offer[o].assets) : I.offered[b] = o
      BY <1>1, <2>1 DEF OfferedTogether
    <2> QED
      BY <2>1, <2>2, ClearedSound
  <1>5. ASSUME NEW x \in Account, NEW fee \in Fee, NEW o \in Offers(I), NEW p \in Price,
               BuyAssets(x, o, p, fee)
        PROVE  Sound(inventory')
    <2>1. /\ o \in Unsold(I) /\ x # I.offer[o].seller
          /\ inventory' = Sold(TransferAssets(I, I.offer[o].seller, x, I.offer[o].assets), o, x)
      BY <1>5 DEF BuyAssets, Unsold
    <2> QED
      BY <2>1, SaleSound
  <1>6. ASSUME NEW x \in Account, NEW fee \in Fee, NEW S \in SUBSET Asset, UpgradeAssets(x, S, fee)
        PROVE  Sound(inventory')
    BY <1>1, <1>6, ChangeSound, SameBooksSound DEF UpgradeAssets
  <1>7. ASSUME NEW x \in Account, NEW fee \in Fee, NEW t \in Asset, NEW s \in AssetList, NEW p \in Price,
               StampAssets(x, t, s, p, fee)
        PROVE  Sound(inventory')
    <2>1. inventory' = ChangeAssets(I, x, ToSet(s))
      BY <1>7 DEF StampAssets
    <2> QED
      BY <1>1, <2>1, ChangeSound, SameBooksSound
  <1>8. ASSUME NEW x \in Account, NEW fee \in Fee, NEW n \in 1..MaxList, GetAssets(x, n, fee)
        PROVE  Sound(inventory')
    <2>1. n \in Nat /\ I.awarded + n <= Cardinality(Asset) /\ inventory' = AwardAssets(I, x, n)
      BY <1>8, LedgerAssumption DEF GetAssets, Awardable
    <2> QED
      BY <2>1, AwardSound
  <1>9. ASSUME NEW x \in Account, NEW fee \in Fee, NEW y \in Account, RunScript(x, y, fee)
        PROVE  Sound(inventory')
    <2>1. ASSUME NEW a \in Asset, Revoke(x, a, fee) PROVE Sound(inventory')
      <3>1. I.offered[a] = NoOffer
        BY <2>1 DEF TakesFromOffer
      <3>2. I.owner[a] \in Account /\ a \in Owned(I, I.owner[a])
        BY <1>1, <2>1 DEF Revoke, Typed, Owned
      <3>3. inventory' = RevokeAsset(I, a)
        BY <2>1 DEF Revoke
      <3> QED
        BY <3>1, <3>2, <3>3, RevokeSound
    <2>2. ASSUME NEW a \in Asset, SetField(x, a, fee) PROVE Sound(inventory')
      BY <1>1, <2>2, ChangeSound, SameBooksSound DEF SetField
    <2>3. ASSUME NEW n \in 1..MaxList, Awardable(n), inventory' = AwardAssets(I, y, n)
          PROVE  Sound(inventory')
      <3>1. n \in Nat /\ I.awarded + n <= Cardinality(Asset)
        BY <2>3, LedgerAssumption DEF Awardable
      <3> QED
        BY <2>3, <3>1, AwardSound
    <2> QED
      BY <1>9, <2>1, <2>2, <2>3 DEF RunScript
  <1>10. ASSUME NEW x \in Account, NEW fee \in Fee, NEW n \in 0..MaxList, ResetInventories(x, n, fee)
         PROVE  Sound(inventory')
    <2>1. Unsold(I) = {}
      BY <1>10 DEF TakesFromOffer
    <2>2. Sound(ClearInventories(I)) /\ ClearInventories(I).awarded = I.awarded
      BY <2>1, ClearSound
    <2>3. /\ n \in Nat /\ I.awarded + n <= Cardinality(Asset)
          /\ inventory' = AwardAssets(ClearInventories(I), x, n)
      BY <1>10, LedgerAssumption DEF ResetInventories, Awardable
    <2> QED
      BY <2>2, <2>3, AwardSound
  <1>11. ASSUME NEW x \in Account, NEW fee \in Fee, IdentifyAccount(x, fee)
         PROVE  Sound(inventory')
    BY <1>11 DEF IdentifyAccount
  <1>12. ASSUME NEW x \in Account, NEW fee \in Fee, NEW y \in Account, NEW p \in Price,
                SendVOL(x, y, p, fee)
         PROVE  Sound(inventory')
    BY <1>12 DEF SendVOL
  <1>13. CASE BeginBlock
    BY <1>13, ExpiredSound DEF BeginBlock
  <1>14. CASE EndBlock
    BY <1>14 DEF EndBlock
  <1>15. ASSUME NEW x \in Client, ReadLog(x) PROVE Sound(inventory')
    <2>1. DOMAIN I = {"owner", "position", "offered", "changed", "slot", "count", "log",
                      "offer", "open", "awarded"}
      BY <1>1 DEF EmptyInventory
    <2>2. SameBooks(I, [I EXCEPT !.log[x] = NothingLogged])
      BY <2>1 DEF SameBooks, SameOffers
    <2> QED
      BY <1>15, <2>2, SameBooksSound DEF ReadLog
  <1> QED
    BY <1>2, <1>3, <1>4, <1>5, <1>6, <1>7, <1>8, <1>9, <1>10, <1>11, <1>12, <1>13, <1>14, <1>15 DEF Next

(***************************************************************************)
(* No transaction and no block breaks a sound inventory, but for those     *)
(* that take an asset that is on offer or name an asset twice.             *)
(***************************************************************************)
THEOREM BooksAlwaysStaySound == Spec => BooksStaySound
PROOF
  <1>1. ASSUME [Next]_vars, Sound(inventory), ~TakesFromOffer, ~NamesAnAssetTwice
        PROVE  Sound(inventory')
    <2>1. CASE Next
      BY <1>1, <2>1, StepSound
    <2>2. CASE UNCHANGED vars
      BY <1>1, <2>2 DEF vars
    <2> QED
      BY <1>1, <2>1, <2>2
  <1>2. [][Next]_vars =>
          [][ Sound(inventory) /\ ~TakesFromOffer /\ ~NamesAnAssetTwice => Sound(inventory') ]_vars
    BY <1>1, PTL
  <1> QED
    BY <1>2, PTL DEF Spec, BooksStaySound

(* A history of transactions without those uses has sound inventories all along. *)
THEOREM SoundHistories ==
  Init /\ [][Next /\ ~TakesFromOffer /\ ~NamesAnAssetTwice]_vars => []Sound(inventory)
PROOF
  <1>1. Init => Sound(inventory)
    BY BeginningSound DEF Init
  <1>2. ASSUME [Next /\ ~TakesFromOffer /\ ~NamesAnAssetTwice]_vars, Sound(inventory)
        PROVE  Sound(inventory')
    <2>1. CASE Next /\ ~TakesFromOffer /\ ~NamesAnAssetTwice
      BY <1>2, <2>1, StepSound
    <2>2. CASE UNCHANGED vars
      BY <1>2, <2>2 DEF vars
    <2> QED
      BY <1>2, <2>1, <2>2
  <1>3. Sound(inventory) /\ [Next /\ ~TakesFromOffer /\ ~NamesAnAssetTwice]_vars
          => Sound(inventory)'
    BY <1>2
  <1> QED
    BY <1>1, <1>3, PTL

-----------------------------------------------------------------------------
(* The list of open offers. *)

Shaped(I) == DOMAIN I = DOMAIN EmptyInventory

(* Nothing happens to the offers. *)
KeepsOffers(I, J) == Shaped(J) /\ J.offer = I.offer /\ J.open = I.open

LEMMA Fields ==
  ASSUME NEW I, Shaped(I)
  PROVE  DOMAIN I = {"owner", "position", "offered", "changed", "slot", "count", "log",
                     "offer", "open", "awarded"}
BY DEF Shaped, EmptyInventory

LEMMA ToldKeepsOffers ==
  ASSUME NEW I, Shaped(I), NEW x, NEW additions, NEW deletions
  PROVE  KeepsOffers(I, Logged(I, x, additions, deletions))
BY Fields DEF Logged, KeepsOffers, Shaped

(* Nobody is told of anything. *)
Quiet(I, J) == KeepsOffers(I, J) /\ J.log = I.log /\ J.changed = I.changed

LEMMA TakeOutIsQuiet ==
  ASSUME NEW I, Shaped(I), NEW x, NEW a
  PROVE  Quiet(I, TakeOut(I, x, a))
PROOF
  <1> DEFINE F == Filled(I, x, a)
  <1>1. Quiet(I, F)
    BY Fields DEF Filled, Quiet, KeepsOffers, Shaped
  <1> HIDE DEF F
  <1>2. Quiet(F, [F EXCEPT !.count[x] = (@ - 1) % Width])
    BY <1>1, Fields DEF Quiet, KeepsOffers, Shaped
  <1> QED
    BY <1>1, <1>2 DEF TakeOut, Quiet, KeepsOffers, F

LEMMA MoveIsQuiet ==
  ASSUME NEW I, Shaped(I), NEW from, NEW to, NEW a
  PROVE  Quiet(I, MoveAsset(I, from, to, a))
PROOF
  <1> DEFINE O == TakeOut(I, from, a)
  <1> DEFINE end == I.count[to]
  <1>1. Quiet(I, O)
    BY TakeOutIsQuiet
  <1> HIDE DEF O, end
  <1>2. Quiet(O, [O EXCEPT !.owner[a] = to, !.offered[a] = NoOffer, !.position[a] = end,
                           !.slot[to][end] = a, !.count[to] = (@ + 1) % Width])
    BY <1>1, Fields DEF Quiet, KeepsOffers, Shaped
  <1> QED
    BY <1>1, <1>2 DEF MoveAsset, Quiet, KeepsOffers, O, end

(***************************************************************************)
(* A transfer tells nothing before its end: the first round that did would *)
(* follow one that did not.                                                *)
(***************************************************************************)
LEMMA TransferTells ==
  ASSUME NEW I, Shaped(I), NEW from, NEW to, NEW s \in Seq(Asset), HasRoom(I, to, Len(s))
  PROVE  \E K : /\ Quiet(I, K)
                /\ TransferAssets(I, from, to, s) =
                     Logged(Logged(K, from, {}, ToSet(s)), to, ToSet(s), {})
PROOF
  <1>1. PICK after :
          /\ after[0] = I
          /\ \A i \in 1..Len(s) : after[i] = MoveAsset(after[i - 1], from, to, s[i])
          /\ TransferAssets(I, from, to, s) =
               Logged(Logged(after[Len(s)], from, {}, ToSet(s)), to, ToSet(s), {})
    BY TransferRounds
  <1> DEFINE bad == { i \in 0..Len(s) : ~Quiet(I, after[i]) }
  <1>2. bad = {}
    <2> SUFFICES ASSUME bad # {} PROVE FALSE
      OBVIOUS
    <2>1. bad \in SUBSET Nat
      OBVIOUS
    <2>2. PICK n \in bad : \A i \in bad : n <= i
      <3> HIDE DEF bad
      <3> QED
        BY <2>1, LeastExists
    <2>3. n # 0
      BY <1>1 DEF Quiet, KeepsOffers
    <2>4. n \in 1..Len(s) /\ n - 1 \in 0..Len(s) /\ n - 1 \notin bad
      BY <2>2, <2>3
    <2>5. Quiet(I, after[n - 1])
      BY <2>4
    <2>6. Quiet(after[n - 1], MoveAsset(after[n - 1], from, to, s[n]))
      BY <2>5, MoveIsQuiet DEF Quiet, KeepsOffers
    <2>7. after[n] = MoveAsset(after[n - 1], from, to, s[n])
      BY <1>1, <2>4
    <2> QED
      BY <2>2, <2>5, <2>6, <2>7 DEF Quiet, KeepsOffers
  <1>3. Quiet(I, after[Len(s)])
    BY <1>2
  <1> QED
    BY <1>1, <1>3

LEMMA TransferKeepsOffers ==
  ASSUME NEW I, Shaped(I), NEW from, NEW to, NEW s \in Seq(Asset)
  PROVE  KeepsOffers(I, TransferAssets(I, from, to, s))
PROOF
  <1>1. CASE ~HasRoom(I, to, Len(s))
    BY <1>1 DEF TransferAssets, KeepsOffers
  <1>2. CASE HasRoom(I, to, Len(s))
    <2>1. PICK K : /\ Quiet(I, K)
                   /\ TransferAssets(I, from, to, s) =
                        Logged(Logged(K, from, {}, ToSet(s)), to, ToSet(s), {})
      BY <1>2, TransferTells
    <2> DEFINE L == Logged(K, from, {}, ToSet(s))
    <2>2. KeepsOffers(K, L)
      BY <2>1, ToldKeepsOffers DEF Quiet, KeepsOffers
    <2>3. KeepsOffers(L, Logged(L, to, ToSet(s), {}))
      BY <2>2, ToldKeepsOffers DEF KeepsOffers
    <2> QED
      BY <2>1, <2>2, <2>3 DEF Quiet, KeepsOffers
  <1> QED
    BY <1>1, <1>2

LEMMA AwardKeepsOffers ==
  ASSUME NEW I, Shaped(I), NEW x, NEW q
  PROVE  KeepsOffers(I, AwardAssets(I, x, q))
PROOF
  <1> DEFINE new == { a \in Asset : I.awarded <= a /\ a < I.awarded + q }
  <1> DEFINE at(a) == I.count[x] + a - I.awarded
  <1> DEFINE owner == [a \in Asset |-> IF a \in new THEN x ELSE I.owner[a]]
  <1> DEFINE position == [a \in Asset |-> IF a \in new THEN at(a) ELSE I.position[a]]
  <1> DEFINE places == [i \in Index |-> IF \E a \in new : at(a) = i
                                        THEN I.awarded + i - I.count[x] ELSE I.slot[x][i]]
  <1> DEFINE G == [I EXCEPT !.owner = owner, !.position = position,
                            !.slot = [I.slot EXCEPT ![x] = places],
                            !.count = [I.count EXCEPT ![x] = I.count[x] + q],
                            !.awarded = I.awarded + q]
  <1>1. AwardAssets(I, x, q) = Logged(G, x, new, {})
    BY Fields DEF AwardAssets
  <1> HIDE DEF owner, position, places, new
  <1>2. KeepsOffers(I, G)
    BY Fields DEF KeepsOffers, Shaped
  <1> HIDE DEF G
  <1>3. KeepsOffers(G, Logged(G, x, new, {}))
    BY <1>2, ToldKeepsOffers DEF KeepsOffers
  <1> QED
    BY <1>1, <1>2, <1>3 DEF KeepsOffers

LEMMA RevokeKeepsOffers ==
  ASSUME NEW I, Shaped(I), NEW a
  PROVE  KeepsOffers(I, RevokeAsset(I, a))
PROOF
  <1> DEFINE x == I.owner[a]
  <1> DEFINE O == TakeOut(I, x, a)
  <1> DEFINE G == [O EXCEPT !.owner[a] = Nobody, !.position[a] = NullPosition]
  <1>1. KeepsOffers(I, O)
    BY TakeOutIsQuiet DEF Quiet
  <1>2. RevokeAsset(I, a) = Logged(G, x, {}, {a})
    BY DEF RevokeAsset
  <1> HIDE DEF x, O
  <1>3. KeepsOffers(O, G)
    BY <1>1, Fields DEF KeepsOffers, Shaped
  <1> HIDE DEF G
  <1>4. KeepsOffers(G, Logged(G, x, {}, {a}))
    BY <1>3, ToldKeepsOffers DEF KeepsOffers
  <1> QED
    BY <1>1, <1>2, <1>3, <1>4 DEF KeepsOffers

LEMMA ChangeKeepsOffers ==
  ASSUME NEW I, Shaped(I), NEW x, NEW S
  PROVE  KeepsOffers(I, ChangeAssets(I, x, S))
PROOF
  <1> DEFINE G == [I EXCEPT !.changed = @ \cup S]
  <1>1. KeepsOffers(I, G)
    BY Fields DEF KeepsOffers, Shaped
  <1>2. ChangeAssets(I, x, S) = Logged(G, x, S, S)
    BY DEF ChangeAssets
  <1> HIDE DEF G
  <1>3. KeepsOffers(G, Logged(G, x, S, S))
    BY <1>1, ToldKeepsOffers DEF KeepsOffers
  <1> QED
    BY <1>1, <1>2, <1>3 DEF KeepsOffers

LEMMA ClearKeepsOffers ==
  ASSUME NEW I, Shaped(I)
  PROVE  KeepsOffers(I, ClearInventories(I))
PROOF
  <1> DEFINE all == UNION { Listed(I, x) : x \in Account }
  <1> DEFINE owner == [a \in Asset |-> IF a \in all THEN Nobody ELSE I.owner[a]]
  <1> DEFINE position == [a \in Asset |-> IF a \in all THEN NullPosition ELSE I.position[a]]
  <1> DEFINE count == [x \in Account |-> 0]
  <1> DEFINE log == [x \in Account |-> [additions |-> I.log[x].additions,
                                        deletions |-> I.log[x].deletions \cup Listed(I, x)]]
  <1>1. ClearInventories(I) = [I EXCEPT !.owner = owner, !.position = position,
                                        !.count = count, !.log = log]
    BY DEF ClearInventories
  <1> HIDE DEF owner, position, count, log
  <1> QED
    BY <1>1, Fields DEF KeepsOffers, Shaped

(***************************************************************************)
(* Offers are added one by one, and the list names all those that can      *)
(* still be bought after the time t.                                       *)
(***************************************************************************)
Posted(I, t) ==
  /\ Shaped(I) /\ I.offer \in Seq(Offer) /\ I.open \in Seq(Nat) /\ t \in Nat
  /\ \A o \in Unsold(I) : I.offer[o].expiration > t => o \in ToSet(I.open)

LEMMA StayPosted ==
  ASSUME NEW I, NEW J, NEW t, Posted(I, t), KeepsOffers(I, J)
  PROVE  Posted(J, t)
BY DEF Posted, KeepsOffers, Unsold, Offers

LEMMA PostedOffer ==
  ASSUME NEW I, NEW t, Posted(I, t), NEW o \in Offers(I)
  PROVE  /\ Offers(I) = 1..Len(I.offer) /\ Len(I.offer) \in Nat
         /\ I.offer[o] \in Offer /\ I.offer[o].assets \in Seq(Asset)
PROOF
  <1>1. Offers(I) = 1..Len(I.offer) /\ Len(I.offer) \in Nat /\ I.offer \in Seq(Offer)
    BY DEF Posted, Offers
  <1>2. I.offer[o] \in Offer
    BY <1>1
  <1> QED
    BY <1>1, <1>2 DEF Offer

(* One offer more, at the end of the list. *)
LEMMA OfferPosted ==
  ASSUME NEW I, NEW t, Posted(I, t), NEW x \in Account, NEW s \in Seq(Asset), NEW e \in Nat
  PROVE  Posted(OfferAssets(I, x, s, e), t)
PROOF
  <1> DEFINE J == OfferAssets(I, x, s, e)
  <1> DEFINE new == [seller |-> x, buyer |-> Nobody, expiration |-> e, assets |-> s]
  <1> DEFINE n == Len(I.offer)
  <1>1. Shaped(I) /\ I.offer \in Seq(Offer) /\ I.open \in Seq(Nat) /\ n \in Nat
    BY DEF Posted
  <1>2. new \in Offer
    BY DEF Offer
  <1>3. /\ DOMAIN J = DOMAIN I /\ J.awarded = I.awarded
        /\ J.owner = I.owner /\ J.position = I.position /\ J.slot = I.slot /\ J.count = I.count
        /\ J.offer = Append(I.offer, new) /\ J.open = Append(I.open, n + 1)
        /\ J.offered = [a \in Asset |-> IF a \in ToSet(s) THEN n + 1 ELSE I.offered[a]]
    <2>1. DOMAIN I = DOMAIN EmptyInventory
      BY <1>1 DEF Shaped
    <2> HIDE DEF J
    <2> QED
      BY <2>1, OfferedFields DEF J, PartOf
  <1> HIDE DEF J, new
  <1> HIDE DEF n
  <1>4. /\ J.offer \in Seq(Offer) /\ Offers(J) = 1..(n + 1) /\ Offers(I) = 1..n
        /\ \A o \in 1..n : J.offer[o] = I.offer[o]
    <2>1. J.offer = Append(I.offer, new) /\ n = Len(I.offer)
      BY <1>3 DEF n
    <2> QED
      BY <1>1, <1>2, <2>1 DEF Offers
  <1>5. J.open \in Seq(Nat) /\ ToSet(J.open) = ToSet(I.open) \cup {n + 1}
    <2>1. J.open = Append(I.open, n + 1) /\ n + 1 \in Nat
      BY <1>1, <1>3
    <2> QED
      BY <1>1, <2>1, AppendedElements
  <1>6. ASSUME NEW o \in Unsold(J), J.offer[o].expiration > t PROVE o \in ToSet(J.open)
    <2>1. CASE o = n + 1
      BY <1>5, <2>1
    <2>2. CASE o # n + 1
      <3>1. o \in 1..n /\ J.offer[o] = I.offer[o]
        BY <1>1, <1>4, <2>2 DEF Unsold
      <3>2. o \in Unsold(I)
        BY <1>4, <3>1 DEF Unsold
      <3> QED
        BY <1>5, <1>6, <3>1, <3>2 DEF Posted
    <2> QED
      BY <2>1, <2>2
  <1> QED
    BY <1>1, <1>3, <1>4, <1>5, <1>6 DEF Posted, Shaped, J

(* What is left of the offers once some of them have ended. *)
LEMMA EndedOffer ==
  ASSUME NEW I, NEW t, Posted(I, t), NEW os, NEW o \in Offers(I)
  PROVE  LET end == Ended(I, os)[o]
         IN  /\ end \in Offer /\ end.expiration = I.offer[o].expiration
             /\ end.buyer = I.offer[o].buyer
             /\ end.seller = IF o \in os THEN Nobody ELSE I.offer[o].seller
PROOF
  <1>1. I.offer[o] \in Offer
    BY PostedOffer
  <1> DEFINE over == [I.offer[o] EXCEPT !.seller = Nobody]
  <1>2. /\ over \in Offer /\ over.expiration = I.offer[o].expiration
        /\ over.buyer = I.offer[o].buyer /\ over.seller = Nobody
    BY <1>1 DEF Offer
  <1>3. Ended(I, os)[o] = IF o \in os THEN over ELSE I.offer[o]
    BY DEF Ended
  <1> HIDE DEF over
  <1> QED
    BY <1>1, <1>2, <1>3

LEMMA EndedOffers ==
  ASSUME NEW I, NEW t, Posted(I, t), NEW os, NEW J, J.offer = Ended(I, os)
  PROVE  J.offer \in Seq(Offer) /\ Unsold(J) = Unsold(I) \ os
PROOF
  <1>1. Offers(J) = Offers(I)
    BY DEF Ended, Offers
  <1>2. J.offer \in Seq(Offer)
    <2>1. Len(I.offer) \in Nat /\ Offers(I) = 1..Len(I.offer)
      BY DEF Posted, Offers
    <2>2. J.offer = [o \in 1..Len(I.offer) |-> J.offer[o]]
      BY <2>1 DEF Ended
    <2>3. \A o \in 1..Len(I.offer) : J.offer[o] \in Offer
      BY <2>1, EndedOffer
    <2>4. J.offer \in [1..Len(I.offer) -> Offer]
      BY <2>2, <2>3
    <2> QED
      BY <2>1, <2>4
  <1>3. Unsold(J) = Unsold(I) \ os
    BY <1>1, EndedOffer DEF Unsold
  <1> QED
    BY <1>2, <1>3

LEMMA CancelledPosted ==
  ASSUME NEW I, NEW t, Posted(I, t), NEW os
  PROVE  Posted(ClearOffers(I, os), t)
PROOF
  <1> DEFINE J == ClearOffers(I, os)
  <1>1. Shaped(J) /\ J.open = I.open /\ J.offer = Ended(I, os)
    <2>1. DOMAIN I = DOMAIN EmptyInventory
      BY DEF Posted, Shaped
    <2> HIDE DEF J
    <2> QED
      BY <2>1, ClearedFields DEF J, Shaped
  <1> HIDE DEF J
  <1>2. J.offer \in Seq(Offer) /\ Unsold(J) = Unsold(I) \ os
    BY <1>1, EndedOffers
  <1>3. ASSUME NEW o \in Unsold(J)
        PROVE  o \in Unsold(I) /\ J.offer[o].expiration = I.offer[o].expiration
    <2>1. o \in Unsold(I) /\ o \in Offers(I)
      BY <1>2 DEF Unsold
    <2> QED
      BY <1>1, <2>1, EndedOffer
  <1> QED
    BY <1>1, <1>2, <1>3 DEF Posted, J

LEMMA SoldPosted ==
  ASSUME NEW I, NEW t, Posted(I, t), NEW o \in Offers(I), NEW x \in Account
  PROVE  Posted(Sold(I, o, x), t)
PROOF
  <1> DEFINE sale == [I.offer[o] EXCEPT !.buyer = x]
  <1> DEFINE J == Sold(I, o, x)
  <1>1. Shaped(I) /\ I.offer \in Seq(Offer)
    BY DEF Posted
  <1>2. I.offer[o] \in Offer /\ o \in 1..Len(I.offer) /\ x # Nobody
    BY PostedOffer, AssetFacts
  <1>3. Shaped(J) /\ J.open = I.open /\ J.offer = [I.offer EXCEPT ![o] = sale]
    BY <1>1, Fields DEF Sold, Shaped
  <1>4. sale \in Offer /\ sale.buyer = x
    BY <1>2 DEF Offer
  <1> HIDE DEF sale, J
  <1>5. J.offer \in Seq(Offer) /\ Offers(J) = Offers(I) /\ J.offer[o] = sale
        /\ \A i \in Offers(I) \ {o} : J.offer[i] = I.offer[i]
    BY <1>1, <1>2, <1>3, <1>4 DEF Offers
  <1>6. \A i \in Unsold(J) : i \in Unsold(I) /\ J.offer[i] = I.offer[i]
    BY <1>2, <1>4, <1>5 DEF Unsold
  <1> QED
    BY <1>3, <1>5, <1>6 DEF Posted, J

(* The list made anew has all that are unsold and not due. *)
LEMMA ExpiredPosted ==
  ASSUME NEW I, NEW t, Posted(I, t), NEW u \in Nat
  PROVE  Posted(ExpireOffers(I, u), u)
PROOF
  <1> DEFINE J == ExpireOffers(I, u)
  <1> DEFINE C == ClearOffers(I, Due(I, u))
  <1>1. DOMAIN I = DOMAIN EmptyInventory /\ I.offer \in Seq(Offer)
    BY DEF Posted, Shaped
  <1>2. DOMAIN C = DOMAIN I /\ C.offer = Ended(I, Due(I, u))
    <2> HIDE DEF C
    <2> QED
      BY <1>1, ClearedFields DEF C
  <1>3. /\ DOMAIN J = DOMAIN C /\ J.offer = C.offer /\ J.open \in Seq(Nat)
        /\ ToSet(J.open) = Unsold(I) \ Due(I, u)
    <2> HIDE DEF C, J
    <2> QED
      BY <1>1, ExpiredFields DEF C, J
  <1> HIDE DEF C, J
  <1>4. J.offer \in Seq(Offer) /\ Unsold(J) = Unsold(I) \ Due(I, u)
    BY <1>2, <1>3, EndedOffers
  <1> QED
    BY <1>1, <1>2, <1>3, <1>4 DEF Posted, Shaped, J

LEMMA StepPosted ==
  ASSUME Next, Posted(inventory, time)
  PROVE  Posted(inventory', time')
PROOF
  <1> USE DEF Applied
  <1> DEFINE I == inventory
  <1>1. Shaped(I) /\ time \in Nat
    BY DEF Posted
  <1>2. ASSUME NEW x \in Account, NEW fee \in Fee, NEW y \in Account, NEW s \in AssetList,
               SendAssets(x, y, s, fee)
        PROVE  Posted(inventory', time')
    <2>1. CASE x = y
      BY <1>2, <2>1 DEF SendAssets
    <2>2. CASE x # y
      BY <1>1, <1>2, <2>2, ListFacts, TransferKeepsOffers, StayPosted DEF SendAssets
    <2> QED
      BY <2>1, <2>2
  <1>3. ASSUME NEW x \in Account, NEW fee \in Fee, NEW s \in AssetList, NEW e \in 1..(MaxTime + 1),
               MakeOffer(x, s, e, fee)
        PROVE  Posted(inventory', time')
    <2>1. inventory' = OfferAssets(I, x, s, e) /\ time' = time /\ s \in Seq(Asset) /\ e \in Nat
      BY <1>3, ListFacts, LedgerAssumption DEF MakeOffer
    <2> QED
      BY <2>1, OfferPosted
  <1>4. ASSUME NEW x \in Account, NEW fee \in Fee, NEW a \in Asset, CancelOffer(x, a, fee)
        PROVE  Posted(inventory', time')
    BY <1>4, CancelledPosted DEF CancelOffer
  <1>5. ASSUME NEW x \in Account, NEW fee \in Fee, NEW o \in Offers(I), NEW p \in Price,
               BuyAssets(x, o, p, fee)
        PROVE  Posted(inventory', time')
    <2> DEFINE s == I.offer[o].assets
    <2> DEFINE K == TransferAssets(I, I.offer[o].seller, x, s)
    <2>1. inventory' = Sold(K, o, x) /\ time' = time
      BY <1>5 DEF BuyAssets
    <2>2. KeepsOffers(I, K)
      BY <1>1, PostedOffer, TransferKeepsOffers
    <2> HIDE DEF K
    <2>3. Posted(K, time) /\ o \in Offers(K)
      BY <2>2, StayPosted DEF KeepsOffers, Offers
    <2> QED
      BY <2>1, <2>3, SoldPosted
  <1>6. ASSUME NEW x \in Account, NEW fee \in Fee, NEW S \in SUBSET Asset, UpgradeAssets(x, S, fee)
        PROVE  Posted(inventory', time')
    BY <1>1, <1>6, ChangeKeepsOffers, StayPosted DEF UpgradeAssets
  <1>7. ASSUME NEW x \in Account, NEW fee \in Fee, NEW t \in Asset, NEW s \in AssetList, NEW p \in Price,
               StampAssets(x, t, s, p, fee)
        PROVE  Posted(inventory', time')
    BY <1>1, <1>7, ChangeKeepsOffers, StayPosted DEF StampAssets
  <1>8. ASSUME NEW x \in Account, NEW fee \in Fee, NEW n \in 1..MaxList, GetAssets(x, n, fee)
        PROVE  Posted(inventory', time')
    BY <1>1, <1>8, AwardKeepsOffers, StayPosted DEF GetAssets
  <1>9. ASSUME NEW x \in Account, NEW fee \in Fee, NEW y \in Account, RunScript(x, y, fee)
        PROVE  Posted(inventory', time')
    <2>1. ASSUME NEW a \in Asset, Revoke(x, a, fee) PROVE Posted(inventory', time')
      BY <1>1, <2>1, RevokeKeepsOffers, StayPosted DEF Revoke
    <2>2. ASSUME NEW a \in Asset, SetField(x, a, fee) PROVE Posted(inventory', time')
      BY <1>1, <2>2, ChangeKeepsOffers, StayPosted DEF SetField
    <2>3. ASSUME NEW n \in 1..MaxList, Applied(x, fee, 0, AwardAssets(I, y, n), vol)
          PROVE  Posted(inventory', time')
      BY <1>1, <2>3, AwardKeepsOffers, StayPosted
    <2>4. ASSUME NEW p \in Price, Applied(x, fee, 0, I, AwardVOL(vol, y, p))
          PROVE  Posted(inventory', time')
      BY <2>4
    <2> QED
      BY <1>9, <2>1, <2>2, <2>3, <2>4 DEF RunScript
  <1>10. ASSUME NEW x \in Account, NEW fee \in Fee, NEW n \in 0..MaxList, ResetInventories(x, n, fee)
         PROVE  Posted(inventory', time')
    <2>1. KeepsOffers(I, ClearInventories(I))
      BY <1>1, ClearKeepsOffers
    <2>2. inventory' = AwardAssets(ClearInventories(I), x, n) /\ time' = time
      BY <1>10 DEF ResetInventories
    <2> QED
      BY <2>1, <2>2, AwardKeepsOffers, StayPosted DEF KeepsOffers
  <1>11. ASSUME NEW x \in Account, NEW fee \in Fee, IdentifyAccount(x, fee)
         PROVE  Posted(inventory', time')
    BY <1>11 DEF IdentifyAccount
  <1>12. ASSUME NEW x \in Account, NEW fee \in Fee, NEW y \in Account, NEW p \in Price,
                SendVOL(x, y, p, fee)
         PROVE  Posted(inventory', time')
    BY <1>12 DEF SendVOL
  <1>13. CASE BeginBlock
    BY <1>1, <1>13, ExpiredPosted DEF BeginBlock
  <1>14. CASE EndBlock
    BY <1>14 DEF EndBlock
  <1>15. ASSUME NEW x \in Client, ReadLog(x)
         PROVE  Posted(inventory', time')
    <2>1. KeepsOffers(I, [I EXCEPT !.log[x] = NothingLogged])
      BY <1>1, Fields DEF KeepsOffers, Shaped
    <2> QED
      BY <1>15, <2>1, StayPosted DEF ReadLog
  <1> QED
    BY <1>2, <1>3, <1>4, <1>5, <1>6, <1>7, <1>8, <1>9, <1>10, <1>11, <1>12, <1>13, <1>14, <1>15 DEF Next

(***************************************************************************)
(* Every offer that can still be bought is in the list of open offers, in  *)
(* every history, those with unsound inventories included.                 *)
(***************************************************************************)
THEOREM OpenOffersStayListed == Spec => []OpenOffersAreListed
PROOF
  <1> DEFINE Inv == Posted(inventory, time)
  <1>1. Init => Inv
    <2>1. SUFFICES ASSUME Init PROVE Inv
      OBVIOUS
    <2>2. inventory.offer = <<>> /\ inventory.open = <<>> /\ Shaped(inventory) /\ time = 0
      BY <2>1 DEF Init, EmptyInventory, Shaped
    <2> QED
      BY <2>2 DEF Posted, Unsold, Offers
  <1>2. ASSUME [Next]_vars, Inv PROVE Inv'
    <2>1. CASE Next
      BY <1>2, <2>1, StepPosted
    <2>2. CASE UNCHANGED vars
      BY <1>2, <2>2 DEF vars
    <2> QED
      BY <1>2, <2>1, <2>2
  <1>3. Inv => OpenOffersAreListed
    BY DEF Posted, OpenOffersAreListed
  <1>4. Inv /\ [Next]_vars => Inv'
    BY <1>2
  <1> HIDE DEF Inv
  <1> QED
    BY <1>1, <1>3, <1>4, PTL DEF Spec

-----------------------------------------------------------------------------
(* The inventory log. *)

LogTyped(I) == I.log \in [Account -> [additions : SUBSET Asset, deletions : SUBSET Asset]]

(* For the client of x, an asset is as it was. *)
Alike(I, J, a) ==
  J.owner[a] = I.owner[a] /\ J.offered[a] = I.offered[a] /\ (a \in J.changed <=> a \in I.changed)

(***************************************************************************)
(* What the log of x tells of the way from I to J: what x had and is no    *)
(* longer as it was is deleted, what x has and was not there so is added.  *)
(***************************************************************************)
TellsOf(I, J, x) ==
  /\ I.log[x].additions \subseteq J.log[x].additions
  /\ I.log[x].deletions \subseteq J.log[x].deletions
  /\ \A a \in Owned(I, x) : a \in J.log[x].deletions \/ Alike(I, J, a)
  /\ \A a \in Owned(J, x) :
       \/ a \in J.log[x].additions
       \/ Alike(I, J, a) /\ (a \in J.log[x].deletions => a \in I.log[x].deletions)

Tells(I, J) == LogTyped(J) /\ \A x \in Account : TellsOf(I, J, x)

Told(I, x, k) ==
  /\ \A d \in k : d.asset \notin I.log[x].deletions => d \in View(I, x)
  /\ \A a \in Owned(I, x) \ I.log[x].additions :
       /\ [asset |-> a, offer |-> I.offered[a], changed |-> a \in I.changed] \in k
       /\ a \notin I.log[x].deletions

LEMMA TellsTransitively ==
  ASSUME NEW I, NEW J, NEW K, Tells(I, J), Tells(J, K)
  PROVE  Tells(I, K)
PROOF
  <1>1. ASSUME NEW x \in Account PROVE TellsOf(I, K, x)
    <2>1. TellsOf(I, J, x) /\ TellsOf(J, K, x)
      BY DEF Tells
    <2>2. ASSUME NEW a \in Owned(I, x) PROVE a \in K.log[x].deletions \/ Alike(I, K, a)
      BY <2>1 DEF TellsOf, Alike, Owned
    <2>3. ASSUME NEW a \in Owned(K, x), a \notin K.log[x].additions
          PROVE  Alike(I, K, a) /\ (a \in K.log[x].deletions => a \in I.log[x].deletions)
      <3>1. Alike(J, K, a) /\ (a \in K.log[x].deletions => a \in J.log[x].deletions)
        BY <2>1, <2>3 DEF TellsOf
      <3>2. a \in Owned(J, x) /\ a \notin J.log[x].additions
        BY <2>1, <2>3, <3>1 DEF TellsOf, Alike, Owned
      <3>3. Alike(I, J, a) /\ (a \in J.log[x].deletions => a \in I.log[x].deletions)
        BY <2>1, <3>2 DEF TellsOf
      <3> QED
        BY <3>1, <3>3 DEF Alike
    <2> QED
      BY <2>1, <2>2, <2>3 DEF TellsOf
  <1> QED
    BY <1>1 DEF Tells

(* What has been told so far and what is told next leave nothing untold. *)
LEMMA StayTold ==
  ASSUME NEW I, NEW J, NEW x \in Account, NEW k, Told(I, x, k), TellsOf(I, J, x)
  PROVE  Told(J, x, k)
PROOF
  <1> DEFINE desc(K, a) == [asset |-> a, offer |-> K.offered[a], changed |-> a \in K.changed]
  <1>1. ASSUME NEW a, Alike(I, J, a) PROVE desc(J, a) = desc(I, a)
    <2>1. (a \in J.changed) = (a \in I.changed)
      BY <1>1 DEF Alike
    <2> QED
      BY <1>1, <2>1 DEF Alike
  <1>2. /\ \A d : d \in View(I, x) <=> \E a \in Owned(I, x) : d = desc(I, a)
        /\ \A d : d \in View(J, x) <=> \E a \in Owned(J, x) : d = desc(J, a)
    BY DEF View, Described
  <1>3. ASSUME NEW d \in k, d.asset \notin J.log[x].deletions PROVE d \in View(J, x)
    <2>1. d.asset \notin I.log[x].deletions
      BY <1>3 DEF TellsOf
    <2>2. d \in View(I, x)
      BY <2>1 DEF Told
    <2>3. PICK a \in Owned(I, x) : d = desc(I, a)
      BY <1>2, <2>2
    <2>4. d.asset = a
      BY <2>3
    <2>5. Alike(I, J, a)
      BY <1>3, <2>4 DEF TellsOf
    <2>6. a \in Owned(J, x)
      BY <2>5 DEF Alike, Owned
    <2>7. d = desc(J, a)
      BY <1>1, <2>3, <2>5
    <2> QED
      BY <1>2, <2>6, <2>7
  <1>4. ASSUME NEW a \in Owned(J, x), a \notin J.log[x].additions
        PROVE  desc(J, a) \in k /\ a \notin J.log[x].deletions
    <2>1. Alike(I, J, a) /\ (a \in J.log[x].deletions => a \in I.log[x].deletions)
      BY <1>4 DEF TellsOf
    <2>2. a \in Owned(I, x) /\ a \notin I.log[x].additions
      BY <1>4, <2>1 DEF TellsOf, Alike, Owned
    <2>3. desc(I, a) \in k /\ a \notin I.log[x].deletions
      BY <2>2 DEF Told
    <2> QED
      BY <1>1, <2>1, <2>3
  <1> QED
    BY <1>3, <1>4 DEF Told

(* Then a client that reads the log knows what there is. *)
LEMMA ToldView ==
  ASSUME NEW I, NEW x \in Account, NEW k, Told(I, x, k)
  PROVE  Replayed(I, x, k) = View(I, x)
PROOF
  <1> DEFINE desc(a) == [asset |-> a, offer |-> I.offered[a], changed |-> a \in I.changed]
  <1>1. \A S, d : d \in Described(I, S) <=> \E a \in S : d = desc(a)
    BY DEF Described
  <1>2. ASSUME NEW d \in Replayed(I, x, k) PROVE d \in View(I, x)
    BY <1>1, <1>2 DEF Replayed, Told, View
  <1>3. ASSUME NEW d \in View(I, x) PROVE d \in Replayed(I, x, k)
    <2>1. PICK a \in Owned(I, x) : d = desc(a)
      BY <1>1, <1>3 DEF View
    <2>2. CASE a \in I.log[x].additions
      BY <1>1, <2>1, <2>2 DEF Replayed
    <2>3. CASE a \notin I.log[x].additions
      <3>1. d \in k /\ a \notin I.log[x].deletions /\ d.asset = a
        BY <2>1, <2>3 DEF Told
      <3> QED
        BY <3>1 DEF Replayed
    <2> QED
      BY <2>2, <2>3
  <1> QED
    BY <1>2, <1>3

(***************************************************************************)
(* Entries A and D of the logs, on the way from I to J: every asset that   *)
(* changes is in an entry of the account that has it and of the one that   *)
(* had it, and what an account still has is not only deleted.              *)
(***************************************************************************)
Announced(I, J, A, D) ==
  /\ A \in [Account -> SUBSET Asset] /\ D \in [Account -> SUBSET Asset]
  /\ J.log = [x \in Account |-> [additions |-> I.log[x].additions \cup A[x],
                                 deletions |-> I.log[x].deletions \cup D[x]]]
  /\ \A a \in Asset : \/ Alike(I, J, a)
                      \/ \A x \in Account : /\ I.owner[a] = x => a \in D[x]
                                            /\ J.owner[a] = x => a \in A[x]
  /\ \A x \in Account : \A a \in D[x] : J.owner[a] = x => a \in A[x]

LEMMA AnnouncedTells ==
  ASSUME NEW I, LogTyped(I), NEW J, NEW A, NEW D, Announced(I, J, A, D)
  PROVE  Tells(I, J)
PROOF
  <1>1. ASSUME NEW x \in Account
        PROVE  /\ J.log[x].additions = I.log[x].additions \cup A[x]
               /\ J.log[x].deletions = I.log[x].deletions \cup D[x]
    BY DEF Announced
  <1>2. LogTyped(J)
    <2>1. \A x \in Account : /\ I.log[x].additions \in SUBSET Asset /\ I.log[x].deletions \in SUBSET Asset
                             /\ A[x] \in SUBSET Asset /\ D[x] \in SUBSET Asset
      BY DEF LogTyped, Announced
    <2> QED
      BY <2>1 DEF LogTyped, Announced
  <1>3. ASSUME NEW x \in Account PROVE TellsOf(I, J, x)
    <2>1. ASSUME NEW a \in Owned(I, x) PROVE a \in J.log[x].deletions \/ Alike(I, J, a)
      BY <1>1 DEF Announced, Owned
    <2>2. ASSUME NEW a \in Owned(J, x), a \notin J.log[x].additions
          PROVE  Alike(I, J, a) /\ (a \in J.log[x].deletions => a \in I.log[x].deletions)
      BY <1>1, <2>2 DEF Announced, Owned
    <2> QED
      BY <1>1, <2>1, <2>2 DEF TellsOf
  <1> QED
    BY <1>2, <1>3 DEF Tells

(* The entry of one account. *)
One(x, S) == [y \in Account |-> IF y = x THEN S ELSE {}]

OneEntry(I, J, x, A, D) ==
  /\ SameBooks(I, J) /\ J.changed = I.changed /\ LogTyped(J)
  /\ J.log = [y \in Account |-> [additions |-> I.log[y].additions \cup One(x, A)[y],
                                 deletions |-> I.log[y].deletions \cup One(x, D)[y]]]
  /\ One(x, A) \in [Account -> SUBSET Asset] /\ One(x, D) \in [Account -> SUBSET Asset]

LEMMA LoggedEntry ==
  ASSUME NEW I, Shaped(I), LogTyped(I), NEW x \in Account, NEW A \in SUBSET Asset, NEW D \in SUBSET Asset
  PROVE  OneEntry(I, Logged(I, x, A, D), x, A, D)
PROOF
  <1> DEFINE J == Logged(I, x, A, D)
  <1> DEFINE entry == [additions |-> I.log[x].additions \cup A, deletions |-> I.log[x].deletions \cup D]
  <1>1. SameBooks(I, J)
    BY OnlyTold DEF Shaped
  <1>2. I.log[x] \in [additions : SUBSET Asset, deletions : SUBSET Asset]
    BY DEF LogTyped
  <1>3. J.changed = I.changed /\ J.log = [I.log EXCEPT ![x] = entry]
    <2>1. DOMAIN I.log[x] = {"additions", "deletions"} /\ x \in DOMAIN I.log
      BY <1>2 DEF LogTyped
    <2> QED
      BY <1>2, <2>1, Fields DEF Logged
  <1> HIDE DEF J
  <1>4. One(x, A) \in [Account -> SUBSET Asset] /\ One(x, D) \in [Account -> SUBSET Asset]
    BY DEF One
  <1>5. ASSUME NEW y \in Account
        PROVE  J.log[y] = [additions |-> I.log[y].additions \cup One(x, A)[y],
                           deletions |-> I.log[y].deletions \cup One(x, D)[y]]
    <2>1. I.log[y] \in [additions : SUBSET Asset, deletions : SUBSET Asset]
      BY DEF LogTyped
    <2>2. CASE y = x
      BY <1>3, <2>2 DEF LogTyped, One
    <2>3. CASE y # x
      BY <1>3, <2>1, <2>3 DEF LogTyped, One
    <2> QED
      BY <2>2, <2>3
  <1>6. LogTyped(J)
    BY <1>2, <1>3 DEF LogTyped
  <1> DEFINE told == [y \in Account |-> [additions |-> I.log[y].additions \cup One(x, A)[y],
                                         deletions |-> I.log[y].deletions \cup One(x, D)[y]]]
  <1>7. J.log = told
    <2>1. J.log = [y \in Account |-> J.log[y]]
      BY <1>6 DEF LogTyped
    <2> HIDE DEF One
    <2> QED
      BY <1>5, <2>1
  <1> QED
    BY <1>1, <1>3, <1>4, <1>6, <1>7 DEF J, OneEntry

(***************************************************************************)
(* What is on offer has been made, and has not left the seller, even if    *)
(* the offer has been sold to a buyer without room.                        *)
(***************************************************************************)
OfferedBySeller(I) ==
  \A a \in Asset : I.offered[a] # NoOffer =>
    a < I.awarded /\ I.owner[a] \in {Nobody, I.offer[I.offered[a]].seller}

LEMMA StayOffered ==
  ASSUME NEW I, Typed(I), OfferedBySeller(I), NEW J, J.awarded \in Nat, I.awarded <= J.awarded,
         \A a \in Asset : J.offered[a] # NoOffer =>
           /\ J.offered[a] = I.offered[a]
           /\ J.offer[J.offered[a]].seller = I.offer[J.offered[a]].seller
           /\ J.owner[a] \in {Nobody, I.owner[a]}
  PROVE  OfferedBySeller(J)
PROOF
  <1> SUFFICES ASSUME NEW a \in Asset, J.offered[a] # NoOffer
               PROVE  a < J.awarded /\ J.owner[a] \in {Nobody, J.offer[J.offered[a]].seller}
    BY DEF OfferedBySeller
  <1>1. a \in Nat /\ I.awarded \in Nat
    BY AssetFacts DEF Typed
  <1>2. a < I.awarded /\ I.owner[a] \in {Nobody, I.offer[I.offered[a]].seller}
    BY DEF OfferedBySeller
  <1> QED
    BY <1>1, <1>2

(* What every transaction starts from. *)
Faithful(I) == Sound(I) /\ LogTyped(I) /\ OfferedBySeller(I)

LEMMA FaithfulFacts ==
  ASSUME NEW I, Faithful(I)
  PROVE  /\ Shaped(I) /\ Typed(I) /\ InventoriesExact(I) /\ OnlyAwardedOwned(I) /\ OffersBacked(I)
         /\ OfferedTogether(I) /\ LogTyped(I) /\ OfferedBySeller(I) /\ I.awarded \in Nat
BY AssetFacts DEF Faithful, Sound, Typed, Shaped

(* A step from I to J that the log tells of. *)
Honest(I, J) == Tells(I, J) /\ OfferedBySeller(J)

LEMMA ChangeHonest ==
  ASSUME NEW I, Faithful(I), NEW x \in Account, NEW S, S \subseteq Owned(I, x)
  PROVE  Honest(I, ChangeAssets(I, x, S))
PROOF
  <1> DEFINE G == [I EXCEPT !.changed = @ \cup S]
  <1> DEFINE J == ChangeAssets(I, x, S)
  <1>1. S \in SUBSET Asset /\ \A a \in S : I.owner[a] = x
    BY DEF Owned
  <1>2. /\ SameBooks(I, G) /\ Shaped(G) /\ G.log = I.log /\ G.changed = I.changed \cup S
    BY FaithfulFacts, Fields DEF SameBooks, SameOffers, Shaped
  <1>3. J = Logged(G, x, S, S)
    BY DEF ChangeAssets
  <1> HIDE DEF G, J
  <1>4. LogTyped(G)
    BY <1>2, FaithfulFacts DEF LogTyped
  <1>5. OneEntry(G, J, x, S, S)
    BY <1>1, <1>2, <1>3, <1>4, LoggedEntry
  <1>6. J.owner = I.owner /\ J.offered = I.offered /\ J.offer = I.offer /\ J.awarded = I.awarded
    BY <1>2, <1>5 DEF OneEntry, SameBooks, SameOffers
  <1>7. Announced(I, J, One(x, S), One(x, S))
    <2>1. \A a \in Asset \ S : Alike(I, J, a)
      BY <1>2, <1>5, <1>6 DEF OneEntry, Alike
    <2>2. \A a \in S, y \in Account : I.owner[a] = y => a \in One(x, S)[y]
      BY <1>1 DEF One
    <2> QED
      BY <1>2, <1>5, <1>6, <2>1, <2>2 DEF OneEntry, Announced
  <1> QED
    BY <1>6, <1>7, AnnouncedTells, FaithfulFacts, StayOffered DEF Honest, J

LEMMA OfferHonest ==
  ASSUME NEW I, Faithful(I), NEW x \in Account, NEW s \in Seq(Asset), NEW e \in Nat,
         ToSet(s) \subseteq Owned(I, x)
  PROVE  Honest(I, OfferAssets(I, x, s, e))
PROOF
  <1> DEFINE S == ToSet(s)
  <1> DEFINE o == Len(I.offer) + 1
  <1> DEFINE new == [seller |-> x, buyer |-> Nobody, expiration |-> e, assets |-> s]
  <1> DEFINE on == PartOf(I, S, o)
  <1> DEFINE G == [I EXCEPT !.offered = on, !.offer = Append(@, new), !.open = Append(@, o)]
  <1> DEFINE J == OfferAssets(I, x, s, e)
  <1>1. S \in SUBSET Asset /\ \A a \in S : I.owner[a] = x
    BY DEF Owned
  <1>2. J = Logged(G, x, S, S)
    BY DEF OfferAssets, PartOf
  <1>3. /\ I.offer \in Seq(Offer) /\ new \in Offer /\ x # Nobody /\ new.seller = x
    BY FaithfulFacts, AssetFacts DEF Typed, Offer
  <1> HIDE DEF J, on, new
  <1>4. /\ Shaped(G) /\ G.log = I.log /\ G.changed = I.changed /\ G.owner = I.owner
        /\ G.awarded = I.awarded /\ G.offered = on /\ G.offer = Append(I.offer, new)
    BY FaithfulFacts, Fields DEF Shaped
  <1> HIDE DEF G, S
  <1>5. LogTyped(G)
    BY <1>4, FaithfulFacts DEF LogTyped
  <1>6. OneEntry(G, J, x, S, S)
    BY <1>1, <1>2, <1>4, <1>5, LoggedEntry
  <1>7. /\ J.owner = I.owner /\ J.changed = I.changed /\ J.awarded = I.awarded
        /\ J.offer = Append(I.offer, new)
        /\ \A a \in Asset : J.offered[a] = IF a \in S THEN o ELSE I.offered[a]
    BY <1>4, <1>6 DEF OneEntry, SameBooks, SameOffers, on, PartOf
  <1>8. Announced(I, J, One(x, S), One(x, S))
    <2>1. \A a \in Asset \ S : Alike(I, J, a)
      BY <1>7 DEF Alike
    <2>2. \A a \in S, y \in Account : I.owner[a] = y => a \in One(x, S)[y]
      BY <1>1 DEF One
    <2> QED
      BY <1>4, <1>6, <1>7, <2>1, <2>2 DEF OneEntry, Announced
  <1>9. OfferedBySeller(J)
    <2> SUFFICES ASSUME NEW a \in Asset, J.offered[a] # NoOffer
                 PROVE  a < J.awarded /\ J.owner[a] \in {Nobody, J.offer[J.offered[a]].seller}
      BY DEF OfferedBySeller
    <2>1. CASE a \in S
      <3>1. a \in Nat /\ I.awarded \in Nat /\ ~(I.awarded <= a)
        BY <1>1, <1>3, <2>1, FaithfulFacts, AssetFacts DEF OnlyAwardedOwned
      <3>2. J.offer[o] = new
        BY <1>3, <1>7
      <3> QED
        BY <1>1, <1>3, <1>7, <2>1, <3>1, <3>2
    <2>2. CASE a \notin S
      <3>1. J.offered[a] = I.offered[a] /\ I.offered[a] # NoOffer /\ I.offered[a] \in Offers(I)
        BY <1>7, <2>2, FaithfulFacts DEF Typed
      <3>2. J.offer[I.offered[a]] = I.offer[I.offered[a]]
        BY <1>3, <1>7, <3>1 DEF Offers
      <3> QED
        BY <1>7, <3>1, <3>2, FaithfulFacts DEF OfferedBySeller
    <2> QED
      BY <2>1, <2>2
  <1> QED
    BY <1>8, <1>9, AnnouncedTells, FaithfulFacts DEF Honest, J

LEMMA AwardHonest ==
  ASSUME NEW I, Faithful(I), NEW x \in Account, NEW q \in Nat
  PROVE  Honest(I, AwardAssets(I, x, q))
PROOF
  <1> DEFINE J == AwardAssets(I, x, q)
  <1> DEFINE new == { a \in Asset : I.awarded <= a /\ a < I.awarded + q }
  <1> DEFINE at(a) == I.count[x] + a - I.awarded
  <1> DEFINE owner == [a \in Asset |-> IF a \in new THEN x ELSE I.owner[a]]
  <1> DEFINE position == [a \in Asset |-> IF a \in new THEN at(a) ELSE I.position[a]]
  <1> DEFINE places == [i \in Index |-> IF \E a \in new : at(a) = i
                                        THEN I.awarded + i - I.count[x] ELSE I.slot[x][i]]
  <1> DEFINE G == [I EXCEPT !.owner = owner, !.position = position,
                            !.slot = [I.slot EXCEPT ![x] = places],
                            !.count = [I.count EXCEPT ![x] = I.count[x] + q],
                            !.awarded = I.awarded + q]
  <1>1. J = Logged(G, x, new, {})
    BY FaithfulFacts, Fields DEF AwardAssets
  <1>2. new \in SUBSET Asset /\ {} \in SUBSET Asset
    OBVIOUS
  <1>3. \A a \in new : I.owner[a] = Nobody /\ I.offered[a] = NoOffer
    <2> SUFFICES ASSUME NEW a \in new PROVE I.owner[a] = Nobody /\ I.offered[a] = NoOffer
      OBVIOUS
    <2>1. a \in Nat /\ a \in Asset /\ I.awarded \in Nat /\ I.awarded <= a /\ ~(a < I.awarded)
      BY FaithfulFacts, AssetFacts
    <2> QED
      BY <2>1, FaithfulFacts DEF OnlyAwardedOwned, OfferedBySeller
  <1> HIDE DEF J, owner, position, places, new
  <1>4. /\ Shaped(G) /\ G.log = I.log /\ G.changed = I.changed /\ G.owner = owner
        /\ G.awarded = I.awarded + q /\ G.offered = I.offered /\ G.offer = I.offer
    BY FaithfulFacts, Fields DEF Shaped
  <1> HIDE DEF G
  <1>5. LogTyped(G)
    BY <1>4, FaithfulFacts DEF LogTyped
  <1>6. OneEntry(G, J, x, new, {})
    BY <1>1, <1>2, <1>4, <1>5, LoggedEntry
  <1>7. /\ J.offered = I.offered /\ J.offer = I.offer /\ J.changed = I.changed
        /\ J.awarded = I.awarded + q
        /\ \A a \in Asset : J.owner[a] = IF a \in new THEN x ELSE I.owner[a]
    BY <1>4, <1>6 DEF OneEntry, SameBooks, SameOffers, owner
  <1>8. Announced(I, J, One(x, new), One(x, {}))
    <2>1. \A a \in Asset \ new : Alike(I, J, a)
      BY <1>7 DEF Alike
    <2>2. \A a \in new, y \in Account : I.owner[a] # y /\ (J.owner[a] = y => a \in One(x, new)[y])
      BY <1>2, <1>3, <1>7, AssetFacts DEF One
    <2>3. \A y \in Account : One(x, {})[y] = {}
      BY DEF One
    <2> QED
      BY <1>4, <1>6, <2>1, <2>2, <2>3 DEF OneEntry, Announced
  <1>9. I.awarded + q \in Nat /\ I.awarded <= I.awarded + q
    BY FaithfulFacts
  <1>10. \A a \in Asset : J.offered[a] # NoOffer => J.owner[a] = I.owner[a]
    BY <1>3, <1>7
  <1> QED
    BY <1>7, <1>8, <1>9, <1>10, AnnouncedTells, FaithfulFacts, StayOffered DEF Honest, J

LEMMA RevokeHonest ==
  ASSUME NEW I, Faithful(I), NEW x \in Account, NEW a \in Owned(I, x)
  PROVE  Honest(I, RevokeAsset(I, a))
PROOF
  <1> DEFINE J == RevokeAsset(I, a)
  <1> DEFINE O == TakeOut(I, x, a)
  <1> DEFINE G == [O EXCEPT !.owner[a] = Nobody, !.position[a] = NullPosition]
  <1>1. a \in Asset /\ I.owner[a] = x /\ x # Nobody
    BY AssetFacts DEF Owned
  <1>2. /\ O.owner = I.owner /\ O.offered = I.offered /\ SameOffers(I, O)
    <2> DEFINE tail == I.slot[x][I.count[x] - 1]
    <2>1. Typed(I) /\ Exact(I, x)
      BY FaithfulFacts DEF InventoriesExact
    <2>2. /\ DOMAIN O = DOMAIN I /\ SameOffers(I, O)
          /\ O.owner = I.owner /\ O.offered = I.offered
          /\ O.count = [I.count EXCEPT ![x] = I.count[x] - 1]
          /\ O.position = [I.position EXCEPT ![tail] = I.position[a]]
          /\ O.slot = [I.slot EXCEPT ![x][I.position[a]] = tail]
      BY <2>1, TakenOut
    <2> QED
      BY <2>2
  <1>3. Quiet(I, O)
    BY FaithfulFacts, TakeOutIsQuiet
  <1>4. J = Logged(G, x, {}, {a})
    BY <1>1 DEF RevokeAsset
  <1> HIDE DEF J, O
  <1>5. /\ Shaped(G) /\ G.log = I.log /\ G.changed = I.changed
        /\ G.owner = [I.owner EXCEPT ![a] = Nobody]
        /\ G.awarded = I.awarded /\ G.offered = I.offered /\ G.offer = I.offer
    BY <1>2, <1>3, Fields DEF Quiet, KeepsOffers, Shaped, SameOffers
  <1> HIDE DEF G
  <1>6. LogTyped(G)
    BY <1>5, FaithfulFacts DEF LogTyped
  <1>7. OneEntry(G, J, x, {}, {a})
    BY <1>1, <1>4, <1>5, <1>6, LoggedEntry
  <1>8. /\ J.offered = I.offered /\ J.offer = I.offer /\ J.changed = I.changed
        /\ J.awarded = I.awarded
        /\ \A b \in Asset : J.owner[b] = IF b = a THEN Nobody ELSE I.owner[b]
    <2>1. J.owner = [I.owner EXCEPT ![a] = Nobody] /\ DOMAIN I.owner = Asset
      BY <1>5, <1>7, FaithfulFacts DEF OneEntry, SameBooks, Typed
    <2> QED
      BY <1>5, <1>7, <2>1 DEF OneEntry, SameBooks, SameOffers
  <1>9. Announced(I, J, One(x, {}), One(x, {a}))
    <2>1. \A b \in Asset \ {a} : Alike(I, J, b)
      BY <1>8 DEF Alike
    <2>2. \A y \in Account : J.owner[a] # y /\ (I.owner[a] = y => a \in One(x, {a})[y])
      BY <1>1, <1>8, AssetFacts DEF One
    <2>3. \A y \in Account : One(x, {a})[y] \subseteq {a}
      BY DEF One
    <2> QED
      BY <1>5, <1>7, <2>1, <2>2, <2>3 DEF OneEntry, Announced
  <1> QED
    BY <1>8, <1>9, AnnouncedTells, FaithfulFacts, StayOffered DEF Honest, J

LEMMA ClearHonest ==
  ASSUME NEW I, Faithful(I)
  PROVE  Honest(I, ClearInventories(I))
PROOF
  <1> DEFINE J == ClearInventories(I)
  <1> DEFINE all == UNION { Listed(I, x) : x \in Account }
  <1> DEFINE owner == [a \in Asset |-> IF a \in all THEN Nobody ELSE I.owner[a]]
  <1> DEFINE position == [a \in Asset |-> IF a \in all THEN NullPosition ELSE I.position[a]]
  <1> DEFINE count == [x \in Account |-> 0]
  <1> DEFINE log == [x \in Account |-> [additions |-> I.log[x].additions,
                                        deletions |-> I.log[x].deletions \cup Listed(I, x)]]
  <1> DEFINE none == [x \in Account |-> {}]
  <1> DEFINE listed == [x \in Account |-> Listed(I, x)]
  <1>1. J = [I EXCEPT !.owner = owner, !.position = position, !.count = count, !.log = log]
    BY DEF ClearInventories
  <1>2. ASSUME NEW x \in Account PROVE Listed(I, x) = Owned(I, x)
    <2>1. Exact(I, x) /\ Typed(I)
      BY FaithfulFacts DEF InventoriesExact
    <2>2. Listed(I, x) \subseteq Owned(I, x)
      BY <2>1, PlacesTaken DEF Listed
    <2>3. ASSUME NEW a \in Owned(I, x) PROVE a \in Listed(I, x)
      <3>1. I.position[a] \in 0..(I.count[x] - 1) /\ I.slot[x][I.position[a]] = a
        BY <2>1, LastListed DEF Exact
      <3> QED
        BY <3>1 DEF Listed
    <2> QED
      BY <2>2, <2>3
  <1>3. \A a \in Asset : owner[a] = IF I.owner[a] \in Account THEN Nobody ELSE I.owner[a]
    BY <1>2 DEF Owned
  <1>4. log = [x \in Account |-> [additions |-> I.log[x].additions \cup none[x],
                                  deletions |-> I.log[x].deletions \cup listed[x]]]
    OBVIOUS
  <1>5. none \in [Account -> SUBSET Asset] /\ listed \in [Account -> SUBSET Asset]
    BY <1>2 DEF Owned
  <1>6. \A a \in Asset, x \in Account : I.owner[a] = x => a \in listed[x]
    BY <1>2 DEF Owned
  <1> HIDE DEF J, owner, position, count, log, none, listed
  <1>7. /\ J.owner = owner /\ J.log = log /\ J.offered = I.offered /\ J.changed = I.changed
        /\ J.offer = I.offer /\ J.awarded = I.awarded
    BY <1>1, FaithfulFacts, Fields
  <1>8. Announced(I, J, none, listed)
    <2>1. \A a \in Asset, x \in Account : J.owner[a] # x
      BY <1>3, <1>7, AssetFacts
    <2>2. \A a \in Asset : I.owner[a] \notin Account => Alike(I, J, a)
      BY <1>3, <1>7 DEF Alike
    <2>3. \A x \in Account : listed[x] \subseteq Asset
      BY <1>5
    <2> QED
      BY <1>4, <1>5, <1>6, <1>7, <2>1, <2>3 DEF Announced
  <1> QED
    BY <1>3, <1>7, <1>8, AnnouncedTells, FaithfulFacts, StayOffered DEF Honest, J

(* What the end of offers tells their sellers. *)
LEMMA ClearedLog ==
  ASSUME NEW I, Shaped(I), NEW os
  PROVE  LET J == ClearOffers(I, os)
             told(x) == AssetsOf(I, { o \in os : I.offer[o].seller = x })
         IN  /\ J.changed = I.changed
             /\ J.log = [x \in Account |-> [additions |-> I.log[x].additions \cup told(x),
                                            deletions |-> I.log[x].deletions \cup told(x)]]
PROOF
  <1> DEFINE told(x) == AssetsOf(I, { o \in os : I.offer[o].seller = x })
  <1> DEFINE log == [x \in Account |-> [additions |-> I.log[x].additions \cup told(x),
                                        deletions |-> I.log[x].deletions \cup told(x)]]
  <1> DEFINE off == PartOf(I, AssetsOf(I, os), NoOffer)
  <1> DEFINE ended == Ended(I, os)
  <1>1. ClearOffers(I, os) = [I EXCEPT !.offered = off, !.offer = ended, !.log = log]
    BY DEF ClearOffers, PartOf, Ended
  <1> HIDE DEF log, off, ended
  <1>2. ClearOffers(I, os).log = log /\ ClearOffers(I, os).changed = I.changed
    BY <1>1, Fields
  <1> QED
    BY <1>2 DEF log

LEMMA ClearedHonest ==
  ASSUME NEW I, Faithful(I), NEW os \in SUBSET Offers(I),
         \A o \in os : \A a \in ToSet(I.offer[o].assets) : I.offered[a] = o
  PROVE  Honest(I, ClearOffers(I, os))
PROOF
  <1> DEFINE J == ClearOffers(I, os)
  <1> DEFINE S == AssetsOf(I, os)
  <1> DEFINE told(x) == AssetsOf(I, { o \in os : I.offer[o].seller = x })
  <1> DEFINE entry == [x \in Account |-> told(x)]
  <1>1. J.owner = I.owner /\ J.offered = PartOf(I, S, NoOffer) /\ J.offer = Ended(I, os)
        /\ J.awarded = I.awarded
    <2>1. DOMAIN I = DOMAIN EmptyInventory
      BY FaithfulFacts DEF Shaped
    <2> HIDE DEF J, S
    <2> QED
      BY <2>1, ClearedFields DEF J, S
  <1>2. /\ J.changed = I.changed
        /\ J.log = [x \in Account |-> [additions |-> I.log[x].additions \cup told(x),
                                       deletions |-> I.log[x].deletions \cup told(x)]]
    BY FaithfulFacts, ClearedLog
  <1>3. J.log = [x \in Account |-> [additions |-> I.log[x].additions \cup entry[x],
                                    deletions |-> I.log[x].deletions \cup entry[x]]]
    BY <1>2
  <1>4. ASSUME NEW a \in S
        PROVE  /\ a \in Asset /\ I.offered[a] # NoOffer
               /\ \A x \in Account : I.owner[a] = x => a \in told(x)
    <2>1. PICK o \in os : a \in ToSet(I.offer[o].assets)
      BY DEF AssetsOf
    <2>2. a \in Asset /\ I.offered[a] = o /\ o # NoOffer
      BY <2>1, FaithfulFacts, OfferFacts
    <2>3. I.owner[a] \in {Nobody, I.offer[o].seller}
      BY <2>2, FaithfulFacts DEF OfferedBySeller
    <2>4. \A x \in Account : I.owner[a] = x => a \in told(x)
      BY <2>1, <2>3, AssetFacts DEF AssetsOf
    <2> QED
      BY <2>2, <2>4
  <1>5. ASSUME NEW a \in Asset, a \notin S, I.offered[a] # NoOffer
        PROVE  J.offer[I.offered[a]].seller = I.offer[I.offered[a]].seller
    <2>1. I.offered[a] \in Offers(I) /\ a \in ToSet(I.offer[I.offered[a]].assets)
      BY <1>5, FaithfulFacts DEF Typed, OfferedTogether
    <2>2. I.offered[a] \notin os
      BY <1>5, <2>1 DEF AssetsOf
    <2> QED
      BY <1>1, <2>1, <2>2 DEF Ended
  <1>6. entry \in [Account -> SUBSET Asset]
    <2>1. ASSUME NEW x \in Account PROVE told(x) \subseteq S
      BY DEF AssetsOf
    <2> QED
      BY <1>4, <2>1
  <1>7. \A a \in Asset : J.offered[a] = IF a \in S THEN NoOffer ELSE I.offered[a]
    BY <1>1 DEF PartOf
  <1>8. \A a \in S, x \in Account : I.owner[a] = x => a \in entry[x]
    BY <1>4
  <1> HIDE DEF J, S, told, entry
  <1>9. Announced(I, J, entry, entry)
    <2>1. \A a \in Asset \ S : Alike(I, J, a)
      BY <1>1, <1>2, <1>7 DEF Alike
    <2> QED
      BY <1>1, <1>3, <1>6, <1>8, <2>1 DEF Announced
  <1>10. \A a \in Asset : J.offered[a] # NoOffer => a \notin S /\ J.offered[a] = I.offered[a]
    BY <1>7
  <1> QED
    BY <1>1, <1>5, <1>9, <1>10, AnnouncedTells, FaithfulFacts, StayOffered DEF Honest, J

(* Honesty is about owners, sellers, changes and logs only. *)
SameToClients(J, K) ==
  /\ K.owner = J.owner /\ K.offered = J.offered /\ K.changed = J.changed /\ K.log = J.log
  /\ K.awarded = J.awarded
  /\ \A a \in Asset : K.offered[a] # NoOffer =>
       K.offer[K.offered[a]].seller = J.offer[K.offered[a]].seller

LEMMA AlsoHonest ==
  ASSUME NEW I, NEW J, Honest(I, J), NEW K, SameToClients(J, K)
  PROVE  Honest(I, K)
PROOF
  <1>1. OfferedBySeller(K)
    BY DEF Honest, OfferedBySeller, SameToClients
  <1>2. LogTyped(K)
    BY DEF Honest, Tells, LogTyped, SameToClients
  <1>3. ASSUME NEW x \in Account PROVE TellsOf(I, K, x)
    <2>1. TellsOf(I, J, x) /\ Owned(K, x) = Owned(J, x)
      BY DEF Honest, Tells, Owned, SameToClients
    <2>2. \A a : Alike(I, K, a) <=> Alike(I, J, a)
      BY DEF Alike, SameToClients
    <2> QED
      BY <2>1, <2>2 DEF TellsOf, SameToClients
  <1> QED
    BY <1>1, <1>2, <1>3 DEF Honest, Tells

LEMMA ExpiredHonest ==
  ASSUME NEW I, Faithful(I), NEW t
  PROVE  Honest(I, ExpireOffers(I, t))
PROOF
  <1> DEFINE J == ExpireOffers(I, t)
  <1> DEFINE C == ClearOffers(I, Due(I, t))
  <1> DEFINE N == Len(I.offer)
  <1> DEFINE left == Unsold(I) \ Due(I, t)
  <1> DEFINE kept == CHOOSE f : f = [o \in 0..N |-> CASE o = 0 -> <<>>
                                                     [] o # 0 /\ o \in left -> Append(f[o - 1], o)
                                                     [] OTHER -> f[o - 1]]
  <1>1. J = [C EXCEPT !.open = kept[N]]
    BY DEF ExpireOffers, Due
  <1>2. Honest(I, C) /\ Shaped(C)
    <2>1. Due(I, t) \in SUBSET Offers(I)
      BY DEF Due, Unsold
    <2>2. \A o \in Due(I, t) : \A a \in ToSet(I.offer[o].assets) : I.offered[a] = o
      BY FaithfulFacts DEF Due, OffersBacked, Backed
    <2>3. DOMAIN C = DOMAIN I
      <3>1. DOMAIN I = DOMAIN EmptyInventory
        BY FaithfulFacts DEF Shaped
      <3> QED
        BY <3>1, ClearedFields
    <2> QED
      BY <2>1, <2>2, <2>3, FaithfulFacts, ClearedHonest DEF Shaped
  <1> HIDE DEF C, J, kept, N
  <1>3. J.owner = C.owner /\ J.offered = C.offered /\ J.changed = C.changed /\ J.log = C.log
        /\ J.awarded = C.awarded /\ J.offer = C.offer
    BY <1>1, <1>2, Fields
  <1>4. SameToClients(C, J)
    BY <1>3 DEF SameToClients
  <1> QED
    BY <1>2, <1>4, AlsoHonest DEF J

(***************************************************************************)
(* Those that the list of a transfer names leave the log of one account    *)
(* for the log of the other.                                               *)
(***************************************************************************)
LEMMA TransferHonest ==
  ASSUME NEW I, Faithful(I), NEW from \in Account, NEW to \in Account \ {from},
         NEW s \in Seq(Asset), IsInjective(s), ToSet(s) \subseteq Owned(I, from)
  PROVE  LET J == TransferAssets(I, from, to, s)
         IN  Honest(I, J) /\ Shaped(J) /\ J.offer = I.offer
PROOF
  <1> DEFINE J == TransferAssets(I, from, to, s)
  <1> DEFINE S == ToSet(s)
  <1>1. Shaped(J) /\ J.offer = I.offer
    BY FaithfulFacts, TransferKeepsOffers DEF KeepsOffers
  <1>2. CASE ~HasRoom(I, to, Len(s))
    <2>1. J = I
      BY <1>2 DEF TransferAssets
    <2>2. Honest(I, I)
      BY FaithfulFacts DEF Honest, Tells, TellsOf, Alike
    <2> QED
      BY <1>1, <2>1, <2>2
  <1>3. CASE HasRoom(I, to, Len(s))
    <2>1. Gone(I, J, S, to)
      BY <1>3, FaithfulFacts, Transferred
    <2>2. PICK K : Quiet(I, K) /\ J = Logged(Logged(K, from, {}, S), to, S, {})
      BY <1>3, FaithfulFacts, TransferTells
    <2> DEFINE L == Logged(K, from, {}, S)
    <2> DEFINE A == One(to, S)
    <2> DEFINE D == One(from, S)
    <2>3. S \in SUBSET Asset /\ {} \in SUBSET Asset
      BY DEF Owned
    <2> HIDE DEF J, S
    <2>4. OneEntry(K, L, from, {}, S)
      <3>1. LogTyped(K) /\ Shaped(K)
        BY <2>2, FaithfulFacts DEF LogTyped, Quiet, KeepsOffers
      <3> QED
        BY <2>3, <3>1, LoggedEntry
    <2>5. OneEntry(L, J, to, S, {})
      <3>1. LogTyped(L) /\ Shaped(L)
        BY <2>2, <2>4 DEF OneEntry, SameBooks, Quiet, KeepsOffers, Shaped
      <3> QED
        BY <2>2, <2>3, <3>1, LoggedEntry
    <2> HIDE DEF L
    <2>6. J.changed = I.changed
      BY <2>2, <2>4, <2>5 DEF OneEntry, Quiet
    <2>7. J.log = [y \in Account |-> [additions |-> I.log[y].additions \cup A[y],
                                      deletions |-> I.log[y].deletions \cup D[y]]]
      <3>1. ASSUME NEW y \in Account
            PROVE  /\ L.log[y].additions = I.log[y].additions
                   /\ L.log[y].deletions = I.log[y].deletions \cup D[y]
        BY <2>2, <2>4 DEF OneEntry, Quiet, One
      <3>2. \A y \in Account : One(to, {})[y] = {}
        BY DEF One
      <3>3. J.log = [y \in Account |-> [additions |-> L.log[y].additions \cup A[y],
                                        deletions |-> L.log[y].deletions \cup One(to, {})[y]]]
        BY <2>5 DEF OneEntry
      <3> HIDE DEF A, D
      <3> QED
        BY <3>1, <3>2, <3>3
    <2>8. A \in [Account -> SUBSET Asset] /\ D \in [Account -> SUBSET Asset]
      BY <2>4, <2>5 DEF OneEntry
    <2>9. /\ \A a \in Asset \ S : Alike(I, J, a)
          /\ \A a \in S : I.owner[a] = from /\ J.owner[a] = to /\ J.offered[a] = NoOffer
      BY <2>1, <2>3, <2>6 DEF Gone, Alike, S, Owned
    <2>10. \A y \in Account : /\ A[y] = IF y = to THEN S ELSE {}
                              /\ D[y] = IF y = from THEN S ELSE {}
      BY DEF One
    <2> HIDE DEF A, D
    <2>11. Announced(I, J, A, D)
      BY <2>3, <2>7, <2>8, <2>9, <2>10 DEF Announced
    <2>12. /\ J.awarded = I.awarded
           /\ \A a \in Asset : J.offered[a] # NoOffer => J.offered[a] = I.offered[a] /\ J.owner[a] = I.owner[a]
      BY <2>1, <2>9 DEF Gone, SameOffers, Alike
    <2>13. OfferedBySeller(J)
      BY <1>1, <2>12, FaithfulFacts, StayOffered DEF J
    <2> QED
      BY <1>1, <2>11, <2>13, AnnouncedTells, FaithfulFacts DEF Honest, J
  <1> QED
    BY <1>2, <1>3

LEMMA SaleHonest ==
  ASSUME NEW I, Faithful(I), NEW o \in Unsold(I), NEW x \in Account, x # I.offer[o].seller
  PROVE  Honest(I, Sold(TransferAssets(I, I.offer[o].seller, x, I.offer[o].assets), o, x))
PROOF
  <1> DEFINE from == I.offer[o].seller
  <1> DEFINE s == I.offer[o].assets
  <1> DEFINE K == TransferAssets(I, from, x, s)
  <1> DEFINE J == Sold(K, o, x)
  <1>1. o \in Offers(I) /\ I.offer[o] \in Offer /\ s \in Seq(Asset) /\ from \in Account
        /\ ToSet(s) \subseteq Asset /\ I.offer \in Seq(Offer)
    BY FaithfulFacts, OfferFacts DEF Unsold, Typed
  <1>2. IsInjective(s) /\ ToSet(s) \subseteq Owned(I, from)
    BY <1>1, FaithfulFacts DEF OffersBacked, Backed, Owned
  <1> HIDE DEF from, s
  <1>3. Honest(I, K) /\ Shaped(K) /\ K.offer = I.offer
    <2>1. x \in Account \ {from}
      BY DEF from
    <2> QED
      BY <1>1, <1>2, <2>1, TransferHonest
  <1> HIDE DEF K
  <1>4. /\ J.owner = K.owner /\ J.offered = K.offered /\ J.changed = K.changed /\ J.log = K.log
        /\ J.awarded = K.awarded /\ J.offer = [K.offer EXCEPT ![o].buyer = x]
    BY <1>3, Fields DEF Sold
  <1>5. Typed(J)
    BY SaleSound DEF Faithful, Sound, J, K, from, s
  <1> HIDE DEF J
  <1>6. Offers(J) = Offers(I) /\ \A i \in Offers(I) : J.offer[i].seller = K.offer[i].seller
    <2> DEFINE sale == [I.offer[o] EXCEPT !.buyer = x]
    <2>1. sale.seller = I.offer[o].seller
      BY <1>1 DEF Offer
    <2>2. J.offer = [I.offer EXCEPT ![o] = sale] /\ K.offer = I.offer
      BY <1>3, <1>4
    <2> HIDE DEF sale
    <2> QED
      BY <2>1, <2>2 DEF Offers
  <1>7. \A a \in Asset : J.offered[a] # NoOffer => J.offered[a] \in Offers(I)
    BY <1>5, <1>6 DEF Typed
  <1>8. \A a \in Asset : J.offered[a] # NoOffer =>
          J.offer[J.offered[a]].seller = K.offer[J.offered[a]].seller
    BY <1>6, <1>7
  <1>9. SameToClients(K, J)
    BY <1>4, <1>8 DEF SameToClients
  <1>10. Honest(I, J)
    BY <1>3, <1>9, AlsoHonest
  <1> QED
    BY <1>10 DEF J, K, from, s

LEMMA SameHonest ==
  ASSUME NEW I, Faithful(I)
  PROVE  Honest(I, I)
BY FaithfulFacts DEF Honest, Tells, TellsOf, Alike

(* Every step but the reading of a log is told of. *)
LEMMA StepHonest ==
  ASSUME Next, \A x \in Client : ~ReadLog(x), Faithful(inventory), ~TakesFromOffer, ~NamesAnAssetTwice
  PROVE  Honest(inventory, inventory') /\ known' = known
PROOF
  <1> USE DEF Applied
  <1> DEFINE I == inventory
  <1> DEFINE Goal == Honest(inventory, inventory') /\ known' = known
  <1>1. /\ Shaped(I) /\ Typed(I) /\ OffersBacked(I) /\ OfferedTogether(I) /\ Sound(I)
    BY FaithfulFacts DEF Faithful
  <1>2. ASSUME NEW x \in Account, NEW fee \in Fee, NEW y \in Account, NEW s \in AssetList,
               SendAssets(x, y, s, fee)
        PROVE  Goal
    <2>1. IsInjective(s) /\ s \in Seq(Asset) /\ known' = known
      BY <1>2, ListFacts DEF NamesAnAssetTwice, SendAssets
    <2>2. ToSet(s) \subseteq Owned(I, x)
      BY <1>2 DEF SendAssets, Free
    <2>3. CASE x = y
      BY <1>2, <2>3, SameHonest DEF SendAssets
    <2>4. CASE x # y
      <3>1. inventory' = TransferAssets(I, x, y, s)
        BY <1>2, <2>4 DEF SendAssets
      <3> QED
        BY <2>1, <2>2, <2>4, <3>1, TransferHonest
    <2> QED
      BY <2>3, <2>4
  <1>3. ASSUME NEW x \in Account, NEW fee \in Fee, NEW s \in AssetList, NEW e \in 1..(MaxTime + 1),
               MakeOffer(x, s, e, fee)
        PROVE  Goal
    <2>1. ToSet(s) \subseteq Owned(I, x) /\ inventory' = OfferAssets(I, x, s, e) /\ known' = known
      BY <1>3 DEF MakeOffer, Free
    <2>2. e \in Nat /\ s \in Seq(Asset)
      BY ListFacts, LedgerAssumption
    <2> QED
      BY <2>1, <2>2, OfferHonest
  <1>4. ASSUME NEW x \in Account, NEW fee \in Fee, NEW a \in Asset, CancelOffer(x, a, fee)
        PROVE  Goal
    <2> DEFINE o == I.offered[a]
    <2>1. o # NoOffer /\ o \in Offers(I) /\ inventory' = ClearOffers(I, {o}) /\ known' = known
      BY <1>1, <1>4 DEF CancelOffer, Typed
    <2>2. \A b \in ToSet(I.offer[o].assets) : I.offered[b] = o
      BY <1>1, <2>1 DEF OfferedTogether
    <2> QED
      BY <2>1, <2>2, ClearedHonest
  <1>5. ASSUME NEW x \in Account, NEW fee \in Fee, NEW o \in Offers(I), NEW p \in Price,
               BuyAssets(x, o, p, fee)
        PROVE  Goal
    <2>1. /\ o \in Unsold(I) /\ x # I.offer[o].seller /\ known' = known
          /\ inventory' = Sold(TransferAssets(I, I.offer[o].seller, x, I.offer[o].assets), o, x)
      BY <1>5 DEF BuyAssets, Unsold
    <2> QED
      BY <2>1, SaleHonest
  <1>6. ASSUME NEW x \in Account, NEW fee \in Fee, NEW S \in SUBSET Asset, UpgradeAssets(x, S, fee)
        PROVE  Goal
    BY <1>6, ChangeHonest DEF UpgradeAssets, Free
  <1>7. ASSUME NEW x \in Account, NEW fee \in Fee, NEW t \in Asset, NEW s \in AssetList, NEW p \in Price,
               StampAssets(x, t, s, p, fee)
        PROVE  Goal
    BY <1>7, ChangeHonest DEF StampAssets
  <1>8. ASSUME NEW x \in Account, NEW fee \in Fee, NEW n \in 1..MaxList, GetAssets(x, n, fee)
        PROVE  Goal
    <2>1. n \in Nat
      BY LedgerAssumption
    <2> QED
      BY <1>8, <2>1, AwardHonest DEF GetAssets
  <1>9. ASSUME NEW x \in Account, NEW fee \in Fee, NEW y \in Account, RunScript(x, y, fee)
        PROVE  Goal
    <2>1. ASSUME NEW a \in Asset, Revoke(x, a, fee) PROVE Goal
      <3>1. I.owner[a] \in Account /\ a \in Owned(I, I.owner[a])
        BY <1>1, <2>1 DEF Revoke, Typed, Owned
      <3> QED
        BY <2>1, <3>1, RevokeHonest DEF Revoke
    <2>2. ASSUME NEW a \in Asset, SetField(x, a, fee) PROVE Goal
      <3>1. I.owner[a] \in Account /\ {a} \subseteq Owned(I, I.owner[a])
        BY <1>1, <2>2 DEF SetField, Typed, Owned
      <3> QED
        BY <2>2, <3>1, ChangeHonest DEF SetField
    <2>3. ASSUME NEW n \in 1..MaxList, Applied(x, fee, 0, AwardAssets(I, y, n), vol) PROVE Goal
      <3>1. n \in Nat
        BY LedgerAssumption
      <3> QED
        BY <2>3, <3>1, AwardHonest
    <2>4. ASSUME NEW p \in Price, Applied(x, fee, 0, I, AwardVOL(vol, y, p)) PROVE Goal
      BY <2>4, SameHonest
    <2> QED
      BY <1>9, <2>1, <2>2, <2>3, <2>4 DEF RunScript
  <1>10. ASSUME NEW x \in Account, NEW fee \in Fee, NEW n \in 0..MaxList, ResetInventories(x, n, fee)
         PROVE  Goal
    <2> DEFINE C == ClearInventories(I)
    <2>1. Unsold(I) = {}
      BY <1>10 DEF TakesFromOffer
    <2>2. Honest(I, C)
      BY ClearHonest
    <2>3. Faithful(C)
      BY <1>1, <2>1, <2>2, ClearSound DEF Faithful, Honest, Tells
    <2>4. n \in Nat /\ inventory' = AwardAssets(C, x, n) /\ known' = known
      BY <1>10, LedgerAssumption DEF ResetInventories
    <2>5. Honest(C, AwardAssets(C, x, n))
      BY <2>3, <2>4, AwardHonest
    <2> QED
      BY <2>2, <2>4, <2>5, TellsTransitively DEF Honest
  <1>11. ASSUME NEW x \in Account, NEW fee \in Fee, IdentifyAccount(x, fee)
         PROVE  Goal
    BY <1>11, SameHonest DEF IdentifyAccount
  <1>12. ASSUME NEW x \in Account, NEW fee \in Fee, NEW y \in Account, NEW p \in Price,
                SendVOL(x, y, p, fee)
         PROVE  Goal
    BY <1>12, SameHonest DEF SendVOL
  <1>13. CASE BeginBlock
    BY <1>13, ExpiredHonest DEF BeginBlock
  <1>14. CASE EndBlock
    BY <1>14, SameHonest DEF EndBlock
  <1> QED
    BY <1>2, <1>3, <1>4, <1>5, <1>6, <1>7, <1>8, <1>9, <1>10, <1>11, <1>12, <1>13, <1>14 DEF Next

(* A client that has read its log knows its inventory; the others' logs stay. *)
LEMMA ReadTold ==
  ASSUME NEW I, Faithful(I), NEW x \in Account, NEW k, Told(I, x, k)
  PROVE  LET J == [I EXCEPT !.log[x] = NothingLogged]
         IN  /\ LogTyped(J) /\ OfferedBySeller(J)
             /\ Told(J, x, Replayed(I, x, k))
             /\ \A y \in Account \ {x} : \A l : Told(I, y, l) => Told(J, y, l)
PROOF
  <1> DEFINE J == [I EXCEPT !.log[x] = NothingLogged]
  <1>1. /\ J.owner = I.owner /\ J.offered = I.offered /\ J.changed = I.changed
        /\ J.offer = I.offer /\ J.awarded = I.awarded
        /\ J.log = [I.log EXCEPT ![x] = NothingLogged]
    BY FaithfulFacts, Fields
  <1> HIDE DEF J
  <1>2. LogTyped(J)
    BY <1>1, FaithfulFacts DEF LogTyped, NothingLogged
  <1>3. OfferedBySeller(J)
    BY <1>1, FaithfulFacts DEF OfferedBySeller
  <1>4. \A y \in Account : Owned(J, y) = Owned(I, y) /\ View(J, y) = View(I, y)
    BY <1>1 DEF Owned, View, Described
  <1>5. J.log[x] = NothingLogged /\ \A y \in Account \ {x} : J.log[y] = I.log[y]
    BY <1>1, FaithfulFacts DEF LogTyped
  <1>6. Told(J, x, View(J, x))
    <2>1. J.log[x].additions = {} /\ J.log[x].deletions = {}
      BY <1>5 DEF NothingLogged
    <2> QED
      BY <2>1 DEF Told, View, Described
  <1>7. Told(J, x, Replayed(I, x, k))
    BY <1>4, <1>6, ToldView
  <1>8. ASSUME NEW y \in Account \ {x}, NEW l, Told(I, y, l) PROVE Told(J, y, l)
    BY <1>1, <1>4, <1>5, <1>8 DEF Told
  <1> QED
    BY <1>2, <1>3, <1>7, <1>8 DEF J

ClientsTold ==
  /\ Faithful(inventory)
  /\ DOMAIN known = Client
  /\ \A x \in Client : Told(inventory, x, known[x])

LEMMA StepTold ==
  ASSUME Next, ClientsTold, ~TakesFromOffer, ~NamesAnAssetTwice
  PROVE  ClientsTold'
PROOF
  <1>1. Faithful(inventory) /\ Sound(inventory')
    BY StepSound DEF ClientsTold, Faithful
  <1>2. Client \subseteq Account
    BY LedgerAssumption
  <1>3. ASSUME NEW x \in Client, ReadLog(x) PROVE ClientsTold'
    <2> DEFINE J == [inventory EXCEPT !.log[x] = NothingLogged]
    <2>1. /\ inventory' = J
          /\ known' = [known EXCEPT ![x] = Replayed(inventory, x, known[x])]
      BY <1>3 DEF ReadLog
    <2>2. /\ LogTyped(J) /\ OfferedBySeller(J)
          /\ Told(J, x, Replayed(inventory, x, known[x]))
          /\ \A y \in Account \ {x} : \A l : Told(inventory, y, l) => Told(J, y, l)
      <3>1. x \in Account /\ Told(inventory, x, known[x])
        BY <1>2 DEF ClientsTold
      <3> QED
        BY <1>1, <3>1, ReadTold
    <2> HIDE DEF J
    <2>3. Faithful(inventory')
      BY <1>1, <2>1, <2>2 DEF Faithful
    <2>4. DOMAIN known' = Client
      BY <2>1 DEF ClientsTold
    <2>5. ASSUME NEW y \in Client PROVE Told(J, y, known'[y])
      BY <1>2, <2>1, <2>2 DEF ClientsTold
    <2> QED
      BY <2>1, <2>3, <2>4, <2>5 DEF ClientsTold
  <1>4. CASE \A x \in Client : ~ReadLog(x)
    <2>1. Honest(inventory, inventory') /\ known' = known
      BY <1>1, <1>4, StepHonest
    <2>2. Faithful(inventory')
      BY <1>1, <2>1 DEF Faithful, Honest, Tells
    <2>3. ASSUME NEW x \in Client PROVE Told(inventory', x, known'[x])
      <3>1. TellsOf(inventory, inventory', x) /\ Told(inventory, x, known[x]) /\ x \in Account
        BY <1>2, <2>1 DEF Honest, Tells, ClientsTold
      <3> QED
        BY <2>1, <3>1, StayTold
    <2> QED
      BY <2>1, <2>2, <2>3 DEF ClientsTold
  <1> QED
    BY <1>3, <1>4

(***************************************************************************)
(* In a history without those uses, a client that reads its inventory log  *)
(* always comes to know what its account owns and offers.                  *)
(***************************************************************************)
THEOREM LogAlwaysTells ==
  Init /\ [][Next /\ ~TakesFromOffer /\ ~NamesAnAssetTwice]_vars => []LogTellsInventory
PROOF
  <1>1. Init => ClientsTold
    <2> SUFFICES ASSUME Init PROVE ClientsTold
      OBVIOUS
    <2>1. inventory = EmptyInventory /\ known = [x \in Client |-> {}]
      BY DEF Init
    <2>2. /\ inventory.log = [x \in Account |-> NothingLogged]
          /\ inventory.owner = [a \in Asset |-> Nobody] /\ inventory.offered = [a \in Asset |-> NoOffer]
      BY <2>1 DEF EmptyInventory
    <2>3. LogTyped(inventory)
      BY <2>2 DEF LogTyped, NothingLogged
    <2>4. OfferedBySeller(inventory)
      BY <2>2 DEF OfferedBySeller
    <2>5. \A x \in Account : Owned(inventory, x) = {}
      BY <2>2, AssetFacts DEF Owned
    <2>6. \A x \in Client : Told(inventory, x, known[x])
      BY <2>1, <2>5, LedgerAssumption DEF Told
    <2> QED
      BY <2>1, <2>3, <2>4, <2>6, BeginningSound DEF ClientsTold, Faithful
  <1>2. ASSUME [Next /\ ~TakesFromOffer /\ ~NamesAnAssetTwice]_vars, ClientsTold
        PROVE  ClientsTold'
    <2>1. CASE Next /\ ~TakesFromOffer /\ ~NamesAnAssetTwice
      BY <1>2, <2>1, StepTold
    <2>2. CASE UNCHANGED vars
      BY <1>2, <2>2 DEF vars, ClientsTold
    <2> QED
      BY <1>2, <2>1, <2>2
  <1>3. ClientsTold => LogTellsInventory
    BY ToldView, LedgerAssumption DEF ClientsTold, LogTellsInventory
  <1>4. ClientsTold /\ [Next /\ ~TakesFromOffer /\ ~NamesAnAssetTwice]_vars => ClientsTold'
    BY <1>2
  <1> QED
    BY <1>1, <1>3, <1>4, PTL

-----------------------------------------------------------------------------
(* Sums of the values of a function, one element after the other. *)

(* Of some subsets of a finite set there is one that loses its place among *)
(* them whatever it loses.                                                 *)
LEMMA SmallestExists ==
  ASSUME NEW S, IsFiniteSet(S), NEW B \in SUBSET (SUBSET S), B # {}
  PROVE  \E T \in B : \A x \in T : T \ {x} \notin B
PROOF
  <1> DEFINE sizes == { Cardinality(T) : T \in B }
  <1>1. \A T \in B : IsFiniteSet(T) /\ Cardinality(T) \in Nat
    BY FS_Subset, FS_CardinalityType
  <1>2. sizes \in SUBSET Nat /\ sizes # {}
    BY <1>1
  <1>3. PICK n \in sizes : \A i \in sizes : n <= i
    <2> HIDE DEF sizes
    <2> QED
      BY <1>2, LeastExists
  <1>4. PICK T \in B : n = Cardinality(T)
    OBVIOUS
  <1>5. ASSUME NEW x \in T, T \ {x} \in B PROVE FALSE
    <2>1. Cardinality(T \ {x}) = n - 1
      BY <1>1, <1>4, FS_RemoveElement
    <2>2. n <= Cardinality(T \ {x})
      BY <1>3, <1>5
    <2> QED
      BY <1>1, <1>4, <2>1, <2>2
  <1> QED
    BY <1>5

Taken(s) == CHOOSE x \in s : TRUE

Unrolls(g, f) ==
  g = [s \in SUBSET DOMAIN f |-> IF s = {} THEN 0 ELSE f[Taken(s)] + g[s \ {Taken(s)}]]

Sum(f) == FoldFunction(+, 0, f)

LEMMA SumUnrolled ==
  ASSUME NEW f
  PROVE  Sum(f) = (CHOOSE g : Unrolls(g, f))[DOMAIN f]
BY DEF Sum, Unrolls, Taken, FoldFunction, FoldFunctionOnSet, MapThenFoldSet

LEMMA PartialSums ==
  ASSUME NEW S, IsFiniteSet(S), NEW f \in [S -> Int]
  PROVE  \E g \in [SUBSET S -> Int] :
           /\ \A s \in SUBSET S : g[s] = IF s = {} THEN 0 ELSE f[Taken(s)] + g[s \ {Taken(s)}]
           /\ Sum(f) = g[S]
PROOF
  <1> DEFINE Small(n) == { s \in SUBSET S : Cardinality(s) <= n }
  <1> DEFINE Term(h, s) == IF s = {} THEN 0 ELSE f[Taken(s)] + h[s \ {Taken(s)}]
  <1> DEFINE Upto(h, n) == h \in [Small(n) -> Int] /\ \A s \in Small(n) : h[s] = Term(h, s)
  <1>1. \A s \in SUBSET S : /\ IsFiniteSet(s) /\ Cardinality(s) \in Nat
                            /\ Cardinality(s) <= Cardinality(S)
    BY FS_Subset, FS_CardinalityType
  <1>2. ASSUME NEW s \in SUBSET S, s # {}
        PROVE  /\ Taken(s) \in s /\ s \ {Taken(s)} \in SUBSET S
               /\ Cardinality(s \ {Taken(s)}) = Cardinality(s) - 1
    <2>1. Taken(s) \in s
      BY <1>2 DEF Taken
    <2> QED
      BY <1>1, <2>1, FS_RemoveElement
  <1>3. ASSUME NEW n \in Nat, NEW h, Upto(h, n), NEW s \in SUBSET S, Cardinality(s) <= n + 1
        PROVE  Term(h, s) \in Int
    <2>1. CASE s = {}
      BY <2>1
    <2>2. CASE s # {}
      <3>1. s \ {Taken(s)} \in Small(n)
        BY <1>1, <1>2, <1>3, <2>2
      <3>2. h[s \ {Taken(s)}] \in Int /\ f[Taken(s)] \in Int
        BY <1>2, <1>3, <2>2, <3>1
      <3> QED
        BY <2>2, <3>2
    <2> QED
      BY <2>1, <2>2
  <1>4. \A n \in Nat : \E h : Upto(h, n)
    <2> DEFINE stuck == { n \in Nat : ~ \E h : Upto(h, n) }
    <2> SUFFICES ASSUME stuck # {} PROVE FALSE
      OBVIOUS
    <2>1. PICK n \in stuck : \A i \in stuck : n <= i
      <3>1. stuck \in SUBSET Nat
        OBVIOUS
      <3> HIDE DEF stuck
      <3> QED
        BY <3>1, LeastExists
    <2>2. n \in Nat /\ ~ \E h : Upto(h, n)
      OBVIOUS
    <2>3. CASE n = 0
      <3>1. \A s \in Small(0) : s = {}
        BY <1>1, FS_EmptySet
      <3>2. Upto([s \in Small(0) |-> 0], 0)
        BY <3>1
      <3> QED
        BY <2>2, <2>3, <3>2
    <2>4. CASE n # 0
      <3>1. n - 1 \in Nat /\ n - 1 \notin stuck
        <4>1. n - 1 \in Nat /\ ~(n <= n - 1)
          BY <2>2, <2>4
        <4> HIDE DEF stuck
        <4> QED
          BY <2>1, <4>1
      <3>2. PICK h : Upto(h, n - 1)
        BY <3>1
      <3> DEFINE k == [s \in Small(n) |-> Term(h, s)]
      <3>3. \A s \in Small(n - 1) : s \in Small(n) /\ k[s] = h[s]
        BY <1>1, <2>2, <3>1, <3>2
      <3>4. \A s \in Small(n) : Term(h, s) \in Int
        <4>1. \A s \in Small(n) : s \in SUBSET S /\ Cardinality(s) <= (n - 1) + 1
          BY <2>2
        <4>2. n - 1 \in Nat /\ Upto(h, n - 1)
          BY <3>1, <3>2
        <4> HIDE DEF Term, Upto, Small
        <4> QED
          BY <1>3, <4>1, <4>2
      <3>5. ASSUME NEW s \in Small(n) PROVE Term(k, s) = Term(h, s)
        <4>1. s # {} => s \ {Taken(s)} \in Small(n - 1)
          BY <1>1, <1>2, <2>2
        <4> QED
          BY <3>3, <4>1
      <3>6. k \in [Small(n) -> Int] /\ \A s \in Small(n) : k[s] = Term(k, s)
        <4> HIDE DEF Term
        <4> QED
          BY <3>4, <3>5
      <3>7. Upto(k, n)
        BY <3>6
      <3> QED
        BY <2>2, <3>7
    <2> QED
      BY <2>3, <2>4
  <1>5. PICK h : Upto(h, Cardinality(S))
    BY <1>1, <1>4
  <1>6. Small(Cardinality(S)) = SUBSET S
    BY <1>1
  <1>7. DOMAIN f = S
    OBVIOUS
  <1>8. Unrolls(h, f)
    <2>1. h \in [SUBSET S -> Int] /\ \A s \in SUBSET S : h[s] = Term(h, s)
      BY <1>5, <1>6
    <2> QED
      BY <1>7, <2>1 DEF Unrolls
  <1> DEFINE g == CHOOSE g : Unrolls(g, f)
  <1>9. Unrolls(g, f)
    BY <1>8
  <1>10. Sum(f) = g[S]
    BY <1>7, SumUnrolled
  <1> HIDE DEF g
  <1>11. g = [s \in SUBSET S |-> Term(g, s)]
    BY <1>7, <1>9 DEF Unrolls
  <1>12. \A s \in SUBSET S : g[s] = Term(g, s)
    BY <1>11
  <1> DEFINE bad == { s \in SUBSET S : g[s] \notin Int }
  <1>13. bad = {}
    <2> SUFFICES ASSUME bad # {} PROVE FALSE
      OBVIOUS
    <2>1. bad \in SUBSET (SUBSET S)
      OBVIOUS
    <2>2. PICK s \in bad : \A x \in s : s \ {x} \notin bad
      <3> HIDE DEF bad
      <3> QED
        BY <2>1, SmallestExists
    <2>3. s \in SUBSET S /\ g[s] \notin Int /\ g[s] = Term(g, s)
      BY <1>12
    <2>4. s # {}
      BY <2>3
    <2>5. g[s \ {Taken(s)}] \in Int /\ f[Taken(s)] \in Int
      BY <1>2, <2>2, <2>3, <2>4
    <2> QED
      BY <2>3, <2>4, <2>5
  <1>14. g \in [SUBSET S -> Int]
    BY <1>11, <1>13
  <1> QED
    BY <1>10, <1>12, <1>14

(* A sum changes by what one of its terms changes by. *)
LEMMA SumUpdated ==
  ASSUME NEW S, IsFiniteSet(S), NEW f \in [S -> Int], NEW x \in S, NEW v \in Int
  PROVE  /\ Sum(f) \in Int
         /\ Sum([f EXCEPT ![x] = v]) = Sum(f) - f[x] + v
PROOF
  <1> DEFINE e == [f EXCEPT ![x] = v]
  <1> DEFINE more(s) == IF x \in s THEN v - f[x] ELSE 0
  <1>1. e \in [S -> Int] /\ \A y \in S : e[y] = IF y = x THEN v ELSE f[y]
    OBVIOUS
  <1>2. PICK g \in [SUBSET S -> Int] :
           /\ \A s \in SUBSET S : g[s] = IF s = {} THEN 0 ELSE f[Taken(s)] + g[s \ {Taken(s)}]
           /\ Sum(f) = g[S]
    BY PartialSums
  <1> HIDE DEF e
  <1>3. PICK h \in [SUBSET S -> Int] :
           /\ \A s \in SUBSET S : h[s] = IF s = {} THEN 0 ELSE e[Taken(s)] + h[s \ {Taken(s)}]
           /\ Sum(e) = h[S]
    BY <1>1, PartialSums
  <1> DEFINE bad == { s \in SUBSET S : h[s] # g[s] + more(s) }
  <1>4. bad = {}
    <2> SUFFICES ASSUME bad # {} PROVE FALSE
      OBVIOUS
    <2>1. PICK s \in bad : \A y \in s : s \ {y} \notin bad
      <3>1. bad \in SUBSET (SUBSET S)
        OBVIOUS
      <3> HIDE DEF bad
      <3> QED
        BY <3>1, SmallestExists
    <2>2. s \in SUBSET S /\ h[s] # g[s] + more(s)
      OBVIOUS
    <2>3. s # {}
      <3>1. {} \in SUBSET S
        OBVIOUS
      <3>2. g[{}] = 0 /\ h[{}] = 0
        BY <1>2, <1>3, <3>1
      <3>3. h[{}] = g[{}] + more({})
        BY <3>2
      <3> HIDE DEF more
      <3> QED
        BY <2>2, <3>3, Zenon
    <2> DEFINE y == Taken(s)
    <2>4. y \in s /\ y \in S
      BY <2>2, <2>3 DEF Taken
    <2> HIDE DEF y
    <2>5. h[s \ {y}] = g[s \ {y}] + more(s \ {y}) /\ s \ {y} \in SUBSET S
      BY <2>1, <2>2, <2>4
    <2>6. g[s] = f[y] + g[s \ {y}] /\ h[s] = e[y] + h[s \ {y}]
      BY <1>2, <1>3, <2>2, <2>3 DEF y
    <2>7. g[s \ {y}] \in Int /\ h[s \ {y}] \in Int /\ f[y] \in Int /\ f[x] \in Int
      BY <2>4, <2>5
    <2>8. CASE y = x
      <3>1. more(s) = v - f[x] /\ more(s \ {y}) = 0 /\ e[y] = v
        BY <1>1, <2>4, <2>8
      <3> QED
        BY <2>2, <2>5, <2>6, <2>7, <2>8, <3>1
    <2>9. CASE y # x
      <3>1. more(s) = more(s \ {y}) /\ more(s) \in Int /\ e[y] = f[y]
        BY <1>1, <2>4, <2>7, <2>9
      <3> HIDE DEF more
      <3> QED
        BY <2>2, <2>5, <2>6, <2>7, <3>1
    <2> QED
      BY <2>8, <2>9
  <1>5. h[S] = g[S] + more(S) /\ g[S] \in Int
    BY <1>4
  <1> QED
    BY <1>2, <1>3, <1>5 DEF e

(* What is spread by shares adds up to so many times all shares. *)
LEMMA SumSpread ==
  ASSUME NEW S, IsFiniteSet(S), NEW f \in [S -> Int], NEW p \in [S -> Int], NEW d \in Int,
         NEW e \in [S -> Int], \A y \in S : e[y] = f[y] + p[y] * d
  PROVE  Sum(f) \in Int /\ Sum(p) \in Int /\ Sum(e) = Sum(f) + Sum(p) * d
PROOF
  <1>1. e \in [S -> Int] /\ \A y \in S : e[y] = f[y] + p[y] * d
    OBVIOUS
  <1>2. PICK g \in [SUBSET S -> Int] :
           /\ \A s \in SUBSET S : g[s] = IF s = {} THEN 0 ELSE f[Taken(s)] + g[s \ {Taken(s)}]
           /\ Sum(f) = g[S]
    BY PartialSums
  <1>3. PICK q \in [SUBSET S -> Int] :
           /\ \A s \in SUBSET S : q[s] = IF s = {} THEN 0 ELSE p[Taken(s)] + q[s \ {Taken(s)}]
           /\ Sum(p) = q[S]
    BY PartialSums
  <1>4. PICK h \in [SUBSET S -> Int] :
           /\ \A s \in SUBSET S : h[s] = IF s = {} THEN 0 ELSE e[Taken(s)] + h[s \ {Taken(s)}]
           /\ Sum(e) = h[S]
    BY <1>1, PartialSums
  <1> DEFINE bad == { s \in SUBSET S : h[s] # g[s] + q[s] * d }
  <1>5. bad = {}
    <2> SUFFICES ASSUME bad # {} PROVE FALSE
      OBVIOUS
    <2>1. PICK s \in bad : \A y \in s : s \ {y} \notin bad
      <3>1. bad \in SUBSET (SUBSET S)
        OBVIOUS
      <3> HIDE DEF bad
      <3> QED
        BY <3>1, SmallestExists
    <2>2. s \in SUBSET S /\ h[s] # g[s] + q[s] * d
      OBVIOUS
    <2>3. s # {}
      <3>1. {} \in SUBSET S
        OBVIOUS
      <3>2. g[{}] = 0 /\ h[{}] = 0 /\ q[{}] = 0
        BY <1>2, <1>3, <1>4, <3>1
      <3>3. h[{}] = g[{}] + q[{}] * d
        BY <3>2
      <3> QED
        BY <2>2, <3>3, Zenon
    <2> DEFINE y == Taken(s)
    <2> DEFINE r == s \ {Taken(s)}
    <2>4. y \in s /\ y \in S
      BY <2>2, <2>3 DEF Taken
    <2>5. h[r] = g[r] + q[r] * d /\ r \in SUBSET S
      BY <2>1, <2>2, <2>4
    <2>6. g[s] = f[y] + g[r] /\ h[s] = e[y] + h[r] /\ q[s] = p[y] + q[r]
      BY <1>2, <1>3, <1>4, <2>2, <2>3
    <2> HIDE DEF y, r
    <2>7. g[r] \in Int /\ q[r] \in Int /\ f[y] \in Int /\ p[y] \in Int
      BY <2>4, <2>5
    <2>8. h[s] = (f[y] + p[y] * d) + (g[r] + q[r] * d)
      BY <1>1, <2>4, <2>5, <2>6
    <2>9. (p[y] + q[r]) * d = p[y] * d + q[r] * d /\ p[y] * d \in Int /\ q[r] * d \in Int
      BY <2>7
    <2> QED
      BY <2>2, <2>6, <2>7, <2>8, <2>9
  <1>6. h[S] = g[S] + q[S] * d /\ g[S] \in Int /\ q[S] \in Int
    BY <1>5
  <1> QED
    BY <1>2, <1>3, <1>4, <1>6

(* A sum of natural numbers is no less than any of them. *)
LEMMA SumBound ==
  ASSUME NEW S, IsFiniteSet(S), NEW f \in [S -> Nat]
  PROVE  Sum(f) \in Nat /\ \A x \in S : f[x] <= Sum(f)
PROOF
  <1>1. PICK g \in [SUBSET S -> Int] :
           /\ \A s \in SUBSET S : g[s] = IF s = {} THEN 0 ELSE f[Taken(s)] + g[s \ {Taken(s)}]
           /\ Sum(f) = g[S]
    <2>1. f \in [S -> Int]
      OBVIOUS
    <2> QED
      BY <2>1, PartialSums
  <1> DEFINE bad == { s \in SUBSET S : ~(0 <= g[s] /\ \A x \in s : f[x] <= g[s]) }
  <1>2. bad = {}
    <2> SUFFICES ASSUME bad # {} PROVE FALSE
      OBVIOUS
    <2>1. PICK s \in bad : \A y \in s : s \ {y} \notin bad
      <3>1. bad \in SUBSET (SUBSET S)
        OBVIOUS
      <3> HIDE DEF bad
      <3> QED
        BY <3>1, SmallestExists
    <2>2. s \in SUBSET S /\ ~(0 <= g[s] /\ \A x \in s : f[x] <= g[s])
      OBVIOUS
    <2>3. s # {}
      <3>1. {} \in SUBSET S
        OBVIOUS
      <3>2. g[{}] = 0
        BY <1>1, <3>1
      <3>3. 0 <= g[{}] /\ \A x \in {} : f[x] <= g[{}]
        BY <3>2
      <3> QED
        BY <2>2, <3>3, Zenon
    <2> DEFINE y == Taken(s)
    <2> DEFINE r == s \ {Taken(s)}
    <2>4. y \in s /\ y \in S
      BY <2>2, <2>3 DEF Taken
    <2>5. r \in SUBSET S /\ 0 <= g[r] /\ \A x \in r : f[x] <= g[r]
      BY <2>1, <2>2, <2>4
    <2>6. g[s] = f[y] + g[r] /\ r = s \ {y}
      BY <1>1, <2>2, <2>3
    <2> HIDE DEF y, r
    <2>7. g[r] \in Int /\ f[y] \in Nat /\ \A x \in s : f[x] \in Nat
      BY <2>2, <2>4, <2>5
    <2>8. \A x \in s : x = y \/ f[x] <= g[r]
      BY <2>5, <2>6
    <2>9. 0 <= g[s] /\ f[y] <= g[s] /\ g[r] <= g[s] /\ g[s] \in Int
      BY <2>5, <2>6, <2>7
    <2>10. ASSUME NEW x \in s PROVE f[x] <= g[s]
      BY <2>7, <2>8, <2>9
    <2> QED
      BY <2>2, <2>9, <2>10
  <1>3. 0 <= g[S] /\ (\A x \in S : f[x] <= g[S]) /\ g[S] \in Int
    BY <1>2
  <1> QED
    BY <1>1, <1>3

-----------------------------------------------------------------------------
(* VOL that changes hands. *)

Paid == [gratuity : Nat, profitShare : Nat, transferTax : Nat]

Books == [balance : [Holder -> Nat], rewardPool : Nat, prizePool : Nat, payoutPool : Nat,
          block : Paid, total : Int]

(* What an operation on balances leaves alone. *)
SamePools(V, W) ==
  /\ W.rewardPool = V.rewardPool /\ W.prizePool = V.prizePool /\ W.payoutPool = V.payoutPool
  /\ W.block = V.block /\ W.total = V.total

LEMMA BooksFacts ==
  ASSUME NEW V \in Books
  PROVE  /\ V.balance \in [Holder -> Nat] /\ V.balance \in [Holder -> Int]
         /\ V.rewardPool \in Nat /\ V.prizePool \in Nat /\ V.payoutPool \in Nat
         /\ V.block \in Paid /\ V.total \in Int
         /\ V.block.gratuity \in Nat /\ V.block.profitShare \in Nat /\ V.block.transferTax \in Nat
BY DEF Books, Paid

LEMMA BalanceSet ==
  ASSUME IsFiniteSet(Holder), NEW V \in Books, NEW x \in Holder, NEW v \in Nat
  PROVE  LET W == [V EXCEPT !.balance[x] = v]
         IN  /\ W \in Books /\ SamePools(V, W)
             /\ W.balance = [V.balance EXCEPT ![x] = v]
             /\ Sum(V.balance) \in Int
             /\ Sum(W.balance) = Sum(V.balance) - V.balance[x] + v
PROOF
  <1> DEFINE W == [V EXCEPT !.balance[x] = v]
  <1>1. W.balance = [V.balance EXCEPT ![x] = v] /\ SamePools(V, W) /\ W \in Books
    BY DEF Books, SamePools
  <1>2. /\ Sum(V.balance) \in Int
        /\ Sum([V.balance EXCEPT ![x] = v]) = Sum(V.balance) - V.balance[x] + v
    BY BooksFacts, SumUpdated
  <1> QED
    BY <1>1, <1>2

LEMMA Added ==
  ASSUME IsFiniteSet(Holder), NEW V \in Books, NEW x \in Holder, NEW n \in Nat
  PROVE  /\ AddFunds(V, x, n) \in Books /\ SamePools(V, AddFunds(V, x, n))
         /\ AddFunds(V, x, n).balance = [V.balance EXCEPT ![x] = V.balance[x] + n]
         /\ Sum(V.balance) \in Int
         /\ Sum(AddFunds(V, x, n).balance) = Sum(V.balance) + n
PROOF
  <1> DEFINE v == V.balance[x] + n
  <1>1. v \in Nat /\ V.balance[x] \in Nat
    BY BooksFacts
  <1>2. AddFunds(V, x, n) = [V EXCEPT !.balance[x] = v]
    BY DEF AddFunds, Books
  <1> HIDE DEF v
  <1>3. /\ AddFunds(V, x, n) \in Books /\ SamePools(V, AddFunds(V, x, n))
        /\ AddFunds(V, x, n).balance = [V.balance EXCEPT ![x] = v]
        /\ Sum(V.balance) \in Int
        /\ Sum(AddFunds(V, x, n).balance) = Sum(V.balance) - V.balance[x] + v
    BY <1>1, <1>2, BalanceSet
  <1> QED
    BY <1>1, <1>3 DEF v

LEMMA Subtracted ==
  ASSUME IsFiniteSet(Holder), NEW V \in Books, NEW x \in Holder, NEW n \in Nat
  PROVE  /\ SubFunds(V, x, n) \in Books /\ SamePools(V, SubFunds(V, x, n))
         /\ Sum(V.balance) \in Int
         /\ HasFunds(V, x, n) =>
              /\ SubFunds(V, x, n).balance = [V.balance EXCEPT ![x] = V.balance[x] - n]
              /\ Sum(SubFunds(V, x, n).balance) = Sum(V.balance) - n
PROOF
  <1> DEFINE v == IF n <= V.balance[x] THEN V.balance[x] - n ELSE 0
  <1>1. V.balance[x] \in Nat /\ v \in Nat
    BY BooksFacts
  <1>2. SubFunds(V, x, n) = [V EXCEPT !.balance[x] = v]
    BY DEF SubFunds, Books
  <1>3. HasFunds(V, x, n) => v = V.balance[x] - n
    BY DEF HasFunds
  <1> HIDE DEF v
  <1>4. /\ SubFunds(V, x, n) \in Books /\ SamePools(V, SubFunds(V, x, n))
        /\ SubFunds(V, x, n).balance = [V.balance EXCEPT ![x] = v]
        /\ Sum(V.balance) \in Int
        /\ Sum(SubFunds(V, x, n).balance) = Sum(V.balance) - V.balance[x] + v
    BY <1>1, <1>2, BalanceSet
  <1> QED
    BY <1>1, <1>3, <1>4

(* Books in which the profit share of the block is a part of its gratuities. *)
Fair(V) == V \in Books /\ V.block.profitShare <= V.block.gratuity

(* How far the VOL of the ledger is from its own count of it. *)
Excess(V) == HeldVOL(V) - V.total

(* Fees go from their payer to the block; who lacks them keeps nothing. *)
LEMMA FeesPaid ==
  ASSUME IsFiniteSet(Holder), NEW V, Fair(V), NEW x \in Holder, NEW f \in Paid, f.profitShare <= f.gratuity
  PROVE  /\ Fair(PayFees(V, x, f))
         /\ Fees(f) \in Nat
         /\ HasFunds(V, x, Fees(f)) => Excess(PayFees(V, x, f)) = Excess(V)
PROOF
  <1> DEFINE W == SubFunds(V, x, Fees(f))
  <1> DEFINE paid == [gratuity |-> V.block.gratuity + f.gratuity,
                      profitShare |-> V.block.profitShare + f.profitShare,
                      transferTax |-> V.block.transferTax + f.transferTax]
  <1>1. V \in Books /\ V.block.profitShare <= V.block.gratuity
    BY DEF Fair
  <1>2. /\ f.gratuity \in Nat /\ f.profitShare \in Nat /\ f.transferTax \in Nat
        /\ Fees(f) \in Nat /\ Fees(f) = f.gratuity + f.transferTax
    BY DEF Paid, Fees
  <1>3. /\ W \in Books /\ SamePools(V, W) /\ Sum(V.balance) \in Int
        /\ HasFunds(V, x, Fees(f)) => Sum(W.balance) = Sum(V.balance) - Fees(f)
    BY <1>1, <1>2, Subtracted
  <1>4. PayFees(V, x, f) = [W EXCEPT !.block = paid]
    BY <1>3 DEF PayFees, SamePools, Books
  <1> HIDE DEF W
  <1>5. paid \in Paid /\ paid.profitShare <= paid.gratuity
        /\ Fees(paid) = Fees(V.block) + Fees(f) /\ Fees(V.block) \in Nat
    BY <1>1, <1>2, BooksFacts DEF Paid, Fees
  <1> HIDE DEF paid
  <1>6. /\ PayFees(V, x, f) \in Books /\ PayFees(V, x, f).block = paid
        /\ PayFees(V, x, f).balance = W.balance
        /\ PayFees(V, x, f).rewardPool = V.rewardPool /\ PayFees(V, x, f).prizePool = V.prizePool
        /\ PayFees(V, x, f).payoutPool = V.payoutPool /\ PayFees(V, x, f).total = V.total
    BY <1>3, <1>4, <1>5 DEF Books, SamePools
  <1>7. Fair(PayFees(V, x, f))
    BY <1>5, <1>6 DEF Fair
  <1>8. ASSUME HasFunds(V, x, Fees(f)) PROVE Excess(PayFees(V, x, f)) = Excess(V)
    <2>1. HeldVOL(PayFees(V, x, f)) = Sum(W.balance) + V.rewardPool + V.prizePool + V.payoutPool + Fees(paid)
      BY <1>6 DEF HeldVOL, Sum
    <2>2. HeldVOL(V) = Sum(V.balance) + V.rewardPool + V.prizePool + V.payoutPool + Fees(V.block)
      BY DEF HeldVOL, Sum
    <2>3. HeldVOL(PayFees(V, x, f)) = HeldVOL(V)
      BY <1>1, <1>2, <1>3, <1>5, <1>8, <2>1, <2>2, BooksFacts
    <2> QED
      BY <1>6, <2>3 DEF Excess
  <1> QED
    BY <1>2, <1>7, <1>8

(* VOL that is moved between two accounts. *)
LEMMA VOLTransferred ==
  ASSUME IsFiniteSet(Holder), NEW V, Fair(V), NEW x \in Holder, NEW y \in Holder, NEW n \in Nat
  PROVE  /\ Fair(Transfer(V, x, y, n))
         /\ HasFunds(V, x, n) /\ (x = y => n = 0) =>
              /\ Excess(Transfer(V, x, y, n)) = Excess(V)
              /\ Transfer(V, x, y, n).balance[x] = V.balance[x] - n
PROOF
  <1> DEFINE W == AddFunds(V, y, n)
  <1>1. V \in Books /\ V.block.profitShare <= V.block.gratuity /\ V.balance \in [Holder -> Nat]
    BY BooksFacts DEF Fair
  <1>2. /\ W \in Books /\ SamePools(V, W) /\ W.balance = [V.balance EXCEPT ![y] = V.balance[y] + n]
        /\ Sum(V.balance) \in Int /\ Sum(W.balance) = Sum(V.balance) + n
    BY <1>1, Added
  <1> HIDE DEF W
  <1> DEFINE U == SubFunds(W, x, n)
  <1>3. /\ U \in Books /\ SamePools(W, U)
        /\ HasFunds(W, x, n) =>
             /\ U.balance = [W.balance EXCEPT ![x] = W.balance[x] - n]
             /\ Sum(U.balance) = Sum(W.balance) - n
    BY <1>2, Subtracted
  <1>4. Transfer(V, x, y, n) = U
    BY DEF Transfer, W
  <1> HIDE DEF U
  <1>5. SamePools(V, U) /\ Fair(U)
    BY <1>1, <1>2, <1>3 DEF SamePools, Fair
  <1>6. ASSUME HasFunds(V, x, n), x = y => n = 0
        PROVE  Excess(U) = Excess(V) /\ U.balance[x] = V.balance[x] - n
    <2>1. W.balance[x] = IF x = y THEN V.balance[x] + n ELSE V.balance[x]
      BY <1>1, <1>2
    <2>2. W.balance[x] \in Nat /\ V.balance[x] \in Nat /\ n <= V.balance[x] /\ n <= W.balance[x]
      BY <1>1, <1>6, <2>1 DEF HasFunds
    <2>3. U.balance = [W.balance EXCEPT ![x] = W.balance[x] - n] /\ Sum(U.balance) = Sum(V.balance)
      BY <1>2, <1>3, <2>2 DEF HasFunds
    <2>4. U.balance[x] = W.balance[x] - n
      BY <1>2, <2>3, BooksFacts
    <2>5. U.balance[x] = V.balance[x] - n
      BY <1>6, <2>1, <2>2, <2>4
    <2>6. HeldVOL(U) = HeldVOL(V)
      BY <1>5, <2>3 DEF HeldVOL, SamePools, Sum
    <2> QED
      BY <1>5, <2>5, <2>6 DEF Excess, SamePools
  <1> QED
    BY <1>4, <1>5, <1>6

(* A prize comes from its pool. *)
LEMMA PrizeAwarded ==
  ASSUME IsFiniteSet(Holder), NEW V, Fair(V), NEW x \in Holder, NEW n \in Nat, n <= V.prizePool
  PROVE  /\ Fair(AwardVOL(V, x, n)) /\ Excess(AwardVOL(V, x, n)) = Excess(V)
         /\ \A y \in Holder : V.balance[y] <= AwardVOL(V, x, n).balance[y]
PROOF
  <1> DEFINE W == AddFunds(V, x, n)
  <1> DEFINE U == AwardVOL(V, x, n)
  <1>1. V \in Books /\ V.block.profitShare <= V.block.gratuity
    BY DEF Fair
  <1>2. /\ W \in Books /\ SamePools(V, W) /\ W.balance = [V.balance EXCEPT ![x] = V.balance[x] + n]
        /\ Sum(V.balance) \in Int /\ Sum(W.balance) = Sum(V.balance) + n
    BY <1>1, Added
  <1>3. U = [W EXCEPT !.prizePool = W.prizePool - n]
    BY <1>2 DEF AwardVOL, Books
  <1>4. V.prizePool - n \in Nat
    BY <1>1, BooksFacts
  <1> HIDE DEF W, U
  <1>5. /\ U \in Books /\ U.balance = W.balance /\ U.rewardPool = V.rewardPool
        /\ U.prizePool = V.prizePool - n /\ U.payoutPool = V.payoutPool /\ U.block = V.block
        /\ U.total = V.total
    BY <1>2, <1>3, <1>4 DEF Books, SamePools
  <1>6. Fair(U)
    BY <1>1, <1>5 DEF Fair
  <1>7. HeldVOL(U) = HeldVOL(V)
    <2>1. HeldVOL(U) = Sum(W.balance) + V.rewardPool + (V.prizePool - n) + V.payoutPool + Fees(V.block)
      BY <1>5 DEF HeldVOL, Sum
    <2>2. HeldVOL(V) = Sum(V.balance) + V.rewardPool + V.prizePool + V.payoutPool + Fees(V.block)
      BY DEF HeldVOL, Sum
    <2>3. Fees(V.block) \in Nat
      BY <1>1, BooksFacts DEF Fees
    <2> QED
      BY <1>1, <1>2, <2>1, <2>2, <2>3, BooksFacts
  <1>8. ASSUME NEW y \in Holder PROVE V.balance[y] <= U.balance[y]
    <2>1. V.balance[y] \in Nat /\ U.balance[y] = IF y = x THEN V.balance[x] + n ELSE V.balance[y]
      BY <1>1, <1>2, <1>5, BooksFacts
    <2> QED
      BY <2>1
  <1> QED
    BY <1>5, <1>6, <1>7, <1>8 DEF Excess, U

(* A grant leaves books, whatever it does to their sum. *)
LEMMA GrantFair ==
  ASSUME IsFiniteSet(Holder), NEW V, Fair(V), NEW x \in Holder, NEW n \in Nat, NEW g \in Nat
  PROVE  Fair(IF g > 0 THEN CreateVOL(AddFunds(V, x, n), g) ELSE AddFunds(V, x, n))
PROOF
  <1> DEFINE W == AddFunds(V, x, n)
  <1>1. V \in Books /\ V.block.profitShare <= V.block.gratuity
    BY DEF Fair
  <1>2. W \in Books /\ SamePools(V, W)
    BY <1>1, Added
  <1> HIDE DEF W
  <1>3. W.prizePool \in Nat /\ W.total \in Int
    BY <1>2, BooksFacts
  <1> DEFINE U == [W EXCEPT !.rewardPool = W.prizePool]
  <1>4. CreateVOL(W, g) = [U EXCEPT !.total = U.total + g]
    BY <1>2 DEF CreateVOL, Books
  <1>5. CreateVOL(W, g) \in Books /\ CreateVOL(W, g).block = V.block
    <2>1. U \in Books /\ U.block = V.block /\ U.total \in Int
      BY <1>2, <1>3 DEF Books, SamePools
    <2> HIDE DEF U
    <2> QED
      BY <1>4, <2>1 DEF Books
  <1>6. Fair(W) /\ Fair(CreateVOL(W, g))
    BY <1>1, <1>2, <1>5 DEF Fair, SamePools
  <1> QED
    BY <1>6 DEF W

LEMMA ScalePositive ==
  ASSUME IsFiniteSet(Holder)
  PROVE  Scale \in Nat \ {0} /\ Scale = Sum(Share) /\ Share \in [Holder -> Int]
PROOF
  <1>1. Share \in [Holder -> Nat]
    BY TreasuryAssumption
  <1>2. PICK x \in Holder : Share[x] > 0
    BY TreasuryAssumption
  <1>3. Sum(Share) \in Nat /\ Share[x] <= Sum(Share) /\ Share[x] \in Nat
    BY <1>1, SumBound
  <1>4. Scale = Sum(Share)
    BY DEF Scale, Sum
  <1> QED
    BY <1>1, <1>2, <1>3, <1>4

(* What a pool is divided into, and what is left of it. *)
LEMMA Division ==
  ASSUME NEW p \in Nat, NEW k \in Nat \ {0}
  PROVE  p \div k \in Nat /\ p - k * (p \div k) \in Nat
PROOF
  <1>1. p \div k \in Nat
    OBVIOUS
  <1>2. p % k \in 0..(k - 1) /\ p = k * (p \div k) + (p % k)
    OBVIOUS
  <1> QED
    BY <1>1, <1>2

LEMMA QuotientBound ==
  ASSUME NEW p \in Nat, NEW k \in Nat \ {0}
  PROVE  p \div k \in 0..p
PROOF
  <1> DEFINE q == p \div k
  <1>1. q \in Nat /\ p - k * q \in Nat
    BY Division
  <1> HIDE DEF q
  <1>2. k * q = q + (k - 1) * q /\ (k - 1) * q \in Nat /\ k * q \in Nat
    BY <1>1
  <1>3. q <= p
    BY <1>1, <1>2
  <1> QED
    BY <1>1, <1>3 DEF q

LEMMA MinOfTwo ==
  ASSUME NEW m \in Nat, NEW n \in Nat
  PROVE  Min({m, n}) \in Nat /\ Min({m, n}) <= m /\ Min({m, n}) <= n
PROOF
  <1>1. \E x \in {m, n} : \A y \in {m, n} : x <= y
    <2>1. CASE m <= n
      BY <2>1
    <2>2. CASE ~(m <= n)
      BY <2>2
    <2> QED
      BY <2>1, <2>2
  <1>2. Min({m, n}) \in {m, n} /\ \A y \in {m, n} : Min({m, n}) <= y
    BY <1>1 DEF Min
  <1> QED
    BY <1>2

(* What is paid out is spread by shares, and what is left stays in the pool. *)
LEMMA PaidOut ==
  ASSUME IsFiniteSet(Holder), NEW V \in Books, NEW n \in Nat
  PROVE  LET U == Payout(V, n)
         IN  /\ U \in Books /\ U.block = V.block /\ U.total = V.total
             /\ U.rewardPool = V.rewardPool /\ U.prizePool = V.prizePool
             /\ Sum(V.balance) \in Int
             /\ Sum(U.balance) + U.payoutPool = Sum(V.balance) + V.payoutPool + n
PROOF
  <1> DEFINE U == Payout(V, n)
  <1> DEFINE pool == V.payoutPool + n
  <1> DEFINE dist == pool \div Scale
  <1> DEFINE b == [x \in Holder |-> V.balance[x] + Share[x] * dist]
  <1>1. Scale \in Nat \ {0} /\ Scale = Sum(Share) /\ Share \in [Holder -> Int]
    BY ScalePositive
  <1>2. Share \in [Holder -> Nat]
    BY TreasuryAssumption
  <1>3. pool \in Nat
    BY BooksFacts
  <1>4. dist \in Nat /\ pool - Scale * dist \in Nat
    <2> HIDE DEF pool
    <2> QED
      BY <1>1, <1>3, Division
  <1>5. U = [V EXCEPT !.balance = [x \in Holder |-> V.balance[x] + Share[x] * dist],
                      !.payoutPool = pool - Scale * dist]
    BY DEF Payout, Books
  <1> HIDE DEF pool, dist
  <1>6. b \in [Holder -> Nat]
    <2>1. ASSUME NEW x \in Holder PROVE V.balance[x] + Share[x] * dist \in Nat
      <3>1. V.balance[x] \in Nat /\ Share[x] \in Nat
        BY <1>2, BooksFacts
      <3> QED
        BY <1>4, <3>1
    <2> QED
      BY <2>1
  <1>7. Sum(V.balance) \in Int /\ Sum(b) = Sum(V.balance) + Scale * dist
    <2>1. Sum(V.balance) \in Int /\ Sum(b) = Sum(V.balance) + Sum(Share) * dist
      <3>1. /\ V.balance \in [Holder -> Int] /\ b \in [Holder -> Int]
            /\ \A x \in Holder : b[x] = V.balance[x] + Share[x] * dist
        BY <1>6, BooksFacts
      <3>2. Share \in [Holder -> Int] /\ dist \in Int
        BY <1>1, <1>4
      <3> DEFINE f == V.balance
      <3> HIDE DEF b
      <3>3. f \in [Holder -> Int] /\ b \in [Holder -> Int] /\ \A x \in Holder : b[x] = f[x] + Share[x] * dist
        BY <3>1
      <3> HIDE DEF f
      <3>4. Sum(f) \in Int /\ Sum(Share) \in Int /\ Sum(b) = Sum(f) + Sum(Share) * dist
        BY <3>2, <3>3, SumSpread, SMTT(60)
      <3> QED
        BY <3>4 DEF f
    <2>2. Sum(Share) = Scale
      BY <1>1
    <2> HIDE DEF b
    <2> QED
      BY <2>1, <2>2, Zenon
  <1> HIDE DEF b
  <1>8. U = [V EXCEPT !.balance = b, !.payoutPool = pool - Scale * dist]
    BY <1>5 DEF b
  <1> DEFINE rest == pool - Scale * dist
  <1>9. rest \in Nat /\ rest = pool - Scale * dist
    BY <1>4
  <1> HIDE DEF rest
  <1>10. U = [V EXCEPT !.balance = b, !.payoutPool = rest]
    BY <1>8, <1>9
  <1> HIDE DEF U
  <1> DEFINE W == [V EXCEPT !.balance = b]
  <1>11. /\ U \in Books /\ U.block = V.block /\ U.total = V.total /\ U.balance = b /\ U.payoutPool = rest
         /\ U.rewardPool = V.rewardPool /\ U.prizePool = V.prizePool
    <2>1. /\ W \in Books /\ W.block = V.block /\ W.total = V.total /\ W.balance = b
          /\ W.rewardPool = V.rewardPool /\ W.prizePool = V.prizePool
      BY <1>6 DEF Books
    <2>2. U = [W EXCEPT !.payoutPool = rest]
      BY <1>10
    <2> HIDE DEF W
    <2> QED
      BY <1>9, <2>1, <2>2 DEF Books
  <1>12. Sum(U.balance) + U.payoutPool = Sum(V.balance) + V.payoutPool + n
    <2>1. Scale * dist \in Int /\ V.payoutPool \in Nat
      BY <1>1, <1>4, BooksFacts
    <2> QED
      BY <1>7, <1>9, <1>11, <2>1 DEF pool
  <1> QED
    BY <1>7, <1>11, <1>12 DEF U

(* The end of a block hands out all that it took. *)
LEMMA MinerRewarded ==
  ASSUME IsFiniteSet(Holder), NEW V, Fair(V), NEW m \in Holder
  PROVE  Fair(RewardMiner(V, m)) /\ Excess(RewardMiner(V, m)) = Excess(V)
PROOF
  <1> DEFINE gross == Min({FixedReward, V.rewardPool})
  <1> DEFINE tax == gross \div TaxDivisor
  <1> DEFINE profit == gross - tax + V.block.gratuity
  <1> DEFINE gain == profit - V.block.profitShare
  <1> DEFINE paid == [V EXCEPT !.rewardPool = @ - gross, !.block = NoFees]
  <1> DEFINE earned == IF profit > 0 THEN AddFunds(paid, m, gain) ELSE paid
  <1> DEFINE out == tax + V.block.transferTax + V.block.profitShare
  <1> DEFINE U == Payout(earned, out)
  <1>1. RewardMiner(V, m) = U
    BY DEF RewardMiner
  <1>2. /\ V \in Books /\ V.block.profitShare <= V.block.gratuity
        /\ V.rewardPool \in Nat /\ V.prizePool \in Nat /\ V.payoutPool \in Nat /\ V.total \in Int
        /\ V.block.gratuity \in Nat /\ V.block.profitShare \in Nat /\ V.block.transferTax \in Nat
    BY BooksFacts DEF Fair
  <1>3. gross \in Nat /\ V.rewardPool - gross \in Nat
    <2>1. gross \in Nat /\ gross <= V.rewardPool
      BY <1>2, MinOfTwo, TreasuryAssumption
    <2> HIDE DEF gross
    <2> QED
      BY <1>2, <2>1
  <1>4. tax \in 0..gross
    <2> HIDE DEF gross
    <2> QED
      BY <1>3, QuotientBound, TreasuryAssumption
  <1>5. paid = [V EXCEPT !.rewardPool = V.rewardPool - gross, !.block = NoFees]
    BY <1>2 DEF Books
  <1> HIDE DEF gross, tax
  <1>6. gain \in Nat /\ out \in Nat /\ (~(profit > 0) => gain = 0) /\ profit \in Nat
    BY <1>2, <1>3, <1>4
  <1> HIDE DEF paid
  <1>7. /\ paid \in Books /\ paid.block = NoFees /\ paid.total = V.total /\ paid.balance = V.balance
        /\ paid.rewardPool = V.rewardPool - gross /\ paid.prizePool = V.prizePool
        /\ paid.payoutPool = V.payoutPool
    <2>1. NoFees \in Paid
      BY DEF NoFees, Paid
    <2> QED
      BY <1>2, <1>3, <1>5, <2>1 DEF Books
  <1>8. /\ earned \in Books /\ SamePools(paid, earned)
        /\ Sum(V.balance) \in Int /\ Sum(earned.balance) = Sum(V.balance) + gain
    <2> HIDE DEF profit, gain
    <2>1. /\ AddFunds(paid, m, gain) \in Books /\ SamePools(paid, AddFunds(paid, m, gain))
          /\ Sum(paid.balance) \in Int
          /\ Sum(AddFunds(paid, m, gain).balance) = Sum(paid.balance) + gain
      BY <1>6, <1>7, Added
    <2>2. CASE profit > 0
      BY <1>7, <2>1, <2>2
    <2>3. CASE ~(profit > 0)
      BY <1>6, <1>7, <2>1, <2>3 DEF SamePools
    <2> QED
      BY <2>2, <2>3
  <1> HIDE DEF earned
  <1>9. /\ U \in Books /\ U.block = earned.block /\ U.total = earned.total
        /\ U.rewardPool = earned.rewardPool /\ U.prizePool = earned.prizePool
        /\ Sum(earned.balance) \in Int
        /\ Sum(U.balance) + U.payoutPool = Sum(earned.balance) + earned.payoutPool + out
    <2> HIDE DEF out
    <2> QED
      BY <1>6, <1>8, PaidOut
  <1> HIDE DEF U
  <1>10. /\ U.block = NoFees /\ U.total = V.total
         /\ U.rewardPool = V.rewardPool - gross /\ U.prizePool = V.prizePool
         /\ Sum(U.balance) + U.payoutPool = Sum(V.balance) + gain + V.payoutPool + out
    BY <1>7, <1>8, <1>9 DEF SamePools
  <1>11. Fair(U)
    BY <1>9, <1>10 DEF Fair, NoFees
  <1>12. HeldVOL(U) = HeldVOL(V)
    <2>1. Sum(U.balance) \in Int /\ U.payoutPool \in Nat
      BY <1>9, BooksFacts, SumUpdated
    <2>2. Fees(U.block) = 0
      BY <1>10 DEF Fees, NoFees
    <2>3. Fees(V.block) = V.block.gratuity + V.block.transferTax
      BY DEF Fees
    <2>4. HeldVOL(U) = Sum(U.balance) + U.rewardPool + U.prizePool + U.payoutPool + Fees(U.block)
      BY DEF HeldVOL, Sum
    <2>5. HeldVOL(V) = Sum(V.balance) + V.rewardPool + V.prizePool + V.payoutPool + Fees(V.block)
      BY DEF HeldVOL, Sum
    <2>6. gain + out = gross + V.block.gratuity + V.block.transferTax
      BY <1>2, <1>3, <1>4
    <2> QED
      BY <1>2, <1>3, <1>4, <1>6, <1>8, <1>10, <2>1, <2>2, <2>3, <2>4, <2>5, <2>6
  <1> QED
    BY <1>1, <1>10, <1>11, <1>12 DEF Excess

-----------------------------------------------------------------------------
(* Owners and open offers, in every history. *)

Owners == [Asset -> Account \cup {Nobody}]

(* Assets belong to accounts or nobody, and the list of open offers lists offers. *)
Regular(I) == I.owner \in Owners /\ ToSet(I.open) \subseteq Offers(I)

LEMMA StayRegular ==
  ASSUME NEW I, NEW J, Regular(I), KeepsOffers(I, J), J.owner \in Owners
  PROVE  Regular(J)
BY DEF Regular, KeepsOffers, Offers

LEMMA ToldSameOwners ==
  ASSUME NEW I, Shaped(I), NEW x, NEW additions, NEW deletions
  PROVE  Logged(I, x, additions, deletions).owner = I.owner
BY Fields DEF Logged

LEMMA TakeOutSameOwners ==
  ASSUME NEW I, Shaped(I), NEW x, NEW a
  PROVE  TakeOut(I, x, a).owner = I.owner
PROOF
  <1> DEFINE F == Filled(I, x, a)
  <1>1. Shaped(F) /\ F.owner = I.owner
    BY Fields DEF Filled, Shaped
  <1> HIDE DEF F
  <1>2. [F EXCEPT !.count[x] = (@ - 1) % Width].owner = F.owner
    BY <1>1, Fields
  <1> QED
    BY <1>1, <1>2 DEF TakeOut, F

LEMMA MoveRegular ==
  ASSUME NEW I, Shaped(I), I.owner \in Owners, NEW from, NEW to \in Account, NEW a
  PROVE  MoveAsset(I, from, to, a).owner \in Owners
PROOF
  <1> DEFINE O == TakeOut(I, from, a)
  <1> DEFINE end == I.count[to]
  <1>1. Shaped(O) /\ O.owner = I.owner
    BY TakeOutIsQuiet, TakeOutSameOwners DEF Quiet, KeepsOffers
  <1> HIDE DEF O, end
  <1>2. [O EXCEPT !.owner[a] = to, !.offered[a] = NoOffer, !.position[a] = end,
                  !.slot[to][end] = a, !.count[to] = (@ + 1) % Width].owner = [O.owner EXCEPT ![a] = to]
    BY <1>1, Fields
  <1>3. [O.owner EXCEPT ![a] = to] \in Owners
    BY <1>1 DEF Owners
  <1> QED
    BY <1>2, <1>3 DEF MoveAsset, O, end

LEMMA TransferRegular ==
  ASSUME NEW I, Shaped(I), Regular(I), NEW from, NEW to \in Account, NEW s \in Seq(Asset)
  PROVE  Regular(TransferAssets(I, from, to, s))
PROOF
  <1>1. CASE ~HasRoom(I, to, Len(s))
    BY <1>1 DEF TransferAssets
  <1>2. CASE HasRoom(I, to, Len(s))
    <2>1. PICK after :
            /\ after[0] = I
            /\ \A i \in 1..Len(s) : after[i] = MoveAsset(after[i - 1], from, to, s[i])
            /\ TransferAssets(I, from, to, s) =
                 Logged(Logged(after[Len(s)], from, {}, ToSet(s)), to, ToSet(s), {})
      BY <1>2, TransferRounds
    <2> DEFINE good(K) == Shaped(K) /\ K.owner \in Owners
    <2> DEFINE bad == { i \in 0..Len(s) : ~good(after[i]) }
    <2>2. bad = {}
      <3> SUFFICES ASSUME bad # {} PROVE FALSE
        OBVIOUS
      <3>1. PICK n \in bad : \A i \in bad : n <= i
        <4>1. bad \in SUBSET Nat
          OBVIOUS
        <4> HIDE DEF bad
        <4> QED
          BY <4>1, LeastExists
      <3>2. n # 0
        BY <2>1 DEF Regular
      <3>3. n \in 1..Len(s) /\ n - 1 \in 0..Len(s) /\ n - 1 \notin bad
        BY <3>1, <3>2
      <3>4. good(after[n - 1])
        BY <3>3
      <3>5. good(MoveAsset(after[n - 1], from, to, s[n]))
        BY <3>4, MoveIsQuiet, MoveRegular DEF Quiet, KeepsOffers
      <3>6. after[n] = MoveAsset(after[n - 1], from, to, s[n])
        BY <2>1, <3>3
      <3> QED
        BY <3>1, <3>5, <3>6
    <2> DEFINE K == after[Len(s)]
    <2>3. good(K)
      BY <2>2
    <2> HIDE DEF K
    <2> DEFINE L == Logged(K, from, {}, ToSet(s))
    <2>4. good(L)
      BY <2>3, ToldKeepsOffers, ToldSameOwners DEF KeepsOffers
    <2> HIDE DEF L
    <2>5. Logged(L, to, ToSet(s), {}).owner \in Owners
      BY <2>4, ToldSameOwners
    <2>6. TransferAssets(I, from, to, s).owner \in Owners
      BY <2>1, <2>5 DEF L, K
    <2> QED
      BY <2>6, StayRegular, TransferKeepsOffers
  <1> QED
    BY <1>1, <1>2

LEMMA AwardRegular ==
  ASSUME NEW I, Shaped(I), Regular(I), NEW x \in Account, NEW q
  PROVE  Regular(AwardAssets(I, x, q))
PROOF
  <1> DEFINE new == { a \in Asset : I.awarded <= a /\ a < I.awarded + q }
  <1> DEFINE at(a) == I.count[x] + a - I.awarded
  <1> DEFINE owner == [a \in Asset |-> IF a \in new THEN x ELSE I.owner[a]]
  <1> DEFINE position == [a \in Asset |-> IF a \in new THEN at(a) ELSE I.position[a]]
  <1> DEFINE places == [i \in Index |-> IF \E a \in new : at(a) = i
                                        THEN I.awarded + i - I.count[x] ELSE I.slot[x][i]]
  <1> DEFINE G == [I EXCEPT !.owner = owner, !.position = position,
                            !.slot = [I.slot EXCEPT ![x] = places],
                            !.count = [I.count EXCEPT ![x] = I.count[x] + q],
                            !.awarded = I.awarded + q]
  <1>1. AwardAssets(I, x, q) = Logged(G, x, new, {})
    BY Fields DEF AwardAssets
  <1> HIDE DEF new
  <1>2. owner \in Owners
    BY DEF Regular, Owners
  <1> HIDE DEF owner, position, places
  <1>3. G.owner = owner /\ Shaped(G)
    BY Fields DEF Shaped
  <1> HIDE DEF G
  <1>4. AwardAssets(I, x, q).owner \in Owners
    BY <1>1, <1>2, <1>3, ToldSameOwners
  <1> QED
    BY <1>4, AwardKeepsOffers, StayRegular

LEMMA RevokeRegular ==
  ASSUME NEW I, Shaped(I), Regular(I), NEW a
  PROVE  Regular(RevokeAsset(I, a))
PROOF
  <1> DEFINE x == I.owner[a]
  <1> DEFINE O == TakeOut(I, x, a)
  <1> DEFINE G == [O EXCEPT !.owner[a] = Nobody, !.position[a] = NullPosition]
  <1>1. Shaped(O) /\ O.owner = I.owner
    BY TakeOutIsQuiet, TakeOutSameOwners DEF Quiet, KeepsOffers
  <1>2. RevokeAsset(I, a) = Logged(G, x, {}, {a})
    BY DEF RevokeAsset
  <1> HIDE DEF x, O
  <1>3. Shaped(G) /\ G.owner = [O.owner EXCEPT ![a] = Nobody]
    BY <1>1, Fields DEF Shaped
  <1> HIDE DEF G
  <1>4. G.owner \in Owners
    BY <1>1, <1>3 DEF Regular, Owners
  <1>5. RevokeAsset(I, a).owner \in Owners
    BY <1>2, <1>3, <1>4, ToldSameOwners
  <1> QED
    BY <1>5, RevokeKeepsOffers, StayRegular

LEMMA ChangeRegular ==
  ASSUME NEW I, Shaped(I), Regular(I), NEW x, NEW S
  PROVE  Regular(ChangeAssets(I, x, S))
PROOF
  <1> DEFINE G == [I EXCEPT !.changed = @ \cup S]
  <1>1. Shaped(G) /\ G.owner = I.owner
    BY Fields DEF Shaped
  <1>2. ChangeAssets(I, x, S) = Logged(G, x, S, S)
    BY DEF ChangeAssets
  <1> HIDE DEF G
  <1>3. ChangeAssets(I, x, S).owner \in Owners
    BY <1>1, <1>2, ToldSameOwners DEF Regular
  <1> QED
    BY <1>3, ChangeKeepsOffers, StayRegular

LEMMA ClearRegular ==
  ASSUME NEW I, Shaped(I), Regular(I)
  PROVE  Regular(ClearInventories(I))
PROOF
  <1> DEFINE all == UNION { Listed(I, x) : x \in Account }
  <1> DEFINE owner == [a \in Asset |-> IF a \in all THEN Nobody ELSE I.owner[a]]
  <1> DEFINE position == [a \in Asset |-> IF a \in all THEN NullPosition ELSE I.position[a]]
  <1> DEFINE count == [x \in Account |-> 0]
  <1> DEFINE log == [x \in Account |-> [additions |-> I.log[x].additions,
                                        deletions |-> I.log[x].deletions \cup Listed(I, x)]]
  <1>1. ClearInventories(I) = [I EXCEPT !.owner = owner, !.position = position,
                                        !.count = count, !.log = log]
    BY DEF ClearInventories
  <1> HIDE DEF all
  <1>2. owner \in Owners
    BY DEF Regular, Owners
  <1> HIDE DEF owner, position, count, log
  <1>3. ClearInventories(I).owner = owner
    BY <1>1, Fields
  <1> QED
    BY <1>2, <1>3, ClearKeepsOffers, StayRegular

LEMMA OfferRegular ==
  ASSUME NEW I, NEW t, Posted(I, t), Regular(I), NEW x, NEW s, NEW e
  PROVE  Regular(OfferAssets(I, x, s, e))
PROOF
  <1> DEFINE J == OfferAssets(I, x, s, e)
  <1> DEFINE new == [seller |-> x, buyer |-> Nobody, expiration |-> e, assets |-> s]
  <1>1. DOMAIN I = DOMAIN EmptyInventory /\ I.offer \in Seq(Offer) /\ I.open \in Seq(Nat)
    BY DEF Posted, Shaped
  <1>2. /\ DOMAIN J = DOMAIN I /\ J.awarded = I.awarded
        /\ J.owner = I.owner /\ J.position = I.position /\ J.slot = I.slot /\ J.count = I.count
        /\ J.offer = Append(I.offer, new) /\ J.open = Append(I.open, Len(I.offer) + 1)
        /\ J.offered = [a \in Asset |-> IF a \in ToSet(s) THEN Len(I.offer) + 1 ELSE I.offered[a]]
    <2>1. DOMAIN I = DOMAIN EmptyInventory
      BY <1>1
    <2> HIDE DEF J
    <2> QED
      BY <2>1, OfferedFields DEF J, PartOf
  <1> HIDE DEF J, new
  <1>3. Offers(J) = Offers(I) \cup {Len(I.offer) + 1}
    BY <1>1, <1>2 DEF Offers
  <1>4. ToSet(J.open) = ToSet(I.open) \cup {Len(I.offer) + 1}
    <2> DEFINE n == Len(I.offer) + 1
    <2>1. n \in Nat /\ I.open \in Seq(Nat)
      BY <1>1
    <2>2. J.open = Append(I.open, n)
      BY <1>2
    <2> HIDE DEF n
    <2>3. ToSet(J.open) = ToSet(I.open) \cup {n}
      BY <2>1, <2>2, AppendedElements
    <2> QED
      BY <2>3 DEF n
  <1> QED
    BY <1>2, <1>3, <1>4 DEF Regular, J

LEMMA CancelledRegular ==
  ASSUME NEW I, Shaped(I), Regular(I), NEW os
  PROVE  Regular(ClearOffers(I, os))
PROOF
  <1> DEFINE J == ClearOffers(I, os)
  <1>1. J.owner = I.owner /\ J.open = I.open /\ J.offer = Ended(I, os)
    <2>1. DOMAIN I = DOMAIN EmptyInventory
      BY DEF Shaped
    <2> HIDE DEF J
    <2> QED
      BY <2>1, ClearedFields DEF J
  <1> HIDE DEF J
  <1> QED
    BY <1>1 DEF Regular, Ended, Offers, J

LEMMA SoldRegular ==
  ASSUME NEW I, Shaped(I), Regular(I), NEW o, NEW x
  PROVE  Regular(Sold(I, o, x))
PROOF
  <1>1. Sold(I, o, x).owner = I.owner /\ Sold(I, o, x).open = I.open
        /\ Offers(Sold(I, o, x)) = Offers(I)
    BY Fields DEF Sold, Offers
  <1> QED
    BY <1>1 DEF Regular

LEMMA ExpiredRegular ==
  ASSUME NEW I, NEW t, Posted(I, t), Regular(I), NEW u
  PROVE  Regular(ExpireOffers(I, u))
PROOF
  <1> DEFINE J == ExpireOffers(I, u)
  <1> DEFINE C == ClearOffers(I, Due(I, u))
  <1>1. DOMAIN I = DOMAIN EmptyInventory /\ I.offer \in Seq(Offer)
    BY DEF Posted, Shaped
  <1>2. C.owner = I.owner /\ C.offer = Ended(I, Due(I, u))
    <2> HIDE DEF C
    <2> QED
      BY <1>1, ClearedFields DEF C
  <1>3. J.offer = C.offer /\ J.owner = C.owner /\ ToSet(J.open) = Unsold(I) \ Due(I, u)
    <2> HIDE DEF C, J
    <2> QED
      BY <1>1, ExpiredFields DEF C, J
  <1> HIDE DEF C, J
  <1>4. Offers(J) = Offers(I)
    BY <1>2, <1>3 DEF Ended, Offers
  <1> QED
    BY <1>2, <1>3, <1>4 DEF Regular, Unsold, J

LEMMA StepRegular ==
  ASSUME Next, Posted(inventory, time), Regular(inventory)
  PROVE  Regular(inventory')
PROOF
  <1> USE DEF Applied
  <1> DEFINE I == inventory
  <1>1. Shaped(I) /\ I.owner \in Owners
    BY DEF Posted, Regular
  <1>2. ASSUME NEW x \in Account, NEW fee \in Fee, NEW y \in Account, NEW s \in AssetList,
               SendAssets(x, y, s, fee)
        PROVE  Regular(inventory')
    <2>1. CASE x = y
      BY <1>2, <2>1 DEF SendAssets
    <2>2. CASE x # y
      BY <1>1, <1>2, <2>2, ListFacts, TransferRegular DEF SendAssets
    <2> QED
      BY <2>1, <2>2
  <1>3. ASSUME NEW x \in Account, NEW fee \in Fee, NEW s \in AssetList, NEW e \in 1..(MaxTime + 1),
               MakeOffer(x, s, e, fee)
        PROVE  Regular(inventory')
    BY <1>3, OfferRegular DEF MakeOffer
  <1>4. ASSUME NEW x \in Account, NEW fee \in Fee, NEW a \in Asset, CancelOffer(x, a, fee)
        PROVE  Regular(inventory')
    BY <1>1, <1>4, CancelledRegular DEF CancelOffer
  <1>5. ASSUME NEW x \in Account, NEW fee \in Fee, NEW o \in Offers(I), NEW p \in Price,
               BuyAssets(x, o, p, fee)
        PROVE  Regular(inventory')
    <2> DEFINE s == I.offer[o].assets
    <2> DEFINE K == TransferAssets(I, I.offer[o].seller, x, s)
    <2>1. inventory' = Sold(K, o, x)
      BY <1>5 DEF BuyAssets
    <2>2. s \in Seq(Asset)
      BY PostedOffer
    <2>3. Shaped(K) /\ Regular(K)
      BY <1>1, <2>2, TransferRegular, TransferKeepsOffers DEF KeepsOffers
    <2> HIDE DEF K
    <2> QED
      BY <2>1, <2>3, SoldRegular
  <1>6. ASSUME NEW x \in Account, NEW fee \in Fee, NEW S \in SUBSET Asset, UpgradeAssets(x, S, fee)
        PROVE  Regular(inventory')
    BY <1>1, <1>6, ChangeRegular DEF UpgradeAssets
  <1>7. ASSUME NEW x \in Account, NEW fee \in Fee, NEW t \in Asset, NEW s \in AssetList, NEW p \in Price,
               StampAssets(x, t, s, p, fee)
        PROVE  Regular(inventory')
    BY <1>1, <1>7, ChangeRegular DEF StampAssets
  <1>8. ASSUME NEW x \in Account, NEW fee \in Fee, NEW n \in 1..MaxList, GetAssets(x, n, fee)
        PROVE  Regular(inventory')
    BY <1>1, <1>8, AwardRegular DEF GetAssets
  <1>9. ASSUME NEW x \in Account, NEW fee \in Fee, NEW y \in Account, RunScript(x, y, fee)
        PROVE  Regular(inventory')
    <2>1. ASSUME NEW a \in Asset, Revoke(x, a, fee) PROVE Regular(inventory')
      BY <1>1, <2>1, RevokeRegular DEF Revoke
    <2>2. ASSUME NEW a \in Asset, SetField(x, a, fee) PROVE Regular(inventory')
      BY <1>1, <2>2, ChangeRegular DEF SetField
    <2>3. ASSUME NEW n \in 1..MaxList, Applied(x, fee, 0, AwardAssets(I, y, n), vol)
          PROVE  Regular(inventory')
      BY <1>1, <2>3, AwardRegular
    <2>4. ASSUME NEW p \in Price, Applied(x, fee, 0, I, AwardVOL(vol, y, p))
          PROVE  Regular(inventory')
      BY <2>4
    <2> QED
      BY <1>9, <2>1, <2>2, <2>3, <2>4 DEF RunScript
  <1>10. ASSUME NEW x \in Account, NEW fee \in Fee, NEW n \in 0..MaxList, ResetInventories(x, n, fee)
         PROVE  Regular(inventory')
    <2>1. Shaped(ClearInventories(I)) /\ Regular(ClearInventories(I))
      BY <1>1, ClearRegular, ClearKeepsOffers DEF KeepsOffers
    <2>2. inventory' = AwardAssets(ClearInventories(I), x, n)
      BY <1>10 DEF ResetInventories
    <2> QED
      BY <2>1, <2>2, AwardRegular
  <1>11. ASSUME NEW x \in Account, NEW fee \in Fee, IdentifyAccount(x, fee)
         PROVE  Regular(inventory')
    BY <1>11 DEF IdentifyAccount
  <1>12. ASSUME NEW x \in Account, NEW fee \in Fee, NEW y \in Account, NEW p \in Price,
                SendVOL(x, y, p, fee)
         PROVE  Regular(inventory')
    BY <1>12 DEF SendVOL
  <1>13. CASE BeginBlock
    BY <1>13, ExpiredRegular DEF BeginBlock
  <1>14. CASE EndBlock
    BY <1>14 DEF EndBlock
  <1>15. ASSUME NEW x \in Client, ReadLog(x) PROVE Regular(inventory')
    <2>1. /\ [I EXCEPT !.log[x] = NothingLogged].owner = I.owner
          /\ KeepsOffers(I, [I EXCEPT !.log[x] = NothingLogged])
      BY <1>1, Fields DEF KeepsOffers, Shaped
    <2> QED
      BY <1>1, <1>15, <2>1, StayRegular DEF ReadLog
  <1> QED
    BY <1>2, <1>3, <1>4, <1>5, <1>6, <1>7, <1>8, <1>9, <1>10, <1>11, <1>12, <1>13, <1>14, <1>15 DEF Next

-----------------------------------------------------------------------------
(* The VOL of every history. *)

LEMMA FeeFacts ==
  ASSUME NEW f \in Fee
  PROVE  f \in Paid /\ f.profitShare <= f.gratuity /\ Fees(f) \in Nat
BY LedgerAssumption DEF Paid, Fees

(* Fees that their payer still has when they are paid leave the sum as it was. *)
LEMMA PaidInFull ==
  ASSUME NEW V, Fair(V), NEW x \in Account, NEW f \in Fee
  PROVE  /\ Fair(PayFees(V, x, f))
         /\ HasFunds(V, x, Fees(f)) => Excess(PayFees(V, x, f)) = Excess(V)
BY LedgerAssumption, FeeFacts, FeesPaid

(* Uses that put the count of VOL wrong. *)
PutsCountWrong ==
  \E x \in Account, fee \in Fee :
    \/ IdentifyAccount(x, fee)
    \/ \E t \in Asset, s \in AssetList, p \in Price :
         Len(s) > 1 /\ StampAssets(x, t, s, p, fee)

LEMMA SaleFair ==
  ASSUME Posted(inventory, time), Fair(vol), NEW x \in Account, NEW fee \in Fee,
         NEW o \in Offers(inventory), NEW p \in Price, BuyAssets(x, o, p, fee)
  PROVE  Fair(vol') /\ Excess(vol') = Excess(vol)
PROOF
  <1> DEFINE y == inventory.offer[o].seller
  <1> DEFINE W == SubFunds(vol, x, p)
  <1> DEFINE U == AddFunds(W, y, p)
  <1>1. y \in Account /\ y # x
    <2>1. inventory.offer[o] \in Offer /\ y \notin {Nobody, x}
      BY PostedOffer DEF BuyAssets
    <2> QED
      BY <2>1 DEF Offer
  <1>2. p \in Nat /\ IsFiniteSet(Holder) /\ Holder = Account
    BY LedgerAssumption
  <1>3. vol' = PayFees(U, x, fee) /\ HasFunds(vol, x, Fees(fee) + p)
    BY DEF BuyAssets, Applied
  <1>4. vol \in Books /\ vol.block.profitShare <= vol.block.gratuity /\ vol.balance[x] \in Nat
    BY <1>2, BooksFacts DEF Fair
  <1>5. Fees(fee) \in Nat /\ Fees(fee) + p <= vol.balance[x] /\ HasFunds(vol, x, p)
    BY <1>2, <1>3, <1>4, FeeFacts DEF HasFunds
  <1>6. /\ W \in Books /\ SamePools(vol, W) /\ Sum(vol.balance) \in Int
        /\ W.balance = [vol.balance EXCEPT ![x] = vol.balance[x] - p]
        /\ Sum(W.balance) = Sum(vol.balance) - p
    BY <1>2, <1>4, <1>5, Subtracted
  <1> HIDE DEF W, y
  <1>7. /\ U \in Books /\ SamePools(W, U)
        /\ U.balance = [W.balance EXCEPT ![y] = W.balance[y] + p]
        /\ Sum(U.balance) = Sum(W.balance) + p
    BY <1>1, <1>2, <1>6, Added
  <1> HIDE DEF U
  <1>8. Fair(U) /\ SamePools(vol, U)
    BY <1>4, <1>6, <1>7 DEF Fair, SamePools
  <1>9. Excess(U) = Excess(vol)
    <2>1. Sum(U.balance) = Sum(vol.balance)
      BY <1>2, <1>6, <1>7
    <2> QED
      BY <1>8, <2>1 DEF Excess, HeldVOL, SamePools, Sum
  <1>10. HasFunds(U, x, Fees(fee))
    <2>1. U.balance[x] = vol.balance[x] - p
      <3>1. vol.balance \in [Holder -> Nat] /\ W.balance \in [Holder -> Nat]
        BY <1>4, <1>6, BooksFacts
      <3> QED
        BY <1>1, <1>2, <1>6, <1>7, <3>1
    <2> QED
      BY <1>2, <1>4, <1>5, <2>1 DEF HasFunds
  <1> QED
    BY <1>3, <1>8, <1>9, <1>10, PaidInFull

LEMMA StampFair ==
  ASSUME Regular(inventory), Fair(vol), NEW x \in Account, NEW fee \in Fee,
         NEW t \in Asset, NEW s \in AssetList, NEW p \in Price, StampAssets(x, t, s, p, fee)
  PROVE  Fair(vol') /\ (Len(s) > 1 \/ Excess(vol') = Excess(vol))
PROOF
  <1> DEFINE owner == inventory.owner[t]
  <1> DEFINE one == IF owner = x THEN 0 ELSE p
  <1> DEFINE n == Len(s)
  <1> DEFINE all == one * n
  <1> DEFINE V == Transfer(vol, x, owner, all)
  <1>1. owner \in Account
    BY DEF Regular, Owners, StampAssets
  <1>2. p \in Nat /\ IsFiniteSet(Holder) /\ Holder = Account /\ n \in Nat \ {0}
    BY LedgerAssumption DEF AssetList
  <1>3. /\ vol' = PayFees(V, x, fee)
        /\ HasFunds(vol, x, Fees(fee) + one) /\ HasFunds(vol, x, all)
    BY DEF StampAssets, Applied
  <1> HIDE DEF V, owner, n
  <1>4. one \in Nat /\ all \in Nat /\ (x = owner => all = 0) /\ (n = 1 => all = one)
    <2>1. CASE owner = x
      BY <1>2, <2>1
    <2>2. CASE owner # x
      BY <1>2, <2>2
    <2> QED
      BY <2>1, <2>2
  <1> HIDE DEF one, all
  <1>5. Fair(V) /\ Excess(V) = Excess(vol) /\ V.balance[x] = vol.balance[x] - all
    BY <1>1, <1>2, <1>3, <1>4, VOLTransferred DEF V
  <1>6. CASE n > 1
    BY <1>3, <1>5, <1>6, PaidInFull DEF n
  <1>7. CASE n = 1
    <2>1. vol.balance[x] \in Nat /\ Fees(fee) \in Nat
      BY <1>2, BooksFacts, FeeFacts DEF Fair
    <2>2. HasFunds(V, x, Fees(fee))
      BY <1>3, <1>4, <1>5, <1>7, <2>1 DEF HasFunds
    <2> QED
      BY <1>3, <1>5, <2>2, PaidInFull
  <1> QED
    BY <1>2, <1>6, <1>7

LEMMA StepFair ==
  ASSUME Next, Posted(inventory, time), Regular(inventory), Fair(vol)
  PROVE  Fair(vol') /\ (Excess(vol') = Excess(vol) \/ PutsCountWrong)
PROOF
  <1> DEFINE Good == Fair(vol') /\ Excess(vol') = Excess(vol)
  <1>1. IsFiniteSet(Holder) /\ Holder = Account /\ Miner \in Account /\ Price \subseteq Nat /\ Grant \in Nat
    BY LedgerAssumption
  <1>2. vol.prizePool \in Nat /\ vol.balance \in [Account -> Nat]
    BY <1>1, BooksFacts DEF Fair
  <1>3. ASSUME NEW x \in Account, NEW fee \in Fee, NEW J, Applied(x, fee, 0, J, vol) PROVE Good
    <2>1. vol' = PayFees(vol, x, fee) /\ HasFunds(vol, x, Fees(fee))
      BY <1>3, FeeFacts DEF Applied
    <2> QED
      BY <2>1, PaidInFull
  <1>4. ASSUME NEW x \in Account, NEW fee \in Fee, NEW y \in Account, NEW p \in Price,
               SendVOL(x, y, p, fee)
        PROVE  Good
    <2> DEFINE V == Transfer(vol, x, y, p)
    <2>1. vol' = PayFees(V, x, fee) /\ HasFunds(vol, x, Fees(fee) + p) /\ x # y
      BY <1>4 DEF SendVOL, Applied
    <2>2. p \in Nat /\ Fees(fee) \in Nat /\ vol.balance[x] \in Nat
      BY <1>1, <1>2, FeeFacts
    <2>3. HasFunds(vol, x, p)
      BY <2>1, <2>2 DEF HasFunds
    <2>4. Fair(V) /\ Excess(V) = Excess(vol) /\ V.balance[x] = vol.balance[x] - p
      BY <1>1, <2>1, <2>2, <2>3, VOLTransferred
    <2> HIDE DEF V
    <2>5. HasFunds(V, x, Fees(fee))
      BY <2>1, <2>2, <2>4 DEF HasFunds
    <2> QED
      BY <2>1, <2>4, <2>5, PaidInFull
  <1>5. ASSUME NEW x \in Account, NEW fee \in Fee, NEW y \in Account, RunScript(x, y, fee)
        PROVE  Good
    <2>1. ASSUME NEW p \in Price, p <= vol.prizePool,
                 Applied(x, fee, 0, inventory, AwardVOL(vol, y, p))
          PROVE  Good
      <3> DEFINE V == AwardVOL(vol, y, p)
      <3>1. vol' = PayFees(V, x, fee) /\ HasFunds(vol, x, Fees(fee) + 0)
        BY <2>1 DEF Applied
      <3>2. Fair(V) /\ Excess(V) = Excess(vol) /\ \A z \in Holder : vol.balance[z] <= V.balance[z]
        BY <1>1, <2>1, PrizeAwarded
      <3> HIDE DEF V
      <3>3. vol.balance[x] <= V.balance[x] /\ V.balance[x] \in Nat /\ vol.balance[x] \in Nat
            /\ Fees(fee) \in Nat
        BY <1>1, <1>2, <3>2, BooksFacts, FeeFacts DEF Fair
      <3>4. HasFunds(V, x, Fees(fee))
        BY <3>1, <3>3 DEF HasFunds
      <3> QED
        BY <3>1, <3>2, <3>4, PaidInFull
    <2> QED
      BY <1>3, <1>5, <2>1 DEF RunScript, Revoke, SetField
  <1>6. ASSUME NEW x \in Account, NEW fee \in Fee, IdentifyAccount(x, fee)
        PROVE  Fair(vol')
    <2> DEFINE grant == IF x \in identified THEN 0 ELSE Grant
    <2> DEFINE n == grant - Fees(fee)
    <2> DEFINE V == IF grant > 0 THEN CreateVOL(AddFunds(vol, x, n), grant) ELSE AddFunds(vol, x, n)
    <2>1. vol' = PayFees(V, x, fee) /\ grant >= Fees(fee)
      BY <1>6 DEF IdentifyAccount, Applied
    <2>2. grant \in Nat /\ n \in Nat
      BY <1>1, <2>1, FeeFacts
    <2> HIDE DEF grant, n
    <2>3. Fair(V)
      BY <1>1, <2>2, GrantFair
    <2> HIDE DEF V
    <2> QED
      BY <2>1, <2>3, PaidInFull
  <1>7. CASE EndBlock
    <2>1. vol' = RewardMiner(vol, Miner)
      BY <1>7 DEF EndBlock
    <2> QED
      BY <1>1, <2>1, MinerRewarded
  <1>8. CASE BeginBlock \/ \E x \in Client : ReadLog(x)
    BY <1>8 DEF BeginBlock, ReadLog
  <1>9. ASSUME NEW x \in Account, NEW fee \in Fee,
               \/ \E y \in Account, s \in AssetList : SendAssets(x, y, s, fee)
               \/ \E s \in AssetList, e \in 1..(MaxTime + 1) : MakeOffer(x, s, e, fee)
               \/ \E a \in Asset : CancelOffer(x, a, fee)
               \/ \E S \in SUBSET Asset : UpgradeAssets(x, S, fee)
               \/ \E n \in 1..MaxList : GetAssets(x, n, fee)
               \/ \E n \in 0..MaxList : ResetInventories(x, n, fee)
        PROVE  Good
    BY <1>3, <1>9 DEF SendAssets, MakeOffer, CancelOffer, UpgradeAssets, GetAssets, ResetInventories
  <1>10. ASSUME NEW x \in Account, NEW fee \in Fee, NEW o \in Offers(inventory), NEW p \in Price,
                BuyAssets(x, o, p, fee)
         PROVE  Good
    BY <1>10, SaleFair
  <1>11. ASSUME NEW x \in Account, NEW fee \in Fee, NEW t \in Asset, NEW s \in AssetList,
                NEW p \in Price, StampAssets(x, t, s, p, fee)
         PROVE  Fair(vol') /\ (Len(s) > 1 \/ Excess(vol') = Excess(vol))
    BY <1>11, StampFair
  <1> HIDE DEF Good
  <1>12. ASSUME NEW x \in Account, NEW fee \in Fee,
                \/ IdentifyAccount(x, fee)
                \/ \E t \in Asset, s \in AssetList, p \in Price : StampAssets(x, t, s, p, fee)
         PROVE  Fair(vol') /\ (Excess(vol') = Excess(vol) \/ PutsCountWrong)
    BY <1>6, <1>11, <1>12 DEF PutsCountWrong
  <1>13. Good \/ (Fair(vol') /\ (Excess(vol') = Excess(vol) \/ PutsCountWrong))
    BY <1>4, <1>5, <1>7, <1>8, <1>9, <1>10, <1>12 DEF Next
  <1> QED
    BY <1>13 DEF Good

(* What every history keeps of offers, owners and VOL. *)
Accounted == Posted(inventory, time) /\ Regular(inventory) /\ Fair(vol)

LEMMA AccountedAtFirst == Init => Accounted
PROOF
  <1> SUFFICES ASSUME Init PROVE Accounted
    OBVIOUS
  <1>1. /\ inventory.offer = <<>> /\ inventory.open = <<>> /\ Shaped(inventory) /\ time = 0
        /\ inventory.owner = [a \in Asset |-> Nobody]
    BY DEF Init, EmptyInventory, Shaped
  <1>2. Posted(inventory, time)
    BY <1>1 DEF Posted, Unsold, Offers
  <1>3. Regular(inventory)
    <2>1. ToSet(inventory.open) = {}
      BY <1>1 DEF ToSet
    <2> QED
      BY <1>1, <2>1 DEF Regular, Owners
  <1>4. Fair(vol)
    <2>1. /\ Balance \in [Holder -> Nat] /\ Balance \in [Holder -> Int] /\ IsFiniteSet(Holder)
          /\ RewardPool \in Nat /\ PrizePool \in Nat
      BY LedgerAssumption
    <2>2. Sum(Balance) \in Nat
      BY <2>1, SumBound
    <2> DEFINE all == Sum(Balance) + RewardPool + PrizePool
    <2>3. vol = [balance |-> Balance, rewardPool |-> RewardPool, prizePool |-> PrizePool,
                 payoutPool |-> 0, block |-> NoFees, total |-> all]
      BY DEF Init, Sum
    <2>4. all \in Int
      BY <2>1, <2>2
    <2>5. NoFees \in Paid /\ NoFees.profitShare <= NoFees.gratuity
      BY DEF NoFees, Paid
    <2> HIDE DEF all
    <2> QED
      BY <2>1, <2>3, <2>4, <2>5 DEF Fair, Books
  <1> QED
    BY <1>2, <1>3, <1>4 DEF Accounted

LEMMA StepAccounted ==
  ASSUME [Next]_vars, Accounted
  PROVE  Accounted' /\ (Excess(vol') = Excess(vol) \/ PutsCountWrong)
PROOF
  <1>1. CASE Next
    BY <1>1, StepPosted, StepRegular, StepFair DEF Accounted
  <1>2. CASE UNCHANGED vars
    BY <1>2 DEF vars, Accounted
  <1> QED
    BY <1>1, <1>2

(***************************************************************************)
(* The ledger's count of its VOL stays as right or wrong as it was,        *)
(* whatever the fees, taxes and shares, but for a grant and for several    *)
(* assets stamped at once.                                                 *)
(***************************************************************************)
THEOREM VOLStaysConserved == Spec => VOLIsConserved
PROOF
  <1>1. Accounted /\ [Next]_vars => Accounted'
    BY StepAccounted
  <1>2. ASSUME Accounted, [Next]_vars
        PROVE  \/ HeldVOL(vol') - vol'.total = HeldVOL(vol) - vol.total
               \/ \E x \in Account, fee \in Fee :
                    \/ IdentifyAccount(x, fee)
                    \/ \E t \in Asset, s \in AssetList, p \in Price :
                         Len(s) > 1 /\ StampAssets(x, t, s, p, fee)
    BY <1>2, StepAccounted DEF Excess, PutsCountWrong
  <1>3. Spec => []Accounted
    BY <1>1, AccountedAtFirst, PTL DEF Spec
  <1>4. []Accounted /\ [][Next]_vars => VOLIsConserved
    BY <1>2, PTL DEF VOLIsConserved
  <1> QED
    BY <1>3, <1>4, PTL DEF Spec

(***************************************************************************)
(* In the histories whose inventories stay sound every field of the ledger *)
(* has its kind: counts do not wrap around, no balance and no pool falls   *)
(* below zero, and the profit share of a block is a part of its gratuities.*)
(***************************************************************************)
THEOREM TypesInSoundHistories ==
  Init /\ [][Next /\ ~TakesFromOffer /\ ~NamesAnAssetTwice]_vars => []TypeOK
PROOF
  <1>1. Accounted /\ [Next /\ ~TakesFromOffer /\ ~NamesAnAssetTwice]_vars => Accounted'
    BY StepAccounted
  <1>2. Sound(inventory) /\ Accounted => TypeOK
    <2> SUFFICES ASSUME Sound(inventory), Accounted PROVE TypeOK
      OBVIOUS
    <2>1. vol \in Books /\ Holder = Account
      BY LedgerAssumption DEF Accounted, Fair
    <2> QED
      BY <2>1, BooksFacts DEF TypeOK, Sound, Accounted, Fair, Regular
  <1> QED
    BY <1>1, <1>2, AccountedAtFirst, SoundHistories, PTL

=============================================================================
