------------------------------ MODULE Inventory ------------------------------
(***************************************************************************)
(* Who owns which asset, and what is on offer (Ledger_Inventory), as a     *)
(* value:                                                                  *)
(*                                                                         *)
(*   owner, position, offered   the fields of an asset: its owner, where   *)
(*            it is in the owner's inventory, the offer it is part of      *)
(*   changed  the assets whose type or fields have been changed            *)
(*   slot, count   the inventory of an account: inventory fields below the *)
(*            count are in use, those above keep what they last held       *)
(*   log      what an account's inventory log has told since its client    *)
(*            last read it                                                 *)
(*   offer    all offers ever made; open, the list of the open ones        *)
(*   awarded  how many assets have been made                               *)
(***************************************************************************)
EXTENDS Integers, FiniteSets, SequencesExt

CONSTANTS
  Account,     \* accounts of the ledger
  Asset,       \* IDs of assets: 0 .. n
  Nobody,      \* AccountID::NULL_INDEX
  NoOffer,     \* OfferID::NULL_INDEX
  Width,       \* counts are unsigned integers below Width
  MaxAssets    \* the entitlement MAX_ASSETS of every account

ASSUME InventoryAssumption ==
  /\ IsFiniteSet(Asset) /\ Asset = 0..(Cardinality(Asset) - 1)
  /\ Nobody \notin Account /\ Nobody \notin Asset
  /\ NoOffer \notin Nat
  /\ Width \in Nat /\ Cardinality(Asset) < Width
  /\ MaxAssets \in [Account -> Nat]

Index == 0..(Width - 1)

(* Asset::NULL_POSITION, -1 in unsigned integers. *)
NullPosition == Width - 1

NothingLogged == [additions |-> {}, deletions |-> {}]

EmptyInventory ==
  [owner |-> [a \in Asset |-> Nobody],
   position |-> [a \in Asset |-> 0],
   offered |-> [a \in Asset |-> NoOffer],
   changed |-> {},
   slot |-> [x \in Account |-> [i \in Index |-> Nobody]],
   count |-> [x \in Account |-> 0],
   log |-> [x \in Account |-> NothingLogged],
   offer |-> <<>>,
   open |-> <<>>,
   awarded |-> 0]

Offers(I) == DOMAIN I.offer

Owned(I, x) == { a \in Asset : I.owner[a] = x }

(* updateInventory: an entry of the inventory log, joined to the earlier ones. *)
Logged(I, x, additions, deletions) ==
  [I EXCEPT !.log[x].additions = @ \cup additions, !.log[x].deletions = @ \cup deletions]

(* awardAssets: the next assets, at the end of an inventory. *)
AwardAssets(I, x, quantity) ==
  LET new == { a \in Asset : I.awarded <= a /\ a < I.awarded + quantity }
      at(a) == I.count[x] + a - I.awarded
      given == [I EXCEPT
        !.owner = [a \in Asset |-> IF a \in new THEN x ELSE @[a]],
        !.position = [a \in Asset |-> IF a \in new THEN at(a) ELSE @[a]],
        !.slot[x] = [i \in Index |-> IF \E a \in new : at(a) = i THEN I.awarded + i - I.count[x] ELSE @[i]],
        !.count[x] = @ + quantity,
        !.awarded = @ + quantity]
  IN  Logged(given, x, new, {})

(* A tail that keeps the position it had. *)
FilledWithoutPosition(I, x, a) ==
  LET p == I.position[a]
  IN  IF p < I.count[x] THEN [I EXCEPT !.slot[x][p] = I.slot[x][I.count[x] - 1]] ELSE I

(* The last asset of the inventory takes the position of a. *)
Filled(I, x, a) ==
  LET p == I.position[a]
      tail == I.slot[x][I.count[x] - 1]
  IN  IF p < I.count[x]
      THEN [I EXCEPT !.slot[x][p] = tail, !.position[tail] = p]
      ELSE I

(* The asset a leaves the inventory of x, which becomes one shorter. *)
TakeOut(I, x, a) == [Filled(I, x, a) EXCEPT !.count[x] = (@ - 1) % Width]

(* One round of transferAssets. *)
MoveAsset(I, from, to, a) ==
  LET out == TakeOut(I, from, a)
      end == I.count[to]
  IN  [out EXCEPT !.owner[a] = to, !.offered[a] = NoOffer, !.position[a] = end,
                  !.slot[to][end] = a, !.count[to] = (@ + 1) % Width]

HasRoom(I, x, n) == I.count[x] + n <= MaxAssets[x]

(* transferAssets: without room at the receiver, nothing moves. *)
TransferAssets(I, from, to, s) ==
  LET after[i \in 0..Len(s)] == IF i = 0 THEN I ELSE MoveAsset(after[i - 1], from, to, s[i])
  IN  IF HasRoom(I, to, Len(s))
      THEN Logged(Logged(after[Len(s)], from, {}, ToSet(s)), to, ToSet(s), {})
      ELSE I

(* revokeAsset, of an asset that is owned. *)
RevokeAsset(I, a) ==
  LET x == I.owner[a]
  IN  Logged([TakeOut(I, x, a) EXCEPT !.owner[a] = Nobody, !.position[a] = NullPosition], x, {}, {a})

(* What the inventory of x lists. *)
Listed(I, x) == { I.slot[x][i] : i \in 0..(I.count[x] - 1) }

(* clearInventory, of every account: offers are not told. *)
ClearInventories(I) ==
  LET all == UNION { Listed(I, x) : x \in Account }
  IN  [I EXCEPT !.owner = [a \in Asset |-> IF a \in all THEN Nobody ELSE @[a]],
                !.position = [a \in Asset |-> IF a \in all THEN NullPosition ELSE @[a]],
                !.count = [x \in Account |-> 0],
                !.log = [x \in Account |-> [additions |-> @[x].additions,
                                            deletions |-> @[x].deletions \cup Listed(I, x)]]]

(* Assets get new values, or a new type, and their owner is told. *)
ChangeAssets(I, x, S) == Logged([I EXCEPT !.changed = @ \cup S], x, S, S)

(* offerAssets *)
OfferAssets(I, x, s, expiration) ==
  LET o == Len(I.offer) + 1
      new == [seller |-> x, buyer |-> Nobody, expiration |-> expiration, assets |-> s]
      offered == [I EXCEPT !.offered = [a \in Asset |-> IF a \in ToSet(s) THEN o ELSE @[a]],
                           !.offer = Append(@, new),
                           !.open = Append(@, o)]
  IN  Logged(offered, x, ToSet(s), ToSet(s))

(* The assets of some offers. *)
AssetsOf(I, os) == UNION { ToSet(I.offer[o].assets) : o \in os }

(* Offers that end without a word in the log. *)
ClearOffersSilently(I, os) ==
  [I EXCEPT !.offered = [a \in Asset |-> IF a \in AssetsOf(I, os) THEN NoOffer ELSE @[a]],
            !.offer = [o \in Offers(I) |-> IF o \in os THEN [@[o] EXCEPT !.seller = Nobody] ELSE @[o]]]

(* clearOffers, and the end of the offers that both of its callers add. *)
ClearOffers(I, os) ==
  LET told(x) == AssetsOf(I, { o \in os : I.offer[o].seller = x })
  IN  [I EXCEPT !.offered = [a \in Asset |-> IF a \in AssetsOf(I, os) THEN NoOffer ELSE @[a]],
                !.offer = [o \in Offers(I) |-> IF o \in os THEN [@[o] EXCEPT !.seller = Nobody] ELSE @[o]],
                !.log = [x \in Account |-> [additions |-> @[x].additions \cup told(x),
                                            deletions |-> @[x].deletions \cup told(x)]]]

(* Neither bought nor cancelled nor expired. *)
Unsold(I) == { o \in Offers(I) : I.offer[o].buyer = Nobody /\ I.offer[o].seller # Nobody }

(* expireOffers of the releases 0 and 1, but for its treatment of sold offers. *)
ExpireOffersInPlace(I, time) ==
  LET due == { o \in Unsold(I) \cap ToSet(I.open) : I.offer[o].expiration <= time }
      keep == Cardinality(ToSet(I.open) \ due)
  IN  [ClearOffers(I, due) EXCEPT !.open = SubSeq(@, 1, keep)]

(* expireOffers2: the open list is made anew from all offers. *)
ExpireOffers(I, time) ==
  LET due == { o \in Unsold(I) : I.offer[o].expiration <= time }
      kept[o \in 0..Len(I.offer)] ==
        CASE o = 0 -> <<>>
          [] o # 0 /\ o \in Unsold(I) \ due -> Append(kept[o - 1], o)
          [] OTHER -> kept[o - 1]
  IN  [ClearOffers(I, due) EXCEPT !.open = kept[Len(I.offer)]]

-----------------------------------------------------------------------------
(* What the inventory log handler answers the client of x, and what the    *)
(* client then knows: assets that are deleted go, those that were added    *)
(* and are still owned are described as they are now.                      *)
Described(I, S) == { [asset |-> a, offer |-> I.offered[a], changed |-> a \in I.changed] : a \in S }

View(I, x) == Described(I, Owned(I, x))

Replayed(I, x, known) ==
  { k \in known : k.asset \notin I.log[x].deletions } \cup
  Described(I, Owned(I, x) \cap I.log[x].additions)

-----------------------------------------------------------------------------
(* What a sound inventory is. *)

Offer == [seller : Account \cup {Nobody}, buyer : Account \cup {Nobody},
          expiration : Nat, assets : Seq(Asset)]

(* Every field has its kind; counts and positions fit their width. *)
Typed(I) ==
  /\ DOMAIN I = DOMAIN EmptyInventory
  /\ I.owner \in [Asset -> Account \cup {Nobody}]
  /\ I.position \in [Asset -> Index]
  /\ I.slot \in [Account -> [Index -> Asset \cup {Nobody}]]
  /\ I.count \in [Account -> Index]
  /\ I.offer \in Seq(Offer) /\ I.open \in Seq(Nat)
  /\ I.offered \in [Asset -> Offers(I) \cup {NoOffer}]
  /\ I.awarded \in 0..Cardinality(Asset)

(* The inventory of x lists what x owns, each asset once and at its position. *)
Exact(I, x) ==
  /\ I.count[x] = Cardinality(Owned(I, x))
  /\ \A a \in Owned(I, x) : I.position[a] < I.count[x] /\ I.slot[x][I.position[a]] = a

InventoriesExact(I) == \A x \in Account : Exact(I, x)

(* The assets that are still to be made belong to nobody. *)
OnlyAwardedOwned(I) == \A a \in Asset : I.awarded <= a => I.owner[a] = Nobody

(* What an unsold offer lists, its seller owns and does not offer elsewhere. *)
Backed(I, o) ==
  /\ IsInjective(I.offer[o].assets)
  /\ \A a \in ToSet(I.offer[o].assets) : I.owner[a] = I.offer[o].seller /\ I.offered[a] = o

OffersBacked(I) == \A o \in Unsold(I) : Backed(I, o)

(* An offer that an asset is part of lists it, and has all that it lists. *)
OfferedTogether(I) ==
  \A a \in Asset : I.offered[a] # NoOffer =>
    LET listed == ToSet(I.offer[I.offered[a]].assets)
    IN  a \in listed /\ \A b \in listed : I.offered[b] = I.offered[a]

Sound(I) ==
  /\ Typed(I)
  /\ InventoriesExact(I)
  /\ OnlyAwardedOwned(I)
  /\ OffersBacked(I)
  /\ OfferedTogether(I)

=============================================================================
