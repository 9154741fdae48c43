SPECIFICATION Spec
CONSTANTS
  Account = {"x", "y"}
  Holder = {"x", "y"}
  Miner = "y"
  Client = {"x"}
  Asset = {0, 1}
  Nobody = Nobody
  NoOffer = NoOffer
  Width = 4
  MaxAssets <- MCMaxAssets
  FixedReward = 1
  TaxDivisor = 1
  Share <- MCShare
  Balance <- MCBalance
  RewardPool = 1
  PrizePool = 1
  Price = {1}
  Fee <- MCFee
  Grant = 1
  MaxList = 2
  MaxOffers = 2
  MaxTime = 2
  MaxApplied = 4
CHECK_DEADLOCK FALSE
CONSTRAINT SoundBooks
INVARIANTS
  TypeOK
  LogTellsInventory
  OpenOffersAreListed
PROPERTIES
  BooksStaySound
  VOLIsConserved
