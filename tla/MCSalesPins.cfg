SPECIFICATION FairSpec
CONSTANTS
  ana = ana
  ben = ben
  shop = shop
  t1 = t1
  t2 = t2
  t3 = t3
  k1 = k1
  k2 = k2
  k3 = k3
  right = right
  wrong = wrong
  Products <- MCProducts
  Warehouses <- MCWarehouses
  Members <- MCMembers
  Admins <- MCAdmins
  Pins <- MCPins
  Keys = {k1, k2, k3}
  Whole = 10
  PinLimit = 2
  PinLock = 1
  Listed = Listed
  Nobody = Nobody
  NoSale = NoSale
  Org = Org
  OpeningPins <- MCPinsBy
  OpeningRate = 1
  OpeningTags <- MCPrices
  Opening <- OneOrTwo
  OpeningRows <- MCRows
  Requests = {t1, t2, t3}
  Commands <- Guesses
  Tags = {}
  Rates = {1}
  Opened <- MCOpened
  Updated = {}
  Changing = {ana}
  Horizon = 1
INVARIANT
  GuessesBounded
PROPERTIES
  EverySaleAnswered
