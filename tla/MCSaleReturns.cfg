SPECIFICATION FairSpec
CONSTANTS
  soap = soap
  comb = comb
  shop = shop
  s1 = s1
  s2 = s2
  ana = ana
  ben = ben
  t1 = t1
  t2 = t2
  t3 = t3
  k1 = k1
  k2 = k2
  k3 = k3
  Products = {soap, comb}
  Warehouses <- MCWarehouses
  Sales = {s1, s2}
  NoSale = NoSale
  Shop <- MCShop
  SaleLines <- MCSaleLines
  Keys = {k1, k2, k3}
  BlankReason = BlankReason
  Nobody = Nobody
  Scale = 2
  Requests = {t1, t2, t3}
  Members = {ana, ben}
  Commands <- AllCommands
  Opening <- OneComb
  Active <- Everything
  Edited = {soap}
  Scripts <- Threes
INVARIANTS
  TypeOK
  NeverOverReturned
  VoidStandsAlone
  ReturnedOnce
  CreditChain
  ReturnsDurable
  RefundsWithinRounding
PROPERTIES
  ImplementsReturnLedger
  RepeatsReplayed
  EveryReturnAnswered
