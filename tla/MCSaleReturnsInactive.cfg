SPECIFICATION Spec
CONSTANTS
  soap = soap
  comb = comb
  shop = shop
  s1 = s1
  s2 = s2
  ana = ana
  ben = ben
  t1 = t1
  t2 = t2
  t3 = t3
  k1 = k1
  k2 = k2
  k3 = k3
  Products = {soap, comb}
  Warehouses <- MCWarehouses
  Sales = {s1, s2}
  NoSale = NoSale
  Shop <- MCShop
  SaleLines <- MCSaleLines
  Keys = {k1, k2, k3}
  BlankReason = BlankReason
  Nobody = Nobody
  Scale = 2
  Requests = {t1}
  Members = {ana, ben}
  Commands <- CrossingCommands
  Opening <- NoStock
  Active <- Everything
  Edited = {soap}
  Scripts <- Alone
PROPERTY
  InactiveGainsNothing
