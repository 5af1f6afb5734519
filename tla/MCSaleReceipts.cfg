SPECIFICATION ReceiptSpec
CONSTANTS
  soap = soap
  comb = comb
  shop = shop
  s1 = s1
  s2 = s2
  ana = ana
  t1 = t1
  t2 = t2
  t3 = t3
  r1 = r1
  r2 = r2
  k1 = k1
  k2 = k2
  k3 = k3
  Products = {soap, comb}
  Warehouses <- MCWarehouses
  Sales = {s1, s2}
  NoSale = NoSale
  Shop <- MCShop
  SaleLines <- MCSaleLines
  Keys = {k1, k2, k3}
  BlankReason = BlankReason
  Scale = 2
  Requests = {t1, t2}
  Readers = {r1, r2}
  Members = {ana}
  Commands <- MCCommands
  Opening <- NoStock
INVARIANTS
  ReceiptTrue
PROPERTY
  ReceiptsAdvance
