SPECIFICATION Spec
CONSTANTS
  soap = soap
  comb = comb
  t1 = t1
  t2 = t2
  t3 = t3
  k1 = k1
  k2 = k2
  k3 = k3
  Products = {soap, comb}
  Warehouses <- MCWarehouses
  Keys = {k1, k2, k3}
  BlankKey = BlankKey
  Nobody = Nobody
  Requests = {t1, t2}
  Commands <- MCCommands
  Opening <- StockInOne
  OpeningRows <- RowInOne
  Opened = {soap, comb, 1, 2}
  Edited = {soap, 2}
  Scripts <- Twos
PROPERTY
  DuplicatesReplayed
