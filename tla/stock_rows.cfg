SPECIFICATION FairSpec
CONSTANTS
  d1 = d1
  d2 = d2
  r1 = r1
  Products = {1, 2}
  Deducts = {d1, d2}
  Restores = {r1}
  Qty <- Orders
  InitStock <- Shelf
  NoOne = NoOne
CHECK_DEADLOCK FALSE
INVARIANTS StockAgrees StockInv NoWaitCycle
PROPERTIES EveryTransactionEnds ImplementsAtomicStock
