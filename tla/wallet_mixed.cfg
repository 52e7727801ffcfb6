SPECIFICATION FairSpec
CONSTANTS
  c1 = c1
  c2 = c2
  d1 = d1
  d2 = d2
  Charges = {c1, c2}
  Payments = {d1, d2}
  Amount <- Points
  Halves = {c1}
  InitPoint = 4
  NoOne = NoOne
CHECK_DEADLOCK FALSE
INVARIANTS LedgerAgrees NeverOverdrawn ConflictHasWinner WalletInv
PROPERTIES EveryRequestEnds ImplementsAtomicWallet
