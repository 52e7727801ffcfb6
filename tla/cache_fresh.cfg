SPECIFICATION Spec
CONSTANTS
  r1 = r1
  r2 = r2
  r3 = r3
  Requests = {r1, r2, r3}
  Products = {1, 2}
  Wanted <- Readers
  TTL = 2
  Patience = 1
  MaxChanges <- Changes
  MaxTime = 4
CHECK_DEADLOCK FALSE
INVARIANTS PriceFreshWithinTtl
