SPECIFICATION Spec
CONSTANTS
  r1 = r1
  r2 = r2
  r3 = r3
  Requests = {r1, r2, r3}
  Products = {1, 2}
  Items <- Rush
  InitStock <- RushShelf
  AtOnce = 2
  TTL = 1
  MaxRestores = 2
  MaxTime = 2
CHECK_DEADLOCK FALSE
INVARIANTS OverbookingBounded RoomComesBack UnitsStand ReservationInv TypeOK
