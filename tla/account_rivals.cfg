SPECIFICATION Spec
CONSTANTS
  ann = ann
  tea = tea
  s1 = s1
  s2 = s2
  a1 = a1
  a2 = a2
  a3 = a3
  d1 = d1
  d2 = d2
  Users = {ann}
  Products = {tea}
  SignUps = {s1, s2}
  Adds = {a1, a2, a3}
  Removes = {d1, d2}
  UserOf <- Callers
  ProductOf <- Wanted
  Quantity <- Units
  InitStock <- Shelf
CHECK_DEADLOCK FALSE
INVARIANTS WalletAfterCart AccountComplete CartLinesAgree
