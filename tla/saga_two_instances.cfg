SPECIFICATION Spec
CONSTANTS
  o1 = o1
  o2 = o2
  o3 = o3
  p1 = p1
  u1 = u1
  i1 = i1
  i2 = i2
  k1 = k1
  k2 = k2
  Orders = {o1}
  Products = {p1}
  Users = {u1}
  Instances = {i1, i2}
  Partitions = {k1}
  PartitionOf <- SamePartition
  UserOf <- SameUser
  Qty <- OneUnitEach
  Amount <- TwoPointsEach
  InitStock <- StockOf1
  InitBalance <- PointsFor2
  Retries = 1
  ProducerTries = 2
  Concurrency = 2
  Take = 2
  MaxLog = 1
  FaultPlans <- FourOfDatabaseOrRebalance
  Free = Free
  Leftover = Leftover
SYMMETRY SymmetricInstances
INVARIANTS OversoldOnlyByRestocking
PROPERTIES ImplementsLifecycle OnlyCreatedReopens
