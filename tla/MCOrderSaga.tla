---------------------------- MODULE MCOrderSaga ----------------------------
(* Instances of OrderSaga for TLC. *)
EXTENDS OrderSaga, TLC

CONSTANTS o1, o2, o3, p1, u1, i1, i2, k1, k2

\* Each order takes one unit of p1 and costs 2 points, or one of them costs
\* more than the wallet holds and the other less than half of it; one
\* partition unless a run gives every order its own.
OneUnitEach == [o \in Orders |-> [p \in Products |-> 1]]
TwoPointsEach == [o \in Orders |-> 2]
CheapAndDear == [o \in Orders |-> IF o = o1 THEN 1 ELSE 4]
SameUser == [o \in Orders |-> u1]
SamePartition == [o \in Orders |-> k1]
PartitionPerOrder == [o \in Orders |-> IF o = o1 THEN k1 ELSE k2]
StockOf1 == [p \in Products |-> 1]
StockOf2 == [p \in Products |-> 2]
PointsFor0 == [u \in Users |-> 1]
PointsFor1 == [u \in Users |-> 3]
PointsFor2 == [u \in Users |-> 4]

\* Plans of faults: none; four of the database, or one rebalance; one of any
\* kind, or two among those that only disturb the delivery of messages.
NoPlans == {}
Twice(k, j) == [f \in FaultKinds |-> (IF f = k THEN 1 ELSE 0) + (IF f = j THEN 1 ELSE 0)]
FourOfDatabaseOrRebalance ==
  {[NoFaults EXCEPT !["db"] = 4], [NoFaults EXCEPT !["rebalance"] = 1]}
OneOrTwoOfDelivery ==
  {[NoFaults EXCEPT ![k] = 1] : k \in FaultKinds}
    \cup {Twice(k, j) : k, j \in {"kafka", "lease", "rebalance"}}

\* Instances are interchangeable.
SymmetricInstances == Permutations(Instances)
=============================================================================
