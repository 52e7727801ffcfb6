CONSTANTS
  Clients = {c1}
  Users = {u1, u2}
  Sends <- MCSends
  TokenLife = 1
  MaxNow = 2
  NoToken = NoToken
SPECIFICATION Spec
INVARIANTS ServedInSession AnswersTruthful
PROPERTY EveryRequestAnsweredButOrders
