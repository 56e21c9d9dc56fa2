SPECIFICATION LimitsSpec
CONSTANTS
  u1 = u1
  g1 = g1
  Users <- OneUser
  Groups <- OneGroup
  UserLimit = 2
  UserWindow = 3
  GroupLimit = 2
  GroupWindow = 3
  CooldownWindow = 2
  MaxTime = 6
  MaxEvents = 6
  Restarts = TRUE
INVARIANTS RatesBounded
PROPERTIES OnlyFloodsDropped RevealsLast
