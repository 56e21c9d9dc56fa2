SPECIFICATION FairStallSpec
CONSTANTS
  admin = admin
  student = student
  owner = owner
  SharedClient = shared
  Worker = worker
  NoMessage = NoMessage
  Numbers <- Everyone
  Owners <- TheOwner
  Clients <- SharedAndOwner
  Payload <- ThreePayload
  Registered <- BothRegistered
  InitialAdmin <- TheAdmin
  Panels = {}
  PanelOps = {}
  Capacity = 2
  MaxMessages = 2
  MaxRequests = 0
  Restarts = TRUE
INVARIANTS NeitherLostNorTwice NoOrphans WhitelistedHasRow
PROPERTIES FifoPerClient ErasedStaysOut EverySettled
