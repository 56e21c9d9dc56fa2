SPECIFICATION Spec
CONSTANTS
  admin = admin
  student = student
  owner = owner
  SharedClient = shared
  Worker = worker
  NoMessage = NoMessage
  Numbers <- Students
  Owners = {}
  Clients <- SharedOnly
  Payload <- LeaverPayload
  Registered <- BothRegistered
  InitialAdmin <- TheAdmin
  Panels = {p1}
  PanelOps = {"delete"}
  Capacity = 1
  MaxMessages = 2
  MaxRequests = 1
  Restarts = FALSE
INVARIANTS NoOrphans
CHECK_DEADLOCK FALSE
