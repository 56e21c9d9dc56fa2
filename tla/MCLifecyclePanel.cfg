SPECIFICATION Spec
CONSTANTS
  admin = admin
  student = student
  owner = owner
  SharedClient = shared
  Worker = worker
  NoMessage = NoMessage
  Numbers <- Students
  Owners = {}
  Clients <- SharedOnly
  Payload <- StudentPayload
  Registered <- AdminRegistered
  InitialAdmin <- TheAdmin
  Panels = {p1}
  PanelOps = {"add", "addself", "edit", "delete", "wipe"}
  Capacity = 1
  MaxMessages = 2
  MaxRequests = 3
  Restarts = TRUE
INVARIANTS NoInheritedHistory OnlyInvited
