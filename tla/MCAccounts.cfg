SPECIFICATION FairSpec
CONSTANTS
  d1 = d1
  d2 = d2
  d3 = d3
  p1 = p1
  p2 = p2
  NoDevice = NoDevice
  Starter = starter
  Booter = booter
  Devices <- ThreeDevices
  Panels <- TwoPanels
  PanelOps = {"pair", "set", "unset", "remove", "disconnect"}
  PanelDuringBoot = FALSE
  RemovesAlone = TRUE
  Restarts = "quiet"
  LogoutFails = TRUE
INVARIANTS OneShared AgreeAtRest ServedOnce SharedOnlyIfWanted
PROPERTIES RequestsReturn BooksKept
