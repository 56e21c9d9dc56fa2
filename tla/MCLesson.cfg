SPECIFICATION Spec
CONSTANTS
  c1 = c1
  c2 = c2
  Clients <- BothClients
  Payload = {"text", "link", "voice", "pdf", "document"}
  NoMessage = NoMessage
  Capacity = 1
  MaxMessages = 2
  Ffmpeg = TRUE
  CloudKeys = {TRUE, FALSE}
SYMMETRY ClientSymmetry
INVARIANTS FilesFollowMessages ToldIsRemembered
