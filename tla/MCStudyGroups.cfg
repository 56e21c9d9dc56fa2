SPECIFICATION Spec
CONSTANTS
  p1 = p1
  p2 = p2
  c1 = c1
  c2 = c2
  NoChat = NoChat
  People <- TwoPeople
  Chats <- TwoChats
  MaxUsers = 2
  MaxGroups = 2
  MaxMembers = 3
  MaxJobs = 4
SYMMETRY Interchangeable
INVARIANTS OneEntryEach
PROPERTIES SharedAIOwn
