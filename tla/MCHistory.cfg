SPECIFICATION Spec
CONSTANTS
  Panels = {p}
  Trigger = 4
  Keep = 2
  Gain = 1
  Scores = {9}
  MaxMessages = 12
  MaxRequests = 3
  MaxMissed = 2
INVARIANTS RecentKept HistoryBounded NothingForgotten
