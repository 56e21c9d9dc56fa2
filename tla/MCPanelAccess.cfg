SPECIFICATION Spec
CONSTANTS
  e1 = e1
  e2 = e2
  r1 = r1
  r2 = r2
  Worker = worker
  NoEmail = NoEmail
  Emails <- TwoEmails
  Requests <- TwoRequests
  SessionTTL = 1
  ResetTTL = 1
  Cooldown = 1
  MaxTime = 2
  MaxPasswords = 3
  MaxTokens = 2
SYMMETRY Interchangeable
INVARIANTS SessionUnderPassword TokenUsedUp
PROPERTIES WipedUnlessProven
