SPECIFICATION MCSafety
CONSTANTS
  c1 = c1
  c2 = c2
  r1 = r1
  r2 = r2
  o1 = o1
  s1 = s1
  NoId = NoId
  Cred <- BothCredentials
  Request <- OneRequest
  Operator <- None
  Session <- Sessions
  SessionOf <- OneInSession
  Allowed <- NoGroup
  Opus <- OneRequest
  Paid <- PaidOnes
  Mcp <- None
  Mode = {"priority"}
  Priority = {0}
  MaxFailures = 1
  MaxConcurrency = 1
  Limit = {1}
  RetriesPerCredential = 1
  MaxTotalRetries = 2
INVARIANTS
  OpusOnPaid
