SPECIFICATION MCFair
CONSTANTS
  c1 = c1
  c2 = c2
  r1 = r1
  r2 = r2
  o1 = o1
  s1 = s1
  NoId = NoId
  Cred <- OneCredential
  Request <- BothRequests
  Operator <- Operators
  Session <- Sessions
  SessionOf <- OneInSession
  Allowed <- NoGroup
  Opus <- None
  Paid <- None
  Mcp <- ToolCalls
  Mode = {"priority"}
  Priority = {0}
  MaxFailures = 1
  MaxConcurrency = 1
  Limit = {1}
  RetriesPerCredential = 2
  MaxTotalRetries = 2
PROPERTIES
  Answered
  ImplementsPool
