SPECIFICATION Spec
CONSTANTS
  c1 = c1
  c2 = c2
  o1 = o1
  r1 = r1
  NoId = NoId
  Cred <- Credentials
  Operator <- Operators
  Request <- Requests
  Priority <- Priorities
  MaxFailures = 2
SYMMETRY Symmetry
INVARIANTS
  TypeOK
  ReasonOnRecord
  ThresholdEnforced
PROPERTIES
  OnlyOperatorLifts
  ImplementsLifecycle
