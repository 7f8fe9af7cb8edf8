SPECIFICATION RegistrySpec
CONSTANTS
  s1 = s1
  s2 = s2
  t1 = t1
  t2 = t2
  boot = boot
  Secret <- BothSecrets
  EnvKey <- OneKey
  Thread <- BothThreads
  Boot = boot
  MaxId = 2
CONSTRAINT OneKindOfSlip
SYMMETRY Symmetric
CHECK_DEADLOCK FALSE
INVARIANTS
  RegistryTypeOK
  UniqueIds
  UniqueSecrets
  WithdrawalSurvives
  FileFollows
