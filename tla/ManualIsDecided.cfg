SPECIFICATION RegistrySpec
CONSTANTS
  s1 = s1
  s2 = s2
  t1 = t1
  t2 = t2
  boot = boot
  Secret <- BothSecrets
  EnvKey <- NoKey
  Thread <- OneThread
  Boot = boot
  MaxId = 2
CHECK_DEADLOCK FALSE
INVARIANT ManualIsDecided
