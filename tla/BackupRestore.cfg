SPECIFICATION Spec
CONSTANTS
  p = p
  o = o
  n = n
  c = c
  OldProfiles = {p, o}
  Archives <- SomeArchives
  NewProfiles = {c}
  None = None
  MaxWrites = 1
  MaxOps = 4
  MaxFaults = 2
INVARIANTS AcknowledgedIsKept OldOrNewOnDisk FailedRestoreRollsBack RegistryHasDatabases
CHECK_DEADLOCK FALSE
