\* Two builds, three daemons at most, four faults.
CONSTANTS
  Procs = {p1, p2, p3}
  Versions = {v1, v2}
  Torn = torn
  Nil = nil
  Unknown = unknown
  MaxFaults = 4
SPECIFICATION RecoverySpec
INVARIANTS RecoveryIInv DeployedIsServed BackupIsNotRedirected
  NeverMistakenForSuccess
PROPERTY Recovers
