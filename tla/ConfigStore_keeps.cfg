\* A disk that fails and recovers, any crash.
CONSTANTS
  Absent = absent
  Unreadable = unreadable
  Nil = nil
  Contents <- MCContents
  EmptyFile <- MCEmptyFile
  Editions <- MCEditions
  Pushes <- MCPushes
  Configs <- MCConfigs
  Cut <- MCCut
  Parse <- MCParse
  FingerprintOf <- MCFingerprint
  WriteFaults = TRUE
  PowerFaults = TRUE
SPECIFICATION FairSpec
INVARIANTS IInv BackedUp
PROPERTIES OnlyTheStickChangesStations StickSettles StickIsServed ImplementsKeeper
