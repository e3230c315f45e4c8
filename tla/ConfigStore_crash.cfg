\* A crash in the middle of a cache write.
CONSTANTS
  Absent = absent
  Unreadable = unreadable
  Nil = nil
  Contents <- MCContents
  EmptyFile <- MCEmptyFile
  Editions <- MCEditions
  Pushes <- MCPushes
  Configs <- MCConfigs
  Cut <- MCCut
  Parse <- MCParse
  FingerprintOf <- MCFingerprint
  WriteFaults = FALSE
  PowerFaults = FALSE
SPECIFICATION Spec
INVARIANTS CacheStaysUsable
