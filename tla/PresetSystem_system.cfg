\* The daemon and the speaker.
CONSTANTS
  Absent = absent
  Unreadable = unreadable
  Nil = nil
  Presets = presets
  Torn = torn
  Empty = ""
  Contents <- MCContents
  EmptyFile <- MCEmptyFile
  Editions <- MCEditions
  Pushes <- MCNone
  Parse <- MCParse
  Cut <- MCCut
  WriteFaults = FALSE
  PowerFaults = FALSE
  Handlers = {h1}
  Accounts = {acc1}
  Stations <- MCStations
  Configs <- MCConfigs
  Unencodable <- MCUnencodable
  BaseURLs = {b1}
  Times = {t1}
  IdFields <- MCIdFields
  IdDefaults <- MCIdDefaults
  InfoAnswers <- MCNone
  DiskFaults = FALSE
  FingerprintOf <- MCFingerprint
  MakeETag <- MCMakeETag
  Buttons <- MCButtons
SPECIFICATION FairSpec
INVARIANT IInv
PROPERTIES NeverWiped SpeakerConverges
