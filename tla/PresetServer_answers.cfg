\* Builds fail, and writes of last-full.xml fail.
CONSTANTS
  h1 = h1
  h2 = h2
  acc1 = acc1
  acc2 = acc2
  b1 = b1
  t1 = t1
  t2 = t2
  Presets = presets
  Empty = ""
  Torn = torn
  Nil = nil
  Handlers = {h1, h2}
  Accounts = {acc1}
  BaseURLs = {b1}
  Times = {t1}
  Stations <- MCStations
  Configs <- MCFewer
  Unencodable <- MCUnencodable
  IdFields <- MCIdFields
  IdDefaults <- MCIdDefaults
  InfoAnswers <- MCNone
  DiskFaults = TRUE
  FingerprintOf <- MCFingerprint
  MakeETag <- MCMakeETag
SPECIFICATION FairSpec
PROPERTIES EveryRequestAnswered
