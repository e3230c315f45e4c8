\* One account; builds at different times, and a device that answers
\* :8090/info in part or not at all.
CONSTANTS
  h1 = h1
  h2 = h2
  acc1 = acc1
  acc2 = acc2
  b1 = b1
  t1 = t1
  t2 = t2
  Presets = presets
  Empty = ""
  Torn = torn
  Nil = nil
  Handlers = {h1, h2}
  Accounts = {acc1}
  BaseURLs = {b1}
  Times = {t1, t2}
  Stations <- MCStations
  Configs <- MCSwapped
  Unencodable <- MCNone
  IdFields <- MCIdFields
  IdDefaults <- MCIdDefaults
  InfoAnswers <- MCInfo
  DiskFaults = FALSE
  FingerprintOf <- MCFingerprint
  MakeETag <- MCMakeETag
SPECIFICATION Spec
SYMMETRY Symmetry
INVARIANTS IInv LastFullIsCached RequiredFieldsPresent
PROPERTIES RebuildOnlyOnChange IdentityIsFinal
