\* All files of up to four of twelve kinds of lines, for three buttons.
CONSTANTS
  MaxPresets = 3
  Empty = ""
  Nil = nil
  Sanitize <- MCSanitize
  Texts <- MCTexts
  ValidURLs = {"u", "v", "l"}
  Shorter <- MCShorter
  Lines <- MCLines
  MaxLines = 4
SPECIFICATION Spec
INVARIANTS Documented Wellformed ButtonsNeverShift FingerprintTellsApart
  PressPlaysItsStation AnyEncodingPlays
\* A file stops growing at MaxLines.
CHECK_DEADLOCK FALSE
