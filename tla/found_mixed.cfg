SPECIFICATION Spec
CONSTANTS
  Msgs <- LonerMsgs
  Mail <- LonerMail
  Series <- LonerSent
  MaxDuplicates = 0
  MaxCrashes = 0
INVARIANT SeriesAreApart
CHECK_DEADLOCK FALSE
