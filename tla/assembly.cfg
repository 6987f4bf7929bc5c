SPECIFICATION Spec
CONSTANTS
  Msgs <- SeriesMsgs
  Mail <- SeriesMail
  Series <- SeriesSent
  MaxDuplicates = 2
  MaxCrashes = 1
INVARIANTS
  SeriesIsAssembled
  SeriesAreApart
  NoEarlyReview
  PartsAreCounted
PROPERTY
  ReviewedIsFrozen
CHECK_DEADLOCK FALSE
