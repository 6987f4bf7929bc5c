SPECIFICATION Spec
CONSTANTS
  s1 = s1
  s2 = s2
  NoPatchset = NoPatchset
  Patchsets = {s1}
  Patches = {1, 2}
  Of <- TwoPatchesOfOne
  Permits = {"k1", "k2"}
  Filtered = {}
  Ignored = {2}
  Embargoed = {s1}
  Arriving = {s1}
  BatchLimit = 1
  ReleaseLimit = 2
  MaxRetries = 1
  Outcomes = {"ok", "retry"}
  Limit <- NoRerun
INVARIANTS
  TypeOK
  OneTaskPerPatchset
  OutcomeIsQuiet
  ReviewedIsReviewed
  OneMailPerReview
PROPERTIES
  ReviewIsKept
