SPECIFICATION Spec
CONSTANTS
  s1 = s1
  s2 = s2
  NoPatchset = NoPatchset
  Patchsets = {s1}
  Patches = {1}
  Of <- OneOfOne
  Permits = {"k1", "k2"}
  Filtered = {}
  Ignored = {}
  Embargoed = {s1}
  Arriving = {}
  BatchLimit = 1
  ReleaseLimit = 2
  MaxRetries = 1
  Outcomes = {"ok", "hard", "missing", "noai"}
  Limit <- RerunCrash
INVARIANTS
  InReviewIsOwned
  RunningRowIsOwned
  NoMailUnderEmbargo
