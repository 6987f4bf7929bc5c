SPECIFICATION FairSpec
CONSTANTS
  s1 = s1
  s2 = s2
  NoPatchset = NoPatchset
  Patchsets = {s1}
  Patches = {1, 2}
  Of <- TwoPatchesOfOne
  Permits = {"k1"}
  Filtered = {}
  Ignored = {}
  Embargoed = {s1}
  Arriving = {}
  BatchLimit = 1
  ReleaseLimit = 2
  MaxRetries = 0
  Outcomes = {"ok"}
  Limit <- Calm
PROPERTIES
  EmbargoedIsMailed
