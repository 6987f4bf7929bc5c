SPECIFICATION FairSpec
CONSTANTS
  s1 = s1
  s2 = s2
  NoPatchset = NoPatchset
  Patchsets = {s1, s2}
  Patches = {1, 2}
  Of <- OneOfEach
  Permits = {"k1"}
  Filtered = {}
  Ignored = {}
  Embargoed = {s2}
  Arriving = {}
  BatchLimit = 1
  ReleaseLimit = 2
  MaxRetries = 0
  Outcomes = {"ok", "silent", "hard"}
  Limit <- LiveLimit
PROPERTIES
  EverythingSettles
  ReviewIsMailed
  EmbargoedIsMailed
