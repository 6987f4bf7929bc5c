SPECIFICATION Spec
CONSTANTS
  s1 = s1
  s2 = s2
  NoPatchset = NoPatchset
  Patchsets = {s1}
  Patches = {1}
  Of <- OneOfOne
  Permits = {"k1"}
  Filtered = {}
  Ignored = {}
  Embargoed = {}
  Arriving = {}
  BatchLimit = 1
  ReleaseLimit = 2
  MaxRetries = 0
  Outcomes = {"ok"}
  Limit <- CancelOnly
PROPERTIES
  CancelIsKept
