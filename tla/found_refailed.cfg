SPECIFICATION IntakeSpec
CONSTANTS
  g1 = g1
  g2 = g2
  Tracked <- MCTracked
  Earlier <- MCEarlier
  Latest <- MCLatest
  Missing <- MCMissing
  Odd <- MCOdd
  Archive <- MCArchive
  DownloadLimit = 1
  FreshOverlap = 2
  ShortOverlap = 1
  RawCap = 1
  Parsers = {p1}
  ParsedCap = 1
  BatchCap = 1
  MaxFaults = 1
  MaxBoots = 2
  Nobody = Nobody
  c1 = c1
  r1 = r1
  t1 = t1
  x1 = x1
  x2 = x2
  y1 = y1
  y2 = y2
  local = local
  remote = remote
  NoId = NoId
  Ids <- MCIds
  Kind <- MCKind
  Commits <- MCCommits
  Urls = {local, remote}
  Local = local
  Requests = {q1, q2}
  FetchCap = 1
  MaxSubmitCrashes = 1
  Branches = {b1}
  History = {"c0", "c1", "c2", "c3"}
  Parents <- MCParents
  Old = {"c0"}
  MaxTries = 2
  MaxPushes = 2
  MaxMonitorCrashes = 1
  MaxSaveErrors = 1
  NoCommit = NoCommit
PROPERTY ReviewedIsNotReset
CHECK_DEADLOCK FALSE
