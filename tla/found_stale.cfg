SPECIFICATION WorkbenchSpec
CONSTANTS
  mails = mails
  commits = commits
  local = local
  tagged = tagged
  short = short
  Series = {mails, commits, local, tagged, short}
  Ids <- MCIds
  Commits = {"base", "h1", "h2", "master", "p1", "p2"}
  Candidates <- MCCandidates
  Names = {"net"}
  Tip <- MCTip
  UrlName <- MCUrlName
  Local <- MCLocal
  Here = {"master"}
  Short = {"b"}
  Origin = {"base"}
  Known = {"HEAD"}
  Foreign <- MCForeign
  Main = "linux"
  Pooled = {local}
  MaxCheckoutCrashes = 1
  NoSeries = NoSeries
  NoUrl = NoUrl
  NoCheckout = NoCheckout
  Inputs <- MCInputs
  MaxTurns = 2
  m1 = m1
  m2 = m2
  Calls = {m1, m2}
  Key <- MCKey
  Providers = {"stream", "openai", "gemini", "claude", "vertex", "bedrock", "command"}
  Cached = TRUE
  MaxParts = 2
  MaxPieces = 3
  MaxRounds = 3
  Invalidated <- MCInvalidated
  Lifetime = 1
  Readers = {q1, q2}
  Triagers = {u1, u2}
  MaxUpdates = 2
  NoTask = NoTask
  Servers = {s1, s2}
  Watchers = {w1, w2}
  Shown = 1
  Patience = 1
  Patches = {"p1", "p2"}
  Settings = {"none", "dry", "live"}
  GhostAge = 1
  MaxCrashes = 2
  MaxDbErrors = 1
PROPERTY StaleIsPruned
CHECK_DEADLOCK FALSE
