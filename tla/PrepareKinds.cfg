CONSTANTS
  page = page
  mirror = mirror
  repo = repo
  issue = issue
  build = build
  archive = archive
  allowed = allowed
  safe = safe
  other = other
  private = private
  NoItem = NoItem
  Item = {repo, archive, issue, build}
  KindOf <- MCKindOf
  HostOf <- MCHostOf
  Mentioned = {}
  Host = {allowed, safe, other, private}
  AllowedHosts = {allowed}
  SafeHosts = {safe, other}
  MaxIterations = 2
  MaxAutoHosts = 1
  OverwriteFlags = {FALSE}
  MaxInvocations = 2
SPECIFICATION Spec
INVARIANTS SucceededIsReplayable IterationsMakeProgress
PROPERTIES ContractKept StopIsExplained
CHECK_DEADLOCK FALSE
