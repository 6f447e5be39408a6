CONSTANTS
  page = page
  mirror = mirror
  repo = repo
  issue = issue
  build = build
  archive = archive
  allowed = allowed
  safe = safe
  other = other
  private = private
  NoItem = NoItem
  Item = {page, mirror, repo}
  KindOf <- MCKindOf
  HostOf <- MCHostOf
  Mentioned = {mirror}
  Host = {allowed, safe, other, private}
  AllowedHosts = {allowed}
  SafeHosts = {safe, other}
  MaxIterations = 2
  MaxAutoHosts = 1
  OverwriteFlags = {TRUE, FALSE}
  MaxInvocations = 1
SPECIFICATION FairSpec
INVARIANTS TypeOK BlockedIsStuck
PROPERTIES FetchesAreAllowed RecordedIsStable EveryStepAdvances InvocationEnds
CHECK_DEADLOCK FALSE
