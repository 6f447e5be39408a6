CONSTANTS
  page = page
  mirror = mirror
  repo = repo
  issue = issue
  build = build
  archive = archive
  allowed = allowed
  safe = safe
  other = other
  private = private
  NoItem = NoItem
  Item = {repo, build}
  KindOf <- MCKindOf
  HostOf <- MCHostOf
  Mentioned = {repo}
  Host = {allowed, safe, other, private}
  AllowedHosts = {allowed}
  SafeHosts = {safe, other}
  MaxIterations = 2
  MaxAutoHosts = 1
  OverwriteFlags = {FALSE}
  MaxInvocations = 1
SPECIFICATION Spec
INVARIANTS SucceededMissesNothing
CHECK_DEADLOCK FALSE
