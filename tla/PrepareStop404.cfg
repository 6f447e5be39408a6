CONSTANTS
  page = page
  mirror = mirror
  repo = repo
  issue = issue
  build = build
  archive = archive
  allowed = allowed
  safe = safe
  other = other
  private = private
  NoItem = NoItem
  Item = {page, repo}
  KindOf <- MCKindOf
  HostOf <- MCHostOf
  Mentioned = {}
  Host = {allowed, safe, other, private}
  AllowedHosts = {allowed}
  SafeHosts = {safe, other}
  MaxIterations = 3
  MaxAutoHosts = 1
  OverwriteFlags = {FALSE}
  MaxInvocations = 1
SPECIFICATION Spec
INVARIANTS StoppedOnlyOnMissing
CHECK_DEADLOCK FALSE
