SPECIFICATION EvidenceSpec
CONSTANTS
  \* SourceCache
  old = old
  fix = fix
  side = side
  main = main
  topic = topic
  NoCommit = NoCommit
  Commit = {old, fix, side}
  Past = {old, side}
  Ref = {main, topic}
  Main = main
  Ancestors <- MCAncestors
  \* JiraReplay
  status = status
  summary = summary
  new = new
  done = done
  empty = empty
  other = other
  Field = {status, summary}
  Rewound = {status}
  Status = status
  Value = {empty, new, done}
  Empty = empty
  New = new
  Closed = {done}
  Query <- MCQuery
  LastTime = 3
  Nothing = Nothing
  \* KojiReplay
  b1 = b1
  b2 = b2
  r9 = r9
  Build = {b1, b2}
  EVR <- MCEVR
  Branch = {r9}
  KojiTime = 2
  NoBuild = NoBuild
  NoDate = NoDate
  \* Boundary
  siteA = siteA
  siteB = siteB
  Model = Model
  Url = {siteA, siteB}
  Agent = {t1, t2}
  Library = {c1}
  Command <- MCCommand
  Recorded <- MCRecorded
  Holdings <- MCHoldings
  \* Scoring
  spec = spec
  patch = patch
  readme = readme
  resolution = resolution
  package = package
  urls = urls
  build = build
  right = right
  wrong = wrong
  alias = alias
  Path = {spec, patch, readme}
  Versioned = {spec, readme}
  Patches = {patch}
  SpecFile = spec
  Expectable = {spec, patch}
  Metric = {resolution, package, urls, build}
  Exact = {resolution, package}
  Lenient = {}
  UrlMetric = urls
  ResolutionMetric = resolution
  Resolves <- MCResolves
  Covers <- MCCovers
  Verdict = {right, wrong, alias}
  Absent = Absent
  NotThere = NotThere
  Filled <- MCFilled
  Answers <- MCAnswers
  Expected <- MCExpected
  Triaged <- MCTriaged
  LastChange = {{readme}}
  WorkLimit = 4
  AttemptLimit = 2
INVARIANTS
  EvidenceTypeOK
  NothingFromTheFuture
  AnswersFollowRefs
  CloneIsPreFix
  EvidenceDoesNotDrift
  ValidCaseStarts
  NoLateComment
  ValuesAreOfTheDate
  SearchIsOfTheDate
  BuildIsOfTheDate
  OnlyModelTraffic
  CapturedIsAnswered
  PassIsEarned
  GatesJudgeTheAgent
  RequiredKindsExist
  RegressionShows
PROPERTIES
  RecordedStays
CHECK_DEADLOCK FALSE
