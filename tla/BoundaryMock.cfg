SPECIFICATION BoundarySpec
CONSTANTS
  site = site
  Model = Model
  Url = {site}
  Agent = {t1}
  Library = {c1}
  Command <- MCCommand
  Recorded <- MCRecorded
  Holdings <- MCHoldings
INVARIANT OnlyModelTrafficAtAll
CHECK_DEADLOCK FALSE
