CONSTANTS
  d = d  e = e  x = x  y = y  t = t  u = u
  Designs = {d, e}
  Algos = {x, y}
  Ids = {1}
  Tokens = {t, u}
  Archives <- MCArchives
  r = r
  Csvs = {r}
  NoHint = NoHint
  None = None
  Torn = Torn
  Absent = Absent
  Threads = 2
  CrossFs = TRUE
  MaxRuns = 3
  MaxHarm = 1
  Options <- MCOptions
  Workers = 1
  InFlight = 2
  Initial <- MCInitial
SPECIFICATION Spec
INVARIANTS CleanupKeepsData JobsDeliver
PROPERTIES ReplacesOnlyShared EverythingEnds
\* When MaxRuns audits, cleanups and jobs have ended, nothing is left to do.
CHECK_DEADLOCK FALSE
