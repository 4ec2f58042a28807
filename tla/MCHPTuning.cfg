CONSTANTS
  None = None
  s1 = s1
  s2 = s2
  a = a
  b = b
  Job = {s1, s2}
  Seeder = s1
  Params = {a, b}
  Risky = {b}
  Value = {1}
  InMemory = FALSE
  Trials <- MCTrials
  TopN = 1
  Startup = 1
  MaxRestarts = 1
  MaxWait = 2
  Nodes = 1
  MaxSubmit = 2
  MaxSync = 1
  MaxFault = 1
SPECIFICATION FairSpec
INVARIANTS
  EligibleMeansCompleted
  ValuesEarned
  SeedsOnce
  RestartContinues
PROPERTIES
  CopyAdvances
  WorkerEnds
CHECK_DEADLOCK FALSE
