CONSTANTS
  MaxN = 6
  MaxSize = 4
  MaxBudget = 10
  Inputs <- MCInputs
  Configs <- MCConfigs
  Peak = 16
  Start = 4
  Warmup = 3
  MinRate = 6
  StopPatience = 2
  SchedPatience = 0
  TopK = 2
  MaxEpochs = 5
  Losses = {1, 2, 3, 4}
  MaxLaunches = 2
  MaxKills = 1
SPECIFICATION TrainSpec
INVARIANTS
  Partition
  BudgetKept
  MatchesPlan
  EpochCovers
  SelectedIsBest
  StopsAfterReduction
PROPERTIES
  RateLaw
\* The last run ends, and so does a packing call of its own.
CHECK_DEADLOCK FALSE
