CONSTANTS
  None = None
  small = small
  middle = middle
  large = large
  Graph <- MCGraph
  Size <- MCSize
  Tables <- Fixed
  Job = {j1}
  Budgets = {4}
  MayVanish = FALSE
  MaxEnv = 1
  MaxCrash = 0
SPECIFICATION Spec
INVARIANT PlanWithinBudget
