CONSTANTS
  None = None
  small = small
  middle = middle
  large = large
  Graph <- MCGraph
  Size <- MCSize
  Tables <- Growing
  Job = {j1, j2}
  Budgets = {3, 5}
  MayVanish = TRUE
  MaxEnv = 1
  MaxCrash = 1
SPECIFICATION FairSpec
INVARIANTS
  SizesAligned
  PlanCovers
  ManifestBacked
  BudgetKeptInPeace
PROPERTY Settles
