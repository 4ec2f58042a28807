CONSTANTS
  Graph = {g1, g2}
  Algo = {a1, a2}
  Job = {j1, j2}
  AlgoSets = {{a1, a2}}
  Reader = {r1}
  CheckpointEvery = 1
  MaxCrash = 1
SPECIFICATION FairSpec
INVARIANTS
  SkipJustified
PROPERTIES
  MasksNeverLost
  LoadAfterRunSeesAll
  EventuallyMasked
  ServiceKept
