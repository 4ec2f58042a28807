CONSTANTS
  None = None
  a1 = a1
  a2 = a2
  b1 = b1
  c1 = c1
  Path <- MCPath
  Design <- MCDesign
  Csv <- MCCsv
  Setups <- MCSetups
  Shuffle <- MCShuffle
  Draw <- MCDraw
  WarmupSeed = 42
  Stages <- MCStages
  Job = {j1, j2}
SPECIFICATION Spec
INVARIANTS
  PayloadCurrent
  DesignsApart
  NothingLost
