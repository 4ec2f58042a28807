CONSTANTS
  Graph = {g1, g2, g3}
  Job = {j1}
  Requests = {{g1}, {g1, g2}, {g1, g2, g3}}
  Pe = {pe1, pe2}
  Norms = {FALSE}
  LegacyIndex = TRUE
  ChunkSize = 1
  SaveEvery = 1
  MaxRunning = 1
  MaxVersion = 1
  MaxFault = 2
SPECIFICATION Spec
INVARIANT LossBounded
PROPERTIES
  IndexNeverForgets
  ReturnIsIndexed
