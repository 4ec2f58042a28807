CONSTANTS
  Graph = {g1}
  Job = {j1, j2}
  Requests = {{g1}}
  Pe = {pe1}
  Norms = {FALSE, TRUE}
  LegacyIndex = FALSE
  ChunkSize = 1
  SaveEvery = 1
  MaxRunning = 1
  MaxVersion = 1
  MaxFault = 0
SPECIFICATION Spec
INVARIANT ServedWeighted
