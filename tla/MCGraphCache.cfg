CONSTANTS
  Graph = {g1, g2}
  Job = {j1, j2}
  Requests = {{g1, g2}}
  Pe = {pe1, pe2}
  Norms = {FALSE}
  LegacyIndex = FALSE
  ChunkSize = 2
  SaveEvery = 1
  MaxRunning = 2
  MaxVersion = 2
  MaxFault = 1
SPECIFICATION Spec
SYMMETRY Symmetry
INVARIANTS
  ServedFileExists
  ServedSizesExact
  ServedForConfig
