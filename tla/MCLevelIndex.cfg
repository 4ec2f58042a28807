CONSTANTS
  f1 = f1  f2 = f2
  MaxPathDepth = 1
  Cutoff = 2
  Target = 3
  MinK = 2
  MaxK = 4
  LabelBits = 3
  Runs = {r1, r2}
  Catalogue <- MCCatalogue
  CheckpointEvery = 1
  Unread = Unread
  MaxStarts = 4
  MaxCrashes = 2
SPECIFICATION Spec
INVARIANTS
  LevelsRight
  FeaturesRight
  ReductionsSound
PROPERTIES
  ForgetsOnlyForCause
\* The bound on starts is used up and no file has to appear.
CHECK_DEADLOCK FALSE
