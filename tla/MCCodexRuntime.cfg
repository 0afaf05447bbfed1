SPECIFICATION FairSpec
CONSTANTS
  Calls = {c1, c2}
  None = None
  Corrupt = Corrupt
  MaxRotations = 2
INVARIANTS
  PublishedIsStored
  LossIsReported
  OneProcess
PROPERTIES
  Quiesces
\* The run ends.
CHECK_DEADLOCK FALSE
