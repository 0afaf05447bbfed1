SPECIFICATION FairSpec
CONSTANTS
  Versions = {v1, v2}
  None = None
  Partial = Partial
  Initially <- MCInitially
INVARIANTS
  NoStrandedPair
  Recoverable
PROPERTIES
  IsAtomic
  EventuallyRecovered
