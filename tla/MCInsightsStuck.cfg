SPECIFICATION Spec
CONSTANTS
  Paths = {current, manifest}
  NoJournal = NoJournal
  Incomplete = Incomplete
  MaxBundles = 1
  MaxFaults = 1
INVARIANTS
  PreparationRecovers
