SPECIFICATION Spec
CONSTANTS
  Paths = {current, manifest}
  NoJournal = NoJournal
  Incomplete = Incomplete
  MaxBundles = 3
  MaxFaults = 2
INVARIANTS
  CleanWithoutJournal
  CommittedSurvives
  UndecidedIsRetained
  OldContentKept
