\* Three segments, of which any may be absent or native.
SPECIFICATION Spec
CONSTANTS
  Segments = {domestic, us, crypto}
  Domestic = domestic
  Regions <- MCRegions
  Block <- MCBlock
  Supplements = {"chart"}
  Layouts <- MCLayouts
  MinimalLayouts <- MCMinimalLayouts
  None = None
INVARIANTS
  OneSurvivorSet
  EvidenceSurvives
  NoLostSurvivor
\* A bundle is finalized once.
CHECK_DEADLOCK FALSE
