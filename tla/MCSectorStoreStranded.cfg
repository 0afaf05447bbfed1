SPECIFICATION Spec
CONSTANTS
  Versions = {v1, v2}
  None = None
  Partial = Partial
  Initially <- FirstPublication
INVARIANTS
  NoStrandedPair
