SPECIFICATION StageSpec
CONSTANTS
  Files = {page, index, history}
  Metadata = {ledger}
  None = None
INVARIANTS
  Restored
  CommittedIsKept
  ReturnedIsCommitted
PROPERTIES
  NoLateWrite
\* The stage ends.
CHECK_DEADLOCK FALSE
