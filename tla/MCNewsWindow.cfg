\* Two runs that may overlap, two segments that share a fetch, one document
\* revision, with an exact timestamp (length 1) or known by date only (2, longer
\* than the rest of a run); times keep the code's order.  The document is of
\* time 0, so that a run can forget it and one behind it still reach it.
SPECIFICATION NewsSpec
CONSTANTS
  Recipients = {us, crypto}
  Documents = {d1}
  Runs = {r1, r2}
  Never = Never
  Bootstrap = 1
  Overlap = 1
  Horizon = 2
  Lengths = {1, 2}
  Delay = 1
  MaxRevisions = 2
  Duration = 1
  MaxTime = 4
  Starts = {0}
SYMMETRY Symmetry
INVARIANTS
  NoSilentLoss
PROPERTIES
  CursorMonotonic
  NoRedelivery
\* The system may stop: no run need be started.
CHECK_DEADLOCK FALSE
