\* Three pushes and three retries, as in the code; the budget is smaller than in
\* the code, and than what the messages of a run may ask for.
SPECIFICATION Spec
CONSTANTS
  Attempts = 3
  MaxOthers = 2
  Messages = {"briefing", "generate", "publish", "notify"}
  MaxRetries = 3
  Budget = 3
  Idle = Idle
  AlertAttempts = 2
INVARIANTS
  AnnouncedIsOnMain
  OnceOnMain
  FailureIsCaused
  NoNeedlessCopy
  AlertIsTried
\* A run ends.
CHECK_DEADLOCK FALSE
