SPECIFICATION Spec
CONSTANTS
  Segments = {kr, us, crypto}
  None = None
INVARIANTS
  AnnouncedIsPublished
  MessageIsComplete
  GreenIsComplete
  NothingSilent
  PublishedIsDeployed
\* A run ends.
CHECK_DEADLOCK FALSE
