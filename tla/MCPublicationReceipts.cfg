\* The call may end and the other writers stop: a state without successor is
\* the end of the run, not a deadlock.
CHECK_DEADLOCK FALSE
SPECIFICATION FairSpec
CONSTANTS
  Values <- MCValues
  Mixed = "mixed"
  InitialRemotes <- MCInitialRemotes
  Works <- MCWorks
  OtherTrees <- MCOtherTrees
  MaxOther = 3
  Retries = 2
  NoCommit = NoCommit
  NoContent = NoContent
INVARIANTS
  TypeOK
  ConfirmedIsPublished
  MetadataSwap
  PublishedIsRecorded
PROPERTIES
  MeetsContract
  Terminates
