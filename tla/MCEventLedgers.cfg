\* Two runs that may overlap; days are scaled down, in the code's order.
SPECIFICATION Spec
CONSTANTS
  Segments = {"us", "crypto"}
  Stories <- MCStories
  Market <- MCMarket
  Events <- MCEvents
  StoryOf <- MCStoryOf
  Facts <- MCFacts
  Closed = 2
  Runs = {r1, r2}
  None = None
  Retention = 2
  ClosedFor = 2
  ArchiveAfter = 3
  MaxActive = 1
  MaxFollowUps = 1
  Duration = 1
  MaxTime = 3
SYMMETRY Symmetry
PROPERTIES
  NewsIsNew
  StoriesGoForward
\* The system may stop: no run need be started.
CHECK_DEADLOCK FALSE
