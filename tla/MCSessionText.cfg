\* The output of one session: text, screen, log and observations.
CONSTANTS
  Capacity = 4
  TailBytes = 3
  MaxScrollback = 2
  OverflowChecks = TRUE
  MaxLogBytes = 4
  MaxLogEntries = 3
  SearchContext = 1
  MaxObservations = 2
  FirstSize <- MCFirstSize
  Sizes <- MCSizes
  Viewers <- MCViewers
  ViewSizes <- MCViewSizes
  Reads <- MCReads
  Lines <- MCLines
  Patterns = {"p"}
  Watched <- MCWatched
  MaxReads = 4
  MaxResizes = 1
  MaxTexts = 3
  MaxEvents = 4
SPECIFICATION Spec
INVARIANTS
  TextTypeOK
  RecentOutput
  ScreenIsPaper
  PanicHasCause
  LogsAreRecent
  LogQueriesExact
CHECK_DEADLOCK FALSE
