SPECIFICATION FairSpec
CONSTANTS
  None = None
  Heights = {4, 9, 12, 14, 19}
  DetailRows = 2
  Times = {1, 2}
  HistoryLimit = 2
  ActivityLimit = 3
  MaxReleases = 3
  Far = 3
  MaxScroll = 1
INVARIANTS FrameFits HistoryIsLatest SummaryIsTrue
PROPERTIES OpenStays QuitEnds
CHECK_DEADLOCK FALSE
