SPECIFICATION TranscriptSpec
CONSTANTS
  Streams = {"planner", "publisher"}
  LineBreak = LineBreak
  Event = "event"
  ActivityLimit = 3
  Bodies = {0, 1, 2, 4}
  Far = 6
  MaxLog = 5
INVARIANTS TranscriptIsFaithful ActivityFills
