SPECIFICATION ReviewerSpec
CONSTANTS
  InputSize = 4
  PipeSize = 1
  OutputSize = 3
  MaxOutput = 1
  StatusCap = 2
  Caps = {1, 2}
  Chunk = 1
  PreviewMax = 1
  FileMax = 2
  Children = {{"filter"}, {"signal", "errors"}, {"helper", "stubborn", "errors"}, {"stubborn", "quiet", "flood", "signal"}}
INVARIANTS NobodyLeftBehind InputDelivered OutputCaptured CutIsNoted ReviewIsEarned GoodReviewIsKept
PROPERTIES DeadlineEnds FilterEnds
CHECK_DEADLOCK FALSE
