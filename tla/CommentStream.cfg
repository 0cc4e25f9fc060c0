SPECIFICATION FairSpec
CONSTANTS
  PageSize = 2
  MaxComments = 4
  MaxEdits = 1
INVARIANTS NothingSkipped
PROPERTIES EventuallyDecided
