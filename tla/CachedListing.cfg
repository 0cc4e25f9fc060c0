SPECIFICATION FairSpec
CONSTANTS
  PageSize = 2
  Orders = {"appended", "updated"}
  MaxItems = 5
  MaxChanges = 2
INVARIANTS StaleOnlyWhenFull WalkIsComplete
PROPERTIES EventuallyListed
