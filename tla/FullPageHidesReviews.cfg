SPECIFICATION Spec
CONSTANTS
  PageSize = 2
  Orders = {"appended"}
  MaxItems = 3
  MaxChanges = 0
INVARIANTS CachedIsCurrent
