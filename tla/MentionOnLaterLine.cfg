SPECIFICATION CommentsSpec
CONSTANTS
  alice = alice
  mallory = mallory
  nobody = nobody
  Users = {alice, mallory}
  Nobody = nobody
  Ttl = 2
  MaxTime = 5
  MaxChanges = 2
  a = a
  q = q
  s = s
  qs = qs
  tail = tail
  unknown = unknown
  Plain = {a}
  Quoted = {q, qs}
  Spaced = {s, qs}
  Rest = tail
  Unknown = unknown
  Kinds = {"edit", "add", "delete", "bare", "baredelete"}
  MaxFiles = 2
  MaxBudget = 12
  MaxContent = 2
  ContextCaps <- MCContextCaps
  SizeMax = 64
  Chars <- MCChars
  HandleChars <- MCHandleChars
  At = "@"
  Lower <- MCLower
  MaxHandle = 2
  Comments <- MCComments
  Handles <- MCHandles
  MaxPieces = 3
  Posts <- MCPosts
  Contents <- MCContents
  ContextFile <- MCContextFile
  Entries <- MCEntries
  MaxEntries = 1
  MaxContextFiles = 2
  minus = minus
  junk = junk
  Digits = {0, 1}
  Others = {minus, junk}
  MaxDigits = 4
  IntMax = 10
  SizeLimit = 12
  TimeoutMax = 6
  Grace = 4
  DefaultTimeout = 3
  DefaultDiff = 2
  FileCap = 1
INVARIANT MentionIsSeen
CHECK_DEADLOCK FALSE
