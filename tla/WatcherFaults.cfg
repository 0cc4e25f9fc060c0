SPECIFICATION Scheduled
CONSTANTS
  alice = alice
  mallory = mallory
  dependabot = dependabot
  bot = bot
  Bot = bot
  Prs = {1}
  Issues = {2}
  Users = {alice, dependabot}
  Collaborators = {alice}
  AppUsers = {dependabot}
  MaxComments = 1
  MaxReviews = 1
  MaxActs = 2
  MaxTime = 2
  SeedLag = 1
  Faults = {"transient", "fatal", "ambiguous", "late", "save", "crash", "wipe", "stop", "edit", "tieEdit"}
INVARIANTS ReviewedMeansPosted SecondPostWasUnsure
PROPERTIES StopEnds
