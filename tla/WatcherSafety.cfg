SPECIFICATION Spec
CONSTANTS
  alice = alice
  mallory = mallory
  dependabot = dependabot
  bot = bot
  Bot = bot
  Prs = {1}
  Issues = {}
  Users = {alice, mallory}
  Collaborators = {alice}
  AppUsers = {}
  MaxComments = 2
  MaxReviews = 1
  MaxActs = 3
  MaxTime = 2
  SeedLag = 0
  Faults = {"transient", "ambiguous", "save", "crash", "edit", "close"}
INVARIANTS TypeOK AtMostOnePost NoMentionLost PostsAnswerCollaborators
PROPERTIES DurableGrows ImplementsReviewService
