SPECIFICATION FairSpec
CONSTANTS
  alice = alice
  mallory = mallory
  dependabot = dependabot
  bot = bot
  Bot = bot
  Prs = {1}
  Issues = {}
  Users = {alice, mallory}
  Collaborators = {alice}
  AppUsers = {}
  MaxComments = 2
  MaxReviews = 2
  MaxActs = 2
  MaxTime = 2
  SeedLag = 0
  Faults = {"transient", "ambiguous"}
PROPERTIES MentionsAnswered ApprovalsAnswered
