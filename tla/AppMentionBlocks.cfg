SPECIFICATION FairSpec
CONSTANTS
  alice = alice
  mallory = mallory
  dependabot = dependabot
  bot = bot
  Bot = bot
  Prs = {1}
  Issues = {}
  Users = {alice, dependabot}
  Collaborators = {alice}
  AppUsers = {dependabot}
  MaxComments = 2
  MaxReviews = 0
  MaxActs = 2
  MaxTime = 1
  SeedLag = 0
  Faults = {}
PROPERTIES MentionsAnswered
