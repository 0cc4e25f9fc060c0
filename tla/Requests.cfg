SPECIFICATION FairSpec
CONSTANTS
  Retries = 6
  MaxBackoff = 60
  MaxWait = 600
  IntMax = 2000
  RetryAfters = {0, 1, 601, 9999}
  Sizes = {0, 2, 3}
  Cap = 2
INVARIANTS FatalIffRefused WritesOnce StreamIsOneAttempt WaitsAsAsked
PROPERTIES CallsReturn
