CONSTANTS
  Team1 = {a, b}
  Team2 = {c}
  Client = {s1, s2}
  Timer = {t1}
  Nil = Nil
  Failures = TRUE
  MaxFaults = 1
SPECIFICATION FairSpec
INVARIANTS RewardedOnce FollowsResults
PROPERTIES ConflictSettled
CHECK_DEADLOCK FALSE
