CONSTANTS
  Player = {p1, p2, p3}
  Buyer = {p1}
  VotingId = {v1}
  Client = {c1, c2}
  Worker = {w1}
  Nil = Nil
  Sizes = {3, 4}
  MaxCrashes = 1
  Coins = 1
  Price = 1
  MaxItems = 1
SPECIFICATION FairSpec
CHECK_DEADLOCK FALSE
INVARIANTS OutcomeFollowsVotes SettledOnce
PROPERTIES EverySettled ImplementsPurchase
