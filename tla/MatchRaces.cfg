CONSTANTS
  p1 = p1  p2 = p2   cA = cA  cB = cB
  Player = {p1, p2}
  Clan = {cA, cB}
  Nil = Nil
  Slot = {s1, s2}
  TeamPlayers <- OneEach
  TeamClan <- Clans
  matchType = "CLAN"
  Handlers = {"start", "finish"}
  Failures = TRUE
  Crashes = TRUE
  Expires = TRUE
  Bound = 2
SPECIFICATION Spec
SYMMETRY Interchangeable
CHECK_DEADLOCK FALSE
INVARIANTS PaidOnce FinishedIsPaid UnracedStarts
