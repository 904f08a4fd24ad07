CONSTANTS
  p1 = p1  p2 = p2  p3 = p3  cA = cA  cB = cB
  Player = {p1, p2}
  Room = {r1, r2}
  MatchId = {m1, m2}
  Clan = {cA, cB}
  GameType = {g}
  Nil = Nil
  Bot = Bot
  Client = {s1, s2}
  Worker = {w}
  ClansOf <- PairOfClans
  Bodies <- ClanPairs
  Handlers = {"create", "start", "cancel"}
  Expirable = {}
  Parallel = FALSE
  Crashes = FALSE
SPECIFICATION FairSpec

CHECK_DEADLOCK FALSE
INVARIANTS ClansMeet
PROPERTIES ClanRoomAnswered
