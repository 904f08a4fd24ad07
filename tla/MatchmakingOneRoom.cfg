CONSTANTS
  p1 = p1  p2 = p2  p3 = p3  cA = cA  cB = cB
  Player = {p1, p2}
  Room = {r1}
  MatchId = {m1}
  Clan = {cA, cB}
  GameType = {g}
  Nil = Nil
  Bot = Bot
  Client = {s1, s2}
  Worker = {}
  ClansOf <- NoClans
  Bodies <- OneRoomBodies
  Handlers = {"create", "join", "leave", "start", "cancel", "send", "recancel"}
  Expirable = {"room", "index", "orphan"}
  Parallel = TRUE
  Crashes = TRUE
SPECIFICATION Spec
SYMMETRY Interchangeable
CHECK_DEADLOCK FALSE
INVARIANTS RoomsFit FullTeams JoinsExclude
