CONSTANTS
  p1 = p1  p2 = p2  p3 = p3  cA = cA  cB = cB
  Player = {p1, p2, p3}
  Room = {r1, r2, r3}
  MatchId = {m1, m2}
  Clan = {cA, cB}
  GameType = {g}
  Nil = Nil
  Bot = Bot
  Client = {s1}
  Worker = {s1}
  ClansOf <- TwoClans
  Bodies <- MixedBodies
  Handlers = {"create", "join", "leave", "start", "cancel", "send"}
  Expirable = {}
  Parallel = FALSE
  Crashes = FALSE
SPECIFICATION Spec
SYMMETRY ClanKeys
CHECK_DEADLOCK FALSE
INVARIANTS IndexAgrees QueuedAreListed NobodyWaitsInVain UsedOnce OneRoomPerPlayer
PROPERTIES ImplementsService
