CONSTANTS
    Player = {p1, p2, p3}
    Client = {s1, s2}
    ClanId = {1, 2}
    MaxPlayers = 2
    Nil = Nil
    New = New
    Deleted = Deleted
    MaxRequests = 5
    MaxStops = 1
SPECIFICATION Spec
SYMMETRY AlikePlayersAndClients
INVARIANTS CountIsMembers MembersHaveClan NobodyEvicted RoomForEach
CHECK_DEADLOCK FALSE
