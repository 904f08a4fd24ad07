-------------------------- MODULE MatchmakingRoom --------------------------
(***************************************************************************)
(* The values of src/matchmaking: a room ("invite" in the code), a match    *)
(* and the pure functions the service computes them with.  A bot filler is  *)
(* only counted, a team is the sequence of its participants.                *)
(***************************************************************************)
EXTENDS Integers, Sequences

CONSTANTS
    Player, Room, MatchId, Clan, GameType,
    ClansOf,    \* the clans each player is in at one time or another, Nil for none
    Bodies,     \* the create requests clients make
    Nil,        \* the absent key, snapshot, clan or match id
    Bot         \* a bot participant of a team

ASSUME BotAssumption == Bot \notin Player
ASSUME ClansOfAssumption == ClansOf \in [Player -> SUBSET (Clan \cup {Nil})]

MatchType == {"RANDOM", "CLAN", "CUSTOM"}
RoomStatus == {"OPEN", "READY", "QUEUED", "MATCHED", "CANCELLED"}

\* What a client chooses when it creates a room.
Body == [matchType : MatchType, gameType : GameType,
         teamSize : {1, 2}, allowBots : BOOLEAN]

ASSUME BodiesAssumption == Bodies \subseteq Body

RoomRecord == [status : RoomStatus, matchType : MatchType, gameType : GameType,
               owner : Player, clan : Clan \cup {Nil}, players : Seq(Player),
               bots : Nat, teamSize : {1, 2}, allowBots : BOOLEAN,
               match : MatchId \cup {Nil}]

Team == [clan : Clan \cup {Nil}, participants : Seq(Player \cup {Bot})]

\* "rooms" is history: the rooms the match was made from.
MatchRecord == [matchType : MatchType, gameType : GameType, teamSize : {1, 2},
                teams : Team \X Team, rooms : SUBSET Room]
----------------------------------------------------------------------------
Members(room) == {room.players[i] : i \in DOMAIN room.players}

getInviteCapacity(room) ==
    IF room.matchType = "CUSTOM" THEN 2 * room.teamSize ELSE room.teamSize

isInviteFull(room) ==
    Len(room.players) + room.bots >= getInviteCapacity(room)

\* No more participants than places, a full room once it is READY, nobody twice.
Fits(room) ==
    LET n == Len(room.players) + room.bots
    IN  /\ n <= getInviteCapacity(room)
        /\ room.status \in {"READY", "QUEUED", "MATCHED"} => n = getInviteCapacity(room)
        /\ \A i, j \in DOMAIN room.players : room.players[i] = room.players[j] => i = j

isInviteJoinable(room) ==
    room.status \in {"OPEN", "READY"} /\ Len(room.players) < getInviteCapacity(room)

recalculateInvite(room) ==
    LET free  == getInviteCapacity(room) - Len(room.players)
        slots == IF free > 0 THEN free ELSE 0
        bots  == IF room.allowBots \/ slots < room.bots THEN slots ELSE room.bots
        full  == Len(room.players) + bots >= getInviteCapacity(room)
    IN  [room EXCEPT !.bots = bots, !.status = IF full THEN "READY" ELSE "OPEN"]

makeRoomForPlayer(room) ==
    IF isInviteFull(room) /\ room.bots > 0
    THEN [room EXCEPT !.bots = room.bots - 1]
    ELSE room

\* The record createInvite stores for owner p of the clan.
NewRoom(p, clan, body) ==
    recalculateInvite(
        [status |-> "OPEN", matchType |-> body.matchType, gameType |-> body.gameType,
         owner |-> p, clan |-> IF body.matchType = "CLAN" THEN clan ELSE Nil,
         players |-> <<p>>, bots |-> 0, teamSize |-> body.teamSize,
         allowBots |-> body.allowBots, match |-> Nil])

WithPlayer(room, p) ==
    recalculateInvite([makeRoomForPlayer(room) EXCEPT !.players = Append(room.players, p)])

\* s without x, when x occurs at most once in s: what filter and LREM do to a
\* list of distinct elements.
Without(s, x) ==
    IF \E i \in DOMAIN s : s[i] = x
    THEN LET i == CHOOSE i \in DOMAIN s : s[i] = x
         IN  SubSeq(s, 1, i - 1) \o SubSeq(s, i + 1, Len(s))
    ELSE s

MutWithoutPlayerStale(room, p) ==
    [room EXCEPT !.players = Without(@, p),
                 !.owner = IF @ = p THEN Without(room.players, p)[1] ELSE @]

\* The room after p, not its last member, left: the first one left owns it.
WithoutPlayer(room, p) ==
    LET left == Without(room.players, p)
    IN  recalculateInvite([room EXCEPT
            !.players = left,
            !.owner = IF room.owner = p THEN left[1] ELSE room.owner])

\* validateJoinInvite and the clan check that follows it in joinInviteWhileLocked,
\* for a player whose clan_id was read to be "clan".
MayJoin(room, p, clan) ==
    isInviteJoinable(room) /\ (room.matchType = "CLAN" => room.clan = clan)

MatchedRoom(room, m) == [room EXCEPT !.status = "MATCHED", !.match = m]
----------------------------------------------------------------------------
Bots(n) == [i \in 1 .. n |-> Bot]

getInviteParticipants(room) == room.players \o Bots(room.bots)

createTeam(room) == [clan |-> room.clan, participants |-> getInviteParticipants(room)]

createBotTeam(room) == [clan |-> Nil, participants |-> Bots(room.teamSize)]

MutCreateCustomTeams(room) ==
    LET n   == room.teamSize
        all == getInviteParticipants(room)
    IN  << [clan |-> Nil, participants |-> SubSeq(all, 1, n)],
           [clan |-> Nil, participants |-> SubSeq(all, n + 1, Len(room.players))] >>

\* createCustomTeams: the first teamSize participants against the next teamSize.
createCustomTeams(room) ==
    LET n   == room.teamSize
        all == getInviteParticipants(room)
    IN  << [clan |-> Nil, participants |-> SubSeq(all, 1, n)],
           [clan |-> Nil, participants |-> SubSeq(all, n + 1, 2 * n)] >>

\* A match between the teams, made from the rooms in "from".
NewMatch(room, matchType, teams, from) ==
    [matchType |-> matchType, gameType |-> room.gameType, teamSize |-> room.teamSize,
     teams |-> teams, rooms |-> from]

RealPlayers(team) ==
    {team.participants[i] : i \in DOMAIN team.participants} \cap Player
============================================================================
