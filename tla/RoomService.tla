---------------------------- MODULE RoomService ----------------------------
(***************************************************************************)
(* What matchmaking promises about rooms, as if every request were one      *)
(* atomic step on the rooms: a player is in one active room, a matched or   *)
(* cancelled room never changes again, a room is used for one match.        *)
(* Matchmaking, whose requests take many Redis commands, is compared with   *)
(* this.                                                                    *)
(***************************************************************************)
EXTENDS MatchmakingRoom, FiniteSets

VARIABLE rooms

TypeOK == rooms \in [Room -> RoomRecord \cup {Nil}]

Init == rooms = [r \in Room |-> Nil]
----------------------------------------------------------------------------
Exists(r) == rooms[r] # Nil

IsActive(r) == Exists(r) /\ rooms[r].status \in {"OPEN", "READY", "QUEUED"}

InRoom(p, r) == IsActive(r) /\ p \in Members(rooms[r])

Free(p) == \A r \in Room : ~InRoom(p, r)

Write(r, value) == rooms' = [rooms EXCEPT ![r] = value]

\* A match id no room has been given.
Unused(m) == \A r \in Room : Exists(r) => rooms[r].match # m

Create(p, b) ==
    \E r \in Room, clan \in ClansOf[p] :
        /\ ~Exists(r) /\ Free(p)
        /\ b.matchType = "CLAN" => clan # Nil
        /\ Write(r, NewRoom(p, clan, b))

Join(p, r) ==
    /\ Exists(r) /\ Free(p)
    /\ \E clan \in ClansOf[p] : MayJoin(rooms[r], p, clan)
    /\ Write(r, WithPlayer(rooms[r], p))

Leave(p, r) ==
    /\ InRoom(p, r)
    /\ Write(r, IF rooms[r].players = <<p>> THEN Nil ELSE WithoutPlayer(rooms[r], p))

Queue(r) ==
    /\ Exists(r) /\ rooms[r].status = "READY"
    /\ rooms[r].matchType # "CUSTOM"
    /\ Write(r, [rooms[r] EXCEPT !.status = "QUEUED"])

Opponents(room, other) ==
    /\ room.status = "QUEUED" /\ other.status = "QUEUED"
    /\ room.matchType = other.matchType
    /\ room.gameType = other.gameType
    /\ room.teamSize = other.teamSize
    /\ room.matchType = "CLAN" => room.clan # other.clan

Pair(r1, r2, m) ==
    /\ r1 # r2 /\ Exists(r1) /\ Exists(r2)
    /\ Opponents(rooms[r1], rooms[r2])
    /\ Unused(m)
    /\ rooms' = [rooms EXCEPT ![r1] = MatchedRoom(rooms[r1], m),
                              ![r2] = MatchedRoom(rooms[r2], m)]

\* A custom room plays itself, a clan room without an opponent plays bots.
PlayAlone(r, m) ==
    /\ Exists(r) /\ Unused(m)
    /\ \/ rooms[r].matchType = "CUSTOM" /\ rooms[r].status = "READY"
       \/ rooms[r].matchType = "CLAN" /\ rooms[r].status = "QUEUED"
    /\ Write(r, MatchedRoom(rooms[r], m))

Cancel(r) ==
    /\ IsActive(r)
    /\ Write(r, [rooms[r] EXCEPT !.status = "CANCELLED"])

Expire(r) == Exists(r) /\ Write(r, Nil)

Next ==
    \/ \E p \in Player, b \in Bodies : Create(p, b)
    \/ \E p \in Player, r \in Room : Join(p, r) \/ Leave(p, r)
    \/ \E r \in Room : Queue(r) \/ Cancel(r) \/ Expire(r)
    \/ \E r1, r2 \in Room, m \in MatchId : Pair(r1, r2, m)
    \/ \E r \in Room, m \in MatchId : PlayAlone(r, m)

Spec == Init /\ [][Next]_rooms
----------------------------------------------------------------------------
\* A player is a member of at most one active room: leaveRoom and
\* getActiveInvite look a room up by its player alone.
OneRoomPerPlayer ==
    \A p \in Player, r1, r2 \in Room : InRoom(p, r1) /\ InRoom(p, r2) => r1 = r2
============================================================================
