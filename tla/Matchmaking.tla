---------------------------- MODULE Matchmaking ----------------------------
(***************************************************************************)
(* src/matchmaking/matchmaking.service.ts from the creation of a room to    *)
(* the creation of its match.  The state is what the service keeps in       *)
(* Redis; a request is a slot that runs its handler one Redis command at a  *)
(* time, so other requests run between any two of its commands.  Commands   *)
(* the code sends in one tick (Promise.all) are one step.                   *)
(*                                                                         *)
(* An operator named Mut... is a bug the code might have had, beside the     *)
(* definition it would replace.  No specification uses them: they serve to  *)
(* see that the properties notice such bugs.                                *)
(***************************************************************************)
EXTENDS MatchmakingRoom, FiniteSets

CONSTANTS
    Client,         \* slots that run the requests of clients
    Worker,         \* slots that run BullMQ jobs
    Handlers,       \* the endpoints clients call
    Expirable,      \* the kinds of Redis keys whose lifetime may run out
    Parallel,       \* whether one player may have several requests in flight
    Crashes         \* whether a server may stop in the middle of a request

Slot == Client \cup Worker

\* "recancel" is a call of cancelInvite for a room already cancelled.
Handler == {"create", "join", "leave", "start", "cancel", "recancel", "send"}
\* "orphan" stands for the join locks of servers that stopped, "lock" for any.
KeyKind == {"room", "index", "lock", "orphan"}

ASSUME HandlersAssumption == Handlers \subseteq Handler /\ Expirable \subseteq KeyKind
ASSUME SwitchAssumption == Parallel \in BOOLEAN /\ Crashes \in BOOLEAN
\* A lock that is taken is seen to be.
ASSUME SlotAssumption == Nil \notin Slot
\* A key that is there is seen to be.
ASSUME AbsentAssumption ==
    Nil \notin Room \cup MatchId /\ Nil \notin RoomRecord /\ Nil \notin MatchRecord

VARIABLES
    invites,        \* matchmaking:invite:<room>
    playerInvite,   \* matchmaking:player-invite:<player>: the index of rooms by player
    lapsing,        \* players whose index entry lapses before their room does
    queue,          \* matchmaking:queue:<type>:<game>: the rooms waiting
    joinLock,       \* matchmaking:invite-join-lock:<room>
    matches,        \* matchmaking:match:<match>
    jobs,           \* the clanOpponentTimeout job of each room
    fresh,          \* room ids not yet handed out
    req             \* the request each slot runs: where it is and what it has read

redis == <<invites, playerInvite, lapsing, queue, joinLock, matches, fresh>>
vars == <<invites, playerInvite, lapsing, queue, joinLock, matches, jobs, fresh, req>>

QueueKey == MatchType \X GameType
JobState == {"none", "delayed", "active"}

PC == {"idle",
       "checkIndex", "checkRoom", "dropIndex",                     \* validatePlayerHasNoActiveInvite
       "saveRoom", "setIndex",                                     \* createInvite, joinInvite
       "joinRead", "joinSave", "unlock",                           \* joinInvite
       "ownRead", "dropDangling",                                  \* getActiveInviteForPlayer
       "leaveQueue", "leaveIndex", "leaveSave",                    \* leaveRoom
       "queueRead", "queuePush", "queueSave",                      \* enqueueReadyInvite
       "scan", "scanRead", "scanDrop", "schedule",                 \* tryCreate...Match
       "custom", "mark", "markIndex",                              \* markInviteMatched
       "jobDone",                                                  \* the BullMQ worker
       "cancelQueue", "cancelSave", "cancelIndex"}                 \* cancelInvite

Op == Handler \cup {"none", "timeout"}

Seen == [room : Room, inv : RoomRecord]

\* room: the room the request is about; inv: that room as the request read it;
\* other: the room the player index named; todo: queued rooms still to be read;
\* seen: the opponents found, then the rooms of the new match; made: that match.
Request == [pc : PC, op : Op, player : Player \cup {Nil}, room : Room \cup {Nil},
            inv : RoomRecord \cup {Nil}, other : Room \cup {Nil},
            todo : Seq(Room), seen : Seq(Seen), made : MatchId \cup {Nil}]

Idle == [pc |-> "idle", op |-> "none", player |-> Nil, room |-> Nil, inv |-> Nil,
         other |-> Nil, todo |-> <<>>, seen |-> <<>>, made |-> Nil]

TypeOK ==
    /\ invites \in [Room -> RoomRecord \cup {Nil}]
    /\ playerInvite \in [Player -> Room \cup {Nil}]
    /\ lapsing \subseteq Player
    /\ queue \in [QueueKey -> Seq(Room)]
    /\ joinLock \in [Room -> Slot \cup {Nil}]
    /\ matches \in [MatchId -> MatchRecord \cup {Nil}]
    /\ jobs \in [Room -> JobState]
    /\ fresh \subseteq Room
    /\ req \in [Slot -> Request]

Init ==
    /\ invites = [r \in Room |-> Nil]
    /\ playerInvite = [p \in Player |-> Nil]
    /\ lapsing = {}
    /\ queue = [k \in QueueKey |-> <<>>]
    /\ joinLock = [r \in Room |-> Nil]
    /\ matches = [m \in MatchId |-> Nil]
    /\ jobs = [r \in Room |-> "none"]
    /\ fresh = Room
    /\ req = [s \in Slot |-> Idle]
----------------------------------------------------------------------------
(* Requests and Redis keys                                                  *)

At(s, label) == req[s].pc = label

Continue(s, request) == req' = [req EXCEPT ![s] = request]

Goto(s, label) == Continue(s, [req[s] EXCEPT !.pc = label])

\* The handler returns; a BullMQ job is done with its handler.
Return(s) ==
    /\ req' = [req EXCEPT ![s] = Idle]
    /\ jobs' = IF req[s].op = "timeout" THEN [jobs EXCEPT ![req[s].room] = "none"] ELSE jobs

\* Slot s takes a call of handler op by player p.
Calls(s, op, p) ==
    /\ s \in Client /\ At(s, "idle") /\ op \in Handlers
    /\ Parallel \/ \A t \in Slot : req[t].player # p

Issued == Room \ fresh

Active == {"OPEN", "READY", "QUEUED"}

\* The key is there and its room has one of the statuses.
Has(room, statuses) == room # Nil /\ room.status \in statuses

\* saveInvite.  Every write restarts the lifetime of the room's key; the index
\* entries that name it keep theirs and so lapse earlier.
saveInvite(r, room) ==
    /\ invites' = [invites EXCEPT ![r] = room]
    /\ lapsing' = IF "index" \in Expirable
                  THEN lapsing \cup {p \in Player : playerInvite[p] = r} ELSE {}

setPlayerInvite(p, r) ==
    /\ playerInvite' = [playerInvite EXCEPT ![p] = r]
    /\ lapsing' = lapsing \ {p}

dropPlayerInvites(ps) ==
    /\ playerInvite' = [p \in Player |-> IF p \in ps THEN Nil ELSE playerInvite[p]]
    /\ lapsing' = lapsing \ ps

queueKey(room) == <<room.matchType, room.gameType>>

\* A list is read without its repetitions and LREM removes all of them, so a
\* second RPUSH of a queued room is not seen by anyone.
rpush(k, r) ==
    queue' = [queue EXCEPT ![k] = IF \E i \in DOMAIN @ : @[i] = r THEN @ ELSE Append(@, r)]

removeInviteFromQueue(k, r) == queue' = [queue EXCEPT ![k] = Without(@, r)]
----------------------------------------------------------------------------
(* validatePlayerHasNoActiveInvite, for the create or join request of slot s *)

Checked(request) ==
    [request EXCEPT !.pc = IF request.op = "create" THEN "saveRoom" ELSE "joinSave"]

\* GET the player's index entry.
CheckIndexThen(s, request) ==
    LET r == playerInvite[request.player]
    IN  Continue(s, IF r = Nil THEN Checked(request)
                    ELSE [request EXCEPT !.pc = "checkRoom", !.other = r])

CheckIndex(s) ==
    /\ At(s, "checkIndex")
    /\ CheckIndexThen(s, req[s])
    /\ UNCHANGED <<redis, jobs>>

MutBlocks(room) == Has(room, {"OPEN"})

\* A room that is gone or over does not count.
Blocks(room) == Has(room, Active)

\* GET the room the index names.
CheckRoom(s) ==
    /\ At(s, "checkRoom")
    /\ LET room == invites[req[s].other]
       IN  \/ ~Blocks(room) /\ Goto(s, "dropIndex") /\ jobs' = jobs
           \/ Blocks(room) /\ req[s].op = "create" /\ Return(s)
           \/ Blocks(room) /\ req[s].op = "join" /\ Goto(s, "unlock") /\ jobs' = jobs
    /\ UNCHANGED redis

DropIndex(s) ==
    /\ At(s, "dropIndex")
    /\ dropPlayerInvites({req[s].player})
    /\ Continue(s, Checked(req[s]))
    /\ UNCHANGED <<invites, queue, joinLock, matches, fresh, jobs>>
----------------------------------------------------------------------------
(* createInvite                                                             *)

\* Bound: no more rooms are created than there are room ids.
RoomsLeft ==
    Cardinality({t \in Slot : req[t].op = "create" /\ req[t].room = Nil}) < Cardinality(fresh)

\* The player is read with it, in whatever clan it is by now.
createInvite(s, p, b) ==
    /\ Calls(s, "create", p) /\ RoomsLeft
    /\ \E clan \in ClansOf[p] :
          CheckIndexThen(s, [Idle EXCEPT !.op = "create", !.player = p,
                                         !.inv = NewRoom(p, clan, b)])
    /\ UNCHANGED <<redis, jobs>>

\* validateCreateInviteBody, then SET the room under a new id.
SaveRoom(s) ==
    LET room == req[s].inv
    IN  /\ At(s, "saveRoom")
        /\ IF room.matchType = "CLAN" /\ room.clan = Nil
           THEN Return(s) /\ UNCHANGED redis
           ELSE \E r \in fresh :
                  /\ fresh' = fresh \ {r}
                  /\ saveInvite(r, room)
                  /\ Continue(s, [req[s] EXCEPT !.pc = "setIndex", !.room = r])
                  /\ UNCHANGED <<playerInvite, queue, joinLock, matches, jobs>>

MutSetIndex(s) ==
    /\ At(s, "setIndex")
    /\ IF req[s].op = "create"
       THEN setPlayerInvite(req[s].player, req[s].room) /\ Return(s)
       ELSE UNCHANGED <<playerInvite, lapsing, jobs>> /\ Goto(s, "unlock")
    /\ UNCHANGED <<invites, queue, joinLock, matches, fresh>>

\* SET the creator's or joiner's index entry.
SetIndex(s) ==
    /\ At(s, "setIndex")
    /\ setPlayerInvite(req[s].player, req[s].room)
    /\ IF req[s].op = "create" THEN Return(s) ELSE Goto(s, "unlock") /\ jobs' = jobs
    /\ UNCHANGED <<invites, queue, joinLock, matches, fresh>>
----------------------------------------------------------------------------
(* joinInvite                                                               *)

MutJoinInvite(s, p, r) ==
    /\ Calls(s, "join", p) /\ r \in Issued
    /\ joinLock' = [joinLock EXCEPT ![r] = s]
    /\ Continue(s, [Idle EXCEPT !.pc = "joinRead", !.op = "join", !.player = p, !.room = r])
    /\ UNCHANGED <<invites, playerInvite, lapsing, queue, matches, fresh, jobs>>

\* SETNX the room's join lock; a join that finds it taken is refused and
\* changes nothing.
joinInvite(s, p, r) ==
    /\ Calls(s, "join", p) /\ r \in Issued
    /\ joinLock[r] = Nil
    /\ joinLock' = [joinLock EXCEPT ![r] = s]
    /\ Continue(s, [Idle EXCEPT !.pc = "joinRead", !.op = "join", !.player = p, !.room = r])
    /\ UNCHANGED <<invites, playerInvite, lapsing, queue, matches, fresh, jobs>>

JoinRead(s) ==
    LET room == invites[req[s].room]
    IN  /\ At(s, "joinRead")
        /\ IF room = Nil THEN Goto(s, "unlock")
           ELSE IF req[s].player \in Members(room) THEN Goto(s, "unlock")
           ELSE Continue(s, [req[s] EXCEPT !.pc = "checkIndex", !.inv = room])
        /\ UNCHANGED <<redis, jobs>>

\* validateJoinInvite on the room as it was read and on the clan the player is in
\* by now, then SET the room with the player added.  A custom room is refused when
\* the request has the wrong roomId.
JoinSave(s) ==
    LET room == req[s].inv
        p    == req[s].player
    IN  /\ At(s, "joinSave")
        /\ \/ /\ \E clan \in ClansOf[p] : MayJoin(room, p, clan)
              /\ saveInvite(req[s].room, WithPlayer(room, p))
              /\ Goto(s, "setIndex")
              /\ UNCHANGED <<playerInvite, queue, joinLock, matches, fresh, jobs>>
           \/ /\ \/ \E clan \in ClansOf[p] : ~MayJoin(room, p, clan)
                 \/ room.matchType = "CUSTOM"
              /\ Goto(s, "unlock")
              /\ UNCHANGED <<redis, jobs>>

\* deleteIfValue: the lock is deleted only while it is this request's.
Unlock(s) ==
    /\ At(s, "unlock")
    /\ joinLock' = [joinLock EXCEPT ![req[s].room] = IF @ = s THEN Nil ELSE @]
    /\ Return(s)
    /\ UNCHANGED <<invites, playerInvite, lapsing, queue, matches, fresh>>
----------------------------------------------------------------------------
(* getActiveInviteForPlayer, for leaveRoom and the two send...Invite calls  *)

\* GET the caller's index entry; a call without one is refused.
GetOwnRoom(s, op, p) ==
    /\ Calls(s, op, p)
    /\ playerInvite[p] # Nil
    /\ Continue(s, [Idle EXCEPT !.pc = "ownRead", !.op = op, !.player = p,
                                !.room = playerInvite[p]])
    /\ UNCHANGED <<redis, jobs>>

leaveRoom(s, p) == GetOwnRoom(s, "leave", p)

sendInvite(s, p) == GetOwnRoom(s, "send", p)

\* GET that room: the index entry dangles when the room is gone or, for
\* leaveRoom, does not have the caller; "send" only notifies; a matched room can
\* no longer be left.
OwnRead(s) ==
    LET room     == invites[req[s].room]
        leaves   == req[s].op = "leave"
        dangling == IF room = Nil THEN TRUE ELSE leaves /\ req[s].player \notin Members(room)
    IN  /\ At(s, "ownRead")
        /\ \/ dangling /\ Goto(s, "dropDangling") /\ jobs' = jobs
           \/ ~dangling /\ (leaves => room.status = "MATCHED") /\ Return(s)
           \/ /\ ~dangling /\ leaves /\ room.status # "MATCHED"
              /\ Continue(s, [req[s] EXCEPT !.inv = room,
                    !.pc = IF room.status = "QUEUED" THEN "leaveQueue" ELSE "leaveIndex"])
              /\ jobs' = jobs
        /\ UNCHANGED redis

DropDangling(s) ==
    /\ At(s, "dropDangling")
    /\ dropPlayerInvites({req[s].player})
    /\ Return(s)
    /\ UNCHANGED <<invites, queue, joinLock, matches, fresh>>
----------------------------------------------------------------------------
(* leaveRoom                                                                *)

LeaveQueue(s) ==
    /\ At(s, "leaveQueue")
    /\ removeInviteFromQueue(queueKey(req[s].inv), req[s].room)
    /\ Goto(s, "leaveIndex")
    /\ UNCHANGED <<invites, playerInvite, lapsing, joinLock, matches, fresh, jobs>>

\* DEL the index entry, and with it the room when nobody is left.
LeaveIndex(s) ==
    LET last == Len(req[s].inv.players) = 1
    IN  /\ At(s, "leaveIndex")
        /\ dropPlayerInvites({req[s].player})
        /\ IF last
           THEN invites' = [invites EXCEPT ![req[s].room] = Nil] /\ Return(s)
           ELSE Goto(s, "leaveSave") /\ UNCHANGED <<invites, jobs>>
        /\ UNCHANGED <<queue, joinLock, matches, fresh>>

LeaveSave(s) ==
    /\ At(s, "leaveSave")
    /\ saveInvite(req[s].room, WithoutPlayer(req[s].inv, req[s].player))
    /\ Return(s)
    /\ UNCHANGED <<playerInvite, queue, joinLock, matches, fresh>>
----------------------------------------------------------------------------
(* startRoom and enqueueReadyInvite                                         *)

MutMayStart(room, p) == room # Nil /\ room.owner = p /\ isInviteFull(room)

\* A call by another player or for a room that is not READY is refused and
\* changes nothing.
MayStart(room, p) == room # Nil /\ room.owner = p /\ room.status = "READY"

\* GET the room.
startRoom(s, p, r) ==
    LET room == invites[r]
    IN  /\ Calls(s, "start", p)
        /\ MayStart(room, p)
        /\ Continue(s, [Idle EXCEPT !.op = "start", !.player = p, !.room = r, !.inv = room,
               !.pc = IF room.matchType = "CUSTOM" THEN "custom" ELSE "queueRead"])
        /\ UNCHANGED <<redis, jobs>>

MutQueueRead(s) ==
    /\ At(s, "queueRead")
    /\ Goto(s, IF queue[queueKey(req[s].inv)] # <<>> THEN "queueSave" ELSE "queuePush")
    /\ UNCHANGED <<redis, jobs>>

\* LRANGE the queue: a room that is listed already is not pushed again.
QueueRead(s) ==
    LET q == queue[queueKey(req[s].inv)]
    IN  /\ At(s, "queueRead")
        /\ Goto(s, IF \E i \in DOMAIN q : q[i] = req[s].room THEN "queueSave" ELSE "queuePush")
        /\ UNCHANGED <<redis, jobs>>

QueuePush(s) ==
    /\ At(s, "queuePush")
    /\ rpush(queueKey(req[s].inv), req[s].room)
    /\ Goto(s, "queueSave")
    /\ UNCHANGED <<invites, playerInvite, lapsing, joinLock, matches, fresh, jobs>>

\* SET the room QUEUED, as it was read, and go on to look for an opponent.
QueueSave(s) ==
    LET room == [req[s].inv EXCEPT !.status = "QUEUED"]
    IN  /\ At(s, "queueSave")
        /\ saveInvite(req[s].room, room)
        /\ Continue(s, [req[s] EXCEPT !.pc = "scan", !.inv = room])
        /\ UNCHANGED <<playerInvite, queue, joinLock, matches, fresh, jobs>>
----------------------------------------------------------------------------
(* getValidQueuedInvites, tryCreateRandomMatch, tryCreateClanMatch           *)

\* LRANGE the queue of the room's type and game.
Scan(s) ==
    /\ At(s, "scan")
    /\ Continue(s, [req[s] EXCEPT !.pc = "scanRead", !.todo = queue[queueKey(req[s].inv)],
                                  !.seen = <<>>])
    /\ UNCHANGED <<redis, jobs>>

ValidQueued(room, inv) ==
    /\ room.status = "QUEUED"
    /\ room.matchType = inv.matchType
    /\ room.gameType = inv.gameType

MutCompatible(cand, request) ==
    /\ cand.inv.matchType = "CLAN" =>
          /\ cand.room # request.room
          /\ cand.inv.clan # Nil /\ request.inv.clan # Nil
    /\ cand.inv.teamSize = request.inv.teamSize

\* The filter of tryCreateRandomMatch and the search of tryCreateClanMatch.
Compatible(cand, request) ==
    /\ cand.inv.teamSize = request.inv.teamSize
    /\ cand.inv.matchType = "CLAN" =>
          /\ cand.room # request.room
          /\ cand.inv.clan # Nil /\ request.inv.clan # Nil
          /\ cand.inv.clan # request.inv.clan

MutFound(seen, cand, request) ==
    IF Compatible(cand, request) THEN <<cand>> ELSE seen

\* The opponents found so far.
Found(seen, cand, request) ==
    IF Compatible(cand, request) THEN Append(seen, cand) ELSE seen

\* GET the next queued room; an invalid entry is then taken off the queue.
ScanRead(s) ==
    /\ At(s, "scanRead") /\ req[s].todo # <<>>
    /\ LET cand == [room |-> Head(req[s].todo), inv |-> invites[Head(req[s].todo)]]
       IN  IF cand.inv # Nil /\ ValidQueued(cand.inv, req[s].inv)
           THEN Continue(s, [req[s] EXCEPT !.todo = Tail(@), !.seen = Found(@, cand, req[s])])
           ELSE Goto(s, "scanDrop")
    /\ UNCHANGED <<redis, jobs>>

ScanDrop(s) ==
    /\ At(s, "scanDrop")
    /\ removeInviteFromQueue(queueKey(req[s].inv), Head(req[s].todo))
    /\ Continue(s, [req[s] EXCEPT !.pc = "scanRead", !.todo = Tail(@)])
    /\ UNCHANGED <<invites, playerInvite, lapsing, joinLock, matches, fresh, jobs>>

\* The rooms and the teams of a new match; SET the match.
SaveMatch(s, seen, match) ==
    \E m \in MatchId :
        /\ matches[m] = Nil
        /\ matches' = [matches EXCEPT ![m] = match]
        /\ Continue(s, [req[s] EXCEPT !.pc = "mark", !.seen = seen, !.made = m])
        /\ UNCHANGED <<invites, playerInvite, lapsing, queue, joinLock, fresh, jobs>>

SeenRooms(seen) == {seen[i].room : i \in DOMAIN seen}

\* createActiveMatch on two rooms.
createActiveMatch(s, a, b) ==
    SaveMatch(s, <<a, b>>,
        NewMatch(a.inv, a.inv.matchType, <<createTeam(a.inv), createTeam(b.inv)>>, {a.room, b.room}))

\* A match from the request's own room alone.
MatchAlone(s, teams) ==
    SaveMatch(s, <<[room |-> req[s].room, inv |-> req[s].inv]>>,
        NewMatch(req[s].inv, req[s].inv.matchType, teams, {req[s].room}))

\* All queued rooms are read.  A random match takes the first two compatible
\* rooms, which need not include the request's own; a clan match takes the own
\* room, as it was read, and the first opponent.  Without one a start of a clan
\* room goes on to schedule its timeout and the timeout plays against bots.
Pair(s) ==
    LET seen   == req[s].seen
        own    == [room |-> req[s].room, inv |-> req[s].inv]
        random == own.inv.matchType = "RANDOM"
    IN  /\ At(s, "scanRead") /\ req[s].todo = <<>>
        /\ \/ /\ random /\ Len(seen) >= 2
              /\ createActiveMatch(s, seen[1], seen[2])
           \/ /\ random /\ Len(seen) < 2
              /\ Return(s) /\ UNCHANGED redis
           \/ /\ ~random /\ Len(seen) >= 1
              /\ createActiveMatch(s, own, seen[1])
           \/ /\ ~random /\ Len(seen) = 0 /\ req[s].op = "start"
              /\ Goto(s, "schedule") /\ UNCHANGED <<redis, jobs>>
           \/ /\ ~random /\ Len(seen) = 0 /\ req[s].op = "timeout"
              /\ MatchAlone(s, <<createTeam(own.inv), createBotTeam(own.inv)>>)

Custom(s) ==
    /\ At(s, "custom")
    /\ MatchAlone(s, createCustomTeams(req[s].inv))

MutMark(s) ==
    LET first == req[s].seen[1]
    IN  /\ At(s, "mark")
        /\ invites' = [invites EXCEPT ![first.room] = MatchedRoom(first.inv, req[s].made)]
        /\ queue' = [queue EXCEPT ![queueKey(first.inv)] = Without(@, first.room)]
        /\ Goto(s, "markIndex")
        /\ UNCHANGED <<playerInvite, lapsing, joinLock, matches, fresh, jobs>>

\* markInviteMatched and removeInviteFromQueue for every room of the match, sent
\* together: SET the rooms MATCHED as they were read, LREM them.
Mark(s) ==
    LET seen  == req[s].seen
        rooms == SeenRooms(seen)
        Of(r) == (CHOOSE i \in DOMAIN seen : seen[i].room = r)
    IN  /\ At(s, "mark")
        /\ invites' = [r \in Room |-> IF r \in rooms
                         THEN MatchedRoom(seen[Of(r)].inv, req[s].made) ELSE invites[r]]
        /\ lapsing' = IF "index" \in Expirable
                      THEN lapsing \cup {p \in Player : playerInvite[p] \in rooms} ELSE {}
        /\ queue' = [queue EXCEPT ![queueKey(seen[1].inv)] =
                        IF Len(seen) = 1 THEN Without(@, seen[1].room)
                        ELSE Without(Without(@, seen[1].room), seen[2].room)]
        /\ Goto(s, "markIndex")
        /\ UNCHANGED <<playerInvite, joinLock, matches, fresh, jobs>>

\* DEL the index entries of the players the rooms had when they were read.
MarkIndex(s) ==
    LET seen == req[s].seen
    IN  /\ At(s, "markIndex")
        /\ dropPlayerInvites(UNION {Members(seen[i].inv) : i \in DOMAIN seen})
        /\ Return(s)
        /\ UNCHANGED <<invites, queue, joinLock, matches, fresh>>
----------------------------------------------------------------------------
(* The clan opponent timeout                                                *)

MutSchedule(s) ==
    /\ At(s, "schedule")
    /\ req' = [req EXCEPT ![s] = Idle]
    /\ UNCHANGED <<redis, jobs>>

\* scheduleClanOpponentTimeout: the job id is the room's, and BullMQ ignores a
\* job whose id it still holds, waiting or being processed.
Schedule(s) ==
    /\ At(s, "schedule")
    /\ jobs' = [jobs EXCEPT ![req[s].room] = IF @ = "none" THEN "delayed" ELSE @]
    /\ req' = [req EXCEPT ![s] = Idle]
    /\ UNCHANGED redis

\* handleClanOpponentTimeout: GET the room, which must still be queued.
handleClanOpponentTimeout(s, r) ==
    LET room   == invites[r]
        queued == Has(room, {"QUEUED"}) /\ room.matchType = "CLAN"
    IN  /\ s \in Worker /\ At(s, "idle") /\ jobs[r] = "delayed"
        /\ jobs' = [jobs EXCEPT ![r] = "active"]
        /\ Continue(s, [Idle EXCEPT !.op = "timeout", !.room = r,
                           !.pc  = IF queued THEN "scan" ELSE "jobDone",
                           !.inv = IF queued THEN room ELSE Nil])
        /\ UNCHANGED redis

\* BullMQ removes the job of a handler that had nothing to do.
JobDone(s) ==
    /\ At(s, "jobDone")
    /\ Return(s)
    /\ UNCHANGED redis
----------------------------------------------------------------------------
(* cancelInvite                                                             *)

\* A call by another player or for a matched room is refused, one for a
\* cancelled room is not.
MayCancel(room, p) == room # Nil /\ room.status # "MATCHED" /\ room.owner = p

\* GET the room.
cancelInvite(s, p, r) ==
    LET room == invites[r]
        op   == IF Has(room, {"CANCELLED"}) THEN "recancel" ELSE "cancel"
    IN  /\ Calls(s, op, p)
        /\ MayCancel(room, p)
        /\ Continue(s, [Idle EXCEPT !.pc = "cancelQueue", !.op = op, !.player = p,
                                    !.room = r, !.inv = room])
        /\ UNCHANGED <<redis, jobs>>

CancelQueue(s) ==
    /\ At(s, "cancelQueue")
    /\ removeInviteFromQueue(queueKey(req[s].inv), req[s].room)
    /\ Goto(s, "cancelSave")
    /\ UNCHANGED <<invites, playerInvite, lapsing, joinLock, matches, fresh, jobs>>

CancelSave(s) ==
    /\ At(s, "cancelSave")
    /\ saveInvite(req[s].room, [req[s].inv EXCEPT !.status = "CANCELLED"])
    /\ Goto(s, "cancelIndex")
    /\ UNCHANGED <<playerInvite, queue, joinLock, matches, fresh, jobs>>

CancelIndex(s) ==
    /\ At(s, "cancelIndex")
    /\ dropPlayerInvites(Members(req[s].inv))
    /\ Return(s)
    /\ UNCHANGED <<invites, queue, joinLock, matches, fresh>>
----------------------------------------------------------------------------
(* Lifetimes and failures                                                   *)

\* Rooms and index entries live equally long since their last SET, so a room
\* outlives the entries that lapse; a cancelled room lives for a minute only.
ExpireRoom(r) ==
    /\ "room" \in Expirable /\ invites[r] # Nil
    /\ invites[r].status # "CANCELLED" => \A p \in lapsing : playerInvite[p] # r
    /\ invites' = [invites EXCEPT ![r] = Nil]
    /\ UNCHANGED <<playerInvite, lapsing, queue, joinLock, matches, jobs, fresh, req>>

ExpireIndex(p) ==
    /\ "index" \in Expirable /\ playerInvite[p] # Nil
    /\ p \notin lapsing => ~Has(invites[playerInvite[p]], Active \cup {"MATCHED"})
    /\ dropPlayerInvites({p})
    /\ UNCHANGED <<invites, queue, joinLock, matches, jobs, fresh, req>>

\* The join that took the lock of room r is still running.
Held(r) == \E s \in Slot : joinLock[r] = s /\ req[s].op = "join" /\ req[s].room = r

\* The lock's lifetime, set with it by SETNX, runs out.
ExpireLock(r) ==
    /\ joinLock[r] # Nil
    /\ "lock" \in Expirable \/ ("orphan" \in Expirable /\ ~Held(r))
    /\ joinLock' = [joinLock EXCEPT ![r] = Nil]
    /\ UNCHANGED <<invites, playerInvite, lapsing, queue, matches, jobs, fresh, req>>

\* The server running the request stops; BullMQ runs a stalled job again.
Crash(s) ==
    /\ Crashes /\ ~At(s, "idle")
    /\ req' = [req EXCEPT ![s] = Idle]
    /\ jobs' = IF req[s].op = "timeout" THEN [jobs EXCEPT ![req[s].room] = "delayed"] ELSE jobs
    /\ UNCHANGED redis
----------------------------------------------------------------------------
Call(s) ==
    \E p \in Player :
        \/ \E b \in Bodies : createInvite(s, p, b)
        \/ \E r \in Room : joinInvite(s, p, r) \/ startRoom(s, p, r) \/ cancelInvite(s, p, r)
        \/ leaveRoom(s, p) \/ sendInvite(s, p)

CreateOrJoinStep(s) ==
    \/ CheckIndex(s) \/ CheckRoom(s) \/ DropIndex(s)
    \/ SaveRoom(s) \/ SetIndex(s) \/ JoinRead(s) \/ JoinSave(s) \/ Unlock(s)

LeaveOrCancelStep(s) ==
    \/ OwnRead(s) \/ DropDangling(s) \/ LeaveQueue(s) \/ LeaveIndex(s) \/ LeaveSave(s)
    \/ CancelQueue(s) \/ CancelSave(s) \/ CancelIndex(s)

StartStep(s) ==
    \/ QueueRead(s) \/ QueuePush(s) \/ QueueSave(s) \/ Scan(s) \/ ScanRead(s) \/ ScanDrop(s)
    \/ Pair(s) \/ Custom(s) \/ Mark(s) \/ MarkIndex(s) \/ Schedule(s) \/ JobDone(s)

\* A request in flight goes on.
Step(s) == CreateOrJoinStep(s) \/ LeaveOrCancelStep(s) \/ StartStep(s)

Timeout(r) == \E s \in Slot : handleClanOpponentTimeout(s, r)

Expire ==
    \/ \E r \in Room : ExpireRoom(r) \/ ExpireLock(r)
    \/ \E p \in Player : ExpireIndex(p)

Next ==
    \/ \E s \in Slot : Call(s) \/ Step(s) \/ Crash(s)
    \/ \E r \in Room : Timeout(r)
    \/ Expire

Spec == Init /\ [][Next]_vars

\* A handler that was called goes on and a due job is taken by a free worker.
\* Nothing makes clients call.
Fairness ==
    /\ \A s \in Slot : WF_vars(Step(s))
    /\ \A r \in Room : WF_vars(Timeout(r))

FairSpec == Spec /\ Fairness
----------------------------------------------------------------------------
(* Properties                                                               *)

Quiet == \A s \in Slot : At(s, "idle")

IsActive(r) == Has(invites[r], Active)

InRoom(p, r) == IsActive(r) /\ p \in Members(invites[r])

IsQueued(r) == Has(invites[r], {"QUEUED"})

Listed(r) == LET q == queue[queueKey(invites[r])] IN \E i \in DOMAIN q : q[i] = r

\* A stored room never has more participants than its capacity nor a player
\* twice, and it is queued or matched only when it is full, whatever requests,
\* crashes and expiries interleave (recalculateInvite, makeRoomForPlayer).
RoomsFit == \A r \in Room : invites[r] # Nil => Fits(invites[r])

\* Both teams of every match are complete, although a match is made from rooms
\* as they were read some commands earlier (createTeam, createCustomTeams).
FullTeams ==
    \A m \in MatchId : matches[m] # Nil =>
        \A i \in 1 .. 2 : Len(matches[m].teams[i].participants) = matches[m].teamSize

\* The teams of a clan match are of different clans, and each player of a team
\* was in its clan when it was let into the room (tryCreateClanMatch,
\* joinInviteWhileLocked).  The clan is read there and never again: by the time of
\* the match the player may have left it, even for the opponent's.
ClansMeet ==
    \A m \in MatchId : matches[m] # Nil /\ matches[m].matchType = "CLAN" =>
        /\ matches[m].teams[1].clan # matches[m].teams[2].clan
        /\ \A i \in 1 .. 2 : \A p \in RealPlayers(matches[m].teams[i]) :
              matches[m].teams[i].clan \in ClansOf[p]

\* Two joins never work on copies of the same room at once: from reading it until
\* its lock is given back a join has the room to itself, also when
\* the lock of a stopped server has lapsed (setNx and deleteIfValue in joinInvite).
\* Holds while no lock lapses during the request that took it.
JoinsExclude ==
    \A s1, s2 \in Slot :
        s1 # s2 /\ (\A s \in {s1, s2} : req[s].op = "join" /\ req[s].inv # Nil)
          => req[s1].room # req[s2].room

\* A player is a member of at most one active room.
OneRoomPerPlayer ==
    \A p \in Player, r1, r2 \in Room : InRoom(p, r1) /\ InRoom(p, r2) => r1 = r2

\* Between requests the index names the active room of each of its members.
IndexAgrees == Quiet => \A p \in Player, r \in Room : InRoom(p, r) => playerInvite[p] = r

\* Between requests every queued room is in the queue that scans read (enqueueReadyInvite).
QueuedAreListed ==
    Quiet => \A r \in Room : IsQueued(r) => Listed(r)

\* Between requests no two rooms that could play each other are both waiting.
NobodyWaitsInVain ==
    Quiet => \A r1, r2 \in Room :
        r1 # r2 /\ IsQueued(r1) /\ IsQueued(r2)
          => ~(Compatible([room |-> r1, inv |-> invites[r1]],
                          [room |-> r2, inv |-> invites[r2]])
               /\ ValidQueued(invites[r1], invites[r2]))

\* A room is used for one match.
UsedOnce ==
    \A m1, m2 \in MatchId :
        m1 # m2 /\ matches[m1] # Nil /\ matches[m2] # Nil
          => matches[m1].rooms \cap matches[m2].rooms = {}

\* A queued clan room is answered: it gets an opponent or bots, or is withdrawn.
ClanRoomAnswered ==
    \A r \in Room :
        IsQueued(r) /\ invites[r].matchType = "CLAN" ~> ~IsQueued(r)

\* Seen through its rooms alone, matchmaking does what RoomService promises.
Service == INSTANCE RoomService WITH rooms <- invites
ImplementsService == Service!Spec
============================================================================
