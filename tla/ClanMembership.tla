---------------------------- MODULE ClanMembership ----------------------------
(***************************************************************************)
(* src/clan and src/clan/join: players found, join, leave and delete clans.   *)
(* A clan keeps playerCount beside the clan_id of its players, and its home    *)
(* a room for each of them.  Leaving, excluding, joining a clan and deleting   *)
(* one are transactions; what is read before them, and the whole departure    *)
(* from the old clan of a player that joins another, is not part of them.     *)
(***************************************************************************)
EXTENDS Integers, FiniteSets, FiniteSetsExt

CONSTANTS
    Player,
    Client,         \* requests and events in flight
    ClanId,         \* bound: the clans there ever are
    MaxPlayers,     \* the members a clan may have (30)
    Nil,            \* no player, clan or count
    New, Deleted,   \* no clan yet, and no clan any more
    MaxRequests,    \* bound: how many requests are made
    MaxStops        \* bound: how often the server stops

ASSUME ClanAssumption == ClanId \subseteq Nat /\ 1 \in ClanId
ASSUME NilAssumption == Nil \notin Player \cup ClanId
ASSUME BoundsAssumption == MaxPlayers \in Nat \ {0, 1} /\ {MaxRequests, MaxStops} \subseteq Nat

VARIABLES
    clans,      \* the clan each _id has, if any
    players,    \* the players stored
    clanOf,     \* clan_id of each of them
    req,        \* the request each client has in flight
    requests,   \* how many requests were made
    stops,      \* how often the server stopped
    drifted,    \* history: clans of which a race counted or deleted wrong
    evicted     \* history: clans deleted by a departure while others were members

vars == <<clans, players, clanOf, req, requests, stops, drifted, evicted>>

Stored == {c \in ClanId : clans[c] \notin {New, Deleted}}

Clan == [playerCount : 0..MaxPlayers, admin : Player \cup {Nil}, active : Nat, inactive : Nat]

ASSUME AbsentAssumption == New \notin Clan /\ Deleted \notin Clan /\ New # Deleted

Idle == [pc |-> "idle", player |-> Nil, clan |-> Nil, old |-> Nil, count |-> Nil]

Members(c) == {p \in players : clanOf[p] = c}

TypeOK ==
    /\ \A c \in Stored : clans[c] \in Clan
    /\ players \subseteq Player
    /\ clanOf \in [Player -> ClanId \cup {Nil}]
    /\ DOMAIN req = Client
    /\ drifted \cup evicted \subseteq ClanId

\* createOne, createOneWithoutAdmin: the home has one room, which is active.
NewClan(count, p) == [playerCount |-> count, admin |-> p, active |-> 1, inactive |-> 0]

\* One clan, whose founder is its only member; the other players have none yet.
Init ==
    /\ \E p \in Player :
          /\ clans = [c \in ClanId |-> IF c = 1 THEN NewClan(1, p) ELSE New]
          /\ clanOf = [q \in Player |-> IF q = p THEN 1 ELSE Nil]
          /\ \E others \in SUBSET (Player \ {p}) : players = {p} \cup others
    /\ req = [s \in Client |-> Idle]
    /\ requests = 0
    /\ stops = 0
    /\ drifted = {}
    /\ evicted = {}
----------------------------------------------------------------------------
At(s, label) == req[s].pc = label

Begin(s, pc, p, c, old) ==
    req' = [req EXCEPT ![s] = [pc |-> pc, player |-> p, clan |-> c, old |-> old, count |-> Nil]]

Goto(s, pc) == req' = [req EXCEPT ![s].pc = pc]

Finish(s) == req' = [req EXCEPT ![s] = Idle]

Unused == {c \in ClanId : clans[c] = New}

\* $inc of the count.
CountUp(clan) == [clan EXCEPT !.playerCount = @ + 1]

CountDown(clan) == [clan EXCEPT !.playerCount = @ - 1]

\* joinClan: an inactive room becomes active, or a new one is made.
MutActivateRoom(clan) == clan

ActivateRoom(clan) ==
    [clan EXCEPT !.active = @ + 1, !.inactive = IF @ > 0 THEN @ - 1 ELSE @]

\* deactivateRoom: the last active room, if there is one.
DeactivateRoom(clan) ==
    IF clan.active > 0 THEN [clan EXCEPT !.active = @ - 1, !.inactive = @ + 1] ELSE clan

MutCastOut(gone, c) == clanOf

\* The clan_id of the players once a clan is deleted.
CastOut(gone, c) == [p \in Player |-> IF p \in gone \cup Members(c) THEN Nil ELSE clanOf[p]]

\* Players about to move to another clan, who were counted out of this one.
Leaving(c) == {s \in Client : At(s, "join") /\ req[s].old = c}

CountedOut(c) == {req[s].player : s \in Leaving(c)}

\* deleteOneById evicts the members other than those that leave the clan themselves.
NoteEviction(c, p) ==
    evicted' = IF Members(c) \subseteq {p} \cup CountedOut(c) THEN evicted ELSE evicted \cup {c}
----------------------------------------------------------------------------
\* POST clan/join: the clan is read, then the player with its clan_id.
handleJoinRequest(s, p, c) ==
    /\ At(s, "idle") /\ p \in players /\ c \in Stored /\ clans[c].playerCount < MaxPlayers
    /\ Begin(s, IF clanOf[p] = Nil THEN "join" ELSE "depart", p, c, clanOf[p])
    /\ UNCHANGED <<clans, players, clanOf, stops, drifted, evicted>>

\* Whether a count is that of a clan's last member.
MutIsLast(count) == count <= 2

IsLast(count) == count <= 1

\* The old clan is read, and deleted or counted down; if it is gone the request fails.
readOldClan(s) ==
    LET c == req[s].old
    IN  /\ At(s, "depart")
        /\ IF c \in Stored
           THEN Goto(s, IF IsLast(clans[c].playerCount) THEN "delete" ELSE "decrease")
           ELSE Finish(s)
        /\ UNCHANGED <<clans, players, clanOf, stops, drifted, evicted>>

\* clan.service deleteOneById, with a session of its own: the players that are members
\* by now lose their clan.
deleteOldClan(s) ==
    LET c == req[s].old
    IN  /\ At(s, "delete")
        /\ IF c \in Stored
           THEN /\ clans' = [clans EXCEPT ![c] = Deleted]
                /\ clanOf' = CastOut({}, c)
                /\ NoteEviction(c, req[s].player)
                /\ req' = [req EXCEPT ![s].pc = "join", ![s].old = Nil]
                /\ drifted' = IF IsLast(clans[c].playerCount) /\ req[s].player \in Members(c) \ CountedOut(c)
                              THEN drifted ELSE drifted \cup {c}
           ELSE Finish(s) /\ UNCHANGED <<clans, clanOf, drifted, evicted>>
        /\ UNCHANGED <<players, stops>>

\* changeCounterValue reads the count ...
readCount(s) ==
    LET c == req[s].old
    IN  /\ At(s, "decrease")
        /\ IF c \in Stored /\ clans[c].playerCount > 0
           THEN /\ req' = [req EXCEPT ![s].pc = "write", ![s].count = clans[c].playerCount]
                /\ UNCHANGED drifted
           ELSE Finish(s) /\ drifted' = IF req[s].clan = Nil THEN drifted \cup {c} ELSE drifted
        /\ UNCHANGED <<clans, players, clanOf, stops, evicted>>

\* ... and writes it less one.  If that changes nothing, a join fails.
decreaseByIdOnOne(s) ==
    LET c == req[s].old
        n == req[s].count - 1
        written == c \in Stored /\ clans[c].playerCount # n
    IN  /\ At(s, "write")
        /\ clans' = IF written THEN [clans EXCEPT ![c].playerCount = n] ELSE clans
        /\ IF written /\ req[s].clan # Nil THEN Goto(s, "join") ELSE Finish(s)
        /\ drifted' = IF (written /\ clans[c].playerCount = req[s].count
                            /\ (req[s].clan = Nil \/ req[s].player \in Members(c) \ CountedOut(c)))
                         \/ (~written /\ req[s].clan # Nil)
                      THEN drifted ELSE drifted \cup {c}
        /\ UNCHANGED <<players, clanOf, stops, evicted>>

\* The transaction of joinClan.  A player who is not where it was when the request
\* began is counted wrong, in the clan it was in or in the one it is in.
joinClan(s) ==
    LET p == req[s].player
        c == req[s].clan
    IN  /\ At(s, "join")
        /\ p \in players /\ c \in Stored /\ clans[c].playerCount < MaxPlayers
        /\ clanOf' = [clanOf EXCEPT ![p] = c]
        /\ clans' = [clans EXCEPT ![c] = ActivateRoom(CountUp(@))]
        /\ drifted' = IF clanOf[p] = req[s].old THEN drifted
                      ELSE drifted \cup ({clanOf[p], req[s].old} \ {Nil})
        /\ Finish(s)
        /\ UNCHANGED <<players, stops, evicted>>

\* It is cancelled: the clan is full or gone, the player is gone, or it meets another.
cancelJoin(s) ==
    /\ At(s, "join")
    /\ drifted' = drifted \cup ({req[s].old} \ {Nil})
    /\ Finish(s)
    /\ UNCHANGED <<clans, players, clanOf, stops, evicted>>
----------------------------------------------------------------------------
\* POST clan/leave: the player is read before its transaction reads the clan.
leaveClan(s, p) ==
    /\ At(s, "idle") /\ p \in players /\ clanOf[p] # Nil
    /\ Begin(s, "leave", p, clanOf[p], Nil)
    /\ UNCHANGED <<clans, players, clanOf, stops, drifted, evicted>>

\* POST clan/exclude by an admin of the clan: the player need not be in it any more.
excludePlayer(s, p, c) ==
    /\ At(s, "idle") /\ p \in players /\ c \in Stored /\ clans[c].admin \in Members(c)
    /\ Begin(s, "leave", p, c, Nil)
    /\ UNCHANGED <<clans, players, clanOf, stops, drifted, evicted>>

MutRemovePlayerFromClan(s) ==
    LET p == req[s].player
        c == req[s].clan
    IN  /\ At(s, "leave") /\ c \in Stored
        /\ IF IsLast(clans[c].playerCount)
           THEN /\ clans' = [clans EXCEPT ![c] = Deleted]
                /\ clanOf' = CastOut({p}, c)
                /\ NoteEviction(c, p)
           ELSE /\ clans' = [clans EXCEPT ![c] = DeactivateRoom(@)]
                /\ clanOf' = [clanOf EXCEPT ![p] = Nil]
                /\ UNCHANGED evicted
        /\ drifted' = IF p \in Members(c) \ CountedOut(c) THEN drifted
                      ELSE drifted \cup ({c, clanOf[p]} \ {Nil})
        /\ Finish(s)
        /\ UNCHANGED <<players, stops>>

\* Their transaction: a room is deactivated, the clan is deleted or counted down, and
\* the player has no clan, whichever it has by now.
removePlayerFromClan(s) ==
    LET p == req[s].player
        c == req[s].clan
    IN  /\ At(s, "leave") /\ c \in Stored
        /\ IF IsLast(clans[c].playerCount)
           THEN /\ clans' = [clans EXCEPT ![c] = Deleted]
                /\ clanOf' = CastOut({p}, c)
                /\ NoteEviction(c, p)
           ELSE /\ clans' = [clans EXCEPT ![c] = DeactivateRoom(CountDown(@))]
                /\ clanOf' = [clanOf EXCEPT ![p] = Nil]
                /\ UNCHANGED evicted
        /\ drifted' = IF p \in Members(c) \ CountedOut(c) THEN drifted
                      ELSE drifted \cup ({c, clanOf[p]} \ {Nil})
        /\ Finish(s)
        /\ UNCHANGED <<players, stops>>

\* A request whose transaction cannot commit changes nothing.
cancelTransaction(s) ==
    /\ At(s, "leave") \/ At(s, "create") \/ At(s, "expedition")
    /\ Finish(s)
    /\ UNCHANGED <<clans, players, clanOf, stops, drifted, evicted>>
----------------------------------------------------------------------------
\* POST clan: a player without a clan may found one ...
mayCreate(s, p) ==
    /\ At(s, "idle") /\ p \in players /\ clanOf[p] = Nil
    /\ Begin(s, "create", p, Nil, Nil)
    /\ UNCHANGED <<clans, players, clanOf, stops, drifted, evicted>>

\* ... and is put into it, whichever clan it has by now.
createOne(s) ==
    LET p == req[s].player
        c == Min(Unused)
    IN  /\ At(s, "create") /\ Unused # {} /\ p \in players
        /\ clans' = [clans EXCEPT ![c] = NewClan(1, p)]
        /\ clanOf' = [clanOf EXCEPT ![p] = c]
        /\ drifted' = drifted \cup ({clanOf[p]} \ {Nil})
        /\ Finish(s)
        /\ UNCHANGED <<players, stops, evicted>>

\* player.created: the player joins a clan with room for it, or one made for it.
findClanForNewPlayer(s, p) ==
    LET open == {c \in Stored : clans[c].playerCount < MaxPlayers}
    IN  /\ At(s, "idle") /\ p \notin players /\ clanOf[p] = Nil
        /\ players' = players \cup {p}
        /\ \/ \E c \in open : Begin(s, "join", p, c, Nil)
           \/ open = {} /\ Begin(s, "expedition", p, Nil, Nil)
        /\ UNCHANGED <<clans, clanOf, stops, drifted, evicted>>

\* createOneWithoutAdmin: a clan without members.
createAndJoinExpeditionClan(s) ==
    LET c == Min(Unused)
    IN  /\ At(s, "expedition") /\ Unused # {}
        /\ clans' = [clans EXCEPT ![c] = NewClan(0, Nil)]
        /\ req' = [req EXCEPT ![s].pc = "join", ![s].clan = c]
        /\ UNCHANGED <<players, clanOf, stops, drifted, evicted>>

\* DELETE player: it is read, then deleted; errors of the clean-up are dropped.
readToDelete(s, p) ==
    /\ At(s, "idle") /\ p \in players
    /\ Begin(s, "remove", p, Nil, clanOf[p])
    /\ UNCHANGED <<clans, players, clanOf, stops, drifted, evicted>>

\* deleteOnePostHook counts it out of the clan it was read with, after the answer.
deletePlayer(s) ==
    LET p == req[s].player
    IN  /\ At(s, "remove")
        /\ players' = players \ {p}
        /\ drifted' = IF p \in players /\ clanOf[p] = req[s].old /\ ~\E c \in Stored : p \in CountedOut(c)
                      THEN drifted
                      ELSE drifted \cup ({clanOf[p], req[s].old} \ {Nil})
        /\ IF req[s].old = Nil THEN Finish(s) ELSE Goto(s, "decrease")
        /\ UNCHANGED <<clans, clanOf, stops, evicted>>

\* DELETE clan, by its admin.
deleteOneById(c) ==
    /\ c \in Stored /\ clans[c].admin \in Members(c)
    /\ clans' = [clans EXCEPT ![c] = Deleted]
    /\ clanOf' = CastOut({}, c)
    /\ UNCHANGED <<players, req, stops, drifted, evicted>>

\* Every midnight, inactive rooms whose day of grace is over are deleted.
removeInactiveRooms ==
    /\ \E c \in Stored : clans[c].inactive > 0
    /\ \E late \in SUBSET Stored :
          clans' = [c \in ClanId |-> IF c \in late THEN [clans[c] EXCEPT !.inactive = 0] ELSE clans[c]]
    /\ UNCHANGED <<players, clanOf, req, stops, drifted, evicted>>

\* A stopped server forgets its requests; whom one had counted out stays where it is.
Stop ==
    /\ stops < MaxStops
    /\ stops' = stops + 1
    /\ drifted' = drifted \cup
          {req[s].old : s \in {s \in Client : req[s].old # Nil /\ (At(s, "join")
              \/ (req[s].clan = Nil /\ req[s].pc \in {"decrease", "write"}))}}
    /\ req' = [s \in Client |-> Idle]
    /\ UNCHANGED <<clans, players, clanOf, evicted>>

Request(s) ==
    \/ \E p \in Player, c \in ClanId : handleJoinRequest(s, p, c) \/ excludePlayer(s, p, c)
    \/ \E p \in Player :
          leaveClan(s, p) \/ mayCreate(s, p) \/ findClanForNewPlayer(s, p) \/ readToDelete(s, p)

Continue(s) ==
    \/ readOldClan(s) \/ deleteOldClan(s) \/ readCount(s) \/ decreaseByIdOnOne(s)
    \/ joinClan(s) \/ cancelJoin(s) \/ removePlayerFromClan(s) \/ cancelTransaction(s)
    \/ createOne(s) \/ createAndJoinExpeditionClan(s) \/ deletePlayer(s)

Next ==
    \/ /\ requests < MaxRequests
       /\ requests' = requests + 1
       /\ (\E s \in Client : Request(s)) \/ (\E c \in ClanId : deleteOneById(c))
    \/ /\ UNCHANGED requests
       /\ (\E s \in Client : Continue(s)) \/ removeInactiveRooms \/ Stop

Spec == Init /\ [][Next]_vars
----------------------------------------------------------------------------
\* Players deleted, but not yet counted out.
NotCountedOut(c) ==
    {s \in Client : req[s].old = c /\ req[s].clan = Nil /\ req[s].pc \in {"decrease", "write"}}

\* The count of a clan is that of its players, up to those on their way out, unless one
\* of these happened to it: a departure of a player that was not in it any more, a count
\* written from an old read, or a join that failed after the departure.
CountIsMembers ==
    \A c \in Stored \ drifted :
        clans[c].playerCount =
            Cardinality(Members(c)) - Cardinality(Leaving(c)) + Cardinality(NotCountedOut(c))

\* No player is left with a clan that was deleted, however its deletion meets joins.
MembersHaveClan == \A p \in players : clanOf[p] # Nil => clanOf[p] \in Stored

\* A departure deletes a clan only if nobody stays behind, unless the count was wrong or
\* read earlier, or the player was not in the clan any more.
NobodyEvicted == evicted \subseteq drifted

\* The home of a clan has an active room for every member, while its count is right.
RoomForEach == \A c \in Stored \ drifted : clans[c].active >= Cardinality(Members(c))
=============================================================================
