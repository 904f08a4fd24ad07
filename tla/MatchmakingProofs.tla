------------------------- MODULE MatchmakingProofs -------------------------
(***************************************************************************)
(* Proofs about Matchmaking for every set of players, rooms and requests.   *)
(* For every mix of handlers, crashes and expiries: the type invariant,     *)
(* RoomsFit, FullTeams, JoinsExclude and ClansMeet.  None is inductive: a   *)
(* request writes what it read some commands earlier, so the invariants     *)
(* must say of every snapshot in flight what they say of the stored rooms   *)
(* (ReqOK, ClanReq).  OneRoomEach is about the abstract RoomService: what   *)
(* does what it promises has each player in one room.  That the handlers do *)
(* is checked by TLC for requests that do not overlap, which no hypothesis  *)
(* on this program guarantees, so nothing is proved from it.                *)
(***************************************************************************)
EXTENDS Matchmaking, SequenceTheorems, TLAPS
----------------------------------------------------------------------------
(* What the pure functions of MatchmakingRoom preserve                      *)

Distinct(players) == \A i, j \in DOMAIN players : players[i] = players[j] => i = j

\* A capacity is a positive number (getInviteCapacity).
LEMMA CapacityNat ==
    ASSUME NEW room \in RoomRecord
    PROVE  getInviteCapacity(room) \in Nat \ {0}
  BY DEF getInviteCapacity, RoomRecord

\* recalculateInvite returns a room that fits and is OPEN or READY, and changes
\* neither its players nor its capacity, when the players fit.
LEMMA RecalculateFits ==
    ASSUME NEW room \in RoomRecord,
           Len(room.players) <= getInviteCapacity(room),
           Distinct(room.players)
    PROVE  /\ recalculateInvite(room) \in RoomRecord
           /\ Fits(recalculateInvite(room))
           /\ recalculateInvite(room).players = room.players
           /\ recalculateInvite(room).status \in {"OPEN", "READY"}
  <1> DEFINE new == recalculateInvite(room)
             cap == getInviteCapacity(room)
             slots == IF cap - Len(room.players) > 0 THEN cap - Len(room.players) ELSE 0
             bots == IF room.allowBots \/ slots < room.bots THEN slots ELSE room.bots
             full == Len(room.players) + bots >= cap
  <1>1. cap \in Nat /\ Len(room.players) \in Nat /\ room.bots \in Nat
    BY CapacityNat DEF RoomRecord
  <1>2. slots \in Nat /\ bots \in Nat /\ Len(room.players) + bots <= cap
    BY <1>1
  <1>3. new = [room EXCEPT !.bots = bots, !.status = IF full THEN "READY" ELSE "OPEN"]
    BY DEF recalculateInvite
  <1>4. new \in RoomRecord
    BY <1>2, <1>3 DEF RoomRecord, RoomStatus
  <1>5. /\ new.players = room.players /\ new.bots = bots
        /\ new.status = IF full THEN "READY" ELSE "OPEN"
        /\ new.matchType = room.matchType /\ new.teamSize = room.teamSize
    BY <1>3 DEF RoomRecord
  <1>6. getInviteCapacity(new) = cap
    BY <1>5 DEF getInviteCapacity
  <1>7. Fits(new)
    BY <1>1, <1>2, <1>5, <1>6 DEF Fits, Distinct
  <1> QED BY <1>4, <1>5, <1>7

\* A new room fits.
LEMMA NewRoomFits ==
    ASSUME NEW p \in Player, NEW clan \in Clan \cup {Nil}, NEW b \in Body
    PROVE  /\ NewRoom(p, clan, b) \in RoomRecord /\ Fits(NewRoom(p, clan, b))
           /\ Members(NewRoom(p, clan, b)) = {p}
  <1> DEFINE room == [status |-> "OPEN", matchType |-> b.matchType, gameType |-> b.gameType,
         owner |-> p, clan |-> IF b.matchType = "CLAN" THEN clan ELSE Nil,
         players |-> <<p>>, bots |-> 0, teamSize |-> b.teamSize,
         allowBots |-> b.allowBots, match |-> Nil]
  <1>1. room \in RoomRecord
    BY DEF RoomRecord, Body, RoomStatus
  <1>2. Len(room.players) <= getInviteCapacity(room) /\ Distinct(room.players)
    BY <1>1, CapacityNat DEF Distinct
  <1>3. NewRoom(p, clan, b) = recalculateInvite(room)
    BY DEF NewRoom
  <1>4. NewRoom(p, clan, b).players = <<p>>
    BY <1>1, <1>2, <1>3, RecalculateFits
  <1>5. Members(NewRoom(p, clan, b)) = {p}
    BY <1>4 DEF Members
  <1> QED BY <1>1, <1>2, <1>3, <1>5, RecalculateFits

\* A joinable room fits with another player in it.
LEMMA WithPlayerFits ==
    ASSUME NEW room \in RoomRecord, NEW p \in Player, Fits(room),
           isInviteJoinable(room), p \notin Members(room)
    PROVE  /\ WithPlayer(room, p) \in RoomRecord
           /\ Fits(WithPlayer(room, p))
           /\ WithPlayer(room, p).status \in {"OPEN", "READY"}
           /\ Members(WithPlayer(room, p)) = Members(room) \cup {p}
  <1> DEFINE base == makeRoomForPlayer(room)
             new  == [base EXCEPT !.players = Append(room.players, p)]
  <1>1. base \in RoomRecord /\ base.matchType = room.matchType /\ base.teamSize = room.teamSize
    BY DEF makeRoomForPlayer, RoomRecord
  <1> HIDE DEF base
  <1>a. room.players \in Seq(Player) /\ Append(room.players, p) \in Seq(Player)
    BY DEF RoomRecord
  <1>2. new \in RoomRecord /\ new.players = Append(room.players, p)
        /\ new.matchType = room.matchType /\ new.teamSize = room.teamSize
    BY <1>1, <1>a DEF RoomRecord
  <1>3. getInviteCapacity(new) = getInviteCapacity(room)
    BY <1>2 DEF getInviteCapacity
  <1>4. Len(room.players) \in Nat /\ getInviteCapacity(room) \in Nat
        /\ Len(room.players) < getInviteCapacity(room)
    BY CapacityNat DEF isInviteJoinable, RoomRecord
  <1>5. Len(new.players) <= getInviteCapacity(new)
    BY <1>2, <1>3, <1>4 DEF RoomRecord
  <1>6. Distinct(new.players)
    BY <1>2 DEF Distinct, Fits, Members, RoomRecord
  <1>7. WithPlayer(room, p) = recalculateInvite(new)
    BY DEF WithPlayer, base
  <1>8. Members(new) = Members(room) \cup {p}
    <2> DEFINE ps == room.players
    <2>1. ps \in Seq(Player) /\ new.players = Append(ps, p)
      BY <1>2, <1>a
    <2> HIDE DEF ps, new
    <2>2. {new.players[i] : i \in DOMAIN new.players} = {ps[i] : i \in DOMAIN ps} \cup {p}
      BY <2>1
    <2> QED BY <2>2 DEF Members, ps
  <1>9. WithPlayer(room, p).players = new.players
    BY <1>2, <1>5, <1>6, <1>7, RecalculateFits
  <1>10. Members(WithPlayer(room, p)) = Members(new)
    BY <1>9 DEF Members
  <1> QED BY <1>2, <1>5, <1>6, <1>7, <1>8, <1>10, RecalculateFits

\* c is q without its element at k.
Shifted(S, q, k, c) ==
    /\ c \in Seq(S) /\ Len(c) = Len(q) - 1
    /\ \A i \in 1 .. Len(q) - 1 : c[i] = IF i < k THEN q[i] ELSE q[i + 1]

\* Without takes the first occurrence of an element out and moves the rest up.
LEMMA WithoutShape ==
    ASSUME NEW S, NEW q \in Seq(S), NEW x, \E i \in DOMAIN q : q[i] = x
    PROVE  \E k \in 1 .. Len(q) : q[k] = x /\ Shifted(S, q, k, Without(q, x))
  <1> DEFINE k == CHOOSE i \in DOMAIN q : q[i] = x
             a == SubSeq(q, 1, k - 1)
             b == SubSeq(q, k + 1, Len(q))
  <1>1. k \in 1 .. Len(q) /\ q[k] = x
    OBVIOUS
  <1>2. Without(q, x) = a \o b
    BY DEF Without
  <1> HIDE DEF k
  <1>a. Len(q) \in Nat /\ k \in Int /\ \A i \in 1 .. Len(q) : q[i] \in S
    BY <1>1
  <1>3. a \in Seq(S) /\ Len(a) = k - 1 /\ \A i \in 1 .. k - 1 : a[i] = q[i]
    BY <1>1, <1>a
  <1>b. /\ b \in Seq(S)
        /\ Len(b) = IF k + 1 <= Len(q) THEN Len(q) - (k + 1) + 1 ELSE 0
        /\ \A i \in 1 .. Len(q) - (k + 1) + 1 : b[i] = q[k + 1 + i - 1]
    BY <1>1, <1>a, SubSeqProperties
  <1> HIDE DEF a, b
  <1>4. b \in Seq(S) /\ Len(b) = Len(q) - k /\ \A i \in 1 .. Len(q) - k : b[i] = q[k + i]
    BY <1>1, <1>a, <1>b
  <1>c. /\ a \o b \in Seq(S)
        /\ Len(a \o b) = Len(a) + Len(b)
        /\ \A i \in 1 .. Len(a) + Len(b) :
             (a \o b)[i] = IF i <= Len(a) THEN a[i] ELSE b[i - Len(a)]
    BY <1>3, <1>4, ConcatProperties
  <1>5. a \o b \in Seq(S) /\ Len(a \o b) = Len(q) - 1
    BY <1>1, <1>3, <1>4, <1>a, <1>c
  <1>6. ASSUME NEW i \in 1 .. Len(q) - 1
        PROVE  (a \o b)[i] = IF i < k THEN q[i] ELSE q[i + 1]
    <2>1. i \in 1 .. Len(a) + Len(b) /\ Len(a) = k - 1
      BY <1>1, <1>3, <1>4, <1>a
    <2>2. CASE i < k
      BY <1>1, <1>3, <1>a, <1>c, <2>1, <2>2
    <2>3. CASE ~(i < k)
      <3>1. (a \o b)[i] = b[i - (k - 1)]
        <4>1. ~(i <= Len(a)) /\ i - Len(a) = i - (k - 1)
          BY <1>1, <1>a, <2>1, <2>3
        <4> QED BY <1>c, <2>1, <4>1
      <3>2. i - (k - 1) \in 1 .. Len(q) - k /\ k + (i - (k - 1)) = i + 1
        BY <1>1, <1>a, <2>3
      <3>3. b[i - (k - 1)] = q[k + (i - (k - 1))]
        BY <1>4, <3>2
      <3> QED BY <2>3, <3>1, <3>2, <3>3
    <2> QED BY <2>2, <2>3
  <1> QED BY <1>1, <1>2, <1>5, <1>6 DEF Shifted

\* Without takes one element off a list of distinct elements, keeps it distinct
\* and adds nothing.
LEMMA WithoutOne ==
    ASSUME NEW S, NEW q \in Seq(S), NEW x
    PROVE  /\ Without(q, x) \in Seq(S)
           /\ (\E i \in DOMAIN q : q[i] = x) => Len(Without(q, x)) = Len(q) - 1
           /\ Distinct(q) => Distinct(Without(q, x))
           /\ \A i \in DOMAIN Without(q, x) : \E j \in DOMAIN q : Without(q, x)[i] = q[j]
  <1>1. CASE ~\E i \in DOMAIN q : q[i] = x
    BY <1>1 DEF Without
  <1>2. CASE \E i \in DOMAIN q : q[i] = x
    <2> DEFINE c == Without(q, x)
    <2>0. PICK k \in 1 .. Len(q) : q[k] = x /\ Shifted(S, q, k, c)
      BY <1>2, WithoutShape
    <2>1. /\ c \in Seq(S) /\ Len(c) = Len(q) - 1
          /\ \A i \in 1 .. Len(q) - 1 : c[i] = IF i < k THEN q[i] ELSE q[i + 1]
      BY <2>0 DEF Shifted
    <2> HIDE DEF c
    <2>2. Len(q) \in Nat /\ k \in Int /\ DOMAIN c = 1 .. Len(q) - 1 /\ DOMAIN q = 1 .. Len(q)
      BY <2>1
    <2>3. ASSUME Distinct(q), NEW i \in 1 .. Len(q) - 1, NEW j \in 1 .. Len(q) - 1, c[i] = c[j]
          PROVE  i = j
      <3> DEFINE Place(n) == IF n < k THEN n ELSE n + 1
      <3>1. Place(i) \in 1 .. Len(q) /\ Place(j) \in 1 .. Len(q)
        BY <2>2
      <3>2. q[Place(i)] = q[Place(j)]
        BY <2>1, <2>3
      <3>3. Place(i) = Place(j)
        <4> HIDE DEF Place
        <4> QED BY <2>2, <2>3, <3>1, <3>2 DEF Distinct
      <3> QED BY <2>2, <3>3
    <2>4. Distinct(q) => Distinct(c)
      BY <2>2, <2>3 DEF Distinct
    <2>5. \A i \in 1 .. Len(q) - 1 : i \in 1 .. Len(q) /\ i + 1 \in 1 .. Len(q)
      BY <2>2
    <2>6. \A i \in DOMAIN c : \E j \in DOMAIN q : c[i] = q[j]
      BY <2>1, <2>2, <2>5
    <2> QED BY <2>1, <2>4, <2>6 DEF c
  <1> QED BY <1>1, <1>2

\* It leaves every other element, and of a list of distinct elements no x.
LEMMA WithoutRest ==
    ASSUME NEW S, NEW q \in Seq(S), NEW x
    PROVE  /\ \A j \in DOMAIN q : q[j] # x =>
                \E i \in DOMAIN Without(q, x) : Without(q, x)[i] = q[j]
           /\ Distinct(q) => \A i \in DOMAIN Without(q, x) : Without(q, x)[i] # x
  <1>1. CASE ~\E i \in DOMAIN q : q[i] = x
    BY <1>1 DEF Without
  <1>2. CASE \E i \in DOMAIN q : q[i] = x
    <2> DEFINE c == Without(q, x)
    <2>0. PICK k \in 1 .. Len(q) : q[k] = x /\ Shifted(S, q, k, c)
      BY <1>2, WithoutShape
    <2>1. /\ c \in Seq(S) /\ Len(c) = Len(q) - 1
          /\ \A i \in 1 .. Len(q) - 1 : c[i] = IF i < k THEN q[i] ELSE q[i + 1]
      BY <2>0 DEF Shifted
    <2> HIDE DEF c
    <2>2. Len(q) \in Nat /\ k \in Int /\ DOMAIN c = 1 .. Len(q) - 1 /\ DOMAIN q = 1 .. Len(q)
      BY <2>1
    <2>3. ASSUME NEW j \in 1 .. Len(q), q[j] # x PROVE \E i \in DOMAIN c : c[i] = q[j]
      <3>1. CASE j < k
        <4>1. j \in 1 .. Len(q) - 1 /\ c[j] = q[j]
          BY <2>1, <2>2, <3>1
        <4> QED BY <2>2, <4>1
      <3>2. CASE j > k
        <4>1. j - 1 \in 1 .. Len(q) - 1 /\ ~(j - 1 < k) /\ (j - 1) + 1 = j
          BY <2>2, <3>2
        <4>2. c[j - 1] = q[j]
          BY <2>1, <4>1
        <4> QED BY <2>2, <4>1, <4>2
      <3> QED BY <2>0, <2>2, <2>3, <3>1, <3>2
    <2>4. ASSUME Distinct(q), NEW i \in 1 .. Len(q) - 1 PROVE c[i] # x
      <3>1. CASE i < k
        <4>1. i \in 1 .. Len(q) /\ i # k /\ c[i] = q[i]
          BY <2>1, <2>2, <3>1
        <4> QED BY <2>0, <2>2, <2>4, <4>1 DEF Distinct
      <3>2. CASE ~(i < k)
        <4>1. i + 1 \in 1 .. Len(q) /\ i + 1 # k /\ c[i] = q[i + 1]
          BY <2>1, <2>2, <3>2
        <4> QED BY <2>0, <2>2, <2>4, <4>1 DEF Distinct
      <3> QED BY <3>1, <3>2
    <2> QED BY <2>2, <2>3, <2>4 DEF c
  <1> QED BY <1>1, <1>2

\* A room fits without a member that was not its last one.
LEMMA WithoutPlayerFits ==
    ASSUME NEW room \in RoomRecord, NEW p \in Player, Fits(room),
           p \in Members(room), Len(room.players) > 1
    PROVE  /\ WithoutPlayer(room, p) \in RoomRecord
           /\ Fits(WithoutPlayer(room, p))
           /\ WithoutPlayer(room, p).status \in {"OPEN", "READY"}
           /\ Members(WithoutPlayer(room, p)) \subseteq Members(room)
  <1> DEFINE left == Without(room.players, p)
             new  == [room EXCEPT !.players = left,
                                  !.owner = IF room.owner = p THEN left[1] ELSE room.owner]
  <1>1. room.players \in Seq(Player) /\ Len(room.players) \in Nat /\ room.bots \in Nat
    BY DEF RoomRecord
  <1>2. /\ left \in Seq(Player) /\ Len(left) = Len(room.players) - 1 /\ Distinct(left)
        /\ \A i \in DOMAIN left : \E j \in DOMAIN room.players : left[i] = room.players[j]
    BY <1>1, WithoutOne, ZenonT(40) DEF Fits, Members, Distinct
  <1> HIDE DEF left
  <1>3. left[1] \in Player
    BY <1>1, <1>2
  <1>4. new \in RoomRecord /\ new.players = left
        /\ new.matchType = room.matchType /\ new.teamSize = room.teamSize
    BY <1>2, <1>3 DEF RoomRecord
  <1>5. getInviteCapacity(new) = getInviteCapacity(room)
    BY <1>4 DEF getInviteCapacity
  <1>6. Len(new.players) <= getInviteCapacity(new)
    BY <1>1, <1>2, <1>4, <1>5, CapacityNat DEF Fits
  <1>7. WithoutPlayer(room, p) = recalculateInvite(new)
    BY DEF WithoutPlayer, left
  <1>8. WithoutPlayer(room, p).players = left
    BY <1>2, <1>4, <1>6, <1>7, RecalculateFits
  <1>9. Members(WithoutPlayer(room, p)) \subseteq Members(room)
    BY <1>2, <1>8 DEF Members
  <1> QED BY <1>2, <1>4, <1>6, <1>7, <1>9, RecalculateFits

\* The participants of a room are its players and its bots.
LEMMA ParticipantsLen ==
    ASSUME NEW room \in RoomRecord
    PROVE  /\ getInviteParticipants(room) \in Seq(Player \cup {Bot})
           /\ Len(getInviteParticipants(room)) = Len(room.players) + room.bots
  <1>1. Bots(room.bots) \in Seq(Player \cup {Bot}) /\ Len(Bots(room.bots)) = room.bots
    BY DEF Bots, RoomRecord
  <1>2. room.players \in Seq(Player \cup {Bot})
    BY DEF RoomRecord
  <1> DEFINE b == Bots(room.bots)
  <1> HIDE DEF b
  <1>3. /\ room.players \o b \in Seq(Player \cup {Bot})
        /\ Len(room.players \o b) = Len(room.players) + Len(b)
    BY <1>1, <1>2, ConcatProperties DEF b
  <1> QED BY <1>1, <1>3 DEF getInviteParticipants, b
----------------------------------------------------------------------------
(* What a request holds and what is stored                                  *)

CheckPC == {"checkIndex", "checkRoom", "dropIndex"}
LeavePC == {"leaveQueue", "leaveIndex", "leaveSave"}
QueuePC == {"queueRead", "queuePush", "queueSave"}
ScanPC  == {"scan", "scanRead", "scanDrop"}
CancelPC == {"cancelQueue", "cancelSave", "cancelIndex"}

SeenOK(q) ==
    \A i \in DOMAIN q.seen : Fits(q.seen[i].inv) /\ q.seen[i].inv.status \in {"READY", "QUEUED"}

\* What a request holds at each of its steps.
ReqOK(q) ==
    /\ q.pc \in CheckPC \cup LeavePC \cup QueuePC \cup ScanPC \cup CancelPC
                  \cup {"saveRoom", "joinSave", "custom"}
         => q.inv \in RoomRecord /\ Fits(q.inv)
    /\ q.pc \in CheckPC \cup LeavePC \cup {"saveRoom", "joinRead", "joinSave", "ownRead"}
         => q.player \in Player
    /\ q.pc \in QueuePC \cup ScanPC \cup {"joinRead", "ownRead", "custom"} => q.room \in Room
    /\ q.pc \in CheckPC /\ q.op # "create" => q.player \notin Members(q.inv)
    /\ q.pc = "joinSave" => q.player \notin Members(q.inv)
    /\ q.pc \in LeavePC => q.player \in Members(q.inv)
    /\ q.pc = "leaveSave" => Len(q.inv.players) > 1
    /\ q.pc \in QueuePC => q.inv.status = "READY" /\ q.inv.matchType # "CUSTOM"
    /\ q.pc = "custom" => q.inv.status = "READY" /\ q.inv.matchType = "CUSTOM"
    /\ q.pc \in ScanPC => q.inv.status = "QUEUED" /\ q.inv.matchType # "CUSTOM"
    /\ q.pc = "scanDrop" => q.todo # <<>>
    /\ SeenOK(q)
    /\ q.pc \in {"scanRead", "scanDrop"} => \A i \in DOMAIN q.seen :
         /\ q.seen[i].inv.matchType = q.inv.matchType
         /\ q.seen[i].inv.teamSize = q.inv.teamSize

StoreOK ==
    /\ invites \in [Room -> RoomRecord \cup {Nil}]
    /\ playerInvite \in [Player -> Room \cup {Nil}]
    /\ lapsing \subseteq Player
    /\ queue \in [QueueKey -> Seq(Room)]
    /\ joinLock \in [Room -> Slot \cup {Nil}]
    /\ matches \in [MatchId -> MatchRecord \cup {Nil}]
    /\ fresh \subseteq Room
    /\ RoomsFit
    /\ FullTeams

ReqsOK ==
    /\ jobs \in [Room -> JobState]
    /\ req \in [Slot -> Request]
    /\ \A s \in Slot : ReqOK(req[s])

IInv == StoreOK /\ ReqsOK
----------------------------------------------------------------------------
\* A slot without a request is legal.
LEMMA IdleOK == Idle \in Request /\ ReqOK(Idle) /\ Idle.seen = <<>>
  <1>1. Idle \in Request
    BY DEF Idle, Request, PC, Op
  <1>2. ReqOK(Idle)
    BY DEF Idle, SeenOK, ReqOK, CheckPC, LeavePC, QueuePC, ScanPC, CancelPC
  <1>3. Idle.seen = <<>>
    BY DEF Idle
  <1> QED BY <1>1, <1>2, <1>3

\* A request that goes on with what it may hold keeps the requests legal.
LEMMA Resume ==
    ASSUME ReqsOK, NEW s \in Slot, NEW q \in Request, ReqOK(q), Continue(s, q),
           jobs' \in [Room -> JobState]
    PROVE  ReqsOK'
  <1>1. req' = [req EXCEPT ![s] = q]
    BY DEF Continue
  <1>2. req' \in [Slot -> Request]
    BY <1>1 DEF ReqsOK
  <1>3. \A t \in Slot : ReqOK(req'[t])
    BY <1>1 DEF ReqsOK
  <1>4. \A t \in Slot : ReqOK(req[t])'
    BY <1>3 DEF ReqOK, SeenOK, Fits, Members, getInviteCapacity
  <1> QED BY <1>2, <1>4 DEF ReqsOK

\* A request that returns keeps the requests legal.
LEMMA Returned ==
    ASSUME ReqsOK, NEW s \in Slot, Return(s)
    PROVE  ReqsOK'
  <1>1. jobs' \in [Room -> JobState]
    BY DEF Return, ReqsOK, JobState
  <1>2. Continue(s, Idle)
    BY DEF Return, Continue
  <1> QED BY <1>1, <1>2, IdleOK, Resume

\* A step that writes nothing to Redis keeps what is stored legal.
LEMMA StoreKept ==
    ASSUME StoreOK, UNCHANGED redis
    PROVE  StoreOK'
  BY DEF StoreOK, redis, RoomsFit, FullTeams, Fits, getInviteCapacity

\* Storing a room that fits.
LEMMA Saved ==
    ASSUME StoreOK, NEW r, NEW room \in RoomRecord, Fits(room), saveInvite(r, room),
           UNCHANGED <<playerInvite, queue, joinLock, matches>>, fresh' \subseteq Room
    PROVE  StoreOK'
  <1>1. invites' = [invites EXCEPT ![r] = room] /\ lapsing' \subseteq Player
    BY DEF saveInvite, StoreOK
  <1>2. invites' \in [Room -> RoomRecord \cup {Nil}]
    BY <1>1 DEF StoreOK
  <1>3. \A x \in Room : invites'[x] # Nil => Fits(invites'[x])
    BY <1>1 DEF StoreOK, RoomsFit
  <1>4. RoomsFit'
    BY <1>3 DEF RoomsFit, Fits, getInviteCapacity
  <1> QED BY <1>1, <1>2, <1>4 DEF StoreOK, FullTeams

\* Deleting index entries.
LEMMA Dropped ==
    ASSUME StoreOK, NEW ps, dropPlayerInvites(ps),
           UNCHANGED <<queue, joinLock, matches, fresh>>,
           invites' \in [Room -> RoomRecord \cup {Nil}], RoomsFit'
    PROVE  StoreOK'
  <1>1. playerInvite' \in [Player -> Room \cup {Nil}] /\ lapsing' \subseteq Player
    BY DEF dropPlayerInvites, StoreOK
  <1> QED BY <1>1 DEF StoreOK, FullTeams

\* A step that writes no room keeps the rooms fitting.
LEMMA RoomsFitKept ==
    ASSUME RoomsFit, invites' = invites
    PROVE  RoomsFit'
  BY DEF RoomsFit, Fits, getInviteCapacity

\* Changing a queue.
LEMMA Requeued ==
    ASSUME StoreOK, queue' \in [QueueKey -> Seq(Room)],
           UNCHANGED <<invites, playerInvite, lapsing, joinLock, matches, fresh>>
    PROVE  StoreOK'
  BY RoomsFitKept DEF StoreOK, FullTeams

\* LREM keeps a queue a sequence of rooms.
LEMMA Unqueued ==
    ASSUME StoreOK, NEW k, NEW r, removeInviteFromQueue(k, r)
    PROVE  queue' \in [QueueKey -> Seq(Room)]
  <1>1. ASSUME k \in QueueKey PROVE Without(queue[k], r) \in Seq(Room)
    BY <1>1, WithoutOne DEF StoreOK
  <1> QED BY <1>1 DEF removeInviteFromQueue, StoreOK
----------------------------------------------------------------------------
\* A request that only moves to a step which asks for no more than it holds.
LEMMA GoneTo ==
    ASSUME ReqsOK, NEW s \in Slot,
           NEW l \in PC \ {"saveRoom", "joinSave", "joinRead", "ownRead", "custom",
                           "scan", "scanRead"},
           Goto(s, l), jobs' = jobs,
           \A class \in {CheckPC, LeavePC, QueuePC, CancelPC} :
             l \in class => req[s].pc \in class,
           l = "leaveSave" => Len(req[s].inv.players) > 1,
           l = "scanDrop" => req[s].pc = "scanRead" /\ req[s].todo # <<>>
    PROVE  ReqsOK'
  <1> DEFINE q == req[s]
             n == [q EXCEPT !.pc = l]
  <1>0. q \in Request /\ ReqOK(q)
    BY DEF ReqsOK
  <1>1. n \in Request
    BY <1>0 DEF Request
  <1>2. /\ n.pc = l /\ n.op = q.op /\ n.player = q.player /\ n.room = q.room
        /\ n.inv = q.inv /\ n.seen = q.seen /\ n.todo = q.todo
    BY <1>0 DEF Request
  <1>3. Continue(s, n)
    BY DEF Goto
  <1> HIDE DEF n
  <1>4. ReqOK(n)
    BY <1>0, <1>2 DEF SeenOK, ReqOK, CheckPC, LeavePC, QueuePC, ScanPC, CancelPC
  <1>5. jobs' \in [Room -> JobState]
    BY DEF ReqsOK
  <1> QED BY <1>1, <1>3, <1>4, <1>5, Resume

\* A create or join request that has read its index entry (validatePlayerHasNoActiveInvite).
LEMMA CheckIndexThenOK ==
    ASSUME ReqsOK, StoreOK, NEW s \in Slot, NEW q \in Request, CheckIndexThen(s, q), jobs' = jobs,
           q.player \in Player, SeenOK(q),
           q.inv \in RoomRecord, Fits(q.inv), q.op # "create" => q.player \notin Members(q.inv)
    PROVE  ReqsOK'
  <1> DEFINE r  == playerInvite[q.player]
             q1 == Checked(q)
             q2 == [q EXCEPT !.pc = "checkRoom", !.other = r]
  <1>1. r \in Room \cup {Nil}
    BY DEF StoreOK
  <1> HIDE DEF r
  <1>2. q1 \in Request /\ ReqOK(q1)
    BY DEF Checked, Request, PC, Op, SeenOK, ReqOK, CheckPC, LeavePC, QueuePC, ScanPC, CancelPC
  <1>3. q2 \in Request /\ ReqOK(q2)
    <2>1. q2 \in Request
      BY <1>1 DEF Request, PC
    <2>2. /\ q2.pc = "checkRoom" /\ q2.op = q.op /\ q2.player = q.player
          /\ q2.inv = q.inv /\ q2.seen = q.seen
      BY DEF Request
    <2> HIDE DEF q2
    <2> QED BY <2>1, <2>2 DEF SeenOK, ReqOK, CheckPC, LeavePC, QueuePC, ScanPC, CancelPC
  <1>4. Continue(s, IF r = Nil THEN q1 ELSE q2)
    BY DEF CheckIndexThen, r
  <1>5. jobs' \in [Room -> JobState]
    BY DEF ReqsOK
  <1> HIDE DEF q1, q2
  <1> QED BY <1>2, <1>3, <1>4, <1>5, Resume

\* The steps of a create or join request.
LEMMA CreateOrJoinStepOK ==
    ASSUME IInv, NEW s \in Slot, CreateOrJoinStep(s)
    PROVE  IInv'
  <1> DEFINE q == req[s]
  <1>0. StoreOK /\ ReqsOK /\ q \in Request /\ ReqOK(q)
    BY DEF IInv, ReqsOK
  <1> USE <1>0
  <1>a. jobs' = jobs => jobs' \in [Room -> JobState]
    BY DEF ReqsOK
  <1>1. CASE CheckIndex(s)
    <2>1. q.pc = "checkIndex" /\ CheckIndexThen(s, q) /\ jobs' = jobs /\ UNCHANGED redis
      BY <1>1 DEF CheckIndex, At
    <2>2. StoreOK'
      BY <2>1, StoreKept
    <2>3. /\ q.player \in Player /\ q.inv \in RoomRecord /\ Fits(q.inv)
          /\ q.op # "create" => q.player \notin Members(q.inv)
      BY <2>1 DEF ReqOK, CheckPC
    <2>4. SeenOK(q)
      BY DEF ReqOK
    <2> QED BY <2>1, <2>2, <2>3, <2>4, CheckIndexThenOK DEF IInv
  <1>2. CASE CheckRoom(s)
    <2>1. q.pc = "checkRoom" /\ UNCHANGED redis
      BY <1>2 DEF CheckRoom, At
    <2>2. StoreOK'
      BY <2>1, StoreKept
    <2>3. ASSUME NEW l \in {"dropIndex", "unlock"}, Goto(s, l), jobs' = jobs PROVE ReqsOK'
      BY <2>1, <2>3, GoneTo DEF PC, CheckPC, LeavePC, QueuePC, CancelPC
    <2>4. ReqsOK'
      BY <1>2, <2>3, Returned DEF CheckRoom
    <2> QED BY <2>2, <2>4 DEF IInv
  <1>3. CASE DropIndex(s)
    <2> DEFINE n == Checked(q)
    <2>1. q.pc = "dropIndex" /\ Continue(s, n) /\ jobs' = jobs
      BY <1>3 DEF DropIndex, At
    <2>2. n \in Request
      BY DEF Checked, Request, PC
    <2>3. /\ n.pc = IF q.op = "create" THEN "saveRoom" ELSE "joinSave"
          /\ n.op = q.op /\ n.player = q.player /\ n.inv = q.inv /\ n.seen = q.seen
      BY DEF Checked, Request
    <2> HIDE DEF n
    <2>4. ReqOK(n)
      BY <2>1, <2>3 DEF SeenOK, ReqOK, CheckPC, LeavePC, QueuePC, ScanPC, CancelPC
    <2>5. ReqsOK'
      BY <1>a, <2>1, <2>2, <2>4, Resume
    <2>6. StoreOK'
      BY <1>3, RoomsFitKept, Dropped DEF DropIndex, StoreOK
    <2> QED BY <2>5, <2>6 DEF IInv
  <1>4. CASE SaveRoom(s)
    <2>1. q.pc = "saveRoom" /\ q.inv \in RoomRecord /\ Fits(q.inv)
      BY <1>4 DEF SaveRoom, At, ReqOK
    <2>2. CASE Return(s) /\ UNCHANGED redis
      BY <2>2, Returned, StoreKept DEF IInv
    <2>3. ASSUME NEW r \in fresh, fresh' = fresh \ {r}, saveInvite(r, q.inv),
                 Continue(s, [q EXCEPT !.pc = "setIndex", !.room = r]),
                 UNCHANGED <<playerInvite, queue, joinLock, matches, jobs>>
          PROVE  IInv'
      <3> DEFINE n == [q EXCEPT !.pc = "setIndex", !.room = r]
      <3>1. r \in Room /\ fresh' \subseteq Room
        BY <2>3 DEF StoreOK
      <3>2. n \in Request /\ n.pc = "setIndex" /\ n.seen = q.seen
        BY <3>1 DEF Request, PC
      <3> HIDE DEF n
      <3>3. ReqOK(n)
        BY <3>2 DEF SeenOK, ReqOK, CheckPC, LeavePC, QueuePC, ScanPC, CancelPC
      <3>4. ReqsOK'
        BY <1>a, <2>3, <3>2, <3>3, Resume DEF n
      <3>5. StoreOK'
        BY <2>1, <2>3, <3>1, Saved
      <3> QED BY <3>4, <3>5 DEF IInv
    <2> QED BY <1>4, <2>2, <2>3 DEF SaveRoom
  <1>5. CASE SetIndex(s)
    <2>1. playerInvite' = [playerInvite EXCEPT ![q.player] = q.room]
          /\ lapsing' = lapsing \ {q.player}
          /\ UNCHANGED <<invites, queue, joinLock, matches, fresh>>
      BY <1>5 DEF SetIndex, setPlayerInvite
    <2>2. playerInvite' \in [Player -> Room \cup {Nil}] /\ lapsing' \subseteq Player
      BY <2>1 DEF StoreOK, Request
    <2>3. StoreOK'
      BY <2>1, <2>2, RoomsFitKept DEF StoreOK, FullTeams
    <2>4. ASSUME Goto(s, "unlock"), jobs' = jobs PROVE ReqsOK'
      BY <2>4, GoneTo DEF PC, CheckPC, LeavePC, QueuePC, CancelPC
    <2>5. ReqsOK'
      BY <1>5, <2>4, Returned DEF SetIndex
    <2> QED BY <2>3, <2>5 DEF IInv
  <1>6. CASE JoinRead(s)
    <2> DEFINE room == invites[q.room]
               n    == [q EXCEPT !.pc = "checkIndex", !.inv = room]
    <2>1. q.pc = "joinRead" /\ UNCHANGED redis /\ jobs' = jobs
      BY <1>6 DEF JoinRead, At
    <2>2. q.room \in Room /\ q.player \in Player
      BY <2>1 DEF ReqOK
    <2>3. room = Nil \/ (room \in RoomRecord /\ Fits(room))
      BY <2>2 DEF StoreOK, RoomsFit
    <2>4. CASE Goto(s, "unlock")
      BY <2>1, <2>4, GoneTo, StoreKept DEF PC, CheckPC, LeavePC, QueuePC, CancelPC, IInv
    <2>5. CASE room # Nil /\ q.player \notin Members(room) /\ Continue(s, n)
      <3> HIDE DEF room
      <3>1. /\ n \in Request /\ n.pc = "checkIndex" /\ n.inv = room
            /\ n.player = q.player /\ n.seen = q.seen
        BY <2>3, <2>5 DEF Request, PC
      <3> HIDE DEF n
      <3>2. ReqOK(n)
        BY <2>2, <2>3, <2>5, <3>1
        DEF SeenOK, ReqOK, CheckPC, LeavePC, QueuePC, ScanPC, CancelPC
      <3>3. ReqsOK'
        BY <1>a, <2>1, <2>5, <3>1, <3>2, Resume
      <3> QED BY <2>1, <3>3, StoreKept DEF IInv
    <2> QED BY <1>6, <2>4, <2>5 DEF JoinRead
  <1>7. CASE JoinSave(s)
    <2> DEFINE room == WithPlayer(q.inv, q.player)
    <2>1. /\ q.pc = "joinSave" /\ q.inv \in RoomRecord /\ Fits(q.inv)
          /\ q.player \in Player /\ q.player \notin Members(q.inv)
      BY <1>7 DEF JoinSave, At, ReqOK
    <2>2. ASSUME NEW clan, MayJoin(q.inv, q.player, clan), saveInvite(q.room, room),
                 Goto(s, "setIndex"),
                 UNCHANGED <<playerInvite, queue, joinLock, matches, fresh, jobs>>
          PROVE  IInv'
      <3>1. room \in RoomRecord /\ Fits(room)
        BY <2>1, <2>2, WithPlayerFits DEF MayJoin
      <3> HIDE DEF room
      <3>2. StoreOK'
        BY <2>2, <3>1, Saved DEF StoreOK
      <3>3. ReqsOK'
        BY <2>2, GoneTo DEF PC, CheckPC, LeavePC, QueuePC, CancelPC
      <3> QED BY <3>2, <3>3 DEF IInv
    <2>3. CASE Goto(s, "unlock") /\ UNCHANGED <<redis, jobs>>
      BY <2>3, GoneTo, StoreKept DEF PC, CheckPC, LeavePC, QueuePC, CancelPC, IInv
    <2> QED BY <1>7, <2>2, <2>3 DEF JoinSave
  <1>8. CASE Unlock(s)
    <2>1. joinLock' \in [Room -> Slot \cup {Nil}]
      BY <1>8 DEF Unlock, StoreOK
    <2>2. StoreOK'
      BY <1>8, <2>1, RoomsFitKept DEF Unlock, StoreOK, FullTeams
    <2> QED BY <1>8, <2>2, Returned DEF Unlock, IInv
  <1> QED BY <1>1, <1>2, <1>3, <1>4, <1>5, <1>6, <1>7, <1>8 DEF CreateOrJoinStep

\* A leave request ends or goes on with what the index entry named.
LEMMA OwnReadOK ==
    ASSUME IInv, NEW s \in Slot, OwnRead(s)
    PROVE  IInv'
  <1> DEFINE q    == req[s]
             room == invites[q.room]
             n    == [q EXCEPT !.inv = room,
                        !.pc = IF room.status = "QUEUED" THEN "leaveQueue" ELSE "leaveIndex"]
  <1>0. StoreOK /\ ReqsOK /\ q \in Request /\ ReqOK(q)
    BY DEF IInv, ReqsOK
  <1>1. q.pc = "ownRead" /\ UNCHANGED redis
    BY DEF OwnRead, At
  <1>2. StoreOK'
    BY <1>0, <1>1, StoreKept
  <1>3. q.room \in Room /\ q.player \in Player
    BY <1>0, <1>1 DEF ReqOK
  <1>4. room = Nil \/ (room \in RoomRecord /\ Fits(room))
    BY <1>0, <1>3 DEF StoreOK, RoomsFit
  <1>5. CASE Goto(s, "dropDangling") /\ jobs' = jobs
    BY <1>0, <1>1, <1>2, <1>5, GoneTo DEF PC, CheckPC, LeavePC, QueuePC, CancelPC, IInv
  <1>6. CASE Return(s)
    BY <1>0, <1>2, <1>6, Returned DEF IInv
  <1>7. CASE room # Nil /\ q.player \in Members(room) /\ Continue(s, n) /\ jobs' = jobs
    <2> HIDE DEF room
    <2>1. /\ n \in Request /\ n.pc \in {"leaveQueue", "leaveIndex"} /\ n.inv = room
          /\ n.player = q.player /\ n.seen = q.seen
      BY <1>0, <1>4, <1>7, ZenonT(40) DEF Request, PC
    <2> HIDE DEF n
    <2>2. ReqOK(n)
      BY <1>0, <1>3, <1>4, <1>7, <2>1
      DEF SeenOK, ReqOK, CheckPC, LeavePC, QueuePC, ScanPC, CancelPC
    <2>3. ReqsOK'
      BY <1>0, <1>7, <2>1, <2>2, Resume DEF ReqsOK
    <2> QED BY <1>2, <2>3 DEF IInv
  <1> QED BY <1>5, <1>6, <1>7 DEF OwnRead

\* The steps of a leave, send or cancel request.
LEMMA LeaveOrCancelStepOK ==
    ASSUME IInv, NEW s \in Slot, LeaveOrCancelStep(s)
    PROVE  IInv'
  <1> DEFINE q == req[s]
  <1>0. StoreOK /\ ReqsOK /\ q \in Request /\ ReqOK(q)
    BY DEF IInv, ReqsOK
  <1> USE <1>0
  <1>1. CASE OwnRead(s)
    BY <1>1, OwnReadOK
  <1>2. CASE DropDangling(s)
    <2>1. StoreOK'
      BY <1>2, RoomsFitKept, Dropped DEF DropDangling, StoreOK
    <2> QED BY <1>2, <2>1, Returned DEF DropDangling, IInv
  <1>3. CASE LeaveQueue(s)
    <2>1. StoreOK'
      BY <1>3, Unqueued, Requeued DEF LeaveQueue
    <2>2. ReqsOK'
      BY <1>3, GoneTo DEF LeaveQueue, At, PC, CheckPC, LeavePC, QueuePC, CancelPC
    <2> QED BY <2>1, <2>2 DEF IInv
  <1>4. CASE LeaveIndex(s)
    <2>1. /\ q.pc = "leaveIndex" /\ dropPlayerInvites({q.player})
          /\ UNCHANGED <<queue, joinLock, matches, fresh>>
      BY <1>4 DEF LeaveIndex, At
    <2>2. /\ q.inv \in RoomRecord /\ q.player \in Members(q.inv)
      BY <2>1 DEF ReqOK, LeavePC
    <2>3. CASE invites' = [invites EXCEPT ![q.room] = Nil] /\ Return(s)
      <3>1. invites' \in [Room -> RoomRecord \cup {Nil}]
        BY <2>3 DEF StoreOK
      <3>2. \A x \in Room : invites'[x] # Nil => Fits(invites'[x])
        BY <2>3 DEF StoreOK, RoomsFit
      <3>3. RoomsFit'
        BY <3>2 DEF RoomsFit, Fits, getInviteCapacity
      <3>4. StoreOK'
        BY <2>1, <3>1, <3>3, Dropped
      <3> QED BY <2>3, <3>4, Returned DEF IInv
    <2>4. CASE Len(q.inv.players) # 1 /\ Goto(s, "leaveSave") /\ UNCHANGED <<invites, jobs>>
      <3> DEFINE ps == q.inv.players
      <3>a. ps \in Seq(Player) /\ \E i \in DOMAIN ps : ps[i] = q.player
        BY <2>2 DEF Members, RoomRecord
      <3>b. Len(ps) # 1
        BY <2>4
      <3> HIDE DEF ps
      <3>c. Len(ps) \in Nat /\ DOMAIN ps = 1 .. Len(ps)
        BY <3>a
      <3>d. Len(ps) > 1
        BY <3>a, <3>b, <3>c
      <3>1. Len(q.inv.players) > 1
        BY <3>d DEF ps
      <3>2. ReqsOK'
        BY <2>1, <2>4, <3>1, GoneTo DEF PC, CheckPC, LeavePC, QueuePC, CancelPC
      <3>3. StoreOK'
        BY <2>1, <2>4, RoomsFitKept, Dropped DEF StoreOK
      <3> QED BY <3>2, <3>3 DEF IInv
    <2> QED BY <1>4, <2>3, <2>4 DEF LeaveIndex
  <1>5. CASE LeaveSave(s)
    <2> DEFINE room == WithoutPlayer(q.inv, q.player)
    <2>1. q.pc = "leaveSave" /\ saveInvite(q.room, room) /\ Return(s)
          /\ UNCHANGED <<playerInvite, queue, joinLock, matches, fresh>>
      BY <1>5 DEF LeaveSave, At
    <2>2. /\ q.inv \in RoomRecord /\ Fits(q.inv) /\ q.player \in Player
          /\ q.player \in Members(q.inv) /\ Len(q.inv.players) > 1
      BY <2>1 DEF ReqOK, LeavePC
    <2>3. room \in RoomRecord /\ Fits(room)
      BY <2>2, WithoutPlayerFits
    <2> HIDE DEF room
    <2>4. StoreOK'
      BY <2>1, <2>3, Saved DEF StoreOK
    <2> QED BY <2>1, <2>4, Returned DEF IInv
  <1>6. CASE CancelQueue(s)
    <2>1. StoreOK'
      BY <1>6, Unqueued, Requeued DEF CancelQueue
    <2>2. ReqsOK'
      BY <1>6, GoneTo DEF CancelQueue, At, PC, CheckPC, LeavePC, QueuePC, CancelPC
    <2> QED BY <2>1, <2>2 DEF IInv
  <1>7. CASE CancelSave(s)
    <2> DEFINE room == [q.inv EXCEPT !.status = "CANCELLED"]
    <2>1. q.pc = "cancelSave" /\ q.inv \in RoomRecord /\ Fits(q.inv)
      BY <1>7 DEF CancelSave, At, ReqOK, CancelPC
    <2>2. room \in RoomRecord /\ Fits(room)
      BY <2>1 DEF RoomRecord, RoomStatus, Fits, getInviteCapacity
    <2>3. saveInvite(q.room, room) /\ UNCHANGED <<playerInvite, queue, joinLock, matches, fresh>>
      BY <1>7 DEF CancelSave
    <2> HIDE DEF room
    <2>4. StoreOK'
      BY <2>2, <2>3, Saved DEF StoreOK
    <2>5. ReqsOK'
      BY <1>7, <2>1, GoneTo DEF CancelSave, PC, CheckPC, LeavePC, QueuePC, CancelPC
    <2> QED BY <2>4, <2>5 DEF IInv
  <1>8. CASE CancelIndex(s)
    <2>1. StoreOK'
      BY <1>8, RoomsFitKept, Dropped DEF CancelIndex, StoreOK
    <2> QED BY <1>8, <2>1, Returned DEF CancelIndex, IInv
  <1> QED BY <1>1, <1>2, <1>3, <1>4, <1>5, <1>6, <1>7, <1>8 DEF LeaveOrCancelStep

\* SET of a match whose teams are complete; its rooms are full.
LEMMA SaveMatchOK ==
    ASSUME IInv, NEW s \in Slot, NEW seen \in Seq(Seen), NEW match \in MatchRecord,
           SaveMatch(s, seen, match),
           \A i \in 1 .. 2 : Len(match.teams[i].participants) = match.teamSize,
           \A i \in DOMAIN seen : Fits(seen[i].inv) /\ seen[i].inv.status \in {"READY", "QUEUED"}
    PROVE  IInv'
  <1>0. StoreOK /\ ReqsOK /\ req[s] \in Request
    BY DEF IInv, ReqsOK
  <1>1. PICK m \in MatchId :
          /\ matches' = [matches EXCEPT ![m] = match]
          /\ Continue(s, [req[s] EXCEPT !.pc = "mark", !.seen = seen, !.made = m])
          /\ UNCHANGED <<invites, playerInvite, lapsing, queue, joinLock, fresh, jobs>>
    BY DEF SaveMatch
  <1> DEFINE n == [req[s] EXCEPT !.pc = "mark", !.seen = seen, !.made = m]
  <1>2. n \in Request /\ n.pc = "mark" /\ n.seen = seen
    BY <1>0 DEF Request, PC
  <1> HIDE DEF n
  <1>3. ReqOK(n)
    BY <1>2 DEF SeenOK, ReqOK, CheckPC, LeavePC, QueuePC, ScanPC, CancelPC
  <1>4. ReqsOK'
    BY <1>0, <1>1, <1>2, <1>3, Resume DEF n, ReqsOK
  <1>5. matches' \in [MatchId -> MatchRecord \cup {Nil}]
    BY <1>0, <1>1 DEF StoreOK
  <1>6. \A x \in MatchId : matches'[x] = IF x = m THEN match ELSE matches[x]
    BY <1>0, <1>1 DEF StoreOK
  <1>7. FullTeams'
    BY <1>0, <1>6 DEF StoreOK, FullTeams
  <1>8. StoreOK'
    BY <1>0, <1>1, <1>5, <1>7, RoomsFitKept DEF StoreOK
  <1> QED BY <1>4, <1>8 DEF IInv

\* The team of a full room of a RANDOM or CLAN match is complete (createTeam).
LEMMA TeamFull ==
    ASSUME NEW room \in RoomRecord, Fits(room), room.status \in {"READY", "QUEUED"},
           room.matchType # "CUSTOM"
    PROVE  createTeam(room) \in Team /\ Len(createTeam(room).participants) = room.teamSize
  BY ParticipantsLen DEF createTeam, Team, Fits, getInviteCapacity, RoomRecord

\* A team of bots is complete (createBotTeam).
LEMMA BotTeamFull ==
    ASSUME NEW room \in RoomRecord
    PROVE  createBotTeam(room) \in Team /\ Len(createBotTeam(room).participants) = room.teamSize
  <1>1. /\ Bots(room.teamSize) \in Seq(Player \cup {Bot})
        /\ Len(Bots(room.teamSize)) = room.teamSize
    BY DEF Bots, RoomRecord
  <1> DEFINE b == Bots(room.teamSize)
  <1> HIDE DEF b
  <1> QED BY <1>1 DEF createBotTeam, Team, b

\* A full custom room splits into two complete teams (createCustomTeams).
LEMMA CustomTeamsFull ==
    ASSUME NEW room \in RoomRecord, Fits(room), room.status = "READY",
           room.matchType = "CUSTOM"
    PROVE  /\ createCustomTeams(room) \in Team \X Team
           /\ \A i \in 1 .. 2 : Len(createCustomTeams(room)[i].participants) = room.teamSize
  <1> DEFINE all == getInviteParticipants(room)
             n   == room.teamSize
             a   == SubSeq(all, 1, n)
             b   == SubSeq(all, n + 1, 2 * n)
  <1>1. all \in Seq(Player \cup {Bot}) /\ Len(all) = 2 * n /\ n \in {1, 2}
    BY ParticipantsLen DEF Fits, getInviteCapacity, RoomRecord
  <1> HIDE DEF all, n
  <1>2. \A i \in 1 .. 2 * n : all[i] \in Player \cup {Bot}
    BY <1>1
  <1>3. a \in Seq(Player \cup {Bot}) /\ Len(a) = n
    BY <1>1, <1>2, SubSeqProperties
  <1>4. b \in Seq(Player \cup {Bot}) /\ Len(b) = n
    BY <1>1, <1>2, SubSeqProperties
  <1>5. createCustomTeams(room) =
          <<[clan |-> Nil, participants |-> a], [clan |-> Nil, participants |-> b]>>
    BY DEF createCustomTeams, all, n
  <1> HIDE DEF a, b
  <1> QED BY <1>3, <1>4, <1>5 DEF Team, n

\* Reading the queues, and the next queued room (getValidQueuedInvites).
LEMMA ScanReadOK ==
    ASSUME IInv, NEW s \in Slot, Scan(s) \/ ScanRead(s)
    PROVE  IInv'
  <1> DEFINE q == req[s]
  <1>0. StoreOK /\ ReqsOK /\ q \in Request /\ ReqOK(q)
    BY DEF IInv, ReqsOK
  <1>1. UNCHANGED redis /\ jobs' = jobs
    BY DEF Scan, ScanRead
  <1>2. StoreOK'
    BY <1>0, <1>1, StoreKept
  <1>3. q.pc \in {"scan", "scanRead"}
    BY DEF Scan, ScanRead, At
  <1>4. /\ q.inv \in RoomRecord /\ Fits(q.inv) /\ q.room \in Room
        /\ q.inv.status = "QUEUED" /\ q.inv.matchType # "CUSTOM"
    BY <1>0, <1>3 DEF ReqOK, ScanPC
  <1>5. CASE Scan(s)
    <2> DEFINE k == queueKey(q.inv)
               todo == queue[k]
               n == [q EXCEPT !.pc = "scanRead", !.todo = todo, !.seen = <<>>]
    <2>1. Continue(s, n)
      BY <1>5 DEF Scan
    <2>2. k \in QueueKey
      BY <1>4 DEF queueKey, QueueKey, RoomRecord
    <2>3. todo \in Seq(Room)
      BY <1>0, <2>2 DEF StoreOK
    <2> HIDE DEF k, todo
    <2>a. <<>> \in Seq(Seen)
      OBVIOUS
    <2>b. n \in Request
      BY <1>0, <2>3, <2>a DEF Request, PC
    <2>4. /\ n \in Request /\ n.pc = "scanRead" /\ n.inv = q.inv /\ n.room = q.room
          /\ n.seen = <<>>
      BY <1>0, <2>b DEF Request
    <2> HIDE DEF n
    <2>5. ReqOK(n)
      BY <1>0, <1>4, <2>4 DEF SeenOK, ReqOK, CheckPC, LeavePC, QueuePC, ScanPC, CancelPC
    <2>6. ReqsOK'
      BY <1>0, <1>1, <2>1, <2>4, <2>5, Resume DEF ReqsOK
    <2> QED BY <1>2, <2>6 DEF IInv
  <1>6. CASE ScanRead(s)
    <2> DEFINE r    == Head(q.todo)
               cand == [room |-> r, inv |-> invites[r]]
               seen == Found(q.seen, cand, q)
               n    == [q EXCEPT !.todo = Tail(q.todo), !.seen = seen]
    <2>1. q.pc = "scanRead" /\ q.todo # <<>> /\ q.todo \in Seq(Room)
      BY <1>0, <1>6 DEF ScanRead, At, Request
    <2>2. r \in Room /\ Tail(q.todo) \in Seq(Room)
      BY <2>1, HeadTailProperties
    <2>3. CASE Goto(s, "scanDrop")
      <3>1. ReqsOK'
        BY <1>0, <1>1, <2>1, <2>3, GoneTo DEF PC, CheckPC, LeavePC, QueuePC, CancelPC
      <3> QED BY <1>2, <3>1 DEF IInv
    <2>4. CASE cand.inv # Nil /\ ValidQueued(cand.inv, q.inv) /\ Continue(s, n)
      <3>1. /\ cand.inv \in RoomRecord /\ Fits(cand.inv) /\ cand.inv.status = "QUEUED"
            /\ cand.inv.matchType = q.inv.matchType /\ cand \in Seen
        BY <1>0, <2>2, <2>4 DEF StoreOK, RoomsFit, ValidQueued, Seen
      <3>2. Compatible(cand, q) => cand.inv.teamSize = q.inv.teamSize
        BY DEF Compatible
      <3>3. q.seen \in Seq(Seen) /\ SeenOK(q)
            /\ \A i \in DOMAIN q.seen : /\ q.seen[i].inv.matchType = q.inv.matchType
                                        /\ q.seen[i].inv.teamSize = q.inv.teamSize
        BY <1>0, <2>1 DEF ReqOK, Request
      <3> HIDE DEF cand, r
      <3>4. /\ seen \in Seq(Seen)
            /\ \A i \in DOMAIN seen : \/ i \in DOMAIN q.seen /\ seen[i] = q.seen[i]
                                      \/ Compatible(cand, q) /\ seen[i] = cand
        BY <3>1, <3>3 DEF Found
      <3> HIDE DEF seen
      <3>5. /\ n \in Request /\ n.pc = "scanRead" /\ n.inv = q.inv /\ n.room = q.room
            /\ n.seen = seen
        BY <1>0, <2>1, <2>2, <3>4 DEF Request, PC
      <3> HIDE DEF n
      <3>6. SeenOK(n)
        BY <3>1, <3>3, <3>4, <3>5 DEF SeenOK
      <3>7. \A i \in DOMAIN n.seen : /\ n.seen[i].inv.matchType = n.inv.matchType
                                     /\ n.seen[i].inv.teamSize = n.inv.teamSize
        BY <3>1, <3>2, <3>3, <3>4, <3>5
      <3>8. ReqOK(n)
        BY <1>4, <3>5, <3>6, <3>7 DEF ReqOK, CheckPC, LeavePC, QueuePC, ScanPC, CancelPC
      <3>9. ReqsOK'
        BY <1>0, <1>1, <2>4, <3>5, <3>8, Resume DEF ReqsOK
      <3> QED BY <1>2, <3>9 DEF IInv
    <2> QED BY <1>6, <2>3, <2>4 DEF ScanRead
  <1> QED BY <1>5, <1>6

\* A match of two rooms that fit is complete (createActiveMatch).
LEMMA ActiveMatchOK ==
    ASSUME IInv, NEW s \in Slot, NEW a \in Seen, NEW b \in Seen, createActiveMatch(s, a, b),
           \A x \in {a, b} : /\ Fits(x.inv) /\ x.inv.status \in {"READY", "QUEUED"}
                             /\ x.inv.matchType # "CUSTOM",
           b.inv.teamSize = a.inv.teamSize
    PROVE  IInv'
  <1> DEFINE ta == createTeam(a.inv)
             tb == createTeam(b.inv)
             match == NewMatch(a.inv, a.inv.matchType, <<ta, tb>>, {a.room, b.room})
  <1>1. a.inv \in RoomRecord /\ b.inv \in RoomRecord /\ a.room \in Room /\ b.room \in Room
    BY DEF Seen
  <1>2. /\ ta \in Team /\ Len(ta.participants) = a.inv.teamSize
        /\ tb \in Team /\ Len(tb.participants) = a.inv.teamSize
    BY <1>1, TeamFull
  <1>3. SaveMatch(s, <<a, b>>, match)
    BY DEF createActiveMatch
  <1> HIDE DEF ta, tb
  <1>4. match \in MatchRecord
    BY <1>1, <1>2 DEF NewMatch, MatchRecord, RoomRecord
  <1>5. \A i \in 1 .. 2 : Len(match.teams[i].participants) = match.teamSize
    BY <1>2 DEF NewMatch
  <1> HIDE DEF match
  <1>6. <<a, b>> \in Seq(Seen)
    OBVIOUS
  <1>7. \A i \in DOMAIN <<a, b>> :
          Fits(<<a, b>>[i].inv) /\ <<a, b>>[i].inv.status \in {"READY", "QUEUED"}
    OBVIOUS
  <1> QED BY <1>3, <1>4, <1>5, <1>6, <1>7, SaveMatchOK

\* A match of one room that fits is complete when its teams are.
LEMMA MatchAloneOK ==
    ASSUME IInv, NEW s \in Slot, NEW teams \in Team \X Team, MatchAlone(s, teams),
           req[s].room \in Room, req[s].inv \in RoomRecord, Fits(req[s].inv),
           req[s].inv.status \in {"READY", "QUEUED"},
           \A i \in 1 .. 2 : Len(teams[i].participants) = req[s].inv.teamSize
    PROVE  IInv'
  <1> DEFINE q     == req[s]
             a     == [room |-> q.room, inv |-> q.inv]
             match == NewMatch(q.inv, q.inv.matchType, teams, {q.room})
  <1>1. SaveMatch(s, <<a>>, match)
    BY DEF MatchAlone
  <1>2. match \in MatchRecord
    BY DEF NewMatch, MatchRecord, RoomRecord
  <1>3. \A i \in 1 .. 2 : Len(match.teams[i].participants) = match.teamSize
    BY DEF NewMatch
  <1> HIDE DEF match
  <1>4. a \in Seen /\ Fits(a.inv) /\ a.inv.status \in {"READY", "QUEUED"}
    BY DEF Seen
  <1> HIDE DEF a
  <1>5. <<a>> \in Seq(Seen)
    BY <1>4
  <1>6. \A i \in DOMAIN <<a>> : Fits(<<a>>[i].inv) /\ <<a>>[i].inv.status \in {"READY", "QUEUED"}
    BY <1>4
  <1> QED BY <1>1, <1>2, <1>3, <1>5, <1>6, SaveMatchOK

\* All queued rooms are read: a match, a timeout to schedule, or nothing.
LEMMA PairOK ==
    ASSUME IInv, NEW s \in Slot, Pair(s)
    PROVE  IInv'
  <1> DEFINE q    == req[s]
             seen == q.seen
             own  == [room |-> q.room, inv |-> q.inv]
  <1>0. StoreOK /\ ReqsOK /\ q \in Request /\ ReqOK(q)
    BY DEF IInv, ReqsOK
  <1>1. q.pc = "scanRead"
    BY DEF Pair, At
  <1>2. /\ q.inv \in RoomRecord /\ Fits(q.inv) /\ q.room \in Room
        /\ q.inv.status = "QUEUED" /\ q.inv.matchType # "CUSTOM"
    BY <1>0, <1>1 DEF ReqOK, ScanPC
  <1>3. /\ seen \in Seq(Seen)
        /\ \A i \in DOMAIN seen :
              /\ Fits(seen[i].inv) /\ seen[i].inv.status \in {"READY", "QUEUED"}
              /\ seen[i].inv.matchType = q.inv.matchType
              /\ seen[i].inv.teamSize = q.inv.teamSize
    BY <1>0, <1>1 DEF ReqOK, SeenOK, Request
  <1>4. own \in Seen /\ own.inv = q.inv
    BY <1>2 DEF Seen
  <1> HIDE DEF seen
  <1>5. CASE Len(seen) >= 2 /\ createActiveMatch(s, seen[1], seen[2])
    <2>1. 1 \in DOMAIN seen /\ 2 \in DOMAIN seen /\ seen[1] \in Seen /\ seen[2] \in Seen
      BY <1>3, <1>5
    <2> QED BY <1>2, <1>3, <1>5, <2>1, ActiveMatchOK
  <1>6. CASE Len(seen) >= 1 /\ createActiveMatch(s, own, seen[1])
    <2>1. 1 \in DOMAIN seen /\ seen[1] \in Seen
      BY <1>3, <1>6
    <2> HIDE DEF own
    <2> QED BY <1>2, <1>3, <1>4, <1>6, <2>1, ActiveMatchOK
  <1>7. CASE Return(s) /\ UNCHANGED redis
    BY <1>0, <1>7, Returned, StoreKept DEF IInv
  <1>8. CASE Goto(s, "schedule") /\ UNCHANGED <<redis, jobs>>
    BY <1>0, <1>8, GoneTo, StoreKept DEF PC, CheckPC, LeavePC, QueuePC, CancelPC, IInv
  <1>9. CASE MatchAlone(s, <<createTeam(q.inv), createBotTeam(q.inv)>>)
    <2> DEFINE ta == createTeam(q.inv)
               tb == createBotTeam(q.inv)
    <2>1. /\ ta \in Team /\ Len(ta.participants) = q.inv.teamSize
          /\ tb \in Team /\ Len(tb.participants) = q.inv.teamSize
      BY <1>2, TeamFull, BotTeamFull
    <2>2. MatchAlone(s, <<ta, tb>>)
      BY <1>9
    <2> HIDE DEF ta, tb
    <2>3. <<ta, tb>> \in Team \X Team
          /\ \A i \in 1 .. 2 : Len(<<ta, tb>>[i].participants) = q.inv.teamSize
      BY <2>1
    <2> QED BY <1>2, <2>2, <2>3, MatchAloneOK
  <1> QED BY <1>5, <1>6, <1>7, <1>8, <1>9 DEF Pair, seen

\* The rooms of a match are stored as they were read, MATCHED (markInviteMatched).
LEMMA MarkOK ==
    ASSUME IInv, NEW s \in Slot, Mark(s)
    PROVE  IInv'
  <1> DEFINE q     == req[s]
             seen  == q.seen
             rooms == SeenRooms(seen)
             Of(r) == CHOOSE i \in DOMAIN seen : seen[i].room = r
             k     == queueKey(seen[1].inv)
  <1>0. StoreOK /\ ReqsOK /\ q \in Request /\ ReqOK(q)
    BY DEF IInv, ReqsOK
  <1>1. /\ seen \in Seq(Seen)
        /\ \A i \in DOMAIN seen : /\ Fits(seen[i].inv)
                                  /\ seen[i].inv.status \in {"READY", "QUEUED"}
    BY <1>0 DEF ReqOK, SeenOK, Request
  <1>2. q.made \in MatchId \cup {Nil}
    BY <1>0 DEF Request
  <1>3. ASSUME NEW r \in rooms
        PROVE  /\ MatchedRoom(seen[Of(r)].inv, q.made) \in RoomRecord
               /\ Fits(MatchedRoom(seen[Of(r)].inv, q.made))
    <2> DEFINE i == Of(r)
               inv == seen[i].inv
    <2>1. i \in DOMAIN seen
      BY <1>3 DEF SeenRooms
    <2> HIDE DEF i, seen
    <2>a. seen[i] \in Seen
      BY <1>1, <2>1
    <2>2. inv \in RoomRecord /\ Fits(inv) /\ inv.status \in {"READY", "QUEUED"}
      BY <1>1, <2>1, <2>a DEF Seen
    <2> HIDE DEF inv
    <2>3. MatchedRoom(inv, q.made) \in RoomRecord /\ Fits(MatchedRoom(inv, q.made))
      BY <1>2, <2>2 DEF MatchedRoom, RoomRecord, RoomStatus, Fits, getInviteCapacity
    <2> QED BY <2>3 DEF inv, i, seen
  <1>4. invites' = [r \in Room |-> IF r \in rooms
                      THEN MatchedRoom(seen[Of(r)].inv, q.made) ELSE invites[r]]
    BY DEF Mark
  <1> HIDE DEF rooms
  <1>5. \A r \in Room : invites'[r] # Nil => invites'[r] \in RoomRecord /\ Fits(invites'[r])
    BY <1>0, <1>3, <1>4 DEF StoreOK, RoomsFit
  <1>6. invites' \in [Room -> RoomRecord \cup {Nil}]
    BY <1>0, <1>3, <1>4 DEF StoreOK
  <1>7. RoomsFit'
    BY <1>5 DEF RoomsFit, Fits, getInviteCapacity
  <1>8. queue' \in [QueueKey -> Seq(Room)]
    <2>1. ASSUME NEW x, k \in QueueKey PROVE Without(queue[k], x) \in Seq(Room)
      BY <1>0, <2>1, WithoutOne DEF StoreOK
    <2>2. ASSUME NEW x, NEW y, k \in QueueKey
          PROVE  Without(Without(queue[k], x), y) \in Seq(Room)
      BY <2>1, <2>2, WithoutOne
    <2>3. queue' = [queue EXCEPT ![k] = IF Len(seen) = 1 THEN Without(queue[k], seen[1].room)
                      ELSE Without(Without(queue[k], seen[1].room), seen[2].room)]
      BY DEF Mark
    <2> HIDE DEF k, seen
    <2> QED BY <1>0, <2>1, <2>2, <2>3 DEF StoreOK
  <1>9. lapsing' \subseteq Player /\ UNCHANGED <<playerInvite, joinLock, matches, fresh, jobs>>
    BY <1>0 DEF Mark, StoreOK
  <1>10. StoreOK'
    BY <1>0, <1>6, <1>7, <1>8, <1>9 DEF StoreOK, FullTeams
  <1>11. Goto(s, "markIndex")
    BY DEF Mark
  <1>12. ReqsOK'
    BY <1>0, <1>9, <1>11, GoneTo DEF PC, CheckPC, LeavePC, QueuePC, CancelPC
  <1> QED BY <1>10, <1>12 DEF IInv

\* The steps of a start request and of a timeout.
LEMMA StartStepOK ==
    ASSUME IInv, NEW s \in Slot, StartStep(s)
    PROVE  IInv'
  <1> DEFINE q == req[s]
  <1>0. StoreOK /\ ReqsOK /\ q \in Request /\ ReqOK(q)
    BY DEF IInv, ReqsOK
  <1> USE <1>0
  <1>1. CASE QueueRead(s)
    <2>1. q.pc = "queueRead" /\ UNCHANGED redis /\ jobs' = jobs
      BY <1>1 DEF QueueRead, At
    <2>2. Goto(s, "queueSave") \/ Goto(s, "queuePush")
      BY <1>1 DEF QueueRead
    <2>3. ReqsOK'
      BY <2>1, <2>2, GoneTo DEF PC, CheckPC, LeavePC, QueuePC, CancelPC
    <2> QED BY <2>1, <2>3, StoreKept DEF IInv
  <1>2. CASE QueuePush(s)
    <2> DEFINE k == queueKey(q.inv)
    <2>1. q.pc = "queuePush" /\ jobs' = jobs /\ rpush(k, q.room) /\ Goto(s, "queueSave")
          /\ UNCHANGED <<invites, playerInvite, lapsing, joinLock, matches, fresh>>
      BY <1>2 DEF QueuePush, At
    <2>2. q.room \in Room
      BY <2>1 DEF ReqOK, QueuePC
    <2>3. ASSUME k \in QueueKey PROVE Append(queue[k], q.room) \in Seq(Room)
      BY <2>2, <2>3 DEF StoreOK
    <2> HIDE DEF k
    <2>4. queue' \in [QueueKey -> Seq(Room)]
      BY <2>1, <2>3 DEF rpush, StoreOK
    <2>5. ReqsOK'
      BY <2>1, GoneTo DEF PC, CheckPC, LeavePC, QueuePC, CancelPC
    <2> QED BY <2>1, <2>4, <2>5, Requeued DEF IInv
  <1>3. CASE QueueSave(s)
    <2> DEFINE room == [q.inv EXCEPT !.status = "QUEUED"]
               n    == [q EXCEPT !.pc = "scan", !.inv = room]
    <2>1. /\ q.pc = "queueSave" /\ saveInvite(q.room, room) /\ Continue(s, n)
          /\ UNCHANGED <<playerInvite, queue, joinLock, matches, fresh, jobs>>
      BY <1>3 DEF QueueSave, At
    <2>2. /\ q.inv \in RoomRecord /\ Fits(q.inv) /\ q.room \in Room
          /\ q.inv.status = "READY" /\ q.inv.matchType # "CUSTOM"
      BY <2>1 DEF ReqOK, QueuePC
    <2>3. /\ room \in RoomRecord /\ Fits(room)
          /\ room.status = "QUEUED" /\ room.matchType # "CUSTOM"
      BY <2>2 DEF RoomRecord, RoomStatus, Fits, getInviteCapacity
    <2> HIDE DEF room
    <2>4. StoreOK'
      BY <2>1, <2>3, Saved DEF StoreOK
    <2>5. /\ n \in Request /\ n.pc = "scan" /\ n.inv = room /\ n.room = q.room
          /\ n.seen = q.seen
      BY <2>3 DEF Request, PC
    <2> HIDE DEF n
    <2>6. ReqOK(n)
      BY <2>2, <2>3, <2>5 DEF SeenOK, ReqOK, CheckPC, LeavePC, QueuePC, ScanPC, CancelPC
    <2>7. ReqsOK'
      BY <2>1, <2>5, <2>6, Resume DEF ReqsOK
    <2> QED BY <2>4, <2>7 DEF IInv
  <1>4. CASE Scan(s) \/ ScanRead(s)
    BY <1>4, ScanReadOK
  <1>5. CASE ScanDrop(s)
    <2> DEFINE r == Head(q.todo)
               n == [q EXCEPT !.pc = "scanRead", !.todo = Tail(q.todo)]
    <2>1. /\ q.pc = "scanDrop" /\ removeInviteFromQueue(queueKey(q.inv), r) /\ Continue(s, n)
          /\ UNCHANGED <<invites, playerInvite, lapsing, joinLock, matches, fresh, jobs>>
      BY <1>5 DEF ScanDrop, At
    <2>2. Tail(q.todo) \in Seq(Room)
      BY <2>1, HeadTailProperties DEF ReqOK, Request
    <2>3. StoreOK'
      BY <2>1, Unqueued, Requeued
    <2>4. /\ n \in Request /\ n.pc = "scanRead" /\ n.inv = q.inv /\ n.room = q.room
          /\ n.seen = q.seen
      BY <2>2 DEF Request, PC
    <2> HIDE DEF n
    <2>5. ReqOK(n)
      BY <2>1, <2>4 DEF SeenOK, ReqOK, CheckPC, LeavePC, QueuePC, ScanPC, CancelPC
    <2>6. ReqsOK'
      BY <2>1, <2>4, <2>5, Resume DEF ReqsOK
    <2> QED BY <2>3, <2>6 DEF IInv
  <1>6. CASE Pair(s)
    BY <1>6, PairOK
  <1>7. CASE Custom(s)
    <2> DEFINE teams == createCustomTeams(q.inv)
    <2>1. q.pc = "custom" /\ MatchAlone(s, teams)
      BY <1>7 DEF Custom, At
    <2>2. /\ q.inv \in RoomRecord /\ Fits(q.inv) /\ q.room \in Room
          /\ q.inv.status = "READY" /\ q.inv.matchType = "CUSTOM"
      BY <2>1 DEF ReqOK
    <2>3. /\ teams \in Team \X Team
          /\ \A i \in 1 .. 2 : Len(teams[i].participants) = q.inv.teamSize
      BY <2>2, CustomTeamsFull
    <2> HIDE DEF teams
    <2> QED BY <2>1, <2>2, <2>3, MatchAloneOK
  <1>8. CASE Mark(s)
    BY <1>8, MarkOK
  <1>9. CASE MarkIndex(s)
    <2>1. StoreOK'
      BY <1>9, RoomsFitKept, Dropped DEF MarkIndex, StoreOK
    <2> QED BY <1>9, <2>1, Returned DEF MarkIndex, IInv
  <1>10. CASE Schedule(s)
    <2>1. jobs' \in [Room -> JobState] /\ Continue(s, Idle)
      BY <1>10 DEF Schedule, ReqsOK, JobState, Continue
    <2>2. ReqsOK'
      BY <2>1, IdleOK, Resume
    <2> QED BY <1>10, <2>2, StoreKept DEF Schedule, IInv
  <1>11. CASE JobDone(s)
    BY <1>11, Returned, StoreKept DEF JobDone, IInv
  <1> QED BY <1>1, <1>2, <1>3, <1>4, <1>5, <1>6, <1>7, <1>8, <1>9, <1>10, <1>11 DEF StartStep

\* Taking a call or a due job, an expiry and a crash.
LEMMA CallOK ==
    ASSUME IInv, NEW s \in Slot, Call(s)
    PROVE  IInv'
  <1>0. StoreOK /\ ReqsOK /\ \A r \in Room : invites[r] # Nil =>
          invites[r] \in RoomRecord /\ Fits(invites[r])
    BY DEF IInv, StoreOK, RoomsFit
  <1>a. jobs' = jobs => jobs' \in [Room -> JobState]
    BY <1>0 DEF ReqsOK
  <1> USE <1>0
  <1>1. ASSUME NEW p \in Player, NEW b \in Bodies, createInvite(s, p, b) PROVE IInv'
    <2>0. PICK clan \in ClansOf[p] :
            CheckIndexThen(s, [Idle EXCEPT !.op = "create", !.player = p,
                                           !.inv = NewRoom(p, clan, b)])
      BY <1>1 DEF createInvite
    <2> DEFINE room == NewRoom(p, clan, b)
               n    == [Idle EXCEPT !.op = "create", !.player = p, !.inv = room]
    <2>1. CheckIndexThen(s, n) /\ UNCHANGED redis /\ jobs' = jobs
      BY <1>1, <2>0 DEF createInvite
    <2>2. room \in RoomRecord /\ Fits(room)
      <3>1. clan \in Clan \cup {Nil} /\ b \in Body
        BY ClansOfAssumption, BodiesAssumption
      <3> QED BY <3>1, NewRoomFits
    <2> HIDE DEF room
    <2>3. n \in Request /\ n.op = "create" /\ n.player = p /\ n.inv = room /\ n.seen = <<>>
      BY <2>2, IdleOK DEF Request, PC, Op, Handler
    <2> HIDE DEF n
    <2>4. ReqsOK'
      BY <2>1, <2>2, <2>3, CheckIndexThenOK DEF SeenOK
    <2> QED BY <2>1, <2>4, StoreKept DEF IInv
  <1>2. ASSUME NEW p \in Player, NEW r \in Room, joinInvite(s, p, r) PROVE IInv'
    <2> DEFINE n == [Idle EXCEPT !.pc = "joinRead", !.op = "join", !.player = p, !.room = r]
    <2>1. n \in Request /\ n.pc = "joinRead" /\ n.player = p /\ n.room = r /\ n.seen = <<>>
      BY IdleOK, ZenonT(40) DEF Request, PC, Op, Handler
    <2>2. Continue(s, n) /\ jobs' = jobs /\ joinLock' = [joinLock EXCEPT ![r] = s]
          /\ UNCHANGED <<invites, playerInvite, lapsing, queue, matches, fresh>>
      BY <1>2 DEF joinInvite
    <2> HIDE DEF n
    <2>3. ReqOK(n)
      BY <2>1 DEF SeenOK, ReqOK, CheckPC, LeavePC, QueuePC, ScanPC, CancelPC
    <2>4. ReqsOK'
      BY <1>a, <2>1, <2>2, <2>3, Resume
    <2>5. StoreOK'
      BY <2>2, RoomsFitKept DEF StoreOK, FullTeams
    <2> QED BY <2>4, <2>5 DEF IInv
  <1>3. ASSUME NEW p \in Player, NEW r \in Room, startRoom(s, p, r) PROVE IInv'
    <2> DEFINE room == invites[r]
               pc   == IF room.matchType = "CUSTOM" THEN "custom" ELSE "queueRead"
               n    == [Idle EXCEPT !.op = "start", !.player = p, !.room = r, !.inv = room,
                                    !.pc = pc]
    <2>1. /\ room \in RoomRecord /\ Fits(room) /\ room.status = "READY"
          /\ Continue(s, n) /\ UNCHANGED redis /\ jobs' = jobs
      BY <1>3 DEF startRoom, MayStart
    <2>a. /\ pc \in {"custom", "queueRead"}
          /\ pc = "custom" => room.matchType = "CUSTOM"
          /\ pc = "queueRead" => room.matchType # "CUSTOM"
      OBVIOUS
    <2> HIDE DEF room, pc
    <2>2. n \in Request /\ n.pc = pc /\ n.room = r /\ n.inv = room /\ n.seen = <<>>
      BY <2>1, <2>a, IdleOK, ZenonT(40) DEF Request, PC, Op, Handler
    <2> HIDE DEF n
    <2>3. ReqOK(n)
      BY <2>1, <2>2, <2>a DEF SeenOK, ReqOK, CheckPC, LeavePC, QueuePC, ScanPC, CancelPC
    <2>4. ReqsOK'
      BY <1>a, <2>1, <2>2, <2>3, Resume
    <2> QED BY <2>1, <2>4, StoreKept DEF IInv
  <1>4. ASSUME NEW p \in Player, NEW r \in Room, cancelInvite(s, p, r) PROVE IInv'
    <2> DEFINE room == invites[r]
               op   == IF Has(room, {"CANCELLED"}) THEN "recancel" ELSE "cancel"
               n    == [Idle EXCEPT !.pc = "cancelQueue", !.op = op, !.player = p,
                                    !.room = r, !.inv = room]
    <2>1. /\ room \in RoomRecord /\ Fits(room)
          /\ Continue(s, n) /\ UNCHANGED redis /\ jobs' = jobs
      BY <1>4 DEF cancelInvite, MayCancel
    <2>2. op \in Op
      BY DEF Op, Handler
    <2> HIDE DEF room, op
    <2>3. n \in Request /\ n.pc = "cancelQueue" /\ n.inv = room /\ n.seen = <<>>
      BY <2>1, <2>2, IdleOK DEF Request, PC
    <2> HIDE DEF n
    <2>4. ReqOK(n)
      BY <2>1, <2>3 DEF SeenOK, ReqOK, CheckPC, LeavePC, QueuePC, ScanPC, CancelPC
    <2>5. ReqsOK'
      BY <1>a, <2>1, <2>3, <2>4, Resume
    <2> QED BY <2>1, <2>5, StoreKept DEF IInv
  <1>5. ASSUME NEW p \in Player, leaveRoom(s, p) \/ sendInvite(s, p) PROVE IInv'
    <2>1. PICK op \in {"leave", "send"} : GetOwnRoom(s, op, p)
      BY <1>5 DEF leaveRoom, sendInvite
    <2> DEFINE n == [Idle EXCEPT !.pc = "ownRead", !.op = op, !.player = p,
                                 !.room = playerInvite[p]]
    <2>2. Continue(s, n) /\ UNCHANGED redis /\ jobs' = jobs /\ playerInvite[p] \in Room
      BY <2>1 DEF GetOwnRoom, StoreOK
    <2>3. n \in Request /\ n.pc = "ownRead" /\ n.player = p /\ n.room = playerInvite[p]
          /\ n.seen = <<>>
      BY <2>2, IdleOK, ZenonT(40) DEF Request, PC, Op, Handler
    <2> HIDE DEF n
    <2>4. ReqOK(n)
      BY <2>2, <2>3 DEF SeenOK, ReqOK, CheckPC, LeavePC, QueuePC, ScanPC, CancelPC
    <2>5. ReqsOK'
      BY <1>a, <2>2, <2>3, <2>4, Resume
    <2> QED BY <2>2, <2>5, StoreKept DEF IInv
  <1> QED BY <1>1, <1>2, <1>3, <1>4, <1>5 DEF Call

\* A due timeout job is taken.
LEMMA TimeoutOK ==
    ASSUME IInv, NEW r \in Room, Timeout(r)
    PROVE  IInv'
  <1> DEFINE room   == invites[r]
             queued == Has(room, {"QUEUED"}) /\ room.matchType = "CLAN"
             pc     == IF queued THEN "scan" ELSE "jobDone"
             inv    == IF queued THEN room ELSE Nil
             n      == [Idle EXCEPT !.op = "timeout", !.room = r, !.pc = pc, !.inv = inv]
  <1>0. StoreOK /\ ReqsOK
    BY DEF IInv
  <1>1. PICK s \in Slot : handleClanOpponentTimeout(s, r)
    BY DEF Timeout
  <1>2. /\ Continue(s, n) /\ UNCHANGED redis
        /\ jobs' = [jobs EXCEPT ![r] = "active"]
    BY <1>1 DEF handleClanOpponentTimeout
  <1>3. room # Nil => room \in RoomRecord /\ Fits(room)
    BY <1>0 DEF StoreOK, RoomsFit
  <1>4. \/ pc = "jobDone" /\ inv = Nil
        \/ /\ pc = "scan" /\ inv \in RoomRecord /\ Fits(inv)
           /\ inv.status = "QUEUED" /\ inv.matchType # "CUSTOM"
    BY <1>3 DEF Has
  <1> HIDE DEF pc, inv
  <1>5. n \in Request /\ n.pc = pc /\ n.room = r /\ n.inv = inv /\ n.seen = <<>>
    BY <1>4, IdleOK, ZenonT(40) DEF Request, PC, Op
  <1> HIDE DEF n
  <1>6. ReqOK(n)
    BY <1>4, <1>5 DEF SeenOK, ReqOK, CheckPC, LeavePC, QueuePC, ScanPC, CancelPC
  <1>7. jobs' \in [Room -> JobState]
    BY <1>0, <1>2 DEF ReqsOK, JobState
  <1> QED BY <1>0, <1>2, <1>5, <1>6, <1>7, Resume, StoreKept DEF IInv

\* The requests stay legal when neither they nor the jobs change.
LEMMA ReqsKept ==
    ASSUME ReqsOK, req' = req, jobs' = jobs
    PROVE  ReqsOK'
  BY DEF ReqsOK

\* A key expires.
LEMMA ExpireOK ==
    ASSUME IInv, Expire
    PROVE  IInv'
  <1>0. StoreOK /\ ReqsOK
    BY DEF IInv
  <1>1. ReqsOK'
    BY <1>0, ReqsKept DEF Expire, ExpireRoom, ExpireIndex, ExpireLock
  <1>2. ASSUME NEW r \in Room, ExpireRoom(r) PROVE StoreOK'
    <2>1. invites' = [invites EXCEPT ![r] = Nil]
          /\ UNCHANGED <<playerInvite, lapsing, queue, joinLock, matches, fresh>>
      BY <1>2 DEF ExpireRoom
    <2>2. \A x \in Room : invites'[x] # Nil => Fits(invites'[x])
      BY <1>0, <2>1 DEF StoreOK, RoomsFit
    <2>3. RoomsFit'
      BY <2>2 DEF RoomsFit, Fits, getInviteCapacity
    <2> QED BY <1>0, <2>1, <2>3 DEF StoreOK, FullTeams
  <1>3. ASSUME NEW p \in Player, ExpireIndex(p) PROVE StoreOK'
    BY <1>0, <1>3, RoomsFitKept, Dropped DEF ExpireIndex, StoreOK
  <1>4. ASSUME NEW r \in Room, ExpireLock(r) PROVE StoreOK'
    BY <1>0, <1>4, RoomsFitKept DEF ExpireLock, StoreOK, FullTeams
  <1> QED BY <1>1, <1>2, <1>3, <1>4 DEF Expire, IInv

\* A server stops in the middle of a request.
LEMMA CrashOK ==
    ASSUME IInv, NEW s \in Slot, Crash(s)
    PROVE  IInv'
  <1>0. StoreOK /\ ReqsOK
    BY DEF IInv
  <1>1. jobs' \in [Room -> JobState] /\ Continue(s, Idle) /\ UNCHANGED redis
    BY <1>0 DEF Crash, Continue, ReqsOK, JobState
  <1> QED BY <1>0, <1>1, IdleOK, Resume, StoreKept DEF IInv

\* The inductive invariant.
LEMMA Inductive == Spec => []IInv
  <1>1. Init => IInv
    <2> SUFFICES ASSUME Init PROVE IInv
      OBVIOUS
    <2>1. StoreOK
      BY DEF Init, StoreOK, RoomsFit, FullTeams
    <2>2. ReqsOK
      BY IdleOK DEF Init, ReqsOK, JobState
    <2> QED BY <2>1, <2>2 DEF IInv
  <1>2. IInv /\ [Next]_vars => IInv'
    <2> SUFFICES ASSUME IInv, [Next]_vars PROVE IInv'
      OBVIOUS
    <2>1. ASSUME NEW s \in Slot, Call(s) \/ Step(s) \/ Crash(s) PROVE IInv'
      BY <2>1, CallOK, CreateOrJoinStepOK, LeaveOrCancelStepOK, StartStepOK, CrashOK DEF Step
    <2>2. ASSUME NEW r \in Room, Timeout(r) PROVE IInv'
      BY <2>2, TimeoutOK
    <2>3. CASE Expire
      BY <2>3, ExpireOK
    <2>4. CASE UNCHANGED vars
      BY <2>4, StoreKept, ReqsKept DEF vars, redis, IInv
    <2> QED BY <2>1, <2>2, <2>3, <2>4 DEF Next
  <1> QED BY <1>1, <1>2, PTL DEF Spec

\* Whatever is stored in Redis, and whatever a request in flight holds, has its
\* type: no handler stores what another cannot read (saveInvite, saveActiveMatch).
THEOREM TypeCorrect == Spec => []TypeOK
  <1>1. IInv => TypeOK
    BY DEF IInv, StoreOK, ReqsOK, TypeOK
  <1> QED BY <1>1, Inductive, PTL

\* For any number of players, rooms and requests, with crashes and expiries: a
\* stored room never has more participants than places nor a player twice, and
\* is READY, QUEUED or MATCHED only when it is full (recalculateInvite).
THEOREM RoomsAlwaysFit == Spec => []RoomsFit
  <1>1. IInv => RoomsFit
    BY DEF IInv, StoreOK
  <1> QED BY <1>1, Inductive, PTL

\* Every match ever made has two complete teams, although it is made from rooms
\* read some commands earlier, which may have changed or gone since
\* (createActiveMatch, createClanBotMatch, createCustomMatch).
THEOREM TeamsAlwaysFull == Spec => []FullTeams
  <1>1. IInv => FullTeams
    BY DEF IInv, StoreOK
  <1> QED BY <1>1, Inductive, PTL
----------------------------------------------------------------------------
\* A join holds the lock of its room from taking it to giving it back, so the
\* lock names at most one join; and no join goes on to store a new room, which
\* would leave it with a room other than the one it locked.
JoinsLocked ==
    \A s \in Slot :
        /\ req[s].op = "join" => req[s].room \in Room /\ joinLock[req[s].room] = s
        /\ At(s, "saveRoom") => req[s].op # "join"

\* A request that goes on for the same room keeps the locks.
LEMMA LockKept ==
    ASSUME ReqsOK, JoinsLocked, NEW s \in Slot, NEW q, Continue(s, q), joinLock' = joinLock,
           q.op = "join" => req[s].op = "join" /\ q.room = req[s].room,
           q.pc = "saveRoom" => q.op # "join"
    PROVE  JoinsLocked'
  <1>1. \A t \in Slot : req'[t] = IF t = s THEN q ELSE req[t]
    BY DEF Continue, ReqsOK
  <1> QED BY <1>1 DEF JoinsLocked, At

\* So does one that goes on to another step or returns.
LEMMA LockGoneTo ==
    ASSUME ReqsOK, JoinsLocked, NEW s \in Slot, joinLock' = joinLock,
           Return(s) \/ \E l \in PC \ {"saveRoom"} : Goto(s, l)
    PROVE  JoinsLocked'
  <1>0. req[s] \in Request
    BY DEF ReqsOK
  <1>1. CASE Return(s)
    <2>1. Continue(s, Idle) /\ Idle.op = "none" /\ Idle.pc = "idle"
      BY <1>1 DEF Return, Continue, Idle
    <2> QED BY <2>1, LockKept
  <1>2. ASSUME NEW l \in PC \ {"saveRoom"}, Goto(s, l) PROVE JoinsLocked'
    <2> DEFINE n == [req[s] EXCEPT !.pc = l]
    <2>1. n.op = req[s].op /\ n.room = req[s].room /\ n.pc = l
      BY <1>0 DEF Request
    <2>2. Continue(s, n)
      BY <1>2 DEF Goto
    <2> HIDE DEF n
    <2> QED BY <1>2, <2>1, <2>2, LockKept
  <1> QED BY <1>1, <1>2

\* After the index is checked a create stores its room, a join its player.
LEMMA LockChecked ==
    ASSUME ReqsOK, JoinsLocked, NEW s \in Slot, NEW q \in Request, joinLock' = joinLock,
           CheckIndexThen(s, q) \/ Continue(s, Checked(q)),
           q.op = "join" => req[s].op = "join" /\ q.room = req[s].room
    PROVE  JoinsLocked'
  <1> DEFINE r == playerInvite[q.player]
             a == Checked(q)
             b == [q EXCEPT !.pc = "checkRoom", !.other = r]
  <1>1. /\ a.op = q.op /\ a.room = q.room
        /\ a.pc = "saveRoom" => q.op = "create"
    BY DEF Checked, Request
  <1> HIDE DEF r
  <1>2. b.op = q.op /\ b.room = q.room /\ b.pc = "checkRoom"
    BY DEF Request
  <1>3. Continue(s, a) \/ Continue(s, b)
    BY DEF CheckIndexThen, r
  <1> HIDE DEF a, b
  <1> QED BY <1>1, <1>2, <1>3, LockKept

LEMMA LockCreateOrJoin ==
    ASSUME IInv, JoinsLocked, NEW s \in Slot, CreateOrJoinStep(s)
    PROVE  JoinsLocked'
  <1> DEFINE q == req[s]
  <1>0. ReqsOK /\ q \in Request
    BY DEF IInv, ReqsOK
  <1>1. CASE CheckIndex(s)
    BY <1>0, <1>1, LockChecked DEF CheckIndex, redis
  <1>2. CASE CheckRoom(s)
    BY <1>0, <1>2, LockGoneTo DEF CheckRoom, redis, PC
  <1>3. CASE DropIndex(s)
    BY <1>0, <1>3, LockChecked DEF DropIndex
  <1>4. CASE SaveRoom(s)
    <2>1. CASE Return(s) /\ UNCHANGED redis
      BY <1>0, <2>1, LockGoneTo DEF redis
    <2>2. ASSUME NEW r, Continue(s, [q EXCEPT !.pc = "setIndex", !.room = r]),
                 joinLock' = joinLock
          PROVE  JoinsLocked'
      <3> DEFINE n == [q EXCEPT !.pc = "setIndex", !.room = r]
      <3>1. n.op = q.op /\ n.pc = "setIndex"
        BY <1>0 DEF Request
      <3>2. q.op # "join"
        BY <1>4 DEF SaveRoom, JoinsLocked, At
      <3> HIDE DEF n
      <3> QED BY <1>0, <2>2, <3>1, <3>2, LockKept DEF n
    <2> QED BY <1>4, <2>1, <2>2 DEF SaveRoom
  <1>5. CASE SetIndex(s)
    BY <1>0, <1>5, LockGoneTo DEF SetIndex, PC
  <1>6. CASE JoinRead(s)
    <2>1. joinLock' = joinLock
      BY <1>6 DEF JoinRead, redis
    <2>2. ASSUME NEW room, Continue(s, [q EXCEPT !.pc = "checkIndex", !.inv = room])
          PROVE  JoinsLocked'
      <3> DEFINE n == [q EXCEPT !.pc = "checkIndex", !.inv = room]
      <3>1. n.op = q.op /\ n.room = q.room /\ n.pc = "checkIndex"
        BY <1>0 DEF Request
      <3> HIDE DEF n
      <3> QED BY <1>0, <2>1, <2>2, <3>1, LockKept DEF n
    <2> QED BY <1>0, <1>6, <2>1, <2>2, LockGoneTo DEF JoinRead, PC
  <1>7. CASE JoinSave(s)
    BY <1>0, <1>7, LockGoneTo DEF JoinSave, PC, redis
  <1>8. CASE Unlock(s)
    <2>1. /\ joinLock' = [joinLock EXCEPT ![q.room] = IF joinLock[q.room] = s THEN Nil
                                                      ELSE joinLock[q.room]]
          /\ req' = [req EXCEPT ![s] = Idle]
      BY <1>8 DEF Unlock, Return
    <2>2. ASSUME NEW t \in Slot, req'[t].op = "join"
          PROVE  /\ t # s /\ req'[t] = req[t] /\ req[t].room \in Room
                 /\ joinLock[req[t].room] = t /\ joinLock'[req[t].room] = t
      <3>1. t # s /\ req'[t] = req[t]
        BY <1>0, <2>1, <2>2 DEF Idle, ReqsOK
      <3>2. req[t].room \in Room /\ joinLock[req[t].room] = t
        BY <2>2, <3>1 DEF JoinsLocked
      <3>3. joinLock \in [Room -> Slot \cup {Nil}]
        BY DEF IInv, StoreOK
      <3>4. joinLock'[req[t].room] = t
        BY <2>1, <3>1, <3>2, <3>3
      <3> QED BY <3>1, <3>2, <3>4
    <2>3. \A t \in Slot : req'[t].pc = "saveRoom" => req'[t].op # "join"
      BY <1>0, <2>1 DEF Idle, ReqsOK, JoinsLocked, At
    <2> QED BY <2>2, <2>3 DEF JoinsLocked, At
  <1> QED BY <1>1, <1>2, <1>3, <1>4, <1>5, <1>6, <1>7, <1>8 DEF CreateOrJoinStep

LEMMA LockLeaveOrCancel ==
    ASSUME IInv, JoinsLocked, NEW s \in Slot, LeaveOrCancelStep(s)
    PROVE  JoinsLocked'
  <1> DEFINE q == req[s]
  <1>0. ReqsOK /\ q \in Request
    BY DEF IInv, ReqsOK
  <1>1. CASE OwnRead(s)
    <2>1. joinLock' = joinLock
      BY <1>1 DEF OwnRead, redis
    <2>2. ASSUME NEW room, NEW l \in {"leaveQueue", "leaveIndex"},
                 Continue(s, [q EXCEPT !.inv = room, !.pc = l])
          PROVE  JoinsLocked'
      <3> DEFINE n == [q EXCEPT !.inv = room, !.pc = l]
      <3>1. n.op = q.op /\ n.room = q.room /\ n.pc = l
        BY <1>0 DEF Request
      <3> HIDE DEF n
      <3> QED BY <1>0, <2>1, <2>2, <3>1, LockKept DEF n
    <2>3. \/ Return(s)
          \/ Goto(s, "dropDangling")
          \/ \E l \in {"leaveQueue", "leaveIndex"} :
                Continue(s, [q EXCEPT !.inv = invites[q.room], !.pc = l])
      <3> DEFINE room == invites[q.room]
                 l == IF room.status = "QUEUED" THEN "leaveQueue" ELSE "leaveIndex"
      <3>1. \/ Return(s) \/ Goto(s, "dropDangling")
            \/ Continue(s, [q EXCEPT !.inv = room, !.pc = l])
        BY <1>1 DEF OwnRead
      <3>2. l \in {"leaveQueue", "leaveIndex"}
        OBVIOUS
      <3> HIDE DEF l
      <3> QED BY <3>1, <3>2
    <2> QED BY <1>0, <2>1, <2>2, <2>3, LockGoneTo DEF PC
  <1>2. CASE DropDangling(s)
    BY <1>0, <1>2, LockGoneTo DEF DropDangling
  <1>3. CASE LeaveQueue(s)
    BY <1>0, <1>3, LockGoneTo DEF LeaveQueue, PC
  <1>4. CASE LeaveIndex(s)
    BY <1>0, <1>4, LockGoneTo DEF LeaveIndex, PC
  <1>5. CASE LeaveSave(s)
    BY <1>0, <1>5, LockGoneTo DEF LeaveSave
  <1>6. CASE CancelQueue(s)
    BY <1>0, <1>6, LockGoneTo DEF CancelQueue, PC
  <1>7. CASE CancelSave(s)
    BY <1>0, <1>7, LockGoneTo DEF CancelSave, PC
  <1>8. CASE CancelIndex(s)
    BY <1>0, <1>8, LockGoneTo DEF CancelIndex
  <1> QED BY <1>1, <1>2, <1>3, <1>4, <1>5, <1>6, <1>7, <1>8 DEF LeaveOrCancelStep

LEMMA LockSaveMatch ==
    ASSUME ReqsOK, JoinsLocked, NEW s \in Slot, NEW seen, NEW match, SaveMatch(s, seen, match)
    PROVE  JoinsLocked'
  <1>0. req[s] \in Request
    BY DEF ReqsOK
  <1>1. PICK m : Continue(s, [req[s] EXCEPT !.pc = "mark", !.seen = seen, !.made = m])
                 /\ joinLock' = joinLock
    BY DEF SaveMatch
  <1> DEFINE n == [req[s] EXCEPT !.pc = "mark", !.seen = seen, !.made = m]
  <1>2. n.op = req[s].op /\ n.room = req[s].room /\ n.pc = "mark"
    BY <1>0 DEF Request
  <1> HIDE DEF n
  <1> QED BY <1>1, <1>2, LockKept DEF n

LEMMA LockStart ==
    ASSUME IInv, JoinsLocked, NEW s \in Slot, StartStep(s)
    PROVE  JoinsLocked'
  <1> DEFINE q == req[s]
  <1>0. ReqsOK /\ q \in Request
    BY DEF IInv, ReqsOK
  <1>1. CASE QueueRead(s)
    BY <1>0, <1>1, LockGoneTo DEF QueueRead, redis, PC
  <1>2. CASE QueuePush(s)
    BY <1>0, <1>2, LockGoneTo DEF QueuePush, PC
  <1>3. ASSUME NEW n, Continue(s, n), joinLock' = joinLock,
               n.op = q.op, n.room = q.room, n.pc \in {"scan", "scanRead"}
        PROVE  JoinsLocked'
    BY <1>0, <1>3, LockKept
  <1>4. CASE QueueSave(s)
    <2> DEFINE room == [q.inv EXCEPT !.status = "QUEUED"]
    <2>1. Continue(s, [q EXCEPT !.pc = "scan", !.inv = room]) /\ joinLock' = joinLock
      BY <1>4 DEF QueueSave
    <2> HIDE DEF room
    <2> QED BY <1>0, <1>3, <2>1 DEF Request
  <1>5. CASE Scan(s)
    <2>1. /\ Continue(s, [q EXCEPT !.pc = "scanRead", !.todo = queue[queueKey(q.inv)],
                                   !.seen = <<>>])
          /\ joinLock' = joinLock
      BY <1>5 DEF Scan, redis
    <2> QED BY <1>0, <1>3, <2>1 DEF Request
  <1>6. CASE ScanRead(s)
    <2> DEFINE cand == [room |-> Head(q.todo), inv |-> invites[Head(q.todo)]]
               seen == Found(q.seen, cand, q)
               n    == [q EXCEPT !.todo = Tail(q.todo), !.seen = seen]
    <2>1. /\ At(s, "scanRead") /\ joinLock' = joinLock
          /\ Continue(s, n) \/ Goto(s, "scanDrop")
      BY <1>6 DEF ScanRead, redis
    <2> HIDE DEF seen
    <2>2. n.op = q.op /\ n.room = q.room /\ n.pc = q.pc
      BY <1>0 DEF Request
    <2> HIDE DEF n
    <2> QED BY <1>0, <1>3, <2>1, <2>2, LockGoneTo DEF At, PC
  <1>7. CASE ScanDrop(s)
    <2>1. Continue(s, [q EXCEPT !.pc = "scanRead", !.todo = Tail(q.todo)])
          /\ joinLock' = joinLock
      BY <1>7 DEF ScanDrop
    <2> QED BY <1>0, <1>3, <2>1 DEF Request
  <1>8. CASE Pair(s)
    BY <1>0, <1>8, LockGoneTo, LockSaveMatch DEF Pair, createActiveMatch, MatchAlone, redis, PC
  <1>9. CASE Custom(s)
    BY <1>0, <1>9, LockSaveMatch DEF Custom, MatchAlone
  <1>10. CASE Mark(s)
    BY <1>0, <1>10, LockGoneTo DEF Mark, PC
  <1>11. CASE MarkIndex(s)
    BY <1>0, <1>11, LockGoneTo DEF MarkIndex
  <1>12. CASE Schedule(s)
    <2>1. Continue(s, Idle) /\ joinLock' = joinLock
      BY <1>12 DEF Schedule, Continue, redis
    <2> QED BY <1>0, <2>1, LockKept DEF Idle
  <1>13. CASE JobDone(s)
    BY <1>0, <1>13, LockGoneTo DEF JobDone, redis
  <1> QED BY <1>1, <1>2, <1>4, <1>5, <1>6, <1>7, <1>8, <1>9, <1>10, <1>11, <1>12, <1>13
          DEF StartStep

LEMMA LockCall ==
    ASSUME IInv, JoinsLocked, NEW s \in Slot, Call(s)
    PROVE  JoinsLocked'
  <1>0. ReqsOK /\ joinLock \in [Room -> Slot \cup {Nil}]
    BY DEF IInv, StoreOK
  <1>1. ASSUME NEW p \in Player, NEW b \in Bodies, createInvite(s, p, b) PROVE JoinsLocked'
    <2>0. PICK clan \in ClansOf[p] :
            CheckIndexThen(s, [Idle EXCEPT !.op = "create", !.player = p,
                                           !.inv = NewRoom(p, clan, b)])
      BY <1>1 DEF createInvite
    <2> DEFINE room == NewRoom(p, clan, b)
               n    == [Idle EXCEPT !.op = "create", !.player = p, !.inv = room]
    <2>1. CheckIndexThen(s, n) /\ joinLock' = joinLock
      BY <1>1, <2>0 DEF createInvite, redis
    <2>2. room \in RoomRecord
      BY NewRoomFits, ClansOfAssumption, BodiesAssumption
    <2> HIDE DEF room
    <2>3. n \in Request /\ n.op = "create"
      BY <2>2, IdleOK DEF Request, PC, Op, Handler
    <2> HIDE DEF n
    <2> QED BY <1>0, <2>1, <2>3, LockChecked
  <1>2. ASSUME NEW p \in Player, NEW r \in Room, joinInvite(s, p, r) PROVE JoinsLocked'
    <2> DEFINE n == [Idle EXCEPT !.pc = "joinRead", !.op = "join", !.player = p, !.room = r]
    <2>1. /\ joinLock[r] = Nil /\ joinLock' = [joinLock EXCEPT ![r] = s]
          /\ req' = [req EXCEPT ![s] = n]
      BY <1>2 DEF joinInvite, Continue
    <2>2. n.room = r /\ n.pc = "joinRead"
      BY DEF Idle
    <2> HIDE DEF n
    <2>3. \A t \in Slot : req'[t] = IF t = s THEN n ELSE req[t]
      BY <1>0, <2>1 DEF ReqsOK
    <2>4. \A t \in Slot \ {s} : req[t].op = "join" => req[t].room # r
      BY <2>1, SlotAssumption DEF JoinsLocked
    <2>5. \A t \in Slot : req'[t].op = "join"
            => req'[t].room \in Room /\ joinLock'[req'[t].room] = t
      BY <1>0, <2>1, <2>2, <2>3, <2>4 DEF JoinsLocked
    <2> QED BY <2>2, <2>3, <2>5 DEF JoinsLocked, At
  <1>3. ASSUME NEW n, Continue(s, n), joinLock' = joinLock, n.op # "join" PROVE JoinsLocked'
    BY <1>0, <1>3, LockKept
  <1>4. ASSUME NEW p \in Player, NEW r \in Room, startRoom(s, p, r) PROVE JoinsLocked'
    <2> DEFINE room == invites[r]
               pc   == IF room.matchType = "CUSTOM" THEN "custom" ELSE "queueRead"
    <2>1. /\ Continue(s, [Idle EXCEPT !.op = "start", !.player = p, !.room = r, !.inv = room,
                                      !.pc = pc])
          /\ joinLock' = joinLock
      BY <1>4 DEF startRoom, redis
    <2> HIDE DEF room, pc
    <2> QED BY <1>3, <2>1 DEF Idle
  <1>5. ASSUME NEW p \in Player, NEW r \in Room, cancelInvite(s, p, r) PROVE JoinsLocked'
    <2> DEFINE room == invites[r]
               op   == IF Has(room, {"CANCELLED"}) THEN "recancel" ELSE "cancel"
    <2>1. /\ Continue(s, [Idle EXCEPT !.pc = "cancelQueue", !.op = op, !.player = p,
                                      !.room = r, !.inv = room])
          /\ joinLock' = joinLock
      BY <1>5 DEF cancelInvite, redis
    <2>2. op # "join"
      OBVIOUS
    <2> HIDE DEF room, op
    <2> QED BY <1>3, <2>1, <2>2 DEF Idle
  <1>6. ASSUME NEW p \in Player, leaveRoom(s, p) \/ sendInvite(s, p) PROVE JoinsLocked'
    <2>1. PICK op \in {"leave", "send"} : GetOwnRoom(s, op, p)
      BY <1>6 DEF leaveRoom, sendInvite
    <2>2. /\ Continue(s, [Idle EXCEPT !.pc = "ownRead", !.op = op, !.player = p,
                                      !.room = playerInvite[p]])
          /\ joinLock' = joinLock
      BY <2>1 DEF GetOwnRoom, redis
    <2> QED BY <1>3, <2>2 DEF Idle
  <1> QED BY <1>1, <1>2, <1>4, <1>5, <1>6 DEF Call

\* Two joins never work on copies of one room at once, for any number of requests,
\* with rooms and index entries expiring, servers stopping and their locks lapsing:
\* as long as no lock lapses during the join that took it (setNx and
\* deleteIfValue in joinInvite).
THEOREM JoinsOfARoomExclude ==
    ASSUME "lock" \notin Expirable
    PROVE  Spec => []JoinsExclude
  <1>1. Init => JoinsLocked
    BY DEF Init, JoinsLocked, Idle, At
  <1>2. IInv /\ JoinsLocked /\ [Next]_vars => JoinsLocked'
    <2> SUFFICES ASSUME IInv, JoinsLocked, [Next]_vars PROVE JoinsLocked'
      OBVIOUS
    <2>0. ReqsOK /\ joinLock \in [Room -> Slot \cup {Nil}]
      BY DEF IInv, StoreOK
    <2>1. ASSUME NEW s \in Slot, Call(s) \/ Step(s) PROVE JoinsLocked'
      BY <2>1, LockCall, LockCreateOrJoin, LockLeaveOrCancel, LockStart DEF Step
    <2>2. ASSUME NEW s \in Slot, Crash(s) PROVE JoinsLocked'
      <3>1. Continue(s, Idle) /\ joinLock' = joinLock
        BY <2>2 DEF Crash, Continue, redis
      <3> QED BY <2>0, <3>1, LockKept DEF Idle
    <2>3. ASSUME NEW r \in Room, Timeout(r) PROVE JoinsLocked'
      <3>1. PICK s \in Slot : handleClanOpponentTimeout(s, r)
        BY <2>3 DEF Timeout
      <3> DEFINE room   == invites[r]
                 queued == Has(room, {"QUEUED"}) /\ room.matchType = "CLAN"
                 pc     == IF queued THEN "scan" ELSE "jobDone"
                 inv    == IF queued THEN room ELSE Nil
      <3>2. /\ Continue(s, [Idle EXCEPT !.op = "timeout", !.room = r, !.pc = pc, !.inv = inv])
            /\ joinLock' = joinLock
        BY <3>1 DEF handleClanOpponentTimeout, redis
      <3> HIDE DEF pc, inv
      <3> QED BY <2>0, <3>2, LockKept DEF Idle
    <2>4. ASSUME NEW r \in Room, ExpireLock(r) PROVE JoinsLocked'
      <3>1. ~Held(r) /\ joinLock' = [joinLock EXCEPT ![r] = Nil] /\ req' = req
        BY <2>4 DEF ExpireLock
      <3>2. \A s \in Slot : req[s].op = "join" => req[s].room # r
        BY <3>1 DEF JoinsLocked, Held
      <3> QED BY <2>0, <3>1, <3>2 DEF JoinsLocked, At
    <2>5. CASE (\E r \in Room : ExpireRoom(r)) \/ (\E p \in Player : ExpireIndex(p))
               \/ UNCHANGED vars
      BY <2>5 DEF ExpireRoom, ExpireIndex, vars, JoinsLocked, At
    <2> QED BY <2>1, <2>2, <2>3, <2>4, <2>5 DEF Next, Expire
  <1>3. JoinsLocked => JoinsExclude
    BY DEF JoinsLocked, JoinsExclude
  <1> QED BY <1>1, <1>2, <1>3, Inductive, PTL DEF Spec
----------------------------------------------------------------------------
(* Clans                                                                    *)

\* Who is in a clan room was in its clan when it came in.
OfClan(room) == room.matchType = "CLAN" => \A p \in Members(room) : room.clan \in ClansOf[p]

\* A clan room has a clan, too.
Proper(room) == OfClan(room) /\ (room.matchType = "CLAN" => room.clan # Nil)

MakingPC == CheckPC \cup {"saveRoom"}
OpponentPC == {"scanRead", "scanDrop"}
HoldingPC == CheckPC \cup LeavePC \cup QueuePC \cup ScanPC \cup CancelPC
               \cup {"saveRoom", "joinSave", "custom"}

\* What a request holds is proper; only a room that is still to be stored may
\* lack a clan, when its owner has none.  The opponents found are of other clans.
ClanReq(q) ==
    /\ q.pc \in HoldingPC =>
         OfClan(q.inv) /\ (Proper(q.inv) \/ (q.op = "create" /\ q.pc \in MakingPC))
    /\ q.pc = "joinRead" => q.op # "create"
    /\ \A i \in DOMAIN q.seen : Proper(q.seen[i].inv)
    /\ q.pc \in OpponentPC /\ q.inv.matchType = "CLAN"
         => \A i \in DOMAIN q.seen : q.seen[i].inv.clan # q.inv.clan

RoomsProper == \A r \in Room : invites[r] # Nil => Proper(invites[r])

ReqsProper == \A s \in Slot : ClanReq(req[s])

ClanInv == RoomsProper /\ ReqsProper /\ ClansMeet

\* Who joins, leaves or is counted anew does not change a room's clan.
LEMMA SameClan ==
    ASSUME NEW room \in RoomRecord, NEW p
    PROVE  /\ recalculateInvite(room).clan = room.clan
           /\ recalculateInvite(room).matchType = room.matchType
           /\ WithPlayer(room, p).clan = room.clan
           /\ WithPlayer(room, p).matchType = room.matchType
           /\ WithoutPlayer(room, p).clan = room.clan
           /\ WithoutPlayer(room, p).matchType = room.matchType
  <1>1. ASSUME NEW x, x.clan = room.clan, x.matchType = room.matchType,
               {"clan", "matchType"} \subseteq DOMAIN x
        PROVE  recalculateInvite(x).clan = room.clan
               /\ recalculateInvite(x).matchType = room.matchType
    BY <1>1 DEF recalculateInvite
  <1>2. {"clan", "matchType"} \subseteq DOMAIN room
    BY DEF RoomRecord
  <1>3. recalculateInvite(room).clan = room.clan
        /\ recalculateInvite(room).matchType = room.matchType
    BY <1>1, <1>2
  <1>4. WithPlayer(room, p).clan = room.clan /\ WithPlayer(room, p).matchType = room.matchType
    <2> DEFINE base == makeRoomForPlayer(room)
               new  == [base EXCEPT !.players = Append(room.players, p)]
    <2>1. /\ base.clan = room.clan /\ base.matchType = room.matchType
          /\ DOMAIN base = DOMAIN room
      BY <1>2 DEF makeRoomForPlayer
    <2> HIDE DEF base
    <2>2. /\ new.clan = room.clan /\ new.matchType = room.matchType
          /\ {"clan", "matchType"} \subseteq DOMAIN new
      BY <1>2, <2>1
    <2>3. WithPlayer(room, p) = recalculateInvite(new)
      BY DEF WithPlayer, base
    <2> HIDE DEF new
    <2> QED BY <1>1, <2>2, <2>3
  <1>5. WithoutPlayer(room, p).clan = room.clan
        /\ WithoutPlayer(room, p).matchType = room.matchType
    <2> DEFINE left == Without(room.players, p)
               own  == IF room.owner = p THEN left[1] ELSE room.owner
               new  == [room EXCEPT !.players = left, !.owner = own]
    <2>1. WithoutPlayer(room, p) = recalculateInvite(new)
      BY DEF WithoutPlayer
    <2> HIDE DEF left, own
    <2>2. /\ new.clan = room.clan /\ new.matchType = room.matchType
          /\ {"clan", "matchType"} \subseteq DOMAIN new
      BY <1>2
    <2> HIDE DEF new
    <2> QED BY <1>1, <2>1, <2>2
  <1> QED BY <1>3, <1>4, <1>5

\* The players of a room's team are the room's members (createTeam).
LEMMA TeamMembers ==
    ASSUME NEW room \in RoomRecord
    PROVE  RealPlayers(createTeam(room)) \subseteq Members(room)
  <1> DEFINE ps == room.players
             b  == Bots(room.bots)
  <1>1. ps \in Seq(Player) /\ Len(ps) \in Nat
    BY DEF RoomRecord
  <1>2. b \in Seq({Bot}) /\ \A i \in 1 .. Len(b) : b[i] = Bot
    BY DEF Bots, RoomRecord
  <1> HIDE DEF b
  <1>3. ps \in Seq(Player \cup {Bot}) /\ b \in Seq(Player \cup {Bot}) /\ Len(b) \in Nat
    BY <1>1, <1>2
  <1>4. /\ DOMAIN (ps \o b) = 1 .. Len(ps) + Len(b)
        /\ \A i \in 1 .. Len(ps) + Len(b) :
             (ps \o b)[i] = IF i <= Len(ps) THEN ps[i] ELSE b[i - Len(ps)]
    <2>1. /\ ps \o b \in Seq(Player \cup {Bot}) /\ Len(ps \o b) = Len(ps) + Len(b)
          /\ \A i \in 1 .. Len(ps) + Len(b) :
               (ps \o b)[i] = IF i <= Len(ps) THEN ps[i] ELSE b[i - Len(ps)]
      BY <1>3, ConcatProperties
    <2> QED BY <2>1
  <1>5. createTeam(room).participants = ps \o b
    BY DEF createTeam, getInviteParticipants, b
  <1> HIDE DEF ps
  <1>6. ASSUME NEW i \in 1 .. Len(ps) + Len(b), (ps \o b)[i] \in Player
        PROVE  \E j \in DOMAIN ps : ps[j] = (ps \o b)[i]
    <2>1. CASE i <= Len(ps)
      BY <1>1, <1>4, <2>1
    <2>2. CASE ~(i <= Len(ps))
      <3>1. i - Len(ps) \in 1 .. Len(b)
        BY <1>1, <1>3, <2>2
      <3>2. (ps \o b)[i] = Bot
        BY <1>2, <1>4, <2>2, <3>1
      <3> QED BY <1>6, <3>2, BotAssumption
    <2> QED BY <2>1, <2>2
  <1> QED BY <1>4, <1>5, <1>6 DEF RealPlayers, Members, ps

\* A team of bots has no player.
LEMMA BotTeamMembers ==
    ASSUME NEW room \in RoomRecord
    PROVE  RealPlayers(createBotTeam(room)) = {}
  BY BotAssumption DEF RealPlayers, createBotTeam, Bots, RoomRecord

LEMMA ClanResume ==
    ASSUME ReqsOK, ReqsProper, NEW s \in Slot, NEW q, Continue(s, q), ClanReq(q)
    PROVE  ReqsProper'
  <1>1. \A t \in Slot : ClanReq(req'[t])
    BY DEF Continue, ReqsOK, ReqsProper
  <1> QED BY <1>1 DEF ReqsProper, ClanReq, Proper, OfClan, Members

LEMMA ClanIdle == ClanReq(Idle)
  BY DEF ClanReq, Idle, HoldingPC, MakingPC, OpponentPC, CheckPC, LeavePC, QueuePC, ScanPC,
         CancelPC

\* A request that returns, or that goes on with what it holds.
LEMMA ClanGoneTo ==
    ASSUME ReqsOK, ReqsProper, NEW s \in Slot,
           \/ Return(s)
           \/ \E l \in PC \ {"joinRead"} :
                /\ Goto(s, l)
                /\ l \in HoldingPC => \E class \in {CheckPC, LeavePC, QueuePC, CancelPC, OpponentPC} :
                     l \in class /\ req[s].pc \in class
    PROVE  ReqsProper'
  <1> DEFINE q == req[s]
  <1>0. q \in Request /\ ClanReq(q)
    BY DEF ReqsOK, ReqsProper
  <1>1. CASE Return(s)
    BY <1>1, ClanIdle, ClanResume DEF Return, Continue
  <1>2. ASSUME NEW l \in PC \ {"joinRead"}, Goto(s, l),
               l \in HoldingPC => \E class \in {CheckPC, LeavePC, QueuePC, CancelPC, OpponentPC} :
                 l \in class /\ q.pc \in class
        PROVE  ReqsProper'
    <2> DEFINE n == [q EXCEPT !.pc = l]
    <2>1. /\ n.pc = l /\ n.op = q.op /\ n.player = q.player /\ n.inv = q.inv
          /\ n.seen = q.seen
      BY <1>0 DEF Request
    <2>2. Continue(s, n)
      BY <1>2 DEF Goto
    <2> HIDE DEF n
    <2>3. ClanReq(n)
      BY <1>0, <1>2, <2>1 DEF ClanReq, HoldingPC, MakingPC, OpponentPC, CheckPC, LeavePC,
                              QueuePC, ScanPC, CancelPC
    <2> QED BY <2>2, <2>3, ClanResume
  <1> QED BY <1>1, <1>2

LEMMA ClanRoomsKept ==
    ASSUME RoomsProper, invites' = invites
    PROVE  RoomsProper'
  BY DEF RoomsProper, Proper, OfClan, Members

LEMMA ClanMatchesKept ==
    ASSUME ClansMeet, matches' = matches
    PROVE  ClansMeet'
  BY DEF ClansMeet, RealPlayers

\* A proper room is stored, or one is deleted.
LEMMA ClanSaved ==
    ASSUME StoreOK, RoomsProper, NEW r, NEW room, room = Nil \/ Proper(room),
           invites' = [invites EXCEPT ![r] = room]
    PROVE  RoomsProper'
  <1>1. \A x \in Room : invites'[x] # Nil => Proper(invites'[x])
    BY DEF StoreOK, RoomsProper
  <1> QED BY <1>1 DEF RoomsProper, Proper, OfClan, Members

LEMMA ClanChecked ==
    ASSUME ReqsOK, ReqsProper, NEW s \in Slot, NEW q \in Request,
           CheckIndexThen(s, q) \/ Continue(s, Checked(q)),
           OfClan(q.inv), q.op # "create" => Proper(q.inv),
           \A i \in DOMAIN q.seen : Proper(q.seen[i].inv)
    PROVE  ReqsProper'
  <1> DEFINE r == playerInvite[q.player]
             a == Checked(q)
             b == [q EXCEPT !.pc = "checkRoom", !.other = r]
  <1>1. /\ a.pc = (IF q.op = "create" THEN "saveRoom" ELSE "joinSave")
        /\ a.op = q.op /\ a.player = q.player /\ a.inv = q.inv /\ a.seen = q.seen
    BY DEF Checked, Request
  <1> HIDE DEF r
  <1>2. /\ b.pc = "checkRoom" /\ b.op = q.op /\ b.player = q.player /\ b.inv = q.inv
        /\ b.seen = q.seen
    BY DEF Request
  <1>3. Continue(s, a) \/ Continue(s, b)
    BY DEF CheckIndexThen, r
  <1> HIDE DEF a, b
  <1>4. ClanReq(a)
    BY <1>1 DEF ClanReq, HoldingPC, MakingPC, OpponentPC, CheckPC, LeavePC, QueuePC, ScanPC, CancelPC
  <1>5. ClanReq(b)
    BY <1>2 DEF ClanReq, HoldingPC, MakingPC, OpponentPC, CheckPC, LeavePC, QueuePC, ScanPC, CancelPC
  <1> QED BY <1>3, <1>4, <1>5, ClanResume

LEMMA ClanCreateOrJoin ==
    ASSUME IInv, ClanInv, NEW s \in Slot, CreateOrJoinStep(s)
    PROVE  ClanInv'
  <1> DEFINE q == req[s]
  <1>0. /\ StoreOK /\ ReqsOK /\ q \in Request /\ ReqOK(q)
        /\ RoomsProper /\ ReqsProper /\ ClansMeet /\ ClanReq(q)
    BY DEF IInv, ReqsOK, ClanInv, ReqsProper
  <1>a. /\ invites' = invites => RoomsProper'
        /\ matches' = matches => ClansMeet'
    BY <1>0, ClanRoomsKept, ClanMatchesKept
  <1>b. matches' = matches
    BY DEF CreateOrJoinStep, CheckIndex, CheckRoom, DropIndex, SaveRoom, SetIndex, JoinRead,
           JoinSave, Unlock, redis
  <1>1. CASE CheckIndex(s)
    <2>1. q.pc = "checkIndex" /\ CheckIndexThen(s, q) /\ invites' = invites
      BY <1>1 DEF CheckIndex, At, redis
    <2>2. /\ OfClan(q.inv) /\ (q.op # "create" => Proper(q.inv))
          /\ \A i \in DOMAIN q.seen : Proper(q.seen[i].inv)
      BY <1>0, <2>1 DEF ClanReq, HoldingPC, MakingPC, CheckPC
    <2> QED BY <1>0, <1>a, <1>b, <2>1, <2>2, ClanChecked DEF ClanInv
  <1>2. CASE CheckRoom(s)
    <2>1. q.pc = "checkRoom" /\ invites' = invites
          /\ (Return(s) \/ Goto(s, "dropIndex") \/ Goto(s, "unlock"))
      BY <1>2 DEF CheckRoom, At, redis
    <2>2. ReqsProper'
      BY <1>0, <2>1, ClanGoneTo DEF PC, CheckPC, HoldingPC, LeavePC, QueuePC, ScanPC, CancelPC
    <2> QED BY <1>a, <1>b, <2>1, <2>2 DEF ClanInv
  <1>3. CASE DropIndex(s)
    <2>1. q.pc = "dropIndex" /\ Continue(s, Checked(q)) /\ invites' = invites
      BY <1>3 DEF DropIndex, At
    <2>2. /\ OfClan(q.inv) /\ (q.op # "create" => Proper(q.inv))
          /\ \A i \in DOMAIN q.seen : Proper(q.seen[i].inv)
      BY <1>0, <2>1 DEF ClanReq, HoldingPC, MakingPC, CheckPC
    <2> QED BY <1>0, <1>a, <1>b, <2>1, <2>2, ClanChecked DEF ClanInv
  <1>4. CASE SaveRoom(s)
    <2>1. q.pc = "saveRoom"
      BY <1>4 DEF SaveRoom, At
    <2>2. CASE Return(s) /\ UNCHANGED redis
      BY <1>0, <1>a, <1>b, <2>2, ClanGoneTo DEF ClanInv, redis
    <2>3. ASSUME NEW r, ~(q.inv.matchType = "CLAN" /\ q.inv.clan = Nil),
                 saveInvite(r, q.inv), Continue(s, [q EXCEPT !.pc = "setIndex", !.room = r])
          PROVE  ClanInv'
      <3> DEFINE n == [q EXCEPT !.pc = "setIndex", !.room = r]
      <3>1. n.pc = "setIndex" /\ n.seen = q.seen
        BY <1>0 DEF Request
      <3>2. Proper(q.inv)
        BY <1>0, <2>1, <2>3 DEF ClanReq, HoldingPC, MakingPC, Proper
      <3>3. RoomsProper'
        BY <1>0, <2>3, <3>2, ClanSaved DEF saveInvite
      <3>4. Continue(s, n)
        BY <2>3
      <3> HIDE DEF n
      <3>5. ClanReq(n)
        BY <1>0, <3>1 DEF ClanReq, HoldingPC, MakingPC, OpponentPC, CheckPC, LeavePC, QueuePC,
                          ScanPC, CancelPC
      <3> QED BY <1>0, <1>a, <1>b, <3>3, <3>4, <3>5, ClanResume DEF ClanInv
    <2> QED BY <1>4, <2>2, <2>3 DEF SaveRoom
  <1>5. CASE SetIndex(s)
    <2>1. invites' = invites /\ (Return(s) \/ Goto(s, "unlock"))
      BY <1>5 DEF SetIndex
    <2>2. ReqsProper'
      BY <1>0, <2>1, ClanGoneTo DEF PC, HoldingPC, CheckPC, LeavePC, QueuePC, ScanPC, CancelPC
    <2> QED BY <1>a, <1>b, <2>1, <2>2 DEF ClanInv
  <1>6. CASE JoinRead(s)
    <2> DEFINE room == invites[q.room]
               n    == [q EXCEPT !.pc = "checkIndex", !.inv = room]
    <2>1. q.pc = "joinRead" /\ invites' = invites
      BY <1>6 DEF JoinRead, At, redis
    <2>2. CASE Goto(s, "unlock")
      <3>1. ReqsProper'
        BY <1>0, <2>2, ClanGoneTo DEF PC, HoldingPC, CheckPC, LeavePC, QueuePC, ScanPC, CancelPC
      <3> QED BY <1>a, <1>b, <2>1, <3>1 DEF ClanInv
    <2>3. CASE room # Nil /\ Continue(s, n)
      <3>1. q.room \in Room
        BY <1>0, <2>1 DEF ReqOK
      <3>2. Proper(room)
        BY <1>0, <2>3, <3>1 DEF RoomsProper
      <3> HIDE DEF room
      <3>3. n.pc = "checkIndex" /\ n.inv = room /\ n.seen = q.seen /\ n.op = q.op
        BY <1>0 DEF Request
      <3>4. q.op # "create"
        BY <1>0, <2>1 DEF ClanReq
      <3> HIDE DEF n
      <3>5. ClanReq(n)
        BY <1>0, <3>2, <3>3, <3>4 DEF ClanReq, Proper, HoldingPC, MakingPC, OpponentPC, CheckPC,
                                     LeavePC, QueuePC, ScanPC, CancelPC
      <3> QED BY <1>0, <1>a, <1>b, <2>1, <2>3, <3>5, ClanResume DEF ClanInv
    <2> QED BY <1>6, <2>2, <2>3 DEF JoinRead
  <1>7. CASE JoinSave(s)
    <2> DEFINE room == WithPlayer(q.inv, q.player)
    <2>1. /\ q.pc = "joinSave" /\ q.inv \in RoomRecord /\ Fits(q.inv)
          /\ q.player \in Player /\ q.player \notin Members(q.inv)
      BY <1>0, <1>7 DEF JoinSave, At, ReqOK
    <2>2. ASSUME Goto(s, "setIndex") \/ Goto(s, "unlock") PROVE ReqsProper'
      BY <1>0, <2>2, ClanGoneTo DEF PC, HoldingPC, CheckPC, LeavePC, QueuePC, ScanPC, CancelPC
    <2>3. ASSUME NEW clan \in ClansOf[q.player], MayJoin(q.inv, q.player, clan),
                 saveInvite(q.room, room), Goto(s, "setIndex")
          PROVE  ClanInv'
      <3>1. /\ Members(room) = Members(q.inv) \cup {q.player}
            /\ room.clan = q.inv.clan /\ room.matchType = q.inv.matchType
        BY <2>1, <2>3, WithPlayerFits, SameClan DEF MayJoin
      <3>2. Proper(q.inv)
        BY <1>0, <2>1 DEF ClanReq, HoldingPC, MakingPC, CheckPC
      <3>3. q.inv.matchType = "CLAN" => q.inv.clan \in ClansOf[q.player]
        BY <2>3 DEF MayJoin
      <3>4. invites' = [invites EXCEPT ![q.room] = room]
        BY <2>3 DEF saveInvite
      <3> HIDE DEF room
      <3>5. Proper(room)
        BY <3>1, <3>2, <3>3 DEF Proper, OfClan
      <3>6. RoomsProper'
        BY <1>0, <3>4, <3>5, ClanSaved
      <3> QED BY <1>a, <1>b, <2>2, <2>3, <3>6 DEF ClanInv
    <2>4. CASE Goto(s, "unlock") /\ UNCHANGED redis
      BY <1>a, <1>b, <2>2, <2>4 DEF ClanInv, redis
    <2> QED BY <1>7, <2>3, <2>4 DEF JoinSave
  <1>8. CASE Unlock(s)
    <2>1. invites' = invites /\ Return(s)
      BY <1>8 DEF Unlock
    <2> QED BY <1>0, <1>a, <1>b, <2>1, ClanGoneTo DEF ClanInv
  <1> QED BY <1>1, <1>2, <1>3, <1>4, <1>5, <1>6, <1>7, <1>8 DEF CreateOrJoinStep

LEMMA ClanLeaveOrCancel ==
    ASSUME IInv, ClanInv, NEW s \in Slot, LeaveOrCancelStep(s)
    PROVE  ClanInv'
  <1> DEFINE q == req[s]
  <1>0. /\ StoreOK /\ ReqsOK /\ q \in Request /\ ReqOK(q)
        /\ RoomsProper /\ ReqsProper /\ ClansMeet /\ ClanReq(q)
    BY DEF IInv, ReqsOK, ClanInv, ReqsProper
  <1>a. /\ invites' = invites => RoomsProper'
        /\ matches' = matches => ClansMeet'
    BY <1>0, ClanRoomsKept, ClanMatchesKept
  <1>b. matches' = matches
    BY DEF LeaveOrCancelStep, OwnRead, DropDangling, LeaveQueue, LeaveIndex, LeaveSave,
           CancelQueue, CancelSave, CancelIndex, redis
  <1>c. ASSUME Return(s) \/ Goto(s, "dropDangling") PROVE ReqsProper'
    BY <1>0, <1>c, ClanGoneTo DEF PC, HoldingPC, CheckPC, LeavePC, QueuePC, ScanPC, CancelPC
  <1>d. ASSUME NEW l \in LeavePC, Goto(s, l), q.pc \in LeavePC PROVE ReqsProper'
    BY <1>0, <1>d, ClanGoneTo DEF PC, LeavePC
  <1>e. ASSUME NEW l \in CancelPC, Goto(s, l), q.pc \in CancelPC PROVE ReqsProper'
    BY <1>0, <1>e, ClanGoneTo DEF PC, CancelPC
  <1>1. CASE OwnRead(s)
    <2> DEFINE room == invites[q.room]
               l    == IF room.status = "QUEUED" THEN "leaveQueue" ELSE "leaveIndex"
               n    == [q EXCEPT !.inv = room, !.pc = l]
    <2>1. q.pc = "ownRead" /\ invites' = invites
      BY <1>1 DEF OwnRead, At, redis
    <2>2. q.room \in Room
      BY <1>0, <2>1 DEF ReqOK
    <2>3. CASE room # Nil /\ Continue(s, n)
      <3>1. Proper(room)
        BY <1>0, <2>2, <2>3 DEF RoomsProper
      <3>2. l \in LeavePC
        BY DEF LeavePC
      <3> HIDE DEF room, l
      <3>3. n.pc = l /\ n.inv = room /\ n.seen = q.seen
        BY <1>0 DEF Request
      <3> HIDE DEF n
      <3>4. ClanReq(n)
        BY <1>0, <3>1, <3>2, <3>3 DEF ClanReq, Proper, HoldingPC, MakingPC, OpponentPC, CheckPC,
                                     LeavePC, QueuePC, ScanPC, CancelPC
      <3> QED BY <1>0, <1>a, <1>b, <2>1, <2>3, <3>4, ClanResume DEF ClanInv
    <2>4. CASE Return(s) \/ Goto(s, "dropDangling")
      BY <1>a, <1>b, <1>c, <2>1, <2>4 DEF ClanInv
    <2> QED BY <1>1, <2>3, <2>4 DEF OwnRead
  <1>2. CASE DropDangling(s)
    BY <1>2, <1>a, <1>b, <1>c DEF DropDangling, ClanInv
  <1>3. CASE LeaveQueue(s)
    BY <1>3, <1>a, <1>b, <1>d DEF LeaveQueue, ClanInv, At, LeavePC
  <1>4. CASE LeaveIndex(s)
    <2>1. ReqsProper'
      BY <1>4, <1>c, <1>d DEF LeaveIndex, At, LeavePC
    <2>2. RoomsProper'
      BY <1>0, <1>a, <1>4, ClanSaved DEF LeaveIndex
    <2> QED BY <1>a, <1>b, <2>1, <2>2 DEF ClanInv
  <1>5. CASE LeaveSave(s)
    <2> DEFINE room == WithoutPlayer(q.inv, q.player)
    <2>1. /\ q.pc = "leaveSave" /\ Return(s) /\ invites' = [invites EXCEPT ![q.room] = room]
      BY <1>5 DEF LeaveSave, At, saveInvite
    <2>2. /\ q.inv \in RoomRecord /\ Fits(q.inv) /\ q.player \in Player
          /\ q.player \in Members(q.inv) /\ Len(q.inv.players) > 1
      BY <1>0, <2>1 DEF ReqOK, LeavePC
    <2>3. /\ Members(room) \subseteq Members(q.inv)
          /\ room.clan = q.inv.clan /\ room.matchType = q.inv.matchType
      BY <2>2, WithoutPlayerFits, SameClan
    <2>4. Proper(q.inv)
      BY <1>0, <2>1 DEF ClanReq, HoldingPC, MakingPC, CheckPC, LeavePC
    <2> HIDE DEF room
    <2>5. Proper(room)
      BY <2>3, <2>4 DEF Proper, OfClan
    <2>6. RoomsProper'
      BY <1>0, <2>1, <2>5, ClanSaved
    <2> QED BY <1>a, <1>b, <1>c, <2>1, <2>6 DEF ClanInv
  <1>6. CASE CancelQueue(s)
    BY <1>6, <1>a, <1>b, <1>e DEF CancelQueue, ClanInv, At, CancelPC
  <1>7. CASE CancelSave(s)
    <2> DEFINE room == [q.inv EXCEPT !.status = "CANCELLED"]
    <2>1. q.pc = "cancelSave" /\ q.inv \in RoomRecord /\ Proper(q.inv)
      BY <1>0, <1>7 DEF CancelSave, At, ReqOK, CancelPC, ClanReq, HoldingPC, MakingPC, CheckPC
    <2>2. /\ room.clan = q.inv.clan /\ room.matchType = q.inv.matchType
          /\ room.players = q.inv.players
      BY <2>1 DEF RoomRecord
    <2>3. invites' = [invites EXCEPT ![q.room] = room]
      BY <1>7 DEF CancelSave, saveInvite
    <2> HIDE DEF room
    <2>4. Proper(room)
      BY <2>1, <2>2 DEF Proper, OfClan, Members
    <2>5. RoomsProper'
      BY <1>0, <2>3, <2>4, ClanSaved
    <2>6. Goto(s, "cancelIndex")
      BY <1>7 DEF CancelSave
    <2> QED BY <1>a, <1>b, <1>e, <2>1, <2>5, <2>6 DEF ClanInv, CancelPC
  <1>8. CASE CancelIndex(s)
    BY <1>8, <1>a, <1>b, <1>c DEF CancelIndex, ClanInv
  <1> QED BY <1>1, <1>2, <1>3, <1>4, <1>5, <1>6, <1>7, <1>8 DEF LeaveOrCancelStep

\* What a match needs so that its clans differ and have its players.
Meets(match) ==
    match.matchType = "CLAN" =>
        /\ match.teams[1].clan # match.teams[2].clan
        /\ \A i \in 1 .. 2 : \A p \in RealPlayers(match.teams[i]) : match.teams[i].clan \in ClansOf[p]

LEMMA ClanSaveMatch ==
    ASSUME IInv, ClanInv, NEW s \in Slot, NEW seen, NEW match, SaveMatch(s, seen, match),
           \A i \in DOMAIN seen : Proper(seen[i].inv), Meets(match)
    PROVE  ClanInv'
  <1>0. /\ StoreOK /\ ReqsOK /\ req[s] \in Request
        /\ RoomsProper /\ ReqsProper /\ ClansMeet
    BY DEF IInv, ReqsOK, ClanInv
  <1>1. PICK m \in MatchId :
          /\ matches' = [matches EXCEPT ![m] = match]
          /\ Continue(s, [req[s] EXCEPT !.pc = "mark", !.seen = seen, !.made = m])
          /\ invites' = invites
    BY DEF SaveMatch
  <1> DEFINE n == [req[s] EXCEPT !.pc = "mark", !.seen = seen, !.made = m]
  <1>2. n.pc = "mark" /\ n.seen = seen
    BY <1>0 DEF Request
  <1> HIDE DEF n
  <1>3. ClanReq(n)
    BY <1>2 DEF ClanReq, HoldingPC, MakingPC, OpponentPC, CheckPC, LeavePC, QueuePC, ScanPC, CancelPC
  <1>4. ReqsProper'
    BY <1>0, <1>1, <1>3, ClanResume DEF n
  <1>5. \A x \in MatchId : matches'[x] = IF x = m THEN match ELSE matches[x]
    BY <1>0, <1>1 DEF StoreOK
  <1>6. \A x \in MatchId : matches'[x] # Nil => Meets(matches'[x])
    BY <1>0, <1>5 DEF ClansMeet, Meets
  <1>7. ClansMeet'
    BY <1>6 DEF ClansMeet, Meets, RealPlayers
  <1>8. RoomsProper'
    BY <1>0, <1>1, ClanRoomsKept
  <1> QED BY <1>4, <1>7, <1>8 DEF ClanInv

\* All queued rooms are read: who meets whom (tryCreateClanMatch).
LEMMA ClanPair ==
    ASSUME IInv, ClanInv, NEW s \in Slot, Pair(s)
    PROVE  ClanInv'
  <1> DEFINE q    == req[s]
             seen == q.seen
             own  == [room |-> q.room, inv |-> q.inv]
  <1>0. /\ StoreOK /\ ReqsOK /\ q \in Request /\ ReqOK(q)
        /\ RoomsProper /\ ReqsProper /\ ClansMeet /\ ClanReq(q)
    BY DEF IInv, ReqsOK, ClanInv, ReqsProper
  <1>1. q.pc = "scanRead"
    BY DEF Pair, At
  <1>2. /\ q.inv \in RoomRecord /\ Proper(q.inv)
    BY <1>0, <1>1 DEF ReqOK, ScanPC, ClanReq, HoldingPC, MakingPC, CheckPC
  <1>3. /\ seen \in Seq(Seen)
        /\ \A i \in DOMAIN seen : seen[i].inv.matchType = q.inv.matchType /\ Proper(seen[i].inv)
        /\ q.inv.matchType = "CLAN" => \A i \in DOMAIN seen : seen[i].inv.clan # q.inv.clan
    BY <1>0, <1>1 DEF ReqOK, ClanReq, OpponentPC, Request
  <1>4. own.inv = q.inv
    OBVIOUS
  <1> HIDE DEF seen
  <1>5. CASE q.inv.matchType = "RANDOM" /\ Len(seen) >= 2
             /\ createActiveMatch(s, seen[1], seen[2])
    <2> DEFINE a == seen[1]
               b == seen[2]
               match == NewMatch(a.inv, a.inv.matchType, <<createTeam(a.inv), createTeam(b.inv)>>,
                                 {a.room, b.room})
    <2>1. 1 \in DOMAIN seen /\ 2 \in DOMAIN seen
      BY <1>3, <1>5
    <2>2. SaveMatch(s, <<a, b>>, match)
      BY <1>5 DEF createActiveMatch
    <2>3. match.matchType = "RANDOM"
      BY <1>3, <1>5, <2>1 DEF NewMatch
    <2>4. Proper(a.inv) /\ Proper(b.inv)
      BY <1>3, <2>1
    <2> HIDE DEF match, a, b
    <2>5. \A i \in DOMAIN <<a, b>> : Proper(<<a, b>>[i].inv)
      BY <2>4
    <2> QED BY <2>2, <2>3, <2>5, ClanSaveMatch DEF Meets
  <1>6. CASE Len(seen) >= 1 /\ createActiveMatch(s, own, seen[1])
    <2> DEFINE b == seen[1]
               ta == createTeam(q.inv)
               tb == createTeam(b.inv)
               match == NewMatch(q.inv, q.inv.matchType, <<ta, tb>>, {q.room, b.room})
    <2>1. 1 \in DOMAIN seen /\ b \in Seen
      BY <1>3, <1>6
    <2>2. SaveMatch(s, <<own, b>>, match)
      BY <1>6 DEF createActiveMatch
    <2>3. /\ Proper(b.inv) /\ b.inv.matchType = q.inv.matchType /\ b.inv \in RoomRecord
          /\ q.inv.matchType = "CLAN" => b.inv.clan # q.inv.clan
      BY <1>3, <2>1 DEF Seen
    <2>4. /\ ta.clan = q.inv.clan /\ RealPlayers(ta) \subseteq Members(q.inv)
          /\ tb.clan = b.inv.clan /\ RealPlayers(tb) \subseteq Members(b.inv)
      <3>1. RealPlayers(ta) \subseteq Members(q.inv) /\ RealPlayers(tb) \subseteq Members(b.inv)
        BY <1>2, <2>3, TeamMembers
      <3> QED BY <3>1 DEF createTeam
    <2> HIDE DEF ta, tb, b
    <2>5. /\ match.matchType = q.inv.matchType
          /\ match.teams[1] = ta /\ match.teams[2] = tb
      BY DEF NewMatch
    <2> HIDE DEF match
    <2>6. Meets(match)
      BY <1>2, <2>3, <2>4, <2>5 DEF Meets, Proper, OfClan
    <2>7. \A i \in DOMAIN <<own, b>> : Proper(<<own, b>>[i].inv)
      BY <1>2, <2>3
    <2> QED BY <2>2, <2>6, <2>7, ClanSaveMatch
  <1>7. CASE (Return(s) \/ Goto(s, "schedule")) /\ UNCHANGED redis
    <2>1. ReqsProper'
      BY <1>0, <1>7, ClanGoneTo DEF PC, HoldingPC, CheckPC, LeavePC, QueuePC, ScanPC, CancelPC
    <2> QED BY <1>0, <1>7, <2>1, ClanRoomsKept, ClanMatchesKept DEF ClanInv, redis
  <1>8. CASE MatchAlone(s, <<createTeam(q.inv), createBotTeam(q.inv)>>)
    <2> DEFINE ta == createTeam(q.inv)
               tb == createBotTeam(q.inv)
               match == NewMatch(q.inv, q.inv.matchType, <<ta, tb>>, {q.room})
    <2>1. SaveMatch(s, <<own>>, match)
      BY <1>8 DEF MatchAlone
    <2>2. RealPlayers(ta) \subseteq Members(q.inv) /\ RealPlayers(tb) = {}
      BY <1>2, TeamMembers, BotTeamMembers
    <2>3. ta.clan = q.inv.clan /\ tb.clan = Nil
      BY DEF createTeam, createBotTeam
    <2> HIDE DEF ta, tb
    <2>4. /\ match.matchType = q.inv.matchType
          /\ match.teams[1] = ta /\ match.teams[2] = tb
      BY DEF NewMatch
    <2> HIDE DEF match
    <2>5. Meets(match)
      BY <1>2, <2>2, <2>3, <2>4 DEF Meets, Proper, OfClan
    <2>6. \A i \in DOMAIN <<own>> : Proper(<<own>>[i].inv)
      BY <1>2
    <2> QED BY <2>1, <2>5, <2>6, ClanSaveMatch
  <1> QED BY <1>5, <1>6, <1>7, <1>8 DEF Pair, seen

\* The opponents found are of other clans, and the rooms of a match are stored
\* with the clans they were read with.
LEMMA ClanStart ==
    ASSUME IInv, ClanInv, NEW s \in Slot, StartStep(s)
    PROVE  ClanInv'
  <1> DEFINE q == req[s]
  <1>0. /\ StoreOK /\ ReqsOK /\ q \in Request /\ ReqOK(q)
        /\ RoomsProper /\ ReqsProper /\ ClansMeet /\ ClanReq(q)
    BY DEF IInv, ReqsOK, ClanInv, ReqsProper
  <1>a. /\ invites' = invites => RoomsProper'
        /\ matches' = matches => ClansMeet'
    BY <1>0, ClanRoomsKept, ClanMatchesKept
  <1>b. ASSUME NEW l \in QueuePC, Goto(s, l), q.pc \in QueuePC PROVE ReqsProper'
    BY <1>0, <1>b, ClanGoneTo DEF PC, QueuePC
  <1>c. ASSUME Return(s) PROVE ReqsProper'
    BY <1>0, <1>c, ClanGoneTo
  <1>d. q.pc \in QueuePC \cup ScanPC => Proper(q.inv) /\ q.inv \in RoomRecord
    BY <1>0 DEF ReqOK, ClanReq, HoldingPC, MakingPC, CheckPC, QueuePC, ScanPC
  <1>1. CASE QueueRead(s)
    <2>1. Goto(s, "queueSave") \/ Goto(s, "queuePush")
      BY <1>1 DEF QueueRead
    <2> QED BY <1>1, <1>a, <1>b, <2>1 DEF QueueRead, ClanInv, At, QueuePC, redis
  <1>2. CASE QueuePush(s)
    BY <1>2, <1>a, <1>b DEF QueuePush, ClanInv, At, QueuePC
  <1>3. CASE QueueSave(s)
    <2> DEFINE room == [q.inv EXCEPT !.status = "QUEUED"]
               n    == [q EXCEPT !.pc = "scan", !.inv = room]
    <2>1. /\ q.pc = "queueSave" /\ invites' = [invites EXCEPT ![q.room] = room]
          /\ Continue(s, n) /\ matches' = matches
      BY <1>3 DEF QueueSave, At, saveInvite
    <2>2. Proper(q.inv) /\ q.inv \in RoomRecord
      BY <1>d, <2>1 DEF QueuePC
    <2>3. /\ room.clan = q.inv.clan /\ room.matchType = q.inv.matchType
          /\ room.players = q.inv.players
      BY <2>2 DEF RoomRecord
    <2> HIDE DEF room
    <2>4. Proper(room)
      BY <2>2, <2>3 DEF Proper, OfClan, Members
    <2>5. RoomsProper'
      BY <1>0, <2>1, <2>4, ClanSaved
    <2>6. n.pc = "scan" /\ n.inv = room /\ n.seen = q.seen
      BY <1>0 DEF Request
    <2> HIDE DEF n
    <2>7. ClanReq(n)
      BY <1>0, <2>4, <2>6 DEF ClanReq, Proper, HoldingPC, MakingPC, OpponentPC, CheckPC, LeavePC,
                              QueuePC, ScanPC, CancelPC
    <2> QED BY <1>0, <1>a, <2>1, <2>5, <2>7, ClanResume DEF ClanInv
  <1>4. CASE Scan(s)
    <2> DEFINE todo == queue[queueKey(q.inv)]
               n == [q EXCEPT !.pc = "scanRead", !.todo = todo, !.seen = <<>>]
    <2>1. q.pc = "scan" /\ Continue(s, n) /\ UNCHANGED redis
      BY <1>4 DEF Scan, At
    <2> HIDE DEF todo
    <2>2. n.pc = "scanRead" /\ n.inv = q.inv /\ n.seen = <<>>
      BY <1>0 DEF Request
    <2>3. Proper(q.inv)
      BY <1>d, <2>1 DEF ScanPC
    <2> HIDE DEF n
    <2>4. ClanReq(n)
      BY <2>2, <2>3 DEF ClanReq, Proper, HoldingPC, MakingPC, OpponentPC, CheckPC, LeavePC,
                        QueuePC, ScanPC, CancelPC
    <2> QED BY <1>0, <1>a, <2>1, <2>4, ClanResume DEF ClanInv, redis
  <1>5. CASE ScanRead(s)
    <2> DEFINE r    == Head(q.todo)
               cand == [room |-> r, inv |-> invites[r]]
               seen == Found(q.seen, cand, q)
               n    == [q EXCEPT !.todo = Tail(q.todo), !.seen = seen]
    <2>1. q.pc = "scanRead" /\ q.todo # <<>> /\ q.todo \in Seq(Room) /\ UNCHANGED redis
      BY <1>0, <1>5 DEF ScanRead, At, Request
    <2>2. r \in Room
      BY <2>1, HeadTailProperties
    <2>3. CASE Goto(s, "scanDrop")
      <3>1. ReqsProper'
        BY <1>0, <2>1, <2>3, ClanGoneTo DEF PC, OpponentPC
      <3> QED BY <1>a, <2>1, <3>1 DEF ClanInv, redis
    <2>4. CASE cand.inv # Nil /\ ValidQueued(cand.inv, q.inv) /\ Continue(s, n)
      <3>1. Proper(cand.inv) /\ cand.inv.matchType = q.inv.matchType
        BY <1>0, <2>2, <2>4 DEF RoomsProper, ValidQueued
      <3>2. Compatible(cand, q) /\ q.inv.matchType = "CLAN" => cand.inv.clan # q.inv.clan
        BY <3>1 DEF Compatible
      <3>3. q.seen \in Seq(Seen)
        BY <1>0 DEF Request
      <3> HIDE DEF cand, r
      <3>4. \A i \in DOMAIN seen : \/ i \in DOMAIN q.seen /\ seen[i] = q.seen[i]
                                   \/ Compatible(cand, q) /\ seen[i] = cand
        BY <3>3 DEF Found
      <3> HIDE DEF seen
      <3>5. n.pc = "scanRead" /\ n.inv = q.inv /\ n.seen = seen
        BY <1>0, <2>1 DEF Request
      <3>6. Proper(q.inv)
        BY <1>d, <2>1 DEF ScanPC
      <3> HIDE DEF n
      <3>7. \A i \in DOMAIN n.seen : Proper(n.seen[i].inv)
        BY <1>0, <3>1, <3>4, <3>5 DEF ClanReq
      <3>8. n.inv.matchType = "CLAN" => \A i \in DOMAIN n.seen : n.seen[i].inv.clan # n.inv.clan
        BY <1>0, <2>1, <3>2, <3>4, <3>5 DEF ClanReq, OpponentPC
      <3>9. ClanReq(n)
        BY <3>5, <3>6, <3>7, <3>8 DEF ClanReq, Proper, HoldingPC, MakingPC, OpponentPC, CheckPC,
                                      LeavePC, QueuePC, ScanPC, CancelPC
      <3> QED BY <1>0, <1>a, <2>1, <2>4, <3>9, ClanResume DEF ClanInv, redis
    <2> QED BY <1>5, <2>3, <2>4 DEF ScanRead
  <1>6. CASE ScanDrop(s)
    <2> DEFINE n == [q EXCEPT !.pc = "scanRead", !.todo = Tail(q.todo)]
    <2>1. q.pc = "scanDrop" /\ Continue(s, n) /\ invites' = invites /\ matches' = matches
      BY <1>6 DEF ScanDrop, At
    <2>2. n.pc = "scanRead" /\ n.inv = q.inv /\ n.seen = q.seen
      BY <1>0 DEF Request
    <2>3. Proper(q.inv)
      BY <1>d, <2>1 DEF ScanPC
    <2> HIDE DEF n
    <2>4. ClanReq(n)
      BY <1>0, <2>1, <2>2, <2>3 DEF ClanReq, Proper, HoldingPC, MakingPC, OpponentPC, CheckPC,
                                    LeavePC, QueuePC, ScanPC, CancelPC
    <2> QED BY <1>0, <1>a, <2>1, <2>4, ClanResume DEF ClanInv
  <1>7. CASE Pair(s)
    BY <1>7, ClanPair
  <1>8. CASE Custom(s)
    <2> DEFINE teams == createCustomTeams(q.inv)
               own   == [room |-> q.room, inv |-> q.inv]
               match == NewMatch(q.inv, q.inv.matchType, teams, {q.room})
    <2>1. q.pc = "custom" /\ SaveMatch(s, <<own>>, match)
      BY <1>8 DEF Custom, At, MatchAlone
    <2>2. match.matchType = "CUSTOM" /\ Proper(q.inv)
      BY <1>0, <2>1 DEF NewMatch, ReqOK, ClanReq, HoldingPC, MakingPC, CheckPC
    <2> HIDE DEF match
    <2>3. \A i \in DOMAIN <<own>> : Proper(<<own>>[i].inv)
      BY <2>2
    <2> QED BY <2>1, <2>2, <2>3, ClanSaveMatch DEF Meets
  <1>9. CASE Mark(s)
    <2> DEFINE seen  == q.seen
               rooms == SeenRooms(seen)
               Of(r) == CHOOSE i \in DOMAIN seen : seen[i].room = r
    <2>1. seen \in Seq(Seen) /\ \A i \in DOMAIN seen : Proper(seen[i].inv)
      BY <1>0 DEF ClanReq, Request
    <2>2. ASSUME NEW r \in rooms PROVE Proper(MatchedRoom(seen[Of(r)].inv, q.made))
      <3> DEFINE i == Of(r)
                 inv == seen[i].inv
                 new == MatchedRoom(inv, q.made)
      <3>1. i \in DOMAIN seen
        BY <2>2 DEF SeenRooms
      <3> HIDE DEF i, seen
      <3>a. seen[i] \in Seen
        BY <2>1, <3>1
      <3>2. inv \in RoomRecord /\ Proper(inv)
        BY <2>1, <3>1, <3>a DEF Seen
      <3> HIDE DEF inv
      <3>3. new.clan = inv.clan /\ new.matchType = inv.matchType /\ new.players = inv.players
        BY <3>2 DEF MatchedRoom, RoomRecord
      <3> HIDE DEF new
      <3>4. Proper(new)
        BY <3>2, <3>3 DEF Proper, OfClan, Members
      <3> QED BY <3>4 DEF new, inv, i, seen
    <2>3. invites' = [r \in Room |-> IF r \in rooms
                        THEN MatchedRoom(seen[Of(r)].inv, q.made) ELSE invites[r]]
      BY <1>9 DEF Mark
    <2> HIDE DEF rooms
    <2>4. \A r \in Room : invites'[r] # Nil => Proper(invites'[r])
      BY <1>0, <2>2, <2>3 DEF RoomsProper
    <2>5. RoomsProper'
      BY <2>4 DEF RoomsProper, Proper, OfClan, Members
    <2>6. Goto(s, "markIndex") /\ matches' = matches
      BY <1>9 DEF Mark
    <2>7. ReqsProper'
      BY <1>0, <2>6, ClanGoneTo DEF PC, HoldingPC, CheckPC, LeavePC, QueuePC, ScanPC, CancelPC
    <2> QED BY <1>a, <2>5, <2>6, <2>7 DEF ClanInv
  <1>10. CASE MarkIndex(s)
    BY <1>10, <1>a, <1>c DEF MarkIndex, ClanInv
  <1>11. CASE Schedule(s)
    <2>1. Continue(s, Idle) /\ UNCHANGED redis
      BY <1>11 DEF Schedule, Continue
    <2> QED BY <1>0, <1>a, <2>1, ClanIdle, ClanResume DEF ClanInv, redis
  <1>12. CASE JobDone(s)
    BY <1>12, <1>a, <1>c DEF JobDone, ClanInv, redis
  <1> QED BY <1>1, <1>2, <1>3, <1>4, <1>5, <1>6, <1>7, <1>8, <1>9, <1>10, <1>11, <1>12
          DEF StartStep

LEMMA ClanCall ==
    ASSUME IInv, ClanInv, NEW s \in Slot, Call(s)
    PROVE  ClanInv'
  <1>0. /\ StoreOK /\ ReqsOK /\ RoomsProper /\ ReqsProper /\ ClansMeet
        /\ \A r \in Room : invites[r] # Nil => invites[r] \in RoomRecord
    BY DEF IInv, ClanInv, StoreOK
  <1>a. UNCHANGED <<invites, matches>> => RoomsProper' /\ ClansMeet'
    BY <1>0, ClanRoomsKept, ClanMatchesKept
  <1>b. UNCHANGED <<invites, matches>>
    BY DEF Call, createInvite, joinInvite, startRoom, cancelInvite, leaveRoom, sendInvite,
           GetOwnRoom, redis
  <1>1. ASSUME NEW p \in Player, NEW b \in Bodies, createInvite(s, p, b) PROVE ReqsProper'
    <2>0. PICK clan \in ClansOf[p] :
            CheckIndexThen(s, [Idle EXCEPT !.op = "create", !.player = p,
                                           !.inv = NewRoom(p, clan, b)])
      BY <1>1 DEF createInvite
    <2> DEFINE base == [status |-> "OPEN", matchType |-> b.matchType, gameType |-> b.gameType,
                        owner |-> p, clan |-> IF b.matchType = "CLAN" THEN clan ELSE Nil,
                        players |-> <<p>>, bots |-> 0, teamSize |-> b.teamSize,
                        allowBots |-> b.allowBots, match |-> Nil]
               room == NewRoom(p, clan, b)
               n    == [Idle EXCEPT !.op = "create", !.player = p, !.inv = room]
    <2>1. CheckIndexThen(s, n)
      BY <2>0
    <2>2. clan \in Clan \cup {Nil} /\ b \in Body
      BY ClansOfAssumption, BodiesAssumption
    <2>3. room \in RoomRecord /\ Members(room) = {p}
      BY <2>2, NewRoomFits
    <2>4. base \in RoomRecord
      BY <2>2 DEF RoomRecord, Body, RoomStatus
    <2>5. base.matchType = b.matchType /\ (b.matchType = "CLAN" => base.clan = clan)
      OBVIOUS
    <2>6. room = recalculateInvite(base)
      BY DEF NewRoom
    <2> HIDE DEF base, room
    <2>7. room.matchType = "CLAN" => room.clan = clan
      BY <2>4, <2>5, <2>6, SameClan
    <2>8. n \in Request /\ n.op = "create" /\ n.player = p /\ n.inv = room /\ n.seen = <<>>
      BY <2>3, IdleOK DEF Request, PC, Op, Handler
    <2> HIDE DEF n
    <2>9. OfClan(room)
      BY <2>3, <2>7 DEF OfClan
    <2> QED BY <1>0, <2>1, <2>7, <2>8, <2>9, ClanChecked
  <1>2. ASSUME NEW n, Continue(s, n), n.pc \in {"joinRead", "ownRead"}, n.op # "create",
               n.seen = <<>>
        PROVE  ReqsProper'
    <2>1. ClanReq(n)
      BY <1>2 DEF ClanReq, HoldingPC, MakingPC, OpponentPC, CheckPC, LeavePC, QueuePC, ScanPC, CancelPC
    <2> QED BY <1>0, <1>2, <2>1, ClanResume
  <1>3. ASSUME NEW n, Continue(s, n), n.pc \in {"custom", "queueRead", "cancelQueue"},
               Proper(n.inv), n.seen = <<>>
        PROVE  ReqsProper'
    <2>1. ClanReq(n)
      BY <1>3 DEF ClanReq, Proper, HoldingPC, MakingPC, OpponentPC, CheckPC, LeavePC, QueuePC,
                  ScanPC, CancelPC
    <2> QED BY <1>0, <1>3, <2>1, ClanResume
  <1>4. ASSUME NEW p \in Player, NEW r \in Room, joinInvite(s, p, r) PROVE ReqsProper'
    BY <1>2, <1>4 DEF joinInvite, Idle
  <1>5. ASSUME NEW p \in Player, leaveRoom(s, p) \/ sendInvite(s, p) PROVE ReqsProper'
    <2>1. PICK op \in {"leave", "send"} : GetOwnRoom(s, op, p)
      BY <1>5 DEF leaveRoom, sendInvite
    <2>2. Continue(s, [Idle EXCEPT !.pc = "ownRead", !.op = op, !.player = p,
                                   !.room = playerInvite[p]])
      BY <2>1 DEF GetOwnRoom
    <2> QED BY <1>2, <2>2 DEF Idle
  <1>6. ASSUME NEW p \in Player, NEW r \in Room, startRoom(s, p, r) PROVE ReqsProper'
    <2> DEFINE room == invites[r]
               pc   == IF room.matchType = "CUSTOM" THEN "custom" ELSE "queueRead"
               n    == [Idle EXCEPT !.op = "start", !.player = p, !.room = r, !.inv = room,
                                    !.pc = pc]
    <2>1. Continue(s, n) /\ room # Nil
      BY <1>6 DEF startRoom, MayStart
    <2>2. Proper(room) /\ pc \in {"custom", "queueRead"}
      BY <1>0, <2>1 DEF RoomsProper
    <2> HIDE DEF room, pc
    <2>3. n.pc = pc /\ n.inv = room /\ n.seen = <<>>
      BY DEF Idle
    <2> HIDE DEF n
    <2> QED BY <1>3, <2>1, <2>2, <2>3
  <1>7. ASSUME NEW p \in Player, NEW r \in Room, cancelInvite(s, p, r) PROVE ReqsProper'
    <2> DEFINE room == invites[r]
               op   == IF Has(room, {"CANCELLED"}) THEN "recancel" ELSE "cancel"
               n    == [Idle EXCEPT !.pc = "cancelQueue", !.op = op, !.player = p,
                                    !.room = r, !.inv = room]
    <2>1. Continue(s, n) /\ room # Nil
      BY <1>7 DEF cancelInvite, MayCancel
    <2>2. Proper(room)
      BY <1>0, <2>1 DEF RoomsProper
    <2> HIDE DEF room, op
    <2>3. n.pc = "cancelQueue" /\ n.inv = room /\ n.seen = <<>>
      BY DEF Idle
    <2> HIDE DEF n
    <2> QED BY <1>3, <2>1, <2>2, <2>3
  <1>8. ReqsProper'
    BY <1>1, <1>4, <1>5, <1>6, <1>7 DEF Call
  <1> QED BY <1>a, <1>b, <1>8 DEF ClanInv

\* The teams of a clan match are of different clans and have only their members,
\* although opponents and members are read some commands before the match is made
\* and rooms are joined and left meanwhile (joinInviteWhileLocked, tryCreateClanMatch).
THEOREM ClansAlwaysMeet == Spec => []ClansMeet
  <1>1. Init => ClanInv
    <2> SUFFICES ASSUME Init PROVE ClanInv
      OBVIOUS
    <2>1. RoomsProper /\ ClansMeet
      BY DEF Init, RoomsProper, ClansMeet
    <2>2. ReqsProper
      BY ClanIdle DEF Init, ReqsProper
    <2> QED BY <2>1, <2>2 DEF ClanInv
  <1>2. IInv /\ ClanInv /\ [Next]_vars => ClanInv'
    <2> SUFFICES ASSUME IInv, ClanInv, [Next]_vars PROVE ClanInv'
      OBVIOUS
    <2>0. StoreOK /\ ReqsOK /\ RoomsProper /\ ReqsProper /\ ClansMeet
      BY DEF IInv, ClanInv
    <2>a. /\ invites' = invites => RoomsProper'
          /\ matches' = matches => ClansMeet'
      BY <2>0, ClanRoomsKept, ClanMatchesKept
    <2>1. ASSUME NEW s \in Slot, Call(s) \/ Step(s) PROVE ClanInv'
      BY <2>1, ClanCall, ClanCreateOrJoin, ClanLeaveOrCancel, ClanStart DEF Step
    <2>2. ASSUME NEW s \in Slot, Crash(s) PROVE ClanInv'
      <3>1. Continue(s, Idle) /\ UNCHANGED redis
        BY <2>2 DEF Crash, Continue
      <3> QED BY <2>0, <2>a, <3>1, ClanIdle, ClanResume DEF ClanInv, redis
    <2>3. ASSUME NEW r \in Room, Timeout(r) PROVE ClanInv'
      <3>1. PICK s \in Slot : handleClanOpponentTimeout(s, r)
        BY <2>3 DEF Timeout
      <3> DEFINE room   == invites[r]
                 queued == Has(room, {"QUEUED"}) /\ room.matchType = "CLAN"
                 pc     == IF queued THEN "scan" ELSE "jobDone"
                 inv    == IF queued THEN room ELSE Nil
                 n      == [Idle EXCEPT !.op = "timeout", !.room = r, !.pc = pc, !.inv = inv]
      <3>2. Continue(s, n) /\ UNCHANGED redis
        BY <3>1 DEF handleClanOpponentTimeout
      <3>3. pc = "jobDone" \/ (pc = "scan" /\ Proper(inv))
        BY <2>0 DEF RoomsProper, Has
      <3> HIDE DEF pc, inv
      <3>4. n.pc = pc /\ n.inv = inv /\ n.seen = <<>>
        BY DEF Idle
      <3> HIDE DEF n
      <3>5. ClanReq(n)
        BY <3>3, <3>4 DEF ClanReq, Proper, HoldingPC, MakingPC, OpponentPC, CheckPC, LeavePC,
                          QueuePC, ScanPC, CancelPC
      <3> QED BY <2>0, <2>a, <3>2, <3>5, ClanResume DEF ClanInv, redis
    <2>4. ASSUME req' = req PROVE ReqsProper'
      BY <2>0, <2>4 DEF ReqsProper, ClanReq, Proper, OfClan, Members
    <2>5. ASSUME NEW r \in Room, ExpireRoom(r) PROVE ClanInv'
      <3>1. RoomsProper'
        BY <2>0, <2>5, ClanSaved DEF ExpireRoom
      <3> QED BY <2>a, <2>4, <2>5, <3>1 DEF ExpireRoom, ClanInv
    <2>6. CASE (\E r \in Room : ExpireLock(r)) \/ (\E p \in Player : ExpireIndex(p))
               \/ UNCHANGED vars
      BY <2>6, <2>a, <2>4 DEF ExpireLock, ExpireIndex, vars, ClanInv
    <2> QED BY <2>1, <2>2, <2>3, <2>5, <2>6 DEF Next, Expire
  <1>3. ClanInv => ClansMeet
    BY DEF ClanInv
  <1> QED BY <1>1, <1>2, <1>3, Inductive, PTL DEF Spec
----------------------------------------------------------------------------
(* One room per player                                                      *)

Alone(p) == \A r \in Room : ~InRoom(p, r)

Put(r, room) == invites' = [invites EXCEPT ![r] = room]

RoomsTyped == invites \in [Room -> RoomRecord \cup {Nil}]

\* OneRoomPerPlayer alone is not inductive: a player who joins must not already
\* be in the room joined, and what a join or a leave does to the members is only
\* known of rooms that fit.
ServiceInv == RoomsTyped /\ RoomsFit /\ OneRoomPerPlayer

\* RoomService has the same functions of a room.
LEMMA SamePure ==
    /\ \A p, clan, b : Service!NewRoom(p, clan, b) = NewRoom(p, clan, b)
    /\ \A room, p : /\ Service!WithPlayer(room, p) = WithPlayer(room, p)
                     /\ Service!WithoutPlayer(room, p) = WithoutPlayer(room, p)
    /\ \A room, p, clan : Service!MayJoin(room, p, clan) <=> MayJoin(room, p, clan)
    /\ \A room, m : Service!MatchedRoom(room, m) = MatchedRoom(room, m)
  <1>1. \A room : Service!getInviteCapacity(room) = getInviteCapacity(room)
    BY DEF Service!getInviteCapacity, getInviteCapacity
  <1>2. \A room : Service!recalculateInvite(room) = recalculateInvite(room)
    BY <1>1 DEF Service!recalculateInvite, recalculateInvite
  <1>3. \A room : Service!makeRoomForPlayer(room) = makeRoomForPlayer(room)
    BY <1>1 DEF Service!makeRoomForPlayer, makeRoomForPlayer, Service!isInviteFull, isInviteFull
  <1>4. \A s, x : Service!Without(s, x) = Without(s, x)
    BY DEF Service!Without, Without
  <1>5. \A p, clan, b : Service!NewRoom(p, clan, b) = NewRoom(p, clan, b)
    BY <1>2 DEF Service!NewRoom, NewRoom
  <1>6. \A room, p : Service!WithPlayer(room, p) = WithPlayer(room, p)
    BY <1>2, <1>3 DEF Service!WithPlayer, WithPlayer
  <1>7. \A room, p : Service!WithoutPlayer(room, p) = WithoutPlayer(room, p)
    BY <1>2, <1>4 DEF Service!WithoutPlayer, WithoutPlayer
  <1>8. \A room, p, clan : Service!MayJoin(room, p, clan) <=> MayJoin(room, p, clan)
    BY <1>1 DEF Service!MayJoin, MayJoin, Service!isInviteJoinable, isInviteJoinable
  <1>9. \A room, m : Service!MatchedRoom(room, m) = MatchedRoom(room, m)
    BY DEF Service!MatchedRoom, MatchedRoom
  <1> QED BY <1>5, <1>6, <1>7, <1>8, <1>9

\* And it sees the same rooms.
LEMMA SameService ==
    /\ \A r \in Room : /\ Service!Exists(r) <=> invites[r] # Nil
                       /\ Service!IsActive(r) <=> IsActive(r)
                       /\ \A room : Service!Write(r, room) <=> Put(r, room)
    /\ \A p \in Player : /\ \A r \in Room : Service!InRoom(p, r) <=> InRoom(p, r)
                         /\ Service!Free(p) <=> Alone(p)
  <1>1. \A r \in Room : Service!IsActive(r) <=> IsActive(r)
    BY DEF Service!IsActive, Service!Exists, IsActive, Has, Active
  <1>2. \A r \in Room : (Service!Exists(r) <=> invites[r] # Nil)
                        /\ \A room : Service!Write(r, room) <=> Put(r, room)
    BY DEF Service!Exists, Service!Write, Put
  <1>3. \A room : Service!Members(room) = Members(room)
    BY DEF Service!Members, Members
  <1>4. \A p \in Player, r \in Room : Service!InRoom(p, r) <=> InRoom(p, r)
    BY <1>1, <1>3 DEF Service!InRoom, InRoom
  <1>5. \A p \in Player : Service!Free(p) <=> Alone(p)
    BY <1>4 DEF Service!Free, Alone
  <1> QED BY <1>1, <1>2, <1>4, <1>5

\* A write keeps the invariant when the room written fits and each of its
\* members was in it or in no room.
LEMMA PutOK ==
    ASSUME ServiceInv, NEW r \in Room, NEW value \in RoomRecord \cup {Nil}, Put(r, value),
           value # Nil => Fits(value),
           value # Nil /\ value.status \in {"OPEN", "READY", "QUEUED"}
             => \A p \in Members(value) : InRoom(p, r) \/ Alone(p)
    PROVE  ServiceInv'
  <1>1. invites \in [Room -> RoomRecord \cup {Nil}] /\ invites' = [invites EXCEPT ![r] = value]
    BY DEF ServiceInv, RoomsTyped, Put
  <1>2. \A x \in Room : invites'[x] = IF x = r THEN value ELSE invites[x]
    BY <1>1
  <1>3. RoomsTyped'
    BY <1>1 DEF RoomsTyped
  <1>4. \A x \in Room : invites'[x] # Nil => Fits(invites'[x])
    BY <1>2 DEF ServiceInv, RoomsFit
  <1>5. ASSUME NEW p \in Player, NEW x \in Room, InRoom(p, x)' , NEW y \in Room, InRoom(p, y)'
        PROVE  x = y
    <2>1. \A z \in Room \ {r} : InRoom(p, z)' => InRoom(p, z)
      BY <1>2 DEF InRoom, IsActive, Has, Active, Members
    <2>2. InRoom(p, r)' => InRoom(p, r) \/ Alone(p)
      BY <1>2 DEF InRoom, IsActive, Has, Active, Members
    <2> QED BY <1>5, <2>1, <2>2 DEF ServiceInv, OneRoomPerPlayer, Alone
  <1>6. OneRoomPerPlayer'
    BY <1>5 DEF OneRoomPerPlayer
  <1>7. RoomsFit'
    BY <1>4 DEF RoomsFit, Fits, getInviteCapacity
  <1> QED BY <1>3, <1>6, <1>7 DEF ServiceInv

\* A change of status alone keeps the members of a room.
LEMMA StatusOK ==
    ASSUME ServiceInv, NEW r \in Room, invites[r] # Nil, NEW status \in RoomStatus,
           status \in {"READY", "QUEUED", "MATCHED"}
             => invites[r].status \in {"READY", "QUEUED", "MATCHED"},
           status \in {"OPEN", "READY", "QUEUED"} => IsActive(r),
           NEW match \in MatchId \cup {Nil},
           Put(r, [invites[r] EXCEPT !.status = status, !.match = match])
    PROVE  ServiceInv'
  <1> DEFINE room  == invites[r]
             value == [room EXCEPT !.status = status, !.match = match]
  <1>1. room \in RoomRecord /\ Fits(room)
    BY DEF ServiceInv, RoomsTyped, RoomsFit
  <1>a. \A p \in Members(room) : IsActive(r) => InRoom(p, r)
    BY DEF InRoom
  <1>2. Put(r, value)
    OBVIOUS
  <1> HIDE DEF room
  <1>3. /\ value \in RoomRecord
        /\ value.status = status /\ value.players = room.players /\ value.bots = room.bots
        /\ value.matchType = room.matchType /\ value.teamSize = room.teamSize
    BY <1>1 DEF RoomRecord
  <1> HIDE DEF value
  <1>4. Fits(value)
    BY <1>1, <1>3 DEF Fits, getInviteCapacity, room
  <1>5. Members(value) = Members(room)
    BY <1>3 DEF Members
  <1> QED BY <1>2, <1>3, <1>4, <1>5, <1>a, PutOK

\* One room is matched.
LEMMA MatchedOK ==
    ASSUME NEW room \in RoomRecord, NEW m \in MatchId, Fits(room),
           room.status \in {"READY", "QUEUED"}
    PROVE  /\ MatchedRoom(room, m) \in RoomRecord /\ Fits(MatchedRoom(room, m))
           /\ MatchedRoom(room, m).status = "MATCHED"
  BY DEF MatchedRoom, RoomRecord, RoomStatus, Fits, getInviteCapacity

\* As long as matchmaking does what RoomService promises, a player is a member of
\* at most one active room, for any number of players and rooms and whatever
\* sequence of calls they make (createInvite, joinInvite, leaveRoom, startRoom,
\* cancelInvite).
THEOREM OneRoomEach == ImplementsService => []OneRoomPerPlayer
  <1>1. Service!Init => ServiceInv
    BY DEF Service!Init, ServiceInv, RoomsTyped, RoomsFit, OneRoomPerPlayer, InRoom, IsActive, Has
  <1>2. ServiceInv /\ [Service!Next]_invites => ServiceInv'
    <2> SUFFICES ASSUME ServiceInv, [Service!Next]_invites PROVE ServiceInv'
      OBVIOUS
    <2>0. \A r \in Room : invites[r] # Nil => invites[r] \in RoomRecord /\ Fits(invites[r])
      BY DEF ServiceInv, RoomsTyped, RoomsFit
    <2>1. ASSUME NEW p \in Player, NEW b \in Bodies, Service!Create(p, b) PROVE ServiceInv'
      <3>1. PICK r \in Room, clan \in ClansOf[p] : Alone(p) /\ Put(r, NewRoom(p, clan, b))
        BY <2>1, SameService, SamePure DEF Service!Create
      <3>2. clan \in Clan \cup {Nil} /\ b \in Body
        BY ClansOfAssumption, BodiesAssumption
      <3> QED BY <3>1, <3>2, NewRoomFits, PutOK
    <2>2. ASSUME NEW p \in Player, NEW r \in Room, Service!Join(p, r) PROVE ServiceInv'
      <3>1. /\ Alone(p) /\ invites[r] \in RoomRecord /\ Fits(invites[r]) /\ invites[r] # Nil
            /\ isInviteJoinable(invites[r]) /\ Put(r, WithPlayer(invites[r], p))
        BY <2>0, <2>2, SameService, SamePure DEF Service!Join, MayJoin
      <3>2. IsActive(r)
        BY <3>1 DEF IsActive, Has, Active, isInviteJoinable
      <3>3. p \notin Members(invites[r])
        BY <3>1, <3>2 DEF Alone, InRoom
      <3>4. \A x \in Members(invites[r]) : InRoom(x, r)
        BY <3>2 DEF InRoom
      <3> DEFINE new == WithPlayer(invites[r], p)
      <3>5. new \in RoomRecord /\ Fits(new) /\ Members(new) = Members(invites[r]) \cup {p}
        BY <3>1, <3>3, WithPlayerFits
      <3> HIDE DEF new
      <3> QED BY <3>1, <3>4, <3>5, PutOK DEF new
    <2>3. ASSUME NEW p \in Player, NEW r \in Room, Service!Leave(p, r) PROVE ServiceInv'
      <3>1. InRoom(p, r) /\ IsActive(r) /\ invites[r] \in RoomRecord /\ Fits(invites[r])
        BY <2>0, <2>3, SameService DEF Service!Leave, InRoom, IsActive, Has
      <3>2. CASE Put(r, Nil)
        BY <3>2, PutOK
      <3>3. CASE invites[r].players # <<p>> /\ Put(r, WithoutPlayer(invites[r], p))
        <4> DEFINE ps == invites[r].players
                   new == WithoutPlayer(invites[r], p)
        <4>1. ps \in Seq(Player) /\ \E i \in DOMAIN ps : ps[i] = p
          BY <3>1 DEF InRoom, Members, RoomRecord
        <4>2. ps # <<p>>
          BY <3>3
        <4>a. Len(ps) > 1
          <5> HIDE DEF ps
          <5>1. Len(ps) \in Nat /\ DOMAIN ps = 1 .. Len(ps)
            BY <4>1
          <5>2. Len(ps) >= 1
            BY <4>1, <5>1
          <5>3. Len(ps) = 1 => ps = <<p>>
            BY <4>1
          <5> QED BY <4>2, <5>1, <5>2, <5>3
        <4>3. new \in RoomRecord /\ Fits(new) /\ Members(new) \subseteq Members(invites[r])
          BY <3>1, <4>a, WithoutPlayerFits DEF InRoom
        <4>4. \A x \in Members(invites[r]) : InRoom(x, r)
          BY <3>1 DEF InRoom
        <4> HIDE DEF new
        <4> QED BY <3>3, <4>3, <4>4, PutOK DEF new
      <3> QED BY <2>3, <3>2, <3>3, SameService, SamePure DEF Service!Leave
    <2>4. ASSUME NEW r \in Room, Service!Queue(r) \/ Service!Cancel(r) PROVE ServiceInv'
      <3> DEFINE room == invites[r]
      <3>1. invites[r] # Nil /\ room \in RoomRecord /\ Fits(room) /\ room.match \in MatchId \cup {Nil}
        BY <2>0, <2>4, SameService DEF Service!Queue, Service!Cancel, IsActive, Has, RoomRecord
      <3>2. CASE room.status = "READY" /\ Put(r, [room EXCEPT !.status = "QUEUED"])
        <4>1. [room EXCEPT !.status = "QUEUED"]
                = [room EXCEPT !.status = "QUEUED", !.match = room.match]
          BY <3>1 DEF RoomRecord
        <4> QED BY <3>1, <3>2, <4>1, StatusOK DEF IsActive, Has, Active, RoomStatus
      <3>3. CASE Put(r, [room EXCEPT !.status = "CANCELLED"])
        <4>1. [room EXCEPT !.status = "CANCELLED"]
                = [room EXCEPT !.status = "CANCELLED", !.match = room.match]
          BY <3>1 DEF RoomRecord
        <4> QED BY <3>1, <3>3, <4>1, StatusOK DEF RoomStatus
      <3> QED BY <2>4, <3>2, <3>3, SameService DEF Service!Queue, Service!Cancel
    <2>5. ASSUME NEW r \in Room, Service!Expire(r) PROVE ServiceInv'
      BY <2>5, PutOK, SameService DEF Service!Expire
    <2>6. ASSUME NEW r1 \in Room, NEW r2 \in Room, NEW m \in MatchId, Service!Pair(r1, r2, m)
          PROVE  ServiceInv'
      <3> DEFINE v1 == MatchedRoom(invites[r1], m)
                 v2 == MatchedRoom(invites[r2], m)
      <3>1. /\ invites[r1] # Nil /\ invites[r2] # Nil /\ r1 # r2
            /\ invites[r1].status = "QUEUED" /\ invites[r2].status = "QUEUED"
            /\ invites' = [invites EXCEPT ![r1] = v1, ![r2] = v2]
        BY <2>6, SameService, SamePure DEF Service!Pair, Service!Opponents
      <3>2. /\ v1 \in RoomRecord /\ Fits(v1) /\ v1.status = "MATCHED"
            /\ v2 \in RoomRecord /\ Fits(v2) /\ v2.status = "MATCHED"
        BY <2>0, <3>1, MatchedOK
      <3> HIDE DEF v1, v2
      <3>3. invites \in [Room -> RoomRecord \cup {Nil}]
        BY DEF ServiceInv, RoomsTyped
      <3>4. \A x \in Room : invites'[x] = IF x = r2 THEN v2 ELSE IF x = r1 THEN v1 ELSE invites[x]
        BY <3>1, <3>3
      <3>5. RoomsTyped'
        BY <3>1, <3>2, <3>3 DEF RoomsTyped
      <3>6. \A x \in Room : invites'[x] # Nil => Fits(invites'[x])
        BY <3>2, <3>4, <2>0
      <3>7. RoomsFit'
        BY <3>6 DEF RoomsFit, Fits, getInviteCapacity
      <3>8. ASSUME NEW p \in Player, NEW x \in Room, InRoom(p, x)' PROVE InRoom(p, x)
        BY <3>2, <3>4, <3>8 DEF InRoom, IsActive, Has, Active, Members
      <3>9. OneRoomPerPlayer'
        BY <3>8 DEF ServiceInv, OneRoomPerPlayer
      <3> QED BY <3>5, <3>7, <3>9 DEF ServiceInv
    <2>7. ASSUME NEW r \in Room, NEW m \in MatchId, Service!PlayAlone(r, m) PROVE ServiceInv'
      <3> DEFINE new == MatchedRoom(invites[r], m)
      <3>1. new \in RoomRecord /\ Fits(new) /\ new.status = "MATCHED" /\ Put(r, new)
        BY <2>0, <2>7, MatchedOK, SameService, SamePure DEF Service!PlayAlone
      <3> HIDE DEF new
      <3> QED BY <3>1, PutOK
    <2>8. CASE UNCHANGED invites
      BY <2>8 DEF ServiceInv, RoomsTyped, RoomsFit, OneRoomPerPlayer, InRoom, IsActive, Has,
                  Active, Members, Fits, getInviteCapacity
    <2> QED BY <2>1, <2>2, <2>3, <2>4, <2>5, <2>6, <2>7, <2>8 DEF Service!Next
  <1>3. ServiceInv => OneRoomPerPlayer
    BY DEF ServiceInv
  <1> QED BY <1>1, <1>2, <1>3, PTL DEF ImplementsService, Service!Spec
============================================================================
