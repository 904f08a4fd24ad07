------------------------- MODULE ClanMembershipProofs -------------------------
(***************************************************************************)
(* The members of the clans, their count and their rooms.  What the count    *)
(* rests on: whoever was counted out of a clan to join another is a member    *)
(* of the first until it joins, and is so once.                               *)
(***************************************************************************)
EXTENDS ClanMembership, FiniteSetTheorems, WellFoundedInduction, TLAPS

Label == {"idle", "depart", "delete", "decrease", "write", "join", "leave", "create",
          "expedition", "remove"}

RequestRecord ==
    [pc : Label, player : Player \cup {Nil}, clan : ClanId \cup {Nil}, old : ClanId \cup {Nil},
     count : 0..MaxPlayers \cup {Nil}]

\* What a request knows: the clans cs are those there are.
Good(r, cs) ==
    /\ r.pc # "idle" => r.player \in Player
    /\ r.pc \in {"depart", "delete", "decrease", "write"} => r.old \in ClanId
    /\ r.pc \in {"depart", "delete", "join", "leave"} => r.clan \in ClanId
    /\ r.pc = "write" => r.count \in 1..MaxPlayers
    /\ r.pc \in {"create", "expedition"} => r.old = Nil
    /\ r.pc = "remove" => r.clan = Nil
    /\ r.old \in ClanId => cs[r.old] # New

Fit ==
    /\ clans \in [ClanId -> Clan \cup {New, Deleted}]
    /\ players \subseteq Player
    /\ clanOf \in [Player -> ClanId \cup {Nil}]
    /\ req \in [Client -> RequestRecord]
    /\ \A s \in Client : Good(req[s], clans)
    /\ drifted \cup evicted \subseteq ClanId

\* Natural numbers have a least one: what is chosen as a new clan is one.
LEMMA LeastOne ==
    ASSUME NEW T, T \subseteq Nat, T # {}
    PROVE  Min(T) \in T
  <1>1. PICK n \in T : \A m \in T : ~ (<<m, n>> \in OpToRel(<, Nat))
    BY NatLessThanWellFounded, WFMin, Zenon
  <1>2. \A m \in T : ~ (m < n)
    BY <1>1 DEF OpToRel
  <1>3. \E x \in T : \A y \in T : x <= y
    BY <1>2
  <1> QED BY <1>3 DEF Min

LEMMA UnusedOne ==
    ASSUME Unused # {}
    PROVE  Min(Unused) \in ClanId /\ clans[Min(Unused)] = New
  BY LeastOne, ClanAssumption DEF Unused

LEMMA IdleRequest == Idle \in RequestRecord /\ Idle.pc = "idle" /\ Idle.old = Nil /\ Idle.clan = Nil
  BY DEF Idle, RequestRecord, Label

\* Stored clans are clans.
LEMMA Lives ==
    ASSUME Fit
    PROVE  /\ \A c \in Stored : c \in ClanId /\ clans[c] \in Clan
           /\ \A c \in ClanId : clans[c] \in Clan => c \in Stored
  BY AbsentAssumption DEF Fit, Stored
----------------------------------------------------------------------------
\* One slot goes over to the request r.
Turns(s, r) == req' = [req EXCEPT ![s] = r]

LEMMA Begins ==
    ASSUME Fit, NEW s \in Client, NEW pc \in Label, NEW p \in Player, NEW c \in ClanId \cup {Nil},
           NEW old \in ClanId \cup {Nil}, Begin(s, pc, p, c, old)
    PROVE  \E r \in RequestRecord : /\ Turns(s, r) /\ r.pc = pc /\ r.player = p /\ r.clan = c /\ r.old = old
  <1> DEFINE r == [pc |-> pc, player |-> p, clan |-> c, old |-> old, count |-> Nil]
  <1>1. r \in RequestRecord /\ Turns(s, r)
    BY DEF Begin, Turns, RequestRecord
  <1> QED BY <1>1

LEMMA Goes ==
    ASSUME Fit, NEW s \in Client, NEW pc \in Label, Goto(s, pc)
    PROVE  \E r \in RequestRecord : /\ Turns(s, r) /\ r.pc = pc /\ r.player = req[s].player
                                    /\ r.clan = req[s].clan /\ r.old = req[s].old
                                    /\ r.count = req[s].count
  <1> DEFINE r == [req[s] EXCEPT !.pc = pc]
  <1>1. r \in RequestRecord /\ r.pc = pc /\ r.player = req[s].player
        /\ r.clan = req[s].clan /\ r.old = req[s].old /\ r.count = req[s].count
    BY DEF Fit, RequestRecord
  <1>2. Turns(s, r)
    BY DEF Fit, Goto, Turns
  <1> QED BY <1>1, <1>2

LEMMA Ends ==
    ASSUME NEW s \in Client, Finish(s)
    PROVE  Idle \in RequestRecord /\ Turns(s, Idle)
  BY IdleRequest DEF Finish, Turns
----------------------------------------------------------------------------
\* What a request does to a clan.
LEMMA Grown ==
    ASSUME NEW clan \in Clan, clan.playerCount < MaxPlayers
    PROVE  LET r == ActivateRoom(CountUp(clan))
           IN  r \in Clan /\ r.playerCount = clan.playerCount + 1 /\ r.active = clan.active + 1
  <1> DEFINE one == CountUp(clan)
             n == IF one.inactive > 0 THEN one.inactive - 1 ELSE one.inactive
  <1>1. one \in Clan /\ one.playerCount = clan.playerCount + 1 /\ one.active = clan.active
    BY BoundsAssumption DEF Clan, CountUp
  <1> HIDE DEF one
  <1>2. ActivateRoom(one) = [one EXCEPT !.active = one.active + 1, !.inactive = n]
    BY <1>1 DEF ActivateRoom, Clan
  <1>3. n \in Nat /\ one.active + 1 \in Nat
    BY <1>1 DEF Clan
  <1> HIDE DEF n
  <1>4. /\ ActivateRoom(one) \in Clan
        /\ ActivateRoom(one).playerCount = one.playerCount /\ ActivateRoom(one).active = one.active + 1
    BY <1>1, <1>2, <1>3 DEF Clan
  <1> QED BY <1>1, <1>4 DEF one

LEMMA Shrunk ==
    ASSUME NEW clan \in Clan, ~IsLast(clan.playerCount)
    PROVE  LET r == DeactivateRoom(CountDown(clan))
           IN  r \in Clan /\ r.playerCount = clan.playerCount - 1 /\ r.active >= clan.active - 1
  <1> DEFINE one == CountDown(clan)
  <1>1. one \in Clan /\ one.playerCount = clan.playerCount - 1 /\ one.active = clan.active
    BY BoundsAssumption DEF Clan, IsLast, CountDown
  <1> HIDE DEF one
  <1>2. /\ DeactivateRoom(one) \in Clan /\ DeactivateRoom(one).playerCount = one.playerCount
        /\ DeactivateRoom(one).active >= one.active - 1
    <2>1. CASE one.active > 0
      <3> DEFINE a == one.active - 1
                 b == one.inactive + 1
      <3>1. DeactivateRoom(one) = [one EXCEPT !.active = a, !.inactive = b]
        BY <1>1, <2>1 DEF DeactivateRoom, Clan
      <3>2. a \in Nat /\ b \in Nat /\ a >= one.active - 1
        BY <1>1, <2>1 DEF Clan
      <3> HIDE DEF a, b
      <3>3. /\ DeactivateRoom(one) \in Clan /\ DeactivateRoom(one).playerCount = one.playerCount
            /\ DeactivateRoom(one).active = a
        BY <1>1, <3>1, <3>2 DEF Clan
      <3> QED BY <3>2, <3>3
    <2>2. CASE ~(one.active > 0)
      BY <1>1, <2>2 DEF DeactivateRoom, Clan
    <2> QED BY <2>1, <2>2
  <1> QED BY <1>1, <1>2 DEF one

LEMMA NewOnes ==
    /\ \A p \in Player : NewClan(1, p) \in Clan /\ NewClan(1, p).playerCount = 1 /\ NewClan(1, p).active = 1
    /\ NewClan(0, Nil) \in Clan /\ NewClan(0, Nil).playerCount = 0 /\ NewClan(0, Nil).active = 1
  BY BoundsAssumption DEF NewClan, Clan

\* The clan c becomes r.
Becomes(c, r) == c \in ClanId /\ clans' = [clans EXCEPT ![c] = r]

LEMMA Joins ==
    ASSUME Fit, NEW s \in Client, joinClan(s)
    PROVE  /\ req[s].pc = "join" /\ req[s].player \in players /\ req[s].player \in Player /\ req[s].clan \in Stored
           /\ \E r \in Clan : /\ Becomes(req[s].clan, r)
                              /\ r.playerCount = clans[req[s].clan].playerCount + 1
                              /\ r.active = clans[req[s].clan].active + 1
           /\ clanOf' = [clanOf EXCEPT ![req[s].player] = req[s].clan]
           /\ Turns(s, Idle) /\ UNCHANGED <<players, evicted>>
           /\ drifted' = IF clanOf[req[s].player] = req[s].old THEN drifted
                         ELSE drifted \cup ({clanOf[req[s].player], req[s].old} \ {Nil})
  <1> DEFINE clan == clans[req[s].clan]
  <1>1. req[s].clan \in Stored /\ clan \in Clan /\ clan.playerCount < MaxPlayers
    BY Lives DEF joinClan
  <1>2. clans' = [clans EXCEPT ![req[s].clan] = ActivateRoom(CountUp(clan))]
    BY DEF joinClan
  <1> DEFINE r == ActivateRoom(CountUp(clan))
  <1>3. r \in Clan /\ r.playerCount = clan.playerCount + 1 /\ r.active = clan.active + 1
    BY <1>1, Grown
  <1>4. req[s].clan \in ClanId
    BY <1>1 DEF Stored
  <1> HIDE DEF r
  <1>5. Becomes(req[s].clan, r)
    BY <1>2, <1>4 DEF Becomes, r
  <1>6. /\ req[s].pc = "join" /\ req[s].player \in players /\ req[s].player \in Player
        /\ clanOf' = [clanOf EXCEPT ![req[s].player] = req[s].clan]
        /\ Turns(s, Idle) /\ UNCHANGED <<players, evicted>>
        /\ drifted' = IF clanOf[req[s].player] = req[s].old THEN drifted
                         ELSE drifted \cup ({clanOf[req[s].player], req[s].old} \ {Nil})
    BY DEF joinClan, At, Fit, Finish, Turns
  <1> QED BY <1>1, <1>3, <1>5, <1>6

LEMMA Removes ==
    ASSUME Fit, NEW s \in Client, removePlayerFromClan(s)
    PROVE  LET c == req[s].clan
               p == req[s].player
           IN  /\ req[s].pc = "leave" /\ c \in Stored /\ p \in Player
               /\ Turns(s, Idle) /\ UNCHANGED players
               /\ drifted' = IF p \in Members(c) \ CountedOut(c) THEN drifted
                             ELSE drifted \cup ({c, clanOf[p]} \ {Nil})
               /\ \/ /\ IsLast(clans[c].playerCount) /\ Becomes(c, Deleted)
                     /\ clanOf' = CastOut({p}, c) /\ NoteEviction(c, p)
                  \/ /\ \E r \in Clan : /\ Becomes(c, r) /\ r.playerCount = clans[c].playerCount - 1
                                        /\ r.active >= clans[c].active - 1
                     /\ clanOf' = [clanOf EXCEPT ![p] = Nil] /\ UNCHANGED evicted
  <1> DEFINE c == req[s].clan
             p == req[s].player
  <1>1. /\ req[s].pc = "leave" /\ c \in Stored /\ c \in ClanId /\ p \in Player
        /\ Turns(s, Idle) /\ UNCHANGED players
        /\ drifted' = IF p \in Members(c) \ CountedOut(c) THEN drifted
                      ELSE drifted \cup ({c, clanOf[p]} \ {Nil})
    BY DEF removePlayerFromClan, At, Finish, Turns, Fit, Good, Stored
  <1>2. CASE IsLast(clans[c].playerCount)
    BY <1>1, <1>2 DEF removePlayerFromClan, Becomes
  <1>3. CASE ~IsLast(clans[c].playerCount)
    <2> DEFINE clan == clans[c]
               r == DeactivateRoom(CountDown(clan))
    <2>1. clans' = [clans EXCEPT ![c] = r]
      BY <1>3 DEF removePlayerFromClan
    <2>2. r \in Clan /\ r.playerCount = clan.playerCount - 1 /\ r.active >= clan.active - 1
      BY <1>1, <1>3, Lives, Shrunk
    <2> HIDE DEF r
    <2>3. Becomes(c, r)
      BY <1>1, <2>1 DEF Becomes
    <2>4. clanOf' = [clanOf EXCEPT ![p] = Nil] /\ UNCHANGED evicted
      BY <1>3 DEF removePlayerFromClan
    <2> QED BY <1>1, <2>2, <2>3, <2>4
  <1> QED BY <1>1, <1>2, <1>3

LEMMA Writes ==
    ASSUME Fit, NEW s \in Client, decreaseByIdOnOne(s)
    PROVE  LET c == req[s].old
               n == req[s].count - 1
               written == c \in Stored /\ clans[c].playerCount # n
           IN  /\ req[s].pc = "write" /\ c \in ClanId /\ n \in 0..MaxPlayers /\ req[s].player \in Player
               /\ UNCHANGED <<players, clanOf, evicted>>
               /\ written => \E r \in Clan : /\ Becomes(c, r) /\ r.playerCount = n /\ r.active = clans[c].active
               /\ ~written => UNCHANGED clans
               /\ IF written /\ req[s].clan # Nil
                  THEN \E r \in RequestRecord : /\ Turns(s, r) /\ r.pc = "join" /\ r.player = req[s].player
                                                /\ r.clan = req[s].clan /\ r.old = c
                  ELSE Turns(s, Idle)
               /\ drifted' = IF (written /\ clans[c].playerCount = req[s].count
                                   /\ (req[s].clan = Nil \/ req[s].player \in Members(c) \ CountedOut(c)))
                                \/ (~written /\ req[s].clan # Nil)
                             THEN drifted ELSE drifted \cup {c}
  <1> DEFINE c == req[s].old
             n == req[s].count - 1
             written == c \in Stored /\ clans[c].playerCount # n
  <1>1. req[s].pc = "write" /\ c \in ClanId /\ req[s].count \in 1..MaxPlayers /\ req[s].player \in Player
    BY DEF decreaseByIdOnOne, At, Fit, Good
  <1>2. n \in 0..MaxPlayers
    BY <1>1, BoundsAssumption
  <1>3. ASSUME written PROVE \E r \in Clan : /\ Becomes(c, r) /\ r.playerCount = n /\ r.active = clans[c].active
    <2> DEFINE r == [clans[c] EXCEPT !.playerCount = n]
    <2>1. clans' = [clans EXCEPT ![c].playerCount = n]
      BY <1>3 DEF decreaseByIdOnOne
    <2>2. clans[c] \in Clan
      BY <1>3, Lives
    <2>3. clans' = [clans EXCEPT ![c] = r]
      BY <1>1, <2>1 DEF Fit
    <2> HIDE DEF n
    <2>4. r \in Clan /\ r.playerCount = n /\ r.active = clans[c].active
      BY <1>2, <2>2 DEF Clan
    <2> HIDE DEF r
    <2> QED BY <1>1, <2>3, <2>4 DEF Becomes
  <1>4. ~written => UNCHANGED clans
    BY DEF decreaseByIdOnOne
  <1>5. IF written /\ req[s].clan # Nil THEN Goto(s, "join") ELSE Finish(s)
    BY DEF decreaseByIdOnOne
  <1>6. IF written /\ req[s].clan # Nil
        THEN \E r \in RequestRecord : /\ Turns(s, r) /\ r.pc = "join" /\ r.player = req[s].player
                                      /\ r.clan = req[s].clan /\ r.old = c
        ELSE Turns(s, Idle)
    BY <1>5, Goes, Ends DEF Label
  <1>7. /\ UNCHANGED <<players, clanOf, evicted>>
        /\ drifted' = IF (written /\ clans[c].playerCount = req[s].count
                                   /\ (req[s].clan = Nil \/ req[s].player \in Members(c) \ CountedOut(c)))
                                \/ (~written /\ req[s].clan # Nil)
                             THEN drifted ELSE drifted \cup {c}
    BY DEF decreaseByIdOnOne
  <1> QED BY <1>1, <1>2, <1>3, <1>4, <1>6, <1>7
----------------------------------------------------------------------------
\* Clans stay clans, and once there were are never new again.
ClansStep ==
    /\ clans' \in [ClanId -> Clan \cup {New, Deleted}]
    /\ \A c \in ClanId : clans[c] # New => clans'[c] # New

LEMMA Became ==
    ASSUME Fit, NEW c, NEW r \in Clan \cup {Deleted}, Becomes(c, r)
    PROVE  /\ ClansStep /\ clans'[c] = r /\ \A d \in ClanId \ {c} : clans'[d] = clans[d]
           /\ r \in Clan => Stored' = Stored \cup {c}
           /\ r = Deleted => Stored' = Stored \ {c}
  <1>1. /\ clans'[c] = r /\ \A d \in ClanId \ {c} : clans'[d] = clans[d]
        /\ clans' \in [ClanId -> Clan \cup {New, Deleted}]
    BY DEF Becomes, Fit
  <1>2. r # New /\ (r \in Clan => r # Deleted)
    BY AbsentAssumption
  <1> QED BY <1>1, <1>2 DEF Becomes, ClansStep, Stored

\* A deletion, by a request or its clan's admin.
LEMMA Deletes ==
    ASSUME Fit, NEW s \in Client, deleteOldClan(s), req[s].old \in Stored
    PROVE  LET c == req[s].old
           IN  /\ req[s].pc = "delete" /\ Becomes(c, Deleted) /\ clanOf' = CastOut({}, c)
               /\ req[s].clan \in ClanId /\ req[s].player \in Player
               /\ NoteEviction(c, req[s].player) /\ UNCHANGED players
               /\ \E r \in RequestRecord : /\ Turns(s, r) /\ r.pc = "join" /\ r.old = Nil
                                           /\ r.clan = req[s].clan /\ r.player = req[s].player
               /\ drifted' = IF IsLast(clans[c].playerCount) /\ req[s].player \in Members(c) \ CountedOut(c)
                             THEN drifted ELSE drifted \cup {c}
  <1> DEFINE c == req[s].old
             r == [req[s] EXCEPT !.pc = "join", !.old = Nil]
  <1>1. /\ req[s].pc = "delete" /\ Becomes(c, Deleted) /\ clanOf' = CastOut({}, c)
        /\ req[s].clan \in ClanId /\ req[s].player \in Player
        /\ NoteEviction(c, req[s].player) /\ UNCHANGED players
        /\ drifted' = IF IsLast(clans[c].playerCount) /\ req[s].player \in Members(c) \ CountedOut(c)
                      THEN drifted ELSE drifted \cup {c}
        /\ req' = [req EXCEPT ![s].pc = "join", ![s].old = Nil]
    BY DEF deleteOldClan, At, Becomes, Stored, Fit, Good
  <1>2. /\ r \in RequestRecord /\ r.pc = "join" /\ r.old = Nil
        /\ r.clan = req[s].clan /\ r.player = req[s].player
    BY DEF Fit, RequestRecord, Label
  <1>3. Turns(s, r)
    BY <1>1 DEF Turns, Fit
  <1> HIDE DEF r
  <1> QED BY <1>1, <1>2, <1>3

\* New clans.
LEMMA Creates ==
    ASSUME Fit, NEW s \in Client, createOne(s)
    PROVE  \E c \in ClanId, r \in Clan :
              /\ clans[c] = New /\ Becomes(c, r) /\ r.playerCount = 1 /\ r.active = 1
              /\ req[s].pc = "create" /\ req[s].player \in players /\ req[s].player \in Player
              /\ clanOf' = [clanOf EXCEPT ![req[s].player] = c]
              /\ Turns(s, Idle) /\ UNCHANGED <<players, evicted>>
              /\ drifted' = drifted \cup ({clanOf[req[s].player]} \ {Nil})
  <1>1. Min(Unused) \in ClanId /\ clans[Min(Unused)] = New
    BY UnusedOne DEF createOne
  <1>2. req[s].player \in players /\ req[s].player \in Player
    BY DEF createOne, Fit
  <1> QED BY <1>1, <1>2, NewOnes DEF createOne, Becomes, At, Finish, Turns

LEMMA Expeditions ==
    ASSUME Fit, NEW s \in Client, createAndJoinExpeditionClan(s)
    PROVE  \E c \in ClanId, r \in Clan, q \in RequestRecord :
              /\ clans[c] = New /\ Becomes(c, r) /\ r.playerCount = 0 /\ r.active = 1
              /\ Turns(s, q) /\ q.pc = "join" /\ q.clan = c /\ q.old = Nil /\ q.player = req[s].player
              /\ req[s].pc = "expedition" /\ req[s].old = Nil /\ req[s].player \in Player
              /\ UNCHANGED <<players, clanOf, drifted, evicted>>
  <1> DEFINE c == Min(Unused)
             q == [req[s] EXCEPT !.pc = "join", !.clan = c]
  <1>1. c \in ClanId /\ clans[c] = New
    BY UnusedOne DEF createAndJoinExpeditionClan
  <1>2. /\ req[s].pc = "expedition" /\ req[s].old = Nil /\ req[s].player \in Player
        /\ UNCHANGED <<players, clanOf, drifted, evicted>>
        /\ Becomes(c, NewClan(0, Nil))
        /\ req' = [req EXCEPT ![s].pc = "join", ![s].clan = c]
    BY <1>1 DEF createAndJoinExpeditionClan, At, Fit, Good, Becomes
  <1> HIDE DEF c
  <1>3. /\ q \in RequestRecord /\ q.pc = "join" /\ q.clan = c
        /\ q.old = req[s].old /\ q.player = req[s].player
    BY <1>1 DEF Fit, RequestRecord, Label
  <1>4. Turns(s, q)
    BY <1>2 DEF Turns, Fit
  <1> HIDE DEF q
  <1> QED BY <1>1, <1>2, <1>3, <1>4, NewOnes

LEMMA RemovesRooms ==
    ASSUME Fit, removeInactiveRooms
    PROVE  /\ ClansStep /\ Stored' = Stored
           /\ \A c \in Stored : clans'[c].playerCount = clans[c].playerCount /\ clans'[c].active = clans[c].active
  <1>1. PICK late \in SUBSET Stored :
          clans' = [c \in ClanId |-> IF c \in late THEN [clans[c] EXCEPT !.inactive = 0] ELSE clans[c]]
    BY DEF removeInactiveRooms
  <1>2. ASSUME NEW clan \in Clan
        PROVE  LET r == [clan EXCEPT !.inactive = 0]
               IN  r \in Clan /\ r.playerCount = clan.playerCount /\ r.active = clan.active
    BY DEF Clan
  <1>3. \A c \in ClanId : clans'[c] = clans[c] \/ (c \in Stored /\ clans'[c] = [clans[c] EXCEPT !.inactive = 0])
    BY <1>1
  <1>4. \A c \in ClanId : clans'[c] \in Clan \cup {New, Deleted}
    <2>1. ASSUME NEW c \in Stored PROVE [clans[c] EXCEPT !.inactive = 0] \in Clan
      BY <1>2, Lives
    <2>2. ASSUME NEW c \in ClanId PROVE clans[c] \in Clan \cup {New, Deleted}
      BY DEF Fit
    <2> QED BY <1>3, <2>1, <2>2, Zenon
  <1>5. clans' \in [ClanId -> Clan \cup {New, Deleted}]
    BY <1>1, <1>4
  <1>6. \A c \in Stored : /\ clans'[c] \in Clan /\ clans'[c].playerCount = clans[c].playerCount
                          /\ clans'[c].active = clans[c].active
    BY <1>2, <1>3, Lives
  <1>7. \A c \in ClanId \ Stored : clans'[c] = clans[c]
    BY <1>3
  <1> QED BY <1>5, <1>6, <1>7, AbsentAssumption, Lives DEF ClansStep, Stored

\* Actions that leave the clans alone.
Quiet(s) ==
    \/ Request(s) \/ readOldClan(s) \/ readCount(s) \/ cancelJoin(s) \/ cancelTransaction(s)
    \/ deletePlayer(s) \/ (deleteOldClan(s) /\ req[s].old \notin Stored)

LEMMA QuietClans ==
    ASSUME NEW s, Quiet(s)
    PROVE  UNCHANGED <<clans, clanOf, evicted>>
  BY DEF Quiet, Request, handleJoinRequest, excludePlayer, leaveClan, mayCreate, findClanForNewPlayer,
         readToDelete, readOldClan, readCount, cancelJoin, cancelTransaction, deletePlayer, deleteOldClan

\* The actions, by what they do to clans and members.
LEMMA Steps ==
    ASSUME [Next]_vars
    PROVE  \/ \E s \in Client : Quiet(s)
           \/ \E s \in Client : deleteOldClan(s) /\ req[s].old \in Stored
           \/ \E s \in Client : decreaseByIdOnOne(s) \/ joinClan(s) \/ removePlayerFromClan(s)
           \/ \E s \in Client : createOne(s) \/ createAndJoinExpeditionClan(s)
           \/ \E c \in ClanId : deleteOneById(c)
           \/ removeInactiveRooms \/ Stop \/ UNCHANGED vars
  BY DEF Next, Continue, Quiet

LEMMA ClansSteps ==
    ASSUME Fit, [Next]_vars
    PROVE  ClansStep
  <1>1. CASE UNCHANGED clans
    BY <1>1 DEF ClansStep, Fit
  <1>2. ASSUME NEW s \in Client, deleteOldClan(s), req[s].old \in Stored PROVE ClansStep
    BY <1>2, Deletes, Became
  <1>3. ASSUME NEW s \in Client, decreaseByIdOnOne(s) PROVE ClansStep
    BY <1>1, <1>3, Writes, Became
  <1>4. ASSUME NEW s \in Client, joinClan(s) PROVE ClansStep
    BY <1>4, Joins, Became
  <1>5. ASSUME NEW s \in Client, removePlayerFromClan(s) PROVE ClansStep
    BY <1>5, Removes, Became
  <1>6. ASSUME NEW s \in Client, createOne(s) \/ createAndJoinExpeditionClan(s) PROVE ClansStep
    BY <1>6, Creates, Expeditions, Became
  <1>7. ASSUME NEW c \in ClanId, deleteOneById(c) PROVE ClansStep
    BY <1>7, Became DEF deleteOneById, Becomes
  <1> QED BY <1>1, <1>2, <1>3, <1>4, <1>5, <1>6, <1>7, Steps, QuietClans, RemovesRooms DEF Stop, vars
----------------------------------------------------------------------------
\* Players stay where there is a clan.
LEMMA MembersStep ==
    ASSUME Fit, MembersHaveClan, [Next]_vars
    PROVE  MembersHaveClan'
  <1> USE DEF MembersHaveClan
  <1>1. CASE UNCHANGED <<players, clanOf>> /\ Stored \subseteq Stored'
    BY <1>1
  <1>2. ASSUME NEW s \in Client, Quiet(s) PROVE MembersHaveClan'
    <2>1. clanOf' = clanOf /\ Stored' = Stored
      BY <1>2, QuietClans DEF Stored
    <2>2. \A p \in players' \ players : clanOf[p] = Nil
      BY <1>2 DEF Quiet, Request, handleJoinRequest, excludePlayer, leaveClan, mayCreate,
                  findClanForNewPlayer, readToDelete, readOldClan, readCount, cancelJoin,
                  cancelTransaction, deletePlayer, deleteOldClan
    <2> QED BY <2>1, <2>2
  <1>3. ASSUME NEW c, Becomes(c, Deleted), clanOf' = CastOut({}, c), UNCHANGED players
        PROVE  MembersHaveClan'
    <2>1. Stored' = Stored \ {c}
      BY <1>3, Became
    <2>2. \A p \in players : clanOf'[p] = IF clanOf[p] = c THEN Nil ELSE clanOf[p]
      BY <1>3 DEF CastOut, Members, Fit
    <2> QED BY <1>3, <2>1, <2>2
  <1>4. ASSUME NEW s \in Client, decreaseByIdOnOne(s) PROVE MembersHaveClan'
    <2>1. UNCHANGED <<players, clanOf>> /\ Stored \subseteq Stored'
      BY <1>4, Writes, Became DEF Stored
    <2> QED BY <1>1, <2>1
  <1>5. ASSUME NEW s \in Client, joinClan(s) PROVE MembersHaveClan'
    <2> DEFINE p == req[s].player
               c == req[s].clan
    <2>1. /\ p \in Player /\ c \in Stored /\ UNCHANGED players
          /\ clanOf' = [clanOf EXCEPT ![p] = c] /\ Stored' = Stored \cup {c}
      BY <1>5, Joins, Became
    <2>2. \A q \in players : clanOf'[q] = IF q = p THEN c ELSE clanOf[q]
      BY <2>1 DEF Fit
    <2> QED BY <2>1, <2>2
  <1>6. ASSUME NEW s \in Client, removePlayerFromClan(s) PROVE MembersHaveClan'
    <2> DEFINE p == req[s].player
               c == req[s].clan
    <2>1. UNCHANGED players /\ c \in Stored /\ p \in Player
      BY <1>6, Removes
    <2>2. CASE Becomes(c, Deleted) /\ clanOf' = CastOut({p}, c)
      <3>1. Stored' = Stored \ {c}
        BY <2>2, Became
      <3>2. \A q \in players : clanOf'[q] = IF q = p \/ clanOf[q] = c THEN Nil ELSE clanOf[q]
        BY <2>2 DEF CastOut, Members, Fit
      <3> QED BY <2>1, <3>1, <3>2
    <2>3. CASE (\E r \in Clan : Becomes(c, r)) /\ clanOf' = [clanOf EXCEPT ![p] = Nil]
      <3>1. Stored' = Stored \cup {c}
        BY <2>3, Became
      <3>2. \A q \in players : clanOf'[q] = IF q = p THEN Nil ELSE clanOf[q]
        BY <2>3 DEF Fit
      <3> QED BY <2>1, <3>1, <3>2
    <2> QED BY <1>6, <2>2, <2>3, Removes
  <1>7. ASSUME NEW s \in Client, createOne(s) PROVE MembersHaveClan'
    <2> DEFINE p == req[s].player
    <2>1. PICK c \in ClanId : /\ Stored' = Stored \cup {c} /\ p \in Player /\ UNCHANGED players
                              /\ clanOf' = [clanOf EXCEPT ![p] = c]
      BY <1>7, Creates, Became
    <2>2. \A q \in players : clanOf'[q] = IF q = p THEN c ELSE clanOf[q]
      BY <2>1 DEF Fit
    <2> QED BY <2>1, <2>2
  <1>8. ASSUME NEW s \in Client, createAndJoinExpeditionClan(s) PROVE MembersHaveClan'
    <2>1. UNCHANGED <<players, clanOf>> /\ Stored \subseteq Stored'
      BY <1>8, Expeditions, Became
    <2> QED BY <1>1, <2>1
  <1>9. ASSUME NEW s \in Client, deleteOldClan(s), req[s].old \in Stored PROVE MembersHaveClan'
    BY <1>3, <1>9, Deletes
  <1>10. ASSUME NEW c \in ClanId, deleteOneById(c) PROVE MembersHaveClan'
    BY <1>3, <1>10 DEF deleteOneById, Becomes
  <1>11. CASE removeInactiveRooms
    BY <1>1, <1>11, RemovesRooms DEF removeInactiveRooms
  <1>12. CASE Stop \/ UNCHANGED vars
    BY <1>1, <1>12 DEF Stop, vars, Stored
  <1> QED BY <1>2, <1>4, <1>5, <1>6, <1>7, <1>8, <1>9, <1>10, <1>11, <1>12, Steps

\* What a request that leaves the clans alone goes over to.
LEMMA QuietTurns ==
    ASSUME Fit, MembersHaveClan, NEW s \in Client, Quiet(s)
    PROVE  \E r \in RequestRecord : Turns(s, r) /\ Good(r, clans)
  <1> USE DEF Label
  <1>1. \A p \in players : clanOf[p] \in ClanId => clans[clanOf[p]] # New
    BY NilAssumption DEF MembersHaveClan, Stored, Fit
  <1>2. \A p \in Player : p \in players => clanOf[p] \in ClanId \cup {Nil}
    BY DEF Fit
  <1>3. Good(Idle, clans)
    BY IdleRequest, NilAssumption DEF Good
  <1>4. CASE Finish(s)
    BY <1>3, <1>4, Ends
  <1>5. ASSUME NEW p \in Player, NEW c \in ClanId, handleJoinRequest(s, p, c)
        PROVE  \E r \in RequestRecord : Turns(s, r) /\ Good(r, clans)
    <2>1. p \in players /\ (clanOf[p] = Nil \/ clanOf[p] \in ClanId)
      BY <1>2, <1>5 DEF handleJoinRequest
    <2>2. CASE clanOf[p] = Nil
      <3>1. Begin(s, "join", p, c, Nil)
        BY <1>5, <2>2 DEF handleJoinRequest
      <3>2. PICK r \in RequestRecord : Turns(s, r) /\ r.pc = "join" /\ r.player = p /\ r.clan = c /\ r.old = Nil
        BY <3>1, Begins
      <3> QED BY <3>2, NilAssumption DEF Good
    <2>3. CASE clanOf[p] # Nil
      <3>1. Begin(s, "depart", p, c, clanOf[p])
        BY <1>5, <2>3 DEF handleJoinRequest
      <3>2. PICK r \in RequestRecord : Turns(s, r) /\ r.pc = "depart" /\ r.player = p /\ r.clan = c /\ r.old = clanOf[p]
        BY <2>1, <3>1, Begins
      <3> QED BY <1>1, <2>1, <2>3, <3>2 DEF Good
    <2> QED BY <2>2, <2>3
  <1>6. ASSUME NEW p \in Player, NEW c \in ClanId, Begin(s, "leave", p, c, Nil)
        PROVE  \E r \in RequestRecord : Turns(s, r) /\ Good(r, clans)
    <2>1. PICK r \in RequestRecord : Turns(s, r) /\ r.pc = "leave" /\ r.player = p /\ r.clan = c /\ r.old = Nil
      BY <1>6, Begins
    <2> QED BY <2>1, NilAssumption DEF Good
  <1>7. ASSUME NEW p \in Player, leaveClan(s, p)
        PROVE  \E r \in RequestRecord : Turns(s, r) /\ Good(r, clans)
    <2>1. clanOf[p] \in ClanId /\ Begin(s, "leave", p, clanOf[p], Nil)
      BY <1>2, <1>7 DEF leaveClan
    <2> QED BY <1>6, <2>1
  <1>8. ASSUME NEW p \in Player, mayCreate(s, p)
        PROVE  \E r \in RequestRecord : Turns(s, r) /\ Good(r, clans)
    <2>1. PICK r \in RequestRecord : Turns(s, r) /\ r.pc = "create" /\ r.player = p /\ r.clan = Nil /\ r.old = Nil
      BY <1>8, Begins DEF mayCreate
    <2> QED BY <2>1, NilAssumption DEF Good
  <1>9. ASSUME NEW p \in Player, findClanForNewPlayer(s, p)
        PROVE  \E r \in RequestRecord : Turns(s, r) /\ Good(r, clans)
    <2>1. CASE \E c \in Stored : Begin(s, "join", p, c, Nil)
      <3>1. PICK c \in ClanId : Begin(s, "join", p, c, Nil)
        BY <2>1 DEF Stored
      <3>2. PICK r \in RequestRecord : Turns(s, r) /\ r.pc = "join" /\ r.player = p /\ r.clan = c /\ r.old = Nil
        BY <3>1, Begins
      <3> QED BY <3>2, NilAssumption DEF Good
    <2>2. CASE Begin(s, "expedition", p, Nil, Nil)
      <3>1. PICK r \in RequestRecord : Turns(s, r) /\ r.pc = "expedition" /\ r.player = p /\ r.clan = Nil /\ r.old = Nil
        BY <2>2, Begins
      <3> QED BY <3>1, NilAssumption DEF Good
    <2> QED BY <1>9, <2>1, <2>2 DEF findClanForNewPlayer
  <1>10. ASSUME NEW p \in Player, readToDelete(s, p)
         PROVE  \E r \in RequestRecord : Turns(s, r) /\ Good(r, clans)
    <2>1. p \in players /\ (clanOf[p] = Nil \/ clanOf[p] \in ClanId) /\ Begin(s, "remove", p, Nil, clanOf[p])
      BY <1>2, <1>10 DEF readToDelete
    <2>2. PICK r \in RequestRecord : Turns(s, r) /\ r.pc = "remove" /\ r.player = p /\ r.clan = Nil /\ r.old = clanOf[p]
      BY <2>1, Begins
    <2> QED BY <1>1, <2>1, <2>2, NilAssumption DEF Good
  <1>11. ASSUME NEW pc \in {"delete", "decrease"}, req[s].pc = "depart", Goto(s, pc)
         PROVE  \E r \in RequestRecord : Turns(s, r) /\ Good(r, clans)
    <2>1. PICK r \in RequestRecord : /\ Turns(s, r) /\ r.pc = pc /\ r.player = req[s].player
                                     /\ r.clan = req[s].clan /\ r.old = req[s].old
      BY <1>11, Goes
    <2> QED BY <1>11, <2>1 DEF Good, Fit
  <1>12. CASE readOldClan(s)
    BY <1>4, <1>11, <1>12 DEF readOldClan, At
  <1>13. ASSUME req[s].pc = "decrease", req[s].old \in Stored, clans[req[s].old].playerCount > 0,
                req' = [req EXCEPT ![s].pc = "write", ![s].count = clans[req[s].old].playerCount]
         PROVE  \E r \in RequestRecord : Turns(s, r) /\ Good(r, clans)
    <2> DEFINE n == clans[req[s].old].playerCount
               r == [req[s] EXCEPT !.pc = "write", !.count = n]
    <2>1. n \in 1..MaxPlayers
      BY <1>13, Lives DEF Clan
    <2>2. n \in 0..MaxPlayers
      BY <2>1, BoundsAssumption
    <2>3. Turns(s, r)
      BY <1>13 DEF Turns, Fit
    <2> HIDE DEF n
    <2>4. r \in RequestRecord /\ r.pc = "write" /\ r.count = n /\ r.player = req[s].player /\ r.old = req[s].old
      BY <2>2 DEF Fit, RequestRecord
    <2> HIDE DEF r
    <2>5. Good(r, clans)
      BY <1>13, <2>1, <2>4 DEF Good, Fit
    <2> QED BY <2>3, <2>4, <2>5
  <1>14. CASE readCount(s)
    BY <1>4, <1>13, <1>14 DEF readCount, At
  <1>15. CASE deletePlayer(s)
    <2>1. CASE req[s].old # Nil /\ Goto(s, "decrease")
      <3>1. PICK r \in RequestRecord : /\ Turns(s, r) /\ r.pc = "decrease" /\ r.player = req[s].player
                                       /\ r.clan = req[s].clan /\ r.old = req[s].old
        BY <2>1, Goes
      <3>2. req[s].old \in ClanId /\ req[s].pc = "remove"
        BY <1>15, <2>1 DEF deletePlayer, At, Fit, RequestRecord
      <3> QED BY <3>1, <3>2 DEF Good, Fit
    <2> QED BY <1>4, <1>15, <2>1 DEF deletePlayer
  <1>16. CASE cancelJoin(s) \/ cancelTransaction(s) \/ (deleteOldClan(s) /\ req[s].old \notin Stored)
    BY <1>4, <1>16 DEF cancelJoin, cancelTransaction, deleteOldClan
  <1>17. CASE Request(s)
    BY <1>5, <1>6, <1>7, <1>8, <1>9, <1>10, <1>17 DEF Request, excludePlayer
  <1> QED BY <1>12, <1>14, <1>15, <1>16, <1>17 DEF Quiet

\* What is kept of the types when the clans change as they may.
LEMMA FitKept ==
    ASSUME Fit, ClansStep, players' \subseteq Player, clanOf' \in [Player -> ClanId \cup {Nil}],
           drifted' \cup evicted' \subseteq ClanId,
           \/ UNCHANGED req
           \/ \E s \in Client, r \in RequestRecord : Turns(s, r) /\ Good(r, clans')
           \/ req' = [s \in Client |-> Idle]
    PROVE  Fit'
  <1>1. \A r \in RequestRecord : Good(r, clans) => Good(r, clans')
    BY DEF Good, ClansStep
  <1>2. Idle \in RequestRecord /\ Good(Idle, clans')
    BY IdleRequest, NilAssumption DEF Good
  <1>3. CASE UNCHANGED req
    BY <1>1, <1>3 DEF Fit, ClansStep
  <1>4. ASSUME NEW s \in Client, NEW r \in RequestRecord, Turns(s, r), Good(r, clans') PROVE Fit'
    <2>1. req' \in [Client -> RequestRecord] /\ \A t \in Client : req'[t] = IF t = s THEN r ELSE req[t]
      BY <1>4 DEF Turns, Fit
    <2> QED BY <1>1, <1>4, <2>1 DEF Fit, ClansStep
  <1>5. CASE req' = [s \in Client |-> Idle]
    BY <1>2, <1>5 DEF Fit, ClansStep
  <1> QED BY <1>3, <1>4, <1>5

LEMMA FitStep ==
    ASSUME Fit, MembersHaveClan, [Next]_vars
    PROVE  Fit'
  <1>1. ClansStep
    BY ClansSteps
  <1>2. Good(Idle, clans') /\ Idle \in RequestRecord
    BY IdleRequest, NilAssumption DEF Good
  <1>3. \A gone, c : CastOut(gone, c) \in [Player -> ClanId \cup {Nil}]
    BY DEF CastOut, Fit
  <1>4. \A c, p : evicted \cup drifted \subseteq ClanId /\ c \in ClanId /\ NoteEviction(c, p) => evicted' \subseteq ClanId
    BY DEF NoteEviction
  <1>5. evicted \subseteq ClanId /\ drifted \subseteq ClanId
    BY DEF Fit
  <1>6. \A p \in Player, c \in ClanId \cup {Nil} : [clanOf EXCEPT ![p] = c] \in [Player -> ClanId \cup {Nil}]
    BY DEF Fit
  <1>7. \A p \in Player : {clanOf[p]} \ {Nil} \subseteq ClanId
    BY DEF Fit
  <1>8. \A s \in Client : req[s].old \in ClanId \cup {Nil}
    BY DEF Fit, RequestRecord
  <1>9. ASSUME NEW s \in Client, Quiet(s) PROVE Fit'
    <2>1. UNCHANGED <<clans, clanOf, evicted>>
      BY <1>9, QuietClans
    <2>2. \E r \in RequestRecord : Turns(s, r) /\ Good(r, clans')
      BY <1>9, <2>1, QuietTurns
    <2>3. players' \subseteq Player
      BY <1>9 DEF Fit, Quiet, Request, handleJoinRequest, excludePlayer, leaveClan, mayCreate,
                  findClanForNewPlayer, readToDelete, readOldClan, readCount, cancelJoin,
                  cancelTransaction, deletePlayer, deleteOldClan
    <2>4. drifted' \subseteq ClanId
      <3>1. CASE UNCHANGED drifted
        BY <1>5, <3>1
      <3>2. CASE readCount(s)
        BY <1>5, <1>8, <3>2 DEF readCount, At, Good, Fit
      <3>3. CASE cancelJoin(s)
        BY <1>5, <1>8, <3>3 DEF cancelJoin
      <3>4. CASE deletePlayer(s)
        <4>1. req[s].player \in Player
          BY <3>4 DEF deletePlayer, At, Good, Fit
        <4> QED BY <1>5, <1>7, <1>8, <3>4, <4>1 DEF deletePlayer
      <3> QED BY <1>9, <3>1, <3>2, <3>3, <3>4
           DEF Quiet, Request, handleJoinRequest, excludePlayer, leaveClan, mayCreate,
               findClanForNewPlayer, readToDelete, readOldClan, cancelTransaction, deleteOldClan
    <2> QED BY <1>1, <1>5, <2>1, <2>2, <2>3, <2>4, FitKept DEF Fit
  <1>10. ASSUME NEW s \in Client, deleteOldClan(s), req[s].old \in Stored PROVE Fit'
    <2> DEFINE c == req[s].old
    <2>1. PICK r \in RequestRecord : /\ Turns(s, r) /\ r.pc = "join" /\ r.old = Nil
                                     /\ r.clan = req[s].clan /\ r.player = req[s].player
      BY <1>10, Deletes
    <2>2. Good(r, clans')
      BY <1>10, <2>1, Deletes, NilAssumption DEF Good
    <2>3. c \in ClanId /\ clanOf' = CastOut({}, c) /\ NoteEviction(c, req[s].player) /\ UNCHANGED players
      BY <1>10, Deletes DEF Stored
    <2>4. drifted' \subseteq drifted \cup {c}
      BY <1>10, Deletes
    <2> QED BY <1>1, <1>3, <1>4, <1>5, <2>1, <2>2, <2>3, <2>4, FitKept DEF Fit
  <1>11. ASSUME NEW s \in Client, decreaseByIdOnOne(s) PROVE Fit'
    <2> DEFINE c == req[s].old
    <2>1. c \in ClanId /\ req[s].player \in Player /\ UNCHANGED <<players, clanOf, evicted>>
      BY <1>11, Writes
    <2>2. drifted' \subseteq drifted \cup {c}
      BY <1>11, Writes
    <2>3. \E r \in RequestRecord : Turns(s, r) /\ Good(r, clans')
      <3>1. CASE Turns(s, Idle)
        BY <1>2, <3>1
      <3>2. CASE req[s].clan # Nil /\ \E r \in RequestRecord : /\ Turns(s, r) /\ r.pc = "join" /\ r.player = req[s].player
                                                               /\ r.clan = req[s].clan /\ r.old = c
        <4>1. PICK r \in RequestRecord : /\ Turns(s, r) /\ r.pc = "join" /\ r.player = req[s].player
                                         /\ r.clan = req[s].clan /\ r.old = c
          BY <3>2
        <4>2. r.clan \in ClanId
          BY <3>2, <4>1 DEF Fit, RequestRecord
        <4>3. clans'[c] # New
          BY <1>1, <2>1 DEF ClansStep, Fit, Good
        <4> QED BY <2>1, <4>1, <4>2, <4>3 DEF Good
      <3> QED BY <1>11, <3>1, <3>2, Writes
    <2> QED BY <1>1, <1>5, <2>1, <2>2, <2>3, FitKept DEF Fit
  <1>12. ASSUME NEW s \in Client, joinClan(s) PROVE Fit'
    <2> DEFINE p == req[s].player
               c == req[s].clan
    <2>1. /\ p \in Player /\ c \in ClanId /\ clanOf' = [clanOf EXCEPT ![p] = c]
          /\ Turns(s, Idle) /\ UNCHANGED <<players, evicted>>
      BY <1>12, Joins DEF Stored
    <2>2. drifted' \subseteq drifted \cup ({clanOf[p], req[s].old} \ {Nil})
      BY <1>12, Joins
    <2>3. drifted' \subseteq ClanId
      BY <1>5, <1>7, <1>8, <2>1, <2>2
    <2> QED BY <1>1, <1>2, <1>5, <1>6, <2>1, <2>3, FitKept DEF Fit
  <1>13. ASSUME NEW s \in Client, removePlayerFromClan(s) PROVE Fit'
    <2> DEFINE p == req[s].player
               c == req[s].clan
    <2>1. p \in Player /\ c \in ClanId /\ Turns(s, Idle) /\ UNCHANGED players
      BY <1>13, Removes DEF Stored
    <2>2. drifted' \subseteq drifted \cup ({c, clanOf[p]} \ {Nil})
      BY <1>13, Removes
    <2>3. drifted' \subseteq ClanId
      BY <1>5, <1>7, <2>1, <2>2
    <2>4. \/ clanOf' = CastOut({p}, c) /\ NoteEviction(c, p)
          \/ clanOf' = [clanOf EXCEPT ![p] = Nil] /\ UNCHANGED evicted
      BY <1>13, Removes
    <2>5. clanOf' \in [Player -> ClanId \cup {Nil}] /\ evicted' \subseteq ClanId
      BY <1>3, <1>4, <1>5, <1>6, <2>1, <2>4
    <2> QED BY <1>1, <1>2, <2>1, <2>3, <2>5, FitKept DEF Fit
  <1>14. ASSUME NEW s \in Client, createOne(s) PROVE Fit'
    <2> DEFINE p == req[s].player
    <2>1. PICK c \in ClanId : /\ p \in Player /\ clanOf' = [clanOf EXCEPT ![p] = c]
                              /\ Turns(s, Idle) /\ UNCHANGED <<players, evicted>>
                              /\ drifted' = drifted \cup ({clanOf[p]} \ {Nil})
      BY <1>14, Creates
    <2> QED BY <1>1, <1>2, <1>5, <1>6, <1>7, <2>1, FitKept DEF Fit
  <1>15. ASSUME NEW s \in Client, createAndJoinExpeditionClan(s) PROVE Fit'
    <2>1. PICK c \in ClanId, q \in RequestRecord :
              /\ Turns(s, q) /\ q.pc = "join" /\ q.clan = c /\ q.old = Nil /\ q.player = req[s].player
              /\ req[s].player \in Player
              /\ UNCHANGED <<players, clanOf, drifted, evicted>>
      BY <1>15, Expeditions
    <2>2. Good(q, clans')
      BY <2>1, NilAssumption DEF Good
    <2> QED BY <1>1, <1>5, <2>1, <2>2, FitKept DEF Fit
  <1>16. ASSUME NEW c \in ClanId, deleteOneById(c) PROVE Fit'
    BY <1>1, <1>3, <1>5, <1>16, FitKept DEF deleteOneById, Fit
  <1>17. CASE removeInactiveRooms \/ UNCHANGED vars
    BY <1>1, <1>5, <1>17, FitKept DEF removeInactiveRooms, vars, Fit
  <1>18. CASE Stop
    <2>1. drifted' \subseteq ClanId
      BY <1>5, <1>8, <1>18 DEF Stop
    <2> QED BY <1>1, <1>5, <1>18, <2>1, FitKept DEF Stop, Fit
  <1> QED BY <1>9, <1>10, <1>11, <1>12, <1>13, <1>14, <1>15, <1>16, <1>17, <1>18, Steps

LEMMA InitFit ==
    ASSUME Init
    PROVE  Fit /\ MembersHaveClan
  <1>1. PICK p \in Player : /\ clans = [c \in ClanId |-> IF c = 1 THEN NewClan(1, p) ELSE New]
                            /\ clanOf = [q \in Player |-> IF q = p THEN 1 ELSE Nil]
                            /\ \E others \in SUBSET (Player \ {p}) : players = {p} \cup others
    BY DEF Init
  <1>2. NewClan(1, p) \in Clan /\ 1 \in ClanId
    BY NewOnes, ClanAssumption
  <1>3. clans \in [ClanId -> Clan \cup {New, Deleted}] /\ 1 \in Stored
    BY <1>1, <1>2, AbsentAssumption DEF Stored
  <1>4. Idle \in RequestRecord /\ Good(Idle, clans)
    BY IdleRequest, NilAssumption DEF Good
  <1>5. Fit
    BY <1>1, <1>2, <1>3, <1>4 DEF Init, Fit
  <1> QED BY <1>1, <1>3, <1>5 DEF MembersHaveClan

\* The records of the clans and the requests are what the schemas say, forever.
THEOREM ClanTypeOK == Spec => []TypeOK
  <1>1. Init => Fit /\ MembersHaveClan
    BY InitFit
  <1>2. (Fit /\ MembersHaveClan) /\ [Next]_vars => (Fit /\ MembersHaveClan)'
    BY FitStep, MembersStep
  <1>3. Fit => TypeOK
    BY Lives DEF Fit, TypeOK
  <1> QED BY <1>1, <1>2, <1>3, PTL DEF Spec

\* No player is left with a clan that was deleted, however its deletion by the last
\* one that leaves it, or by its admin, meets those that join it.
THEOREM PlayersHaveTheirClan == Spec => []MembersHaveClan
  <1>1. Init => Fit /\ MembersHaveClan
    BY InitFit
  <1>2. (Fit /\ MembersHaveClan) /\ [Next]_vars => (Fit /\ MembersHaveClan)'
    BY FitStep, MembersStep
  <1> QED BY <1>1, <1>2, PTL DEF Spec
----------------------------------------------------------------------------
Leaves(r, c) == r.pc = "join" /\ r.old = c

Owes(r, c) == r.old = c /\ r.clan = Nil /\ r.pc \in {"decrease", "write"}

\* Nobody is counted out of the clan twice.
Unshared(c) == \A s, t \in Leaving(c) : req[s].player = req[t].player => s = t

\* What holds of a clan whose count no race has spoilt.
Right(c) ==
    /\ clans[c].playerCount =
            Cardinality(Members(c)) - Cardinality(Leaving(c)) + Cardinality(NotCountedOut(c))
    /\ CountedOut(c) \subseteq Members(c)
    /\ Unshared(c)
    /\ clans[c].active >= Cardinality(Members(c))

Counted == \A c \in Stored \ drifted : Right(c)

Finite(c) == IsFiniteSet(Members(c)) /\ IsFiniteSet(Leaving(c)) /\ IsFiniteSet(NotCountedOut(c))

Bounded == \A c \in ClanId : Finite(c)

\* Whom a request that goes over to r leaves to be counted.
LEMMA Slots ==
    ASSUME Fit, NEW s \in Client, NEW r \in RequestRecord, Turns(s, r), NEW c
    PROVE  /\ req'[s] = r /\ \A t \in Client \ {s} : req'[t] = req[t]
           /\ s \in Leaving(c) <=> Leaves(req[s], c)
           /\ s \in NotCountedOut(c) <=> Owes(req[s], c)
           /\ Leaving(c)' = IF Leaves(r, c) THEN Leaving(c) \cup {s} ELSE Leaving(c) \ {s}
           /\ NotCountedOut(c)' = IF Owes(r, c) THEN NotCountedOut(c) \cup {s} ELSE NotCountedOut(c) \ {s}
  <1>1. req'[s] = r /\ \A t \in Client \ {s} : req'[t] = req[t]
    BY DEF Turns, Fit
  <1> QED BY <1>1 DEF Leaving, NotCountedOut, At, Leaves, Owes

\* A slot that is none of those of a clan, before and after.
LEMMA SlotKept ==
    ASSUME Fit, NEW s \in Client, NEW r \in RequestRecord, Turns(s, r), NEW c,
           ~Leaves(req[s], c), ~Leaves(r, c)
    PROVE  /\ Leaving(c)' = Leaving(c) /\ CountedOut(c)' = CountedOut(c)
           /\ Unshared(c) => Unshared(c)'
  <1>1. Leaving(c)' = Leaving(c) /\ s \notin Leaving(c) /\ \A t \in Client \ {s} : req'[t] = req[t]
    BY Slots
  <1>2. \A t \in Leaving(c) : t \in Client /\ req'[t] = req[t]
    BY <1>1 DEF Leaving
  <1>3. CountedOut(c)' = CountedOut(c)
    BY <1>1, <1>2 DEF CountedOut
  <1> QED BY <1>1, <1>2, <1>3 DEF Unshared

LEMMA SlotFreed ==
    ASSUME Fit, NEW s \in Client, Turns(s, Idle), NEW c, Unshared(c), s \in Leaving(c)
    PROVE  /\ Leaving(c)' = Leaving(c) \ {s} /\ Unshared(c)'
           /\ CountedOut(c)' = CountedOut(c) \ {req[s].player}
  <1>1. Idle \in RequestRecord /\ ~Leaves(Idle, c)
    BY IdleRequest DEF Leaves
  <1>2. Leaving(c)' = Leaving(c) \ {s} /\ \A t \in Client \ {s} : req'[t] = req[t]
    BY <1>1, Slots
  <1>3. \A t \in Leaving(c)' : req'[t] = req[t]
    BY <1>2 DEF Leaving
  <1>4. Unshared(c)'
    BY <1>2, <1>3 DEF Unshared
  <1>5. CountedOut(c)' = {req[t].player : t \in Leaving(c) \ {s}}
    BY <1>2, <1>3 DEF CountedOut
  <1> QED BY <1>2, <1>4, <1>5 DEF CountedOut, Unshared

LEMMA SlotTaken ==
    ASSUME Fit, NEW s \in Client, NEW r \in RequestRecord, Turns(s, r), NEW c, Unshared(c),
           s \notin Leaving(c), Leaves(r, c), r.player \notin CountedOut(c)
    PROVE  /\ Leaving(c)' = Leaving(c) \cup {s} /\ Unshared(c)'
           /\ CountedOut(c)' = CountedOut(c) \cup {r.player}
  <1>1. Leaving(c)' = Leaving(c) \cup {s} /\ req'[s] = r /\ \A t \in Client \ {s} : req'[t] = req[t]
    BY Slots
  <1>2. \A t \in Leaving(c) : req'[t] = req[t]
    BY <1>1 DEF Leaving
  <1>3. CountedOut(c)' = CountedOut(c) \cup {r.player}
    BY <1>1, <1>2 DEF CountedOut
  <1>4. \A t \in Leaving(c) : req'[t].player # r.player
    BY <1>2 DEF CountedOut
  <1> QED BY <1>1, <1>2, <1>3, <1>4 DEF Unshared

\* Where the members of the clans are.
LEMMA Moves ==
    ASSUME Fit, NEW p \in Player, NEW c \in ClanId \cup {Nil}, clanOf' = [clanOf EXCEPT ![p] = c],
           UNCHANGED players, c \in ClanId => p \in players
    PROVE  \A d \in ClanId : Members(d)' = IF d = c THEN Members(d) \cup {p} ELSE Members(d) \ {p}
  <1>1. \A q \in Player : clanOf'[q] = IF q = p THEN c ELSE clanOf[q]
    BY DEF Fit
  <1> QED BY <1>1, NilAssumption DEF Members, Fit

LEMMA Casts ==
    ASSUME Fit, NEW gone, NEW c, clanOf' = CastOut(gone, c), UNCHANGED players
    PROVE  \A d \in ClanId \ {c} : Members(d)' = Members(d) \ gone
  <1>1. \A q \in Player : clanOf'[q] = IF q \in gone \cup Members(c) THEN Nil ELSE clanOf[q]
    BY DEF CastOut
  <1> QED BY <1>1, NilAssumption DEF Members, Fit

\* The members of a clan there never was.
LEMMA NobodyYet ==
    ASSUME Fit, MembersHaveClan, NEW c \in ClanId, clans[c] = New
    PROVE  Members(c) = {} /\ Leaving(c) = {} /\ NotCountedOut(c) = {}
  <1>1. Members(c) = {}
    BY NilAssumption DEF Members, MembersHaveClan, Stored
  <1>2. \A s \in Client : req[s].old # c
    BY DEF Fit, Good
  <1> QED BY <1>1, <1>2 DEF Leaving, NotCountedOut

\* Every step adds at most one to each.
LEMMA FiniteStep ==
    ASSUME NEW c, Finite(c), NEW x, NEW y, NEW z, Members(c)' \subseteq Members(c) \cup {x},
           Leaving(c)' \subseteq Leaving(c) \cup {y}, NotCountedOut(c)' \subseteq NotCountedOut(c) \cup {z}
    PROVE  Finite(c)'
  <1>1. ASSUME NEW S, NEW T, NEW a, IsFiniteSet(S), T \subseteq S \cup {a} PROVE IsFiniteSet(T)
    BY <1>1, FS_AddElement, FS_Subset
  <1> QED BY <1>1 DEF Finite

\* A clan nothing happened to.
LEMMA Untouched ==
    ASSUME NEW c, Right(c), Members(c)' = Members(c), Leaving(c)' = Leaving(c),
           NotCountedOut(c)' = NotCountedOut(c), CountedOut(c)' = CountedOut(c), Unshared(c)',
           clans'[c].playerCount = clans[c].playerCount, clans'[c].active = clans[c].active
    PROVE  Right(c)'
  BY DEF Right

LEMMA Turning ==
    ASSUME Fit, MembersHaveClan, [Next]_vars
    PROVE  \/ UNCHANGED req
           \/ \E s \in Client, r \in RequestRecord : Turns(s, r)
           \/ req' = [s \in Client |-> Idle]
  <1>1. ASSUME NEW s \in Client, decreaseByIdOnOne(s) PROVE \E r \in RequestRecord : Turns(s, r)
    BY <1>1, Writes, IdleRequest
  <1>2. ASSUME NEW s \in Client, joinClan(s) PROVE \E r \in RequestRecord : Turns(s, r)
    BY <1>2, Joins, IdleRequest
  <1>3. ASSUME NEW s \in Client, removePlayerFromClan(s) PROVE \E r \in RequestRecord : Turns(s, r)
    BY <1>3, Removes, IdleRequest
  <1>4. ASSUME NEW s \in Client, createOne(s) PROVE \E r \in RequestRecord : Turns(s, r)
    BY <1>4, Creates, IdleRequest
  <1>5. ASSUME NEW s \in Client, createAndJoinExpeditionClan(s) PROVE \E r \in RequestRecord : Turns(s, r)
    BY <1>5, Expeditions
  <1>6. ASSUME NEW s \in Client, deleteOldClan(s), req[s].old \in Stored PROVE \E r \in RequestRecord : Turns(s, r)
    BY <1>6, Deletes
  <1> QED BY <1>1, <1>2, <1>3, <1>4, <1>5, <1>6, Steps, QuietTurns
       DEF deleteOneById, removeInactiveRooms, Stop, vars

LEMMA Gathering ==
    ASSUME Fit, MembersHaveClan, [Next]_vars
    PROVE  \E x : \A c \in ClanId : Members(c)' \subseteq Members(c) \cup {x}
  <1>1. CASE players' \subseteq players /\ UNCHANGED clanOf
    BY <1>1 DEF Members
  <1>2. ASSUME NEW s \in Client, Quiet(s) PROVE \E x : \A c \in ClanId : Members(c)' \subseteq Members(c) \cup {x}
    <2>1. UNCHANGED clanOf
      BY <1>2, QuietClans
    <2>2. \E x : players' \subseteq players \cup {x}
      BY <1>2 DEF Quiet, Request, handleJoinRequest, excludePlayer, leaveClan, mayCreate,
                  findClanForNewPlayer, readToDelete, readOldClan, readCount, cancelJoin,
                  cancelTransaction, deletePlayer, deleteOldClan
    <2> QED BY <2>1, <2>2 DEF Members
  <1>3. ASSUME NEW gone, NEW c, clanOf' = CastOut(gone, c), UNCHANGED players
        PROVE  \E x : \A d \in ClanId : Members(d)' \subseteq Members(d) \cup {x}
    <2>1. \A q \in Player : clanOf'[q] = IF q \in gone \cup Members(c) THEN Nil ELSE clanOf[q]
      BY <1>3 DEF CastOut
    <2> QED BY <1>3, <2>1, NilAssumption DEF Members, Fit
  <1>4. ASSUME NEW p \in Player, NEW c, clanOf' = [clanOf EXCEPT ![p] = c], UNCHANGED players
        PROVE  \E x : \A d \in ClanId : Members(d)' \subseteq Members(d) \cup {x}
    <2>1. \A q \in Player : q # p => clanOf'[q] = clanOf[q]
      BY <1>4 DEF Fit
    <2> QED BY <1>4, <2>1 DEF Members, Fit
  <1>5. ASSUME NEW s \in Client, decreaseByIdOnOne(s) \/ createAndJoinExpeditionClan(s)
        PROVE  \E x : \A c \in ClanId : Members(c)' \subseteq Members(c) \cup {x}
    BY <1>1, <1>5 DEF decreaseByIdOnOne, createAndJoinExpeditionClan
  <1>6. ASSUME NEW s \in Client, joinClan(s) PROVE \E x : \A c \in ClanId : Members(c)' \subseteq Members(c) \cup {x}
    BY <1>4, <1>6, Joins
  <1>7. ASSUME NEW s \in Client, removePlayerFromClan(s)
        PROVE  \E x : \A c \in ClanId : Members(c)' \subseteq Members(c) \cup {x}
    <2>1. \/ clanOf' = CastOut({req[s].player}, req[s].clan)
          \/ clanOf' = [clanOf EXCEPT ![req[s].player] = Nil]
      BY <1>7, Removes
    <2>2. req[s].player \in Player /\ UNCHANGED players
      BY <1>7, Removes
    <2> QED BY <1>3, <1>4, <2>1, <2>2
  <1>8. ASSUME NEW s \in Client, createOne(s) PROVE \E x : \A c \in ClanId : Members(c)' \subseteq Members(c) \cup {x}
    BY <1>4, <1>8, Creates
  <1>9. ASSUME NEW s \in Client, deleteOldClan(s), req[s].old \in Stored
        PROVE  \E x : \A c \in ClanId : Members(c)' \subseteq Members(c) \cup {x}
    BY <1>3, <1>9, Deletes
  <1>10. ASSUME NEW c \in ClanId, deleteOneById(c) PROVE \E x : \A d \in ClanId : Members(d)' \subseteq Members(d) \cup {x}
    BY <1>3, <1>10 DEF deleteOneById
  <1>11. CASE removeInactiveRooms \/ Stop \/ UNCHANGED vars
    BY <1>1, <1>11 DEF removeInactiveRooms, Stop, vars
  <1> QED BY <1>2, <1>5, <1>6, <1>7, <1>8, <1>9, <1>10, <1>11, Steps

LEMMA BoundedStep ==
    ASSUME Fit, MembersHaveClan, Bounded, [Next]_vars
    PROVE  Bounded'
  <1>1. PICK x : \A c \in ClanId : Members(c)' \subseteq Members(c) \cup {x}
    BY Gathering
  <1>2. \E y : \A c \in ClanId : /\ Leaving(c)' \subseteq Leaving(c) \cup {y}
                                 /\ NotCountedOut(c)' \subseteq NotCountedOut(c) \cup {y}
    <2>1. CASE UNCHANGED req
      BY <2>1 DEF Leaving, NotCountedOut, At
    <2>2. ASSUME NEW s \in Client, NEW r \in RequestRecord, Turns(s, r)
          PROVE  \A c \in ClanId : /\ Leaving(c)' \subseteq Leaving(c) \cup {s}
                                   /\ NotCountedOut(c)' \subseteq NotCountedOut(c) \cup {s}
      BY <2>2, Slots
    <2>3. CASE req' = [s \in Client |-> Idle]
      <3>1. \A s \in Client : req'[s].pc = "idle"
        BY <2>3, IdleRequest
      <3> QED BY <3>1 DEF Leaving, NotCountedOut, At
    <2> QED BY <2>1, <2>2, <2>3, Turning
  <1>3. PICK y : \A c \in ClanId : /\ Leaving(c)' \subseteq Leaving(c) \cup {y}
                                   /\ NotCountedOut(c)' \subseteq NotCountedOut(c) \cup {y}
    BY <1>2
  <1>4. ASSUME NEW c \in ClanId PROVE Finite(c)'
    BY <1>1, <1>3, FiniteStep DEF Bounded
  <1> QED BY <1>4 DEF Bounded
----------------------------------------------------------------------------
\* Of the clans no race has spoilt, r leaves none and owes what was owed.
Neutral(s, r) ==
    \A c \in ClanId \ drifted' : ~Leaves(req[s], c) /\ ~Leaves(r, c) /\ (Owes(req[s], c) <=> Owes(r, c))

LEMMA QuietSlots ==
    ASSUME Fit, NEW s \in Client, Quiet(s), ~deletePlayer(s)
    PROVE  \E r \in RequestRecord : Turns(s, r) /\ Neutral(s, r)
  <1> USE DEF Label
  <1>1. Idle \in RequestRecord /\ \A c \in ClanId : ~Leaves(Idle, c) /\ ~Owes(Idle, c)
    BY IdleRequest DEF Leaves, Owes
  <1>2. \A p \in Player : clanOf[p] \in ClanId \cup {Nil}
    BY DEF Fit
  <1>3. CASE Finish(s) /\ \A c \in ClanId \ drifted' : ~Leaves(req[s], c) /\ ~Owes(req[s], c)
    BY <1>1, <1>3, Ends DEF Neutral
  <1>4. ASSUME req[s].pc = "idle", NEW p \in Player, NEW c \in ClanId \cup {Nil}, NEW old \in ClanId \cup {Nil},
               NEW pc \in {"depart", "join", "leave", "create", "expedition", "remove"},
               Begin(s, pc, p, c, old), pc = "join" => old = Nil
        PROVE  \E r \in RequestRecord : Turns(s, r) /\ Neutral(s, r)
    <2>1. PICK r \in RequestRecord : Turns(s, r) /\ r.pc = pc /\ r.player = p /\ r.clan = c /\ r.old = old
      BY <1>4, Begins
    <2>2. \A d \in ClanId : ~Leaves(req[s], d) /\ ~Leaves(r, d) /\ ~Owes(req[s], d) /\ ~Owes(r, d)
      BY <1>4, <2>1, NilAssumption DEF Leaves, Owes
    <2> QED BY <2>1, <2>2 DEF Neutral
  <1>5. ASSUME NEW p \in Player, NEW c \in ClanId, handleJoinRequest(s, p, c)
        PROVE  \E r \in RequestRecord : Turns(s, r) /\ Neutral(s, r)
    <2>1. CASE clanOf[p] = Nil
      <3>1. req[s].pc = "idle" /\ Begin(s, "join", p, c, Nil)
        BY <1>5, <2>1 DEF handleJoinRequest, At
      <3> QED BY <1>4, <3>1
    <2>2. CASE clanOf[p] # Nil
      <3>1. req[s].pc = "idle" /\ Begin(s, "depart", p, c, clanOf[p])
        BY <1>5, <2>2 DEF handleJoinRequest, At
      <3> QED BY <1>2, <1>4, <3>1
    <2> QED BY <2>1, <2>2
  <1>6. ASSUME NEW p \in Player, NEW c \in ClanId, excludePlayer(s, p, c)
        PROVE  \E r \in RequestRecord : Turns(s, r) /\ Neutral(s, r)
    <2>1. req[s].pc = "idle" /\ Begin(s, "leave", p, c, Nil)
      BY <1>6 DEF excludePlayer, At
    <2> QED BY <1>4, <2>1
  <1>7. ASSUME NEW p \in Player, leaveClan(s, p)
        PROVE  \E r \in RequestRecord : Turns(s, r) /\ Neutral(s, r)
    <2>1. req[s].pc = "idle" /\ Begin(s, "leave", p, clanOf[p], Nil)
      BY <1>7 DEF leaveClan, At
    <2> QED BY <1>2, <1>4, <2>1
  <1>8. ASSUME NEW p \in Player, mayCreate(s, p)
        PROVE  \E r \in RequestRecord : Turns(s, r) /\ Neutral(s, r)
    <2>1. req[s].pc = "idle" /\ Begin(s, "create", p, Nil, Nil)
      BY <1>8 DEF mayCreate, At
    <2> QED BY <1>4, <2>1
  <1>9. ASSUME NEW p \in Player, findClanForNewPlayer(s, p)
        PROVE  \E r \in RequestRecord : Turns(s, r) /\ Neutral(s, r)
    <2>1. req[s].pc = "idle"
      BY <1>9 DEF findClanForNewPlayer, At
    <2>2. (\E c \in ClanId : Begin(s, "join", p, c, Nil)) \/ Begin(s, "expedition", p, Nil, Nil)
      BY <1>9 DEF findClanForNewPlayer, Stored
    <2>3. ASSUME NEW c \in ClanId, Begin(s, "join", p, c, Nil) PROVE \E r \in RequestRecord : Turns(s, r) /\ Neutral(s, r)
      BY <1>4, <2>1, <2>3
    <2>4. CASE Begin(s, "expedition", p, Nil, Nil)
      BY <1>4, <2>1, <2>4
    <2> QED BY <2>2, <2>3, <2>4
  <1>10. ASSUME NEW p \in Player, readToDelete(s, p)
         PROVE  \E r \in RequestRecord : Turns(s, r) /\ Neutral(s, r)
    <2>1. req[s].pc = "idle" /\ Begin(s, "remove", p, Nil, clanOf[p])
      BY <1>10 DEF readToDelete, At
    <2> QED BY <1>2, <1>4, <2>1
  <1>11. CASE Request(s)
    BY <1>5, <1>6, <1>7, <1>8, <1>9, <1>10, <1>11 DEF Request
  <1>12. CASE readOldClan(s)
    <2>1. req[s].pc = "depart" /\ req[s].clan # Nil
      BY <1>12, NilAssumption DEF readOldClan, At, Fit, Good
    <2>2. ASSUME NEW pc \in {"delete", "decrease"}, Goto(s, pc) PROVE \E r \in RequestRecord : Turns(s, r) /\ Neutral(s, r)
      <3>1. PICK r \in RequestRecord : Turns(s, r) /\ r.pc = pc /\ r.clan = req[s].clan
        BY <2>2, Goes
      <3>2. \A c \in ClanId : ~Leaves(req[s], c) /\ ~Leaves(r, c) /\ ~Owes(req[s], c) /\ ~Owes(r, c)
        BY <2>1, <3>1 DEF Leaves, Owes
      <3> QED BY <3>1, <3>2 DEF Neutral
    <2>3. \A c \in ClanId : ~Leaves(req[s], c) /\ ~Owes(req[s], c)
      BY <2>1 DEF Leaves, Owes
    <2> QED BY <1>3, <1>12, <2>2, <2>3 DEF readOldClan
  <1>13. CASE readCount(s)
    <2> DEFINE n == clans[req[s].old].playerCount
    <2>1. req[s].pc = "decrease"
      BY <1>13 DEF readCount, At
    <2>2. CASE req[s].old \in Stored /\ n > 0
      <3> DEFINE r == [req[s] EXCEPT !.pc = "write", !.count = n]
      <3>1. n \in 0..MaxPlayers
        BY <2>2, Lives DEF Clan
      <3>2. req' = [req EXCEPT ![s].pc = "write", ![s].count = n]
        BY <1>13, <2>2 DEF readCount
      <3>3. Turns(s, r)
        BY <3>2 DEF Turns, Fit
      <3> HIDE DEF n
      <3>4. r \in RequestRecord /\ r.pc = "write" /\ r.clan = req[s].clan /\ r.old = req[s].old
        BY <3>1 DEF Fit, RequestRecord
      <3> HIDE DEF r
      <3>5. \A c \in ClanId : ~Leaves(req[s], c) /\ ~Leaves(r, c) /\ (Owes(req[s], c) <=> Owes(r, c))
        BY <2>1, <3>4 DEF Leaves, Owes
      <3> QED BY <3>3, <3>4, <3>5 DEF Neutral
    <2>3. CASE ~(req[s].old \in Stored /\ n > 0)
      <3>1. Finish(s) /\ drifted' = IF req[s].clan = Nil THEN drifted \cup {req[s].old} ELSE drifted
        BY <1>13, <2>3 DEF readCount
      <3>2. \A c \in ClanId \ drifted' : ~Leaves(req[s], c) /\ ~Owes(req[s], c)
        BY <2>1, <3>1 DEF Leaves, Owes
      <3> QED BY <1>3, <3>1, <3>2
    <2> QED BY <2>2, <2>3
  <1>14. CASE cancelJoin(s)
    <2>1. req[s].pc = "join" /\ Finish(s) /\ drifted' = drifted \cup ({req[s].old} \ {Nil})
      BY <1>14 DEF cancelJoin, At
    <2>2. \A c \in ClanId \ drifted' : ~Leaves(req[s], c) /\ ~Owes(req[s], c)
      BY <2>1, NilAssumption DEF Leaves, Owes
    <2> QED BY <1>3, <2>1, <2>2
  <1>15. CASE cancelTransaction(s)
    <2>1. req[s].pc \in {"leave", "create", "expedition"} /\ Finish(s)
      BY <1>15 DEF cancelTransaction, At
    <2> QED BY <1>3, <2>1 DEF Leaves, Owes
  <1>16. CASE deleteOldClan(s) /\ req[s].old \notin Stored
    <2>1. req[s].pc = "delete" /\ Finish(s)
      BY <1>16 DEF deleteOldClan, At
    <2> QED BY <1>3, <2>1 DEF Leaves, Owes
  <1> QED BY <1>11, <1>12, <1>13, <1>14, <1>15, <1>16 DEF Quiet

\* Whether a clan is touched, when its slot is not.
LEMMA NeutralKept ==
    ASSUME Fit, NEW s \in Client, NEW r \in RequestRecord, Turns(s, r), NEW c, Right(c),
           ~Leaves(req[s], c), ~Leaves(r, c), Owes(req[s], c) <=> Owes(r, c)
    PROVE  /\ Leaving(c)' = Leaving(c) /\ CountedOut(c)' = CountedOut(c) /\ Unshared(c)'
           /\ NotCountedOut(c)' = NotCountedOut(c)
  <1>1. Leaving(c)' = Leaving(c) /\ CountedOut(c)' = CountedOut(c) /\ Unshared(c)'
    BY SlotKept DEF Right
  <1>2. NotCountedOut(c)' = NotCountedOut(c)
    BY Slots
  <1> QED BY <1>1, <1>2

LEMMA QuietCounts ==
    ASSUME Fit, MembersHaveClan, Counted, NEW s \in Client, Quiet(s), ~deletePlayer(s)
    PROVE  Counted'
  <1>1. UNCHANGED <<clans, clanOf>> /\ Stored' = Stored
    BY QuietClans DEF Stored
  <1>2. PICK r \in RequestRecord : Turns(s, r) /\ Neutral(s, r)
    BY QuietSlots
  <1>3. drifted \subseteq drifted' /\ players \subseteq players' /\ \A p \in players' \ players : clanOf[p] = Nil
    BY DEF Quiet, Request, handleJoinRequest, excludePlayer, leaveClan, mayCreate,
           findClanForNewPlayer, readToDelete, readOldClan, readCount, cancelJoin,
           cancelTransaction, deletePlayer, deleteOldClan
  <1>4. \A c \in ClanId : Members(c)' = Members(c)
    BY <1>1, <1>3, NilAssumption DEF Members
  <1>5. ASSUME NEW c \in Stored, c \notin drifted' PROVE Right(c)'
    <2>1. c \in ClanId /\ Right(c)
      BY <1>3, <1>5 DEF Counted, Stored
    <2>2. ~Leaves(req[s], c) /\ ~Leaves(r, c) /\ (Owes(req[s], c) <=> Owes(r, c))
      BY <1>2, <1>5, <2>1 DEF Neutral
    <2>3. /\ Leaving(c)' = Leaving(c) /\ CountedOut(c)' = CountedOut(c) /\ Unshared(c)'
          /\ NotCountedOut(c)' = NotCountedOut(c)
      BY <1>2, <2>1, <2>2, NeutralKept
    <2> QED BY <1>1, <1>4, <2>1, <2>3, Untouched
  <1> QED BY <1>1, <1>5 DEF Counted

LEMMA Numbers ==
    ASSUME NEW c, Finite(c)
    PROVE  /\ Cardinality(Members(c)) \in Nat /\ Cardinality(Leaving(c)) \in Nat
           /\ Cardinality(NotCountedOut(c)) \in Nat
  BY FS_CardinalityType DEF Finite

\* A player is deleted, and is to be counted out.
LEMMA DeletionCounts ==
    ASSUME Fit, MembersHaveClan, Bounded, Counted, NEW s \in Client, deletePlayer(s)
    PROVE  Counted'
  <1> DEFINE p == req[s].player
             old == req[s].old
             nice == p \in players /\ clanOf[p] = old /\ ~\E c \in Stored : p \in CountedOut(c)
  <1>1. /\ req[s].pc = "remove" /\ p \in Player /\ req[s].clan = Nil /\ old \in ClanId \cup {Nil}
        /\ players' = players \ {p} /\ UNCHANGED <<clans, clanOf>> /\ Stored' = Stored
        /\ drifted' = IF nice THEN drifted ELSE drifted \cup ({clanOf[p], old} \ {Nil})
        /\ IF old = Nil THEN Finish(s) ELSE Goto(s, "decrease")
    BY DEF deletePlayer, At, Fit, Good, RequestRecord, Stored
  <1>2. \E r \in RequestRecord : /\ Turns(s, r) /\ r.pc # "join"
                                 /\ old # Nil => r.pc = "decrease" /\ r.clan = Nil /\ r.old = old
                                 /\ old = Nil => r.old = Nil
    BY <1>1, Ends, Goes, IdleRequest DEF Label
  <1>3. PICK r \in RequestRecord : /\ Turns(s, r) /\ r.pc # "join"
                                   /\ old # Nil => r.pc = "decrease" /\ r.clan = Nil /\ r.old = old
                                   /\ old = Nil => r.old = Nil
    BY <1>2
  <1>4. \A c \in ClanId : ~Leaves(req[s], c) /\ ~Leaves(r, c) /\ ~Owes(req[s], c) /\ (Owes(r, c) <=> c = old)
    BY <1>1, <1>3, NilAssumption DEF Leaves, Owes
  <1>5. \A c \in ClanId : Members(c)' = Members(c) \ {p}
    BY <1>1 DEF Members
  <1>6. ASSUME NEW c \in Stored, c \notin drifted' PROVE Right(c)'
    <2>1. c \in ClanId /\ Right(c) /\ Finite(c)
      BY <1>1, <1>6 DEF Counted, Stored, Bounded
    <2>2. Leaving(c)' = Leaving(c) /\ CountedOut(c)' = CountedOut(c) /\ Unshared(c)'
      BY <1>3, <1>4, <2>1, SlotKept DEF Right
    <2>3. CASE c # old
      <3>1. p \notin Members(c)
        BY <1>1, <1>6, <2>1, <2>3, NilAssumption DEF Members
      <3>2. NotCountedOut(c)' = NotCountedOut(c)
        BY <1>3, <1>4, <2>1, <2>3, NeutralKept
      <3> QED BY <1>1, <1>5, <2>1, <2>2, <3>1, <3>2, Untouched
    <2>4. CASE c = old
      <3>1. nice
        BY <1>1, <1>6, <2>1, <2>4, NilAssumption
      <3>2. p \in Members(c) /\ p \notin CountedOut(c)
        BY <1>6, <2>4, <3>1 DEF Members
      <3>3. NotCountedOut(c)' = NotCountedOut(c) \cup {s} /\ s \notin NotCountedOut(c)
        BY <1>3, <1>4, <2>1, <2>4, Slots
      <3>4. Cardinality(Members(c) \ {p}) = Cardinality(Members(c)) - 1
        BY <2>1, <3>2, FS_RemoveElement DEF Finite
      <3>7. Cardinality(NotCountedOut(c) \cup {s}) = Cardinality(NotCountedOut(c)) + 1
        BY <2>1, <3>3, FS_AddElement DEF Finite
      <3>5. CountedOut(c)' \subseteq Members(c)'
        BY <1>5, <2>1, <2>2, <3>2 DEF Right
      <3>6. clans'[c].active = clans[c].active /\ clans[c].active \in Int
        BY <1>1, <1>6, Lives DEF Clan
      <3>8. /\ Cardinality(Members(c)') = Cardinality(Members(c)) - 1
            /\ Cardinality(NotCountedOut(c)') = Cardinality(NotCountedOut(c)) + 1
        BY <1>5, <2>1, <3>3, <3>4, <3>7
      <3>9. clans'[c] = clans[c]
        BY <1>1
      <3> QED BY <2>1, <2>2, <3>5, <3>6, <3>8, <3>9, Numbers DEF Right
    <2> QED BY <2>3, <2>4
  <1> QED BY <1>1, <1>6 DEF Counted

\* A count is written less one.
LEMMA WriteCounts ==
    ASSUME Fit, MembersHaveClan, Bounded, Counted, NEW s \in Client, decreaseByIdOnOne(s)
    PROVE  Counted'
  <1> DEFINE c == req[s].old
             n == req[s].count - 1
             p == req[s].player
             written == c \in Stored /\ clans[c].playerCount # n
  <1>1. /\ req[s].pc = "write" /\ c \in ClanId /\ UNCHANGED <<players, clanOf, evicted>>
        /\ drifted' = IF (written /\ clans[c].playerCount = req[s].count
                            /\ (req[s].clan = Nil \/ p \in Members(c) \ CountedOut(c)))
                         \/ (~written /\ req[s].clan # Nil)
                      THEN drifted ELSE drifted \cup {c}
        /\ req[s].count \in 1..MaxPlayers
    BY Writes DEF Fit, Good
  <1>2. Stored' = Stored /\ \A d \in ClanId \ {c} : clans'[d] = clans[d]
    <2>1. CASE written
      <3>1. PICK q \in Clan : Becomes(c, q)
        BY <2>1, Writes
      <3>2. Stored' = Stored \cup {c} /\ \A d \in ClanId \ {c} : clans'[d] = clans[d]
        BY <3>1, Became
      <3> QED BY <2>1, <3>2
    <2>2. CASE ~written
      BY <2>2, Writes DEF Stored
    <2> QED BY <2>1, <2>2
  <1>3. \A d : Members(d)' = Members(d)
    BY <1>1 DEF Members
  <1>4. \E r \in RequestRecord : /\ Turns(s, r)
                                 /\ \/ written /\ req[s].clan # Nil /\ r.pc = "join" /\ r.old = c /\ r.player = p
                                    \/ ~(written /\ req[s].clan # Nil) /\ r = Idle
    BY Writes, IdleRequest
  <1>5. PICK r \in RequestRecord : /\ Turns(s, r)
                                   /\ \/ written /\ req[s].clan # Nil /\ r.pc = "join" /\ r.old = c /\ r.player = p
                                      \/ ~(written /\ req[s].clan # Nil) /\ r = Idle
    BY <1>4
  <1>6. ASSUME NEW d \in Stored, d \notin drifted' PROVE Right(d)'
    <2>1. d \in ClanId /\ Right(d) /\ Finite(d)
      BY <1>1, <1>6 DEF Counted, Stored, Bounded
    <2>2. ~Leaves(req[s], d)
      BY <1>1 DEF Leaves
    <2>3. CASE d # c
      <3>1. ~Leaves(r, d) /\ ~Owes(r, d) /\ ~Owes(req[s], d)
        BY <1>5, <2>3, IdleRequest DEF Leaves, Owes
      <3> QED BY <1>2, <1>3, <1>5, <2>1, <2>2, <2>3, <3>1, NeutralKept, Untouched
    <2>4. CASE d = c /\ ~written
      <3>1. req[s].clan # Nil /\ r = Idle
        BY <1>1, <1>5, <1>6, <2>4
      <3>2. ~Leaves(r, d) /\ ~Owes(r, d) /\ ~Owes(req[s], d)
        BY <3>1, IdleRequest DEF Leaves, Owes
      <3>3. clans' = clans
        BY <2>4, Writes
      <3> QED BY <1>3, <1>5, <2>1, <2>2, <3>2, <3>3, NeutralKept, Untouched
    <2>5. CASE d = c /\ written
      <3>1. clans[d].playerCount = req[s].count /\ (req[s].clan = Nil \/ p \in Members(d) \ CountedOut(d))
        BY <1>1, <1>6, <2>5
      <3>2. PICK q \in Clan : Becomes(d, q) /\ q.playerCount = n /\ q.active = clans[d].active
        BY <2>5, Writes
      <3>3. clans'[d].playerCount = clans[d].playerCount - 1 /\ clans'[d].active = clans[d].active
        BY <3>1, <3>2, Became
      <3>4. clans[d].playerCount \in Int /\ clans[d].active \in Int
        BY <1>6, <2>5, Lives, BoundsAssumption DEF Clan
      <3>5. CASE req[s].clan = Nil
        <4>1. r = Idle /\ ~Leaves(r, d) /\ ~Owes(r, d) /\ Owes(req[s], d)
          BY <1>1, <1>5, <2>5, <3>5, IdleRequest DEF Leaves, Owes
        <4>2. Leaving(d)' = Leaving(d) /\ CountedOut(d)' = CountedOut(d) /\ Unshared(d)'
          BY <1>5, <2>1, <2>2, <2>5, <4>1, SlotKept DEF Right
        <4>3. NotCountedOut(d)' = NotCountedOut(d) \ {s} /\ s \in NotCountedOut(d)
          BY <1>5, <4>1, Slots
        <4>4. Cardinality(NotCountedOut(d)') = Cardinality(NotCountedOut(d)) - 1
          BY <2>1, <2>5, <4>3, FS_RemoveElement, ZenonT(40) DEF Finite
        <4>5. CountedOut(d)' \subseteq Members(d)'
          BY <1>3, <2>1, <2>5, <4>2 DEF Right
        <4> QED BY <1>3, <2>1, <2>5, <3>3, <3>4, <4>2, <4>4, <4>5, Numbers DEF Right
      <3>6. CASE req[s].clan # Nil
        <4>1. r.pc = "join" /\ Leaves(r, d) /\ r.player = p /\ ~Owes(r, d) /\ ~Owes(req[s], d)
          BY <1>5, <2>5, <3>6 DEF Leaves, Owes
        <4>2. s \notin Leaving(d) /\ p \in Members(d) \ CountedOut(d)
          BY <1>5, <2>2, <2>5, <3>1, <3>6, Slots
        <4>3. /\ Leaving(d)' = Leaving(d) \cup {s} /\ Unshared(d)'
              /\ CountedOut(d)' = CountedOut(d) \cup {p}
          BY <1>5, <2>1, <2>5, <4>1, <4>2, SlotTaken DEF Right
        <4>4. NotCountedOut(d)' = NotCountedOut(d)
          <5>1. s \notin NotCountedOut(d) /\ NotCountedOut(d)' = NotCountedOut(d) \ {s}
            BY <1>5, <4>1, Slots
          <5> QED BY <5>1
        <4>5. Cardinality(Leaving(d)') = Cardinality(Leaving(d)) + 1
          BY <2>1, <2>5, <4>2, <4>3, FS_AddElement DEF Finite
        <4>6. CountedOut(d)' \subseteq Members(d)'
          BY <1>3, <2>1, <2>5, <4>2, <4>3 DEF Right
        <4> QED BY <1>3, <2>1, <2>5, <3>3, <3>4, <4>3, <4>4, <4>5, <4>6, Numbers DEF Right
      <3> QED BY <3>5, <3>6
    <2> QED BY <2>3, <2>4, <2>5
  <1> QED BY <1>2, <1>6 DEF Counted

\* A player arrives from another clan, or from none.
LEMMA JoinCounts ==
    ASSUME Fit, MembersHaveClan, Bounded, Counted, NEW s \in Client, joinClan(s)
    PROVE  Counted'
  <1> DEFINE p == req[s].player
             to == req[s].clan
             old == req[s].old
  <1>1. /\ req[s].pc = "join" /\ p \in players /\ p \in Player /\ to \in Stored /\ to \in ClanId
        /\ clanOf' = [clanOf EXCEPT ![p] = to] /\ Turns(s, Idle) /\ UNCHANGED players
        /\ drifted' = IF clanOf[p] = old THEN drifted ELSE drifted \cup ({clanOf[p], old} \ {Nil})
    BY Joins DEF Stored
  <1>2. PICK r \in Clan : /\ Becomes(to, r) /\ r.playerCount = clans[to].playerCount + 1
                          /\ r.active = clans[to].active + 1
    BY Joins
  <1>3. Stored' = Stored /\ clans'[to] = r /\ \A d \in ClanId \ {to} : clans'[d] = clans[d]
    BY <1>1, <1>2, Became
  <1>4. \A d \in ClanId : Members(d)' = IF d = to THEN Members(d) \cup {p} ELSE Members(d) \ {p}
    BY <1>1, Moves
  <1>5. Idle \in RequestRecord /\ \A d \in ClanId : ~Leaves(Idle, d) /\ ~Owes(Idle, d) /\ ~Owes(req[s], d)
    BY <1>1, IdleRequest DEF Leaves, Owes
  <1>6. ASSUME NEW d \in Stored, d \notin drifted' PROVE Right(d)'
    <2>1. d \in ClanId /\ Right(d) /\ Finite(d)
      BY <1>1, <1>6 DEF Counted, Stored, Bounded
    <2>2. NotCountedOut(d)' = NotCountedOut(d)
      <3>1. s \notin NotCountedOut(d) /\ NotCountedOut(d)' = NotCountedOut(d) \ {s}
        BY <1>1, <1>5, <2>1, Slots
      <3> QED BY <3>1
    <2>3. clans[d].playerCount \in Int /\ clans[d].active \in Int
      BY <2>1, <1>6, Lives, BoundsAssumption DEF Clan
    <2>4. p \in Members(d) <=> clanOf[p] = d
      BY <1>1 DEF Members
    <2>5. CASE d = old
      <3>1. clanOf[p] = d /\ p \in Members(d)
        BY <1>1, <1>6, <2>1, <2>4, <2>5, NilAssumption
      <3>2. s \in Leaving(d)
        BY <1>1, <2>5 DEF Leaving, At
      <3>3. /\ Leaving(d)' = Leaving(d) \ {s} /\ Unshared(d)'
            /\ CountedOut(d)' = CountedOut(d) \ {p}
        BY <1>1, <2>1, <3>2, SlotFreed DEF Right
      <3>4. Cardinality(Leaving(d)') = Cardinality(Leaving(d)) - 1
        BY <2>1, <3>2, <3>3, FS_RemoveElement DEF Finite
      <3>5. CASE d = to
        <4>1. Members(d)' = Members(d)
          BY <1>4, <2>1, <3>1, <3>5
        <4>2. clans'[d].playerCount = clans[d].playerCount + 1 /\ clans'[d].active = clans[d].active + 1
          BY <1>2, <1>3, <3>5
        <4>3. CountedOut(d)' \subseteq Members(d)'
          BY <2>1, <3>3, <4>1 DEF Right
        <4> QED BY <2>1, <2>2, <2>3, <3>3, <3>4, <4>1, <4>2, <4>3, Numbers DEF Right
      <3>6. CASE d # to
        <4>1. Members(d)' = Members(d) \ {p}
          BY <1>4, <2>1, <3>6
        <4>2. Cardinality(Members(d)') = Cardinality(Members(d)) - 1
          BY <2>1, <3>1, <4>1, FS_RemoveElement, ZenonT(40) DEF Finite
        <4>3. clans'[d] = clans[d]
          BY <1>3, <2>1, <3>6
        <4>4. CountedOut(d)' \subseteq Members(d)'
          BY <2>1, <3>3, <4>1 DEF Right
        <4> QED BY <2>1, <2>2, <2>3, <3>3, <3>4, <4>2, <4>3, <4>4, Numbers DEF Right
      <3> QED BY <3>5, <3>6
    <2>6. CASE d # old
      <3>1. p \notin Members(d)
        BY <1>1, <1>6, <2>1, <2>4, <2>6, NilAssumption
      <3>2. ~Leaves(req[s], d)
        BY <2>6 DEF Leaves
      <3>3. Leaving(d)' = Leaving(d) /\ CountedOut(d)' = CountedOut(d) /\ Unshared(d)'
        BY <1>1, <1>5, <2>1, <3>2, SlotKept DEF Right
      <3>4. CASE d = to
        <4>1. Members(d)' = Members(d) \cup {p}
          BY <1>4, <2>1, <3>4
        <4>2. Cardinality(Members(d)') = Cardinality(Members(d)) + 1
          BY <2>1, <3>1, <4>1, FS_AddElement DEF Finite
        <4>3. clans'[d].playerCount = clans[d].playerCount + 1 /\ clans'[d].active = clans[d].active + 1
          BY <1>2, <1>3, <3>4
        <4>4. CountedOut(d)' \subseteq Members(d)'
          BY <2>1, <3>3, <4>1 DEF Right
        <4> QED BY <2>1, <2>2, <2>3, <3>3, <4>2, <4>3, <4>4, Numbers DEF Right
      <3>5. CASE d # to
        <4>1. Members(d)' = Members(d)
          BY <1>4, <2>1, <3>1, <3>5
        <4>2. clans'[d] = clans[d]
          BY <1>3, <2>1, <3>5
        <4> QED BY <2>1, <2>2, <3>3, <4>1, <4>2, Untouched
      <3> QED BY <3>4, <3>5
    <2> QED BY <2>5, <2>6
  <1> QED BY <1>3, <1>6 DEF Counted

\* A player leaves, and with it the clan if the count says it was the last.
LEMMA RemovalCounts ==
    ASSUME Fit, MembersHaveClan, Bounded, Counted, NEW s \in Client, removePlayerFromClan(s)
    PROVE  Counted'
  <1> DEFINE p == req[s].player
             from == req[s].clan
  <1>1. /\ req[s].pc = "leave" /\ p \in Player /\ from \in Stored /\ from \in ClanId
        /\ Turns(s, Idle) /\ UNCHANGED players
        /\ drifted' = IF p \in Members(from) \ CountedOut(from) THEN drifted
                      ELSE drifted \cup ({from, clanOf[p]} \ {Nil})
    BY Removes DEF Stored
  <1>2. Idle \in RequestRecord /\ \A d \in ClanId : /\ ~Leaves(Idle, d) /\ ~Owes(Idle, d)
                                                    /\ ~Leaves(req[s], d) /\ ~Owes(req[s], d)
    BY <1>1, IdleRequest DEF Leaves, Owes
  <1>3. ASSUME NEW d \in Stored, d \notin drifted'
        PROVE  /\ d \in ClanId /\ Right(d) /\ Finite(d)
               /\ Leaving(d)' = Leaving(d) /\ CountedOut(d)' = CountedOut(d) /\ Unshared(d)'
               /\ NotCountedOut(d)' = NotCountedOut(d)
               /\ d # from => p \notin Members(d)
               /\ d = from => p \in Members(d) /\ p \notin CountedOut(d)
    <2>1. d \in ClanId /\ Right(d) /\ Finite(d)
      BY <1>1, <1>3 DEF Counted, Stored, Bounded
    <2>2. /\ Leaving(d)' = Leaving(d) /\ CountedOut(d)' = CountedOut(d) /\ Unshared(d)'
          /\ NotCountedOut(d)' = NotCountedOut(d)
      BY <1>1, <1>2, <2>1, NeutralKept
    <2>3. d # from => p \notin Members(d)
      BY <1>1, <1>3, <2>1, NilAssumption DEF Members
    <2>4. d = from => p \in Members(d) /\ p \notin CountedOut(d)
      BY <1>1, <1>3, <2>1, NilAssumption
    <2> QED BY <2>1, <2>2, <2>3, <2>4
  <1>4. CASE Becomes(from, Deleted) /\ clanOf' = CastOut({p}, from)
    <2>1. Stored' = Stored \ {from} /\ \A d \in ClanId \ {from} : clans'[d] = clans[d]
      BY <1>4, Became
    <2>2. \A d \in ClanId \ {from} : Members(d)' = Members(d) \ {p}
      BY <1>1, <1>4, Casts
    <2>3. ASSUME NEW d \in Stored \ {from}, d \notin drifted' PROVE Right(d)'
      <3>1. Members(d)' = Members(d) /\ clans'[d] = clans[d]
        BY <1>3, <2>1, <2>2, <2>3
      <3> QED BY <1>3, <2>3, <3>1, Untouched
    <2> QED BY <2>1, <2>3 DEF Counted
  <1>5. ASSUME NEW r \in Clan, Becomes(from, r), r.playerCount = clans[from].playerCount - 1,
               r.active >= clans[from].active - 1, clanOf' = [clanOf EXCEPT ![p] = Nil]
        PROVE  Counted'
    <2>1. Stored' = Stored /\ clans'[from] = r /\ \A d \in ClanId \ {from} : clans'[d] = clans[d]
      <3>1. /\ Stored' = Stored \cup {from} /\ clans'[from] = r
            /\ \A d \in ClanId \ {from} : clans'[d] = clans[d]
        BY <1>5, Became
      <3> QED BY <1>1, <3>1
    <2>2. \A d \in ClanId : Members(d)' = Members(d) \ {p}
      <3>1. Nil \notin ClanId
        BY NilAssumption
      <3>2. \A d \in ClanId : Members(d)' = IF d = Nil THEN Members(d) \cup {p} ELSE Members(d) \ {p}
        BY <1>1, <1>5, <3>1, Moves
      <3> QED BY <3>1, <3>2
    <2>3. ASSUME NEW d \in Stored, d \notin drifted' PROVE Right(d)'
      <3>1. CASE d # from
        <4>1. Members(d)' = Members(d) /\ clans'[d] = clans[d]
          BY <1>3, <2>1, <2>2, <2>3, <3>1
        <4> QED BY <1>3, <2>3, <4>1, Untouched
      <3>2. CASE d = from
        <4>1. p \in Members(d) /\ p \notin CountedOut(d) /\ Finite(d) /\ Members(d)' = Members(d) \ {p}
          BY <1>3, <2>2, <2>3, <3>2
        <4>2. Cardinality(Members(d)') = Cardinality(Members(d)) - 1
          BY <4>1, FS_RemoveElement DEF Finite
        <4>3. CountedOut(d)' \subseteq Members(d)'
          BY <1>3, <2>3, <4>1 DEF Right
        <4>4. clans[d].playerCount \in Int /\ clans[d].active \in Int /\ r.active \in Int
          BY <2>3, Lives, BoundsAssumption DEF Clan
        <4>5. clans'[d].playerCount = clans[d].playerCount - 1 /\ clans'[d].active >= clans[d].active - 1
              /\ clans'[d].active \in Int
          BY <1>5, <2>1, <3>2, <4>4
        <4> QED BY <1>3, <2>3, <4>1, <4>2, <4>3, <4>4, <4>5, Numbers DEF Right
      <3> QED BY <3>1, <3>2
    <2> QED BY <2>1, <2>3 DEF Counted
  <1> QED BY <1>4, <1>5, Removes

\* A clan is deleted.
LEMMA DeleteCounts ==
    ASSUME Fit, MembersHaveClan, Bounded, Counted, NEW c, Becomes(c, Deleted), clanOf' = CastOut({}, c),
           UNCHANGED players, drifted \subseteq drifted',
           \/ UNCHANGED req
           \/ \E s \in Client, r \in RequestRecord : /\ Turns(s, r) /\ req[s].pc = "delete"
                                                     /\ r.pc = "join" /\ r.old = Nil
    PROVE  Counted'
  <1>1. Stored' = Stored \ {c} /\ \A d \in ClanId \ {c} : clans'[d] = clans[d]
    BY Became
  <1>2. \A d \in ClanId \ {c} : Members(d)' = Members(d) \ {}
    BY Casts
  <1>3. ASSUME NEW d \in Stored \ {c}, d \notin drifted' PROVE Right(d)'
    <2>1. d \in ClanId /\ Right(d) /\ Members(d)' = Members(d) /\ clans'[d] = clans[d]
      BY <1>1, <1>2, <1>3 DEF Counted, Stored
    <2>2. CASE UNCHANGED req
      <3>1. Leaving(d)' = Leaving(d) /\ NotCountedOut(d)' = NotCountedOut(d)
        BY <2>2 DEF Leaving, NotCountedOut, At
      <3>2. CountedOut(d)' = CountedOut(d)
        BY <2>2, <3>1 DEF CountedOut
      <3>3. Unshared(d)'
        BY <2>1, <2>2, <3>1 DEF Unshared, Right
      <3> QED BY <2>1, <3>1, <3>2, <3>3, Untouched
    <2>3. ASSUME NEW s \in Client, NEW r \in RequestRecord, Turns(s, r), req[s].pc = "delete", r.pc = "join", r.old = Nil
          PROVE  Right(d)'
      <3>1. ~Leaves(req[s], d) /\ ~Leaves(r, d) /\ ~Owes(req[s], d) /\ ~Owes(r, d)
        BY <2>1, <2>3, NilAssumption DEF Leaves, Owes
      <3> QED BY <2>1, <2>3, <3>1, NeutralKept, Untouched
    <2> QED BY <2>2, <2>3
  <1> QED BY <1>1, <1>3 DEF Counted

\* A clan is made, with its founder or for a player that is to join it.
LEMMA CreateCounts ==
    ASSUME Fit, MembersHaveClan, Bounded, Counted, NEW s \in Client, createOne(s)
    PROVE  Counted'
  <1> DEFINE p == req[s].player
  <1>1. PICK c \in ClanId, r \in Clan :
              /\ clans[c] = New /\ Becomes(c, r) /\ r.playerCount = 1 /\ r.active = 1
              /\ req[s].pc = "create" /\ p \in players /\ p \in Player
              /\ clanOf' = [clanOf EXCEPT ![p] = c]
              /\ Turns(s, Idle) /\ UNCHANGED players
              /\ drifted' = drifted \cup ({clanOf[p]} \ {Nil})
    BY Creates
  <1>2. /\ Stored' = Stored \cup {c} /\ clans'[c] = r /\ \A d \in ClanId \ {c} : clans'[d] = clans[d]
        /\ c \notin Stored
    BY <1>1, Became DEF Stored
  <1>3. \A d \in ClanId : Members(d)' = IF d = c THEN Members(d) \cup {p} ELSE Members(d) \ {p}
    BY <1>1, Moves
  <1>4. Idle \in RequestRecord /\ \A d \in ClanId : /\ ~Leaves(Idle, d) /\ ~Owes(Idle, d)
                                                    /\ ~Leaves(req[s], d) /\ ~Owes(req[s], d)
    BY <1>1, IdleRequest DEF Leaves, Owes
  <1>5. ASSUME NEW d \in Stored, d \notin drifted' PROVE Right(d)'
    <2>1. d \in ClanId /\ Right(d) /\ d # c /\ clanOf[p] # d
      BY <1>1, <1>2, <1>5, NilAssumption DEF Counted, Stored
    <2>2. Members(d)' = Members(d) /\ clans'[d] = clans[d]
      BY <1>2, <1>3, <2>1 DEF Members
    <2> QED BY <1>1, <1>4, <2>1, <2>2, NeutralKept, Untouched
  <1>6. Right(c)'
    <2>1. Members(c) = {} /\ Leaving(c) = {} /\ NotCountedOut(c) = {}
      BY <1>1, NobodyYet
    <2>2. Members(c)' = {p}
      BY <1>3, <2>1
    <2>3. Leaving(c)' = {} /\ NotCountedOut(c)' = {}
      BY <1>1, <1>4, <2>1, Slots
    <2>4. CountedOut(c)' = {} /\ Unshared(c)'
      BY <2>3 DEF CountedOut, Unshared
    <2>5. Cardinality(Members(c)') = 1 /\ Cardinality(Leaving(c)') = 0 /\ Cardinality(NotCountedOut(c)') = 0
      BY <2>2, <2>3, FS_EmptySet, FS_Singleton
    <2>6. clans'[c].playerCount = 1 /\ clans'[c].active = 1
      BY <1>1, <1>2
    <2> QED BY <2>2, <2>4, <2>5, <2>6 DEF Right
  <1> QED BY <1>2, <1>5, <1>6 DEF Counted

LEMMA ExpeditionCounts ==
    ASSUME Fit, MembersHaveClan, Bounded, Counted, NEW s \in Client, createAndJoinExpeditionClan(s)
    PROVE  Counted'
  <1>1. PICK c \in ClanId, r \in Clan, q \in RequestRecord :
              /\ clans[c] = New /\ Becomes(c, r) /\ r.playerCount = 0 /\ r.active = 1
              /\ Turns(s, q) /\ q.pc = "join" /\ q.old = Nil
              /\ req[s].pc = "expedition"
              /\ UNCHANGED <<players, clanOf, drifted>>
    BY Expeditions
  <1>2. /\ Stored' = Stored \cup {c} /\ clans'[c] = r /\ \A d \in ClanId \ {c} : clans'[d] = clans[d]
        /\ c \notin Stored
    BY <1>1, Became DEF Stored
  <1>3. \A d : Members(d)' = Members(d)
    BY <1>1 DEF Members
  <1>4. \A d \in ClanId : /\ ~Leaves(q, d) /\ ~Owes(q, d)
                          /\ ~Leaves(req[s], d) /\ ~Owes(req[s], d)
    BY <1>1, NilAssumption DEF Leaves, Owes
  <1>5. ASSUME NEW d \in Stored, d \notin drifted' PROVE Right(d)'
    <2>1. d \in ClanId /\ Right(d) /\ d # c
      BY <1>1, <1>2, <1>5 DEF Counted, Stored
    <2> QED BY <1>1, <1>2, <1>3, <1>4, <2>1, NeutralKept, Untouched
  <1>6. Right(c)'
    <2>1. Members(c) = {} /\ Leaving(c) = {} /\ NotCountedOut(c) = {}
      BY <1>1, NobodyYet
    <2>2. Leaving(c)' = {} /\ NotCountedOut(c)' = {} /\ Members(c)' = {}
      BY <1>1, <1>3, <1>4, <2>1, Slots
    <2>3. CountedOut(c)' = {} /\ Unshared(c)'
      BY <2>2 DEF CountedOut, Unshared
    <2>4. Cardinality(Members(c)') = 0 /\ Cardinality(Leaving(c)') = 0 /\ Cardinality(NotCountedOut(c)') = 0
      BY <2>2, FS_EmptySet
    <2>5. clans'[c].playerCount = 0 /\ clans'[c].active = 1
      BY <1>1, <1>2
    <2> QED BY <2>3, <2>4, <2>5 DEF Right
  <1> QED BY <1>2, <1>5, <1>6 DEF Counted

\* A stopped server forgets whom it had to count.
LEMMA StopCounts ==
    ASSUME Fit, Counted, Stop
    PROVE  Counted'
  <1>1. /\ UNCHANGED <<clans, players, clanOf>> /\ Stored' = Stored /\ req' = [s \in Client |-> Idle]
        /\ drifted \subseteq drifted'
    BY DEF Stop, Stored
  <1>2. \A s \in Client : /\ req[s].old # Nil
                          /\ req[s].pc = "join" \/ (req[s].clan = Nil /\ req[s].pc \in {"decrease", "write"})
                          => req[s].old \in drifted'
    BY DEF Stop, At
  <1>3. ASSUME NEW c \in Stored, c \notin drifted' PROVE Right(c)'
    <2>1. c \in ClanId /\ c # Nil /\ Right(c)
      BY <1>1, <1>3, NilAssumption DEF Counted, Stored
    <2>2. Leaving(c) = {} /\ NotCountedOut(c) = {}
      BY <1>2, <1>3, <2>1 DEF Leaving, NotCountedOut, At
    <2>3. \A s \in Client : req'[s].pc = "idle"
      BY <1>1, IdleRequest
    <2>4. Leaving(c)' = {} /\ NotCountedOut(c)' = {}
      BY <2>3 DEF Leaving, NotCountedOut, At
    <2>5. CountedOut(c)' = {} /\ CountedOut(c) = {} /\ Unshared(c)'
      BY <2>2, <2>4 DEF CountedOut, Unshared
    <2>6. Members(c)' = Members(c)
      BY <1>1 DEF Members
    <2> QED BY <1>1, <2>1, <2>2, <2>4, <2>5, <2>6, Untouched
  <1> QED BY <1>1, <1>3 DEF Counted

LEMMA CountedStep ==
    ASSUME Fit, MembersHaveClan, Bounded, Counted, [Next]_vars
    PROVE  Counted'
  <1>1. ASSUME NEW s \in Client, Quiet(s) PROVE Counted'
    BY <1>1, QuietCounts, DeletionCounts
  <1>2. ASSUME NEW s \in Client, deleteOldClan(s), req[s].old \in Stored PROVE Counted'
    <2>1. PICK c : c = req[s].old
      OBVIOUS
    <2>2. Becomes(c, Deleted) /\ clanOf' = CastOut({}, c) /\ UNCHANGED players /\ drifted \subseteq drifted'
      BY <1>2, <2>1, Deletes
    <2>3. \E r \in RequestRecord : Turns(s, r) /\ req[s].pc = "delete" /\ r.pc = "join" /\ r.old = Nil
      BY <1>2, Deletes
    <2> QED BY <2>2, <2>3, DeleteCounts
  <1>3. ASSUME NEW s \in Client, decreaseByIdOnOne(s) \/ joinClan(s) \/ removePlayerFromClan(s) PROVE Counted'
    BY <1>3, WriteCounts, JoinCounts, RemovalCounts
  <1>4. ASSUME NEW s \in Client, createOne(s) \/ createAndJoinExpeditionClan(s) PROVE Counted'
    BY <1>4, CreateCounts, ExpeditionCounts
  <1>5. ASSUME NEW c \in ClanId, deleteOneById(c) PROVE Counted'
    BY <1>5, DeleteCounts DEF deleteOneById, Becomes
  <1>6. CASE removeInactiveRooms \/ UNCHANGED vars
    <2>1. /\ Stored' = Stored /\ UNCHANGED <<players, clanOf, req, drifted>>
          /\ \A c \in Stored : clans'[c].playerCount = clans[c].playerCount /\ clans'[c].active = clans[c].active
      BY <1>6, RemovesRooms DEF removeInactiveRooms, vars, Stored
    <2>2. \A c : /\ Members(c)' = Members(c) /\ Leaving(c)' = Leaving(c) /\ NotCountedOut(c)' = NotCountedOut(c)
                 /\ CountedOut(c)' = CountedOut(c) /\ (Unshared(c) => Unshared(c)')
      BY <2>1 DEF Members, Leaving, NotCountedOut, CountedOut, Unshared, At
    <2>3. ASSUME NEW c \in Stored \ drifted PROVE Right(c)'
      <3>1. Right(c) /\ Unshared(c)'
        BY <2>2 DEF Counted, Right
      <3> QED BY <2>1, <2>2, <3>1, Untouched
    <2> QED BY <2>1, <2>3 DEF Counted
  <1> QED BY <1>1, <1>2, <1>3, <1>4, <1>5, <1>6, StopCounts, Steps
----------------------------------------------------------------------------
\* With a count of one, whoever leaves leaves behind those alone that are about to go.
LEMMA LastOne ==
    ASSUME Fit, NEW c \in Stored, Right(c), Finite(c), IsLast(clans[c].playerCount),
           NEW p \in Members(c) \ CountedOut(c)
    PROVE  Members(c) \subseteq {p} \cup CountedOut(c)
  <1> DEFINE f == [s \in Leaving(c) |-> req[s].player]
             rest == Members(c) \ CountedOut(c)
  <1>1. f \in Injection(Leaving(c), CountedOut(c))
    BY DEF Right, Unshared, CountedOut, Injection, IsInjective
  <1>2. IsFiniteSet(CountedOut(c)) /\ IsFiniteSet(rest)
    BY FS_Subset DEF Right, Finite
  <1>3. Cardinality(Leaving(c)) <= Cardinality(CountedOut(c))
    BY <1>1, <1>2, FS_Injection
  <1>4. Cardinality(CountedOut(c)) \in Nat /\ Cardinality(rest) \in Nat
    BY <1>2, FS_CardinalityType
  <1>5. Cardinality(Members(c)) = Cardinality(CountedOut(c)) + Cardinality(rest)
    <2>1. CountedOut(c) \cup rest = Members(c) /\ CountedOut(c) \cap rest = {}
      BY DEF Right
    <2> HIDE DEF rest
    <2>2. Cardinality(CountedOut(c) \cup rest) = Cardinality(CountedOut(c)) + Cardinality(rest) - Cardinality({})
      BY <1>2, <2>1, FS_Union
    <2>3. Cardinality({}) = 0
      BY FS_EmptySet
    <2>4. Cardinality(Members(c)) = Cardinality(CountedOut(c)) + Cardinality(rest) - 0
      BY <2>1, <2>2, <2>3
    <2> QED BY <1>4, <2>4
  <1>6. clans[c].playerCount <= 1 /\ clans[c].playerCount \in Int
    BY Lives, BoundsAssumption DEF IsLast, Clan
  <1>7. clans[c].playerCount =
            Cardinality(Members(c)) - Cardinality(Leaving(c)) + Cardinality(NotCountedOut(c))
    BY DEF Right
  <1>8. Cardinality(rest) <= 1
    BY <1>3, <1>4, <1>5, <1>6, <1>7, Numbers
  <1>9. IsFiniteSet(rest \ {p}) /\ Cardinality(rest \ {p}) = Cardinality(rest) - 1
    BY <1>2, FS_RemoveElement
  <1>10. Cardinality(rest \ {p}) \in Nat
    BY <1>9, FS_CardinalityType
  <1>11. rest \ {p} = {}
    BY <1>4, <1>8, <1>9, <1>10, FS_EmptySet
  <1> QED BY <1>11

LEMMA EvictedStep ==
    ASSUME Fit, MembersHaveClan, Bounded, Counted, NobodyEvicted, [Next]_vars
    PROVE  NobodyEvicted'
  <1> USE DEF NobodyEvicted
  <1>1. CASE UNCHANGED evicted /\ drifted \subseteq drifted'
    BY <1>1
  <1>2. ASSUME NEW c \in Stored, NEW p, NoteEviction(c, p), drifted \subseteq drifted',
               c \in drifted' \/ (IsLast(clans[c].playerCount) /\ p \in Members(c) \ CountedOut(c))
        PROVE  NobodyEvicted'
    <2>1. CASE c \in drifted'
      BY <1>2, <2>1 DEF NoteEviction
    <2>2. CASE c \notin drifted'
      <3>1. c \in ClanId /\ Right(c) /\ Finite(c)
        BY <1>2, <2>2 DEF Counted, Bounded, Stored
      <3>2. Members(c) \subseteq {p} \cup CountedOut(c)
        BY <1>2, <2>2, <3>1, LastOne
      <3> QED BY <1>2, <3>2 DEF NoteEviction
    <2> QED BY <2>1, <2>2
  <1>3. ASSUME NEW s \in Client, Quiet(s) PROVE NobodyEvicted'
    <2>1. UNCHANGED evicted
      BY <1>3, QuietClans
    <2>2. drifted \subseteq drifted'
      BY <1>3 DEF Quiet, Request, handleJoinRequest, excludePlayer, leaveClan, mayCreate,
                  findClanForNewPlayer, readToDelete, readOldClan, readCount, cancelJoin,
                  cancelTransaction, deletePlayer, deleteOldClan
    <2> QED BY <1>1, <2>1, <2>2
  <1>4. ASSUME NEW s \in Client, deleteOldClan(s), req[s].old \in Stored PROVE NobodyEvicted'
    <2>1. PICK c \in Stored : c = req[s].old
      BY <1>4
    <2>2. /\ NoteEviction(c, req[s].player)
          /\ drifted' = IF IsLast(clans[c].playerCount) /\ req[s].player \in Members(c) \ CountedOut(c)
                        THEN drifted ELSE drifted \cup {c}
      BY <1>4, <2>1, Deletes
    <2>3. /\ drifted \subseteq drifted'
          /\ c \in drifted' \/ (IsLast(clans[c].playerCount) /\ req[s].player \in Members(c) \ CountedOut(c))
      BY <2>2
    <2> QED BY <1>2, <2>2, <2>3
  <1>5. ASSUME NEW s \in Client, removePlayerFromClan(s) PROVE NobodyEvicted'
    <2>1. PICK c \in Stored : c = req[s].clan
      BY <1>5, Removes
    <2>2. /\ drifted' = IF req[s].player \in Members(c) \ CountedOut(c) THEN drifted
                        ELSE drifted \cup ({c, clanOf[req[s].player]} \ {Nil})
          /\ \/ IsLast(clans[c].playerCount) /\ NoteEviction(c, req[s].player)
             \/ UNCHANGED evicted
      BY <1>5, <2>1, Removes
    <2>3. c # Nil /\ drifted \subseteq drifted'
      BY <2>2, NilAssumption DEF Stored
    <2>4. c \in drifted' \/ req[s].player \in Members(c) \ CountedOut(c)
      BY <2>2, <2>3
    <2> QED BY <1>1, <1>2, <2>2, <2>3, <2>4
  <1>6. ASSUME NEW s \in Client, decreaseByIdOnOne(s) \/ joinClan(s) PROVE NobodyEvicted'
    BY <1>1, <1>6 DEF decreaseByIdOnOne, joinClan
  <1>7. ASSUME NEW s \in Client, createOne(s) \/ createAndJoinExpeditionClan(s) PROVE NobodyEvicted'
    BY <1>1, <1>7 DEF createOne, createAndJoinExpeditionClan
  <1>8. CASE (\E c \in ClanId : deleteOneById(c)) \/ removeInactiveRooms \/ Stop \/ UNCHANGED vars
    BY <1>1, <1>8 DEF deleteOneById, removeInactiveRooms, Stop, vars
  <1> QED BY <1>3, <1>4, <1>5, <1>6, <1>7, <1>8, Steps

\* What the count of the clans and the evictions rest on.
MembershipInv == Fit /\ MembersHaveClan /\ Bounded /\ Counted /\ NobodyEvicted

LEMMA InitMembership ==
    ASSUME Init
    PROVE  MembershipInv
  <1>1. Fit /\ MembersHaveClan
    BY InitFit
  <1>2. \A c \in ClanId : Leaving(c) = {} /\ NotCountedOut(c) = {} /\ CountedOut(c) = {} /\ Unshared(c)
    BY IdleRequest DEF Init, Leaving, NotCountedOut, CountedOut, Unshared, At
  <1>3. PICK p \in Player : /\ clans = [c \in ClanId |-> IF c = 1 THEN NewClan(1, p) ELSE New]
                            /\ clanOf = [q \in Player |-> IF q = p THEN 1 ELSE Nil]
                            /\ \E others \in SUBSET (Player \ {p}) : players = {p} \cup others
    BY DEF Init
  <1>4. \A c \in ClanId : Members(c) = IF c = 1 THEN {p} ELSE {}
    BY <1>1, <1>3, NilAssumption DEF Members, Fit
  <1>5. Bounded
    <2>1. IsFiniteSet({}) /\ IsFiniteSet({p})
      BY FS_EmptySet, FS_Singleton
    <2>2. ASSUME NEW c \in ClanId PROVE Finite(c)
      BY <1>2, <1>4, <2>1 DEF Finite
    <2> QED BY <2>2 DEF Bounded
  <1>6. ASSUME NEW c \in Stored PROVE Right(c)
    <2>1. c = 1 /\ c \in ClanId /\ clans[c].playerCount = 1 /\ clans[c].active = 1
      BY <1>3, NewOnes DEF Stored
    <2>2. Cardinality(Members(c)) = 1 /\ Cardinality(Leaving(c)) = 0 /\ Cardinality(NotCountedOut(c)) = 0
      BY <1>2, <1>4, <2>1, FS_EmptySet, FS_Singleton
    <2> QED BY <1>2, <2>1, <2>2 DEF Right
  <1> QED BY <1>1, <1>5, <1>6 DEF MembershipInv, Counted, NobodyEvicted, Init

LEMMA Membership == Spec => []MembershipInv
  <1>1. Init => MembershipInv
    BY InitMembership
  <1>2. MembershipInv /\ [Next]_vars => MembershipInv'
    BY FitStep, MembersStep, BoundedStep, CountedStep, EvictedStep DEF MembershipInv
  <1> QED BY <1>1, <1>2, PTL DEF Spec

\* The count of a clan is that of its players, up to those on their way out, as long as
\* no departure of a player that was not in it any more, no count written from an old
\* read and no failed join has spoilt it.
THEOREM CountsMembers == Spec => []CountIsMembers
  <1>1. MembershipInv => CountIsMembers
    BY DEF MembershipInv, Counted, Right, CountIsMembers
  <1> QED BY <1>1, Membership, PTL

\* And the clan's home has an active room for every one of them.
THEOREM HomesHaveRoom == Spec => []RoomForEach
  <1>1. MembershipInv => RoomForEach
    BY DEF MembershipInv, Counted, Right, RoomForEach
  <1> QED BY <1>1, Membership, PTL

\* A departure deletes no clan somebody stays in, unless its count was spoilt.
THEOREM NobodyIsEvicted == Spec => []NobodyEvicted
  <1>1. MembershipInv => NobodyEvicted
    BY DEF MembershipInv
  <1> QED BY <1>1, Membership, PTL
=============================================================================
