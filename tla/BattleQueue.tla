---------------------------- MODULE BattleQueue ----------------------------
(***************************************************************************)
(* Players who wait for a battle (onlinePlayers.service.ts and              *)
(* battleQueue.service.ts): a ping stores what its player does, with a      *)
(* number drawn from a counter in Redis that wraps around, and the queue is *)
(* sorted by these numbers.  One step is one Redis command of a ping.       *)
(***************************************************************************)
EXTENDS Integers, FiniteSets, SequencesExt

CONSTANTS
    Player,
    Client,          \* slots that run pings
    VersionOf,       \* the version of each player's game client
    QueueNumberMax,  \* queueNumberMax, 9999 in the code
    Nil

ASSUME QueueAssumption == QueueNumberMax \in Nat \ {0}

QueueMax == QueueNumberMax + 1

VARIABLES
    next,     \* NEXT_QUEUE_NUMBER
    online,   \* ONLINE_PLAYERS:<player>
    req,      \* the ping each slot runs
    raced     \* history: a ping stored the counter although another had drawn meanwhile

vars == <<next, online, req, raced>>

Number == 0 .. QueueNumberMax

\* The numbers drawn since one was, counted as far as half the counter's range.
Half == (QueueMax + 1) \div 2
Age  == 0 .. Half

OnlinePlayer ==
    [status : {"UI"}] \cup [status : {"BattleWait"}, number : Number, age : Age]

Request == [pc : {"idle", "read", "draw", "reset", "peek", "increase", "save"},
            player : Player \cup {Nil}, number : Number \cup {Nil}, age : Age,
            counter : Number \cup {Nil}]

Idle == [pc |-> "idle", player |-> Nil, number |-> Nil, age |-> 0, counter |-> Nil]

TypeOK ==
    /\ next \in Number \cup {Nil}
    /\ online \in [Player -> OnlinePlayer \cup {Nil}]
    /\ req \in [Client -> Request]
    /\ raced \in BOOLEAN

Init ==
    /\ next = Nil
    /\ online = [p \in Player |-> Nil]
    /\ req = [s \in Client |-> Idle]
    /\ raced = FALSE
----------------------------------------------------------------------------
At(s, label) == req[s].pc = label

Waits(p) == online[p] # Nil /\ online[p].status = "BattleWait"

Older(age) == IF age = Half THEN Half ELSE age + 1

\* Somebody draws: every number in use is one draw older.
OthersAge ==
    online' = [p \in Player |-> IF Waits(p) THEN [online[p] EXCEPT !.age = Older(@)] ELSE online[p]]

\* A ping of a player who does not wait: SET without a number.
pingUI(p) ==
    /\ online' = [online EXCEPT ![p] = [status |-> "UI"]]
    /\ UNCHANGED <<next, req, raced>>

\* A ping of a player who waits for a battle.
addPlayerOnline(s, p) ==
    /\ At(s, "idle")
    /\ req' = [req EXCEPT ![s] = [Idle EXCEPT !.pc = "read", !.player = p]]
    /\ UNCHANGED <<next, online, raced>>

\* A player who has a number keeps it.
getPlayerQueueNumber(s) ==
    LET p == req[s].player
    IN  /\ At(s, "read")
        /\ req' = [req EXCEPT ![s] =
              IF Waits(p)
              THEN [@ EXCEPT !.pc = "save", !.number = online[p].number, !.age = online[p].age]
              ELSE [@ EXCEPT !.pc = "draw"]]
        /\ UNCHANGED <<next, online, raced>>

\* GET the counter; a missing one counts as 0 and is then set.
getNextQueueNumber(s) ==
    /\ At(s, "draw")
    /\ OthersAge
    /\ req' = [t \in Client |->
          IF t = s THEN [req[s] EXCEPT !.pc = IF next = Nil THEN "reset" ELSE "peek",
                                       !.number = IF next = Nil THEN 0 ELSE next]
          ELSE IF req[t].number # Nil THEN [req[t] EXCEPT !.age = Older(@)] ELSE req[t]]
    /\ UNCHANGED <<next, raced>>

\* Another ping drew its number between this one's draw and store of the counter.
Raced(s) == raced \/ req[s].age > 0

Reset(s) ==
    /\ At(s, "reset")
    /\ next' = 0
    /\ raced' = Raced(s)
    /\ req' = [req EXCEPT ![s].pc = "peek"]
    /\ UNCHANGED online

\* GET the counter again, to increase it.
Peek(s) ==
    /\ At(s, "peek")
    /\ req' = [req EXCEPT ![s].pc = "increase", ![s].counter = next]
    /\ UNCHANGED <<next, online, raced>>

Increased(number) == IF number + 1 > QueueNumberMax THEN 0 ELSE number + 1

increaseQueueNumber(s) ==
    /\ At(s, "increase")
    /\ next' = Increased(req[s].counter)
    /\ raced' = Raced(s)
    /\ req' = [req EXCEPT ![s].pc = "save", ![s].counter = Nil]
    /\ UNCHANGED online

Save(s) ==
    /\ At(s, "save")
    /\ online' = [online EXCEPT ![req[s].player] =
          [status |-> "BattleWait", number |-> req[s].number, age |-> req[s].age]]
    /\ req' = [req EXCEPT ![s] = Idle]
    /\ UNCHANGED <<next, raced>>

\* A player who has not pinged for a minute and a half is not online.
Expire(p) ==
    /\ online[p] # Nil
    /\ online' = [online EXCEPT ![p] = Nil]
    /\ UNCHANGED <<next, req, raced>>

\* The server stops in the middle of a ping.
Stop(s) ==
    /\ ~At(s, "idle")
    /\ req' = [req EXCEPT ![s] = Idle]
    /\ UNCHANGED <<next, online, raced>>
----------------------------------------------------------------------------
(* sortPlayersByQueueNumber                                                 *)

\* How far the counter runs from one number to the other.
Diff(from, to) == (to - from + QueueMax) % QueueMax

MutOldestQN(numbers) ==
    FoldLeft(LAMBDA oldest, n : IF n < oldest THEN n ELSE oldest, Head(numbers), numbers)

\* Of two numbers the one from which the counter gets to the other sooner is older.
OldestQN(numbers) ==
    FoldLeft(LAMBDA oldest, n : IF Diff(n, oldest) < Diff(oldest, n) THEN n ELSE oldest,
             Head(numbers), numbers)

\* Players of different versions are not sorted.
sortPlayersByQueueNumber(players) ==
    IF players = <<>> \/ \E p, q \in ToSet(players) : VersionOf[p] # VersionOf[q]
    THEN <<>>
    ELSE LET oldest == OldestQN([i \in DOMAIN players |-> online[players[i]].number])
             Norm(i) == Diff(oldest, online[players[i]].number)
             Before(i, j) == Norm(i) < Norm(j) \/ (Norm(i) = Norm(j) /\ i < j)
             order == SetToSortSeq(DOMAIN players, Before)
         IN  [i \in DOMAIN players |-> players[order[i]]]

\* Those who wait, of one version or, if the query names none, of all.
getOnlinePlayers(versions) == {p \in Player : Waits(p) /\ VersionOf[p] \in versions}
----------------------------------------------------------------------------
\* Nothing is claimed of a counter once overwritten, so no ping starts after it.
Ping == ~raced /\ \E p \in Player : pingUI(p) \/ \E s \in Client : addPlayerOnline(s, p)

Next ==
    \/ Ping
    \/ \E p \in Player : Expire(p)
    \/ \E s \in Client :
          \/ getPlayerQueueNumber(s) \/ getNextQueueNumber(s) \/ Reset(s) \/ Peek(s)
          \/ increaseQueueNumber(s) \/ Save(s) \/ Stop(s)

Spec == Init /\ [][Next]_vars
----------------------------------------------------------------------------
(* Properties                                                               *)

Queries == {{VersionOf[p]} : p \in Player} \cup {{VersionOf[p] : p \in Player}}

\* Who drew a number first is first in the queue, also across the counter's
\* wrap-around and in whatever order Redis lists the players, while fewer than
\* half of the numbers were drawn since the first of them did and as long as no
\* ping overwrote the counter of another (sortPlayersByQueueNumber).
FirstComeFirst ==
    \A versions \in Queries :
        LET waiting == getOnlinePlayers(versions)
        IN  ~raced /\ (\A p \in waiting : 2 * online[p].age < QueueMax) =>
              \A players \in SetToSeqs(waiting) :
                 LET sorted == sortPlayersByQueueNumber(players)
                 IN  \A i, j \in DOMAIN sorted :
                        i < j => online[sorted[i]].age > online[sorted[j]].age
============================================================================
