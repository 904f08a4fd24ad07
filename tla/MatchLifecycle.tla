--------------------------- MODULE MatchLifecycle ---------------------------
(***************************************************************************)
(* One match of src/matchmaking/matchmaking.service.ts from its creation:   *)
(* startMatch collects the readiness of the real players, finishMatch pays  *)
(* the leaderboards under a Redis lock and stores the result.  Every key    *)
(* holds the match's id, so matches do not meet.  A request is a slot that  *)
(* runs its handler one Redis or MongoDB call at a time.  (For Mut... see   *)
(* Matchmaking.)                                                            *)
(***************************************************************************)
EXTENDS Integers, Sequences, FiniteSets

CONSTANTS
    Player,
    Clan,
    Nil,
    Slot,           \* requests in flight
    TeamPlayers,    \* the real players of each team, in their order
    TeamClan,       \* the clan of each team of a clan match, or Nil
    matchType,
    Handlers,       \* the endpoints clients call
    Failures,       \* whether a leaderboard update may fail
    Crashes,        \* whether a server may stop in the middle of a request
    Expires,        \* whether the leaderboard lock's lifetime may run out
    Bound           \* bound: requests are taken only until something was paid or
                    \* published that often

Side == {"A", "B"}
MatchType == {"RANDOM", "CLAN", "CUSTOM"}

ASSUME TeamAssumption ==
    /\ TeamPlayers \in [Side -> Seq(Player)]
    /\ TeamClan \in [Side -> Clan \cup {Nil}]
    /\ matchType \in MatchType
    /\ Handlers \subseteq {"start", "finish"}
    /\ Failures \in BOOLEAN /\ Crashes \in BOOLEAN /\ Expires \in BOOLEAN
    /\ Bound \in Nat

VARIABLES
    match,          \* matchmaking:match:<id>, or Nil once it expired
    lasting,        \* whether that key has no lifetime
    lock,           \* matchmaking:leaderboard-lock:<id>
    paid,           \* history: battles paid to each player, by winning side
    clanPaid,       \* history: battles paid to each team's clan
    tasks,          \* history: PLAY_A_BATTLE events emitted for each player
    confirmed,      \* history: players whose startMatch returned
    published,      \* history: MATCH_STARTED notifications
    raced,          \* history: a match was stored over one it had not been read from
    lapsed,         \* history: the lock lapsed before the match was finished
    req             \* the request each slot runs

events == <<paid, clanPaid, tasks, confirmed, published>>
history == <<events, raced, lapsed>>
vars == <<match, lasting, lock, history, req>>

RealPlayers == {TeamPlayers["A"][i] : i \in DOMAIN TeamPlayers["A"]}
                 \cup {TeamPlayers["B"][i] : i \in DOMAIN TeamPlayers["B"]}

MatchRecord == [status : {"ACTIVE", "FINISHED"}, ready : SUBSET Player,
                started : BOOLEAN, winner : Side \cup {Nil}]

\* What finishMatch does, in order: "pay" a player, "clan" pay a team's clan,
\* "task" emit a player's event.
Effect == [kind : {"pay", "task"}, player : Player] \cup [kind : {"clan"}, side : Side]

Request == [pc : {"idle", "startSave", "publish", "lock", "effects", "finishSave"},
            player : Player \cup {Nil}, seen : MatchRecord \cup {Nil},
            todo : Seq(Effect), winner : Side \cup {Nil}]

Idle == [pc |-> "idle", player |-> Nil, seen |-> Nil, todo |-> <<>>, winner |-> Nil]

TypeOK ==
    /\ match \in MatchRecord \cup {Nil}
    /\ lasting \in BOOLEAN
    /\ lock \in BOOLEAN
    /\ paid \in [Player -> [Side -> Nat]]
    /\ clanPaid \in [Side -> Nat]
    /\ tasks \in [Player -> Nat]
    /\ confirmed \subseteq Player
    /\ published \in Nat
    /\ raced \in BOOLEAN /\ lapsed \in BOOLEAN
    /\ req \in [Slot -> Request]

\* saveActiveMatch stored the match without a lifetime.
Init ==
    /\ match = [status |-> "ACTIVE", ready |-> {}, started |-> FALSE, winner |-> Nil]
    /\ lasting = TRUE
    /\ lock = FALSE
    /\ paid = [p \in Player |-> [w \in Side |-> 0]]
    /\ clanPaid = [t \in Side |-> 0]
    /\ tasks = [p \in Player |-> 0]
    /\ confirmed = {} /\ published = 0
    /\ raced = FALSE /\ lapsed = FALSE
    /\ req = [s \in Slot |-> Idle]
----------------------------------------------------------------------------
At(s, label) == req[s].pc = label

Continue(s, request) == req' = [req EXCEPT ![s] = request]

Return(s) == Continue(s, Idle)

Battles(p) == paid[p]["A"] + paid[p]["B"]

Quiet == \A s \in Slot : At(s, "idle")

\* SET the match; a read of it that is older than the last SET is a race.
Save(seen, value) ==
    /\ match' = value
    /\ raced' = (raced \/ match # seen)
    /\ lapsed' = lapsed

InBound == published < Bound /\ \A p \in Player : Battles(p) < Bound
----------------------------------------------------------------------------
(* startMatch                                                               *)

\* GET the match; refused unless it is active and the caller plays in it.
Playing(p) == match # Nil /\ match.status = "ACTIVE" /\ p \in RealPlayers

startMatch(s, p) ==
    /\ "start" \in Handlers /\ At(s, "idle") /\ InBound
    /\ Playing(p)
    /\ Continue(s, [Idle EXCEPT !.pc = "startSave", !.player = p, !.seen = match])
    /\ UNCHANGED <<match, lasting, lock, paid, clanPaid, tasks, confirmed, published, raced, lapsed>>

AllReady(ready) == RealPlayers \subseteq ready

\* The players ready once p is.
Ready(seen, p) == (seen.ready \cap RealPlayers) \cup {p}

MutStarts(seen, ready) == AllReady(ready)

\* Whether this call starts the battle.
Starts(seen, ready) == AllReady(ready) /\ ~seen.started

\* SET the match as it was read, with the caller's readiness, without a lifetime.
StartSave(s) ==
    LET seen  == req[s].seen
        ready == Ready(seen, req[s].player)
    IN  /\ At(s, "startSave")
        /\ Save(seen, [seen EXCEPT !.ready = ready, !.started = seen.started \/ AllReady(ready)])
        /\ lasting' = TRUE
        /\ IF Starts(seen, ready)
           THEN Continue(s, [req[s] EXCEPT !.pc = "publish"]) /\ confirmed' = confirmed
           ELSE Return(s) /\ confirmed' = confirmed \cup {req[s].player}
        /\ UNCHANGED <<lock, paid, clanPaid, tasks, published>>

\* MATCH_STARTED on the match's topic.
Publish(s) ==
    /\ At(s, "publish")
    /\ published' = published + 1
    /\ confirmed' = confirmed \cup {req[s].player}
    /\ Return(s)
    /\ UNCHANGED <<match, lasting, lock, paid, clanPaid, tasks, raced, lapsed>>
----------------------------------------------------------------------------
(* finishMatch                                                              *)

Each(kind, players) == [i \in DOMAIN players |-> [kind |-> kind, player |-> players[i]]]

MutEffects ==
    Each("pay", TeamPlayers["A"]) \o Each("task", TeamPlayers["A"] \o TeamPlayers["B"])

\* updateLeaderboardsForFinishedMatch, then emitDailyTaskEventsForFinishedMatch.
Effects ==
    LET clan(t) == IF matchType = "CLAN" /\ TeamClan[t] # Nil
                   THEN <<[kind |-> "clan", side |-> t]>> ELSE <<>>
    IN  Each("pay", TeamPlayers["A"]) \o Each("pay", TeamPlayers["B"])
          \o clan("A") \o clan("B")
          \o Each("task", TeamPlayers["A"] \o TeamPlayers["B"])

\* GET the match; a finished match is returned as it is, another caller refused.
finishMatch(s, p, winner) ==
    /\ "finish" \in Handlers /\ At(s, "idle") /\ InBound
    /\ Playing(p)
    /\ Continue(s, [Idle EXCEPT !.pc = "lock", !.player = p, !.seen = match, !.winner = winner])
    /\ UNCHANGED <<match, lasting, lock, history>>

MutFinishLock(s) ==
    /\ At(s, "lock")
    /\ lock' = TRUE
    /\ Continue(s, [req[s] EXCEPT !.pc = "effects", !.todo = Effects])
    /\ UNCHANGED <<match, lasting, history>>

\* SETNX the leaderboard lock; a request that does not get it only reads.
FinishLock(s) ==
    /\ At(s, "lock")
    /\ lock' = TRUE
    /\ IF lock THEN Return(s)
       ELSE Continue(s, [req[s] EXCEPT !.pc = "effects", !.todo = Effects])
    /\ UNCHANGED <<match, lasting, history>>

\* One battle more, won by this side.
Won(battles, winner) == [battles EXCEPT ![winner] = @ + 1]

\* The next $inc or event.
Apply(effect, winner) ==
    /\ paid' = IF effect.kind = "pay" THEN [paid EXCEPT ![effect.player] = Won(@, winner)] ELSE paid
    /\ clanPaid' = IF effect.kind = "clan" THEN [clanPaid EXCEPT ![effect.side] = @ + 1] ELSE clanPaid
    /\ tasks' = IF effect.kind = "task" THEN [tasks EXCEPT ![effect.player] = @ + 1] ELSE tasks
    /\ UNCHANGED <<confirmed, published, raced, lapsed>>

EffectPC(todo) == IF Len(todo) = 1 THEN "finishSave" ELSE "effects"

\* The next leaderboard update or daily-task event.
FinishEffect(s) ==
    LET todo == req[s].todo
    IN  /\ At(s, "effects") /\ todo # <<>>
        /\ Apply(Head(todo), req[s].winner)
        /\ Continue(s, [req[s] EXCEPT !.todo = Tail(todo),
                          !.pc = EffectPC(todo)])
        /\ UNCHANGED <<match, lasting, lock>>

\* A leaderboard update fails: the handler returns the error, the lock stays.
\* An event that fails is skipped.
FinishFails(s) ==
    LET todo == req[s].todo
    IN  /\ Failures /\ At(s, "effects") /\ todo # <<>>
        /\ IF Head(todo).kind = "task"
           THEN Continue(s, [req[s] EXCEPT !.todo = Tail(todo),
                               !.pc = EffectPC(todo)])
           ELSE Return(s)
        /\ UNCHANGED <<match, lasting, lock, history>>

\* SET the match as it was read, with the result, for a limited time.
FinishSave(s) ==
    /\ At(s, "finishSave")
    /\ Save(req[s].seen, [req[s].seen EXCEPT !.status = "FINISHED", !.winner = req[s].winner])
    /\ lasting' = FALSE
    /\ Return(s)
    /\ UNCHANGED <<lock, events>>
----------------------------------------------------------------------------
(* Lifetimes and failures                                                   *)

ExpireMatch ==
    /\ match # Nil /\ ~lasting
    /\ match' = Nil
    /\ UNCHANGED <<lasting, lock, history, req>>

\* The lock lives for ten minutes, longer than any request that met it.
ExpireLock ==
    /\ Expires /\ lock /\ Quiet
    /\ lock' = FALSE
    /\ lapsed' = (lapsed \/ (match # Nil /\ match.status = "ACTIVE"))
    /\ UNCHANGED <<match, lasting, events, raced, req>>

Crash(s) ==
    /\ Crashes /\ ~At(s, "idle")
    /\ Return(s)
    /\ UNCHANGED <<match, lasting, lock, history>>
----------------------------------------------------------------------------
Call(s) ==
    \E p \in Player : startMatch(s, p) \/ \E w \in Side : finishMatch(s, p, w)

Step(s) ==
    \/ StartSave(s) \/ Publish(s)
    \/ FinishLock(s) \/ FinishEffect(s) \/ FinishFails(s) \/ FinishSave(s)

Next ==
    \/ \E s \in Slot : Call(s) \/ Step(s) \/ Crash(s)
    \/ ExpireMatch \/ ExpireLock

Spec == Init /\ [][Next]_vars
----------------------------------------------------------------------------
(* Properties                                                               *)

\* However many finish calls race, fail or stop half-way, a player, a clan or a
\* daily task is paid at most once for the match, as long as the lock of
\* finishMatch outlives the call that fails.
PaidOnce ==
    ~lapsed =>
        /\ \A p \in Player : Battles(p) <= 1 /\ tasks[p] <= 1
        /\ \A t \in Side : clanPaid[t] <= 1

\* A stored result was paid in full: every real player, both clans of a clan
\* match, and in favour of the stored winner (finishMatch stores it last).
FinishedIsPaid ==
    match # Nil /\ match.status = "FINISHED" =>
        /\ \A p \in RealPlayers : paid[p][match.winner] > 0
        /\ matchType = "CLAN" => \A t \in Side : TeamClan[t] # Nil => clanPaid[t] > 0

\* Calls that do not store over each other's results lose no readiness: the
\* match is started once every player's startMatch returned, and published once.
UnracedStarts ==
    ~raced =>
        /\ published <= 1
        /\ RealPlayers \subseteq confirmed /\ match # Nil => match.started
============================================================================
