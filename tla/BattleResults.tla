---------------------------- MODULE BattleResults ----------------------------
(***************************************************************************)
(* src/gameData: the results the players of one battle submit, the final     *)
(* call for results that disagree, and the reward.  A request reads the      *)
(* battle and saves it later (Mongoose pushes the new result and writes the  *)
(* fields whose value it changed), so that a save in between is not seen.    *)
(***************************************************************************)
EXTENDS Integers, Sequences, FiniteSets

CONSTANTS
    Team1, Team2,   \* the players of each team
    Client,         \* requests in flight
    Timer,          \* final calls being resolved
    Nil,            \* no player, and a field that is not written
    Failures,       \* whether saves and reward transactions may fail
    MaxFaults       \* bound: how often the server stops or the save of a result fails

ASSUME TeamsAssumption == Team1 \cap Team2 = {}
ASSUME NilAssumption ==
    Nil \notin Team1 \cup Team2 \cup {1, 2} /\ Nil \notin {"NONE", "OPEN", "PROCESSING", "COMPLETED"}
ASSUME SlotsAssumption == Client \cap Timer = {}
ASSUME FaultsAssumption == MaxFaults \in Nat

VARIABLES
    status, receivedResults, finalWinner, isRewarded,   \* the battle document
    timers,         \* final calls: the player whose result caused each, Nil if it was not saved
    req,            \* the request or final call each slot runs
    payouts,        \* history: the winner of each reward transaction
    outdated,       \* history: slots whose copy of the battle is not the newest
    stale,          \* history: an outdated copy was saved
    stops,          \* history: how often the server stopped
    failedSaves     \* history: how often the save of a result failed

battle == <<status, receivedResults, finalWinner, isRewarded>>

faults == <<stops, failedSaves>>

vars == <<battle, timers, req, payouts, outdated, stale, faults>>

Player == Team1 \cup Team2

Slot == Client \cup Timer

BattleStatus == {"NONE", "OPEN", "PROCESSING", "COMPLETED"}

Result == [playerId : Player, winnerTeam : {1, 2}]

\* status, winner: what save writes.
Request == [pc : {"idle", "save", "reward"}, playerId : Player \cup {Nil}, claim : {1, 2, Nil},
            status : BattleStatus \cup {Nil}, winner : {1, 2, Nil}]

Idle == [pc |-> "idle", playerId |-> Nil, claim |-> Nil, status |-> Nil, winner |-> Nil]

TypeOK ==
    /\ status \in BattleStatus
    /\ receivedResults \in Seq(Result)
    /\ finalWinner \in {1, 2, Nil}
    /\ isRewarded \in BOOLEAN
    /\ timers \subseteq Player \cup {Nil}
    /\ req \in [Slot -> Request]
    /\ payouts \in Seq({1, 2})
    /\ outdated \subseteq Slot
    /\ stale \in BOOLEAN
    /\ stops \in 0 .. MaxFaults /\ failedSaves \in 0 .. MaxFaults

Init ==
    /\ status = "NONE"
    /\ receivedResults = <<>>
    /\ finalWinner = Nil
    /\ isRewarded = FALSE
    /\ timers = {}
    /\ req = [s \in Slot |-> Idle]
    /\ payouts = <<>>
    /\ outdated = {}
    /\ stale = FALSE
    /\ stops = 0 /\ failedSaves = 0
----------------------------------------------------------------------------
At(s, label) == req[s].pc = label

Finish(s) == req' = [req EXCEPT ![s] = Idle]

MutHasSubmitted(p) == FALSE

HasSubmitted(p) == \E i \in 1 .. Len(receivedResults) : receivedResults[i].playerId = p

\* Assigning the value a field has marks nothing to be written.
Written(old, new) == IF old = new THEN Nil ELSE new

VotesFor(results, team) == Cardinality({i \in 1 .. Len(results) : results[i].winnerTeam = team})

registerBattle ==
    /\ status = "NONE"
    /\ status' = "OPEN"
    /\ UNCHANGED <<receivedResults, finalWinner, isRewarded, timers, req, payouts, outdated, stale, faults>>

\* A result for a completed battle: its reward is tried again.
Retry(s) ==
    /\ At(s, "idle") /\ status = "COMPLETED"
    /\ req' = [req EXCEPT ![s].pc = "reward"]
    /\ UNCHANGED <<battle, timers, payouts, outdated, stale, faults>>

MutStartFinalCallTimer(p) == timers' = IF status = "PROCESSING" THEN timers \cup {p} ELSE timers

\* The final call is started before the battle is saved.
startFinalCallTimer(p) == timers' = timers \cup {p}

\* A player's result, refused if one of theirs is there: with two or more results
\* the battle is completed if all agree, otherwise it waits for the final call.
handleBattleResult(s, p, w) ==
    LET results == Append(receivedResults, [playerId |-> p, winnerTeam |-> w])
        final   == Len(results) >= 2 /\ VotesFor(results, w) = Len(results)
        clash   == Len(results) >= 2 /\ ~final
    IN  /\ At(s, "idle") /\ status \in {"OPEN", "PROCESSING"} /\ ~HasSubmitted(p)
        /\ req' = [req EXCEPT ![s] =
              [pc |-> "save", playerId |-> p, claim |-> w,
               status |-> Written(status, IF final THEN "COMPLETED"
                                          ELSE IF clash THEN "PROCESSING" ELSE "OPEN"),
               winner |-> IF final THEN Written(finalWinner, w) ELSE Nil]]
        /\ outdated' = outdated \ {s}
        /\ IF clash THEN startFinalCallTimer(p) ELSE UNCHANGED timers
        /\ UNCHANGED <<battle, payouts, stale, faults>>

\* battle.save(); a battle completed here is rewarded next.
save(s) ==
    LET r == req[s]
    IN  /\ At(s, "save")
        /\ receivedResults' = IF r.playerId = Nil THEN receivedResults
                              ELSE Append(receivedResults, [playerId |-> r.playerId, winnerTeam |-> r.claim])
        /\ status' = IF r.status = Nil THEN status ELSE r.status
        /\ finalWinner' = IF r.winner = Nil THEN finalWinner ELSE r.winner
        /\ req' = [req EXCEPT ![s] = IF r.status = "COMPLETED" THEN [Idle EXCEPT !.pc = "reward"] ELSE Idle]
        /\ stale' = (stale \/ s \in outdated)
        /\ outdated' = {t \in Slot : At(t, "save")} \ {s}
        /\ UNCHANGED <<isRewarded, timers, payouts, faults>>

\* The save of a result fails, which ends its request; a final call it started stays.
saveFails(s) ==
    LET p == req[s].playerId
        others == HasSubmitted(p) \/ \E t \in Client \ {s} : At(t, "save") /\ req[t].playerId = p
    IN  /\ At(s, "save") /\ Failures /\ stops + failedSaves < MaxFaults
        /\ failedSaves' = failedSaves + 1
        /\ timers' = IF p \in timers THEN {Nil} \cup {q \in timers : q # p \/ others} ELSE timers
        /\ Finish(s)
        /\ outdated' = outdated \ {s}
        /\ UNCHANGED <<battle, payouts, stale, stops>>

MutReward(s) ==
    /\ At(s, "reward")
    /\ IF status = "COMPLETED"
       THEN isRewarded' = TRUE /\ payouts' = Append(payouts, finalWinner)
       ELSE UNCHANGED <<isRewarded, payouts>>
    /\ Finish(s)
    /\ UNCHANGED <<status, receivedResults, finalWinner, timers, outdated, stale, faults>>

\* One transaction claims the reward and applies it to all players, or neither.
rewardCompletedBattle(s) ==
    /\ At(s, "reward")
    /\ \/ /\ status = "COMPLETED" /\ finalWinner # Nil /\ ~isRewarded
          /\ isRewarded' = TRUE
          /\ payouts' = Append(payouts, finalWinner)
       \/ /\ isRewarded \/ status # "COMPLETED" \/ Failures
          /\ UNCHANGED <<isRewarded, payouts>>
    /\ Finish(s)
    /\ UNCHANGED <<status, receivedResults, finalWinner, timers, outdated, stale, faults>>

\* Two minutes are more than a request takes: the one that started the timer is over.
Fires(p) == p \in timers /\ \A s \in Client : ~(At(s, "save") /\ req[s].playerId = p)

\* Team 1 wins a tie.
Majority(results) == IF VotesFor(results, 2) > VotesFor(results, 1) THEN 2 ELSE 1

\* The final call, two minutes later: the majority decides.
resolveConflict(t, p) ==
    /\ At(t, "idle") /\ Fires(p)
    /\ timers' = timers \ {p}
    /\ req' = [req EXCEPT ![t] =
                 IF status = "COMPLETED" THEN [@ EXCEPT !.pc = "reward"]
                 ELSE [@ EXCEPT !.pc = "save", !.status = "COMPLETED",
                                !.winner = Written(finalWinner, Majority(receivedResults))]]
    /\ outdated' = outdated \ {t}
    /\ UNCHANGED <<battle, payouts, stale, faults>>

\* The server stops: requests, and the timers in its memory, are gone.
Stop ==
    /\ stops + failedSaves < MaxFaults
    /\ stops' = stops + 1
    /\ req' = [s \in Slot |-> Idle]
    /\ timers' = {}
    /\ outdated' = {}
    /\ UNCHANGED <<battle, payouts, stale, failedSaves>>
----------------------------------------------------------------------------
Step(s) == save(s) \/ rewardCompletedBattle(s)

Next ==
    \/ registerBattle
    \/ \E s \in Client : Retry(s)
    \/ \E s \in Client, p \in Player, w \in {1, 2} : handleBattleResult(s, p, w)
    \/ \E s \in Slot : Step(s)
    \/ \E s \in Client : saveFails(s)
    \/ \E t \in Timer, p \in Player \cup {Nil} : resolveConflict(t, p)
    \/ Stop

Spec == Init /\ [][Next]_vars

\* Running code goes on and timers fire.
Fairness ==
    /\ \A s \in Slot : WF_vars(Step(s))
    /\ \A t \in Timer : WF_vars(\E p \in Player \cup {Nil} : resolveConflict(t, p))

FairSpec == Spec /\ Fairness
----------------------------------------------------------------------------
(* Properties                                                               *)

\* However many requests, retries and final calls complete the battle, at once or
\* after each other, its players are rewarded once (isRewarded).
RewardedOnce == Len(payouts) <= 1 /\ (isRewarded <=> payouts # <<>>)

Agreed == Len(receivedResults) >= 2
            /\ VotesFor(receivedResults, receivedResults[1].winnerTeam) = Len(receivedResults)

\* As long as no copy older than the battle was saved: two or more results, each
\* another player's, complete the battle if they agree; a completed one stays with
\* the winner of most results, which is the one rewarded (handleBattleResult).
FollowsResults ==
    ~stale =>
        /\ \A i, j \in 1 .. Len(receivedResults) :
              receivedResults[i].playerId = receivedResults[j].playerId => i = j
        /\ Agreed => status = "COMPLETED"
        /\ status = "COMPLETED" => 2 * VotesFor(receivedResults, finalWinner) >= Len(receivedResults)
        /\ \A i \in 1 .. Len(payouts) : status = "COMPLETED" /\ payouts[i] = finalWinner

\* Results that disagree are settled in the end, also when requests and final calls
\* overlap, unless the server stopped: timers are not kept (startFinalCallTimer).
ConflictSettled == (status = "PROCESSING") ~> (status = "COMPLETED" \/ stops > 0)
============================================================================
