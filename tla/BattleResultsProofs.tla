------------------------ MODULE BattleResultsProofs ------------------------
(***************************************************************************)
(* Rewards follow the results of a battle, for teams of any size and any    *)
(* number of requests and final calls in flight.                            *)
(***************************************************************************)
EXTENDS BattleResults, FiniteSetTheorems, TLAPS

\* A slot that is idle remembers nothing; a claim comes with its player; nothing is
\* saved that would make the battle unknown again.
RequestsFit ==
    \A s \in Slot :
        /\ At(s, "idle") => req[s] = Idle
        /\ req[s].playerId = Nil <=> req[s].claim = Nil
        /\ req[s].status # "NONE"

\* Before the battle is registered nothing is in flight that could change it.
Unregistered == status = "NONE" => timers = {} /\ \A s \in Slot : ~At(s, "save")

\* The results with the one that slot s brings.
Extended(s) ==
    Append(receivedResults, [playerId |-> req[s].playerId, winnerTeam |-> req[s].claim])

Unanimous(results, w) == Len(results) >= 2 /\ VotesFor(results, w) = Len(results)

\* What slot s is about to save was computed from the battle as it is now: for a
\* player's result, and for the final call.
ResultIsCurrent(s) ==
    /\ req[s].playerId # Nil /\ ~HasSubmitted(req[s].playerId)
    /\ IF Unanimous(Extended(s), req[s].claim)
       THEN req[s].status = "COMPLETED" /\ req[s].winner = Written(finalWinner, req[s].claim)
       ELSE req[s].status # "COMPLETED" /\ req[s].winner = Nil

CallIsCurrent(s) ==
    /\ req[s].playerId = Nil
    /\ req[s].status = "COMPLETED"
    /\ req[s].winner = Written(finalWinner, Majority(receivedResults))

CopiesAreCurrent ==
    \A s \in Slot \ outdated : At(s, "save") =>
        /\ status \in {"OPEN", "PROCESSING"}
        /\ ResultIsCurrent(s) \/ CallIsCurrent(s)

ResultsInv ==
    /\ TypeOK /\ RequestsFit /\ Unregistered
    /\ RewardedOnce
    /\ FollowsResults
    /\ ~stale => CopiesAreCurrent
----------------------------------------------------------------------------
(* The requests                                                             *)

LEMMA IdleIsRequest == Idle \in Request
  BY DEF Idle, Request

\* Every step keeps the types.
LEMMA StepTypeOK ==
    ASSUME TypeOK, RequestsFit, [Next]_vars
    PROVE  TypeOK'
  <1> USE NilAssumption DEF faults
  <1>1. CASE registerBattle
    BY <1>1 DEF registerBattle, TypeOK, BattleStatus
  <1>2. ASSUME NEW s \in Client, Retry(s) PROVE TypeOK'
    <2>1. req'[s] \in Request
      BY <1>2 DEF Retry, TypeOK, Request, Slot
    <2> QED BY <1>2, <2>1 DEF Retry, TypeOK, battle, Slot
  <1>3. ASSUME NEW s \in Client, NEW p \in Player, NEW w \in {1, 2}, handleBattleResult(s, p, w)
        PROVE  TypeOK'
    <2>1. timers' \subseteq Player \cup {Nil}
      BY <1>3 DEF handleBattleResult, startFinalCallTimer, TypeOK
    <2>2. req' \in [Slot -> Request]
      BY <1>3 DEF handleBattleResult, TypeOK, Request, Slot, Written, BattleStatus
    <2> QED BY <1>3, <2>1, <2>2 DEF handleBattleResult, TypeOK, battle
  <1>4. ASSUME NEW s \in Slot, save(s) PROVE TypeOK'
    <2>1. req[s] \in Request
      BY DEF TypeOK
    <2>2. receivedResults' \in Seq(Result)
      <3>1. CASE req[s].playerId = Nil
        BY <1>4, <3>1 DEF save, TypeOK
      <3>2. CASE req[s].playerId # Nil
        <4>1. req[s].playerId \in Player /\ req[s].claim \in {1, 2}
          BY <2>1, <3>2 DEF RequestsFit, Request
        <4>2. [playerId |-> req[s].playerId, winnerTeam |-> req[s].claim] \in Result
          BY <4>1 DEF Result
        <4> QED BY <1>4, <3>2, <4>2 DEF save, TypeOK
      <3> QED BY <3>1, <3>2
    <2>3. status' \in BattleStatus /\ finalWinner' \in {1, 2, Nil}
      BY <1>4, <2>1 DEF save, TypeOK, Request
    <2>4. req' \in [Slot -> Request]
      BY <1>4, IdleIsRequest DEF save, TypeOK, Request, Idle
    <2> QED BY <1>4, <2>2, <2>3, <2>4 DEF save, TypeOK
  <1>5. ASSUME NEW s \in Slot, rewardCompletedBattle(s) PROVE TypeOK'
    <2>1. isRewarded' \in BOOLEAN /\ payouts' \in Seq({1, 2})
      <3>1. CASE payouts' = payouts /\ isRewarded' = isRewarded
        BY <3>1 DEF TypeOK
      <3>2. CASE isRewarded' = TRUE /\ payouts' = Append(payouts, finalWinner) /\ finalWinner # Nil
        BY <3>2 DEF TypeOK
      <3> QED BY <1>5, <3>1, <3>2 DEF rewardCompletedBattle
    <2>2. req' \in [Slot -> Request]
      BY <1>5, IdleIsRequest DEF rewardCompletedBattle, Finish, TypeOK
    <2> QED BY <1>5, <2>1, <2>2 DEF rewardCompletedBattle, TypeOK
  <1>6. ASSUME NEW t \in Timer, NEW p \in Player \cup {Nil}, resolveConflict(t, p) PROVE TypeOK'
    <2>1. t \in Slot /\ Majority(receivedResults) \in {1, 2}
      BY DEF Slot, Majority
    <2>2. req' \in [Slot -> Request]
      <3>1. req[t] \in Request
        BY <2>1 DEF TypeOK
      <3>2. Written(finalWinner, Majority(receivedResults)) \in {1, 2, Nil}
        BY <2>1 DEF Written
      <3>3. /\ [req[t] EXCEPT !.pc = "reward"] \in Request
            /\ [req[t] EXCEPT !.pc = "save", !.status = "COMPLETED",
                      !.winner = Written(finalWinner, Majority(receivedResults))] \in Request
        BY <3>1, <3>2 DEF Request, BattleStatus
      <3> QED BY <1>6, <2>1, <3>3 DEF resolveConflict, TypeOK
    <2> QED BY <1>6, <2>2 DEF resolveConflict, TypeOK, battle
  <1>7. CASE Stop
    BY <1>7, IdleIsRequest, FaultsAssumption DEF Stop, TypeOK, battle
  <1>8. ASSUME NEW s \in Client, saveFails(s) PROVE TypeOK'
    <2>1. timers' \subseteq Player \cup {Nil}
      BY <1>8 DEF saveFails, TypeOK
    <2>2. req' \in [Slot -> Request]
      BY <1>8, IdleIsRequest DEF saveFails, Finish, TypeOK
    <2>3. failedSaves' \in 0 .. MaxFaults
      BY <1>8, FaultsAssumption DEF saveFails, TypeOK
    <2> QED BY <1>8, <2>1, <2>2, <2>3 DEF saveFails, TypeOK, battle
  <1>9. CASE UNCHANGED vars
    BY <1>9 DEF vars, battle, faults, TypeOK
  <1> QED BY <1>1, <1>2, <1>3, <1>4, <1>5, <1>6, <1>7, <1>8, <1>9 DEF Next, Step

\* Every step keeps what requests remember in order.
LEMMA StepRequestsFit ==
    ASSUME TypeOK, RequestsFit, [Next]_vars
    PROVE  RequestsFit'
  <1> USE NilAssumption DEF RequestsFit, At, Idle
  <1>1. CASE registerBattle
    BY <1>1 DEF registerBattle
  <1>2. ASSUME NEW s \in Client, Retry(s) PROVE RequestsFit'
    BY <1>2 DEF Retry, TypeOK, Request, Slot
  <1>3. ASSUME NEW s \in Client, NEW p \in Player, NEW w \in {1, 2}, handleBattleResult(s, p, w)
        PROVE  RequestsFit'
    BY <1>3 DEF handleBattleResult, TypeOK, Slot, Written, Player
  <1>4. ASSUME NEW s \in Slot, save(s) PROVE RequestsFit'
    BY <1>4 DEF save, TypeOK
  <1>5. ASSUME NEW s \in Slot, rewardCompletedBattle(s) PROVE RequestsFit'
    BY <1>5 DEF rewardCompletedBattle, Finish, TypeOK
  <1>6. ASSUME NEW t \in Timer, NEW p \in Player \cup {Nil}, resolveConflict(t, p) PROVE RequestsFit'
    BY <1>6 DEF resolveConflict, TypeOK, Request, Slot
  <1>7. CASE Stop
    BY <1>7 DEF Stop
  <1>8. ASSUME NEW s \in Client, saveFails(s) PROVE RequestsFit'
    BY <1>8 DEF saveFails, Finish, TypeOK
  <1>9. CASE UNCHANGED vars
    BY <1>9 DEF vars, battle, faults
  <1> QED BY <1>1, <1>2, <1>3, <1>4, <1>5, <1>6, <1>7, <1>8, <1>9 DEF Next, Step

\* The battle becomes known once, and only then can its results come.
LEMMA StepUnregistered ==
    ASSUME TypeOK, RequestsFit, Unregistered, [Next]_vars
    PROVE  Unregistered'
  <1> USE NilAssumption DEF Unregistered, At
  <1>1. CASE registerBattle
    BY <1>1 DEF registerBattle
  <1>2. ASSUME NEW s \in Client, Retry(s) PROVE Unregistered'
    BY <1>2 DEF Retry, battle
  <1>3. ASSUME NEW s \in Client, NEW p \in Player, NEW w \in {1, 2}, handleBattleResult(s, p, w)
        PROVE  Unregistered'
    BY <1>3 DEF handleBattleResult, battle
  <1>4. ASSUME NEW s \in Slot, save(s) PROVE Unregistered'
    BY <1>4 DEF save, RequestsFit
  <1>5. ASSUME NEW s \in Slot, rewardCompletedBattle(s) PROVE Unregistered'
    BY <1>5 DEF rewardCompletedBattle, Finish, TypeOK, Idle
  <1>6. ASSUME NEW t \in Timer, NEW p \in Player \cup {Nil}, resolveConflict(t, p) PROVE Unregistered'
    BY <1>6 DEF resolveConflict, Fires, battle
  <1>7. CASE Stop
    BY <1>7 DEF Stop, battle, Idle
  <1>8. ASSUME NEW s \in Client, saveFails(s) PROVE Unregistered'
    BY <1>8 DEF saveFails, battle, Slot
  <1>9. CASE UNCHANGED vars
    BY <1>9 DEF vars, battle, faults
  <1> QED BY <1>1, <1>2, <1>3, <1>4, <1>5, <1>6, <1>7, <1>8, <1>9 DEF Next, Step
----------------------------------------------------------------------------
(* Counting results                                                         *)

Holding(results, w) == {i \in 1 .. Len(results) : results[i].winnerTeam = w}

LEMMA Counted ==
    ASSUME NEW results \in Seq(Result), NEW w
    PROVE  /\ IsFiniteSet(1 .. Len(results)) /\ Cardinality(1 .. Len(results)) = Len(results)
           /\ VotesFor(results, w) = Cardinality(Holding(results, w))
           /\ VotesFor(results, w) \in 0 .. Len(results)
           /\ VotesFor(results, w) = Len(results) => Holding(results, w) = 1 .. Len(results)
  <1>1. Len(results) \in Nat /\ Holding(results, w) \subseteq 1 .. Len(results)
    BY DEF Holding
  <1>2. IsFiniteSet(1 .. Len(results)) /\ Cardinality(1 .. Len(results)) = Len(results)
    <2>1. 1 \in Int /\ Len(results) \in Int
      BY <1>1
    <2>2. /\ IsFiniteSet(1 .. Len(results))
          /\ Cardinality(1 .. Len(results)) = IF 1 > Len(results) THEN 0 ELSE Len(results) - 1 + 1
      BY <2>1, FS_Interval
    <2> QED BY <1>1, <2>2
  <1>3. VotesFor(results, w) = Cardinality(Holding(results, w))
    BY DEF VotesFor, Holding
  <1>4. /\ IsFiniteSet(Holding(results, w))
        /\ Cardinality(Holding(results, w)) <= Len(results)
        /\ Cardinality(Holding(results, w)) = Len(results) => Holding(results, w) = 1 .. Len(results)
    BY <1>1, <1>2, FS_Subset
  <1>5. Cardinality(Holding(results, w)) \in Nat
    BY <1>4, FS_CardinalityType
  <1> QED BY <1>1, <1>2, <1>3, <1>4, <1>5

\* The majority has at least half of the results.
LEMMA MajorityHasHalf ==
    ASSUME NEW results \in Seq(Result)
    PROVE  2 * VotesFor(results, Majority(results)) >= Len(results)
  <1> DEFINE S == 1 .. Len(results)
  <1>1. Holding(results, 2) = S \ Holding(results, 1) /\ S \cap Holding(results, 1) = Holding(results, 1)
    <2>1. \A i \in S : results[i] \in Result
      OBVIOUS
    <2>2. \A i \in S : results[i].winnerTeam \in {1, 2}
      BY <2>1 DEF Result
    <2> QED BY <2>2 DEF Holding
  <1>2. VotesFor(results, 2) = Len(results) - VotesFor(results, 1)
    <2>1. IsFiniteSet(S) /\ Cardinality(S) = Len(results)
      BY Counted
    <2>2. Cardinality(S \ Holding(results, 1)) = Cardinality(S) - Cardinality(S \cap Holding(results, 1))
      BY <2>1, FS_Difference
    <2> QED BY <1>1, <2>1, <2>2, Counted
  <1>3. Len(results) \in Nat /\ VotesFor(results, 1) \in 0 .. Len(results)
    BY Counted
  <1> QED BY <1>2, <1>3 DEF Majority

\* Results that agree agree with the last one.
LEMMA AgreedWithLast ==
    ASSUME NEW results \in Seq(Result), NEW p \in Player, NEW w \in {1, 2},
           NEW longer, longer = Append(results, [playerId |-> p, winnerTeam |-> w]),
           Len(longer) >= 2, VotesFor(longer, longer[1].winnerTeam) = Len(longer)
    PROVE  Unanimous(longer, w)
  <1>1. longer \in Seq(Result) /\ Len(longer) \in Nat /\ longer[Len(longer)].winnerTeam = w
    BY DEF Result
  <1>2. Holding(longer, longer[1].winnerTeam) = 1 .. Len(longer)
    BY <1>1, Counted
  <1>3. Len(longer) \in 1 .. Len(longer)
    BY <1>1
  <1>4. longer[Len(longer)].winnerTeam = longer[1].winnerTeam
    BY <1>2, <1>3 DEF Holding
  <1> QED BY <1>1, <1>4 DEF Unanimous
----------------------------------------------------------------------------
(* The battle                                                               *)

\* The players whose results were saved differ.
EachOnce(results) == \A i, j \in 1 .. Len(results) :
    results[i].playerId = results[j].playerId => i = j

LEMMA OnceMore ==
    ASSUME NEW results \in Seq(Result), NEW r \in Result, EachOnce(results),
           ~\E i \in 1 .. Len(results) : results[i].playerId = r.playerId
    PROVE  EachOnce(Append(results, r))
  <1>1. Len(Append(results, r)) = Len(results) + 1 /\ Len(results) \in Nat
    OBVIOUS
  <1>2. \A i \in 1 .. Len(results) + 1 :
           Append(results, r)[i] = IF i <= Len(results) THEN results[i] ELSE r
    OBVIOUS
  <1> QED BY <1>1, <1>2 DEF EachOnce

\* A reward is only given to a battle that has none.
LEMMA StepRewardedOnce ==
    ASSUME TypeOK, RewardedOnce, [Next]_vars
    PROVE  RewardedOnce'
  <1> USE DEF RewardedOnce
  <1>1. ASSUME NEW s \in Slot, rewardCompletedBattle(s) PROVE RewardedOnce'
    <2>1. CASE isRewarded' = isRewarded /\ payouts' = payouts
      BY <2>1
    <2>2. CASE ~isRewarded /\ isRewarded' = TRUE /\ payouts' = Append(payouts, finalWinner)
      <3>1. payouts = <<>> /\ payouts \in Seq({1, 2, Nil}) /\ finalWinner \in {1, 2, Nil}
        BY <2>2 DEF TypeOK
      <3>2. Len(payouts') = 1 /\ payouts' # <<>>
        BY <2>2, <3>1
      <3> QED BY <2>2, <3>2
    <2> QED BY <1>1, <2>1, <2>2 DEF rewardCompletedBattle
  <1>2. CASE UNCHANGED <<isRewarded, payouts>>
    BY <1>2
  <1> QED
    BY <1>1, <1>2 DEF Next, Step, registerBattle, Retry, handleBattleResult, save, saveFails,
                      resolveConflict, Stop, battle, faults, vars

\* What a request computes from the battle is current until another one saves.
LEMMA StepCopiesAreCurrent ==
    ASSUME ResultsInv, ~stale', [Next]_vars
    PROVE  CopiesAreCurrent'
  <1> USE NilAssumption
  <1> DEFINE Current(s) == At(s, "save") =>
                 /\ status \in {"OPEN", "PROCESSING"}
                 /\ ResultIsCurrent(s) \/ CallIsCurrent(s)
  <1>1. ~stale
    BY DEF Next, Step, registerBattle, Retry, handleBattleResult, save, rewardCompletedBattle,
           saveFails, resolveConflict, Stop, battle, faults, vars
  <1>2. TypeOK /\ RequestsFit /\ Unregistered /\ CopiesAreCurrent
    BY <1>1 DEF ResultsInv
  <1>3. ASSUME UNCHANGED <<status, receivedResults, finalWinner>>,
               NEW t \in Slot, t \notin outdated, req'[t] = req[t]
        PROVE  Current(t)'
    BY <1>2, <1>3 DEF CopiesAreCurrent, At, ResultIsCurrent, CallIsCurrent, HasSubmitted, Unanimous,
                      Extended, Written, VotesFor, Majority
  <1>4. CASE registerBattle
    BY <1>2, <1>4 DEF registerBattle, Unregistered, CopiesAreCurrent, At
  <1>5. ASSUME NEW s \in Client, Retry(s) PROVE CopiesAreCurrent'
    <2>1. ASSUME NEW t \in Slot \ outdated' PROVE Current(t)'
      <3>1. CASE t = s
        BY <1>2, <1>5, <3>1 DEF Retry, At, TypeOK
      <3>2. CASE t # s
        BY <1>2, <1>3, <1>5, <3>2 DEF Retry, battle, TypeOK
      <3> QED BY <3>1, <3>2
    <2> QED BY <2>1 DEF CopiesAreCurrent
  <1>6. ASSUME NEW s \in Client, NEW p \in Player, NEW w \in {1, 2}, handleBattleResult(s, p, w)
        PROVE  CopiesAreCurrent'
    <2>1. ASSUME NEW t \in Slot \ outdated' PROVE Current(t)'
      <3>1. CASE t = s
        <4> DEFINE results == Append(receivedResults, [playerId |-> p, winnerTeam |-> w])
                   final == Len(results) >= 2 /\ VotesFor(results, w) = Len(results)
        <4>1. /\ status \in {"OPEN", "PROCESSING"} /\ ~HasSubmitted(p)
              /\ UNCHANGED <<status, receivedResults, finalWinner>>
              /\ req'[s].playerId = p /\ req'[s].claim = w
              /\ final => /\ req'[s].status = Written(status, "COMPLETED")
                          /\ req'[s].winner = Written(finalWinner, w)
              /\ ~final => req'[s].status # "COMPLETED" /\ req'[s].winner = Nil
          BY <1>2, <1>6 DEF handleBattleResult, TypeOK, battle, Slot, Written
        <4>2. HasSubmitted(p)' <=> HasSubmitted(p)
          BY <4>1 DEF HasSubmitted
        <4>3. Extended(s)' = results
          BY <4>1 DEF Extended
        <4>4. Unanimous(Extended(s)', req'[s].claim) <=> final
          BY <4>1, <4>3 DEF Unanimous
        <4>5. Written(status, "COMPLETED") = "COMPLETED"
          BY <4>1 DEF Written
        <4>6. ResultIsCurrent(s)'
          BY <4>1, <4>2, <4>3, <4>4, <4>5 DEF ResultIsCurrent, Unanimous, Extended, Written, VotesFor,
                                         HasSubmitted, Player
        <4> QED BY <3>1, <4>1, <4>6
      <3>2. CASE t # s
        BY <1>2, <1>3, <1>6, <3>2 DEF handleBattleResult, battle, TypeOK
      <3> QED BY <3>1, <3>2
    <2> QED BY <2>1 DEF CopiesAreCurrent
  <1>7. ASSUME NEW s \in Slot, save(s) PROVE CopiesAreCurrent'
    <2>1. req'[s].pc # "save" /\ \A t \in Slot \ {s} : req'[t] = req[t]
      BY <1>2, <1>7 DEF save, TypeOK, Idle
    <2>2. outdated' = {t \in Slot : At(t, "save")} \ {s}
      BY <1>7 DEF save
    <2> QED BY <2>1, <2>2 DEF CopiesAreCurrent, At
  <1>8. ASSUME NEW s \in Slot, rewardCompletedBattle(s) PROVE CopiesAreCurrent'
    <2>1. ASSUME NEW t \in Slot \ outdated' PROVE Current(t)'
      <3>1. CASE t = s
        BY <1>2, <1>8, <3>1 DEF rewardCompletedBattle, Finish, At, TypeOK, Idle
      <3>2. CASE t # s
        BY <1>2, <1>3, <1>8, <3>2 DEF rewardCompletedBattle, Finish, TypeOK
      <3> QED BY <3>1, <3>2
    <2> QED BY <2>1 DEF CopiesAreCurrent
  <1>9. ASSUME NEW s \in Timer, NEW p \in Player \cup {Nil}, resolveConflict(s, p) PROVE CopiesAreCurrent'
    <2>1. ASSUME NEW t \in Slot \ outdated' PROVE Current(t)'
      <3>1. CASE t = s
        <4>1. UNCHANGED <<status, receivedResults, finalWinner>>
          BY <1>9 DEF resolveConflict, battle
        <4>2. CASE status = "COMPLETED"
          BY <1>2, <1>9, <3>1, <4>2 DEF resolveConflict, At, TypeOK, Slot
        <4>3. CASE status # "COMPLETED"
          <5>1. status \in {"OPEN", "PROCESSING"}
            BY <1>2, <1>9, <4>3 DEF resolveConflict, Fires, Unregistered, TypeOK, BattleStatus
          <5>2. /\ req'[s].playerId = Nil /\ req'[s].status = "COMPLETED"
                /\ req'[s].winner = Written(finalWinner, Majority(receivedResults))
            BY <1>2, <1>9, <4>3 DEF resolveConflict, TypeOK, Request, RequestsFit, Slot, At, Idle
          <5>3. CallIsCurrent(s)'
            BY <4>1, <5>2 DEF CallIsCurrent, Written, Majority, VotesFor
          <5> QED BY <3>1, <4>1, <5>1, <5>3
        <4> QED BY <4>2, <4>3
      <3>2. CASE t # s
        BY <1>2, <1>3, <1>9, <3>2 DEF resolveConflict, battle, TypeOK
      <3> QED BY <3>1, <3>2
    <2> QED BY <2>1 DEF CopiesAreCurrent
  <1>10. CASE Stop
    BY <1>10 DEF Stop, CopiesAreCurrent, At, Idle
  <1>11. CASE UNCHANGED vars
    <2>1. ASSUME NEW t \in Slot \ outdated' PROVE Current(t)'
      BY <1>3, <1>11 DEF vars, battle, faults
    <2> QED BY <2>1 DEF CopiesAreCurrent
  <1>12. ASSUME NEW s \in Client, saveFails(s) PROVE CopiesAreCurrent'
    <2>1. ASSUME NEW t \in Slot \ outdated' PROVE Current(t)'
      <3>1. CASE t = s
        BY <1>2, <1>12, <3>1 DEF saveFails, Finish, At, TypeOK, Idle
      <3>2. CASE t # s
        BY <1>2, <1>3, <1>12, <3>2 DEF saveFails, Finish, battle, TypeOK
      <3> QED BY <3>1, <3>2
    <2> QED BY <2>1 DEF CopiesAreCurrent
  <1> QED BY <1>4, <1>5, <1>6, <1>7, <1>8, <1>9, <1>10, <1>11, <1>12 DEF Next, Step

\* A save that nothing has overtaken keeps the battle in agreement with its results.
LEMMA SaveFollowsResults ==
    ASSUME ResultsInv, NEW s \in Slot, save(s), ~stale'
    PROVE  FollowsResults'
  <1> USE NilAssumption
  <1>1. ~stale /\ s \in Slot \ outdated
    BY DEF save
  <1>2. /\ status \in {"OPEN", "PROCESSING"} /\ TypeOK /\ RequestsFit /\ EachOnce(receivedResults)
        /\ ResultIsCurrent(s) \/ CallIsCurrent(s)
    BY <1>1 DEF ResultsInv, CopiesAreCurrent, save, FollowsResults, EachOnce
  <1>3. payouts = <<>> /\ UNCHANGED payouts
    <2>1. \A i \in 1 .. Len(payouts) : FALSE
      BY <1>1, <1>2 DEF ResultsInv, FollowsResults
    <2>2. payouts \in Seq({1, 2})
      BY <1>2 DEF TypeOK
    <2>3. payouts = <<>>
      BY <2>1, <2>2
    <2> QED BY <2>3 DEF save
  <1>4. SUFFICES /\ EachOnce(receivedResults')
                 /\ Agreed' => status' = "COMPLETED"
                 /\ status' = "COMPLETED" => 2 * VotesFor(receivedResults', finalWinner') >= Len(receivedResults')
    BY <1>3 DEF FollowsResults, EachOnce, VotesFor
  <1>5. CASE CallIsCurrent(s)
    <2>1. /\ receivedResults' = receivedResults /\ status' = "COMPLETED"
          /\ finalWinner' = Majority(receivedResults)
      BY <1>5 DEF CallIsCurrent, save, Written, Majority
    <2>2. 2 * VotesFor(receivedResults, Majority(receivedResults)) >= Len(receivedResults)
      BY <1>2, MajorityHasHalf DEF TypeOK
    <2> QED BY <1>2, <2>1, <2>2
  <1>6. CASE ResultIsCurrent(s)
    <2> DEFINE p == req[s].playerId
               w == req[s].claim
               r == [playerId |-> p, winnerTeam |-> w]
    <2>1. p \in Player /\ w \in {1, 2} /\ r \in Result /\ receivedResults' = Extended(s)
      BY <1>2, <1>6 DEF ResultIsCurrent, RequestsFit, TypeOK, Request, Result, save, Extended
    <2>2. receivedResults \in Seq(Result) /\ Extended(s) \in Seq(Result) /\ Extended(s) = Append(receivedResults, r)
      BY <1>2, <2>1 DEF TypeOK, Extended
    <2>3. EachOnce(receivedResults')
      <3>1. ~\E i \in 1 .. Len(receivedResults) : receivedResults[i].playerId = r.playerId
        BY <1>6 DEF ResultIsCurrent, HasSubmitted
      <3> QED BY <1>2, <2>1, <2>2, <3>1, OnceMore
    <2>4. CASE Unanimous(Extended(s), w)
      <3>1. status' = "COMPLETED" /\ finalWinner' = w
        BY <1>6, <2>1, <2>4 DEF ResultIsCurrent, save, Written
      <3>2. VotesFor(receivedResults', finalWinner') = Len(receivedResults') /\ Len(receivedResults') \in Nat
        BY <2>1, <2>2, <2>4, <3>1 DEF Unanimous
      <3> QED BY <2>3, <3>1, <3>2
    <2>5. CASE ~Unanimous(Extended(s), w)
      <3>1. status' # "COMPLETED"
        BY <1>2, <1>6, <2>5 DEF ResultIsCurrent, save
      <3>2. ~Agreed'
        BY <2>1, <2>2, <2>5, AgreedWithLast DEF Agreed, VotesFor
      <3> QED BY <2>3, <3>1, <3>2
    <2> QED BY <2>4, <2>5
  <1> QED BY <1>2, <1>5, <1>6

\* Every step does.
LEMMA StepFollowsResults ==
    ASSUME ResultsInv, [Next]_vars
    PROVE  FollowsResults'
  <1>1. ASSUME NEW s \in Slot, save(s) PROVE FollowsResults'
    BY <1>1, SaveFollowsResults DEF FollowsResults
  <1>2. CASE /\ UNCHANGED <<receivedResults, finalWinner, payouts, stale>>
             /\ status' = status \/ (status = "NONE" /\ status' = "OPEN")
    <2>1. CASE status' = status
      BY <1>2, <2>1 DEF ResultsInv, FollowsResults, Agreed, VotesFor
    <2>2. CASE status = "NONE" /\ status' = "OPEN"
      BY <1>2, <2>2 DEF ResultsInv, FollowsResults, Agreed, VotesFor
    <2> QED BY <1>2, <2>1, <2>2
  <1>3. ASSUME NEW s \in Slot, rewardCompletedBattle(s) PROVE FollowsResults'
    <2>1. CASE payouts' = payouts
      BY <1>2, <1>3, <2>1 DEF rewardCompletedBattle
    <2>2. CASE status = "COMPLETED" /\ payouts' = Append(payouts, finalWinner)
      <3>1. payouts \in Seq({1, 2, Nil}) /\ finalWinner \in {1, 2, Nil}
        BY DEF ResultsInv, TypeOK
      <3>2. \A i \in 1 .. Len(payouts') :
              payouts'[i] = finalWinner \/ (i \in 1 .. Len(payouts) /\ payouts'[i] = payouts[i])
        BY <2>2, <3>1
      <3> QED
        BY <1>3, <2>2, <3>2 DEF rewardCompletedBattle, ResultsInv, FollowsResults, Agreed, VotesFor
    <2> QED BY <1>3, <2>1, <2>2 DEF rewardCompletedBattle
  <1> QED
    BY <1>1, <1>2, <1>3 DEF Next, Step, registerBattle, Retry, handleBattleResult, saveFails,
                            resolveConflict, Stop, battle, faults, vars
----------------------------------------------------------------------------
LEMMA ResultsInvariant == Spec => []ResultsInv
  <1>1. Init => ResultsInv
    <2> SUFFICES ASSUME Init PROVE ResultsInv
      OBVIOUS
    <2>1. TypeOK
      <3>1. 0 \in 0 .. MaxFaults /\ <<>> \in Seq(Result) /\ <<>> \in Seq({1, 2})
        BY FaultsAssumption
      <3>2. req \in [Slot -> Request]
        BY IdleIsRequest DEF Init
      <3> QED BY <3>1, <3>2 DEF Init, TypeOK, BattleStatus
    <2>2. RequestsFit /\ Unregistered /\ RewardedOnce
      BY NilAssumption DEF Init, RequestsFit, Unregistered, RewardedOnce, At, Idle
    <2>3. FollowsResults /\ CopiesAreCurrent
      BY DEF Init, FollowsResults, Agreed, CopiesAreCurrent, At, Idle
    <2> QED BY <2>1, <2>2, <2>3 DEF ResultsInv
  <1>2. ResultsInv /\ [Next]_vars => ResultsInv'
    BY StepTypeOK, StepRequestsFit, StepUnregistered, StepRewardedOnce, StepFollowsResults,
       StepCopiesAreCurrent DEF ResultsInv
  <1> QED BY <1>1, <1>2, PTL DEF Spec

\* The battle document, its requests and its final calls are well typed, for teams of
\* any size and any number of requests.
THEOREM ResultsTypeOK == Spec => []TypeOK
  BY ResultsInvariant, PTL DEF ResultsInv

\* For teams of any size, however many requests, retries, final calls and stops complete
\* the battle, its players are rewarded once (rewardCompletedBattle).
THEOREM BattleRewardedOnce == Spec => []RewardedOnce
  BY ResultsInvariant, PTL DEF ResultsInv

\* As long as no outdated copy was saved, the battle is completed by results that agree,
\* with the winner of at least half of them, and nobody else is rewarded
\* (handleBattleResult, resolveConflict).
THEOREM BattleFollowsResults == Spec => []FollowsResults
  BY ResultsInvariant, PTL DEF ResultsInv
=============================================================================
