------------------------------ MODULE ClanShop ------------------------------
(***************************************************************************)
(* src/clanShop: buying an item with the clan's coins, at once or after a    *)
(* voting, on top of Voting.  A purchase or settlement runs in a MongoDB     *)
(* transaction: what it writes is seen at its commit, and a second open      *)
(* transaction that writes the clan fails (WriteConflict).  All items cost   *)
(* the same.  The queue runs a job again whose worker stopped.               *)
(***************************************************************************)
EXTENDS Voting

CONSTANTS
    Buyer,          \* the members that buy
    Coins,          \* the clan's coins at the start
    Price,          \* of an item
    MaxItems,       \* bound: direct purchases
    MaxCrashes      \* bound: how often the server stops

ASSUME BuyerAssumption == Buyer \subseteq Player
ASSUME CoinsAssumption == Coins \in Nat /\ Price \in Nat \ {0} /\ MaxItems \in Nat
ASSUME CrashAssumption == MaxCrashes \in Nat

VARIABLES
    gameCoins,      \* of the clan
    writer,         \* the slot whose open transaction has written the clan
    jobs,           \* the votings with a check job in the queue
    bought,         \* history: items bought directly
    delivered,      \* history: items delivered by each voting
    refunded,       \* history: refunds of each voting
    crashes,        \* history: how often the server stopped
    failed,         \* history: votings whose settlement failed or was cut off
    shared,         \* history: votings that two votes, or a vote and a job,
                    \* handled at once
    rivals          \* history: whether two purchases overlapped

shop == <<gameCoins, writer, jobs, bought, delivered, refunded, crashes, failed>>

history == <<shared, rivals>>

vars == <<votings, due, playerCount, req, shop, history>>

Request == [pc : {"idle", "reserve", "commit", "addJob",
                  "voter", "reread", "finalize", "passed", "ending", "settle", "done"},
            player : Player \cup {Nil}, voting : VotingId \cup {Nil},
            votes : [Player -> Choice \cup {Nil}]]

TypeOK ==
    /\ votings \in [VotingId -> VotingRecord]
    /\ due \subseteq VotingId
    /\ playerCount \in Sizes
    /\ req \in [Slot -> Request]
    /\ gameCoins \in Int
    /\ writer \in Slot \cup {Nil}
    /\ jobs \subseteq VotingId
    /\ bought \in Nat
    /\ delivered \in [VotingId -> Nat]
    /\ refunded \in [VotingId -> Nat]
    /\ crashes \in 0 .. MaxCrashes
    /\ failed \cup shared \subseteq VotingId
    /\ rivals \in BOOLEAN

Init ==
    /\ votings = [v \in VotingId |-> NoVoting]
    /\ due = {}
    /\ playerCount \in Sizes
    /\ req = [s \in Slot |-> Idle]
    /\ gameCoins = Coins
    /\ writer = Nil
    /\ jobs = {}
    /\ bought = 0
    /\ delivered = [v \in VotingId |-> 0]
    /\ refunded = [v \in VotingId |-> 0]
    /\ crashes = 0
    /\ failed = {}
    /\ shared = {}
    /\ rivals = FALSE
----------------------------------------------------------------------------
\* A request is answered; a job has yet to be removed from the queue.
End(s) ==
    req' = [req EXCEPT ![s] = IF s \in Client THEN Idle
                              ELSE [Idle EXCEPT !.pc = "done", !.voting = req[s].voting]]

Release(s) == writer' = IF writer = s THEN Nil ELSE writer

Buying(s) == req[s].pc \in {"reserve", "commit"}

\* The slot casts a vote on the voting or settles it.
Handling(s, v) ==
    req[s].voting = v /\ req[s].pc \in {"voter", "reread", "finalize", "passed", "ending", "settle"}

\* The identity the next voting gets is free.
Fresh(v) == ~votings[v].stored /\ \A s \in Slot : req[s].voting # v

MutBuyItem(s, p) ==
    /\ At(s, "idle")
    /\ \/ bought < MaxItems /\ req' = [req EXCEPT ![s] = [@ EXCEPT !.pc = "reserve", !.player = p]]
       \/ \E v \in VotingId :
            /\ Fresh(v)
            /\ req' = [req EXCEPT ![s] = [@ EXCEPT !.pc = "reserve", !.player = p, !.voting = v]]
    /\ UNCHANGED <<votings, due, playerCount, shop>>

\* buyItem reads the player's right, which decides for buyDirectly or buyViaVote
\* (the request has a voting); both read the clan and refuse without the coins.
buyItem(s, p) ==
    /\ At(s, "idle")
    /\ gameCoins >= Price
    /\ \/ bought < MaxItems /\ req' = [req EXCEPT ![s] = [@ EXCEPT !.pc = "reserve", !.player = p]]
       \/ \E v \in VotingId :
            /\ Fresh(v)
            /\ req' = [req EXCEPT ![s] = [@ EXCEPT !.pc = "reserve", !.player = p, !.voting = v]]
    /\ UNCHANGED <<votings, due, playerCount, shop>>

\* The coins are decreased in the transaction, which fails if another one has
\* written the clan.
reserveFunds(s) ==
    /\ At(s, "reserve")
    /\ IF writer = Nil
       THEN writer' = s /\ Goto(s, "commit")
       ELSE UNCHANGED writer /\ Finish(s)
    /\ UNCHANGED <<votings, due, playerCount, gameCoins, jobs, bought, delivered, refunded, crashes, failed>>

MutCommitBuy(s) ==
    /\ At(s, "commit")
    /\ gameCoins' = gameCoins - Price
    /\ Release(s)
    /\ \/ req[s].voting = Nil /\ bought' = bought + 1 /\ Finish(s) /\ UNCHANGED votings
       \/ /\ req[s].voting # Nil
          /\ votings' = [votings EXCEPT ![req[s].voting] = startVoting(req[s].player)]
          /\ Finish(s)
          /\ UNCHANGED bought
    /\ UNCHANGED <<due, playerCount, jobs, delivered, refunded, crashes, failed>>

\* The transaction commits the coins with the item or with the voting, whose
\* check job is added after it.
commitBuy(s) ==
    /\ At(s, "commit")
    /\ gameCoins' = gameCoins - Price
    /\ Release(s)
    /\ \/ req[s].voting = Nil /\ bought' = bought + 1 /\ Finish(s) /\ UNCHANGED votings
       \/ /\ req[s].voting # Nil
          /\ votings' = [votings EXCEPT ![req[s].voting] = startVoting(req[s].player)]
          /\ Goto(s, "addJob")
          /\ UNCHANGED bought
    /\ UNCHANGED <<due, playerCount, jobs, delivered, refunded, crashes, failed>>

addVotingCheckJob(s) ==
    /\ At(s, "addJob")
    /\ jobs' = jobs \cup {req[s].voting}
    /\ Finish(s)
    /\ UNCHANGED <<votings, due, playerCount, gameCoins, writer, bought, delivered, refunded, crashes, failed>>
----------------------------------------------------------------------------
MutProcess(w, v) ==
    /\ At(w, "idle") /\ v \in jobs \cap due
    /\ \A t \in Worker : req[t].voting # v
    /\ req' = [req EXCEPT ![w] = [@ EXCEPT !.pc = "passed", !.voting = v,
                                           !.votes = votings[v].votes]]
    /\ UNCHANGED <<votings, due, playerCount, shop>>

\* The job of a voting past its time: an ended voting is left alone, the votes of
\* another are those of now.
process(w, v) ==
    /\ At(w, "idle") /\ v \in jobs \cap due
    /\ \A t \in Worker : req[t].voting # v
    /\ req' = [req EXCEPT ![w] =
                 IF votings[v].ended
                 THEN [@ EXCEPT !.pc = "done", !.voting = v]
                 ELSE [@ EXCEPT !.pc = "passed", !.voting = v, !.votes = votings[v].votes]]
    /\ UNCHANGED <<votings, due, playerCount, shop>>

\* The job is removed from the queue.
done(s) ==
    /\ At(s, "done")
    /\ jobs' = jobs \ {req[s].voting}
    /\ Finish(s)
    /\ UNCHANGED <<votings, due, playerCount, gameCoins, writer, bought, delivered, refunded, crashes, failed>>

\* handleVotingPassed and process both lead here: of a voting that has the majority
\* of the clan the item is created, otherwise the coins are increased, which fails
\* if another transaction has written the clan; nothing runs the check again.
checkVotingOnExpire(s) ==
    /\ At(s, "passed")
    /\ IF checkVotingSuccess(req[s].votes, TRUE)
       THEN UNCHANGED <<writer, failed>> /\ Goto(s, "ending")
       ELSE IF writer = Nil
            THEN writer' = s /\ UNCHANGED failed /\ Goto(s, "ending")
            ELSE UNCHANGED writer /\ failed' = failed \cup {req[s].voting} /\ End(s)
    /\ UNCHANGED <<votings, due, playerCount, gameCoins, jobs, bought, delivered, refunded, crashes>>

\* The voting is finalized outside the transaction.
endVoting(s) ==
    /\ At(s, "ending")
    /\ finalizeVoting(req[s].voting)
    /\ Goto(s, "settle")
    /\ UNCHANGED <<due, playerCount, shop>>

\* The transaction commits the item or the refund.
commitVerdict(s) ==
    LET v == req[s].voting
    IN  /\ At(s, "settle")
        /\ Release(s)
        /\ \/ /\ checkVotingSuccess(req[s].votes, TRUE)
              /\ delivered' = [delivered EXCEPT ![v] = @ + 1]
              /\ UNCHANGED <<refunded, gameCoins>>
           \/ /\ ~checkVotingSuccess(req[s].votes, TRUE)
              /\ refunded' = [refunded EXCEPT ![v] = @ + 1]
              /\ gameCoins' = gameCoins + Price
              /\ UNCHANGED delivered
        /\ End(s)
        /\ UNCHANGED <<votings, due, playerCount, jobs, bought, crashes, failed>>

\* A stop now leaves the voting without its check job, or ended and not settled.
Exposed(s) ==
    \/ req[s].pc \in {"addJob", "settle"}
    \/ s \in Client /\ req[s].pc \in {"passed", "ending"}

\* The server stops: requests are gone, transactions aborted, jobs stay queued.
Crash ==
    /\ crashes < MaxCrashes
    /\ crashes' = crashes + 1
    /\ failed' = failed \cup {req[s].voting : s \in {t \in Slot : Exposed(t)}}
    /\ req' = [s \in Slot |-> Idle]
    /\ writer' = Nil
    /\ UNCHANGED <<votings, due, playerCount, gameCoins, jobs, bought, delivered, refunded>>
----------------------------------------------------------------------------
Cast(s) == (saveVote(s) \/ readAgain(s) \/ finalizeVote(s)) /\ UNCHANGED shop

Step(s) ==
    \/ reserveFunds(s) \/ commitBuy(s) \/ addVotingCheckJob(s)
    \/ Cast(s)
    \/ checkVotingOnExpire(s) \/ endVoting(s) \/ commitVerdict(s) \/ done(s)

Act ==
    \/ \E s \in Slot : Step(s)
    \/ \E s \in Client, p \in Buyer : buyItem(s, p)
    \/ \E s \in Client, p \in Player, v \in VotingId : addVote(s, p, v) /\ UNCHANGED shop
    \/ \E w \in Worker, v \in VotingId : process(w, v)
    \/ \E v \in VotingId : Deadline(v) /\ UNCHANGED shop
    \/ Crash

\* History: what the code does at once although it reads before it writes.
Note ==
    /\ shared' = shared \cup {v \in VotingId : \E s, t \in Slot : s # t /\ (Handling(s, v) /\ Handling(t, v))'}
    /\ rivals' = (rivals \/ \E s, t \in Slot : s # t /\ (Buying(s) /\ Buying(t))')

Next == Act /\ Note

Spec == Init /\ [][Next]_vars

\* Running code goes on, time passes and the queue hands out its jobs.
Fairness ==
    /\ \A s \in Slot : WF_vars(Step(s) /\ Note)
    /\ \A v \in VotingId : WF_vars(Deadline(v) /\ UNCHANGED shop /\ Note)
    /\ \A w \in Worker, v \in VotingId : WF_vars(process(w, v) /\ Note)

FairSpec == Spec /\ Fairness
----------------------------------------------------------------------------
(* Properties                                                               *)

Majority(v) == 100 * CountOf(votings[v].votes, {"YES"}) >= 51 * playerCount

Settlements(v) == delivered[v] + refunded[v]

\* Requests and jobs that have yet to apply the outcome of a voting.
Settling(v) == {s \in Slot : req[s].voting = v /\ req[s].pc \in {"passed", "ending", "settle"}}

\* What is applied is what the clan decided: the item comes with a majority of
\* its members and the coins come back without one (checkVotingOnExpire).
OutcomeFollowsVotes ==
    \A v \in VotingId \ shared :
        /\ delivered[v] > 0 => Majority(v)
        /\ refunded[v] > 0 => ~Majority(v)

\* Although the voting.passed event and the check job both settle votings, no
\* voting is settled twice, and an ended one is settled or about to be, unless its
\* settlement failed.
SettledOnce ==
    \A v \in VotingId \ shared :
        /\ Settlements(v) + Cardinality(Settling(v)) <= 1
        /\ votings[v].ended /\ v \notin failed =>
               Settlements(v) + Cardinality(Settling(v)) = 1

\* The coins held for a voting come back or become an item, unless the server
\* stopped at a point after which nothing settles it or the refund failed (the check job).
EverySettled ==
    \A v \in VotingId : votings[v].stored ~> (Settlements(v) > 0 \/ v \in failed)

Service == INSTANCE Purchase WITH
    coins <- gameCoins,
    open <- {v \in VotingId : votings[v].stored /\ Settlements(v) = 0},
    settled <- {v \in VotingId : Settlements(v) > 0},
    items <- bought + Cardinality({v \in VotingId : delivered[v] > 0})

\* Until two purchases overlap, or two handle a voting at once, the shop is the
\* abstract one: coins are there when they are spent and each purchase is settled
\* at most once, whatever jobs, events, transactions and crashes interleave.
ImplementsPurchase ==
    Service!Init /\ [][Service!Next \/ shared' # {} \/ rivals']_Service!vars
============================================================================
