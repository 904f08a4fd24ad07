------------------------------- MODULE Voting -------------------------------
(***************************************************************************)
(* src/voting/voting.service.ts for the votings of one clan: casting a vote  *)
(* and what it ends.  A step is one database command with the code up to the *)
(* next one, so that a request may go on with votes it read long before.     *)
(* What a passed voting changes is the business of its listeners (ClanShop). *)
(* (For Mut... see Matchmaking.)                                             *)
(***************************************************************************)
EXTENDS Integers, FiniteSets

CONSTANTS
    Player,         \* the members of the clan that vote
    VotingId,
    Client,         \* requests in flight
    Worker,         \* queue workers
    Nil,            \* no player, voting or choice
    Sizes           \* the numbers of members the clan may have

ASSUME SizesAssumption == Sizes \subseteq Nat \ {0}
ASSUME NilAssumption == Nil \notin Player \cup VotingId \cup {"YES", "NO"}

VARIABLES
    votings,        \* the voting documents
    due,            \* the votings whose endsOn has passed
    playerCount,    \* of the clan
    req             \* the request or job each slot runs

Slot == Client \cup Worker

Choice == {"YES", "NO"}

\* stored: created and committed; ended: endedAt is set.
VotingRecord == [stored : BOOLEAN, votes : [Player -> Choice \cup {Nil}], ended : BOOLEAN]

NoVotes == [p \in Player |-> Nil]

NoVoting == [stored |-> FALSE, votes |-> NoVotes, ended |-> FALSE]

At(s, label) == req[s].pc = label

Goto(s, label) == req' = [req EXCEPT ![s].pc = label]

Idle == [pc |-> "idle", player |-> Nil, voting |-> Nil, votes |-> NoVotes]

Finish(s) == req' = [req EXCEPT ![s] = Idle]
----------------------------------------------------------------------------
\* buildVotingData: the organizer's vote is YES.
startVoting(p) == [stored |-> TRUE, votes |-> [NoVotes EXCEPT ![p] = "YES"], ended |-> FALSE]

CountOf(votes, choices) == Cardinality({p \in Player : votes[p] \in choices})

MutCheckVotingSuccess(votes, useClanMajority) ==
    100 * CountOf(votes, {"YES"}) >= 51 * CountOf(votes, Choice)

\* The yes votes are at least 51 % of the votes, or of the clan's members.
checkVotingSuccess(votes, useClanMajority) ==
    LET divisor == IF useClanMajority THEN playerCount ELSE CountOf(votes, Choice)
    IN  divisor # 0 /\ 100 * CountOf(votes, {"YES"}) >= 51 * divisor
----------------------------------------------------------------------------
\* The voting is read: neither ended nor past its time, and the player's first
\* vote; then the player is read.
addVote(s, p, v) ==
    /\ At(s, "idle")
    /\ votings[v].stored /\ ~votings[v].ended /\ v \notin due
    /\ votings[v].votes[p] = Nil
    /\ \E choice \in Choice :
          req' = [req EXCEPT ![s] =
                    [@ EXCEPT !.pc = "voter", !.voting = v,
                              !.votes = [votings[v].votes EXCEPT ![p] = choice]]]
    /\ UNCHANGED <<votings, due, playerCount>>

\* All votes are written, as they were read and with the new one.
saveVote(s) ==
    /\ At(s, "voter")
    /\ votings' = [votings EXCEPT ![req[s].voting].votes = req[s].votes]
    /\ Goto(s, "reread")
    /\ UNCHANGED <<due, playerCount>>

\* The votes are read again; of a voting in the shop the yes votes are compared
\* with the votes cast.
readAgain(s) ==
    LET votes == votings[req[s].voting].votes
    IN  /\ At(s, "reread")
        /\ \/ ~checkVotingSuccess(votes, FALSE) /\ Finish(s)
           \/ /\ checkVotingSuccess(votes, FALSE)
              /\ req' = [req EXCEPT ![s].pc = "finalize", ![s].votes = votes]
        /\ UNCHANGED <<votings, due, playerCount>>

\* endedAt is set, unless it is already.
finalizeVoting(v) == votings' = [votings EXCEPT ![v].ended = TRUE]

\* The voting is ended, passed or not by now, and voting.passed emitted.
finalizeVote(s) ==
    /\ At(s, "finalize")
    /\ finalizeVoting(req[s].voting)
    /\ Goto(s, "passed")
    /\ UNCHANGED <<due, playerCount>>

\* Time passes endsOn.
Deadline(v) ==
    /\ votings[v].stored /\ v \notin due
    /\ due' = due \cup {v}
    /\ UNCHANGED <<votings, playerCount, req>>
============================================================================
