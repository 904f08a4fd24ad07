--------------------------- MODULE MCMatchmaking ---------------------------
(***************************************************************************)
(* Instances of Matchmaking for TLC.                                        *)
(***************************************************************************)
EXTENDS Matchmaking, TLC

CONSTANTS p1, p2, p3, cA, cB

Of(matchType, teamSizes, bots) ==
    [matchType : {matchType}, gameType : GameType, teamSize : teamSizes, allowBots : bots]

RandomBots == Of("RANDOM", {2}, {TRUE})
ClanPairs == Of("CLAN", {1}, {TRUE})
OneRoomBodies == RandomBots \cup Of("CUSTOM", {1}, {TRUE})
MixedBodies == Of("RANDOM", {1}, {TRUE})
                 \cup Of("CLAN", {2}, {TRUE}) \cup Of("CUSTOM", {1}, {FALSE})

\* A player of several clans moves between them at any time.
NoClans  == [p \in Player |-> {Nil}]
TwoClans == p1 :> {cA} @@ p2 :> {cB} @@ p3 :> {cA}
PairOfClans == p1 :> {cA, cB} @@ p2 :> {cB}

Interchangeable ==
    Permutations(Player) \cup Permutations(Room) \cup Permutations(MatchId)
      \cup Permutations(Client)
ClanKeys == Permutations({p1, p3}) \cup Permutations(Room) \cup Permutations(MatchId)
============================================================================
