---------------------------- MODULE MCFleaMarket ----------------------------
(* Two clans, two requests and one worker around a single item.  Clans and    *)
(* requests are interchangeable.                                             *)
EXTENDS FleaMarket, TLC

AlikeClansAndClients == Permutations(Clan) \cup Permutations(Client)
=============================================================================
