CONSTANTS
    Clan = {k1, k2}
    Client = {s1, s2}
    Worker = {w}
    ItemId = {1, 2, 3, 4, 5, 6}
    Goods = {1}
    VotingId = {1, 2}
    Price = {1}
    Coins = 2
    MaxSlots = 2
    SlotPrice = 1
    Amount = {1}
    Nil = Nil
    MaxStops = 1
    MaxRequests = 4
SPECIFICATION Spec
SYMMETRY AlikeClansAndClients
INVARIANTS GoodsKept CoinsKept PaidIsAnswered BookedIsTimed
CHECK_DEADLOCK FALSE
