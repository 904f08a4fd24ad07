CONSTANTS
    Player = {p1, p2}
    Client = {c1, c2}
    TaskId = {1, 2, 3}
    Pool <- PoolOfTwo
    Amount = {1, 2}
    Nil = Nil
    MaxReservations = 2
    MaxResets = 1
    MaxStops = 1
SPECIFICATION FairSpec
INVARIANTS HeldIsTimed PaidOnce RewardEarned
PROPERTY HeldReleased
CHECK_DEADLOCK FALSE
