CONSTANTS
    Player = {p1, p2, p3}
    Client = {s1, s2}
    VersionOf <- OneVersion
    QueueNumberMax = 5
    Nil = Nil
SPECIFICATION Spec
SYMMETRY Interchangeable
INVARIANT FirstComeFirst
CHECK_DEADLOCK FALSE
