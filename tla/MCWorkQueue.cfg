SPECIFICATION FairSpec
CONSTANTS
    Producers = {p1, p2}
    Consumers = {c1, c2}
    Closers = {k1, k2}
    Items = {a, b}
    Capacity = 2
    MaxPushes = 4
INVARIANTS TypeOK NoLostWakeup
PROPERTIES ImplementsContract EveryItemDelivered CloseReleasesAll
CHECK_DEADLOCK FALSE
