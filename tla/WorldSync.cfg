\* One repeat, a packet every second tick of a move, a keyframe every third.
CONSTANTS
    Repeats = 1
    MovingTicks = 2
    KeyframeTicks = 3
    MaxDelay = 1
    Way = 1
    Drift = 1
    RelayOrders = {TRUE, FALSE}
SPECIFICATION SyncFairSpec
INVARIANTS SyncTypeOK AgreesOnceHeard ChangesRepeated
PROPERTIES Converges
