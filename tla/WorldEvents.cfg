\* A button, a relay that fires itself, a door that closes itself, a trigger and a pad.
CONSTANTS
    Kinds <- MCKinds
    Links <- MCLinks
    Bindings <- MCBindings
    Actors <- MCActors
    NoActor = 99
    Requests <- MCRequests
    QueueSize = 2
    Budget = 2
    CascadeCount = 3
    CascadeBudget = 2
    MaxChain = 2
    Generations = 2
    Travel = 2
SPECIFICATION FairSpec
INVARIANTS WorldTypeOK CascadesCounted StormBounded RoundsDoNotMix RestsAtItsEnds
 
