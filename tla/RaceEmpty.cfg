\* Everybody drives, everybody may leave: does a spectator race in the end?
CONSTANTS
    NumUnits = 2
    GridCount = 2
    GateCount = 2
    LapCount = 1
    HostPlays = FALSE
    ReadyTime = 1
    CountdownTime = 1
    ResultWait = 2
    ResultTime = 1
    MaxProgress = 0
SPECIFICATION DrivenSpec
PROPERTY SpectatorRaces
