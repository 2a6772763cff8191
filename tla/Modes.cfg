\* Three units of a headless host race on three grid places, two laps of two gates;
\* or two players, the host's own or not, play with two flags and a vehicle.
CONSTANTS
    NumUnits = 3
    GridCount = 3
    GateCount = 2
    LapCount = 2
    HostPlays = FALSE
    ReadyTime = 1
    CountdownTime = 1
    ResultWait = 2
    ResultTime = 1
    MaxProgress = 0
    Modes = {"CTF", "SLAYER"}
    MaxPlayers = 2
    Classes = TRUE
    ScoreLimit = 1
    Postgame = 2
    FlagReset = 2
    WreckTime = 1
    HasCar = TRUE
    MinScore = 1
SPECIFICATION ModesSpec
INVARIANTS
    ModesTypeOK FinishersCounted StandingsAreARanking KartsMatchDrivers
    CarriersAgree SeatsAgree EndIsTimed
PROPERTIES FinishEndsRace ResultStands FlagsAndGamesGoOn
