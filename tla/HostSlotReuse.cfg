\* Headless host, two joiners: does a peer ever drive a unit made for another?
CONSTANTS
    c1 = c1  c2 = c2
    t1 = t1  t2 = t2  t3 = t3
    h1 = h1  h2 = h2  n1 = n1  n2 = n2
    key = key  NoIdentity = NoIdentity
    Clients = {c1, c2}
    Tokens = {t1, t2, t3}
    Nonces = {n1}
    NoToken = NoToken  NoNonce = NoNonce  NoAddr = NoAddr
    Identities <- MCIdentities
    Identity <- Nobody
    Unfit = {}
    MaxPlayers = 2
    MaxInfos = {0}
    Silence = 2
    MayDuplicate = FALSE
    EntropyFails = FALSE
    Traffic = {}
    MaxSequence = 1
    MaxTick = 0
    NumUnits = 2
    HostSockets <- Headless
    HostNonces = {}
    MayRefuse = FALSE
SPECIFICATION MatchSpec
CHECK_DEADLOCK FALSE
INVARIANT UnitMadeForItsPeer
