\* Two sockets: two joiners of a headless host, or one and the host's own client. They
\* join, leave, fall silent and reconnect; profiles and tokens may fail.
CONSTANTS
    c1 = c1  c2 = c2
    t1 = t1  t2 = t2  t3 = t3
    h1 = h1  h2 = h2  n1 = n1  n2 = n2
    key = key  NoIdentity = NoIdentity
    Clients = {c1, c2}
    Tokens = {t1, t2}
    Nonces = {h1, h2, n1}
    NoToken = NoToken  NoNonce = NoNonce  NoAddr = NoAddr
    Identities <- MCIdentities
    Identity <- Nobody
    Unfit = {}
    MaxPlayers = 2
    MaxInfos = {0, 1}
    Silence = 2
    MayDuplicate = FALSE
    EntropyFails = TRUE
    Traffic = {}
    MaxSequence = 1
    MaxTick = 0
    NumUnits = 2
    HostSockets <- HeadlessOrNot
    HostNonces = {h1, h2}
    MayRefuse = TRUE
SPECIFICATION MatchSpec
CHECK_DEADLOCK FALSE
INVARIANTS MatchTypeOK HostHasOneBody BodiesAreThePeers
SYMMETRY MCSymmetry
