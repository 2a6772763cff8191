\* One socket, no duplication: what must happen in the end.
CONSTANTS
    c1 = c1  c2 = c2
    t1 = t1  t2 = t2
    n1 = n1  n2 = n2
    key = key  NoIdentity = NoIdentity
    Clients = {c1}
    Tokens = {t1, t2}
    Nonces = {n1, n2}
    NoToken = NoToken  NoNonce = NoNonce  NoAddr = NoAddr
    Identities <- MCIdentities
    Identity <- OnePlayer
    Unfit = {}
    MaxPlayers = 1
    MaxInfos = {0}
    Silence = 2
    MayDuplicate = FALSE
    EntropyFails = FALSE
    Traffic = {"PING", "INPUT", "SNAPSHOT"}
    MaxSequence = 1
    MaxTick = 0
SPECIFICATION FairSpec
CHECK_DEADLOCK FALSE
PROPERTIES GreetingAnswered SplitHeals
