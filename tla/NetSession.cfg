\* Two sockets of one player (the program restarted), every packet may come twice.
CONSTANTS
    c1 = c1  c2 = c2
    t1 = t1  t2 = t2
    n1 = n1  n2 = n2
    key = key  NoIdentity = NoIdentity
    Clients = {c1, c2}
    Tokens = {t1, t2}
    Nonces = {n1, n2}
    NoToken = NoToken  NoNonce = NoNonce  NoAddr = NoAddr
    Identities <- MCIdentities
    Identity <- SharedKey
    Unfit = {}
    MaxPlayers = 2
    MaxInfos = {0}
    Silence = 2
    MayDuplicate = TRUE
    EntropyFails = TRUE
    Traffic = {"CONTROL"}
    MaxSequence = 2
    MaxTick = 0
SPECIFICATION Spec
SYMMETRY MCSocketSymmetry
CHECK_DEADLOCK FALSE
INVARIANTS TypeOK OneSlotPerAddress OneUserPerIdentity ControlsInOrder
PROPERTY SlotLostOnlyBySilenceOrLeave
