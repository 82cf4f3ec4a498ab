CONSTANTS
    ByteMod = 16
    Base = 251
    NMax = 16
    Rounds = 32
    Delta = 40503
    c1 = c1
    c2 = c2
    Clients = {c1, c2}
    RequestsOf <- MCRequestsOf
    Accounts <- MCAccounts
    RsaLen = 26
    NameSize = 4
    MaxOutbufLen = 46
    Motd <- MCMotd
    SvName <- MCSvName
    GamePort = 115
    MaxIdleOutbufs = 1
    Bufs <- MCBufs
    b1 = b1
    b2 = b2
    NULL = NULL
SYMMETRY BufSymmetry
SPECIFICATION Spec
CHECK_DEADLOCK FALSE
INVARIANT WellFormedUnderstood
