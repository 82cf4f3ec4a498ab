SPECIFICATION LibSpec
CONSTANTS
    NULL = NULL
    NoPrev = NoPrev
    Key <- TwinKeys
    SizeMod = 32
    PtrSize = 4
    BlockSize = 22
    Requests = {0, 1, 4, 5, 8, 9, 29, 31}
    MaxLive = 5
    Sample = {0, 5, 8, 110, 112, 213, 218, 255}
    MaxText = 4
    Passwords <- ShortPasswords
    Salts <- TwoByteSalts
    Costs = {0, 4, 10, 31, 40}
    SaltLen = 2
    KeyBytes = 4
    ByteMod = 16
    Base = 251
    NMax = 10
    Primes = {3, 5, 7, 11, 13}
    Exponents = {0, 1, 3, 5, 7, 12, 60}
INVARIANT SearchTree
INVARIANT MinMax
INVARIANT Neighbours
INVARIANT AscendingBalanced
INVARIANT AllocationsSound
INVARIANT SpaceExact
INVARIANT Base64RoundTrip
INVARIANT HashTellsPasswords
INVARIANT RsaInverts
CHECK_DEADLOCK FALSE
