SPECIFICATION LibSpec
CONSTANTS
    NULL = NULL
    NoPrev = NoPrev
    Key <- TenKeys
    SizeMod = 32
    PtrSize = 4
    BlockSize = 22
    Requests = {}
    MaxLive = 0
    Sample = {}
    MaxText = 0
    Passwords = {}
    Salts = {}
    Costs = {}
    SaltLen = 2
    KeyBytes = 4
    ByteMod = 16
    Base = 251
    NMax = 10
    Primes = {}
    Exponents = {}
INVARIANT Balanced
CHECK_DEADLOCK FALSE
