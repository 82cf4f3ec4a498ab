SPECIFICATION StartupSpec
CONSTANTS
    Ports <- MCPorts
    MaxServices = 2
    MaxProtocols = 2
    MaxAccepts = 2
    Defaults <- MCDefaults
    Abbreviations <- MCAbbreviations
    Expands <- MCExpands
    Values <- MCValues
    Hashes <- MCHashes
    MaxVars = 4
    MaxCollisions = 2
    MaxArgs = 1
    Number <- MCNumber
INVARIANT StartupTypeOK
INVARIANT ListeningMeansAccepting
INVARIANT SocketsAccounted
INVARIANT ProtocolsUnambiguous
INVARIANT ConfigHonoured
INVARIANT ServedWhereConfigured
CHECK_DEADLOCK FALSE
