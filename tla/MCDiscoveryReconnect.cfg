CONSTANTS
    Dpids <- SoloDpid
    PortNos <- PortOne
    Wire <- NoCable
    MaxEnv <- MCMaxEnvWiring
INIT DiscInit
NEXT DiscNext
INVARIANT AnnouncedPortsKept
CHECK_DEADLOCK FALSE
