CONSTANTS
    Dpids <- MCDpids
    PortNos <- PortsOneTwo
    Wire <- CableOnPortTwo
    MaxEnv <- MCMaxEnvWiring
INIT DiscInit
NEXT DiscNext
INVARIANT LinksMatchWiring
CHECK_DEADLOCK FALSE
