CONSTANTS
    Dpids <- MCDpids
    PortNos <- PortOne
    Wire <- CableOnPortOne
    MaxEnv <- MCMaxEnv
SPECIFICATION DiscFairSpec
INVARIANT DiscTypeOK
PROPERTY ProbesEveryPort
PROPERTY LinkFromGonePortExpires
CHECK_DEADLOCK FALSE
