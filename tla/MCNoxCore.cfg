CONSTANTS
    Conns = {c1, c2, c3}
    Dpids <- MCDpids
    MaxPollDepth <- MCMaxPollDepth
    NoConn = NoConn
    NoDpid = NoDpid
SPECIFICATION FairSpec
INVARIANT TypeOK
INVARIANT RegistryConsistent
INVARIANT DeferredDestruction
INVARIANT JoinLeaveHistory
INVARIANT AppViewConverges
INVARIANT AdmittedOnlyApproved
PROPERTY RegistryRefinement
PROPERTY HandshakeTerminates
PROPERTY ClosedConnFreed
CHECK_DEADLOCK FALSE
