CONSTANTS
    t1 = t1
    t2 = t2
    s1 = s1
    s2 = s2
    h1 = h1
    o1 = o1
    o2 = o2
    o3 = o3
    o4 = o4
    o5 = o5
    None = None
    NoThread = NoThread
    Multicast = Multicast
    Flood = Flood
    ControllerPt = ControllerPt
    NoPort = NoPort
    Threads <- MCThreads
    Dps <- MCDps
    Hosts <- MCHosts
    PortIds <- MCPortIds
    Route <- MCRoute
    Objs <- MCObjs
    MaxPkts <- MCMaxPkts
    MaxEnv <- MCMaxEnv
    Flaky <- MCFlaky
    ConfArgs <- MCConfArgs
    Apps <- MCApps
    MaxActs <- SwMaxActs
    Methods <- SwMethods
    Sequential = FALSE
INIT SwInit
NEXT SwNext
INVARIANT SwTypeOK
INVARIANT ForwardsTowardDestination
INVARIANT PacketReleasedOnce
INVARIANT NoOutOfBoundsWrite
INVARIANT WellFormedApply
INVARIANT BufferStaysInSession
INVARIANT FlowModCarriesOwnInstruction
CHECK_DEADLOCK FALSE
SYMMETRY ThreadSym
