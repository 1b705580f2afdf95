CONSTANTS
    o1 = o1
    o2 = o2
    None = None
    Objs <- MCObjs
    MaxActs <- MCMaxActs
    Methods <- MplsMethods
    Sequential = TRUE
INIT AbInit
NEXT AbNext
INVARIANT NoOutOfBoundsWrite
CHECK_DEADLOCK FALSE
