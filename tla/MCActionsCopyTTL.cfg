CONSTANTS
    o1 = o1
    o2 = o2
    None = None
    Objs <- MCObjs
    MaxActs <- MCMaxActs
    Methods <- CopyTTLMethods
    Sequential = TRUE
INIT AbInit
NEXT AbNext
INVARIANT NoUninitDeref
CHECK_DEADLOCK FALSE
