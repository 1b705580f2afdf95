CONSTANTS
    o1 = o1
    o2 = o2
    None = None
    Objs <- MCObjs
    MaxActs <- MCMaxActs
    Methods <- InTreeMethods
    Sequential = FALSE
INIT AbInit
NEXT AbNext
INVARIANT WellFormedApply
CHECK_DEADLOCK FALSE
