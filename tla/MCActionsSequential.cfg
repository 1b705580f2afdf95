CONSTANTS
    o1 = o1
    o2 = o2
    None = None
    Objs <- MCObjs
    MaxActs <- MCMaxActs
    Methods <- ShapeMethods
    Sequential = TRUE
INIT AbInit
NEXT AbNext
INVARIANT AbTypeOK
INVARIANT WellFormedApply
CHECK_DEADLOCK FALSE
