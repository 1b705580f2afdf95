CONSTANTS
    e1 = e1
    e2 = e2
    NoRule = NoRule
    Prios <- MCPrios
    Exprs <- MCExprs
    MaxRules <- MCMaxRules
INIT PcInit
NEXT PcNext

INVARIANT InvokedMatchPacket
CHECK_DEADLOCK FALSE
