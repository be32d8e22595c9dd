CONSTANTS
    r1 = r1
    r2 = r2
    Rpcs <- NodeRpcs
    Methods <- NodeMethods
    ChanCap = 1
    ApplyActions <- NodeApplyActions
    RaftJoinType = 20

SPECIFICATION NodeFairSpec

INVARIANTS
    NodeTypeOK

PROPERTIES
    RoutedWhileServerOpen
    ExitsOnSignal
