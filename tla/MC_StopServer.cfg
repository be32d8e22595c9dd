CONSTANTS
    r1 = r1
    r2 = r2
    r3 = r3
    Rpcs <- MCRpcs
    ChanCap = 1
    ApplyActions <- HonestApplyActions
    RaftJoinType = 20

SPECIFICATION Spec
SYMMETRY RpcSymmetry

INVARIANT
    StopRejectsNew
