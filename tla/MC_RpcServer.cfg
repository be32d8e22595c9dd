CONSTANTS
    r1 = r1
    r2 = r2
    r3 = r3
    Rpcs <- TwoRpcs
    ChanCap = 1
    ApplyActions <- HonestApplyActions
    RaftJoinType = 20

SPECIFICATION FairSpec

INVARIANTS
    TypeOK

PROPERTIES
    AllAnswered
