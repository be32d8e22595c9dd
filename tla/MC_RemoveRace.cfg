CONSTANTS
    Self = self
    p1 = p1
    p2 = p2
    c1 = c1
    c2 = c2
    c3 = c3
    k1 = k1
    k2 = k2
    k3 = k3
    Peers <- PoolPeers
    Callers <- PoolCallers
    ConnIds <- PoolConnIds
    ReqTimeout = 1
    MaxAttempts = 3
    NoConn = NoConn
    NoCaller = NoCaller
    Kinds <- MCKinds
    BroadcastKinds <- MCBroadcastKinds


SPECIFICATION Spec
SYMMETRY Symmetry

INVARIANT
    RemovedNotCached
