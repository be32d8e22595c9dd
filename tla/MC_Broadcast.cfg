CONSTANTS
    Self = self
    p1 = p1
    p2 = p2
    c1 = c1
    c2 = c2
    c3 = c3
    k1 = k1
    k2 = k2
    k3 = k3
    Peers <- BcastPeers
    Callers <- BcastCallers
    ConnIds <- BcastConnIds
    ReqTimeout = 1
    MaxAttempts = 3
    NoConn = NoConn
    NoCaller = NoCaller
    Kinds <- BcastKinds
    BroadcastKinds <- BcastKinds


SPECIFICATION Spec

INVARIANTS
    BroadcastExact

