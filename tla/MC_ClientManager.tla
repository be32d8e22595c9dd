------------------------- MODULE MC_ClientManager -------------------------
(* Instances of ClientManager for TLC.                                     *)
EXTENDS ClientManager, TLC

CONSTANTS p1, p2, c1, c2, c3, k1, k2, k3

\* Pool runs: goroutines racing on one peer's pool entry.  One cached
\* connection and one closed one held by each other caller need 3 ids.
PoolPeers == {p1}
PoolCallers == {c1, c2}
PoolConnIds == {k1, k2, k3}

\* Broadcast runs: one goroutine, a snapshot with two peers and self.
BcastPeers == {p1, p2}
BcastCallers == {c1}
BcastConnIds == {k1, k2, k3}

Symmetry == Permutations(PoolCallers) \cup Permutations(PoolConnIds)

\* publish, connect and join differ only in their name; connect stands for
\* the three ReqTimeout operations, apply has the 10*ReqTimeout deadline.
MCKinds == {"connect", "apply"}
MCBroadcastKinds == {"connect", "apply"}

\* Which peers a broadcast reaches does not depend on the operation.
BcastKinds == {"connect"}

\* Two goroutines contending for the pool mutex, ReqTimeout deadlines.
LiveKinds == {"connect"}
=============================================================================
