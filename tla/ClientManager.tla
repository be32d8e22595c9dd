--------------------------- MODULE ClientManager ---------------------------
(***************************************************************************)
(* The outbound half of the inter-node relay fabric of one broker node:    *)
(* the gRPC client pool (ClientManager.getClient / RemoveGrpcClient) and   *)
(* the relay client API built on it (RelayPublishPacket,                   *)
(* ConnectNotifyToNode, RelayRaftApply, RelayRaftJoin and the three        *)
(* ...ToOthers broadcasts), including the per-call deadline, the           *)
(* wait-for-ready call option and the grpc_retry interceptor with its      *)
(* exponential backoff (src/unnamed/part_000, lines 27-313).               *)
(*                                                                         *)
(* Several goroutines (Callers) relay concurrently.  getClient holds the   *)
(* pool mutex across the cache lookup, the membership lookup and the       *)
(* dial; RemoveGrpcClient touches the map without it.  The membership      *)
(* directory and the reachability of peers are the environment.            *)
(***************************************************************************)
EXTENDS Naturals, FiniteSets

CONSTANTS
    Self,          \* the local node id (agent.GetLocalName())
    Peers,         \* the other node ids the membership layer may report
    Callers,       \* goroutines that call the relay client API
    ConnIds,       \* identities of *grpc.ClientConn objects
    ReqTimeout,    \* ReqTimeout, in seconds
    MaxAttempts,   \* grpc_retry.WithMax(3)
    NoConn,        \* sentinel: no cached client for a node
    NoCaller       \* sentinel: the pool mutex is free

Nodes == Peers \cup {Self}

ASSUME ConstAssumption ==
    /\ Self \notin Peers
    /\ ReqTimeout \in Nat \ {0}
    /\ MaxAttempts \in Nat \ {0}
    /\ NoConn \notin ConnIds
    /\ NoCaller \notin Callers

\* The four relay operations; the three that also come as a broadcast.
Kinds == {"publish", "connect", "apply", "join"}
BroadcastKinds == {"connect", "apply", "join"}

\* context.WithTimeout of each operation: 10*ReqTimeout for RaftApply.
Deadline(k) == IF k = "apply" THEN 10 * ReqTimeout ELSE ReqTimeout

\* grpc_retry.BackoffExponential(ReqTimeout): wait before attempt a >= 1
\* is ReqTimeout * 2^(a-1) (backoffutils.ExponentBase2).
Backoff(a) == ReqTimeout * 2^(a - 1)

\* Every backoff the interceptor can wait is a whole number of seconds.
ASSUME BackoffAssumption == \A a \in 1..MaxAttempts : Backoff(a) \in Nat

VARIABLES
    members,       \* membership.Members(), as node ids
    noAddr,        \* members whose record projects to an empty grpc addr
    up,            \* peers whose gRPC server currently answers
    pendingRemove, \* departed nodes whose RemoveGrpcClient has not run yet
    cs,            \* ClientManager.cs: node id -> cached connection
    connState,     \* "none" (never dialed), "open" or "closed" (Close())
    connNode,      \* the node a connection was dialed to
    mu,            \* holder of the ClientManager mutex
    pc,            \* program counter of each caller
    kind,          \* the operation a caller is running
    bcast,         \* whether it runs inside a ...ToOthers loop
    todo,          \* members of the broadcast snapshot not yet visited
    snap,          \* the snapshot the broadcast took
    visited,       \* peers the broadcast issued a unicast to
    tgt,           \* nodeId argument of the current unicast
    cl,            \* the *client returned by getClient
    elapsed,       \* whole seconds of the call's deadline used so far
    attempt,       \* attempts the retry interceptor has made
    sent           \* copies of the request the target received

env == <<members, noAddr, up, pendingRemove>>
pool == <<cs, connState, connNode, mu>>
callers == <<pc, kind, bcast, todo, snap, visited, tgt, cl, elapsed, attempt,
            sent>>
vars == <<env, pool, callers>>

PCs == {"idle", "next", "lock", "lookup", "dial", "call", "retry"}

TypeOK ==
    /\ members \in SUBSET Nodes /\ Self \in members
    /\ noAddr \in SUBSET (members \ {Self})
    /\ up \in SUBSET Peers
    /\ pendingRemove \in SUBSET Peers
    /\ cs \in [Nodes -> ConnIds \cup {NoConn}]
    /\ connState \in [ConnIds -> {"none", "open", "closed"}]
    /\ connNode \in [ConnIds -> Nodes]
    /\ mu \in Callers \cup {NoCaller}
    /\ pc \in [Callers -> PCs]
    /\ kind \in [Callers -> Kinds]
    /\ bcast \in [Callers -> BOOLEAN]
    /\ todo \in [Callers -> SUBSET Nodes]
    /\ snap \in [Callers -> SUBSET Nodes]
    /\ visited \in [Callers -> SUBSET Nodes]
    /\ tgt \in [Callers -> Nodes]
    /\ cl \in [Callers -> ConnIds \cup {NoConn}]
    /\ elapsed \in [Callers -> 0..10 * ReqTimeout]
    /\ attempt \in [Callers -> 0..(MaxAttempts - 1)]
    /\ sent \in [Callers -> Nat]

Init ==
    /\ \E m \in SUBSET Peers : members = m \cup {Self}
    /\ \E na \in SUBSET (members \ {Self}) : noAddr = na
    /\ \E u \in SUBSET Peers : up = u
    /\ pendingRemove = {}
    /\ cs = [n \in Nodes |-> NoConn]           \* NewClientManager
    /\ connState = [i \in ConnIds |-> "none"]
    /\ connNode = [i \in ConnIds |-> Self]   \* not read before a dial
    /\ mu = NoCaller
    /\ pc = [c \in Callers |-> "idle"]
    /\ kind = [c \in Callers |-> CHOOSE k \in Kinds : TRUE] \* not read while idle
    /\ bcast = [c \in Callers |-> FALSE]
    /\ todo = [c \in Callers |-> {}]
    /\ snap = [c \in Callers |-> {}]
    /\ visited = [c \in Callers |-> {}]
    /\ tgt = [c \in Callers |-> Self]        \* not read while idle
    /\ cl = [c \in Callers |-> NoConn]
    /\ elapsed = [c \in Callers |-> 0]
    /\ attempt = [c \in Callers |-> 0]
    /\ sent = [c \in Callers |-> 0]

-----------------------------------------------------------------------------------------------------------------------------------------------------
(* Relay client API.                                                       *)

\* The state of a ...ToOthers loop, and of the unicast in progress.
loop == <<kind, bcast, todo, snap, visited>>
call == <<tgt, cl, elapsed, attempt, sent>>

\* A unicast starts: nodeId is n, nothing sent yet.
BeginCall(c, n) ==
    /\ pc' = [pc EXCEPT ![c] = "lock"]
    /\ tgt' = [tgt EXCEPT ![c] = n]
    /\ sent' = [sent EXCEPT ![c] = 0]
    /\ UNCHANGED <<cl, elapsed, attempt>>

\* A unicast returns (its ctx is cancelled and its client dropped), to the
\* broadcast loop or to the caller; sent keeps what the target received.
Finish(c) ==
    /\ pc' = [pc EXCEPT ![c] = IF bcast[c] THEN "next" ELSE "idle"]
    /\ tgt' = [tgt EXCEPT ![c] = Self]
    /\ cl' = [cl EXCEPT ![c] = NoConn]
    /\ elapsed' = [elapsed EXCEPT ![c] = 0]
    /\ attempt' = [attempt EXCEPT ![c] = 0]

\* RelayPublishPacket, ConnectNotifyToNode, RelayRaftApply, RelayRaftJoin
\* called directly with a target peer.
StartUnicast(c, k, n) ==
    /\ pc[c] = "idle"
    /\ kind' = [kind EXCEPT ![c] = k]
    /\ BeginCall(c, n)
    /\ UNCHANGED <<env, pool, bcast, todo, snap, visited>>

\* ConnectNotifyToOthers, RaftApplyToOthers, RaftJoinToOthers: take the
\* snapshot ms := c.agent.membership.Members().
StartBroadcast(c, k) ==
    /\ pc[c] = "idle"
    /\ pc' = [pc EXCEPT ![c] = "next"]
    /\ kind' = [kind EXCEPT ![c] = k]
    /\ bcast' = [bcast EXCEPT ![c] = TRUE]
    /\ todo' = [todo EXCEPT ![c] = members]
    /\ snap' = [snap EXCEPT ![c] = members]
    /\ sent' = [sent EXCEPT ![c] = 0]
    /\ UNCHANGED <<env, pool, visited, tgt, cl, elapsed, attempt>>

\* One iteration of `for _, m := range ms`: `continue` on the local name,
\* otherwise relay to m.  Members() has no fixed order: any m may be next.
\* Mutant: `break` instead of `continue` on the local name.
SkipSelfBreak(c) ==
    /\ pc[c] = "next"
    /\ Self \in todo[c]
    /\ todo' = [todo EXCEPT ![c] = {}]
    /\ UNCHANGED <<env, pool, pc, kind, bcast, snap, visited, call>>

SkipSelf(c) ==
    /\ pc[c] = "next"
    /\ Self \in todo[c]
    /\ todo' = [todo EXCEPT ![c] = @ \ {Self}]
    /\ UNCHANGED <<env, pool, pc, kind, bcast, snap, visited, call>>

NextMember(c, m) ==
    /\ pc[c] = "next"
    /\ m \in todo[c] \ {Self}
    /\ todo' = [todo EXCEPT ![c] = @ \ {m}]
    /\ visited' = [visited EXCEPT ![c] = @ \cup {m}]
    /\ BeginCall(c, m)
    /\ UNCHANGED <<env, pool, kind, bcast, snap>>

\* The range loop ends.
EndBroadcast(c) ==
    /\ pc[c] = "next"
    /\ todo[c] = {}
    /\ pc' = [pc EXCEPT ![c] = "idle"]
    /\ bcast' = [bcast EXCEPT ![c] = FALSE]
    /\ snap' = [snap EXCEPT ![c] = {}]
    /\ visited' = [visited EXCEPT ![c] = {}]
    /\ UNCHANGED <<env, pool, kind, todo, call>>

-----------------------------------------------------------------------------
(* getClient: c.Lock(); defer c.Unlock().                                  *)

\* Mutant: the map is read without taking c's mutex.
LockFree(c) ==
    /\ pc[c] = "lock"
    /\ mu' = c
    /\ pc' = [pc EXCEPT ![c] = "lookup"]
    /\ UNCHANGED <<env, cs, connState, connNode, loop, call>>

Lock(c) ==
    /\ pc[c] = "lock"
    /\ mu = NoCaller
    /\ mu' = c
    /\ pc' = [pc EXCEPT ![c] = "lookup"]
    /\ UNCHANGED <<env, cs, connState, connNode, loop, call>>

\* Mutant: the cache-hit return path does not release the mutex.
LookupHitKeepLock(c) ==
    /\ pc[c] = "lookup"
    /\ cs[tgt[c]] # NoConn
    /\ cl' = [cl EXCEPT ![c] = cs[tgt[c]]]
    /\ pc' = [pc EXCEPT ![c] = "call"]
    /\ UNCHANGED <<env, pool, loop, tgt, elapsed, attempt, sent>>

\* sc, ok := c.cs[nodeId]; ok: return the cached client.
LookupHit(c) ==
    /\ pc[c] = "lookup"
    /\ cs[tgt[c]] # NoConn
    /\ cl' = [cl EXCEPT ![c] = cs[tgt[c]]]
    /\ mu' = NoCaller
    /\ pc' = [pc EXCEPT ![c] = "call"]
    /\ UNCHANGED <<env, cs, connState, connNode, loop, tgt, elapsed,
                   attempt, sent>>

\* getNodeAddr finds no member, or getGrpcAddr gives "": "node not found";
\* the caller logs it and returns.
LookupNotFound(c) ==
    /\ pc[c] = "lookup"
    /\ cs[tgt[c]] = NoConn
    /\ tgt[c] \notin members \/ tgt[c] \in noAddr
    /\ mu' = NoCaller
    /\ Finish(c)
    /\ UNCHANGED <<env, cs, connState, connNode, loop, sent>>

\* Cache miss for a member with an address: go on to dial, mutex held.
LookupMiss(c) ==
    /\ pc[c] = "lookup"
    /\ cs[tgt[c]] = NoConn
    /\ tgt[c] \in members \ noAddr
    /\ pc' = [pc EXCEPT ![c] = "dial"]
    /\ UNCHANGED <<env, pool, loop, call>>

\* A connection object no one refers to any more (never dialed, or closed
\* and dropped by every holder) can stand for the next one dialed; which
\* one does is immaterial.
FreeConns == {i \in ConnIds :
                /\ connState[i] # "open"
                /\ \A n \in Nodes : cs[n] # i
                /\ \A d \in Callers : cl[d] # i}

\* grpc.DialContext succeeds (it does not block: no WithBlock); the new
\* client is stored in c.cs[nodeId] unconditionally and returned.
Dial(c) ==
    /\ pc[c] = "dial"
    /\ FreeConns # {}
    /\ LET i == CHOOSE i \in FreeConns : TRUE IN
         /\ connState' = [connState EXCEPT ![i] = "open"]
         /\ connNode' = [connNode EXCEPT ![i] = tgt[c]]
         /\ cs' = [cs EXCEPT ![tgt[c]] = i]
         /\ cl' = [cl EXCEPT ![c] = i]
    /\ mu' = NoCaller
    /\ pc' = [pc EXCEPT ![c] = "call"]
    /\ UNCHANGED <<env, loop, tgt, elapsed, attempt, sent>>

\* "dialing failed": nothing is cached, the caller logs and returns.
DialFail(c) ==
    /\ pc[c] = "dial"
    /\ mu' = NoCaller
    /\ Finish(c)
    /\ UNCHANGED <<env, cs, connState, connNode, loop, sent>>

-----------------------------------------------------------------------------
(* client.<Method>(ctx, &req) through the retry interceptor.               *)

\* The connection was Close()d by RemoveGrpcClient after getClient
\* returned it: the attempt fails with Canceled, which is not retried.
CallCanceled(c) ==
    /\ pc[c] = "call"
    /\ connState[cl[c]] = "closed"
    /\ Finish(c)
    /\ UNCHANGED <<env, pool, loop, sent>>

\* The context deadline expires during the attempt: with WaitForReady an
\* unreachable peer holds the RPC until the deadline; a reachable one has
\* received the request but not answered in time.  DeadlineExceeded of the
\* parent context is not retried.
CallDeadline(c) ==
    /\ pc[c] = "call"
    /\ connState[cl[c]] = "open"
    /\ sent' = [sent EXCEPT ![c] = IF connNode[cl[c]] \in up THEN @ + 1 ELSE @]
    /\ Finish(c)
    /\ UNCHANGED <<env, pool, loop>>

\* The peer handles the request and answers {ok: true}.
CallOk(c) ==
    /\ pc[c] = "call"
    /\ connState[cl[c]] = "open"
    /\ connNode[cl[c]] \in up
    /\ sent' = [sent EXCEPT ![c] = @ + 1]
    /\ Finish(c)
    /\ UNCHANGED <<env, pool, loop>>

\* The transport fails the attempt with Unavailable (stream reset, GOAWAY
\* of MaxConnectionAge) before or after the peer got the request (got),
\* within d more seconds.
Unavailable(c, d, got) ==
    /\ pc[c] = "call"
    /\ connState[cl[c]] = "open"
    /\ connNode[cl[c]] \in up
    /\ elapsed[c] + d < Deadline(kind[c])
    /\ sent' = [sent EXCEPT ![c] = @ + got]

\* Mutant: the attempt bound is checked one too late.
CallRetryExtra(c) ==
    /\ attempt[c] + 1 <= MaxAttempts
    /\ \E d, got \in 0..1 :
         /\ Unavailable(c, d, got)
         /\ elapsed' = [elapsed EXCEPT ![c] = @ + d]
    /\ attempt' = [attempt EXCEPT ![c] = @ + 1]
    /\ pc' = [pc EXCEPT ![c] = "retry"]
    /\ UNCHANGED <<env, pool, loop, tgt, cl>>

\* Attempts remain: the interceptor goes on to waitRetryBackoff.
CallRetry(c) ==
    /\ attempt[c] + 1 < MaxAttempts
    /\ \E d, got \in 0..1 :
         /\ Unavailable(c, d, got)
         /\ elapsed' = [elapsed EXCEPT ![c] = @ + d]
    /\ attempt' = [attempt EXCEPT ![c] = @ + 1]
    /\ pc' = [pc EXCEPT ![c] = "retry"]
    /\ UNCHANGED <<env, pool, loop, tgt, cl>>

\* The last of the WithMax attempts failed: the call fails.
CallGiveUp(c) ==
    /\ attempt[c] + 1 >= MaxAttempts
    /\ \E d, got \in 0..1 : Unavailable(c, d, got)
    /\ Finish(c)
    /\ UNCHANGED <<env, pool, loop>>

\* Mutant: a backoff that ends exactly at the deadline still retries.
RetryWaitTie(c) ==
    /\ pc[c] = "retry"
    /\ elapsed[c] + Backoff(attempt[c]) <= Deadline(kind[c])
    /\ elapsed' = [elapsed EXCEPT ![c] = @ + Backoff(attempt[c])]
    /\ pc' = [pc EXCEPT ![c] = "call"]
    /\ UNCHANGED <<env, pool, loop, tgt, cl, attempt, sent>>

\* waitRetryBackoff: the backoff timer fires before the parent deadline
\* (the attempt took a positive fraction of a second beyond elapsed).
RetryWait(c) ==
    /\ pc[c] = "retry"
    /\ elapsed[c] + Backoff(attempt[c]) < Deadline(kind[c])
    /\ elapsed' = [elapsed EXCEPT ![c] = @ + Backoff(attempt[c])]
    /\ pc' = [pc EXCEPT ![c] = "call"]
    /\ UNCHANGED <<env, pool, loop, tgt, cl, attempt, sent>>

\* The parent context is done while waiting: the call fails.
RetryExpired(c) ==
    /\ pc[c] = "retry"
    /\ elapsed[c] + Backoff(attempt[c]) >= Deadline(kind[c])
    /\ Finish(c)
    /\ UNCHANGED <<env, pool, loop, sent>>

-----
(* RemoveGrpcClient and the environment.                                   *)

\* Mutant: the entry is deleted but its connection is not closed.
RemoveNoClose(n) ==
    /\ n \in pendingRemove
    /\ pendingRemove' = pendingRemove \ {n}
    /\ cs' = [cs EXCEPT ![n] = NoConn]
    /\ UNCHANGED <<members, noAddr, up, connState, connNode, mu, callers>>

\* RemoveGrpcClient(nodeId), run on the membership layer's departure event;
\* it reads, deletes and closes without taking c's mutex.
RemoveGrpcClient(n) ==
    /\ n \in pendingRemove
    /\ pendingRemove' = pendingRemove \ {n}
    /\ cs' = [cs EXCEPT ![n] = NoConn]
    /\ IF cs[n] # NoConn
         THEN /\ connState' = [connState EXCEPT ![cs[n]] = "closed"]
              /\ connNode' = [connNode EXCEPT ![cs[n]] = Self]  \* dials nowhere
         ELSE UNCHANGED <<connState, connNode>>
    /\ UNCHANGED <<members, noAddr, up, mu, callers>>

\* A peer leaves the membership; its removal from the pool is due.
Leave(n) ==
    /\ n \in members \ {Self}
    /\ members' = members \ {n}
    /\ noAddr' = noAddr \ {n}
    /\ pendingRemove' = pendingRemove \cup {n}
    /\ UNCHANGED <<up, pool, callers>>

\* A peer (re)joins, advertising a grpc address or not.
Join(n) ==
    /\ n \in Peers \ members
    /\ members' = members \cup {n}
    /\ \E hasAddr \in BOOLEAN :
         noAddr' = IF hasAddr THEN noAddr \ {n} ELSE noAddr \cup {n}
    /\ UNCHANGED <<up, pendingRemove, pool, callers>>

\* A peer's gRPC server stops or starts answering.
Crash(n) ==
    /\ n \in up
    /\ up' = up \ {n}
    /\ UNCHANGED <<members, noAddr, pendingRemove, pool, callers>>

Recover(n) ==
    /\ n \in Peers \ up
    /\ up' = up \cup {n}
    /\ UNCHANGED <<members, noAddr, pendingRemove, pool, callers>>

-----------------------------------------------------------------------------

\* Every step of a relay already started.
CallerStep(c) ==
    \/ SkipSelf(c) \/ (\E m \in Peers : NextMember(c, m)) \/ EndBroadcast(c)
    \/ Lock(c) \/ LookupHit(c) \/ LookupNotFound(c) \/ LookupMiss(c)
    \/ Dial(c) \/ DialFail(c)
    \/ CallCanceled(c) \/ CallDeadline(c) \/ CallOk(c)
    \/ CallRetry(c) \/ CallGiveUp(c)
    \/ RetryWait(c) \/ RetryExpired(c)

Start(c) ==
    \/ \E k \in Kinds, n \in Peers : StartUnicast(c, k, n)
    \/ \E k \in BroadcastKinds : StartBroadcast(c, k)

Environment ==
    \E n \in Peers :
        RemoveGrpcClient(n) \/ Leave(n) \/ Join(n) \/ Crash(n) \/ Recover(n)

Next ==
    \/ \E c \in Callers : Start(c) \/ CallerStep(c)
    \/ Environment

\* Goroutines are preemptively scheduled, so a started relay keeps being
\* scheduled; sync.Mutex hands the lock to a waiter that has waited over
\* 1ms (starvation mode), so lock acquisition is strongly fair.
Fairness ==
    \A c \in Callers : WF_vars(CallerStep(c)) /\ SF_vars(Lock(c))

Spec == Init /\ [][Next]_vars
FairSpec == Spec /\ Fairness

-----------------------------------------------------------------------------
(* The invariant that makes PoolExact inductive: the mutex is held exactly  *)
(* by the caller between Lock and the end of getClient, which therefore    *)
(* dials only for a node with no cached client; a waiting backoff follows  *)
(* at least one attempt; a caller in a call holds a dialed connection.     *)

MutexInv ==
    /\ \A c \in Callers : pc[c] \in {"lookup", "dial"} <=> mu = c

DialInv ==
    \A c \in Callers : pc[c] = "dial" => cs[tgt[c]] = NoConn

CallInv ==
    \A c \in Callers :
        /\ pc[c] = "retry" => attempt[c] >= 1
        /\ pc[c] \in {"call", "retry"} => cl[c] \in ConnIds /\ connState[cl[c]] # "none"

\* The invariant that makes BroadcastExact inductive: an idle caller runs
\* no broadcast, one at the range loop runs one, and one outside a
\* broadcast has visited nothing; during a
\* broadcast, the peers visited and the peers still to visit make up the
\* snapshot without the local node.
BroadcastInv ==
    \A c \in Callers :
        /\ pc[c] = "idle" => ~bcast[c]
        /\ pc[c] = "next" => bcast[c]
        /\ ~bcast[c] => visited[c] = {}
        /\ bcast[c] => visited[c] \cup (todo[c] \ {Self}) = snap[c] \ {Self}

\* The invariant that makes DeliveriesPerCall inductive: each attempt
\* delivers at most one copy, so a call at attempt a has delivered at most
\* a copies; an operation with the ReqTimeout deadline never gets past its
\* first backoff, so it is only ever at attempt 0 in a call and 1 in a wait.
DeliveryInv ==
    \A c \in Callers :
        /\ pc[c] \in {"idle", "next"} => attempt[c] = 0
        /\ pc[c] \in {"lock", "lookup", "dial"} => sent[c] = 0 /\ attempt[c] = 0
        /\ pc[c] \in {"call", "retry"} => sent[c] <= attempt[c]
        /\ kind[c] # "apply" /\ pc[c] = "call" => attempt[c] = 0
        /\ kind[c] # "apply" /\ pc[c] = "retry" => attempt[c] = 1

-----------------------------------------------------------------------------
(* Properties.                                                             *)

\* The pool holds exactly the open connections: every cached client is an
\* open connection dialed to the node it is cached under, and every open
\* connection is the one cached for its node (none leaked by an overwrite
\* in getClient or a delete without Close in RemoveGrpcClient).
PoolExact ==
    /\ \A n \in Nodes : cs[n] # NoConn =>
          /\ connState[cs[n]] = "open"
          /\ connNode[cs[n]] = n
    /\ \A i \in ConnIds : connState[i] = "open" => cs[connNode[i]] = i

\* The inductive invariant of PoolExact.
PoolIInv == TypeOK /\ MutexInv /\ DialInv /\ CallInv /\ PoolExact

\* Spec 8.3: getClient returns the same client to every caller until
\* RemoveGrpcClient evicts it; a cached client is never replaced in place.
SameClientUntilRemoved ==
    [][\A n \in Nodes : cs[n] # NoConn /\ cs'[n] # NoConn => cs'[n] = cs[n]]_cs

\* Spec 8.4: a ...ToOthers broadcast relays to no node outside its
\* snapshot and never to the local node, and when the range loop ends it
\* has relayed to every other member of the snapshot.
BroadcastExact ==
    \A c \in Callers : bcast[c] =>
        /\ visited[c] \subseteq snap[c] \ {Self}
        /\ pc[c] = "next" /\ todo[c] = {} => visited[c] = snap[c] \ {Self}

\* Retries of the interceptor never deliver a request with the ReqTimeout
\* deadline twice (the first backoff already reaches the deadline); a
\* RaftApply, with ten times the deadline, is delivered at most WithMax times.
DeliveriesPerCall ==
    \A c \in Callers :
        sent[c] <= IF kind[c] = "apply" THEN MaxAttempts ELSE 1

\* Spec 6.5 / 8.5: every relay that starts ends (no call hangs).
CallsComplete == \A c \in Callers : pc[c] # "idle" ~> pc[c] = "idle"

\* Spec 3 and 8.3: once RemoveGrpcClient has run for a departed node, no
\* client for it stays cached while it is not a member.
RemovedNotCached ==
    \A n \in Peers : n \notin members /\ n \notin pendingRemove => cs[n] = NoConn

=============================================================================
