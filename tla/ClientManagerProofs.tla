------------------------ MODULE ClientManagerProofs ------------------------
(***************************************************************************)
(* Proofs about the client pool of ClientManager, for every value of the   *)
(* constants that ConstAssumption and BackoffAssumption allow.             *)
(*                                                                         *)
(* PoolExact alone is not inductive: a Dial step installs a new client     *)
(* under tgt[c] unconditionally (c.cs[nodeId] = wrapClient), so it keeps   *)
(* the pool exact only because no client is cached for tgt[c] at that      *)
(* moment (DialInv), which holds because the mutex is held from the cache  *)
(* lookup to the install (MutexInv) and RemoveGrpcClient only deletes.     *)
(***************************************************************************)
EXTENDS ClientManager, TLAPS

\* The initial states satisfy the inductive invariant.
LEMMA PoolIInvInit == Init => PoolIInv
  <1> SUFFICES ASSUME Init PROVE PoolIInv
    OBVIOUS
  <1>1. TypeOK
    <2>1. (CHOOSE k \in Kinds : TRUE) \in Kinds
      BY Zenon DEF Kinds
    <2>2. QED
      BY <2>1, ConstAssumption DEF Init, TypeOK, Nodes, PCs
  <1>2. MutexInv /\ DialInv /\ CallInv /\ PoolExact
    BY ConstAssumption DEF Init, MutexInv, DialInv, CallInv, PoolExact
  <1>3. QED
    BY <1>1, <1>2 DEF PoolIInv

\* Each step of a caller or of the environment keeps the invariant.
LEMMA PoolIInvStep == PoolIInv /\ [Next]_vars => PoolIInv'
  <1> SUFFICES ASSUME PoolIInv, [Next]_vars PROVE PoolIInv'
    OBVIOUS
  <1> USE ConstAssumption, BackoffAssumption
      DEF PoolIInv, TypeOK, MutexInv, DialInv, CallInv, PoolExact, Nodes, PCs
  <1>1. ASSUME NEW c \in Callers, NEW k \in Kinds, NEW n \in Peers,
               StartUnicast(c, k, n)
        PROVE PoolIInv'
    BY <1>1 DEF StartUnicast, BeginCall, env, pool
  <1>2. ASSUME NEW c \in Callers, NEW k \in BroadcastKinds,
               StartBroadcast(c, k)
        PROVE PoolIInv'
    BY <1>2 DEF StartBroadcast, BroadcastKinds, Kinds, env, pool
  <1>3. ASSUME NEW c \in Callers, SkipSelf(c) PROVE PoolIInv'
    BY <1>3 DEF SkipSelf, env, pool, call
  <1>4. ASSUME NEW c \in Callers, NEW m \in Peers, NextMember(c, m)
        PROVE PoolIInv'
    BY <1>4 DEF NextMember, BeginCall, env, pool
  <1>5. ASSUME NEW c \in Callers, EndBroadcast(c) PROVE PoolIInv'
    BY <1>5 DEF EndBroadcast, env, pool, call
  <1>6. ASSUME NEW c \in Callers, Lock(c) PROVE PoolIInv'
    BY <1>6 DEF Lock, env, loop, call
  <1>7. ASSUME NEW c \in Callers, LookupHit(c) PROVE PoolIInv'
    BY <1>7 DEF LookupHit, env, loop
  <1>8. ASSUME NEW c \in Callers, LookupNotFound(c) PROVE PoolIInv'
    BY <1>8 DEF LookupNotFound, Finish, env, loop
  <1>9. ASSUME NEW c \in Callers, LookupMiss(c) PROVE PoolIInv'
    BY <1>9 DEF LookupMiss, env, pool, loop, call
  <1>10. ASSUME NEW c \in Callers, Dial(c) PROVE PoolIInv'
    BY <1>10 DEF Dial, FreeConns, env, loop
  <1>11. ASSUME NEW c \in Callers, DialFail(c) PROVE PoolIInv'
    BY <1>11 DEF DialFail, Finish, env, loop
  <1>12. ASSUME NEW c \in Callers, CallCanceled(c) PROVE PoolIInv'
    BY <1>12 DEF CallCanceled, Finish, env, pool, loop
  <1>13. ASSUME NEW c \in Callers, CallDeadline(c) PROVE PoolIInv'
    BY <1>13 DEF CallDeadline, Finish, env, pool, loop
  <1>14. ASSUME NEW c \in Callers, CallOk(c) PROVE PoolIInv'
    BY <1>14 DEF CallOk, Finish, env, pool, loop
  <1>15. ASSUME NEW c \in Callers, CallRetry(c) PROVE PoolIInv'
    BY <1>15 DEF CallRetry, Unavailable, Deadline, env, pool, loop
  <1>16. ASSUME NEW c \in Callers, CallGiveUp(c) PROVE PoolIInv'
    BY <1>16 DEF CallGiveUp, Unavailable, Finish, env, pool, loop
  <1>17. ASSUME NEW c \in Callers, RetryWait(c) PROVE PoolIInv'
    BY <1>17 DEF RetryWait, Deadline, env, pool, loop
  <1>18. ASSUME NEW c \in Callers, RetryExpired(c) PROVE PoolIInv'
    BY <1>18 DEF RetryExpired, Finish, env, pool, loop
  <1>19. ASSUME NEW n \in Peers, RemoveGrpcClient(n) PROVE PoolIInv'
    <2>1. CASE cs[n] = NoConn
      BY <1>19, <2>1 DEF RemoveGrpcClient, callers
    <2>2. CASE cs[n] # NoConn
      <3> DEFINE j == cs[n]
      <3>1. /\ j \in ConnIds /\ connState[j] = "open" /\ connNode[j] = n
            /\ cs' = [cs EXCEPT ![n] = NoConn]
            /\ connState' = [connState EXCEPT ![j] = "closed"]
            /\ connNode' = [connNode EXCEPT ![j] = Self]
            /\ UNCHANGED <<members, noAddr, up, mu, callers>>
        BY <1>19, <2>2 DEF RemoveGrpcClient
      <3>2. TypeOK'
        <4>1. cs' \in [Nodes -> ConnIds \cup {NoConn}]
          BY <3>1
        <4>2. connState' \in [ConnIds -> {"none", "open", "closed"}]
          BY <3>1
        <4>3. connNode' \in [ConnIds -> Nodes]
          BY <3>1
        <4>4. /\ UNCHANGED <<members, noAddr, up, mu>>
              /\ UNCHANGED <<pc, kind, bcast, todo, snap, visited, tgt, cl>>
              /\ UNCHANGED <<elapsed, attempt, sent>>
          BY <3>1 DEF callers
        <4>5. pendingRemove' \in SUBSET Peers
          BY <1>19 DEF RemoveGrpcClient
        <4>6. QED
          BY <4>1, <4>2, <4>3, <4>4, <4>5
      <3>6. (MutexInv /\ DialInv)'
        BY <3>1 DEF callers
      <3>7. CallInv'
        BY <3>1 DEF callers
      <3>3. ASSUME NEW m \in Nodes, cs'[m] # NoConn
            PROVE  connState'[cs'[m]] = "open" /\ connNode'[cs'[m]] = m
        <4>1. m # n /\ cs'[m] = cs[m]
          BY <3>1, <3>3
        <4>2. cs[m] # j
          BY <4>1, <3>1, <3>3
        <4>3. QED
          BY <4>1, <4>2, <3>1, <3>3
      <3>4. ASSUME NEW i \in ConnIds, connState'[i] = "open"
            PROVE  cs'[connNode'[i]] = i
        <4>1. i # j /\ connState[i] = "open" /\ connNode'[i] = connNode[i]
          BY <3>1, <3>4
        <4>2. cs[connNode[i]] = i /\ connNode[i] # n
          BY <4>1, <3>1
        <4>3. QED
          BY <4>1, <4>2, <3>1
      <3>5. QED
        BY <3>2, <3>3, <3>4, <3>6, <3>7
    <2>3. QED
      BY <2>1, <2>2
  <1>20. ASSUME NEW n \in Peers, Leave(n) PROVE PoolIInv'
    BY <1>20 DEF Leave, pool, callers
  <1>21. ASSUME NEW n \in Peers, Join(n) PROVE PoolIInv'
    BY <1>21 DEF Join, pool, callers
  <1>22. ASSUME NEW n \in Peers, Crash(n) PROVE PoolIInv'
    BY <1>22 DEF Crash, pool, callers
  <1>23. ASSUME NEW n \in Peers, Recover(n) PROVE PoolIInv'
    BY <1>23 DEF Recover, pool, callers
  <1>24. CASE UNCHANGED vars
    BY <1>24 DEF vars, env, pool, callers
  <1>25. QED
    BY <1>1, <1>2, <1>3, <1>4, <1>5, <1>6, <1>7, <1>8, <1>9, <1>10, <1>11,
       <1>12, <1>13, <1>14, <1>15, <1>16, <1>17, <1>18, <1>19, <1>20, <1>21,
       <1>22, <1>23, <1>24
       DEF Next, Start, CallerStep, Environment

\* The inductive invariant holds in every state of every behaviour.
LEMMA PoolIInvariant == Spec => []PoolIInv
  BY PoolIInvInit, PoolIInvStep, PTL DEF Spec

\* Type correctness: every variable of the pool, of the callers and of the
\* environment always has the type TypeOK gives it, for any number of
\* peers, goroutines and connections and any ReqTimeout and WithMax.
THEOREM TypeCorrect == Spec => []TypeOK
  BY PoolIInvariant, PTL DEF PoolIInv

\* The pool holds exactly the open connections (PoolExact): getClient,
\* holding c's mutex from the lookup to the install, never overwrites or
\* leaks a client, and RemoveGrpcClient closes what it deletes, however
\* the goroutines, RemoveGrpcClient and membership changes interleave.
THEOREM PoolExactInvariant == Spec => []PoolExact
  BY PoolIInvariant, PTL DEF PoolIInv

-----------------------------------------------------------------------------
(* Broadcasts.                                                             *)

LEMMA BroadcastInvInit == Init => BroadcastInv
  BY DEF Init, BroadcastInv

\* Only the loop steps of a ...ToOthers broadcast and the return of a
\* unicast (Finish, which goes back to the loop or to idle) touch the
\* broadcast state or the idle phase.
LEMMA BroadcastInvStep ==
    TypeOK /\ BroadcastInv /\ [Next]_vars => BroadcastInv'
  <1> SUFFICES ASSUME TypeOK, BroadcastInv, [Next]_vars PROVE BroadcastInv'
    OBVIOUS
  <1> USE DEF BroadcastInv, TypeOK
  <1>1. ASSUME NEW c \in Callers, NEW k \in Kinds, NEW n \in Peers,
               StartUnicast(c, k, n)
        PROVE BroadcastInv'
    BY <1>1 DEF StartUnicast, BeginCall
  <1>2. ASSUME NEW c \in Callers, NEW k \in BroadcastKinds,
               StartBroadcast(c, k)
        PROVE BroadcastInv'
    BY <1>2 DEF StartBroadcast
  <1>3. ASSUME NEW c \in Callers, SkipSelf(c) PROVE BroadcastInv'
    BY <1>3 DEF SkipSelf
  <1>4. ASSUME NEW c \in Callers, NEW m \in Peers, NextMember(c, m)
        PROVE BroadcastInv'
    BY <1>4 DEF NextMember, BeginCall
  <1>5. ASSUME NEW c \in Callers, EndBroadcast(c) PROVE BroadcastInv'
    BY <1>5 DEF EndBroadcast
  <1>6. ASSUME NEW c \in Callers,
               Lock(c) \/ LookupHit(c) \/ LookupMiss(c) \/ Dial(c)
               \/ CallRetry(c) \/ RetryWait(c)
        PROVE BroadcastInv'
    BY <1>6 DEF Lock, LookupHit, LookupMiss, Dial, CallRetry, RetryWait,
                loop
  <1>7. ASSUME NEW c \in Callers,
               LookupNotFound(c) \/ DialFail(c) \/ CallCanceled(c)
               \/ CallDeadline(c) \/ CallOk(c) \/ CallGiveUp(c)
               \/ RetryExpired(c)
        PROVE BroadcastInv'
    BY <1>7 DEF LookupNotFound, DialFail, CallCanceled, CallDeadline, CallOk,
                CallGiveUp, RetryExpired, Finish, loop
  <1>8. ASSUME NEW n \in Peers,
               RemoveGrpcClient(n) \/ Leave(n) \/ Join(n) \/ Crash(n)
               \/ Recover(n)
        PROVE BroadcastInv'
    BY <1>8 DEF RemoveGrpcClient, Leave, Join, Crash, Recover, callers
  <1>9. CASE UNCHANGED vars
    BY <1>9 DEF vars, callers
  <1>10. QED
    BY <1>1, <1>2, <1>3, <1>4, <1>5, <1>6, <1>7, <1>8, <1>9
       DEF Next, Start, CallerStep, Environment

\* Spec 8.4, for every number of peers and goroutines: a ...ToOthers
\* broadcast relays only to other members of its membership snapshot, never
\* to the local node, and by the end of its range loop it has relayed to
\* every one of them, whatever joins, leaves and failures interleave.
THEOREM BroadcastExactInvariant == Spec => []BroadcastExact
  <1>1. Init => PoolIInv /\ BroadcastInv
    BY PoolIInvInit, BroadcastInvInit
  <1>2. PoolIInv /\ BroadcastInv /\ [Next]_vars => (PoolIInv /\ BroadcastInv)'
    BY PoolIInvStep, BroadcastInvStep DEF PoolIInv
  <1>3. BroadcastInv => BroadcastExact
    BY DEF BroadcastInv, BroadcastExact
  <1>4. QED
    BY <1>1, <1>2, <1>3, PTL DEF Spec


-----------------------------------------------------------------------------
(* Copies delivered per call.                                              *)

\* The first backoff of the interceptor is a whole ReqTimeout.
LEMMA FirstBackoff == Backoff(1) = ReqTimeout
  BY ConstAssumption DEF Backoff

DeliveryIInv == DeliveryInv /\ DeliveriesPerCall

LEMMA DeliveryIInvInit == Init => DeliveryIInv
  BY ConstAssumption DEF Init, DeliveryIInv, DeliveryInv, DeliveriesPerCall

\* An operation with the ReqTimeout deadline cannot wait out its first
\* backoff: the wait alone reaches the deadline.
LEMMA NoSecondAttempt ==
    ASSUME TypeOK, DeliveryInv, NEW c \in Callers, kind[c] # "apply",
           pc[c] = "retry"
    PROVE  ~(elapsed[c] + Backoff(attempt[c]) < Deadline(kind[c]))
  <1>1. attempt[c] = 1
    BY DEF DeliveryInv
  <1>2. elapsed[c] \in Nat
    BY ConstAssumption DEF TypeOK
  <1>3. QED
    BY <1>1, <1>2, FirstBackoff, ConstAssumption DEF Deadline

\* Every step keeps the count of delivered copies within the attempts made.
LEMMA DeliveryIInvStep ==
    PoolIInv /\ DeliveryIInv /\ [Next]_vars => DeliveryIInv'
  <1> SUFFICES ASSUME PoolIInv, DeliveryIInv, [Next]_vars
               PROVE  DeliveryIInv'
    OBVIOUS
  <1> USE ConstAssumption
          DEF PoolIInv, TypeOK, CallInv, DeliveryIInv, DeliveryInv,
              DeliveriesPerCall, PCs
  <1>1. ASSUME NEW c \in Callers, NEW k \in Kinds, NEW n \in Peers,
               StartUnicast(c, k, n)
        PROVE DeliveryIInv'
    BY <1>1 DEF StartUnicast, BeginCall
  <1>2. ASSUME NEW c \in Callers, NEW k \in BroadcastKinds,
               StartBroadcast(c, k)
        PROVE DeliveryIInv'
    BY <1>2 DEF StartBroadcast
  <1>3. ASSUME NEW c \in Callers,
               SkipSelf(c) \/ EndBroadcast(c) \/ \E m \in Peers : NextMember(c, m)
        PROVE DeliveryIInv'
    BY <1>3 DEF SkipSelf, EndBroadcast, NextMember, BeginCall, call
  <1>4. ASSUME NEW c \in Callers,
               Lock(c) \/ LookupHit(c) \/ LookupMiss(c) \/ Dial(c)
        PROVE DeliveryIInv'
    BY <1>4 DEF Lock, LookupHit, LookupMiss, Dial, loop, call
  <1>5. ASSUME NEW c \in Callers,
               LookupNotFound(c) \/ DialFail(c) \/ CallCanceled(c)
        PROVE DeliveryIInv'
    BY <1>5 DEF LookupNotFound, DialFail, CallCanceled, Finish, loop
  <1>6. ASSUME NEW c \in Callers, CallDeadline(c) \/ CallOk(c)
        PROVE DeliveryIInv'
    BY <1>6 DEF CallDeadline, CallOk, Finish, loop
  <1>7. ASSUME NEW c \in Callers, CallRetry(c) PROVE DeliveryIInv'
    BY <1>7 DEF CallRetry, Unavailable, loop
  <1>8. ASSUME NEW c \in Callers, CallGiveUp(c) PROVE DeliveryIInv'
    BY <1>8 DEF CallGiveUp, Unavailable, Finish, loop
  <1>9. ASSUME NEW c \in Callers, RetryWait(c) PROVE DeliveryIInv'
    <2>1. kind[c] = "apply"
      <3> SUFFICES ASSUME kind[c] # "apply" PROVE FALSE
        OBVIOUS
      <3>1. pc[c] = "retry"
        BY <1>9 DEF RetryWait
      <3>2. ~(elapsed[c] + Backoff(attempt[c]) < Deadline(kind[c]))
        BY <3>1, NoSecondAttempt
      <3>3. QED
        BY <3>2, <1>9 DEF RetryWait
    <2>2. QED
      BY <1>9, <2>1 DEF RetryWait, loop
  <1>10. ASSUME NEW c \in Callers, RetryExpired(c) PROVE DeliveryIInv'
    BY <1>10 DEF RetryExpired, Finish, loop
  <1>11. ASSUME NEW n \in Peers,
                RemoveGrpcClient(n) \/ Leave(n) \/ Join(n) \/ Crash(n)
                \/ Recover(n)
         PROVE DeliveryIInv'
    BY <1>11 DEF RemoveGrpcClient, Leave, Join, Crash, Recover, callers
  <1>12. CASE UNCHANGED vars
    BY <1>12 DEF vars, callers
  <1>13. QED
    BY <1>1, <1>2, <1>3, <1>4, <1>5, <1>6, <1>7, <1>8, <1>9, <1>10, <1>11,
       <1>12 DEF Next, Start, CallerStep, Environment

\* The retry interceptor's copies, for every ReqTimeout and every WithMax:
\* a publish, connect or join (deadline ReqTimeout) reaches its peer at
\* most once, because its first backoff already ends at the deadline, and a
\* RaftApply (deadline 10*ReqTimeout) at most WithMax times.
THEOREM DeliveriesInvariant == Spec => []DeliveriesPerCall
  <1>1. Init => PoolIInv /\ DeliveryIInv
    BY PoolIInvInit, DeliveryIInvInit
  <1>2. PoolIInv /\ DeliveryIInv /\ [Next]_vars => (PoolIInv /\ DeliveryIInv)'
    BY PoolIInvStep, DeliveryIInvStep
  <1>3. DeliveryIInv => DeliveriesPerCall
    BY DEF DeliveryIInv
  <1>4. QED
    BY <1>1, <1>2, <1>3, PTL DEF Spec


-----------------------------------------------------------------------------
(* No cached client is replaced in place.                                  *)

\* The step SameClientUntilRemoved allows: no node's cached client changes
\* to another client.
KeepsClients ==
    \A n \in Nodes : cs[n] # NoConn /\ cs'[n] # NoConn => cs'[n] = cs[n]

\* Only getClient's install and RemoveGrpcClient write c.cs: the install
\* writes an entry that DialInv shows empty, the removal empties one.
LEMMA KeepsClientsStep == PoolIInv /\ [Next]_vars => [KeepsClients]_cs
  <1> SUFFICES ASSUME PoolIInv, [Next]_vars PROVE [KeepsClients]_cs
    OBVIOUS
  <1>1. ASSUME NEW c \in Callers, Dial(c) PROVE KeepsClients
    <2>1. cs[tgt[c]] = NoConn /\ tgt[c] \in Nodes
      BY <1>1 DEF Dial, PoolIInv, DialInv, TypeOK
    <2>2. PICK i \in ConnIds : cs' = [cs EXCEPT ![tgt[c]] = i]
      BY <1>1 DEF Dial, FreeConns
    <2>3. QED
      BY <2>1, <2>2 DEF KeepsClients, PoolIInv, TypeOK
  <1>2. ASSUME NEW n \in Peers, RemoveGrpcClient(n) PROVE KeepsClients
    BY <1>2 DEF RemoveGrpcClient, KeepsClients, PoolIInv, TypeOK, Nodes
  <1>3. ASSUME NEW c \in Callers,
               \/ \E k \in Kinds, n \in Peers : StartUnicast(c, k, n)
               \/ \E k \in BroadcastKinds : StartBroadcast(c, k)
               \/ SkipSelf(c) \/ (\E m \in Peers : NextMember(c, m))
               \/ EndBroadcast(c) \/ Lock(c) \/ LookupHit(c)
               \/ LookupNotFound(c) \/ LookupMiss(c) \/ DialFail(c)
               \/ CallCanceled(c) \/ CallDeadline(c) \/ CallOk(c)
               \/ CallRetry(c) \/ CallGiveUp(c) \/ RetryWait(c)
               \/ RetryExpired(c)
        PROVE UNCHANGED cs
    BY <1>3 DEF StartUnicast, StartBroadcast, SkipSelf, NextMember,
                EndBroadcast, Lock, LookupHit, LookupNotFound, LookupMiss,
                DialFail, CallCanceled, CallDeadline, CallOk, CallRetry,
                CallGiveUp, RetryWait, RetryExpired, pool
  <1>4. ASSUME NEW n \in Peers, Leave(n) \/ Join(n) \/ Crash(n) \/ Recover(n)
        PROVE UNCHANGED cs
    BY <1>4 DEF Leave, Join, Crash, Recover, pool
  <1>5. CASE UNCHANGED vars
    BY <1>5 DEF vars, pool
  <1>6. QED
    BY <1>1, <1>2, <1>3, <1>4, <1>5 DEF Next, Start, CallerStep, Environment

\* Spec 8.3, for every number of peers, goroutines and connections:
\* getClient hands every caller the client cached for a node until
\* RemoveGrpcClient evicts it; no interleaving of concurrent getClient
\* calls, removals and membership changes replaces it in place.
THEOREM SameClientProperty == Spec => SameClientUntilRemoved
  <1>1. []PoolIInv /\ [][Next]_vars => [][KeepsClients]_cs
    BY KeepsClientsStep, PTL
  <1>2. QED
    BY <1>1, PoolIInvariant, PTL DEF Spec, SameClientUntilRemoved, KeepsClients

=============================================================================
