# TLA+ models of the comqtt cluster relay fabric

This directory holds the TLA+ specifications kept beside the inter-node
relay code of comqtt (`src/unnamed/part_000`) and its Redis auth plugin
(`src/plugin/auth/redis/redis.go`), the TLC configurations that
model-check them, and the TLAPS proofs about the client pool and the
auth plugin.

## 1. The system

One broker node runs the following parts.

| Part | Code | What it does |
|------|------|--------------|
| Client pool | `ClientManager`, `getClient`, `RemoveGrpcClient` (part_000:137-206) | Keeps one gRPC client per peer node id. `getClient` holds the pool mutex across the cache lookup, the membership lookup (`getNodeAddr`) and a non-blocking `DialContext`. `RemoveGrpcClient` deletes and closes an entry *without* the mutex. |
| Relay client API | `RelayPublishPacket`, `ConnectNotifyToNode`, `RelayRaftApply`, `RelayRaftJoin`, `...ToOthers` (208-313) | Each operation gets a client, then makes one call under `context.WithTimeout`. The deadline is `ReqTimeout` = 1 s, and 10 s for apply. Calls go through the `grpc_retry` interceptor (`WithMax(3)`, exponential backoff from `ReqTimeout`) and use `WaitForReady(true)`. A broadcast takes a `Members()` snapshot and calls every member except the local name, one after another. |
| RPC server | `RpcService` (50-135) | `StartRpcServer` binds the listener and serves in a goroutine. Each handler builds a `message.Message`, sends it on the agent's bounded `grpcMsgCh` (blocking while the channel is full), then replies `{Ok: true}`. `StopRpcServer` should stop the server gracefully. |
| Keepalive policy | `kaep`, `kasp`, `kacp` (31-48) | Transport parameter blocks. |
| Cluster main | `main`, `realMain`, `init*`, `onError` (361-564) | Runs the config, storage, auth, bridge and cluster-agent steps, then adds the listeners and serves. It then waits for a server error or SIGINT/SIGTERM, and shuts down with `agent.Stop()` followed by `server.Close()`. Any failed step exits with code 1. |
| Standalone main | `src/unnamed/part_001` | The same shape without a cluster agent. |
| Redis auth plugin | `src/plugin/auth/redis/redis.go` | A server hook. `Init` refuses a config of the wrong type, gives a nil config the defaults (both modes anonymous) and pings Redis. `OnConnectAuthenticate` decides each CONNECT: anonymous mode, then the blacklist, then the rule stored under the username or client id in the `comqtt:auth` hash (JSON `{allow, password}`). `OnACLCheck` decides each publish and subscribe from the fields of the `comqtt:acl:<key>` hash: filters matching the topic, values parsed with `Atoi` and converted to `auth.Access`, a byte. `Stop` closes the Redis client. |

Some collaborators are outside `src/`: the agent (its router, `Start` and
`Stop`), the membership directory and the MQTT server. They are modelled
only as far as `spec.md` describes them, and the map marks those
definitions `spec_modelled`.

The parts interact as follows:
- the router and the MQTT server produce outbound relays, which go through the pool to peers;
- a peer's relays arrive at its RPC server and are queued on its `grpcMsgCh`;
- main starts and stops everything.

## 2. Modules

| Module | Models | State | Actions |
|--------|--------|-------|---------|
| `ClientManager` | Pool and relay API | Membership (`members`, `noAddr`, `pendingRemove`) and peer reachability (`up`). The pool map `cs`, with each connection's state and dialed node, and the mutex `mu`. Per goroutine: pc, kind, broadcast snapshot and remaining entries, target, client, seconds elapsed, attempt, copies delivered. | One action per step of getClient (Lock, LookupHit, LookupNotFound, LookupMiss, Dial, DialFail). One per call outcome (CallOk, CallDeadline, CallCanceled, CallRetry, CallGiveUp, RetryWait, RetryExpired). One per broadcast step (StartBroadcast, SkipSelf, NextMember, EndBroadcast). Also RemoveGrpcClient, and the environment (Leave, Join, Crash, Recover). |
| `RpcServer` | RPC server | The server state, the `s.grpcServer` field, whether Stop has returned, per-RPC slot phase, method and action, and `grpcMsgCh` as a bounded sequence. | StartRpcServer, StartRpcServerFail, StopRpcServer, Accept, Send (blocks when full), Reply, Release, Route (the router, from the spec). |
| `Node` | Cluster main composed with `RpcServer` (EXTENDS) | The main goroutine's pc, `Members`, router, whether the channel is closed, MQTT server state, `errCh`, signal, exit status. | One action per step of `realMain`: LoadConfig, InitStorage, InitAuth, InitBridge, InitClusterNode (which runs StartRpcServer), GenTlsConfig, AddListeners, StartServe, SelectServeError, SelectSignal, AgentStop, ServerClose, Return. Also ServeError, Signal, and the handlers inside the process, including a send on a closed channel (panic). |
| `RedisAuth` | Redis auth plugin | The hook's lifecycle (`new`, `ready`, `failed`, `stopped`), `a.config`'s two modes, whether Redis answers, the auth hash (name to missing, malformed or `[allow, pw]`), the ACL hashes (name to filter to missing, non-number or an integer), and the last decision (`call`). | HookInit (Init), Stop, OnConnectAuthenticate, OnACLCheck. The environment: SetAuth, SetAcl (an operator's HSET/HDEL), RedisFail. |
| `ClientManagerProofs`, `RedisAuthProofs`, `RpcServerProofs` | TLAPS proofs about `ClientManager`, `RedisAuth` and `RpcServer` | | |
| `NodeProofs` | TLAPS proofs about `Node`, built on `RpcServerProofs` | | |
| `MC_ClientManager`, `MC_RpcServer`, `MC_Node`, `MC_RedisAuth` | TLC instances: model values and small sets | | |

Modelling choices:
- **Time** is counted in whole seconds of the call's deadline. A retry's backoff `ReqTimeout * 2^(a-1)` is added to the elapsed time. A retry happens only if the timer fires strictly before the deadline: an attempt always takes a positive fraction of a second.
- **RPC attempts.** The transport may fail an attempt with Unavailable before or after the peer received it (`got`). An unreachable peer holds the call until DeadlineExceeded, because of WaitForReady.
- **Closed connections.** A connection closed by RemoveGrpcClient fails its call with Canceled. The interceptor retries neither Canceled nor DeadlineExceeded.
- **Configuration in main.** Main reads each configuration value once, so the value is chosen at the step that reads it. External calls that can fail (Load, AddHook, AddListener, GenTlsConfig, agent.Start) are a nondeterministic choice between success and error.
- **Agent.** `agent.Start` starts the RPC server and the router. `agent.Stop` follows spec 4.F: it calls StopRpcServer, stops the router and closes the channel.
- **Auth hook calls.** Each hook call does one Redis read (HGet or HGetAll) and decides from it, so a call is one step; the decision and the fam it built are recorded in `call`. The early-return chain of each hook is kept in order in `Authenticate` and `AclCheck`. Key prefixes, logging and the Redis address are left out.
- **Auth collaborators.** `CompareHash`, `MatchTopic`, `CheckAcl` and the blacklist (`CheckBLAuth`, `CheckBLAcl`) live outside `src/`, and the spec says nothing of them. They are constants of `RedisAuth`. `CollaboratorAssumption` states what the hook relies on: the two functions return a bool, and `CheckAcl` grants only if some entry of `fam` is an access level permitting the operation (ReadOnly 1 or ReadWrite 3 for a read, WriteOnly 2 or ReadWrite 3 for a write). `MC_RedisAuth` gives them values: equality for the password hash, a `#` filter and a literal filter, and a `CheckAcl` that grants when any entry permits.

## 3. Runs

| Run | cfg | Checks | Result |
|-----|-----|--------|--------|
| pool | `MC_Pool.cfg` | TypeOK, PoolExact, DeliveriesPerCall, SameClientUntilRemoved | pass (about 600k states) |
| broadcast | `MC_Broadcast.cfg` | BroadcastExact | pass |
| calls_complete | `MC_Liveness.cfg` | CallsComplete | pass |
| remove_race | `MC_RemoveRace.cfg` | RemovedNotCached | **violation** |
| rpc_server | `MC_RpcServer.cfg` | TypeOK, AllAnswered | pass (about 3k states) |
| apply_kind | `MC_ApplyKind.cfg` | KindFromMethod | **violation** |
| stop_server | `MC_StopServer.cfg` | StopRejectsNew | **violation** |
| node | `MC_Node.cfg` | NodeTypeOK, RoutedWhileServerOpen, ExitsOnSignal | pass |
| node_shutdown | `MC_NodeShutdown.cfg` | NoSendOnClosedChannel | **violation** |
| redis_connect | `MC_RedisAuthConnect.cfg` | AuthGrantWarranted | pass (about 5.5k states) |
| redis_acl | `MC_RedisAcl.cfg` | RedisAuthTypeOK, AclGrantWarranted | pass (about 1.9M states, 2 min) |
| redis_acl_wrap | `MC_RedisAclWrap.cfg` | AclGrantWarranted | **violation** |

What the properties say:
- **PoolExact.** A cached client is open and was dialed to the node it is cached under, and every open connection is cached.
- **SameClientUntilRemoved** (spec 8.3). A cached client is never replaced by another while cached.
- **DeliveriesPerCall.** A publish, connect or join is delivered at most once per call. An apply may reach its peer up to three times (the `WithMax(3)` attempts).
- **BroadcastExact** (spec 8.4). A broadcast relays only to members of its snapshot other than the local node, and when its loop ends it has relayed to all of them.
- **CallsComplete** (spec 8.5). Every started relay returns.
- **AllAnswered.** Every accepted RPC is answered while the router drains the channel.
- **RoutedWhileServerOpen.** The router never hands a message to a closed MQTT server.
- **ExitsOnSignal.** A caught signal always ends the process.
- **AuthGrantWarranted.** A CONNECT is let in only in anonymous mode, by the blacklist, or by an allowed rule with a matching password, read from Redis while it is up and before Stop.
- **AclGrantWarranted.** A publish or subscribe is allowed only in anonymous mode, by the blacklist, or by a stored filter matching the topic whose value is an access level permitting the operation, read from Redis while it is up and before Stop.
- **RedisAuthTypeOK** includes that every `fam` maps filters to bytes.

What the violations show:
- **remove_race.** A goroutine passes getClient's membership lookup for node p. Then p leaves, and RemoveGrpcClient(p) runs while the goroutine still holds the mutex. It finds nothing to remove, because it takes no lock and so does not wait. The goroutine then installs a freshly dialed client for p: a departed node keeps an open, cached connection.
- **apply_kind.** Action 3, or 259 after truncation to uint8, turns a RaftApply into a Publish.
- **stop_server.** Because `s.grpcServer` is never assigned, StopRpcServer always returns at once.
- **node_shutdown.** After a signal, `agent.Stop` closes the channel, but the RPC server is still serving. The next inbound RPC's handler sends on the closed channel and panics.
- **redis_acl_wrap.** An operator stores 259 for a filter. `Atoi` accepts it and `auth.Access(259)` is 3, ReadWrite, so OnACLCheck grants on a value that is no access level (redis.go:202). The trace grants a subscribe. Since 3 is ReadWrite, a publish would be granted as well.

**Bounds.**
- The pool run has one peer, two goroutines and three connection ids. The pool questions are about one node's entry, and a third connection id lets a second dial happen while a closed one is still referenced.
- The broadcast run needs two peers, so that one can leave or join during a broadcast. One caller is enough.
- ReqTimeout = 1 and MaxAttempts = 3 are the code's values: with them the 1 s deadlines allow no retry, and the 10 s apply deadline allows all three attempts. DeliveriesPerCall separates exactly these two cases.
- The RPC server run uses two slots on a one-place channel. A handler blocked on the full channel can be passed over again and again by the other slot, which keeps taking new RPCs. Two slots are enough for that, and AllAnswered is about exactly that case. The violation runs apply_kind and stop_server use three slots.
- Symmetry is used only in safety runs, over the interchangeable callers, connection ids and RPC slots.
- The auth runs use two clients and two names. c1's username and client id differ, so the username and client-id modes read different rules, and c2 is blacklisted for some decisions. Modes 0 to 3 cover anonymous, both key modes and a value with no case. The connect run has two passwords and no ACL data. The ACL run has one password, a `#` filter and a literal one, two topics, and the stored values 2 and 3 (which tell a read from a write), 256 (which wraps to 0, Deny) and a non-number. The mode a run does not decide on is fixed to anonymous, to keep the state space small.

**Fairness.**
- Goroutines are preemptively scheduled, so each caller's steps, main's steps and each handler's reply are weakly fair.
- `sync.Mutex` hands the lock to a waiter that has waited more than 1 ms (starvation mode). Lock is therefore strongly fair.
- A Go channel queues blocked senders in FIFO order, so a handler's send is strongly fair.
- The router draining the channel is weakly fair. This is what spec section 5 requires of it.
- Peers' behaviour, membership changes, signals and incoming RPCs are not fair.

## 4. Proofs

`ClientManagerProofs` proves, for every value of the constants allowed by `ConstAssumption` and `BackoffAssumption`:
- `TypeCorrect`: `Spec => []TypeOK`.
- `PoolExactInvariant`: `Spec => []PoolExact`.

PoolExact alone is not inductive. Dial installs its client without looking at the map, so the proof needs:
- **DialInv:** no client is cached for the target of a goroutine at `dial`.
- **MutexInv**, which DialInv rests on: the mutex is held exactly by the goroutine at `lookup` or `dial`.
- **CallInv:** a goroutine in a call holds a dialed connection.

The inductive invariant is `PoolIInv == TypeOK /\ MutexInv /\ DialInv /\ CallInv /\ PoolExact`. It is proved with one step per action, plus the stuttering step. RemoveGrpcClient needs its own argument: closing connection `j = cs[n]` disturbs no other entry, because PoolExact makes `cs` injective on open connections.

It also proves:
- `BroadcastExactInvariant`: `Spec => []BroadcastExact`. The strengthening **BroadcastInv** ties a goroutine's pc to whether it is broadcasting. It also says the visited peers plus the remaining entries are the snapshot minus the node itself, and nothing is visited outside a broadcast. It is proved together with PoolIInv.
- `DeliveriesInvariant`: `Spec => []DeliveriesPerCall`. The strengthening **DeliveryInv** says `sent` and `attempt` are 0 before the call, and `sent <= attempt` during it. It also says a non-apply request is at its first attempt when it calls, and at most one attempt in when it waits to retry. The lemma `NoSecondAttempt` shows why a non-apply request never retries: the first backoff (`FirstBackoff`: `Backoff(1) = ReqTimeout`) already reaches its deadline. The backoff is written with `^`, not a recursive function, so that this fact is provable.
- `SameClientProperty`: `Spec => SameClientUntilRemoved`. This is an action property. From PoolIInv, every step either keeps a cached client or removes it (`KeepsClientsStep`).

`RedisAuthProofs` proves, for every value of the constants allowed by `RedisAuthAssumption` and `CollaboratorAssumption`:
- `TypeCorrect`: `Spec => []RedisAuthTypeOK`.
- `AuthGrantInvariant`: `Spec => []AuthGrantWarranted`.

A hook call changes only `call`, and every other step resets it. So AuthGrantWarranted, conjoined with the type invariant, is inductive once the decision is shown sound. The lemma `AuthenticateSound` walks OnConnectAuthenticate's early-return chain.

AclGrantWarranted is not proved. It holds only if every integer an operator stores is at most 255, and nothing in the code or in Redis ensures that: redis_acl_wrap shows it failing. A theorem under that hypothesis would leave out exactly the case that matters.

`RpcServerProofs` proves, for every set of slots and every capacity allowed by `ServerAssumption`:
- `TypeCorrect`: `Spec => []TypeOK`. The channel never holds more than `ChanCap` messages, and every Type is a byte.

TypeOK is inductive by itself. Send waits for room, and the lemma `MsgTypeByte` shows that the Type a handler computes is a byte for every Action.

`NodeProofs` proves, for every set of slots and every capacity allowed by `ServerAssumption`:
- `NodeImplementsServer`: `NodeSpec => Spec`. Every node step is a step of the RPC server, or leaves its variables alone (`ServerSteps`). Main touches the server only through StartRpcServer, its failure and StopRpcServer. So the server's TypeOK holds in the whole node.
- `NodeTypeCorrect`: `NodeSpec => []NodeTypeOK`. This is RpcServer's TypeOK through the composition, plus the types of the node's own variables.
- `NodeRouting`: `NodeSpec => RoutedWhileServerOpen`. This rests on the invariant **ShutdownInv**: main is at `close` only with the router stopped, and a closed MQTT server means the router is stopped and main is at `return`. ShutdownInv is inductive by itself. It was checked with TLC on the node instance before it was proved. Given it, a step that shortens `grpcMsgCh` is a NodeRoute, which needs the router on. So it cannot happen once the MQTT server is closed. The handlers' sends still append to the channel, and every other step leaves it alone.

Only model-checked:
- the liveness properties CallsComplete, AllAnswered and ExitsOnSignal. TLAPS does not handle fairness or ENABLED.
- AclGrantWarranted, which holds only on the bounded values of redis_acl (see above).

## 5. Not modelled

- **Keepalive parameters.** Their only effect on calls is an attempt ending in Unavailable, which is one of the outcomes CallRetry and CallGiveUp already allow.
- **Wire schema.** The protobuf code is generated and outside `src/`.
- **Payload data.** Message payloads, client ids and logging are not modelled.
- **Hooks.** Which hooks main adds is not modelled.
- **Standalone main.** Planned; see section 6.
- **Auth collaborators.** The bodies of `CompareHash`, `MatchTopic`, `CheckAcl` and the blacklist are outside `src/`; only the assumptions above are used.

## 6. Plan for later work

1. Model the standalone main as a second lifecycle instance.
2. Compose RedisAuth with Node's InitAuth, so that an Init failure is the AddHook error that ends main.
3. Add a refinement of the pool to an abstract map of node ids to clients.
