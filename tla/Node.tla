-------------------------------- MODULE Node --------------------------------
(***************************************************************************)
(* One cluster node: the main goroutine of the cluster binary (realMain    *)
(* and its init helpers, src/unnamed/part_000 lines 361-564) composed with *)
(* the RPC server of RpcServer.  main configures the MQTT server, starts   *)
(* the cluster agent (whose Start starts the RPC server and the router),   *)
(* adds the listeners, serves, and waits for a server error or a signal;   *)
(* on a signal it stops the agent and then closes the MQTT server.  Every  *)
(* failed step goes through onError, which exits the process with 1.       *)
(*                                                                         *)
(* The agent (cluster.Agent) is outside src/: its Start and Stop follow    *)
(* spec section 4.F (Stop: stop accepting peer RPCs, close the pool, stop  *)
(* the router, close the channel).  main reads each configuration value   *)
(* once, so the value is chosen where it is read; the outcome of each     *)
(* external call                                                           *)
(* (config.Load, AddHook, AddListener, Serve...) is a nondeterministic     *)
(* choice between success and error.  Which hooks are added is left out:  *)
(* no property here is about MQTT clients.                                 *)
(***************************************************************************)
EXTENDS RpcServer

VARIABLES
    mainPc,    \* the next step of the main goroutine
    members,   \* cfg.Cluster.Members: "set" or "nil"
    router,    \* the agent's router: "off", "on" or "stopped"
    chClosed,  \* the agent has closed grpcMsgCh
    mqtt,      \* the MQTT server: "new", "serving" or "closed"
    errCh,     \* errors buffered in errCh (capacity 1)
    sig,       \* SIGINT or SIGTERM has been caught (sigCtx is done)
    exit       \* "none" while the process runs; "0", "1" or "panic"

nodeVars == <<mainPc, members, router, chClosed, mqtt,
              errCh, sig, exit>>
allVars == <<vars, nodeVars>>

\* The values of the configuration fields realMain branches on.
StorageWays == {"redis", "other"}
AuthWays == {"anonymous", "username", "clientid", "other"}
BridgeWays == {"none", "kafka", "other"}

MainPcs == {"config", "storage", "auth", "bridge", "cluster", "tls",
            "listeners", "serve", "wait", "agentStop", "close", "return"}

NodeTypeOK ==
    /\ TypeOK
    /\ mainPc \in MainPcs
    /\ members \in {"set", "nil"}
    /\ router \in {"off", "on", "stopped"}
    /\ chClosed \in BOOLEAN
    /\ mqtt \in {"new", "serving", "closed"}
    /\ errCh \in 0..1
    /\ sig \in BOOLEAN
    /\ exit \in {"none", "0", "1", "panic"}

NodeInit ==
    /\ Init
    /\ mainPc = "config"
    /\ members = "nil"
    /\ router = "off"
    /\ chClosed = FALSE
    /\ mqtt = "new"
    /\ errCh = 0
    /\ sig = FALSE
    /\ exit = "none"

Alive == exit = "none"

-----------------------------------------------------------------------------
(* The main goroutine.                                                     *)

\* onError(err, msg) with err # nil: log and os.Exit(1).
OnError ==
    /\ exit' = "1"
    /\ UNCHANGED <<vars, mainPc, members, router, chClosed,
                   mqtt, errCh, sig>>

\* Moves main to step p, leaving the rest alone.
Goto(p) ==
    /\ mainPc' = p
    /\ UNCHANGED <<vars, members, router, chClosed, mqtt,
                   errCh, sig, exit>>

\* realMain: with -config.Load (which may fail, and may leave
\* Members nil); otherwise Members come from -members or the default seed.
LoadConfig ==
    /\ Alive /\ mainPc = "config"
    /\ \E confFile \in BOOLEAN :
       IF confFile
         THEN \/ OnError
              \/ \E m \in {"set", "nil"} :
                    /\ members' = m
                    /\ mainPc' = "storage"
                    /\ UNCHANGED <<vars, router, chClosed,
                                   mqtt, errCh, sig, exit>>
         ELSE /\ members' = "set"
              /\ mainPc' = "storage"
              /\ UNCHANGED <<vars, router, chClosed, mqtt,
                             errCh, sig, exit>>

\* initStorage: any storage way but redis is fatal; AddHook may fail.
InitStorage ==
    /\ Alive /\ mainPc = "storage"
    /\ \E storageWay \in StorageWays :
       IF storageWay # "redis"
         THEN OnError
         ELSE OnError \/ Goto("auth")

\* initAuth: anonymous adds AllowHook; username or clientid load the
\* blacklist and the datasource's options and add its hook (each may
\* fail), and a datasource with no case adds no hook; any other way is
\* fatal.
InitAuth ==
    /\ Alive /\ mainPc = "auth"
    /\ \E authWay \in AuthWays :
       CASE authWay = "anonymous" -> Goto("bridge")
         [] authWay \in {"username", "clientid"} -> OnError \/ Goto("bridge")
         [] OTHER -> OnError

\* initBridge: nothing for "none" or an unknown way; kafka may fail.
InitBridge ==
    /\ Alive /\ mainPc = "bridge"
    /\ \E bridgeWay \in BridgeWays :
       IF bridgeWay = "kafka"
         THEN OnError \/ Goto("cluster")
         ELSE Goto("cluster")

\* realMain's Members check and initClusterNode: agent.Start starts the
\* RPC server (StartRpcServer) and the router; a failed start is fatal.
InitClusterNode ==
    /\ Alive /\ mainPc = "cluster"
    /\ IF members = "nil"
         THEN OnError
         ELSE \/ /\ StartRpcServerFail
                 /\ exit' = "1"
                 /\ UNCHANGED <<mainPc, members, router,
                                chClosed, mqtt, errCh, sig>>
              \/ /\ StartRpcServer
                 /\ router' = "on"
                 /\ mainPc' = "tls"
                 /\ UNCHANGED <<members, chClosed, mqtt,
                                errCh, sig, exit>>

\* config.GenTlsConfig may fail.
GenTlsConfig ==
    /\ Alive /\ mainPc = "tls"
    /\ OnError \/ Goto("listeners")

\* The tcp, websocket and http listeners: each AddListener may fail.
AddListeners ==
    /\ Alive /\ mainPc = "listeners"
    /\ OnError \/ Goto("serve")

\* go server.Serve(): the goroutine sends a non-nil error on errCh.
StartServe ==
    /\ Alive /\ mainPc = "serve"
    /\ mqtt' = "serving"
    /\ mainPc' = "wait"
    /\ UNCHANGED <<vars, members, router, chClosed, errCh,
                   sig, exit>>

\* Mutant: the goroutine reports every error without a free place check.
ServeErrorUnbounded ==
    /\ Alive /\ mqtt = "serving"
    /\ errCh' = errCh + 1
    /\ UNCHANGED <<vars, mainPc, members, router, chClosed, mqtt, sig, exit>>

\* The Serve goroutine reports an error into errCh's one free place.
ServeError ==
    /\ Alive /\ mqtt = "serving" /\ errCh = 0
    /\ errCh' = 1
    /\ UNCHANGED <<vars, mainPc, members, router, chClosed,
                   mqtt, sig, exit>>

\* select, case err := <-errCh: onError(err, "server error").
SelectServeError ==
    /\ Alive /\ mainPc = "wait" /\ errCh = 1
    /\ OnError

\* Mutant: server.Close() before agent.Stop().
ShutdownOrderSwapped == <<"close", "agentStop">>

\* The order of the two shutdown calls after the select.
ShutdownOrder == <<"agentStop", "close">>

\* Mutant: realMain is given context.Background(), which is never done.
SelectSignalBackground ==
    /\ Alive /\ mainPc = "wait" /\ FALSE
    /\ Goto(ShutdownOrder[1])

\* select, case <-ctx.Done(): the signal context is done.
SelectSignal ==
    /\ Alive /\ mainPc = "wait" /\ sig
    /\ Goto(ShutdownOrder[1])

\* The step after shutdown call p.
AfterShutdown(p) == IF p = ShutdownOrder[1] THEN ShutdownOrder[2] ELSE "return"

\* agent.Stop(): StopRpcServer, then the router stops and the channel is
\* closed (the pool teardown changes nothing modelled here).
AgentStop ==
    /\ Alive /\ mainPc = "agentStop"
    /\ StopRpcServer
    /\ router' = "stopped"
    /\ chClosed' = TRUE
    /\ mainPc' = AfterShutdown("agentStop")
    /\ UNCHANGED <<members, mqtt, errCh, sig, exit>>

\* server.Close().
ServerClose ==
    /\ Alive /\ mainPc = "close"
    /\ mqtt' = "closed"
    /\ mainPc' = AfterShutdown("close")
    /\ UNCHANGED <<vars, members, router, chClosed, errCh,
                   sig, exit>>

\* return nil; main's onError(nil) does nothing and main returns.
Return ==
    /\ Alive /\ mainPc = "return"
    /\ exit' = "0"
    /\ UNCHANGED <<vars, mainPc, members, router, chClosed,
                   mqtt, errCh, sig>>

\* signal.NotifyContext: SIGINT or SIGTERM arrives.
Signal ==
    /\ Alive /\ ~sig
    /\ sig' = TRUE
    /\ UNCHANGED <<vars, mainPc, members, router, chClosed,
                   mqtt, errCh, exit>>

-----------------------------------------------------------------------------
(* The RPC server's handlers inside the running process.                   *)

\* An inbound RPC is accepted while the process runs.
NodeAccept(r, m, a) == Alive /\ Accept(r, m, a) /\ UNCHANGED nodeVars

\* The handler's send on an open grpcMsgCh.
NodeSend(r) == Alive /\ ~chClosed /\ Send(r) /\ UNCHANGED nodeVars

\* A send on a closed channel panics, and the panic ends the process.
SendOnClosed(r) ==
    /\ Alive /\ chClosed /\ phase[r] = "handling"
    /\ exit' = "panic"
    /\ UNCHANGED <<vars, mainPc, members, router, chClosed,
                   mqtt, errCh, sig>>

NodeReply(r) == Alive /\ Reply(r) /\ UNCHANGED nodeVars

NodeRelease(r) == Alive /\ Release(r) /\ UNCHANGED nodeVars

\* The router hands the oldest inbound message to the MQTT server.
NodeRoute == Alive /\ router = "on" /\ Route /\ UNCHANGED nodeVars

\* The process has exited: nothing happens any more.
Terminated == ~Alive /\ UNCHANGED allVars

MainStep ==
    \/ LoadConfig \/ InitStorage \/ InitAuth \/ InitBridge
    \/ InitClusterNode \/ GenTlsConfig \/ AddListeners \/ StartServe
    \/ SelectServeError \/ SelectSignal \/ AgentStop \/ ServerClose
    \/ Return

NodeNext ==
    \/ MainStep \/ ServeError \/ Signal
    \/ \E r \in Rpcs :
         \/ \E m \in Methods, a \in ApplyActions : NodeAccept(r, m, a)
         \/ NodeSend(r) \/ SendOnClosed(r) \/ NodeReply(r) \/ NodeRelease(r)
    \/ NodeRoute
    \/ Terminated

\* main runs whenever it can; handlers and the router as in RpcServer.
NodeFairness ==
    /\ WF_allVars(MainStep)
    /\ \A r \in Rpcs : SF_allVars(NodeSend(r)) /\ WF_allVars(NodeReply(r))
    /\ WF_allVars(NodeRoute)

NodeSpec == NodeInit /\ [][NodeNext]_allVars
NodeFairSpec == NodeSpec /\ NodeFairness

-----------------------------------------------------------------------------
(* The invariant behind RoutedWhileServerOpen: main closes the MQTT server *)
(* only at its "close" step, which it reaches only from agent.Stop, and it *)
(* never goes back to the step that starts the router.                     *)

ShutdownInv ==
    /\ mainPc = "close" => router = "stopped"
    /\ mqtt = "closed" => router = "stopped" /\ mainPc = "return"

-----------------------------------------------------------------------------
(* Properties.                                                             *)

\* Spec 4.F: the router hands inbound messages to the MQTT server only
\* while that server is not closed: realMain stops the agent (and so the
\* router) before server.Close().
RoutedWhileServerOpen ==
    [][Len(ch') < Len(ch) => mqtt # "closed"]_allVars

\* Once SIGINT or SIGTERM is caught, the process eventually exits, in
\* whatever step main was and however the peers' RPCs interleave.
ExitsOnSignal == sig ~> ~Alive

\* Spec 4.E/4.F: shutdown stops accepting peer RPCs before it closes the
\* channel, so no handler ever sends on a closed grpcMsgCh.
NoSendOnClosedChannel == exit # "panic"

=============================================================================
