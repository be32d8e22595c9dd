------------------------------ MODULE NodeProofs ------------------------------
(***************************************************************************)
(* Proofs about the cluster node of Node: main's goroutine composed with   *)
(* the RPC server, for every set of RPC slots and every channel capacity.  *)
(*                                                                         *)
(* The composition is conservative: every step of the node is a step of   *)
(* the RPC server of RpcServer or leaves the server's variables alone      *)
(* (main starts and stops the server only through StartRpcServer and       *)
(* StopRpcServer).  So the server's type invariant, which RpcServerProofs  *)
(* proves, holds in the node.  RoutedWhileServerOpen rests on             *)
(* ShutdownInv: main closes the MQTT server only after agent.Stop has     *)
(* stopped the router.                                                     *)
(***************************************************************************)
EXTENDS Node, RpcServerProofs

\* The steps of main that do not touch the RPC server.
MainOnly ==
    \/ LoadConfig \/ InitStorage \/ InitAuth \/ InitBridge \/ GenTlsConfig
    \/ AddListeners \/ StartServe \/ SelectServeError \/ SelectSignal
    \/ ServerClose \/ Return \/ ServeError \/ Signal

LEMMA MainOnlyKeepsServer == MainOnly => UNCHANGED vars
  BY DEF MainOnly, LoadConfig, InitStorage, InitAuth, InitBridge,
         GenTlsConfig, AddListeners, StartServe, SelectServeError,
         SelectSignal, ServerClose, Return, ServeError, Signal, OnError, Goto

\* Every step of the node is a step of the RPC server or a stutter of it.
LEMMA ServerSteps == [NodeNext]_allVars => [Next]_vars
  <1> SUFFICES ASSUME [NodeNext]_allVars PROVE [Next]_vars
    OBVIOUS
  <1>1. CASE MainOnly
    BY <1>1, MainOnlyKeepsServer
  <1>2. CASE InitClusterNode
    BY <1>2 DEF InitClusterNode, OnError, Next
  <1>3. CASE AgentStop
    BY <1>3 DEF AgentStop, Next
  <1>4. ASSUME NEW r \in Rpcs, NEW m \in Methods, NEW a \in ApplyActions,
               NodeAccept(r, m, a)
        PROVE [Next]_vars
    BY <1>4 DEF NodeAccept, Next
  <1>5. ASSUME NEW r \in Rpcs,
               NodeSend(r) \/ NodeReply(r) \/ NodeRelease(r)
        PROVE [Next]_vars
    BY <1>5 DEF NodeSend, NodeReply, NodeRelease, Next
  <1>6. ASSUME NEW r \in Rpcs, SendOnClosed(r) PROVE [Next]_vars
    BY <1>6 DEF SendOnClosed
  <1>7. CASE NodeRoute
    BY <1>7 DEF NodeRoute, Next
  <1>8. CASE Terminated \/ UNCHANGED allVars
    BY <1>8 DEF Terminated, allVars
  <1>9. QED
    BY <1>1, <1>2, <1>3, <1>4, <1>5, <1>6, <1>7, <1>8
       DEF NodeNext, MainStep, MainOnly

\* The cluster node implements the RPC server of RpcServer: main's start
\* and shutdown, the MQTT server and the signal add steps of their own but
\* never change the server's state except as StartRpcServer, a failed
\* start and StopRpcServer do.
THEOREM NodeImplementsServer == NodeSpec => Spec
  <1>1. NodeInit => Init
    BY DEF NodeInit
  <1>2. QED
    BY <1>1, ServerSteps, PTL DEF NodeSpec, Spec

-----------------------------------------------------------------------------
(* Types.                                                                  *)

\* The node's own variables keep their types.
NodeVarsOK ==
    /\ mainPc \in MainPcs
    /\ members \in {"set", "nil"}
    /\ router \in {"off", "on", "stopped"}
    /\ chClosed \in BOOLEAN
    /\ mqtt \in {"new", "serving", "closed"}
    /\ errCh \in 0..1
    /\ sig \in BOOLEAN
    /\ exit \in {"none", "0", "1", "panic"}

LEMMA NodeVarsStep == NodeVarsOK /\ [NodeNext]_allVars => NodeVarsOK'
  <1> SUFFICES ASSUME NodeVarsOK, [NodeNext]_allVars PROVE NodeVarsOK'
    OBVIOUS
  <1> USE DEF NodeVarsOK, MainPcs
  <1>1. CASE LoadConfig \/ InitStorage \/ InitAuth \/ InitBridge
    BY <1>1 DEF LoadConfig, InitStorage, InitAuth, InitBridge, OnError, Goto
  <1>2. CASE GenTlsConfig \/ AddListeners \/ StartServe \/ SelectServeError
    BY <1>2 DEF GenTlsConfig, AddListeners, StartServe, SelectServeError,
                OnError, Goto
  <1>3. CASE SelectSignal \/ AgentStop \/ ServerClose
    <2>1. ShutdownOrder[1] \in MainPcs /\ AfterShutdown("agentStop") \in MainPcs
          /\ AfterShutdown("close") \in MainPcs
      BY DEF AfterShutdown, ShutdownOrder
    <2>2. QED
      BY <1>3, <2>1 DEF SelectSignal, AgentStop, ServerClose, Goto
  <1>4. CASE InitClusterNode
    <2>1. CASE members = "nil"
      BY <1>4, <2>1 DEF InitClusterNode, OnError
    <2>2. CASE members # "nil"
      BY <1>4, <2>2 DEF InitClusterNode, StartRpcServer, StartRpcServerFail
    <2>3. QED
      BY <2>1, <2>2
  <1>8. CASE Return \/ ServeError \/ Signal
    \* Booleans and integers in one goal defeat SMT: the Booleans first.
    <2>1. chClosed' \in BOOLEAN /\ sig' \in BOOLEAN
      BY <1>8 DEF Return, ServeError, Signal
    <2>2. QED
      BY <1>8, <2>1 DEF Return, ServeError, Signal
  <1>5. ASSUME NEW r \in Rpcs,
               \/ \E m \in Methods, a \in ApplyActions : NodeAccept(r, m, a)
               \/ NodeSend(r) \/ SendOnClosed(r) \/ NodeReply(r)
               \/ NodeRelease(r)
        PROVE NodeVarsOK'
    BY <1>5 DEF NodeAccept, NodeSend, SendOnClosed, NodeReply, NodeRelease,
                nodeVars
  <1>6. CASE NodeRoute \/ Terminated \/ UNCHANGED allVars
    BY <1>6 DEF NodeRoute, Terminated, nodeVars, allVars
  <1>7. QED
    BY <1>1, <1>2, <1>3, <1>4, <1>5, <1>6, <1>8 DEF NodeNext, MainStep

\* Every reachable state of the node is well typed, for every set of RPC
\* slots and every channel capacity.
THEOREM NodeTypeCorrect == NodeSpec => []NodeTypeOK
  <1>1. NodeInit => NodeVarsOK
    <2> SUFFICES ASSUME NodeInit PROVE NodeVarsOK
      OBVIOUS
    <2>1. /\ mainPc = "config" /\ members = "nil" /\ router = "off"
          /\ chClosed = FALSE /\ mqtt = "new" /\ errCh = 0 /\ sig = FALSE
          /\ exit = "none"
      BY DEF NodeInit
    <2>2. chClosed \in BOOLEAN /\ sig \in BOOLEAN
      BY <2>1
    <2>3. QED
      BY <2>1, <2>2 DEF NodeVarsOK, MainPcs
  <1>2. NodeSpec => []TypeOK
    BY NodeImplementsServer, TypeCorrect
  <1>3. NodeSpec => []NodeVarsOK
    BY <1>1, NodeVarsStep, PTL DEF NodeSpec
  <1>4. TypeOK /\ NodeVarsOK => NodeTypeOK
    BY DEF NodeTypeOK, NodeVarsOK
  <1>5. QED
    BY <1>2, <1>3, <1>4, PTL


-----------------------------------------------------------------------------
(* The router never drains grpcMsgCh into a closed MQTT server.            *)

\* The values of the shutdown steps: agent.Stop leads to server.Close,
\* which leads to the return.
LEMMA ShutdownSteps ==
    /\ ShutdownOrder[1] = "agentStop"
    /\ AfterShutdown("agentStop") = "close"
    /\ AfterShutdown("close") = "return"
  BY DEF ShutdownOrder, AfterShutdown

LEMMA ShutdownInit == NodeInit => ShutdownInv
  BY DEF NodeInit, ShutdownInv

\* Only agent.Stop reaches "close", and it stops the router; only
\* server.Close closes the MQTT server, and main goes from there to its
\* return; nothing after agent.Stop starts the router again.
LEMMA ShutdownStep == ShutdownInv /\ [NodeNext]_allVars => ShutdownInv'
  <1> SUFFICES ASSUME ShutdownInv, [NodeNext]_allVars PROVE ShutdownInv'
    OBVIOUS
  <1> USE ShutdownSteps DEF ShutdownInv
  <1>1. CASE LoadConfig \/ InitStorage \/ InitAuth \/ InitBridge
    BY <1>1 DEF LoadConfig, InitStorage, InitAuth, InitBridge, OnError, Goto
  <1>2. CASE GenTlsConfig \/ AddListeners \/ StartServe \/ SelectServeError
    BY <1>2 DEF GenTlsConfig, AddListeners, StartServe, SelectServeError,
                OnError, Goto
  <1>3. CASE SelectSignal \/ Return \/ ServeError \/ Signal
    BY <1>3 DEF SelectSignal, Return, ServeError, Signal, Goto
  <1>4. CASE InitClusterNode
    BY <1>4 DEF InitClusterNode, OnError
  <1>5. CASE AgentStop
    BY <1>5 DEF AgentStop
  <1>6. CASE ServerClose
    BY <1>6 DEF ServerClose
  <1>7. ASSUME NEW r \in Rpcs,
               \/ \E m \in Methods, a \in ApplyActions : NodeAccept(r, m, a)
               \/ NodeSend(r) \/ SendOnClosed(r) \/ NodeReply(r)
               \/ NodeRelease(r)
        PROVE ShutdownInv'
    BY <1>7 DEF NodeAccept, NodeSend, SendOnClosed, NodeReply, NodeRelease,
                nodeVars
  <1>8. CASE NodeRoute \/ Terminated \/ UNCHANGED allVars
    BY <1>8 DEF NodeRoute, Terminated, nodeVars, allVars
  <1>9. QED
    BY <1>1, <1>2, <1>3, <1>4, <1>5, <1>6, <1>7, <1>8 DEF NodeNext, MainStep

THEOREM ShutdownInvariant == NodeSpec => []ShutdownInv
  BY ShutdownInit, ShutdownStep, PTL DEF NodeSpec

\* The step that RoutedWhileServerOpen constrains.
RoutesOpen == Len(ch') < Len(ch) => mqtt # "closed"

\* Once the MQTT server is closed, main is at its return and the router is
\* stopped: the handlers may still append to grpcMsgCh, and every other
\* step leaves it alone.
LEMMA RouteStep == TypeOK /\ ShutdownInv /\ [NodeNext]_allVars => RoutesOpen
  <1> SUFFICES ASSUME TypeOK, ShutdownInv, [NodeNext]_allVars,
                      mqtt = "closed"
               PROVE ~(Len(ch') < Len(ch))
    BY DEF RoutesOpen
  <1>1. mainPc = "return" /\ router = "stopped"
    BY DEF ShutdownInv
  <1>2. ch \in Seq(Messages)
    BY DEF TypeOK
  <1>3. CASE MainOnly
    BY <1>3, MainOnlyKeepsServer DEF vars
  <1>4. CASE InitClusterNode \/ AgentStop \/ NodeRoute
    BY <1>1, <1>4 DEF InitClusterNode, AgentStop, NodeRoute
  <1>5. ASSUME NEW r \in Rpcs, NodeSend(r) PROVE ~(Len(ch') < Len(ch))
    <2>1. ch' = Append(ch, [type |-> MsgType(r), method |-> method[r]])
      BY <1>5 DEF NodeSend, Send
    <2>2. QED
      BY <1>2, <2>1
  <1>6. ASSUME NEW r \in Rpcs,
               \/ \E m \in Methods, a \in ApplyActions : NodeAccept(r, m, a)
               \/ SendOnClosed(r) \/ NodeReply(r) \/ NodeRelease(r)
        PROVE ch' = ch
    BY <1>6 DEF NodeAccept, SendOnClosed, NodeReply, NodeRelease, Accept,
                Reply, Release, vars
  <1>7. CASE Terminated \/ UNCHANGED allVars
    BY <1>7 DEF Terminated, allVars, vars
  <1>8. QED
    BY <1>3, <1>4, <1>5, <1>6, <1>7 DEF NodeNext, MainStep, MainOnly

\* Spec 4.F holds in every run of the node, for every set of RPC slots and
\* every channel capacity: the router takes a message off grpcMsgCh only
\* while the MQTT server is not closed, because realMain stops the agent,
\* and with it the router, before server.Close().
THEOREM NodeRouting == NodeSpec => RoutedWhileServerOpen
  <1>1. NodeSpec => []TypeOK
    BY NodeImplementsServer, TypeCorrect
  <1>2. TypeOK /\ ShutdownInv /\ [NodeNext]_allVars => [RoutesOpen]_allVars
    BY RouteStep
  <1>3. QED
    BY <1>1, <1>2, ShutdownInvariant, PTL
       DEF NodeSpec, RoutedWhileServerOpen, RoutesOpen

=============================================================================
