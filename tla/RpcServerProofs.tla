--------------------------- MODULE RpcServerProofs ---------------------------
(***************************************************************************)
(* Proofs about the RPC server of RpcServer, for every number of slots,   *)
(* every channel capacity and every set of Action values ServerAssumption *)
(* allows.                                                                 *)
(*                                                                         *)
(* The type invariant is inductive by itself: the send waits for room,   *)
(* and the Type a handler computes is a byte whatever Action it gets.     *)
(***************************************************************************)
EXTENDS RpcServer, TLAPS

\* The Type a handler computes from a request is a byte.
LEMMA TypeOfByte ==
    ASSUME NEW m \in Methods, NEW a \in Nat
    PROVE  TypeOf(m, a) \in 0..255
  <1>1. a % 256 \in 0..255
    OBVIOUS
  <1>2. QED
    BY <1>1, ServerAssumption DEF TypeOf, Methods, PublishType, ConnectType

\* The Type a handler gives its message is a byte.
LEMMA MsgTypeByte ==
    ASSUME TypeOK, NEW r \in Rpcs
    PROVE  MsgType(r) \in 0..255
  <1>1. method[r] \in Methods /\ action[r] \in Nat
    BY ServerAssumption DEF TypeOK
  <1>2. QED
    BY <1>1, TypeOfByte DEF MsgType

\* The message a handler builds is a Messages value.
LEMMA SentMsgType ==
    ASSUME TypeOK, NEW r \in Rpcs
    PROVE  [type |-> MsgType(r), method |-> method[r]] \in Messages
  <1>1. MsgType(r) \in 0..255
    BY MsgTypeByte
  <1>2. method[r] \in Methods
    BY DEF TypeOK
  <1>3. QED
    BY <1>1, <1>2 DEF Messages

LEMMA TypeInit == Init => TypeOK
  <1> SUFFICES ASSUME Init PROVE TypeOK
    OBVIOUS
  <1> DEFINE a0 == CHOOSE a \in ApplyActions : TRUE
  <1>1. a0 \in ApplyActions
    BY ServerAssumption, Zenon
  <1>2. action \in [Rpcs -> ApplyActions]
    BY <1>1, Zenon DEF Init
  <1>3. ch \in Seq(Messages) /\ Len(ch) <= ChanCap
    BY ServerAssumption DEF Init
  <1>4. QED
    BY <1>2, <1>3 DEF Init, TypeOK, Methods

\* Every step keeps the state well typed.
LEMMA TypeStep == TypeOK /\ [Next]_vars => TypeOK'
  <1> SUFFICES ASSUME TypeOK, [Next]_vars PROVE TypeOK'
    OBVIOUS
  <1>1. ASSUME NEW r \in Rpcs, NEW m \in Methods, NEW a \in ApplyActions,
               Accept(r, m, a)
        PROVE TypeOK'
    BY <1>1 DEF Accept, TypeOK
  <1>2. ASSUME NEW r \in Rpcs, Send(r) PROVE TypeOK'
    <2>1. [type |-> MsgType(r), method |-> method[r]] \in Messages
      BY SentMsgType
    <2>2. QED
      BY <1>2, <2>1, ServerAssumption DEF Send, TypeOK
  <1>3. ASSUME NEW r \in Rpcs, Reply(r) \/ Release(r) PROVE TypeOK'
    BY <1>3 DEF Reply, Release, TypeOK
  <1>4. CASE Route
    BY <1>4, ServerAssumption DEF Route, TypeOK
  <1>5. CASE StartRpcServer \/ StartRpcServerFail \/ StopRpcServer
               \/ Exited \/ UNCHANGED vars
    BY <1>5 DEF StartRpcServer, StartRpcServerFail, StopRpcServer, Exited,
               vars, TypeOK
  <1>6. QED
    BY <1>1, <1>2, <1>3, <1>4, <1>5 DEF Next

\* Every reachable state of the RPC server is well typed: grpcMsgCh never
\* holds more than ChanCap messages, each with a byte as its Type.
THEOREM TypeCorrect == Spec => []TypeOK
  BY TypeInit, TypeStep, PTL DEF Spec

=============================================================================
