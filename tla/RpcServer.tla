----------------------------- MODULE RpcServer -----------------------------
(***************************************************************************)
(* The inbound half of the relay fabric of one node: RpcService            *)
(* (src/unnamed/part_000, lines 50-135).  StartRpcServer binds the         *)
(* listener and serves in a goroutine; each inbound RPC runs its handler   *)
(* on its own goroutine, which builds a message.Message, sends it on the   *)
(* agent's bounded channel grpcMsgCh (blocking while it is full) and       *)
(* answers {Ok: true}.  The router that drains grpcMsgCh belongs to the    *)
(* agent, outside src/, and is modelled from the spec.                     *)
(*                                                                         *)
(* Rpcs are slots for concurrent inbound RPCs: a slot whose RPC has been   *)
(* answered takes the next one.                                            *)
(***************************************************************************)
EXTENDS Naturals, Sequences

CONSTANTS
    Rpcs,          \* slots of concurrently served inbound RPCs
    ChanCap,       \* capacity of agent.grpcMsgCh
    ApplyActions,  \* ApplyRequest.Action values a peer may send (uint32)
    RaftJoinType   \* message.RaftJoin

\* Packet type codes of mqtt/packets used as message.Message.Type.
ConnectType == 1
PublishType == 3
SubscribeType == 8
UnsubscribeType == 10

ASSUME ServerAssumption ==
    /\ ChanCap \in Nat \ {0}
    /\ ApplyActions \subseteq Nat /\ ApplyActions # {}
    /\ RaftJoinType \in 0..255

Methods == {"PublishPacket", "ConnectNotify", "RaftApply", "RaftJoin"}

\* message.Message, reduced to what the router dispatches on (Type), with
\* the method of the RPC that produced it.
Messages == [type : 0..255, method : Methods]

VARIABLES
    srv,           \* the grpc.Server: "init", "serving" or "failed"
    field,         \* s.grpcServer, the field StopRpcServer looks at
    stopped,       \* StopRpcServer has returned
    phase,         \* per slot: "free", "handling", "sent" or "replied"
    method,        \* the method the slot's RPC calls
    action,        \* req.Action of a RaftApply request
    ch,            \* grpcMsgCh
    accepted       \* a new RPC was accepted after StopRpcServer returned

vars == <<srv, field, stopped, phase, method, action, ch, accepted>>

TypeOK ==
    /\ srv \in {"init", "serving", "failed"}
    /\ field \in {"nil", "set"}
    /\ stopped \in BOOLEAN
    /\ phase \in [Rpcs -> {"free", "handling", "sent", "replied"}]
    /\ method \in [Rpcs -> Methods]
    /\ action \in [Rpcs -> ApplyActions]
    /\ ch \in Seq(Messages) /\ Len(ch) <= ChanCap
    /\ accepted \in BOOLEAN

Init ==
    /\ srv = "init"
    /\ field = "nil"                      \* NewRpcService(a)
    /\ stopped = FALSE
    /\ phase = [r \in Rpcs |-> "free"]
    /\ method = [r \in Rpcs |-> "PublishPacket"]
    /\ action = [r \in Rpcs |-> CHOOSE a \in ApplyActions : TRUE]
    /\ ch = <<>>
    /\ accepted = FALSE

-----------------------------------------------------------------------------

\* StartRpcServer: net.Listen succeeds, the server is created, the handlers
\* registered and Serve started in a goroutine.  The server is kept in a
\* local variable: s.grpcServer stays nil.
StartRpcServer ==
    /\ srv = "init"
    /\ srv' = "serving"
    /\ UNCHANGED <<field, stopped, phase, method, action, ch, accepted>>

\* net.Listen fails (the port is taken): the error is returned and nothing
\* serves.
StartRpcServerFail ==
    /\ srv = "init"
    /\ srv' = "failed"
    /\ UNCHANGED <<field, stopped, phase, method, action, ch, accepted>>

\* StopRpcServer: `s.grpcServer == nil` returns at once; GracefulStop is
\* reached only with the field set, which no code path does.
StopRpcServer ==
    /\ field = "nil"
    /\ ~stopped
    /\ stopped' = TRUE
    /\ UNCHANGED <<srv, field, phase, method, action, ch, accepted>>

\* The serving grpc.Server accepts an RPC of method m (with req.Action a for
\* RaftApply) on a free slot and runs its handler.
Accept(r, m, a) ==
    /\ srv = "serving"
    /\ phase[r] = "free"
    /\ phase' = [phase EXCEPT ![r] = "handling"]
    /\ method' = [method EXCEPT ![r] = m]
    /\ action' = [action EXCEPT ![r] = a]
    /\ accepted' = (accepted \/ stopped)
    /\ UNCHANGED <<srv, field, stopped, ch>>

\* The Type each handler gives its message, for method m and req.Action a:
\* fixed for three methods, and uint8(req.Action) for RaftApply.
TypeOf(m, a) ==
    CASE m = "PublishPacket" -> PublishType
      [] m = "ConnectNotify" -> ConnectType
      [] m = "RaftApply"     -> a % 256
      [] m = "RaftJoin"      -> RaftJoinType

\* The Type of the message of slot r's RPC.
MsgType(r) == TypeOf(method[r], action[r])

\* Mutant: the handler does not wait for room on a full channel.
SendNoWait(r) ==
    /\ phase[r] = "handling"
    /\ ch' = Append(ch, [type |-> MsgType(r), method |-> method[r]])
    /\ phase' = [phase EXCEPT ![r] = "sent"]
    /\ UNCHANGED <<srv, field, stopped, method, action, accepted>>

\* s.agent.grpcMsgCh <- &msg: blocks while the channel is full.
Send(r) ==
    /\ phase[r] = "handling"
    /\ Len(ch) < ChanCap
    /\ ch' = Append(ch, [type |-> MsgType(r), method |-> method[r]])
    /\ phase' = [phase EXCEPT ![r] = "sent"]
    /\ UNCHANGED <<srv, field, stopped, method, action, accepted>>

\* Mutant: the handler answers only once the router has drained the
\* channel, as if the send were acknowledged by the router.
ReplyWhenDrained(r) ==
    /\ phase[r] = "sent"
    /\ ch = <<>>
    /\ phase' = [phase EXCEPT ![r] = "replied"]
    /\ UNCHANGED <<srv, field, stopped, method, action, ch, accepted>>

\* return &crpc.Response{Ok: true}, nil
Reply(r) ==
    /\ phase[r] = "sent"
    /\ phase' = [phase EXCEPT ![r] = "replied"]
    /\ UNCHANGED <<srv, field, stopped, method, action, ch, accepted>>

\* The slot takes the next RPC once the peer has its answer.
Release(r) ==
    /\ phase[r] = "replied"
    /\ phase' = [phase EXCEPT ![r] = "free"]
    /\ UNCHANGED <<srv, field, stopped, method, action, ch, accepted>>

\* The agent's router receives the oldest message of grpcMsgCh.
Route ==
    /\ ch # <<>>
    /\ ch' = Tail(ch)
    /\ UNCHANGED <<srv, field, stopped, phase, method, action, accepted>>

\* onError(err) in main: the process has exited; nothing happens any more.
Exited ==
    /\ srv = "failed"
    /\ UNCHANGED vars

Next ==
    \/ StartRpcServer \/ StartRpcServerFail \/ StopRpcServer
    \/ \E r \in Rpcs :
         \/ \E m \in Methods, a \in ApplyActions : Accept(r, m, a)
         \/ Send(r) \/ Reply(r) \/ Release(r)
    \/ Route
    \/ Exited

\* Each handler goroutine is scheduled while it can run, and the router
\* keeps draining grpcMsgCh (spec section 5: the router must not stop).
\* A handler blocked on the full channel waits in the channel's FIFO queue
\* of senders, so it is not passed over forever by later handlers: its
\* send is strongly fair.
Fairness ==
    /\ \A r \in Rpcs : SF_vars(Send(r)) /\ WF_vars(Reply(r))
    /\ WF_vars(Route)

Spec == Init /\ [][Next]_vars
FairSpec == Spec /\ Fairness

-----------------------------------------------------------------------------
(* Properties.                                                             *)

\* Spec 5: as long as the router drains grpcMsgCh, every accepted RPC is
\* answered (a handler blocked on a full channel is eventually let in).
AllAnswered == \A r \in Rpcs : phase[r] = "handling" ~> phase[r] = "replied"

\* Spec 3 and 8.2: the Type of a message is set by the method, not by the
\* request: a RaftApply never yields the Type of another method's message.
KindFromMethod ==
    \A i \in 1..Len(ch) : ch[i].method = "RaftApply" =>
        ch[i].type \notin {PublishType, ConnectType, RaftJoinType}

\* Spec 4.E: once StopRpcServer has returned, the server accepts no new RPC.
StopRejectsNew == ~accepted

=============================================================================
