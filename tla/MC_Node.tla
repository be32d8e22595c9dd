------------------------------ MODULE MC_Node ------------------------------
(* One node with two concurrent inbound RPCs and a one-message grpcMsgCh.  *)
EXTENDS Node, TLC

CONSTANTS r1, r2

NodeRpcs == {r1, r2}

\* The relayed publishes stand for every method: shutdown treats all alike.
NodeMethods == {"PublishPacket"}

NodeApplyActions == {8}
=============================================================================
