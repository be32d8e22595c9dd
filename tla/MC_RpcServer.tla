--------------------------- MODULE MC_RpcServer ---------------------------
(* Three concurrent inbound RPCs and a one-message grpcMsgCh, so that       *)
(* handlers block on the full channel.                                     *)
EXTENDS RpcServer, TLC

CONSTANTS r1, r2, r3

MCRpcs == {r1, r2, r3}

\* Two handlers on the one-place channel: one blocks while the other's
\* message waits, which is all AllAnswered's fairness needs.
TwoRpcs == {r1, r2}

\* Subscribe, Unsubscribe, and two values that are Publish to the router:
\* 3 itself and 259, which uint8() truncates to 3.
MCApplyActions == {8, 10, 3, 259}

\* Honest peers only send the Types RelayRaftApply relays; the value does
\* not change how a handler blocks, so one stands for both.
HonestApplyActions == {8}

RpcSymmetry == Permutations(MCRpcs)
=============================================================================
