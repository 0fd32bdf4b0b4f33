------------------------- MODULE MCFlowFileExporter -------------------------
(***************************************************************************)
(* Small instances of FlowFileExporter: one TCP, one UDP and the all-zero  *)
(* key, and every capture of a few frames of them, at two times that are   *)
(* more than all the timeouts apart.                                       *)
(***************************************************************************)
EXTENDS FlowFileExporter

CONSTANTS t1, u1, zero

MCIpProto == [k \in Keys |-> CASE k = t1 -> "tcp" [] k = u1 -> "udp" [] k = zero -> "other"]
MCFrameKinds == {"tcp", "udp", "other"}
MCTimes == {1, 7}
MCFlagSets == {{}, {"ack"}, {"fin", "ack"}}
=============================================================================
