------------------------- MODULE MCCapturePipeline -------------------------
(***************************************************************************)
(* Small instances of CapturePipeline: captures of up to two frames of a   *)
(* TCP, a UDP and the all-zero key at two times that are further apart     *)
(* than the timeouts, so that one packet, a FIN, can evict its flow and    *)
(* another that has timed out, up to two copies of a datagram, three in    *)
(* all, and streams of one slot.                                           *)
(***************************************************************************)
EXTENDS CapturePipeline

CONSTANTS t1, u1, zero

MCIpProto == [k \in Keys |-> CASE k = t1 -> "tcp" [] k = u1 -> "udp" [] k = zero -> "other"]
MCFrameKinds == {"tcp", "udp", "other"}
MCTimes == {1, 7}
MCFlagSets == {{}, {"fin", "ack"}}
=============================================================================
