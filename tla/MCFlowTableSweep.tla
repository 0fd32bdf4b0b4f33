-------------------------- MODULE MCFlowTableSweep --------------------------
(***************************************************************************)
(* Small instances of FlowTableSweep.  Three flows are enough for a loop   *)
(* to erase the first, a middle and the last flow it visits.               *)
(***************************************************************************)
EXTENDS FlowTableSweep

CONSTANTS t1, t2, u1

MCIpProto == [k \in Keys |-> IF k \in {t1, t2} THEN "tcp" ELSE "udp"]
MCRank == [k \in Keys |-> CASE k = t1 -> 1 [] k = t2 -> 2 [] k = u1 -> 3]
MCTimes == {0, 6}
MCFlagSets == {{}, {"ack"}, {"fin", "ack"}}
=============================================================================
