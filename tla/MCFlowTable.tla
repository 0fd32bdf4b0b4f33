---------------------------- MODULE MCFlowTable ----------------------------
(***************************************************************************)
(* Small instances of FlowTable.  The intervals keep the order they have   *)
(* in the code (ACK check 1 < check 5 < UDP 10 < TCP 30) and W leaves room *)
(* above the largest time for the longest timeout, as 2^32 does.           *)
(***************************************************************************)
EXTENDS FlowTable, TLC

CONSTANTS t1, t2, u1

MCIpProto == [k \in Keys |-> IF k = u1 THEN "udp" ELSE "tcp"]
MCFewTimes == {0, 6}
MCTimes == {0, 1, 2, 3, 4, 6}
MCFlagSets == {{}, {"ack"}, {"syn", "ack"}, {"fin", "ack"}}
MCEndFlagSets == {{}, {"ack"}, {"fin", "ack"}}

\* The two TCP keys are interchangeable in FlowTable.
MCSymmetry == Permutations({t1, t2})
=============================================================================
