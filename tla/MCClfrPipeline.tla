--------------------------- MODULE MCClfrPipeline ---------------------------
(***************************************************************************)
(* Small instances of ClfrPipeline: files of a few records of two TCP keys *)
(* and a UDP key, two of them of one address; packets within an epoch and  *)
(* across two, in and out of order of sequence numbers that wrap around,   *)
(* with gaps at and above the limit of flowlets and a clock set back.      *)
(***************************************************************************)
EXTENDS ClfrPipeline

CONSTANTS t1, t2, u1, addr_a, addr_b

MCSrc == [k \in {t1, t2, u1} |-> IF k = t2 THEN addr_b ELSE addr_a]
MCIpProto == [k \in {t1, t2, u1} |-> IF k = u1 THEN "udp" ELSE "tcp"]
MCPrograms == {"active_connections", "flowlet_size_histogram", "tcp_non_monotonic",
               "tcp_out_of_sequence", "ewma_latencies", "packet_counts",
               "passthrough", "batch_test", "parallel_test"}

P(ts, seq, len, once, lat) == [ts |-> ts, seq |-> seq, len |-> len, once |-> once, lat |-> lat]

MCRecords ==
    {[key |-> t1, pkts |-> <<P(1, 6, 0, TRUE, 0), P(2, 7, 2, FALSE, 9), P(5, 1, 1, FALSE, 30)>>],
     [key |-> t1, pkts |-> <<P(7, 0, 1, FALSE, 9), P(6, 4, 1, FALSE, 9)>>],
     [key |-> t2, pkts |-> <<P(4, 5, 2, FALSE, 100)>>],
     [key |-> u1, pkts |-> <<P(3, 0, 0, FALSE, 7), P(6, 0, 0, FALSE, 3)>>]}
=============================================================================
