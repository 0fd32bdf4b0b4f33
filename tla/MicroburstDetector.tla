------------------------- MODULE MicroburstDetector -------------------------
(***************************************************************************)
(* MicroburstDetector (src/kernels/deprecated/microburst_detector.h): when *)
(* a flow saw a long queue in the switch, puts the queue of that moment    *)
(* together from the packets of the flows it has cached, and names the     *)
(* sources of those at its end.                                            *)
(*                                                                         *)
(* The two multisets are sequences in their order, equal elements in the   *)
(* order in which they came.  The statistics that are only printed, and    *)
(* lastQueueSize, which nobody reads, are left out.                        *)
(***************************************************************************)
EXTENDS BatchReader

CONSTANTS
    Src,               \* source address of a key
    WatchedSources,    \* the addresses above 20
    QueueThreshold     \* queueThreshold

ASSUME QueueThresholdAssumption == QueueThreshold \in Nat \ {0}

VARIABLES
    detected,              \* the flows of the batch at hand that the loop has done
    ordered_cache,         \* orderedCache, flows by last time stamp
    reconstructed_queue,   \* reconstructedQueue, [src, ts, of], by time stamp
    start_pkt_idx,         \* startPktIdx, key -> index
    reports                \* history: the queues put together, and the sources named

detector_vars == <<detected, ordered_cache, reconstructed_queue, start_pkt_idx, reports>>

DetectorInit ==
    /\ detected = 0 /\ ordered_cache = <<>> /\ reconstructed_queue = <<>>
    /\ start_pkt_idx = [k \in {} |-> 0]
    /\ reports = <<>>

\* A sequence of records in the order of a multiset by time stamp.
ByTs(s) ==
    LET before(m, n) == s[m].ts < s[n].ts \/ (s[m].ts = s[n].ts /\ m < n)
        place(n) == Cardinality({m \in DOMAIN s : before(m, n)}) + 1
    IN  [j \in DOMAIN s |-> s[CHOOSE n \in DOMAIN s : place(n) = j]]

\* Fault: flows and packets of the very time are erased as well.
KeptLater(s, ts) == SubSeq(s, Cardinality({n \in DOMAIN s : s[n].ts <= ts}) + 1, Len(s))

\* erase from begin() to lower_bound(ts), which is behind all that is earlier.
Kept(s, ts) == SubSeq(s, Cardinality({n \in DOMAIN s : s[n].ts < ts}) + 1, Len(s))

\* Fault: the loop ends at the first packet of the end time itself.
LatePackets(pkts, first, end_time) ==
    {n \in DOMAIN pkts : n > first /\ pkts[n].ts >= end_time}

\* The packets, from index first on, that end the loop of updateQueue.
PacketsBeyond(pkts, first, end_time) ==
    {n \in DOMAIN pkts : n > first /\ pkts[n].ts > end_time}

\* updateQueue for one cached flow, which appends its packets to the queue.  The
\* index only moves when the loop ends at a packet beyond the end time.
UpdateQueue(d, flow, end_time) ==
    LET pkts   == Packets(flow.mfs)
        first  == IF flow.key \in DOMAIN d.start THEN d.start[flow.key] ELSE 0
        beyond == PacketsBeyond(pkts, first, end_time)
        last   == IF beyond = {} THEN Len(pkts) ELSE Min(beyond) - 1
    IN  [queue |-> d.queue \o [n \in 1 .. last - first |->
                       [src |-> Src[flow.key], ts |-> pkts[first + n].ts,
                        of |-> <<flow.mfs, first + n>>]],
         start |-> [k \in DOMAIN d.start \cup {flow.key} |->
                       IF k # flow.key THEN d.start[k] ELSE IF beyond = {} THEN first ELSE last]]

\* The same, of the value of d, which TLC would otherwise compute at each of its
\* places.
UpdateQueueOf(d, flow, end_time) ==
    CHOOSE r \in {UpdateQueue(e, flow, end_time) : e \in {d}} : TRUE

\* The longest queue that a packet of the flow saw, and when it was first seen.
LocalMaxSize(pkts) == Max({p.queue : p \in ToSet(pkts)})
LocalMaxTime(pkts) == pkts[Min({n \in DOMAIN pkts : pkts[n].queue = LocalMaxSize(pkts)})].ts

\* updateQueue: the queue and the index after all cached flows.
UpdatedQueue(cache, end_time) ==
    FoldLeft(LAMBDA d, c : UpdateQueueOf(d, c.flow, end_time),
             [queue |-> reconstructed_queue, start |-> start_pkt_idx], cache)

\* The sources of the last packets of a queue, as many as the switch reported.
Offenders(queue, size) ==
    {queue[n].src : n \in {m \in DOMAIN queue : m > Len(queue) - size}}

\* The round of the loop of run() for one flow: into the cache; when the flow is
\* watched and saw a long queue, the cached flows into the queue, and the
\* sources at its end named; out of both what is before the flow's first packet.
DetectFlow ==
    /\ out # <<>> /\ detected < Len(Head(out))
    /\ LET flow  == Head(out)[detected + 1]
           pkts  == Packets(flow.mfs)
           burst == Src[flow.key] \in WatchedSources /\ LocalMaxSize(pkts) >= QueueThreshold
       IN  \E cache \in {ByTs(Append(ordered_cache, [ts |-> LastTs(flow.mfs), flow |-> flow]))} :
              /\ ordered_cache' = Kept(cache, pkts[1].ts)
              /\ \/ /\ burst
                    /\ \E d \in {UpdatedQueue(cache, LocalMaxTime(pkts))} :
                       \E queue \in {ByTs(d.queue)} :
                          /\ reconstructed_queue' = Kept(queue, pkts[1].ts)
                          /\ start_pkt_idx' = d.start
                          /\ reports' = Append(reports,
                                [nth |-> Len(taken) + detected + 1,
                                 end |-> LocalMaxTime(pkts), queue |-> queue,
                                 offenders |-> Offenders(queue, LocalMaxSize(pkts))])
                 \/ /\ ~burst
                    /\ reconstructed_queue' = Kept(reconstructed_queue, pkts[1].ts)
                    /\ UNCHANGED <<reports, start_pkt_idx>>
    /\ detected' = detected + 1
    /\ UNCHANGED reader_vars

\* The end of run().
DetectEnd ==
    /\ out # <<>> /\ detected = Len(Head(out))
    /\ detected' = 0
    /\ Recycle
    /\ UNCHANGED <<ordered_cache, reconstructed_queue, start_pkt_idx, reports>>

Detect == DetectFlow \/ DetectEnd
-----------------------------------------------------------------------------
FirstTs(f) == Packets(f.mfs)[1].ts

\* The flows that the detector has seen, with the batch at hand.
Seen == taken \o (IF out = <<>> THEN <<>> ELSE Head(out))

\* What the detector relies on, of the first flows: they come by start time,
\* each with a key of its own and its packets in order.
Orderly(flows) ==
    /\ \A l, m \in DOMAIN flows : l < m =>
          FirstTs(flows[l]) <= FirstTs(flows[m]) /\ flows[l].key # flows[m].key
    /\ \A m \in DOMAIN flows : IsSorted(Packets(flows[m].mfs), LAMBDA p, q : p.ts <= q.ts)

\* As long as flows come by start time and no key comes back, the queue put
\* together for a flow has every packet, of any flow so far, from the time that
\* the flow began to the burst: neither the erasures from the cache and the
\* queue nor the index at which a flow is taken up again lose one.  (A packet
\* may be in it several times.)
QueueComplete ==
    \A r \in ToSet(reports) :
        LET flows == SubSeq(Seen, 1, r.nth)
        IN  Orderly(flows) =>
            \A m \in DOMAIN flows :
                LET pkts == Packets(flows[m].mfs)
                IN  \A n \in DOMAIN pkts :
                        pkts[n].ts \in FirstTs(flows[r.nth]) .. r.end =>
                            \E p \in ToSet(r.queue) : p.of = <<flows[m].mfs, n>>
=============================================================================
