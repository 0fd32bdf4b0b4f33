---------------------------- MODULE BatchReader ----------------------------
(***************************************************************************)
(* The kernels that read a file and emit batches of flow records, from the *)
(* paper's experiments (src/kernels/deprecated):                           *)
(*                                                                         *)
(*   MicroflowReader   aggregates the microflows that a switch exported    *)
(*                     into flows, which leave on FIN or RST, or when a    *)
(*                     check finds them idle                               *)
(*   ClfrReader        replays a file of whole flow records                *)
(*                                                                         *)
(* What a file holds is chosen as it is read.  A flow record is its key    *)
(* and the numbers of the microflows it was put together from; Packets     *)
(* gives its packet vector.  The stream `out' is RaftLib's: allocate waits *)
(* for a free slot, send hands the slot over.  Two of the experiments'     *)
(* kernels push a throughput into a port "stats" of theirs now and then,   *)
(* which waits for a free slot as well; of these streams only the number   *)
(* of values is kept.                                                      *)
(*                                                                         *)
(* The flow table is ska::flat_hash_map, which is external: erase moves    *)
(* entries back, so that the entry behind the erased one may come to lie   *)
(* where the running loop already is and be passed over.                   *)
(***************************************************************************)
EXTENDS Integers, SequencesExt, FiniteSetsExt

CONSTANTS
    Microflows,     \* [key, fin, pkts]: what files may hold; fin for FIN or RST,
                    \* pkts a sequence of [ts, queue]
    MfBatch,        \* MF_BATCH_SIZE
    BatchSize,      \* BATCH_SIZE
    ReplayBatch,    \* BATCH_SIZE_READER
    BenchmarkCt,    \* BENCHMARK_CT
    CheckPeriod,    \* timeoutCheckPeriod
    Threshold,      \* timeoutThreshold
    Capacity        \* slots of a stream

ASSUME BatchReaderAssumption ==
    /\ {MfBatch, BatchSize, ReplayBatch, Capacity} \subseteq Nat \ {0}
    /\ BatchSize < MfBatch
    /\ {BenchmarkCt, CheckPeriod, Threshold} \subseteq Nat
    /\ \A m \in Microflows :
          m.fin \in BOOLEAN /\ m.pkts \in Seq([ts : Nat, queue : Nat]) /\ Len(m.pkts) > 0

VARIABLES
    rpc,             \* what run() does next: "read", "timeouts", "benchmark", "replay",
                     \* "stopped"
    total,           \* totalMfCt, or the records of the file to be replayed
    read,            \* what was read so far
    table,           \* CLFR_flatmap, key -> numbers of microflows
    batch,           \* *batchVec
    allocated,       \* batchVec is a slot of the stream
    out,             \* the stream
    taken,           \* history: the flow records that have left the stream
    i,               \* the loop of readMicroflows
    mf_ct,           \* mfCt
    last_mf_ct,      \* lastMfCt
    stats,           \* the streams out of the ports "stats": how many values
    cur_ts,          \* curTs
    last_check_ts,   \* lastCheckTs
    todo,            \* the flows that the loop of timeoutFlows has yet to visit
    new_timeouts     \* newTimeouts

mf_vars == <<i, mf_ct, last_mf_ct, cur_ts, last_check_ts, todo, new_timeouts, table>>
reader_vars == <<rpc, total, read, batch, allocated, out, taken, mf_vars>>

ReaderInit(kind, totals) ==
    /\ rpc = kind
    /\ total \in totals
    /\ read = <<>> /\ table = [k \in {} |-> <<>>]
    /\ batch = <<>> /\ allocated = FALSE /\ out = <<>> /\ taken = <<>>
    /\ i = 0 /\ mf_ct = 0 /\ last_mf_ct = 0 /\ cur_ts = 0 /\ last_check_ts = 0
    /\ todo = {} /\ new_timeouts = 0
    /\ stats = [p \in {"reader", "replica"} |-> 0]

\* output["stats"].push, by the reader or the replicated counter.
PushStats(p) ==
    /\ stats[p] < Capacity
    /\ stats' = [stats EXCEPT ![p] = @ + 1]

\* The packet vector of a flow, and its last time stamp.
Packets(mfs) == FlattenSeq([n \in DOMAIN mfs |-> read[mfs[n]].pkts])
LastTs(mfs) == Last(read[Last(mfs)].pkts).ts

\* The test before sendBatch.
BatchFull(b, limit) == Len(b) > limit

\* batchVec->emplace_back, and sendBatch up to its allocate.
EmplaceBack(flow, limit) ==
    LET b == Append(batch, flow)
    IN  \/ /\ BatchFull(b, limit)
           /\ out' = Append(out, b) /\ batch' = <<>> /\ allocated' = FALSE
       \/ /\ ~BatchFull(b, limit)
          /\ batch' = b /\ UNCHANGED <<out, allocated>>

\* allocate, in sendBatch and at the head of the first run(): waits for a slot.
Allocate ==
    /\ rpc \notin {"benchmark", "stopped"} /\ ~allocated /\ Len(out) < Capacity
    /\ allocated' = TRUE
    /\ UNCHANGED <<rpc, total, read, batch, out, taken, mf_vars>>

\* recycle, by the kernel that reads the stream.
Recycle ==
    /\ out' = Tail(out)
    /\ taken' = taken \o Head(out)
    /\ UNCHANGED <<rpc, total, read, batch, allocated, mf_vars>>

-----------------------------------------------------------------------------
(***************************************************************************)
(* MicroflowReader                                                         *)
(***************************************************************************)

\* Fault: the loop's bound ignores the flows already in the batch.
ReadsLeftFixed == i < MfBatch + 2

\* The loop's condition, evaluated anew in each round.
ReadsLeft == i < MfBatch - Len(batch) + 1

Aggregate(t, k, mfs) == [x \in DOMAIN t \cup {k} |-> IF x = k THEN mfs ELSE t[x]]
Forget(t, k) == [x \in DOMAIN t \ {k} |-> t[x]]

\* Fault: a flow that ended stays in the table.
AggregatedStays(m, mfs) == Aggregate(table, m.key, mfs)

\* The table after microflow m, which makes its flow mfs.
Aggregated(m, mfs) ==
    IF m.fin THEN Forget(table, m.key) ELSE Aggregate(table, m.key, mfs)

\* Fault: the clock follows the microflows, backwards too.
ClockFollows(ts) == ts

\* curTs after a microflow whose flow ends at ts.
Clock(ts) == Max({cur_ts, ts})

\* One round of the loop of readMicroflows.  The loop counts microflows, not
\* bytes: behind the end of the buffer it goes on with whatever lies there.
ReadMicroflow(m) ==
    LET before == IF m.key \in DOMAIN table THEN table[m.key] ELSE <<>>
        mfs    == Append(before, Len(read) + 1)
    IN  /\ rpc = "read" /\ allocated /\ ReadsLeft
        /\ read' = Append(read, m)
        /\ table' = Aggregated(m, mfs)
        /\ cur_ts' = Clock(Last(m.pkts).ts)
        /\ \/ m.fin /\ EmplaceBack([key |-> m.key, mfs |-> mfs], BatchSize)
           \/ ~m.fin /\ UNCHANGED <<batch, allocated, out>>
        /\ i' = i + 1
        /\ UNCHANGED <<rpc, total, taken, mf_ct, last_mf_ct, last_check_ts, todo,
                       new_timeouts>>

\* The end of readMicroflows, and the rest of run() up to timeoutFlows or, when
\* no check is due, up to benchmark.
ReadMicroflowsEnd ==
    /\ rpc = "read" /\ allocated /\ ~ReadsLeft
    /\ mf_ct' = mf_ct + MfBatch
    /\ last_mf_ct' = last_mf_ct + MfBatch
    /\ i' = 0
    /\ \/ /\ cur_ts - last_check_ts > CheckPeriod
          /\ rpc' = "timeouts" /\ todo' = DOMAIN table
       \/ /\ cur_ts - last_check_ts <= CheckPeriod
          /\ rpc' = "benchmark"
          /\ UNCHANGED todo
    /\ UNCHANGED <<total, read, batch, allocated, out, taken, cur_ts, last_check_ts,
                   new_timeouts, table>>

IsIdle(k) == cur_ts - LastTs(table[k]) > Threshold

\* The entries that an erase may move out of the loop's way.
PassedOver(rest) == {S \in SUBSET rest : Cardinality(S) <= 1}

\* Fault: the loop goes on only from a flow that it erased.
KeptNotPassed(k) == todo

\* ++it, at a flow that stays.
KeptPassed(k) == todo \ {k}

\* One round of the loop of timeoutFlows, in the order of the hash table.
TimeoutFlow(k) ==
    /\ rpc = "timeouts" /\ allocated /\ k \in todo
    /\ \/ /\ IsIdle(k)
          /\ EmplaceBack([key |-> k, mfs |-> table[k]], BatchSize)
          /\ table' = Forget(table, k)
          /\ \E S \in PassedOver(todo \ {k}) : todo' = todo \ ({k} \cup S)
          /\ new_timeouts' = new_timeouts + 1
       \/ /\ ~IsIdle(k)
          /\ todo' = KeptPassed(k)
          /\ UNCHANGED <<batch, allocated, out, table, new_timeouts>>
    /\ UNCHANGED <<rpc, total, read, taken, i, mf_ct, last_mf_ct, cur_ts, last_check_ts>>

\* The end of timeoutFlows.
TimeoutFlowsEnd ==
    /\ rpc = "timeouts" /\ allocated /\ todo = {}
    /\ last_check_ts' = cur_ts
    /\ new_timeouts' = 0
    /\ rpc' = "benchmark"
    /\ UNCHANGED <<total, read, batch, allocated, out, taken, i, mf_ct, last_mf_ct, cur_ts,
                   todo, table>>

\* The test at the end of run().
LastRun(ct) == ct + MfBatch > total

\* benchmark, and the end of run().
Benchmark ==
    /\ rpc = "benchmark"
    /\ \/ last_mf_ct > BenchmarkCt /\ PushStats("reader") /\ last_mf_ct' = 0
       \/ last_mf_ct <= BenchmarkCt /\ UNCHANGED <<stats, last_mf_ct>>
    /\ rpc' = IF LastRun(mf_ct) THEN "stopped" ELSE "read"
    /\ UNCHANGED <<total, read, batch, allocated, out, taken, i, mf_ct, cur_ts,
                   last_check_ts, todo, new_timeouts, table>>

MicroflowStep(file) ==
    \/ \E m \in file : ReadMicroflow(m)
    \/ ReadMicroflowsEnd
    \/ \E k \in todo : TimeoutFlow(k)
    \/ TimeoutFlowsEnd

-----------------------------------------------------------------------------
(***************************************************************************)
(* ClfrReader                                                              *)
(***************************************************************************)

\* One round of the loop of run(): a record that is a flow of its own.
ReplayClfr(m) ==
    /\ rpc = "replay" /\ allocated /\ Len(read) < total
    /\ read' = Append(read, m)
    /\ EmplaceBack([key |-> m.key, mfs |-> <<Len(read) + 1>>], ReplayBatch)
    /\ UNCHANGED <<rpc, total, taken, mf_vars>>

\* The end of run(): the last batch is sent whatever it holds.
ReplayEnd ==
    /\ rpc = "replay" /\ allocated /\ Len(read) = total
    /\ out' = Append(out, batch) /\ batch' = <<>> /\ allocated' = FALSE
    /\ rpc' = "stopped"
    /\ UNCHANGED <<total, read, taken, mf_vars>>

ReplayStep(file) == (\E m \in file : ReplayClfr(m)) \/ ReplayEnd

\* The reader's thread, on a file of microflows of that set.
ReaderStep(file) ==
    \/ (Allocate \/ MicroflowStep(file) \/ ReplayStep(file)) /\ UNCHANGED stats
    \/ Benchmark
=============================================================================
