---------------------------- MODULE ClfrPipeline ----------------------------
(***************************************************************************)
(* The analytics programs of src/app as what they are, chains of kernels,  *)
(*                                                                         *)
(*     clfr_file_reader >> ... >> group_by >> printer  (or benchmark)      *)
(*                                                                         *)
(* on a file of flow records that was closed and has a record.  What the   *)
(* kernels in between compute is in Analyses.                              *)
(*                                                                         *)
(* RaftLib is external: every kernel has a thread, which calls run() while *)
(* there is something to pop; streams are bounded queues, on which a push  *)
(* blocks when there is no room; a kernel whose run() returned stop, or    *)
(* whose input is empty and comes from a kernel that is over, is over.     *)
(*                                                                         *)
(* The last kernel is a printer or a BenchmarkPrinter, which counts what   *)
(* it gets, by intervals of time.  A parameter that all programs leave     *)
(* FALSE starts a timer in it, a detached thread that sets the count back; *)
(* `timer' says whether it is used.                                        *)
(***************************************************************************)
EXTENDS Analyses, FiniteSets

CONSTANTS
    Programs,      \* the programs of src/app that are run
    Timed,         \* those whose benchmark is run with the timer, too
    Records,       \* flow records that occur
    MaxFile,       \* bound: records in a file
    BatchSize,     \* batch size of batch_test, beside 0
    QueueSize      \* slots of a stream

ASSUME PipelineAssumption ==
    /\ Programs \subseteq {"active_connections", "flowlet_size_histogram",
                           "tcp_non_monotonic", "tcp_out_of_sequence", "ewma_latencies",
                           "packet_counts", "passthrough", "batch_test", "parallel_test"}
    /\ MaxFile \in Nat \ {0} /\ BatchSize \in Nat \ {0} /\ QueueSize \in Nat \ {0}

\* A flow is created with a packet, so that no record is without.
Packet == [ts : 0 .. TsW - 1, seq : 0 .. SeqW - 1, len : Nat, once : BOOLEAN, lat : Nat]
ASSUME RecordsAssumption ==
    \A r \in Records : r.pkts \in Seq(Packet) /\ r.pkts # <<>>

VARIABLES
    conf,       \* the program, its batch size, its sink and the timer
    file,       \* the records of the file
    rd,         \* how many of them the reader has read
    queue,      \* queue[i]: the stream from kernel i to kernel i + 1
    held,       \* held[i]: what run() of kernel i has yet to push
    maps,       \* maps[i]: the std::map of kernel i
    over,       \* over[i]: kernel i is over
    taken,      \* history: the objects the last kernel has popped
    bench,      \* the BenchmarkPrinter: _counts, _current, and the value that
                \* a ++ in progress has loaded, -1 for none
    returned    \* the program has returned from m.exe(), and from done()

pipeline_vars == <<conf, file, rd, queue, held, maps, over, taken, bench, returned>>

\* The chain that main() of each program builds.  The pairs of kernels of
\* parallel_test share nothing, so that one of them stands for all.
ActiveConnections == <<"clfr_file_reader", "compute_epochs", "group_epochs", "sink">>
FlowletSizes == <<"clfr_file_reader", "fl_group", "fl_size_histogram", "sink">>
TcpNonMonotonic == <<"clfr_file_reader", "tcp_filter", "flow_tcp_nm", "sink">>
TcpOutOfSequence == <<"clfr_file_reader", "tcp_filter", "flow_tcp_oos", "sink">>
EwmaLatencies == <<"clfr_file_reader", "flow_ewma", "sink">>
PacketCounts == <<"clfr_file_reader", "src_ip_counter", "sink">>
Passthrough == <<"clfr_file_reader", "sink">>
BatchTest == <<"clfr_file_reader", "sink">>
ParallelTest == <<"clfr_file_reader", "sink">>

Chain(program) ==
    CASE program = "active_connections"     -> ActiveConnections
      [] program = "flowlet_size_histogram" -> FlowletSizes
      [] program = "tcp_non_monotonic"      -> TcpNonMonotonic
      [] program = "tcp_out_of_sequence"    -> TcpOutOfSequence
      [] program = "ewma_latencies"         -> EwmaLatencies
      [] program = "packet_counts"          -> PacketCounts
      [] program = "passthrough"            -> Passthrough
      [] program = "batch_test"             -> BatchTest
      [] program = "parallel_test"          -> ParallelTest

Kernels == DOMAIN Chain(conf.program)
Sink == Len(Chain(conf.program))

Confs == {c \in [program : Programs, batch : {0, BatchSize}, benchmark : BOOLEAN,
                 timer : BOOLEAN] :
            /\ c.batch > 0 => c.program \in {"batch_test", "parallel_test"}
            /\ c.program \in {"batch_test", "parallel_test"} => c.benchmark
            /\ c.timer => c.benchmark /\ c.program \in Timed}

PipelineInit ==
    /\ conf \in Confs
    /\ file \in UNION {[1 .. n -> Records] : n \in 1 .. MaxFile}
    /\ rd = 0
    /\ queue = [i \in Kernels |-> <<>>]
    /\ held = [i \in Kernels |-> <<>>]
    /\ maps = [i \in Kernels |-> NoEntries]
    /\ over = [i \in Kernels |-> FALSE]
    /\ taken = <<>>
    /\ bench = [counts |-> <<>>, current |-> 0, loaded |-> -1]
    /\ returned = FALSE

EmptyRecord == [key |-> "none", pkts |-> <<>>]

\* A batch, filled up with the records that are read beyond the end.
Batch(first) ==
    [n \in 1 .. conf.batch |->
        IF first + n <= Len(file) THEN file[first + n] ELSE EmptyRecord]

\* run() of the CLFRFileReader.
ReaderRun ==
    /\ held[1] = <<>> /\ rd < Len(file)
    /\ IF conf.batch > 0
       THEN /\ held' = [held EXCEPT ![1] = <<Batch(rd)>>]
            /\ rd' = IF rd + conf.batch < Len(file) THEN rd + conf.batch ELSE Len(file)
       ELSE /\ held' = [held EXCEPT ![1] = <<file[rd + 1]>>]
            /\ rd' = rd + 1
    /\ UNCHANGED <<conf, file, queue, maps, over, taken, bench, returned>>

ReaderStop ==
    /\ held[1] = <<>> /\ rd = Len(file) /\ ~over[1]
    /\ over' = [over EXCEPT ![1] = TRUE]
    /\ UNCHANGED <<conf, file, rd, queue, held, maps, taken, bench, returned>>

\* The end of a run(): the push, which waits for room.
Push(i) ==
    /\ held[i] # <<>> /\ Len(queue[i]) < QueueSize
    /\ queue' = [queue EXCEPT ![i] = @ \o held[i]]
    /\ held' = [held EXCEPT ![i] = <<>>]
    /\ UNCHANGED <<conf, file, rd, maps, over, taken, bench, returned>>

Input(i) == queue[i - 1]

\* Fault: the filter looks at an object and pops it only if it passes it on.
PoppedPassed(i, result) == IF result.out = <<>> THEN Input(i) ELSE Tail(Input(i))

\* What is left of the input of kernel i.
Popped(i, result) == Tail(Input(i))

\* run() of a Map, Filter or GroupBy up to its push.
KernelRun(i) ==
    /\ held[i] = <<>> /\ Input(i) # <<>>
    /\ LET result == Apply(Chain(conf.program)[i], maps[i], Head(Input(i)))
       IN  /\ maps' = [maps EXCEPT ![i] = result.map]
           /\ held' = [held EXCEPT ![i] = result.out]
           /\ queue' = [queue EXCEPT ![i - 1] = Popped(i, result)]
    /\ UNCHANGED <<conf, file, rd, over, taken, bench, returned>>

KernelOver(i) ==
    /\ over[i - 1] /\ ~over[i] /\ Input(i) = <<>> /\ held[i] = <<>>
    /\ i = Sink => bench.loaded = -1
    /\ over' = [over EXCEPT ![i] = TRUE]
    /\ UNCHANGED <<conf, file, rd, queue, held, maps, taken, bench, returned>>

SinkPops ==
    /\ Input(Sink) # <<>>
    /\ queue' = [queue EXCEPT ![Sink - 1] = Tail(@)]
    /\ taken' = Append(taken, Head(Input(Sink)))
    /\ UNCHANGED <<conf, file, rd, held, maps, over, returned>>

\* run() of a FormattedPrinter.
PrinterRun == ~conf.benchmark /\ SinkPops /\ UNCHANGED bench

\* Fault: _current goes on over the interval.
IntervalGoesOn(lapsed) ==
    [counts |-> IF lapsed THEN Append(bench.counts, bench.current) ELSE bench.counts,
     current |-> bench.current, loaded |-> bench.current]

\* The BenchmarkPrinter after the test for the end of the interval, and with
\* the ++ of _current begun.
Interval(lapsed) ==
    LET current == IF lapsed THEN 0 ELSE bench.current
    IN  [counts |-> IF lapsed THEN Append(bench.counts, bench.current) ELSE bench.counts,
         current |-> current, loaded |-> current]

\* run() of a BenchmarkPrinter; its first call begins the first interval.
BenchmarkRun ==
    /\ conf.benchmark /\ bench.loaded = -1
    /\ SinkPops
    /\ \E lapsed \in BOOLEAN :
          /\ lapsed => bench.counts # <<>> \/ bench.current # 0
          /\ bench' = Interval(lapsed)

BenchmarkStores ==
    /\ bench.loaded # -1
    /\ bench' = [bench EXCEPT !.current = bench.loaded + 1, !.loaded = -1]
    /\ UNCHANGED <<conf, file, rd, queue, held, maps, over, taken, returned>>

\* _tick, in the timer's thread.
Tick ==
    /\ conf.timer
    /\ bench' = [bench EXCEPT !.current = 0]
    /\ UNCHANGED <<conf, file, rd, queue, held, maps, over, taken, returned>>

\* m.exe() returns, and the main thread calls done().
Return ==
    /\ over[Sink] /\ ~returned
    /\ returned' = TRUE
    /\ bench' = [bench EXCEPT !.counts = Append(@, bench.current)]
    /\ UNCHANGED <<conf, file, rd, queue, held, maps, over, taken>>

Ended == returned /\ UNCHANGED pipeline_vars

Kernel(i) ==
    /\ i \in Kernels
    /\ \/ i = 1 /\ (ReaderRun \/ ReaderStop)
       \/ i < Sink /\ Push(i)
       \/ i \in 2 .. Sink - 1 /\ KernelRun(i)
       \/ i = Sink /\ (PrinterRun \/ BenchmarkRun \/ BenchmarkStores)
       \/ i > 1 /\ KernelOver(i)

Step == (\E i \in 1 .. 4 : Kernel(i)) \/ Return

PipelineNext == Step \/ Tick \/ Ended

\* Some thread of the program that can run does, the timer's not counting.
PipelineSpec == PipelineInit /\ [][PipelineNext]_pipeline_vars /\ WF_pipeline_vars(Step)
-----------------------------------------------------------------------------
(***************************************************************************)
(* Properties                                                              *)
(***************************************************************************)

\* Record n of the file fl reaches the last kernel; how many of the first n do.
Passes(program, fl, n) ==
    program \in {"tcp_non_monotonic", "tcp_out_of_sequence"} => IpProto[fl[n].key] = "tcp"
Passing(program, fl, n) == Cardinality({m \in 1 .. n : Passes(program, fl, m)})

\* All packets of a key in the first n records.
PacketsOf(fl, k, n) ==
    FlattenSeq([m \in 1 .. n |-> IF fl[m].key = k THEN fl[m].pkts ELSE <<>>])

\* The sizes of the flowlets that the packets ps fall into, cut where the
\* distance of two is greater than Alpha.
Flowlets(ps) ==
    LET cuts == {m \in DOMAIN ps : m = 1 \/ (ps[m].ts - ps[m - 1].ts) % TsW > Alpha}
        flowlet(m) == Cardinality({c \in cuts : c <= m})
    IN  [f \in 1 .. Cardinality(cuts) |-> Cardinality({m \in DOMAIN ps : flowlet(m) = f})]

FlowletsAt(fl, n) == Flowlets(PacketsOf(fl, fl[n].key, n))

\* By how much a packet moves the sequence number, and the first l of them do.
Advance(ps) == [m \in DOMAIN ps |-> IF ps[m].once THEN 1 ELSE ps[m].len]
Advanced(ps, l) == MapThenSumSet(LAMBDA m : Advance(ps)[m], 1 .. l)

\* x is what the last kernel is to get for record n, said of the file as a whole.
IsResult(program, fl, x, n) ==
    LET k == fl[n].key
        ps == PacketsOf(fl, k, n)
        own == FlowletsAt(fl, n)
    IN  CASE program \in {"passthrough", "batch_test", "parallel_test"} -> x = fl[n]
          [] program = "packet_counts" ->
                x = <<Src[k], Cardinality({q \in UNION {{m} \X DOMAIN fl[m].pkts : m \in 1 .. n} :
                                              Src[fl[q[1]].key] = Src[k]})>>
          [] program = "active_connections" ->
                x = [e \in Epochs(fl[n]) |-> Cardinality({m \in 1 .. n : e \in Epochs(fl[m])})]
          [] program = "tcp_non_monotonic" ->
                x = <<k, Cardinality({m \in 2 .. Len(ps) : ps[m].seq < ps[m - 1].seq})>>
          [] program = "tcp_out_of_sequence" ->
                x = <<k, Cardinality({m \in 1 .. Len(ps) :
                            ps[m].seq # (ps[1].seq + Advanced(ps, m - 1)) % SeqW})>>
          [] program = "ewma_latencies" ->
                /\ x[1] = k /\ Len(x[2]) = Len(fl[n].pkts)
                /\ \A m \in DOMAIN x[2] :
                      /\ \E p \in ToSet(ps) : p.lat <= x[2][m]
                      /\ \E p \in ToSet(ps) : x[2][m] <= p.lat
          [] program = "flowlet_size_histogram" ->
                \* of each flowlet, how many of its size there were before and in the record
                x = [f \in DOMAIN own |->
                       <<own[f], Cardinality({q \in UNION {{m} \X DOMAIN FlowletsAt(fl, m) : m \in 1 .. n} :
                                    /\ FlowletsAt(fl, q[1])[q[2]] = own[f]
                                    /\ q[1] = n => q[2] <= f})>>]

\* However the kernels' threads take turns, the objects that reach the last
\* kernel are those of the records in their order, none lost, repeated or
\* overtaken, and each is what the program promises of the whole file so far:
\* packets per address, flows per second, decreases of the sequence number of
\* a key, deviations from the expected one, averages within the range of the
\* latencies, and the histogram of flowlet sizes.
ResultsFollowFile ==
    conf.batch = 0 =>
        /\ \A j \in DOMAIN taken : \E n \in DOMAIN file :
              /\ Passes(conf.program, file, n) /\ Passing(conf.program, file, n) = j
              /\ IsResult(conf.program, file, taken[j], n)
        /\ returned => Len(taken) = Passing(conf.program, file, Len(file))

Total == FoldLeft(LAMBDA a, b : a + b, 0, bench.counts)

\* The total that the benchmark prints is the number of objects it got, over
\* all intervals, in whatever moments they end; in batch mode the number of
\* batches.  With the timer, whose thread sets the count back in between, it
\* is at most that, and never more than was popped.
BenchmarkCounts ==
    returned /\ conf.benchmark =>
        /\ IF conf.timer THEN Total <= Len(taken) ELSE Total = Len(taken)
        /\ conf.batch > 0 =>
              Len(taken) * conf.batch - Len(file) \in 0 .. conf.batch - 1

\* The programs end: bounded queues, filters that pass nothing on, and readers
\* that stop leave no kernel waiting for another for ever.
ProgramsEnd == <>returned
=============================================================================
