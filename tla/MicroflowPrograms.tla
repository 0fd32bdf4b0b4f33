------------------------- MODULE MicroflowPrograms -------------------------
(***************************************************************************)
(* The kernels of BatchReader in front of each of the kernels that read    *)
(* batches: a thread each, over streams of bounded length.  The repository *)
(* keeps these kernels without the programs that connected them; they are  *)
(* connected here as their ports allow.                                    *)
(***************************************************************************)
EXTENDS HostProfiler, MicroburstDetector, FeatureCalculator, BatchCounters,
        BenchmarkPrinter

CONSTANTS
    Programs,      \* [reader, kernel, printers]: the programs
    Files,         \* program -> the microflows its files may hold
    Lengths        \* program -> the numbers of records its files may have

\* The kernels of a program that have a port "stats".
Measured(p) ==
    (IF p.reader = "read" THEN {"reader"} ELSE {})
        \cup (IF p.kernel = "count" THEN {"replica"} ELSE {})

\* Every port is connected, to one printer.
ASSUME ProgramsAssumption ==
    \A p \in Programs :
        /\ p.reader \in {"read", "replay"}
        /\ p.kernel \in {"profiler", "detector", "calculator", "count", "tap"}
        /\ p.printers \subseteq Printers
        /\ UNION {ToSet(q) : q \in p.printers} = Measured(p)
        /\ \A q, r \in p.printers : q # r => ToSet(q) \cap ToSet(r) = {}
        /\ Files[p] \subseteq Microflows /\ Lengths[p] \subseteq Nat

VARIABLE program

programs_vars == <<program, reader_vars, stats, turn, profiler_vars, detector_vars, calculator_vars,
                   counter_vars>>

ProgramsInit ==
    /\ program \in Programs
    /\ ReaderInit(program.reader, Lengths[program])
    /\ ProfilerInit /\ DetectorInit /\ CalculatorInit /\ CountersInit /\ PrintersInit
    /\ program.kernel # "calculator" => variant = CHOOSE v \in Variants : TRUE

\* The kernel behind the reader.
KernelStep ==
    /\ UNCHANGED <<program, stats, turn>>
    /\ \/ /\ program.kernel = "profiler" /\ Profile
          /\ UNCHANGED <<detector_vars, calculator_vars, counter_vars>>
       \/ /\ program.kernel = "detector" /\ Detect
          /\ UNCHANGED <<profiler_vars, calculator_vars, counter_vars>>
       \/ /\ program.kernel = "calculator"
          /\ RichRun \/ AllStatsRun \/ NetFlowRun \/ PfeRun
          /\ UNCHANGED <<profiler_vars, detector_vars, counter_vars>>
       \/ /\ program.kernel \in {"count", "tap"} /\ CloneStep
          /\ UNCHANGED <<profiler_vars, detector_vars, calculator_vars>>

\* The kernels behind the cloner.
BranchStep ==
    /\ \/ /\ UNCHANGED stats
          /\ \/ program.kernel \in {"count", "tap"} /\ ChainStep
             \/ program.kernel = "count" /\ (CounterStep \/ ReplicatedStep)
             \/ program.kernel = "tap" /\ TapStep
       \/ program.kernel = "count" /\ ReplicatedPush
    /\ UNCHANGED <<program, turn, profiler_vars, detector_vars, calculator_vars>>

ReaderThread ==
    /\ ~exited
    /\ ReaderStep(Files[program])
    /\ UNCHANGED <<program, turn, profiler_vars, detector_vars, calculator_vars,
                   counter_vars>>

PrinterStep(q) ==
    /\ ~exited /\ q \in program.printers
    /\ TakeValue(q)
    /\ UNCHANGED <<program, profiler_vars, detector_vars, calculator_vars, counter_vars>>

\* The reader, or the replicated counter, has a throughput to push.
Pushing(p) ==
    \/ p = "reader" /\ rpc = "benchmark" /\ last_mf_ct > BenchmarkCt
    \/ p = "replica" /\ replica.pushing

\* All kernels are over: the reader has stopped and the streams are empty, or
\* the application is gone.  A printer is over where nothing more can come.
ProgramOver ==
    \/ exited
    \/ /\ rpc = "stopped" /\ out = <<>>
       /\ chained = <<>> /\ \A p \in Ports : port[p] = <<>>
       /\ ~replica.pushing
       /\ \A q \in program.printers : Starving(q)

\* A kernel waits for room in a stream whose printer waits for a value, which
\* can only be at another of its ports.
Jammed ==
    \E q \in program.printers : \E p \in ToSet(q) :
        /\ Pushing(p) /\ stats[p] = Capacity
        /\ Starving(q)

\* Nothing happens any more.
Over == ProgramOver /\ UNCHANGED programs_vars
Stuck == Jammed /\ UNCHANGED programs_vars

ProgramsNext ==
    ReaderThread \/ KernelStep \/ BranchStep \/ (\E q \in Printers : PrinterStep(q))
        \/ Over \/ Stuck

\* RaftLib gives every kernel a thread, and each of them runs.
ProgramsSpec ==
    /\ ProgramsInit
    /\ [][ProgramsNext]_programs_vars
    /\ WF_programs_vars(ReaderThread)
    /\ WF_programs_vars(KernelStep)
    /\ WF_programs_vars(BranchStep)
    /\ \A q \in Printers : WF_programs_vars(PrinterStep(q))
-----------------------------------------------------------------------------
(***************************************************************************)
(* Properties                                                              *)
(***************************************************************************)

\* The flow records that have left the table.
Records == taken \o FlattenSeq(out) \o batch

\* Every microflow that was read is in one flow, in the table, in the batch, on
\* the stream or handed on, once, with the earlier ones of its flow before it;
\* a FIN or RST is the last of its flow, and its flow is not in the table.
MicroflowsAccounted ==
    LET flows == {[key |-> k, mfs |-> table[k]] : k \in DOMAIN table} \cup ToSet(Records)
        size  == SumFunction([k \in DOMAIN table |-> Len(table[k])])
                   + FoldLeft(LAMBDA n, f : n + Len(f.mfs), 0, Records)
    IN  /\ UNION {ToSet(f.mfs) : f \in flows} = 1 .. Len(read)
        /\ size = Len(read)
        /\ \A f \in flows, n \in 1 .. Len(read) : n \in ToSet(f.mfs) =>
              /\ read[n].key = f.key
              /\ read[n].fin => n = Last(f.mfs) /\ f \in ToSet(Records)
        /\ \A f \in flows : \A m, n \in DOMAIN f.mfs : m < n => f.mfs[m] < f.mfs[n]

Runs == mf_ct \div MfBatch

\* run() counts MF_BATCH_SIZE microflows, whatever it has read: between
\* MF_BATCH_SIZE + 1 - BATCH_SIZE and MF_BATCH_SIZE + 1.  So when it stops it
\* has left a part of the file unread that grows with the file, or has read
\* past its end by at most one microflow per run, if the file has a batch.  Of
\* the records it has put together, all but those of one batch have been sent.
StopsNearEnd ==
    rpc = "stopped" /\ program.reader = "read" =>
        /\ Len(read) <= Max({total, MfBatch}) + Runs
        /\ Len(read) >= total - (MfBatch - 1) - Runs * (BatchSize - 1)
        /\ Len(batch) <= BatchSize

\* The clock of the reader is never behind a flow, so that no difference wraps;
\* and of the flows that are due a check passes over as many as it takes out,
\* at most: an idle flow can outlive a check, but half of those due leave.
HalfOfDueLeave ==
    /\ \A k \in DOMAIN table : LastTs(table[k]) <= cur_ts
    /\ last_check_ts <= cur_ts
    /\ rpc = "timeouts" =>
          Cardinality({k \in DOMAIN table \ todo : IsIdle(k)}) <= new_timeouts

\* On each of the two ways behind the cloner no flow is lost or counted twice:
\* what was counted and what is on the way is what went in, whatever intervals
\* have ended in between.
CountsAgree ==
    /\ Flows(port[0]) + Flows(chained) + flow_counter + tapped[0] = Pushed(0)
    /\ Flows(port[1]) + replica.total + replica.counter + tapped[1] = Pushed(1)

\* What the kernels that only collect have is what they took of the stream: the
\* profiler the packets of each host, across batches, flows and the exit in the
\* middle of the stream; the counters the flows, on whichever way they came.
KernelsAccount ==
    /\ program.kernel = "profiler" => ProfileComplete
    /\ program.kernel \in {"count", "tap"} => CountsAgree

\* Reader and kernels come to their ends, whatever waits for whom at the
\* streams, and then everything that was sent has been taken; unless one printer
\* has the throughputs of several kernels: then it may wait for a value of one
\* while another waits for it to take one, for good.
MicroflowProgramsEnd == <>[](ProgramOver \/ Jammed)
=============================================================================
