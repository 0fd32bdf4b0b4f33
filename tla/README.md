# StarFlow analytics: verification

TLA+ models of the StarFlow analytics library and its programs, TLC runs that
check them on small instances, and TLAPS proofs of their safety properties for
every value of the constants.  Paths are relative to the repository; `flow_table.cc:20` means `src/modules/flow_table.cc`
line 20 where the directory is clear.

Contents: [the system](#the-system) - [modules](#modules) -
[runs](#runs-and-bounds) - [fairness](#fairness) - [proofs](#proofs) -
[findings](#where-the-code-and-its-documentation-disagree) -
[what is not modelled](#what-is-not-modelled) - [plan](#plan)

## The system

StarFlow turns packets into flow records (CLFRs: a 5-tuple and the list of its
packets), stores them in files, and computes statistics over such files.  The
library has *modules* (plain objects), *kernels* (the same objects behind RaftLib
ports, a thread each) and *types*; the programs in `src/app` connect them.
`src/kernels/deprecated` keeps the kernels of the experiments of the StarFlow
paper, which work on batches, without the programs that connected them.

    capture                             | analysis
    PCAP file --\                       |
    TZSP, live --+-> FlowTable -> CLFR file -> CLFRFileReader -> Map | Filter | GroupBy -> Printer
    (raw packets, parsed)               |                                             or BenchmarkPrinter

    experiments:  MicroflowReader | ClfrReader -> HostProfiler | MicroburstDetector | FeatureCalculators | ClfrCloner -> counters, ClfrTap
                  MicroflowReader, ClfrCounterReplicated -> (throughputs) BenchmarkPrinter

| component | state | operations | interacts with | what is hard |
|---|---|---|---|---|
| flow table, `src/modules/flow_table.*` | map of active flows; packet and flow counters; next id; seconds of the last two checks; callback | `add_packet`, `set_callback`, forced exports and forced last-ACK check ("for unit tests") | calls back into whoever takes the records | packet times that go backwards and wrap in `uint32_t` differences; erasing while iterating; one call that opens, exports and deletes; a callback that throws |
| PCAP file reader, `src/modules/pcap_file_reader.*`, `src/types/packet.cc` | libpcap handle, the buffer of one packet, `_end` | constructor, `next`, `end` | fills the caller's key and packet | look-ahead and parsing share a buffer; frames that are parsed in part; a capture that is cut off |
| CLFR file writer and reader, `src/modules/clfr_file_*.*`, `src/kernels/clfr_file_reader.cc` | output streams and total; input stream, length of the next record, buffer, `_end` | `write_clfr`, `close`; constructor, `read_clfr`, `end`; batches | through the file | a crash before the terminator; a full disk; a file without terminator; the last batch |
| exporter, `src/app/pcap_flow_file_exporter_main.cc` | the three objects above | main loop | reader, table, writer | what is still in the table at the end; exceptions out of `main` |
| capturing kernels, TZSP receiver, live capture, raw packets | bounded streams, socket, libpcap handle | `run` of each | streams; the network | pushes into a full stream from within `add_packet`; lost, doubled, reordered datagrams; the end of a receive loop |
| analysing kernels (`map.h`, `filter.h`, `group_by.h`, printers), benchmark printer, timer | bounded streams; counts of intervals; maps that live in `main` | pop, function, push; count; `_tick` | streams; timer thread and kernel thread share a counter | termination; order; intervals; the unlocked counter |
| analytics programs, `src/app/*_main.cc`, `counter.h`, `ewma.h` | a map per key, address or second | one update per record | kernels | sequence numbers and times that wrap; state kept across records of a key; integer averages |
| zip, `src/kernels/zip.h`, `zip_test` | a map of waiting items per port | `run`, one item per port | two feeding kernels | which item waits depends on the interleaving; repeated keys; streams of different length |
| TCP flow state, `src/etc/tcp_flow_state.*` | state of the connection, the end that is seen | one call per kind of segment | nothing (only its test) | segments in any order, repeated, and a start in the middle |
| batch readers, `deprecated/microflow_reader.h`, `deprecated/clfr_reader.h` | table of flows, clock, batch, counts | `run`: read, aggregate, emit, time out | stream of batches | a loop whose bound moves; erasing while iterating; what is left at the stop |
| batch kernels, `deprecated/host_timing_profiler.h`, `microburst_detector.h`, `*_feature_calculator.h`, `cloner.h`, `tap.h`, counters | times per host; cached flows and their packets in order; samples and their counts; counters | `run`, a batch each | streams of batches; `exit()` from a kernel | state carried from batch to batch; indices that must match an erased cache; shared vectors; bounded streams that fork and join |
| printer of throughputs, `deprecated/benchmark_printer.h` | its ports, the last value of each | `run`: a value from each port in turn | the ports `"stats"` of the batch kernels | it waits at one port while a kernel waits for room at another |
| printers, replicator, UI service, other deprecated kernels | see [below](#what-is-not-modelled) | | | |

What makes each correct:

* flow table: no accepted packet is lost or in two records; the counters are
  those of the map and the exports (the unsigned one never wraps); ids identify
  flows; a FIN ends its flow, a lone ACK is the only thing that vanishes; idle and
  long flows leave within a bound; late packets evict nothing early unless they
  are older than the last check.
* readers and writers: each frame or record once, whole, in order; a file cut
  short is never taken for a complete one; complete files are read to the end.
* programs and pipelines: their counters agree; what is in a terminated file and
  what is not can be said; between threads nothing is lost, doubled or put out of
  order; they end.
* analyses: the results are those of the file as a whole, whatever the order in
  the threads run.
* TCP flow state: the end that is seen is decided once; closed only after a FIN.
* batch readers: every microflow that was read is in one flow, in order; a FIN is
  the last of its flow; the reader stops near the end of its file.
* batch kernels: every host has a profile, which holds each of its packets once; the queue put together at a
  burst holds the packets of the time that it shows; nothing is judged before the
  training is over, nothing trained on after; the two ways behind the cloner count
  the same; all come to their ends, or it can be said what keeps them.

## Modules

| module | models | state and actions against the code |
|---|---|---|
| `FlowTable` | `modules::FlowTable`, a call per action | The variables are the members, by their names; `callback` is whether the function set is a callable one; `log`, `exported`, `deleted` are histories. A packet is its arrival number; a flow's list is the set of its numbers (it is only appended to). `AddPacket` is the whole of `add_packet`: lookup, FIN, timeout check, last-ACK check. `Sub` is `uint32_t` subtraction, modulo `W`. |
| `FlowTableSweep` | the same calls, iterator step by iterator step | `pc` and `todo` are the place in `add_packet` and the rest of the running loop in the order of `std::map`; the callback runs where `_evict_flow` runs it and may throw `logic_error`. Without exceptions it implements `FlowTable`. |
| `PcapFileReader` | `modules::PCAPFileReader` with `Packet::parse` | a packet is, member by member, the number of the frame that filled it |
| `ClfrFileWriter` | `modules::CLFRFileWriter` | the file is the number of tokens (lengths, bodies, the final zero) that have reached it; buffers reach it at any time or fail to |
| `ClfrFileReader` | `modules::CLFRFileReader`, its kernel with batches, the loop of `clfr_stats` | reads what any writer, closed, dead or out of disk space, left |
| `FlowFileExporter` | `pcap_flow_file_exporter` | composes `FlowTable`, `PcapFileReader`, `ClfrFileWriter`: their actions happen together in a round of the loop |
| `CapturePipeline` | the capturing kernels as threads | the same three modules, separated by streams; sources: file, TZSP, live device. A `run()` is an action up to its push and one for the push, which waits for room (`held`, `parsed`, `pending` are what is to be pushed); `raw` is the stream of raw packets to the parser; `received` and `written` are histories. |
| `TcpFlowState` | `etc::TCPFlowState`, a call per action, with its theorems | the two members and a history of the calls |
| `Zip` | `kernels::Zip` | `run()` in its two blocks; the feeding kernels push in between |
| `Analyses` | function objects and lambdas of the analytics programs | operators: the map of the aggregator and the object in, the map and the objects out |
| `ClfrPipeline` | the analytics programs as chains of kernels | reader, one action for the pop and function of a kernel and one for its push, printer or benchmark printer, timer thread, `done()` |
| `BatchReader` | `MicroflowReader` and `ClfrReader` | a microflow is read, aggregated and, if it ends its flow, emitted in one action; a check of the table is a step per entry (`TimeoutFlow`), in any order, and waits where a full batch has to be sent; `Benchmark` is the end of `run()`, with its push into the port `"stats"`, which may wait. What the file holds is chosen as it is read. |
| `HostProfiler`, `MicroburstDetector`, `FeatureCalculator` | the kernels of these names (the four calculators are one module with their features as operators) | the members; packets are known by microflow and place, features by what they are computed of |
| `BatchCounters` | `ClfrCloner`, `ClfrCounterChain`, `ClfrCounter`, `ClfrCounterReplicated`, `ClfrTap` | one action per batch and port, since cloner and tap wait at one port after the other; the replicated counter pushes a throughput in an action of its own |
| `BenchmarkPrinter` | the kernel of this name in `deprecated` | a value taken by `pop` or by the `recycle` behind it, at the port whose turn it is |
| `MicroflowPrograms` | a batch reader in front of one of these kernels, or of the cloner with counters or tap behind, and the printers of their throughputs | a thread per kernel, bounded streams |

The theorems are in modules of their own, one per part of the system, but for
those of `TcpFlowState`: `FlowTableProofs`, `FlowTableSweepProofs`,
`CapturePipelineProofs` (with the PCAP reader and the exporter), `ClfrProofs` (CLFR
files and the programs that read them), `ZipProofs`, `MicroflowProofs` (batch
readers and kernels).  `SetLemmas` has what several of them need of finite sets,
sums, remainders and folds.

Each `MC...` module gives the constants of its module small values for the
`.cfg` files of the same name.  Operators commented as *fault* are plausible
mistakes in the definition that follows them; they are in no specification and
serve to see that the properties notice them.

External code is modelled from how the repository uses it: libpcap (`PeekFrame`,
`PeekEnd`, `PeekFails`), protobuf's coded streams (`ReadString`, `Peek`,
`Flushed`), RaftLib (streams are bounded, a push waits, a kernel is over when it
stopped or its input ended), the network and the file system.

Modelling decisions worth knowing:

* A frame that is neither TCP nor UDP reaches the table under the all-zero key,
  because `next()` ignores what `parse` returns; it stays in the table for ever.
* `RawPacketParser` never sets the packet's time stamp; the model lets the table
  see any.
* The walk over the tags of a TZSP datagram looks at the start of the datagram in
  each round, where it finds the version, 1, and takes it for the end tag: the
  packet begins behind the first byte of the tags.  It is the frame if there is no
  other tag; `TzspReceive` covers both, and takes shifted bytes not to name IP.
* A datagram of one to three bytes makes the unsigned length of the raw packet wrap
  (`tzsp_receiver.cc:92`): it cannot be allocated, or not be filled, and the process
  ends (`TzspShort`).
* With a batch size the PCAP kernel's port is of another type, vectors of packets,
  which no kernel but the printers takes, and `run()` never pushes one: no pipeline
  has it.
* A constructor that cannot open its file throws (`Open`, `OpenFails`), and the
  program is gone before it begins; `set_callback` may be given an empty function.
* In the reader of microflows the hash table is external: `erase` moves entries
  back, so that the loop may pass over the next entry; the model lets it or not.
* `CapturePipeline` and `ClfrPipeline` connect kernels as their ports allow and
  as the programs do; for the first, and for
  `MicroflowPrograms`, no `main` is in the repository.
* In `zip_test` one kernel feeds both ports alternately; in `Zip` the feeders are
  independent, which has every behaviour of that program and more.
* A benchmark's `++` is a load and a store, with the timer's store possible in
  between; an interval may end at any object.
* A feature is what it is computed of and how often it was normalised.
* An average of latencies is in integers, `(9 * a + v) \div 10`; the double arithmetic of
  the code, cut off at each step, gives the same for all pairs below 400.
* The counter of the cloner, the wording of output, the random queueing delay that
  `next()` makes up, and byte layouts are left out.

## Runs and bounds

| run | asks | bounds | why they are enough |
|---|---|---|---|
| `flow_table_api` | every public operation, any order of times: `Conservation`, `PacketCounts`, `FlowIdentity`, `FinEndsFlow`, `OnlyLoneAcksVanish` | 4 packets, 2 TCP keys (symmetric) and a UDP key, two times further apart than all thresholds, forwards and backwards | FIN, timeouts and last ACKs are due in one call, flows of several keys leave in it, and a key can come back; the thresholds themselves are the next run's |
| `flow_table_capture` | what the programs do: `CompleteMeansFin`, `SweepHorizon`, `IdleBound`, `LongFlowsAreCut`, `LatePacketsHarmless` | 4 packets, a TCP and a UDP key, six times that meet and miss each threshold by one, all flags that matter | idle flow, check one second short, check that finds it; wrap in both differences |
| `sweep_refines_table` | the loops implement the atomic call (`RefinesFlowTable`), calls return (`CallsReturn`) and leave no flow that was due (`CheckedMeansClean`); with exceptions from the callback in mid-sweep, `SweepAccounts` and `FailedExportsRepeated` | 4 packets, 3 keys | three flows in the map, neighbours erased in one loop; a failed export, a later retry, a later FIN |
| `exporter_runs` | reader, table and writer in one program | every capture of up to 3 frames, cut off or not, disk failures at any point | two flows evicted by one packet; first and last frame differ |
| `capture_pipeline` | the same as threads: `StreamAccounts` (which packets and records are where, and in what order), `EndOfStream`, `StreamEnds` | 2 frames, 2 copies of a datagram with or without tags, 3 packets, streams of one slot | one packet evicts two flows into a stream of one slot; every stream fills; a copy overtakes, a datagram is lost |
| `clfr_file_read_back` | read back what a writer left | 4 records, batches of different sizes, 8 reads | the cut falls at every token; padding; repeated contents |
| `zip_streams` | pairing under every interleaving | 3 items per port, 2 keys, queues of one slot | missing, repeated and reordered keys |
| `microflow_programs` | `MicroflowsAccounted`, `StopsNearEnd`, `HalfOfDueLeave`, `KernelsAccount`, `QueueComplete`, `TrainedThenJudged`, `MicroflowProgramsEnd` | seven programs of a reader, a kernel and their printers; every file of some 1 to 5 records out of 2 to 8, and two programs with 4 or 12 records of one kind; two microflows per run, batches and streams of one, an interval of 2 flows | flows that end, idle, come back and overlap; reads past the end and before it; two full streams at a join; two classes, one sample each; a printer for each throughput, and one for both, in either order, that starves at each of its ports |
| `analytics_programs` | `ResultsFollowFile`, `BenchmarkCounts`, `ProgramsEnd` | nine programs, every file of 3 records of 4, streams of one slot | two records of a key, wrapped sequence numbers, gaps at and above the limit, filtered records |
| `pcap_reader_visits_all`, `exporter_all_clfrs`, `zip_output` | statements of the repository that do not hold | | see [findings](#where-the-code-and-its-documentation-disagree) |

All passing runs explore the whole state space; none uses a state constraint.
`W` is 16 instead of 2^32: the differences wrap in the same places as long as
the intervals and timeouts are below it, which `TimeAssumption` states.  The
real check intervals are 5 and 1 s, the timeouts 10 and 30 s; the runs use 2, 1,
3 and 5, in the same order, and a packet limit that four packets can reach.

No run switches deadlock checking off: a program that may stop has an action
that says so (`Over`, `Returned`, `ReadOver`, `StreamsOver`, `Gone`, `Ended`).

## Fairness

Weak fairness only, and only of threads of the program:

* a call of `add_packet` that has begun goes on (`FairSweepSpec`): one thread, no
  locks;
* the loop of `main` goes on (`ReaderSpec`, `ExporterSpec`): one thread;
* a reading thread reads whatever there is (`FileSpec`), the writer may do
  nothing;
* the reader, the kernel behind it, the kernels behind the cloner and each printer go
  on (`ProgramsSpec`);
* some kernel that can run does (`CapturePipelineSpec`, `PipelineSpec`), and in
  `ZipSpec` each feeder and each block: RaftLib gives every kernel a thread.

Nothing is assumed of the network, of the timer or of the moment at which buffers
reach a file, and `CapturePipeline` may wait for a live source for ever.

## Proofs

Every safety property and every action property that a passing run checks is a
theorem for all values of the constants; what is left to TLC is
[liveness](#only-model-checked).  A theorem about a specification is an inductive
invariant and three facts: it holds at first, each action keeps it, it implies the
property.  The invariants are what the properties need to know and do not say.

**`FlowTableProofs`**, from the assumptions of `FlowTable` (finite set of keys;
flags; intervals and timeouts between 1 and `W - 1`; a positive packet limit):

| theorem | property | with |
|---|---|---|
| `TypeCorrect` | `TypeOK` | `TypeInv`: the last packet of a flow must exist to have a time stamp, so `FlowsOK` adds that each flow in the table is a non-empty set of accepted packets of its key |
| `PacketsConserved` | `Conservation` | `PacketInv`.  A call is a lookup followed by `Account`, which takes out the flows in `evicted` and those in `dropped`.  The flows are disjoint (by `FlowsOK`, their packets have different keys), so that what is held splits exactly, and what was exported or deleted before is disjoint from the table by the invariant |
| `PacketsCounted` | `PacketCounts` | `Conservation`: the cardinality of a union of disjoint sets gives the `+=` and `-=` of the code |
| `FlowsIdentified` | `FlowIdentity` | `IdInv`: a flow in the table has the greatest id of its key, so that a packet can only join the newest |
| `FinEndsFlows`, `OnlyAcksDeleted`, `CompleteIsFin` | `FinEndsFlow`, `OnlyLoneAcksVanish`, `CompleteMeansFin` | `FlowInv`, which joins `PacketInv` and `IdInv` with them |
| `IdleFlowsLeave`, `LongFlowsLeave` | `IdleBound`, `LongFlowsAreCut` | `CheckInv`: in time order the last check is less than an interval ago, and the flows it left were not due then |
| `NoFlowAhead`, `LateIsHarmless` | `SweepHorizon`, `LatePacketsHarmless` | assume `NoRollover` |

`NoRollover` says that no time stamp is within a timeout of the end of the
clock: for the `uint32_t` of the code, the year 2106.  Nearer than that, a packet that
is behind a flow makes a difference wrap to less than the timeout and the check
passes over the flow.  The times of `flow_table_capture` satisfy it, 6 + 5 being
at most 16.

**`FlowTableSweepProofs`**, with any order of the keys:

| theorem | property | with |
|---|---|---|
| `SweepAccounted`, `ThrownRepeated` | `SweepAccounts`, `FailedExportsRepeated` | `SweepInv`: `PacketInv` and `IdInv` are invariants of the single steps of the loops too, also where the callback throws between them; `ControlInv` says what `pc` and `todo` may be |
| `ChecksAreClean` | `CheckedMeansClean` | `CallInv`: what a call has changed so far and what its loop has yet to visit make up what the atomic call does |
| `SweepIsAtomic` | `RefinesFlowTable` | the same, with what the call had found when it began: the last step of a call is the atomic `AddPacket` on the table as it was then, every other step stutters |

**`CapturePipelineProofs`**, on top of the table's invariant:

| theorem | property | with |
|---|---|---|
| `ReaderInOrder`, `FramesAreInOrder` | `FramesInOrder` | `ReaderInv`: call `i` of `next()` returns frame `FrameOf(i)` |
| `AllCountersAgree`, `FileAccounts`, `RecordsHaveOneKey` | `CountersAgree`, `TerminatedAccounts`, `RecordsAreOfOneKey` | `ExporterInv`: the log of the table is what was read (`LogInv`), so that `FlowInv` speaks of the capture; the records written are those exported (`OutputInv`) |
| `StreamsAccounted`, `StreamsEndWhole` | `StreamAccounts`, `EndOfStream` | `PipelineInv`: item by item, what has left a stage is what has become of the first items that entered it, and the rest is in it (`PassedInv`, `Follows`); the records that a call exports, listed behind those before, keep the order of ids and are no others (`RecordsInv`, `ListedMore`, from `FlowInv`); stages end from the first to the last |

`ExporterAssumption` has the zero key as the only key that is neither TCP nor UDP:
a frame that is neither reaches the table under that key.

**`ClfrProofs`**:

| theorem | property | with |
|---|---|---|
| `WholeRecordsRead` | `ReadBack` | `FileInv`: the reader is at a record whose length it has read, at the zero, or has run into the end of the file, after which it returns the same contents for ever |
| `EndIsTheEnd` | `EndMeansAll` | `BatchInv`; assumes `RoomInGot` |
| `AllObjectsCounted` | `BenchmarkCounts` | `BenchInv`: kernels end one after the other (`OverInv`), and the interval at hand, with a `++` that is between load and store, completes the total (`CountInv`) |
| `ResultsAreOfTheFile` | `ResultsFollowFile` | `ResultsInv`: streams and maps are where the file, read so far, puts them (`Following`, `Delivering`), together with `BenchInv` |

`RoomInGot` is about the model, not the code: what has been read is a history of
bounded length, which must have room for the file and a batch (in
`clfr_file_read_back`, 4 + 3 of 8).

`ResultsFollowFile` says of each object that reaches the last kernel of a program what
it is of the file as a whole, by counting records, packets and places in them, without
the maps that the kernels keep.  It is about programs that read record by record; of
batches, `BenchmarkCounts` says how many there are.  The proof has two parts:

* *A kernel and a record.*  `MapOK(kernel, fl, n, map)` says what the map is after the
  first `n` records: the last sequence number of a key and how often it went down
  (`NmValue`), the sequence number expected next, a sum of lengths modulo `SeqW`
  (`OosValue`), the sizes of the flowlets cut at the gaps (`FlowletValue`), an average
  within the range of the latencies (`Within`), a number of packets, of records or of
  flowlets.  One more record keeps it and the pushed object is right (`Handled`).
  For a record's packets, flowlets and epochs these are folds: over packets and
  flowlets they are taken step by step (`FoldSteps`), over the set of epochs they
  are shown to add one to each, whatever the order (`EpochsAdded`).
* *The threads.*  The objects that leave a kernel are numbered in the order of
  their records (`Rank`; a filter leaves records out).  `Delivering` says that there are
  numbers `d[i]` such that stream `i`, with what `run()` has yet to push, holds the
  objects after the `d[i]`-th (`Carries`) and that the map of kernel `i` is the one
  after `d[i - 1]` inputs and `d[i] + Len` outputs (`Tuned`).  A step moves one of these
  numbers or a length; this is so in any order of the threads.  At the end all
  streams are empty (`OverInv`), so that all numbers are those of the whole file.

`RecordsAssumption`: a record has packets, of the types of the code.  A flow is created
with a packet, and the exporter writes no other.

**`ZipProofs`**: `NoPartnerMissed` (`NeverBothWaiting`) and `ItemsAreKept`
(`ItemsAccounted`), with `ZipInv`: the maps hold items that were popped, under their
keys, and so do the pairs, so that the next item is in neither.

**`MicroflowProofs`**, for every kernel behind either reader:

| theorem | property | with |
|---|---|---|
| `ReaderStopsNearEnd` | `StopsNearEnd` | `RunsInv`: a run takes `MfBatch + 1` microflows but for the flows it finds in the batch, and a batch beyond its size is sent |
| `DueFlowsLeave` | `HalfOfDueLeave` | inductive with the types: a step of the check takes out one flow and passes over one at most |
| `AllMicroflowsAccounted` | `MicroflowsAccounted` | `AccountInv`: each microflow is in the table or in a record, and the sizes of all flows add up to what was read, so that no two can share one |
| `KernelsKeepAccounts` | `KernelsAccount` | `ProfileInv`: the hosts with a profile are those of the flows taken, and the profile of a host is the packets of its flows, each once, as two records share no microflow (`RecordsApart`, from `AccountInv`); `CountInv` for the two ways behind the cloner |
| `BurstQueuesComplete` | `QueueComplete` | `DetectorInv`: with `b` the start of the last flow done, the cache has all flows that end at `b` or later (`CacheOK`), and the queue all packets from `b` on that come before their flow's index (`QueueOK`, `UpTo`); `Updates` says what `updateQueue` does to a flow, `UpdatedOK` to all of the cache, and `ByTsSorts` that putting records in order loses none |
| `TrainedBeforeJudged` | `TrainedThenJudged` | `CalculatorInv`: no class has more than `TrainCt` samples, so that when there are `TrainCt` times the number of classes, each has just enough (`ClassesFull`); a vector is written whole before it is used, and normalised as often as the samples are |

**`TcpFlowState`** needs no assumptions; its calls come in any order and number, so
that it is proved about only and has no run:

| theorem | says | with |
|---|---|---|
| `EndIsDecidedOnce` | the end is that of the first call that is not a FIN | `TcpInv`: state by state, what must have been called (`Acked`, `AckThenFin`), which the single property forgets |
| `ClosedOnlyAfterFin` | closed implies an ACK and a later FIN | the same |
| `NeverBack` | `[][OnlyForward]`: no call takes the state back | the type invariant |

`SetLemmas` proves what the library has no theorem for: facts about all finite sets by
way of a smallest counterexample, and that a sum over a set is the number of its
*units*, pairs of an element and a number up to its summand, so that the theorems
about cardinalities apply to sums.  `FoldSteps` and `FlattenIsJoin` turn the folds of
the community modules into a function of the number of steps, on which a smallest
counterexample works again.  `ModAdd` and the lemmas before it are about remainders:
quotients are unique, so that a remainder on the way does not change that of a sum.

### Only model-checked

* All liveness (`CallsReturn`, `ProgramEnds`, `ClosedFilesEnd`, `StreamsDrained`,
  `StreamEnds`, `ProgramsEnd`, `MicroflowProgramsEnd`): TLAPS has no rules for
  fairness.
* That the finding runs fail: a violation is one behaviour, which TLC shows.

## Where the code and its documentation disagree

* `pcap_reader_visits_all`: `next()` peeks before it parses the buffer that the
  peek overwrites, so the first frame of a capture of two or more is never
  delivered and the last is delivered twice.  The number of calls is right, which
  is what the test counts.
* `exporter_all_clfrs`: the exporter closes the file without the flows that are
  still in the table, but its help promises all CLFRs of the capture.
* `zip_output`: Zip puts the partner's map *entry* (a pair of key and item) where
  the README's table and the port's type have an item.

The runs also make precise, without a statement of the repository to contradict
them: a CLFR file without its terminator is read for ever (`ReadBack`); the last
batch is filled up with empty records (`EndMeansAll`); a closed file without a record is
refused (`ClosedFilesEnd`); a late packet can evict flows that are ahead of it
(`SweepHorizon`).  Of the experiments' kernels:

* a reader of microflows stops with part of the file unread or reads past its end,
  by bounds that `StopsNearEnd` states, and with its table and the batch at hand
  unsent, one batch at most (`MicroflowsAccounted` says what is in them);
* one printer for the throughputs of several kernels may stop a program for good:
  it waits for a value of one, takes two at a time, and lets another wait for room, with
  all kernels behind it (`MicroflowProgramsEnd`, which has `Jammed` as the only other end);
  with a printer for each throughput every program ends;
* a check of its table passes over at most as many idle flows as it takes out
  (`HalfOfDueLeave`);
* the detector's `startPktIdx` stays when a flow is erased and its erasing assumes
  flows that come by their start, so `QueueComplete` speaks of flows where that is
  so;
* comments of the profiler speak of the source address where the bytes it takes are
  the destination's; `computeStats` puts the mean where the vector has room for
  the deviation; the NetFlow calculator's byte count is always 0, because nothing
  fills `packetLens`.  Those are translated as they are.

## What is not modelled

* **Printers, replicator, `modules::Filter`, format helpers**: used by no program,
  and, the replicator aside, without state.
* **Conversions of types** (protobuf, text, hashes, byte order): the properties
  above do not look into records.
* **UI service, client and adapter**: one gRPC call without state.
* **Other deprecated kernels**: MurmurHash3 is a third party's; the rest (sink,
  counter, source timestamps, packet and join printers, aggregator) only
  print or drop, have no `run()`, or are empty.
* **Throughputs**: of the values pushed into the ports `"stats"` only the number is kept.
  Of **dlib** only what it is asked is kept, and how often its normaliser was applied.
* **The PCAP kernel with a batch size**, which pushes nothing, into a port that no
  kernel but the printers can be connected to.
* **Command lines, output, time per second of throughput, build files, scripts.**

## Plan

Done: the flow table, its loops and their refinement; files; the exporter; the
pipelines; zip; the analytics programs; the batch kernels of the experiments; the
TCP flow state; and the proofs above.

Next: *more of the system*, with the replicator as a stage of a pipeline.
