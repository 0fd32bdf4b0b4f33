--------------------------- MODULE BatchCounters ---------------------------
(***************************************************************************)
(* The kernels that copy and count batches (src/kernels/deprecated):       *)
(*                                                                         *)
(*   ClfrCloner              copies a batch to each of its outputs in turn *)
(*   ClfrCounterChain        counts, and passes a copy on                  *)
(*   ClfrCounter             counts flows and packets                      *)
(*   ClfrCounterReplicated   counts in intervals and adds them up          *)
(*   ClfrTap                 counts what comes at its inputs, in turn      *)
(*                                                                         *)
(* They stand behind a reader in one of two ways:                          *)
(*                                                                         *)
(*   "count"   cloner -0-> chain -> counter       "tap"   cloner -0-> chain -> tap *)
(*                    -1-> replicated counter                    -1---------> tap *)
(***************************************************************************)
EXTENDS BatchReader

VARIABLES
    port,             \* the cloner's output streams, "0" and "1"
    chained,          \* the stream out of the counter chain
    cloned,           \* outputs that have the batch at hand
    chain_count,      \* counter of ClfrCounterChain
    flow_counter,     \* flowCounter of ClfrCounter
    pkt_counter,      \* pktCounter of ClfrCounter
    replica,          \* counter and total of ClfrCounterReplicated, and whether it has
                      \* a throughput to push
    tap,              \* counter of ClfrTap, and the input whose turn it is
    tapped            \* history: flows that the tap took from each input

count_vars == <<chain_count, flow_counter, pkt_counter, replica, tap, tapped>>
counter_vars == <<port, chained, cloned, count_vars>>

Ports == 0 .. 1

CountersInit ==
    /\ port = [p \in Ports |-> <<>>] /\ chained = <<>>
    /\ cloned = 0 /\ chain_count = 0 /\ flow_counter = 0 /\ pkt_counter = 0
    /\ replica = [counter |-> 0, total |-> 0, pushing |-> FALSE]
    /\ tap = [counter |-> 0, input |-> 0]
    /\ tapped = [p \in Ports |-> 0]

NPackets(b) == FoldLeft(LAMBDA n, f : n + Len(Packets(f.mfs)), 0, b)

\* The loop of the cloner's run(): allocate_s on an output waits for a slot.
Clone(p) ==
    /\ out # <<>> /\ cloned = p /\ Len(port[p]) < Capacity
    /\ port' = [port EXCEPT ![p] = Append(@, Head(out))]
    /\ cloned' = p + 1
    /\ UNCHANGED <<reader_vars, chained, count_vars>>

\* The end of the cloner's run().
CloneEnd ==
    /\ out # <<>> /\ cloned = 2
    /\ cloned' = 0
    /\ Recycle
    /\ UNCHANGED <<port, chained, count_vars>>

\* A count that starts anew when it has passed the benchmark's.
Restarted(ct) == IF ct > BenchmarkCt THEN 0 ELSE ct

\* ClfrCounterChain::run().
ChainStep ==
    /\ port[0] # <<>> /\ Len(chained) < Capacity
    /\ chain_count' = Restarted(chain_count + Len(Head(port[0])))
    /\ chained' = Append(chained, Head(port[0]))
    /\ port' = [port EXCEPT ![0] = Tail(@)]
    /\ UNCHANGED <<reader_vars, cloned, flow_counter, pkt_counter, replica, tap, tapped>>

\* ClfrCounter::run(), whose benchmark is commented out.
CounterStep ==
    /\ chained # <<>>
    /\ flow_counter' = flow_counter + Len(Head(chained))
    /\ pkt_counter' = pkt_counter + NPackets(Head(chained))
    /\ chained' = Tail(chained)
    /\ UNCHANGED <<reader_vars, port, cloned, chain_count, replica, tap, tapped>>

\* Fault: an interval is dropped instead of added.
IntervalDropped(ct) ==
    [counter |-> Restarted(ct), total |-> replica.total, pushing |-> ct > BenchmarkCt]

\* The counter and the total at the end of ClfrCounterReplicated::run().
Interval(ct) ==
    [counter |-> Restarted(ct),
     total |-> IF ct > BenchmarkCt THEN replica.total + ct ELSE replica.total,
     pushing |-> ct > BenchmarkCt]

\* ClfrCounterReplicated::run(), up to the push at its end.
ReplicatedStep ==
    /\ ~replica.pushing /\ port[1] # <<>>
    /\ replica' = Interval(replica.counter + Len(Head(port[1])))
    /\ port' = [port EXCEPT ![1] = Tail(@)]
    /\ UNCHANGED <<reader_vars, chained, cloned, chain_count, flow_counter, pkt_counter,
                   tap, tapped>>

\* The push into "stats", behind which run() begins anew.
ReplicatedPush ==
    /\ replica.pushing /\ PushStats("replica")
    /\ replica' = [replica EXCEPT !.pushing = FALSE]
    /\ UNCHANGED <<reader_vars, port, chained, cloned, chain_count, flow_counter,
                   pkt_counter, tap, tapped>>

\* The loop of the tap's run(): peek waits for the input whose turn it is.
TapFirst ==
    /\ tap.input = 0 /\ chained # <<>>
    /\ tap' = [counter |-> tap.counter + Len(Head(chained)), input |-> 1]
    /\ tapped' = [tapped EXCEPT ![0] = @ + Len(Head(chained))]
    /\ chained' = Tail(chained)
    /\ UNCHANGED <<reader_vars, port, cloned, chain_count, flow_counter, pkt_counter, replica>>
TapSecond ==
    /\ tap.input = 1 /\ port[1] # <<>>
    /\ tap' = [counter |-> Restarted(tap.counter + Len(Head(port[1]))), input |-> 0]
    /\ tapped' = [tapped EXCEPT ![1] = @ + Len(Head(port[1]))]
    /\ port' = [port EXCEPT ![1] = Tail(@)]
    /\ UNCHANGED <<reader_vars, chained, cloned, chain_count, flow_counter, pkt_counter, replica>>

CloneStep == (\E p \in Ports : Clone(p)) \/ CloneEnd
TapStep == TapFirst \/ TapSecond
-----------------------------------------------------------------------------
Flows(batches) == FoldLeft(LAMBDA n, b : n + Len(b), 0, batches)

\* What the cloner has pushed into an output.
Pushed(p) == Len(taken) + (IF cloned > p THEN Len(Head(out)) ELSE 0)
=============================================================================
