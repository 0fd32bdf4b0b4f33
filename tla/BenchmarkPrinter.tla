-------------------------- MODULE BenchmarkPrinter --------------------------
(***************************************************************************)
(* BenchmarkPrinter (src/kernels/deprecated/benchmark_printer.h): prints   *)
(* the throughputs that come out of the ports "stats", a line for one      *)
(* round over its ports, which it reads one after the other.               *)
(*                                                                         *)
(* A printer is the sequence of the streams at its ports.  pop takes a     *)
(* value, and the recycle that follows drops one more; both wait for it.   *)
(***************************************************************************)
EXTENDS BatchReader

CONSTANT Printers     \* the printers that any of the programs may have

ASSUME PrintersAssumption ==
    \A q \in Printers : q \in Seq({"reader", "replica"}) /\ q # <<>>

VARIABLE turn     \* printer -> the calls of pop and recycle of its round that are over

PrintersInit == turn = [q \in Printers |-> 0]

\* The stream that a printer is at.
AtPort(q) == q[turn[q] \div 2 + 1]

\* pop or recycle, whichever is next in run().
TakeValue(q) ==
    /\ stats[AtPort(q)] > 0
    /\ stats' = [stats EXCEPT ![AtPort(q)] = @ - 1]
    /\ turn' = [turn EXCEPT ![q] = (@ + 1) % (2 * Len(q))]
    /\ UNCHANGED reader_vars
-----------------------------------------------------------------------------
\* A printer waits for a value.
Starving(q) == stats[AtPort(q)] = 0
=============================================================================
