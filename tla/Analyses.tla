------------------------------ MODULE Analyses ------------------------------
(***************************************************************************)
(* What the analytics programs of src/app compute: each keeps a std::map   *)
(* in a function object, which a GroupBy kernel calls for every flow       *)
(* record.  Here such a map is a function from the keys present, and a     *)
(* call is an operator from the map and the arguments to the new map.      *)
(*                                                                         *)
(* A flow record is [key, pkts], its packets being a sequence of           *)
(* [ts, seq, len, once, lat]: time stamp (ts_in_us), TCP sequence number,  *)
(* payload length, whether it is a SYN or a FIN, and ts_out_us - ts_in_us. *)
(***************************************************************************)
EXTENDS Integers, SequencesExt

CONSTANTS
    Src,          \* source address of a key
    IpProto,      \* protocol of a key: "tcp", "udp" or "other"
    TsW,          \* number of values of a time stamp (2^64 in the code)
    SeqW,         \* number of values of a sequence number (2^32 in the code)
    Second,       \* a second, in units of the time stamps
    Alpha         \* _alpha of the FlowletDetector

ASSUME AnalysesAssumption ==
    /\ TsW \in Nat \ {0} /\ SeqW \in Nat \ {0}
    /\ Second \in Nat \ {0} /\ Alpha \in Nat

NoEntries == [k \in {} |-> 0]
At(map, k, fresh) == IF k \in DOMAIN map THEN map[k] ELSE fresh
Set(map, k, v) == [j \in DOMAIN map \cup {k} |-> IF j = k THEN v ELSE map[j]]

\* Counter::operator+=, ConnectionsPerEpoch and FlowletSizeHistogram.
Count(map, k, n) == Set(map, k, At(map, k, 0) + n)

\* The epochs of a record: the set that compute_epochs inserts into.
Epochs(r) == {p.ts \div Second : p \in ToSet(r.pkts)}

\* Fault: the highest sequence number is kept, not the last.
NonMonotonicHighest(map, k, p) ==
    LET f == At(map, k, [seq |-> p.seq, n |-> 0])
    IN  Set(map, k, [seq |-> IF f.seq > p.seq THEN f.seq ELSE p.seq,
                     n |-> IF f.seq > p.seq THEN f.n + 1 ELSE f.n])

\* TCPNonMonotonic::operator().
NonMonotonic(map, k, p) ==
    LET f == At(map, k, [seq |-> p.seq, n |-> 0])
    IN  Set(map, k, [seq |-> p.seq, n |-> IF f.seq > p.seq THEN f.n + 1 ELSE f.n])

\* OOS::operator(): the state holds the sequence number expected next.
OutOfSequence(map, k, p) ==
    LET f == At(map, k, [seq |-> p.seq, n |-> 0])
    IN  Set(map, k, [seq |-> (f.seq + (IF p.once THEN 1 ELSE p.len)) % SeqW,
                     n |-> IF f.seq # p.seq THEN f.n + 1 ELSE f.n])

\* FlowletDetector::operator(): the sizes of the flowlets of a key so far.
Flowlet(map, k, p) ==
    LET f == At(map, k, [ts |-> p.ts, sizes |-> <<0>>])
        last == Len(f.sizes)
    IN  Set(map, k, [ts |-> p.ts,
                     sizes |-> IF (p.ts - f.ts) % TsW > Alpha
                               THEN Append(f.sizes, 1)
                               ELSE [f.sizes EXCEPT ![last] = @ + 1]])

\* EWMA::operator(): alpha is 0.1, and the double is cut off at each step, which is
\* the same as this division for the latencies of the runs.
Ewma(map, k, v) ==
    Set(map, k, IF k \in DOMAIN map THEN (9 * map[k] + v) \div 10 ELSE v)

-----------------------------------------------------------------------------
(***************************************************************************)
(* The function of a kernel: the map as an object x leaves it, and the     *)
(* objects, at most one, that the kernel pushes for x.                     *)
(***************************************************************************)
Emits(s, y) == [map |-> s, out |-> <<y>>]
Drops(s) == [map |-> s, out |-> <<>>]

OverPackets(op(_, _, _), s, r) ==
    FoldLeft(LAMBDA t, p : op(t, r.key, p), s, r.pkts)

ComputeEpochs(s, r) == Emits(s, Epochs(r))

\* The vector is in the order of the epochs; here it is a function of them.
GroupEpochs(s, epochs) ==
    LET t == FoldSet(LAMBDA e, u : Count(u, e, 1), s, epochs)
    IN  Emits(t, [e \in epochs |-> t[e]])

FlGroup(s, r) ==
    LET t == OverPackets(Flowlet, s, r) IN Emits(t, t[r.key].sizes)

FlSizeHistogram(s, sizes) ==
    LET step(a, n) ==
            LET u == Count(a.map, n, 1)
            IN  [map |-> u, out |-> Append(a.out, <<n, u[n]>>)]
        all == FoldLeft(step, [map |-> s, out |-> <<>>], sizes)
    IN  Emits(all.map, all.out)

TcpFilter(s, r) == IF IpProto[r.key] = "tcp" THEN Emits(s, r) ELSE Drops(s)

FlowTcpNm(s, r) ==
    LET t == OverPackets(NonMonotonic, s, r) IN Emits(t, <<r.key, t[r.key].n>>)
FlowTcpOos(s, r) ==
    LET t == OverPackets(OutOfSequence, s, r) IN Emits(t, <<r.key, t[r.key].n>>)

FlowEwma(s, r) ==
    LET step(a, p) ==
            LET u == Ewma(a.map, r.key, p.lat)
            IN  [map |-> u, out |-> Append(a.out, u[r.key])]
        all == FoldLeft(step, [map |-> s, out |-> <<>>], r.pkts)
    IN  Emits(all.map, <<r.key, all.out>>)

SrcIpCounter(s, r) ==
    LET t == Count(s, Src[r.key], Len(r.pkts))
    IN  Emits(t, <<Src[r.key], t[Src[r.key]]>>)

Apply(kernel, s, x) ==
    CASE kernel = "compute_epochs"    -> ComputeEpochs(s, x)
      [] kernel = "group_epochs"      -> GroupEpochs(s, x)
      [] kernel = "fl_group"          -> FlGroup(s, x)
      [] kernel = "fl_size_histogram" -> FlSizeHistogram(s, x)
      [] kernel = "tcp_filter"        -> TcpFilter(s, x)
      [] kernel = "flow_tcp_nm"       -> FlowTcpNm(s, x)
      [] kernel = "flow_tcp_oos"      -> FlowTcpOos(s, x)
      [] kernel = "flow_ewma"         -> FlowEwma(s, x)
      [] kernel = "src_ip_counter"    -> SrcIpCounter(s, x)
=============================================================================
