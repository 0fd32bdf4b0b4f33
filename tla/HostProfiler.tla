---------------------------- MODULE HostProfiler ----------------------------
(***************************************************************************)
(* HostProfiler (src/kernels/deprecated/host_timing_profiler.h): collects  *)
(* the time stamps of the packets per host, and once they reach beyond the *)
(* duration of the profile writes them to a file and ends the application. *)
(*                                                                         *)
(* The host is bytes 4 to 7 of the key, which setKey (starFlow.h) fills    *)
(* with the destination address.  A time stamp is known by the packet it   *)
(* is of: the number of its microflow and its place there.  The benchmark  *)
(* count, which run() takes from the slot it has recycled, only decides    *)
(* when a throughput is printed and is left out.                           *)
(***************************************************************************)
EXTENDS BatchReader

CONSTANTS
    Dst,               \* destination address of a key
    ProfileDuration    \* profileDuration, in the unit of time stamps

VARIABLES
    host_times,    \* hostTimes, host -> time stamps
    end_ts,        \* endTs; startTs is 0 and stays so
    exited         \* exit(0) was called

profiler_vars == <<host_times, end_ts, exited>>

ProfilerInit ==
    /\ host_times = [h \in {} |-> <<>>]
    /\ end_ts = 0 /\ exited = FALSE

PacketIds(mfs) ==
    FlattenSeq([n \in DOMAIN mfs |->
        [j \in DOMAIN read[mfs[n]].pkts |-> <<mfs[n], j>>]])
TsOf(id) == read[id[1]].pkts[id[2]].ts

\* Fault: a host's time stamps begin anew with each flow.
ProfiledAnew(times, flow) ==
    [h \in DOMAIN times \cup {Dst[flow.key]} |->
        IF h = Dst[flow.key] THEN PacketIds(flow.mfs) ELSE times[h]]

\* Fault: a host that has no entry gets none.
ProfiledKnown(times, flow) ==
    [h \in DOMAIN times |->
        times[h] \o (IF h = Dst[flow.key] THEN PacketIds(flow.mfs) ELSE <<>>)]

\* The round of the loop of run() for one flow.
Profiled(times, flow) ==
    [h \in DOMAIN times \cup {Dst[flow.key]} |->
        (IF h \in DOMAIN times THEN times[h] ELSE <<>>)
            \o (IF h = Dst[flow.key] THEN PacketIds(flow.mfs) ELSE <<>>)]

\* run(): the whole batch, then the test of the duration.  Of end_ts only the
\* maximum of all time stamps counts.
Profile ==
    /\ ~exited /\ out # <<>>
    /\ host_times' = FoldLeft(Profiled, host_times, Head(out))
    /\ end_ts' = Max({end_ts} \cup
                     {TsOf(id) : id \in UNION {ToSet(host_times'[h]) : h \in DOMAIN host_times'}})
    /\ exited' = (end_ts' > ProfileDuration)
    /\ Recycle
-----------------------------------------------------------------------------
\* The hosts of the profile are those of the flows that the profiler took; every
\* packet of such a flow is in its host's profile, once, and nothing else is.
ProfileComplete ==
    /\ DOMAIN host_times = {Dst[f.key] : f \in ToSet(taken)}
    /\ \A h \in DOMAIN host_times :
          LET ids == UNION {ToSet(PacketIds(f.mfs)) :
                                f \in {g \in ToSet(taken) : Dst[g.key] = h}}
          IN  ToSet(host_times[h]) = ids /\ Len(host_times[h]) = Cardinality(ids)
=============================================================================
