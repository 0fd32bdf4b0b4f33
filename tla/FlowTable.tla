----------------------------- MODULE FlowTable -----------------------------
(***************************************************************************)
(* modules::FlowTable (src/modules/flow_table.{h,cc}): groups packets into *)
(* flow records (CLFRs) by 5-tuple, exports a record through a callback    *)
(* when its flow ends, and destroys records it takes for the closing ACK   *)
(* of a TCP connection.                                                    *)
(*                                                                         *)
(* One action is one whole call of a public member function.  The table is *)
(* used by one thread, so calls never overlap.  (FlowTableSweep takes the  *)
(* calls apart, iterator step by iterator step.)                           *)
(*                                                                         *)
(* Data is abstracted as follows.  A packet accepted by add_packet is      *)
(* known by its arrival number, an index of the history variable log; the  *)
(* list _packets of a CLFR is only ever appended to, so it is the SET of   *)
(* the arrival numbers of its packets, last_packet() being the largest.    *)
(* Of a packet only the second of its time stamp and the SYN, ACK and FIN  *)
(* flags matter to the table.  Seconds are uint32_t and are subtracted     *)
(* modulo W (2^32 in the code).                                            *)
(***************************************************************************)
EXTENDS Integers, Sequences, FiniteSets, FiniteSetsExt

CONSTANTS
    Keys,                     \* the 5-tuples that occur
    IpProto,                  \* protocol of a key: "tcp", "udp" or "other"
    W,                        \* number of values of the seconds counter
    Times,                    \* seconds that occur as packet time stamps
    FlagSets,                 \* TCP flag combinations that occur
    ToCheckInterval,          \* _to_check_interval_s
    AckCheckInterval,         \* _ack_check_interval_s
    UdpTo,                    \* _udp_to_s
    TcpTo,                    \* _tcp_to_s
    IncompleteEvictPktCount,  \* _incomplete_evict_pkt_count
    MaxPackets                \* bound: packets accepted in a behaviour

ASSUME KeyAssumption ==
    /\ IsFiniteSet(Keys)
    /\ IpProto \in [Keys -> {"tcp", "udp", "other"}]

ASSUME FlagAssumption == FlagSets \subseteq SUBSET {"syn", "ack", "fin"}

ASSUME TimeAssumption ==
    /\ W \in Nat \ {0}
    /\ Times \subseteq 0 .. W - 1
    /\ \A i \in {ToCheckInterval, AckCheckInterval, UdpTo, TcpTo} : i \in 1 .. W - 1

ASSUME CountAssumption ==
    /\ IncompleteEvictPktCount \in Nat \ {0}
    /\ MaxPackets \in Nat

VARIABLES
    log,                  \* history: the packets accepted so far
    active_flows,         \* _active_flows, the std::map
    exported,             \* history: the CLFRs handed to the callback
    deleted,              \* history: the CLFRs destroyed without export
    n_packets,            \* _n_packets
    n_packets_processed,  \* _n_packets_processed
    n_flows_processed,    \* _n_flows_processed
    n_flows,              \* _n_flows
    next_id,              \* _next_id
    last_to_check,        \* _last_to_check_s
    last_ack_check,       \* _last_ack_check_s
    callback              \* whether _callback holds a function

counters == <<n_packets, n_packets_processed, n_flows_processed, n_flows>>
vars == <<log, active_flows, exported, deleted, counters, next_id,
          last_to_check, last_ack_check, callback>>

Packets == {p \in [key : Keys, ts : Times, flags : FlagSets] :
               IpProto[p.key] = "tcp" \/ p.flags = {}}

Flow == [id : Nat, pkts : SUBSET (1 .. MaxPackets)]
CLFR == [key : Keys, id : Nat, pkts : SUBSET (1 .. MaxPackets),
         complete : BOOLEAN, evict_ts : 0 .. W - 1]
Deleted == [key : Keys, id : Nat, pkts : SUBSET (1 .. MaxPackets)]

(***************************************************************************)
(* A state of the map: a function from the keys present to their flows.    *)
(***************************************************************************)
LastPacket(l, f) == l[Max(f.pkts)]
Without(table, K) == [k \in DOMAIN table \ K |-> table[k]]
Held(table, K) == UNION {table[k].pkts : k \in K}

\* uint32_t subtraction of two values below W.
Sub(a, b) == IF a >= b THEN a - b ELSE a - b + W

-----------------------------------------------------------------------------
(***************************************************************************)
(* The pieces of add_packet.  Each takes the table as the previous piece   *)
(* left it.                                                                *)
(***************************************************************************)

\* Fault: the id is the size of the map, as if ids need only be unique in it.
LookupAndInsertReusesIds(k, n) ==
    [j \in DOMAIN active_flows \cup {k} |->
        IF j # k THEN active_flows[j]
        ELSE IF j \in DOMAIN active_flows
             THEN [id |-> active_flows[j].id, pkts |-> active_flows[j].pkts \cup {n}]
             ELSE [id |-> Cardinality(DOMAIN active_flows) + 1, pkts |-> {n}]]

\* _lookup_and_insert: packet n, of key k, joins its flow or opens one.
LookupAndInsert(k, n) ==
    [j \in DOMAIN active_flows \cup {k} |->
        IF j # k THEN active_flows[j]
        ELSE IF j \in DOMAIN active_flows
             THEN [id |-> active_flows[j].id, pkts |-> active_flows[j].pkts \cup {n}]
             ELSE [id |-> next_id, pkts |-> {n}]]

\* Fault: a flow is closed by a bare FIN only.
CheckEvictBareFin(p) ==
    {k \in {p.key} : IpProto[k] = "tcp" /\ p.flags = {"fin"}}

\* _check_evict: the key whose flow a FIN has just closed.
CheckEvict(p) ==
    {k \in {p.key} : IpProto[k] = "tcp" /\ "fin" \in p.flags}

\* Faults of the condition of _check_timeouts: > for >=, one timeout for both
\* protocols.
TimedOutStrict(l, k, f, trigger) ==
    LET since == Sub(trigger, LastPacket(l, f).ts)
    IN  \/ IpProto[k] = "udp" /\ since > UdpTo
        \/ IpProto[k] = "tcp" /\ (since > TcpTo \/ Cardinality(f.pkts) > IncompleteEvictPktCount)
TimedOutOneTimeout(l, k, f, trigger) ==
    LET since == Sub(trigger, LastPacket(l, f).ts)
    IN  \/ IpProto[k] = "udp" /\ since >= UdpTo
        \/ IpProto[k] = "tcp" /\ (since >= UdpTo \/ Cardinality(f.pkts) >= IncompleteEvictPktCount)

\* The condition of _check_timeouts on one flow.
TimedOut(l, k, f, trigger) ==
    LET since == Sub(trigger, LastPacket(l, f).ts)
    IN  \/ IpProto[k] = "udp" /\ since >= UdpTo
        \/ IpProto[k] = "tcp" /\ (since >= TcpTo \/ Cardinality(f.pkts) >= IncompleteEvictPktCount)

\* Fault: > for >= in the test for the timeout check.
ToCheckDueStrict(ts) == Sub(ts, last_to_check) > ToCheckInterval

\* _check_timeouts, when the check is due: the keys whose flows it evicts.
ToCheckDue(ts) == Sub(ts, last_to_check) >= ToCheckInterval
CheckTimeouts(l, table, ts) ==
    {k \in DOMAIN table : ToCheckDue(ts) /\ TimedOut(l, k, table[k], ts)}

\* Fault: any TCP flow that ends in an ACK is taken for a last ACK.
IsLastAckAnyLength(l, k, f) ==
    /\ IpProto[k] = "tcp"
    /\ "ack" \in LastPacket(l, f).flags
    /\ "syn" \notin LastPacket(l, f).flags

\* The lambda is_last_ack of _check_last_ack.
IsLastAck(l, k, f) ==
    /\ IpProto[k] = "tcp"
    /\ Cardinality(f.pkts) = 1
    /\ "ack" \in LastPacket(l, f).flags
    /\ "syn" \notin LastPacket(l, f).flags

\* _check_last_ack: the keys whose flows it deletes.
CheckLastAck(l, table) == {k \in DOMAIN table : IsLastAck(l, k, table[k])}

AckCheckDue(ts) == Sub(ts, last_ack_check) >= AckCheckInterval

\* Fault: _complete is set whatever the caller says.
RecordAlwaysComplete(table, k, complete, ts) ==
    [key |-> k, id |-> table[k].id, pkts |-> table[k].pkts,
     complete |-> TRUE, evict_ts |-> ts]

\* What _evict_flow hands to the callback for the flow of key k.
Record(table, k, complete, ts) ==
    [key |-> k, id |-> table[k].id, pkts |-> table[k].pkts,
     complete |-> complete, evict_ts |-> ts]

\* What _delete_flow destroys.
Remains(table, k) == [key |-> k, id |-> table[k].id, pkts |-> table[k].pkts]

\* The flows that stay, of those in table, and the counters, as _evict_flow
\* of evicted and _delete_flow of dropped leave them.  Faults: a flow stays in
\* the map after its export; its packets are not given back on deletion; they
\* are subtracted where they are to be added; deleted flows are counted.
StayingNoErase(table, evicted, dropped) == Without(table, dropped)
Staying(table, evicted, dropped) == Without(table, evicted \cup dropped)

NPacketsKeepDropped(table, evicted, dropped) ==
    n_packets - Cardinality(Held(table, evicted))
NPacketsLess(table, evicted, dropped) ==
    n_packets - Cardinality(Held(table, evicted)) - Cardinality(Held(table, dropped))

NPacketsProcessedMinus(table, evicted) ==
    n_packets_processed - Cardinality(Held(table, evicted))
NPacketsProcessedPlus(table, evicted) ==
    n_packets_processed + Cardinality(Held(table, evicted))

NFlowsProcessedAll(evicted, dropped) ==
    n_flows_processed + Cardinality(evicted \cup dropped)
NFlowsProcessedPlus(evicted, dropped) == n_flows_processed + Cardinality(evicted)

\* The effect of all the _evict_flow and _delete_flow of a call in which
\* `arrived' packets have entered table.
Account(table, arrived, evicted, dropped) ==
    /\ active_flows' = Staying(table, evicted, dropped)
    /\ deleted' = deleted \cup {Remains(table, k) : k \in dropped}
    /\ n_packets' = NPacketsLess(table, evicted, dropped) + arrived
    /\ n_packets_processed' = NPacketsProcessedPlus(table, evicted)
    /\ n_flows_processed' = NFlowsProcessedPlus(evicted, dropped)

-----------------------------------------------------------------------------
Init ==
    /\ log = <<>>
    /\ active_flows = [k \in {} |-> [id |-> 0, pkts |-> {}]]
    /\ exported = {}
    /\ deleted = {}
    /\ n_packets = 0 /\ n_packets_processed = 0
    /\ n_flows_processed = 0 /\ n_flows = 0
    /\ next_id = 1
    /\ last_to_check = 0 /\ last_ack_check = 0
    /\ callback = FALSE

\* set_callback, given a function or an empty std::function.
SetCallback(set) ==
    /\ callback' = set
    /\ UNCHANGED <<log, active_flows, exported, deleted, counters, next_id,
                   last_to_check, last_ack_check>>

\* add_packet when a callback is set.
AddPacket(p) ==
    LET n        == Len(log) + 1
        l        == Append(log, p)
        table    == LookupAndInsert(p.key, n)
        closed   == CheckEvict(p)
        timed_out == CheckTimeouts(l, Without(table, closed), p.ts)
        acks     == IF AckCheckDue(p.ts)
                    THEN CheckLastAck(l, Without(table, closed \cup timed_out))
                    ELSE {}
        opened   == IF p.key \in DOMAIN active_flows THEN 0 ELSE 1
    IN  /\ callback
        /\ n <= MaxPackets
        /\ log' = l
        /\ next_id' = next_id + opened
        /\ n_flows' = n_flows + opened
        /\ Account(table, 1, closed \cup timed_out, acks)
        /\ exported' = exported
              \cup {Record(table, k, TRUE, p.ts) : k \in closed}
              \cup {Record(table, k, IpProto[k] = "udp", p.ts) : k \in timed_out}
        /\ last_to_check' = IF ToCheckDue(p.ts) THEN p.ts ELSE last_to_check
        /\ last_ack_check' = IF AckCheckDue(p.ts) THEN p.ts ELSE last_ack_check
        /\ UNCHANGED callback

\* Without a callback add_packet throws before it changes anything, and so does
\* the first export of a hook, but for fields that the next one sets again.
AddPacketThrows ==
    /\ ~callback
    /\ UNCHANGED vars

\* _force_export_udp and _force_export_tcp, when a callback is set.
ForceExport(proto, complete) ==
    LET evicted == {k \in DOMAIN active_flows : IpProto[k] = proto}
    IN  /\ callback
        /\ Account(active_flows, 0, evicted, {})
        /\ exported' = exported \cup
              {Record(active_flows, k, complete, LastPacket(log, active_flows[k]).ts)
                 : k \in evicted}
        /\ UNCHANGED <<log, n_flows, next_id, last_to_check, last_ack_check, callback>>

\* _force_check_last_ack.
ForceCheckLastAck ==
    /\ Account(active_flows, 0, {}, CheckLastAck(log, active_flows))
    /\ last_ack_check' = 0
    /\ UNCHANGED <<log, exported, n_flows, next_id, last_to_check, callback>>

\* What the programs of the repository do with a table: the operations other
\* than the three that the header keeps "for unit tests".
CaptureNext ==
    \/ \E set \in BOOLEAN : SetCallback(set)
    \/ \E p \in Packets : AddPacket(p)
    \/ AddPacketThrows

Next ==
    \/ CaptureNext
    \/ \E proto \in {"udp", "tcp"}, complete \in BOOLEAN : ForceExport(proto, complete)
    \/ ForceCheckLastAck

Spec == Init /\ [][Next]_vars

\* The same without the test hooks.
CaptureSpec == Init /\ [][CaptureNext]_vars
-----------------------------------------------------------------------------
(***************************************************************************)
(* Properties                                                              *)
(***************************************************************************)

\* The values the members of FlowTable range over.
TypeOK ==
    /\ log \in Seq(Packets) /\ Len(log) <= MaxPackets
    /\ DOMAIN active_flows \subseteq Keys
    /\ active_flows \in [DOMAIN active_flows -> Flow]
    /\ exported \subseteq CLFR
    /\ deleted \subseteq Deleted
    /\ n_packets \in Int /\ n_packets_processed \in Nat
    /\ n_flows_processed \in Nat /\ n_flows \in Nat
    /\ next_id \in Nat \ {0}
    /\ last_to_check \in 0 .. W - 1 /\ last_ack_check \in 0 .. W - 1
    /\ callback \in BOOLEAN

InTable == Held(active_flows, DOMAIN active_flows)
InExports == UNION {c.pkts : c \in exported}
InDeleted == UNION {d.pkts : d \in deleted}

\* Every packet accepted by add_packet is in one place only: in the table, in
\* what was exported, or in what _delete_flow destroyed.  None is lost
\* between the lookup, the sweeps and the erasures of one call, and none is
\* exported by one sweep and deleted by the next.
Conservation ==
    /\ InTable \cup InExports \cup InDeleted = 1 .. Len(log)
    /\ InTable \cap InExports = {}
    /\ InTable \cap InDeleted = {}
    /\ InExports \cap InDeleted = {}

\* count_packets() and count_packets_processed() are the packets in the table
\* and those exported: the per-flow += and -= of _evict_flow and _delete_flow
\* keep up with the map, so the unsigned _n_packets never wraps.
PacketCounts ==
    /\ n_packets = Cardinality(InTable)
    /\ n_packets_processed = Cardinality(InExports)

\* All flows there ever were, as the packets of one key under one id.
AllFlows ==
    {Remains(active_flows, k) : k \in DOMAIN active_flows} \cup deleted
      \cup {[key |-> c.key, id |-> c.id, pkts |-> c.pkts] : c \in exported}

\* Ids number the flows by their first packets, from 1 on and with none left out,
\* no two flows have an id or a packet in common, and the flows of one key follow
\* one another: the map never reopens a flow that left it, nor splits one that
\* is still there.  count_flows_processed() is the number of those exported.
FlowIdentity ==
    /\ {f.id : f \in AllFlows} = 1 .. next_id - 1 /\ n_flows = next_id - 1
    /\ n_flows_processed = Cardinality(exported)
    /\ \A f, g \in AllFlows :
          /\ f.pkts # {} /\ \A n \in f.pkts : log[n].key = f.key
          /\ f.id = g.id => f = g
          /\ f.id < g.id => /\ Min(f.pkts) < Min(g.pkts)
                            /\ f.key = g.key => Max(f.pkts) < Min(g.pkts)

\* A FIN ends its flow in the call that delivers it: no TCP flow in the table
\* or deleted holds one, and an exported flow holds one only as last packet.
FinEndsFlow ==
    /\ \A n \in InTable \cup InDeleted :
          IpProto[log[n].key] = "tcp" => "fin" \notin log[n].flags
    /\ \A c \in exported : \A n \in c.pkts :
          (IpProto[c.key] = "tcp" /\ "fin" \in log[n].flags) => n = Max(c.pkts)

\* For a consumer of exported records (the test hooks aside) `complete' tells
\* a TCP flow that saw its FIN from one cut off by a timeout or by its length,
\* whatever the order in which the checks of add_packet found it.
CompleteMeansFin ==
    \A c \in exported :
        c.complete <=> \/ IpProto[c.key] = "udp"
                       \/ "fin" \in log[Max(c.pkts)].flags

\* What _check_last_ack destroys is a flow that consists of one TCP segment
\* with ACK and neither SYN nor FIN; everything else in the table is there to
\* stay or to be exported.
OnlyLoneAcksVanish ==
    \A d \in deleted : \E n \in 1 .. Len(log) :
        /\ d.pkts = {n} /\ IpProto[d.key] = "tcp"
        /\ "ack" \in log[n].flags /\ {"syn", "fin"} \cap log[n].flags = {}

Now == log[Len(log)].ts
Timeout(k) == IF IpProto[k] = "udp" THEN UdpTo ELSE TcpTo
TimedKeys == {k \in DOMAIN active_flows : IpProto[k] # "other"}
InOrder == \A m, n \in 1 .. Len(log) : m <= n => log[m].ts <= log[n].ts

\* As long as packets come in time order, a TCP or UDP flow that was idle for
\* its timeout is out of the table before one more check interval is over,
\* although only arriving packets, of any flow, drive the checks: in the worst
\* case a check finds it one second short, and the next is an interval away.
IdleBound ==
    InOrder => \A k \in TimedKeys :
        Now - LastPacket(log, active_flows[k]).ts <= Timeout(k) + ToCheckInterval - 2

\* As long as packets come in time order, no TCP flow in the table has reached
\* the packet limit before the last check: a flow outgrows it by the packets of
\* one interval at most.
LongFlowsAreCut ==
    InOrder => \A k \in TimedKeys : IpProto[k] = "tcp" =>
        Cardinality({n \in active_flows[k].pkts : log[n].ts < last_to_check})
            < IncompleteEvictPktCount

\* In whatever order packets arrive, no TCP or UDP flow has a last packet a
\* check interval or more ahead of the last check: a packet that sets the
\* clock back makes the unsigned differences wrap, and the check it triggers
\* evicts all flows that are ahead of it.
SweepHorizon ==
    \A k \in TimedKeys :
        LastPacket(log, active_flows[k]).ts < last_to_check + ToCheckInterval

\* A packet that is late, but not older than the last check, evicts no flow
\* before its time: only a packet from before the last check can, by the wrap
\* of the unsigned differences.
LatePacketsHarmless ==
    [][\A c \in exported' \ exported :
          LET last == log'[Max(c.pkts)]
          IN  (c.evict_ts >= last_to_check /\ ~("fin" \in last.flags)
                 /\ (IpProto[c.key] = "tcp" =>
                        Cardinality(c.pkts) < IncompleteEvictPktCount))
              => c.evict_ts - last.ts >= Timeout(c.key)]_vars
=============================================================================
