--------------------------- MODULE FlowTableSweep ---------------------------
(***************************************************************************)
(* add_packet of modules::FlowTable taken apart: one step per flow that    *)
(* the loops of _check_timeouts and _check_last_ack visit, in the order of *)
(* std::map, erasing from the map they iterate over, and one call of the   *)
(* export callback per evicted flow.  The callback is the user's: it may   *)
(* throw std::logic_error, the one exception add_packet lets through, and  *)
(* the call then ends where it stands.                                     *)
(*                                                                         *)
(* The steps of a call in which no callback throws add up to the atomic    *)
(* AddPacket of FlowTable (RefinesFlowTable), also after earlier calls     *)
(* that were cut short.                                                    *)
(***************************************************************************)
EXTENDS FlowTable

CONSTANT Rank   \* the order of the keys in std::map

ASSUME RankAssumption ==
    /\ Rank \in [Keys -> Nat]
    /\ \A j, k \in Keys : Rank[j] = Rank[k] => j = k

VARIABLES
    pc,       \* what add_packet does next; "idle" between calls
    todo,     \* the keys the running loop has yet to visit
    failed,   \* history: records given to a callback that threw
    before    \* history: the table when the running call began

table_vars == <<active_flows, exported, deleted, n_packets, n_packets_processed,
                n_flows_processed>>
sweep_vars == <<vars, pc, todo, failed, before>>

State == [log |-> log, active_flows |-> active_flows, exported |-> exported,
          deleted |-> deleted, n_packets |-> n_packets,
          n_packets_processed |-> n_packets_processed,
          n_flows_processed |-> n_flows_processed, n_flows |-> n_flows,
          next_id |-> next_id, last_to_check |-> last_to_check,
          last_ack_check |-> last_ack_check]

SweepInit == Init /\ pc = "idle" /\ todo = {} /\ failed = {} /\ before = State

Pkt == log[Len(log)]
First(K) == CHOOSE k \in K : \A j \in K : Rank[k] <= Rank[j]

\* The iterator that erase returns, and the one std::next does.  Faults: the
\* loop steps over the flow that follows an erased one; it never advances over
\* a flow that stays.
AfterEraseSkips(k) == IF todo = {k} THEN {} ELSE todo \ {k, First(todo \ {k})}
AfterErase(k) == todo \ {k}

AfterVisitStays(k) == todo
AfterVisit(k) == todo \ {k}

-----------------------------------------------------------------------------
\* What an exception of the callback leaves of _evict_flow: nothing after the
\* callback runs.  Faults: the flow is erased, or counted, before the callback.
ThrownErased(k) ==
    /\ active_flows' = Without(active_flows, {k})
    /\ n_packets' = n_packets - Cardinality(active_flows[k].pkts)
    /\ UNCHANGED <<exported, n_packets_processed, n_flows_processed>>
ThrownCounted(k) ==
    /\ n_packets_processed' = n_packets_processed + Cardinality(active_flows[k].pkts)
    /\ n_packets' = n_packets - Cardinality(active_flows[k].pkts)
    /\ UNCHANGED <<active_flows, exported, n_flows_processed>>
Thrown(k) ==
    UNCHANGED <<active_flows, exported, n_packets, n_packets_processed, n_flows_processed>>

\* _evict_flow: the callback first, then the counters and the erasure, which
\* an exception of the callback skips together with the rest of the call.
EvictFlow(k, complete, next, rest) ==
    /\ UNCHANGED deleted
    /\ \/ /\ exported' = exported \cup {Record(active_flows, k, complete, Pkt.ts)}
          /\ n_packets' = n_packets - Cardinality(active_flows[k].pkts)
          /\ n_flows_processed' = n_flows_processed + 1
          /\ n_packets_processed' = n_packets_processed + Cardinality(active_flows[k].pkts)
          /\ active_flows' = Without(active_flows, {k})
          /\ pc' = next /\ todo' = rest
          /\ UNCHANGED failed
       \/ /\ failed' = failed \cup {Record(active_flows, k, complete, Pkt.ts)}
          /\ pc' = "idle" /\ todo' = {}
          /\ Thrown(k)

DeleteFlow(k) ==
    /\ deleted' = deleted \cup {Remains(active_flows, k)}
    /\ n_packets' = n_packets - Cardinality(active_flows[k].pkts)
    /\ active_flows' = Without(active_flows, {k})
    /\ UNCHANGED <<exported, n_packets_processed, n_flows_processed>>

\* add_packet up to and including _lookup_and_insert.
Call(p) ==
    /\ pc = "idle" /\ callback
    /\ Len(log) < MaxPackets
    /\ before' = State
    /\ log' = Append(log, p)
    /\ active_flows' = LookupAndInsert(p.key, Len(log) + 1)
    /\ n_packets' = n_packets + 1
    /\ \/ p.key \in DOMAIN active_flows /\ UNCHANGED <<next_id, n_flows>>
       \/ /\ p.key \notin DOMAIN active_flows
          /\ next_id' = next_id + 1 /\ n_flows' = n_flows + 1
    /\ pc' = "check_evict"
    /\ UNCHANGED <<exported, deleted, n_packets_processed, n_flows_processed,
                   last_to_check, last_ack_check, callback, todo, failed>>

CheckEvictStep ==
    /\ pc = "check_evict"
    /\ \/ CheckEvict(Pkt) # {} /\ EvictFlow(Pkt.key, TRUE, "to_check", {})
       \/ /\ CheckEvict(Pkt) = {}
          /\ pc' = "to_check"
          /\ UNCHANGED <<table_vars, todo, failed>>
    /\ UNCHANGED <<log, n_flows, next_id, last_to_check, last_ack_check, callback, before>>

\* The test for the timeout check, and the loop's begin.
ToCheck ==
    /\ pc = "to_check"
    /\ \/ ToCheckDue(Pkt.ts) /\ pc' = "timeouts" /\ todo' = DOMAIN active_flows
       \/ ~ToCheckDue(Pkt.ts) /\ pc' = "ack_check" /\ UNCHANGED todo
    /\ UNCHANGED <<vars, failed, before>>

\* One round of the loop of _check_timeouts.
CheckTimeoutsStep ==
    /\ pc = "timeouts" /\ todo # {}
    /\ LET k == First(todo)
       IN  \/ /\ TimedOut(log, k, active_flows[k], Pkt.ts)
              /\ EvictFlow(k, IpProto[k] = "udp", pc, AfterErase(k))
           \/ /\ ~TimedOut(log, k, active_flows[k], Pkt.ts)
              /\ todo' = AfterVisit(k)
              /\ UNCHANGED <<table_vars, pc, failed>>
    /\ UNCHANGED <<log, n_flows, next_id, last_to_check, last_ack_check, callback, before>>

\* The end of _check_timeouts.
CheckTimeoutsEnd ==
    /\ pc = "timeouts" /\ todo = {}
    /\ last_to_check' = Pkt.ts
    /\ pc' = "ack_check"
    /\ UNCHANGED <<log, table_vars, n_flows, next_id, last_ack_check, callback,
                   todo, failed, before>>

\* The test for the ACK check, and the loop's begin.
AckCheck ==
    /\ pc = "ack_check"
    /\ \/ AckCheckDue(Pkt.ts) /\ pc' = "last_acks" /\ todo' = DOMAIN active_flows
       \/ ~AckCheckDue(Pkt.ts) /\ pc' = "idle" /\ UNCHANGED todo
    /\ UNCHANGED <<vars, failed, before>>

\* One round of the loop of _check_last_ack.
CheckLastAckStep ==
    /\ pc = "last_acks" /\ todo # {}
    /\ LET k == First(todo)
       IN  \/ /\ IsLastAck(log, k, active_flows[k])
              /\ DeleteFlow(k)
              /\ todo' = AfterErase(k)
           \/ /\ ~IsLastAck(log, k, active_flows[k])
              /\ todo' = AfterVisit(k)
              /\ UNCHANGED table_vars
    /\ UNCHANGED <<log, n_flows, next_id, last_to_check, last_ack_check, callback,
                   pc, failed, before>>

CheckLastAckEnd ==
    /\ pc = "last_acks" /\ todo = {}
    /\ last_ack_check' = Pkt.ts
    /\ pc' = "idle"
    /\ UNCHANGED <<log, table_vars, n_flows, next_id, last_to_check, callback,
                   todo, failed, before>>

SetCallbackIdle ==
    /\ pc = "idle" /\ \E set \in BOOLEAN : SetCallback(set)
    /\ UNCHANGED <<pc, todo, failed, before>>

SweepNext ==
    \/ SetCallbackIdle
    \/ \E p \in Packets : Call(p)
    \/ CheckEvictStep \/ ToCheck \/ CheckTimeoutsStep \/ CheckTimeoutsEnd
    \/ AckCheck \/ CheckLastAckStep \/ CheckLastAckEnd

SweepSpec == SweepInit /\ [][SweepNext]_sweep_vars

\* A call that has begun is run to its end by its thread.
FairSweepSpec ==
    /\ SweepSpec
    /\ WF_sweep_vars(CheckEvictStep \/ ToCheck \/ CheckTimeoutsStep \/ CheckTimeoutsEnd
                       \/ AckCheck \/ CheckLastAckStep \/ CheckLastAckEnd)
-----------------------------------------------------------------------------
(***************************************************************************)
(* Properties                                                              *)
(***************************************************************************)

\* While a call runs, the table as seen from outside is that of its start.
Seen == IF pc = "idle" THEN State ELSE before

Atomic == INSTANCE FlowTable WITH
    log <- Seen.log, active_flows <- Seen.active_flows, exported <- Seen.exported,
    deleted <- Seen.deleted, n_packets <- Seen.n_packets,
    n_packets_processed <- Seen.n_packets_processed,
    n_flows_processed <- Seen.n_flows_processed, n_flows <- Seen.n_flows,
    next_id <- Seen.next_id, last_to_check <- Seen.last_to_check,
    last_ack_check <- Seen.last_ack_check, callback <- callback

\* The call ends with the exception of a callback.
CutShort == pc \in {"check_evict", "timeouts"} /\ pc' = "idle"

\* Unless a callback throws, the iterator steps of one call amount to the
\* atomic AddPacket, from whatever table earlier exceptions have left: erasing
\* while iterating skips no flow and visits none twice, and the per-flow
\* counting adds up.
RefinesFlowTable ==
    Atomic!Init /\ [][CutShort \/ Atomic!CaptureNext]_(Atomic!vars)

\* Also when callbacks throw, and at every point within a call at which the
\* callback can look: a packet is in one place only, because a flow whose
\* callback threw is still in the map, and the counters agree with the map and
\* with the exports that succeeded.
SweepAccounts ==
    /\ Conservation
    /\ PacketCounts
    /\ n_flows_processed = Cardinality(exported)

\* A flow that leaves through a later export after its callback threw is
\* handed out again with all the packets it had then and under the same id, so
\* a consumer that kept the first record can replace it.
FailedExportsRepeated ==
    \A f \in failed :
        \/ \E c \in exported : c.id = f.id /\ c.key = f.key /\ f.pkts \subseteq c.pkts
        \/ /\ f.key \in DOMAIN active_flows
           /\ active_flows[f.key].id = f.id
           /\ f.pkts \subseteq active_flows[f.key].pkts
        \/ \E d \in deleted : d.id = f.id /\ f.pkts \subseteq d.pkts

\* Also when callbacks throw, _last_to_check_s moves on only when every flow
\* that was due at that time has left: an exception, which leaves flows behind,
\* leaves the check due as well.
CheckedMeansClean ==
    [][last_to_check' # last_to_check =>
          \A k \in DOMAIN active_flows' :
             ~TimedOut(log, k, active_flows'[k], last_to_check')]_sweep_vars

\* Every call returns, whatever it erases from the maps it walks over.
CallsReturn == pc # "idle" ~> pc = "idle"
=============================================================================
