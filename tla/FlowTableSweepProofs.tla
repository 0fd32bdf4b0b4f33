----------------------- MODULE FlowTableSweepProofs -----------------------
(***************************************************************************)
(* Theorems about FlowTableSweep, add_packet taken apart into the steps of *)
(* its loops, with a callback that may throw in the middle of them, for    *)
(* all its constants:                                                      *)
(*                                                                         *)
(*   SweepAccounted      SweepAccounts                                     *)
(*   ThrownRepeated      FailedExportsRepeated                             *)
(*   ChecksAreClean      CheckedMeansClean                                 *)
(*   SweepIsAtomic       RefinesFlowTable                                  *)
(*                                                                         *)
(* PacketInv and IdInv, the invariants of the atomic calls, are invariants *)
(* of the single steps too: a step evicts or deletes one flow.  The last   *)
(* two theorems need to know how far a call has come, which is CallInv.    *)
(***************************************************************************)
EXTENDS FlowTableSweep, FlowTableProofs

-----------------------------------------------------------------------------
(***************************************************************************)
(* The control of a call                                                   *)
(***************************************************************************)

\* Where a call can stand, and that a loop has yet to visit only flows that
\* are there.
ControlInv ==
    /\ pc \in {"idle", "check_evict", "to_check", "timeouts", "ack_check", "last_acks"}
    /\ todo \subseteq DOMAIN active_flows
    /\ pc \notin {"timeouts", "last_acks"} => todo = {}
    /\ pc # "idle" => Len(log) >= 1
    /\ pc = "check_evict" => Pkt.key \in DOMAIN active_flows

\* A loop visits next one of the flows it has yet to visit.
LEMMA FirstIsThere ==
    ASSUME NEW K \in SUBSET Keys, K # {}
    PROVE  First(K) \in K
<1>. DEFINE T == {Rank[k] : k \in K}
<1>1. T \in SUBSET Nat /\ T # {}
  BY RankAssumption
<1>2. PICK r \in T : \A s \in T : r <= s
  <2>. HIDE DEF T
  <2>. QED  BY <1>1, NatMinimum
<1>3. \E k \in K : \A j \in K : Rank[k] <= Rank[j]
  BY <1>2
<1>. QED
  BY <1>3, Zenon DEF First

\* While a call runs, its packet has a time stamp.
LEMMA RunningPacket ==
    ASSUME TypeInv, ControlInv, pc # "idle"
    PROVE  Pkt \in Packets /\ Pkt.ts \in 0 .. W - 1 /\ Len(log) \in Nat
<1>1. log \in Seq(Packets) /\ Len(log) \in Nat /\ Len(log) >= 1
  BY DEF TypeInv, TypeOK, ControlInv
<1>2. Pkt \in Packets
  BY <1>1 DEF Pkt
<1>. QED
  BY <1>1, <1>2, TimeAssumption DEF Packets

-----------------------------------------------------------------------------
(***************************************************************************)
(* What the steps do to the flows                                          *)
(***************************************************************************)

\* _evict_flow of the flow of key k, the callback returning.
Evicts(k, complete) ==
    /\ k \in DOMAIN active_flows /\ complete \in BOOLEAN
    /\ Account(active_flows, 0, {k}, {})
    /\ exported' = exported \cup {Record(active_flows, k, complete, Pkt.ts)}

\* _delete_flow of the flow of key k.
Deletes(k) ==
    /\ k \in DOMAIN active_flows
    /\ Account(active_flows, 0, {}, {k})
    /\ exported' = exported

\* What steps within a call leave alone.
LogStays == UNCHANGED <<log, n_flows, next_id, last_ack_check, callback>>

LEMMA HeldOne ==
    ASSUME TypeInv, NEW k \in DOMAIN active_flows
    PROVE  /\ Held(active_flows, {k}) = active_flows[k].pkts
           /\ Held(active_flows, {}) = {}
           /\ Cardinality(active_flows[k].pkts) \in Nat
           /\ Cardinality({k}) = 1 /\ Cardinality({}) = 0
<1>1. Held(active_flows, {k}) = active_flows[k].pkts /\ Held(active_flows, {}) = {}
  BY DEF Held
<1>2. active_flows[k].pkts \in SUBSET (1 .. Len(log)) /\ Len(log) \in Nat
  BY DEF TypeInv, TypeOK, FlowsOK
<1>3. IsFiniteSet(1 .. Len(log))
  BY <1>2, FS_Interval
<1>4. Cardinality(active_flows[k].pkts) \in Nat
  BY <1>2, <1>3, FS_Subset, FS_CardinalityType
<1>. QED
  BY <1>1, <1>4, FS_Singleton, FS_EmptySet

\* The two outcomes of EvictFlow.
LEMMA EvictFlowCases ==
    ASSUME TypeInv, NEW k \in DOMAIN active_flows, NEW complete \in BOOLEAN,
           NEW next, NEW rest, EvictFlow(k, complete, next, rest)
    PROVE  \/ /\ Evicts(k, complete)
              /\ pc' = next /\ todo' = rest /\ failed' = failed
           \/ /\ pc' = "idle" /\ todo' = {}
              /\ failed' = failed \cup {Record(active_flows, k, complete, Pkt.ts)}
              /\ UNCHANGED table_vars
<1>1. ASSUME exported' = exported \cup {Record(active_flows, k, complete, Pkt.ts)},
             n_packets' = n_packets - Cardinality(active_flows[k].pkts),
             n_flows_processed' = n_flows_processed + 1,
             n_packets_processed' = n_packets_processed + Cardinality(active_flows[k].pkts),
             active_flows' = Without(active_flows, {k}),
             deleted' = deleted
      PROVE  Evicts(k, complete)
  <2>1. n_packets \in Int /\ n_packets_processed \in Int /\ n_flows_processed \in Int
    BY DEF TypeInv, TypeOK
  <2>6. /\ Cardinality(Held(active_flows, {k})) = Cardinality(active_flows[k].pkts)
        /\ Cardinality(Held(active_flows, {})) = 0
        /\ Cardinality(active_flows[k].pkts) \in Nat
    BY HeldOne
  <2>2. n_packets' = NPacketsLess(active_flows, {k}, {}) + 0
    BY <1>1, <2>1, <2>6 DEF NPacketsLess
  <2>3. /\ n_packets_processed' = NPacketsProcessedPlus(active_flows, {k})
        /\ n_flows_processed' = NFlowsProcessedPlus({k}, {})
    BY <1>1, <2>1, HeldOne DEF NPacketsProcessedPlus, NFlowsProcessedPlus
  <2>4. active_flows' = Staying(active_flows, {k}, {})
    <3>1. {k} \cup {} = {k}
      OBVIOUS
    <3>. QED  BY <1>1, <3>1 DEF Staying
  <2>5. deleted' = deleted \cup {Remains(active_flows, j) : j \in {}}
    BY <1>1
  <2>. QED  BY <1>1, <2>2, <2>3, <2>4, <2>5 DEF Evicts, Account
<1>. QED
  BY <1>1, Zenon DEF EvictFlow, Thrown, table_vars

LEMMA DeleteFlowDeletes ==
    ASSUME TypeInv, NEW k \in DOMAIN active_flows, DeleteFlow(k)
    PROVE  Deletes(k)
<1>1. n_packets \in Int /\ n_packets_processed \in Int /\ n_flows_processed \in Int
  BY DEF TypeInv, TypeOK
<1>6. /\ Cardinality(Held(active_flows, {k})) = Cardinality(active_flows[k].pkts)
      /\ Cardinality(Held(active_flows, {})) = 0
      /\ Cardinality(active_flows[k].pkts) \in Nat
  BY HeldOne
<1>2. n_packets' = NPacketsLess(active_flows, {}, {k}) + 0
  BY <1>1, <1>6 DEF NPacketsLess, DeleteFlow
<1>3. /\ n_packets_processed' = NPacketsProcessedPlus(active_flows, {})
      /\ n_flows_processed' = NFlowsProcessedPlus({}, {k})
  <2>1. n_packets_processed' = n_packets_processed /\ n_flows_processed' = n_flows_processed
    BY DEF DeleteFlow
  <2>2. Cardinality({}) = 0
    BY FS_EmptySet
  <2>3. n_packets_processed' = NPacketsProcessedPlus(active_flows, {})
    BY <1>1, <1>6, <2>1 DEF NPacketsProcessedPlus
  <2>4. n_flows_processed' = n_flows_processed + Cardinality({})
    BY <1>1, <2>1, <2>2
  <2>. QED  BY <2>3, <2>4 DEF NFlowsProcessedPlus
<1>4. active_flows' = Staying(active_flows, {}, {k})
  <2>1. {} \cup {k} = {k}
    OBVIOUS
  <2>. QED  BY <2>1 DEF Staying, DeleteFlow
<1>5. deleted' = deleted \cup {Remains(active_flows, j) : j \in {k}}
  BY DEF DeleteFlow
<1>. QED
  BY <1>2, <1>3, <1>4, <1>5 DEF Deletes, Account, DeleteFlow

\* What steps other than the begin of a call leave alone, and what they may set.
Within ==
    /\ UNCHANGED <<log, n_flows, next_id>>
    /\ callback' \in BOOLEAN
    /\ last_to_check' \in 0 .. W - 1 /\ last_ack_check' \in 0 .. W - 1

\* Every step begins a call, moves one flow or moves none.
LEMMA SweepCases ==
    ASSUME TypeInv, ControlInv, [SweepNext]_sweep_vars
    PROVE  \/ \E p \in Packets : Call(p)
           \/ Within /\ UNCHANGED table_vars
           \/ Within /\ pc # "idle" /\ \E k, complete : Evicts(k, complete)
           \/ Within /\ \E k : Deletes(k)
<1>1. /\ last_to_check \in 0 .. W - 1 /\ last_ack_check \in 0 .. W - 1
      /\ callback \in BOOLEAN
  BY DEF TypeInv, TypeOK
<1>2. CASE SetCallbackIdle \/ UNCHANGED sweep_vars
  BY <1>1, <1>2 DEF SetCallbackIdle, SetCallback, counters, sweep_vars, vars, table_vars, Within
<1>3. ASSUME ToCheck \/ AckCheck
      PROVE  Within /\ UNCHANGED table_vars
  BY <1>1, <1>3, Zenon DEF ToCheck, AckCheck, vars, counters, table_vars, Within
<1>4. ASSUME CheckTimeoutsEnd \/ CheckLastAckEnd
      PROVE  Within /\ UNCHANGED table_vars
  <2>1. Pkt.ts \in 0 .. W - 1
    BY <1>4, RunningPacket DEF CheckTimeoutsEnd, CheckLastAckEnd
  <2>. QED  BY <1>1, <1>4, <2>1, Zenon DEF CheckTimeoutsEnd, CheckLastAckEnd, Within
<1>5. ASSUME CheckEvictStep
      PROVE  \/ Within /\ UNCHANGED table_vars
             \/ Within /\ pc # "idle" /\ \E k, complete : Evicts(k, complete)
  <2>1. /\ Within /\ pc # "idle"
        /\ Pkt.key \in DOMAIN active_flows /\ TRUE \in BOOLEAN
    BY <1>1, <1>5 DEF CheckEvictStep, ControlInv, Within
  <2>2. CASE UNCHANGED table_vars
    BY <2>1, <2>2
  <2>3. CASE EvictFlow(Pkt.key, TRUE, "to_check", {})
    BY <2>1, <2>3, EvictFlowCases, Zenon
  <2>. QED  BY <1>5, <2>2, <2>3, Zenon DEF CheckEvictStep
<1>6. ASSUME CheckTimeoutsStep
      PROVE  \/ Within /\ UNCHANGED table_vars
             \/ Within /\ pc # "idle" /\ \E k, complete : Evicts(k, complete)
  <2>1. Within /\ pc # "idle"
    <3>1. Within /\ pc = "timeouts"
      BY <1>1, <1>6, Zenon DEF CheckTimeoutsStep, Within
    <3>. QED  BY <3>1
  <2>2. First(todo) \in DOMAIN active_flows
    BY <1>6, FirstIsThere DEF CheckTimeoutsStep, ControlInv, TypeInv, TypeOK
  <2>3. (IpProto[First(todo)] = "udp") \in BOOLEAN
    OBVIOUS
  <2>4. CASE UNCHANGED table_vars
    BY <2>1, <2>4
  <2>5. CASE EvictFlow(First(todo), IpProto[First(todo)] = "udp", pc, AfterErase(First(todo)))
    BY <2>1, <2>2, <2>3, <2>5, EvictFlowCases, Zenon
  <2>. QED  BY <1>6, <2>4, <2>5, Zenon DEF CheckTimeoutsStep
<1>7. ASSUME CheckLastAckStep
      PROVE  \/ Within /\ UNCHANGED table_vars
             \/ Within /\ \E k : Deletes(k)
  <2>1. Within
    BY <1>1, <1>7, Zenon DEF CheckLastAckStep, Within
  <2>2. First(todo) \in DOMAIN active_flows
    BY <1>7, FirstIsThere DEF CheckLastAckStep, ControlInv, TypeInv, TypeOK
  <2>3. CASE UNCHANGED table_vars
    BY <2>1, <2>3
  <2>4. CASE DeleteFlow(First(todo))
    BY <2>1, <2>2, <2>4, DeleteFlowDeletes, Zenon
  <2>. QED  BY <1>7, <2>3, <2>4, Zenon DEF CheckLastAckStep
<1>. QED
  BY <1>2, <1>3, <1>4, <1>5, <1>6, <1>7, Zenon DEF SweepNext

\* After an eviction or a deletion the loop has still to visit flows that are
\* there, as it goes on without the flow that left.
LEMMA AfterLeaving ==
    ASSUME NEW k, NEW rest, rest \subseteq DOMAIN active_flows \ {k},
           active_flows' = Without(active_flows, {k})
    PROVE  rest \subseteq DOMAIN active_flows'
BY DEF Without

LEMMA NextControl ==
    ASSUME TypeInv, ControlInv, [SweepNext]_sweep_vars
    PROVE  ControlInv'
<1>0. log \in Seq(Packets) /\ Len(log) \in Nat
  BY DEF TypeInv, TypeOK
<1>1. CASE SetCallbackIdle \/ UNCHANGED sweep_vars
  BY <1>1 DEF SetCallbackIdle, SetCallback, sweep_vars, vars, ControlInv, Pkt
<1>2. ASSUME NEW p \in Packets, Call(p)
      PROVE  ControlInv'
  <2>1. /\ pc = "idle" /\ pc' = "check_evict" /\ todo' = todo /\ log' = Append(log, p)
        /\ active_flows' = LookupAndInsert(p.key, Len(log) + 1)
    BY <1>2 DEF Call
  <2>2. Len(log') = Len(log) + 1 /\ Pkt' = p
    BY <1>0, <2>1 DEF Pkt
  <2>3. DOMAIN active_flows' = DOMAIN active_flows \cup {p.key}
    BY <2>1 DEF LookupAndInsert
  <2>. QED  BY <1>0, <2>1, <2>2, <2>3 DEF ControlInv
<1>3. ASSUME NEW k \in DOMAIN active_flows, NEW complete \in BOOLEAN, NEW next, NEW rest,
             EvictFlow(k, complete, next, rest), rest \subseteq DOMAIN active_flows \ {k},
             log' = log, pc # "idle",
             \/ next = "to_check" /\ rest = {}
             \/ next = "timeouts"
      PROVE  ControlInv'
  <2>1. CASE pc' = next /\ todo' = rest /\ active_flows' = Without(active_flows, {k})
    <3>1. todo' \subseteq DOMAIN active_flows'
      BY <1>3, <2>1, AfterLeaving
    <3>. QED  BY <1>3, <2>1, <3>1 DEF ControlInv
  <2>2. CASE pc' = "idle" /\ todo' = {}
    BY <2>2 DEF ControlInv
  <2>. QED  BY <1>3, <2>1, <2>2, Zenon DEF EvictFlow
<1>4. ASSUME CheckEvictStep
      PROVE  ControlInv'
  <2>1. log' = log /\ pc = "check_evict" /\ Pkt.key \in DOMAIN active_flows
    BY <1>4, Zenon DEF CheckEvictStep, ControlInv
  <2>2. CASE EvictFlow(Pkt.key, TRUE, "to_check", {})
    BY <1>3, <2>1, <2>2
  <2>3. CASE pc' = "to_check" /\ UNCHANGED <<table_vars, todo, failed>>
    BY <2>1, <2>3 DEF ControlInv, table_vars
  <2>. QED  BY <1>4, <2>2, <2>3, Zenon DEF CheckEvictStep
<1>5. ASSUME CheckTimeoutsStep
      PROVE  ControlInv'
  <2>1. log' = log /\ pc = "timeouts" /\ todo # {}
    BY <1>5, Zenon DEF CheckTimeoutsStep
  <2>2. First(todo) \in todo /\ First(todo) \in DOMAIN active_flows
    BY <2>1, FirstIsThere DEF ControlInv, TypeInv, TypeOK
  <2>3. /\ AfterErase(First(todo)) \subseteq DOMAIN active_flows \ {First(todo)}
        /\ AfterVisit(First(todo)) \subseteq DOMAIN active_flows
    BY DEF ControlInv, AfterErase, AfterVisit
  <2>4. CASE EvictFlow(First(todo), IpProto[First(todo)] = "udp", pc, AfterErase(First(todo)))
    <3>1. (IpProto[First(todo)] = "udp") \in BOOLEAN
      OBVIOUS
    <3>. QED  BY <1>3, <2>1, <2>2, <2>3, <2>4, <3>1
  <2>5. CASE todo' = AfterVisit(First(todo)) /\ UNCHANGED <<table_vars, pc, failed>>
    BY <2>1, <2>3, <2>5 DEF ControlInv, table_vars
  <2>. QED  BY <1>5, <2>4, <2>5, Zenon DEF CheckTimeoutsStep
<1>6. ASSUME CheckLastAckStep
      PROVE  ControlInv'
  <2>1. log' = log /\ pc = "last_acks" /\ todo # {} /\ pc' = pc
    BY <1>6, Zenon DEF CheckLastAckStep
  <2>2. First(todo) \in todo /\ First(todo) \in DOMAIN active_flows
    BY <2>1, FirstIsThere DEF ControlInv, TypeInv, TypeOK
  <2>3. /\ AfterErase(First(todo)) \subseteq DOMAIN active_flows \ {First(todo)}
        /\ AfterVisit(First(todo)) \subseteq DOMAIN active_flows
    BY DEF ControlInv, AfterErase, AfterVisit
  <2>4. CASE DeleteFlow(First(todo)) /\ todo' = AfterErase(First(todo))
    <3>1. todo' \subseteq DOMAIN active_flows'
      BY <2>3, <2>4, AfterLeaving DEF DeleteFlow
    <3>. QED  BY <2>1, <3>1 DEF ControlInv
  <2>5. CASE todo' = AfterVisit(First(todo)) /\ UNCHANGED table_vars
    BY <2>1, <2>3, <2>5 DEF ControlInv, table_vars
  <2>. QED  BY <1>6, <2>4, <2>5, Zenon DEF CheckLastAckStep
<1>7. CASE ToCheck \/ AckCheck
  BY <1>7 DEF ToCheck, AckCheck, vars, ControlInv
<1>8. CASE CheckTimeoutsEnd \/ CheckLastAckEnd
  BY <1>8 DEF CheckTimeoutsEnd, CheckLastAckEnd, table_vars, ControlInv
<1>. QED
  BY <1>1, <1>2, <1>4, <1>5, <1>6, <1>7, <1>8, Zenon DEF SweepNext

-----------------------------------------------------------------------------
(***************************************************************************)
(* The packets and the ids, step by step                                   *)
(***************************************************************************)

\* A call begins as add_packet does, and nothing has left yet.
LEMMA CallBegins ==
    ASSUME TypeInv, NEW p \in Packets, Call(p)
    PROVE  LET table == LookupAndInsert(p.key, Len(log) + 1)
           IN  /\ Arrives(p) /\ Joins(p, table)
               /\ Account(table, 1, {}, {}) /\ Leave(table, {}, {}, {})
               /\ Len(log) + 1 <= MaxPackets /\ log' = Append(log, p)
               /\ exported' = exported
<1>. DEFINE n     == Len(log) + 1
            table == LookupAndInsert(p.key, n)
<1>1. /\ log' = Append(log, p) /\ active_flows' = table /\ n_packets' = n_packets + 1
      /\ Len(log) < MaxPackets
      /\ exported' = exported /\ deleted' = deleted
      /\ n_packets_processed' = n_packets_processed
      /\ n_flows_processed' = n_flows_processed
  BY DEF Call
<1>2. /\ log \in Seq(Packets) /\ Len(log) \in Nat /\ next_id \in Nat /\ n_flows \in Nat
      /\ n_packets \in Int /\ n_packets_processed \in Int /\ n_flows_processed \in Int
  BY DEF TypeInv, TypeOK
<1>3. n <= MaxPackets
  BY <1>1, <1>2, CountAssumption
<1>4. /\ log' \in Seq(Packets) /\ Len(log') = n
      /\ DOMAIN table = DOMAIN active_flows \cup {p.key}
      /\ TableOK(table, log')
  BY <1>1, <1>3, LookupAndInsertOK
<1>5. Arrives(p)
  BY <1>1, <1>2, <1>3, <1>4 DEF Arrives
<1>6. Joins(p, table)
  <2>1. \A k \in DOMAIN table \ {p.key} : table[k] = active_flows[k]
    BY DEF LookupAndInsert
  <2>2. ASSUME p.key \in DOMAIN active_flows
        PROVE  /\ table[p.key].pkts = active_flows[p.key].pkts \cup {n}
               /\ table[p.key].id = active_flows[p.key].id
               /\ next_id' = next_id /\ n_flows' = n_flows
    <3>1. table[p.key] = [id |-> active_flows[p.key].id,
                          pkts |-> active_flows[p.key].pkts \cup {n}]
      BY <2>2 DEF LookupAndInsert
    <3>2. next_id' = next_id /\ n_flows' = n_flows
      BY <2>2 DEF Call
    <3>. HIDE DEF table
    <3>. QED  BY <3>1, <3>2
  <2>3. ASSUME p.key \notin DOMAIN active_flows
        PROVE  /\ table[p.key].pkts = {n} /\ table[p.key].id = next_id
               /\ next_id' = next_id + 1 /\ n_flows' = n_flows + 1
    <3>1. table[p.key] = [id |-> next_id, pkts |-> {n}]
      BY <2>3 DEF LookupAndInsert
    <3>2. next_id' = next_id + 1 /\ n_flows' = n_flows + 1
      BY <2>3 DEF Call
    <3>. HIDE DEF table
    <3>. QED  BY <3>1, <3>2
  <2>. HIDE DEF table
  <2>. QED  BY <1>4, <2>1, <2>2, <2>3 DEF Joins
<1>7. Without(table, {} \cup {}) = table
  BY DEF Without, LookupAndInsert
<1>8. Cardinality(Held(table, {})) = 0 /\ Cardinality({}) = 0
  <2>1. Held(table, {}) = {}
    BY DEF Held
  <2>. QED  BY <2>1, FS_EmptySet
<1>. HIDE DEF table
<1>9. Account(table, 1, {}, {})
  <2>1. n_packets' = NPacketsLess(table, {}, {}) + 1
    BY <1>1, <1>2, <1>8 DEF NPacketsLess
  <2>2. n_packets_processed' = NPacketsProcessedPlus(table, {})
    BY <1>1, <1>2, <1>8 DEF NPacketsProcessedPlus
  <2>3. n_flows_processed' = n_flows_processed + Cardinality({})
    BY <1>1, <1>2, <1>8
  <2>. QED  BY <1>1, <1>7, <2>1, <2>2, <2>3 DEF Account, Staying, NFlowsProcessedPlus
<1>10. Leave(table, {}, {}, {})
  <2>1. RecordsOf(table, {}, {})
    BY DEF RecordsOf
  <2>2. n_flows_processed' = n_flows_processed + Cardinality({})
    BY <1>1, <1>2, <1>8
  <2>. QED  BY <1>1, <1>7, <2>1, <2>2 DEF Leave
<1>. QED
  BY <1>1, <1>3, <1>5, <1>6, <1>9, <1>10 DEF table

LEMMA CallPacketInv ==
    ASSUME PacketInv, NEW p \in Packets, Call(p)
    PROVE  PacketInv'
<1>. DEFINE n     == Len(log) + 1
            table == LookupAndInsert(p.key, n)
<1>0. TypeInv
  BY DEF PacketInv
<1>1. /\ Joins(p, table) /\ Account(table, 1, {}, {})
      /\ n <= MaxPackets /\ log' = Append(log, p) /\ exported' = exported
  BY <1>0, CallBegins
<1>2. log' \in Seq(Packets) /\ Len(log') = n /\ TableOK(table, log')
  BY <1>0, <1>1, LookupAndInsertOK
<1>3. Held(table, DOMAIN table) = InTable \cup {n}
  BY <1>0, <1>1, LookupAndInsertHeld
<1>. HIDE DEF table
<1>4. /\ n_packets \in Int /\ Len(log) \in Nat /\ next_id' \in Nat \ {0} /\ n_flows' \in Nat
      /\ last_to_check' \in 0 .. W - 1 /\ last_ack_check' \in 0 .. W - 1
      /\ callback' \in BOOLEAN /\ exported' \subseteq CLFR
  <2>1. /\ last_to_check' = last_to_check /\ last_ack_check' = last_ack_check
        /\ callback' = callback
    BY DEF Call
  <2>2. (next_id' = next_id /\ n_flows' = n_flows)
           \/ (next_id' = next_id + 1 /\ n_flows' = n_flows + 1)
    BY DEF Call
  <2>. QED  BY <1>0, <1>1, <2>1, <2>2 DEF TypeInv, TypeOK
<1>5. /\ n \in Nat /\ n \notin 1 .. Len(log) /\ 1 .. n = (1 .. Len(log)) \cup {n}
  BY <1>4
<1>6. /\ Held(table, DOMAIN table) \cup InExports \cup InDeleted = 1 .. Len(log')
      /\ Held(table, DOMAIN table) \cap InExports = {}
      /\ Held(table, DOMAIN table) \cap InDeleted = {}
      /\ InExports \cap InDeleted = {}
  <2>. HIDE DEF n
  <2>. QED  BY <1>2, <1>3, <1>5 DEF PacketInv, Conservation
<1>7. n_packets + 1 = Cardinality(Held(table, DOMAIN table))
  <2>1. InTable \subseteq 1 .. Len(log) /\ IsFiniteSet(1 .. Len(log))
    BY <1>4, FS_Interval DEF PacketInv, Conservation
  <2>2. IsFiniteSet(InTable) /\ n \notin InTable
    BY <2>1, <1>5, FS_Subset
  <2>3. Cardinality(InTable \cup {n}) = Cardinality(InTable) + 1
    BY <2>2, FS_AddElement
  <2>. QED  BY <1>3, <2>3 DEF PacketInv, PacketCounts
<1>8. {} \in SUBSET DOMAIN table /\ {} \cap {} = {} /\ 1 \in Nat /\ Len(log') <= MaxPackets
  BY <1>1, <1>2
<1>9. InExports' = InExports \cup Held(table, {})
  BY <1>1 DEF InExports, Held
<1>. HIDE DEF n
<1>10. Conservation' /\ PacketCounts'
  BY <1>0, <1>1, <1>2, <1>6, <1>7, <1>8, <1>9, AccountConserves DEF PacketInv, PacketCounts
<1>11. /\ DOMAIN active_flows' \subseteq Keys
       /\ active_flows' \in [DOMAIN active_flows' -> Flow]
       /\ deleted' \subseteq Deleted
       /\ n_packets' \in Int /\ n_packets_processed' \in Nat
       /\ n_flows_processed' \in Nat
       /\ FlowsOK'
  BY <1>0, <1>1, <1>2, <1>8, AccountType
<1>. QED
  BY <1>2, <1>4, <1>8, <1>10, <1>11 DEF PacketInv, TypeInv, TypeOK

\* One flow is evicted or deleted: the packets stay accounted for.
LEMMA OneLeavesPacketInv ==
    ASSUME PacketInv, Within,
           NEW E \in SUBSET DOMAIN active_flows, NEW D \in SUBSET DOMAIN active_flows,
           E \cap D = {}, Account(active_flows, 0, E, D),
           exported' \subseteq CLFR, InExports' = InExports \cup Held(active_flows, E)
    PROVE  PacketInv'
<1>1. TypeInv /\ log' = log /\ n_flows' = n_flows /\ next_id' = next_id
  BY DEF PacketInv, Within
<1>2. TableOK(active_flows, log') /\ log' \in Seq(Packets) /\ Len(log') <= MaxPackets
  BY <1>1 DEF TypeInv, TypeOK, FlowsOK, TableOK
<1>3. n_packets \in Int /\ n_packets + 0 = Cardinality(Held(active_flows, DOMAIN active_flows))
  BY DEF PacketInv, PacketCounts, TypeInv, TypeOK, InTable
<1>4. Conservation' /\ PacketCounts'
  BY <1>1, <1>2, <1>3, AccountConserves DEF PacketInv, Conservation, PacketCounts, InTable
<1>5. /\ DOMAIN active_flows' \subseteq Keys
      /\ active_flows' \in [DOMAIN active_flows' -> Flow]
      /\ deleted' \subseteq Deleted
      /\ n_packets' \in Int /\ n_packets_processed' \in Nat
      /\ n_flows_processed' \in Nat
      /\ FlowsOK'
  BY <1>1, <1>2, AccountType
<1>. QED
  BY <1>1, <1>2, <1>4, <1>5 DEF PacketInv, TypeInv, TypeOK, Within

LEMMA EvictsPacketInv ==
    ASSUME PacketInv, ControlInv, pc # "idle", Within, NEW k, NEW complete, Evicts(k, complete)
    PROVE  PacketInv'
<1>1. /\ k \in DOMAIN active_flows /\ complete \in BOOLEAN
      /\ Account(active_flows, 0, {k}, {})
      /\ exported' = exported \cup {Record(active_flows, k, complete, Pkt.ts)}
  BY DEF Evicts
<1>2. Pkt.ts \in 0 .. W - 1 /\ TypeInv
  BY RunningPacket DEF PacketInv
<1>3. TableOK(active_flows, log)
  BY <1>2 DEF TypeInv, TypeOK, FlowsOK, TableOK
<1>4. exported' \subseteq CLFR
  <2>1. Record(active_flows, k, complete, Pkt.ts) \in CLFR
    BY <1>1, <1>2, <1>3, RecordType
  <2>. QED  BY <1>1, <1>2, <2>1 DEF TypeInv, TypeOK
<1>5. InExports' = InExports \cup Held(active_flows, {k})
  <2>1. Record(active_flows, k, complete, Pkt.ts).pkts = active_flows[k].pkts
    BY DEF Record
  <2>. QED  BY <1>1, <2>1 DEF InExports, Held
<1>. QED
  BY <1>1, <1>4, <1>5, OneLeavesPacketInv

LEMMA DeletesPacketInv ==
    ASSUME PacketInv, Within, NEW k, Deletes(k)
    PROVE  PacketInv'
<1>1. k \in DOMAIN active_flows /\ Account(active_flows, 0, {}, {k}) /\ exported' = exported
  BY DEF Deletes
<1>2. exported' \subseteq CLFR
  BY <1>1 DEF PacketInv, TypeInv, TypeOK
<1>3. InExports' = InExports \cup Held(active_flows, {})
  BY <1>1 DEF InExports, Held
<1>. QED
  BY <1>1, <1>2, <1>3, OneLeavesPacketInv

\* Evictions and deletions as departures from the table.
LEMMA EvictsLeave ==
    ASSUME NEW k, NEW complete, Evicts(k, complete)
    PROVE  \E R : Leave(active_flows, {k}, {}, R)
<1>. DEFINE r == Record(active_flows, k, complete, Pkt.ts)
<1>1. r.key = k /\ r.id = active_flows[k].id /\ r.pkts = active_flows[k].pkts
  BY DEF Record
<1>. HIDE DEF r
<1>2. RecordsOf(active_flows, {k}, {r})
  BY <1>1 DEF RecordsOf
<1>3. Leave(active_flows, {k}, {}, {r})
  BY <1>2 DEF Evicts, Leave, Account, Staying, NFlowsProcessedPlus, r
<1>. QED
  BY <1>3, Zenon

LEMMA DeletesLeave ==
    ASSUME NEW k, Deletes(k)
    PROVE  Leave(active_flows, {}, {k}, {})
<1>1. RecordsOf(active_flows, {}, {})
  BY DEF RecordsOf
<1>. QED
  BY <1>1 DEF Deletes, Leave, Account, Staying, NFlowsProcessedPlus

LEMMA OneLeavesIdInv ==
    ASSUME PacketInv, IdInv, Within, NEW k, Deletes(k) \/ \E complete : Evicts(k, complete)
    PROVE  IdInv'
<1>1. log' = log /\ next_id' = next_id /\ n_flows' = n_flows
  BY DEF Within
<1>2. PICK E, D, R : Leave(active_flows, E, D, R)
  BY EvictsLeave, DeletesLeave, Zenon
<1>. QED
  BY <1>1, <1>2, LeaveIdInv

\* The inductive invariant.
SweepInv == PacketInv /\ IdInv /\ ControlInv

LEMMA InitSweepInv == SweepInit => SweepInv
<1>. SUFFICES ASSUME SweepInit
              PROVE  ControlInv
  BY InitFlowInv DEF SweepInit, FlowInv, SweepInv
<1>. QED
  BY DEF SweepInit, ControlInv

LEMMA NextSweepInv == SweepInv /\ [SweepNext]_sweep_vars => SweepInv'
<1>. SUFFICES ASSUME SweepInv, [SweepNext]_sweep_vars
              PROVE  PacketInv' /\ IdInv'
  BY NextControl DEF SweepInv, PacketInv
<1>0. PacketInv /\ IdInv /\ ControlInv /\ TypeInv
  BY DEF SweepInv, PacketInv
<1>1. ASSUME NEW p \in Packets, Call(p)
      PROVE  PacketInv' /\ IdInv'
  <2>1. PICK table : Arrives(p) /\ Joins(p, table) /\ Leave(table, {}, {}, {})
    BY <1>0, <1>1, CallBegins
  <2>2. IdInv'
    BY <1>0, <2>1, JoinLeaveIdInv
  <2>. QED  BY <1>0, <1>1, <2>2, CallPacketInv
<1>2. CASE Within /\ UNCHANGED table_vars
  <2>1. PacketInv'
    <3>1. TypeInv'
      BY <1>0, <1>2 DEF Within, table_vars, TypeInv, TypeOK, FlowsOK
    <3>2. InTable' = InTable /\ InExports' = InExports /\ InDeleted' = InDeleted
      BY <1>2 DEF table_vars, InTable, InExports, InDeleted, Held
    <3>3. /\ log' = log /\ n_packets' = n_packets
          /\ n_packets_processed' = n_packets_processed
      BY <1>2 DEF Within, table_vars
    <3>4. Conservation' /\ PacketCounts'
      BY <1>0, <3>2, <3>3 DEF PacketInv, Conservation, PacketCounts
    <3>. QED  BY <3>1, <3>4 DEF PacketInv
  <2>2. AllFlows' = AllFlows
    BY <1>2 DEF Within, table_vars, AllFlows
  <2>3. IdInv'
    BY <1>0, <1>2, <2>2 DEF Within, table_vars, IdInv
  <2>. QED  BY <2>1, <2>3
<1>3. ASSUME Within, pc # "idle", NEW k, NEW complete, Evicts(k, complete)
      PROVE  PacketInv' /\ IdInv'
  BY <1>0, <1>3, EvictsPacketInv, OneLeavesIdInv
<1>4. ASSUME Within, NEW k, Deletes(k)
      PROVE  PacketInv' /\ IdInv'
  BY <1>0, <1>4, DeletesPacketInv, OneLeavesIdInv
<1>. QED
  BY <1>0, <1>1, <1>2, <1>3, <1>4, SweepCases, Zenon

\* Whatever calls a throwing callback cuts short, and at every step of a call,
\* each packet is in one place only and the counters of packets and of exported
\* flows are right.
THEOREM SweepAccounted == SweepSpec => []SweepAccounts
<1>1. SweepInv => SweepAccounts
  BY DEF SweepInv, PacketInv, IdInv, SweepAccounts
<1>. QED
  BY <1>1, InitSweepInv, NextSweepInv, PTL DEF SweepSpec

-----------------------------------------------------------------------------
(***************************************************************************)
(* Exports that a throwing callback made fail                              *)
(***************************************************************************)

\* Where a flow that was in the table is after a step: still there, and maybe
\* longer, or exported, or deleted.
Follows(id, key, pkts) ==
    \/ \E c \in exported : c.id = id /\ c.key = key /\ pkts \subseteq c.pkts
    \/ /\ key \in DOMAIN active_flows
       /\ active_flows[key].id = id
       /\ pkts \subseteq active_flows[key].pkts
    \/ \E d \in deleted : d.id = id /\ pkts \subseteq d.pkts

\* Flows leave a table in which the flow of key is.
LEMMA LeaveFollows ==
    ASSUME NEW table, NEW E, NEW D, NEW R, Leave(table, E, D, R),
           NEW key \in DOMAIN table, NEW id, id = table[key].id,
           NEW pkts, pkts \subseteq table[key].pkts
    PROVE  Follows(id, key, pkts)'
<1>1. /\ DOMAIN active_flows' = DOMAIN table \ (E \cup D)
      /\ \A k \in DOMAIN table \ (E \cup D) : active_flows'[k] = table[k]
  BY LeaveTable
<1>2. CASE key \in E
  <2>1. PICK r \in R : r.key = key
    BY <1>2 DEF Leave, RecordsOf
  <2>2. r \in exported' /\ r.id = id /\ pkts \subseteq r.pkts
    BY <2>1 DEF Leave, RecordsOf
  <2>. QED  BY <2>1, <2>2 DEF Follows
<1>3. CASE key \in D
  <2>1. Remains(table, key) \in deleted'
    BY <1>3 DEF Leave
  <2>2. Remains(table, key).id = id /\ pkts \subseteq Remains(table, key).pkts
    BY DEF Remains
  <2>. QED  BY <2>1, <2>2 DEF Follows
<1>4. CASE key \notin E /\ key \notin D
  BY <1>1, <1>4 DEF Follows
<1>. QED
  BY <1>2, <1>3, <1>4

\* Once a flow has left, it stays where it is.
LEMMA FollowsOnward ==
    ASSUME NEW table, NEW E, NEW D, NEW R, Leave(table, E, D, R),
           NEW id, NEW key, NEW pkts, Follows(id, key, pkts),
           key \in DOMAIN active_flows =>
              /\ key \in DOMAIN table /\ table[key].id = active_flows[key].id
              /\ active_flows[key].pkts \subseteq table[key].pkts
    PROVE  Follows(id, key, pkts)'
<1>1. exported \subseteq exported' /\ deleted \subseteq deleted'
  BY DEF Leave
<1>2. CASE \/ \E c \in exported : c.id = id /\ c.key = key /\ pkts \subseteq c.pkts
           \/ \E d \in deleted : d.id = id /\ pkts \subseteq d.pkts
  BY <1>1, <1>2 DEF Follows
<1>3. CASE /\ key \in DOMAIN active_flows
           /\ active_flows[key].id = id
           /\ pkts \subseteq active_flows[key].pkts
  <2>1. key \in DOMAIN table /\ id = table[key].id /\ pkts \subseteq table[key].pkts
    BY <1>3
  <2>. QED  BY <2>1, LeaveFollows
<1>. QED
  BY <1>2, <1>3 DEF Follows

\* A record fails while its flow is in the table, and stays there.
LEMMA NewlyFailed ==
    ASSUME TypeInv, ControlInv, [SweepNext]_sweep_vars, NEW f \in failed', f \notin failed
    PROVE  /\ UNCHANGED table_vars
           /\ f.key \in DOMAIN active_flows
           /\ f.id = active_flows[f.key].id /\ f.pkts = active_flows[f.key].pkts
<1>1. ASSUME NEW k \in DOMAIN active_flows, NEW complete \in BOOLEAN,
             NEW next, NEW rest, EvictFlow(k, complete, next, rest)
      PROVE  /\ UNCHANGED table_vars
             /\ f.key \in DOMAIN active_flows
             /\ f.id = active_flows[f.key].id /\ f.pkts = active_flows[f.key].pkts
  <2>1. /\ UNCHANGED table_vars
        /\ failed' = failed \cup {Record(active_flows, k, complete, Pkt.ts)}
    BY <1>1, EvictFlowCases, Zenon
  <2>2. f = Record(active_flows, k, complete, Pkt.ts)
    BY <2>1
  <2>3. f.key = k /\ f.id = active_flows[k].id /\ f.pkts = active_flows[k].pkts
    BY <2>2 DEF Record
  <2>. QED  BY <2>1, <2>3
<1>2. ASSUME CheckEvictStep
      PROVE  EvictFlow(Pkt.key, TRUE, "to_check", {}) /\ Pkt.key \in DOMAIN active_flows
  <2>1. pc = "check_evict"
    BY <1>2, Zenon DEF CheckEvictStep
  <2>2. EvictFlow(Pkt.key, TRUE, "to_check", {})
    BY <1>2, Zenon DEF CheckEvictStep
  <2>. QED  BY <2>1, <2>2 DEF ControlInv
<1>3. ASSUME CheckTimeoutsStep
      PROVE  \E k \in DOMAIN active_flows :
                EvictFlow(k, IpProto[k] = "udp", pc, AfterErase(k))
  <2>1. todo # {}
    BY <1>3, Zenon DEF CheckTimeoutsStep
  <2>2. First(todo) \in DOMAIN active_flows
    BY <2>1, FirstIsThere DEF ControlInv, TypeInv, TypeOK
  <2>3. EvictFlow(First(todo), IpProto[First(todo)] = "udp", pc, AfterErase(First(todo)))
    BY <1>3, Zenon DEF CheckTimeoutsStep
  <2>. QED  BY <2>2, <2>3, Zenon
<1>4. CheckEvictStep \/ CheckTimeoutsStep
  <2>1. ASSUME \/ SetCallbackIdle \/ \E p \in Packets : Call(p)
               \/ ToCheck \/ CheckTimeoutsEnd \/ AckCheck
               \/ CheckLastAckStep \/ CheckLastAckEnd \/ UNCHANGED sweep_vars
        PROVE  failed' = failed
    BY <2>1, Zenon DEF SetCallbackIdle, Call, ToCheck, CheckTimeoutsEnd, AckCheck,
                       CheckLastAckStep, CheckLastAckEnd, sweep_vars
  <2>. QED  BY <2>1, Zenon DEF SweepNext
<1>5. \A k : (IpProto[k] = "udp") \in BOOLEAN
  OBVIOUS
<1>. QED
  BY <1>1, <1>2, <1>3, <1>4, <1>5, Zenon

LEMMA NextFailed ==
    ASSUME SweepInv, FailedExportsRepeated, [SweepNext]_sweep_vars
    PROVE  FailedExportsRepeated'
<1>0. PacketInv /\ ControlInv /\ TypeInv
  BY DEF SweepInv, PacketInv
<1>. SUFFICES ASSUME NEW f \in failed'
              PROVE  Follows(f.id, f.key, f.pkts)'
  BY DEF FailedExportsRepeated, Follows
<1>3. PICK id, key, pkts : id = f.id /\ key = f.key /\ pkts = f.pkts
  OBVIOUS
<1>1. CASE f \notin failed
  <2>1. /\ UNCHANGED table_vars
        /\ f.key \in DOMAIN active_flows
        /\ f.id = active_flows[f.key].id /\ f.pkts = active_flows[f.key].pkts
    BY <1>0, <1>1, NewlyFailed
  <2>. QED  BY <2>1 DEF table_vars, Follows
<1>2. CASE f \in failed
  <2>1. Follows(id, key, pkts)
    BY <1>2, <1>3 DEF FailedExportsRepeated, Follows
  <2>2. ASSUME NEW p \in Packets, Call(p)
        PROVE  Follows(id, key, pkts)'
    <3>1. PICK table : Joins(p, table) /\ Leave(table, {}, {}, {})
      BY <1>0, <2>2, CallBegins
    <3>2. key \in DOMAIN active_flows =>
             /\ key \in DOMAIN table /\ table[key].id = active_flows[key].id
             /\ active_flows[key].pkts \subseteq table[key].pkts
      BY <3>1 DEF Joins
    <3>. QED  BY <2>1, <3>1, <3>2, FollowsOnward
  <2>3. ASSUME UNCHANGED table_vars
        PROVE  Follows(id, key, pkts)'
    <3>1. exported' = exported /\ deleted' = deleted /\ active_flows' = active_flows
      BY <2>3 DEF table_vars
    <3>. QED  BY <2>1, <3>1 DEF Follows
  <2>4. ASSUME NEW k, NEW complete, Evicts(k, complete)
        PROVE  Follows(id, key, pkts)'
    <3>1. PICK R : Leave(active_flows, {k}, {}, R)
      BY <2>4, EvictsLeave
    <3>. QED  BY <2>1, <3>1, FollowsOnward
  <2>5. ASSUME NEW k, Deletes(k)
        PROVE  Follows(id, key, pkts)'
    <3>1. Leave(active_flows, {}, {k}, {})
      BY <2>5, DeletesLeave
    <3>. QED  BY <2>1, <3>1, FollowsOnward
  <2>6. Follows(id, key, pkts)'
    <3>1. \/ \E p \in Packets : Call(p)
          \/ UNCHANGED table_vars
          \/ \E k, complete : Evicts(k, complete)
          \/ \E k : Deletes(k)
      BY <1>0, SweepCases, Zenon
    <3>. QED  BY <2>2, <2>3, <2>4, <2>5, <3>1, Zenon
  <2>. QED  BY <1>3, <2>6
<1>. QED
  BY <1>1, <1>2

\* Whatever calls are cut short, a record whose callback threw is of a flow that
\* is still in the table with all its packets, or was exported with them under
\* the same id later, or deleted.
THEOREM ThrownRepeated == SweepSpec => []FailedExportsRepeated
<1>. DEFINE I == SweepInv /\ FailedExportsRepeated
<1>1. SweepInit => I
  <2>1. SweepInit => FailedExportsRepeated
    BY DEF SweepInit, FailedExportsRepeated
  <2>. QED  BY <2>1, InitSweepInv
<1>2. I /\ [SweepNext]_sweep_vars => I'
  BY NextSweepInv, NextFailed
<1>3. I => FailedExportsRepeated
  OBVIOUS
<1>. QED
  BY <1>1, <1>2, <1>3, PTL DEF SweepSpec

-----------------------------------------------------------------------------
(***************************************************************************)
(* How far a call has come                                                 *)
(***************************************************************************)

\* The table with the packet of the running call in it, the flows that
\* add_packet evicts or deletes from it, and those of them that have left.
Joined == Atomic!LookupAndInsert(Pkt.key, Len(log))
Closed == CheckEvict(Pkt)
Due == Atomic!CheckTimeouts(log, Without(Joined, Closed), Pkt.ts)
LoneAcks ==
    IF Atomic!AckCheckDue(Pkt.ts)
    THEN CheckLastAck(log, Without(Joined, Closed \cup Due)) ELSE {}

GoneClosed == IF pc = "check_evict" THEN {} ELSE Closed
GoneDue ==
    CASE pc \in {"check_evict", "to_check"} -> {}
      [] pc = "timeouts" -> Due \ todo
      [] OTHER -> Due
GoneAcks == IF pc = "last_acks" THEN LoneAcks \ todo ELSE {}

\* In s, the flows in C and T are evicted and those in D deleted from what a
\* packet that is now in table made of b.
SoFar(s, b, table, ts, C, T, D) ==
    /\ s.active_flows = Without(table, (C \cup T) \cup D)
    /\ s.deleted = b.deleted \cup {Remains(table, k) : k \in D}
    /\ s.exported = b.exported
          \cup {Record(table, k, TRUE, ts) : k \in C}
          \cup {Record(table, k, IpProto[k] = "udp", ts) : k \in T}
    /\ s.n_packets = b.n_packets - Cardinality(Held(table, C \cup T))
                       - Cardinality(Held(table, D)) + 1
    /\ s.n_packets_processed = b.n_packets_processed + Cardinality(Held(table, C \cup T))
    /\ s.n_flows_processed = b.n_flows_processed + Cardinality(C \cup T)

\* What add_packet did at its begin, and what holds until it ends.
Begun ==
    /\ callback /\ log = Append(before.log, Pkt) /\ Pkt \in Packets
    /\ before.log \in Seq(Packets)
    /\ TableOK(Joined, log)
    /\ DOMAIN Joined = DOMAIN before.active_flows \cup {Pkt.key}
    /\ next_id = before.next_id + (IF Pkt.key \in DOMAIN before.active_flows THEN 0 ELSE 1)
    /\ n_flows = before.n_flows + (IF Pkt.key \in DOMAIN before.active_flows THEN 0 ELSE 1)
    /\ last_ack_check = before.last_ack_check
    /\ before.n_packets \in Int /\ before.n_packets_processed \in Int
    /\ before.n_flows_processed \in Int

\* Where the call stands.
Reached ==
    /\ pc = "timeouts" => Atomic!ToCheckDue(Pkt.ts)
    /\ pc = "last_acks" => Atomic!AckCheckDue(Pkt.ts)
    /\ last_to_check = IF pc \in {"ack_check", "last_acks"} /\ Atomic!ToCheckDue(Pkt.ts)
                       THEN Pkt.ts ELSE before.last_to_check
    /\ SoFar(State, before, Joined, Pkt.ts, GoneClosed, GoneDue, GoneAcks)

CallInv == pc # "idle" => Begun /\ Reached

\* Within a call, what it has to do is settled.
LEMMA SettledWithin ==
    ASSUME pc # "idle", pc' # "idle", before' = before, log' = log
    PROVE  /\ Pkt' = Pkt /\ Joined' = Joined /\ Closed' = Closed /\ Due' = Due
           /\ LoneAcks' = LoneAcks
           /\ Atomic!ToCheckDue(Pkt.ts)' = Atomic!ToCheckDue(Pkt.ts)
           /\ Atomic!AckCheckDue(Pkt.ts)' = Atomic!AckCheckDue(Pkt.ts)
<1>1. Seen' = Seen
  BY DEF Seen
<1>2. Pkt' = Pkt
  BY DEF Pkt
<1>3. Joined' = Joined
  BY <1>1, <1>2 DEF Joined, Atomic!LookupAndInsert
<1>4. Closed' = Closed
  BY <1>2 DEF Closed, CheckEvict
<1>5. /\ Atomic!ToCheckDue(Pkt.ts)' = Atomic!ToCheckDue(Pkt.ts)
      /\ Atomic!AckCheckDue(Pkt.ts)' = Atomic!AckCheckDue(Pkt.ts)
  BY <1>1, <1>2 DEF Atomic!ToCheckDue, Atomic!AckCheckDue
<1>6. Due' = Due
  BY <1>1, <1>2, <1>3, <1>4 DEF Due, Atomic!CheckTimeouts, Atomic!ToCheckDue
<1>7. LoneAcks' = LoneAcks
  BY <1>2, <1>3, <1>4, <1>5, <1>6 DEF LoneAcks
<1>. QED
  BY <1>2, <1>3, <1>4, <1>5, <1>6, <1>7

\* The operators of the table mean the same in its instance.
LEMMA SameCardinality ==
    ASSUME NEW S
    PROVE  Atomic!Cardinality(S) = Cardinality(S)
BY Zenon DEF Atomic!Cardinality, Cardinality

LEMMA SameMax ==
    ASSUME NEW S
    PROVE  Atomic!Max(S) = Max(S)
BY Zenon DEF Atomic!Max, Max

LEMMA SameTimeouts ==
    ASSUME NEW l, NEW k, NEW f, NEW ts
    PROVE  Atomic!TimedOut(l, k, f, ts) <=> TimedOut(l, k, f, ts)
<1>1. Atomic!LastPacket(l, f) = LastPacket(l, f)
  BY SameMax, Zenon DEF Atomic!LastPacket, LastPacket
<1>2. ASSUME NEW a, NEW b
      PROVE  Atomic!Sub(a, b) = Sub(a, b)
  BY Zenon DEF Atomic!Sub, Sub
<1>3. Atomic!Sub(ts, Atomic!LastPacket(l, f).ts) = Sub(ts, LastPacket(l, f).ts)
  BY <1>1, <1>2, Zenon
<1>4. Atomic!Cardinality(f.pkts) = Cardinality(f.pkts)
  BY SameCardinality
<1>. QED
  BY <1>3, <1>4, Zenon DEF Atomic!TimedOut, TimedOut

\* The flows that a call takes away are different flows of the table.
LEMMA Departures ==
    ASSUME Begun
    PROVE  /\ Closed \subseteq DOMAIN Joined
           /\ Due = {k \in DOMAIN Joined \ Closed :
                        Atomic!ToCheckDue(Pkt.ts) /\ TimedOut(log, k, Joined[k], Pkt.ts)}
           /\ LoneAcks = {k \in DOMAIN Joined \ (Closed \cup Due) :
                        Atomic!AckCheckDue(Pkt.ts) /\ IsLastAck(log, k, Joined[k])}
<1>1. Closed \subseteq DOMAIN Joined
  BY DEF Begun, Closed, CheckEvict
<1>2. ASSUME NEW t, NEW K
      PROVE  /\ Atomic!CheckTimeouts(log, Without(t, K), Pkt.ts) =
                   {k \in DOMAIN t \ K :
                      Atomic!ToCheckDue(Pkt.ts) /\ TimedOut(log, k, t[k], Pkt.ts)}
             /\ CheckLastAck(log, Without(t, K)) =
                   {k \in DOMAIN t \ K : IsLastAck(log, k, t[k])}
  BY SameTimeouts DEF Atomic!CheckTimeouts, CheckLastAck, Without
<1>3. Due = {k \in DOMAIN Joined \ Closed :
                Atomic!ToCheckDue(Pkt.ts) /\ TimedOut(log, k, Joined[k], Pkt.ts)}
  BY <1>2 DEF Due
<1>4. LoneAcks = {k \in DOMAIN Joined \ (Closed \cup Due) :
                Atomic!AckCheckDue(Pkt.ts) /\ IsLastAck(log, k, Joined[k])}
  BY <1>2 DEF LoneAcks
<1>. QED
  BY <1>1, <1>3, <1>4

\* One more flow's packets.
LEMMA HeldOneMore ==
    ASSUME NEW table, NEW l \in Seq(Packets), TableOK(table, l),
           NEW K \in SUBSET DOMAIN table, NEW k \in DOMAIN table \ K
    PROVE  /\ Cardinality(Held(table, K)) \in Nat /\ Cardinality(table[k].pkts) \in Nat
           /\ Cardinality(Held(table, K \cup {k})) =
                 Cardinality(Held(table, K)) + Cardinality(table[k].pkts)
           /\ IsFiniteSet(K) /\ Cardinality(K) \in Nat
           /\ Cardinality(K \cup {k}) = Cardinality(K) + 1
<1>1. {k} \in SUBSET DOMAIN table /\ K \cap {k} = {}
  OBVIOUS
<1>2. Held(table, {k}) = table[k].pkts
  BY DEF Held
<1>3. Held(table, K \cup {k}) = Held(table, K) \cup Held(table, {k})
  BY DEF Held
<1>4. /\ IsFiniteSet(Held(table, K)) /\ IsFiniteSet(Held(table, {k}))
      /\ Held(table, K) \cap Held(table, {k}) = {}
  BY <1>1, HeldBounded, HeldDisjoint
<1>5. /\ Cardinality(Held(table, K)) \in Nat /\ Cardinality(table[k].pkts) \in Nat
      /\ Cardinality(Held(table, K \cup {k})) =
            Cardinality(Held(table, K)) + Cardinality(table[k].pkts)
  BY <1>2, <1>3, <1>4, DisjointUnion
<1>6. IsFiniteSet(K)
  <2>1. K \in SUBSET Keys
    BY DEF TableOK
  <2>. QED  BY <2>1, KeyAssumption, FS_Subset
<1>. QED
  BY <1>5, <1>6, FS_AddElement, FS_CardinalityType

\* The arithmetic of one more.
LEMMA OneMore ==
    ASSUME NEW a \in Int, NEW x \in Int, NEW y \in Int, NEW c \in Int
    PROVE  /\ (a - x - y + 1) - c = a - (x + c) - y + 1
           /\ (a - x - y + 1) - c = a - x - (y + c) + 1
OBVIOUS

\* One more eviction.
LEMMA EvictMore ==
    ASSUME TypeInv, NEW b, NEW table, NEW ts, NEW C, NEW T, NEW D, SoFar(State, b, table, ts, C, T, D),
           b.n_packets \in Int, b.n_packets_processed \in Int, b.n_flows_processed \in Int,
           TableOK(table, log), C \cup T \subseteq DOMAIN table, D \subseteq DOMAIN table,
           NEW k \in DOMAIN active_flows, NEW complete, Evicts(k, complete), Pkt.ts = ts,
           NEW C2, NEW T2,
           \/ complete = TRUE /\ C2 = C \cup {k} /\ T2 = T
           \/ complete = (IpProto[k] = "udp") /\ C2 = C /\ T2 = T \cup {k}
    PROVE  SoFar(State', b, table, ts, C2, T2, D)
<1>. DEFINE E == C \cup T
            E2 == C2 \cup T2
<1>1. /\ active_flows = Without(table, E \cup D)
      /\ k \in DOMAIN table \ (E \cup D) /\ active_flows[k] = table[k]
      /\ E2 = E \cup {k} /\ k \in DOMAIN table \ E
  BY DEF SoFar, State, Without
<1>2. Record(active_flows, k, complete, ts) = Record(table, k, complete, ts)
  BY <1>1 DEF Record
<1>3. /\ active_flows' = Without(active_flows, {k} \cup {})
      /\ exported' = exported \cup {Record(table, k, complete, ts)}
      /\ deleted' = deleted \cup {Remains(active_flows, j) : j \in {}}
  BY <1>2 DEF Evicts, Account, Staying
<1>4. active_flows' = Without(table, E2 \cup D)
  BY <1>1, <1>3 DEF Without
<1>5. deleted' = b.deleted \cup {Remains(table, j) : j \in D}
  BY <1>3 DEF SoFar, State
<1>6. exported' = b.exported
        \cup {Record(table, j, TRUE, ts) : j \in C2}
        \cup {Record(table, j, IpProto[j] = "udp", ts) : j \in T2}
  <2>1. exported = b.exported
          \cup {Record(table, j, TRUE, ts) : j \in C}
          \cup {Record(table, j, IpProto[j] = "udp", ts) : j \in T}
    BY DEF SoFar, State
  <2>2. CASE complete = TRUE /\ C2 = C \cup {k} /\ T2 = T
    <3>1. {Record(table, j, TRUE, ts) : j \in C2} =
             {Record(table, j, TRUE, ts) : j \in C} \cup {Record(table, k, complete, ts)}
      BY <2>2
    <3>. QED  BY <1>3, <2>1, <2>2, <3>1, Zenon
  <2>3. CASE complete = (IpProto[k] = "udp") /\ C2 = C /\ T2 = T \cup {k}
    <3>1. {Record(table, j, IpProto[j] = "udp", ts) : j \in T2} =
             {Record(table, j, IpProto[j] = "udp", ts) : j \in T}
                \cup {Record(table, k, complete, ts)}
      BY <2>3
    <3>. QED  BY <1>3, <2>1, <2>3, <3>1, Zenon
  <2>. QED  BY <2>2, <2>3
<1>7. /\ n_packets' = n_packets - Cardinality(table[k].pkts)
      /\ n_packets_processed' = n_packets_processed + Cardinality(table[k].pkts)
      /\ n_flows_processed' = n_flows_processed + 1
  <2>1. n_packets \in Int /\ n_packets_processed \in Int /\ n_flows_processed \in Int
    BY DEF TypeInv, TypeOK
  <2>2. /\ Cardinality(Held(active_flows, {k})) = Cardinality(table[k].pkts)
        /\ Cardinality(Held(active_flows, {})) = 0
        /\ Cardinality(table[k].pkts) \in Nat
        /\ Cardinality({k}) = 1
    <3>1. /\ Held(active_flows, {k}) = active_flows[k].pkts
          /\ Held(active_flows, {}) = {}
          /\ Cardinality(active_flows[k].pkts) \in Nat
          /\ Cardinality({k}) = 1 /\ Cardinality({}) = 0
      BY HeldOne
    <3>. QED  BY <1>1, <3>1
  <2>3. /\ n_packets' = NPacketsLess(active_flows, {k}, {}) + 0
        /\ n_packets_processed' = NPacketsProcessedPlus(active_flows, {k})
        /\ n_flows_processed' = n_flows_processed + Cardinality({k})
    BY DEF Evicts, Account, NFlowsProcessedPlus
  <2>. QED  BY <2>1, <2>2, <2>3 DEF NPacketsLess, NPacketsProcessedPlus
<1>8. PICK l : l = log
  OBVIOUS
<1>9. /\ Cardinality(Held(table, E)) \in Nat /\ Cardinality(table[k].pkts) \in Nat
      /\ Cardinality(Held(table, E \cup {k})) =
            Cardinality(Held(table, E)) + Cardinality(table[k].pkts)
      /\ Cardinality(E) \in Nat /\ Cardinality(E \cup {k}) = Cardinality(E) + 1
      /\ Cardinality(Held(table, D)) \in Nat
  <2>1. l \in Seq(Packets) /\ TableOK(table, l)
    BY <1>8 DEF TypeInv, TypeOK
  <2>. HIDE DEF E
  <2>2. E \in SUBSET DOMAIN table
    BY DEF E
  <2>. QED  BY <1>1, <2>1, <2>2, HeldOneMore, HeldBounded
<1>. HIDE DEF E, E2
<1>12. /\ Cardinality(Held(table, E2)) =
             Cardinality(Held(table, E)) + Cardinality(table[k].pkts)
       /\ Cardinality(E2) = Cardinality(E) + 1
  BY <1>1, <1>9
<1>10. /\ n_packets = b.n_packets - Cardinality(Held(table, E))
                        - Cardinality(Held(table, D)) + 1
       /\ n_packets_processed = b.n_packets_processed + Cardinality(Held(table, E))
       /\ n_flows_processed = b.n_flows_processed + Cardinality(E)
  BY DEF SoFar, State, E
<1>11. /\ n_packets' = b.n_packets - Cardinality(Held(table, E2))
                         - Cardinality(Held(table, D)) + 1
       /\ n_packets_processed' = b.n_packets_processed + Cardinality(Held(table, E2))
       /\ n_flows_processed' = b.n_flows_processed + Cardinality(E2)
  <2>1. /\ Cardinality(Held(table, E)) \in Int /\ Cardinality(table[k].pkts) \in Int
        /\ Cardinality(E) \in Int /\ Cardinality(Held(table, D)) \in Int /\ 1 \in Int
    BY <1>9
  <2>2. n_packets' = (b.n_packets - Cardinality(Held(table, E))
                        - Cardinality(Held(table, D)) + 1) - Cardinality(table[k].pkts)
    BY <1>7, <1>10, Zenon
  <2>3. n_packets' = b.n_packets - (Cardinality(Held(table, E)) + Cardinality(table[k].pkts))
                        - Cardinality(Held(table, D)) + 1
    <3>1. PICK a, x, y, c : /\ a = b.n_packets /\ x = Cardinality(Held(table, E))
                            /\ y = Cardinality(Held(table, D))
                            /\ c = Cardinality(table[k].pkts)
      OBVIOUS
    <3>2. a \in Int /\ x \in Int /\ y \in Int /\ c \in Int
      BY <2>1, <3>1, Zenon
    <3>3. (a - x - y + 1) - c = a - (x + c) - y + 1
      BY <3>2, OneMore
    <3>. QED  BY <2>2, <3>1, <3>3, Zenon
  <2>4. n_packets_processed' = b.n_packets_processed
                        + (Cardinality(Held(table, E)) + Cardinality(table[k].pkts))
    BY <1>7, <1>10, <2>1
  <2>5. n_flows_processed' = b.n_flows_processed + (Cardinality(E) + 1)
    BY <1>7, <1>10, <2>1
  <2>. QED  BY <1>12, <2>3, <2>4, <2>5, Zenon
<1>. QED
  BY <1>4, <1>5, <1>6, <1>11 DEF SoFar, State, E2

\* One more deletion.
LEMMA DeleteMore ==
    ASSUME TypeInv, NEW b, NEW table, NEW ts, NEW C, NEW T, NEW D, SoFar(State, b, table, ts, C, T, D),
           b.n_packets \in Int, b.n_packets_processed \in Int, b.n_flows_processed \in Int,
           TableOK(table, log), C \cup T \subseteq DOMAIN table, D \subseteq DOMAIN table,
           NEW k \in DOMAIN active_flows, Deletes(k)
    PROVE  SoFar(State', b, table, ts, C, T, D \cup {k})
<1>. DEFINE E == C \cup T
            D2 == D \cup {k}
<1>1. /\ active_flows = Without(table, E \cup D)
      /\ k \in DOMAIN table \ (E \cup D) /\ active_flows[k] = table[k]
      /\ k \in DOMAIN table \ D
  BY DEF SoFar, State, Without
<1>2. Remains(active_flows, k) = Remains(table, k)
  BY <1>1 DEF Remains
<1>3. /\ active_flows' = Without(active_flows, {} \cup {k})
      /\ exported' = exported
      /\ deleted' = deleted \cup {Remains(table, k)}
  BY <1>2 DEF Deletes, Account, Staying
<1>4. active_flows' = Without(table, E \cup D2)
  BY <1>1, <1>3 DEF Without
<1>5. deleted' = b.deleted \cup {Remains(table, j) : j \in D2}
  BY <1>3 DEF SoFar, State
<1>7. /\ n_packets' = n_packets - Cardinality(table[k].pkts)
      /\ n_packets_processed' = n_packets_processed
      /\ n_flows_processed' = n_flows_processed
  <2>1. n_packets \in Int /\ n_packets_processed \in Int /\ n_flows_processed \in Int
    BY DEF TypeInv, TypeOK
  <2>2. /\ Cardinality(Held(active_flows, {k})) = Cardinality(table[k].pkts)
        /\ Cardinality(Held(active_flows, {})) = 0
        /\ Cardinality(table[k].pkts) \in Nat
        /\ Cardinality({}) = 0
    <3>1. /\ Held(active_flows, {k}) = active_flows[k].pkts
          /\ Held(active_flows, {}) = {}
          /\ Cardinality(active_flows[k].pkts) \in Nat
          /\ Cardinality({k}) = 1 /\ Cardinality({}) = 0
      BY HeldOne
    <3>. QED  BY <1>1, <3>1
  <2>3. /\ n_packets' = NPacketsLess(active_flows, {}, {k}) + 0
        /\ n_packets_processed' = NPacketsProcessedPlus(active_flows, {})
        /\ n_flows_processed' = n_flows_processed + Cardinality({})
    BY DEF Deletes, Account, NFlowsProcessedPlus
  <2>. QED  BY <2>1, <2>2, <2>3 DEF NPacketsLess, NPacketsProcessedPlus
<1>8. PICK l : l = log
  OBVIOUS
<1>9. /\ Cardinality(Held(table, D)) \in Nat /\ Cardinality(table[k].pkts) \in Nat
      /\ Cardinality(Held(table, D \cup {k})) =
            Cardinality(Held(table, D)) + Cardinality(table[k].pkts)
      /\ Cardinality(Held(table, E)) \in Nat
  <2>1. l \in Seq(Packets) /\ TableOK(table, l)
    BY <1>8 DEF TypeInv, TypeOK
  <2>. HIDE DEF E
  <2>2. E \in SUBSET DOMAIN table
    BY DEF E
  <2>. QED  BY <1>1, <2>1, <2>2, HeldOneMore, HeldBounded
<1>6. D2 = D \cup {k}
  OBVIOUS
<1>. HIDE DEF E, D2
<1>10. n_packets = b.n_packets - Cardinality(Held(table, E)) - Cardinality(Held(table, D)) + 1
  BY DEF SoFar, State, E
<1>11. n_packets' = b.n_packets - Cardinality(Held(table, E))
                       - Cardinality(Held(table, D2)) + 1
  <2>1. Cardinality(Held(table, D2)) =
           Cardinality(Held(table, D)) + Cardinality(table[k].pkts)
    BY <1>6, <1>9
  <2>2. /\ Cardinality(Held(table, E)) \in Int /\ Cardinality(table[k].pkts) \in Int
        /\ Cardinality(Held(table, D)) \in Int
    BY <1>9
  <2>3. PICK a, x, y, c : /\ a = b.n_packets /\ x = Cardinality(Held(table, E))
                          /\ y = Cardinality(Held(table, D))
                          /\ c = Cardinality(table[k].pkts)
    OBVIOUS
  <2>4. a \in Int /\ x \in Int /\ y \in Int /\ c \in Int
    BY <2>2, <2>3, Zenon
  <2>5. (a - x - y + 1) - c = a - x - (y + c) + 1
    BY <2>4, OneMore
  <2>. QED  BY <1>7, <1>10, <2>1, <2>3, <2>5, Zenon
<1>12. SoFar(State', b, table, ts, C, T, D2)
  BY <1>3, <1>4, <1>5, <1>7, <1>11 DEF SoFar, State, E
<1>. QED
  BY <1>12 DEF D2

LEMMA CallCallInv ==
    ASSUME SweepInv, NEW p \in Packets, Call(p)
    PROVE  CallInv'
<1>. DEFINE table == LookupAndInsert(p.key, Len(log) + 1)
<1>0. TypeInv /\ log \in Seq(Packets) /\ Len(log) \in Nat
  BY DEF SweepInv, PacketInv, TypeInv, TypeOK
<1>1. /\ pc = "idle" /\ pc' = "check_evict" /\ callback /\ callback' = callback
      /\ before' = State /\ log' = Append(log, p) /\ active_flows' = table
      /\ last_to_check' = last_to_check /\ last_ack_check' = last_ack_check
      /\ Len(log) < MaxPackets
      /\ exported' = exported /\ deleted' = deleted
  BY DEF Call
<1>2. Seen' = State /\ Pkt' = p /\ Len(log') = Len(log) + 1
  BY <1>0, <1>1 DEF Seen, Pkt
<1>3. /\ State.log = log /\ State.active_flows = active_flows /\ State.next_id = next_id
      /\ State.n_flows = n_flows /\ State.n_packets = n_packets
      /\ State.n_packets_processed = n_packets_processed
      /\ State.n_flows_processed = n_flows_processed
      /\ State.exported = exported /\ State.deleted = deleted
      /\ State.last_to_check = last_to_check /\ State.last_ack_check = last_ack_check
  BY DEF State
<1>4. Joined' = table
  BY <1>2, <1>3 DEF Joined, Atomic!LookupAndInsert, LookupAndInsert
<1>5. DOMAIN table = DOMAIN active_flows \cup {p.key} /\ TableOK(table, log')
  <2>1. Len(log) + 1 <= MaxPackets
    BY <1>0, <1>1, CountAssumption
  <2>. QED  BY <1>0, <1>1, <2>1, LookupAndInsertOK
<1>6. GoneClosed' = {} /\ GoneDue' = {} /\ GoneAcks' = {}
  BY <1>1 DEF GoneClosed, GoneDue, GoneAcks
<1>7. SoFar(State', State, table, p.ts, {}, {}, {})
  <2>1. Account(table, 1, {}, {})
    BY <1>0, CallBegins
  <2>. HIDE DEF table
  <2>2. /\ active_flows' = Without(table, {} \cup {})
        /\ n_packets' = NPacketsLess(table, {}, {}) + 1
        /\ n_packets_processed' = NPacketsProcessedPlus(table, {})
        /\ n_flows_processed' = n_flows_processed + Cardinality({})
    BY <2>1 DEF Account, Staying, NFlowsProcessedPlus
  <2>3. {} \cup {} = {}
    OBVIOUS
  <2>4. /\ State'.active_flows = active_flows' /\ State'.n_packets = n_packets'
        /\ State'.n_packets_processed = n_packets_processed'
        /\ State'.n_flows_processed = n_flows_processed'
        /\ State'.exported = exported' /\ State'.deleted = deleted'
    BY DEF State
  <2>5. /\ {Remains(table, k) : k \in {}} = {}
        /\ {Record(table, k, TRUE, p.ts) : k \in {}} = {}
        /\ {Record(table, k, IpProto[k] = "udp", p.ts) : k \in {}} = {}
    OBVIOUS
  <2>6. /\ State'.active_flows = Without(table, ({} \cup {}) \cup {})
        /\ State'.n_packets = State.n_packets - Cardinality(Held(table, {} \cup {}))
                                - Cardinality(Held(table, {})) + 1
        /\ State'.n_packets_processed =
              State.n_packets_processed + Cardinality(Held(table, {} \cup {}))
        /\ State'.n_flows_processed = State.n_flows_processed + Cardinality({} \cup {})
    BY <1>3, <2>2, <2>3, <2>4, Zenon DEF NPacketsLess, NPacketsProcessedPlus
  <2>7. /\ State'.deleted = State.deleted \cup {Remains(table, k) : k \in {}}
        /\ State'.exported = State.exported \cup {Record(table, k, TRUE, p.ts) : k \in {}}
              \cup {Record(table, k, IpProto[k] = "udp", p.ts) : k \in {}}
    BY <1>1, <1>3, <2>4, <2>5
  <2>. QED  BY <2>6, <2>7, Zenon DEF SoFar
<1>8. /\ n_packets \in Int /\ n_packets_processed \in Int /\ n_flows_processed \in Int
      /\ next_id \in Nat /\ n_flows \in Nat
  BY <1>0 DEF TypeInv, TypeOK
<1>. HIDE DEF table
<1>9. Reached'
  <2>1. SoFar(State', before', Joined', Pkt'.ts, GoneClosed', GoneDue', GoneAcks')
    BY <1>1, <1>2, <1>4, <1>6, <1>7, Zenon
  <2>2. last_to_check' = before'.last_to_check
    BY <1>1, <1>3
  <2>. QED  BY <1>1, <2>1, <2>2 DEF Reached
<1>10. Begun'
  <2>1. /\ callback' /\ log' = Append(before'.log, Pkt') /\ Pkt' \in Packets
        /\ before'.log \in Seq(Packets)
        /\ last_ack_check' = before'.last_ack_check
        /\ before'.n_packets \in Int /\ before'.n_packets_processed \in Int
        /\ before'.n_flows_processed \in Int
    BY <1>0, <1>1, <1>2, <1>3, <1>8
  <2>2. TableOK(Joined', log') /\ DOMAIN Joined' = DOMAIN before'.active_flows \cup {Pkt'.key}
    BY <1>1, <1>2, <1>3, <1>4, <1>5
  <2>3. /\ next_id' = before'.next_id
                        + (IF Pkt'.key \in DOMAIN before'.active_flows THEN 0 ELSE 1)
        /\ n_flows' = before'.n_flows
                        + (IF Pkt'.key \in DOMAIN before'.active_flows THEN 0 ELSE 1)
    <3>1. IF p.key \in DOMAIN active_flows
          THEN next_id' = next_id /\ n_flows' = n_flows
          ELSE next_id' = next_id + 1 /\ n_flows' = n_flows + 1
      BY DEF Call
    <3>. QED  BY <1>1, <1>2, <1>3, <1>8, <3>1
  <2>. QED  BY <2>1, <2>2, <2>3 DEF Begun
<1>. QED
  BY <1>9, <1>10 DEF CallInv

\* What a step within a call does not change of it.
LEMMA BegunStays ==
    ASSUME pc # "idle", pc' # "idle", Begun,
           UNCHANGED <<before, log, n_flows, next_id, last_ack_check, callback>>
    PROVE  Begun'
<1>1. Pkt' = Pkt /\ Joined' = Joined
  BY SettledWithin
<1>. QED
  BY <1>1 DEF Begun

LEMMA CheckEvictCallInv ==
    ASSUME SweepInv, CallInv, CheckEvictStep, pc' # "idle"
    PROVE  CallInv'
<1>0. TypeInv /\ ControlInv
  BY DEF SweepInv, PacketInv
<1>1. /\ pc = "check_evict"
      /\ UNCHANGED <<log, n_flows, next_id, last_to_check, last_ack_check, callback, before>>
  BY Zenon DEF CheckEvictStep
<1>2. Begun /\ Reached /\ Begun'
  BY <1>1, BegunStays DEF CallInv
<1>3. /\ Pkt' = Pkt /\ Joined' = Joined /\ Closed' = Closed
  BY <1>1, SettledWithin
<1>4. GoneClosed = {} /\ GoneDue = {} /\ GoneAcks = {}
  BY <1>1 DEF GoneClosed, GoneDue, GoneAcks
<1>5. PICK b, table, ts : b = before /\ table = Joined /\ ts = Pkt.ts
  OBVIOUS
<1>6. /\ SoFar(State, b, table, ts, {}, {}, {})
      /\ b.n_packets \in Int /\ b.n_packets_processed \in Int /\ b.n_flows_processed \in Int
      /\ TableOK(table, log)
  BY <1>2, <1>4, <1>5 DEF Reached, Begun
<1>7. pc' = "to_check" /\ SoFar(State', b, table, ts, Closed, {}, {})
  <2>1. CASE CheckEvict(Pkt) = {} /\ pc' = "to_check" /\ UNCHANGED <<table_vars, todo, failed>>
    <3>1. State' = State
      BY <1>1, <2>1 DEF State, table_vars
    <3>. QED  BY <1>6, <2>1, <3>1 DEF Closed
  <2>2. CASE CheckEvict(Pkt) # {} /\ EvictFlow(Pkt.key, TRUE, "to_check", {})
    <3>1. PICK k : k = Pkt.key
      OBVIOUS
    <3>2. k \in DOMAIN active_flows /\ TRUE \in BOOLEAN
      BY <1>0, <1>1, <3>1 DEF ControlInv
    <3>3. Evicts(k, TRUE) /\ pc' = "to_check"
      BY <1>0, <2>2, <3>1, <3>2, EvictFlowCases, Zenon
    <3>4. Closed = {k}
      BY <2>2, <3>1 DEF Closed, CheckEvict
    <3>5. {k} = {} \cup {k} /\ {} \cup {} \subseteq DOMAIN table /\ {} \subseteq DOMAIN table
      OBVIOUS
    <3>6. SoFar(State', b, table, ts, {k}, {}, {})
      BY <1>0, <1>5, <1>6, <3>2, <3>3, <3>5, EvictMore
    <3>. QED  BY <3>3, <3>4, <3>6
  <2>. QED  BY <2>1, <2>2, Zenon DEF CheckEvictStep
<1>8. GoneClosed' = Closed /\ GoneDue' = {} /\ GoneAcks' = {}
  BY <1>3, <1>7 DEF GoneClosed, GoneDue, GoneAcks
<1>9. SoFar(State', before', Joined', Pkt'.ts, GoneClosed', GoneDue', GoneAcks')
  BY <1>1, <1>3, <1>5, <1>7, <1>8, Zenon
<1>10. last_to_check' = before'.last_to_check
  BY <1>1, <1>2 DEF Reached
<1>. QED
  BY <1>2, <1>7, <1>9, <1>10 DEF CallInv, Reached

\* What is left to show of a step within a call.
LEMMA CallGoesOn ==
    ASSUME CallInv, pc # "idle", pc' # "idle",
           UNCHANGED <<before, log, n_flows, next_id, last_ack_check, callback>>,
           SoFar(State', before, Joined, Pkt.ts, GoneClosed', GoneDue', GoneAcks'),
           pc' = "timeouts" => Atomic!ToCheckDue(Pkt.ts),
           pc' = "last_acks" => Atomic!AckCheckDue(Pkt.ts),
           last_to_check' = IF pc' \in {"ack_check", "last_acks"} /\ Atomic!ToCheckDue(Pkt.ts)
                            THEN Pkt.ts ELSE before.last_to_check
    PROVE  CallInv'
<1>1. Begun'
  BY BegunStays DEF CallInv
<1>2. /\ Pkt' = Pkt /\ Joined' = Joined
      /\ Atomic!ToCheckDue(Pkt.ts)' = Atomic!ToCheckDue(Pkt.ts)
      /\ Atomic!AckCheckDue(Pkt.ts)' = Atomic!AckCheckDue(Pkt.ts)
  BY SettledWithin
<1>3. SoFar(State', before', Joined', Pkt'.ts, GoneClosed', GoneDue', GoneAcks')
  BY <1>2, Zenon
<1>4. Reached'
  BY <1>2, <1>3 DEF Reached
<1>. QED
  BY <1>1, <1>4 DEF CallInv

\* The checks that are due are those that were due when the call began.
LEMMA SameDue ==
    ASSUME CallInv, pc # "idle"
    PROVE  /\ pc = "to_check" => (ToCheckDue(Pkt.ts) <=> Atomic!ToCheckDue(Pkt.ts))
           /\ AckCheckDue(Pkt.ts) <=> Atomic!AckCheckDue(Pkt.ts)
<1>1. Seen = before
  BY DEF Seen
<1>2. last_ack_check = before.last_ack_check
  BY DEF CallInv, Begun
<1>3. pc = "to_check" => last_to_check = before.last_to_check
  BY DEF CallInv, Reached
<1>4. ASSUME NEW a, NEW b
      PROVE  Atomic!Sub(a, b) = Sub(a, b)
  BY Zenon DEF Atomic!Sub, Sub
<1>. QED
  BY <1>1, <1>2, <1>3, <1>4, Zenon
     DEF ToCheckDue, AckCheckDue, Atomic!ToCheckDue, Atomic!AckCheckDue

\* The flows that are left in the table.
LEMMA StillHere ==
    ASSUME CallInv, pc # "idle"
    PROVE  /\ DOMAIN active_flows = DOMAIN Joined \ ((GoneClosed \cup GoneDue) \cup GoneAcks)
           /\ \A k \in DOMAIN active_flows : active_flows[k] = Joined[k]
<1>1. active_flows = Without(Joined, (GoneClosed \cup GoneDue) \cup GoneAcks)
  BY DEF CallInv, Reached, SoFar, State
<1>. QED
  BY <1>1 DEF Without

LEMMA SoFarStays ==
    ASSUME UNCHANGED table_vars, NEW b, NEW table, NEW ts, NEW C, NEW T, NEW D,
           SoFar(State, b, table, ts, C, T, D)
    PROVE  SoFar(State', b, table, ts, C, T, D)
<1>1. /\ State'.active_flows = State.active_flows /\ State'.deleted = State.deleted
      /\ State'.exported = State.exported /\ State'.n_packets = State.n_packets
      /\ State'.n_packets_processed = State.n_packets_processed
      /\ State'.n_flows_processed = State.n_flows_processed
  BY DEF State, table_vars
<1>. QED
  BY <1>1, Zenon DEF SoFar

LEMMA ToCheckCallInv ==
    ASSUME SweepInv, CallInv, ToCheck
    PROVE  CallInv'
<1>1. pc = "to_check" /\ UNCHANGED <<vars, failed, before>>
  BY Zenon DEF ToCheck
<1>2. /\ UNCHANGED <<before, log, n_flows, next_id, last_ack_check, callback>>
      /\ UNCHANGED table_vars /\ last_to_check' = last_to_check
  BY <1>1 DEF vars, counters, table_vars
<1>3. /\ ToCheckDue(Pkt.ts) <=> Atomic!ToCheckDue(Pkt.ts)
      /\ Begun /\ last_to_check = before.last_to_check
      /\ SoFar(State, before, Joined, Pkt.ts, Closed, {}, {})
  BY <1>1, SameDue DEF CallInv, Reached, GoneClosed, GoneDue, GoneAcks
<1>4. SoFar(State', before, Joined, Pkt.ts, Closed, {}, {})
  BY <1>2, <1>3, SoFarStays
<1>5. DOMAIN active_flows = DOMAIN Joined \ Closed
  BY <1>1, StillHere DEF GoneClosed, GoneDue, GoneAcks
<1>6. ASSUME Atomic!ToCheckDue(Pkt.ts), pc' = "timeouts", todo' = DOMAIN active_flows
      PROVE  CallInv'
  <2>1. Closed' = Closed /\ Due' = Due
    BY <1>1, <1>2, <1>6, SettledWithin
  <2>2. Due \subseteq DOMAIN active_flows
    BY <1>3, <1>5, Departures
  <2>3. GoneClosed' = Closed /\ GoneDue' = {} /\ GoneAcks' = {}
    BY <1>6, <2>1, <2>2 DEF GoneClosed, GoneDue, GoneAcks
  <2>4. SoFar(State', before, Joined, Pkt.ts, GoneClosed', GoneDue', GoneAcks')
    BY <1>4, <2>3
  <2>. QED  BY <1>1, <1>2, <1>3, <1>6, <2>4, CallGoesOn
<1>7. ASSUME ~Atomic!ToCheckDue(Pkt.ts), pc' = "ack_check"
      PROVE  CallInv'
  <2>1. Closed' = Closed /\ Due' = Due
    BY <1>1, <1>2, <1>7, SettledWithin
  <2>2. Due = {}
    BY <1>3, <1>7, Departures
  <2>3. GoneClosed' = Closed /\ GoneDue' = {} /\ GoneAcks' = {}
    BY <1>7, <2>1, <2>2 DEF GoneClosed, GoneDue, GoneAcks
  <2>4. SoFar(State', before, Joined, Pkt.ts, GoneClosed', GoneDue', GoneAcks')
    BY <1>4, <2>3
  <2>. QED  BY <1>1, <1>2, <1>3, <1>7, <2>4, CallGoesOn
<1>. QED
  BY <1>3, <1>6, <1>7, Zenon DEF ToCheck

LEMMA CheckTimeoutsCallInv ==
    ASSUME SweepInv, CallInv, CheckTimeoutsStep, pc' # "idle"
    PROVE  CallInv'
<1>0. TypeInv /\ ControlInv
  BY DEF SweepInv, PacketInv
<1>1. /\ pc = "timeouts" /\ todo # {}
      /\ UNCHANGED <<log, n_flows, next_id, last_to_check, last_ack_check, callback, before>>
  BY Zenon DEF CheckTimeoutsStep
<1>2. /\ Begun /\ Atomic!ToCheckDue(Pkt.ts) /\ last_to_check = before.last_to_check
      /\ SoFar(State, before, Joined, Pkt.ts, Closed, Due \ todo, {})
  BY <1>1 DEF CallInv, Reached, GoneClosed, GoneDue, GoneAcks
<1>3. Closed' = Closed /\ Due' = Due
  BY <1>1, SettledWithin
<1>4. /\ DOMAIN active_flows = DOMAIN Joined \ (Closed \cup (Due \ todo))
      /\ \A k \in DOMAIN active_flows : active_flows[k] = Joined[k]
  BY <1>1, StillHere DEF GoneClosed, GoneDue, GoneAcks
<1>5. PICK b, table, ts, closed, due, gone :
          /\ b = before /\ table = Joined /\ ts = Pkt.ts
          /\ closed = Closed /\ due = Due /\ gone = Due \ todo
  OBVIOUS
<1>6. /\ SoFar(State, b, table, ts, closed, gone, {})
      /\ b.n_packets \in Int /\ b.n_packets_processed \in Int /\ b.n_flows_processed \in Int
      /\ TableOK(table, log)
  BY <1>2, <1>5 DEF Begun
<1>7. closed \cup gone \subseteq DOMAIN table /\ {} \subseteq DOMAIN table
  BY <1>2, <1>5, Departures
<1>8. PICK k : k = First(todo)
  OBVIOUS
<1>9. k \in todo /\ k \in DOMAIN active_flows
  BY <1>0, <1>1, <1>8, FirstIsThere DEF ControlInv, TypeInv, TypeOK
<1>10. k \in Due <=> TimedOut(log, k, active_flows[k], Pkt.ts)
  BY <1>2, <1>4, <1>9, Departures
<1>11. pc' = "timeouts" /\ SoFar(State', b, table, ts, closed, Due \ todo', {})
  <2>1. CASE /\ TimedOut(log, k, active_flows[k], Pkt.ts)
             /\ EvictFlow(k, IpProto[k] = "udp", pc, AfterErase(k))
    <3>1. (IpProto[k] = "udp") \in BOOLEAN
      OBVIOUS
    <3>2. /\ Evicts(k, IpProto[k] = "udp")
          /\ pc' = pc /\ todo' = AfterErase(k)
      BY <1>0, <1>9, <2>1, <3>1, EvictFlowCases, Zenon
    <3>3. Due \ todo' = gone \cup {k}
      BY <1>5, <1>9, <1>10, <2>1, <3>2 DEF AfterErase
    <3>4. SoFar(State', b, table, ts, closed, gone \cup {k}, {})
      BY <1>0, <1>5, <1>6, <1>7, <1>9, <3>2, EvictMore
    <3>. QED  BY <1>1, <3>2, <3>3, <3>4
  <2>2. CASE /\ ~TimedOut(log, k, active_flows[k], Pkt.ts)
             /\ todo' = AfterVisit(k) /\ UNCHANGED <<table_vars, pc, failed>>
    <3>1. Due \ todo' = gone
      BY <1>5, <1>9, <1>10, <2>2 DEF AfterVisit
    <3>2. UNCHANGED table_vars /\ pc' = pc
      BY <2>2
    <3>3. SoFar(State', b, table, ts, closed, gone, {})
      BY <1>6, <3>2, SoFarStays
    <3>. QED  BY <1>1, <3>1, <3>2, <3>3
  <2>. QED  BY <1>8, <2>1, <2>2, Zenon DEF CheckTimeoutsStep
<1>12. GoneClosed' = closed /\ GoneDue' = Due \ todo' /\ GoneAcks' = {}
  BY <1>3, <1>5, <1>11 DEF GoneClosed, GoneDue, GoneAcks
<1>13. SoFar(State', before, Joined, Pkt.ts, GoneClosed', GoneDue', GoneAcks')
  BY <1>5, <1>11, <1>12, Zenon
<1>. QED
  BY <1>1, <1>2, <1>11, <1>13, CallGoesOn

LEMMA CheckTimeoutsEndCallInv ==
    ASSUME SweepInv, CallInv, CheckTimeoutsEnd
    PROVE  CallInv'
<1>1. /\ pc = "timeouts" /\ todo = {} /\ pc' = "ack_check" /\ last_to_check' = Pkt.ts
      /\ UNCHANGED <<before, log, n_flows, next_id, last_ack_check, callback>>
      /\ UNCHANGED table_vars
  BY Zenon DEF CheckTimeoutsEnd
<1>2. /\ Begun /\ Atomic!ToCheckDue(Pkt.ts)
      /\ SoFar(State, before, Joined, Pkt.ts, Closed, Due \ {}, {})
  BY <1>1 DEF CallInv, Reached, GoneClosed, GoneDue, GoneAcks
<1>3. SoFar(State', before, Joined, Pkt.ts, Closed, Due \ {}, {})
  BY <1>1, <1>2, SoFarStays
<1>4. Closed' = Closed /\ Due' = Due
  BY <1>1, SettledWithin
<1>5. GoneClosed' = Closed /\ GoneDue' = Due \ {} /\ GoneAcks' = {}
  BY <1>1, <1>4 DEF GoneClosed, GoneDue, GoneAcks
<1>6. SoFar(State', before, Joined, Pkt.ts, GoneClosed', GoneDue', GoneAcks')
  BY <1>3, <1>5, Zenon
<1>. QED
  BY <1>1, <1>2, <1>6, CallGoesOn

LEMMA AckCheckCallInv ==
    ASSUME SweepInv, CallInv, AckCheck, pc' # "idle"
    PROVE  CallInv'
<1>1. pc = "ack_check" /\ UNCHANGED <<vars, failed, before>>
  BY Zenon DEF AckCheck
<1>2. /\ UNCHANGED <<before, log, n_flows, next_id, last_ack_check, callback>>
      /\ UNCHANGED table_vars /\ last_to_check' = last_to_check
  BY <1>1 DEF vars, counters, table_vars
<1>3. /\ Begun
      /\ last_to_check = IF Atomic!ToCheckDue(Pkt.ts) THEN Pkt.ts ELSE before.last_to_check
      /\ SoFar(State, before, Joined, Pkt.ts, Closed, Due, {})
  BY <1>1 DEF CallInv, Reached, GoneClosed, GoneDue, GoneAcks
<1>4. pc' = "last_acks" /\ todo' = DOMAIN active_flows /\ Atomic!AckCheckDue(Pkt.ts)
  BY <1>1, SameDue DEF AckCheck
<1>5. DOMAIN active_flows = DOMAIN Joined \ (Closed \cup Due)
  BY <1>1, StillHere DEF GoneClosed, GoneDue, GoneAcks
<1>6. Closed' = Closed /\ Due' = Due /\ LoneAcks' = LoneAcks
  BY <1>1, <1>2, <1>4, SettledWithin
<1>7. LoneAcks \subseteq DOMAIN active_flows
  BY <1>3, <1>5, Departures
<1>8. GoneClosed' = Closed /\ GoneDue' = Due /\ GoneAcks' = {}
  BY <1>4, <1>6, <1>7 DEF GoneClosed, GoneDue, GoneAcks
<1>9. SoFar(State', before, Joined, Pkt.ts, Closed, Due, {})
  BY <1>2, <1>3, SoFarStays
<1>10. SoFar(State', before, Joined, Pkt.ts, GoneClosed', GoneDue', GoneAcks')
  BY <1>8, <1>9, Zenon
<1>. QED
  BY <1>1, <1>2, <1>3, <1>4, <1>10, CallGoesOn

LEMMA CheckLastAckCallInv ==
    ASSUME SweepInv, CallInv, CheckLastAckStep
    PROVE  CallInv'
<1>0. TypeInv /\ ControlInv
  BY DEF SweepInv, PacketInv
<1>1. /\ pc = "last_acks" /\ pc' = pc /\ todo # {}
      /\ UNCHANGED <<log, n_flows, next_id, last_to_check, last_ack_check, callback, before>>
  BY Zenon DEF CheckLastAckStep
<1>2. /\ Begun /\ Atomic!AckCheckDue(Pkt.ts)
      /\ last_to_check = IF Atomic!ToCheckDue(Pkt.ts) THEN Pkt.ts ELSE before.last_to_check
      /\ SoFar(State, before, Joined, Pkt.ts, Closed, Due, LoneAcks \ todo)
  BY <1>1 DEF CallInv, Reached, GoneClosed, GoneDue, GoneAcks
<1>3. Closed' = Closed /\ Due' = Due /\ LoneAcks' = LoneAcks
  BY <1>1, SettledWithin
<1>4. /\ DOMAIN active_flows = DOMAIN Joined \ ((Closed \cup Due) \cup (LoneAcks \ todo))
      /\ \A k \in DOMAIN active_flows : active_flows[k] = Joined[k]
  BY <1>1, StillHere DEF GoneClosed, GoneDue, GoneAcks
<1>5. PICK b, table, ts, closed, due, gone :
          /\ b = before /\ table = Joined /\ ts = Pkt.ts
          /\ closed = Closed /\ due = Due /\ gone = LoneAcks \ todo
  OBVIOUS
<1>6. /\ SoFar(State, b, table, ts, closed, due, gone)
      /\ b.n_packets \in Int /\ b.n_packets_processed \in Int /\ b.n_flows_processed \in Int
      /\ TableOK(table, log)
  BY <1>2, <1>5 DEF Begun
<1>7. closed \cup due \subseteq DOMAIN table /\ gone \subseteq DOMAIN table
  BY <1>2, <1>5, Departures
<1>8. PICK k : k = First(todo)
  OBVIOUS
<1>9. k \in todo /\ k \in DOMAIN active_flows
  BY <1>0, <1>1, <1>8, FirstIsThere DEF ControlInv, TypeInv, TypeOK
<1>10. k \in LoneAcks <=> IsLastAck(log, k, active_flows[k])
  BY <1>2, <1>4, <1>9, Departures
<1>11. SoFar(State', b, table, ts, closed, due, LoneAcks \ todo')
  <2>1. CASE /\ IsLastAck(log, k, active_flows[k])
             /\ DeleteFlow(k) /\ todo' = AfterErase(k)
    <3>1. Deletes(k)
      BY <1>0, <1>9, <2>1, DeleteFlowDeletes
    <3>2. LoneAcks \ todo' = gone \cup {k}
      BY <1>5, <1>9, <1>10, <2>1 DEF AfterErase
    <3>3. SoFar(State', b, table, ts, closed, due, gone \cup {k})
      BY <1>0, <1>6, <1>7, <1>9, <3>1, DeleteMore
    <3>. QED  BY <3>2, <3>3
  <2>2. CASE /\ ~IsLastAck(log, k, active_flows[k])
             /\ todo' = AfterVisit(k) /\ UNCHANGED table_vars
    <3>1. LoneAcks \ todo' = gone
      BY <1>5, <1>9, <1>10, <2>2 DEF AfterVisit
    <3>2. SoFar(State', b, table, ts, closed, due, gone)
      BY <1>6, <2>2, SoFarStays
    <3>. QED  BY <3>1, <3>2
  <2>. QED  BY <1>8, <2>1, <2>2, Zenon DEF CheckLastAckStep
<1>12. GoneClosed' = closed /\ GoneDue' = due /\ GoneAcks' = LoneAcks \ todo'
  BY <1>1, <1>3, <1>5 DEF GoneClosed, GoneDue, GoneAcks
<1>13. SoFar(State', before, Joined, Pkt.ts, GoneClosed', GoneDue', GoneAcks')
  BY <1>5, <1>11, <1>12, Zenon
<1>. QED
  BY <1>1, <1>2, <1>13, CallGoesOn

LEMMA NextCallInv == SweepInv /\ CallInv /\ [SweepNext]_sweep_vars => CallInv'
<1>. SUFFICES ASSUME SweepInv, CallInv, [SweepNext]_sweep_vars, pc' # "idle"
              PROVE  CallInv'
  BY DEF CallInv
<1>1. ASSUME UNCHANGED sweep_vars
      PROVE  CallInv'
  <2>1. /\ UNCHANGED <<before, log, n_flows, next_id, last_ack_check, callback>>
        /\ UNCHANGED table_vars /\ last_to_check' = last_to_check
        /\ pc' = pc /\ todo' = todo
    BY <1>1 DEF sweep_vars, vars, counters, table_vars
  <2>2. /\ Closed' = Closed /\ Due' = Due /\ LoneAcks' = LoneAcks
    BY <2>1, SettledWithin
  <2>3. GoneClosed' = GoneClosed /\ GoneDue' = GoneDue /\ GoneAcks' = GoneAcks
    BY <2>1, <2>2 DEF GoneClosed, GoneDue, GoneAcks
  <2>4. /\ SoFar(State, before, Joined, Pkt.ts, GoneClosed, GoneDue, GoneAcks)
        /\ pc = "timeouts" => Atomic!ToCheckDue(Pkt.ts)
        /\ pc = "last_acks" => Atomic!AckCheckDue(Pkt.ts)
        /\ last_to_check = IF pc \in {"ack_check", "last_acks"} /\ Atomic!ToCheckDue(Pkt.ts)
                           THEN Pkt.ts ELSE before.last_to_check
    BY <2>1 DEF CallInv, Reached
  <2>5. SoFar(State', before, Joined, Pkt.ts, GoneClosed, GoneDue, GoneAcks)
    BY <2>1, <2>4, SoFarStays
  <2>6. SoFar(State', before, Joined, Pkt.ts, GoneClosed', GoneDue', GoneAcks')
    BY <2>3, <2>5, Zenon
  <2>. QED  BY <2>1, <2>4, <2>6, CallGoesOn
<1>2. ASSUME SetCallbackIdle
      PROVE  FALSE
  BY <1>2 DEF SetCallbackIdle
<1>3. ASSUME CheckLastAckEnd
      PROVE  FALSE
  BY <1>3 DEF CheckLastAckEnd
<1>. QED
  BY <1>1, <1>2, <1>3, CallCallInv, CheckEvictCallInv, ToCheckCallInv, CheckTimeoutsCallInv,
     CheckTimeoutsEndCallInv, AckCheckCallInv, CheckLastAckCallInv, Zenon DEF SweepNext

LEMMA InitCallInv == SweepInit => CallInv
BY DEF SweepInit, CallInv

-----------------------------------------------------------------------------
\* _last_to_check_s moves only at the end of _check_timeouts, when every flow
\* that is still in the table was found not to be due.
LEMMA CheckIsClean ==
    ASSUME SweepInv, CallInv, [SweepNext]_sweep_vars, last_to_check' # last_to_check
    PROVE  \A k \in DOMAIN active_flows' :
              ~TimedOut(log, k, active_flows'[k], last_to_check')
<1>1. CheckTimeoutsEnd
  <2>1. ASSUME \/ SetCallbackIdle \/ \E p \in Packets : Call(p)
               \/ CheckEvictStep \/ ToCheck \/ CheckTimeoutsStep \/ AckCheck
               \/ CheckLastAckStep \/ CheckLastAckEnd \/ UNCHANGED sweep_vars
        PROVE  last_to_check' = last_to_check
    BY <2>1, Zenon DEF SetCallbackIdle, SetCallback, Call, CheckEvictStep, ToCheck,
                       CheckTimeoutsStep, AckCheck, CheckLastAckStep, CheckLastAckEnd,
                       sweep_vars, vars
  <2>. QED  BY <2>1, Zenon DEF SweepNext
<1>2. /\ pc = "timeouts" /\ todo = {} /\ last_to_check' = Pkt.ts
      /\ active_flows' = active_flows
  BY <1>1 DEF CheckTimeoutsEnd, table_vars
<1>3. Begun /\ Atomic!ToCheckDue(Pkt.ts)
  BY <1>2 DEF CallInv, Reached
<1>4. /\ DOMAIN active_flows = DOMAIN Joined \ (Closed \cup Due)
      /\ \A k \in DOMAIN active_flows : active_flows[k] = Joined[k]
  BY <1>2, StillHere DEF GoneClosed, GoneDue, GoneAcks
<1>5. \A k \in DOMAIN active_flows : ~TimedOut(log, k, active_flows[k], Pkt.ts)
  BY <1>3, <1>4, Departures
<1>. QED
  BY <1>2, <1>5

\* Whatever calls are cut short, the check time moves on only when no flow in
\* the table is due, so what an exception left behind is checked again.
THEOREM ChecksAreClean == SweepSpec => CheckedMeansClean
<1>. DEFINE I == SweepInv /\ CallInv
            Clean == last_to_check' # last_to_check =>
                        \A k \in DOMAIN active_flows' :
                           ~TimedOut(log, k, active_flows'[k], last_to_check')
<1>1. SweepInit => I
  BY InitSweepInv, InitCallInv
<1>2. I /\ [SweepNext]_sweep_vars => I'
  BY NextSweepInv, NextCallInv
<1>3. I /\ [SweepNext]_sweep_vars => [Clean]_sweep_vars
  BY CheckIsClean
<1>4. SweepSpec => [][Clean]_sweep_vars
  <2>. HIDE DEF I, Clean
  <2>. QED  BY <1>1, <1>2, <1>3, PTL DEF SweepSpec
<1>. QED
  BY <1>4 DEF CheckedMeansClean

-----------------------------------------------------------------------------
(***************************************************************************)
(* A whole call is an atomic one                                           *)
(***************************************************************************)

LEMMA SameTables ==
    ASSUME NEW table, NEW K, NEW k, NEW complete, NEW ts
    PROVE  /\ Atomic!Without(table, K) = Without(table, K)
           /\ Atomic!Held(table, K) = Held(table, K)
           /\ Atomic!Record(table, k, complete, ts) = Record(table, k, complete, ts)
           /\ Atomic!Remains(table, k) = Remains(table, k)
<1>1. Atomic!Without(table, K) = Without(table, K)
  BY DEF Atomic!Without, Without
<1>2. Atomic!Held(table, K) = Held(table, K)
  BY DEF Atomic!Held, Held
<1>3. Atomic!Record(table, k, complete, ts) = Record(table, k, complete, ts)
  BY DEF Atomic!Record, Record
<1>4. Atomic!Remains(table, k) = Remains(table, k)
  BY DEF Atomic!Remains, Remains
<1>. QED
  BY <1>1, <1>2, <1>3, <1>4

LEMMA SameChecks ==
    ASSUME NEW p, NEW l, NEW table
    PROVE  /\ Atomic!CheckEvict(p) = CheckEvict(p)
           /\ Atomic!CheckLastAck(l, table) = CheckLastAck(l, table)
<1>1. Atomic!CheckEvict(p) = CheckEvict(p)
  BY DEF Atomic!CheckEvict, CheckEvict
<1>2. ASSUME NEW k, NEW f
      PROVE  Atomic!IsLastAck(l, k, f) <=> IsLastAck(l, k, f)
  BY SameMax, SameCardinality, Zenon
     DEF Atomic!IsLastAck, IsLastAck, Atomic!LastPacket, LastPacket
<1>3. Atomic!CheckLastAck(l, table) = CheckLastAck(l, table)
  BY <1>2 DEF Atomic!CheckLastAck, CheckLastAck
<1>. QED
  BY <1>1, <1>3

\* What the steps made of the table is what the atomic call makes of it.
LEMMA SameAccount ==
    ASSUME pc # "idle", pc' = "idle",
           NEW table, NEW ts, NEW C, NEW T, NEW D,
           before.n_packets \in Int,
           Cardinality(Held(table, C \cup T)) \in Nat, Cardinality(Held(table, D)) \in Nat,
           SoFar(State', before, table, ts, C, T, D)
    PROVE  Atomic!Account(table, 1, C \cup T, D)
<1>1. Seen = before /\ Seen' = State'
  BY DEF Seen
<1>2. Seen'.active_flows = Atomic!Staying(table, C \cup T, D)
  BY <1>1, SameTables, Zenon DEF SoFar, Atomic!Staying
<1>3. Seen'.deleted = Seen.deleted \cup {Atomic!Remains(table, k) : k \in D}
  BY <1>1, SameTables DEF SoFar
<1>4. Seen'.n_packets = Atomic!NPacketsLess(table, C \cup T, D) + 1
  <2>1. PICK n, h, d : /\ n = before.n_packets /\ h = Cardinality(Held(table, C \cup T))
                       /\ d = Cardinality(Held(table, D))
    OBVIOUS
  <2>2. Atomic!NPacketsLess(table, C \cup T, D) = n - h - d
    BY <1>1, <2>1, SameTables, SameCardinality, Zenon DEF Atomic!NPacketsLess
  <2>3. Seen'.n_packets = n - h - d + 1
    BY <1>1, <2>1, Zenon DEF SoFar
  <2>. QED  BY <2>2, <2>3, Zenon
<1>5. Seen'.n_packets_processed = Atomic!NPacketsProcessedPlus(table, C \cup T)
  BY <1>1, SameTables, SameCardinality, Zenon DEF SoFar, Atomic!NPacketsProcessedPlus
<1>6. Seen'.n_flows_processed = Atomic!NFlowsProcessedPlus(C \cup T, D)
  BY <1>1, SameCardinality, Zenon DEF SoFar, Atomic!NFlowsProcessedPlus
<1>. QED
  BY <1>2, <1>3, <1>4, <1>5, <1>6 DEF Atomic!Account

\* A call that ends when everything it has to do is done.
LEMMA CallIsAtomic ==
    ASSUME SweepInv, CallInv, pc # "idle", pc' = "idle",
           UNCHANGED <<log, n_flows, next_id, callback>>,
           SoFar(State', before, Joined, Pkt.ts, Closed, Due, LoneAcks),
           last_to_check' = IF Atomic!ToCheckDue(Pkt.ts) THEN Pkt.ts
                            ELSE before.last_to_check,
           last_ack_check' = IF Atomic!AckCheckDue(Pkt.ts) THEN Pkt.ts
                             ELSE before.last_ack_check
    PROVE  Atomic!AddPacket(Pkt)
<1>1. Seen = before /\ Seen' = State' /\ Begun
  BY DEF Seen, CallInv
<1>2. /\ State'.log = log /\ State'.next_id = next_id /\ State'.n_flows = n_flows
      /\ State'.last_to_check = last_to_check' /\ State'.last_ack_check = last_ack_check'
  BY DEF State
<1>3. /\ Len(before.log) + 1 = Len(log) /\ Append(before.log, Pkt) = log
      /\ Len(log) <= MaxPackets
  <2>1. before.log \in Seq(Packets) /\ Pkt \in Packets /\ log = Append(before.log, Pkt)
    BY <1>1 DEF Begun
  <2>2. Len(log) <= MaxPackets
    BY DEF SweepInv, PacketInv, TypeInv, TypeOK
  <2>3. Len(Append(before.log, Pkt)) = Len(before.log) + 1
    BY <2>1
  <2>. QED  BY <2>1, <2>2, <2>3, Zenon
<1>4. /\ Atomic!LookupAndInsert(Pkt.key, Len(before.log) + 1) = Joined
      /\ Atomic!CheckEvict(Pkt) = Closed
      /\ Atomic!CheckTimeouts(log, Atomic!Without(Joined, Closed), Pkt.ts) = Due
      /\ (IF Atomic!AckCheckDue(Pkt.ts)
          THEN Atomic!CheckLastAck(log, Atomic!Without(Joined, Closed \cup Due))
          ELSE {}) = LoneAcks
  BY <1>3, SameTables, SameChecks, Zenon DEF Joined, Closed, Due, LoneAcks
<1>5. /\ Cardinality(Held(Joined, Closed \cup Due)) \in Nat
      /\ Cardinality(Held(Joined, LoneAcks)) \in Nat
  <2>1. /\ Closed \cup Due \in SUBSET DOMAIN Joined /\ LoneAcks \in SUBSET DOMAIN Joined
    BY <1>1, Departures
  <2>2. TableOK(Joined, log) /\ log \in Seq(Packets)
    BY <1>1 DEF Begun, SweepInv, PacketInv, TypeInv, TypeOK
  <2>3. IsFiniteSet(Held(Joined, Closed \cup Due)) /\ IsFiniteSet(Held(Joined, LoneAcks))
    BY <2>1, <2>2, HeldBounded
  <2>. QED  BY <2>3, FS_CardinalityType
<1>6. /\ Atomic!Account(Joined, 1, Closed \cup Due, LoneAcks)
      /\ Seen'.exported = (Seen.exported
            \cup {Atomic!Record(Joined, k, TRUE, Pkt.ts) : k \in Closed})
            \cup {Atomic!Record(Joined, k, IpProto[k] = "udp", Pkt.ts) : k \in Due}
  <2>1. PICK table, ts, C, T, D : /\ table = Joined /\ ts = Pkt.ts
                                  /\ C = Closed /\ T = Due /\ D = LoneAcks
    OBVIOUS
  <2>2. before.n_packets \in Int
    BY <1>1 DEF Begun
  <2>3. /\ Cardinality(Held(table, C \cup T)) \in Nat
        /\ Cardinality(Held(table, D)) \in Nat
    BY <1>5, <2>1
  <2>4. SoFar(State', before, table, ts, C, T, D)
    BY <2>1, Zenon
  <2>5. Atomic!Account(table, 1, C \cup T, D)
    BY <2>2, <2>3, <2>4, SameAccount, Zenon
  <2>6. Seen'.exported = (Seen.exported
            \cup {Atomic!Record(table, k, TRUE, ts) : k \in C})
            \cup {Atomic!Record(table, k, IpProto[k] = "udp", ts) : k \in T}
    BY <1>1, <2>4, Zenon DEF SoFar, Atomic!Record, Record
  <2>. QED  BY <2>1, <2>5, <2>6
<1>7. /\ Seen'.next_id = Seen.next_id
            + (IF Pkt.key \in DOMAIN Seen.active_flows THEN 0 ELSE 1)
      /\ Seen'.n_flows = Seen.n_flows
            + (IF Pkt.key \in DOMAIN Seen.active_flows THEN 0 ELSE 1)
      /\ callback
  BY <1>1, <1>2, Zenon DEF Begun
<1>8. /\ Seen'.log = Append(Seen.log, Pkt)
      /\ Len(Seen.log) + 1 <= MaxPackets
      /\ Seen'.last_to_check = IF Atomic!ToCheckDue(Pkt.ts) THEN Pkt.ts
                               ELSE Seen.last_to_check
      /\ Seen'.last_ack_check = IF Atomic!AckCheckDue(Pkt.ts) THEN Pkt.ts
                                ELSE Seen.last_ack_check
  BY <1>1, <1>2, <1>3
<1>. DEFINE table     == Atomic!LookupAndInsert(Pkt.key, Len(Seen.log) + 1)
            closed    == Atomic!CheckEvict(Pkt)
            timed_out == Atomic!CheckTimeouts(Append(Seen.log, Pkt),
                                              Atomic!Without(table, closed), Pkt.ts)
            acks      == IF Atomic!AckCheckDue(Pkt.ts)
                         THEN Atomic!CheckLastAck(Append(Seen.log, Pkt),
                                 Atomic!Without(table, closed \cup timed_out))
                         ELSE {}
<1>9. table = Joined /\ closed = Closed /\ Append(Seen.log, Pkt) = log
  BY <1>1, <1>3, <1>4
<1>10. timed_out = Due
  BY <1>4, <1>9, Zenon
<1>11. acks = LoneAcks
  BY <1>4, <1>9, <1>10, Zenon
<1>12. /\ Atomic!Account(table, 1, closed \cup timed_out, acks)
       /\ Seen'.exported = (Seen.exported
             \cup {Atomic!Record(table, k, TRUE, Pkt.ts) : k \in closed})
             \cup {Atomic!Record(table, k, IpProto[k] = "udp", Pkt.ts) : k \in timed_out}
  <2>. HIDE DEF table, closed, timed_out, acks
  <2>. QED  BY <1>6, <1>9, <1>10, <1>11, Zenon
<1>. QED
  BY <1>7, <1>8, <1>12, Zenon DEF Atomic!AddPacket

\* A call begins or a callback is set: nothing to see, or the same atomic step.
LEMMA IdleStepIsAtomic ==
    ASSUME pc = "idle", SweepNext
    PROVE  (\E set \in BOOLEAN : Atomic!SetCallback(set)) \/ UNCHANGED Atomic!vars
<1>1. Seen = State
  BY DEF Seen
<1>2. ASSUME SetCallbackIdle
      PROVE  \E set \in BOOLEAN : Atomic!SetCallback(set)
  <2>0. PICK set \in BOOLEAN : SetCallback(set)
    BY <1>2, Zenon DEF SetCallbackIdle
  <2>1. /\ callback' = set /\ pc' = "idle"
        /\ UNCHANGED <<log, active_flows, exported, deleted, counters, next_id,
                       last_to_check, last_ack_check>>
    BY <1>2, <2>0 DEF SetCallbackIdle, SetCallback
  <2>2. Seen' = Seen
    BY <1>1, <2>1 DEF Seen, State, counters
  <2>3. Atomic!SetCallback(set)
    BY <2>1, <2>2 DEF Atomic!SetCallback, Atomic!counters
  <2>. QED  BY <2>3
<1>3. ASSUME NEW p \in Packets, Call(p)
      PROVE  UNCHANGED Atomic!vars
  <2>1. pc' = "check_evict" /\ before' = State /\ callback' = callback
    BY <1>3 DEF Call
  <2>2. Seen' = Seen
    BY <1>1, <2>1 DEF Seen
  <2>. QED  BY <2>1, <2>2 DEF Atomic!vars, Atomic!counters
<1>4. ASSUME \/ CheckEvictStep \/ ToCheck \/ CheckTimeoutsStep \/ CheckTimeoutsEnd
             \/ AckCheck \/ CheckLastAckStep \/ CheckLastAckEnd
      PROVE  FALSE
  BY <1>4, Zenon DEF CheckEvictStep, ToCheck, CheckTimeoutsStep, CheckTimeoutsEnd,
                     AckCheck, CheckLastAckStep, CheckLastAckEnd
<1>. QED
  BY <1>2, <1>3, <1>4, Zenon DEF SweepNext

\* The steps with which a call ends without an exception.
LEMMA EndIsAtomic ==
    ASSUME SweepInv, CallInv, AckCheck \/ CheckLastAckEnd, pc' = "idle"
    PROVE  Atomic!AddPacket(Pkt)
<1>1. ASSUME AckCheck
      PROVE  Atomic!AddPacket(Pkt)
  <2>1. pc = "ack_check" /\ UNCHANGED vars
    BY <1>1, Zenon DEF AckCheck
  <2>2. /\ UNCHANGED <<log, n_flows, next_id, callback>> /\ UNCHANGED table_vars
        /\ last_to_check' = last_to_check /\ last_ack_check' = last_ack_check
    BY <2>1 DEF vars, counters, table_vars
  <2>3. ~Atomic!AckCheckDue(Pkt.ts)
    BY <1>1, <2>1, SameDue DEF AckCheck
  <2>4. /\ Begun
        /\ last_to_check = IF Atomic!ToCheckDue(Pkt.ts) THEN Pkt.ts ELSE before.last_to_check
        /\ SoFar(State, before, Joined, Pkt.ts, Closed, Due, {})
        /\ last_ack_check = before.last_ack_check
    BY <2>1 DEF CallInv, Begun, Reached, GoneClosed, GoneDue, GoneAcks
  <2>5. LoneAcks = {}
    BY <2>3 DEF LoneAcks
  <2>6. SoFar(State', before, Joined, Pkt.ts, Closed, Due, LoneAcks)
    BY <2>2, <2>4, <2>5, SoFarStays
  <2>. QED  BY <2>1, <2>2, <2>3, <2>4, <2>6, CallIsAtomic
<1>2. ASSUME CheckLastAckEnd
      PROVE  Atomic!AddPacket(Pkt)
  <2>1. /\ pc = "last_acks" /\ todo = {} /\ last_ack_check' = Pkt.ts
        /\ UNCHANGED <<log, n_flows, next_id, callback>> /\ UNCHANGED table_vars
        /\ last_to_check' = last_to_check
    BY <1>2, Zenon DEF CheckLastAckEnd
  <2>2. /\ Atomic!AckCheckDue(Pkt.ts)
        /\ last_to_check = IF Atomic!ToCheckDue(Pkt.ts) THEN Pkt.ts ELSE before.last_to_check
        /\ SoFar(State, before, Joined, Pkt.ts, Closed, Due, LoneAcks \ {})
    BY <2>1 DEF CallInv, Reached, GoneClosed, GoneDue, GoneAcks
  <2>3. SoFar(State', before, Joined, Pkt.ts, Closed, Due, LoneAcks)
    BY <2>1, <2>2, SoFarStays
  <2>. QED  BY <2>1, <2>2, <2>3, CallIsAtomic
<1>. QED
  BY <1>1, <1>2

LEMMA StepIsAtomic ==
    ASSUME SweepInv, CallInv, [SweepNext]_sweep_vars
    PROVE  CutShort \/ Atomic!CaptureNext \/ UNCHANGED Atomic!vars
<1>1. ASSUME UNCHANGED sweep_vars
      PROVE  UNCHANGED Atomic!vars
  <2>1. UNCHANGED <<pc, before, State, callback>>
    BY <1>1 DEF sweep_vars, vars, counters, State
  <2>2. Seen' = Seen /\ callback' = callback
    BY <2>1 DEF Seen
  <2>. QED  BY <2>2 DEF Atomic!vars, Atomic!counters
<1>2. ASSUME pc = "idle", SweepNext
      PROVE  Atomic!CaptureNext \/ UNCHANGED Atomic!vars
  BY <1>2, IdleStepIsAtomic DEF Atomic!CaptureNext
<1>3. ASSUME pc # "idle", SweepNext
      PROVE  UNCHANGED <<before, callback>>
  BY <1>3, Zenon DEF SweepNext, SetCallbackIdle, Call, CheckEvictStep, ToCheck,
        CheckTimeoutsStep, CheckTimeoutsEnd, AckCheck, CheckLastAckStep, CheckLastAckEnd, vars
<1>4. ASSUME pc # "idle", SweepNext, pc' # "idle"
      PROVE  UNCHANGED Atomic!vars
  <2>1. Seen' = Seen /\ callback' = callback
    BY <1>3, <1>4 DEF Seen
  <2>. QED  BY <2>1 DEF Atomic!vars, Atomic!counters
<1>5. ASSUME pc # "idle", SweepNext, pc' = "idle"
      PROVE  CutShort \/ Atomic!CaptureNext
  <2>1. ASSUME CheckEvictStep \/ CheckTimeoutsStep
        PROVE  CutShort
    BY <1>5, <2>1, Zenon DEF CheckEvictStep, CheckTimeoutsStep, CutShort
  <2>2. ASSUME AckCheck \/ CheckLastAckEnd
        PROVE  Atomic!CaptureNext
    <3>1. Atomic!AddPacket(Pkt)
      BY <1>5, <2>2, EndIsAtomic
    <3>2. Pkt \in Atomic!Packets
      <4>1. Pkt \in Packets
        BY <1>5 DEF CallInv, Begun
      <4>. QED  BY <4>1 DEF Packets, Atomic!Packets
    <3>. QED  BY <3>1, <3>2, Zenon DEF Atomic!CaptureNext
  <2>3. ASSUME ToCheck \/ CheckTimeoutsEnd \/ CheckLastAckStep
        PROVE  FALSE
    BY <1>5, <2>3 DEF ToCheck, CheckTimeoutsEnd, CheckLastAckStep
  <2>4. ASSUME SetCallbackIdle \/ \E p \in Packets : Call(p)
        PROVE  FALSE
    BY <1>5, <2>4, Zenon DEF SetCallbackIdle, Call
  <2>. QED  BY <1>5, <2>1, <2>2, <2>3, <2>4, Zenon DEF SweepNext
<1>. QED
  BY <1>1, <1>2, <1>4, <1>5

\* The iterator steps of a call in which no callback throws amount to the
\* atomic AddPacket, from whatever table earlier exceptions have left.
THEOREM SweepIsAtomic == SweepSpec => RefinesFlowTable
<1>. DEFINE I == SweepInv /\ CallInv
            Step == CutShort \/ Atomic!CaptureNext
<1>1. SweepInit => I
  BY InitSweepInv, InitCallInv
<1>2. I /\ [SweepNext]_sweep_vars => I'
  BY NextSweepInv, NextCallInv
<1>3. SweepInit => Atomic!Init
  BY DEF SweepInit, Init, Seen, State, Atomic!Init
<1>4. I /\ [SweepNext]_sweep_vars => [Step]_(Atomic!vars)
  BY StepIsAtomic
<1>5. SweepSpec => Atomic!Init /\ [][Step]_(Atomic!vars)
  <2>. HIDE DEF I, Step
  <2>. QED  BY <1>1, <1>2, <1>3, <1>4, PTL DEF SweepSpec
<1>. QED
  BY <1>5 DEF RefinesFlowTable
=============================================================================
