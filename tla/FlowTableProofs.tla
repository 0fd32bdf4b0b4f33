-------------------------- MODULE FlowTableProofs --------------------------
(***************************************************************************)
(* Theorems about FlowTable, for every set of keys, every capture and all  *)
(* values of the intervals, timeouts and limits:                           *)
(*                                                                         *)
(*   TypeCorrect      the members keep their types, so no time stamp that  *)
(*                    is exported or remembered leaves its width           *)
(*   PacketsConserved every accepted packet is in exactly one place        *)
(*   PacketsCounted   the two packet counters are what they claim to be,   *)
(*                    in particular the unsigned _n_packets never wraps    *)
(*   FlowsIdentified  an id names one flow, and ids follow first packets   *)
(*   FinEndsFlows     nothing follows a FIN in the flow it ends            *)
(*   OnlyAcksDeleted  what is deleted is a lone ACK                        *)
(*   IdleFlowsLeave   after a call no flow is idle beyond its bound        *)
(*   LongFlowsLeave   after a call no flow is longer than its bound        *)
(*   CompleteIsFin    on a capture, a complete record ends with a FIN      *)
(*   NoFlowAhead      a sweep leaves no flow ahead of its own packet       *)
(*   LateIsHarmless   a late packet evicts no flow early unless it is      *)
(*                    older than the last check                            *)
(*                                                                         *)
(* The inductive invariant of the first three adds to them that a flow in  *)
(* the table is a non-empty set of packets of its own key (FlowsOK): that  *)
(* makes the flows disjoint, without which erasing one would take packets  *)
(* of another, and it makes last_packet() defined.  FlowInv adds what a    *)
(* record has of its flow, and CheckInv relates the seconds of the last    *)
(* check to the last packets of the flows that are left.  NoFlowAhead and  *)
(* LateIsHarmless assume NoRollover, that no time is so near the end of    *)
(* the clock that adding a timeout to it would leave the clock.            *)
(***************************************************************************)
EXTENDS FlowTable, SetLemmas

-----------------------------------------------------------------------------
\* The difference of two uint32_t is one again.
LEMMA SubType ==
    ASSUME NEW a \in 0 .. W - 1, NEW b \in 0 .. W - 1
    PROVE  Sub(a, b) \in 0 .. W - 1
BY TimeAssumption DEF Sub

-----------------------------------------------------------------------------
\* A flow in the table is a non-empty set of accepted packets of its key.
FlowsOK ==
    \A k \in DOMAIN active_flows :
        /\ active_flows[k].pkts # {}
        /\ active_flows[k].pkts \subseteq 1 .. Len(log)
        /\ \A n \in active_flows[k].pkts : log[n].key = k

TypeInv == TypeOK /\ FlowsOK

\* What a call works on once its packet is in the table.
TableOK(table, l) ==
    /\ DOMAIN table \subseteq Keys
    /\ table \in [DOMAIN table -> Flow]
    /\ \A k \in DOMAIN table :
          /\ table[k].pkts # {}
          /\ table[k].pkts \subseteq 1 .. Len(l)
          /\ \A n \in table[k].pkts : l[n].key = k

\* Taking flows out of a table leaves a table.
LEMMA WithoutOK ==
    ASSUME NEW table, NEW l, TableOK(table, l), NEW K
    PROVE  TableOK(Without(table, K), l)
BY DEF TableOK, Without

\* The lookup keeps the table in order.
LEMMA LookupAndInsertOK ==
    ASSUME TypeInv, NEW p \in Packets, Len(log) + 1 <= MaxPackets
    PROVE  /\ Append(log, p) \in Seq(Packets)
           /\ Len(Append(log, p)) = Len(log) + 1
           /\ DOMAIN LookupAndInsert(p.key, Len(log) + 1) = DOMAIN active_flows \cup {p.key}
           /\ TableOK(LookupAndInsert(p.key, Len(log) + 1), Append(log, p))
<1>. DEFINE n == Len(log) + 1
            l == Append(log, p)
            T == LookupAndInsert(p.key, n)
<1>1. /\ log \in Seq(Packets) /\ p.key \in Keys
      /\ active_flows \in [DOMAIN active_flows -> Flow]
      /\ DOMAIN active_flows \subseteq Keys
      /\ next_id \in Nat /\ n \in 1 .. MaxPackets
  BY CountAssumption DEF TypeInv, TypeOK, Packets
<1>2. /\ l \in Seq(Packets) /\ Len(l) = n
      /\ l[n] = p /\ \A i \in 1 .. Len(log) : l[i] = log[i]
  BY <1>1
<1>3. DOMAIN T = DOMAIN active_flows \cup {p.key}
  BY DEF LookupAndInsert
<1>4. \A j \in DOMAIN T :
        /\ T[j] \in Flow
        /\ T[j].pkts # {} /\ T[j].pkts \subseteq 1 .. n
        /\ \A i \in T[j].pkts : l[i].key = j
  <2>. SUFFICES ASSUME NEW j \in DOMAIN T
                PROVE  /\ T[j] \in Flow
                       /\ T[j].pkts # {} /\ T[j].pkts \subseteq 1 .. n
                       /\ \A i \in T[j].pkts : l[i].key = j
    OBVIOUS
  <2>1. CASE j # p.key
    <3>1. j \in DOMAIN active_flows /\ T[j] = active_flows[j]
      BY <1>3, <2>1 DEF LookupAndInsert
    <3>. QED  BY <3>1, <1>1, <1>2 DEF TypeInv, FlowsOK
  <2>2. CASE j = p.key /\ j \in DOMAIN active_flows
    <3>1. T[j] = [id |-> active_flows[j].id, pkts |-> active_flows[j].pkts \cup {n}]
      BY <2>2 DEF LookupAndInsert
    <3>2. active_flows[j] \in Flow
      BY <1>1, <2>2
    <3>. QED  BY <3>1, <3>2, <1>1, <1>2, <2>2 DEF TypeInv, FlowsOK, Flow
  <2>3. CASE j = p.key /\ j \notin DOMAIN active_flows
    <3>1. T[j] = [id |-> next_id, pkts |-> {n}]
      BY <2>3 DEF LookupAndInsert
    <3>2. T[j].id = next_id /\ T[j].pkts = {n}
      BY <3>1
    <3>3. T[j] \in Flow
      BY <3>1, <1>1 DEF Flow
    <3>4. \A i \in {n} : i \in 1 .. n /\ l[i].key = j
      BY <1>1, <1>2, <2>3
    <3>. QED  BY <3>2, <3>3, <3>4
  <2>. QED  BY <2>1, <2>2, <2>3
<1>5. DOMAIN T \subseteq Keys /\ T \in [DOMAIN T -> Flow]
  BY <1>1, <1>3, <1>4 DEF LookupAndInsert
<1>. QED
  BY <1>2, <1>3, <1>4, <1>5 DEF TableOK

-----------------------------------------------------------------------------
\* The packets of some flows of a table are finitely many accepted packets.
LEMMA HeldBounded ==
    ASSUME NEW table, NEW l \in Seq(Packets), TableOK(table, l),
           NEW K \in SUBSET DOMAIN table
    PROVE  /\ Held(table, K) \subseteq 1 .. Len(l)
           /\ IsFiniteSet(Held(table, K))
           /\ Cardinality(Held(table, K)) \in Nat
<1>1. Held(table, K) \subseteq 1 .. Len(l)
  BY DEF Held, TableOK
<1>2. IsFiniteSet(1 .. Len(l))
  BY FS_Interval
<1>3. IsFiniteSet(Held(table, K))
  BY <1>1, <1>2, FS_Subset
<1>. QED
  BY <1>1, <1>3, FS_CardinalityType

\* Whatever flows a call evicts and drops, it leaves members of their types.
LEMMA AccountType ==
    ASSUME TypeInv, NEW table, NEW arrived \in Nat,
           NEW evicted \in SUBSET DOMAIN table, NEW dropped \in SUBSET DOMAIN table,
           log' \in Seq(Packets), Len(log') <= MaxPackets,
           TableOK(table, log'), Account(table, arrived, evicted, dropped)
    PROVE  /\ DOMAIN active_flows' \subseteq Keys
           /\ active_flows' \in [DOMAIN active_flows' -> Flow]
           /\ deleted' \subseteq Deleted
           /\ n_packets' \in Int /\ n_packets_processed' \in Nat
           /\ n_flows_processed' \in Nat
           /\ FlowsOK'
<1>1. active_flows' = Without(table, evicted \cup dropped)
  BY DEF Account, Staying
<1>2. TableOK(active_flows', log')
  BY <1>1, WithoutOK
<1>3. /\ Cardinality(Held(table, evicted)) \in Nat
      /\ Cardinality(Held(table, dropped)) \in Nat
  BY HeldBounded
<1>4. Cardinality(evicted) \in Nat
  <2>1. evicted \subseteq Keys
    BY DEF TableOK
  <2>2. IsFiniteSet(evicted)
    BY <2>1, FS_Subset, KeyAssumption
  <2>. QED  BY <2>2, FS_CardinalityType
<1>5. /\ n_packets' \in Int /\ n_packets_processed' \in Nat /\ n_flows_processed' \in Nat
  <2>1. n_packets \in Int /\ n_packets_processed \in Nat /\ n_flows_processed \in Nat
    BY DEF TypeInv, TypeOK
  <2>2. /\ n_packets' = NPacketsLess(table, evicted, dropped) + arrived
        /\ n_packets_processed' = NPacketsProcessedPlus(table, evicted)
        /\ n_flows_processed' = NFlowsProcessedPlus(evicted, dropped)
    BY DEF Account
  <2>3. n_packets' \in Int
    BY <1>3, <2>1, <2>2 DEF NPacketsLess
  <2>. QED
    BY <1>3, <1>4, <2>1, <2>2, <2>3 DEF NPacketsProcessedPlus, NFlowsProcessedPlus
<1>6. \A k \in dropped : Remains(table, k) \in Deleted
  BY DEF TableOK, Remains, Deleted, Flow
<1>7. deleted' \subseteq Deleted
  BY <1>6 DEF Account, TypeInv, TypeOK
<1>. QED
  BY <1>2, <1>5, <1>7 DEF TableOK, FlowsOK

\* What is handed to the callback is a CLFR.
LEMMA RecordType ==
    ASSUME NEW table, NEW l, TableOK(table, l), NEW k \in DOMAIN table,
           NEW complete \in BOOLEAN, NEW ts \in 0 .. W - 1
    PROVE  Record(table, k, complete, ts) \in CLFR
BY DEF TableOK, Record, CLFR, Flow

-----------------------------------------------------------------------------
LEMMA InitTypeInv == Init => TypeInv
<1>. SUFFICES ASSUME Init
              PROVE  TypeInv
  OBVIOUS
<1>1. log \in Seq(Packets) /\ Len(log) <= MaxPackets
  BY CountAssumption DEF Init
<1>2. DOMAIN active_flows = {} /\ active_flows \in [DOMAIN active_flows -> Flow]
  BY DEF Init
<1>3. 0 \in 0 .. W - 1
  BY TimeAssumption
<1>4. exported \subseteq CLFR /\ deleted \subseteq Deleted /\ callback \in BOOLEAN
  BY Zenon DEF Init
<1>5. /\ n_packets \in Int /\ n_packets_processed \in Nat
      /\ n_flows_processed \in Nat /\ n_flows \in Nat /\ next_id \in Nat \ {0}
      /\ last_to_check \in 0 .. W - 1 /\ last_ack_check \in 0 .. W - 1
  BY <1>3 DEF Init
<1>6. FlowsOK
  BY <1>2 DEF FlowsOK
<1>. QED
  BY <1>1, <1>2, <1>4, <1>5, <1>6, Zenon DEF TypeInv, TypeOK

LEMMA AddPacketTypeInv ==
    ASSUME TypeInv, NEW p \in Packets, AddPacket(p)
    PROVE  TypeInv'
<1>. DEFINE n         == Len(log) + 1
            l         == Append(log, p)
            table     == LookupAndInsert(p.key, n)
            closed    == CheckEvict(p)
            timed_out == CheckTimeouts(l, Without(table, closed), p.ts)
            acks      == IF AckCheckDue(p.ts)
                         THEN CheckLastAck(l, Without(table, closed \cup timed_out))
                         ELSE {}
            opened    == IF p.key \in DOMAIN active_flows THEN 0 ELSE 1
<1>1. /\ n <= MaxPackets /\ log' = l
      /\ next_id' = next_id + opened /\ n_flows' = n_flows + opened
      /\ Account(table, 1, closed \cup timed_out, acks)
      /\ exported' = exported
            \cup {Record(table, k, TRUE, p.ts) : k \in closed}
            \cup {Record(table, k, IpProto[k] = "udp", p.ts) : k \in timed_out}
      /\ last_to_check' = IF ToCheckDue(p.ts) THEN p.ts ELSE last_to_check
      /\ last_ack_check' = IF AckCheckDue(p.ts) THEN p.ts ELSE last_ack_check
      /\ callback' = callback
  BY Zenon DEF AddPacket
<1>2. /\ log' \in Seq(Packets) /\ Len(log') = n
      /\ DOMAIN table = DOMAIN active_flows \cup {p.key}
      /\ TableOK(table, log')
  BY <1>1, LookupAndInsertOK
<1>3. closed \subseteq DOMAIN table
  BY <1>2 DEF CheckEvict
<1>4. timed_out \subseteq DOMAIN table
  BY DEF CheckTimeouts, Without
<1>5. acks \subseteq DOMAIN table
  BY DEF CheckLastAck, Without
<1>6. p.ts \in 0 .. W - 1
  BY TimeAssumption DEF Packets
<1>. HIDE DEF table, closed, timed_out, acks, l
<1>7. /\ DOMAIN active_flows' \subseteq Keys
      /\ active_flows' \in [DOMAIN active_flows' -> Flow]
      /\ deleted' \subseteq Deleted
      /\ n_packets' \in Int /\ n_packets_processed' \in Nat
      /\ n_flows_processed' \in Nat
      /\ FlowsOK'
  BY <1>1, <1>2, <1>3, <1>4, <1>5, AccountType
<1>8. exported' \subseteq CLFR
  <2>1. \A k \in closed : Record(table, k, TRUE, p.ts) \in CLFR
    BY <1>2, <1>3, <1>6, RecordType
  <2>2. \A k \in timed_out : Record(table, k, IpProto[k] = "udp", p.ts) \in CLFR
    BY <1>2, <1>4, <1>6, RecordType
  <2>. QED  BY <1>1, <2>1, <2>2 DEF TypeInv, TypeOK
<1>9. /\ next_id' \in Nat \ {0} /\ n_flows' \in Nat
      /\ last_to_check' \in 0 .. W - 1 /\ last_ack_check' \in 0 .. W - 1
      /\ callback' \in BOOLEAN
  BY <1>1, <1>6 DEF TypeInv, TypeOK
<1>. QED
  BY <1>1, <1>2, <1>7, <1>8, <1>9 DEF TypeInv, TypeOK

\* The last packet of a flow in the table has a time stamp.
LEMMA LastPacketType ==
    ASSUME TypeInv, NEW k \in DOMAIN active_flows
    PROVE  LastPacket(log, active_flows[k]).ts \in 0 .. W - 1
<1>1. Max(active_flows[k].pkts) \in 1 .. Len(log)
  <2>1. Len(log) \in Nat
    BY DEF TypeInv, TypeOK
  <2>2. active_flows[k].pkts \in SUBSET (1 .. Len(log)) /\ active_flows[k].pkts # {}
    BY DEF TypeInv, FlowsOK
  <2>. QED  BY <2>1, <2>2, MaxOfBounded
<1>2. log[Max(active_flows[k].pkts)] \in Packets
  BY <1>1 DEF TypeInv, TypeOK
<1>. QED
  BY <1>2, TimeAssumption DEF LastPacket, Packets

LEMMA ForceExportTypeInv ==
    ASSUME TypeInv, NEW proto, NEW complete \in BOOLEAN, ForceExport(proto, complete)
    PROVE  TypeInv'
<1>. DEFINE evicted == {k \in DOMAIN active_flows : IpProto[k] = proto}
<1>1. /\ Account(active_flows, 0, evicted, {})
      /\ exported' = exported \cup
            {Record(active_flows, k, complete, LastPacket(log, active_flows[k]).ts)
               : k \in evicted}
      /\ log' = log /\ n_flows' = n_flows /\ next_id' = next_id
      /\ last_to_check' = last_to_check /\ last_ack_check' = last_ack_check
      /\ callback' = callback
  BY Zenon DEF ForceExport
<1>2. TableOK(active_flows, log')
  BY <1>1 DEF TypeInv, TypeOK, FlowsOK, TableOK
<1>3. /\ DOMAIN active_flows' \subseteq Keys
      /\ active_flows' \in [DOMAIN active_flows' -> Flow]
      /\ deleted' \subseteq Deleted
      /\ n_packets' \in Int /\ n_packets_processed' \in Nat
      /\ n_flows_processed' \in Nat
      /\ FlowsOK'
  <2>1. log' \in Seq(Packets) /\ Len(log') <= MaxPackets
    BY <1>1 DEF TypeInv, TypeOK
  <2>2. evicted \in SUBSET DOMAIN active_flows
    OBVIOUS
  <2>. HIDE DEF evicted
  <2>. QED  BY <1>1, <1>2, <2>1, <2>2, AccountType
<1>4. exported' \subseteq CLFR
  <2>1. \A k \in evicted :
           Record(active_flows, k, complete, LastPacket(log, active_flows[k]).ts) \in CLFR
    BY <1>2, LastPacketType, RecordType
  <2>. QED  BY <1>1, <2>1 DEF TypeInv, TypeOK
<1>. QED
  BY <1>1, <1>3, <1>4 DEF TypeInv, TypeOK

LEMMA ForceCheckLastAckTypeInv ==
    ASSUME TypeInv, ForceCheckLastAck
    PROVE  TypeInv'
<1>. DEFINE dropped == CheckLastAck(log, active_flows)
<1>1. /\ Account(active_flows, 0, {}, dropped)
      /\ last_ack_check' = 0
      /\ log' = log /\ exported' = exported /\ n_flows' = n_flows /\ next_id' = next_id
      /\ last_to_check' = last_to_check /\ callback' = callback
  BY DEF ForceCheckLastAck
<1>2. TableOK(active_flows, log') /\ log' \in Seq(Packets) /\ Len(log') <= MaxPackets
  BY <1>1 DEF TypeInv, TypeOK, FlowsOK, TableOK
<1>3. dropped \in SUBSET DOMAIN active_flows
  BY DEF CheckLastAck
<1>4. /\ DOMAIN active_flows' \subseteq Keys
      /\ active_flows' \in [DOMAIN active_flows' -> Flow]
      /\ deleted' \subseteq Deleted
      /\ n_packets' \in Int /\ n_packets_processed' \in Nat
      /\ n_flows_processed' \in Nat
      /\ FlowsOK'
  <2>. HIDE DEF dropped
  <2>. QED  BY <1>1, <1>2, <1>3, AccountType
<1>. QED
  BY <1>1, <1>4, TimeAssumption DEF TypeInv, TypeOK

LEMMA NextTypeInv == TypeInv /\ [Next]_vars => TypeInv'
<1>. SUFFICES ASSUME TypeInv, [Next]_vars
              PROVE  TypeInv'
  OBVIOUS
<1>1. CASE (\E set \in BOOLEAN : SetCallback(set))
  BY <1>1 DEF SetCallback, counters, TypeInv, TypeOK, FlowsOK
<1>2. ASSUME NEW p \in Packets, AddPacket(p)
      PROVE  TypeInv'
  BY <1>2, AddPacketTypeInv
<1>3. CASE UNCHANGED vars
  BY <1>3 DEF vars, counters, TypeInv, TypeOK, FlowsOK
<1>4. ASSUME NEW proto \in {"udp", "tcp"}, NEW complete \in BOOLEAN,
             ForceExport(proto, complete)
      PROVE  TypeInv'
  BY <1>4, ForceExportTypeInv
<1>5. CASE ForceCheckLastAck
  BY <1>5, ForceCheckLastAckTypeInv
<1>. QED
  BY <1>1, <1>2, <1>3, <1>4, <1>5 DEF Next, CaptureNext, AddPacketThrows

\* In every state of the table, whatever operations led there, its members
\* are of their types: exported and remembered seconds fit their width, every
\* flow has an id, and only counts of packets (see PacketsCounted) may be
\* negative as far as types go.
THEOREM TypeCorrect == Spec => []TypeOK
<1>1. Init => TypeInv
  BY InitTypeInv
<1>2. TypeInv /\ [Next]_vars => TypeInv'
  BY NextTypeInv
<1>3. TypeInv => TypeOK
  BY DEF TypeInv
<1>. QED
  BY <1>1, <1>2, <1>3, PTL DEF Spec

-----------------------------------------------------------------------------
\* Different flows of a table have no packet in common, because each holds
\* packets of its own key only; so disjoint sets of flows hold disjoint sets
\* of packets.
LEMMA HeldDisjoint ==
    ASSUME NEW table, NEW l, TableOK(table, l),
           NEW J \in SUBSET DOMAIN table, NEW K \in SUBSET DOMAIN table, J \cap K = {}
    PROVE  Held(table, J) \cap Held(table, K) = {}
<1>. SUFFICES ASSUME NEW n \in Held(table, J), n \in Held(table, K)
              PROVE  FALSE
  OBVIOUS
<1>1. PICK j \in J : n \in table[j].pkts
  BY DEF Held
<1>2. PICK k \in K : n \in table[k].pkts
  BY DEF Held
<1>3. l[n].key = j /\ l[n].key = k
  BY <1>1, <1>2 DEF TableOK
<1>. QED
  BY <1>3

\* The heart of the argument.  A call that starts, its packet being in, from
\* a table whose packets are accounted for, and whose evicted flows are what
\* the callback received, ends with all packets accounted for.
LEMMA AccountConserves ==
    ASSUME TypeInv, NEW table, NEW arrived \in Nat,
           NEW evicted \in SUBSET DOMAIN table, NEW dropped \in SUBSET DOMAIN table,
           evicted \cap dropped = {},
           log' \in Seq(Packets), TableOK(table, log'),
           Account(table, arrived, evicted, dropped),
           Held(table, DOMAIN table) \cup InExports \cup InDeleted = 1 .. Len(log'),
           Held(table, DOMAIN table) \cap InExports = {},
           Held(table, DOMAIN table) \cap InDeleted = {},
           InExports \cap InDeleted = {},
           n_packets + arrived = Cardinality(Held(table, DOMAIN table)),
           n_packets_processed = Cardinality(InExports),
           InExports' = InExports \cup Held(table, evicted)
    PROVE  Conservation' /\ PacketCounts'
<1>. DEFINE stay == DOMAIN table \ (evicted \cup dropped)
            S == Held(table, stay)
            E == Held(table, evicted)
            D == Held(table, dropped)
            A == Held(table, DOMAIN table)
<1>1. InTable' = S
  <2>1. active_flows' = [k \in stay |-> table[k]]
    BY DEF Account, Staying, Without
  <2>. QED  BY <2>1 DEF InTable, Held
<1>2. InDeleted' = InDeleted \cup D
  <2>1. deleted' = deleted \cup {Remains(table, k) : k \in dropped}
    BY DEF Account
  <2>2. \A k \in dropped : Remains(table, k).pkts = table[k].pkts
    BY DEF Remains
  <2>. QED  BY <2>1, <2>2 DEF InDeleted, Held
<1>3. A = (S \cup E) \cup D
  BY DEF Held
<1>4. S \cap E = {} /\ S \cap D = {} /\ E \cap D = {}
  <2>1. stay \in SUBSET DOMAIN table /\ stay \cap evicted = {} /\ stay \cap dropped = {}
    OBVIOUS
  <2>. HIDE DEF stay
  <2>. QED  BY <2>1, HeldDisjoint
<1>5. IsFiniteSet(S) /\ IsFiniteSet(E) /\ IsFiniteSet(D) /\ IsFiniteSet(A)
  <2>1. stay \in SUBSET DOMAIN table /\ DOMAIN table \in SUBSET DOMAIN table
    OBVIOUS
  <2>. HIDE DEF stay
  <2>. QED  BY <2>1, HeldBounded
<1>6. IsFiniteSet(InExports)
  <2>1. InExports \subseteq 1 .. Len(log') /\ IsFiniteSet(1 .. Len(log'))
    BY FS_Interval
  <2>. QED  BY <2>1, FS_Subset
<1>. HIDE DEF S, E, D, A
<1>7. Conservation'
  <2>1. (InTable \cup InExports \cup InDeleted)' = A \cup InExports \cup InDeleted
    BY <1>1, <1>2, <1>3 DEF E
  <2>2. InTable' \cap InExports' = {} /\ InTable' \cap InDeleted' = {}
    BY <1>1, <1>2, <1>3, <1>4 DEF E, A
  <2>3. InExports' \cap InDeleted' = {}
    BY <1>2, <1>3, <1>4 DEF E, A
  <2>. QED  BY <2>1, <2>2, <2>3 DEF Conservation, A
<1>8. n_packets' = Cardinality(S)
  <2>1. /\ IsFiniteSet(S \cup E)
        /\ Cardinality(S \cup E) = Cardinality(S) + Cardinality(E)
        /\ Cardinality(S) \in Nat /\ Cardinality(E) \in Nat
    BY <1>4, <1>5, DisjointUnion
  <2>2. /\ Cardinality(A) = Cardinality(S \cup E) + Cardinality(D)
        /\ Cardinality(D) \in Nat
    BY <1>3, <1>4, <1>5, <2>1, DisjointUnion
  <2>3. n_packets' = n_packets - Cardinality(E) - Cardinality(D) + arrived
    BY DEF Account, NPacketsLess, E, D
  <2>4. n_packets \in Int /\ n_packets + arrived = Cardinality(A)
    BY DEF TypeInv, TypeOK, A
  <2>. QED  BY <2>1, <2>2, <2>3, <2>4
<1>9. n_packets_processed' = Cardinality(InExports')
  <2>1. InExports \cap E = {}
    BY <1>3 DEF A
  <2>2. Cardinality(InExports \cup E) = Cardinality(InExports) + Cardinality(E)
    BY <1>5, <1>6, <2>1, DisjointUnion
  <2>3. n_packets_processed' = n_packets_processed + Cardinality(E)
    BY DEF Account, NPacketsProcessedPlus, E
  <2>. QED  BY <2>2, <2>3 DEF E
<1>. QED
  BY <1>1, <1>7, <1>8, <1>9 DEF PacketCounts

-----------------------------------------------------------------------------
PacketInv == TypeInv /\ Conservation /\ PacketCounts

LEMMA InitPacketInv == Init => PacketInv
<1>. SUFFICES ASSUME Init
              PROVE  PacketInv
  OBVIOUS
<1>1. InTable = {} /\ InExports = {} /\ InDeleted = {}
  BY DEF Init, InTable, InExports, InDeleted, Held
<1>2. 1 .. Len(log) = {}
  BY DEF Init
<1>3. Cardinality({}) = 0
  BY FS_EmptySet
<1>4. n_packets = 0 /\ n_packets_processed = 0
  BY DEF Init
<1>. QED
  BY <1>1, <1>2, <1>3, <1>4, InitTypeInv DEF PacketInv, Conservation, PacketCounts

\* The lookup puts the new packet, and nothing else, into the table.
LEMMA LookupAndInsertHeld ==
    ASSUME TypeInv, NEW p \in Packets, Len(log) + 1 <= MaxPackets
    PROVE  LET table == LookupAndInsert(p.key, Len(log) + 1)
           IN  Held(table, DOMAIN table) = InTable \cup {Len(log) + 1}
<1>. DEFINE n == Len(log) + 1
            table == LookupAndInsert(p.key, n)
<1>1. DOMAIN table = DOMAIN active_flows \cup {p.key}
  BY DEF LookupAndInsert
<1>2. \A k \in DOMAIN table :
         table[k].pkts = (IF k \in DOMAIN active_flows THEN active_flows[k].pkts ELSE {})
                           \cup (IF k = p.key THEN {n} ELSE {})
  <2>. SUFFICES ASSUME NEW k \in DOMAIN table
                PROVE  table[k].pkts =
                         (IF k \in DOMAIN active_flows THEN active_flows[k].pkts ELSE {})
                           \cup (IF k = p.key THEN {n} ELSE {})
    OBVIOUS
  <2>1. CASE k # p.key
    BY <1>1, <2>1 DEF LookupAndInsert
  <2>2. CASE k = p.key /\ k \in DOMAIN active_flows
    BY <1>1, <2>2 DEF LookupAndInsert
  <2>3. CASE k = p.key /\ k \notin DOMAIN active_flows
    BY <1>1, <2>3 DEF LookupAndInsert
  <2>. QED  BY <2>1, <2>2, <2>3
<1>. HIDE DEF table, n
<1>3. Held(table, DOMAIN table) = InTable \cup {n}
  <2>1. ASSUME NEW x, x \in Held(table, DOMAIN table)
        PROVE  x \in InTable \cup {n}
    BY <2>1, <1>1, <1>2 DEF Held, InTable
  <2>2. InTable \subseteq Held(table, DOMAIN table)
    BY <1>1, <1>2 DEF Held, InTable
  <2>3. n \in Held(table, DOMAIN table)
    <3>1. p.key \in DOMAIN table /\ n \in table[p.key].pkts
      BY <1>1, <1>2
    <3>. QED  BY <3>1 DEF Held
  <2>. QED  BY <2>1, <2>2, <2>3
<1>. QED
  BY <1>3 DEF table, n

\* The packets of a set of records built by Record are those of the flows.
LEMMA RecordsHeld ==
    ASSUME NEW table, NEW K, NEW R,
           \A r \in R : \E k \in K : r.pkts = table[k].pkts,
           \A k \in K : \E r \in R : r.pkts = table[k].pkts
    PROVE  UNION {r.pkts : r \in R} = Held(table, K)
BY DEF Held

LEMMA AddPacketPacketInv ==
    ASSUME PacketInv, NEW p \in Packets, AddPacket(p)
    PROVE  PacketInv'
<1>. DEFINE n         == Len(log) + 1
            l         == Append(log, p)
            table     == LookupAndInsert(p.key, n)
            closed    == CheckEvict(p)
            timed_out == CheckTimeouts(l, Without(table, closed), p.ts)
            acks      == IF AckCheckDue(p.ts)
                         THEN CheckLastAck(l, Without(table, closed \cup timed_out))
                         ELSE {}
            R1        == {Record(table, k, TRUE, p.ts) : k \in closed}
            R2        == {Record(table, k, IpProto[k] = "udp", p.ts) : k \in timed_out}
<1>1. /\ n <= MaxPackets /\ log' = l
      /\ Account(table, 1, closed \cup timed_out, acks)
      /\ exported' = exported \cup R1 \cup R2
  BY Zenon DEF AddPacket
<1>2. /\ log' \in Seq(Packets) /\ Len(log') = n
      /\ DOMAIN table = DOMAIN active_flows \cup {p.key}
      /\ TableOK(table, log')
  BY <1>1, LookupAndInsertOK DEF PacketInv
<1>3. /\ closed \subseteq DOMAIN table
      /\ timed_out \subseteq DOMAIN table
      /\ acks \subseteq DOMAIN table
      /\ (closed \cup timed_out) \cap acks = {}
  <2>1. closed \subseteq DOMAIN table
    BY <1>2 DEF CheckEvict
  <2>2. timed_out \subseteq DOMAIN table
    BY DEF CheckTimeouts, Without
  <2>3. acks \subseteq DOMAIN table \ (closed \cup timed_out)
    <3>1. \A K : CheckLastAck(l, Without(table, K)) \subseteq DOMAIN table \ K
      BY DEF CheckLastAck, Without
    <3>. HIDE DEF table, closed, timed_out, l
    <3>. QED  BY <3>1
  <2>. QED  BY <2>1, <2>2, <2>3
<1>4. InExports' = InExports \cup Held(table, closed \cup timed_out)
  <2>1. \A r \in R1 \cup R2 : \E k \in closed \cup timed_out : r.pkts = table[k].pkts
    BY DEF Record
  <2>2. \A k \in closed \cup timed_out : \E r \in R1 \cup R2 : r.pkts = table[k].pkts
    <3>1. \A k \in closed : Record(table, k, TRUE, p.ts).pkts = table[k].pkts
      BY DEF Record
    <3>2. \A k \in timed_out : Record(table, k, IpProto[k] = "udp", p.ts).pkts = table[k].pkts
      BY DEF Record
    <3>. HIDE DEF table, closed, timed_out
    <3>. QED  BY <3>1, <3>2, Zenon
  <2>. HIDE DEF R1, R2, table, closed, timed_out
  <2>3. UNION {r.pkts : r \in R1 \cup R2} = Held(table, closed \cup timed_out)
    BY <2>1, <2>2, RecordsHeld
  <2>. QED  BY <1>1, <2>3 DEF InExports
<1>5. /\ Held(table, DOMAIN table) = InTable \cup {n}
      /\ n \in Nat /\ n \notin 1 .. Len(log) /\ 1 .. n = (1 .. Len(log)) \cup {n}
  BY <1>1, LookupAndInsertHeld DEF PacketInv, TypeInv, TypeOK
<1>6. /\ Held(table, DOMAIN table) \cup InExports \cup InDeleted = 1 .. Len(log')
      /\ Held(table, DOMAIN table) \cap InExports = {}
      /\ Held(table, DOMAIN table) \cap InDeleted = {}
      /\ InExports \cap InDeleted = {}
  <2>. HIDE DEF table, n
  <2>. QED  BY <1>2, <1>5 DEF PacketInv, Conservation
<1>7. n_packets + 1 = Cardinality(Held(table, DOMAIN table))
  <2>0. Len(log) \in Nat
    BY DEF PacketInv, TypeInv, TypeOK
  <2>1. InTable \subseteq 1 .. Len(log) /\ IsFiniteSet(1 .. Len(log))
    BY <2>0, FS_Interval DEF PacketInv, Conservation
  <2>2. IsFiniteSet(InTable) /\ n \notin InTable
    BY <2>1, <1>5, FS_Subset
  <2>3. Cardinality(InTable \cup {n}) = Cardinality(InTable) + 1
    BY <2>2, FS_AddElement
  <2>. QED  BY <1>5, <2>3 DEF PacketInv, PacketCounts
<1>. HIDE DEF table, closed, timed_out, acks, l, n
<1>8. Conservation' /\ PacketCounts'
  BY <1>1, <1>2, <1>3, <1>4, <1>6, <1>7, AccountConserves DEF PacketInv, PacketCounts
<1>. QED
  BY <1>8, AddPacketTypeInv DEF PacketInv

LEMMA ForceExportPacketInv ==
    ASSUME PacketInv, NEW proto, NEW complete \in BOOLEAN, ForceExport(proto, complete)
    PROVE  PacketInv'
<1>. DEFINE evicted == {k \in DOMAIN active_flows : IpProto[k] = proto}
            R == {Record(active_flows, k, complete, LastPacket(log, active_flows[k]).ts)
                    : k \in evicted}
<1>1. /\ Account(active_flows, 0, evicted, {})
      /\ exported' = exported \cup R /\ log' = log
  BY Zenon DEF ForceExport
<1>2. InExports' = InExports \cup Held(active_flows, evicted)
  <2>1. /\ \A r \in R : \E k \in evicted : r.pkts = active_flows[k].pkts
        /\ \A k \in evicted : \E r \in R : r.pkts = active_flows[k].pkts
    <3>1. \A k \in evicted :
             Record(active_flows, k, complete, LastPacket(log, active_flows[k]).ts).pkts
               = active_flows[k].pkts
      BY DEF Record
    <3>. HIDE DEF evicted
    <3>. QED  BY <3>1, Zenon
  <2>. HIDE DEF R, evicted
  <2>2. UNION {r.pkts : r \in R} = Held(active_flows, evicted)
    BY <2>1, RecordsHeld
  <2>. QED  BY <1>1, <2>2 DEF InExports
<1>3. TableOK(active_flows, log') /\ log' \in Seq(Packets)
  BY <1>1 DEF PacketInv, TypeInv, TypeOK, FlowsOK, TableOK
<1>4. n_packets \in Int /\ n_packets + 0 = Cardinality(Held(active_flows, DOMAIN active_flows))
  BY DEF PacketInv, PacketCounts, TypeInv, TypeOK, InTable
<1>5. evicted \in SUBSET DOMAIN active_flows
  OBVIOUS
<1>. HIDE DEF evicted
<1>6. Conservation' /\ PacketCounts'
  BY <1>1, <1>2, <1>3, <1>4, <1>5, AccountConserves
     DEF PacketInv, Conservation, PacketCounts, InTable
<1>. QED
  BY <1>6, ForceExportTypeInv DEF PacketInv

LEMMA ForceCheckLastAckPacketInv ==
    ASSUME PacketInv, ForceCheckLastAck
    PROVE  PacketInv'
<1>. DEFINE dropped == CheckLastAck(log, active_flows)
<1>1. Account(active_flows, 0, {}, dropped) /\ log' = log /\ exported' = exported
  BY DEF ForceCheckLastAck
<1>2. InExports' = InExports \cup Held(active_flows, {})
  BY <1>1 DEF InExports, Held
<1>3. TableOK(active_flows, log') /\ log' \in Seq(Packets)
  BY <1>1 DEF PacketInv, TypeInv, TypeOK, FlowsOK, TableOK
<1>4. n_packets \in Int /\ n_packets + 0 = Cardinality(Held(active_flows, DOMAIN active_flows))
  BY DEF PacketInv, PacketCounts, TypeInv, TypeOK, InTable
<1>5. dropped \in SUBSET DOMAIN active_flows /\ {} \in SUBSET DOMAIN active_flows
  BY DEF CheckLastAck
<1>. HIDE DEF dropped
<1>6. Conservation' /\ PacketCounts'
  BY <1>1, <1>2, <1>3, <1>4, <1>5, AccountConserves
     DEF PacketInv, Conservation, PacketCounts, InTable
<1>. QED
  BY <1>6, ForceCheckLastAckTypeInv DEF PacketInv

LEMMA NextPacketInv == PacketInv /\ [Next]_vars => PacketInv'
<1>. SUFFICES ASSUME PacketInv, [Next]_vars
              PROVE  PacketInv'
  OBVIOUS
<1>1. TypeInv'
  BY NextTypeInv DEF PacketInv
<1>2. ASSUME UNCHANGED <<log, active_flows, exported, deleted, n_packets, n_packets_processed>>
      PROVE  PacketInv'
  BY <1>1, <1>2 DEF PacketInv, Conservation, PacketCounts, InTable, InExports, InDeleted, Held
<1>3. CASE (\E set \in BOOLEAN : SetCallback(set))
  BY <1>2, <1>3 DEF SetCallback, counters
<1>4. ASSUME NEW p \in Packets, AddPacket(p)
      PROVE  PacketInv'
  BY <1>4, AddPacketPacketInv
<1>5. CASE UNCHANGED vars
  BY <1>2, <1>5 DEF vars, counters
<1>6. ASSUME NEW proto \in {"udp", "tcp"}, NEW complete \in BOOLEAN,
             ForceExport(proto, complete)
      PROVE  PacketInv'
  BY <1>6, ForceExportPacketInv
<1>7. CASE ForceCheckLastAck
  BY <1>7, ForceCheckLastAckPacketInv
<1>. QED
  BY <1>3, <1>4, <1>5, <1>6, <1>7 DEF Next, CaptureNext, AddPacketThrows

\* Whatever the capture and the calls, every packet add_packet accepted is in
\* exactly one of the table, the exported records and the deleted ones.
THEOREM PacketsConserved == Spec => []Conservation
<1>1. PacketInv => Conservation
  BY DEF PacketInv
<1>. QED
  BY <1>1, InitPacketInv, NextPacketInv, PTL DEF Spec

\* count_packets() and count_packets_processed() are the numbers of packets in
\* the table and in the exported records, so _n_packets is never negative.
THEOREM PacketsCounted == Spec => []PacketCounts
<1>1. PacketInv => PacketCounts
  BY DEF PacketInv
<1>. QED
  BY <1>1, InitPacketInv, NextPacketInv, PTL DEF Spec


-----------------------------------------------------------------------------
(***************************************************************************)
(* What calls do to the flows                                              *)
(***************************************************************************)

\* The log with packet p at its end.
Arrives(p) ==
    /\ Len(log) \in Nat /\ Len(log) + 1 <= MaxPackets
    /\ log' \in Seq(Packets) /\ Len(log') = Len(log) + 1
    /\ log'[Len(log) + 1] = p
    /\ \A i \in 1 .. Len(log) : log'[i] = log[i]

\* The table once packet p is in it.
Joins(p, table) ==
    /\ TableOK(table, log')
    /\ DOMAIN table = DOMAIN active_flows \cup {p.key}
    /\ \A k \in DOMAIN table \ {p.key} : table[k] = active_flows[k]
    /\ p.key \in DOMAIN active_flows =>
          /\ table[p.key].pkts = active_flows[p.key].pkts \cup {Len(log) + 1}
          /\ table[p.key].id = active_flows[p.key].id
          /\ next_id' = next_id /\ n_flows' = n_flows
    /\ p.key \notin DOMAIN active_flows =>
          /\ table[p.key].pkts = {Len(log) + 1}
          /\ table[p.key].id = next_id
          /\ next_id' = next_id + 1 /\ n_flows' = n_flows + 1

\* R holds one record of each flow in E.
RecordsOf(table, E, R) ==
    /\ \A r \in R : /\ r.key \in E /\ r.id = table[r.key].id
                    /\ r.pkts = table[r.key].pkts
    /\ \A k \in E : \E r \in R : r.key = k
    /\ \A r, q \in R : r.key = q.key => r = q

\* The flows in E leave the table as records in R, those in D are deleted.
Leave(table, E, D, R) ==
    /\ RecordsOf(table, E, R)
    /\ E \subseteq DOMAIN table /\ D \subseteq DOMAIN table /\ E \cap D = {}
    /\ active_flows' = Without(table, E \cup D)
    /\ deleted' = deleted \cup {Remains(table, k) : k \in D}
    /\ exported' = exported \cup R
    /\ n_flows_processed' = n_flows_processed + Cardinality(E)

\* Add_packet, step by step: closed, timed_out and acks are the flows that
\* the FIN, the timeout check and the last ACK check take away.
AddStep(p, table, closed, timed_out, acks) ==
    /\ Arrives(p)
    /\ Joins(p, table)
    /\ closed = CheckEvict(p)
    /\ timed_out = {k \in DOMAIN table \ closed :
                       ToCheckDue(p.ts) /\ TimedOut(log', k, table[k], p.ts)}
    /\ acks \subseteq DOMAIN table \ (closed \cup timed_out)
    /\ \A k \in acks : IsLastAck(log', k, table[k])
    /\ Leave(table, closed \cup timed_out, acks,
             {Record(table, k, TRUE, p.ts) : k \in closed} \cup
             {Record(table, k, IpProto[k] = "udp", p.ts) : k \in timed_out})
    /\ last_to_check' = IF ToCheckDue(p.ts) THEN p.ts ELSE last_to_check

\* One record per flow in E, whatever its other fields are.
LEMMA RecordsOfFlows ==
    ASSUME NEW table, NEW E, NEW complete, NEW ts
    PROVE  RecordsOf(table, E, {Record(table, k, complete[k], ts[k]) : k \in E})
<1>1. \A k \in E : LET r == Record(table, k, complete[k], ts[k])
                  IN  r.key = k /\ r.id = table[k].id /\ r.pkts = table[k].pkts
  BY DEF Record
<1>. QED
  BY <1>1 DEF RecordsOf

LEMMA RecordsOfBoth ==
    ASSUME NEW table, NEW E, NEW F, NEW R, NEW Q, E \cap F = {},
           RecordsOf(table, E, R), RecordsOf(table, F, Q)
    PROVE  RecordsOf(table, E \cup F, R \cup Q)
BY DEF RecordsOf

LEMMA AddPacketStep ==
    ASSUME TypeInv, NEW p \in Packets, AddPacket(p)
    PROVE  \E table, closed, timed_out, acks : AddStep(p, table, closed, timed_out, acks)
<1>. DEFINE n         == Len(log) + 1
            l         == Append(log, p)
            table     == LookupAndInsert(p.key, n)
            closed    == CheckEvict(p)
            timed_out == CheckTimeouts(l, Without(table, closed), p.ts)
            acks      == IF AckCheckDue(p.ts)
                         THEN CheckLastAck(l, Without(table, closed \cup timed_out))
                         ELSE {}
            opened    == IF p.key \in DOMAIN active_flows THEN 0 ELSE 1
            R         == {Record(table, k, TRUE, p.ts) : k \in closed} \cup
                         {Record(table, k, IpProto[k] = "udp", p.ts) : k \in timed_out}
<1>1. /\ n <= MaxPackets /\ log' = l
      /\ next_id' = next_id + opened /\ n_flows' = n_flows + opened
      /\ Account(table, 1, closed \cup timed_out, acks)
      /\ exported' = exported
            \cup {Record(table, k, TRUE, p.ts) : k \in closed}
            \cup {Record(table, k, IpProto[k] = "udp", p.ts) : k \in timed_out}
      /\ last_to_check' = IF ToCheckDue(p.ts) THEN p.ts ELSE last_to_check
  BY Zenon DEF AddPacket
<1>2. /\ log' \in Seq(Packets) /\ Len(log') = n
      /\ DOMAIN table = DOMAIN active_flows \cup {p.key}
      /\ TableOK(table, log')
  BY <1>1, LookupAndInsertOK
<1>3. Arrives(p)
  <2>1. log \in Seq(Packets)
    BY DEF TypeInv, TypeOK
  <2>. QED  BY <1>1, <1>2, <2>1 DEF Arrives
<1>4. Joins(p, table)
  <2>1. \A k \in DOMAIN table \ {p.key} : table[k] = active_flows[k]
    BY DEF LookupAndInsert
  <2>2. ASSUME p.key \in DOMAIN active_flows
        PROVE  /\ table[p.key].pkts = active_flows[p.key].pkts \cup {n}
               /\ table[p.key].id = active_flows[p.key].id
               /\ next_id' = next_id /\ n_flows' = n_flows
    <3>1. table[p.key] = [id |-> active_flows[p.key].id,
                          pkts |-> active_flows[p.key].pkts \cup {n}]
      BY <2>2 DEF LookupAndInsert
    <3>. HIDE DEF table
    <3>. QED  BY <1>1, <2>2, <3>1 DEF TypeInv, TypeOK
  <2>3. ASSUME p.key \notin DOMAIN active_flows
        PROVE  /\ table[p.key].pkts = {n} /\ table[p.key].id = next_id
               /\ next_id' = next_id + 1 /\ n_flows' = n_flows + 1
    <3>1. table[p.key] = [id |-> next_id, pkts |-> {n}]
      BY <2>3 DEF LookupAndInsert
    <3>. HIDE DEF table
    <3>. QED  BY <1>1, <2>3, <3>1
  <2>. HIDE DEF table
  <2>. QED  BY <1>2, <2>1, <2>2, <2>3 DEF Joins
<1>5. closed \subseteq DOMAIN table
  BY <1>2 DEF CheckEvict
<1>6. timed_out = {k \in DOMAIN table \ closed :
                      ToCheckDue(p.ts) /\ TimedOut(log', k, table[k], p.ts)}
  <2>1. ASSUME NEW t, NEW K
        PROVE  CheckTimeouts(l, Without(t, K), p.ts) =
                 {k \in DOMAIN t \ K : ToCheckDue(p.ts) /\ TimedOut(l, k, t[k], p.ts)}
    BY DEF CheckTimeouts, Without
  <2>. HIDE DEF table, closed, l
  <2>. QED  BY <1>1, <2>1
<1>7. /\ acks \subseteq DOMAIN table \ (closed \cup timed_out)
      /\ \A k \in acks : IsLastAck(log', k, table[k])
  <2>1. ASSUME NEW t, NEW K
        PROVE  /\ CheckLastAck(l, Without(t, K)) \subseteq DOMAIN t \ K
               /\ \A k \in CheckLastAck(l, Without(t, K)) : IsLastAck(l, k, t[k])
    BY DEF CheckLastAck, Without
  <2>. HIDE DEF table, closed, l, timed_out
  <2>. QED  BY <1>1, <2>1
<1>8. Leave(table, closed \cup timed_out, acks, R)
  <2>. HIDE DEF table, closed, l, acks
  <2>1. timed_out \subseteq DOMAIN table
    BY <1>6
  <2>2. exported' = exported \cup R
    BY <1>1, Zenon
  <2>3. closed \cap timed_out = {}
    BY <1>6
  <2>4. RecordsOf(table, closed \cup timed_out, R)
    <3>. DEFINE yes == [k \in closed |-> TRUE]
                t1  == [k \in closed |-> p.ts]
                udp == [k \in timed_out |-> IpProto[k] = "udp"]
                t2  == [k \in timed_out |-> p.ts]
                R1  == {Record(table, k, TRUE, p.ts) : k \in closed}
                R2  == {Record(table, k, IpProto[k] = "udp", p.ts) : k \in timed_out}
    <3>1. /\ R1 = {Record(table, k, yes[k], t1[k]) : k \in closed}
          /\ R2 = {Record(table, k, udp[k], t2[k]) : k \in timed_out}
      <4>. HIDE DEF closed, timed_out, table
      <4>. QED  OBVIOUS
    <3>. HIDE DEF closed, timed_out, table, yes, t1, udp, t2, R1, R2
    <3>2. RecordsOf(table, closed, R1) /\ RecordsOf(table, timed_out, R2)
      BY <3>1, RecordsOfFlows
    <3>3. RecordsOf(table, closed \cup timed_out, R1 \cup R2)
      BY <2>3, <3>2, RecordsOfBoth
    <3>. QED  BY <3>3 DEF R1, R2
  <2>. HIDE DEF R, timed_out
  <2>. QED  BY <1>1, <1>5, <1>7, <2>1, <2>2, <2>4 DEF Leave, Account, Staying, NFlowsProcessedPlus
<1>9. AddStep(p, table, closed, timed_out, acks)
  <2>1. closed = CheckEvict(p)
    OBVIOUS
  <2>. HIDE DEF table, closed, timed_out, acks, l
  <2>. QED  BY <1>1, <1>3, <1>4, <1>6, <1>7, <1>8, <2>1, Zenon DEF AddStep
<1>. QED
  BY <1>9, Zenon

\* The test hooks: the flows in E or in D leave, no packet arrives.
ForceStep(E, D, R) ==
    /\ log' = log /\ next_id' = next_id /\ n_flows' = n_flows
    /\ last_to_check' = last_to_check
    /\ TableOK(active_flows, log)
    /\ \A k \in D : IsLastAck(log, k, active_flows[k])
    /\ Leave(active_flows, E, D, R)

LEMMA ForceExportStep ==
    ASSUME TypeInv, NEW proto, NEW complete, ForceExport(proto, complete)
    PROVE  \E E, D, R : ForceStep(E, D, R)
<1>. DEFINE E == {k \in DOMAIN active_flows : IpProto[k] = proto}
            R == {Record(active_flows, k, complete, LastPacket(log, active_flows[k]).ts)
                    : k \in E}
<1>1. /\ Account(active_flows, 0, E, {})
      /\ exported' = exported \cup R
      /\ log' = log /\ n_flows' = n_flows /\ next_id' = next_id
      /\ last_to_check' = last_to_check
  BY Zenon DEF ForceExport
<1>2. TableOK(active_flows, log)
  BY DEF TypeInv, TypeOK, FlowsOK, TableOK
<1>3. RecordsOf(active_flows, E, R)
  <2>. HIDE DEF E
  <2>. DEFINE c == [k \in E |-> complete]
              t == [k \in E |-> LastPacket(log, active_flows[k]).ts]
  <2>1. R = {Record(active_flows, k, c[k], t[k]) : k \in E}
    OBVIOUS
  <2>. HIDE DEF c, t, R
  <2>. QED  BY <2>1, RecordsOfFlows
<1>4. E \subseteq DOMAIN active_flows
  OBVIOUS
<1>. HIDE DEF E, R
<1>5. Leave(active_flows, E, {}, R)
  BY <1>1, <1>3, <1>4 DEF Leave, Account, Staying, NFlowsProcessedPlus
<1>6. ForceStep(E, {}, R)
  BY <1>1, <1>2, <1>5 DEF ForceStep
<1>. QED
  BY <1>6, Zenon

LEMMA ForceCheckLastAckStep ==
    ASSUME TypeInv, ForceCheckLastAck
    PROVE  \E E, D, R : ForceStep(E, D, R)
<1>. DEFINE D == CheckLastAck(log, active_flows)
<1>1. /\ Account(active_flows, 0, {}, D)
      /\ log' = log /\ exported' = exported /\ n_flows' = n_flows
      /\ next_id' = next_id /\ last_to_check' = last_to_check
  BY DEF ForceCheckLastAck
<1>2. TableOK(active_flows, log)
  BY DEF TypeInv, TypeOK, FlowsOK, TableOK
<1>3. D \subseteq DOMAIN active_flows /\ \A k \in D : IsLastAck(log, k, active_flows[k])
  BY DEF CheckLastAck
<1>4. RecordsOf(active_flows, {}, {})
  BY DEF RecordsOf
<1>. HIDE DEF D
<1>5. Leave(active_flows, {}, D, {})
  BY <1>1, <1>3, <1>4 DEF Leave, Account, Staying, NFlowsProcessedPlus
<1>6. ForceStep({}, D, {})
  BY <1>1, <1>2, <1>3, <1>5 DEF ForceStep
<1>. QED
  BY <1>6, Zenon

\* What every step of the table is.
LEMMA NextCases ==
    ASSUME TypeInv, [Next]_vars
    PROVE  \/ UNCHANGED <<log, active_flows, exported, deleted, n_flows_processed,
                          n_flows, next_id, last_to_check>>
           \/ \E p \in Packets : \E table, closed, timed_out, acks :
                 AddStep(p, table, closed, timed_out, acks)
           \/ \E E, D, R : ForceStep(E, D, R)
<1>1. CASE (\E set \in BOOLEAN : SetCallback(set)) \/ AddPacketThrows \/ UNCHANGED vars
  BY <1>1 DEF SetCallback, AddPacketThrows, vars, counters
<1>2. ASSUME NEW p \in Packets, AddPacket(p)
      PROVE  \E q \in Packets : \E table, closed, timed_out, acks :
                AddStep(q, table, closed, timed_out, acks)
  BY <1>2, AddPacketStep, Zenon
<1>3. ASSUME NEW proto \in {"udp", "tcp"}, NEW complete \in BOOLEAN,
             ForceExport(proto, complete)
      PROVE  \E E, D, R : ForceStep(E, D, R)
  BY <1>3, ForceExportStep, Zenon
<1>4. CASE ForceCheckLastAck
  BY <1>4, ForceCheckLastAckStep, Zenon
<1>. QED
  BY <1>1, <1>2, <1>3, <1>4, Zenon DEF Next, CaptureNext

\* Where packets and records are after flows left a table.
LEMMA LeaveTable ==
    ASSUME NEW table, NEW E, NEW D, NEW R, Leave(table, E, D, R)
    PROVE  /\ DOMAIN active_flows' = DOMAIN table \ (E \cup D)
           /\ \A k \in DOMAIN table \ (E \cup D) : active_flows'[k] = table[k]
BY DEF Leave, Without

LEMMA LeaveInTable ==
    ASSUME NEW table, NEW E, NEW D, NEW R, Leave(table, E, D, R)
    PROVE  \A n \in InTable' : \E k \in DOMAIN table \ (E \cup D) : n \in table[k].pkts
<1>1. /\ DOMAIN active_flows' = DOMAIN table \ (E \cup D)
      /\ \A k \in DOMAIN table \ (E \cup D) : active_flows'[k] = table[k]
  BY LeaveTable
<1>. QED
  BY <1>1 DEF InTable, Held

LEMMA LeaveDeleted ==
    ASSUME NEW table, NEW E, NEW D, NEW R, Leave(table, E, D, R)
    PROVE  \A n \in InDeleted' : n \in InDeleted \/ \E k \in D : n \in table[k].pkts
<1>1. \A k \in D : Remains(table, k).pkts = table[k].pkts
  BY DEF Remains
<1>2. deleted' = deleted \cup {Remains(table, k) : k \in D}
  BY DEF Leave
<1>. QED
  BY <1>1, <1>2 DEF InDeleted

LEMMA LeaveExported ==
    ASSUME NEW table, NEW E, NEW D, NEW R, Leave(table, E, D, R)
    PROVE  \A c \in exported' :
               c \in exported \/ (c \in R /\ c.key \in E /\ c.pkts = table[c.key].pkts)
BY DEF Leave, RecordsOf

\* Packets that were somewhere before the call are in the log of before.
LEMMA OldPackets ==
    ASSUME PacketInv
    PROVE  /\ Len(log) \in Nat
           /\ InTable \subseteq 1 .. Len(log)
           /\ \A c \in exported : c.pkts \in SUBSET (1 .. Len(log))
           /\ \A d \in deleted : d.pkts \in SUBSET (1 .. Len(log))
           /\ \A k \in DOMAIN active_flows : active_flows[k].pkts \in SUBSET (1 .. Len(log))
<1>1. Len(log) \in Nat
  BY DEF PacketInv, TypeInv, TypeOK
<1>2. /\ InTable \subseteq 1 .. Len(log) /\ InExports \subseteq 1 .. Len(log)
      /\ InDeleted \subseteq 1 .. Len(log)
  BY DEF PacketInv, Conservation
<1>3. \A c \in exported : c.pkts \subseteq InExports
  BY DEF InExports
<1>4. \A d \in deleted : d.pkts \subseteq InDeleted
  BY DEF InDeleted
<1>5. \A k \in DOMAIN active_flows : active_flows[k].pkts \subseteq InTable
  BY DEF InTable, Held
<1>. QED
  BY <1>1, <1>2, <1>3, <1>4, <1>5

-----------------------------------------------------------------------------
(***************************************************************************)
(* A FIN ends its flow                                                     *)
(***************************************************************************)

\* No flow but the one the packet closes holds a FIN once it is in the table.
LEMMA OnlyClosedHasFin ==
    ASSUME PacketInv, FinEndsFlow, NEW p \in Packets,
           NEW table, NEW closed, NEW timed_out, NEW acks,
           AddStep(p, table, closed, timed_out, acks),
           NEW k \in DOMAIN table \ closed, NEW n \in table[k].pkts, IpProto[k] = "tcp"
    PROVE  "fin" \notin log'[n].flags
<1>1. CASE k \in DOMAIN active_flows /\ n \in active_flows[k].pkts
  <2>1. n \in InTable /\ n \in 1 .. Len(log) /\ log[n].key = k
    BY <1>1 DEF InTable, Held, PacketInv, TypeInv, FlowsOK
  <2>2. log'[n] = log[n]
    BY <2>1 DEF AddStep, Arrives
  <2>. QED  BY <2>1, <2>2 DEF FinEndsFlow
<1>2. CASE k = p.key /\ n = Len(log) + 1
  <2>1. log'[n] = p
    BY <1>2 DEF AddStep, Arrives
  <2>. QED  BY <1>2, <2>1 DEF AddStep, CheckEvict
<1>. QED
  BY <1>1, <1>2 DEF AddStep, Joins

LEMMA AddStepFins ==
    ASSUME PacketInv, FinEndsFlow, NEW p \in Packets,
           NEW table, NEW closed, NEW timed_out, NEW acks,
           AddStep(p, table, closed, timed_out, acks)
    PROVE  FinEndsFlow'
<1>0. PICK E, R : E = closed \cup timed_out /\ Leave(table, E, acks, R)
  BY Zenon DEF AddStep
<1>1. /\ E \subseteq DOMAIN table
      /\ \A k \in DOMAIN table : \A n \in table[k].pkts :
            n \in 1 .. Len(log) + 1 /\ log'[n].key = k
      /\ \A i \in 1 .. Len(log) : log'[i] = log[i]
      /\ acks \subseteq DOMAIN table \ closed
  BY <1>0 DEF AddStep, Arrives, Joins, TableOK, Leave
<1>6. /\ \A n \in InTable' : \E k \in DOMAIN table \ (E \cup acks) : n \in table[k].pkts
      /\ \A n \in InDeleted' : n \in InDeleted \/ \E k \in acks : n \in table[k].pkts
      /\ \A c \in exported' :
            c \in exported \/ (c \in R /\ c.key \in E /\ c.pkts = table[c.key].pkts)
  BY <1>0, LeaveInTable, LeaveDeleted, LeaveExported
<1>2. \A k \in DOMAIN table \ closed : \A n \in table[k].pkts :
         IpProto[k] = "tcp" => "fin" \notin log'[n].flags
  BY OnlyClosedHasFin
<1>3. \A n \in InTable' : IpProto[log'[n].key] = "tcp" => "fin" \notin log'[n].flags
  <2>1. \A n \in InTable' : \E k \in DOMAIN table \ closed : n \in table[k].pkts
    BY <1>0, <1>6
  <2>. QED  BY <1>1, <1>2, <2>1
<1>4. \A n \in InDeleted' : IpProto[log'[n].key] = "tcp" => "fin" \notin log'[n].flags
  <2>1. SUFFICES ASSUME NEW n \in InDeleted', IpProto[log'[n].key] = "tcp"
                 PROVE  "fin" \notin log'[n].flags
    OBVIOUS
  <2>2. CASE n \in InDeleted
    <3>1. n \in 1 .. Len(log)
      BY <2>2 DEF PacketInv, Conservation
    <3>. QED  BY <1>1, <2>1, <2>2, <3>1 DEF FinEndsFlow
  <2>3. CASE \E k \in acks : n \in table[k].pkts
    BY <1>1, <1>2, <2>1, <2>3
  <2>. QED  BY <1>6, <2>2, <2>3
<1>5. \A c \in exported' : \A n \in c.pkts :
         (IpProto[c.key] = "tcp" /\ "fin" \in log'[n].flags) => n = Max(c.pkts)
  <2>1. SUFFICES ASSUME NEW c \in exported', NEW n \in c.pkts,
                        IpProto[c.key] = "tcp", "fin" \in log'[n].flags
                 PROVE  n = Max(c.pkts)
    OBVIOUS
  <2>2. CASE c \in exported
    <3>1. n \in 1 .. Len(log)
      BY <2>2, OldPackets
    <3>. QED  BY <1>1, <2>1, <2>2, <3>1 DEF FinEndsFlow
  <2>3. CASE c.key \in E /\ c.pkts = table[c.key].pkts
    <3>1. c.key \in DOMAIN table
      BY <1>1, <2>3
    <3>2. n = Len(log) + 1
      <4>1. ASSUME n \in 1 .. Len(log)
            PROVE  FALSE
        <5>1. log[n].key = c.key /\ "fin" \in log[n].flags
          BY <1>1, <2>1, <2>3, <3>1, <4>1
        <5>2. n \in InTable
          <6>1. n # Len(log) + 1
            BY <4>1, OldPackets
          <6>2. c.key \in DOMAIN active_flows /\ n \in active_flows[c.key].pkts
            BY <2>3, <3>1, <6>1 DEF AddStep, Joins
          <6>. QED  BY <6>2 DEF InTable, Held
        <5>. QED  BY <2>1, <5>1, <5>2 DEF FinEndsFlow
      <4>. QED  BY <1>1, <2>3, <3>1, <4>1, OldPackets
    <3>3. c.pkts \in SUBSET (1 .. Len(log) + 1) /\ Len(log) + 1 \in Nat
      BY <1>1, <2>3, <3>1, OldPackets
    <3>4. Max(c.pkts) \in c.pkts /\ \A x \in c.pkts : x <= Max(c.pkts)
      BY <3>3, MaxOfBounded
    <3>. QED  BY <3>2, <3>3, <3>4
  <2>. QED  BY <1>6, <2>2, <2>3
<1>. QED
  BY <1>3, <1>4, <1>5 DEF FinEndsFlow

LEMMA ForceStepFins ==
    ASSUME PacketInv, FinEndsFlow, NEW E, NEW D, NEW R, ForceStep(E, D, R)
    PROVE  FinEndsFlow'
<1>1. /\ Leave(active_flows, E, D, R) /\ log' = log
      /\ TableOK(active_flows, log)
      /\ E \subseteq DOMAIN active_flows /\ D \subseteq DOMAIN active_flows
  BY DEF ForceStep, Leave
<1>2. /\ \A n \in InTable' :
            \E k \in DOMAIN active_flows \ (E \cup D) : n \in active_flows[k].pkts
      /\ \A n \in InDeleted' : n \in InDeleted \/ \E k \in D : n \in active_flows[k].pkts
      /\ \A c \in exported' :
            c \in exported \/ (c.key \in E /\ c.pkts = active_flows[c.key].pkts)
  BY <1>1, LeaveInTable, LeaveDeleted, LeaveExported
<1>3. \A k \in DOMAIN active_flows : active_flows[k].pkts \subseteq InTable
  BY DEF InTable, Held
<1>4. InTable' \subseteq InTable /\ InDeleted' \subseteq InTable \cup InDeleted
  BY <1>1, <1>2, <1>3
<1>5. \A c \in exported' : c \in exported \/
         \A n \in c.pkts : IpProto[c.key] = "tcp" => "fin" \notin log[n].flags
  BY <1>1, <1>2, <1>3 DEF FinEndsFlow, TableOK
<1>. QED
  BY <1>1, <1>4, <1>5 DEF FinEndsFlow

LEMMA NextFins == PacketInv /\ FinEndsFlow /\ [Next]_vars => FinEndsFlow'
<1>. SUFFICES ASSUME PacketInv, FinEndsFlow, [Next]_vars
              PROVE  FinEndsFlow'
  OBVIOUS
<1>1. CASE UNCHANGED <<log, active_flows, exported, deleted, n_flows_processed,
                       n_flows, next_id, last_to_check>>
  BY <1>1 DEF FinEndsFlow, InTable, Held, InDeleted
<1>2. ASSUME NEW p \in Packets, NEW table, NEW closed, NEW timed_out, NEW acks,
             AddStep(p, table, closed, timed_out, acks)
      PROVE  FinEndsFlow'
  BY <1>2, AddStepFins
<1>3. ASSUME NEW E, NEW D, NEW R, ForceStep(E, D, R)
      PROVE  FinEndsFlow'
  BY <1>3, ForceStepFins
<1>4. TypeInv
  BY DEF PacketInv
<1>. QED
  BY <1>1, <1>2, <1>3, <1>4, NextCases

LEMMA InitFins == Init => FinEndsFlow
BY DEF Init, FinEndsFlow, InTable, Held, InDeleted

\* Whatever the calls, a FIN ends its flow in the call that delivers it: the
\* flow it belongs to is neither in the table afterwards nor deleted later, and
\* no exported flow goes on after a FIN.
THEOREM FinsEndFlows == Spec => []FinEndsFlow
<1>1. Init => PacketInv /\ FinEndsFlow
  BY InitPacketInv, InitFins
<1>2. PacketInv /\ FinEndsFlow /\ [Next]_vars => (PacketInv /\ FinEndsFlow)'
  BY NextPacketInv, NextFins
<1>. QED
  BY <1>1, <1>2, PTL DEF Spec

-----------------------------------------------------------------------------
(***************************************************************************)
(* What _check_last_ack may delete                                         *)
(***************************************************************************)

\* A flow that the lambda is_last_ack accepts is one TCP segment.
LEMMA LastAckIsLone ==
    ASSUME NEW l \in Seq(Packets), NEW table, TableOK(table, l),
           NEW k \in DOMAIN table, IsLastAck(l, k, table[k])
    PROVE  \E n \in 1 .. Len(l) :
              /\ table[k].pkts = {n} /\ IpProto[k] = "tcp"
              /\ "ack" \in l[n].flags /\ "syn" \notin l[n].flags
<1>1. /\ table[k].pkts \in SUBSET (1 .. Len(l)) /\ table[k].pkts # {} /\ Len(l) \in Nat
      /\ Cardinality(table[k].pkts) = 1
  BY DEF TableOK, IsLastAck
<1>2. IsFiniteSet(table[k].pkts)
  <2>1. IsFiniteSet(1 .. Len(l))
    BY <1>1, FS_Interval
  <2>. QED  BY <1>1, <2>1, FS_Subset
<1>3. PICK n : table[k].pkts = {n}
  BY <1>1, <1>2, FS_Singleton
<1>4. Max(table[k].pkts) = n
  BY <1>1, <1>3, MaxOfBounded
<1>. QED
  BY <1>1, <1>3, <1>4 DEF IsLastAck, LastPacket

LEMMA AddStepLoneAcks ==
    ASSUME PacketInv, FinEndsFlow, OnlyLoneAcksVanish, NEW p \in Packets,
           NEW table, NEW closed, NEW timed_out, NEW acks,
           AddStep(p, table, closed, timed_out, acks)
    PROVE  OnlyLoneAcksVanish'
<1>0. PICK E, R : E = closed \cup timed_out /\ Leave(table, E, acks, R)
  BY Zenon DEF AddStep
<1>1. /\ TableOK(table, log') /\ log' \in Seq(Packets) /\ Len(log') = Len(log) + 1
      /\ \A i \in 1 .. Len(log) : log'[i] = log[i]
      /\ acks \subseteq DOMAIN table \ closed
      /\ \A k \in acks : IsLastAck(log', k, table[k])
  BY DEF AddStep, Arrives, Joins
<1>2. deleted' = deleted \cup {Remains(table, k) : k \in acks}
  BY <1>0 DEF Leave
<1>3. ASSUME NEW d \in deleted
      PROVE  \E n \in 1 .. Len(log') :
                /\ d.pkts = {n} /\ IpProto[d.key] = "tcp"
                /\ "ack" \in log'[n].flags /\ {"syn", "fin"} \cap log'[n].flags = {}
  <2>1. PICK n \in 1 .. Len(log) :
              /\ d.pkts = {n} /\ IpProto[d.key] = "tcp"
              /\ "ack" \in log[n].flags /\ {"syn", "fin"} \cap log[n].flags = {}
    BY DEF OnlyLoneAcksVanish
  <2>2. n \in 1 .. Len(log') /\ log'[n] = log[n]
    BY <1>1, OldPackets
  <2>. QED  BY <2>1, <2>2
<1>4. ASSUME NEW k \in acks
      PROVE  \E n \in 1 .. Len(log') :
                /\ Remains(table, k).pkts = {n} /\ IpProto[Remains(table, k).key] = "tcp"
                /\ "ack" \in log'[n].flags /\ {"syn", "fin"} \cap log'[n].flags = {}
  <2>1. PICK n \in 1 .. Len(log') :
              /\ table[k].pkts = {n} /\ IpProto[k] = "tcp"
              /\ "ack" \in log'[n].flags /\ "syn" \notin log'[n].flags
    BY <1>1, LastAckIsLone
  <2>2. "fin" \notin log'[n].flags
    BY <1>1, <2>1, OnlyClosedHasFin
  <2>3. Remains(table, k).pkts = table[k].pkts /\ Remains(table, k).key = k
    BY DEF Remains
  <2>. QED  BY <2>1, <2>2, <2>3
<1>. QED
  BY <1>2, <1>3, <1>4 DEF OnlyLoneAcksVanish

LEMMA ForceStepLoneAcks ==
    ASSUME PacketInv, FinEndsFlow, OnlyLoneAcksVanish,
           NEW E, NEW D, NEW R, ForceStep(E, D, R)
    PROVE  OnlyLoneAcksVanish'
<1>1. /\ TableOK(active_flows, log) /\ log' = log /\ log \in Seq(Packets)
      /\ D \subseteq DOMAIN active_flows
      /\ \A k \in D : IsLastAck(log, k, active_flows[k])
      /\ deleted' = deleted \cup {Remains(active_flows, k) : k \in D}
  BY DEF ForceStep, Leave, PacketInv, TypeInv, TypeOK
<1>2. ASSUME NEW k \in D
      PROVE  \E n \in 1 .. Len(log) :
                /\ Remains(active_flows, k).pkts = {n}
                /\ IpProto[Remains(active_flows, k).key] = "tcp"
                /\ "ack" \in log[n].flags /\ {"syn", "fin"} \cap log[n].flags = {}
  <2>1. PICK n \in 1 .. Len(log) :
              /\ active_flows[k].pkts = {n} /\ IpProto[k] = "tcp"
              /\ "ack" \in log[n].flags /\ "syn" \notin log[n].flags
    BY <1>1, LastAckIsLone
  <2>2. n \in InTable /\ log[n].key = k
    BY <1>1, <2>1 DEF InTable, Held, TableOK
  <2>3. "fin" \notin log[n].flags
    BY <2>1, <2>2 DEF FinEndsFlow
  <2>4. Remains(active_flows, k).pkts = active_flows[k].pkts /\ Remains(active_flows, k).key = k
    BY DEF Remains
  <2>. QED  BY <2>1, <2>3, <2>4
<1>. QED
  BY <1>1, <1>2 DEF OnlyLoneAcksVanish

LEMMA InitLoneAcks == Init => OnlyLoneAcksVanish
BY DEF Init, OnlyLoneAcksVanish

LEMMA NextLoneAcks ==
    PacketInv /\ FinEndsFlow /\ OnlyLoneAcksVanish /\ [Next]_vars => OnlyLoneAcksVanish'
<1>. SUFFICES ASSUME PacketInv, FinEndsFlow, OnlyLoneAcksVanish, [Next]_vars
              PROVE  OnlyLoneAcksVanish'
  OBVIOUS
<1>1. CASE UNCHANGED <<log, active_flows, exported, deleted, n_flows_processed,
                       n_flows, next_id, last_to_check>>
  BY <1>1 DEF OnlyLoneAcksVanish
<1>2. ASSUME NEW p \in Packets, NEW table, NEW closed, NEW timed_out, NEW acks,
             AddStep(p, table, closed, timed_out, acks)
      PROVE  OnlyLoneAcksVanish'
  BY <1>2, AddStepLoneAcks
<1>3. ASSUME NEW E, NEW D, NEW R, ForceStep(E, D, R)
      PROVE  OnlyLoneAcksVanish'
  BY <1>3, ForceStepLoneAcks
<1>4. TypeInv
  BY DEF PacketInv
<1>. QED
  BY <1>1, <1>2, <1>3, <1>4, NextCases

\* Whatever the calls, what is destroyed without export is a single TCP segment
\* with ACK and without SYN or FIN: no flow of data is lost to the last ACK check.
THEOREM OnlyAcksDeleted == Spec => []OnlyLoneAcksVanish
<1>. DEFINE I == PacketInv /\ FinEndsFlow /\ OnlyLoneAcksVanish
<1>1. Init => I
  BY InitPacketInv, InitFins, InitLoneAcks
<1>2. I /\ [Next]_vars => I'
  BY NextPacketInv, NextFins, NextLoneAcks
<1>3. I => OnlyLoneAcksVanish
  OBVIOUS
<1>. QED
  BY <1>1, <1>2, <1>3, PTL DEF Spec

-----------------------------------------------------------------------------
(***************************************************************************)
(* Ids number the flows                                                    *)
(***************************************************************************)

\* The order of flows by their packets.
AllBefore(f, g) == \A m \in f.pkts : \A n \in g.pkts : m < n
FirstBefore(f, g) == \E m \in f.pkts : \A n \in g.pkts : m < n

LEMMA OrderOfFlows ==
    ASSUME NEW N \in Nat, NEW f, NEW g,
           f.pkts \in SUBSET (1 .. N), f.pkts # {},
           g.pkts \in SUBSET (1 .. N), g.pkts # {}
    PROVE  /\ AllBefore(f, g) <=> Max(f.pkts) < Min(g.pkts)
           /\ FirstBefore(f, g) <=> Min(f.pkts) < Min(g.pkts)
<1>. DEFINE S == f.pkts
            T == g.pkts
<1>1. /\ Max(S) \in S /\ \A x \in S : x <= Max(S)
      /\ Min(S) \in S /\ \A x \in S : Min(S) <= x
      /\ Min(T) \in T /\ \A x \in T : Min(T) <= x
  BY MaxOfBounded, MinOfBounded
<1>. HIDE DEF S, T
<1>2. (\A m \in S : \A n \in T : m < n) <=> Max(S) < Min(T)
  BY <1>1 DEF S, T
<1>3. (\E m \in S : \A n \in T : m < n) <=> Min(S) < Min(T)
  BY <1>1 DEF S, T
<1>. QED
  BY <1>2, <1>3 DEF S, T, AllBefore, FirstBefore

\* What FlowIdentity says of two flows.
Related(f, g) ==
    /\ f.id = g.id => f = g
    /\ f.id < g.id => FirstBefore(f, g) /\ (f.key = g.key => AllBefore(f, g))

OwnPackets(f, l) == f.pkts # {} /\ \A n \in f.pkts : l[n].key = f.key

\* The flow a record is of.
FlowOf(c) == [key |-> c.key, id |-> c.id, pkts |-> c.pkts]

\* All flows, of which those not exported or deleted are in table.
FlowsWith(table) ==
    {Remains(table, k) : k \in DOMAIN table} \cup deleted \cup {FlowOf(c) : c \in exported}

\* The inductive invariant: FlowIdentity, and a flow in the table is the newest
\* of its key, so that the next packet of the key may join it.
IdInv ==
    /\ IsFiniteSet(exported) /\ n_flows_processed = Cardinality(exported)
    /\ {f.id : f \in AllFlows} = 1 .. next_id - 1 /\ n_flows = next_id - 1
    /\ \A f \in AllFlows : OwnPackets(f, log)
    /\ \A f, g \in AllFlows : Related(f, g)
    /\ \A f \in AllFlows : \A k \in DOMAIN active_flows :
          f.key = k => f.id <= active_flows[k].id

LEMMA AllFlowsWith == AllFlows = FlowsWith(active_flows)
BY DEF AllFlows, FlowsWith, FlowOf

LEMMA FlowTypes ==
    ASSUME PacketInv, NEW f \in AllFlows
    PROVE  f.id \in Nat /\ f.pkts \in SUBSET (1 .. Len(log))
<1>1. CASE f \in deleted
  BY <1>1, OldPackets DEF PacketInv, TypeInv, TypeOK, Deleted
<1>2. ASSUME NEW k \in DOMAIN active_flows, f = Remains(active_flows, k)
      PROVE  f.id \in Nat /\ f.pkts \in SUBSET (1 .. Len(log))
  <2>1. active_flows[k] \in Flow /\ active_flows[k].pkts \subseteq 1 .. Len(log)
    BY DEF PacketInv, TypeInv, TypeOK, FlowsOK
  <2>. QED  BY <1>2, <2>1 DEF Remains, Flow
<1>3. ASSUME NEW c \in exported, f = FlowOf(c)
      PROVE  f.id \in Nat /\ f.pkts \in SUBSET (1 .. Len(log))
  <2>1. c \in CLFR /\ c.pkts \in SUBSET (1 .. Len(log))
    BY OldPackets DEF PacketInv, TypeInv, TypeOK
  <2>. QED  BY <1>3, <2>1 DEF FlowOf, CLFR
<1>. QED
  BY <1>1, <1>2, <1>3, AllFlowsWith DEF FlowsWith

LEMMA InvGivesIdentity ==
    ASSUME PacketInv, IdInv
    PROVE  FlowIdentity
<1>1. Len(log) \in Nat
  BY OldPackets
<1>2. \A f, g \in AllFlows :
          /\ f.id < g.id => /\ Min(f.pkts) < Min(g.pkts)
                            /\ f.key = g.key => Max(f.pkts) < Min(g.pkts)
  <2>. SUFFICES ASSUME NEW f \in AllFlows, NEW g \in AllFlows, f.id < g.id
                PROVE  /\ Min(f.pkts) < Min(g.pkts)
                       /\ f.key = g.key => Max(f.pkts) < Min(g.pkts)
    OBVIOUS
  <2>1. /\ f.pkts \in SUBSET (1 .. Len(log)) /\ f.pkts # {}
        /\ g.pkts \in SUBSET (1 .. Len(log)) /\ g.pkts # {}
    BY FlowTypes DEF IdInv, OwnPackets
  <2>2. FirstBefore(f, g) /\ (f.key = g.key => AllBefore(f, g))
    BY DEF IdInv, Related
  <2>. QED  BY <1>1, <2>1, <2>2, OrderOfFlows
<1>. QED
  BY <1>2 DEF IdInv, FlowIdentity, Related, OwnPackets

\* Flows that leave the table do not cease to exist.
LEMMA LeaveAllFlows ==
    ASSUME NEW table, NEW E, NEW D, NEW R, Leave(table, E, D, R)
    PROVE  AllFlows' = FlowsWith(table)
<1>1. /\ DOMAIN active_flows' = DOMAIN table \ (E \cup D)
      /\ \A k \in DOMAIN table \ (E \cup D) : active_flows'[k] = table[k]
  BY LeaveTable
<1>2. \A k \in DOMAIN active_flows' : Remains(active_flows', k) = Remains(table, k)
  BY <1>1 DEF Remains
<1>3. {FlowOf(c) : c \in R} = {Remains(table, k) : k \in E}
  <2>1. \A r \in R : r.key \in E /\ FlowOf(r) = Remains(table, r.key)
    BY DEF Leave, RecordsOf, FlowOf, Remains
  <2>2. \A k \in E : \E r \in R : r.key = k
    BY DEF Leave, RecordsOf
  <2>. QED  BY <2>1, <2>2
<1>4. /\ deleted' = deleted \cup {Remains(table, k) : k \in D}
      /\ exported' = exported \cup R
      /\ E \subseteq DOMAIN table /\ D \subseteq DOMAIN table
  BY DEF Leave
<1>5. AllFlows' = {Remains(active_flows', k) : k \in DOMAIN active_flows'}
                    \cup deleted' \cup {FlowOf(c) : c \in exported'}
  BY DEF AllFlows, FlowOf
<1>6. {Remains(active_flows', k) : k \in DOMAIN active_flows'} =
         {Remains(table, k) : k \in DOMAIN table \ (E \cup D)}
  BY <1>1, <1>2
<1>7. {FlowOf(c) : c \in exported'} = {FlowOf(c) : c \in exported} \cup {Remains(table, k) : k \in E}
  BY <1>3, <1>4
<1>8. {Remains(table, k) : k \in DOMAIN table} =
         {Remains(table, k) : k \in DOMAIN table \ (E \cup D)}
            \cup {Remains(table, k) : k \in D} \cup {Remains(table, k) : k \in E}
  BY <1>4
<1>. QED
  BY <1>4, <1>5, <1>6, <1>7, <1>8 DEF FlowsWith

\* Each flow that leaves as a record is counted once.
LEMMA LeaveCounted ==
    ASSUME PacketInv, IdInv, NEW table, NEW l, TableOK(table, l),
           NEW E, NEW D, NEW R, Leave(table, E, D, R),
           \A k \in DOMAIN table : table[k].pkts \cap InExports = {}
    PROVE  IsFiniteSet(exported') /\ n_flows_processed' = Cardinality(exported')
<1>1. /\ E \subseteq DOMAIN table /\ exported' = exported \cup R
      /\ n_flows_processed' = n_flows_processed + Cardinality(E)
      /\ \A r \in R : r.key \in E /\ r.pkts = table[r.key].pkts
      /\ \A k \in E : \E r \in R : r.key = k
      /\ \A r, q \in R : r.key = q.key => r = q
  BY DEF Leave, RecordsOf
<1>2. IsFiniteSet(E)
  <2>1. E \in SUBSET Keys
    BY <1>1 DEF TableOK
  <2>. QED  BY <2>1, KeyAssumption, FS_Subset
<1>3. IsFiniteSet(R) /\ Cardinality(R) = Cardinality(E)
  <2>. DEFINE g == [k \in E |-> CHOOSE r \in R : r.key = k]
  <2>1. \A k \in E : g[k] \in R /\ g[k].key = k
    BY <1>1
  <2>. HIDE DEF g
  <2>2. g \in [E -> R]
    BY <2>1 DEF g
  <2>3. \A r \in R : \E k \in E : g[k] = r
    BY <1>1, <2>1
  <2>4. \A j, k \in E : g[j] = g[k] => j = k
    BY <2>1
  <2>5. g \in Bijection(E, R)
    BY <2>2, <2>3, <2>4 DEF Bijection, Injection, Surjection, IsInjective
  <2>. QED  BY <1>2, <2>5, FS_Bijection DEF ExistsBijection
<1>4. exported \cap R = {}
  <2>1. \A c \in exported : c.pkts \subseteq InExports
    BY DEF InExports
  <2>2. \A r \in R : r.pkts # {} /\ r.pkts \cap InExports = {}
    BY <1>1 DEF TableOK
  <2>. QED  BY <2>1, <2>2
<1>. QED
  BY <1>1, <1>2, <1>3, <1>4, DisjointUnion DEF IdInv

\* The flow that packet p joins, once p is in it, comes after all others of
\* its key; the others are what they were.
LEMMA JoinedFlow ==
    ASSUME PacketInv, IdInv, NEW p \in Packets, NEW table, Arrives(p), Joins(p, table),
           NEW f \in FlowsWith(table), f # Remains(table, p.key)
    PROVE  /\ f \in AllFlows
           /\ f.id # table[p.key].id
           /\ p.key \in DOMAIN active_flows => f # Remains(active_flows, p.key)
<1>. DEFINE q == p.key
            O == Remains(active_flows, q)
<1>1. \A k \in DOMAIN table : k # q => Remains(table, k) = Remains(active_flows, k)
  BY DEF Joins, Remains
<1>2. f \in AllFlows
  <2>1. CASE f \in deleted \/ \E c \in exported : f = FlowOf(c)
    BY <2>1, AllFlowsWith DEF FlowsWith
  <2>2. ASSUME NEW k \in DOMAIN table, f = Remains(table, k)
        PROVE  f \in AllFlows
    <3>1. k # q
      BY <2>2
    <3>2. k \in DOMAIN active_flows /\ f = Remains(active_flows, k)
      BY <1>1, <2>2, <3>1 DEF Joins
    <3>. QED  BY <3>2, AllFlowsWith DEF FlowsWith
  <2>. QED  BY <2>1, <2>2 DEF FlowsWith
<1>3. CASE q \notin DOMAIN active_flows
  <2>1. f.id \in 1 .. next_id - 1
    BY <1>2 DEF IdInv
  <2>2. table[q].id = next_id /\ next_id \in Nat
    BY <1>3 DEF Joins, PacketInv, TypeInv, TypeOK
  <2>. QED  BY <1>2, <1>3, <2>1, <2>2
<1>4. CASE q \in DOMAIN active_flows
  <2>1. O \in AllFlows /\ O.id = table[q].id /\ O.key = q /\ O.pkts = active_flows[q].pkts
    BY <1>4, AllFlowsWith DEF FlowsWith, Joins, Remains
  <2>2. O.pkts # {} /\ O.pkts \subseteq InTable
    BY <1>4, <2>1 DEF PacketInv, TypeInv, FlowsOK, InTable, Held
  <2>3. f # O
    <3>1. CASE f \in deleted
      <4>1. f.pkts \subseteq InDeleted
        BY <3>1 DEF InDeleted
      <4>. QED  BY <2>2, <4>1 DEF PacketInv, Conservation
    <3>2. ASSUME NEW c \in exported, f = FlowOf(c)
          PROVE  f # O
      <4>1. f.pkts \subseteq InExports
        BY <3>2 DEF InExports, FlowOf
      <4>. QED  BY <2>2, <4>1 DEF PacketInv, Conservation
    <3>3. ASSUME NEW k \in DOMAIN table, f = Remains(table, k)
          PROVE  f # O
      <4>1. f.key = k /\ k # q
        BY <3>3 DEF Remains
      <4>. QED  BY <2>1, <4>1
    <3>. QED  BY <3>1, <3>2, <3>3 DEF FlowsWith
  <2>4. f.id # O.id
    BY <1>2, <2>1, <2>3 DEF IdInv, Related
  <2>. QED  BY <1>2, <2>1, <2>3, <2>4
<1>. QED
  BY <1>3, <1>4

\* A packet joins its flow, flows leave: the ids stay in order.
LEMMA JoinLeaveIdInv ==
    ASSUME PacketInv, IdInv, NEW p \in Packets, NEW table, Arrives(p), Joins(p, table),
           NEW E, NEW D, NEW R, Leave(table, E, D, R)
    PROVE  IdInv'
<1>. DEFINE q == p.key
            n == Len(log) + 1
            G == Remains(table, q)
            O == Remains(active_flows, q)
<1>1. /\ Arrives(p) /\ Joins(p, table) /\ TableOK(table, log')
      /\ Len(log) \in Nat /\ q \in DOMAIN table /\ next_id \in Nat \ {0}
  BY OldPackets DEF Joins, PacketInv, TypeInv, TypeOK
<1>2. AllFlows' = FlowsWith(table)
  BY LeaveAllFlows
<1>3. \A f \in FlowsWith(table) \ {G} :
         /\ f \in AllFlows /\ f.id # G.id
         /\ q \in DOMAIN active_flows => f # O
  BY <1>1, JoinedFlow DEF Remains
<1>4. G \in FlowsWith(table) /\ G.key = q /\ G.id = table[q].id /\ G.pkts = table[q].pkts
  BY <1>1 DEF FlowsWith, Remains
<1>5. \A f \in AllFlows : /\ f.id \in Nat /\ f.pkts \in SUBSET (1 .. Len(log)) /\ f.pkts # {}
                          /\ \A m \in f.pkts : log[m].key = f.key
                          /\ f.id \in 1 .. next_id - 1
  BY FlowTypes DEF IdInv, OwnPackets
<1>6. q \in DOMAIN active_flows =>
         /\ O \in AllFlows /\ O.id = G.id /\ O.key = q
         /\ G.pkts = O.pkts \cup {n} /\ next_id' = next_id /\ n_flows' = n_flows
  BY <1>1, <1>4, AllFlowsWith DEF FlowsWith, Joins, Remains
<1>7. q \notin DOMAIN active_flows =>
         G.id = next_id /\ G.pkts = {n} /\ next_id' = next_id + 1 /\ n_flows' = n_flows + 1
  BY <1>1, <1>4 DEF Joins
<1>8. \A f \in AllFlows : f \in FlowsWith(table) \/ (q \in DOMAIN active_flows /\ f = O)
  <2>1. \A k \in DOMAIN active_flows : k # q =>
           k \in DOMAIN table /\ Remains(table, k) = Remains(active_flows, k)
    BY <1>1 DEF Joins, Remains
  <2>. QED  BY <2>1, AllFlowsWith DEF FlowsWith
<1>. HIDE DEF G, O
<1>9. {f.id : f \in FlowsWith(table)} = 1 .. next_id' - 1 /\ n_flows' = next_id' - 1
  <2>1. {f.id : f \in AllFlows} = 1 .. next_id - 1 /\ n_flows = next_id - 1
    BY DEF IdInv
  <2>2. CASE q \in DOMAIN active_flows
    <3>1. {f.id : f \in FlowsWith(table)} = {f.id : f \in AllFlows}
      BY <1>3, <1>4, <1>6, <1>8, <2>2
    <3>. QED  BY <1>6, <2>1, <2>2, <3>1
  <2>3. CASE q \notin DOMAIN active_flows
    <3>1. {f.id : f \in FlowsWith(table)} = {f.id : f \in AllFlows} \cup {next_id}
      BY <1>3, <1>4, <1>7, <1>8, <2>3
    <3>2. 1 .. next_id' - 1 = (1 .. next_id - 1) \cup {next_id}
      BY <1>1, <1>7, <2>3
    <3>3. n_flows' = next_id' - 1
      BY <1>1, <1>7, <2>1, <2>3
    <3>. QED  BY <2>1, <3>1, <3>2, <3>3
  <2>. QED  BY <2>2, <2>3
<1>10. \A f \in FlowsWith(table) : OwnPackets(f, log')
  <2>1. OwnPackets(G, log')
    BY <1>1, <1>4 DEF OwnPackets, TableOK
  <2>2. \A i \in 1 .. Len(log) : log'[i] = log[i]
    BY <1>1 DEF Arrives
  <2>. QED  BY <1>3, <1>5, <2>1, <2>2 DEF OwnPackets
<1>11. \A f, g \in FlowsWith(table) : Related(f, g)
  <2>. SUFFICES ASSUME NEW f \in FlowsWith(table), NEW g \in FlowsWith(table)
                PROVE  Related(f, g)
    OBVIOUS
  <2>1. CASE f # G /\ g # G
    BY <1>3, <2>1 DEF IdInv
  <2>2. CASE f = G /\ g = G
    BY <1>1, <1>4, <2>2, <1>6, <1>7, <1>5 DEF Related
  <2>3. CASE f # G /\ g = G
    <3>1. f \in AllFlows /\ f.id # G.id
      BY <1>3, <2>3
    <3>2. \A m \in f.pkts : m < n
      BY <1>1, <1>5, <3>1
    <3>3. CASE q \notin DOMAIN active_flows
      BY <1>5, <1>7, <2>3, <3>1, <3>2, <3>3 DEF Related, FirstBefore, AllBefore
    <3>4. CASE q \in DOMAIN active_flows
      <4>1. Related(f, O)
        BY <1>6, <3>1, <3>4 DEF IdInv
      <4>. QED  BY <1>4, <1>5, <1>6, <2>3, <3>1, <3>2, <3>4, <4>1
                DEF Related, FirstBefore, AllBefore
    <3>. QED  BY <3>3, <3>4
  <2>4. CASE f = G /\ g # G
    <3>1. g \in AllFlows /\ g.id # G.id
      BY <1>3, <2>4
    <3>2. CASE q \notin DOMAIN active_flows
      BY <1>1, <1>5, <1>7, <2>4, <3>1, <3>2 DEF Related
    <3>3. CASE q \in DOMAIN active_flows
      <4>1. Related(O, g)
        BY <1>6, <3>1, <3>3 DEF IdInv
      <4>2. g.key = q => g.id <= G.id
        BY <1>6, <1>4, <3>1, <3>3, <1>1 DEF IdInv, Joins
      <4>. QED  BY <1>1, <1>4, <1>5, <1>6, <2>4, <3>1, <3>3, <4>1, <4>2
                DEF Related, FirstBefore, AllBefore
    <3>. QED  BY <3>2, <3>3
  <2>. QED  BY <2>1, <2>2, <2>3, <2>4
<1>12. \A f \in FlowsWith(table) : \A k \in DOMAIN active_flows' :
          f.key = k => f.id <= active_flows'[k].id
  <2>. SUFFICES ASSUME NEW f \in FlowsWith(table), NEW k \in DOMAIN active_flows', f.key = k
                PROVE  f.id <= active_flows'[k].id
    OBVIOUS
  <2>0. /\ DOMAIN active_flows' = DOMAIN table \ (E \cup D)
        /\ \A j \in DOMAIN table \ (E \cup D) : active_flows'[j] = table[j]
    BY LeaveTable
  <2>1. k \in DOMAIN table /\ active_flows'[k] = table[k]
    BY <2>0
  <2>2. CASE f = G
    BY <1>1, <1>4, <1>5, <1>6, <1>7, <2>1, <2>2
  <2>3. CASE f # G /\ k # q
    <3>1. f \in AllFlows /\ k \in DOMAIN active_flows /\ table[k] = active_flows[k]
      BY <1>1, <1>3, <2>1, <2>3 DEF Joins
    <3>. QED  BY <2>1, <3>1 DEF IdInv
  <2>4. CASE f # G /\ k = q /\ q \in DOMAIN active_flows
    <3>1. f \in AllFlows /\ table[k].id = active_flows[k].id
      BY <1>1, <1>3, <2>4 DEF Joins
    <3>. QED  BY <2>1, <2>4, <3>1 DEF IdInv
  <2>5. CASE f # G /\ k = q /\ q \notin DOMAIN active_flows
    BY <1>1, <1>3, <1>4, <1>5, <1>7, <2>1, <2>5
  <2>. QED  BY <2>2, <2>3, <2>4, <2>5
<1>13. IsFiniteSet(exported') /\ n_flows_processed' = Cardinality(exported')
  <2>1. \A k \in DOMAIN table : table[k].pkts \subseteq InTable \cup {n}
    BY <1>1 DEF Joins, InTable, Held
  <2>2. n \notin InExports /\ InTable \cap InExports = {}
    BY <1>1 DEF PacketInv, Conservation
  <2>3. \A k \in DOMAIN table : table[k].pkts \cap InExports = {}
    BY <2>1, <2>2
  <2>4. PICK l : l = log'
    OBVIOUS
  <2>5. TableOK(table, l)
    BY <1>1, <2>4
  <2>. QED  BY <2>3, <2>5, LeaveCounted
<1>. QED
  BY <1>2, <1>9, <1>10, <1>11, <1>12, <1>13 DEF IdInv

LEMMA AddStepIdInv ==
    ASSUME PacketInv, IdInv, NEW p \in Packets,
           NEW table, NEW closed, NEW timed_out, NEW acks,
           AddStep(p, table, closed, timed_out, acks)
    PROVE  IdInv'
<1>1. PICK E, R : Leave(table, E, acks, R)
  BY Zenon DEF AddStep
<1>2. Arrives(p) /\ Joins(p, table)
  BY DEF AddStep
<1>. QED
  BY <1>1, <1>2, JoinLeaveIdInv

\* Flows leave without a packet having arrived: the ids stay in order.
LEMMA LeaveIdInv ==
    ASSUME PacketInv, IdInv, log' = log, next_id' = next_id, n_flows' = n_flows,
           NEW E, NEW D, NEW R, Leave(active_flows, E, D, R)
    PROVE  IdInv'
<1>1. TableOK(active_flows, log)
  BY DEF PacketInv, TypeInv, TypeOK, FlowsOK, TableOK
<1>2. AllFlows' = AllFlows
  BY LeaveAllFlows, AllFlowsWith
<1>3. /\ DOMAIN active_flows' = DOMAIN active_flows \ (E \cup D)
      /\ \A k \in DOMAIN active_flows \ (E \cup D) : active_flows'[k] = active_flows[k]
  BY LeaveTable
<1>4. IsFiniteSet(exported') /\ n_flows_processed' = Cardinality(exported')
  <2>1. \A k \in DOMAIN active_flows : active_flows[k].pkts \subseteq InTable
    BY DEF InTable, Held
  <2>2. \A k \in DOMAIN active_flows : active_flows[k].pkts \cap InExports = {}
    BY <2>1 DEF PacketInv, Conservation
  <2>. QED  BY <1>1, <2>2, LeaveCounted
<1>. QED
  BY <1>2, <1>3, <1>4 DEF IdInv

LEMMA ForceStepIdInv ==
    ASSUME PacketInv, IdInv, NEW E, NEW D, NEW R, ForceStep(E, D, R)
    PROVE  IdInv'
<1>1. /\ Leave(active_flows, E, D, R)
      /\ log' = log /\ next_id' = next_id /\ n_flows' = n_flows
  BY DEF ForceStep
<1>. QED
  BY <1>1, LeaveIdInv

FlowInv == PacketInv /\ FinEndsFlow /\ IdInv

LEMMA InitFlowInv == Init => FlowInv
<1>. SUFFICES ASSUME Init
              PROVE  IdInv
  BY InitPacketInv, InitFins DEF FlowInv
<1>1. AllFlows = {} /\ DOMAIN active_flows = {}
  BY DEF Init, AllFlows
<1>2. exported = {} /\ n_flows_processed = 0 /\ next_id = 1 /\ n_flows = 0
  BY DEF Init
<1>3. IsFiniteSet(exported) /\ n_flows_processed = Cardinality(exported)
  BY <1>2, FS_EmptySet
<1>4. {f.id : f \in AllFlows} = 1 .. next_id - 1 /\ n_flows = next_id - 1
  BY <1>1, <1>2
<1>. QED
  BY <1>1, <1>3, <1>4 DEF IdInv

LEMMA NextFlowInv == FlowInv /\ [Next]_vars => FlowInv'
<1>. SUFFICES ASSUME FlowInv, [Next]_vars
              PROVE  IdInv'
  BY NextPacketInv, NextFins DEF FlowInv
<1>1. CASE UNCHANGED <<log, active_flows, exported, deleted, n_flows_processed,
                       n_flows, next_id, last_to_check>>
  <2>1. AllFlows' = AllFlows
    BY <1>1 DEF AllFlows
  <2>. QED  BY <1>1, <2>1 DEF FlowInv, IdInv
<1>2. ASSUME NEW p \in Packets, NEW table, NEW closed, NEW timed_out, NEW acks,
             AddStep(p, table, closed, timed_out, acks)
      PROVE  IdInv'
  BY <1>2, AddStepIdInv DEF FlowInv
<1>3. ASSUME NEW E, NEW D, NEW R, ForceStep(E, D, R)
      PROVE  IdInv'
  BY <1>3, ForceStepIdInv DEF FlowInv
<1>4. TypeInv
  BY DEF FlowInv, PacketInv
<1>. QED
  BY <1>1, <1>2, <1>3, <1>4, NextCases

\* Whatever the calls, ids are given out without gaps in the order of the
\* first packets, no flow is reopened after it left the map or split while it is
\* there, and _n_flows_processed is the number of exported records.
THEOREM FlowsIdentified == Spec => []FlowIdentity
<1>1. FlowInv => FlowIdentity
  BY InvGivesIdentity DEF FlowInv
<1>. QED
  BY <1>1, InitFlowInv, NextFlowInv, PTL DEF Spec

-----------------------------------------------------------------------------
(***************************************************************************)
(* Without the test hooks                                                  *)
(***************************************************************************)

\* Without the test hooks every step is an add_packet or leaves the flows alone.
LEMMA CaptureCases ==
    ASSUME TypeInv, [CaptureNext]_vars
    PROVE  \/ UNCHANGED <<log, active_flows, exported, deleted, n_flows_processed,
                          n_flows, next_id, last_to_check>>
           \/ \E p \in Packets : \E table, closed, timed_out, acks :
                 AddStep(p, table, closed, timed_out, acks)
<1>1. CASE (\E set \in BOOLEAN : SetCallback(set)) \/ AddPacketThrows \/ UNCHANGED vars
  BY <1>1 DEF SetCallback, AddPacketThrows, vars, counters
<1>2. ASSUME NEW p \in Packets, AddPacket(p)
      PROVE  \E q \in Packets : \E table, closed, timed_out, acks :
                AddStep(q, table, closed, timed_out, acks)
  BY <1>2, AddPacketStep, Zenon
<1>. QED
  BY <1>1, <1>2, Zenon DEF CaptureNext

LEMMA CaptureIsNext == [CaptureNext]_vars => [Next]_vars
BY DEF Next

\* The packet that arrives is the last of its flow, and leaves the last packets
\* of the others as they were.
LEMMA LastOfJoined ==
    ASSUME PacketInv, NEW p \in Packets, NEW table, Arrives(p), Joins(p, table)
    PROVE  /\ Max(table[p.key].pkts) = Len(log) + 1
           /\ LastPacket(log', table[p.key]) = p
           /\ \A k \in DOMAIN table \ {p.key} :
                 /\ k \in DOMAIN active_flows
                 /\ LastPacket(log', table[k]) = LastPacket(log, active_flows[k])
<1>. DEFINE S == table[p.key].pkts
            n == Len(log) + 1
<1>1. n \in Nat /\ p.key \in DOMAIN table
  BY DEF Arrives, Joins
<1>2. n \in S /\ S \in SUBSET (1 .. n)
  BY DEF Arrives, Joins, TableOK
<1>3. Max(S) \in S /\ \A x \in S : x <= Max(S)
  BY <1>1, <1>2, MaxOfBounded
<1>4. Max(S) = n
  BY <1>1, <1>2, <1>3
<1>5. LastPacket(log', table[p.key]) = p
  BY <1>4 DEF LastPacket, Arrives
<1>6. ASSUME NEW k \in DOMAIN table \ {p.key}
      PROVE  /\ k \in DOMAIN active_flows
             /\ LastPacket(log', table[k]) = LastPacket(log, active_flows[k])
  <2>1. k \in DOMAIN active_flows /\ table[k] = active_flows[k]
    BY DEF Joins
  <2>2. Len(log) \in Nat /\ active_flows[k].pkts \in SUBSET (1 .. Len(log))
        /\ active_flows[k].pkts # {}
    BY <2>1, OldPackets DEF PacketInv, TypeInv, FlowsOK
  <2>3. Max(active_flows[k].pkts) \in 1 .. Len(log)
    BY <2>2, MaxOfBounded
  <2>. QED  BY <2>1, <2>3 DEF Arrives, LastPacket
<1>. QED
  BY <1>4, <1>5, <1>6

LEMMA AddStepComplete ==
    ASSUME FlowInv, CompleteMeansFin, NEW p \in Packets,
           NEW table, NEW closed, NEW timed_out, NEW acks,
           AddStep(p, table, closed, timed_out, acks)
    PROVE  CompleteMeansFin'
<1>. DEFINE Means(c, l) == c.complete <=> \/ IpProto[c.key] = "udp"
                                          \/ "fin" \in l[Max(c.pkts)].flags
<1>1. /\ exported' = exported \cup ({Record(table, k, TRUE, p.ts) : k \in closed} \cup
             {Record(table, k, IpProto[k] = "udp", p.ts) : k \in timed_out})
      /\ TableOK(table, log') /\ Len(log') \in Nat /\ PacketInv
      /\ \A i \in 1 .. Len(log) : log'[i] = log[i]
  <2>1. Len(log') \in Nat
    BY DEF AddStep, Arrives
  <2>. QED  BY <2>1, Zenon DEF AddStep, Leave, Joins, Arrives, FlowInv
<1>2. ASSUME NEW c \in exported
      PROVE  Means(c, log')
  <2>1. c.pkts # {}
    <3>1. FlowOf(c) \in AllFlows
      BY AllFlowsWith DEF FlowsWith
    <3>2. FlowOf(c).pkts # {}
      BY <3>1 DEF FlowInv, IdInv, OwnPackets
    <3>. QED  BY <3>2 DEF FlowOf
  <2>2. Len(log) \in Nat /\ c.pkts \in SUBSET (1 .. Len(log))
    BY <1>1, OldPackets
  <2>3. Max(c.pkts) \in 1 .. Len(log)
    BY <2>1, <2>2, MaxOfBounded
  <2>. QED  BY <1>1, <2>3, Zenon DEF CompleteMeansFin
<1>3. ASSUME NEW k \in closed
      PROVE  Means(Record(table, k, TRUE, p.ts), log')
  <2>1. k = p.key /\ "fin" \in p.flags
    BY DEF AddStep, CheckEvict
  <2>2. LastPacket(log', table[k]) = p
    BY <1>1, <2>1, LastOfJoined DEF AddStep
  <2>. QED  BY <2>1, <2>2 DEF Record, LastPacket
<1>4. ASSUME NEW k \in timed_out
      PROVE  Means(Record(table, k, IpProto[k] = "udp", p.ts), log')
  <2>1. k \in DOMAIN table \ closed /\ (IpProto[k] = "udp" \/ IpProto[k] = "tcp")
    BY DEF AddStep, TimedOut
  <2>2. /\ table[k].pkts \in SUBSET (1 .. Len(log')) /\ table[k].pkts # {}
    BY <1>1, <2>1 DEF TableOK
  <2>3. Max(table[k].pkts) \in table[k].pkts
    BY <1>1, <2>2, MaxOfBounded
  <2>4. IpProto[k] = "tcp" => "fin" \notin log'[Max(table[k].pkts)].flags
    BY <2>1, <2>3, OnlyClosedHasFin DEF FlowInv
  <2>. DEFINE r == Record(table, k, IpProto[k] = "udp", p.ts)
  <2>5. r.key = k /\ r.pkts = table[k].pkts /\ r.complete = (IpProto[k] = "udp")
    BY DEF Record
  <2>6. CASE IpProto[k] = "udp"
    BY <2>5, <2>6
  <2>7. CASE IpProto[k] = "tcp"
    BY <2>4, <2>5, <2>7
  <2>. QED  BY <2>1, <2>6, <2>7
<1>5. \A c \in exported' : Means(c, log')
  <2>. HIDE DEF Means
  <2>. QED  BY <1>1, <1>2, <1>3, <1>4
<1>. QED
  BY <1>5, Zenon DEF CompleteMeansFin

\* In a capture `complete' tells a flow that saw its FIN, or a UDP flow, from
\* one cut off by a timeout or by its length.
THEOREM CompleteIsFin == CaptureSpec => []CompleteMeansFin
<1>. DEFINE I == FlowInv /\ CompleteMeansFin
<1>1. Init => I
  <2>1. Init => CompleteMeansFin
    BY DEF Init, CompleteMeansFin
  <2>. QED  BY <2>1, InitFlowInv
<1>2. I /\ [CaptureNext]_vars => I'
  <2>. SUFFICES ASSUME I, [CaptureNext]_vars
                PROVE  CompleteMeansFin'
    BY NextFlowInv, CaptureIsNext
  <2>1. CASE UNCHANGED <<log, active_flows, exported, deleted, n_flows_processed,
                         n_flows, next_id, last_to_check>>
    BY <2>1 DEF CompleteMeansFin
  <2>2. ASSUME NEW p \in Packets, NEW table, NEW closed, NEW timed_out, NEW acks,
               AddStep(p, table, closed, timed_out, acks)
        PROVE  CompleteMeansFin'
    BY <2>2, AddStepComplete
  <2>3. TypeInv
    BY DEF FlowInv, PacketInv
  <2>. QED  BY <2>1, <2>2, <2>3, CaptureCases
<1>3. I => CompleteMeansFin
  OBVIOUS
<1>. QED
  BY <1>1, <1>2, <1>3, PTL DEF CaptureSpec

-----------------------------------------------------------------------------
(***************************************************************************)
(* Timeouts                                                                *)
(***************************************************************************)

\* The last packet of a flow in a table is in the log.
LEMMA LastIsLogged ==
    ASSUME NEW l \in Seq(Packets), NEW table, TableOK(table, l), NEW k \in DOMAIN table
    PROVE  \E m \in 1 .. Len(l) :
              LastPacket(l, table[k]) = l[m] /\ l[m].ts \in Times /\ l[m].ts \in 0 .. W - 1
<1>1. Len(l) \in Nat /\ table[k].pkts \in SUBSET (1 .. Len(l)) /\ table[k].pkts # {}
  BY DEF TableOK
<1>2. Max(table[k].pkts) \in 1 .. Len(l)
  BY <1>1, MaxOfBounded
<1>3. l[Max(table[k].pkts)] \in Packets
  BY <1>2
<1>. QED
  BY <1>2, <1>3, TimeAssumption DEF LastPacket, Packets

LEMMA TimeoutType ==
    ASSUME NEW k
    PROVE  Timeout(k) \in 1 .. W - 1
BY TimeAssumption DEF Timeout

\* What add_packet leaves behind when it checks the timeouts: flows that have
\* neither timed out, by its packet's clock, nor reached the packet limit.
LEMMA Survivors ==
    ASSUME NEW p \in Packets, NEW table, NEW closed, NEW timed_out, NEW acks,
           AddStep(p, table, closed, timed_out, acks), ToCheckDue(p.ts),
           NEW k \in DOMAIN table \ timed_out, k \notin closed, IpProto[k] # "other",
           IpProto[k] \in {"tcp", "udp", "other"},
           Sub(p.ts, LastPacket(log', table[k]).ts) \in Int,
           Cardinality(table[k].pkts) \in Nat
    PROVE  /\ Sub(p.ts, LastPacket(log', table[k]).ts) < Timeout(k)
           /\ IpProto[k] = "tcp" => Cardinality(table[k].pkts) < IncompleteEvictPktCount
<1>1. ~TimedOut(log', k, table[k], p.ts)
  BY DEF AddStep
<1>2. /\ IpProto[k] = "udp" => ~(Sub(p.ts, LastPacket(log', table[k]).ts) >= UdpTo)
      /\ IpProto[k] = "tcp" =>
            /\ ~(Sub(p.ts, LastPacket(log', table[k]).ts) >= TcpTo)
            /\ ~(Cardinality(table[k].pkts) >= IncompleteEvictPktCount)
  BY <1>1 DEF TimedOut
<1>3. TcpTo \in 1 .. W - 1 /\ UdpTo \in 1 .. W - 1
  BY TimeAssumption
<1>4. TcpTo \in Int /\ UdpTo \in Int
  BY <1>3
<1>5. IncompleteEvictPktCount \in Int
  BY CountAssumption
<1>. QED
  BY <1>2, <1>4, <1>5 DEF Timeout

\* The same of a flow that is still in the table after the call.
LEMMA StillThere ==
    ASSUME PacketInv, NEW p \in Packets,
           NEW table, NEW closed, NEW timed_out, NEW acks,
           AddStep(p, table, closed, timed_out, acks), NEW k \in TimedKeys'
    PROVE  /\ k \in DOMAIN table /\ IpProto[k] # "other"
           /\ LastPacket(log', active_flows'[k]) = LastPacket(log', table[k])
           /\ active_flows'[k] = table[k]
           /\ ToCheckDue(p.ts) =>
                 /\ Sub(p.ts, LastPacket(log', table[k]).ts) < Timeout(k)
                 /\ IpProto[k] = "tcp" => Cardinality(table[k].pkts) < IncompleteEvictPktCount
<1>0. PICK E, R : E = closed \cup timed_out /\ Leave(table, E, acks, R)
  BY Zenon DEF AddStep
<1>1. /\ DOMAIN active_flows' = DOMAIN table \ (E \cup acks)
      /\ \A j \in DOMAIN table \ (E \cup acks) : active_flows'[j] = table[j]
  BY <1>0, LeaveTable
<1>2. k \in DOMAIN table \ (E \cup acks) /\ IpProto[k] # "other" /\ active_flows'[k] = table[k]
  BY <1>1 DEF TimedKeys
<1>3. /\ TableOK(table, log') /\ log' \in Seq(Packets) /\ Len(log') \in Nat
  BY DEF AddStep, Joins, Arrives
<1>4. IpProto[k] \in {"tcp", "udp", "other"}
  BY <1>2, <1>3, KeyAssumption DEF TableOK
<1>5. Sub(p.ts, LastPacket(log', table[k]).ts) \in Int
  <2>1. LastPacket(log', table[k]).ts \in 0 .. W - 1
    BY <1>2, <1>3, LastIsLogged
  <2>2. p.ts \in 0 .. W - 1
    BY TimeAssumption DEF Packets
  <2>3. Sub(p.ts, LastPacket(log', table[k]).ts) \in 0 .. W - 1
    BY <2>1, <2>2, SubType
  <2>. QED  BY <2>3, TimeAssumption
<1>6. Cardinality(table[k].pkts) \in Nat
  <2>1. table[k].pkts \in SUBSET (1 .. Len(log'))
    BY <1>2, <1>3 DEF TableOK
  <2>2. IsFiniteSet(1 .. Len(log'))
    BY <1>3, FS_Interval
  <2>. QED  BY <2>1, <2>2, FS_Subset, FS_CardinalityType
<1>7. ASSUME ToCheckDue(p.ts)
      PROVE  /\ Sub(p.ts, LastPacket(log', table[k]).ts) < Timeout(k)
             /\ IpProto[k] = "tcp" => Cardinality(table[k].pkts) < IncompleteEvictPktCount
  <2>1. k \in DOMAIN table \ timed_out /\ k \notin closed
    BY <1>0, <1>2
  <2>. QED  BY <1>2, <1>4, <1>5, <1>6, <1>7, <2>1, Survivors
<1>. QED
  BY <1>2, <1>7

\* Packets in time order: the last check is less than an interval ago, and it
\* left no flow that had then been idle for its timeout.
CheckInv ==
    /\ Len(log) = 0 => last_to_check = 0
    /\ (Len(log) > 0 /\ InOrder) =>
          /\ last_to_check <= Now /\ Now - last_to_check < ToCheckInterval
          /\ \A k \in TimedKeys : last_to_check - LastPacket(log, active_flows[k]).ts < Timeout(k)

\* An arrival in time order comes after the last check and the last packets.
LEMMA ArrivesInOrder ==
    ASSUME PacketInv, CheckInv, NEW p \in Packets, Arrives(p), InOrder'
    PROVE  /\ InOrder /\ last_to_check <= p.ts
           /\ \A i \in 1 .. Len(log') : log'[i].ts <= p.ts
           /\ Now' = p.ts /\ p.ts \in 0 .. W - 1 /\ last_to_check \in 0 .. W - 1
           /\ log \in Seq(Packets) /\ log' \in Seq(Packets) /\ Len(log) \in Nat
<1>1. /\ log \in Seq(Packets) /\ log' \in Seq(Packets) /\ Len(log) \in Nat
      /\ Len(log') = Len(log) + 1 /\ log'[Len(log')] = p
      /\ \A i \in 1 .. Len(log) : log'[i] = log[i]
      /\ last_to_check \in 0 .. W - 1
  BY DEF PacketInv, TypeInv, TypeOK, Arrives
<1>2. p.ts \in 0 .. W - 1 /\ 0 <= p.ts
  <2>1. p.ts \in 0 .. W - 1
    BY TimeAssumption DEF Packets
  <2>. QED  BY <2>1
<1>3. Now' = p.ts
  BY <1>1 DEF Now
<1>4. \A i \in 1 .. Len(log') : log'[i].ts <= p.ts
  BY <1>1 DEF InOrder
<1>5. InOrder
  <2>. SUFFICES ASSUME NEW i \in 1 .. Len(log), NEW j \in 1 .. Len(log), i <= j
                PROVE  log[i].ts <= log[j].ts
    BY DEF InOrder
  <2>1. i \in 1 .. Len(log') /\ j \in 1 .. Len(log')
    BY <1>1
  <2>2. log'[i].ts <= log'[j].ts
    BY <2>1 DEF InOrder
  <2>. QED  BY <1>1, <2>2
<1>6. last_to_check <= p.ts
  <2>1. CASE Len(log) = 0
    BY <1>2, <2>1 DEF CheckInv
  <2>2. CASE Len(log) > 0
    <3>1. last_to_check <= log[Len(log)].ts
      BY <1>5, <2>2 DEF CheckInv, Now
    <3>2. Len(log) \in 1 .. Len(log') /\ log'[Len(log)] = log[Len(log)]
      BY <1>1, <2>2
    <3>3. log[Len(log)] \in Packets
      BY <1>1, <2>2
    <3>4. log[Len(log)].ts \in 0 .. W - 1
      BY <3>3, TimeAssumption DEF Packets
    <3>5. log[Len(log)].ts <= p.ts
      BY <1>4, <3>2
    <3>. QED  BY <1>1, <1>2, <3>1, <3>4, <3>5, TimeAssumption
  <2>. QED  BY <1>1, <2>1, <2>2
<1>. QED
  BY <1>1, <1>2, <1>3, <1>4, <1>5, <1>6

LEMMA AddStepCheckInv ==
    ASSUME PacketInv, CheckInv, NEW p \in Packets,
           NEW table, NEW closed, NEW timed_out, NEW acks,
           AddStep(p, table, closed, timed_out, acks)
    PROVE  CheckInv'
<1>1. /\ Arrives(p) /\ Joins(p, table) /\ TableOK(table, log')
      /\ last_to_check' = IF ToCheckDue(p.ts) THEN p.ts ELSE last_to_check
      /\ Len(log) \in Nat /\ Len(log') = Len(log) + 1
  BY DEF AddStep, Joins, Arrives
<1>. SUFFICES ASSUME InOrder'
              PROVE  /\ last_to_check' <= Now' /\ Now' - last_to_check' < ToCheckInterval
                     /\ \A k \in TimedKeys' :
                           last_to_check' - LastPacket(log', active_flows'[k]).ts < Timeout(k)
  BY <1>1 DEF CheckInv
<1>2. /\ InOrder /\ last_to_check <= p.ts /\ Now' = p.ts
      /\ \A i \in 1 .. Len(log') : log'[i].ts <= p.ts
      /\ p.ts \in 0 .. W - 1 /\ last_to_check \in 0 .. W - 1
      /\ log \in Seq(Packets) /\ log' \in Seq(Packets)
  BY <1>1, ArrivesInOrder
<1>3. W \in Nat /\ ToCheckInterval \in 1 .. W - 1
  BY TimeAssumption
<1>4. ToCheckDue(p.ts) <=> p.ts - last_to_check >= ToCheckInterval
  BY <1>2, <1>3 DEF ToCheckDue, Sub
<1>5. last_to_check' <= Now' /\ Now' - last_to_check' < ToCheckInterval
  BY <1>1, <1>2, <1>3, <1>4
<1>6. ASSUME NEW k \in TimedKeys'
      PROVE  last_to_check' - LastPacket(log', active_flows'[k]).ts < Timeout(k)
  <2>1. /\ k \in DOMAIN table /\ IpProto[k] # "other"
        /\ LastPacket(log', active_flows'[k]) = LastPacket(log', table[k])
        /\ ToCheckDue(p.ts) => Sub(p.ts, LastPacket(log', table[k]).ts) < Timeout(k)
    BY StillThere
  <2>2. /\ LastPacket(log', table[k]).ts \in 0 .. W - 1
        /\ LastPacket(log', table[k]).ts <= p.ts
    BY <1>1, <1>2, <2>1, LastIsLogged
  <2>3. CASE ToCheckDue(p.ts)
    <3>1. Sub(p.ts, LastPacket(log', table[k]).ts) = p.ts - LastPacket(log', table[k]).ts
      BY <1>2, <1>3, <2>2 DEF Sub
    <3>. QED  BY <1>1, <2>1, <2>3, <3>1
  <2>4. CASE ~ToCheckDue(p.ts) /\ k = p.key
    <3>1. LastPacket(log', table[k]) = p
      BY <1>1, <2>4, LastOfJoined
    <3>2. Timeout(k) \in 1 .. W - 1
      BY TimeoutType
    <3>. QED  BY <1>1, <1>2, <1>3, <2>1, <2>4, <3>1, <3>2
  <2>5. CASE ~ToCheckDue(p.ts) /\ k # p.key
    <3>1. k \in DOMAIN active_flows /\ LastPacket(log', table[k]) = LastPacket(log, active_flows[k])
      BY <1>1, <2>1, <2>5, LastOfJoined
    <3>2. k \in TimedKeys
      BY <2>1, <3>1 DEF TimedKeys
    <3>3. Len(log) > 0
      BY <1>1, <3>1 DEF PacketInv, TypeInv, FlowsOK
    <3>. QED  BY <1>1, <1>2, <2>1, <2>5, <3>1, <3>2, <3>3 DEF CheckInv
  <2>. QED  BY <2>3, <2>4, <2>5
<1>. QED
  BY <1>5, <1>6

\* Fewer flows, the same log: what held of all flows holds of those left.
LEMMA ForceStepTimed ==
    ASSUME NEW E, NEW D, NEW R, ForceStep(E, D, R)
    PROVE  /\ log' = log /\ last_to_check' = last_to_check
           /\ TimedKeys' \subseteq TimedKeys
           /\ \A k \in TimedKeys' : active_flows'[k] = active_flows[k]
<1>1. Leave(active_flows, E, D, R) /\ log' = log /\ last_to_check' = last_to_check
  BY DEF ForceStep
<1>2. /\ DOMAIN active_flows' = DOMAIN active_flows \ (E \cup D)
      /\ \A k \in DOMAIN active_flows \ (E \cup D) : active_flows'[k] = active_flows[k]
  BY <1>1, LeaveTable
<1>. QED
  BY <1>1, <1>2 DEF TimedKeys

LEMMA NextCheckInv == PacketInv /\ CheckInv /\ [Next]_vars => CheckInv'
<1>. SUFFICES ASSUME PacketInv, CheckInv, [Next]_vars
              PROVE  CheckInv'
  OBVIOUS
<1>1. CASE UNCHANGED <<log, active_flows, exported, deleted, n_flows_processed,
                       n_flows, next_id, last_to_check>>
  BY <1>1 DEF CheckInv, InOrder, Now, TimedKeys
<1>2. ASSUME NEW p \in Packets, NEW table, NEW closed, NEW timed_out, NEW acks,
             AddStep(p, table, closed, timed_out, acks)
      PROVE  CheckInv'
  BY <1>2, AddStepCheckInv
<1>3. ASSUME NEW E, NEW D, NEW R, ForceStep(E, D, R)
      PROVE  CheckInv'
  <2>1. /\ log' = log /\ last_to_check' = last_to_check
        /\ TimedKeys' \subseteq TimedKeys
        /\ \A k \in TimedKeys' : active_flows'[k] = active_flows[k]
    BY <1>3, ForceStepTimed
  <2>. QED  BY <2>1 DEF CheckInv, InOrder, Now
<1>4. TypeInv
  BY DEF PacketInv
<1>. QED
  BY <1>1, <1>2, <1>3, <1>4, NextCases

LEMMA InitCheckInv == Init => PacketInv /\ CheckInv
<1>1. Init => CheckInv
  BY DEF Init, CheckInv
<1>. QED
  BY <1>1, InitPacketInv

LEMMA CheckGivesIdleBound == PacketInv /\ CheckInv => IdleBound
<1>. SUFFICES ASSUME PacketInv, CheckInv, InOrder, NEW k \in TimedKeys
              PROVE  Now - LastPacket(log, active_flows[k]).ts
                       <= Timeout(k) + ToCheckInterval - 2
  BY DEF IdleBound
<1>1. /\ log \in Seq(Packets) /\ Len(log) \in Nat /\ last_to_check \in 0 .. W - 1
      /\ TableOK(active_flows, log) /\ k \in DOMAIN active_flows
  BY DEF PacketInv, TypeInv, TypeOK, FlowsOK, TableOK, TimedKeys
<1>2. PICK m \in 1 .. Len(log) :
            LastPacket(log, active_flows[k]) = log[m] /\ log[m].ts \in 0 .. W - 1
  BY <1>1, LastIsLogged
<1>3. Len(log) > 0
  BY <1>1, <1>2
<1>4. Now \in 0 .. W - 1
  <2>1. log[Len(log)] \in Packets
    BY <1>1, <1>3
  <2>. QED  BY <2>1, TimeAssumption DEF Now, Packets
<1>5. W \in Nat /\ ToCheckInterval \in 1 .. W - 1 /\ Timeout(k) \in 1 .. W - 1
  BY TimeAssumption, TimeoutType
<1>6. /\ Now - last_to_check < ToCheckInterval
      /\ last_to_check - LastPacket(log, active_flows[k]).ts < Timeout(k)
  BY <1>3 DEF CheckInv
<1>. DEFINE a == Now
            b == LastPacket(log, active_flows[k]).ts
<1>7. a \in Int /\ b \in Int /\ last_to_check \in Int /\ ToCheckInterval \in Int /\ Timeout(k) \in Int
  BY <1>1, <1>2, <1>4, <1>5
<1>. HIDE DEF a, b
<1>8. a - last_to_check < ToCheckInterval /\ last_to_check - b < Timeout(k)
  BY <1>6 DEF a, b
<1>9. a - b <= Timeout(k) + ToCheckInterval - 2
  BY <1>7, <1>8
<1>. QED
  BY <1>9 DEF a, b

\* For packets in time order, whatever the calls, the timeouts and the interval,
\* a TCP or UDP flow is out of the table before it has been idle for its timeout
\* and one more check interval.
THEOREM IdleFlowsLeave == Spec => []IdleBound
<1>. DEFINE I == PacketInv /\ CheckInv
<1>1. Init => I
  BY InitCheckInv
<1>2. I /\ [Next]_vars => I'
  BY NextPacketInv, NextCheckInv
<1>3. I => IdleBound
  BY CheckGivesIdleBound
<1>. QED
  BY <1>1, <1>2, <1>3, PTL DEF Spec

\* The packets of a flow that came before the last check.
LEMMA AddStepLong ==
    ASSUME PacketInv, CheckInv, LongFlowsAreCut, NEW p \in Packets,
           NEW table, NEW closed, NEW timed_out, NEW acks,
           AddStep(p, table, closed, timed_out, acks)
    PROVE  LongFlowsAreCut'
<1>1. /\ Arrives(p) /\ Joins(p, table) /\ TableOK(table, log')
      /\ last_to_check' = IF ToCheckDue(p.ts) THEN p.ts ELSE last_to_check
      /\ Len(log) \in Nat /\ Len(log') = Len(log) + 1
  BY DEF AddStep, Joins, Arrives
<1>. SUFFICES ASSUME InOrder', NEW k \in TimedKeys', IpProto[k] = "tcp"
              PROVE  Cardinality({n \in active_flows'[k].pkts : log'[n].ts < last_to_check'})
                       < IncompleteEvictPktCount
  BY DEF LongFlowsAreCut
<1>2. /\ InOrder /\ last_to_check <= p.ts
      /\ p.ts \in 0 .. W - 1 /\ last_to_check \in 0 .. W - 1
  BY <1>1, ArrivesInOrder
<1>3. /\ k \in DOMAIN table /\ active_flows'[k] = table[k] /\ IpProto[k] # "other"
      /\ ToCheckDue(p.ts) => Cardinality(table[k].pkts) < IncompleteEvictPktCount
  BY StillThere
<1>4. IncompleteEvictPktCount \in Nat \ {0}
  BY CountAssumption
<1>. DEFINE S == {n \in table[k].pkts : log'[n].ts < last_to_check'}
            T == {n \in active_flows[k].pkts : log[n].ts < last_to_check}
<1>5. CASE ToCheckDue(p.ts)
  <2>1. table[k].pkts \in SUBSET (1 .. Len(log'))
    BY <1>1, <1>3 DEF TableOK
  <2>2. IsFiniteSet(table[k].pkts)
    <3>1. IsFiniteSet(1 .. Len(log'))
      BY <1>1, FS_Interval
    <3>. QED  BY <2>1, <3>1, FS_Subset
  <2>3. S \in SUBSET table[k].pkts
    OBVIOUS
  <2>4. Cardinality(S) <= Cardinality(table[k].pkts) /\ IsFiniteSet(S)
    <3>. HIDE DEF S
    <3>. QED  BY <2>2, <2>3, FS_Subset
  <2>5. Cardinality(S) \in Nat /\ Cardinality(table[k].pkts) \in Nat
    BY <2>2, <2>4, FS_CardinalityType
  <2>. HIDE DEF S
  <2>6. Cardinality(S) < IncompleteEvictPktCount
    BY <1>3, <1>4, <1>5, <2>4, <2>5
  <2>. QED  BY <1>3, <2>6 DEF S
<1>6. CASE ~ToCheckDue(p.ts) /\ k \in DOMAIN active_flows
  <2>1. k \in TimedKeys /\ active_flows[k].pkts \subseteq 1 .. Len(log)
    BY <1>3, <1>6, OldPackets DEF TimedKeys
  <2>2. S = T
    <3>1. \A n \in 1 .. Len(log) : log'[n] = log[n]
      BY <1>1 DEF Arrives
    <3>2. k # p.key => table[k].pkts = active_flows[k].pkts
      BY <1>1, <1>3 DEF Joins
    <3>3. k = p.key => table[k].pkts = active_flows[k].pkts \cup {Len(log) + 1}
      BY <1>1, <1>6 DEF Joins
    <3>4. ~(log'[Len(log) + 1].ts < last_to_check)
      BY <1>1, <1>2, TimeAssumption DEF Arrives
    <3>. QED  BY <1>1, <1>6, <2>1, <3>1, <3>2, <3>3, <3>4
  <2>3. Cardinality(T) < IncompleteEvictPktCount
    BY <1>2, <2>1 DEF LongFlowsAreCut
  <2>. QED  BY <1>3, <2>2, <2>3
<1>7. CASE ~ToCheckDue(p.ts) /\ k \notin DOMAIN active_flows
  <2>1. k = p.key /\ table[k].pkts = {Len(log) + 1}
    BY <1>1, <1>3, <1>7 DEF Joins
  <2>2. ~(log'[Len(log) + 1].ts < last_to_check)
    BY <1>1, <1>2, TimeAssumption DEF Arrives
  <2>3. S = {}
    BY <1>1, <1>7, <2>1, <2>2
  <2>. HIDE DEF S
  <2>4. Cardinality(S) < IncompleteEvictPktCount
    BY <1>4, <2>3, FS_EmptySet
  <2>. QED  BY <1>3, <2>4 DEF S
<1>. QED
  BY <1>5, <1>6, <1>7

\* For packets in time order, whatever the calls, a TCP flow in the table has
\* fewer packets from before the last check than the limit of _check_timeouts.
THEOREM LongFlowsLeave == Spec => []LongFlowsAreCut
<1>. DEFINE I == PacketInv /\ CheckInv /\ LongFlowsAreCut
<1>1. Init => I
  <2>1. Init => LongFlowsAreCut
    BY DEF Init, LongFlowsAreCut, TimedKeys
  <2>. QED  BY <2>1, InitCheckInv
<1>2. I /\ [Next]_vars => I'
  <2>. SUFFICES ASSUME I, [Next]_vars
                PROVE  LongFlowsAreCut'
    BY NextPacketInv, NextCheckInv
  <2>1. CASE UNCHANGED <<log, active_flows, exported, deleted, n_flows_processed,
                         n_flows, next_id, last_to_check>>
    BY <2>1 DEF LongFlowsAreCut, InOrder, TimedKeys
  <2>2. ASSUME NEW p \in Packets, NEW table, NEW closed, NEW timed_out, NEW acks,
               AddStep(p, table, closed, timed_out, acks)
        PROVE  LongFlowsAreCut'
    BY <2>2, AddStepLong
  <2>3. ASSUME NEW E, NEW D, NEW R, ForceStep(E, D, R)
        PROVE  LongFlowsAreCut'
    <3>1. /\ log' = log /\ last_to_check' = last_to_check
          /\ TimedKeys' \subseteq TimedKeys
          /\ \A k \in TimedKeys' : active_flows'[k] = active_flows[k]
      BY <2>3, ForceStepTimed
    <3>. QED  BY <3>1 DEF LongFlowsAreCut, InOrder
  <2>4. TypeInv
    BY DEF PacketInv
  <2>. QED  BY <2>1, <2>2, <2>3, <2>4, NextCases
<1>3. I => LongFlowsAreCut
  OBVIOUS
<1>. QED
  BY <1>1, <1>2, <1>3, PTL DEF Spec

\* No time stamp is within a timeout of the rollover of the seconds counter,
\* which for the uint32_t of the code is in February 2106.
NoRollover == \A t \in Times : t + UdpTo <= W /\ t + TcpTo <= W

LEMMA AddStepHorizon ==
    ASSUME NoRollover, PacketInv, SweepHorizon, NEW p \in Packets,
           NEW table, NEW closed, NEW timed_out, NEW acks,
           AddStep(p, table, closed, timed_out, acks)
    PROVE  SweepHorizon'
<1>1. /\ Arrives(p) /\ Joins(p, table) /\ TableOK(table, log') /\ log' \in Seq(Packets)
      /\ last_to_check' = IF ToCheckDue(p.ts) THEN p.ts ELSE last_to_check
  BY DEF AddStep, Joins, Arrives
<1>. SUFFICES ASSUME NEW k \in TimedKeys'
              PROVE  LastPacket(log', active_flows'[k]).ts < last_to_check' + ToCheckInterval
  BY DEF SweepHorizon
<1>2. /\ k \in DOMAIN table /\ IpProto[k] # "other"
      /\ LastPacket(log', active_flows'[k]) = LastPacket(log', table[k])
      /\ ToCheckDue(p.ts) => Sub(p.ts, LastPacket(log', table[k]).ts) < Timeout(k)
  BY StillThere
<1>. DEFINE last == LastPacket(log', table[k]).ts
<1>3. last \in Times /\ last \in 0 .. W - 1
  BY <1>1, <1>2, LastIsLogged
<1>4. /\ W \in Nat /\ ToCheckInterval \in 1 .. W - 1 /\ UdpTo \in 1 .. W - 1 /\ TcpTo \in 1 .. W - 1
      /\ p.ts \in 0 .. W - 1
  BY TimeAssumption DEF Packets
<1>5. last_to_check \in 0 .. W - 1
  BY DEF PacketInv, TypeInv, TypeOK
<1>6. CASE ToCheckDue(p.ts)
  <2>1. Sub(p.ts, last) < Timeout(k) /\ last_to_check' = p.ts
    BY <1>1, <1>2, <1>6
  <2>2. last + Timeout(k) <= W
    BY <1>3, <1>4 DEF NoRollover, Timeout
  <2>3. Timeout(k) \in 1 .. W - 1
    BY TimeoutType
  <2>. HIDE DEF last
  <2>4. last <= p.ts
    BY <1>3, <1>4, <2>1, <2>2, <2>3 DEF Sub
  <2>5. last < p.ts + ToCheckInterval
    BY <1>3, <1>4, <2>4
  <2>. QED  BY <1>2, <2>1, <2>5 DEF last
<1>7. CASE ~ToCheckDue(p.ts) /\ k = p.key
  <2>1. last = p.ts /\ last_to_check' = last_to_check
    BY <1>1, <1>7, LastOfJoined
  <2>2. Sub(p.ts, last_to_check) < ToCheckInterval
    <3>1. Sub(p.ts, last_to_check) \in 0 .. W - 1
      BY <1>4, <1>5, SubType
    <3>. QED  BY <1>4, <1>7, <3>1 DEF ToCheckDue
  <2>. HIDE DEF last
  <2>3. last < last_to_check + ToCheckInterval
    BY <1>4, <1>5, <2>1, <2>2 DEF Sub
  <2>. QED  BY <1>2, <2>1, <2>3 DEF last
<1>8. CASE ~ToCheckDue(p.ts) /\ k # p.key
  <2>1. k \in DOMAIN active_flows /\ last = LastPacket(log, active_flows[k]).ts
    BY <1>1, <1>2, <1>8, LastOfJoined
  <2>2. k \in TimedKeys
    BY <1>2, <2>1 DEF TimedKeys
  <2>. QED  BY <1>1, <1>2, <1>8, <2>1, <2>2 DEF SweepHorizon
<1>. QED
  BY <1>6, <1>7, <1>8

LEMMA NextHorizon ==
    ASSUME NoRollover
    PROVE  PacketInv /\ SweepHorizon /\ [Next]_vars => SweepHorizon'
<1>. SUFFICES ASSUME PacketInv, SweepHorizon, [Next]_vars
              PROVE  SweepHorizon'
  OBVIOUS
<1>1. CASE UNCHANGED <<log, active_flows, exported, deleted, n_flows_processed,
                       n_flows, next_id, last_to_check>>
  BY <1>1 DEF SweepHorizon, TimedKeys
<1>2. ASSUME NEW p \in Packets, NEW table, NEW closed, NEW timed_out, NEW acks,
             AddStep(p, table, closed, timed_out, acks)
      PROVE  SweepHorizon'
  BY <1>2, AddStepHorizon
<1>3. ASSUME NEW E, NEW D, NEW R, ForceStep(E, D, R)
      PROVE  SweepHorizon'
  <2>1. /\ log' = log /\ last_to_check' = last_to_check
        /\ TimedKeys' \subseteq TimedKeys
        /\ \A k \in TimedKeys' : active_flows'[k] = active_flows[k]
    BY <1>3, ForceStepTimed
  <2>. QED  BY <2>1 DEF SweepHorizon
<1>4. TypeInv
  BY DEF PacketInv
<1>. QED
  BY <1>1, <1>2, <1>3, <1>4, NextCases

\* Before the clock rolls over, in whatever order packets arrive and whatever
\* the calls, no TCP or UDP flow has a last packet a check interval or more ahead
\* of the last check.
THEOREM NoFlowAhead ==
    ASSUME NoRollover
    PROVE  Spec => []SweepHorizon
<1>. DEFINE I == PacketInv /\ SweepHorizon
<1>1. Init => I
  <2>1. Init => SweepHorizon
    BY DEF Init, SweepHorizon, TimedKeys
  <2>. QED  BY <2>1, InitPacketInv
<1>2. I /\ [Next]_vars => I'
  BY NextPacketInv, NextHorizon
<1>3. I => SweepHorizon
  OBVIOUS
<1>. QED
  BY <1>1, <1>2, <1>3, PTL DEF Spec

\* What one step of LatePacketsHarmless says of a new record.
HarmlessExport(c) ==
    LET last == log'[Max(c.pkts)]
    IN  (c.evict_ts >= last_to_check /\ ~("fin" \in last.flags)
           /\ (IpProto[c.key] = "tcp" => Cardinality(c.pkts) < IncompleteEvictPktCount))
        => c.evict_ts - last.ts >= Timeout(c.key)

LEMMA AddStepHarmless ==
    ASSUME NoRollover, PacketInv, SweepHorizon, NEW p \in Packets,
           NEW table, NEW closed, NEW timed_out, NEW acks,
           AddStep(p, table, closed, timed_out, acks), NEW c \in exported' \ exported
    PROVE  HarmlessExport(c)
<1>1. /\ exported' = exported \cup ({Record(table, k, TRUE, p.ts) : k \in closed} \cup
             {Record(table, k, IpProto[k] = "udp", p.ts) : k \in timed_out})
      /\ Arrives(p) /\ Joins(p, table) /\ TableOK(table, log') /\ log' \in Seq(Packets)
  BY Zenon DEF AddStep, Leave, Joins, Arrives
<1>2. ASSUME NEW k \in closed, c = Record(table, k, TRUE, p.ts)
      PROVE  HarmlessExport(c)
  <2>1. k = p.key /\ "fin" \in p.flags
    BY DEF AddStep, CheckEvict
  <2>2. LastPacket(log', table[k]) = p
    BY <1>1, <2>1, LastOfJoined
  <2>3. c.pkts = table[k].pkts
    BY <1>2 DEF Record
  <2>4. log'[Max(c.pkts)] = p
    BY <2>2, <2>3 DEF LastPacket
  <2>. QED  BY <2>1, <2>4 DEF HarmlessExport
<1>3. ASSUME NEW k \in timed_out, c = Record(table, k, IpProto[k] = "udp", p.ts)
      PROVE  HarmlessExport(c)
  <2>1. c.key = k /\ c.pkts = table[k].pkts /\ c.evict_ts = p.ts
    BY <1>3 DEF Record
  <2>. DEFINE last == LastPacket(log', table[k])
  <2>2. log'[Max(c.pkts)] = last
    BY <2>1 DEF LastPacket
  <2>. SUFFICES ASSUME p.ts >= last_to_check,
                       IpProto[k] = "tcp" => Cardinality(table[k].pkts) < IncompleteEvictPktCount
                PROVE  p.ts - last.ts >= Timeout(k)
    BY <2>1, <2>2 DEF HarmlessExport
  <2>3. /\ k \in DOMAIN table /\ ToCheckDue(p.ts) /\ TimedOut(log', k, table[k], p.ts)
    BY DEF AddStep
  <2>4. /\ W \in Nat /\ ToCheckInterval \in 1 .. W - 1 /\ p.ts \in 0 .. W - 1
        /\ Timeout(k) \in 1 .. W - 1
    BY TimeAssumption, TimeoutType DEF Packets
  <2>5. last_to_check \in 0 .. W - 1
    BY DEF PacketInv, TypeInv, TypeOK
  <2>6. last.ts \in 0 .. W - 1
    BY <1>1, <2>3, LastIsLogged
  <2>7. Sub(p.ts, last.ts) >= Timeout(k)
    <3>1. Cardinality(table[k].pkts) \in Nat
      <4>1. table[k].pkts \in SUBSET (1 .. Len(log')) /\ Len(log') \in Nat
        BY <1>1, <2>3 DEF TableOK
      <4>2. IsFiniteSet(1 .. Len(log'))
        BY <4>1, FS_Interval
      <4>. QED  BY <4>1, <4>2, FS_Subset, FS_CardinalityType
    <3>2. \/ IpProto[k] = "udp" /\ Sub(p.ts, last.ts) >= UdpTo
          \/ IpProto[k] = "tcp" /\ Sub(p.ts, last.ts) >= TcpTo
      <4>1. IncompleteEvictPktCount \in Nat
        BY CountAssumption
      <4>2. IpProto[k] = "tcp" => ~(Cardinality(table[k].pkts) >= IncompleteEvictPktCount)
        BY <3>1, <4>1
      <4>3. \/ IpProto[k] = "udp" /\ Sub(p.ts, last.ts) >= UdpTo
            \/ IpProto[k] = "tcp" /\ \/ Sub(p.ts, last.ts) >= TcpTo
                                     \/ Cardinality(table[k].pkts) >= IncompleteEvictPktCount
        BY <2>3, Zenon DEF TimedOut
      <4>. QED  BY <4>2, <4>3
    <3>. QED  BY <3>2 DEF Timeout
  <2>8. last.ts <= p.ts
    <3>1. CASE k = p.key
      <4>1. last = p
        BY <1>1, <3>1, LastOfJoined
      <4>. QED  BY <2>4, <4>1
    <3>2. CASE k # p.key
      <4>1. k \in DOMAIN active_flows /\ last = LastPacket(log, active_flows[k])
        BY <1>1, <2>3, <3>2, LastOfJoined
      <4>2. k \in TimedKeys
        BY <2>3, <4>1 DEF TimedKeys, TimedOut
      <4>3. last.ts < last_to_check + ToCheckInterval
        BY <4>1, <4>2 DEF SweepHorizon
      <4>4. p.ts - last_to_check >= ToCheckInterval
        BY <2>3, <2>4, <2>5 DEF ToCheckDue, Sub
      <4>. HIDE DEF last
      <4>. QED  BY <2>4, <2>5, <2>6, <4>3, <4>4
    <3>. QED  BY <3>1, <3>2
  <2>. HIDE DEF last
  <2>. QED  BY <2>4, <2>6, <2>7, <2>8 DEF Sub
<1>. QED
  BY <1>1, <1>2, <1>3

\* Before the clock rolls over, a packet that is late, but not older than the
\* last check, evicts in a capture no flow before its timeout.
THEOREM LateIsHarmless ==
    ASSUME NoRollover
    PROVE  CaptureSpec => LatePacketsHarmless
<1>. DEFINE I == PacketInv /\ SweepHorizon
            Harmless == \A c \in exported' \ exported :
                LET last == log'[Max(c.pkts)]
                IN  (c.evict_ts >= last_to_check /\ ~("fin" \in last.flags)
                       /\ (IpProto[c.key] = "tcp" =>
                              Cardinality(c.pkts) < IncompleteEvictPktCount))
                    => c.evict_ts - last.ts >= Timeout(c.key)
<1>1. Init => I
  <2>1. Init => SweepHorizon
    BY DEF Init, SweepHorizon, TimedKeys
  <2>. QED  BY <2>1, InitPacketInv
<1>2. I /\ [CaptureNext]_vars => I'
  BY NextPacketInv, NextHorizon, CaptureIsNext
<1>3. I /\ [CaptureNext]_vars => [Harmless]_vars
  <2>. SUFFICES ASSUME I, [CaptureNext]_vars, NEW c \in exported' \ exported
                PROVE  HarmlessExport(c)
    BY DEF HarmlessExport
  <2>1. CASE UNCHANGED <<log, active_flows, exported, deleted, n_flows_processed,
                         n_flows, next_id, last_to_check>>
    BY <2>1
  <2>2. ASSUME NEW p \in Packets, NEW table, NEW closed, NEW timed_out, NEW acks,
               AddStep(p, table, closed, timed_out, acks)
        PROVE  HarmlessExport(c)
    BY <2>2, AddStepHarmless
  <2>3. TypeInv
    BY DEF PacketInv
  <2>. QED  BY <2>1, <2>2, <2>3, CaptureCases
<1>4. CaptureSpec => [][Harmless]_vars
  <2>. HIDE DEF Harmless, I
  <2>. QED  BY <1>1, <1>2, <1>3, PTL DEF CaptureSpec
<1>. QED
  BY <1>4 DEF LatePacketsHarmless
=============================================================================
