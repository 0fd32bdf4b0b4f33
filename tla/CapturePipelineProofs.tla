----------------------- MODULE CapturePipelineProofs -----------------------
(***************************************************************************)
(* Theorems about PcapFileReader, about FlowFileExporter, the program made *)
(* of it, a FlowTable and a CLFRFileWriter in one thread, and about        *)
(* CapturePipeline, the same parts and the live sources as kernels, each   *)
(* in a thread of its own; for all captures and all constants:             *)
(*                                                                         *)
(*   ReaderInOrder       FramesInOrder, of the reader alone                *)
(*   FramesAreInOrder    FramesInOrder, in the program                     *)
(*   AllCountersAgree    CountersAgree                                     *)
(*   FileAccounts        TerminatedAccounts                                *)
(*   RecordsHaveOneKey   RecordsAreOfOneKey                                *)
(*   StreamsAccounted    StreamAccounts                                    *)
(*   StreamsEndWhole     EndOfStream                                       *)
(*                                                                         *)
(* The i-th call of next() returns frame FrameOf(i).  As the program adds  *)
(* each packet it reads, the log of the table is the same sequence, and    *)
(* what FlowTableProofs shows of the log is so of the capture.             *)
(***************************************************************************)
EXTENDS CapturePipeline, FlowTableProofs

-----------------------------------------------------------------------------
(***************************************************************************)
(* The reader                                                              *)
(***************************************************************************)

\* The frame that the i-th call returns: the constructor has taken the first,
\* and the last call finds none.
FrameOf(i) == IF i < Len(capture) THEN i + 1 ELSE i

Fills == {Filled(f) : f \in 1 .. Len(capture)}

ReaderInv ==
    /\ capture \in Seq(FrameKinds) /\ status \in {"new", "open", "refused", "threw"}
    /\ end \in BOOLEAN
    /\ fetched \in 0 .. Len(capture) /\ pl_buf = fetched
    /\ delivered \in Seq(Fills)
    /\ \A i \in 1 .. Len(delivered) : delivered[i] = Filled(FrameOf(i))
    /\ status \in {"new", "refused"} => fetched = 0 /\ delivered = <<>> /\ ~end
    /\ status = "open" /\ ~end => Len(delivered) = fetched - 1
    /\ end => status = "open" /\ Len(delivered) = Len(capture) /\ ~truncated
    /\ status = "threw" => Len(delivered) <= Len(capture) /\ truncated

LEMMA InitReaderInv == ReaderInit => ReaderInv
<1>. SUFFICES ASSUME ReaderInit
              PROVE  ReaderInv
  OBVIOUS
<1>1. /\ capture \in Captures /\ fetched = 0 /\ pl_buf = 0 /\ end = FALSE
      /\ status = "new" /\ delivered = <<>>
  BY DEF ReaderInit
<1>2. PICK n \in 0 .. MaxFrames : capture \in [1 .. n -> FrameKinds]
  BY <1>1 DEF Captures
<1>3. n \in Nat
  BY <1>2, ReaderAssumption
<1>4. capture \in Seq(FrameKinds)
  BY <1>2, <1>3
<1>5. delivered \in Seq(Fills) /\ Len(delivered) = 0 /\ Len(capture) \in Nat
  BY <1>1, <1>4
<1>6. end \in BOOLEAN /\ ~end
  BY <1>1, Zenon
<1>. QED
  BY <1>1, <1>4, <1>5, <1>6 DEF ReaderInv

\* While the capture stays, so do the frames.
LEMMA SameFrames ==
    ASSUME capture' = capture
    PROVE  /\ Fills' = Fills
           /\ \A f : Filled(f)' = Filled(f) /\ FrameOf(f)' = FrameOf(f)
<1>1. \A f : Filled(f)' = Filled(f) /\ FrameOf(f)' = FrameOf(f)
  BY DEF Filled, FrameOf, Parse
<1>. QED
  BY <1>1 DEF Fills

LEMMA OpenReaderInv ==
    ASSUME ReaderInv, Open
    PROVE  ReaderInv'
<1>1. /\ capture' = capture /\ truncated' = truncated /\ delivered' = delivered
      /\ status = "new"
  BY DEF Open
<1>2. /\ Fills' = Fills /\ delivered = <<>> /\ fetched = 0 /\ ~end
      /\ delivered \in Seq(Fills) /\ Len(delivered) = 0 /\ Len(capture) \in Nat
      /\ capture \in Seq(FrameKinds) /\ pl_buf = fetched
  BY <1>1, SameFrames DEF ReaderInv
<1>3. CASE PeekFrame /\ status' = "open"
  <2>1. fetched' = 1 /\ pl_buf' = 1 /\ 1 <= Len(capture)
    BY <1>2, <1>3 DEF PeekFrame
  <2>2. end' \in BOOLEAN /\ ~end'
    BY <1>3, Zenon DEF PeekFrame
  <2>. QED  BY <1>1, <1>2, <1>3, <2>1, <2>2 DEF ReaderInv
<1>4. CASE PeekEnd /\ status' = "open"
  BY <1>1, <1>2, <1>4 DEF ReaderInv, PeekEnd
<1>5. CASE PeekFails /\ status' = "threw"
  BY <1>1, <1>2, <1>5 DEF ReaderInv, PeekFails
<1>6. CASE status' = "refused" /\ UNCHANGED <<fetched, pl_buf, end>>
  BY <1>1, <1>2, <1>6 DEF ReaderInv
<1>. QED
  BY <1>3, <1>4, <1>5, <1>6 DEF Open

LEMMA ReadNextInv ==
    ASSUME ReaderInv, ReadNext
    PROVE  /\ ReaderInv'
           /\ status' = "open" =>
                 /\ Len(delivered') = Len(delivered) + 1
                 /\ delivered'[Len(delivered')] = Filled(FrameOf(Len(delivered) + 1))
                 /\ FrameOf(Len(delivered) + 1) \in 1 .. Len(capture)
           /\ status' # "open" => delivered' = delivered
<1>1. /\ capture' = capture /\ truncated' = truncated /\ status = "open" /\ ~end
  BY DEF ReadNext
<1>2. /\ Fills' = Fills /\ \A f : Filled(f)' = Filled(f) /\ FrameOf(f)' = FrameOf(f)
  BY <1>1, SameFrames
<1>3. /\ delivered \in Seq(Fills) /\ Len(delivered) = fetched - 1 /\ Len(capture) \in Nat
      /\ capture \in Seq(FrameKinds) /\ pl_buf = fetched
      /\ fetched \in 1 .. Len(capture) /\ Len(delivered) \in Nat
      /\ \A i \in 1 .. Len(delivered) : delivered[i] = Filled(FrameOf(i))
  BY <1>1 DEF ReaderInv
<1>4. ASSUME NEW f \in 1 .. Len(capture), f = FrameOf(Len(delivered) + 1),
             delivered' = Append(delivered, Filled(f))
      PROVE  /\ delivered' \in Seq(Fills) /\ Len(delivered') = Len(delivered) + 1
             /\ \A i \in 1 .. Len(delivered') : delivered'[i] = Filled(FrameOf(i))
  <2>1. Filled(f) \in Fills
    BY DEF Fills
  <2>. QED  BY <1>3, <1>4, <2>1
<1>5. CASE PeekFrame /\ delivered' = Append(delivered, Filled(pl_buf')) /\ status' = status
  <2>1. fetched' = fetched + 1 /\ pl_buf' = fetched + 1 /\ fetched < Len(capture)
    BY <1>5 DEF PeekFrame
  <2>4. end' \in BOOLEAN /\ ~end'
    BY <1>5, Zenon DEF PeekFrame
  <2>2. fetched + 1 \in 1 .. Len(capture) /\ fetched + 1 = FrameOf(Len(delivered) + 1)
    BY <1>3, <2>1 DEF FrameOf
  <2>3. /\ delivered' \in Seq(Fills) /\ Len(delivered') = Len(delivered) + 1
        /\ \A i \in 1 .. Len(delivered') : delivered'[i] = Filled(FrameOf(i))
    BY <1>4, <1>5, <2>1, <2>2
  <2>. QED  BY <1>1, <1>2, <1>3, <1>5, <2>1, <2>2, <2>3, <2>4 DEF ReaderInv
<1>6. CASE PeekEnd /\ delivered' = Append(delivered, Filled(pl_buf')) /\ status' = status
  <2>1. fetched' = fetched /\ pl_buf' = fetched /\ fetched = Len(capture) /\ end' = TRUE /\ ~truncated
    BY <1>3, <1>6 DEF PeekEnd
  <2>2. fetched \in 1 .. Len(capture) /\ fetched = FrameOf(Len(delivered) + 1)
    BY <1>3, <2>1 DEF FrameOf
  <2>3. /\ delivered' \in Seq(Fills) /\ Len(delivered') = Len(delivered) + 1
        /\ \A i \in 1 .. Len(delivered') : delivered'[i] = Filled(FrameOf(i))
    BY <1>4, <1>6, <2>1, <2>2
  <2>. QED  BY <1>1, <1>2, <1>3, <1>6, <2>1, <2>2, <2>3 DEF ReaderInv
<1>7. CASE PeekFails /\ status' = "threw" /\ delivered' = delivered
  BY <1>1, <1>2, <1>3, <1>7 DEF ReaderInv, PeekFails
<1>. QED
  BY <1>5, <1>6, <1>7 DEF ReadNext

LEMMA NextReaderInv == ReaderInv /\ [ReaderNext]_reader_vars => ReaderInv'
<1>1. ASSUME ReaderInv, UNCHANGED reader_vars
      PROVE  ReaderInv'
  <2>1. /\ Fills' = Fills /\ \A f : Filled(f)' = Filled(f) /\ FrameOf(f)' = FrameOf(f)
    BY <1>1, SameFrames DEF reader_vars
  <2>. QED  BY <1>1, <2>1 DEF ReaderInv, reader_vars
<1>. QED
  BY <1>1, OpenReaderInv, ReadNextInv, Zenon DEF ReaderNext, Over

LEMMA InvGivesOrder == ReaderInv => FramesInOrder
<1>. SUFFICES ASSUME ReaderInv
              PROVE  FramesInOrder
  OBVIOUS
<1>1. /\ Len(capture) \in Nat /\ Len(delivered) \in Nat /\ DOMAIN delivered = 1 .. Len(delivered)
      /\ fetched \in 0 .. Len(capture)
  BY DEF ReaderInv
<1>2. Len(delivered) <= Len(capture)
  BY <1>1 DEF ReaderInv
<1>3. \A f : Filled(f).ts = f
  BY DEF Filled
<1>4. \A i \in 1 .. Len(delivered) : delivered[i].ts = FrameOf(i)
  BY <1>3 DEF ReaderInv
<1>5. \A i \in DOMAIN delivered : delivered[i].ts # 0
  BY <1>1, <1>4 DEF FrameOf
<1>6. ASSUME NEW i \in 2 .. Len(delivered)
      PROVE  delivered[i].ts - delivered[i - 1].ts \in
                 IF i = Len(capture) THEN {0, 1} ELSE {1}
  <2>1. delivered[i].ts = FrameOf(i) /\ delivered[i - 1].ts = FrameOf(i - 1)
    BY <1>1, <1>4
  <2>2. FrameOf(i - 1) = i
    BY <1>1, <1>2 DEF FrameOf
  <2>3. FrameOf(i) = IF i = Len(capture) THEN i ELSE i + 1
    BY <1>1, <1>2 DEF FrameOf
  <2>. QED  BY <1>1, <2>1, <2>2, <2>3
<1>. QED
  BY <1>2, <1>5, <1>6 DEF FramesInOrder, ReaderInv

\* The loop of the header's comment gets the frames in the order of the capture,
\* leaves out only the first and repeats only the last, in as many calls as
\* there are frames.
THEOREM ReaderInOrder == ReaderSpec => []FramesInOrder
BY InitReaderInv, NextReaderInv, InvGivesOrder, PTL DEF ReaderSpec

-----------------------------------------------------------------------------
(***************************************************************************)
(* The program                                                             *)
(***************************************************************************)

\* The kinds of the frames are those of the packets they are.
ContentInv ==
    /\ DOMAIN content = 1 .. Len(capture)
    /\ \A f \in DOMAIN content : /\ content[f] \in Packets
                                 /\ capture[f] = IpProto[content[f].key]

\* No flow of another protocol than TCP and UDP is exported.
ExportedInv == \A c \in exported : IpProto[c.key] # "other"

\* What the theorems of FlowTable are about.
TableInv == FlowInv /\ OnlyLoneAcksVanish /\ ExportedInv

\* The log is what was read.
LogInv ==
    /\ Len(log) = Len(delivered)
    /\ \A i \in 1 .. Len(log) : log[i] = content[FrameOf(i)]

\* The writer's side.
OutputInv ==
    /\ w_total = n_flows_processed
    /\ disk \in Nat /\ disk <= 2 * w_total + 1
    /\ w_status \in {"open", "closed", "dead"}
    /\ w_status = "closed" => end
    /\ w_status # "closed" => disk <= 2 * w_total

ExporterInv == ReaderInv /\ ContentInv /\ TableInv /\ LogInv /\ OutputInv

LEMMA NextExportedInv ==
    ASSUME TypeInv, ExportedInv, [CaptureNext]_vars
    PROVE  ExportedInv'
<1>1. CASE exported' = exported
  BY <1>1 DEF ExportedInv
<1>2. ASSUME NEW p, NEW table, NEW closed, NEW timed_out, NEW acks,
             AddStep(p, table, closed, timed_out, acks)
      PROVE  ExportedInv'
  <2>1. \A k \in closed : IpProto[k] = "tcp"
    BY <1>2 DEF AddStep, CheckEvict
  <2>2. \A k \in timed_out : IpProto[k] \in {"tcp", "udp"}
    BY <1>2 DEF AddStep, TimedOut
  <2>3. PICK R : /\ R = {Record(table, k, TRUE, p.ts) : k \in closed} \cup
                        {Record(table, k, IpProto[k] = "udp", p.ts) : k \in timed_out}
                 /\ Leave(table, closed \cup timed_out, acks, R)
    BY <1>2, Zenon DEF AddStep
  <2>4. exported' = exported \cup R /\ \A r \in R : r.key \in closed \cup timed_out
    BY <2>3 DEF Leave, RecordsOf
  <2>. QED  BY <2>1, <2>2, <2>4 DEF ExportedInv
<1>. QED
  BY <1>1, <1>2, CaptureCases

LEMMA NextTableInv ==
    ASSUME TableInv, [CaptureNext]_vars
    PROVE  TableInv'
<1>1. [Next]_vars /\ TypeInv
  BY CaptureIsNext DEF TableInv, FlowInv, PacketInv
<1>. QED
  BY <1>1, NextFlowInv, NextLoneAcks, NextExportedInv DEF TableInv, FlowInv

LEMMA InitTableInv == Init => TableInv
<1>1. Init => ExportedInv
  BY DEF Init, ExportedInv
<1>. QED
  BY <1>1, InitFlowInv, InitLoneAcks DEF TableInv

\* A frame that is parsed gives the packet it is.
LEMMA FrameIsPacket ==
    ASSUME ContentInv, NEW f \in 1 .. Len(capture), Len(capture) \in Nat
    PROVE  PacketOf(Filled(f)) = content[f]
<1>. DEFINE p == content[f]
<1>1. /\ p \in Packets /\ capture[f] = IpProto[p.key] /\ f # 0
  BY DEF ContentInv
<1>2. /\ p.key \in Keys /\ p = [key |-> p.key, ts |-> p.ts, flags |-> p.flags]
      /\ IpProto[p.key] \in {"tcp", "udp", "other"}
      /\ IpProto[p.key] = "other" => p.key = ZeroKey
      /\ IpProto[p.key] # "tcp" => p.flags = {}
  BY <1>1, KeyAssumption, ExporterAssumption DEF Packets
<1>3. /\ Filled(f).key = IF capture[f] \in {"tcp", "udp"} THEN f ELSE 0
      /\ Filled(f).tcp = IF capture[f] \in {"tcp"} THEN f ELSE 0
      /\ Filled(f).ts = f
  BY DEF Filled, Parse
<1>4. (IF Filled(f).key = 0 THEN ZeroKey ELSE content[Filled(f).key].key) = p.key
  BY <1>1, <1>2, <1>3
<1>5. (IF Filled(f).tcp = 0 THEN {} ELSE content[Filled(f).tcp].flags) = p.flags
  BY <1>1, <1>2, <1>3
<1>6. PacketOf(Filled(f)) = [key |-> p.key, ts |-> p.ts, flags |-> p.flags]
  BY <1>3, <1>4, <1>5, Zenon DEF PacketOf
<1>. QED
  BY <1>2, <1>6

LEMMA InitContentInv == ExporterInit => ReaderInv /\ ContentInv /\ TableInv
<1>. SUFFICES ASSUME ExporterInit
              PROVE  ContentInv
  BY InitReaderInv, InitTableInv DEF ExporterInit
<1>1. PICK n \in 0 .. MaxFrames : content \in [1 .. n -> Packets]
  BY DEF ExporterInit
<1>2. n \in Nat /\ capture = [f \in 1 .. n |-> IpProto[content[f].key]]
  BY <1>1, ReaderAssumption DEF ExporterInit
<1>3. capture \in Seq(FrameKinds)
  BY InitReaderInv DEF ExporterInit, ReaderInv
<1>4. Len(capture) = n
  BY <1>2, <1>3
<1>. QED
  BY <1>1, <1>2, <1>4 DEF ContentInv

LEMMA InitExporterInv == ExporterInit => ExporterInv
<1>. SUFFICES ASSUME ExporterInit
              PROVE  ExporterInv
  OBVIOUS
<1>1. ReaderInv /\ ContentInv /\ TableInv
  BY InitContentInv
<1>2. log = <<>> /\ delivered = <<>> /\ n_flows_processed = 0 /\ w_total = 0 /\ disk = 0
      /\ w_status = "open"
  BY DEF ExporterInit, Init, ReaderInit, WriterInit
<1>3. LogInv
  BY <1>2 DEF LogInv
<1>4. OutputInv
  BY <1>2 DEF OutputInv
<1>. QED
  BY <1>1, <1>3, <1>4 DEF ExporterInv

\* Every step of the program is one of the reader and one of the table.
LEMMA ExporterSteps ==
    ASSUME ContentInv, ReaderInv, [ExporterNext]_exporter_vars
    PROVE  [ReaderNext]_reader_vars /\ [CaptureNext]_vars /\ content' = content
<1>1. ASSUME Construct
      PROVE  [ReaderNext]_reader_vars /\ [CaptureNext]_vars /\ content' = content
  BY <1>1, Zenon DEF Construct, ReaderNext, CaptureNext
<1>2. ASSUME Round
      PROVE  [ReaderNext]_reader_vars /\ [CaptureNext]_vars /\ content' = content
  <2>1. ReadNext /\ content' = content
    BY <1>2, Zenon DEF Round
  <2>2. CASE status' = "open" /\ AddPacket(PacketOf(delivered'[Len(delivered')]))
    <3>1. PICK f \in 1 .. Len(capture) : delivered'[Len(delivered')] = Filled(f)
      BY <2>1, <2>2, ReadNextInv
    <3>2. PacketOf(Filled(f)) = content[f] /\ content[f] \in Packets
      <4>1. Len(capture) \in Nat
        BY DEF ReaderInv
      <4>. QED  BY <4>1, FrameIsPacket DEF ContentInv
    <3>3. AddPacket(content[f])
      BY <2>2, <3>1, <3>2, Zenon
    <3>. QED  BY <2>1, <3>2, <3>3, Zenon DEF ReaderNext, CaptureNext
  <2>3. CASE UNCHANGED vars
    BY <2>1, <2>3, Zenon DEF ReaderNext
  <2>. QED  BY <1>2, <2>2, <2>3, Zenon DEF Round
<1>3. ASSUME Finish \/ Returned \/ UNCHANGED exporter_vars
      PROVE  [ReaderNext]_reader_vars /\ [CaptureNext]_vars /\ content' = content
  <2>1. UNCHANGED <<vars, reader_vars, content>>
    <3>1. UNCHANGED exporter_vars => UNCHANGED <<vars, reader_vars, content>>
      BY DEF exporter_vars
    <3>. QED  BY <1>3, <3>1, Zenon DEF Finish, Returned
  <2>. QED  BY <2>1
<1>. QED
  BY <1>1, <1>2, <1>3, Zenon DEF ExporterNext

\* What is written while the file is open.
LEMMA WriterSteps ==
    ASSUME w_total \in Nat, disk \in Nat, disk <= 2 * w_total + 1,
           w_status # "closed" => disk <= 2 * w_total
    PROVE  /\ \A n \in Nat : WriteClfrs(n) =>
                 /\ w_total' = w_total + n /\ disk' \in Nat /\ disk' <= 2 * w_total'
                 /\ w_status = "open" /\ w_status' = "open"
           /\ Close => /\ w_total' = w_total /\ disk' \in Nat /\ disk' <= 2 * w_total + 1
                       /\ w_status = "open" /\ w_status' = "closed"
           /\ Die => /\ w_total' = w_total /\ disk' = disk
                     /\ w_status = "open" /\ w_status' = "dead"
<1>1. ASSUME NEW n \in Nat, WriteClfrs(n)
      PROVE  /\ w_total' = w_total + n /\ disk' \in Nat /\ disk' <= 2 * w_total'
             /\ w_status = "open" /\ w_status' = "open"
  BY <1>1 DEF WriteClfrs, Flushed
<1>2. ASSUME Close
      PROVE  /\ w_total' = w_total /\ disk' \in Nat /\ disk' <= 2 * w_total + 1
             /\ w_status = "open" /\ w_status' = "closed"
  BY <1>2 DEF Close, Flushed
<1>3. ASSUME Die
      PROVE  /\ w_total' = w_total /\ disk' = disk
             /\ w_status = "open" /\ w_status' = "dead"
  BY <1>3 DEF Die
<1>. QED
  BY <1>1, <1>2, <1>3

\* The number of records that an add_packet exports.
LEMMA NewRecordCount ==
    ASSUME TableInv, TableInv', exported \subseteq exported'
    PROVE  /\ n_flows_processed \in Nat /\ n_flows_processed' \in Nat
           /\ n_flows_processed = Cardinality(exported)
           /\ n_flows_processed' = Cardinality(exported')
           /\ n_flows_processed <= n_flows_processed'
<1>1. /\ IsFiniteSet(exported) /\ IsFiniteSet(exported')
      /\ n_flows_processed = Cardinality(exported)
      /\ n_flows_processed' = Cardinality(exported')
  BY DEF TableInv, FlowInv, IdInv
<1>2. /\ n_flows_processed \in Nat /\ n_flows_processed' \in Nat
  BY <1>1, FS_CardinalityType
<1>3. Cardinality(exported) <= Cardinality(exported')
  BY <1>1, FS_Subset
<1>. QED
  BY <1>1, <1>2, <1>3

LEMMA NextExporterInv == ExporterInv /\ [ExporterNext]_exporter_vars => ExporterInv'
<1>. SUFFICES ASSUME ExporterInv, [ExporterNext]_exporter_vars
              PROVE  ExporterInv'
  OBVIOUS
<1>1. /\ [ReaderNext]_reader_vars /\ [CaptureNext]_vars /\ content' = content
      /\ ReaderInv /\ ContentInv /\ TableInv /\ LogInv /\ OutputInv
  BY ExporterSteps DEF ExporterInv
<1>2. ReaderInv' /\ TableInv'
  BY <1>1, NextReaderInv, NextTableInv
<1>3. capture' = capture /\ truncated' = truncated
  BY <1>1, Zenon DEF ReaderNext, Open, ReadNext, Over, reader_vars
<1>4. ContentInv'
  BY <1>1, <1>3 DEF ContentInv
<1>5. /\ w_total \in Nat /\ n_flows_processed \in Nat
      /\ w_total = n_flows_processed /\ disk \in Nat /\ disk <= 2 * w_total + 1
      /\ w_status # "closed" => disk <= 2 * w_total
  BY <1>1 DEF OutputInv, TableInv, FlowInv, PacketInv, TypeInv, TypeOK
<1>6. \A f : FrameOf(f)' = FrameOf(f)
  BY <1>3, SameFrames
<1>7. ASSUME UNCHANGED <<log, delivered>>
      PROVE  LogInv'
  BY <1>1, <1>6, <1>7 DEF LogInv
<1>8. ASSUME Construct
      PROVE  LogInv' /\ OutputInv'
  <2>1. /\ UNCHANGED <<log, delivered, n_flows_processed>> /\ status = "new" /\ ~end
        /\ UNCHANGED writer_vars \/ Die
    BY <1>1, <1>8 DEF Construct, Open, OpenFails, SetCallback, vars, counters, ReaderInv
  <2>2. w_status # "closed"
    BY <1>1, <2>1 DEF OutputInv
  <2>3. OutputInv'
    BY <1>1, <1>5, <2>1, <2>2, WriterSteps DEF OutputInv, writer_vars
  <2>. QED  BY <1>7, <2>1, <2>3
<1>9. ASSUME Round
      PROVE  LogInv' /\ OutputInv'
  <2>1. ReadNext /\ ~end /\ w_status # "closed"
    BY <1>1, <1>9 DEF Round, ReadNext, OutputInv
  <2>2. ASSUME status' = "open", AddPacket(PacketOf(delivered'[Len(delivered')])),
               Writes(Cardinality(exported') - Cardinality(exported))
        PROVE  LogInv' /\ OutputInv'
    <3>. DEFINE n == Len(delivered) + 1
                p == content[FrameOf(n)]
    <3>1. /\ Len(delivered') = n /\ delivered'[Len(delivered')] = Filled(FrameOf(n))
          /\ FrameOf(n) \in 1 .. Len(capture) /\ Len(capture) \in Nat /\ Len(delivered) \in Nat
      BY <1>1, <2>1, <2>2, ReadNextInv DEF ReaderInv
    <3>2. AddPacket(p)
      BY <1>1, <2>2, <3>1, FrameIsPacket
    <3>3. log' = Append(log, p) /\ p \in Packets /\ log \in Seq(Packets)
      <4>1. log' = Append(log, p)
        BY <3>2, Zenon DEF AddPacket
      <4>2. p \in Packets /\ log \in Seq(Packets)
        BY <1>1, <3>1 DEF ContentInv, TableInv, FlowInv, PacketInv, TypeInv, TypeOK
      <4>. QED  BY <4>1, <4>2
    <3>4. LogInv'
      <4>1. Len(log) = Len(delivered) /\ \A i \in 1 .. Len(log) : log[i] = content[FrameOf(i)]
        BY <1>1 DEF LogInv
      <4>2. Len(log') = n /\ log'[n] = p /\ \A i \in 1 .. Len(log) : log'[i] = log[i]
        BY <3>3, <4>1
      <4>3. \A i \in 1 .. n : log'[i] = content[FrameOf(i)]
        BY <3>1, <4>1, <4>2
      <4>. QED  BY <1>1, <1>6, <3>1, <4>2, <4>3 DEF LogInv
    <3>5. exported \subseteq exported'
      BY <3>2, Zenon DEF AddPacket
    <3>6. PICK m \in Nat : /\ m = Cardinality(exported') - Cardinality(exported)
                           /\ n_flows_processed' = n_flows_processed + m
      BY <1>1, <1>2, <3>5, NewRecordCount
    <3>7. /\ w_total' = w_total + m /\ disk' \in Nat /\ disk' <= 2 * w_total'
          /\ w_status' = w_status
      <4>1. CASE m = 0 /\ UNCHANGED writer_vars
        BY <1>5, <2>1, <4>1 DEF writer_vars
      <4>2. CASE WriteClfrs(m)
        BY <1>5, <4>2, WriterSteps
      <4>. QED  BY <2>2, <3>6, <4>1, <4>2 DEF Writes
    <3>8. OutputInv'
      BY <1>1, <1>5, <2>1, <3>6, <3>7 DEF OutputInv
    <3>. QED  BY <3>4, <3>8
  <2>3. ASSUME status' = "threw", Die, UNCHANGED vars
        PROVE  LogInv' /\ OutputInv'
    <3>1. UNCHANGED <<log, delivered, n_flows_processed>>
      BY <1>1, <2>1, <2>3, ReadNextInv DEF vars, counters
    <3>2. OutputInv'
      BY <1>1, <1>5, <2>1, <2>3, <3>1, WriterSteps DEF OutputInv
    <3>. QED  BY <1>7, <3>1, <3>2
  <2>. QED  BY <1>9, <2>2, <2>3, Zenon DEF Round
<1>10. ASSUME Finish
       PROVE  LogInv' /\ OutputInv'
  <2>1. end /\ Close /\ UNCHANGED <<log, delivered, n_flows_processed, end>>
    BY <1>10 DEF Finish, vars, counters, reader_vars
  <2>2. OutputInv'
    BY <1>1, <1>5, <2>1, WriterSteps DEF OutputInv
  <2>. QED  BY <1>7, <2>1, <2>2
<1>11. ASSUME Returned \/ UNCHANGED exporter_vars
       PROVE  LogInv' /\ OutputInv'
  <2>1. UNCHANGED <<log, delivered, n_flows_processed, end, w_total, disk, w_status>>
    BY <1>11 DEF Returned, exporter_vars, vars, counters, reader_vars, writer_vars
  <2>2. OutputInv'
    BY <1>1, <2>1 DEF OutputInv
  <2>. QED  BY <1>7, <2>1, <2>2
<1>12. LogInv' /\ OutputInv'
  BY <1>8, <1>9, <1>10, <1>11, Zenon DEF ExporterNext
<1>. QED
  BY <1>2, <1>4, <1>12 DEF ExporterInv

-----------------------------------------------------------------------------
(***************************************************************************)
(* What the invariant gives                                                *)
(***************************************************************************)

\* Each packet the table accepted is counted once.
LEMMA LogCounted ==
    ASSUME TableInv
    PROVE  /\ IsFiniteSet(InDeleted)
           /\ Len(log) = n_packets + n_packets_processed + Cardinality(InDeleted)
<1>1. /\ Conservation /\ PacketCounts /\ Len(log) \in Nat
  BY DEF TableInv, FlowInv, PacketInv, TypeInv, TypeOK
<1>. DEFINE A == InTable
            B == InExports
            C == InDeleted
<1>2. /\ (A \cup B) \cup C = 1 .. Len(log)
      /\ A \cap B = {} /\ (A \cup B) \cap C = {}
  BY <1>1 DEF Conservation
<1>3. IsFiniteSet(1 .. Len(log)) /\ Cardinality(1 .. Len(log)) = Len(log)
  <2>1. 1 \in Int /\ Len(log) \in Int
    BY <1>1
  <2>2. /\ IsFiniteSet(1 .. Len(log))
        /\ Cardinality(1 .. Len(log)) = IF 1 > Len(log) THEN 0 ELSE Len(log) - 1 + 1
    BY <2>1, FS_Interval
  <2>3. PICK c : c = Cardinality(1 .. Len(log))
    OBVIOUS
  <2>4. c = Len(log)
    BY <1>1, <2>2, <2>3
  <2>. QED  BY <2>2, <2>3, <2>4
<1>4. A \cup B \subseteq 1 .. Len(log) /\ C \subseteq 1 .. Len(log)
  BY <1>2
<1>5. IsFiniteSet(A \cup B) /\ IsFiniteSet(A) /\ IsFiniteSet(B) /\ IsFiniteSet(C)
  BY <1>3, <1>4, FS_Subset
<1>. HIDE DEF A, B, C
<1>6. /\ Cardinality((A \cup B) \cup C) = Cardinality(A \cup B) + Cardinality(C)
      /\ Cardinality(A \cup B) = Cardinality(A) + Cardinality(B)
  BY <1>2, <1>5, DisjointUnion
<1>7. n_packets = Cardinality(A) /\ n_packets_processed = Cardinality(B)
  BY <1>1 DEF PacketCounts, A, B
<1>. QED
  BY <1>2, <1>3, <1>5, <1>6, <1>7 DEF C

\* The frames of packets that the table accepted.
LEMMA LoggedFrames ==
    ASSUME ExporterInv, NEW n \in 1 .. Len(log)
    PROVE  /\ delivered[n].ts = FrameOf(n) /\ FrameOf(n) \in DOMAIN content
           /\ log[n] = content[FrameOf(n)]
<1>1. /\ Len(log) = Len(delivered) /\ log[n] = content[FrameOf(n)]
      /\ delivered[n] = Filled(FrameOf(n))
      /\ DOMAIN content = 1 .. Len(capture) /\ Len(capture) \in Nat
  BY DEF ExporterInv, LogInv, ReaderInv, ContentInv
<1>2. Len(delivered) <= Len(capture) /\ Len(delivered) \in Nat
  BY InvGivesOrder DEF ExporterInv, FramesInOrder, ReaderInv
<1>3. FrameOf(n) \in DOMAIN content
  BY <1>1, <1>2 DEF FrameOf
<1>. QED
  BY <1>1, <1>3 DEF Filled

LEMMA InvGivesCounters == ExporterInv => CountersAgree
<1>. SUFFICES ASSUME ExporterInv
              PROVE  CountersAgree
  OBVIOUS
<1>1. /\ Len(log) = Len(delivered) /\ w_total = n_flows_processed
      /\ n_flows_processed = Cardinality(exported)
  BY DEF ExporterInv, LogInv, OutputInv, TableInv, FlowInv, IdInv
<1>2. Len(log) = n_packets + n_packets_processed + Cardinality(InDeleted)
  BY LogCounted DEF ExporterInv
<1>. QED
  BY <1>1, <1>2 DEF CountersAgree

LEMMA InvGivesAccounts == ExporterInv => TerminatedAccounts
<1>. SUFFICES ASSUME ExporterInv, Terminated
              PROVE  /\ ~truncated /\ end
                     /\ 2 .. Len(capture) \subseteq Frames(InExports \cup InDeleted \cup InTable)
                     /\ Frames(InDeleted) \subseteq
                          {f \in DOMAIN content : "ack" \in content[f].flags}
  BY DEF TerminatedAccounts
<1>1. w_status = "closed"
  <2>1. w_total \in Nat
    BY DEF ExporterInv, OutputInv, TableInv, FlowInv, PacketInv, TypeInv, TypeOK
  <2>. QED  BY <2>1 DEF ExporterInv, OutputInv, Terminated
<1>2. end /\ ~truncated /\ Len(delivered) = Len(capture) /\ Len(capture) \in Nat
  BY <1>1 DEF ExporterInv, OutputInv, ReaderInv
<1>3. InExports \cup InDeleted \cup InTable = 1 .. Len(log) /\ Len(log) = Len(capture)
  BY <1>2 DEF ExporterInv, LogInv, TableInv, FlowInv, PacketInv, Conservation
<1>4. ASSUME NEW f \in 2 .. Len(capture)
      PROVE  f \in Frames(1 .. Len(log))
  <2>1. f - 1 \in 1 .. Len(log) /\ FrameOf(f - 1) = f
    BY <1>2, <1>3 DEF FrameOf
  <2>2. delivered[f - 1].ts = f
    BY <2>1, LoggedFrames
  <2>. QED  BY <2>1, <2>2 DEF Frames
<1>5. ASSUME NEW n \in InDeleted
      PROVE  /\ delivered[n].ts \in DOMAIN content
             /\ "ack" \in content[delivered[n].ts].flags
  <2>1. n \in 1 .. Len(log)
    BY <1>3
  <2>2. PICK d \in deleted : n \in d.pkts
    BY DEF InDeleted
  <2>3. "ack" \in log[n].flags
    BY <2>2 DEF ExporterInv, TableInv, OnlyLoneAcksVanish
  <2>. QED  BY <2>1, <2>3, LoggedFrames
<1>6. Frames(InDeleted) \subseteq {f \in DOMAIN content : "ack" \in content[f].flags}
  BY <1>5 DEF Frames
<1>7. 2 .. Len(capture) \subseteq Frames(InExports \cup InDeleted \cup InTable)
  BY <1>3, <1>4
<1>. QED
  BY <1>2, <1>6, <1>7

LEMMA InvGivesKeys == ExporterInv => RecordsAreOfOneKey
<1>. SUFFICES ASSUME ExporterInv
              PROVE  RecordsAreOfOneKey
  OBVIOUS
<1>1. PacketInv /\ IdInv /\ ExportedInv
  BY DEF ExporterInv, TableInv, FlowInv
<1>2. ASSUME NEW f \in AllFlows, NEW n \in f.pkts
      PROVE  content[delivered[n].ts].key = f.key
  <2>1. log[n].key = f.key /\ n \in 1 .. Len(log)
    BY <1>1, FlowTypes DEF IdInv, OwnPackets
  <2>. QED  BY <2>1, LoggedFrames
<1>3. ASSUME NEW c \in exported, NEW n \in c.pkts
      PROVE  content[delivered[n].ts].key = c.key
  <2>1. FlowOf(c) \in AllFlows /\ FlowOf(c).pkts = c.pkts /\ FlowOf(c).key = c.key
    BY AllFlowsWith DEF FlowsWith, FlowOf
  <2>. QED  BY <1>2, <2>1
<1>4. ASSUME NEW k \in DOMAIN active_flows, NEW n \in active_flows[k].pkts
      PROVE  content[delivered[n].ts].key = k
  <2>1. /\ Remains(active_flows, k) \in AllFlows
        /\ Remains(active_flows, k).pkts = active_flows[k].pkts
        /\ Remains(active_flows, k).key = k
    BY AllFlowsWith DEF FlowsWith, Remains
  <2>. QED  BY <1>2, <2>1
<1>5. \A c \in exported : c.key # ZeroKey
  BY <1>1, ExporterAssumption DEF ExportedInv
<1>. QED
  BY <1>3, <1>4, <1>5 DEF RecordsAreOfOneKey, Frames

\* The reader does in the program what it does in the loop of its comment.
THEOREM FramesAreInOrder == ExporterSpec => []FramesInOrder
<1>1. ExporterInv => FramesInOrder
  BY InvGivesOrder DEF ExporterInv
<1>. QED
  BY <1>1, InitExporterInv, NextExporterInv, PTL DEF ExporterSpec

\* The counters of the three parts agree after every round, also when the
\* process is about to die of an exception.
THEOREM AllCountersAgree == ExporterSpec => []CountersAgree
BY InvGivesCounters, InitExporterInv, NextExporterInv, PTL DEF ExporterSpec

\* Only a capture that was read to its end makes a file with a terminator, and
\* of its frames only the first, lone ACKs and flows still in the table are
\* missing from the file.
THEOREM FileAccounts == ExporterSpec => []TerminatedAccounts
BY InvGivesAccounts, InitExporterInv, NextExporterInv, PTL DEF ExporterSpec

\* No frame gets into a record of another key, and none of the frames that are
\* neither TCP nor UDP into any record.
THEOREM RecordsHaveOneKey == ExporterSpec => []RecordsAreOfOneKey
BY InvGivesKeys, InitExporterInv, NextExporterInv, PTL DEF ExporterSpec

-----------------------------------------------------------------------------
(***************************************************************************)
(* The kernels                                                             *)
(***************************************************************************)

RawPackets == [frame : DOMAIN content, shifted : BOOLEAN]

StreamTypes ==
    /\ source \in {"pcap", "tzsp", "live"} /\ src_over \in BOOLEAN
    /\ received \in Seq(RawPackets) /\ raw \in Seq(RawPackets)
    /\ held \in Seq(IF FromFile THEN Packets ELSE RawPackets)
    /\ parsed \in Seq(Packets) /\ packets \in Seq(Packets)
    /\ pending \in Seq(CLFR) /\ clfrs \in Seq(CLFR) /\ written \in Seq(CLFR)

SourceInv ==
    /\ src_over => FromFile /\ end /\ held = <<>>
    /\ FromFile => raw = <<>> /\ parsed = <<>>

\* The file: not all tokens of the records may have got there.
FileInv ==
    /\ w_total \in Nat /\ disk \in Nat /\ disk <= 2 * w_total + 1
    /\ w_status \in {"open", "closed", "dead"}
    /\ w_status # "closed" => disk <= 2 * w_total
    /\ w_status = "closed" => StreamsOver
    /\ w_status = "dead" /\ FromFile => truncated \/ ~callback

\* What the reader has made of the file.
FileSoFar == [n \in 1 .. Len(delivered) |-> PacketOf(delivered[n])]

\* a is what has become of the first items of r, by P, and w is the rest of r.
Follows(a, w, r, P) ==
    /\ Len(r) = Len(a) + Len(w)
    /\ \A n \in 1 .. Len(w) : w[n] = r[Len(a) + n]
    /\ \A n \in 1 .. Len(a) : a[n] \in P[r[n]]

Parses == [r \in RawPackets |-> RawParsed(r)]

PassedInv ==
    /\ FromFile => Arrived \o held = FileSoFar
    /\ ~FromFile => Follows(Arrived, raw \o held, received, Parses)

\* q lists the records in E, each once and those of one key by their ids.
Listed(q, E) ==
    /\ {q[n] : n \in 1 .. Len(q)} = E
    /\ Len(q) = Cardinality(E)
    /\ \A m, n \in 1 .. Len(q) : m < n /\ q[m].key = q[n].key => q[m].id < q[n].id

RecordsInv == Listed(Records, exported) /\ w_total = Len(written)

StreamInv == StreamTypes /\ SourceInv /\ FileInv /\ PassedInv /\ RecordsInv

PipelineInv == ReaderInv /\ ContentInv /\ TableInv /\ StreamInv

-----------------------------------------------------------------------------
(***************************************************************************)
(* Items that move from stream to stream                                   *)
(***************************************************************************)

\* The head of one stream goes to the end of the one before it.
LEMMA HeadMoves ==
    ASSUME NEW S, NEW a \in Seq(S), NEW b \in Seq(S), b # <<>>
    PROVE  /\ Append(a, Head(b)) \o Tail(b) = a \o b
           /\ Append(a, Head(b)) \in Seq(S) /\ Tail(b) \in Seq(S) /\ Head(b) \in S
<1>1. PICK h, t : h = Head(b) /\ t = Tail(b)
  OBVIOUS
<1>2. h \in S /\ t \in Seq(S) /\ <<h>> \in Seq(S) /\ b = <<h>> \o t
  BY <1>1
<1>3. Append(a, h) = a \o <<h>> /\ Append(a, h) \in Seq(S)
  BY <1>2, AppendIsConcat
<1>4. (a \o <<h>>) \o t = a \o (<<h>> \o t)
  BY <1>2, ConcatAssociative
<1>. QED
  BY <1>1, <1>2, <1>3, <1>4

LEMMA AppendLater ==
    ASSUME NEW S, NEW a \in Seq(S), NEW b \in Seq(S), NEW x \in S
    PROVE  a \o Append(b, x) = Append(a \o b, x) /\ Append(b, x) \in Seq(S)
<1>1. /\ Append(b, x) = b \o <<x>> /\ <<x>> \in Seq(S) /\ a \o b \in Seq(S)
      /\ Append(a \o b, x) = (a \o b) \o <<x>>
  BY AppendIsConcat, ConcatProperties
<1>2. (a \o b) \o <<x>> = a \o (b \o <<x>>)
  BY <1>1, ConcatAssociative
<1>. QED
  BY <1>1, <1>2

\* v is w and x behind it.
LEMMA AppendAt ==
    ASSUME NEW S, NEW w \in Seq(S), NEW x \in S, NEW v, v = Append(w, x), NEW j, j = Len(w)
    PROVE  /\ v \in Seq(S) /\ Len(v) = j + 1 /\ v[j + 1] = x
           /\ \A n \in 1 .. j : v[n] = w[n]
  BY AppendProperties

\* v is w without its head.
LEMMA TailAt ==
    ASSUME NEW S, NEW w \in Seq(S), w # <<>>, NEW v, v = Tail(w), NEW j, j = Len(w)
    PROVE  /\ v \in Seq(S) /\ Len(v) = j - 1 /\ j \in Nat /\ j >= 1 /\ Head(w) = w[1]
           /\ \A n \in 1 .. j - 1 : v[n] = w[n + 1]
<1>1. /\ Tail(w) \in Seq(S) /\ Len(Tail(w)) = Len(w) - 1
      /\ \A n \in 1 .. Len(Tail(w)) : Tail(w)[n] = w[n + 1]
  BY HeadTailProperties
<1>2. Len(w) \in Nat /\ Len(w) >= 1 /\ Head(w) = w[1]
  OBVIOUS
<1>. QED
  BY <1>1, <1>2

\* u is q and s behind it.
LEMMA ConcatAt ==
    ASSUME NEW S, NEW q \in Seq(S), NEW s \in Seq(S), NEW u, u = q \o s,
           NEW i, i = Len(q), NEW j, j = Len(s)
    PROVE  /\ u \in Seq(S) /\ Len(u) = i + j /\ i \in Nat /\ j \in Nat
           /\ \A n \in 1 .. i : u[n] = q[n]
           /\ \A n \in 1 .. j : u[i + n] = s[n]
<1>1. /\ u \in Seq(S) /\ Len(u) = i + j
      /\ \A n \in 1 .. i + j : u[n] = IF n <= i THEN q[n] ELSE s[n - i]
  BY ConcatProperties
<1>2. i \in Nat /\ j \in Nat
  OBVIOUS
<1>3. ASSUME NEW n \in 1 .. i PROVE u[n] = q[n]
  BY <1>1, <1>2
<1>4. ASSUME NEW n \in 1 .. j PROVE u[i + n] = s[n]
  <2>1. i + n \in 1 .. i + j /\ ~(i + n <= i) /\ (i + n) - i = n
    BY <1>2
  <2>. QED  BY <1>1, <2>1
<1>. QED
  BY <1>1, <1>2, <1>3, <1>4

\* Another item is received.
LEMMA FollowsReceived ==
    ASSUME NEW S, NEW T, NEW a \in Seq(T), NEW w \in Seq(S), NEW r \in Seq(S), NEW x \in S,
           NEW P, Follows(a, w, r, P)
    PROVE  Follows(a, Append(w, x), Append(r, x), P)
<1>1. PICK i, j \in Nat : i = Len(a) /\ j = Len(w)
  OBVIOUS
<1>2. /\ Len(r) = i + j
      /\ \A n \in 1 .. j : w[n] = r[i + n]
      /\ \A n \in 1 .. i : a[n] \in P[r[n]]
  BY <1>1 DEF Follows
<1>3. PICK v, q : v = Append(w, x) /\ q = Append(r, x)
  OBVIOUS
<1>4. /\ Len(v) = j + 1 /\ v[j + 1] = x /\ \A n \in 1 .. j : v[n] = w[n]
      /\ Len(q) = i + j + 1 /\ q[i + j + 1] = x /\ \A n \in 1 .. i + j : q[n] = r[n]
  <2>1. Len(v) = j + 1 /\ v[j + 1] = x /\ \A n \in 1 .. j : v[n] = w[n]
    BY <1>1, <1>3, AppendAt
  <2>2. PICK k : k = Len(r)
    OBVIOUS
  <2>3. Len(q) = k + 1 /\ q[k + 1] = x /\ \A n \in 1 .. k : q[n] = r[n]
    BY <1>3, <2>2, AppendAt
  <2>4. k = i + j
    BY <1>2, <2>2
  <2>. QED  BY <2>1, <2>3, <2>4
<1>5. ASSUME NEW n \in 1 .. j + 1 PROVE v[n] = q[i + n]
  <2>1. CASE n = j + 1
    BY <1>4, <2>1
  <2>2. CASE n # j + 1
    <3>1. n \in 1 .. j /\ i + n \in 1 .. i + j
      BY <2>2
    <3>. QED  BY <1>2, <1>4, <3>1
  <2>. QED  BY <2>1, <2>2
<1>6. ASSUME NEW n \in 1 .. i PROVE a[n] \in P[q[n]]
  <2>1. n \in 1 .. i + j
    OBVIOUS
  <2>. QED  BY <1>2, <1>4, <2>1
<1>7. Follows(a, v, q, P)
  BY <1>1, <1>4, <1>5, <1>6 DEF Follows
<1>. QED
  BY <1>3, <1>7

\* The next item has become p.
LEMMA FollowsParsed ==
    ASSUME NEW S, NEW T, NEW a \in Seq(T), NEW w \in Seq(S), NEW r \in Seq(S), NEW P,
           Follows(a, w, r, P), w # <<>>, NEW p \in T, p \in P[Head(w)]
    PROVE  Follows(Append(a, p), Tail(w), r, P)
<1>1. PICK i, j \in Nat : i = Len(a) /\ j = Len(w)
  OBVIOUS
<1>2. /\ Len(r) = i + j
      /\ \A n \in 1 .. j : w[n] = r[i + n]
      /\ \A n \in 1 .. i : a[n] \in P[r[n]]
  BY <1>1 DEF Follows
<1>3. PICK v, b : v = Tail(w) /\ b = Append(a, p)
  OBVIOUS
<1>4. /\ Len(v) = j - 1 /\ \A n \in 1 .. j - 1 : v[n] = w[n + 1]
      /\ Len(b) = i + 1 /\ b[i + 1] = p /\ \A n \in 1 .. i : b[n] = a[n]
      /\ Head(w) = w[1] /\ j >= 1
  <2>1. Len(b) = i + 1 /\ b[i + 1] = p /\ \A n \in 1 .. i : b[n] = a[n]
    BY <1>1, <1>3, AppendAt
  <2>2. /\ Len(v) = j - 1 /\ \A n \in 1 .. j - 1 : v[n] = w[n + 1]
        /\ Head(w) = w[1] /\ j >= 1
    BY <1>1, <1>3, TailAt
  <2>. QED  BY <2>1, <2>2
<1>5. ASSUME NEW n \in 1 .. j - 1 PROVE v[n] = r[i + 1 + n]
  <2>1. n + 1 \in 1 .. j /\ i + (n + 1) = i + 1 + n
    OBVIOUS
  <2>. QED  BY <1>2, <1>4, <2>1
<1>6. ASSUME NEW n \in 1 .. i + 1 PROVE b[n] \in P[r[n]]
  <2>1. CASE n = i + 1
    <3>1. w[1] = r[i + 1] /\ p \in P[w[1]]
      BY <1>2, <1>4
    <3>. QED  BY <1>4, <2>1, <3>1
  <2>2. CASE n # i + 1
    <3>1. n \in 1 .. i
      BY <2>2
    <3>. QED  BY <1>2, <1>4, <3>1
  <2>. QED  BY <2>1, <2>2
<1>7. Follows(b, v, r, P)
  BY <1>1, <1>2, <1>4, <1>5, <1>6 DEF Follows
<1>. QED
  BY <1>3, <1>7

\* The records in D which E lacks are of distinct keys, and of greater ids.
Newer(E, D) ==
    /\ \A c \in E, e \in D \ E : c.key = e.key => c.id < e.id
    /\ \A c, e \in D \ E : c.key = e.key => c = e

\* A list that the records in D which E lacks are added to, in any order.
LEMMA ListedMore ==
    ASSUME NEW E, NEW D, E \subseteq D, IsFiniteSet(D), NEW T, NEW q \in Seq(T), Listed(q, E),
           NEW s \in SetToSeqs(D \ E), D \subseteq T, Newer(E, D)
    PROVE  Listed(q \o s, D) /\ s \in Seq(T)
<1>0. /\ \A c \in E, e \in D \ E : c.key = e.key => c.id < e.id
      /\ \A c, e \in D \ E : c.key = e.key => c = e
  BY DEF Newer
<1>1. /\ IsFiniteSet(E) /\ IsFiniteSet(D \ E)
      /\ Cardinality(D) = Cardinality(E) + Cardinality(D \ E)
  <2>1. IsFiniteSet(E) /\ IsFiniteSet(D \ E) /\ E \cap (D \ E) = {} /\ E \cup (D \ E) = D
    BY FS_Subset
  <2>. QED  BY <2>1, DisjointUnion
<1>2. PICK i, j \in Nat : i = Len(q) /\ j = Cardinality(D \ E)
  BY <1>1, FS_CardinalityType
<1>3. s \in [1 .. j -> D \ E] /\ \A m, n \in 1 .. j : m # n => s[m] # s[n]
  BY <1>2 DEF SetToSeqs
<1>4. s \in Seq(T) /\ Len(s) = j
  <2>1. j \in Nat
    BY <1>1, <1>2, FS_CardinalityType
  <2>2. PICK B : B = D \ E /\ B \subseteq T
    OBVIOUS
  <2>3. s \in [1 .. j -> B]
    BY <1>3, <2>2
  <2>4. s \in Seq(B) /\ Len(s) = j
    BY <2>1, <2>3
  <2>. QED  BY <2>2, <2>4
<1>5. PICK u : u = q \o s
  OBVIOUS
<1>6. /\ Len(u) = i + j /\ \A n \in 1 .. i : u[n] = q[n]
      /\ \A n \in 1 .. j : u[i + n] = s[n]
  <2>1. i = Len(q) /\ j = Len(s)
    BY <1>2, <1>4, Zenon
  <2>2. s \in Seq(T)
    BY <1>4, Zenon
  <2>. QED  BY <1>5, <2>1, <2>2, ConcatAt
<1>7. /\ {q[n] : n \in 1 .. i} = E /\ i = Cardinality(E)
      /\ \A m, n \in 1 .. i : m < n /\ q[m].key = q[n].key => q[m].id < q[n].id
  BY <1>2 DEF Listed
<1>8. D \ E \subseteq {s[n] : n \in 1 .. j}
  <2>1. PICK R : R = {s[n] : n \in 1 .. j}
    OBVIOUS
  <2>2. R \subseteq D \ E /\ IsFiniteSet(R)
    BY <1>1, <1>3, <2>1, FS_Subset
  <2>3. ExistsBijection(1 .. j, R)
    <3>1. s \in Bijection(1 .. j, R)
      BY <1>3, <2>1 DEF Bijection, Injection, Surjection, IsInjective
    <3>. QED  BY <3>1 DEF ExistsBijection
  <2>4. Cardinality(R) = j
    <3>1. IsFiniteSet(1 .. j) /\ Cardinality(1 .. j) = j
      BY CountOfInterval
    <3>. QED  BY <2>3, <3>1, FS_Bijection
  <2>5. R = D \ E
    BY <1>1, <1>2, <2>2, <2>4, FS_Subset
  <2>. QED  BY <2>1, <2>5
<1>9. {u[n] : n \in 1 .. i + j} = D
  <2>1. ASSUME NEW n \in 1 .. i + j PROVE u[n] \in D
    <3>1. CASE n \in 1 .. i
      BY <1>6, <1>7, <3>1
    <3>2. CASE n \notin 1 .. i
      <4>1. PICK m \in 1 .. j : n = i + m
        BY <3>2
      <4>. QED  BY <1>3, <1>6, <4>1
    <3>. QED  BY <3>1, <3>2
  <2>2. ASSUME NEW c \in D PROVE \E n \in 1 .. i + j : u[n] = c
    <3>1. CASE c \in E
      <4>1. PICK n \in 1 .. i : q[n] = c
        BY <1>7, <3>1
      <4>2. n \in 1 .. i + j /\ u[n] = c
        BY <1>6, <4>1
      <4>. QED  BY <4>2
    <3>2. CASE c \notin E
      <4>1. PICK n \in 1 .. j : s[n] = c
        BY <1>8, <3>2
      <4>2. i + n \in 1 .. i + j /\ u[i + n] = c
        BY <1>6, <4>1
      <4>. QED  BY <4>2
    <3>. QED  BY <3>1, <3>2
  <2>. QED  BY <2>1, <2>2
<1>10. ASSUME NEW m \in 1 .. i + j, NEW n \in 1 .. i + j, m < n, u[m].key = u[n].key
       PROVE  u[m].id < u[n].id
  <2>1. CASE n \in 1 .. i
    <3>1. m \in 1 .. i
      BY <1>10, <2>1
    <3>. QED  BY <1>6, <1>7, <1>10, <2>1, <3>1
  <2>2. CASE n \notin 1 .. i
    <3>1. PICK y \in 1 .. j : n = i + y
      BY <2>2
    <3>2. u[n] = s[y] /\ s[y] \in D \ E
      BY <1>3, <1>6, <3>1
    <3>3. CASE m \in 1 .. i
      <4>1. u[m] \in E
        BY <1>6, <1>7, <3>3
      <4>. QED  BY <1>0, <1>10, <3>2, <4>1
    <3>4. CASE m \notin 1 .. i
      <4>1. PICK x \in 1 .. j : m = i + x
        BY <3>4
      <4>2. x # y /\ u[m] = s[x] /\ s[x] \in D \ E
        BY <1>3, <1>6, <1>10, <3>1, <4>1
      <4>3. s[x] = s[y]
        BY <1>0, <1>10, <3>2, <4>2
      <4>. QED  BY <1>3, <4>2, <4>3
    <3>. QED  BY <3>3, <3>4
  <2>. QED  BY <2>1, <2>2
<1>11. Listed(u, D)
  BY <1>1, <1>2, <1>6, <1>7, <1>9, <1>10 DEF Listed
<1>. QED
  BY <1>4, <1>5, <1>11

-----------------------------------------------------------------------------
(***************************************************************************)
(* The steps of the kernels                                                *)
(***************************************************************************)

\* A record of a key follows those of the key that were exported before.
LEMMA NewRecordsFollow ==
    ASSUME FlowInv, NEW p \in Packets, AddPacket(p)
    PROVE  /\ exported \subseteq exported'
           /\ \A c \in exported, e \in exported' \ exported : c.key = e.key => c.id < e.id
           /\ \A c, e \in exported' \ exported : c.key = e.key => c = e
<1>1. PICK table, closed, timed_out, acks : AddStep(p, table, closed, timed_out, acks)
  BY AddPacketStep DEF FlowInv, PacketInv
<1>2. PICK E, R : /\ exported' = exported \cup R /\ RecordsOf(table, E, R)
                  /\ E \subseteq DOMAIN table
  BY <1>1 DEF AddStep, Leave
<1>3. Joins(p, table)
  BY <1>1 DEF AddStep
<1>4. ASSUME NEW c \in exported, NEW e \in exported' \ exported, c.key = e.key
      PROVE  c.id < e.id
  <2>. DEFINE k == e.key
  <2>1. e \in R /\ k \in DOMAIN table /\ e.id = table[k].id
    BY <1>2, <1>4 DEF RecordsOf
  <2>2. PICK f \in AllFlows : f = FlowOf(c)
    BY <1>4, AllFlowsWith DEF FlowsWith
  <2>3. f.id = c.id /\ f.key = k /\ f.pkts = c.pkts
    BY <1>4, <2>2 DEF FlowOf
  <2>4. f.id \in 1 .. next_id - 1 /\ next_id \in Nat
    BY <2>2 DEF FlowInv, IdInv, PacketInv, TypeInv, TypeOK
  <2>5. CASE k \notin DOMAIN active_flows
    <3>1. table[k].id = next_id
      BY <1>3, <2>1, <2>5 DEF Joins
    <3>. QED  BY <2>1, <2>3, <2>4, <3>1
  <2>6. CASE k \in DOMAIN active_flows
    <3>1. table[k].id = active_flows[k].id
      BY <1>3, <2>1, <2>6 DEF Joins
    <3>2. PICK g \in AllFlows : g = Remains(active_flows, k)
      BY <2>6, AllFlowsWith DEF FlowsWith
    <3>3. g.id = active_flows[k].id /\ g.pkts = active_flows[k].pkts
      BY <3>2 DEF Remains
    <3>4. f.id <= g.id /\ f.id \in Nat /\ g.id \in Nat
      BY <2>3, <2>6, <3>3, FlowTypes DEF FlowInv, IdInv
    <3>5. f.id # g.id
      <4>1. f.id = g.id => f = g
        BY DEF FlowInv, IdInv, Related
      <4>2. f.pkts # {}
        BY DEF FlowInv, IdInv, OwnPackets
      <4>3. f.pkts \subseteq InExports
        BY <1>4, <2>3 DEF InExports
      <4>4. g.pkts \subseteq InTable
        BY <2>6, <3>3 DEF InTable, Held
      <4>5. InTable \cap InExports = {}
        BY DEF FlowInv, PacketInv, Conservation
      <4>. QED  BY <4>1, <4>2, <4>3, <4>4, <4>5
    <3>. QED  BY <2>1, <2>3, <3>1, <3>3, <3>4, <3>5
  <2>. QED  BY <2>5, <2>6
<1>5. ASSUME NEW c \in exported' \ exported, NEW e \in exported' \ exported, c.key = e.key
      PROVE  c = e
  <2>1. c \in R /\ e \in R
    BY <1>2, <1>5
  <2>. QED  BY <1>2, <1>5, <2>1 DEF RecordsOf
<1>. QED
  BY <1>2, <1>4, <1>5

LEMMA InitPipelineInv == CaptureInit => PipelineInv
<1>. SUFFICES ASSUME CaptureInit
              PROVE  PipelineInv
  OBVIOUS
<1>1. ReaderInv /\ ContentInv /\ TableInv
  BY InitContentInv DEF CaptureInit
<1>2. /\ log = <<>> /\ delivered = <<>> /\ exported = {} /\ w_total = 0 /\ disk = 0
      /\ w_status = "open" /\ source \in {"pcap", "tzsp", "live"} /\ src_over = FALSE
      /\ received = <<>> /\ held = <<>> /\ raw = <<>> /\ parsed = <<>> /\ packets = <<>>
      /\ pending = <<>> /\ clfrs = <<>> /\ written = <<>>
  BY DEF CaptureInit, ExporterInit, Init, ReaderInit, WriterInit
<1>3. ~src_over /\ src_over \in BOOLEAN
  BY <1>2, Zenon
<1>4. StreamTypes
  BY <1>2, <1>3 DEF StreamTypes
<1>5. SourceInv
  BY <1>2, <1>3 DEF SourceInv
<1>6. FileInv
  BY <1>2 DEF FileInv
<1>7. Arrived = <<>> /\ Arrived \o held = <<>> /\ raw \o held = <<>> /\ Records = <<>>
  BY <1>2 DEF Arrived, Records
<1>8. PassedInv
  <2>1. FileSoFar = <<>>
    <3>1. Len(delivered) = 0
      BY <1>2
    <3>. QED  BY <3>1 DEF FileSoFar
  <2>2. Follows(<<>>, <<>>, <<>>, Parses)
    BY DEF Follows
  <2>. QED  BY <1>2, <1>7, <2>1, <2>2 DEF PassedInv
<1>9. RecordsInv
  <2>1. Listed(<<>>, {})
    BY FS_EmptySet DEF Listed
  <2>. QED  BY <1>2, <1>7, <2>1 DEF RecordsInv
<1>. QED
  BY <1>1, <1>4, <1>5, <1>6, <1>8, <1>9 DEF PipelineInv, StreamInv

\* Every step of the kernels is one of the reader and one of the table.
LEMMA PipelineSteps ==
    ASSUME PipelineInv, [CapturePipelineNext]_capture_vars
    PROVE  [ReaderNext]_reader_vars /\ [CaptureNext]_vars /\ content' = content
<1>1. ReaderInv /\ ContentInv /\ packets \in Seq(Packets)
  BY DEF PipelineInv, StreamInv, StreamTypes
<1>2. UNCHANGED exporter_vars => UNCHANGED <<vars, reader_vars, content>>
  BY DEF exporter_vars
<1>3. ASSUME UNCHANGED <<vars, reader_vars, content>>
      PROVE  [ReaderNext]_reader_vars /\ [CaptureNext]_vars /\ content' = content
  BY <1>3
<1>4. CASE Build
  <2>1. CASE Construct
    <3>1. [ExporterNext]_exporter_vars
      BY <2>1, Zenon DEF ExporterNext
    <3>. QED  BY <1>1, <3>1, ExporterSteps
  <2>2. CASE SetCallback(TRUE) /\ UNCHANGED <<reader_vars, content>>
    BY <2>2, Zenon DEF CaptureNext
  <2>3. CASE UNCHANGED <<vars, reader_vars, content>>
    BY <1>3, <2>3
  <2>. QED  BY <1>4, <2>1, <2>2, <2>3 DEF Build
<1>5. CASE PcapRun
  <2>1. ReadNext /\ UNCHANGED <<vars, content>>
    BY <1>5, Zenon DEF PcapRun, SourceThrows
  <2>. QED  BY <2>1, Zenon DEF ReaderNext
<1>6. CASE FlowTableRun
  <2>1. PICK p \in Packets : AddPacket(p)
    <3>1. packets # <<>> /\ AddPacket(Head(packets))
      BY <1>6, Zenon DEF FlowTableRun
    <3>2. Head(packets) \in Packets
      BY <1>1, <3>1
    <3>. QED  BY <3>1, <3>2, Zenon
  <2>2. UNCHANGED <<reader_vars, content>>
    BY <1>6, Zenon DEF FlowTableRun
  <2>. QED  BY <2>1, <2>2, Zenon DEF CaptureNext
<1>7. CASE TzspReceive \/ LiveRead
  BY <1>2, <1>3, <1>7, Zenon DEF TzspReceive, LiveRead, Capture
<1>8. CASE TzspThrows \/ TzspShort \/ LiveFails
  BY <1>3, <1>8, Zenon DEF TzspThrows, TzspShort, LiveFails, LiveSourceFails, SourceThrows
<1>9. CASE PcapPush \/ PcapStop \/ RawPush \/ ParserRun \/ ParserPush \/ FlowTablePush
  BY <1>2, <1>3, <1>9, Zenon
     DEF PcapPush, PcapStop, RawPush, ParserRun, ParserPush, FlowTablePush
<1>10. CASE WriterRun \/ Destroy
  BY <1>3, <1>10, Zenon DEF WriterRun, Destroy
<1>11. CASE Waiting \/ Gone \/ UNCHANGED capture_vars
  <2>1. UNCHANGED capture_vars => UNCHANGED exporter_vars
    BY DEF capture_vars
  <2>. QED  BY <1>2, <1>3, <1>11, <2>1, Zenon DEF Waiting, Gone
<1>. QED
  BY <1>4, <1>5, <1>6, <1>7, <1>8, <1>9, <1>10, <1>11, Zenon DEF CapturePipelineNext, KernelStep

\* What a step leaves true that leaves alone what it speaks of.
LEMMA TypesStay ==
    ASSUME UNCHANGED <<source, content>>
    PROVE  /\ RawPackets' = RawPackets /\ Parses' = Parses /\ (FromFile' <=> FromFile)
<1>1. RawPackets' = RawPackets
  BY DEF RawPackets
<1>2. \A r : RawParsed(r)' = RawParsed(r)
  BY DEF RawParsed
<1>. QED
  BY <1>1, <1>2 DEF Parses, FromFile

LEMMA PassedStays ==
    ASSUME PassedInv, UNCHANGED <<source, content, received, held, raw, parsed, packets>>,
           UNCHANGED <<log, delivered>>
    PROVE  PassedInv'
<1>1. Arrived' = Arrived /\ FileSoFar' = FileSoFar
  BY DEF Arrived, FileSoFar, PacketOf
<1>. QED
  BY <1>1, TypesStay DEF PassedInv

LEMMA RecordsStay ==
    ASSUME RecordsInv, UNCHANGED <<pending, clfrs, written, exported, w_total>>
    PROVE  RecordsInv'
BY DEF RecordsInv, Records

LEMMA SourceStays ==
    ASSUME SourceInv, UNCHANGED <<source, src_over, held, raw, parsed>>, end => end'
    PROVE  SourceInv'
<1>1. src_over' => src_over
  BY Zenon
<1>. QED
  BY <1>1 DEF SourceInv, FromFile

LEMMA FileStays ==
    ASSUME FileInv, w_status = "open", UNCHANGED <<w_total, disk, w_status>>
    PROVE  FileInv'
BY DEF FileInv

\* Steps in which no stream, no source and no call of the table takes part.
LEMMA FileStepInv ==
    ASSUME StreamInv, UNCHANGED stream_vars, UNCHANGED <<content, log, delivered, exported>>,
           truncated' = truncated, end => end',
           \/ UNCHANGED <<writer_vars, callback>>
           \/ UNCHANGED writer_vars /\ w_status = "open"
           \/ Die /\ (FromFile => truncated \/ ~callback')
           \/ Close /\ StreamsOver
    PROVE  StreamInv'
<1>. USE DEF StreamInv
<1>1. UNCHANGED <<source, src_over, received, held, raw, parsed, packets, pending, clfrs, written>>
  BY DEF stream_vars, input_vars, record_vars
<1>2. StreamTypes' /\ (FromFile' <=> FromFile)
  BY <1>1, TypesStay DEF StreamTypes
<1>3. SourceInv'
  BY <1>1, SourceStays
<1>4. PassedInv'
  BY <1>1, PassedStays
<1>5. w_total' = w_total /\ FileInv'
  <2>1. StreamsOver' <=> StreamsOver
    BY <1>1 DEF StreamsOver
  <2>2. CASE UNCHANGED <<writer_vars, callback>>
    BY <1>2, <2>1, <2>2 DEF FileInv, writer_vars
  <2>3. CASE UNCHANGED writer_vars /\ w_status = "open"
    BY <2>3, FileStays DEF writer_vars
  <2>4. CASE Die /\ (FromFile => truncated \/ ~callback')
    BY <1>2, <2>4, WriterSteps DEF FileInv
  <2>5. CASE Close /\ StreamsOver
    BY <1>2, <2>1, <2>5, WriterSteps DEF FileInv
  <2>. QED  BY <2>2, <2>3, <2>4, <2>5
<1>6. RecordsInv'
  BY <1>1, <1>5, RecordsStay
<1>. QED
  BY <1>2, <1>3, <1>4, <1>5, <1>6

LEMMA BuildInv ==
    ASSUME PipelineInv, StreamInv, Build
    PROVE  StreamInv'
<1>1. UNCHANGED stream_vars /\ content' = content /\ w_status = "open" /\ ~callback
  BY DEF Build, Construct
<1>2. UNCHANGED <<log, exported>>
  BY DEF Build, Construct, SetCallback, vars
<1>3. CASE Construct
  <2>1. /\ truncated' = truncated /\ delivered' = delivered /\ ~end
    BY <1>3 DEF Construct, Open, PipelineInv, ReaderInv
  <2>2. UNCHANGED writer_vars \/ (Die /\ ~callback')
    BY <1>1, <1>3 DEF Construct, OpenFails, vars
  <2>. QED  BY <1>1, <1>2, <2>1, <2>2, FileStepInv
<1>4. CASE /\ ~FromFile
           /\ UNCHANGED writer_vars \/ Die
           /\ UNCHANGED <<reader_vars, content>>
  <2>1. truncated' = truncated /\ end' = end /\ delivered' = delivered
    BY <1>4 DEF reader_vars
  <2>2. end => end'
    BY <2>1, Zenon
  <2>. QED  BY <1>1, <1>2, <1>4, <2>1, <2>2, FileStepInv
<1>. QED
  BY <1>3, <1>4 DEF Build, OpenFails

LEMMA PcapRunInv ==
    ASSUME PipelineInv, StreamInv, PcapRun
    PROVE  StreamInv'
<1>1. /\ ReaderInv /\ ContentInv /\ ReadNext /\ ~end /\ truncated' = truncated
      /\ FromFile /\ content' = content /\ held = <<>> /\ w_status = "open"
  BY DEF PipelineInv, PcapRun, ReadNext, SourceThrows, Alive
<1>2. UNCHANGED vars /\ UNCHANGED <<log, exported, callback>>
  BY DEF PcapRun, SourceThrows, vars
<1>3. CASE /\ status' = "open"
           /\ held' = <<PacketOf(delivered'[Len(delivered')])>>
           /\ UNCHANGED <<vars, writer_vars, content, source, src_over, received, raw, parsed,
                          packets, record_vars>>
  <2>1. PICK f \in 1 .. Len(capture) : delivered'[Len(delivered')] = Filled(f)
    BY <1>1, <1>3, ReadNextInv
  <2>2. PacketOf(Filled(f)) = content[f] /\ content[f] \in Packets
    <3>1. Len(capture) \in Nat
      BY <1>1 DEF ReaderInv
    <3>. QED  BY <1>1, <3>1, FrameIsPacket DEF ContentInv
  <2>3. UNCHANGED <<source, content, src_over, received, raw, parsed, packets, log, exported,
                    pending, clfrs, written, w_total, disk, w_status>>
    BY <1>2, <1>3 DEF record_vars, writer_vars
  <2>4. held' = <<content[f]>> /\ held' \in Seq(Packets)
    BY <1>3, <2>1, <2>2
  <2>5. StreamTypes' /\ FromFile'
    <3>1. FromFile' /\ RawPackets' = RawPackets
      BY <1>1, <2>3, TypesStay
    <3>. QED  BY <2>3, <2>4, <3>1 DEF StreamInv, StreamTypes
  <2>6. SourceInv'
    <3>1. ~src_over'
      <4>1. ~src_over
        BY <1>1, Zenon DEF StreamInv, SourceInv
      <4>. QED  BY <2>3, <4>1, Zenon
    <3>2. raw' = <<>> /\ parsed' = <<>>
      BY <1>1, <2>3 DEF StreamInv, SourceInv
    <3>. QED  BY <3>1, <3>2, Zenon DEF SourceInv
  <2>7. PassedInv'
    <3>1. Arrived' = Arrived /\ Arrived \in Seq(Packets)
      <4>1. log \in Seq(Packets) /\ packets \in Seq(Packets) /\ parsed \in Seq(Packets)
        BY DEF PipelineInv, TableInv, FlowInv, PacketInv, TypeInv, TypeOK, StreamInv, StreamTypes
      <4>. QED  BY <2>3, <4>1 DEF Arrived
    <3>2. Arrived = FileSoFar
      <4>1. Arrived \o held = FileSoFar
        BY <1>1 DEF StreamInv, PassedInv
      <4>. QED  BY <1>1, <3>1, <4>1
    <3>3. FileSoFar' = Append(FileSoFar, content[f])
      <4>1. PICK m \in Nat : m = Len(delivered)
        BY <1>1 DEF ReaderInv
      <4>2. /\ Len(delivered') = m + 1 /\ delivered'[m + 1] = Filled(f)
            /\ \A n \in 1 .. m : delivered'[n] = delivered[n]
        <5>1. Len(delivered') = m + 1
          BY <1>1, <1>3, <4>1, ReadNextInv
        <5>2. PICK d : delivered' = Append(delivered, d)
          BY <1>1, <1>3 DEF ReadNext
        <5>. QED  BY <1>1, <2>1, <4>1, <5>1, <5>2 DEF ReaderInv
      <4>3. \A d : PacketOf(d)' = PacketOf(d)
        BY <2>3 DEF PacketOf
      <4>4. PICK a, b : a = FileSoFar /\ b = FileSoFar'
        OBVIOUS
      <4>5. a = [n \in 1 .. m |-> PacketOf(delivered[n])] /\ a \in Seq(Packets) /\ Len(a) = m
        BY <3>1, <3>2, <4>1, <4>4 DEF FileSoFar
      <4>6. b = [n \in 1 .. m + 1 |-> PacketOf(delivered'[n])]
        BY <4>2, <4>3, <4>4 DEF FileSoFar
      <4>7. b = [n \in 1 .. m + 1 |-> IF n = m + 1 THEN content[f] ELSE a[n]]
        BY <2>2, <4>2, <4>5, <4>6
      <4>8. b = Append(a, content[f])
        BY <4>5, <4>7
      <4>. QED  BY <4>4, <4>8
    <3>4. Arrived \o <<content[f]>> = Append(Arrived, content[f])
      BY <2>2, <3>1, AppendIsConcat
    <3>. QED  BY <2>4, <2>5, <3>1, <3>2, <3>3, <3>4 DEF PassedInv
  <2>8. RecordsInv' /\ FileInv'
    BY <1>1, <2>3, RecordsStay, FileStays DEF StreamInv
  <2>. QED  BY <2>5, <2>6, <2>7, <2>8 DEF StreamInv
<1>4. CASE status' = "threw" /\ SourceThrows
  <2>1. delivered' = delivered /\ truncated
    <3>1. ReaderInv' /\ delivered' = delivered
      BY <1>1, <1>4, ReadNextInv
    <3>2. truncated'
      BY <1>4, <3>1, Zenon DEF ReaderInv
    <3>. QED  BY <1>1, <3>1, <3>2, Zenon
  <2>2. Die /\ UNCHANGED stream_vars
    BY <1>4 DEF SourceThrows
  <2>. QED  BY <1>1, <1>2, <2>1, <2>2, FileStepInv
<1>. QED
  BY <1>3, <1>4, Zenon DEF PcapRun

\* Steps that leave the objects of the program as they are.
LEMMA SameFile ==
    ASSUME UNCHANGED exporter_vars
    PROVE  /\ UNCHANGED <<log, exported, delivered, w_total, disk, w_status, content>>
           /\ (end' <=> end) /\ (truncated' <=> truncated)
<1>1. /\ UNCHANGED <<log, exported, delivered, w_total, disk, w_status, content>>
      /\ end' = end /\ truncated' = truncated
  BY DEF exporter_vars, vars, reader_vars, writer_vars
<1>. QED
  BY <1>1, Zenon

LEMMA ArrivedTypes ==
    ASSUME PipelineInv
    PROVE  /\ log \in Seq(Packets) /\ packets \in Seq(Packets) /\ parsed \in Seq(Packets)
           /\ log \o packets \in Seq(Packets) /\ Arrived \in Seq(Packets)
<1>1. log \in Seq(Packets) /\ packets \in Seq(Packets) /\ parsed \in Seq(Packets)
  BY DEF PipelineInv, TableInv, FlowInv, PacketInv, TypeInv, TypeOK, StreamInv, StreamTypes
<1>. QED
  BY <1>1 DEF Arrived

LEMMA PcapPushInv ==
    ASSUME PipelineInv, StreamInv, PcapPush
    PROVE  StreamInv'
<1>1. /\ UNCHANGED exporter_vars
      /\ UNCHANGED <<source, src_over, received, raw, parsed, record_vars>>
      /\ w_status = "open" /\ FromFile /\ packets' = packets \o held /\ held' = <<>>
  BY DEF PcapPush, Alive
<1>2. /\ UNCHANGED <<log, exported, delivered, w_total, disk, w_status, content>>
      /\ UNCHANGED <<pending, clfrs, written>> /\ (end' <=> end)
  BY <1>1, SameFile DEF record_vars
<1>3. held \in Seq(Packets) /\ parsed = <<>>
  BY <1>1 DEF StreamInv, StreamTypes, SourceInv
<1>4. packets' \in Seq(Packets)
  BY <1>1, <1>3, ArrivedTypes
<1>5. StreamTypes' /\ FromFile'
  <2>1. FromFile' /\ RawPackets' = RawPackets
    BY <1>1, <1>2, TypesStay
  <2>2. held' \in Seq(Packets)
    BY <1>1
  <2>. QED  BY <1>1, <1>2, <1>4, <2>1, <2>2 DEF StreamInv, StreamTypes
<1>6. SourceInv'
  <2>1. src_over' => end'
    BY <1>1, <1>2, Zenon DEF StreamInv, SourceInv
  <2>. QED  BY <1>1, <1>5, <2>1 DEF StreamInv, SourceInv
<1>7. PassedInv'
  <2>1. Arrived' \o held' = log \o (packets \o held)
    <3>1. log \o (packets \o held) \in Seq(Packets)
      BY <1>3, ArrivedTypes
    <3>2. Arrived' = log \o (packets \o held)
      BY <1>1, <1>2, <1>3, <3>1 DEF Arrived
    <3>. QED  BY <1>1, <3>1, <3>2
  <2>2. Arrived \o held = log \o (packets \o held)
    <3>1. Arrived = log \o packets
      BY <1>3, ArrivedTypes DEF Arrived
    <3>. QED  BY <1>3, <3>1, ArrivedTypes, ConcatAssociative
  <2>3. FileSoFar' = FileSoFar
    BY <1>2 DEF FileSoFar, PacketOf
  <2>. QED  BY <1>1, <1>5, <2>1, <2>2, <2>3 DEF StreamInv, PassedInv
<1>. QED
  BY <1>1, <1>2, <1>5, <1>6, <1>7, RecordsStay, FileStays DEF StreamInv

LEMMA PcapStopInv ==
    ASSUME StreamInv, PcapStop
    PROVE  StreamInv'
<1>1. /\ UNCHANGED exporter_vars
      /\ UNCHANGED <<source, received, held, raw, parsed, packets, record_vars>>
      /\ w_status = "open" /\ FromFile /\ src_over' = TRUE /\ held = <<>>
  BY DEF PcapStop, Alive
<1>2. end
  BY DEF PcapStop
<1>3. /\ UNCHANGED <<log, exported, delivered, w_total, disk, w_status, content>>
      /\ UNCHANGED <<pending, clfrs, written>> /\ (end' <=> end)
  BY <1>1, SameFile DEF record_vars
<1>4. StreamTypes' /\ FromFile'
  <2>1. src_over' \in BOOLEAN
    BY <1>1, Zenon
  <2>2. FromFile' /\ RawPackets' = RawPackets
    BY <1>1, <1>3, TypesStay
  <2>. QED  BY <1>1, <1>3, <2>1, <2>2 DEF StreamInv, StreamTypes
<1>5. SourceInv'
  <2>1. end'
    BY <1>2, <1>3, Zenon
  <2>. QED  BY <1>1, <1>4, <2>1 DEF StreamInv, SourceInv
<1>. QED
  BY <1>1, <1>3, <1>4, <1>5, PassedStays, RecordsStay, FileStays DEF StreamInv

\* A live source, which never ends.
LEMMA LiveSource ==
    ASSUME StreamInv, ~FromFile, UNCHANGED <<source, src_over>>
    PROVE  SourceInv'
<1>1. ~src_over'
  BY Zenon DEF StreamInv, SourceInv
<1>2. ~FromFile'
  BY DEF FromFile
<1>. QED
  BY <1>1, <1>2 DEF SourceInv

\* A RawPacket more has been received.
LEMMA CaptureInv ==
    ASSUME PipelineInv, StreamInv, ~FromFile, NEW f \in DOMAIN content, NEW shifted \in BOOLEAN,
           Capture(f, shifted)
    PROVE  StreamInv'
<1>. DEFINE x == [frame |-> f, shifted |-> shifted]
<1>1. /\ UNCHANGED exporter_vars
      /\ UNCHANGED <<source, src_over, raw, parsed, packets, record_vars>>
      /\ w_status = "open" /\ held = <<>>
      /\ received' = Append(received, x) /\ held' = <<x>>
  BY DEF Capture, Alive
<1>2. /\ UNCHANGED <<log, exported, delivered, w_total, disk, w_status, content>>
      /\ UNCHANGED <<pending, clfrs, written>>
  BY <1>1, SameFile DEF record_vars
<1>3. x \in RawPackets /\ raw \in Seq(RawPackets) /\ received \in Seq(RawPackets)
  BY DEF StreamInv, StreamTypes, RawPackets
<1>. HIDE DEF x
<1>4. /\ RawPackets' = RawPackets /\ Parses' = Parses /\ ~FromFile'
  BY <1>1, <1>2, TypesStay
<1>5. held' \in Seq(RawPackets) /\ received' \in Seq(RawPackets)
  BY <1>1, <1>3
<1>6. StreamTypes'
  BY <1>1, <1>2, <1>4, <1>5 DEF StreamInv, StreamTypes
<1>7. PassedInv'
  <2>1. raw \o held = raw /\ raw \o held' = Append(raw, x)
    BY <1>1, <1>3, AppendIsConcat
  <2>2. Follows(Arrived, raw, received, Parses)
    BY <2>1 DEF StreamInv, PassedInv
  <2>3. Follows(Arrived, Append(raw, x), received', Parses)
    <3>1. Arrived \in Seq(Packets)
      BY ArrivedTypes
    <3>. QED  BY <1>1, <1>3, <2>2, <3>1, FollowsReceived
  <2>4. Arrived' = Arrived /\ raw' = raw
    BY <1>1, <1>2 DEF Arrived
  <2>. QED  BY <1>4, <2>1, <2>3, <2>4 DEF PassedInv
<1>. QED
  BY <1>1, <1>2, <1>6, <1>7, LiveSource, RecordsStay, FileStays DEF StreamInv

LEMMA RawPushInv ==
    ASSUME PipelineInv, StreamInv, RawPush
    PROVE  StreamInv'
<1>1. /\ UNCHANGED exporter_vars
      /\ UNCHANGED <<source, src_over, received, parsed, packets, record_vars>>
      /\ w_status = "open" /\ ~FromFile /\ raw' = raw \o held /\ held' = <<>>
  BY DEF RawPush, Alive
<1>2. /\ UNCHANGED <<log, exported, delivered, w_total, disk, w_status, content>>
      /\ UNCHANGED <<pending, clfrs, written>>
  BY <1>1, SameFile DEF record_vars
<1>3. /\ RawPackets' = RawPackets /\ Parses' = Parses /\ ~FromFile'
  BY <1>1, <1>2, TypesStay
<1>4. raw' \in Seq(RawPackets) /\ held' \in Seq(RawPackets) /\ raw' \o held' = raw \o held
  <2>1. held \in Seq(RawPackets) /\ raw \in Seq(RawPackets)
    BY <1>1 DEF StreamInv, StreamTypes
  <2>. QED  BY <1>1, <2>1
<1>5. StreamTypes'
  BY <1>1, <1>2, <1>3, <1>4 DEF StreamInv, StreamTypes
<1>6. PassedInv'
  <2>1. Arrived' = Arrived
    BY <1>1, <1>2 DEF Arrived
  <2>. QED  BY <1>1, <1>3, <1>4, <2>1 DEF StreamInv, PassedInv
<1>. QED
  BY <1>1, <1>2, <1>5, <1>6, LiveSource, RecordsStay, FileStays DEF StreamInv

LEMMA ParserRunInv ==
    ASSUME PipelineInv, StreamInv, ParserRun
    PROVE  StreamInv'
<1>1. /\ UNCHANGED exporter_vars
      /\ UNCHANGED <<source, src_over, received, held, packets, record_vars>>
      /\ w_status = "open" /\ raw # <<>> /\ raw' = Tail(raw) /\ parsed = <<>>
  BY DEF ParserRun, Alive
<1>2. PICK p \in RawParsed(Head(raw)) : parsed' = <<p>>
  BY Zenon DEF ParserRun
<1>3. /\ UNCHANGED <<log, exported, delivered, w_total, disk, w_status, content>>
      /\ UNCHANGED <<pending, clfrs, written>>
  BY <1>1, SameFile DEF record_vars
<1>4. ~FromFile
  BY <1>1 DEF StreamInv, SourceInv
<1>5. /\ RawPackets' = RawPackets /\ Parses' = Parses /\ ~FromFile'
  BY <1>1, <1>3, <1>4, TypesStay
<1>6. raw \in Seq(RawPackets) /\ held \in Seq(RawPackets) /\ received \in Seq(RawPackets)
  BY <1>4 DEF StreamInv, StreamTypes
<1>7. Head(raw) \in RawPackets /\ raw' \in Seq(RawPackets)
  BY <1>1, <1>6
<1>8. p \in Packets /\ parsed' \in Seq(Packets) /\ p \in Parses[Head(raw)]
  BY <1>2, <1>7 DEF RawParsed, Parses
<1>9. StreamTypes'
  BY <1>1, <1>3, <1>4, <1>5, <1>7, <1>8 DEF StreamInv, StreamTypes
<1>10. PassedInv'
  <2>1. PICK w : w = raw \o held
    OBVIOUS
  <2>2. /\ w \in Seq(RawPackets) /\ w # <<>> /\ Head(w) = Head(raw)
        /\ Tail(w) = raw' \o held'
    <3>1. /\ w \in Seq(RawPackets) /\ w # <<>> /\ Head(w) = Head(raw)
      BY <1>1, <1>6, <2>1
    <3>2. Tail(w) = Tail(raw) \o held
      BY <1>1, <1>6, <2>1
    <3>. QED  BY <1>1, <3>1, <3>2
  <2>3. Follows(Arrived, w, received, Parses)
    BY <1>4, <2>1 DEF StreamInv, PassedInv
  <2>4. Follows(Append(Arrived, p), Tail(w), received, Parses)
    <3>1. Arrived \in Seq(Packets)
      BY ArrivedTypes
    <3>. QED  BY <1>6, <1>8, <2>2, <2>3, <3>1, FollowsParsed
  <2>5. Arrived' = Append(Arrived, p)
    <3>1. Arrived = log \o packets /\ Arrived' = (log \o packets) \o <<p>>
      BY <1>1, <1>2, <1>3, ArrivedTypes DEF Arrived
    <3>. QED  BY <1>8, <3>1, ArrivedTypes, AppendIsConcat
  <2>. QED  BY <1>1, <1>5, <2>2, <2>4, <2>5 DEF PassedInv
<1>. QED
  BY <1>1, <1>3, <1>4, <1>9, <1>10, LiveSource, RecordsStay, FileStays DEF StreamInv

LEMMA ParserPushInv ==
    ASSUME PipelineInv, StreamInv, ParserPush
    PROVE  StreamInv'
<1>1. /\ UNCHANGED exporter_vars
      /\ UNCHANGED <<source, src_over, received, held, raw, record_vars>>
      /\ w_status = "open" /\ packets' = packets \o parsed /\ parsed' = <<>> /\ parsed # <<>>
  BY DEF ParserPush, Alive
<1>2. /\ UNCHANGED <<log, exported, delivered, w_total, disk, w_status, content>>
      /\ UNCHANGED <<pending, clfrs, written>>
  BY <1>1, SameFile DEF record_vars
<1>3. ~FromFile
  BY <1>1 DEF StreamInv, SourceInv
<1>4. /\ RawPackets' = RawPackets /\ Parses' = Parses /\ ~FromFile'
  BY <1>1, <1>2, <1>3, TypesStay
<1>5. packets' \in Seq(Packets) /\ parsed' \in Seq(Packets)
  BY <1>1, ArrivedTypes
<1>6. StreamTypes'
  BY <1>1, <1>2, <1>3, <1>4, <1>5 DEF StreamInv, StreamTypes
<1>7. PassedInv'
  <2>1. Arrived' = log \o (packets \o parsed)
    <3>1. log \o (packets \o parsed) \in Seq(Packets)
      BY ArrivedTypes
    <3>. QED  BY <1>1, <1>2, <3>1 DEF Arrived
  <2>2. Arrived = log \o (packets \o parsed)
    BY ArrivedTypes, ConcatAssociative DEF Arrived
  <2>. QED  BY <1>1, <1>3, <1>4, <2>1, <2>2 DEF StreamInv, PassedInv
<1>. QED
  BY <1>1, <1>2, <1>3, <1>6, <1>7, LiveSource, RecordsStay, FileStays DEF StreamInv

LEMMA FlowTableRunInv ==
    ASSUME PipelineInv, TableInv', StreamInv, FlowTableRun
    PROVE  StreamInv'
<1>1. /\ packets # <<>> /\ pending = <<>> /\ w_status = "open"
      /\ AddPacket(Head(packets)) /\ packets' = Tail(packets)
      /\ pending' \in NewRecords(Head(packets))
      /\ UNCHANGED <<reader_vars, writer_vars, content, input_vars, clfrs, written>>
  BY Zenon DEF FlowTableRun
<1>2. /\ UNCHANGED <<delivered, w_total, disk, w_status, content>>
      /\ UNCHANGED <<source, src_over, received, held, raw, parsed, clfrs, written>>
      /\ (end' <=> end) /\ (truncated' <=> truncated)
  <2>1. /\ UNCHANGED <<delivered, w_total, disk, w_status, content>>
        /\ UNCHANGED <<source, src_over, received, held, raw, parsed, clfrs, written>>
        /\ end' = end /\ truncated' = truncated
    BY <1>1 DEF reader_vars, writer_vars, input_vars
  <2>. QED  BY <2>1, Zenon
<1>3. packets' \in Seq(Packets) /\ Head(packets) \in Packets
  BY <1>1, ArrivedTypes
<1>4. PICK p \in Packets : p = Head(packets) /\ AddPacket(p)
  BY <1>1, <1>3
<1>5. log' = Append(log, p)
  BY <1>4, Zenon DEF AddPacket
<1>6. /\ RawPackets' = RawPackets /\ Parses' = Parses /\ (FromFile' <=> FromFile)
  BY <1>2, TypesStay
<1>7. pending' \in Seq(CLFR) /\ Listed(Records', exported')
  <2>1. /\ exported \subseteq exported'
        /\ \A c \in exported, e \in exported' \ exported : c.key = e.key => c.id < e.id
        /\ \A c, e \in exported' \ exported : c.key = e.key => c = e
    BY <1>4, NewRecordsFollow DEF PipelineInv, TableInv
  <2>2. IsFiniteSet(exported') /\ exported' \subseteq CLFR
    BY DEF TableInv, FlowInv, IdInv, PacketInv, TypeInv, TypeOK
  <2>3. pending' \in SetToSeqs(exported' \ exported)
    BY <1>1 DEF NewRecords
  <2>4. PICK q : q = written \o clfrs
    BY Zenon
  <2>5. q \in Seq(CLFR) /\ Records = q /\ Records' = q \o pending'
    <3>1. q \in Seq(CLFR)
      BY <2>4 DEF StreamInv, StreamTypes
    <3>. QED  BY <1>1, <1>2, <2>4, <3>1 DEF Records
  <2>6. Listed(q, exported)
    BY <2>5 DEF StreamInv, RecordsInv
  <2>7. PICK E, D, s : E = exported /\ D = exported' /\ s = pending'
    OBVIOUS
  <2>8. Listed(q \o s, D) /\ s \in Seq(CLFR)
    <3>1. E \subseteq D /\ IsFiniteSet(D) /\ D \subseteq CLFR /\ s \in SetToSeqs(D \ E)
      BY <2>1, <2>2, <2>3, <2>7, Zenon
    <3>2. q \in Seq(CLFR) /\ Listed(q, E)
      BY <2>5, <2>6, <2>7, Zenon
    <3>3. Newer(E, D)
      BY <2>1, <2>7, Zenon DEF Newer
    <3>. QED  BY <3>1, <3>2, <3>3, ListedMore, Zenon
  <2>. QED  BY <2>5, <2>7, <2>8
<1>8. StreamTypes'
  BY <1>2, <1>3, <1>6, <1>7 DEF StreamInv, StreamTypes
<1>9. SourceInv'
  BY <1>2, SourceStays DEF StreamInv
<1>10. PassedInv'
  <2>1. Append(log, p) \o packets' = log \o packets
    <3>1. PICK a, b : a = log /\ b = packets /\ a \in Seq(Packets) /\ b \in Seq(Packets)
      BY ArrivedTypes
    <3>2. Append(a, Head(b)) \o Tail(b) = a \o b
      BY <1>1, <3>1, HeadMoves
    <3>. QED  BY <1>1, <1>4, <3>1, <3>2, Zenon
  <2>2. Arrived' = Arrived
    BY <1>2, <1>5, <2>1 DEF Arrived
  <2>3. FileSoFar' = FileSoFar
    BY <1>2 DEF FileSoFar, PacketOf
  <2>. QED  BY <1>2, <1>6, <2>2, <2>3 DEF StreamInv, PassedInv
<1>11. FileInv'
  BY <1>1, <1>2, FileStays DEF StreamInv
<1>12. RecordsInv'
  BY <1>2, <1>7 DEF StreamInv, RecordsInv
<1>. QED
  BY <1>8, <1>9, <1>10, <1>11, <1>12 DEF StreamInv

LEMMA FlowTablePushInv ==
    ASSUME StreamInv, FlowTablePush
    PROVE  StreamInv'
<1>1. /\ UNCHANGED exporter_vars /\ UNCHANGED <<input_vars, packets, written>>
      /\ w_status = "open" /\ pending # <<>>
      /\ pending' = Tail(pending) /\ clfrs' = Append(clfrs, Head(pending))
  BY DEF FlowTablePush, Alive
<1>2. /\ UNCHANGED <<log, exported, delivered, w_total, disk, w_status, content>>
      /\ UNCHANGED <<source, src_over, received, held, raw, parsed, packets, written>>
      /\ (end' <=> end)
  BY <1>1, SameFile DEF input_vars
<1>3. pending \in Seq(CLFR) /\ clfrs \in Seq(CLFR) /\ written \in Seq(CLFR)
  BY DEF StreamInv, StreamTypes
<1>4. PICK h : h = Head(pending)
  OBVIOUS
<1>5. /\ h \in CLFR /\ pending' \in Seq(CLFR) /\ clfrs' \in Seq(CLFR)
      /\ clfrs' = Append(clfrs, h) /\ written \o clfrs \in Seq(CLFR)
  BY <1>1, <1>3, <1>4
<1>6. StreamTypes'
  BY <1>2, <1>5, TypesStay DEF StreamInv, StreamTypes
<1>7. Records' = Records
  <2>1. written \o Append(clfrs, h) = Append(written \o clfrs, h)
    BY <1>3, <1>5, AppendLater
  <2>2. Append(written \o clfrs, h) \o pending' = (written \o clfrs) \o pending
    <3>1. PICK a, b : a = written \o clfrs /\ b = pending /\ a \in Seq(CLFR) /\ b \in Seq(CLFR)
      BY <1>3, <1>5
    <3>2. Append(a, Head(b)) \o Tail(b) = a \o b
      BY <1>1, <3>1, HeadMoves
    <3>. QED  BY <1>1, <1>4, <3>1, <3>2, Zenon
  <2>. QED  BY <1>2, <1>5, <2>1, <2>2 DEF Records
<1>8. RecordsInv'
  BY <1>2, <1>7 DEF StreamInv, RecordsInv
<1>. QED
  BY <1>1, <1>2, <1>6, <1>8, SourceStays, PassedStays, FileStays DEF StreamInv

LEMMA WriterRunInv ==
    ASSUME PipelineInv, StreamInv, WriterRun
    PROVE  StreamInv'
<1>1. /\ WriteClfrs(1) /\ clfrs # <<>>
      /\ clfrs' = Tail(clfrs) /\ written' = Append(written, Head(clfrs))
      /\ UNCHANGED <<vars, reader_vars, content, input_vars, packets, pending>>
  BY DEF WriterRun
<1>2. /\ UNCHANGED <<log, exported, delivered, content>>
      /\ UNCHANGED <<source, src_over, received, held, raw, parsed, packets, pending>>
      /\ (end' <=> end)
  <2>1. /\ UNCHANGED <<log, exported, delivered, content>>
        /\ UNCHANGED <<source, src_over, received, held, raw, parsed, packets, pending>>
        /\ end' = end
    BY <1>1 DEF vars, reader_vars, input_vars
  <2>. QED  BY <2>1, Zenon
<1>3. pending \in Seq(CLFR) /\ clfrs \in Seq(CLFR) /\ written \in Seq(CLFR)
  BY DEF StreamInv, StreamTypes
<1>4. /\ clfrs' \in Seq(CLFR) /\ written' \in Seq(CLFR) /\ Len(written') = Len(written) + 1
      /\ written' \o clfrs' = written \o clfrs
  BY <1>1, <1>3, HeadMoves
<1>5. StreamTypes'
  BY <1>2, <1>4, TypesStay DEF StreamInv, StreamTypes
<1>6. /\ w_total' = w_total + 1 /\ disk' \in Nat /\ disk' <= 2 * w_total'
      /\ w_status = "open" /\ w_status' = "open" /\ w_total \in Nat
  BY <1>1, WriterSteps DEF StreamInv, FileInv
<1>7. FileInv'
  BY <1>6 DEF FileInv
<1>8. RecordsInv'
  <2>1. Records' = Records
    BY <1>2, <1>4 DEF Records
  <2>. QED  BY <1>2, <1>4, <1>6, <2>1 DEF StreamInv, RecordsInv
<1>. QED
  BY <1>2, <1>5, <1>7, <1>8, SourceStays, PassedStays DEF StreamInv

LEMMA NextStreamInv ==
    ASSUME PipelineInv, TableInv', [CapturePipelineNext]_capture_vars
    PROVE  StreamInv'
<1>1. StreamInv
  BY DEF PipelineInv
<1>2. CASE Build
  BY <1>1, <1>2, BuildInv
<1>3. CASE PcapRun
  BY <1>1, <1>3, PcapRunInv
<1>4. CASE PcapStop
  BY <1>1, <1>4, PcapStopInv
<1>5. CASE ParserRun
  BY <1>1, <1>5, ParserRunInv
<1>6. CASE FlowTableRun
  BY <1>1, <1>6, FlowTableRunInv
<1>7. CASE FlowTablePush
  BY <1>1, <1>7, FlowTablePushInv
<1>8. CASE WriterRun
  BY <1>1, <1>8, WriterRunInv
<1>9. CASE TzspReceive \/ LiveRead
  <2>1. ~FromFile
    BY <1>9 DEF TzspReceive, LiveRead, FromFile
  <2>2. PICK f \in DOMAIN content, shifted \in BOOLEAN : Capture(f, shifted)
    BY <1>9, Zenon DEF TzspReceive, LiveRead, Shifted
  <2>. QED  BY <1>1, <2>1, <2>2, CaptureInv
<1>10. ASSUME UNCHANGED <<vars, reader_vars, content, stream_vars>>,
              \/ UNCHANGED writer_vars
              \/ Die /\ ~FromFile
              \/ Close /\ StreamsOver
       PROVE  StreamInv'
  <2>1. /\ UNCHANGED <<log, exported, delivered, callback>> /\ UNCHANGED stream_vars
        /\ content' = content /\ truncated' = truncated /\ end' = end
    BY <1>10 DEF vars, reader_vars
  <2>2. end => end'
    BY <2>1, Zenon
  <2>. QED  BY <1>1, <1>10, <2>1, <2>2, FileStepInv
<1>11. CASE TzspThrows \/ TzspShort \/ LiveFails
  <2>1. ~FromFile
    BY <1>11 DEF TzspThrows, TzspShort, LiveFails, FromFile
  <2>. QED
    BY <1>10, <1>11, <2>1, Zenon DEF TzspThrows, TzspShort, LiveFails, LiveSourceFails, SourceThrows
<1>12. CASE Destroy
  BY <1>10, <1>12, Zenon DEF Destroy
<1>13. CASE Waiting \/ Gone \/ UNCHANGED capture_vars
  <2>1. UNCHANGED capture_vars
    BY <1>13, Zenon DEF Waiting, Gone
  <2>2. UNCHANGED <<vars, reader_vars, content, stream_vars>> /\ UNCHANGED writer_vars
    BY <2>1 DEF capture_vars, exporter_vars
  <2>. QED  BY <1>10, <2>2
<1>14. CASE PcapPush
  BY <1>1, <1>14, PcapPushInv
<1>15. CASE RawPush
  BY <1>1, <1>15, RawPushInv
<1>16. CASE ParserPush
  BY <1>1, <1>16, ParserPushInv
<1>. QED
  BY <1>2, <1>3, <1>4, <1>5, <1>6, <1>7, <1>8, <1>9, <1>11, <1>12, <1>13, <1>14, <1>15, <1>16,
     Zenon DEF CapturePipelineNext, KernelStep

LEMMA NextPipelineInv == PipelineInv /\ [CapturePipelineNext]_capture_vars => PipelineInv'
<1>. SUFFICES ASSUME PipelineInv, [CapturePipelineNext]_capture_vars
              PROVE  PipelineInv'
  OBVIOUS
<1>1. /\ [ReaderNext]_reader_vars /\ [CaptureNext]_vars /\ content' = content
      /\ ReaderInv /\ ContentInv /\ TableInv
  BY PipelineSteps DEF PipelineInv
<1>2. ReaderInv' /\ TableInv'
  BY <1>1, NextReaderInv, NextTableInv
<1>3. capture' = capture
  BY <1>1, Zenon DEF ReaderNext, Open, ReadNext, Over, reader_vars
<1>4. ContentInv'
  BY <1>1, <1>3 DEF ContentInv
<1>5. StreamInv'
  BY <1>2, NextStreamInv
<1>. QED
  BY <1>2, <1>4, <1>5 DEF PipelineInv

LEMMA InvGivesStreams == PipelineInv => StreamAccounts
<1>. SUFFICES ASSUME PipelineInv
              PROVE  StreamAccounts
  OBVIOUS
<1>1. StreamTypes /\ PassedInv /\ RecordsInv /\ ReaderInv
  BY DEF PipelineInv, StreamInv
<1>2. FromFile => Arrived \o held = [n \in DOMAIN delivered |-> PacketOf(delivered[n])]
  <2>1. DOMAIN delivered = 1 .. Len(delivered)
    BY <1>1 DEF ReaderInv
  <2>. QED  BY <1>1, <2>1 DEF PassedInv, FileSoFar
<1>3. ASSUME ~FromFile
      PROVE  /\ Len(Arrived) <= Len(received)
             /\ raw \o held = SubSeq(received, Len(Arrived) + 1, Len(received))
             /\ \A n \in DOMAIN Arrived : Arrived[n] \in RawParsed(received[n])
  <2>1. /\ raw \in Seq(RawPackets) /\ held \in Seq(RawPackets) /\ received \in Seq(RawPackets)
        /\ Arrived \in Seq(Packets)
    BY <1>1, <1>3, ArrivedTypes DEF StreamTypes
  <2>2. PICK w, i, j : /\ w = raw \o held /\ w \in Seq(RawPackets)
                       /\ i = Len(Arrived) /\ i \in Nat /\ j = Len(w) /\ j \in Nat
    <3>1. PICK w : w = raw \o held /\ w \in Seq(RawPackets)
      BY <2>1, ConcatProperties
    <3>2. Len(w) \in Nat /\ Len(Arrived) \in Nat
      BY <2>1, <3>1, LenProperties
    <3>. QED  BY <3>1, <3>2, Zenon
  <2>3. Follows(Arrived, w, received, Parses)
    BY <1>1, <1>3, <2>2 DEF PassedInv
  <2>4. /\ Len(received) = i + j
        /\ \A n \in 1 .. j : w[n] = received[i + n]
        /\ \A n \in 1 .. i : Arrived[n] \in Parses[received[n]]
    BY <2>2, <2>3 DEF Follows
  <2>5. w = SubSeq(received, i + 1, i + j)
    <3>1. PICK u : u = SubSeq(received, i + 1, i + j)
      OBVIOUS
    <3>2. u \in Seq(RawPackets) /\ Len(u) = j /\ \A n \in 1 .. j : u[n] = received[i + n]
      BY <2>1, <2>2, <2>4, <3>1
    <3>3. \A n \in 1 .. j : u[n] = w[n]
      BY <2>4, <3>2
    <3>4. u = w
      BY <2>2, <3>2, <3>3
    <3>. QED  BY <3>1, <3>4
  <2>6. ASSUME NEW n \in 1 .. i
        PROVE  Arrived[n] \in RawParsed(received[n])
    <3>1. received[n] \in RawPackets
      BY <2>1, <2>2, <2>4
    <3>. QED  BY <2>4, <3>1 DEF Parses
  <2>7. DOMAIN Arrived = 1 .. i
    BY <2>1, <2>2
  <2>. QED  BY <2>2, <2>4, <2>5, <2>6, <2>7
<1>4. /\ ToSet(Records) = exported
      /\ Len(Records) = Cardinality(exported) /\ Len(Records) = n_flows_processed
      /\ \A m, n \in DOMAIN Records :
            m < n /\ Records[m].key = Records[n].key => Records[m].id < Records[n].id
  <2>1. Records \in Seq(CLFR)
    BY <1>1 DEF StreamTypes, Records
  <2>2. DOMAIN Records = 1 .. Len(Records)
    BY <2>1
  <2>3. n_flows_processed = Cardinality(exported)
    BY DEF PipelineInv, TableInv, FlowInv, IdInv
  <2>. QED  BY <1>1, <2>2, <2>3 DEF RecordsInv, Listed, ToSet
<1>5. InTable \cup InExports \cup InDeleted = DOMAIN log
  <2>1. InTable \cup InExports \cup InDeleted = 1 .. Len(log) /\ log \in Seq(Packets)
    BY DEF PipelineInv, TableInv, FlowInv, PacketInv, Conservation, TypeInv, TypeOK
  <2>2. DOMAIN log = 1 .. Len(log)
    BY <2>1
  <2>. QED  BY <2>1, <2>2, Zenon
<1>6. w_total = Len(written)
  BY <1>1 DEF RecordsInv
<1>. QED
  BY <1>2, <1>3, <1>4, <1>5, <1>6, Zenon DEF StreamAccounts

LEMMA InvGivesEnd == PipelineInv => EndOfStream
<1>. SUFFICES ASSUME PipelineInv
              PROVE  EndOfStream
  OBVIOUS
<1>1. StreamTypes /\ SourceInv /\ FileInv /\ PassedInv /\ RecordsInv /\ ReaderInv
  BY DEF PipelineInv, StreamInv
<1>2. ASSUME w_status = "closed"
      PROVE  /\ FromFile /\ end /\ ~truncated
             /\ w_total = Cardinality(exported)
             /\ Len(log) = Len(capture)
  <2>1. /\ src_over /\ raw = <<>> /\ parsed = <<>> /\ packets = <<>>
        /\ pending = <<>> /\ clfrs = <<>>
    BY <1>1, <1>2 DEF FileInv, StreamsOver
  <2>2. FromFile /\ end /\ held = <<>> /\ ~truncated /\ Len(delivered) = Len(capture)
    BY <1>1, <2>1 DEF SourceInv, ReaderInv
  <2>3. w_total = Cardinality(exported)
    <3>1. Records = written
      BY <1>1, <2>1 DEF Records, StreamTypes
    <3>. QED  BY <1>1, <3>1 DEF RecordsInv, Listed
  <2>4. Len(log) = Len(delivered)
    <3>1. log = FileSoFar
      <4>1. Arrived \o held = log
        BY <2>1, <2>2, ArrivedTypes DEF Arrived
      <4>. QED  BY <1>1, <2>2, <4>1 DEF PassedInv
    <3>2. PICK m \in Nat : m = Len(delivered)
      BY <1>1 DEF ReaderInv
    <3>3. DOMAIN log = 1 .. m
      BY <3>1, <3>2 DEF FileSoFar
    <3>. QED  BY <3>2, <3>3, ArrivedTypes
  <2>. QED  BY <2>2, <2>3, <2>4
<1>3. ASSUME w_status = "dead"
      PROVE  ~Terminated /\ (FromFile => truncated \/ ~callback)
  BY <1>1, <1>3 DEF FileInv, Terminated
<1>. QED
  BY <1>2, <1>3 DEF EndOfStream

\* Between the threads nothing is lost, doubled or put out of order, for all
\* sources and streams of all sizes.  The packets of the table's log and those on
\* their way to it are what the reader has made of the file, one by one and in
\* its order; of a live source, each is what the parser may make of the datagram
\* that was received at its place in the order of reception, however often a
\* datagram came.  The records in the file, in the stream and about to be pushed
\* are those that the table has exported, each once, and those of one key in the
\* order of their ids.
THEOREM StreamsAccounted == CapturePipelineSpec => []StreamAccounts
BY InitPipelineInv, NextPipelineInv, InvGivesStreams, PTL DEF CapturePipelineSpec

\* The file is closed only after a capture that was read to its end, once all
\* streams are empty, and a program that died left it without its end.
THEOREM StreamsEndWhole == CapturePipelineSpec => []EndOfStream
BY InitPipelineInv, NextPipelineInv, InvGivesEnd, PTL DEF CapturePipelineSpec
=============================================================================
