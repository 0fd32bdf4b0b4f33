-------------------------- MODULE CapturePipeline --------------------------
(***************************************************************************)
(* The capturing kernels, connected as their ports allow,                  *)
(*                                                                         *)
(*     PCAPFileReader >> FlowTable >> CLFRFileWriter                       *)
(*     TZSPReceiver >> Map(RawPacketParser) >> FlowTable >> CLFRFileWriter *)
(*     LiveCapture  >> Map(RawPacketParser) >> FlowTable >> CLFRFileWriter *)
(*                                                                         *)
(* each kernel in a thread of its own.  The first does what the exporter   *)
(* program does in one thread; its parts are those of FlowFileExporter.    *)
(*                                                                         *)
(* RaftLib is external: bounded streams, a push waits for room, a kernel   *)
(* is over when it has returned stop or its input has ended; the program   *)
(* dies of an exception that leaves run().  So is the network: datagrams   *)
(* to the TZSP port may be lost, duplicated and reordered.                 *)
(*                                                                         *)
(* With a batch size the first kernel's port is of another type, vectors   *)
(* of packets, which no kernel but the printers takes.                     *)
(***************************************************************************)
EXTENDS FlowFileExporter, SequencesExt

CONSTANTS
    StreamSize,   \* slots of a stream
    MaxCopies     \* bound: deliveries of a datagram

ASSUME StreamAssumption == StreamSize \in Nat \ {0} /\ MaxCopies \in Nat \ {0}

VARIABLES
    source,       \* "pcap", "tzsp", "live"
    src_over,     \* the source kernel has returned stop
    received,     \* history: the RawPackets that a live source was given
    held,         \* what the source has yet to push: a packet, a RawPacket or nothing
    raw,          \* the stream of RawPackets: [frame, shifted], shifted if the
                  \* bytes do not begin where the frame does
    parsed,       \* the packet that the Map kernel has yet to push, or nothing
    packets,      \* the stream of keys and packets into the FlowTable kernel
    pending,      \* records that the running add_packet has yet to push
    clfrs,        \* the stream of records to the writer
    written       \* history: the records that the writer took

input_vars == <<source, src_over, received, held, raw, parsed>>
record_vars == <<pending, clfrs, written>>
stream_vars == <<input_vars, packets, record_vars>>
capture_vars == <<exporter_vars, stream_vars>>

FromFile == source = "pcap"
Alive == callback /\ w_status = "open"

CaptureInit ==
    /\ ExporterInit
    /\ source \in {"pcap", "tzsp", "live"}
    /\ ~FromFile => ~truncated
    /\ src_over = FALSE
    /\ received = <<>> /\ held = <<>> /\ raw = <<>> /\ parsed = <<>> /\ packets = <<>>
    /\ pending = <<>> /\ clfrs = <<>> /\ written = <<>>

\* The kernels are constructed, or a constructor throws.
Build ==
    /\ ~callback /\ w_status = "open"
    /\ \/ FromFile /\ Construct
       \/ /\ ~FromFile
          /\ \/ SetCallback(TRUE) /\ UNCHANGED writer_vars
             \/ OpenFails /\ UNCHANGED vars
          /\ UNCHANGED <<reader_vars, content>>
    /\ UNCHANGED stream_vars

\* An exception leaves the run() of the source kernel.
SourceThrows ==
    /\ Die
    /\ UNCHANGED <<vars, content, stream_vars>>

\* run() of the PCAPFileReader kernel, up to its push.
PcapRun ==
    /\ Alive /\ FromFile /\ held = <<>>
    /\ ReadNext
    /\ \/ /\ status' = "open"
          /\ held' = <<PacketOf(delivered'[Len(delivered')])>>
          /\ UNCHANGED <<vars, writer_vars, content, source, src_over, received, raw, parsed,
                         packets, record_vars>>
       \/ status' = "threw" /\ SourceThrows

\* The push waits for room, as all do.
PcapPush ==
    /\ Alive /\ FromFile /\ held # <<>> /\ Len(packets) < StreamSize
    /\ packets' = packets \o held
    /\ held' = <<>>
    /\ UNCHANGED <<exporter_vars, source, src_over, received, raw, parsed, record_vars>>

\* Fault: run() returns proceed at the end of the file.
PcapStopProceeds ==
    /\ Alive /\ FromFile /\ held = <<>> /\ end
    /\ UNCHANGED capture_vars

PcapStop ==
    /\ Alive /\ FromFile /\ held = <<>> /\ end /\ ~src_over
    /\ src_over' = TRUE
    /\ UNCHANGED <<exporter_vars, source, received, held, raw, parsed, packets, record_vars>>

\* How often a live source was given frame f.
Copies(f) == Cardinality({n \in DOMAIN received : received[n].frame = f})

\* Fault: a source takes a frame that it has seen for a copy.
CaptureOnce(f, shifted) ==
    /\ Alive /\ held = <<>>
    /\ received' = Append(received, [frame |-> f, shifted |-> shifted])
    /\ held' = IF Copies(f) = 0 THEN <<[frame |-> f, shifted |-> shifted]>> ELSE <<>>
    /\ UNCHANGED <<exporter_vars, source, src_over, raw, parsed, packets, record_vars>>

\* A live source is given frame f, of which it makes a RawPacket for its callback.
Capture(f, shifted) ==
    /\ Alive /\ held = <<>>
    /\ received' = Append(received, [frame |-> f, shifted |-> shifted])
    /\ held' = <<[frame |-> f, shifted |-> shifted]>>
    /\ UNCHANGED <<exporter_vars, source, src_over, raw, parsed, packets, record_vars>>

\* The push of the callback.
RawPush ==
    /\ Alive /\ ~FromFile /\ held # <<>> /\ Len(raw) < StreamSize
    /\ raw' = raw \o held
    /\ held' = <<>>
    /\ UNCHANGED <<exporter_vars, source, src_over, received, parsed, packets, record_vars>>

\* The walk over the tags looks at the start of the datagram in every round and
\* takes its version, 1, for the end of the tags: what follows the first byte of
\* the tags is handed on, which is the frame only if the datagram has no other
\* tag than the end.
Shifted(tagged) == tagged

\* The loop of the TZSPReceiver receives the datagram with frame f, tagged if it
\* has tags before the one that ends them.  One of another version or type it
\* drops, which changes nothing.
TzspReceive ==
    /\ source = "tzsp"
    /\ \E f \in DOMAIN content, tagged \in BOOLEAN :
          /\ Capture(f, Shifted(tagged))
          /\ Copies(f) < MaxCopies /\ Len(received) < MaxPackets

\* An exception, or a fault, ends the process while a live source is in its loop.
LiveSourceFails == Alive /\ held = <<>> /\ SourceThrows /\ UNCHANGED reader_vars

\* operator() throws: port or callback is not set, or the bind fails, at first or
\* after an empty datagram, which ends the loop, since recvfrom returns 0; run()
\* is called again, and binds the same socket a second time.
TzspThrows == source = "tzsp" /\ LiveSourceFails

\* A datagram of one to three bytes is shorter than the header: the unsigned length
\* of what is left wraps, and the RawPacket cannot have some 2^32 bytes, or cannot
\* copy them from behind a buffer of 1800.
TzspShort == source = "tzsp" /\ LiveSourceFails

\* The loop of LiveCapture: frames in order; libpcap may drop some.
LiveRead ==
    /\ source = "live"
    /\ \E f \in DOMAIN content :
          Capture(f, FALSE) /\ \A g \in f .. Len(content) : Copies(g) = 0

\* operator() throws: device or callback is not set, the device does not open,
\* or a read fails.
LiveFails == source = "live" /\ LiveSourceFails

\* RawPacketParser: the time stamp of a packet is whatever its memory held.  Of
\* shifted bytes, the two in the place of the ether type are taken not to say IP:
\* then the parser leaves the key and the packet as they were made.
RawParsed(r) ==
    {p \in Packets : /\ p.key = IF r.shifted THEN ZeroKey ELSE content[r.frame].key
                     /\ p.flags = IF r.shifted THEN {} ELSE content[r.frame].flags}

\* run() of the Map kernel.
ParserRun ==
    /\ Alive /\ parsed = <<>> /\ raw # <<>>
    /\ raw' = Tail(raw)
    /\ \E p \in RawParsed(Head(raw)) : parsed' = <<p>>
    /\ UNCHANGED <<exporter_vars, source, src_over, received, held, packets, record_vars>>

ParserPush ==
    /\ Alive /\ parsed # <<>> /\ Len(packets) < StreamSize
    /\ packets' = packets \o parsed
    /\ parsed' = <<>>
    /\ UNCHANGED <<exporter_vars, source, src_over, received, held, raw, record_vars>>

\* Fault: only one record of a call is pushed.
NewRecordsOne(p) ==
    IF exported' = exported THEN {<<>>} ELSE {<<c>> : c \in exported' \ exported}

\* The records that add_packet(p) hands to the callback: that of the flow which p
\* closes comes first, the others in the order of the map.
NewRecords(p) ==
    {q \in SetToSeqs(exported' \ exported) :
        \A n \in DOMAIN q : q[n].key \in CheckEvict(p) => n = 1}

\* run() of the FlowTable kernel: one packet, and a push per evicted flow.
FlowTableRun ==
    /\ w_status = "open" /\ packets # <<>> /\ pending = <<>>
    /\ AddPacket(Head(packets))
    /\ packets' = Tail(packets)
    /\ pending' \in NewRecords(Head(packets))
    /\ UNCHANGED <<reader_vars, writer_vars, content, input_vars, clfrs, written>>

FlowTablePush ==
    /\ Alive /\ pending # <<>> /\ Len(clfrs) < StreamSize
    /\ pending' = Tail(pending) /\ clfrs' = Append(clfrs, Head(pending))
    /\ UNCHANGED <<exporter_vars, input_vars, packets, written>>

\* run() of the CLFRFileWriter kernel.
WriterRun ==
    /\ Alive /\ clfrs # <<>>
    /\ WriteClfrs(1)
    /\ clfrs' = Tail(clfrs) /\ written' = Append(written, Head(clfrs))
    /\ UNCHANGED <<vars, reader_vars, content, input_vars, packets, pending>>

\* Fault: the streams are not drained.
StreamsOverAtOnce == src_over

\* All kernels are over.
StreamsOver ==
    /\ src_over
    /\ raw = <<>> /\ parsed = <<>> /\ packets = <<>> /\ pending = <<>> /\ clfrs = <<>>

\* The program goes on to destroy the kernels; the writer's closes the file.
Destroy ==
    /\ StreamsOver /\ Close
    /\ UNCHANGED <<vars, reader_vars, content, stream_vars>>

Gone == w_status # "open" /\ UNCHANGED capture_vars

\* A live source may wait for ever.
Waiting == Alive /\ ~FromFile /\ UNCHANGED capture_vars

KernelStep ==
    \/ Build \/ PcapRun \/ PcapPush \/ PcapStop \/ RawPush \/ ParserRun \/ ParserPush
    \/ FlowTableRun \/ FlowTablePush \/ WriterRun \/ Destroy

CapturePipelineNext ==
    \/ KernelStep
    \/ TzspReceive \/ TzspThrows \/ TzspShort \/ LiveRead \/ LiveFails
    \/ Waiting \/ Gone

\* Some kernel's thread that can run does; nothing is assumed of the network.
CapturePipelineSpec ==
    CaptureInit /\ [][CapturePipelineNext]_capture_vars /\ WF_capture_vars(KernelStep)
-----------------------------------------------------------------------------
(***************************************************************************)
(* Properties                                                              *)
(***************************************************************************)

Arrived == log \o packets \o parsed
Records == written \o clfrs \o pending

\* Nothing is lost, doubled or put out of order between the threads, with streams
\* that fill up while add_packet is running.  The table was given the packets of the
\* file, in its order and up to those on their way, or one packet for each datagram
\* that was received, copies included, in the order of their reception.  The
\* records that the table has exported are those in the file, in the stream to
\* the writer and about to be pushed, each in one place and once, those of one
\* key by their ids; and every packet is in the table's account.
StreamAccounts ==
    /\ FromFile =>
          Arrived \o held = [n \in DOMAIN delivered |-> PacketOf(delivered[n])]
    /\ ~FromFile =>
          /\ Len(Arrived) <= Len(received)
          /\ raw \o held = SubSeq(received, Len(Arrived) + 1, Len(received))
          /\ \A n \in DOMAIN Arrived : Arrived[n] \in RawParsed(received[n])
    /\ ToSet(Records) = exported
    /\ Len(Records) = Cardinality(exported) /\ Len(Records) = n_flows_processed
    /\ w_total = Len(written)
    /\ \A m, n \in DOMAIN Records :
          m < n /\ Records[m].key = Records[n].key => Records[m].id < Records[n].id
    /\ InTable \cup InExports \cup InDeleted = DOMAIN log

\* Only a capture that was read to its end closes the file, and then all that
\* the table exported is in it; a source that throws leaves an open one.
EndOfStream ==
    /\ w_status = "closed" =>
          /\ FromFile /\ end /\ ~truncated
          /\ w_total = Cardinality(exported)
          /\ Len(log) = Len(capture)
    /\ w_status = "dead" => ~Terminated /\ (FromFile => truncated \/ ~callback)

\* The pipeline on a file ends, however its streams fill up.
StreamEnds == FromFile ~> w_status # "open"
=============================================================================
