-------------------------- MODULE FlowFileExporter --------------------------
(***************************************************************************)
(* The program pcap_flow_file_exporter                                     *)
(* (src/app/pcap_flow_file_exporter_main.cc): a PCAPFileReader, a          *)
(* FlowTable and a CLFRFileWriter in one thread,                           *)
(*                                                                         *)
(*     while (!pcap_reader.end()) {                                        *)
(*         Key k; Packet p;                                                *)
(*         pcap_reader.next(k, p);                                         *)
(*         flow_table.add_packet(k, p);      // calls back into the writer *)
(*     }                                                                   *)
(*     clfr_file_writer.close();                                           *)
(*                                                                         *)
(* composed of their modules.  A frame of the capture is what the table    *)
(* would get of it if it were parsed alone; a frame that is neither TCP    *)
(* nor UDP carries the all-zero key, whose protocol is no protocol.        *)
(***************************************************************************)
EXTENDS FlowTable, PcapFileReader, ClfrFileWriter

CONSTANT ZeroKey    \* Key(), the key of frames that are not parsed

ASSUME ExporterAssumption ==
    /\ ZeroKey \in Keys
    /\ \A k \in Keys : IpProto[k] = "other" <=> k = ZeroKey
    /\ {IpProto[k] : k \in Keys} \subseteq FrameKinds
    /\ MaxFrames <= MaxPackets /\ MaxFrames <= MaxRecords

VARIABLE content    \* the capture: its frames, as packets

exporter_vars == <<vars, reader_vars, writer_vars, content>>

\* Fault: objects declared outside the loop keep what an earlier frame left.
PacketStale(d) ==
    [key |-> IF d.key # 0 THEN content[d.key].key
             ELSE IF log = <<>> THEN ZeroKey ELSE log[Len(log)].key,
     ts |-> content[d.ts].ts,
     flags |-> IF d.tcp = 0 THEN {} ELSE content[d.tcp].flags]

\* The packet that next() has filled the objects of the loop with.
PacketOf(d) ==
    [key |-> IF d.key = 0 THEN ZeroKey ELSE content[d.key].key,
     ts |-> content[d.ts].ts,
     flags |-> IF d.tcp = 0 THEN {} ELSE content[d.tcp].flags]

ExporterInit ==
    /\ content \in UNION {[1 .. n -> Packets] : n \in 0 .. MaxFrames}
    /\ capture = [f \in DOMAIN content |-> IpProto[content[f].key]]
    /\ Init /\ ReaderInit /\ WriterInit

\* The reader, the table and the writer are constructed and the callback is set,
\* unless the constructor of the reader or that of the writer throws.
Construct ==
    /\ Open
    /\ \/ status' = "open" /\ SetCallback(TRUE) /\ UNCHANGED writer_vars
       \/ status' = "open" /\ OpenFails /\ UNCHANGED vars
       \/ status' # "open" /\ Die /\ UNCHANGED vars
    /\ UNCHANGED content

\* Fault of the callback: it writes complete records only.
WritesComplete(n) ==
    LET m == Cardinality({c \in exported' \ exported : c.complete})
    IN  IF m = 0 THEN UNCHANGED writer_vars ELSE WriteClfrs(m)

\* The callback, for the n records that one add_packet exports.
Writes(n) == IF n = 0 THEN UNCHANGED writer_vars ELSE WriteClfrs(n)

\* A round of the loop; an exception of next() ends the process.
Round ==
    /\ ReadNext
    /\ \/ /\ status' = "open"
          /\ AddPacket(PacketOf(delivered'[Len(delivered')]))
          /\ Writes(Cardinality(exported') - Cardinality(exported))
       \/ status' = "threw" /\ Die /\ UNCHANGED vars
    /\ UNCHANGED content

\* Fault: the program returns without close(), as if main had called exit().
FinishExits ==
    /\ status = "open" /\ end
    /\ Die
    /\ UNCHANGED <<vars, reader_vars, content>>

\* The file is closed; the flows that are still in the table are not looked at.
Finish ==
    /\ status = "open" /\ end
    /\ Close
    /\ UNCHANGED <<vars, reader_vars, content>>

Returned == w_status # "open" /\ UNCHANGED exporter_vars

ExporterNext == Construct \/ Round \/ Finish \/ Returned

\* One thread, which runs.
ExporterSpec ==
    /\ ExporterInit
    /\ [][ExporterNext]_exporter_vars
    /\ WF_exporter_vars(Construct \/ Round \/ Finish)
-----------------------------------------------------------------------------
(***************************************************************************)
(* Properties                                                              *)
(***************************************************************************)

\* pkt_count and clfr_count, which the program prints, the counters of the
\* table and those of the writer tell the same story: each packet read was
\* accepted by the table, and each record the table counts as processed went
\* to the writer.
CountersAgree ==
    /\ Len(log) = Len(delivered)
    /\ Len(log) = n_packets + n_packets_processed + Cardinality(InDeleted)
    /\ w_total = n_flows_processed
    /\ w_total = Cardinality(exported)

\* The frames whose packets are in the set N of arrival numbers.
Frames(N) == {delivered[n].ts : n \in N}

\* A file that ends with its terminator was made from a capture that was read
\* to its end, and each frame after the first is then in a record of the file,
\* was a lone ACK, or is in a flow that the file lacks because it was still in
\* the table; a capture that is cut off never gives such a file.
TerminatedAccounts ==
    Terminated =>
        /\ ~truncated /\ end
        /\ 2 .. Len(capture) \subseteq Frames(InExports \cup InDeleted \cup InTable)
        /\ Frames(InDeleted) \subseteq {f \in DOMAIN content : "ack" \in content[f].flags}

\* The program keeps every frame that is neither TCP nor UDP in one flow under
\* the all-zero key, which it never writes, and no frame is in a record with
\* frames of another key.
RecordsAreOfOneKey ==
    /\ \A c \in exported : \A f \in Frames(c.pkts) : content[f].key = c.key
    /\ \A c \in exported : c.key # ZeroKey
    /\ \A k \in DOMAIN active_flows :
          \A f \in Frames(active_flows[k].pkts) : content[f].key = k

\* The program comes to an end: it returns with the file closed, or dies of the
\* exception for a file that does not open or a capture that is cut off.
ProgramEnds == <>(w_status = IF callback /\ ~truncated THEN "closed" ELSE "dead")

\* What the program's help says: it generates a file containing all CLFRs from
\* the given PCAP file.
AllClfrsInFile == Terminated => DOMAIN active_flows = {}
=============================================================================
