--------------------------- MODULE PcapFileReader ---------------------------
(***************************************************************************)
(* modules::PCAPFileReader (src/modules/pcap_file_reader.{h,cc}) and the   *)
(* header parsing it relies on, types::Packet::parse, in the loop that the *)
(* comment in the header shows:                                            *)
(*                                                                         *)
(*     while (!reader.end()) { Key k; Packet p; reader.next(k, p); }       *)
(*                                                                         *)
(* What is in a frame does not matter here, only whose frame it is: each   *)
(* member of the caller's Key and Packet holds the number of the frame it  *)
(* was filled from, 0 standing for the value it was constructed with.      *)
(*                                                                         *)
(* libpcap is external: pcap_next_ex returns 1 with the next frame; -2 at  *)
(* the end of the file, leaving header and buffer as they were; and -1 if  *)
(* the file ends within a packet.  A file may also refuse to be opened.    *)
(***************************************************************************)
EXTENDS Integers, Sequences

CONSTANTS
    FrameKinds,     \* "tcp", "udp", "ip" (another IP protocol), "other" (no IP)
    MaxFrames       \* bound: frames in a capture

ASSUME ReaderAssumption ==
    /\ FrameKinds \subseteq {"tcp", "udp", "ip", "other"}
    /\ MaxFrames \in Nat

VARIABLES
    capture,      \* the file: the kinds of its frames
    truncated,    \* whether the file ends within a packet
    fetched,      \* frames libpcap has handed out
    pl_buf,       \* _pl_buf and _hdr: the frame they hold, 0 for none
    end,          \* _end
    status,       \* "new", "open", "refused" (the file does not open), or "threw"
    delivered     \* history: the caller's objects after each call

reader_vars == <<capture, truncated, fetched, pl_buf, end, status, delivered>>

Captures == UNION {[1 .. n -> FrameKinds] : n \in 0 .. MaxFrames}
Objects == [key : 0 .. MaxFrames, ip_id : 0 .. MaxFrames, tcp : 0 .. MaxFrames,
            len : 0 .. MaxFrames, ts : 0 .. MaxFrames]

\* Packet::parse on fresh objects: what it has written when it returns true or
\* false.  The caller, next(), does not look at the result.
Parse(f) ==
    LET from(kinds) == IF capture[f] \in kinds THEN f ELSE 0
    IN  [ip_id |-> from({"ip", "tcp", "udp"}), key |-> from({"tcp", "udp"}),
         len |-> from({"tcp", "udp"}), tcp |-> from({"tcp"})]

\* _peek: a frame, the end of the file, or an exception.  Faults: a frame is
\* skipped; the buffer moves on at the end.
PeekFrameTwice ==
    /\ fetched < Len(capture)
    /\ fetched' = IF fetched + 2 > Len(capture) THEN fetched + 1 ELSE fetched + 2
    /\ pl_buf' = fetched'
    /\ end' = FALSE
PeekFrame ==
    /\ fetched < Len(capture)
    /\ fetched' = fetched + 1 /\ pl_buf' = fetched + 1
    /\ end' = FALSE

PeekEnd ==
    /\ fetched = Len(capture) /\ ~truncated
    /\ end' = TRUE
    /\ UNCHANGED <<fetched, pl_buf>>

PeekFails ==
    /\ fetched = Len(capture) /\ truncated
    /\ UNCHANGED <<fetched, pl_buf, end>>

ReaderInit ==
    /\ capture \in Captures
    /\ truncated \in BOOLEAN
    /\ fetched = 0 /\ pl_buf = 0 /\ end = FALSE
    /\ status = "new"
    /\ delivered = <<>>

\* The constructor opens the file and peeks; it throws if it can do neither.
Open ==
    /\ status = "new"
    /\ \/ (PeekFrame \/ PeekEnd) /\ status' = "open"
       \/ PeekFails /\ status' = "threw"
       \/ status' = "refused" /\ UNCHANGED <<fetched, pl_buf, end>>
    /\ UNCHANGED <<capture, truncated, delivered>>

\* What next() fills the caller's objects with when the buffer holds frame f.
Filled(f) ==
    [key |-> Parse(f).key, ip_id |-> Parse(f).ip_id, tcp |-> Parse(f).tcp,
     len |-> Parse(f).len, ts |-> f]

\* next() peeks again, then reads the buffer.
ReadNext ==
    /\ status = "open" /\ ~end
    /\ \/ /\ PeekFrame \/ PeekEnd
          /\ delivered' = Append(delivered, Filled(pl_buf'))
          /\ UNCHANGED status
       \/ /\ PeekFails
          /\ status' = "threw"
          /\ UNCHANGED delivered
    /\ UNCHANGED <<capture, truncated>>

\* The loop is over.
ReaderDone == status \in {"refused", "threw"} \/ (status = "open" /\ end)
Over == ReaderDone /\ UNCHANGED reader_vars

ReaderNext == Open \/ ReadNext \/ Over

\* The caller's thread runs the loop to its end.
ReaderSpec == ReaderInit /\ [][ReaderNext]_reader_vars /\ WF_reader_vars(Open \/ ReadNext)
-----------------------------------------------------------------------------
(***************************************************************************)
(* Properties                                                              *)
(***************************************************************************)

\* The loop makes as many calls as the capture has frames, which is what the
\* unit test counts (test/modules/pcap_file_reader_test.cc), also when the
\* capture is empty.  No call reads a buffer that was never filled; packets
\* come in the order of the capture, none is left out after the first call, and
\* only the last call may repeat one.
FramesInOrder ==
    /\ Len(delivered) <= Len(capture)
    /\ status = "open" /\ end => Len(delivered) = Len(capture)
    /\ \A i \in DOMAIN delivered : delivered[i].ts # 0
    /\ \A i \in 2 .. Len(delivered) :
          delivered[i].ts - delivered[i - 1].ts \in
              IF i = Len(capture) THEN {0, 1} ELSE {1}

\* What the loop in the comment of the header is there for: it visits every
\* packet of the file.
EveryFrameVisited ==
    status = "open" /\ end =>
        {delivered[i].ts : i \in DOMAIN delivered} = DOMAIN capture
=============================================================================
