--------------------------- MODULE ClfrFileWriter ---------------------------
(***************************************************************************)
(* modules::CLFRFileWriter (src/modules/clfr_file_writer.{h,cc}): writes   *)
(* flow records to a file, each as the varint of its length followed by    *)
(* its bytes, and a zero length when it is closed.                         *)
(*                                                                         *)
(* Records are known by the order in which they were written.  The byte    *)
(* stream is a sequence of tokens: 2r - 1 is the length of record r, 2r    *)
(* its body, and 2 * w_total + 1 the zero that close() writes.  What is in *)
(* the file is a prefix of the stream, hence a number of tokens; a token   *)
(* that is there in part counts as missing.                                *)
(*                                                                         *)
(* The protobuf and standard library streams are external: they pass their *)
(* buffers to the file when they are full and when they are destroyed, and *)
(* after a write to the file has failed they silently drop what follows.   *)
(* No caller looks at that error.                                          *)
(***************************************************************************)
EXTENDS Integers

CONSTANT MaxRecords     \* bound: records in a file

ASSUME WriterAssumption == MaxRecords \in Nat

VARIABLES
    w_total,      \* _total_clfrs
    disk,         \* tokens of the stream that are in the file
    failed,       \* a write to the file has failed
    w_status      \* "open", "closed", or "dead": the process ended before close()

writer_vars == <<w_total, disk, failed, w_status>>

WriterInit == w_total = 0 /\ disk = 0 /\ failed = FALSE /\ w_status = "open"

\* The streams pass on some of the tokens up to n, or fail to.
Flushed(n) ==
    \/ ~failed /\ disk' \in disk .. n /\ failed' \in BOOLEAN
    \/ failed /\ UNCHANGED <<disk, failed>>

\* write_clfr, n times.  (Its exception for a record of length zero cannot
\* occur: to_proto always adds the key, so no record is shorter than 2 bytes.)
WriteClfrs(n) ==
    /\ w_status = "open"
    /\ w_total + n <= MaxRecords
    /\ w_total' = w_total + n
    /\ Flushed(2 * w_total')
    /\ UNCHANGED w_status

\* Fault: the terminating zero is not written.
CloseNoZero ==
    /\ w_status = "open"
    /\ w_status' = "closed"
    /\ \/ ~failed /\ disk' = 2 * w_total /\ UNCHANGED failed
       \/ Flushed(2 * w_total) /\ failed'
    /\ UNCHANGED w_total

\* close(), called by the program or by the destructor: writes the zero and
\* destroys the streams.
Close ==
    /\ w_status = "open"
    /\ w_status' = "closed"
    /\ \/ ~failed /\ disk' = 2 * w_total + 1 /\ UNCHANGED failed
       \/ Flushed(2 * w_total) /\ failed'
    /\ UNCHANGED w_total

\* The process ends without running the destructor, by an exception that
\* leaves main() or otherwise.
Die ==
    /\ w_status = "open"
    /\ w_status' = "dead"
    /\ UNCHANGED <<w_total, disk, failed>>

\* The constructor throws: the file cannot be opened.
OpenFails == w_total = 0 /\ Die

Terminated == disk = 2 * w_total + 1
=============================================================================
