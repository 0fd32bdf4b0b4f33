--------------------------- MODULE ClfrFileReader ---------------------------
(***************************************************************************)
(* modules::CLFRFileReader (src/modules/clfr_file_reader.{h,cc}) on a file *)
(* that modules::CLFRFileWriter left, driven by the loop of clfr_stats or  *)
(* by the run() of kernels::CLFRFileReader, which reads batch_size records *)
(* at a time.                                                              *)
(*                                                                         *)
(* protobuf is external: ReadVarint32 sets its argument to 2^32 - 1 when   *)
(* no varint can be read (protobuf 3, which starflow.proto needs), here    *)
(* -1; ReadString leaves the string as it is when asked for -1 bytes, and  *)
(* otherwise fills it as far as the file goes.  Neither result is looked   *)
(* at.  A stream that hits protobuf's limit on the bytes it reads behaves  *)
(* as one at the end of the file: as if the file were cut off there.       *)
(***************************************************************************)
EXTENDS ClfrFileWriter, Sequences

CONSTANTS
    BatchSizes,     \* batch sizes of the kernel, 0 for record by record
    MaxGot          \* bound: records remembered in got

ASSUME BatchAssumption ==
    /\ BatchSizes \subseteq Nat
    /\ MaxGot \in Nat

VARIABLES
    r_status,     \* "new", "open", "threw" (the constructor), "stopped" (raft::stop)
    pos,          \* tokens the stream has consumed
    obj_len,      \* _obj_len: the record it is the length of, 0, or -1
    buf,          \* _buf: the record its bytes are from and whether all are
                  \* there, record 0 for no bytes
    r_end,        \* _end
    batch,        \* _batch_size
    left,         \* reads left in the present run()
    got           \* history: the first MaxGot records read

reader_vars == <<r_status, pos, obj_len, buf, r_end, batch, left, got>>
file_vars == <<writer_vars, reader_vars>>

Contents == [rec : 0 .. MaxRecords, whole : BOOLEAN]
NoBytes == [rec |-> 0, whole |-> TRUE]
Whole(r) == [rec |-> r, whole |-> TRUE]

ReaderInit ==
    /\ r_status = "new" /\ pos = 0 /\ obj_len = 0 /\ buf = NoBytes
    /\ r_end = FALSE /\ batch \in BatchSizes /\ left = 0 /\ got = <<>>

\* Fault: a failed ReadVarint32 is taken for the zero.
PeekFailsToZero(p) ==
    IF p >= disk \/ p = 2 * w_total THEN 0 ELSE p \div 2 + 1

\* _peek at token p + 1: the length it finds there, -1 if there is none.
Peek(p) ==
    CASE p >= disk        -> -1
      [] p < disk /\ p = 2 * w_total -> 0
      [] p < disk /\ p < 2 * w_total -> p \div 2 + 1

\* Tokens consumed by a _peek and by a ReadString at token p + 1.
Passed(p) == IF p < disk THEN p + 1 ELSE p

\* Fault: the string is not overwritten when the file ends within the record.
ReadStringKeeps(p) ==
    IF obj_len > 0 /\ p < disk THEN Whole(obj_len) ELSE buf

\* ReadString(&_buf, _obj_len).
ReadString(p) ==
    CASE obj_len = -1 -> buf
      [] obj_len = 0  -> NoBytes
      [] obj_len > 0  -> [rec |-> obj_len, whole |-> p < disk]

\* The constructor, once the writing process is gone.
OpenReader ==
    /\ w_status # "open" /\ r_status = "new"
    /\ obj_len' = Peek(0) /\ pos' = Passed(0)
    /\ r_status' = IF obj_len' = 0 THEN "threw" ELSE "open"
    /\ UNCHANGED <<writer_vars, buf, r_end, batch, left, got>>

\* Whether read_clfr sets _end, after its _peek.
Ends(new_len) == new_len = 0

\* read_clfr.
ReadClfr ==
    LET p == IF obj_len > 0 THEN Passed(pos) ELSE pos
    IN  /\ buf' = ReadString(pos)
        /\ got' = IF Len(got) < MaxGot THEN Append(got, buf') ELSE got
        /\ obj_len' = Peek(p)
        /\ pos' = Passed(p)
        /\ r_end' = (r_end \/ Ends(obj_len'))

\* Reads of one run() of the kernel, or of one round of the loop of clfr_stats.
ReadsInRun == IF batch > 0 THEN batch ELSE 1

\* The head of run(): stop at the end, else begin to read.
Run ==
    /\ r_status = "open" /\ left = 0
    /\ \/ r_end /\ r_status' = "stopped" /\ UNCHANGED left
       \/ ~r_end /\ left' = ReadsInRun /\ UNCHANGED r_status
    /\ UNCHANGED <<writer_vars, pos, obj_len, buf, r_end, batch, got>>

\* The loop of run(): it does not look at end() until the batch is full.
RunRead ==
    /\ r_status = "open" /\ left > 0
    /\ ReadClfr
    /\ left' = left - 1
    /\ UNCHANGED <<writer_vars, r_status, batch>>

ReadOver ==
    /\ r_status \in {"threw", "stopped"}
    /\ UNCHANGED file_vars

FileInit == WriterInit /\ ReaderInit
WriterStep == (WriteClfrs(1) \/ Close \/ Die) /\ UNCHANGED reader_vars
ReaderStep == OpenReader \/ Run \/ RunRead
FileNext == WriterStep \/ ReaderStep \/ ReadOver

\* The reading thread runs whatever the file holds.
FileSpec == FileInit /\ [][FileNext]_file_vars /\ WF_file_vars(ReaderStep)
-----------------------------------------------------------------------------
(***************************************************************************)
(* Properties                                                              *)
(***************************************************************************)

\* However the writer ended, the records whose bytes are all in the file are
\* read first, each once, whole, and in the order they were written.  What is
\* read beyond them is, of a closed file, records without content, to fill a
\* batch; of one cut short, the part of a record that there is, and from then
\* on the same contents for ever.
ReadBack ==
    LET n == disk \div 2
        last == IF n = 0 THEN NoBytes ELSE Whole(n)
        torn == [rec |-> n + 1, whole |-> FALSE]
    IN  \A i \in DOMAIN got :
            got[i] = IF i <= n THEN Whole(i)
                     ELSE IF Terminated THEN NoBytes
                     ELSE IF disk % 2 = 1 THEN torn ELSE last

\* end() holds of a file that was closed, after all its records were read:
\* a file cut short is never taken for one that is complete.  The kernel then has
\* handed on whole batches, and none of empty records only.
EndMeansAll ==
    /\ r_end => Terminated /\ Len(got) >= w_total
    /\ r_status = "stopped" =>
          /\ Len(got) % ReadsInRun = 0
          /\ Len(got) - w_total \in 0 .. ReadsInRun - 1

\* A file that was closed is read to its end, unless it holds no record and is
\* refused.
ClosedFilesEnd ==
    [](w_status = "closed" /\ ~failed
         => <>(r_status = IF w_total = 0 THEN "threw" ELSE "stopped"))
=============================================================================
