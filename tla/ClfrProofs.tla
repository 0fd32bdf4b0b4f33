----------------------------- MODULE ClfrProofs -----------------------------
(***************************************************************************)
(* Theorems about CLFR files and the programs that read them, for all      *)
(* constants.  ClfrFileReader, for any number of records, any sizes of     *)
(* batches and wherever the writing process or the file system stopped:    *)
(*                                                                         *)
(*   WholeRecordsRead    ReadBack                                          *)
(*   EndIsTheEnd         EndMeansAll                                       *)
(*                                                                         *)
(* ClfrPipeline, the programs on a file that was closed, for every file,   *)
(* every chain of kernels and all sizes of streams and batches:            *)
(*                                                                         *)
(*   AllObjectsCounted     BenchmarkCounts                                 *)
(*   ResultsAreOfTheFile   ResultsFollowFile                               *)
(*                                                                         *)
(* The reader is at a record whose length it has read (AtRecord), at the   *)
(* terminating zero (AtZero), or has run into the end of the file, after   *)
(* which it returns the same contents for ever (AtEndOfFile).  What ties   *)
(* the three to what was read is the number of records in got.  Of a       *)
(* program, the kernels end one after the other (OverInv), and what the    *)
(* interval at hand counts, with a ++ that is going on, completes the      *)
(* total (CountInv).                                                       *)
(*                                                                         *)
(* What a program computes is proved in two parts.  One is about a kernel  *)
(* alone: when its map is what the first n records of the file make it     *)
(* (MapOK), so it is after record n + 1, and what it pushes is right       *)
(* (Handled); its folds over packets, epochs and flowlets are taken step   *)
(* by step.  The other is about the threads: the objects that leave a      *)
(* kernel are numbered in the order of their records (Rank), and at every  *)
(* moment each stream, with what a run() has yet to push, holds those of   *)
(* consecutive numbers, behind which the map of the kernel they come from  *)
(* is at, and before which that of the kernel they go to (Delivering).     *)
(***************************************************************************)
EXTENDS ClfrFileReader, ClfrPipeline, SetLemmas, SequenceTheorems

\* What ReadBack says of the i-th record read.
WholeRecords == disk \div 2
Beyond ==
    IF Terminated THEN NoBytes
    ELSE IF disk % 2 = 1 THEN [rec |-> WholeRecords + 1, whole |-> FALSE]
    ELSE IF WholeRecords = 0 THEN NoBytes ELSE Whole(WholeRecords)
Content(i) == IF i <= WholeRecords THEN Whole(i) ELSE Beyond

AllContents == \A i \in DOMAIN got : got[i] = Content(i)

LEMMA ReadBackContents == AllContents <=> ReadBack
<1>1. ASSUME NEW i
      PROVE  Content(i) = IF i <= disk \div 2 THEN Whole(i)
                          ELSE IF Terminated THEN NoBytes
                          ELSE IF disk % 2 = 1 THEN [rec |-> disk \div 2 + 1, whole |-> FALSE]
                          ELSE IF disk \div 2 = 0 THEN NoBytes ELSE Whole(disk \div 2)
  BY Zenon DEF Content, Beyond, WholeRecords
<1>. QED
  BY <1>1, Zenon DEF AllContents, ReadBack

-----------------------------------------------------------------------------
(***************************************************************************)
(* The invariant                                                           *)
(***************************************************************************)

WriterInv ==
    /\ w_total \in 0 .. MaxRecords
    /\ disk \in 0 .. 2 * w_total + 1
    /\ w_status \in {"open", "closed", "dead"}
    /\ w_status = "open" => disk <= 2 * w_total

\* What a read can return.
Pieces == [rec : Int, whole : BOOLEAN]

ReaderTypes ==
    /\ r_status \in {"new", "open", "threw", "stopped"}
    /\ r_end \in BOOLEAN /\ batch \in BatchSizes /\ left \in Nat
    /\ got \in Seq(Pieces) /\ Len(got) <= MaxGot
    /\ buf \in Pieces

\* Before the file is opened, and after it was refused, nothing is read.
Unread == got = <<>> /\ left = 0 /\ r_end = FALSE

\* n records have been read, if got has room for as many.
HasRead(n) == Len(got) = n \/ (Len(got) = MaxGot /\ n >= MaxGot)
HasReadAtLeast(n) == Len(got) >= n \/ Len(got) = MaxGot

AtRecord ==
    /\ obj_len \in 1 .. w_total /\ pos = 2 * obj_len - 1 /\ pos <= disk
    /\ HasRead(obj_len - 1) /\ ~r_end
AtZero ==
    /\ obj_len = 0 /\ pos = disk /\ Terminated
    /\ HasReadAtLeast(w_total) /\ r_end
AtEndOfFile ==
    /\ obj_len = -1 /\ pos = disk /\ buf = Beyond
    /\ HasReadAtLeast(WholeRecords) /\ (r_end <=> Terminated)

PlaceInv ==
    /\ r_status = "new" => buf = NoBytes
    /\ r_status \in {"new", "threw"} => Unread
    /\ r_status # "new" => w_status # "open"
    /\ r_status \in {"open", "stopped"} => AtRecord \/ AtZero \/ AtEndOfFile

FileInv == WriterInv /\ ReaderTypes /\ PlaceInv /\ AllContents

LEMMA PieceTypes ==
    ASSUME NEW r \in Int
    PROVE  /\ Whole(r) \in Pieces
           /\ [rec |-> r, whole |-> FALSE] \in Pieces
<1>1. TRUE \in BOOLEAN /\ FALSE \in BOOLEAN /\ 0 \in Int
  OBVIOUS
<1>. QED
  BY <1>1, Zenon DEF Pieces, Whole

LEMMA NoBytesType == NoBytes \in Pieces
<1>1. TRUE \in BOOLEAN /\ 0 \in Int
  OBVIOUS
<1>. QED
  BY <1>1, Zenon DEF Pieces, NoBytes

\* What is read of a record, whole or not.
LEMMA RecordRead ==
    ASSUME NEW p, obj_len \in Nat, obj_len > 0
    PROVE  /\ p < disk => ReadString(p) = Whole(obj_len)
           /\ ~(p < disk) => ReadString(p) = [rec |-> obj_len, whole |-> FALSE]
<1>1. ReadString(p) = [rec |-> obj_len, whole |-> p < disk]
  <2>1. obj_len # 0 /\ obj_len # -1
    OBVIOUS
  <2>. QED  BY <2>1, Zenon DEF ReadString
<1>2. ASSUME p < disk
      PROVE  (p < disk) = TRUE
  BY <1>2, Zenon
<1>3. ASSUME ~(p < disk)
      PROVE  (p < disk) = FALSE
  BY <1>3
<1>. QED
  BY <1>1, <1>2, <1>3, Zenon DEF Whole

LEMMA InitFileInv == FileInit => FileInv
<1>. SUFFICES ASSUME FileInit PROVE FileInv
  OBVIOUS
<1>1. WriterInv
  BY WriterAssumption DEF FileInit, WriterInit, WriterInv
<1>2. ReaderTypes
  <2>1. /\ got = <<>> /\ buf \in Pieces /\ r_end \in BOOLEAN /\ batch \in BatchSizes
        /\ left = 0 /\ r_status = "new"
    BY NoBytesType, Zenon DEF FileInit, ReaderInit
  <2>2. got \in Seq(Pieces) /\ Len(got) = 0
    BY <2>1
  <2>. QED  BY <2>1, <2>2, BatchAssumption DEF ReaderTypes
<1>3. PlaceInv
  BY DEF FileInit, ReaderInit, PlaceInv, Unread
<1>4. AllContents
  BY DEF FileInit, ReaderInit, AllContents
<1>. QED
  BY <1>1, <1>2, <1>3, <1>4 DEF FileInv

\* What the writer does to its file.
LEMMA WriterStepInv ==
    ASSUME WriterInv, WriteClfrs(1) \/ Close \/ Die
    PROVE  WriterInv' /\ w_status = "open"
<1>0. w_total \in Nat /\ disk \in Nat /\ disk <= 2 * w_total + 1 /\ MaxRecords \in Nat
  BY WriterAssumption DEF WriterInv
<1>1. CASE WriteClfrs(1)
  BY <1>0, <1>1 DEF WriteClfrs, Flushed, WriterInv
<1>2. CASE Close
  BY <1>0, <1>2 DEF Close, Flushed, WriterInv
<1>3. CASE Die
  BY <1>0, <1>3 DEF Die, WriterInv
<1>. QED
  BY <1>1, <1>2, <1>3

\* The file does not change once it is read.
LEMMA SameContents ==
    ASSUME UNCHANGED writer_vars
    PROVE  /\ WriterInv => WriterInv'
           /\ Terminated' = Terminated /\ WholeRecords' = WholeRecords /\ Beyond' = Beyond
           /\ \A i : Content(i)' = Content(i)
BY DEF writer_vars, WriterInv, Terminated, WholeRecords, Beyond, Content

LEMMA WriterFileInv ==
    ASSUME FileInv, WriterStep
    PROVE  FileInv'
<1>1. WriterInv' /\ w_status = "open" /\ UNCHANGED reader_vars
  BY WriterStepInv DEF FileInv, WriterStep
<1>2. r_status = "new" /\ Unread
  BY <1>1 DEF FileInv, PlaceInv, ReaderTypes
<1>3. ReaderTypes' /\ PlaceInv'
  BY <1>1, <1>2 DEF FileInv, ReaderTypes, PlaceInv, reader_vars, Unread
<1>4. AllContents'
  BY <1>1, <1>2 DEF reader_vars, Unread, AllContents
<1>. QED
  BY <1>1, <1>3, <1>4 DEF FileInv

\* Peek at the token after p whole records.
LEMMA PeekFinds ==
    ASSUME WriterInv, NEW n \in 0 .. w_total, 2 * n <= disk
    PROVE  \/ Peek(2 * n) = -1 /\ Passed(2 * n) = disk /\ disk = 2 * n
           \/ Peek(2 * n) = 0 /\ Passed(2 * n) = disk /\ n = w_total /\ Terminated
           \/ /\ Peek(2 * n) = n + 1 /\ Passed(2 * n) = 2 * n + 1
              /\ n < w_total /\ 2 * n + 1 <= disk
<1>1. w_total \in Nat /\ disk \in Nat /\ disk <= 2 * w_total + 1 /\ n \in Nat
  BY DEF WriterInv
<1>2. CASE 2 * n >= disk
  BY <1>1, <1>2 DEF Peek, Passed
<1>3. CASE 2 * n < disk /\ n = w_total
  BY <1>1, <1>3 DEF Peek, Passed, Terminated
<1>4. CASE 2 * n < disk /\ n < w_total
  BY <1>1, <1>4 DEF Peek, Passed
<1>. QED
  BY <1>1, <1>2, <1>3, <1>4

LEMMA OpenFileInv ==
    ASSUME FileInv, OpenReader
    PROVE  FileInv'
<1>1. /\ w_status # "open" /\ r_status = "new" /\ obj_len' = Peek(0) /\ pos' = Passed(0)
      /\ r_status' = (IF obj_len' = 0 THEN "threw" ELSE "open")
      /\ UNCHANGED <<writer_vars, buf, r_end, batch, left, got>>
  BY DEF OpenReader
<1>2. WriterInv /\ ReaderTypes /\ AllContents /\ Unread /\ buf = NoBytes
  BY <1>1 DEF FileInv, PlaceInv
<1>3. WriterInv' /\ ReaderTypes'
  BY <1>1, <1>2, SameContents DEF ReaderTypes
<1>4. AllContents'
  BY <1>1, <1>2 DEF AllContents, Unread
<1>5. w_total \in Nat /\ disk \in Nat /\ MaxGot \in Nat
  BY <1>2, BatchAssumption DEF WriterInv
<1>6. w_status' # "open" /\ Unread'
  BY <1>1, <1>2 DEF writer_vars, Unread
<1>7. ASSUME Peek(0) # 0
      PROVE  AtRecord' \/ AtEndOfFile'
  <2>1. \/ Peek(0) = -1 /\ Passed(0) = disk /\ disk = 0
        \/ Peek(0) = 1 /\ Passed(0) = 1 /\ 0 < w_total /\ 1 <= disk
    <3>1. 0 \in 0 .. w_total /\ 2 * 0 = 0 /\ 0 <= disk
      BY <1>5
    <3>. QED  BY <1>2, <1>7, <3>1, PeekFinds
  <2>2. w_total' = w_total /\ disk' = disk /\ got' = <<>> /\ r_end' = FALSE /\ buf' = NoBytes
    BY <1>1, <1>2 DEF writer_vars, Unread
  <2>3. CASE Peek(0) = -1 /\ Passed(0) = disk /\ disk = 0
    BY <1>1, <1>5, <2>2, <2>3 DEF AtEndOfFile, Beyond, WholeRecords, Terminated, HasReadAtLeast
  <2>4. CASE Peek(0) = 1 /\ Passed(0) = 1 /\ 0 < w_total /\ 1 <= disk
    BY <1>1, <1>5, <2>2, <2>4 DEF AtRecord, HasRead
  <2>. QED  BY <2>1, <2>3, <2>4
<1>8. PlaceInv'
  BY <1>1, <1>6, <1>7 DEF PlaceInv
<1>. QED
  BY <1>3, <1>4, <1>8 DEF FileInv

-----------------------------------------------------------------------------
(***************************************************************************)
(* One read                                                                *)
(***************************************************************************)

\* A read appends the contents of its place, and moves on to the next.
LEMMA ReadMoves ==
    ASSUME WriterInv, ReaderTypes, UNCHANGED writer_vars, ReadClfr,
           AtRecord \/ AtZero \/ AtEndOfFile
    PROVE  /\ AtRecord' \/ AtZero' \/ AtEndOfFile'
           /\ Len(got) < MaxGot => buf' = Content(Len(got) + 1)
           /\ buf' \in Pieces
<1>0. /\ w_total \in Nat /\ disk \in Nat /\ disk <= 2 * w_total + 1
      /\ Len(got) \in Nat /\ MaxGot \in Nat /\ Len(got) <= MaxGot
  BY BatchAssumption DEF WriterInv, ReaderTypes
<1>1. /\ buf' = ReadString(pos)
      /\ obj_len' = Peek(IF obj_len > 0 THEN Passed(pos) ELSE pos)
      /\ pos' = Passed(IF obj_len > 0 THEN Passed(pos) ELSE pos)
      /\ r_end' <=> (r_end \/ obj_len' = 0)
  BY DEF ReadClfr, Ends
<1>2. Len(got') = IF Len(got) < MaxGot THEN Len(got) + 1 ELSE Len(got)
  BY DEF ReadClfr, ReaderTypes
<1>3. /\ w_total' = w_total /\ disk' = disk
      /\ Terminated' = Terminated /\ WholeRecords' = WholeRecords /\ Beyond' = Beyond
  BY SameContents DEF writer_vars
<1>4. CASE AtRecord
  <2>. DEFINE i == obj_len
  <2>1. /\ i \in 1 .. w_total /\ i > 0 /\ i \in Nat /\ pos = 2 * i - 1 /\ pos <= disk /\ r_end = FALSE
        /\ Len(got) = i - 1 \/ (Len(got) = MaxGot /\ i - 1 >= MaxGot)
    BY <1>0, <1>4 DEF AtRecord, HasRead, ReaderTypes
  <2>2. CASE pos < disk
    <3>1. /\ buf' = Whole(i) /\ Passed(pos) = 2 * i /\ i <= WholeRecords
          /\ buf' \in Pieces
      <4>1. buf' = Whole(i) /\ buf' \in Pieces
        <5>1. Whole(i) \in Pieces
          <6>1. obj_len \in Int
            BY <2>1
          <6>. QED  BY <6>1, PieceTypes, Zenon
        <5>2. buf' = Whole(i)
          BY <1>1, <2>1, <2>2, RecordRead
        <5>. QED  BY <5>1, <5>2
      <4>2. Passed(pos) = 2 * i /\ i <= WholeRecords
        BY <1>0, <2>1, <2>2 DEF Passed, WholeRecords
      <4>. QED  BY <4>1, <4>2
    <3>2. obj_len' = Peek(2 * i) /\ pos' = Passed(2 * i)
      BY <1>1, <2>1, <3>1
    <3>3. \/ Peek(2 * i) = -1 /\ Passed(2 * i) = disk /\ disk = 2 * i
          \/ Peek(2 * i) = 0 /\ Passed(2 * i) = disk /\ i = w_total /\ Terminated
          \/ /\ Peek(2 * i) = i + 1 /\ Passed(2 * i) = 2 * i + 1
             /\ i < w_total /\ 2 * i + 1 <= disk
      <4>1. i \in 0 .. w_total /\ 2 * i <= disk
        BY <1>0, <2>1, <2>2
      <4>. QED  BY <4>1, PeekFinds
    <3>4. CASE Peek(2 * i) = -1 /\ Passed(2 * i) = disk /\ disk = 2 * i
      <4>1. ~Terminated /\ WholeRecords = i /\ Beyond = Whole(i)
        BY <1>0, <2>1, <3>4 DEF Terminated, WholeRecords, Beyond
      <4>2. AtEndOfFile'
        BY <1>0, <1>1, <1>2, <1>3, <2>1, <3>1, <3>2, <3>4, <4>1
           DEF AtEndOfFile, HasReadAtLeast
      <4>. QED  BY <1>0, <2>1, <3>1, <4>2 DEF Content
    <3>5. CASE Peek(2 * i) = 0 /\ Passed(2 * i) = disk /\ i = w_total /\ Terminated
      <4>1. AtZero'
        BY <1>0, <1>1, <1>2, <1>3, <2>1, <3>2, <3>5 DEF AtZero, HasReadAtLeast
      <4>. QED  BY <1>0, <2>1, <3>1, <4>1 DEF Content
    <3>6. CASE /\ Peek(2 * i) = i + 1 /\ Passed(2 * i) = 2 * i + 1
               /\ i < w_total /\ 2 * i + 1 <= disk
      <4>1. AtRecord'
        BY <1>0, <1>1, <1>2, <1>3, <2>1, <3>2, <3>6 DEF AtRecord, HasRead
      <4>. QED  BY <1>0, <2>1, <3>1, <4>1 DEF Content
    <3>. QED  BY <3>3, <3>4, <3>5, <3>6
  <2>3. CASE pos = disk
    <3>1. buf' = [rec |-> i, whole |-> FALSE] /\ Passed(pos) = disk
      <4>1. buf' = [rec |-> i, whole |-> FALSE]
        <5>1. ~(pos < disk)
          BY <1>0, <2>3
        <5>. QED  BY <1>1, <2>1, <5>1, RecordRead, Zenon
      <4>2. Passed(pos) = disk
        BY <1>0, <2>3 DEF Passed
      <4>. QED  BY <4>1, <4>2
    <3>2. /\ ~Terminated /\ disk % 2 = 1 /\ WholeRecords = i - 1
      BY <1>0, <2>1, <2>3 DEF Terminated, WholeRecords
    <3>3. buf' = Beyond /\ buf' \in Pieces
      BY <1>0, <2>1, <3>1, <3>2, PieceTypes DEF Beyond
    <3>4. obj_len' = -1 /\ pos' = disk
      BY <1>0, <1>1, <2>1, <3>1 DEF Peek, Passed
    <3>5. AtEndOfFile'
      BY <1>0, <1>1, <1>2, <1>3, <2>1, <3>2, <3>3, <3>4 DEF AtEndOfFile, HasReadAtLeast
    <3>. QED  BY <1>0, <2>1, <3>2, <3>3, <3>5 DEF Content
  <2>. QED  BY <1>0, <2>1, <2>2, <2>3
<1>5. ASSUME AtZero \/ AtEndOfFile
      PROVE  /\ AtEndOfFile'
             /\ Len(got) < MaxGot => buf' = Content(Len(got) + 1)
             /\ buf' \in Pieces
  <2>1. /\ obj_len \in {0, -1} /\ pos = disk /\ (r_end <=> Terminated)
        /\ HasReadAtLeast(WholeRecords)
    BY <1>0, <1>5 DEF AtZero, AtEndOfFile, HasReadAtLeast, WholeRecords, Terminated, ReaderTypes
  <2>2. buf' = Beyond /\ buf' \in Pieces
    <3>1. /\ obj_len = 0 => ReadString(pos) = NoBytes
          /\ obj_len = -1 => ReadString(pos) = buf
      BY DEF ReadString
    <3>2. CASE AtZero
      BY <1>1, <3>1, <3>2, NoBytesType DEF AtZero, Beyond
    <3>3. CASE AtEndOfFile
      BY <1>1, <3>1, <3>3 DEF AtEndOfFile, ReaderTypes
    <3>. QED  BY <1>5, <3>2, <3>3
  <2>3. obj_len' = -1 /\ pos' = disk
    BY <1>0, <1>1, <2>1 DEF Peek, Passed
  <2>4. r_end' <=> Terminated
    BY <1>1, <2>1, <2>3
  <2>5. AtEndOfFile'
    <3>1. WholeRecords \in Nat
      BY <1>0 DEF WholeRecords
    <3>2. HasReadAtLeast(WholeRecords)'
      BY <1>0, <1>2, <1>3, <2>1, <3>1 DEF HasReadAtLeast
    <3>. QED  BY <1>3, <2>2, <2>3, <2>4, <3>2 DEF AtEndOfFile
  <2>6. Len(got) < MaxGot => buf' = Content(Len(got) + 1)
    <3>1. WholeRecords \in Nat
      BY <1>0 DEF WholeRecords
    <3>. QED  BY <1>0, <2>1, <2>2, <3>1 DEF HasReadAtLeast, Content
  <2>. QED  BY <2>2, <2>5, <2>6
<1>. QED
  BY <1>4, <1>5

LEMMA ReadFileInv ==
    ASSUME FileInv, RunRead
    PROVE  FileInv'
<1>1. /\ r_status = "open" /\ left > 0 /\ ReadClfr /\ left' = left - 1
      /\ UNCHANGED <<writer_vars, r_status, batch>>
  BY DEF RunRead
<1>2. /\ WriterInv /\ ReaderTypes /\ AllContents /\ w_status # "open"
      /\ AtRecord \/ AtZero \/ AtEndOfFile
  BY <1>1 DEF FileInv, PlaceInv
<1>3. /\ AtRecord' \/ AtZero' \/ AtEndOfFile'
      /\ Len(got) < MaxGot => buf' = Content(Len(got) + 1)
      /\ buf' \in Pieces
  BY <1>1, <1>2, ReadMoves
<1>4. got' = IF Len(got) < MaxGot THEN Append(got, buf') ELSE got
  BY <1>1 DEF ReadClfr
<1>5. ReaderTypes'
  BY <1>1, <1>2, <1>3, <1>4, BatchAssumption DEF ReaderTypes, ReadClfr
<1>6. AllContents'
  <2>1. ASSUME NEW i \in DOMAIN got'
        PROVE  got'[i] = Content(i)
    BY <1>2, <1>3, <1>4 DEF AllContents, ReaderTypes
  <2>. QED  BY <1>1, <2>1, SameContents DEF AllContents
<1>7. PlaceInv'
  BY <1>1, <1>2, <1>3 DEF PlaceInv, writer_vars
<1>. QED
  BY <1>1, <1>2, <1>5, <1>6, <1>7, SameContents DEF FileInv

\* The head of run(), and steps that read nothing.
LEMMA RestFileInv ==
    ASSUME FileInv, Run \/ UNCHANGED file_vars
    PROVE  FileInv'
<1>1. /\ UNCHANGED <<writer_vars, pos, obj_len, buf, r_end, batch, got>>
      /\ \/ r_status = "open" /\ r_status' \in {"open", "stopped"} /\ left' \in {left, ReadsInRun}
         \/ UNCHANGED <<r_status, left>>
  BY DEF Run, file_vars, reader_vars
<1>2. WriterInv' /\ AllContents'
  <2>1. AllContents'
    BY <1>1, SameContents DEF FileInv, AllContents
  <2>. QED  BY <1>1, <2>1, SameContents DEF FileInv
<1>3. ReaderTypes'
  <2>1. ReadsInRun \in Nat
    BY BatchAssumption DEF ReadsInRun, FileInv, ReaderTypes
  <2>. QED  BY <1>1, <2>1 DEF FileInv, ReaderTypes
<1>4. (AtRecord \/ AtZero \/ AtEndOfFile) => (AtRecord' \/ AtZero' \/ AtEndOfFile')
  BY <1>1, SameContents DEF AtRecord, AtZero, AtEndOfFile, HasRead, HasReadAtLeast, writer_vars
<1>5. PlaceInv'
  BY <1>1, <1>4 DEF FileInv, PlaceInv, Unread, writer_vars
<1>. QED
  BY <1>2, <1>3, <1>5 DEF FileInv

LEMMA NextFileInv == FileInv /\ [FileNext]_file_vars => FileInv'
BY WriterFileInv, OpenFileInv, ReadFileInv, RestFileInv, Zenon
   DEF FileNext, ReaderStep, ReadOver

\* However the writer ended, what is whole in the file is read first, each
\* record once and in order, and what comes after it is no record.
THEOREM WholeRecordsRead == FileSpec => []ReadBack
<1>1. FileInv => ReadBack
  BY ReadBackContents DEF FileInv
<1>. QED
  BY <1>1, InitFileInv, NextFileInv, PTL DEF FileSpec

-----------------------------------------------------------------------------
(***************************************************************************)
(* The batches                                                             *)
(***************************************************************************)

\* got is a window of MaxGot records on what may be an endless read; it shows
\* all of a file that was closed, and the batch its end falls into.
RoomInGot == \A b \in BatchSizes : MaxRecords + b <= MaxGot

\* The runs so far, and the one that is going on, read whole batches; of a file
\* that was closed none begins after the last record.
BatchInv ==
    /\ r_status = "stopped" => r_end /\ left = 0
    /\ (Terminated /\ r_status \in {"open", "stopped"}) =>
          /\ (Len(got) + left) % ReadsInRun = 0
          /\ Len(got) + left <= w_total + ReadsInRun - 1

\* The arithmetic of one more batch.
LEMMA Multiples ==
    ASSUME NEW r \in Nat, r > 0, NEW k \in Int, NEW m \in Int, 0 <= m, m < r, m = r * k
    PROVE  m = 0
<1>1. k >= 1 => r * k >= r
  OBVIOUS
<1>2. k <= -1 => r * k <= -r
  OBVIOUS
<1>3. k = 0 => r * k = 0
  OBVIOUS
<1>. QED
  BY <1>1, <1>2, <1>3

LEMMA AnotherBatch ==
    ASSUME NEW x \in Nat, NEW r \in Nat, r > 0, x % r = 0
    PROVE  (x + r) % r = 0
<1>1. PICK q1 \in Int : x = r * q1
  <2>1. x = r * (x \div r) + (x % r) /\ x \div r \in Int
    OBVIOUS
  <2>. QED  BY <2>1
<1>2. PICK q2 \in Int, m \in Int : x + r = r * q2 + m /\ m = (x + r) % r /\ 0 <= m /\ m < r
  <2>1. x + r = r * ((x + r) \div r) + ((x + r) % r) /\ (x + r) \div r \in Int
    OBVIOUS
  <2>2. (x + r) % r \in Int /\ 0 <= (x + r) % r /\ (x + r) % r < r
    OBVIOUS
  <2>. QED  BY <2>1, <2>2
<1>3. m = r * (q1 + 1 - q2)
  <2>1. m = r * q1 + r - r * q2
    BY <1>1, <1>2
  <2>. QED  BY <2>1
<1>. QED
  BY <1>2, <1>3, Multiples

LEMMA ReadsInRunType ==
    ASSUME ReaderTypes
    PROVE  /\ ReadsInRun \in Nat /\ ReadsInRun > 0
           /\ RoomInGot => MaxRecords + ReadsInRun <= MaxGot + 1
<1>1. batch \in Nat /\ MaxRecords \in Nat /\ MaxGot \in Nat
  BY BatchAssumption, WriterAssumption DEF ReaderTypes
<1>2. RoomInGot => MaxRecords + batch <= MaxGot
  BY DEF RoomInGot, ReaderTypes
<1>. QED
  BY <1>1, <1>2 DEF ReadsInRun

LEMMA OpenBatchInv ==
    ASSUME FileInv, OpenReader
    PROVE  BatchInv'
<1>1. /\ r_status = "new" /\ r_status' \in {"threw", "open"}
      /\ UNCHANGED <<writer_vars, batch, left, got>>
  BY DEF OpenReader
<1>2. got' = <<>> /\ left' = 0
  BY <1>1 DEF FileInv, PlaceInv, Unread
<1>3. ReadsInRun' = ReadsInRun /\ ReadsInRun \in Nat /\ ReadsInRun > 0
  BY <1>1, ReadsInRunType DEF FileInv, ReadsInRun
<1>4. w_total' \in Nat
  BY <1>1 DEF writer_vars, FileInv, WriterInv
<1>5. Len(got') + left' = 0 /\ 0 % ReadsInRun = 0
  BY <1>2, <1>3
<1>. QED
  BY <1>1, <1>3, <1>4, <1>5 DEF BatchInv

LEMMA RunBatchInv ==
    ASSUME FileInv, BatchInv, Run
    PROVE  BatchInv'
<1>1. /\ r_status = "open" /\ left = 0
      /\ \/ r_end /\ r_status' = "stopped" /\ left' = left
         \/ ~r_end /\ left' = ReadsInRun /\ r_status' = r_status
      /\ UNCHANGED <<writer_vars, r_end, batch, got>>
  BY DEF Run
<1>2. ReadsInRun' = ReadsInRun /\ ReadsInRun \in Nat /\ ReadsInRun > 0
  BY <1>1, ReadsInRunType DEF FileInv, ReadsInRun
<1>3. w_total' = w_total /\ w_total \in Nat /\ Len(got) \in Nat
  BY <1>1 DEF writer_vars, FileInv, WriterInv, ReaderTypes
<1>4. Terminated' = Terminated
  BY <1>1, SameContents
<1>5. CASE r_end
  BY <1>1, <1>2, <1>3, <1>4, <1>5 DEF BatchInv
<1>6. CASE ~r_end /\ Terminated
  <2>1. AtRecord
    BY <1>1, <1>6 DEF FileInv, PlaceInv, AtZero, AtEndOfFile
  <2>2. Len(got) <= w_total - 1
    BY <1>3, <2>1 DEF AtRecord, HasRead
  <2>3. Len(got) % ReadsInRun = 0
    BY <1>1, <1>3, <1>6 DEF BatchInv
  <2>4. (Len(got) + ReadsInRun) % ReadsInRun = 0
    BY <1>2, <1>3, <2>3, AnotherBatch
  <2>. QED  BY <1>1, <1>2, <1>3, <1>6, <2>2, <2>4 DEF BatchInv
<1>7. CASE ~r_end /\ ~Terminated
  BY <1>1, <1>4, <1>7 DEF BatchInv
<1>. QED
  BY <1>5, <1>6, <1>7

LEMMA ReadBatchInv ==
    ASSUME RoomInGot, FileInv, BatchInv, RunRead
    PROVE  BatchInv'
<1>1. /\ r_status = "open" /\ left > 0 /\ left' = left - 1
      /\ UNCHANGED <<writer_vars, r_status, batch>>
      /\ got' = IF Len(got) < MaxGot THEN Append(got, buf') ELSE got
  BY DEF RunRead, ReadClfr
<1>2. /\ ReadsInRun' = ReadsInRun /\ ReadsInRun \in Nat
      /\ MaxRecords + ReadsInRun <= MaxGot + 1
  BY <1>1, ReadsInRunType DEF FileInv, ReadsInRun
<1>3. /\ w_total' = w_total /\ w_total \in Nat /\ w_total <= MaxRecords
      /\ Len(got) \in Nat /\ left \in Nat /\ MaxGot \in Nat /\ MaxRecords \in Nat
  BY <1>1, WriterAssumption, BatchAssumption DEF writer_vars, FileInv, WriterInv, ReaderTypes
<1>4. Terminated' = Terminated
  BY <1>1, SameContents
<1>5. ASSUME Terminated
      PROVE  Len(got') + left' = Len(got) + left
  <2>1. Len(got) < MaxGot
    BY <1>1, <1>2, <1>3, <1>5 DEF BatchInv
  <2>2. Len(got') = Len(got) + 1
    BY <1>1, <2>1 DEF FileInv, ReaderTypes
  <2>. QED  BY <1>1, <1>3, <2>2
<1>. QED
  BY <1>1, <1>2, <1>3, <1>4, <1>5 DEF BatchInv

LEMMA NextBatchInv ==
    ASSUME RoomInGot, FileInv, BatchInv, [FileNext]_file_vars
    PROVE  BatchInv'
<1>1. ASSUME WriterStep
      PROVE  BatchInv'
  <2>1. r_status = "new" /\ r_status' = "new"
    BY <1>1, WriterStepInv DEF WriterStep, reader_vars, FileInv, PlaceInv, ReaderTypes
  <2>. QED  BY <2>1 DEF BatchInv
<1>2. ASSUME UNCHANGED file_vars
      PROVE  BatchInv'
  BY <1>2 DEF file_vars, reader_vars, writer_vars, BatchInv, Terminated, ReadsInRun
<1>. QED
  BY <1>1, <1>2, OpenBatchInv, RunBatchInv, ReadBatchInv, Zenon
     DEF FileNext, ReaderStep, ReadOver

\* A file that was cut short is never taken for one that is complete, and of a
\* complete one the kernel hands on whole batches and no empty one.
THEOREM EndIsTheEnd ==
    ASSUME RoomInGot
    PROVE  FileSpec => []EndMeansAll
<1>. DEFINE I == FileInv /\ BatchInv
<1>1. FileInit => I
  BY InitFileInv DEF FileInit, ReaderInit, BatchInv
<1>2. I /\ [FileNext]_file_vars => I'
  BY NextFileInv, NextBatchInv
<1>3. I => EndMeansAll
  <2>. SUFFICES ASSUME FileInv, BatchInv
                PROVE  EndMeansAll
    OBVIOUS
  <2>1. /\ w_total \in Nat /\ disk \in Nat /\ w_total <= MaxRecords
        /\ Len(got) \in Nat /\ left \in Nat /\ MaxGot \in Nat
    BY WriterAssumption, BatchAssumption DEF FileInv, WriterInv, ReaderTypes
  <2>2. ReadsInRun \in Nat /\ MaxRecords + batch <= MaxGot /\ batch \in Nat /\ MaxRecords \in Nat
    BY ReadsInRunType, BatchAssumption, WriterAssumption DEF FileInv, ReaderTypes, RoomInGot
  <2>3. ASSUME r_end
        PROVE  Terminated /\ Len(got) >= w_total
    <3>1. AtZero \/ AtEndOfFile
      BY <2>3 DEF FileInv, ReaderTypes, PlaceInv, Unread, AtRecord
    <3>2. Terminated /\ (HasReadAtLeast(w_total) \/ HasReadAtLeast(WholeRecords))
      BY <2>3, <3>1 DEF AtZero, AtEndOfFile
    <3>3. WholeRecords = w_total
      BY <2>1, <3>2 DEF Terminated, WholeRecords
    <3>. QED  BY <2>1, <2>2, <3>2, <3>3 DEF HasReadAtLeast
  <2>4. ASSUME r_status = "stopped"
        PROVE  /\ Len(got) % ReadsInRun = 0
               /\ Len(got) - w_total \in 0 .. ReadsInRun - 1
    BY <2>1, <2>2, <2>3, <2>4 DEF BatchInv
  <2>. QED  BY <2>3, <2>4 DEF EndMeansAll
<1>. QED
  BY <1>1, <1>2, <1>3, PTL DEF FileSpec

-----------------------------------------------------------------------------
(***************************************************************************)
(* The total of a benchmark                                                *)
(***************************************************************************)
SumOf(c) == FoldLeft(LAMBDA a, b : a + b, 0, c)

LEMMA SumOfAdds ==
    ASSUME NEW c \in Seq(Nat), NEW n \in Nat, n = Len(c)
    PROVE  \E F \in [0 .. n -> Nat] :
              Adds(n, [m \in 1 .. n |-> c[m]], F) /\ SumOf(c) = F[n]
<1>. DEFINE rec(g) == [s \in SUBSET (1 .. n) |->
                          IF s = {} THEN 0 ELSE g[s \ {Max(s)}] + c[Max(s)]]
            iter == CHOOSE g : g = rec(g)
            op == [x \in (1 .. n) \X Nat |-> x[2] + c[x[1]]]
<1>1. DOMAIN c = 1 .. n
  BY LenProperties
<1>2. SumOf(c) = iter[1 .. n]
  <2>1. SumOf(c) = (CHOOSE g : g = [s \in SUBSET DOMAIN c |->
                       IF s = {} THEN 0 ELSE g[s \ {Max(s)}] + c[Max(s)]])[DOMAIN c]
    BY Zenon DEF SumOf, FoldLeft, MapThenFoldSet
  <2>. QED  BY <1>1, <2>1
<1>3. op \in [(1 .. n) \X Nat -> Nat] /\ \A m \in 1 .. n, t \in Nat : op[<<m, t>>] = t + c[m]
  <2>1. \A m \in 1 .. n : c[m] \in Nat
    BY <1>1, ElementOfSeq
  <2>. QED  BY <2>1
<1>. HIDE DEF op
<1>4. PICK g \in [SUBSET (1 .. n) -> Nat] : FoldsUp(n, 0, Nat, op, g)
  <2>1. 0 \in Nat
    OBVIOUS
  <2>. QED  BY <1>3, <2>1, FoldRecursion
<1>5. \A s \in SUBSET (1 .. n) : s # {} => Max(s) \in 1 .. n /\ s \ {Max(s)} \in SUBSET (1 .. n)
  BY MaxOfBounded
<1>6. g = rec(g)
  <2>1. ASSUME NEW s \in SUBSET (1 .. n)
        PROVE  g[s] = IF s = {} THEN 0 ELSE g[s \ {Max(s)}] + c[Max(s)]
    <3>1. PICK x : x = Max(s)
      OBVIOUS
    <3>2. s # {} => x \in 1 .. n /\ g[s \ {x}] \in Nat
      BY <1>5, <3>1
    <3>. QED  BY <1>3, <1>4, <3>1, <3>2 DEF FoldsUp
  <2>. QED  BY <2>1
<1>7. iter = rec(iter)
  <2>. HIDE DEF rec
  <2>. QED  BY <1>6, Zenon
<1>. HIDE DEF iter
<1>8. FoldsUp(n, 0, Nat, op, iter)
  <2>1. ASSUME NEW s \in SUBSET (1 .. n), s # {}, iter[s \ {Max(s)}] \in Nat
        PROVE  iter[s] = op[<<Max(s), iter[s \ {Max(s)}]>>]
    <3>1. PICK x : x = Max(s)
      OBVIOUS
    <3>2. x \in 1 .. n
      BY <1>5, <2>1, <3>1
    <3>3. iter[s] = iter[s \ {x}] + c[x]
      BY <1>7, <2>1, <3>1
    <3>. QED  BY <1>3, <2>1, <3>1, <3>2, <3>3
  <2>2. iter[{}] = 0
    BY <1>7
  <2>. QED  BY <2>1, <2>2 DEF FoldsUp
<1>9. PICK F \in [0 .. n -> Nat] : Steps(n, 0, op, F) /\ F[n] = iter[1 .. n]
  <2>1. 0 \in Nat
    OBVIOUS
  <2>2. Folded(n, 0, Nat, op, iter[1 .. n])
    BY <1>3, <1>8, <2>1, FoldSteps
  <2>. QED  BY <2>2 DEF Folded
<1>10. Adds(n, [m \in 1 .. n |-> c[m]], F)
  <2>1. ASSUME NEW l \in 0 .. n, NEW m \in 0 .. n, m = l + 1
        PROVE  F[m] = F[l] + c[m] /\ m \in 1 .. n
    <3>1. m \in 1 .. n /\ F[l] \in Nat
      BY <2>1
    <3>2. F[m] = op[<<m, F[l]>>]
      BY <1>9, <2>1, Zenon DEF Steps
    <3>. QED  BY <1>3, <3>1, <3>2
  <2>. QED  BY <1>9, <2>1 DEF Steps, Adds
<1>. QED
  BY <1>2, <1>9, <1>10

LEMMA SumOfAppend ==
    ASSUME NEW c \in Seq(Nat), NEW x \in Nat
    PROVE  /\ SumOf(c) \in Nat
           /\ Append(c, x) \in Seq(Nat)
           /\ SumOf(Append(c, x)) = SumOf(c) + x
<1>1. PICK n \in Nat : n = Len(c)
  BY LenProperties
<1>2. PICK d : d = Append(c, x)
  OBVIOUS
<1>3. /\ d \in Seq(Nat) /\ Len(d) = n + 1 /\ d[n + 1] = x
      /\ \A m \in 1 .. n : d[m] = c[m]
  BY <1>1, <1>2, AppendProperties
<1>. DEFINE f == [m \in 1 .. n |-> c[m]]
            e == [m \in 1 .. n + 1 |-> d[m]]
<1>4. PICK F \in [0 .. n -> Nat] : Adds(n, f, F) /\ SumOf(c) = F[n]
  BY <1>1, SumOfAdds
<1>5. PICK E \in [0 .. n + 1 -> Nat] : Adds(n + 1, e, E) /\ SumOf(d) = E[n + 1]
  <2>1. PICK k \in Nat : k = n + 1
    OBVIOUS
  <2>2. k = Len(d)
    BY <1>3, <2>1
  <2>. QED  BY <1>3, <2>1, <2>2, SumOfAdds
<1>6. f \in [1 .. n -> Nat] /\ e \in [1 .. n + 1 -> Nat] /\ e[n + 1] = x
      /\ \A m \in 1 .. n : e[m] = f[m]
  <2>1. \A m \in 1 .. n + 1 : d[m] \in Nat
    BY <1>3, ElementOfSeq
  <2>2. \A m \in 1 .. n : c[m] \in Nat
    BY <1>1, ElementOfSeq
  <2>3. n + 1 \in 1 .. n + 1
    OBVIOUS
  <2>. QED  BY <1>3, <2>1, <2>2, <2>3
<1>. HIDE DEF e, f
<1>7. E[n + 1] = F[n] + x
  BY <1>4, <1>5, <1>6, AddsAppend
<1>8. F[n] \in Nat
  OBVIOUS
<1>. QED
  BY <1>2, <1>3, <1>4, <1>5, <1>7, <1>8

LEMMA SumOfEmpty == SumOf(<<>>) = 0
<1>1. <<>> \in Seq(Nat) /\ Len(<<>>) = 0
  BY EmptySeq
<1>2. PICK z \in Nat : z = 0
  OBVIOUS
<1>3. PICK s : s = <<>>
  OBVIOUS
<1>4. PICK F \in [0 .. z -> Nat] : Adds(z, [m \in 1 .. z |-> s[m]], F) /\ SumOf(s) = F[z]
  BY <1>1, <1>2, <1>3, SumOfAdds
<1>5. F[0] = 0
  BY <1>4, Zenon DEF Adds
<1>. QED
  BY <1>2, <1>3, <1>4, <1>5

-----------------------------------------------------------------------------
(***************************************************************************)
(* The kernels of a program                                                *)
(***************************************************************************)
Plain(s) == \E S : s \in Seq(S)

PipelineTypes ==
    /\ conf \in Confs /\ Len(file) \in Nat \ {0} /\ rd \in 0 .. Len(file)
    /\ DOMAIN queue = Kernels /\ DOMAIN held = Kernels
    /\ DOMAIN over = Kernels /\ \A j \in Kernels : over[j] \in BOOLEAN
    /\ bench \in [counts : Seq(Nat), current : Nat, loaded : Nat \cup {-1}]
    /\ Plain(taken) /\ returned \in BOOLEAN
    /\ conf.batch > 0 => Plain(held[1]) /\ Plain(queue[1])

\* The kernels end one after the other, each with nothing left to do.
OverInv ==
    /\ over[1] => rd = Len(file)
    /\ \A j \in Kernels : over[j] => held[j] = <<>>
    /\ \A j, l \in Kernels : j = l + 1 /\ over[j] => over[l] /\ queue[l] = <<>>
    /\ over[Sink] => bench.loaded = -1
    /\ returned => over[Sink]

\* What the interval at hand counts, with the ++ that is going on.
Counting == IF returned THEN 0 ELSE IF bench.loaded = -1 THEN bench.current ELSE bench.loaded + 1

\* The counts so far; the timer may set the current one back at any time.
CountInv ==
    /\ bench.loaded # -1 => bench.current <= bench.loaded
    /\ conf.benchmark =>
          IF conf.timer THEN Total + Counting <= Len(taken)
          ELSE /\ Total + Counting = Len(taken)
               /\ bench.loaded # -1 => bench.loaded = bench.current

\* The batches, on their way or taken, are as many as what was read fills.
Batches == Len(held[1]) + Len(queue[1]) + Len(taken)
BatchesInv ==
    conf.batch > 0 =>
        /\ rd < Len(file) => rd = Batches * conf.batch
        /\ rd = Len(file) => Batches * conf.batch - Len(file) \in 0 .. conf.batch - 1

BenchInv == PipelineTypes /\ OverInv /\ CountInv /\ BatchesInv

LEMMA PlainEmpty == Plain(<<>>) /\ Len(<<>>) = 0
<1>1. <<>> \in Seq(Nat) /\ Len(<<>>) = 0
  BY EmptySeq
<1>. QED
  BY <1>1 DEF Plain

LEMMA PlainOne == ASSUME NEW x PROVE Plain(<<x>>) /\ Len(<<x>>) = 1 /\ <<x>> # <<>>
<1>1. <<x>> \in Seq({x}) /\ Len(<<x>>) = 1
  OBVIOUS
<1>. QED
  BY <1>1, PlainEmpty DEF Plain

LEMMA PlainAppend ==
    ASSUME NEW s, Plain(s), NEW x
    PROVE  Plain(Append(s, x)) /\ Len(s) \in Nat /\ Len(Append(s, x)) = Len(s) + 1
<1>1. PICK S : s \in Seq(S)
  BY DEF Plain
<1>2. s \in Seq(S \cup {x}) /\ x \in S \cup {x}
  <2>1. Len(s) \in Nat /\ s \in [1 .. Len(s) -> S]
    BY <1>1, LenProperties, ElementOfSeq
  <2>2. s \in [1 .. Len(s) -> S \cup {x}]
    BY <2>1
  <2>. QED  BY <2>1, <2>2, IsASeq
<1>3. Append(s, x) \in Seq(S \cup {x}) /\ Len(Append(s, x)) = Len(s) + 1 /\ Len(s) \in Nat
  BY <1>2, AppendProperties, LenProperties
<1>. QED
  BY <1>3 DEF Plain

LEMMA PlainTail ==
    ASSUME NEW s, Plain(s), s # <<>>
    PROVE  /\ Plain(Tail(s)) /\ Len(s) \in Nat /\ Len(Tail(s)) \in Nat
           /\ Len(Tail(s)) = Len(s) - 1
<1>1. PICK S : s \in Seq(S)
  BY DEF Plain
<1>2. Tail(s) \in Seq(S) /\ Len(Tail(s)) = Len(s) - 1
  BY <1>1, HeadTailProperties
<1>3. Len(s) \in Nat /\ Len(Tail(s)) \in Nat
  BY <1>1, <1>2, LenProperties
<1>. QED
  BY <1>2, <1>3 DEF Plain

LEMMA PlainConcat ==
    ASSUME NEW s, Plain(s), NEW t, Plain(t)
    PROVE  /\ Plain(s \o t) /\ Len(s) \in Nat /\ Len(t) \in Nat
           /\ Len(s \o t) = Len(s) + Len(t)
<1>1. PICK S : s \in Seq(S)
  BY DEF Plain
<1>2. PICK T : t \in Seq(T)
  BY DEF Plain
<1>3. s \in Seq(S \cup T) /\ t \in Seq(S \cup T)
  <2>1. Len(s) \in Nat /\ s \in [1 .. Len(s) -> S] /\ Len(t) \in Nat /\ t \in [1 .. Len(t) -> T]
    BY <1>1, <1>2, LenProperties, ElementOfSeq
  <2>2. s \in [1 .. Len(s) -> S \cup T] /\ t \in [1 .. Len(t) -> S \cup T]
    BY <2>1
  <2>. QED  BY <2>1, <2>2, IsASeq
<1>4. s \o t \in Seq(S \cup T) /\ Len(s \o t) = Len(s) + Len(t)
  BY <1>3, ConcatProperties
<1>5. Len(s) \in Nat /\ Len(t) \in Nat
  BY <1>3, LenProperties
<1>. QED
  BY <1>4, <1>5 DEF Plain

\* The programs and their chains.
ThePrograms == {"active_connections", "flowlet_size_histogram",
                "tcp_non_monotonic", "tcp_out_of_sequence", "ewma_latencies",
                "packet_counts", "passthrough", "batch_test", "parallel_test"}

LEMMA ChainIs ==
    ASSUME NEW program
    PROVE  /\ program = "active_connections" => Chain(program) = ActiveConnections
           /\ program = "flowlet_size_histogram" => Chain(program) = FlowletSizes
           /\ program = "tcp_non_monotonic" => Chain(program) = TcpNonMonotonic
           /\ program = "tcp_out_of_sequence" => Chain(program) = TcpOutOfSequence
           /\ program = "ewma_latencies" => Chain(program) = EwmaLatencies
           /\ program = "packet_counts" => Chain(program) = PacketCounts
           /\ program = "passthrough" => Chain(program) = Passthrough
           /\ program = "batch_test" => Chain(program) = BatchTest
           /\ program = "parallel_test" => Chain(program) = ParallelTest
BY Zenon DEF Chain

LEMMA ChainLens ==
    /\ Len(ActiveConnections) = 4 /\ Len(FlowletSizes) = 4 /\ Len(TcpNonMonotonic) = 4
    /\ Len(TcpOutOfSequence) = 4 /\ Len(EwmaLatencies) = 3 /\ Len(PacketCounts) = 3
    /\ Len(Passthrough) = 2 /\ Len(BatchTest) = 2 /\ Len(ParallelTest) = 2
BY DEF ActiveConnections, FlowletSizes, TcpNonMonotonic, TcpOutOfSequence,
       EwmaLatencies, PacketCounts, Passthrough, BatchTest, ParallelTest

LEMMA ChainSteps ==
    ASSUME NEW program \in ThePrograms, NEW c, c = Chain(program)
    PROVE  \E L \in 2 .. 4 :
              /\ L = Len(c) /\ DOMAIN c = 1 .. L
              /\ c[1] = "clfr_file_reader"
              /\ \A i \in 2 .. L - 1 : c[i] # "clfr_file_reader"
<1>1. CASE program = "active_connections"
  <2>1. c = ActiveConnections
    BY <1>1, ChainIs
  <2>. QED  BY <2>1, ChainLens DEF ActiveConnections
<1>2. CASE program = "flowlet_size_histogram"
  <2>1. c = FlowletSizes
    BY <1>2, ChainIs
  <2>. QED  BY <2>1, ChainLens DEF FlowletSizes
<1>3. CASE program = "tcp_non_monotonic"
  <2>1. c = TcpNonMonotonic
    BY <1>3, ChainIs
  <2>. QED  BY <2>1, ChainLens DEF TcpNonMonotonic
<1>4. CASE program = "tcp_out_of_sequence"
  <2>1. c = TcpOutOfSequence
    BY <1>4, ChainIs
  <2>. QED  BY <2>1, ChainLens DEF TcpOutOfSequence
<1>5. CASE program = "ewma_latencies"
  <2>1. c = EwmaLatencies
    BY <1>5, ChainIs
  <2>. QED  BY <2>1, ChainLens DEF EwmaLatencies
<1>6. CASE program = "packet_counts"
  <2>1. c = PacketCounts
    BY <1>6, ChainIs
  <2>. QED  BY <2>1, ChainLens DEF PacketCounts
<1>7. CASE program = "passthrough"
  <2>1. c = Passthrough
    BY <1>7, ChainIs
  <2>. QED  BY <2>1, ChainLens DEF Passthrough
<1>8. CASE program = "batch_test"
  <2>1. c = BatchTest
    BY <1>8, ChainIs
  <2>. QED  BY <2>1, ChainLens DEF BatchTest
<1>9. CASE program = "parallel_test"
  <2>1. c = ParallelTest
    BY <1>9, ChainIs
  <2>. QED  BY <2>1, ChainLens DEF ParallelTest
<1>. QED
  BY <1>1, <1>2, <1>3, <1>4, <1>5, <1>6, <1>7, <1>8, <1>9 DEF ThePrograms

LEMMA ChainLength ==
    ASSUME conf \in Confs
    PROVE  /\ Kernels = 1 .. Sink /\ Sink \in 2 .. 4
           /\ conf.batch > 0 => Sink = 2
           /\ conf.batch \in Nat /\ conf.benchmark \in BOOLEAN /\ conf.timer \in BOOLEAN
<1>1. /\ conf.program \in Programs /\ conf.batch \in {0, BatchSize}
      /\ conf.benchmark \in BOOLEAN /\ conf.timer \in BOOLEAN
      /\ conf.batch > 0 => conf.program \in {"batch_test", "parallel_test"}
  BY DEF Confs
<1>2. conf.program \in {"active_connections", "flowlet_size_histogram",
                        "tcp_non_monotonic", "tcp_out_of_sequence", "ewma_latencies",
                        "packet_counts", "passthrough", "batch_test", "parallel_test"}
  BY <1>1, PipelineAssumption
<1>3. PICK c : c = Chain(conf.program)
  OBVIOUS
<1>4. /\ DOMAIN c = 1 .. Len(c) /\ Len(c) \in 2 .. 4
      /\ conf.program \in {"batch_test", "parallel_test"} => Len(c) = 2
  <2>1. conf.program \in ThePrograms
    BY <1>2 DEF ThePrograms
  <2>2. PICK L \in 2 .. 4 : L = Len(c) /\ DOMAIN c = 1 .. L
    BY <1>3, <2>1, ChainSteps
  <2>3. conf.program \in {"batch_test", "parallel_test"} => Len(c) = 2
    BY <1>3, ChainIs, ChainLens
  <2>. QED  BY <2>2, <2>3
<1>5. Kernels = 1 .. Sink /\ Sink = Len(c)
  BY <1>3, <1>4 DEF Kernels, Sink
<1>. QED
  BY <1>1, <1>4, <1>5, PipelineAssumption

\* The steps of the threads.
LEMMA PipelineSteps ==
    ASSUME [PipelineNext]_pipeline_vars, conf \in Confs
    PROVE  \/ ReaderRun \/ ReaderStop \/ PrinterRun \/ BenchmarkRun \/ BenchmarkStores
           \/ Return \/ Tick \/ UNCHANGED pipeline_vars
           \/ \E j \in Kernels : \/ Push(j)
                                 \/ j > 1 /\ j < Sink /\ KernelRun(j)
                                 \/ j > 1 /\ KernelOver(j)
<1>1. Sink \in 2 .. 4 /\ Kernels = 1 .. Sink
  BY ChainLength
<1>2. ASSUME NEW j \in 1 .. 4, Kernel(j)
      PROVE  \/ ReaderRun \/ ReaderStop \/ PrinterRun \/ BenchmarkRun \/ BenchmarkStores
             \/ j \in Kernels /\ Push(j)
             \/ j \in Kernels /\ j > 1 /\ j < Sink /\ KernelRun(j)
             \/ j \in Kernels /\ j > 1 /\ KernelOver(j)
  <2>1. j \in 2 .. Sink - 1 => j > 1 /\ j < Sink
    BY <1>1
  <2>. QED  BY <1>2, <2>1, Zenon DEF Kernel
<1>3. CASE \E j \in 1 .. 4 : Kernel(j)
  BY <1>2, <1>3, Zenon
<1>. QED
  BY <1>3, Zenon DEF PipelineNext, Step, Ended

LEMMA TotalNow == Total = SumOf(bench.counts)
BY Zenon DEF Total, SumOf

LEMMA TotalNext == (Total = SumOf(bench.counts))'
BY TotalNow, PTL

LEMMA TotalIs == Total = SumOf(bench.counts) /\ Total' = SumOf(bench'.counts)
BY TotalNow, TotalNext

\* The counting of a program, when nothing of it changes.
LEMMA CountStutters ==
    ASSUME CountInv, UNCHANGED <<conf, bench, taken, returned>>
    PROVE  CountInv'
<1>1. Total' = Total /\ Counting' = Counting
  <2>1. Total' = Total
    BY TotalIs
  <2>. QED  BY <2>1 DEF Counting
<1>. QED
  BY <1>1 DEF CountInv

LEMMA BatchesStutter ==
    ASSUME BatchesInv, UNCHANGED <<conf, file, rd, queue, held, taken>>
    PROVE  BatchesInv'
BY DEF BatchesInv, Batches

\* The reader, and the end of the kernels.
LEMMA ReaderRunInv ==
    ASSUME BenchInv, ReaderRun
    PROVE  BenchInv'
<1>1. /\ held[1] = <<>> /\ rd < Len(file)
      /\ UNCHANGED <<conf, file, queue, maps, over, taken, bench, returned>>
  BY DEF ReaderRun
<1>2. /\ Kernels' = Kernels /\ Sink' = Sink /\ Kernels = 1 .. Sink /\ Sink \in 2 .. 4
      /\ conf.batch \in Nat
  BY <1>1, ChainLength DEF Kernels, Sink, BenchInv, PipelineTypes
<1>3. PICK x : held' = [held EXCEPT ![1] = <<x>>]
  <2>1. CASE conf.batch > 0
    BY <2>1 DEF ReaderRun
  <2>2. CASE ~(conf.batch > 0)
    BY <2>2 DEF ReaderRun
  <2>. QED  BY <2>1, <2>2
<1>4. rd' \in 0 .. Len(file) /\ Len(file) \in Nat
  <2>1. rd \in 0 .. Len(file) /\ Len(file) \in Nat
    BY DEF BenchInv, PipelineTypes
  <2>2. CASE conf.batch > 0
    BY <1>1, <1>2, <2>1, <2>2 DEF ReaderRun
  <2>3. CASE ~(conf.batch > 0)
    BY <1>1, <2>1, <2>3 DEF ReaderRun
  <2>. QED  BY <2>2, <2>3
<1>5. /\ DOMAIN held' = DOMAIN held /\ held'[1] = <<x>>
      /\ \A j \in Kernels : j # 1 => held'[j] = held[j]
      /\ Plain(held'[1]) /\ Len(held'[1]) = 1
  <2>1. DOMAIN held = 1 .. Sink
    BY <1>2 DEF BenchInv, PipelineTypes
  <2>2. 1 \in DOMAIN held
    BY <1>2, <2>1
  <2>. QED  BY <1>2, <1>3, <2>1, <2>2, PlainOne
<1>6. ~over[1]
  <2>1. over[1] => rd = Len(file)
    BY DEF BenchInv, OverInv
  <2>2. rd \in Int /\ Len(file) \in Int
    BY DEF BenchInv, PipelineTypes
  <2>. QED  BY <1>1, <2>1, <2>2
<1>7. PipelineTypes'
  BY <1>1, <1>2, <1>4, <1>5 DEF BenchInv, PipelineTypes
<1>8. OverInv'
  BY <1>1, <1>2, <1>5, <1>6 DEF BenchInv, OverInv
<1>9. CountInv'
  BY <1>1, CountStutters DEF BenchInv
<1>10. BatchesInv'
  <2>. SUFFICES ASSUME conf.batch > 0
                PROVE  /\ rd' < Len(file) => rd' = Batches' * conf.batch
                       /\ rd' = Len(file) =>
                             Batches' * conf.batch - Len(file) \in 0 .. conf.batch - 1
    BY <1>1 DEF BatchesInv
  <2>1. Plain(queue[1]) /\ Plain(taken)
    BY DEF BenchInv, PipelineTypes
  <2>2. Len(queue[1]) \in Nat /\ Len(taken) \in Nat
    BY <2>1, PlainAppend
  <2>3. PICK b \in Nat : b = Batches /\ Batches' = b + 1
    <3>1. Batches = 0 + Len(queue[1]) + Len(taken)
      BY <1>1, PlainEmpty DEF Batches
    <3>2. Batches' = 1 + Len(queue[1]) + Len(taken)
      BY <1>1, <1>5 DEF Batches
    <3>. QED  BY <2>2, <3>1, <3>2
  <2>4. rd = b * conf.batch
    BY <1>1, <2>3 DEF BenchInv, BatchesInv
  <2>5. PICK c \in Nat : c = conf.batch
    BY <1>2
  <2>6. PICK f \in Nat : f = Len(file)
    BY <1>4
  <2>7. (b + 1) * c = rd + c /\ rd \in Nat
    BY <2>4, <2>5 DEF BenchInv, PipelineTypes
  <2>8. rd' = IF rd + c < f THEN rd + c ELSE f
    BY <2>5, <2>6 DEF ReaderRun
  <2>9. PICK m : m = (b + 1) * c
    OBVIOUS
  <2>10. rd' < f => rd' = m
    BY <2>7, <2>8, <2>9
  <2>11. rd' = f => m - f \in 0 .. c - 1
    BY <1>1, <2>6, <2>7, <2>8, <2>9
  <2>. QED  BY <2>3, <2>5, <2>6, <2>9, <2>10, <2>11
<1>. QED
  BY <1>7, <1>8, <1>9, <1>10 DEF BenchInv

LEMMA ReaderStopInv ==
    ASSUME BenchInv, ReaderStop
    PROVE  BenchInv'
<1>1. /\ held[1] = <<>> /\ rd = Len(file) /\ ~over[1]
      /\ over' = [over EXCEPT ![1] = TRUE]
      /\ UNCHANGED <<conf, file, rd, queue, held, maps, taken, bench, returned>>
  BY DEF ReaderStop
<1>2. /\ Kernels' = Kernels /\ Sink' = Sink /\ Kernels = 1 .. Sink /\ Sink \in 2 .. 4
  BY <1>1, ChainLength DEF Kernels, Sink, BenchInv, PipelineTypes
<1>3. DOMAIN over' = DOMAIN over /\ \A j \in Kernels : over'[j] = (IF j = 1 THEN TRUE ELSE over[j])
  BY <1>1, <1>2 DEF BenchInv, PipelineTypes
<1>4. /\ 1 \in Kernels /\ Sink \in Kernels /\ Sink # 1
      /\ \A j, l \in Kernels : j = l + 1 => j # 1
  BY <1>2
<1>5. PipelineTypes'
  BY <1>1, <1>2, <1>3 DEF BenchInv, PipelineTypes
<1>6. OverInv'
  <2>1. over'[1] => rd' = Len(file')
    BY <1>1
  <2>2. \A j \in Kernels' : over'[j] => held'[j] = <<>>
    BY <1>1, <1>2, <1>3 DEF BenchInv, OverInv
  <2>3. \A j, l \in Kernels' : j = l + 1 /\ over'[j] => over'[l] /\ queue'[l] = <<>>
    BY <1>1, <1>2, <1>3, <1>4 DEF BenchInv, OverInv
  <2>4. over'[Sink'] = over[Sink]
    BY <1>2, <1>3, <1>4
  <2>. QED  BY <1>1, <2>1, <2>2, <2>3, <2>4 DEF BenchInv, OverInv
<1>7. CountInv' /\ BatchesInv'
  BY <1>1, CountStutters, BatchesStutter DEF BenchInv
<1>. QED
  BY <1>5, <1>6, <1>7 DEF BenchInv

LEMMA KernelOverInv ==
    ASSUME BenchInv, NEW k \in Kernels, k > 1, KernelOver(k)
    PROVE  BenchInv'
<1>1. /\ over[k - 1] /\ ~over[k] /\ queue[k - 1] = <<>> /\ held[k] = <<>>
      /\ k = Sink => bench.loaded = -1
      /\ over' = [over EXCEPT ![k] = TRUE]
      /\ UNCHANGED <<conf, file, rd, queue, held, maps, taken, bench, returned>>
  BY DEF KernelOver, Input
<1>2. /\ Kernels' = Kernels /\ Sink' = Sink /\ Kernels = 1 .. Sink /\ Sink \in 2 .. 4
  BY <1>1, ChainLength DEF Kernels, Sink, BenchInv, PipelineTypes
<1>3. DOMAIN over' = DOMAIN over /\ \A j \in Kernels : over'[j] = (IF j = k THEN TRUE ELSE over[j])
  BY <1>1, <1>2 DEF BenchInv, PipelineTypes
<1>4. /\ 1 \in Kernels /\ Sink \in Kernels /\ k # 1
      /\ \A l \in Kernels : k = l + 1 => l = k - 1
      /\ \A j, l \in Kernels : j = l + 1 => j # l
  BY <1>2
<1>5. PipelineTypes'
  BY <1>1, <1>2, <1>3 DEF BenchInv, PipelineTypes
<1>6. OverInv'
  <2>1. over'[1] => rd' = Len(file')
    BY <1>1, <1>3, <1>4 DEF BenchInv, OverInv
  <2>2. \A j \in Kernels' : over'[j] => held'[j] = <<>>
    BY <1>1, <1>2, <1>3 DEF BenchInv, OverInv
  <2>3. ASSUME NEW j \in Kernels, NEW l \in Kernels, j = l + 1, over'[j]
        PROVE  over'[l] /\ queue'[l] = <<>>
    <3>1. CASE j = k
      BY <1>1, <1>3, <1>4, <2>3, <3>1
    <3>2. CASE j # k
      <4>1. over[j]
        BY <1>3, <2>3, <3>2
      <4>2. over[l] /\ queue[l] = <<>>
        BY <2>3, <4>1 DEF BenchInv, OverInv
      <4>. QED  BY <1>1, <1>3, <4>2
    <3>. QED  BY <3>1, <3>2
  <2>4. over'[Sink'] => bench'.loaded = -1
    BY <1>1, <1>2, <1>3, <1>4 DEF BenchInv, OverInv
  <2>5. returned' => over'[Sink']
    BY <1>1, <1>2, <1>3, <1>4 DEF BenchInv, OverInv
  <2>. QED  BY <1>2, <2>1, <2>2, <2>3, <2>4, <2>5 DEF OverInv
<1>7. CountInv' /\ BatchesInv'
  BY <1>1, CountStutters, BatchesStutter DEF BenchInv
<1>. QED
  BY <1>5, <1>6, <1>7 DEF BenchInv

\* Objects move.
LEMMA PushInv ==
    ASSUME BenchInv, NEW k \in Kernels, Push(k)
    PROVE  BenchInv'
<1>1. /\ held[k] # <<>>
      /\ queue' = [queue EXCEPT ![k] = queue[k] \o held[k]]
      /\ held' = [held EXCEPT ![k] = <<>>]
      /\ UNCHANGED <<conf, file, rd, maps, over, taken, bench, returned>>
  BY DEF Push
<1>2. /\ Kernels' = Kernels /\ Sink' = Sink /\ Kernels = 1 .. Sink /\ Sink \in 2 .. 4
  BY <1>1, ChainLength DEF Kernels, Sink, BenchInv, PipelineTypes
<1>3. /\ DOMAIN queue' = Kernels /\ DOMAIN held' = Kernels
      /\ \A j \in Kernels : held'[j] = IF j = k THEN <<>> ELSE held[j]
      /\ \A j \in Kernels : queue'[j] = IF j = k THEN queue[k] \o held[k] ELSE queue[j]
  BY <1>1, <1>2 DEF BenchInv, PipelineTypes
<1>4. ~over[k] /\ \A j \in Kernels : j = k + 1 => ~over[j]
  BY <1>1 DEF BenchInv, OverInv
<1>5. 1 \in Kernels
  BY <1>2
<1>6. conf.batch > 0 =>
         /\ Plain(held'[1]) /\ Plain(queue'[1])
         /\ Len(held'[1]) + Len(queue'[1]) = Len(held[1]) + Len(queue[1])
  <2>. SUFFICES ASSUME conf.batch > 0
                PROVE  /\ Plain(held'[1]) /\ Plain(queue'[1])
                       /\ Len(held'[1]) + Len(queue'[1]) = Len(held[1]) + Len(queue[1])
    OBVIOUS
  <2>1. Plain(held[1]) /\ Plain(queue[1])
    BY DEF BenchInv, PipelineTypes
  <2>2. CASE k = 1
    <3>1. held'[1] = <<>> /\ queue'[1] = queue[1] \o held[1]
      BY <1>3, <1>5, <2>2
    <3>2. /\ Plain(queue[1] \o held[1]) /\ Len(queue[1]) \in Nat /\ Len(held[1]) \in Nat
          /\ Len(queue[1] \o held[1]) = Len(queue[1]) + Len(held[1])
      BY <2>1, PlainConcat
    <3>3. PICK e : e = held'[1]
      OBVIOUS
    <3>4. Plain(e) /\ Len(e) = 0
      BY <3>1, <3>3, PlainEmpty
    <3>5. PICK c : c = queue[1] \o held[1]
      OBVIOUS
    <3>6. PICK m, n \in Nat : m = Len(queue[1]) /\ n = Len(held[1])
      BY <3>2
    <3>7. Plain(c) /\ Len(c) = m + n
      BY <3>2, <3>5, <3>6
    <3>8. PICK u, v : u = Len(e) /\ v = Len(c)
      OBVIOUS
    <3>9. u = 0 /\ v = m + n
      BY <3>4, <3>7, <3>8, Zenon
    <3>10. u + v = n + m
      BY <3>9
    <3>. QED  BY <3>1, <3>3, <3>4, <3>5, <3>6, <3>7, <3>8, <3>10, Zenon
  <2>3. CASE k # 1
    BY <1>3, <1>5, <2>1, <2>3
  <2>. QED  BY <2>2, <2>3
<1>7. PipelineTypes'
  BY <1>1, <1>2, <1>3, <1>6 DEF BenchInv, PipelineTypes
<1>8. OverInv'
  <2>1. \A j \in Kernels' : over'[j] => held'[j] = <<>>
    BY <1>1, <1>2, <1>3 DEF BenchInv, OverInv
  <2>2. ASSUME NEW j \in Kernels, NEW l \in Kernels, j = l + 1, over'[j]
        PROVE  over'[l] /\ queue'[l] = <<>>
    <3>1. l # k
      BY <1>1, <1>4, <2>2
    <3>2. over[l] /\ queue[l] = <<>>
      BY <1>1, <2>2 DEF BenchInv, OverInv
    <3>. QED  BY <1>1, <1>3, <3>1, <3>2
  <2>. QED  BY <1>1, <1>2, <2>1, <2>2 DEF BenchInv, OverInv
<1>9. CountInv'
  BY <1>1, CountStutters DEF BenchInv
<1>10. BatchesInv'
  <2>1. conf.batch > 0 => Batches' = Batches
    BY <1>1, <1>6 DEF Batches
  <2>. QED  BY <1>1, <2>1 DEF BenchInv, BatchesInv
<1>. QED
  BY <1>7, <1>8, <1>9, <1>10 DEF BenchInv

LEMMA KernelRunInv ==
    ASSUME BenchInv, NEW k \in Kernels, k > 1, k < Sink, KernelRun(k)
    PROVE  BenchInv'
<1>1. /\ queue[k - 1] # <<>>
      /\ UNCHANGED <<conf, file, rd, over, taken, bench, returned>>
      /\ \E h, q : held' = [held EXCEPT ![k] = h] /\ queue' = [queue EXCEPT ![k - 1] = q]
  BY Zenon DEF KernelRun, Input
<1>2. PICK h, q : held' = [held EXCEPT ![k] = h] /\ queue' = [queue EXCEPT ![k - 1] = q]
  BY <1>1
<1>3. /\ Kernels' = Kernels /\ Sink' = Sink /\ Kernels = 1 .. Sink /\ Sink \in 2 .. 4
      /\ conf.batch > 0 => Sink = 2
  BY <1>1, ChainLength DEF Kernels, Sink, BenchInv, PipelineTypes
<1>4. ~(conf.batch > 0)
  BY <1>3
<1>5. PICK p \in Kernels : p = k - 1 /\ k = p + 1
  BY <1>3
<1>6. /\ DOMAIN queue' = Kernels /\ DOMAIN held' = Kernels
      /\ \A j \in Kernels : j # k => held'[j] = held[j]
      /\ \A j \in Kernels : j # p => queue'[j] = queue[j]
  BY <1>2, <1>3, <1>5 DEF BenchInv, PipelineTypes
<1>7. ~over[k] /\ \A j \in Kernels : j = p + 1 => j = k
  BY <1>1, <1>3, <1>5 DEF BenchInv, OverInv
<1>8. PipelineTypes'
  BY <1>1, <1>3, <1>4, <1>6 DEF BenchInv, PipelineTypes
<1>9. OverInv'
  <2>1. \A j \in Kernels' : over'[j] => held'[j] = <<>>
    BY <1>1, <1>3, <1>6, <1>7 DEF BenchInv, OverInv
  <2>2. ASSUME NEW j \in Kernels, NEW l \in Kernels, j = l + 1, over'[j]
        PROVE  over'[l] /\ queue'[l] = <<>>
    <3>1. l # p
      BY <1>1, <1>7, <2>2
    <3>2. over[l] /\ queue[l] = <<>>
      BY <1>1, <2>2 DEF BenchInv, OverInv
    <3>. QED  BY <1>1, <1>6, <3>1, <3>2
  <2>. QED  BY <1>1, <1>3, <2>1, <2>2 DEF BenchInv, OverInv
<1>10. CountInv'
  BY <1>1, CountStutters DEF BenchInv
<1>11. BatchesInv'
  BY <1>1, <1>4 DEF BatchesInv
<1>. QED
  BY <1>8, <1>9, <1>10, <1>11 DEF BenchInv

\* What an object taken by the last kernel leaves to be shown.
LEMMA SinkPopsInv ==
    ASSUME BenchInv, SinkPops,
           bench' \in [counts : Seq(Nat), current : Nat, loaded : Nat \cup {-1}]
    PROVE  /\ PipelineTypes' /\ OverInv' /\ BatchesInv'
           /\ conf' = conf /\ returned' = returned /\ ~returned
           /\ Len(taken) \in Nat /\ Len(taken') = Len(taken) + 1
<1>1. /\ queue[Sink - 1] # <<>>
      /\ queue' = [queue EXCEPT ![Sink - 1] = Tail(queue[Sink - 1])]
      /\ taken' = Append(taken, Head(queue[Sink - 1]))
      /\ UNCHANGED <<conf, file, rd, held, maps, over, returned>>
  BY DEF SinkPops, Input
<1>2. /\ Kernels' = Kernels /\ Sink' = Sink /\ Kernels = 1 .. Sink /\ Sink \in 2 .. 4
      /\ conf.batch > 0 => Sink = 2
  BY <1>1, ChainLength DEF Kernels, Sink, BenchInv, PipelineTypes
<1>3. PICK n \in Kernels : n = Sink
  BY <1>2
<1>4. PICK p \in Kernels : p = n - 1 /\ n = p + 1 /\ (conf.batch > 0 => p = 1)
  BY <1>2, <1>3
<1>5. /\ DOMAIN queue' = Kernels
      /\ \A j \in Kernels : queue'[j] = IF j = p THEN Tail(queue[p]) ELSE queue[j]
  BY <1>1, <1>2, <1>3, <1>4 DEF BenchInv, PipelineTypes
<1>6. ~over[n] /\ ~returned
  BY <1>1, <1>3, <1>4 DEF BenchInv, OverInv
<1>7. Plain(taken') /\ Len(taken) \in Nat /\ Len(taken') = Len(taken) + 1
  BY <1>1, PlainAppend DEF BenchInv, PipelineTypes
<1>8. conf.batch > 0 =>
         /\ Plain(queue'[1]) /\ Len(queue[1]) \in Nat /\ Len(queue'[1]) = Len(queue[1]) - 1
  <2>. SUFFICES ASSUME conf.batch > 0
                PROVE  /\ Plain(queue'[1]) /\ Len(queue[1]) \in Nat
                       /\ Len(queue'[1]) = Len(queue[1]) - 1
    OBVIOUS
  <2>1. Plain(queue[1]) /\ queue[1] # <<>> /\ queue'[1] = Tail(queue[1])
    BY <1>1, <1>3, <1>4, <1>5 DEF BenchInv, PipelineTypes
  <2>. QED  BY <2>1, PlainTail
<1>9. PipelineTypes'
  BY <1>1, <1>2, <1>5, <1>7, <1>8 DEF BenchInv, PipelineTypes
<1>10. OverInv'
  <2>1. \A j \in Kernels' : over'[j] => held'[j] = <<>>
    BY <1>1, <1>2 DEF BenchInv, OverInv
  <2>2. ASSUME NEW j \in Kernels, NEW l \in Kernels, j = l + 1, over'[j]
        PROVE  over'[l] /\ queue'[l] = <<>>
    <3>1. l # p
      BY <1>1, <1>4, <1>6, <2>2
    <3>2. over[l] /\ queue[l] = <<>>
      BY <1>1, <2>2 DEF BenchInv, OverInv
    <3>. QED  BY <1>1, <1>5, <3>1, <3>2
  <2>3. ~over'[Sink'] /\ ~returned'
    BY <1>1, <1>2, <1>3, <1>6
  <2>. QED  BY <1>1, <1>2, <2>1, <2>2, <2>3 DEF BenchInv, OverInv
<1>11. BatchesInv'
  <2>1. ASSUME conf.batch > 0 PROVE Batches' = Batches
    <3>1. Len(held[1]) \in Nat /\ held' = held
      BY <1>1, <2>1, PlainAppend DEF BenchInv, PipelineTypes
    <3>2. PICK a, b, c \in Nat : a = Len(held[1]) /\ b = Len(queue[1]) /\ c = Len(taken)
      BY <1>7, <1>8, <2>1, <3>1
    <3>3. Batches = a + b + c
      BY <3>2 DEF Batches
    <3>4. Len(held'[1]) = a /\ Len(queue'[1]) = b - 1 /\ Len(taken') = c + 1
      BY <1>7, <1>8, <2>1, <3>1, <3>2
    <3>5. Batches' = a + (b - 1) + (c + 1)
      BY <3>4 DEF Batches
    <3>. QED  BY <3>3, <3>5
  <2>. QED  BY <1>1, <2>1 DEF BenchInv, BatchesInv
<1>. QED
  BY <1>1, <1>6, <1>7, <1>9, <1>10, <1>11

\* Objects are counted.
LEMMA PrinterRunInv ==
    ASSUME BenchInv, PrinterRun
    PROVE  BenchInv'
<1>1. SinkPops /\ bench' = bench /\ ~conf.benchmark
  BY DEF PrinterRun
<1>2. bench' \in [counts : Seq(Nat), current : Nat, loaded : Nat \cup {-1}]
  BY <1>1 DEF BenchInv, PipelineTypes
<1>3. PipelineTypes' /\ OverInv' /\ BatchesInv' /\ conf' = conf
  BY <1>1, <1>2, SinkPopsInv
<1>4. CountInv'
  BY <1>1, <1>3 DEF BenchInv, CountInv
<1>. QED
  BY <1>3, <1>4 DEF BenchInv

LEMMA BenchmarkRunInv ==
    ASSUME BenchInv, BenchmarkRun
    PROVE  BenchInv'
<1>1. /\ conf.benchmark /\ bench.loaded = -1 /\ SinkPops
      /\ \E lapsed \in BOOLEAN : bench' = Interval(lapsed)
  BY DEF BenchmarkRun
<1>2. PICK lapsed \in BOOLEAN : bench' = Interval(lapsed)
  BY <1>1
<1>3. PICK c \in Seq(Nat) : c = bench.counts
  BY DEF BenchInv, PipelineTypes
<1>4. PICK n \in Nat : n = bench.current
  BY DEF BenchInv, PipelineTypes
<1>5. PICK s \in Nat : s = SumOf(c)
  BY SumOfAppend
<1>6. PICK m \in Nat : /\ bench'.current = m /\ bench'.loaded = m
                       /\ bench'.counts \in Seq(Nat) /\ SumOf(bench'.counts) + m = s + n
                       /\ bench' \in [counts : Seq(Nat), current : Nat, loaded : Nat \cup {-1}]
  <2>1. CASE lapsed
    <3>1. bench' = [counts |-> Append(c, n), current |-> 0, loaded |-> 0]
      BY <1>2, <1>3, <1>4, <2>1 DEF Interval
    <3>2. Append(c, n) \in Seq(Nat) /\ SumOf(Append(c, n)) = s + n
      BY <1>5, SumOfAppend
    <3>. QED  BY <3>1, <3>2
  <2>2. CASE ~lapsed
    <3>1. bench' = [counts |-> c, current |-> n, loaded |-> n]
      BY <1>2, <1>3, <1>4, <2>2 DEF Interval
    <3>. QED  BY <1>5, <3>1
  <2>. QED  BY <2>1, <2>2
<1>7. /\ PipelineTypes' /\ OverInv' /\ BatchesInv' /\ conf' = conf
      /\ returned' = returned /\ ~returned
      /\ Len(taken) \in Nat /\ Len(taken') = Len(taken) + 1
  BY <1>1, <1>6, SinkPopsInv
<1>8. PICK l \in Nat : l = Len(taken) /\ Len(taken') = l + 1
  BY <1>7
<1>9. Total = s /\ Counting = n
  BY <1>1, <1>3, <1>4, <1>5, <1>7, TotalIs DEF Counting
<1>10. IF conf.timer THEN s + n <= l ELSE s + n = l
  BY <1>1, <1>8, <1>9 DEF BenchInv, CountInv
<1>11. PICK t : t = SumOf(bench'.counts)
  OBVIOUS
<1>12. t \in Nat
  BY <1>6, <1>11, SumOfAppend
<1>13. Total' = t /\ Counting' = m + 1 /\ t + m = s + n
  <2>1. m # -1
    OBVIOUS
  <2>. QED  BY <1>6, <1>7, <1>11, <2>1, TotalIs DEF Counting
<1>14. IF conf.timer THEN t + (m + 1) <= l + 1 ELSE t + (m + 1) = l + 1
  BY <1>10, <1>12, <1>13
<1>15. CountInv'
  BY <1>6, <1>7, <1>8, <1>13, <1>14 DEF CountInv
<1>. QED
  BY <1>7, <1>15 DEF BenchInv

LEMMA BenchmarkStoresInv ==
    ASSUME BenchInv, BenchmarkStores
    PROVE  BenchInv'
<1>1. /\ bench.loaded # -1
      /\ bench' = [bench EXCEPT !.current = bench.loaded + 1, !.loaded = -1]
      /\ UNCHANGED <<conf, file, rd, queue, held, maps, over, taken, returned>>
  BY DEF BenchmarkStores
<1>2. PICK n \in Nat : n = bench.loaded
  BY <1>1 DEF BenchInv, PipelineTypes
<1>3. /\ bench'.counts = bench.counts /\ bench'.current = n + 1 /\ bench'.loaded = -1
      /\ bench' \in [counts : Seq(Nat), current : Nat, loaded : Nat \cup {-1}]
  <2>1. bench \in [counts : Seq(Nat), current : Nat, loaded : Nat \cup {-1}]
    BY DEF BenchInv, PipelineTypes
  <2>2. bench' = [counts |-> bench.counts, current |-> n + 1, loaded |-> -1]
    BY <1>1, <1>2, <2>1
  <2>3. bench.counts \in Seq(Nat) /\ n + 1 \in Nat
    BY <2>1
  <2>. QED  BY <2>2, <2>3
<1>4. PipelineTypes'
  BY <1>1, <1>3 DEF BenchInv, PipelineTypes, Kernels
<1>5. OverInv'
  BY <1>1, <1>3 DEF BenchInv, OverInv, Kernels, Sink
<1>6. ~returned
  BY <1>1 DEF BenchInv, OverInv
<1>7. Total' = Total /\ Counting' = Counting
  <2>1. Counting = n + 1
    BY <1>1, <1>2, <1>6 DEF Counting
  <2>2. Counting' = n + 1
    BY <1>1, <1>3, <1>6 DEF Counting
  <2>. QED  BY <1>3, <2>1, <2>2, TotalIs
<1>8. CountInv'
  BY <1>1, <1>3, <1>7 DEF BenchInv, CountInv
<1>9. BatchesInv'
  BY <1>1, BatchesStutter DEF BenchInv
<1>. QED
  BY <1>4, <1>5, <1>8, <1>9 DEF BenchInv

LEMMA TickInv ==
    ASSUME BenchInv, Tick
    PROVE  BenchInv'
<1>1. /\ conf.timer /\ bench' = [bench EXCEPT !.current = 0]
      /\ UNCHANGED <<conf, file, rd, queue, held, maps, over, taken, returned>>
  BY DEF Tick
<1>2. PICK n, m : n = bench.current /\ m = bench.loaded
  OBVIOUS
<1>3. /\ bench'.counts = bench.counts /\ bench'.current = 0 /\ bench'.loaded = m
      /\ bench' \in [counts : Seq(Nat), current : Nat, loaded : Nat \cup {-1}]
      /\ n \in Nat /\ m \in Nat \cup {-1} /\ bench.counts \in Seq(Nat)
  <2>1. bench \in [counts : Seq(Nat), current : Nat, loaded : Nat \cup {-1}]
    BY DEF BenchInv, PipelineTypes
  <2>. QED  BY <1>1, <1>2, <2>1
<1>4. PipelineTypes'
  BY <1>1, <1>3 DEF BenchInv, PipelineTypes, Kernels
<1>5. OverInv'
  BY <1>1, <1>2, <1>3 DEF BenchInv, OverInv, Kernels, Sink
<1>6. Plain(taken)
  BY DEF BenchInv, PipelineTypes
<1>7. PICK l \in Nat : l = Len(taken)
  BY <1>6, PlainAppend
<1>8. PICK t \in Nat : t = Total
  <2>1. SumOf(bench.counts) \in Nat
    BY <1>3, SumOfAppend
  <2>. QED  BY <2>1, TotalIs
<1>9. Total' = t
  BY <1>3, <1>8, TotalIs
<1>10. PICK k : k = Counting
  OBVIOUS
<1>11. PICK j : j = Counting'
  OBVIOUS
<1>12. k \in Nat /\ j \in Nat /\ j <= k
  <2>1. k = IF returned THEN 0 ELSE IF m = -1 THEN n ELSE m + 1
    BY <1>2, <1>10 DEF Counting
  <2>2. j = IF returned THEN 0 ELSE IF m = -1 THEN 0 ELSE m + 1
    BY <1>1, <1>3, <1>11 DEF Counting
  <2>. QED  BY <1>3, <2>1, <2>2
<1>13. CountInv'
  <2>1. conf.benchmark => t + k <= l
    BY <1>1, <1>7, <1>8, <1>10 DEF BenchInv, CountInv
  <2>2. conf.benchmark => t + j <= l
    BY <1>12, <2>1
  <2>3. m # -1 => 0 <= m
    BY <1>3
  <2>. QED  BY <1>1, <1>3, <1>7, <1>9, <1>11, <2>2, <2>3 DEF CountInv
<1>14. BatchesInv'
  BY <1>1, BatchesStutter DEF BenchInv
<1>. QED
  BY <1>4, <1>5, <1>13, <1>14 DEF BenchInv

LEMMA ReturnInv ==
    ASSUME BenchInv, Return
    PROVE  BenchInv'
<1>1. /\ over[Sink] /\ ~returned /\ returned' = TRUE
      /\ bench' = [bench EXCEPT !.counts = Append(bench.counts, bench.current)]
      /\ UNCHANGED <<conf, file, rd, queue, held, maps, over, taken>>
  BY DEF Return
<1>2. PICK c \in Seq(Nat) : c = bench.counts
  BY DEF BenchInv, PipelineTypes
<1>3. PICK n \in Nat : n = bench.current
  BY DEF BenchInv, PipelineTypes
<1>4. bench.loaded = -1
  BY <1>1 DEF BenchInv, OverInv
<1>5. PICK d : d = Append(c, n)
  OBVIOUS
<1>6. /\ d \in Seq(Nat) /\ SumOf(c) \in Nat /\ SumOf(d) = SumOf(c) + n
  BY <1>5, SumOfAppend
<1>7. /\ bench'.counts = d /\ bench'.current = n /\ bench'.loaded = -1
      /\ bench' \in [counts : Seq(Nat), current : Nat, loaded : Nat \cup {-1}]
  <2>1. bench \in [counts : Seq(Nat), current : Nat, loaded : Nat \cup {-1}]
    BY DEF BenchInv, PipelineTypes
  <2>. QED  BY <1>1, <1>2, <1>3, <1>4, <1>5, <1>6, <2>1
<1>8. PipelineTypes'
  BY <1>1, <1>7 DEF BenchInv, PipelineTypes, Kernels
<1>9. OverInv'
  BY <1>1, <1>7 DEF BenchInv, OverInv, Kernels, Sink
<1>10. Total + Counting = Total' + Counting'
  <2>1. Total = SumOf(c) /\ Counting = n
    BY <1>1, <1>2, <1>3, <1>4, TotalIs DEF Counting
  <2>2. Total' = SumOf(d) /\ Counting' = 0
    BY <1>1, <1>7, TotalIs DEF Counting
  <2>3. SumOf(d) + 0 = SumOf(c) + n
    BY <1>6
  <2>. QED  BY <2>1, <2>2, <2>3
<1>11. CountInv'
  BY <1>1, <1>7, <1>10 DEF BenchInv, CountInv
<1>12. BatchesInv'
  BY <1>1, BatchesStutter DEF BenchInv
<1>. QED
  BY <1>8, <1>9, <1>11, <1>12 DEF BenchInv

LEMMA InitBenchInv == PipelineInit => BenchInv
<1>. SUFFICES ASSUME PipelineInit PROVE BenchInv
  OBVIOUS
<1>1. /\ conf \in Confs /\ rd = 0 /\ taken = <<>> /\ returned = FALSE
      /\ queue = [q \in Kernels |-> <<>>] /\ held = [q \in Kernels |-> <<>>]
      /\ over = [q \in Kernels |-> FALSE]
      /\ bench = [counts |-> <<>>, current |-> 0, loaded |-> -1]
      /\ \E m \in 1 .. MaxFile : file \in [1 .. m -> Records]
  BY DEF PipelineInit
<1>2. PICK m \in 1 .. MaxFile : file \in [1 .. m -> Records]
  BY <1>1
<1>3. Len(file) \in Nat \ {0}
  BY <1>2, PipelineAssumption
<1>4. /\ Kernels = 1 .. Sink /\ Sink \in 2 .. 4 /\ conf.batch \in Nat
      /\ 1 \in Kernels /\ Sink \in Kernels
  BY <1>1, ChainLength
<1>5. <<>> \in Seq(Nat) /\ Plain(<<>>) /\ Len(<<>>) = 0
  BY EmptySeq, PlainEmpty
<1>6. PipelineTypes
  <2>1. bench \in [counts : Seq(Nat), current : Nat, loaded : Nat \cup {-1}]
    BY <1>1, <1>5
  <2>2. held[1] = <<>> /\ queue[1] = <<>>
    BY <1>1, <1>4
  <2>3. /\ DOMAIN queue = Kernels /\ DOMAIN held = Kernels /\ DOMAIN over = Kernels
        /\ \A j \in Kernels : over[j] \in BOOLEAN
    BY <1>1
  <2>4. rd \in 0 .. Len(file)
    BY <1>1, <1>3
  <2>5. Plain(taken) /\ returned \in BOOLEAN /\ Plain(held[1]) /\ Plain(queue[1])
    BY <1>1, <1>5, <2>2
  <2>. QED  BY <1>1, <1>3, <2>1, <2>3, <2>4, <2>5 DEF PipelineTypes
<1>7. OverInv
  BY <1>1, <1>4 DEF OverInv
<1>8. CountInv
  <2>1. Total = 0 /\ Counting = 0 /\ Len(taken) = 0
    BY <1>1, <1>5, TotalNow, SumOfEmpty DEF Counting
  <2>2. bench.loaded = -1
    BY <1>1
  <2>. QED  BY <2>1, <2>2 DEF CountInv
<1>9. BatchesInv
  <2>1. held[1] = <<>> /\ queue[1] = <<>>
    BY <1>1, <1>4
  <2>2. Batches = 0
    BY <1>1, <1>5, <2>1 DEF Batches
  <2>. QED  BY <1>1, <1>3, <1>4, <2>2 DEF BatchesInv
<1>. QED
  BY <1>6, <1>7, <1>8, <1>9 DEF BenchInv

LEMMA NextBenchInv == BenchInv /\ [PipelineNext]_pipeline_vars => BenchInv'
<1>. SUFFICES ASSUME BenchInv, [PipelineNext]_pipeline_vars PROVE BenchInv'
  OBVIOUS
<1>1. \/ ReaderRun \/ ReaderStop \/ PrinterRun \/ BenchmarkRun \/ BenchmarkStores
      \/ Return \/ Tick \/ UNCHANGED pipeline_vars
      \/ \E j \in Kernels : \/ Push(j)
                            \/ j > 1 /\ j < Sink /\ KernelRun(j)
                            \/ j > 1 /\ KernelOver(j)
  BY PipelineSteps DEF BenchInv, PipelineTypes
<1>2. ASSUME UNCHANGED pipeline_vars PROVE BenchInv'
  <2>1. PipelineTypes' /\ OverInv'
    BY <1>2 DEF BenchInv, PipelineTypes, OverInv, Kernels, Sink, pipeline_vars
  <2>2. CountInv' /\ BatchesInv'
    BY <1>2, CountStutters, BatchesStutter DEF BenchInv, pipeline_vars
  <2>. QED  BY <2>1, <2>2 DEF BenchInv
<1>3. ASSUME NEW j \in Kernels, \/ Push(j)
                                \/ j > 1 /\ j < Sink /\ KernelRun(j)
                                \/ j > 1 /\ KernelOver(j)
      PROVE  BenchInv'
  BY <1>3, PushInv, KernelRunInv, KernelOverInv
<1>. QED
  BY <1>1, <1>2, <1>3, ReaderRunInv, ReaderStopInv, PrinterRunInv, BenchmarkRunInv,
     BenchmarkStoresInv, ReturnInv, TickInv

\* At the end nothing is under way.
LEMMA BenchInvImplies == BenchInv => BenchmarkCounts
<1>. SUFFICES ASSUME BenchInv, returned, conf.benchmark
              PROVE  /\ IF conf.timer THEN Total <= Len(taken) ELSE Total = Len(taken)
                     /\ conf.batch > 0 =>
                          Len(taken) * conf.batch - Len(file) \in 0 .. conf.batch - 1
  BY DEF BenchmarkCounts
<1>1. Total \in Nat
  <2>1. SumOf(bench.counts) \in Nat
    BY SumOfAppend DEF BenchInv, PipelineTypes
  <2>. QED  BY <2>1, TotalIs
<1>2. IF conf.timer THEN Total <= Len(taken) ELSE Total = Len(taken)
  BY <1>1 DEF BenchInv, CountInv, Counting
<1>3. ASSUME conf.batch > 0
      PROVE  Len(taken) * conf.batch - Len(file) \in 0 .. conf.batch - 1
  <2>1. Sink = 2 /\ Kernels = 1 .. 2
    BY <1>3, ChainLength DEF BenchInv, PipelineTypes
  <2>2. PICK j, l \in Kernels : j = 2 /\ l = 1
    BY <2>1
  <2>3. over[j] /\ j = l + 1
    BY <2>1, <2>2 DEF BenchInv, OverInv
  <2>4. over[l] /\ queue[l] = <<>>
    BY <2>3 DEF BenchInv, OverInv
  <2>5. rd = Len(file) /\ queue[1] = <<>> /\ held[1] = <<>>
    BY <2>2, <2>4 DEF BenchInv, OverInv
  <2>6. Plain(taken)
    BY DEF BenchInv, PipelineTypes
  <2>7. PICK t \in Nat : t = Len(taken)
    BY <2>6, PlainAppend
  <2>8. Batches = t
    <3>1. Batches = 0 + 0 + t
      BY <2>5, <2>7, PlainEmpty DEF Batches
    <3>. QED  BY <3>1
  <2>. QED  BY <1>3, <2>5, <2>7, <2>8 DEF BenchInv, BatchesInv
<1>. QED
  BY <1>2, <1>3

\* Whatever program is run on whatever file, with streams of any size and in
\* whatever moments the intervals end: the total that the benchmark prints is
\* the number of objects, or of batches that the file fills, that it popped;
\* with the timer it is at most that.
THEOREM AllObjectsCounted == PipelineSpec => []BenchmarkCounts
<1>. QED
  BY InitBenchInv, NextBenchInv, BenchInvImplies, PTL DEF PipelineSpec

-----------------------------------------------------------------------------
(***************************************************************************)
(* Packets and keys of a file                                              *)
(***************************************************************************)
\* A file of flow records.
IsFile(fl) == \E N \in Nat : fl \in [1 .. N -> Records]

\* Its records have packets.
LEMMA FileType ==
    ASSUME NEW fl, IsFile(fl)
    PROVE  /\ Len(fl) \in Nat /\ DOMAIN fl = 1 .. Len(fl)
           /\ \A m \in 1 .. Len(fl) : /\ fl[m] \in Records /\ fl[m].pkts \in Seq(Packet)
                                      /\ fl[m].pkts # <<>>
<1>1. PICK N \in Nat : fl \in [1 .. N -> Records]
  BY DEF IsFile
<1>2. fl \in Seq(Records) /\ Len(fl) = N
  <2>. HIDE DEF Packet
  <2>. QED  BY <1>1, IsASeq, LenProperties
<1>. QED
  <2>. HIDE DEF Packet
  <2>. QED  BY <1>1, <1>2, RecordsAssumption

\* What record m adds to the packets of k.
Own(fl, k, m) == IF fl[m].key = k THEN fl[m].pkts ELSE <<>>

\* The packets of a key grow from record to record.
LEMMA PacketsNone == ASSUME NEW fl, NEW k PROVE PacketsOf(fl, k, 0) = <<>>
<1>. DEFINE s == [m \in 1 .. 0 |-> IF fl[m].key = k THEN fl[m].pkts ELSE <<>>]
<1>1. s = <<>>
  OBVIOUS
<1>2. PacketsOf(fl, k, 0) = FlattenSeq(s)
  BY DEF PacketsOf
<1>. QED
  BY <1>1, <1>2, FlattenEmpty

LEMMA PacketsStep ==
    ASSUME NEW fl, IsFile(fl), NEW k, NEW n \in Nat, n + 1 \in 1 .. Len(fl)
    PROVE  /\ PacketsOf(fl, k, n) \in Seq(Packet)
           /\ Own(fl, k, n + 1) \in Seq(Packet)
           /\ PacketsOf(fl, k, n + 1) = PacketsOf(fl, k, n) \o Own(fl, k, n + 1)
<1>. HIDE DEF Packet
<1>. DEFINE s == [m \in 1 .. n |-> Own(fl, k, m)]
            t == [m \in 1 .. n + 1 |-> Own(fl, k, m)]
            b == Own(fl, k, n + 1)
<1>1. PacketsOf(fl, k, n) = FlattenSeq(s) /\ PacketsOf(fl, k, n + 1) = FlattenSeq(t)
  BY Zenon DEF PacketsOf, Own
<1>2. \A m \in 1 .. n + 1 : m \in 1 .. Len(fl) /\ Own(fl, k, m) \in Seq(Packet)
  <2>1. <<>> \in Seq(Packet)
    BY EmptySeq
  <2>. QED  BY <2>1, FileType DEF Own
<1>3. s \in Seq(Seq(Packet)) /\ Len(s) = n
  <2>1. s \in [1 .. n -> Seq(Packet)]
    BY <1>2
  <2>. HIDE DEF s
  <2>. QED  BY <2>1, IsASeq, LenProperties
<1>4. b \in Seq(Packet)
  BY <1>2
<1>5. t = Append(s, b)
  <2>. DEFINE N == n + 1
  <2>1. t \in [1 .. N -> Seq(Packet)] /\ N \in Nat
    BY <1>2
  <2>2. t \in Seq(Seq(Packet)) /\ Len(t) = N
    <3>. HIDE DEF t, N
    <3>. QED  BY <2>1, IsASeq, LenProperties
  <2>3. /\ Append(s, b) \in Seq(Seq(Packet)) /\ Len(Append(s, b)) = N
        /\ \A m \in 1 .. n : Append(s, b)[m] = s[m]
        /\ Append(s, b)[n + 1] = b
    <3>. HIDE DEF s, b
    <3>. QED  BY <1>3, <1>4, AppendProperties
  <2>4. \A m \in 1 .. N : t[m] = Append(s, b)[m]
    <3>1. \A m \in 1 .. N : m \in 1 .. n \/ m = n + 1
      OBVIOUS
    <3>2. \A m \in 1 .. n : t[m] = s[m]
      OBVIOUS
    <3>3. t[n + 1] = b
      OBVIOUS
    <3>. HIDE DEF s, b, t
    <3>. QED  BY <2>3, <3>1, <3>2, <3>3
  <2>. HIDE DEF s, b, t, N
  <2>. QED  BY <2>2, <2>3, <2>4, SeqEqual
<1>. HIDE DEF s, b, t
<1>6. FlattenSeq(s) \in Seq(Packet) /\ FlattenSeq(Append(s, b)) = FlattenSeq(s) \o b
  BY <1>3, <1>4, FlattenAppend
<1>. QED
  BY <1>1, <1>4, <1>5, <1>6 DEF b

LEMMA PacketsType ==
    ASSUME NEW fl, IsFile(fl), NEW k, NEW n \in 0 .. Len(fl)
    PROVE  PacketsOf(fl, k, n) \in Seq(Packet)
<1>. HIDE DEF Packet
<1>1. CASE n = 0
  BY <1>1, PacketsNone, EmptySeq
<1>2. CASE n # 0
  <2>1. PICK m \in Nat : n = m + 1 /\ m + 1 \in 1 .. Len(fl)
    <3>1. n - 1 \in Nat /\ n = (n - 1) + 1 /\ n \in 1 .. Len(fl)
      BY <1>2, FileType
    <3>. QED  BY <3>1
  <2>. QED  BY <2>1, PacketsStep, ConcatProperties
<1>. QED
  BY <1>1, <1>2

\* The keys of the first n records are those with packets.
KeysOf(fl, n) == {fl[m].key : m \in 1 .. n}

LEMMA KeysStep ==
    ASSUME NEW fl, NEW n \in Nat
    PROVE  KeysOf(fl, n + 1) = KeysOf(fl, n) \cup {fl[n + 1].key}
<1>1. 1 .. n + 1 = (1 .. n) \cup {n + 1}
  OBVIOUS
<1>2. PICK S, T, x : S = 1 .. n + 1 /\ T = 1 .. n /\ x = n + 1 /\ S = T \cup {x}
  BY <1>1
<1>3. KeysOf(fl, n + 1) = {fl[m].key : m \in S} /\ KeysOf(fl, n) = {fl[m].key : m \in T}
  BY <1>2 DEF KeysOf
<1>4. {fl[m].key : m \in S} = {fl[m].key : m \in T} \cup {fl[x].key}
  BY <1>2
<1>. QED
  BY <1>2, <1>3, <1>4

LEMMA KeysHavePackets ==
    ASSUME NEW fl, IsFile(fl), NEW k
    PROVE  \A n \in 0 .. Len(fl) : PacketsOf(fl, k, n) # <<>> <=> k \in KeysOf(fl, n)
<1>. DEFINE Bad == {n \in 0 .. Len(fl) : ~(PacketsOf(fl, k, n) # <<>> <=> k \in KeysOf(fl, n))}
<1>. SUFFICES ASSUME Bad # {} PROVE FALSE
  OBVIOUS
<1>. HIDE DEF Packet
<1>1. PICK n \in Bad : \A m \in Bad : n <= m
  <2>1. Bad \in SUBSET Nat
    BY FileType
  <2>. HIDE DEF Bad
  <2>. QED  BY <2>1, NatMinimum
<1>2. n # 0
  <2>1. KeysOf(fl, 0) = {} /\ PacketsOf(fl, k, 0) = <<>>
    BY PacketsNone DEF KeysOf
  <2>. QED  BY <2>1
<1>3. PICK m \in Nat : n = m + 1 /\ m \in 0 .. Len(fl) /\ m + 1 \in 1 .. Len(fl)
  <2>1. n - 1 \in Nat /\ n = (n - 1) + 1 /\ n \in 1 .. Len(fl) /\ n - 1 \in 0 .. Len(fl)
    BY <1>2, FileType
  <2>. QED  BY <2>1
<1>4. m \notin Bad
  <2>1. ~(n <= m)
    BY <1>3
  <2>. HIDE DEF Bad
  <2>. QED  BY <1>1, <2>1
<1>5. PacketsOf(fl, k, m) # <<>> <=> k \in KeysOf(fl, m)
  BY <1>3, <1>4
<1>6. KeysOf(fl, n) = KeysOf(fl, m) \cup {fl[n].key}
  BY <1>3, KeysStep
<1>7. PICK a, b \in Seq(Packet) : /\ a = PacketsOf(fl, k, m) /\ b = Own(fl, k, n)
                                  /\ PacketsOf(fl, k, n) = a \o b
  BY <1>3, PacketsStep
<1>8. a \o b = <<>> <=> a = <<>> /\ b = <<>>
  <2>1. Len(a) \in Nat /\ Len(b) \in Nat /\ Len(a \o b) = Len(a) + Len(b) /\ a \o b \in Seq(Packet)
    BY LenProperties, ConcatProperties
  <2>2. \A s \in Seq(Packet) : s = <<>> <=> Len(s) = 0
    BY EmptySeq
  <2>3. Len(a) + Len(b) = 0 <=> Len(a) = 0 /\ Len(b) = 0
    BY <2>1
  <2>. QED  BY <2>1, <2>2, <2>3
<1>9. b # <<>> <=> fl[n].key = k
  BY <1>3, <1>7, FileType DEF Own
<1>. QED
  BY <1>5, <1>6, <1>7, <1>8, <1>9

LEMMA PacketsStay ==
    ASSUME NEW fl, IsFile(fl), NEW n \in Nat, n + 1 \in 1 .. Len(fl), NEW k, fl[n + 1].key # k
    PROVE  PacketsOf(fl, k, n + 1) = PacketsOf(fl, k, n)
<1>. HIDE DEF Packet
<1>1. Own(fl, k, n + 1) = <<>>
  BY DEF Own
<1>2. PICK a \in Seq(Packet) : a = PacketsOf(fl, k, n) /\ PacketsOf(fl, k, n + 1) = a \o <<>>
  BY <1>1, PacketsStep
<1>. QED
  BY <1>2, ConcatEmptySeq

\* What each packet of a key does to the entry of the key.
LEMMA SetTwice ==
    ASSUME NEW map, NEW k, NEW v, NEW w
    PROVE  Set(Set(map, k, v), k, w) = Set(map, k, w)
<1>1. PICK u : u = Set(map, k, v)
  OBVIOUS
<1>2. DOMAIN u = DOMAIN map \cup {k} /\ \A j \in DOMAIN map \cup {k} : u[j] = IF j = k THEN v ELSE map[j]
  BY <1>1 DEF Set
<1>3. Set(u, k, w) = [j \in DOMAIN u \cup {k} |-> IF j = k THEN w ELSE u[j]]
  BY DEF Set
<1>4. Set(map, k, w) = [j \in DOMAIN map \cup {k} |-> IF j = k THEN w ELSE map[j]]
  BY DEF Set
<1>5. DOMAIN u \cup {k} = DOMAIN map \cup {k}
  BY <1>2
<1>6. \A j \in DOMAIN map \cup {k} : (IF j = k THEN w ELSE u[j]) = IF j = k THEN w ELSE map[j]
  BY <1>2
<1>. QED
  BY <1>1, <1>3, <1>4, <1>5, <1>6

\* The sequence of the packets with one more.
LEMMA OneMorePacket ==
    ASSUME NEW ps \in Seq(Packet), NEW p \in Packet
    PROVE  /\ Append(ps, p) \in Seq(Packet) /\ Len(ps) \in Nat /\ Len(Append(ps, p)) = Len(ps) + 1
           /\ DOMAIN ps = 1 .. Len(ps) /\ DOMAIN Append(ps, p) = 1 .. Len(ps) + 1
           /\ Append(ps, p) # <<>> /\ Append(ps, p)[Len(ps) + 1] = p
           /\ \A m \in 1 .. Len(ps) : Append(ps, p)[m] = ps[m] /\ ps[m] \in Packet
           /\ ps # <<>> => Len(ps) \in 1 .. Len(ps)
<1>. HIDE DEF Packet
<1>1. DOMAIN Append(ps, p) = 1 .. Len(Append(ps, p))
  BY AppendProperties, LenProperties
<1>2. \A m \in 1 .. Len(ps) : ps[m] \in Packet
  BY ElementOfSeq
<1>3. ps # <<>> => Len(ps) # 0
  BY EmptySeq
<1>. QED
  BY <1>1, <1>2, <1>3, AppendProperties, LenProperties

-----------------------------------------------------------------------------
(***************************************************************************)
(* How a function over packets is folded                                   *)
(*                                                                         *)
(* OverPackets goes from packet to packet of a record; what it leaves in   *)
(* the entry of the key k is said of the packets ps of k so far.  q[l] is  *)
(* ps with the first l packets of the record behind it.                    *)
(***************************************************************************)
\* A function over the packets of a record: how it is folded, and what it
\* leaves in the entry of the key.
Upto(ps, pkts, l) ==
    [m \in 1 .. Len(ps) + l |-> IF m <= Len(ps) THEN ps[m] ELSE pkts[m - Len(ps)]]

Grows(ps, pkts, N, q) ==
    /\ q[0] = ps /\ q[N] = ps \o pkts
    /\ \A l \in 0 .. N : q[l] \in Seq(Packet)
    /\ \A l, m \in 0 .. N : m = l + 1 => pkts[m] \in Packet /\ q[m] = Append(q[l], pkts[m])

\* The first packets of a record, behind those before it.
LEMMA PacketPrefixes ==
    ASSUME NEW ps \in Seq(Packet), NEW pkts \in Seq(Packet), NEW N \in Nat, N = Len(pkts)
    PROVE  Grows(ps, pkts, N, [l \in 0 .. N |-> Upto(ps, pkts, l)])
<1>. HIDE DEF Packet
<1>1. PICK n \in Nat : n = Len(ps)
  BY LenProperties
<1>2. \A m \in 1 .. N : pkts[m] \in Packet
  BY ElementOfSeq
<1>3. \A m \in 1 .. n : ps[m] \in Packet
  BY <1>1, ElementOfSeq
<1>4. ASSUME NEW l \in 0 .. N
      PROVE  /\ Upto(ps, pkts, l) \in Seq(Packet) /\ Len(Upto(ps, pkts, l)) = n + l
             /\ \A m \in 1 .. n + l : Upto(ps, pkts, l)[m] = IF m <= n THEN ps[m] ELSE pkts[m - n]
  <2>1. PICK k \in Nat : k = n + l
    OBVIOUS
  <2>2. Upto(ps, pkts, l) = [m \in 1 .. k |-> IF m <= n THEN ps[m] ELSE pkts[m - n]]
    BY <1>1, <2>1 DEF Upto
  <2>3. \A m \in 1 .. k : (IF m <= n THEN ps[m] ELSE pkts[m - n]) \in Packet
    <3>1. ASSUME NEW m \in 1 .. k PROVE (IF m <= n THEN ps[m] ELSE pkts[m - n]) \in Packet
      <4>1. CASE m <= n
        BY <1>3, <4>1
      <4>2. CASE ~(m <= n)
        <5>1. m - n \in 1 .. N
          BY <2>1, <4>2
        <5>. QED  BY <1>2, <4>2, <5>1
      <4>. QED  BY <4>1, <4>2
    <3>. QED  BY <3>1
  <2>4. Upto(ps, pkts, l) \in [1 .. k -> Packet]
    BY <2>2, <2>3
  <2>5. Upto(ps, pkts, l) \in Seq(Packet) /\ Len(Upto(ps, pkts, l)) = k
    BY <2>4, IsASeq, LenProperties
  <2>. QED  BY <2>1, <2>2, <2>5
<1>5. Upto(ps, pkts, 0) = ps
  <2>1. 0 \in 0 .. N
    OBVIOUS
  <2>2. PICK u \in Seq(Packet) : /\ u = Upto(ps, pkts, 0) /\ Len(u) = n
                                 /\ \A m \in 1 .. n : u[m] = ps[m]
    BY <1>4, <2>1
  <2>3. u = ps
    BY <1>1, <2>2, SeqEqual
  <2>. QED  BY <2>2, <2>3
<1>6. Upto(ps, pkts, N) = ps \o pkts
  <2>1. N \in 0 .. N
    OBVIOUS
  <2>2. PICK u \in Seq(Packet) : /\ u = Upto(ps, pkts, N) /\ Len(u) = n + N
                                 /\ \A m \in 1 .. n + N : u[m] = IF m <= n THEN ps[m] ELSE pkts[m - n]
    BY <1>4, <2>1
  <2>3. /\ ps \o pkts \in Seq(Packet) /\ Len(ps \o pkts) = n + N
        /\ \A m \in 1 .. n + N : (ps \o pkts)[m] = IF m <= n THEN ps[m] ELSE pkts[m - n]
    BY <1>1, ConcatProperties
  <2>4. \A m \in 1 .. Len(u) : u[m] = (ps \o pkts)[m]
    BY <2>2, <2>3
  <2>. QED  BY <2>2, <2>3, <2>4, SeqEqual
<1>7. ASSUME NEW l \in 0 .. N, NEW m \in 0 .. N, m = l + 1
      PROVE  Upto(ps, pkts, m) = Append(Upto(ps, pkts, l), pkts[m]) /\ pkts[m] \in Packet
  <2>1. m \in 1 .. N /\ pkts[m] \in Packet
    BY <1>2, <1>7
  <2>2. PICK u \in Seq(Packet) : /\ u = Upto(ps, pkts, l) /\ Len(u) = n + l
                                 /\ \A j \in 1 .. n + l : u[j] = IF j <= n THEN ps[j] ELSE pkts[j - n]
    BY <1>4
  <2>3. PICK v \in Seq(Packet) : /\ v = Upto(ps, pkts, m) /\ Len(v) = n + m
                                 /\ \A j \in 1 .. n + m : v[j] = IF j <= n THEN ps[j] ELSE pkts[j - n]
    BY <1>4
  <2>4. /\ Append(u, pkts[m]) \in Seq(Packet) /\ Len(Append(u, pkts[m])) = (n + l) + 1
        /\ \A j \in 1 .. n + l : Append(u, pkts[m])[j] = u[j]
        /\ Append(u, pkts[m])[(n + l) + 1] = pkts[m]
    <3>1. PICK x \in Packet : x = pkts[m]
      BY <2>1
    <3>2. PICK k \in Nat : k = n + l /\ k = Len(u)
      BY <2>2
    <3>3. /\ Append(u, x) \in Seq(Packet) /\ Len(Append(u, x)) = k + 1
          /\ \A j \in 1 .. k : Append(u, x)[j] = u[j]
          /\ Append(u, x)[k + 1] = x
      BY <3>2, AppendProperties
    <3>. QED  BY <3>1, <3>2, <3>3
  <2>5. ASSUME NEW j \in 1 .. n + m PROVE v[j] = Append(u, pkts[m])[j]
    <3>1. CASE j \in 1 .. n + l
      BY <2>2, <2>3, <2>4, <3>1
    <3>2. CASE j \notin 1 .. n + l
      <4>1. j = (n + l) + 1 /\ ~(j <= n) /\ j - n = m
        BY <1>7, <3>2
      <4>. QED  BY <2>3, <2>4, <4>1
    <3>. QED  BY <3>1, <3>2
  <2>6. (n + l) + 1 = n + m
    BY <1>7
  <2>7. v = Append(u, pkts[m])
    BY <2>3, <2>4, <2>5, <2>6, SeqEqual
  <2>. QED  BY <2>1, <2>2, <2>3, <2>7
<1>8. \A l \in 0 .. N : Upto(ps, pkts, l) \in Seq(Packet)
  BY <1>4
<1>9. PICK q : q = [l \in 0 .. N |-> Upto(ps, pkts, l)]
  OBVIOUS
<1>10. \A l \in 0 .. N : q[l] = Upto(ps, pkts, l)
  BY <1>9
<1>11. 0 \in 0 .. N /\ N \in 0 .. N
  OBVIOUS
<1>12. Grows(ps, pkts, N, q)
  BY <1>5, <1>6, <1>7, <1>8, <1>10, <1>11 DEF Grows
<1>. QED
  BY <1>9, <1>12

\* The maps that differ from map at most in the entry of k.
KeyedMaps(map, k, V) == {map} \cup {Set(map, k, v) : v \in V}

\* They are closed under steps that set the entry of k.
LEMMA KeyedMapsAre ==
    ASSUME NEW map, NEW k, NEW V, k \in DOMAIN map => map[k] \in V,
           NEW t \in KeyedMaps(map, k, V)
    PROVE  /\ k \in DOMAIN t => t[k] \in V
           /\ \A v \in V : Set(t, k, v) \in KeyedMaps(map, k, V)
<1>1. CASE t = map
  BY <1>1 DEF KeyedMaps
<1>2. CASE t # map
  <2>1. PICK v \in V : t = Set(map, k, v)
    BY <1>2 DEF KeyedMaps
  <2>2. t[k] = v
    BY <2>1 DEF Set
  <2>3. \A w \in V : Set(t, k, w) = Set(map, k, w)
    BY <2>1, SetTwice
  <2>. QED  BY <2>2, <2>3 DEF KeyedMaps
<1>. QED
  BY <1>1, <1>2

\* In the maps F[l], after l packets, the entry of k is val[l].
KeyedUp(N, F, map, k, val) ==
    /\ F[0] = map
    /\ \A l, m \in 0 .. N : m = l + 1 /\ (l = 0 \/ F[l] = Set(map, k, val[l])) =>
                               F[m] = Set(F[l], k, val[m])

\* By a least l for which it is not.
LEMMA KeyedSteps ==
    ASSUME NEW N \in Nat, NEW F, NEW map, NEW k, NEW val, KeyedUp(N, F, map, k, val)
    PROVE  \A m \in 1 .. N : F[m] = Set(map, k, val[m])
<1>. DEFINE Bad == {m \in 1 .. N : F[m] # Set(map, k, val[m])}
<1>. SUFFICES ASSUME Bad # {} PROVE FALSE
  OBVIOUS
<1>1. PICK m \in Bad : \A j \in Bad : m <= j
  <2>1. Bad \in SUBSET Nat
    OBVIOUS
  <2>. HIDE DEF Bad
  <2>. QED  BY <2>1, NatMinimum
<1>2. PICK l \in 0 .. N : m = l + 1 /\ m \in 0 .. N /\ l \notin Bad
  <2>1. m \in 1 .. N
    OBVIOUS
  <2>2. m - 1 \in 0 .. N /\ m = (m - 1) + 1 /\ ~(m <= m - 1) /\ m \in 0 .. N
    BY <2>1
  <2>3. m - 1 \notin Bad
    <3>. HIDE DEF Bad
    <3>. QED  BY <1>1, <2>2
  <2>. QED  BY <2>2, <2>3
<1>3. l = 0 \/ F[l] = Set(map, k, val[l])
  BY <1>2
<1>4. F[m] = Set(F[l], k, val[m]) /\ F[0] = map
  BY <1>2, <1>3 DEF KeyedUp
<1>5. F[m] = Set(map, k, val[m])
  <2>1. CASE l = 0
    BY <1>4, <2>1
  <2>2. CASE l # 0
    BY <1>3, <1>4, <2>2, SetTwice
  <2>. QED  BY <2>1, <2>2
<1>. QED
  BY <1>5

-----------------------------------------------------------------------------
(***************************************************************************)
(* tcp_non_monotonic                                                       *)
(***************************************************************************)
Decreases(ps) == {m \in 2 .. Len(ps) : ps[m].seq < ps[m - 1].seq}
NmValue(ps) == [seq |-> ps[Len(ps)].seq, n |-> Cardinality(Decreases(ps))]

\* A packet more.
LEMMA NmStep ==
    ASSUME NEW ps \in Seq(Packet), NEW p \in Packet, NEW map, NEW k,
           IF k \in DOMAIN map THEN ps # <<>> /\ map[k] = NmValue(ps) ELSE ps = <<>>
    PROVE  /\ NonMonotonic(map, k, p) = Set(map, k, NmValue(Append(ps, p)))
           /\ NmValue(Append(ps, p)) \in [seq : Nat, n : Nat]
<1>. PICK qs \in Seq(Packet) : qs = Append(ps, p)
  BY OneMorePacket
<1>1. PICK l \in Nat : l = Len(ps) /\ qs = Append(ps, p)
  BY OneMorePacket
<1>2. /\ Len(qs) = l + 1 /\ qs[l + 1] = p
      /\ \A m \in 1 .. l : qs[m] = ps[m] /\ ps[m] \in Packet
      /\ ps # <<>> => l \in 1 .. l
      /\ ps = <<>> => l = 0
  <2>. HIDE DEF Packet
  <2>. QED  BY <1>1, OneMorePacket, EmptySeq
<1>. DEFINE c == l # 0 /\ p.seq < ps[l].seq
<1>3. IsFiniteSet(Decreases(ps)) /\ l + 1 \notin Decreases(ps)
  <2>1. Decreases(ps) \subseteq 1 .. l
    BY <1>1 DEF Decreases
  <2>2. IsFiniteSet(Decreases(ps))
    BY <2>1, CountOfInterval, FS_Subset
  <2>. QED  BY <2>1, <2>2
<1>4. /\ c => Decreases(qs) = Decreases(ps) \cup {l + 1}
      /\ ~c => Decreases(qs) = Decreases(ps)
  <2>1. ASSUME NEW m \in 2 .. l PROVE m \in Decreases(qs) <=> m \in Decreases(ps)
    <3>1. PICK j \in 1 .. l : j = m - 1
      OBVIOUS
    <3>2. qs[m] = ps[m] /\ qs[j] = ps[j]
      BY <1>2
    <3>3. m \in 2 .. l + 1
      OBVIOUS
    <3>. QED  BY <1>1, <1>2, <3>1, <3>2, <3>3 DEF Decreases
  <2>2. l + 1 \in Decreases(qs) <=> c
    <3>1. CASE l = 0
      BY <1>2, <3>1 DEF Decreases
    <3>2. CASE l # 0
      <4>1. l \in 1 .. l /\ l + 1 \in 2 .. l + 1 /\ (l + 1) - 1 = l
        BY <3>2
      <4>2. qs[l] = ps[l]
        BY <1>2, <4>1
      <4>. QED  BY <1>2, <3>2, <4>1, <4>2 DEF Decreases
    <3>. QED  BY <3>1, <3>2
  <2>3. Decreases(qs) \subseteq (2 .. l) \cup {l + 1} /\ Decreases(ps) \subseteq 2 .. l
    BY <1>1, <1>2 DEF Decreases
  <2>. HIDE DEF c
  <2>. QED  BY <2>1, <2>2, <2>3
<1>5. /\ Cardinality(Decreases(ps)) \in Nat
      /\ Cardinality(Decreases(qs)) = IF c THEN Cardinality(Decreases(ps)) + 1
                                      ELSE Cardinality(Decreases(ps))
  <2>. HIDE DEF c
  <2>. QED  BY <1>3, <1>4, CountMore
<1>6. PICK d, e \in Nat : d = Cardinality(Decreases(ps)) /\ e = Cardinality(Decreases(qs))
                          /\ e = IF c THEN d + 1 ELSE d
  BY <1>5
<1>7. NmValue(qs) = [seq |-> p.seq, n |-> e]
  BY <1>2, <1>6 DEF NmValue
<1>8. p.seq \in Nat
  BY AnalysesAssumption DEF Packet
<1>9. PICK f : f = At(map, k, [seq |-> p.seq, n |-> 0])
  OBVIOUS
<1>10. NonMonotonic(map, k, p) = Set(map, k, [seq |-> p.seq, n |-> IF f.seq > p.seq THEN f.n + 1 ELSE f.n])
  BY <1>9, Zenon DEF NonMonotonic
<1>11. (IF f.seq > p.seq THEN f.n + 1 ELSE f.n) = e
  <2>1. CASE k \in DOMAIN map
    <3>1. f = [seq |-> ps[l].seq, n |-> d]
      BY <1>1, <1>6, <1>9, <2>1 DEF At, NmValue
    <3>2. l \in 1 .. l
      BY <1>2, <2>1
    <3>3. ps[l] \in Packet
      BY <1>2, <3>2
    <3>4. ps[l].seq \in Nat /\ l # 0
      <4>1. PICK q \in Packet : q = ps[l]
        BY <3>3
      <4>2. q.seq \in Nat
        BY AnalysesAssumption DEF Packet
      <4>3. l # 0
        BY <3>2
      <4>. QED  BY <4>1, <4>2, <4>3
    <3>. QED  BY <1>6, <1>8, <3>1, <3>4
  <2>2. CASE k \notin DOMAIN map
    <3>1. f = [seq |-> p.seq, n |-> 0] /\ l = 0
      BY <1>2, <1>9, <2>2 DEF At
    <3>2. Decreases(ps) = {}
      BY <1>1, <3>1 DEF Decreases
    <3>3. d = 0
      BY <1>6, <3>2, FS_EmptySet
    <3>. QED  BY <1>6, <1>8, <3>1, <3>3
  <2>. QED  BY <2>1, <2>2
<1>. QED
  BY <1>1, <1>6, <1>7, <1>8, <1>10, <1>11

\* What the maps of both programs have for a key.
NmEntries == [seq : Nat, n : Nat]

\* The fold of a record, in steps.
LEMMA NmCloses ==
    ASSUME NEW map, NEW k, k \in DOMAIN map => map[k] \in NmEntries,
           NEW t \in KeyedMaps(map, k, NmEntries), NEW p \in Packet
    PROVE  NonMonotonic(t, k, p) \in KeyedMaps(map, k, NmEntries)
<1>1. p.seq \in Nat
  BY AnalysesAssumption DEF Packet
<1>2. PICK f : f = At(t, k, [seq |-> p.seq, n |-> 0])
  OBVIOUS
<1>3. f \in NmEntries
  BY <1>1, <1>2, KeyedMapsAre DEF At, NmEntries
<1>4. [seq |-> p.seq, n |-> IF f.seq > p.seq THEN f.n + 1 ELSE f.n] \in NmEntries
  BY <1>1, <1>3 DEF NmEntries
<1>5. NonMonotonic(t, k, p) = Set(t, k, [seq |-> p.seq, n |-> IF f.seq > p.seq THEN f.n + 1 ELSE f.n])
  BY <1>2, Zenon DEF NonMonotonic
<1>. QED
  BY <1>4, <1>5, KeyedMapsAre

NmOver(s, k, pkts) == FoldLeft(LAMBDA t, p : NonMonotonic(t, k, p), s, pkts)

NmSteps(N, map, k, pkts, F) ==
    /\ F[0] = map /\ F[N] = NmOver(map, k, pkts)
    /\ \A l, m \in 0 .. N : m = l + 1 => F[m] = NonMonotonic(F[l], k, pkts[m])

LEMMA NmFold ==
    ASSUME NEW map, NEW k, NEW pkts \in Seq(Packet), NEW N \in Nat, N = Len(pkts),
           k \in DOMAIN map => map[k] \in NmEntries
    PROVE  \E F : NmSteps(N, map, k, pkts, F)
<1>. HIDE DEF Packet
<1>. DEFINE T == KeyedMaps(map, k, NmEntries)
            rec(g) == [s \in SUBSET (1 .. N) |->
                          IF s = {} THEN map
                          ELSE NonMonotonic(g[s \ {Max(s)}], k, pkts[Max(s)])]
            iter == CHOOSE g : g = rec(g)
            op == [x \in (1 .. N) \X T |-> NonMonotonic(x[2], k, pkts[x[1]])]
<1>1. DOMAIN pkts = 1 .. N
  BY LenProperties
<1>2. NmOver(map, k, pkts) = iter[1 .. N]
  <2>1. NmOver(map, k, pkts) =
           (CHOOSE g : g = [s \in SUBSET DOMAIN pkts |->
               IF s = {} THEN map
               ELSE NonMonotonic(g[s \ {Max(s)}], k, pkts[Max(s)])])[DOMAIN pkts]
    BY Zenon DEF NmOver, FoldLeft, MapThenFoldSet
  <2>. QED  BY <1>1, <2>1
<1>3. op \in [(1 .. N) \X T -> T]
      /\ \A m \in 1 .. N, t \in T : op[<<m, t>>] = NonMonotonic(t, k, pkts[m])
  <2>1. \A m \in 1 .. N : pkts[m] \in Packet
    BY <1>1, ElementOfSeq
  <2>2. \A m \in 1 .. N, t \in T : NonMonotonic(t, k, pkts[m]) \in T
    BY <2>1, NmCloses
  <2>. HIDE DEF T
  <2>. QED  BY <2>2
<1>. HIDE DEF op
<1>4. map \in T
  BY DEF KeyedMaps
<1>. HIDE DEF T
<1>5. PICK g \in [SUBSET (1 .. N) -> T] : FoldsUp(N, map, T, op, g)
  BY <1>3, <1>4, FoldRecursion
<1>6. \A s \in SUBSET (1 .. N) : s # {} => Max(s) \in 1 .. N /\ s \ {Max(s)} \in SUBSET (1 .. N)
  BY MaxOfBounded
<1>7. g = rec(g)
  <2>1. ASSUME NEW s \in SUBSET (1 .. N)
        PROVE  g[s] = IF s = {} THEN map
                      ELSE NonMonotonic(g[s \ {Max(s)}], k, pkts[Max(s)])
    <3>1. PICK x : x = Max(s)
      OBVIOUS
    <3>2. s # {} => x \in 1 .. N /\ g[s \ {x}] \in T
      BY <1>6, <3>1
    <3>. QED  BY <1>3, <1>5, <3>1, <3>2 DEF FoldsUp
  <2>. QED  BY <2>1
<1>8. iter = rec(iter)
  <2>. HIDE DEF rec
  <2>. QED  BY <1>7, Zenon
<1>. HIDE DEF iter
<1>9. FoldsUp(N, map, T, op, iter)
  <2>1. ASSUME NEW s \in SUBSET (1 .. N), s # {}, iter[s \ {Max(s)}] \in T
        PROVE  iter[s] = op[<<Max(s), iter[s \ {Max(s)}]>>]
    <3>1. PICK x : x = Max(s)
      OBVIOUS
    <3>2. x \in 1 .. N
      BY <1>6, <2>1, <3>1
    <3>3. iter[s] = NonMonotonic(iter[s \ {x}], k, pkts[x])
      BY <1>8, <2>1, <3>1
    <3>. QED  BY <1>3, <2>1, <3>1, <3>2, <3>3
  <2>2. iter[{}] = map
    BY <1>8
  <2>. QED  BY <2>1, <2>2 DEF FoldsUp
<1>10. PICK F \in [0 .. N -> T] : Steps(N, map, op, F) /\ F[N] = iter[1 .. N]
  <2>1. Folded(N, map, T, op, iter[1 .. N])
    BY <1>3, <1>4, <1>9, FoldSteps
  <2>. QED  BY <2>1 DEF Folded
<1>11. ASSUME NEW l \in 0 .. N, NEW m \in 0 .. N, m = l + 1
       PROVE  F[m] = NonMonotonic(F[l], k, pkts[m])
  <2>1. m \in 1 .. N /\ F[l] \in T
    BY <1>11
  <2>2. F[m] = op[<<m, F[l]>>]
    BY <1>10, <1>11, Zenon DEF Steps
  <2>. QED  BY <1>3, <2>1, <2>2
<1>. QED
  BY <1>2, <1>10, <1>11 DEF Steps, NmSteps

LEMMA NmValueType ==
    ASSUME NEW ps \in Seq(Packet), ps # <<>>
    PROVE  NmValue(ps) \in NmEntries
<1>1. PICK l \in Nat : l = Len(ps) /\ l \in 1 .. l
  <2>. HIDE DEF Packet
  <2>. QED  BY LenProperties, EmptySeq
<1>2. ps[l] \in Packet
  <2>. HIDE DEF Packet
  <2>. QED  BY <1>1, ElementOfSeq
<1>3. ps[l].seq \in Nat
  BY <1>2, AnalysesAssumption DEF Packet
<1>4. Cardinality(Decreases(ps)) \in Nat
  <2>1. Decreases(ps) \subseteq 1 .. l
    BY <1>1 DEF Decreases
  <2>. QED  BY <2>1, CountOfInterval, FS_Subset, FS_CardinalityType
<1>. QED
  BY <1>1, <1>3, <1>4 DEF NmValue, NmEntries

\* The entry of the key after all packets of a record.
LEMMA NmRecord ==
    ASSUME NEW ps \in Seq(Packet), NEW map, NEW k, NEW pkts \in Seq(Packet), pkts # <<>>,
           IF k \in DOMAIN map THEN ps # <<>> /\ map[k] = NmValue(ps) ELSE ps = <<>>
    PROVE  NmOver(map, k, pkts) = Set(map, k, NmValue(ps \o pkts))
<1>. HIDE DEF Packet
<1>1. PICK N \in Nat : N = Len(pkts) /\ N \in 1 .. N
  BY LenProperties, EmptySeq
<1>2. k \in DOMAIN map => map[k] \in NmEntries
  BY NmValueType
<1>3. PICK F : NmSteps(N, map, k, pkts, F)
  BY <1>1, <1>2, NmFold
<1>4. PICK q : Grows(ps, pkts, N, q)
  BY <1>1, PacketPrefixes
<1>5. PICK val : val = [l \in 0 .. N |-> NmValue(q[l])]
  OBVIOUS
<1>6. /\ q[0] = ps /\ q[N] = ps \o pkts
      /\ \A l \in 0 .. N : q[l] \in Seq(Packet)
      /\ \A l, m \in 0 .. N : m = l + 1 => pkts[m] \in Packet /\ q[m] = Append(q[l], pkts[m])
  BY <1>4, Zenon DEF Grows
<1>7. ASSUME NEW l \in 0 .. N, NEW m \in 0 .. N, m = l + 1,
             l = 0 \/ F[l] = Set(map, k, val[l])
      PROVE  F[m] = Set(F[l], k, val[m])
  <2>1. PICK u \in Seq(Packet) : u = q[l]
    BY <1>6
  <2>2. PICK p \in Packet : p = pkts[m] /\ q[m] = Append(u, p)
    BY <1>6, <1>7, <2>1
  <2>3. IF k \in DOMAIN F[l] THEN u # <<>> /\ F[l][k] = NmValue(u) ELSE u = <<>>
    <3>1. CASE l = 0
      BY <1>3, <1>6, <2>1, <3>1 DEF NmSteps
    <3>2. CASE l # 0
      <4>1. k \in DOMAIN F[l] /\ F[l][k] = NmValue(u)
        BY <1>5, <1>7, <2>1, <3>2 DEF Set
      <4>2. PICK j \in 0 .. N : l = j + 1
        <5>1. l - 1 \in 0 .. N /\ l = (l - 1) + 1
          BY <3>2
        <5>. QED  BY <5>1
      <4>3. u # <<>>
        <5>1. PICK w \in Seq(Packet), x \in Packet : u = Append(w, x)
          BY <1>6, <2>1, <4>2
        <5>. QED  BY <5>1, OneMorePacket
      <4>. QED  BY <4>1, <4>3
    <3>. QED  BY <3>1, <3>2
  <2>4. NonMonotonic(F[l], k, p) = Set(F[l], k, NmValue(Append(u, p)))
    BY <2>3, NmStep
  <2>5. F[m] = NonMonotonic(F[l], k, p)
    BY <1>3, <1>7, <2>2 DEF NmSteps
  <2>. QED  BY <1>5, <2>2, <2>4, <2>5
<1>8. F[N] = Set(map, k, val[N])
  <2>1. N \in 1 .. N
    BY <1>1
  <2>2. KeyedUp(N, F, map, k, val)
    BY <1>3, <1>7, Zenon DEF NmSteps, KeyedUp
  <2>3. \A m \in 1 .. N : F[m] = Set(map, k, val[m])
    BY <2>2, KeyedSteps
  <2>. QED  BY <2>1, <2>3
<1>9. val[N] = NmValue(ps \o pkts)
  <2>1. N \in 0 .. N
    BY <1>1
  <2>. QED  BY <1>5, <1>6, <2>1, Zenon
<1>. QED
  BY <1>3, <1>8, <1>9 DEF NmSteps

-----------------------------------------------------------------------------
(***************************************************************************)
(* tcp_out_of_sequence                                                     *)
(***************************************************************************)
\* By how much a packet moves the sequence number.
Moves(p) == IF p.once THEN 1 ELSE p.len

\* The sum, summand by summand.
LEMMA AdvancedStep ==
    ASSUME NEW ps \in Seq(Packet), NEW m \in Nat
    PROVE  /\ m <= Len(ps) => Advanced(ps, m) \in Nat
           /\ m + 1 <= Len(ps) =>
                 /\ Moves(ps[m + 1]) \in Nat
                 /\ Advanced(ps, m + 1) = Advanced(ps, m) + Moves(ps[m + 1])
           /\ Advanced(ps, 0) = 0
<1>1. \A l : Advanced(ps, l) = Sum(Advance(ps), 1 .. l)
  BY Zenon DEF Advanced, Sum, MapThenSumSet, MapThenFoldSet
<1>2. PICK n \in Nat : n = Len(ps)
  BY LenProperties
<1>3. PICK f : f = Advance(ps)
  OBVIOUS
<1>4. \A l \in 1 .. n : f[l] \in Nat /\ f[l] = Moves(ps[l])
  <2>1. DOMAIN ps = 1 .. n
    BY <1>2, LenProperties
  <2>2. ASSUME NEW l \in 1 .. n PROVE ps[l].once \in BOOLEAN /\ ps[l].len \in Nat
    <3>1. ps[l] \in Packet
      <4>. HIDE DEF Packet
      <4>. QED  BY <1>2, ElementOfSeq
    <3>. QED  BY <3>1 DEF Packet
  <2>3. f = [l \in 1 .. n |-> IF ps[l].once THEN 1 ELSE ps[l].len]
    BY <1>3, <2>1 DEF Advance
  <2>. QED  BY <2>2, <2>3 DEF Moves
<1>5. ASSUME m <= n PROVE Advanced(ps, m) \in Nat
  <2>1. \A l \in 1 .. m : f[l] \in Nat
    BY <1>4, <1>5
  <2>2. IsFiniteSet(1 .. m)
    BY CountOfInterval
  <2>3. Sum(f, 1 .. m) = Cardinality(Units(f, 1 .. m))
    BY <2>1, <2>2, SumIsUnits
  <2>4. IsFiniteSet(Units(f, 1 .. m))
    <3>1. 1 .. m \in SUBSET (1 .. m)
      OBVIOUS
    <3>. QED  BY <2>1, <2>2, <3>1, UnitsAreFinite
  <2>. QED  BY <1>1, <1>3, <2>3, <2>4, FS_CardinalityType
<1>6. ASSUME m + 1 <= n
      PROVE  Moves(ps[m + 1]) \in Nat /\ Advanced(ps, m + 1) = Advanced(ps, m) + Moves(ps[m + 1])
  <2>1. \A l \in 1 .. m + 1 : f[l] \in Nat
    BY <1>4, <1>6
  <2>2. m + 1 \in 1 .. n
    BY <1>6
  <2>3. Sum(f, 1 .. m + 1) = Sum(f, 1 .. m) + f[m + 1]
    BY <2>1, SumOfMore
  <2>. QED  BY <1>1, <1>3, <1>4, <2>2, <2>3
<1>7. Advanced(ps, 0) = 0
  BY <1>1, SumOverNone
<1>. QED
  BY <1>2, <1>5, <1>6, <1>7

LEMMA AdvancedAppend ==
    ASSUME NEW ps \in Seq(Packet), NEW p \in Packet, NEW m \in 0 .. Len(ps)
    PROVE  Advanced(Append(ps, p), m) = Advanced(ps, m)
<1>. HIDE DEF Packet
<1>1. PICK qs \in Seq(Packet) : qs = Append(ps, p)
  BY OneMorePacket
<1>2. \A s \in {ps, qs} : Advanced(s, m) = Sum(Advance(s), 1 .. m)
  BY Zenon DEF Advanced, Sum, MapThenSumSet, MapThenFoldSet
<1>3. PICK l \in Nat : /\ l = Len(ps) /\ DOMAIN ps = 1 .. l /\ DOMAIN qs = 1 .. l + 1
                       /\ \A j \in 1 .. l : qs[j] = ps[j]
  BY <1>1, OneMorePacket
<1>4. ASSUME NEW j \in 1 .. m
      PROVE  Advance(ps)[j] = Advance(qs)[j] /\ Advance(ps)[j] \in Nat
  <2>1. j \in 1 .. l /\ j \in 1 .. l + 1
    BY <1>3
  <2>2. /\ Advance(ps)[j] = IF ps[j].once THEN 1 ELSE ps[j].len
        /\ Advance(qs)[j] = IF qs[j].once THEN 1 ELSE qs[j].len
    BY <1>3, <2>1 DEF Advance
  <2>3. ps[j] \in Packet
    BY <1>3, <2>1, ElementOfSeq
  <2>4. ps[j].len \in Nat
    BY <2>3 DEF Packet
  <2>. QED  BY <1>3, <2>1, <2>2, <2>4
<1>5. IsFiniteSet(1 .. m)
  <2>1. m \in Nat
    BY <1>3
  <2>. QED  BY <2>1, CountOfInterval
<1>6. Sum(Advance(ps), 1 .. m) = Sum(Advance(qs), 1 .. m)
  BY <1>4, <1>5, SumOfEqual
<1>. QED
  BY <1>1, <1>2, <1>6

\* The sequence number expected of packet m, and the packets that deviate.
Expected(ps, m) == (ps[1].seq + Advanced(ps, m - 1)) % SeqW
Deviations(ps) == {m \in 1 .. Len(ps) : ps[m].seq # Expected(ps, m)}
OosValue(ps) == [seq |-> Expected(ps, Len(ps) + 1), n |-> Cardinality(Deviations(ps))]

\* A packet more.
LEMMA OosStep ==
    ASSUME NEW ps \in Seq(Packet), NEW p \in Packet, NEW map, NEW k,
           IF k \in DOMAIN map THEN ps # <<>> /\ map[k] = OosValue(ps) ELSE ps = <<>>
    PROVE  /\ OutOfSequence(map, k, p) = Set(map, k, OosValue(Append(ps, p)))
           /\ OosValue(Append(ps, p)) \in [seq : Nat, n : Nat]
<1>. PICK qs \in Seq(Packet) : qs = Append(ps, p)
  BY OneMorePacket
<1>1. PICK l \in Nat : l = Len(ps) /\ qs = Append(ps, p)
  BY OneMorePacket
<1>2. /\ Len(qs) = l + 1 /\ qs[l + 1] = p
      /\ \A m \in 1 .. l : qs[m] = ps[m] /\ ps[m] \in Packet
      /\ ps # <<>> => l \in 1 .. l
      /\ ps = <<>> => l = 0
  <2>. HIDE DEF Packet
  <2>. QED  BY <1>1, OneMorePacket, EmptySeq
<1>3. /\ p.seq \in 0 .. SeqW - 1 /\ SeqW \in Nat \ {0} /\ Moves(p) \in Nat
      /\ \A m \in 1 .. l : ps[m].seq \in 0 .. SeqW - 1
  <2>1. p.seq \in 0 .. SeqW - 1 /\ SeqW \in Nat \ {0} /\ Moves(p) \in Nat
    BY AnalysesAssumption DEF Packet, Moves
  <2>2. ASSUME NEW m \in 1 .. l PROVE ps[m].seq \in 0 .. SeqW - 1
    <3>1. ps[m] \in Packet
      BY <1>2
    <3>. QED  BY <3>1 DEF Packet
  <2>. QED  BY <2>1, <2>2
<1>. HIDE DEF Packet
<1>4. PICK e : e = Expected(qs, l + 1)
  OBVIOUS
<1>5. /\ e \in 0 .. SeqW - 1
      /\ IF l = 0 THEN e = p.seq ELSE e = Expected(ps, l + 1)
      /\ Expected(qs, (l + 1) + 1) = (e + Moves(p)) % SeqW
  <2>1. PICK a \in Nat : a = Advanced(qs, l) /\ Advanced(qs, l + 1) = a + Moves(p)
                         /\ (l = 0 => a = 0)
    <3>1. l <= Len(qs) /\ l + 1 <= Len(qs)
      BY <1>2
    <3>2. /\ Advanced(qs, l) \in Nat /\ Advanced(qs, 0) = 0
          /\ Advanced(qs, l + 1) = Advanced(qs, l) + Moves(qs[l + 1])
      BY <3>1, AdvancedStep
    <3>. QED  BY <1>2, <3>2
  <2>2. PICK b \in 0 .. SeqW - 1 : b = qs[1].seq /\ (l = 0 => b = p.seq) /\ (l # 0 => b = ps[1].seq)
    <3>1. CASE l = 0
      BY <1>2, <1>3, <3>1
    <3>2. CASE l # 0
      <4>1. 1 \in 1 .. l
        BY <3>2
      <4>. QED  BY <1>2, <1>3, <3>2, <4>1
    <3>. QED  BY <3>1, <3>2
  <2>3. PICK c \in Nat : c = b + a
    BY <1>3
  <2>4. e = c % SeqW
    <3>1. (l + 1) - 1 = l
      OBVIOUS
    <3>. QED  BY <1>4, <2>1, <2>2, <2>3, <3>1 DEF Expected
  <2>5. e \in 0 .. SeqW - 1
    BY <1>3, <2>4, DivMod
  <2>6. Expected(qs, (l + 1) + 1) = (c + Moves(p)) % SeqW
    <3>1. ((l + 1) + 1) - 1 = l + 1
      OBVIOUS
    <3>2. b + (a + Moves(p)) = c + Moves(p)
      BY <1>3, <2>3
    <3>. QED  BY <2>1, <2>2, <3>1, <3>2 DEF Expected
  <2>7. (e + Moves(p)) % SeqW = (c + Moves(p)) % SeqW
    BY <1>3, <2>4, ModAdd
  <2>8. CASE l = 0
    <3>1. c = p.seq
      BY <1>3, <2>1, <2>2, <2>3, <2>8
    <3>2. e = p.seq
      <4>1. SeqW * 0 + p.seq = p.seq
        BY <1>3
      <4>2. (SeqW * 0 + p.seq) % SeqW = p.seq
        BY <1>3, ModUnique
      <4>. QED  BY <2>4, <3>1, <4>1, <4>2
    <3>. QED  BY <2>5, <2>6, <2>7, <2>8, <3>2
  <2>9. CASE l # 0
    <3>1. Advanced(ps, l) = a
      <4>1. l \in 0 .. Len(ps)
        BY <1>1
      <4>. QED  BY <1>1, <2>1, <4>1, AdvancedAppend
    <3>2. e = Expected(ps, l + 1)
      <4>1. (l + 1) - 1 = l
        OBVIOUS
      <4>. QED  BY <2>2, <2>3, <2>4, <2>9, <3>1, <4>1 DEF Expected
    <3>. QED  BY <2>5, <2>6, <2>7, <2>9, <3>2
  <2>. QED  BY <2>8, <2>9
<1>. DEFINE c == p.seq # e
<1>6. IsFiniteSet(Deviations(ps)) /\ l + 1 \notin Deviations(ps)
  <2>1. Deviations(ps) \subseteq 1 .. l
    BY <1>1 DEF Deviations
  <2>2. IsFiniteSet(Deviations(ps))
    BY <2>1, CountOfInterval, FS_Subset
  <2>. QED  BY <2>1, <2>2
<1>7. /\ c => Deviations(qs) = Deviations(ps) \cup {l + 1}
      /\ ~c => Deviations(qs) = Deviations(ps)
  <2>1. ASSUME NEW m \in 1 .. l PROVE m \in Deviations(qs) <=> m \in Deviations(ps)
    <3>1. PICK j \in 0 .. l : j = m - 1
      OBVIOUS
    <3>2. Advanced(qs, j) = Advanced(ps, j)
      BY <1>1, AdvancedAppend
    <3>3. qs[m] = ps[m] /\ qs[1] = ps[1] /\ m \in 1 .. l + 1
      <4>1. 1 \in 1 .. l
        OBVIOUS
      <4>. QED  BY <1>2, <4>1
    <3>4. Expected(qs, m) = Expected(ps, m)
      BY <3>1, <3>2, <3>3 DEF Expected
    <3>. QED  BY <1>1, <1>2, <3>3, <3>4 DEF Deviations
  <2>2. l + 1 \in Deviations(qs) <=> c
    <3>1. l + 1 \in 1 .. l + 1
      OBVIOUS
    <3>. QED  BY <1>2, <1>4, <3>1 DEF Deviations
  <2>3. Deviations(qs) \subseteq (1 .. l) \cup {l + 1} /\ Deviations(ps) \subseteq 1 .. l
    BY <1>1, <1>2 DEF Deviations
  <2>. HIDE DEF c
  <2>. QED  BY <2>1, <2>2, <2>3
<1>8. /\ Cardinality(Deviations(ps)) \in Nat
      /\ Cardinality(Deviations(qs)) = IF c THEN Cardinality(Deviations(ps)) + 1
                                       ELSE Cardinality(Deviations(ps))
  <2>. HIDE DEF c
  <2>. QED  BY <1>6, <1>7, CountMore
<1>9. PICK d, g \in Nat : d = Cardinality(Deviations(ps)) /\ g = Cardinality(Deviations(qs))
                          /\ g = IF c THEN d + 1 ELSE d
  BY <1>8
<1>10. PICK x \in Nat : x = (e + Moves(p)) % SeqW
  <2>1. e \in Nat /\ Moves(p) \in Nat
    BY <1>3, <1>5
  <2>2. e + Moves(p) \in Nat
    BY <2>1
  <2>. QED  BY <1>3, <2>2, DivMod
<1>11. OosValue(qs) = [seq |-> x, n |-> g]
  BY <1>2, <1>5, <1>9, <1>10 DEF OosValue
<1>12. PICK f : f = At(map, k, [seq |-> p.seq, n |-> 0])
  OBVIOUS
<1>13. OutOfSequence(map, k, p) = Set(map, k, [seq |-> (f.seq + Moves(p)) % SeqW,
                                               n |-> IF f.seq # p.seq THEN f.n + 1 ELSE f.n])
  BY <1>12, Zenon DEF OutOfSequence, Moves
<1>14. f.seq = e /\ (IF f.seq # p.seq THEN f.n + 1 ELSE f.n) = g
  <2>1. CASE k \in DOMAIN map
    <3>1. f = [seq |-> Expected(ps, l + 1), n |-> d] /\ l # 0
      BY <1>1, <1>2, <1>9, <1>12, <2>1 DEF At, OosValue
    <3>. QED  BY <1>5, <1>9, <3>1
  <2>2. CASE k \notin DOMAIN map
    <3>1. f = [seq |-> p.seq, n |-> 0] /\ l = 0
      BY <1>2, <1>12, <2>2 DEF At
    <3>2. Deviations(ps) = {}
      BY <1>1, <3>1 DEF Deviations
    <3>3. d = 0
      BY <1>9, <3>2, FS_EmptySet
    <3>. QED  BY <1>5, <1>9, <3>1, <3>3
  <2>. QED  BY <2>1, <2>2
<1>. QED
  BY <1>1, <1>9, <1>10, <1>11, <1>13, <1>14

\* The fold of a record, in steps.
LEMMA OosCloses ==
    ASSUME NEW map, NEW k, k \in DOMAIN map => map[k] \in NmEntries,
           NEW t \in KeyedMaps(map, k, NmEntries), NEW p \in Packet
    PROVE  OutOfSequence(t, k, p) \in KeyedMaps(map, k, NmEntries)
<1>1. p.seq \in Nat /\ Moves(p) \in Nat /\ SeqW \in Nat \ {0}
  BY AnalysesAssumption DEF Packet, Moves
<1>2. PICK f : f = At(t, k, [seq |-> p.seq, n |-> 0])
  OBVIOUS
<1>3. f \in NmEntries
  BY <1>1, <1>2, KeyedMapsAre DEF At, NmEntries
<1>4. PICK x \in Nat : x = f.seq + Moves(p)
  BY <1>1, <1>3 DEF NmEntries
<1>5. PICK y \in Nat : y = x % SeqW
  <2>1. x % SeqW \in 0 .. SeqW - 1
    BY <1>1, DivMod
  <2>. QED  BY <2>1
<1>6. [seq |-> y, n |-> IF f.seq # p.seq THEN f.n + 1 ELSE f.n] \in NmEntries
  BY <1>3 DEF NmEntries
<1>7. OutOfSequence(t, k, p) = Set(t, k, [seq |-> y, n |-> IF f.seq # p.seq THEN f.n + 1 ELSE f.n])
  <2>1. OutOfSequence(t, k, p) = Set(t, k, [seq |-> (f.seq + Moves(p)) % SeqW,
                                            n |-> IF f.seq # p.seq THEN f.n + 1 ELSE f.n])
    BY <1>2, Zenon DEF OutOfSequence, Moves
  <2>. QED  BY <1>4, <1>5, <2>1
<1>. QED
  BY <1>6, <1>7, KeyedMapsAre

LEMMA OosValueType ==
    ASSUME NEW ps \in Seq(Packet), ps # <<>>
    PROVE  OosValue(ps) \in NmEntries
<1>1. PICK l \in Nat : l = Len(ps) /\ 1 \in 1 .. l
  <2>. HIDE DEF Packet
  <2>. QED  BY LenProperties, EmptySeq
<1>2. ps[1] \in Packet
  <2>. HIDE DEF Packet
  <2>. QED  BY <1>1, ElementOfSeq
<1>3. ps[1].seq \in Nat /\ SeqW \in Nat \ {0}
  BY <1>2, AnalysesAssumption DEF Packet
<1>4. Cardinality(Deviations(ps)) \in Nat
  <2>1. Deviations(ps) \subseteq 1 .. l
    BY <1>1 DEF Deviations
  <2>. QED  BY <2>1, CountOfInterval, FS_Subset, FS_CardinalityType
<1>5. PICK a \in Nat : a = Advanced(ps, l)
  <2>. HIDE DEF Packet
  <2>1. l <= Len(ps)
    BY <1>1
  <2>. QED  BY <2>1, AdvancedStep
<1>6. PICK x \in Nat : x = ps[1].seq + a
  BY <1>3
<1>7. PICK y \in Nat : y = x % SeqW
  <2>1. x % SeqW \in 0 .. SeqW - 1
    BY <1>3, DivMod
  <2>. QED  BY <2>1
<1>8. Expected(ps, Len(ps) + 1) = y
  <2>1. (l + 1) - 1 = l
    OBVIOUS
  <2>. QED  BY <1>1, <1>5, <1>6, <1>7, <2>1 DEF Expected
<1>. QED
  BY <1>4, <1>8 DEF OosValue, NmEntries

OosOver(s, k, pkts) == FoldLeft(LAMBDA t, p : OutOfSequence(t, k, p), s, pkts)

OosSteps(N, map, k, pkts, F) ==
    /\ F[0] = map /\ F[N] = OosOver(map, k, pkts)
    /\ \A l, m \in 0 .. N : m = l + 1 => F[m] = OutOfSequence(F[l], k, pkts[m])

LEMMA OosFold ==
    ASSUME NEW map, NEW k, NEW pkts \in Seq(Packet), NEW N \in Nat, N = Len(pkts),
           k \in DOMAIN map => map[k] \in NmEntries
    PROVE  \E F : OosSteps(N, map, k, pkts, F)
<1>. HIDE DEF Packet
<1>. DEFINE T == KeyedMaps(map, k, NmEntries)
            rec(g) == [s \in SUBSET (1 .. N) |->
                          IF s = {} THEN map
                          ELSE OutOfSequence(g[s \ {Max(s)}], k, pkts[Max(s)])]
            iter == CHOOSE g : g = rec(g)
            op == [x \in (1 .. N) \X T |-> OutOfSequence(x[2], k, pkts[x[1]])]
<1>1. DOMAIN pkts = 1 .. N
  BY LenProperties
<1>2. OosOver(map, k, pkts) = iter[1 .. N]
  <2>1. OosOver(map, k, pkts) =
           (CHOOSE g : g = [s \in SUBSET DOMAIN pkts |->
               IF s = {} THEN map
               ELSE OutOfSequence(g[s \ {Max(s)}], k, pkts[Max(s)])])[DOMAIN pkts]
    BY Zenon DEF OosOver, FoldLeft, MapThenFoldSet
  <2>. QED  BY <1>1, <2>1
<1>3. op \in [(1 .. N) \X T -> T]
      /\ \A m \in 1 .. N, t \in T : op[<<m, t>>] = OutOfSequence(t, k, pkts[m])
  <2>1. \A m \in 1 .. N : pkts[m] \in Packet
    BY <1>1, ElementOfSeq
  <2>2. \A m \in 1 .. N, t \in T : OutOfSequence(t, k, pkts[m]) \in T
    BY <2>1, OosCloses
  <2>. HIDE DEF T
  <2>. QED  BY <2>2
<1>. HIDE DEF op
<1>4. map \in T
  BY DEF KeyedMaps
<1>. HIDE DEF T
<1>5. PICK g \in [SUBSET (1 .. N) -> T] : FoldsUp(N, map, T, op, g)
  BY <1>3, <1>4, FoldRecursion
<1>6. \A s \in SUBSET (1 .. N) : s # {} => Max(s) \in 1 .. N /\ s \ {Max(s)} \in SUBSET (1 .. N)
  BY MaxOfBounded
<1>7. g = rec(g)
  <2>1. ASSUME NEW s \in SUBSET (1 .. N)
        PROVE  g[s] = IF s = {} THEN map
                      ELSE OutOfSequence(g[s \ {Max(s)}], k, pkts[Max(s)])
    <3>1. PICK x : x = Max(s)
      OBVIOUS
    <3>2. s # {} => x \in 1 .. N /\ g[s \ {x}] \in T
      BY <1>6, <3>1
    <3>. QED  BY <1>3, <1>5, <3>1, <3>2 DEF FoldsUp
  <2>. QED  BY <2>1
<1>8. iter = rec(iter)
  <2>. HIDE DEF rec
  <2>. QED  BY <1>7, Zenon
<1>. HIDE DEF iter
<1>9. FoldsUp(N, map, T, op, iter)
  <2>1. ASSUME NEW s \in SUBSET (1 .. N), s # {}, iter[s \ {Max(s)}] \in T
        PROVE  iter[s] = op[<<Max(s), iter[s \ {Max(s)}]>>]
    <3>1. PICK x : x = Max(s)
      OBVIOUS
    <3>2. x \in 1 .. N
      BY <1>6, <2>1, <3>1
    <3>3. iter[s] = OutOfSequence(iter[s \ {x}], k, pkts[x])
      BY <1>8, <2>1, <3>1
    <3>. QED  BY <1>3, <2>1, <3>1, <3>2, <3>3
  <2>2. iter[{}] = map
    BY <1>8
  <2>. QED  BY <2>1, <2>2 DEF FoldsUp
<1>10. PICK F \in [0 .. N -> T] : Steps(N, map, op, F) /\ F[N] = iter[1 .. N]
  <2>1. Folded(N, map, T, op, iter[1 .. N])
    BY <1>3, <1>4, <1>9, FoldSteps
  <2>. QED  BY <2>1 DEF Folded
<1>11. ASSUME NEW l \in 0 .. N, NEW m \in 0 .. N, m = l + 1
       PROVE  F[m] = OutOfSequence(F[l], k, pkts[m])
  <2>1. m \in 1 .. N /\ F[l] \in T
    BY <1>11
  <2>2. F[m] = op[<<m, F[l]>>]
    BY <1>10, <1>11, Zenon DEF Steps
  <2>. QED  BY <1>3, <2>1, <2>2
<1>. QED
  BY <1>2, <1>10, <1>11 DEF Steps, OosSteps

\* The entry of the key after all packets of a record.
LEMMA OosRecord ==
    ASSUME NEW ps \in Seq(Packet), NEW map, NEW k, NEW pkts \in Seq(Packet), pkts # <<>>,
           IF k \in DOMAIN map THEN ps # <<>> /\ map[k] = OosValue(ps) ELSE ps = <<>>
    PROVE  OosOver(map, k, pkts) = Set(map, k, OosValue(ps \o pkts))
<1>. HIDE DEF Packet
<1>1. PICK N \in Nat : N = Len(pkts) /\ N \in 1 .. N
  BY LenProperties, EmptySeq
<1>2. k \in DOMAIN map => map[k] \in NmEntries
  BY OosValueType
<1>3. PICK F : OosSteps(N, map, k, pkts, F)
  BY <1>1, <1>2, OosFold
<1>4. PICK q : Grows(ps, pkts, N, q)
  BY <1>1, PacketPrefixes
<1>5. PICK val : val = [l \in 0 .. N |-> OosValue(q[l])]
  OBVIOUS
<1>6. /\ q[0] = ps /\ q[N] = ps \o pkts
      /\ \A l \in 0 .. N : q[l] \in Seq(Packet)
      /\ \A l, m \in 0 .. N : m = l + 1 => pkts[m] \in Packet /\ q[m] = Append(q[l], pkts[m])
  BY <1>4, Zenon DEF Grows
<1>7. ASSUME NEW l \in 0 .. N, NEW m \in 0 .. N, m = l + 1,
             l = 0 \/ F[l] = Set(map, k, val[l])
      PROVE  F[m] = Set(F[l], k, val[m])
  <2>1. PICK u \in Seq(Packet) : u = q[l]
    BY <1>6
  <2>2. PICK p \in Packet : p = pkts[m] /\ q[m] = Append(u, p)
    BY <1>6, <1>7, <2>1
  <2>3. IF k \in DOMAIN F[l] THEN u # <<>> /\ F[l][k] = OosValue(u) ELSE u = <<>>
    <3>1. CASE l = 0
      BY <1>3, <1>6, <2>1, <3>1 DEF OosSteps
    <3>2. CASE l # 0
      <4>1. k \in DOMAIN F[l] /\ F[l][k] = OosValue(u)
        BY <1>5, <1>7, <2>1, <3>2 DEF Set
      <4>2. PICK j \in 0 .. N : l = j + 1
        <5>1. l - 1 \in 0 .. N /\ l = (l - 1) + 1
          BY <3>2
        <5>. QED  BY <5>1
      <4>3. u # <<>>
        <5>1. PICK w \in Seq(Packet), x \in Packet : u = Append(w, x)
          BY <1>6, <2>1, <4>2
        <5>. QED  BY <5>1, OneMorePacket
      <4>. QED  BY <4>1, <4>3
    <3>. QED  BY <3>1, <3>2
  <2>4. OutOfSequence(F[l], k, p) = Set(F[l], k, OosValue(Append(u, p)))
    BY <2>3, OosStep
  <2>5. F[m] = OutOfSequence(F[l], k, p)
    BY <1>3, <1>7, <2>2 DEF OosSteps
  <2>. QED  BY <1>5, <2>2, <2>4, <2>5
<1>8. F[N] = Set(map, k, val[N])
  <2>1. N \in 1 .. N
    BY <1>1
  <2>2. KeyedUp(N, F, map, k, val)
    BY <1>3, <1>7, Zenon DEF OosSteps, KeyedUp
  <2>3. \A m \in 1 .. N : F[m] = Set(map, k, val[m])
    BY <2>2, KeyedSteps
  <2>. QED  BY <2>1, <2>3
<1>9. val[N] = OosValue(ps \o pkts)
  <2>1. N \in 0 .. N
    BY <1>1
  <2>. QED  BY <1>5, <1>6, <2>1, Zenon
<1>. QED
  BY <1>3, <1>8, <1>9 DEF OosSteps

-----------------------------------------------------------------------------
(***************************************************************************)
(* flowlet_size_histogram: the flowlets of a key                           *)
(***************************************************************************)
\* Flowlets, in parts.
Cuts(ps) == {m \in DOMAIN ps : m = 1 \/ (ps[m].ts - ps[m - 1].ts) % TsW > Alpha}
FlowletOf(ps, m) == Cardinality({c \in Cuts(ps) : c <= m})
Members(ps, f) == {m \in DOMAIN ps : FlowletOf(ps, m) = f}
FlowletValue(ps) == [ts |-> ps[Len(ps)].ts, sizes |-> Flowlets(ps)]

LEMMA FlowletsAre ==
    ASSUME NEW ps
    PROVE  Flowlets(ps) = [f \in 1 .. Cardinality(Cuts(ps)) |-> Cardinality(Members(ps, f))]
BY Zenon DEF Flowlets, Cuts, FlowletOf, Members

LEMMA FlowletTypes ==
    ASSUME NEW ps \in Seq(Packet)
    PROVE  /\ IsFiniteSet(Cuts(ps)) /\ Cardinality(Cuts(ps)) \in Nat
           /\ ps # <<>> => Cardinality(Cuts(ps)) # 0
           /\ \A f : IsFiniteSet(Members(ps, f)) /\ Cardinality(Members(ps, f)) \in Nat
           /\ \A m : FlowletOf(ps, m) \in Nat /\ FlowletOf(ps, m) <= Cardinality(Cuts(ps))
           /\ Flowlets(ps) \in Seq(Nat) /\ Len(Flowlets(ps)) = Cardinality(Cuts(ps))
<1>. HIDE DEF Packet
<1>1. PICK l \in Nat : l = Len(ps) /\ DOMAIN ps = 1 .. l /\ (ps # <<>> => 1 \in 1 .. l)
  BY LenProperties, EmptySeq
<1>2. IsFiniteSet(1 .. l)
  BY CountOfInterval
<1>3. IsFiniteSet(Cuts(ps)) /\ Cardinality(Cuts(ps)) \in Nat
  <2>1. Cuts(ps) \subseteq 1 .. l
    BY <1>1 DEF Cuts
  <2>. QED  BY <1>2, <2>1, FS_Subset, FS_CardinalityType
<1>4. ps # <<>> => Cardinality(Cuts(ps)) # 0
  <2>1. ps # <<>> => 1 \in Cuts(ps)
    BY <1>1 DEF Cuts
  <2>. QED  BY <1>3, <2>1, FS_EmptySet
<1>5. ASSUME NEW f PROVE IsFiniteSet(Members(ps, f)) /\ Cardinality(Members(ps, f)) \in Nat
  <2>1. Members(ps, f) \subseteq 1 .. l
    BY <1>1 DEF Members
  <2>. QED  BY <1>2, <2>1, FS_Subset, FS_CardinalityType
<1>6. ASSUME NEW m PROVE FlowletOf(ps, m) \in Nat /\ FlowletOf(ps, m) <= Cardinality(Cuts(ps))
  <2>1. PICK S : S = {c \in Cuts(ps) : c <= m} /\ S \subseteq Cuts(ps)
    OBVIOUS
  <2>2. IsFiniteSet(S) /\ Cardinality(S) \in Nat /\ Cardinality(S) <= Cardinality(Cuts(ps))
    BY <1>3, <2>1, FS_Subset, FS_CardinalityType
  <2>. QED  BY <2>1, <2>2 DEF FlowletOf
<1>7. Flowlets(ps) \in Seq(Nat) /\ Len(Flowlets(ps)) = Cardinality(Cuts(ps))
  <2>1. PICK n \in Nat : n = Cardinality(Cuts(ps))
    BY <1>3
  <2>2. Flowlets(ps) \in [1 .. n -> Nat]
    BY <1>5, <2>1, FlowletsAre
  <2>. QED  BY <2>1, <2>2, IsASeq, LenProperties
<1>. QED
  BY <1>3, <1>4, <1>5, <1>6, <1>7

\* A packet more begins a flowlet or is in the last one.
LEMMA FlowletAppend ==
    ASSUME NEW ps \in Seq(Packet), NEW p \in Packet, NEW l \in Nat, l = Len(ps), NEW c,
           c <=> (l = 0 \/ (p.ts - ps[l].ts) % TsW > Alpha)
    PROVE  LET n == Cardinality(Cuts(ps))
               s == Flowlets(ps)
           IN  Flowlets(Append(ps, p)) = IF c THEN Append(s, 1) ELSE [s EXCEPT ![n] = @ + 1]
<1>. HIDE DEF Packet
<1>1. PICK qs \in Seq(Packet) : qs = Append(ps, p)
  BY OneMorePacket
<1>2. /\ Len(qs) = l + 1 /\ qs[l + 1] = p /\ DOMAIN qs = 1 .. l + 1 /\ DOMAIN ps = 1 .. l
      /\ \A m \in 1 .. l : qs[m] = ps[m]
  BY <1>1, OneMorePacket
<1>3. /\ c => Cuts(qs) = Cuts(ps) \cup {l + 1}
      /\ ~c => Cuts(qs) = Cuts(ps)
      /\ l + 1 \notin Cuts(ps)
  <2>1. ASSUME NEW m \in 1 .. l PROVE m \in Cuts(qs) <=> m \in Cuts(ps)
    <3>1. m \in 1 .. l + 1 /\ qs[m] = ps[m]
      BY <1>2
    <3>2. CASE m = 1
      BY <1>2, <3>1, <3>2 DEF Cuts
    <3>3. CASE m # 1
      <4>1. PICK j \in 1 .. l : j = m - 1
        BY <3>3
      <4>2. qs[j] = ps[j]
        BY <1>2
      <4>. QED  BY <1>2, <3>1, <3>3, <4>1, <4>2 DEF Cuts
    <3>. QED  BY <3>2, <3>3
  <2>2. l + 1 \in Cuts(qs) <=> c
    <3>1. CASE l = 0
      BY <1>2, <3>1 DEF Cuts
    <3>2. CASE l # 0
      <4>1. l \in 1 .. l /\ l + 1 \in 1 .. l + 1 /\ (l + 1) - 1 = l /\ l + 1 # 1
        BY <3>2
      <4>2. qs[l] = ps[l]
        BY <1>2, <4>1
      <4>. QED  BY <1>2, <3>2, <4>1, <4>2 DEF Cuts
    <3>. QED  BY <3>1, <3>2
  <2>3. Cuts(qs) \subseteq (1 .. l) \cup {l + 1} /\ Cuts(ps) \subseteq 1 .. l
    BY <1>2 DEF Cuts
  <2>. QED  BY <2>1, <2>2, <2>3
<1>4. PICK n \in Nat : n = Cardinality(Cuts(ps)) /\ IsFiniteSet(Cuts(ps)) /\ (l # 0 => n # 0)
  BY FlowletTypes, EmptySeq
<1>5. PICK n2 \in Nat : n2 = Cardinality(Cuts(qs)) /\ n2 = IF c THEN n + 1 ELSE n
  BY <1>3, <1>4, CountMore
<1>6. ASSUME NEW m \in 1 .. l PROVE FlowletOf(qs, m) = FlowletOf(ps, m)
  <2>1. \A d \in Cuts(qs) : d <= m => d \in Cuts(ps)
    BY <1>3
  <2>2. Cuts(ps) \subseteq Cuts(qs)
    BY <1>3
  <2>3. {d \in Cuts(qs) : d <= m} = {d \in Cuts(ps) : d <= m}
    BY <2>1, <2>2
  <2>. QED  BY <2>3 DEF FlowletOf
<1>7. FlowletOf(qs, l + 1) = n2
  <2>1. \A d \in Cuts(qs) : d <= l + 1
    BY <1>2 DEF Cuts
  <2>2. {d \in Cuts(qs) : d <= l + 1} = Cuts(qs)
    BY <2>1
  <2>. QED  BY <1>5, <2>2 DEF FlowletOf
<1>8. ASSUME NEW f \in Nat
      PROVE  /\ IsFiniteSet(Members(ps, f)) /\ l + 1 \notin Members(ps, f)
             /\ Cardinality(Members(ps, f)) \in Nat
             /\ Cardinality(Members(qs, f)) = IF f = n2 THEN Cardinality(Members(ps, f)) + 1
                                              ELSE Cardinality(Members(ps, f))
  <2>1. IsFiniteSet(Members(ps, f)) /\ Cardinality(Members(ps, f)) \in Nat
    BY FlowletTypes
  <2>2. \A m \in 1 .. l : m \in Members(qs, f) <=> m \in Members(ps, f)
    BY <1>2, <1>6 DEF Members
  <2>3. l + 1 \in Members(qs, f) <=> f = n2
    BY <1>2, <1>7 DEF Members
  <2>4. Members(qs, f) \subseteq (1 .. l) \cup {l + 1} /\ Members(ps, f) \subseteq 1 .. l
    BY <1>2 DEF Members
  <2>5. l + 1 \notin Members(ps, f)
    BY <2>4
  <2>6. /\ f = n2 => Members(qs, f) = Members(ps, f) \cup {l + 1}
        /\ f # n2 => Members(qs, f) = Members(ps, f)
    BY <2>2, <2>3, <2>4
  <2>. QED  BY <2>1, <2>5, <2>6, CountMore
<1>9. Flowlets(qs) = [f \in 1 .. n2 |-> Cardinality(Members(qs, f))]
      /\ Flowlets(ps) = [f \in 1 .. n |-> Cardinality(Members(ps, f))]
  BY <1>4, <1>5, FlowletsAre
<1>10. PICK s \in Seq(Nat) : s = Flowlets(ps) /\ Len(s) = n /\ s \in [1 .. n -> Nat]
  <2>1. Flowlets(ps) \in Seq(Nat) /\ Len(Flowlets(ps)) = n
    BY <1>4, FlowletTypes
  <2>. QED  BY <2>1, ElementOfSeq, LenProperties
<1>11. PICK t \in Seq(Nat) : t = Flowlets(qs) /\ Len(t) = n2 /\ DOMAIN t = 1 .. n2
  <2>1. Flowlets(qs) \in Seq(Nat) /\ Len(Flowlets(qs)) = n2
    BY <1>5, FlowletTypes
  <2>. QED  BY <2>1, LenProperties
<1>12. CASE c
  <2>1. n2 = n + 1
    BY <1>5, <1>12
  <2>2. t[n + 1] = 1
    <3>1. Members(ps, n + 1) = {}
      <4>1. \A m : FlowletOf(ps, m) \in Nat /\ FlowletOf(ps, m) <= n
        BY <1>4, FlowletTypes
      <4>. QED  BY <4>1 DEF Members
    <3>2. Cardinality(Members(ps, n + 1)) = 0
      BY <3>1, FS_EmptySet
    <3>3. n + 1 \in Nat /\ n + 1 \in 1 .. n2
      BY <2>1
    <3>4. Cardinality(Members(qs, n + 1)) = 1
      <4>1. PICK f \in Nat : f = n + 1 /\ f = n2
        BY <2>1, <3>3
      <4>2. Cardinality(Members(qs, f)) = Cardinality(Members(ps, f)) + 1
        BY <1>8, <4>1
      <4>. QED  BY <3>2, <4>1, <4>2
    <3>. QED  BY <1>9, <1>11, <3>3, <3>4
  <2>3. ASSUME NEW f \in 1 .. n PROVE t[f] = s[f]
    <3>1. f \in Nat /\ f # n2 /\ f \in 1 .. n2
      BY <2>1
    <3>. QED  BY <1>8, <1>9, <1>10, <1>11, <3>1
  <2>4. /\ Append(s, 1) \in Seq(Nat) /\ Len(Append(s, 1)) = n + 1 /\ Append(s, 1)[n + 1] = 1
        /\ \A f \in 1 .. n : Append(s, 1)[f] = s[f]
    <3>1. PICK o \in Nat : o = 1
      OBVIOUS
    <3>2. /\ Append(s, o) \in Seq(Nat) /\ Len(Append(s, o)) = n + 1 /\ Append(s, o)[n + 1] = o
          /\ \A f \in 1 .. n : Append(s, o)[f] = s[f]
      <4>1. PICK u : u = s /\ u \in Seq(Nat) /\ Len(u) = n
        BY <1>10
      <4>2. /\ Append(u, o) \in Seq(Nat) /\ Len(Append(u, o)) = n + 1
            /\ \A f \in 1 .. n : Append(u, o)[f] = u[f]
        BY <4>1, AppendProperties
      <4>3. Append(u, o)[Len(u) + 1] = o
        BY <4>1, AppendProperties
      <4>. QED  BY <4>1, <4>2, <4>3
    <3>. QED  BY <3>1, <3>2
  <2>5. ASSUME NEW f \in 1 .. n + 1 PROVE t[f] = Append(s, 1)[f]
    <3>1. f \in 1 .. n \/ f = n + 1
      OBVIOUS
    <3>. QED  BY <2>2, <2>3, <2>4, <3>1
  <2>6. t = Append(s, 1)
    BY <1>11, <2>1, <2>4, <2>5, SeqEqual
  <2>. QED  BY <1>1, <1>10, <1>11, <1>12, <2>6
<1>13. CASE ~c
  <2>1. n2 = n /\ n \in 1 .. n
    BY <1>4, <1>5, <1>13
  <2>2. ASSUME NEW f \in 1 .. n PROVE t[f] = IF f = n THEN s[f] + 1 ELSE s[f]
    <3>1. f \in Nat
      OBVIOUS
    <3>. QED  BY <1>8, <1>9, <1>10, <1>11, <2>1, <3>1
  <2>3. t = [f \in 1 .. n |-> IF f = n THEN s[f] + 1 ELSE s[f]]
    <3>1. t = [f \in 1 .. n |-> Cardinality(Members(qs, f))]
      BY <1>9, <1>11, <2>1
    <3>2. t = [f \in 1 .. n |-> t[f]]
      BY <3>1
    <3>. QED  BY <2>2, <3>2
  <2>4. [s EXCEPT ![n] = @ + 1] = [f \in 1 .. n |-> IF f = n THEN s[f] + 1 ELSE s[f]]
    BY <1>10, <2>1
  <2>. QED  BY <1>1, <1>4, <1>10, <1>11, <1>13, <2>3, <2>4
<1>. QED
  BY <1>12, <1>13

\* What it does to the entry of the key.
LEMMA FlowletStep ==
    ASSUME NEW ps \in Seq(Packet), NEW p \in Packet, NEW map, NEW k,
           IF k \in DOMAIN map THEN ps # <<>> /\ map[k] = FlowletValue(ps) ELSE ps = <<>>
    PROVE  Flowlet(map, k, p) = Set(map, k, FlowletValue(Append(ps, p)))
<1>. PICK qs : qs = Append(ps, p)
  OBVIOUS
<1>1. PICK l \in Nat : l = Len(ps)
  BY LenProperties
<1>2. /\ Len(qs) = l + 1 /\ qs[l + 1] = p
      /\ ps # <<>> => l \in 1 .. l /\ l # 0
      /\ ps = <<>> => l = 0
  <2>. HIDE DEF Packet
  <2>. QED  BY <1>1, OneMorePacket, EmptySeq
<1>3. TsW \in Nat \ {0} /\ Alpha \in Nat /\ p.ts \in 0 .. TsW - 1
  BY AnalysesAssumption DEF Packet
<1>. HIDE DEF Packet
<1>4. FlowletValue(qs) = [ts |-> p.ts, sizes |-> Flowlets(qs)]
  BY <1>2 DEF FlowletValue
<1>5. PICK f : f = At(map, k, [ts |-> p.ts, sizes |-> <<0>>])
  OBVIOUS
<1>6. Flowlet(map, k, p) = Set(map, k, [ts |-> p.ts,
                     sizes |-> IF (p.ts - f.ts) % TsW > Alpha
                               THEN Append(f.sizes, 1)
                               ELSE [f.sizes EXCEPT ![Len(f.sizes)] = @ + 1]])
  BY <1>5, Zenon DEF Flowlet
<1>7. (IF (p.ts - f.ts) % TsW > Alpha THEN Append(f.sizes, 1)
       ELSE [f.sizes EXCEPT ![Len(f.sizes)] = @ + 1]) = Flowlets(qs)
  <2>1. CASE k \in DOMAIN map
    <3>1. f = [ts |-> ps[l].ts, sizes |-> Flowlets(ps)] /\ l # 0
      BY <1>1, <1>2, <1>5, <2>1 DEF At, FlowletValue
    <3>2. PICK c : c <=> (p.ts - ps[l].ts) % TsW > Alpha
      OBVIOUS
    <3>3. PICK n, s : n = Cardinality(Cuts(ps)) /\ s = Flowlets(ps) /\ Len(s) = n
      BY FlowletTypes
    <3>4. Flowlets(qs) = IF c THEN Append(s, 1) ELSE [s EXCEPT ![n] = @ + 1]
      BY <1>1, <3>1, <3>2, <3>3, FlowletAppend
    <3>. QED  BY <3>1, <3>2, <3>3, <3>4
  <2>2. CASE k \notin DOMAIN map
    <3>1. f = [ts |-> p.ts, sizes |-> <<0>>] /\ l = 0 /\ ps = <<>>
      BY <1>2, <1>5, <2>2 DEF At
    <3>2. ~((p.ts - f.ts) % TsW > Alpha)
      <4>1. p.ts - f.ts = 0
        BY <1>3, <3>1
      <4>2. 0 % TsW = 0
        BY <1>3
      <4>. QED  BY <1>3, <4>1, <4>2
    <3>3. Flowlets(qs) = Append(Flowlets(ps), 1)
      BY <1>1, <3>1, FlowletAppend
    <3>4. Flowlets(ps) = <<>>
      <4>1. Cuts(ps) = {}
        BY <1>1, <3>1 DEF Cuts
      <4>2. Flowlets(ps) \in Seq(Nat) /\ Len(Flowlets(ps)) = 0
        BY <4>1, FlowletTypes, FS_EmptySet
      <4>. QED  BY <4>2, EmptySeq
    <3>5. [f.sizes EXCEPT ![Len(f.sizes)] = @ + 1] = <<1>>
      <4>1. PICK s : s = <<0>>
        OBVIOUS
      <4>2. Len(s) = 1 /\ s = [j \in 1 .. 1 |-> 0]
        BY <4>1
      <4>3. [s EXCEPT ![1] = @ + 1] = [j \in 1 .. 1 |-> 1]
        BY <4>2
      <4>4. [j \in 1 .. 1 |-> 1] = <<1>>
        OBVIOUS
      <4>. QED  BY <3>1, <4>1, <4>2, <4>3, <4>4
    <3>6. Append(<<>>, 1) = <<1>>
      OBVIOUS
    <3>. QED  BY <3>2, <3>3, <3>4, <3>5, <3>6
  <2>. QED  BY <2>1, <2>2
<1>. QED
  BY <1>4, <1>6, <1>7

\* The fold of a record, in steps.
FlowletEntries == [ts : Nat, sizes : Seq(Nat) \ {<<>>}]

LEMMA FlowletCloses ==
    ASSUME NEW map, NEW k, k \in DOMAIN map => map[k] \in FlowletEntries,
           NEW t \in KeyedMaps(map, k, FlowletEntries), NEW p \in Packet
    PROVE  Flowlet(t, k, p) \in KeyedMaps(map, k, FlowletEntries)
<1>1. p.ts \in Nat
  BY AnalysesAssumption DEF Packet
<1>2. PICK f : f = At(t, k, [ts |-> p.ts, sizes |-> <<0>>])
  OBVIOUS
<1>3. f.ts \in Nat /\ f.sizes \in Seq(Nat) /\ f.sizes # <<>>
  <2>1. CASE k \in DOMAIN t
    <3>1. f = t[k] /\ f \in FlowletEntries
      BY <1>2, <2>1, KeyedMapsAre DEF At
    <3>. QED  BY <3>1 DEF FlowletEntries
  <2>2. CASE k \notin DOMAIN t
    <3>1. f = [ts |-> p.ts, sizes |-> <<0>>]
      BY <1>2, <2>2 DEF At
    <3>2. <<0>> \in Seq(Nat) /\ <<0>> # <<>>
      OBVIOUS
    <3>. QED  BY <1>1, <3>1, <3>2
  <2>. QED  BY <2>1, <2>2
<1>4. PICK s \in Seq(Nat) : s = f.sizes /\ s # <<>>
  BY <1>3
<1>5. PICK n \in Nat : n = Len(s) /\ n \in 1 .. n /\ s \in [1 .. n -> Nat]
  BY <1>4, LenProperties, EmptySeq, ElementOfSeq
<1>6. Append(s, 1) \in Seq(Nat) /\ Append(s, 1) # <<>>
  <2>1. PICK o \in Nat : o = 1
    OBVIOUS
  <2>2. Append(s, o) \in Seq(Nat) /\ Append(s, o) # <<>>
    BY AppendProperties
  <2>. QED  BY <2>1, <2>2
<1>7. [s EXCEPT ![n] = @ + 1] \in Seq(Nat) /\ [s EXCEPT ![n] = @ + 1] # <<>>
  <2>1. PICK u : u = [s EXCEPT ![n] = @ + 1]
    OBVIOUS
  <2>2. u \in [1 .. n -> Nat]
    <3>1. PICK x \in Nat : x = s[n] + 1
      BY <1>5
    <3>2. u = [s EXCEPT ![n] = x]
      BY <2>1, <3>1
    <3>. QED  BY <1>5, <3>2
  <2>3. u \in Seq(Nat) /\ Len(u) = n
    BY <2>2, IsASeq, LenProperties
  <2>4. u # <<>>
    BY <1>5, <2>3, EmptySeq
  <2>. QED  BY <2>1, <2>3, <2>4
<1>8. PICK v : v = IF (p.ts - f.ts) % TsW > Alpha THEN Append(s, 1) ELSE [s EXCEPT ![n] = @ + 1]
  OBVIOUS
<1>9. [ts |-> p.ts, sizes |-> v] \in FlowletEntries
  BY <1>1, <1>6, <1>7, <1>8 DEF FlowletEntries
<1>10. Flowlet(t, k, p) = Set(t, k, [ts |-> p.ts, sizes |-> v])
  <2>1. Flowlet(t, k, p) = Set(t, k, [ts |-> p.ts,
                     sizes |-> IF (p.ts - f.ts) % TsW > Alpha
                               THEN Append(f.sizes, 1)
                               ELSE [f.sizes EXCEPT ![Len(f.sizes)] = @ + 1]])
    BY <1>2, Zenon DEF Flowlet
  <2>. QED  BY <1>4, <1>5, <1>8, <2>1
<1>. QED
  BY <1>9, <1>10, KeyedMapsAre

LEMMA FlowletValueType ==
    ASSUME NEW ps \in Seq(Packet), ps # <<>>
    PROVE  FlowletValue(ps) \in FlowletEntries
<1>1. PICK l \in Nat : l = Len(ps) /\ l \in 1 .. l
  <2>. HIDE DEF Packet
  <2>. QED  BY LenProperties, EmptySeq
<1>2. ps[l] \in Packet
  <2>. HIDE DEF Packet
  <2>. QED  BY <1>1, ElementOfSeq
<1>3. ps[l].ts \in Nat
  BY <1>2, AnalysesAssumption DEF Packet
<1>4. Flowlets(ps) \in Seq(Nat) /\ Flowlets(ps) # <<>>
  <2>. HIDE DEF Packet
  <2>1. /\ Flowlets(ps) \in Seq(Nat) /\ Len(Flowlets(ps)) = Cardinality(Cuts(ps))
        /\ Cardinality(Cuts(ps)) # 0
    BY FlowletTypes
  <2>. QED  BY <2>1, EmptySeq
<1>. QED
  BY <1>1, <1>3, <1>4 DEF FlowletValue, FlowletEntries

FlowletOver(s, k, pkts) == FoldLeft(LAMBDA t, p : Flowlet(t, k, p), s, pkts)

FlowletSteps(N, map, k, pkts, F) ==
    /\ F[0] = map /\ F[N] = FlowletOver(map, k, pkts)
    /\ \A l, m \in 0 .. N : m = l + 1 => F[m] = Flowlet(F[l], k, pkts[m])

LEMMA FlowletFold ==
    ASSUME NEW map, NEW k, NEW pkts \in Seq(Packet), NEW N \in Nat, N = Len(pkts),
           k \in DOMAIN map => map[k] \in FlowletEntries
    PROVE  \E F : FlowletSteps(N, map, k, pkts, F)
<1>. HIDE DEF Packet
<1>. DEFINE T == KeyedMaps(map, k, FlowletEntries)
            rec(g) == [s \in SUBSET (1 .. N) |->
                          IF s = {} THEN map
                          ELSE Flowlet(g[s \ {Max(s)}], k, pkts[Max(s)])]
            iter == CHOOSE g : g = rec(g)
            op == [x \in (1 .. N) \X T |-> Flowlet(x[2], k, pkts[x[1]])]
<1>1. DOMAIN pkts = 1 .. N
  BY LenProperties
<1>2. FlowletOver(map, k, pkts) = iter[1 .. N]
  <2>1. FlowletOver(map, k, pkts) =
           (CHOOSE g : g = [s \in SUBSET DOMAIN pkts |->
               IF s = {} THEN map
               ELSE Flowlet(g[s \ {Max(s)}], k, pkts[Max(s)])])[DOMAIN pkts]
    BY Zenon DEF FlowletOver, FoldLeft, MapThenFoldSet
  <2>. QED  BY <1>1, <2>1
<1>3. op \in [(1 .. N) \X T -> T]
      /\ \A m \in 1 .. N, t \in T : op[<<m, t>>] = Flowlet(t, k, pkts[m])
  <2>1. \A m \in 1 .. N : pkts[m] \in Packet
    BY <1>1, ElementOfSeq
  <2>2. \A m \in 1 .. N, t \in T : Flowlet(t, k, pkts[m]) \in T
    BY <2>1, FlowletCloses
  <2>. HIDE DEF T
  <2>. QED  BY <2>2
<1>. HIDE DEF op
<1>4. map \in T
  BY DEF KeyedMaps
<1>. HIDE DEF T
<1>5. PICK g \in [SUBSET (1 .. N) -> T] : FoldsUp(N, map, T, op, g)
  BY <1>3, <1>4, FoldRecursion
<1>6. \A s \in SUBSET (1 .. N) : s # {} => Max(s) \in 1 .. N /\ s \ {Max(s)} \in SUBSET (1 .. N)
  BY MaxOfBounded
<1>7. g = rec(g)
  <2>1. ASSUME NEW s \in SUBSET (1 .. N)
        PROVE  g[s] = IF s = {} THEN map
                      ELSE Flowlet(g[s \ {Max(s)}], k, pkts[Max(s)])
    <3>1. PICK x : x = Max(s)
      OBVIOUS
    <3>2. s # {} => x \in 1 .. N /\ g[s \ {x}] \in T
      BY <1>6, <3>1
    <3>. QED  BY <1>3, <1>5, <3>1, <3>2 DEF FoldsUp
  <2>. QED  BY <2>1
<1>8. iter = rec(iter)
  <2>. HIDE DEF rec
  <2>. QED  BY <1>7, Zenon
<1>. HIDE DEF iter
<1>9. FoldsUp(N, map, T, op, iter)
  <2>1. ASSUME NEW s \in SUBSET (1 .. N), s # {}, iter[s \ {Max(s)}] \in T
        PROVE  iter[s] = op[<<Max(s), iter[s \ {Max(s)}]>>]
    <3>1. PICK x : x = Max(s)
      OBVIOUS
    <3>2. x \in 1 .. N
      BY <1>6, <2>1, <3>1
    <3>3. iter[s] = Flowlet(iter[s \ {x}], k, pkts[x])
      BY <1>8, <2>1, <3>1
    <3>. QED  BY <1>3, <2>1, <3>1, <3>2, <3>3
  <2>2. iter[{}] = map
    BY <1>8
  <2>. QED  BY <2>1, <2>2 DEF FoldsUp
<1>10. PICK F \in [0 .. N -> T] : Steps(N, map, op, F) /\ F[N] = iter[1 .. N]
  <2>1. Folded(N, map, T, op, iter[1 .. N])
    BY <1>3, <1>4, <1>9, FoldSteps
  <2>. QED  BY <2>1 DEF Folded
<1>11. ASSUME NEW l \in 0 .. N, NEW m \in 0 .. N, m = l + 1
       PROVE  F[m] = Flowlet(F[l], k, pkts[m])
  <2>1. m \in 1 .. N /\ F[l] \in T
    BY <1>11
  <2>2. F[m] = op[<<m, F[l]>>]
    BY <1>10, <1>11, Zenon DEF Steps
  <2>. QED  BY <1>3, <2>1, <2>2
<1>. QED
  BY <1>2, <1>10, <1>11 DEF Steps, FlowletSteps

\* The entry of the key after all packets of a record.
LEMMA FlowletRecord ==
    ASSUME NEW ps \in Seq(Packet), NEW map, NEW k, NEW pkts \in Seq(Packet), pkts # <<>>,
           IF k \in DOMAIN map THEN ps # <<>> /\ map[k] = FlowletValue(ps) ELSE ps = <<>>
    PROVE  FlowletOver(map, k, pkts) = Set(map, k, FlowletValue(ps \o pkts))
<1>. HIDE DEF Packet
<1>1. PICK N \in Nat : N = Len(pkts) /\ N \in 1 .. N
  BY LenProperties, EmptySeq
<1>2. k \in DOMAIN map => map[k] \in FlowletEntries
  BY FlowletValueType
<1>3. PICK F : FlowletSteps(N, map, k, pkts, F)
  BY <1>1, <1>2, FlowletFold
<1>4. PICK q : Grows(ps, pkts, N, q)
  BY <1>1, PacketPrefixes
<1>5. PICK val : val = [l \in 0 .. N |-> FlowletValue(q[l])]
  OBVIOUS
<1>6. /\ q[0] = ps /\ q[N] = ps \o pkts
      /\ \A l \in 0 .. N : q[l] \in Seq(Packet)
      /\ \A l, m \in 0 .. N : m = l + 1 => pkts[m] \in Packet /\ q[m] = Append(q[l], pkts[m])
  BY <1>4, Zenon DEF Grows
<1>7. ASSUME NEW l \in 0 .. N, NEW m \in 0 .. N, m = l + 1,
             l = 0 \/ F[l] = Set(map, k, val[l])
      PROVE  F[m] = Set(F[l], k, val[m])
  <2>1. PICK u \in Seq(Packet) : u = q[l]
    BY <1>6
  <2>2. PICK p \in Packet : p = pkts[m] /\ q[m] = Append(u, p)
    BY <1>6, <1>7, <2>1
  <2>3. IF k \in DOMAIN F[l] THEN u # <<>> /\ F[l][k] = FlowletValue(u) ELSE u = <<>>
    <3>1. CASE l = 0
      BY <1>3, <1>6, <2>1, <3>1 DEF FlowletSteps
    <3>2. CASE l # 0
      <4>1. k \in DOMAIN F[l] /\ F[l][k] = FlowletValue(u)
        BY <1>5, <1>7, <2>1, <3>2 DEF Set
      <4>2. PICK j \in 0 .. N : l = j + 1
        <5>1. l - 1 \in 0 .. N /\ l = (l - 1) + 1
          BY <3>2
        <5>. QED  BY <5>1
      <4>3. u # <<>>
        <5>1. PICK w \in Seq(Packet), x \in Packet : u = Append(w, x)
          BY <1>6, <2>1, <4>2
        <5>. QED  BY <5>1, OneMorePacket
      <4>. QED  BY <4>1, <4>3
    <3>. QED  BY <3>1, <3>2
  <2>4. Flowlet(F[l], k, p) = Set(F[l], k, FlowletValue(Append(u, p)))
    BY <2>3, FlowletStep
  <2>5. F[m] = Flowlet(F[l], k, p)
    BY <1>3, <1>7, <2>2 DEF FlowletSteps
  <2>. QED  BY <1>5, <2>2, <2>4, <2>5
<1>8. F[N] = Set(map, k, val[N])
  <2>1. N \in 1 .. N
    BY <1>1
  <2>2. KeyedUp(N, F, map, k, val)
    BY <1>3, <1>7, Zenon DEF FlowletSteps, KeyedUp
  <2>3. \A m \in 1 .. N : F[m] = Set(map, k, val[m])
    BY <2>2, KeyedSteps
  <2>. QED  BY <2>1, <2>3
<1>9. val[N] = FlowletValue(ps \o pkts)
  <2>1. N \in 0 .. N
    BY <1>1
  <2>. QED  BY <1>5, <1>6, <2>1, Zenon
<1>. QED
  BY <1>3, <1>8, <1>9 DEF FlowletSteps

-----------------------------------------------------------------------------
(***************************************************************************)
(* ewma_latencies                                                          *)
(***************************************************************************)
\* The steps of flow_ewma over the packets of a record.
EwmaNext(a, k, p) ==
    [map |-> Ewma(a.map, k, p.lat), out |-> Append(a.out, Ewma(a.map, k, p.lat)[k])]
EwmaOver(s, k, pkts) ==
    FoldLeft(LAMBDA a, p : EwmaNext(a, k, p), [map |-> s, out |-> <<>>], pkts)
EwmaStates(map, k) == [map : KeyedMaps(map, k, Nat), out : Seq(Nat)]
EwmaSteps(N, map, k, pkts, F) ==
    /\ F[0] = [map |-> map, out |-> <<>>] /\ F[N] = EwmaOver(map, k, pkts)
    /\ \A l, m \in 0 .. N : m = l + 1 => F[m] = EwmaNext(F[l], k, pkts[m])

LEMMA EwmaIs ==
    ASSUME NEW s, NEW r
    PROVE  FlowEwma(s, r) = Emits(EwmaOver(s, r.key, r.pkts).map,
                                  <<r.key, EwmaOver(s, r.key, r.pkts).out>>)
BY Zenon DEF FlowEwma, EwmaOver, EwmaNext

\* x is within the range of the latencies of ps.
Within(ps, x) ==
    /\ x \in Nat
    /\ \E p \in ToSet(ps) : p.lat <= x
    /\ \E p \in ToSet(ps) : x <= p.lat

LEMMA WithinMore ==
    ASSUME NEW ps \in Seq(Packet), NEW p \in Packet, NEW x, Within(ps, x)
    PROVE  Within(Append(ps, p), x)
<1>. HIDE DEF Packet
<1>1. PICK qs : qs = Append(ps, p)
  OBVIOUS
<1>2. ToSet(ps) \subseteq ToSet(qs)
  <2>1. \A m \in DOMAIN ps : m \in DOMAIN qs /\ qs[m] = ps[m]
    BY <1>1, OneMorePacket
  <2>. QED  BY <2>1 DEF ToSet
<1>. QED
  BY <1>1, <1>2 DEF Within

\* An average with one more value, cut off, is within the range.
LEMMA EwmaStep ==
    ASSUME NEW ps \in Seq(Packet), NEW p \in Packet, NEW map, NEW k,
           k \in DOMAIN map => Within(ps, map[k])
    PROVE  \E x : Within(Append(ps, p), x) /\ Ewma(map, k, p.lat) = Set(map, k, x)
<1>1. PICK v \in Nat : v = p.lat
  BY DEF Packet
<1>. HIDE DEF Packet
<1>2. PICK qs : qs = Append(ps, p)
  OBVIOUS
<1>3. p \in ToSet(qs)
  <2>1. PICK l \in Nat : l = Len(ps)
    BY OneMorePacket
  <2>2. l + 1 \in DOMAIN qs /\ qs[l + 1] = p
    BY <1>2, <2>1, OneMorePacket
  <2>. QED  BY <2>2 DEF ToSet
<1>4. CASE k \in DOMAIN map
  <2>1. PICK a \in Nat : a = map[k] /\ Within(qs, a)
    BY <1>2, <1>4, WithinMore DEF Within
  <2>2. PICK x \in Nat : x = (9 * a + v) \div 10
    OBVIOUS
  <2>3. (a <= v => a <= x /\ x <= v) /\ (v <= a => v <= x /\ x <= a)
    BY <2>2
  <2>4. PICK y \in ToSet(qs) : y.lat <= a
    BY <2>1 DEF Within
  <2>5. PICK z \in ToSet(qs) : a <= z.lat
    BY <2>1 DEF Within
  <2>6. y.lat \in Nat /\ z.lat \in Nat
    <3>1. qs \in Seq(Packet) /\ \A q \in ToSet(qs) : q \in Packet
      <4>1. qs \in Seq(Packet)
        BY <1>2, OneMorePacket
      <4>2. DOMAIN qs = 1 .. Len(qs)
        BY <4>1, LenProperties
      <4>. QED  BY <4>1, <4>2, ElementOfSeq DEF ToSet
    <3>2. y \in Packet /\ z \in Packet
      BY <3>1
    <3>. QED  BY <3>2 DEF Packet
  <2>7. Within(qs, x)
    <3>1. CASE a <= v
      <4>1. y.lat <= x /\ x <= p.lat
        BY <1>1, <2>3, <2>4, <2>6, <3>1
      <4>. QED  BY <1>3, <4>1 DEF Within
    <3>2. CASE ~(a <= v)
      <4>1. p.lat <= x /\ x <= z.lat
        BY <1>1, <2>3, <2>5, <2>6, <3>2
      <4>. QED  BY <1>3, <4>1 DEF Within
    <3>. QED  BY <3>1, <3>2
  <2>8. Ewma(map, k, v) = Set(map, k, x)
    BY <1>4, <2>1, <2>2 DEF Ewma
  <2>. QED  BY <1>1, <1>2, <2>7, <2>8
<1>5. CASE k \notin DOMAIN map
  <2>1. Ewma(map, k, v) = Set(map, k, v)
    BY <1>5 DEF Ewma
  <2>2. Within(qs, v)
    BY <1>1, <1>3 DEF Within
  <2>. QED  BY <1>1, <1>2, <2>1, <2>2
<1>. QED
  BY <1>4, <1>5

\* The fold of a record, in steps.
LEMMA EwmaCloses ==
    ASSUME NEW map, NEW k, k \in DOMAIN map => map[k] \in Nat,
           NEW a \in EwmaStates(map, k), NEW p \in Packet
    PROVE  EwmaNext(a, k, p) \in EwmaStates(map, k)
<1>1. PICK v \in Nat : v = p.lat
  BY DEF Packet
<1>2. PICK t \in KeyedMaps(map, k, Nat) : t = a.map
  BY DEF EwmaStates
<1>3. PICK x \in Nat : Ewma(t, k, v) = Set(t, k, x)
  <2>1. CASE k \in DOMAIN t
    <3>1. PICK b \in Nat : b = t[k]
      BY <2>1, KeyedMapsAre
    <3>2. PICK x \in Nat : x = (9 * b + v) \div 10
      OBVIOUS
    <3>. QED  BY <2>1, <3>1, <3>2 DEF Ewma
  <2>2. CASE k \notin DOMAIN t
    BY <2>2 DEF Ewma
  <2>. QED  BY <2>1, <2>2
<1>4. PICK u : u = Ewma(t, k, v)
  OBVIOUS
<1>5. u[k] = x /\ u \in KeyedMaps(map, k, Nat)
  <2>1. u[k] = x
    BY <1>3, <1>4 DEF Set
  <2>. QED  BY <1>3, <1>4, <2>1, KeyedMapsAre
<1>6. Append(a.out, x) \in Seq(Nat)
  BY AppendProperties DEF EwmaStates
<1>. QED
  BY <1>1, <1>2, <1>4, <1>5, <1>6 DEF EwmaNext, EwmaStates

LEMMA EwmaFold ==
    ASSUME NEW map, NEW k, NEW pkts \in Seq(Packet), NEW N \in Nat, N = Len(pkts),
           k \in DOMAIN map => map[k] \in Nat
    PROVE  \E F : EwmaSteps(N, map, k, pkts, F)
<1>. HIDE DEF Packet
<1>. DEFINE base == [map |-> map, out |-> <<>>]
            T == EwmaStates(map, k)
            rec(g) == [s \in SUBSET (1 .. N) |->
                          IF s = {} THEN base
                          ELSE EwmaNext(g[s \ {Max(s)}], k, pkts[Max(s)])]
            iter == CHOOSE g : g = rec(g)
            op == [x \in (1 .. N) \X T |-> EwmaNext(x[2], k, pkts[x[1]])]
<1>1. DOMAIN pkts = 1 .. N
  BY LenProperties
<1>2. EwmaOver(map, k, pkts) = iter[1 .. N]
  <2>1. EwmaOver(map, k, pkts) =
           (CHOOSE g : g = [s \in SUBSET DOMAIN pkts |->
               IF s = {} THEN base
               ELSE EwmaNext(g[s \ {Max(s)}], k, pkts[Max(s)])])[DOMAIN pkts]
    BY Zenon DEF EwmaOver, FoldLeft, MapThenFoldSet
  <2>. QED  BY <1>1, <2>1
<1>3. op \in [(1 .. N) \X T -> T]
      /\ \A m \in 1 .. N, t \in T : op[<<m, t>>] = EwmaNext(t, k, pkts[m])
  <2>1. \A m \in 1 .. N : pkts[m] \in Packet
    BY <1>1, ElementOfSeq
  <2>2. \A m \in 1 .. N, t \in T : EwmaNext(t, k, pkts[m]) \in T
    BY <2>1, EwmaCloses
  <2>. HIDE DEF T
  <2>. QED  BY <2>2
<1>. HIDE DEF op
<1>4. base \in T
  BY EmptySeq DEF KeyedMaps, EwmaStates
<1>. HIDE DEF T, base
<1>5. PICK g \in [SUBSET (1 .. N) -> T] : FoldsUp(N, base, T, op, g)
  BY <1>3, <1>4, FoldRecursion
<1>6. \A s \in SUBSET (1 .. N) : s # {} => Max(s) \in 1 .. N /\ s \ {Max(s)} \in SUBSET (1 .. N)
  BY MaxOfBounded
<1>7. g = rec(g)
  <2>1. ASSUME NEW s \in SUBSET (1 .. N)
        PROVE  g[s] = IF s = {} THEN base
                      ELSE EwmaNext(g[s \ {Max(s)}], k, pkts[Max(s)])
    <3>1. PICK x : x = Max(s)
      OBVIOUS
    <3>2. s # {} => x \in 1 .. N /\ g[s \ {x}] \in T
      BY <1>6, <3>1
    <3>. QED  BY <1>3, <1>5, <3>1, <3>2 DEF FoldsUp
  <2>. QED  BY <2>1
<1>8. iter = rec(iter)
  <2>. HIDE DEF rec
  <2>. QED  BY <1>7, Zenon
<1>. HIDE DEF iter
<1>9. FoldsUp(N, base, T, op, iter)
  <2>1. ASSUME NEW s \in SUBSET (1 .. N), s # {}, iter[s \ {Max(s)}] \in T
        PROVE  iter[s] = op[<<Max(s), iter[s \ {Max(s)}]>>]
    <3>1. PICK x : x = Max(s)
      OBVIOUS
    <3>2. x \in 1 .. N
      BY <1>6, <2>1, <3>1
    <3>3. iter[s] = EwmaNext(iter[s \ {x}], k, pkts[x])
      BY <1>8, <2>1, <3>1
    <3>. QED  BY <1>3, <2>1, <3>1, <3>2, <3>3
  <2>2. iter[{}] = base
    BY <1>8
  <2>. QED  BY <2>1, <2>2 DEF FoldsUp
<1>10. PICK F \in [0 .. N -> T] : Steps(N, base, op, F) /\ F[N] = iter[1 .. N]
  <2>1. Folded(N, base, T, op, iter[1 .. N])
    BY <1>3, <1>4, <1>9, FoldSteps
  <2>. QED  BY <2>1 DEF Folded
<1>11. ASSUME NEW l \in 0 .. N, NEW m \in 0 .. N, m = l + 1
       PROVE  F[m] = EwmaNext(F[l], k, pkts[m])
  <2>1. m \in 1 .. N /\ F[l] \in T
    BY <1>11
  <2>2. F[m] = op[<<m, F[l]>>]
    BY <1>10, <1>11, Zenon DEF Steps
  <2>. QED  BY <1>3, <2>1, <2>2
<1>. QED
  BY <1>2, <1>10, <1>11 DEF Steps, EwmaSteps, base

\* After l packets: the entry of the key, and the averages so far, one for each.
EwmaAt(map, k, q, F, l) ==
    /\ \/ l = 0 /\ F[l].map = map
       \/ \E x : Within(q[l], x) /\ F[l].map = Set(map, k, x)
    /\ F[l].out \in Seq(Nat) /\ Len(F[l].out) = l
    /\ \A j \in 1 .. l : Within(q[l], F[l].out[j])

\* The entry of the key after all packets of a record, and what is pushed.
LEMMA EwmaRecord ==
    ASSUME NEW ps \in Seq(Packet), NEW map, NEW k, NEW pkts \in Seq(Packet), pkts # <<>>,
           k \in DOMAIN map => Within(ps, map[k])
    PROVE  \E x, out : /\ EwmaOver(map, k, pkts) = [map |-> Set(map, k, x), out |-> out]
                       /\ Within(ps \o pkts, x)
                       /\ out \in Seq(Nat) /\ Len(out) = Len(pkts)
                       /\ \A j \in 1 .. Len(pkts) : Within(ps \o pkts, out[j])
<1>. HIDE DEF Packet
<1>1. PICK N \in Nat : N = Len(pkts) /\ N \in 1 .. N /\ N \in 0 .. N
  BY LenProperties, EmptySeq
<1>2. k \in DOMAIN map => map[k] \in Nat
  BY DEF Within
<1>3. PICK F : EwmaSteps(N, map, k, pkts, F)
  BY <1>1, <1>2, EwmaFold
<1>4. PICK q : Grows(ps, pkts, N, q)
  BY <1>1, PacketPrefixes
<1>6. /\ q[0] = ps /\ q[N] = ps \o pkts
      /\ \A l \in 0 .. N : q[l] \in Seq(Packet)
      /\ \A l, m \in 0 .. N : m = l + 1 => pkts[m] \in Packet /\ q[m] = Append(q[l], pkts[m])
  BY <1>4, Zenon DEF Grows
<1>7. ASSUME NEW l \in 0 .. N, NEW m \in 0 .. N, m = l + 1, EwmaAt(map, k, q, F, l)
      PROVE  EwmaAt(map, k, q, F, m)
  <2>1. PICK u \in Seq(Packet) : u = q[l]
    BY <1>6
  <2>2. PICK p \in Packet : p = pkts[m] /\ q[m] = Append(u, p)
    BY <1>6, <1>7, <2>1
  <2>3. PICK t : t = F[l].map
    OBVIOUS
  <2>4. k \in DOMAIN t => Within(u, t[k])
    <3>1. CASE l = 0 /\ t = map
      BY <1>6, <2>1, <3>1
    <3>2. ASSUME NEW x, Within(u, x), t = Set(map, k, x)
          PROVE  Within(u, t[k])
      <4>1. t[k] = x
        BY <3>2 DEF Set
      <4>. QED  BY <3>2, <4>1
    <3>. QED  BY <1>7, <2>1, <2>3, <3>1, <3>2 DEF EwmaAt
  <2>5. PICK x : Within(Append(u, p), x) /\ Ewma(t, k, p.lat) = Set(t, k, x)
    BY <2>4, EwmaStep
  <2>6. F[m] = EwmaNext(F[l], k, p)
    BY <1>3, <1>7, <2>2 DEF EwmaSteps
  <2>7. PICK w : w = Ewma(t, k, p.lat)
    OBVIOUS
  <2>8. w[k] = x /\ w = Set(map, k, x)
    <3>1. w = Set(t, k, x) /\ w[k] = x
      BY <2>5, <2>7 DEF Set
    <3>2. t = map \/ \E y : t = Set(map, k, y)
      BY <1>7, <2>3 DEF EwmaAt
    <3>. QED  BY <3>1, <3>2, SetTwice
  <2>9. PICK b \in Seq(Nat) : b = F[l].out /\ Len(b) = l /\ \A j \in 1 .. l : Within(u, b[j])
    BY <1>7, <2>1 DEF EwmaAt
  <2>10. F[m].map = w /\ F[m].out = Append(b, x)
    BY <2>3, <2>6, <2>7, <2>8, <2>9 DEF EwmaNext
  <2>11. x \in Nat
    BY <2>5 DEF Within
  <2>12. /\ Append(b, x) \in Seq(Nat) /\ Len(Append(b, x)) = l + 1
         /\ \A j \in 1 .. l : Append(b, x)[j] = b[j]
         /\ Append(b, x)[l + 1] = x
    <3>1. PICK n \in Nat : n = l
      OBVIOUS
    <3>2. /\ Append(b, x) \in Seq(Nat) /\ Len(Append(b, x)) = n + 1
          /\ \A j \in 1 .. n : Append(b, x)[j] = b[j]
          /\ Append(b, x)[n + 1] = x
      BY <2>9, <2>11, <3>1, AppendProperties
    <3>. QED  BY <3>1, <3>2
  <2>13. \A j \in 1 .. l : Within(Append(u, p), b[j])
    BY <2>9, WithinMore
  <2>14. ASSUME NEW j \in 1 .. m PROVE Within(q[m], Append(b, x)[j])
    <3>1. j \in 1 .. l \/ j = l + 1
      BY <1>7
    <3>. QED  BY <2>2, <2>5, <2>12, <2>13, <3>1
  <2>. QED  BY <1>7, <2>2, <2>5, <2>8, <2>10, <2>12, <2>14 DEF EwmaAt
<1>8. EwmaAt(map, k, q, F, 0)
  <2>1. F[0] = [map |-> map, out |-> <<>>]
    BY <1>3 DEF EwmaSteps
  <2>. QED  BY <2>1, EmptySeq DEF EwmaAt
<1>9. \A l \in 0 .. N : EwmaAt(map, k, q, F, l)
  <2>. DEFINE Bad == {l \in 0 .. N : ~EwmaAt(map, k, q, F, l)}
  <2>. SUFFICES ASSUME Bad # {} PROVE FALSE
    OBVIOUS
  <2>1. PICK m \in Bad : \A j \in Bad : m <= j
    <3>1. Bad \in SUBSET Nat
      OBVIOUS
    <3>. HIDE DEF Bad
    <3>. QED  BY <3>1, NatMinimum
  <2>2. m # 0
    BY <1>8
  <2>3. PICK l \in 0 .. N : m = l + 1 /\ m \in 0 .. N
    <3>1. m \in 0 .. N
      OBVIOUS
    <3>2. m - 1 \in 0 .. N /\ m = (m - 1) + 1
      BY <2>2, <3>1
    <3>. QED  BY <3>1, <3>2
  <2>4. l \notin Bad
    <3>1. ~(m <= l)
      BY <2>3
    <3>. HIDE DEF Bad
    <3>. QED  BY <2>1, <3>1
  <2>. QED  BY <1>7, <2>3, <2>4
<1>10. EwmaAt(map, k, q, F, N) /\ N # 0
  BY <1>1, <1>9
<1>11. PICK x : Within(q[N], x) /\ F[N].map = Set(map, k, x)
  BY <1>10 DEF EwmaAt
<1>12. PICK out : /\ out = F[N].out /\ out \in Seq(Nat) /\ Len(out) = N
                  /\ \A j \in 1 .. N : Within(q[N], out[j])
  BY <1>10 DEF EwmaAt
<1>13. F[N] = [map |-> F[N].map, out |-> F[N].out]
  <2>1. PICK l \in 0 .. N : N = l + 1
    <3>1. N - 1 \in 0 .. N /\ N = (N - 1) + 1
      BY <1>1
    <3>. QED  BY <3>1
  <2>2. F[N] = EwmaNext(F[l], k, pkts[N])
    BY <1>1, <1>3, <2>1 DEF EwmaSteps
  <2>. QED  BY <2>2 DEF EwmaNext
<1>14. EwmaOver(map, k, pkts) = [map |-> Set(map, k, x), out |-> out]
  BY <1>3, <1>11, <1>12, <1>13 DEF EwmaSteps
<1>15. PICK a : a = ps \o pkts
  OBVIOUS
<1>16. q[N] = a
  BY <1>6, <1>15
<1>17. Within(ps \o pkts, x) /\ \A j \in 1 .. Len(pkts) : Within(ps \o pkts, out[j])
  BY <1>1, <1>11, <1>12, <1>15, <1>16
<1>18. out \in Seq(Nat) /\ Len(out) = Len(pkts)
  BY <1>1, <1>12
<1>. QED
  BY <1>14, <1>17, <1>18, Zenon

-----------------------------------------------------------------------------
(***************************************************************************)
(* flowlet_size_histogram: the histogram                                   *)
(***************************************************************************)
\* The steps of fl_size_histogram over the sizes of the flowlets.
HistNext(a, n) ==
    [map |-> Count(a.map, n, 1), out |-> Append(a.out, <<n, Count(a.map, n, 1)[n]>>)]
HistOver(s, sizes) ==
    FoldLeft(LAMBDA a, n : HistNext(a, n), [map |-> s, out |-> <<>>], sizes)
CountMaps == UNION {[D -> Nat] : D \in SUBSET Nat}
HistStates == [map : CountMaps, out : Seq(Nat \X Nat)]
HistSteps(N, map, sizes, F) ==
    /\ F[0] = [map |-> map, out |-> <<>>] /\ F[N] = HistOver(map, sizes)
    /\ \A l, m \in 0 .. N : m = l + 1 => F[m] = HistNext(F[l], sizes[m])

LEMMA HistIs ==
    ASSUME NEW s, NEW x
    PROVE  FlSizeHistogram(s, x) = Emits(HistOver(s, x).map, HistOver(s, x).out)
BY Zenon DEF FlSizeHistogram, HistOver, HistNext

\* Maps that count.
LEMMA CountMapsAre ==
    ASSUME NEW map \in CountMaps, NEW n \in Nat
    PROVE  /\ Count(map, n, 1) \in CountMaps /\ Count(map, n, 1)[n] \in Nat
           /\ \A v : At(map, v, 0) \in Nat
           /\ At(Count(map, n, 1), n, 0) = At(map, n, 0) + 1
           /\ Count(map, n, 1)[n] = At(map, n, 0) + 1
           /\ \A v : v # n => At(Count(map, n, 1), v, 0) = At(map, v, 0)
<1>1. PICK D \in SUBSET Nat : map \in [D -> Nat]
  BY DEF CountMaps
<1>2. \A v : At(map, v, 0) \in Nat
  BY <1>1 DEF At
<1>3. PICK x \in Nat : x = At(map, n, 0) + 1
  BY <1>2
<1>4. PICK t : t = Count(map, n, 1)
  OBVIOUS
<1>5. t = [j \in D \cup {n} |-> IF j = n THEN x ELSE map[j]]
  BY <1>1, <1>3, <1>4 DEF Count, Set
<1>6. t \in [D \cup {n} -> Nat] /\ D \cup {n} \in SUBSET Nat
  BY <1>1, <1>5
<1>7. At(t, n, 0) = x /\ t[n] = x /\ \A v : v # n => At(t, v, 0) = At(map, v, 0)
  BY <1>1, <1>5 DEF At
<1>. QED
  BY <1>2, <1>3, <1>4, <1>6, <1>7 DEF CountMaps

\* The fold, in steps.
LEMMA HistCloses ==
    ASSUME NEW a \in HistStates, NEW n \in Nat
    PROVE  HistNext(a, n) \in HistStates
<1>1. PICK t : t = Count(a.map, n, 1)
  OBVIOUS
<1>2. t \in CountMaps /\ t[n] \in Nat
  BY <1>1, CountMapsAre DEF HistStates
<1>3. PICK y \in Nat \X Nat : y = <<n, t[n]>>
  BY <1>2
<1>4. Append(a.out, y) \in Seq(Nat \X Nat)
  BY AppendProperties DEF HistStates
<1>. QED
  BY <1>1, <1>2, <1>3, <1>4 DEF HistNext, HistStates

LEMMA HistFold ==
    ASSUME NEW map, NEW sizes \in Seq(Nat), NEW N \in Nat, N = Len(sizes),
           map \in CountMaps
    PROVE  \E F : HistSteps(N, map, sizes, F)
<1>. DEFINE base == [map |-> map, out |-> <<>>]
            T == HistStates
            rec(g) == [s \in SUBSET (1 .. N) |->
                          IF s = {} THEN base
                          ELSE HistNext(g[s \ {Max(s)}], sizes[Max(s)])]
            iter == CHOOSE g : g = rec(g)
            op == [x \in (1 .. N) \X T |-> HistNext(x[2], sizes[x[1]])]
<1>1. DOMAIN sizes = 1 .. N
  BY LenProperties
<1>2. HistOver(map, sizes) = iter[1 .. N]
  <2>1. HistOver(map, sizes) =
           (CHOOSE g : g = [s \in SUBSET DOMAIN sizes |->
               IF s = {} THEN base
               ELSE HistNext(g[s \ {Max(s)}], sizes[Max(s)])])[DOMAIN sizes]
    BY Zenon DEF HistOver, FoldLeft, MapThenFoldSet
  <2>. QED  BY <1>1, <2>1
<1>3. op \in [(1 .. N) \X T -> T]
      /\ \A m \in 1 .. N, t \in T : op[<<m, t>>] = HistNext(t, sizes[m])
  <2>1. \A m \in 1 .. N : sizes[m] \in Nat
    BY <1>1, ElementOfSeq
  <2>2. \A m \in 1 .. N, t \in T : HistNext(t, sizes[m]) \in T
    BY <2>1, HistCloses
  <2>. HIDE DEF T
  <2>. QED  BY <2>2
<1>. HIDE DEF op
<1>4. base \in T
  BY EmptySeq DEF HistStates
<1>. HIDE DEF T, base
<1>5. PICK g \in [SUBSET (1 .. N) -> T] : FoldsUp(N, base, T, op, g)
  BY <1>3, <1>4, FoldRecursion
<1>6. \A s \in SUBSET (1 .. N) : s # {} => Max(s) \in 1 .. N /\ s \ {Max(s)} \in SUBSET (1 .. N)
  BY MaxOfBounded
<1>7. g = rec(g)
  <2>1. ASSUME NEW s \in SUBSET (1 .. N)
        PROVE  g[s] = IF s = {} THEN base
                      ELSE HistNext(g[s \ {Max(s)}], sizes[Max(s)])
    <3>1. PICK x : x = Max(s)
      OBVIOUS
    <3>2. s # {} => x \in 1 .. N /\ g[s \ {x}] \in T
      BY <1>6, <3>1
    <3>. QED  BY <1>3, <1>5, <3>1, <3>2 DEF FoldsUp
  <2>. QED  BY <2>1
<1>8. iter = rec(iter)
  <2>. HIDE DEF rec
  <2>. QED  BY <1>7, Zenon
<1>. HIDE DEF iter
<1>9. FoldsUp(N, base, T, op, iter)
  <2>1. ASSUME NEW s \in SUBSET (1 .. N), s # {}, iter[s \ {Max(s)}] \in T
        PROVE  iter[s] = op[<<Max(s), iter[s \ {Max(s)}]>>]
    <3>1. PICK x : x = Max(s)
      OBVIOUS
    <3>2. x \in 1 .. N
      BY <1>6, <2>1, <3>1
    <3>3. iter[s] = HistNext(iter[s \ {x}], sizes[x])
      BY <1>8, <2>1, <3>1
    <3>. QED  BY <1>3, <2>1, <3>1, <3>2, <3>3
  <2>2. iter[{}] = base
    BY <1>8
  <2>. QED  BY <2>1, <2>2 DEF FoldsUp
<1>10. PICK F \in [0 .. N -> T] : Steps(N, base, op, F) /\ F[N] = iter[1 .. N]
  <2>1. Folded(N, base, T, op, iter[1 .. N])
    BY <1>3, <1>4, <1>9, FoldSteps
  <2>. QED  BY <2>1 DEF Folded
<1>11. ASSUME NEW l \in 0 .. N, NEW m \in 0 .. N, m = l + 1
       PROVE  F[m] = HistNext(F[l], sizes[m])
  <2>1. m \in 1 .. N /\ F[l] \in T
    BY <1>11
  <2>2. F[m] = op[<<m, F[l]>>]
    BY <1>10, <1>11, Zenon DEF Steps
  <2>. QED  BY <1>3, <2>1, <2>2
<1>. QED
  BY <1>2, <1>10, <1>11 DEF Steps, HistSteps, base

\* The map counts as c says.
CountsAre(map, c) == \A v \in Nat : At(map, v, 0) = c[v]

\* After l sizes: how often each occurred, and the entries so far.
HistAt(C, sizes, F, l) ==
    /\ F[l].map \in CountMaps /\ CountsAre(F[l].map, C[l])
    /\ F[l].out \in Seq(Nat \X Nat) /\ Len(F[l].out) = l
    /\ \A f \in 1 .. l : F[l].out[f] = <<sizes[f], C[f][sizes[f]]>>

\* C[l] is how often each size occurred up to the l-th.
CountsUp(N, sizes, C) ==
    \A l, m \in 0 .. N : m = l + 1 =>
        \A v \in Nat : C[l][v] \in Nat /\ C[m][v] = IF v = sizes[m] THEN C[l][v] + 1 ELSE C[l][v]

\* The map after all sizes, and what is pushed.
LEMMA HistRecord ==
    ASSUME NEW map \in CountMaps, NEW sizes \in Seq(Nat), sizes # <<>>,
           NEW N \in Nat, N = Len(sizes), NEW C, CountsUp(N, sizes, C),
           CountsAre(map, C[0])
    PROVE  \E t \in CountMaps : \E out :
              /\ HistOver(map, sizes) = [map |-> t, out |-> out]
              /\ out = [f \in 1 .. N |-> <<sizes[f], C[f][sizes[f]]>>]
              /\ CountsAre(t, C[N])
<1>1. N \in 1 .. N /\ N \in 0 .. N /\ \A m \in 1 .. N : sizes[m] \in Nat
  BY EmptySeq, ElementOfSeq
<1>2. PICK F : HistSteps(N, map, sizes, F)
  BY HistFold
<1>7. ASSUME NEW l \in 0 .. N, NEW m \in 0 .. N, m = l + 1, HistAt(C, sizes, F, l)
      PROVE  HistAt(C, sizes, F, m)
  <2>1. PICK n \in Nat : n = sizes[m]
    BY <1>1, <1>7
  <2>2. PICK t \in CountMaps : t = F[l].map
    BY <1>7 DEF HistAt
  <2>3. PICK w : w = Count(t, n, 1)
    OBVIOUS
  <2>4. /\ w \in CountMaps /\ CountsAre(w, C[m])
        /\ w[n] = C[m][n] /\ w[n] \in Nat
    <3>1. \A v \in Nat : At(t, v, 0) = C[l][v]
      BY <1>7, <2>2 DEF HistAt, CountsAre
    <3>2. \A v \in Nat : C[m][v] = IF v = n THEN C[l][v] + 1 ELSE C[l][v]
      BY <1>7, <2>1 DEF CountsUp
    <3>3. /\ At(w, n, 0) = At(t, n, 0) + 1 /\ w[n] = At(t, n, 0) + 1
          /\ \A v : v # n => At(w, v, 0) = At(t, v, 0)
      BY <2>3, CountMapsAre
    <3>4. w \in CountMaps /\ w[n] \in Nat
      BY <2>3, CountMapsAre
    <3>. QED  BY <3>1, <3>2, <3>3, <3>4 DEF CountsAre
  <2>5. F[m] = HistNext(F[l], n)
    BY <1>2, <1>7, <2>1 DEF HistSteps
  <2>6. PICK b \in Seq(Nat \X Nat) : /\ b = F[l].out /\ Len(b) = l
                                     /\ \A f \in 1 .. l : b[f] = <<sizes[f], C[f][sizes[f]]>>
    BY <1>7 DEF HistAt
  <2>7. PICK y \in Nat \X Nat : y = <<n, w[n]>>
    BY <2>4
  <2>8. F[m].map = w /\ F[m].out = Append(b, y)
    BY <2>2, <2>3, <2>5, <2>6, <2>7 DEF HistNext
  <2>9. /\ Append(b, y) \in Seq(Nat \X Nat) /\ Len(Append(b, y)) = l + 1
        /\ \A f \in 1 .. l : Append(b, y)[f] = b[f]
        /\ Append(b, y)[l + 1] = y
    <3>1. PICK j \in Nat : j = l
      OBVIOUS
    <3>2. /\ Append(b, y) \in Seq(Nat \X Nat) /\ Len(Append(b, y)) = j + 1
          /\ \A f \in 1 .. j : Append(b, y)[f] = b[f]
          /\ Append(b, y)[j + 1] = y
      BY <2>6, <3>1, AppendProperties
    <3>. QED  BY <3>1, <3>2
  <2>10. ASSUME NEW f \in 1 .. m PROVE Append(b, y)[f] = <<sizes[f], C[f][sizes[f]]>>
    <3>1. f \in 1 .. l \/ f = l + 1
      BY <1>7
    <3>2. CASE f \in 1 .. l
      BY <2>6, <2>9, <3>2
    <3>3. CASE f = l + 1
      BY <1>7, <2>1, <2>4, <2>7, <2>9, <3>3
    <3>. QED  BY <3>1, <3>2, <3>3
  <2>. QED  BY <1>7, <2>4, <2>8, <2>9, <2>10 DEF HistAt
<1>8. HistAt(C, sizes, F, 0)
  <2>1. F[0] = [map |-> map, out |-> <<>>]
    BY <1>2 DEF HistSteps
  <2>. QED  BY <2>1, EmptySeq DEF HistAt
<1>9. \A l \in 0 .. N : HistAt(C, sizes, F, l)
  <2>. DEFINE Bad == {l \in 0 .. N : ~HistAt(C, sizes, F, l)}
  <2>. SUFFICES ASSUME Bad # {} PROVE FALSE
    OBVIOUS
  <2>1. PICK m \in Bad : \A j \in Bad : m <= j
    <3>1. Bad \in SUBSET Nat
      OBVIOUS
    <3>. HIDE DEF Bad
    <3>. QED  BY <3>1, NatMinimum
  <2>2. m # 0
    BY <1>8
  <2>3. PICK l \in 0 .. N : m = l + 1 /\ m \in 0 .. N
    <3>1. m \in 0 .. N
      OBVIOUS
    <3>2. m - 1 \in 0 .. N /\ m = (m - 1) + 1
      BY <2>2, <3>1
    <3>. QED  BY <3>1, <3>2
  <2>4. l \notin Bad
    <3>1. ~(m <= l)
      BY <2>3
    <3>. HIDE DEF Bad
    <3>. QED  BY <2>1, <3>1
  <2>. QED  BY <1>7, <2>3, <2>4
<1>10. HistAt(C, sizes, F, N)
  BY <1>1, <1>9
<1>11. PICK t \in CountMaps : t = F[N].map /\ CountsAre(t, C[N])
  BY <1>10 DEF HistAt
<1>12. PICK out \in Seq(Nat \X Nat) : /\ out = F[N].out /\ Len(out) = N
                                      /\ \A f \in 1 .. N : out[f] = <<sizes[f], C[f][sizes[f]]>>
  BY <1>10 DEF HistAt
<1>13. out = [f \in 1 .. N |-> <<sizes[f], C[f][sizes[f]]>>]
  <2>1. out \in [1 .. N -> Nat \X Nat]
    BY <1>12, ElementOfSeq, LenProperties
  <2>. QED  BY <1>12, <2>1
<1>14. HistOver(map, sizes) = [map |-> t, out |-> out]
  <2>1. PICK l \in 0 .. N : N = l + 1
    <3>1. N - 1 \in 0 .. N /\ N = (N - 1) + 1
      BY <1>1
    <3>. QED  BY <3>1
  <2>2. F[N] = HistNext(F[l], sizes[N])
    BY <1>1, <1>2, <2>1 DEF HistSteps
  <2>3. F[N] = [map |-> F[N].map, out |-> F[N].out]
    BY <2>2 DEF HistNext
  <2>. QED  BY <1>2, <1>11, <1>12, <2>3 DEF HistSteps
<1>. QED
  BY <1>11, <1>13, <1>14

-----------------------------------------------------------------------------
(***************************************************************************)
(* active_connections: a fold over a set of epochs                         *)
(***************************************************************************)
\* One more for each element of E.
Added(s, E) == [k \in DOMAIN s \cup E |-> IF k \in E THEN At(s, k, 0) + 1 ELSE At(s, k, 0)]

LEMMA AddedOne ==
    ASSUME NEW s, NEW E, NEW x \in E
    PROVE  Added(s, E) = Count(Added(s, E \ {x}), x, 1)
<1>1. PICK D : D = E \ {x}
  OBVIOUS
<1>2. PICK a : a = Added(s, D)
  OBVIOUS
<1>3. a = [k \in DOMAIN s \cup D |-> IF k \in D THEN At(s, k, 0) + 1 ELSE At(s, k, 0)]
  BY <1>2 DEF Added
<1>4. At(a, x, 0) = At(s, x, 0)
  <2>1. CASE x \in DOMAIN s
    BY <1>1, <1>3, <2>1 DEF At
  <2>2. CASE x \notin DOMAIN s
    BY <1>1, <1>3, <2>2 DEF At
  <2>. QED  BY <2>1, <2>2
<1>5. Count(a, x, 1) = [k \in DOMAIN a \cup {x} |-> IF k = x THEN At(s, x, 0) + 1 ELSE a[k]]
  BY <1>4 DEF Count, Set
<1>6. DOMAIN a \cup {x} = DOMAIN s \cup E
  BY <1>1, <1>3
<1>7. \A k \in DOMAIN s \cup E :
         (IF k = x THEN At(s, x, 0) + 1 ELSE a[k]) = IF k \in E THEN At(s, k, 0) + 1 ELSE At(s, k, 0)
  BY <1>1, <1>3
<1>8. Count(a, x, 1) = Added(s, E)
  BY <1>5, <1>6, <1>7 DEF Added
<1>. QED
  BY <1>1, <1>2, <1>8

EpochsOver(s, E) == FoldSet(LAMBDA e, u : Count(u, e, 1), s, E)

\* A fold over a set that takes any element first: the recursive function that it
\* is exists, for Added is one, and is Added by a smallest set for which it is not.
LEMMA EpochsAdded ==
    ASSUME NEW s, s = [k \in DOMAIN s |-> s[k]], NEW E, IsFiniteSet(E)
    PROVE  EpochsOver(s, E) = Added(s, E)
<1>. DEFINE pick(S) == CHOOSE x \in S : TRUE
            rec(g) == [S \in SUBSET E |->
                         IF S = {} THEN s ELSE Count(g[S \ {pick(S)}], pick(S), 1)]
            iter == CHOOSE g : g = rec(g)
            sol == [S \in SUBSET E |-> Added(s, S)]
<1>1. EpochsOver(s, E) = iter[E]
  BY Zenon DEF EpochsOver, FoldSet, MapThenFoldSet
<1>2. Added(s, {}) = s
  <2>1. DOMAIN s \cup {} = DOMAIN s /\ \A k \in DOMAIN s : At(s, k, 0) = s[k]
    BY DEF At
  <2>2. Added(s, {}) = [k \in DOMAIN s |-> s[k]]
    BY <2>1 DEF Added
  <2>. QED  BY <2>2
<1>3. ASSUME NEW S \in SUBSET E, S # {}
      PROVE  /\ pick(S) \in S /\ S \ {pick(S)} \in SUBSET E
             /\ Added(s, S) = Count(Added(s, S \ {pick(S)}), pick(S), 1)
  <2>1. PICK x : x = pick(S)
    OBVIOUS
  <2>2. x \in S
    BY <1>3, <2>1
  <2>. HIDE DEF pick
  <2>3. Added(s, S) = Count(Added(s, S \ {x}), x, 1)
    BY <2>2, AddedOne
  <2>. QED  BY <2>1, <2>2, <2>3
<1>. HIDE DEF pick
<1>4. sol = rec(sol)
  <2>1. ASSUME NEW S \in SUBSET E
        PROVE  sol[S] = IF S = {} THEN s ELSE Count(sol[S \ {pick(S)}], pick(S), 1)
    BY <1>2, <1>3
  <2>. QED  BY <2>1
<1>5. iter = rec(iter)
  <2>. HIDE DEF rec, sol
  <2>. QED  BY <1>4, Zenon
<1>. HIDE DEF iter
<1>6. \A S \in SUBSET E : iter[S] = Added(s, S)
  <2>. DEFINE C == {S \in SUBSET E : iter[S] # Added(s, S)}
  <2>. SUFFICES ASSUME C # {} PROVE FALSE
    OBVIOUS
  <2>1. PICK S \in C : \A U \in C : ~(U \subseteq S /\ U # S)
    <3>1. C \in SUBSET (SUBSET E)
      OBVIOUS
    <3>. HIDE DEF C
    <3>. QED  BY <3>1, SmallestSet
  <2>2. S # {}
    BY <1>2, <1>5
  <2>3. PICK x : x = pick(S) /\ x \in S /\ S \ {x} \in SUBSET E
    BY <1>3, <2>2
  <2>4. S \ {x} \notin C
    BY <2>1, <2>3
  <2>5. iter[S \ {x}] = Added(s, S \ {x})
    BY <2>3, <2>4
  <2>6. iter[S] = Count(iter[S \ {x}], x, 1)
    BY <1>5, <2>2, <2>3
  <2>7. Added(s, S) = Count(Added(s, S \ {x}), x, 1)
    BY <1>3, <2>2, <2>3
  <2>. QED  BY <2>5, <2>6, <2>7
<1>. QED
  BY <1>1, <1>6

-----------------------------------------------------------------------------
(***************************************************************************)
(* The maps of the kernels                                                 *)
(*                                                                         *)
(* What each kernel has in its map after the first n records, said of the  *)
(* file, and that it is so for one record more.                            *)
(***************************************************************************)
\* tcp_non_monotonic and tcp_out_of_sequence, whose maps have the TCP keys.
TcpKeys(fl, n) == {k \in KeysOf(fl, n) : IpProto[k] = "tcp"}

NmOK(fl, n, map) ==
    /\ DOMAIN map = TcpKeys(fl, n)
    /\ \A k \in DOMAIN map : map[k] = NmValue(PacketsOf(fl, k, n))

LEMMA NmKernel ==
    ASSUME NEW fl, IsFile(fl), NEW n \in Nat, n + 1 \in 1 .. Len(fl), NEW map, NmOK(fl, n, map),
           NEW r, r = fl[n + 1], IpProto[r.key] = "tcp"
    PROVE  \E t : /\ OverPackets(NonMonotonic, map, r) = t
                  /\ t[r.key] = NmValue(PacketsOf(fl, r.key, n + 1))
                  /\ NmOK(fl, n + 1, t)
<1>. HIDE DEF Packet
<1>1. PICK k : k = r.key /\ IpProto[k] = "tcp"
  OBVIOUS
<1>2. PICK ps \in Seq(Packet) : ps = PacketsOf(fl, k, n)
  BY PacketsStep
<1>3. PICK pkts \in Seq(Packet) : pkts = r.pkts /\ pkts # <<>>
  BY FileType
<1>4. PICK qs : qs = ps \o pkts /\ qs = PacketsOf(fl, k, n + 1)
  <2>1. Own(fl, k, n + 1) = pkts
    BY <1>1, <1>3 DEF Own
  <2>. QED  BY <1>2, <2>1, PacketsStep
<1>5. IF k \in DOMAIN map THEN ps # <<>> /\ map[k] = NmValue(ps) ELSE ps = <<>>
  <2>1. n \in 0 .. Len(fl)
    BY FileType
  <2>2. ps # <<>> <=> k \in KeysOf(fl, n)
    BY <1>2, <2>1, KeysHavePackets
  <2>. QED  BY <1>1, <1>2, <2>2 DEF NmOK, TcpKeys
<1>6. PICK t : t = Set(map, k, NmValue(qs))
  OBVIOUS
<1>7. OverPackets(NonMonotonic, map, r) = t
  <2>1. OverPackets(NonMonotonic, map, r) = NmOver(map, k, pkts)
    <3>1. OverPackets(NonMonotonic, map, r) = NmOver(map, r.key, r.pkts)
      BY Zenon DEF OverPackets, NmOver
    <3>. QED  BY <1>1, <1>3, <3>1
  <2>2. NmOver(map, k, pkts) = Set(map, k, NmValue(ps \o pkts))
    BY <1>3, <1>5, NmRecord
  <2>. QED  BY <1>4, <1>6, <2>1, <2>2
<1>8. DOMAIN t = DOMAIN map \cup {k} /\ t[k] = NmValue(qs) /\ \A j \in DOMAIN map : j # k => t[j] = map[j]
  BY <1>6 DEF Set
<1>9. TcpKeys(fl, n + 1) = TcpKeys(fl, n) \cup {k}
  <2>1. KeysOf(fl, n + 1) = KeysOf(fl, n) \cup {k}
    BY <1>1, KeysStep
  <2>. QED  BY <1>1, <2>1 DEF TcpKeys
<1>10. ASSUME NEW j \in DOMAIN t PROVE t[j] = NmValue(PacketsOf(fl, j, n + 1))
  <2>1. CASE j = k
    BY <1>4, <1>8, <2>1
  <2>2. CASE j # k
    <3>1. PacketsOf(fl, j, n + 1) = PacketsOf(fl, j, n)
      BY <1>1, <2>2, PacketsStay
    <3>. QED  BY <1>8, <2>2, <3>1 DEF NmOK
  <2>. QED  BY <2>1, <2>2
<1>11. NmOK(fl, n + 1, t)
  BY <1>8, <1>9, <1>10 DEF NmOK
<1>. QED
  BY <1>1, <1>4, <1>7, <1>8, <1>11, Zenon

OosOK(fl, n, map) ==
    /\ DOMAIN map = TcpKeys(fl, n)
    /\ \A k \in DOMAIN map : map[k] = OosValue(PacketsOf(fl, k, n))

LEMMA OosKernel ==
    ASSUME NEW fl, IsFile(fl), NEW n \in Nat, n + 1 \in 1 .. Len(fl), NEW map, OosOK(fl, n, map),
           NEW r, r = fl[n + 1], IpProto[r.key] = "tcp"
    PROVE  \E t : /\ OverPackets(OutOfSequence, map, r) = t
                  /\ t[r.key] = OosValue(PacketsOf(fl, r.key, n + 1))
                  /\ OosOK(fl, n + 1, t)
<1>. HIDE DEF Packet
<1>1. PICK k : k = r.key /\ IpProto[k] = "tcp"
  OBVIOUS
<1>2. PICK ps \in Seq(Packet) : ps = PacketsOf(fl, k, n)
  BY PacketsStep
<1>3. PICK pkts \in Seq(Packet) : pkts = r.pkts /\ pkts # <<>>
  BY FileType
<1>4. PICK qs : qs = ps \o pkts /\ qs = PacketsOf(fl, k, n + 1)
  <2>1. Own(fl, k, n + 1) = pkts
    BY <1>1, <1>3 DEF Own
  <2>. QED  BY <1>2, <2>1, PacketsStep
<1>5. IF k \in DOMAIN map THEN ps # <<>> /\ map[k] = OosValue(ps) ELSE ps = <<>>
  <2>1. n \in 0 .. Len(fl)
    BY FileType
  <2>2. ps # <<>> <=> k \in KeysOf(fl, n)
    BY <1>2, <2>1, KeysHavePackets
  <2>. QED  BY <1>1, <1>2, <2>2 DEF OosOK, TcpKeys
<1>6. PICK t : t = Set(map, k, OosValue(qs))
  OBVIOUS
<1>7. OverPackets(OutOfSequence, map, r) = t
  <2>1. OverPackets(OutOfSequence, map, r) = OosOver(map, k, pkts)
    <3>1. OverPackets(OutOfSequence, map, r) = OosOver(map, r.key, r.pkts)
      BY Zenon DEF OverPackets, OosOver
    <3>. QED  BY <1>1, <1>3, <3>1
  <2>2. OosOver(map, k, pkts) = Set(map, k, OosValue(ps \o pkts))
    BY <1>3, <1>5, OosRecord
  <2>. QED  BY <1>4, <1>6, <2>1, <2>2
<1>8. DOMAIN t = DOMAIN map \cup {k} /\ t[k] = OosValue(qs) /\ \A j \in DOMAIN map : j # k => t[j] = map[j]
  BY <1>6 DEF Set
<1>9. TcpKeys(fl, n + 1) = TcpKeys(fl, n) \cup {k}
  <2>1. KeysOf(fl, n + 1) = KeysOf(fl, n) \cup {k}
    BY <1>1, KeysStep
  <2>. QED  BY <1>1, <2>1 DEF TcpKeys
<1>10. ASSUME NEW j \in DOMAIN t PROVE t[j] = OosValue(PacketsOf(fl, j, n + 1))
  <2>1. CASE j = k
    BY <1>4, <1>8, <2>1
  <2>2. CASE j # k
    <3>1. PacketsOf(fl, j, n + 1) = PacketsOf(fl, j, n)
      BY <1>1, <2>2, PacketsStay
    <3>. QED  BY <1>8, <2>2, <3>1 DEF OosOK
  <2>. QED  BY <2>1, <2>2
<1>11. OosOK(fl, n + 1, t)
  BY <1>8, <1>9, <1>10 DEF OosOK
<1>. QED
  BY <1>1, <1>4, <1>7, <1>8, <1>11, Zenon

\* fl_group
FlowletOK(fl, n, map) ==
    /\ DOMAIN map = KeysOf(fl, n)
    /\ \A k \in DOMAIN map : map[k] = FlowletValue(PacketsOf(fl, k, n))

LEMMA FlowletKernel ==
    ASSUME NEW fl, IsFile(fl), NEW n \in Nat, n + 1 \in 1 .. Len(fl), NEW map, FlowletOK(fl, n, map),
           NEW r, r = fl[n + 1]
    PROVE  \E t : /\ OverPackets(Flowlet, map, r) = t
                  /\ t[r.key] = FlowletValue(PacketsOf(fl, r.key, n + 1))
                  /\ FlowletOK(fl, n + 1, t)
<1>. HIDE DEF Packet
<1>1. PICK k : k = r.key
  OBVIOUS
<1>2. PICK ps \in Seq(Packet) : ps = PacketsOf(fl, k, n)
  BY PacketsStep
<1>3. PICK pkts \in Seq(Packet) : pkts = r.pkts /\ pkts # <<>>
  BY FileType
<1>4. PICK qs : qs = ps \o pkts /\ qs = PacketsOf(fl, k, n + 1)
  <2>1. Own(fl, k, n + 1) = pkts
    BY <1>1, <1>3 DEF Own
  <2>. QED  BY <1>2, <2>1, PacketsStep
<1>5. IF k \in DOMAIN map THEN ps # <<>> /\ map[k] = FlowletValue(ps) ELSE ps = <<>>
  <2>1. n \in 0 .. Len(fl)
    BY FileType
  <2>2. ps # <<>> <=> k \in KeysOf(fl, n)
    BY <1>2, <2>1, KeysHavePackets
  <2>. QED  BY <1>1, <1>2, <2>2 DEF FlowletOK
<1>6. PICK t : t = Set(map, k, FlowletValue(qs))
  OBVIOUS
<1>7. OverPackets(Flowlet, map, r) = t
  <2>1. OverPackets(Flowlet, map, r) = FlowletOver(map, k, pkts)
    <3>1. OverPackets(Flowlet, map, r) = FlowletOver(map, r.key, r.pkts)
      BY Zenon DEF OverPackets, FlowletOver
    <3>. QED  BY <1>1, <1>3, <3>1
  <2>2. FlowletOver(map, k, pkts) = Set(map, k, FlowletValue(ps \o pkts))
    BY <1>3, <1>5, FlowletRecord
  <2>. QED  BY <1>4, <1>6, <2>1, <2>2
<1>8. DOMAIN t = DOMAIN map \cup {k} /\ t[k] = FlowletValue(qs) /\ \A j \in DOMAIN map : j # k => t[j] = map[j]
  BY <1>6 DEF Set
<1>9. KeysOf(fl, n + 1) = KeysOf(fl, n) \cup {k}
  <2>1. KeysOf(fl, n + 1) = KeysOf(fl, n) \cup {k}
    BY <1>1, KeysStep
  <2>. QED  BY <1>1, <2>1
<1>10. ASSUME NEW j \in DOMAIN t PROVE t[j] = FlowletValue(PacketsOf(fl, j, n + 1))
  <2>1. CASE j = k
    BY <1>4, <1>8, <2>1
  <2>2. CASE j # k
    <3>1. PacketsOf(fl, j, n + 1) = PacketsOf(fl, j, n)
      BY <1>1, <2>2, PacketsStay
    <3>. QED  BY <1>8, <2>2, <3>1 DEF FlowletOK
  <2>. QED  BY <2>1, <2>2
<1>11. FlowletOK(fl, n + 1, t)
  BY <1>8, <1>9, <1>10 DEF FlowletOK
<1>. QED
  BY <1>1, <1>4, <1>7, <1>8, <1>11, Zenon

\* flow_ewma
EwmaOK(fl, n, map) ==
    /\ DOMAIN map = KeysOf(fl, n)
    /\ \A k \in DOMAIN map : Within(PacketsOf(fl, k, n), map[k])

EwmaResult(fl, n, out) ==
    /\ out \in Seq(Nat) /\ Len(out) = Len(fl[n].pkts)
    /\ \A j \in 1 .. Len(out) : Within(PacketsOf(fl, fl[n].key, n), out[j])

EwmaLeaves(qs, map, k, pkts, x, out) ==
    /\ EwmaOver(map, k, pkts) = [map |-> Set(map, k, x), out |-> out]
    /\ Within(qs, x)
    /\ out \in Seq(Nat) /\ Len(out) = Len(pkts)
    /\ \A j \in 1 .. Len(pkts) : Within(qs, out[j])

LEMMA EwmaLeft ==
    ASSUME NEW ps \in Seq(Packet), NEW map, NEW k, NEW pkts \in Seq(Packet), pkts # <<>>,
           k \in DOMAIN map => Within(ps, map[k])
    PROVE  \E x, out : EwmaLeaves(ps \o pkts, map, k, pkts, x, out)
<1>. HIDE DEF Packet
<1>1. \E x, out : /\ EwmaOver(map, k, pkts) = [map |-> Set(map, k, x), out |-> out]
                  /\ Within(ps \o pkts, x)
                  /\ out \in Seq(Nat) /\ Len(out) = Len(pkts)
                  /\ \A j \in 1 .. Len(pkts) : Within(ps \o pkts, out[j])
  BY EwmaRecord
<1>. QED
  BY <1>1, Zenon DEF EwmaLeaves

LEMMA EwmaKernel ==
    ASSUME NEW fl, IsFile(fl), NEW n \in Nat, n + 1 \in 1 .. Len(fl), NEW map, EwmaOK(fl, n, map),
           NEW r, r = fl[n + 1]
    PROVE  \E t, out : /\ FlowEwma(map, r) = Emits(t, <<r.key, out>>)
                       /\ EwmaResult(fl, n + 1, out)
                       /\ EwmaOK(fl, n + 1, t)
<1>. HIDE DEF Packet
<1>1. PICK k : k = r.key
  OBVIOUS
<1>2. PICK ps \in Seq(Packet) : ps = PacketsOf(fl, k, n)
  BY PacketsStep
<1>3. PICK pkts \in Seq(Packet) : pkts = r.pkts /\ pkts # <<>>
  BY FileType
<1>4. PICK qs : qs = ps \o pkts /\ qs = PacketsOf(fl, k, n + 1)
  <2>1. Own(fl, k, n + 1) = pkts
    BY <1>1, <1>3 DEF Own
  <2>. QED  BY <1>2, <2>1, PacketsStep
<1>5. k \in DOMAIN map => Within(ps, map[k])
  BY <1>2 DEF EwmaOK
<1>13. PICK x, out : EwmaLeaves(qs, map, k, pkts, x, out)
  <2>1. \E x, out : EwmaLeaves(ps \o pkts, map, k, pkts, x, out)
    BY <1>3, <1>5, EwmaLeft
  <2>. QED  BY <1>4, <2>1, Zenon
<1>6. /\ EwmaOver(map, k, pkts) = [map |-> Set(map, k, x), out |-> out]
      /\ Within(qs, x)
      /\ out \in Seq(Nat) /\ Len(out) = Len(pkts)
      /\ \A j \in 1 .. Len(pkts) : Within(qs, out[j])
  BY <1>13, Zenon DEF EwmaLeaves
<1>7. PICK t : t = Set(map, k, x)
  OBVIOUS
<1>8. FlowEwma(map, r) = Emits(t, <<r.key, out>>)
  <2>1. FlowEwma(map, r) = Emits(EwmaOver(map, r.key, r.pkts).map,
                                 <<r.key, EwmaOver(map, r.key, r.pkts).out>>)
    BY EwmaIs
  <2>2. EwmaOver(map, r.key, r.pkts) = EwmaOver(map, k, pkts)
    BY <1>1, <1>3
  <2>3. /\ EwmaOver(map, r.key, r.pkts).map = t
        /\ EwmaOver(map, r.key, r.pkts).out = out
    <3>1. EwmaOver(map, k, pkts) = [map |-> t, out |-> out]
      BY <1>6, <1>7
    <3>. QED  BY <2>2, <3>1
  <2>. QED  BY <2>1, <2>3
<1>9. DOMAIN t = DOMAIN map \cup {k} /\ t[k] = x /\ \A j \in DOMAIN map : j # k => t[j] = map[j]
  BY <1>7 DEF Set
<1>10. ASSUME NEW j \in DOMAIN t PROVE Within(PacketsOf(fl, j, n + 1), t[j])
  <2>1. CASE j = k
    BY <1>4, <1>6, <1>9, <2>1
  <2>2. CASE j # k
    <3>1. PacketsOf(fl, j, n + 1) = PacketsOf(fl, j, n)
      BY <1>1, <2>2, PacketsStay
    <3>. QED  BY <1>9, <2>2, <3>1 DEF EwmaOK
  <2>. QED  BY <2>1, <2>2
<1>11. EwmaOK(fl, n + 1, t)
  <2>1. KeysOf(fl, n + 1) = KeysOf(fl, n) \cup {k}
    BY <1>1, KeysStep
  <2>. QED  BY <1>9, <1>10, <2>1 DEF EwmaOK
<1>12. EwmaResult(fl, n + 1, out)
  BY <1>1, <1>3, <1>4, <1>6 DEF EwmaResult
<1>. QED
  BY <1>8, <1>11, <1>12, Zenon

\* packet_counts: the packets from an address.
From(fl, n, a) ==
    {q \in UNION {{m} \X DOMAIN fl[m].pkts : m \in 1 .. n} : Src[fl[q[1]].key] = a}
AddrOK(fl, n, map) == \A a : At(map, a, 0) = Cardinality(From(fl, n, a))

LEMMA FromIsFinite ==
    ASSUME NEW fl, IsFile(fl), NEW n \in 0 .. Len(fl), NEW a
    PROVE  IsFiniteSet(From(fl, n, a)) /\ Cardinality(From(fl, n, a)) \in Nat
<1>. HIDE DEF Packet
<1>1. n \in Nat /\ \A m \in 1 .. n : m \in 1 .. Len(fl)
  BY FileType
<1>2. PICK D : D = [m \in 1 .. n |-> DOMAIN fl[m].pkts]
  OBVIOUS
<1>3. \A m \in 1 .. n : IsFiniteSet(D[m])
  <2>1. ASSUME NEW m \in 1 .. n PROVE IsFiniteSet(D[m])
    <3>1. PICK ps \in Seq(Packet) : ps = fl[m].pkts
      BY <1>1, FileType
    <3>2. PICK l \in Nat : l = Len(ps) /\ DOMAIN ps = 1 .. l
      BY LenProperties
    <3>. QED  BY <1>2, <3>1, <3>2, CountOfInterval
  <2>. QED  BY <2>1
<1>4. IsFiniteSet(UNION {{m} \X D[m] : m \in 1 .. n})
  BY <1>1, <1>3, PlacesAreFinite
<1>5. {{m} \X D[m] : m \in 1 .. n} = {{m} \X DOMAIN fl[m].pkts : m \in 1 .. n}
  BY <1>2
<1>6. From(fl, n, a) \subseteq UNION {{m} \X D[m] : m \in 1 .. n}
  BY <1>5 DEF From
<1>. QED
  BY <1>4, <1>6, FS_Subset, FS_CardinalityType

LEMMA AddrKernel ==
    ASSUME NEW fl, IsFile(fl), NEW n \in Nat, n + 1 \in 1 .. Len(fl), NEW map, AddrOK(fl, n, map),
           NEW r, r = fl[n + 1]
    PROVE  \E t : /\ SrcIpCounter(map, r) =
                        Emits(t, <<Src[r.key], Cardinality(From(fl, n + 1, Src[r.key]))>>)
                  /\ AddrOK(fl, n + 1, t)
<1>. HIDE DEF Packet
<1>1. PICK pkts \in Seq(Packet) : pkts = r.pkts
  BY FileType
<1>2. PICK l \in Nat : l = Len(pkts) /\ DOMAIN pkts = 1 .. l
  BY LenProperties
<1>3. PICK b : b = Src[r.key]
  OBVIOUS
<1>4. n \in 0 .. Len(fl) /\ n + 1 \in 0 .. Len(fl)
  BY FileType
<1>5. \A m : m \in 1 .. n + 1 <=> (m \in 1 .. n \/ m = n + 1)
  OBVIOUS
<1>6. ASSUME NEW a, a # b PROVE From(fl, n + 1, a) = From(fl, n, a)
  BY <1>3, <1>5, <1>6 DEF From
<1>7. From(fl, n + 1, b) = From(fl, n, b) \cup ({n + 1} \X (1 .. l))
  BY <1>1, <1>2, <1>3, <1>5 DEF From
<1>8. From(fl, n, b) \cap ({n + 1} \X (1 .. l)) = {}
  <2>1. \A q \in From(fl, n, b) : q[1] \in 1 .. n
    BY DEF From
  <2>2. n + 1 \notin 1 .. n
    OBVIOUS
  <2>. QED  BY <2>1, <2>2
<1>9. IsFiniteSet({n + 1} \X (1 .. l)) /\ Cardinality({n + 1} \X (1 .. l)) = l
  <2>1. IsFiniteSet({n + 1}) /\ Cardinality({n + 1}) = 1
    BY FS_Singleton
  <2>2. IsFiniteSet(1 .. l) /\ Cardinality(1 .. l) = l
    BY CountOfInterval
  <2>3. IsFiniteSet({n + 1} \X (1 .. l)) /\ Cardinality({n + 1} \X (1 .. l)) = 1 * l
    BY <2>1, <2>2, FS_Product
  <2>. QED  BY <2>3
<1>10. PICK c \in Nat : c = Cardinality(From(fl, n, b)) /\ Cardinality(From(fl, n + 1, b)) = c + l
  <2>1. IsFiniteSet(From(fl, n, b)) /\ Cardinality(From(fl, n, b)) \in Nat
    BY <1>4, FromIsFinite
  <2>. QED  BY <1>7, <1>8, <1>9, <2>1, DisjointUnion
<1>11. PICK t : t = Count(map, b, l)
  OBVIOUS
<1>12. At(map, b, 0) = c
  BY <1>10 DEF AddrOK
<1>13. At(t, b, 0) = c + l /\ t[b] = c + l
  <2>1. t = Set(map, b, c + l)
    BY <1>11, <1>12 DEF Count
  <2>. QED  BY <2>1 DEF Set, At
<1>14. \A a : a # b => At(t, a, 0) = At(map, a, 0)
  <2>1. t = Set(map, b, c + l)
    BY <1>11, <1>12 DEF Count
  <2>. QED  BY <2>1 DEF Set, At
<1>15. AddrOK(fl, n + 1, t)
  BY <1>6, <1>10, <1>13, <1>14 DEF AddrOK
<1>16. SrcIpCounter(map, r) = Emits(t, <<b, t[b]>>)
  <2>1. SrcIpCounter(map, r) = Emits(Count(map, Src[r.key], Len(r.pkts)),
            <<Src[r.key], Count(map, Src[r.key], Len(r.pkts))[Src[r.key]]>>)
    BY Zenon DEF SrcIpCounter
  <2>. QED  BY <1>1, <1>2, <1>3, <1>11, <2>1
<1>. QED
  BY <1>3, <1>10, <1>13, <1>15, <1>16

\* active_connections: the records with a packet in an epoch.
Having(fl, n, e) == {m \in 1 .. n : e \in Epochs(fl[m])}
EpochOK(fl, n, map) ==
    /\ map = [e \in DOMAIN map |-> map[e]]
    /\ \A e : At(map, e, 0) = Cardinality(Having(fl, n, e))

LEMMA EpochKernel ==
    ASSUME NEW fl, IsFile(fl), NEW n \in Nat, n + 1 \in 1 .. Len(fl), NEW map, EpochOK(fl, n, map),
           NEW E, E = Epochs(fl[n + 1])
    PROVE  \E t : /\ GroupEpochs(map, E) =
                        Emits(t, [e \in E |-> Cardinality(Having(fl, n + 1, e))])
                  /\ EpochOK(fl, n + 1, t)
<1>1. IsFiniteSet(E)
  <2>. HIDE DEF Packet
  <2>1. PICK pkts \in Seq(Packet) : pkts = fl[n + 1].pkts
    BY FileType
  <2>2. PICK l \in Nat : DOMAIN pkts = 1 .. l
    BY LenProperties
  <2>. DEFINE f == [m \in 1 .. l |-> pkts[m].ts \div Second]
  <2>3. IsFiniteSet(1 .. l)
    BY CountOfInterval
  <2>4. E = {f[m] : m \in 1 .. l}
    BY <2>1, <2>2 DEF Epochs, ToSet
  <2>5. f \in [1 .. l -> E] /\ \A t \in E : \E s \in 1 .. l : f[s] = t
    BY <2>4
  <2>. HIDE DEF f
  <2>. QED  BY <2>3, <2>5, FiniteImage
<1>2. PICK t : t = EpochsOver(map, E)
  OBVIOUS
<1>3. t = Added(map, E)
  BY <1>1, <1>2, EpochsAdded DEF EpochOK
<1>4. t = [k \in DOMAIN map \cup E |-> IF k \in E THEN At(map, k, 0) + 1 ELSE At(map, k, 0)]
  BY <1>3 DEF Added
<1>5. ASSUME NEW e
      PROVE  At(t, e, 0) = Cardinality(Having(fl, n + 1, e))
  <2>1. At(t, e, 0) = IF e \in E THEN At(map, e, 0) + 1 ELSE At(map, e, 0)
    BY <1>4 DEF At
  <2>2. PICK c : c = Cardinality(Having(fl, n, e)) /\ At(map, e, 0) = c
    BY DEF EpochOK
  <2>3. IsFiniteSet(Having(fl, n, e)) /\ n + 1 \notin Having(fl, n, e)
    <3>1. Having(fl, n, e) \subseteq 1 .. n
      BY DEF Having
    <3>. QED  BY <3>1, CountOfInterval, FS_Subset
  <2>4. /\ e \in E => Having(fl, n + 1, e) = Having(fl, n, e) \cup {n + 1}
        /\ e \notin E => Having(fl, n + 1, e) = Having(fl, n, e)
    <3>1. \A m : m \in 1 .. n + 1 <=> (m \in 1 .. n \/ m = n + 1)
      OBVIOUS
    <3>. QED  BY <3>1 DEF Having
  <2>5. Cardinality(Having(fl, n + 1, e)) = IF e \in E THEN c + 1 ELSE c
    BY <2>2, <2>3, <2>4, CountMore
  <2>. QED  BY <2>1, <2>2, <2>5
<1>6. EpochOK(fl, n + 1, t)
  <2>1. t = [e \in DOMAIN t |-> t[e]]
    BY <1>4
  <2>. QED  BY <1>5, <2>1 DEF EpochOK
<1>7. \A e \in E : t[e] = Cardinality(Having(fl, n + 1, e))
  <2>1. \A e \in E : t[e] = At(t, e, 0)
    BY <1>4 DEF At
  <2>. QED  BY <1>5, <2>1
<1>8. GroupEpochs(map, E) = Emits(t, [e \in E |-> t[e]])
  <2>1. GroupEpochs(map, E) = Emits(EpochsOver(map, E), [e \in E |-> EpochsOver(map, E)[e]])
    BY Zenon DEF GroupEpochs, EpochsOver
  <2>. QED  BY <1>2, <2>1
<1>9. [e \in E |-> t[e]] = [e \in E |-> Cardinality(Having(fl, n + 1, e))]
  BY <1>7
<1>. QED
  BY <1>6, <1>8, <1>9

\* The flowlets in the first n records, those of size v, and those of them up
\* to number f of record n.
Places(fl, n) == UNION {{m} \X DOMAIN FlowletsAt(fl, m) : m \in 1 .. n}
Sized(fl, n, v) == {q \in Places(fl, n) : FlowletsAt(fl, q[1])[q[2]] = v}
SoFar(fl, n, f, v) ==
    {q \in Places(fl, n) : FlowletsAt(fl, q[1])[q[2]] = v /\ (q[1] = n => q[2] <= f)}

HistOK(fl, n, map) ==
    map \in CountMaps /\ \A v \in Nat : At(map, v, 0) = Cardinality(Sized(fl, n, v))

LEMMA SizesType ==
    ASSUME NEW fl, IsFile(fl), NEW m \in 1 .. Len(fl)
    PROVE  FlowletsAt(fl, m) \in Seq(Nat) /\ FlowletsAt(fl, m) # <<>>
<1>. HIDE DEF Packet
<1>1. m \in 0 .. Len(fl) /\ m \in 1 .. m
  BY FileType
<1>2. PICK ps \in Seq(Packet) : ps = PacketsOf(fl, fl[m].key, m)
  BY <1>1, PacketsType
<1>3. ps # <<>>
  <2>1. fl[m].key \in KeysOf(fl, m)
    BY <1>1 DEF KeysOf
  <2>. QED  BY <1>1, <1>2, <2>1, KeysHavePackets
<1>4. Flowlets(ps) \in Seq(Nat) /\ Len(Flowlets(ps)) # 0
  BY <1>2, <1>3, FlowletTypes
<1>5. FlowletsAt(fl, m) = Flowlets(ps)
  BY <1>2 DEF FlowletsAt
<1>. QED
  BY <1>4, <1>5, EmptySeq

LEMMA PlacesFinite ==
    ASSUME NEW fl, IsFile(fl), NEW n \in 0 .. Len(fl)
    PROVE  IsFiniteSet(Places(fl, n))
<1>1. n \in Nat /\ \A m \in 1 .. n : m \in 1 .. Len(fl)
  BY FileType
<1>2. PICK D : D = [m \in 1 .. n |-> DOMAIN FlowletsAt(fl, m)]
  OBVIOUS
<1>3. \A m \in 1 .. n : IsFiniteSet(D[m])
  <2>1. ASSUME NEW m \in 1 .. n PROVE IsFiniteSet(D[m])
    <3>1. PICK s \in Seq(Nat) : s = FlowletsAt(fl, m)
      BY <1>1, SizesType
    <3>2. PICK l \in Nat : DOMAIN s = 1 .. l
      BY LenProperties
    <3>. QED  BY <1>2, <3>1, <3>2, CountOfInterval
  <2>. QED  BY <2>1
<1>4. IsFiniteSet(UNION {{m} \X D[m] : m \in 1 .. n})
  BY <1>1, <1>3, PlacesAreFinite
<1>5. {{m} \X D[m] : m \in 1 .. n} = {{m} \X DOMAIN FlowletsAt(fl, m) : m \in 1 .. n}
  BY <1>2
<1>. QED
  BY <1>4, <1>5 DEF Places

\* Flowlets of size v, flowlet by flowlet of record n + 1.
Grown(fl, n, sizes, N, v) ==
    \A l, m \in 0 .. N : m = l + 1 =>
        /\ <<n + 1, m>> \notin SoFar(fl, n + 1, l, v)
        /\ v = sizes[m] => SoFar(fl, n + 1, m, v) = SoFar(fl, n + 1, l, v) \cup {<<n + 1, m>>}
        /\ v # sizes[m] => SoFar(fl, n + 1, m, v) = SoFar(fl, n + 1, l, v)

LEMMA SoFarStep ==
    ASSUME NEW fl, IsFile(fl), NEW n \in Nat, n + 1 \in 1 .. Len(fl),
           NEW sizes \in Seq(Nat), sizes = FlowletsAt(fl, n + 1),
           NEW v
    PROVE  /\ SoFar(fl, n + 1, 0, v) = Sized(fl, n, v)
           /\ SoFar(fl, n + 1, Len(sizes), v) = Sized(fl, n + 1, v)
           /\ Grown(fl, n, sizes, Len(sizes), v)
<1>1. PICK N \in Nat : N = Len(sizes) /\ DOMAIN sizes = 1 .. N
  BY LenProperties
<1>2. PICK k \in Nat : k = n + 1 /\ k \notin 1 .. n
  OBVIOUS
<1>3. \A m : m \in 1 .. k <=> (m \in 1 .. n \/ m = k)
  BY <1>2
<1>4. Places(fl, k) = Places(fl, n) \cup ({k} \X (1 .. N))
  BY <1>1, <1>2, <1>3 DEF Places
<1>5. \A q \in Places(fl, n) : q[1] \in 1 .. n
  BY DEF Places
<1>6. \A q \in Places(fl, n) : q[1] # k
  BY <1>2, <1>5
<1>7. \A q \in {k} \X (1 .. N) : /\ q[1] = k /\ q[2] \in 1 .. N /\ q = <<k, q[2]>>
                                 /\ FlowletsAt(fl, q[1])[q[2]] = sizes[q[2]]
  BY <1>2
<1>8. \A f : SoFar(fl, k, f, v) = Sized(fl, n, v)
                  \cup {q \in {k} \X (1 .. N) : sizes[q[2]] = v /\ q[2] <= f}
  BY <1>4, <1>6, <1>7 DEF SoFar, Sized
<1>9. Sized(fl, k, v) = Sized(fl, n, v) \cup {q \in {k} \X (1 .. N) : sizes[q[2]] = v}
  BY <1>4, <1>7 DEF Sized
<1>10. {q \in {k} \X (1 .. N) : sizes[q[2]] = v /\ q[2] <= 0} = {}
  OBVIOUS
<1>11. {q \in {k} \X (1 .. N) : sizes[q[2]] = v /\ q[2] <= N} = {q \in {k} \X (1 .. N) : sizes[q[2]] = v}
  OBVIOUS
<1>12. ASSUME NEW l \in 0 .. N, NEW m \in 0 .. N, m = l + 1
       PROVE  /\ <<k, m>> \notin SoFar(fl, k, l, v)
              /\ v = sizes[m] => SoFar(fl, k, m, v) = SoFar(fl, k, l, v) \cup {<<k, m>>}
              /\ v # sizes[m] => SoFar(fl, k, m, v) = SoFar(fl, k, l, v)
  <2>1. \A j \in 1 .. N : j <= m <=> (j <= l \/ j = m)
    BY <1>12
  <2>2. m \in 1 .. N /\ ~(m <= l)
    BY <1>12
  <2>3. <<k, m>> \notin Sized(fl, n, v)
    BY <1>6 DEF Sized
  <2>4. <<k, m>> \notin SoFar(fl, k, l, v)
    BY <1>8, <2>2, <2>3
  <2>5. v = sizes[m] => SoFar(fl, k, m, v) = SoFar(fl, k, l, v) \cup {<<k, m>>}
    <3>. DEFINE A == {q \in {k} \X (1 .. N) : sizes[q[2]] = v /\ q[2] <= m}
                B == {q \in {k} \X (1 .. N) : sizes[q[2]] = v /\ q[2] <= l}
    <3>1. ASSUME v = sizes[m] PROVE A = B \cup {<<k, m>>}
      <4>1. ASSUME NEW q \in A PROVE q \in B \cup {<<k, m>>}
        <5>1. q = <<k, q[2]>> /\ q[2] \in 1 .. N /\ q \in {k} \X (1 .. N)
          BY <1>7
        <5>. QED  BY <2>1, <5>1
      <4>2. <<k, m>> \in A /\ B \subseteq A
        BY <2>1, <2>2, <3>1
      <4>. QED  BY <4>1, <4>2
    <3>. QED  BY <1>8, <3>1
  <2>6. v # sizes[m] => SoFar(fl, k, m, v) = SoFar(fl, k, l, v)
    <3>1. v # sizes[m] => {q \in {k} \X (1 .. N) : sizes[q[2]] = v /\ q[2] <= m} =
              {q \in {k} \X (1 .. N) : sizes[q[2]] = v /\ q[2] <= l}
      BY <1>7, <2>1, <2>2
    <3>. QED  BY <1>8, <3>1
  <2>. QED  BY <2>4, <2>5, <2>6
<1>13. SoFar(fl, k, 0, v) = Sized(fl, n, v)
  BY <1>8, <1>10
<1>14. SoFar(fl, k, N, v) = Sized(fl, k, v)
  BY <1>8, <1>9, <1>11
<1>15. Grown(fl, n, sizes, N, v)
  BY <1>2, <1>12 DEF Grown
<1>. QED
  BY <1>1, <1>2, <1>13, <1>14, <1>15

LEMMA SoFarCount ==
    ASSUME NEW fl, IsFile(fl), NEW n \in Nat, n + 1 \in 1 .. Len(fl),
           NEW sizes \in Seq(Nat), sizes = FlowletsAt(fl, n + 1),
           NEW N \in Nat, N = Len(sizes), NEW v \in Nat,
           NEW l \in 0 .. N, NEW m \in 0 .. N, m = l + 1
    PROVE  /\ Cardinality(SoFar(fl, n + 1, l, v)) \in Nat
           /\ Cardinality(SoFar(fl, n + 1, m, v)) =
                 IF v = sizes[m] THEN Cardinality(SoFar(fl, n + 1, l, v)) + 1
                                 ELSE Cardinality(SoFar(fl, n + 1, l, v))
<1>1. PICK S : S = SoFar(fl, n + 1, l, v)
  OBVIOUS
<1>2. PICK T : T = SoFar(fl, n + 1, m, v)
  OBVIOUS
<1>3. PICK x : x = <<n + 1, m>>
  OBVIOUS
<1>4. IsFiniteSet(S)
  <2>1. n + 1 \in 0 .. Len(fl)
    BY FileType
  <2>2. S \subseteq Places(fl, n + 1)
    BY <1>1 DEF SoFar
  <2>. QED  BY <2>1, <2>2, PlacesFinite, FS_Subset
<1>5. Grown(fl, n, sizes, N, v)
  <2>1. Grown(fl, n, sizes, Len(sizes), v)
    BY SoFarStep
  <2>. QED  BY <2>1
<1>6. x \notin S /\ (v = sizes[m] => T = S \cup {x}) /\ (v # sizes[m] => T = S)
  BY <1>1, <1>2, <1>3, <1>5 DEF Grown
<1>7. Cardinality(S) \in Nat
  BY <1>4, FS_CardinalityType
<1>8. CASE v = sizes[m]
  <2>1. Cardinality(T) = Cardinality(S) + 1
    BY <1>4, <1>6, <1>8, FS_AddElement
  <2>. QED  BY <1>1, <1>2, <1>7, <1>8, <2>1
<1>9. CASE v # sizes[m]
  <2>1. T = S
    BY <1>6, <1>9
  <2>. QED  BY <1>1, <1>2, <1>7, <1>9, <2>1
<1>. QED
  BY <1>8, <1>9

\* fl_size_histogram
LEMMA HistKernel ==
    ASSUME NEW fl, IsFile(fl), NEW n \in Nat, n + 1 \in 1 .. Len(fl), NEW map, HistOK(fl, n, map),
           NEW sizes, sizes = FlowletsAt(fl, n + 1)
    PROVE  \E t, out : /\ FlSizeHistogram(map, sizes) = Emits(t, out)
                       /\ out = [f \in DOMAIN sizes |->
                                   <<sizes[f], Cardinality(SoFar(fl, n + 1, f, sizes[f]))>>]
                       /\ HistOK(fl, n + 1, t)
<1>1. sizes \in Seq(Nat) /\ sizes # <<>>
  BY SizesType
<1>2. PICK N \in Nat : N = Len(sizes) /\ DOMAIN sizes = 1 .. N
  BY <1>1, LenProperties
<1>3. PICK C : C = [l \in 0 .. N |-> [v \in Nat |-> Cardinality(SoFar(fl, n + 1, l, v))]]
  OBVIOUS
<1>4. CountsUp(N, sizes, C)
  <2>1. ASSUME NEW l \in 0 .. N, NEW m \in 0 .. N, m = l + 1, NEW v \in Nat
        PROVE  C[l][v] \in Nat /\ C[m][v] = IF v = sizes[m] THEN C[l][v] + 1 ELSE C[l][v]
    <3>1. /\ Cardinality(SoFar(fl, n + 1, l, v)) \in Nat
          /\ Cardinality(SoFar(fl, n + 1, m, v)) =
                IF v = sizes[m] THEN Cardinality(SoFar(fl, n + 1, l, v)) + 1
                                ELSE Cardinality(SoFar(fl, n + 1, l, v))
      BY <1>1, <1>2, <2>1, SoFarCount
    <3>2. /\ C[l][v] = Cardinality(SoFar(fl, n + 1, l, v))
          /\ C[m][v] = Cardinality(SoFar(fl, n + 1, m, v))
      BY <1>3, <2>1
    <3>. QED  BY <3>1, <3>2
  <2>. QED  BY <2>1 DEF CountsUp
<1>5. 0 \in 0 .. N /\ N \in 0 .. N
  OBVIOUS
<1>6. CountsAre(map, C[0])
  <2>1. ASSUME NEW v \in Nat PROVE At(map, v, 0) = C[0][v]
    <3>1. SoFar(fl, n + 1, 0, v) = Sized(fl, n, v)
      BY <1>1, <1>2, SoFarStep
    <3>2. C[0][v] = Cardinality(SoFar(fl, n + 1, 0, v))
      BY <1>3, <1>5
    <3>. QED  BY <3>1, <3>2 DEF HistOK
  <2>. QED  BY <2>1 DEF CountsAre
<1>7. map \in CountMaps
  BY DEF HistOK
<1>8. PICK t \in CountMaps : \E out :
              /\ HistOver(map, sizes) = [map |-> t, out |-> out]
              /\ out = [f \in 1 .. N |-> <<sizes[f], C[f][sizes[f]]>>]
              /\ CountsAre(t, C[N])
  BY <1>1, <1>2, <1>4, <1>6, <1>7, HistRecord
<1>9. PICK out :
              /\ HistOver(map, sizes) = [map |-> t, out |-> out]
              /\ out = [f \in 1 .. N |-> <<sizes[f], C[f][sizes[f]]>>]
              /\ CountsAre(t, C[N])
  BY <1>8
<1>10. FlSizeHistogram(map, sizes) = Emits(t, out)
  <2>1. FlSizeHistogram(map, sizes) = Emits(HistOver(map, sizes).map, HistOver(map, sizes).out)
    BY HistIs
  <2>2. HistOver(map, sizes).map = t /\ HistOver(map, sizes).out = out
    <3>1. HistOver(map, sizes) = [map |-> t, out |-> out]
      BY <1>9
    <3>. QED  BY <3>1
  <2>. QED  BY <2>1, <2>2
<1>11. out = [f \in DOMAIN sizes |-> <<sizes[f], Cardinality(SoFar(fl, n + 1, f, sizes[f]))>>]
  <2>1. ASSUME NEW f \in 1 .. N PROVE C[f][sizes[f]] = Cardinality(SoFar(fl, n + 1, f, sizes[f]))
    <3>1. sizes[f] \in Nat /\ f \in 0 .. N
      BY <1>1, <1>2, ElementOfSeq
    <3>. QED  BY <1>3, <3>1
  <2>. QED  BY <1>2, <1>9, <2>1
<1>12. HistOK(fl, n + 1, t)
  <2>1. ASSUME NEW v \in Nat PROVE At(t, v, 0) = Cardinality(Sized(fl, n + 1, v))
    <3>1. SoFar(fl, n + 1, N, v) = Sized(fl, n + 1, v)
      <4>1. SoFar(fl, n + 1, Len(sizes), v) = Sized(fl, n + 1, v)
        BY <1>1, <1>2, SoFarStep
      <4>. QED  BY <1>2, <4>1
    <3>2. C[N][v] = Cardinality(SoFar(fl, n + 1, N, v))
      BY <1>3, <1>5
    <3>3. At(t, v, 0) = C[N][v]
      BY <1>9 DEF CountsAre
    <3>. QED  BY <3>1, <3>2, <3>3
  <2>. QED  BY <1>8, <2>1 DEF HistOK
<1>. QED
  BY <1>10, <1>11, <1>12

-----------------------------------------------------------------------------
(***************************************************************************)
(* A kernel and a record                                                   *)
(***************************************************************************)
\* Whether record n leaves the kernel, and whether x is what it leaves as.
Through(kernel, program, fl, n) == kernel # "clfr_file_reader" => Passes(program, fl, n)
Made(kernel, program, fl, x, n) ==
    /\ kernel \in {"clfr_file_reader", "tcp_filter"} => x = fl[n]
    /\ kernel = "compute_epochs" => x = Epochs(fl[n])
    /\ kernel = "fl_group" => x = FlowletsAt(fl, n)
    /\ kernel \in {"group_epochs", "fl_size_histogram", "flow_tcp_nm", "flow_tcp_oos", "flow_ewma",
                   "src_ip_counter"} => IsResult(program, fl, x, n)

\* The map of a kernel after the first n records.
MapOK(kernel, fl, n, map) ==
    /\ kernel = "group_epochs" => EpochOK(fl, n, map)
    /\ kernel = "fl_group" => FlowletOK(fl, n, map)
    /\ kernel = "fl_size_histogram" => HistOK(fl, n, map)
    /\ kernel = "flow_tcp_nm" => NmOK(fl, n, map)
    /\ kernel = "flow_tcp_oos" => OosOK(fl, n, map)
    /\ kernel = "flow_ewma" => EwmaOK(fl, n, map)
    /\ kernel = "src_ip_counter" => AddrOK(fl, n, map)

\* What a kernel that keeps such a map does with record n.
Handled(kernel, program, fl, n, result) ==
    /\ MapOK(kernel, fl, n, result.map)
    /\ IF Through(kernel, program, fl, n)
       THEN \E y : result.out = <<y>> /\ Made(kernel, program, fl, y, n)
       ELSE result.out = <<>>

\* The kernels, one by one.
LEMMA HandledOne ==
    ASSUME NEW kernel, NEW program, NEW fl, NEW n, NEW result, NEW t, NEW y,
           result = Emits(t, y), MapOK(kernel, fl, n, t), Made(kernel, program, fl, y, n),
           Through(kernel, program, fl, n)
    PROVE  Handled(kernel, program, fl, n, result)
<1>1. result.map = t /\ result.out = <<y>>
  BY DEF Emits
<1>. QED
  BY <1>1, Zenon DEF Handled

LEMMA FilterHandles ==
    ASSUME NEW program \in {"tcp_non_monotonic", "tcp_out_of_sequence"}, NEW fl, IsFile(fl),
           NEW n \in Nat, n + 1 \in 1 .. Len(fl), NEW map, NEW x, x = fl[n + 1]
    PROVE  Handled("tcp_filter", program, fl, n + 1, TcpFilter(map, x))
<1>1. MapOK("tcp_filter", fl, n + 1, map)
  BY DEF MapOK
<1>2. Made("tcp_filter", program, fl, x, n + 1)
  BY DEF Made
<1>3. Through("tcp_filter", program, fl, n + 1) <=> IpProto[x.key] = "tcp"
  BY DEF Through, Passes
<1>4. CASE IpProto[x.key] = "tcp"
  <2>1. TcpFilter(map, x) = Emits(map, x)
    BY <1>4 DEF TcpFilter
  <2>. QED  BY <1>1, <1>2, <1>3, <1>4, <2>1, HandledOne
<1>5. CASE IpProto[x.key] # "tcp"
  <2>1. TcpFilter(map, x).map = map /\ TcpFilter(map, x).out = <<>>
    BY <1>5 DEF TcpFilter, Drops
  <2>. QED  BY <1>1, <1>3, <1>5, <2>1, Zenon DEF Handled
<1>. QED
  BY <1>4, <1>5

LEMMA EpochsHandles ==
    ASSUME NEW fl, IsFile(fl), NEW n \in Nat, n + 1 \in 1 .. Len(fl), NEW map, NEW x, x = fl[n + 1]
    PROVE  Handled("compute_epochs", "active_connections", fl, n + 1, ComputeEpochs(map, x))
<1>1. MapOK("compute_epochs", fl, n + 1, map)
  BY DEF MapOK
<1>2. Made("compute_epochs", "active_connections", fl, Epochs(x), n + 1)
  BY DEF Made
<1>3. Through("compute_epochs", "active_connections", fl, n + 1)
  BY DEF Through, Passes
<1>4. ComputeEpochs(map, x) = Emits(map, Epochs(x))
  BY DEF ComputeEpochs
<1>. QED
  BY <1>1, <1>2, <1>3, <1>4, HandledOne

LEMMA GroupHandles ==
    ASSUME NEW fl, IsFile(fl), NEW n \in Nat, n + 1 \in 1 .. Len(fl), NEW map,
           EpochOK(fl, n, map), NEW x, x = Epochs(fl[n + 1])
    PROVE  Handled("group_epochs", "active_connections", fl, n + 1, GroupEpochs(map, x))
<1>1. PICK t : /\ GroupEpochs(map, x) = Emits(t, [e \in x |-> Cardinality(Having(fl, n + 1, e))])
               /\ EpochOK(fl, n + 1, t)
  BY EpochKernel
<1>2. MapOK("group_epochs", fl, n + 1, t)
  BY <1>1 DEF MapOK
<1>3. PICK y : y = [e \in x |-> Cardinality(Having(fl, n + 1, e))]
  OBVIOUS
<1>4. IsResult("active_connections", fl, y, n + 1)
  <2>1. y = [e \in Epochs(fl[n + 1]) |-> Cardinality({m \in 1 .. n + 1 : e \in Epochs(fl[m])})]
    BY <1>3 DEF Having
  <2>. QED  BY <2>1, Zenon DEF IsResult
<1>5. Made("group_epochs", "active_connections", fl, y, n + 1)
  BY <1>4 DEF Made
<1>6. Through("group_epochs", "active_connections", fl, n + 1)
  BY DEF Through, Passes
<1>. QED
  BY <1>1, <1>2, <1>3, <1>5, <1>6, HandledOne

LEMMA FlGroupHandles ==
    ASSUME NEW fl, IsFile(fl), NEW n \in Nat, n + 1 \in 1 .. Len(fl), NEW map,
           FlowletOK(fl, n, map), NEW x, x = fl[n + 1]
    PROVE  Handled("fl_group", "flowlet_size_histogram", fl, n + 1, FlGroup(map, x))
<1>1. PICK t : /\ OverPackets(Flowlet, map, x) = t
               /\ t[x.key] = FlowletValue(PacketsOf(fl, x.key, n + 1))
               /\ FlowletOK(fl, n + 1, t)
  BY FlowletKernel
<1>2. MapOK("fl_group", fl, n + 1, t)
  BY <1>1 DEF MapOK
<1>3. FlGroup(map, x) = Emits(t, t[x.key].sizes)
  <2>1. FlGroup(map, x) = Emits(OverPackets(Flowlet, map, x), OverPackets(Flowlet, map, x)[x.key].sizes)
    BY Zenon DEF FlGroup
  <2>. QED  BY <1>1, <2>1
<1>4. t[x.key].sizes = FlowletsAt(fl, n + 1)
  BY <1>1 DEF FlowletsAt, FlowletValue
<1>5. Made("fl_group", "flowlet_size_histogram", fl, t[x.key].sizes, n + 1)
  BY <1>4 DEF Made
<1>6. Through("fl_group", "flowlet_size_histogram", fl, n + 1)
  BY DEF Through, Passes
<1>. QED
  BY <1>2, <1>3, <1>5, <1>6, HandledOne

LEMMA HistHandles ==
    ASSUME NEW fl, IsFile(fl), NEW n \in Nat, n + 1 \in 1 .. Len(fl), NEW map,
           HistOK(fl, n, map), NEW x, x = FlowletsAt(fl, n + 1)
    PROVE  Handled("fl_size_histogram", "flowlet_size_histogram", fl, n + 1, FlSizeHistogram(map, x))
<1>1. PICK t, y : /\ FlSizeHistogram(map, x) = Emits(t, y)
                  /\ y = [f \in DOMAIN x |-> <<x[f], Cardinality(SoFar(fl, n + 1, f, x[f]))>>]
                  /\ HistOK(fl, n + 1, t)
  BY HistKernel
<1>2. MapOK("fl_size_histogram", fl, n + 1, t)
  BY <1>1 DEF MapOK
<1>3. IsResult("flowlet_size_histogram", fl, y, n + 1)
  BY <1>1, Zenon DEF IsResult, SoFar, Places
<1>4. Made("fl_size_histogram", "flowlet_size_histogram", fl, y, n + 1)
  BY <1>3 DEF Made
<1>5. Through("fl_size_histogram", "flowlet_size_histogram", fl, n + 1)
  BY DEF Through, Passes
<1>. QED
  BY <1>1, <1>2, <1>4, <1>5, HandledOne

LEMMA NmHandles ==
    ASSUME NEW fl, IsFile(fl), NEW n \in Nat, n + 1 \in 1 .. Len(fl), NEW map,
           NmOK(fl, n, map), NEW x, x = fl[n + 1], IpProto[x.key] = "tcp"
    PROVE  Handled("flow_tcp_nm", "tcp_non_monotonic", fl, n + 1, FlowTcpNm(map, x))
<1>1. PICK t : /\ OverPackets(NonMonotonic, map, x) = t
               /\ t[x.key] = NmValue(PacketsOf(fl, x.key, n + 1))
               /\ NmOK(fl, n + 1, t)
  BY NmKernel
<1>2. MapOK("flow_tcp_nm", fl, n + 1, t)
  BY <1>1 DEF MapOK
<1>3. PICK y : y = <<x.key, t[x.key].n>>
  OBVIOUS
<1>4. FlowTcpNm(map, x) = Emits(t, y)
  <2>1. FlowTcpNm(map, x) = Emits(OverPackets(NonMonotonic, map, x),
                                  <<x.key, OverPackets(NonMonotonic, map, x)[x.key].n>>)
    BY Zenon DEF FlowTcpNm
  <2>. QED  BY <1>1, <1>3, <2>1
<1>5. PICK ps : ps = PacketsOf(fl, x.key, n + 1)
  OBVIOUS
<1>6. y = <<x.key, Cardinality(Decreases(ps))>>
  BY <1>1, <1>3, <1>5 DEF NmValue
<1>7. IsResult("tcp_non_monotonic", fl, y, n + 1)
  BY <1>5, <1>6, Zenon DEF IsResult, Decreases
<1>8. Made("flow_tcp_nm", "tcp_non_monotonic", fl, y, n + 1)
  BY <1>7 DEF Made
<1>9. Through("flow_tcp_nm", "tcp_non_monotonic", fl, n + 1)
  BY DEF Through, Passes
<1>. QED
  BY <1>2, <1>4, <1>8, <1>9, HandledOne

LEMMA OosHandles ==
    ASSUME NEW fl, IsFile(fl), NEW n \in Nat, n + 1 \in 1 .. Len(fl), NEW map,
           OosOK(fl, n, map), NEW x, x = fl[n + 1], IpProto[x.key] = "tcp"
    PROVE  Handled("flow_tcp_oos", "tcp_out_of_sequence", fl, n + 1, FlowTcpOos(map, x))
<1>1. PICK t : /\ OverPackets(OutOfSequence, map, x) = t
               /\ t[x.key] = OosValue(PacketsOf(fl, x.key, n + 1))
               /\ OosOK(fl, n + 1, t)
  BY OosKernel
<1>2. MapOK("flow_tcp_oos", fl, n + 1, t)
  BY <1>1 DEF MapOK
<1>3. PICK y : y = <<x.key, t[x.key].n>>
  OBVIOUS
<1>4. FlowTcpOos(map, x) = Emits(t, y)
  <2>1. FlowTcpOos(map, x) = Emits(OverPackets(OutOfSequence, map, x),
                                  <<x.key, OverPackets(OutOfSequence, map, x)[x.key].n>>)
    BY Zenon DEF FlowTcpOos
  <2>. QED  BY <1>1, <1>3, <2>1
<1>5. PICK ps : ps = PacketsOf(fl, x.key, n + 1)
  OBVIOUS
<1>6. y = <<x.key, Cardinality(Deviations(ps))>>
  BY <1>1, <1>3, <1>5 DEF OosValue
<1>7. IsResult("tcp_out_of_sequence", fl, y, n + 1)
  BY <1>5, <1>6, Zenon DEF IsResult, Deviations, Expected
<1>8. Made("flow_tcp_oos", "tcp_out_of_sequence", fl, y, n + 1)
  BY <1>7 DEF Made
<1>9. Through("flow_tcp_oos", "tcp_out_of_sequence", fl, n + 1)
  BY DEF Through, Passes
<1>. QED
  BY <1>2, <1>4, <1>8, <1>9, HandledOne

LEMMA EwmaHandles ==
    ASSUME NEW fl, IsFile(fl), NEW n \in Nat, n + 1 \in 1 .. Len(fl), NEW map,
           EwmaOK(fl, n, map), NEW x, x = fl[n + 1]
    PROVE  Handled("flow_ewma", "ewma_latencies", fl, n + 1, FlowEwma(map, x))
<1>1. PICK t, out : /\ FlowEwma(map, x) = Emits(t, <<x.key, out>>)
                    /\ EwmaResult(fl, n + 1, out)
                    /\ EwmaOK(fl, n + 1, t)
  BY EwmaKernel
<1>2. MapOK("flow_ewma", fl, n + 1, t)
  BY <1>1 DEF MapOK
<1>3. PICK y : y = <<x.key, out>> /\ y[1] = x.key /\ y[2] = out
  <2>1. <<x.key, out>>[1] = x.key /\ <<x.key, out>>[2] = out
    OBVIOUS
  <2>. QED  BY <2>1, Zenon
<1>4. PICK ps : ps = PacketsOf(fl, x.key, n + 1)
  OBVIOUS
<1>5. \A m \in DOMAIN y[2] : Within(ps, y[2][m])
  <2>1. DOMAIN out = 1 .. Len(out)
    BY <1>1, LenProperties DEF EwmaResult
  <2>. QED  BY <1>1, <1>3, <1>4, <2>1 DEF EwmaResult
<1>6. IsResult("ewma_latencies", fl, y, n + 1)
  <2>1. Len(y[2]) = Len(fl[n + 1].pkts)
    BY <1>1, <1>3 DEF EwmaResult
  <2>. QED  BY <1>3, <1>4, <1>5, <2>1, Zenon DEF IsResult, Within
<1>7. Made("flow_ewma", "ewma_latencies", fl, y, n + 1)
  BY <1>6 DEF Made
<1>8. Through("flow_ewma", "ewma_latencies", fl, n + 1)
  BY DEF Through, Passes
<1>. QED
  BY <1>1, <1>2, <1>3, <1>7, <1>8, HandledOne

LEMMA AddrHandles ==
    ASSUME NEW fl, IsFile(fl), NEW n \in Nat, n + 1 \in 1 .. Len(fl), NEW map,
           AddrOK(fl, n, map), NEW x, x = fl[n + 1]
    PROVE  Handled("src_ip_counter", "packet_counts", fl, n + 1, SrcIpCounter(map, x))
<1>1. PICK t : /\ SrcIpCounter(map, x) =
                        Emits(t, <<Src[x.key], Cardinality(From(fl, n + 1, Src[x.key]))>>)
               /\ AddrOK(fl, n + 1, t)
  BY AddrKernel
<1>2. MapOK("src_ip_counter", fl, n + 1, t)
  BY <1>1 DEF MapOK
<1>3. PICK y : y = <<Src[x.key], Cardinality(From(fl, n + 1, Src[x.key]))>>
  OBVIOUS
<1>4. IsResult("packet_counts", fl, y, n + 1)
  BY <1>3, Zenon DEF IsResult, From
<1>5. Made("src_ip_counter", "packet_counts", fl, y, n + 1)
  BY <1>4 DEF Made
<1>6. Through("src_ip_counter", "packet_counts", fl, n + 1)
  BY DEF Through, Passes
<1>. QED
  BY <1>1, <1>2, <1>3, <1>5, <1>6, HandledOne

\* At the beginning.
LEMMA MapsBegin ==
    ASSUME NEW fl, NEW kernel
    PROVE  MapOK(kernel, fl, 0, NoEntries)
<1>1. KeysOf(fl, 0) = {} /\ TcpKeys(fl, 0) = {} /\ DOMAIN NoEntries = {} /\ 1 .. 0 = {}
  BY DEF KeysOf, TcpKeys, NoEntries
<1>2. \A k : At(NoEntries, k, 0) = 0
  BY <1>1 DEF At
<1>3. Cardinality({}) = 0
  BY FS_EmptySet
<1>4. NmOK(fl, 0, NoEntries) /\ OosOK(fl, 0, NoEntries) /\ FlowletOK(fl, 0, NoEntries)
      /\ EwmaOK(fl, 0, NoEntries)
  BY <1>1 DEF NmOK, OosOK, FlowletOK, EwmaOK
<1>5. EpochOK(fl, 0, NoEntries)
  <2>1. \A e : Having(fl, 0, e) = {}
    BY <1>1 DEF Having
  <2>2. NoEntries = [e \in DOMAIN NoEntries |-> NoEntries[e]]
    BY DEF NoEntries
  <2>. QED  BY <1>2, <1>3, <2>1, <2>2 DEF EpochOK
<1>6. AddrOK(fl, 0, NoEntries)
  <2>1. \A a : From(fl, 0, a) = {}
    BY <1>1 DEF From
  <2>. QED  BY <1>2, <1>3, <2>1 DEF AddrOK
<1>7. HistOK(fl, 0, NoEntries)
  <2>1. \A v : Sized(fl, 0, v) = {}
    BY <1>1 DEF Sized, Places
  <2>2. NoEntries \in CountMaps
    <3>1. NoEntries \in [{} -> Nat] /\ {} \in SUBSET Nat
      BY DEF NoEntries
    <3>. QED  BY <3>1 DEF CountMaps
  <2>. QED  BY <1>2, <1>3, <2>1, <2>2 DEF HistOK
<1>. QED
  BY <1>4, <1>5, <1>6, <1>7 DEF MapOK

\* Every kernel of every program, with what the one before it makes.
LEMMA KernelHandles ==
    ASSUME NEW program \in ThePrograms, NEW fl, IsFile(fl), NEW n \in Nat, n + 1 \in 1 .. Len(fl),
           NEW c, c = Chain(program), NEW i \in 2 .. Len(c) - 1, NEW map, NEW x,
           MapOK(c[i], fl, n, map), Made(c[i - 1], program, fl, x, n + 1),
           Through(c[i - 1], program, fl, n + 1)
    PROVE  Handled(c[i], program, fl, n + 1, Apply(c[i], map, x))
<1>1. PICK L \in 2 .. 4 : L = Len(c)
  BY ChainSteps
<1>2. (i = 2 \/ (i = 3 /\ L = 4)) /\ L # 2
  <2>1. i \in 2 .. L - 1
    BY <1>1
  <2>. QED  BY <2>1
<1>3. ASSUME program = "active_connections" PROVE Handled(c[i], program, fl, n + 1, Apply(c[i], map, x))
  <2>1. c = ActiveConnections
    BY <1>3, ChainIs
  <2>2. CASE i = 2
    <3>1. c[i] = "compute_epochs" /\ c[i - 1] = "clfr_file_reader"
      BY <2>1, <2>2 DEF ActiveConnections
    <3>2. x = fl[n + 1]
      BY <3>1 DEF Made
    <3>3. Apply(c[i], map, x) = ComputeEpochs(map, x)
      BY <3>1 DEF Apply
    <3>. QED  BY <1>3, <3>1, <3>2, <3>3, EpochsHandles
  <2>3. CASE i = 3
    <3>1. c[i] = "group_epochs" /\ c[i - 1] = "compute_epochs"
      BY <2>1, <2>3 DEF ActiveConnections
    <3>2. x = Epochs(fl[n + 1]) /\ EpochOK(fl, n, map)
      BY <3>1 DEF Made, MapOK
    <3>3. Apply(c[i], map, x) = GroupEpochs(map, x)
      BY <3>1 DEF Apply
    <3>. QED  BY <1>3, <3>1, <3>2, <3>3, GroupHandles
  <2>. QED  BY <1>2, <2>2, <2>3
<1>4. ASSUME program = "flowlet_size_histogram" PROVE Handled(c[i], program, fl, n + 1, Apply(c[i], map, x))
  <2>1. c = FlowletSizes
    BY <1>4, ChainIs
  <2>2. CASE i = 2
    <3>1. c[i] = "fl_group" /\ c[i - 1] = "clfr_file_reader"
      BY <2>1, <2>2 DEF FlowletSizes
    <3>2. x = fl[n + 1] /\ FlowletOK(fl, n, map)
      BY <3>1 DEF Made, MapOK
    <3>3. Apply(c[i], map, x) = FlGroup(map, x)
      BY <3>1 DEF Apply
    <3>. QED  BY <1>4, <3>1, <3>2, <3>3, FlGroupHandles
  <2>3. CASE i = 3
    <3>1. c[i] = "fl_size_histogram" /\ c[i - 1] = "fl_group"
      BY <2>1, <2>3 DEF FlowletSizes
    <3>2. x = FlowletsAt(fl, n + 1) /\ HistOK(fl, n, map)
      BY <3>1 DEF Made, MapOK
    <3>3. Apply(c[i], map, x) = FlSizeHistogram(map, x)
      BY <3>1 DEF Apply
    <3>. QED  BY <1>4, <3>1, <3>2, <3>3, HistHandles
  <2>. QED  BY <1>2, <2>2, <2>3
<1>5. ASSUME program \in {"tcp_non_monotonic", "tcp_out_of_sequence"}, i = 2
      PROVE  Handled(c[i], program, fl, n + 1, Apply(c[i], map, x))
  <2>1. c[i] = "tcp_filter" /\ c[i - 1] = "clfr_file_reader"
    BY <1>5, ChainIs DEF TcpNonMonotonic, TcpOutOfSequence
  <2>2. x = fl[n + 1]
    BY <2>1 DEF Made
  <2>3. Apply(c[i], map, x) = TcpFilter(map, x)
    BY <2>1 DEF Apply
  <2>. QED  BY <1>5, <2>1, <2>2, <2>3, FilterHandles
<1>6. ASSUME program = "tcp_non_monotonic", i = 3
      PROVE  Handled(c[i], program, fl, n + 1, Apply(c[i], map, x))
  <2>1. c[i] = "flow_tcp_nm" /\ c[i - 1] = "tcp_filter"
    BY <1>6, ChainIs DEF TcpNonMonotonic
  <2>2. x = fl[n + 1] /\ NmOK(fl, n, map)
    BY <2>1 DEF Made, MapOK
  <2>3. Apply(c[i], map, x) = FlowTcpNm(map, x)
    BY <2>1 DEF Apply
  <2>4. IpProto[x.key] = "tcp"
    BY <1>6, <2>1, <2>2 DEF Through, Passes
  <2>. QED  BY <1>6, <2>1, <2>2, <2>3, <2>4, NmHandles
<1>7. ASSUME program = "tcp_out_of_sequence", i = 3
      PROVE  Handled(c[i], program, fl, n + 1, Apply(c[i], map, x))
  <2>1. c[i] = "flow_tcp_oos" /\ c[i - 1] = "tcp_filter"
    BY <1>7, ChainIs DEF TcpOutOfSequence
  <2>2. x = fl[n + 1] /\ OosOK(fl, n, map)
    BY <2>1 DEF Made, MapOK
  <2>3. Apply(c[i], map, x) = FlowTcpOos(map, x)
    BY <2>1 DEF Apply
  <2>4. IpProto[x.key] = "tcp"
    BY <1>7, <2>1, <2>2 DEF Through, Passes
  <2>. QED  BY <1>7, <2>1, <2>2, <2>3, <2>4, OosHandles
<1>8. ASSUME program = "ewma_latencies"
      PROVE  Handled(c[i], program, fl, n + 1, Apply(c[i], map, x))
  <2>1. i = 2 /\ c[i] = "flow_ewma" /\ c[i - 1] = "clfr_file_reader"
    <3>1. c = EwmaLatencies /\ L = 3
      BY <1>1, <1>8, ChainIs, ChainLens
    <3>2. i = 2
      BY <1>2, <3>1
    <3>. QED  BY <3>1, <3>2 DEF EwmaLatencies
  <2>2. x = fl[n + 1] /\ EwmaOK(fl, n, map)
    BY <2>1 DEF Made, MapOK
  <2>3. Apply(c[i], map, x) = FlowEwma(map, x)
    BY <2>1 DEF Apply
  <2>. QED  BY <1>8, <2>1, <2>2, <2>3, EwmaHandles
<1>9. ASSUME program = "packet_counts"
      PROVE  Handled(c[i], program, fl, n + 1, Apply(c[i], map, x))
  <2>1. i = 2 /\ c[i] = "src_ip_counter" /\ c[i - 1] = "clfr_file_reader"
    <3>1. c = PacketCounts /\ L = 3
      BY <1>1, <1>9, ChainIs, ChainLens
    <3>2. i = 2
      BY <1>2, <3>1
    <3>. QED  BY <3>1, <3>2 DEF PacketCounts
  <2>2. x = fl[n + 1] /\ AddrOK(fl, n, map)
    BY <2>1 DEF Made, MapOK
  <2>3. Apply(c[i], map, x) = SrcIpCounter(map, x)
    BY <2>1 DEF Apply
  <2>. QED  BY <1>9, <2>1, <2>2, <2>3, AddrHandles
<1>10. program \notin {"passthrough", "batch_test", "parallel_test"}
  BY <1>1, <1>2, ChainIs, ChainLens
<1>. QED
  BY <1>2, <1>3, <1>4, <1>5, <1>6, <1>7, <1>8, <1>9, <1>10 DEF ThePrograms

\* What the last kernel before the sink makes is the result.
LEMMA LastMakes ==
    ASSUME NEW program \in ThePrograms, NEW fl, NEW c, c = Chain(program), NEW k, k = c[Len(c) - 1]
    PROVE  /\ \A n : Through(k, program, fl, n) <=> Passes(program, fl, n)
           /\ \A n : \A x : Made(k, program, fl, x, n) => IsResult(program, fl, x, n)
<1>1. CASE program = "active_connections"
  <2>1. k = "group_epochs"
    <3>1. c = ActiveConnections
      BY <1>1, ChainIs
    <3>2. k = c[3]
      BY <3>1, ChainLens
    <3>. QED  BY <3>1, <3>2 DEF ActiveConnections
  <2>. QED  BY <2>1 DEF Through, Made
<1>2. CASE program = "flowlet_size_histogram"
  <2>1. k = "fl_size_histogram"
    <3>1. c = FlowletSizes
      BY <1>2, ChainIs
    <3>2. k = c[3]
      BY <3>1, ChainLens
    <3>. QED  BY <3>1, <3>2 DEF FlowletSizes
  <2>. QED  BY <2>1 DEF Through, Made
<1>3. CASE program = "tcp_non_monotonic"
  <2>1. k = "flow_tcp_nm"
    <3>1. c = TcpNonMonotonic
      BY <1>3, ChainIs
    <3>2. k = c[3]
      BY <3>1, ChainLens
    <3>. QED  BY <3>1, <3>2 DEF TcpNonMonotonic
  <2>. QED  BY <2>1 DEF Through, Made
<1>4. CASE program = "tcp_out_of_sequence"
  <2>1. k = "flow_tcp_oos"
    <3>1. c = TcpOutOfSequence
      BY <1>4, ChainIs
    <3>2. k = c[3]
      BY <3>1, ChainLens
    <3>. QED  BY <3>1, <3>2 DEF TcpOutOfSequence
  <2>. QED  BY <2>1 DEF Through, Made
<1>5. CASE program = "ewma_latencies"
  <2>1. k = "flow_ewma"
    <3>1. c = EwmaLatencies
      BY <1>5, ChainIs
    <3>2. k = c[2]
      BY <3>1, ChainLens
    <3>. QED  BY <3>1, <3>2 DEF EwmaLatencies
  <2>. QED  BY <2>1 DEF Through, Made
<1>6. CASE program = "packet_counts"
  <2>1. k = "src_ip_counter"
    <3>1. c = PacketCounts
      BY <1>6, ChainIs
    <3>2. k = c[2]
      BY <3>1, ChainLens
    <3>. QED  BY <3>1, <3>2 DEF PacketCounts
  <2>. QED  BY <2>1 DEF Through, Made
<1>7. CASE program \in {"passthrough", "batch_test", "parallel_test"}
  <2>1. k = "clfr_file_reader"
    <3>1. k = c[1]
      <4>1. Len(c) = 2
        BY <1>7, ChainIs, ChainLens
      <4>2. k = c[2 - 1]
        BY <4>1
      <4>. QED  BY <4>2
    <3>. QED  BY <3>1, ChainSteps
  <2>2. \A n : Passes(program, fl, n)
    BY <1>7 DEF Passes
  <2>3. \A n : \A x : x = fl[n] => IsResult(program, fl, x, n)
    BY <1>7, Zenon DEF IsResult
  <2>. QED  BY <2>1, <2>2, <2>3 DEF Through, Made
<1>. QED
  BY <1>1, <1>2, <1>3, <1>4, <1>5, <1>6, <1>7 DEF ThePrograms

\* The map of a kernel over records that it does not get.
LEMMA MapsStay ==
    ASSUME NEW program \in ThePrograms, NEW fl, IsFile(fl), NEW n \in Nat, n + 1 \in 1 .. Len(fl),
           NEW c, c = Chain(program), NEW i \in 2 .. Len(c) - 1, NEW map,
           MapOK(c[i], fl, n, map), ~Through(c[i - 1], program, fl, n + 1)
    PROVE  MapOK(c[i], fl, n + 1, map) /\ ~Through(c[i], program, fl, n + 1)
<1>1. PICK L \in 2 .. 4 : /\ L = Len(c) /\ c[1] = "clfr_file_reader"
                         /\ \A j \in 2 .. L - 1 : c[j] # "clfr_file_reader"
  BY ChainSteps
<1>2. i \in 2 .. L - 1 /\ (i = 2 \/ (i = 3 /\ L = 4)) /\ L # 2
  <2>1. i \in 2 .. L - 1
    BY <1>1
  <2>. QED  BY <2>1
<1>3. i = 3 /\ ~Passes(program, fl, n + 1)
  BY <1>1, <1>2 DEF Through
<1>4. program \in {"tcp_non_monotonic", "tcp_out_of_sequence"} /\ IpProto[fl[n + 1].key] # "tcp"
  BY <1>3 DEF Passes
<1>5. ~Through(c[i], program, fl, n + 1)
  <2>1. c[i] # "clfr_file_reader"
    BY <1>1, <1>2
  <2>. QED  BY <1>3, <2>1 DEF Through
<1>6. TcpKeys(fl, n + 1) = TcpKeys(fl, n)
  BY <1>4, KeysStep DEF TcpKeys
<1>7. \A k \in TcpKeys(fl, n) : PacketsOf(fl, k, n + 1) = PacketsOf(fl, k, n)
  <2>1. ASSUME NEW k \in TcpKeys(fl, n) PROVE fl[n + 1].key # k
    BY <1>4 DEF TcpKeys
  <2>. QED  BY <2>1, PacketsStay
<1>8. CASE program = "tcp_non_monotonic"
  <2>1. c[i] = "flow_tcp_nm"
    BY <1>3, <1>8, ChainIs DEF TcpNonMonotonic
  <2>2. NmOK(fl, n, map)
    BY <2>1 DEF MapOK
  <2>3. NmOK(fl, n + 1, map)
    BY <1>6, <1>7, <2>2 DEF NmOK
  <2>. QED  BY <1>5, <2>1, <2>3 DEF MapOK
<1>9. CASE program = "tcp_out_of_sequence"
  <2>1. c[i] = "flow_tcp_oos"
    BY <1>3, <1>9, ChainIs DEF TcpOutOfSequence
  <2>2. OosOK(fl, n, map)
    BY <2>1 DEF MapOK
  <2>3. OosOK(fl, n + 1, map)
    BY <1>6, <1>7, <2>2 DEF OosOK
  <2>. QED  BY <1>5, <2>1, <2>3 DEF MapOK
<1>. QED
  BY <1>4, <1>8, <1>9

-----------------------------------------------------------------------------
(***************************************************************************)
(* The objects on their way                                                *)
(*                                                                         *)
(* The objects that leave a kernel are numbered (Rank), by which the maps  *)
(* of the kernels, the streams between them and what the last one got are  *)
(* tied to the records of the file, whoever is ahead of whom.              *)
(***************************************************************************)
\* How many of the first n records leave a kernel.
Rank(kernel, program, fl, n) == Cardinality({m \in 1 .. n : Through(kernel, program, fl, m)})

\* Ranks go up by one with each record that leaves.
LEMMA RankSteps ==
    ASSUME NEW kernel, NEW program, NEW fl, NEW n \in Nat
    PROVE  /\ Rank(kernel, program, fl, 0) = 0
           /\ Rank(kernel, program, fl, n) \in Nat
           /\ Rank(kernel, program, fl, n + 1) =
                IF Through(kernel, program, fl, n + 1) THEN Rank(kernel, program, fl, n) + 1
                                                       ELSE Rank(kernel, program, fl, n)
<1>. DEFINE R(l) == {m \in 1 .. l : Through(kernel, program, fl, m)}
<1>1. PICK S : S = R(n)
  OBVIOUS
<1>2. IsFiniteSet(S) /\ n + 1 \notin S
  <2>1. S \subseteq 1 .. n /\ n + 1 \notin 1 .. n
    BY <1>1
  <2>2. n + 1 \notin S
    BY <2>1
  <2>3. IsFiniteSet(S)
    BY <2>1, CountOfInterval, FS_Subset
  <2>. QED  BY <2>2, <2>3
<1>3. PICK T : T = R(n + 1)
  OBVIOUS
<1>4. PICK c \in BOOLEAN : c <=> Through(kernel, program, fl, n + 1)
  <2>1. CASE Through(kernel, program, fl, n + 1)
    BY <2>1
  <2>2. CASE ~Through(kernel, program, fl, n + 1)
    BY <2>2
  <2>. QED  BY <2>1, <2>2
<1>5. (c => T = S \cup {n + 1}) /\ (~c => T = S)
  <2>1. \A m : m \in 1 .. n + 1 <=> (m \in 1 .. n \/ m = n + 1)
    OBVIOUS
  <2>. QED  BY <1>1, <1>3, <1>4, <2>1
<1>6. Cardinality(S) \in Nat /\ Cardinality(T) = IF c THEN Cardinality(S) + 1 ELSE Cardinality(S)
  BY <1>2, <1>5, CountMore
<1>7. Rank(kernel, program, fl, 0) = 0
  <2>1. R(0) = {}
    OBVIOUS
  <2>2. Rank(kernel, program, fl, 0) = Cardinality(R(0))
    BY DEF Rank
  <2>. QED  BY <2>1, <2>2, FS_EmptySet
<1>8. Rank(kernel, program, fl, n) = Cardinality(S) /\ Rank(kernel, program, fl, n + 1) = Cardinality(T)
  BY <1>1, <1>3 DEF Rank
<1>. QED
  BY <1>4, <1>6, <1>7, <1>8

LEMMA RankOfReader ==
    ASSUME NEW program, NEW fl, NEW n \in Nat
    PROVE  Rank("clfr_file_reader", program, fl, n) = n
<1>1. {m \in 1 .. n : Through("clfr_file_reader", program, fl, m)} = 1 .. n
  BY DEF Through
<1>. QED
  BY <1>1, CountOfInterval DEF Rank

\* Of the same rank, and the first of them leaves the kernel: none after it does.
LEMMA RankGap ==
    ASSUME NEW kernel, NEW program, NEW fl, NEW l \in Nat, NEW n \in Nat,
           l = 0 \/ Through(kernel, program, fl, l),
           Rank(kernel, program, fl, n) = Rank(kernel, program, fl, l)
    PROVE  l <= n /\ \A m \in l + 1 .. n : ~Through(kernel, program, fl, m)
<1>. DEFINE R(j) == {m \in 1 .. j : Through(kernel, program, fl, m)}
<1>1. PICK S : S = R(l)
  OBVIOUS
<1>2. PICK T : T = R(n)
  OBVIOUS
<1>3. IsFiniteSet(S) /\ IsFiniteSet(T)
  <2>1. S \subseteq 1 .. l /\ T \subseteq 1 .. n
    BY <1>1, <1>2
  <2>. QED  BY <2>1, CountOfInterval, FS_Subset
<1>4. Cardinality(S) = Cardinality(T)
  BY <1>1, <1>2 DEF Rank
<1>5. l # 0 => l \in S
  BY <1>1
<1>6. l <= n
  <2>. SUFFICES ASSUME ~(l <= n) PROVE FALSE
    OBVIOUS
  <2>7. l # 0
    OBVIOUS
  <2>1. T \subseteq S /\ l \notin T
    BY <1>1, <1>2
  <2>2. S = T
    BY <1>3, <1>4, <2>1, FS_Subset
  <2>. QED  BY <1>5, <2>7, <2>1, <2>2
<1>7. S = T
  <2>1. S \subseteq T
    BY <1>1, <1>2, <1>6
  <2>. QED  BY <1>3, <1>4, <2>1, FS_Subset
<1>8. ASSUME NEW m \in l + 1 .. n, Through(kernel, program, fl, m) PROVE FALSE
  <2>1. m \in T /\ m \notin S
    BY <1>1, <1>2, <1>8
  <2>. QED  BY <1>7, <2>1
<1>. QED
  BY <1>6, <1>8

\* The objects b are those of the records after the d-th that leave the kernel.
Carries(kernel, program, fl, d, b) ==
    /\ Plain(b)
    /\ \A j \in 1 .. Len(b) : \E n \in 1 .. Len(fl) :
          /\ Through(kernel, program, fl, n) /\ Rank(kernel, program, fl, n) = d + j
          /\ Made(kernel, program, fl, b[j], n)

\* The map of a kernel that has got d objects, when out have left it.
Tuned(kernel, input, program, fl, d, out, map) ==
    \A n \in 0 .. Len(fl) : Rank(input, program, fl, n) = d =>
        Rank(kernel, program, fl, n) = out /\ MapOK(kernel, fl, n, map)

\* Objects join and leave a stream in order.
LEMMA CarriesNone ==
    ASSUME NEW kernel, NEW program, NEW fl, NEW d
    PROVE  Carries(kernel, program, fl, d, <<>>)
BY PlainEmpty DEF Carries

LEMMA CarriesMore ==
    ASSUME NEW kernel, NEW program, NEW fl, NEW d \in Nat, NEW b, Carries(kernel, program, fl, d, b),
           NEW n \in 1 .. Len(fl), Through(kernel, program, fl, n),
           Rank(kernel, program, fl, n) = d + Len(b) + 1, NEW x, Made(kernel, program, fl, x, n)
    PROVE  /\ Carries(kernel, program, fl, d, Append(b, x))
           /\ Len(b) \in Nat /\ Len(Append(b, x)) = Len(b) + 1
<1>1. PICK a : a = Append(b, x)
  OBVIOUS
<1>2. PICK l \in Nat : l = Len(b) /\ Plain(a) /\ Len(a) = l + 1
  BY <1>1, PlainAppend DEF Carries
<1>3. (\A j \in 1 .. l : a[j] = b[j]) /\ a[l + 1] = x
  <2>1. PICK S : b \in Seq(S)
    BY DEF Carries, Plain
  <2>2. b \in Seq(S \cup {x}) /\ x \in S \cup {x}
    <3>1. b \in [1 .. l -> S]
      BY <1>2, <2>1, LenProperties, ElementOfSeq
    <3>2. b \in [1 .. l -> S \cup {x}]
      BY <3>1
    <3>. QED  BY <3>2, IsASeq
  <2>. QED  BY <1>1, <1>2, <2>2, AppendProperties
<1>4. ASSUME NEW j \in 1 .. l + 1
      PROVE  \E m \in 1 .. Len(fl) :
          /\ Through(kernel, program, fl, m) /\ Rank(kernel, program, fl, m) = d + j
          /\ Made(kernel, program, fl, a[j], m)
  <2>1. CASE j \in 1 .. l
    <3>1. \E m \in 1 .. Len(fl) :
          /\ Through(kernel, program, fl, m) /\ Rank(kernel, program, fl, m) = d + j
          /\ Made(kernel, program, fl, b[j], m)
      BY <1>2, <2>1 DEF Carries
    <3>. QED  BY <1>3, <2>1, <3>1
  <2>2. CASE j = l + 1
    <3>1. Rank(kernel, program, fl, n) = d + j
      BY <1>2, <2>2
    <3>. QED  BY <1>3, <2>2, <3>1
  <2>. QED  BY <2>1, <2>2
<1>5. Carries(kernel, program, fl, d, a)
  BY <1>2, <1>4 DEF Carries
<1>. QED
  BY <1>1, <1>2, <1>5

LEMMA CarriesRest ==
    ASSUME NEW kernel, NEW program, NEW fl, NEW d \in Nat, NEW b, Carries(kernel, program, fl, d, b),
           b # <<>>
    PROVE  /\ Carries(kernel, program, fl, d + 1, Tail(b))
           /\ Len(b) \in Nat /\ Len(b) = Len(Tail(b)) + 1 /\ Len(Tail(b)) \in Nat
           /\ \E n \in 1 .. Len(fl) :
                /\ Through(kernel, program, fl, n) /\ Rank(kernel, program, fl, n) = d + 1
                /\ Made(kernel, program, fl, Head(b), n)
<1>1. PICK a : a = Tail(b)
  OBVIOUS
<1>2. PICK S : b \in Seq(S)
  BY DEF Carries, Plain
<1>3. PICK l \in Nat : l = Len(a) /\ Len(b) = l + 1 /\ Plain(a)
  <2>1. Plain(b)
    BY DEF Carries
  <2>2. Plain(a) /\ Len(b) \in Nat /\ Len(a) \in Nat /\ Len(a) = Len(b) - 1
    BY <1>1, <2>1, PlainTail
  <2>. QED  BY <2>2
<1>4. Head(b) = b[1] /\ \A j \in 1 .. l : a[j] = b[j + 1]
  BY <1>1, <1>2, <1>3, HeadTailProperties
<1>5. \A j \in 1 .. l + 1 : \E n \in 1 .. Len(fl) :
          /\ Through(kernel, program, fl, n) /\ Rank(kernel, program, fl, n) = d + j
          /\ Made(kernel, program, fl, b[j], n)
  BY <1>3 DEF Carries
<1>6. ASSUME NEW j \in 1 .. l
      PROVE  \E n \in 1 .. Len(fl) :
          /\ Through(kernel, program, fl, n) /\ Rank(kernel, program, fl, n) = (d + 1) + j
          /\ Made(kernel, program, fl, a[j], n)
  <2>1. PICK i \in 1 .. l + 1 : i = j + 1 /\ d + i = (d + 1) + j
    OBVIOUS
  <2>2. a[j] = b[i]
    BY <1>4, <2>1
  <2>. QED  BY <1>5, <2>1, <2>2
<1>7. Carries(kernel, program, fl, d + 1, a)
  BY <1>3, <1>6 DEF Carries
<1>8. \E n \in 1 .. Len(fl) :
          /\ Through(kernel, program, fl, n) /\ Rank(kernel, program, fl, n) = d + 1
          /\ Made(kernel, program, fl, Head(b), n)
  <2>1. 1 \in 1 .. l + 1
    OBVIOUS
  <2>. QED  BY <1>4, <1>5, <2>1
<1>. QED
  BY <1>1, <1>3, <1>7, <1>8

\* A kernel's map after its l-th input, over the records that do not reach it.
LEMMA TunedOver ==
    ASSUME NEW program \in ThePrograms, NEW fl, IsFile(fl), NEW c, c = Chain(program),
           NEW i \in 2 .. Len(c) - 1, NEW map, NEW out, NEW l \in 0 .. Len(fl),
           l = 0 \/ Through(c[i - 1], program, fl, l),
           MapOK(c[i], fl, l, map), Rank(c[i], program, fl, l) = out
    PROVE  Tuned(c[i], c[i - 1], program, fl, Rank(c[i - 1], program, fl, l), out, map)
<1>1. PICK L \in Nat : L = Len(fl)
  BY FileType
<1>2. PICK k, h : k = c[i] /\ h = c[i - 1]
  OBVIOUS
<1>. DEFINE Fits(n) == Rank(k, program, fl, n) = out /\ MapOK(k, fl, n, map)
            Bad == {n \in 0 .. L : Rank(h, program, fl, n) = Rank(h, program, fl, l) /\ ~Fits(n)}
<1>. SUFFICES ASSUME Bad # {} PROVE FALSE
  BY <1>1, <1>2 DEF Tuned
<1>3. PICK n \in Bad : \A m \in Bad : n <= m
  <2>1. Bad \in SUBSET Nat
    OBVIOUS
  <2>. HIDE DEF Bad
  <2>. QED  BY <2>1, NatMinimum
<1>4. l \in Nat /\ n \in Nat /\ n \in 0 .. L /\ l \in 0 .. L
  BY <1>1
<1>5. l <= n /\ \A m \in l + 1 .. n : ~Through(h, program, fl, m)
  <2>1. (l = 0 \/ Through(h, program, fl, l)) /\ Rank(h, program, fl, n) = Rank(h, program, fl, l)
    BY <1>2
  <2>. QED  BY <1>4, <2>1, RankGap
<1>6. l # n
  BY <1>2
<1>7. PICK p \in Nat : n = p + 1 /\ p \in 0 .. L /\ n \in 1 .. L /\ n \in l + 1 .. n /\ l <= p
  <2>1. n - 1 \in Nat /\ n = (n - 1) + 1 /\ n - 1 \in 0 .. L /\ n \in 1 .. L /\ n \in l + 1 .. n /\ l <= n - 1
    BY <1>4, <1>5, <1>6
  <2>. QED  BY <2>1
<1>8. ~Through(h, program, fl, p + 1)
  BY <1>5, <1>7
<1>9. Rank(h, program, fl, p + 1) = Rank(h, program, fl, p)
  BY <1>8, RankSteps
<1>10. p \notin Bad
  <2>1. ~(n <= p)
    BY <1>7
  <2>. HIDE DEF Bad
  <2>. QED  BY <1>3, <2>1
<1>11. Fits(p)
  <2>1. Rank(h, program, fl, p) = Rank(h, program, fl, l)
    BY <1>7, <1>9
  <2>. QED  BY <1>7, <1>10, <2>1
<1>12. MapOK(k, fl, p + 1, map) /\ ~Through(k, program, fl, p + 1)
  <2>1. MapOK(c[i], fl, p, map) /\ ~Through(c[i - 1], program, fl, p + 1)
    BY <1>2, <1>8, <1>11
  <2>2. p + 1 \in 1 .. Len(fl)
    BY <1>1, <1>7
  <2>. QED  BY <1>2, <2>1, <2>2, MapsStay
<1>13. Rank(k, program, fl, p + 1) = Rank(k, program, fl, p)
  BY <1>12, RankSteps
<1>. QED
  BY <1>7, <1>11, <1>12, <1>13

\* A kernel gets its next object.
Served(kernel, input, program, fl, d, out, result) ==
    \/ /\ result.out = <<>>
       /\ Tuned(kernel, input, program, fl, d + 1, out, result.map)
    \/ /\ Tuned(kernel, input, program, fl, d + 1, out + 1, result.map)
       /\ \E y : \E n \in 1 .. Len(fl) :
             /\ result.out = <<y>> /\ Made(kernel, program, fl, y, n)
             /\ Through(kernel, program, fl, n) /\ Rank(kernel, program, fl, n) = out + 1

\* Its map and what it pushes, if anything, are those of that object's record.
LEMMA KernelServes ==
    ASSUME NEW program \in ThePrograms, NEW fl, IsFile(fl), NEW c, c = Chain(program),
           NEW i \in 2 .. Len(c) - 1, NEW map, NEW d \in Nat, NEW out \in Nat,
           Tuned(c[i], c[i - 1], program, fl, d, out, map),
           NEW n \in 1 .. Len(fl), NEW x,
           Through(c[i - 1], program, fl, n), Rank(c[i - 1], program, fl, n) = d + 1,
           Made(c[i - 1], program, fl, x, n)
    PROVE  Served(c[i], c[i - 1], program, fl, d, out, Apply(c[i], map, x))
<1>1. PICK L \in Nat : L = Len(fl)
  BY FileType
<1>2. PICK p \in Nat : n = p + 1 /\ p \in 0 .. L
  <2>1. n - 1 \in Nat /\ n = (n - 1) + 1 /\ n - 1 \in 0 .. L
    BY <1>1
  <2>. QED  BY <2>1
<1>3. PICK k, h : k = c[i] /\ h = c[i - 1]
  OBVIOUS
<1>4. Rank(h, program, fl, p) = d
  <2>1. Rank(h, program, fl, p + 1) = Rank(h, program, fl, p) + 1 /\ Rank(h, program, fl, p) \in Nat
    BY <1>2, <1>3, RankSteps
  <2>2. Rank(h, program, fl, p + 1) = d + 1
    BY <1>2, <1>3
  <2>. QED  BY <2>1, <2>2
<1>5. Rank(k, program, fl, p) = out /\ MapOK(k, fl, p, map)
  BY <1>1, <1>2, <1>3, <1>4 DEF Tuned
<1>6. PICK result : result = Apply(k, map, x)
  OBVIOUS
<1>7. Handled(k, program, fl, n, result)
  <2>1. MapOK(c[i], fl, p, map) /\ Made(c[i - 1], program, fl, x, p + 1) /\ Through(c[i - 1], program, fl, p + 1)
        /\ p + 1 \in 1 .. Len(fl)
    BY <1>2, <1>3, <1>5
  <2>2. Handled(c[i], program, fl, p + 1, Apply(c[i], map, x))
    BY <2>1, KernelHandles
  <2>. QED  BY <1>2, <1>3, <1>6, <2>2
<1>8. MapOK(k, fl, n, result.map)
  BY <1>7 DEF Handled
<1>9. Tuned(k, h, program, fl, d + 1, Rank(k, program, fl, n), result.map)
  <2>1. Tuned(c[i], c[i - 1], program, fl, Rank(c[i - 1], program, fl, n), Rank(c[i], program, fl, n), result.map)
    <3>1. n \in 0 .. Len(fl)
      BY <1>1
    <3>. QED  BY <1>3, <1>8, <3>1, TunedOver
  <2>. QED  BY <1>3, <2>1
<1>10. CASE Through(k, program, fl, n)
  <2>1. Rank(k, program, fl, n) = out + 1
    BY <1>2, <1>5, <1>10, RankSteps
  <2>2. PICK y : result.out = <<y>> /\ Made(k, program, fl, y, n)
    BY <1>7, <1>10 DEF Handled
  <2>3. Served(k, h, program, fl, d, out, result)
    BY <1>9, <1>10, <2>1, <2>2, Zenon DEF Served
  <2>. QED  BY <1>3, <1>6, <2>3
<1>11. CASE ~Through(k, program, fl, n)
  <2>1. Rank(k, program, fl, n) = out
    BY <1>2, <1>5, <1>11, RankSteps
  <2>2. result.out = <<>>
    BY <1>7, <1>11 DEF Handled
  <2>3. Served(k, h, program, fl, d, out, result)
    BY <1>9, <2>1, <2>2, Zenon DEF Served
  <2>. QED  BY <1>3, <1>6, <2>3
<1>. QED
  BY <1>10, <1>11

\* The streams b of a program, N of them, when d[i] objects have left the i-th,
\* with the maps m, after r records read and with t at the last kernel.
Delivering(program, fl, c, N, d, b, m, r, t) ==
    /\ d \in [1 .. N -> Nat] /\ d[N] = Len(t) /\ r = d[1] + Len(b[1])
    /\ \A i \in 1 .. N : Carries(c[i], program, fl, d[i], b[i])
    /\ \A i \in 2 .. N : Tuned(c[i], c[i - 1], program, fl, d[i - 1], d[i] + Len(b[i]), m[i])
    /\ Carries(c[N], program, fl, 0, t)

Delivers(program, fl, c, N, b, m, r, t) == \E d : Delivering(program, fl, c, N, d, b, m, r, t)

LEMMA CarriesLen ==
    ASSUME NEW kernel, NEW program, NEW fl, NEW d, NEW b, Carries(kernel, program, fl, d, b)
    PROVE  Len(b) \in Nat
BY PlainAppend DEF Carries

\* N kernels of a program, the last of which pushes to the sink.
ChainOf(program, c, N) ==
    program \in ThePrograms /\ c = Chain(program) /\ N \in 1 .. 3 /\ Len(c) = N + 1

\* At the beginning.
LEMMA DeliverNone ==
    ASSUME NEW program, NEW fl, IsFile(fl), NEW c, NEW N, ChainOf(program, c, N), NEW b, NEW m,
           \A i \in 1 .. N : b[i] = <<>>, \A i \in 2 .. N : m[i] = NoEntries
    PROVE  Delivers(program, fl, c, N, b, m, 0, <<>>)
<1>1. PICK d : d = [i \in 1 .. N |-> 0]
  OBVIOUS
<1>2. PICK e : e = <<>> /\ Len(e) = 0
  BY PlainEmpty
<1>7. N \in 1 .. 3 /\ Len(c) - 1 = N /\ 1 \in 1 .. N /\ N \in 1 .. N
  BY DEF ChainOf
<1>3. d \in [1 .. N -> Nat] /\ d[N] = Len(e) /\ 0 = d[1] + Len(b[1])
  <2>1. b[1] = e
    BY <1>7, <1>2
  <2>. QED  BY <1>7, <1>1, <1>2, <2>1
<1>4. \A i \in 1 .. N : Carries(c[i], program, fl, d[i], b[i])
  BY CarriesNone
<1>5. Carries(c[N], program, fl, 0, e)
  BY <1>2, CarriesNone
<1>6. ASSUME NEW i \in 2 .. N
      PROVE  Tuned(c[i], c[i - 1], program, fl, d[i - 1], d[i] + Len(b[i]), m[i])
  <2>1. i - 1 \in 1 .. N /\ i \in 1 .. N /\ i \in 2 .. Len(c) - 1
    BY <1>7
  <2>2. d[i - 1] = 0 /\ d[i] + Len(b[i]) = 0 /\ m[i] = NoEntries
    <3>1. d[i - 1] = 0 /\ d[i] = 0 /\ b[i] = e
      BY <1>1, <1>2, <2>1
    <3>. QED  BY <1>2, <3>1
  <2>3. Rank(c[i], program, fl, 0) = 0 /\ Rank(c[i - 1], program, fl, 0) = 0
    <3>1. 0 \in Nat
      OBVIOUS
    <3>. QED  BY <3>1, RankSteps
  <2>4. MapOK(c[i], fl, 0, NoEntries) /\ 0 \in 0 .. Len(fl)
    BY MapsBegin, FileType
  <2>5. Tuned(c[i], c[i - 1], program, fl, Rank(c[i - 1], program, fl, 0), 0, NoEntries)
    BY <2>1, <2>3, <2>4, TunedOver DEF ChainOf
  <2>. QED  BY <2>2, <2>3, <2>5
<1>. QED
  BY <1>2, <1>3, <1>4, <1>5, <1>6, Zenon DEF Delivers, Delivering

\* The reader reads a record.
LEMMA DeliverRead ==
    ASSUME NEW program, NEW fl, IsFile(fl), NEW c, NEW N, ChainOf(program, c, N), NEW b, NEW m,
           NEW r \in Nat, r < Len(fl), NEW t, Delivers(program, fl, c, N, b, m, r, t),
           NEW a, \A i \in 1 .. N : a[i] = IF i = 1 THEN Append(b[1], fl[r + 1]) ELSE b[i]
    PROVE  Delivers(program, fl, c, N, a, m, r + 1, t)
<1>1. PICK d : Delivering(program, fl, c, N, d, b, m, r, t)
  BY DEF Delivers
<1>2. N \in 1 .. 3 /\ 1 \in 1 .. N /\ c[1] = "clfr_file_reader" /\ d[1] \in Nat
  <2>1. N \in 1 .. 3 /\ 1 \in 1 .. N
    BY DEF ChainOf
  <2>. QED  BY <1>1, <2>1, ChainSteps DEF ChainOf, Delivering
<1>3. PICK n \in 1 .. Len(fl) : n = r + 1 /\ n \in Nat
  BY FileType
<1>4. PICK x : x = fl[n]
  OBVIOUS
<1>5. /\ Carries(c[1], program, fl, d[1], Append(b[1], x))
      /\ Len(b[1]) \in Nat /\ Len(Append(b[1], x)) = Len(b[1]) + 1
  <2>1. Carries(c[1], program, fl, d[1], b[1]) /\ r = d[1] + Len(b[1])
    BY <1>1, <1>2 DEF Delivering
  <2>2. Through(c[1], program, fl, n) /\ Made(c[1], program, fl, x, n)
    BY <1>2, <1>4 DEF Through, Made
  <2>3. Rank(c[1], program, fl, n) = d[1] + Len(b[1]) + 1
    <3>1. Rank(c[1], program, fl, n) = n
      BY <1>2, <1>3, RankOfReader
    <3>. QED  BY <1>3, <2>1, <3>1
  <2>. QED  BY <1>2, <1>3, <2>1, <2>2, <2>3, CarriesMore
<1>6. a[1] = Append(b[1], x) /\ \A i \in 2 .. N : a[i] = b[i]
  <2>1. a[1] = Append(b[1], fl[r + 1]) /\ x = fl[r + 1]
    BY <1>2, <1>3, <1>4
  <2>2. \A i \in 2 .. N : i \in 1 .. N /\ i # 1
    BY <1>2
  <2>. QED  BY <2>1, <2>2
<1>7. r + 1 = d[1] + Len(a[1])
  <2>1. r = d[1] + Len(b[1])
    BY <1>1 DEF Delivering
  <2>. QED  BY <1>2, <1>5, <1>6, <2>1
<1>8. \A i \in 1 .. N : Carries(c[i], program, fl, d[i], a[i])
  BY <1>1, <1>2, <1>5, <1>6 DEF Delivering
<1>9. \A i \in 2 .. N : Tuned(c[i], c[i - 1], program, fl, d[i - 1], d[i] + Len(a[i]), m[i])
  BY <1>1, <1>6 DEF Delivering
<1>10. Delivering(program, fl, c, N, d, a, m, r + 1, t)
  BY <1>1, <1>7, <1>8, <1>9 DEF Delivering
<1>. QED
  BY <1>10 DEF Delivers

\* The last kernel pops an object.
LEMMA DeliverTake ==
    ASSUME NEW program, NEW fl, IsFile(fl), NEW c, NEW N, ChainOf(program, c, N), NEW b, NEW m,
           NEW r, NEW t, Delivers(program, fl, c, N, b, m, r, t), b[N] # <<>>,
           NEW a, \A i \in 1 .. N : a[i] = IF i = N THEN Tail(b[N]) ELSE b[i]
    PROVE  Delivers(program, fl, c, N, a, m, r, Append(t, Head(b[N])))
<1>1. PICK d : Delivering(program, fl, c, N, d, b, m, r, t)
  BY DEF Delivers
<1>2. N \in 1 .. 3 /\ 1 \in 1 .. N /\ N \in 1 .. N /\ d \in [1 .. N -> Nat] /\ d[N] \in Nat
  <2>1. N \in 1 .. 3 /\ 1 \in 1 .. N /\ N \in 1 .. N
    BY DEF ChainOf
  <2>. QED  BY <1>1, <2>1 DEF Delivering
<1>3. PICK x : x = Head(b[N])
  OBVIOUS
<1>4. /\ Carries(c[N], program, fl, d[N] + 1, Tail(b[N]))
      /\ Len(b[N]) \in Nat /\ Len(b[N]) = Len(Tail(b[N])) + 1 /\ Len(Tail(b[N])) \in Nat
      /\ \E n \in 1 .. Len(fl) :
            /\ Through(c[N], program, fl, n) /\ Rank(c[N], program, fl, n) = d[N] + 1
            /\ Made(c[N], program, fl, x, n)
  <2>1. Carries(c[N], program, fl, d[N], b[N])
    BY <1>1, <1>2 DEF Delivering
  <2>. QED  BY <1>2, <1>3, <2>1, CarriesRest
<1>5. PICK n \in 1 .. Len(fl) : /\ Through(c[N], program, fl, n) /\ Rank(c[N], program, fl, n) = d[N] + 1
                                /\ Made(c[N], program, fl, x, n)
  BY <1>4
<1>6. /\ Carries(c[N], program, fl, 0, Append(t, x))
      /\ Len(t) \in Nat /\ Len(Append(t, x)) = Len(t) + 1
  <2>1. Carries(c[N], program, fl, 0, t) /\ d[N] = Len(t)
    BY <1>1 DEF Delivering
  <2>2. Rank(c[N], program, fl, n) = 0 + Len(t) + 1
    BY <1>2, <1>5, <2>1
  <2>. QED  BY <1>5, <2>1, <2>2, CarriesMore
<1>7. PICK e : e = [d EXCEPT ![N] = d[N] + 1]
  OBVIOUS
<1>8. e \in [1 .. N -> Nat] /\ e[N] = d[N] + 1 /\ \A i \in 1 .. N : i # N => e[i] = d[i]
  BY <1>2, <1>7
<1>9. e[N] = Len(Append(t, x))
  BY <1>1, <1>6, <1>8 DEF Delivering
<1>10. \A i \in 1 .. N : e[i] + Len(a[i]) = d[i] + Len(b[i])
  <2>1. ASSUME NEW i \in 1 .. N PROVE e[i] + Len(a[i]) = d[i] + Len(b[i])
    <3>1. CASE i = N
      <4>1. PICK u \in Nat : u = Len(a[i]) /\ Len(b[i]) = u + 1
        BY <1>4, <3>1
      <4>2. PICK v \in Nat : v = d[i] /\ e[i] = v + 1
        BY <1>2, <1>8, <3>1
      <4>3. e[i] + Len(a[i]) = (v + 1) + u /\ d[i] + Len(b[i]) = v + (u + 1)
        BY <4>1, <4>2, Zenon
      <4>4. (v + 1) + u = v + (u + 1)
        OBVIOUS
      <4>. QED  BY <4>3, <4>4, Zenon
    <3>2. CASE i # N
      BY <1>8, <3>2
    <3>. QED  BY <3>1, <3>2
  <2>. QED  BY <2>1
<1>11. \A i \in 1 .. N : Carries(c[i], program, fl, e[i], a[i])
  <2>1. ASSUME NEW i \in 1 .. N PROVE Carries(c[i], program, fl, e[i], a[i])
    <3>1. CASE i = N
      <4>1. a[i] = Tail(b[N]) /\ e[i] = d[N] + 1 /\ c[i] = c[N]
        BY <1>8, <3>1
      <4>. QED  BY <1>4, <4>1
    <3>2. CASE i # N
      <4>1. a[i] = b[i] /\ e[i] = d[i]
        BY <1>8, <3>2
      <4>. QED  BY <1>1, <4>1 DEF Delivering
    <3>. QED  BY <3>1, <3>2
  <2>. QED  BY <2>1
<1>12. \A i \in 2 .. N : Tuned(c[i], c[i - 1], program, fl, e[i - 1], e[i] + Len(a[i]), m[i])
  <2>1. ASSUME NEW i \in 2 .. N
        PROVE  Tuned(c[i], c[i - 1], program, fl, e[i - 1], e[i] + Len(a[i]), m[i])
    <3>1. i - 1 \in 1 .. N /\ i - 1 # N /\ i \in 1 .. N
      BY <1>2
    <3>2. e[i - 1] = d[i - 1] /\ e[i] + Len(a[i]) = d[i] + Len(b[i])
      BY <1>8, <1>10, <3>1
    <3>3. Tuned(c[i], c[i - 1], program, fl, d[i - 1], d[i] + Len(b[i]), m[i])
      BY <1>1 DEF Delivering
    <3>. QED  BY <3>2, <3>3
  <2>. QED  BY <2>1
<1>13. r = e[1] + Len(a[1])
  <2>1. r = d[1] + Len(b[1])
    BY <1>1 DEF Delivering
  <2>2. e[1] + Len(a[1]) = d[1] + Len(b[1])
    BY <1>2, <1>10
  <2>. QED  BY <2>1, <2>2
<1>14. Delivering(program, fl, c, N, e, a, m, r, Append(t, x))
  BY <1>6, <1>8, <1>9, <1>11, <1>12, <1>13 DEF Delivering
<1>. QED
  BY <1>3, <1>14 DEF Delivers

\* Kernel k pops an object, and pushes what it makes of it.
Runs(c, N, k, p, b, m, result, a, l) ==
    /\ k \in 2 .. N /\ p = k - 1 /\ b[p] # <<>> /\ a[p] = Tail(b[p])
    /\ result = Apply(c[k], m[k], Head(b[p]))
    /\ result.out = <<>> => a[k] = b[k]
    /\ \A y : result.out = <<y>> => a[k] = Append(b[k], y)
    /\ \A i \in 1 .. N : i # p /\ i # k => a[i] = b[i]
    /\ l[k] = result.map /\ \A i \in 2 .. N : i # k => l[i] = m[i]

LEMMA DeliverRun ==
    ASSUME NEW program, NEW fl, IsFile(fl), NEW c, NEW N, ChainOf(program, c, N), NEW b, NEW m,
           NEW r, NEW t, Delivers(program, fl, c, N, b, m, r, t),
           NEW k, NEW p, NEW result, NEW a, NEW l, Runs(c, N, k, p, b, m, result, a, l)
    PROVE  /\ Delivers(program, fl, c, N, a, l, r, t)
           /\ result.out = <<>> \/ \E y : result.out = <<y>>
<1>. USE DEF Runs
<1>1. PICK d : Delivering(program, fl, c, N, d, b, m, r, t)
  BY DEF Delivers
<1>2. /\ N \in 1 .. 3 /\ 1 \in 1 .. N /\ N \in 1 .. N /\ k \in 1 .. N /\ p \in 1 .. N
      /\ p # k /\ p # N /\ k \in 2 .. Len(c) - 1
      /\ d \in [1 .. N -> Nat] /\ d[p] \in Nat /\ d[k] \in Nat
  <2>1. /\ N \in 1 .. 3 /\ 1 \in 1 .. N /\ N \in 1 .. N /\ k \in 1 .. N /\ p \in 1 .. N
        /\ p # k /\ p # N
    BY DEF ChainOf
  <2>2. k \in 2 .. Len(c) - 1
    BY DEF ChainOf
  <2>. QED  BY <1>1, <2>1, <2>2 DEF Delivering
<1>3. PICK x : x = Head(b[p])
  OBVIOUS
<1>4. /\ Carries(c[p], program, fl, d[p] + 1, a[p])
      /\ Len(b[p]) \in Nat /\ Len(b[p]) = Len(a[p]) + 1 /\ Len(a[p]) \in Nat
      /\ \E n \in 1 .. Len(fl) :
            /\ Through(c[p], program, fl, n) /\ Rank(c[p], program, fl, n) = d[p] + 1
            /\ Made(c[p], program, fl, x, n)
  <2>1. Carries(c[p], program, fl, d[p], b[p])
    BY <1>1, <1>2 DEF Delivering
  <2>2. /\ Carries(c[p], program, fl, d[p] + 1, Tail(b[p]))
        /\ Len(b[p]) \in Nat /\ Len(b[p]) = Len(Tail(b[p])) + 1 /\ Len(Tail(b[p])) \in Nat
        /\ \E n \in 1 .. Len(fl) :
              /\ Through(c[p], program, fl, n) /\ Rank(c[p], program, fl, n) = d[p] + 1
              /\ Made(c[p], program, fl, Head(b[p]), n)
    BY <1>2, <2>1, CarriesRest
  <2>. QED  BY <1>3, <2>2
<1>5. PICK n \in 1 .. Len(fl) : /\ Through(c[p], program, fl, n) /\ Rank(c[p], program, fl, n) = d[p] + 1
                                /\ Made(c[p], program, fl, x, n)
  BY <1>4
<1>6. PICK out \in Nat : out = d[k] + Len(b[k]) /\ Len(b[k]) \in Nat
  <2>1. Len(b[k]) \in Nat
    BY <1>1, <1>2, CarriesLen DEF Delivering
  <2>2. PICK v, w \in Nat : v = d[k] /\ w = Len(b[k])
    BY <1>2, <2>1
  <2>3. v + w \in Nat /\ v + w = d[k] + Len(b[k])
    BY <2>2
  <2>. QED  BY <2>1, <2>3
<1>7. Served(c[k], c[p], program, fl, d[p], out, result)
  <2>1. Tuned(c[k], c[k - 1], program, fl, d[p], out, m[k])
    BY <1>1, <1>6 DEF Delivering
  <2>2. Served(c[k], c[k - 1], program, fl, d[p], out, Apply(c[k], m[k], x))
    BY <1>2, <1>5, <2>1, KernelServes DEF ChainOf
  <2>. QED  BY <1>3, <2>2
<1>8. /\ Carries(c[k], program, fl, d[k], a[k])
      /\ Tuned(c[k], c[p], program, fl, d[p] + 1, d[k] + Len(a[k]), l[k])
  <2>1. Carries(c[k], program, fl, d[k], b[k])
    BY <1>1, <1>2 DEF Delivering
  <2>2. CASE result.out = <<>> /\ Tuned(c[k], c[p], program, fl, d[p] + 1, out, result.map)
    BY <1>6, <2>1, <2>2
  <2>3. ASSUME NEW y, NEW j \in 1 .. Len(fl), result.out = <<y>>, Made(c[k], program, fl, y, j),
               Through(c[k], program, fl, j), Rank(c[k], program, fl, j) = out + 1,
               Tuned(c[k], c[p], program, fl, d[p] + 1, out + 1, result.map)
        PROVE  /\ Carries(c[k], program, fl, d[k], a[k])
               /\ Tuned(c[k], c[p], program, fl, d[p] + 1, d[k] + Len(a[k]), l[k])
    <3>1. a[k] = Append(b[k], y)
      BY <2>3
    <3>2. Rank(c[k], program, fl, j) = d[k] + Len(b[k]) + 1
      BY <1>6, <2>3
    <3>3. Carries(c[k], program, fl, d[k], a[k]) /\ Len(a[k]) = Len(b[k]) + 1
      BY <1>2, <2>1, <2>3, <3>1, <3>2, CarriesMore
    <3>4. d[k] + Len(a[k]) = out + 1
      BY <1>2, <1>6, <3>3
    <3>. QED  BY <2>3, <3>3, <3>4
  <2>. QED  BY <1>7, <2>2, <2>3, Zenon DEF Served
<1>9. PICK e : e = [d EXCEPT ![p] = d[p] + 1]
  OBVIOUS
<1>10. e \in [1 .. N -> Nat] /\ e[p] = d[p] + 1 /\ \A i \in 1 .. N : i # p => e[i] = d[i]
  BY <1>2, <1>9
<1>11. \A i \in 1 .. N : i # k => e[i] + Len(a[i]) = d[i] + Len(b[i])
  <2>1. ASSUME NEW i \in 1 .. N, i # k PROVE e[i] + Len(a[i]) = d[i] + Len(b[i])
    <3>1. CASE i = p
      <4>1. PICK u \in Nat : u = Len(a[i]) /\ Len(b[i]) = u + 1
        BY <1>4, <3>1
      <4>2. PICK v \in Nat : v = d[i] /\ e[i] = v + 1
        BY <1>2, <1>10, <3>1
      <4>3. e[i] + Len(a[i]) = (v + 1) + u /\ d[i] + Len(b[i]) = v + (u + 1)
        BY <4>1, <4>2, Zenon
      <4>4. (v + 1) + u = v + (u + 1)
        OBVIOUS
      <4>. QED  BY <4>3, <4>4, Zenon
    <3>2. CASE i # p
      BY <1>10, <2>1, <3>2
    <3>. QED  BY <3>1, <3>2
  <2>. QED  BY <2>1
<1>12. \A i \in 1 .. N : Carries(c[i], program, fl, e[i], a[i])
  <2>1. ASSUME NEW i \in 1 .. N PROVE Carries(c[i], program, fl, e[i], a[i])
    <3>1. CASE i = p
      <4>1. a[i] = a[p] /\ e[i] = d[p] + 1 /\ c[i] = c[p]
        BY <1>10, <3>1
      <4>. QED  BY <1>4, <4>1
    <3>2. CASE i = k
      <4>1. e[i] = d[k] /\ a[i] = a[k] /\ c[i] = c[k]
        BY <1>2, <1>10, <3>2
      <4>. QED  BY <1>8, <4>1
    <3>3. CASE i # p /\ i # k
      <4>1. a[i] = b[i] /\ e[i] = d[i]
        BY <1>10, <3>3
      <4>. QED  BY <1>1, <4>1 DEF Delivering
    <3>. QED  BY <3>1, <3>2, <3>3
  <2>. QED  BY <2>1
<1>13. \A i \in 2 .. N : Tuned(c[i], c[i - 1], program, fl, e[i - 1], e[i] + Len(a[i]), l[i])
  <2>1. ASSUME NEW i \in 2 .. N
        PROVE  Tuned(c[i], c[i - 1], program, fl, e[i - 1], e[i] + Len(a[i]), l[i])
    <3>1. CASE i = k
      <4>1. e[i - 1] = d[p] + 1 /\ e[i] = d[k] /\ a[i] = a[k] /\ l[i] = l[k] /\ c[i] = c[k] /\ c[i - 1] = c[p]
        BY <1>2, <1>10, <3>1
      <4>. QED  BY <1>8, <4>1
    <3>2. CASE i # k
      <4>1. i - 1 \in 1 .. N /\ i - 1 # p /\ i \in 1 .. N
        BY <1>2, <3>2
      <4>2. e[i - 1] = d[i - 1] /\ e[i] + Len(a[i]) = d[i] + Len(b[i]) /\ l[i] = m[i]
        BY <1>10, <1>11, <3>2, <4>1
      <4>3. Tuned(c[i], c[i - 1], program, fl, d[i - 1], d[i] + Len(b[i]), m[i])
        BY <1>1 DEF Delivering
      <4>. QED  BY <4>2, <4>3
    <3>. QED  BY <3>1, <3>2
  <2>. QED  BY <2>1
<1>14. r = e[1] + Len(a[1])
  <2>1. r = d[1] + Len(b[1])
    BY <1>1 DEF Delivering
  <2>2. 1 # k
    OBVIOUS
  <2>3. e[1] + Len(a[1]) = d[1] + Len(b[1])
    BY <1>2, <1>11, <2>2
  <2>. QED  BY <2>1, <2>3
<1>15. e[N] = Len(t) /\ Carries(c[N], program, fl, 0, t)
  BY <1>1, <1>2, <1>10 DEF Delivering
<1>16. Delivering(program, fl, c, N, e, a, l, r, t)
  BY <1>10, <1>12, <1>13, <1>14, <1>15 DEF Delivering
<1>17. result.out = <<>> \/ \E y : result.out = <<y>>
  BY <1>7, Zenon DEF Served
<1>. QED
  BY <1>16, <1>17 DEF Delivers

\* What was taken is the results, and at the end all of them.
LEMMA DeliverResults ==
    ASSUME NEW program, NEW fl, IsFile(fl), NEW c, NEW N, ChainOf(program, c, N), NEW b, NEW m,
           NEW r, NEW t, Delivers(program, fl, c, N, b, m, r, t)
    PROVE  /\ \A j \in DOMAIN t : \E n \in DOMAIN fl :
                 /\ Passes(program, fl, n) /\ Passing(program, fl, n) = j
                 /\ IsResult(program, fl, t[j], n)
           /\ (r = Len(fl) /\ \A i \in 1 .. N : b[i] = <<>>) =>
                 Len(t) = Passing(program, fl, Len(fl))
<1>1. PICK d : Delivering(program, fl, c, N, d, b, m, r, t)
  BY DEF Delivers
<1>2. PICK k : k = c[N] /\ k = c[Len(c) - 1]
  BY DEF ChainOf
<1>3. \A n : Through(k, program, fl, n) <=> Passes(program, fl, n)
  BY <1>2, LastMakes DEF ChainOf
<1>4. \A n : \A x : Made(k, program, fl, x, n) => IsResult(program, fl, x, n)
  BY <1>2, LastMakes DEF ChainOf
<1>5. \A n : Rank(k, program, fl, n) = Passing(program, fl, n)
  BY <1>3 DEF Rank, Passing
<1>6. ASSUME NEW j \in DOMAIN t
      PROVE  \E n \in DOMAIN fl :
                 /\ Passes(program, fl, n) /\ Passing(program, fl, n) = j
                 /\ IsResult(program, fl, t[j], n)
  <2>1. Carries(k, program, fl, 0, t)
    BY <1>1, <1>2 DEF Delivering
  <2>2. PICK L \in Nat : L = Len(t) /\ DOMAIN t = 1 .. L
    <3>1. PICK S : t \in Seq(S)
      BY <2>1 DEF Carries, Plain
    <3>. QED  BY <3>1, LenProperties
  <2>3. PICK n \in 1 .. Len(fl) : /\ Through(k, program, fl, n) /\ Rank(k, program, fl, n) = 0 + j
                                  /\ Made(k, program, fl, t[j], n)
    BY <2>1, <2>2 DEF Carries
  <2>4. Rank(k, program, fl, n) = j
    <3>1. 0 + j = j
      BY <2>2
    <3>. QED  BY <2>3, <3>1
  <2>5. n \in DOMAIN fl
    BY FileType
  <2>. QED  BY <1>3, <1>4, <1>5, <2>3, <2>4, <2>5
<1>7. ASSUME r = Len(fl), \A i \in 1 .. N : b[i] = <<>>
      PROVE  Len(t) = Passing(program, fl, Len(fl))
  <2>1. PICK L \in Nat : L = Len(fl) /\ L \in 0 .. L
    BY FileType
  <2>2. N \in 1 .. 3 /\ 1 \in 1 .. N /\ c[1] = "clfr_file_reader" /\ d \in [1 .. N -> Nat]
    <3>1. N \in 1 .. 3 /\ 1 \in 1 .. N
      BY DEF ChainOf
    <3>. QED  BY <1>1, <3>1, ChainSteps DEF ChainOf, Delivering
  <2>3. PICK e : e = <<>> /\ Len(e) = 0
    BY PlainEmpty
  <2>4. \A i \in 1 .. N : d[i] \in Nat /\ d[i] + Len(b[i]) = d[i]
    <3>1. ASSUME NEW i \in 1 .. N PROVE d[i] \in Nat /\ d[i] + Len(b[i]) = d[i]
      <4>1. PICK v \in Nat : v = d[i]
        BY <2>2
      <4>2. Len(b[i]) = 0
        BY <1>7, <2>3
      <4>. QED  BY <4>1, <4>2
    <3>. QED  BY <3>1
  <2>5. Rank(c[1], program, fl, L) = d[1]
    <3>1. d[1] = L
      BY <1>1, <1>7, <2>1, <2>2, <2>4 DEF Delivering
    <3>. QED  BY <2>1, <2>2, <3>1, RankOfReader
  <2>6. ASSUME NEW i \in 2 .. N, Rank(c[i - 1], program, fl, L) = d[i - 1]
        PROVE  Rank(c[i], program, fl, L) = d[i]
    <3>1. Tuned(c[i], c[i - 1], program, fl, d[i - 1], d[i] + Len(b[i]), m[i])
      BY <1>1 DEF Delivering
    <3>2. Rank(c[i], program, fl, L) = d[i] + Len(b[i])
      BY <2>1, <2>6, <3>1 DEF Tuned
    <3>3. i \in 1 .. N
      OBVIOUS
    <3>. QED  BY <2>4, <3>2, <3>3
  <2>7. Rank(c[N], program, fl, L) = d[N]
    <3>1. CASE N = 1
      BY <2>5, <3>1
    <3>2. N # 1 => Rank(c[2], program, fl, L) = d[2]
      <4>1. ASSUME N # 1 PROVE 2 \in 2 .. N /\ 2 - 1 = 1
        BY <2>2, <4>1
      <4>. QED  BY <2>5, <2>6, <4>1
    <3>3. N = 3 => Rank(c[3], program, fl, L) = d[3]
      <4>1. ASSUME N = 3 PROVE 3 \in 2 .. N /\ 3 - 1 = 2
        BY <2>2, <4>1
      <4>. QED  BY <2>6, <3>2, <4>1
    <3>. QED  BY <2>2, <3>1, <3>2, <3>3
  <2>8. d[N] = Len(t)
    BY <1>1 DEF Delivering
  <2>. QED  BY <1>2, <1>5, <2>1, <2>7, <2>8
<1>. QED
  BY <1>6, <1>7

-----------------------------------------------------------------------------
(***************************************************************************)
(* The results                                                             *)
(***************************************************************************)
\* A stream with what is pushed behind it.
LEMMA PlainJoin ==
    ASSUME NEW s, Plain(s)
    PROVE  /\ s \o <<>> = s /\ \A y : s \o <<y>> = Append(s, y)
           /\ \A u : Plain(u) /\ s # <<>> =>
                /\ s \o u # <<>> /\ Head(s \o u) = Head(s) /\ Tail(s \o u) = Tail(s) \o u
<1>1. PICK S : s \in Seq(S)
  BY DEF Plain
<1>2. s \o <<>> = s
  BY <1>1, ConcatEmptySeq
<1>3. ASSUME NEW y PROVE s \o <<y>> = Append(s, y)
  <2>1. s \in Seq(S \cup {y}) /\ y \in S \cup {y}
    <3>1. Len(s) \in Nat /\ s \in [1 .. Len(s) -> S]
      BY <1>1, LenProperties, ElementOfSeq
    <3>2. s \in [1 .. Len(s) -> S \cup {y}]
      BY <3>1
    <3>. QED  BY <3>1, <3>2, IsASeq
  <2>. QED  BY <2>1, AppendIsConcat
<1>4. ASSUME NEW u, Plain(u), s # <<>>
      PROVE  s \o u # <<>> /\ Head(s \o u) = Head(s) /\ Tail(s \o u) = Tail(s) \o u
  <2>1. PICK U : u \in Seq(U)
    BY <1>4 DEF Plain
  <2>2. PICK V : V = S \cup U
    OBVIOUS
  <2>3. s \in Seq(V) /\ u \in Seq(V)
    <3>1. Len(s) \in Nat /\ s \in [1 .. Len(s) -> S] /\ Len(u) \in Nat /\ u \in [1 .. Len(u) -> U]
      BY <1>1, <2>1, LenProperties, ElementOfSeq
    <3>2. s \in [1 .. Len(s) -> V] /\ u \in [1 .. Len(u) -> V]
      BY <2>2, <3>1
    <3>. QED  BY <3>1, <3>2, IsASeq
  <2>4. PICK w : w = s \o u
    OBVIOUS
  <2>5. PICK a, b \in Nat : a + 1 = Len(s) /\ b = Len(u)
    <3>1. Len(s) \in Nat \ {0} /\ Len(u) \in Nat
      BY <1>4, <2>3, LenProperties, EmptySeq
    <3>2. Len(s) - 1 \in Nat /\ (Len(s) - 1) + 1 = Len(s)
      BY <3>1
    <3>. QED  BY <3>1, <3>2
  <2>6. /\ w \in Seq(V) /\ Len(w) = (a + 1) + b /\ w # <<>>
        /\ \A i \in 1 .. (a + 1) + b : w[i] = IF i <= a + 1 THEN s[i] ELSE u[i - (a + 1)]
    <3>1. /\ w \in Seq(V) /\ Len(w) = Len(s) + Len(u)
          /\ \A i \in 1 .. Len(s) + Len(u) : w[i] = IF i <= Len(s) THEN s[i] ELSE u[i - Len(s)]
      BY <2>3, <2>4, ConcatProperties
    <3>2. Len(w) = (a + 1) + b
      BY <2>5, <3>1
    <3>3. w # <<>>
      BY <3>2, EmptySeq
    <3>. QED  BY <2>5, <3>1, <3>2, <3>3
  <2>8. Head(w) = Head(s)
    <3>1. w[1] = s[1]
      BY <2>6
    <3>. QED  BY <1>4, <2>3, <2>6, <3>1
  <2>10. PICK p : p = Tail(s)
    OBVIOUS
  <2>11. p \in Seq(V) /\ Len(p) = a /\ \A i \in 1 .. a : p[i] = s[i + 1]
    <3>1. Tail(s) \in Seq(V) /\ Len(Tail(s)) = Len(s) - 1 /\ \A i \in 1 .. Len(Tail(s)) : Tail(s)[i] = s[i + 1]
      BY <1>4, <2>3, HeadTailProperties
    <3>. QED  BY <2>5, <2>10, <3>1
  <2>12. PICK q : q = p \o u
    OBVIOUS
  <2>13. /\ q \in Seq(V) /\ Len(q) = a + b
         /\ \A i \in 1 .. a + b : q[i] = IF i <= a THEN p[i] ELSE u[i - a]
    <3>1. /\ p \o u \in Seq(V) /\ Len(p \o u) = Len(p) + Len(u)
          /\ \A i \in 1 .. Len(p) + Len(u) : (p \o u)[i] = IF i <= Len(p) THEN p[i] ELSE u[i - Len(p)]
      BY <2>3, <2>11, ConcatProperties
    <3>2. Len(p) = a /\ Len(u) = b
      BY <2>5, <2>11
    <3>. QED  BY <2>12, <3>1, <3>2
  <2>14. PICK r : r = Tail(w)
    OBVIOUS
  <2>15. r \in Seq(V) /\ Len(r) = a + b /\ \A i \in 1 .. a + b : r[i] = w[i + 1]
    <3>1. Tail(w) \in Seq(V) /\ Len(Tail(w)) = Len(w) - 1 /\ \A i \in 1 .. Len(Tail(w)) : Tail(w)[i] = w[i + 1]
      BY <2>6, HeadTailProperties
    <3>2. Len(w) - 1 = a + b
      BY <2>6
    <3>. QED  BY <2>14, <3>1, <3>2
  <2>16. ASSUME NEW i \in 1 .. a + b PROVE r[i] = q[i]
    <3>1. PICK j \in 1 .. (a + 1) + b : j = i + 1
      OBVIOUS
    <3>2. r[i] = IF j <= a + 1 THEN s[j] ELSE u[j - (a + 1)]
      BY <2>6, <2>15, <3>1
    <3>3. CASE i <= a
      <4>1. j <= a + 1 /\ i \in 1 .. a
        BY <3>1, <3>3
      <4>2. q[i] = s[i + 1]
        BY <2>11, <2>13, <3>3, <4>1
      <4>. QED  BY <3>1, <3>2, <4>1, <4>2
    <3>4. CASE ~(i <= a)
      <4>1. ~(j <= a + 1) /\ j - (a + 1) = i - a
        BY <3>1, <3>4
      <4>2. q[i] = u[i - a]
        BY <2>13, <3>4
      <4>. QED  BY <3>2, <4>1, <4>2
    <3>. QED  BY <3>3, <3>4
  <2>9. Tail(w) = Tail(s) \o u
    <3>1. \A i \in 1 .. Len(r) : r[i] = q[i]
      BY <2>15, <2>16
    <3>2. Len(r) = Len(q)
      BY <2>13, <2>15
    <3>3. r = q
      BY <2>13, <2>15, <3>1, <3>2, SeqEqual
    <3>. QED  BY <2>10, <2>12, <2>14, <3>3
  <2>. QED  BY <2>4, <2>6, <2>8, <2>9
<1>. QED
  BY <1>2, <1>3, <1>4

\* What N streams q and the run()s h between them hold, with the maps m, when r
\* records are read and t is what the last kernel has got.
Following(program, fl, N, q, h, m, r, t) ==
    /\ IsFile(fl)
    /\ \A i \in 1 .. N : Plain(q[i]) /\ Plain(h[i])
    /\ Delivers(program, fl, Chain(program), N, [i \in 1 .. N |-> q[i] \o h[i]], m, r, t)

ResultsInv ==
    conf.batch = 0 =>
        /\ DOMAIN maps = Kernels
        /\ Following(conf.program, file, Sink - 1, queue, held, maps, rd, taken)

\* The steps of the threads, in terms of the objects on their way.
LEMMA FollowingBegins ==
    ASSUME NEW program, NEW fl, IsFile(fl), NEW N, ChainOf(program, Chain(program), N), NEW q, NEW h, NEW m,
           \A i \in 1 .. N : q[i] = <<>> /\ h[i] = <<>>, \A i \in 2 .. N : m[i] = NoEntries
    PROVE  Following(program, fl, N, q, h, m, 0, <<>>)
<1>1. PICK b : b = [i \in 1 .. N |-> q[i] \o h[i]]
  OBVIOUS
<1>2. <<>> \o <<>> = <<>>
  BY PlainJoin, PlainEmpty
<1>3. \A i \in 1 .. N : b[i] = <<>>
  BY <1>1, <1>2
<1>4. Delivers(program, fl, Chain(program), N, b, m, 0, <<>>)
  BY <1>3, DeliverNone
<1>. QED
  BY <1>1, <1>4, PlainEmpty DEF Following

\* A push of kernel k.
Pushes(N, k, q, h, q2, h2) ==
    /\ \A i \in 1 .. N : q2[i] = IF i = k THEN q[k] \o h[k] ELSE q[i]
    /\ \A i \in 1 .. N : h2[i] = IF i = k THEN <<>> ELSE h[i]

LEMMA FollowingPush ==
    ASSUME NEW program, NEW fl, NEW N, NEW q, NEW h, NEW m, NEW r, NEW t,
           Following(program, fl, N, q, h, m, r, t), NEW k, NEW q2, NEW h2,
           Pushes(N, k, q, h, q2, h2)
    PROVE  Following(program, fl, N, q2, h2, m, r, t)
<1>1. ASSUME NEW i \in 1 .. N
      PROVE  Plain(q2[i]) /\ Plain(h2[i]) /\ q2[i] \o h2[i] = q[i] \o h[i]
  <2>1. Plain(q[i]) /\ Plain(h[i])
    BY DEF Following
  <2>2. CASE i = k
    <3>1. PICK u : u = q[i] \o h[i] /\ Plain(u)
      BY <2>1, PlainConcat
    <3>2. q2[i] = u /\ h2[i] = <<>>
      BY <2>2, <3>1 DEF Pushes
    <3>3. u \o <<>> = u
      BY <3>1, PlainJoin
    <3>. QED  BY <3>1, <3>2, <3>3, PlainEmpty
  <2>3. CASE i # k
    BY <2>1, <2>3 DEF Pushes
  <2>. QED  BY <2>2, <2>3
<1>2. [i \in 1 .. N |-> q2[i] \o h2[i]] = [i \in 1 .. N |-> q[i] \o h[i]]
  BY <1>1
<1>. QED
  BY <1>1, <1>2 DEF Following

LEMMA FollowingRead ==
    ASSUME NEW program, NEW fl, NEW N, ChainOf(program, Chain(program), N), NEW q, NEW h, NEW m,
           NEW r \in Nat, r < Len(fl), NEW t,
           Following(program, fl, N, q, h, m, r, t), h[1] = <<>>,
           NEW h2, \A i \in 1 .. N : h2[i] = IF i = 1 THEN <<fl[r + 1]>> ELSE h[i]
    PROVE  Following(program, fl, N, q, h2, m, r + 1, t)
<1>1. PICK b : b = [i \in 1 .. N |-> q[i] \o h[i]]
  OBVIOUS
<1>2. PICK a : a = [i \in 1 .. N |-> q[i] \o h2[i]]
  OBVIOUS
<1>3. 1 \in 1 .. N
  BY DEF ChainOf
<1>4. PICK x : x = fl[r + 1]
  OBVIOUS
<1>5. b[1] = q[1] /\ a[1] = Append(q[1], x)
  <2>1. Plain(q[1])
    BY <1>3 DEF Following
  <2>2. q[1] \o <<>> = q[1] /\ q[1] \o <<x>> = Append(q[1], x)
    BY <2>1, PlainJoin
  <2>3. b[1] = q[1] \o <<>> /\ a[1] = q[1] \o <<x>>
    BY <1>1, <1>2, <1>3, <1>4
  <2>. QED  BY <2>2, <2>3
<1>6. \A i \in 1 .. N : a[i] = IF i = 1 THEN Append(b[1], x) ELSE b[i]
  BY <1>1, <1>2, <1>5
<1>7. Delivers(program, fl, Chain(program), N, a, m, r + 1, t)
  <2>1. IsFile(fl) /\ Delivers(program, fl, Chain(program), N, b, m, r, t)
    BY <1>1 DEF Following
  <2>2. \A i \in 1 .. N : a[i] = IF i = 1 THEN Append(b[1], fl[r + 1]) ELSE b[i]
    BY <1>4, <1>6
  <2>. QED  BY <2>1, <2>2, DeliverRead
<1>8. \A i \in 1 .. N : Plain(q[i]) /\ Plain(h2[i])
  <2>1. ASSUME NEW i \in 1 .. N PROVE Plain(q[i]) /\ Plain(h2[i])
    <3>1. Plain(q[i]) /\ Plain(h[i])
      BY DEF Following
    <3>2. Plain(<<x>>)
      BY PlainOne
    <3>. QED  BY <1>4, <3>1, <3>2
  <2>. QED  BY <2>1
<1>. QED
  BY <1>2, <1>7, <1>8 DEF Following

LEMMA FollowingTake ==
    ASSUME NEW program, NEW fl, NEW N, ChainOf(program, Chain(program), N), NEW q, NEW h, NEW m,
           NEW r, NEW t, Following(program, fl, N, q, h, m, r, t), q[N] # <<>>,
           NEW q2, \A i \in 1 .. N : q2[i] = IF i = N THEN Tail(q[N]) ELSE q[i]
    PROVE  Following(program, fl, N, q2, h, m, r, Append(t, Head(q[N])))
<1>1. PICK b : b = [i \in 1 .. N |-> q[i] \o h[i]]
  OBVIOUS
<1>2. PICK a : a = [i \in 1 .. N |-> q2[i] \o h[i]]
  OBVIOUS
<1>3. N \in 1 .. N
  BY DEF ChainOf
<1>4. Plain(q[N]) /\ Plain(h[N])
  BY <1>3 DEF Following
<1>5. b[N] # <<>> /\ Head(b[N]) = Head(q[N]) /\ a[N] = Tail(b[N])
  <2>1. /\ q[N] \o h[N] # <<>> /\ Head(q[N] \o h[N]) = Head(q[N])
        /\ Tail(q[N] \o h[N]) = Tail(q[N]) \o h[N]
    BY <1>4, PlainJoin
  <2>2. b[N] = q[N] \o h[N] /\ a[N] = Tail(q[N]) \o h[N]
    BY <1>1, <1>2, <1>3
  <2>. QED  BY <2>1, <2>2
<1>6. \A i \in 1 .. N : a[i] = IF i = N THEN Tail(b[N]) ELSE b[i]
  BY <1>1, <1>2, <1>5
<1>7. Delivers(program, fl, Chain(program), N, a, m, r, Append(t, Head(q[N])))
  <2>1. IsFile(fl) /\ Delivers(program, fl, Chain(program), N, b, m, r, t)
    BY <1>1 DEF Following
  <2>2. Delivers(program, fl, Chain(program), N, a, m, r, Append(t, Head(b[N])))
    BY <1>5, <1>6, <2>1, DeliverTake
  <2>. QED  BY <1>5, <2>2
<1>8. \A i \in 1 .. N : Plain(q2[i]) /\ Plain(h[i])
  <2>1. ASSUME NEW i \in 1 .. N PROVE Plain(q2[i]) /\ Plain(h[i])
    <3>1. Plain(q[i]) /\ Plain(h[i])
      BY DEF Following
    <3>2. Plain(Tail(q[N]))
      BY <1>4, PlainTail
    <3>. QED  BY <3>1, <3>2
  <2>. QED  BY <2>1
<1>. QED
  BY <1>2, <1>7, <1>8 DEF Following

\* A run() of kernel k.
KernelMoves(c, N, k, p, q, h, m, result, q2, h2, l) ==
    /\ k \in 2 .. N /\ p = k - 1 /\ h[k] = <<>> /\ q[p] # <<>>
    /\ result = Apply(c[k], m[k], Head(q[p]))
    /\ \A i \in 1 .. N : q2[i] = IF i = p THEN Tail(q[p]) ELSE q[i]
    /\ \A i \in 1 .. N : h2[i] = IF i = k THEN result.out ELSE h[i]
    /\ \A i \in 2 .. N : l[i] = IF i = k THEN result.map ELSE m[i]

LEMMA FollowingRun ==
    ASSUME NEW program, NEW fl, NEW N, NEW c, ChainOf(program, c, N), NEW q, NEW h, NEW m,
           NEW r, NEW t, Following(program, fl, N, q, h, m, r, t), NEW k, NEW p, NEW result,
           NEW q2, NEW h2, NEW l, KernelMoves(c, N, k, p, q, h, m, result, q2, h2, l)
    PROVE  Following(program, fl, N, q2, h2, l, r, t)
<1>1. PICK b : b = [i \in 1 .. N |-> q[i] \o h[i]]
  OBVIOUS
<1>2. PICK a : a = [i \in 1 .. N |-> q2[i] \o h2[i]]
  OBVIOUS
<1>3. k \in 1 .. N /\ p \in 1 .. N /\ p # k /\ k # p
  BY DEF ChainOf, KernelMoves
<1>4. Plain(q[p]) /\ Plain(h[p]) /\ Plain(q[k])
  BY <1>3 DEF Following
<1>5. b[p] # <<>> /\ Head(b[p]) = Head(q[p]) /\ a[p] = Tail(b[p])
  <2>4. PICK u, v : u = q[p] /\ v = h[p] /\ Plain(u) /\ Plain(v) /\ u # <<>>
    BY <1>4 DEF KernelMoves
  <2>6. Plain(u) /\ Plain(v) /\ u # <<>>
    BY <2>4
  <2>5. u \o v # <<>> /\ Head(u \o v) = Head(u) /\ Tail(u \o v) = Tail(u) \o v
    BY <2>6, PlainJoin
  <2>1. /\ q[p] \o h[p] # <<>> /\ Head(q[p] \o h[p]) = Head(q[p])
        /\ Tail(q[p] \o h[p]) = Tail(q[p]) \o h[p]
    BY <2>4, <2>5, Zenon
  <2>2. q2[p] = Tail(q[p]) /\ h2[p] = h[p]
    BY <1>3 DEF KernelMoves
  <2>3. b[p] = q[p] \o h[p] /\ a[p] = Tail(q[p]) \o h[p]
    BY <1>1, <1>2, <1>3, <2>2
  <2>. QED  BY <2>1, <2>3
<1>6. /\ result.out = <<>> => a[k] = b[k]
      /\ \A y : result.out = <<y>> => a[k] = Append(b[k], y)
  <2>1. PICK u : u = q[k] /\ Plain(u)
    BY <1>4
  <2>2. u \o <<>> = u /\ \A y : u \o <<y>> = Append(u, y)
    BY <2>1, PlainJoin
  <2>3. q2[k] = u /\ h2[k] = result.out /\ h[k] = <<>>
    BY <1>3, <2>1 DEF KernelMoves
  <2>4. b[k] = u \o <<>> /\ a[k] = u \o result.out
    BY <1>1, <1>2, <1>3, <2>1, <2>3
  <2>. QED  BY <2>2, <2>4, Zenon
<1>7. \A i \in 1 .. N : i # p /\ i # k => a[i] = b[i]
  BY <1>1, <1>2 DEF KernelMoves
<1>8. l[k] = result.map /\ \A i \in 2 .. N : i # k => l[i] = m[i]
  BY DEF KernelMoves
<1>9. IsFile(fl) /\ Delivers(program, fl, c, N, b, m, r, t)
  BY <1>1 DEF Following, ChainOf
<1>10. result = Apply(c[k], m[k], Head(b[p])) /\ k \in 2 .. N /\ p = k - 1
  BY <1>5 DEF KernelMoves
<1>11. /\ Delivers(program, fl, c, N, a, l, r, t)
       /\ result.out = <<>> \/ \E y : result.out = <<y>>
  <2>1. Runs(c, N, k, p, b, m, result, a, l)
    BY <1>5, <1>6, <1>7, <1>8, <1>10 DEF Runs
  <2>2. IsFile(fl) /\ ChainOf(program, c, N) /\ Delivers(program, fl, c, N, b, m, r, t)
    BY <1>9
  <2>. HIDE DEF Runs, Packet
  <2>3. Delivers(program, fl, c, N, a, l, r, t)
    BY <2>1, <2>2, DeliverRun
  <2>4. result.out = <<>> \/ \E y : result.out = <<y>>
    BY <2>1, <2>2, DeliverRun
  <2>. QED  BY <2>3, <2>4
<1>12. \A i \in 1 .. N : Plain(q2[i]) /\ Plain(h2[i])
  <2>1. ASSUME NEW i \in 1 .. N PROVE Plain(q2[i]) /\ Plain(h2[i])
    <3>1. Plain(q[i]) /\ Plain(h[i])
      BY DEF Following
    <3>2. Plain(Tail(q[p]))
      <4>1. PICK u : u = q[p]
        OBVIOUS
      <4>2. Plain(u) /\ u # <<>>
        BY <1>4, <4>1 DEF KernelMoves
      <4>3. Plain(Tail(u))
        BY <4>2, PlainTail
      <4>. QED  BY <4>1, <4>3
    <3>3. Plain(result.out)
      BY <1>11, PlainEmpty, PlainOne
    <3>. QED  BY <3>1, <3>2, <3>3 DEF KernelMoves
  <2>. QED  BY <2>1
<1>. QED
  BY <1>2, <1>9, <1>11, <1>12 DEF Following, ChainOf

\* The chain of a configuration.
LEMMA PipelineChain ==
    ASSUME conf \in Confs, NEW n, n = Sink - 1
    PROVE  /\ ChainOf(conf.program, Chain(conf.program), n)
           /\ n \in 1 .. 3 /\ Sink = n + 1 /\ Kernels = 1 .. n + 1
<1>1. Kernels = 1 .. Sink /\ Sink \in 2 .. 4
  BY ChainLength
<1>2. conf.program \in ThePrograms
  <2>1. conf.program \in Programs
    BY DEF Confs
  <2>. QED  BY <2>1, PipelineAssumption DEF ThePrograms
<1>3. n \in 1 .. 3 /\ Sink = n + 1
  BY <1>1
<1>4. Len(Chain(conf.program)) = n + 1
  BY <1>3 DEF Sink
<1>. QED
  BY <1>1, <1>2, <1>3, <1>4 DEF ChainOf

\* What a step has to do with the streams for ResultsInv to go on, and what the
\* invariants say of them, in a program that reads record by record.
LEMMA ResultsGoOn ==
    ASSUME BenchInv, ResultsInv, conf' = conf, file' = file, DOMAIN maps' = DOMAIN maps,
           ASSUME NEW n, conf.batch = 0, n = Sink - 1, n \in 1 .. 3, Kernels = 1 .. n + 1, Sink = n + 1,
                  ChainOf(conf.program, Chain(conf.program), n),
                  DOMAIN queue = Kernels, DOMAIN held = Kernels, DOMAIN maps = Kernels,
                  Following(conf.program, file, n, queue, held, maps, rd, taken)
           PROVE  Following(conf.program, file, n, queue', held', maps', rd', taken')
    PROVE  ResultsInv'
<1>. SUFFICES ASSUME conf.batch = 0
              PROVE  /\ DOMAIN maps' = Kernels'
                     /\ Following(conf.program, file, Sink' - 1, queue', held', maps', rd', taken')
  BY DEF ResultsInv
<1>1. conf \in Confs /\ DOMAIN queue = Kernels /\ DOMAIN held = Kernels
  BY DEF BenchInv, PipelineTypes
<1>2. Kernels' = Kernels /\ Sink' = Sink
  BY DEF Kernels, Sink
<1>3. PICK n : n = Sink - 1
  OBVIOUS
<1>4. /\ n \in 1 .. 3 /\ Kernels = 1 .. n + 1 /\ Sink = n + 1
      /\ ChainOf(conf.program, Chain(conf.program), n)
  BY <1>1, <1>3, PipelineChain
<1>5. DOMAIN maps = Kernels /\ Following(conf.program, file, n, queue, held, maps, rd, taken)
  BY <1>3 DEF ResultsInv
<1>6. Following(conf.program, file, n, queue', held', maps', rd', taken')
  BY <1>1, <1>3, <1>4, <1>5
<1>. QED
  BY <1>2, <1>3, <1>5, <1>6

\* At the beginning.
LEMMA InitResults == PipelineInit => ResultsInv
<1>. SUFFICES ASSUME PipelineInit, conf.batch = 0
              PROVE  /\ DOMAIN maps = Kernels
                     /\ Following(conf.program, file, Sink - 1, queue, held, maps, rd, taken)
  BY DEF ResultsInv
<1>1. /\ conf \in Confs /\ rd = 0 /\ taken = <<>>
      /\ queue = [i \in Kernels |-> <<>>] /\ held = [i \in Kernels |-> <<>>]
      /\ maps = [i \in Kernels |-> NoEntries]
      /\ \E m \in 1 .. MaxFile : file \in [1 .. m -> Records]
  BY DEF PipelineInit
<1>2. PICK n : n = Sink - 1
  OBVIOUS
<1>3. n \in 1 .. 3 /\ Kernels = 1 .. n + 1 /\ ChainOf(conf.program, Chain(conf.program), n)
  BY <1>1, <1>2, PipelineChain
<1>4. /\ \A i \in 1 .. n : queue[i] = <<>> /\ held[i] = <<>>
      /\ \A i \in 2 .. n : maps[i] = NoEntries
  BY <1>1, <1>3
<1>5. IsFile(file)
  BY <1>1, PipelineAssumption DEF IsFile
<1>6. Following(conf.program, file, n, queue, held, maps, 0, <<>>)
  BY <1>3, <1>4, <1>5, FollowingBegins
<1>. QED
  BY <1>1, <1>2, <1>6

\* The steps.
LEMMA ReaderRunResults ==
    ASSUME BenchInv, ResultsInv, ReaderRun
    PROVE  ResultsInv'
<1>1. /\ held[1] = <<>> /\ rd < Len(file)
      /\ UNCHANGED <<conf, file, queue, maps, taken>>
      /\ conf.batch = 0 => held' = [held EXCEPT ![1] = <<file[rd + 1]>>] /\ rd' = rd + 1
  BY DEF ReaderRun
<1>2. rd \in Nat
  BY DEF BenchInv, PipelineTypes
<1>3. ASSUME NEW n, conf.batch = 0, n \in 1 .. 3, Kernels = 1 .. n + 1,
             ChainOf(conf.program, Chain(conf.program), n), DOMAIN held = Kernels,
             Following(conf.program, file, n, queue, held, maps, rd, taken)
      PROVE  Following(conf.program, file, n, queue', held', maps', rd', taken')
  <2>1. PICK h : h = held'
    OBVIOUS
  <2>2. \A i \in 1 .. n : h[i] = IF i = 1 THEN <<file[rd + 1]>> ELSE held[i]
    BY <1>1, <1>3, <2>1
  <2>3. Following(conf.program, file, n, queue, h, maps, rd + 1, taken)
    BY <1>1, <1>2, <1>3, <2>2, FollowingRead
  <2>. QED  BY <1>1, <1>3, <2>1, <2>3
<1>. QED
  BY <1>1, <1>3, ResultsGoOn

LEMMA PushResults ==
    ASSUME BenchInv, ResultsInv, NEW k, Push(k)
    PROVE  ResultsInv'
<1>1. /\ queue' = [queue EXCEPT ![k] = queue[k] \o held[k]]
      /\ held' = [held EXCEPT ![k] = <<>>]
      /\ UNCHANGED <<conf, file, rd, maps, taken>>
  BY DEF Push
<1>2. ASSUME NEW n, n \in 1 .. 3, Kernels = 1 .. n + 1, DOMAIN queue = Kernels, DOMAIN held = Kernels,
             Following(conf.program, file, n, queue, held, maps, rd, taken)
      PROVE  Following(conf.program, file, n, queue', held', maps', rd', taken')
  <2>1. PICK q, h : q = queue' /\ h = held'
    OBVIOUS
  <2>2. /\ \A i \in 1 .. n : q[i] = IF i = k THEN queue[k] \o held[k] ELSE queue[i]
        /\ \A i \in 1 .. n : h[i] = IF i = k THEN <<>> ELSE held[i]
    BY <1>1, <1>2, <2>1
  <2>3. Pushes(n, k, queue, held, q, h)
    BY <2>2 DEF Pushes
  <2>4. Following(conf.program, file, n, q, h, maps, rd, taken)
    BY <1>2, <2>3, FollowingPush
  <2>. QED  BY <1>1, <2>1, <2>4
<1>. QED
  BY <1>1, <1>2, ResultsGoOn

LEMMA KernelRunResults ==
    ASSUME BenchInv, ResultsInv, NEW k \in Kernels, k > 1, k < Sink, KernelRun(k)
    PROVE  ResultsInv'
<1>1. PICK result : result = Apply(Chain(conf.program)[k], maps[k], Head(queue[k - 1]))
  OBVIOUS
<1>2. /\ held[k] = <<>> /\ queue[k - 1] # <<>>
      /\ maps' = [maps EXCEPT ![k] = result.map]
      /\ held' = [held EXCEPT ![k] = result.out]
      /\ queue' = [queue EXCEPT ![k - 1] = Tail(queue[k - 1])]
      /\ UNCHANGED <<conf, file, rd, taken>>
  BY <1>1 DEF KernelRun, Input, Popped
<1>3. ASSUME NEW n, n \in 1 .. 3, Kernels = 1 .. n + 1, Sink = n + 1,
             ChainOf(conf.program, Chain(conf.program), n),
             DOMAIN queue = Kernels, DOMAIN held = Kernels, DOMAIN maps = Kernels,
             Following(conf.program, file, n, queue, held, maps, rd, taken)
      PROVE  Following(conf.program, file, n, queue', held', maps', rd', taken')
  <2>1. PICK q, h, m : q = queue' /\ h = held' /\ m = maps'
    OBVIOUS
  <2>2. PICK p : p = k - 1
    OBVIOUS
  <2>3. k \in 2 .. n /\ p \in 1 .. n
    BY <1>3, <2>2
  <2>4. /\ \A i \in 1 .. n : q[i] = IF i = p THEN Tail(queue[p]) ELSE queue[i]
        /\ \A i \in 1 .. n : h[i] = IF i = k THEN result.out ELSE held[i]
        /\ \A i \in 2 .. n : m[i] = IF i = k THEN result.map ELSE maps[i]
    BY <1>2, <1>3, <2>1, <2>2, <2>3
  <2>5. PICK c : c = Chain(conf.program)
    OBVIOUS
  <2>6. KernelMoves(c, n, k, p, queue, held, maps, result, q, h, m)
    BY <1>1, <1>2, <2>2, <2>3, <2>4, <2>5 DEF KernelMoves
  <2>7. Following(conf.program, file, n, q, h, m, rd, taken)
    BY <1>3, <2>5, <2>6, FollowingRun
  <2>. QED  BY <1>2, <2>1, <2>7
<1>. QED
  BY <1>2, <1>3, ResultsGoOn

LEMMA SinkPopsResults ==
    ASSUME BenchInv, ResultsInv, SinkPops
    PROVE  ResultsInv'
<1>1. /\ queue[Sink - 1] # <<>>
      /\ queue' = [queue EXCEPT ![Sink - 1] = Tail(queue[Sink - 1])]
      /\ taken' = Append(taken, Head(queue[Sink - 1]))
      /\ UNCHANGED <<conf, file, rd, held, maps>>
  BY DEF SinkPops, Input
<1>2. ASSUME NEW n, n = Sink - 1, n \in 1 .. 3, Kernels = 1 .. n + 1,
             ChainOf(conf.program, Chain(conf.program), n), DOMAIN queue = Kernels,
             Following(conf.program, file, n, queue, held, maps, rd, taken)
      PROVE  Following(conf.program, file, n, queue', held', maps', rd', taken')
  <2>1. PICK q, t : q = queue' /\ t = taken'
    OBVIOUS
  <2>2. /\ queue[n] # <<>> /\ t = Append(taken, Head(queue[n]))
        /\ q = [queue EXCEPT ![n] = Tail(queue[n])]
    BY <1>1, <1>2, <2>1
  <2>3. \A i \in 1 .. n : q[i] = IF i = n THEN Tail(queue[n]) ELSE queue[i]
    BY <1>2, <2>2
  <2>4. Following(conf.program, file, n, q, held, maps, rd, Append(taken, Head(queue[n])))
    BY <1>2, <2>2, <2>3, FollowingTake
  <2>. QED  BY <1>1, <2>1, <2>2, <2>4
<1>. QED
  BY <1>1, <1>2, ResultsGoOn

LEMMA NextResults == BenchInv /\ ResultsInv /\ [PipelineNext]_pipeline_vars => ResultsInv'
<1>. SUFFICES ASSUME BenchInv, ResultsInv, [PipelineNext]_pipeline_vars PROVE ResultsInv'
  OBVIOUS
<1>1. \/ ReaderRun \/ ReaderStop \/ PrinterRun \/ BenchmarkRun \/ BenchmarkStores
      \/ Return \/ Tick \/ UNCHANGED pipeline_vars
      \/ \E j \in Kernels : \/ Push(j)
                            \/ j > 1 /\ j < Sink /\ KernelRun(j)
                            \/ j > 1 /\ KernelOver(j)
  BY PipelineSteps DEF BenchInv, PipelineTypes
<1>2. ASSUME UNCHANGED <<conf, file, rd, queue, held, maps, taken>> PROVE ResultsInv'
  BY <1>2 DEF ResultsInv, Kernels, Sink
<1>3. ASSUME \/ ReaderStop \/ BenchmarkStores \/ Return \/ Tick \/ UNCHANGED pipeline_vars
             \/ \E j \in Kernels : KernelOver(j)
      PROVE  ResultsInv'
  <2>1. UNCHANGED <<conf, file, rd, queue, held, maps, taken>>
    BY <1>3 DEF ReaderStop, BenchmarkStores, Return, Tick, pipeline_vars, KernelOver
  <2>. QED  BY <1>2, <2>1
<1>4. ASSUME NEW j \in Kernels, Push(j) \/ (j > 1 /\ j < Sink /\ KernelRun(j))
      PROVE  ResultsInv'
  BY <1>4, PushResults, KernelRunResults
<1>5. ASSUME PrinterRun \/ BenchmarkRun PROVE ResultsInv'
  <2>1. SinkPops
    BY <1>5 DEF PrinterRun, BenchmarkRun
  <2>. QED  BY <2>1, SinkPopsResults
<1>. QED
  BY <1>1, <1>3, <1>4, <1>5, ReaderRunResults

\* At the end nothing is under way.
LEMMA ResultsInvImplies == BenchInv /\ ResultsInv => ResultsFollowFile
<1>. SUFFICES ASSUME BenchInv, ResultsInv, conf.batch = 0
              PROVE  /\ \A j \in DOMAIN taken : \E n \in DOMAIN file :
                          /\ Passes(conf.program, file, n) /\ Passing(conf.program, file, n) = j
                          /\ IsResult(conf.program, file, taken[j], n)
                     /\ returned => Len(taken) = Passing(conf.program, file, Len(file))
  BY DEF ResultsFollowFile
<1>1. PICK n : n = Sink - 1
  OBVIOUS
<1>2. /\ n \in 1 .. 3 /\ Kernels = 1 .. n + 1 /\ Sink = n + 1
      /\ ChainOf(conf.program, Chain(conf.program), n)
  BY <1>1, PipelineChain DEF BenchInv, PipelineTypes
<1>3. PICK b : b = [i \in 1 .. n |-> queue[i] \o held[i]]
  OBVIOUS
<1>4. IsFile(file) /\ Delivers(conf.program, file, Chain(conf.program), n, b, maps, rd, taken)
  BY <1>1, <1>3 DEF ResultsInv, Following
<1>5. /\ \A j \in DOMAIN taken : \E l \in DOMAIN file :
           /\ Passes(conf.program, file, l) /\ Passing(conf.program, file, l) = j
           /\ IsResult(conf.program, file, taken[j], l)
      /\ (rd = Len(file) /\ \A i \in 1 .. n : b[i] = <<>>) =>
            Len(taken) = Passing(conf.program, file, Len(file))
  BY <1>2, <1>4, DeliverResults
<1>6. ASSUME returned PROVE rd = Len(file) /\ \A i \in 1 .. n : b[i] = <<>>
  <2>1. /\ over[n + 1] /\ \A j \in Kernels : over[j] => held[j] = <<>>
        /\ \A j, l \in Kernels : j = l + 1 /\ over[j] => over[l] /\ queue[l] = <<>>
        /\ over[1] => rd = Len(file)
    BY <1>2, <1>6 DEF BenchInv, OverInv
  <2>2. ASSUME NEW i \in 1 .. n, over[i + 1] PROVE over[i] /\ queue[i] = <<>> /\ held[i] = <<>>
    <3>1. i \in Kernels /\ i + 1 \in Kernels
      BY <1>2
    <3>. QED  BY <2>1, <2>2, <3>1
  <2>3. \A i \in 1 .. n : over[i + 1]
    <3>1. over[n + 1]
      BY <2>1
    <3>2. n >= 2 => over[n]
      BY <1>2, <2>2, <3>1
    <3>3. n = 3 => over[n - 1]
      <4>1. ASSUME n = 3 PROVE over[2]
        <5>1. over[3] /\ 2 \in 1 .. n /\ 2 + 1 = 3
          BY <3>2, <4>1
        <5>. QED  BY <2>2, <5>1
      <4>. QED  BY <4>1
    <3>4. \A i \in 1 .. n : i + 1 = n + 1 \/ (n >= 2 /\ i + 1 = n) \/ (n = 3 /\ i + 1 = n - 1)
      BY <1>2
    <3>. QED  BY <3>1, <3>2, <3>3, <3>4
  <2>4. <<>> \o <<>> = <<>>
    BY PlainJoin, PlainEmpty
  <2>5. \A i \in 1 .. n : over[i] /\ b[i] = <<>>
    BY <1>3, <2>2, <2>3, <2>4
  <2>6. 1 \in 1 .. n
    BY <1>2
  <2>. QED  BY <2>1, <2>5, <2>6
<1>. QED
  BY <1>5, <1>6

\* Whatever program is run on whatever file, with streams of any size and in
\* whatever order its threads take turns: the last kernel gets the objects of
\* the records in their order, none lost, repeated or overtaken, each with the
\* value that the program promises of the whole file so far, and when the program
\* has returned, all of them.
THEOREM ResultsAreOfTheFile == PipelineSpec => []ResultsFollowFile
<1>. QED
  BY InitBenchInv, NextBenchInv, InitResults, NextResults, ResultsInvImplies, PTL DEF PipelineSpec
=============================================================================
