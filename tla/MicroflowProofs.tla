-------------------------- MODULE MicroflowProofs --------------------------
(***************************************************************************)
(* Theorems about MicroflowPrograms, for all microflows, all sizes of      *)
(* files, batches, streams and runs, and every kernel behind the reader:   *)
(*                                                                         *)
(*   ReaderStopsNearEnd      StopsNearEnd                                  *)
(*   DueFlowsLeave           HalfOfDueLeave                                *)
(*   AllMicroflowsAccounted  MicroflowsAccounted                           *)
(*   TrainedBeforeJudged     TrainedThenJudged                             *)
(*   KernelsKeepAccounts     KernelsAccount                                *)
(*   BurstQueuesComplete     QueueComplete                                 *)
(*                                                                         *)
(* The first three are about the reader, whose loops RunsInv, HalfInv and  *)
(* AccountInv follow.  RunsInv counts the calls of readMicroflows: each    *)
(* takes MfBatch + 1 microflows but for the flows it finds in the batch.   *)
(* AccountInv says that each microflow is in the table or in a record      *)
(* (Accounted), and as often as it was read: the sizes of all flows, as a  *)
(* number of units (SetLemmas), add up to what was read, so that no two    *)
(* flows can share one.  CalculatorInv says that the number of samples of a*)
(* class never exceeds TrainCt, so that when there are enough for all      *)
(* classes, each has just enough (ClassesFull).  CountInv is CountsAgree   *)
(* with the types of what it counts.  ProfileInv says that the profile of  *)
(* each host holds the packets of its flows, each once, which needs that no*)
(* two records share a microflow (RecordsApart, from AccountInv): the      *)
(* others would be too few for all that was read.  DetectorInv says, of the*)
(* flows that the detector has done, that the cache has all that end after *)
(* the start of the last (CacheOK), and that the packets before a flow's   *)
(* index are in the queue, from that start on (QueueOK, UpTo): what the    *)
(* erasures and the index pass over is then in no queue to come.           *)
(***************************************************************************)
EXTENDS MicroflowPrograms, SetLemmas, SequenceTheorems

\* The greater of two numbers.
LEMMA MaxOfTwo ==
    ASSUME NEW a \in Nat, NEW b \in Nat
    PROVE  /\ Max({a, b}) \in {a, b}
           /\ Max({a, b}) >= a /\ Max({a, b}) >= b
<1>1. \E x \in {a, b} : \A y \in {a, b} : x >= y
  <2>1. CASE a >= b
    BY <2>1
  <2>2. CASE ~(a >= b)
    BY <2>2
  <2>. QED  BY <2>1, <2>2
<1>. QED
  BY <1>1 DEF Max

-----------------------------------------------------------------------------
(***************************************************************************)
(* The reader's state.  The kernels behind it take from its stream and     *)
(* change nothing else of it, so that every step of the programs is one of *)
(* the reader's, or Recycle, or leaves it alone.                           *)
(***************************************************************************)
Recs == [key : {m.key : m \in Microflows}, mfs : Seq(Nat)]

ReaderTypes ==
    /\ rpc \in {"read", "timeouts", "benchmark", "replay", "stopped"}
    /\ total \in Nat /\ i \in Nat /\ mf_ct \in Nat
    /\ cur_ts \in Nat /\ last_check_ts \in Nat /\ new_timeouts \in Nat
    /\ read \in Seq(Microflows)
    /\ table \in [DOMAIN table -> Seq(Nat)]
    /\ IsFiniteSet(DOMAIN table)
    /\ DOMAIN table \subseteq {m.key : m \in Microflows}
    /\ \A k \in DOMAIN table : /\ Len(table[k]) > 0
                               /\ \A j \in DOMAIN table[k] : table[k][j] \in 1 .. Len(read)
    /\ batch \in Seq(Recs) /\ out \in Seq(Seq(Recs)) /\ taken \in Seq(Recs)
    /\ todo \subseteq DOMAIN table
    /\ rpc # "timeouts" => todo = {} /\ new_timeouts = 0

ReaderActions ==
    \/ Allocate
    \/ \E m \in Microflows : ReadMicroflow(m)
    \/ ReadMicroflowsEnd
    \/ \E k \in todo : TimeoutFlow(k)
    \/ TimeoutFlowsEnd
    \/ Benchmark
    \/ \E m \in Microflows : ReplayClfr(m)
    \/ ReplayEnd
    \/ out # <<>> /\ Recycle
    \/ UNCHANGED reader_vars

LEMMA ReaderSteps ==
    ASSUME program \in Programs, [ProgramsNext]_programs_vars
    PROVE  program' = program /\ ReaderActions
<1>1. CASE ReaderThread
  <2>1. Files[program] \subseteq Microflows
    BY ProgramsAssumption
  <2>. QED  BY <1>1, <2>1 DEF ReaderThread, ReaderStep, MicroflowStep, ReplayStep, ReaderActions
<1>2. CASE KernelStep
  <2>1. CASE Profile
    BY <1>2, <2>1 DEF KernelStep, Profile, ReaderActions
  <2>2. CASE Detect
    BY <1>2, <2>2 DEF KernelStep, Detect, DetectFlow, DetectEnd, ReaderActions
  <2>3. CASE Calculate
    BY <1>2, <2>3 DEF KernelStep, Calculate, ReaderActions
  <2>4. CASE CloneStep
    BY <1>2, <2>4 DEF KernelStep, CloneStep, Clone, CloneEnd, ReaderActions
  <2>. QED
    BY <1>2, <2>1, <2>2, <2>3, <2>4 DEF KernelStep, RichRun, AllStatsRun, NetFlowRun, PfeRun
<1>3. CASE BranchStep
  <2>1. program' = program
    BY <1>3 DEF BranchStep
  <2>2. UNCHANGED reader_vars
    BY <1>3 DEF BranchStep, ChainStep, CounterStep, ReplicatedStep, ReplicatedPush, TapStep,
                TapFirst, TapSecond
  <2>. QED  BY <2>1, <2>2 DEF ReaderActions
<1>4. CASE Over \/ Stuck \/ UNCHANGED programs_vars
  BY <1>4 DEF Over, Stuck, programs_vars, ReaderActions
<1>5. ASSUME NEW q \in Printers, PrinterStep(q)
      PROVE  program' = program /\ ReaderActions
  BY <1>5 DEF PrinterStep, TakeValue, ReaderActions
<1>. QED
  BY <1>1, <1>2, <1>3, <1>4, <1>5 DEF ProgramsNext

LEMMA EmplaceTypes ==
    ASSUME ReaderTypes, NEW flow \in Recs, NEW limit \in Nat, EmplaceBack(flow, limit)
    PROVE  batch' \in Seq(Recs) /\ out' \in Seq(Seq(Recs))
<1>1. Append(batch, flow) \in Seq(Recs) /\ Append(out, Append(batch, flow)) \in Seq(Seq(Recs))
  <2>. HIDE DEF Recs
  <2>1. Append(batch, flow) \in Seq(Recs)
    BY DEF ReaderTypes
  <2>. QED  BY <2>1 DEF ReaderTypes
<1>. HIDE DEF Recs
<1>2. <<>> \in Seq(Recs) /\ out \in Seq(Seq(Recs))
  BY DEF ReaderTypes
<1>. QED
  BY <1>1, <1>2 DEF EmplaceBack

\* What is read of a microflow of a file.
LEMMA MicroflowTypes ==
    ASSUME NEW m \in Microflows
    PROVE  /\ m.fin \in BOOLEAN
           /\ m.pkts \in Seq([ts : Nat, queue : Nat]) /\ Len(m.pkts) > 0
           /\ Last(m.pkts) = m.pkts[Len(m.pkts)] /\ Last(m.pkts).ts \in Nat
<1>1. m.fin \in BOOLEAN /\ m.pkts \in Seq([ts : Nat, queue : Nat]) /\ Len(m.pkts) > 0
  BY BatchReaderAssumption
<1>2. Last(m.pkts) = m.pkts[Len(m.pkts)]
  BY DEF Last
<1>3. m.pkts[Len(m.pkts)] \in [ts : Nat, queue : Nat]
  <2>. DEFINE T == [ts : Nat, queue : Nat]
  <2>1. PICK s \in Seq(T) : s = m.pkts
    BY <1>1
  <2>. HIDE DEF T
  <2>2. s[Len(s)] \in T
    BY <1>1, <2>1
  <2>. QED  BY <2>1, <2>2 DEF T
<1>. QED
  BY <1>1, <1>2, <1>3

LEMMA ReadTypes ==
    ASSUME ReaderTypes, NEW m \in Microflows, ReadMicroflow(m)
    PROVE  ReaderTypes'
<1>. DEFINE before == IF m.key \in DOMAIN table THEN table[m.key] ELSE <<>>
            mfs == Append(before, Len(read) + 1)
            flow == [key |-> m.key, mfs |-> mfs]
<1>1. before \in Seq(Nat) /\ \A j \in DOMAIN before : before[j] \in 1 .. Len(read)
  BY DEF ReaderTypes
<1>2. Len(read) \in Nat /\ read' \in Seq(Microflows) /\ Len(read') = Len(read) + 1
  BY DEF ReaderTypes, ReadMicroflow
<1>3. /\ mfs \in Seq(Nat) /\ Len(mfs) > 0
      /\ \A j \in DOMAIN mfs : mfs[j] \in 1 .. Len(read')
  <2>. HIDE DEF before
  <2>. QED  BY <1>1, <1>2
<1>4. flow \in Recs
  BY <1>3 DEF Recs
<1>5. batch' \in Seq(Recs) /\ out' \in Seq(Seq(Recs))
  <2>1. CASE m.fin
    <3>1. EmplaceBack(flow, BatchSize)
      BY <2>1 DEF ReadMicroflow
    <3>2. BatchSize \in Nat
      BY BatchReaderAssumption
    <3>. HIDE DEF flow
    <3>. QED  BY <1>4, <3>1, <3>2, EmplaceTypes
  <2>2. CASE ~m.fin
    BY <2>2 DEF ReadMicroflow, ReaderTypes
  <2>. QED  BY <2>1, <2>2
<1>6. cur_ts' \in Nat
  BY MicroflowTypes, MaxOfTwo DEF ReadMicroflow, Clock, ReaderTypes
<1>7. /\ table' \in [DOMAIN table' -> Seq(Nat)]
      /\ IsFiniteSet(DOMAIN table')
      /\ DOMAIN table' \subseteq {x.key : x \in Microflows}
      /\ \A k \in DOMAIN table' : /\ Len(table'[k]) > 0
                                  /\ \A j \in DOMAIN table'[k] : table'[k][j] \in 1 .. Len(read')
  <2>1. table' = Aggregated(m, mfs)
    BY DEF ReadMicroflow
  <2>. HIDE DEF mfs
  <2>2. CASE m.fin
    <3>1. table' = [x \in DOMAIN table \ {m.key} |-> table[x]]
      BY <2>1, <2>2 DEF Aggregated, Forget
    <3>2. IsFiniteSet(DOMAIN table \ {m.key})
      BY FS_Subset DEF ReaderTypes
    <3>. QED  BY <1>2, <3>1, <3>2 DEF ReaderTypes
  <2>3. CASE ~m.fin
    <3>1. table' = [x \in DOMAIN table \cup {m.key} |-> IF x = m.key THEN mfs ELSE table[x]]
      BY <2>1, <2>3 DEF Aggregated, Aggregate
    <3>2. IsFiniteSet(DOMAIN table \cup {m.key})
      BY FS_AddElement DEF ReaderTypes
    <3>. QED  BY <1>2, <1>3, <3>1, <3>2 DEF ReaderTypes
  <2>. QED  BY <2>2, <2>3
<1>8. /\ rpc' = "read" /\ todo' = {} /\ new_timeouts' = 0
      /\ total' \in Nat /\ i' \in Nat /\ mf_ct' \in Nat /\ last_check_ts' \in Nat
      /\ taken' \in Seq(Recs)
  BY DEF ReadMicroflow, ReaderTypes
<1>. QED
  BY <1>2, <1>5, <1>6, <1>7, <1>8 DEF ReaderTypes

LEMMA TimeoutTypes ==
    ASSUME ReaderTypes, NEW k \in todo, TimeoutFlow(k)
    PROVE  ReaderTypes'
<1>1. k \in DOMAIN table /\ BatchSize \in Nat
  BY BatchReaderAssumption DEF ReaderTypes
<1>2. CASE IsIdle(k)
  <2>. DEFINE flow == [key |-> k, mfs |-> table[k]]
  <2>1. flow \in Recs
    BY <1>1 DEF Recs, ReaderTypes
  <2>2. EmplaceBack(flow, BatchSize)
    BY <1>2 DEF TimeoutFlow
  <2>. HIDE DEF flow
  <2>3. batch' \in Seq(Recs) /\ out' \in Seq(Seq(Recs))
    BY <1>1, <2>1, <2>2, EmplaceTypes
  <2>4. table' = [x \in DOMAIN table \ {k} |-> table[x]]
    BY <1>2 DEF TimeoutFlow, Forget
  <2>5. IsFiniteSet(DOMAIN table \ {k})
    BY FS_Subset DEF ReaderTypes
  <2>6. todo' \subseteq todo \ {k} /\ new_timeouts' = new_timeouts + 1
    BY <1>2 DEF TimeoutFlow
  <2>. QED  BY <2>3, <2>4, <2>5, <2>6 DEF ReaderTypes, TimeoutFlow
<1>3. CASE ~IsIdle(k)
  <2>1. todo' \subseteq todo /\ table' = table /\ batch' = batch /\ out' = out
    BY <1>3 DEF TimeoutFlow, KeptPassed
  <2>. QED  BY <1>3, <2>1 DEF ReaderTypes, TimeoutFlow
<1>. QED
  BY <1>2, <1>3

LEMMA ReplayTypes ==
    ASSUME ReaderTypes, NEW m \in Microflows, ReplayClfr(m)
    PROVE  ReaderTypes'
<1>. DEFINE flow == [key |-> m.key, mfs |-> <<Len(read) + 1>>]
<1>1. flow \in Recs
  BY DEF Recs, ReaderTypes
<1>2. EmplaceBack(flow, ReplayBatch) /\ ReplayBatch \in Nat
  BY BatchReaderAssumption DEF ReplayClfr
<1>. HIDE DEF flow
<1>3. batch' \in Seq(Recs) /\ out' \in Seq(Seq(Recs))
  BY <1>1, <1>2, EmplaceTypes
<1>4. read' \in Seq(Microflows) /\ Len(read') = Len(read) + 1 /\ Len(read) \in Nat
  BY DEF ReplayClfr, ReaderTypes
<1>5. UNCHANGED <<rpc, total, taken, mf_vars>>
  BY DEF ReplayClfr
<1>. QED
  BY <1>3, <1>4, <1>5 DEF ReaderTypes, mf_vars

LEMMA ReaderTypesNext ==
    ASSUME ReaderTypes, ReaderActions
    PROVE  ReaderTypes'
<1>1. CASE Allocate
  BY <1>1 DEF Allocate, ReaderTypes, mf_vars
<1>2. CASE ReadMicroflowsEnd
  <2>1. mf_ct' \in Nat
    BY <1>2, BatchReaderAssumption DEF ReadMicroflowsEnd, ReaderTypes
  <2>2. rpc' \in {"timeouts", "benchmark"} /\ rpc = "read"
    BY <1>2 DEF ReadMicroflowsEnd
  <2>3. todo' \subseteq DOMAIN table /\ (rpc' # "timeouts" => todo' = todo)
    BY <1>2 DEF ReadMicroflowsEnd, ReaderTypes
  <2>. QED  BY <1>2, <2>1, <2>2, <2>3 DEF ReadMicroflowsEnd, ReaderTypes
<1>3. CASE TimeoutFlowsEnd \/ Benchmark
  BY <1>3 DEF TimeoutFlowsEnd, Benchmark, ReaderTypes
<1>4. CASE ReplayEnd
  <2>1. batch' \in Seq(Recs) /\ out' \in Seq(Seq(Recs))
    <3>. HIDE DEF Recs
    <3>. QED  BY <1>4 DEF ReplayEnd, ReaderTypes
  <2>. QED  BY <1>4, <2>1 DEF ReplayEnd, ReaderTypes, mf_vars
<1>5. CASE out # <<>> /\ Recycle
  <2>1. out' \in Seq(Seq(Recs)) /\ taken' \in Seq(Recs)
    <3>. HIDE DEF Recs
    <3>. QED  BY <1>5 DEF Recycle, ReaderTypes
  <2>. QED  BY <1>5, <2>1 DEF Recycle, ReaderTypes, mf_vars
<1>6. CASE UNCHANGED reader_vars
  BY <1>6 DEF reader_vars, mf_vars, ReaderTypes
<1>. QED
  BY <1>1, <1>2, <1>3, <1>4, <1>5, <1>6, ReadTypes, TimeoutTypes, ReplayTypes DEF ReaderActions

LEMMA ReaderTypesInit ==
    ASSUME ProgramsInit
    PROVE  ReaderTypes /\ program \in Programs
<1>1. PICK p \in Programs : program = p
  BY DEF ProgramsInit
<1>2. p.reader \in {"read", "replay"} /\ Lengths[p] \subseteq Nat
  BY ProgramsAssumption
<1>3. /\ rpc \in {"read", "replay"} /\ total \in Nat /\ read = <<>>
      /\ table = [k \in {} |-> <<>>] /\ batch = <<>> /\ out = <<>> /\ taken = <<>>
      /\ i = 0 /\ mf_ct = 0 /\ cur_ts = 0 /\ last_check_ts = 0
      /\ todo = {} /\ new_timeouts = 0
  BY <1>1, <1>2 DEF ProgramsInit, ReaderInit
<1>4. read \in Seq(Microflows) /\ Len(read) = 0
  BY <1>3
<1>5. batch \in Seq(Recs) /\ out \in Seq(Seq(Recs)) /\ taken \in Seq(Recs)
  BY <1>3
<1>6. DOMAIN table = {} /\ IsFiniteSet(DOMAIN table)
  BY <1>3, FS_EmptySet
<1>7. table \in [DOMAIN table -> Seq(Nat)]
  BY <1>3
<1>. QED
  BY <1>1, <1>3, <1>4, <1>5, <1>6, <1>7 DEF ReaderTypes

-----------------------------------------------------------------------------
(***************************************************************************)
(* What MicroflowReader has read when it stops.                            *)
(***************************************************************************)

\* R calls of readMicroflows are over, each of which took MfBatch + 1
\* microflows but for the flows it found in the batch.
ReadInRuns(R) ==
    /\ mf_ct = R * MfBatch
    /\ Len(read) - i <= R * (MfBatch + 1)
    /\ Len(read) - i >= R * (MfBatch + 1 - BatchSize)

RunsInv ==
    /\ ReaderTypes /\ program \in Programs
    /\ program.reader = "read" =>
          /\ rpc # "replay"
          /\ Len(batch) <= BatchSize
          /\ i <= MfBatch + 1
          /\ \E R \in Nat : ReadInRuns(R)
          /\ rpc # "read" => i = 0 /\ mf_ct <= Max({total, MfBatch})
          /\ rpc = "read" => mf_ct = 0 \/ ~LastRun(mf_ct)
          /\ rpc = "stopped" => LastRun(mf_ct)

LEMMA EmplaceBounded ==
    ASSUME ReaderTypes, Len(batch) <= BatchSize,
           NEW flow \in Recs, EmplaceBack(flow, BatchSize)
    PROVE  Len(batch') <= BatchSize
<1>1. BatchSize \in Nat
  BY BatchReaderAssumption
<1>2. Append(batch, flow) \in Seq(Recs)
  BY DEF ReaderTypes
<1>3. CASE BatchFull(Append(batch, flow), BatchSize)
  BY <1>1, <1>3 DEF EmplaceBack
<1>4. CASE ~BatchFull(Append(batch, flow), BatchSize)
  <2>1. batch' = Append(batch, flow)
    BY <1>4 DEF EmplaceBack
  <2>2. Len(Append(batch, flow)) \in Nat
    BY <1>2
  <2>. QED  BY <1>1, <1>4, <2>1, <2>2 DEF BatchFull
<1>. QED
  BY <1>3, <1>4

LEMMA RunsRead ==
    ASSUME RunsInv, program.reader = "read", NEW m \in Microflows, ReadMicroflow(m)
    PROVE  /\ Len(batch') <= BatchSize
           /\ i' <= MfBatch + 1
           /\ \E R \in Nat : ReadInRuns(R)'
<1>. DEFINE before == IF m.key \in DOMAIN table THEN table[m.key] ELSE <<>>
            mfs == Append(before, Len(read) + 1)
            flow == [key |-> m.key, mfs |-> mfs]
<1>1. ReaderTypes /\ MfBatch \in Nat /\ BatchSize \in Nat
  BY BatchReaderAssumption DEF RunsInv
<1>2. Len(batch') <= BatchSize
  <2>1. before \in Seq(Nat)
    BY <1>1 DEF ReaderTypes
  <2>2. flow \in Recs
    <3>1. Len(read) + 1 \in Nat
      BY <1>1 DEF ReaderTypes
    <3>. HIDE DEF before
    <3>. QED  BY <2>1, <3>1 DEF Recs
  <2>3. CASE m.fin
    <3>1. EmplaceBack(flow, BatchSize)
      BY <2>3 DEF ReadMicroflow
    <3>. HIDE DEF flow
    <3>. QED  BY <1>1, <2>2, <3>1, EmplaceBounded DEF RunsInv
  <2>4. CASE ~m.fin
    BY <2>4 DEF ReadMicroflow, RunsInv
  <2>. QED  BY <2>3, <2>4
<1>3. i' = i + 1 /\ i < MfBatch - Len(batch) + 1 /\ mf_ct' = mf_ct
  BY DEF ReadMicroflow, ReadsLeft
<1>4. Len(batch) \in Nat /\ Len(read) \in Nat /\ Len(read') = Len(read) + 1 /\ i \in Nat
  <2>1. Len(batch) \in Nat /\ Len(read) \in Nat /\ i \in Nat
    BY <1>1 DEF ReaderTypes
  <2>2. read \in Seq(Microflows) /\ read' = Append(read, m)
    BY <1>1 DEF ReaderTypes, ReadMicroflow
  <2>. QED  BY <2>1, <2>2
<1>5. i' <= MfBatch + 1
  BY <1>1, <1>3, <1>4
<1>6. PICK R \in Nat : ReadInRuns(R)
  BY DEF RunsInv
<1>7. ReadInRuns(R)'
  BY <1>3, <1>4, <1>6 DEF ReadInRuns
<1>. QED
  BY <1>2, <1>5, <1>7

LEMMA RunsReadEnd ==
    ASSUME RunsInv, program.reader = "read", ReadMicroflowsEnd
    PROVE  /\ \E R \in Nat : ReadInRuns(R)'
           /\ mf_ct' <= Max({total, MfBatch})
           /\ rpc' \in {"timeouts", "benchmark"}
<1>1. /\ ReaderTypes /\ MfBatch \in Nat \ {0} /\ BatchSize \in Nat \ {0}
      /\ BatchSize < MfBatch /\ total \in Nat /\ mf_ct \in Nat /\ i \in Nat
      /\ Len(batch) \in Nat /\ Len(read) \in Nat
  BY BatchReaderAssumption DEF RunsInv, ReaderTypes
<1>2. PICK R \in Nat : ReadInRuns(R)
  BY DEF RunsInv
<1>3. /\ mf_ct' = mf_ct + MfBatch /\ i' = 0 /\ read' = read
      /\ ~(i < MfBatch - Len(batch) + 1)
      /\ i <= MfBatch + 1 /\ Len(batch) <= BatchSize
  BY DEF ReadMicroflowsEnd, ReadsLeft, RunsInv
<1>4. ReadInRuns(R + 1)'
  <2>1. /\ (R + 1) * MfBatch = R * MfBatch + MfBatch
        /\ (R + 1) * (MfBatch + 1) = R * (MfBatch + 1) + (MfBatch + 1)
        /\ (R + 1) * (MfBatch + 1 - BatchSize)
              = R * (MfBatch + 1 - BatchSize) + (MfBatch + 1 - BatchSize)
        /\ R * MfBatch \in Nat /\ R * (MfBatch + 1) \in Nat
        /\ R * (MfBatch + 1 - BatchSize) \in Int
    BY <1>1
  <2>2. mf_ct' = (R + 1) * MfBatch
    BY <1>1, <1>2, <1>3, <2>1 DEF ReadInRuns
  <2>3. Len(read) - 0 <= (R + 1) * (MfBatch + 1)
    BY <1>1, <1>2, <1>3, <2>1 DEF ReadInRuns
  <2>4. Len(read) - 0 >= (R + 1) * (MfBatch + 1 - BatchSize)
    BY <1>1, <1>2, <1>3, <2>1 DEF ReadInRuns
  <2>. QED  BY <1>3, <2>2, <2>3, <2>4 DEF ReadInRuns
<1>5. mf_ct' <= Max({total, MfBatch})
  <2>1. Max({total, MfBatch}) \in Nat
        /\ Max({total, MfBatch}) >= total /\ Max({total, MfBatch}) >= MfBatch
    BY <1>1, MaxOfTwo
  <2>2. mf_ct = 0 \/ mf_ct + MfBatch <= total
    <3>1. mf_ct = 0 \/ ~(mf_ct + MfBatch > total)
      BY DEF RunsInv, ReadMicroflowsEnd, LastRun
    <3>. QED  BY <1>1, <3>1
  <2>. QED  BY <1>1, <1>3, <2>1, <2>2
<1>9. rpc' \in {"timeouts", "benchmark"}
  BY DEF ReadMicroflowsEnd
<1>10. \E Q \in Nat : ReadInRuns(Q)'
  BY <1>4
<1>. QED
  BY <1>5, <1>9, <1>10

LEMMA RunsNext ==
    ASSUME RunsInv, [ProgramsNext]_programs_vars
    PROVE  RunsInv'
<1>1. program' = program /\ ReaderActions /\ ReaderTypes'
  BY ReaderSteps, ReaderTypesNext DEF RunsInv
<1>2. /\ MfBatch \in Nat /\ BatchSize \in Nat
  BY BatchReaderAssumption
<1>. SUFFICES ASSUME program.reader = "read"
              PROVE  RunsInv'
  BY <1>1 DEF RunsInv
<1>3. ASSUME NEW m \in Microflows, ReadMicroflow(m)
      PROVE  RunsInv'
  <2>1. rpc = "read" /\ rpc' = "read" /\ mf_ct' = mf_ct /\ total' = total
    BY <1>3 DEF ReadMicroflow
  <2>. QED  BY <1>1, <1>3, <2>1, RunsRead DEF RunsInv, LastRun
<1>4. CASE ReadMicroflowsEnd
  <2>1. i' = 0 /\ batch' = batch /\ total' = total
    BY <1>4 DEF ReadMicroflowsEnd
  <2>. QED  BY <1>1, <1>2, <1>4, <2>1, RunsReadEnd DEF RunsInv
<1>5. ASSUME NEW k \in todo, TimeoutFlow(k)
      PROVE  RunsInv'
  <2>1. UNCHANGED <<rpc, total, read, i, mf_ct>>
    BY <1>5 DEF TimeoutFlow
  <2>2. Len(batch') <= BatchSize
    <3>1. CASE IsIdle(k)
      <4>. DEFINE flow == [key |-> k, mfs |-> table[k]]
      <4>1. flow \in Recs
        BY DEF Recs, RunsInv, ReaderTypes
      <4>2. EmplaceBack(flow, BatchSize)
        BY <1>5, <3>1 DEF TimeoutFlow
      <4>. HIDE DEF flow
      <4>. QED  BY <4>1, <4>2, EmplaceBounded DEF RunsInv
    <3>2. CASE ~IsIdle(k)
      BY <1>5, <3>2 DEF TimeoutFlow, RunsInv
    <3>. QED  BY <3>1, <3>2
  <2>. QED  BY <1>1, <2>1, <2>2 DEF RunsInv, ReadInRuns, LastRun
<1>6. CASE TimeoutFlowsEnd \/ Benchmark
  <2>1. /\ UNCHANGED <<total, read, batch, i, mf_ct>>
        /\ rpc \in {"timeouts", "benchmark"}
        /\ \/ rpc' = "benchmark"
           \/ rpc' = IF LastRun(mf_ct) THEN "stopped" ELSE "read"
    BY <1>6 DEF TimeoutFlowsEnd, Benchmark
  <2>3. /\ rpc' = "read" => ~LastRun(mf_ct)'
        /\ rpc' = "stopped" => LastRun(mf_ct)'
        /\ rpc' # "replay"
    BY <2>1 DEF LastRun
  <2>4. \E R \in Nat : ReadInRuns(R)'
    BY <2>1 DEF RunsInv, ReadInRuns
  <2>5. /\ Len(batch) <= BatchSize /\ i <= MfBatch + 1 /\ i = 0
        /\ mf_ct <= Max({total, MfBatch})
    BY <2>1 DEF RunsInv
  <2>. QED  BY <1>1, <2>1, <2>3, <2>4, <2>5 DEF RunsInv
<1>7. CASE Allocate \/ (out # <<>> /\ Recycle) \/ UNCHANGED reader_vars
  <2>1. UNCHANGED <<rpc, total, read, batch, i, mf_ct>>
    BY <1>7 DEF Allocate, Recycle, reader_vars, mf_vars
  <2>. QED  BY <1>1, <2>1 DEF RunsInv, ReadInRuns, LastRun
<1>8. ~(\E m \in Microflows : ReplayClfr(m)) /\ ~ReplayEnd
  BY DEF RunsInv, ReplayClfr, ReplayEnd
<1>. QED
  BY <1>1, <1>3, <1>4, <1>5, <1>6, <1>7, <1>8 DEF ReaderActions

\* When MicroflowReader stops it is near the end of its file, for every size of
\* the batches and of the file.
THEOREM ReaderStopsNearEnd == ProgramsSpec => []StopsNearEnd
<1>1. ProgramsInit => RunsInv
  <2>. SUFFICES ASSUME ProgramsInit PROVE RunsInv
    OBVIOUS
  <2>1. ReaderTypes /\ program \in Programs
    BY ReaderTypesInit
  <2>2. rpc = program.reader /\ Len(batch) = 0 /\ i = 0 /\ mf_ct = 0 /\ Len(read) = 0
    BY DEF ProgramsInit, ReaderInit
  <2>3. MfBatch \in Nat /\ BatchSize \in Nat
    BY BatchReaderAssumption
  <2>4. ReadInRuns(0)
    BY <2>2, <2>3 DEF ReadInRuns
  <2>. QED  BY <2>1, <2>2, <2>3, <2>4 DEF RunsInv
<1>2. RunsInv /\ [ProgramsNext]_programs_vars => RunsInv'
  BY RunsNext
<1>3. RunsInv => StopsNearEnd
  <2>. SUFFICES ASSUME RunsInv, rpc = "stopped", program.reader = "read"
                PROVE  /\ Len(read) <= Max({total, MfBatch}) + Runs
                       /\ Len(read) >= total - (MfBatch - 1) - Runs * (BatchSize - 1)
    BY DEF StopsNearEnd, RunsInv
  <2>1. /\ MfBatch \in Nat \ {0} /\ BatchSize \in Nat \ {0}
        /\ total \in Nat /\ Len(read) \in Nat
    BY BatchReaderAssumption DEF RunsInv, ReaderTypes
  <2>2. PICK R \in Nat : ReadInRuns(R)
    BY DEF RunsInv
  <2>3. mf_ct <= Max({total, MfBatch}) /\ mf_ct + MfBatch > total /\ i = 0
    BY DEF RunsInv, LastRun
  <2>4. Max({total, MfBatch}) \in Nat
    BY <2>1, MaxOfTwo
  <2>5. Runs = R
    BY <2>1, <2>2 DEF Runs, ReadInRuns
  <2>6. /\ R * (MfBatch + 1) = R * MfBatch + R
        /\ R * (MfBatch + 1 - BatchSize) = R * MfBatch - R * (BatchSize - 1)
        /\ R * MfBatch \in Nat /\ R * (BatchSize - 1) \in Int
    BY <2>1
  <2>7. Len(read) <= mf_ct + R /\ Len(read) >= mf_ct - R * (BatchSize - 1)
    BY <2>1, <2>2, <2>3, <2>6 DEF ReadInRuns
  <2>8. mf_ct \in Nat
    BY DEF RunsInv, ReaderTypes
  <2>. QED  BY <2>1, <2>3, <2>4, <2>5, <2>6, <2>7, <2>8
<1>. QED
  BY <1>1, <1>2, <1>3, PTL DEF ProgramsSpec

-----------------------------------------------------------------------------
(***************************************************************************)
(* What a check of timeouts leaves in the table.                           *)
(***************************************************************************)
IdleVisited == {k \in DOMAIN table \ todo : IsIdle(k)}

HalfInv == ReaderTypes /\ program \in Programs /\ HalfOfDueLeave

\* The last time stamp of a flow in the table is that of its last microflow.
LEMMA LastTsOfTable ==
    ASSUME ReaderTypes, NEW k \in DOMAIN table
    PROVE  /\ Last(table[k]) \in 1 .. Len(read)
           /\ Len(read) \in Nat
           /\ read[Last(table[k])] \in Microflows
           /\ LastTs(table[k]) \in Nat
<1>1. Last(table[k]) = table[k][Len(table[k])] /\ table[k] \in Seq(Nat) /\ Len(table[k]) > 0
  BY DEF Last, ReaderTypes
<1>2. Len(table[k]) \in DOMAIN table[k]
  BY <1>1
<1>3. Last(table[k]) \in 1 .. Len(read)
  BY <1>1, <1>2 DEF ReaderTypes
<1>4. Len(read) \in Nat /\ read[Last(table[k])] \in Microflows
  BY <1>3 DEF ReaderTypes
<1>. QED
  BY <1>3, <1>4, MicroflowTypes DEF LastTs

LEMMA HalfRead ==
    ASSUME HalfInv, NEW m \in Microflows, ReadMicroflow(m)
    PROVE  HalfOfDueLeave'
<1>1. ReaderTypes /\ cur_ts \in Nat /\ read \in Seq(Microflows)
  BY DEF HalfInv, ReaderTypes
<1>2. /\ Last(m.pkts).ts \in Nat /\ cur_ts' = Max({cur_ts, Last(m.pkts).ts})
      /\ read' = Append(read, m) /\ rpc' = "read" /\ last_check_ts' = last_check_ts
  BY MicroflowTypes DEF ReadMicroflow, Clock
<1>3. cur_ts' >= cur_ts /\ cur_ts' >= Last(m.pkts).ts /\ cur_ts' \in Nat
  BY <1>1, <1>2, MaxOfTwo
<1>4. ASSUME NEW k \in DOMAIN table'
      PROVE  LastTs(table[k])' <= cur_ts'
  <2>. DEFINE before == IF m.key \in DOMAIN table THEN table[m.key] ELSE <<>>
              mfs == Append(before, Len(read) + 1)
  <2>1. Len(read) \in Nat /\ read'[Len(read) + 1] = m
        /\ \A n \in 1 .. Len(read) : read'[n] = read[n]
    BY <1>1, <1>2
  <2>2. CASE k \in DOMAIN table /\ table'[k] = table[k]
    <3>1. Last(table[k]) \in 1 .. Len(read) /\ LastTs(table[k]) \in Nat
      BY <1>1, <2>2, LastTsOfTable
    <3>2. LastTs(table[k])' = LastTs(table[k])
      BY <2>1, <2>2, <3>1 DEF LastTs
    <3>3. LastTs(table[k]) <= cur_ts
      BY <2>2 DEF HalfInv, HalfOfDueLeave
    <3>. QED  BY <1>1, <1>3, <3>1, <3>2, <3>3
  <2>3. CASE table'[k] = mfs
    <3>1. before \in Seq(Nat)
      BY <1>1 DEF ReaderTypes
    <3>. HIDE DEF before
    <3>2. Last(mfs) = Len(read) + 1
      BY <2>1, <3>1 DEF Last
    <3>. HIDE DEF mfs
    <3>3. LastTs(table[k])' = Last(m.pkts).ts
      BY <2>1, <2>3, <3>2 DEF LastTs
    <3>. QED  BY <1>3, <3>3
  <2>4. (k \in DOMAIN table /\ table'[k] = table[k]) \/ table'[k] = mfs
    <3>1. table' = Aggregated(m, mfs)
      BY DEF ReadMicroflow
    <3>. HIDE DEF mfs
    <3>. QED  BY <3>1 DEF Aggregated, Forget, Aggregate
  <2>. QED  BY <2>2, <2>3, <2>4
<1>5. last_check_ts' <= cur_ts'
  BY <1>1, <1>2, <1>3 DEF HalfInv, HalfOfDueLeave, ReaderTypes
<1>. QED
  BY <1>2, <1>4, <1>5 DEF HalfOfDueLeave

\* An idle flow leaves, and takes at most one that is passed over with it out of
\* the loop's way.
LEMMA HalfTimeout ==
    ASSUME HalfInv, NEW k \in todo, TimeoutFlow(k)
    PROVE  HalfOfDueLeave'
<1>1. ReaderTypes /\ k \in DOMAIN table /\ new_timeouts \in Nat
  BY DEF HalfInv, ReaderTypes
<1>2. UNCHANGED <<rpc, read, cur_ts, last_check_ts>> /\ rpc = "timeouts"
  BY DEF TimeoutFlow
<1>3. DOMAIN table' \subseteq DOMAIN table /\ \A x \in DOMAIN table' : table'[x] = table[x]
  BY DEF TimeoutFlow, Forget
<1>4. \A x \in DOMAIN table' : LastTs(table[x])' = LastTs(table[x]) /\ IsIdle(x)' = IsIdle(x)
  BY <1>2, <1>3 DEF LastTs, IsIdle
<1>5. IsFiniteSet(IdleVisited) /\ Cardinality(IdleVisited) <= new_timeouts
  <2>1. IsFiniteSet(DOMAIN table) /\ IdleVisited \subseteq DOMAIN table
    BY <1>1 DEF ReaderTypes, IdleVisited
  <2>. QED  BY <1>2, <2>1, FS_Subset DEF HalfInv, HalfOfDueLeave, IdleVisited
<1>6. Cardinality(IdleVisited') <= new_timeouts'
  <2>1. CASE IsIdle(k)
    <3>1. PICK S \in PassedOver(todo \ {k}) : todo' = todo \ ({k} \cup S)
      BY <2>1 DEF TimeoutFlow
    <3>2. DOMAIN table' = DOMAIN table \ {k} /\ new_timeouts' = new_timeouts + 1
      BY <2>1 DEF TimeoutFlow, Forget
    <3>3. S \subseteq todo \ {k} /\ Cardinality(S) <= 1
      BY <3>1 DEF PassedOver
    <3>4. IdleVisited' \subseteq IdleVisited \cup S
      BY <1>4, <3>1, <3>2, <3>3 DEF IdleVisited
    <3>5. IsFiniteSet(S)
      BY <1>1, <3>3, FS_Subset DEF ReaderTypes
    <3>6. IdleVisited \cap S = {}
      BY <3>3 DEF IdleVisited
    <3>7. /\ IsFiniteSet(IdleVisited \cup S)
          /\ Cardinality(IdleVisited \cup S) = Cardinality(IdleVisited) + Cardinality(S)
          /\ Cardinality(IdleVisited) \in Nat /\ Cardinality(S) \in Nat
      BY <1>5, <3>5, <3>6, DisjointUnion
    <3>8. /\ Cardinality(IdleVisited') <= Cardinality(IdleVisited \cup S)
          /\ Cardinality(IdleVisited') \in Nat
      BY <3>4, <3>7, FS_Subset, FS_CardinalityType
    <3>. QED  BY <1>1, <1>5, <3>2, <3>3, <3>7, <3>8
  <2>2. CASE ~IsIdle(k)
    <3>1. todo' = todo \ {k} /\ table' = table /\ new_timeouts' = new_timeouts
      BY <2>2 DEF TimeoutFlow, KeptPassed
    <3>2. IdleVisited' = IdleVisited
      BY <1>4, <2>2, <3>1 DEF IdleVisited
    <3>. QED  BY <1>5, <3>1, <3>2
  <2>. QED  BY <2>1, <2>2
<1>7. \A x \in DOMAIN table' : LastTs(table[x])' <= cur_ts'
  BY <1>2, <1>3, <1>4 DEF HalfInv, HalfOfDueLeave
<1>8. last_check_ts' <= cur_ts'
  BY <1>2 DEF HalfInv, HalfOfDueLeave
<1>. QED
  BY <1>6, <1>7, <1>8 DEF HalfOfDueLeave, IdleVisited

LEMMA HalfNext ==
    ASSUME HalfInv, [ProgramsNext]_programs_vars
    PROVE  HalfInv'
<1>1. program' = program /\ ReaderActions /\ ReaderTypes'
  BY ReaderSteps, ReaderTypesNext DEF HalfInv
<1>2. CASE ReadMicroflowsEnd
  <2>1. UNCHANGED <<read, cur_ts, last_check_ts, new_timeouts, table>>
        /\ rpc = "read" /\ (rpc' = "timeouts" => todo' = DOMAIN table)
    BY <1>2 DEF ReadMicroflowsEnd
  <2>2. \A k \in DOMAIN table' : LastTs(table[k])' = LastTs(table[k])
    BY <2>1 DEF LastTs
  <2>3. rpc' = "timeouts" => IdleVisited' = {}
    BY <2>1 DEF IdleVisited
  <2>4. rpc' = "timeouts" => Cardinality(IdleVisited') <= new_timeouts'
    <3>1. new_timeouts' = 0
      BY <2>1 DEF HalfInv, ReaderTypes
    <3>2. rpc' = "timeouts" => Cardinality(IdleVisited') = 0
      BY <2>3, FS_EmptySet
    <3>. QED  BY <3>1, <3>2
  <2>. QED  BY <1>1, <2>1, <2>2, <2>4 DEF HalfInv, HalfOfDueLeave, IdleVisited
<1>3. CASE TimeoutFlowsEnd
  <2>1. UNCHANGED <<read, cur_ts, table>> /\ last_check_ts' = cur_ts /\ rpc' # "timeouts"
    BY <1>3 DEF TimeoutFlowsEnd
  <2>2. \A k \in DOMAIN table' : LastTs(table[k])' = LastTs(table[k])
    BY <2>1 DEF LastTs
  <2>3. cur_ts <= cur_ts
    BY DEF HalfInv, ReaderTypes
  <2>. QED  BY <1>1, <2>1, <2>2, <2>3 DEF HalfInv, HalfOfDueLeave
<1>4. ASSUME NEW m \in Microflows, ReplayClfr(m)
      PROVE  HalfInv'
  <2>1. UNCHANGED <<rpc, table, cur_ts, last_check_ts>> /\ rpc = "replay" /\ read' = Append(read, m)
    BY <1>4 DEF ReplayClfr, mf_vars
  <2>2. \A k \in DOMAIN table' : LastTs(table[k])' = LastTs(table[k])
    <3>1. read \in Seq(Microflows)
      BY DEF HalfInv, ReaderTypes
    <3>2. \A n \in 1 .. Len(read) : read'[n] = read[n]
      BY <2>1, <3>1
    <3>. QED  BY <2>1, <3>2, LastTsOfTable DEF LastTs, HalfInv
  <2>. QED  BY <1>1, <2>1, <2>2 DEF HalfInv, HalfOfDueLeave
<1>5. CASE Allocate \/ Benchmark \/ ReplayEnd \/ (out # <<>> /\ Recycle)
             \/ UNCHANGED reader_vars
  <2>1. /\ UNCHANGED <<read, cur_ts, last_check_ts, todo, new_timeouts, table>>
        /\ rpc' = rpc \/ rpc' \in {"read", "stopped"}
    BY <1>5 DEF Allocate, Benchmark, ReplayEnd, Recycle, reader_vars, mf_vars
  <2>2. \A k : LastTs(table[k])' = LastTs(table[k]) /\ IsIdle(k)' = IsIdle(k)
    BY <2>1 DEF LastTs, IsIdle
  <2>3. IdleVisited' = IdleVisited
    BY <2>1, <2>2 DEF IdleVisited
  <2>. QED  BY <1>1, <2>1, <2>2, <2>3 DEF HalfInv, HalfOfDueLeave, IdleVisited
<1>6. ASSUME HalfOfDueLeave'
      PROVE  HalfInv'
  BY <1>1, <1>6 DEF HalfInv
<1>. QED
  BY <1>1, <1>2, <1>3, <1>4, <1>5, <1>6, HalfRead, HalfTimeout DEF ReaderActions

\* The clock is never behind a flow, and half of the flows that are due leave
\* with each check, whatever the hash table passes over.
THEOREM DueFlowsLeave == ProgramsSpec => []HalfOfDueLeave
<1>1. ProgramsInit => HalfInv
  <2>. SUFFICES ASSUME ProgramsInit PROVE HalfInv
    OBVIOUS
  <2>1. ReaderTypes /\ program \in Programs
    BY ReaderTypesInit
  <2>2. DOMAIN table = {} /\ last_check_ts = 0 /\ cur_ts = 0 /\ rpc # "timeouts"
    <3>1. rpc = program.reader /\ table = [k \in {} |-> <<>>] /\ last_check_ts = 0 /\ cur_ts = 0
      BY DEF ProgramsInit, ReaderInit
    <3>2. program.reader # "timeouts"
      BY <2>1, ProgramsAssumption
    <3>. QED  BY <3>1, <3>2
  <2>. QED  BY <2>1, <2>2 DEF HalfInv, HalfOfDueLeave
<1>2. HalfInv /\ [ProgramsNext]_programs_vars => HalfInv'
  BY HalfNext
<1>. QED
  BY <1>1, <1>2, PTL DEF ProgramsSpec, HalfInv

-----------------------------------------------------------------------------
(***************************************************************************)
(* Sums and concatenations that MicroflowsAccounted is stated with.        *)
(***************************************************************************)

\* The sum of a function's values is the number of its units.
LEMMA SumFunctionIsUnits ==
    ASSUME NEW S, IsFiniteSet(S), NEW f \in [S -> Nat]
    PROVE  SumFunction(f) = Cardinality(Units(f, S))
<1>1. SumFunction(f) = Sum(f, DOMAIN f)
  BY Zenon DEF SumFunction, SumFunctionOnSet, FoldFunctionOnSet, MapThenFoldSet, Sum, MapThenSumSet
<1>2. DOMAIN f = S
  OBVIOUS
<1>. QED
  BY <1>1, <1>2, SumIsUnits

\* The numbers of microflows of the flow records R.
Sizes(R) == [j \in DOMAIN R |-> Len(R[j].mfs)]

LEMMA SizesAddUp ==
    ASSUME NEW R \in Seq(Recs)
    PROVE  /\ IsFiniteSet(DOMAIN R) /\ Sizes(R) \in [DOMAIN R -> Nat]
           /\ FoldLeft(LAMBDA n, f : n + Len(f.mfs), 0, R)
                 = Cardinality(Units(Sizes(R), DOMAIN R))
<1>. DEFINE S == DOMAIN R
            rec(g) == [s \in SUBSET S |-> IF s = {} THEN 0 ELSE g[s \ {Max(s)}] + Len(R[Max(s)].mfs)]
            iter == CHOOSE g : g = rec(g)
            pick == [s \in SUBSET S |-> Max(s)]
<1>1. FoldLeft(LAMBDA n, f : n + Len(f.mfs), 0, R) = iter[S]
  BY Zenon DEF FoldLeft, MapThenFoldSet
<1>2. S = 1 .. Len(R) /\ Len(R) \in Nat
  BY LenProperties
<1>3. IsFiniteSet(S)
  BY <1>2, CountOfInterval
<1>4. Sizes(R) \in [S -> Nat]
  <2>1. \A j \in S : R[j] \in Recs
    BY ElementOfSeq, <1>2
  <2>. QED  BY <2>1 DEF Sizes, Recs
<1>5. \A s \in SUBSET S : s # {} => pick[s] \in s
  BY <1>2, MaxOfBounded
<1>6. \A s \in SUBSET S : pick[s] = Max(s)
  OBVIOUS
<1>7. \A s \in SUBSET S : s # {} => Max(s) \in S /\ Sizes(R)[Max(s)] = Len(R[Max(s)].mfs)
  BY <1>5, <1>6 DEF Sizes
<1>. HIDE DEF pick, S
<1>8. PICK g \in [SUBSET S -> Nat] : SumsUp(Sizes(R), S, pick, g)
  BY <1>3, <1>4, <1>5, SumRecursion
<1>9. \A s \in SUBSET S : s # {} =>
         s \ {Max(s)} \in SUBSET S /\ g[s \ {Max(s)}] \in Nat /\ Sizes(R)[Max(s)] \in Nat
  BY <1>4, <1>7
<1>10. g = rec(g)
  <2>1. ASSUME NEW s \in SUBSET S
        PROVE  g[s] = IF s = {} THEN 0 ELSE g[s \ {Max(s)}] + Len(R[Max(s)].mfs)
    <3>1. CASE s = {}
      BY <1>8, <3>1 DEF SumsUp
    <3>2. CASE s # {}
      <4>1. PICK x : x = Max(s)
        OBVIOUS
      <4>2. pick[s] = x /\ g[s \ {x}] \in Nat /\ Sizes(R)[x] \in Nat
            /\ Sizes(R)[x] = Len(R[x].mfs)
        BY <1>6, <1>7, <1>9, <3>2, <4>1
      <4>3. g[s] = Sizes(R)[x] + g[s \ {x}]
        BY <1>8, <3>2, <4>2 DEF SumsUp
      <4>. QED  BY <3>2, <4>1, <4>2, <4>3
    <3>. QED  BY <3>1, <3>2
  <2>. QED  BY <2>1
<1>11. iter = rec(iter)
  <2>. HIDE DEF rec
  <2>. QED  BY <1>10, Zenon
<1>. HIDE DEF iter
<1>12. SumsUp(Sizes(R), S, pick, iter)
  <2>1. ASSUME NEW s \in SUBSET S, s # {}, iter[s \ {pick[s]}] \in Nat
        PROVE  iter[s] = Sizes(R)[pick[s]] + iter[s \ {pick[s]}]
    <3>1. PICK x : x = Max(s)
      OBVIOUS
    <3>2. pick[s] = x /\ Sizes(R)[x] \in Nat /\ Sizes(R)[x] = Len(R[x].mfs)
      BY <1>6, <1>7, <1>9, <2>1, <3>1
    <3>3. iter[s] = iter[s \ {x}] + Len(R[x].mfs)
      BY <1>11, <2>1, <3>1
    <3>. QED  BY <2>1, <3>2, <3>3
  <2>2. iter[{}] = 0
    BY <1>11
  <2>. QED  BY <2>1, <2>2 DEF SumsUp
<1>13. iter[S] = Cardinality(Units(Sizes(R), S))
  BY <1>3, <1>4, <1>5, <1>12, SumRecursion
<1>. QED
  BY <1>1, <1>3, <1>4, <1>13 DEF S

-----------------------------------------------------------------------------
(***************************************************************************)
(* Every microflow is in one flow.  Accounted says so of what was read, rd,*)
(* a table tb and the flow records R that have left it; a step of the      *)
(* reader adds a microflow to a flow, moves a flow from the table to the   *)
(* records, or does the one and then the other.                            *)
(***************************************************************************)
IsFlow(rd, k, mfs) ==
    /\ \A j \in DOMAIN mfs : /\ mfs[j] \in 1 .. Len(rd)
                             /\ rd[mfs[j]].key = k
                             /\ rd[mfs[j]].fin => j = Len(mfs)
    /\ \A j, l \in DOMAIN mfs : j < l => mfs[j] < mfs[l]

TableSize(tb) == Cardinality(Units([k \in DOMAIN tb |-> Len(tb[k])], DOMAIN tb))
RecordsSize(R) == Cardinality(Units(Sizes(R), DOMAIN R))

\* Microflow n is in a flow of the table, or in a record.
InTable(tb, n) == \E k \in DOMAIN tb : \E j \in DOMAIN tb[k] : tb[k][j] = n
InRecords(R, n) == \E x \in DOMAIN R : \E j \in DOMAIN R[x].mfs : R[x].mfs[j] = n

Tables == UNION {[K -> Seq(Nat)] : K \in SUBSET {m.key : m \in Microflows}}

Accounted(rd, tb, R) ==
    /\ \A k \in DOMAIN tb : IsFlow(rd, k, tb[k])
    /\ \A x \in DOMAIN R : IsFlow(rd, R[x].key, R[x].mfs)
    /\ \A n \in 1 .. Len(rd) : InTable(tb, n) \/ InRecords(R, n)
    /\ TableSize(tb) + RecordsSize(R) = Len(rd)

\* No flow of the table has ended.
Open(rd, tb) == \A k \in DOMAIN tb : \A j \in DOMAIN tb[k] : ~rd[tb[k][j]].fin

\* A sum is a summand and the rest.
LEMMA UnitsSplit ==
    ASSUME NEW S, IsFiniteSet(S), NEW x \in S, NEW f \in [S -> Nat],
           NEW g, \A y \in S \ {x} : g[y] = f[y]
    PROVE  /\ Cardinality(Units(f, S)) = f[x] + Cardinality(Units(g, S \ {x}))
           /\ Cardinality(Units(g, S \ {x})) \in Nat
<1>1. IsFiniteSet(Units(f, S \ {x}))
  BY UnitsAreFinite
<1>2. Units(g, S \ {x}) = Units(f, S \ {x})
  BY DEF Units
<1>3. f[x] \in Nat
  OBVIOUS
<1>. QED
  BY <1>1, <1>2, <1>3, UnitsOfOneMore, FS_CardinalityType

LEMMA SizeOfTable ==
    ASSUME NEW tb, NEW k \in DOMAIN tb, tb \in [DOMAIN tb -> Seq(Nat)], IsFiniteSet(DOMAIN tb)
    PROVE  /\ TableSize(tb) = Len(tb[k]) + TableSize(Forget(tb, k))
           /\ TableSize(Forget(tb, k)) \in Nat
<1>. DEFINE f == [x \in DOMAIN tb |-> Len(tb[x])]
            g == [x \in DOMAIN tb \ {k} |-> Len(tb[x])]
<1>1. f \in [DOMAIN tb -> Nat] /\ \A x \in DOMAIN tb \ {k} : g[x] = f[x]
  OBVIOUS
<1>2. TableSize(tb) = Cardinality(Units(f, DOMAIN tb)) /\ f[k] = Len(tb[k])
  BY DEF TableSize
<1>3. TableSize(Forget(tb, k)) = Cardinality(Units(g, DOMAIN tb \ {k}))
  <2>1. DOMAIN Forget(tb, k) = DOMAIN tb \ {k}
    BY DEF Forget
  <2>2. [x \in DOMAIN Forget(tb, k) |-> Len(Forget(tb, k)[x])] = g
    BY DEF Forget
  <2>. HIDE DEF g
  <2>. QED  BY <2>1, <2>2 DEF TableSize
<1>. HIDE DEF f, g
<1>. QED
  BY <1>1, <1>2, <1>3, UnitsSplit

LEMMA SizeOfRecords ==
    ASSUME NEW R \in Seq(Recs), NEW r \in Recs
    PROVE  /\ RecordsSize(Append(R, r)) = RecordsSize(R) + Len(r.mfs)
           /\ RecordsSize(R) \in Nat /\ Len(r.mfs) \in Nat
<1>. DEFINE P == Append(R, r)
<1>1. PICK n \in Nat : n = Len(R) + 1
  BY LenProperties
<1>2. /\ P \in Seq(Recs) /\ n \in DOMAIN P /\ P[n] = r /\ DOMAIN P \ {n} = DOMAIN R
      /\ \A x \in DOMAIN R : P[x] = R[x]
  <2>. HIDE DEF Recs
  <2>1. PICK l \in Nat : l = Len(R) /\ n = l + 1
    BY <1>1, LenProperties
  <2>2. DOMAIN R = 1 .. l
    BY <2>1, LenProperties
  <2>3. P \in Seq(Recs) /\ Len(P) = n /\ P[n] = r /\ \A x \in 1 .. l : P[x] = R[x]
    BY <2>1, AppendProperties
  <2>4. DOMAIN P = 1 .. n
    BY <2>3, LenProperties
  <2>5. n \in 1 .. n /\ (1 .. n) \ {n} = 1 .. l
    BY <2>1
  <2>. QED  BY <2>2, <2>3, <2>4, <2>5
<1>. HIDE DEF P
<1>3. IsFiniteSet(DOMAIN P) /\ Sizes(P) \in [DOMAIN P -> Nat] /\ Sizes(P)[n] = Len(r.mfs)
  BY <1>2, SizesAddUp DEF Sizes
<1>4. \A x \in DOMAIN P \ {n} : Sizes(R)[x] = Sizes(P)[x]
  BY <1>2 DEF Sizes
<1>5. /\ Cardinality(Units(Sizes(P), DOMAIN P)) = Sizes(P)[n] + Cardinality(Units(Sizes(R), DOMAIN P \ {n}))
      /\ Cardinality(Units(Sizes(R), DOMAIN P \ {n})) \in Nat
  BY <1>2, <1>3, <1>4, UnitsSplit
<1>6. Len(r.mfs) \in Nat
  BY DEF Recs
<1>. QED
  BY <1>2, <1>3, <1>5, <1>6 DEF RecordsSize, P

\* A microflow is read: its flow grows by it.
LEMMA FlowGrows ==
    ASSUME NEW rd \in Seq(Microflows), NEW m \in Microflows, NEW before \in Seq(Nat),
           IsFlow(rd, m.key, before), \A j \in DOMAIN before : ~rd[before[j]].fin
    PROVE  /\ IsFlow(Append(rd, m), m.key, Append(before, Len(rd) + 1))
           /\ \A k, mfs : IsFlow(rd, k, mfs) => IsFlow(Append(rd, m), k, mfs)
<1>1. PICK n \in Nat : n = Len(rd)
  BY LenProperties
<1>2. PICK l \in Nat : l = Len(before)
  BY LenProperties
<1>3. PICK rd2 \in Seq(Microflows) : rd2 = Append(rd, m)
  BY AppendProperties
<1>4. Len(rd2) = n + 1 /\ rd2[n + 1] = m /\ \A j \in 1 .. n : rd2[j] = rd[j]
  BY <1>1, <1>3, AppendProperties
<1>5. PICK mfs \in Seq(Nat) : mfs = Append(before, n + 1)
  <2>1. n + 1 \in Nat
    OBVIOUS
  <2>2. Append(before, n + 1) \in Seq(Nat)
    BY <2>1, AppendProperties
  <2>. QED  BY <2>2
<1>6. /\ Len(mfs) = l + 1 /\ mfs[l + 1] = n + 1 /\ DOMAIN mfs = 1 .. l + 1
      /\ \A j \in 1 .. l : mfs[j] = before[j]
  BY <1>1, <1>2, <1>5, AppendProperties, LenProperties
<1>7. DOMAIN before = 1 .. l /\ \A j \in 1 .. l : before[j] \in 1 .. n
  BY <1>1, <1>2, LenProperties DEF IsFlow
<1>8. \A k, fl : IsFlow(rd, k, fl) => IsFlow(rd2, k, fl)
  BY <1>1, <1>4 DEF IsFlow
<1>9. ASSUME NEW j \in DOMAIN mfs
      PROVE  mfs[j] \in 1 .. Len(rd2) /\ rd2[mfs[j]].key = m.key /\ (rd2[mfs[j]].fin => j = Len(mfs))
  <2>1. CASE j = l + 1
    BY <1>4, <1>6, <2>1
  <2>2. CASE j \in 1 .. l
    <3>1. mfs[j] = before[j] /\ rd2[mfs[j]] = rd[before[j]] /\ before[j] \in 1 .. n
      BY <1>4, <1>6, <1>7, <2>2
    <3>2. rd[before[j]].key = m.key /\ ~rd[before[j]].fin
      BY <1>7, <2>2 DEF IsFlow
    <3>. QED  BY <1>4, <3>1, <3>2
  <2>. QED  BY <1>6, <2>1, <2>2
<1>10. ASSUME NEW i1 \in DOMAIN mfs, NEW i2 \in DOMAIN mfs, i1 < i2
       PROVE  mfs[i1] < mfs[i2]
  <2>1. i1 \in 1 .. l /\ (i2 = l + 1 \/ i2 \in 1 .. l)
    BY <1>6, <1>10
  <2>2. CASE i2 = l + 1
    <3>1. mfs[i1] \in 1 .. n /\ mfs[i2] = n + 1
      BY <1>6, <1>7, <2>1, <2>2
    <3>. QED  BY <3>1
  <2>3. CASE i2 \in 1 .. l
    <3>1. before[i1] < before[i2]
      BY <1>7, <1>10, <2>1, <2>3 DEF IsFlow
    <3>. QED  BY <1>6, <2>1, <2>3, <3>1
  <2>. QED  BY <2>1, <2>2, <2>3
<1>11. IsFlow(rd2, m.key, mfs)
  BY <1>9, <1>10 DEF IsFlow
<1>. QED
  BY <1>1, <1>3, <1>5, <1>8, <1>11

LEMMA ReadAccounted ==
    ASSUME NEW rd \in Seq(Microflows), NEW m \in Microflows, NEW R,
           NEW tb, tb \in [DOMAIN tb -> Seq(Nat)], IsFiniteSet(DOMAIN tb),
           Accounted(rd, tb, R), Open(rd, tb), RecordsSize(R) \in Nat,
           NEW before, before = IF m.key \in DOMAIN tb THEN tb[m.key] ELSE <<>>,
           NEW mfs, mfs = Append(before, Len(rd) + 1)
    PROVE  Accounted(Append(rd, m), Aggregate(tb, m.key, mfs), R)
<1>1. PICK n \in Nat : n = Len(rd)
  BY LenProperties
<1>2. PICK rd2 \in Seq(Microflows) : rd2 = Append(rd, m) /\ Len(rd2) = n + 1
  BY <1>1, AppendProperties
<1>3. before \in Seq(Nat)
  BY EmptySeq
<1>4. IsFlow(rd, m.key, before) /\ \A j \in DOMAIN before : ~rd[before[j]].fin
  <2>1. CASE m.key \in DOMAIN tb
    BY <2>1 DEF Accounted, Open
  <2>2. CASE m.key \notin DOMAIN tb
    BY <2>2 DEF IsFlow
  <2>. QED  BY <2>1, <2>2
<1>5. /\ IsFlow(rd2, m.key, mfs)
      /\ \A k, fl : IsFlow(rd, k, fl) => IsFlow(rd2, k, fl)
  BY <1>2, <1>3, <1>4, FlowGrows
<1>6. PICK l \in Nat : l = Len(before)
  BY <1>3, LenProperties
<1>7. /\ mfs \in Seq(Nat) /\ Len(mfs) = l + 1 /\ DOMAIN mfs = 1 .. l + 1 /\ mfs[l + 1] = n + 1
      /\ DOMAIN before = 1 .. l /\ \A j \in 1 .. l : mfs[j] = before[j]
  <2>1. Len(rd) + 1 \in Nat
    BY <1>1
  <2>. QED  BY <1>1, <1>3, <1>6, <2>1, AppendProperties, LenProperties
<1>. DEFINE tb2 == Aggregate(tb, m.key, mfs)
<1>8. /\ DOMAIN tb2 = DOMAIN tb \cup {m.key} /\ tb2[m.key] = mfs
      /\ \A k \in DOMAIN tb \ {m.key} : tb2[k] = tb[k]
      /\ tb2 \in [DOMAIN tb2 -> Seq(Nat)] /\ IsFiniteSet(DOMAIN tb2)
  <2>1. /\ DOMAIN tb2 = DOMAIN tb \cup {m.key} /\ tb2[m.key] = mfs
        /\ \A k \in DOMAIN tb \ {m.key} : tb2[k] = tb[k]
        /\ tb2 \in [DOMAIN tb2 -> Seq(Nat)]
    BY <1>7 DEF Aggregate
  <2>. HIDE DEF tb2
  <2>2. IsFiniteSet(DOMAIN tb \cup {m.key})
    BY FS_AddElement
  <2>. QED  BY <2>1, <2>2
<1>9. Forget(tb2, m.key) = Forget(tb, m.key)
  <2>. HIDE DEF tb2
  <2>. QED  BY <1>8 DEF Forget
<1>. HIDE DEF tb2
<1>10. \A k \in DOMAIN tb2 : IsFlow(rd2, k, tb2[k])
  BY <1>5, <1>8 DEF Accounted
<1>11. \A x \in DOMAIN R : IsFlow(rd2, R[x].key, R[x].mfs)
  BY <1>5 DEF Accounted
<1>12. ASSUME NEW q \in 1 .. Len(rd2)
       PROVE  InTable(tb2, q) \/ InRecords(R, q)
  <2>1. CASE q = n + 1
    <3>1. m.key \in DOMAIN tb2 /\ l + 1 \in DOMAIN tb2[m.key] /\ tb2[m.key][l + 1] = q
      BY <1>7, <1>8, <2>1
    <3>. QED  BY <3>1 DEF InTable
  <2>2. CASE q \in 1 .. Len(rd) /\ InTable(tb, q)
    <3>1. PICK k \in DOMAIN tb : \E j \in DOMAIN tb[k] : tb[k][j] = q
      BY <2>2 DEF InTable
    <3>2. PICK j \in DOMAIN tb[k] : tb[k][j] = q
      BY <3>1
    <3>3. CASE k = m.key
      <4>1. j \in 1 .. l /\ before[j] = q
        BY <1>7, <3>2, <3>3
      <4>2. k \in DOMAIN tb2 /\ j \in DOMAIN tb2[k] /\ tb2[k][j] = q
        <5>1. DOMAIN tb2[k] = 1 .. l + 1 /\ tb2[k] = mfs /\ k \in DOMAIN tb2
          BY <1>7, <1>8, <3>3
        <5>2. j \in 1 .. l + 1 /\ mfs[j] = q
          BY <1>7, <4>1
        <5>. QED  BY <5>1, <5>2
      <4>. QED  BY <4>2 DEF InTable
    <3>4. CASE k # m.key
      <4>1. k \in DOMAIN tb2 /\ tb2[k] = tb[k]
        BY <1>8, <3>4
      <4>. QED  BY <3>2, <4>1 DEF InTable
    <3>. QED  BY <3>3, <3>4
  <2>3. q = n + 1 \/ q \in 1 .. Len(rd)
    BY <1>1, <1>2
  <2>4. q \in 1 .. Len(rd) => InTable(tb, q) \/ InRecords(R, q)
    BY DEF Accounted
  <2>. QED  BY <2>1, <2>2, <2>3, <2>4
<1>13. TableSize(tb2) = TableSize(tb) + 1 /\ TableSize(tb) \in Nat
  <2>1. /\ TableSize(tb2) = Len(mfs) + TableSize(Forget(tb, m.key))
        /\ TableSize(Forget(tb, m.key)) \in Nat
    <3>1. m.key \in DOMAIN tb2 /\ tb2 \in [DOMAIN tb2 -> Seq(Nat)] /\ IsFiniteSet(DOMAIN tb2)
      BY <1>8
    <3>2. /\ TableSize(tb2) = Len(tb2[m.key]) + TableSize(Forget(tb2, m.key))
          /\ TableSize(Forget(tb2, m.key)) \in Nat
      BY <3>1, SizeOfTable
    <3>. QED  BY <1>8, <1>9, <3>2
  <2>2. TableSize(tb) = l + TableSize(Forget(tb, m.key))
    <3>1. CASE m.key \in DOMAIN tb
      BY <1>6, <3>1, SizeOfTable
    <3>2. CASE m.key \notin DOMAIN tb
      <4>1. Forget(tb, m.key) = tb
        BY <3>2 DEF Forget
      <4>2. l = 0
        BY <1>6, <3>2
      <4>. QED  BY <2>1, <4>1, <4>2
    <3>. QED  BY <3>1, <3>2
  <2>. QED  BY <1>7, <2>1, <2>2
<1>14. TableSize(tb2) + RecordsSize(R) = Len(rd2)
  <2>1. TableSize(tb) + RecordsSize(R) = n
    BY <1>1 DEF Accounted
  <2>. QED  BY <1>2, <1>13, <2>1
<1>15. Accounted(rd2, tb2, R)
  BY <1>10, <1>11, <1>12, <1>14 DEF Accounted
<1>. QED
  BY <1>2, <1>15 DEF tb2

\* A flow leaves the table for the records.
LEMMA MoveAccounted ==
    ASSUME NEW rd \in Seq(Microflows), NEW R \in Seq(Recs),
           NEW tb, tb \in [DOMAIN tb -> Seq(Nat)], IsFiniteSet(DOMAIN tb),
           Accounted(rd, tb, R), NEW k \in DOMAIN tb,
           NEW r \in Recs, r.key = k, r.mfs = tb[k]
    PROVE  Accounted(rd, Forget(tb, k), Append(R, r))
<1>. DEFINE tb2 == Forget(tb, k)
            R2 == Append(R, r)
<1>1. DOMAIN tb2 = DOMAIN tb \ {k} /\ \A x \in DOMAIN tb2 : tb2[x] = tb[x]
  BY DEF Forget
<1>2. PICK l \in Nat : l = Len(R) /\ DOMAIN R = 1 .. l
  BY LenProperties
<1>3. DOMAIN R2 = 1 .. l + 1 /\ R2[l + 1] = r /\ \A x \in 1 .. l : R2[x] = R[x]
  <2>. HIDE DEF Recs
  <2>1. R2 \in Seq(Recs) /\ Len(R2) = l + 1
    BY <1>2, AppendProperties
  <2>2. R2[l + 1] = r /\ \A x \in 1 .. l : R2[x] = R[x]
    BY <1>2, AppendProperties
  <2>. HIDE DEF R2
  <2>. QED  BY <2>1, <2>2, LenProperties
<1>4. /\ RecordsSize(R2) = RecordsSize(R) + Len(r.mfs)
      /\ RecordsSize(R) \in Nat /\ Len(r.mfs) \in Nat
  BY SizeOfRecords
<1>5. TableSize(tb) = Len(tb[k]) + TableSize(tb2) /\ TableSize(tb2) \in Nat
  BY SizeOfTable
<1>. HIDE DEF tb2, R2
<1>6. \A x \in DOMAIN tb2 : IsFlow(rd, x, tb2[x])
  BY <1>1 DEF Accounted
<1>7. ASSUME NEW x \in DOMAIN R2
      PROVE  IsFlow(rd, R2[x].key, R2[x].mfs)
  <2>1. CASE x = l + 1
    BY <1>3, <2>1 DEF Accounted
  <2>2. CASE x \in 1 .. l
    BY <1>2, <1>3, <2>2 DEF Accounted
  <2>. QED  BY <1>3, <2>1, <2>2
<1>8. ASSUME NEW q \in 1 .. Len(rd)
      PROVE  InTable(tb2, q) \/ InRecords(R2, q)
  <2>1. InTable(tb, q) \/ InRecords(R, q)
    BY DEF Accounted
  <2>2. CASE InRecords(R, q)
    <3>1. PICK x \in DOMAIN R : \E j \in DOMAIN R[x].mfs : R[x].mfs[j] = q
      BY <2>2 DEF InRecords
    <3>2. x \in DOMAIN R2 /\ R2[x] = R[x]
      BY <1>2, <1>3
    <3>. QED  BY <3>1, <3>2 DEF InRecords
  <2>3. CASE InTable(tb, q)
    <3>1. PICK y \in DOMAIN tb : \E j \in DOMAIN tb[y] : tb[y][j] = q
      BY <2>3 DEF InTable
    <3>2. CASE y = k
      <4>1. l + 1 \in DOMAIN R2 /\ R2[l + 1].mfs = tb[y]
        BY <1>3, <3>2
      <4>. QED  BY <3>1, <4>1 DEF InRecords
    <3>3. CASE y # k
      BY <1>1, <3>1, <3>3 DEF InTable
    <3>. QED  BY <3>2, <3>3
  <2>. QED  BY <2>1, <2>2, <2>3
<1>9. TableSize(tb2) + RecordsSize(R2) = Len(rd)
  <2>1. TableSize(tb) + RecordsSize(R) = Len(rd)
    BY DEF Accounted
  <2>. QED  BY <1>4, <1>5, <2>1
<1>10. Accounted(rd, tb2, R2)
  BY <1>6, <1>7, <1>8, <1>9 DEF Accounted
<1>. QED
  BY <1>10 DEF tb2, R2

\* Records as the steps change them.
LEMMA RecordsType ==
    ASSUME ReaderTypes
    PROVE  /\ Records \in Seq(Recs) /\ FlattenSeq(out) \in Seq(Recs)
           /\ taken \in Seq(Recs) /\ batch \in Seq(Recs) /\ out \in Seq(Seq(Recs))
<1>1. taken \in Seq(Recs) /\ batch \in Seq(Recs) /\ out \in Seq(Seq(Recs))
  BY DEF ReaderTypes
<1>. HIDE DEF Recs
<1>2. FlattenSeq(out) \in Seq(Recs)
  BY <1>1, FlattenAppend
<1>3. taken \o FlattenSeq(out) \in Seq(Recs)
  BY <1>1, <1>2, ConcatProperties
<1>4. (taken \o FlattenSeq(out)) \o batch \in Seq(Recs)
  BY <1>1, <1>3, ConcatProperties
<1>. QED
  BY <1>1, <1>2, <1>4 DEF Records

\* Moving the batch onto the stream leaves the records as they are.
LEMMA SentRecords ==
    ASSUME NEW X, NEW t \in Seq(X), NEW o \in Seq(Seq(X)), NEW b \in Seq(X)
    PROVE  t \o FlattenSeq(Append(o, b)) \o <<>> = t \o FlattenSeq(o) \o b
<1>1. FlattenSeq(o) \in Seq(X) /\ FlattenSeq(Append(o, b)) = FlattenSeq(o) \o b
  BY FlattenAppend
<1>2. PICK f \in Seq(X) : f = FlattenSeq(o)
  BY <1>1
<1>3. t \o (f \o b) = (t \o f) \o b
  BY ConcatAssociative
<1>4. (t \o f) \o b \in Seq(X)
  BY ConcatProperties
<1>5. ((t \o f) \o b) \o <<>> = (t \o f) \o b
  BY <1>4, ConcatEmptySeq
<1>. QED
  BY <1>1, <1>2, <1>3, <1>5

LEMMA EmplaceRecords ==
    ASSUME ReaderTypes, NEW flow \in Recs, NEW limit, EmplaceBack(flow, limit), taken' = taken
    PROVE  Records' = Append(Records, flow)
<1>. DEFINE b == Append(batch, flow)
<1>0. \A t \in Seq(Recs), o \in Seq(Seq(Recs)), c \in Seq(Recs) :
         t \o FlattenSeq(Append(o, c)) \o <<>> = t \o FlattenSeq(o) \o c
  BY SentRecords
<1>1. /\ taken \in Seq(Recs) /\ batch \in Seq(Recs) /\ out \in Seq(Seq(Recs))
      /\ FlattenSeq(out) \in Seq(Recs)
  BY RecordsType
<1>. HIDE DEF Recs
<1>2. b \in Seq(Recs)
  BY <1>1, AppendProperties
<1>3. (taken \o FlattenSeq(out)) \o b = Append((taken \o FlattenSeq(out)) \o batch, flow)
  <2>1. PICK s \in Seq(Recs) : s = taken \o FlattenSeq(out)
    BY <1>1, ConcatProperties
  <2>2. PICK c \in Seq(Recs) : c = batch
    BY <1>1
  <2>3. s \o Append(c, flow) = Append(s \o c, flow)
    OBVIOUS
  <2>. QED  BY <2>1, <2>2, <2>3
<1>4. Records' = (taken \o FlattenSeq(out)) \o b
  <2>1. CASE BatchFull(b, limit)
    <3>1. out' = Append(out, b) /\ batch' = <<>>
      BY <2>1 DEF EmplaceBack
    <3>. HIDE DEF b
    <3>2. Records' = taken \o FlattenSeq(Append(out, b)) \o <<>>
      BY <3>1 DEF Records
    <3>3. taken \o FlattenSeq(Append(out, b)) \o <<>> = taken \o FlattenSeq(out) \o b
      BY <1>0, <1>1, <1>2, Zenon
    <3>. QED  BY <3>2, <3>3, Zenon
  <2>2. CASE ~BatchFull(b, limit)
    <3>1. out' = out /\ batch' = b
      BY <2>2 DEF EmplaceBack
    <3>. QED  BY <3>1 DEF Records
  <2>. QED  BY <2>1, <2>2
<1>. QED
  BY <1>3, <1>4 DEF Records

LEMMA RecycleRecords ==
    ASSUME ReaderTypes, out # <<>>, Recycle
    PROVE  Records' = Records
<1>0. \A a, b, c \in Seq(Recs) : (a \o b) \o c = a \o (b \o c)
  BY ConcatAssociative
<1>1. /\ taken \in Seq(Recs) /\ out \in Seq(Seq(Recs)) /\ FlattenSeq(out) \in Seq(Recs)
  BY RecordsType
<1>. HIDE DEF Recs
<1>2. Head(out) \in Seq(Recs) /\ Tail(out) \in Seq(Seq(Recs))
  BY <1>1, HeadTailProperties
<1>3. FlattenSeq(Tail(out)) \in Seq(Recs)
  BY <1>2, FlattenAppend
<1>4. FlattenSeq(out) = Head(out) \o FlattenSeq(Tail(out))
  BY <1>1, FlattenHead
<1>5. PICK t, h, f \in Seq(Recs) : t = taken /\ h = Head(out) /\ f = FlattenSeq(Tail(out))
  BY <1>1, <1>2, <1>3
<1>6. (t \o h) \o f = t \o (h \o f)
  BY <1>0, <1>5, Zenon
<1>7. taken' = t \o h /\ out' = Tail(out) /\ batch' = batch
  BY <1>5 DEF Recycle
<1>8. Records' = ((t \o h) \o f) \o batch
  BY <1>5, <1>7 DEF Records
<1>9. Records = (t \o (h \o f)) \o batch
  BY <1>4, <1>5 DEF Records
<1>. QED
  BY <1>6, <1>8, <1>9

AccountInv ==
    /\ ReaderTypes /\ program \in Programs
    /\ Accounted(read, table, Records)
    /\ Open(read, table)
    /\ rpc = "replay" => DOMAIN table = {}

LEMMA OpenRead ==
    ASSUME NEW rd \in Seq(Microflows), NEW m \in Microflows, ~m.fin,
           NEW tb, Open(rd, tb), NEW before \in Seq(Nat),
           \A j \in DOMAIN before : ~rd[before[j]].fin /\ before[j] \in 1 .. Len(rd),
           \A k \in DOMAIN tb : \A j \in DOMAIN tb[k] : tb[k][j] \in 1 .. Len(rd)
    PROVE  Open(Append(rd, m), Aggregate(tb, m.key, Append(before, Len(rd) + 1)))
<1>1. PICK n \in Nat : n = Len(rd)
  BY LenProperties
<1>2. PICK rd2 : rd2 = Append(rd, m) /\ rd2[n + 1] = m /\ \A j \in 1 .. n : rd2[j] = rd[j]
  <2>1. Append(rd, m)[n + 1] = m /\ \A j \in 1 .. n : Append(rd, m)[j] = rd[j]
    BY <1>1, AppendProperties
  <2>. QED  BY <2>1
<1>3. PICK l \in Nat : l = Len(before) /\ DOMAIN before = 1 .. l
  BY LenProperties
<1>4. PICK mfs \in Seq(Nat) : mfs = Append(before, n + 1)
  <2>1. n + 1 \in Nat
    OBVIOUS
  <2>2. Append(before, n + 1) \in Seq(Nat)
    BY <2>1, AppendProperties
  <2>. QED  BY <2>2
<1>5. /\ Len(mfs) = l + 1 /\ mfs[l + 1] = n + 1 /\ DOMAIN mfs = 1 .. l + 1
       /\ \A j \in 1 .. l : mfs[j] = before[j]
  BY <1>1, <1>3, <1>4, AppendProperties, LenProperties
<1>6. ASSUME NEW j \in DOMAIN mfs
      PROVE  ~rd2[mfs[j]].fin
  <2>1. CASE j = l + 1
    BY <1>2, <1>5, <2>1
  <2>2. CASE j \in 1 .. l
    BY <1>1, <1>2, <1>3, <1>5, <2>2
  <2>. QED  BY <1>5, <2>1, <2>2
<1>7. \A k \in DOMAIN tb : \A j \in DOMAIN tb[k] : ~rd2[tb[k][j]].fin
  BY <1>1, <1>2 DEF Open
<1>8. Open(rd2, Aggregate(tb, m.key, mfs))
  BY <1>6, <1>7 DEF Open, Aggregate
<1>. QED
  BY <1>1, <1>2, <1>4, <1>8

LEMMA AccountRead ==
    ASSUME AccountInv, NEW m \in Microflows, ReadMicroflow(m)
    PROVE  Accounted(read, table, Records)' /\ Open(read, table)'
<1>. DEFINE before == IF m.key \in DOMAIN table THEN table[m.key] ELSE <<>>
            mfs == Append(before, Len(read) + 1)
            flow == [key |-> m.key, mfs |-> mfs]
            agg == Aggregate(table, m.key, mfs)
<1>1. /\ ReaderTypes /\ read \in Seq(Microflows) /\ IsFiniteSet(DOMAIN table)
      /\ table \in [DOMAIN table -> Seq(Nat)]
      /\ \A k \in DOMAIN table : \A j \in DOMAIN table[k] : table[k][j] \in 1 .. Len(read)
      /\ Accounted(read, table, Records) /\ Open(read, table)
  BY DEF AccountInv, ReaderTypes
<1>2. before \in Seq(Nat) /\ \A j \in DOMAIN before : ~read[before[j]].fin
                                                      /\ before[j] \in 1 .. Len(read)
  BY <1>1 DEF Open
<1>. HIDE DEF before
<1>3. mfs \in Seq(Nat)
  <2>1. Len(read) + 1 \in Nat
    BY <1>1
  <2>. QED  BY <1>2, <2>1, AppendProperties
<1>4. flow \in Recs
  <2>. HIDE DEF mfs
  <2>. QED  BY <1>3 DEF Recs
<1>5. Records \in Seq(Recs) /\ RecordsSize(Records) \in Nat
  <2>1. Records \in Seq(Recs)
    BY <1>1, RecordsType
  <2>. HIDE DEF flow
  <2>. QED  BY <1>4, <2>1, SizeOfRecords
<1>6. Accounted(Append(read, m), agg, Records)
  <2>. HIDE DEF mfs
  <2>1. mfs = Append(before, Len(read) + 1)
    BY DEF mfs
  <2>2. before = IF m.key \in DOMAIN table THEN table[m.key] ELSE <<>>
    BY DEF before
  <2>. QED  BY <1>1, <1>5, <2>1, <2>2, ReadAccounted
<1>7. read' = Append(read, m) /\ taken' = taken /\ table' = Aggregated(m, mfs)
  BY DEF ReadMicroflow, before
<1>8. CASE m.fin
  <2>1. EmplaceBack(flow, BatchSize)
    BY <1>8 DEF ReadMicroflow, before
  <2>. HIDE DEF flow
  <2>2. Records' = Append(Records, flow)
    BY <1>1, <1>4, <1>7, <2>1, EmplaceRecords
  <2>. HIDE DEF mfs
  <2>3. /\ m.key \in DOMAIN agg /\ agg[m.key] = mfs
        /\ agg \in [DOMAIN agg -> Seq(Nat)]
        /\ DOMAIN agg = DOMAIN table \cup {m.key}
    BY <1>1, <1>3 DEF Aggregate
  <2>4. Forget(agg, m.key) = Forget(table, m.key)
    BY DEF Aggregate, Forget
  <2>5. IsFiniteSet(DOMAIN agg)
    <3>1. IsFiniteSet(DOMAIN table \cup {m.key})
      BY <1>1, FS_AddElement
    <3>. QED  BY <2>3, <3>1
  <2>6. Append(read, m) \in Seq(Microflows)
    BY <1>1, AppendProperties
  <2>7. flow.key = m.key /\ flow.mfs = agg[m.key]
    BY <2>3 DEF flow
  <2>. HIDE DEF agg
  <2>8. Accounted(Append(read, m), Forget(agg, m.key), Append(Records, flow))
    BY <1>4, <1>5, <1>6, <2>3, <2>5, <2>6, <2>7, MoveAccounted
  <2>9. table' = Forget(table, m.key)
    BY <1>7, <1>8 DEF Aggregated
  <2>10. Open(read', table')
    <3>1. \A q \in 1 .. Len(read) : Append(read, m)[q] = read[q]
      BY <1>1, AppendProperties
    <3>. QED  BY <1>1, <1>7, <2>9, <3>1 DEF Open, Forget
  <2>. QED  BY <1>7, <2>2, <2>4, <2>8, <2>9, <2>10
<1>9. CASE ~m.fin
  <2>1. Records' = Records
    BY <1>9 DEF ReadMicroflow, Records
  <2>2. table' = agg
    BY <1>7, <1>9 DEF Aggregated
  <2>3. Open(Append(read, m), agg)
    BY <1>1, <1>2, <1>9, OpenRead
  <2>. HIDE DEF agg
  <2>. QED  BY <1>6, <1>7, <2>1, <2>2, <2>3
<1>. QED
  BY <1>8, <1>9

LEMMA AccountTimeout ==
    ASSUME AccountInv, NEW k \in todo, TimeoutFlow(k)
    PROVE  Accounted(read, table, Records)' /\ Open(read, table)'
<1>1. /\ ReaderTypes /\ read \in Seq(Microflows) /\ IsFiniteSet(DOMAIN table)
      /\ table \in [DOMAIN table -> Seq(Nat)] /\ k \in DOMAIN table
      /\ Accounted(read, table, Records) /\ Open(read, table)
  BY DEF AccountInv, ReaderTypes
<1>2. read' = read /\ taken' = taken
  BY DEF TimeoutFlow
<1>3. CASE IsIdle(k)
  <2>. DEFINE flow == [key |-> k, mfs |-> table[k]]
  <2>1. EmplaceBack(flow, BatchSize) /\ table' = Forget(table, k)
    BY <1>3 DEF TimeoutFlow
  <2>2. flow \in Recs /\ flow.key = k /\ flow.mfs = table[k]
    BY <1>1 DEF Recs, ReaderTypes
  <2>. HIDE DEF flow
  <2>3. Records' = Append(Records, flow)
    BY <1>1, <1>2, <2>1, <2>2, EmplaceRecords
  <2>4. Records \in Seq(Recs)
    BY <1>1, RecordsType
  <2>5. Accounted(read, Forget(table, k), Append(Records, flow))
    BY <1>1, <2>2, <2>4, MoveAccounted
  <2>6. Open(read, Forget(table, k))
    BY <1>1 DEF Open, Forget
  <2>. QED  BY <1>2, <2>1, <2>3, <2>5, <2>6
<1>4. CASE ~IsIdle(k)
  <2>1. table' = table /\ Records' = Records
    BY <1>4 DEF TimeoutFlow, Records
  <2>. QED  BY <1>1, <1>2, <2>1
<1>. QED
  BY <1>3, <1>4

\* A record that is replayed is read into an empty table and leaves it at once.
LEMMA AccountReplay ==
    ASSUME AccountInv, NEW m \in Microflows, ReplayClfr(m)
    PROVE  Accounted(read, table, Records)' /\ Open(read, table)'
<1>. DEFINE mfs == Append(<<>>, Len(read) + 1)
            flow == [key |-> m.key, mfs |-> mfs]
            agg == Aggregate(table, m.key, mfs)
<1>1. /\ ReaderTypes /\ read \in Seq(Microflows) /\ IsFiniteSet(DOMAIN table)
      /\ table \in [DOMAIN table -> Seq(Nat)]
      /\ Accounted(read, table, Records) /\ Open(read, table)
  BY DEF AccountInv, ReaderTypes
<1>2. /\ DOMAIN table = {} /\ read' = Append(read, m) /\ taken' = taken /\ table' = table
  BY DEF AccountInv, ReplayClfr, mf_vars
<1>3. Len(read) + 1 \in Nat
  BY <1>1
<1>4. EmplaceBack([key |-> m.key, mfs |-> <<Len(read) + 1>>], ReplayBatch)
  BY DEF ReplayClfr
<1>5. mfs \in Seq(Nat) /\ mfs = <<Len(read) + 1>>
  BY <1>3
<1>6. flow \in Recs /\ EmplaceBack(flow, ReplayBatch)
  <2>. HIDE DEF mfs
  <2>. QED  BY <1>4, <1>5 DEF Recs
<1>7. /\ m.key \in DOMAIN agg /\ agg[m.key] = mfs /\ DOMAIN agg = {m.key}
      /\ agg \in [DOMAIN agg -> Seq(Nat)] /\ Forget(agg, m.key) = table
      /\ flow.key = m.key /\ flow.mfs = mfs
  <2>. HIDE DEF mfs
  <2>. QED  BY <1>1, <1>2, <1>5 DEF Aggregate, Forget
<1>. HIDE DEF flow
<1>8. Records' = Append(Records, flow) /\ Records \in Seq(Recs) /\ RecordsSize(Records) \in Nat
  BY <1>1, <1>2, <1>6, EmplaceRecords, RecordsType, SizeOfRecords
<1>9. IsFiniteSet(DOMAIN agg) /\ Append(read, m) \in Seq(Microflows)
  <2>1. IsFiniteSet({m.key})
    BY FS_Singleton
  <2>2. IsFiniteSet(DOMAIN agg)
    BY <1>7, <2>1
  <2>. QED  BY <1>1, <2>2, AppendProperties
<1>10. Accounted(Append(read, m), agg, Records)
  <2>1. <<>> = IF m.key \in DOMAIN table THEN table[m.key] ELSE <<>>
    BY <1>2
  <2>2. PICK before : before = <<>>
    OBVIOUS
  <2>3. mfs = Append(before, Len(read) + 1)
    BY <2>2
  <2>. HIDE DEF mfs
  <2>. QED  BY <1>1, <1>8, <2>1, <2>2, <2>3, ReadAccounted
<1>. HIDE DEF agg, mfs
<1>11. Accounted(Append(read, m), Forget(agg, m.key), Append(Records, flow))
  BY <1>6, <1>7, <1>8, <1>9, <1>10, MoveAccounted
<1>12. Open(read', table')
  BY <1>2 DEF Open
<1>. QED
  BY <1>2, <1>7, <1>8, <1>11, <1>12

LEMMA AccountNext ==
    ASSUME AccountInv, [ProgramsNext]_programs_vars
    PROVE  AccountInv'
<1>1. program' = program /\ ReaderActions /\ ReaderTypes' /\ ReaderTypes
  BY ReaderSteps, ReaderTypesNext DEF AccountInv
<1>2. ASSUME Accounted(read, table, Records)' /\ Open(read, table)',
             rpc' = "replay" => DOMAIN table' = {}
      PROVE  AccountInv'
  BY <1>1, <1>2 DEF AccountInv
<1>3. ASSUME NEW m \in Microflows, ReadMicroflow(m)
      PROVE  AccountInv'
  <2>1. rpc' # "replay"
    BY <1>3 DEF ReadMicroflow
  <2>. QED  BY <1>2, <1>3, <2>1, AccountRead
<1>4. ASSUME NEW k \in todo, TimeoutFlow(k)
      PROVE  AccountInv'
  <2>1. rpc' # "replay"
    BY <1>4 DEF TimeoutFlow
  <2>. QED  BY <1>2, <1>4, <2>1, AccountTimeout
<1>5. ASSUME NEW m \in Microflows, ReplayClfr(m)
      PROVE  AccountInv'
  <2>1. rpc' = "replay" => DOMAIN table' = {}
    BY <1>5 DEF ReplayClfr, mf_vars, AccountInv
  <2>. QED  BY <1>2, <1>5, <2>1, AccountReplay
<1>6. ASSUME read' = read, table' = table, Records' = Records, rpc' # "replay" \/ rpc' = rpc
      PROVE  AccountInv'
  <2>1. Accounted(read, table, Records)' /\ Open(read, table)'
    BY <1>6 DEF AccountInv
  <2>. QED  BY <1>2, <1>6, <2>1 DEF AccountInv
<1>7. CASE Allocate \/ ReadMicroflowsEnd \/ TimeoutFlowsEnd \/ Benchmark
             \/ UNCHANGED reader_vars
  <2>1. /\ UNCHANGED <<read, table, taken, out, batch>>
        /\ rpc' # "replay" \/ rpc' = rpc
    BY <1>7 DEF Allocate, ReadMicroflowsEnd, TimeoutFlowsEnd, Benchmark, reader_vars, mf_vars
  <2>2. Records' = Records
    BY <2>1 DEF Records
  <2>. QED  BY <1>6, <2>1, <2>2
<1>8. CASE ReplayEnd
  <2>1. /\ UNCHANGED <<read, table, taken>> /\ rpc' # "replay"
        /\ out' = Append(out, batch) /\ batch' = <<>>
    BY <1>8 DEF ReplayEnd, mf_vars
  <2>2. Records' = Records
    <3>1. Records' = taken \o FlattenSeq(Append(out, batch)) \o <<>>
      BY <2>1 DEF Records
    <3>2. \A t \in Seq(Recs), o \in Seq(Seq(Recs)), c \in Seq(Recs) :
             t \o FlattenSeq(Append(o, c)) \o <<>> = t \o FlattenSeq(o) \o c
      BY SentRecords
    <3>3. taken \in Seq(Recs) /\ out \in Seq(Seq(Recs)) /\ batch \in Seq(Recs)
      BY <1>1, RecordsType
    <3>. QED  BY <3>1, <3>2, <3>3, Zenon DEF Records
  <2>. QED  BY <1>6, <2>1, <2>2
<1>9. CASE out # <<>> /\ Recycle
  <2>1. UNCHANGED <<read, table, rpc>>
    BY <1>9 DEF Recycle, mf_vars
  <2>. QED  BY <1>1, <1>6, <1>9, <2>1, RecycleRecords
<1>. QED
  BY <1>1, <1>3, <1>4, <1>5, <1>7, <1>8, <1>9 DEF ReaderActions

LEMMA AccountInit ==
    ASSUME ProgramsInit
    PROVE  AccountInv
<1>1. ReaderTypes /\ program \in Programs
  BY ReaderTypesInit
<1>2. /\ read = <<>> /\ table = [k \in {} |-> <<>>]
      /\ taken = <<>> /\ out = <<>> /\ batch = <<>>
  BY DEF ProgramsInit, ReaderInit
<1>3. Records = <<>>
  <2>1. <<>> \o <<>> = <<>>
    BY EmptySeq
  <2>. QED  BY <1>2, <2>1, FlattenEmpty, Zenon DEF Records
<1>4. DOMAIN table = {} /\ DOMAIN Records = {} /\ Len(read) = 0
  BY <1>2, <1>3
<1>5. TableSize(table) = 0
  <2>1. Units([k \in DOMAIN table |-> Len(table[k])], DOMAIN table) = {}
    BY <1>4 DEF Units
  <2>. QED  BY <2>1, FS_EmptySet DEF TableSize
<1>6. RecordsSize(Records) = 0
  <2>1. Units(Sizes(Records), DOMAIN Records) = {}
    BY <1>4 DEF Units
  <2>. QED  BY <2>1, FS_EmptySet DEF RecordsSize
<1>7. Accounted(read, table, Records)
  BY <1>4, <1>5, <1>6 DEF Accounted
<1>. QED
  BY <1>1, <1>4, <1>7 DEF AccountInv, Open

LEMMA AccountedMicroflows ==
    ASSUME AccountInv
    PROVE  MicroflowsAccounted
<1>. DEFINE tabled == {[key |-> k, mfs |-> table[k]] : k \in DOMAIN table}
            flows == tabled \cup ToSet(Records)
            sizes == [k \in DOMAIN table |-> Len(table[k])]
<1>1. /\ ReaderTypes /\ Accounted(read, table, Records) /\ Open(read, table)
      /\ IsFiniteSet(DOMAIN table) /\ table \in [DOMAIN table -> Seq(Nat)]
      /\ Len(read) \in Nat
  BY DEF AccountInv, ReaderTypes
<1>2. Records \in Seq(Recs)
  BY <1>1, RecordsType
<1>3. \A f \in flows :
          \/ \E k \in DOMAIN table : f.key = k /\ f.mfs = table[k]
          \/ \E x \in DOMAIN Records : f = Records[x]
  BY DEF ToSet
<1>4. \A f \in flows : IsFlow(read, f.key, f.mfs)
  <2>. HIDE DEF flows
  <2>. QED  BY <1>1, <1>3 DEF Accounted
<1>5. \A f \in flows : \A n \in ToSet(f.mfs) : n \in 1 .. Len(read) /\ read[n].key = f.key
  <2>. HIDE DEF flows
  <2>. QED  BY <1>4 DEF IsFlow, ToSet
<1>6. ASSUME NEW n \in 1 .. Len(read)
      PROVE  \E f \in flows : n \in ToSet(f.mfs)
  <2>1. CASE InTable(table, n)
    <3>1. PICK k \in DOMAIN table : \E j \in DOMAIN table[k] : table[k][j] = n
      BY <2>1 DEF InTable
    <3>. DEFINE f == [key |-> k, mfs |-> table[k]]
    <3>2. f \in flows /\ f.mfs = table[k]
      OBVIOUS
    <3>. HIDE DEF flows, f
    <3>. QED  BY <3>1, <3>2 DEF ToSet
  <2>2. CASE InRecords(Records, n)
    <3>1. PICK x \in DOMAIN Records : \E j \in DOMAIN Records[x].mfs : Records[x].mfs[j] = n
      BY <2>2 DEF InRecords
    <3>2. Records[x] \in flows
      BY DEF ToSet
    <3>. HIDE DEF flows
    <3>. QED  BY <3>1, <3>2 DEF ToSet
  <2>. QED  BY <1>1, <2>1, <2>2 DEF Accounted
<1>7. UNION {ToSet(f.mfs) : f \in flows} = 1 .. Len(read)
  <2>. HIDE DEF flows
  <2>. QED  BY <1>5, <1>6
<1>8. SumFunction(sizes) + FoldLeft(LAMBDA n, f : n + Len(f.mfs), 0, Records) = Len(read)
  <2>1. sizes \in [DOMAIN table -> Nat]
    BY <1>1
  <2>. HIDE DEF sizes
  <2>2. SumFunction(sizes) = Cardinality(Units(sizes, DOMAIN table))
    BY <1>1, <2>1, SumFunctionIsUnits
  <2>3. SumFunction(sizes) = TableSize(table)
    BY <2>2 DEF TableSize, sizes
  <2>4. FoldLeft(LAMBDA n, f : n + Len(f.mfs), 0, Records) = RecordsSize(Records)
    BY <1>2, SizesAddUp DEF RecordsSize
  <2>5. TableSize(table) + RecordsSize(Records) = Len(read)
    BY <1>1 DEF Accounted
  <2>. QED  BY <2>3, <2>4, <2>5
<1>9. ASSUME NEW f \in flows, NEW n \in 1 .. Len(read), n \in ToSet(f.mfs), read[n].fin
      PROVE  n = Last(f.mfs) /\ f \in ToSet(Records)
  <2>1. PICK j \in DOMAIN f.mfs : f.mfs[j] = n
    BY <1>9 DEF ToSet
  <2>2. j = Len(f.mfs)
    <3>. HIDE DEF flows
    <3>. QED  BY <1>4, <1>9, <2>1 DEF IsFlow
  <2>3. f \notin tabled
    <3>1. ASSUME NEW k \in DOMAIN table, f = [key |-> k, mfs |-> table[k]]
          PROVE  FALSE
      <4>1. f.mfs = table[k]
        BY <3>1
      <4>. HIDE DEF flows
      <4>. QED  BY <1>1, <1>9, <2>1, <4>1 DEF Open
    <3>. QED  BY <3>1
  <2>4. f \in ToSet(Records)
    BY <2>3
  <2>. HIDE DEF flows, tabled
  <2>. QED  BY <2>1, <2>2, <2>4 DEF Last
<1>10. \A f \in flows : \A j, l \in DOMAIN f.mfs : j < l => f.mfs[j] < f.mfs[l]
  <2>. HIDE DEF flows
  <2>. QED  BY <1>4 DEF IsFlow
<1>11. \A f \in flows, n \in 1 .. Len(read) : n \in ToSet(f.mfs) =>
              /\ read[n].key = f.key
              /\ read[n].fin => n = Last(f.mfs) /\ f \in ToSet(Records)
  <2>. HIDE DEF flows
  <2>. QED  BY <1>5, <1>9
<1>. QED
  BY <1>7, <1>8, <1>10, <1>11, Zenon DEF MicroflowsAccounted

\* No microflow is lost, put into two flows or out of order, in runs of every
\* length over files of every kind.
THEOREM AllMicroflowsAccounted == ProgramsSpec => []MicroflowsAccounted
<1>1. ProgramsInit => AccountInv
  BY AccountInit
<1>2. AccountInv /\ [ProgramsNext]_programs_vars => AccountInv'
  BY AccountNext
<1>3. AccountInv => MicroflowsAccounted
  BY AccountedMicroflows
<1>. QED
  BY <1>1, <1>2, <1>3, PTL DEF ProgramsSpec

-----------------------------------------------------------------------------
(***************************************************************************)
(* The feature calculators.                                                *)
(***************************************************************************)

\* f is a vector of d features of flow n, normalised so many times.
Whole(f, d, n, times) ==
    /\ f = [j \in 0 .. d - 1 |-> f[j]]
    /\ \A j \in 0 .. d - 1 :
          f[j].of = n /\ f[j] = [of |-> f[j].of, what |-> f[j].what, times |-> times]

\* The vector that getFeatures writes is of one flow in all its places.
LEMMA FeaturesWhole ==
    ASSUME variant \in Variants, NEW n
    PROVE  Whole(Features(n), Dimension, n, 0)
<1>1. variant \in {"rich", "allstats", "netflow", "pfe"}
  BY CalculatorAssumption
<1>. DEFINE Is(e) == e.of = n /\ e = [of |-> e.of, what |-> e.what, times |-> 0]
<1>0. \A w : Is(Feature(n, w))
  BY DEF Feature
<1>2. /\ \A j : Is(ComputeStats(n, j)) /\ Is(ComputeMean(n, j)) /\ Is(Totals(n, j))
      /\ \A j : Is(Feature(n, <<"packetLen", j - 12>>))
      /\ Is(Feature(n, <<"zero">>))
  <2>. HIDE DEF Is
  <2>. QED  BY <1>0 DEF ComputeStats, ComputeMean, Totals
<1>3. ASSUME variant = "rich" PROVE Whole(Features(n), Dimension, n, 0)
  <2>1. Features(n) = RichFeatures(n) /\ Dimension = 12 + MinPktCt
    BY <1>3, Zenon DEF Features, Dimension
  <2>2. PICK d : d = 12 + MinPktCt
    OBVIOUS
  <2>3. 11 + MinPktCt = d - 1
    BY <2>2, CalculatorAssumption
  <2>4. RichFeatures(n) = [j \in 0 .. d - 1 |->
                             IF j < 12 THEN ComputeStats(n, j) ELSE Feature(n, <<"packetLen", j - 12>>)]
    BY <2>3 DEF RichFeatures
  <2>. QED  BY <1>2, <2>1, <2>2, <2>4 DEF Whole
<1>4. ASSUME variant = "allstats" PROVE Whole(Features(n), Dimension, n, 0)
  <2>1. Features(n) = AllStatsFeatures(n) /\ Dimension = 15
    BY <1>4, Zenon DEF Features, Dimension
  <2>. QED  BY <1>2, <2>1 DEF Whole, AllStatsFeatures
<1>5. ASSUME variant = "netflow" PROVE Whole(Features(n), Dimension, n, 0)
  <2>1. Features(n) = NetFlowFeatures(n) /\ Dimension = 3
    BY <1>5, Zenon DEF Features, Dimension
  <2>. QED  BY <1>2, <2>1 DEF Whole, NetFlowFeatures
<1>6. ASSUME variant = "pfe" PROVE Whole(Features(n), Dimension, n, 0)
  <2>1. Features(n) = PfeFeatures(n) /\ Dimension = 5
    BY <1>6, Zenon DEF Features, Dimension
  <2>. QED  BY <1>2, <2>1 DEF Whole, PfeFeatures
<1>. QED
  BY <1>1, <1>3, <1>4, <1>5, <1>6

\* The values of curFeatures.
Vectors == {<<>>} \cup {Features(n) : n \in Nat} \cup {Normalized(Features(n)) : n \in Nat}

LEMMA NormalizedWhole ==
    ASSUME NEW f, NEW d, NEW n, NEW times \in Nat, Whole(f, d, n, times)
    PROVE  Whole(Normalized(f), d, n, times + 1)
<1>1. /\ DOMAIN f = 0 .. d - 1
      /\ \A j \in 0 .. d - 1 : /\ f[j] = [of |-> f[j].of, what |-> f[j].what, times |-> times]
                                /\ f[j].of = n
  BY DEF Whole
<1>2. Normalized(f) = [j \in 0 .. d - 1 |-> [f[j] EXCEPT !.times = f[j].times + 1]]
  BY <1>1 DEF Normalized
<1>3. PICK g : g = Normalized(f)
  OBVIOUS
<1>4. ASSUME NEW j \in 0 .. d - 1
      PROVE  g[j].of = n /\ g[j] = [of |-> g[j].of, what |-> g[j].what, times |-> times + 1]
  <2>1. PICK e, w : e = f[j] /\ w = e.what
    OBVIOUS
  <2>2. e = [of |-> n, what |-> w, times |-> times]
    BY <1>1, <2>1
  <2>3. g[j] = [e EXCEPT !.times = e.times + 1]
    BY <1>2, <1>3, <2>1
  <2>4. g[j] = [of |-> n, what |-> w, times |-> times + 1]
    BY <2>2, <2>3
  <2>. QED  BY <2>4
<1>5. g = [j \in 0 .. d - 1 |-> g[j]]
  BY <1>2, <1>3
<1>. QED
  BY <1>3, <1>4, <1>5 DEF Whole

LEMMA NothingCarriedOver ==
    ASSUME variant \in Variants, NEW n, NEW f \in Vectors
    PROVE  Written(Features(n), f) = Features(n)
<1>1. PICK d : d = Dimension
  OBVIOUS
<1>2. PICK h : h = Features(n)
  OBVIOUS
<1>3. h = [j \in 0 .. d - 1 |-> h[j]]
  BY <1>1, <1>2, FeaturesWhole DEF Whole
<1>4. DOMAIN f = {} \/ DOMAIN f = 0 .. d - 1
  <2>1. CASE f = <<>>
    BY <2>1
  <2>2. ASSUME NEW m \in Nat, f = Features(m) PROVE DOMAIN f = 0 .. d - 1
    <3>1. f = [j \in 0 .. d - 1 |-> f[j]]
      BY <1>1, <2>2, FeaturesWhole DEF Whole
    <3>. QED  BY <3>1
  <2>3. ASSUME NEW m \in Nat, f = Normalized(Features(m)) PROVE DOMAIN f = 0 .. d - 1
    <3>1. PICK e : e = Features(m)
      OBVIOUS
    <3>2. Whole(e, d, m, 0)
      BY <1>1, <3>1, FeaturesWhole
    <3>3. Whole(f, d, m, 0 + 1)
      BY <2>3, <3>1, <3>2, NormalizedWhole
    <3>4. f = [j \in 0 .. d - 1 |-> f[j]]
      BY <3>3 DEF Whole
    <3>. QED  BY <3>4
  <2>. QED  BY <2>1, <2>2, <2>3 DEF Vectors
<1>5. DOMAIN h = 0 .. d - 1
  BY <1>3
<1>6. Written(h, f) = [j \in 0 .. d - 1 |-> h[j]]
  <2>1. DOMAIN h \cup DOMAIN f = 0 .. d - 1
    BY <1>4, <1>5
  <2>. QED  BY <1>5, <2>1 DEF Written
<1>. QED
  BY <1>2, <1>3, <1>6

\* When no class has more than enough samples, and there are enough for all, then
\* every class has just enough.
OfLabel(S, l) == {e \in S : e.label = l}
OfLabels(S, K) == {e \in S : e.label \in K}

LEMMA ClassesBounded ==
    ASSUME NEW S, IsFiniteSet(S), \A l \in Classes : Cardinality(OfLabel(S, l)) <= TrainCt
    PROVE  \A K \in SUBSET Classes :
              /\ IsFiniteSet(OfLabels(S, K)) /\ Cardinality(OfLabels(S, K)) \in Nat
              /\ Cardinality(K) \in Nat
              /\ Cardinality(OfLabels(S, K)) <= TrainCt * Cardinality(K)
<1>1. \A K \in SUBSET Classes : /\ IsFiniteSet(OfLabels(S, K)) /\ IsFiniteSet(K)
                                /\ Cardinality(OfLabels(S, K)) \in Nat /\ Cardinality(K) \in Nat
  <2>1. \A K : OfLabels(S, K) \in SUBSET S
    BY DEF OfLabels
  <2>. QED  BY <2>1, CalculatorAssumption, FS_Subset, FS_CardinalityType
<1>2. TrainCt \in Nat
  BY CalculatorAssumption
<1>. DEFINE C == {K \in SUBSET Classes : ~(Cardinality(OfLabels(S, K)) <= TrainCt * Cardinality(K))}
<1>. SUFFICES ASSUME C # {} PROVE FALSE
  BY <1>1
<1>3. PICK K \in C : \A L \in C : ~(L \subseteq K /\ L # K)
  <2>1. C \in SUBSET (SUBSET Classes)
    OBVIOUS
  <2>. HIDE DEF C
  <2>. QED  BY <2>1, CalculatorAssumption, SmallestSet
<1>4. K # {}
  <2>1. ASSUME K = {} PROVE FALSE
    <3>1. OfLabels(S, K) = {}
      BY <2>1 DEF OfLabels
    <3>2. Cardinality(OfLabels(S, K)) = 0 /\ Cardinality(K) = 0
      BY <2>1, <3>1, FS_EmptySet
    <3>. QED  BY <1>2, <3>2
  <2>. QED  BY <2>1
<1>5. PICK l \in K : TRUE
  BY <1>4
<1>6. PICK L \in SUBSET Classes : L = K \ {l}
  OBVIOUS
<1>7. L \notin C
  BY <1>3, <1>5, <1>6
<1>8. Cardinality(OfLabels(S, L)) <= TrainCt * Cardinality(L)
  BY <1>7
<1>9. Cardinality(K) = Cardinality(L) + 1
  <2>1. IsFiniteSet(L) /\ l \notin L /\ K = L \cup {l}
    BY <1>1, <1>6
  <2>. QED  BY <2>1, FS_AddElement
<1>10. /\ Cardinality(OfLabels(S, K)) = Cardinality(OfLabel(S, l)) + Cardinality(OfLabels(S, L))
       /\ Cardinality(OfLabel(S, l)) \in Nat
  <2>1. OfLabel(S, l) \in SUBSET S /\ IsFiniteSet(OfLabel(S, l))
    <3>1. OfLabel(S, l) \in SUBSET S
      BY DEF OfLabel
    <3>. QED  BY <3>1, FS_Subset
  <2>2. /\ OfLabels(S, K) = OfLabel(S, l) \cup OfLabels(S, L)
        /\ OfLabel(S, l) \cap OfLabels(S, L) = {}
    BY <1>6 DEF OfLabel, OfLabels
  <2>. QED  BY <1>1, <2>1, <2>2, DisjointUnion, FS_CardinalityType
<1>11. PICK a, b, k, t \in Nat : /\ a = Cardinality(OfLabel(S, l)) /\ b = Cardinality(OfLabels(S, L))
                                 /\ k = Cardinality(L) /\ t = TrainCt
  BY <1>1, <1>2, <1>10
<1>12. a <= t /\ b <= t * k
  BY <1>8, <1>11
<1>13. t * (k + 1) = t * k + t /\ t * k \in Nat
  BY <1>11
<1>14. a + b <= t * (k + 1)
  BY <1>12, <1>13
<1>15. Cardinality(OfLabels(S, K)) = a + b /\ Cardinality(K) = k + 1
  BY <1>9, <1>10, <1>11
<1>. QED
  BY <1>11, <1>14, <1>15

LEMMA ClassesFull ==
    ASSUME NEW S, IsFiniteSet(S), \A e \in S : e.label \in Classes,
           \A l \in Classes : Cardinality(OfLabel(S, l)) <= TrainCt,
           ~(Cardinality(S) < TrainCt * Cardinality(Classes)),
           NEW c \in Classes
    PROVE  Cardinality(OfLabel(S, c)) = TrainCt
<1>1. PICK L \in SUBSET Classes : L = Classes \ {c}
  OBVIOUS
<1>2. Cardinality(Classes) = Cardinality(L) + 1
  <2>1. IsFiniteSet(L) /\ c \notin L /\ Classes = L \cup {c}
    BY <1>1, CalculatorAssumption, FS_Subset
  <2>. QED  BY <2>1, FS_AddElement
<1>3. /\ IsFiniteSet(OfLabels(S, L)) /\ Cardinality(OfLabels(S, L)) \in Nat
      /\ Cardinality(L) \in Nat
      /\ Cardinality(OfLabels(S, L)) <= TrainCt * Cardinality(L)
  BY ClassesBounded
<1>4. /\ Cardinality(S) = Cardinality(OfLabel(S, c)) + Cardinality(OfLabels(S, L))
      /\ Cardinality(OfLabel(S, c)) \in Nat
  <2>1. IsFiniteSet(OfLabel(S, c))
    <3>1. OfLabel(S, c) \in SUBSET S
      BY DEF OfLabel
    <3>. QED  BY <3>1, FS_Subset
  <2>2. S = OfLabel(S, c) \cup OfLabels(S, L) /\ OfLabel(S, c) \cap OfLabels(S, L) = {}
    BY <1>1 DEF OfLabel, OfLabels
  <2>. QED  BY <1>3, <2>1, <2>2, DisjointUnion, FS_CardinalityType
<1>5. PICK a, b, k, t \in Nat : /\ a = Cardinality(OfLabel(S, c)) /\ b = Cardinality(OfLabels(S, L))
                                /\ k = Cardinality(L) /\ t = TrainCt
  BY <1>3, <1>4, CalculatorAssumption
<1>6. a <= t /\ b <= t * k /\ ~(a + b < t * (k + 1))
  BY <1>2, <1>3, <1>4, <1>5
<1>7. t * (k + 1) = t * k + t /\ t * k \in Nat
  BY <1>5
<1>8. a = t
  BY <1>6, <1>7
<1>. QED
  BY <1>5, <1>8

LEMMA OneMoreExample ==
    ASSUME NEW S, IsFiniteSet(S), NEW e, e \notin S
    PROVE  /\ IsFiniteSet(S \cup {e})
           /\ \A l : /\ Cardinality(OfLabel(S, l)) \in Nat
                     /\ Cardinality(OfLabel(S \cup {e}, l)) =
                          IF e.label = l THEN Cardinality(OfLabel(S, l)) + 1
                                         ELSE Cardinality(OfLabel(S, l))
<1>1. IsFiniteSet(S \cup {e})
  BY FS_AddElement
<1>2. ASSUME NEW l
      PROVE  /\ IsFiniteSet(OfLabel(S, l)) /\ Cardinality(OfLabel(S, l)) \in Nat
             /\ Cardinality(OfLabel(S \cup {e}, l)) =
                  IF e.label = l THEN Cardinality(OfLabel(S, l)) + 1
                                 ELSE Cardinality(OfLabel(S, l))
  <2>1. IsFiniteSet(OfLabel(S, l)) /\ Cardinality(OfLabel(S, l)) \in Nat
    <3>1. OfLabel(S, l) \in SUBSET S
      BY DEF OfLabel
    <3>. QED  BY <3>1, FS_Subset, FS_CardinalityType
  <2>2. e.label = l => OfLabel(S \cup {e}, l) = OfLabel(S, l) \cup {e} /\ e \notin OfLabel(S, l)
    BY DEF OfLabel
  <2>3. e.label # l => OfLabel(S \cup {e}, l) = OfLabel(S, l)
    BY DEF OfLabel
  <2>. QED  BY <2>1, <2>2, <2>3, FS_AddElement
<1>. QED
  BY <1>1, <1>2

\* The state of a calculator, which has seen the first n flows.
Labels == {Label[k] : k \in {m.key : m \in Microflows}}
Examples == [x : Vectors, flow : Nat, label : Labels]
Calculators ==
    [samples : SUBSET Examples, counts : [Classes -> Nat], normalized : Nat, built : BOOLEAN,
     features : Vectors, judged : SUBSET Examples, totals : [Classes -> Nat]]

Full(S) == ~(Cardinality(S) < TrainCt * Cardinality(Classes))

CalculatorOK(c, n, flows) ==
    /\ IsFiniteSet(c.samples) /\ IsFiniteSet(c.judged)
    /\ \A e \in c.samples \cup c.judged :
          e.flow \in 1 .. n /\ e.label = Label[flows[e.flow].key]
    /\ \A e \in c.samples : e.label \in Classes /\ e.x = Features(e.flow)
    /\ \A e \in c.judged : e.x = Normalized(Features(e.flow))
    /\ c.normalized = IF c.built THEN 1 ELSE 0
    /\ \A l \in Classes : /\ c.counts[l] = Cardinality(OfLabel(c.samples, l))
                          /\ c.counts[l] <= TrainCt
                          /\ c.totals[l] = Cardinality(OfLabel(c.judged, l))
    /\ c.built => Full(c.samples)
    /\ c.judged # {} => c.built
    /\ \A s \in c.samples, e \in c.judged : s.flow < e.flow

\* What the loop of run() makes of the next flow.
Learned(c, e) ==
    [samples |-> c.samples \cup {e}, normalized |-> c.normalized, built |-> c.built,
     judged |-> c.judged,
     counts |-> [l \in Classes |-> IF l = e.label THEN c.counts[l] + 1 ELSE c.counts[l]],
     features |-> e.x, totals |-> c.totals]
Judged(c, e) ==
    [samples |-> c.samples, normalized |-> IF c.built THEN c.normalized ELSE c.normalized + 1,
     built |-> TRUE, judged |-> c.judged \cup {e},
     counts |-> c.counts, features |-> e.x,
     totals |-> [l \in Classes |-> IF l = e.label THEN c.totals[l] + 1 ELSE c.totals[l]]]

LEMMA CalculatedIs ==
    ASSUME variant \in Variants, NEW flows, NEW n, NEW c \in Calculators,
           NEW e, e = [x |-> Features(n), flow |-> n, label |-> Label[flows[n].key]],
           NEW w, w = [x |-> Normalized(Features(n)), flow |-> n, label |-> Label[flows[n].key]]
    PROVE  \/ Calculated(c, flows, n) = c
           \/ Calculated(c, flows, n) = [c EXCEPT !.features = e.x]
           \/ /\ ~Full(c.samples) /\ e.label \in Classes /\ c.counts[e.label] < TrainCt
              /\ Calculated(c, flows, n) = Learned(c, e)
           \/ Full(c.samples) /\ Calculated(c, flows, n) = Judged(c, w)
<1>. DEFINE d == [c EXCEPT !.features = Written(Features(n), c.features)]
            l == Label[flows[n].key]
<1>1. c.features \in Vectors
  BY DEF Calculators
<1>2. /\ Written(Features(n), c.features) = e.x /\ l = e.label /\ l = w.label
      /\ w.x = Normalized(e.x)
  BY <1>1, NothingCarriedOver
<1>3. /\ d = [c EXCEPT !.features = e.x] /\ d.features = e.x
      /\ d.samples = c.samples /\ d.counts = c.counts /\ d.built = c.built
      /\ d.judged = c.judged /\ d.totals = c.totals /\ d.normalized = c.normalized
      /\ d = [samples |-> c.samples, counts |-> c.counts, normalized |-> c.normalized,
              built |-> c.built, features |-> e.x, judged |-> c.judged, totals |-> c.totals]
  BY <1>2 DEF Calculators
<1>4. \/ Calculated(c, flows, n) = c
      \/ ~Full(c.samples) /\ Calculated(c, flows, n) = LearnFlow(d, n, l)
      \/ Full(c.samples) /\ Calculated(c, flows, n) = ClassifyFlow(BuildModel(d), n, l)
  BY Zenon DEF Calculated, Full
<1>. HIDE DEF d, l
<1>5. Example(d, n, l) = e
  BY <1>2, <1>3 DEF Example
<1>6. \/ LearnFlow(d, n, l) = d
      \/ /\ e.label \in Classes /\ c.counts[e.label] < TrainCt
         /\ LearnFlow(d, n, l) = Learned(c, e)
  <2>1. CASE l \in Classes /\ d.counts[l] < TrainCt
    <3>1. LearnFlow(d, n, l) = [d EXCEPT !.samples = d.samples \cup {e},
                                         !.counts = [d.counts EXCEPT ![l] = d.counts[l] + 1]]
      BY <1>5, <2>1 DEF LearnFlow
    <3>2. [d.counts EXCEPT ![l] = d.counts[l] + 1] =
             [k \in Classes |-> IF k = e.label THEN c.counts[k] + 1 ELSE c.counts[k]]
      <4>1. c.counts \in [Classes -> Nat]
        BY DEF Calculators
      <4>. QED  BY <1>2, <1>3, <4>1
    <3>3. LearnFlow(d, n, l) = Learned(c, e)
      BY <1>3, <3>1, <3>2 DEF Learned
    <3>. QED  BY <1>2, <1>3, <2>1, <3>3
  <2>2. CASE ~(l \in Classes /\ d.counts[l] < TrainCt)
    BY <2>2 DEF LearnFlow
  <2>. QED  BY <2>1, <2>2
<1>7. ClassifyFlow(BuildModel(d), n, l) = Judged(c, w)
  <2>1. PICK nn, b : nn = (IF c.built THEN c.normalized ELSE c.normalized + 1) /\ b = BuildModel(d)
    OBVIOUS
  <2>2. b = [samples |-> c.samples, counts |-> c.counts, normalized |-> nn, built |-> TRUE,
             features |-> e.x, judged |-> c.judged, totals |-> c.totals]
    <3>1. CASE c.built
      <4>1. b = d /\ nn = c.normalized /\ c.built = TRUE
        BY <1>3, <2>1, <3>1 DEF BuildModel, Calculators
      <4>. QED  BY <1>3, <4>1
    <3>2. CASE ~c.built
      <4>1. b = [d EXCEPT !.built = TRUE, !.normalized = nn]
        BY <1>3, <2>1, <3>2 DEF BuildModel
      <4>. QED  BY <1>3, <4>1
    <3>. QED  BY <3>1, <3>2
  <2>3. PICK J, T, f, g : /\ J = c.judged \cup {w} /\ f = w.x
                          /\ T = [k \in Classes |-> IF k = w.label THEN c.totals[k] + 1
                                                               ELSE c.totals[k]]
                          /\ g = [b EXCEPT !.features = f]
    OBVIOUS
  <2>4. g = [samples |-> c.samples, counts |-> c.counts, normalized |-> nn, built |-> TRUE,
             features |-> f, judged |-> c.judged, totals |-> c.totals]
    BY <2>2, <2>3
  <2>5. Example(g, n, l) = w
    BY <1>2, <2>3, <2>4 DEF Example
  <2>6. g = [b EXCEPT !.features = Normalized(b.features)]
    BY <1>2, <2>2, <2>3
  <2>7. ClassifyFlow(b, n, l) =
          [g EXCEPT !.judged = g.judged \cup {Example(g, n, l)},
                    !.totals = [k \in Classes |-> IF k = l THEN g.totals[k] + 1 ELSE g.totals[k]]]
    BY <2>6 DEF ClassifyFlow
  <2>8. /\ g.judged \cup {Example(g, n, l)} = J
        /\ [k \in Classes |-> IF k = l THEN g.totals[k] + 1 ELSE g.totals[k]] = T
    <3>1. g.judged = c.judged /\ g.totals = c.totals
      BY <2>4
    <3>. QED  BY <1>2, <2>3, <2>5, <3>1
  <2>9. ClassifyFlow(b, n, l) = [g EXCEPT !.judged = J, !.totals = T]
    BY <2>7, <2>8
  <2>10. [g EXCEPT !.judged = J, !.totals = T] =
          [samples |-> c.samples, counts |-> c.counts, normalized |-> nn, built |-> TRUE,
           features |-> f, judged |-> J, totals |-> T]
    <3>1. PICK a1, a2 : a1 = c.samples /\ a2 = c.counts
      OBVIOUS
    <3>2. PICK r : r = [g EXCEPT !.judged = J, !.totals = T]
      OBVIOUS
    <3>3. g = [samples |-> a1, counts |-> a2, normalized |-> nn, built |-> TRUE,
               features |-> f, judged |-> c.judged, totals |-> c.totals]
      BY <2>4, <3>1
    <3>4. r \in [samples : {a1}, counts : {a2}, normalized : {nn}, built : {TRUE},
                 features : {f}, judged : {J}, totals : {T}]
      BY <3>2, <3>3
    <3>5. /\ r.samples = a1 /\ r.counts = a2 /\ r.normalized = nn /\ r.built = TRUE
          /\ r.features = f /\ r.judged = J /\ r.totals = T
      BY <3>4
    <3>6. r = [samples |-> r.samples, counts |-> r.counts, normalized |-> r.normalized,
               built |-> r.built, features |-> r.features, judged |-> r.judged,
               totals |-> r.totals]
      BY <3>4
    <3>. QED  BY <3>1, <3>2, <3>5, <3>6
  <2>. QED  BY <2>1, <2>3, <2>9, <2>10 DEF Judged
<1>. QED
  BY <1>3, <1>4, <1>6, <1>7

LEMMA CalculatedTypes ==
    ASSUME variant \in Variants, NEW flows, NEW n \in Nat, NEW c \in Calculators,
           flows[n].key \in {m.key : m \in Microflows}
    PROVE  Calculated(c, flows, n) \in Calculators
<1>1. PICK e, w : /\ e = [x |-> Features(n), flow |-> n, label |-> Label[flows[n].key]]
                  /\ w = [x |-> Normalized(Features(n)), flow |-> n,
                          label |-> Label[flows[n].key]]
  OBVIOUS
<1>2. e \in Examples /\ e.x \in Vectors /\ w \in Examples /\ w.x \in Vectors
  <2>1. Features(n) \in Vectors /\ Normalized(Features(n)) \in Vectors
    BY DEF Vectors
  <2>2. Label[flows[n].key] \in Labels
    BY DEF Labels
  <2>. QED  BY <1>1, <2>1, <2>2 DEF Examples
<1>. HIDE DEF Examples, Vectors
<1>3. [c EXCEPT !.features = e.x] \in Calculators
  BY <1>2 DEF Calculators
<1>4. Learned(c, e) \in Calculators
  <2>1. [l \in Classes |-> IF l = e.label THEN c.counts[l] + 1 ELSE c.counts[l]] \in [Classes -> Nat]
    BY DEF Calculators
  <2>2. c.samples \cup {e} \in SUBSET Examples
    BY <1>2 DEF Calculators
  <2>. QED  BY <1>2, <2>1, <2>2 DEF Calculators, Learned
<1>5. Judged(c, w) \in Calculators
  <2>1. [l \in Classes |-> IF l = w.label THEN c.totals[l] + 1 ELSE c.totals[l]] \in [Classes -> Nat]
    BY DEF Calculators
  <2>2. c.judged \cup {w} \in SUBSET Examples
    BY <1>2 DEF Calculators
  <2>3. (IF c.built THEN c.normalized ELSE c.normalized + 1) \in Nat
    BY DEF Calculators
  <2>. QED  BY <1>2, <2>1, <2>2, <2>3 DEF Calculators, Judged
<1>. QED
  BY <1>1, <1>3, <1>4, <1>5, CalculatedIs

LEMMA CalculatedOK ==
    ASSUME variant \in Variants, NEW flows, NEW k \in Nat, NEW n \in Nat, n = k + 1,
           NEW c \in Calculators, CalculatorOK(c, k, flows)
    PROVE  CalculatorOK(Calculated(c, flows, n), n, flows)
<1>1. PICK e, w : /\ e = [x |-> Features(n), flow |-> n, label |-> Label[flows[n].key]]
                  /\ w = [x |-> Normalized(Features(n)), flow |-> n,
                          label |-> Label[flows[n].key]]
  OBVIOUS
<1>2. /\ e.flow = n /\ e.x = Features(e.flow) /\ e.label = Label[flows[e.flow].key]
      /\ w.flow = n /\ w.x = Normalized(Features(w.flow)) /\ w.label = Label[flows[w.flow].key]
      /\ e.flow \in 1 .. n /\ \A f \in 1 .. k : f \in 1 .. n /\ f < n
  BY <1>1
<1>3. /\ IsFiniteSet(c.samples) /\ IsFiniteSet(c.judged)
      /\ \A s \in c.samples \cup c.judged : s.flow \in 1 .. k /\ s # e /\ s # w
  BY <1>2 DEF CalculatorOK
<1>4. /\ IsFiniteSet(c.samples \cup {e}) /\ IsFiniteSet(c.judged \cup {w})
      /\ \A l : /\ Cardinality(OfLabel(c.samples \cup {e}, l)) =
                     IF e.label = l THEN Cardinality(OfLabel(c.samples, l)) + 1
                                    ELSE Cardinality(OfLabel(c.samples, l))
                /\ Cardinality(OfLabel(c.judged \cup {w}, l)) =
                     IF w.label = l THEN Cardinality(OfLabel(c.judged, l)) + 1
                                    ELSE Cardinality(OfLabel(c.judged, l))
                /\ Cardinality(OfLabel(c.samples, l)) \in Nat
  <2>1. e \notin c.samples /\ w \notin c.judged
    BY <1>3
  <2>. QED  BY <1>3, <2>1, OneMoreExample
<1>5. CalculatorOK(c, n, flows)
  BY <1>2 DEF CalculatorOK
<1>6. CalculatorOK([c EXCEPT !.features = e.x], n, flows)
  <2>1. PICK r : r = [c EXCEPT !.features = e.x]
    OBVIOUS
  <2>2. /\ r.samples = c.samples /\ r.judged = c.judged /\ r.counts = c.counts
        /\ r.totals = c.totals /\ r.built = c.built /\ r.normalized = c.normalized
    BY <2>1 DEF Calculators
  <2>3. CalculatorOK(r, n, flows)
    BY <1>5, <2>2, Zenon DEF CalculatorOK
  <2>. QED  BY <2>1, <2>3
<1>7. ASSUME ~Full(c.samples), e.label \in Classes, c.counts[e.label] < TrainCt
      PROVE  CalculatorOK(Learned(c, e), n, flows)
  <2>1. PICK r : r = Learned(c, e)
    OBVIOUS
  <2>2. /\ r.samples = c.samples \cup {e} /\ r.judged = c.judged
        /\ \A l \in Classes : r.counts[l] = IF l = e.label THEN c.counts[l] + 1 ELSE c.counts[l]
        /\ r.totals = c.totals /\ r.built = c.built /\ r.normalized = c.normalized
    BY <2>1 DEF Learned
  <2>3. c.judged = {} /\ (c.built <=> FALSE)
    BY <1>7 DEF CalculatorOK, Calculators
  <2>4. \A l \in Classes : /\ r.counts[l] = Cardinality(OfLabel(r.samples, l))
                           /\ r.counts[l] <= TrainCt
    <3>1. ASSUME NEW l \in Classes
          PROVE  r.counts[l] = Cardinality(OfLabel(r.samples, l)) /\ r.counts[l] <= TrainCt
      <4>1. /\ c.counts[l] = Cardinality(OfLabel(c.samples, l)) /\ c.counts[l] <= TrainCt
            /\ c.counts[l] \in Nat
        BY DEF CalculatorOK, Calculators
      <4>2. OfLabel(r.samples, l) = OfLabel(c.samples \cup {e}, l)
        BY <2>2
      <4>3. CASE l = e.label
        <5>1. r.counts[l] = c.counts[l] + 1 /\ c.counts[l] < TrainCt /\ TrainCt \in Nat
          BY <1>7, <2>2, <4>3, CalculatorAssumption
        <5>2. Cardinality(OfLabel(c.samples \cup {e}, l)) = Cardinality(OfLabel(c.samples, l)) + 1
          BY <1>4, <4>3
        <5>. QED  BY <4>1, <4>2, <5>1, <5>2
      <4>4. CASE l # e.label
        <5>1. r.counts[l] = c.counts[l]
          BY <2>2, <4>4
        <5>2. Cardinality(OfLabel(c.samples \cup {e}, l)) = Cardinality(OfLabel(c.samples, l))
          BY <1>4, <4>4
        <5>. QED  BY <4>1, <4>2, <5>1, <5>2
      <4>. QED  BY <4>3, <4>4
    <3>. QED  BY <3>1
  <2>5. \A s \in r.samples : s.label \in Classes /\ s.x = Features(s.flow)
    BY <1>2, <1>7, <2>2 DEF CalculatorOK
  <2>6. /\ \A s \in r.samples \cup r.judged :
              s.flow \in 1 .. n /\ s.label = Label[flows[s.flow].key]
        /\ r.normalized = IF r.built THEN 1 ELSE 0
    BY <1>2, <1>5, <2>2 DEF CalculatorOK
  <2>7. \A l \in Classes : r.totals[l] = Cardinality(OfLabel(r.judged, l))
    BY <2>2 DEF CalculatorOK
  <2>8. CalculatorOK(r, n, flows)
    BY <1>3, <1>4, <2>2, <2>3, <2>4, <2>5, <2>6, <2>7 DEF CalculatorOK
  <2>. QED  BY <2>1, <2>8
<1>8. ASSUME Full(c.samples)
      PROVE  CalculatorOK(Judged(c, w), n, flows)
  <2>1. PICK r : r = Judged(c, w)
    OBVIOUS
  <2>2. /\ r.samples = c.samples /\ r.judged = c.judged \cup {w} /\ r.counts = c.counts
        /\ \A l \in Classes : r.totals[l] = IF l = w.label THEN c.totals[l] + 1 ELSE c.totals[l]
        /\ r.built = TRUE
        /\ r.normalized = IF c.built THEN c.normalized ELSE c.normalized + 1
    BY <2>1 DEF Judged
  <2>3. \A l \in Classes : r.totals[l] = Cardinality(OfLabel(r.judged, l))
    <3>1. ASSUME NEW l \in Classes
          PROVE  r.totals[l] = Cardinality(OfLabel(r.judged, l))
      <4>1. c.totals[l] = Cardinality(OfLabel(c.judged, l))
        BY DEF CalculatorOK
      <4>2. OfLabel(r.judged, l) = OfLabel(c.judged \cup {w}, l)
        BY <2>2
      <4>3. CASE l = w.label
        <5>1. r.totals[l] = c.totals[l] + 1
          BY <2>2, <4>3
        <5>2. Cardinality(OfLabel(c.judged \cup {w}, l)) = Cardinality(OfLabel(c.judged, l)) + 1
          BY <1>4, <4>3
        <5>. QED  BY <4>1, <4>2, <5>1, <5>2
      <4>4. CASE l # w.label
        <5>1. r.totals[l] = c.totals[l]
          BY <2>2, <4>4
        <5>2. Cardinality(OfLabel(c.judged \cup {w}, l)) = Cardinality(OfLabel(c.judged, l))
          BY <1>4, <4>4
        <5>. QED  BY <4>1, <4>2, <5>1, <5>2
      <4>. QED  BY <4>3, <4>4
    <3>. QED  BY <3>1
  <2>4. /\ \A s \in r.samples \cup r.judged :
              s.flow \in 1 .. n /\ s.label = Label[flows[s.flow].key]
        /\ \A s \in r.judged : s.x = Normalized(Features(s.flow))
    BY <1>2, <1>5, <2>2 DEF CalculatorOK
  <2>7. r.normalized = 1
    <3>1. c.normalized = IF c.built THEN 1 ELSE 0
      BY DEF CalculatorOK
    <3>. QED  BY <2>2, <3>1
  <2>5. \A s \in r.samples, j \in r.judged : s.flow < j.flow
    BY <1>2, <1>3, <2>2 DEF CalculatorOK
  <2>6. CalculatorOK(r, n, flows)
    BY <1>3, <1>4, <1>8, <2>2, <2>3, <2>4, <2>5, <2>7 DEF CalculatorOK
  <2>. QED  BY <2>1, <2>6
<1>. QED
  BY <1>1, <1>5, <1>6, <1>7, <1>8, CalculatedIs

\* run() of a calculator: the batch, one flow after the other.
Calculation(c, flows, s) == FoldLeft(LAMBDA d, m : Calculated(d, flows, m), c, s)

LEMMA CalculateOK ==
    ASSUME variant \in Variants, NEW flows, NEW base \in Nat, NEW n \in Nat,
           NEW c \in Calculators, CalculatorOK(c, base, flows),
           \A m \in 1 .. n : flows[base + m].key \in {x.key : x \in Microflows},
           NEW r, r = Calculation(c, flows, [m \in 1 .. n |-> base + m])
    PROVE  r \in Calculators /\ CalculatorOK(r, base + n, flows)
<1>. DEFINE s == [m \in 1 .. n |-> base + m]
            rec(g) == [t \in SUBSET (1 .. n) |->
                          IF t = {} THEN c ELSE Calculated(g[t \ {Max(t)}], flows, s[Max(t)])]
            iter == CHOOSE g : g = rec(g)
            op == [x \in (1 .. n) \X Calculators |-> Calculated(x[2], flows, s[x[1]])]
<1>1. r = iter[1 .. n]
  <2>1. DOMAIN s = 1 .. n
    OBVIOUS
  <2>2. r = (CHOOSE g : g = [t \in SUBSET DOMAIN s |->
               IF t = {} THEN c ELSE Calculated(g[t \ {Max(t)}], flows, s[Max(t)])])[DOMAIN s]
    <3>1. r = Calculation(c, flows, s)
      OBVIOUS
    <3>. HIDE DEF s
    <3>. QED  BY <3>1, Zenon DEF Calculation, FoldLeft, MapThenFoldSet
  <2>. HIDE DEF s
  <2>. QED  BY <2>1, <2>2
<1>2. \A m \in 1 .. n : s[m] \in Nat /\ flows[s[m]].key \in {x.key : x \in Microflows}
  OBVIOUS
<1>3. \A m \in 1 .. n : s[m] = base + m
  OBVIOUS
<1>. HIDE DEF s
<1>4. op \in [(1 .. n) \X Calculators -> Calculators]
  <2>1. ASSUME NEW x \in (1 .. n) \X Calculators
        PROVE  Calculated(x[2], flows, s[x[1]]) \in Calculators
    <3>1. PICK m \in 1 .. n, d \in Calculators : m = x[1] /\ d = x[2]
      OBVIOUS
    <3>. QED  BY <1>2, <3>1, CalculatedTypes
  <2>. QED  BY <2>1
<1>5. \A m \in 1 .. n, d \in Calculators : op[<<m, d>>] = Calculated(d, flows, s[m])
  OBVIOUS
<1>. HIDE DEF op
<1>6. PICK g \in [SUBSET (1 .. n) -> Calculators] : FoldsUp(n, c, Calculators, op, g)
  BY <1>4, FoldRecursion
<1>7. \A t \in SUBSET (1 .. n) : t # {} => Max(t) \in 1 .. n /\ t \ {Max(t)} \in SUBSET (1 .. n)
  BY MaxOfBounded
<1>8. g = rec(g)
  <2>1. ASSUME NEW t \in SUBSET (1 .. n)
        PROVE  g[t] = IF t = {} THEN c ELSE Calculated(g[t \ {Max(t)}], flows, s[Max(t)])
    <3>1. PICK x : x = Max(t)
      OBVIOUS
    <3>2. t # {} => x \in 1 .. n /\ g[t \ {x}] \in Calculators
      BY <1>7, <3>1
    <3>3. t # {} => g[t] = op[<<x, g[t \ {x}]>>]
      BY <1>6, <3>1, <3>2 DEF FoldsUp
    <3>4. t = {} => g[t] = c
      BY <1>6 DEF FoldsUp
    <3>. QED  BY <1>5, <3>1, <3>2, <3>3, <3>4
  <2>. QED  BY <2>1
<1>9. iter = rec(iter)
  <2>. HIDE DEF rec
  <2>. QED  BY <1>8, Zenon
<1>. HIDE DEF iter
<1>10. FoldsUp(n, c, Calculators, op, iter)
  <2>1. ASSUME NEW t \in SUBSET (1 .. n), t # {}, iter[t \ {Max(t)}] \in Calculators
        PROVE  iter[t] = op[<<Max(t), iter[t \ {Max(t)}]>>]
    <3>1. PICK x : x = Max(t)
      OBVIOUS
    <3>2. x \in 1 .. n
      BY <1>7, <2>1, <3>1
    <3>3. iter[t] = Calculated(iter[t \ {x}], flows, s[x])
      BY <1>9, <2>1, <3>1
    <3>. QED  BY <1>5, <2>1, <3>1, <3>2, <3>3
  <2>2. iter[{}] = c
    BY <1>9
  <2>. QED  BY <2>1, <2>2 DEF FoldsUp
<1>11. PICK F \in [0 .. n -> Calculators] : Steps(n, c, op, F) /\ F[n] = r
  <2>1. Folded(n, c, Calculators, op, iter[1 .. n])
    BY <1>4, <1>10, FoldSteps
  <2>. QED  BY <1>1, <2>1 DEF Folded
<1>. DEFINE Bad == {m \in 0 .. n : ~CalculatorOK(F[m], base + m, flows)}
<1>12. Bad = {}
  <2>. SUFFICES ASSUME Bad # {} PROVE FALSE
    OBVIOUS
  <2>1. PICK m \in Bad : \A k \in Bad : m <= k
    <3>1. Bad \in SUBSET Nat
      OBVIOUS
    <3>. HIDE DEF Bad
    <3>. QED  BY <3>1, NatMinimum
  <2>2. m # 0
    <3>1. F[0] = c /\ base + 0 = base
      BY <1>11 DEF Steps
    <3>. QED  BY <3>1
  <2>3. PICK l \in 0 .. n : m = l + 1 /\ ~(m <= l) /\ m \in 1 .. n
    <3>1. m \in 0 .. n
      OBVIOUS
    <3>2. m - 1 \in 0 .. n /\ m = (m - 1) + 1 /\ ~(m <= m - 1) /\ m \in 1 .. n
      BY <2>2, <3>1
    <3>. QED  BY <3>2
  <2>4. CalculatorOK(F[l], base + l, flows) /\ F[l] \in Calculators
    BY <2>1, <2>3
  <2>5. F[m] = Calculated(F[l], flows, s[m])
    BY <1>5, <1>11, <2>3, <2>4 DEF Steps
  <2>6. PICK a, b \in Nat : a = base + l /\ b = base + m /\ b = a + 1 /\ s[m] = b
    BY <1>3, <2>3
  <2>7. CalculatorOK(Calculated(F[l], flows, b), b, flows)
    BY <2>4, <2>6, CalculatedOK
  <2>. QED  BY <2>5, <2>6, <2>7
<1>. QED
  <2>1. n \in 0 .. n
    OBVIOUS
  <2>2. CalculatorOK(F[n], base + n, flows)
    BY <1>12, <2>1
  <2>. QED  BY <1>11, <2>1, <2>2

Calculator ==
    [samples |-> samples, counts |-> sample_counts, normalized |-> normalized,
     built |-> model_built, features |-> cur_features, judged |-> judged, totals |-> total_counts]

CalculatorInv ==
    /\ ReaderTypes /\ program \in Programs /\ variant \in Variants
    /\ Calculator \in Calculators
    /\ CalculatorOK(Calculator, Len(taken), taken)

\* Flows that were taken stay where they are.
LEMMA TakenKept ==
    ASSUME NEW c, NEW n \in Nat, NEW m \in Nat, n <= m, NEW flows, NEW more,
           CalculatorOK(c, n, flows), \A j \in 1 .. n : more[j] = flows[j]
    PROVE  CalculatorOK(c, n, more) /\ CalculatorOK(c, m, more)
<1>1. 1 .. n \subseteq 1 .. m
  OBVIOUS
<1>. QED
  BY <1>1 DEF CalculatorOK

LEMMA RecycleTakes ==
    ASSUME ReaderTypes, out # <<>>, Recycle
    PROVE  /\ Len(taken) \in Nat /\ Len(Head(out)) \in Nat
           /\ Len(taken') = Len(taken) + Len(Head(out))
           /\ \A j \in 1 .. Len(taken) : taken'[j] = taken[j]
           /\ taken' \in Seq(Recs)
<1>1. taken \in Seq(Recs) /\ Head(out) \in Seq(Recs) /\ taken' = taken \o Head(out)
  <2>. HIDE DEF Recs
  <2>1. taken \in Seq(Recs) /\ out \in Seq(Seq(Recs))
    BY DEF ReaderTypes
  <2>. QED  BY <2>1, HeadTailProperties DEF Recycle
<1>. HIDE DEF Recs
<1>2. PICK a, b \in Seq(Recs) : a = taken /\ b = Head(out)
  BY <1>1
<1>3. /\ Len(a) \in Nat /\ Len(b) \in Nat /\ a \o b \in Seq(Recs) /\ Len(a \o b) = Len(a) + Len(b)
      /\ \A j \in 1 .. Len(a) : (a \o b)[j] = a[j]
  <2>1. Len(a) \in Nat /\ Len(b) \in Nat
    BY LenProperties
  <2>. QED  BY <2>1, ConcatProperties
<1>. QED
  BY <1>1, <1>2, <1>3

LEMMA CalculateInv ==
    ASSUME CalculatorInv, Calculate, ReaderTypes', program' = program
    PROVE  CalculatorInv'
<1>1. out # <<>> /\ Recycle /\ variant' = variant
  BY DEF Calculate
<1>2. PICK a, b \in Nat : a = Len(taken) /\ b = Len(Head(out))
  BY <1>1, RecycleTakes DEF CalculatorInv
<1>3. /\ Len(taken') = a + b /\ \A j \in 1 .. a : taken'[j] = taken[j]
      /\ \A m \in 1 .. b : taken'[a + m].key \in {x.key : x \in Microflows}
  <2>1. Len(taken') = a + b /\ taken' \in Seq(Recs) /\ \A j \in 1 .. a : taken'[j] = taken[j]
    BY <1>1, <1>2, RecycleTakes DEF CalculatorInv
  <2>2. ASSUME NEW m \in 1 .. b PROVE taken'[a + m].key \in {x.key : x \in Microflows}
    <3>1. PICK j \in 1 .. Len(taken') : j = a + m
      BY <2>1
    <3>2. taken'[j] \in Recs
      BY <2>1, <3>1, ElementOfSeq
    <3>. QED  BY <3>1, <3>2 DEF Recs
  <2>. QED  BY <2>1, <2>2
<1>4. PICK r : r = Calculation(Calculator, taken', [m \in 1 .. b |-> a + m])
  OBVIOUS
<1>5. /\ samples' = r.samples /\ sample_counts' = r.counts
      /\ normalized' = r.normalized /\ model_built' = r.built
      /\ cur_features' = r.features /\ judged' = r.judged /\ total_counts' = r.totals
  BY <1>2, <1>4, Zenon DEF Calculate, Calculation, Calculator
<1>6. PICK flows : flows = taken'
  OBVIOUS
<1>7. CalculatorOK(Calculator, a, flows)
  <2>1. CalculatorOK(Calculator, a, taken) /\ a <= a
    BY <1>2 DEF CalculatorInv
  <2>. QED  BY <1>3, <1>6, <2>1, TakenKept
<1>8. r \in Calculators /\ CalculatorOK(r, a + b, flows)
  <2>1. variant \in Variants /\ Calculator \in Calculators
    BY DEF CalculatorInv
  <2>2. \A m \in 1 .. b : flows[a + m].key \in {x.key : x \in Microflows}
    BY <1>3, <1>6
  <2>3. r = Calculation(Calculator, flows, [m \in 1 .. b |-> a + m])
    BY <1>4, <1>6
  <2>. HIDE DEF Calculators
  <2>. QED  BY <1>7, <2>1, <2>2, <2>3, CalculateOK
<1>9. Calculator' = r
  <2>1. Calculator' = [samples |-> r.samples, counts |-> r.counts,
                       normalized |-> r.normalized, built |-> r.built,
                       features |-> r.features, judged |-> r.judged, totals |-> r.totals]
    BY <1>5 DEF Calculator
  <2>. QED  BY <1>8, <2>1 DEF Calculators
<1>10. \A n : (Features(n))' = Features(n)
  BY <1>1 DEF Features, RichFeatures, AllStatsFeatures, NetFlowFeatures, PfeFeatures,
              ComputeStats, ComputeMean, Totals
<1>11. Calculators' = Calculators
  BY <1>10 DEF Calculators, Examples, Vectors
<1>12. CalculatorOK(Calculator, Len(taken), taken)'
  BY <1>2, <1>3, <1>6, <1>8, <1>9, <1>10 DEF CalculatorOK
<1>. QED
  BY <1>1, <1>8, <1>9, <1>11, <1>12 DEF CalculatorInv

LEMMA InitCalculatorInv ==
    ASSUME ProgramsInit
    PROVE  CalculatorInv
<1>1. ReaderTypes /\ program \in Programs
  BY ReaderTypesInit
<1>2. /\ variant \in Variants /\ samples = {} /\ judged = {} /\ model_built = FALSE
      /\ sample_counts = [c \in Classes |-> 0] /\ total_counts = [c \in Classes |-> 0]
      /\ cur_features = <<>> /\ taken = <<>> /\ normalized = 0
  BY DEF ProgramsInit, CalculatorInit, ReaderInit
<1>3. Calculator = [samples |-> {}, counts |-> [c \in Classes |-> 0], normalized |-> 0,
                    built |-> FALSE, features |-> <<>>, judged |-> {},
                    totals |-> [c \in Classes |-> 0]]
  BY <1>2 DEF Calculator
<1>4. <<>> \in Vectors
  BY DEF Vectors
<1>5. Calculator \in Calculators
  BY <1>3, <1>4 DEF Calculators
<1>6. \A l : OfLabel({}, l) = {}
  BY DEF OfLabel
<1>7. CalculatorOK(Calculator, Len(taken), taken)
  <2>1. IsFiniteSet({}) /\ Cardinality({}) = 0 /\ TrainCt \in Nat
    BY FS_EmptySet, CalculatorAssumption
  <2>2. PICK c : c = Calculator
    OBVIOUS
  <2>3. /\ c.samples = {} /\ c.judged = {} /\ c.normalized = 0 /\ c.built = FALSE
        /\ \A l \in Classes : c.counts[l] = 0 /\ c.totals[l] = 0
    BY <1>3, <2>2
  <2>4. c.normalized = IF c.built THEN 1 ELSE 0
    BY <2>3
  <2>5. \A l \in Classes : /\ c.counts[l] = Cardinality(OfLabel(c.samples, l))
                            /\ c.counts[l] <= TrainCt
                            /\ c.totals[l] = Cardinality(OfLabel(c.judged, l))
    BY <1>6, <2>1, <2>3
  <2>6. CalculatorOK(c, Len(taken), taken)
    BY <2>1, <2>3, <2>4, <2>5 DEF CalculatorOK
  <2>. QED  BY <2>2, <2>6
<1>. QED
  BY <1>1, <1>2, <1>5, <1>7 DEF CalculatorInv

\* A step that the calculator takes no part in.
LEMMA OthersCalculatorInv ==
    ASSUME CalculatorInv, ReaderTypes', program' = program, UNCHANGED calculator_vars,
           UNCHANGED taken \/ (out # <<>> /\ Recycle)
    PROVE  CalculatorInv'
<1>1. /\ variant' = variant /\ Calculator' = Calculator
  BY DEF calculator_vars, Calculator
<1>2. \A n : (Features(n))' = Features(n)
  BY <1>1 DEF Features, RichFeatures, AllStatsFeatures, NetFlowFeatures, PfeFeatures,
              ComputeStats, ComputeMean, Totals
<1>3. Calculators' = Calculators
  BY <1>2 DEF Calculators, Examples, Vectors
<1>4. PICK flows, n : flows = taken' /\ n = Len(taken')
  OBVIOUS
<1>5. CalculatorOK(Calculator, n, flows)
  <2>1. CASE UNCHANGED taken
    BY <1>4, <2>1 DEF CalculatorInv
  <2>2. CASE out # <<>> /\ Recycle
    <3>1. PICK a, b \in Nat : a = Len(taken) /\ b = Len(Head(out))
      BY <2>2, RecycleTakes DEF CalculatorInv
    <3>2. n = a + b /\ \A j \in 1 .. a : flows[j] = taken[j]
      BY <1>4, <2>2, <3>1, RecycleTakes DEF CalculatorInv
    <3>3. CalculatorOK(Calculator, a, taken) /\ a <= a + b /\ a + b \in Nat
      BY <3>1 DEF CalculatorInv
    <3>. QED  BY <3>1, <3>2, <3>3, TakenKept
  <2>. QED  BY <2>1, <2>2
<1>6. CalculatorOK(Calculator, Len(taken), taken)'
  BY <1>1, <1>2, <1>4, <1>5 DEF CalculatorOK
<1>. QED
  BY <1>1, <1>3, <1>6 DEF CalculatorInv

LEMMA NextCalculatorInv ==
    ASSUME CalculatorInv, [ProgramsNext]_programs_vars
    PROVE  CalculatorInv'
<1>1. program' = program /\ ReaderTypes'
  BY ReaderSteps, ReaderTypesNext DEF CalculatorInv
<1>2. \/ Calculate
      \/ UNCHANGED calculator_vars /\ (UNCHANGED taken \/ (out # <<>> /\ Recycle))
  <2>1. CASE ReaderThread
    <3>1. UNCHANGED taken
      BY <2>1 DEF ReaderThread, ReaderStep, MicroflowStep, ReplayStep, Allocate, ReadMicroflow,
                  ReadMicroflowsEnd, TimeoutFlow, TimeoutFlowsEnd, Benchmark, ReplayClfr,
                  ReplayEnd
    <3>. QED  BY <2>1, <3>1 DEF ReaderThread
  <2>2. CASE KernelStep
    <3>1. CASE Profile /\ UNCHANGED calculator_vars
      BY <3>1 DEF Profile
    <3>2. CASE Detect /\ UNCHANGED calculator_vars
      BY <3>2 DEF Detect, DetectFlow, DetectEnd, reader_vars
    <3>3. CASE CloneStep /\ UNCHANGED calculator_vars
      BY <3>3 DEF CloneStep, Clone, CloneEnd, reader_vars
    <3>. QED
      BY <2>2, <3>1, <3>2, <3>3 DEF KernelStep, RichRun, AllStatsRun, NetFlowRun, PfeRun
  <2>3. CASE BranchStep
    BY <2>3 DEF BranchStep, ChainStep, CounterStep, ReplicatedStep, ReplicatedPush, TapStep,
                TapFirst, TapSecond, reader_vars
  <2>4. CASE Over \/ Stuck \/ UNCHANGED programs_vars
    BY <2>4 DEF Over, Stuck, programs_vars, reader_vars
  <2>5. ASSUME NEW q \in Printers, PrinterStep(q)
        PROVE  UNCHANGED calculator_vars /\ UNCHANGED taken
    BY <2>5 DEF PrinterStep, TakeValue, reader_vars
  <2>. QED  BY <2>1, <2>2, <2>3, <2>4, <2>5 DEF ProgramsNext
<1>. QED
  BY <1>1, <1>2, CalculateInv, OthersCalculatorInv

LEMMA CalculatorTrainedThenJudged ==
    ASSUME CalculatorInv
    PROVE  TrainedThenJudged
<1>1. /\ variant \in Variants
      /\ Calculator.samples = samples /\ Calculator.judged = judged
      /\ Calculator.counts = sample_counts /\ Calculator.totals = total_counts
      /\ Calculator.built = model_built /\ Calculator.normalized = normalized
  BY DEF CalculatorInv, Calculator
<1>2. /\ IsFiniteSet(samples)
      /\ \A e \in samples \cup judged : e.label = Label[taken[e.flow].key]
      /\ \A e \in samples : e.label \in Classes /\ e.x = Features(e.flow)
      /\ \A e \in judged : e.x = Normalized(Features(e.flow))
      /\ normalized = IF model_built THEN 1 ELSE 0
      /\ \A l \in Classes : /\ sample_counts[l] = Cardinality(OfLabel(samples, l))
                            /\ sample_counts[l] <= TrainCt
                            /\ total_counts[l] = Cardinality(OfLabel(judged, l))
      /\ model_built => Full(samples)
      /\ judged # {} => model_built
      /\ \A s \in samples, e \in judged : s.flow < e.flow
  BY <1>1 DEF CalculatorInv, CalculatorOK
<1>6. PICK d : d = Dimension
  OBVIOUS
<1>7. ASSUME NEW e \in samples PROVE Whole(e.x, d, e.flow, 0)
  BY <1>1, <1>2, <1>6, FeaturesWhole
<1>8. ASSUME NEW e \in judged PROVE Whole(e.x, d, e.flow, 1)
  <2>1. PICK h, n : n = e.flow /\ h = Features(n) /\ e.x = Normalized(h)
    BY <1>2
  <2>2. Whole(h, d, n, 0)
    BY <1>1, <1>6, <2>1, FeaturesWhole
  <2>3. Whole(Normalized(h), d, n, 0 + 1)
    BY <2>2, NormalizedWhole
  <2>. QED  BY <2>1, <2>3
<1>9. ASSUME NEW h, NEW n, NEW t, Whole(h, d, n, t)
      PROVE  DOMAIN h = 0 .. d - 1 /\ \A j \in DOMAIN h : h[j].of = n /\ h[j].times = t
  <2>1. h = [j \in 0 .. d - 1 |-> h[j]]
    BY <1>9 DEF Whole
  <2>2. DOMAIN h = 0 .. d - 1
    BY <2>1
  <2>3. ASSUME NEW j \in 0 .. d - 1 PROVE h[j].of = n /\ h[j].times = t
    <3>1. PICK a, o, w : a = h[j] /\ o = a.of /\ w = a.what
      OBVIOUS
    <3>2. a = [of |-> o, what |-> w, times |-> t] /\ o = n
      BY <1>9, <3>1 DEF Whole
    <3>. QED  BY <3>1, <3>2
  <2>. QED  BY <2>2, <2>3
<1>3. ExamplesWhole /\ SameScale
  <2>1. ASSUME NEW e \in samples
        PROVE  /\ DOMAIN e.x = 0 .. d - 1
               /\ \A j \in DOMAIN e.x : e.x[j].of = e.flow /\ e.x[j].times = 0
    BY <1>7, <1>9
  <2>2. ASSUME NEW e \in judged
        PROVE  /\ DOMAIN e.x = 0 .. d - 1
               /\ \A j \in DOMAIN e.x : e.x[j].of = e.flow /\ e.x[j].times = 1
    BY <1>8, <1>9
  <2>3. ExamplesWhole
    BY <1>2, <1>6, <2>1, <2>2 DEF ExamplesWhole
  <2>4. SameScale
    <3>1. 0 + normalized = normalized
      BY <1>2
    <3>. QED  BY <1>2, <2>1, <2>2, <3>1 DEF SameScale
  <2>. QED  BY <2>3, <2>4
<1>4. ASSUME model_built, NEW c \in Classes
      PROVE  Cardinality({s \in samples : s.label = c}) = TrainCt
  <2>1. Cardinality(OfLabel(samples, c)) = TrainCt
    BY <1>2, <1>4, ClassesFull DEF Full
  <2>. QED  BY <2>1 DEF OfLabel
<1>5. \A c \in Classes : total_counts[c] = Cardinality({e \in judged : e.label = c})
  BY <1>2 DEF OfLabel
<1>. QED
  BY <1>2, <1>3, <1>4, <1>5 DEF TrainedThenJudged

\* In every one of the four kernels, for classes and numbers of samples of any
\* size: a classifier is trained on equally many flows of each class, all of
\* them before the first that it judges, and no vector mixes two flows.
THEOREM TrainedBeforeJudged == ProgramsSpec => []TrainedThenJudged
<1>1. ProgramsInit => CalculatorInv
  BY InitCalculatorInv
<1>2. CalculatorInv /\ [ProgramsNext]_programs_vars => CalculatorInv'
  BY NextCalculatorInv
<1>3. CalculatorInv => TrainedThenJudged
  BY CalculatorTrainedThenJudged
<1>. QED
  BY <1>1, <1>2, <1>3, PTL DEF ProgramsSpec

-----------------------------------------------------------------------------
(***************************************************************************)
(* The kernels that copy and count.                                        *)
(***************************************************************************)

\* The flows of some batches, as a sum of which F[m] are the partial ones.
LEMMA FlowsAdd ==
    ASSUME NEW s \in Seq(Seq(Recs)), NEW n \in Nat, n = Len(s)
    PROVE  \E F \in [0 .. n -> Nat] :
              Adds(n, [m \in 1 .. n |-> Len(s[m])], F) /\ Flows(s) = F[n]
<1>. DEFINE rec(g) == [t \in SUBSET (1 .. n) |->
                          IF t = {} THEN 0 ELSE g[t \ {Max(t)}] + Len(s[Max(t)])]
            iter == CHOOSE g : g = rec(g)
            op == [x \in (1 .. n) \X Nat |-> x[2] + Len(s[x[1]])]
<1>1. DOMAIN s = 1 .. n
  BY LenProperties
<1>2. Flows(s) = iter[1 .. n]
  <2>1. Flows(s) = (CHOOSE g : g = [t \in SUBSET DOMAIN s |->
                       IF t = {} THEN 0 ELSE g[t \ {Max(t)}] + Len(s[Max(t)])])[DOMAIN s]
    BY Zenon DEF Flows, FoldLeft, MapThenFoldSet
  <2>. QED  BY <1>1, <2>1
<1>3. op \in [(1 .. n) \X Nat -> Nat] /\ \A m \in 1 .. n, t \in Nat : op[<<m, t>>] = t + Len(s[m])
  <2>1. \A m \in 1 .. n : Len(s[m]) \in Nat
    <3>. HIDE DEF Recs
    <3>1. \A m \in 1 .. n : s[m] \in Seq(Recs)
      BY <1>1, ElementOfSeq
    <3>. QED  BY <3>1, LenProperties
  <2>. QED  BY <2>1
<1>. HIDE DEF op
<1>4. PICK g \in [SUBSET (1 .. n) -> Nat] : FoldsUp(n, 0, Nat, op, g)
  <2>1. 0 \in Nat
    OBVIOUS
  <2>. QED  BY <1>3, <2>1, FoldRecursion
<1>5. \A t \in SUBSET (1 .. n) : t # {} => Max(t) \in 1 .. n /\ t \ {Max(t)} \in SUBSET (1 .. n)
  BY MaxOfBounded
<1>6. g = rec(g)
  <2>1. ASSUME NEW t \in SUBSET (1 .. n)
        PROVE  g[t] = IF t = {} THEN 0 ELSE g[t \ {Max(t)}] + Len(s[Max(t)])
    <3>1. PICK x : x = Max(t)
      OBVIOUS
    <3>2. t # {} => x \in 1 .. n /\ g[t \ {x}] \in Nat
      BY <1>5, <3>1
    <3>. QED  BY <1>3, <1>4, <3>1, <3>2 DEF FoldsUp
  <2>. QED  BY <2>1
<1>7. iter = rec(iter)
  <2>. HIDE DEF rec
  <2>. QED  BY <1>6, Zenon
<1>. HIDE DEF iter
<1>8. FoldsUp(n, 0, Nat, op, iter)
  <2>1. ASSUME NEW t \in SUBSET (1 .. n), t # {}, iter[t \ {Max(t)}] \in Nat
        PROVE  iter[t] = op[<<Max(t), iter[t \ {Max(t)}]>>]
    <3>1. PICK x : x = Max(t)
      OBVIOUS
    <3>2. x \in 1 .. n
      BY <1>5, <2>1, <3>1
    <3>3. iter[t] = iter[t \ {x}] + Len(s[x])
      BY <1>7, <2>1, <3>1
    <3>. QED  BY <1>3, <2>1, <3>1, <3>2, <3>3
  <2>2. iter[{}] = 0
    BY <1>7
  <2>. QED  BY <2>1, <2>2 DEF FoldsUp
<1>9. PICK F \in [0 .. n -> Nat] : Steps(n, 0, op, F) /\ F[n] = iter[1 .. n]
  <2>1. 0 \in Nat
    OBVIOUS
  <2>2. Folded(n, 0, Nat, op, iter[1 .. n])
    BY <1>3, <1>8, <2>1, FoldSteps
  <2>. QED  BY <2>2 DEF Folded
<1>10. Adds(n, [m \in 1 .. n |-> Len(s[m])], F)
  <2>1. ASSUME NEW l \in 0 .. n, NEW m \in 0 .. n, m = l + 1
        PROVE  F[m] = F[l] + Len(s[m]) /\ m \in 1 .. n
    <3>1. m \in 1 .. n /\ F[l] \in Nat
      <4>1. F[l] \in Nat
        BY <1>9, Zenon
      <4>2. m \in 1 .. n
        BY <2>1
      <4>. QED  BY <4>1, <4>2, Zenon
    <3>2. F[m] = op[<<m, F[l]>>]
      BY <1>9, <2>1, Zenon DEF Steps
    <3>. QED  BY <1>3, <3>1, <3>2
  <2>. QED  BY <1>9, <2>1 DEF Steps, Adds
<1>. QED
  BY <1>2, <1>9, <1>10

LEMMA FlowsNone == Flows(<<>>) = 0
<1>1. <<>> \in Seq(Seq(Recs)) /\ Len(<<>>) = 0
  BY EmptySeq
<1>2. PICK z \in Nat : z = 0
  OBVIOUS
<1>3. PICK s : s = <<>>
  OBVIOUS
<1>4. PICK F \in [0 .. z -> Nat] : Adds(z, [m \in 1 .. z |-> Len(s[m])], F) /\ Flows(s) = F[z]
  BY <1>1, <1>2, <1>3, FlowsAdd
<1>5. F[0] = 0
  BY <1>4, Zenon DEF Adds
<1>. QED
  BY <1>2, <1>3, <1>4, <1>5

\* A batch is sent, and a batch is taken.
LEMMA FlowsSent ==
    ASSUME NEW s \in Seq(Seq(Recs)), NEW b \in Seq(Recs)
    PROVE  /\ Flows(s) \in Nat /\ Len(b) \in Nat /\ Append(s, b) \in Seq(Seq(Recs))
           /\ Flows(Append(s, b)) = Flows(s) + Len(b)
<1>. HIDE DEF Recs
<1>1. PICK n \in Nat : n = Len(s)
  BY LenProperties
<1>2. PICK t : t = Append(s, b)
  OBVIOUS
<1>3. /\ t \in Seq(Seq(Recs)) /\ Len(t) = n + 1 /\ t[n + 1] = b
      /\ \A m \in 1 .. n : t[m] = s[m]
  BY <1>1, <1>2, AppendProperties
<1>. DEFINE f == [m \in 1 .. n |-> Len(s[m])]
            e == [m \in 1 .. n + 1 |-> Len(t[m])]
<1>4. PICK F \in [0 .. n -> Nat] : Adds(n, f, F) /\ Flows(s) = F[n]
  BY <1>1, FlowsAdd
<1>5. PICK E \in [0 .. n + 1 -> Nat] : Adds(n + 1, e, E) /\ Flows(t) = E[n + 1]
  <2>1. PICK k \in Nat : k = n + 1
    OBVIOUS
  <2>2. k = Len(t)
    BY <1>3, <2>1
  <2>. QED  BY <1>3, <2>1, <2>2, FlowsAdd
<1>6. f \in [1 .. n -> Nat] /\ e \in [1 .. n + 1 -> Nat] /\ e[n + 1] = Len(b)
      /\ \A m \in 1 .. n : e[m] = f[m]
  <2>1. \A m \in 1 .. n + 1 : t[m] \in Seq(Recs)
    BY <1>3, ElementOfSeq
  <2>2. \A m \in 1 .. n : s[m] \in Seq(Recs)
    BY <1>1, ElementOfSeq
  <2>3. n + 1 \in 1 .. n + 1
    OBVIOUS
  <2>4. /\ \A m \in 1 .. n + 1 : Len(t[m]) \in Nat
        /\ \A m \in 1 .. n : Len(s[m]) \in Nat
    BY <2>1, <2>2, LenProperties
  <2>5. e[n + 1] = Len(b)
    BY <1>3, <2>3
  <2>6. \A m \in 1 .. n : e[m] = f[m]
    <3>1. \A m \in 1 .. n : m \in 1 .. n + 1
      OBVIOUS
    <3>. QED  BY <1>3, <3>1
  <2>. QED  BY <2>4, <2>5, <2>6
<1>7. Len(b) \in Nat
  BY LenProperties
<1>. HIDE DEF e, f
<1>8. E[n + 1] = F[n] + e[n + 1]
  BY <1>4, <1>5, <1>6, AddsAppend
<1>9. F[n] \in Nat
  OBVIOUS
<1>. QED
  BY <1>2, <1>3, <1>4, <1>5, <1>6, <1>7, <1>8, <1>9

LEMMA FlowsTaken ==
    ASSUME NEW s \in Seq(Seq(Recs)), s # <<>>
    PROVE  /\ Head(s) \in Seq(Recs) /\ Tail(s) \in Seq(Seq(Recs)) /\ Len(Head(s)) \in Nat
           /\ Flows(Tail(s)) \in Nat
           /\ Flows(s) = Len(Head(s)) + Flows(Tail(s))
<1>. HIDE DEF Recs
<1>1. PICK n \in Nat : n + 1 = Len(s)
  <2>1. Len(s) \in Nat /\ Len(s) # 0
    BY LenProperties, EmptySeq
  <2>2. Len(s) - 1 \in Nat /\ (Len(s) - 1) + 1 = Len(s)
    BY <2>1
  <2>. QED  BY <2>2
<1>2. PICK t : t = Tail(s)
  OBVIOUS
<1>3. /\ Head(s) = s[1] /\ Head(s) \in Seq(Recs)
      /\ t \in Seq(Seq(Recs)) /\ Len(t) = n
      /\ \A m \in 1 .. n : t[m] = s[m + 1]
  <2>1. /\ Head(s) \in Seq(Recs) /\ t \in Seq(Seq(Recs)) /\ Len(t) = Len(s) - 1
        /\ \A m \in 1 .. Len(t) : t[m] = s[m + 1]
    BY <1>2, HeadTailProperties
  <2>2. Len(s) - 1 = n
    BY <1>1
  <2>. QED  BY <2>1, <2>2
<1>. DEFINE f == [m \in 1 .. n |-> Len(t[m])]
            e == [m \in 1 .. n + 1 |-> Len(s[m])]
<1>4. PICK F \in [0 .. n -> Nat] : Adds(n, f, F) /\ Flows(t) = F[n]
  BY <1>3, FlowsAdd
<1>5. PICK E \in [0 .. n + 1 -> Nat] : Adds(n + 1, e, E) /\ Flows(s) = E[n + 1]
  <2>1. PICK k \in Nat : k = n + 1
    OBVIOUS
  <2>2. k = Len(s)
    BY <1>1, <2>1
  <2>. QED  BY <2>1, <2>2, FlowsAdd
<1>6. /\ f \in [1 .. n -> Nat] /\ e \in [1 .. n + 1 -> Nat] /\ e[1] = Len(Head(s))
      /\ Behind(n, f, e)
  <2>1. \A m \in 1 .. n + 1 : s[m] \in Seq(Recs)
    BY <1>1, ElementOfSeq
  <2>2. \A m \in 1 .. n : t[m] \in Seq(Recs)
    BY <1>3, ElementOfSeq
  <2>3. 1 \in 1 .. n + 1
    OBVIOUS
  <2>. QED  BY <1>3, <2>1, <2>2, <2>3, LenProperties DEF Behind
<1>7. Len(Head(s)) \in Nat
  BY <1>3, LenProperties
<1>. HIDE DEF e, f
<1>8. E[n + 1] = e[1] + F[n]
  BY <1>4, <1>5, <1>6, AddsTail
<1>9. F[n] \in Nat
  OBVIOUS
<1>. QED
  BY <1>2, <1>3, <1>4, <1>5, <1>6, <1>7, <1>8, <1>9

\* What the reader sends is a batch behind the others.
LEMMA ReaderSends ==
    ASSUME ReaderTypes, program \in Programs, ReaderThread
    PROVE  out' = out \/ \E b \in Seq(Recs) : out' = Append(out, b)
<1>1. batch \in Seq(Recs)
  BY DEF ReaderTypes
<1>2. ASSUME NEW flow \in Recs, NEW limit, EmplaceBack(flow, limit)
      PROVE  out' = out \/ \E b \in Seq(Recs) : out' = Append(out, b)
  <2>. HIDE DEF Recs
  <2>1. Append(batch, flow) \in Seq(Recs)
    BY <1>1, AppendProperties
  <2>. QED  BY <1>2, <2>1 DEF EmplaceBack
<1>3. \A m \in Files[program] : m \in Microflows
  BY ProgramsAssumption
<1>4. CASE Allocate \/ ReadMicroflowsEnd \/ TimeoutFlowsEnd \/ Benchmark
  BY <1>4 DEF Allocate, ReadMicroflowsEnd, TimeoutFlowsEnd, Benchmark
<1>5. CASE ReplayEnd
  BY <1>1, <1>5 DEF ReplayEnd
<1>6. ASSUME NEW m \in Microflows, ReplayClfr(m)
      PROVE  out' = out \/ \E b \in Seq(Recs) : out' = Append(out, b)
  <2>1. [key |-> m.key, mfs |-> <<Len(read) + 1>>] \in Recs
    <3>1. Len(read) + 1 \in Nat
      BY DEF ReaderTypes
    <3>2. <<Len(read) + 1>> \in Seq(Nat)
      BY <3>1
    <3>. QED  BY <3>2 DEF Recs
  <2>. QED  BY <1>2, <1>6, <2>1 DEF ReplayClfr
<1>7. ASSUME NEW m \in Microflows, ReadMicroflow(m)
      PROVE  out' = out \/ \E b \in Seq(Recs) : out' = Append(out, b)
  <2>. DEFINE before == IF m.key \in DOMAIN table THEN table[m.key] ELSE <<>>
              mfs == Append(before, Len(read) + 1)
  <2>1. before \in Seq(Nat)
    BY DEF ReaderTypes
  <2>2. Len(read) + 1 \in Nat
    BY DEF ReaderTypes
  <2>3. mfs \in Seq(Nat)
    <3>. HIDE DEF before
    <3>. QED  BY <2>1, <2>2, AppendProperties
  <2>4. [key |-> m.key, mfs |-> mfs] \in Recs
    <3>. HIDE DEF mfs
    <3>. QED  BY <2>3 DEF Recs
  <2>5. EmplaceBack([key |-> m.key, mfs |-> mfs], BatchSize) \/ out' = out
    BY <1>7 DEF ReadMicroflow
  <2>. HIDE DEF mfs
  <2>. QED  BY <1>2, <2>4, <2>5
<1>8. ASSUME NEW k \in todo, TimeoutFlow(k)
      PROVE  out' = out \/ \E b \in Seq(Recs) : out' = Append(out, b)
  <2>1. [key |-> k, mfs |-> table[k]] \in Recs
    BY DEF Recs, ReaderTypes
  <2>. QED  BY <1>2, <1>8, <2>1 DEF TimeoutFlow
<1>. QED
  BY <1>3, <1>4, <1>5, <1>6, <1>7, <1>8 DEF ReaderThread, ReaderStep, MicroflowStep, ReplayStep

Counting == program.kernel \in {"count", "tap"}

Replicas == [counter : Nat, total : Nat, pushing : BOOLEAN]

CountTypes ==
    /\ port \in [0 .. 1 -> Seq(Seq(Recs))] /\ chained \in Seq(Seq(Recs))
    /\ cloned \in 0 .. 2 /\ (cloned # 0 => out # <<>>)
    /\ flow_counter \in Nat /\ replica \in Replicas
    /\ tapped \in [0 .. 1 -> Nat]

CountInv ==
    /\ ReaderTypes /\ program \in Programs
    /\ Counting => CountTypes /\ CountsAgree

\* The numbers that CountsAgree is about: flows on the three streams, taken, and in
\* the batch at hand; the counters; and what the tap took.
Sums(po, ch, tk, o, fc, re, ta, a, b, c, d, e, f, r, s, t, u) ==
    /\ a = Flows(po[0]) /\ b = Flows(po[1]) /\ c = Flows(ch) /\ d = Len(tk)
    /\ (o # <<>> => e = Len(Head(o)))
    /\ f = fc /\ r = re.total /\ s = re.counter /\ t = ta[0] /\ u = ta[1]

Agrees(cl, a, b, c, d, e, f, r, s, t, u) ==
    /\ a + c + f + t = d + (IF cl > 0 THEN e ELSE 0)
    /\ b + r + s + u = d + (IF cl > 1 THEN e ELSE 0)

SumsNow(a, b, c, d, e, f, r, s, t, u) ==
    Sums(port, chained, taken, out, flow_counter, replica, tapped, a, b, c, d, e, f, r, s, t, u)
SumsThen(a, b, c, d, e, f, r, s, t, u) ==
    Sums(port', chained', taken', out', flow_counter', replica', tapped',
         a, b, c, d, e, f, r, s, t, u)

LEMMA AgreeNow ==
    ASSUME CountTypes, NEW a, NEW b, NEW c, NEW d, NEW e, NEW f, NEW r, NEW s, NEW t, NEW u,
           SumsNow(a, b, c, d, e, f, r, s, t, u)
    PROVE  CountsAgree <=> Agrees(cloned, a, b, c, d, e, f, r, s, t, u)
<1>1. /\ a = Flows(port[0]) /\ b = Flows(port[1]) /\ c = Flows(chained) /\ d = Len(taken)
      /\ f = flow_counter /\ r = replica.total /\ s = replica.counter
      /\ t = tapped[0] /\ u = tapped[1]
      /\ cloned > 0 => e = Len(Head(out))
      /\ cloned > 1 => e = Len(Head(out))
  <2>1. (cloned > 0 \/ cloned > 1) => out # <<>>
    BY DEF CountTypes
  <2>. QED  BY <2>1, Zenon DEF SumsNow, Sums
<1>. QED
  BY <1>1, Zenon DEF CountsAgree, Agrees, Pushed

LEMMA AgreePrimed ==
    (CountTypes =>
        \A a, b, c, d, e, f, r, s, t, u : SumsNow(a, b, c, d, e, f, r, s, t, u) =>
            (CountsAgree <=> Agrees(cloned, a, b, c, d, e, f, r, s, t, u)))'
<1>1. CountTypes =>
        \A a, b, c, d, e, f, r, s, t, u : SumsNow(a, b, c, d, e, f, r, s, t, u) =>
            (CountsAgree <=> Agrees(cloned, a, b, c, d, e, f, r, s, t, u))
  BY AgreeNow
<1>. QED
  BY <1>1, PTL

LEMMA AgreeThen ==
    ASSUME CountTypes', NEW a, NEW b, NEW c, NEW d, NEW e, NEW f, NEW r, NEW s, NEW t, NEW u,
           SumsThen(a, b, c, d, e, f, r, s, t, u), Agrees(cloned', a, b, c, d, e, f, r, s, t, u)
    PROVE  CountsAgree'
<1>1. SumsNow(a, b, c, d, e, f, r, s, t, u)'
  BY DEF SumsNow, SumsThen
<1>. QED
  BY <1>1, AgreePrimed, Zenon

LEMMA SumsAre ==
    ASSUME CountInv, Counting
    PROVE  /\ \E a, b, c, d, e, f, r, s, t, u \in Nat :
                 /\ SumsNow(a, b, c, d, e, f, r, s, t, u)
                 /\ Agrees(cloned, a, b, c, d, e, f, r, s, t, u)
           /\ port[0] \in Seq(Seq(Recs)) /\ port[1] \in Seq(Seq(Recs))
           /\ out \in Seq(Seq(Recs)) /\ (out # <<>> => Head(out) \in Seq(Recs))
           /\ ReaderTypes /\ CountTypes
<1>0. ReaderTypes /\ CountTypes /\ CountsAgree
  BY DEF CountInv
<1>. HIDE DEF Recs
<1>1. port[0] \in Seq(Seq(Recs)) /\ port[1] \in Seq(Seq(Recs)) /\ chained \in Seq(Seq(Recs))
  BY <1>0 DEF CountTypes
<1>2. out \in Seq(Seq(Recs)) /\ taken \in Seq(Recs)
  BY <1>0 DEF ReaderTypes
<1>3. Flows(port[0]) \in Nat /\ Flows(port[1]) \in Nat /\ Flows(chained) \in Nat
  <2>1. <<>> \in Seq(Recs)
    BY EmptySeq
  <2>. QED  BY <1>1, <2>1, FlowsSent
<1>4. Len(taken) \in Nat
  BY <1>2, LenProperties
<1>5. out # <<>> => Head(out) \in Seq(Recs) /\ Len(Head(out)) \in Nat
  BY <1>2, FlowsTaken
<1>6. PICK a, b, c, d \in Nat : /\ a = Flows(port[0]) /\ b = Flows(port[1])
                                /\ c = Flows(chained) /\ d = Len(taken)
  BY <1>3, <1>4
<1>7. PICK e \in Nat : out # <<>> => e = Len(Head(out))
  BY <1>5
<1>8. PICK f, r, s, t, u \in Nat : /\ f = flow_counter /\ r = replica.total
                                   /\ s = replica.counter /\ t = tapped[0] /\ u = tapped[1]
  <2>1. /\ flow_counter \in Nat /\ replica.total \in Nat /\ replica.counter \in Nat
        /\ tapped[0] \in Nat /\ tapped[1] \in Nat
    BY <1>0 DEF CountTypes, Replicas
  <2>. QED  BY <2>1
<1>9. SumsNow(a, b, c, d, e, f, r, s, t, u)
  BY <1>6, <1>7, <1>8 DEF SumsNow, Sums
<1>10. Agrees(cloned, a, b, c, d, e, f, r, s, t, u)
  BY <1>0, <1>9, AgreeNow
<1>. QED
  BY <1>0, <1>1, <1>2, <1>5, <1>9, <1>10

\* The reader may append to the stream while the cloner copies its head.
LEMMA CountReader ==
    ASSUME CountInv, Counting, UNCHANGED counter_vars, taken' = taken,
           out' = out \/ \E b \in Seq(Recs) : out' = Append(out, b)
    PROVE  (CountTypes /\ CountsAgree)'
<1>1. /\ UNCHANGED <<port, chained, cloned, flow_counter, replica, tapped>>
  BY DEF counter_vars, count_vars
<1>2. PICK a, b, c, d, e, f, r, s, t, u \in Nat :
         /\ SumsNow(a, b, c, d, e, f, r, s, t, u)
         /\ Agrees(cloned, a, b, c, d, e, f, r, s, t, u)
  BY SumsAre
<1>3. out # <<>> => out' # <<>> /\ Head(out') = Head(out)
  <2>. HIDE DEF Recs
  <2>1. out \in Seq(Seq(Recs))
    BY SumsAre
  <2>2. ASSUME NEW h \in Seq(Recs), out' = Append(out, h), out # <<>>
        PROVE  out' # <<>> /\ Head(out') = Head(out)
    <3>1. PICK n \in Nat : n = Len(out) /\ n # 0
      BY <2>1, <2>2, LenProperties, EmptySeq
    <3>2. PICK o : o = out'
      OBVIOUS
    <3>3. /\ o \in Seq(Seq(Recs)) /\ Len(o) = n + 1 /\ \A j \in 1 .. n : o[j] = out[j]
      BY <2>1, <2>2, <3>1, <3>2, AppendProperties
    <3>4. o # <<>> /\ 1 \in 1 .. n
      BY <3>1, <3>3, EmptySeq
    <3>5. Head(o) = o[1] /\ Head(out) = out[1]
      BY <2>1, <2>2, <3>3, <3>4, HeadTailProperties
    <3>. QED  BY <3>2, <3>3, <3>4, <3>5
  <2>. QED  BY <2>1, <2>2
<1>4. CountTypes'
  BY <1>1, <1>3, SumsAre DEF CountTypes
<1>5. PICK x \in Nat : (out' # <<>> => x = Len(Head(out'))) /\ (cloned # 0 => x = e)
  <2>1. out' \in Seq(Seq(Recs))
    <3>. HIDE DEF Recs
    <3>1. out \in Seq(Seq(Recs))
      BY SumsAre
    <3>. QED  BY <3>1, AppendProperties
  <2>2. out' # <<>> => Len(Head(out')) \in Nat
    BY <2>1, FlowsTaken
  <2>3. cloned # 0 => out # <<>> /\ out' # <<>> /\ Len(Head(out')) = e
    BY <1>2, <1>3, SumsAre DEF CountTypes, SumsNow, Sums
  <2>. QED  BY <2>2, <2>3
<1>6. SumsThen(a, b, c, d, x, f, r, s, t, u)
  BY <1>1, <1>2, <1>5 DEF SumsNow, SumsThen, Sums
<1>7. Agrees(cloned', a, b, c, d, x, f, r, s, t, u)
  <2>1. cloned' = cloned /\ cloned \in 0 .. 2
    BY <1>1, SumsAre DEF CountTypes
  <2>. QED  BY <1>2, <1>5, <2>1 DEF Agrees
<1>. QED
  BY <1>4, <1>6, <1>7, AgreeThen

LEMMA CountClone ==
    ASSUME CountInv, Counting, NEW p \in Ports, Clone(p)
    PROVE  (CountTypes /\ CountsAgree)'
<1>1. PICK a, b, c, d, e, f, r, s, t, u \in Nat :
         /\ SumsNow(a, b, c, d, e, f, r, s, t, u)
         /\ Agrees(cloned, a, b, c, d, e, f, r, s, t, u)
  BY SumsAre
<1>2. /\ port[0] \in Seq(Seq(Recs)) /\ port[1] \in Seq(Seq(Recs)) /\ Head(out) \in Seq(Recs)
      /\ out # <<>> /\ cloned = p /\ cloned' = p + 1
      /\ port' = [port EXCEPT ![p] = Append(port[p], Head(out))]
      /\ UNCHANGED <<out, taken, chained, flow_counter, replica, tapped>>
      /\ CountTypes
  BY SumsAre DEF Clone, reader_vars, count_vars
<1>. HIDE DEF Recs
<1>3. /\ Append(port[p], Head(out)) \in Seq(Seq(Recs))
      /\ Flows(Append(port[p], Head(out))) = Flows(port[p]) + e
  <2>1. port[p] \in Seq(Seq(Recs)) /\ Len(Head(out)) = e
    BY <1>1, <1>2 DEF Ports, SumsNow, Sums
  <2>. QED  BY <1>2, <2>1, FlowsSent
<1>4. CountTypes'
  BY <1>2, <1>3 DEF CountTypes, Ports
<1>5. CASE p = 0
  <2>1. port'[0] = Append(port[0], Head(out)) /\ port'[1] = port[1]
    BY <1>2, <1>5 DEF CountTypes
  <2>2. PICK x \in Nat : x = a + e
    OBVIOUS
  <2>3. Flows(port'[0]) = x /\ Flows(port'[1]) = b
    BY <1>1, <1>3, <1>5, <2>1, <2>2 DEF SumsNow, Sums
  <2>4. SumsThen(x, b, c, d, e, f, r, s, t, u)
    BY <1>1, <1>2, <2>3 DEF SumsNow, SumsThen, Sums
  <2>5. Agrees(cloned', x, b, c, d, e, f, r, s, t, u)
    BY <1>1, <1>2, <1>5, <2>2 DEF Agrees
  <2>. QED  BY <1>4, <2>4, <2>5, AgreeThen
<1>6. CASE p = 1
  <2>1. port'[1] = Append(port[1], Head(out)) /\ port'[0] = port[0]
    BY <1>2, <1>6 DEF CountTypes
  <2>2. PICK x \in Nat : x = b + e
    OBVIOUS
  <2>3. Flows(port'[1]) = x /\ Flows(port'[0]) = a
    BY <1>1, <1>3, <1>6, <2>1, <2>2 DEF SumsNow, Sums
  <2>4. SumsThen(a, x, c, d, e, f, r, s, t, u)
    BY <1>1, <1>2, <2>3 DEF SumsNow, SumsThen, Sums
  <2>5. Agrees(cloned', a, x, c, d, e, f, r, s, t, u)
    BY <1>1, <1>2, <1>6, <2>2 DEF Agrees
  <2>. QED  BY <1>4, <2>4, <2>5, AgreeThen
<1>. QED
  BY <1>5, <1>6 DEF Ports

LEMMA CountCloneEnd ==
    ASSUME CountInv, Counting, CloneEnd
    PROVE  (CountTypes /\ CountsAgree)'
<1>1. PICK a, b, c, d, e, f, r, s, t, u \in Nat :
         /\ SumsNow(a, b, c, d, e, f, r, s, t, u)
         /\ Agrees(cloned, a, b, c, d, e, f, r, s, t, u)
  BY SumsAre
<1>2. /\ out # <<>> /\ cloned = 2 /\ cloned' = 0 /\ Recycle
      /\ UNCHANGED <<port, chained, flow_counter, replica, tapped>>
      /\ ReaderTypes /\ CountTypes
  BY SumsAre DEF CloneEnd, count_vars
<1>3. PICK x \in Nat : x = d + e
  OBVIOUS
<1>4. Len(taken') = x
  BY <1>1, <1>2, <1>3, RecycleTakes DEF SumsNow, Sums
<1>5. CountTypes'
  BY <1>2 DEF CountTypes
<1>6. PICK y \in Nat : out' # <<>> => y = Len(Head(out'))
  <2>1. out' \in Seq(Seq(Recs))
    <3>. HIDE DEF Recs
    <3>. QED  BY <1>2, SumsAre, FlowsTaken DEF Recycle
  <2>. QED  BY <2>1, FlowsTaken
<1>7. SumsThen(a, b, c, x, y, f, r, s, t, u)
  BY <1>1, <1>2, <1>4, <1>6 DEF SumsNow, SumsThen, Sums
<1>8. Agrees(cloned', a, b, c, x, y, f, r, s, t, u)
  BY <1>1, <1>2, <1>3 DEF Agrees
<1>. QED
  BY <1>5, <1>7, <1>8, AgreeThen

\* The kernels behind the cloner: a batch leaves the head of a stream and is
\* counted or sent on.
LEMMA CountChain ==
    ASSUME CountInv, Counting, ChainStep
    PROVE  (CountTypes /\ CountsAgree)'
<1>1. PICK a, b, c, d, e, f, r, s, t, u \in Nat :
         /\ SumsNow(a, b, c, d, e, f, r, s, t, u)
         /\ Agrees(cloned, a, b, c, d, e, f, r, s, t, u)
  BY SumsAre
<1>2. /\ port[0] # <<>> /\ port[0] \in Seq(Seq(Recs)) /\ chained \in Seq(Seq(Recs))
      /\ chained' = Append(chained, Head(port[0]))
      /\ port' = [port EXCEPT ![0] = Tail(port[0])]
      /\ UNCHANGED <<out, taken, cloned, flow_counter, replica, tapped>>
      /\ CountTypes
  BY SumsAre DEF ChainStep, reader_vars, CountTypes
<1>. HIDE DEF Recs
<1>3. PICK l, m \in Nat : l = Len(Head(port[0])) /\ m = Flows(Tail(port[0])) /\ a = l + m
  BY <1>1, <1>2, FlowsTaken DEF SumsNow, Sums
<1>4. Tail(port[0]) \in Seq(Seq(Recs)) /\ Head(port[0]) \in Seq(Recs)
  BY <1>2, FlowsTaken
<1>5. PICK x \in Nat : x = c + l
  OBVIOUS
<1>6. chained' \in Seq(Seq(Recs)) /\ Flows(chained') = x
  BY <1>1, <1>2, <1>3, <1>4, <1>5, FlowsSent DEF SumsNow, Sums
<1>7. port'[0] = Tail(port[0]) /\ port'[1] = port[1] /\ port' \in [0 .. 1 -> Seq(Seq(Recs))]
  BY <1>2, <1>4 DEF CountTypes
<1>8. SumsThen(m, b, x, d, e, f, r, s, t, u)
  BY <1>1, <1>2, <1>3, <1>6, <1>7 DEF SumsNow, SumsThen, Sums
<1>9. Agrees(cloned', m, b, x, d, e, f, r, s, t, u)
  <2>1. cloned' = cloned /\ cloned \in 0 .. 2
    BY <1>2, <1>3 DEF CountTypes
  <2>2. PICK p, q \in Nat : p = (IF cloned > 0 THEN e ELSE 0) /\ q = (IF cloned > 1 THEN e ELSE 0)
    OBVIOUS
  <2>3. a + c + f + t = d + p /\ b + r + s + u = d + q
    BY <1>1, <2>2 DEF Agrees
  <2>4. a = l + m /\ x = c + l
    BY <1>3, <1>5
  <2>5. m + x + f + t = d + p /\ b + r + s + u = d + q
    BY <2>3, <2>4
  <2>. QED  BY <2>1, <2>2, <2>5 DEF Agrees
<1>10. CountTypes'
  BY <1>2, <1>6, <1>7 DEF CountTypes
<1>. QED
  BY <1>8, <1>9, <1>10, AgreeThen

LEMMA CountChained ==
    ASSUME CountInv, Counting, CounterStep \/ TapFirst
    PROVE  (CountTypes /\ CountsAgree)'
<1>1. PICK a, b, c, d, e, f, r, s, t, u \in Nat :
         /\ SumsNow(a, b, c, d, e, f, r, s, t, u)
         /\ Agrees(cloned, a, b, c, d, e, f, r, s, t, u)
  BY SumsAre
<1>2. CountTypes /\ f = flow_counter /\ t = tapped[0] /\ u = tapped[1]
  BY <1>1, SumsAre DEF SumsNow, Sums
<1>3. /\ chained # <<>> /\ chained \in Seq(Seq(Recs)) /\ chained' = Tail(chained)
      /\ UNCHANGED <<out, taken, cloned, port, replica>>
      /\ \/ flow_counter' = f + Len(Head(chained)) /\ tapped' = tapped
         \/ /\ flow_counter' = f
            /\ tapped' = [tapped EXCEPT ![0] = t + Len(Head(chained))]
  BY <1>2 DEF CounterStep, TapFirst, reader_vars, CountTypes
<1>. HIDE DEF Recs
<1>4. PICK l, m \in Nat : l = Len(Head(chained)) /\ m = Flows(Tail(chained)) /\ c = l + m
  BY <1>1, <1>3, FlowsTaken DEF SumsNow, Sums
<1>5. Tail(chained) \in Seq(Seq(Recs))
  BY <1>3, FlowsTaken
<1>6. PICK x, y \in Nat : /\ x = flow_counter' /\ y = tapped'[0] /\ x + y = f + t + l
                          /\ tapped'[1] = u /\ tapped' \in [0 .. 1 -> Nat]
  <2>1. tapped \in [0 .. 1 -> Nat]
    BY <1>2 DEF CountTypes
  <2>2. CASE flow_counter' = f + l /\ tapped' = tapped
    BY <1>2, <2>1, <2>2
  <2>3. CASE flow_counter' = f /\ tapped' = [tapped EXCEPT ![0] = t + l]
    BY <1>2, <2>1, <2>3
  <2>. QED  BY <1>3, <1>4, <2>2, <2>3
<1>7. SumsThen(a, b, m, d, e, x, r, s, y, u)
  BY <1>1, <1>3, <1>4, <1>6 DEF SumsNow, SumsThen, Sums
<1>8. Agrees(cloned', a, b, m, d, e, x, r, s, y, u)
  <2>1. cloned' = cloned /\ cloned \in 0 .. 2
    BY <1>2, <1>3 DEF CountTypes
  <2>2. PICK p, q \in Nat : p = (IF cloned > 0 THEN e ELSE 0) /\ q = (IF cloned > 1 THEN e ELSE 0)
    OBVIOUS
  <2>3. a + c + f + t = d + p /\ b + r + s + u = d + q
    BY <1>1, <2>2 DEF Agrees
  <2>4. c = l + m /\ x + y = f + t + l
    BY <1>4, <1>6
  <2>5. a + m + x + y = d + p /\ b + r + s + u = d + q
    BY <2>3, <2>4
  <2>. QED  BY <2>1, <2>2, <2>5 DEF Agrees
<1>9. CountTypes'
  BY <1>2, <1>3, <1>5, <1>6 DEF CountTypes
<1>. QED
  BY <1>7, <1>8, <1>9, AgreeThen

LEMMA CountSecond ==
    ASSUME CountInv, Counting, ReplicatedStep \/ TapSecond
    PROVE  (CountTypes /\ CountsAgree)'
<1>1. PICK a, b, c, d, e, f, r, s, t, u \in Nat :
         /\ SumsNow(a, b, c, d, e, f, r, s, t, u)
         /\ Agrees(cloned, a, b, c, d, e, f, r, s, t, u)
  BY SumsAre
<1>2. CountTypes /\ r = replica.total /\ s = replica.counter /\ t = tapped[0] /\ u = tapped[1]
  BY <1>1, SumsAre DEF SumsNow, Sums
<1>3. /\ port[1] # <<>> /\ port[1] \in Seq(Seq(Recs))
      /\ port' = [port EXCEPT ![1] = Tail(port[1])]
      /\ UNCHANGED <<out, taken, cloned, chained, flow_counter>>
      /\ \/ replica' = Interval(s + Len(Head(port[1]))) /\ tapped' = tapped
         \/ /\ replica' = replica
            /\ tapped' = [tapped EXCEPT ![1] = u + Len(Head(port[1]))]
  BY <1>2 DEF ReplicatedStep, TapSecond, reader_vars, CountTypes
<1>. HIDE DEF Recs
<1>4. PICK l, m \in Nat : l = Len(Head(port[1])) /\ m = Flows(Tail(port[1])) /\ b = l + m
  BY <1>1, <1>3, FlowsTaken DEF SumsNow, Sums
<1>5. Tail(port[1]) \in Seq(Seq(Recs))
  BY <1>3, FlowsTaken
<1>6. port'[1] = Tail(port[1]) /\ port'[0] = port[0] /\ port' \in [0 .. 1 -> Seq(Seq(Recs))]
  BY <1>2, <1>3, <1>5 DEF CountTypes
<1>7. PICK x, y, z \in Nat : /\ x = replica'.total /\ y = replica'.counter /\ z = tapped'[1]
                             /\ x + y + z = r + s + u + l /\ replica' \in Replicas
                             /\ tapped'[0] = t /\ tapped' \in [0 .. 1 -> Nat]
  <2>1. tapped \in [0 .. 1 -> Nat]
    BY <1>2 DEF CountTypes
  <2>2. CASE replica' = Interval(s + l) /\ tapped' = tapped
    <3>1. \/ replica'.total = r + (s + l) /\ replica'.counter = 0
          \/ replica'.total = r /\ replica'.counter = s + l
      BY <1>2, <2>2 DEF Interval, Restarted
    <3>2. replica' \in Replicas
      <4>1. replica' = [counter |-> replica'.counter, total |-> replica'.total,
                        pushing |-> s + l > BenchmarkCt]
        BY <2>2 DEF Interval
      <4>2. replica'.counter \in Nat /\ replica'.total \in Nat
        BY <3>1
      <4>3. PICK q \in BOOLEAN : q = (s + l > BenchmarkCt)
        <5>1. CASE s + l > BenchmarkCt
          BY <5>1
        <5>2. CASE ~(s + l > BenchmarkCt)
          <6>1. (s + l > BenchmarkCt) = FALSE
            BY <5>2
          <6>. QED  BY <6>1
        <5>. QED  BY <5>1, <5>2
      <4>5. PICK v, w \in Nat : v = replica'.counter /\ w = replica'.total
        BY <4>2
      <4>6. replica' = [counter |-> v, total |-> w, pushing |-> q]
        BY <4>1, <4>3, <4>5
      <4>. QED  BY <4>3, <4>6 DEF Replicas
    <3>. QED  BY <1>2, <2>1, <2>2, <3>1, <3>2
  <2>3. CASE replica' = replica /\ tapped' = [tapped EXCEPT ![1] = u + l]
    <3>1. replica'.total = r /\ replica'.counter = s /\ replica' \in Replicas
      BY <1>2, <2>3 DEF CountTypes
    <3>2. /\ tapped'[1] = u + l /\ tapped'[0] = t /\ tapped' \in [0 .. 1 -> Nat]
      BY <1>2, <2>1, <2>3
    <3>. QED  BY <3>1, <3>2
  <2>. QED  BY <1>3, <1>4, <2>2, <2>3
<1>8. SumsThen(a, m, c, d, e, f, x, y, t, z)
  BY <1>1, <1>3, <1>4, <1>6, <1>7 DEF SumsNow, SumsThen, Sums
<1>9. Agrees(cloned', a, m, c, d, e, f, x, y, t, z)
  <2>1. cloned' = cloned /\ cloned \in 0 .. 2
    BY <1>2, <1>3 DEF CountTypes
  <2>2. PICK p, q \in Nat : p = (IF cloned > 0 THEN e ELSE 0) /\ q = (IF cloned > 1 THEN e ELSE 0)
    OBVIOUS
  <2>3. a + c + f + t = d + p /\ b + r + s + u = d + q
    BY <1>1, <2>2 DEF Agrees
  <2>4. b = l + m /\ x + y + z = r + s + u + l
    BY <1>4, <1>7
  <2>5. a + c + f + t = d + p /\ m + x + y + z = d + q
    BY <2>3, <2>4
  <2>. QED  BY <2>1, <2>2, <2>5 DEF Agrees
<1>10. CountTypes'
  BY <1>2, <1>3, <1>6, <1>7 DEF CountTypes
<1>. QED
  BY <1>8, <1>9, <1>10, AgreeThen

\* A throughput that is pushed changes no count.
LEMMA CountPush ==
    ASSUME CountInv, Counting, ReplicatedPush
    PROVE  (CountTypes /\ CountsAgree)'
<1>1. CountTypes /\ CountsAgree
  BY DEF CountInv
<1>2. /\ UNCHANGED <<out, taken, port, chained, cloned, flow_counter, tapped>>
      /\ replica'.counter = replica.counter /\ replica'.total = replica.total
  <2>1. UNCHANGED <<out, taken, port, chained, cloned, flow_counter, tapped>>
    BY DEF ReplicatedPush, reader_vars
  <2>2. replica' = [replica EXCEPT !.pushing = FALSE]
    BY DEF ReplicatedPush
  <2>3. replica \in Replicas
    BY <1>1 DEF CountTypes
  <2>. QED  BY <2>1, <2>2, <2>3 DEF Replicas
<1>3. CountTypes'
  <2>1. replica' \in Replicas
    BY <1>1 DEF ReplicatedPush, CountTypes, Replicas
  <2>. QED  BY <1>1, <1>2, <2>1 DEF CountTypes
<1>. QED
  BY <1>1, <1>2, <1>3 DEF CountsAgree, Pushed

LEMMA CountNext ==
    ASSUME CountInv, [ProgramsNext]_programs_vars
    PROVE  CountInv'
<1>1. program' = program /\ ReaderTypes'
  BY ReaderSteps, ReaderTypesNext DEF CountInv
<1>. SUFFICES ASSUME Counting PROVE (CountTypes /\ CountsAgree)'
  BY <1>1 DEF CountInv, Counting
<1>2. program.kernel \notin {"profiler", "detector", "calculator"}
  BY DEF Counting
<1>3. CASE ReaderThread
  <2>1. taken' = taken /\ UNCHANGED counter_vars
    BY <1>3 DEF ReaderThread, ReaderStep, MicroflowStep, ReplayStep, Allocate, ReadMicroflow,
                ReadMicroflowsEnd, TimeoutFlow, TimeoutFlowsEnd, Benchmark, ReplayClfr,
                ReplayEnd
  <2>2. out' = out \/ \E b \in Seq(Recs) : out' = Append(out, b)
    BY <1>3, ReaderSends DEF CountInv
  <2>. QED  BY <2>1, <2>2, CountReader
<1>4. CASE KernelStep
  <2>1. CloneStep
    BY <1>2, <1>4 DEF KernelStep
  <2>. QED  BY <2>1, CountClone, CountCloneEnd DEF CloneStep
<1>5. CASE BranchStep
  <2>1. ChainStep \/ CounterStep \/ ReplicatedStep \/ TapStep \/ ReplicatedPush
    BY <1>5 DEF BranchStep
  <2>. QED
    BY <2>1, CountChain, CountChained, CountSecond, CountPush DEF TapStep
<1>6. CASE Over \/ Stuck \/ UNCHANGED programs_vars
  <2>1. UNCHANGED <<taken, out>> /\ UNCHANGED counter_vars
    BY <1>6 DEF Over, Stuck, programs_vars, reader_vars
  <2>. QED  BY <2>1, CountReader
<1>7. ASSUME NEW q \in Printers, PrinterStep(q)
      PROVE  (CountTypes /\ CountsAgree)'
  <2>1. UNCHANGED <<taken, out>> /\ UNCHANGED counter_vars
    BY <1>7 DEF PrinterStep, TakeValue, reader_vars
  <2>. QED  BY <2>1, CountReader
<1>. QED
  BY <1>3, <1>4, <1>5, <1>6, <1>7 DEF ProgramsNext

LEMMA CountInit ==
    ASSUME ProgramsInit
    PROVE  CountInv
<1>1. ReaderTypes /\ program \in Programs
  BY ReaderTypesInit
<1>2. /\ port = [p \in 0 .. 1 |-> <<>>] /\ chained = <<>> /\ cloned = 0 /\ flow_counter = 0
      /\ replica = [counter |-> 0, total |-> 0, pushing |-> FALSE] /\ tapped = [p \in 0 .. 1 |-> 0]
      /\ taken = <<>>
  BY DEF ProgramsInit, ReaderInit, CountersInit, Ports
<1>3. CountTypes
  BY <1>2 DEF CountTypes
<1>4. Flows(port[0]) = 0 /\ Flows(port[1]) = 0 /\ Flows(chained) = 0
  BY <1>2, FlowsNone
<1>5. Pushed(0) = 0 /\ Pushed(1) = 0
  BY <1>2 DEF Pushed
<1>6. CountsAgree
  BY <1>2, <1>4, <1>5 DEF CountsAgree
<1>. QED
  BY <1>1, <1>3, <1>6 DEF CountInv

-----------------------------------------------------------------------------
(***************************************************************************)
(* The profiler.                                                           *)
(***************************************************************************)
Distinct(s) == \A j, l \in DOMAIN s : s[j] = s[l] => j = l

LEMMA DistinctCount ==
    ASSUME NEW X, NEW s \in Seq(X), Distinct(s)
    PROVE  Len(s) = Cardinality(ToSet(s)) /\ IsFiniteSet(ToSet(s))
<1>1. PICK n \in Nat : n = Len(s) /\ DOMAIN s = 1 .. n
  BY LenProperties
<1>2. IsFiniteSet(1 .. n) /\ Cardinality(1 .. n) = n
  BY CountOfInterval
<1>. DEFINE M == [j \in 1 .. n |-> s[j]]
<1>3. M \in Bijection(1 .. n, ToSet(s))
  <2>1. M \in [1 .. n -> ToSet(s)] /\ \A t \in ToSet(s) : \E j \in 1 .. n : M[j] = t
    BY <1>1 DEF ToSet
  <2>2. IsInjective(M)
    BY <1>1 DEF Distinct, IsInjective
  <2>. HIDE DEF M
  <2>. QED  BY <2>1, <2>2 DEF Bijection, Injection, Surjection
<1>4. ExistsBijection(1 .. n, ToSet(s))
  <2>. HIDE DEF M
  <2>. QED  BY <1>3 DEF ExistsBijection
<1>. QED
  BY <1>1, <1>2, <1>4, FS_Bijection

LEMMA ConcatMembers ==
    ASSUME NEW X, NEW a \in Seq(X), NEW b \in Seq(X)
    PROVE  /\ a \o b \in Seq(X) /\ ToSet(a \o b) = ToSet(a) \cup ToSet(b)
           /\ Distinct(a) /\ Distinct(b) /\ ToSet(a) \cap ToSet(b) = {} => Distinct(a \o b)
<1>1. PICK m, n \in Nat : m = Len(a) /\ n = Len(b)
  BY LenProperties
<1>2. PICK c : c = a \o b
  OBVIOUS
<1>3. /\ c \in Seq(X) /\ DOMAIN c = 1 .. m + n /\ DOMAIN a = 1 .. m /\ DOMAIN b = 1 .. n
      /\ \A j \in 1 .. m + n : c[j] = IF j <= m THEN a[j] ELSE b[j - m]
  <2>1. /\ c \in Seq(X) /\ Len(c) = m + n
        /\ \A j \in 1 .. Len(a) + Len(b) : c[j] = IF j <= Len(a) THEN a[j] ELSE b[j - Len(a)]
    BY <1>1, <1>2, ConcatProperties
  <2>. QED  BY <1>1, <2>1, LenProperties
<1>4. ASSUME NEW j \in 1 .. m + n
      PROVE  \/ j \in 1 .. m /\ c[j] = a[j]
             \/ \E k \in 1 .. n : k = j - m /\ j = k + m /\ c[j] = b[k]
  <2>1. CASE j <= m
    BY <1>3, <2>1
  <2>2. CASE ~(j <= m)
    <3>1. PICK k \in 1 .. n : k = j - m /\ j = k + m
      BY <2>2
    <3>. QED  BY <1>3, <2>2, <3>1
  <2>. QED  BY <2>1, <2>2
<1>5. ASSUME NEW k \in 1 .. n PROVE \E j \in 1 .. m + n : c[j] = b[k]
  <2>1. PICK j \in 1 .. m + n : j = k + m /\ ~(j <= m) /\ j - m = k
    OBVIOUS
  <2>. QED  BY <1>3, <2>1
<1>6. ASSUME NEW k \in 1 .. m PROVE \E j \in 1 .. m + n : c[j] = a[k]
  <2>1. k \in 1 .. m + n /\ k <= m
    OBVIOUS
  <2>. QED  BY <1>3, <2>1
<1>7. ToSet(c) = ToSet(a) \cup ToSet(b)
  <2>1. \A x \in ToSet(c) : x \in ToSet(a) \/ x \in ToSet(b)
    BY <1>3, <1>4 DEF ToSet
  <2>2. \A x \in ToSet(a) : x \in ToSet(c)
    BY <1>3, <1>6 DEF ToSet
  <2>3. \A x \in ToSet(b) : x \in ToSet(c)
    BY <1>3, <1>5 DEF ToSet
  <2>. QED  BY <2>1, <2>2, <2>3
<1>8. ASSUME Distinct(a), Distinct(b), ToSet(a) \cap ToSet(b) = {} PROVE Distinct(c)
  <2>1. ASSUME NEW j \in 1 .. m + n, NEW l \in 1 .. m + n, c[j] = c[l] PROVE j = l
    <3>1. \A p \in 1 .. m : a[p] \in ToSet(a)
      BY <1>3 DEF ToSet
    <3>2. \A p \in 1 .. n : b[p] \in ToSet(b)
      BY <1>3 DEF ToSet
    <3>3. CASE j \in 1 .. m /\ c[j] = a[j]
      <4>1. CASE l \in 1 .. m /\ c[l] = a[l]
        BY <1>3, <1>8, <2>1, <3>3, <4>1 DEF Distinct
      <4>2. ASSUME NEW k \in 1 .. n, c[l] = b[k] PROVE FALSE
        BY <1>8, <2>1, <3>1, <3>2, <3>3, <4>2
      <4>. QED  BY <1>4, <4>1, <4>2
    <3>4. ASSUME NEW k \in 1 .. n, j = k + m, c[j] = b[k] PROVE j = l
      <4>1. ASSUME l \in 1 .. m, c[l] = a[l] PROVE FALSE
        BY <1>8, <2>1, <3>1, <3>2, <3>4, <4>1
      <4>2. ASSUME NEW p \in 1 .. n, l = p + m, c[l] = b[p] PROVE j = l
        <5>1. k = p
          BY <1>3, <1>8, <2>1, <3>4, <4>2 DEF Distinct
        <5>. QED  BY <3>4, <4>2, <5>1
      <4>. QED  BY <1>4, <4>1, <4>2
    <3>. QED  BY <1>4, <3>3, <3>4
  <2>. QED  BY <1>3, <2>1 DEF Distinct
<1>. QED
  BY <1>2, <1>3, <1>7, <1>8

\* What is in a concatenation of sequences, and how often.
Apart(s) == \A q, r \in DOMAIN s : q # r => ToSet(s[q]) \cap ToSet(s[r]) = {}

LEMMA FlattenMembers ==
    ASSUME NEW X, NEW s \in Seq(Seq(X))
    PROVE  /\ FlattenSeq(s) \in Seq(X)
           /\ ToSet(FlattenSeq(s)) = UNION {ToSet(s[q]) : q \in DOMAIN s}
           /\ (\A q \in DOMAIN s : Distinct(s[q])) /\ Apart(s) => Distinct(FlattenSeq(s))
<1>1. PICK n \in Nat : n = Len(s) /\ DOMAIN s = 1 .. n
  BY LenProperties
<1>2. CASE n = 0
  <2>1. s = <<>>
    BY <1>1, <1>2, EmptySeq
  <2>2. FlattenSeq(s) = <<>> /\ <<>> \in Seq(X) /\ DOMAIN <<>> = {}
    BY <2>1, FlattenEmpty, EmptySeq
  <2>. QED  BY <2>1, <2>2 DEF ToSet, Distinct
<1>3. CASE n # 0
  <2>1. n \in 1 .. n /\ 1 \in 1 .. n
    BY <1>3
  <2>2. PICK F \in [1 .. n -> Seq(X)] : Joining(s, n, F)
    BY <1>1, <2>1, JoinsExist
  <2>3. FlattenSeq(s) = F[n] /\ F[n] \in Seq(X)
    BY <1>1, <2>1, <2>2, FlattenIsJoin
  <2>. DEFINE Good(m) ==
                /\ ToSet(F[m]) = UNION {ToSet(s[q]) : q \in 1 .. m}
                /\ (\A q \in 1 .. n : Distinct(s[q])) /\ Apart(s) => Distinct(F[m])
              Bad == {m \in 1 .. n : ~Good(m)}
  <2>4. Bad = {}
    <3>. SUFFICES ASSUME Bad # {} PROVE FALSE
      OBVIOUS
    <3>1. PICK m \in Bad : \A k \in Bad : m <= k
      <4>1. Bad \in SUBSET Nat
        OBVIOUS
      <4>. HIDE DEF Bad
      <4>. QED  BY <4>1, NatMinimum
    <3>2. m \in 1 .. n /\ m \in Nat
      OBVIOUS
    <3>3. m # 1
      <4>1. F[1] = s[1]
        BY <2>2 DEF Joining
      <4>2. 1 .. 1 = {1}
        OBVIOUS
      <4>3. Good(1)
        BY <2>1, <4>1, <4>2
      <4>. QED  BY <4>3
    <3>4. PICK l \in 1 .. n : m = l + 1
      <4>1. m - 1 \in 1 .. n /\ m = (m - 1) + 1
        <5>. HIDE DEF Bad
        <5>. QED  BY <3>2, <3>3
      <4>. QED  BY <4>1
    <3>5. Good(l)
      <4>1. l \notin Bad
        <5>. HIDE DEF Bad
        <5>. QED  BY <3>1, <3>2, <3>4
      <4>. QED  BY <4>1
    <3>6. F[m] = F[l] \o s[m]
      BY <2>2, <3>2, <3>4 DEF Joining
    <3>7. F[l] \in Seq(X) /\ s[m] \in Seq(X)
      BY <1>1, <3>2, ElementOfSeq
    <3>8. 1 .. m = (1 .. l) \cup {m} /\ m \notin 1 .. l /\ \A q \in 1 .. l : q \in 1 .. n /\ q # m
      BY <3>2, <3>4
    <3>9. ToSet(F[m]) = ToSet(F[l]) \cup ToSet(s[m])
      BY <3>6, <3>7, ConcatMembers
    <3>10. ToSet(F[m]) = UNION {ToSet(s[q]) : q \in 1 .. m}
      BY <3>5, <3>8, <3>9
    <3>11. ASSUME \A q \in 1 .. n : Distinct(s[q]), Apart(s) PROVE Distinct(F[m])
      <4>1. Distinct(F[l]) /\ Distinct(s[m])
        BY <3>2, <3>5, <3>11
      <4>2. ToSet(F[l]) \cap ToSet(s[m]) = {}
        <5>1. \A q \in 1 .. l : ToSet(s[q]) \cap ToSet(s[m]) = {}
          BY <1>1, <3>2, <3>8, <3>11 DEF Apart
        <5>. QED  BY <3>5, <5>1
      <4>. QED  BY <3>6, <3>7, <4>1, <4>2, ConcatMembers
    <3>12. Good(m)
      BY <3>10, <3>11
    <3>. QED  BY <3>2, <3>12
  <2>5. Good(n)
    BY <2>1, <2>4
  <2>. QED  BY <1>1, <2>3, <2>5
<1>. QED
  BY <1>2, <1>3

\* The packets of the flow of the microflows mfs.
IdsOf(rd, mfs) == UNION {{<<mfs[q], j>> : j \in DOMAIN rd[mfs[q]].pkts} : q \in DOMAIN mfs}

LEMMA PacketIdsOf ==
    ASSUME read \in Seq(Microflows), NEW k, NEW mfs \in Seq(Nat), IsFlow(read, k, mfs)
    PROVE  /\ PacketIds(mfs) \in Seq(Nat \X Nat) /\ Distinct(PacketIds(mfs))
           /\ ToSet(PacketIds(mfs)) = IdsOf(read, mfs)
<1>. DEFINE s == [q \in DOMAIN mfs |->
                     [j \in DOMAIN read[mfs[q]].pkts |-> <<mfs[q], j>>]]
<1>1. PICK n \in Nat : n = Len(mfs) /\ DOMAIN mfs = 1 .. n
  BY LenProperties
<1>2. ASSUME NEW q \in 1 .. n
      PROVE  s[q] \in Seq(Nat \X Nat) /\ Distinct(s[q])
             /\ ToSet(s[q]) = {<<mfs[q], j>> : j \in DOMAIN read[mfs[q]].pkts}
             /\ \A x \in ToSet(s[q]) : x[1] = mfs[q]
  <2>1. PICK m \in Nat : m = mfs[q] /\ m \in 1 .. Len(read)
    BY <1>1, ElementOfSeq DEF IsFlow
  <2>2. read[m] \in Microflows
    BY <2>1, ElementOfSeq
  <2>3. PICK l \in Nat : DOMAIN read[m].pkts = 1 .. l
    BY <2>2, BatchReaderAssumption, LenProperties
  <2>4. s[q] = [j \in 1 .. l |-> <<m, j>>]
    BY <1>1, <2>1, <2>3
  <2>. DEFINE u == [j \in 1 .. l |-> <<m, j>>]
  <2>5. u \in Seq(Nat \X Nat) /\ DOMAIN u = 1 .. l /\ \A j \in 1 .. l : u[j] = <<m, j>>
    OBVIOUS
  <2>6. s[q] = u /\ DOMAIN read[mfs[q]].pkts = 1 .. l
    BY <2>1, <2>3, <2>4
  <2>. HIDE DEF u, s
  <2>7. Distinct(u) /\ ToSet(u) = {<<m, j>> : j \in 1 .. l}
    <3>1. Distinct(u)
      BY <2>5 DEF Distinct
    <3>2. ToSet(u) = {u[j] : j \in 1 .. l}
      BY <2>5 DEF ToSet
    <3>. QED  BY <2>5, <3>1, <3>2
  <2>. QED  BY <2>1, <2>5, <2>6, <2>7
<1>3. s \in Seq(Seq(Nat \X Nat)) /\ DOMAIN s = 1 .. n
  <2>1. DOMAIN s = 1 .. n /\ s = [q \in 1 .. n |-> s[q]]
    BY <1>1
  <2>. HIDE DEF s
  <2>2. s \in [1 .. n -> Seq(Nat \X Nat)]
    BY <1>2, <2>1
  <2>. QED  BY <2>1, <2>2
<1>4. Apart(s)
  <2>1. ASSUME NEW q \in 1 .. n, NEW r \in 1 .. n, q # r PROVE mfs[q] # mfs[r]
    <3>1. \A j \in 1 .. n : mfs[j] \in Nat
      BY <1>1, ElementOfSeq
    <3>2. q < r \/ r < q
      BY <2>1
    <3>3. \A a, b \in 1 .. n : a < b => mfs[a] < mfs[b]
      BY <1>1, Zenon DEF IsFlow
    <3>4. mfs[q] < mfs[r] \/ mfs[r] < mfs[q]
      BY <3>2, <3>3, Zenon
    <3>5. mfs[q] \in Nat /\ mfs[r] \in Nat
      BY <3>1, Zenon
    <3>. QED  BY <3>4, <3>5
  <2>. HIDE DEF s
  <2>. QED  BY <1>2, <1>3, <2>1 DEF Apart
<1>5. PacketIds(mfs) = FlattenSeq(s)
  BY DEF PacketIds
<1>6. IdsOf(read, mfs) = UNION {ToSet(s[q]) : q \in 1 .. n}
  <2>. HIDE DEF s
  <2>1. \A q \in 1 .. n : ToSet(s[q]) = {<<mfs[q], j>> : j \in DOMAIN read[mfs[q]].pkts}
    BY <1>2
  <2>2. DOMAIN mfs = 1 .. n
    BY <1>1
  <2>3. IdsOf(read, mfs) = UNION {{<<mfs[q], j>> : j \in DOMAIN read[mfs[q]].pkts} : q \in 1 .. n}
    BY <2>2 DEF IdsOf
  <2>. QED  BY <2>1, <2>3
<1>. HIDE DEF s
<1>7. \A q \in 1 .. n : Distinct(s[q])
  BY <1>2
<1>. QED
  BY <1>3, <1>4, <1>5, <1>6, <1>7, FlattenMembers

\* No two records share a microflow: without the one, the others would still cover
\* all that was read, which they are too few for.
LEMMA RecordsApart ==
    ASSUME NEW rd \in Seq(Microflows), NEW R \in Seq(Recs), NEW tb, IsFiniteSet(DOMAIN tb),
           tb \in [DOMAIN tb -> Seq(Nat)], Accounted(rd, tb, R),
           NEW x \in DOMAIN R, NEW y \in DOMAIN R, x # y,
           NEW j \in DOMAIN R[x].mfs, NEW l \in DOMAIN R[y].mfs, R[x].mfs[j] = R[y].mfs[l]
    PROVE  FALSE
<1>. DEFINE U == Units(Sizes(R), DOMAIN R)
            V == Units([k \in DOMAIN tb |-> Len(tb[k])], DOMAIN tb)
            W == U \ {<<x, j>>}
            A == {R[u[1]].mfs[u[2]] : u \in W}
            B == {tb[u[1]][u[2]] : u \in V}
<1>1. PICK n \in Nat : n = Len(rd)
  BY LenProperties
<1>2. /\ IsFiniteSet(U) /\ IsFiniteSet(V) /\ Cardinality(U) + Cardinality(V) = n
      /\ Cardinality(U) \in Nat /\ Cardinality(V) \in Nat
  <2>1. IsFiniteSet(DOMAIN R) /\ Sizes(R) \in [DOMAIN R -> Nat]
    BY SizesAddUp
  <2>2. [k \in DOMAIN tb |-> Len(tb[k])] \in [DOMAIN tb -> Nat]
    BY LenProperties
  <2>3. IsFiniteSet(U) /\ IsFiniteSet(V)
    BY <2>1, <2>2, UnitsAreFinite
  <2>. HIDE DEF U, V
  <2>4. Cardinality(U) \in Nat /\ Cardinality(V) \in Nat
    BY <2>3, FS_CardinalityType
  <2>5. Cardinality(U) + Cardinality(V) = n
    BY <1>1, <2>4 DEF Accounted, TableSize, RecordsSize, U, V
  <2>. QED  BY <2>3, <2>4, <2>5
<1>3. /\ \A z \in DOMAIN R : R[z].mfs \in Seq(Nat) /\ Sizes(R)[z] = Len(R[z].mfs)
      /\ \A z \in DOMAIN R : \A p \in DOMAIN R[z].mfs : <<z, p>> \in U
  <2>1. ASSUME NEW z \in DOMAIN R
        PROVE  R[z].mfs \in Seq(Nat) /\ Sizes(R)[z] = Len(R[z].mfs)
    <3>1. R[z] \in Recs
      <4>. HIDE DEF Recs
      <4>. QED  BY LenProperties, ElementOfSeq
    <3>. QED  BY <3>1 DEF Recs, Sizes
  <2>2. ASSUME NEW z \in DOMAIN R, NEW p \in DOMAIN R[z].mfs PROVE <<z, p>> \in U
    <3>1. p \in 1 .. Len(R[z].mfs) /\ p \in Nat
      <4>1. PICK t \in Seq(Nat) : t = R[z].mfs
        BY <2>1
      <4>. QED  BY <2>2, <4>1, LenProperties
    <3>2. Sizes(R)[z] = Len(R[z].mfs)
      BY <2>1, Zenon
    <3>3. 1 <= p /\ p <= Sizes(R)[z]
      BY <3>1, <3>2
    <3>. QED  BY <3>1, <3>3 DEF Units
  <2>. QED  BY <2>1, <2>2
<1>4. \A k \in DOMAIN tb : \A p \in DOMAIN tb[k] : <<k, p>> \in V
  <2>1. ASSUME NEW k \in DOMAIN tb, NEW p \in DOMAIN tb[k] PROVE <<k, p>> \in V
    <3>1. p \in 1 .. Len(tb[k]) /\ p \in Nat
      BY LenProperties
    <3>. QED  BY <3>1 DEF Units
  <2>. QED  BY <2>1
<1>. HIDE DEF U, V
<1>5. IsFiniteSet(W) /\ Cardinality(W) = Cardinality(U) - 1
  <2>1. <<x, j>> \in U
    BY <1>3
  <2>. QED  BY <1>2, <2>1, FS_RemoveElement
<1>6. IsFiniteSet(A) /\ Cardinality(A) <= Cardinality(W)
  <2>. DEFINE g == [u \in W |-> R[u[1]].mfs[u[2]]]
  <2>1. g \in Surjection(W, A)
    BY DEF Surjection
  <2>. HIDE DEF g, W, A
  <2>. QED  BY <1>5, <2>1, FS_Surjection
<1>7. IsFiniteSet(B) /\ Cardinality(B) <= Cardinality(V)
  <2>. DEFINE g == [u \in V |-> tb[u[1]][u[2]]]
  <2>1. g \in Surjection(V, B)
    BY DEF Surjection
  <2>. HIDE DEF g, B
  <2>. QED  BY <1>2, <2>1, FS_Surjection
<1>8. \A m \in 1 .. n : m \in A \cup B
  <2>1. ASSUME NEW m \in 1 .. n, InTable(tb, m) PROVE m \in B
    <3>1. PICK k \in DOMAIN tb : \E p \in DOMAIN tb[k] : tb[k][p] = m
      BY <2>1 DEF InTable
    <3>2. PICK p \in DOMAIN tb[k] : tb[k][p] = m
      BY <3>1
    <3>3. PICK u \in V : u = <<k, p>>
      BY <1>4
    <3>. QED  BY <3>2, <3>3
  <2>2. ASSUME NEW m \in 1 .. n, InRecords(R, m) PROVE m \in A
    <3>1. PICK z \in DOMAIN R : \E p \in DOMAIN R[z].mfs : R[z].mfs[p] = m
      BY <2>2 DEF InRecords
    <3>2. PICK p \in DOMAIN R[z].mfs : R[z].mfs[p] = m
      BY <3>1
    <3>3. CASE <<z, p>> = <<x, j>>
      <4>1. <<y, l>> \in W /\ R[y].mfs[l] = m
        BY <1>3, <3>2, <3>3
      <4>2. PICK u \in W : u = <<y, l>>
        BY <4>1
      <4>. QED  BY <4>1, <4>2
    <3>4. CASE <<z, p>> # <<x, j>>
      <4>1. PICK u \in W : u = <<z, p>>
        BY <1>3, <3>4
      <4>. QED  BY <3>2, <4>1
    <3>. QED  BY <3>3, <3>4
  <2>3. \A m \in 1 .. n : InTable(tb, m) \/ InRecords(R, m)
    BY <1>1 DEF Accounted
  <2>. HIDE DEF A, B
  <2>. QED  BY <2>1, <2>2, <2>3
<1>. HIDE DEF A, B, W
<1>9. /\ IsFiniteSet(A \cup B)
      /\ Cardinality(A \cup B) = Cardinality(A) + Cardinality(B) - Cardinality(A \cap B)
      /\ Cardinality(A \cap B) \in Nat /\ Cardinality(A) \in Nat /\ Cardinality(B) \in Nat
  BY <1>6, <1>7, FS_Union, FS_Intersection, FS_CardinalityType
<1>10. n <= Cardinality(A \cup B)
  <2>1. 1 .. n \subseteq A \cup B /\ Cardinality(1 .. n) = n
    BY <1>8, CountOfInterval
  <2>. QED  BY <1>9, <2>1, FS_Subset
<1>11. PICK a, b, c, u, v, w \in Nat :
          /\ a = Cardinality(A) /\ b = Cardinality(B) /\ c = Cardinality(A \cap B)
          /\ u = Cardinality(U) /\ v = Cardinality(V) /\ w = Cardinality(W)
  BY <1>2, <1>5, <1>9, FS_CardinalityType
<1>12. u + v = n /\ w = u - 1 /\ a <= w /\ b <= v /\ n <= a + b - c
  BY <1>2, <1>5, <1>6, <1>7, <1>9, <1>10, <1>11
<1>. QED
  BY <1>12

Hosts == {Dst[m.key] : m \in Microflows}
PktIds == Nat \X Nat
Times == UNION {[H -> Seq(PktIds)] : H \in SUBSET Hosts}

\* The packets of the first n flows that went to host h.
HostIds(h, n, flows, rd) ==
    UNION {IdsOf(rd, flows[x].mfs) : x \in {y \in 1 .. n : Dst[flows[y].key] = h}}

ProfileOK(times, n, flows, rd) ==
    /\ \A h \in DOMAIN times : Distinct(times[h]) /\ ToSet(times[h]) = HostIds(h, n, flows, rd)
    /\ DOMAIN times = {Dst[flows[x].key] : x \in 1 .. n}

LEMMA ProfiledOK ==
    ASSUME read \in Seq(Microflows), NEW n \in Nat, NEW flows, NEW times \in Times,
           NEW f \in Recs, f = flows[n + 1], IsFlow(read, f.key, f.mfs),
           \A x \in 1 .. n : IdsOf(read, flows[x].mfs) \cap IdsOf(read, f.mfs) = {}
    PROVE  /\ Profiled(times, f) \in Times
           /\ ProfileOK(times, n, flows, read) => ProfileOK(Profiled(times, f), n + 1, flows, read)
<1>. DEFINE d == Dst[f.key]
            t == Profiled(times, f)
            old(h) == IF h \in DOMAIN times THEN times[h] ELSE <<>>
            new(h) == IF h = d THEN PacketIds(f.mfs) ELSE <<>>
<1>1. DOMAIN t = DOMAIN times \cup {d} /\ \A h \in DOMAIN t : t[h] = old(h) \o new(h)
  BY DEF Profiled
<1>2. d \in Hosts /\ f.mfs \in Seq(Nat)
  BY DEF Hosts, Recs
<1>3. /\ PacketIds(f.mfs) \in Seq(PktIds) /\ Distinct(PacketIds(f.mfs))
      /\ ToSet(PacketIds(f.mfs)) = IdsOf(read, f.mfs)
  BY <1>2, PacketIdsOf DEF PktIds
<1>4. DOMAIN times \in SUBSET Hosts /\ \A h \in DOMAIN times : times[h] \in Seq(PktIds)
  BY DEF Times
<1>5. <<>> \in Seq(PktIds) /\ ToSet(<<>>) = {} /\ Distinct(<<>>)
  BY EmptySeq DEF ToSet, Distinct
<1>6. \A h : old(h) \in Seq(PktIds) /\ new(h) \in Seq(PktIds)
  BY <1>3, <1>4, <1>5
<1>7. ASSUME NEW h
      PROVE  /\ old(h) \o new(h) \in Seq(PktIds)
             /\ ToSet(old(h) \o new(h)) = ToSet(old(h)) \cup ToSet(new(h))
             /\ Distinct(old(h)) /\ Distinct(new(h)) /\ ToSet(old(h)) \cap ToSet(new(h)) = {}
                   => Distinct(old(h) \o new(h))
  <2>. HIDE DEF old, new
  <2>. QED  BY <1>6, ConcatMembers
<1>8. t \in Times
  <2>1. t = [h \in DOMAIN t |-> t[h]]
    BY DEF Profiled
  <2>2. DOMAIN t \in SUBSET Hosts
    BY <1>1, <1>2, <1>4
  <2>3. \A h \in DOMAIN t : t[h] \in Seq(PktIds)
    <3>. HIDE DEF old, new, t
    <3>. QED  BY <1>1, <1>7
  <2>. HIDE DEF t
  <2>4. t \in [DOMAIN t -> Seq(PktIds)]
    BY <2>1, <2>3
  <2>. QED  BY <2>2, <2>4 DEF Times
<1>9. ASSUME ProfileOK(times, n, flows, read) PROVE ProfileOK(t, n + 1, flows, read)
  <2>1. 1 .. n + 1 = (1 .. n) \cup {n + 1}
    OBVIOUS
  <2>2. DOMAIN t = {Dst[flows[x].key] : x \in 1 .. n + 1}
    <3>. HIDE DEF t
    <3>. QED  BY <1>1, <1>9, <2>1 DEF ProfileOK
  <2>3. ASSUME NEW h
        PROVE  HostIds(h, n + 1, flows, read) =
                 HostIds(h, n, flows, read) \cup (IF h = d THEN IdsOf(read, f.mfs) ELSE {})
    <3>1. {y \in 1 .. n + 1 : Dst[flows[y].key] = h} =
             {y \in 1 .. n : Dst[flows[y].key] = h} \cup (IF h = d THEN {n + 1} ELSE {})
      BY <2>1
    <3>. HIDE DEF d
    <3>2. CASE h = d
      BY <3>1, <3>2 DEF HostIds
    <3>3. CASE h # d
      BY <3>1, <3>3 DEF HostIds
    <3>. QED  BY <3>2, <3>3
  <2>4. ASSUME NEW h
        PROVE  /\ Distinct(old(h)) /\ ToSet(old(h)) = HostIds(h, n, flows, read)
    <3>1. CASE h \in DOMAIN times
      BY <1>9, <3>1 DEF ProfileOK
    <3>2. CASE h \notin DOMAIN times
      <4>1. HostIds(h, n, flows, read) = {}
        BY <1>9, <3>2 DEF HostIds, ProfileOK
      <4>. QED  BY <1>5, <3>2, <4>1
    <3>. QED  BY <3>1, <3>2
  <2>5. \A h : /\ Distinct(new(h))
               /\ ToSet(new(h)) = IF h = d THEN IdsOf(read, f.mfs) ELSE {}
    BY <1>3, <1>5
  <2>6. ASSUME NEW h PROVE ToSet(old(h)) \cap ToSet(new(h)) = {}
    <3>1. HostIds(h, n, flows, read) \cap IdsOf(read, f.mfs) = {}
      BY DEF HostIds
    <3>. HIDE DEF old, new
    <3>. QED  BY <2>4, <2>5, <3>1
  <2>7. ASSUME NEW h \in DOMAIN t
        PROVE  Distinct(t[h]) /\ ToSet(t[h]) = HostIds(h, n + 1, flows, read)
    <3>. HIDE DEF old, new, t
    <3>1. PICK o, w, q : o = old(h) /\ w = new(h) /\ q = o \o w
      OBVIOUS
    <3>2. t[h] = q
      BY <1>1, <2>7, <3>1
    <3>3. Distinct(o) /\ Distinct(w) /\ ToSet(o) \cap ToSet(w) = {}
      BY <2>4, <2>5, <2>6, <3>1
    <3>4. Distinct(q) /\ ToSet(q) = ToSet(o) \cup ToSet(w)
      BY <1>7, <3>1, <3>3
    <3>5. ToSet(o) \cup ToSet(w) = HostIds(h, n + 1, flows, read)
      BY <2>3, <2>4, <2>5, <3>1
    <3>. QED  BY <3>2, <3>4, <3>5
  <2>. HIDE DEF t
  <2>. QED  BY <2>2, <2>7 DEF ProfileOK
<1>. QED
  BY <1>8, <1>9

Profiles(times, s) == FoldLeft(Profiled, times, s)

\* run(), of the flows of a batch, which are those from base + 1 on.
LEMMA ProfilesOK ==
    ASSUME read \in Seq(Microflows), NEW base \in Nat, NEW n \in Nat, NEW s \in Seq(Recs),
           n = Len(s), NEW flows, NEW c \in Times,
           \A m \in 1 .. n : flows[base + m] = s[m],
           \A m \in 1 .. n : IsFlow(read, s[m].key, s[m].mfs),
           \A m \in 1 .. n : \A x \in 1 .. base + m - 1 :
              IdsOf(read, flows[x].mfs) \cap IdsOf(read, s[m].mfs) = {},
           ProfileOK(c, base, flows, read)
    PROVE  Profiles(c, s) \in Times /\ ProfileOK(Profiles(c, s), base + n, flows, read)
<1>. DEFINE rec(g) == [t \in SUBSET (1 .. n) |->
                          IF t = {} THEN c ELSE Profiled(g[t \ {Max(t)}], s[Max(t)])]
            iter == CHOOSE g : g = rec(g)
            op == [x \in (1 .. n) \X Times |-> Profiled(x[2], s[x[1]])]
<1>. HIDE DEF Recs, Times
<1>0. DOMAIN s = 1 .. n /\ \A m \in 1 .. n : s[m] \in Recs
  BY LenProperties, ElementOfSeq
<1>1. Profiles(c, s) = iter[1 .. n]
  <2>1. Profiles(c, s) = (CHOOSE g : g = [t \in SUBSET DOMAIN s |->
                       IF t = {} THEN c ELSE Profiled(g[t \ {Max(t)}], s[Max(t)])])[DOMAIN s]
    BY Zenon DEF Profiles, FoldLeft, MapThenFoldSet
  <2>. QED  BY <1>0, <2>1
<1>2. ASSUME NEW m \in 1 .. n, NEW t \in Times
      PROVE  /\ Profiled(t, s[m]) \in Times
             /\ \A l \in 0 .. n : m = l + 1 /\ ProfileOK(t, base + l, flows, read)
                   => ProfileOK(Profiled(t, s[m]), base + m, flows, read)
  <2>1. PICK k \in Nat : k = base + m - 1 /\ k + 1 = base + m
    OBVIOUS
  <2>2. /\ s[m] \in Recs /\ s[m] = flows[k + 1] /\ IsFlow(read, s[m].key, s[m].mfs)
        /\ \A x \in 1 .. k : IdsOf(read, flows[x].mfs) \cap IdsOf(read, s[m].mfs) = {}
    BY <1>0, <2>1
  <2>3. /\ Profiled(t, s[m]) \in Times
        /\ ProfileOK(t, k, flows, read) => ProfileOK(Profiled(t, s[m]), k + 1, flows, read)
    BY <2>2, ProfiledOK
  <2>4. \A l \in 0 .. n : m = l + 1 => base + l = k
    BY <2>1
  <2>. QED  BY <2>1, <2>3, <2>4
<1>4. op \in [(1 .. n) \X Times -> Times]
  <2>1. ASSUME NEW x \in (1 .. n) \X Times PROVE Profiled(x[2], s[x[1]]) \in Times
    <3>1. PICK m \in 1 .. n, d \in Times : m = x[1] /\ d = x[2]
      OBVIOUS
    <3>. QED  BY <1>2, <3>1
  <2>. QED  BY <2>1
<1>5. \A m \in 1 .. n, d \in Times : op[<<m, d>>] = Profiled(d, s[m])
  OBVIOUS
<1>. HIDE DEF op
<1>6. PICK g \in [SUBSET (1 .. n) -> Times] : FoldsUp(n, c, Times, op, g)
  BY <1>4, FoldRecursion
<1>7. \A t \in SUBSET (1 .. n) : t # {} => Max(t) \in 1 .. n /\ t \ {Max(t)} \in SUBSET (1 .. n)
  BY MaxOfBounded
<1>8. g = rec(g)
  <2>1. ASSUME NEW t \in SUBSET (1 .. n)
        PROVE  g[t] = IF t = {} THEN c ELSE Profiled(g[t \ {Max(t)}], s[Max(t)])
    <3>1. PICK x : x = Max(t)
      OBVIOUS
    <3>2. t # {} => x \in 1 .. n /\ g[t \ {x}] \in Times
      BY <1>7, <3>1
    <3>3. t # {} => g[t] = op[<<x, g[t \ {x}]>>]
      BY <1>6, <3>1, <3>2 DEF FoldsUp
    <3>4. t = {} => g[t] = c
      BY <1>6 DEF FoldsUp
    <3>. QED  BY <1>5, <3>1, <3>2, <3>3, <3>4
  <2>. QED  BY <2>1
<1>9. iter = rec(iter)
  <2>. HIDE DEF rec
  <2>. QED  BY <1>8, Zenon
<1>. HIDE DEF iter
<1>10. FoldsUp(n, c, Times, op, iter)
  <2>1. ASSUME NEW t \in SUBSET (1 .. n), t # {}, iter[t \ {Max(t)}] \in Times
        PROVE  iter[t] = op[<<Max(t), iter[t \ {Max(t)}]>>]
    <3>1. PICK x : x = Max(t)
      OBVIOUS
    <3>2. x \in 1 .. n
      BY <1>7, <2>1, <3>1
    <3>3. iter[t] = Profiled(iter[t \ {x}], s[x])
      BY <1>9, <2>1, <3>1
    <3>. QED  BY <1>5, <2>1, <3>1, <3>2, <3>3
  <2>2. iter[{}] = c
    BY <1>9
  <2>. QED  BY <2>1, <2>2 DEF FoldsUp
<1>11. PICK F \in [0 .. n -> Times] : Steps(n, c, op, F) /\ F[n] = Profiles(c, s)
  <2>1. Folded(n, c, Times, op, iter[1 .. n])
    BY <1>4, <1>10, FoldSteps
  <2>. QED  BY <1>1, <2>1 DEF Folded
<1>. DEFINE Bad == {m \in 0 .. n : ~ProfileOK(F[m], base + m, flows, read)}
<1>12. Bad = {}
  <2>. SUFFICES ASSUME Bad # {} PROVE FALSE
    OBVIOUS
  <2>1. PICK m \in Bad : \A k \in Bad : m <= k
    <3>1. Bad \in SUBSET Nat
      OBVIOUS
    <3>. HIDE DEF Bad
    <3>. QED  BY <3>1, NatMinimum
  <2>2. m # 0
    <3>1. F[0] = c /\ base + 0 = base
      BY <1>11 DEF Steps
    <3>. QED  BY <3>1
  <2>3. PICK l \in 0 .. n : m = l + 1 /\ ~(m <= l) /\ m \in 1 .. n
    <3>1. m \in 0 .. n
      OBVIOUS
    <3>2. m - 1 \in 0 .. n /\ m = (m - 1) + 1 /\ ~(m <= m - 1) /\ m \in 1 .. n
      BY <2>2, <3>1
    <3>. QED  BY <3>2
  <2>4. ProfileOK(F[l], base + l, flows, read) /\ F[l] \in Times
    BY <2>1, <2>3
  <2>5. F[m] = Profiled(F[l], s[m])
    BY <1>5, <1>11, <2>3, <2>4 DEF Steps
  <2>6. ProfileOK(F[m], base + m, flows, read)
    BY <1>2, <2>3, <2>4, <2>5
  <2>. QED  BY <2>6
<1>. QED
  <2>1. n \in 0 .. n
    OBVIOUS
  <2>2. ProfileOK(F[n], base + n, flows, read)
    BY <1>12, <2>1
  <2>. QED  BY <1>11, <2>1, <2>2

-----------------------------------------------------------------------------
\* The flows that the kernel has taken are flows of their own.
TakenApart ==
    /\ \A x \in 1 .. Len(taken) : IsFlow(read, taken[x].key, taken[x].mfs)
    /\ \A x, y \in 1 .. Len(taken) :
          x # y => IdsOf(read, taken[x].mfs) \cap IdsOf(read, taken[y].mfs) = {}

LEMMA TakenFlows == AccountInv => TakenApart
<1>. SUFFICES ASSUME AccountInv PROVE TakenApart
  OBVIOUS
<1>1. /\ ReaderTypes /\ read \in Seq(Microflows) /\ IsFiniteSet(DOMAIN table)
      /\ table \in [DOMAIN table -> Seq(Nat)] /\ Accounted(read, table, Records)
  BY DEF AccountInv, ReaderTypes
<1>2. /\ Records \in Seq(Recs)
      /\ \A x \in 1 .. Len(taken) : x \in DOMAIN Records /\ Records[x] = taken[x]
  <2>1. /\ taken \in Seq(Recs) /\ FlattenSeq(out) \in Seq(Recs) /\ batch \in Seq(Recs)
        /\ Records \in Seq(Recs)
    BY <1>1, RecordsType
  <2>. HIDE DEF Recs
  <2>2. PICK a, b, c \in Seq(Recs) : a = taken /\ b = FlattenSeq(out) /\ c = batch
    BY <2>1
  <2>3. PICK k, l, m \in Nat : k = Len(a) /\ l = Len(b) /\ m = Len(c)
    BY LenProperties
  <2>4. PICK d \in Seq(Recs) : d = a \o b /\ Len(d) = k + l /\ \A x \in 1 .. k : d[x] = a[x]
    <3>1. a \o b \in Seq(Recs) /\ Len(a \o b) = k + l /\ \A x \in 1 .. k : (a \o b)[x] = a[x]
      BY <2>3, ConcatProperties
    <3>. QED  BY <3>1
  <2>5. /\ Len(d \o c) = k + l + m /\ \A x \in 1 .. k + l : (d \o c)[x] = d[x]
        /\ d \o c \in Seq(Recs)
    BY <2>3, <2>4, ConcatProperties
  <2>6. Records = d \o c
    BY <2>2, <2>4 DEF Records
  <2>7. DOMAIN Records = 1 .. k + l + m
    BY <2>5, <2>6, LenProperties
  <2>. QED  BY <2>1, <2>2, <2>3, <2>4, <2>5, <2>6, <2>7
<1>3. \A x \in 1 .. Len(taken) : IsFlow(read, taken[x].key, taken[x].mfs)
  BY <1>1, <1>2 DEF Accounted
<1>4. ASSUME NEW x \in 1 .. Len(taken), NEW y \in 1 .. Len(taken), x # y,
             NEW u \in IdsOf(read, taken[x].mfs), u \in IdsOf(read, taken[y].mfs)
      PROVE  FALSE
  <2>1. PICK j \in DOMAIN taken[x].mfs : u[1] = taken[x].mfs[j]
    BY DEF IdsOf
  <2>2. PICK l \in DOMAIN taken[y].mfs : u[1] = taken[y].mfs[l]
    BY <1>4 DEF IdsOf
  <2>3. /\ x \in DOMAIN Records /\ y \in DOMAIN Records
        /\ j \in DOMAIN Records[x].mfs /\ l \in DOMAIN Records[y].mfs
        /\ Records[x].mfs[j] = Records[y].mfs[l]
    BY <1>2, <2>1, <2>2
  <2>4. PICK R, tb : R = Records /\ tb = table
    OBVIOUS
  <2>5. R \in Seq(Recs)
    BY <1>2, <2>4
  <2>. HIDE DEF Recs
  <2>. QED  BY <1>1, <1>4, <2>3, <2>4, <2>5, RecordsApart
<1>. QED
  BY <1>3, <1>4 DEF TakenApart

LEMMA TakenFlowsThen == AccountInv' => TakenApart'
<1>1. (AccountInv => TakenApart)'
  BY TakenFlows, PTL
<1>. QED
  BY <1>1

ProfileInv ==
    /\ AccountInv
    /\ program.kernel = "profiler" =>
          host_times \in Times /\ ProfileOK(host_times, Len(taken), taken, read)

LEMMA ProfileRound ==
    ASSUME ProfileInv, program.kernel = "profiler", Profile, AccountInv'
    PROVE  host_times' \in Times /\ ProfileOK(host_times', Len(taken'), taken', read')
<1>1. /\ out # <<>> /\ Recycle /\ read' = read /\ read \in Seq(Microflows)
      /\ host_times \in Times /\ ProfileOK(host_times, Len(taken), taken, read)
      /\ ReaderTypes /\ TakenApart'
  BY TakenFlowsThen DEF Profile, Recycle, ProfileInv, AccountInv, ReaderTypes
<1>. HIDE DEF Recs
<1>2. PICK a, s \in Seq(Recs) : a = taken /\ s = Head(out) /\ taken' = a \o s
  <2>1. taken \in Seq(Recs) /\ out \in Seq(Seq(Recs))
    BY <1>1 DEF ReaderTypes
  <2>. QED  BY <1>1, <2>1, HeadTailProperties DEF Recycle
<1>3. PICK base, n \in Nat : base = Len(a) /\ n = Len(s)
  BY LenProperties
<1>4. PICK flows : /\ flows = taken' /\ Len(flows) = base + n
                   /\ \A j \in 1 .. base : flows[j] = a[j]
                   /\ \A m \in 1 .. n : flows[base + m] = s[m]
  <2>1. /\ Len(a \o s) = base + n
        /\ \A j \in 1 .. base + n : (a \o s)[j] = IF j <= base THEN a[j] ELSE s[j - base]
    BY <1>3, ConcatProperties
  <2>2. PICK c : c = a \o s
    OBVIOUS
  <2>3. \A j \in 1 .. base : c[j] = a[j]
    BY <2>1, <2>2
  <2>4. ASSUME NEW m \in 1 .. n PROVE c[base + m] = s[m]
    <3>1. PICK j \in 1 .. base + n : j = base + m /\ ~(j <= base) /\ j - base = m
      OBVIOUS
    <3>. QED  BY <2>1, <2>2, <3>1
  <2>. QED  BY <1>2, <2>1, <2>2, <2>3, <2>4
<1>5. ProfileOK(host_times, base, flows, read)
  <2>1. \A h : HostIds(h, base, flows, read) = HostIds(h, base, a, read)
    BY <1>4 DEF HostIds
  <2>2. ProfileOK(host_times, base, a, read)
    BY <1>1, <1>2, <1>3
  <2>3. {Dst[flows[x].key] : x \in 1 .. base} = {Dst[a[x].key] : x \in 1 .. base}
    BY <1>4
  <2>. QED  BY <2>1, <2>2, <2>3 DEF ProfileOK
<1>6. ASSUME NEW m \in 1 .. n
      PROVE  /\ IsFlow(read, s[m].key, s[m].mfs)
             /\ \A x \in 1 .. base + m - 1 :
                   IdsOf(read, flows[x].mfs) \cap IdsOf(read, s[m].mfs) = {}
  <2>1. PICK y \in 1 .. base + n : y = base + m /\ \A x \in 1 .. base + m - 1 :
                                       x \in 1 .. base + n /\ x # y
    OBVIOUS
  <2>2. flows[y] = s[m]
    BY <1>4, <2>1
  <2>3. /\ IsFlow(read, flows[y].key, flows[y].mfs)
        /\ \A x \in 1 .. base + n : x # y =>
              IdsOf(read, flows[x].mfs) \cap IdsOf(read, flows[y].mfs) = {}
    BY <1>1, <1>4 DEF TakenApart
  <2>. QED  BY <2>1, <2>2, <2>3
<1>7. host_times' = Profiles(host_times, s)
  <2>1. host_times' = Profiles(host_times, Head(out))
    BY Zenon DEF Profile, Profiles
  <2>. QED  BY <1>2, <2>1
<1>8. PICK c \in Times : c = host_times
  BY <1>1
<1>9. ProfileOK(c, base, flows, read)
  BY <1>5, <1>8
<1>. HIDE DEF Times
<1>10. Profiles(c, s) \in Times /\ ProfileOK(Profiles(c, s), base + n, flows, read)
  BY <1>1, <1>3, <1>4, <1>6, <1>9, ProfilesOK
<1>. QED
  BY <1>1, <1>4, <1>7, <1>8, <1>10

\* What is read later changes none of the flows that were taken.
LEMMA ProfileKept ==
    ASSUME ProfileInv, program.kernel = "profiler", UNCHANGED <<host_times, taken>>,
           \A q \in 1 .. Len(read) : read'[q] = read[q]
    PROVE  host_times' \in Times /\ ProfileOK(host_times', Len(taken'), taken', read')
<1>1. /\ host_times \in Times /\ ProfileOK(host_times, Len(taken), taken, read) /\ TakenApart
  BY TakenFlows DEF ProfileInv
<1>2. ASSUME NEW x \in 1 .. Len(taken)
      PROVE  IdsOf(read', taken[x].mfs) = IdsOf(read, taken[x].mfs)
  <2>1. \A q \in DOMAIN taken[x].mfs : read'[taken[x].mfs[q]] = read[taken[x].mfs[q]]
    BY <1>1 DEF TakenApart, IsFlow
  <2>. QED  BY <2>1 DEF IdsOf
<1>3. \A h : HostIds(h, Len(taken), taken, read') = HostIds(h, Len(taken), taken, read)
  BY <1>2 DEF HostIds
<1>. QED
  BY <1>1, <1>3 DEF ProfileOK

LEMMA ProfileNext ==
    ASSUME ProfileInv, [ProgramsNext]_programs_vars
    PROVE  ProfileInv'
<1>1. AccountInv' /\ program' = program /\ ReaderActions /\ read \in Seq(Microflows)
  BY AccountNext, ReaderSteps DEF ProfileInv, AccountInv, ReaderTypes
<1>. SUFFICES ASSUME program.kernel = "profiler"
              PROVE  host_times' \in Times /\ ProfileOK(host_times', Len(taken'), taken', read')
  BY <1>1 DEF ProfileInv
<1>2. \A q \in 1 .. Len(read) : read'[q] = read[q]
  <2>1. read' = read \/ \E m \in Microflows : read' = Append(read, m)
    BY <1>1 DEF ReaderActions, Allocate, ReadMicroflow, ReadMicroflowsEnd, TimeoutFlow,
                TimeoutFlowsEnd, Benchmark, ReplayClfr, ReplayEnd, Recycle, reader_vars
  <2>. QED  BY <1>1, <2>1, AppendProperties
<1>3. CASE ReaderThread
  <2>1. taken' = taken /\ host_times' = host_times
    BY <1>3 DEF ReaderThread, ReaderStep, MicroflowStep, ReplayStep, Allocate, ReadMicroflow,
                ReadMicroflowsEnd, TimeoutFlow, TimeoutFlowsEnd, Benchmark, ReplayClfr,
                ReplayEnd, profiler_vars
  <2>. QED  BY <1>2, <2>1, ProfileKept
<1>4. CASE KernelStep
  <2>1. Profile
    BY <1>4 DEF KernelStep
  <2>. QED  BY <1>1, <2>1, ProfileRound
<1>5. CASE BranchStep
  <2>1. taken' = taken /\ host_times' = host_times
    BY <1>5 DEF BranchStep, ChainStep, CounterStep, ReplicatedStep, ReplicatedPush, TapStep,
                TapFirst, TapSecond, reader_vars, profiler_vars
  <2>. QED  BY <1>2, <2>1, ProfileKept
<1>6. CASE Over \/ Stuck \/ UNCHANGED programs_vars
  <2>1. taken' = taken /\ host_times' = host_times
    BY <1>6 DEF Over, Stuck, programs_vars, reader_vars, profiler_vars
  <2>. QED  BY <1>2, <2>1, ProfileKept
<1>7. ASSUME NEW q \in Printers, PrinterStep(q)
      PROVE  taken' = taken /\ host_times' = host_times
  BY <1>7 DEF PrinterStep, TakeValue, reader_vars, profiler_vars
<1>. QED
  BY <1>2, <1>3, <1>4, <1>5, <1>6, <1>7, ProfileKept DEF ProgramsNext

LEMMA ProfileInit ==
    ASSUME ProgramsInit
    PROVE  ProfileInv
<1>1. taken = <<>> /\ host_times = [h \in {} |-> <<>>]
  BY DEF ProgramsInit, ReaderInit, ProfilerInit
<1>2. host_times \in Times
  <2>1. host_times \in [{} -> Seq(PktIds)] /\ {} \in SUBSET Hosts
    BY <1>1
  <2>. QED  BY <2>1 DEF Times
<1>3. Len(taken) = 0 /\ DOMAIN host_times = {} /\ 1 .. 0 = {}
  BY <1>1
<1>. QED
  BY <1>2, <1>3, AccountInit DEF ProfileInv, ProfileOK

LEMMA ProfilesComplete ==
    ASSUME ProfileInv, program.kernel = "profiler"
    PROVE  ProfileComplete
<1>1. /\ host_times \in Times /\ ProfileOK(host_times, Len(taken), taken, read)
      /\ TakenApart /\ taken \in Seq(Recs) /\ read \in Seq(Microflows)
  BY TakenFlows DEF ProfileInv, AccountInv, ReaderTypes
<1>2. PICK n \in Nat : n = Len(taken) /\ DOMAIN taken = 1 .. n
  BY <1>1, LenProperties
<1>3. ASSUME NEW x \in 1 .. n
      PROVE  ToSet(PacketIds(taken[x].mfs)) = IdsOf(read, taken[x].mfs)
  <2>1. taken[x] \in Recs
    <3>. HIDE DEF Recs
    <3>. QED  BY <1>1, <1>2, ElementOfSeq
  <2>2. PICK mfs \in Seq(Nat) : mfs = taken[x].mfs
    BY <2>1 DEF Recs
  <2>3. IsFlow(read, taken[x].key, mfs)
    BY <1>1, <1>2, <2>2 DEF TakenApart
  <2>. QED  BY <1>1, <2>2, <2>3, PacketIdsOf
<1>4. ASSUME NEW h \in DOMAIN host_times
      PROVE  LET ids == UNION {ToSet(PacketIds(f.mfs)) : f \in {g \in ToSet(taken) : Dst[g.key] = h}}
             IN  ToSet(host_times[h]) = ids /\ Len(host_times[h]) = Cardinality(ids)
  <2>. DEFINE ids == UNION {ToSet(PacketIds(f.mfs)) : f \in {g \in ToSet(taken) : Dst[g.key] = h}}
  <2>1. ids = HostIds(h, n, taken, read)
    <3>1. {g \in ToSet(taken) : Dst[g.key] = h} =
             {taken[x] : x \in {y \in 1 .. n : Dst[taken[y].key] = h}}
      BY <1>2 DEF ToSet
    <3>2. ASSUME NEW u PROVE u \in ids <=> \E x \in 1 .. n :
              Dst[taken[x].key] = h /\ u \in ToSet(PacketIds(taken[x].mfs))
      BY <3>1
    <3>3. ASSUME NEW u PROVE u \in HostIds(h, n, taken, read) <=> \E x \in 1 .. n :
              Dst[taken[x].key] = h /\ u \in IdsOf(read, taken[x].mfs)
      BY DEF HostIds
    <3>. HIDE DEF ids
    <3>4. \A u : u \in ids <=> u \in HostIds(h, n, taken, read)
      BY <1>3, <3>2, <3>3
    <3>. QED  BY <3>4
  <2>. HIDE DEF ids
  <2>2. Distinct(host_times[h]) /\ ToSet(host_times[h]) = ids
    BY <1>1, <1>2, <2>1 DEF ProfileOK
  <2>3. host_times[h] \in Seq(PktIds)
    BY <1>1 DEF Times
  <2>4. Len(host_times[h]) = Cardinality(ToSet(host_times[h]))
    <3>. HIDE DEF PktIds
    <3>. QED  BY <2>2, <2>3, DistinctCount
  <2>5. ToSet(host_times[h]) = ids /\ Len(host_times[h]) = Cardinality(ids)
    BY <2>2, <2>4
  <2>. QED  BY <2>5 DEF ids
<1>5. DOMAIN host_times = {Dst[f.key] : f \in ToSet(taken)}
  <2>1. DOMAIN host_times = {Dst[taken[x].key] : x \in 1 .. n}
    BY <1>1, <1>2 DEF ProfileOK
  <2>. QED  BY <1>2, <2>1 DEF ToSet
<1>. QED
  BY <1>4, <1>5 DEF ProfileComplete

\* For files, batches and flows of any size: the profile has an entry for each host
\* of the flows that the profiler took and for no other, with every packet of these
\* flows in it once; and on both ways behind the cloner what was counted and
\* what is on the way is what went in.
THEOREM KernelsKeepAccounts == ProgramsSpec => []KernelsAccount
<1>1. ProgramsInit => CountInv /\ ProfileInv
  BY CountInit, ProfileInit
<1>2. CountInv /\ ProfileInv /\ [ProgramsNext]_programs_vars => (CountInv /\ ProfileInv)'
  BY CountNext, ProfileNext
<1>3. CountInv /\ ProfileInv => KernelsAccount
  <2>1. program.kernel = "profiler" /\ ProfileInv => ProfileComplete
    BY ProfilesComplete
  <2>2. program.kernel \in {"count", "tap"} /\ CountInv => CountsAgree
    BY DEF CountInv, Counting
  <2>. QED  BY <2>1, <2>2 DEF KernelsAccount
<1>. QED
  BY <1>1, <1>2, <1>3, PTL DEF ProgramsSpec

-----------------------------------------------------------------------------
(***************************************************************************)
(* The detector's multisets, in their order.                               *)
(***************************************************************************)
Ordered(s) == \A j, l \in DOMAIN s : j < l => s[j].ts <= s[l].ts

\* Element n is so many places behind the first.
Before(s, m, n) == s[m].ts < s[n].ts \/ (s[m].ts = s[n].ts /\ m < n)
Places(s) == [n \in DOMAIN s |-> Cardinality({m \in DOMAIN s : Before(s, m, n)}) + 1]

LEMMA PlacesAreAll ==
    ASSUME NEW X, NEW s \in Seq(X), \A x \in X : x.ts \in Nat, NEW k \in Nat, k = Len(s)
    PROVE  /\ Places(s) \in Surjection(1 .. k, 1 .. k)
           /\ Places(s) \in Injection(1 .. k, 1 .. k)
           /\ \A m, n \in 1 .. k : Before(s, m, n) => Places(s)[m] < Places(s)[n]
<1>. DEFINE E(n) == {m \in 1 .. k : Before(s, m, n)}
<1>1. DOMAIN s = 1 .. k /\ \A n \in 1 .. k : s[n].ts \in Nat
  BY LenProperties, ElementOfSeq
<1>2. IsFiniteSet(1 .. k) /\ Cardinality(1 .. k) = k
  BY CountOfInterval
<1>3. PICK P : P = Places(s) /\ P = [n \in 1 .. k |-> Cardinality(E(n)) + 1]
  BY <1>1 DEF Places
<1>4. ASSUME NEW n \in 1 .. k
      PROVE  IsFiniteSet(E(n)) /\ Cardinality(E(n)) \in Nat /\ P[n] \in 1 .. k
  <2>1. E(n) \subseteq (1 .. k) \ {n}
    BY <1>1 DEF Before
  <2>2. IsFiniteSet((1 .. k) \ {n}) /\ Cardinality((1 .. k) \ {n}) = k - 1
    BY <1>2, FS_RemoveElement
  <2>. HIDE DEF E
  <2>3. IsFiniteSet(E(n)) /\ Cardinality(E(n)) <= k - 1
    BY <2>1, <2>2, FS_Subset
  <2>4. Cardinality(E(n)) \in Nat
    BY <2>3, FS_CardinalityType
  <2>5. P[n] = Cardinality(E(n)) + 1
    BY <1>3
  <2>. QED  BY <2>3, <2>4, <2>5
<1>5. ASSUME NEW m \in 1 .. k, NEW n \in 1 .. k, Before(s, m, n)
      PROVE  P[m] < P[n]
  <2>1. E(m) \subseteq E(n) /\ m \in E(n) /\ m \notin E(m)
    BY <1>1, <1>5 DEF Before
  <2>. HIDE DEF E
  <2>2. Cardinality(E(m)) <= Cardinality(E(n)) /\ Cardinality(E(m)) # Cardinality(E(n))
    BY <1>4, <2>1, FS_Subset
  <2>. QED  BY <1>3, <1>4, <2>2
<1>6. P \in Injection(1 .. k, 1 .. k)
  <2>1. P \in [1 .. k -> 1 .. k]
    BY <1>3, <1>4
  <2>2. ASSUME NEW m \in 1 .. k, NEW n \in 1 .. k, P[m] = P[n] PROVE m = n
    <3>. HIDE DEF E
    <3>1. PICK a \in Nat : a = P[m] /\ a = P[n]
      BY <1>4, <2>2
    <3>2. ~Before(s, m, n) /\ ~Before(s, n, m)
      <4>1. Before(s, m, n) => P[m] < P[n]
        BY <1>5
      <4>2. Before(s, n, m) => P[n] < P[m]
        BY <1>5
      <4>. QED  BY <3>1, <4>1, <4>2
    <3>. QED  BY <1>1, <3>2 DEF Before
  <2>. QED  BY <2>1, <2>2 DEF Injection, IsInjective
<1>7. P \in Surjection(1 .. k, 1 .. k)
  BY <1>2, <1>6, FS_Injection
<1>. QED
  BY <1>3, <1>5, <1>6, <1>7

\* ByTs sorts: the same elements, in order.
LEMMA ByTsSorts ==
    ASSUME NEW X, NEW s \in Seq(X), \A x \in X : x.ts \in Nat
    PROVE  /\ ByTs(s) \in Seq(X) /\ ToSet(ByTs(s)) = ToSet(s)
           /\ Ordered(ByTs(s))
<1>1. PICK k \in Nat : k = Len(s) /\ DOMAIN s = 1 .. k
  BY LenProperties
<1>2. PICK P : /\ P = Places(s)
               /\ P \in Surjection(1 .. k, 1 .. k) /\ P \in Injection(1 .. k, 1 .. k)
               /\ \A m, n \in 1 .. k : Before(s, m, n) => P[m] < P[n]
  BY <1>1, PlacesAreAll
<1>3. \A n \in 1 .. k : s[n] \in X /\ s[n].ts \in Nat
  BY <1>1, ElementOfSeq
<1>4. PICK t : t = ByTs(s)
  OBVIOUS
<1>. DEFINE place(n) == Cardinality({m \in DOMAIN s : Before(s, m, n)}) + 1
            chosen(j) == CHOOSE n \in DOMAIN s : place(n) = j
<1>5. t = [j \in DOMAIN s |-> s[chosen(j)]]
  BY <1>4, Zenon DEF ByTs, Before
<1>6. ASSUME NEW j \in 1 .. k
      PROVE  \E n \in 1 .. k : P[n] = j /\ t[j] = s[n]
  <2>1. \E n \in 1 .. k : P[n] = j
    BY <1>2 DEF Surjection
  <2>2. \A n \in 1 .. k : P[n] = place(n)
    BY <1>1, <1>2 DEF Places
  <2>. HIDE DEF place
  <2>3. \E n \in DOMAIN s : place(n) = j
    BY <1>1, <2>1, <2>2
  <2>4. chosen(j) \in DOMAIN s /\ place(chosen(j)) = j
    BY <2>3
  <2>. HIDE DEF chosen
  <2>5. t[j] = s[chosen(j)]
    BY <1>1, <1>5
  <2>. QED  BY <1>1, <2>2, <2>4, <2>5
<1>. HIDE DEF chosen, place
<1>7. DOMAIN t = 1 .. k /\ \A j \in 1 .. k : t[j] \in X
  BY <1>1, <1>3, <1>5, <1>6
<1>8. t \in Seq(X)
  <2>1. t \in [1 .. k -> X]
    BY <1>5, <1>7
  <2>. QED  BY <2>1
<1>9. \A n \in 1 .. k : t[P[n]] = s[n] /\ P[n] \in 1 .. k
  <2>1. \A n \in 1 .. k : P[n] \in 1 .. k
    BY <1>2 DEF Injection
  <2>2. \A m, n \in 1 .. k : P[m] = P[n] => m = n
    BY <1>2 DEF Injection, IsInjective
  <2>. QED  BY <1>6, <2>1, <2>2
<1>10. ToSet(t) = ToSet(s)
  <2>1. ToSet(t) \subseteq ToSet(s)
    <3>1. ToSet(t) = {t[j] : j \in 1 .. k} /\ ToSet(s) = {s[n] : n \in 1 .. k}
      BY <1>1, <1>7 DEF ToSet
    <3>. QED  BY <1>6, <3>1
  <2>2. ToSet(s) \subseteq ToSet(t)
    BY <1>1, <1>7, <1>9 DEF ToSet
  <2>. QED  BY <2>1, <2>2
<1>11. Ordered(t)
  <2>. SUFFICES ASSUME NEW j \in 1 .. k, NEW l \in 1 .. k, j < l PROVE t[j].ts <= t[l].ts
    BY <1>7 DEF Ordered
  <2>1. PICK m \in 1 .. k : P[m] = j /\ t[j] = s[m]
    BY <1>6
  <2>2. PICK n \in 1 .. k : P[n] = l /\ t[l] = s[n]
    BY <1>6
  <2>3. ~Before(s, n, m)
    BY <1>2, <2>1, <2>2
  <2>. QED  BY <1>3, <2>1, <2>2, <2>3 DEF Before
<1>. QED
  BY <1>4, <1>8, <1>10, <1>11

\* Kept has all that is not earlier, and nothing new.
LEMMA KeptLate ==
    ASSUME NEW X, NEW s \in Seq(X), \A x \in X : x.ts \in Nat, NEW b \in Nat, Ordered(s)
    PROVE  /\ Kept(s, b) \in Seq(X) /\ ToSet(Kept(s, b)) \subseteq ToSet(s)
           /\ \A x \in ToSet(s) : x.ts >= b => x \in ToSet(Kept(s, b))
           /\ Ordered(Kept(s, b))
<1>. DEFINE E == {n \in 1 .. Len(s) : s[n].ts < b}
<1>1. PICK k \in Nat : k = Len(s) /\ DOMAIN s = 1 .. k
  BY LenProperties
<1>2. \A n \in 1 .. k : s[n] \in X /\ s[n].ts \in Nat
  BY <1>1, ElementOfSeq
<1>3. PICK c \in Nat : c = Cardinality(E) /\ IsFiniteSet(E) /\ c <= k
  <2>1. IsFiniteSet(1 .. k) /\ Cardinality(1 .. k) = k
    BY CountOfInterval
  <2>2. E \in SUBSET (1 .. k)
    BY <1>1
  <2>. HIDE DEF E
  <2>3. IsFiniteSet(E) /\ Cardinality(E) <= k
    BY <2>1, <2>2, FS_Subset
  <2>. QED  BY <2>3, FS_CardinalityType
<1>4. PICK t : t = Kept(s, b) /\ t = SubSeq(s, c + 1, k)
  BY <1>1, <1>3 DEF Kept
<1>. HIDE DEF E
<1>5. /\ t \in Seq(X) /\ Len(t) = k - c /\ DOMAIN t = 1 .. k - c
      /\ \A j \in 1 .. k - c : t[j] = s[c + j] /\ c + j \in 1 .. k
  <2>1. \A j \in 1 .. k - c : t[j] = s[c + j]
    BY <1>1, <1>3, <1>4
  <2>2. Len(t) = k - c
    BY <1>1, <1>3, <1>4
  <2>3. \A j \in 1 .. k - c : c + j \in 1 .. k
    BY <1>1, <1>3
  <2>4. t = [j \in 1 .. k - c |-> s[c + j]]
    <3>1. t = [j \in 1 .. k - (c + 1) + 1 |-> s[(c + 1) + j - 1]]
      BY <1>1, <1>3, <1>4
    <3>2. k - (c + 1) + 1 = k - c /\ \A j \in 1 .. k - c : (c + 1) + j - 1 = c + j
      BY <1>1, <1>3
    <3>. QED  BY <3>1, <3>2
  <2>5. t \in [1 .. k - c -> X]
    BY <1>2, <2>3, <2>4
  <2>6. k - c \in Nat
    BY <1>3
  <2>7. t \in Seq(X)
    BY <2>5, <2>6
  <2>8. DOMAIN t = 1 .. k - c
    BY <2>4
  <2>. QED  BY <2>1, <2>2, <2>3, <2>7, <2>8
<1>6. ToSet(t) \subseteq ToSet(s)
  BY <1>1, <1>5 DEF ToSet
<1>7. ASSUME NEW x \in ToSet(s), x.ts >= b
      PROVE  x \in ToSet(t)
  <2>1. PICK n \in 1 .. k : x = s[n]
    BY <1>1 DEF ToSet
  <2>2. E \subseteq 1 .. n - 1
    <3>1. \A m \in 1 .. k : n < m => s[n].ts <= s[m].ts
      BY <1>1 DEF Ordered
    <3>. QED  BY <1>1, <1>2, <1>7, <2>1, <3>1 DEF E
  <2>3. PICK l \in Nat : l = n - 1
    BY <2>1
  <2>4. c <= l
    <3>1. IsFiniteSet(1 .. l) /\ Cardinality(1 .. l) = l /\ E \in SUBSET (1 .. l)
      BY <2>2, <2>3, CountOfInterval
    <3>. HIDE DEF E
    <3>. QED  BY <1>3, <3>1, FS_Subset
  <2>5. n - c \in 1 .. k - c /\ c + (n - c) = n
    BY <1>3, <2>3, <2>4
  <2>6. t[n - c] = s[n]
    BY <1>5, <2>5
  <2>. QED  BY <1>5, <2>1, <2>5, <2>6 DEF ToSet
<1>8. Ordered(t)
  <2>. SUFFICES ASSUME NEW j \in 1 .. k - c, NEW l \in 1 .. k - c, j < l PROVE t[j].ts <= t[l].ts
    BY <1>5 DEF Ordered
  <2>1. PICK m, n \in 1 .. k : m = c + j /\ n = c + l /\ m < n
    <3>1. c + j \in 1 .. k /\ c + l \in 1 .. k /\ c + j < c + l
      BY <1>1, <1>3
    <3>. QED  BY <3>1
  <2>. QED  BY <1>1, <1>5, <2>1 DEF Ordered
<1>. QED
  BY <1>4, <1>5, <1>6, <1>7, <1>8

-----------------------------------------------------------------------------
PktRecs == [ts : Nat, queue : Nat]

\* Packets and LastTs, of what was read.
PacketsIn(rd, mfs) == FlattenSeq([n \in DOMAIN mfs |-> rd[mfs[n]].pkts])
LastIn(rd, mfs) == Last(rd[Last(mfs)].pkts).ts

FlowOK(rd, f) == f \in Recs /\ IsFlow(rd, f.key, f.mfs) /\ Len(f.mfs) > 0

\* The packets of a flow end with those of its last microflow.
LEMMA PacketsType ==
    ASSUME NEW rd \in Seq(Microflows), NEW f, FlowOK(rd, f)
    PROVE  /\ PacketsIn(rd, f.mfs) \in Seq(PktRecs) /\ Len(PacketsIn(rd, f.mfs)) > 0
           /\ LastIn(rd, f.mfs) = PacketsIn(rd, f.mfs)[Len(PacketsIn(rd, f.mfs))].ts
           /\ LastIn(rd, f.mfs) \in Nat
<1>. DEFINE s == [q \in DOMAIN f.mfs |-> rd[f.mfs[q]].pkts]
<1>1. PICK mfs \in Seq(Nat) : mfs = f.mfs /\ Len(mfs) > 0
                              /\ \A j \in DOMAIN mfs : mfs[j] \in 1 .. Len(rd)
  BY DEF FlowOK, Recs, IsFlow
<1>2. PICK n, l \in Nat : n = Len(mfs) /\ DOMAIN mfs = 1 .. n /\ n = l + 1
  <2>1. Len(mfs) \in Nat /\ DOMAIN mfs = 1 .. Len(mfs)
    BY LenProperties
  <2>2. Len(mfs) - 1 \in Nat /\ Len(mfs) = (Len(mfs) - 1) + 1
    BY <1>1, <2>1
  <2>. QED  BY <2>1, <2>2
<1>3. ASSUME NEW q \in 1 .. n
      PROVE  /\ s[q] \in Seq(PktRecs) /\ Len(s[q]) > 0
             /\ Last(s[q]) = s[q][Len(s[q])] /\ Last(s[q]).ts \in Nat
  <2>1. rd[mfs[q]] \in Microflows
    BY <1>1, <1>2, ElementOfSeq
  <2>2. s[q] = rd[mfs[q]].pkts
    BY <1>1, <1>2
  <2>. QED  BY <2>1, <2>2, MicroflowTypes DEF PktRecs
<1>4. LastIn(rd, f.mfs) = Last(s[n]).ts
  <2>1. Last(mfs) = mfs[n]
    BY <1>2 DEF Last
  <2>2. n \in 1 .. n
    BY <1>2
  <2>. QED  BY <1>1, <1>2, <2>1, <2>2 DEF LastIn
<1>5. s = [q \in 1 .. n |-> s[q]]
  BY <1>1, <1>2
<1>6. PacketsIn(rd, f.mfs) = FlattenSeq(s)
  BY DEF PacketsIn
<1>. HIDE DEF s, PktRecs
<1>. DEFINE front == [q \in 1 .. l |-> s[q]]
<1>7. front \in Seq(Seq(PktRecs)) /\ Len(front) = l /\ DOMAIN front = 1 .. l
  <2>1. \A q \in 1 .. l : q \in 1 .. n
    BY <1>2
  <2>2. front \in [1 .. l -> Seq(PktRecs)]
    BY <1>3, <2>1
  <2>. QED  BY <2>2
<1>8. n \in 1 .. n
  BY <1>2
<1>9. s = Append(front, s[n])
  <2>1. PICK t \in Seq(Seq(PktRecs)) : t = Append(front, s[n])
    BY <1>3, <1>7, <1>8, AppendProperties
  <2>2. /\ Len(t) = n /\ DOMAIN t = 1 .. n
        /\ \A q \in 1 .. l : t[q] = front[q]
        /\ t[n] = s[n]
    BY <1>2, <1>3, <1>7, <1>8, <2>1, AppendProperties, LenProperties
  <2>3. t = [q \in 1 .. n |-> t[q]]
    BY <2>2
  <2>4. \A q \in 1 .. n : t[q] = s[q]
    <3>1. \A q \in 1 .. n : q \in 1 .. l \/ q = n
      BY <1>2
    <3>. QED  BY <2>2, <3>1
  <2>. QED  BY <1>5, <2>1, <2>3, <2>4
<1>10. /\ FlattenSeq(front) \in Seq(PktRecs)
       /\ FlattenSeq(s) = FlattenSeq(front) \o s[n]
  BY <1>3, <1>7, <1>8, <1>9, FlattenAppend
<1>11. PICK a, b \in Seq(PktRecs) : a = FlattenSeq(front) /\ b = s[n] /\ Len(b) > 0
                                    /\ LastIn(rd, f.mfs) = b[Len(b)].ts /\ LastIn(rd, f.mfs) \in Nat
  BY <1>3, <1>4, <1>8, <1>10
<1>12. /\ a \o b \in Seq(PktRecs) /\ Len(a \o b) = Len(a) + Len(b) /\ Len(a) \in Nat
       /\ Len(b) \in Nat /\ (a \o b)[Len(a) + Len(b)] = b[Len(b)]
  <2>1. PICK k, m \in Nat : k = Len(a) /\ m = Len(b) /\ m > 0
    BY <1>11, LenProperties
  <2>2. /\ a \o b \in Seq(PktRecs) /\ Len(a \o b) = k + m
        /\ \A j \in 1 .. k + m : (a \o b)[j] = IF j <= k THEN a[j] ELSE b[j - k]
    BY <2>1, ConcatProperties
  <2>3. k + m \in 1 .. k + m /\ ~(k + m <= k) /\ (k + m) - k = m
    BY <2>1
  <2>4. (a \o b)[k + m] = b[m]
    BY <2>2, <2>3
  <2>. QED  BY <2>1, <2>2, <2>4
<1>. QED
  BY <1>6, <1>10, <1>11, <1>12

LEMMA GreatestOf ==
    ASSUME NEW n \in Nat, n > 0, NEW q \in [1 .. n -> Nat]
    PROVE  \E j \in 1 .. n : \A m \in 1 .. n : q[m] <= q[j]
<1>. DEFINE Good(m) == \E j \in 1 .. m : \A l \in 1 .. m : q[l] <= q[j]
            Bad == {m \in 1 .. n : ~Good(m)}
<1>1. Bad = {}
  <2>. SUFFICES ASSUME Bad # {} PROVE FALSE
    OBVIOUS
  <2>1. PICK m \in Bad : \A k \in Bad : m <= k
    <3>1. Bad \in SUBSET Nat
      OBVIOUS
    <3>. HIDE DEF Bad
    <3>. QED  BY <3>1, NatMinimum
  <2>2. m \in 1 .. n /\ ~Good(m)
    OBVIOUS
  <2>3. m # 1
    <3>1. Good(1)
      <4>1. 1 .. 1 = {1} /\ q[1] \in Nat
        OBVIOUS
      <4>. QED  BY <4>1
    <3>. QED  BY <2>2, <3>1
  <2>4. PICK l \in 1 .. n : m = l + 1 /\ ~(m <= l)
    <3>. HIDE DEF Good, Bad
    <3>1. m - 1 \in 1 .. n /\ m = (m - 1) + 1 /\ ~(m <= m - 1)
      BY <2>2, <2>3
    <3>. QED  BY <3>1
  <2>5. PICK j \in 1 .. l : \A k \in 1 .. l : q[k] <= q[j]
    <3>1. l \notin Bad
      <4>. HIDE DEF Bad
      <4>. QED  BY <2>1, <2>4
    <3>. QED  BY <3>1
  <2>6. 1 .. m = (1 .. l) \cup {m} /\ j \in 1 .. n /\ j \in 1 .. m /\ m \in 1 .. m
    <3>. HIDE DEF Bad, Good
    <3>. QED  BY <2>2, <2>4
  <2>7. \A k \in 1 .. m : q[k] \in Nat
    <3>. HIDE DEF Bad, Good
    <3>. QED  BY <2>2
  <2>8. Good(m)
    <3>1. CASE q[m] <= q[j]
      <4>1. \A k \in 1 .. m : q[k] <= q[j]
        BY <2>5, <2>6, <3>1
      <4>. QED  BY <2>6, <4>1
    <3>2. CASE ~(q[m] <= q[j])
      <4>1. \A k \in 1 .. m : q[k] <= q[m]
        <5>. HIDE DEF Bad, Good
        <5>1. \A k \in 1 .. l : k \in 1 .. m
          BY <2>4, <2>6
        <5>2. \A k \in 1 .. l : q[k] <= q[m]
          BY <2>5, <2>6, <2>7, <3>2, <5>1
        <5>. QED  BY <2>6, <2>7, <5>2
      <4>. QED  BY <2>6, <4>1
    <3>. QED  BY <3>1, <3>2
  <2>. QED  BY <2>2, <2>8
<1>2. n \in 1 .. n
  OBVIOUS
<1>3. n \notin Bad
  <2>. HIDE DEF Bad
  <2>. QED  BY <1>1
<1>4. Good(n)
  <2>. HIDE DEF Good
  <2>. QED  BY <1>2, <1>3
<1>. QED
  BY <1>4

LEMMA MaxTimeType ==
    ASSUME NEW pkts \in Seq(PktRecs), Len(pkts) > 0
    PROVE  LocalMaxTime(pkts) \in Nat
<1>1. PICK n \in Nat : n = Len(pkts) /\ n > 0 /\ DOMAIN pkts = 1 .. n
  BY LenProperties
<1>2. \A j \in 1 .. n : pkts[j] \in PktRecs /\ pkts[j].queue \in Nat /\ pkts[j].ts \in Nat
  <2>1. \A j \in 1 .. n : pkts[j] \in PktRecs
    <3>. HIDE DEF PktRecs
    <3>. QED  BY <1>1, ElementOfSeq
  <2>. QED  BY <2>1 DEF PktRecs
<1>. DEFINE q == [j \in 1 .. n |-> pkts[j].queue]
            S == {p.queue : p \in ToSet(pkts)}
<1>3. PICK j \in 1 .. n : \A m \in 1 .. n : pkts[m].queue <= pkts[j].queue
  <2>1. q \in [1 .. n -> Nat]
    BY <1>2
  <2>2. \E j \in 1 .. n : \A m \in 1 .. n : q[m] <= q[j]
    <3>. HIDE DEF q
    <3>. QED  BY <1>1, <2>1, GreatestOf
  <2>. QED  BY <2>2
<1>4. S = {pkts[m].queue : m \in 1 .. n}
  BY <1>1 DEF ToSet
<1>5. LocalMaxSize(pkts) \in S
  <2>1. \E x \in S : \A y \in S : x >= y
    <3>1. pkts[j].queue \in S /\ \A y \in S : pkts[j].queue >= y
      BY <1>2, <1>3, <1>4
    <3>. QED  BY <3>1
  <2>2. LocalMaxSize(pkts) = Max(S)
    BY DEF LocalMaxSize
  <2>. HIDE DEF S
  <2>. QED  BY <2>1, <2>2 DEF Max
<1>. DEFINE T == {m \in 1 .. n : pkts[m].queue = LocalMaxSize(pkts)}
<1>6. T \in SUBSET (1 .. n) /\ T # {}
  BY <1>4, <1>5
<1>7. LocalMaxTime(pkts) = pkts[Min(T)].ts
  BY <1>1 DEF LocalMaxTime
<1>8. Min(T) \in 1 .. n
  <2>. HIDE DEF T
  <2>. QED  BY <1>6, MinOfBounded
<1>. HIDE DEF T
<1>. QED
  BY <1>2, <1>7, <1>8

-----------------------------------------------------------------------------
(***************************************************************************)
(* updateQueue, from a queue and an index d.                               *)
(***************************************************************************)
Sources == {Src[m.key] : m \in Microflows}
QueueRecs == [src : Sources, ts : Nat, of : Seq(Nat) \X Nat]
Starts == UNION {[K -> Nat] : K \in SUBSET {m.key : m \in Microflows}}
Queues == [queue : Seq(QueueRecs), start : Starts]

StartOf(start, k) == IF k \in DOMAIN start THEN start[k] ELSE 0
InQueue(rd, q, mfs, j) == \E p \in ToSet(q) : p.of = <<mfs, j>> /\ p.ts = PacketsIn(rd, mfs)[j].ts

\* What updateQueue does for a flow: the packets from a + 1 on to l are in the
\* queue, beyond l they are after the end, and the index is a or l.
Updates(rd, d, u, f, end) ==
    /\ u \in Queues /\ ToSet(d.queue) \subseteq ToSet(u.queue)
    /\ DOMAIN u.start = DOMAIN d.start \cup {f.key}
    /\ \A k : k # f.key => StartOf(u.start, k) = StartOf(d.start, k)
    /\ LET a == StartOf(d.start, f.key)
           n == Len(PacketsIn(rd, f.mfs))
       IN  a <= n /\ Ordered(PacketsIn(rd, f.mfs)) =>
              \E l \in Nat :
                 /\ a <= l /\ l <= n /\ StartOf(u.start, f.key) \in {a, l}
                 /\ \A j \in 1 .. n : a < j /\ j <= l => InQueue(rd, u.queue, f.mfs, j)
                 /\ \A j \in 1 .. n : l < j => PacketsIn(rd, f.mfs)[j].ts > end

LEMMA UpdateQueueUpdates ==
    ASSUME read \in Seq(Microflows), NEW d \in Queues, NEW f, FlowOK(read, f), NEW end \in Nat
    PROVE  Updates(read, d, UpdateQueue(d, f, end), f, end)
<1>. DEFINE pkts == PacketsIn(read, f.mfs)
            first == StartOf(d.start, f.key)
            beyond == PacketsBeyond(pkts, first, end)
            last == IF beyond = {} THEN Len(pkts) ELSE Min(beyond) - 1
            more == [m \in 1 .. last - first |->
                        [src |-> Src[f.key], ts |-> pkts[first + m].ts,
                         of |-> <<f.mfs, first + m>>]]
            u == UpdateQueue(d, f, end)
<1>1. /\ pkts \in Seq(PktRecs) /\ Len(pkts) > 0
  BY PacketsType
<1>2. PICK n \in Nat : n = Len(pkts) /\ DOMAIN pkts = 1 .. n
  BY <1>1, LenProperties
<1>3. \A j \in 1 .. n : pkts[j].ts \in Nat
  <2>1. \A j \in 1 .. n : pkts[j] \in PktRecs
    <3>. HIDE DEF PktRecs, pkts
    <3>. QED  BY <1>1, <1>2, ElementOfSeq
  <2>. HIDE DEF pkts
  <2>. QED  BY <2>1 DEF PktRecs
<1>4. /\ d.queue \in Seq(QueueRecs) /\ d.start \in Starts
      /\ f.key \in {m.key : m \in Microflows} /\ f.mfs \in Seq(Nat) /\ Src[f.key] \in Sources
  BY DEF Queues, FlowOK, Recs, Sources
<1>5. PICK a \in Nat : a = first
  BY <1>4 DEF Starts, StartOf
<1>6. u = [queue |-> d.queue \o more,
           start |-> [k \in DOMAIN d.start \cup {f.key} |->
                         IF k # f.key THEN d.start[k] ELSE IF beyond = {} THEN first ELSE last]]
  BY Zenon DEF UpdateQueue, StartOf, Packets, PacketsIn
<1>. HIDE DEF pkts, u
<1>7. beyond = {j \in 1 .. n : j > a /\ pkts[j].ts > end}
  BY <1>2, <1>5 DEF PacketsBeyond
<1>8. PICK B : B = beyond
  OBVIOUS
<1>9. PICK l \in Nat : /\ l = last /\ l <= n
                       /\ B # {} => a <= l
                       /\ B = {} => l = n
                       /\ \A j \in 1 .. n : a < j /\ l < j /\ Ordered(pkts) => pkts[j].ts > end
  <2>1. CASE B = {}
    <3>1. last = n
      BY <1>2, <1>8, <2>1
    <3>. QED  BY <2>1, <3>1
  <2>2. CASE B # {}
    <3>1. PICK m : m = Min(B) /\ m \in B /\ \A j \in B : m <= j
      <4>1. B \in SUBSET (1 .. n)
        BY <1>7, <1>8
      <4>. QED  BY <2>2, <4>1, MinOfBounded
    <3>2. m \in 1 .. n /\ m > a /\ pkts[m].ts > end
      BY <1>7, <1>8, <3>1
    <3>3. last = m - 1
      BY <1>8, <2>2, <3>1
    <3>4. m - 1 \in Nat /\ m - 1 <= n /\ a <= m - 1
      BY <3>2
    <3>5. \A j \in 1 .. n : m - 1 < j /\ Ordered(pkts) => pkts[j].ts > end
      <4>1. ASSUME NEW j \in 1 .. n, m - 1 < j, Ordered(pkts) PROVE pkts[j].ts > end
        <5>1. m = j \/ m < j
          BY <3>2, <4>1
        <5>2. m < j => pkts[m].ts <= pkts[j].ts
          BY <1>2, <3>2, <4>1 DEF Ordered
        <5>3. pkts[m].ts \in Nat /\ pkts[j].ts \in Nat
          BY <1>3, <3>2
        <5>. QED  BY <3>2, <5>1, <5>2, <5>3
      <4>. QED  BY <4>1
    <3>6. PICK z \in Nat : z = m - 1
      BY <3>4
    <3>7. z = last /\ z <= n /\ a <= z
          /\ \A j \in 1 .. n : z < j /\ Ordered(pkts) => pkts[j].ts > end
      BY <3>3, <3>4, <3>5, <3>6
    <3>. QED  BY <2>2, <3>7
  <2>. QED  BY <2>1, <2>2
<1>. HIDE DEF beyond, first, last
<1>10. more = [m \in 1 .. l - a |-> [src |-> Src[f.key], ts |-> pkts[a + m].ts,
                                     of |-> <<f.mfs, a + m>>]]
  BY <1>5, <1>9
<1>. HIDE DEF more
<1>11. PICK w \in Seq(QueueRecs) :
          /\ w = more
          /\ \A j \in 1 .. n : a < j /\ j <= l => InQueue(read, w, f.mfs, j)
  <2>1. \A m \in 1 .. l - a : a + m \in 1 .. n /\ a + m \in Nat
    BY <1>9
  <2>2. \A m \in 1 .. l - a : more[m] \in QueueRecs /\ more[m] = [src |-> Src[f.key],
              ts |-> pkts[a + m].ts, of |-> <<f.mfs, a + m>>]
    BY <1>3, <1>4, <1>10, <2>1 DEF QueueRecs
  <2>3. more \in Seq(QueueRecs) /\ DOMAIN more = 1 .. l - a
    <3>1. DOMAIN more = 1 .. l - a /\ more = [m \in 1 .. l - a |-> more[m]]
      BY <1>10
    <3>2. more \in [1 .. l - a -> QueueRecs]
      <4>. HIDE DEF QueueRecs
      <4>. QED  BY <2>2, <3>1
    <3>3. PICK g \in Nat : 1 .. l - a = 1 .. g
      <4>1. CASE l - a \in Nat
        BY <4>1
      <4>2. CASE l - a \notin Nat
        <5>1. 1 .. l - a = 1 .. 0
          BY <4>2
        <5>. QED  BY <5>1
      <4>. QED  BY <4>1, <4>2
    <3>. HIDE DEF QueueRecs
    <3>. QED  BY <3>1, <3>2, <3>3
  <2>4. ASSUME NEW j \in 1 .. n, a < j, j <= l PROVE InQueue(read, more, f.mfs, j)
    <3>1. PICK m \in 1 .. l - a : m = j - a /\ a + m = j
      <4>1. j - a \in 1 .. l - a /\ a + (j - a) = j
        BY <2>4
      <4>. QED  BY <4>1
    <3>2. more[m] \in ToSet(more)
      BY <2>3 DEF ToSet
    <3>3. more[m] = [src |-> Src[f.key], ts |-> pkts[a + m].ts, of |-> <<f.mfs, a + m>>]
      BY <2>2, Zenon
    <3>4. more[m].of = <<f.mfs, j>> /\ more[m].ts = pkts[j].ts
      BY <3>1, <3>3
    <3>. QED  BY <3>2, <3>4 DEF InQueue, pkts
  <2>. QED  BY <2>3, <2>4
<1>12. PICK q \in Seq(QueueRecs) : q = d.queue /\ u.queue = q \o w
  BY <1>4, <1>6, <1>11
<1>13. /\ u.queue \in Seq(QueueRecs) /\ ToSet(u.queue) = ToSet(q) \cup ToSet(w)
  <2>. HIDE DEF QueueRecs
  <2>. QED  BY <1>12, ConcatMembers
<1>14. /\ u.start = [k \in DOMAIN d.start \cup {f.key} |->
                        IF k # f.key THEN d.start[k] ELSE IF B = {} THEN a ELSE l]
  BY <1>5, <1>6, <1>8, <1>9
<1>15. u.start \in Starts
  <2>1. DOMAIN d.start \in SUBSET {m.key : m \in Microflows}
        /\ \A k \in DOMAIN d.start : d.start[k] \in Nat
    BY <1>4 DEF Starts
  <2>2. u.start \in [DOMAIN d.start \cup {f.key} -> Nat]
    BY <1>14, <2>1
  <2>3. DOMAIN d.start \cup {f.key} \in SUBSET {m.key : m \in Microflows}
    BY <1>4, <2>1
  <2>. QED  BY <2>2, <2>3 DEF Starts
<1>16. u \in Queues
  <2>1. u = [queue |-> u.queue, start |-> u.start]
    BY <1>6
  <2>. QED  BY <1>13, <1>15, <2>1 DEF Queues
<1>17. /\ DOMAIN u.start = DOMAIN d.start \cup {f.key}
       /\ \A k : k # f.key => StartOf(u.start, k) = StartOf(d.start, k)
       /\ StartOf(u.start, f.key) = IF B = {} THEN a ELSE l
  BY <1>14 DEF StartOf
<1>18. ASSUME a <= n, Ordered(pkts)
       PROVE  \E z \in Nat :
                 /\ a <= z /\ z <= n /\ StartOf(u.start, f.key) \in {a, z}
                 /\ \A j \in 1 .. n : a < j /\ j <= z => InQueue(read, u.queue, f.mfs, j)
                 /\ \A j \in 1 .. n : z < j => pkts[j].ts > end
  <2>1. a <= l
    BY <1>9, <1>18
  <2>2. \A j \in 1 .. n : a < j /\ j <= l => InQueue(read, u.queue, f.mfs, j)
    BY <1>11, <1>13 DEF InQueue
  <2>3. \A j \in 1 .. n : l < j => pkts[j].ts > end
    BY <1>9, <1>18, <2>1
  <2>4. StartOf(u.start, f.key) \in {a, l}
    BY <1>17
  <2>. QED  BY <1>9, <2>1, <2>2, <2>3, <2>4
<1>19. ToSet(d.queue) \subseteq ToSet(u.queue)
  BY <1>12, <1>13
<1>20. Updates(read, d, u, f, end)
  BY <1>2, <1>5, <1>16, <1>17, <1>18, <1>19 DEF Updates, pkts, first
<1>. QED
  BY <1>20 DEF u

LEMMA UpdateQueueOfIs ==
    ASSUME NEW d, NEW f, NEW end
    PROVE  UpdateQueueOf(d, f, end) = UpdateQueue(d, f, end)
<1>1. PICK r : r = UpdateQueue(d, f, end)
  OBVIOUS
<1>2. {UpdateQueue(e, f, end) : e \in {d}} = {r}
  BY <1>1
<1>3. UpdateQueueOf(d, f, end) \in {UpdateQueue(e, f, end) : e \in {d}}
  BY <1>2 DEF UpdateQueueOf
<1>. QED
  BY <1>1, <1>2, <1>3

-----------------------------------------------------------------------------
(***************************************************************************)
(* updateQueue, for all flows of the cache, which are among n flows fl.    *)
(***************************************************************************)
FlowsOK(rd, n, fl) == \A m \in 1 .. n : FlowOK(rd, fl[m])

FlowsOrderly(rd, n, fl) ==
    /\ \A l, m \in 1 .. n : l < m =>
          /\ PacketsIn(rd, fl[l].mfs)[1].ts <= PacketsIn(rd, fl[m].mfs)[1].ts
          /\ fl[l].key # fl[m].key
    /\ \A m \in 1 .. n : Ordered(PacketsIn(rd, fl[m].mfs))

\* The packets of a flow that come before its index are in the queue, from time b on.
UpTo(rd, d, n, fl, b) ==
    \A m \in 1 .. n :
        /\ StartOf(d.start, fl[m].key) <= Len(PacketsIn(rd, fl[m].mfs))
        /\ \A j \in 1 .. Len(PacketsIn(rd, fl[m].mfs)) :
              j <= StartOf(d.start, fl[m].key) /\ PacketsIn(rd, fl[m].mfs)[j].ts >= b
                  => InQueue(rd, d.queue, fl[m].mfs, j)

\* All the packets of a flow from time b to the end are in queue q.
Through(rd, q, f, b, end) ==
    \A j \in 1 .. Len(PacketsIn(rd, f.mfs)) :
        PacketsIn(rd, f.mfs)[j].ts >= b /\ PacketsIn(rd, f.mfs)[j].ts <= end => InQueue(rd, q, f.mfs, j)

LEMMA UpdateKeeps ==
    ASSUME read \in Seq(Microflows), NEW n \in Nat, NEW fl, FlowsOK(read, n, fl), FlowsOrderly(read, n, fl),
           NEW d \in Queues, NEW u, NEW m \in 1 .. n, NEW b \in Nat, NEW end \in Nat,
           Updates(read, d, u, fl[m], end), UpTo(read, d, n, fl, b)
    PROVE  /\ UpTo(read, u, n, fl, b) /\ Through(read, u.queue, fl[m], b, end)
           /\ \A f : Through(read, d.queue, f, b, end) => Through(read, u.queue, f, b, end)
<1>1. \A mfs, j : InQueue(read, d.queue, mfs, j) => InQueue(read, u.queue, mfs, j)
  BY DEF Updates, InQueue
<1>2. \A f : Through(read, d.queue, f, b, end) => Through(read, u.queue, f, b, end)
  BY <1>1 DEF Through
<1>3. PICK f, P : f = fl[m] /\ P = PacketsIn(read, f.mfs)
  OBVIOUS
<1>4. PICK k \in Nat : k = Len(P) /\ DOMAIN P = 1 .. k /\ \A j \in 1 .. k : P[j].ts \in Nat
  <2>1. P \in Seq(PktRecs)
    BY <1>3, PacketsType DEF FlowsOK
  <2>2. PICK k \in Nat : k = Len(P) /\ DOMAIN P = 1 .. k /\ \A j \in 1 .. k : P[j] \in PktRecs
    <3>. HIDE DEF PktRecs
    <3>. QED  BY <2>1, LenProperties, ElementOfSeq
  <2>. QED  BY <2>2 DEF PktRecs
<1>5. PICK a \in Nat : a = StartOf(d.start, f.key)
  BY DEF Queues, Starts, StartOf
<1>6. /\ a <= k /\ Ordered(P)
      /\ \A j \in 1 .. k : j <= a /\ P[j].ts >= b => InQueue(read, d.queue, f.mfs, j)
  BY <1>3, <1>4, <1>5 DEF UpTo, FlowsOrderly
<1>7. PICK l \in Nat :
         /\ a <= l /\ l <= k /\ StartOf(u.start, f.key) \in {a, l}
         /\ \A j \in 1 .. k : a < j /\ j <= l => InQueue(read, u.queue, f.mfs, j)
         /\ \A j \in 1 .. k : l < j => P[j].ts > end
  BY <1>3, <1>4, <1>5, <1>6 DEF Updates
<1>8. ASSUME NEW j \in 1 .. k, P[j].ts >= b, j <= l
      PROVE  InQueue(read, u.queue, f.mfs, j)
  <2>1. CASE j <= a
    BY <1>1, <1>6, <1>8, <2>1
  <2>2. CASE ~(j <= a)
    <3>1. a < j
      BY <2>2
    <3>. QED  BY <1>7, <1>8, <3>1
  <2>. QED  BY <2>1, <2>2
<1>9. Through(read, u.queue, fl[m], b, end)
  <2>1. ASSUME NEW j \in 1 .. k, P[j].ts >= b, P[j].ts <= end PROVE InQueue(read, u.queue, f.mfs, j)
    <3>1. j <= l
      <4>1. ~(l < j)
        BY <1>4, <1>7, <2>1
      <4>. QED  BY <4>1
    <3>. QED  BY <1>8, <2>1, <3>1
  <2>. QED  BY <1>3, <1>4, <2>1 DEF Through
<1>10. UpTo(read, u, n, fl, b)
  <2>1. ASSUME NEW x \in 1 .. n, x # m
        PROVE  /\ StartOf(u.start, fl[x].key) <= Len(PacketsIn(read, fl[x].mfs))
               /\ \A j \in 1 .. Len(PacketsIn(read, fl[x].mfs)) :
                     j <= StartOf(u.start, fl[x].key) /\ PacketsIn(read, fl[x].mfs)[j].ts >= b
                         => InQueue(read, u.queue, fl[x].mfs, j)
    <3>1. fl[x].key # f.key
      <4>1. x < m \/ m < x
        BY <2>1
      <4>. QED  BY <1>3, <4>1 DEF FlowsOrderly
    <3>2. StartOf(u.start, fl[x].key) = StartOf(d.start, fl[x].key)
      BY <1>3, <3>1 DEF Updates
    <3>. QED  BY <1>1, <3>2 DEF UpTo
  <2>2. /\ StartOf(u.start, f.key) <= k
        /\ \A j \in 1 .. k : j <= StartOf(u.start, f.key) /\ P[j].ts >= b => InQueue(read, u.queue, f.mfs, j)
    <3>1. PICK z \in Nat : z = StartOf(u.start, f.key) /\ z <= k /\ z <= l
      BY <1>7
    <3>2. \A j \in 1 .. k : j <= z => j <= l
      BY <3>1
    <3>. QED  BY <1>8, <3>1, <3>2
  <2>. QED  BY <1>3, <1>4, <2>1, <2>2 DEF UpTo
<1>. QED
  BY <1>2, <1>9, <1>10

Entries == [ts : Nat, flow : Recs]
Updated(c, s, end) == FoldLeft(LAMBDA d, e : UpdateQueueOf(d, e.flow, end), c, s)

\* The keys of the flows.
KeysTo(n, fl) == {fl[m].key : m \in 1 .. n}

LEMMA UpdatedOK ==
    ASSUME read \in Seq(Microflows), NEW n \in Nat, NEW fl, FlowsOK(read, n, fl),
           NEW s \in Seq(Entries), NEW k \in Nat, k = Len(s),
           \A x \in 1 .. k : \E m \in 1 .. n : s[x].flow = fl[m],
           NEW b \in Nat, NEW end \in Nat,
           NEW c \in Queues, DOMAIN c.start \subseteq KeysTo(n, fl)
    PROVE  /\ Updated(c, s, end) \in Queues
           /\ DOMAIN Updated(c, s, end).start \subseteq KeysTo(n, fl)
           /\ FlowsOrderly(read, n, fl) /\ UpTo(read, c, n, fl, b) =>
                 /\ UpTo(read, Updated(c, s, end), n, fl, b)
                 /\ \A x \in 1 .. k : Through(read, Updated(c, s, end).queue, s[x].flow, b, end)
<1>. DEFINE T == {q \in Queues : DOMAIN q.start \subseteq KeysTo(n, fl)}
            rec(g) == [t \in SUBSET (1 .. k) |->
                          IF t = {} THEN c ELSE UpdateQueueOf(g[t \ {Max(t)}], s[Max(t)].flow, end)]
            iter == CHOOSE g : g = rec(g)
            op == [x \in (1 .. k) \X T |-> UpdateQueue(x[2], s[x[1]].flow, end)]
<1>0. DOMAIN s = 1 .. k
  BY LenProperties
<1>1. Updated(c, s, end) = iter[1 .. k]
  <2>1. Updated(c, s, end) = (CHOOSE g : g = [t \in SUBSET DOMAIN s |->
                IF t = {} THEN c
                ELSE UpdateQueueOf(g[t \ {Max(t)}], s[Max(t)].flow, end)])[DOMAIN s]
    BY Zenon DEF Updated, FoldLeft, MapThenFoldSet
  <2>. QED  BY <1>0, <2>1
<1>2. ASSUME NEW m \in 1 .. k, NEW t \in T
      PROVE  /\ UpdateQueue(t, s[m].flow, end) \in T
             /\ Updates(read, t, UpdateQueue(t, s[m].flow, end), s[m].flow, end)
             /\ UpdateQueueOf(t, s[m].flow, end) = UpdateQueue(t, s[m].flow, end)
  <2>1. PICK x \in 1 .. n : s[m].flow = fl[x]
    OBVIOUS
  <2>2. FlowOK(read, fl[x]) /\ fl[x].key \in KeysTo(n, fl)
    BY DEF FlowsOK, KeysTo
  <2>3. t \in Queues
    OBVIOUS
  <2>4. Updates(read, t, UpdateQueue(t, fl[x], end), fl[x], end)
    BY <2>2, <2>3, UpdateQueueUpdates
  <2>5. UpdateQueue(t, fl[x], end) \in T
    BY <2>2, <2>4 DEF Updates
  <2>. QED  BY <2>1, <2>4, <2>5, UpdateQueueOfIs
<1>3. c \in T
  OBVIOUS
<1>4. op \in [(1 .. k) \X T -> T]
  <2>1. ASSUME NEW x \in (1 .. k) \X T PROVE UpdateQueue(x[2], s[x[1]].flow, end) \in T
    <3>. HIDE DEF T
    <3>1. PICK m \in 1 .. k, d \in T : m = x[1] /\ d = x[2]
      OBVIOUS
    <3>. QED  BY <1>2, <3>1
  <2>. HIDE DEF T
  <2>. QED  BY <2>1
<1>. HIDE DEF T
<1>5. \A m \in 1 .. k, d \in T : op[<<m, d>>] = UpdateQueue(d, s[m].flow, end)
  OBVIOUS
<1>. HIDE DEF op
<1>6. PICK g \in [SUBSET (1 .. k) -> T] : FoldsUp(k, c, T, op, g)
  BY <1>3, <1>4, FoldRecursion
<1>7. \A t \in SUBSET (1 .. k) : t # {} => Max(t) \in 1 .. k /\ t \ {Max(t)} \in SUBSET (1 .. k)
  BY MaxOfBounded
<1>8. g = rec(g)
  <2>1. ASSUME NEW t \in SUBSET (1 .. k)
        PROVE  g[t] = IF t = {} THEN c ELSE UpdateQueueOf(g[t \ {Max(t)}], s[Max(t)].flow, end)
    <3>1. PICK x : x = Max(t)
      OBVIOUS
    <3>2. t # {} => x \in 1 .. k /\ g[t \ {x}] \in T
      BY <1>7, <3>1
    <3>3. t # {} => g[t] = op[<<x, g[t \ {x}]>>]
      BY <1>6, <3>1, <3>2 DEF FoldsUp
    <3>4. t = {} => g[t] = c
      BY <1>6 DEF FoldsUp
    <3>5. ASSUME t # {} PROVE g[t] = UpdateQueueOf(g[t \ {x}], s[x].flow, end)
      <4>1. PICK y \in 1 .. k, d \in T : y = x /\ d = g[t \ {x}]
        BY <3>2, <3>5
      <4>2. g[t] = UpdateQueue(d, s[y].flow, end)
        BY <1>5, <3>3, <3>5, <4>1
      <4>3. UpdateQueueOf(d, s[y].flow, end) = UpdateQueue(d, s[y].flow, end)
        BY <1>2
      <4>. QED  BY <4>1, <4>2, <4>3
    <3>. QED  BY <3>1, <3>4, <3>5
  <2>. HIDE DEF T
  <2>. QED  BY <2>1
<1>9. iter = rec(iter)
  BY <1>8
<1>. HIDE DEF iter
<1>10. FoldsUp(k, c, T, op, iter)
  <2>1. ASSUME NEW t \in SUBSET (1 .. k), t # {}, iter[t \ {Max(t)}] \in T
        PROVE  iter[t] = op[<<Max(t), iter[t \ {Max(t)}]>>]
    <3>1. PICK x : x = Max(t)
      OBVIOUS
    <3>2. x \in 1 .. k
      BY <1>7, <2>1, <3>1
    <3>3. iter[t] = UpdateQueueOf(iter[t \ {x}], s[x].flow, end)
      BY <1>9, <2>1, <3>1
    <3>. QED  BY <1>2, <1>5, <2>1, <3>1, <3>2, <3>3
  <2>2. iter[{}] = c
    BY <1>9
  <2>. QED  BY <2>1, <2>2 DEF FoldsUp
<1>11. PICK F \in [0 .. k -> T] : Steps(k, c, op, F) /\ F[k] = Updated(c, s, end)
  <2>1. Folded(k, c, T, op, iter[1 .. k])
    BY <1>3, <1>4, <1>10, FoldSteps
  <2>. QED  BY <1>1, <2>1 DEF Folded
<1>12. Updated(c, s, end) \in T
  BY <1>11
<1>. DEFINE Good(m) == /\ UpTo(read, F[m], n, fl, b)
                       /\ \A x \in 1 .. m : Through(read, F[m].queue, s[x].flow, b, end)
            Bad == {m \in 0 .. k : ~Good(m)}
<1>13. ASSUME FlowsOrderly(read, n, fl), UpTo(read, c, n, fl, b)
       PROVE  Good(k)
  <2>1. Bad = {}
    <3>. SUFFICES ASSUME Bad # {} PROVE FALSE
      OBVIOUS
    <3>1. PICK m \in Bad : \A x \in Bad : m <= x
      <4>1. Bad \in SUBSET Nat
        OBVIOUS
      <4>. HIDE DEF Bad
      <4>. QED  BY <4>1, NatMinimum
    <3>2. m \in 0 .. k /\ ~Good(m)
      OBVIOUS
    <3>3. m # 0
      <4>1. F[0] = c
        BY <1>11 DEF Steps
      <4>2. Good(0)
        BY <1>13, <4>1
      <4>. QED  BY <3>2, <4>2
    <3>4. PICK l \in 0 .. k : m = l + 1 /\ ~(m <= l) /\ m \in 1 .. k
      <4>. HIDE DEF Good, Bad
      <4>1. m - 1 \in 0 .. k /\ m = (m - 1) + 1 /\ ~(m <= m - 1) /\ m \in 1 .. k
        BY <3>2, <3>3
      <4>. QED  BY <4>1
    <3>5. Good(l)
      <4>1. l \notin Bad
        <5>. HIDE DEF Bad
        <5>. QED  BY <3>1, <3>4
      <4>. QED  BY <3>4, <4>1
    <3>6. F[l] \in T /\ F[m] = UpdateQueue(F[l], s[m].flow, end)
      BY <1>5, <1>11, <3>4 DEF Steps
    <3>7. PICK y \in 1 .. n : s[m].flow = fl[y]
      BY <3>4
    <3>8. Updates(read, F[l], F[m], fl[y], end) /\ F[l] \in Queues
      BY <1>2, <3>4, <3>6, <3>7 DEF T
    <3>9. PICK d, u : d = F[l] /\ u = F[m]
      OBVIOUS
    <3>10. d \in Queues /\ Updates(read, d, u, fl[y], end) /\ UpTo(read, d, n, fl, b) /\ FlowsOrderly(read, n, fl)
      BY <1>13, <3>5, <3>8, <3>9
    <3>11. /\ UpTo(read, u, n, fl, b) /\ Through(read, u.queue, fl[y], b, end)
           /\ \A f : Through(read, d.queue, f, b, end) => Through(read, u.queue, f, b, end)
      <4>. HIDE DEF Good, Bad, Queues
      <4>. QED  BY <3>10, UpdateKeeps
    <3>12. \A x \in 1 .. m : x \in 1 .. l \/ x = m
      BY <3>4
    <3>13. Good(m)
      BY <3>5, <3>7, <3>9, <3>11, <3>12
    <3>. QED  BY <3>2, <3>13
  <2>2. k \in 0 .. k /\ k \notin Bad
    <3>. HIDE DEF Bad
    <3>. QED  BY <2>1
  <2>. QED  BY <2>2
<1>. QED
  BY <1>11, <1>12, <1>13 DEF T

-----------------------------------------------------------------------------
(***************************************************************************)
(* The detector after n flows fl: its cache has the flows that end at time *)
(* b or later, its queue what UpTo says from b on, b being the time at     *)
(* which the last flow began.                                              *)
(***************************************************************************)
Horizon(rd, n, fl) == IF n = 0 THEN 0 ELSE PacketsIn(rd, fl[n].mfs)[1].ts

CacheOK(rd, cache, n, fl, b) ==
    /\ cache \in Seq(Entries)
    /\ \A e \in ToSet(cache) :
          e.ts = LastIn(rd, e.flow.mfs) /\ \E m \in 1 .. n : e.flow = fl[m]
    /\ FlowsOrderly(rd, n, fl) =>
          \A m \in 1 .. n : LastIn(rd, fl[m].mfs) >= b => \E e \in ToSet(cache) : e.flow = fl[m]

QueueOK(rd, d, n, fl, b) ==
    /\ d \in Queues /\ Ordered(d.queue) /\ DOMAIN d.start \subseteq KeysTo(n, fl)
    /\ FlowsOrderly(rd, n, fl) => UpTo(rd, d, n, fl, b)

ReportRecs == [nth : Nat, end : Nat, queue : Seq(QueueRecs), offenders : SUBSET Sources]

ReportOK(rd, r, n, fl) ==
    /\ r.nth \in 1 .. n
    /\ FlowsOrderly(rd, r.nth, fl) =>
          \A m \in 1 .. r.nth : Through(rd, r.queue, fl[m], Horizon(rd, r.nth, fl), r.end)

\* What is in a sequence, and what was appended to it.
LEMMA AppendMembers ==
    ASSUME NEW X, NEW s \in Seq(X), NEW x \in X
    PROVE  /\ Append(s, x) \in Seq(X) /\ ToSet(Append(s, x)) = ToSet(s) \cup {x}
<1>1. PICK n \in Nat : n = Len(s) /\ DOMAIN s = 1 .. n
  BY LenProperties
<1>2. PICK t \in Seq(X) : t = Append(s, x)
  BY AppendProperties
<1>3. /\ DOMAIN t = 1 .. n + 1 /\ t[n + 1] = x /\ \A j \in 1 .. n : t[j] = s[j]
  BY <1>1, <1>2, AppendProperties, LenProperties
<1>4. n + 1 \in 1 .. n + 1 /\ \A j \in 1 .. n + 1 : j \in 1 .. n \/ j = n + 1
  BY <1>1
<1>5. 1 .. n \subseteq 1 .. n + 1
  BY <1>1
<1>6. ToSet(t) \subseteq ToSet(s) \cup {x}
  BY <1>1, <1>3, <1>4 DEF ToSet
<1>7. ToSet(s) \cup {x} \subseteq ToSet(t)
  BY <1>1, <1>3, <1>4, <1>5 DEF ToSet
<1>. QED
  BY <1>2, <1>6, <1>7

LEMMA PacketTimes ==
    ASSUME NEW rd \in Seq(Microflows), NEW f, FlowOK(rd, f)
    PROVE  \E P \in Seq(PktRecs), k \in Nat :
              /\ P = PacketsIn(rd, f.mfs) /\ k = Len(P) /\ k > 0 /\ DOMAIN P = 1 .. k
              /\ \A j \in 1 .. k : P[j].ts \in Nat
              /\ LastIn(rd, f.mfs) \in Nat
              /\ Ordered(P) => \A j \in 1 .. k : P[j].ts <= LastIn(rd, f.mfs)
<1>1. PICK P \in Seq(PktRecs) : /\ P = PacketsIn(rd, f.mfs) /\ Len(P) > 0
                                /\ LastIn(rd, f.mfs) = P[Len(P)].ts /\ LastIn(rd, f.mfs) \in Nat
  BY PacketsType
<1>2. PICK k \in Nat : k = Len(P) /\ k > 0 /\ DOMAIN P = 1 .. k /\ \A j \in 1 .. k : P[j] \in PktRecs
  <2>. HIDE DEF PktRecs
  <2>. QED  BY <1>1, LenProperties, ElementOfSeq
<1>3. \A j \in 1 .. k : P[j].ts \in Nat
  BY <1>2 DEF PktRecs
<1>4. ASSUME Ordered(P), NEW j \in 1 .. k PROVE P[j].ts <= P[k].ts
  <2>1. CASE j = k
    BY <1>3, <2>1
  <2>2. CASE j # k
    <3>1. j < k /\ k \in 1 .. k
      BY <2>2
    <3>. QED  BY <1>2, <1>4, <3>1 DEF Ordered
  <2>. QED  BY <2>1, <2>2
<1>. QED
  BY <1>1, <1>2, <1>3, <1>4

\* The horizon of flows that come by start time moves on.
LEMMA HorizonMoves ==
    ASSUME NEW rd \in Seq(Microflows), NEW n \in Nat, NEW fl, FlowsOK(rd, n + 1, fl)
    PROVE  /\ Horizon(rd, n, fl) \in Nat /\ Horizon(rd, n + 1, fl) \in Nat
           /\ FlowsOrderly(rd, n + 1, fl) =>
                 /\ FlowsOrderly(rd, n, fl)
                 /\ Horizon(rd, n, fl) <= Horizon(rd, n + 1, fl)
                 /\ fl[n + 1].key \notin KeysTo(n, fl)
<1>1. ASSUME NEW m \in 1 .. n + 1 PROVE PacketsIn(rd, fl[m].mfs)[1].ts \in Nat
  <2>1. FlowOK(rd, fl[m])
    BY DEF FlowsOK
  <2>. QED  BY <2>1, PacketTimes
<1>2. PICK l \in 1 .. n + 1 : l = n + 1 /\ \A m \in 1 .. n : m \in 1 .. n + 1 /\ m < l
  OBVIOUS
<1>3. n # 0 => n \in 1 .. n
  OBVIOUS
<1>4. Horizon(rd, n, fl) \in Nat /\ Horizon(rd, n + 1, fl) \in Nat
  BY <1>1, <1>2, <1>3 DEF Horizon
<1>5. ASSUME FlowsOrderly(rd, n + 1, fl)
      PROVE  /\ FlowsOrderly(rd, n, fl)
             /\ Horizon(rd, n, fl) <= Horizon(rd, n + 1, fl)
             /\ fl[n + 1].key \notin KeysTo(n, fl)
  <2>1. FlowsOrderly(rd, n, fl)
    BY <1>2, <1>5 DEF FlowsOrderly
  <2>2. \A m \in 1 .. n : PacketsIn(rd, fl[m].mfs)[1].ts <= PacketsIn(rd, fl[l].mfs)[1].ts
                          /\ fl[m].key # fl[l].key
    BY <1>2, <1>5 DEF FlowsOrderly
  <2>3. fl[n + 1].key \notin KeysTo(n, fl)
    BY <1>2, <2>2 DEF KeysTo
  <2>4. Horizon(rd, n, fl) <= Horizon(rd, n + 1, fl)
    BY <1>1, <1>2, <1>3, <2>2 DEF Horizon
  <2>. QED  BY <2>1, <2>3, <2>4
<1>. QED
  BY <1>4, <1>5

LEMMA EntriesKept ==
    ASSUME NEW s \in Seq(Entries), NEW c \in Nat, Ordered(s)
    PROVE  /\ Kept(s, c) \in Seq(Entries) /\ ToSet(Kept(s, c)) \subseteq ToSet(s)
           /\ \A x \in ToSet(s) : x.ts >= c => x \in ToSet(Kept(s, c))
<1>1. \A x \in Entries : x.ts \in Nat
  BY DEF Entries
<1>. HIDE DEF Entries
<1>2. PICK X : X = Entries
  OBVIOUS
<1>3. s \in Seq(X) /\ \A x \in X : x.ts \in Nat
  BY <1>1, <1>2
<1>4. /\ Kept(s, c) \in Seq(X) /\ ToSet(Kept(s, c)) \subseteq ToSet(s)
      /\ \A x \in ToSet(s) : x.ts >= c => x \in ToSet(Kept(s, c))
  BY <1>3, KeptLate
<1>. QED
  BY <1>2, <1>4

\* A flow goes into the cache, and what ends before its start out of it.
LEMMA CacheRound ==
    ASSUME NEW rd \in Seq(Microflows), NEW n \in Nat, NEW fl, FlowsOK(rd, n + 1, fl),
           NEW cache, CacheOK(rd, cache, n, fl, Horizon(rd, n, fl)), NEW f, f = fl[n + 1],
           NEW next, next = ByTs(Append(cache, [ts |-> LastIn(rd, f.mfs), flow |-> f]))
    PROVE  /\ CacheOK(rd, next, n + 1, fl, Horizon(rd, n, fl))
           /\ CacheOK(rd, Kept(next, Horizon(rd, n + 1, fl)), n + 1, fl, Horizon(rd, n + 1, fl))
<1>1. PICK b, c \in Nat : /\ b = Horizon(rd, n, fl) /\ c = Horizon(rd, n + 1, fl)
                          /\ FlowsOrderly(rd, n + 1, fl) => FlowsOrderly(rd, n, fl) /\ b <= c
  BY HorizonMoves
<1>2. n + 1 \in 1 .. n + 1 /\ \A m \in 1 .. n + 1 : m \in 1 .. n \/ m = n + 1
  OBVIOUS
<1>3. PICK e : e = [ts |-> LastIn(rd, f.mfs), flow |-> f]
  OBVIOUS
<1>4. FlowOK(rd, f) /\ f \in Recs
  BY <1>2 DEF FlowsOK, FlowOK
<1>5. e \in Entries /\ e.ts = LastIn(rd, e.flow.mfs) /\ e.flow = fl[n + 1]
  <2>1. LastIn(rd, f.mfs) \in Nat
    BY <1>4, PacketTimes
  <2>. HIDE DEF Recs
  <2>. QED  BY <1>3, <1>4, <2>1 DEF Entries
<1>6. \A x \in Entries : x.ts \in Nat
  BY DEF Entries
<1>7. PICK s \in Seq(Entries) : s = Append(cache, e) /\ ToSet(s) = ToSet(cache) \cup {e}
  <2>. HIDE DEF Entries
  <2>1. cache \in Seq(Entries)
    BY DEF CacheOK
  <2>. QED  BY <1>5, <2>1, AppendMembers
<1>8. next \in Seq(Entries) /\ ToSet(next) = ToSet(s) /\ Ordered(next)
  <2>. HIDE DEF Entries
  <2>. QED  BY <1>3, <1>6, <1>7, ByTsSorts
<1>9. CacheOK(rd, next, n + 1, fl, b)
  <2>1. \A x \in ToSet(next) : x.ts = LastIn(rd, x.flow.mfs) /\ \E m \in 1 .. n + 1 : x.flow = fl[m]
    BY <1>2, <1>5, <1>7, <1>8 DEF CacheOK
  <2>2. ASSUME FlowsOrderly(rd, n + 1, fl), NEW m \in 1 .. n + 1, LastIn(rd, fl[m].mfs) >= b
        PROVE  \E x \in ToSet(next) : x.flow = fl[m]
    <3>1. CASE m \in 1 .. n
      BY <1>1, <1>7, <1>8, <2>2, <3>1 DEF CacheOK
    <3>2. CASE m = n + 1
      BY <1>5, <1>7, <1>8, <3>2
    <3>. QED  BY <1>2, <3>1, <3>2
  <2>. QED  BY <1>8, <2>1, <2>2 DEF CacheOK
<1>10. PICK t \in Seq(Entries) :
          /\ t = Kept(next, c) /\ ToSet(t) \subseteq ToSet(next)
          /\ \A x \in ToSet(next) : x.ts >= c => x \in ToSet(t)
  <2>. HIDE DEF Entries
  <2>1. next \in Seq(Entries) /\ Ordered(next) /\ c \in Nat
    BY <1>1, <1>8
  <2>2. PICK w : w = next
    OBVIOUS
  <2>3. w \in Seq(Entries) /\ Ordered(w) /\ c \in Nat
    BY <2>1, <2>2
  <2>4. /\ Kept(w, c) \in Seq(Entries) /\ ToSet(Kept(w, c)) \subseteq ToSet(w)
        /\ \A x \in ToSet(w) : x.ts >= c => x \in ToSet(Kept(w, c))
    BY <2>3, EntriesKept
  <2>. QED  BY <2>2, <2>4
<1>11. CacheOK(rd, t, n + 1, fl, c)
  <2>1. \A x \in ToSet(t) : x.ts = LastIn(rd, x.flow.mfs) /\ \E m \in 1 .. n + 1 : x.flow = fl[m]
    BY <1>9, <1>10 DEF CacheOK
  <2>2. ASSUME FlowsOrderly(rd, n + 1, fl), NEW m \in 1 .. n + 1, LastIn(rd, fl[m].mfs) >= c
        PROVE  \E x \in ToSet(t) : x.flow = fl[m]
    <3>1. LastIn(rd, fl[m].mfs) \in Nat
      <4>1. FlowOK(rd, fl[m])
        BY DEF FlowsOK
      <4>. QED  BY <4>1, PacketTimes
    <3>2. LastIn(rd, fl[m].mfs) >= b
      BY <1>1, <2>2, <3>1
    <3>3. PICK x \in ToSet(next) : x.flow = fl[m]
      BY <1>9, <2>2, <3>2 DEF CacheOK
    <3>4. x.ts = LastIn(rd, fl[m].mfs)
      BY <1>9, <3>3 DEF CacheOK
    <3>. QED  BY <1>10, <2>2, <3>3, <3>4
  <2>. QED  BY <2>1, <2>2 DEF CacheOK
<1>. QED
  BY <1>1, <1>9, <1>10, <1>11

\* What is before time c goes out of the queue.
LEMMA QueueErased ==
    ASSUME NEW rd \in Seq(Microflows), NEW n \in Nat, NEW fl, FlowsOK(rd, n, fl),
           NEW b \in Nat, NEW c \in Nat, NEW q \in Seq(QueueRecs), Ordered(q),
           NEW start \in Starts, DOMAIN start \subseteq KeysTo(n, fl),
           FlowsOrderly(rd, n, fl) => b <= c /\ UpTo(rd, [queue |-> q, start |-> start], n, fl, b)
    PROVE  QueueOK(rd, [queue |-> Kept(q, c), start |-> start], n, fl, c)
<1>1. \A x \in QueueRecs : x.ts \in Nat
  BY DEF QueueRecs
<1>2. PICK t \in Seq(QueueRecs) :
         /\ t = Kept(q, c) /\ Ordered(t)
         /\ \A x \in ToSet(q) : x.ts >= c => x \in ToSet(t)
  <2>. HIDE DEF QueueRecs
  <2>. QED  BY <1>1, KeptLate
<1>3. PICK d, u : d = [queue |-> q, start |-> start] /\ u = [queue |-> t, start |-> start]
  OBVIOUS
<1>4. d.queue = q /\ d.start = start /\ u.queue = t /\ u.start = start
  BY <1>3
<1>5. u \in Queues
  <2>. HIDE DEF QueueRecs, Starts
  <2>. QED  BY <1>3 DEF Queues
<1>6. ASSUME FlowsOrderly(rd, n, fl) PROVE UpTo(rd, u, n, fl, c)
  <2>1. UpTo(rd, d, n, fl, b) /\ b <= c
    BY <1>3, <1>6
  <2>2. ASSUME NEW m \in 1 .. n
        PROVE  /\ StartOf(start, fl[m].key) <= Len(PacketsIn(rd, fl[m].mfs))
               /\ \A j \in 1 .. Len(PacketsIn(rd, fl[m].mfs)) :
                     j <= StartOf(start, fl[m].key) /\ PacketsIn(rd, fl[m].mfs)[j].ts >= c
                         => InQueue(rd, t, fl[m].mfs, j)
    <3>1. FlowOK(rd, fl[m])
      BY DEF FlowsOK
    <3>2. PICK P \in Seq(PktRecs), k \in Nat :
              /\ P = PacketsIn(rd, fl[m].mfs) /\ k = Len(P)
              /\ \A j \in 1 .. k : P[j].ts \in Nat
      BY <3>1, PacketTimes
    <3>3. ASSUME NEW j \in 1 .. k, j <= StartOf(start, fl[m].key), P[j].ts >= c
          PROVE  InQueue(rd, t, fl[m].mfs, j)
      <4>1. P[j].ts >= b
        BY <2>1, <3>2, <3>3
      <4>2. InQueue(rd, q, fl[m].mfs, j)
        BY <1>4, <2>1, <3>2, <3>3, <4>1 DEF UpTo
      <4>. QED  BY <1>2, <3>2, <3>3, <4>2 DEF InQueue
    <3>. QED  BY <1>4, <2>1, <3>2, <3>3 DEF UpTo
  <2>. QED  BY <1>4, <2>2 DEF UpTo
<1>7. QueueOK(rd, u, n, fl, c)
  BY <1>2, <1>4, <1>5, <1>6 DEF QueueOK
<1>. QED
  BY <1>2, <1>3, <1>7

\* A flow whose key is new has its index at its start.
LEMMA UpToOneMore ==
    ASSUME NEW rd \in Seq(Microflows), NEW n \in Nat, NEW fl, FlowsOK(rd, n + 1, fl),
           NEW b, NEW d, DOMAIN d.start \subseteq KeysTo(n, fl),
           fl[n + 1].key \notin KeysTo(n, fl), UpTo(rd, d, n, fl, b)
    PROVE  UpTo(rd, d, n + 1, fl, b)
<1>1. n + 1 \in 1 .. n + 1 /\ \A m \in 1 .. n + 1 : m \in 1 .. n \/ m = n + 1
  OBVIOUS
<1>2. StartOf(d.start, fl[n + 1].key) = 0
  BY DEF StartOf
<1>3. Len(PacketsIn(rd, fl[n + 1].mfs)) \in Nat
  <2>1. FlowOK(rd, fl[n + 1])
    BY <1>1 DEF FlowsOK
  <2>. QED  BY <2>1, PacketTimes
<1>. QED
  BY <1>1, <1>2, <1>3 DEF UpTo

\* All cached flows go into the queue, and what is before the last flow's start
\* goes out of it.
LEMMA QueueRound ==
    ASSUME read \in Seq(Microflows), NEW n \in Nat, NEW fl, FlowsOK(read, n + 1, fl),
           NEW d, QueueOK(read, d, n, fl, Horizon(read, n, fl)),
           NEW cache, CacheOK(read, cache, n + 1, fl, Horizon(read, n, fl)),
           NEW end \in Nat, NEW u, u = Updated(d, cache, end), NEW q, q = ByTs(u.queue)
    PROVE  /\ QueueOK(read, [queue |-> Kept(q, Horizon(read, n + 1, fl)), start |-> u.start],
                      n + 1, fl, Horizon(read, n + 1, fl))
           /\ q \in Seq(QueueRecs)
           /\ FlowsOrderly(read, n + 1, fl) =>
                 \A m \in 1 .. n + 1 : Through(read, q, fl[m], Horizon(read, n + 1, fl), end)
<1>1. PICK b, c \in Nat : /\ b = Horizon(read, n, fl) /\ c = Horizon(read, n + 1, fl)
                          /\ FlowsOrderly(read, n + 1, fl) =>
                                /\ FlowsOrderly(read, n, fl) /\ b <= c
                                /\ fl[n + 1].key \notin KeysTo(n, fl)
  BY HorizonMoves
<1>2. n + 1 \in Nat /\ \A m \in 1 .. n : m \in 1 .. n + 1
  OBVIOUS
<1>3. d \in Queues /\ DOMAIN d.start \subseteq KeysTo(n + 1, fl)
  BY <1>2 DEF QueueOK, KeysTo
<1>4. PICK k \in Nat : k = Len(cache) /\ DOMAIN cache = 1 .. k /\ cache \in Seq(Entries)
  <2>. HIDE DEF Entries
  <2>1. cache \in Seq(Entries)
    BY DEF CacheOK
  <2>. QED  BY <2>1, LenProperties
<1>5. \A x \in 1 .. k : cache[x] \in ToSet(cache)
  BY <1>4 DEF ToSet
<1>6. \A x \in 1 .. k : \E m \in 1 .. n + 1 : cache[x].flow = fl[m]
  BY <1>5 DEF CacheOK
<1>7. FlowsOrderly(read, n + 1, fl) => UpTo(read, d, n + 1, fl, b)
  <2>. HIDE DEF Queues
  <2>. QED  BY <1>1, UpToOneMore DEF QueueOK
<1>8. /\ u \in Queues /\ DOMAIN u.start \subseteq KeysTo(n + 1, fl)
      /\ FlowsOrderly(read, n + 1, fl) =>
            /\ UpTo(read, u, n + 1, fl, b)
            /\ \A x \in 1 .. k : Through(read, u.queue, cache[x].flow, b, end)
  <2>. HIDE DEF Queues, Entries
  <2>1. PICK N \in Nat : N = n + 1
    BY <1>2
  <2>2. PICK s \in Seq(Entries), e \in Queues : s = cache /\ e = d /\ k = Len(s)
    BY <1>3, <1>4
  <2>3. /\ read \in Seq(Microflows) /\ N \in Nat /\ FlowsOK(read, N, fl)
        /\ s \in Seq(Entries) /\ k \in Nat /\ k = Len(s)
        /\ \A x \in 1 .. k : \E m \in 1 .. N : s[x].flow = fl[m]
        /\ b \in Nat /\ end \in Nat /\ e \in Queues /\ DOMAIN e.start \subseteq KeysTo(N, fl)
    BY <1>1, <1>3, <1>4, <1>6, <2>1, <2>2
  <2>4. /\ Updated(e, s, end) \in Queues
        /\ DOMAIN Updated(e, s, end).start \subseteq KeysTo(N, fl)
        /\ FlowsOrderly(read, N, fl) /\ UpTo(read, e, N, fl, b) =>
              /\ UpTo(read, Updated(e, s, end), N, fl, b)
              /\ \A x \in 1 .. k : Through(read, Updated(e, s, end).queue, s[x].flow, b, end)
    BY <2>3, UpdatedOK
  <2>. QED  BY <1>7, <2>1, <2>2, <2>4
<1>9. u.queue \in Seq(QueueRecs) /\ u.start \in Starts /\ u = [queue |-> u.queue, start |-> u.start]
  <2>. HIDE DEF QueueRecs, Starts
  <2>. QED  BY <1>8 DEF Queues
<1>10. q \in Seq(QueueRecs) /\ ToSet(q) = ToSet(u.queue) /\ Ordered(q)
  <2>1. \A x \in QueueRecs : x.ts \in Nat
    BY DEF QueueRecs
  <2>. HIDE DEF QueueRecs
  <2>. QED  BY <1>9, <2>1, ByTsSorts
<1>11. \A mfs, j : InQueue(read, u.queue, mfs, j) <=> InQueue(read, q, mfs, j)
  BY <1>10 DEF InQueue
<1>12. ASSUME FlowsOrderly(read, n + 1, fl), NEW m \in 1 .. n + 1
       PROVE  Through(read, q, fl[m], c, end)
  <2>1. FlowOK(read, fl[m])
    BY DEF FlowsOK
  <2>2. PICK P \in Seq(PktRecs), l \in Nat :
           /\ P = PacketsIn(read, fl[m].mfs) /\ l = Len(P) /\ \A j \in 1 .. l : P[j].ts \in Nat
           /\ LastIn(read, fl[m].mfs) \in Nat
           /\ Ordered(P) => \A j \in 1 .. l : P[j].ts <= LastIn(read, fl[m].mfs)
    BY <2>1, PacketTimes
  <2>3. Ordered(P) /\ b <= c
    BY <1>1, <1>12, <2>2 DEF FlowsOrderly
  <2>4. CASE LastIn(read, fl[m].mfs) >= b
    <3>1. PICK e \in ToSet(cache) : e.flow = fl[m]
      BY <1>12, <1>1, <2>4 DEF CacheOK
    <3>2. PICK x \in 1 .. k : e = cache[x]
      BY <1>4 DEF ToSet
    <3>3. Through(read, u.queue, fl[m], b, end)
      BY <1>8, <1>12, <3>1, <3>2
    <3>4. ASSUME NEW j \in 1 .. l, P[j].ts >= c, P[j].ts <= end PROVE InQueue(read, q, fl[m].mfs, j)
      <4>1. P[j].ts >= b
        BY <1>1, <2>2, <2>3, <3>4
      <4>. QED  BY <1>11, <2>2, <3>3, <3>4, <4>1 DEF Through
    <3>. QED  BY <2>2, <3>4 DEF Through
  <2>5. CASE ~(LastIn(read, fl[m].mfs) >= b)
    <3>1. \A j \in 1 .. l : ~(P[j].ts >= c)
      BY <1>1, <2>2, <2>3, <2>5
    <3>. QED  BY <2>2, <3>1 DEF Through
  <2>. QED  BY <2>4, <2>5
<1>13. FlowsOrderly(read, n + 1, fl) => b <= c /\ UpTo(read, [queue |-> q, start |-> u.start], n + 1, fl, b)
  <2>1. ASSUME UpTo(read, u, n + 1, fl, b) PROVE UpTo(read, [queue |-> q, start |-> u.start], n + 1, fl, b)
    <3>1. PICK v, t, w : v = [queue |-> t, start |-> w] /\ t = q /\ w = u.start
      OBVIOUS
    <3>2. v.queue = q /\ v.start = u.start
      BY <3>1
    <3>3. UpTo(read, v, n + 1, fl, b)
      BY <1>11, <2>1, <3>2 DEF UpTo
    <3>. QED  BY <3>1, <3>3
  <2>. QED  BY <1>1, <1>8, <2>1
<1>14. QueueOK(read, [queue |-> Kept(q, c), start |-> u.start], n + 1, fl, c)
  <2>. HIDE DEF QueueRecs, Starts, Queues
  <2>1. PICK N \in Nat, w \in Seq(QueueRecs), t \in Starts : N = n + 1 /\ w = q /\ t = u.start
    BY <1>2, <1>9, <1>10
  <2>2. QueueOK(read, [queue |-> Kept(w, c), start |-> t], N, fl, c)
    <3>1. /\ FlowsOK(read, N, fl) /\ Ordered(w) /\ DOMAIN t \subseteq KeysTo(N, fl)
          /\ FlowsOrderly(read, N, fl) => b <= c /\ UpTo(read, [queue |-> w, start |-> t], N, fl, b)
      BY <1>8, <1>10, <1>13, <2>1
    <3>. QED  BY <1>1, <3>1, QueueErased
  <2>. QED  BY <2>1, <2>2
<1>. QED
  BY <1>1, <1>10, <1>12, <1>14

\* The same, when no flow goes into the queue.
LEMMA QueueRoundQuiet ==
    ASSUME read \in Seq(Microflows), NEW n \in Nat, NEW fl, FlowsOK(read, n + 1, fl),
           NEW d, QueueOK(read, d, n, fl, Horizon(read, n, fl))
    PROVE  QueueOK(read, [queue |-> Kept(d.queue, Horizon(read, n + 1, fl)), start |-> d.start],
                   n + 1, fl, Horizon(read, n + 1, fl))
<1>1. PICK b, c \in Nat : /\ b = Horizon(read, n, fl) /\ c = Horizon(read, n + 1, fl)
                          /\ FlowsOrderly(read, n + 1, fl) =>
                                /\ FlowsOrderly(read, n, fl) /\ b <= c
                                /\ fl[n + 1].key \notin KeysTo(n, fl)
  BY HorizonMoves
<1>2. n + 1 \in Nat /\ \A m \in 1 .. n : m \in 1 .. n + 1
  OBVIOUS
<1>3. d \in Queues /\ DOMAIN d.start \subseteq KeysTo(n + 1, fl) /\ Ordered(d.queue)
  BY <1>2 DEF QueueOK, KeysTo
<1>4. d.queue \in Seq(QueueRecs) /\ d.start \in Starts /\ d = [queue |-> d.queue, start |-> d.start]
  <2>. HIDE DEF QueueRecs, Starts
  <2>. QED  BY <1>3 DEF Queues
<1>5. FlowsOrderly(read, n + 1, fl) => b <= c /\ UpTo(read, d, n + 1, fl, b)
  <2>. HIDE DEF Queues
  <2>. QED  BY <1>1, UpToOneMore DEF QueueOK
<1>. HIDE DEF QueueRecs, Starts, Queues
<1>6. PICK N \in Nat, w \in Seq(QueueRecs), t \in Starts : N = n + 1 /\ w = d.queue /\ t = d.start
  BY <1>2, <1>4
<1>7. /\ FlowsOK(read, N, fl) /\ Ordered(w) /\ DOMAIN t \subseteq KeysTo(N, fl)
      /\ FlowsOrderly(read, N, fl) => b <= c /\ UpTo(read, [queue |-> w, start |-> t], N, fl, b)
  BY <1>3, <1>4, <1>5, <1>6
<1>8. QueueOK(read, [queue |-> Kept(w, c), start |-> t], N, fl, c)
  BY <1>1, <1>7, QueueErased
<1>. QED
  BY <1>1, <1>6, <1>8

-----------------------------------------------------------------------------
WholeRecords(R) == \A x \in DOMAIN R : Len(R[x].mfs) > 0

\* A step leaves the records alone or adds a flow.
LEMMA RecordsStep ==
    ASSUME ReaderTypes, ReaderActions
    PROVE  Records' = Records \/ \E f \in Recs : Len(f.mfs) > 0 /\ Records' = Append(Records, f)
<1>1. ASSUME NEW m \in Microflows, ReadMicroflow(m)
      PROVE  Records' = Records \/ \E f \in Recs : Len(f.mfs) > 0 /\ Records' = Append(Records, f)
  <2>. DEFINE before == IF m.key \in DOMAIN table THEN table[m.key] ELSE <<>>
              mfs == Append(before, Len(read) + 1)
              flow == [key |-> m.key, mfs |-> mfs]
  <2>1. before \in Seq(Nat) /\ Len(read) + 1 \in Nat
    BY DEF ReaderTypes
  <2>. HIDE DEF before
  <2>2. mfs \in Seq(Nat) /\ Len(mfs) > 0
    BY <2>1, AppendProperties
  <2>3. flow \in Recs /\ flow.mfs = mfs
    <3>. HIDE DEF mfs
    <3>. QED  BY <2>2 DEF Recs
  <2>4. taken' = taken
    BY <1>1 DEF ReadMicroflow
  <2>5. CASE m.fin
    <3>1. EmplaceBack(flow, BatchSize)
      BY <1>1, <2>5 DEF ReadMicroflow, before
    <3>. HIDE DEF flow
    <3>2. Records' = Append(Records, flow)
      BY <2>3, <2>4, <3>1, EmplaceRecords
    <3>. QED  BY <2>2, <2>3, <3>2
  <2>6. CASE ~m.fin
    BY <1>1, <2>6 DEF ReadMicroflow, Records
  <2>. QED  BY <2>5, <2>6
<1>2. ASSUME NEW k \in todo, TimeoutFlow(k)
      PROVE  Records' = Records \/ \E f \in Recs : Len(f.mfs) > 0 /\ Records' = Append(Records, f)
  <2>. DEFINE flow == [key |-> k, mfs |-> table[k]]
  <2>1. flow \in Recs /\ Len(flow.mfs) > 0
    <3>1. k \in DOMAIN table
      BY DEF ReaderTypes
    <3>2. table[k] \in Seq(Nat) /\ Len(table[k]) > 0
      BY <3>1 DEF ReaderTypes
    <3>. QED  BY <3>1, <3>2 DEF Recs, ReaderTypes
  <2>2. taken' = taken
    BY <1>2 DEF TimeoutFlow
  <2>3. CASE IsIdle(k)
    <3>1. EmplaceBack(flow, BatchSize)
      BY <1>2, <2>3 DEF TimeoutFlow
    <3>. HIDE DEF flow
    <3>2. Records' = Append(Records, flow)
      BY <2>1, <2>2, <3>1, EmplaceRecords
    <3>. QED  BY <2>1, <3>2
  <2>4. CASE ~IsIdle(k)
    BY <1>2, <2>4 DEF TimeoutFlow, Records
  <2>. QED  BY <2>3, <2>4
<1>3. ASSUME NEW m \in Microflows, ReplayClfr(m)
      PROVE  Records' = Records \/ \E f \in Recs : Len(f.mfs) > 0 /\ Records' = Append(Records, f)
  <2>. DEFINE flow == [key |-> m.key, mfs |-> <<Len(read) + 1>>]
  <2>1. flow \in Recs /\ Len(flow.mfs) > 0
    BY DEF Recs, ReaderTypes
  <2>2. EmplaceBack(flow, ReplayBatch) /\ taken' = taken
    BY <1>3 DEF ReplayClfr
  <2>. HIDE DEF flow
  <2>3. Records' = Append(Records, flow)
    BY <2>1, <2>2, EmplaceRecords
  <2>. QED  BY <2>1, <2>3
<1>4. CASE Allocate \/ ReadMicroflowsEnd \/ TimeoutFlowsEnd \/ Benchmark
             \/ UNCHANGED reader_vars
  <2>1. UNCHANGED <<taken, out, batch>>
    BY <1>4 DEF Allocate, ReadMicroflowsEnd, TimeoutFlowsEnd, Benchmark, reader_vars
  <2>. QED  BY <2>1 DEF Records
<1>5. CASE ReplayEnd
  <2>1. taken' = taken /\ out' = Append(out, batch) /\ batch' = <<>>
    BY <1>5 DEF ReplayEnd
  <2>2. Records' = taken \o FlattenSeq(Append(out, batch)) \o <<>>
    BY <2>1 DEF Records
  <2>3. \A t \in Seq(Recs), o \in Seq(Seq(Recs)), c \in Seq(Recs) :
           t \o FlattenSeq(Append(o, c)) \o <<>> = t \o FlattenSeq(o) \o c
    BY SentRecords
  <2>4. taken \in Seq(Recs) /\ out \in Seq(Seq(Recs)) /\ batch \in Seq(Recs)
    BY RecordsType
  <2>. QED  BY <2>2, <2>3, <2>4, Zenon DEF Records
<1>6. CASE out # <<>> /\ Recycle
  BY <1>6, RecycleRecords
<1>. QED
  BY <1>1, <1>2, <1>3, <1>4, <1>5, <1>6 DEF ReaderActions

\* What the detector sees of the records.
LEMMA SeenRecords ==
    ASSUME ReaderTypes
    PROVE  /\ Len(taken) \in Nat /\ Len(taken) <= Len(Records) /\ Len(Records) \in Nat
           /\ \A x \in 1 .. Len(taken) : Records[x] = taken[x]
           /\ out # <<>> => /\ Len(Head(out)) \in Nat
                            /\ Len(taken) + Len(Head(out)) <= Len(Records)
                            /\ \A x \in 1 .. Len(Head(out)) : Records[Len(taken) + x] = Head(out)[x]
<1>1. /\ taken \in Seq(Recs) /\ batch \in Seq(Recs) /\ out \in Seq(Seq(Recs))
      /\ FlattenSeq(out) \in Seq(Recs)
  BY RecordsType
<1>. HIDE DEF Recs
<1>2. PICK a, b, c \in Seq(Recs) : a = taken /\ b = FlattenSeq(out) /\ c = batch
  BY <1>1
<1>3. PICK k, l, m \in Nat : k = Len(a) /\ l = Len(b) /\ m = Len(c)
  BY LenProperties
<1>4. PICK d \in Seq(Recs) : /\ d = a \o b /\ Len(d) = k + l
                             /\ \A x \in 1 .. k + l : d[x] = IF x <= k THEN a[x] ELSE b[x - k]
  <2>1. /\ a \o b \in Seq(Recs) /\ Len(a \o b) = k + l
        /\ \A x \in 1 .. k + l : (a \o b)[x] = IF x <= k THEN a[x] ELSE b[x - k]
    BY <1>3, ConcatProperties
  <2>. QED  BY <2>1
<1>5. PICK R : R = Records /\ Len(R) = k + l + m /\ \A x \in 1 .. k + l : R[x] = d[x]
  <2>1. Len(d \o c) = k + l + m /\ \A x \in 1 .. k + l : (d \o c)[x] = d[x]
    BY <1>3, <1>4, ConcatProperties
  <2>. QED  BY <1>2, <1>4, <2>1 DEF Records
<1>6. \A x \in 1 .. k : R[x] = a[x]
  BY <1>3, <1>4, <1>5
<1>7. ASSUME out # <<>>
      PROVE  \E n \in Nat : /\ n = Len(Head(out)) /\ n <= l
                            /\ \A x \in 1 .. n : R[k + x] = Head(out)[x]
  <2>1. Head(out) \in Seq(Recs) /\ Tail(out) \in Seq(Seq(Recs))
    BY <1>1, <1>7, HeadTailProperties
  <2>2. FlattenSeq(Tail(out)) \in Seq(Recs)
    BY <2>1, FlattenAppend
  <2>3. FlattenSeq(out) = Head(out) \o FlattenSeq(Tail(out))
    BY <1>1, <1>7, FlattenHead
  <2>4. PICK h, t \in Seq(Recs) : h = Head(out) /\ b = h \o t
    BY <1>2, <2>1, <2>2, <2>3
  <2>5. PICK n, p \in Nat : n = Len(h) /\ p = Len(t)
    BY LenProperties
  <2>6. l = n + p /\ \A x \in 1 .. n : b[x] = h[x]
    <3>1. Len(h \o t) = n + p /\ \A x \in 1 .. n : (h \o t)[x] = h[x]
      BY <2>5, ConcatProperties
    <3>. QED  BY <1>3, <2>4, <3>1
  <2>7. ASSUME NEW x \in 1 .. n PROVE R[k + x] = h[x]
    <3>1. PICK y \in 1 .. k + l : y = k + x /\ ~(y <= k) /\ y - k = x
      BY <1>3, <2>5, <2>6
    <3>. QED  BY <1>4, <1>5, <2>6, <3>1
  <2>8. n <= l
    BY <1>3, <2>5, <2>6
  <2>9. n = Len(Head(out)) /\ \A x \in 1 .. n : R[k + x] = Head(out)[x]
    BY <2>4, <2>5, <2>7
  <2>. QED  BY <2>5, <2>8, <2>9
<1>8. Len(taken) = k /\ Len(Records) = k + l + m /\ k <= k + l + m /\ k + l + m \in Nat
  BY <1>2, <1>3, <1>5
<1>9. \A x \in 1 .. Len(taken) : Records[x] = taken[x]
  BY <1>2, <1>3, <1>5, <1>6
<1>10. ASSUME out # <<>>
       PROVE  /\ Len(Head(out)) \in Nat
              /\ Len(taken) + Len(Head(out)) <= Len(Records)
              /\ \A x \in 1 .. Len(Head(out)) : Records[Len(taken) + x] = Head(out)[x]
  <2>1. PICK n \in Nat : /\ n = Len(Head(out)) /\ n <= l
                         /\ \A x \in 1 .. n : R[k + x] = Head(out)[x]
    BY <1>7, <1>10
  <2>2. k + n <= k + l + m
    BY <1>3, <2>1
  <2>. QED  BY <1>2, <1>3, <1>5, <2>1, <2>2
<1>. QED
  BY <1>3, <1>8, <1>9, <1>10

DetectorOK(rd, n, fl, cache, queue, start, reps) ==
    /\ CacheOK(rd, cache, n, fl, Horizon(rd, n, fl))
    /\ QueueOK(rd, [queue |-> queue, start |-> start], n, fl, Horizon(rd, n, fl))
    /\ reps \in Seq(ReportRecs) /\ \A r \in ToSet(reps) : ReportOK(rd, r, n, fl)

\* What is read later changes none of the flows, and more records none of the first.
LEMMA DetectorKept ==
    ASSUME NEW rd \in Seq(Microflows), NEW rd2, \A q \in 1 .. Len(rd) : rd2[q] = rd[q],
           NEW n \in Nat, NEW fl, NEW gl, FlowsOK(rd, n, fl), \A m \in 1 .. n : gl[m] = fl[m],
           NEW cache, NEW queue, NEW start, NEW reps,
           DetectorOK(rd, n, fl, cache, queue, start, reps)
    PROVE  DetectorOK(rd2, n, gl, cache, queue, start, reps)
<1>1. ASSUME NEW m \in 1 .. n
      PROVE  /\ PacketsIn(rd2, fl[m].mfs) = PacketsIn(rd, fl[m].mfs)
             /\ LastIn(rd2, fl[m].mfs) = LastIn(rd, fl[m].mfs)
  <2>1. PICK mfs \in Seq(Nat) : /\ mfs = fl[m].mfs /\ Len(mfs) > 0
                                /\ \A j \in DOMAIN mfs : mfs[j] \in 1 .. Len(rd)
    BY DEF FlowsOK, FlowOK, Recs, IsFlow
  <2>2. \A j \in DOMAIN mfs : rd2[mfs[j]] = rd[mfs[j]]
    BY <2>1
  <2>3. Last(mfs) = mfs[Len(mfs)] /\ Len(mfs) \in DOMAIN mfs
    BY <2>1, LenProperties DEF Last
  <2>4. [j \in DOMAIN mfs |-> rd2[mfs[j]].pkts] = [j \in DOMAIN mfs |-> rd[mfs[j]].pkts]
    BY <2>2
  <2>5. PacketsIn(rd2, mfs) = PacketsIn(rd, mfs)
    BY <2>4, Zenon DEF PacketsIn
  <2>6. LastIn(rd2, mfs) = LastIn(rd, mfs)
    BY <2>2, <2>3 DEF LastIn
  <2>. QED  BY <2>1, <2>5, <2>6
<1>2. ASSUME NEW l \in 0 .. n
      PROVE  /\ Horizon(rd2, l, gl) = Horizon(rd, l, fl)
             /\ FlowsOrderly(rd2, l, gl) <=> FlowsOrderly(rd, l, fl)
  <2>1. \A m \in 1 .. l : m \in 1 .. n
    OBVIOUS
  <2>2. l # 0 => l \in 1 .. n
    OBVIOUS
  <2>3. Horizon(rd2, l, gl) = Horizon(rd, l, fl)
    BY <1>1, <2>2 DEF Horizon
  <2>4. \A m \in 1 .. l : PacketsIn(rd2, gl[m].mfs) = PacketsIn(rd, fl[m].mfs) /\ gl[m] = fl[m]
    BY <1>1, <2>1
  <2>5. FlowsOrderly(rd2, l, gl) <=> FlowsOrderly(rd, l, fl)
    BY <2>4 DEF FlowsOrderly
  <2>. QED  BY <2>3, <2>5
<1>3. n \in 0 .. n
  OBVIOUS
<1>4. ASSUME NEW q, NEW m \in 1 .. n, NEW j
      PROVE  InQueue(rd2, q, gl[m].mfs, j) <=> InQueue(rd, q, fl[m].mfs, j)
  BY <1>1 DEF InQueue
<1>5. PICK b : b = Horizon(rd, n, fl) /\ b = Horizon(rd2, n, gl)
  BY <1>2, <1>3
<1>6. FlowsOrderly(rd2, n, gl) <=> FlowsOrderly(rd, n, fl)
  BY <1>2, <1>3
<1>7. CacheOK(rd2, cache, n, gl, b)
  <2>1. CacheOK(rd, cache, n, fl, b)
    BY <1>5 DEF DetectorOK
  <2>2. ASSUME NEW e \in ToSet(cache)
        PROVE  e.ts = LastIn(rd2, e.flow.mfs) /\ \E m \in 1 .. n : e.flow = gl[m]
    <3>1. PICK m \in 1 .. n : e.flow = fl[m] /\ e.ts = LastIn(rd, e.flow.mfs)
      BY <2>1 DEF CacheOK
    <3>. QED  BY <1>1, <3>1
  <2>3. \A m \in 1 .. n : LastIn(rd2, gl[m].mfs) = LastIn(rd, fl[m].mfs) /\ gl[m] = fl[m]
    BY <1>1
  <2>. QED  BY <1>6, <2>1, <2>2, <2>3 DEF CacheOK
<1>8. QueueOK(rd2, [queue |-> queue, start |-> start], n, gl, b)
  <2>1. PICK d : d = [queue |-> queue, start |-> start] /\ QueueOK(rd, d, n, fl, b)
    BY <1>5 DEF DetectorOK
  <2>2. KeysTo(n, gl) = KeysTo(n, fl)
    BY DEF KeysTo
  <2>3. UpTo(rd, d, n, fl, b) => UpTo(rd2, d, n, gl, b)
    <3>1. \A m \in 1 .. n : gl[m] = fl[m] /\ PacketsIn(rd2, gl[m].mfs) = PacketsIn(rd, fl[m].mfs)
      BY <1>1
    <3>. QED  BY <1>4, <3>1 DEF UpTo
  <2>4. QueueOK(rd2, d, n, gl, b)
    <3>. HIDE DEF Queues
    <3>. QED  BY <1>6, <2>1, <2>2, <2>3 DEF QueueOK
  <2>. QED  BY <2>1, <2>4
<1>9. ASSUME NEW r \in ToSet(reps) PROVE ReportOK(rd2, r, n, gl)
  <2>1. ReportOK(rd, r, n, fl)
    BY DEF DetectorOK
  <2>2. r.nth \in 1 .. n /\ r.nth \in 0 .. n /\ \A m \in 1 .. r.nth : m \in 1 .. n
    BY <2>1 DEF ReportOK
  <2>3. PICK c : c = Horizon(rd, r.nth, fl) /\ c = Horizon(rd2, r.nth, gl)
    BY <1>2, <2>2
  <2>4. ASSUME NEW m \in 1 .. r.nth, Through(rd, r.queue, fl[m], c, r.end)
        PROVE  Through(rd2, r.queue, gl[m], c, r.end)
    <3>1. m \in 1 .. n
      BY <2>2
    <3>2. gl[m] = fl[m] /\ PacketsIn(rd2, gl[m].mfs) = PacketsIn(rd, fl[m].mfs)
      BY <1>1, <3>1
    <3>. QED  BY <1>4, <2>4, <3>1, <3>2 DEF Through
  <2>5. FlowsOrderly(rd2, r.nth, gl) <=> FlowsOrderly(rd, r.nth, fl)
    BY <1>2, <2>2
  <2>. QED  BY <2>1, <2>2, <2>3, <2>4, <2>5 DEF ReportOK
<1>10. reps \in Seq(ReportRecs)
  BY DEF DetectorOK
<1>. QED
  BY <1>5, <1>7, <1>8, <1>9, <1>10 DEF DetectorOK

Detecting ==
    /\ detected \in Nat
    /\ detected <= IF out = <<>> THEN 0 ELSE Len(Head(out))
    /\ DetectorOK(read, Len(taken) + detected, Records, ordered_cache, reconstructed_queue,
                  start_pkt_idx, reports)

DetectorInv ==
    /\ AccountInv /\ WholeRecords(Records)
    /\ program.kernel = "detector" => Detecting
    /\ program.kernel # "detector" => reports = <<>>

LEMMA RecordsOK ==
    ASSUME AccountInv, WholeRecords(Records), NEW n \in Nat, n <= Len(Records)
    PROVE  FlowsOK(read, n, Records)
<1>1. Records \in Seq(Recs) /\ Accounted(read, table, Records)
  BY RecordsType DEF AccountInv
<1>2. \A m \in 1 .. n : m \in DOMAIN Records /\ Records[m] \in Recs
  <2>. HIDE DEF Recs
  <2>1. DOMAIN Records = 1 .. Len(Records) /\ Len(Records) \in Nat
    BY <1>1, LenProperties
  <2>. QED  BY <1>1, <2>1, ElementOfSeq
<1>. QED
  BY <1>1, <1>2 DEF FlowsOK, FlowOK, Accounted, WholeRecords

LEMMA WholeNext ==
    ASSUME AccountInv, WholeRecords(Records), ReaderActions
    PROVE  /\ WholeRecords(Records)'
           /\ Len(Records) \in Nat /\ Len(Records') >= Len(Records)
           /\ \A m \in 1 .. Len(Records) : Records'[m] = Records[m]
<1>1. ReaderTypes /\ Records \in Seq(Recs)
  BY RecordsType DEF AccountInv
<1>2. Records' = Records \/ \E f \in Recs : Len(f.mfs) > 0 /\ Records' = Append(Records, f)
  BY <1>1, RecordsStep
<1>. HIDE DEF Recs
<1>3. PICK n \in Nat : n = Len(Records) /\ DOMAIN Records = 1 .. n
  BY <1>1, LenProperties
<1>4. CASE Records' = Records
  BY <1>3, <1>4 DEF WholeRecords
<1>5. ASSUME NEW f \in Recs, Len(f.mfs) > 0, Records' = Append(Records, f)
      PROVE  /\ WholeRecords(Records') /\ Len(Records') >= n
             /\ \A m \in 1 .. n : Records'[m] = Records[m]
  <2>1. PICK R \in Seq(Recs) : R = Append(Records, f)
    BY <1>1, AppendProperties
  <2>2. /\ Len(R) = n + 1 /\ DOMAIN R = 1 .. n + 1 /\ R[n + 1] = f
        /\ \A m \in 1 .. n : R[m] = Records[m]
    BY <1>1, <1>3, <2>1, AppendProperties, LenProperties
  <2>3. \A m \in 1 .. n + 1 : m \in 1 .. n \/ m = n + 1
    OBVIOUS
  <2>. QED  BY <1>3, <1>5, <2>1, <2>2, <2>3 DEF WholeRecords
<1>. QED
  BY <1>2, <1>3, <1>4, <1>5

\* The sources of a queue.
LEMMA OffendersType ==
    ASSUME NEW q \in Seq(QueueRecs), NEW size
    PROVE  Offenders(q, size) \subseteq Sources
<1>1. DOMAIN q = 1 .. Len(q) /\ \A m \in DOMAIN q : q[m] \in QueueRecs
  <2>. HIDE DEF QueueRecs
  <2>. QED  BY LenProperties, ElementOfSeq
<1>2. \A m \in DOMAIN q : q[m].src \in Sources
  BY <1>1 DEF QueueRecs
<1>. QED
  BY <1>2 DEF Offenders

LEMMA DetectRound ==
    ASSUME DetectorInv, program.kernel = "detector", DetectFlow
    PROVE  DetectorOK(read, Len(taken) + detected + 1, Records, ordered_cache',
                      reconstructed_queue', start_pkt_idx', reports')
<1>1. /\ ReaderTypes /\ read \in Seq(Microflows) /\ AccountInv /\ WholeRecords(Records)
      /\ Detecting
      /\ out # <<>> /\ detected < Len(Head(out))
  BY DEF DetectorInv, AccountInv, ReaderTypes, DetectFlow
<1>2. /\ Len(taken) \in Nat /\ Len(Records) \in Nat /\ Len(Head(out)) \in Nat
      /\ Len(taken) + Len(Head(out)) <= Len(Records)
      /\ \A x \in 1 .. Len(Head(out)) : Records[Len(taken) + x] = Head(out)[x]
  BY <1>1, SeenRecords
<1>n. PICK n \in Nat : n = Len(taken) + detected
  BY <1>1, <1>2 DEF Detecting
<1>3. PICK fl, f : /\ n = Len(taken) + detected /\ fl = Records
                   /\ n + 1 <= Len(Records)
                   /\ f = Head(out)[detected + 1] /\ f = fl[n + 1]
  <2>1. detected \in Nat /\ detected + 1 \in 1 .. Len(Head(out))
    BY <1>1, <1>2 DEF Detecting
  <2>2. PICK x \in 1 .. Len(Head(out)) : x = detected + 1 /\ Records[Len(taken) + x] = Head(out)[x]
    BY <1>2, <2>1
  <2>3. /\ Len(taken) + detected \in Nat /\ Len(taken) + x = (Len(taken) + detected) + 1
        /\ (Len(taken) + detected) + 1 <= Len(Records)
    BY <1>2, <2>1, <2>2
  <2>. QED  BY <1>n, <2>2, <2>3
<1>4. FlowsOK(read, n + 1, fl) /\ n + 1 \in 1 .. n + 1
  BY <1>1, <1>3, RecordsOK
<1>5. FlowOK(read, f)
  BY <1>3, <1>4 DEF FlowsOK
<1>6. PICK P \in Seq(PktRecs) : /\ P = PacketsIn(read, f.mfs) /\ P = Packets(f.mfs)
                                /\ Len(P) > 0
                                /\ LastIn(read, f.mfs) = LastTs(f.mfs)
  <2>1. Packets(f.mfs) = PacketsIn(read, f.mfs)
    BY Zenon DEF Packets, PacketsIn
  <2>2. LastIn(read, f.mfs) = LastTs(f.mfs)
    BY Zenon DEF LastIn, LastTs
  <2>. QED  BY <1>1, <1>5, <2>1, <2>2, PacketsType
<1>7. PICK b, c \in Nat : b = Horizon(read, n, fl) /\ c = Horizon(read, n + 1, fl) /\ c = P[1].ts
  <2>1. Horizon(read, n + 1, fl) = P[1].ts
    BY <1>3, <1>6 DEF Horizon
  <2>. QED  BY <1>1, <1>4, <2>1, HorizonMoves
<1>8. PICK cache : /\ cache = ByTs(Append(ordered_cache, [ts |-> LastIn(read, f.mfs), flow |-> f]))
                   /\ ordered_cache' = Kept(cache, c)
                   /\ \/ \E u, q : /\ u = UpdatedQueue(cache, LocalMaxTime(P)) /\ q = ByTs(u.queue)
                                   /\ reconstructed_queue' = Kept(q, c)
                                   /\ start_pkt_idx' = u.start
                                   /\ reports' = Append(reports,
                                         [nth |-> n + 1, end |-> LocalMaxTime(P), queue |-> q,
                                          offenders |-> Offenders(q, LocalMaxSize(P))])
                      \/ /\ reconstructed_queue' = Kept(reconstructed_queue, c)
                         /\ UNCHANGED <<reports, start_pkt_idx>>
  BY <1>3, <1>6, <1>7, Zenon DEF DetectFlow
<1>9. PICK d : /\ d = [queue |-> reconstructed_queue, start |-> start_pkt_idx]
               /\ d.queue = reconstructed_queue /\ d.start = start_pkt_idx
  <2>1. PICK x : x = [queue |-> reconstructed_queue, start |-> start_pkt_idx]
    OBVIOUS
  <2>2. x.queue = reconstructed_queue /\ x.start = start_pkt_idx
    BY <2>1
  <2>. QED  BY <2>1, <2>2
<1>10. /\ CacheOK(read, ordered_cache, n, fl, b) /\ QueueOK(read, d, n, fl, b)
       /\ reports \in Seq(ReportRecs) /\ \A r \in ToSet(reports) : ReportOK(read, r, n, fl)
  BY <1>1, <1>3, <1>7, <1>9 DEF Detecting, DetectorOK
<1>11. CacheOK(read, cache, n + 1, fl, b) /\ CacheOK(read, Kept(cache, c), n + 1, fl, c)
  BY <1>1, <1>3, <1>4, <1>7, <1>8, <1>10, CacheRound
<1>12. \A r \in ToSet(reports) : ReportOK(read, r, n + 1, fl)
  BY <1>10 DEF ReportOK
<1>13. CASE /\ reconstructed_queue' = Kept(reconstructed_queue, c)
            /\ UNCHANGED <<reports, start_pkt_idx>>
  <2>1. QueueOK(read, [queue |-> Kept(d.queue, c), start |-> d.start], n + 1, fl, c)
    BY <1>1, <1>4, <1>7, <1>10, QueueRoundQuiet
  <2>. QED  BY <1>3, <1>7, <1>8, <1>9, <1>10, <1>11, <1>12, <1>13, <2>1 DEF DetectorOK
<1>14. ASSUME NEW u, NEW q, u = UpdatedQueue(cache, LocalMaxTime(P)), q = ByTs(u.queue),
              reconstructed_queue' = Kept(q, c), start_pkt_idx' = u.start,
              reports' = Append(reports,
                            [nth |-> n + 1, end |-> LocalMaxTime(P), queue |-> q,
                             offenders |-> Offenders(q, LocalMaxSize(P))])
       PROVE  DetectorOK(read, n + 1, fl, ordered_cache', reconstructed_queue', start_pkt_idx',
                         reports')
  <2>1. PICK end \in Nat : end = LocalMaxTime(P)
    BY <1>6, MaxTimeType
  <2>2. u = Updated(d, cache, end)
    <3>1. u = UpdatedQueue(cache, end)
      BY <1>14, <2>1
    <3>2. UpdatedQueue(cache, end) =
             Updated([queue |-> reconstructed_queue, start |-> start_pkt_idx], cache, end)
      BY Zenon DEF UpdatedQueue, Updated
    <3>. QED  BY <1>9, <3>1, <3>2
  <2>3. /\ QueueOK(read, [queue |-> Kept(q, c), start |-> u.start], n + 1, fl, c)
        /\ q \in Seq(QueueRecs)
        /\ FlowsOrderly(read, n + 1, fl) => \A m \in 1 .. n + 1 : Through(read, q, fl[m], c, end)
    BY <1>1, <1>4, <1>7, <1>10, <1>11, <1>14, <2>2, QueueRound
  <2>4. PICK o : o = Offenders(q, LocalMaxSize(P)) /\ o \subseteq Sources
    BY <2>3, OffendersType
  <2>5. PICK N \in Nat : N = n + 1
    OBVIOUS
  <2>6. PICK r : r = [nth |-> N, end |-> end, queue |-> q, offenders |-> o]
    OBVIOUS
  <2>7. r \in ReportRecs /\ r.nth = N /\ r.queue = q /\ r.end = end
    <3>. HIDE DEF QueueRecs, Sources
    <3>. QED  BY <2>3, <2>4, <2>6 DEF ReportRecs
  <2>8. reports' = Append(reports, r)
    BY <1>14, <2>1, <2>4, <2>5, <2>6
  <2>9. ReportOK(read, r, N, fl)
    <3>1. r.nth \in 1 .. N
      BY <2>5, <2>7
    <3>. QED  BY <1>7, <2>3, <2>5, <2>7, <3>1 DEF ReportOK
  <2>10. reports' \in Seq(ReportRecs) /\ ToSet(reports') = ToSet(reports) \cup {r}
    <3>. HIDE DEF ReportRecs
    <3>. QED  BY <1>10, <2>7, <2>8, AppendMembers
  <2>11. \A x \in ToSet(reports') : ReportOK(read, x, n + 1, fl)
    BY <1>12, <2>5, <2>9, <2>10
  <2>. QED  BY <1>7, <1>8, <1>11, <1>14, <2>3, <2>10, <2>11 DEF DetectorOK
<1>. QED
  BY <1>3, <1>8, <1>13, <1>14

LEMMA DetectorNext ==
    ASSUME DetectorInv, [ProgramsNext]_programs_vars
    PROVE  DetectorInv'
<1>1. /\ AccountInv' /\ AccountInv /\ ReaderTypes /\ program' = program /\ ReaderActions
      /\ program \in Programs /\ WholeRecords(Records)
  BY AccountNext, ReaderSteps DEF DetectorInv, AccountInv
<1>2. /\ WholeRecords(Records)' /\ Len(Records) \in Nat /\ Len(Records') >= Len(Records)
      /\ \A m \in 1 .. Len(Records) : Records'[m] = Records[m]
  BY <1>1, WholeNext
<1>3. \A q \in 1 .. Len(read) : read'[q] = read[q]
  <2>1. read' = read \/ \E m \in Microflows : read' = Append(read, m)
    BY <1>1 DEF ReaderActions, Allocate, ReadMicroflow, ReadMicroflowsEnd, TimeoutFlow,
                TimeoutFlowsEnd, Benchmark, ReplayClfr, ReplayEnd, Recycle, reader_vars
  <2>. QED  BY <1>1, <2>1, AppendProperties DEF ReaderTypes
<1>4. ASSUME program.kernel # "detector" PROVE reports' = <<>>
  <2>1. reports' = reports
    BY <1>4 DEF ProgramsNext, ReaderThread, KernelStep, BranchStep, PrinterStep, Over, Stuck,
                programs_vars, detector_vars
  <2>. QED  BY <1>4, <2>1 DEF DetectorInv
<1>5. ASSUME program.kernel = "detector" PROVE Detecting'
  <2>1. Detecting /\ detected \in Nat
    BY <1>5 DEF DetectorInv, Detecting
  <2>2. /\ Len(taken) \in Nat /\ Len(taken) <= Len(Records)
        /\ out # <<>> => /\ Len(Head(out)) \in Nat
                         /\ Len(taken) + Len(Head(out)) <= Len(Records)
    BY <1>1, SeenRecords
  <2>3. PICK n \in Nat : n = Len(taken) + detected /\ n <= Len(Records)
    <3>1. CASE out = <<>>
      BY <2>1, <2>2, <3>1 DEF Detecting
    <3>2. CASE out # <<>>
      BY <2>1, <2>2, <3>2 DEF Detecting
    <3>. QED  BY <3>1, <3>2
  <2>4. ASSUME UNCHANGED <<ordered_cache, reconstructed_queue, start_pkt_idx, reports>>
        PROVE  DetectorOK(read', n, Records', ordered_cache', reconstructed_queue',
                          start_pkt_idx', reports')
    <3>1. PICK rd, rd2, fl, gl : rd = read /\ rd2 = read' /\ fl = Records /\ gl = Records'
      OBVIOUS
    <3>2. /\ rd \in Seq(Microflows) /\ \A q \in 1 .. Len(rd) : rd2[q] = rd[q]
      BY <1>1, <1>3, <3>1 DEF ReaderTypes
    <3>3. FlowsOK(rd, n, fl)
      BY <1>1, <2>3, <3>1, RecordsOK
    <3>4. \A m \in 1 .. n : gl[m] = fl[m]
      BY <1>2, <2>3, <3>1
    <3>5. PICK c, q, s, r : /\ c = ordered_cache /\ q = reconstructed_queue
                            /\ s = start_pkt_idx /\ r = reports
      OBVIOUS
    <3>6. DetectorOK(rd, n, fl, c, q, s, r)
      BY <2>1, <2>3, <3>1, <3>5 DEF Detecting
    <3>7. DetectorOK(rd2, n, gl, c, q, s, r)
      BY <3>2, <3>3, <3>4, <3>6, DetectorKept
    <3>. QED  BY <2>4, <3>1, <3>5, <3>7
  <2>5. CASE ReaderThread
    <3>1. UNCHANGED <<detected, ordered_cache, reconstructed_queue, start_pkt_idx, reports>>
      BY <2>5 DEF ReaderThread, detector_vars
    <3>2. taken' = taken
      BY <2>5 DEF ReaderThread, ReaderStep, MicroflowStep, ReplayStep, Allocate, ReadMicroflow,
                  ReadMicroflowsEnd, TimeoutFlow, TimeoutFlowsEnd, Benchmark, ReplayClfr,
                  ReplayEnd
    <3>3. out' = out \/ \E b \in Seq(Recs) : out' = Append(out, b)
      BY <1>1, <2>5, ReaderSends
    <3>4. detected' <= IF out' = <<>> THEN 0 ELSE Len(Head(out'))
      <4>1. CASE out' = out
        BY <2>1, <3>1, <4>1 DEF Detecting
      <4>2. ASSUME NEW b \in Seq(Recs), out' = Append(out, b)
            PROVE  detected' <= IF out' = <<>> THEN 0 ELSE Len(Head(out'))
        <5>. HIDE DEF Recs
        <5>1. out \in Seq(Seq(Recs))
          BY <1>1 DEF ReaderTypes
        <5>2. /\ Append(out, b) # <<>> /\ Head(Append(out, b)) \in Seq(Recs)
              /\ out # <<>> => Head(Append(out, b)) = Head(out)
          BY <5>1
        <5>3. Len(Head(Append(out, b))) \in Nat
          BY <5>2, LenProperties
        <5>4. CASE out = <<>>
          <6>1. detected = 0
            BY <2>1, <5>4 DEF Detecting
          <6>. QED  BY <3>1, <4>2, <5>2, <5>3, <6>1
        <5>5. CASE out # <<>>
          BY <2>1, <3>1, <4>2, <5>2, <5>5 DEF Detecting
        <5>. QED  BY <5>4, <5>5
      <4>. QED  BY <3>3, <4>1, <4>2
    <3>. QED  BY <2>1, <2>3, <2>4, <3>1, <3>2, <3>4 DEF Detecting
  <2>6. CASE KernelStep
    <3>1. DetectFlow \/ DetectEnd
      BY <1>5, <2>6 DEF KernelStep, Detect
    <3>2. CASE DetectFlow
      <4>1. /\ UNCHANGED reader_vars /\ detected' = detected + 1
            /\ out # <<>> /\ detected < Len(Head(out))
        BY <3>2 DEF DetectFlow
      <4>2. /\ UNCHANGED <<read, out, taken, batch>>
        BY <4>1 DEF reader_vars
      <4>3. Records' = Records
        BY <4>2 DEF Records
      <4>4. DetectorOK(read, Len(taken) + detected + 1, Records, ordered_cache',
                       reconstructed_queue', start_pkt_idx', reports')
        BY <1>5, <3>2, DetectRound
      <4>5. Len(taken) + (detected + 1) = Len(taken) + detected + 1
        BY <2>1, <2>2
      <4>6. detected + 1 \in Nat /\ detected + 1 <= Len(Head(out))
        BY <2>1, <2>2, <4>1
      <4>. QED  BY <4>1, <4>2, <4>3, <4>4, <4>5, <4>6 DEF Detecting
    <3>3. CASE DetectEnd
      <4>1. /\ out # <<>> /\ detected = Len(Head(out)) /\ detected' = 0 /\ Recycle
            /\ UNCHANGED <<ordered_cache, reconstructed_queue, start_pkt_idx, reports>>
        BY <3>3 DEF DetectEnd
      <4>2. Len(taken') + 0 = n
        BY <1>1, <2>2, <2>3, <4>1, RecycleTakes
      <4>3. 0 <= IF out' = <<>> THEN 0 ELSE Len(Head(out'))
        <5>. HIDE DEF Recs
        <5>1. out' \in Seq(Seq(Recs))
          BY <1>1 DEF AccountInv, ReaderTypes
        <5>2. out' # <<>> => Head(out') \in Seq(Recs)
          BY <5>1, HeadTailProperties
        <5>. QED  BY <5>2, LenProperties
      <4>. QED  BY <2>4, <4>1, <4>2, <4>3 DEF Detecting
    <3>. QED  BY <3>1, <3>2, <3>3
  <2>7. CASE BranchStep
    BY <1>5, <2>7 DEF BranchStep, ChainStep, CounterStep, ReplicatedStep, TapStep
  <2>8. ASSUME \/ Over \/ Stuck \/ UNCHANGED programs_vars
               \/ \E q \in Printers : PrinterStep(q)
        PROVE  Detecting'
    <3>1. UNCHANGED <<read, out, taken, batch, detected, ordered_cache, reconstructed_queue,
                      start_pkt_idx, reports>>
      BY <2>8 DEF Over, Stuck, PrinterStep, TakeValue, programs_vars, reader_vars,
                  detector_vars
    <3>2. Records' = Records
      BY <3>1 DEF Records
    <3>. QED  BY <2>1, <3>1, <3>2 DEF Detecting
  <2>. QED  BY <2>5, <2>6, <2>7, <2>8 DEF ProgramsNext
<1>. QED
  BY <1>1, <1>2, <1>4, <1>5 DEF DetectorInv

LEMMA DetectorInitInv ==
    ASSUME ProgramsInit
    PROVE  DetectorInv
<1>1. /\ detected = 0 /\ ordered_cache = <<>> /\ reconstructed_queue = <<>>
      /\ start_pkt_idx = [k \in {} |-> 0] /\ reports = <<>>
      /\ taken = <<>> /\ out = <<>> /\ batch = <<>>
  BY DEF ProgramsInit, ReaderInit, DetectorInit
<1>2. Records = <<>>
  <2>1. <<>> \o <<>> = <<>>
    BY EmptySeq
  <2>. QED  BY <1>1, <2>1, FlattenEmpty, Zenon DEF Records
<1>3. DOMAIN Records = {} /\ Len(taken) + detected = 0
  BY <1>1, <1>2
<1>4. DetectorOK(read, 0, Records, <<>>, <<>>, start_pkt_idx, <<>>)
  <2>1. PICK e, b, R, s : /\ e = <<>> /\ b = Horizon(read, 0, Records) /\ R = Records
                          /\ s = start_pkt_idx
    OBVIOUS
  <2>2. ToSet(e) = {} /\ DOMAIN e = {}
    BY <2>1 DEF ToSet
  <2>3. CacheOK(read, e, 0, R, b)
    <3>1. e \in Seq(Entries)
      BY <2>1
    <3>. QED  BY <2>2, <3>1 DEF CacheOK
  <2>4. s \in Starts /\ DOMAIN s = {}
    <3>1. s \in [{} -> Nat] /\ {} \in SUBSET {m.key : m \in Microflows}
      BY <1>1, <2>1
    <3>. QED  BY <3>1 DEF Starts
  <2>5. PICK d : d = [queue |-> e, start |-> s]
    OBVIOUS
  <2>6. d.queue = e /\ d.start = s
    BY <2>5
  <2>7. d \in Queues
    <3>1. e \in Seq(QueueRecs)
      BY <2>1
    <3>. HIDE DEF QueueRecs, Starts
    <3>. QED  BY <2>4, <2>5, <3>1 DEF Queues
  <2>8. QueueOK(read, d, 0, R, b)
    <3>. HIDE DEF Queues
    <3>. QED  BY <2>2, <2>4, <2>6, <2>7 DEF QueueOK, Ordered, UpTo
  <2>9. e \in Seq(ReportRecs)
    BY <2>1
  <2>. QED  BY <2>1, <2>2, <2>3, <2>5, <2>8, <2>9 DEF DetectorOK
<1>5. Detecting
  BY <1>1, <1>3, <1>4 DEF Detecting
<1>. QED
  BY <1>1, <1>3, <1>5, AccountInit DEF DetectorInv, WholeRecords

LEMMA QueuesComplete ==
    ASSUME DetectorInv
    PROVE  QueueComplete
<1>1. CASE program.kernel # "detector"
  <2>1. ToSet(reports) = {}
    BY <1>1 DEF DetectorInv, ToSet
  <2>. QED  BY <2>1 DEF QueueComplete
<1>2. CASE program.kernel = "detector"
  <2>1. /\ AccountInv /\ ReaderTypes /\ WholeRecords(Records) /\ read \in Seq(Microflows)
        /\ detected \in Nat /\ detected <= IF out = <<>> THEN 0 ELSE Len(Head(out))
        /\ reports \in Seq(ReportRecs)
        /\ \A r \in ToSet(reports) : ReportOK(read, r, Len(taken) + detected, Records)
    BY <1>2 DEF DetectorInv, Detecting, DetectorOK, AccountInv, ReaderTypes
  <2>2. /\ Len(taken) \in Nat /\ Len(taken) <= Len(Records) /\ Len(Records) \in Nat
        /\ \A x \in 1 .. Len(taken) : Records[x] = taken[x]
        /\ out # <<>> => /\ Len(Head(out)) \in Nat
                         /\ Len(taken) + Len(Head(out)) <= Len(Records)
                         /\ \A x \in 1 .. Len(Head(out)) : Records[Len(taken) + x] = Head(out)[x]
    BY <2>1, SeenRecords
  <2>R. PICK R : R = Records
    OBVIOUS
  <2>3. PICK S \in Seq(Recs), k \in Nat :
           /\ S = Seen /\ k = Len(S) /\ R = Records /\ k <= Len(R)
           /\ Len(taken) + detected <= k
           /\ \A x \in 1 .. k : S[x] = R[x]
    <3>1. taken \in Seq(Recs) /\ out \in Seq(Seq(Recs))
      BY <2>1 DEF ReaderTypes
    <3>. HIDE DEF Recs
    <3>2. CASE out = <<>>
      <4>1. Seen = taken
        <5>1. taken \o <<>> = taken
          BY <3>1, ConcatEmptySeq
        <5>. QED  BY <3>2, <5>1 DEF Seen
      <4>. QED  BY <2>1, <2>2, <2>R, <3>1, <3>2, <4>1
    <3>3. CASE out # <<>>
      <4>1. Head(out) \in Seq(Recs) /\ Seen = taken \o Head(out)
        BY <3>1, <3>3, HeadTailProperties DEF Seen
      <4>2. PICK a, h \in Seq(Recs) : a = taken /\ h = Head(out)
        BY <3>1, <4>1
      <4>3. PICK m, l \in Nat : m = Len(a) /\ l = Len(h)
        BY LenProperties
      <4>4. /\ a \o h \in Seq(Recs) /\ Len(a \o h) = m + l
            /\ \A x \in 1 .. m + l : (a \o h)[x] = IF x <= m THEN a[x] ELSE h[x - m]
        BY <4>3, ConcatProperties
      <4>5. PICK S \in Seq(Recs) : S = Seen /\ Len(S) = m + l
                 /\ \A x \in 1 .. m + l : S[x] = IF x <= m THEN a[x] ELSE h[x - m]
        BY <4>1, <4>2, <4>4
      <4>6. ASSUME NEW x \in 1 .. m + l PROVE S[x] = Records[x]
        <5>1. CASE x <= m
          BY <2>2, <4>2, <4>3, <4>5, <5>1
        <5>2. CASE ~(x <= m)
          <6>1. PICK y \in 1 .. l : y = x - m /\ m + y = x
            BY <5>2
          <6>2. Records[m + y] = h[y]
            BY <2>2, <3>3, <4>2, <4>3
          <6>. QED  BY <4>5, <5>2, <6>1, <6>2
        <5>. QED  BY <5>1, <5>2
      <4>7. m + l <= Len(Records) /\ m + detected <= m + l /\ m + l \in Nat
        BY <2>1, <2>2, <3>3, <4>2, <4>3
      <4>. QED  BY <2>R, <4>2, <4>3, <4>5, <4>6, <4>7
    <3>. QED  BY <3>2, <3>3
  <2>4. ASSUME NEW r \in ToSet(reports), NEW flows, flows = SubSeq(Seen, 1, r.nth), Orderly(flows),
               NEW m \in DOMAIN flows, NEW j \in DOMAIN Packets(flows[m].mfs),
               Packets(flows[m].mfs)[j].ts \in FirstTs(flows[r.nth]) .. r.end
        PROVE  \E p \in ToSet(r.queue) : p.of = <<flows[m].mfs, j>>
    <3>1. \A mfs : Packets(mfs) = PacketsIn(read, mfs)
      BY Zenon DEF Packets, PacketsIn
    <3>2. PICK n \in Nat : n = r.nth /\ n \in 1 .. k /\ r.end \in Nat
      <4>1. r.nth \in 1 .. Len(taken) + detected
        BY <2>1 DEF ReportOK
      <4>2. r \in ReportRecs
        <5>. HIDE DEF ReportRecs
        <5>1. DOMAIN reports = 1 .. Len(reports) /\ \A x \in DOMAIN reports : reports[x] \in ReportRecs
          BY <2>1, LenProperties, ElementOfSeq
        <5>. QED  BY <5>1 DEF ToSet
      <4>3. r.end \in Nat
        BY <4>2 DEF ReportRecs
      <4>. QED  BY <2>1, <2>2, <2>3, <4>1, <4>3
    <3>3. DOMAIN flows = 1 .. n /\ \A x \in 1 .. n : flows[x] = R[x]
      <4>. HIDE DEF Recs
      <4>1. flows = SubSeq(S, 1, n)
        BY <2>3, <2>4, <3>2
      <4>2. Len(SubSeq(S, 1, n)) = n /\ \A x \in 1 .. n : SubSeq(S, 1, n)[x] = S[x]
        BY <2>3, <3>2
      <4>3. SubSeq(S, 1, n) \in Seq(Recs)
        BY <2>3, <3>2
      <4>4. DOMAIN flows = 1 .. n
        BY <4>1, <4>2, <4>3, LenProperties
      <4>5. \A x \in 1 .. n : x \in 1 .. k
        BY <3>2
      <4>. QED  BY <2>3, <4>1, <4>2, <4>4, <4>5
    <3>4. FlowsOK(read, n, R)
      <4>1. n <= Len(Records)
        BY <2>2, <2>3, <3>2
      <4>. QED  BY <2>1, <2>3, <4>1, RecordsOK
    <3>5. ASSUME NEW x \in 1 .. n
          PROVE  \E P \in Seq(PktRecs), l \in Nat :
                    /\ P = PacketsIn(read, R[x].mfs) /\ l = Len(P) /\ DOMAIN P = 1 .. l
                    /\ l > 0 /\ \A y \in 1 .. l : P[y].ts \in Nat
      <4>1. FlowOK(read, R[x])
        BY <3>4 DEF FlowsOK
      <4>. QED  BY <2>1, <4>1, PacketTimes
    <3>6. FlowsOrderly(read, n, R)
      <4>1. ASSUME NEW x \in 1 .. n, NEW y \in 1 .. n, x < y
            PROVE  /\ PacketsIn(read, R[x].mfs)[1].ts <= PacketsIn(read, R[y].mfs)[1].ts
                   /\ R[x].key # R[y].key
        <5>1. FirstTs(flows[x]) <= FirstTs(flows[y]) /\ flows[x].key # flows[y].key
          BY <2>4, <3>3, <4>1 DEF Orderly
        <5>. QED  BY <3>1, <3>3, <5>1 DEF FirstTs
      <4>2. ASSUME NEW x \in 1 .. n PROVE Ordered(PacketsIn(read, R[x].mfs))
        <5>1. PICK P \in Seq(PktRecs), l \in Nat :
                 /\ P = PacketsIn(read, R[x].mfs) /\ l = Len(P) /\ DOMAIN P = 1 .. l
          BY <3>5
        <5>2. P = Packets(flows[x].mfs)
          BY <3>1, <3>3, <5>1
        <5>3. \A y, z \in 1 .. Len(Packets(flows[x].mfs)) :
                 y < z => Packets(flows[x].mfs)[y].ts <= Packets(flows[x].mfs)[z].ts
          BY <2>4, <3>3, Zenon DEF Orderly, IsSorted
        <5>. QED  BY <5>1, <5>2, <5>3 DEF Ordered
      <4>. QED  BY <4>1, <4>2 DEF FlowsOrderly
    <3>7. Through(read, r.queue, R[m], Horizon(read, n, R), r.end) /\ m \in 1 .. n
      <4>1. ReportOK(read, r, Len(taken) + detected, R)
        BY <2>1, <2>3
      <4>. QED  BY <3>2, <3>3, <3>6, <4>1 DEF ReportOK
    <3>8. PICK P \in Seq(PktRecs), l \in Nat :
             /\ P = PacketsIn(read, R[m].mfs) /\ l = Len(P) /\ DOMAIN P = 1 .. l
             /\ \A y \in 1 .. l : P[y].ts \in Nat
      BY <3>5, <3>7
    <3>9. P = Packets(flows[m].mfs) /\ j \in 1 .. l /\ R[m] = flows[m]
      BY <2>4, <3>1, <3>3, <3>7, <3>8
    <3>10. PICK b \in Nat : b = Horizon(read, n, R) /\ b = FirstTs(flows[r.nth])
      <4>1. n \in 1 .. n /\ n # 0
        BY <3>2
      <4>2. Horizon(read, n, R) = PacketsIn(read, R[n].mfs)[1].ts
        BY <4>1 DEF Horizon
      <4>3. PacketsIn(read, R[n].mfs)[1].ts \in Nat
        BY <3>5, <4>1
      <4>4. FirstTs(flows[r.nth]) = PacketsIn(read, R[n].mfs)[1].ts
        BY <3>1, <3>2, <3>3, <4>1 DEF FirstTs
      <4>. QED  BY <4>2, <4>3, <4>4
    <3>11. P[j].ts >= b /\ P[j].ts <= r.end
      BY <2>4, <3>2, <3>8, <3>9, <3>10
    <3>12. InQueue(read, r.queue, R[m].mfs, j)
      BY <3>7, <3>8, <3>9, <3>10, <3>11 DEF Through
    <3>. QED  BY <3>9, <3>12 DEF InQueue
  <2>. QED  BY <2>4 DEF QueueComplete
<1>. QED
  BY <1>1, <1>2

\* For files, batches and flows of any size and any order in which they come: as
\* long as the flows come by start time, each with a key of its own, the queue put
\* together for a burst has all packets from the flow's start to the burst.
THEOREM BurstQueuesComplete == ProgramsSpec => []QueueComplete
<1>1. ProgramsInit => DetectorInv
  BY DetectorInitInv
<1>2. DetectorInv /\ [ProgramsNext]_programs_vars => DetectorInv'
  BY DetectorNext
<1>3. DetectorInv => QueueComplete
  BY QueuesComplete
<1>. QED
  BY <1>1, <1>2, <1>3, PTL DEF ProgramsSpec
=============================================================================
