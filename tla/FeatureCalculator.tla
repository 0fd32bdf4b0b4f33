------------------------- MODULE FeatureCalculator -------------------------
(***************************************************************************)
(* The feature calculators (src/kernels/deprecated/*_feature_calculator.h):*)
(* four kernels that gather labelled samples of flows until every class    *)
(* has enough, train a classifier on them, and judge the flows that follow.*)
(* They differ in the features that they compute of a flow.                *)
(*                                                                         *)
(* A feature is its flow, what of the flow it is, and how often it was     *)
(* normalised; an index of the vector that was not written holds what it   *)
(* held before.  dlib, which normalises, trains and classifies, is         *)
(* external: of a verdict only the flow, the vector and the label that it  *)
(* is compared with are kept.                                              *)
(***************************************************************************)
EXTENDS BatchReader

CONSTANTS
    Variants,      \* of "rich", "allstats", "netflow", "pfe": those to be run
    Label,         \* the class of a key's destination port, NoLabel if none
    NoLabel,       \* 0.0
    Classes,       \* the labels of portClasses
    TrainCt,       \* TRAIN_CT
    MinPktCt,      \* MINPKT_CT
    WarmUp         \* flows that begin before are not looked at

ASSUME CalculatorAssumption ==
    /\ Variants \subseteq {"rich", "allstats", "netflow", "pfe"}
    /\ IsFiniteSet(Classes) /\ NoLabel \notin Classes
    /\ {TrainCt, MinPktCt} \subseteq Nat \ {0}

VARIABLES
    variant,          \* which of the kernels this is
    samples,          \* samples with their labels, and the flow
    sample_counts,    \* sampleCounts
    normalized,       \* how often the samples were normalised, all of them at once
    model_built,      \* modelBuilt
    cur_features,     \* curFeatures, index -> feature
    judged,           \* history: what the decision function was asked
    total_counts      \* totalCounts

calculator_vars == <<variant, samples, sample_counts, normalized, model_built,
                     cur_features, judged, total_counts>>

CalculatorInit ==
    /\ variant \in Variants
    /\ samples = {} /\ judged = {}
    /\ sample_counts = [c \in Classes |-> 0]
    /\ total_counts = [c \in Classes |-> 0]
    /\ model_built = FALSE /\ normalized = 0
    /\ cur_features = <<>>

-----------------------------------------------------------------------------
Feature(n, what) == [of |-> n, what |-> what, times |-> 0]

\* Feature j of those that computeStats of the first two kernels computes of the
\* three vectors: the mean is written a second time where the standard deviation
\* belongs.
ComputeStats(n, j) ==
    Feature(n, <<<<"mean", "mean", "min", "max">>[(j % 4) + 1],
                 <<"interArrivals", "packetLens", "interPacketLens">>[(j \div 4) + 1]>>)

\* computeStats of the other two: the mean only.
ComputeMean(n, j) == Feature(n, <<"mean", <<"interArrivals", "packetLens">>[j + 1]>>)

\* The total size, the duration and the number of packets.
Totals(n, j) == Feature(n, <<<<"size", "duration", "packets">>[j + 1]>>)

RichFeatures(n) ==
    [j \in 0 .. 11 + MinPktCt |->
        IF j < 12 THEN ComputeStats(n, j) ELSE Feature(n, <<"packetLen", j - 12>>)]

\* Fault: the number of packets one index further, as in a line that is
\* commented out in the kernel before.
AllStatsFeaturesShifted(n) ==
    [j \in (0 .. 13) \cup {15} |->
        IF j < 12 THEN ComputeStats(n, j) ELSE Totals(n, IF j = 15 THEN 2 ELSE j - 12)]
AllStatsFeatures(n) ==
    [j \in 0 .. 14 |-> IF j < 12 THEN ComputeStats(n, j) ELSE Totals(n, j - 12)]

\* The lengths that the first one sums up are never gathered: it is always 0.
NetFlowFeatures(n) ==
    [j \in 0 .. 2 |-> IF j = 0 THEN Feature(n, <<"zero">>) ELSE Totals(n, j)]

PfeFeatures(n) == [j \in 0 .. 4 |-> IF j < 2 THEN ComputeMean(n, j) ELSE Totals(n, j - 2)]

\* What getFeatures writes for flow n, and the size of sample_type.
Features(n) ==
    CASE variant = "rich"     -> RichFeatures(n)
      [] variant = "allstats" -> AllStatsFeatures(n)
      [] variant = "netflow"  -> NetFlowFeatures(n)
      [] variant = "pfe"      -> PfeFeatures(n)
Dimension ==
    CASE variant = "rich"     -> 12 + MinPktCt
      [] variant = "allstats" -> 15
      [] variant = "netflow"  -> 3
      [] variant = "pfe"      -> 5

\* The vector f, written over g.
Written(f, g) == [j \in DOMAIN f \cup DOMAIN g |-> IF j \in DOMAIN f THEN f[j] ELSE g[j]]

Example(c, n, label) == [x |-> c.features, flow |-> n, label |-> label]

\* Fault: a class goes on collecting when it has enough.
LearnFlowAlways(c, n, label) ==
    IF label \in Classes
    THEN [c EXCEPT !.samples = @ \cup {Example(c, n, label)}, !.counts[label] = @ + 1]
    ELSE c

\* learnFlow.
LearnFlow(c, n, label) ==
    IF label \in Classes /\ c.counts[label] < TrainCt
    THEN [c EXCEPT !.samples = @ \cup {Example(c, n, label)}, !.counts[label] = @ + 1]
    ELSE c

\* The vector after the normalizer.
Normalized(f) == [j \in DOMAIN f |-> [f[j] EXCEPT !.times = @ + 1]]

\* Fault: the model is built anew, of the samples as they are.
BuildModelAnew(c) == [c EXCEPT !.built = TRUE, !.normalized = @ + 1]

\* buildModel, unless it is built: the samples are normalised where they are.
BuildModel(c) == IF c.built THEN c ELSE [c EXCEPT !.built = TRUE, !.normalized = @ + 1]

\* classifyFlow, which normalises curFeatures where it is.
ClassifyFlow(c, n, label) ==
    LET d == [c EXCEPT !.features = Normalized(@)]
    IN  [d EXCEPT !.judged = @ \cup {Example(d, n, label)},
                  !.totals = [l \in Classes |-> IF l = label THEN @[l] + 1 ELSE @[l]]]

\* The flows that run() looks at.
Considered(flow) ==
    LET pkts == Packets(flow.mfs)
    IN  Len(pkts) >= MinPktCt /\ pkts[1].ts >= WarmUp

\* The round of the loop of run() for flow n of those taken, `flows'.
Calculated(c, flows, n) ==
    LET d     == [c EXCEPT !.features = Written(Features(n), @)]
        label == Label[flows[n].key]
    IN  CASE ~Considered(flows[n]) -> c
          [] Considered(flows[n]) /\ Cardinality(c.samples) < TrainCt * Cardinality(Classes)
                -> LearnFlow(d, n, label)
          [] OTHER -> ClassifyFlow(BuildModel(d), n, label)

\* run(): every flow of the batch in turn.
Calculate ==
    /\ out # <<>>
    /\ Recycle
    /\ LET c == FoldLeft(LAMBDA d, n : Calculated(d, taken', n),
                         [samples |-> samples, counts |-> sample_counts,
                          normalized |-> normalized, built |-> model_built,
                          features |-> cur_features, judged |-> judged,
                          totals |-> total_counts],
                         [n \in 1 .. Len(Head(out)) |-> Len(taken) + n])
       IN  /\ samples' = c.samples /\ sample_counts' = c.counts
           /\ normalized' = c.normalized /\ model_built' = c.built
           /\ cur_features' = c.features
           /\ judged' = c.judged /\ total_counts' = c.totals
    /\ UNCHANGED variant

RichRun == variant = "rich" /\ Calculate
AllStatsRun == variant = "allstats" /\ Calculate
NetFlowRun == variant = "netflow" /\ Calculate
PfeRun == variant = "pfe" /\ Calculate
-----------------------------------------------------------------------------
\* Each vector that was learned or judged is of one flow in all its places.
ExamplesWhole ==
    \A e \in samples \cup judged :
        /\ DOMAIN e.x = 0 .. Dimension - 1
        /\ \A j \in DOMAIN e.x : e.x[j].of = e.flow
        /\ e.label = Label[taken[e.flow].key]

\* What is judged was normalised as often as what the model was built from: once,
\* which takes the samples where they lie and the vector before it is judged.
SameScale ==
    /\ \A s \in samples : \A j \in DOMAIN s.x :
          s.x[j].times + normalized = IF model_built THEN 1 ELSE 0
    /\ \A e \in judged : \A j \in DOMAIN e.x : e.x[j].times = 1

\* The model is built from equally many samples of every class, and judges only
\* flows that came after them: no flow is asked about that it was trained on.
\* The vector and the label, which are members that all flows share, carry
\* nothing over from the flow before, nor does the vector that was normalised.
TrainedThenJudged ==
    /\ ExamplesWhole /\ SameScale
    /\ model_built =>
          \A c \in Classes : Cardinality({s \in samples : s.label = c}) = TrainCt
    /\ judged # {} => model_built
    /\ \A s \in samples, e \in judged : s.flow < e.flow
    /\ \A c \in Classes :
          total_counts[c] = Cardinality({e \in judged : e.label = c})
=============================================================================
