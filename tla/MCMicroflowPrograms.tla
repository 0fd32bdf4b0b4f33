------------------------ MODULE MCMicroflowPrograms ------------------------
(***************************************************************************)
(* Small instances of MicroflowPrograms.  Each program reads what makes    *)
(* its kernel do something: flows that end or idle for the reader itself,  *)
(* bursts in overlapping flows, flows of two classes and of none.          *)
(***************************************************************************)
EXTENDS MicroflowPrograms

CONSTANTS k1, k2, k3

P(ts, queue) == [ts |-> ts, queue |-> queue]
Mf(k, fin, pkts) == [key |-> k, fin |-> fin, pkts |-> pkts]
Program(reader, kernel, printers) ==
    [reader |-> reader, kernel |-> kernel, printers |-> printers]

\* Flows that end, flows that idle, a clock that goes back.
AgeingFile ==
    {Mf(k, FALSE, <<P(1, 0)>>) : k \in {k1, k2, k3}}
      \cup {Mf(k1, TRUE, <<P(5, 0)>>), Mf(k2, FALSE, <<P(5, 0)>>), Mf(k3, FALSE, <<P(9, 0)>>)}

\* Flows of one and two packets with and without a long queue.
BurstFile ==
    {Mf(k, TRUE, <<P(t, 0)>>) : k \in {k1}, t \in {1, 2}}
      \cup {Mf(k, TRUE, <<P(t, 0), P(t + 1, 2)>>) : k \in {k2, k3}, t \in {1, 2}}
      \cup {Mf(k, TRUE, <<P(t, 2), P(t + 2, 0)>>) : k \in {k1, k2}, t \in {1}}

\* Flows that are too short, too early, of two classes and of none.
LabelledFile ==
    {Mf(k, TRUE, <<P(3, 0), P(4, 0)>>) : k \in {k1, k2, k3}}
      \cup {Mf(k1, TRUE, <<P(3, 0)>>), Mf(k2, TRUE, <<P(1, 0), P(4, 0)>>)}

CountedFile == {Mf(k1, TRUE, <<P(1, 0)>>), Mf(k2, FALSE, <<P(1, 0), P(1, 0)>>)}

\* Flows that all end, or that never do: one of the last two programs counts many
\* flows, the other none.
EndingFile == {Mf(k1, TRUE, <<P(1, 0)>>)}
EndlessFile == {Mf(k1, FALSE, <<P(1, 0)>>)}

MCPrograms == {Program("read", "profiler", {<<"reader">>}),
               Program("replay", "detector", {}),
               Program("replay", "calculator", {}),
               Program("replay", "count", {<<"replica">>}),
               Program("read", "tap", {<<"reader">>}),
               Program("read", "count", {<<"reader", "replica">>}),
               Program("read", "count", {<<"replica", "reader">>})}
MCPrinters == UNION {p.printers : p \in MCPrograms}
MCFiles == [p \in MCPrograms |->
    CASE p.kernel = "profiler"   -> AgeingFile
      [] p.kernel = "detector"   -> BurstFile
      [] p.kernel = "calculator" -> LabelledFile
      [] p.printers = {<<"reader", "replica">>} -> EndingFile
      [] p.printers = {<<"replica", "reader">>} -> EndlessFile
      [] OTHER                   -> CountedFile]
MCLengths == [p \in MCPrograms |->
    CASE p.kernel = "profiler"   -> {1, 4}
      [] p.kernel = "detector"   -> {4}
      [] p.kernel = "calculator" -> {5}
      [] p.kernel = "count"      -> IF p.reader = "read" THEN {4, 12} ELSE {4}
      [] p.kernel = "tap"        -> {4}]
MCMicroflows == UNION {MCFiles[p] : p \in MCPrograms}

MCSrc == [k \in {k1, k2, k3} |-> k]
MCDst == [k \in {k1, k2, k3} |-> IF k = k3 THEN k2 ELSE k]
MCWatched == {k2, k3}
MCLabel == [k \in {k1, k2, k3} |-> CASE k = k1 -> "ssh" [] k = k2 -> "dns" [] k = k3 -> "none"]
=============================================================================
