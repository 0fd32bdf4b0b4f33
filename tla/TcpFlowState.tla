---------------------------- MODULE TcpFlowState ----------------------------
(***************************************************************************)
(* etc::TCPFlowState: what a monitor that may start in the middle of a     *)
(* connection knows of it, one call for each kind of segment it sees.      *)
(* Nothing in the library uses the class, so that its calls come in any    *)
(* order and number; this module has no run, only the theorems below.      *)
(*                                                                         *)
(* calls is a history: the calls so far.                                   *)
(***************************************************************************)
EXTENDS Integers, Sequences, TLAPS

VARIABLES state, end, calls

tcp_vars == <<state, end, calls>>

States == {"unknown", "closed", "syn_received", "syn_sent", "established", "fin_wait"}
Ends == {"client", "server", "unknown"}
Segments == {"syn", "syn_ack", "ack", "fin", "fin_ack"}

TcpInit == state = "unknown" /\ end = "unknown" /\ calls = <<>>

syn ==
    /\ calls' = Append(calls, "syn")
    /\ IF state = "unknown" THEN state' = "syn_sent" /\ end' = "client"
                            ELSE UNCHANGED <<state, end>>

syn_ack ==
    /\ calls' = Append(calls, "syn_ack")
    /\ IF state = "unknown" THEN state' = "syn_received" /\ end' = "server"
                            ELSE UNCHANGED <<state, end>>

ack ==
    /\ calls' = Append(calls, "ack")
    /\ state' = IF state \in {"fin_wait", "closed"} THEN "closed" ELSE "established"
    /\ end' = IF state = "unknown" THEN "unknown"
              ELSE IF state = "syn_sent" THEN "client"
              ELSE IF state = "syn_received" THEN "server" ELSE end

fin ==
    /\ calls' = Append(calls, "fin")
    /\ state' = IF state = "established" THEN "fin_wait" ELSE state
    /\ end' = end

fin_ack ==
    /\ calls' = Append(calls, "fin_ack")
    /\ state' = IF state = "established" THEN "closed" ELSE state
    /\ end' = end

TcpNext == syn \/ syn_ack \/ ack \/ fin \/ fin_ack

TcpSpec == TcpInit /\ [][TcpNext]_tcp_vars
-----------------------------------------------------------------------------
(***************************************************************************)
(* Properties                                                              *)
(***************************************************************************)

TcpTypeOK == state \in States /\ end \in Ends /\ calls \in Seq(Segments)

Opening == {"syn", "syn_ack", "ack"}
Opener(c) == IF c = "syn" THEN "client" ELSE IF c = "syn_ack" THEN "server" ELSE "unknown"

\* The end whose segments are seen is decided by the first call that is not a
\* FIN, and by no later one, in whatever order they come.
EndOfFirst ==
    \A i \in DOMAIN calls :
        (calls[i] \in Opening /\ \A j \in 1 .. i - 1 : calls[j] \notin Opening)
            => end = Opener(calls[i])

\* A flow counts as closed only if it was acknowledged and then ended with a FIN:
\* a FIN before the handshake is over is forgotten.
ClosedAfterFin ==
    state = "closed" =>
        \E i, j \in DOMAIN calls : i < j /\ calls[i] = "ack" /\ calls[j] \in {"fin", "fin_ack"}

\* No call takes a flow back: whatever is seen late or again, a flow that is
\* closed stays so and one that is ending is not established again.
Rank(s) ==
    IF s = "unknown" THEN 0 ELSE IF s \in {"syn_sent", "syn_received"} THEN 1
    ELSE IF s = "established" THEN 2 ELSE IF s = "fin_wait" THEN 3 ELSE 4
OnlyForward == Rank(state') >= Rank(state) /\ (Rank(state') = Rank(state) => state' = state)
-----------------------------------------------------------------------------
(***************************************************************************)
(* Proofs.  The inductive invariant says, state by state, what must have   *)
(* been called.                                                            *)
(***************************************************************************)

Acked == \E i \in DOMAIN calls : calls[i] = "ack"
AckThenFin ==
    \E i, j \in DOMAIN calls : i < j /\ calls[i] = "ack" /\ calls[j] \in {"fin", "fin_ack"}

TcpInv ==
    /\ TcpTypeOK
    /\ EndOfFirst
    /\ state = "unknown" => \A i \in DOMAIN calls : calls[i] \notin Opening
    /\ state # "unknown" => \E i \in DOMAIN calls : calls[i] \in Opening
    /\ state = "syn_sent" => end = "client"
    /\ state = "syn_received" => end = "server"
    /\ state \in {"established", "fin_wait", "closed"} => Acked
    /\ state \in {"fin_wait", "closed"} => AckThenFin

\* A call adds one segment to the history and leaves the others.
LEMMA History ==
    ASSUME calls \in Seq(Segments), NEW c \in Segments, calls' = Append(calls, c)
    PROVE  /\ calls' \in Seq(Segments)
           /\ Len(calls) \in Nat
           /\ DOMAIN calls = 1 .. Len(calls)
           /\ DOMAIN calls' = 1 .. Len(calls) + 1
           /\ \A i \in DOMAIN calls : calls'[i] = calls[i]
           /\ calls'[Len(calls) + 1] = c
  OBVIOUS

\* What was acknowledged stays so, and a FIN after it comes after it.
LEMMA HistoryKept ==
    ASSUME calls \in Seq(Segments), NEW c \in Segments, calls' = Append(calls, c)
    PROVE  /\ Acked => Acked'
           /\ AckThenFin => AckThenFin'
           /\ c = "ack" => Acked'
           /\ (Acked /\ c \in {"fin", "fin_ack"}) => AckThenFin'
<1>. USE History
<1>1. Acked => Acked'
  BY DEF Acked
<1>2. AckThenFin => AckThenFin'
  BY DEF AckThenFin
<1>3. c = "ack" => Acked'
  BY DEF Acked
<1>4. ASSUME Acked, c \in {"fin", "fin_ack"}
      PROVE  AckThenFin'
  <2>1. PICK i \in DOMAIN calls : calls[i] = "ack"
    BY <1>4 DEF Acked
  <2>2. i \in DOMAIN calls' /\ Len(calls) + 1 \in DOMAIN calls' /\ i < Len(calls) + 1
    BY <2>1
  <2>3. calls'[i] = "ack" /\ calls'[Len(calls) + 1] \in {"fin", "fin_ack"}
    BY <1>4, <2>1
  <2>. QED
    BY <2>2, <2>3 DEF AckThenFin
<1>. QED
  BY <1>1, <1>2, <1>3, <1>4

\* A call leaves the first opening segment as it was, or is that segment itself.
LEMMA FirstKept ==
    ASSUME TcpInv, NEW c \in Segments, calls' = Append(calls, c),
           state # "unknown" \/ c \notin Opening => end' = end,
           state = "unknown" /\ c \in Opening => end' = Opener(c)
    PROVE  EndOfFirst'
<1>. USE History DEF TcpInv, TcpTypeOK
<1>. SUFFICES ASSUME NEW i \in DOMAIN calls', calls'[i] \in Opening,
                     \A j \in 1 .. i - 1 : calls'[j] \notin Opening
              PROVE  end' = Opener(calls'[i])
  BY DEF EndOfFirst
<1>1. CASE i \in DOMAIN calls
  <2>1. calls[i] \in Opening /\ \A j \in 1 .. i - 1 : calls[j] \notin Opening
    BY <1>1
  <2>2. state # "unknown"
    BY <1>1, <2>1
  <2>. QED
    BY <1>1, <2>1, <2>2 DEF EndOfFirst
<1>2. CASE i = Len(calls) + 1
  <2>1. c \in Opening /\ \A j \in DOMAIN calls : calls[j] \notin Opening
    BY <1>2
  <2>. QED
    BY <1>2, <2>1
<1>. QED
  BY <1>1, <1>2

LEMMA TcpInvNext == TcpInv /\ [TcpNext]_tcp_vars => TcpInv'
<1>. SUFFICES ASSUME TcpInv, [TcpNext]_tcp_vars
              PROVE  TcpInv'
  OBVIOUS
<1>. USE DEF States, Ends, Segments
<1>1. ASSUME NEW c \in Segments, calls' = Append(calls, c), state' # "unknown", c \in Opening
      PROVE  \E i \in DOMAIN calls' : calls'[i] \in Opening
  BY <1>1, History DEF TcpInv, TcpTypeOK
<1>2. ASSUME NEW c \in Segments, calls' = Append(calls, c)
      PROVE  /\ state # "unknown" => \E i \in DOMAIN calls' : calls'[i] \in Opening
             /\ state = "unknown" /\ c \notin Opening =>
                    \A i \in DOMAIN calls' : calls'[i] \notin Opening
  BY <1>2, History DEF TcpInv, TcpTypeOK
<1>3. CASE syn
  <2>1. EndOfFirst'
    BY <1>3, FirstKept DEF syn, Opening, Opener
  <2>. QED
    BY <1>1, <1>2, <1>3, <2>1, History, HistoryKept DEF syn, TcpInv, TcpTypeOK, Opening
<1>4. CASE syn_ack
  <2>1. EndOfFirst'
    BY <1>4, FirstKept DEF syn_ack, Opening, Opener
  <2>. QED
    BY <1>1, <1>2, <1>4, <2>1, History, HistoryKept DEF syn_ack, TcpInv, TcpTypeOK, Opening
<1>5. CASE ack
  <2>1. EndOfFirst'
    BY <1>5, FirstKept DEF ack, Opening, Opener, TcpInv
  <2>. QED
    BY <1>1, <1>2, <1>5, <2>1, History, HistoryKept DEF ack, TcpInv, TcpTypeOK, Opening
<1>6. CASE fin
  <2>1. EndOfFirst'
    BY <1>6, FirstKept DEF fin, Opening
  <2>. QED
    BY <1>2, <1>6, <2>1, History, HistoryKept DEF fin, TcpInv, TcpTypeOK, Opening
<1>7. CASE fin_ack
  <2>1. EndOfFirst'
    BY <1>7, FirstKept DEF fin_ack, Opening
  <2>. QED
    BY <1>2, <1>7, <2>1, History, HistoryKept DEF fin_ack, TcpInv, TcpTypeOK, Opening
<1>8. CASE UNCHANGED tcp_vars
  BY <1>8 DEF tcp_vars, TcpInv, TcpTypeOK, EndOfFirst, Acked, AckThenFin
<1>. QED
  BY <1>3, <1>4, <1>5, <1>6, <1>7, <1>8 DEF TcpNext

LEMMA TcpInvariant == TcpSpec => []TcpInv
<1>1. TcpInit => TcpInv
  BY DEF TcpInit, TcpInv, TcpTypeOK, EndOfFirst, States, Ends, Acked, AckThenFin
<1>. QED
  BY <1>1, TcpInvNext, PTL DEF TcpSpec

\* Which end a TCPFlowState takes its segments to be from is decided once, by the
\* first call that is not a FIN.
THEOREM EndIsDecidedOnce == TcpSpec => []EndOfFirst
<1>1. TcpInv => EndOfFirst
  BY DEF TcpInv
<1>. QED
  BY <1>1, TcpInvariant, PTL

\* A TCPFlowState is closed only after an acknowledgement and a later FIN.
THEOREM ClosedOnlyAfterFin == TcpSpec => []ClosedAfterFin
<1>1. TcpInv => ClosedAfterFin
  BY DEF TcpInv, ClosedAfterFin, AckThenFin
<1>. QED
  BY <1>1, TcpInvariant, PTL

\* The state of a TCPFlowState never goes back.
THEOREM NeverBack == TcpSpec => [][OnlyForward]_tcp_vars
<1>1. TcpInv /\ [TcpNext]_tcp_vars => [OnlyForward]_tcp_vars
  <2>. SUFFICES ASSUME TcpInv, TcpNext
                PROVE  OnlyForward
    BY DEF tcp_vars
  <2>. USE DEF TcpInv, TcpTypeOK, States, OnlyForward, Rank
  <2>1. CASE syn
    BY <2>1 DEF syn
  <2>2. CASE syn_ack
    BY <2>2 DEF syn_ack
  <2>3. CASE ack
    BY <2>3 DEF ack
  <2>4. CASE fin
    BY <2>4 DEF fin
  <2>5. CASE fin_ack
    BY <2>5 DEF fin_ack
  <2>. QED
    BY <2>1, <2>2, <2>3, <2>4, <2>5 DEF TcpNext
<1>. QED
  BY <1>1, TcpInvariant, PTL DEF TcpSpec
=============================================================================
