----------------------------- MODULE ZipProofs -----------------------------
(***************************************************************************)
(* Theorems about Zip, for all keys, streams and queue sizes:              *)
(*                                                                         *)
(*   NoPartnerMissed  NeverBothWaiting                                     *)
(*   ItemsAreKept     ItemsAccounted                                       *)
(*                                                                         *)
(* The inductive invariant says what the maps hold: items that were        *)
(* popped, each under its own key (MapsOK), and that the pairs are of      *)
(* popped items (PairsOK), so that the next item is neither in a pair nor  *)
(* in a map yet.                                                           *)
(***************************************************************************)
EXTENDS Zip, TLAPS

StreamsOK ==
    /\ stream \in [Ports -> Seq(Ids)]
    /\ pushed \in [Ports -> Nat] /\ popped \in [Ports -> Nat]
    /\ block \in Ports
    /\ \A port \in Ports :
          /\ popped[port] <= pushed[port] /\ pushed[port] <= Len(stream[port])
          /\ Len(stream[port]) <= MaxItems

MapsOK ==
    /\ waiting = [port \in Ports |-> waiting[port]]
    /\ \A port \in Ports : \A k \in DOMAIN waiting[port] :
          waiting[port][k] \in Taken /\ waiting[port][k].port = port
            /\ Id(waiting[port][k]) = k

PairsOK ==
    /\ out = [m \in 1 .. Len(out) |-> out[m]] /\ Len(out) \in Nat
    /\ \A m \in DOMAIN out : FirstItem(out[m]) \in Taken /\ SecondItem(out[m]) \in Taken

ZipInv == StreamsOK /\ MapsOK /\ PairsOK /\ NeverBothWaiting /\ PairedOnce /\ OnlyRepeatsVanish

-----------------------------------------------------------------------------
\* Whether "out" got an item or a map entry, the item is the same.
LEMMA ItemOfItem ==
    ASSUME NEW port, NEW i \in Items(port)
    PROVE  Item(i) = i /\ Item(Entry(i)) = i
<1>1. DOMAIN i = {"port", "pos"}
  BY DEF Items
<1>2. DOMAIN Entry(i) = {"key", "value"} /\ Entry(i).value = i
  BY DEF Entry
<1>. QED
  BY <1>1, <1>2 DEF Item

LEMMA PortTypes == 1 \in Ports /\ 2 \in Ports /\ Ports = {1, 2} /\ Other(1) = 2 /\ Other(2) = 1
BY DEF Ports, Other

LEMMA TakenType ==
    ASSUME NEW i \in Taken
    PROVE  /\ i.port \in Ports /\ i \in Items(i.port)
           /\ i.pos <= popped[i.port] /\ i.pos \in 1 .. MaxItems
           /\ i = [port |-> i.port, pos |-> i.pos]
BY DEF Taken, Items

\* The item that is popped next.
Next1(port) == [port |-> port, pos |-> popped[port] + 1]

LEMMA NextItem ==
    ASSUME StreamsOK, NEW port \in Ports, HasData(port),
           popped' = [popped EXCEPT ![port] = @ + 1], stream' = stream
    PROVE  /\ Next1(port) \in Items(port) /\ Next1(port).port = port
           /\ Next1(port).pos = popped[port] + 1
           /\ Next1(port) \notin Taken /\ Taken' = Taken \cup {Next1(port)}
           /\ \A i \in Taken : i.port = port => i.pos < popped[port] + 1
           /\ Id(Next1(port)) \in Ids
<1>. DEFINE i == Next1(port)
<1>1. /\ popped[port] \in Nat /\ popped[port] + 1 <= Len(stream[port])
      /\ Len(stream[port]) \in Nat /\ MaxItems \in Nat /\ Len(stream[port]) <= MaxItems
      /\ stream[port] \in Seq(Ids)
  BY ZipAssumption DEF StreamsOK, HasData
<1>2. i \in Items(port) /\ i.port = port /\ i.pos = popped[port] + 1
  BY <1>1 DEF Next1, Items
<1>3. \A j \in Taken : j.port = port => j.pos < popped[port] + 1
  BY <1>1, TakenType
<1>4. Id(i) \in Ids
  BY <1>1, <1>2 DEF Id
<1>5. \A q \in Ports : popped'[q] = IF q = port THEN popped[q] + 1 ELSE popped[q]
  BY DEF StreamsOK
<1>6. Taken' = Taken \cup {i}
  <2>1. Taken \cup {i} \subseteq Taken'
    BY <1>1, <1>2, <1>5 DEF Taken, Items
  <2>2. ASSUME NEW j \in Taken', j \notin Taken
        PROVE  j = i
    <3>1. PICK q \in Ports : j \in Items(q) /\ j.pos <= popped'[q]
      BY DEF Taken
    <3>2. j.pos \in Nat /\ j.port = q /\ ~(j.pos <= popped[q])
      BY <2>2, <3>1 DEF Taken, Items
    <3>3. q = port /\ j.pos = popped[port] + 1
      BY <1>1, <1>5, <3>1, <3>2
    <3>4. j = [port |-> j.port, pos |-> j.pos]
      BY <3>1 DEF Items
    <3>. QED  BY <3>2, <3>3, <3>4 DEF Next1
  <2>. QED  BY <2>1, <2>2
<1>7. i \notin Taken
  BY <1>1, <1>2, <1>3
<1>. QED
  BY <1>2, <1>3, <1>4, <1>6, <1>7

\* Popping and storing an item, however the maps change, keeps the streams.
LEMMA TakeStreams ==
    ASSUME StreamsOK, NEW port \in Ports, HasData(port),
           popped' = [popped EXCEPT ![port] = @ + 1],
           stream' = stream, pushed' = pushed, block' \in Ports
    PROVE  StreamsOK'
<1>1. \A q \in Ports : popped'[q] = IF q = port THEN popped[q] + 1 ELSE popped[q]
  BY DEF StreamsOK
<1>2. popped' \in [Ports -> Nat]
  BY <1>1 DEF StreamsOK
<1>3. \A q \in Ports : popped'[q] <= pushed[q]
  BY <1>1 DEF StreamsOK, HasData
<1>. QED
  BY <1>2, <1>3 DEF StreamsOK

\* The item meets its partner.
LEMMA MatchKeepsInv ==
    ASSUME ZipInv, NEW port \in Ports, HasData(port),
           Id(Next1(port)) \in DOMAIN waiting[Other(port)],
           Match(Next1(port), waiting[Other(port)][Id(Next1(port))]),
           popped' = [popped EXCEPT ![port] = @ + 1],
           stream' = stream, pushed' = pushed, block' \in Ports
    PROVE  ZipInv'
<1>. DEFINE i == Next1(port)
            other == Other(port)
            partner == waiting[other][Id(i)]
            last == Len(out) + 1
<1>0. StreamsOK /\ MapsOK /\ PairsOK /\ NeverBothWaiting /\ PairedOnce /\ OnlyRepeatsVanish
  BY DEF ZipInv
<1>1. /\ i \in Items(port) /\ i.port = port /\ i \notin Taken /\ Taken' = Taken \cup {i}
      /\ Id(i) \in Ids
  BY <1>0, NextItem
<1>2. other \in Ports /\ other # port /\ Ports = {port, other}
  BY DEF Ports, Other
<1>3. /\ partner \in Taken /\ partner.port = other /\ Id(partner) = Id(i)
      /\ partner \in Items(other)
  BY <1>0, <1>2, TakenType DEF MapsOK
<1>4. /\ out' = Append(out, Pushed(i, partner))
      /\ waiting' = [waiting EXCEPT ![other] = Without(@, Id(i))]
  BY <1>1 DEF Match
<1>5. /\ DOMAIN out = 1 .. Len(out) /\ Len(out) \in Nat
      /\ DOMAIN out' = 1 .. last /\ Len(out') = last
      /\ \A m \in DOMAIN out : out'[m] = out[m] /\ m \in DOMAIN out' /\ m # last
      /\ out'[last] = Pushed(i, partner)
      /\ \A m \in DOMAIN out' : m \in DOMAIN out \/ m = last
      /\ out' = [m \in 1 .. Len(out') |-> out'[m]]
  <2>1. DOMAIN out = 1 .. Len(out) /\ Len(out) \in Nat
    BY <1>0 DEF PairsOK
  <2>. DEFINE any == {out[m] : m \in DOMAIN out} \cup {Pushed(i, partner)}
  <2>2. out \in Seq(any)
    <3>1. out \in [1 .. Len(out) -> any]
      BY <1>0, <2>1 DEF PairsOK
    <3>. HIDE DEF any
    <3>. QED  BY <2>1, <3>1
  <2>3. Pushed(i, partner) \in any
    OBVIOUS
  <2>. DEFINE e == Pushed(i, partner)
  <2>. HIDE DEF e, any
  <2>4. /\ Append(out, e) \in Seq(any) /\ Len(Append(out, e)) = Len(out) + 1
        /\ Append(out, e)[Len(out) + 1] = e
        /\ \A m \in 1 .. Len(out) : Append(out, e)[m] = out[m]
    BY <2>1, <2>2, <2>3 DEF e
  <2>5. out' = Append(out, e)
    BY <1>4 DEF e
  <2>6. out' \in Seq(any) /\ Len(out') = last /\ out'[last] = e
        /\ \A m \in 1 .. Len(out) : out'[m] = out[m]
    BY <2>4, <2>5
  <2>7. DOMAIN out' = 1 .. last /\ out' = [m \in 1 .. last |-> out'[m]]
    BY <2>6
  <2>. QED  BY <2>1, <2>6, <2>7 DEF e
<1>6. /\ waiting'[other] = Without(waiting[other], Id(i)) /\ waiting'[port] = waiting[port]
      /\ waiting' = [q \in Ports |-> waiting'[q]]
  BY <1>0, <1>2, <1>4 DEF MapsOK
<1>7. /\ DOMAIN waiting'[other] = DOMAIN waiting[other] \ {Id(i)}
      /\ \A k \in DOMAIN waiting'[other] : waiting'[other][k] = waiting[other][k]
  BY <1>6 DEF Without
<1>8. /\ FirstItem(Pushed(i, partner)) = IF port = 1 THEN i ELSE partner
      /\ SecondItem(Pushed(i, partner)) = IF port = 1 THEN partner ELSE i
  <2>1. Item(i) = i /\ Item(Entry(partner)) = partner
    BY <1>1, <1>3, ItemOfItem
  <2>2. CASE port = 1
    <3>1. Pushed(i, partner) = [first |-> i, second |-> Entry(partner)]
      BY <1>1, <2>2 DEF Pushed
    <3>. HIDE DEF i, partner
    <3>. QED  BY <2>1, <2>2, <3>1 DEF FirstItem, SecondItem
  <2>3. CASE port # 1
    <3>1. Pushed(i, partner) = [first |-> Entry(partner), second |-> i]
      BY <1>1, <2>3 DEF Pushed
    <3>. HIDE DEF i, partner
    <3>. QED  BY <2>1, <2>3, <3>1 DEF FirstItem, SecondItem
  <2>. QED  BY <2>2, <2>3
<1>9. \A j : Id(j)' = Id(j)
  BY DEF Id
<1>. HIDE DEF i, partner, last
<1>10. StreamsOK'
  BY <1>0, TakeStreams
<1>11. MapsOK'
  BY <1>0, <1>1, <1>2, <1>6, <1>7, <1>9 DEF MapsOK
<1>12. PairsOK'
  <2>1. \A m \in DOMAIN out' : FirstItem(out'[m]) \in Taken' /\ SecondItem(out'[m]) \in Taken'
    BY <1>0, <1>1, <1>3, <1>5, <1>8 DEF PairsOK
  <2>. QED  BY <1>5, <2>1 DEF PairsOK, last
<1>13. NeverBothWaiting'
  BY <1>0, <1>2, <1>6, <1>7, PortTypes DEF NeverBothWaiting
<1>14. PairedOnce'
  <2>1. \A m \in DOMAIN out :
           /\ FirstItem(out[m]) \in Taken /\ SecondItem(out[m]) \in Taken
           /\ FirstItem(out[m]) # i /\ SecondItem(out[m]) # i
    BY <1>0, <1>1 DEF PairsOK
  <2>2. \A m \in DOMAIN out : FirstItem(out[m]) # partner /\ SecondItem(out[m]) # partner
    <3>. SUFFICES ASSUME NEW m \in DOMAIN out
                  PROVE  FirstItem(out[m]) # partner /\ SecondItem(out[m]) # partner
      OBVIOUS
    <3>1. FirstItem(out[m]).port = 1 /\ SecondItem(out[m]).port = 2
      BY <1>0 DEF PairedOnce
    <3>2. Id(i) \in DOMAIN waiting[other] /\ waiting[other][Id(i)] = partner
      BY DEF i, other, partner
    <3>3. CASE other = 1
      <4>1. waiting[1][Id(i)] # FirstItem(out[m])
        BY <1>0, <1>1, <3>2, <3>3 DEF PairedOnce
      <4>. QED  BY <1>3, <3>1, <3>2, <3>3, <4>1
    <3>4. CASE other = 2
      <4>1. waiting[2][Id(i)] # SecondItem(out[m])
        BY <1>0, <1>1, <3>2, <3>4 DEF PairedOnce
      <4>. QED  BY <1>3, <3>1, <3>2, <3>4, <4>1
    <3>. QED  BY <1>2, <3>3, <3>4, PortTypes
  <2>3. \A m \in DOMAIN out' :
           /\ FirstItem(out'[m]).port = 1 /\ SecondItem(out'[m]).port = 2
           /\ Id(FirstItem(out'[m])) = Id(SecondItem(out'[m]))
    <3>1. \A m \in DOMAIN out : /\ FirstItem(out[m]).port = 1 /\ SecondItem(out[m]).port = 2
                                /\ Id(FirstItem(out[m])) = Id(SecondItem(out[m]))
      BY <1>0 DEF PairedOnce
    <3>2. /\ FirstItem(out'[last]).port = 1 /\ SecondItem(out'[last]).port = 2
          /\ Id(FirstItem(out'[last])) = Id(SecondItem(out'[last]))
      BY <1>1, <1>2, <1>3, <1>5, <1>8, PortTypes
    <3>. QED  BY <1>5, <3>1, <3>2
  <2>4. \A m, n \in DOMAIN out' : m # n =>
           FirstItem(out'[m]) # FirstItem(out'[n]) /\ SecondItem(out'[m]) # SecondItem(out'[n])
    <3>1. \A m, n \in DOMAIN out : m # n =>
             FirstItem(out[m]) # FirstItem(out[n]) /\ SecondItem(out[m]) # SecondItem(out[n])
      BY <1>0 DEF PairedOnce
    <3>. QED  BY <1>5, <1>8, <2>1, <2>2, <3>1
  <2>5. \A m \in DOMAIN out', k \in Ids :
          /\ k \in DOMAIN waiting'[1] => waiting'[1][k] # FirstItem(out'[m])
          /\ k \in DOMAIN waiting'[2] => waiting'[2][k] # SecondItem(out'[m])
    <3>1. \A q \in Ports : \A k \in DOMAIN waiting'[q] :
             /\ k \in DOMAIN waiting[q] /\ waiting'[q][k] = waiting[q][k]
             /\ waiting'[q][k] # i /\ waiting'[q][k] # partner
      <4>1. \A k \in DOMAIN waiting'[other] : Id(waiting[other][k]) = k /\ k # Id(i)
        BY <1>0, <1>2, <1>7 DEF MapsOK
      <4>2. \A q \in Ports : \A k \in DOMAIN waiting[q] :
               waiting[q][k] \in Taken /\ waiting[q][k].port = q
        BY <1>0 DEF MapsOK
      <4>. QED  BY <1>1, <1>2, <1>3, <1>6, <1>7, <4>1, <4>2
    <3>2. \A m \in DOMAIN out, k \in Ids :
            /\ k \in DOMAIN waiting[1] => waiting[1][k] # FirstItem(out[m])
            /\ k \in DOMAIN waiting[2] => waiting[2][k] # SecondItem(out[m])
      BY <1>0 DEF PairedOnce
    <3>. QED  BY <1>5, <1>8, <3>1, <3>2, PortTypes
  <2>. QED  BY <2>3, <2>4, <2>5 DEF PairedOnce, Id
<1>15. OnlyRepeatsVanish'
  <2>. SUFFICES ASSUME NEW j \in Taken'
                PROVE  InPair(j)' \/ Waits(j)' \/
                         \E h \in Taken' : h.port = j.port /\ h.pos < j.pos /\ Id(h)' = Id(j)'
    BY DEF OnlyRepeatsVanish
  <2>1. CASE j = i \/ j = partner
    <3>1. j \in {FirstItem(out'[last]), SecondItem(out'[last])} /\ last \in DOMAIN out'
      BY <1>5, <1>8, <2>1 DEF last
    <3>. QED  BY <3>1 DEF InPair
  <2>2. CASE j # i /\ j # partner
    <3>1. j \in Taken
      BY <1>1, <2>2
    <3>2. InPair(j) => InPair(j)'
      BY <1>5 DEF InPair
    <3>3. Waits(j) => Waits(j)'
      <4>. SUFFICES ASSUME Waits(j)
                    PROVE  Waits(j)'
        OBVIOUS
      <4>1. j.port \in Ports /\ Id(j) \in DOMAIN waiting[j.port] /\ waiting[j.port][Id(j)] = j
        BY <3>1, TakenType DEF Waits
      <4>2. j.port = other => Id(j) # Id(i)
        BY <2>2, <4>1 DEF partner, i, other
      <4>. QED  BY <1>2, <1>6, <1>7, <1>9, <4>1, <4>2 DEF Waits
    <3>. QED  BY <1>0, <1>1, <1>9, <3>1, <3>2, <3>3 DEF OnlyRepeatsVanish
  <2>. QED  BY <2>1, <2>2
<1>. QED
  BY <1>10, <1>11, <1>12, <1>13, <1>14, <1>15 DEF ZipInv

\* The item has no partner yet: it waits, or vanishes as a repeat.
LEMMA KeepKeepsInv ==
    ASSUME ZipInv, NEW port \in Ports, HasData(port),
           Id(Next1(port)) \notin DOMAIN waiting[Other(port)], Keep(Next1(port)),
           popped' = [popped EXCEPT ![port] = @ + 1],
           stream' = stream, pushed' = pushed, block' \in Ports
    PROVE  ZipInv'
<1>. DEFINE i == Next1(port)
            other == Other(port)
<1>0. StreamsOK /\ MapsOK /\ PairsOK /\ NeverBothWaiting /\ PairedOnce /\ OnlyRepeatsVanish
  BY DEF ZipInv
<1>1. /\ i \in Items(port) /\ i.port = port /\ i \notin Taken /\ Taken' = Taken \cup {i}
      /\ \A j \in Taken : j.port = port => j.pos < i.pos
      /\ Id(i) \in Ids
  <2>1. /\ i.pos = popped[port] + 1
        /\ \A j \in Taken : j.port = port => j.pos < popped[port] + 1
    BY <1>0, NextItem
  <2>2. /\ i \in Items(port) /\ i.port = port /\ i \notin Taken /\ Taken' = Taken \cup {i}
        /\ Id(i) \in Ids
    BY <1>0, NextItem
  <2>. QED  BY <2>1, <2>2
<1>2. other \in Ports /\ other # port /\ Ports = {port, other}
  BY DEF Ports, Other
<1>3. Id(i) \notin DOMAIN waiting[other]
  OBVIOUS
<1>4. out' = out /\ waiting' = [waiting EXCEPT ![port] = Extended(@, Id(i), i)]
  BY <1>1 DEF Keep
<1>5. \A m \in DOMAIN out : FirstItem(out[m]) # i /\ SecondItem(out[m]) # i
  BY <1>0, <1>1 DEF PairsOK
<1>6. /\ waiting'[port] = Extended(waiting[port], Id(i), i) /\ waiting'[other] = waiting[other]
      /\ waiting' = [q \in Ports |-> waiting'[q]]
  BY <1>0, <1>2, <1>4 DEF MapsOK
<1>7. /\ DOMAIN waiting'[port] = DOMAIN waiting[port] \cup {Id(i)}
      /\ \A k \in DOMAIN waiting[port] : waiting'[port][k] = waiting[port][k]
      /\ Id(i) \notin DOMAIN waiting[port] => waiting'[port][Id(i)] = i
  BY <1>6 DEF Extended
<1>8. \A j : Id(j)' = Id(j)
  BY DEF Id
<1>. HIDE DEF i, other
<1>9. StreamsOK'
  BY <1>0, TakeStreams
<1>10. MapsOK'
  BY <1>0, <1>1, <1>2, <1>6, <1>7, <1>8 DEF MapsOK
<1>11. PairsOK'
  BY <1>0, <1>1, <1>4 DEF PairsOK
<1>12. NeverBothWaiting'
  BY <1>0, <1>2, <1>3, <1>6, <1>7, PortTypes DEF NeverBothWaiting
<1>13. PairedOnce'
  <2>1. \A q \in Ports : \A k \in DOMAIN waiting'[q] :
           \/ k \in DOMAIN waiting[q] /\ waiting'[q][k] = waiting[q][k]
           \/ waiting'[q][k] = i
    BY <1>2, <1>6, <1>7
  <2>2. \A m \in DOMAIN out, k \in Ids :
          /\ k \in DOMAIN waiting'[1] => waiting'[1][k] # FirstItem(out[m])
          /\ k \in DOMAIN waiting'[2] => waiting'[2][k] # SecondItem(out[m])
    BY <1>0, <1>5, <2>1, PortTypes DEF PairedOnce
  <2>. QED  BY <1>0, <1>4, <1>8, <2>2 DEF PairedOnce
<1>14. OnlyRepeatsVanish'
  <2>. SUFFICES ASSUME NEW j \in Taken'
                PROVE  InPair(j)' \/ Waits(j)' \/
                         \E h \in Taken' : h.port = j.port /\ h.pos < j.pos /\ Id(h)' = Id(j)'
    BY DEF OnlyRepeatsVanish
  <2>1. CASE j = i /\ Id(i) \notin DOMAIN waiting[port]
    BY <1>1, <1>7, <1>8, <2>1 DEF Waits
  <2>2. CASE j = i /\ Id(i) \in DOMAIN waiting[port]
    <3>1. /\ waiting[port][Id(i)] \in Taken /\ waiting[port][Id(i)].port = port
          /\ Id(waiting[port][Id(i)]) = Id(i)
      BY <1>0, <2>2 DEF MapsOK
    <3>. QED  BY <1>1, <1>8, <2>2, <3>1
  <2>3. CASE j # i
    <3>1. j \in Taken /\ j.port \in Ports
      BY <1>1, <2>3, TakenType
    <3>2. InPair(j) => InPair(j)'
      BY <1>4 DEF InPair
    <3>3. Waits(j) => Waits(j)'
      BY <1>2, <1>6, <1>7, <1>8, <3>1 DEF Waits
    <3>. QED  BY <1>0, <1>1, <1>8, <3>1, <3>2, <3>3 DEF OnlyRepeatsVanish
  <2>. QED  BY <2>1, <2>2, <2>3
<1>. QED
  BY <1>9, <1>10, <1>11, <1>12, <1>13, <1>14 DEF ZipInv

-----------------------------------------------------------------------------
LEMMA InitZipInv == ZipInit => ZipInv
<1>. SUFFICES ASSUME ZipInit
              PROVE  ZipInv
  OBVIOUS
<1>1. \A p \in Ports : popped[p] = 0 /\ pushed[p] = 0
  BY DEF ZipInit
<1>2. \A p \in Ports : stream[p] \in Seq(Ids) /\ Len(stream[p]) \in Nat /\ Len(stream[p]) <= MaxItems
  <2>. SUFFICES ASSUME NEW p \in Ports
                PROVE  /\ stream[p] \in Seq(Ids) /\ Len(stream[p]) \in Nat
                       /\ Len(stream[p]) <= MaxItems
    OBVIOUS
  <2>1. PICK n \in 0 .. MaxItems : stream[p] \in [1 .. n -> Ids]
    BY DEF ZipInit
  <2>2. n \in Nat /\ n <= MaxItems
    BY <2>1, ZipAssumption
  <2>3. stream[p] \in Seq(Ids) /\ Len(stream[p]) = n
    BY <2>1, <2>2
  <2>. QED  BY <2>2, <2>3
<1>3. StreamsOK
  BY <1>1, <1>2 DEF ZipInit, StreamsOK, Ports
<1>4. Taken = {}
  <2>. SUFFICES ASSUME NEW i \in Taken
                PROVE  FALSE
    OBVIOUS
  <2>. QED  BY <1>1, TakenType
<1>5. MapsOK /\ NeverBothWaiting
  BY DEF ZipInit, MapsOK, NeverBothWaiting, Ports
<1>6. PairsOK /\ PairedOnce
  BY DEF ZipInit, PairsOK, PairedOnce
<1>7. OnlyRepeatsVanish
  BY <1>4 DEF OnlyRepeatsVanish
<1>. QED
  BY <1>3, <1>5, <1>6, <1>7 DEF ZipInv

LEMMA NextZipInv == ZipInv /\ [ZipNext]_zip_vars => ZipInv'
<1>. SUFFICES ASSUME ZipInv, [ZipNext]_zip_vars
              PROVE  ZipInv'
  OBVIOUS
<1>1. ASSUME UNCHANGED <<stream, popped, waiting, out>>, StreamsOK'
      PROVE  ZipInv'
  <2>1. Taken' = Taken /\ \A i : Id(i)' = Id(i)
    BY <1>1 DEF Taken, Id
  <2>0. MapsOK /\ PairsOK /\ NeverBothWaiting /\ PairedOnce
    BY DEF ZipInv
  <2>4. MapsOK'
    BY <1>1, <2>0, <2>1 DEF MapsOK
  <2>5. PairsOK'
    BY <1>1, <2>0, <2>1 DEF PairsOK
  <2>2. MapsOK' /\ PairsOK' /\ NeverBothWaiting' /\ PairedOnce'
    BY <1>1, <2>0, <2>1, <2>4, <2>5 DEF NeverBothWaiting, PairedOnce
  <2>3. OnlyRepeatsVanish'
    BY <1>1, <2>1 DEF ZipInv, OnlyRepeatsVanish, InPair, Waits
  <2>. QED  BY <1>1, <2>2, <2>3 DEF ZipInv
<1>2. ASSUME NEW port \in Ports, Feed(port)
      PROVE  ZipInv'
  <2>1. StreamsOK'
    BY <1>2 DEF Feed, ZipInv, StreamsOK
  <2>. QED  BY <1>1, <1>2, <2>1 DEF Feed
<1>3. ASSUME NEW port \in Ports, Block(port)
      PROVE  ZipInv'
  <2>1. block' \in Ports /\ stream' = stream /\ pushed' = pushed
    BY <1>3 DEF Block, BlockEnd, Other, Ports
  <2>2. CASE ~HasData(port)
    <3>1. popped' = popped /\ waiting' = waiting /\ out' = out
      BY <1>3, <2>2 DEF Block
    <3>2. StreamsOK'
      BY <2>1, <3>1 DEF ZipInv, StreamsOK
    <3>. QED  BY <1>1, <2>1, <3>1, <3>2
  <2>3. CASE HasData(port)
    <3>1. Take(port)
      BY <1>3, <2>3 DEF Block
    <3>2. /\ popped' = [popped EXCEPT ![port] = @ + 1]
          /\ IF Id(Next1(port)) \in DOMAIN waiting[Other(port)]
             THEN Match(Next1(port), waiting[Other(port)][Id(Next1(port))])
             ELSE Keep(Next1(port))
      BY <3>1, Zenon DEF Take, Next1
    <3>3. CASE Id(Next1(port)) \in DOMAIN waiting[Other(port)]
      BY <2>1, <2>3, <3>2, <3>3, MatchKeepsInv
    <3>4. CASE Id(Next1(port)) \notin DOMAIN waiting[Other(port)]
      BY <2>1, <2>3, <3>2, <3>4, KeepKeepsInv
    <3>. QED  BY <3>3, <3>4
  <2>. QED  BY <2>2, <2>3
<1>4. CASE StreamsOver \/ UNCHANGED zip_vars
  <2>1. UNCHANGED zip_vars
    BY <1>4 DEF StreamsOver
  <2>2. StreamsOK'
    BY <2>1 DEF zip_vars, ZipInv, StreamsOK
  <2>. QED  BY <1>1, <2>1, <2>2 DEF zip_vars
<1>. QED
  BY <1>2, <1>3, <1>4 DEF ZipNext

\* Whatever the streams and however their items interleave, a key never waits
\* in both maps: Zip misses no pair.
THEOREM NoPartnerMissed == ZipSpec => []NeverBothWaiting
<1>1. ZipInv => NeverBothWaiting
  BY DEF ZipInv
<1>. QED
  BY <1>1, InitZipInv, NextZipInv, PTL DEF ZipSpec

\* Every item that Zip takes is in one pair, or waits, or is the repeat of an
\* earlier one of its port; pairs have one key and share no items.
THEOREM ItemsAreKept == ZipSpec => []ItemsAccounted
<1>1. ZipInv => ItemsAccounted
  BY DEF ZipInv, ItemsAccounted
<1>. QED
  BY <1>1, InitZipInv, NextZipInv, PTL DEF ZipSpec
=============================================================================
