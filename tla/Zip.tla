-------------------------------- MODULE Zip --------------------------------
(***************************************************************************)
(* kernels::Zip (src/kernels/zip.h): pairs the items of two streams by a   *)
(* key, keeping an item that has no partner yet in a map.                  *)
(*                                                                         *)
(* RaftLib is external: the kernels that feed the two ports are threads of *)
(* their own, which push into bounded queues and block when one is full;   *)
(* it calls run() while a port has data, and not any more when the feeding *)
(* kernels have stopped and the queues are empty.  Zip's output is taken   *)
(* by its sink, so a push blocks for a while at most.                      *)
(***************************************************************************)
EXTENDS Integers, Sequences, FiniteSets, FiniteSetsExt

CONSTANTS
    Ids,          \* K, the values of the keys
    MaxItems,     \* bound: items per stream
    QueueSize     \* slots of an input queue

ASSUME ZipAssumption == IsFiniteSet(Ids) /\ MaxItems \in Nat /\ QueueSize \in Nat \ {0}

Ports == {1, 2}
Other(port) == 3 - port

VARIABLES
    stream,     \* the keys of the items of each port, in order
    pushed,     \* items the feeding kernel of each port has pushed
    popped,     \* items Zip has popped from each port
    waiting,    \* _i1_map and _i2_map: from keys to items
    out,        \* history: the pairs pushed to "out"
    block       \* the part of run() that is next: that of in_1 or of in_2

zip_vars == <<stream, pushed, popped, waiting, out, block>>

Items(port) == [port : {port}, pos : 1 .. MaxItems]
Id(i) == stream[i.port][i.pos]

\* The entry of a map that an iterator points to, std::pair<const K, I>.
Entry(i) == [key |-> Id(i), value |-> i]

Extended(map, k, i) == [j \in DOMAIN map \cup {k} |-> IF j \in DOMAIN map THEN map[j] ELSE i]
Without(map, k) == [j \in DOMAIN map \ {k} |-> map[j]]

ZipInit ==
    /\ stream \in [Ports -> UNION {[1 .. n -> Ids] : n \in 0 .. MaxItems}]
    /\ pushed = [p \in Ports |-> 0] /\ popped = [p \in Ports |-> 0]
    /\ waiting = [p \in Ports |-> [k \in {} |-> 0]]
    /\ out = <<>>
    /\ block = 1

\* A feeding kernel pushes its next item.
Feed(port) ==
    /\ pushed[port] < Len(stream[port])
    /\ pushed[port] - popped[port] < QueueSize
    /\ pushed' = [pushed EXCEPT ![port] = @ + 1]
    /\ UNCHANGED <<stream, popped, waiting, out, block>>

HasData(port) == popped[port] < pushed[port]

\* What the code pushes when item i, just popped, meets the entry of its
\* partner: the partner's whole map entry, not its value.
Pushed(i, partner) ==
    IF i.port = 1 THEN [first |-> i, second |-> Entry(partner)]
                  ELSE [first |-> Entry(partner), second |-> i]

\* Fault: the partner stays in its map.
MatchKeeps(i, partner) ==
    /\ out' = Append(out, Pushed(i, partner))
    /\ UNCHANGED waiting
\* The item just popped meets its partner in the map of the other port.
Match(i, partner) ==
    /\ out' = Append(out, Pushed(i, partner))
    /\ waiting' = [waiting EXCEPT ![Other(i.port)] = Without(@, Id(i))]

\* Fault: the item replaces one that waits under its key.
KeepReplaces(i) ==
    /\ waiting' = [waiting EXCEPT ![i.port] =
                       [k \in DOMAIN @ \cup {Id(i)} |-> IF k = Id(i) THEN i ELSE @[k]]]
    /\ UNCHANGED out

\* emplace: the item waits, unless one with its key does already; then it is
\* gone.
Keep(i) ==
    /\ waiting' = [waiting EXCEPT ![i.port] = Extended(@, Id(i), i)]
    /\ UNCHANGED out

\* Fault: the item is looked up in the map of its own port.
TakeOwnMap(port) ==
    LET i == [port |-> port, pos |-> popped[port] + 1]
        partners == waiting[port]
    IN  /\ popped' = [popped EXCEPT ![port] = @ + 1]
        /\ IF Id(i) \in DOMAIN partners THEN Match(i, partners[Id(i)]) ELSE Keep(i)

\* Pop an item and look for its partner.
Take(port) ==
    LET i == [port |-> port, pos |-> popped[port] + 1]
        partners == waiting[Other(port)]
    IN  /\ popped' = [popped EXCEPT ![port] = @ + 1]
        /\ IF Id(i) \in DOMAIN partners THEN Match(i, partners[Id(i)]) ELSE Keep(i)

\* Fault: run() returns after its first block.
BlockEndReturns(port) == 1

\* The block that follows that of a port.
BlockEnd(port) == Other(port)

\* The two blocks of run(): one item at most from each port.
Block(port) ==
    /\ block = port
    /\ port = 1 => HasData(1) \/ HasData(2)
    /\ IF HasData(port) THEN Take(port) ELSE UNCHANGED <<popped, waiting, out>>
    /\ block' = BlockEnd(port)
    /\ UNCHANGED <<stream, pushed>>

\* The feeding kernels have stopped and the queues are empty.
StreamsOver ==
    /\ block = 1
    /\ \A port \in Ports : popped[port] = Len(stream[port])
    /\ UNCHANGED zip_vars

ZipNext ==
    \/ \E port \in Ports : Feed(port) \/ Block(port)
    \/ StreamsOver

\* Every kernel has a thread, which runs.
ZipSpec ==
    /\ ZipInit
    /\ [][ZipNext]_zip_vars
    /\ \A port \in Ports : WF_zip_vars(Feed(port)) /\ WF_zip_vars(Block(port))
-----------------------------------------------------------------------------
(***************************************************************************)
(* Properties                                                              *)
(***************************************************************************)

\* The item that an object pushed to "out" holds in one of its places.
Item(x) == IF "value" \in DOMAIN x THEN x.value ELSE x
FirstItem(o) == Item(o.first)
SecondItem(o) == Item(o.second)

\* No partner is missed: a key never waits at both ports, whichever port was
\* served first, so what the maps hold has had no partner so far.
NeverBothWaiting == DOMAIN waiting[1] \cap DOMAIN waiting[2] = {}

\* A pair has one item of each port, with one key, and no item is in two pairs
\* or both in a pair and in a map.
PairedOnce ==
    /\ \A m \in DOMAIN out :
          /\ FirstItem(out[m]).port = 1 /\ SecondItem(out[m]).port = 2
          /\ Id(FirstItem(out[m])) = Id(SecondItem(out[m]))
    /\ \A m, n \in DOMAIN out : m # n =>
          FirstItem(out[m]) # FirstItem(out[n]) /\ SecondItem(out[m]) # SecondItem(out[n])
    /\ \A m \in DOMAIN out, k \in Ids :
          /\ k \in DOMAIN waiting[1] => waiting[1][k] # FirstItem(out[m])
          /\ k \in DOMAIN waiting[2] => waiting[2][k] # SecondItem(out[m])

InPair(i) == \E m \in DOMAIN out : i \in {FirstItem(out[m]), SecondItem(out[m])}
Waits(i) == Id(i) \in DOMAIN waiting[i.port] /\ waiting[i.port][Id(i)] = i
Taken == UNION {{i \in Items(port) : i.pos <= popped[port]} : port \in Ports}

\* An item that was taken is in a pair or in a map; only one whose key an
\* earlier item of its port had can vanish, never the first of its key.  (That the
\* earlier one was still waiting when it came is not said.)
OnlyRepeatsVanish ==
    \A i \in Taken : InPair(i) \/ Waits(i) \/
        \E j \in Taken : j.port = i.port /\ j.pos < i.pos /\ Id(j) = Id(i)

\* What becomes of an item: it is paired once, waits, or vanishes as the repeat
\* of one that was there before.
ItemsAccounted == PairedOnce /\ OnlyRepeatsVanish

\* Zip takes all that its ports get, and so neither feeding kernel stays
\* blocked, however much longer than the other stream its own is.
StreamsDrained == <>(\A port \in Ports : popped[port] = Len(stream[port]))

\* What the README's table of kernels says: the output of Zip is a pair of an
\* I1 and an I2.
OutputIsPair ==
    \A m \in DOMAIN out : out[m].first \in Items(1) /\ out[m].second \in Items(2)
=============================================================================
