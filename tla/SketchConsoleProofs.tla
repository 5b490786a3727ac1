------------------------ MODULE SketchConsoleProofs -------------------------
(***************************************************************************)
(* Proofs of SketchConsole's safety properties for all values of its       *)
(* constants.                                                              *)
(***************************************************************************)
EXTENDS SketchConsole, SequenceTheorems, TLAPS

(* The bytes of a ring or queue. *)
Elems(s) == {s[i] : i \in DOMAIN s}

(* What the number of an epoch or an opening says of another. *)
Numbers ==
    /\ backend.generation = tenure /\ observed.generation <= tenure
    /\ ack <= epoch /\ epoch1 <= epoch
    /\ began <= tenure /\ \A t \in seen : t <= tenure
    /\ \A t \in Elems(toSketch) : t <= tenure
    /\ held <= tenure

(* poll() acts on the owner it has observed, and an observed opening that  *)
(* is still open is the present one.                                       *)
Observation ==
    /\ observed.generation = tenure /\ backend.active => observed = Seen
    /\ pc0 \in {"compare", "purge", "inputOn", "outputOn", "outgoing", "incoming", "push"}
         => observed = Seen
    /\ pc0 \in {"purge", "inputOn", "outputOn", "outgoing", "incoming", "push"}
         => backend.active
    /\ pc0 \in {"inputOff", "outputOff", "bump"} => stopping \/ observed # Seen
    /\ stopping => ~backend.active /\ pc1 = "between"
                   /\ pc0 \in {"inputOff", "outputOff", "bump", "discard"}

(* The console is on only for an acknowledged epoch. *)
Switches ==
    /\ inputOn \/ outputOn => ack = epoch
    /\ outputOn /\ pc0 # "outputOff" => inputOn
    /\ pc0 \in {"purge", "inputOn", "outputOn", "outgoing", "incoming", "push"}
         => ack = epoch
    /\ pc0 \in {"outputOff", "bump"} => ~inputOn
    /\ pc0 = "bump" => ~outputOn
    /\ pc0 \in {"purge", "inputOn", "outputOn"} => ~outputOn
    /\ pc0 \in {"outputOn", "outgoing", "incoming", "push"} => inputOn
    /\ pc0 \in {"outgoing", "incoming", "push"} => outputOn

(* Core 1 acknowledges epochs in order. *)
Acknowledgement ==
    /\ pc1 \in {"boundary", "drain", "acknowledge"} => ack <= epoch1
    /\ pc1 \in {"drain", "acknowledge"} => ack < epoch1
    /\ pc1 = "acknowledge" => toSketch = <<>>
    /\ pc1 \in {"readPop", "recheckEpoch", "recheckOn"} => ack = epoch1

(* A host byte on core 1's side: of the observed owner as long as the      *)
(* epoch is acknowledged, and of no present owner once input is cut off.   *)
Sound(t) ==
    /\ ack = epoch => t = observed.generation
    /\ ack # epoch \/ ~inputOn => Stale(t)

InLoop == pc1 \in {"loop", "write", "readOn", "readAck", "readPop",
                   "recheckEpoch", "recheckOn"}

Input ==
    /\ \A t \in Elems(backend.rx) : t = tenure
    /\ pc0 = "push" => \A t \in Elems(carry) : t = tenure
    /\ pc0 = "push" => Len(carry) + Len(toSketch) <= RingBytes
    /\ \A t \in Elems(toSketch) : Sound(t)
    /\ pc1 \in {"recheckEpoch", "recheckOn"} => Sound(held)
    /\ pc0 # "fault"

(* A loop call of an acknowledged epoch began under the observed owner, or *)
(* a later one, and has read that owner's bytes only.                      *)
Loop ==
    /\ InLoop /\ ack = epoch => /\ observed.generation <= began
                                /\ \A t \in seen : t = observed.generation
    /\ \A t, u \in seen : t = u

(* An output byte that core 0 may deliver was written under the observed   *)
(* owner or a later one.                                                   *)
Output ==
    /\ outputOn \/ pc0 \in {"inputOn", "outputOn"} =>
           \A b \in Elems(fromSketch) : b # {} /\ \A t \in b : observed.generation <= t
    /\ \A b \in Elems(fromSketch) : \A t \in b : t <= tenure
    /\ \A b \in Elems(backend.tx) : b = {tenure}

IndInv == /\ TypeOK /\ Numbers /\ Observation /\ Switches /\ Acknowledgement
          /\ Input /\ Loop /\ Output
-----------------------------------------------------------------------------
(* Rings and queues: what the sequence operators do to length and bytes.   *)

(* The first n bytes, which pop and read_from_host return. *)
LEMMA TakeFacts ==
    ASSUME NEW S, NEW s \in Seq(S), NEW n \in 0 .. Len(s)
    PROVE  /\ Take(s, n) \in Seq(S) /\ Len(Take(s, n)) = n
           /\ Elems(Take(s, n)) \subseteq Elems(s)
<1>1. /\ Take(s, n) \in Seq(S) /\ Len(Take(s, n)) = n
      /\ \A i \in 1 .. n : Take(s, n)[i] = s[i]
  BY DEF Take
<1>2. DOMAIN Take(s, n) = 1 .. n /\ DOMAIN s = 1 .. Len(s)
  BY <1>1
<1> QED
  BY <1>1, <1>2 DEF Elems

(* What stays behind in the ring or queue. *)
LEMMA DropFacts ==
    ASSUME NEW S, NEW s \in Seq(S), NEW n \in 0 .. Len(s)
    PROVE  /\ Drop(s, n) \in Seq(S) /\ Len(Drop(s, n)) = Len(s) - n
           /\ Elems(Drop(s, n)) \subseteq Elems(s)
<1>1. /\ Drop(s, n) \in Seq(S) /\ Len(Drop(s, n)) = Len(s) - n
      /\ \A i \in 1 .. Len(s) - n : Drop(s, n)[i] = s[n + i]
  BY DEF Drop
<1>2. DOMAIN Drop(s, n) = 1 .. Len(s) - n /\ DOMAIN s = 1 .. Len(s)
  BY <1>1
<1>3. \A i \in 1 .. Len(s) - n : n + i \in 1 .. Len(s)
  OBVIOUS
<1> QED
  BY <1>1, <1>2, <1>3, Zenon DEF Elems

(* push of several bytes at once. *)
LEMMA ConcatFacts ==
    ASSUME NEW S, NEW s \in Seq(S), NEW t \in Seq(S)
    PROVE  /\ s \o t \in Seq(S) /\ Len(s \o t) = Len(s) + Len(t)
           /\ Elems(s \o t) = Elems(s) \cup Elems(t)
<1>1. /\ s \o t \in Seq(S) /\ Len(s \o t) = Len(s) + Len(t)
      /\ \A i \in 1 .. Len(s) + Len(t) :
             (s \o t)[i] = IF i <= Len(s) THEN s[i] ELSE t[i - Len(s)]
  BY ConcatProperties
<1>2. /\ DOMAIN (s \o t) = 1 .. Len(s) + Len(t)
      /\ DOMAIN s = 1 .. Len(s) /\ DOMAIN t = 1 .. Len(t)
  BY <1>1
<1>3. ASSUME NEW x \in Elems(s) PROVE x \in Elems(s \o t)
  <2>1. PICK i \in 1 .. Len(s) : x = s[i]
    BY <1>2 DEF Elems
  <2>2. i \in 1 .. Len(s) + Len(t) /\ (s \o t)[i] = x
    BY <2>1, <1>1
  <2> QED
    BY <2>2, <1>2 DEF Elems
<1>4. ASSUME NEW x \in Elems(t) PROVE x \in Elems(s \o t)
  <2>1. PICK i \in 1 .. Len(t) : x = t[i]
    BY <1>2 DEF Elems
  <2>2. Len(s) + i \in 1 .. Len(s) + Len(t) /\ (s \o t)[Len(s) + i] = x
    BY <2>1, <1>1
  <2> QED
    BY <2>2, <1>2 DEF Elems
<1>5. ASSUME NEW x \in Elems(s \o t) PROVE x \in Elems(s) \cup Elems(t)
  <2>1. PICK i \in 1 .. Len(s) + Len(t) : x = (s \o t)[i]
    BY <1>2 DEF Elems
  <2>2. CASE i <= Len(s)
    BY <2>1, <2>2, <1>1, <1>2 DEF Elems
  <2>3. CASE i > Len(s)
    <3>1. i - Len(s) \in 1 .. Len(t) /\ x = t[i - Len(s)]
      BY <2>1, <2>3, <1>1
    <3> QED
      BY <3>1, <1>2 DEF Elems
  <2> QED
    BY <2>1, <2>2, <2>3
<1> QED
  BY <1>1, <1>3, <1>4, <1>5

(* push of one byte. *)
LEMMA AppendFacts ==
    ASSUME NEW S, NEW s \in Seq(S), NEW x \in S
    PROVE  /\ Append(s, x) \in Seq(S) /\ Len(Append(s, x)) = Len(s) + 1
           /\ Elems(Append(s, x)) \subseteq Elems(s) \cup {x}
<1>1. /\ Append(s, x) \in Seq(S) /\ Len(Append(s, x)) = Len(s) + 1
      /\ \A i \in 1 .. Len(s) : Append(s, x)[i] = s[i]
      /\ Append(s, x)[Len(s) + 1] = x
  OBVIOUS
<1>2. DOMAIN Append(s, x) = 1 .. Len(s) + 1 /\ DOMAIN s = 1 .. Len(s)
  BY <1>1
<1> QED
  BY <1>1, <1>2 DEF Elems

(* pop of one byte. *)
LEMMA TailFacts ==
    ASSUME NEW S, NEW s \in Seq(S), s # <<>>
    PROVE  /\ Head(s) \in Elems(s) /\ Head(s) \in S
           /\ Tail(s) \in Seq(S) /\ Len(Tail(s)) = Len(s) - 1
           /\ Elems(Tail(s)) \subseteq Elems(s)
<1>1. /\ Len(s) \in Nat /\ Len(s) >= 1 /\ Head(s) = s[1] /\ Tail(s) \in Seq(S)
      /\ Len(Tail(s)) = Len(s) - 1
      /\ \A i \in 1 .. Len(s) - 1 : Tail(s)[i] = s[i + 1]
  BY HeadTailProperties, EmptySeq
<1>2. DOMAIN Tail(s) = 1 .. Len(s) - 1 /\ DOMAIN s = 1 .. Len(s)
  BY <1>1
<1>3. 1 \in 1 .. Len(s) /\ \A i \in 1 .. Len(s) - 1 : i + 1 \in 1 .. Len(s)
  BY <1>1
<1>4. s[1] \in S
  BY <1>3, ElementOfSeq
<1> QED
  BY <1>1, <1>2, <1>3, <1>4 DEF Elems

(* An emptied ring. *)
LEMMA EmptyFacts ==
    /\ \A S : <<>> \in Seq(S)
    /\ Len(<<>>) = 0 /\ Elems(<<>>) = {}
  BY DEF Elems

(* TypeOK, one part of the state at a time. *)
EndpointTypes ==
    /\ backend \in [active : BOOLEAN, owner : Owners \cup {0},
                    generation : Tenures, rx : Seq(Tenures),
                    tx : Seq(SUBSET Tenures)]
    /\ tenure \in Tenures
    /\ Len(backend.rx) <= QueueBytes /\ Len(backend.tx) <= QueueBytes

WordTypes ==
    /\ epoch \in Nat /\ ack \in Nat /\ inputOn \in BOOLEAN /\ outputOn \in BOOLEAN

RingTypes ==
    /\ toSketch \in Seq(Tenures) /\ Len(toSketch) <= RingBytes
    /\ fromSketch \in Seq(SUBSET Tenures) /\ Len(fromSketch) <= RingBytes

Core0Types ==
    /\ pc0 \in {"network", "inputOff", "outputOff", "bump", "compare", "discard",
                "purge", "inputOn", "outputOn", "outgoing", "incoming", "push", "fault"}
    /\ stopping \in BOOLEAN /\ carry \in Seq(Tenures) /\ stops \in 0 .. MaxStops
    /\ observed \in [active : BOOLEAN, owner : Owners \cup {0}, generation : Tenures]

Core1Types ==
    /\ pc1 \in {"between", "boundary", "drain", "acknowledge", "enter", "loop", "write",
                "readOn", "readAck", "readPop", "recheckEpoch", "recheckOn"}
    /\ epoch1 \in Nat /\ held \in Tenures /\ began \in Tenures
    /\ seen \in SUBSET Tenures

(* TypeOK is the conjunction of its parts. *)
LEMMA TypeParts ==
    TypeOK <=> EndpointTypes /\ WordTypes /\ RingTypes /\ Core0Types /\ Core1Types
  BY DEF TypeOK, EndpointTypes, WordTypes, RingTypes, Core0Types, Core1Types

(* What the other conjuncts need of the types. *)
LEMMA TypeFacts ==
    ASSUME TypeOK
    PROVE  /\ backend = [active |-> backend.active, owner |-> backend.owner,
                         generation |-> backend.generation,
                         rx |-> backend.rx, tx |-> backend.tx]
           /\ observed = [active |-> observed.active, owner |-> observed.owner,
                          generation |-> observed.generation]
           /\ backend.active \in BOOLEAN /\ observed.active \in BOOLEAN
           /\ tenure \in Nat /\ backend.generation \in Nat /\ observed.generation \in Nat
           /\ epoch \in Nat /\ ack \in Nat /\ epoch1 \in Nat
           /\ held \in Nat /\ began \in Nat /\ seen \subseteq Nat
           /\ inputOn \in BOOLEAN /\ outputOn \in BOOLEAN /\ stopping \in BOOLEAN
           /\ Len(carry) \in Nat /\ Len(toSketch) \in Nat
<1>1. Tenures \subseteq Nat
  BY ConsoleAssumption DEF Tenures
<1>2. /\ backend = [active |-> backend.active, owner |-> backend.owner,
                    generation |-> backend.generation,
                    rx |-> backend.rx, tx |-> backend.tx]
      /\ backend.active \in BOOLEAN /\ backend.generation \in Tenures
  BY DEF TypeOK
<1>3. /\ observed = [active |-> observed.active, owner |-> observed.owner,
                     generation |-> observed.generation]
      /\ observed.active \in BOOLEAN /\ observed.generation \in Tenures
  BY DEF TypeOK
<1>4. Len(carry) \in Nat /\ Len(toSketch) \in Nat
  BY DEF TypeOK
<1> QED
  BY <1>1, <1>2, <1>3, <1>4, Zenon DEF TypeOK

(* The bytes of a sequence over S are in S. *)
LEMMA ElemsIn ==
    ASSUME NEW S, NEW s \in Seq(S)
    PROVE  Elems(s) \subseteq S
  BY DEF Elems

(* What the rings and queues hold: openings, and sets of openings. *)
LEMMA ByteTypes ==
    ASSUME TypeOK
    PROVE  /\ Elems(backend.rx) \subseteq Tenures /\ Elems(carry) \subseteq Tenures
           /\ Elems(toSketch) \subseteq Tenures
           /\ Elems(fromSketch) \subseteq SUBSET Tenures
           /\ Elems(backend.tx) \subseteq SUBSET Tenures
  BY ElemsIn DEF TypeOK

-----------------------------------------------------------------------------
(* The steps that move bytes.                                              *)

(* std::min of two sizes. *)
LEMMA SmallerFacts ==
    ASSUME NEW m \in Nat, NEW n \in Nat
    PROVE  /\ Smaller(m, n) \in 0 .. m /\ Smaller(m, n) <= n
           /\ Smaller(Smaller(m, n), n) = Smaller(m, n)
<1>1. CASE m < n
  BY <1>1 DEF Smaller
<1>2. CASE ~(m < n)
  BY <1>2 DEF Smaller
<1> QED
  BY <1>1, <1>2

(* One host byte into rx_. *)
LEMMA HostWriteFacts ==
    ASSUME TypeOK, HostWrite
    PROVE  /\ backend' = [backend EXCEPT !.rx = backend'.rx]
           /\ backend'.rx \in Seq(Tenures) /\ Len(backend'.rx) <= QueueBytes
           /\ Elems(backend'.rx) \subseteq Elems(backend.rx) \cup {tenure}
<1>1. backend.rx \in Seq(Tenures) /\ tenure \in Tenures /\ Len(backend.rx) \in Nat
  BY DEF TypeOK
<1>2. backend'.rx = Append(backend.rx, tenure)
  BY DEF HostWrite, TypeOK
<1>3. backend' = [backend EXCEPT !.rx = backend'.rx]
  BY <1>2 DEF HostWrite
<1>4. Len(backend.rx) < QueueBytes
  BY DEF HostWrite
<1> QED
  BY <1>1, <1>2, <1>3, <1>4, AppendFacts, ConsoleAssumption

(* One sketch byte out of tx_. *)
LEMMA HostReadFacts ==
    ASSUME TypeOK, HostRead
    PROVE  /\ backend' = [backend EXCEPT !.tx = backend'.tx]
           /\ backend'.tx \in Seq(SUBSET Tenures) /\ Len(backend'.tx) <= QueueBytes
           /\ Elems(backend'.tx) \subseteq Elems(backend.tx)
<1>1. backend.tx \in Seq(SUBSET Tenures) /\ Len(backend.tx) \in Nat
      /\ backend.tx # <<>> /\ Len(backend.tx) <= QueueBytes
  BY DEF TypeOK, HostRead
<1>2. backend'.tx = Tail(backend.tx)
  BY DEF HostRead, TypeOK
<1>3. backend' = [backend EXCEPT !.tx = backend'.tx]
  BY <1>2 DEF HostRead
<1> QED
  BY <1>1, <1>2, <1>3, TailFacts, ConsoleAssumption

(* poll()'s first move: what is popped for the endpoint fits there. *)
LEMMA OutgoingFacts ==
    ASSUME TypeOK, Outgoing
    PROVE  /\ backend' = [backend EXCEPT !.tx = backend'.tx] /\ pc0' = "incoming"
           /\ backend'.tx \in Seq(SUBSET Tenures) /\ Len(backend'.tx) <= QueueBytes
           /\ Elems(backend'.tx) \subseteq Elems(backend.tx) \cup Elems(fromSketch)
           /\ fromSketch' \in Seq(SUBSET Tenures) /\ Len(fromSketch') <= RingBytes
           /\ Elems(fromSketch') \subseteq Elems(fromSketch)
<1> DEFINE n == Smaller(Len(fromSketch), QueueBytes - Len(backend.tx))
<1>1. /\ backend.tx \in Seq(SUBSET Tenures) /\ fromSketch \in Seq(SUBSET Tenures)
      /\ Len(backend.tx) \in Nat /\ Len(backend.tx) <= QueueBytes
      /\ Len(fromSketch) \in Nat /\ Len(fromSketch) <= RingBytes
  BY DEF TypeOK
<1>2. /\ n \in 0 .. Len(fromSketch) /\ n <= QueueBytes - Len(backend.tx)
      /\ Smaller(n, QueueBytes - Len(backend.tx)) = n
  <2>1. QueueBytes - Len(backend.tx) \in Nat
    BY <1>1, ConsoleAssumption
  <2> QED
    BY <2>1, <1>1, SmallerFacts, Zenon
<1>3. /\ pc0' = "incoming" /\ fromSketch' = Drop(fromSketch, n)
      /\ backend' = [backend EXCEPT !.tx = @ \o Take(fromSketch, n)]
  BY <1>2, Zenon DEF Outgoing
<1> HIDE DEF n
<1>4. backend'.tx = backend.tx \o Take(fromSketch, n)
  BY <1>3 DEF TypeOK
<1>5. /\ Take(fromSketch, n) \in Seq(SUBSET Tenures) /\ Len(Take(fromSketch, n)) = n
      /\ Elems(Take(fromSketch, n)) \subseteq Elems(fromSketch)
  BY <1>1, <1>2, TakeFacts
<1>6. /\ Drop(fromSketch, n) \in Seq(SUBSET Tenures)
      /\ Len(Drop(fromSketch, n)) = Len(fromSketch) - n
      /\ Elems(Drop(fromSketch, n)) \subseteq Elems(fromSketch)
  BY <1>1, <1>2, DropFacts
<1>7. /\ backend'.tx \in Seq(SUBSET Tenures) /\ Len(backend'.tx) = Len(backend.tx) + n
      /\ Elems(backend'.tx) = Elems(backend.tx) \cup Elems(Take(fromSketch, n))
  <2> DEFINE moved == Take(fromSketch, n)
             kept == backend.tx
  <2>1. moved \in Seq(SUBSET Tenures) /\ kept \in Seq(SUBSET Tenures) /\ Len(moved) = n
    BY <1>1, <1>5
  <2> HIDE DEF moved, kept
  <2>2. /\ kept \o moved \in Seq(SUBSET Tenures) /\ Len(kept \o moved) = Len(kept) + n
        /\ Elems(kept \o moved) = Elems(kept) \cup Elems(moved)
    BY <2>1, ConcatFacts
  <2> QED
    BY <2>2, <1>4 DEF moved, kept
<1>8. backend' = [backend EXCEPT !.tx = backend'.tx]
  BY <1>3, <1>4
<1>9. Len(backend'.tx) <= QueueBytes /\ Len(fromSketch') <= RingBytes
  BY <1>1, <1>2, <1>3, <1>6, <1>7, ConsoleAssumption, SMTT(30)
<1> QED
  BY <1>3, <1>5, <1>6, <1>7, <1>8, <1>9

(* poll()'s second move: no more than the ring has room for. *)
LEMMA IncomingFacts ==
    ASSUME TypeOK, Incoming
    PROVE  /\ backend' = [backend EXCEPT !.rx = backend'.rx] /\ pc0' = "push"
           /\ backend'.rx \in Seq(Tenures) /\ Len(backend'.rx) <= QueueBytes
           /\ Elems(backend'.rx) \subseteq Elems(backend.rx)
           /\ carry' \in Seq(Tenures) /\ Elems(carry') \subseteq Elems(backend.rx)
           /\ Len(carry') + Len(toSketch) <= RingBytes
<1> DEFINE n == Smaller(Len(backend.rx), FreeSpace)
<1>1. /\ backend.rx \in Seq(Tenures) /\ Len(backend.rx) \in Nat
      /\ Len(backend.rx) <= QueueBytes
      /\ Len(toSketch) \in Nat /\ Len(toSketch) <= RingBytes
  BY DEF TypeOK
<1>2. n \in 0 .. Len(backend.rx) /\ n + Len(toSketch) <= RingBytes
  BY <1>1, ConsoleAssumption DEF Smaller, FreeSpace
<1>3. /\ pc0' = "push" /\ carry' = Take(backend.rx, n)
      /\ backend' = [backend EXCEPT !.rx = Drop(@, n)]
  BY DEF Incoming
<1>4. backend'.rx = Drop(backend.rx, n)
  BY <1>3 DEF TypeOK
<1>5. /\ carry' \in Seq(Tenures) /\ Len(carry') = n
      /\ Elems(carry') \subseteq Elems(backend.rx)
  BY <1>1, <1>2, <1>3, TakeFacts
<1>6. /\ backend'.rx \in Seq(Tenures) /\ Len(backend'.rx) = Len(backend.rx) - n
      /\ Elems(backend'.rx) \subseteq Elems(backend.rx)
  BY <1>1, <1>2, <1>4, DropFacts, Zenon
<1>7. backend' = [backend EXCEPT !.rx = backend'.rx]
  BY <1>3, <1>4
<1>8. Len(backend'.rx) <= QueueBytes
  BY <1>1, <1>2, <1>6, ConsoleAssumption
<1> QED
  BY <1>2, <1>3, <1>5, <1>6, <1>7, <1>8

(* What fits is pushed whole. *)
LEMMA PushFacts ==
    ASSUME TypeOK, Push
    PROVE  /\ toSketch' \in Seq(Tenures) /\ Len(toSketch') <= RingBytes
           /\ Elems(toSketch') \subseteq Elems(toSketch) \cup Elems(carry)
           /\ pc0' \in {"network", "fault"}
           /\ Len(carry) + Len(toSketch) <= RingBytes => pc0' = "network"
<1> DEFINE n == Smaller(Len(carry), RingBytes - Len(toSketch))
<1>1. /\ toSketch \in Seq(Tenures) /\ carry \in Seq(Tenures)
      /\ Len(carry) \in Nat /\ Len(toSketch) \in Nat /\ Len(toSketch) <= RingBytes
  BY DEF TypeOK
<1>2. /\ n \in 0 .. Len(carry) /\ n + Len(toSketch) <= RingBytes
      /\ Len(carry) + Len(toSketch) <= RingBytes => n = Len(carry)
  BY <1>1, ConsoleAssumption DEF Smaller
<1>3. /\ toSketch' = toSketch \o Take(carry, n)
      /\ pc0' = IF n = Len(carry) THEN "network" ELSE "fault"
  BY DEF Push
<1> HIDE DEF n
<1>4. /\ Take(carry, n) \in Seq(Tenures) /\ Len(Take(carry, n)) = n
      /\ Elems(Take(carry, n)) \subseteq Elems(carry)
  BY <1>1, <1>2, TakeFacts
<1>5. /\ toSketch' \in Seq(Tenures) /\ Len(toSketch') = Len(toSketch) + n
      /\ Elems(toSketch') = Elems(toSketch) \cup Elems(Take(carry, n))
  <2> DEFINE moved == Take(carry, n)
  <2>1. moved \in Seq(Tenures) /\ Len(moved) = n
    BY <1>4
  <2> HIDE DEF moved
  <2>2. /\ toSketch \o moved \in Seq(Tenures) /\ Len(toSketch \o moved) = Len(toSketch) + n
        /\ Elems(toSketch \o moved) = Elems(toSketch) \cup Elems(moved)
    BY <2>1, <1>1, ConcatFacts, SMTT(30)
  <2> QED
    BY <2>2, <1>3 DEF moved
<1>6. Len(toSketch') <= RingBytes
  BY <1>1, <1>2, <1>5, ConsoleAssumption
<1> QED
  BY <1>2, <1>3, <1>4, <1>5, <1>6

(* sketch_write's byte carries the openings its loop call belongs to. *)
LEMMA WriteFacts ==
    ASSUME TypeOK, Write
    PROVE  /\ fromSketch' \in Seq(SUBSET Tenures) /\ Len(fromSketch') <= RingBytes
           /\ Elems(fromSketch') \subseteq Elems(fromSketch) \cup {{began} \cup seen}
<1>1. /\ fromSketch \in Seq(SUBSET Tenures) /\ {began} \cup seen \in SUBSET Tenures
      /\ Len(fromSketch) \in Nat /\ Len(fromSketch) <= RingBytes
  BY DEF TypeOK
<1>2. CASE ~Room
  BY <1>1, <1>2 DEF Write
<1>3. CASE Room
  <2>1. fromSketch' = Append(fromSketch, {began} \cup seen) /\ Len(fromSketch) < RingBytes
    BY <1>3 DEF Write, Room
  <2> QED
    BY <2>1, <1>1, AppendFacts, ConsoleAssumption
<1> QED
  BY <1>2, <1>3

(* sketch_read takes the ring's first byte, if there is one. *)
LEMMA ReadPopFacts ==
    ASSUME TypeOK, ReadPop
    PROVE  /\ toSketch' \in Seq(Tenures) /\ Len(toSketch') <= Len(toSketch)
           /\ Len(toSketch') \in Nat /\ Len(toSketch) \in Nat
           /\ Elems(toSketch') \subseteq Elems(toSketch)
           /\ \/ held' \in Elems(toSketch) /\ held' \in Tenures /\ pc1' = "recheckEpoch"
              \/ held' = held /\ pc1' = "loop"
<1>1. toSketch \in Seq(Tenures) /\ Len(toSketch) \in Nat
  BY DEF TypeOK
<1>2. CASE toSketch = <<>>
  BY <1>1, <1>2 DEF ReadPop, ReadStep
<1>3. CASE toSketch # <<>>
  <2>1. held' = Head(toSketch) /\ toSketch' = Tail(toSketch) /\ pc1' = "recheckEpoch"
    BY <1>3 DEF ReadPop, ReadStep
  <2> QED
    BY <2>1, <1>1, <1>3, TailFacts
<1> QED
  BY <1>2, <1>3

(* Types of the endpoint, by every step. *)
LEMMA EndpointTypesStep == IndInv /\ Next => EndpointTypes'
<1> SUFFICES ASSUME IndInv, Next PROVE EndpointTypes'
  BY Zenon
<1> DEFINE others == Poll \/ InputOff \/ OutputOff \/ Bump \/ Compare \/ Discard \/
      Purge \/ InputOn \/ OutputOn \/ Push \/ BoundaryLoad \/ BoundaryTest \/ Drain \/
      Acknowledge \/ Enter \/ WriteTest \/ Write \/ ReadEpoch \/ ReadOn \/ ReadAck \/
      ReadPop \/ RecheckEpoch \/ RecheckOn \/ Return
<1>1. others => UNCHANGED <<backend, tenure>>
  BY DEF Poll, InputOff, OutputOff, Bump, Compare, Discard, Purge, InputOn, OutputOn,
    Push, BoundaryLoad, BoundaryTest, Drain, Acknowledge, Enter, WriteTest, Write,
    ReadEpoch, ReadOn, ReadAck, ReadPop, RecheckEpoch, RecheckOn, Return, ReadStep,
    endpoint, core0, core1, words, rings
<1>2. /\ TypeOK /\ Numbers
      /\ EndpointTypes /\ WordTypes /\ RingTypes /\ Core0Types /\ Core1Types
  BY TypeParts DEF IndInv
<1> USE <1>2, ConsoleAssumption DEF Tenures, EndpointTypes, Numbers, endpoint, core0,
      core1, words, rings
<1>3. ASSUME NEW o \in Owners, Open(o) PROVE EndpointTypes'
  BY <1>3, EmptyFacts DEF Open, NextGeneration
<1>4. CASE Close
  <2>1. /\ backend' = [backend EXCEPT !.rx = <<>>, !.tx = <<>>, !.active = FALSE, !.owner = 0]
        /\ UNCHANGED <<tenure>>
    BY <1>4, Zenon DEF Close
  <2>2. backend'.rx = <<>> /\ backend'.tx = <<>>
    BY <2>1
  <2>3. backend' \in [active : BOOLEAN, owner : Owners \cup {0},
                      generation : Tenures, rx : Seq(Tenures),
                      tx : Seq(SUBSET Tenures)]
    BY <2>1, EmptyFacts, Zenon
  <2>4. Len(backend'.rx) <= QueueBytes /\ Len(backend'.tx) <= QueueBytes
    BY <2>2, EmptyFacts
  <2> QED
    BY <2>1, <2>3, <2>4
<1>5. CASE HostWrite
  BY <1>5, HostWriteFacts, Zenon DEF HostWrite
<1>6. CASE HostRead
  BY <1>6, HostReadFacts, Zenon DEF HostRead
<1>7. CASE Outgoing
  BY <1>7, OutgoingFacts, Zenon DEF Outgoing, Smaller
<1>8. CASE Incoming
  BY <1>8, IncomingFacts, Zenon DEF Incoming, FreeSpace, Smaller
<1>9. CASE Stop
  <2>1. /\ backend' = [backend EXCEPT !.rx = <<>>, !.tx = <<>>]
        /\ UNCHANGED <<tenure>>
    BY <1>9 DEF Stop
  <2>2. backend'.rx = <<>> /\ backend'.tx = <<>>
    BY <2>1
  <2>3. backend' \in [active : BOOLEAN, owner : Owners \cup {0},
                      generation : Tenures, rx : Seq(Tenures),
                      tx : Seq(SUBSET Tenures)]
    BY <2>1, EmptyFacts, Zenon
  <2>4. Len(backend'.rx) <= QueueBytes /\ Len(backend'.tx) <= QueueBytes
    BY <2>2, EmptyFacts
  <2> QED
    BY <2>1, <2>3, <2>4
<1>10. CASE others
  <2> HIDE DEF others
  <2> QED
    BY <1>1, <1>10
<1> HIDE <1>2, ConsoleAssumption DEF Tenures, EndpointTypes, Numbers, endpoint, core0,
      core1, words, rings
<1> QED
  BY <1>3, <1>4, <1>5, <1>6, <1>7, <1>8, <1>9, <1>10 DEF Next, Network, PollSteps,
    Boundary, SketchCalls

(* Types of the shared words. *)
LEMMA WordTypesStep == IndInv /\ Next => WordTypes'
<1> SUFFICES ASSUME IndInv, Next PROVE WordTypes'
  OBVIOUS
<1> DEFINE others == (\E o \in Owners : Open(o)) \/ Close \/ HostWrite \/ HostRead \/
      Poll \/ Compare \/ Discard \/ Purge \/ Outgoing \/ Incoming \/ Push \/ Stop \/
      BoundaryLoad \/ BoundaryTest \/ Drain \/ Enter \/ WriteTest \/ Write \/ ReadEpoch
      \/ ReadOn \/ ReadAck \/ ReadPop \/ RecheckEpoch \/ RecheckOn \/ Return
<1>1. others => UNCHANGED <<epoch, ack, inputOn, outputOn>>
  BY Zenon DEF Open, Close, HostWrite, HostRead, Poll, Compare, Discard, Purge, Outgoing,
    Incoming, Push, Stop, BoundaryLoad, BoundaryTest, Drain, Enter, WriteTest, Write,
    ReadEpoch, ReadOn, ReadAck, ReadPop, RecheckEpoch, RecheckOn, Return, ReadStep,
    endpoint, core0, core1, words, rings
<1>2. /\ TypeOK /\ Numbers
      /\ EndpointTypes /\ WordTypes /\ RingTypes /\ Core0Types /\ Core1Types
  BY TypeParts DEF IndInv
<1> USE <1>2, ConsoleAssumption DEF Tenures, WordTypes, Core1Types, endpoint, core0,
      core1, words, rings
<1>3. CASE InputOff
  BY <1>3, Zenon DEF InputOff
<1>4. CASE OutputOff
  BY <1>4, Zenon DEF OutputOff
<1>5. CASE Bump
  BY <1>5 DEF Bump, Seen
<1>6. CASE InputOn
  BY <1>6 DEF InputOn
<1>7. CASE OutputOn
  BY <1>7 DEF OutputOn
<1>8. CASE Acknowledge
  BY <1>8 DEF Acknowledge
<1>9. CASE others
  <2> HIDE DEF others
  <2> QED
    BY <1>1, <1>9
<1> HIDE <1>2, ConsoleAssumption DEF Tenures, WordTypes, Core1Types, endpoint, core0,
      core1, words, rings
<1> QED
  BY <1>3, <1>4, <1>5, <1>6, <1>7, <1>8, <1>9 DEF Next, Network, PollSteps, Boundary,
    SketchCalls

(* Types and capacity of the rings. *)
LEMMA RingTypesStep == IndInv /\ Next => RingTypes'
<1> SUFFICES ASSUME IndInv, Next PROVE RingTypes'
  OBVIOUS
<1> DEFINE others == (\E o \in Owners : Open(o)) \/ Close \/ HostWrite \/ HostRead \/
      Poll \/ InputOff \/ OutputOff \/ Bump \/ Compare \/ InputOn \/ OutputOn \/
      Incoming \/ Stop \/ BoundaryLoad \/ BoundaryTest \/ Acknowledge \/ Enter \/
      WriteTest \/ ReadEpoch \/ ReadOn \/ ReadAck \/ RecheckEpoch \/ RecheckOn \/ Return
<1>1. others => UNCHANGED <<toSketch, fromSketch>>
  BY DEF Open, Close, HostWrite, HostRead, Poll, InputOff, OutputOff, Bump, Compare,
    InputOn, OutputOn, Incoming, Stop, BoundaryLoad, BoundaryTest, Acknowledge, Enter,
    WriteTest, ReadEpoch, ReadOn, ReadAck, RecheckEpoch, RecheckOn, Return, ReadStep,
    endpoint, core0, core1, words, rings
<1>2. /\ TypeOK /\ Numbers
      /\ EndpointTypes /\ WordTypes /\ RingTypes /\ Core0Types /\ Core1Types
  BY TypeParts DEF IndInv
<1> USE <1>2, ConsoleAssumption DEF Tenures, RingTypes, endpoint, core0, core1, words,
      rings
<1>3. CASE Discard
  BY <1>3, EmptyFacts DEF Discard
<1>4. CASE Purge
  BY <1>4, EmptyFacts DEF Purge
<1>5. CASE Outgoing
  BY <1>5, OutgoingFacts DEF Outgoing, Smaller
<1>6. CASE Push
  BY <1>6, PushFacts, EmptyFacts DEF Push, Smaller
<1>7. CASE Drain
  BY <1>7, EmptyFacts DEF Drain
<1>8. CASE Write
  BY <1>8, WriteFacts DEF Write, Room
<1>9. CASE ReadPop
  BY <1>9, ReadPopFacts DEF ReadPop, ReadStep
<1>10. CASE others
  <2> HIDE DEF others
  <2> QED
    BY <1>1, <1>10
<1> HIDE <1>2, ConsoleAssumption DEF Tenures, RingTypes, endpoint, core0, core1, words,
      rings
<1> QED
  BY <1>3, <1>4, <1>5, <1>6, <1>7, <1>8, <1>9, <1>10, ZenonT(30) DEF Next, Network, PollSteps,
    Boundary, SketchCalls

(* Types of core 0's locals. *)
LEMMA Core0TypesStep == IndInv /\ Next => Core0Types'
<1> SUFFICES ASSUME IndInv, Next PROVE Core0Types'
  OBVIOUS
<1> DEFINE others == (\E o \in Owners : Open(o)) \/ Close \/ HostWrite \/ HostRead \/
      BoundaryLoad \/ BoundaryTest \/ Drain \/ Acknowledge \/ Enter \/ WriteTest \/
      Write \/ ReadEpoch \/ ReadOn \/ ReadAck \/ ReadPop \/ RecheckEpoch \/ RecheckOn
      \/ Return
<1>1. others => UNCHANGED <<pc0, stopping, carry, observed, stops>>
  BY DEF Open, Close, HostWrite, HostRead, BoundaryLoad, BoundaryTest, Drain,
    Acknowledge, Enter, WriteTest, Write, ReadEpoch, ReadOn, ReadAck, ReadPop,
    RecheckEpoch, RecheckOn, Return, ReadStep, endpoint, core0, core1, words, rings
<1>2. /\ TypeOK /\ Numbers
      /\ EndpointTypes /\ WordTypes /\ RingTypes /\ Core0Types /\ Core1Types
  BY TypeParts DEF IndInv
<1> USE <1>2, ConsoleAssumption DEF Tenures, Core0Types, EndpointTypes, endpoint,
      core0, core1, words, rings
<1>3. CASE Poll
  BY <1>3 DEF Poll, Seen
<1>4. CASE InputOff
  BY <1>4 DEF InputOff
<1>5. CASE OutputOff
  BY <1>5 DEF OutputOff
<1>6. CASE Bump
  BY <1>6 DEF Bump, Seen
<1>7. CASE Compare
  BY <1>7 DEF Compare
<1>8. CASE Discard
  BY <1>8, EmptyFacts, Zenon DEF Discard
<1>9. CASE Purge
  BY <1>9, EmptyFacts DEF Purge
<1>10. CASE InputOn
  BY <1>10 DEF InputOn
<1>11. CASE OutputOn
  BY <1>11 DEF OutputOn
<1>12. CASE Outgoing
  BY <1>12, OutgoingFacts DEF Outgoing, Smaller
<1>13. CASE Incoming
  BY <1>13, IncomingFacts DEF Incoming, FreeSpace, Smaller
<1>14. CASE Push
  BY <1>14, PushFacts, EmptyFacts DEF Push, Smaller
<1>15. CASE Stop
  BY <1>15, EmptyFacts, SMTT(30) DEF Stop
<1>16. CASE others
  <2> HIDE DEF others
  <2> QED
    BY <1>1, <1>16
<1> HIDE <1>2, ConsoleAssumption DEF Tenures, Core0Types, EndpointTypes, endpoint,
      core0, core1, words, rings
<1> QED
  BY ZenonT(30), <1>3, <1>4, <1>5, <1>6, <1>7, <1>8, <1>9, <1>10, <1>11, <1>12, <1>13, <1>14,
    <1>15, <1>16 DEF Next, Network, PollSteps, Boundary, SketchCalls

(* Types of core 1's locals. *)
LEMMA Core1TypesStep == IndInv /\ Next => Core1Types'
<1> SUFFICES ASSUME IndInv, Next PROVE Core1Types'
  OBVIOUS
<1> DEFINE others == (\E o \in Owners : Open(o)) \/ Close \/ HostWrite \/ HostRead \/
      Poll \/ InputOff \/ OutputOff \/ Bump \/ Compare \/ Discard \/ Purge \/ InputOn
      \/ OutputOn \/ Outgoing \/ Incoming \/ Push \/ Stop
<1>1. others => UNCHANGED <<pc1, epoch1, held, began, seen>>
  BY Zenon DEF Open, Close, HostWrite, HostRead, Poll, InputOff, OutputOff, Bump, Compare,
    Discard, Purge, InputOn, OutputOn, Outgoing, Incoming, Push, Stop, endpoint, core0,
    core1, words, rings
<1>2. /\ TypeOK /\ Numbers
      /\ EndpointTypes /\ WordTypes /\ RingTypes /\ Core0Types /\ Core1Types
  BY TypeParts DEF IndInv
<1> USE <1>2, ConsoleAssumption DEF Tenures, Core1Types, WordTypes, EndpointTypes,
      endpoint, core0, core1, words, rings
<1>3. CASE BoundaryLoad
  BY <1>3 DEF BoundaryLoad, Parked
<1>4. CASE BoundaryTest
  BY <1>4 DEF BoundaryTest, NewEpoch
<1>5. CASE Drain
  BY <1>5, EmptyFacts DEF Drain
<1>6. CASE Acknowledge
  BY <1>6, EmptyFacts DEF Acknowledge
<1>7. CASE Enter
  BY <1>7 DEF Enter
<1>8. CASE WriteTest
  BY <1>8 DEF WriteTest
<1>9. CASE Write
  BY <1>9, WriteFacts DEF Write, Room
<1>10. CASE ReadEpoch
  BY <1>10 DEF ReadEpoch, ReadStep
<1>11. CASE ReadOn
  BY <1>11 DEF ReadOn, ReadStep
<1>12. CASE ReadAck
  BY <1>12 DEF ReadAck, ReadStep
<1>13. CASE ReadPop
  BY <1>13, ReadPopFacts DEF ReadPop, ReadStep
<1>14. CASE RecheckEpoch
  BY <1>14 DEF RecheckEpoch, ReadStep
<1>15. CASE RecheckOn
  BY <1>15 DEF RecheckOn, StillOn, ReadStep
<1>16. CASE Return
  BY <1>16 DEF Return
<1>17. CASE others
  <2> HIDE DEF others
  <2> QED
    BY <1>1, <1>17, Zenon
<1> HIDE <1>2, ConsoleAssumption DEF Tenures, Core1Types, WordTypes, EndpointTypes,
      endpoint, core0, core1, words, rings
<1> QED
  BY <1>3, <1>4, <1>5, <1>6, <1>7, <1>8, <1>9, <1>10, <1>11, <1>12, <1>13, <1>14,
    <1>15, <1>16, <1>17 DEF Next, Network, PollSteps, Boundary, SketchCalls

(* Types, by every step. *)
LEMMA TypeStep == IndInv /\ Next => TypeOK'
<1>1. TypeOK' <=> EndpointTypes' /\ WordTypes' /\ RingTypes' /\ Core0Types' /\ Core1Types'
  BY DEF TypeOK, EndpointTypes, WordTypes, RingTypes, Core0Types, Core1Types
<1> QED
  BY <1>1, EndpointTypesStep, WordTypesStep, RingTypesStep, Core0TypesStep, Core1TypesStep


(* Epochs and openings stay in order. *)
LEMMA NumbersStep == IndInv /\ Next => Numbers'
<1> SUFFICES ASSUME IndInv, Next PROVE Numbers'
  BY ZenonT(30)
<1> DEFINE others == Poll \/ InputOff \/ OutputOff \/ Compare \/ Discard \/ Purge \/
      InputOn \/ OutputOn \/ BoundaryTest \/ WriteTest \/ Write \/ ReadOn \/ ReadAck \/
      RecheckEpoch \/ Return
<1>1. others => UNCHANGED <<backend, tenure, observed, ack, epoch, epoch1, began, seen,
      toSketch, held>>
  BY DEF Poll, InputOff, OutputOff, Compare, Discard, Purge, InputOn, OutputOn,
    BoundaryTest, WriteTest, Write, ReadOn, ReadAck, RecheckEpoch, Return, ReadStep,
    endpoint, core0, core1, words, rings
<1>2. TypeOK
  BY DEF IndInv
<1> USE ConsoleAssumption, TypeFacts, <1>2 DEF IndInv, Numbers, Input, endpoint, core0,
      core1, words, rings
<1>3. ASSUME NEW o \in Owners, Open(o) PROVE Numbers'
  BY <1>3, EmptyFacts, ByteTypes, SMTT(30) DEF Open, NextGeneration, Tenures
<1>4. CASE Close
  BY <1>4, EmptyFacts DEF Close
<1>5. CASE HostWrite
  BY <1>5, HostWriteFacts DEF HostWrite
<1>6. CASE HostRead
  BY <1>6, HostReadFacts DEF HostRead
<1>7. CASE Bump
  BY <1>7, SMTT(30) DEF Bump, Seen
<1>8. CASE Outgoing
  BY <1>8, OutgoingFacts DEF Outgoing, Smaller
<1>9. CASE Incoming
  BY <1>9, IncomingFacts DEF Incoming, FreeSpace, Smaller
<1>10. CASE Push
  BY <1>10, PushFacts, EmptyFacts DEF Push, Smaller
<1>11. CASE Stop
  BY <1>11, EmptyFacts DEF Stop
<1>12. CASE BoundaryLoad
  BY <1>12 DEF BoundaryLoad, Parked
<1>13. CASE Drain
  BY <1>13, EmptyFacts DEF Drain
<1>14. CASE Acknowledge
  BY <1>14, EmptyFacts DEF Acknowledge
<1>15. CASE Enter
  BY <1>15 DEF Enter
<1>16. CASE ReadEpoch
  BY <1>16 DEF ReadEpoch, ReadStep
<1>17. CASE ReadPop
  BY <1>17, ReadPopFacts, Zenon DEF ReadPop, ReadStep
<1>18. CASE RecheckOn
  BY <1>18 DEF RecheckOn, StillOn, ReadStep
<1>19. CASE others
  <2> HIDE DEF others
  <2> QED
    BY <1>1, <1>19
<1> HIDE ConsoleAssumption, TypeFacts, <1>2 DEF IndInv, Numbers, Input, endpoint,
      core0, core1, words, rings
<1> QED
  BY <1>3, <1>4, <1>5, <1>6, <1>7, <1>8, <1>9, <1>10, <1>11, <1>12, <1>13, <1>14,
    <1>15, <1>16, <1>17, <1>18, <1>19 DEF Next, Network, PollSteps, Boundary,
    SketchCalls

(* poll() keeps acting on the owner it observed. *)
LEMMA ObservationStep == IndInv /\ Next => Observation'
<1> SUFFICES ASSUME IndInv, Next PROVE Observation'
  OBVIOUS
<1>2. TypeOK
  BY DEF IndInv
<1> USE ConsoleAssumption, TypeFacts, <1>2 DEF IndInv, Observation, Numbers, Seen,
      endpoint, core0, core1, words, rings
<1>3. ASSUME NEW o \in Owners, Open(o) PROVE Observation'
  BY <1>3 DEF Open, NextGeneration, Tenures
<1>4. CASE Close
  BY <1>4 DEF Close
<1>5. CASE HostWrite
  BY <1>5, Zenon DEF HostWrite
<1>6. CASE HostRead
  BY <1>6, Zenon DEF HostRead
<1>7. CASE Poll
  BY <1>7, Zenon DEF Poll, Seen
<1>8. CASE InputOff
  BY <1>8, Zenon DEF InputOff
<1>9. CASE OutputOff
  BY <1>9, ZenonT(30) DEF OutputOff
<1>10. CASE Bump
  BY <1>10 DEF Bump, Seen
<1>11. CASE Compare
  BY <1>11 DEF Compare
<1>12. CASE Discard
  BY <1>12 DEF Discard
<1>13. CASE Purge
  BY <1>13 DEF Purge
<1>14. CASE InputOn
  BY <1>14 DEF InputOn
<1>15. CASE OutputOn
  BY <1>15 DEF OutputOn
<1>16. CASE Outgoing
  BY <1>16 DEF Outgoing, Smaller
<1>17. CASE Incoming
  BY <1>17 DEF Incoming, FreeSpace, Smaller
<1>18. CASE Push
  BY <1>18 DEF Push, Smaller
<1>19. CASE Stop
  BY <1>19 DEF Stop
<1>20. CASE BoundaryLoad
  BY <1>20, Zenon DEF BoundaryLoad, Parked
<1>21. CASE BoundaryTest
  BY <1>21, Zenon DEF BoundaryTest, NewEpoch
<1>22. CASE Drain
  BY <1>22, Zenon DEF Drain
<1>23. CASE Acknowledge
  BY <1>23, Zenon DEF Acknowledge
<1>24. CASE Enter
  BY <1>24, Zenon DEF Enter
<1>25. CASE WriteTest
  BY <1>25, Zenon DEF WriteTest
<1>26. CASE Write
  BY <1>26, Zenon DEF Write, Room
<1>27. CASE ReadEpoch
  BY <1>27, Zenon DEF ReadEpoch, ReadStep
<1>28. CASE ReadOn
  BY <1>28, Zenon DEF ReadOn, ReadStep
<1>29. CASE ReadAck
  BY <1>29, Zenon DEF ReadAck, ReadStep
<1>30. CASE ReadPop
  BY <1>30, Zenon DEF ReadPop, ReadStep
<1>31. CASE RecheckEpoch
  BY <1>31, Zenon DEF RecheckEpoch, ReadStep
<1>32. CASE RecheckOn
  BY <1>32, Zenon DEF RecheckOn, StillOn, ReadStep
<1>33. CASE Return
  BY <1>33, Zenon DEF Return
<1> HIDE ConsoleAssumption, TypeFacts, <1>2 DEF IndInv, Observation, Numbers, Seen,
      endpoint, core0, core1, words, rings
<1> QED
  BY Zenon, <1>3, <1>4, <1>5, <1>6, <1>7, <1>8, <1>9, <1>10, <1>11, <1>12, <1>13, <1>14,
    <1>15, <1>16, <1>17, <1>18, <1>19, <1>20, <1>21, <1>22, <1>23, <1>24, <1>25, <1>26,
    <1>27, <1>28, <1>29, <1>30, <1>31, <1>32, <1>33 DEF Next, Network, PollSteps,
    Boundary, SketchCalls

(* The switches stay on for acknowledged epochs only. *)
LEMMA SwitchesStep == IndInv /\ Next => Switches'
<1> SUFFICES ASSUME IndInv, Next PROVE Switches'
  OBVIOUS
<1> DEFINE others == (\E o \in Owners : Open(o)) \/ Close \/ HostWrite \/ HostRead \/
      BoundaryLoad \/ BoundaryTest \/ Drain \/ Enter \/ WriteTest \/ Write \/ ReadEpoch
      \/ ReadOn \/ ReadAck \/ ReadPop \/ RecheckEpoch \/ RecheckOn \/ Return
<1>1. others => UNCHANGED <<inputOn, outputOn, ack, epoch, pc0>>
  BY DEF Open, Close, HostWrite, HostRead, BoundaryLoad, BoundaryTest, Drain, Enter,
    WriteTest, Write, ReadEpoch, ReadOn, ReadAck, ReadPop, RecheckEpoch, RecheckOn,
    Return, ReadStep, endpoint, core0, core1, words, rings
<1>2. TypeOK
  BY DEF IndInv
<1> USE ConsoleAssumption, TypeFacts, <1>2 DEF IndInv, Switches, Numbers, Observation,
      Acknowledgement, endpoint, core0, core1, words, rings
<1>3. CASE Poll
  BY <1>3 DEF Poll, Seen
<1>4. CASE InputOff
  BY <1>4 DEF InputOff
<1>5. CASE OutputOff
  BY <1>5 DEF OutputOff
<1>6. CASE Bump
  BY <1>6 DEF Bump, Seen
<1>7. CASE Compare
  BY <1>7 DEF Compare
<1>8. CASE Discard
  BY <1>8 DEF Discard
<1>9. CASE Purge
  BY <1>9 DEF Purge
<1>10. CASE InputOn
  BY <1>10 DEF InputOn
<1>11. CASE OutputOn
  BY <1>11 DEF OutputOn
<1>12. CASE Outgoing
  BY <1>12 DEF Outgoing, Smaller
<1>13. CASE Incoming
  BY <1>13 DEF Incoming, FreeSpace, Smaller
<1>14. CASE Push
  BY <1>14 DEF Push, Smaller
<1>15. CASE Stop
  BY <1>15 DEF Stop
<1>16. CASE Acknowledge
  BY <1>16, SMTT(30) DEF Acknowledge
<1>17. CASE others
  <2> HIDE DEF others
  <2> QED
    BY <1>1, <1>17
<1> HIDE ConsoleAssumption, TypeFacts, <1>2 DEF IndInv, Switches, Numbers, Observation,
      Acknowledgement, endpoint, core0, core1, words, rings
<1> QED
  BY <1>3, <1>4, <1>5, <1>6, <1>7, <1>8, <1>9, <1>10, <1>11, <1>12, <1>13, <1>14,
    <1>15, <1>16, <1>17 DEF Next, Network, PollSteps, Boundary, SketchCalls

(* Acknowledgements stay in order. *)
LEMMA AcknowledgementStep == IndInv /\ Next => Acknowledgement'
<1> SUFFICES ASSUME IndInv, Next PROVE Acknowledgement'
  OBVIOUS
<1> DEFINE others == (\E o \in Owners : Open(o)) \/ Close \/ HostWrite \/ HostRead \/
      Poll \/ InputOff \/ OutputOff \/ Compare \/ Discard \/ Purge \/ InputOn \/
      OutputOn \/ Outgoing \/ Incoming \/ Stop
<1>1. others => UNCHANGED <<pc1, ack, epoch1, toSketch, epoch>>
  BY Zenon DEF Open, Close, HostWrite, HostRead, Poll, InputOff, OutputOff, Compare, Discard,
    Purge, InputOn, OutputOn, Outgoing, Incoming, Stop, endpoint, core0, core1, words,
    rings
<1>2. TypeOK
  BY DEF IndInv
<1> USE ConsoleAssumption, TypeFacts, <1>2 DEF IndInv, Acknowledgement, Numbers,
      Switches, endpoint, core0, core1, words, rings
<1>3. CASE Bump
  BY <1>3 DEF Bump, Seen
<1>4. CASE Push
  BY <1>4, PushFacts, EmptyFacts, SMTT(30) DEF Push, Smaller
<1>5. CASE BoundaryLoad
  BY <1>5 DEF BoundaryLoad, Parked
<1>6. CASE BoundaryTest
  BY <1>6, SMTT(30) DEF BoundaryTest, NewEpoch
<1>7. CASE Drain
  BY <1>7, EmptyFacts DEF Drain
<1>8. CASE Acknowledge
  BY <1>8, EmptyFacts DEF Acknowledge
<1>9. CASE Enter
  BY <1>9 DEF Enter
<1>10. CASE WriteTest
  BY <1>10 DEF WriteTest
<1>11. CASE Write
  BY <1>11, WriteFacts DEF Write, Room
<1>12. CASE ReadEpoch
  BY <1>12 DEF ReadEpoch, ReadStep
<1>13. CASE ReadOn
  BY <1>13 DEF ReadOn, ReadStep
<1>14. CASE ReadAck
  BY <1>14 DEF ReadAck, ReadStep
<1>15. CASE ReadPop
  BY <1>15, ReadPopFacts DEF ReadPop, ReadStep
<1>16. CASE RecheckEpoch
  BY <1>16 DEF RecheckEpoch, ReadStep
<1>17. CASE RecheckOn
  BY <1>17 DEF RecheckOn, StillOn, ReadStep
<1>18. CASE Return
  BY <1>18 DEF Return
<1>19. CASE others
  <2> HIDE DEF others
  <2> QED
    BY <1>1, <1>19, ZenonT(30)
<1> HIDE ConsoleAssumption, TypeFacts, <1>2 DEF IndInv, Acknowledgement, Numbers,
      Switches, endpoint, core0, core1, words, rings
<1> QED
  BY ZenonT(30), <1>3, <1>4, <1>5, <1>6, <1>7, <1>8, <1>9, <1>10, <1>11, <1>12, <1>13, <1>14,
    <1>15, <1>16, <1>17, <1>18, <1>19 DEF Next, Network, PollSteps, Boundary,
    SketchCalls

(* Host bytes stay with their owner. *)
LEMMA InputStep == IndInv /\ Next => Input'
<1> SUFFICES ASSUME IndInv, Next PROVE Input'
  OBVIOUS
<1>2. TypeOK
  BY DEF IndInv
<1> USE ConsoleAssumption, TypeFacts, <1>2 DEF IndInv, Input, Numbers, Observation,
      Switches, Acknowledgement, Sound, Stale, Seen, endpoint, core0, core1, words,
      rings
<1>3. ASSUME NEW o \in Owners, Open(o) PROVE Input'
  BY <1>3, EmptyFacts, ByteTypes, SMTT(30) DEF Open, NextGeneration, Tenures
<1>4. CASE Close
  BY <1>4, EmptyFacts DEF Close
<1>5. CASE HostWrite
  BY <1>5, HostWriteFacts DEF HostWrite
<1>6. CASE HostRead
  BY <1>6, HostReadFacts DEF HostRead
<1>7. CASE Poll
  BY <1>7 DEF Poll, Seen
<1>8. CASE InputOff
  BY <1>8, ZenonT(30) DEF InputOff
<1>9. CASE OutputOff
  BY <1>9 DEF OutputOff
<1>10. CASE Bump
  BY <1>10, SMTT(30) DEF Bump, Seen
<1>11. CASE Compare
  BY <1>11 DEF Compare
<1>12. CASE Discard
  BY <1>12, EmptyFacts DEF Discard
<1>13. CASE Purge
  BY <1>13, EmptyFacts DEF Purge
<1>14. CASE InputOn
  BY <1>14 DEF InputOn
<1>15. CASE OutputOn
  BY <1>15 DEF OutputOn
<1>16. CASE Outgoing
  BY <1>16, OutgoingFacts DEF Outgoing, Smaller
<1>17. CASE Incoming
  BY <1>17, IncomingFacts, Zenon DEF Incoming, FreeSpace, Smaller
<1>18. CASE Push
  <2>1. /\ Elems(toSketch') \subseteq Elems(toSketch) \cup Elems(carry)
        /\ pc0' = "network"
    BY <1>18, PushFacts DEF Push
  <2>2. UNCHANGED <<stopping, observed, stops, fromSketch, endpoint, core1, words>>
    BY <1>18 DEF Push
  <2>3. \A t : Sound(t) => Sound(t)'
    BY <2>2
  <2>4. \A t \in Elems(carry) : Sound(t)
    BY <1>18 DEF Push
  <2> HIDE DEF Sound
  <2> QED
    BY <2>1, <2>2, <2>3, <2>4, SMTT(30)
<1>19. CASE Stop
  BY <1>19, EmptyFacts DEF Stop
<1>20. CASE BoundaryLoad
  BY <1>20 DEF BoundaryLoad, Parked
<1>21. CASE BoundaryTest
  BY <1>21 DEF BoundaryTest, NewEpoch
<1>22. CASE Drain
  BY <1>22, EmptyFacts, SMTT(30) DEF Drain
<1>23. CASE Acknowledge
  BY <1>23, EmptyFacts DEF Acknowledge
<1>24. CASE Enter
  BY <1>24 DEF Enter
<1>25. CASE WriteTest
  BY <1>25, Zenon DEF WriteTest
<1>26. CASE Write
  BY <1>26, WriteFacts, ZenonT(30) DEF Write, Room
<1>27. CASE ReadEpoch
  BY <1>27 DEF ReadEpoch, ReadStep
<1>28. CASE ReadOn
  BY <1>28 DEF ReadOn, ReadStep
<1>29. CASE ReadAck
  BY <1>29 DEF ReadAck, ReadStep
<1>30. CASE ReadPop
  <2>1. /\ Elems(toSketch') \subseteq Elems(toSketch)
        /\ Len(toSketch') <= Len(toSketch) /\ Len(toSketch) \in Nat /\ Len(toSketch') \in Nat
        /\ held' \in Elems(toSketch) \/ pc1' = "loop"
    BY <1>30, ReadPopFacts, SMTT(30)
  <2>2. UNCHANGED <<epoch1, began, seen, fromSketch, endpoint, core0, words>>
    BY <1>30 DEF ReadPop
  <2>3. \A t : Sound(t) => Sound(t)'
    BY <2>2
  <2>4. pc0' = "push" => Len(carry') + Len(toSketch') <= RingBytes
    <3>1. Len(carry) \in Nat
      OBVIOUS
    <3> QED
      BY <2>1, <2>2, <3>1
  <2> HIDE DEF Sound
  <2> QED
    BY <2>1, <2>2, <2>3, <2>4, ZenonT(30)
<1>31. CASE RecheckEpoch
  BY <1>31 DEF RecheckEpoch, ReadStep
<1>32. CASE RecheckOn
  BY <1>32 DEF RecheckOn, StillOn, ReadStep
<1>33. CASE Return
  BY <1>33 DEF Return
<1> HIDE ConsoleAssumption, TypeFacts, <1>2 DEF IndInv, Input, Numbers, Observation,
      Switches, Acknowledgement, Sound, Stale, Seen, endpoint, core0, core1, words,
      rings
<1> QED
  BY <1>3, <1>4, <1>5, <1>6, <1>7, <1>8, <1>9, <1>10, <1>11, <1>12, <1>13, <1>14,
    <1>15, <1>16, <1>17, <1>18, <1>19, <1>20, <1>21, <1>22, <1>23, <1>24, <1>25, <1>26,
    <1>27, <1>28, <1>29, <1>30, <1>31, <1>32, <1>33 DEF Next, Network, PollSteps,
    Boundary, SketchCalls

(* A loop call stays with one owner. *)
LEMMA LoopStep == IndInv /\ Next => Loop'
<1> SUFFICES ASSUME IndInv, Next PROVE Loop'
  OBVIOUS
<1> DEFINE others == (\E o \in Owners : Open(o)) \/ Close \/ HostWrite \/ HostRead \/
      Poll \/ InputOff \/ OutputOff \/ Compare \/ Discard \/ Purge \/ InputOn \/
      OutputOn \/ Outgoing \/ Incoming \/ Push \/ Stop
<1>1. others => UNCHANGED <<pc1, ack, epoch, observed, began, seen>>
  BY Zenon DEF Open, Close, HostWrite, HostRead, Poll, InputOff, OutputOff, Compare, Discard,
    Purge, InputOn, OutputOn, Outgoing, Incoming, Push, Stop, endpoint, core0, core1,
    words, rings
<1>2. TypeOK
  BY DEF IndInv
<1> USE ConsoleAssumption, TypeFacts, <1>2 DEF IndInv, Loop, Numbers, Input, Switches,
      Acknowledgement, InLoop, Sound, Stale, endpoint, core0, core1, words, rings
<1>3. CASE Bump
  BY <1>3 DEF Bump, Seen
<1>4. CASE BoundaryLoad
  BY <1>4 DEF BoundaryLoad, Parked
<1>5. CASE BoundaryTest
  BY <1>5 DEF BoundaryTest, NewEpoch
<1>6. CASE Drain
  BY <1>6 DEF Drain
<1>7. CASE Acknowledge
  BY <1>7 DEF Acknowledge
<1>8. CASE Enter
  BY <1>8 DEF Enter
<1>9. CASE WriteTest
  BY <1>9 DEF WriteTest
<1>10. CASE Write
  BY <1>10 DEF Write, Room
<1>11. CASE ReadEpoch
  BY <1>11 DEF ReadEpoch, ReadStep
<1>12. CASE ReadOn
  BY <1>12 DEF ReadOn, ReadStep
<1>13. CASE ReadAck
  BY <1>13 DEF ReadAck, ReadStep
<1>14. CASE ReadPop
  BY <1>14 DEF ReadPop, ReadStep
<1>15. CASE RecheckEpoch
  BY <1>15 DEF RecheckEpoch, ReadStep
<1>16. CASE RecheckOn
  BY <1>16 DEF RecheckOn, StillOn, ReadStep
<1>17. CASE Return
  BY <1>17 DEF Return
<1>18. CASE others
  <2> HIDE DEF others
  <2> QED
    BY <1>1, <1>18
<1> HIDE ConsoleAssumption, TypeFacts, <1>2 DEF IndInv, Loop, Numbers, Input, Switches,
      Acknowledgement, InLoop, Sound, Stale, endpoint, core0, core1, words, rings
<1> QED
  BY <1>3, <1>4, <1>5, <1>6, <1>7, <1>8, <1>9, <1>10, <1>11, <1>12, <1>13, <1>14,
    <1>15, <1>16, <1>17, <1>18 DEF Next, Network, PollSteps, Boundary, SketchCalls

(* Sketch bytes stay with their owner. *)
LEMMA OutputStep == IndInv /\ Next => Output'
<1> SUFFICES ASSUME IndInv, Next PROVE Output'
  OBVIOUS
<1> DEFINE others == BoundaryLoad \/ BoundaryTest \/ Drain \/ Acknowledge \/ Enter \/
      WriteTest \/ ReadEpoch \/ ReadOn \/ ReadAck \/ ReadPop \/ RecheckEpoch \/
      RecheckOn \/ Return
<1>1. others => UNCHANGED <<outputOn, pc0, fromSketch, observed, tenure, backend>>
  BY DEF BoundaryLoad, BoundaryTest, Drain, Acknowledge, Enter, WriteTest, ReadEpoch,
    ReadOn, ReadAck, ReadPop, RecheckEpoch, RecheckOn, Return, ReadStep, endpoint,
    core0, core1, words, rings
<1>2. TypeOK
  BY DEF IndInv
<1> USE ConsoleAssumption, TypeFacts, <1>2 DEF IndInv, Output, Numbers, Observation,
      Switches, Loop, Seen, InLoop, endpoint, core0, core1, words, rings
<1>3. ASSUME NEW o \in Owners, Open(o) PROVE Output'
  BY <1>3, EmptyFacts, ByteTypes, SMTT(30) DEF Open, NextGeneration, Tenures
<1>4. CASE Close
  BY <1>4, EmptyFacts DEF Close
<1>5. CASE HostWrite
  BY <1>5, HostWriteFacts, Zenon DEF HostWrite
<1>6. CASE HostRead
  BY <1>6, HostReadFacts, Zenon DEF HostRead
<1>7. CASE Poll
  BY <1>7 DEF Poll, Seen
<1>8. CASE InputOff
  BY <1>8, Zenon DEF InputOff
<1>9. CASE OutputOff
  BY <1>9 DEF OutputOff
<1>10. CASE Bump
  BY <1>10 DEF Bump, Seen
<1>11. CASE Compare
  BY <1>11 DEF Compare
<1>12. CASE Discard
  BY <1>12, EmptyFacts, Zenon DEF Discard
<1>13. CASE Purge
  BY <1>13, EmptyFacts DEF Purge
<1>14. CASE InputOn
  BY <1>14 DEF InputOn
<1>15. CASE OutputOn
  BY <1>15 DEF OutputOn
<1>16. CASE Outgoing
  <2>1. /\ pc0 = "outgoing" /\ pc0' = "incoming" /\ UNCHANGED <<tenure, observed, words>>
        /\ Elems(fromSketch') \subseteq Elems(fromSketch)
        /\ Elems(backend'.tx) \subseteq Elems(backend.tx) \cup Elems(fromSketch)
    BY <1>16, OutgoingFacts, Zenon DEF Outgoing
  <2>2. outputOn /\ observed.generation = tenure
    BY <2>1
  <2>3. ASSUME NEW b \in Elems(fromSketch) PROVE b = {tenure}
    <3>1. b \in SUBSET Tenures
      BY ByteTypes
    <3>2. b # {} /\ \A t \in b : t <= tenure /\ tenure <= t
      BY <2>2
    <3>3. \A t \in b : t = tenure
      BY <3>1, <3>2, SMTT(30) DEF Tenures
    <3> QED
      BY <3>2, <3>3, ZenonT(30)
  <2> QED
    BY <2>1, <2>2, <2>3
<1>17. CASE Incoming
  BY <1>17, IncomingFacts, Zenon DEF Incoming, FreeSpace, Smaller
<1>18. CASE Push
  BY <1>18, PushFacts, EmptyFacts, Zenon DEF Push, Smaller
<1>19. CASE Stop
  BY <1>19, EmptyFacts DEF Stop
<1>20. CASE Write
  <2>1. /\ Elems(fromSketch') \subseteq Elems(fromSketch) \cup {{began} \cup seen}
        /\ pc1 = "write" /\ UNCHANGED <<endpoint, core0, words>>
    BY <1>20, WriteFacts, Zenon DEF Write
  <2>2. \A t \in {began} \cup seen : t <= tenure
    OBVIOUS
  <2>3. ack = epoch => \A t \in {began} \cup seen : observed.generation <= t
    BY <2>1
  <2>4. outputOn \/ pc0 \in {"inputOn", "outputOn"} => ack = epoch
    OBVIOUS
  <2>5. outputOn \/ pc0 \in {"inputOn", "outputOn"} =>
           \A b \in Elems(fromSketch') : b # {} /\ \A t \in b : observed.generation <= t
    <3> DEFINE new == {began} \cup seen
    <3>1. new # {} /\ Elems(fromSketch') \subseteq Elems(fromSketch) \cup {new}
      BY <2>1
    <3>2. ack = epoch => \A t \in new : observed.generation <= t
      BY <2>3
    <3> HIDE DEF new
    <3> QED
      BY <3>1, <3>2, <2>4, ZenonT(30)
  <2>6. \A b \in Elems(fromSketch') : \A t \in b : t <= tenure
    BY <2>1, <2>2, ZenonT(30)
  <2> QED
    BY <2>1, <2>5, <2>6, Zenon
<1>21. CASE others
  <2> HIDE DEF others
  <2> QED
    BY <1>1, <1>21
<1> HIDE ConsoleAssumption, TypeFacts, <1>2 DEF IndInv, Output, Numbers, Observation,
      Switches, Loop, Seen, InLoop, endpoint, core0, core1, words, rings
<1> QED
  BY ZenonT(30), <1>3, <1>4, <1>5, <1>6, <1>7, <1>8, <1>9, <1>10, <1>11, <1>12, <1>13, <1>14,
    <1>15, <1>16, <1>17, <1>18, <1>19, <1>20, <1>21 DEF Next, Network, PollSteps,
    Boundary, SketchCalls
-----------------------------------------------------------------------------
(* The console starts in the invariant. *)
LEMMA InitInd == Init => IndInv
<1> SUFFICES ASSUME Init PROVE IndInv
  OBVIOUS
<1> USE ConsoleAssumption DEF Init
<1>1. TypeOK
  <2>1. 0 \in Tenures /\ 0 \in 0 .. MaxStops
    BY DEF Tenures
  <2>2. backend \in [active : BOOLEAN, owner : Owners \cup {0}, generation : Tenures,
                    rx : Seq(Tenures), tx : Seq(SUBSET Tenures)]
    BY <2>1, EmptyFacts
  <2>3. observed \in [active : BOOLEAN, owner : Owners \cup {0}, generation : Tenures]
    BY <2>1
  <2>4. /\ Len(backend.rx) <= QueueBytes /\ Len(backend.tx) <= QueueBytes
        /\ Len(toSketch) <= RingBytes /\ Len(fromSketch) <= RingBytes
    BY EmptyFacts
  <2>5. toSketch \in Seq(Tenures) /\ fromSketch \in Seq(SUBSET Tenures)
        /\ carry \in Seq(Tenures) /\ seen \in SUBSET Tenures
    BY EmptyFacts
  <2> QED
    BY <2>1, <2>2, <2>3, <2>4, <2>5, Zenon DEF TypeOK
<1>2. /\ Elems(backend.rx) = {} /\ Elems(backend.tx) = {}
      /\ Elems(toSketch) = {} /\ Elems(fromSketch) = {}
  BY EmptyFacts
<1>3. Numbers /\ Observation /\ Switches /\ Acknowledgement
  BY <1>2 DEF Numbers, Observation, Seen, Switches, Acknowledgement
<1>4. Input /\ Loop /\ Output
  BY <1>2, SMTT(30) DEF Input, Loop, InLoop, Output
<1> QED
  BY <1>1, <1>3, <1>4 DEF IndInv

(* Steps of neither core. *)
LEMMA StutterInd == IndInv /\ UNCHANGED vars => IndInv'
  BY DEF IndInv, vars, endpoint, core0, core1, words, rings, TypeOK, Numbers, Observation,
         Seen, Switches, Acknowledgement, Input, Sound, Stale, Loop, InLoop, Output

(* The inductive invariant: whatever the interleaving of poll() and stop() *)
(* on core 0 with the boundary and the sketch's calls on core 1.           *)
THEOREM ConsoleInvariant == Spec => []IndInv
<1>1. IndInv /\ [Next]_vars => IndInv'
  <2>1. IndInv /\ Next => IndInv'
    BY TypeStep, NumbersStep, ObservationStep, SwitchesStep, AcknowledgementStep,
       InputStep, LoopStep, OutputStep DEF IndInv
  <2> QED
    BY <2>1, StutterInd
<1> QED
  BY <1>1, InitInd, PTL DEF Spec

(* The rings and queues of console.h keep their types and their capacity.  *)
THEOREM ConsoleTypes == Spec => []TypeOK
<1>1. IndInv => TypeOK
  BY DEF IndInv
<1> QED
  BY <1>1, ConsoleInvariant, PTL

(* For any capacities and any number of openings, poll() delivers to an    *)
(* owner only what a loop call wrote that began under that owner and read  *)
(* no other owner's bytes.                                                 *)
THEOREM OutputCorrect == Spec => []NoOldOutput
<1>1. IndInv => NoOldOutput
  BY DEF IndInv, Output, NoOldOutput, Elems
<1> QED
  BY <1>1, ConsoleInvariant, PTL

(* sketch_read never gives one loop call the bytes of two owners.          *)
THEOREM LoopCorrect == Spec => []OneOwnerPerLoop
<1>1. IndInv => OneOwnerPerLoop
  BY DEF IndInv, Loop, OneOwnerPerLoop
<1> QED
  BY <1>1, ConsoleInvariant, PTL

(* Neither sketch_boundary's drain nor sketch_read's second check throws   *)
(* away a byte of the owner who holds the channel.                         *)
THEOREM InputCorrect == Spec => []PresentInputKept
<1>1. IndInv => PresentInputKept
  <2> SUFFICES ASSUME IndInv PROVE PresentInputKept
    OBVIOUS
  <2>1. ASSUME pc1 = "drain", NEW i \in DOMAIN toSketch PROVE Stale(toSketch[i])
    <3>1. toSketch[i] \in Elems(toSketch)
      BY DEF Elems
    <3>2. ack # epoch
      BY <2>1 DEF IndInv, Acknowledgement, Numbers, TypeOK
    <3> QED
      BY <3>1, <3>2 DEF IndInv, Input, Sound
  <2>2. pc1 = "recheckEpoch" /\ epoch # epoch1 => Stale(held)
    BY DEF IndInv, Acknowledgement, Input, Sound
  <2>3. pc1 = "recheckOn" /\ ~inputOn => Stale(held)
    BY DEF IndInv, Input, Sound
  <2> QED
    BY <2>1, <2>2, <2>3 DEF PresentInputKept
<1> QED
  BY <1>1, ConsoleInvariant, PTL

(* Both moves of poll() fit where they go, so poll() never returns false.  *)
THEOREM PollCorrect == Spec => []NeverFaults
<1>1. IndInv => NeverFaults
  BY DEF IndInv, Input, NeverFaults
<1> QED
  BY <1>1, ConsoleInvariant, PTL

(* sketch_read returns bytes of the owner poll() has observed only.        *)
THEOREM ReadCorrect == Spec => ReadsObservedOwner
<1>1. IndInv /\ [Next]_vars => [\A t \in seen' \ seen : t = observed.generation]_vars
  <2> SUFFICES ASSUME IndInv, Next PROVE \A t \in seen' \ seen : t = observed.generation
    BY DEF vars
  <2>1. CASE RecheckOn
    <3>1. ~StillOn => seen' = seen
      BY <2>1 DEF RecheckOn
    <3>2. StillOn => seen' \ seen \subseteq {held} /\ held = observed.generation
      BY <2>1 DEF RecheckOn, ReadStep, StillOn, IndInv, Switches, Input, Sound
    <3> QED
      BY <3>1, <3>2
  <2>2. CASE Enter
    BY <2>2 DEF Enter
  <2>3. CASE ~RecheckOn /\ ~Enter
    <3>1. seen' = seen
      BY <2>3, Zenon DEF Next, Network, PollSteps, Boundary, SketchCalls, core1, Open, Close,
        HostWrite, HostRead, Poll, InputOff, OutputOff, Bump, Compare, Discard, Purge,
        InputOn, OutputOn, Outgoing, Incoming, Push, Stop, BoundaryLoad, BoundaryTest,
        Drain, Acknowledge, WriteTest, Write, ReadEpoch, ReadOn, ReadAck, ReadPop,
        RecheckEpoch, Return
    <3> QED
      BY <3>1
  <2> QED
    BY <2>1, <2>2, <2>3
<1> QED
  BY <1>1, ConsoleInvariant, PTL DEF Spec, ReadsObservedOwner
=============================================================================
