-------------------------- MODULE DhcpServerProofs ---------------------------
(***************************************************************************)
(* For any number of clients and addresses and any durations, no two hosts *)
(* use one address at the same time.  The reason is an agreement between a *)
(* client and the table that no step of anybody disturbs: what a client    *)
(* holds is bound to it for at least as long as it counts on (Covers), an  *)
(* ACK under way will be covered when it arrives (Grants), and no packet   *)
(* that gives an address back can arrive after the request that regains it *)
(* (Ordered: packets of one client keep their order).                      *)
(*                                                                         *)
(* The second part adds the offers and the quarantine (OfferInv): while a  *)
(* recorded offer stands its request is acknowledged, and while a declined *)
(* address rests nobody has it or is about to.                             *)
(***************************************************************************)
EXTENDS DhcpServer, SequenceTheorems, TLAPS

States == {"free", "offered", "bound", "declined"}
LeaseType == [state : States, client : Clients \cup {NoClient}, age : Nat]
PacketType == [kind : {"discover", "request", "release", "decline"}, addr : Addresses,
               server : BOOLEAN, live : BOOLEAN, age : Nat]
ReplyType == [kind : {"none", "offer", "ack", "nak"}, addr : Addresses, age : Nat, fresh : BOOLEAN]
HoldType == [addr : Addresses, left : Nat]

Types ==
    /\ lease \in [Slots -> LeaseType]
    /\ up \in [Clients -> Seq(PacketType)]
    /\ down \in [Clients -> ReplyType]
    /\ hold \in [Clients -> HoldType]

Unique(table) ==
    \A i, j \in Slots, c \in Clients :
        SameClient(table[i], c) /\ SameClient(table[j], c) => i = j

Covers(table, h, c) ==
    h.left > 0 => /\ h.addr \in Slots
                  /\ table[h.addr].state = "bound" /\ table[h.addr].client = c
                  /\ table[h.addr].age + h.left <= LeaseTicks

Grants(table, r, c) ==
    r.kind = "ack" =>
        /\ r.addr \in Slots
        /\ r.age < LeaseTicks =>
              /\ table[r.addr].state = "bound" /\ table[r.addr].client = c
              /\ table[r.addr].age <= r.age

Ordered(q, r, h) ==
    /\ r.kind # "none" => q = <<>>
    /\ \A i \in 1 .. Len(q) : q[i].live => i = Len(q)
    /\ h.left > 0 => \A i \in 1 .. Len(q) : q[i].kind \notin {"release", "decline"}

Agreed(table, h, r, c) == Covers(table, h, c) /\ Grants(table, r, c)

Inv ==
    /\ Types /\ Unique(lease)
    /\ \A c \in Clients : Agreed(lease, hold[c], down[c], c) /\ Ordered(up[c], down[c], hold[c])

USE DhcpAssumption DEF DhcpAssumption

-----------------------------------------------------------------------------
(* The table.                                                              *)

(* A lease that a client can still count on has not expired, so sweeping   *)
(* the table keeps it.                                                     *)
LEMMA SweepAgrees ==
    ASSUME lease \in [Slots -> LeaseType], Unique(lease)
    PROVE  /\ Swept \in [Slots -> LeaseType] /\ Unique(Swept)
           /\ \A c \in Clients, h \in HoldType, r \in ReplyType :
                 Agreed(lease, h, r, c) => Agreed(Swept, h, r, c)
<1>1. FreeLease \in LeaseType
  BY DEF FreeLease, LeaseType, States
<1>2. Swept \in [Slots -> LeaseType]
  BY <1>1 DEF Swept
<1>3. \A i \in Slots : Swept[i] = FreeLease \/ Swept[i] = lease[i]
  BY DEF Swept
<1>4. \A i \in Slots, c \in Clients : SameClient(Swept[i], c) => SameClient(lease[i], c)
  BY <1>3 DEF SameClient, FreeLease
<1>5. Unique(Swept)
  BY <1>4 DEF Unique
<1>6. \A i \in Slots : lease[i].state = "bound" /\ lease[i].age < LeaseTicks => Swept[i] = lease[i]
  <2> SUFFICES ASSUME NEW i \in Slots, lease[i].state = "bound", lease[i].age < LeaseTicks
               PROVE  Swept[i] = lease[i]
    OBVIOUS
  <2>1. lease[i].age \in Nat
    BY DEF LeaseType
  <2>2. ~Expired(lease[i])
    BY <2>1 DEF Expired, Duration
  <2> QED BY <2>2 DEF Swept
<1>7. ASSUME NEW c \in Clients, NEW h \in HoldType, NEW r \in ReplyType,
             Agreed(lease, h, r, c)
      PROVE  Agreed(Swept, h, r, c)
  <2>1. h.left \in Nat /\ r.age \in Nat /\ \A i \in Slots : lease[i].age \in Nat
    BY DEF HoldType, ReplyType, LeaseType
  <2>2. Covers(Swept, h, c)
    <3> SUFFICES ASSUME h.left > 0
                 PROVE  /\ h.addr \in Slots
                        /\ Swept[h.addr].state = "bound" /\ Swept[h.addr].client = c
                        /\ Swept[h.addr].age + h.left <= LeaseTicks
      BY DEF Covers
    <3>1. /\ h.addr \in Slots
          /\ lease[h.addr].state = "bound" /\ lease[h.addr].client = c
          /\ lease[h.addr].age + h.left <= LeaseTicks
      BY <1>7 DEF Agreed, Covers
    <3>2. lease[h.addr].age < LeaseTicks
      <4>1. lease[h.addr].age \in Nat /\ h.left \in Nat /\ LeaseTicks \in Nat
        BY <2>1, <3>1, Zenon
      <4> QED BY ONLY <3>1, <4>1, h.left > 0
    <3> QED BY <1>6, <3>1, <3>2, Zenon
  <2>3. Grants(Swept, r, c)
    <3> SUFFICES ASSUME r.kind = "ack"
                 PROVE  /\ r.addr \in Slots
                        /\ r.age < LeaseTicks =>
                             /\ Swept[r.addr].state = "bound" /\ Swept[r.addr].client = c
                             /\ Swept[r.addr].age <= r.age
      BY DEF Grants
    <3>1. /\ r.addr \in Slots
          /\ r.age < LeaseTicks =>
               /\ lease[r.addr].state = "bound" /\ lease[r.addr].client = c
               /\ lease[r.addr].age <= r.age
      BY <1>7 DEF Agreed, Grants
    <3>2. r.age < LeaseTicks => lease[r.addr].age < LeaseTicks
      <4>1. lease[r.addr].age \in Nat /\ r.age \in Nat /\ LeaseTicks \in Nat
        BY <2>1, <3>1, Zenon
      <4> QED BY ONLY <3>1, <4>1
    <3> QED BY <1>6, <3>1, <3>2, Zenon
  <2> QED BY <2>2, <2>3 DEF Agreed
<1> QED BY <1>2, <1>5, <1>7

(* The slot that the search finds is the client's only one.                *)
LEMMA OwnedIsOnly ==
    ASSUME NEW table \in [Slots -> LeaseType], Unique(table), NEW c \in Clients
    PROVE  /\ Owned(table, c) \in Addresses
           /\ Owned(table, c) # Outside => SameClient(table[Owned(table, c)], c)
           /\ \A i \in Slots : SameClient(table[i], c) => i = Owned(table, c)
<1> DEFINE S == {i \in Slots : SameClient(table[i], c)}
<1>1. CASE S = {}
  BY <1>1 DEF Owned, LastOf, Addresses
<1>2. CASE S # {}
  <2>1. PICK i \in S : TRUE
    BY <1>2, Zenon
  <2>2. S = {i}
    BY <2>1, Zenon DEF Unique
  <2>3. i \in Nat
    BY <2>1
  <2>4. Max(S) = i
    BY <2>2, <2>3 DEF Max
  <2>5. Owned(table, c) = i
    BY <1>2, <2>4 DEF Owned, LastOf
  <2> QED BY <2>1, <2>2, <2>5 DEF Addresses
<1> QED BY <1>1, <1>2

(* The slot that a free one is looked for is free.                         *)
LEMMA FreeSlotIsFree ==
    ASSUME NEW table \in [Slots -> LeaseType], FreeSlot(table) # Outside
    PROVE  FreeSlot(table) \in Slots /\ table[FreeSlot(table)].state = "free"
<1> DEFINE S == {i \in Slots : table[i].state = "free"}
<1>1. S # {} /\ FreeSlot(table) = Min(S)
  BY DEF FreeSlot, FirstOf
<1>2. \E i \in S : \A j \in S : i <= j
  BY <1>1, SlotsAssumption
<1>3. Min(S) \in S
  BY <1>2, Zenon DEF Min
<1> QED BY <1>1, <1>3

(* What an answer can be: an offer or a grant of the client's own slot, an *)
(* offer of a free one to a client that has none, or no address.           *)
LEMMA AnswerIsOwnOrFree ==
    ASSUME NEW table \in [Slots -> LeaseType], Unique(table), NEW c \in Clients,
           NEW m \in PacketType
    PROVE  LET a == Answer(table, c, m)
           IN  \/ a.kind \in {"none", "nak"} /\ a.addr = Outside
               \/ /\ a.kind \in {"offer", "ack"} /\ a.addr \in Slots
                  /\ SameClient(table[a.addr], c)
               \/ /\ a.kind = "offer" /\ a.addr \in Slots /\ table[a.addr].state = "free"
                  /\ \A i \in Slots : ~SameClient(table[i], c)
<1> DEFINE o == Owned(table, c)
<1>1. /\ o \in Addresses
      /\ o # Outside => SameClient(table[o], c)
      /\ \A i \in Slots : SameClient(table[i], c) => i = o
  BY OwnedIsOnly
<1>2. FreeSlot(table) # Outside => FreeSlot(table) \in Slots /\ table[FreeSlot(table)].state = "free"
  BY FreeSlotIsFree
<1>3. m.kind \in {"discover", "request", "release", "decline"} /\ m.addr \in Addresses
  BY DEF PacketType
<1>4. CASE m.kind = "discover"
  BY <1>1, <1>2, <1>4 DEF Answer, AnswerDiscover, Nothing, Addresses
<1>5. CASE m.kind = "request"
  BY <1>1, <1>3, <1>5 DEF Answer, AnswerRequest, Nothing, Addresses
<1>6. CASE m.kind \in {"release", "decline"}
  BY <1>6 DEF Answer, Nothing
<1> QED BY <1>3, <1>4, <1>5, <1>6

(* Recording an answer disturbs no agreement, with that client or another. *)
LEMMA RecordAgrees ==
    ASSUME NEW table \in [Slots -> LeaseType], Unique(table), NEW c \in Clients,
           NEW m \in PacketType
    PROVE  LET t == Recorded(table, c, Answer(table, c, m))
           IN  /\ t \in [Slots -> LeaseType] /\ Unique(t)
               /\ \A d \in Clients, h \in HoldType, r \in ReplyType :
                     Agreed(table, h, r, d) => Agreed(t, h, r, d)
<1> DEFINE a == Answer(table, c, m)
           t == Recorded(table, c, a)
<1>1. \/ a.kind \in {"none", "nak"} /\ a.addr = Outside
      \/ /\ a.kind \in {"offer", "ack"} /\ a.addr \in Slots
         /\ SameClient(table[a.addr], c)
      \/ /\ a.kind = "offer" /\ a.addr \in Slots /\ table[a.addr].state = "free"
         /\ \A i \in Slots : ~SameClient(table[i], c)
  BY AnswerIsOwnOrFree
<1>2. CASE t = table
  BY <1>2
<1>3. CASE t # table
  <2>1. /\ a.kind \in {"offer", "ack"} /\ a.addr \in Slots
        /\ a.kind = "offer" => table[a.addr].state # "bound"
    BY <1>1, <1>3 DEF Recorded
  <2> DEFINE n == [state |-> IF a.kind = "offer" THEN "offered" ELSE "bound",
                   client |-> c, age |-> 0]
  <2>2. t = [table EXCEPT ![a.addr] = n]
    BY <1>3, <2>1 DEF Recorded
  <2>3. n \in LeaseType /\ n.client = c /\ n.age = 0 /\ SameClient(n, c)
        /\ (a.kind = "ack" => n.state = "bound")
    BY <2>1 DEF LeaseType, States, SameClient
  <2> HIDE DEF n, a, t
  <2>4. t[a.addr] = n /\ \A i \in Slots : i # a.addr => t[i] = table[i]
    BY <2>1, <2>2
  <2>5. t \in [Slots -> LeaseType]
    BY <2>1, <2>2, <2>3
  <2>6. \A i \in Slots : SameClient(table[i], c) => i = a.addr
    BY <1>1, <2>1, Zenon DEF Unique
  <2>7. \A d \in Clients : d # c => ~SameClient(table[a.addr], d) /\ ~SameClient(t[a.addr], d)
    BY <1>1, <2>1, <2>3, <2>4 DEF SameClient
  <2>8. Unique(t)
    <3> SUFFICES ASSUME NEW i \in Slots, NEW j \in Slots, NEW d \in Clients,
                        SameClient(t[i], d), SameClient(t[j], d)
                 PROVE  i = j
      BY DEF Unique
    <3>1. CASE d = c
      BY <2>4, <2>6, <3>1
    <3>2. CASE d # c
      BY <2>4, <2>7, <3>2 DEF Unique
    <3> QED BY <3>1, <3>2
  <2>9. ASSUME NEW d \in Clients, NEW i \in Slots, table[i].state = "bound", table[i].client = d
        PROVE  t[i].state = "bound" /\ t[i].client = d /\ (t[i].age = table[i].age \/ t[i].age = 0)
    <3>1. SameClient(table[i], d)
      BY <2>9 DEF SameClient
    <3>2. CASE i # a.addr
      BY <2>4, <2>9, <3>2
    <3>3. CASE i = a.addr
      <4>1. d = c
        BY <2>7, <3>1, <3>3
      <4>2. a.kind = "ack"
        BY <2>1, <2>9, <3>3
      <4> QED BY <2>3, <2>4, <3>3, <4>1, <4>2
    <3> QED BY <3>2, <3>3
  <2>10. ASSUME NEW d \in Clients, NEW h \in HoldType, NEW r \in ReplyType, Agreed(table, h, r, d)
         PROVE  Agreed(t, h, r, d)
    <3>1. h.left \in Nat /\ r.age \in Nat /\ \A i \in Slots : table[i].age \in Nat
      BY DEF HoldType, ReplyType, LeaseType
    <3>2. LeaseTicks \in Nat
      OBVIOUS
    <3>3. Covers(t, h, d)
      <4> SUFFICES ASSUME h.left > 0
                   PROVE  /\ h.addr \in Slots
                          /\ t[h.addr].state = "bound" /\ t[h.addr].client = d
                          /\ t[h.addr].age + h.left <= LeaseTicks
        BY DEF Covers
      <4>1. /\ h.addr \in Slots
            /\ table[h.addr].state = "bound" /\ table[h.addr].client = d
            /\ table[h.addr].age + h.left <= LeaseTicks
        BY <2>10 DEF Agreed, Covers
      <4>2. table[h.addr].age \in Nat
        BY <3>1, <4>1, Zenon
      <4>3. /\ t[h.addr].state = "bound" /\ t[h.addr].client = d
            /\ t[h.addr].age = table[h.addr].age \/ t[h.addr].age = 0
        BY <2>9, <4>1, Zenon
      <4> QED BY ONLY <3>1, <3>2, <4>1, <4>2, <4>3
    <3>4. Grants(t, r, d)
      <4> SUFFICES ASSUME r.kind = "ack"
                   PROVE  /\ r.addr \in Slots
                          /\ r.age < LeaseTicks =>
                               /\ t[r.addr].state = "bound" /\ t[r.addr].client = d
                               /\ t[r.addr].age <= r.age
        BY DEF Grants
      <4>1. /\ r.addr \in Slots
            /\ r.age < LeaseTicks =>
                 /\ table[r.addr].state = "bound" /\ table[r.addr].client = d
                 /\ table[r.addr].age <= r.age
        BY <2>10 DEF Agreed, Grants
      <4>2. r.age < LeaseTicks => /\ t[r.addr].state = "bound" /\ t[r.addr].client = d
                                  /\ t[r.addr].age = table[r.addr].age \/ t[r.addr].age = 0
        BY <2>9, <4>1, Zenon
      <4> QED BY ONLY <3>1, <4>1, <4>2
    <3> QED BY <3>3, <3>4 DEF Agreed
  <2> QED BY <2>5, <2>8, <2>10 DEF t, a
<1> QED BY <1>2, <1>3

(* Giving an address back disturbs no agreement with another client.       *)
LEMMA DropAgrees ==
    ASSUME NEW table \in [Slots -> LeaseType], Unique(table), NEW c \in Clients,
           NEW m \in PacketType
    PROVE  LET t == Dropped(table, c, m)
           IN  /\ t \in [Slots -> LeaseType] /\ Unique(t)
               /\ m.kind \notin {"release", "decline"} => t = table
               /\ \A d \in Clients, h \in HoldType, r \in ReplyType :
                     d # c /\ Agreed(table, h, r, d) => Agreed(t, h, r, d)
<1> DEFINE t == Dropped(table, c, m)
<1>1. m.kind \notin {"release", "decline"} => t = table
  BY DEF Dropped
<1>2. CASE t = table
  BY <1>1, <1>2
<1>3. CASE t # table
  <2>1. m.addr \in Slots /\ SameClient(table[m.addr], c)
    <3>1. m.addr # Outside /\ m.addr = Owned(table, c)
      BY <1>3 DEF Dropped
    <3> QED BY <3>1, OwnedIsOnly DEF Addresses
  <2>2. table[m.addr] \in LeaseType /\ FreeLease \in LeaseType
    BY <2>1, Zenon DEF FreeLease, LeaseType, States
  <2> DEFINE n == [table[m.addr] EXCEPT !.state = "declined", !.age = 0]
  <2>3. n \in LeaseType /\ n.state = "declined"
    BY <2>2, Zenon DEF LeaseType, States
  <2>4. n = [[table[m.addr] EXCEPT !.state = "declined"] EXCEPT !.age = 0]
    OBVIOUS
  <2>5. t = [table EXCEPT ![m.addr] = FreeLease] \/ t = [table EXCEPT ![m.addr] = n]
    BY <1>3, <2>1, <2>2, <2>4, Zenon DEF Dropped
  <2> HIDE DEF n, t
  <2>6. t \in [Slots -> LeaseType]
    BY <2>1, <2>2, <2>3, <2>5
  <2>7. /\ t[m.addr].state \in {"free", "declined"}
        /\ \A i \in Slots : i # m.addr => t[i] = table[i]
    BY <2>1, <2>3, <2>5 DEF FreeLease
  <2>8. Unique(t)
    <3>1. \A i \in Slots, d \in Clients : SameClient(t[i], d) => SameClient(table[i], d)
      BY <2>1, <2>7 DEF SameClient
    <3> QED BY <3>1 DEF Unique
  <2>9. ASSUME NEW d \in Clients, NEW h \in HoldType, NEW r \in ReplyType,
               d # c, Agreed(table, h, r, d)
        PROVE  Agreed(t, h, r, d)
    <3>1. table[m.addr].client = c
      BY <2>1 DEF SameClient
    <3>2. Covers(t, h, d)
      BY <2>7, <2>9, <3>1, Zenon DEF Agreed, Covers
    <3>3. Grants(t, r, d)
      BY <2>7, <2>9, <3>1, Zenon DEF Agreed, Grants
    <3> QED BY <3>2, <3>3 DEF Agreed
  <2> QED BY <1>1, <2>6, <2>8, <2>9 DEF t
<1> QED BY <1>2, <1>3

-----------------------------------------------------------------------------
(* The packets under way.                                                  *)

\* Taking the head of an ordered queue leaves it ordered.
LEMMA TailOrdered ==
    ASSUME NEW q \in Seq(PacketType), q # <<>>, NEW r, NEW h, Ordered(q, r, h)
    PROVE  /\ Tail(q) \in Seq(PacketType) /\ Head(q) \in PacketType
           /\ Ordered(Tail(q), r, h) /\ r.kind = "none"
           /\ Head(q).live => Tail(q) = <<>>
           /\ h.left > 0 => Head(q).kind \notin {"release", "decline"}
<1>1. /\ Head(q) = q[1] /\ Head(q) \in PacketType /\ Tail(q) \in Seq(PacketType)
      /\ Len(q) \in Nat /\ Len(q) > 0 /\ Len(Tail(q)) = Len(q) - 1
      /\ \A i \in 1 .. Len(Tail(q)) : Tail(q)[i] = q[i + 1]
  BY HeadTailProperties
<1>10. 1 \in 1 .. Len(q)
  BY <1>1
<1>11. /\ q[1].live => 1 = Len(q)
       /\ h.left > 0 => q[1].kind \notin {"release", "decline"}
  BY <1>10, ZenonT(30) DEF Ordered
<1> DEFINE m == Head(q)
<1>12. m = q[1]
  BY <1>1
<1> HIDE DEF m
<1>13. /\ m.live => 1 = Len(q)
       /\ h.left > 0 => m.kind \notin {"release", "decline"}
  BY <1>11, <1>12
<1>2. m.live => Tail(q) = <<>>
  <2> SUFFICES ASSUME 1 = Len(q) PROVE Tail(q) = <<>>
    BY <1>13
  <2>1. Len(Tail(q)) = Len(q) - 1
    BY <1>1
  <2>2. Len(Tail(q)) = 0
    BY ONLY 1 = Len(q), <2>1
  <2> QED BY <1>1, <2>2, EmptySeq
<1>3. r.kind = "none"
  BY DEF Ordered
<1>4. ASSUME NEW i \in 1 .. Len(Tail(q)), Tail(q)[i].live PROVE i = Len(Tail(q))
  <2>1. i + 1 \in 1 .. Len(q) /\ q[i + 1].live
    BY <1>1, <1>4
  <2>2. i + 1 = Len(q)
    BY <2>1 DEF Ordered
  <2>3. Len(q) \in Nat /\ Len(Tail(q)) = Len(q) - 1 /\ i \in Nat
    BY <1>1
  <2> QED BY ONLY <2>2, <2>3
<1>5. ASSUME h.left > 0, NEW i \in 1 .. Len(Tail(q))
      PROVE  Tail(q)[i].kind \notin {"release", "decline"}
  <2>1. i + 1 \in 1 .. Len(q) /\ Tail(q)[i] = q[i + 1]
    BY <1>1
  <2> QED BY <1>5, <2>1 DEF Ordered
<1>6. Ordered(Tail(q), r, h)
  BY <1>3, <1>4, <1>5 DEF Ordered
<1>7. m \in PacketType
  BY <1>1 DEF m
<1> QED BY <1>1, <1>2, <1>3, <1>6, <1>7, <1>13 DEF m

(* Rewriting the packets without touching their kind.                      *)
LEMMA SameLength ==
    ASSUME NEW q \in Seq(PacketType), NEW p \in [DOMAIN q -> PacketType]
    PROVE  p \in Seq(PacketType) /\ Len(p) = Len(q)
<1>1. DOMAIN q = 1 .. Len(q) /\ Len(q) \in Nat
  BY LenProperties
<1>2. p \in Seq(PacketType)
  BY <1>1, IsASeq
<1>3. DOMAIN p = 1 .. Len(p) /\ Len(p) \in Nat
  BY <1>2, LenProperties
<1> QED BY <1>1, <1>2, <1>3

\* Appending the newest message keeps a queue ordered.
LEMMA SendOrdered ==
    ASSUME NEW q \in Seq(PacketType), NEW m \in PacketType, NEW r, NEW h, NEW g,
           Ordered(q, r, h), g.left > 0 => h.left > 0,
           g.left > 0 => m.kind \notin {"release", "decline"}
    PROVE  LET s == Append(Stale(q), m)
           IN  s \in Seq(PacketType) /\ Ordered(s, NoReply, g)
<1> DEFINE p == Stale(q)
           s == Append(p, m)
<1>1. DOMAIN q = 1 .. Len(q) /\ Len(q) \in Nat /\ \A i \in DOMAIN q : q[i] \in PacketType
  BY LenProperties, ElementOfSeq
<1>2. /\ p \in [DOMAIN q -> PacketType]
      /\ \A i \in DOMAIN q : p[i].kind = q[i].kind /\ ~p[i].live
  BY <1>1, Zenon DEF Stale, PacketType
<1> HIDE DEF p
<1>3. p \in Seq(PacketType) /\ Len(p) = Len(q)
  BY <1>2, SameLength
<1>4. /\ s \in Seq(PacketType) /\ Len(s) = Len(q) + 1 /\ s[Len(s)] = m
      /\ \A i \in 1 .. Len(q) : s[i] = p[i]
  BY <1>3, AppendProperties
<1>5. \A i \in 1 .. Len(s) : i = Len(s) \/ i \in DOMAIN q
  BY <1>1, <1>4
<1> HIDE DEF s
<1>6. \A i \in 1 .. Len(s) : s[i].live => i = Len(s)
  BY <1>1, <1>2, <1>4, <1>5
<1>7. g.left > 0 => \A i \in 1 .. Len(s) : s[i].kind \notin {"release", "decline"}
  <2> SUFFICES ASSUME g.left > 0, NEW i \in 1 .. Len(s)
               PROVE  s[i].kind \notin {"release", "decline"}
    OBVIOUS
  <2>1. CASE i = Len(s)
    BY <1>4, <2>1
  <2>2. CASE i \in DOMAIN q
    <3>1. s[i].kind = q[i].kind
      BY <1>1, <1>2, <1>4, <2>2
    <3> QED BY <1>1, <2>2, <3>1, Zenon DEF Ordered
  <2> QED BY <1>5, <2>1, <2>2
<1>8. NoReply.kind = "none"
  BY DEF NoReply
<1> QED BY <1>4, <1>6, <1>7, <1>8 DEF Ordered, p, s

-----------------------------------------------------------------------------
(* The invariant, action by action.                                        *)

\* The initial table and clients satisfy the invariant.
LEMMA InitInv == Init => Inv
<1> SUFFICES ASSUME Init PROVE Inv
  OBVIOUS
<1>1. /\ FreeLease \in LeaseType /\ FreeLease.state = "free"
      /\ NoReply \in ReplyType /\ NoReply.kind = "none"
      /\ NoHold \in HoldType /\ NoHold.left = 0
  BY DEF FreeLease, LeaseType, States, NoReply, ReplyType, NoHold, HoldType, Addresses
<1>2. <<>> \in Seq(PacketType) /\ Len(<<>>) = 0
  BY EmptySeq
<1>3. Types
  BY <1>1, <1>2 DEF Init, Types
<1>4. Unique(lease)
  BY <1>1 DEF Init, Unique, SameClient
<1>5. ASSUME NEW c \in Clients
      PROVE  Agreed(lease, hold[c], down[c], c) /\ Ordered(up[c], down[c], hold[c])
  <2>1. hold[c] = NoHold /\ down[c] = NoReply /\ up[c] = <<>>
    BY DEF Init
  <2>2. Agreed(lease, NoHold, NoReply, c)
    BY <1>1 DEF Agreed, Covers, Grants
  <2>3. Ordered(<<>>, NoReply, NoHold)
    BY <1>1, <1>2 DEF Ordered
  <2> QED BY <2>1, <2>2, <2>3
<1> QED BY <1>3, <1>4, <1>5 DEF Inv

(* The head packet of a client, when the server takes it.                  *)
LEMMA TakenPacket ==
    ASSUME Inv, NEW c \in Clients, Took(c)
    PROVE  /\ Head(up[c]) \in PacketType
           /\ up' \in [Clients -> Seq(PacketType)]
           /\ down[c].kind = "none"
           /\ Head(up[c]).live => up'[c] = <<>>
           /\ hold[c].left > 0 => Head(up[c]).kind \notin {"release", "decline"}
           /\ \A d \in Clients : Ordered(up'[d], down[d], hold[d])
<1>1. up[c] \in Seq(PacketType) /\ up[c] # <<>> /\ Ordered(up[c], down[c], hold[c])
  BY DEF Inv, Types, Took
<1>2. up' = [up EXCEPT ![c] = Tail(up[c])]
  BY DEF Took
<1>3. up \in [Clients -> Seq(PacketType)]
  BY DEF Inv, Types
<1>4. up'[c] = Tail(up[c]) /\ \A d \in Clients : d # c => up'[d] = up[d]
  BY <1>2, <1>3
<1>5. /\ Tail(up[c]) \in Seq(PacketType) /\ Head(up[c]) \in PacketType
      /\ Ordered(Tail(up[c]), down[c], hold[c]) /\ down[c].kind = "none"
      /\ Head(up[c]).live => Tail(up[c]) = <<>>
      /\ hold[c].left > 0 => Head(up[c]).kind \notin {"release", "decline"}
  BY <1>1, TailOrdered
<1>6. \A d \in Clients : Ordered(up[d], down[d], hold[d])
  BY DEF Inv
<1>7. up' \in [Clients -> Seq(PacketType)]
  BY <1>2, <1>3, <1>5
<1>8. \A d \in Clients : Ordered(up'[d], down[d], hold[d])
  BY <1>4, <1>5, <1>6
<1> QED BY <1>4, <1>5, <1>7, <1>8

(* What the table agreed with the clients survives the sweep.              *)
LEMMA SweptInv ==
    ASSUME Inv
    PROVE  /\ Swept \in [Slots -> LeaseType] /\ Unique(Swept)
           /\ \A c \in Clients : Agreed(Swept, hold[c], down[c], c)
<1>1. /\ lease \in [Slots -> LeaseType] /\ Unique(lease)
      /\ \A c \in Clients : hold[c] \in HoldType /\ down[c] \in ReplyType
      /\ \A c \in Clients : Agreed(lease, hold[c], down[c], c)
  BY DEF Inv, Types
<1> QED BY <1>1, SweepAgrees

\* A request that the server drops preserves the invariant.
LEMMA SilentInv ==
    ASSUME Inv, NEW c \in Clients, ReceiveSilently(c)
    PROVE  Inv'
<1> DEFINE m == Head(up[c])
<1>1. Took(c) /\ lease' = Dropped(Swept, c, m) /\ down' = down /\ hold' = hold
  BY DEF ReceiveSilently
<1>2. /\ m \in PacketType /\ up' \in [Clients -> Seq(PacketType)] /\ down[c].kind = "none"
      /\ hold[c].left > 0 => m.kind \notin {"release", "decline"}
      /\ \A d \in Clients : Ordered(up'[d], down[d], hold[d])
  BY <1>1, TakenPacket
<1>3. /\ Swept \in [Slots -> LeaseType] /\ Unique(Swept)
      /\ \A d \in Clients : Agreed(Swept, hold[d], down[d], d)
  BY SweptInv
<1>4. \A d \in Clients : hold[d] \in HoldType /\ down[d] \in ReplyType
  BY DEF Inv, Types
<1> HIDE DEF m
<1>5. /\ lease' \in [Slots -> LeaseType] /\ Unique(lease)'
      /\ m.kind \notin {"release", "decline"} => lease' = Swept
      /\ \A d \in Clients, h \in HoldType, r \in ReplyType :
            d # c /\ Agreed(Swept, h, r, d) => Agreed(lease', h, r, d)
  BY <1>1, <1>2, <1>3, DropAgrees, Zenon DEF Unique
<1>6. Agreed(lease', hold[c], down[c], c)
  <2>1. CASE m.kind \notin {"release", "decline"}
    BY <1>3, <1>5, <2>1
  <2>2. CASE m.kind \in {"release", "decline"}
    BY <1>2, <2>2 DEF Agreed, Covers, Grants
  <2> QED BY <2>1, <2>2
<1>7. \A d \in Clients : Agreed(lease', hold'[d], down'[d], d)
  BY <1>1, <1>3, <1>4, <1>5, <1>6
<1>8. Types'
  BY <1>1, <1>2, <1>5 DEF Inv, Types
<1>9. \A d \in Clients : Ordered(up'[d], down'[d], hold'[d])
  BY <1>1, <1>2
<1> QED BY <1>5, <1>7, <1>8, <1>9 DEF Inv

\* A reply that could not be sent preserves the invariant.
LEMMA UnsentInv ==
    ASSUME Inv, NEW c \in Clients, ReceiveUnsent(c)
    PROVE  Inv'
<1>1. Took(c) /\ lease' = Swept /\ down' = down /\ hold' = hold
  BY DEF ReceiveUnsent
<1>2. /\ up' \in [Clients -> Seq(PacketType)]
      /\ \A d \in Clients : Ordered(up'[d], down[d], hold[d])
  BY <1>1, TakenPacket
<1>3. /\ Swept \in [Slots -> LeaseType] /\ Unique(Swept)
      /\ \A d \in Clients : Agreed(Swept, hold[d], down[d], d)
  BY SweptInv
<1>4. Types' /\ Unique(lease')
  BY <1>1, <1>2, <1>3 DEF Inv, Types
<1>5. \A d \in Clients : Agreed(lease', hold'[d], down'[d], d) /\ Ordered(up'[d], down'[d], hold'[d])
  BY <1>1, <1>2, <1>3
<1> QED BY <1>4, <1>5 DEF Inv

\* A reply that was sent, with its change of the lease, preserves the invariant.
LEMMA AnsweredInv ==
    ASSUME Inv, NEW c \in Clients, ReceiveAnswered(c)
    PROVE  Inv'
<1> DEFINE m == Head(up[c])
           a == Answer(Swept, c, m)
           n == [kind |-> a.kind, addr |-> a.addr, age |-> m.age,
                 fresh |-> a.kind = "offer" /\ Swept[a.addr].state # "bound"]
<1>1. /\ Took(c) /\ lease' = Recorded(Swept, c, a) /\ hold' = hold
      /\ down' = [down EXCEPT ![c] = IF m.live THEN n ELSE down[c]]
  BY ZenonT(30) DEF ReceiveAnswered, TheAnswer
<1>2. /\ m \in PacketType /\ up' \in [Clients -> Seq(PacketType)] /\ down[c].kind = "none"
      /\ m.live => up'[c] = <<>>
      /\ \A d \in Clients : Ordered(up'[d], down[d], hold[d])
  BY <1>1, TakenPacket
<1>3. /\ Swept \in [Slots -> LeaseType] /\ Unique(Swept)
      /\ \A d \in Clients : Agreed(Swept, hold[d], down[d], d)
  BY SweptInv
<1>4. down \in [Clients -> ReplyType] /\ \A d \in Clients : hold[d] \in HoldType
  BY ZenonT(30) DEF Inv, Types
<1> HIDE DEF m
<1>5. /\ lease' \in [Slots -> LeaseType] /\ Unique(lease')
      /\ \A d \in Clients, h \in HoldType, r \in ReplyType :
            Agreed(Swept, h, r, d) => Agreed(lease', h, r, d)
  BY <1>1, <1>2, <1>3, RecordAgrees
<1>6. \/ a.kind \in {"none", "nak"} /\ a.addr = Outside
      \/ /\ a.kind \in {"offer", "ack"} /\ a.addr \in Slots
         /\ SameClient(Swept[a.addr], c)
      \/ a.kind = "offer" /\ a.addr \in Slots
  BY <1>2, <1>3, AnswerIsOwnOrFree
<1>7. m.age \in Nat
  BY <1>2, ZenonT(30) DEF PacketType
<1>8. a.kind = "ack" => /\ a.addr \in Slots
                        /\ lease'[a.addr] = [state |-> "bound", client |-> c, age |-> 0]
  BY <1>1, <1>3, <1>6 DEF Recorded
<1> HIDE DEF a
<1>9. n \in ReplyType /\ n.kind = a.kind /\ n.addr = a.addr /\ n.age = m.age
  BY <1>6, <1>7 DEF ReplyType, Addresses
<1> HIDE DEF n
<1>10. Grants(lease', n, c)
  BY <1>7, <1>8, <1>9 DEF Grants
<1>11. /\ down' \in [Clients -> ReplyType]
       /\ \A d \in Clients : down'[d] = down[d] \/ (d = c /\ m.live /\ down'[d] = n)
  BY <1>1, <1>4, <1>9
<1>12. \A d \in Clients : Agreed(lease', hold[d], down[d], d)
  BY <1>3, <1>4, <1>5
<1>13. \A d \in Clients : Agreed(lease', hold'[d], down'[d], d)
  BY <1>1, <1>10, <1>11, <1>12 DEF Agreed
<1>14. \A d \in Clients : Ordered(up'[d], down'[d], hold'[d])
  <2> SUFFICES ASSUME NEW d \in Clients PROVE Ordered(up'[d], down'[d], hold[d])
    BY <1>1
  <2>1. CASE down'[d] = down[d]
    BY <1>2, <2>1
  <2>2. CASE d = c /\ m.live /\ down'[d] = n
    <3>1. up'[d] = <<>>
      BY <1>2, <2>2
    <3>2. Len(<<>>) = 0
      BY EmptySeq
    <3> QED BY <3>1, <3>2 DEF Ordered
  <2> QED BY <1>11, <2>1, <2>2
<1>15. Types'
  BY <1>1, <1>2, <1>5, <1>11 DEF Inv, Types
<1> QED BY <1>5, <1>13, <1>14, <1>15 DEF Inv

(* A client without a reply under way.                                     *)
LEMMA NoReplyFacts ==
    /\ NoReply \in ReplyType /\ NoHold \in HoldType /\ NoHold.left = 0
    /\ \A table, h, r, c : Agreed(table, h, r, c) => Agreed(table, h, NoReply, c)
    /\ \A table, c : Agreed(table, NoHold, NoReply, c)
    /\ \A q, r, h : Ordered(q, r, h) => Ordered(q, NoReply, h) /\ Ordered(q, NoReply, NoHold)
<1>1. /\ NoReply \in ReplyType /\ NoReply.kind = "none"
      /\ NoHold \in HoldType /\ NoHold.left = 0
  BY DEF NoReply, ReplyType, NoHold, HoldType, Addresses
<1> QED BY <1>1 DEF Agreed, Covers, Grants, Ordered

\* A client's message preserves the invariant.
LEMMA SendInv ==
    ASSUME Inv, NEW c \in Clients,
           NEW kind \in {"discover", "request", "release", "decline"},
           NEW addr \in Addresses, NEW server \in BOOLEAN, Send(c, kind, addr, server),
           \/ hold' = hold /\ kind \notin {"release", "decline"}
           \/ hold' = [hold EXCEPT ![c] = NoHold]
    PROVE  Inv'
<1> DEFINE m == [kind |-> kind, addr |-> addr, server |-> server, live |-> TRUE, age |-> 0]
           s == Append(Stale(up[c]), m)
<1>1. /\ up \in [Clients -> Seq(PacketType)] /\ down \in [Clients -> ReplyType]
      /\ hold \in [Clients -> HoldType] /\ lease \in [Slots -> LeaseType]
      /\ Unique(lease)
      /\ \A d \in Clients : Agreed(lease, hold[d], down[d], d) /\ Ordered(up[d], down[d], hold[d])
  BY DEF Inv, Types
<1>2. /\ up' = [up EXCEPT ![c] = s] /\ down' = [down EXCEPT ![c] = NoReply] /\ lease' = lease
  BY DEF Send
<1>3. m \in PacketType /\ m.kind = kind
  BY DEF PacketType
<1> HIDE DEF m
<1>4. /\ hold' \in [Clients -> HoldType] /\ \A d \in Clients : d # c => hold'[d] = hold[d]
      /\ hold'[c] = hold[c] \/ hold'[c] = NoHold
      /\ hold'[c].left > 0 => kind \notin {"release", "decline"} /\ hold[c].left > 0
  <2>1. CASE hold' = hold /\ kind \notin {"release", "decline"}
    BY <1>1, <2>1
  <2>2. CASE hold' = [hold EXCEPT ![c] = NoHold]
    <3>1. NoHold \in HoldType /\ NoHold.left = 0
      BY NoReplyFacts
    <3>2. hold'[c] = NoHold
      BY <1>1, <2>2
    <3> QED BY <1>1, <2>2, <3>1, <3>2
  <2> QED BY <2>1, <2>2
<1>5. s \in Seq(PacketType) /\ Ordered(s, NoReply, hold'[c])
  BY <1>1, <1>3, <1>4, SendOrdered, Zenon
<1> HIDE DEF s
<1>6. /\ up' \in [Clients -> Seq(PacketType)] /\ down' \in [Clients -> ReplyType]
      /\ up'[c] = s /\ down'[c] = NoReply
      /\ \A d \in Clients : d # c => up'[d] = up[d] /\ down'[d] = down[d]
  BY <1>1, <1>2, <1>5, NoReplyFacts
<1>7. Agreed(lease, hold'[c], NoReply, c)
  BY <1>1, <1>4, NoReplyFacts
<1>8. \A d \in Clients : Agreed(lease', hold'[d], down'[d], d) /\ Ordered(up'[d], down'[d], hold'[d])
  BY <1>1, <1>2, <1>4, <1>5, <1>6, <1>7
<1>9. Types' /\ Unique(lease')
  BY <1>1, <1>2, <1>4, <1>6 DEF Types
<1> QED BY <1>8, <1>9 DEF Inv

\* A client that takes a reply preserves the invariant.
LEMMA ClientInv ==
    ASSUME Inv, NEW c \in Clients, Discover(c) \/ Request(c) \/ Release(c) \/ Decline(c)
    PROVE  Inv'
<1>1. CASE Discover(c)
  BY <1>1, SendInv, Zenon DEF Discover, Addresses
<1>2. CASE Request(c)
  BY <1>2, SendInv DEF Request
<1>3. CASE Release(c) \/ Decline(c)
  <2>1. hold[c].addr \in Addresses
    BY DEF Inv, Types, HoldType
  <2> QED BY <1>3, <2>1, SendInv, Zenon DEF Release, Decline, GiveUp
<1> QED BY <1>1, <1>2, <1>3

(* A grant that arrives is covered: the table has kept the address since   *)
(* after the request was sent.                                             *)
LEMMA ReplyInv ==
    ASSUME Inv, NEW c \in Clients, Reply(c)
    PROVE  Inv'
<1> DEFINE r == down[c]
           n == hold'[c]
<1>1. /\ up \in [Clients -> Seq(PacketType)] /\ down \in [Clients -> ReplyType]
      /\ hold \in [Clients -> HoldType] /\ lease \in [Slots -> LeaseType]
      /\ Unique(lease)
      /\ \A d \in Clients : Agreed(lease, hold[d], down[d], d) /\ Ordered(up[d], down[d], hold[d])
  BY DEF Inv, Types
<1>2. /\ down' = [down EXCEPT ![c] = NoReply] /\ lease' = lease /\ up' = up
      /\ hold' = [hold EXCEPT ![c] =
             CASE r.kind = "ack" -> Held(r.addr, Counted(LeaseTicks, r.age))
               [] r.kind = "nak" -> NoHold
               [] OTHER -> hold[c]]
  BY DEF Reply
<1>3. r.age \in Nat /\ r.addr \in Addresses
  BY <1>1 DEF ReplyType
<1>4. \/ n = hold[c] \/ n = NoHold
      \/ /\ r.kind = "ack" /\ r.age < LeaseTicks
         /\ n = [addr |-> r.addr, left |-> LeaseTicks - r.age]
  BY <1>1, <1>2, <1>3 DEF Held, Counted
<1>5. \A d \in Clients : d # c => hold'[d] = hold[d] /\ down'[d] = down[d]
  BY <1>1, <1>2
<1>6. down'[c] = NoReply /\ down' \in [Clients -> ReplyType]
  BY <1>1, <1>2, NoReplyFacts
<1> HIDE DEF n
<1>9. n \in HoldType /\ Agreed(lease, n, NoReply, c) /\ Ordered(up[c], NoReply, n)
  <2>1. CASE n = hold[c]
    BY <1>1, <2>1, NoReplyFacts
  <2>2. CASE n = NoHold
    BY <1>1, <2>2, NoReplyFacts
  <2>3. CASE /\ r.kind = "ack" /\ r.age < LeaseTicks
             /\ n = [addr |-> r.addr, left |-> LeaseTicks - r.age]
    <3>1. /\ r.addr \in Slots
          /\ lease[r.addr].state = "bound" /\ lease[r.addr].client = c
          /\ lease[r.addr].age <= r.age
      BY <1>1, <2>3 DEF Agreed, Grants
    <3>2. lease[r.addr].age \in Nat /\ LeaseTicks \in Nat
      BY <1>1, <3>1, Zenon DEF LeaseType
    <3>3. n.addr = r.addr /\ n.left = LeaseTicks - r.age /\ LeaseTicks - r.age \in Nat
      BY ONLY <1>3, <2>3, <3>2
    <3>4. lease[r.addr].age + (LeaseTicks - r.age) <= LeaseTicks
      BY ONLY <1>3, <3>1, <3>2
    <3>5. Covers(lease, n, c)
      BY <3>1, <3>3, <3>4 DEF Covers
    <3>6. up[c] = <<>> /\ Len(<<>>) = 0
      BY <1>1, <2>3, EmptySeq DEF Ordered
    <3>7. Ordered(up[c], NoReply, n)
      BY <3>6 DEF Ordered, NoReply
    <3>8. Agreed(lease, n, NoReply, c)
      BY <3>5 DEF Agreed, Grants, NoReply
    <3>9. n \in HoldType
      BY <1>3, <2>3, <3>3 DEF HoldType
    <3> QED BY <3>7, <3>8, <3>9
  <2> QED BY <1>4, <2>1, <2>2, <2>3
<1>10. hold' \in [Clients -> HoldType]
  BY <1>1, <1>2, <1>9 DEF n
<1>11. \A d \in Clients : Agreed(lease', hold'[d], down'[d], d) /\ Ordered(up'[d], down'[d], hold'[d])
  BY <1>1, <1>2, <1>5, <1>6, <1>9 DEF n
<1>12. Types' /\ Unique(lease')
  BY <1>1, <1>2, <1>6, <1>10 DEF Types
<1> QED BY <1>11, <1>12 DEF Inv

\* A lost message preserves the invariant.
LEMMA LoseInv ==
    ASSUME Inv, NEW c \in Clients, Lose(c)
    PROVE  Inv'
<1>1. /\ up \in [Clients -> Seq(PacketType)] /\ down \in [Clients -> ReplyType]
      /\ hold \in [Clients -> HoldType] /\ lease \in [Slots -> LeaseType]
      /\ Unique(lease)
      /\ \A d \in Clients : Agreed(lease, hold[d], down[d], d) /\ Ordered(up[d], down[d], hold[d])
  BY DEF Inv, Types
<1>2. lease' = lease /\ hold' = hold
  BY DEF Lose
<1>3. CASE Took(c) /\ down' = down
  <2>1. /\ up' \in [Clients -> Seq(PacketType)]
        /\ \A d \in Clients : Ordered(up'[d], down[d], hold[d])
    BY <1>3, TakenPacket
  <2> QED BY <1>1, <1>2, <1>3, <2>1 DEF Inv, Types
<1>4. CASE down' = [down EXCEPT ![c] = NoReply] /\ up' = up
  <2>1. /\ down' \in [Clients -> ReplyType]
        /\ \A d \in Clients : down'[d] = down[d] \/ down'[d] = NoReply
    BY <1>1, <1>4, NoReplyFacts
  <2>2. \A d \in Clients : Agreed(lease, hold[d], down'[d], d) /\ Ordered(up[d], down'[d], hold[d])
    BY <1>1, <2>1, NoReplyFacts, SMTT(30)
  <2> QED BY <1>1, <1>2, <1>4, <2>1, <2>2 DEF Inv, Types
<1> QED BY <1>3, <1>4 DEF Lose

\* An inform, which changes no lease, preserves the invariant.
LEMMA InformInv ==
    ASSUME Inv, NEW c \in Clients, ReceiveInform(c)
    PROVE  Inv'
BY SweptInv DEF ReceiveInform, Inv, Types

(* Time: a lease ages by at most a tick while what its client counts on    *)
(* shrinks by one.                                                         *)
LEMMA TickInv ==
    ASSUME Inv, Tick
    PROVE  Inv'
<1>1. /\ up \in [Clients -> Seq(PacketType)] /\ down \in [Clients -> ReplyType]
      /\ hold \in [Clients -> HoldType] /\ lease \in [Slots -> LeaseType]
      /\ Unique(lease)
      /\ \A d \in Clients : Agreed(lease, hold[d], down[d], d) /\ Ordered(up[d], down[d], hold[d])
  BY DEF Inv, Types
<1>2. \A i \in Slots : /\ lease'[i] = [lease[i] EXCEPT !.age = Older(lease[i].age, Duration(lease[i].state))]
                       /\ lease[i].age \in Nat
  BY <1>1 DEF Tick, LeaseType
<1>3. \A n, cap \in Nat : Older(n, cap) \in Nat /\ Older(n, cap) <= n + 1
  BY DEF Older
<1>4. \A i \in Slots : Duration(lease[i].state) \in Nat
  BY DEF Duration
<1>5. ASSUME NEW i \in Slots
      PROVE  /\ lease'[i] \in LeaseType /\ lease'[i].state = lease[i].state
             /\ lease'[i].client = lease[i].client /\ lease'[i].age <= lease[i].age + 1
  <2>1. lease[i] \in LeaseType
    BY <1>1
  <2>2. PICK x \in Nat : lease'[i] = [lease[i] EXCEPT !.age = x] /\ x <= lease[i].age + 1
    BY <1>2, <1>3, <1>4, Zenon
  <2> QED BY <2>1, <2>2 DEF LeaseType
<1>6. lease' \in [Slots -> LeaseType]
  BY <1>5 DEF Tick
<1>7. Unique(lease')
  BY <1>1, <1>5, Zenon DEF Unique, SameClient
<1>8. ASSUME NEW c \in Clients
      PROVE  /\ hold'[c] \in HoldType /\ Covers(lease', hold'[c], c)
             /\ hold'[c].left > 0 => hold[c].left > 0
  <2>1. hold[c].left \in Nat /\ hold[c].addr \in Addresses
    BY <1>1 DEF HoldType
  <2>2. hold'[c] = Held(hold[c].addr, Counted(hold[c].left, 1))
    BY DEF Tick
  <2>3. CASE hold'[c] = NoHold
    BY <1>6, <2>3, NoReplyFacts DEF Covers
  <2>4. CASE hold'[c] # NoHold
    <3>1. hold'[c] = [addr |-> hold[c].addr, left |-> hold[c].left - 1] /\ hold[c].left > 1
      BY <2>1, <2>2, <2>4, SMTT(30) DEF Held, Counted
    <3>2. /\ hold[c].addr \in Slots
          /\ lease[hold[c].addr].state = "bound" /\ lease[hold[c].addr].client = c
          /\ lease[hold[c].addr].age + hold[c].left <= LeaseTicks
      BY <1>1, <2>1, <3>1 DEF Agreed, Covers
    <3>3. /\ lease'[hold[c].addr].age \in Nat /\ lease[hold[c].addr].age \in Nat
          /\ lease'[hold[c].addr].age <= lease[hold[c].addr].age + 1 /\ LeaseTicks \in Nat
      BY <1>2, <1>5, <3>2, Zenon DEF LeaseType
    <3>4. lease'[hold[c].addr].age + (hold[c].left - 1) <= LeaseTicks
      BY ONLY <2>1, <3>2, <3>3
    <3>5. hold'[c].addr = hold[c].addr /\ hold'[c].left = hold[c].left - 1
      BY <3>1
    <3>6. hold[c].left - 1 \in Nat /\ hold[c].left > 0
      BY <2>1, <3>1
    <3>7. Covers(lease', hold'[c], c)
      BY <1>5, <3>2, <3>4, <3>5, Zenon DEF Covers
    <3> QED BY <2>1, <3>1, <3>6, <3>7 DEF HoldType
  <2> QED BY <2>3, <2>4
<1>9. ASSUME NEW c \in Clients
      PROVE  /\ down'[c] \in ReplyType /\ Grants(lease', down'[c], c)
             /\ down'[c].kind = down[c].kind
  <2> DEFINE r == down[c]
  <2>1. r \in ReplyType /\ r.age \in Nat /\ LeaseTicks \in Nat /\ OfferTicks \in Nat
    BY <1>1 DEF ReplyType
  <2>2. CASE r.kind = "ack"
    <3>1. down'[c] = [r EXCEPT !.age = Older(r.age, LeaseTicks)]
      BY <2>2 DEF Tick
    <3>2. Older(r.age, LeaseTicks) \in Nat
      BY <1>3, <2>1, Zenon
    <3>3. /\ down'[c] \in ReplyType /\ down'[c].kind = "ack" /\ down'[c].addr = r.addr
          /\ down'[c].age = Older(r.age, LeaseTicks)
      BY <2>1, <2>2, <3>1, <3>2 DEF ReplyType
    <3>4. /\ r.addr \in Slots
          /\ r.age < LeaseTicks =>
               /\ lease[r.addr].state = "bound" /\ lease[r.addr].client = c
               /\ lease[r.addr].age <= r.age
      BY <1>1, <2>2 DEF Agreed, Grants
    <3>5. Older(r.age, LeaseTicks) < LeaseTicks => r.age < LeaseTicks /\ Older(r.age, LeaseTicks) = r.age + 1
      BY <2>1 DEF Older
    <3>6. /\ lease'[r.addr].age \in Nat /\ lease[r.addr].age \in Nat
          /\ lease'[r.addr].age <= lease[r.addr].age + 1
      BY <1>2, <1>5, <3>4, Zenon DEF LeaseType
    <3>7. lease[r.addr].age <= r.age => lease'[r.addr].age <= r.age + 1
      BY ONLY <2>1, <3>6
    <3>8. Grants(lease', down'[c], c)
      BY <1>5, <3>3, <3>4, <3>5, <3>7, Zenon DEF Grants
    <3> QED BY <2>2, <3>3, <3>8
  <2>3. CASE r.kind = "offer"
    <3>1. down'[c] = [r EXCEPT !.age = Older(r.age, OfferTicks)]
      BY <2>3 DEF Tick
    <3>2. Older(r.age, OfferTicks) \in Nat
      BY <1>3, <2>1, Zenon
    <3>3. down'[c] \in ReplyType /\ down'[c].kind = "offer"
      BY <2>1, <2>3, <3>1, <3>2 DEF ReplyType
    <3> QED BY <2>3, <3>3 DEF Grants
  <2>4. CASE r.kind \notin {"ack", "offer"}
    <3>1. down'[c] = r
      BY <2>4 DEF Tick
    <3> QED BY <2>1, <2>4, <3>1 DEF Grants
  <2> QED BY <2>2, <2>3, <2>4
<1>10. ASSUME NEW c \in Clients
       PROVE  up'[c] \in Seq(PacketType) /\ Ordered(up'[c], down'[c], hold'[c])
  <2> DEFINE q == up[c]
             p == up'[c]
  <2>1. /\ q \in Seq(PacketType) /\ DOMAIN q = 1 .. Len(q) /\ Len(q) \in Nat
        /\ \A i \in DOMAIN q : q[i] \in PacketType
    BY <1>1, LenProperties, ElementOfSeq
  <2>2. p = [i \in DOMAIN q |-> IF q[i].live /\ q[i].kind = "request"
                               THEN [q[i] EXCEPT !.age = Older(q[i].age, LeaseTicks)] ELSE q[i]]
    BY DEF Tick
  <2>3. ASSUME NEW i \in DOMAIN q
        PROVE  p[i] \in PacketType /\ p[i].kind = q[i].kind /\ (p[i].live => q[i].live)
    <3>1. q[i] \in PacketType /\ q[i].age \in Nat
      BY <2>1 DEF PacketType
    <3>2. Older(q[i].age, LeaseTicks) \in Nat
      BY <1>3, <3>1, Zenon
    <3>3. PICK x \in Nat : p[i] = q[i] \/ p[i] = [q[i] EXCEPT !.age = x]
      BY <2>2, <3>2
    <3> QED BY <3>1, <3>3 DEF PacketType
  <2>4. p \in [DOMAIN q -> PacketType]
    BY <2>2, <2>3
  <2>5. p \in Seq(PacketType) /\ Len(p) = Len(q)
    BY <2>1, <2>4, SameLength
  <2>6. Ordered(q, down[c], hold[c])
    BY <1>1
  <2>7. q = <<>> => p = <<>>
    <3>1. q = <<>> => Len(p) = 0
      BY <2>5, EmptySeq
    <3> QED BY <2>5, <3>1, EmptySeq
  <2> HIDE DEF p, q
  <2>8. down'[c].kind # "none" => p = <<>>
    BY <1>9, <2>6, <2>7 DEF Ordered
  <2>9. \A i \in 1 .. Len(p) : p[i].live => i = Len(p)
    BY <2>1, <2>3, <2>5, <2>6, Zenon DEF Ordered
  <2>10. hold'[c].left > 0 => \A i \in 1 .. Len(p) : p[i].kind \notin {"release", "decline"}
    BY <1>8, <2>1, <2>3, <2>5, <2>6, Zenon DEF Ordered
  <2> QED BY <2>5, <2>8, <2>9, <2>10 DEF Ordered, p
<1>11. /\ up' \in [Clients -> Seq(PacketType)] /\ down' \in [Clients -> ReplyType]
       /\ hold' \in [Clients -> HoldType]
  <2>1. /\ up' = [c \in Clients |-> up'[c]] /\ down' = [c \in Clients |-> down'[c]]
        /\ hold' = [c \in Clients |-> hold'[c]]
    BY DEF Tick
  <2> QED BY <1>8, <1>9, <1>10, <2>1
<1>12. Types'
  BY <1>6, <1>11 DEF Types
<1>13. \A c \in Clients : Agreed(lease', hold'[c], down'[c], c) /\ Ordered(up'[c], down'[c], hold'[c])
  BY <1>8, <1>9, <1>10 DEF Agreed
<1> QED BY <1>7, <1>12, <1>13 DEF Inv

\* A restart of the server, which takes the interface away, preserves the invariant.
LEMMA RestartInv ==
    ASSUME Restart
    PROVE  Inv'
<1>1. Init'
  BY DEF Restart, Init
<1> QED BY <1>1, InitInv, PTL

\* Every step preserves the invariant.
LEMMA NextInv == Inv /\ [Next]_vars => Inv'
<1> SUFFICES ASSUME Inv, [Next]_vars PROVE Inv'
  OBVIOUS
<1>1. CASE UNCHANGED vars
  BY <1>1 DEF vars, Inv, Types
<1>2. CASE Tick
  BY <1>2, TickInv
<1>3. CASE Restart
  BY <1>3, RestartInv
<1>4. ASSUME NEW c \in Clients,
             \/ Discover(c) \/ Request(c) \/ Release(c) \/ Decline(c)
             \/ ReceiveSilently(c) \/ ReceiveAnswered(c) \/ ReceiveUnsent(c)
             \/ ReceiveInform(c) \/ Reply(c) \/ Lose(c)
      PROVE  Inv'
  BY <1>4, ClientInv, SilentInv, AnsweredInv, UnsentInv, InformInv, ReplyInv, LoseInv
<1> QED BY <1>1, <1>2, <1>3, <1>4 DEF Next

(* The agreement between the table and every client holds throughout.      *)
THEOREM Invariance == Spec => []Inv
<1> QED BY InitInv, NextInv, PTL DEF Spec

(* Two hosts never use one address, whatever receive is sent, in whatever  *)
(* order, and whichever of its replies are lost: both would be the client  *)
(* of the one lease that covers them.                                      *)
THEOREM AddressesDiffer == Spec => []NoSharedAddress
<1>1. Inv => NoSharedAddress
  <2> SUFFICES ASSUME Inv, NEW c \in Clients, NEW d \in Clients, c # d,
                      hold[c].left > 0, hold[d].left > 0
               PROVE  hold[c].addr # hold[d].addr
    BY DEF NoSharedAddress
  <2>1. Covers(lease, hold[c], c) /\ Covers(lease, hold[d], d)
    BY DEF Inv, Agreed
  <2> QED BY <2>1 DEF Covers
<1> QED BY <1>1, Invariance, PTL

(* No client is ever entered in the table twice, so the search of receive  *)
(* finds its only entry.                                                   *)
THEOREM EnteredOnce == Spec => []OneLeasePerClient
<1>1. Inv => OneLeasePerClient
  BY Zenon DEF Inv, Unique, OneLeasePerClient
<1> QED BY <1>1, Invariance, PTL

-----------------------------------------------------------------------------
(* Offers and quarantine.  An offer that the table recorded is backed by an *)
(* entry of its client that outlives it (Backs), from the moment it is sent *)
(* (Promised) to the moment it lapses (Stands); a declined address stays    *)
(* declined in the table while it must rest (Rested).                       *)

OfferType == [addr : Addresses, left : Nat, fresh : BOOLEAN]

Backs(table, i, n, c) ==
    /\ i \in Slots /\ SameClient(table[i], c)
    /\ table[i].age + n <= Duration(table[i].state)

Stands(table, o, c) ==
    o.fresh => o.left > 0 /\ o.left <= OfferTicks /\ Backs(table, o.addr, o.left, c)

Promised(table, r, c) ==
    r.fresh => /\ r.kind = "offer"
               /\ r.age < OfferTicks => Backs(table, r.addr, OfferTicks - r.age, c)

Wanted(q, o) ==
    o.fresh => \A i \in 1 .. Len(q) : q[i].kind \notin {"release", "decline"}

Rested(table, n, i) ==
    n > 0 => table[i].state = "declined" /\ table[i].age + n <= DeclineTicks

OfferInv ==
    /\ offer \in [Clients -> OfferType] /\ rest \in [Slots -> Nat]
    /\ \A c \in Clients : /\ Stands(lease, offer[c], c) /\ Promised(lease, down[c], c)
                          /\ Wanted(up[c], offer[c])
    /\ \A i \in Slots : Rested(lease, rest[i], i)

(* What a change of the table must leave alone: the entries of client d    *)
(* that have not expired are there still, perhaps renewed; and declined    *)
(* ones that have not expired are as they were.                            *)
KeepsFor(t, u, d) ==
    \A i \in Slots : SameClient(t[i], d) /\ t[i].age < Duration(t[i].state) =>
        u[i] = t[i] \/ (SameClient(u[i], d) /\ u[i].age = 0)
KeepsRest(t, u) ==
    \A i \in Slots : t[i].state = "declined" /\ t[i].age < DeclineTicks => u[i] = t[i]

(* An offer outlives such a change.                                        *)
LEMMA BacksKept ==
    ASSUME NEW t \in [Slots -> LeaseType], NEW u \in [Slots -> LeaseType], NEW d \in Clients,
           KeepsFor(t, u, d), NEW i, NEW n \in Nat, 0 < n, n <= OfferTicks, Backs(t, i, n, d)
    PROVE  Backs(u, i, n, d)
<1>1. /\ i \in Slots /\ SameClient(t[i], d) /\ t[i].age + n <= Duration(t[i].state)
  BY DEF Backs
<1>2. t[i].age \in Nat /\ Duration(t[i].state) \in Nat
  BY <1>1 DEF LeaseType, Duration
<1>3. t[i].age < Duration(t[i].state)
  BY <1>1, <1>2
<1>4. CASE u[i] = t[i]
  BY <1>1, <1>4 DEF Backs
<1>5. CASE SameClient(u[i], d) /\ u[i].age = 0
  <2>1. Duration(u[i].state) \in {OfferTicks, LeaseTicks}
    BY <1>5 DEF SameClient, Duration
  <2> QED BY <1>1, <1>5, <2>1 DEF Backs
<1> QED BY <1>1, <1>3, <1>4, <1>5 DEF KeepsFor

\* So does what a client has been offered, or is about to be.
LEMMA OfferKept ==
    ASSUME NEW t \in [Slots -> LeaseType], NEW u \in [Slots -> LeaseType], NEW d \in Clients,
           KeepsFor(t, u, d), NEW o \in OfferType, NEW r \in ReplyType
    PROVE  /\ Stands(t, o, d) => Stands(u, o, d)
           /\ Promised(t, r, d) => Promised(u, r, d)
<1>1. o.left \in Nat /\ r.age \in Nat
  BY DEF OfferType, ReplyType
<1>2. Stands(t, o, d) => Stands(u, o, d)
  BY <1>1, BacksKept DEF Stands
<1>3. ASSUME Promised(t, r, d), r.fresh, r.age < OfferTicks
      PROVE  Backs(u, r.addr, OfferTicks - r.age, d)
  <2>1. PICK n : n = OfferTicks - r.age
    OBVIOUS
  <2>2. n \in Nat /\ 0 < n /\ n <= OfferTicks
    BY <1>1, <1>3, <2>1
  <2>3. Backs(t, r.addr, n, d)
    BY <1>3, <2>1 DEF Promised
  <2>4. Backs(u, r.addr, n, d)
    BY <2>2, <2>3, BacksKept
  <2> QED BY <2>1, <2>4
<1>4. Promised(t, r, d) => Promised(u, r, d)
  BY <1>3 DEF Promised
<1> QED BY <1>2, <1>4

\* A quarantine outlives it too.
LEMMA RestKept ==
    ASSUME NEW t \in [Slots -> LeaseType], NEW u, KeepsRest(t, u), NEW i \in Slots,
           NEW n \in Nat, Rested(t, n, i)
    PROVE  Rested(u, n, i)
<1>1. t[i].age \in Nat
  BY DEF LeaseType
<1> QED BY <1>1 DEF Rested, KeepsRest

(* The sweep removes only what has expired.                                *)
LEMMA SweepKeeps ==
    ASSUME lease \in [Slots -> LeaseType]
    PROVE  KeepsRest(lease, Swept) /\ \A d \in Clients : KeepsFor(lease, Swept, d)
<1>1. \A i \in Slots : lease[i].age \in Nat /\ Duration(lease[i].state) \in Nat
  BY DEF LeaseType, Duration
<1>2. \A i \in Slots : lease[i].age < Duration(lease[i].state) => Swept[i] = lease[i]
  BY <1>1 DEF Swept, Expired
<1>3. \A i \in Slots : lease[i].state = "declined" => Duration(lease[i].state) = DeclineTicks
  BY DEF Duration
<1>4. KeepsRest(lease, Swept)
  BY <1>2, <1>3 DEF KeepsRest
<1> QED BY <1>2, <1>4, Zenon DEF KeepsFor

(* An answer is recorded in a free entry, or in the client's own.          *)
LEMMA RecordKeeps ==
    ASSUME NEW table \in [Slots -> LeaseType], Unique(table), NEW c \in Clients,
           NEW m \in PacketType, NEW t, t = Recorded(table, c, Answer(table, c, m))
    PROVE  KeepsRest(table, t) /\ \A d \in Clients : KeepsFor(table, t, d)
<1>1. PICK a : a = Answer(table, c, m)
  OBVIOUS
<1>2. \/ a.kind \in {"none", "nak"} /\ a.addr = Outside
      \/ /\ a.kind \in {"offer", "ack"} /\ a.addr \in Slots
         /\ SameClient(table[a.addr], c)
      \/ /\ a.kind = "offer" /\ a.addr \in Slots /\ table[a.addr].state = "free"
         /\ \A i \in Slots : ~SameClient(table[i], c)
  BY <1>1, AnswerIsOwnOrFree
<1>3. CASE t = table
  BY <1>3 DEF KeepsRest, KeepsFor
<1>4. CASE t # table
  <2>1. a.addr \in Slots
    BY <1>1, <1>2, <1>4 DEF Recorded
  <2>2. PICK n : n = [state |-> IF a.kind = "offer" THEN "offered" ELSE "bound",
                      client |-> c, age |-> 0]
    BY Zenon
  <2>3. t = [table EXCEPT ![a.addr] = n]
    BY <1>1, <1>4, <2>2 DEF Recorded
  <2>4. SameClient(n, c) /\ n.age = 0
    BY <2>2 DEF SameClient
  <2>5. t[a.addr] = n /\ \A i \in Slots : i # a.addr => t[i] = table[i]
    BY <2>1, <2>3
  <2>6. table[a.addr].state # "declined"
        /\ \A d \in Clients : d # c => ~SameClient(table[a.addr], d)
    BY <1>2, <2>1 DEF SameClient
  <2> QED BY <2>4, <2>5, <2>6 DEF KeepsRest, KeepsFor
<1> QED BY <1>3, <1>4

(* An address that is given back was its client's own; one that is         *)
(* declined begins to rest.                                                *)
LEMMA DropKeeps ==
    ASSUME NEW table \in [Slots -> LeaseType], Unique(table), NEW c \in Clients,
           NEW m \in PacketType, NEW t, t = Dropped(table, c, m)
    PROVE  /\ KeepsRest(table, t) /\ \A d \in Clients \ {c} : KeepsFor(table, t, d)
           /\ m.kind \notin {"release", "decline"} => t = table
           /\ m.kind = "decline" /\ t # table =>
                 m.addr \in Slots /\ t[m.addr].state = "declined" /\ t[m.addr].age = 0
<1>1. CASE t = table
  BY <1>1 DEF KeepsRest, KeepsFor
<1>2. CASE t # table
  <2>1. m.addr \in Slots /\ SameClient(table[m.addr], c)
    <3>1. m.addr # Outside /\ m.addr = Owned(table, c)
      BY <1>2 DEF Dropped
    <3> QED BY <3>1, OwnedIsOnly DEF Addresses
  <2>2. table[m.addr] \in LeaseType
    BY <2>1, Zenon
  <2>3. PICK n : n = [table[m.addr] EXCEPT !.state = "declined", !.age = 0]
    OBVIOUS
  <2>4. n.state = "declined" /\ n.age = 0
    BY <2>2, <2>3 DEF LeaseType
  <2>5. n = [[table[m.addr] EXCEPT !.state = "declined"] EXCEPT !.age = 0]
    BY <2>3
  <2>6. \/ m.kind = "release" /\ t = [table EXCEPT ![m.addr] = FreeLease]
        \/ m.kind = "decline" /\ t = [table EXCEPT ![m.addr] = n]
    BY <1>2, <2>1, <2>2, <2>5, Zenon DEF Dropped
  <2>7. \A i \in Slots : i # m.addr => t[i] = table[i]
    BY <2>1, <2>6
  <2>8. table[m.addr].state # "declined"
        /\ \A d \in Clients \ {c} : ~SameClient(table[m.addr], d)
    BY <2>1 DEF SameClient
  <2>9. KeepsRest(table, t) /\ \A d \in Clients \ {c} : KeepsFor(table, t, d)
    BY <2>7, <2>8, ZenonT(30) DEF KeepsRest, KeepsFor
  <2>10. m.kind = "decline" => t[m.addr] = n
    BY <2>1, <2>6
  <2> QED BY <2>1, <2>4, <2>6, <2>9, <2>10
<1> QED BY <1>1, <1>2

\* Taking the head of a queue leaves an offer wanted.
LEMMA TailWanted ==
    ASSUME NEW q \in Seq(PacketType), q # <<>>, NEW o, Wanted(q, o)
    PROVE  /\ Wanted(Tail(q), o)
           /\ o.fresh => Head(q).kind \notin {"release", "decline"}
<1>1. /\ Head(q) = q[1] /\ Len(q) \in Nat /\ Len(q) > 0 /\ Len(Tail(q)) = Len(q) - 1
      /\ \A i \in 1 .. Len(Tail(q)) : Tail(q)[i] = q[i + 1]
  BY HeadTailProperties
<1>2. 1 \in 1 .. Len(q) /\ \A i \in 1 .. Len(Tail(q)) : i + 1 \in 1 .. Len(q)
  BY <1>1
<1>3. PICK m : m = Head(q)
  OBVIOUS
<1>4. o.fresh => m.kind \notin {"release", "decline"}
  BY <1>1, <1>2, <1>3 DEF Wanted
<1>5. Wanted(Tail(q), o)
  BY <1>1, <1>2 DEF Wanted
<1> QED BY <1>3, <1>4, <1>5

\* A packet that gives nothing back leaves the offer wanted.
LEMMA SendWanted ==
    ASSUME NEW q \in Seq(PacketType), NEW m \in PacketType, NEW o, Wanted(q, o),
           m.kind \notin {"release", "decline"}
    PROVE  Wanted(Append(Stale(q), m), o)
<1>1. DOMAIN q = 1 .. Len(q) /\ Len(q) \in Nat /\ \A i \in DOMAIN q : q[i] \in PacketType
  BY LenProperties, ElementOfSeq
<1>2. PICK p : p = Stale(q)
  OBVIOUS
<1>3. /\ p \in [DOMAIN q -> PacketType]
      /\ \A i \in DOMAIN q : p[i].kind = q[i].kind
  BY <1>1, <1>2, Zenon DEF Stale, PacketType
<1>4. p \in Seq(PacketType) /\ Len(p) = Len(q)
  BY <1>3, SameLength
<1>5. PICK s : s = Append(p, m)
  BY Zenon
<1>6. /\ Len(s) = Len(q) + 1 /\ s[Len(s)] = m
      /\ \A i \in 1 .. Len(q) : s[i] = p[i]
  BY <1>4, <1>5, AppendProperties
<1>7. \A i \in 1 .. Len(s) : i = Len(s) \/ i \in 1 .. Len(q)
  BY <1>1, <1>6
<1>8. Wanted(s, o)
  <2> SUFFICES ASSUME o.fresh, NEW i \in 1 .. Len(s)
               PROVE  s[i].kind \notin {"release", "decline"}
    BY DEF Wanted
  <2>1. CASE i = Len(s)
    BY <1>6, <2>1
  <2>2. CASE i \in 1 .. Len(q)
    BY <1>1, <1>3, <1>6, <2>2, Zenon DEF Wanted
  <2> QED BY <1>7, <2>1, <2>2
<1> QED BY <1>2, <1>5, <1>8

\* A packet taken from the queue of a client with an offer does not give it back.
LEMMA TakenWanted ==
    ASSUME Inv, OfferInv, NEW c \in Clients, Took(c)
    PROVE  /\ \A d \in Clients : Wanted(up'[d], offer[d])
           /\ offer[c].fresh => Head(up[c]).kind \notin {"release", "decline"}
           /\ ~down[c].fresh
<1>1. up \in [Clients -> Seq(PacketType)] /\ up[c] # <<>> /\ up' = [up EXCEPT ![c] = Tail(up[c])]
  BY DEF Inv, Types, Took
<1>2. up[c] \in Seq(PacketType) /\ up'[c] = Tail(up[c]) /\ \A d \in Clients : d # c => up'[d] = up[d]
  BY <1>1
<1>3. \A d \in Clients : Wanted(up[d], offer[d]) /\ Promised(lease, down[d], d)
  BY DEF OfferInv
<1>4. PICK o : o = offer[c]
  OBVIOUS
<1>5. Wanted(Tail(up[c]), o) /\ (o.fresh => Head(up[c]).kind \notin {"release", "decline"})
  BY <1>1, <1>2, <1>3, <1>4, TailWanted
<1>6. down[c].kind = "none"
  BY TakenPacket
<1>7. ~down[c].fresh
  BY <1>3, <1>6 DEF Promised
<1> QED BY <1>2, <1>3, <1>4, <1>5, <1>7

\* What was offered, and what rests, outlives the sweep.
LEMMA SweptOffers ==
    ASSUME Inv, OfferInv
    PROVE  /\ \A c \in Clients : Stands(Swept, offer[c], c) /\ Promised(Swept, down[c], c)
           /\ \A i \in Slots : Rested(Swept, rest[i], i)
<1>1. /\ lease \in [Slots -> LeaseType] /\ down \in [Clients -> ReplyType]
      /\ offer \in [Clients -> OfferType] /\ rest \in [Slots -> Nat]
      /\ \A c \in Clients : Stands(lease, offer[c], c) /\ Promised(lease, down[c], c)
      /\ \A i \in Slots : Rested(lease, rest[i], i)
  BY DEF Inv, Types, OfferInv
<1>2. PICK t : t = Swept
  OBVIOUS
<1>3. t \in [Slots -> LeaseType]
  BY <1>2, SweptInv
<1>4. KeepsRest(lease, t) /\ \A d \in Clients : KeepsFor(lease, t, d)
  BY <1>1, <1>2, SweepKeeps
<1>5. \A c \in Clients : Stands(t, offer[c], c) /\ Promised(t, down[c], c)
  BY <1>1, <1>3, <1>4, OfferKept
<1>6. \A i \in Slots : Rested(t, rest[i], i)
  BY <1>1, <1>3, <1>4, RestKept
<1> QED BY <1>2, <1>5, <1>6, ZenonT(30)

-----------------------------------------------------------------------------
(* The offers, action by action.                                           *)

\* No client without an offer is owed one, and no fresh table rests.
LEMMA NoOfferFacts ==
    /\ NoOffer \in OfferType /\ ~NoOffer.fresh /\ ~NoReply.fresh
    /\ \A table, c : Stands(table, NoOffer, c) /\ Promised(table, NoReply, c)
    /\ \A q : Wanted(q, NoOffer)
<1>1. NoOffer \in OfferType /\ ~NoOffer.fresh /\ ~NoReply.fresh
  BY ZenonT(30) DEF NoOffer, OfferType, NoReply, Addresses
<1> QED BY <1>1 DEF Stands, Promised, Wanted

\* At the start nothing is offered and nothing rests.
LEMMA InitOffer == Init => OfferInv
<1> SUFFICES ASSUME Init PROVE OfferInv
  OBVIOUS
<1>1. offer \in [Clients -> OfferType] /\ rest \in [Slots -> Nat]
  BY NoOfferFacts DEF Init
<1>2. \A c \in Clients : offer[c] = NoOffer /\ down[c] = NoReply
  BY DEF Init
<1>3. \A i \in Slots : rest[i] = 0
  BY DEF Init
<1>4. \A i \in Slots : Rested(lease, rest[i], i)
  BY <1>3, SMTT(30) DEF Rested
<1> QED BY <1>1, <1>2, <1>4, NoOfferFacts DEF OfferInv

\* A packet without reply: only the client itself gives its address back.
LEMMA SilentOffer ==
    ASSUME Inv, OfferInv, NEW c \in Clients, ReceiveSilently(c)
    PROVE  OfferInv'
<1>1. PICK m : m = Head(up[c])
  BY Zenon
<1>2. /\ Took(c) /\ lease' = Dropped(Swept, c, m) /\ down' = down /\ offer' = offer
      /\ rest' = IF m.kind = "decline" /\ lease' # Swept
                 THEN [rest EXCEPT ![m.addr] = DeclineTicks] ELSE rest
  BY <1>1, ZenonT(30) DEF ReceiveSilently
<1>3. /\ m \in PacketType
      /\ \A d \in Clients : Wanted(up'[d], offer[d])
      /\ offer[c].fresh => m.kind \notin {"release", "decline"}
      /\ ~down[c].fresh
  BY <1>1, <1>2, TakenPacket, TakenWanted
<1>4. Swept \in [Slots -> LeaseType] /\ Unique(Swept)
  BY SweptInv, Zenon
<1>5. /\ \A d \in Clients : Stands(Swept, offer[d], d) /\ Promised(Swept, down[d], d)
      /\ \A i \in Slots : Rested(Swept, rest[i], i)
  BY SweptOffers
<1>6. /\ offer \in [Clients -> OfferType] /\ down \in [Clients -> ReplyType]
      /\ rest \in [Slots -> Nat]
  BY Zenon DEF Inv, Types, OfferInv
<1>7. lease' \in [Slots -> LeaseType]
  BY <1>2, <1>3, <1>4, DropAgrees, Zenon
<1>8. /\ KeepsRest(Swept, lease') /\ \A d \in Clients \ {c} : KeepsFor(Swept, lease', d)
      /\ m.kind \notin {"release", "decline"} => lease' = Swept
      /\ m.kind = "decline" /\ lease' # Swept =>
            m.addr \in Slots /\ lease'[m.addr].state = "declined" /\ lease'[m.addr].age = 0
  BY <1>2, <1>3, <1>4, DropKeeps, SMTT(30)
<1>9. ASSUME NEW d \in Clients PROVE Stands(lease', offer[d], d) /\ Promised(lease', down[d], d)
  <2>1. CASE d # c
    BY <1>4, <1>5, <1>6, <1>7, <1>8, <2>1, OfferKept, SMTT(30)
  <2>2. CASE d = c /\ m.kind \notin {"release", "decline"}
    BY <1>5, <1>8, <2>2, ZenonT(30)
  <2>3. CASE d = c /\ m.kind \in {"release", "decline"}
    BY <1>3, <2>3 DEF Stands, Promised
  <2> QED BY <2>1, <2>2, <2>3, Zenon
<1>10. \A i \in Slots : Rested(lease', rest[i], i)
  BY <1>4, <1>5, <1>6, <1>8, RestKept
<1>11. rest' \in [Slots -> Nat] /\ \A i \in Slots : Rested(lease', rest'[i], i)
  <2>1. CASE m.kind = "decline" /\ lease' # Swept
    <3>1. rest' = [rest EXCEPT ![m.addr] = DeclineTicks] /\ m.addr \in Slots
      BY <1>2, <1>8, <2>1
    <3>2. rest'[m.addr] = DeclineTicks /\ \A i \in Slots : i # m.addr => rest'[i] = rest[i]
      BY <1>6, <3>1
    <3>3. Rested(lease', DeclineTicks, m.addr)
      BY <1>8, <2>1 DEF Rested
    <3> QED BY <1>6, <1>10, <3>1, <3>2, <3>3, ZenonT(30)
  <2>2. CASE ~(m.kind = "decline" /\ lease' # Swept)
    BY <1>2, <1>6, <1>10, <2>2, Zenon
  <2> QED BY <2>1, <2>2
<1> QED BY <1>2, <1>3, <1>6, <1>9, <1>11 DEF OfferInv

\* The packet whose reply is not sent, and INFORM, only sweep the table.
LEMMA UnsentOffer ==
    ASSUME Inv, OfferInv, NEW c \in Clients, ReceiveUnsent(c) \/ ReceiveInform(c)
    PROVE  OfferInv'
<1>1. lease' = Swept /\ down' = down /\ offer' = offer /\ rest' = rest
  BY Zenon DEF ReceiveUnsent, ReceiveInform
<1>2. \A d \in Clients : Wanted(up'[d], offer[d])
  BY TakenWanted, SMTT(30) DEF ReceiveUnsent, ReceiveInform, OfferInv
<1> QED BY <1>1, <1>2, SweptOffers, Zenon DEF OfferInv

(* An answer: the offer that is sent is the entry that is recorded.        *)
LEMMA AnsweredOffer ==
    ASSUME Inv, OfferInv, NEW c \in Clients, ReceiveAnswered(c)
    PROVE  OfferInv'
<1>1. PICK m : m = Head(up[c])
  OBVIOUS
<1>2. PICK a : a = Answer(Swept, c, m)
  OBVIOUS
<1>3. PICK n : n = [kind |-> a.kind, addr |-> a.addr, age |-> m.age,
                    fresh |-> a.kind = "offer" /\ Swept[a.addr].state # "bound"]
  BY ZenonT(30)
<1>4. /\ Took(c) /\ lease' = Recorded(Swept, c, a) /\ offer' = offer /\ rest' = rest
      /\ down' = [down EXCEPT ![c] = IF m.live THEN n ELSE down[c]]
  BY <1>1, <1>2, <1>3, Zenon DEF ReceiveAnswered, TheAnswer
<1>5. /\ m \in PacketType /\ m.age \in Nat
      /\ \A d \in Clients : Wanted(up'[d], offer[d])
  BY <1>1, <1>4, TakenPacket, TakenWanted, Zenon DEF PacketType
<1>6. Swept \in [Slots -> LeaseType] /\ Unique(Swept)
  BY SweptInv
<1>7. /\ \A d \in Clients : Stands(Swept, offer[d], d) /\ Promised(Swept, down[d], d)
      /\ \A i \in Slots : Rested(Swept, rest[i], i)
  BY SweptOffers
<1>8. /\ offer \in [Clients -> OfferType] /\ down \in [Clients -> ReplyType]
      /\ rest \in [Slots -> Nat]
  BY DEF Inv, Types, OfferInv
<1>9. lease' \in [Slots -> LeaseType]
  BY <1>2, <1>4, <1>5, <1>6, RecordAgrees, Zenon
<1>10. KeepsRest(Swept, lease') /\ \A d \in Clients : KeepsFor(Swept, lease', d)
  BY <1>2, <1>4, <1>5, <1>6, RecordKeeps, ZenonT(30)
<1>11. \A d \in Clients : Stands(lease', offer[d], d) /\ Promised(lease', down[d], d)
  BY <1>6, <1>7, <1>8, <1>9, <1>10, OfferKept, SMTT(30)
<1>12. \A i \in Slots : Rested(lease', rest[i], i)
  BY <1>6, <1>7, <1>8, <1>10, RestKept, Zenon
<1>13. \/ a.kind \in {"none", "nak"} /\ a.addr = Outside
       \/ a.kind \in {"offer", "ack"} /\ a.addr \in Slots
  BY <1>2, <1>5, <1>6, AnswerIsOwnOrFree
<1>14. /\ n.kind = a.kind /\ n.addr = a.addr /\ n.age = m.age
       /\ n.fresh => a.kind = "offer" /\ Swept[a.addr].state # "bound"
  BY <1>3, Zenon
<1>15. Promised(lease', n, c)
  <2> SUFFICES ASSUME n.fresh
               PROVE  n.kind = "offer" /\ (n.age < OfferTicks => Backs(lease', n.addr, OfferTicks - n.age, c))
    BY DEF Promised
  <2>1. a.kind = "offer" /\ a.addr \in Slots /\ Swept[a.addr].state # "bound"
    BY <1>13, <1>14
  <2>2. lease' = [Swept EXCEPT ![a.addr] = [state |-> "offered", client |-> c, age |-> 0]]
    BY <1>4, <2>1 DEF Recorded
  <2>3. lease'[a.addr] = [state |-> "offered", client |-> c, age |-> 0]
    BY <1>6, <2>1, <2>2
  <2>4. SameClient(lease'[a.addr], c) /\ lease'[a.addr].age = 0
        /\ Duration(lease'[a.addr].state) = OfferTicks
    BY <2>3 DEF SameClient, Duration
  <2>5. m.age < OfferTicks => 0 + (OfferTicks - m.age) <= OfferTicks
    BY <1>5
  <2> QED BY <1>14, <2>1, <2>4, <2>5 DEF Backs
<1>16. \A d \in Clients : down'[d] = down[d] \/ (d = c /\ down'[d] = n)
  BY <1>4, <1>8
<1>17. \A d \in Clients : Promised(lease', down'[d], d)
  BY <1>11, <1>15, <1>16, ZenonT(30)
<1> QED BY <1>4, <1>5, <1>8, <1>11, <1>12, <1>17 DEF OfferInv

(* A client that gives its address back no longer has an offer.            *)
LEMMA ClientOffer ==
    ASSUME Inv, OfferInv, NEW c \in Clients, Discover(c) \/ Request(c) \/ Release(c) \/ Decline(c)
    PROVE  OfferInv'
<1>1. PICK kind \in {"discover", "request", "release", "decline"}, addr \in Addresses,
           server \in BOOLEAN :
        /\ Send(c, kind, addr, server)
        /\ \/ offer' = offer /\ kind \notin {"release", "decline"}
           \/ offer' = [offer EXCEPT ![c] = NoOffer]
  <2>1. CASE Discover(c)
    BY <2>1, Zenon DEF Discover, Addresses
  <2>2. CASE Request(c)
    BY <2>2 DEF Request
  <2>3. CASE Release(c) \/ Decline(c)
    <3>1. hold[c].addr \in Addresses
      BY DEF Inv, Types, HoldType
    <3> QED BY <2>3, <3>1, Zenon DEF Release, Decline, GiveUp
  <2> QED BY <2>1, <2>2, <2>3
<1>2. PICK m : m = [kind |-> kind, addr |-> addr, server |-> server, live |-> TRUE, age |-> 0]
  BY Zenon
<1>3. m \in PacketType /\ m.kind = kind
  BY <1>2 DEF PacketType
<1>4. PICK s : s = Append(Stale(up[c]), m)
  BY Zenon
<1>5. /\ up' = [up EXCEPT ![c] = s] /\ down' = [down EXCEPT ![c] = NoReply]
      /\ lease' = lease /\ rest' = rest
  BY <1>1, <1>2, <1>4, ZenonT(30) DEF Send
<1>6. /\ up \in [Clients -> Seq(PacketType)] /\ down \in [Clients -> ReplyType]
      /\ offer \in [Clients -> OfferType] /\ rest \in [Slots -> Nat]
      /\ \A d \in Clients : /\ Stands(lease, offer[d], d) /\ Promised(lease, down[d], d)
                            /\ Wanted(up[d], offer[d])
      /\ \A i \in Slots : Rested(lease, rest[i], i)
  BY DEF Inv, Types, OfferInv
<1>7. /\ up'[c] = s /\ down'[c] = NoReply
      /\ \A d \in Clients : d # c => up'[d] = up[d] /\ down'[d] = down[d]
  BY <1>5, <1>6
<1>8. /\ offer' \in [Clients -> OfferType]
      /\ \A d \in Clients : d # c => offer'[d] = offer[d]
      /\ offer'[c] = NoOffer \/ (offer'[c] = offer[c] /\ kind \notin {"release", "decline"})
  BY <1>1, <1>6, NoOfferFacts, ZenonT(30)
<1>9. Wanted(s, offer'[c])
  <2>1. CASE offer'[c] = NoOffer
    BY <2>1, NoOfferFacts
  <2>2. CASE offer'[c] = offer[c] /\ kind \notin {"release", "decline"}
    <3>1. PICK o : o = offer[c]
      OBVIOUS
    <3>2. up[c] \in Seq(PacketType) /\ Wanted(up[c], o)
      BY <1>6, <3>1, Zenon
    <3>3. Wanted(s, o)
      BY <1>3, <1>4, <2>2, <3>2, SendWanted, Zenon
    <3> QED BY <2>2, <3>1, <3>3
  <2> QED BY <1>8, <2>1, <2>2
<1>10. \A d \in Clients : /\ Stands(lease, offer'[d], d) /\ Promised(lease, down'[d], d)
                          /\ Wanted(up'[d], offer'[d])
  <2>1. ASSUME NEW d \in Clients, d # c
        PROVE  /\ Stands(lease, offer'[d], d) /\ Promised(lease, down'[d], d)
               /\ Wanted(up'[d], offer'[d])
    BY <1>6, <1>7, <1>8, <2>1
  <2>2. Stands(lease, offer'[c], c)
    BY <1>6, <1>8, NoOfferFacts, SMTT(30)
  <2>3. Promised(lease, down'[c], c) /\ Wanted(up'[c], offer'[c])
    BY <1>7, <1>9, NoOfferFacts, Zenon
  <2> QED BY <2>1, <2>2, <2>3, SMTT(30)
<1> QED BY <1>5, <1>6, <1>8, <1>10 DEF OfferInv

(* An offer that arrives stands: the table has kept the entry since it     *)
(* was sent.                                                               *)
LEMMA ReplyOffer ==
    ASSUME Inv, OfferInv, NEW c \in Clients, Reply(c)
    PROVE  OfferInv'
<1>1. PICK r : r = down[c]
  OBVIOUS
<1>2. /\ up \in [Clients -> Seq(PacketType)] /\ down \in [Clients -> ReplyType]
      /\ offer \in [Clients -> OfferType] /\ rest \in [Slots -> Nat]
      /\ \A d \in Clients : /\ Stands(lease, offer[d], d) /\ Promised(lease, down[d], d)
                            /\ Wanted(up[d], offer[d])
      /\ \A i \in Slots : Rested(lease, rest[i], i)
  BY DEF Inv, Types, OfferInv
<1>3. PICK n : n = IF r.kind = "offer"
                   THEN Standing(r.addr, Counted(OfferTicks, r.age), r.fresh) ELSE offer[c]
  OBVIOUS
<1>4. /\ down' = [down EXCEPT ![c] = NoReply] /\ lease' = lease /\ up' = up /\ rest' = rest
      /\ offer' = [offer EXCEPT ![c] = n]
  BY <1>1, <1>3 DEF Reply
<1>5. r \in ReplyType /\ r.age \in Nat /\ r.addr \in Addresses /\ r.fresh \in BOOLEAN
  BY <1>1, <1>2, Zenon DEF ReplyType
<1>6. \/ n = offer[c] \/ n = NoOffer
      \/ /\ r.kind = "offer" /\ r.age < OfferTicks
         /\ n = [addr |-> r.addr, left |-> OfferTicks - r.age, fresh |-> r.fresh]
  BY <1>3, <1>5, SMTT(30) DEF Standing, Counted
<1>7. n \in OfferType /\ Stands(lease, n, c) /\ Wanted(up[c], n)
  <2>1. CASE n = offer[c]
    BY <1>2, <2>1
  <2>2. CASE n = NoOffer
    BY <2>2, NoOfferFacts
  <2>3. CASE /\ r.kind = "offer" /\ r.age < OfferTicks
             /\ n = [addr |-> r.addr, left |-> OfferTicks - r.age, fresh |-> r.fresh]
    <3>1. PICK left : left = OfferTicks - r.age
      OBVIOUS
    <3>2. left \in Nat /\ left > 0 /\ left <= OfferTicks
      BY <1>5, <2>3, <3>1
    <3>3. n = [addr |-> r.addr, left |-> left, fresh |-> r.fresh]
      BY <2>3, <3>1
    <3>4. n \in OfferType
      BY <1>5, <3>2, <3>3 DEF OfferType
    <3>5. n.addr = r.addr /\ n.left = left /\ n.fresh = r.fresh
      BY <3>3, Zenon
    <3>6. r.fresh => Backs(lease, r.addr, left, c)
      BY <1>1, <1>2, <2>3, <3>1, ZenonT(30) DEF Promised
    <3>7. Stands(lease, n, c)
      BY <3>2, <3>5, <3>6, Zenon DEF Stands
    <3>8. Ordered(up[c], r, hold[c])
      BY <1>1, ZenonT(30) DEF Inv
    <3>9. up[c] = <<>> /\ Len(<<>>) = 0
      BY <2>3, <3>8, EmptySeq DEF Ordered
    <3>10. Wanted(up[c], n)
      BY <3>9 DEF Wanted
    <3> QED BY <3>4, <3>7, <3>10
  <2> QED BY <1>6, <2>1, <2>2, <2>3
<1>8. /\ offer' \in [Clients -> OfferType] /\ offer'[c] = n /\ down'[c] = NoReply
      /\ \A d \in Clients : d # c => offer'[d] = offer[d] /\ down'[d] = down[d]
  BY <1>2, <1>4, <1>7, Zenon
<1>9. \A d \in Clients : /\ Stands(lease, offer'[d], d) /\ Promised(lease, down'[d], d)
                         /\ Wanted(up[d], offer'[d])
  BY <1>2, <1>7, <1>8, NoOfferFacts, ZenonT(30)
<1> QED BY <1>2, <1>4, <1>8, <1>9, Zenon DEF OfferInv

\* A lost packet takes no offer away.
LEMMA LoseOffer ==
    ASSUME Inv, OfferInv, NEW c \in Clients, Lose(c)
    PROVE  OfferInv'
<1>1. /\ down \in [Clients -> ReplyType]
      /\ offer \in [Clients -> OfferType] /\ rest \in [Slots -> Nat]
      /\ \A d \in Clients : /\ Stands(lease, offer[d], d) /\ Promised(lease, down[d], d)
                            /\ Wanted(up[d], offer[d])
      /\ \A i \in Slots : Rested(lease, rest[i], i)
  BY DEF Inv, Types, OfferInv
<1>2. lease' = lease /\ offer' = offer /\ rest' = rest
  BY DEF Lose
<1>3. CASE Took(c) /\ down' = down
  BY <1>1, <1>2, <1>3, TakenWanted, Zenon DEF OfferInv
<1>4. CASE down' = [down EXCEPT ![c] = NoReply] /\ up' = up
  <2>1. \A d \in Clients : down'[d] = down[d] \/ down'[d] = NoReply
    BY <1>1, <1>4, Zenon
  <2>2. \A d \in Clients : Promised(lease, down'[d], d)
    BY <1>1, <2>1, NoOfferFacts, SMTT(30)
  <2> QED BY <1>1, <1>2, <1>4, <2>2 DEF OfferInv
<1> QED BY <1>3, <1>4 DEF Lose

(* Time: an entry ages by at most a tick while the offer it backs, or the  *)
(* rest it is given, shrinks by one.                                       *)
LEMMA TickOffer ==
    ASSUME Inv, OfferInv, Tick
    PROVE  OfferInv'
<1>1. /\ up \in [Clients -> Seq(PacketType)] /\ down \in [Clients -> ReplyType]
      /\ lease \in [Slots -> LeaseType]
      /\ offer \in [Clients -> OfferType] /\ rest \in [Slots -> Nat]
      /\ \A d \in Clients : /\ Stands(lease, offer[d], d) /\ Promised(lease, down[d], d)
                            /\ Wanted(up[d], offer[d])
      /\ \A i \in Slots : Rested(lease, rest[i], i)
  BY DEF Inv, Types, OfferInv
<1>2. ASSUME NEW i \in Slots
      PROVE  /\ lease'[i].state = lease[i].state /\ lease'[i].client = lease[i].client
             /\ lease[i].age \in Nat /\ lease'[i].age \in Nat
             /\ lease'[i].age <= lease[i].age + 1 /\ Duration(lease[i].state) \in Nat
  <2>1. lease[i] \in LeaseType /\ lease[i].age \in Nat /\ Duration(lease[i].state) \in Nat
    BY <1>1 DEF LeaseType, Duration
  <2>2. PICK x : x = Older(lease[i].age, Duration(lease[i].state))
    OBVIOUS
  <2>3. x \in Nat /\ x <= lease[i].age + 1
    BY <2>1, <2>2 DEF Older
  <2>4. lease'[i] = [lease[i] EXCEPT !.age = x]
    BY <2>2, ZenonT(30) DEF Tick
  <2> QED BY <2>1, <2>3, <2>4 DEF LeaseType
<1>3. ASSUME NEW i, NEW n \in Nat, n > 0, NEW d \in Clients, Backs(lease, i, n, d)
      PROVE  Backs(lease', i, n - 1, d)
  <2>1. i \in Slots /\ SameClient(lease[i], d) /\ lease[i].age + n <= Duration(lease[i].state)
    BY <1>3, Zenon DEF Backs
  <2>2. SameClient(lease'[i], d) /\ Duration(lease'[i].state) = Duration(lease[i].state)
    BY <1>2, <2>1, Zenon DEF SameClient
  <2>3. lease'[i].age + (n - 1) <= Duration(lease[i].state)
    BY <1>2, <1>3, <2>1, SMTT(30)
  <2> QED BY <2>1, <2>2, <2>3 DEF Backs
<1>4. ASSUME NEW d \in Clients
      PROVE  /\ offer'[d] \in OfferType /\ Stands(lease', offer'[d], d)
             /\ offer'[d].fresh => offer[d].fresh
  <2>1. PICK o : o = offer[d]
    OBVIOUS
  <2>2. o \in OfferType /\ o.left \in Nat /\ o.addr \in Addresses /\ o.fresh \in BOOLEAN
    BY <1>1, <2>1 DEF OfferType
  <2>3. offer'[d] = Standing(o.addr, Counted(o.left, 1), o.fresh)
    BY <2>1, Zenon DEF Tick
  <2>4. CASE offer'[d] = NoOffer
    BY <2>4, NoOfferFacts, SMTT(30)
  <2>5. CASE offer'[d] # NoOffer
    <3>1. PICK n : n = o.left - 1
      BY Zenon
    <3>2. offer'[d] = [addr |-> o.addr, left |-> n, fresh |-> o.fresh] /\ o.left > 1
      BY <2>2, <2>3, <2>5, <3>1, SMTT(30) DEF Standing, Counted
    <3>3. n \in Nat /\ n > 0
      BY <2>2, <3>1, <3>2
    <3>4. PICK p : p = offer'[d]
      OBVIOUS
    <3>5. p \in OfferType /\ p.addr = o.addr /\ p.left = n /\ p.fresh = o.fresh
      BY <2>2, <3>2, <3>3, <3>4, SMTT(30) DEF OfferType
    <3>6. o.fresh => o.left <= OfferTicks /\ Backs(lease, o.addr, o.left, d)
      BY <1>1, <2>1, Zenon DEF Stands
    <3>7. o.fresh => n <= OfferTicks /\ Backs(lease', o.addr, n, d)
      BY <1>3, <2>2, <3>1, <3>2, <3>6, SMTT(30)
    <3>8. Stands(lease', p, d)
      BY <3>3, <3>5, <3>7 DEF Stands
    <3> QED BY <2>1, <3>4, <3>5, <3>8
  <2> QED BY <2>4, <2>5
<1>5. ASSUME NEW d \in Clients PROVE Promised(lease', down'[d], d)
  <2>1. PICK r : r = down[d]
    OBVIOUS
  <2>2. r \in ReplyType /\ r.age \in Nat /\ Promised(lease, r, d)
    BY <1>1, <2>1, ZenonT(30) DEF ReplyType
  <2>3. CASE ~r.fresh
    <3>1. PICK x : down'[d] = r \/ down'[d] = [r EXCEPT !.age = x]
      BY <2>1, Zenon DEF Tick
    <3>2. ~down'[d].fresh
      BY <2>2, <2>3, <3>1 DEF ReplyType
    <3> QED BY <3>2 DEF Promised
  <2>4. CASE r.fresh
    <3>1. r.kind = "offer" /\ (r.age < OfferTicks => Backs(lease, r.addr, OfferTicks - r.age, d))
      BY <2>2, <2>4 DEF Promised
    <3>2. PICK x : x = Older(r.age, OfferTicks)
      OBVIOUS
    <3>3. down'[d] = [r EXCEPT !.age = x]
      BY <2>1, <3>1, <3>2 DEF Tick
    <3>4. PICK p : p = down'[d]
      OBVIOUS
    <3>5. p.kind = "offer" /\ p.addr = r.addr /\ p.age = x
      BY <2>2, <3>1, <3>3, <3>4 DEF ReplyType
    <3>6. x < OfferTicks => r.age < OfferTicks /\ x = r.age + 1
      BY <2>2, <3>2 DEF Older
    <3>7. ASSUME x < OfferTicks PROVE Backs(lease', r.addr, OfferTicks - x, d)
      <4>1. PICK n : n = OfferTicks - r.age
        OBVIOUS
      <4>2. n \in Nat /\ n > 0 /\ OfferTicks - x = n - 1
        BY <2>2, <3>6, <3>7, <4>1
      <4>3. Backs(lease, r.addr, n, d)
        BY <3>1, <3>6, <3>7, <4>1
      <4>4. Backs(lease', r.addr, n - 1, d)
        BY <1>3, <4>2, <4>3, ZenonT(30)
      <4> QED BY <4>2, <4>4
    <3>8. Promised(lease', p, d)
      BY <3>5, <3>7, ZenonT(30) DEF Promised
    <3> QED BY <3>4, <3>8
  <2> QED BY <2>3, <2>4, Zenon
<1>6. ASSUME NEW d \in Clients PROVE Wanted(up'[d], offer'[d])
  <2>1. PICK q : q = up[d]
    OBVIOUS
  <2>2. PICK p : p = up'[d]
    OBVIOUS
  <2>3. /\ q \in Seq(PacketType) /\ DOMAIN q = 1 .. Len(q) /\ Len(q) \in Nat
        /\ \A i \in DOMAIN q : q[i] \in PacketType
    BY <1>1, <2>1, LenProperties, ElementOfSeq
  <2>4. p = [i \in DOMAIN q |-> IF q[i].live /\ q[i].kind = "request"
                               THEN [q[i] EXCEPT !.age = Older(q[i].age, LeaseTicks)] ELSE q[i]]
    BY <2>1, <2>2 DEF Tick
  <2>5. ASSUME NEW i \in DOMAIN q PROVE p[i] \in PacketType /\ p[i].kind = q[i].kind
    <3>1. q[i] \in PacketType /\ q[i].age \in Nat
      BY <2>3 DEF PacketType
    <3>2. Older(q[i].age, LeaseTicks) \in Nat
      BY <3>1 DEF Older
    <3>3. PICK x \in Nat : p[i] = q[i] \/ p[i] = [q[i] EXCEPT !.age = x]
      BY <2>4, <3>2
    <3> QED BY <3>1, <3>3 DEF PacketType
  <2>6. p \in [DOMAIN q -> PacketType]
    BY <2>4, <2>5
  <2>7. Len(p) = Len(q)
    BY <2>3, <2>6, SameLength, ZenonT(30)
  <2>8. Wanted(p, offer'[d])
    BY <1>1, <1>4, <2>1, <2>3, <2>5, <2>7, SMTT(30) DEF Wanted
  <2> QED BY <2>2, <2>8, ZenonT(30)
<1>7. ASSUME NEW i \in Slots PROVE rest'[i] \in Nat /\ Rested(lease', rest'[i], i)
  <2>1. rest[i] \in Nat /\ Rested(lease, rest[i], i) /\ rest'[i] = Counted(rest[i], 1)
    BY <1>1 DEF Tick
  <2>2. rest'[i] \in Nat /\ (rest'[i] > 0 => rest[i] > 0 /\ rest'[i] = rest[i] - 1)
    BY <2>1, SMTT(30) DEF Counted
  <2>3. rest'[i] > 0 => lease'[i].state = "declined" /\ lease'[i].age + rest'[i] <= DeclineTicks
    BY <1>2, <2>1, <2>2 DEF Rested
  <2> QED BY <2>2, <2>3 DEF Rested
<1>8. offer' \in [Clients -> OfferType] /\ rest' \in [Slots -> Nat]
  <2>1. /\ offer' = [c \in Clients |-> offer'[c]] /\ rest' = [i \in Slots |-> rest'[i]]
    BY DEF Tick
  <2> QED BY <1>4, <1>7, <2>1
<1> QED BY <1>4, <1>5, <1>6, <1>7, <1>8, Zenon DEF OfferInv

\* Every step keeps the offers and the quarantine.
LEMMA NextOffer == Inv /\ OfferInv /\ [Next]_vars => OfferInv'
<1> SUFFICES ASSUME Inv, OfferInv, [Next]_vars PROVE OfferInv'
  BY SMTT(30)
<1>1. CASE UNCHANGED vars
  BY <1>1 DEF vars, OfferInv
<1>2. CASE Tick
  BY <1>2, TickOffer
<1>3. CASE Restart
  <2>1. Init'
    BY <1>3 DEF Restart, Init
  <2> QED BY <2>1, InitOffer, PTL
<1>4. ASSUME NEW c \in Clients,
             \/ Discover(c) \/ Request(c) \/ Release(c) \/ Decline(c)
             \/ ReceiveSilently(c) \/ ReceiveAnswered(c) \/ ReceiveUnsent(c)
             \/ ReceiveInform(c) \/ Reply(c) \/ Lose(c)
      PROVE  OfferInv'
  BY <1>4, ClientOffer, SilentOffer, AnsweredOffer, UnsentOffer, ReplyOffer, LoseOffer
<1> QED BY <1>1, <1>2, <1>3, <1>4 DEF Next

(* Every recorded offer is backed by its entry of the table, and every     *)
(* address that must rest is declined in it, throughout.                   *)
THEOREM OffersAreBacked == Spec => []OfferInv
<1> QED BY Invariance, InitOffer, NextOffer, PTL DEF Spec

(* While an offer that receive recorded stands, a request of its client    *)
(* for it is acknowledged, whatever other clients asked for in between.    *)
THEOREM OffersAreKept == Spec => []OfferIsKept
<1>1. Inv /\ OfferInv => OfferIsKept
  <2> SUFFICES ASSUME Inv, OfferInv, NEW c \in Clients, NEW m, m = Head(up[c]),
                      m.kind = "request", m.addr = offer[c].addr, offer[c].fresh
               PROVE  Answer(Swept, c, m).kind = "ack"
    BY Zenon DEF OfferIsKept
  <2>1. Stands(Swept, offer[c], c)
    BY SweptOffers, SMTT(30)
  <2>2. m.addr \in Slots /\ SameClient(Swept[m.addr], c)
    BY <2>1 DEF Stands, Backs
  <2>3. m.addr = Owned(Swept, c) /\ m.addr # Outside
    BY <2>2, SweptInv, OwnedIsOnly, ZenonT(30)
  <2> QED BY <2>3 DEF Answer, AnswerRequest
<1> QED BY <1>1, Invariance, OffersAreBacked, PTL

(* For the whole quarantine of a declined address, no client holds it, no  *)
(* ACK of it that would still count is under way, and no recorded offer of *)
(* it stands or is under way.                                              *)
THEOREM DeclinedRests == Spec => []DeclinedIsUnused
<1>1. Inv /\ OfferInv => DeclinedIsUnused
  <2> SUFFICES ASSUME Inv, OfferInv, NEW i \in Slots, NEW c \in Clients, rest[i] > 0
               PROVE  /\ ~(hold[c].left > 0 /\ hold[c].addr = i)
                      /\ ~(offer[c].fresh /\ offer[c].addr = i)
                      /\ ~(down[c].fresh /\ down[c].addr = i /\ down[c].age < OfferTicks)
                      /\ ~(down[c].kind = "ack" /\ down[c].addr = i /\ down[c].age < LeaseTicks)
    BY ZenonT(30) DEF DeclinedIsUnused
  <2>1. lease[i].state = "declined"
    BY DEF OfferInv, Rested
  <2>2. ~SameClient(lease[i], c) /\ lease[i].state # "bound"
    BY <2>1, Zenon DEF SameClient
  <2>3. Covers(lease, hold[c], c) /\ Grants(lease, down[c], c)
    BY Zenon DEF Inv, Agreed
  <2>4. Stands(lease, offer[c], c) /\ Promised(lease, down[c], c)
    BY Zenon DEF OfferInv
  <2>5. ~(hold[c].left > 0 /\ hold[c].addr = i)
    BY <2>2, <2>3, Zenon DEF Covers
  <2>6. ~(offer[c].fresh /\ offer[c].addr = i)
    BY <2>2, <2>4, Zenon DEF Stands, Backs
  <2>7. ~(down[c].fresh /\ down[c].addr = i /\ down[c].age < OfferTicks)
    BY <2>2, <2>4, SMTT(30) DEF Promised, Backs
  <2>8. ~(down[c].kind = "ack" /\ down[c].addr = i /\ down[c].age < LeaseTicks)
    BY <2>2, <2>3 DEF Grants
  <2> QED BY <2>5, <2>6, <2>7, <2>8, Zenon
<1> QED BY <1>1, Invariance, OffersAreBacked, PTL
=============================================================================
