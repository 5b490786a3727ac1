----------------------------- MODULE DhcpServer ------------------------------
(***************************************************************************)
(* The DHCP server of the local link, with the clients it serves.  receive *)
(* is one action: lwIP calls it under its lock.  Packets of one client     *)
(* arrive in the order sent (the link is one USB cable) but may be lost,   *)
(* or be so late that the client has started another exchange.  live marks *)
(* the packets of its current one: the transaction id tells it to ignore   *)
(* the replies to any other, so they are not kept.  A retry is a new       *)
(* exchange.                                                               *)
(*                                                                         *)
(* Times are kept as ages in ticks.  A client counts its lease from the    *)
(* moment it sent the request, the server from the moment it answered: the *)
(* age of a request and of its ACK is the time since the request was sent, *)
(* that of an OFFER the time since the offer was; no other age matters.    *)
(***************************************************************************)
EXTENDS Naturals, Sequences, FiniteSetsExt

CONSTANTS Clients,      \* client identifiers, or hardware addresses without one
          NoClient,
          Slots,        \* FIRMINGO_DHCP_MAX_IP addresses, numbered
          Outside,      \* any address that is not in the table
          OfferTicks,   \* OFFER_MS
          LeaseTicks,   \* LEASE_MS
          DeclineTicks, \* DECLINE_MS
          MaxQueue      \* bound: packets under way from a client

ASSUME DhcpAssumption ==
    /\ NoClient \notin Clients /\ Slots \subseteq Nat /\ Outside \notin Slots
    /\ Outside \in Nat
    /\ OfferTicks \in Nat \ {0} /\ LeaseTicks \in Nat \ {0}
    /\ OfferTicks <= LeaseTicks
    /\ DeclineTicks \in Nat \ {0} /\ MaxQueue \in Nat \ {0}

(* The table is searched from its first slot on.                           *)
ASSUME SlotsAssumption ==
    \A S \in SUBSET Slots : S # {} => \E i \in S : \A j \in S : i <= j

VARIABLES lease,    \* the server's table
          up,       \* packets under way from each client
          down,     \* the reply under way to it
          hold,     \* the address that a client uses, and for how long still
          offer,    \* the offer that a client has, how long OFFER_MS lets it stand,
                    \* and whether the table recorded it
          rest      \* history: how long a declined address must still rest

vars == <<lease, up, down, hold, offer, rest>>

Addresses == Slots \cup {Outside}
FreeLease == [state |-> "free", client |-> NoClient, age |-> 0]
NoHold == [addr |-> Outside, left |-> 0]
NoOffer == [addr |-> Outside, left |-> 0, fresh |-> FALSE]
NoReply == [kind |-> "none", addr |-> Outside, age |-> 0, fresh |-> FALSE]

Init ==
    /\ lease = [i \in Slots |-> FreeLease]
    /\ up = [c \in Clients |-> <<>>] /\ down = [c \in Clients |-> NoReply]
    /\ hold = [c \in Clients |-> NoHold] /\ offer = [c \in Clients |-> NoOffer]
    /\ rest = [i \in Slots |-> 0]

Duration(state) ==
    CASE state = "offered" -> OfferTicks
      [] state = "bound" -> LeaseTicks
      [] state = "declined" -> DeclineTicks
      [] OTHER -> 0

-----------------------------------------------------------------------------
(* The server.                                                             *)

Expired(l) == l.state # "free" /\ l.age >= Duration(l.state)
Swept == [i \in Slots |-> IF Expired(lease[i]) THEN FreeLease ELSE lease[i]]

(* Of the slots that match, the loop keeps the last or the first one.      *)
LastOf(S) == IF S = {} THEN Outside ELSE Max(S)
FirstOf(S) == IF S = {} THEN Outside ELSE Min(S)

SameClientAny(l, c) == l.state # "free" /\ l.client = c
SameClient(l, c) == l.state \in {"offered", "bound"} /\ l.client = c
Owned(table, c) == LastOf({i \in Slots : SameClient(table[i], c)})
FreeSlotUnreserved(table) ==
    FirstOf({i \in Slots : table[i].state \notin {"bound", "declined"}})
FreeSlot(table) == FirstOf({i \in Slots : table[i].state = "free"})

Nothing == [kind |-> "none", addr |-> Outside]

(* The answer to packet m of client c: none for the packets that are       *)
(* ignored.                                                                *)
AnswerDiscover(table, c) ==
    LET chosen == IF Owned(table, c) # Outside THEN Owned(table, c) ELSE FreeSlot(table)
    IN  IF chosen = Outside THEN Nothing ELSE [kind |-> "offer", addr |-> chosen]

AnswerRequest(table, c, m) ==
    CASE m.addr # Outside /\ m.addr = Owned(table, c) -> [kind |-> "ack", addr |-> m.addr]
      [] m.addr # Outside /\ Owned(table, c) = Outside /\ ~m.server -> Nothing
      [] OTHER -> [kind |-> "nak", addr |-> Outside]

Answer(table, c, m) ==
    CASE m.kind = "discover" -> AnswerDiscover(table, c)
      [] m.kind = "request" -> AnswerRequest(table, c, m)
      [] OTHER -> Nothing

(* RELEASE and DECLINE act on the client's own address only.               *)
Dropped(table, c, m) ==
    IF m.addr = Outside \/ m.addr # Owned(table, c) THEN table
    ELSE CASE m.kind = "release" -> [table EXCEPT ![m.addr] = FreeLease]
           [] m.kind = "decline" -> [table EXCEPT ![m.addr].state = "declined",
                                                  ![m.addr].age = 0]
           [] OTHER -> table

(* A reply that has been sent is recorded; an offer does not shorten a     *)
(* lease.                                                                  *)
RecordedAlways(table, c, a) ==
    IF a.kind \notin {"offer", "ack"} THEN table
    ELSE [table EXCEPT ![a.addr] =
            [state |-> IF a.kind = "offer" THEN "offered" ELSE "bound",
             client |-> c, age |-> 0]]
Recorded(table, c, a) ==
    IF \/ a.kind \notin {"offer", "ack"}
       \/ a.kind = "offer" /\ table[a.addr].state = "bound"
    THEN table
    ELSE [table EXCEPT ![a.addr] =
            [state |-> IF a.kind = "offer" THEN "offered" ELSE "bound",
             client |-> c, age |-> 0]]

Took(c) == up[c] # <<>> /\ up' = [up EXCEPT ![c] = Tail(@)]
TheAnswer(c) == Answer(Swept, c, Head(up[c]))

(* No reply: the packet is ignored, or it gives an address back.           *)
ReceiveSilently(c) ==
    LET m == Head(up[c])
    IN  /\ Took(c) /\ TheAnswer(c).kind = "none"
        /\ lease' = Dropped(Swept, c, m)
        /\ rest' = IF m.kind = "decline" /\ lease' # Swept
                   THEN [rest EXCEPT ![m.addr] = DeclineTicks] ELSE rest
        /\ UNCHANGED <<down, hold, offer>>

ReceiveAnswered(c) ==
    LET m == Head(up[c])
        a == TheAnswer(c)
    IN  /\ Took(c) /\ a.kind # "none"
        /\ lease' = Recorded(Swept, c, a)
        /\ down' = [down EXCEPT ![c] = IF m.live
              THEN [kind |-> a.kind, addr |-> a.addr, age |-> m.age,
                    fresh |-> a.kind = "offer" /\ Swept[a.addr].state # "bound"]
              ELSE @]
        /\ UNCHANGED <<hold, offer, rest>>

(* The send fails: nothing is recorded.                                    *)
ReceiveUnsent(c) ==
    /\ Took(c) /\ TheAnswer(c).kind # "none"
    /\ lease' = Swept
    /\ UNCHANGED <<down, hold, offer, rest>>

(* INFORM is answered with the settings and no address: all that happens   *)
(* is that old leases are swept.                                           *)
ReceiveInform(c) == hold[c].left > 0 /\ lease' = Swept /\ UNCHANGED <<up, down, hold, offer, rest>>

-----------------------------------------------------------------------------
(* The clients and the link.                                               *)

Stale(q) == [i \in DOMAIN q |-> [q[i] EXCEPT !.live = FALSE, !.age = 0]]

(* A new exchange: what is still under way belongs to an earlier one.      *)
Send(c, kind, addr, server) ==
    /\ Len(up[c]) < MaxQueue
    /\ up' = [up EXCEPT ![c] = Append(Stale(@),
                 [kind |-> kind, addr |-> addr, server |-> server, live |-> TRUE, age |-> 0])]
    /\ down' = [down EXCEPT ![c] = NoReply]
    /\ UNCHANGED <<lease, rest>>

(* A client asks for any address it remembers, with the server's id when   *)
(* it selects an offer (also one that no longer stands), without it when   *)
(* it renews or comes up again.  A second DHCP program on a host may       *)
(* discover while the first one holds an address.                          *)
Discover(c) == Send(c, "discover", Outside, FALSE) /\ UNCHANGED <<hold, offer>>
Request(c) ==
    \E a \in Addresses, server \in BOOLEAN :
        Send(c, "request", a, server) /\ UNCHANGED <<hold, offer>>

GiveUp(c, kind) ==
    /\ hold[c].left > 0
    /\ Send(c, kind, hold[c].addr, TRUE)
    /\ hold' = [hold EXCEPT ![c] = NoHold]
    /\ offer' = [offer EXCEPT ![c] = NoOffer]

Release(c) == GiveUp(c, "release")
Decline(c) == GiveUp(c, "decline")

Counted(n, spent) == IF spent < n THEN n - spent ELSE 0
Held(addr, left) == IF left > 0 THEN [addr |-> addr, left |-> left] ELSE NoHold
Standing(addr, left, fresh) ==
    IF left > 0 THEN [addr |-> addr, left |-> left, fresh |-> fresh] ELSE NoOffer

Reply(c) ==
    /\ down[c] # NoReply
    /\ LET r == down[c]
       IN  /\ hold' = [hold EXCEPT ![c] =
                 CASE r.kind = "ack" -> Held(r.addr, Counted(LeaseTicks, r.age))
                   [] r.kind = "nak" -> NoHold
                   [] OTHER -> @]
           /\ offer' = [offer EXCEPT ![c] =
                 IF r.kind = "offer"
                 THEN Standing(r.addr, Counted(OfferTicks, r.age), r.fresh) ELSE @]
    /\ down' = [down EXCEPT ![c] = NoReply]
    /\ UNCHANGED <<lease, up, rest>>

Lose(c) ==
    /\ \/ Took(c) /\ UNCHANGED down
       \/ down[c] # NoReply /\ down' = [down EXCEPT ![c] = NoReply] /\ UNCHANGED up
    /\ UNCHANGED <<lease, hold, offer, rest>>

(* The device restarts: its interface leaves the hosts and comes back.     *)
Restart ==
    /\ lease' = [i \in Slots |-> FreeLease]
    /\ up' = [c \in Clients |-> <<>>] /\ down' = [c \in Clients |-> NoReply]
    /\ hold' = [c \in Clients |-> NoHold] /\ offer' = [c \in Clients |-> NoOffer]
    /\ rest' = [i \in Slots |-> 0]

Older(n, cap) == IF n < cap THEN n + 1 ELSE n

Tick ==
    /\ lease' = [i \in Slots |-> [lease[i] EXCEPT !.age = Older(@, Duration(lease[i].state))]]
    /\ up' = [c \in Clients |-> [i \in DOMAIN up[c] |->
                 IF up[c][i].live /\ up[c][i].kind = "request"
                 THEN [up[c][i] EXCEPT !.age = Older(@, LeaseTicks)] ELSE up[c][i]]]
    /\ down' = [c \in Clients |->
                 CASE down[c].kind = "ack" -> [down[c] EXCEPT !.age = Older(@, LeaseTicks)]
                   [] down[c].kind = "offer" -> [down[c] EXCEPT !.age = Older(@, OfferTicks)]
                   [] OTHER -> down[c]]
    /\ hold' = [c \in Clients |-> Held(hold[c].addr, Counted(hold[c].left, 1))]
    /\ offer' = [c \in Clients |->
                    Standing(offer[c].addr, Counted(offer[c].left, 1), offer[c].fresh)]
    /\ rest' = [i \in Slots |-> Counted(rest[i], 1)]

Next ==
    \/ Tick \/ Restart
    \/ \E c \in Clients :
          \/ Discover(c) \/ Request(c)
          \/ Release(c) \/ Decline(c) \/ ReceiveSilently(c) \/ ReceiveAnswered(c)
          \/ ReceiveUnsent(c) \/ ReceiveInform(c) \/ Reply(c) \/ Lose(c)

Spec == Init /\ [][Next]_vars

-----------------------------------------------------------------------------
\* The lease table, the clients and the messages on their way keep their types.
TypeOK ==
    /\ lease \in [Slots -> [state : {"free", "offered", "bound", "declined"},
                            client : Clients \cup {NoClient},
                            age : 0 .. Max({OfferTicks, LeaseTicks, DeclineTicks})]]
    /\ \A i \in Slots : lease[i].state = "free" => lease[i] = FreeLease
    /\ rest \in [Slots -> 0 .. DeclineTicks]
    /\ \A c \in Clients :
          /\ Len(up[c]) <= MaxQueue
          /\ down[c] \in [kind : {"none", "offer", "ack", "nak"}, addr : Addresses,
                          age : 0 .. Max({LeaseTicks, OfferTicks}), fresh : BOOLEAN]
          /\ hold[c] \in [addr : Addresses, left : 0 .. LeaseTicks]
          /\ offer[c] \in [addr : Addresses, left : 0 .. OfferTicks, fresh : BOOLEAN]

(* Two hosts never use the same address at the same time: whatever packets  *)
(* are lost, late or answered twice, an address that a client still counts  *)
(* as its own is not given to another.                                      *)
NoSharedAddress ==
    \A c, d \in Clients : c # d /\ hold[c].left > 0 /\ hold[d].left > 0 =>
        hold[c].addr # hold[d].addr

(* A client has at most one offer or lease, so that the search of receive   *)
(* (which keeps the last slot that matches) finds the only one.             *)
OneLeasePerClient ==
    \A i, j \in Slots, c \in Clients :
        SameClient(lease[i], c) /\ SameClient(lease[j], c) => i = j

(* As long as an offer stands that the table recorded, a request of that    *)
(* client for it is acknowledged, whoever else asks in between.             *)
OfferIsKept ==
    \A c \in Clients :
        LET m == Head(up[c])
        IN  up[c] # <<>> /\ m.kind = "request" /\ m.addr = offer[c].addr /\ offer[c].fresh =>
              Answer(Swept, c, m).kind = "ack"

(* An address that a client has found in use by a stranger is left alone    *)
(* for the whole quarantine: nobody holds it, and no grant or offer of it   *)
(* recorded in the table that still stands is under way.                    *)
DeclinedIsUnused ==
    \A i \in Slots, c \in Clients : rest[i] > 0 =>
        /\ ~(hold[c].left > 0 /\ hold[c].addr = i)
        /\ ~(offer[c].fresh /\ offer[c].addr = i)
        /\ ~(down[c].fresh /\ down[c].addr = i /\ down[c].age < OfferTicks)
        /\ ~(down[c].kind = "ack" /\ down[c].addr = i /\ down[c].age < LeaseTicks)
=============================================================================
