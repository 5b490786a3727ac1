------------------------------ MODULE TcpServer ------------------------------
(***************************************************************************)
(* TcpSessionServer: the connection slots between lwIP's raw TCP callbacks *)
(* and the sessions.  Callbacks only note what happened; all session work  *)
(* and all clean-up is left to poll, so a slot may already hold the next   *)
(* peer's socket while the session, the packet and the unacknowledged      *)
(* count of the last peer are still in it.                                 *)
(*                                                                         *)
(* The Ethernet lock keeps callbacks out of a poll: turn is 0 outside of   *)
(* it and the slot that its second loop has reached inside.  What a        *)
(* Session::poll reads, writes and decides is chosen (FmgoSessions says    *)
(* what it may be); the channel is reduced to its owner.                   *)
(***************************************************************************)
EXTENDS Naturals, FiniteSets, FiniteSetsExt

CONSTANTS Limit,      \* connection_limit
          Pcbs,       \* the connections that peers make, numbered as accept meets them
          NoPcb,      \* nullptr
          SegLen,     \* bytes of a received pbuf chain
          MaxSegs,    \* bound: pbuf chains that a peer sends
          SendBuf,    \* TCP_SND_BUF
          CloseTicks, \* close_ms, in ticks; less than Wrap
          Wrap        \* the range of the millisecond clock, in ticks

VARIABLES listening,  \* listener_
          conn,       \* connections_
          sock,       \* lwIP's side of each connection
          owner,      \* the slot whose session owns the channel, or 0
          turn,       \* where poll is
          time,       \* the clock
          polled      \* bound: a poll has finished since the last tick

vars == <<listening, conn, sock, owner, turn, time, polled>>
world == [conn |-> conn, sock |-> sock, owner |-> owner]

SlotIds == 1 .. Limit
NoPacket == [of |-> NoPcb, left |-> 0]

(* session: the connection that the slot's Session was constructed for.    *)
Free == [pcb |-> NoPcb, packet |-> NoPacket, closingAt |-> 0, unacked |-> 0,
         occupied |-> FALSE, closing |-> FALSE, replacing |-> FALSE,
         session |-> NoPcb]

(* state: new, live, gone (freed), closed (tcp_close succeeded), expired   *)
(* (aborted by close after its deadline).  owed: bytes handed over and not *)
(* yet credited with tcp_recved.  unacked: bytes the peer has not          *)
(* acknowledged.  History: ended says that the session of this connection  *)
(* has returned its result, age counts the ticks since.  Nothing is kept   *)
(* of a socket that is gone.                                               *)
Unused == [state |-> "new", arg |-> 0, segs |-> MaxSegs, owed |-> 0,
           unacked |-> 0, ended |-> FALSE, age |-> 0]

Gone == [Unused EXCEPT !.state = "gone", !.segs = 0]

Init ==
    /\ listening = FALSE /\ conn = [s \in SlotIds |-> Free]
    /\ sock = [p \in Pcbs |-> Unused]
    /\ owner = 0 /\ turn = 0 /\ time = 0 /\ polled = FALSE

Live(w, s) == w.conn[s].pcb # NoPcb

-----------------------------------------------------------------------------
(* The methods of a connection, over a world w.                            *)

(* tcp_recved                                                              *)
Credit(w, s, n) ==
    IF Live(w, s) THEN [w EXCEPT !.sock[w.conn[s].pcb].owed = @ - n] ELSE w

DiscardPacket(w, s) == [w EXCEPT !.conn[s].packet = NoPacket]

AbortPcb(w, s) ==
    IF Live(w, s)
    THEN [w EXCEPT !.sock[w.conn[s].pcb] = Gone, !.conn[s].pcb = NoPcb] ELSE w

(* ~Session: whatever the session owned is released.                       *)
DestroySession(w, s) ==
    [w EXCEPT !.conn[s].session = NoPcb,
              !.owner = IF @ = s THEN 0 ELSE @]

Clear(w, s) ==
    LET w1 == DiscardPacket(AbortPcb(DestroySession(w, s), s), s)
    IN  [w1 EXCEPT !.conn[s] = [@ EXCEPT !.occupied = FALSE, !.closing = FALSE,
                                        !.replacing = FALSE, !.unacked = 0]]

(* The clock difference is unsigned.                                       *)
Elapsed(from) == (time + Wrap - from) % Wrap
DeadlineAbsolute(c) == time >= c.closingAt + CloseTicks
DeadlinePassed(c) == Elapsed(c.closingAt) >= CloseTicks

(* The deadline's clear, told apart from the others.                       *)
Expire(w, s) ==
    LET p == w.conn[s].pcb
    IN  [Clear(w, s) EXCEPT !.sock[p] = [w.sock[p] EXCEPT !.state = "expired", !.arg = 0, !.segs = 0]]

(* tcp_close hands the socket to lwIP, finds no memory (the callbacks are  *)
(* attached again), or fails.                                              *)
CloseOutcomes == {"ok", "mem", "error"}

Finished(w, s, outcome) ==
    LET p == w.conn[s].pcb
        w1 == DiscardPacket(Credit(w, s, w.conn[s].packet.left), s)
    IN  CASE outcome = "ok" ->
               Clear([w1 EXCEPT !.conn[s].pcb = NoPcb,
                                !.sock[p] = [@ EXCEPT !.state = "closed", !.arg = 0, !.segs = 0]],
                     s)
          [] outcome = "mem" -> w1
          [] outcome = "error" -> Clear(w1, s)

Close(w, s, outcome) ==
    CASE ~Live(w, s) -> Clear(w, s)
      [] Live(w, s) /\ DeadlinePassed(w.conn[s]) -> Expire(w, s)
      [] Live(w, s) /\ ~DeadlinePassed(w.conn[s]) /\ w.conn[s].unacked > 0 -> w
      [] OTHER -> Finished(w, s, outcome)

Read(w, s, n) ==
    LET count == Min({n, w.conn[s].packet.left})
        w1 == Credit([w EXCEPT !.conn[s].packet.left = @ - count], s, count)
    IN  IF w1.conn[s].packet.left = 0 THEN DiscardPacket(w1, s) ELSE w1

Write(w, s, n) ==
    LET p == w.conn[s].pcb
        count == Min({n, SendBuf - w.sock[p].unacked})
    IN  [w EXCEPT !.conn[s].unacked = @ + count, !.sock[p].unacked = @ + count]

-----------------------------------------------------------------------------
(* The lwIP callbacks, which run while no poll does.                       *)

Begin ==
    /\ turn = 0 /\ ~listening
    /\ listening' = TRUE
    /\ UNCHANGED <<conn, sock, owner, turn, time, polled>>

Put(w) == conn' = w.conn /\ sock' = w.sock /\ owner' = w.owner

Stop ==
    /\ turn = 0 /\ listening
    /\ Put(FoldSet(LAMBDA s, w : Clear(w, s), world, SlotIds))
    /\ listening' = FALSE
    /\ UNCHANGED <<turn, time, polled>>

(* The first slot without a live socket is reserved; what its last socket  *)
(* left behind stays until poll.                                           *)
Vacant == {s \in SlotIds : ~(conn[s].occupied /\ conn[s].pcb # NoPcb)}

ReserveAsNew(p, s, replacing) ==
    /\ conn' = [conn EXCEPT ![s] = [@ EXCEPT !.occupied = TRUE, !.pcb = p]]
    /\ sock' = [sock EXCEPT ![p].state = "live", ![p].arg = s]
ReserveSlot(p, s, replacing) ==
    /\ conn' = [conn EXCEPT ![s] = [@ EXCEPT !.replacing = replacing,
                                             !.occupied = TRUE, !.pcb = p]]
    /\ sock' = [sock EXCEPT ![p].state = "live", ![p].arg = s]

Accept(p) ==
    /\ turn = 0 /\ listening /\ sock[p].state = "new"
    /\ \A q \in Pcbs : q < p => sock[q].state # "new"
    /\ \/ /\ Vacant # {}
          /\ LET s == Min(Vacant) IN ReserveSlot(p, s, conn[s].occupied)
       \/ /\ Vacant = {}
          /\ sock' = [sock EXCEPT ![p] = Gone]
          /\ UNCHANGED conn
    /\ UNCHANGED <<listening, owner, turn, time, polled>>

(* Data that finds the slot unable to take it (a packet is still there, or *)
(* the slot is closing or replacing) stays with lwIP, which offers it      *)
(* again.                                                                  *)
Refuses(c) == c.packet # NoPacket \/ c.closing \/ c.replacing

Receive(p) ==
    LET s == sock[p].arg
    IN  /\ turn = 0 /\ s # 0 /\ sock[p].segs > 0
        /\ ~Refuses(conn[s])
        /\ conn' = [conn EXCEPT ![s].packet = [of |-> p, left |-> SegLen]]
        /\ sock' = [sock EXCEPT ![p].segs = @ - 1, ![p].owed = @ + SegLen]
        /\ UNCHANGED <<listening, owner, turn, time, polled>>

(* receive without a packet: the peer has closed its direction.            *)
ReceiveEof(p) ==
    /\ turn = 0 /\ sock[p].arg # 0
    /\ Put(AbortPcb(world, sock[p].arg))
    /\ UNCHANGED <<listening, turn, time, polled>>

(* lwIP has freed the pcb: a reset, or retransmission given up.            *)
Failed(p) ==
    /\ turn = 0 /\ sock[p].arg # 0
    /\ conn' = [conn EXCEPT ![sock[p].arg].pcb = NoPcb]
    /\ sock' = [sock EXCEPT ![p] = Gone]
    /\ UNCHANGED <<listening, owner, turn, time, polled>>

Sent(p) ==
    LET s == sock[p].arg
    IN  /\ turn = 0 /\ s # 0
        /\ \E n \in 1 .. sock[p].unacked :
              /\ conn' = [conn EXCEPT ![s].unacked = @ - Min({n, @})]
              /\ sock' = [sock EXCEPT ![p].unacked = @ - n]
        /\ UNCHANGED <<listening, owner, turn, time, polled>>

-----------------------------------------------------------------------------
(* poll.  The first loop retires what died since the last poll, before any *)
(* session runs.                                                           *)

RetireReplaced(w, s) ==
    IF w.conn[s].replacing
    THEN [DiscardPacket(DestroySession(w, s), s) EXCEPT
             !.conn[s].closing = FALSE, !.conn[s].replacing = FALSE,
             !.conn[s].unacked = 0]
    ELSE w

Retire(w, s) ==
    LET w1 == RetireReplaced(w, s)
    IN  IF w1.conn[s].occupied /\ ~Live(w1, s) THEN Clear(w1, s) ELSE w1

PollBegin ==
    /\ turn = 0
    /\ Put(FoldSet(LAMBDA s, w : Retire(w, s), world, SlotIds))
    /\ turn' = 1
    /\ UNCHANGED <<listening, time, polled>>

NextSlot ==
    /\ turn' = IF turn = Limit THEN 0 ELSE turn + 1
    /\ polled' = (polled \/ turn = Limit)
    /\ UNCHANGED <<listening, time>>

PollFree ==
    /\ turn # 0 /\ ~conn[turn].occupied
    /\ UNCHANGED <<conn, sock, owner>> /\ NextSlot

PollClosing ==
    /\ turn # 0 /\ conn[turn].occupied /\ conn[turn].closing
    /\ \E outcome \in CloseOutcomes : Put(Close(world, turn, outcome))
    /\ NextSlot

(* A session is constructed if need be.                                    *)
Constructed(w, s) ==
    IF w.conn[s].session = NoPcb THEN [w EXCEPT !.conn[s].session = w.conn[s].pcb] ELSE w

Running == turn # 0 /\ conn[turn].occupied /\ ~conn[turn].closing
Connected == Running /\ conn[turn].pcb # NoPcb

(* Its poll reads, may take or give up the channel, writes, and goes on.   *)
PollSession ==
    /\ Connected
    /\ \E r \in 0 .. SegLen, n \in 0 .. SendBuf :
         LET w == Write(Read(Constructed(world, turn), turn, r), turn, n)
         IN  /\ conn' = w.conn /\ sock' = w.sock
             /\ owner' \in {owner} \cup (IF owner = 0 THEN {turn} ELSE {})
                                   \cup (IF owner = turn THEN {0} ELSE {})
    /\ NextSlot

(* A write that fails for good has aborted the socket, whatever the result *)
(* of the session's poll.                                                  *)
PollBroken ==
    /\ Running
    /\ Put(Clear(AbortPcb(Constructed(world, turn), turn), turn))
    /\ NextSlot

(* The session is over: what it wrote last is still to be acknowledged.    *)
Ending(w, s) ==
    [DestroySession(w, s) EXCEPT !.conn[s].closing = TRUE, !.conn[s].closingAt = time,
                                 !.sock[w.conn[s].pcb].ended = TRUE]

PollEnded ==
    /\ Connected
    /\ \E r \in 0 .. SegLen, n \in 0 .. SendBuf, outcome \in CloseOutcomes :
         LET w == Write(Read(Constructed(world, turn), turn, r), turn, n)
         IN  Put(Close(Ending(w, turn), turn, outcome))
    /\ NextSlot

(* poll runs far more often than the clock wraps around: at least once per *)
(* tick.                                                                   *)
Tick ==
    /\ turn = 0 /\ polled
    /\ time' = (time + 1) % Wrap
    /\ polled' = FALSE
    /\ sock' = [p \in Pcbs |->
                  IF sock[p].ended /\ sock[p].state = "live" /\ sock[p].age < CloseTicks
                  THEN [sock[p] EXCEPT !.age = @ + 1] ELSE sock[p]]
    /\ UNCHANGED <<listening, conn, owner, turn>>

PollStep == PollFree \/ PollClosing \/ PollSession \/ PollBroken \/ PollEnded

Next ==
    \/ Begin \/ Stop \/ PollBegin \/ PollStep \/ Tick
    \/ \E p \in Pcbs : Accept(p) \/ Receive(p) \/ ReceiveEof(p) \/ Failed(p) \/ Sent(p)

Spec == Init /\ [][Next]_vars

-----------------------------------------------------------------------------

(* Sockets and slots agree: a slot's pcb has not been freed, its callbacks  *)
(* lead to that slot, and every live socket is some slot's, so that "No     *)
(* third live PCB" (accept) is held and none that close could not hand over *)
(* is forgotten.                                                            *)
SocketsAreHeld ==
    \A p \in Pcbs, s \in SlotIds :
        (conn[s].pcb = p) <=> (sock[p].state = "live" /\ sock[p].arg = s)

(* What a socket has handed over without being credited is what its own     *)
(* packet still holds: less would stall the peer for good, more would open  *)
(* a window that is not there.                                              *)
WindowIsAccounted ==
    \A s \in SlotIds : conn[s].pcb # NoPcb =>
        sock[conn[s].pcb].owed =
            IF conn[s].packet.of = conn[s].pcb THEN conn[s].packet.left ELSE 0

(* What an earlier peer left in a slot never meets the next one, although   *)
(* accept fills the slot before poll has cleaned it up.  Unless the slot is *)
(* marked as being replaced its session and its packet are its socket's;    *)
(* sockets and slots agree; the receive window is accounted for exactly;    *)
(* and while sessions run the channel's owner is connected, so that no peer *)
(* is told BUSY on account of a dead one.                                   *)
NothingInherited ==
    /\ \A s \in SlotIds : conn[s].pcb # NoPcb /\ ~conn[s].replacing =>
          /\ conn[s].session \in {NoPcb, conn[s].pcb}
          /\ conn[s].packet.of \in {NoPcb, conn[s].pcb}
    /\ SocketsAreHeld /\ WindowIsAccounted
    /\ turn # 0 /\ owner # 0 =>
          conn[owner].pcb # NoPcb /\ conn[owner].session = conn[owner].pcb

(* A closing connection is neither cut short nor kept: one that is closed   *)
(* has been served to the end and all that was written to it is             *)
(* acknowledged; one that is aborted for not acknowledging had the full     *)
(* time that close allows; and after that time the next poll frees the      *)
(* slot, whatever the peer does and across the wrap of the clock.           *)
ClosingIsOrderly ==
    \A p \in Pcbs :
        /\ sock[p].state = "closed" => sock[p].ended /\ sock[p].unacked = 0
        /\ sock[p].state = "expired" => sock[p].ended /\ sock[p].age >= CloseTicks
        /\ sock[p].state = "live" /\ sock[p].ended /\ turn = 0 /\ polled =>
              sock[p].age < CloseTicks
=============================================================================
