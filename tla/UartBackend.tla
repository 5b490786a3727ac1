----------------------------- MODULE UartBackend -----------------------------
(***************************************************************************)
(* A channel over a UART: Channel and Stream (core/session.cpp, stream.cpp)*)
(* on UartBackend (core/uart.cpp) on the Arduino-Pico driver, with the     *)
(* receive interrupt, the transmitter and a peer at the other end.  Bytes  *)
(* are counted, not named.                                                 *)
(*                                                                         *)
(* The peer answers each byte at most once and holds at most PeerHold of   *)
(* them; besides, it may send on its own (noise), which nothing can stop.  *)
(***************************************************************************)
EXTENDS Naturals

CONSTANTS
  Owners,     \* sessions
  RxCapacity, \* receive queue, and each queue of a Stream (256)
  Reserve,    \* receive bytes kept free before more is transmitted (64)
  TxFifo,     \* bytes the transmitter holds
  PeerHold,   \* bytes the peer holds before it answers
  Window,     \* bytes that can arrive between discard() and the driver's reset
  EventMax,   \* counters saturate here
  MaxSent,   \* bound on bytes taken from the network
  MaxNoise   \* bound on bytes the peer sends on its own

ASSUME BoundsAssumption ==
  /\ RxCapacity \in Nat /\ Reserve \in Nat /\ Reserve < RxCapacity
  /\ TxFifo \in Nat /\ PeerHold \in Nat /\ TxFifo + PeerHold <= Reserve
  /\ Window \in Nat /\ Window < RxCapacity
  /\ EventMax \in Nat /\ EventMax > 0 /\ MaxSent \in Nat /\ MaxNoise \in Nat
  /\ 0 \notin Owners

VARIABLES
  pc,         \* where the main loop is inside a call
  then,       \* the owner an acquisition in progress is for
  owner,      \* Stream::owner_
  toBackend, toPeer,  \* bytes in the Stream's two queues
  active,     \* the driver is configured
  pending,    \* bytes in the receive queue
  latch,      \* the driver's overrun flag
  room,       \* what write() may accept, from its sample of rx_pending()
  tx,         \* bytes in the transmitter
  peer,       \* bytes the peer holds
  events, lostMinimum, \* the backend's counters
  stalled,    \* the network takes no output
  \* History:
  sent,       \* bytes taken from the network
  noise,      \* bytes the peer sent on its own
  window,     \* bytes that arrived since discard()
  lost        \* bytes the receiver dropped

stream == <<then, owner, toBackend, toPeer>>
driver == <<active, pending, latch>>
line == <<tx, peer>>
counters == <<events, lostMinimum>>
uartVars == <<pc, stream, driver, room, line, counters, stalled, sent, noise, window, lost>>

Least(a, b) == IF a <= b THEN a ELSE b

UartInit ==
  /\ pc = "run" /\ then = 0 /\ owner = 0
  /\ toBackend = 0 /\ toPeer = 0
  /\ active = FALSE /\ pending = 0 /\ latch = FALSE /\ room = 0
  /\ tx = 0 /\ peer = 0
  /\ events = 0 /\ lostMinimum = 0 /\ stalled = FALSE
  /\ sent = 0 /\ noise = 0 /\ window = 0 /\ lost = 0

----------------------------------------------------------------------------
(* The line *)

\* The interrupt queues a byte or, with the queue full, latches an overrun.  A UART
\* that is off receives nothing.
Arrive ==
  IF ~active THEN UNCHANGED <<pending, latch, lost, window>>
  ELSE /\ window' = IF pc = "reset" THEN window + 1 ELSE window
       /\ IF pending < RxCapacity
          THEN pending' = pending + 1 /\ UNCHANGED <<latch, lost>>
          ELSE latch' = TRUE /\ lost' = lost + 1 /\ UNCHANGED pending

\* discard() and the reset are microseconds apart.
InWindow == pc = "reset" => window < Window

Transmit ==
  /\ tx > 0 /\ peer < PeerHold
  /\ tx' = tx - 1 /\ peer' = peer + 1
  /\ UNCHANGED <<pc, stream, driver, room, counters, stalled, sent, noise, window, lost>>

PeerAnswers ==
  /\ peer > 0 /\ InWindow
  /\ peer' = peer - 1
  /\ Arrive
  /\ UNCHANGED <<pc, stream, active, room, tx, counters, stalled, sent, noise>>

Swallow ==
  /\ peer > 0 /\ peer' = peer - 1
  /\ UNCHANGED <<pc, stream, driver, room, tx, counters, stalled, sent, noise, window, lost>>

Noise ==
  /\ noise < MaxNoise /\ InWindow
  /\ noise' = noise + 1
  /\ Arrive
  /\ UNCHANGED <<pc, stream, active, room, line, counters, stalled, sent>>

Line == Transmit \/ PeerAnswers \/ Swallow \/ Noise

\* The window opens again; only sending closes it.
Network ==
  /\ stalled /\ stalled' = FALSE
  /\ UNCHANGED <<pc, stream, driver, room, line, counters, sent, noise, window, lost>>

----------------------------------------------------------------------------
(* UartBackend *)

\* Mutant: discard() reads only part of the queue.
Part(n) == n \div 2

\* observe(): take_rx_overrun() clears the flag it returns.
Observe ==
  /\ latch' = FALSE
  /\ events' = IF latch /\ events < EventMax THEN events + 1 ELSE events
  /\ lostMinimum' = IF latch /\ lostMinimum < EventMax THEN lostMinimum + 1 ELSE lostMinimum

\* read() of a whole queue.
Drained(n) == n

Discard == Observe /\ pending' = pending - Drained(pending)

\* configure(), up to its discard(): busy while bytes are being transmitted.
StartReset(o) ==
  /\ active => tx = 0
  /\ pc' = "reset" /\ then' = o /\ window' = 0
  /\ IF active THEN Discard ELSE UNCHANGED <<pending, counters, latch>>

\* The driver's configure(): end() and begin() empty the queue and clear the flag.  It
\* may fail, which leaves the UART off.
Reset ==
  /\ pc = "reset"
  /\ pending' = 0 /\ latch' = FALSE /\ then' = 0 /\ pc' = "run"
  /\ \/ active' = TRUE /\ owner' = IF then = 0 THEN owner ELSE then
     \/ active' = FALSE /\ UNCHANGED owner
  /\ UNCHANGED <<toBackend, toPeer, room, line, counters, stalled, sent, noise, window, lost>>

----------------------------------------------------------------------------
(* Channel and Stream *)

\* acquire() with the line as it is: prepare_open(), Stream::open, discard().
Acquire(o) ==
  /\ pc = "run" /\ owner = 0 /\ active /\ tx = 0
  /\ owner' = o
  /\ Discard
  /\ UNCHANGED <<pc, then, toBackend, toPeer, active, room, line, stalled, sent, noise, window, lost>>

\* acquire() with a configuration; the rest follows in Reset.
AcquireConfigured(o) ==
  /\ pc = "run" /\ owner = 0
  /\ StartReset(o)
  /\ UNCHANGED <<owner, toBackend, toPeer, active, room, line, stalled, sent, noise, lost>>

\* The owner changes the configuration: only with both Stream queues empty.
Configure ==
  /\ pc = "run" /\ owner # 0 /\ toBackend = 0 /\ toPeer = 0
  /\ StartReset(0)
  /\ UNCHANGED <<owner, toBackend, toPeer, active, room, line, stalled, sent, noise, lost>>

\* release(), or poll() that finds the peer gone, the UART off or the stream idle.
ReleaseUart ==
  /\ pc = "run" /\ owner # 0
  /\ owner' = 0 /\ toBackend' = 0 /\ toPeer' = 0
  /\ Discard
  /\ UNCHANGED <<pc, then, active, room, line, stalled, sent, noise, window, lost>>

\* poll(): pump() from the network, then write() samples rx_pending(); a write() that
\* returns 0 leaves poll() to go on in the other direction.
PollIn ==
  /\ pc = "run" /\ owner # 0 /\ active
  /\ \E n \in 0..Least(RxCapacity, MaxSent - sent) :
       /\ toBackend > 0 => n = 0
       /\ toBackend' = toBackend + n /\ sent' = sent + n
  /\ IF toBackend' > 0
     THEN /\ Observe
          /\ IF pending < RxCapacity - Reserve
             THEN pc' = "write" /\ room' = RxCapacity - Reserve - pending
             ELSE pc' = "read" /\ UNCHANGED room
     ELSE pc' = "read" /\ UNCHANGED <<room, latch, counters>>
  /\ UNCHANGED <<then, owner, toPeer, active, pending, line, stalled, noise, window, lost>>

\* Mutant: the whole chunk is offered to the driver.
Everything(size) == Least(size, TxFifo - tx)

\* What the driver takes of std::min(size, capacity - reserve - pending).
Accepted(size) == Least(Least(size, room), TxFifo - tx)

Write ==
  /\ pc = "write"
  /\ tx' = tx + Accepted(toBackend) /\ toBackend' = toBackend - Accepted(toBackend)
  /\ pc' = "read" /\ room' = 0
  /\ UNCHANGED <<then, owner, toPeer, driver, peer, counters, stalled, sent, noise, window, lost>>

\* read() only into an empty queue, then what the network takes of it.
Take ==
  IF toPeer = 0 THEN Observe /\ pending' = 0 /\ toPeer' = IF stalled THEN pending ELSE 0
  ELSE toPeer' = (IF stalled THEN toPeer ELSE 0) /\ UNCHANGED <<pending, latch, counters>>

\* ... and pump() to the network.
PollOut ==
  /\ pc = "read"
  /\ Take
  /\ pc' = "run" /\ stalled' \in {stalled, TRUE}
  /\ UNCHANGED <<then, owner, toBackend, active, room, line, sent, noise, window, lost>>

Poll == PollIn \/ Write \/ PollOut

UartNext ==
  \/ Line \/ Network \/ Reset \/ Configure \/ ReleaseUart \/ Poll
  \/ \E o \in Owners : Acquire(o) \/ AcquireConfigured(o)

UartSpec == UartInit /\ [][UartNext]_uartVars

----------------------------------------------------------------------------
(* Properties *)

Flags == active \in BOOLEAN /\ latch \in BOOLEAN /\ stalled \in BOOLEAN

Queues ==
  /\ pc \in {"run", "write", "read", "reset"}
  /\ owner \in Owners \cup {0} /\ then \in Owners \cup {0}
  /\ toBackend \in 0..RxCapacity /\ toPeer \in 0..RxCapacity /\ pending \in 0..RxCapacity
  /\ room \in 0..RxCapacity /\ tx \in 0..TxFifo /\ peer \in 0..PeerHold
  /\ events \in 0..EventMax /\ lostMinimum \in 0..EventMax
  /\ sent \in Nat /\ noise \in Nat /\ window \in 0..Window /\ lost \in Nat

\* The types of the variables; each queue within its size.
UartTypeOK == Flags /\ Queues

\* core/uart.h: the reserve covers bytes already in the transmitter or in flight when a
\* peer echoes while network output is backpressured.  A peer that only answers never
\* overruns the receiver, however long the network stalls and although write() acts
\* on a sample of rx_pending() the interrupt may have outdated.
EchoNeverOverruns == noise = 0 => lost = 0

\* docs/protocol.md: uart_rx_lost_bytes_minimum is a conservative count; each event
\* counted stands for a byte of its own that was lost.
CountIsMinimum == lostMinimum <= lost /\ (latch => lostMinimum < lost)

\* No loss goes unnoticed: until it is counted the flag is still up, although a
\* reconfiguration resets the driver and its flag.  Nor is more counted than was lost.
LossIsSeen == (lost > 0 => latch \/ lostMinimum > 0) /\ CountIsMinimum
=============================================================================
