----------------------------- MODULE ProofUpload -----------------------------
(***************************************************************************)
(* The private upload listener of the m7exp3 resident and the host tools   *)
(* that use it: ProofUploadServer (one socket at a time), UploadReceiver   *)
(* (the frame parser) and CapsuleStage on the board; upload.upload,        *)
(* upload.main, probe_pause.main and probe_stall.main on the host.         *)
(*                                                                         *)
(* A frame is a header, BodyLen pieces of capsule and the commit marker;   *)
(* anything else in the place of one of them is a wrong one.  Callbacks    *)
(* run under the Ethernet lock, between the steps of core 0's loop: poll,  *)
(* take_commit, the start of the switch (or cancel_commit), the switch's   *)
(* poll with finish_commit.  That loop was part of the m7exp3 sketch and   *)
(* is not in the repository; its order is the one that the comments of     *)
(* upload_server.h describe.  SketchSwitch is reduced to its verdicts;     *)
(* ManagedUpload has it step by step.                                      *)
(***************************************************************************)
EXTENDS Integers, Sequences, SequencesExt

CONSTANTS
  Conns,     \* connections to port 7421, each used once
  None,      \* nullptr
  BodyLen,   \* pieces of a capsule
  MaxItems,  \* bound: items that a peer sends
  MaxPacket, \* items in one pbuf chain
  Width,     \* 2^32, for next_owner_
  Wrap,      \* 2^32, for the millisecond clock, in ticks
  LastTick,  \* bound: the clock stops here (Wrap: never)
  Receive,   \* 5000 ms from the first poll to the end of the frame
  Respond,   \* 2000 ms to deliver the response
  Park,      \* pause_timeout_ms
  Busy,      \* delay(5000) of pause_probe
  Late,      \* 4.5 s: the latest refusal that probe_pause accepts
  Wake,      \* 5.3 s: when probe_pause talks to the sketch again
  Jobs,      \* the tools the host may run
  MaxBoots   \* bound: restarts of the board

VARIABLES
  srv,       \* ProofUploadServer and its UploadReceiver
  stage,     \* CapsuleStage
  sock,      \* lwIP's and the peer's side of every connection
  pc,        \* where core 0's loop is
  taken,     \* the owner that take_commit returned
  sw,        \* SketchSwitch: owner_ and started_at_
  armed,     \* D2 reads LOW
  sketch,    \* the sketch in the slot and what core 1 does
  now,       \* millis()
  polled,    \* bound: the loop came round since the last tick
  boot,      \* boot_id
  tool,      \* the host tool
  touched,   \* history: connections whose capsule was written to flash
  installed  \* history: the ones of them that read back

board == <<srv, stage, pc, taken, sw, sketch>>
hist  == <<touched, installed>>
vars  == <<board, sock, armed, now, polled, boot, tool, hist>>

Frame == <<"header">> \o [i \in 1..BodyLen |-> "body"] \o <<"go">>
Items == {"header", "body", "go"}

Since(t) == (now - t + Wrap) % Wrap

NoReceiver == [header |-> FALSE, body |-> 0, status |-> "receiving"]
Idle(next) ==
  [pcb |-> None, packet |-> <<>>, occupied |-> FALSE, owner |-> 0, next |-> next,
   acceptedAt |-> 0, responseAt |-> 0, lastPoll |-> 0, response |-> "none",
   pending |-> FALSE, running |-> FALSE, ended |-> FALSE, written |-> FALSE,
   acked |-> FALSE, rx |-> NoReceiver]

\* History: of, the connection that the pieces came from; armedAt, where the arm
\* was seen.
EmptyStage == [owner |-> 0, got |-> 0, good |-> TRUE, verified |-> FALSE, of |-> None,
               armedAt |-> {}]

\* got: how many items the receive callback was handed; exact: they are a prefix
\* of the frame.  History: why, the reason of a T; age, ticks since accept.
NewSock == [state |-> "new", by |-> "other", got |-> 0, exact |-> TRUE, fin |-> FALSE,
            answer |-> "none", why |-> "none", age |-> 0]

\* Of a socket that is gone only what a property still needs is kept.
Gone(c) ==
  LET k == sock[c]
      kept == IF stage.of = c THEN k ELSE NewSock
  IN [kept EXCEPT !.state = "gone", !.age = 0, !.by = k.by, !.answer = k.answer,
                  !.why = IF k.by = "tool" THEN k.why ELSE "none"]

NoSwitch == [owner |-> 0, startedAt |-> 0]
NoTool == [pc |-> "off", job |-> "install", conn |-> None, boot |-> 0, age |-> 0]

Init ==
  /\ srv = Idle(1) /\ stage = EmptyStage
  /\ sock = [c \in Conns |-> NewSock]
  /\ pc = "poll" /\ taken = 0 /\ sw = NoSwitch
  /\ armed \in BOOLEAN
  /\ sketch = [code |-> None, mode |-> "running", left |-> 0]
  /\ now = 1 /\ polled = FALSE /\ boot = 0
  /\ tool = NoTool /\ touched = {} /\ installed = {}

----------------------------------------------------------------------------
(* UploadReceiver; s holds srv and stage *)

StageAbort(st, o) == IF st.owner # 0 /\ st.owner = o THEN EmptyStage ELSE st

Reject(s, reason) ==
  [srv   |-> [s.srv EXCEPT !.rx.status = reason],
   stage |-> StageAbort(s.stage, s.srv.owner)]

ParseHeader(s, item) ==
  LET parsed == [s EXCEPT !.srv.rx.header = TRUE] IN
  IF ~armed THEN Reject(parsed, "denied")
  ELSE IF item # "header" \/ s.stage.owner # 0 THEN Reject(parsed, "invalid")
  ELSE [parsed EXCEPT !.stage = [EmptyStage EXCEPT !.owner = s.srv.owner,
                                                   !.of = s.srv.pcb,
                                                   !.armedAt = {"header"}]]

\* stage_.append, and stage_.finish after the last piece.
Append1(s, item) ==
  LET st   == [s.stage EXCEPT !.got = @ + 1, !.good = @ /\ item = "body",
                              !.verified = s.srv.rx.body + 1 = BodyLen]
      more == [s EXCEPT !.srv.rx.body = @ + 1, !.stage = st]
  IN IF s.stage.owner # s.srv.owner \/ (st.verified /\ ~st.good)
     THEN Reject(more, "invalid")
     ELSE more

CommitMarker(s, item) ==
  IF ~armed THEN Reject(s, "denied")
  ELSE IF item # "go" THEN Reject(s, "invalid")
  ELSE [s EXCEPT !.srv.rx.status = "ready", !.stage.armedAt = @ \cup {"go"}]

Feed(s, item) ==
  CASE s.srv.rx.status = "ready"            -> Reject(s, "invalid")
    [] s.srv.rx.status \in {"denied", "invalid"} -> s
    [] ~s.srv.rx.header                     -> ParseHeader(s, item)
    [] s.srv.rx.header /\ s.srv.rx.body < BodyLen -> Append1(s, item)
    [] OTHER                                -> CommitMarker(s, item)

----------------------------------------------------------------------------
(* ProofUploadServer::poll, piece by piece *)

Clear(s) ==
  [srv   |-> Idle(s.srv.next),
   stage |-> IF s.srv.running THEN s.stage ELSE StageAbort(s.stage, s.srv.owner)]

QueueResponse(s, r) == [s EXCEPT !.srv.response = r, !.srv.responseAt = s.srv.lastPoll]

Refuse(s, r) ==
  LET a == IF s.srv.running THEN s ELSE Reject(s, "invalid")
  IN QueueResponse([a EXCEPT !.srv.pending = FALSE], r)

Answering(s) == s.srv.response # "none" \/ s.srv.running

\* accepted_at_ is the first poll's time, with 0 kept for "not set".
Stamp(s) ==
  [s EXCEPT !.srv.lastPoll = now,
            !.srv.acceptedAt = IF @ # 0 THEN @ ELSE IF now # 0 THEN now ELSE 1]

Expire(s) ==
  IF ~Answering(s) /\ Since(s.srv.acceptedAt) >= Receive THEN Refuse(s, "T") ELSE s

TakePacket(s) ==
  IF s.srv.packet = <<>> \/ Answering(s) THEN s
  ELSE LET f == FoldLeft(Feed, s, s.srv.packet)
           g == CASE f.srv.rx.status = "denied"  -> Refuse(f, "D")
                  [] f.srv.rx.status = "invalid" -> Refuse(f, "I")
                  [] OTHER -> f
       IN [g EXCEPT !.srv.packet = <<>>]

EndOfInput(s) ==
  IF ~s.srv.ended \/ s.srv.packet # <<>> \/ Answering(s) THEN s
  ELSE IF s.srv.rx.status = "ready" THEN [s EXCEPT !.srv.pending = TRUE]
  ELSE Refuse(s, "I")

\* room: tcp_sndbuf and tcp_write succeed; close: the result of tcp_close.
SendResponse(s, room, close) ==
  LET w == IF s.srv.written \/ ~room THEN s ELSE [s EXCEPT !.srv.written = TRUE] IN
  IF s.srv.response = "none" THEN s
  ELSE IF Since(s.srv.responseAt) >= Respond THEN Clear(s)
  ELSE IF ~w.srv.written \/ ~s.srv.acked \/ close = "mem" THEN w
  ELSE Clear(w)

----------------------------------------------------------------------------
(* Core 0's loop *)

\* The socks after a step that leaves the server with s: a pcb it dropped is
\* closed or aborted, and the reason of a new T is noted.
Socks(s, reason) ==
  LET c == srv.pcb IN
  IF c = None THEN sock
  ELSE IF s.srv.pcb = None THEN [sock EXCEPT ![c] = Gone(c)]
  ELSE IF s.srv.response = "T" /\ srv.response = "none" THEN [sock EXCEPT ![c].why = reason]
  ELSE sock

Polled ==
  LET s == [srv |-> srv, stage |-> stage] IN
  IF ~srv.occupied THEN {s}
  ELSE IF srv.pcb = None THEN {Clear(s)}
  ELSE {SendResponse(EndOfInput(TakePacket(Expire(Stamp(s)))), room, close) :
          room \in BOOLEAN, close \in {"closed", "mem"}}

Poll ==
  /\ pc = "poll"
  /\ \E s \in Polled : srv' = s.srv /\ stage' = s.stage /\ sock' = Socks(s, "deadline")
  /\ pc' = "core"
  /\ UNCHANGED <<taken, sw, armed, sketch, now, polled, boot, tool, hist>>

TakeCommit ==
  /\ pc = "core"
  /\ IF srv.pending /\ srv.pcb # None
     THEN /\ srv' = [srv EXCEPT !.pending = FALSE, !.running = TRUE]
          /\ taken' = srv.owner /\ pc' = "taken" /\ UNCHANGED polled
     ELSE /\ pc' = IF sw.owner # 0 THEN "switch" ELSE "poll"
          /\ polled' = (polled \/ sw.owner = 0) /\ UNCHANGED <<srv, taken>>
  /\ UNCHANGED <<stage, sw, sock, armed, sketch, now, boot, tool, hist>>

\* An FMGO stream is open, or the switch does not begin.
CancelCommit ==
  /\ pc = "taken"
  /\ LET own == srv.running /\ taken = srv.owner
         s == QueueResponse([srv |-> [srv EXCEPT !.running = FALSE],
                             stage |-> StageAbort(stage, taken)], "B")
     IN IF own THEN srv' = s.srv /\ stage' = s.stage ELSE UNCHANGED <<srv, stage>>
  /\ taken' = 0 /\ pc' = "poll" /\ polled' = TRUE
  /\ UNCHANGED <<sw, sock, armed, sketch, now, boot, tool, hist>>

BeginSwitch ==
  /\ pc = "taken"
  /\ sw.owner = 0 /\ stage.verified /\ stage.owner = taken
  /\ sw' = [owner |-> taken, startedAt |-> now]
  /\ taken' = 0 /\ pc' = "switch"
  /\ UNCHANGED <<srv, stage, sock, armed, sketch, now, polled, boot, tool, hist>>

\* finish_commit: only the connection that this commit is still running for.
FinishCommit(r) ==
  IF srv.running /\ sw.owner = srv.owner
  THEN QueueResponse([srv |-> [srv EXCEPT !.running = FALSE], stage |-> stage], r).srv
  ELSE srv

Staged == stage.verified /\ stage.owner = sw.owner

SwitchDone(r) ==
  /\ srv' = FinishCommit(r)
  /\ stage' = StageAbort(stage, sw.owner)
  /\ sw' = NoSwitch
  /\ sock' = Socks([srv |-> FinishCommit(r)], "park")

\* Core 1 has parked: the old sketch is stopped, the slot written and read back.
Install ==
  /\ sketch.mode \in {"running", "stopped"}
  /\ \/ /\ Staged
        /\ touched' = touched \cup {stage.of} /\ installed' = installed \cup {stage.of}
        /\ sketch' = [code |-> stage.of, mode |-> "running", left |-> 0]
        /\ SwitchDone("K")
     \/ /\ touched' \in {touched} \cup (IF Staged THEN {touched \cup {stage.of}} ELSE {})
        /\ UNCHANGED installed
        /\ sketch' = [sketch EXCEPT !.mode = "stopped"]
        /\ SwitchDone("F")

SwitchPoll ==
  /\ pc = "switch"
  /\ \/ ~armed /\ SwitchDone("D") /\ UNCHANGED <<sketch, hist>>
     \/ /\ armed /\ Since(sw.startedAt) < Park
        /\ UNCHANGED <<srv, stage, sw, sock, sketch, hist>>
     \/ armed /\ Since(sw.startedAt) >= Park /\ SwitchDone("T") /\ UNCHANGED <<sketch, hist>>
     \/ armed /\ Install
  /\ pc' = "poll" /\ polled' = TRUE
  /\ UNCHANGED <<taken, armed, now, boot, tool>>

----------------------------------------------------------------------------
(* lwIP's callbacks; they never interrupt a poll *)

NextOwner(o) == IF (o + 1) % Width = 0 THEN 1 ELSE o + 1

Accept(c, who) ==
  /\ sock[c].state = "new"
  /\ sock' = [sock EXCEPT ![c].state = IF srv.occupied THEN "gone" ELSE "live",
                          ![c].by = who]
  /\ srv' = IF srv.occupied THEN srv
            ELSE [Idle(NextOwner(srv.next)) EXCEPT !.pcb = c, !.occupied = TRUE,
                                                   !.owner = srv.next]
  /\ UNCHANGED <<stage, pc, taken, sw, sketch, armed, now, polled, boot, hist>>

\* A pbuf that the callback takes; lwIP keeps the others.
Delivered(c, items) ==
  /\ srv.pcb = c /\ srv.packet = <<>> /\ ~Answering([srv |-> srv]) /\ ~srv.ended
  /\ srv' = [srv EXCEPT !.packet = items]
  /\ LET n == sock[c].got + Len(items)
         right == n <= Len(Frame) /\ items = SubSeq(Frame, sock[c].got + 1, n)
     IN sock' = [sock EXCEPT ![c].got = n, ![c].exact = @ /\ right]
  /\ UNCHANGED <<stage, pc, taken, sw, sketch, armed, now, polled, boot, tool, hist>>

HalfClosed(c) ==
  /\ srv.pcb = c /\ ~sock[c].fin
  /\ srv' = [srv EXCEPT !.ended = TRUE]
  /\ sock' = [sock EXCEPT ![c].fin = TRUE]
  /\ UNCHANGED <<stage, pc, taken, sw, sketch, armed, now, polled, boot, tool, hist>>

\* The err callback, or a receive callback with an error.
Failed(c) ==
  /\ srv.pcb = c
  /\ srv' = [srv EXCEPT !.pcb = None]
  /\ sock' = [sock EXCEPT ![c] = Gone(c)]
  /\ UNCHANGED <<stage, pc, taken, sw, sketch, armed, now, polled, boot, tool, hist>>

Answered(c) ==
  /\ srv.pcb = c /\ srv.written /\ sock[c].answer = "none"
  /\ sock' = [sock EXCEPT ![c].answer = srv.response]
  /\ UNCHANGED <<board, armed, now, polled, boot, tool, hist>>

Sent(c) ==
  /\ srv.pcb = c /\ sock[c].answer # "none" /\ ~srv.acked
  /\ srv' = [srv EXCEPT !.acked = TRUE]
  /\ UNCHANGED <<sock, stage, pc, taken, sw, sketch, armed, now, polled, boot, tool, hist>>

----------------------------------------------------------------------------
(* The host *)

Whole(c) == sock[c].exact /\ sock[c].got = Len(Frame)
Uses(c) == tool.pc = "upload" /\ tool.conn = c

\* Any peer of the port, in any order; upload.upload sends the frame, then
\* closes its write side.  A tool that raised closes its socket.
Peer(c) ==
  \/ /\ Accept(c, "other") /\ UNCHANGED tool
  \/ \E n \in 1..MaxPacket :
       \/ /\ sock[c].by = "other" /\ sock[c].got + n <= MaxItems
          /\ \E items \in [1..n -> Items] : Delivered(c, items)
       \/ /\ Uses(c) /\ sock[c].got + n <= Len(Frame)
          /\ Delivered(c, SubSeq(Frame, sock[c].got + 1, sock[c].got + n))
  \/ (Uses(c) => Whole(c)) /\ HalfClosed(c)
  \/ Failed(c)
  \/ Answered(c)
  \/ Sent(c)

Goes(p) == tool' = [tool EXCEPT !.pc = p]

\* What a hello says of the board; one that fails is a Raise.
ReadHello == boot

\* selected_hello before anything is sent.
Start(job) ==
  /\ tool.pc = "off"
  /\ tool' = [NoTool EXCEPT !.pc = IF job = "install" THEN "connect" ELSE "trigger",
                            !.job = job, !.boot = ReadHello]
  /\ UNCHANGED <<board, sock, armed, now, polled, boot, hist>>

\* The diagnostic sketch answers a control byte; another one would echo it.
SketchControl == sketch.code = None /\ sketch.mode = "running"

\* F0 is answered with F1 and sends the sketch to sleep.
TriggerPause ==
  /\ tool.pc = "trigger" /\ tool.job = "pause"
  /\ SketchControl
  /\ sketch' = [sketch EXCEPT !.mode = "busy", !.left = Busy] /\ Goes("connect")
  /\ UNCHANGED <<srv, stage, pc, taken, sw, sock, armed, now, polled, boot, hist>>

\* F4 is answered with F5 and the sketch never returns.
TriggerStall ==
  /\ tool.pc = "trigger" /\ tool.job = "stall"
  /\ SketchControl
  /\ sketch' = [sketch EXCEPT !.mode = "stalled"] /\ Goes("during")
  /\ UNCHANGED <<srv, stage, pc, taken, sw, sock, armed, now, polled, boot, hist>>

\* selected_hello while the sketch is stalled.
During ==
  /\ tool.pc = "during"
  /\ Goes(IF ReadHello = tool.boot THEN "connect" ELSE "raised")
  /\ UNCHANGED <<board, sock, armed, now, polled, boot, hist>>

Connect(c) ==
  /\ tool.pc = "connect"
  /\ tool' = [tool EXCEPT !.pc = "upload", !.conn = c]
  /\ Accept(c, "tool")

Expected == IF tool.job = "install" THEN "K" ELSE "T"

\* Mutant: the refusal's delay is not looked at.
AnyDelay == TRUE

InTime == tool.job = "pause" => tool.age < Late

\* upload.upload returns, and probe_pause looks at the clock.
Returned ==
  /\ tool.pc = "upload" /\ sock[tool.conn].answer # "none"
  /\ Goes(IF sock[tool.conn].answer = Expected /\ InTime
          THEN (IF tool.job = "pause" THEN "resume" ELSE "after") ELSE "raised")
  /\ UNCHANGED <<board, sock, armed, now, polled, boot, hist>>

\* F2 is answered with F3 by the same sketch, back at its loop.
Resumed ==
  /\ tool.pc = "resume" /\ tool.age >= Wake
  /\ SketchControl
  /\ Goes("after")
  /\ UNCHANGED <<board, sock, armed, now, polled, boot, hist>>

SameBoot == Goes(IF ReadHello = tool.boot THEN "passed" ELSE "raised")

\* The end of a probe.
AfterProbe ==
  /\ tool.pc = "after" /\ tool.job # "install"
  /\ SameBoot
  /\ UNCHANGED <<board, sock, armed, now, polled, boot, hist>>

\* The end of upload.main: the boot, and an echo of whatever sketch now runs.
AfterInstall ==
  /\ tool.pc = "after" /\ tool.job = "install" /\ sketch.mode = "running"
  /\ SameBoot
  /\ UNCHANGED <<board, sock, armed, now, polled, boot, hist>>

\* A deadline, a refused or reset connection, an unexpected sketch byte.
Raise ==
  /\ tool.pc \notin {"off", "passed", "raised"}
  /\ Goes("raised")
  /\ UNCHANGED <<board, sock, armed, now, polled, boot, hist>>

----------------------------------------------------------------------------
(* The rest of the world *)

Arm ==
  /\ armed' = ~armed
  /\ UNCHANGED <<board, sock, now, polled, boot, tool, hist>>

Older(n, cap) == IF n < cap THEN n + 1 ELSE n

Tick ==
  /\ polled /\ (LastTick = Wrap \/ now < LastTick)
  /\ now' = (now + 1) % Wrap /\ polled' = FALSE
  /\ sock' = [c \in Conns |-> IF sock[c].state = "live"
                              THEN [sock[c] EXCEPT !.age = Older(@, Receive)] ELSE sock[c]]
  /\ sketch' = IF sketch.mode # "busy" THEN sketch
               ELSE [sketch EXCEPT !.left = @ - 1,
                                   !.mode = IF sketch.left = 1 THEN "running" ELSE @]
  /\ tool' = IF tool.pc \in {"connect", "upload", "resume"} /\ tool.job = "pause"
             THEN [tool EXCEPT !.age = Older(@, Wake)] ELSE tool
  /\ UNCHANGED <<srv, stage, pc, taken, sw, armed, boot, hist>>

Restart ==
  /\ boot < MaxBoots /\ boot' = boot + 1
  /\ srv' = Idle(1) /\ stage' = EmptyStage /\ pc' = "poll" /\ taken' = 0
  /\ sw' = NoSwitch /\ now' = 1 /\ polled' = FALSE
  /\ sketch' \in {[sketch EXCEPT !.mode = "running", !.left = 0]} \cup
                 (IF sketch.mode = "stopped" THEN {sketch} ELSE {})
  /\ sock' = [c \in Conns |-> IF sock[c].state = "live"
                              THEN Gone(c) ELSE sock[c]]
  /\ UNCHANGED <<armed, tool, hist>>

Core0 == Poll \/ TakeCommit \/ CancelCommit \/ BeginSwitch \/ SwitchPoll

Host ==
  \/ \E job \in Jobs : Start(job)
  \/ \E c \in Conns : Connect(c)
  \/ TriggerPause \/ TriggerStall \/ During \/ Returned \/ Resumed
  \/ AfterProbe \/ AfterInstall \/ Raise

Next ==
  \/ Core0
  \/ \E c \in Conns : Peer(c)
  \/ Host
  \/ Arm
  \/ Tick
  \/ Restart

Spec == Init /\ [][Next]_vars

----------------------------------------------------------------------------
(* Properties *)

AnswerIsTrue ==
  \A c \in Conns :
    /\ sock[c].answer = "K" => c \in installed
    /\ sock[c].answer \in {"D", "B", "I", "T"} => c \notin touched

\* The one byte of an answer is true of the peer's own capsule: K says that it
\* was written and read back, D, B, I and T that flash was not touched for it
\* (upload_server.cpp:204, upload.py:92).  Holds across disconnections, refusals
\* and deadlines that hit while another connection's commit is running.  And
\* a tool that reports success is right about its own upload: upload.main that
\* the capsule was installed, the two probes that flash was not touched for
\* theirs, and probe_pause that the refusal was the park timeout and not the
\* frame's deadline (probe_pause.py:69).  Stated for runs in which the clock does
\* not wrap.
PassedIsTrue ==
  /\ AnswerIsTrue
  /\ tool.pc = "passed" =>
       CASE tool.job = "install" -> tool.conn \in installed
         [] tool.job = "stall"   -> tool.conn \notin touched
         [] tool.job = "pause"   -> tool.conn \notin touched /\ sock[tool.conn].why = "park"

\* A T that does not come from the switch was sent after the frame's full
\* deadline (upload_server.cpp:133).
TimeoutIsLate ==
  \A c \in Conns :
    sock[c].state = "live" /\ sock[c].why = "deadline" => sock[c].age >= Receive
=============================================================================
