---------------------------- MODULE FmgoSessions ----------------------------
(***************************************************************************)
(* The FMGO sessions of the TCP slots, the one Channel they compete for,   *)
(* its Stream and application endpoint, and the upload service they share. *)
(*                                                                         *)
(* Everything runs on core 0 under one lock, so Session::poll is one       *)
(* action; what a poll meets (bytes flushed, frame arrived, deadline       *)
(* passed) is chosen.  Operators over a world w (sessions, channel,        *)
(* endpoint, upload) stand for the methods, in the order poll calls them.  *)
(*                                                                         *)
(* A data byte is the number of the channel opening it was produced under. *)
(***************************************************************************)
EXTENDS Naturals, Sequences

CONSTANTS Owners,       \* owner tokens: connection slot index + 1
          NoOwner,      \* token 0
          Frames,       \* the frames that clients send
          OutputUnits,  \* writes that an encoded frame may need
          StreamBytes,  \* Stream::capacity
          QueueBytes,   \* ApplicationEndpoint::capacity
          MaxData,      \* bound: data bytes of a serial frame
          MaxTenure     \* bound: channel openings

(* A request's kind, with the outcome where the service decides it: finish   *)
(* and mismatch are flash.finish of a stage that verifies and of one that    *)
(* does not; query is any request whose only effect is its reply, refusals   *)
(* included; schema is JSON that request() rejects.                          *)
UploadOps == {"begin", "finish", "mismatch", "commit", "abort"}
AllFrames == UploadOps \cup {"hello", "open", "close", "query", "serial", "event", "malformed",
              "unparsable", "schema", "chunk"}

ASSUME SessionAssumption ==
    /\ NoOwner \notin Owners /\ Frames \subseteq AllFrames
    /\ OutputUnits \in Nat \ {0} /\ StreamBytes \in Nat \ {0}
    /\ QueueBytes \in Nat \ {0} /\ MaxData \in Nat \ {0} /\ MaxTenure \in Nat

VARIABLES sess,     \* the Session of each slot
          channel,  \* Channel and Stream: owner, the two pending buffers
          app,      \* ApplicationEndpoint: active, rx, tx
          upload,   \* UploadService: state, owner
          tenure    \* history: openings of the channel

sessionVars == <<sess, channel, app, upload, tenure>>
world == [sess |-> sess, channel |-> channel, app |-> app, upload |-> upload,
          tenure |-> tenure]

Smaller(m, n) == IF m < n THEN m ELSE n
Take(s, n) == SubSeq(s, 1, n)
Drop(s, n) == SubSeq(s, n + 1, Len(s))
Copies(v, n) == [i \in 1 .. n |-> v]

(* The world with s as the session of slot o.                              *)
With(w, o, s) == [w EXCEPT !.sess[o] = s]

(* A slot without a session keeps the last one's result.  Three history      *)
(* fields: waited counts the replies queued while backend data waited for    *)
(* the output buffer, turned those of them that were due to give the turn    *)
(* to the data, began says that this very session staged the upload.         *)
NoSession ==
    [result |-> "none", link |-> FALSE, negotiated |-> FALSE, owned |-> FALSE,
     closing |-> FALSE, turn |-> FALSE, released |-> FALSE, frame |-> "none",
     data |-> <<>>, out |-> "none", left |-> 0, sending |-> <<>>,
     waited |-> 0, turned |-> 0, began |-> FALSE]

NewSession == [NoSession EXCEPT !.result = "running", !.link = TRUE]

FreeChannel == [owner |-> NoOwner, toBackend |-> <<>>, toPeer |-> <<>>]
Inactive == [active |-> FALSE, rx |-> <<>>, tx |-> <<>>]
NoUpload == [state |-> "idle", owner |-> NoOwner]

SessionInit ==
    /\ sess = [o \in Owners |-> NoSession]
    /\ channel = FreeChannel /\ app = Inactive /\ upload = NoUpload /\ tenure = 0

-----------------------------------------------------------------------------
(* Channel and endpoint.                                                   *)

Acquire(w, o) ==
    [w EXCEPT !.channel = [FreeChannel EXCEPT !.owner = o],
              !.app = [Inactive EXCEPT !.active = TRUE],
              !.tenure = @ + 1]

ReleaseUndiscarded(w, o) ==
    IF w.channel.owner = o
    THEN [w EXCEPT !.channel.owner = NoOwner, !.app.active = FALSE] ELSE w
Release(w, o) ==
    IF w.channel.owner = o
    THEN [w EXCEPT !.channel = FreeChannel, !.app = Inactive] ELSE w

-----------------------------------------------------------------------------
(* The upload service, as far as sessions can tell its states apart.       *)

BlocksConsole(w) == w.upload.state # "idle"

Disconnect(w, o) ==
    IF w.upload.owner = o /\ w.upload.state \in {"accepted", "verified"}
    THEN [w EXCEPT !.upload = NoUpload] ELSE w

(* A transition of the service, with the states it starts from; a request  *)
(* by another session or in another state is refused.                      *)
Request(w, o, from, to) ==
    IF w.upload.owner = o /\ w.upload.state = from
    THEN [w EXCEPT !.upload = to] ELSE w

-----------------------------------------------------------------------------
(* Session.                                                                *)

CloseSession(w, o) ==
    LET w1 == IF w.sess[o].owned THEN Release(w, o) ELSE w
        w2 == IF w.sess[o].released THEN w1 ELSE Disconnect(w1, o)
    IN  With(w2, o, [w.sess[o] EXCEPT !.released = TRUE, !.owned = FALSE,
             !.frame = "none", !.data = <<>>, !.out = "none", !.left = 0,
             !.sending = <<>>, !.waited = 0, !.turned = 0, !.began = FALSE])

FinishSession(w, o, result) ==
    LET w1 == CloseSession(w, o)
    IN  With(w1, o, [w1.sess[o] EXCEPT !.result = result])

Queue(w, o, kind, bytes) ==
    IF w.sess[o].out # "none" THEN FinishSession(w, o, "io_error")
    ELSE With(w, o, [w.sess[o] EXCEPT !.out = kind, !.left = OutputUnits,
                                      !.sending = bytes])

(* History: the answers of request()'s early returns give no turn.         *)
Due(frame) == frame \in UploadOps \cup {"hello", "open", "close", "query"}

Reply(w, o, due) ==
    LET waiting == w.sess[o].owned /\ w.channel.toPeer # <<>>
        w1 == Queue(w, o, "reply", <<>>)
    IN  IF waiting
        THEN With(w1, o, [w1.sess[o] EXCEPT !.waited = Smaller(@ + 1, 2),
                              !.turned = IF due THEN Smaller(@ + 1, 2) ELSE @])
        ELSE w1

Consumed(w, o) == With(w, o, [w.sess[o] EXCEPT !.frame = "none"])

(* A frame that is not valid JSON: reply, give everything up, then flush.  *)
Unparsable(w, o) ==
    LET w1 == Consumed(Reply(w, o, FALSE), o)
        w2 == IF w.sess[o].owned THEN Release(w1, o) ELSE w1
        w3 == IF w.sess[o].released THEN w2 ELSE Disconnect(w2, o)
    IN  With(w3, o, [w1.sess[o] EXCEPT !.released = TRUE, !.owned = FALSE,
             !.closing = TRUE, !.waited = 0, !.turned = 0, !.began = FALSE])

(* dispatch_upload: begin and commit are refused while the channel has an  *)
(* owner; begin is also refused while an upload is under way.              *)
NoOwnerCheck(w) == TRUE
ConsoleFree(w) == w.channel.owner = NoOwner

UploadRequest(w, o, op) ==
    CASE op = "begin" /\ ConsoleFree(w) /\ ~BlocksConsole(w) ->
             [With(w, o, [w.sess[o] EXCEPT !.began = TRUE])
                EXCEPT !.upload = [state |-> "accepted", owner |-> o]]
      [] op = "finish" ->
             Request(w, o, "accepted", [state |-> "verified", owner |-> o])
      [] op = "mismatch" -> Request(w, o, "accepted", NoUpload)
      [] op = "commit" /\ ConsoleFree(w) ->
             Request(w, o, "verified", [state |-> "committing", owner |-> o])
      [] op = "abort" ->
             Request(Request(w, o, "accepted", NoUpload), o, "verified", NoUpload)
      [] OTHER -> w

(* serial.open *)
MayTakeOver(w, o) ==
    ~w.sess[o].owned /\ ~BlocksConsole(w) /\ w.tenure < MaxTenure
MayOpen(w, o) ==
    /\ ~w.sess[o].owned /\ ~BlocksConsole(w) /\ w.channel.owner = NoOwner
    /\ w.tenure < MaxTenure

OpenRequest(w, o) ==
    IF MayOpen(w, o) THEN With(Acquire(w, o), o, [w.sess[o] EXCEPT !.owned = TRUE]) ELSE w

CloseRequest(w, o) ==
    IF w.sess[o].owned
    THEN With(Release(w, o), o,
              [w.sess[o] EXCEPT !.owned = FALSE, !.waited = 0, !.turned = 0])
    ELSE w

(* The effect of a well-formed request before its reply. *)
Effect(w, o, frame) ==
    CASE ~w.sess[o].negotiated ->
             IF frame = "hello" THEN With(w, o, [w.sess[o] EXCEPT !.negotiated = TRUE])
             ELSE w
      [] w.sess[o].negotiated /\ frame = "open" -> OpenRequest(w, o)
      [] w.sess[o].negotiated /\ frame = "close" -> CloseRequest(w, o)
      [] w.sess[o].negotiated /\ frame \in UploadOps ->
             UploadRequest(w, o, frame)
      [] OTHER -> w

(* Whether the request ends by giving the next turn to backend data: the   *)
(* early returns do not.                                                   *)
NeverTurns(w, o, frame) == FALSE
TakesTurn(w, o, frame) ==
    /\ frame \notin {"schema", "chunk"}
    /\ w.sess[o].negotiated \/ frame \in UploadOps \cup {"hello"}

Dispatch(w, o) ==
    LET frame == w.sess[o].frame
    IN  CASE frame = "serial" ->
                 IF w.sess[o].negotiated /\ w.sess[o].owned THEN w
                 ELSE FinishSession(w, o, "protocol_error")
          [] frame = "event" -> FinishSession(w, o, "protocol_error")
          [] frame = "unparsable" -> Unparsable(w, o)
          [] OTHER ->
                 LET w1 == Consumed(Reply(Effect(w, o, frame), o, Due(frame)), o)
                 IN  IF TakesTurn(w, o, frame)
                     THEN With(w1, o, [w1.sess[o] EXCEPT !.turn = TRUE]) ELSE w1

-----------------------------------------------------------------------------
(* Channel::poll and Stream::pump: at most one read and one write each way. *)

BackendSpace(w) == QueueBytes - Len(w.app.rx)

PumpIn(w, o) ==
    LET s    == w.sess[o]
        read == IF w.channel.toBackend = <<>> /\ s.frame = "serial"
                THEN Smaller(StreamBytes, Len(s.data)) ELSE 0
        held == w.channel.toBackend \o Take(s.data, read)
        sent == Smaller(Len(held), BackendSpace(w))
        done == s.frame = "serial" /\ read = Len(s.data) /\ s.data # <<>>
    IN  [With(w, o, [s EXCEPT !.data = Drop(s.data, read),
                              !.frame = IF done THEN "none" ELSE @])
           EXCEPT !.channel = [w.channel EXCEPT !.toBackend = Drop(held, sent)],
                  !.app = [w.app EXCEPT !.rx = @ \o Take(held, sent)]]

OutputFree(w, o) == w.sess[o].out = "none"

PumpOut(w, o) ==
    LET read == IF w.channel.toPeer = <<>>
                THEN Smaller(StreamBytes, Len(w.app.tx)) ELSE 0
        held == w.channel.toPeer \o Take(w.app.tx, read)
        sent == held # <<>> /\ OutputFree(w, o)
        w1   == [w EXCEPT !.channel = [w.channel EXCEPT !.toPeer = IF sent THEN <<>> ELSE held],
                          !.app = [w.app EXCEPT !.tx = Drop(@, read)]]
    IN  IF sent
        THEN Queue(With(w1, o, [w.sess[o] EXCEPT !.waited = 0, !.turned = 0]), o, "data", held)
        ELSE w1

Pump(w, o) == PumpOut(PumpIn(w, o), o)

PumpIfOwned(w, o) ==
    IF w.sess[o].result = "running" /\ w.sess[o].owned THEN Pump(w, o) ELSE w

-----------------------------------------------------------------------------
(* Session::poll.                                                          *)

Flush(w, o, n) ==
    LET s == w.sess[o]
    IN  With(w, o, [s EXCEPT !.left = @ - n, !.out = IF s.left = n THEN "none" ELSE @,
                             !.sending = IF s.left = n THEN <<>> ELSE @])

Incomplete(w, o) == w.sess[o].frame \in {"none", "partial"}

Receive(w, o, frame, size) ==
    IF Incomplete(w, o) /\ frame # "none"
    THEN With(w, o, [w.sess[o] EXCEPT !.frame = frame,
              !.data = IF frame = "serial" THEN Copies(w.tenure, size) ELSE <<>>])
    ELSE w

Serve(w, o) ==
    LET turn == OutputFree(w, o) /\ w.sess[o].owned /\ w.sess[o].turn
        w0   == Pump(w, o)
        w1   == IF turn THEN With(w0, o, [w0.sess[o] EXCEPT !.turn = FALSE]) ELSE w
        w2   == IF w1.sess[o].out = "none" THEN Dispatch(w1, o) ELSE w1
    IN  CASE w.sess[o].frame = "malformed" -> FinishSession(w, o, "protocol_error")
          [] Incomplete(w, o) -> PumpIfOwned(w, o)
          [] w.sess[o].frame = "serial" -> PumpIfOwned(Dispatch(w, o), o)
          [] OTHER -> IF turn THEN w2 ELSE PumpIfOwned(w2, o)

Polled(w, o, n, frame, size, late) ==
    LET s == w.sess[o]
        flushed == Flush(w, o, n)
    IN  CASE ~s.link -> FinishSession(w, o, "disconnected")
          [] s.link /\ s.closing ->
                 IF s.out = "none" \/ late \/ flushed.sess[o].out = "none"
                 THEN FinishSession(w, o, "protocol_error") ELSE flushed
          [] s.link /\ ~s.closing ->
                 IF late THEN FinishSession(w, o, "timeout")
                 ELSE Serve(Receive(flushed, o, frame, size), o)

(* TcpSessionServer::poll destroys a session whose poll has ended it. *)
Settled(w, o) ==
    IF w.sess[o].result = "running" THEN w
    ELSE With(CloseSession(w, o), o, [NoSession EXCEPT !.result = w.sess[o].result])

Becomes(w) ==
    /\ sess' = w.sess /\ channel' = w.channel /\ app' = w.app
    /\ upload' = w.upload /\ tenure' = w.tenure

(* What a poll may meet; late only matters alone, as it ends the session.  *)
Arrivals(o) ==
    IF Incomplete(world, o) /\ sess[o].link /\ ~sess[o].closing
    THEN Frames \cup {"none", "partial"} ELSE {"none"}

Poll(o) ==
    /\ sess[o].result = "running"
    /\ \/ Becomes(Settled(Polled(world, o, 0, "none", 0, TRUE), o))
       \/ \E n \in 0 .. sess[o].left, frame \in Arrivals(o) :
             \E size \in IF frame = "serial" THEN 1 .. MaxData ELSE {0} :
                 Becomes(Settled(Polled(world, o, n, frame, size, FALSE), o))

(* TcpSessionServer: a session per accepted connection, whose peer may go  *)
(* away; poll's first loop destroys a session whose connection is dead.    *)
Connect(o) ==
    /\ sess[o].result # "running"
    /\ Becomes(With(world, o, NewSession))

LoseLink(o) ==
    /\ sess[o].link
    /\ Becomes(With(world, o, [sess[o] EXCEPT !.link = FALSE]))

Destroy(o) ==
    /\ sess[o].result = "running" /\ ~sess[o].link
    /\ Becomes(With(CloseSession(world, o), o, NoSession))

-----------------------------------------------------------------------------
(* The firmware's side of the endpoint, and the end of a commit.           *)

AppRead ==
    /\ app.active /\ app.rx # <<>>
    /\ Becomes([world EXCEPT !.app.rx = Tail(@)])

AppWrite ==
    /\ app.active /\ Len(app.tx) < QueueBytes
    /\ Becomes([world EXCEPT !.app.tx = Append(@, tenure)])

CommitEnds ==
    /\ upload.state = "committing"
    /\ Becomes([world EXCEPT !.upload = NoUpload])

SessionNext ==
    \/ \E o \in Owners : Poll(o) \/ Connect(o) \/ LoseLink(o) \/ Destroy(o)
    \/ AppRead \/ AppWrite \/ CommitEnds

SessionSpec == SessionInit /\ [][SessionNext]_sessionVars

-----------------------------------------------------------------------------

(* serial.open and flash.begin / flash.commit refuse each other across all *)
(* sessions: no one owns the console while an upload is under way.         *)
UploadExcludesConsole == channel.owner # NoOwner => upload.state = "idle"

(* No close path leaves an owner behind: the channel's owner is a live     *)
(* session that knows it, a session that believes it owns the channel      *)
(* does, and a staged upload belongs to the very session that began it, so *)
(* that a slot's next session never inherits the last one's stage.         *)
OwnerKnows ==
    /\ \A o \in Owners :
          (channel.owner = o) <=> (sess[o].owned /\ sess[o].result = "running")
    /\ upload.state \in {"accepted", "verified"} =>
          sess[upload.owner].result = "running" /\ sess[upload.owner].began

RangeOf(s) == {s[i] : i \in DOMAIN s}

(* Every byte on its way between a host and the firmware, in either        *)
(* direction, was produced under the present opening of the channel, and a *)
(* data frame is only ever sent by the owner.                              *)
NoForeignBytes ==
    /\ RangeOf(channel.toBackend) \cup RangeOf(channel.toPeer)
         \cup RangeOf(app.rx) \cup RangeOf(app.tx)
         \subseteq IF channel.owner = NoOwner THEN {} ELSE {tenure}
    /\ \A o \in Owners : sess[o].out = "data" =>
           channel.owner = o /\ RangeOf(sess[o].sending) = {tenure}

(* Backend data gets its turn: while it waits for the output buffer at     *)
(* most one answer to a request comes before it, however fast the client   *)
(* asks.  (Answers that return early from request() do not count; see      *)
(* RepliesAlternate.)                                                      *)
TurnsAlternate == \A o \in Owners : sess[o].turned <= 1

(* Replies and backend data alternate: at most one reply is queued while   *)
(* data waits for the output buffer.                                       *)
RepliesAlternate == \A o \in Owners : sess[o].waited <= 1
=============================================================================
