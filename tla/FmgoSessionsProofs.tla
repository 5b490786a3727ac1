------------------------- MODULE FmgoSessionsProofs -------------------------
(* Proofs, for any number of sessions, any frames and any buffer sizes, of   *)
(* the safety properties of FmgoSessions.                                    *)
EXTENDS FmgoSessions, TLAPS

FrameKinds == AllFrames \cup {"none", "partial"}
Results == {"none", "running", "disconnected", "protocol_error", "timeout", "io_error"}
Outs == {"none", "reply", "data"}
UploadStates == {"idle", "accepted", "verified", "committing"}

SessionType ==
  [result : Results, link : BOOLEAN, negotiated : BOOLEAN, owned : BOOLEAN,
   closing : BOOLEAN, turn : BOOLEAN, released : BOOLEAN, frame : FrameKinds,
   data : Seq(Nat), out : Outs, left : Nat, sending : Seq(Nat),
   waited : Nat, turned : Nat, began : BOOLEAN]
ChannelType == [owner : Owners \cup {NoOwner}, toBackend : Seq(Nat), toPeer : Seq(Nat)]
AppType == [active : BOOLEAN, rx : Seq(Nat), tx : Seq(Nat)]
UploadType == [state : {"idle"}, owner : {NoOwner}]
                \cup [state : UploadStates, owner : Owners]

World == [sess : [Owners -> SessionType], channel : ChannelType, app : AppType,
          upload : UploadType, tenure : Nat]

\* Every byte of q was produced under opening t.
Of(q, t) == \A i \in 1..Len(q) : q[i] = t

\* The channel and the endpoint: a free channel is empty, and an owned one holds
\* the bytes of its own opening; while it is owned no upload is under way.
Shared(w) ==
  /\ Of(w.channel.toBackend, w.tenure) /\ Of(w.channel.toPeer, w.tenure)
  /\ Of(w.app.rx, w.tenure) /\ Of(w.app.tx, w.tenure)
  /\ Len(w.app.rx) <= QueueBytes
  /\ IF w.channel.owner = NoOwner
     THEN w.channel = FreeChannel /\ w.app = Inactive
     ELSE w.upload.state = "idle"

StagedBy(w, p) == w.upload.owner = p /\ w.upload.state \in {"accepted", "verified"}

\* What a session knows of its ownership, what it is sending, and that a reply
\* which came before waiting data has given the data the next turn.
Knows(w, p, s) ==
  /\ w.channel.owner = p <=> s.owned
  /\ s.owned => s.result = "running" /\ s.negotiated /\ ~s.released
  /\ StagedBy(w, p) => s.result = "running" /\ s.began /\ ~s.released
  /\ s.released /\ s.result = "running" => s.closing
  /\ s.out = "data" => s.owned /\ s.sending # <<>> /\ Of(s.sending, w.tenure)
  /\ s.frame = "serial" => Of(s.data, w.tenure)
  /\ s.turned \in 0..1
  /\ s.turned # 0 => s.owned /\ s.turn /\ w.channel.toPeer # <<>>

\* Between two polls only the owner has a serial frame in its hands.
Quiet(s) == s.frame = "serial" => s.owned

\* Holds within a poll of session o.
Good(w, o) ==
  /\ w \in World /\ Shared(w)
  /\ \A p \in Owners : Knows(w, p, w.sess[p])
  /\ \A p \in Owners \ {o} : Quiet(w.sess[p])

\* Holds between two polls.
Sound(w) ==
  /\ w \in World /\ Shared(w)
  /\ \A p \in Owners : Knows(w, p, w.sess[p]) /\ Quiet(w.sess[p])

SessionInv == Sound(world)

-----------------------------------------------------------------------------
(* Changing a world *)

\* Replacing one session of a world changes nothing else.
LEMMA WithIs ==
  ASSUME NEW w \in World, NEW o \in Owners, NEW s \in SessionType
  PROVE  /\ With(w, o, s) \in World
         /\ With(w, o, s).sess[o] = s
         /\ \A p \in Owners \ {o} : With(w, o, s).sess[p] = w.sess[p]
         /\ With(w, o, s).channel = w.channel /\ With(w, o, s).app = w.app
         /\ With(w, o, s).upload = w.upload /\ With(w, o, s).tenure = w.tenure
<1>1. [w.sess EXCEPT ![o] = s] \in [Owners -> SessionType]
  BY DEF World
<1>2. With(w, o, s) = [w EXCEPT !.sess = [w.sess EXCEPT ![o] = s]]
  BY DEF With
<1>3. PICK t : t = [w.sess EXCEPT ![o] = s]
  BY Zenon
<1>4. With(w, o, s) \in World
  BY <1>1, <1>2, <1>3, Zenon DEF World
<1> QED BY <1>4 DEF With, World

\* Only the last replacement counts.
LEMMA WithTwice ==
  ASSUME NEW w \in World, NEW o \in Owners, NEW r \in SessionType, NEW s \in SessionType
  PROVE  With(With(w, o, r), o, s) = With(w, o, s)
  BY Zenon DEF With, World

\* The parts of a world have their types.
LEMMA Parts ==
  ASSUME NEW w \in World, NEW o \in Owners
  PROVE  /\ w.sess[o] \in SessionType /\ w.channel \in ChannelType /\ w.app \in AppType
         /\ w.upload \in UploadType /\ w.tenure \in Nat
  BY DEF World

WithChannel(w, c, a) == [w EXCEPT !.channel = c, !.app = a]
WithUpload(w, u) == [w EXCEPT !.upload = u]

\* A world with another channel and endpoint.
LEMMA WithChannelIs ==
  ASSUME NEW w \in World, NEW c \in ChannelType, NEW a \in AppType
  PROVE  LET v == WithChannel(w, c, a)
         IN  /\ v \in World /\ v.sess = w.sess /\ v.channel = c /\ v.app = a
             /\ v.upload = w.upload /\ v.tenure = w.tenure
<1>1. WithChannel(w, c, a) \in World
  BY Zenon DEF World, WithChannel
<1> QED BY <1>1 DEF World, WithChannel

\* A world with another upload.
LEMMA WithUploadIs ==
  ASSUME NEW w \in World, NEW u \in UploadType
  PROVE  LET v == WithUpload(w, u)
         IN  /\ v \in World /\ v.sess = w.sess /\ v.channel = w.channel /\ v.app = w.app
             /\ v.upload = u /\ v.tenure = w.tenure
<1>1. WithUpload(w, u) \in World
  BY Zenon DEF World, WithUpload
<1> QED BY <1>1 DEF World, WithUpload

\* A change by session o that leaves the channel alone, or that is made while no
\* other session owns it, leaves what the others know true.
LEMMA OthersKnow ==
  ASSUME NEW w, NEW v, NEW o \in Owners, NEW p \in Owners \ {o}, Good(w, o),
         StagedBy(v, p) => StagedBy(w, p),
         \/ v.channel = w.channel /\ v.tenure = w.tenure
         \/ w.channel.owner \in {o, NoOwner} /\ v.channel.owner \in {o, NoOwner}
  PROVE  Knows(v, p, w.sess[p])
<1>0. PICK s : s = w.sess[p]
  OBVIOUS
<1>1. Knows(w, p, s) /\ Quiet(s) /\ s \in SessionType
  BY <1>0 DEF Good, World
<1> SUFFICES Knows(v, p, s)
  BY <1>0
<1>2. CASE v.channel = w.channel /\ v.tenure = w.tenure
  BY <1>1, <1>2, Zenon DEF Knows
<1>3. CASE w.channel.owner \in {o, NoOwner} /\ v.channel.owner \in {o, NoOwner}
  <2>1. p # o /\ p # NoOwner
    BY SessionAssumption
  <2>2. ~s.owned /\ s.out # "data" /\ s.frame # "serial" /\ s.turned = 0 /\ v.channel.owner # p
    BY <1>1, <1>3, <2>1 DEF Knows, Quiet
  <2>3. s.turned \in 0..1
    BY <1>1 DEF Knows
  <2> QED BY <1>1, <2>2, <2>3, Zenon DEF Knows
<1> QED BY <1>2, <1>3

\* A change by session o that is right for o, and for what all share, is good.
LEMMA GoodChange ==
  ASSUME NEW w, NEW v, NEW o \in Owners, Good(w, o), v \in World, Shared(v),
         \A p \in Owners \ {o} : v.sess[p] = w.sess[p] /\ (StagedBy(v, p) => StagedBy(w, p)),
         \/ v.channel = w.channel /\ v.tenure = w.tenure
         \/ w.channel.owner \in {o, NoOwner} /\ v.channel.owner \in {o, NoOwner},
         Knows(v, o, v.sess[o])
  PROVE  Good(v, o)
<1>1. ASSUME NEW p \in Owners \ {o} PROVE Knows(v, p, v.sess[p]) /\ Quiet(v.sess[p])
  BY <1>1, OthersKnow DEF Good
<1> QED BY <1>1 DEF Good

\* Changing only the session o.
LEMMA GoodWith ==
  ASSUME NEW w, NEW o \in Owners, Good(w, o), NEW s \in SessionType, Knows(w, o, s)
  PROVE  Good(With(w, o, s), o) /\ With(w, o, s).sess[o] = s
<1> DEFINE v == With(w, o, s)
<1>1. /\ v \in World /\ v.sess[o] = s /\ \A p \in Owners \ {o} : v.sess[p] = w.sess[p]
      /\ v.channel = w.channel /\ v.app = w.app /\ v.upload = w.upload /\ v.tenure = w.tenure
  BY WithIs DEF Good
<1> HIDE DEF v
<1>2. Shared(v) /\ Knows(v, o, s) /\ \A p \in Owners : StagedBy(v, p) => StagedBy(w, p)
  BY <1>1 DEF Good, Shared, Knows, StagedBy
<1>3. Good(v, o)
  BY <1>1, <1>2, GoodChange
<1> QED BY <1>1, <1>3 DEF v

-----------------------------------------------------------------------------
(* Giving up what a session holds *)

\* v is w with the channel and the staged upload of session o given up.
Ceded(w, o, v) ==
  /\ v \in World /\ v.tenure = w.tenure
  /\ \A p \in Owners \ {o} : v.sess[p] = w.sess[p]
  /\ v.channel = IF w.sess[o].owned THEN FreeChannel ELSE w.channel
  /\ v.app = IF w.sess[o].owned THEN Inactive ELSE w.app
  /\ v.upload = IF StagedBy(w, o) THEN NoUpload ELSE w.upload

\* A session that holds nothing.
Gone(s) ==
  /\ ~s.owned /\ s.out # "data" /\ s.frame # "serial" /\ s.turned = 0
  /\ s.released /\ s.result = "running" => s.closing

\* The constants of the model have their types.
LEMMA Constants ==
  /\ FreeChannel \in ChannelType /\ Inactive \in AppType /\ NoUpload \in UploadType
  /\ NoSession \in SessionType /\ NewSession \in SessionType
  /\ Gone(NoSession) /\ Gone(NewSession)
<1>1. FreeChannel \in ChannelType /\ Inactive \in AppType
  BY DEF FreeChannel, ChannelType, Inactive, AppType
<1>2. NoUpload \in UploadType
  BY DEF NoUpload, UploadType, UploadStates
<1>3. NoSession \in SessionType
  BY DEF NoSession, SessionType, FrameKinds, Results, Outs
<1>4. NewSession \in SessionType
  <2>1. "running" \in Results
    BY DEF Results
  <2> QED BY <1>3, <2>1, Zenon DEF NewSession, SessionType
<1> QED BY <1>1, <1>2, <1>3, <1>4 DEF NewSession, NoSession, Gone

\* Channel::release and the endpoint's reset.
LEMMA ReleaseIs ==
  ASSUME NEW w \in World, NEW o \in Owners
  PROVE  /\ Release(w, o) \in World /\ Release(w, o).sess = w.sess
         /\ Release(w, o).upload = w.upload /\ Release(w, o).tenure = w.tenure
         /\ Release(w, o).channel = IF w.channel.owner = o THEN FreeChannel ELSE w.channel
         /\ Release(w, o).app = IF w.channel.owner = o THEN Inactive ELSE w.app
<1>1. CASE w.channel.owner = o
  <2>1. Release(w, o) = WithChannel(w, FreeChannel, Inactive)
    BY <1>1 DEF Release, WithChannel
  <2> QED BY <1>1, <2>1, Constants, WithChannelIs
<1>2. CASE w.channel.owner # o
  BY <1>2 DEF Release
<1> QED BY <1>1, <1>2

\* UploadService::disconnect.
LEMMA DisconnectIs ==
  ASSUME NEW w \in World, NEW o \in Owners
  PROVE  /\ Disconnect(w, o) \in World /\ Disconnect(w, o).sess = w.sess
         /\ Disconnect(w, o).channel = w.channel /\ Disconnect(w, o).app = w.app
         /\ Disconnect(w, o).tenure = w.tenure
         /\ Disconnect(w, o).upload = IF StagedBy(w, o) THEN NoUpload ELSE w.upload
<1>1. CASE StagedBy(w, o)
  <2>1. Disconnect(w, o) = WithUpload(w, NoUpload)
    BY <1>1 DEF Disconnect, StagedBy, WithUpload
  <2> QED BY <1>1, <2>1, Constants, WithUploadIs
<1>2. CASE ~StagedBy(w, o)
  BY <1>2 DEF Disconnect, StagedBy
<1> QED BY <1>1, <1>2

\* Giving everything up is good.
LEMMA CededGood ==
  ASSUME NEW w, NEW o \in Owners, NEW v, Good(w, o), Ceded(w, o, v), Gone(v.sess[o])
  PROVE  Good(v, o) /\ Quiet(v.sess[o])
<1>0. w \in World /\ Shared(w) /\ Knows(w, o, w.sess[o]) /\ v \in World
  BY DEF Good, Ceded
<1>1. v.sess[o] \in SessionType /\ v.sess[o].turned \in 0..1
  BY <1>0, Parts DEF Gone
<1>2. o # NoOwner
  BY SessionAssumption
<1>3. ~StagedBy(v, o) /\ \A p \in Owners : StagedBy(v, p) => StagedBy(w, p)
  BY DEF Ceded, StagedBy, NoUpload
<1>4. CASE w.sess[o].owned
  <2>1. v.channel = FreeChannel /\ v.app = Inactive /\ w.channel.owner = o
    BY <1>0, <1>4 DEF Ceded, Knows
  <2>2. v.channel.owner = NoOwner /\ Shared(v)
    BY <2>1, SessionAssumption DEF Shared, FreeChannel, Inactive, Of
  <2>3. Knows(v, o, v.sess[o])
    BY <1>1, <1>2, <1>3, <2>2, Zenon DEF Knows, Gone
  <2> QED BY <1>0, <1>3, <2>1, <2>2, <2>3, GoodChange DEF Ceded, Gone, Quiet
<1>5. CASE ~w.sess[o].owned
  <2>1. v.channel = w.channel /\ v.app = w.app /\ w.channel.owner # o /\ v.tenure = w.tenure
    BY <1>0, <1>5 DEF Ceded, Knows
  <2>2. Shared(v)
    BY <1>0, <2>1 DEF Shared, Ceded, NoUpload
  <2>3. Knows(v, o, v.sess[o])
    BY <1>1, <1>2, <1>3, <2>1, ZenonT(30) DEF Knows, Gone
  <2> QED BY <1>0, <1>3, <2>1, <2>2, <2>3, GoodChange DEF Ceded, Gone, Quiet
<1> QED BY <1>4, <1>5

\* Release and disconnect, in the order Session::close calls them.
LEMMA CedesBoth ==
  ASSUME NEW w, NEW o \in Owners, Good(w, o), NEW s \in SessionType, NEW w1, NEW w2,
         w1 = IF w.sess[o].owned THEN Release(w, o) ELSE w,
         w2 = IF w.sess[o].released THEN w1 ELSE Disconnect(w1, o)
  PROVE  Ceded(w, o, With(w2, o, s)) /\ With(w2, o, s).sess[o] = s
<1>0. w \in World /\ Knows(w, o, w.sess[o])
  BY DEF Good
<1>1. /\ w1 \in World /\ w1.sess = w.sess /\ w1.upload = w.upload /\ w1.tenure = w.tenure
      /\ w1.channel = IF w.sess[o].owned THEN FreeChannel ELSE w.channel
      /\ w1.app = IF w.sess[o].owned THEN Inactive ELSE w.app
  BY <1>0, ReleaseIs DEF Knows
<1>2. StagedBy(w1, o) <=> StagedBy(w, o)
  BY <1>1 DEF StagedBy
<1>3. /\ w2 \in World /\ w2.sess = w.sess /\ w2.channel = w1.channel /\ w2.app = w1.app
      /\ w2.tenure = w.tenure
      /\ w2.upload = IF StagedBy(w, o) THEN NoUpload ELSE w.upload
  <2>1. CASE w.sess[o].released
    <3>1. ~StagedBy(w, o)
      BY <1>0, <2>1, Zenon DEF Knows
    <3> QED BY <1>1, <2>1, <3>1
  <2>2. CASE ~w.sess[o].released
    BY <1>1, <1>2, <2>2, DisconnectIs, ZenonT(30)
  <2> QED BY <2>1, <2>2
<1> QED BY <1>1, <1>3, WithIs DEF Ceded

\* Session::close.
LEMMA CloseCedes ==
  ASSUME NEW w, NEW o \in Owners, Good(w, o)
  PROVE  /\ Ceded(w, o, CloseSession(w, o))
         /\ LET s == CloseSession(w, o).sess[o]
            IN  ~s.owned /\ s.out = "none" /\ s.frame = "none" /\ s.turned = 0
<1>1. PICK r : r = w.sess[o]
  OBVIOUS
<1>2. r \in SessionType
  BY <1>1, Parts DEF Good
<1>3. PICK s : s = [r EXCEPT !.released = TRUE, !.owned = FALSE,
             !.frame = "none", !.data = <<>>, !.out = "none", !.left = 0,
             !.sending = <<>>, !.waited = 0, !.turned = 0, !.began = FALSE]
  OBVIOUS
<1>4. s \in SessionType
  <2>1. "none" \in FrameKinds /\ "none" \in Outs /\ 0 \in Nat /\ <<>> \in Seq(Nat)
    BY DEF FrameKinds, Outs
  <2> QED BY <1>2, <1>3, <2>1, Zenon DEF SessionType
<1>5. ~s.owned /\ s.out = "none" /\ s.frame = "none" /\ s.turned = 0
  BY <1>2, <1>3 DEF SessionType
<1>6. PICK w1, w2 :
        /\ w1 = IF w.sess[o].owned THEN Release(w, o) ELSE w
        /\ w2 = IF w.sess[o].released THEN w1 ELSE Disconnect(w1, o)
  OBVIOUS
<1>7. CloseSession(w, o) = With(w2, o, s)
  BY <1>1, <1>3, <1>6 DEF CloseSession
<1> QED BY <1>4, <1>5, <1>6, <1>7, CedesBoth

\* What is given up stays given up whatever the session becomes.
LEMMA CededWith ==
  ASSUME NEW w, NEW o \in Owners, NEW c, Ceded(w, o, c), NEW s \in SessionType
  PROVE  Ceded(w, o, With(c, o, s)) /\ With(c, o, s).sess[o] = s
  BY WithIs DEF Ceded

\* Session::finish.
LEMMA FinishGood ==
  ASSUME NEW w, NEW o \in Owners, Good(w, o), NEW result \in Results \ {"running"}
  PROVE  LET v == FinishSession(w, o, result)
         IN  Good(v, o) /\ Quiet(v.sess[o])
<1>1. PICK c : c = CloseSession(w, o)
  OBVIOUS
<1>2. PICK r : r = c.sess[o]
  OBVIOUS
<1>3. Ceded(w, o, c) /\ ~r.owned /\ r.out = "none" /\ r.frame = "none" /\ r.turned = 0
  BY <1>1, <1>2, CloseCedes
<1>4. r \in SessionType
  BY <1>2, <1>3, Parts DEF Ceded
<1>5. PICK s : s = [r EXCEPT !.result = result]
  BY Zenon
<1>6. s \in SessionType
  BY <1>4, <1>5, Zenon DEF SessionType
<1>7. Gone(s)
  BY <1>3, <1>4, <1>5 DEF Gone, SessionType
<1>8. FinishSession(w, o, result) = With(c, o, s)
  BY <1>1, <1>2, <1>5 DEF FinishSession
<1>9. PICK v : v = With(c, o, s)
  OBVIOUS
<1>10. Ceded(w, o, v) /\ v.sess[o] = s
  BY <1>3, <1>6, <1>9, CededWith
<1>11. Good(v, o) /\ Quiet(v.sess[o])
  BY <1>7, <1>10, CededGood
<1> QED BY <1>8, <1>9, <1>11

\* TcpSessionServer destroys the session; the slot stays behind, empty or with a
\* new session.
LEMMA ClearedGood ==
  ASSUME NEW w, NEW o \in Owners, Good(w, o), NEW s \in SessionType, Gone(s)
  PROVE  LET v == With(CloseSession(w, o), o, s)
         IN  Good(v, o) /\ Quiet(v.sess[o])
<1>1. Ceded(w, o, CloseSession(w, o))
  BY CloseCedes
<1>2. PICK v : v = With(CloseSession(w, o), o, s)
  OBVIOUS
<1>3. Ceded(w, o, v) /\ v.sess[o] = s
  BY <1>1, <1>2, CededWith
<1>4. Good(v, o) /\ Quiet(v.sess[o])
  BY <1>3, CededGood
<1> QED BY <1>2, <1>4

\* After the poll: a session that has ended is destroyed.
LEMMA SettledGood ==
  ASSUME NEW w, NEW o \in Owners, Good(w, o), Quiet(w.sess[o])
  PROVE  Good(Settled(w, o), o) /\ Quiet(Settled(w, o).sess[o])
<1>1. CASE w.sess[o].result = "running"
  BY <1>1 DEF Settled
<1>2. CASE w.sess[o].result # "running"
  <2>1. PICK result : result = w.sess[o].result
    OBVIOUS
  <2>2. result \in Results
    <3>1. w.sess[o] \in SessionType
      BY Parts DEF Good
    <3> QED BY <2>1, <3>1 DEF SessionType
  <2>3. PICK s : s = [NoSession EXCEPT !.result = result]
    BY Zenon
  <2>4. s \in SessionType
    BY <2>2, <2>3, Constants, Zenon DEF SessionType
  <2>5. Gone(s)
    BY <2>3 DEF Gone, NoSession
  <2>6. Settled(w, o) = With(CloseSession(w, o), o, s)
    BY <1>2, <2>1, <2>3 DEF Settled
  <2> QED BY <2>4, <2>5, <2>6, ClearedGood
<1> QED BY <1>1, <1>2

-----------------------------------------------------------------------------
(* Bytes *)

\* The two parts of a sequence of bytes.
LEMMA PartsOf ==
  ASSUME NEW q \in Seq(Nat), NEW n \in 0..Len(q)
  PROVE  /\ Take(q, n) \in Seq(Nat) /\ Len(Take(q, n)) = n
         /\ Drop(q, n) \in Seq(Nat)
         /\ \A t : Of(q, t) => Of(Take(q, n), t) /\ Of(Drop(q, n), t)
<1>1. /\ Take(q, n) \in Seq(Nat) /\ Len(Take(q, n)) = n
      /\ \A i \in 1..n : Take(q, n)[i] = q[i]
  BY DEF Take
<1>2. /\ Drop(q, n) \in Seq(Nat) /\ Len(Drop(q, n)) = Len(q) - n
      /\ \A i \in 1..Len(q) - n : Drop(q, n)[i] = q[i + n]
  BY DEF Drop
<1>3. ASSUME NEW t, Of(q, t) PROVE Of(Take(q, n), t) /\ Of(Drop(q, n), t)
  <2>1. Of(Take(q, n), t)
    BY <1>1, <1>3, SMTT(30) DEF Of
  <2>2. ASSUME NEW i \in 1..Len(q) - n PROVE Drop(q, n)[i] = t
    <3>1. i + n \in 1..Len(q)
      OBVIOUS
    <3> QED BY <1>2, <1>3, <3>1, Zenon DEF Of
  <2> QED BY <1>2, <2>1, <2>2 DEF Of
<1> QED BY <1>1, <1>2, <1>3

\* Bytes of one opening put together.
LEMMA JoinOf ==
  ASSUME NEW q \in Seq(Nat), NEW r \in Seq(Nat)
  PROVE  /\ q \o r \in Seq(Nat)
         /\ \A t : Of(q, t) /\ Of(r, t) => Of(q \o r, t)
         /\ r = <<>> => q \o r = q
<1>1. ASSUME NEW t, Of(q, t), Of(r, t) PROVE Of(q \o r, t)
  BY <1>1 DEF Of
<1>2. r = <<>> => q \o r = q
  OBVIOUS
<1> QED BY <1>1, <1>2

-----------------------------------------------------------------------------
(* The steps of a poll *)

\* A session whose poll goes on to its frames.
Polling(s) == s.result = "running" /\ ~s.closing

\* flush_output.
LEMMA FlushGood ==
  ASSUME NEW w, NEW o \in Owners, Good(w, o), NEW n \in 0..w.sess[o].left
  PROVE  LET v == Flush(w, o, n)
         IN  /\ Good(v, o) /\ v.sess[o].frame = w.sess[o].frame
             /\ v.sess[o].owned = w.sess[o].owned
             /\ Polling(w.sess[o]) => Polling(v.sess[o])
<1>1. PICK r : r = w.sess[o]
  OBVIOUS
<1>2. r \in SessionType /\ Knows(w, o, r) /\ n \in 0..r.left
  BY <1>1, Parts DEF Good
<1>3. PICK s : s = [r EXCEPT !.left = @ - n, !.out = IF r.left = n THEN "none" ELSE @,
                             !.sending = IF r.left = n THEN <<>> ELSE @]
  OBVIOUS
<1>4. s \in SessionType
  <2>1. PICK a, b, c : /\ a = r.left - n /\ b = (IF r.left = n THEN "none" ELSE r.out)
                       /\ c = (IF r.left = n THEN <<>> ELSE r.sending)
    OBVIOUS
  <2>2. a \in Nat /\ b \in Outs /\ c \in Seq(Nat)
    BY <1>2, <2>1 DEF SessionType, Outs
  <2>3. s = [r EXCEPT !.left = a, !.out = b, !.sending = c]
    BY <1>3, <2>1
  <2> QED BY <1>2, <2>2, <2>3, Zenon DEF SessionType
<1>5. /\ s.result = r.result /\ s.negotiated = r.negotiated /\ s.owned = r.owned
      /\ s.closing = r.closing /\ s.turn = r.turn /\ s.released = r.released
      /\ s.frame = r.frame /\ s.data = r.data /\ s.turned = r.turned /\ s.began = r.began
      /\ s.out = "data" => r.out = "data" /\ s.sending = r.sending
  BY <1>2, <1>3 DEF SessionType
<1>6. Knows(w, o, s)
  BY <1>2, <1>5, Zenon DEF Knows
<1>7. Flush(w, o, n) = With(w, o, s)
  BY <1>1, <1>3 DEF Flush
<1>8. Good(Flush(w, o, n), o) /\ Flush(w, o, n).sess[o] = s
  BY <1>4, <1>6, <1>7, GoodWith
<1> QED BY <1>1, <1>5, <1>8 DEF Polling

\* The header and the payload of a frame arrive.
LEMMA ReceiveGood ==
  ASSUME NEW w, NEW o \in Owners, Good(w, o), NEW frame \in FrameKinds, NEW size \in Nat
  PROVE  LET v == Receive(w, o, frame, size)
         IN  Good(v, o) /\ (Polling(w.sess[o]) => Polling(v.sess[o]))
<1>0. CASE ~(Incomplete(w, o) /\ frame # "none")
  BY <1>0 DEF Receive
<1>a. CASE Incomplete(w, o) /\ frame # "none"
  <2>1. PICK r : r = w.sess[o]
    OBVIOUS
  <2>2. r \in SessionType /\ Knows(w, o, r) /\ w.tenure \in Nat
    BY <2>1, Parts DEF Good
  <2>3. PICK q : q = IF frame = "serial" THEN Copies(w.tenure, size) ELSE <<>>
    OBVIOUS
  <2>4. q \in Seq(Nat) /\ Of(q, w.tenure)
    <3>1. Copies(w.tenure, size) \in Seq(Nat) /\ Of(Copies(w.tenure, size), w.tenure)
      BY <2>2 DEF Copies, Of
    <3>2. Of(<<>>, w.tenure)
      BY DEF Of
    <3> QED BY <2>3, <3>1, <3>2
  <2>5. PICK s : s = [r EXCEPT !.frame = frame, !.data = q]
    OBVIOUS
  <2>6. s \in SessionType
    BY <2>2, <2>4, <2>5, Zenon DEF SessionType
  <2>7. /\ s.result = r.result /\ s.negotiated = r.negotiated /\ s.owned = r.owned
        /\ s.closing = r.closing /\ s.turn = r.turn /\ s.released = r.released
        /\ s.data = q /\ s.turned = r.turned /\ s.began = r.began
        /\ s.out = r.out /\ s.sending = r.sending
    BY <2>2, <2>5 DEF SessionType
  <2>8. Knows(w, o, s)
    BY <2>2, <2>4, <2>7, Zenon DEF Knows
  <2>9. Receive(w, o, frame, size) = With(w, o, s)
    BY <1>a, <2>1, <2>3, <2>5 DEF Receive
  <2>10. PICK v : v = Receive(w, o, frame, size)
    OBVIOUS
  <2>11. Good(v, o) /\ v.sess[o] = s
    BY <2>6, <2>8, <2>9, <2>10, GoodWith
  <2> QED BY <2>1, <2>7, <2>10, <2>11 DEF Polling
<1> QED BY <1>0, <1>a

\* The owner moves bytes of its own opening.
LEMMA PumpedGood ==
  ASSUME NEW w, NEW o \in Owners, Good(w, o), w.sess[o].owned,
         NEW v \in World, NEW s, v.sess[o] = s,
         \A p \in Owners \ {o} : v.sess[p] = w.sess[p],
         v.upload = w.upload, v.tenure = w.tenure, v.channel.owner = o,
         Of(v.channel.toBackend, w.tenure), Of(v.channel.toPeer, w.tenure),
         Of(v.app.rx, w.tenure), Of(v.app.tx, w.tenure), Len(v.app.rx) <= QueueBytes,
         s.owned, s.result = "running", s.negotiated, ~s.released,
         s.out = "data" => s.sending # <<>> /\ Of(s.sending, w.tenure),
         s.frame = "serial" => Of(s.data, w.tenure),
         s.turned \in 0..1, s.turned # 0 => s.turn /\ v.channel.toPeer # <<>>
  PROVE  Good(v, o)
<1>0. w \in World /\ Shared(w) /\ Knows(w, o, w.sess[o]) /\ o # NoOwner
  BY SessionAssumption DEF Good
<1>1. w.channel.owner = o /\ w.upload.state = "idle"
  BY <1>0 DEF Knows, Shared
<1>2. Shared(v) /\ \A p \in Owners : StagedBy(v, p) => StagedBy(w, p)
  BY <1>0, <1>1 DEF Shared, StagedBy
<1>3. ~StagedBy(v, o)
  BY <1>1 DEF StagedBy
<1>4. Knows(v, o, s)
  BY <1>3, Zenon DEF Knows
<1> QED BY <1>1, <1>2, <1>4, GoodChange

\* From the peer to the backend.
LEMMA PumpInGood ==
  ASSUME NEW w, NEW o \in Owners, Good(w, o), w.sess[o].owned
  PROVE  LET v == PumpIn(w, o)
         IN  /\ Good(v, o) /\ v.sess[o].owned
             /\ v.sess[o].out = w.sess[o].out /\ v.channel.toPeer = w.channel.toPeer
             /\ v.sess[o].turned = w.sess[o].turned /\ v.sess[o].turn = w.sess[o].turn
             /\ v.sess[o].frame # w.sess[o].frame => w.sess[o].frame = "serial"
             /\ Polling(w.sess[o]) => Polling(v.sess[o])
<1>0. w \in World /\ Shared(w) /\ Knows(w, o, w.sess[o])
  BY DEF Good
<1>1. PICK s, c, a : s = w.sess[o] /\ c = w.channel /\ a = w.app
  OBVIOUS
<1>2. s \in SessionType /\ c \in ChannelType /\ a \in AppType /\ w.tenure \in Nat
  BY <1>0, <1>1, Parts
<1>3. /\ s.data \in Seq(Nat) /\ c.toBackend \in Seq(Nat) /\ a.rx \in Seq(Nat)
      /\ Len(a.rx) <= QueueBytes /\ Len(s.data) \in Nat
      /\ Of(c.toBackend, w.tenure) /\ Of(c.toPeer, w.tenure)
      /\ Of(a.rx, w.tenure) /\ Of(a.tx, w.tenure) /\ c.owner = o
      /\ s.frame = "serial" => Of(s.data, w.tenure)
  BY <1>0, <1>1, <1>2, SMTT(30) DEF SessionType, ChannelType, AppType, Shared, Knows
<1>4. PICK read : read = IF c.toBackend = <<>> /\ s.frame = "serial"
                         THEN Smaller(StreamBytes, Len(s.data)) ELSE 0
  OBVIOUS
<1>5. read \in 0..Len(s.data) /\ (s.frame # "serial" => read = 0)
  BY <1>3, <1>4, SessionAssumption DEF Smaller
<1>6. PICK moved, kept : moved = Take(s.data, read) /\ kept = Drop(s.data, read)
  OBVIOUS
<1>7. /\ moved \in Seq(Nat) /\ kept \in Seq(Nat) /\ Of(moved, w.tenure)
      /\ s.frame = "serial" => Of(kept, w.tenure)
  <2>1. moved \in Seq(Nat) /\ kept \in Seq(Nat) /\ Len(moved) = read
    BY <1>3, <1>5, <1>6, PartsOf
  <2>2. CASE s.frame = "serial"
    BY <1>3, <1>5, <1>6, <2>1, <2>2, PartsOf
  <2>3. CASE s.frame # "serial"
    BY <1>5, <2>1, <2>3 DEF Of
  <2> QED BY <2>1, <2>2, <2>3
<1>8. PICK held : held = c.toBackend \o moved
  BY Zenon
<1>9. held \in Seq(Nat) /\ Of(held, w.tenure) /\ Len(held) \in Nat
  BY <1>3, <1>7, <1>8, JoinOf
<1>10. PICK sent : sent = Smaller(Len(held), QueueBytes - Len(a.rx))
  OBVIOUS
<1>11. QueueBytes - Len(a.rx) \in Nat
  BY <1>3, SessionAssumption
<1>12. sent \in 0..Len(held) /\ sent <= QueueBytes - Len(a.rx) /\ sent \in Nat
  BY <1>9, <1>10, <1>11 DEF Smaller
<1>13. PICK given, rest : given = Take(held, sent) /\ rest = Drop(held, sent)
  OBVIOUS
<1>14. /\ given \in Seq(Nat) /\ Len(given) = sent /\ Of(given, w.tenure)
       /\ rest \in Seq(Nat) /\ Of(rest, w.tenure)
  BY <1>9, <1>12, <1>13, PartsOf
<1>15. PICK rx : rx = a.rx \o given
  BY Zenon
<1>16. rx \in Seq(Nat) /\ Of(rx, w.tenure) /\ Len(rx) <= QueueBytes
  <2>1. Len(rx) = Len(a.rx) + sent
    BY <1>3, <1>14, <1>15
  <2> QED BY <1>3, <1>12, <1>14, <1>15, <2>1, JoinOf, SessionAssumption
<1>17. PICK frame : frame = IF s.frame = "serial" /\ read = Len(s.data) /\ s.data # <<>>
                            THEN "none" ELSE s.frame
  OBVIOUS
<1>18. frame \in FrameKinds /\ (frame = "serial" => s.frame = "serial")
       /\ (frame # s.frame => s.frame = "serial")
  BY <1>2, <1>17 DEF SessionType, FrameKinds
<1>19. PICK s1, c1, a1 : /\ s1 = [s EXCEPT !.data = kept, !.frame = frame]
                         /\ c1 = [c EXCEPT !.toBackend = rest]
                         /\ a1 = [a EXCEPT !.rx = rx]
  BY Zenon
<1>20. s1 \in SessionType /\ c1 \in ChannelType /\ a1 \in AppType
  <2>1. s1 \in SessionType
    BY <1>2, <1>7, <1>18, <1>19, Zenon DEF SessionType
  <2>2. c1 \in ChannelType /\ a1 \in AppType
    BY <1>2, <1>14, <1>16, <1>19, Zenon DEF ChannelType, AppType
  <2> QED BY <2>1, <2>2
<1>21. /\ s1.result = s.result /\ s1.negotiated = s.negotiated /\ s1.owned = s.owned
       /\ s1.closing = s.closing /\ s1.turn = s.turn /\ s1.released = s.released
       /\ s1.data = kept /\ s1.frame = frame /\ s1.turned = s.turned
       /\ s1.out = s.out /\ s1.sending = s.sending
  BY <1>2, <1>19 DEF SessionType
<1>22. /\ c1.owner = o /\ c1.toBackend = rest /\ c1.toPeer = c.toPeer
       /\ a1.rx = rx /\ a1.tx = a.tx
  BY <1>2, <1>3, <1>19 DEF ChannelType, AppType
<1>23. PumpIn(w, o) = WithChannel(With(w, o, s1), c1, a1)
  BY <1>1, <1>4, <1>6, <1>8, <1>10, <1>13, <1>15, <1>17, <1>19, ZenonT(30)
     DEF PumpIn, WithChannel, BackendSpace
<1>24. PICK v : v = PumpIn(w, o)
  OBVIOUS
<1>25. Knows(w, o, s) /\ s.owned
  BY <1>0, <1>1
<1>26. /\ s1.result = "running" /\ s1.negotiated /\ ~s1.released /\ s1.turned \in 0..1
       /\ s1.out = "data" => s1.sending # <<>> /\ Of(s1.sending, w.tenure)
       /\ s1.turned # 0 => s1.turn /\ c1.toPeer # <<>>
  BY <1>1, <1>21, <1>22, <1>25, Zenon DEF Knows
<1>27. s1.frame = "serial" => Of(s1.data, w.tenure)
  BY <1>7, <1>18, <1>21
<1>28. /\ Of(c1.toBackend, w.tenure) /\ Of(c1.toPeer, w.tenure) /\ s1.owned
       /\ Of(a1.rx, w.tenure) /\ Of(a1.tx, w.tenure) /\ Len(a1.rx) <= QueueBytes
  BY <1>3, <1>14, <1>16, <1>21, <1>22, <1>25
<1>29. /\ v \in World /\ v.sess[o] = s1 /\ \A p \in Owners \ {o} : v.sess[p] = w.sess[p]
       /\ v.upload = w.upload /\ v.tenure = w.tenure /\ v.channel = c1 /\ v.app = a1
  BY <1>0, <1>20, <1>23, <1>24, WithIs, WithChannelIs
<1>30. Good(v, o)
  BY <1>22, <1>26, <1>27, <1>28, <1>29, PumpedGood, SMTT(30)
<1> QED BY <1>1, <1>18, <1>21, <1>22, <1>24, <1>25, <1>29, <1>30 DEF Polling

\* From the backend to the peer: with the output buffer free, what was waiting is
\* sent, and nothing waits any longer.
LEMMA PumpOutGood ==
  ASSUME NEW w, NEW o \in Owners, Good(w, o), w.sess[o].owned
  PROVE  LET v == PumpOut(w, o)
         IN  /\ Good(v, o) /\ v.sess[o].owned
             /\ v.sess[o].frame = w.sess[o].frame /\ v.sess[o].turn = w.sess[o].turn
             /\ Polling(w.sess[o]) => Polling(v.sess[o])
             /\ OutputFree(w, o) => /\ v.sess[o].turned = 0
                                    /\ v.sess[o].out = "none" => v.channel.toPeer = <<>>
<1>0. w \in World /\ Shared(w) /\ Knows(w, o, w.sess[o])
  BY DEF Good
<1>1. PICK s, c, a : s = w.sess[o] /\ c = w.channel /\ a = w.app
  OBVIOUS
<1>2. s \in SessionType /\ c \in ChannelType /\ a \in AppType /\ Knows(w, o, s) /\ s.owned
  BY <1>0, <1>1, Parts, Zenon
<1>3. /\ c.toPeer \in Seq(Nat) /\ a.tx \in Seq(Nat) /\ Len(a.tx) \in Nat
      /\ Len(a.rx) <= QueueBytes
      /\ Of(c.toBackend, w.tenure) /\ Of(c.toPeer, w.tenure)
      /\ Of(a.rx, w.tenure) /\ Of(a.tx, w.tenure) /\ c.owner = o
  BY <1>0, <1>1, <1>2 DEF ChannelType, AppType, Shared, Knows
<1>4. PICK read : read = IF c.toPeer = <<>> THEN Smaller(StreamBytes, Len(a.tx)) ELSE 0
  OBVIOUS
<1>5. read \in 0..Len(a.tx)
  BY <1>3, <1>4, SessionAssumption DEF Smaller
<1>6. PICK moved, kept : moved = Take(a.tx, read) /\ kept = Drop(a.tx, read)
  OBVIOUS
<1>7. /\ moved \in Seq(Nat) /\ Len(moved) = read /\ kept \in Seq(Nat)
      /\ Of(moved, w.tenure) /\ Of(kept, w.tenure)
  BY <1>3, <1>5, <1>6, PartsOf
<1>8. PICK held : held = c.toPeer \o moved
  BY Zenon
<1>9. held \in Seq(Nat) /\ Of(held, w.tenure)
  BY <1>3, <1>7, <1>8, JoinOf
<1>10. c.toPeer # <<>> => held = c.toPeer
  BY <1>3, <1>4, <1>7, <1>8, JoinOf
<1> DEFINE sent == held # <<>> /\ OutputFree(w, o)
<1>12. PICK c1, a1 : /\ c1 = [c EXCEPT !.toPeer = IF sent THEN <<>> ELSE held]
                     /\ a1 = [a EXCEPT !.tx = kept]
  BY Zenon
<1>13. c1 \in ChannelType /\ a1 \in AppType
  <2>1. PICK q : q = IF sent THEN <<>> ELSE held
    OBVIOUS
  <2>2. q \in Seq(Nat)
    BY <1>9, <2>1
  <2> QED BY <1>2, <1>7, <1>12, <2>1, <2>2, Zenon DEF ChannelType, AppType
<1>14. /\ c1.owner = o /\ c1.toBackend = c.toBackend /\ a1.rx = a.rx /\ a1.tx = kept
       /\ c1.toPeer = IF sent THEN <<>> ELSE held
  BY <1>2, <1>3, <1>12 DEF ChannelType, AppType
<1>15. Of(c1.toPeer, w.tenure)
  BY <1>9, <1>14 DEF Of
<1>16. PICK w1 : w1 = WithChannel(w, c1, a1)
  OBVIOUS
<1>17. /\ w1 \in World /\ w1.sess = w.sess /\ w1.channel = c1 /\ w1.app = a1
       /\ w1.upload = w.upload /\ w1.tenure = w.tenure
  BY <1>0, <1>13, <1>16, WithChannelIs
<1>18. CASE sent
  <2>1. PICK s0 : s0 = [s EXCEPT !.waited = 0, !.turned = 0]
    OBVIOUS
  <2>2. s0 \in SessionType
    BY <1>2, <2>1, Zenon DEF SessionType
  <2>3. PICK u : u = With(w1, o, s0)
    OBVIOUS
  <2>4. /\ u \in World /\ u.sess[o] = s0 /\ \A p \in Owners \ {o} : u.sess[p] = w.sess[p]
        /\ u.channel = c1 /\ u.app = a1 /\ u.upload = w.upload /\ u.tenure = w.tenure
    BY <1>17, <2>2, <2>3, WithIs
  <2>5. PICK s1 : s1 = [s0 EXCEPT !.out = "data", !.left = OutputUnits, !.sending = held]
    OBVIOUS
  <2>6. s1 \in SessionType
    <3>1. "data" \in Outs /\ OutputUnits \in Nat
      BY SessionAssumption DEF Outs
    <3> QED BY <1>9, <2>2, <2>5, <3>1, Zenon DEF SessionType
  <2>7. s0.out = "none" /\ held # <<>>
    BY <1>1, <1>2, <1>18, <2>1 DEF OutputFree, SessionType
  <2>8. PumpOut(w, o) = Queue(u, o, "data", held)
    BY <1>1, <1>4, <1>6, <1>8, <1>12, <1>16, <1>18, <2>1, <2>3 DEF PumpOut, WithChannel
  <2>9. Queue(u, o, "data", held) = With(u, o, s1)
    BY <2>4, <2>5, <2>7 DEF Queue
  <2>10. PICK v : v = PumpOut(w, o)
    OBVIOUS
  <2>11. /\ v \in World /\ v.sess[o] = s1 /\ \A p \in Owners \ {o} : v.sess[p] = w.sess[p]
         /\ v.upload = w.upload /\ v.tenure = w.tenure /\ v.channel = c1 /\ v.app = a1
    BY <2>4, <2>6, <2>8, <2>9, <2>10, WithIs
  <2>12. /\ s1.result = s.result /\ s1.negotiated = s.negotiated /\ s1.owned = s.owned
         /\ s1.closing = s.closing /\ s1.turn = s.turn /\ s1.released = s.released
         /\ s1.data = s.data /\ s1.frame = s.frame /\ s1.turned = 0
         /\ s1.out = "data" /\ s1.sending = held
    BY <1>2, <2>1, <2>2, <2>5, ZenonT(30) DEF SessionType
  <2>13. /\ s1.result = "running" /\ s1.negotiated /\ ~s1.released /\ s1.owned
         /\ s1.frame = "serial" => Of(s1.data, w.tenure)
    BY <1>2, <2>12, Zenon DEF Knows
  <2>a. /\ v.channel.owner = o
        /\ Of(v.channel.toBackend, w.tenure) /\ Of(v.channel.toPeer, w.tenure)
        /\ Of(v.app.rx, w.tenure) /\ Of(v.app.tx, w.tenure) /\ Len(v.app.rx) <= QueueBytes
        /\ s1.out = "data" => s1.sending # <<>> /\ Of(s1.sending, w.tenure)
        /\ s1.turned \in 0..1 /\ s1.turned = 0
    BY <1>3, <1>7, <1>9, <1>14, <1>15, <2>7, <2>11, <2>12
  <2>14. Good(v, o)
    BY <2>11, <2>13, <2>a, PumpedGood
  <2> QED BY <1>1, <2>10, <2>11, <2>12, <2>13, <2>14 DEF Polling
<1>19. CASE ~sent
  <2>1. PICK v : v = PumpOut(w, o)
    OBVIOUS
  <2>2. v = w1
    BY <1>1, <1>4, <1>6, <1>8, <1>12, <1>16, <1>19, <2>1 DEF PumpOut, WithChannel
  <2>3. /\ s.result = "running" /\ s.negotiated /\ ~s.released /\ s.turned \in 0..1
        /\ s.out = "data" => s.sending # <<>> /\ Of(s.sending, w.tenure)
        /\ s.frame = "serial" => Of(s.data, w.tenure)
        /\ s.turned # 0 => s.turn /\ c.toPeer # <<>>
    BY <1>1, <1>2, Zenon DEF Knows
  <2>4. s.turned # 0 => s.turn /\ c1.toPeer # <<>>
    BY <1>10, <1>14, <1>19, <2>3
  <2>5. Good(v, o)
    BY <1>1, <1>2, <1>3, <1>7, <1>14, <1>15, <1>17, <2>2, <2>3, <2>4, PumpedGood, ZenonT(30)
  <2>6. OutputFree(w, o) => held = <<>>
    BY <1>19
  <2>7. held = <<>> => c.toPeer = <<>> /\ s.turned = 0 /\ c1.toPeer = <<>>
    BY <1>10, <1>14, <2>3
  <2> QED BY <1>1, <1>2, <1>17, <2>1, <2>2, <2>5, <2>6, <2>7, SMTT(30) DEF Polling
<1> QED BY <1>18, <1>19

\* Channel::poll.
LEMMA PumpGood ==
  ASSUME NEW w, NEW o \in Owners, Good(w, o), w.sess[o].owned
  PROVE  LET v == Pump(w, o)
         IN  /\ Good(v, o) /\ v.sess[o].owned /\ v.sess[o].turn = w.sess[o].turn
             /\ v.sess[o].frame # w.sess[o].frame => w.sess[o].frame = "serial"
             /\ Polling(w.sess[o]) => Polling(v.sess[o])
             /\ OutputFree(w, o) => /\ v.sess[o].turned = 0
                                    /\ v.sess[o].out = "none" => v.channel.toPeer = <<>>
<1>1. PICK u : u = PumpIn(w, o)
  OBVIOUS
<1>2. /\ Good(u, o) /\ u.sess[o].owned /\ u.sess[o].turn = w.sess[o].turn
      /\ u.sess[o].frame # w.sess[o].frame => w.sess[o].frame = "serial"
      /\ Polling(w.sess[o]) => Polling(u.sess[o])
      /\ u.sess[o].out = w.sess[o].out
  BY <1>1, PumpInGood
<1>3. OutputFree(w, o) => OutputFree(u, o)
  BY <1>2 DEF OutputFree
<1>4. PICK v : v = PumpOut(u, o)
  OBVIOUS
<1>5. /\ Good(v, o) /\ v.sess[o].owned
      /\ v.sess[o].frame = u.sess[o].frame /\ v.sess[o].turn = u.sess[o].turn
      /\ Polling(u.sess[o]) => Polling(v.sess[o])
      /\ OutputFree(u, o) => /\ v.sess[o].turned = 0
                             /\ v.sess[o].out = "none" => v.channel.toPeer = <<>>
  BY <1>2, <1>4, PumpOutGood
<1>6. Pump(w, o) = v
  BY <1>1, <1>4 DEF Pump
<1> QED BY <1>2, <1>3, <1>5, <1>6

\* The owner's poll ends with a pump.
LEMMA PumpIfOwnedGood ==
  ASSUME NEW w, NEW o \in Owners, Good(w, o), Quiet(w.sess[o])
  PROVE  LET v == PumpIfOwned(w, o)
         IN  Good(v, o) /\ Quiet(v.sess[o])
<1>1. CASE w.sess[o].result = "running" /\ w.sess[o].owned
  <2>1. Good(Pump(w, o), o) /\ Pump(w, o).sess[o].owned
    BY <1>1, PumpGood
  <2> QED BY <1>1, <2>1 DEF PumpIfOwned, Quiet
<1>2. CASE ~(w.sess[o].result = "running" /\ w.sess[o].owned)
  BY <1>2 DEF PumpIfOwned
<1> QED BY <1>1, <1>2

-----------------------------------------------------------------------------
(* Requests *)

\* A session about to answer the request in its hands.
Answering(s) == Polling(s) /\ s.out = "none" /\ s.frame # "serial" /\ s.turned = 0

\* What a request may change before it is answered.
Answered(w, o, v) ==
  /\ Good(v, o) /\ Answering(v.sess[o])
  /\ v.sess[o].owned => w.sess[o].negotiated

\* A request that changes nothing.
LEMMA RefusedGood ==
  ASSUME NEW w, NEW o \in Owners, Good(w, o), Answering(w.sess[o])
  PROVE  Answered(w, o, w) /\ ~w.sess[o].released
<1>1. Knows(w, o, w.sess[o])
  BY DEF Good
<1> QED BY <1>1, Zenon DEF Answered, Answering, Polling, Knows

\* A transition of the upload service made by the session that staged the upload.
LEMMA TransitionGood ==
  ASSUME NEW w, NEW o \in Owners, Good(w, o), Answering(w.sess[o]), w.sess[o].negotiated,
         NEW from \in {"accepted", "verified"}, NEW to \in UploadType, to.owner \in {o, NoOwner}
  PROVE  Answered(w, o, Request(w, o, from, to))
<1>1. CASE ~(w.upload.owner = o /\ w.upload.state = from)
  BY <1>1, RefusedGood DEF Request
<1>2. CASE w.upload.owner = o /\ w.upload.state = from
  <2>0. w \in World /\ Shared(w) /\ Knows(w, o, w.sess[o]) /\ o # NoOwner
    BY SessionAssumption DEF Good
  <2>1. PICK v : v = Request(w, o, from, to)
    OBVIOUS
  <2>2. v = WithUpload(w, to)
    BY <1>2, <2>1 DEF Request, WithUpload
  <2>3. /\ v \in World /\ v.sess = w.sess /\ v.channel = w.channel /\ v.app = w.app
        /\ v.upload = to /\ v.tenure = w.tenure
    BY <2>0, <2>2, WithUploadIs
  <2>4. w.channel.owner = NoOwner /\ StagedBy(w, o)
    BY <1>2, <2>0 DEF Shared, StagedBy
  <2>5. Shared(v) /\ \A p \in Owners \ {o} : StagedBy(v, p) => StagedBy(w, p)
    BY <2>0, <2>3, <2>4, SessionAssumption DEF Shared, StagedBy
  <2>6. Knows(v, o, v.sess[o])
    BY <2>0, <2>3, <2>4, Zenon DEF Knows
  <2>7. Good(v, o)
    BY <2>3, <2>5, <2>6, GoodChange
  <2> QED BY <2>1, <2>3, <2>7 DEF Answered
<1> QED BY <1>1, <1>2

\* flash.begin.
LEMMA BeginGood ==
  ASSUME NEW w, NEW o \in Owners, Good(w, o), Answering(w.sess[o]), w.sess[o].negotiated,
         ConsoleFree(w)
  PROVE  Answered(w, o, [With(w, o, [w.sess[o] EXCEPT !.began = TRUE])
                           EXCEPT !.upload = [state |-> "accepted", owner |-> o]])
<1>0. w \in World /\ Shared(w) /\ Knows(w, o, w.sess[o]) /\ o # NoOwner
  BY SessionAssumption DEF Good
<1>1. PICK r, s, up : /\ r = w.sess[o] /\ s = [r EXCEPT !.began = TRUE]
                      /\ up = [state |-> "accepted", owner |-> o]
  BY Zenon
<1>2. r \in SessionType
  BY <1>0, <1>1, Parts
<1>3. s \in SessionType /\ up \in UploadType
  <2>1. s \in SessionType
    BY <1>1, <1>2, Zenon DEF SessionType
  <2>2. up \in UploadType
    BY <1>1 DEF UploadType, UploadStates
  <2> QED BY <2>1, <2>2
<1>4. PICK u, v : u = With(w, o, s) /\ v = WithUpload(u, up)
  OBVIOUS
<1>5. /\ u \in World /\ u.sess[o] = s /\ \A p \in Owners \ {o} : u.sess[p] = w.sess[p]
      /\ u.channel = w.channel /\ u.app = w.app /\ u.tenure = w.tenure
  BY <1>0, <1>3, <1>4, WithIs
<1>6. /\ v \in World /\ v.sess = u.sess /\ v.channel = w.channel /\ v.app = w.app
      /\ v.upload = up /\ v.tenure = w.tenure
  BY <1>3, <1>4, <1>5, WithUploadIs
<1>7. Shared(v) /\ \A p \in Owners \ {o} : StagedBy(v, p) => StagedBy(w, p)
  BY <1>0, <1>1, <1>6 DEF Shared, StagedBy, ConsoleFree
<1>8. /\ s.result = r.result /\ s.negotiated = r.negotiated /\ s.owned = r.owned
      /\ s.closing = r.closing /\ s.turn = r.turn /\ s.released = r.released
      /\ s.data = r.data /\ s.frame = r.frame /\ s.turned = r.turned
      /\ s.out = r.out /\ s.sending = r.sending /\ s.began
  BY <1>1, <1>2 DEF SessionType
<1>9. Answering(r) /\ ~r.released /\ Knows(w, o, r)
  BY <1>0, <1>1, RefusedGood
<1>10. Knows(v, o, s) /\ Answering(s)
  BY <1>6, <1>8, <1>9, ZenonT(30) DEF Knows, Answering, Polling
<1>11. Good(v, o)
  BY <1>5, <1>6, <1>7, <1>10, GoodChange
<1>12. Answered(w, o, v)
  BY <1>5, <1>6, <1>10, <1>11 DEF Answered
<1> QED BY <1>1, <1>4, <1>12 DEF WithUpload

\* dispatch_upload.
LEMMA UploadRequestGood ==
  ASSUME NEW w, NEW o \in Owners, Good(w, o), Answering(w.sess[o]), w.sess[o].negotiated,
         NEW op \in UploadOps
  PROVE  Answered(w, o, UploadRequest(w, o, op))
<1>1. Answered(w, o, w)
  BY RefusedGood
<1>2. NoUpload \in UploadType /\ NoUpload.owner = NoOwner
  BY Constants DEF NoUpload
<1>3. \A st \in UploadStates : [state |-> st, owner |-> o] \in UploadType
                               /\ [state |-> st, owner |-> o].owner = o
  BY DEF UploadType
<1>4. CASE op = "begin"
  BY <1>1, <1>4, BeginGood DEF UploadRequest
<1>5. CASE op = "finish"
  <2>1. Answered(w, o, Request(w, o, "accepted", [state |-> "verified", owner |-> o]))
    BY <1>3, TransitionGood DEF UploadStates
  <2> QED BY <1>5, <2>1 DEF UploadRequest
<1>6. CASE op = "mismatch"
  <2>1. Answered(w, o, Request(w, o, "accepted", NoUpload))
    BY <1>2, TransitionGood
  <2> QED BY <1>6, <2>1 DEF UploadRequest
<1>7. CASE op = "commit"
  <2>1. Answered(w, o, Request(w, o, "verified", [state |-> "committing", owner |-> o]))
    BY <1>3, TransitionGood DEF UploadStates
  <2> QED BY <1>1, <1>7, <2>1 DEF UploadRequest
<1>8. CASE op = "abort"
  <2>1. PICK u : u = Request(w, o, "accepted", NoUpload)
    OBVIOUS
  <2>2. Answered(w, o, u)
    BY <1>2, <2>1, TransitionGood
  <2>3. u.sess[o].negotiated
    <3>1. u.sess = w.sess
      BY <1>2, <2>1, WithUploadIs DEF Request, WithUpload, Good
    <3> QED BY <3>1
  <2>4. PICK v : v = Request(u, o, "verified", NoUpload)
    OBVIOUS
  <2>5. Answered(u, o, v)
    BY <1>2, <2>2, <2>3, <2>4, TransitionGood DEF Answered
  <2>6. UploadRequest(w, o, op) = v
    BY <1>8, <2>1, <2>4 DEF UploadRequest
  <2> QED BY <2>5, <2>6 DEF Answered
<1> QED BY <1>4, <1>5, <1>6, <1>7, <1>8 DEF UploadOps

\* serial.open.
LEMMA OpenGood ==
  ASSUME NEW w, NEW o \in Owners, Good(w, o), Answering(w.sess[o]), w.sess[o].negotiated
  PROVE  Answered(w, o, OpenRequest(w, o))
<1>0. CASE ~MayOpen(w, o)
  BY <1>0, RefusedGood DEF OpenRequest
<1>a. CASE MayOpen(w, o)
  <2>0. w \in World /\ Shared(w) /\ Knows(w, o, w.sess[o]) /\ o # NoOwner
    BY SessionAssumption DEF Good
  <2>1. w.channel.owner = NoOwner /\ w.upload.state = "idle"
    BY <1>a DEF MayOpen, BlocksConsole
  <2>2. PICK c, a, t : /\ c = [FreeChannel EXCEPT !.owner = o]
                       /\ a = [Inactive EXCEPT !.active = TRUE] /\ t = w.tenure + 1
    BY Zenon
  <2>3. c = [owner |-> o, toBackend |-> <<>>, toPeer |-> <<>>]
        /\ a = [active |-> TRUE, rx |-> <<>>, tx |-> <<>>]
    BY <2>2, Zenon DEF FreeChannel, Inactive
  <2>4. c \in ChannelType /\ a \in AppType /\ t \in Nat
    <3>1. w.tenure \in Nat
      BY <2>0, Parts
    <3>2. <<>> \in Seq(Nat)
      OBVIOUS
    <3>3. c \in ChannelType
      BY <2>3, <3>2, Zenon DEF ChannelType
    <3>4. a \in AppType
      BY <2>3, <3>2, Zenon DEF AppType
    <3> QED BY <2>2, <3>1, <3>3, <3>4
  <2>5. PICK u : u = Acquire(w, o)
    OBVIOUS
  <2>6. u = [w EXCEPT !.channel = c, !.app = a, !.tenure = t]
    BY <2>2, <2>5 DEF Acquire
  <2>7. u \in World
    BY <2>0, <2>4, <2>6, Zenon DEF World
  <2>8. /\ u.sess = w.sess /\ u.upload = w.upload /\ u.channel = c /\ u.app = a
    BY <2>0, <2>6 DEF World
  <2>9. PICK r, s : r = w.sess[o] /\ s = [r EXCEPT !.owned = TRUE]
    BY Zenon
  <2>10. r \in SessionType
    BY <2>0, <2>9, Parts
  <2>11. s \in SessionType
    BY <2>9, <2>10, Zenon DEF SessionType
  <2>12. PICK v : v = With(u, o, s)
    OBVIOUS
  <2>13. /\ v \in World /\ v.sess[o] = s /\ \A p \in Owners \ {o} : v.sess[p] = w.sess[p]
         /\ v.channel = c /\ v.app = a /\ v.upload = w.upload
    BY <2>7, <2>8, <2>11, <2>12, WithIs, SMTT(30)
  <2>14. Shared(v) /\ \A p \in Owners : ~StagedBy(v, p)
    BY <2>0, <2>1, <2>3, <2>13, SessionAssumption DEF Shared, StagedBy, Of
  <2>15. /\ s.result = r.result /\ s.negotiated = r.negotiated /\ s.owned
         /\ s.closing = r.closing /\ s.released = r.released
         /\ s.frame = r.frame /\ s.turned = r.turned /\ s.out = r.out
    BY <2>9, <2>10 DEF SessionType
  <2>16. Answering(r) /\ ~r.released /\ r.negotiated
    BY <2>9, RefusedGood, Zenon
  <2>17. v.channel.owner = o /\ s.turned \in 0..1
    BY <2>3, <2>13, <2>15, <2>16 DEF Answering
  <2>18. Knows(v, o, s) /\ Answering(s)
    BY <2>14, <2>15, <2>16, <2>17, Zenon DEF Knows, Answering, Polling
  <2>19. Good(v, o)
    BY <2>1, <2>13, <2>14, <2>17, <2>18, GoodChange
  <2>20. OpenRequest(w, o) = v
    BY <1>a, <2>5, <2>9, <2>12 DEF OpenRequest
  <2> QED BY <2>13, <2>18, <2>19, <2>20 DEF Answered
<1> QED BY <1>0, <1>a

\* serial.close.
LEMMA CloseRequestGood ==
  ASSUME NEW w, NEW o \in Owners, Good(w, o), Answering(w.sess[o]), w.sess[o].negotiated
  PROVE  Answered(w, o, CloseRequest(w, o))
<1>0. CASE ~w.sess[o].owned
  BY <1>0, RefusedGood DEF CloseRequest
<1>a. CASE w.sess[o].owned
  <2>0. w \in World /\ Shared(w) /\ Knows(w, o, w.sess[o]) /\ o # NoOwner
    BY SessionAssumption DEF Good
  <2>1. w.channel.owner = o /\ ~StagedBy(w, o)
    BY <1>a, <2>0 DEF Knows, Shared, StagedBy
  <2>2. PICK r, s : /\ r = w.sess[o]
                    /\ s = [r EXCEPT !.owned = FALSE, !.waited = 0, !.turned = 0]
    BY Zenon
  <2>3. r \in SessionType
    BY <2>0, <2>2, Parts
  <2>4. s \in SessionType
    BY <2>2, <2>3, Zenon DEF SessionType
  <2>5. PICK u, v : u = Release(w, o) /\ v = With(u, o, s)
    OBVIOUS
  <2>6. /\ u \in World /\ u.sess = w.sess /\ u.upload = w.upload /\ u.tenure = w.tenure
        /\ u.channel = FreeChannel /\ u.app = Inactive
    BY <2>0, <2>1, <2>5, ReleaseIs, ZenonT(30)
  <2>7. Ceded(w, o, v) /\ v.sess[o] = s
    BY <1>a, <2>1, <2>4, <2>5, <2>6, WithIs DEF Ceded
  <2>8. /\ s.result = r.result /\ ~s.owned /\ s.closing = r.closing
        /\ s.released = r.released /\ s.frame = r.frame /\ s.turned = 0 /\ s.out = r.out
    BY <2>2, <2>3 DEF SessionType
  <2>9. Answering(r) /\ ~r.released
    BY <2>2, RefusedGood
  <2>10. Gone(s) /\ Answering(s)
    BY <2>8, <2>9 DEF Gone, Answering, Polling
  <2>11. Good(v, o)
    BY <2>7, <2>10, CededGood
  <2>12. CloseRequest(w, o) = v
    BY <1>a, <2>2, <2>5 DEF CloseRequest
  <2> QED BY <2>7, <2>8, <2>10, <2>11, <2>12, Zenon DEF Answered
<1> QED BY <1>0, <1>a

\* hello.
LEMMA HelloGood ==
  ASSUME NEW w, NEW o \in Owners, Good(w, o), Answering(w.sess[o]), ~w.sess[o].negotiated
  PROVE  Answered(w, o, With(w, o, [w.sess[o] EXCEPT !.negotiated = TRUE]))
<1>1. PICK r, s : r = w.sess[o] /\ s = [r EXCEPT !.negotiated = TRUE]
  BY Zenon
<1>2. r \in SessionType /\ Knows(w, o, r)
  BY <1>1, Parts DEF Good
<1>3. s \in SessionType
  BY <1>1, <1>2, Zenon DEF SessionType
<1>4. /\ s.result = r.result /\ s.owned = r.owned /\ s.negotiated
      /\ s.closing = r.closing /\ s.turn = r.turn /\ s.released = r.released
      /\ s.data = r.data /\ s.frame = r.frame /\ s.turned = r.turned
      /\ s.out = r.out /\ s.sending = r.sending /\ s.began = r.began
  BY <1>1, <1>2 DEF SessionType
<1>5. ~r.owned
  BY <1>1, <1>2, Zenon DEF Knows
<1>6. Knows(w, o, s) /\ Answering(s) /\ ~s.owned
  BY <1>1, <1>2, <1>4, <1>5, Zenon DEF Knows, Answering, Polling
<1>7. PICK v : v = With(w, o, s)
  OBVIOUS
<1>8. Good(v, o) /\ v.sess[o] = s
  BY <1>3, <1>6, <1>7, GoodWith
<1> QED BY <1>1, <1>6, <1>7, <1>8, Zenon DEF Answered

\* Every well-formed request leaves the world good.
LEMMA EffectGood ==
  ASSUME NEW w, NEW o \in Owners, Good(w, o), Answering(w.sess[o]), NEW frame
  PROVE  Answered(w, o, Effect(w, o, frame))
<1>1. Answered(w, o, w)
  BY RefusedGood
<1>2. CASE ~w.sess[o].negotiated
  BY <1>1, <1>2, HelloGood DEF Effect
<1>3. CASE w.sess[o].negotiated /\ frame = "open"
  <2>1. Effect(w, o, frame) = OpenRequest(w, o)
    BY <1>3 DEF Effect, UploadOps
  <2> QED BY <1>3, <2>1, OpenGood
<1>4. CASE w.sess[o].negotiated /\ frame = "close"
  <2>1. Effect(w, o, frame) = CloseRequest(w, o)
    BY <1>4 DEF Effect, UploadOps
  <2> QED BY <1>4, <2>1, CloseRequestGood
<1>5. CASE w.sess[o].negotiated /\ frame \in UploadOps
  <2>1. frame # "open" /\ frame # "close"
    BY <1>5 DEF UploadOps
  <2> QED BY <1>5, <2>1, UploadRequestGood DEF Effect
<1>6. CASE w.sess[o].negotiated /\ frame \notin UploadOps \cup {"open", "close"}
  BY <1>1, <1>6, SMTT(30) DEF Effect
<1> QED BY <1>2, <1>3, <1>4, <1>5, <1>6

\* A reply takes the output buffer and consumes the frame; the data it comes
\* before, if it is due to give the turn, is counted.
LEMMA AnswerIs ==
  ASSUME NEW w, NEW o \in Owners, Good(w, o), Answering(w.sess[o]), NEW due \in BOOLEAN
  PROVE  LET v == Consumed(Reply(w, o, due), o)
             s == w.sess[o]
             r == v.sess[o]
         IN  /\ v = With(w, o, r) /\ r \in SessionType
             /\ v.sess[o] = r /\ v.channel = w.channel /\ v.tenure = w.tenure
             /\ v.upload = w.upload
             /\ r.result = s.result /\ r.owned = s.owned /\ r.negotiated = s.negotiated
             /\ r.closing = s.closing /\ r.turn = s.turn /\ r.released = s.released
             /\ r.began = s.began /\ r.out = "reply" /\ r.frame = "none"
             /\ r.turned \in 0..1
             /\ r.turned # 0 => due /\ s.owned /\ w.channel.toPeer # <<>>
<1>1. PICK s : s = w.sess[o]
  OBVIOUS
<1>2. w \in World /\ s \in SessionType /\ Answering(s)
  BY <1>1, Parts DEF Good
<1>3. PICK q : q = [s EXCEPT !.out = "reply", !.left = OutputUnits, !.sending = <<>>]
  OBVIOUS
<1>4. OutputUnits \in Nat /\ <<>> \in Seq(Nat) /\ "reply" \in Outs /\ "none" \in FrameKinds
  BY SessionAssumption DEF Outs, FrameKinds
<1>5. q \in SessionType
  BY <1>2, <1>3, <1>4, Zenon DEF SessionType
<1>6. /\ q.result = s.result /\ q.owned = s.owned /\ q.negotiated = s.negotiated
      /\ q.closing = s.closing /\ q.turn = s.turn /\ q.released = s.released
      /\ q.began = s.began /\ q.out = "reply" /\ q.turned = 0
  BY <1>2, <1>3 DEF SessionType, Answering
<1>7. PICK w1 : w1 = Queue(w, o, "reply", <<>>)
  OBVIOUS
<1>8. w1 = With(w, o, q)
  BY <1>1, <1>2, <1>3, <1>7 DEF Queue, Answering
<1>9. w1 \in World /\ w1.sess[o] = q
  BY <1>2, <1>5, <1>8, WithIs, ZenonT(30)
<1>10. PICK t \in SessionType :
         /\ Reply(w, o, due) = With(w, o, t)
         /\ t.result = s.result /\ t.owned = s.owned /\ t.negotiated = s.negotiated
         /\ t.closing = s.closing /\ t.turn = s.turn /\ t.released = s.released
         /\ t.began = s.began /\ t.out = "reply" /\ t.turned \in 0..1
         /\ t.turned # 0 => due /\ s.owned /\ w.channel.toPeer # <<>>
  <2>1. CASE s.owned /\ w.channel.toPeer # <<>>
    <3>1. PICK m, k : /\ m = Smaller(q.waited + 1, 2)
                      /\ k = IF due THEN Smaller(q.turned + 1, 2) ELSE q.turned
      OBVIOUS
    <3>2. k \in 0..1 /\ k \in Nat /\ (k # 0 => due)
      BY <1>6, <3>1 DEF Smaller
    <3>3. m \in Nat
      BY <1>5, <3>1 DEF Smaller, SessionType
    <3>4. PICK t : t = [q EXCEPT !.waited = m, !.turned = k]
      OBVIOUS
    <3>5. t \in SessionType
      BY <1>5, <3>2, <3>3, <3>4, Zenon DEF SessionType
    <3>6. Reply(w, o, due) = With(w1, o, t)
      BY <1>1, <1>7, <1>9, <2>1, <3>1, <3>4, Zenon DEF Reply
    <3>7. With(w1, o, t) = With(w, o, t)
      BY <1>2, <1>5, <1>8, <3>5, WithTwice
    <3>8. /\ t.result = q.result /\ t.owned = q.owned /\ t.negotiated = q.negotiated
          /\ t.closing = q.closing /\ t.turn = q.turn /\ t.released = q.released
          /\ t.began = q.began /\ t.out = q.out /\ t.turned = k
      BY <1>5, <3>4 DEF SessionType
    <3> QED BY <1>6, <2>1, <3>2, <3>5, <3>6, <3>7, <3>8, Zenon
  <2>2. CASE ~(s.owned /\ w.channel.toPeer # <<>>)
    <3>1. Reply(w, o, due) = With(w, o, q)
      BY <1>1, <1>7, <1>8, <2>2 DEF Reply
    <3> QED BY <1>5, <1>6, <3>1
  <2> QED BY <2>1, <2>2
<1>11. PICK r : r = [t EXCEPT !.frame = "none"]
  BY Zenon
<1>12. r \in SessionType
  BY <1>4, <1>11, Zenon DEF SessionType
<1>13. /\ r.result = t.result /\ r.owned = t.owned /\ r.negotiated = t.negotiated
       /\ r.closing = t.closing /\ r.turn = t.turn /\ r.released = t.released
       /\ r.began = t.began /\ r.out = t.out /\ r.turned = t.turned /\ r.frame = "none"
  BY <1>11 DEF SessionType
<1>14. With(w, o, t).sess[o] = t
  BY <1>2, WithIs
<1>15. PICK v : v = Consumed(Reply(w, o, due), o)
  OBVIOUS
<1>16. v = With(With(w, o, t), o, r)
  BY <1>10, <1>11, <1>14, <1>15 DEF Consumed
<1>17. v = With(w, o, r)
  BY <1>2, <1>12, <1>16, WithTwice
<1>18. v.sess[o] = r /\ v.channel = w.channel /\ v.tenure = w.tenure /\ v.upload = w.upload
  BY <1>2, <1>12, <1>17, WithIs
<1> QED BY <1>1, <1>10, <1>12, <1>13, <1>15, <1>17, <1>18

\* The answer to a request, with the turn it gives to waiting data.
LEMMA AnswerGood ==
  ASSUME NEW w, NEW o \in Owners, Good(w, o), Answering(w.sess[o]), NEW due \in BOOLEAN,
         NEW turns \in BOOLEAN, due /\ w.sess[o].owned => turns,
         NEW w1, w1 = Consumed(Reply(w, o, due), o),
         NEW v, v = IF turns THEN With(w1, o, [w1.sess[o] EXCEPT !.turn = TRUE]) ELSE w1
  PROVE  Good(v, o) /\ Quiet(v.sess[o])
<1>1. PICK s, r : s = w.sess[o] /\ r = w1.sess[o]
  OBVIOUS
<1>2. w \in World /\ s \in SessionType /\ Knows(w, o, s) /\ Answering(s)
  BY <1>1, Parts DEF Good
<1>3. /\ w1 = With(w, o, r) /\ r \in SessionType
      /\ r.result = s.result /\ r.owned = s.owned /\ r.negotiated = s.negotiated
      /\ r.closing = s.closing /\ r.turn = s.turn /\ r.released = s.released
      /\ r.began = s.began /\ r.out = "reply" /\ r.frame = "none"
      /\ r.turned \in 0..1
      /\ r.turned # 0 => due /\ s.owned /\ w.channel.toPeer # <<>>
  BY <1>1, AnswerIs
<1>4. CASE turns
  <2>1. PICK t : t = [r EXCEPT !.turn = TRUE]
    BY Zenon
  <2>2. t \in SessionType
    BY <1>3, <2>1, Zenon DEF SessionType
  <2>3. /\ t.result = r.result /\ t.owned = r.owned /\ t.negotiated = r.negotiated
        /\ t.closing = r.closing /\ t.turn /\ t.released = r.released
        /\ t.began = r.began /\ t.out = r.out /\ t.frame = r.frame
        /\ t.turned = r.turned
    BY <1>3, <2>1 DEF SessionType
  <2>4. v = With(w, o, t)
    <3>1. v = With(With(w, o, r), o, t)
      BY <1>1, <1>3, <1>4, <2>1, Zenon
    <3>2. With(With(w, o, r), o, t) = With(w, o, t)
      BY <1>2, <1>3, <2>2, WithTwice
    <3> QED BY <3>1, <3>2
  <2>5. t.out # "data" /\ t.frame # "serial" /\ t.turned \in 0..1
        /\ (t.turned # 0 => t.owned /\ t.turn /\ w.channel.toPeer # <<>>)
    BY <1>3, <2>3
  <2>6. Knows(w, o, t)
    BY <1>2, <1>3, <2>3, <2>5, Zenon DEF Knows
  <2>7. Good(v, o) /\ v.sess[o] = t
    BY <2>2, <2>4, <2>6, GoodWith
  <2> QED BY <2>5, <2>7 DEF Quiet
<1>5. CASE ~turns
  <2>1. r.turned = 0
    BY <1>1, <1>3, <1>5
  <2>2. r.out # "data" /\ r.frame # "serial" /\ r.turned \in 0..1
    BY <1>3
  <2>3. Knows(w, o, r)
    BY <1>2, <1>3, <2>1, <2>2, Zenon DEF Knows
  <2>4. v = With(w, o, r)
    BY <1>3, <1>5
  <2>5. Good(v, o) /\ v.sess[o] = r
    BY <1>3, <2>3, <2>4, GoodWith
  <2> QED BY <2>2, <2>5, SMTT(30) DEF Quiet
<1> QED BY <1>4, <1>5

\* The frame that is not JSON: its reply is still to be sent when all is given up.
LEMMA UnparsableGood ==
  ASSUME NEW w, NEW o \in Owners, Good(w, o), Answering(w.sess[o])
  PROVE  LET v == Unparsable(w, o)
         IN  Good(v, o) /\ Quiet(v.sess[o])
<1>1. PICK w1 : w1 = Consumed(Reply(w, o, FALSE), o)
  BY Zenon
<1>2. Good(w1, o)
  BY <1>1, AnswerGood, Zenon
<1>3. PICK r : r = w1.sess[o]
  BY ZenonT(30)
<1>4. /\ r \in SessionType /\ r.owned = w.sess[o].owned
      /\ r.released = w.sess[o].released /\ r.out = "reply" /\ r.frame = "none"
  <2>1. PICK due \in BOOLEAN : due = FALSE
    BY Zenon
  <2>2. w1 = Consumed(Reply(w, o, due), o)
    BY <1>1, <2>1, Zenon
  <2> QED BY <1>3, <2>2, AnswerIs
<1>5. PICK w2 : w2 = IF r.owned THEN Release(w1, o) ELSE w1
  OBVIOUS
<1>6. PICK w3 : w3 = IF r.released THEN w2 ELSE Disconnect(w2, o)
  OBVIOUS
<1>7. PICK s : s = [r EXCEPT !.released = TRUE, !.owned = FALSE, !.closing = TRUE,
                             !.waited = 0, !.turned = 0, !.began = FALSE]
  OBVIOUS
<1>8. s \in SessionType
  BY <1>4, <1>7, Zenon, 0 \in Nat DEF SessionType
<1>9. Gone(s)
  BY <1>4, <1>7 DEF Gone, SessionType
<1>10. PICK v : v = With(w3, o, s)
  BY ZenonT(30)
<1>11. Ceded(w1, o, v) /\ v.sess[o] = s
  BY <1>2, <1>3, <1>5, <1>6, <1>8, <1>10, CedesBoth
<1>12. Good(v, o) /\ Quiet(v.sess[o])
  BY <1>2, <1>9, <1>11, CededGood
<1>13. Unparsable(w, o) = v
  BY <1>1, <1>3, <1>4, <1>5, <1>6, <1>7, <1>10, Zenon DEF Unparsable
<1> QED BY <1>12, <1>13

\* Session::dispatch.
LEMMA DispatchGood ==
  ASSUME NEW w, NEW o \in Owners, Good(w, o),
         w.sess[o].frame # "serial" => Answering(w.sess[o])
  PROVE  Good(Dispatch(w, o), o) /\ Quiet(Dispatch(w, o).sess[o])
<1>0. PICK frame : frame = w.sess[o].frame
  OBVIOUS
<1>1. Good(FinishSession(w, o, "protocol_error"), o)
      /\ Quiet(FinishSession(w, o, "protocol_error").sess[o])
  BY FinishGood DEF Results
<1>2. CASE frame = "serial"
  BY <1>0, <1>1, <1>2 DEF Dispatch, Quiet
<1>3. CASE frame = "event"
  BY <1>0, <1>1, <1>3 DEF Dispatch
<1>4. CASE frame = "unparsable"
  BY <1>0, <1>4, UnparsableGood DEF Dispatch
<1>5. CASE frame \notin {"serial", "event", "unparsable"}
  <2>1. PICK e : e = Effect(w, o, frame)
    BY Zenon
  <2>2. /\ Good(e, o) /\ Answering(e.sess[o])
        /\ e.sess[o].owned => w.sess[o].negotiated
    BY <1>0, <1>5, <2>1, EffectGood DEF Answered
  <2>3. Due(frame) /\ e.sess[o].owned => TakesTurn(w, o, frame)
    BY <2>2 DEF Due, TakesTurn, UploadOps
  <2>4. Due(frame) \in BOOLEAN /\ TakesTurn(w, o, frame) \in BOOLEAN
    BY DEF Due, TakesTurn
  <2>5. PICK w1 : w1 = Consumed(Reply(e, o, Due(frame)), o)
    OBVIOUS
  <2>6. PICK v : v = IF TakesTurn(w, o, frame)
                     THEN With(w1, o, [w1.sess[o] EXCEPT !.turn = TRUE]) ELSE w1
    OBVIOUS
  <2>7. Good(v, o) /\ Quiet(v.sess[o])
    BY <2>2, <2>3, <2>4, <2>5, <2>6, AnswerGood, Zenon
  <2>8. Dispatch(w, o) = v
    BY <1>0, <1>5, <2>1, <2>5, <2>6, ZenonT(30) DEF Dispatch
  <2> QED BY <2>7, <2>8
<1> QED BY <1>2, <1>3, <1>4, <1>5

\* The part of Session::poll that serves the frame in the session's hands.
LEMMA ServeGood ==
  ASSUME NEW w, NEW o \in Owners, Good(w, o), Polling(w.sess[o])
  PROVE  Good(Serve(w, o), o) /\ Quiet(Serve(w, o).sess[o])
<1>0. PICK frame : frame = w.sess[o].frame
  OBVIOUS
<1>1. CASE frame = "malformed"
  <2>1. Serve(w, o) = FinishSession(w, o, "protocol_error")
    BY <1>0, <1>1 DEF Serve, Incomplete
  <2> QED BY <2>1, FinishGood DEF Results
<1>2. CASE Incomplete(w, o)
  <2>1. Serve(w, o) = PumpIfOwned(w, o) /\ Quiet(w.sess[o])
    BY <1>0, <1>2 DEF Serve, Incomplete, Quiet
  <2> QED BY <2>1, PumpIfOwnedGood
<1>3. CASE frame = "serial"
  <2>1. Serve(w, o) = PumpIfOwned(Dispatch(w, o), o)
    BY <1>0, <1>3 DEF Serve, Incomplete
  <2>2. PICK v : v = Dispatch(w, o)
    OBVIOUS
  <2>3. Good(v, o) /\ Quiet(v.sess[o])
    BY <1>0, <1>3, <2>2, DispatchGood, Zenon
  <2> QED BY <2>1, <2>2, <2>3, PumpIfOwnedGood
<1>4. CASE frame \notin {"malformed", "serial"} /\ ~Incomplete(w, o)
  <2> DEFINE turn == OutputFree(w, o) /\ w.sess[o].owned /\ w.sess[o].turn
  <2>1. CASE turn
    <3>1. PICK w0 : w0 = Pump(w, o)
      OBVIOUS
    <3>2. /\ Good(w0, o) /\ w0.sess[o].frame = frame /\ Polling(w0.sess[o])
          /\ w0.sess[o].turned = 0
      BY <1>0, <1>4, <2>1, <3>1, PumpGood
    <3>3. PICK r, s : r = w0.sess[o] /\ s = [r EXCEPT !.turn = FALSE]
      BY Zenon
    <3>4. r \in SessionType /\ Knows(w0, o, r)
      BY <3>2, <3>3, Parts DEF Good
    <3>5. s \in SessionType
      BY <3>3, <3>4, Zenon DEF SessionType
    <3>6. /\ s.result = r.result /\ s.negotiated = r.negotiated /\ s.owned = r.owned
          /\ s.closing = r.closing /\ s.released = r.released /\ s.out = r.out
          /\ s.sending = r.sending /\ s.frame = r.frame /\ s.data = r.data
          /\ s.turned = 0 /\ s.began = r.began
      BY <3>2, <3>3, <3>4 DEF SessionType
    <3>7. s.turned \in 0..1
      BY <3>6
    <3>8. Knows(w0, o, s)
      BY <3>4, <3>6, <3>7, Zenon DEF Knows
    <3>9. PICK w1 : w1 = With(w0, o, s)
      OBVIOUS
    <3>10. Good(w1, o) /\ w1.sess[o] = s
      BY <3>2, <3>5, <3>8, <3>9, GoodWith
    <3>11. Serve(w, o) = IF s.out = "none" THEN Dispatch(w1, o) ELSE w1
      BY <1>0, <1>4, <2>1, <3>1, <3>3, <3>9, <3>10, Zenon DEF Serve
    <3>12. s.frame # "serial" /\ Polling(s)
      BY <1>4, <3>2, <3>3, <3>6 DEF Polling
    <3>13. CASE s.out = "none"
      <4>1. Answering(w1.sess[o])
        BY <3>6, <3>10, <3>12, <3>13 DEF Answering
      <4> QED BY <3>10, <3>11, <3>13, <4>1, DispatchGood
    <3>14. CASE s.out # "none"
      BY <3>10, <3>11, <3>12, <3>14 DEF Quiet
    <3> QED BY <3>13, <3>14, ZenonT(30)
  <2>2. CASE ~turn
    <3>1. PICK v : v = IF w.sess[o].out = "none" THEN Dispatch(w, o) ELSE w
      OBVIOUS
    <3>2. Serve(w, o) = PumpIfOwned(v, o)
      BY <1>0, <1>4, <2>2, <3>1 DEF Serve
    <3>3. CASE w.sess[o].out = "none"
      <4>1. w.sess[o].turned = 0
        BY <2>2, <3>3, Zenon DEF Good, Knows, OutputFree
      <4>2. Answering(w.sess[o])
        BY <1>0, <1>4, <3>3, <4>1, Zenon DEF Answering
      <4>3. Good(v, o) /\ Quiet(v.sess[o])
        BY <3>1, <3>3, <4>2, DispatchGood
      <4> QED BY <3>2, <4>3, PumpIfOwnedGood, Zenon
    <3>4. CASE w.sess[o].out # "none"
      <4>1. v = w /\ Quiet(w.sess[o])
        BY <1>0, <1>4, <3>1, <3>4, Zenon DEF Quiet
      <4> QED BY <3>2, <4>1, PumpIfOwnedGood
    <3> QED BY <3>3, <3>4
  <2> QED BY <2>1, <2>2
<1> QED BY <1>0, <1>1, <1>2, <1>3, <1>4

\* Session::poll.
LEMMA PolledGood ==
  ASSUME NEW w, NEW o \in Owners, Good(w, o), Quiet(w.sess[o]),
         w.sess[o].result = "running", NEW n \in 0..w.sess[o].left,
         NEW frame \in FrameKinds, NEW size \in Nat, NEW late \in BOOLEAN
  PROVE  LET v == Polled(w, o, n, frame, size, late)
         IN  Good(v, o) /\ Quiet(v.sess[o])
<1>1. PICK v, f : v = Polled(w, o, n, frame, size, late) /\ f = Flush(w, o, n)
  OBVIOUS
<1>2. \A result \in Results \ {"running"} :
         Good(FinishSession(w, o, result), o) /\ Quiet(FinishSession(w, o, result).sess[o])
  BY FinishGood
<1>3. /\ "disconnected" \in Results \ {"running"} /\ "timeout" \in Results \ {"running"}
      /\ "protocol_error" \in Results \ {"running"}
  BY ZenonT(30) DEF Results
<1>4. /\ Good(f, o) /\ f.sess[o].frame = w.sess[o].frame
      /\ f.sess[o].owned = w.sess[o].owned
      /\ Polling(w.sess[o]) => Polling(f.sess[o])
  BY <1>1, FlushGood
<1>5. Quiet(f.sess[o])
  BY <1>4 DEF Quiet
<1>6. w.sess[o].link \in BOOLEAN /\ w.sess[o].closing \in BOOLEAN
  <2>1. w.sess[o] \in SessionType
    BY Parts, ZenonT(30) DEF Good
  <2> QED BY <2>1 DEF SessionType
<1>7. CASE ~w.sess[o].link
  <2>1. v = FinishSession(w, o, "disconnected")
    BY <1>1, <1>7, ZenonT(30) DEF Polled
  <2> QED BY <1>1, <1>2, <1>3, <2>1
<1>8. CASE w.sess[o].link /\ w.sess[o].closing
  <2>1. v = f \/ v = FinishSession(w, o, "protocol_error")
    BY <1>1, <1>8, Zenon DEF Polled
  <2> QED BY <1>1, <1>2, <1>3, <1>4, <1>5, <2>1
<1>9. CASE w.sess[o].link /\ ~w.sess[o].closing
  <2>1. CASE late
    <3>1. v = FinishSession(w, o, "timeout")
      BY <1>1, <1>9, <2>1, ZenonT(30) DEF Polled
    <3> QED BY <1>1, <1>2, <1>3, <3>1
  <2>2. CASE ~late
    <3>1. PICK g : g = Receive(f, o, frame, size)
      OBVIOUS
    <3>2. v = Serve(g, o)
      BY <1>1, <1>9, <2>2, <3>1 DEF Polled
    <3>3. Polling(w.sess[o])
      BY <1>9, ZenonT(30) DEF Polling
    <3>4. Good(g, o) /\ Polling(g.sess[o])
      BY <1>4, <3>1, <3>3, ReceiveGood
    <3> QED BY <1>1, <3>2, <3>4, ServeGood, Zenon
  <2> QED BY <2>1, <2>2, Zenon
<1> QED BY <1>6, <1>7, <1>8, <1>9, Zenon

-----------------------------------------------------------------------------
(* The steps *)

\* Between two polls every session is quiet.
LEMMA SoundIs ==
  ASSUME NEW w, NEW o \in Owners
  PROVE  Sound(w) <=> Good(w, o) /\ Quiet(w.sess[o])
  BY Zenon DEF Sound, Good

\* A session that holds nothing may take a slot that holds nothing.
LEMMA GoneKnows ==
  ASSUME NEW w, NEW o \in Owners, NEW s, Gone(s), w.channel.owner # o, ~StagedBy(w, o)
  PROVE  Knows(w, o, s) /\ Quiet(s)
<1>1. s.turned \in 0..1
  BY DEF Gone
<1> QED BY <1>1, Zenon DEF Gone, Knows, Quiet

\* What the next state is after Becomes.
LEMMA BecomesIs ==
  ASSUME NEW w \in World, Becomes(w)
  PROVE  world' = w
  BY DEF Becomes, World, world

LEMMA PollStep ==
  ASSUME SessionInv, NEW o \in Owners, Poll(o)
  PROVE  SessionInv'
<1>1. PICK w : w = world
  OBVIOUS
<1>2. Good(w, o) /\ Quiet(w.sess[o]) /\ w.sess = sess
  BY <1>1, SoundIs, ZenonT(30) DEF SessionInv, world
<1>3. w.sess[o].result = "running" /\ w.sess[o].left \in Nat
  <2>1. w.sess[o] \in SessionType
    BY <1>2, Parts DEF Good
  <2> QED BY <1>2, <2>1 DEF Poll, SessionType
<1>4. PICK n \in 0..w.sess[o].left, frame \in FrameKinds, size \in Nat, late \in BOOLEAN :
         Becomes(Settled(Polled(w, o, n, frame, size, late), o))
  <2>1. "none" \in FrameKinds /\ 0 \in Nat /\ 0 \in 0..w.sess[o].left
    BY <1>3 DEF FrameKinds
  <2>2. CASE Becomes(Settled(Polled(w, o, 0, "none", 0, TRUE), o))
    BY <2>1, <2>2, Zenon
  <2>3. ASSUME NEW n \in 0..sess[o].left, NEW frame \in Arrivals(o),
               NEW size \in IF frame = "serial" THEN 1..MaxData ELSE {0},
               Becomes(Settled(Polled(w, o, n, frame, size, FALSE), o))
        PROVE  \E m \in 0..w.sess[o].left, f \in FrameKinds, k \in Nat, late \in BOOLEAN :
                  Becomes(Settled(Polled(w, o, m, f, k, late), o))
    <3>1. frame \in FrameKinds
      BY <2>3, SessionAssumption DEF Arrivals, FrameKinds
    <3>2. size \in Nat
      BY <2>3, SessionAssumption
    <3>3. n \in 0..w.sess[o].left /\ FALSE \in BOOLEAN
      BY <1>2, <2>3
    <3> QED BY <2>3, <3>1, <3>2, <3>3, Zenon
  <2> QED BY <1>1, <2>2, <2>3, Zenon DEF Poll
<1>5. PICK u, v : u = Polled(w, o, n, frame, size, late) /\ v = Settled(u, o)
  BY Zenon
<1>6. Good(u, o) /\ Quiet(u.sess[o])
  BY <1>2, <1>3, <1>5, PolledGood, Zenon
<1>7. Good(v, o) /\ Quiet(v.sess[o])
  BY <1>5, <1>6, SettledGood, ZenonT(30)
<1>8. world' = v
  BY <1>4, <1>5, <1>7, BecomesIs DEF Good
<1> QED BY <1>7, <1>8, SoundIs DEF SessionInv

LEMMA SlotStep ==
  ASSUME SessionInv, NEW o \in Owners, Connect(o) \/ LoseLink(o) \/ Destroy(o)
  PROVE  SessionInv'
<1>1. PICK w, r : w = world /\ r = w.sess[o]
  OBVIOUS
<1>2. Good(w, o) /\ Quiet(r) /\ r = sess[o] /\ w \in World
  BY <1>1, SoundIs DEF SessionInv, world, Good
<1>3. r \in SessionType /\ Knows(w, o, r) /\ o # NoOwner
  BY <1>1, <1>2, Parts, SessionAssumption, ZenonT(30) DEF Good
<1> SUFFICES ASSUME NEW v, Good(v, o), Quiet(v.sess[o])
             PROVE  Becomes(v) => SessionInv'
  <2>1. CASE Connect(o)
    <3>1. w.channel.owner # o /\ ~StagedBy(w, o)
      BY <1>2, <1>3, <2>1, Zenon DEF Connect, Knows
    <3>2. Knows(w, o, NewSession) /\ Quiet(NewSession) /\ NewSession \in SessionType
      BY <3>1, GoneKnows, Constants, Zenon
    <3>3. PICK v : v = With(w, o, NewSession)
      BY ZenonT(30)
    <3>4. Good(v, o) /\ Quiet(v.sess[o])
      BY <1>2, <3>2, <3>3, GoodWith
    <3> QED BY <1>1, <2>1, <3>3, <3>4, Zenon DEF Connect
  <2>2. CASE LoseLink(o)
    <3>1. PICK s, v : s = [r EXCEPT !.link = FALSE] /\ v = With(w, o, s)
      BY Zenon
    <3>2. s \in SessionType
      BY <1>3, <3>1, Zenon DEF SessionType
    <3>3. /\ s.result = r.result /\ s.negotiated = r.negotiated /\ s.owned = r.owned
          /\ s.closing = r.closing /\ s.turn = r.turn /\ s.released = r.released
          /\ s.frame = r.frame /\ s.data = r.data /\ s.out = r.out
          /\ s.sending = r.sending /\ s.turned = r.turned /\ s.began = r.began
      BY <1>3, <3>1 DEF SessionType
    <3>4. Knows(w, o, s) /\ Quiet(s)
      BY <1>2, <1>3, <3>3, ZenonT(30) DEF Knows, Quiet
    <3>5. Good(v, o) /\ Quiet(v.sess[o])
      BY <1>2, <3>1, <3>2, <3>4, GoodWith
    <3> QED BY <1>1, <1>2, <2>2, <3>1, <3>5 DEF LoseLink
  <2>3. CASE Destroy(o)
    <3>1. PICK v : v = With(CloseSession(w, o), o, NoSession)
      BY ZenonT(30)
    <3>2. Good(v, o) /\ Quiet(v.sess[o])
      BY <1>2, <3>1, ClearedGood, Constants
    <3> QED BY <1>1, <2>3, <3>1, <3>2 DEF Destroy
  <2> QED BY <2>1, <2>2, <2>3
<1>4. HAVE Becomes(v)
<1>5. world' = v
  BY <1>4, BecomesIs DEF Good
<1> QED BY <1>5, SoundIs DEF SessionInv

\* The firmware reads and writes while the channel is owned.
LEMMA EndpointSound ==
  ASSUME NEW w, Sound(w), w.app.active, NEW a \in AppType,
         Of(a.rx, w.tenure), Of(a.tx, w.tenure), Len(a.rx) <= QueueBytes,
         NEW v, v = [w EXCEPT !.app = a]
  PROVE  v \in World /\ Sound(v)
<1>1. w \in World /\ Shared(w)
  BY DEF Sound
<1>2. v \in World
  BY <1>1, Zenon DEF World
<1>3. /\ v.sess = w.sess /\ v.channel = w.channel /\ v.upload = w.upload
      /\ v.tenure = w.tenure /\ v.app = a
  BY <1>1 DEF World
<1>4. w.channel.owner # NoOwner
  BY <1>1 DEF Shared, Inactive
<1>5. Shared(v)
  BY <1>1, <1>3, <1>4 DEF Shared
<1>6. \A p \in Owners : Knows(v, p, v.sess[p]) /\ Quiet(v.sess[p])
  <2> SUFFICES ASSUME NEW p \in Owners PROVE Knows(v, p, w.sess[p]) /\ Quiet(w.sess[p])
    BY <1>3, Zenon
  <2>1. Knows(w, p, w.sess[p]) /\ Quiet(w.sess[p])
    BY DEF Sound
  <2>2. StagedBy(v, p) <=> StagedBy(w, p)
    BY <1>3 DEF StagedBy
  <2> QED BY <1>3, <2>1, <2>2, Zenon DEF Knows
<1> QED BY <1>2, <1>5, <1>6 DEF Sound

LEMMA ReadStep ==
  ASSUME SessionInv, AppRead
  PROVE  SessionInv'
<1>1. PICK w, q, a : w = world /\ q = w.app.rx /\ a = [w.app EXCEPT !.rx = Tail(q)]
  BY Zenon
<1>2. Sound(w) /\ w \in World /\ w.app = app
  BY <1>1 DEF SessionInv, Sound, world
<1>3. /\ w.app \in AppType /\ q \in Seq(Nat) /\ q # <<>> /\ Of(q, w.tenure)
      /\ Len(q) <= QueueBytes /\ QueueBytes \in Nat /\ w.app.active
  BY <1>1, <1>2, SessionAssumption DEF World, AppType, AppRead, Sound, Shared
<1>4. Tail(q) \in Seq(Nat) /\ Of(Tail(q), w.tenure) /\ Len(Tail(q)) <= QueueBytes
  BY <1>3 DEF Of
<1>5. a \in AppType
  BY <1>1, <1>3, <1>4, Zenon DEF AppType
<1>6. a.rx = Tail(q) /\ a.tx = w.app.tx
  BY <1>1, <1>3 DEF AppType
<1>7. Of(a.tx, w.tenure)
  BY <1>2, <1>6 DEF Sound, Shared
<1>8. PICK v : v = [w EXCEPT !.app = a]
  BY Zenon
<1>9. v \in World /\ Sound(v)
  BY <1>2, <1>3, <1>4, <1>5, <1>6, <1>7, <1>8, EndpointSound, Zenon
<1>10. [w EXCEPT !.app.rx = Tail(@)] = v
  BY <1>1, <1>8
<1>11. Becomes(v)
  BY <1>1, <1>10, Zenon DEF AppRead
<1>12. world' = v
  BY <1>9, <1>11, BecomesIs
<1> QED BY <1>9, <1>12 DEF SessionInv

LEMMA WriteStep ==
  ASSUME SessionInv, AppWrite
  PROVE  SessionInv'
<1>1. PICK w, q, a : w = world /\ q = w.app.tx /\ a = [w.app EXCEPT !.tx = Append(q, w.tenure)]
  BY Zenon
<1>2. Sound(w) /\ w \in World /\ w.app = app /\ w.tenure = tenure
  BY <1>1 DEF SessionInv, Sound, world
<1>3. /\ w.app \in AppType /\ q \in Seq(Nat) /\ Of(q, w.tenure) /\ w.app.active
      /\ w.tenure \in Nat
  BY <1>1, <1>2 DEF World, AppType, AppWrite, Sound, Shared
<1>4. Append(q, w.tenure) \in Seq(Nat) /\ Of(Append(q, w.tenure), w.tenure)
  BY <1>3 DEF Of
<1>5. a \in AppType
  BY <1>1, <1>3, <1>4, Zenon DEF AppType
<1>6. a.tx = Append(q, w.tenure) /\ a.rx = w.app.rx
  BY <1>1, <1>3 DEF AppType
<1>7. Of(a.rx, w.tenure) /\ Len(a.rx) <= QueueBytes
  BY <1>2, <1>6 DEF Sound, Shared
<1>8. PICK v : v = [w EXCEPT !.app = a]
  BY Zenon
<1>9. v \in World /\ Sound(v)
  BY <1>2, <1>3, <1>4, <1>5, <1>6, <1>7, <1>8, EndpointSound, Zenon
<1>10. [w EXCEPT !.app.tx = Append(@, tenure)] = v
  BY <1>1, <1>2, <1>8, Zenon
<1>11. Becomes(v)
  BY <1>1, <1>10, ZenonT(30) DEF AppWrite
<1>12. world' = v
  BY <1>9, <1>11, BecomesIs
<1> QED BY <1>9, <1>12 DEF SessionInv

LEMMA CommitStep ==
  ASSUME SessionInv, CommitEnds
  PROVE  SessionInv'
<1>1. PICK w, v : w = world /\ v = WithUpload(w, NoUpload)
  OBVIOUS
<1>2. w \in World /\ Shared(w) /\ Sound(w)
  BY <1>1 DEF SessionInv, Sound
<1>3. /\ v \in World /\ v.sess = w.sess /\ v.channel = w.channel /\ v.app = w.app
      /\ v.upload = NoUpload /\ v.tenure = w.tenure
  BY <1>1, <1>2, WithUploadIs, Constants
<1>4. Shared(v) /\ \A p \in Owners : ~StagedBy(v, p)
  BY <1>2, <1>3 DEF Shared, StagedBy, NoUpload
<1>5. \A p \in Owners : Knows(v, p, v.sess[p]) /\ Quiet(v.sess[p])
  <2> SUFFICES ASSUME NEW p \in Owners PROVE Knows(v, p, w.sess[p]) /\ Quiet(w.sess[p])
    BY <1>3, Zenon
  <2>1. Knows(w, p, w.sess[p]) /\ Quiet(w.sess[p]) /\ ~StagedBy(v, p)
    BY <1>2, <1>4 DEF Sound
  <2> QED BY <1>3, <2>1, Zenon DEF Knows
<1>6. Becomes(v)
  BY <1>1 DEF CommitEnds, WithUpload
<1>7. world' = v
  BY <1>3, <1>6, BecomesIs
<1> QED BY <1>3, <1>4, <1>5, <1>7 DEF SessionInv, Sound

\* No session, a free channel and no upload agree.
LEMMA InitSound == SessionInit => SessionInv
<1> SUFFICES ASSUME SessionInit PROVE SessionInv
  OBVIOUS
<1>1. PICK w : w = world
  OBVIOUS
<1>2. /\ w.sess = [o \in Owners |-> NoSession] /\ w.channel = FreeChannel
      /\ w.app = Inactive /\ w.upload = NoUpload /\ w.tenure = 0
  BY <1>1 DEF SessionInit, world
<1>3. w \in World
  BY <1>1, Constants DEF SessionInit, world, World
<1>4. /\ Shared(w)
      /\ \A p \in Owners : w.channel.owner # p /\ ~StagedBy(w, p) /\ w.sess[p] = NoSession
  <2>1. /\ w.channel.owner = NoOwner
        /\ w.channel.toBackend = <<>> /\ w.channel.toPeer = <<>>
    BY <1>2 DEF FreeChannel
  <2>2. w.app.rx = <<>> /\ w.app.tx = <<>>
    BY <1>2 DEF Inactive
  <2>3. w.upload.owner = NoOwner
    BY <1>2 DEF NoUpload
  <2>4. Of(<<>>, w.tenure) /\ Len(<<>>) <= QueueBytes
    BY SessionAssumption DEF Of
  <2>5. Shared(w)
    BY <1>2, <2>1, <2>2, <2>4 DEF Shared
  <2>6. \A p \in Owners : w.channel.owner # p /\ ~StagedBy(w, p)
    BY <2>1, <2>3, SessionAssumption DEF StagedBy
  <2> QED BY <1>2, <2>5, <2>6, Zenon
<1>5. \A p \in Owners : Knows(w, p, w.sess[p]) /\ Quiet(w.sess[p])
  BY <1>4, GoneKnows, Constants, Zenon
<1> QED BY <1>1, <1>3, <1>4, <1>5 DEF SessionInv, Sound

-----------------------------------------------------------------------------
(* The theorems *)

\* The sessions, the channel, the endpoint and the upload service always agree:
\* who owns what, and whose bytes are where (Session, Channel, UploadService and
\* TcpSessionServer together).
THEOREM SessionsAgree == SessionSpec => []SessionInv
<1>1. SessionInv /\ [SessionNext]_sessionVars => SessionInv'
  <2> SUFFICES ASSUME SessionInv, [SessionNext]_sessionVars PROVE SessionInv'
    OBVIOUS
  <2>1. CASE SessionNext
    BY <2>1, PollStep, SlotStep, ReadStep, WriteStep, CommitStep DEF SessionNext
  <2>2. CASE UNCHANGED sessionVars
    BY <2>2 DEF sessionVars, SessionInv, world
  <2> QED BY <2>1, <2>2
<1> QED BY <1>1, InitSound, PTL DEF SessionSpec

\* serial.open and the upload requests refuse each other: no session owns the
\* console while an upload is under way.
THEOREM ConsoleExcluded == SessionSpec => []UploadExcludesConsole
<1>1. SessionInv => UploadExcludesConsole
  BY Zenon DEF SessionInv, Sound, Shared, world, UploadExcludesConsole
<1> QED BY <1>1, SessionsAgree, PTL

\* The channel's owner is a live session that knows it, and a staged upload
\* belongs to the very session that began it, whatever closes a session.
THEOREM OwnershipKnown == SessionSpec => []OwnerKnows
<1>1. SessionInv => OwnerKnows
  <2> SUFFICES ASSUME SessionInv PROVE OwnerKnows
    OBVIOUS
  <2>1. \A p \in Owners : Knows(world, p, sess[p])
    BY ZenonT(30) DEF SessionInv, Sound, world
  <2>2. \A o \in Owners : channel.owner = o <=> sess[o].owned /\ sess[o].result = "running"
    BY <2>1, Zenon DEF Knows, world
  <2>3. ASSUME upload.state \in {"accepted", "verified"}
        PROVE  sess[upload.owner].result = "running" /\ sess[upload.owner].began
    <3>1. upload.owner \in Owners
      BY <2>3 DEF SessionInv, Sound, World, UploadType, world
    <3>2. StagedBy(world, upload.owner)
      BY <2>3, ZenonT(30) DEF StagedBy, world
    <3> QED BY <2>1, <3>1, <3>2, SMTT(30) DEF Knows
  <2> QED BY <2>2, <2>3 DEF OwnerKnows
<1> QED BY <1>1, SessionsAgree, PTL

\* Every byte between a host and the firmware was produced under the present
\* opening of the channel, and only the owner sends data frames: release and
\* acquire leave nothing of the last opening behind.
THEOREM BytesAreOwn == SessionSpec => []NoForeignBytes
<1>1. SessionInv => NoForeignBytes
  <2> SUFFICES ASSUME SessionInv PROVE NoForeignBytes
    OBVIOUS
  <2>1. PICK w : w = world
    OBVIOUS
  <2>2. w \in World /\ Shared(w) /\ \A p \in Owners : Knows(w, p, w.sess[p])
    BY <2>1 DEF SessionInv, Sound
  <2>3. /\ w.sess = sess /\ w.channel = channel /\ w.app = app /\ w.tenure = tenure
    BY <2>1 DEF world
  <2>4. \A q \in Seq(Nat) : Of(q, tenure) => RangeOf(q) \subseteq {tenure}
    BY DEF Of, RangeOf
  <2>5. /\ channel.toBackend \in Seq(Nat) /\ channel.toPeer \in Seq(Nat)
        /\ app.rx \in Seq(Nat) /\ app.tx \in Seq(Nat)
    BY <2>2, <2>3 DEF World, ChannelType, AppType
  <2>6. RangeOf(<<>>) = {}
    BY DEF RangeOf
  <2>7. RangeOf(channel.toBackend) \cup RangeOf(channel.toPeer)
          \cup RangeOf(app.rx) \cup RangeOf(app.tx)
          \subseteq IF channel.owner = NoOwner THEN {} ELSE {tenure}
    <3>1. CASE channel.owner = NoOwner
      BY <2>2, <2>3, <2>6, <3>1, SMTT(30) DEF Shared, FreeChannel, Inactive
    <3>2. CASE channel.owner # NoOwner
      <4>1. /\ Of(channel.toBackend, tenure) /\ Of(channel.toPeer, tenure)
            /\ Of(app.rx, tenure) /\ Of(app.tx, tenure)
        BY <2>2, <2>3 DEF Shared
      <4>2. /\ RangeOf(channel.toBackend) \subseteq {tenure}
            /\ RangeOf(channel.toPeer) \subseteq {tenure}
            /\ RangeOf(app.rx) \subseteq {tenure} /\ RangeOf(app.tx) \subseteq {tenure}
        BY <2>4, <2>5, <4>1
      <4> QED BY <3>2, <4>2, Zenon
    <3> QED BY <3>1, <3>2, Zenon
  <2>8. ASSUME NEW o \in Owners, sess[o].out = "data"
        PROVE  channel.owner = o /\ RangeOf(sess[o].sending) = {tenure}
    <3>1. PICK q : q = sess[o].sending
      BY ZenonT(30)
    <3>2. q \in Seq(Nat) /\ q # <<>> /\ Of(q, tenure) /\ channel.owner = o
      <4>1. sess[o] \in SessionType
        BY <2>2, <2>3, Parts
      <4> QED BY <2>2, <2>3, <2>8, <3>1, <4>1 DEF Knows, SessionType
    <3>3. RangeOf(q) \subseteq {tenure}
      BY <2>4, <3>2
    <3>4. 1 \in DOMAIN q
      BY <3>2, SMTT(30)
    <3>5. q[1] \in RangeOf(q)
      BY <3>4, Zenon DEF RangeOf
    <3> QED BY <3>1, <3>2, <3>3, <3>5
  <2> QED BY <2>7, <2>8 DEF NoForeignBytes
<1> QED BY <1>1, SessionsAgree, PTL

\* While backend data waits for the output buffer at most one answer to a request
\* comes before it: dispatch gives the turn to the data, and the next poll takes it.
THEOREM DataGetsItsTurn == SessionSpec => []TurnsAlternate
<1>1. SessionInv => TurnsAlternate
  <2> SUFFICES ASSUME SessionInv, NEW o \in Owners PROVE sess[o].turned <= 1
    BY Zenon DEF TurnsAlternate
  <2>1. Knows(world, o, sess[o])
    BY DEF SessionInv, Sound, world
  <2> QED BY <2>1, SMTT(30) DEF Knows
<1> QED BY <1>1, SessionsAgree, PTL
=============================================================================
