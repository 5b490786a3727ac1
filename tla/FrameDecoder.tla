---------------------------- MODULE FrameDecoder ----------------------------
(***************************************************************************)
(* FMGO framing: protocol::Decoder as Session::poll drives it.  The peer   *)
(* sends an arbitrary stream of bytes, TCP delivers it in arbitrary        *)
(* pieces, and frames are found only by the lengths in their own headers,  *)
(* so one byte too many or too few would turn payload into headers for the *)
(* rest of the session.                                                    *)
(*                                                                         *)
(* start is history: where in the stream the present frame begins.  What   *)
(* the header's bytes mean is the constant Fields; what a payload says is  *)
(* chosen when it is dispatched.  A poll that completes a frame and        *)
(* dispatches it is two steps here, as it is in the code when the output   *)
(* buffer is full.                                                         *)
(***************************************************************************)
EXTENDS Integers, Sequences

CONSTANTS Byte,
          Zero,        \* the byte 0
          Header,      \* header_size
          Prefix,      \* the channel number that starts a serial payload
          MaxPayload,  \* max_payload
          Chunk,       \* bytes[256] of Session::poll
          MinOffer,    \* min_offer
          MaxOffer,    \* 65536
          Fields,      \* a header's bytes -> its kind and its payload's size
          Streams      \* what the peer may send

Kinds == {"malformed", "version", "request", "serial", "upload", "other"}

ASSUME FrameAssumption ==
    /\ Zero \in Byte /\ Header \in Nat \ {0} /\ Prefix \in Nat /\ Chunk \in Nat \ {0}
    /\ MaxPayload \in Nat /\ MinOffer \in Nat /\ MinOffer <= MaxPayload
    /\ MaxOffer \in Nat /\ Streams \subseteq Seq(Byte)

ASSUME FieldsAssumption ==
    Fields \in [[1 .. Header -> Byte] -> [kind : Kinds, size : Nat]]

VARIABLES stream,     \* the peer's bytes
          pos,        \* how many of them the session has taken
          start,      \* where the frame in the decoder begins
          bytes,      \* bytes_, old contents included
          used,       \* used_
          state,      \* state_
          limit,      \* limit_
          negotiated, \* negotiated_
          owned,      \* owned_
          offset,     \* data_offset_
          fed,        \* history: the last serial byte handed to the channel
          result      \* result_ and closing_

decoder == <<bytes, used, state>>
vars == <<stream, pos, start, bytes, used, state, limit, negotiated, owned, offset, fed, result>>

Lower(a, b) == IF a < b THEN a ELSE b
Room == Header + MaxPayload

Init ==
    /\ stream \in Streams /\ pos = 0 /\ start = 0
    /\ bytes = [i \in 1 .. Room |-> Zero]
    /\ used = 0 /\ state = "incomplete" /\ limit = MaxPayload
    /\ negotiated = FALSE /\ owned = FALSE
    /\ offset = 0 /\ fed = 0 /\ result = "running"

-----------------------------------------------------------------------------
(* Decoder *)

FieldsOf(b) == Fields[[i \in 1 .. Header |-> b[i]]]

NeededWhole ==
    IF used < Header THEN Header ELSE Header + FieldsOf(bytes).size - used
Needed ==
    IF used < Header THEN Header - used ELSE Header + FieldsOf(bytes).size - used

(* The tests of feed, in their order; valid_fields is part of malformed.   *)
Verdict(b, u) ==
    LET f == FieldsOf(b)
    IN  IF u < Header THEN "incomplete"
        ELSE IF f.kind = "malformed" THEN "malformed"
        ELSE IF f.kind = "version" THEN "unsupported_version"
        ELSE IF f.size > limit THEN "oversized"
        ELSE IF u = Header + f.size THEN "ready" ELSE "incomplete"

(* memcpy(bytes_ + used_, bytes, n)                                        *)
Copied(n) == [i \in 1 .. Room |-> IF i > used /\ i <= used + n
                                  THEN stream[pos + i - used] ELSE bytes[i]]

Reset ==
    /\ used' = 0 /\ state' = "incomplete" /\ UNCHANGED bytes
    /\ start' = pos

Finish(r) ==
    /\ result' = r /\ owned' = FALSE /\ offset' = 0
    /\ used' = 0 /\ state' = "incomplete"

-----------------------------------------------------------------------------
(* Session::poll *)

(* The transport has n bytes for a read of at most Needed and Chunk.       *)
Feed(n) ==
    /\ result = "running" /\ state = "incomplete"
    /\ n <= Needed /\ n <= Chunk /\ pos + n <= Len(stream)
    /\ bytes' = Copied(n) /\ pos' = pos + n
    /\ LET verdict == Verdict(Copied(n), used + n)
       IN  \/ /\ verdict \in {"incomplete", "ready"}
              /\ used' = used + n /\ state' = verdict
              /\ UNCHANGED <<owned, offset, result>>
           \/ /\ verdict \notin {"incomplete", "ready"}
              /\ Finish("protocol_error")
    /\ UNCHANGED <<stream, start, limit, negotiated, fed>>

Ready(kind) ==
    result = "running" /\ state = "ready" /\ FieldsOf(bytes).kind = kind

Refuse ==
    /\ Finish("protocol_error")
    /\ UNCHANGED <<stream, pos, start, bytes, limit, negotiated, fed>>

(* A serial frame without an owner, data or the right channel number.      *)
SerialRefused(right) ==
    /\ Ready("serial")
    /\ ~negotiated \/ ~owned \/ FieldsOf(bytes).size <= Prefix \/ ~right
    /\ Refuse

(* Session::read: the channel takes n bytes, several times if it must.     *)
Read(n) ==
    /\ Ready("serial") /\ negotiated /\ owned
    /\ n <= FieldsOf(bytes).size - Prefix - offset
    /\ fed' = start + Header + Prefix + offset + n
    /\ IF offset + n = FieldsOf(bytes).size - Prefix
       THEN offset' = 0 /\ Reset
       ELSE offset' = offset + n /\ UNCHANGED <<decoder, start>>
    /\ UNCHANGED <<stream, pos, limit, negotiated, owned, result>>

Refused == (Ready("other")) /\ Refuse

(* A chunk, or a request whose answer leaves the framing alone; it may     *)
(* acquire or release the channel once there was a hello.                  *)
Answer(owns) ==
    /\ Ready("upload") \/ Ready("request")
    /\ owns # owned => negotiated /\ Ready("request")
    /\ owned' = owns /\ Reset
    /\ UNCHANGED <<stream, pos, limit, negotiated, offset, fed, result>>

(* A payload that is no JSON: an error is sent and nothing more is read.   *)
Invalid ==
    /\ Ready("request")
    /\ result' = "closing" /\ owned' = FALSE /\ Reset
    /\ UNCHANGED <<stream, pos, limit, negotiated, offset, fed>>

(* hello: the decoder is reset first (used'), because negotiate refuses    *)
(* inside a frame; request() has checked the offer.                        *)
Negotiable(offer) == used' = 0 /\ offer >= MinOffer /\ offer <= MaxOffer
Negotiate(offer) == limit' = Lower(MaxPayload, offer)

Hello(offer) ==
    /\ Ready("request") /\ ~negotiated
    /\ offer >= MinOffer /\ offer <= MaxOffer
    /\ Reset
    /\ IF Negotiable(offer)
       THEN Negotiate(offer) /\ negotiated' = TRUE /\ UNCHANGED <<owned, offset, result>>
       ELSE /\ result' = "io_error" /\ owned' = FALSE /\ offset' = 0
            /\ UNCHANGED <<limit, negotiated>>
    /\ UNCHANGED <<stream, pos, fed>>

(* A deadline passes or the peer disconnects.                              *)
End ==
    /\ result = "running"
    /\ Finish("ended")
    /\ UNCHANGED <<stream, pos, start, bytes, limit, negotiated, fed>>

FeedStep == \E n \in 1 .. Room : Feed(n)
ReadStep == \E n \in 1 .. MaxPayload : Read(n)
DispatchStep ==
    \/ \E right \in BOOLEAN : SerialRefused(right)
    \/ Refused
    \/ \E owns \in BOOLEAN : Answer(owns)
    \/ Invalid
    \/ \E offer \in MinOffer .. MaxOffer : Hello(offer)

Next == FeedStep \/ ReadStep \/ DispatchStep \/ End

Spec == Init /\ [][Next]_vars

-----------------------------------------------------------------------------
(* Properties *)

(* Every variable has its type, and a frame is either complete or not.     *)
TypeOK ==
    /\ stream \in Seq(Byte) /\ pos \in 0 .. Len(stream) /\ start \in Nat
    /\ bytes \in [1 .. Room -> Byte] /\ used \in Nat
    /\ state \in {"incomplete", "ready"} /\ limit \in Nat
    /\ negotiated \in BOOLEAN /\ owned \in BOOLEAN /\ offset \in Nat /\ fed \in Nat
    /\ result \in {"running", "closing", "protocol_error", "io_error", "ended"}

(* What the stream itself says of the frame that begins at start.          *)
Frame == Fields[[i \in 1 .. Header |-> stream[start + i]]]

(* The decoder holds exactly the bytes of the stream from the present      *)
(* frame's beginning on: a complete header's frame is ready when, and only *)
(* when, all of it and nothing of the next frame has been taken, and an    *)
(* incomplete one still asks for bytes (feed and needed), so that poll     *)
(* neither runs into the next frame nor stops reading.                     *)
InStep ==
    result = "running" =>
        /\ used = pos - start
        /\ \A i \in 1 .. used : bytes[i] = stream[start + i]
        /\ state = "incomplete" => used < Header \/ used < Header + Frame.size
        /\ state = "ready" =>
              /\ used >= Header /\ used = Header + Frame.size
              /\ Frame.kind \notin {"malformed", "version"}

(* used_ never passes the end of bytes_, whatever length a header claims   *)
(* and whatever limit was negotiated.                                      *)
BufferFits == used <= Room /\ limit <= MaxPayload

(* A frame is given up only as a whole: the next one begins exactly where  *)
(* the lengths in the stream put it.                                       *)
FramesAreWhole ==
    [][start' # start => start' = start + Header + Frame.size]_vars

(* The data of a serial frame reaches the channel once, in order and       *)
(* completely before the frame is given up, although read() takes it in    *)
(* pieces of any size.                                                     *)
DataInOrder ==
    result = "running" =>
        IF offset = 0 THEN fed <= start
        ELSE /\ state = "ready" /\ Frame.kind = "serial"
             /\ fed = start + Header + Prefix + offset
             /\ offset < Frame.size - Prefix

(* negotiate never refuses what request() let through.                     *)
HelloAgrees == result # "io_error"

=============================================================================
