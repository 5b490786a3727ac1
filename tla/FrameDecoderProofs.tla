------------------------- MODULE FrameDecoderProofs -------------------------
(***************************************************************************)
(* Framing stays in step for every stream, every fragmentation and every   *)
(* size of header, payload and read.                                       *)
(***************************************************************************)
EXTENDS FrameDecoder, TLAPS

\* A frame whose header is complete has passed the length check.
Admitted == result = "running" /\ used >= Header => Frame.size <= limit

Inv == TypeOK /\ InStep /\ BufferFits /\ DataInOrder /\ HelloAgrees /\ Admitted

\* The fields of any buffer are a kind and a size.
LEMMA FieldsTyped ==
  ASSUME NEW b \in [1 .. Room -> Byte]
  PROVE  /\ FieldsOf(b).kind \in Kinds
         /\ FieldsOf(b).size \in Nat
<1> USE FrameAssumption DEF FrameAssumption
<1>1. [i \in 1 .. Header |-> b[i]] \in [1 .. Header -> Byte]
  BY DEF Room
<1>2. FieldsOf(b) \in [kind : Kinds, size : Nat]
  BY <1>1, FieldsAssumption DEF FieldsOf, FieldsAssumption
<1> QED BY <1>2

\* Once the header is complete, the decoder reads the fields that the stream has.
LEMMA FieldsAgree ==
  ASSUME Inv, result = "running", used >= Header
  PROVE  /\ FieldsOf(bytes) = Frame
         /\ Frame.kind \in Kinds /\ Frame.size \in Nat
<1> USE FrameAssumption DEF FrameAssumption
<1>1. \A i \in 1 .. Header : bytes[i] = stream[start + i]
  BY DEF Inv, InStep, TypeOK
<1>2. [i \in 1 .. Header |-> bytes[i]] = [i \in 1 .. Header |-> stream[start + i]]
  BY <1>1
<1>3. FieldsOf(bytes) = Frame
  BY <1>2 DEF FieldsOf, Frame
<1> QED BY <1>3, FieldsTyped DEF Inv, TypeOK

\* A copy keeps what is there and appends the stream's next bytes.
LEMMA CopyAppends ==
  ASSUME Inv, result = "running", NEW n \in Nat, pos + n <= Len(stream), used + n <= Room
  PROVE  /\ Copied(n) \in [1 .. Room -> Byte]
         /\ \A i \in 1 .. used + n : Copied(n)[i] = stream[start + i]
<1> USE FrameAssumption DEF FrameAssumption
<1>1. /\ stream \in Seq(Byte) /\ pos \in Nat /\ start \in Nat /\ used \in Nat
      /\ bytes \in [1 .. Room -> Byte] /\ used = pos - start
      /\ \A i \in 1 .. used : bytes[i] = stream[start + i]
      /\ Room \in Nat
  BY DEF Inv, TypeOK, InStep, Room
<1>2. ASSUME NEW i \in 1 .. Room
      PROVE  (IF i > used /\ i <= used + n THEN stream[pos + i - used] ELSE bytes[i]) \in Byte
  <2>1. CASE i > used /\ i <= used + n
    <3>1. pos + i - used \in 1 .. Len(stream)
      BY <1>1, <2>1
    <3> QED BY <1>1, <2>1, <3>1
  <2>2. CASE ~(i > used /\ i <= used + n)
    BY <1>1, <2>2
  <2> QED BY <2>1, <2>2
<1>3. Copied(n) \in [1 .. Room -> Byte]
  BY <1>2 DEF Copied
<1>4. ASSUME NEW i \in 1 .. used + n PROVE Copied(n)[i] = stream[start + i]
  <2>1. i \in 1 .. Room
    BY <1>1
  <2>2. CASE i > used
    <3>1. pos + i - used = start + i
      BY <1>1, <2>1
    <3> QED BY <1>1, <2>1, <2>2, <3>1 DEF Copied
  <2>3. CASE ~(i > used)
    <3>1. i \in 1 .. used
      BY <1>1, <2>1, <2>3
    <3> QED BY <1>1, <2>1, <2>3, <3>1 DEF Copied
  <2> QED BY <2>2, <2>3
<1> QED BY <1>3, <1>4

\* What poll reads never passes the end of the buffer.
LEMMA NeededFits ==
  ASSUME Inv, result = "running", state = "incomplete", NEW n \in Nat, n <= Needed
  PROVE  used + n <= Room
<1> USE FrameAssumption DEF FrameAssumption
<1>1. CASE used < Header
  BY <1>1 DEF Needed, Inv, TypeOK, Room
<1>2. CASE ~(used < Header)
  <2>1. used >= Header /\ used \in Nat /\ limit \in Nat /\ limit <= MaxPayload
    BY <1>2 DEF Inv, TypeOK, BufferFits
  <2>2. FieldsOf(bytes) = Frame /\ Frame.size \in Nat
    BY <2>1, FieldsAgree
  <2>3. Frame.size <= limit
    BY <2>1 DEF Inv, Admitted
  <2> QED BY <1>2, <2>1, <2>2, <2>3 DEF Needed, Room
<1> QED BY <1>1, <1>2

\* The initial state: nothing has been taken.
LEMMA InitInv == Init => Inv
<1> USE FrameAssumption DEF FrameAssumption
<1> SUFFICES ASSUME Init PROVE Inv
  OBVIOUS
<1>1. TypeOK
  <2>1. stream \in Seq(Byte) /\ pos \in 0 .. Len(stream)
    <3>1. stream \in Seq(Byte)
      BY DEF Init
    <3> QED BY <3>1 DEF Init
  <2>2. bytes \in [1 .. Room -> Byte]
    BY DEF Init
  <2>3. /\ start \in Nat /\ used \in Nat /\ limit \in Nat /\ offset \in Nat /\ fed \in Nat
        /\ negotiated \in BOOLEAN /\ owned \in BOOLEAN
        /\ state = "incomplete" /\ result = "running"
    BY Zenon DEF Init
  <2> QED BY <2>1, <2>2, <2>3 DEF TypeOK
<1>2. InStep /\ BufferFits /\ DataInOrder /\ HelloAgrees /\ Admitted
  BY <1>1 DEF Init, TypeOK, InStep, BufferFits, DataInOrder, HelloAgrees, Admitted, Room
<1> QED BY <1>1, <1>2 DEF Inv

\* feed: the bytes that arrive continue the frame, or end the session.
LEMMA FeedInv == ASSUME Inv, NEW n \in Nat, n > 0, Feed(n) PROVE Inv'
<1> USE FrameAssumption DEF FrameAssumption
<1> DEFINE b == Copied(n)
           u == used + n
           verdict == Verdict(b, u)
<1>1. /\ result = "running" /\ state = "incomplete" /\ n <= Needed /\ pos + n <= Len(stream)
      /\ bytes' = b /\ pos' = pos + n
      /\ stream' = stream /\ start' = start /\ limit' = limit
      /\ negotiated' = negotiated /\ fed' = fed
  BY DEF Feed
<1>2. u <= Room
  BY <1>1, NeededFits
<1>3. /\ b \in [1 .. Room -> Byte]
      /\ \A i \in 1 .. u : b[i] = stream[start + i]
  BY <1>1, <1>2, CopyAppends
<1>4. /\ used \in Nat /\ u \in Nat /\ pos \in Nat /\ pos' \in 0 .. Len(stream)
      /\ start \in Nat /\ limit \in Nat /\ limit <= MaxPayload /\ used = pos - start
      /\ stream \in Seq(Byte)
  BY <1>1 DEF Inv, TypeOK, InStep, BufferFits
<1>5. u >= Header => FieldsOf(b) = Frame
  <2> SUFFICES ASSUME u >= Header PROVE FieldsOf(b) = Frame
    OBVIOUS
  <2>1. \A i \in 1 .. Header : b[i] = stream[start + i]
    BY <1>3, <1>4
  <2>2. [i \in 1 .. Header |-> b[i]] = [i \in 1 .. Header |-> stream[start + i]]
    BY <2>1
  <2> QED BY <2>2 DEF FieldsOf, Frame
<1>6. FieldsOf(b).kind \in Kinds /\ FieldsOf(b).size \in Nat
  BY <1>3, FieldsTyped
<1>7. Frame' = Frame
  BY <1>1 DEF Frame
<1> HIDE DEF b, u
<1>8. CASE verdict \in {"incomplete", "ready"}
  <2>1. used' = u /\ state' = verdict /\ owned' = owned /\ offset' = offset /\ result' = result
    BY <1>8 DEF Feed, u, b, Finish
  <2>2. TypeOK'
    BY <1>1, <1>3, <1>4, <1>8, <2>1 DEF Inv, TypeOK
  <2>3. u < Header + Frame.size \/ u < Header \/ u = Header + Frame.size
    <3>1. CASE used < Header
      <4>1. u <= Header
        BY <1>1, <1>4, <3>1 DEF Needed, u
      <4> QED BY <1>4, <1>5, <1>6, <4>1
    <3>2. CASE ~(used < Header)
      <4>1. FieldsOf(bytes) = Frame /\ Frame.size \in Nat
        BY <1>1, <1>4, <3>2, FieldsAgree
      <4>2. u <= Header + Frame.size
        BY <1>1, <1>4, <3>2, <4>1 DEF Needed, u
      <4> QED BY <1>4, <4>1, <4>2
    <3> QED BY <3>1, <3>2
  <2>4. verdict = "incomplete" => u < Header \/ u < Header + Frame.size
    BY <1>4, <1>5, <1>6, <2>3 DEF Verdict
  <2>5. verdict = "ready" => /\ u >= Header /\ u = Header + Frame.size
                             /\ Frame.kind \notin {"malformed", "version"}
    BY <1>4, <1>5, <1>6 DEF Verdict
  <2>6. u >= Header => Frame.size <= limit
    BY <1>4, <1>5, <1>6, <1>8 DEF Verdict
  <2>7. u = pos' - start
    BY <1>1, <1>4 DEF u
  <2>8. InStep'
    BY <1>1, <1>3, <1>7, <2>1, <2>4, <2>5, <2>7 DEF InStep
  <2>9. BufferFits' /\ HelloAgrees'
    BY <1>1, <1>2, <1>4, <2>1 DEF BufferFits, HelloAgrees, Inv, Room
  <2>10. offset = 0
    BY <1>1 DEF Inv, DataInOrder
  <2>11. DataInOrder'
    BY <1>1, <2>1, <2>10 DEF Inv, DataInOrder
  <2>12. Admitted'
    BY <1>1, <1>7, <2>1, <2>6 DEF Admitted
  <2> QED BY <2>2, <2>8, <2>9, <2>11, <2>12 DEF Inv
<1>9. CASE verdict \notin {"incomplete", "ready"}
  <2>1. Finish("protocol_error")
    BY <1>9 DEF Feed, u, b
  <2>2. TypeOK'
    BY <1>1, <1>3, <1>4, <2>1, Zenon DEF Inv, TypeOK, Finish
  <2>3. InStep' /\ DataInOrder' /\ HelloAgrees' /\ Admitted'
    BY <2>1 DEF Finish, InStep, DataInOrder, HelloAgrees, Admitted
  <2>4. BufferFits'
    BY <1>1, <1>4, <2>1 DEF Finish, BufferFits, Room
  <2> QED BY <2>2, <2>3, <2>4 DEF Inv
<1> QED BY <1>8, <1>9

\* A session that ends for any reason leaves an empty decoder.
LEMMA FinishInv ==
  ASSUME Inv, NEW r \in {"protocol_error", "ended"}, Finish(r),
         UNCHANGED <<stream, pos, start, bytes, limit, negotiated, fed>>
  PROVE  Inv'
<1> USE FrameAssumption DEF FrameAssumption
<1>1. TypeOK'
  BY Zenon DEF Inv, TypeOK, Finish, Room
<1>2. InStep' /\ DataInOrder' /\ HelloAgrees' /\ Admitted'
  BY DEF Finish, InStep, DataInOrder, HelloAgrees, Admitted
<1>3. BufferFits'
  BY DEF Inv, TypeOK, Finish, BufferFits, Room
<1> QED BY <1>1, <1>2, <1>3 DEF Inv

\* After a reset the next frame begins where the last one ended, with nothing taken.
LEMMA ResetInv ==
  ASSUME Inv, result = "running", Reset, UNCHANGED <<stream, pos>>,
         limit' \in Nat, limit' <= MaxPayload,
         negotiated' \in BOOLEAN, owned' \in BOOLEAN,
         result' \in {"running", "closing"},
         offset' = 0, fed' \in Nat, fed' <= pos
  PROVE  Inv'
<1> USE FrameAssumption DEF FrameAssumption
<1>1. TypeOK'
  BY DEF Inv, TypeOK, Reset
<1>2. InStep' /\ HelloAgrees' /\ Admitted'
  BY <1>1 DEF Reset, TypeOK, InStep, HelloAgrees, Admitted
<1>3. DataInOrder'
  BY DEF Reset, DataInOrder
<1>4. BufferFits'
  BY DEF Reset, BufferFits, Room
<1> QED BY <1>1, <1>2, <1>3, <1>4 DEF Inv

\* A ready frame is the whole frame and its payload fits.
LEMMA ReadyFrame ==
  ASSUME Inv, result = "running", state = "ready"
  PROVE  /\ FieldsOf(bytes) = Frame /\ Frame.size \in Nat
         /\ pos = start + Header + Frame.size
         /\ start \in Nat /\ pos \in Nat /\ offset \in Nat /\ fed \in Nat
         /\ offset = 0 => fed <= start
<1> USE FrameAssumption DEF FrameAssumption
<1>1. /\ used >= Header /\ used = Header + Frame.size /\ used = pos - start
      /\ start \in Nat /\ pos \in Nat /\ offset \in Nat /\ fed \in Nat
      /\ offset = 0 => fed <= start
  BY DEF Inv, TypeOK, InStep, DataInOrder
<1>2. FieldsOf(bytes) = Frame /\ Frame.size \in Nat
  BY <1>1, FieldsAgree
<1> QED BY <1>1, <1>2

\* read: data is handed on from where the last read stopped.
LEMMA ReadInv == ASSUME Inv, NEW n \in Nat, n > 0, Read(n) PROVE Inv'
<1> USE FrameAssumption DEF FrameAssumption
<1>1. /\ result = "running" /\ state = "ready" /\ FieldsOf(bytes).kind = "serial"
      /\ n <= FieldsOf(bytes).size - Prefix - offset
      /\ fed' = start + Header + Prefix + offset + n
      /\ stream' = stream /\ pos' = pos /\ limit' = limit /\ negotiated' = negotiated
      /\ owned' = owned /\ result' = result
  BY DEF Read, Ready
<1>2. /\ FieldsOf(bytes) = Frame /\ Frame.size \in Nat
      /\ pos = start + Header + Frame.size
      /\ start \in Nat /\ pos \in Nat /\ offset \in Nat /\ fed \in Nat
  BY <1>1, ReadyFrame
<1>3. CASE offset + n = FieldsOf(bytes).size - Prefix
  <2>1. offset' = 0 /\ Reset
    BY <1>3 DEF Read
  <2>2. fed' \in Nat /\ fed' <= pos
    BY <1>1, <1>2, <1>3
  <2>3. /\ limit' \in Nat /\ limit' <= MaxPayload
        /\ negotiated' \in BOOLEAN /\ owned' \in BOOLEAN
    BY <1>1 DEF Inv, TypeOK, BufferFits
  <2> QED BY <1>1, <2>1, <2>2, <2>3, ResetInv
<1>4. CASE offset + n # FieldsOf(bytes).size - Prefix
  <2>1. offset' = offset + n /\ bytes' = bytes /\ used' = used /\ state' = state /\ start' = start
    BY <1>4 DEF Read, decoder
  <2>2. Frame' = Frame
    BY <1>1, <2>1 DEF Frame
  <2>3. TypeOK'
    BY <1>1, <1>2, <2>1 DEF Inv, TypeOK
  <2>4. InStep' /\ BufferFits' /\ HelloAgrees' /\ Admitted'
    BY <1>1, <2>1, <2>2 DEF Inv, InStep, BufferFits, HelloAgrees, Admitted, Room
  <2>5. DataInOrder'
    BY <1>1, <1>2, <1>4, <2>1, <2>2, SMTT(30) DEF DataInOrder
  <2> QED BY <2>3, <2>4, <2>5 DEF Inv
<1> QED BY <1>3, <1>4

\* A request, chunk or hello is answered and its frame given up.
LEMMA DispatchInv == ASSUME Inv, DispatchStep PROVE Inv'
<1> USE FrameAssumption DEF FrameAssumption
<1>1. ASSUME NEW right \in BOOLEAN, SerialRefused(right) PROVE Inv'
  BY <1>1, FinishInv DEF SerialRefused, Refuse
<1>2. CASE Refused
  BY <1>2, FinishInv DEF Refused, Refuse
<1>3. ASSUME state = "ready", result = "running", FieldsOf(bytes).kind # "serial"
      PROVE  offset = 0 /\ fed \in Nat /\ fed <= pos
  <2>1. Frame.kind # "serial"
    BY <1>3, ReadyFrame
  <2>2. offset = 0
    BY <1>3, <2>1 DEF Inv, DataInOrder
  <2> QED BY <1>3, <2>2, ReadyFrame
<1>4. /\ limit \in Nat /\ limit <= MaxPayload
      /\ negotiated \in BOOLEAN /\ owned \in BOOLEAN
  BY DEF Inv, TypeOK, BufferFits
<1>5. ASSUME NEW owns \in BOOLEAN, Answer(owns) PROVE Inv'
  <2>1. /\ state = "ready" /\ result = "running" /\ FieldsOf(bytes).kind # "serial"
        /\ Reset /\ owned' = owns /\ result' = result
        /\ UNCHANGED <<stream, pos, limit, negotiated, offset, fed>>
    BY <1>5 DEF Answer, Ready
  <2> QED BY <1>3, <1>4, <2>1, ResetInv
<1>6. CASE Invalid
  <2>1. /\ state = "ready" /\ result = "running" /\ FieldsOf(bytes).kind # "serial"
        /\ Reset /\ owned' = FALSE /\ result' = "closing"
        /\ UNCHANGED <<stream, pos, limit, negotiated, offset, fed>>
    BY <1>6 DEF Invalid, Ready
  <2> QED BY <1>3, <1>4, <2>1, ResetInv, Zenon
<1>7. ASSUME NEW offer \in MinOffer .. MaxOffer, Hello(offer) PROVE Inv'
  <2>1. /\ state = "ready" /\ result = "running" /\ FieldsOf(bytes).kind # "serial"
        /\ Reset /\ UNCHANGED <<stream, pos, fed>>
    BY <1>7 DEF Hello, Ready
  <2>2. Negotiable(offer)
    BY <2>1 DEF Negotiable, Reset
  <2>3. /\ limit' = Lower(MaxPayload, offer) /\ negotiated' = TRUE
        /\ UNCHANGED <<owned, offset, result>>
    BY <1>7, <2>2 DEF Hello, Negotiate
  <2>4. limit' \in Nat /\ limit' <= MaxPayload
    BY <2>3 DEF Lower
  <2> QED BY <1>3, <1>4, <2>1, <2>3, <2>4, ResetInv
<1> QED BY <1>1, <1>2, <1>5, <1>6, <1>7 DEF DispatchStep

\* Every step preserves the invariant.
LEMMA NextInv == Inv /\ [Next]_vars => Inv'
<1> USE FrameAssumption DEF FrameAssumption
<1> SUFFICES ASSUME Inv, [Next]_vars PROVE Inv'
  OBVIOUS
<1>1. CASE FeedStep
  BY <1>1, FeedInv DEF FeedStep, Room
<1>2. CASE ReadStep
  BY <1>2, ReadInv DEF ReadStep
<1>3. CASE DispatchStep
  BY <1>3, DispatchInv
<1>4. CASE End
  BY <1>4, FinishInv DEF End
<1>5. CASE UNCHANGED vars
  BY <1>5 DEF vars, Inv, TypeOK, InStep, BufferFits, DataInOrder, HelloAgrees, Admitted, Frame, Room
<1> QED BY <1>1, <1>2, <1>3, <1>4, <1>5 DEF Next

\* Decoder::feed and needed() keep the decoder on the boundaries that the stream
\* itself defines, for every stream and every fragmentation.
THEOREM FramingCorrect == Spec => []InStep
<1>1. Inv => InStep
  BY DEF Inv
<1> QED BY <1>1, InitInv, NextInv, PTL DEF Spec

\* No length that a header claims takes used_ past the end of bytes_.
THEOREM BufferCorrect == Spec => []BufferFits
<1>1. Inv => BufferFits
  BY DEF Inv
<1> QED BY <1>1, InitInv, NextInv, PTL DEF Spec

\* read() hands on the data of a serial frame once, in order and completely.
THEOREM DataCorrect == Spec => []DataInOrder
<1>1. Inv => DataInOrder
  BY DEF Inv
<1> QED BY <1>1, InitInv, NextInv, PTL DEF Spec

\* negotiate() never refuses a hello, so no session ends with io_error there.
THEOREM HelloCorrect == Spec => []HelloAgrees
<1>1. Inv => HelloAgrees
  BY DEF Inv
<1> QED BY <1>1, InitInv, NextInv, PTL DEF Spec

\* A frame is given up only when all of it, and nothing more, has been taken.
THEOREM WholeFrames == Spec => FramesAreWhole
<1> DEFINE Moves == start' # start => start' = start + Header + Frame.size
<1>1. ASSUME Inv, [Next]_vars PROVE Moves
  <2>1. ASSUME Reset, state = "ready", result = "running" PROVE Moves
    BY <1>1, <2>1, ReadyFrame DEF Reset
  <2>2. CASE FeedStep
    BY <2>2 DEF FeedStep, Feed
  <2>3. CASE ReadStep
    BY <1>1, <2>1, <2>3 DEF ReadStep, Read, Ready
  <2>4. CASE DispatchStep
    BY <1>1, <2>1, <2>4 DEF DispatchStep, SerialRefused, Refused, Refuse, Answer, Invalid, Hello, Ready
  <2>5. CASE End
    BY <2>5 DEF End
  <2>6. CASE UNCHANGED vars
    BY <2>6 DEF vars
  <2> QED BY <1>1, <2>2, <2>3, <2>4, <2>5, <2>6 DEF Next
<1>2. Inv /\ [Next]_vars => [Moves]_vars
  BY <1>1
<1> QED BY <1>2, InitInv, NextInv, PTL DEF Spec, FramesAreWhole
=============================================================================
