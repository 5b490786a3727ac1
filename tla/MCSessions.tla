----------------------------- MODULE MCSessions -----------------------------
(***************************************************************************)
(* How a session finds frames in its stream of bytes (FrameDecoder), and   *)
(* what the sessions do with them (FmgoSessions).  The two are checked     *)
(* side by side, one per behaviour: the sessions use the framing only as   *)
(* the sequence of frames that the decoder is shown to deliver.            *)
(***************************************************************************)
EXTENDS FrameDecoder, FmgoSessions, TLC

CONSTANTS o1, o2

(* A header of two bytes: what it is, and how long its payload is.  Every  *)
(* stream of StreamLen bytes is tried, alone and behind good frames, so    *)
(* payload that looks like a header and lengths beyond the limit are among *)
(* them.                                                                   *)
StreamLen == 4

MCByte == 0 .. 5

KindOf == <<"malformed", "request", "serial", "upload", "other", "version">>

MCFields == [h \in [1 .. 2 -> MCByte] |-> [kind |-> KindOf[h[1] + 1], size |-> h[2]]]

Bytes(n) == [1 .. n -> MCByte]

(* A hello and a serial.open, without payload; then a serial frame of      *)
(* three bytes, and the beginning of another.                              *)
Opened == <<1, 0, 1, 0>>
Served == <<2, 3, 1, 1, 1, 2>>

MCStreams == Bytes(StreamLen) \cup {Opened \o <<2>> \o s : s \in Bytes(StreamLen)}
                           \cup {Opened \o Served \o s : s \in Bytes(StreamLen - 1)}

VARIABLE part

MCInit ==
  /\ part \in {"framing", "sessions"} /\ Init /\ SessionInit
  /\ part = "sessions" => stream = Opened

MCNext ==
  \/ part = "framing" /\ Next /\ UNCHANGED <<part, sessionVars>>
  \/ part = "sessions" /\ SessionNext /\ UNCHANGED <<part, vars>>

MCSpec == MCInit /\ [][MCNext]_<<part, vars, sessionVars>>

SlotSymmetry == Permutations(Owners)
=============================================================================
