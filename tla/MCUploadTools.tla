---------------------------- MODULE MCUploadTools ----------------------------
(***************************************************************************)
(* The host tools that install a sketch: fmgo_upload against the upload    *)
(* service, checkpoint_flash against the same service, the private         *)
(* listener of the m7exp3 resident with any two peers, and that listener   *)
(* with the tools written for it.  Each behaviour is one of the four.      *)
(***************************************************************************)
EXTENDS UploadClient, TLC

CONSTANTS o1, o2, good, other, bench, Conns

VARIABLES part,
          fpc, fwaiting, event, foffset, journal, synced, sent, taken,
          srv, stage, sock, lpc, claim, sw, armed, sketch, now, polled, lboot, host,
          touched, installed

MCSize == [i \in Capsules |-> IF i = Image THEN 2 ELSE 1]
OwnerSymmetry == Permutations(Owners) \cup Permutations(Conns)

Flash == INSTANCE CheckpointFlash WITH
  MaxEvents <- 4, pc <- fpc, waiting <- fwaiting, offset <- foffset

Listener == INSTANCE ProofUpload WITH
  BodyLen <- 1, MaxItems <- 4, MaxPacket <- 2, Width <- 3, Wrap <- 16, LastTick <- 3,
  Receive <- 2, Respond <- 1, Park <- 1, Busy <- 2, Late <- 2, Wake <- 3, Jobs <- {},
  MaxBoots <- 0, pc <- lpc, taken <- claim, boot <- lboot, tool <- host

Proof == INSTANCE ProofUpload WITH
  Conns <- {bench}, BodyLen <- 1, MaxItems <- 0, MaxPacket <- 2, Width <- 4, Wrap <- 16, LastTick <- 4,
  Receive <- 2, Respond <- 1, Park <- 1, Busy <- 2, Late <- 2, Wake <- 3,
  Jobs <- {"install", "pause", "stall"},
  MaxBoots <- 1, pc <- lpc, taken <- claim, boot <- lboot, tool <- host

clientVars == <<installing, tool, history>>
flashVars == <<fpc, fwaiting, event, foffset, journal, synced, sent, taken>>
proofVars == <<srv, stage, sock, lpc, claim, sw, armed, sketch, now, polled, lboot, host,
               touched, installed>>

MCInit ==
  /\ part \in {"client", "flash", "listener", "proof"}
  /\ Init /\ Flash!Init
  /\ IF part = "proof" THEN Proof!Init ELSE Listener!Init
  /\ part # "client" => installing
  /\ IF part \in {"listener", "proof"} THEN slot = None ELSE armed

MCNext ==
  \/ part = "client" /\ (Next \/ Finished) /\ UNCHANGED <<part, flashVars, proofVars>>
  \/ part = "flash" /\ (Flash!Next \/ Flash!Finished)
     /\ UNCHANGED <<part, clientVars, proofVars>>
  \/ part = "listener" /\ Listener!Next
     /\ UNCHANGED <<part, recordVars, linkVars, clientVars, flashVars>>
  \/ part = "proof" /\ Proof!Next
     /\ UNCHANGED <<part, recordVars, linkVars, clientVars, flashVars>>

MCSpec ==
  MCInit /\ [][MCNext]_<<part, recordVars, linkVars, clientVars, flashVars, proofVars>>

(* The journal of checkpoint_flash survives a crash with the intent to     *)
(* commit (see CheckpointFlash).                                           *)
IntentSurvives == Flash!IntentSurvives

(* What the private listener and its tools say is true (see ProofUpload).  *)
PassedIsTrue == IF part = "proof" THEN Proof!PassedIsTrue ELSE Listener!PassedIsTrue
=============================================================================
