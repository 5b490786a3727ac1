----------------------------- MODULE MCConsole ------------------------------
(***************************************************************************)
(* The sketch console and the ring it is built on.  They are checked side  *)
(* by side, one per behaviour: the console uses the ring as the bounded    *)
(* queue that the ring is shown to be.                                     *)
(***************************************************************************)
EXTENDS SketchConsole

VARIABLES part, bytes, head, tail, pcp, data, ptail, phead, written,
          pcc, count, chead, ctail, out, received

Ring == INSTANCE SpscByteRing WITH
  Values <- {0, 1}, Capacity <- 2, Wrap <- 4, MaxBatch <- 2

ringVars == <<bytes, head, tail, pcp, data, ptail, phead, written,
              pcc, count, chead, ctail, out, received>>
MCvars == <<part, vars, ringVars>>

MCInit ==
  /\ part \in {"console", "ring"} /\ Init /\ Ring!Init
  /\ part = "console" => bytes[0] = 0

InConsole(A) == part = "console" /\ A /\ UNCHANGED <<part, ringVars>>

MCNext ==
  \/ InConsole(Next)
  \/ part = "ring" /\ Ring!Next /\ UNCHANGED <<part, vars>>

(* Core 0's loop() polls for ever, core 1's resident code runs on, a call  *)
(* into the resident returns, and the sketch's loop returns in the end.    *)
FairSpec ==
  /\ MCInit /\ [][MCNext]_MCvars
  /\ WF_MCvars(InConsole(PollSteps)) /\ WF_MCvars(InConsole(Boundary))
  /\ WF_MCvars(InConsole(SketchCalls /\ pc1 # "loop")) /\ SF_MCvars(InConsole(Return))

(* An owner who stays is served, after every stop() again: if the sketch's *)
(* loop returns, poll() turns the console on for an opening that is not     *)
(* closed first.                                                            *)
OpenIsServed ==
  []<>(backend.active => outputOn /\ inputOn /\ observed.generation = tenure)

(* push and pop, interleaved byte by byte on two cores, look like single   *)
(* steps on one bounded first-in first-out queue: no byte is lost,         *)
(* duplicated, reordered, torn or read before it is published.             *)
RefinesFifo == Ring!Fifo!Spec
=============================================================================
