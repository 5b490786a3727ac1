---------------------------- MODULE MCBoardTests ----------------------------
(***************************************************************************)
(* The tools that decide whether a board works: the UART bench, the smoke  *)
(* tests, the soak and the attachment test.  They share no state, so they  *)
(* are checked side by side, one per behaviour; the others rest in an      *)
(* initial state of theirs.                                                *)
(***************************************************************************)
EXTENDS Naturals, Sequences

VARIABLES part,
  tool, nano, pico, heard, clean, noise,
  profile, step, phase, verdict, elapsed, hello, sent, incoming, received, up, down, ended,
  boot, accepted, owner, queue, counts, faults, out, served,
  mode, pc, report, file, link, firstBoot, owed, last, dev, truth,
  stage, cycles, saved, previous, present, late, usb, net, blinks, streams

benchVars == <<tool, nano, pico, heard, clean, noise>>
smokeVars == <<profile, step, phase, verdict, elapsed, hello, sent, incoming, received, up,
               down, ended, boot, accepted, owner, queue, counts, faults, out, served>>
soakVars == <<mode, pc, report, file, link, firstBoot, owed, last, dev, truth>>
attachVars == <<stage, cycles, saved, previous, present, late, usb, net, blinks, streams>>

Bench == INSTANCE UartBench WITH
  Tools <- {"peer", "matrix", "overrun"}, Modes <- {"echo", "sink"}, Legs <- 2, Count <- 3,
  Burst <- 3, RxBytes <- 2, MaxNoise <- 2, MaxBoots <- 1

Smoke == INSTANCE SmokeSuite WITH
  Profiles <- {"application", "uart", "managed"}, Long <- 3, Short <- 2, FrameBytes <- 2,
  Fragment <- 2, Window <- 4, Queue <- 2, Slots <- 2, ReadDelay <- 1, Timeout <- 2,
  LastTick <- 2, MaxFaults <- 2

Soak == INSTANCE Soak WITH
  Modes <- [firmware : {"application", "uart"}, measured : BOOLEAN],
  ReconnectEvery <- 2, MaxBatches <- 5, MaxBoots <- 2, MaxOver <- 2, boot <- firstBoot

Attach == INSTANCE Attach WITH
  Cycles <- 2, MaxPlugs <- 3, MaxBlinks <- 2, pc <- stage, report <- cycles, file <- saved

MCInit ==
  /\ part \in {"bench", "smoke", "soak", "attach"}
  /\ Bench!Init /\ Smoke!Init /\ Soak!Init /\ Attach!Init
  /\ part # "bench" => tool.name = "peer" /\ pico.mode = "sink"
  /\ part # "smoke" => profile = "uart"
  /\ part # "soak" => mode.firmware = "uart" /\ mode.measured /\ file = Soak!NoFile
  /\ part # "attach" => net = 0

MCNext ==
  \/ part = "bench" /\ Bench!Next /\ UNCHANGED <<part, smokeVars, soakVars, attachVars>>
  \/ part = "smoke" /\ Smoke!Next /\ UNCHANGED <<part, benchVars, soakVars, attachVars>>
  \/ part = "soak" /\ Soak!Next /\ UNCHANGED <<part, benchVars, smokeVars, attachVars>>
  \/ part = "attach" /\ Attach!Next /\ UNCHANGED <<part, benchVars, smokeVars, soakVars>>

MCSpec == MCInit /\ [][MCNext]_<<part, benchVars, smokeVars, soakVars, attachVars>>

(* A UART tool that passes has seen every byte arrive (see UartBench).     *)
BenchPassedIsExact == Bench!PassedIsExact

(* A smoke test that passes has had its bytes back exactly (see            *)
(* SmokeSuite).                                                            *)
SmokePassedIsExact == Smoke!PassedIsExact

(* Evidence of a passed soak is evidence of one life of the device, and of *)
(* no overrun where they are counted (see Soak).                           *)
PassedWithoutLoss == Soak!PassedWithoutLoss

(* A passed attachment cycle is an attachment of its own (see Attach).     *)
PassesAreAttachments == Attach!PassesAreAttachments
=============================================================================
