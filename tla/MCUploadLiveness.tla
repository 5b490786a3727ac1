-------------------------- MODULE MCUploadLiveness --------------------------
(***************************************************************************)
(* That uploads come to an end, for both upload services: FMS1             *)
(* (ManagedUpload) and FMS2 (StatefulUpload).  A board runs one of them;   *)
(* variables that only the other one has keep the value None.              *)
(***************************************************************************)
EXTENDS Naturals, Sequences

CONSTANTS o, a, None, Erased, Bad

VARIABLES
  service,                                              \* the board's build
  armed, last, owner, stage, waited, requested, parked, slot, page, image,
  returned, pc0, pc1, code1, published, completed, before,              \* both
  nextId, commitPending, swOwner, gen, nextGen, gen1, running, serial1,
  setupOf,                                                              \* FMS1
  wired, ids, pending, age, snapshot, lastGen, arena, current, observed \* FMS2

Fms1 == INSTANCE ManagedUpload WITH
  Owners <- {o}, Capsules <- {a}, Valid <- {a}, Size <- [c \in {a} |-> 2],
  SlotPages <- 2, MaxChunk <- 2, PauseTimeout <- 1, Width <- 3, PromptPark <- TRUE

Fms2 == INSTANCE StatefulUpload WITH
  Owners <- {o}, Capsules <- {a}, Valid <- {a}, Size <- [c \in {a} |-> 2],
  SlotPages <- 2, MaxChunk <- 2, Lease <- 1, PauseTimeout <- 1, MaxId <- 2, MaxGen <- 2

only1 == <<nextId, commitPending, swOwner, gen, nextGen, gen1, running, serial1,
           setupOf>>
only2 == <<wired, ids, pending, age, snapshot, lastGen, arena, current, observed>>
vars == <<service, Fms1!vars, Fms2!vars>>

Absent1 ==
  /\ nextId = None /\ commitPending = None /\ swOwner = None /\ gen = None
  /\ nextGen = None /\ gen1 = None /\ running = None /\ serial1 = None
  /\ setupOf = None
Absent2 ==
  /\ wired = None /\ ids = None /\ pending = None /\ age = None /\ snapshot = None
  /\ lastGen = None /\ arena = None /\ current = None /\ observed = None

Init == \/ service = "FMS1" /\ Fms1!Init /\ Absent2
        \/ service = "FMS2" /\ Fms2!Init /\ Absent1

On1(A) == service = "FMS1" /\ A /\ UNCHANGED <<service, only2>>
On2(A) == service = "FMS2" /\ A /\ UNCHANGED <<service, only1>>

Next == On1(Fms1!Next) \/ On2(Fms2!Next)

Core0 == On1(Fms1!Core0) \/ On2(Fms2!Core0)
Core1 == On1(Fms1!Core1) \/ On2(Fms2!Core1)
Tick == On1(Fms1!Tick) \/ On2(Fms2!Tick)
Sketch == On1(Fms1!Sketch) \/ On2(Fms2!Sketch)

\* loop() polls for ever and core 1's resident code runs on; millis() advances
\* between polls (strongly fair: a Tick is disabled while a poll runs).  A sketch
\* may hang.
FairSpec == Init /\ [][Next]_vars /\ WF_vars(Core0) /\ WF_vars(Core1) /\ SF_vars(Tick)

\* A committed transaction ends, installed or failed, although the sketch on
\* core 1 may never return to its park point; and core 1 is never left parked,
\* whatever happens to the install.
CommitResolves ==
  /\ last.state = "committing" ~> last.state # "committing"
  /\ pc1 = "spin" ~> pc1 # "spin"

\* If the sketch's setup and loop return, an installed transaction is confirmed
\* (or power fails, or another transaction replaces the record).
InstallConfirms ==
  WF_vars(Sketch) => (last.state = "installed" ~> last.state # "installed")

\* An upload that the FMS2 service accepted ends although its session may stay
\* open and silent: the lease frees the stage and the console.
StageEnds ==
  service = "FMS2" /\ last.state \in {"accepted", "verified"}
    ~> last.state \notin {"accepted", "verified"}
=============================================================================
