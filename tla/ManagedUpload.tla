---------------------------- MODULE ManagedUpload ----------------------------
(***************************************************************************)
(* The managed-sketch resident (FMS1 build): one upload transaction        *)
(* (FmgoUpload), its RAM stage (CapsuleStage), the switch that parks core 1*)
(* and installs (SketchSwitch, Core1Pause, install_verified_capsule), the  *)
(* runtime that publishes a sketch generation to core 1                    *)
(* (NanoSketchRuntime) and core 1's loop1, which runs the sketch in place  *)
(* from the flash slot.                                                    *)
(*                                                                         *)
(* Core 0 runs session requests and FmgoUpload::poll one after the other   *)
(* from loop(), so each is atomic for the other; core 1 runs at the same   *)
(* time, so every atomic load and store the two cores share is a step of   *)
(* its own, and so is every flash command.  Power may fail between any two *)
(* steps; only the slot survives.                                          *)
(*                                                                         *)
(* A capsule is its digest; its content is counted in flash pages (page 1  *)
(* is the header).  A refused request changes nothing and is not a step.   *)
(***************************************************************************)
EXTENDS Integers, Sequences

CONSTANTS
  Owners,        \* session tokens: TCP slot index + 1
  None,          \* owner 0 / no capsule
  Capsules,      \* what a client may announce in flash.begin
  Valid,         \* the capsules validate_image accepts
  Size,          \* capsule -> its length in pages
  SlotPages,     \* pages of the slot sector and of the RAM stage (16)
  MaxChunk,      \* pages in one chunk (4)
  PauseTimeout,  \* pause_timeout_ms (1000)
  Width,         \* 2^32: transaction ids and generations are u32
  Erased, Bad,   \* a page after erase; a page that did not program correctly
  PromptPark     \* core 1 never stays between its last requested_ load and its
                 \* parked_ store while core 0 starts another transaction

ASSUME UploadAssumption ==
  /\ None \notin Owners /\ None \notin Capsules
  /\ Valid \subseteq Capsules
  /\ Erased \notin Capsules /\ Bad \notin Capsules
  /\ SlotPages \in Nat /\ MaxChunk \in Nat \ {0}
  /\ Size \in [Capsules -> 2..SlotPages]
  /\ PauseTimeout \in Nat
  /\ Width \in Nat /\ Width >= 3
  /\ PromptPark \in BOOLEAN

VARIABLES
  armed,         \* the D2 pin reads LOW
  last,          \* FmgoUpload::last_
  owner,         \* FmgoUpload::owner_
  nextId,        \* FmgoUpload::next_id_
  commitPending, \* FmgoUpload::commit_pending_
  stage,         \* CapsuleStage
  swOwner,       \* SketchSwitch::owner_
  waited,        \* now - started_at_, up to the deadline
  requested,     \* Core1Pause::requested_
  parked,        \* Core1Pause::parked_
  slot,          \* flash: the slot's first sector, page by page
  page,          \* the page install programs next
  image,         \* sketchImage
  gen,           \* sketchGeneration
  returned,      \* sketchReturnedGeneration
  nextGen,       \* NanoSketchRuntime::next_generation_
  pc0,           \* where core 0 is inside FmgoUpload::poll
  pc1,           \* where core 1 is inside loop1
  gen1,          \* loop1's generation
  running,       \* core1RunningGeneration
  code1,         \* the capsule whose code core 1 is executing
  \* History, read by no action:
  published,     \* transaction of the published generation (0: found at boot)
  serial1,       \* the same, for the generation core 1 loaded
  setupOf,       \* transaction whose setup() core 1 called last
  completed,     \* transactions whose loop() has returned
  before         \* the slot when last_ was accepted

txVars   == <<last, owner, nextId, commitPending>>
swVars   == <<swOwner, waited>>
pinVars  == <<requested, parked>>
flash    == <<slot, page>>
rtVars   == <<image, gen, returned, nextGen>>
core1    == <<pc1, gen1, running, code1>>
history  == <<published, serial1, setupOf, completed, before>>
vars     == <<armed, txVars, stage, swVars, pinVars, flash, rtVars, pc0,
              core1, history>>

----------------------------------------------------------------------------
(* Data *)

Pages == 1..SlotPages

NoUpload == [id |-> 0, capsule |-> None, state |-> "aborted", received |-> 0,
             touched |-> FALSE, error |-> "none"]

EmptyStage == [owner |-> None, digest |-> None, data |-> <<>>, verified |-> FALSE]

\* sha256(bytes) = digest: every page received is that page of the capsule.
DigestMatches(st) ==
  /\ Len(st.data) = Size[st.digest]
  /\ \A i \in 1..Len(st.data) : st.data[i] = st.digest

\* validate_image(slot): the header page names the capsule and its code hash
\* covers the remaining pages.
Holds(s, c) == c \in Valid /\ \A i \in 1..Size[c] : s[i] = c

Blank == [i \in Pages |-> Erased]
Written(c) == [i \in Pages |-> IF i <= Size[c] THEN c ELSE Erased]

BlocksConsole ==
  last.id # 0 /\ last.state \in {"accepted", "verified", "committing"}

StageAbort(o) == IF stage.owner # None /\ stage.owner = o THEN EmptyStage ELSE stage

\* ++next_generation_ == 0 skips to 1.
NextGeneration(g) == IF (g + 1) % Width = 0 THEN 1 ELSE (g + 1) % Width

----------------------------------------------------------------------------
(* Session requests on core 0, dispatched from protocolService.poll() *)

IdsLeft == nextId # 0

Begin(o, c) ==
  /\ pc0 = "loop"
  /\ armed
  /\ ~BlocksConsole /\ stage.owner = None /\ swOwner = None
  /\ IdsLeft
  /\ stage' = [EmptyStage EXCEPT !.owner = o, !.digest = c]
  /\ last' = [NoUpload EXCEPT !.id = nextId, !.capsule = c, !.state = "accepted"]
  /\ nextId' = (nextId + 1) % Width
  /\ owner' = o
  /\ before' = slot
  /\ UNCHANGED <<armed, commitPending, swVars, pinVars, flash, rtVars, pc0,
                 core1, published, serial1, setupOf, completed>>

\* n pages of c, at the offset the stage expects.
Chunk(o, c, n) ==
  /\ pc0 = "loop"
  /\ last.id # 0 /\ o = owner /\ last.state = "accepted"
  /\ n <= Size[last.capsule] - last.received
  /\ stage.owner = o /\ ~stage.verified
  /\ n <= Size[stage.digest] - Len(stage.data)
  /\ stage' = [stage EXCEPT !.data = @ \o [i \in 1..n |-> c]]
  /\ last' = [last EXCEPT !.received = @ + n]
  /\ UNCHANGED <<armed, owner, nextId, commitPending, swVars, pinVars, flash,
                 rtVars, pc0, core1, history>>

Finish(o) ==
  /\ pc0 = "loop"
  /\ last.id # 0 /\ o = owner /\ last.state = "accepted"
  /\ stage.owner = o /\ ~stage.verified => Len(stage.data) = Size[stage.digest]
  /\ LET result == IF stage.owner # o \/ stage.verified THEN "invalid_image"
                   ELSE IF ~DigestMatches(stage) THEN "digest_mismatch"
                   ELSE IF stage.digest \notin Valid THEN "invalid_image"
                   ELSE "none"
     IN IF result = "none"
        THEN /\ stage' = [stage EXCEPT !.verified = TRUE]
             /\ last' = [last EXCEPT !.state = "verified"]
        ELSE /\ stage' = StageAbort(o)
             /\ last' = [last EXCEPT !.state = "failed", !.error = result]
  /\ UNCHANGED <<armed, owner, nextId, commitPending, swVars, pinVars, flash,
                 rtVars, pc0, core1, history>>

Commit(o) ==
  /\ pc0 = "loop"
  /\ last.id # 0 /\ o = owner /\ last.state = "verified"
  /\ armed
  /\ last' = [last EXCEPT !.state = "committing"]
  /\ commitPending' = TRUE
  /\ UNCHANGED <<armed, owner, nextId, stage, swVars, pinVars, flash, rtVars,
                 pc0, core1, history>>

\* Mutant: a committing transaction can still be abandoned.
Unfinished == last.state \in {"accepted", "verified", "committing"}
Uncommitted == last.state \in {"accepted", "verified"}

\* flash.abort and a lost session end an uncommitted transaction alike, except
\* for the error they record.
Abandon(o, error) ==
  /\ pc0 = "loop"
  /\ last.id # 0 /\ o = owner /\ Uncommitted
  /\ stage' = StageAbort(o)
  /\ last' = [last EXCEPT !.state = "aborted", !.error = error]
  /\ UNCHANGED <<armed, owner, nextId, commitPending, swVars, pinVars, flash,
                 rtVars, pc0, core1, history>>

Abort(o) == stage.owner = o /\ Abandon(o, "none")

Disconnect(o) == Abandon(o, "disconnected")

----------------------------------------------------------------------------
(* FmgoUpload::poll on core 0 *)

\* FmgoUpload::fail after the stage has become st.
Fail(st, error, touched) ==
  /\ stage' = IF st.owner = owner THEN EmptyStage ELSE st
  /\ commitPending' = FALSE
  /\ last' = [last EXCEPT !.state = "failed", !.error = error, !.touched = touched]
  /\ UNCHANGED <<owner, nextId>>

\* Mutant: entering the new generation counts as having returned from it.
GenerationEntered == gen # 0 /\ running = gen

GenerationReturned == gen # 0 /\ returned = gen

PollConfirm ==
  /\ pc0 = "loop"
  /\ last.id # 0 /\ last.state = "installed"
  /\ GenerationReturned
  /\ last' = [last EXCEPT !.state = "boot_confirmed"]
  /\ UNCHANGED <<armed, owner, nextId, commitPending, stage, swVars, pinVars,
                 flash, rtVars, pc0, core1, history>>

\* Mutant: request() does not look at parked_.
PauseRequested == requested

\* Core1Pause::request returns false.
PauseBusy == requested \/ parked

\* A queued commit: SketchSwitch::begin up to Core1Pause::request's two loads.
PollCommit ==
  /\ pc0 = "loop"
  /\ last.id # 0 /\ last.state = "committing" /\ commitPending
  /\ PromptPark => pc1 # "store"
  /\ LET refusal == IF ~armed THEN "unauthorized"
                    ELSE IF swOwner # None \/ stage.owner # owner \/ ~stage.verified
                            \/ PauseBusy THEN "io_error"
                    ELSE "none"
     IN IF refusal = "none"
        THEN /\ commitPending' = FALSE
             /\ pc0' = "request"
             /\ UNCHANGED <<last, owner, nextId, stage>>
        ELSE /\ Fail(stage, refusal, last.touched)
             /\ UNCHANGED pc0
  /\ UNCHANGED <<armed, swVars, pinVars, flash, rtVars, core1, history>>

\* request's store; SketchSwitch::poll follows in the same call.
RequestStore ==
  /\ pc0 = "request"
  /\ requested' = TRUE
  /\ swOwner' = owner /\ waited' = 0
  /\ pc0' = "check"
  /\ UNCHANGED <<armed, txVars, stage, parked, flash, rtVars, core1, history>>

\* A later poll of a waiting switch starts by sampling the pin.
PollWaiting ==
  /\ pc0 = "loop"
  /\ last.id # 0 /\ last.state = "committing" /\ ~commitPending
  /\ IF armed /\ swOwner # None
     THEN /\ pc0' = "check"
          /\ UNCHANGED <<txVars, stage, swOwner, requested>>
     ELSE /\ Fail(StageAbort(swOwner),
                  IF swOwner = None THEN "io_error" ELSE "unauthorized", FALSE)
          /\ swOwner' = None
          /\ requested' = (swOwner = None /\ requested)
          /\ UNCHANGED pc0
  /\ UNCHANGED <<armed, waited, parked, flash, rtVars, core1, history>>

\* Mutant: the wait for core 1 has no deadline.
NoDeadline == FALSE

TimedOut == waited >= PauseTimeout

\* Mutant: the old generation stays published during the install.
RuntimeKept == UNCHANGED <<gen, returned>>

RuntimeStop == gen' = 0 /\ returned' = 0

\* SketchSwitch::poll reads parked_: wait, give up, or stop the old sketch.
CheckParked ==
  /\ pc0 = "check"
  /\ \/ /\ ~parked /\ ~TimedOut
        /\ last' = [last EXCEPT !.touched = FALSE]
        /\ pc0' = "loop"
        /\ UNCHANGED <<owner, nextId, commitPending, stage, swOwner, requested,
                       rtVars, history>>
     \/ /\ ~parked /\ TimedOut
        /\ requested' = FALSE
        /\ Fail(StageAbort(swOwner), "park_timeout", FALSE)
        /\ swOwner' = None
        /\ pc0' = "loop"
        /\ UNCHANGED <<rtVars, history>>
     \/ /\ parked
        /\ RuntimeStop
        /\ pc0' = "begin"
        /\ UNCHANGED <<txVars, stage, swOwner, requested, image, nextGen, history>>
  /\ UNCHANGED <<armed, waited, parked, flash, core1>>

\* The tail of SketchSwitch::poll and of FmgoUpload::poll after an install that
\* did not succeed.
InstallFailed(touched) ==
  /\ Fail(StageAbort(swOwner), "install_failed", touched)
  /\ swOwner' = None
  /\ requested' = FALSE
  /\ pc0' = "loop"

FlashBegin ==
  /\ pc0 = "begin"
  /\ \/ /\ pc0' = "erase"
        /\ UNCHANGED <<txVars, stage, swOwner, requested>>
     \/ InstallFailed(FALSE)
  /\ UNCHANGED <<armed, waited, parked, flash, rtVars, core1, history>>

FlashErase ==
  /\ pc0 = "erase"
  /\ \/ /\ slot' = Blank /\ page' = 1
        /\ pc0' = "program"
        /\ UNCHANGED <<txVars, stage, swOwner, requested>>
     \/ /\ slot' \in {slot, Blank}
        /\ InstallFailed(TRUE)
        /\ UNCHANGED page
  /\ UNCHANGED <<armed, waited, parked, rtVars, core1, history>>

FlashProgram ==
  /\ pc0 = "program"
  /\ \/ /\ \E p \in {stage.data[page], Bad} : slot' = [slot EXCEPT ![page] = p]
        /\ page' = page + 1
        /\ pc0' = IF page = Len(stage.data) THEN "readback" ELSE "program"
        /\ UNCHANGED <<txVars, stage, swOwner, requested>>
     \/ /\ slot' \in {slot, [slot EXCEPT ![page] = Bad]}
        /\ InstallFailed(TRUE)
        /\ UNCHANGED page
  /\ UNCHANGED <<armed, waited, parked, rtVars, core1, history>>

\* memcmp of the slot with the stage, and validate_image of the slot.
SlotVerified ==
  /\ \A i \in 1..Len(stage.data) : slot[i] = stage.data[i]
  /\ Holds(slot, stage.digest)

\* The read-back, then runtime_.start.
ReadBack ==
  /\ pc0 = "readback"
  /\ \/ /\ SlotVerified
        /\ image' = stage.digest
        /\ returned' = 0
        /\ gen' = nextGen
        /\ nextGen' = NextGeneration(nextGen)
        /\ published' = last.id
        /\ last' = [last EXCEPT !.state = "installed", !.touched = TRUE]
        /\ stage' = StageAbort(swOwner)
        /\ swOwner' = None
        /\ requested' = FALSE
        /\ pc0' = "loop"
        /\ UNCHANGED <<owner, nextId, commitPending>>
     \/ /\ ~SlotVerified
        /\ InstallFailed(TRUE)
        /\ UNCHANGED <<rtVars, published>>
  /\ UNCHANGED <<armed, waited, parked, flash, core1, serial1, setupOf,
                 completed, before>>

----------------------------------------------------------------------------
(* Core 1: loop1 *)

Core1Only == UNCHANGED <<armed, txVars, stage, swVars, requested, flash, image,
                         gen, nextGen, pc0, published, before>>

\* park_if_requested: two loads of requested_, the parked_ store, the spin and
\* the store that leaves it.
ParkFirst ==
  /\ pc1 = "top"
  /\ pc1' = IF requested THEN "second" ELSE "load"
  /\ Core1Only /\ UNCHANGED <<parked, returned, gen1, running, code1, serial1,
                              setupOf, completed>>

ParkSecond ==
  /\ pc1 = "second"
  /\ pc1' = IF requested THEN "store" ELSE "load"
  /\ Core1Only /\ UNCHANGED <<parked, returned, gen1, running, code1, serial1,
                              setupOf, completed>>

ParkStore ==
  /\ pc1 = "store"
  /\ parked' = TRUE
  /\ pc1' = "spin"
  /\ Core1Only /\ UNCHANGED <<returned, gen1, running, code1, serial1, setupOf,
                              completed>>

ParkSpin ==
  /\ pc1 = "spin"
  /\ ~requested
  /\ pc1' = "clear"
  /\ Core1Only /\ UNCHANGED <<parked, returned, gen1, running, code1, serial1,
                              setupOf, completed>>

ParkClear ==
  /\ pc1 = "clear"
  /\ parked' = FALSE
  /\ pc1' = "load"
  /\ Core1Only /\ UNCHANGED <<returned, gen1, running, code1, serial1, setupOf,
                              completed>>

\* loop1 loads the generation; a generation new to core 1 gets its setup call.
LoadGeneration ==
  /\ pc1 = "load"
  /\ gen1' = gen
  /\ running' = gen
  /\ IF gen = 0
     THEN pc1' = "top" /\ UNCHANGED <<code1, serial1, setupOf>>
     ELSE /\ pc1' = IF gen = running THEN "sketch" ELSE "setup"
          /\ code1' = image
          /\ serial1' = published
          /\ setupOf' = IF gen = running THEN setupOf ELSE published
  /\ Core1Only /\ UNCHANGED <<parked, returned, completed>>

\* The sketch's own code; nothing obliges it to return.
SetupReturns ==
  /\ pc1 = "setup"
  /\ pc1' = "sketch"
  /\ Core1Only /\ UNCHANGED <<parked, returned, gen1, running, code1, serial1,
                              setupOf, completed>>

LoopReturns ==
  /\ pc1 = "sketch"
  /\ pc1' = "ret"
  /\ completed' = completed \cup {serial1}
  /\ Core1Only /\ UNCHANGED <<parked, returned, gen1, running, code1, serial1,
                              setupOf>>

\* Mutant: loop1 forgets to publish that the sketch returned.
ReturnForgotten ==
  /\ pc1 = "ret"
  /\ pc1' = "top"
  /\ Core1Only /\ UNCHANGED <<parked, returned, gen1, running, code1, serial1,
                              setupOf, completed>>

StoreReturned ==
  /\ pc1 = "ret"
  /\ returned' = gen1
  /\ pc1' = "top"
  /\ Core1Only /\ UNCHANGED <<parked, gen1, running, code1, serial1, setupOf,
                              completed>>

----------------------------------------------------------------------------
(* Environment: the jumper, the clock, the power supply *)

ToggleArm ==
  /\ armed' = ~armed
  /\ UNCHANGED <<txVars, stage, swVars, pinVars, flash, rtVars, pc0, core1, history>>

\* millis() is read once per poll, before pc0 leaves "loop".
Tick ==
  /\ pc0 = "loop" /\ swOwner # None /\ waited < PauseTimeout
  /\ waited' = waited + 1
  /\ UNCHANGED <<armed, txVars, stage, swOwner, pinVars, flash, rtVars, pc0,
                 core1, history>>

\* RAM restarts from its initial values; setup() has not yet looked at the slot.
PowerCycle ==
  /\ pc0 # "boot"
  /\ last' = NoUpload /\ owner' = None /\ nextId' = 1 /\ commitPending' = FALSE
  /\ stage' = EmptyStage /\ swOwner' = None /\ waited' = 0
  /\ requested' = FALSE /\ parked' = FALSE /\ page' = 1
  /\ image' = None /\ gen' = 0 /\ returned' = 0 /\ nextGen' = 2
  /\ pc0' = "boot" /\ pc1' = "top"
  /\ gen1' = 0 /\ running' = 0 /\ code1' = None
  /\ published' = 0 /\ serial1' = 0 /\ setupOf' = 0 /\ completed' = {}
  /\ before' = slot
  /\ UNCHANGED <<armed, slot>>

\* setup(): publish generation 1 when the slot validates.
Boot ==
  /\ pc0 = "boot"
  /\ pc0' = "loop"
  /\ \/ \E c \in Valid : Holds(slot, c) /\ image' = c /\ gen' = 1
     \/ /\ \A c \in Valid : ~Holds(slot, c)
        /\ UNCHANGED <<image, gen>>
  /\ UNCHANGED <<armed, txVars, stage, swVars, pinVars, flash, returned, nextGen,
                 core1, history>>

----------------------------------------------------------------------------
Init ==
  /\ armed \in BOOLEAN
  /\ slot \in {Blank} \cup {Written(c) : c \in Valid}
  /\ last = NoUpload /\ owner = None /\ nextId = 1 /\ commitPending = FALSE
  /\ stage = EmptyStage /\ swOwner = None /\ waited = 0
  /\ requested = FALSE /\ parked = FALSE /\ page = 1
  /\ image = None /\ gen = 0 /\ returned = 0 /\ nextGen = 2
  /\ pc0 = "boot" /\ pc1 = "top"
  /\ gen1 = 0 /\ running = 0 /\ code1 = None
  /\ published = 0 /\ serial1 = 0 /\ setupOf = 0 /\ completed = {}
  /\ before = slot

Requests ==
  \E o \in Owners :
    \/ \E c \in Capsules : Begin(o, c)
    \/ \E c \in Capsules, n \in 1..MaxChunk : Chunk(o, c, n)
    \/ Finish(o) \/ Commit(o) \/ Abort(o) \/ Disconnect(o)

Core0 == \/ PollConfirm \/ PollCommit \/ RequestStore \/ PollWaiting
         \/ CheckParked \/ FlashBegin \/ FlashErase \/ FlashProgram \/ ReadBack
         \/ Boot

Core1 == \/ ParkFirst \/ ParkSecond \/ ParkStore \/ ParkSpin \/ ParkClear
         \/ LoadGeneration \/ StoreReturned

Sketch == SetupReturns \/ LoopReturns

Next == Requests \/ Core0 \/ Core1 \/ Sketch \/ ToggleArm \/ Tick \/ PowerCycle

Spec == Init /\ [][Next]_vars

----------------------------------------------------------------------------
(* Properties *)

FlashPhases == {"begin", "erase", "program", "readback"}

States == {"accepted", "verified", "committing", "installed", "boot_confirmed",
           "aborted", "failed"}

Errors == {"none", "digest_mismatch", "invalid_image", "disconnected",
           "unauthorized", "io_error", "park_timeout", "install_failed"}

UploadRecord ==
  [id : 0..Width-1, capsule : Capsules \cup {None}, state : States,
   received : Nat, touched : BOOLEAN, error : Errors]

StageRecord ==
  [owner : Owners \cup {None}, digest : Capsules \cup {None},
   data : Seq(Capsules), verified : BOOLEAN]

Contents == [Pages -> Capsules \cup {Erased, Bad}]

TransactionType ==
  /\ last \in UploadRecord /\ stage \in StageRecord
  /\ owner \in Owners \cup {None} /\ nextId \in 0..Width-1
  /\ commitPending \in BOOLEAN

MachineType ==
  /\ armed \in BOOLEAN /\ requested \in BOOLEAN /\ parked \in BOOLEAN
  /\ swOwner \in Owners \cup {None} /\ waited \in 0..PauseTimeout
  /\ slot \in Contents /\ before \in Contents /\ page \in Nat
  /\ image \in Capsules \cup {None} /\ code1 \in Capsules \cup {None}
  /\ gen \in 0..Width-1 /\ returned \in 0..Width-1 /\ nextGen \in 1..Width-1
  /\ gen1 \in 0..Width-1 /\ running \in 0..Width-1
  /\ pc0 \in {"boot", "loop", "request", "check"} \cup FlashPhases
  /\ pc1 \in {"top", "second", "store", "spin", "clear", "load", "setup",
              "sketch", "ret"}
  /\ published \in 0..Width-1 /\ serial1 \in 0..Width-1 /\ setupOf \in 0..Width-1
  /\ completed \subseteq 0..Width-1

\* Every variable of the transaction, the stage, the handshake, the slot and the
\* two cores keeps its type; in particular the next generation is never 0.
TypeOK == TransactionType /\ MachineType

\* From the moment SketchSwitch::poll has seen parked_ until release(), core 1
\* stays in the SRAM spin loop: no flash command runs while core 1 could fetch.
FlashQuiescent == pc0 \in FlashPhases => pc1 = "spin" /\ requested

\* Core 1 only ever executes a sketch that the slot holds entirely: never the
\* old one after an erase, never a partly programmed or misprogrammed one.
ExecutesWholeImage == pc1 \in {"setup", "sketch"} => Holds(slot, code1)

\* A transaction reported installed or boot_confirmed has the slot filled with
\* exactly the capsule announced in its flash.begin.
InstalledIsWhole ==
  last.id # 0 /\ last.state \in {"installed", "boot_confirmed"}
    => Holds(slot, last.capsule)

\* boot_confirmed is reported only after a loop() of this very transaction's
\* sketch returned on core 1, whatever earlier sketch was still returning.
ConfirmedMeansRan ==
  last.id # 0 /\ last.state = "boot_confirmed" => last.id \in completed

\* Core 1 never calls a sketch's loop() before that sketch's own setup(), even
\* when generation numbers wrap or an install fails in between.
SetupBeforeLoop == pc1 = "sketch" => setupOf = serial1

\* A transaction that ended without slot_touched left the slot as it was when it
\* began, in particular after a park timeout or a lost arm.
UntouchedIsIntact ==
  last.id # 0 /\ last.state \in {"failed", "aborted"} /\ ~last.touched
    => slot = before

\* What core 1 is made to run is a whole sketch, set up before it loops, whatever
\* failed installs, power cuts and generation wraps came before.
SketchIsSound == ExecutesWholeImage /\ SetupBeforeLoop

\* The retained status tells the truth about the slot and the sketch: installed
\* means read back whole, boot_confirmed means that its loop returned, and a
\* transaction that ended without slot_touched left the slot alone.
StatusIsTrue == InstalledIsWhole /\ ConfirmedMeansRan /\ UntouchedIsIntact

----------------------------------------------------------------------------
(* What the service promises its sessions and the host tools *)

RecordOf ==
  IF last.id = 0
  THEN [id |-> 0, owner |-> None, capsule |-> None, state |-> "aborted",
        received |-> 0, touched |-> FALSE]
  ELSE [id |-> last.id, owner |-> owner, capsule |-> last.capsule,
        state |-> last.state, received |-> last.received, touched |-> last.touched]

SlotOf == IF \E c \in Valid : Holds(slot, c)
          THEN CHOOSE c \in Valid : Holds(slot, c) ELSE None

Promise == INSTANCE UploadRecord WITH
  record <- RecordOf, slot <- SlotOf, MaxId <- Width - 1,
  ids <- (nextId + Width - 1) % Width

\* FmgoUpload with its stage, switch, pause and flash implements the retained
\* record of UploadRecord: flash steps, power cuts and core 1 included, every
\* step is one of the record's steps or none, and only a capsule read back
\* whole is reported installed.
KeepsPromise == Promise!RecordSpec
=============================================================================
