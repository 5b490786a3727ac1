--------------------------- MODULE StatefulUpload ---------------------------
(***************************************************************************)
(* The resident of the FMS2 build: the upload transaction with its lease   *)
(* (stateful::Upload), the replacement of the running sketch from a        *)
(* snapshot (stateful::Replacement), the runtime that gives each           *)
(* generation a fresh arena of RAM (stateful::Runtime, Generation), and    *)
(* core 1, which runs the published generation (loop1, Runtime::tick).     *)
(*                                                                         *)
(* Core 0 runs requests and polls one after the other; core 1 runs at the  *)
(* same time, so each access to what the cores share is a step, and so is  *)
(* each flash command.  Power may fail between any two steps.  A capsule   *)
(* is its digest, counted in flash pages.  A refused request changes       *)
(* nothing and is not a step.                                              *)
(***************************************************************************)
EXTENDS Naturals, Sequences

CONSTANTS
  Owners,        \* session tokens: TCP slot index + 1
  None,          \* owner 0, no capsule
  Capsules,      \* what a client may announce
  Valid,         \* the capsules validate_image accepts
  Size,          \* capsule -> its length in pages
  SlotPages,     \* pages of the slot sector, the stage and the snapshot (16)
  MaxChunk,      \* maximum_chunk_bytes, in pages (4)
  Lease,         \* staging_timeout_ms (30000)
  PauseTimeout,  \* pause_timeout_ms (1000)
  MaxId,         \* 2^32 - 1: the last transaction id
  MaxGen,        \* 2^32 - 1: the last generation
  Erased, Bad    \* a page after erase; a page that did not erase or program

ASSUME StatefulAssumption ==
  /\ None \notin Owners /\ None \notin Capsules
  /\ Valid \subseteq Capsules
  /\ Erased \notin Capsules /\ Bad \notin Capsules
  /\ SlotPages \in Nat /\ MaxChunk \in Nat \ {0}
  /\ Size \in [Capsules -> 2..SlotPages]
  /\ Lease \in Nat \ {0} /\ PauseTimeout \in Nat
  /\ MaxId \in Nat \ {0} /\ MaxGen \in Nat \ {0}

VARIABLES
  armed,         \* the D2 pin reads LOW
  wired,         \* the port's arena is the one the contract names
  last,          \* Upload::last_ and installed_generation_
  owner,         \* Upload::owner_
  ids,           \* next_id_ - 1
  pending,       \* Upload::commit_pending_
  stage,         \* Upload::stage_ (<<>> when zeroed)
  age,           \* now - staged_at_, up to the lease (0 once it is not read)
  snapshot,      \* Replacement::snapshot_ and bytes_ (<<>>: not active)
  waited,        \* now - started_at_, up to the deadline (0 likewise)
  requested,     \* Core1Pause::requested_
  parked,        \* Core1Pause::parked_
  slot,          \* flash: the slot's first sector, page by page
  page,          \* the page install programs next
  image,         \* Runtime::image_
  lastGen,       \* Generation::last_generation_
  published,     \* Runtime::published_
  returned,      \* Runtime::returned_
  arena,         \* the sketch's RAM: whose data, and which generations wrote
  pc0,           \* where core 0 is inside setup or Upload::poll
  pc1,           \* where core 1 is inside loop1
  current,       \* tick's current
  observed,      \* Runtime::observed_
  code1,         \* the capsule whose code core 1 is executing
  \* History, read by no action:
  completed,     \* generations whose loop has returned
  before         \* slot and published generation when last_ was accepted

txVars  == <<last, owner, ids, pending, stage, age>>
pause   == <<requested, parked>>
flash   == <<slot, page>>
runtime == <<image, lastGen, published, returned>>
core1   == <<pc1, current, observed, code1>>
history == <<completed, before>>
vars    == <<armed, wired, txVars, snapshot, waited, pause, flash, runtime,
             arena, pc0, core1, history>>

----------------------------------------------------------------------------
Pages == 1..SlotPages

NoUpload == [id |-> 0, capsule |-> None, state |-> "aborted", received |-> 0,
             touched |-> FALSE, error |-> "none", gen |-> 0]

NoArena == [image |-> None, writers |-> {}]

\* validate_image of exactly these pages, announced as c.
Whole(data, c) ==
  c \in Valid /\ Len(data) = Size[c] /\ \A i \in 1..Len(data) : data[i] = c

\* validate_image of the slot, over the length its header names.
Holds(s, c) == c \in Valid /\ \A i \in 1..Size[c] : s[i] = c

Blank == [i \in Pages |-> Erased]
Written(c) == [i \in Pages |-> IF i <= Size[c] THEN c ELSE Erased]

BlocksConsole ==
  last.id # 0 /\ last.state \in {"accepted", "verified", "committing"}

Active == snapshot # <<>>

----------------------------------------------------------------------------
(* Requests of a session, on core 0 *)

\* staged_at_ is the time of the last poll, at most a tick ago.
Begin(o, c) ==
  /\ pc0 = "loop"
  /\ armed
  /\ ~BlocksConsole /\ ~Active
  /\ ids < MaxId
  /\ ids' = ids + 1
  /\ last' = [NoUpload EXCEPT !.id = ids + 1, !.capsule = c, !.state = "accepted"]
  /\ owner' = o
  /\ stage' = <<>>
  /\ age' \in 0..1
  /\ before' = [slot |-> slot, gen |-> published]
  /\ UNCHANGED <<armed, wired, pending, snapshot, waited, pause, flash, runtime,
                 arena, pc0, core1, completed>>

\* Upload::check, for the id of the retained record.
Checked(o, state) == last.id # 0 /\ owner = o /\ last.state = state

\* What a request leaves alone.
Request == UNCHANGED <<armed, wired, owner, ids, age, snapshot, waited, pause,
                       flash, runtime, arena, pc0, core1, history>>

\* n pages of c, at the offset received so far.
Chunk(o, c, n) ==
  /\ pc0 = "loop"
  /\ Checked(o, "accepted")
  /\ n <= Size[last.capsule] - last.received
  /\ stage' = stage \o [i \in 1..n |-> c]
  /\ last' = [last EXCEPT !.received = @ + n]
  /\ UNCHANGED pending
  /\ Request

\* Upload::fail.
Failed(error, touched) ==
  /\ stage' = <<>>
  /\ pending' = FALSE
  /\ last' = [last EXCEPT !.state = "failed", !.error = error,
                          !.touched = touched, !.gen = 0]

\* Mutant: only the digest is compared.
FinishUnvalidated(o) ==
  /\ pc0 = "loop"
  /\ Checked(o, "accepted")
  /\ last.received = Size[last.capsule]
  /\ last' = [last EXCEPT !.state = "verified"]
  /\ UNCHANGED <<stage, pending>>
  /\ Request

Finish(o) ==
  /\ pc0 = "loop"
  /\ Checked(o, "accepted")
  /\ last.received = Size[last.capsule]
  /\ \/ /\ Whole(stage, last.capsule)
        /\ last' = [last EXCEPT !.state = "verified"]
        /\ UNCHANGED <<stage, pending>>
     \/ /\ \E i \in 1..Len(stage) : stage[i] # last.capsule
        /\ Failed("digest_mismatch", last.touched)
     \/ /\ \A i \in 1..Len(stage) : stage[i] = last.capsule
        /\ last.capsule \notin Valid
        /\ Failed("invalid_image", last.touched)
  /\ Request

Commit(o) ==
  /\ pc0 = "loop"
  /\ Checked(o, "verified")
  /\ armed
  /\ last' = [last EXCEPT !.state = "committing"]
  /\ pending' = TRUE
  /\ UNCHANGED stage
  /\ Request

Uncommitted(o) == Checked(o, "accepted") \/ Checked(o, "verified")

\* abort, and disconnect of the owner's session, differ in the error.
Abandon(o) ==
  /\ pc0 = "loop"
  /\ Uncommitted(o)
  /\ stage' = <<>>
  /\ \E error \in {"none", "disconnected"} :
       last' = [last EXCEPT !.state = "aborted",
                            !.error = IF error = "none" THEN @ ELSE error]
  /\ UNCHANGED pending
  /\ Request

----------------------------------------------------------------------------
(* Upload::poll and Replacement::poll on core 0 *)

\* Runtime::loop_returned, of the generation the transaction installed.
LoopReturned ==
  last.gen # 0 /\ published = last.gen /\ returned = published

PollConfirm ==
  /\ pc0 = "loop"
  /\ last.id # 0 /\ last.state = "installed"
  /\ LoopReturned
  /\ last' = [last EXCEPT !.state = "boot_confirmed"]
  /\ UNCHANGED <<stage, pending>>
  /\ Request

\* Mutant: a verified stage and a queued commit have no lease.
ExpiredAccepted == last.id # 0 /\ last.state = "accepted" /\ age >= Lease

Expired == BlocksConsole /\ ~Active /\ age >= Lease

PollExpired ==
  /\ pc0 = "loop"
  /\ Expired
  /\ Failed("io_error", last.touched)
  /\ Request

\* Core1Pause::request finds both flags clear.
PauseFree == ~requested /\ ~parked

\* Core 1 is never between its second load and its store when a new request is
\* made: that takes a whole transaction on core 0, and core 1 has a few
\* instructions to go with interrupts off.
ParkIsPrompt == pc1 # "store"

\* Runtime::can_start.
StartsLeft == lastGen < MaxGen

\* A queued commit, up to the loads of Core1Pause::request.
PollCommit ==
  /\ pc0 = "loop"
  /\ last.id # 0 /\ last.state = "committing" /\ pending /\ ~Expired
  /\ ParkIsPrompt
  /\ LET accepted == /\ armed /\ ~Active /\ StartsLeft
                     /\ Whole(stage, last.capsule) /\ PauseFree
     IN \/ /\ accepted
           /\ pending' = FALSE
           /\ snapshot' = stage
           /\ pc0' = "request"
           /\ UNCHANGED <<last, stage>>
        \/ /\ ~accepted
           /\ Failed(IF armed THEN "io_error" ELSE "unauthorized", last.touched)
           /\ UNCHANGED <<snapshot, pc0>>
  /\ UNCHANGED <<armed, wired, owner, ids, age, waited, pause, flash, runtime,
                 arena, core1, history>>

\* The store of Core1Pause::request; the stage is cleared, and the poll goes on.
RequestStore ==
  /\ pc0 = "request"
  /\ requested' = TRUE
  /\ waited' = 0 /\ age' = 0
  /\ stage' = <<>>
  /\ pc0' = "check"
  /\ UNCHANGED <<armed, wired, last, owner, ids, pending, snapshot, parked, flash,
                 runtime, arena, core1, history>>

\* Replacement::release, and the end of Upload::poll.
Released ==
  /\ snapshot' = <<>> /\ waited' = 0
  /\ requested' = FALSE
  /\ pc0' = "loop"

GaveUp(error, touched) == Released /\ Failed(error, touched)

\* The next poll of a waiting replacement samples the pin first.  (poll() of an
\* inactive replacement reports idle; a commit that is not pending has one.)
PollWaiting ==
  /\ pc0 = "loop"
  /\ last.id # 0 /\ last.state = "committing" /\ ~pending /\ ~Expired
  /\ \/ /\ Active /\ armed
        /\ pc0' = "check"
        /\ UNCHANGED <<last, pending, stage, snapshot, waited, requested>>
     \/ /\ Active /\ ~armed
        /\ GaveUp("unauthorized", FALSE)
  /\ UNCHANGED <<armed, wired, owner, ids, age, parked, flash, runtime, arena,
                 core1, history>>

\* Mutant: the token of the old generation is not revoked.
StoppedUnrevoked ==
  /\ returned' = 0 /\ image' = None
  /\ UNCHANGED <<published, lastGen>>

\* Runtime::stop_quiescent.
Stopped ==
  /\ published' = 0 /\ returned' = 0 /\ image' = None
  /\ UNCHANGED lastGen

\* parked() is read: wait, give up, or stop the old generation.  (The snapshot
\* is validated again; nothing writes it after request().)
CheckParked ==
  /\ pc0 = "check"
  /\ \/ /\ ~parked /\ waited < PauseTimeout
        /\ last' = [last EXCEPT !.touched = FALSE]
        /\ pc0' = "loop"
        /\ UNCHANGED <<pending, stage, snapshot, waited, requested, runtime>>
     \/ /\ ~parked /\ waited >= PauseTimeout
        /\ GaveUp("park_timeout", FALSE)
        /\ UNCHANGED runtime
     \/ /\ parked /\ Whole(snapshot, last.capsule)
        /\ Stopped
        /\ pc0' = "begin"
        /\ UNCHANGED <<last, pending, stage, snapshot, waited, requested>>
  /\ UNCHANGED <<armed, wired, owner, ids, age, parked, flash, arena, core1,
                 history>>

\* What Replacement::install leaves alone.
Install == UNCHANGED <<armed, wired, owner, ids, age, parked, runtime, arena,
                       core1, history>>

Going(next) ==
  pc0' = next /\ UNCHANGED <<last, pending, stage, snapshot, waited, requested>>

FlashBegin ==
  /\ pc0 = "begin"
  /\ Going("erase") \/ GaveUp("install_failed", FALSE)
  /\ UNCHANGED flash
  /\ Install

FlashErase ==
  /\ pc0 = "erase"
  /\ \/ /\ slot' \in {Blank, [Blank EXCEPT ![SlotPages] = Bad]}
        /\ page' = 1
        /\ Going("program")
     \/ /\ slot' \in {slot, Blank}
        /\ GaveUp("install_failed", TRUE)
        /\ UNCHANGED page
  /\ Install

FlashProgram ==
  /\ pc0 = "program"
  /\ \/ /\ \E p \in {snapshot[page], Bad} : slot' = [slot EXCEPT ![page] = p]
        /\ page' = page + 1
        /\ Going(IF page = Len(snapshot) THEN "readback" ELSE "program")
     \/ /\ slot' \in {slot, [slot EXCEPT ![page] = Bad]}
        /\ GaveUp("install_failed", TRUE)
        /\ UNCHANGED page
  /\ Install

\* The whole sector is compared: the capsule and the erased rest.
ReadsBack(c) ==
  /\ \A i \in 1..Len(snapshot) : slot[i] = snapshot[i]
  /\ Holds(slot, c)
  /\ \A i \in Len(snapshot) + 1 .. SlotPages : slot[i] = Erased

\* Mutant: only the data of c is copied, the rest keeps what was there.
InitialisedUncleared(c) ==
  /\ lastGen' = lastGen + 1
  /\ arena' = [arena EXCEPT !.image = c]
  /\ image' = c
  /\ returned' = 0

\* Runtime::start_exact up to its last store: Generation::begin clears the arena
\* and copies the data of c into it.
Initialised(c) ==
  /\ lastGen' = lastGen + 1
  /\ arena' = [image |-> c, writers |-> {}]
  /\ image' = c
  /\ returned' = 0

CanStart(c) == StartsLeft /\ Holds(slot, c) /\ wired

\* The read-back, then start_from_slot.
ReadBack ==
  /\ pc0 = "readback"
  /\ \/ /\ ReadsBack(last.capsule) /\ CanStart(last.capsule)
        /\ Initialised(last.capsule)
        /\ Going("publish")
     \/ /\ ~(ReadsBack(last.capsule) /\ CanStart(last.capsule))
        /\ GaveUp("install_failed", TRUE)
        /\ UNCHANGED <<image, lastGen, returned, arena>>
  /\ UNCHANGED <<armed, wired, owner, ids, age, parked, flash, published, core1,
                 history>>

\* The last store of start_exact, and the end of the poll or of setup().
Publish ==
  /\ pc0 = "publish"
  /\ published' = lastGen
  /\ IF Active
     THEN last' = [last EXCEPT !.state = "installed", !.touched = TRUE, !.gen = lastGen]
     ELSE UNCHANGED last
  /\ Released
  /\ UNCHANGED <<armed, wired, owner, ids, pending, stage, age, parked, flash,
                 image, lastGen, returned, arena, core1, history>>

\* setup(): boot_from_slot, while core 1 already runs loop1.
Boot ==
  /\ pc0 = "boot"
  /\ \/ \E c \in Valid : CanStart(c) /\ Initialised(c) /\ pc0' = "publish"
     \/ /\ \A c \in Valid : ~CanStart(c)
        /\ pc0' = "loop"
        /\ UNCHANGED <<image, lastGen, returned, arena>>
  /\ UNCHANGED <<armed, wired, txVars, snapshot, waited, pause, flash, published,
                 core1, history>>

----------------------------------------------------------------------------
(* Core 1: loop1 *)

Core1Only == UNCHANGED <<armed, wired, txVars, snapshot, waited, requested, flash,
                         image, lastGen, published, pc0, before>>

\* park_if_requested, which ends in the spin of a parked core 1.
Park ==
  /\ \/ pc1 = "top" /\ pc1' = (IF requested THEN "second" ELSE "tick")
     \/ pc1 = "second" /\ pc1' = (IF requested THEN "store" ELSE "tick")
     \/ pc1 = "spin" /\ ~requested /\ pc1' = "clear"
  /\ Core1Only
  /\ UNCHANGED <<parked, returned, arena, current, observed, code1, completed>>

ParkStore ==
  /\ \/ pc1 = "store" /\ pc1' = "spin" /\ parked' = TRUE
     \/ pc1 = "clear" /\ pc1' = "tick" /\ parked' = FALSE
  /\ Core1Only
  /\ UNCHANGED <<returned, arena, current, observed, code1, completed>>

\* tick loads the token; one new to core 1 has its setup called first.
TickLoad ==
  /\ pc1 = "tick"
  /\ current' = published
  /\ observed' = published
  /\ IF published = 0
     THEN pc1' = "top" /\ UNCHANGED code1
     ELSE /\ code1' = image
          /\ pc1' = IF observed # published THEN "setup" ELSE "sketch"
  /\ Core1Only
  /\ UNCHANGED <<parked, returned, arena, completed>>

\* The sketch writes its RAM and returns, if it returns.
SetupReturns ==
  /\ pc1 = "setup"
  /\ pc1' = "sketch"
  /\ arena' = [arena EXCEPT !.writers = @ \cup {current}]
  /\ code1' = image
  /\ Core1Only
  /\ UNCHANGED <<parked, returned, current, observed, completed>>

LoopReturns ==
  /\ pc1 = "sketch"
  /\ pc1' = "ret"
  /\ arena' = [arena EXCEPT !.writers = @ \cup {current}]
  /\ completed' = completed \cup {current}
  /\ Core1Only
  /\ UNCHANGED <<parked, returned, current, observed, code1>>

StoreReturned ==
  /\ pc1 = "ret"
  /\ returned' = current
  /\ pc1' = "top"
  /\ Core1Only
  /\ UNCHANGED <<parked, arena, current, observed, code1, completed>>

----------------------------------------------------------------------------
(* Environment *)

ToggleArm ==
  /\ armed' = ~armed
  /\ UNCHANGED <<wired, txVars, snapshot, waited, pause, flash, runtime, arena,
                 pc0, core1, history>>

\* millis() is read once per poll.
Tick ==
  /\ pc0 = "loop" /\ BlocksConsole
  /\ \/ /\ ~Active /\ age < Lease
        /\ age' = age + 1 /\ UNCHANGED waited
     \/ /\ Active /\ waited < PauseTimeout
        /\ waited' = waited + 1 /\ UNCHANGED age
  /\ UNCHANGED <<armed, wired, last, owner, ids, pending, stage, snapshot, pause,
                 flash, runtime, arena, pc0, core1, history>>

PowerCycle ==
  /\ pc0 # "boot"
  /\ last' = NoUpload /\ owner' = None /\ ids' = 0 /\ pending' = FALSE
  /\ stage' = <<>> /\ age' = 0 /\ snapshot' = <<>> /\ waited' = 0
  /\ requested' = FALSE /\ parked' = FALSE /\ page' = 1
  /\ image' = None /\ lastGen' = 0 /\ published' = 0 /\ returned' = 0
  /\ arena' = NoArena
  /\ pc0' = "boot" /\ pc1' = "top"
  /\ current' = 0 /\ observed' = 0 /\ code1' = None
  /\ completed' = {} /\ before' = [slot |-> slot, gen |-> 0]
  /\ UNCHANGED <<armed, wired, slot>>

----------------------------------------------------------------------------
Init ==
  /\ armed \in BOOLEAN /\ wired \in BOOLEAN
  /\ slot \in {Blank} \cup {Written(c) : c \in Valid}
  /\ last = NoUpload /\ owner = None /\ ids = 0 /\ pending = FALSE
  /\ stage = <<>> /\ age = 0 /\ snapshot = <<>> /\ waited = 0
  /\ requested = FALSE /\ parked = FALSE /\ page = 1
  /\ image = None /\ lastGen = 0 /\ published = 0 /\ returned = 0
  /\ arena = NoArena
  /\ pc0 = "boot" /\ pc1 = "top"
  /\ current = 0 /\ observed = 0 /\ code1 = None
  /\ completed = {} /\ before = [slot |-> slot, gen |-> 0]

Requests ==
  \E o \in Owners :
    \/ \E c \in Capsules : Begin(o, c)
    \/ \E c \in Capsules, n \in 1..MaxChunk : Chunk(o, c, n)
    \/ Finish(o) \/ Commit(o) \/ Abandon(o)

Core0 == \/ PollConfirm \/ PollExpired \/ PollCommit \/ RequestStore \/ PollWaiting
         \/ CheckParked \/ FlashBegin \/ FlashErase \/ FlashProgram \/ ReadBack
         \/ Publish \/ Boot

Core1 == Park \/ ParkStore \/ TickLoad \/ StoreReturned

Sketch == SetupReturns \/ LoopReturns

Next == Requests \/ Core0 \/ Core1 \/ Sketch \/ ToggleArm \/ Tick \/ PowerCycle

Spec == Init /\ [][Next]_vars

----------------------------------------------------------------------------
(* Properties *)

FlashPhases == {"begin", "erase", "program", "readback"}

States == {"accepted", "verified", "committing", "installed", "boot_confirmed",
           "aborted", "failed"}

Errors == {"none", "digest_mismatch", "invalid_image", "disconnected",
           "unauthorized", "io_error", "park_timeout", "install_failed"}

UploadType ==
  [id : 0..MaxId, capsule : Capsules \cup {None}, state : States, received : Nat,
   touched : BOOLEAN, error : Errors, gen : 0..MaxGen]

Contents == [Pages -> Capsules \cup {Erased, Bad}]

\* Every variable of the transaction, the replacement, the runtime and the two
\* cores keeps its type; in particular generations and ids stay within 32 bits.
TypeOK ==
  /\ armed \in BOOLEAN /\ wired \in BOOLEAN
  /\ last \in UploadType /\ owner \in Owners \cup {None} /\ ids \in 0..MaxId
  /\ pending \in BOOLEAN /\ stage \in Seq(Capsules) /\ snapshot \in Seq(Capsules)
  /\ age \in 0..Lease /\ waited \in 0..PauseTimeout
  /\ requested \in BOOLEAN /\ parked \in BOOLEAN
  /\ slot \in Contents /\ page \in 1 .. SlotPages + 1
  /\ image \in Capsules \cup {None} /\ code1 \in Capsules \cup {None}
  /\ {lastGen, published, returned, current, observed} \subseteq 0..MaxGen
  /\ arena \in [image : Capsules \cup {None}, writers : SUBSET (0..MaxGen)]
  /\ pc0 \in {"boot", "loop", "request", "check", "publish"} \cup FlashPhases
  /\ pc1 \in {"top", "second", "store", "spin", "clear", "tick", "setup",
              "sketch", "ret"}
  /\ completed \subseteq 0..MaxGen
  /\ before \in [slot : Contents, gen : 0..MaxGen]

\* From the moment Replacement::poll has seen parked() until release(), core 1
\* stays in the SRAM spin loop of park_if_requested.
FlashQuiescent == pc0 \in FlashPhases => pc1 = "spin" /\ requested

\* Core 1 only executes a sketch the slot holds entirely, on RAM initialised for
\* exactly this sketch: setup finds it as Generation::begin left it, and loop
\* finds what setup and earlier loops of the same generation wrote, and nobody
\* else (so setup comes before loop, and once).
RunsOnOwnState ==
  pc1 \in {"setup", "sketch"} =>
    /\ Holds(slot, code1)
    /\ arena.image = code1
    /\ arena.writers = IF pc1 = "setup" THEN {} ELSE {current}

\* A transaction reported installed or boot_confirmed has its capsule, and
\* erased flash behind it, in the slot, and its generation is the published one;
\* confirmed means that a loop of that generation has returned on core 1.
InstalledRuns ==
  last.id # 0 /\ last.state \in {"installed", "boot_confirmed"} =>
    /\ slot = Written(last.capsule)
    /\ published = last.gen /\ published # 0 /\ image = last.capsule
    /\ last.state = "boot_confirmed" => last.gen \in completed

\* Giving up (an abort, a lost session, the lease, a denial, a park timeout)
\* leaves the slot and the running generation as they were; once the old
\* generation is stopped no failure resumes it or any other.
GiveUpKeepsOld ==
  last.id # 0 /\ last.state \in {"aborted", "failed"} =>
    IF last.error = "install_failed"
    THEN published = 0 /\ (last.touched \/ slot = before.slot)
    ELSE published = before.gen /\ slot = before.slot /\ ~last.touched

\* A transaction only moves forward: a commit cannot be aborted, lost with its
\* session or replayed, and a record that ended stays as it ended.
StatusForward ==
  [][last'.id = last.id /\ last'.state # last.state /\ pc0' # "boot" =>
       <<last.state, last'.state>> \in
          {"accepted"} \X {"verified", "aborted", "failed"}
            \cup {"verified"} \X {"committing", "aborted", "failed"}
            \cup {"committing"} \X {"installed", "failed"}
            \cup {<<"installed", "boot_confirmed">>}]_vars

----------------------------------------------------------------------------
RecordOf ==
  IF last.id = 0
  THEN [id |-> 0, owner |-> None, capsule |-> None, state |-> "aborted",
        received |-> 0, touched |-> FALSE]
  ELSE [id |-> last.id, owner |-> owner, capsule |-> last.capsule,
        state |-> last.state, received |-> last.received, touched |-> last.touched]

SlotOf == IF \E c \in Valid : Holds(slot, c)
          THEN CHOOSE c \in Valid : Holds(slot, c) ELSE None

Promise == INSTANCE UploadRecord WITH record <- RecordOf, slot <- SlotOf

\* stateful::Upload with its replacement implements the same retained record as
\* the FMS1 service, so what is shown of the host's upload tools against that
\* record holds for both builds.
KeepsPromise == Promise!RecordSpec
=============================================================================
