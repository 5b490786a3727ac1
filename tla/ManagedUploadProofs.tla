------------------------ MODULE ManagedUploadProofs ------------------------
(* Proofs, for every value of the constants, of the safety properties of    *)
(* ManagedUpload.                                                            *)
EXTENDS ManagedUpload, TLAPS

Flashing == pc0 \in FlashPhases
InSketch == pc1 \in {"setup", "sketch", "ret"}

\* The pause handshake: what requested_, parked_ and SketchSwitch::owner_ say of
\* where the two cores are.
Handshake ==
  /\ parked <=> pc1 \in {"spin", "clear"}
  /\ requested <=> swOwner # None
  /\ pc0 = "boot" => ~requested /\ pc1 \notin {"store", "spin", "clear"}
  /\ pc0 = "request" => ~requested /\ pc1 \notin {"store", "spin", "clear"}
  /\ pc0 = "check" => requested
  /\ Flashing => requested /\ pc1 = "spin"
  /\ pc1 = "clear" => ~requested

\* The transaction record, and the stage of a transaction that blocks consoles.
Transaction ==
  /\ pc0 = "boot" => last.id = 0
  /\ pc0 \notin {"boot", "loop"} => last.id # 0 /\ last.state = "committing"
  /\ last.id # 0 => owner \in Owners /\ last.capsule \in Capsules
  /\ BlocksConsole => stage.owner = owner /\ stage.digest = last.capsule
                      /\ ~last.touched
  /\ last.id # 0 /\ last.state = "accepted" => ~stage.verified
  /\ last.id # 0 /\ last.state \in {"verified", "committing"} => stage.verified
  /\ stage.owner # None => stage.digest \in Capsules
  /\ stage.verified => stage.owner # None /\ DigestMatches(stage)
  /\ pc0 = "program" => page \in 1..Len(stage.data)

\* What the record says of the slot.
Record ==
  /\ ~last.touched /\ pc0 \notin {"program", "readback"} => slot = before
  /\ InstalledIsWhole

\* The published generation, and what core 1 runs, is whole.
Published ==
  /\ pc0 \in FlashPhases \cup {"boot"} => gen = 0
  /\ gen # 0 => Holds(slot, image)
  /\ InSketch => gen # 0 /\ gen1 = gen /\ code1 = image

\* Which generation core 1 has set up, runs and has returned from.
Generations ==
  /\ gen # nextGen
  /\ pc0 = "boot" => running = 0 /\ returned = 0 /\ nextGen = 2
  /\ Flashing => running # nextGen
  /\ pc1 \in {"top", "second", "store"} => running \in {0, gen}
  /\ pc1 = "spin" /\ requested /\ ~Flashing => running \in {0, gen}
  /\ InSketch => running = gen /\ serial1 = published
  /\ running = gen /\ gen # 0 => setupOf = published
  /\ pc1 = "ret" => serial1 \in completed
  /\ returned = gen /\ gen # 0 => published \in completed
  /\ last.id # 0 /\ last.state = "installed" => published = last.id
  /\ last.id # 0 /\ last.state = "boot_confirmed" => last.id \in completed

TxInv == TypeOK /\ Transaction /\ Record
IndInv == TxInv /\ Handshake /\ Published /\ Generations

----------------------------------------------------------------------------
\* What the helpers of FmgoUpload and CapsuleStage leave behind has its type.
LEMMA InitialTypes == NoUpload \in UploadRecord /\ EmptyStage \in StageRecord
  BY UploadAssumption DEF NoUpload, EmptyStage, UploadRecord, StageRecord, States, Errors

\* Init establishes the invariant of transaction, stage and slot record.
LEMMA TxInit == Init => TxInv
<1> SUFFICES ASSUME Init PROVE TxInv
    OBVIOUS
<1> USE UploadAssumption DEF Init
<1>1. TypeOK
  <2>1. \A c \in Valid : Written(c) \in Contents
    BY DEF Written, Contents
  <2>2. Blank \in Contents
    BY DEF Blank, Contents
  <2>3. slot \in Contents
    BY <2>1, <2>2
  <2>4. 0 \in 0..Width-1 /\ 1 \in 0..Width-1 /\ 2 \in 1..Width-1 /\ 1 \in Nat
        /\ 0 \in 0..PauseTimeout
    OBVIOUS
  <2>5. TransactionType
    BY <2>4, InitialTypes, Zenon DEF TransactionType
  <2>6. MachineType
    BY <2>3, <2>4, Zenon DEF MachineType
  <2> QED BY <2>5, <2>6 DEF TypeOK
<1>2. Transaction
  BY DEF Transaction, NoUpload, EmptyStage, BlocksConsole
<1>3. Record
  BY DEF Record, InstalledIsWhole, NoUpload
<1> QED BY <1>1, <1>2, <1>3 DEF TxInv

\* Aborting a stage yields a stage.
LEMMA StageAbortType ==
  ASSUME TransactionType, NEW o
  PROVE  StageAbort(o) \in StageRecord
  BY InitialTypes DEF StageAbort, TransactionType

\* A failed transaction is a transaction.
LEMMA FailType ==
  ASSUME TransactionType, NEW st \in StageRecord, NEW error \in Errors,
         NEW touched \in BOOLEAN, Fail(st, error, touched)
  PROVE  TransactionType'
<1>1. stage' \in StageRecord
  BY InitialTypes DEF Fail
<1>2. last' \in UploadRecord
  BY Zenon DEF Fail, TransactionType, UploadRecord, States
<1> QED BY <1>1, <1>2, Zenon DEF Fail, TransactionType

\* Transaction, stage and owner keep their types.
LEMMA TransactionTypeStep ==
  ASSUME TypeOK, Next
  PROVE  TransactionType'
<1> USE UploadAssumption DEF TypeOK, txVars
<1>1. ASSUME NEW o \in Owners, NEW c \in Capsules, Begin(o, c) PROVE TransactionType'
  <2>1. last' \in UploadRecord
    BY <1>1, InitialTypes, Zenon DEF Begin, TransactionType, UploadRecord, States
  <2>2. stage' \in StageRecord
    BY <1>1, InitialTypes, Zenon DEF Begin, StageRecord
  <2> QED BY <1>1, <2>1, <2>2 DEF Begin, TransactionType
<1>2. ASSUME NEW o \in Owners, NEW c \in Capsules, NEW n \in 1..MaxChunk, Chunk(o, c, n)
      PROVE TransactionType'
  <2>1. last' \in UploadRecord
    <3>1. last.received + n \in Nat
      BY DEF TransactionType, UploadRecord
    <3> QED BY <1>2, <3>1, Zenon DEF Chunk, TransactionType, UploadRecord
  <2>2. stage' \in StageRecord
    <3>1. [i \in 1..n |-> c] \in Seq(Capsules)
      OBVIOUS
    <3>2. stage.data \o [i \in 1..n |-> c] \in Seq(Capsules)
      BY <3>1 DEF TransactionType, StageRecord
    <3> QED BY <1>2, <3>2, Zenon DEF Chunk, TransactionType, StageRecord
  <2> QED BY <1>2, <2>1, <2>2 DEF Chunk, TransactionType
<1>3. ASSUME NEW o \in Owners, Finish(o) PROVE TransactionType'
  <2>1. last' \in UploadRecord
    BY <1>3, ZenonT(30) DEF Finish, TransactionType, UploadRecord, States, Errors
  <2>2. stage' \in StageRecord
    <3>1. [stage EXCEPT !.verified = TRUE] \in StageRecord
      BY Zenon DEF TransactionType, StageRecord
    <3> QED BY <1>3, <3>1, StageAbortType, Zenon DEF Finish
  <2> QED BY <1>3, <2>1, <2>2 DEF Finish, TransactionType
<1>4. ASSUME NEW o \in Owners, Commit(o) PROVE TransactionType'
  BY <1>4 DEF Commit, TransactionType, UploadRecord, States
<1>5. ASSUME NEW o \in Owners, NEW error \in Errors, Abandon(o, error) PROVE TransactionType'
  <2>1. last' \in UploadRecord
    BY <1>5, Zenon DEF Abandon, TransactionType, UploadRecord, States
  <2> QED BY <1>5, <2>1, StageAbortType DEF Abandon, TransactionType
<1>6. ASSUME NEW o \in Owners, Abort(o) \/ Disconnect(o) PROVE TransactionType'
  BY <1>5, <1>6 DEF Abort, Disconnect, Errors
<1>7. CASE PollConfirm
  BY <1>7 DEF PollConfirm, TransactionType, UploadRecord, States
<1>8. CASE PollCommit
  <2>1. ASSUME NEW error \in {"unauthorized", "io_error"}, Fail(stage, error, last.touched)
        PROVE TransactionType'
    <3>1. error \in Errors /\ last.touched \in BOOLEAN /\ stage \in StageRecord
      BY <2>1 DEF Errors, TransactionType, UploadRecord
    <3> QED BY <2>1, <3>1, FailType
  <2> QED BY <1>8, <2>1, Zenon DEF PollCommit, TransactionType
<1>9. CASE RequestStore
  BY <1>9 DEF RequestStore, TransactionType
<1>10. ASSUME NEW error \in {"unauthorized", "io_error", "park_timeout", "install_failed"},
              NEW touched \in BOOLEAN, Fail(StageAbort(swOwner), error, touched)
       PROVE  TransactionType'
  BY <1>10, StageAbortType, FailType DEF Errors
<1>11. CASE PollWaiting
  BY <1>10, <1>11, Zenon DEF PollWaiting, TransactionType
<1>12. CASE CheckParked
  <2>1. [last EXCEPT !.touched = FALSE] \in UploadRecord
    BY Zenon DEF TransactionType, UploadRecord
  <2> QED BY <1>10, <1>12, <2>1, Zenon DEF CheckParked, TransactionType
<1>13. CASE FlashBegin
  BY <1>10, <1>13, Zenon DEF FlashBegin, InstallFailed, TransactionType
<1>14. CASE FlashErase
  BY <1>10, <1>14, Zenon DEF FlashErase, InstallFailed, TransactionType
<1>15. CASE FlashProgram
  BY <1>10, <1>15, Zenon DEF FlashProgram, InstallFailed, TransactionType
<1>16. CASE ReadBack
  <2>1. [last EXCEPT !.state = "installed", !.touched = TRUE] \in UploadRecord
    BY Zenon DEF TransactionType, UploadRecord, States
  <2> QED BY <1>10, <1>16, <2>1, StageAbortType, Zenon DEF ReadBack, InstallFailed, TransactionType
<1>17. CASE PowerCycle
  <2>1. last' = NoUpload /\ stage' = EmptyStage /\ owner' = None /\ nextId' = 1
        /\ commitPending' = FALSE
    BY <1>17 DEF PowerCycle
  <2>2. nextId' \in 0..Width-1
    BY <2>1
  <2>3. commitPending' \in BOOLEAN
    BY <2>1, Zenon
  <2> QED BY <2>1, <2>2, <2>3, InitialTypes DEF TransactionType
<1>18. CASE Boot \/ Core1 \/ Sketch \/ ToggleArm \/ Tick
  BY <1>18 DEF Boot, Core1, Sketch, ToggleArm, Tick, TransactionType, ParkFirst, ParkSecond,
     ParkStore, ParkSpin, ParkClear, LoadGeneration, StoreReturned, SetupReturns, LoopReturns,
     Core1Only
<1> QED BY <1>1, <1>2, <1>3, <1>4, <1>6, <1>7, <1>8, <1>9, <1>11, <1>12, <1>13, <1>14, <1>15,
           <1>16, <1>17, <1>18 DEF Next, Requests, Core0

\* The machine's variables keep their types.
LEMMA MachineTypeStep ==
  ASSUME TypeOK, Transaction, Next
  PROVE  MachineType'
<1> USE UploadAssumption DEF TypeOK, MachineType, FlashPhases, txVars, swVars, pinVars, flash,
        rtVars, core1, history
<1>1. ASSUME NEW o \in Owners, NEW c \in Capsules, Begin(o, c) PROVE MachineType'
  BY <1>1 DEF Begin
<1>2. ASSUME NEW o \in Owners, NEW c \in Capsules, NEW n \in 1..MaxChunk, Chunk(o, c, n)
      PROVE MachineType'
  BY <1>2 DEF Chunk
<1>3. ASSUME NEW o \in Owners, Finish(o) \/ Commit(o) \/ Abort(o) \/ Disconnect(o)
      PROVE MachineType'
  BY <1>3, ZenonT(30) DEF Finish, Commit, Abort, Disconnect, Abandon
<1>4. CASE PollConfirm
  BY <1>4 DEF PollConfirm
<1>5. CASE PollCommit
  BY <1>5 DEF PollCommit
<1>6. CASE RequestStore
  BY <1>6 DEF RequestStore, TransactionType
<1>7. CASE PollWaiting
  BY <1>7, Zenon DEF PollWaiting
<1>8. CASE CheckParked
  <2>1. requested' \in BOOLEAN /\ swOwner' \in Owners \cup {None}
    BY <1>8, Zenon DEF CheckParked
  <2>2. gen' \in 0..Width-1 /\ returned' \in 0..Width-1
    <3>1. (gen' = 0 /\ returned' = 0) \/ (gen' = gen /\ returned' = returned)
      BY <1>8, Zenon DEF CheckParked, RuntimeStop
    <3> QED BY <3>1
  <2> QED BY <1>8, <2>1, <2>2, Zenon DEF CheckParked
<1>9. CASE FlashBegin
  BY <1>9, Zenon DEF FlashBegin, InstallFailed
<1>10. CASE FlashErase
  <2>1. Blank \in Contents
    BY DEF Blank, Contents
  <2>2. slot' \in Contents /\ page' \in Nat
    <3>1. slot' \in {slot, Blank} /\ page' \in {1, page}
      BY <1>10, Zenon DEF FlashErase
    <3> QED BY <2>1, <3>1
  <2>3. requested' \in BOOLEAN /\ swOwner' \in Owners \cup {None}
    BY <1>10, Zenon DEF FlashErase, InstallFailed
  <2> QED BY <1>10, <2>2, <2>3, Zenon DEF FlashErase, InstallFailed
<1>11. CASE FlashProgram
  <2>1. stage.data[page] \in Capsules
    BY <1>11 DEF FlashProgram, Transaction, TransactionType, StageRecord
  <2>2. slot' \in Contents
    BY <1>11, <2>1, Zenon DEF FlashProgram, Contents
  <2>3. page' \in Nat
    <3>1. page' \in {page, page + 1}
      BY <1>11, Zenon DEF FlashProgram
    <3> QED BY <3>1
  <2>4. requested' \in BOOLEAN /\ swOwner' \in Owners \cup {None}
    BY <1>11, Zenon DEF FlashProgram, InstallFailed
  <2>5. pc0' \in {"program", "readback", "loop"}
    BY <1>11, Zenon DEF FlashProgram, InstallFailed
  <2> QED BY <1>11, <2>2, <2>3, <2>4, <2>5 DEF FlashProgram
<1>12. CASE ReadBack
  <2>1. NextGeneration(nextGen) \in 1..Width-1 /\ nextGen \in 0..Width-1
    BY DEF NextGeneration
  <2>2. last.id \in 0..Width-1 /\ stage.digest \in Capsules \cup {None}
    BY DEF TransactionType, UploadRecord, StageRecord
  <2>3. requested' \in BOOLEAN /\ swOwner' \in Owners \cup {None} /\ pc0' = "loop"
    BY <1>12, Zenon DEF ReadBack, InstallFailed
  <2>4. gen' \in 0..Width-1 /\ returned' \in 0..Width-1 /\ nextGen' \in 1..Width-1
        /\ image' \in Capsules \cup {None} /\ published' \in 0..Width-1
    <3>1. \/ /\ gen' = nextGen /\ returned' = 0 /\ nextGen' = NextGeneration(nextGen)
             /\ image' = stage.digest /\ published' = last.id
          \/ UNCHANGED <<gen, returned, nextGen, image, published>>
      BY <1>12, Zenon DEF ReadBack
    <3> QED BY <2>1, <2>2, <3>1
  <2> QED BY <1>12, <2>3, <2>4 DEF ReadBack
<1>13. CASE Boot
  BY <1>13 DEF Boot
<1>14. CASE Core1
  BY <1>14, ZenonT(30) DEF Core1, ParkFirst, ParkSecond, ParkStore, ParkSpin, ParkClear, LoadGeneration,
     StoreReturned, Core1Only
<1>15. CASE Sketch
  BY <1>15, Zenon DEF Sketch, SetupReturns, LoopReturns, Core1Only
<1>16. CASE ToggleArm
  BY <1>16 DEF ToggleArm
<1>17. CASE Tick
  BY <1>17 DEF Tick
<1>18. CASE PowerCycle
  <2>1. 0 \in 0..Width-1 /\ 2 \in 1..Width-1 /\ 1 \in Nat /\ 0 \in 0..PauseTimeout
    OBVIOUS
  <2>2. slot \in Contents /\ armed \in BOOLEAN
    OBVIOUS
  <2> QED BY <1>18, <2>1, <2>2, Zenon DEF PowerCycle
<1> QED BY <1>1, <1>2, <1>3, <1>4, <1>5, <1>6, <1>7, <1>8, <1>9, <1>10, <1>11, <1>12, <1>13,
           <1>14, <1>15, <1>16, <1>17, <1>18, Zenon DEF Next, Requests, Core0

----------------------------------------------------------------------------
\* FmgoUpload::fail ends the transaction and leaves the stage alone or empty.
LEMMA FailEffect ==
  ASSUME TransactionType, NEW st \in {stage, EmptyStage}, NEW error, NEW touched,
         Fail(st, error, touched)
  PROVE  /\ last'.id = last.id /\ last'.capsule = last.capsule
         /\ last'.state = "failed" /\ last'.touched = touched
         /\ stage' \in {stage, EmptyStage} /\ owner' = owner
<1>1. last' = [last EXCEPT !.state = "failed", !.error = error, !.touched = touched]
  BY DEF Fail
<1>2. stage' \in {stage, EmptyStage} /\ owner' = owner
  BY DEF Fail
<1> QED BY <1>1, <1>2 DEF TransactionType, UploadRecord

\* A transaction that fails still satisfies its invariant.
LEMMA AfterFail ==
  ASSUME TransactionType, Transaction, NEW st \in {stage, EmptyStage}, NEW error,
         NEW touched, Fail(st, error, touched), pc0' = "loop"
  PROVE  Transaction'
<1>1. /\ last'.id = last.id /\ last'.capsule = last.capsule
      /\ last'.state = "failed"
      /\ stage' \in {stage, EmptyStage} /\ owner' = owner
  BY FailEffect
<1>2. (stage.owner # None => stage.digest \in Capsules)'
  BY <1>1 DEF Transaction, EmptyStage
<1>3. (stage.verified => stage.owner # None /\ DigestMatches(stage))'
  BY <1>1 DEF Transaction, EmptyStage, DigestMatches
<1> QED BY <1>1, <1>2, <1>3 DEF Transaction, BlocksConsole

\* Aborting leaves the stage as it is or empties it.
LEMMA StageAbortChoice == \A o : StageAbort(o) \in {stage, EmptyStage}
  BY DEF StageAbort

\* A step of core 1 or of the environment does not touch the transaction.
LEMMA TransactionFrame ==
  ASSUME Transaction, UNCHANGED <<last, owner, stage, page, pc0>>
  PROVE  Transaction'
  BY DEF Transaction, BlocksConsole, DigestMatches

\* The transaction invariant is preserved by every step.
LEMMA TransactionStep ==
  ASSUME TypeOK, Transaction, Next
  PROVE  Transaction'
<1> USE UploadAssumption DEF TypeOK
<1>1. ASSUME NEW o \in Owners, NEW c \in Capsules, Begin(o, c) PROVE Transaction'
  <2>1. /\ last'.id = nextId /\ last'.capsule = c /\ last'.state = "accepted"
        /\ last'.touched = FALSE
    BY <1>1 DEF Begin, NoUpload
  <2>2. stage'.owner = o /\ stage'.digest = c /\ ~stage'.verified
    BY <1>1 DEF Begin, EmptyStage
  <2> QED BY <1>1, <2>1, <2>2 DEF Begin, Transaction, BlocksConsole
<1>2. ASSUME NEW o \in Owners, NEW c \in Capsules, NEW n \in 1..MaxChunk, Chunk(o, c, n)
      PROVE Transaction'
  <2>1. /\ last'.id = last.id /\ last'.capsule = last.capsule /\ last'.state = last.state
        /\ last'.touched = last.touched
    BY <1>2 DEF Chunk, TransactionType, UploadRecord
  <2>2. /\ stage'.owner = stage.owner /\ stage'.digest = stage.digest
        /\ stage'.verified = stage.verified
    BY <1>2 DEF Chunk, TransactionType, StageRecord
  <2> QED BY <1>2, <2>1, <2>2 DEF Chunk, Transaction, BlocksConsole
<1>3. ASSUME NEW o \in Owners, Finish(o) PROVE Transaction'
  <2>1. last.id # 0 /\ last.state = "accepted" /\ stage.owner = o /\ ~stage.verified /\ o = owner
        /\ last.touched = FALSE /\ stage.digest \in Capsules /\ stage.digest = last.capsule
    BY <1>3 DEF Finish, Transaction, BlocksConsole, TransactionType, UploadRecord
  <2>2. CASE DigestMatches(stage) /\ stage.digest \in Valid
    <3>1. stage' = [stage EXCEPT !.verified = TRUE] /\ last' = [last EXCEPT !.state = "verified"]
      BY <1>3, <2>1, <2>2 DEF Finish
    <3>2. /\ last'.id = last.id /\ last'.capsule = last.capsule
          /\ last'.state = "verified" /\ last'.touched = FALSE
      BY <2>1, <3>1 DEF TransactionType, UploadRecord
    <3>3. /\ stage'.owner = o /\ stage'.digest = stage.digest
          /\ stage'.verified /\ stage'.data = stage.data
      BY <2>1, <3>1 DEF TransactionType, StageRecord
    <3>4. DigestMatches(stage)'
      BY <2>2, <3>3 DEF DigestMatches
    <3> QED BY <1>3, <2>1, <3>2, <3>3, <3>4 DEF Finish, Transaction, BlocksConsole
  <2>3. CASE ~(DigestMatches(stage) /\ stage.digest \in Valid)
    <3>1. /\ stage' = EmptyStage /\ last'.id = last.id /\ last'.capsule = last.capsule
          /\ last'.state = "failed"
      BY <1>3, <2>1, <2>3, ZenonT(30) DEF Finish, StageAbort, TransactionType, UploadRecord
    <3> QED BY <1>3, <2>1, <3>1 DEF Finish, Transaction, BlocksConsole, EmptyStage
  <2> QED BY <2>2, <2>3
<1>4. ASSUME NEW o \in Owners, Commit(o) PROVE Transaction'
  <2>1. /\ last'.id = last.id /\ last'.capsule = last.capsule
        /\ last'.state = "committing" /\ last'.touched = last.touched
    BY <1>4 DEF Commit, TransactionType, UploadRecord
  <2> QED BY <1>4, <2>1 DEF Commit, Transaction, BlocksConsole, DigestMatches
<1>5. ASSUME NEW o \in Owners, NEW error, Abandon(o, error) PROVE Transaction'
  <2>1. /\ last'.id = last.id /\ last'.capsule = last.capsule /\ last'.state = "aborted"
        /\ stage' = EmptyStage /\ owner' = owner /\ pc0' = "loop"
    BY <1>5 DEF Abandon, Uncommitted, StageAbort, Transaction, BlocksConsole, TransactionType,
       UploadRecord
  <2> QED BY <2>1 DEF Transaction, BlocksConsole, EmptyStage
<1>6. ASSUME NEW o \in Owners, Abort(o) \/ Disconnect(o) PROVE Transaction'
  BY <1>5, <1>6 DEF Abort, Disconnect
<1>7. CASE PollConfirm
  <2>1. last'.id = last.id /\ last'.capsule = last.capsule /\ last'.state = "boot_confirmed"
    BY <1>7 DEF PollConfirm, TransactionType, UploadRecord
  <2> QED BY <1>7, <2>1 DEF PollConfirm, Transaction, BlocksConsole, DigestMatches
<1>8. CASE PollCommit
  <2>1. ASSUME NEW error, Fail(stage, error, last.touched), UNCHANGED pc0 PROVE Transaction'
    BY <1>8, <2>1, AfterFail DEF PollCommit
  <2>2. ASSUME UNCHANGED <<last, owner, stage, page>>, pc0' = "request" PROVE Transaction'
    BY <1>8, <2>2 DEF PollCommit, Transaction, BlocksConsole, DigestMatches
  <2> QED BY <1>8, <2>1, <2>2 DEF PollCommit, flash
<1>9. CASE RequestStore
  BY <1>9 DEF RequestStore, Transaction, BlocksConsole, DigestMatches, txVars, flash
<1>10. ASSUME NEW error, NEW touched, Fail(StageAbort(swOwner), error, touched), pc0' = "loop"
       PROVE  Transaction'
  BY <1>10, AfterFail, StageAbortChoice
<1>11. CASE PollWaiting
  <2>1. ASSUME UNCHANGED <<txVars, stage, flash>>, pc0' = "check" PROVE Transaction'
    BY <1>11, <2>1 DEF PollWaiting, Transaction, BlocksConsole, DigestMatches, txVars, flash
  <2> QED BY <1>10, <1>11, <2>1, Zenon DEF PollWaiting
<1>12. CASE CheckParked
  <2>1. ASSUME last' = [last EXCEPT !.touched = FALSE], UNCHANGED <<owner, stage, page>>,
               pc0' = "loop"
        PROVE Transaction'
    <3>1. /\ last'.id = last.id /\ last'.capsule = last.capsule
          /\ last'.state = last.state /\ last'.touched = FALSE
      BY <2>1 DEF TransactionType, UploadRecord
    <3> QED BY <2>1, <3>1 DEF Transaction, BlocksConsole, DigestMatches
  <2>2. ASSUME UNCHANGED <<last, owner, stage, page>>, pc0' = "begin" PROVE Transaction'
    BY <1>12, <2>2 DEF CheckParked, Transaction, BlocksConsole, DigestMatches
  <2> QED BY <1>10, <1>12, <2>1, <2>2, Zenon DEF CheckParked, txVars, flash
<1>13. CASE FlashBegin
  <2>1. ASSUME UNCHANGED <<last, owner, stage, page>>, pc0' = "erase" PROVE Transaction'
    BY <1>13, <2>1 DEF FlashBegin, Transaction, BlocksConsole, DigestMatches
  <2> QED BY <1>10, <1>13, <2>1, Zenon DEF FlashBegin, InstallFailed, txVars, flash
<1>14. CASE FlashErase
  <2>1. ASSUME UNCHANGED <<last, owner, stage>>, page' = 1, pc0' = "program" PROVE Transaction'
    <3>1. 1 \in 1..Len(stage.data)
      BY <1>14 DEF FlashErase, Transaction, BlocksConsole, DigestMatches
    <3> QED BY <1>14, <2>1, <3>1 DEF FlashErase, Transaction, BlocksConsole, DigestMatches
  <2> QED BY <1>10, <1>14, <2>1, Zenon DEF FlashErase, InstallFailed, txVars
<1>15. CASE FlashProgram
  <2>1. ASSUME UNCHANGED <<last, owner, stage>>, page' = page + 1,
               pc0' = IF page = Len(stage.data) THEN "readback" ELSE "program"
        PROVE Transaction'
    <3>1. pc0' = "program" => page' \in 1..Len(stage.data)
      BY <1>15, <2>1, SMTT(30) DEF FlashProgram, Transaction, TransactionType, StageRecord
    <3> QED BY <1>15, <2>1, <3>1 DEF FlashProgram, Transaction, BlocksConsole, DigestMatches
  <2> QED BY <1>10, <1>15, <2>1, Zenon DEF FlashProgram, InstallFailed, txVars
<1>16. CASE ReadBack
  <2>1. ASSUME last' = [last EXCEPT !.state = "installed", !.touched = TRUE],
               stage' = StageAbort(swOwner), UNCHANGED owner, pc0' = "loop"
        PROVE Transaction'
    <3>1. last'.id = last.id /\ last'.capsule = last.capsule /\ last'.state = "installed"
      BY <2>1 DEF TransactionType, UploadRecord
    <3>2. (stage.owner # None => stage.digest \in Capsules)'
      BY <2>1, StageAbortChoice DEF Transaction, EmptyStage
    <3>3. (stage.verified => stage.owner # None /\ DigestMatches(stage))'
      BY <2>1, StageAbortChoice, SMTT(30) DEF Transaction, EmptyStage, DigestMatches
    <3> QED BY <2>1, <3>1, <3>2, <3>3 DEF Transaction, BlocksConsole
  <2> QED BY <1>10, <1>16, <2>1, Zenon DEF ReadBack, InstallFailed
<1>17. CASE PowerCycle
  BY <1>17 DEF PowerCycle, Transaction, BlocksConsole, NoUpload, EmptyStage
<1>18. CASE Boot
  BY <1>18, ZenonT(30) DEF Boot, Transaction, BlocksConsole, DigestMatches, txVars, flash
<1>19. CASE Core1 \/ Sketch \/ ToggleArm \/ Tick
  BY <1>19, TransactionFrame DEF Core1, Sketch, ToggleArm, Tick, txVars, flash, ParkFirst,
     ParkSecond, ParkStore, ParkSpin, ParkClear, LoadGeneration, StoreReturned, SetupReturns,
     LoopReturns, Core1Only
<1> QED BY <1>1, <1>2, <1>3, <1>4, <1>6, <1>7, <1>8, <1>9, <1>11, <1>12, <1>13, <1>14, <1>15,
           <1>16, <1>17, <1>18, <1>19 DEF Next, Requests, Core0

----------------------------------------------------------------------------
\* Outside the flash commands the slot stays, so only the record can change.
LEMMA RecordFrame ==
  ASSUME TransactionType, Transaction, Record, UNCHANGED <<slot, before>>,
         pc0 \notin {"program", "readback"}, last'.touched \/ ~last.touched,
         \/ UNCHANGED last
         \/ last'.state \notin {"installed", "boot_confirmed"}
         \/ last.id # 0 /\ last.state = "installed" /\ last'.capsule = last.capsule
  PROVE  Record'
  BY DEF Record, InstalledIsWhole

\* What the record says of the slot is preserved by every step.
LEMMA RecordStep ==
  ASSUME TypeOK, Transaction, Record, Next
  PROVE  Record'
<1> USE UploadAssumption DEF TypeOK
<1>0. last \in UploadRecord /\ last.touched \in BOOLEAN
  BY DEF TransactionType, UploadRecord
<1>1. ASSUME NEW o \in Owners, NEW c \in Capsules, Begin(o, c) PROVE Record'
  BY <1>1 DEF Begin, NoUpload, Record, InstalledIsWhole, flash
<1>2. ASSUME NEW o \in Owners, NEW c \in Capsules, NEW n \in 1..MaxChunk, Chunk(o, c, n)
      PROVE Record'
  <2>1. last'.state = "accepted" /\ last'.touched = last.touched
    BY <1>2, <1>0 DEF Chunk, UploadRecord
  <2> QED BY <1>0, <1>2, <2>1, RecordFrame DEF Chunk, flash, history
<1>3. ASSUME NEW o \in Owners, Finish(o) PROVE Record'
  <2>1. last'.state \in {"verified", "failed"} /\ last'.touched = last.touched
    BY <1>3, <1>0, Zenon DEF Finish, UploadRecord
  <2> QED BY <1>0, <1>3, <2>1, RecordFrame DEF Finish, flash, history
<1>4. ASSUME NEW o \in Owners, Commit(o) PROVE Record'
  <2>1. last'.state = "committing" /\ last'.touched = last.touched
    BY <1>4, <1>0 DEF Commit, UploadRecord
  <2> QED BY <1>0, <1>4, <2>1, RecordFrame DEF Commit, flash, history
<1>5. ASSUME NEW o \in Owners, NEW error, Abandon(o, error) PROVE Record'
  <2>1. last'.state = "aborted" /\ last'.touched = last.touched
    BY <1>5, <1>0 DEF Abandon, UploadRecord
  <2> QED BY <1>0, <1>5, <2>1, RecordFrame DEF Abandon, flash, history
<1>6. ASSUME NEW o \in Owners, Abort(o) \/ Disconnect(o) PROVE Record'
  BY <1>5, <1>6 DEF Abort, Disconnect
<1>7. CASE PollConfirm
  <2>1. last'.capsule = last.capsule /\ last'.touched = last.touched
    BY <1>7, <1>0 DEF PollConfirm, UploadRecord
  <2> QED BY <1>0, <1>7, <2>1, RecordFrame DEF PollConfirm, flash, history
<1>8. ASSUME NEW st, NEW error, NEW touched, Fail(st, error, touched), slot' = before'
      PROVE  Record'
  <2>1. last'.state = "failed"
    BY <1>0, <1>8 DEF Fail, UploadRecord
  <2> QED BY <1>8, <2>1 DEF Record, InstalledIsWhole
<1>9. pc0 \notin {"boot", "loop", "program", "readback"} => slot = before
  BY <1>0 DEF Record, Transaction, BlocksConsole
<1>10. pc0 = "loop" /\ last.id # 0 /\ last.state = "committing"
         => slot = before /\ ~last.touched
  BY <1>0 DEF Record, Transaction, BlocksConsole
<1>11. CASE PollCommit
  <2>1. UNCHANGED <<slot, before>> /\ slot = before
    BY <1>10, <1>11 DEF PollCommit, flash, history
  <2>2. ASSUME NEW error, Fail(stage, error, last.touched), UNCHANGED pc0 PROVE Record'
    BY <1>8, <1>11, <2>1, <2>2 DEF PollCommit
  <2>3. ASSUME UNCHANGED last PROVE Record'
    BY <1>0, <1>11, <2>1, <2>3, RecordFrame DEF PollCommit
  <2> QED BY <1>11, <2>2, <2>3 DEF PollCommit
<1>12. CASE RequestStore
  BY <1>0, <1>12, RecordFrame DEF RequestStore, txVars, flash, history
<1>13. CASE PollWaiting
  <2>1. UNCHANGED <<slot, before>> /\ slot = before
    BY <1>10, <1>13 DEF PollWaiting, flash, history
  <2>2. ASSUME NEW error, Fail(StageAbort(swOwner), error, FALSE), UNCHANGED pc0 PROVE Record'
    BY <1>8, <2>1, <2>2, Zenon
  <2>3. ASSUME UNCHANGED last PROVE Record'
    BY <1>0, <1>13, <2>1, <2>3, RecordFrame DEF PollWaiting
  <2> QED BY <1>13, <2>2, <2>3, Zenon DEF PollWaiting, txVars
<1>14. CASE CheckParked
  <2>1. UNCHANGED <<slot, before>> /\ slot = before
    BY <1>9, <1>14, Zenon DEF CheckParked, flash, history
  <2>2. ASSUME Fail(StageAbort(swOwner), "park_timeout", FALSE), pc0' = "loop" PROVE Record'
    BY <1>8, <2>1, <2>2, Zenon
  <2>3. ASSUME UNCHANGED last PROVE Record'
    BY <1>0, <1>14, <2>1, <2>3, RecordFrame DEF CheckParked
  <2>4. ASSUME last' = [last EXCEPT !.touched = FALSE] PROVE Record'
    <3>1. last'.state = "committing"
      BY <1>0, <1>14, <2>4 DEF CheckParked, Transaction, UploadRecord
    <3> QED BY <2>1, <3>1 DEF Record, InstalledIsWhole
  <2> QED BY <1>14, <2>2, <2>3, <2>4, Zenon DEF CheckParked, txVars
<1>15. CASE FlashBegin
  <2>1. UNCHANGED <<slot, before>> /\ slot = before
    BY <1>9, <1>15 DEF FlashBegin, flash, history
  <2>2. ASSUME InstallFailed(FALSE) PROVE Record'
    BY <1>8, <2>1, <2>2, Zenon DEF InstallFailed
  <2>3. ASSUME UNCHANGED last PROVE Record'
    BY <1>0, <1>15, <2>1, <2>3, RecordFrame DEF FlashBegin
  <2> QED BY <1>15, <2>2, <2>3, Zenon DEF FlashBegin, txVars
<1>16. ASSUME InstallFailed(TRUE) PROVE Record'
  <2>1. last' = [last EXCEPT !.state = "failed", !.error = "install_failed", !.touched = TRUE]
    BY <1>16 DEF InstallFailed, Fail
  <2>2. last'.state = "failed" /\ last'.touched
    BY <1>0, <2>1 DEF UploadRecord
  <2> QED BY <2>2 DEF Record, InstalledIsWhole
<1>17. CASE FlashErase \/ FlashProgram
  <2>1. ASSUME UNCHANGED last, pc0' \in {"program", "readback"} PROVE Record'
    BY <1>17, <2>1, Zenon DEF FlashErase, FlashProgram, Record, InstalledIsWhole, Transaction
  <2> QED BY <1>16, <1>17, <2>1, Zenon DEF FlashErase, FlashProgram, txVars
<1>18. CASE ReadBack
  <2>1. ASSUME last' = [last EXCEPT !.state = "installed", !.touched = TRUE],
               SlotVerified, UNCHANGED slot
        PROVE Record'
    <3>1. last'.touched /\ last'.capsule = last.capsule
      BY <1>0, <2>1 DEF UploadRecord
    <3>2. Holds(slot, last.capsule)
      BY <1>18, <2>1 DEF ReadBack, SlotVerified, Transaction, BlocksConsole
    <3> QED BY <2>1, <3>1, <3>2 DEF Record, InstalledIsWhole
  <2> QED BY <1>16, <1>18, <2>1, Zenon DEF ReadBack, flash
<1>19. CASE PowerCycle
  BY <1>19 DEF PowerCycle, Record, InstalledIsWhole, NoUpload
<1>20. CASE Boot
  BY <1>0, <1>20, RecordFrame, Zenon DEF Boot, txVars, flash, history
<1>21. CASE Core1 \/ Sketch \/ ToggleArm \/ Tick
  BY <1>21, ZenonT(30) DEF Record, InstalledIsWhole, Core1, Sketch, ToggleArm, Tick, txVars, flash, history,
     ParkFirst, ParkSecond, ParkStore, ParkSpin, ParkClear, LoadGeneration, StoreReturned,
     SetupReturns, LoopReturns, Core1Only
<1> QED BY <1>1, <1>2, <1>3, <1>4, <1>6, <1>7, <1>11, <1>12, <1>13, <1>14, <1>15, <1>17, <1>18,
           <1>19, <1>20, <1>21 DEF Next, Requests, Core0

----------------------------------------------------------------------------
\* The pause handshake is preserved by every step, given that core 1 does not
\* linger between its second requested_ load and its parked_ store.
LEMMA HandshakeStep ==
  ASSUME PromptPark, TypeOK, Transaction, Handshake, Next
  PROVE  Handshake'
<1> USE UploadAssumption DEF Handshake, Flashing, FlashPhases
<1>1. ASSUME UNCHANGED <<requested, parked, swOwner, pc0, pc1>> PROVE Handshake'
  BY <1>1
<1>2. CASE Requests
  BY <1>1, <1>2, Zenon DEF Requests, Begin, Chunk, Finish, Commit, Abort, Disconnect, Abandon, pinVars,
     swVars, core1
<1>3. CASE PollConfirm \/ ToggleArm \/ Tick
  BY <1>1, <1>3 DEF PollConfirm, ToggleArm, Tick, pinVars, swVars, core1
<1>4. CASE PollCommit
  BY <1>4 DEF PollCommit, PauseBusy, pinVars, swVars, core1
<1>5. CASE RequestStore
  <2>1. owner # None
    BY <1>5 DEF RequestStore, Transaction
  <2> QED BY <1>5, <2>1 DEF RequestStore, core1
<1>6. CASE PollWaiting
  BY <1>6, Zenon DEF PollWaiting, core1
<1>7. CASE CheckParked
  BY <1>7, Zenon DEF CheckParked, core1
<1>8. CASE FlashBegin \/ FlashErase \/ FlashProgram \/ ReadBack
  BY <1>8, Zenon DEF FlashBegin, FlashErase, FlashProgram, ReadBack, InstallFailed, core1
<1>9. CASE Boot
  BY <1>9, ZenonT(30) DEF Boot, pinVars, swVars, core1
<1>10. CASE Core1 \/ Sketch
  BY <1>10 DEF Core1, Sketch, ParkFirst, ParkSecond, ParkStore, ParkSpin, ParkClear,
     LoadGeneration, StoreReturned, SetupReturns, LoopReturns, Core1Only, swVars
<1>11. CASE PowerCycle
  BY <1>11 DEF PowerCycle
<1> QED BY <1>2, <1>3, <1>4, <1>5, <1>6, <1>7, <1>8, <1>9, <1>10, <1>11 DEF Next, Core0

\* The published generation stays whole: the slot changes only while none is
\* published, and one is published or withdrawn only while core 1 is parked.
LEMMA PublishedStep ==
  ASSUME TypeOK, Handshake, Published, Next
  PROVE  Published'
<1> USE UploadAssumption DEF Published, InSketch, FlashPhases
<1>1. ASSUME UNCHANGED <<slot, image, gen, pc1, gen1, code1>>,
             pc0' \in FlashPhases \cup {"boot"} => pc0 \in FlashPhases \cup {"boot"}
      PROVE Published'
  BY <1>1
<1>2. CASE Requests
  BY <1>1, <1>2, Zenon DEF Requests, Begin, Chunk, Finish, Commit, Abort, Disconnect, Abandon, flash,
     rtVars, core1
<1>3. CASE PollConfirm \/ ToggleArm \/ Tick \/ PollCommit \/ RequestStore \/ PollWaiting
           \/ FlashBegin
  BY <1>1, <1>3, Zenon DEF PollConfirm, ToggleArm, Tick, PollCommit, RequestStore, PollWaiting,
     FlashBegin, InstallFailed, flash, rtVars, core1
<1>4. CASE CheckParked
  BY <1>4, Zenon DEF CheckParked, RuntimeStop, Handshake, flash, rtVars, core1
<1>5. CASE FlashErase \/ FlashProgram
  BY <1>5, Zenon DEF FlashErase, FlashProgram, InstallFailed, Handshake, Flashing, rtVars, core1
<1>6. CASE ReadBack
  BY <1>6, Zenon DEF ReadBack, SlotVerified, InstallFailed, Handshake, Flashing, flash, rtVars, core1
<1>7. CASE Boot
  BY <1>7, ZenonT(30) DEF Boot, flash, core1
<1>8. CASE Core1 \/ Sketch
  BY <1>8 DEF Core1, Sketch, ParkFirst, ParkSecond, ParkStore, ParkSpin, ParkClear,
     LoadGeneration, StoreReturned, SetupReturns, LoopReturns, Core1Only, flash
<1>9. CASE PowerCycle
  BY <1>9 DEF PowerCycle
<1> QED BY <1>2, <1>3, <1>4, <1>5, <1>6, <1>7, <1>8, <1>9 DEF Next, Core0

\* ++next_generation_ always moves on, across the wrap as well.
LEMMA GenerationMoves == \A g \in 1..Width-1 : NextGeneration(g) # g
  BY UploadAssumption DEF NextGeneration

\* A step that leaves generations and core 1 alone, and installs nothing.
LEMMA GenerationsFrame ==
  ASSUME Generations, UNCHANGED <<rtVars, core1, published, serial1, setupOf, completed>>,
         pc0' = "boot" => pc0 = "boot", Flashing' => Flashing,
         requested' => requested \/ pc1 # "spin",
         Flashing => Flashing' \/ ~requested',
         \/ UNCHANGED last
         \/ last'.state \notin {"installed", "boot_confirmed"}
  PROVE  Generations'
  BY DEF Generations, InSketch, rtVars, core1

\* What core 1 has set up and returned from is preserved by every step.
LEMMA GenerationsStep ==
  ASSUME TypeOK, Transaction, Handshake, Published, Generations, Next
  PROVE  Generations'
<1> USE UploadAssumption DEF FlashPhases, Flashing
<1>0. last \in UploadRecord
  BY DEF TypeOK, TransactionType
<1>1. CASE Requests
  <2>1. pc0 = "loop" /\ pc0' = pc0 /\ requested' = requested
        /\ UNCHANGED <<rtVars, core1, published, serial1, setupOf, completed>>
    BY <1>1, Zenon DEF Requests, Begin, Chunk, Finish, Commit, Abort, Disconnect, Abandon, pinVars,
       history
  <2>2. last'.state \notin {"installed", "boot_confirmed"}
    BY <1>0, <1>1, ZenonT(30) DEF Requests, Begin, Chunk, Finish, Commit, Abort, Disconnect, Abandon,
       NoUpload, UploadRecord
  <2> QED BY <2>1, <2>2, GenerationsFrame
<1>2. CASE ToggleArm \/ Tick \/ RequestStore
  BY <1>2, GenerationsFrame DEF ToggleArm, Tick, RequestStore, Handshake, pinVars, history, txVars
<1>3. CASE PollConfirm
  <2>1. last'.id = last.id /\ last'.state = "boot_confirmed"
    BY <1>0, <1>3 DEF PollConfirm, UploadRecord
  <2> QED BY <1>3, <2>1 DEF PollConfirm, GenerationReturned, Generations, InSketch, rtVars, core1,
             history, pinVars
<1>4. ASSUME NEW st, NEW error, NEW touched, Fail(st, error, touched)
      PROVE  last'.state = "failed"
  BY <1>0, <1>4 DEF Fail, UploadRecord
<1>5. CASE PollCommit
  <2>1. UNCHANGED last \/ last'.state = "failed"
    BY <1>4, <1>5, Zenon DEF PollCommit
  <2> QED BY <1>5, <2>1, GenerationsFrame, Zenon DEF PollCommit, pinVars, history
<1>6. CASE PollWaiting
  <2>1. UNCHANGED last \/ last'.state = "failed"
    BY <1>4, <1>6, Zenon DEF PollWaiting, txVars
  <2> QED BY <1>6, <2>1, GenerationsFrame, Zenon DEF PollWaiting, history
<1>7. CASE CheckParked
  <2>1. ASSUME ~parked PROVE Generations'
    <3>1. last'.state \in {"committing", "failed"}
      <4>1. last' = [last EXCEPT !.touched = FALSE]
            \/ Fail(StageAbort(swOwner), "park_timeout", FALSE)
        BY <1>7, <2>1, Zenon DEF CheckParked
      <4>2. Fail(StageAbort(swOwner), "park_timeout", FALSE) => last'.state = "failed"
        BY <1>4, Zenon
      <4>3. last' = [last EXCEPT !.touched = FALSE] => last'.state = "committing"
        BY <1>0, <1>7 DEF CheckParked, Transaction, UploadRecord
      <4> QED BY <4>1, <4>2, <4>3, Zenon
    <3>2. /\ UNCHANGED <<rtVars, core1, published, serial1, setupOf, completed>>
          /\ pc0 = "check" /\ pc0' = "loop"
      BY <1>7, <2>1, Zenon DEF CheckParked, history
    <3>3. requested
      BY <3>2 DEF Handshake
    <3> QED BY <3>1, <3>2, <3>3, GenerationsFrame
  <2>2. ASSUME parked PROVE Generations'
    <3>1. pc1 = "spin" /\ requested
      BY <1>7, <2>2 DEF CheckParked, Handshake
    <3>2. UNCHANGED <<last, core1, history, nextGen>> /\ gen' = 0 /\ returned' = 0
          /\ pc0' = "begin"
      BY <1>7, <2>2 DEF CheckParked, RuntimeStop, txVars
    <3>3. running # nextGen /\ nextGen # 0
      BY <1>7, <3>1 DEF CheckParked, Generations, TypeOK, MachineType
    <3> QED BY <3>1, <3>2, <3>3 DEF Generations, InSketch, core1, history
  <2> QED BY <2>1, <2>2
<1>8. CASE FlashBegin \/ FlashErase \/ FlashProgram
  <2>1. UNCHANGED last \/ last'.state = "failed"
    BY <1>4, <1>8, Zenon DEF FlashBegin, FlashErase, FlashProgram, InstallFailed, txVars
  <2>2. Flashing /\ (Flashing' \/ ~requested') /\ requested /\ pc0' # "boot"
    BY <1>8, Zenon DEF FlashBegin, FlashErase, FlashProgram, InstallFailed, Handshake
  <2> QED BY <1>8, <2>1, <2>2, GenerationsFrame, Zenon DEF FlashBegin, FlashErase, FlashProgram, history
<1>9. CASE ReadBack
  <2>1. ASSUME InstallFailed(TRUE), UNCHANGED <<rtVars, published>> PROVE Generations'
    <3>1. last'.state = "failed"
      BY <1>4, <2>1, Zenon DEF InstallFailed
    <3> QED BY <1>9, <2>1, <3>1, GenerationsFrame DEF ReadBack, InstallFailed
  <2>2. ASSUME SlotVerified PROVE Generations'
    <3>1. last'.id = last.id /\ last'.state = "installed"
      BY <1>0, <1>9, <2>2, Zenon DEF ReadBack, UploadRecord
    <3>2. pc1 = "spin" /\ ~requested' /\ pc0' = "loop" /\ running # nextGen
      BY <1>9, <2>2 DEF ReadBack, Handshake, Generations
    <3>3. nextGen' # nextGen /\ nextGen # 0
      BY <1>9, <2>2, GenerationMoves DEF ReadBack, TypeOK, MachineType
    <3>4. /\ gen' = nextGen /\ returned' = 0 /\ published' = last.id
          /\ UNCHANGED <<pc1, running, serial1, setupOf, completed>>
      BY <1>9, <2>2, ZenonT(30) DEF ReadBack, core1
    <3> QED BY <3>1, <3>2, <3>3, <3>4 DEF Generations, InSketch
  <2> QED BY <1>9, <2>1, <2>2, Zenon DEF ReadBack
<1>10. CASE Boot
  BY <1>10 DEF Boot, Generations, Published, Transaction, Handshake, InSketch, core1, history,
     txVars, pinVars
<1>11. CASE Core1 \/ Sketch
  BY <1>11, ZenonT(30) DEF Core1, Sketch, ParkFirst, ParkSecond, ParkStore, ParkSpin, ParkClear,
     LoadGeneration, StoreReturned, SetupReturns, LoopReturns, Core1Only, Generations, Published,
     Handshake, InSketch, txVars
<1>12. CASE PowerCycle
  <2>1. /\ gen' = 0 /\ returned' = 0 /\ nextGen' = 2 /\ running' = 0
        /\ pc0' = "boot" /\ pc1' = "top" /\ last'.id = 0
    BY <1>12 DEF PowerCycle, NoUpload
  <2> QED BY <2>1 DEF Generations, InSketch
<1> QED BY <1>1, <1>2, <1>3, <1>5, <1>6, <1>7, <1>8, <1>9, <1>10, <1>11, <1>12 DEF Next, Core0

----------------------------------------------------------------------------
\* Stuttering steps preserve everything.
LEMMA TxStutter ==
  ASSUME TxInv, UNCHANGED vars
  PROVE  TxInv'
<1> USE DEF vars, txVars, swVars, pinVars, flash, rtVars, core1, history
<1>1. TransactionType'
  BY DEF TxInv, TypeOK, TransactionType
<1>2. MachineType'
  <2> USE DEF TxInv, TypeOK, MachineType
  <2>1. (/\ armed \in BOOLEAN /\ requested \in BOOLEAN /\ parked \in BOOLEAN
         /\ swOwner \in Owners \cup {None} /\ waited \in 0..PauseTimeout
         /\ slot \in Contents /\ before \in Contents /\ page \in Nat)'
    OBVIOUS
  <2> QED BY <2>1
<1>3. Transaction'
  BY TransactionFrame DEF TxInv
<1>4. Record'
  BY DEF TxInv, Record, InstalledIsWhole
<1> QED BY <1>1, <1>2, <1>3, <1>4 DEF TxInv, TypeOK

\* A stuttering step preserves the invariant.
LEMMA IndStutter ==
  ASSUME IndInv, UNCHANGED vars
  PROVE  IndInv'
<1> USE DEF vars, txVars, swVars, pinVars, flash, rtVars, core1, history
<1>1. TxInv'
  BY TxStutter DEF IndInv
<1>2. Handshake'
  BY DEF IndInv, Handshake, Flashing
<1>3. Published'
  BY DEF IndInv, Published, InSketch
<1>4. Generations'
  BY GenerationsFrame DEF IndInv, Flashing
<1> QED BY <1>1, <1>2, <1>3, <1>4 DEF IndInv

\* The transaction, its stage and its record, for every number of sessions,
\* capsules and pages and without any assumption on core 1's timing.
THEOREM TxInvariant == Spec => []TxInv
<1>1. TxInv /\ [Next]_vars => TxInv'
  <2> SUFFICES ASSUME TxInv, [Next]_vars PROVE TxInv'
    OBVIOUS
  <2>1. CASE Next
    BY <2>1, TransactionTypeStep, MachineTypeStep, TransactionStep, RecordStep DEF TxInv, TypeOK
  <2>2. CASE UNCHANGED vars
    BY <2>2, TxStutter
  <2> QED BY <2>1, <2>2
<1> QED BY TxInit, <1>1, PTL DEF Spec

\* Every variable keeps its type: in particular the next generation is never 0,
\* page never leaves the slot and statuses stay within the protocol's table.
THEOREM TypeCorrect == Spec => []TypeOK
<1>1. TxInv => TypeOK
  BY DEF TxInv
<1> QED BY <1>1, TxInvariant, PTL

\* A status of installed or boot_confirmed means the slot holds the capsule.
THEOREM InstalledCorrect == Spec => []InstalledIsWhole
<1>1. TxInv => InstalledIsWhole
  BY DEF TxInv, Record
<1> QED BY <1>1, TxInvariant, PTL

\* A transaction that failed or was aborted without slot_touched left the slot
\* as flash.begin found it.
THEOREM UntouchedCorrect == Spec => []UntouchedIsIntact
<1>1. TxInv => UntouchedIsIntact
  BY DEF TxInv, Record, Transaction, UntouchedIsIntact
<1> QED BY <1>1, TxInvariant, PTL

\* With the handshake and the generations, given prompt parking.
THEOREM FullInvariant == ASSUME PromptPark PROVE Spec => []IndInv
<1>1. Init => IndInv
  <2> SUFFICES ASSUME Init PROVE IndInv
    OBVIOUS
  <2>1. TxInv
    BY TxInit
  <2>2. Handshake
    BY DEF Init, Handshake, Flashing, FlashPhases
  <2>3. Published
    BY DEF Init, Published, InSketch
  <2>4. Generations
    BY DEF Init, Generations, InSketch, Flashing, FlashPhases, NoUpload
  <2> QED BY <2>1, <2>2, <2>3, <2>4 DEF IndInv
<1>2. IndInv /\ [Next]_vars => IndInv'
  <2> SUFFICES ASSUME IndInv, [Next]_vars PROVE IndInv'
    OBVIOUS
  <2>1. CASE Next
    BY <2>1, TransactionTypeStep, MachineTypeStep, TransactionStep, RecordStep, HandshakeStep,
       PublishedStep, GenerationsStep DEF IndInv, TxInv, TypeOK
  <2>2. CASE UNCHANGED vars
    BY <2>2, IndStutter
  <2> QED BY <2>1, <2>2
<1> QED BY <1>1, <1>2, PTL DEF Spec

\* No flash command runs while core 1 is anywhere but in its SRAM spin loop.
THEOREM FlashSafe == ASSUME PromptPark PROVE Spec => []FlashQuiescent
<1>1. IndInv => FlashQuiescent
  BY DEF IndInv, Handshake, Flashing, FlashQuiescent
<1> QED BY <1>1, FullInvariant, PTL

\* Core 1 only executes sketches that the slot holds entirely.
THEOREM ExecutesWhole == ASSUME PromptPark PROVE Spec => []ExecutesWholeImage
<1>1. IndInv => ExecutesWholeImage
  BY DEF IndInv, Published, InSketch, ExecutesWholeImage
<1> QED BY <1>1, FullInvariant, PTL

\* Core 1 calls no loop() before the same sketch's setup().
THEOREM SetupFirst == ASSUME PromptPark PROVE Spec => []SetupBeforeLoop
<1>1. IndInv => SetupBeforeLoop
  BY DEF IndInv, Published, Generations, InSketch, SetupBeforeLoop
<1> QED BY <1>1, FullInvariant, PTL

\* A status of boot_confirmed means that transaction's loop() has returned.
THEOREM ConfirmedCorrect == ASSUME PromptPark PROVE Spec => []ConfirmedMeansRan
<1>1. IndInv => ConfirmedMeansRan
  BY DEF IndInv, Generations, ConfirmedMeansRan
<1> QED BY <1>1, FullInvariant, PTL

\* What core 1 runs is whole and set up before it loops.
THEOREM SketchSound == ASSUME PromptPark PROVE Spec => []SketchIsSound
<1>1. ExecutesWholeImage /\ SetupBeforeLoop => SketchIsSound
  BY DEF SketchIsSound
<1> QED BY <1>1, ExecutesWhole, SetupFirst, PTL

\* The status that FmgoUpload keeps is true of the slot and of the sketch.
THEOREM StatusCorrect == ASSUME PromptPark PROVE Spec => []StatusIsTrue
<1>1. InstalledIsWhole /\ ConfirmedMeansRan /\ UntouchedIsIntact => StatusIsTrue
  BY DEF StatusIsTrue
<1> QED BY <1>1, InstalledCorrect, ConfirmedCorrect, UntouchedCorrect, PTL

----------------------------------------------------------------------------
(* The retained record: ManagedUpload implements UploadRecord *)

\* What the refinement needs beyond TxInv: the count in the record is what the
\* stage holds, and the header page of a slot being programmed is that of the
\* transaction's capsule, if it is any capsule's.
Staged ==
  /\ last.id # 0 /\ last.state = "accepted" => Len(stage.data) = last.received
  /\ pc0 = "program" => slot[1] \in {last.capsule, Bad, Erased}

\* The pages of the stage of a committing transaction are its capsule's.
LEMMA StagedPages ==
  ASSUME TxInv, last.id # 0, last.state = "committing"
  PROVE  /\ stage.digest = last.capsule /\ last.capsule \in Capsules
         /\ ~last.touched
         /\ Len(stage.data) = Size[last.capsule] /\ Len(stage.data) \in Nat
         /\ \A i \in 1..Len(stage.data) : stage.data[i] = last.capsule
<1>1. /\ stage.digest = last.capsule /\ last.capsule \in Capsules /\ ~last.touched
      /\ DigestMatches(stage)
  BY DEF TxInv, Transaction, BlocksConsole
<1>2. stage.data \in Seq(Capsules)
  BY DEF TxInv, TypeOK, TransactionType, StageRecord
<1> QED BY <1>1, <1>2 DEF DigestMatches

\* A slot holds at most one capsule: its header page names it.
LEMMA HoldsOne ==
  ASSUME NEW s, NEW c \in Valid, NEW d \in Valid, Holds(s, c), Holds(s, d)
  PROVE  c = d
<1>1. 1 \in 1..Size[c] /\ 1 \in 1..Size[d]
  BY UploadAssumption DEF UploadAssumption
<1> QED BY <1>1 DEF Holds

\* What SlotOf is when the slot holds a capsule, and when it holds none.
LEMMA SlotIs ==
  /\ \A c \in Valid : Holds(slot, c) => SlotOf = c
  /\ (\A c \in Valid : ~Holds(slot, c)) => SlotOf = None
  /\ SlotOf \in Valid \cup {None}
  /\ SlotOf # None => Holds(slot, SlotOf)
<1>1. ASSUME NEW c \in Valid, Holds(slot, c) PROVE SlotOf = c /\ Holds(slot, SlotOf)
  <2>1. SlotOf = CHOOSE d \in Valid : Holds(slot, d)
    BY <1>1 DEF SlotOf
  <2>2. SlotOf \in Valid /\ Holds(slot, SlotOf)
    BY <1>1, <2>1
  <2> QED BY <1>1, <2>2, HoldsOne
<1>2. ASSUME \A c \in Valid : ~Holds(slot, c) PROVE SlotOf = None
  BY <1>2 DEF SlotOf
<1>3. CASE \E c \in Valid : Holds(slot, c)
  BY <1>1, <1>3, UploadAssumption DEF UploadAssumption
<1>4. CASE \A c \in Valid : ~Holds(slot, c)
  BY <1>2, <1>4
<1> QED BY <1>3, <1>4

\* The abstract slot does not move when the flash does not.
LEMMA SlotKept == ASSUME UNCHANGED slot PROVE SlotOf' = SlotOf
  BY DEF SlotOf, Holds

\* A blank slot holds no capsule.
LEMMA BlankIsNone == ASSUME slot' = Blank PROVE SlotOf' = None
<1>1. \A c \in Valid : ~Holds(Blank, c)
  BY UploadAssumption DEF UploadAssumption, Holds, Blank, Pages
<1> QED BY <1>1 DEF SlotOf

\* A page that did not program right takes the capsule away or leaves the slot.
LEMMA BadIsNone ==
  ASSUME slot \in Contents, NEW p \in Pages, slot' = [slot EXCEPT ![p] = Bad]
  PROVE  SlotOf' \in {SlotOf, None}
<1>1. ASSUME NEW c \in Valid, Holds(slot, c)'
      PROVE  Holds(slot, c)
  BY <1>1, UploadAssumption DEF UploadAssumption, Holds, Contents, Pages
<1>2. SlotOf' = None \/ (SlotOf' \in Valid /\ Holds(slot', SlotOf'))
  <2>1. CASE \E c \in Valid : Holds(slot', c)
    BY <2>1, Zenon DEF SlotOf
  <2>2. CASE \A c \in Valid : ~Holds(slot', c)
    BY <2>2, Zenon DEF SlotOf
  <2> QED BY <2>1, <2>2, Zenon
<1> QED BY <1>1, <1>2, SlotIs

\* Programming the transaction's own pages can only bring its own capsule.
LEMMA PageIsOwn ==
  ASSUME slot \in Contents, NEW p \in Pages, NEW k \in Capsules, NEW v \in {k, Bad},
         slot[1] \in {k, Bad, Erased}, slot' = [slot EXCEPT ![p] = v]
  PROVE  SlotOf' \in {k, None} /\ slot'[1] \in {k, Bad, Erased}
<1>1. slot'[1] \in {k, Bad, Erased}
  BY DEF Contents, Pages
<1>2. SlotOf' = None \/ (SlotOf' \in Valid /\ Holds(slot', SlotOf'))
  <2>1. CASE \E c \in Valid : Holds(slot', c)
    BY <2>1, Zenon DEF SlotOf
  <2>2. CASE \A c \in Valid : ~Holds(slot', c)
    BY <2>2, Zenon DEF SlotOf
  <2> QED BY <2>1, <2>2, Zenon
<1>3. ASSUME NEW c \in Valid, Holds(slot', c) PROVE c = k
  <2>1. slot'[1] = c
    BY <1>3, UploadAssumption, SMTT(30) DEF UploadAssumption, Holds
  <2> QED BY <1>1, <2>1, UploadAssumption DEF UploadAssumption
<1> QED BY <1>1, <1>2, <1>3, Zenon

\* Staged is inductive, given TxInv.
LEMMA StagedStep ==
  ASSUME TxInv, Staged, Next
  PROVE  Staged'
<1> USE UploadAssumption DEF UploadAssumption
<1>t. last \in UploadRecord /\ stage \in StageRecord /\ slot \in Contents /\ page \in Nat
  BY Zenon DEF TxInv, TypeOK, TransactionType, MachineType
<1>1. ASSUME NEW o \in Owners, NEW c \in Capsules, Begin(o, c) PROVE Staged'
  <2>1. /\ last'.received = 0 /\ stage'.data = <<>> /\ pc0' = "loop"
    BY <1>1 DEF Begin, NoUpload, EmptyStage
  <2> QED BY <2>1 DEF Staged
<1>2. ASSUME NEW o \in Owners, NEW c \in Capsules, NEW n \in 1..MaxChunk, Chunk(o, c, n)
      PROVE Staged'
  <2>1. /\ last.id # 0 /\ last.state = "accepted" /\ pc0 = "loop" /\ pc0' = "loop"
        /\ last' = [last EXCEPT !.received = @ + n]
        /\ stage' = [stage EXCEPT !.data = @ \o [i \in 1..n |-> c]]
    BY <1>2 DEF Chunk
  <2>2. last'.received = last.received + n
    BY <1>t, <2>1 DEF UploadRecord
  <2>3. stage'.data = stage.data \o [i \in 1..n |-> c] /\ stage.data \in Seq(Capsules)
    BY <1>t, <2>1, Zenon DEF StageRecord
  <2>4. [i \in 1..n |-> c] \in Seq(Capsules) /\ Len([i \in 1..n |-> c]) = n
    OBVIOUS
  <2>5. Len(stage'.data) = Len(stage.data) + n
    BY <2>3, <2>4
  <2> QED BY <2>1, <2>2, <2>5 DEF Staged
<1>3. ASSUME last'.state # "accepted", pc0' # "program" PROVE Staged'
  BY <1>3 DEF Staged
<1>4. ASSUME UNCHANGED <<last, stage>>, pc0' # "program" PROVE Staged'
  BY <1>4 DEF Staged
<1>5. ASSUME NEW o \in Owners, Finish(o) \/ Commit(o) \/ Abort(o) \/ Disconnect(o)
      PROVE Staged'
  <2>1. last'.state # "accepted" /\ pc0' = "loop"
    BY <1>5, <1>t, Zenon DEF Finish, Commit, Abort, Disconnect, Abandon, UploadRecord
  <2> QED BY <1>3, <2>1
<1>6. CASE PollConfirm
  BY <1>3, <1>6, <1>t DEF PollConfirm, UploadRecord
<1>7. ASSUME NEW st, NEW error, NEW touched, Fail(st, error, touched), pc0' = "loop"
      PROVE Staged'
  <2>1. last'.state = "failed"
    BY <1>7, <1>t, Zenon DEF Fail, UploadRecord
  <2> QED BY <1>3, <1>7, <2>1
<1>8. CASE PollCommit
  BY <1>4, <1>7, <1>8, Zenon DEF PollCommit
<1>9. CASE RequestStore \/ PollWaiting \/ FlashBegin
  BY <1>4, <1>7, <1>9, Zenon DEF RequestStore, PollWaiting, FlashBegin, InstallFailed, txVars
<1>10. CASE CheckParked
  <2>1. ASSUME last' = [last EXCEPT !.touched = FALSE], UNCHANGED stage, pc0' = "loop"
        PROVE Staged'
    <3>1. last'.id = last.id /\ last'.state = last.state /\ last'.received = last.received
      BY <1>t, <2>1 DEF UploadRecord
    <3> QED BY <2>1, <3>1 DEF Staged
  <2> QED BY <1>4, <1>7, <1>10, <2>1, Zenon DEF CheckParked, txVars
<1>11. CASE FlashErase
  <2>1. ASSUME slot' = Blank, UNCHANGED <<txVars, stage>>, pc0' = "program" PROVE Staged'
    <3>1. slot'[1] = Erased
      <4>1. last.id # 0 /\ last.state = "committing"
        BY <1>11 DEF FlashErase, TxInv, Transaction
      <4>2. last.capsule \in Capsules
        BY <4>1, StagedPages
      <4>3. 1 \in Pages
        BY <4>2 DEF Pages
      <4> QED BY <2>1, <4>3, ZenonT(30) DEF Blank
    <3> QED BY <2>1, <3>1 DEF Staged, txVars
  <2> QED BY <1>7, <1>11, <2>1, Zenon DEF FlashErase, InstallFailed
<1>12. CASE FlashProgram
  <2>0. last.id # 0 /\ last.state = "committing" /\ page \in 1..Len(stage.data)
    BY <1>12 DEF FlashProgram, TxInv, Transaction
  <2>1. /\ last.capsule \in Capsules /\ Len(stage.data) = Size[last.capsule]
        /\ \A i \in 1..Len(stage.data) : stage.data[i] = last.capsule
    BY <2>0, StagedPages
  <2>2. page \in Pages /\ stage.data[page] = last.capsule
    BY <2>0, <2>1 DEF Pages
  <2>3. ASSUME NEW p \in {stage.data[page], Bad}, slot' = [slot EXCEPT ![page] = p],
               UNCHANGED <<txVars, stage>>
        PROVE Staged'
    <3>1. slot'[1] \in {last.capsule, Bad, Erased}
      BY <1>12, <1>t, <2>1, <2>2, <2>3, PageIsOwn DEF FlashProgram, Staged
    <3> QED BY <2>3, <3>1, ZenonT(30) DEF Staged, txVars
  <2> QED BY <1>7, <1>12, <2>3, Zenon DEF FlashProgram, InstallFailed
<1>13. CASE ReadBack
  <2>1. ASSUME last' = [last EXCEPT !.state = "installed", !.touched = TRUE], pc0' = "loop"
        PROVE Staged'
    BY <1>3, <1>t, <2>1, SMTT(30) DEF UploadRecord
  <2> QED BY <1>7, <1>13, <2>1, Zenon DEF ReadBack, InstallFailed
<1>14. CASE PowerCycle
  BY <1>14 DEF PowerCycle, Staged, NoUpload
<1>15. CASE Boot
  BY <1>4, <1>15 DEF Boot, txVars
<1>16. CASE Core1 \/ Sketch \/ ToggleArm \/ Tick
  <2>1. UNCHANGED <<last, stage, slot, pc0>>
    BY <1>16, Zenon DEF Core1, Sketch, ToggleArm, Tick, txVars, flash, ParkFirst, ParkSecond, ParkStore,
       ParkSpin, ParkClear, LoadGeneration, StoreReturned, SetupReturns, LoopReturns, Core1Only
  <2> QED BY <2>1, Zenon DEF Staged
<1> QED BY Zenon, <1>1, <1>2, <1>5, <1>6, <1>8, <1>9, <1>10, <1>11, <1>12, <1>13, <1>14, <1>15,
           <1>16 DEF Next, Requests, Core0

\* The record of a live transaction, field by field.
LEMMA RecordIs ==
  ASSUME last.id # 0
  PROVE  RecordOf = [id |-> last.id, owner |-> owner, capsule |-> last.capsule,
                     state |-> last.state, received |-> last.received,
                     touched |-> last.touched]
  BY Zenon DEF RecordOf

\* A step that keeps the transaction's identity changes the record's other fields.
LEMMA RecordMoves ==
  ASSUME last.id # 0, last'.id = last.id, owner' = owner, last'.capsule = last.capsule
  PROVE  /\ last'.touched = last.touched /\ last'.received = last.received
              => RecordOf' = [RecordOf EXCEPT !.state = last'.state]
         /\ last'.touched = last.touched /\ last'.state = last.state
              => RecordOf' = [RecordOf EXCEPT !.received = last'.received]
         /\ last'.received = last.received
              => RecordOf' = [RecordOf EXCEPT !.state = last'.state, !.touched = last'.touched]
<1>1. RecordOf' = [id |-> last.id, owner |-> owner, capsule |-> last.capsule,
                   state |-> last'.state, received |-> last'.received,
                   touched |-> last'.touched]
  BY Zenon DEF RecordOf
<1>2. RecordOf = [id |-> last.id, owner |-> owner, capsule |-> last.capsule,
                  state |-> last.state, received |-> last.received,
                  touched |-> last.touched]
  BY RecordIs
<1>3. ASSUME last'.touched = last.touched, last'.received = last.received
      PROVE RecordOf' = [RecordOf EXCEPT !.state = last'.state]
  BY <1>1, <1>2, <1>3
<1>4. ASSUME last'.touched = last.touched, last'.state = last.state
      PROVE RecordOf' = [RecordOf EXCEPT !.received = last'.received]
  BY <1>1, <1>2, <1>4
<1>5. ASSUME last'.received = last.received
      PROVE RecordOf' = [RecordOf EXCEPT !.state = last'.state, !.touched = last'.touched]
  <2>1. PICK s, u : s = last'.state /\ u = last'.touched
    OBVIOUS
  <2>2. PICK r : r = [RecordOf EXCEPT !.state = s, !.touched = u]
    OBVIOUS
  <2>3. r = [id |-> last.id, owner |-> owner, capsule |-> last.capsule,
             state |-> s, received |-> last.received, touched |-> u]
    BY <1>2, <2>2, Zenon
  <2>4. r = RecordOf'
    BY <1>1, <1>5, <2>1, <2>3
  <2> QED BY <2>1, <2>2, <2>4
<1> QED BY <1>3, <1>4, <1>5, Zenon

\* The ids given out: one less than the next, and none after the counter wrapped.
LEMMA IdsAre ==
  /\ \A n \in 1..Width-1 : (n + Width - 1) % Width = n - 1
  /\ (0 + Width - 1) % Width = Width - 1
  /\ \A n \in 1..Width-1 : (((n + 1) % Width) + Width - 1) % Width = n
<1> USE UploadAssumption DEF UploadAssumption
<1>1. \A n \in 0..Width-1 : n % Width = n
  OBVIOUS
<1>2. ASSUME NEW n \in 1..Width-1 PROVE (n + Width - 1) % Width = n - 1
  <2>1. n - 1 \in 0..Width-1 /\ n + Width - 1 = (n - 1) + Width
    OBVIOUS
  <2>2. ((n - 1) + Width) % Width = (n - 1) % Width
    OBVIOUS
  <2> QED BY <1>1, <2>1, <2>2
<1>3. ASSUME NEW n \in 1..Width-1 PROVE (((n + 1) % Width) + Width - 1) % Width = n
  <2>1. CASE n + 1 = Width
    <3>1. (n + 1) % Width = 0
      BY <2>1
    <3> QED BY <1>1, <2>1, <3>1
  <2>2. CASE n + 1 # Width
    <3>1. (n + 1) % Width = n + 1 /\ n + 1 \in 1..Width-1
      BY <1>1, <2>2
    <3> QED BY <1>2, <3>1
  <2> QED BY <2>1, <2>2
<1> QED BY <1>1, <1>2, <1>3

\* A step that leaves the transaction and the flash alone is no step of the record.
LEMMA RecordRests ==
  ASSUME UNCHANGED <<last, owner, nextId, slot>>
  PROVE  UNCHANGED Promise!recordVars
<1>1. RecordOf' = RecordOf
  BY Zenon DEF RecordOf
<1> QED BY <1>1, SlotKept, Zenon DEF Promise!recordVars

\* A session's request is that request of the record.
LEMMA RequestRefines ==
  ASSUME TxInv, Staged, NEW o \in Owners,
         \/ \E c \in Capsules : Begin(o, c)
         \/ \E c \in Capsules, n \in 1..MaxChunk : Chunk(o, c, n)
         \/ Finish(o) \/ Commit(o) \/ Abort(o) \/ Disconnect(o)
  PROVE  Promise!Request(o)
<1> USE UploadAssumption DEF UploadAssumption
<1>t. last \in UploadRecord /\ stage \in StageRecord /\ nextId \in 0..Width-1
  BY DEF TxInv, TypeOK, TransactionType
<1>s. SlotOf' = SlotOf
  BY SlotKept, Zenon DEF Begin, Chunk, Finish, Commit, Abort, Disconnect, Abandon, flash
<1>1. ASSUME NEW c \in Capsules, Begin(o, c) PROVE Promise!Begin(o, c)
  <2>0. nextId \in 1..Width-1
    <3>1. nextId # 0
      BY <1>1, Zenon DEF Begin, IdsLeft
    <3> QED BY <1>t, <3>1
  <2>1. /\ nextId' = (nextId + 1) % Width /\ owner' = o
        /\ last' = [NoUpload EXCEPT !.id = nextId, !.capsule = c, !.state = "accepted"]
    BY <1>1, Zenon DEF Begin
  <2>2. ~Promise!Busy
    BY <1>1, Zenon DEF Begin, BlocksConsole, Promise!Busy, RecordOf
  <2>3. (nextId + Width - 1) % Width = nextId - 1 /\ (nextId' + Width - 1) % Width = nextId
    BY <2>0, <2>1, IdsAre
  <2>4. /\ last'.id = nextId /\ last'.capsule = c /\ last'.state = "accepted"
        /\ last'.received = 0 /\ last'.touched = FALSE
    BY <2>1 DEF NoUpload
  <2>5. RecordOf' = [id |-> nextId, owner |-> o, capsule |-> c, state |-> "accepted",
                     received |-> 0, touched |-> FALSE]
    <3>1. nextId # 0 /\ last'.id # 0
      BY <2>0, <2>4
    <3> QED BY <2>1, <2>4, <3>1, Zenon DEF RecordOf
  <2>6. nextId - 1 < Width - 1 /\ nextId = (nextId - 1) + 1
    BY <2>0
  <2> QED BY <1>s, <2>2, <2>3, <2>5, <2>6, ZenonT(30) DEF Promise!Begin
<1>2. ASSUME NEW c \in Capsules, NEW n \in 1..MaxChunk, Chunk(o, c, n)
      PROVE Promise!Request(o)
  <2>1. /\ last.id # 0 /\ o = owner /\ last.state = "accepted"
        /\ n <= Size[last.capsule] - last.received
        /\ last' = [last EXCEPT !.received = @ + n] /\ UNCHANGED <<owner, nextId>>
    BY <1>2 DEF Chunk
  <2>2. /\ last'.id = last.id /\ last'.capsule = last.capsule /\ last'.state = last.state
        /\ last'.touched = last.touched /\ last'.received = last.received + n
    BY <1>t, <2>1 DEF UploadRecord
  <2>3. /\ RecordOf' = [RecordOf EXCEPT !.received = last'.received]
        /\ RecordOf.received = last.received /\ RecordOf.id = last.id
        /\ RecordOf.owner = o /\ RecordOf.state = "accepted"
        /\ RecordOf.capsule = last.capsule
    BY <2>1, <2>2, RecordMoves, RecordIs
  <2>4. last.capsule \in Capsules /\ last.received \in Nat
    BY <1>t, <2>1 DEF TxInv, Transaction, UploadRecord
  <2>5. n \in 1..Size[last.capsule]
    BY <2>1, <2>4
  <2>6. Promise!Chunk(o, n)
    BY <1>s, <2>1, <2>2, <2>3 DEF Promise!Chunk, Promise!Held
  <2> QED BY <2>1, <2>3, <2>5, <2>6 DEF Promise!Request
<1>3. CASE Finish(o)
  <2>1. /\ last.id # 0 /\ o = owner /\ last.state = "accepted" /\ UNCHANGED <<owner, nextId>>
        /\ stage.owner = o /\ ~stage.verified /\ stage.digest = last.capsule
        /\ Len(stage.data) = Size[stage.digest]
    BY <1>3 DEF Finish, TxInv, Transaction, BlocksConsole
  <2>2. /\ last'.id = last.id /\ last'.capsule = last.capsule /\ last'.received = last.received
        /\ last'.touched = last.touched
        /\ \/ last'.state = "verified" /\ last.capsule \in Valid
           \/ last'.state = "failed"
    BY <1>3, <1>t, <2>1, ZenonT(30) DEF Finish, UploadRecord
  <2>3. /\ RecordOf' = [RecordOf EXCEPT !.state = last'.state]
        /\ RecordOf.received = last.received /\ RecordOf.id = last.id
        /\ RecordOf.owner = o /\ RecordOf.state = "accepted"
        /\ RecordOf.capsule = last.capsule
    BY <2>1, <2>2, RecordMoves, RecordIs
  <2>4. last.received = Size[last.capsule]
    BY <2>1 DEF Staged
  <2>5. Promise!Finish(o)
    BY <1>s, <2>1, <2>2, <2>3, <2>4 DEF Promise!Finish, Promise!Held
  <2> QED BY <2>5 DEF Promise!Request
<1>4. CASE Commit(o)
  <2>1. /\ last.id # 0 /\ o = owner /\ last.state = "verified" /\ UNCHANGED <<owner, nextId>>
        /\ last' = [last EXCEPT !.state = "committing"]
    BY <1>4 DEF Commit
  <2>2. /\ last'.id = last.id /\ last'.capsule = last.capsule /\ last'.state = "committing"
        /\ last'.received = last.received /\ last'.touched = last.touched
    BY <1>t, <2>1 DEF UploadRecord
  <2>3. Promise!Commit(o)
    BY <1>s, <2>1, <2>2, RecordMoves, RecordIs DEF Promise!Commit, Promise!Held
  <2> QED BY <2>3 DEF Promise!Request
<1>5. ASSUME NEW error, Abandon(o, error) PROVE Promise!Request(o)
  <2>1. /\ last.id # 0 /\ o = owner /\ last.state \in {"accepted", "verified"}
        /\ last' = [last EXCEPT !.state = "aborted", !.error = error]
        /\ UNCHANGED <<owner, nextId>>
    BY <1>5 DEF Abandon, Uncommitted
  <2>2. /\ last'.id = last.id /\ last'.capsule = last.capsule /\ last'.state = "aborted"
        /\ last'.received = last.received /\ last'.touched = last.touched
    BY <1>t, <2>1 DEF UploadRecord
  <2>3. Promise!Abandon(o)
    BY <1>s, <2>1, <2>2, RecordMoves, RecordIs DEF Promise!Abandon, Promise!Held
  <2> QED BY <2>3 DEF Promise!Request
<1> QED BY <1>1, <1>2, <1>3, <1>4, <1>5, Zenon DEF Promise!Request, Abort, Disconnect

\* FmgoUpload::fail is the record giving up, or spoiling the slot it has touched.
LEMMA FailRefines ==
  ASSUME TxInv, last.id # 0, last.state = "committing", NEW st, NEW error,
         NEW touched \in BOOLEAN, Fail(st, error, touched),
         IF touched THEN SlotOf' \in {SlotOf, None} ELSE SlotOf' = SlotOf
  PROVE  Promise!Poll
<1>t. last \in UploadRecord
  BY DEF TxInv, TypeOK, TransactionType
<1>1. /\ last' = [last EXCEPT !.state = "failed", !.error = error, !.touched = touched]
      /\ UNCHANGED <<owner, nextId>>
  BY DEF Fail
<1>2. /\ last'.id = last.id /\ last'.capsule = last.capsule /\ last'.received = last.received
      /\ last'.state = "failed" /\ last'.touched = touched
  BY <1>t, <1>1 DEF UploadRecord
<1>3. RecordOf.id = last.id /\ RecordOf.state = "committing"
  BY RecordIs
<1>4. CASE ~touched
  <2>1. last'.touched = last.touched
    <3>1. ~last.touched /\ last.touched \in BOOLEAN
      BY <1>t, StagedPages DEF UploadRecord
    <3> QED BY <1>2, <1>4, <3>1, Zenon
  <2>2. RecordOf' = [RecordOf EXCEPT !.state = "failed"]
    BY <1>1, <1>2, <2>1, RecordMoves
  <2>3. Promise!GiveUp
    BY <1>1, <1>3, <1>4, <2>2 DEF Promise!GiveUp, Promise!Busy
  <2> QED BY <2>3 DEF Promise!Poll
<1>5. CASE touched
  <2>1. RecordOf' = [RecordOf EXCEPT !.state = last'.state, !.touched = last'.touched]
    BY <1>1, <1>2, RecordMoves
  <2>2. last'.touched = TRUE
    BY <1>2, <1>5, Zenon
  <2>3. Promise!Spoil
    BY <1>1, <1>2, <1>3, <1>5, <2>1, <2>2 DEF Promise!Spoil, Promise!Busy
  <2> QED BY <2>3 DEF Promise!Poll
<1> QED BY <1>4, <1>5

\* Every step of FmgoUpload::poll, flash commands included, is a step of the
\* record or leaves it alone.
LEMMA PollRefines ==
  ASSUME TxInv, Staged, Core0
  PROVE  Promise!Poll \/ UNCHANGED Promise!recordVars
<1> USE UploadAssumption DEF UploadAssumption
<1>t. last \in UploadRecord /\ stage \in StageRecord /\ slot \in Contents
  BY DEF TxInv, TypeOK, TransactionType, MachineType
<1>0. CASE PollConfirm
  <2>1. /\ last.id # 0 /\ last.state = "installed"
        /\ last' = [last EXCEPT !.state = "boot_confirmed"] /\ UNCHANGED <<owner, nextId, slot>>
    BY <1>0 DEF PollConfirm, flash
  <2>2. /\ last'.id = last.id /\ last'.capsule = last.capsule /\ last'.state = "boot_confirmed"
        /\ last'.received = last.received /\ last'.touched = last.touched
    BY <1>t, <2>1 DEF UploadRecord
  <2>3. Promise!Confirm
    BY <2>1, <2>2, RecordMoves, RecordIs, SlotKept DEF Promise!Confirm
  <2> QED BY <2>3 DEF Promise!Poll
<1>1. CASE PollCommit
  <2>1. /\ last.id # 0 /\ last.state = "committing" /\ UNCHANGED slot
        /\ last.touched \in BOOLEAN /\ ~last.touched
    BY <1>1, <1>t, StagedPages DEF PollCommit, flash, UploadRecord
  <2>2. ASSUME NEW error, Fail(stage, error, last.touched) PROVE Promise!Poll
    BY <2>1, <2>2, FailRefines, SlotKept
  <2>3. ASSUME UNCHANGED <<last, owner, nextId, stage>> PROVE UNCHANGED Promise!recordVars
    BY <2>1, <2>3, RecordRests
  <2> QED BY <1>1, <2>2, <2>3, ZenonT(30) DEF PollCommit
<1>2. CASE RequestStore \/ Boot
  BY <1>2, RecordRests DEF RequestStore, Boot, txVars, flash
<1>3. CASE PollWaiting
  <2>1. last.id # 0 /\ last.state = "committing" /\ UNCHANGED slot
    BY <1>3 DEF PollWaiting, flash
  <2>2. ASSUME NEW error, Fail(StageAbort(swOwner), error, FALSE) PROVE Promise!Poll
    BY <2>1, <2>2, FailRefines, SlotKept, Zenon
  <2>3. ASSUME UNCHANGED txVars PROVE UNCHANGED Promise!recordVars
    BY <2>1, <2>3, RecordRests DEF txVars
  <2> QED BY <1>3, <2>2, <2>3, Zenon DEF PollWaiting
<1>4. CASE CheckParked
  <2>1. last.id # 0 /\ last.state = "committing" /\ UNCHANGED slot
    BY <1>4 DEF CheckParked, TxInv, Transaction, flash
  <2>2. ASSUME NEW error, Fail(StageAbort(swOwner), error, FALSE) PROVE Promise!Poll
    BY <2>1, <2>2, FailRefines, SlotKept, Zenon
  <2>3. ASSUME UNCHANGED txVars PROVE UNCHANGED Promise!recordVars
    BY <2>1, <2>3, RecordRests DEF txVars
  <2>4. ASSUME last' = [last EXCEPT !.touched = FALSE], UNCHANGED <<owner, nextId>>
        PROVE UNCHANGED Promise!recordVars
    <3>1. last.touched = FALSE
      <4>1. ~last.touched /\ last.touched \in BOOLEAN
        BY <1>t, <2>1, StagedPages DEF UploadRecord
      <4> QED BY <4>1, Zenon
    <3>2. last' = last
      BY <1>t, <2>4, <3>1 DEF UploadRecord
    <3> QED BY <2>1, <2>4, <3>2, RecordRests
  <2> QED BY <1>4, <2>2, <2>3, <2>4, Zenon DEF CheckParked
<1>5. CASE FlashBegin
  <2>1. last.id # 0 /\ last.state = "committing" /\ UNCHANGED slot
    BY <1>5 DEF FlashBegin, TxInv, Transaction, flash
  <2>2. ASSUME NEW error, Fail(StageAbort(swOwner), error, FALSE) PROVE Promise!Poll
    BY <2>1, <2>2, FailRefines, SlotKept, Zenon
  <2>3. ASSUME UNCHANGED txVars PROVE UNCHANGED Promise!recordVars
    BY <2>1, <2>3, RecordRests DEF txVars
  <2> QED BY <1>5, <2>2, <2>3, Zenon DEF FlashBegin, InstallFailed
\* While core 0 is in the flash the record says committing; only the slot moves.
<1>6. ASSUME last.id # 0, last.state = "committing", UNCHANGED txVars,
             SlotOf' \in {None, last.capsule}
      PROVE Promise!Poll
  <2>1. RecordOf' = RecordOf /\ nextId' = nextId
    BY <1>6 DEF RecordOf, txVars
  <2>2. RecordOf.id = last.id /\ RecordOf.state = "committing" /\ RecordOf.capsule = last.capsule
    BY <1>6, RecordIs, SMTT(30)
  <2>3. Promise!Write
    BY <1>6, <2>1, <2>2 DEF Promise!Write, Promise!Busy
  <2> QED BY <2>3, ZenonT(30) DEF Promise!Poll
<1>7. CASE FlashErase
  <2>1. last.id # 0 /\ last.state = "committing"
    BY <1>7 DEF FlashErase, TxInv, Transaction
  <2>2. ASSUME slot' = Blank, UNCHANGED txVars PROVE Promise!Poll
    BY <1>6, <2>1, <2>2, BlankIsNone
  <2>3. ASSUME slot' \in {slot, Blank}, InstallFailed(TRUE) PROVE Promise!Poll
    BY <2>1, <2>3, FailRefines, BlankIsNone, SlotKept, Zenon DEF InstallFailed
  <2> QED BY <1>7, <2>2, <2>3, Zenon DEF FlashErase
<1>8. CASE FlashProgram
  <2>1. last.id # 0 /\ last.state = "committing" /\ page \in 1..Len(stage.data)
    BY <1>8 DEF FlashProgram, TxInv, Transaction
  <2>2. /\ last.capsule \in Capsules /\ Len(stage.data) = Size[last.capsule]
        /\ \A i \in 1..Len(stage.data) : stage.data[i] = last.capsule
    BY <2>1, StagedPages
  <2>3. page \in Pages /\ stage.data[page] = last.capsule
    BY <2>1, <2>2 DEF Pages
  <2>4. ASSUME NEW p \in {stage.data[page], Bad}, slot' = [slot EXCEPT ![page] = p],
               UNCHANGED txVars
        PROVE Promise!Poll
    <3>1. SlotOf' \in {last.capsule, None}
      BY <1>8, <1>t, <2>2, <2>3, <2>4, PageIsOwn, Zenon DEF FlashProgram, Staged
    <3> QED BY <1>6, <2>1, <2>4, <3>1
  <2>5. ASSUME slot' \in {slot, [slot EXCEPT ![page] = Bad]}, InstallFailed(TRUE)
        PROVE Promise!Poll
    <3>1. SlotOf' \in {SlotOf, None}
      BY <1>t, <2>3, <2>5, BadIsNone, SlotKept
    <3> QED BY <2>1, <2>5, <3>1, FailRefines, Zenon DEF InstallFailed
  <2> QED BY <1>8, <2>4, <2>5, Zenon DEF FlashProgram
<1>9. CASE ReadBack
  <2>1. last.id # 0 /\ last.state = "committing" /\ UNCHANGED slot
    BY <1>9 DEF ReadBack, TxInv, Transaction, flash
  <2>2. ASSUME InstallFailed(TRUE) PROVE Promise!Poll
    BY <2>1, <2>2, FailRefines, SlotKept, Zenon DEF InstallFailed
  <2>3. ASSUME SlotVerified, UNCHANGED <<owner, nextId>>,
               last' = [last EXCEPT !.state = "installed", !.touched = TRUE]
        PROVE Promise!Poll
    <3>1. SlotOf = last.capsule
      BY <2>1, <2>3, StagedPages, SlotIs DEF SlotVerified, Holds
    <3>2. /\ last'.id = last.id /\ last'.capsule = last.capsule /\ last'.state = "installed"
          /\ last'.received = last.received /\ last'.touched = TRUE
      BY <1>t, <2>3 DEF UploadRecord
    <3>3. /\ RecordOf' = [RecordOf EXCEPT !.state = last'.state, !.touched = last'.touched]
          /\ RecordOf.id = last.id /\ RecordOf.state = "committing"
          /\ RecordOf.capsule = last.capsule
      BY <2>1, <2>3, <3>2, RecordMoves, RecordIs
    <3>4. Promise!Install
      BY <2>1, <2>3, <3>1, <3>2, <3>3, SlotKept DEF Promise!Install, Promise!Busy
    <3> QED BY <3>4 DEF Promise!Poll
  <2> QED BY <1>9, <2>2, <2>3, Zenon DEF ReadBack
<1> QED BY <1>0, <1>1, <1>2, <1>3, <1>4, <1>5, <1>7, <1>8, <1>9, SMTT(30) DEF Core0

\* FmgoUpload with its stage, its switch and the flash implements UploadRecord, the
\* record that sessions and host tools rely on: whatever the cores, the power and
\* the flash do, each step is a step the record allows or none at all.
THEOREM ManagedKeepsPromise == Spec => KeepsPromise
<1>1. Init => Promise!RecordInit
  <2> SUFFICES ASSUME Init PROVE Promise!RecordInit
    OBVIOUS
  <2>1. RecordOf = Promise!NoRecord
    BY DEF Init, NoUpload, RecordOf, Promise!NoRecord
  <2>2. (nextId + Width - 1) % Width = 0
    <3>1. nextId = 1 /\ 1 \in 1..Width-1 /\ 1 - 1 = 0
      BY UploadAssumption, SMTT(30) DEF Init, UploadAssumption
    <3> QED BY <3>1, IdsAre
  <2> QED BY <2>1, <2>2, SlotIs, SMTT(30) DEF Promise!RecordInit
<1>2. Init => Staged
  BY DEF Init, Staged, NoUpload
<1>3. TxInv /\ Staged /\ [Next]_vars => Staged'
  <2> SUFFICES ASSUME TxInv, Staged, [Next]_vars PROVE Staged'
    BY Zenon
  <2>1. CASE UNCHANGED vars
    BY <2>1, Zenon DEF vars, txVars, flash, Staged
  <2> QED BY <2>1, StagedStep
<1>4. TxInv /\ Staged /\ [Next]_vars => [Promise!RecordNext]_(Promise!recordVars)
  <2> SUFFICES ASSUME TxInv, Staged, [Next]_vars
               PROVE  Promise!RecordNext \/ UNCHANGED Promise!recordVars
    OBVIOUS
  <2>1. CASE Requests
    BY <2>1, RequestRefines DEF Requests, Promise!RecordNext
  <2>2. CASE Core0
    BY <2>2, PollRefines, Zenon DEF Promise!RecordNext
  <2>3. CASE Core1 \/ Sketch \/ ToggleArm \/ Tick \/ UNCHANGED vars
    BY <2>3, RecordRests, Zenon DEF Core1, Sketch, ToggleArm, Tick, txVars, flash, ParkFirst, ParkSecond,
       ParkStore, ParkSpin, ParkClear, LoadGeneration, StoreReturned, SetupReturns, LoopReturns,
       Core1Only, vars
  <2>4. CASE PowerCycle
    <3>1. RecordOf' = Promise!NoRecord
      BY <2>4 DEF PowerCycle, NoUpload, RecordOf, Promise!NoRecord
    <3>2. (nextId' + Width - 1) % Width = 0
      <4>1. nextId' = 1 /\ 1 \in 1..Width-1 /\ 1 - 1 = 0
        BY <2>4, UploadAssumption DEF PowerCycle, UploadAssumption
      <4> QED BY <4>1, IdsAre
    <3>3. Promise!Reset
      BY <2>4, <3>1, <3>2, SlotKept DEF PowerCycle, Promise!Reset
    <3> QED BY <3>3, SMTT(30) DEF Promise!RecordNext
  <2> QED BY <2>1, <2>2, <2>3, <2>4 DEF Next
<1> QED BY <1>1, <1>2, <1>3, <1>4, TxInvariant, PTL DEF Spec, KeepsPromise, Promise!RecordSpec
=============================================================================
